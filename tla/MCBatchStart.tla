---------------------------- MODULE MCBatchStart ----------------------------
(***************************************************************************)
(* Instances of BatchStart for TLC, with four services.                    *)
(***************************************************************************)
EXTENDS BatchStart

CONSTANTS s1, s2, s3, s4

\* Requests that name all services, or one of them twice
MCBatches == {<<s1, s2, s3, s4>>, <<s2, s1, s2>>}

\* Requests with a dependency outside the batch
MCThree == {<<s3, s1, s2>>, <<s2, s1, s2>>}

\* Nothing runs, a service of the batch, or the one outside of it
MCRunning == {{}, {s1}, {s4}}

\* A tenant over its limit, with memory for some of a batch, or for all of it
MCAllocatable == {-1, 3, 5}

MCMemory == (s1 :> 2) @@ (s2 :> 2) @@ (s3 :> 1) @@ (s4 :> 1)

=============================================================================
