--------------------------- MODULE MCHandleStore ---------------------------
EXTENDS HandleStore, TLC

CONSTANTS m1, m2, m3, m4

\* Receivers do the same, and so do handlers.
MCSymmetry == Permutations(Inserters) \cup Permutations(Handlers)

\* Event "a" gets its last message and a code version that stays in the
\* cache; event "b" a progress message in between; a message that cannot be
\* parsed follows.
MCInbox == <<m1, m2, m3, m4>>
MCEventOf == (m1 :> "a") @@ (m2 :> "b") @@ (m3 :> "a") @@ (m4 :> "b")
MCStepOf == (m1 :> "last") @@ (m2 :> "progress") @@ (m3 :> "code-version")
              @@ (m4 :> "info")

\* A final message that waits for its callback, one that stays in the cache
\* when its persistence command is dropped, and a final one that is one too
\* many unless the barrel is new.
MCLiveInbox == <<m1, m2, m3>>
MCLiveEventOf == [m \in {m1, m2, m3} |-> "a"]
MCLiveStepOf == (m1 :> "callback") @@ (m2 :> "info") @@ (m3 :> "last")
=============================================================================
