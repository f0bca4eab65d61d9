-------------------------- MODULE MCDockerLogStore --------------------------
EXTENDS DockerLogStore, TLC

CONSTANTS m1, m2, m3, b1, b2, b3, b4

\* Two logs of service "a" and one of "b", or one of each.
MCInbox == <<m1, m2, m3>>
MCTwo == <<m1, m3>>
MCServiceOf == (m1 :> "a") @@ (m2 :> "a") @@ (m3 :> "b")

\* One session for "a", or none.
MCOneSub == "s1" :> "a"
MCNoSubs == <<>>

\* Two logs of one service.
MCSame == <<m1, m2>>
MCSameOf == (m1 :> "a") @@ (m2 :> "a")

BarrelSymmetry == Permutations(Barrels)
=============================================================================
