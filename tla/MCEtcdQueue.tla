---------------------------- MODULE MCEtcdQueue ----------------------------
EXTENDS EtcdQueue, TLC

CONSTANTS c1, c2, c3, m1, m2

\* Two of the topics every mq server registers (windows_builder behaves like
\* them).  Two consumers compete for one topic.
MCTopics == {"builder", "worker"}
MCCovers == [t \in MCTopics |-> {t}]
MCTopicOf == (c1 :> "worker") @@ (c2 :> "worker") @@ (c3 :> "builder")
=============================================================================
