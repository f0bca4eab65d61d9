--------------------------- MODULE MCBuilderTasks ---------------------------
EXTENDS BuilderTasks, TLC

CONSTANTS t1, t2, t3, b1, b2

\* Two builders of one topic; the second task builds from an image, without
\* concurrencyControl, the others from source code.
MCInbox == <<t1, t2, t3>>
MCTopicOf == [t \in Tasks |-> BuilderTopic]
MCTopic == [b \in Builders |-> BuilderTopic]
=============================================================================
