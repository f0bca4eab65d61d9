SPECIFICATION FairSpec
CONSTANTS
  t1 = t1
  t2 = t2
  t3 = t3
  b1 = b1
  b2 = b2
  Builders = {b1, b2}
  Tasks = {t1, t2, t3}
  Inbox <- MCInbox
  TopicOf <- MCTopicOf
  Topic <- MCTopic
  Limited = {t1, t3}
  MaxConcurrentTask = 1
  Stoppable = {b1}
  MaxFaults = 1
INVARIANTS
  BoundedBuilds
  BuiltByOne
  NoTaskVanishes
  StopRecycles
PROPERTIES
  EventuallyBuilt
