CONSTANTS
  c1 = c1  c2 = c2  c3 = c3
  m1 = m1  m2 = m2
  Topics <- MCTopics
  Covers <- MCCovers
  Consumers = {c1, c2, c3}
  TopicOf <- MCTopicOf
  Messages = {m1, m2}
  Stamps = {1, 2}
  MaxFaults = 1
SPECIFICATION FairSpec
INVARIANTS AtMostOnce NothingVanishes
PROPERTIES ImplementsFifo EventuallyDelivered
