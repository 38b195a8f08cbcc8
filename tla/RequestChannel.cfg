CONSTANTS
  Subs = {s1, s2}
  NoSub = NoSub
  MaxConcurrency = 2
  MaxPayloads = 4
  MaxDemand = 2
SPECIFICATION FairSpec
INVARIANTS TypeOK FifoDelivery EndAfterAll SingleTailConsumer DemandConserved
  HalvesCloseTogether NoOrphanedConsumer
PROPERTIES ImplementsStream TailSettles ChannelSettles
CHECK_DEADLOCK FALSE
