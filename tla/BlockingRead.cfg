SPECIFICATION FairSpec
CONSTANTS
  k1 = k1
  k2 = k2
  Keys = {k1, k2}
  Connections = {c1}
  Workloads <- MCWorkloads
  MaxReads = 2
INVARIANTS NoLostWakeup
PROPERTIES SubscribedReadsAnswered PolledReadsAnswered
CHECK_DEADLOCK FALSE
