CONSTANTS
  s1 = s1
  s2 = s2
  s3 = s3
  Servers <- MCServers
  Order <- MCOrder
  Uris = {"a", "b"}
  worker_uri <- MCworker_uri
  Eligible = {s1, s2}
  Changes = {c}
  NumChunks <- MCNumChunks
  Threads <- MCThreads
  None = None
  Quorum = 1
  MaxFaults = 1
  MaxFailed = 1
  Failures = {"request", "get_leader"}
SPECIFICATION Spec
CONSTRAINT BeforeMisread
INVARIANTS StateReadable AcknowledgedIsDurable
PROPERTIES OnlyTheLeaderStores AlwaysLed
CHECK_DEADLOCK FALSE
