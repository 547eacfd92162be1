SPECIFICATION FairSpec
CONSTANTS
  Keys = {1, 2}
  Vals = {1, 2}
  Stamps = {7}
  NoStamp = NoStamp
  NoCopy = NoCopy
  Readers = {r1}
  Ops <- SomeOps
  MaxOps = 3
INVARIANTS CopiesConverge EvictSeesLatest
PROPERTIES GuardedCopyStable PublishTerminates
