SPECIFICATION Spec
CONSTANTS
  c1 = c1
  c2 = c2
  q1 = q1
  q2 = q2
  None = None
  Handler = Handler
  Queries <- MCQueries
  Conns <- MCConns
  Deployments <- MCDeployments
  MaxPrepared = 1
INVARIANTS ReadsWhatWasPrepared ProxiedUnlessAlways
PROPERTIES UnsupportedStays Decides Noticed
CHECK_DEADLOCK FALSE
