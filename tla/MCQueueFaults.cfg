SPECIFICATION Spec
CONSTANTS
  a1 = a1
  a2 = a2
  s1 = s1
  s2 = s2
  c1 = c1
  c2 = c2
  w1 = w1
  w2 = w2
  head = head
  HeadCommit = head
  Apps = {a1, a2}
  Servers <- TwoServers
  Commits = {head}
  PRs = {0}
  MainServer <- TwoMain
  Extra <- TwoExtra
  BuildServers <- TwoBuildServers
  ConcurrentBuilds <- OneBuildEach
  QueueLimit <- OneBuildEach
  Clients = {c1}
  Workers = {w1, w2}
  ClientRequests <- TwoRequests
  Faults = {"crash","restart","api_cancel","sweep","effects"}
  MaxDeployments = 2
  MaxClicks = 2
SYMMETRY SymWorkers
INVARIANT TypeOK
INVARIANT NoOrphan
PROPERTY CancelIsFinal
PROPERTY VerdictIsFinal
PROPERTY ImplementsLifecycle
CHECK_DEADLOCK FALSE
