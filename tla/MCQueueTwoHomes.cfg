SPECIFICATION Spec
CONSTANTS
  a1 = a1
  a2 = a2
  s1 = s1
  s2 = s2
  c1 = c1
  c2 = c2
  w1 = w1
  w2 = w2
  head = head
  HeadCommit = head
  Apps = {a1, a2}
  Servers <- TwoServers
  Commits = {head}
  PRs = {0}
  MainServer <- TwoMain
  Extra <- TwoExtra
  BuildServers <- NoBuild
  ConcurrentBuilds <- OneBuildEach
  QueueLimit <- OneBuildEach
  Clients = {c1}
  Workers = {w1}
  ClientRequests <- TwoRequests
  Faults = {}
  MaxDeployments = 2
  MaxClicks = 0
INVARIANT QueueServed
CHECK_DEADLOCK FALSE
