SPECIFICATION Spec
CONSTANTS
  a1 = a1
  a2 = a2
  s1 = s1
  s2 = s2
  c1 = c1
  c2 = c2
  w1 = w1
  w2 = w2
  head = head
  HeadCommit = head
  Apps = {a1, a2}
  Servers <- OneServer
  Commits = {head}
  PRs = {0}
  MainServer <- HomeMain
  Extra <- HomeExtra
  BuildServers <- NoBuild
  ConcurrentBuilds <- OneBuild
  QueueLimit <- OneBuild
  Clients = {c1}
  Workers = {w1, w2}
  ClientRequests <- HomeRequests
  Faults = {}
  MaxDeployments = 3
  MaxClicks = 0
PROPERTY TerminalIsFinal
CHECK_DEADLOCK FALSE
