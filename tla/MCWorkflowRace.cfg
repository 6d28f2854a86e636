SPECIFICATION Spec
CONSTANTS
  start = start
  end = end
  ut = ut
  ut2 = ut2
  svc1 = svc1
  svc2 = svc2
  xg = xg
  u1 = u1
  u2 = u2
  c1 = c1
  c2 = c2
  w1 = w1
  w2 = w2
  k1 = k1
  none = none
  nobody = nobody
  StartEvent = start
  EndEvents = {end}
  NoElement = none
  Nobody = nobody
  NoKey = none
  NoWorker = none
  Flows <- MCFlows
  Assignee <- MCAssignee
  Candidates <- MCCandidates
  Gateways = {xg}
  MaxAttempts = 3
  MaxStalls = 2
  UserTasks = {ut}
  ServiceTasks = {}
  SlaTasks = {ut}
  Users = {u1, u2}
  ClientKeys = {}
  Clients = {c1, c2}
  Workers = {}
  Operations = {"start", "complete", "claim", "delegate"}
  MaxFaults = 1
  MaxSkipVersion = 0
INVARIANTS TypeOK AcknowledgedFormKept CompletionAnnounced OneCompletionPerOffer
PROPERTIES NoLostUpdate
SYMMETRY Symmetry
CHECK_DEADLOCK FALSE
