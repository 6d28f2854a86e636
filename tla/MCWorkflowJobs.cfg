SPECIFICATION FairSpec
CONSTANTS
  start = start
  end = end
  ut = ut
  ut2 = ut2
  svc1 = svc1
  svc2 = svc2
  xg = xg
  u1 = u1
  u2 = u2
  c1 = c1
  c2 = c2
  w1 = w1
  w2 = w2
  k1 = k1
  none = none
  nobody = nobody
  StartEvent = start
  EndEvents = {end}
  NoElement = none
  Nobody = nobody
  NoKey = none
  NoWorker = none
  Flows <- MCFlows
  Assignee <- MCAssignee
  Candidates <- MCCandidates
  Gateways = {xg}
  MaxAttempts = 3
  MaxStalls = 2
  UserTasks = {ut}
  ServiceTasks = {svc1}
  SlaTasks = {}
  Users = {u1}
  ClientKeys = {k1}
  Clients = {c1}
  Workers = {w1, w2}
  Operations = {"start", "complete", "cancel", "skip"}
  MaxFaults = 1
  MaxSkipVersion = 2
INVARIANTS HandlerExclusive HaltIsServed
PROPERTIES NoLostUpdate EndedMovedOnlyByServiceOrSkip EveryJobSettles
CHECK_DEADLOCK FALSE
