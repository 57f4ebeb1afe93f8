SPECIFICATION FairSpec
CONSTANTS
  o = o
  w = w
  x = x
  v = v
  m1 = m1
  m2 = m2
  k1 = k1
  k2 = k2
  NoLane = NoLane
  Orchestrator = o
  Agent = {o, w}
  Policy <- Judged
  Parent <- JudgedKin
  Lane = {}
  LaneOf <- JudgedLane
  Mail = {m1}
  Ask = {}
  MaxInFlight = 1
  MaxDispatch = 1
  Hazards = {"unasked"}
PROPERTIES OrchestratorIsReachable AtLeastOnce
