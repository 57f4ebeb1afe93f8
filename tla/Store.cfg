SPECIFICATION Spec
CONSTANTS
  o = o
  w = w
  x = x
  v = v
  m1 = m1
  m2 = m2
  k1 = k1
  k2 = k2
  NoLane = NoLane
  Orchestrator = o
  Agent = {w}
  Policy <- Single
  Parent <- Alone
  Lane = {v}
  LaneOf <- SingleLane
  Mail = {m1, m2}
  Ask = {k1}
  MaxInFlight = 1
  MaxDispatch = 2
  Hazards = {"verdict", "backoff", "unasked", "budget"}
SYMMETRY Rows
INVARIANTS LostWakeAlarmSilent LeasedHasLiveRun
PROPERTIES AtLeastOnce
