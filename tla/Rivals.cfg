SPECIFICATION Spec
CONSTANTS
  o = o
  w = w
  x = x
  v = v
  m1 = m1
  m2 = m2
  k1 = k1
  k2 = k2
  NoLane = NoLane
  Orchestrator = o
  Agent = {w, x}
  Policy <- Rivals
  Parent <- RivalsKin
  Lane = {v}
  LaneOf <- RivalsLane
  Mail = {}
  Ask = {k1}
  MaxInFlight = 1
  MaxDispatch = 2
  Hazards = {"session", "budget"}
INVARIANT InFlightBounded
PROPERTY PhasesInOrder
