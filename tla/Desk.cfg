SPECIFICATION DeskSpec
CONSTANTS
  Rare = {}
  Text <- Texts
  Script <- Repeated
  PlanCap = 2
  MaxPlans = 3
  MaxTurns = 1
  MaxItems = 1
  Root = {"root"}
  Spawn = {"spawned"}
  Amount = {1, 2}
  MaxChildren = 2
  MaxActive = 3
  MaxProposals = 2
  Path = {"passed", "unknown"}
  Proven = {"passed"}
  FanInCap = 2
  MaxFanIns = 3
  GrantCap = 2
  MaxGrants = 3
  Note = {"n1", "n2"}
  Question = {"q1", "q2", "q3"}
  CapsuleLimit = 3
  MaxClock = 3
  Person = {"orchestrator", "worker", "child"}
  Seat = "orchestrator"
  Division = {"core", "field"}
  Roster <- Editions
  MaxImports = 2
INVARIANTS DecisionsStand ProposedOnce NeverOverspent SpawnedOnce ApprovedOncePerUndoing ConsumedWasTold
PROPERTIES PlansOnce CarveOut JoinedOnce
