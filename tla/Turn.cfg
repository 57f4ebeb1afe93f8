SPECIFICATION FairSpec
CONSTANTS
  MaxRuns = 2
  MaxLines = 2
  Hazards = {}
INVARIANTS TruthfulResult EachLineOnce RetriesDidNotAct NoStrayHarness
PROPERTIES RunsSettle PhasesInOrder
