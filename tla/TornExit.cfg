SPECIFICATION Spec
CONSTANTS
  MaxRuns = 1
  MaxLines = 1
  Hazards = {"torn"}
INVARIANTS TruthfulResult
