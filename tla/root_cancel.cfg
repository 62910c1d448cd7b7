SPECIFICATION Spec
CONSTANTS
  Script <- CancelScript
  KindOf <- MCKindOf
  Ticker = Ticker
  Bodies = {"v1", "v2"}
  Keys = {"op1", "op2", "nap", "ask", "hear"}
  Runs = {r1}
  Workers = {w1, w2}
  Results = {x}
  Answers = {yes}
  Events = {e1}
  Null = Null
  None = None
  RowIds = {i1, i2, i3}
  MaxVersion = 1
  MaxAttempts = 2
  MaxBuffer = 1
  Failures = {"failed"}
  SplitBrain = TRUE
  ReAnswer = FALSE
  WaitsExpire = TRUE
  AllowCancel = TRUE
  AllowDelete = TRUE
  CrashBudget = 0
CHECK_DEADLOCK FALSE
SYMMETRY Symmetry
INVARIANTS CancelHolds
