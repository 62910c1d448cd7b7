SPECIFICATION Spec
CONSTANTS
  Script <- DurableScript
  KindOf <- MCKindOf
  Ticker = Ticker
  Bodies = {"v1", "v2"}
  Keys = {"op1", "op2", "nap", "ask", "hear"}
  Runs = {r1}
  Workers = {w1}
  Results = {x}
  Answers = {yes}
  Events = {e1}
  Null = Null
  None = None
  RowIds = {i1, i2, i3, i4}
  MaxVersion = 2
  MaxAttempts = 2
  MaxBuffer = 1
  Failures = {"failed"}
  SplitBrain = TRUE
  ReAnswer = TRUE
  WaitsExpire = TRUE
  AllowCancel = FALSE
  AllowDelete = FALSE
  CrashBudget = 1
CHECK_DEADLOCK FALSE
SYMMETRY Symmetry
INVARIANTS TypeOK   
