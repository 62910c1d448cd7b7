SPECIFICATION Spec
CONSTANTS
  Script <- NapScript
  KindOf <- MCKindOf
  Ticker = Ticker
  Bodies = {"v1", "v2"}
  Keys = {"op1", "nap"}
  Runs = {r1}
  Workers = {w1}
  Results = {x}
  Answers = {}
  Events = {}
  Null = Null
  None = None
  RowIds = {i1, i2}
  MaxVersion = 1
  MaxAttempts = 1
  MaxBuffer = 0
  Failures = {}
  SplitBrain = FALSE
  ReAnswer = FALSE
  WaitsExpire = FALSE
  AllowCancel = FALSE
  AllowDelete = FALSE
  CrashBudget = 1
CHECK_DEADLOCK FALSE
INVARIANT SuspendedSurvives
