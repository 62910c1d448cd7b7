SPECIFICATION Spec
CONSTANTS
  Script <- OnceScript
  KindOf <- MCKindOf
  Ticker = Ticker
  Bodies = {"v1", "v2"}
  Keys = {"op1", "op2", "nap", "ask", "hear"}
  Runs = {r1, r2}
  Workers = {w1, w2}
  Results = {x, y}
  Answers = {yes}
  Events = {e1, e2}
  Null = Null
  None = None
  RowIds = {i1, i2, i3, i4}
  MaxVersion = 1
  MaxAttempts = 2
  MaxBuffer = 2
  Failures = {"failed", "fatal"}
  SplitBrain = FALSE
  ReAnswer = FALSE
  WaitsExpire = FALSE
  AllowCancel = FALSE
  AllowDelete = FALSE
  CrashBudget = 0
CHECK_DEADLOCK FALSE
SYMMETRY Symmetry
INVARIANTS SingleFlight  VerdictMatches  EventNotLost
PROPERTIES StepValuesStable  TerminalIsFinal
