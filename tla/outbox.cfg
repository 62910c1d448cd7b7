SPECIFICATION LiveSpec
CONSTANTS
  Runs = {"r1", "r2"}
  Actions = {"mail", "book", "note", "unbook"}
  Declared <- MCDeclared
  Compensation <- MCCompensation
  None = None
  MaxAttempts = 3
  CrashBudget = 2
INVARIANTS TypeOK SnapshotFresh AttemptsCounted
PROPERTIES DeliveryHolds 
