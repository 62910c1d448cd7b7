SPECIFICATION FairSpec
CONSTANTS
  Workspaces = {w1}
  Jobs = {j1, j2}
  Clients = {c1, c2}
  None = None
  MaxFaults = 1
  CrashBudget = 1
CHECK_DEADLOCK FALSE
INVARIANTS OnePerWorkspace Truthful
PROPERTIES EverythingSettles
