SPECIFICATION LiveSpec
CONSTANTS
  Runs = {"r1"}
  Definitions = {"join", "grown", "cycle", "odd"}
  Ids = {1, 2, 3, 4, 5, 6}
  NodesOf <- MCNodesOf
  EdgesOf <- MCEdgesOf
  Registered = {1, 2, 3, 4}
  MaxNodeRetries = 1
  NoRecord = NoRecord
  CrashBudget = 2
  WriteFailures = 1
INVARIANTS TypeOK InputsReady NotRepeated
PROPERTIES SuccessComplete QuietTerminal TaskSettles
