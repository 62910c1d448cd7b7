SPECIFICATION Spec
CONSTANTS
  Files = {1, 2}
  Versions = {"a1", "b1", "c1", "a2", "c2"}
  ContentOf <- MCOwn
  Claimed = {"c1", "c2"}
  Pipelines = {p}
  Nil = Nil
  MaxCompiles = 3
  MaxEdits = 2
  MaxMishaps = 2
INVARIANTS GraphClosed NothingForgotten CompileExact
CHECK_DEADLOCK FALSE
