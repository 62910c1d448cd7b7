SPECIFICATION Spec
CONSTANTS
  Files = {1, 2}
  Versions = {"a1", "b1", "c1", "a2", "c2"}
  ContentOf <- MCOwn
  Claimed = {"c1", "c2"}
  Pipelines = {p}
  Nil = Nil
  MaxCompiles = 2
  MaxEdits = 2
  MaxMishaps = 1
INVARIANTS CoverageAudited
CHECK_DEADLOCK FALSE
