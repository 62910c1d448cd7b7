SPECIFICATION Spec
CONSTANTS
  Mergers = {m1, m2}
  Callers = {m1, m2, c}
  Branches = {"x", "y"}
  Policy <- MCPolicy
  Proposals = {1}
  MaxAttempts = 2
  CrashBudget = 0
  Failures = TRUE
  RollbackRaces = FALSE
  Base = {"base"}
  Content <- MCContent
  SourceOf <- MCSourceOf
  Lookalikes <- MCLookalikes
  FromLast <- MCFromLast
  Author <- MCAuthor
  Reviewers = {"ann", "bob"}
  MinReviewers = 1
  Checks = {}
  RequiredChecks = {}
  NoFile = NoFile
  NoMerger = NoMerger
  NoProposal = NoProposal
INVARIANTS TypeOK SnapshotUndoesOnlyThis MergedProposalHonest MergedByApproval
PROPERTY MergedMeansApplied
SYMMETRY Symmetry
CHECK_DEADLOCK FALSE
