SPECIFICATION Spec
CONSTANTS
  Mergers = {"m1"}
  Callers = {"m1", "c"}
  Branches = {"x", "y", "z"}
  Policy <- MCPolicy
  Proposals = {1}
  MaxAttempts = 2
  CrashBudget = 2
  Failures = FALSE
  RollbackRaces = FALSE
  Base = {"base"}
  Content <- MCContent
  SourceOf <- MCSourceOf
  Lookalikes <- MCLookalikes
  FromLast <- MCFromLast
  Author <- MCAuthor
  Reviewers = {"ann", "bob"}
  MinReviewers = 1
  Checks = {"tests"}
  RequiredChecks = {"tests"}
  NoFile = NoFile
  NoMerger = NoMerger
  NoProposal = NoProposal
PROPERTY MergesAtomic
INVARIANT ApprovalEarned
CHECK_DEADLOCK FALSE
