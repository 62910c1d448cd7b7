------------------------------ MODULE Proposal ------------------------------
(***************************************************************************)
(* Knowledge proposals (thinkingroot-pr): one file per proposal, which     *)
(* callers read, change in memory and write back whole. Nothing locks a    *)
(* file between the read and the write, so both are steps of their own.    *)
(*                                                                         *)
(* Only the latest decision of a reviewer and the latest result of a check *)
(* count, and only those are kept here; the log behind them is history.    *)
(***************************************************************************)
EXTENDS Naturals, FiniteSets

CONSTANTS
  Proposals,      \* proposal ids: ULIDs, which are ordered
  Callers,        \* requests in flight
  Reviewers,      \* principals
  Author,         \* proposal -> the principal that opened it
  MinReviewers,   \* min_reviewers, frozen at open time
  Checks,         \* names a check may be recorded under
  RequiredChecks, \* required_checks, frozen at open time
  NoFile          \* no proposal file

ASSUME ProposalAssumption ==
  /\ Proposals \subseteq Nat /\ MinReviewers \in Nat
  /\ IsFiniteSet(Reviewers) /\ RequiredChecks \subseteq Checks
  /\ Author \in [Proposals -> Reviewers]

Decisions == {"none", "approve", "request_changes", "comment"}
Results   == {"none", "passed", "failed"}
Statuses  == {"open", "changes_requested", "approved", "merged", "closed"}
File == [decision : [Reviewers -> Decisions], check : [Checks -> Results], status : Statuses]
ASSUME NoFileAssumption == NoFile \notin File

Opened == [decision |-> [r \in Reviewers |-> "none"], check |-> [c \in Checks |-> "none"],
           status |-> "open"]

VARIABLES
  file, \* proposals/<id>.toml
  held  \* caller -> the proposal it has read and its copy of the file

Nothing == [id |-> NoFile, copy |-> NoFile]
Held    == [id : Proposals, copy : File] \cup {Nothing}

ProposalTypeOK ==
  /\ file \in [Proposals -> File \cup {NoFile}]
  /\ held \in [Callers -> Held]

ProposalInit ==
  /\ file = [p \in Proposals |-> NoFile]
  /\ held = [c \in Callers |-> Nothing]

-----------------------------------------------------------------------------
Terminal(f) == f.status \in {"merged", "closed"}

ApproversWithAuthor(p, f) ==  \* mutant: the author approves too
  {r \in Reviewers : f.decision[r] = "approve"}
Approvers(p, f) == {r \in Reviewers \ {Author[p]} : f.decision[r] = "approve"}

(* Approval: no reviewer's latest word asks for changes, every required check's latest
   result is a pass, and enough reviewers other than the author approve. *)
ChangesRequested(f) == \E r \in Reviewers : f.decision[r] = "request_changes"
ChecksPassed(f)     == \A c \in RequiredChecks : f.check[c] = "passed"

RecomputeStatus(p, f) ==
  CASE ChangesRequested(f) -> "changes_requested"
    [] ~ ChangesRequested(f) /\ ChecksPassed(f)
         /\ Cardinality(Approvers(p, f)) >= MinReviewers -> "approved"
    [] OTHER -> "open"
Recomputed(p, f) == [f EXCEPT !.status = RecomputeStatus(p, f)]

-----------------------------------------------------------------------------
(* open_proposal: a fresh id, so nobody else has the file. *)
Open(p) ==
  /\ file[p] = NoFile
  /\ file' = [file EXCEPT ![p] = Opened]
  /\ UNCHANGED held

(* read_proposal, with which every later operation begins. *)
ReadUnchecked(c, p) ==  \* mutant: a proposal that is not there is read
  /\ held[c] = Nothing
  /\ held' = [held EXCEPT ![c] = [id |-> p, copy |-> file[p]]]
  /\ UNCHANGED file
Read(c, p) ==
  /\ held[c] = Nothing /\ file[p] # NoFile
  /\ held' = [held EXCEPT ![c] = [id |-> p, copy |-> file[p]]]
  /\ UNCHANGED file

(* The error and no-op returns: the copy is terminal, or the caller may not do it. *)
Return(c) ==
  /\ held[c] # Nothing
  /\ held' = [held EXCEPT ![c] = Nothing]
  /\ UNCHANGED file

Write(c, f) ==
  /\ file' = [file EXCEPT ![held[c].id] = f]
  /\ held' = [held EXCEPT ![c] = Nothing]

CanChange(c) == held[c] # Nothing /\ ~ Terminal(held[c].copy)

ReviewProposal(c) ==
  /\ CanChange(c)
  /\ \E r \in Reviewers, d \in Decisions \ {"none"} :
       Write(c, Recomputed(held[c].id, [held[c].copy EXCEPT !.decision[r] = d]))

(* run_proposal_checks records the checks one by one, each with a read of its own. *)
RecordCheck(c) ==
  /\ CanChange(c)
  /\ \E k \in Checks, v \in Results \ {"none"} :
       Write(c, Recomputed(held[c].id, [held[c].copy EXCEPT !.check[k] = v]))

(* Only the author closes; anybody else is turned away (Return). *)
CloseProposal(c) == CanChange(c) /\ Write(c, [held[c].copy EXCEPT !.status = "closed"])

MarkProposalMerged(c) ==
  /\ held[c] # Nothing /\ held[c].copy.status = "approved"
  /\ Write(c, [held[c].copy EXCEPT !.status = "merged"])

(* What a caller may do to a proposal apart from merging it. *)
Discuss(c) ==
  \/ \E p \in Proposals : Open(p) \/ Read(c, p)
  \/ ReviewProposal(c) \/ RecordCheck(c) \/ CloseProposal(c) \/ Return(c)

-----------------------------------------------------------------------------
(* What the crate calls load-bearing, whatever callers overwrite each other: a proposal that
   is approved, or was when it was merged, has enough approving reviewers who are not its
   author, nobody's standing request for changes, and a pass of every required check. *)
Earned(p, f) ==
  /\ \A r \in Reviewers : f.decision[r] # "request_changes"
  /\ \A c \in RequiredChecks : f.check[c] = "passed"
  /\ Cardinality({r \in Reviewers : r # Author[p] /\ f.decision[r] = "approve"}) >= MinReviewers
ApprovalEarned ==
  \A p \in Proposals :
    file[p] # NoFile /\ file[p].status \in {"approved", "merged"} => Earned(p, file[p])
=============================================================================
