----------------------------- MODULE BranchMerge -----------------------------
(***************************************************************************)
(* Merging branches into main (thinkingroot-branch): concurrent merges, the *)
(* merge lock, the pre-merge snapshot, the file of in-flight intents, the  *)
(* branch registry, the proposal gate, deletion, rollback by hand, crashes *)
(* and the recovery that rolls orphaned merges back.                       *)
(*                                                                         *)
(* The graph of main is the set of its claims; a merge writes the claims   *)
(* of its diff one by one, which stands for all the store writes of        *)
(* apply_branch_diff. Holding and releasing the registry's lock is within  *)
(* an action; the intents file has no lock, so its reads and writes are    *)
(* steps of their own.                                                     *)
(***************************************************************************)
EXTENDS Proposal, Sequences

CONSTANTS
  Mergers,       \* callers that merge
  Branches,      \* branches, all active when the model begins
  Base,          \* the claims of main when the model begins
  Content,       \* branch -> the claims in its graph
  Policy,        \* branch -> its merge policy; "manual" is any that gates nothing
  SourceOf,      \* proposal -> the branch it wants merged into main
  Lookalikes,    \* branch -> the branches whose snapshots are named as its own: it and those
                 \* whose slug is its slug, a dash and more
  FromLast,      \* branch -> how far from the end its snapshots are when file names are sorted
  NoMerger,      \* the merge lock is free
  NoProposal,    \* a merge no proposal authorises
  MaxAttempts,   \* bound on merges
  CrashBudget,   \* bound on crashes
  Failures,      \* whether storage errors and late cancels happen
  RollbackRaces  \* whether rollbacks by hand happen while a merge is in progress

ASSUME MergeAssumption ==
  /\ Mergers \subseteq Callers /\ NoMerger \notin Mergers /\ Branches # {}
  /\ Policy \in [Branches -> {"manual", "requires_proposal", "ephemeral"}]
  /\ SourceOf \in [Proposals -> Branches] /\ NoProposal \notin Proposals
  /\ Lookalikes \in [Branches -> SUBSET Branches] /\ \A b \in Branches : b \in Lookalikes[b]
  /\ FromLast \in [Branches -> Nat]
  /\ MaxAttempts \in Nat /\ CrashBudget \in Nat
  /\ Failures \in BOOLEAN /\ RollbackRaces \in BOOLEAN

Claims == Base \cup UNION {Content[b] : b \in Branches}

VARIABLES
  graph,    \* the claims of main
  taken,    \* branches with a graph.db.pre-merge-<branch>-<ts>
  snapshot, \* branch -> what the newest one holds
  intents,  \* merges_in_flight.toml
  registry, \* branches.toml: branch -> status
  approval, \* branch -> the proposal in its Merged event
  lock,     \* merge.lock
  merge,    \* merger -> its merge
  up,       \* the process runs
  attempts, \* merges so far
  crashes   \* crashes so far

disk == <<graph, taken, snapshot, intents, registry, approval, file>>
vars == <<disk, held, lock, merge, up, attempts, crashes>>

Intent   == [branch : Branches, started : Nat]
PCs      == {"idle", "gate", "read_intents", "write_intent", "lock", "snapshot", "insert",
             "mark", "read_proposal", "mark_proposal", "reread_intents", "clear_intent"}
Merge    == [pc : PCs, branch : Branches, started : Nat, todo : SUBSET Claims,
             proposal : Proposals \cup {NoProposal}, seen : Seq(Intent)]
Idle     == [pc |-> "idle", branch |-> CHOOSE b \in Branches : TRUE, started |-> 0,
             todo |-> {}, proposal |-> NoProposal, seen |-> <<>>]

TypeOK ==
  /\ ProposalTypeOK
  /\ graph \subseteq Claims
  /\ taken \subseteq Branches /\ snapshot \in [Branches -> SUBSET Claims]
  /\ intents \in Seq(Intent)
  /\ registry \in [Branches -> {"active", "merged", "abandoned"}]
  /\ approval \in [Branches -> Proposals \cup {NoProposal}]
  /\ lock \in Mergers \cup {NoMerger}
  /\ merge \in [Mergers -> Merge]
  /\ up \in BOOLEAN
  /\ attempts \in 0 .. MaxAttempts /\ crashes \in 0 .. CrashBudget

Init ==
  /\ ProposalInit
  /\ graph = Base
  /\ taken = {} /\ snapshot = [b \in Branches |-> {}]
  /\ intents = <<>>
  /\ registry = [b \in Branches |-> "active"]
  /\ approval = [b \in Branches |-> NoProposal]
  /\ lock = NoMerger
  /\ merge = [m \in Mergers |-> Idle]
  /\ up = TRUE /\ attempts = 0 /\ crashes = 0

-----------------------------------------------------------------------------
At(m, pc)      == up /\ merge[m].pc = pc
Source(m)      == merge[m].branch
Goes(m, pc)    == merge' = [merge EXCEPT ![m].pc = pc]
End(m)         == merge' = [merge EXCEPT ![m] = Idle]
Unlocked(m)    == lock' = IF lock = m THEN NoMerger ELSE lock
ThisIntent(m)  == [branch |-> Source(m), started |-> merge[m].started]

(* merge_into_branch_cancellable: the diff, computed before anything is locked. The data
   directory of a branch outlives its registry entry, whose status is not looked at. *)
StartMerge(m, b) ==
  /\ At(m, "idle") /\ attempts < MaxAttempts
  /\ attempts' = attempts + 1
  /\ merge' = [merge EXCEPT ![m] = [Idle EXCEPT !.pc = "gate", !.branch = b,
                                       !.started = attempts', !.todo = Content[b] \ graph]]
  /\ UNCHANGED <<disk, held, lock, up, crashes>>

(* A diff that is not allowed, a protected target, a token tripped before the intent. *)
Refuse(m) ==
  /\ At(m, "gate") /\ End(m)
  /\ UNCHANGED <<disk, held, lock, up, attempts, crashes>>

(* find_approved_proposal: the newest approved one. *)
ApprovedFor(b) == {p \in Proposals : /\ SourceOf[p] = b /\ file[p] # NoFile
                                     /\ file[p].status = "approved"}

(* The policy gate, which asks the registry for an active branch of that name. *)
Gated(b)     == registry[b] = "active" /\ Policy[b] = "requires_proposal"
Ephemeral(b) == registry[b] = "active" /\ Policy[b] = "ephemeral"

AbandonEphemeral(m) ==
  /\ At(m, "gate") /\ Ephemeral(Source(m))
  /\ registry' = [registry EXCEPT ![Source(m)] = "abandoned"]
  /\ End(m)
  /\ UNCHANGED <<graph, taken, snapshot, intents, approval, file, held, lock, up, attempts, crashes>>

PassOpenGate(m) ==  \* mutant: a proposal is not waited for
  /\ At(m, "gate") /\ ~ Ephemeral(Source(m))
  /\ Goes(m, "read_intents")
  /\ UNCHANGED <<disk, held, lock, up, attempts, crashes>>
PassGate(m) ==
  /\ At(m, "gate") /\ ~ Ephemeral(Source(m))
  /\ \/ ~ Gated(Source(m)) /\ Goes(m, "read_intents")
     \/ \E p \in ApprovedFor(Source(m)) :
          /\ Gated(Source(m)) /\ \A q \in ApprovedFor(Source(m)) : q <= p
          /\ merge' = [merge EXCEPT ![m].pc = "read_intents", ![m].proposal = p]
  /\ UNCHANGED <<disk, held, lock, up, attempts, crashes>>

(* write_merge_intent and clear_merge_intent: read the file, then write it whole. *)
ReadIntents(m) ==
  /\ \/ At(m, "read_intents") /\ merge' = [merge EXCEPT ![m].pc = "write_intent", ![m].seen = intents]
     \/ At(m, "reread_intents") /\ merge' = [merge EXCEPT ![m].pc = "clear_intent", ![m].seen = intents]
  /\ UNCHANGED <<disk, held, lock, up, attempts, crashes>>

WriteIntent(m) ==
  /\ At(m, "write_intent")
  /\ intents' = Append(merge[m].seen, ThisIntent(m))
  /\ Goes(m, "lock")
  /\ UNCHANGED <<graph, taken, snapshot, registry, approval, file, held, lock, up, attempts, crashes>>

Without(s, x) ==
  LET kept[i \in 0 .. Len(s)] == IF i = 0 THEN <<>>
                                 ELSE IF s[i] = x THEN kept[i - 1] ELSE Append(kept[i - 1], s[i])
  IN  kept[Len(s)]
Others(m) == Without(merge[m].seen, ThisIntent(m))
ClearIntent(m) ==
  /\ At(m, "clear_intent")
  /\ intents' = IF Others(m) = merge[m].seen THEN intents ELSE Others(m)
  /\ End(m)
  /\ UNCHANGED <<graph, taken, snapshot, registry, approval, file, held, lock, up, attempts, crashes>>

(* MergeLock::acquire does not wait: a merge that finds it held ends here, and its intent
   stays behind. *)
AcquireAnyway(m) ==  \* mutant: the merge goes on without the lock
  /\ At(m, "lock")
  /\ lock' = m /\ Goes(m, "snapshot")
  /\ UNCHANGED <<disk, held, up, attempts, crashes>>
AcquireMergeLock(m) ==
  /\ At(m, "lock")
  /\ IF lock = NoMerger THEN lock' = m /\ Goes(m, "snapshot")
                        ELSE UNCHANGED lock /\ End(m)
  /\ UNCHANGED <<disk, held, up, attempts, crashes>>

(* snapshot_target_db: of the snapshots of a branch only the newest is ever restored. *)
Snapshot(m) ==
  /\ At(m, "snapshot")
  /\ taken' = taken \cup {Source(m)}
  /\ snapshot' = [snapshot EXCEPT ![Source(m)] = graph]
  /\ Goes(m, "insert")
  /\ UNCHANGED <<graph, intents, registry, approval, file, held, lock, up, attempts, crashes>>

(* apply_branch_diff: one write, and its end, where the lock is dropped. *)
Insert(m) ==
  /\ At(m, "insert")
  /\ \E c \in merge[m].todo :
       /\ graph' = graph \cup {c}
       /\ merge' = [merge EXCEPT ![m].todo = @ \ {c}]
  /\ UNCHANGED <<taken, snapshot, intents, registry, approval, file, held, lock, up, attempts, crashes>>

AppliedEarly(m) ==  \* mutant: the merge ends at the first write that does nothing
  /\ At(m, "insert")
  /\ Unlocked(m) /\ Goes(m, "mark")
  /\ UNCHANGED <<disk, held, up, attempts, crashes>>
Applied(m) ==
  /\ At(m, "insert") /\ merge[m].todo = {}
  /\ Unlocked(m) /\ Goes(m, "mark")
  /\ UNCHANGED <<disk, held, up, attempts, crashes>>

(* A storage error, or the token tripped once the diff is applied: the merge returns, the
   lock is dropped and whatever was written stays, the intent included. *)
Fail(m) ==
  /\ Failures
  /\ \E pc \in PCs \ {"idle", "gate", "lock", "read_proposal", "mark_proposal"} : At(m, pc)
  /\ Unlocked(m) /\ End(m)
  /\ UNCHANGED <<disk, held, up, attempts, crashes>>

(* mark_merged_into finds an active branch of that name or fails. *)
MarkAnyway(m) ==  \* mutant: a branch that is not active any more is no error
  /\ At(m, "mark")
  /\ merge' = [merge EXCEPT ![m].pc =
       IF merge[m].proposal = NoProposal THEN "reread_intents" ELSE "read_proposal"]
  /\ registry' = [registry EXCEPT ![Source(m)] = IF @ = "active" THEN "merged" ELSE @]
  /\ approval' = [approval EXCEPT ![Source(m)] = merge[m].proposal]
  /\ UNCHANGED <<graph, taken, snapshot, intents, file, held, lock, up, attempts, crashes>>
MarkMerged(m) ==
  /\ At(m, "mark")
  /\ \/ /\ registry[Source(m)] # "active"
        /\ End(m) /\ UNCHANGED <<registry, approval>>
     \/ /\ registry[Source(m)] = "active"
        /\ registry' = [registry EXCEPT ![Source(m)] = "merged"]
        /\ approval' = [approval EXCEPT ![Source(m)] = merge[m].proposal]
        /\ Goes(m, IF merge[m].proposal = NoProposal THEN "reread_intents" ELSE "read_proposal")
  /\ UNCHANGED <<graph, taken, snapshot, intents, file, held, lock, up, attempts, crashes>>

(* mark_proposal_merged; its error is logged and ignored. *)
MarkProposal(m) ==
  /\ \/ /\ At(m, "read_proposal") /\ Read(m, merge[m].proposal) /\ Goes(m, "mark_proposal")
     \/ /\ At(m, "mark_proposal") /\ Goes(m, "reread_intents")
        /\ \/ MarkProposalMerged(m)
           \/ held[m].copy.status # "approved" /\ Return(m)
  /\ UNCHANGED <<graph, taken, snapshot, intents, registry, approval, lock, up, attempts, crashes>>

-----------------------------------------------------------------------------
(* delete_branch: the data stays. *)
DeleteBranch(b) ==
  /\ up /\ registry[b] = "active"
  /\ registry' = [registry EXCEPT ![b] = "abandoned"]
  /\ UNCHANGED <<graph, taken, snapshot, intents, approval, file, held, lock, merge, up, attempts, crashes>>

(* The last snapshot of those whose file name begins with the prefix of a branch. *)
Found(b)   == Lookalikes[b] \cap taken
LastOne(b) == CHOOSE d \in Found(b) : \A e \in Found(b) : FromLast[d] <= FromLast[e]

(* rollback_merge takes no lock and tells neither the registry nor the intents. *)
Quiet == \A m \in Mergers : merge[m].pc = "idle"
RollbackMerge(b) ==
  /\ up /\ Found(b) # {}
  /\ RollbackRaces \/ Quiet
  /\ graph' = snapshot[LastOne(b)]
  /\ UNCHANGED <<taken, snapshot, intents, registry, approval, file, held, lock, merge, up, attempts, crashes>>

(* Review, checks and closing go on beside the merges. *)
DiscussProposals ==
  /\ up /\ \E c \in Callers \ Mergers : Discuss(c)
  /\ UNCHANGED <<graph, taken, snapshot, intents, registry, approval, lock, merge, up, attempts, crashes>>

(* The process ends: between merges, or in the middle of some. *)
Stop ==
  /\ up /\ up' = FALSE /\ Quiet
  /\ held' = [c \in Callers |-> Nothing]
  /\ UNCHANGED <<disk, lock, merge, attempts, crashes>>

Crash ==
  /\ up /\ crashes < CrashBudget
  /\ crashes' = crashes + 1
  /\ up' = FALSE /\ lock' = NoMerger
  /\ merge' = [m \in Mergers |-> Idle]
  /\ held' = [c \in Callers |-> Nothing]
  /\ UNCHANGED <<disk, attempts>>

(* recover_orphan_merges, which the crate means for the startup of a workspace (no startup path
   calls it at this commit): every intent in turn restores the snapshot that its branch finds, if
   there is one, so what the last of them restores is what remains; then no intent is left. *)
Restorable == {i \in DOMAIN intents : Found(intents[i].branch) # {}}
LastRestored == CHOOSE i \in Restorable : \A j \in Restorable : j <= i
Restored == IF Restorable = {} THEN graph ELSE snapshot[LastOne(intents[LastRestored].branch)]
RecoverNothing ==  \* mutant: the intents are cleared, nothing is restored
  /\ ~ up /\ up' = TRUE /\ intents' = <<>>
  /\ UNCHANGED <<graph, taken, snapshot, registry, approval, file, held, lock, merge, attempts, crashes>>
RecoverOrphanMerges ==
  /\ ~ up /\ up' = TRUE
  /\ graph' = Restored
  /\ intents' = <<>>
  /\ UNCHANGED <<taken, snapshot, registry, approval, file, held, lock, merge, attempts, crashes>>

MergeStep(m) ==
  \/ \E b \in Branches : StartMerge(m, b)
  \/ Refuse(m) \/ AbandonEphemeral(m) \/ PassGate(m)
  \/ ReadIntents(m) \/ WriteIntent(m) \/ ClearIntent(m)
  \/ AcquireMergeLock(m) \/ Snapshot(m) \/ Insert(m) \/ Applied(m) \/ Fail(m)
  \/ MarkMerged(m) \/ MarkProposal(m)

Next ==
  \/ \E m \in Mergers : MergeStep(m)
  \/ \E b \in Branches : DeleteBranch(b) \/ RollbackMerge(b)
  \/ DiscussProposals \/ Stop \/ Crash \/ RecoverOrphanMerges
Spec == Init /\ [][Next]_vars

-----------------------------------------------------------------------------
(* One writer: while a merge writes, what its snapshot would undo is exactly what it has
   written, however many merges were started. Restoring a snapshot is a rollback of one merge
   only because of this. *)
SnapshotUndoesOnlyThis ==
  \A m \in Mergers : merge[m].pc = "insert" =>
    LET old == snapshot[Source(m)] IN
    /\ Source(m) \in taken
    /\ old \subseteq graph /\ graph \ old \subseteq Content[Source(m)]
    /\ Content[Source(m)] \subseteq graph \cup merge[m].todo

(* A branch is marked merged only when main holds all of it: the diff is older than the
   lock, and the mark is made after the lock is gone. *)
MergedMeansApplied ==
  [][\A b \in Branches :
       registry[b] # "merged" /\ registry'[b] = "merged" => Content[b] \subseteq graph]_vars

(* Merges are atomic, as AtomicMerge says: with no failure but a crash, and one merge at a time
   when there are crashes, a reader who takes a merge that writes for not yet begun, and a
   process that is down for already recovered, sees every merge happen whole or not at all. *)
Main  == CASE ~ up -> Restored
           [] up /\ lock # NoMerger /\ merge[lock].pc = "insert" -> snapshot[Source(lock)]
           [] OTHER -> graph
Saves == [b \in Branches |-> IF b \in taken THEN {snapshot[b]} ELSE {}]
Atomic == INSTANCE AtomicMerge WITH main <- Main, saved <- Saves
MergesAtomic == Atomic!Spec

(* All or nothing, which follows: with one merge at a time and no failure but a crash, main is its
   base and whole branches whenever no merge is in progress, whenever the crash was. *)
AllOrNothing ==
  up /\ Quiet => \E S \in SUBSET Branches : graph = Base \cup UNION {Content[b] : b \in S}

(* The proposal's status is honest with the registry: a proposal says Merged only if its
   branch was merged, and by its authority. *)
MergedProposalHonest ==
  \A p \in Proposals :
    file[p] # NoFile /\ file[p].status = "merged" =>
      registry[SourceOf[p]] = "merged" /\ approval[SourceOf[p]] = p

(* A branch that requires a proposal is marked merged by the authority of one of its own. *)
MergedByApproval ==
  \A b \in Branches : Policy[b] = "requires_proposal" /\ registry[b] = "merged" =>
    approval[b] # NoProposal /\ SourceOf[approval[b]] = b

=============================================================================
