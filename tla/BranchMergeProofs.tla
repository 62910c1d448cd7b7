------------------------- MODULE BranchMergeProofs -------------------------
(* The safety of merges and of the proposals that authorise them, for every
   number of callers, branches, claims and proposals and for every bound. *)
EXTENDS BranchMerge, FiniteSetTheorems, WellFoundedInduction, TLAPS

(* A merge past the gate has a proposal of its branch, or its branch wants none, or is not
   active any more and will never be. *)
PastGate(m) ==
  /\ merge[m].pc = "gate" => merge[m].proposal = NoProposal
  /\ merge[m].pc \notin {"idle", "gate"} =>
       /\ merge[m].proposal # NoProposal => SourceOf[merge[m].proposal] = Source(m)
       /\ Policy[Source(m)] = "requires_proposal" /\ registry[Source(m)] = "active"
            => merge[m].proposal # NoProposal
Marking(m) ==
  /\ merge[m].pc \in {"read_proposal", "mark_proposal"} =>
       /\ merge[m].proposal # NoProposal
       /\ registry[Source(m)] = "merged" /\ approval[Source(m)] = merge[m].proposal
  /\ merge[m].pc = "mark_proposal" => held[m].id = merge[m].proposal
AuthorityInv == \A m \in Mergers : PastGate(m) /\ Marking(m)

(* A caller's copy was earned when it was read, and a file is only ever a copy or recomputed. *)
CopiesEarned ==
  \A c \in Callers : held[c] # Nothing /\ held[c].copy.status \in {"approved", "merged"}
    => Earned(held[c].id, held[c].copy)

-----------------------------------------------------------------------------
(* Proposals: what a caller's step does to the files. *)
LEMMA RecomputedTyped ==
  ASSUME NEW p, NEW f \in File
  PROVE  Recomputed(p, f) \in File
<1>1. RecomputeStatus(p, f) \in Statuses
  BY DEF RecomputeStatus, Statuses
<1> QED
  BY <1>1 DEF Recomputed, File

LEMMA RecomputedEarned ==
  ASSUME NEW p, NEW f \in File, Recomputed(p, f).status \in {"approved", "merged"}
  PROVE  Earned(p, Recomputed(p, f))
<1> DEFINE g == Recomputed(p, f)
<1>1. g.status = RecomputeStatus(p, f) /\ g.decision = f.decision /\ g.check = f.check
  BY DEF Recomputed, File
<1>2. ~ ChangesRequested(f) /\ ChecksPassed(f) /\ Cardinality(Approvers(p, f)) >= MinReviewers
  BY <1>1 DEF RecomputeStatus
<1>3. Approvers(p, f) = {r \in Reviewers : r # Author[p] /\ g.decision[r] = "approve"}
  BY <1>1 DEF Approvers
<1>4. \A r \in Reviewers : g.decision[r] # "request_changes"
  BY <1>1, <1>2 DEF ChangesRequested
<1>5. \A c \in RequiredChecks : g.check[c] = "passed"
  BY <1>1, <1>2 DEF ChecksPassed
<1> QED
  BY <1>2, <1>3, <1>4, <1>5 DEF Earned

LEMMA OpenedTyped == Opened \in File /\ Opened.status = "open"
BY DEF Opened, File, Decisions, Results, Statuses

(* The three ways a step treats the files: a caller reads one, drops its copy, or writes its
   proposal; what it writes is typed and, when it says approved or merged, earned. *)
Reads(c)   == \E p \in Proposals : Read(c, p)
Writes(c, f) == /\ held[c] # Nothing /\ Write(c, f) /\ f \in File
                /\ f.status \in {"approved", "merged"} => Earned(held[c].id, f)

LEMMA DiscussWrites ==
  ASSUME TypeOK, NEW c \in Callers, Discuss(c)
  PROVE  \/ Reads(c) \/ Return(c) \/ \E p \in Proposals : Open(p)
         \/ \E f : Writes(c, f) /\ f.status # "merged"
<1>1. CASE \E p \in Proposals : Open(p) \/ Read(c, p)
  BY <1>1 DEF Reads
<1>2. CASE ReviewProposal(c)
  <2>1. held[c] # Nothing /\ held[c].copy \in File
    BY <1>2 DEF ReviewProposal, CanChange, TypeOK, ProposalTypeOK, Held
  <2>2. PICK r \in Reviewers, d \in Decisions :
          Write(c, Recomputed(held[c].id, [held[c].copy EXCEPT !.decision[r] = d]))
    BY <1>2 DEF ReviewProposal
  <2> DEFINE f == [held[c].copy EXCEPT !.decision[r] = d]
  <2>3. f \in File
    BY <2>1 DEF File
  <2>4. RecomputeStatus(held[c].id, f) # "merged"
    BY DEF RecomputeStatus
  <2>5. Recomputed(held[c].id, f).status # "merged"
    BY <2>3, <2>4 DEF Recomputed, File
  <2> QED
    BY <2>1, <2>2, <2>3, <2>5, RecomputedTyped, RecomputedEarned DEF Writes
<1>3. CASE RecordCheck(c)
  <2>1. held[c] # Nothing /\ held[c].copy \in File
    BY <1>3 DEF RecordCheck, CanChange, TypeOK, ProposalTypeOK, Held
  <2>2. PICK k \in Checks, v \in Results :
          Write(c, Recomputed(held[c].id, [held[c].copy EXCEPT !.check[k] = v]))
    BY <1>3 DEF RecordCheck
  <2> DEFINE f == [held[c].copy EXCEPT !.check[k] = v]
  <2>3. f \in File
    BY <2>1 DEF File
  <2>4. RecomputeStatus(held[c].id, f) # "merged"
    BY DEF RecomputeStatus
  <2>5. Recomputed(held[c].id, f).status # "merged"
    BY <2>3, <2>4 DEF Recomputed, File
  <2> QED
    BY <2>1, <2>2, <2>3, <2>5, RecomputedTyped, RecomputedEarned DEF Writes
<1>4. CASE CloseProposal(c)
  <2>1. held[c] # Nothing /\ held[c].copy \in File
    BY <1>4 DEF CloseProposal, CanChange, TypeOK, ProposalTypeOK, Held
  <2> DEFINE f == [held[c].copy EXCEPT !.status = "closed"]
  <2>2. f \in File /\ f.status = "closed"
    BY <2>1 DEF File, Statuses
  <2> QED
    BY <1>4, <2>1, <2>2 DEF CloseProposal, Writes
<1> QED
  BY <1>1, <1>2, <1>3, <1>4 DEF Discuss

LEMMA MarkWrites ==
  ASSUME TypeOK, CopiesEarned, NEW c \in Callers, MarkProposalMerged(c)
  PROVE  \E f : Writes(c, f)
<1>1. held[c] # Nothing /\ held[c].copy \in File /\ held[c].copy.status = "approved"
  BY DEF MarkProposalMerged, TypeOK, ProposalTypeOK, Held
<1> DEFINE f == [held[c].copy EXCEPT !.status = "merged"]
<1>2. f \in File /\ f.decision = held[c].copy.decision /\ f.check = held[c].copy.check
  BY <1>1 DEF File, Statuses
<1>3. Earned(held[c].id, f)
  BY <1>1, <1>2 DEF CopiesEarned, Earned
<1> QED
  BY <1>1, <1>2, <1>3 DEF MarkProposalMerged, Writes

(* What the files and the copies become, whatever else a step does. *)
FilesStep ==
  \/ \E c \in Callers : Reads(c) \/ Return(c) \/ \E f : Writes(c, f)
  \/ \E p \in Proposals : Open(p)
  \/ UNCHANGED file /\ held' = [c \in Callers |-> Nothing]
  \/ UNCHANGED <<file, held>>

LEMMA FilesTyped ==
  ASSUME ProposalTypeOK, FilesStep
  PROVE  ProposalTypeOK'
<1>1. ASSUME NEW c \in Callers, Reads(c) PROVE ProposalTypeOK'
  <2>1. PICK p \in Proposals : Read(c, p)
    BY <1>1 DEF Reads
  <2>2. file[p] \in File
    BY <2>1 DEF Read, ProposalTypeOK
  <2>3. [id |-> p, copy |-> file[p]] \in Held
    BY <2>2 DEF Held
  <2> QED
    BY <2>1, <2>3 DEF Read, ProposalTypeOK
<1>2. ASSUME NEW c \in Callers, Return(c) PROVE ProposalTypeOK'
  BY <1>2 DEF Return, ProposalTypeOK, Held
<1>3. ASSUME NEW c \in Callers, NEW f, Writes(c, f) PROVE ProposalTypeOK'
  BY <1>3 DEF Writes, Write, ProposalTypeOK, Held
<1>4. ASSUME NEW p \in Proposals, Open(p) PROVE ProposalTypeOK'
  BY <1>4, OpenedTyped DEF Open, ProposalTypeOK
<1>5. CASE UNCHANGED file /\ held' = [c \in Callers |-> Nothing]
  BY <1>5 DEF ProposalTypeOK, Held
<1>6. CASE UNCHANGED <<file, held>>
  BY <1>6 DEF ProposalTypeOK
<1> QED
  BY <1>1, <1>2, <1>3, <1>4, <1>5, <1>6 DEF FilesStep

LEMMA FilesEarned ==
  ASSUME ProposalTypeOK, ApprovalEarned, CopiesEarned, FilesStep
  PROVE  ApprovalEarned' /\ CopiesEarned'
<1>1. ASSUME NEW c \in Callers, Reads(c) PROVE ApprovalEarned' /\ CopiesEarned'
  <2>1. PICK p \in Proposals : Read(c, p)
    BY <1>1 DEF Reads
  <2>2. held' = [held EXCEPT ![c] = [id |-> p, copy |-> file[p]]] /\ file[p] # NoFile
        /\ file' = file
    BY <2>1 DEF Read
  <2>3. ASSUME NEW d \in Callers, held'[d] # Nothing,
               held'[d].copy.status \in {"approved", "merged"}
        PROVE  Earned(held'[d].id, held'[d].copy)
    BY <2>2, <2>3 DEF ProposalTypeOK, ApprovalEarned, CopiesEarned
  <2> QED
    BY <2>2, <2>3 DEF ApprovalEarned, CopiesEarned
<1>2. ASSUME NEW c \in Callers, Return(c) PROVE ApprovalEarned' /\ CopiesEarned'
  BY <1>2 DEF Return, ProposalTypeOK, ApprovalEarned, CopiesEarned
<1>3. ASSUME NEW c \in Callers, NEW f, Writes(c, f) PROVE ApprovalEarned' /\ CopiesEarned'
  BY <1>3 DEF Writes, Write, ProposalTypeOK, Held, ApprovalEarned, CopiesEarned
<1>4. ASSUME NEW p \in Proposals, Open(p) PROVE ApprovalEarned' /\ CopiesEarned'
  BY <1>4, OpenedTyped DEF Open, ProposalTypeOK, ApprovalEarned, CopiesEarned
<1>5. CASE UNCHANGED file /\ held' = [c \in Callers |-> Nothing]
  BY <1>5 DEF ApprovalEarned, CopiesEarned
<1>6. CASE UNCHANGED <<file, held>>
  BY <1>6 DEF ApprovalEarned, CopiesEarned
<1> QED
  BY <1>1, <1>2, <1>3, <1>4, <1>5, <1>6 DEF FilesStep

LEMMA OthersKeepTheirCopies ==
  ASSUME ProposalTypeOK, NEW c \in Callers, Discuss(c), NEW d \in Callers, d # c
  PROVE  held'[d] = held[d]
BY DEF Discuss, Open, Read, Return, ReviewProposal, RecordCheck, CloseProposal, Write, ProposalTypeOK

LEMMA MergeRecord ==
  ASSUME merge \in [Mergers -> Merge], NEW m \in Mergers
  PROVE  /\ merge[m].pc \in PCs /\ merge[m].branch \in Branches /\ merge[m].started \in Nat
         /\ merge[m].todo \in SUBSET Claims /\ merge[m].proposal \in Proposals \cup {NoProposal}
         /\ merge[m].seen \in Seq(Intent)
BY DEF Merge

LEMMA IdleMerge ==
  /\ Idle \in Merge
  /\ Idle.pc = "idle" /\ Idle.branch \in Branches /\ Idle.proposal = NoProposal
<1>1. (CHOOSE b \in Branches : TRUE) \in Branches
  BY MergeAssumption
<1> QED
  BY <1>1 DEF Idle, Merge, PCs

(* A merge that goes on keeps what it is about. *)
SameMerge(m) == /\ merge'[m].branch = merge[m].branch /\ merge'[m].todo = merge[m].todo
                /\ merge'[m].proposal = merge[m].proposal

LEMMA Went ==
  ASSUME TypeOK, NEW m \in Mergers, NEW pc, Goes(m, pc)
  PROVE  merge'[m].pc = pc /\ SameMerge(m)
BY DEF Goes, TypeOK, Merge, SameMerge

LEMMA Ended ==
  ASSUME TypeOK, NEW m \in Mergers, End(m)
  PROVE  merge'[m].pc = "idle"
BY IdleMerge DEF End, TypeOK, Merge

-----------------------------------------------------------------------------
(* Every step treats the files in one of those ways. *)
LEMMA NextFiles ==
  ASSUME TypeOK, AuthorityInv, CopiesEarned, [Next]_vars
  PROVE  FilesStep
<1>1. CASE \E m \in Mergers : MarkProposal(m)
  <2>1. PICK m \in Mergers : MarkProposal(m)
    BY <1>1
  <2>2. m \in Callers
    BY MergeAssumption
  <2>3. CASE At(m, "read_proposal") /\ Read(m, merge[m].proposal)
    <3>1. merge[m].proposal \in Proposals
      BY <2>3, MergeRecord DEF TypeOK, AuthorityInv, Marking, At
    <3> QED
      BY <2>2, <2>3, <3>1 DEF FilesStep, Reads
  <2>4. CASE MarkProposalMerged(m)
    BY <2>2, <2>4, MarkWrites DEF FilesStep
  <2>5. CASE Return(m)
    BY <2>2, <2>5 DEF FilesStep
  <2> QED
    BY <2>1, <2>3, <2>4, <2>5 DEF MarkProposal
<1>2. CASE DiscussProposals
  <2>1. PICK c \in Callers : Discuss(c)
    BY <1>2 DEF DiscussProposals
  <2> QED
    BY <2>1, DiscussWrites DEF FilesStep
<1>3. CASE Stop \/ Crash
  BY <1>3 DEF Stop, Crash, disk, FilesStep
<1>4. ASSUME NEW m \in Mergers, MergeStep(m), ~ MarkProposal(m)
      PROVE  UNCHANGED <<file, held>>
  BY <1>4 DEF MergeStep, StartMerge, Refuse, AbandonEphemeral, PassGate, ReadIntents, WriteIntent,
     ClearIntent, AcquireMergeLock, Snapshot, Insert, Applied, Fail, MarkMerged, disk
<1>5. CASE (\E b \in Branches : DeleteBranch(b) \/ RollbackMerge(b)) \/ RecoverOrphanMerges
           \/ UNCHANGED vars
  BY <1>5 DEF DeleteBranch, RollbackMerge, RecoverOrphanMerges, vars, disk, FilesStep
<1> QED
  BY <1>1, <1>2, <1>3, <1>4, <1>5 DEF Next, FilesStep

(* How a merge's record changes. *)
LEMMA NextMergeTyped ==
  ASSUME TypeOK, [Next]_vars
  PROVE  merge' \in [Mergers -> Merge]
<1>1. merge \in [Mergers -> Merge] /\ Idle \in Merge /\ intents \in Seq(Intent)
  BY IdleMerge DEF TypeOK
<1>2. CASE UNCHANGED merge
  BY <1>1, <1>2
<1>3. CASE merge' = [m \in Mergers |-> Idle]
  BY <1>1, <1>3
<1>4. ASSUME NEW m \in Mergers, End(m) PROVE merge' \in [Mergers -> Merge]
  BY <1>1, <1>4 DEF End
<1>5. ASSUME NEW m \in Mergers, NEW pc \in PCs, Goes(m, pc)
      PROVE  merge' \in [Mergers -> Merge]
  <2>1. [merge[m] EXCEPT !.pc = pc] \in Merge
    BY <1>1 DEF Merge
  <2> QED
    BY <1>1, <1>5, <2>1 DEF Goes
<1>6. ASSUME NEW m \in Mergers, NEW b \in Branches, StartMerge(m, b)
      PROVE  merge' \in [Mergers -> Merge]
  <2>1. attempts' \in Nat /\ Content[b] \ graph \subseteq Claims
    BY <1>6 DEF StartMerge, TypeOK, Claims
  <2>2. [Idle EXCEPT !.pc = "gate", !.branch = b, !.started = attempts', !.todo = Content[b] \ graph]
        \in Merge
    BY <1>1, <2>1 DEF Merge, PCs
  <2> QED
    BY <1>1, <1>6, <2>2 DEF StartMerge
<1>7. ASSUME NEW m \in Mergers, PassGate(m) PROVE merge' \in [Mergers -> Merge]
  <2>1. CASE Goes(m, "read_intents")
    BY <1>5, <2>1 DEF PCs
  <2>2. ASSUME NEW p \in ApprovedFor(Source(m)),
               merge' = [merge EXCEPT ![m].pc = "read_intents", ![m].proposal = p]
        PROVE  merge' \in [Mergers -> Merge]
    <3>1. p \in Proposals
      BY DEF ApprovedFor
    <3>2. [merge[m] EXCEPT !.pc = "read_intents", !.proposal = p] \in Merge
      BY <1>1, <3>1 DEF Merge, PCs
    <3> QED
      BY <1>1, <2>2, <3>2
  <2> QED
    BY <1>7, <2>1, <2>2 DEF PassGate
<1>8. ASSUME NEW m \in Mergers, ReadIntents(m) PROVE merge' \in [Mergers -> Merge]
  <2>1. \A pc \in {"write_intent", "clear_intent"} :
          [merge[m] EXCEPT !.pc = pc, !.seen = intents] \in Merge
    BY <1>1 DEF Merge, PCs
  <2> QED
    BY <1>1, <1>8, <2>1 DEF ReadIntents
<1>9. ASSUME NEW m \in Mergers, Insert(m) PROVE merge' \in [Mergers -> Merge]
  <2>1. PICK c \in merge[m].todo : merge' = [merge EXCEPT ![m].todo = @ \ {c}]
    BY <1>9 DEF Insert
  <2>2. [merge[m] EXCEPT !.todo = @ \ {c}] \in Merge
    BY <1>1 DEF Merge
  <2> QED
    BY <1>1, <2>1, <2>2
<1>10. ASSUME NEW m \in Mergers, MergeStep(m) PROVE merge' \in [Mergers -> Merge]
  BY <1>2, <1>4, <1>5, <1>6, <1>7, <1>8, <1>9, <1>10
     DEF MergeStep, Refuse, AbandonEphemeral, WriteIntent, ClearIntent, AcquireMergeLock, Snapshot,
         Applied, Fail, MarkMerged, MarkProposal, PCs
<1> QED
  BY <1>2, <1>3, <1>10 DEF Next, DeleteBranch, RollbackMerge, DiscussProposals, Stop, Crash,
     RecoverOrphanMerges, vars

-----------------------------------------------------------------------------
(* Induction, as the least counterexample, and what it gives of the intents file. *)
LEMMA LeastNatural ==
  ASSUME NEW T \in SUBSET Nat, T # {}
  PROVE  \E x \in T : \A y \in T : x <= y
<1>1. PICK x \in T : \A y \in T : ~ (<<y, x>> \in OpToRel(<, Nat))
  <2>1. \E x \in T : \A y \in T : ~ (<<y, x>> \in OpToRel(<, Nat))
    BY NatLessThanWellFounded, WFMin
  <2> QED
    BY <2>1
<1>2. ASSUME NEW y \in T, y < x PROVE FALSE
  <2>1. <<y, x>> \in Nat \X Nat /\ <<y, x>>[1] < <<y, x>>[2]
    BY <1>2
  <2>2. <<y, x>> \in {ss \in Nat \X Nat : ss[1] < ss[2]}
    BY <2>1
  <2> QED
    BY <1>1, <2>2 DEF OpToRel
<1> QED
  BY <1>2

(* clear_merge_intent keeps intents: one turn of its retain, and all of them. *)
Kept(s, x, kept, n) ==
  kept = [i \in 0 .. n |-> IF i = 0 THEN <<>>
                           ELSE IF s[i] = x THEN kept[i - 1] ELSE Append(kept[i - 1], s[i])]

LEMMA KeptExists ==
  ASSUME NEW s, NEW x, NEW N \in Nat
  PROVE  \E kept : Kept(s, x, kept, N)
<1> DEFINE Bad == {n \in Nat : ~ \E kept : Kept(s, x, kept, n)}
<1> SUFFICES ASSUME Bad # {} PROVE FALSE
  OBVIOUS
<1>1. PICK n \in Bad : \A m \in Bad : n <= m
  <2>1. Bad \in SUBSET Nat
    OBVIOUS
  <2> HIDE DEF Bad
  <2> QED
    BY <2>1, LeastNatural
<1>2. n # 0
  <2> DEFINE f == [i \in 0 .. 0 |-> <<>>]
  <2>1. Kept(s, x, f, 0)
    BY DEF Kept
  <2> QED
    BY <2>1
<1>3. n - 1 \in Nat /\ n - 1 \notin Bad
  <2>1. n \in Nat
    OBVIOUS
  <2> HIDE DEF Bad
  <2> QED
    BY <1>1, <1>2, <2>1
<1>4. PICK g : Kept(s, x, g, n - 1)
  BY <1>3
<1> DEFINE Turn(f, i) == IF i = 0 THEN <<>>
                         ELSE IF s[i] = x THEN f[i - 1] ELSE Append(f[i - 1], s[i])
           f == [i \in 0 .. n |-> IF i = n THEN Turn(g, n) ELSE g[i]]
<1>5. ASSUME NEW i \in 0 .. n PROVE f[i] = Turn(f, i)
  <2>1. i # 0 => i - 1 \in 0 .. n - 1 /\ f[i - 1] = g[i - 1]
    BY <1>3
  <2>2. CASE i = n
    <3>1. f[i] = Turn(g, i)
      BY <2>2
    <3> QED
      BY <1>2, <2>1, <2>2, <3>1
  <2>3. CASE i # n
    <3>1. i \in 0 .. n - 1 /\ f[i] = g[i]
      BY <1>3, <2>3
    <3>2. g[i] = Turn(g, i)
      BY <1>4, <3>1 DEF Kept
    <3> QED
      BY <2>1, <3>1, <3>2
  <2> QED
    BY <2>2, <2>3
<1>6. f = [i \in 0 .. n |-> f[i]]
  OBVIOUS
<1> HIDE DEF f
<1>7. Kept(s, x, f, n)
  BY <1>5, <1>6 DEF Kept
<1> QED
  BY <1>1, <1>7

LEMMA WithoutTyped ==
  ASSUME NEW S, NEW s \in Seq(S), NEW x
  PROVE  Without(s, x) \in Seq(S)
<1> DEFINE kept == CHOOSE f : Kept(s, x, f, Len(s))
<1>1. Len(s) \in Nat
  OBVIOUS
<1>2. Kept(s, x, kept, Len(s)) /\ Without(s, x) = kept[Len(s)]
  <2>1. Without(s, x) = kept[Len(s)]
    BY DEF Without, Kept
  <2> QED
    BY <1>1, <2>1, KeptExists
<1> HIDE DEF kept
<1> DEFINE Bad == {n \in 0 .. Len(s) : kept[n] \notin Seq(S)}
<1>3. SUFFICES ASSUME Bad # {} PROVE FALSE
  BY <1>1, <1>2
<1>4. PICK n \in Bad : \A m \in Bad : n <= m
  <2>1. Bad \in SUBSET Nat
    BY <1>1
  <2> HIDE DEF Bad
  <2> QED
    BY <1>3, <2>1, LeastNatural
<1>5. n \in 0 .. Len(s) /\ kept[n] \notin Seq(S)
  OBVIOUS
<1>6. kept[n] = IF n = 0 THEN <<>> ELSE IF s[n] = x THEN kept[n - 1] ELSE Append(kept[n - 1], s[n])
  BY <1>2, <1>5 DEF Kept
<1>7. n # 0
  BY <1>5, <1>6
<1>8. n \in 1 .. Len(s) /\ s[n] \in S /\ n - 1 \in 0 .. Len(s) /\ ~ (n <= n - 1)
  BY <1>1, <1>5, <1>7
<1>9. kept[n - 1] \in Seq(S)
  BY <1>4, <1>8
<1> QED
  BY <1>5, <1>6, <1>7, <1>8, <1>9

(* Whatever the names of branches, what a search for snapshots finds is the snapshot of one. *)
LEMMA LastOneFound ==
  ASSUME NEW b \in Branches, Found(b) # {}
  PROVE  LastOne(b) \in Found(b)
<1> DEFINE Places == {FromLast[d] : d \in Found(b)}
<1>1. Places \in SUBSET Nat /\ Places # {}
  BY MergeAssumption DEF Found
<1>2. PICK k \in Places : \A j \in Places : k <= j
  <2> HIDE DEF Places
  <2> QED
    BY <1>1, LeastNatural
<1>3. \E d \in Found(b) : \A e \in Found(b) : FromLast[d] <= FromLast[e]
  BY <1>2
<1> QED
  BY <1>3 DEF LastOne

(* recover_orphan_merges leaves main as it is, or as the snapshot of some branch. *)
LEMMA RestoredIs ==
  ASSUME intents \in Seq(Intent)
  PROVE  \/ Restored = graph /\ Restorable = {}
         \/ \E b \in taken : Restored = snapshot[b]
<1> SUFFICES ASSUME Restorable # {} PROVE \E b \in taken : Restored = snapshot[b]
  BY DEF Restored
<1> DEFINE Left == {k \in Nat : Len(intents) - k \in Restorable}
<1>1. Restorable \subseteq 1 .. Len(intents) /\ Len(intents) \in Nat
  BY DEF Restorable
<1>2. Left \in SUBSET Nat /\ Left # {}
  <2>1. PICK i \in Restorable : TRUE
    OBVIOUS
  <2>2. Len(intents) - i \in Nat /\ Len(intents) - (Len(intents) - i) = i
    BY <1>1, <2>1
  <2> QED
    BY <2>1, <2>2
<1>3. PICK k \in Left : \A j \in Left : k <= j
  <2> HIDE DEF Left
  <2> QED
    BY <1>2, LeastNatural
<1>4. ASSUME NEW j \in Restorable PROVE j <= Len(intents) - k
  <2>1. j \in 1 .. Len(intents) /\ k \in Nat
    BY <1>1
  <2>2. Len(intents) - j \in Nat /\ Len(intents) - (Len(intents) - j) = j
    BY <1>1, <2>1
  <2>3. k <= Len(intents) - j
    BY <1>3, <2>2
  <2> QED
    BY <1>1, <2>1, <2>2, <2>3
<1>5. \E i \in Restorable : \A j \in Restorable : j <= i
  BY <1>4
<1>6. LastRestored \in Restorable
  BY <1>5 DEF LastRestored
<1> DEFINE b == intents[LastRestored].branch
<1>7. b \in Branches /\ Found(b) # {}
  <2>1. LastRestored \in DOMAIN intents /\ Found(b) # {}
    BY <1>6 DEF Restorable
  <2>2. intents[LastRestored] \in Intent
    BY <2>1
  <2>3. b \in Branches
    BY <2>2 DEF Intent
  <2> QED
    BY <2>1, <2>3
<1> QED
  BY <1>7, LastOneFound DEF Restored, Found

-----------------------------------------------------------------------------
(* What each variable is after a step. *)
LEMMA NextGraphTyped ==
  ASSUME TypeOK, [Next]_vars
  PROVE  /\ graph' \subseteq Claims
         /\ taken' \subseteq Branches /\ snapshot' \in [Branches -> SUBSET Claims]
<1>1. ASSUME NEW m \in Mergers, Insert(m) PROVE graph' \subseteq Claims
  <2>1. merge[m].todo \subseteq Claims
    BY MergeRecord DEF TypeOK
  <2> QED
    BY <1>1, <2>1 DEF Insert, TypeOK
<1>2. ASSUME NEW m \in Mergers, Snapshot(m)
      PROVE  taken' \subseteq Branches /\ snapshot' \in [Branches -> SUBSET Claims]
  <2>1. Source(m) \in Branches
    BY MergeRecord DEF TypeOK, Source
  <2> QED
    BY <1>2, <2>1 DEF Snapshot, TypeOK
<1>3. ASSUME NEW b \in Branches, RollbackMerge(b) PROVE graph' \subseteq Claims
  BY <1>3, LastOneFound DEF RollbackMerge, Found, TypeOK
<1>4. CASE RecoverOrphanMerges
  <2>1. Restored \subseteq Claims
    BY RestoredIs DEF TypeOK
  <2> QED
    BY <1>4, <2>1 DEF RecoverOrphanMerges, TypeOK
<1>5. ASSUME NEW m \in Mergers, MergeStep(m)
      PROVE  /\ Insert(m) \/ UNCHANGED graph
             /\ Snapshot(m) \/ UNCHANGED <<taken, snapshot>>
  BY <1>5 DEF MergeStep, StartMerge, Refuse, AbandonEphemeral, PassGate, ReadIntents, WriteIntent,
     ClearIntent, AcquireMergeLock, Snapshot, Insert, Applied, Fail, MarkMerged, MarkProposal, disk
<1>6. CASE \E m \in Mergers : MergeStep(m)
  BY <1>1, <1>2, <1>5, <1>6 DEF TypeOK
<1>7. CASE DiscussProposals \/ Stop \/ Crash \/ UNCHANGED vars \/ \E b \in Branches : DeleteBranch(b)
  BY <1>7 DEF DiscussProposals, Stop, Crash, DeleteBranch, vars, disk, TypeOK
<1>8. CASE \E b \in Branches : RollbackMerge(b)
  BY <1>3, <1>8 DEF RollbackMerge, TypeOK
<1> QED
  BY <1>4, <1>6, <1>7, <1>8 DEF Next

LEMMA NextIntentsTyped ==
  ASSUME TypeOK, [Next]_vars
  PROVE  intents' \in Seq(Intent)
<1>1. ASSUME NEW m \in Mergers, WriteIntent(m) PROVE intents' \in Seq(Intent)
  <2>1. merge[m].seen \in Seq(Intent) /\ ThisIntent(m) \in Intent
    BY MergeRecord DEF TypeOK, ThisIntent, Source, Intent
  <2> QED
    BY <1>1, <2>1 DEF WriteIntent
<1>2. ASSUME NEW m \in Mergers, ClearIntent(m) PROVE intents' \in Seq(Intent)
  <2>1. Others(m) \in Seq(Intent)
    BY MergeRecord, WithoutTyped DEF TypeOK, Others
  <2> QED
    BY <1>2, <2>1 DEF ClearIntent, TypeOK
<1>3. CASE RecoverOrphanMerges
  BY <1>3 DEF RecoverOrphanMerges
<1>4. ASSUME NEW m \in Mergers, MergeStep(m), ~ WriteIntent(m), ~ ClearIntent(m)
      PROVE  UNCHANGED intents
  BY <1>4 DEF MergeStep, StartMerge, Refuse, AbandonEphemeral, PassGate, ReadIntents,
     AcquireMergeLock, Snapshot, Insert, Applied, Fail, MarkMerged, MarkProposal, disk
<1>5. CASE (\E b \in Branches : DeleteBranch(b) \/ RollbackMerge(b)) \/ DiscussProposals
           \/ Stop \/ Crash \/ UNCHANGED vars
  BY <1>5 DEF DeleteBranch, RollbackMerge, DiscussProposals, Stop, Crash, vars, disk, TypeOK
<1> QED
  BY <1>1, <1>2, <1>3, <1>4, <1>5 DEF Next, TypeOK

LEMMA NextRegistryTyped ==
  ASSUME TypeOK, [Next]_vars
  PROVE  /\ registry' \in [Branches -> {"active", "merged", "abandoned"}]
         /\ approval' \in [Branches -> Proposals \cup {NoProposal}]
<1>1. \/ UNCHANGED registry
      \/ \E b : registry' = [registry EXCEPT ![b] = "abandoned"]
      \/ \E b : registry' = [registry EXCEPT ![b] = "merged"]
  BY DEF Next, MergeStep, vars, disk, StartMerge, Refuse, AbandonEphemeral, PassGate, ReadIntents,
     WriteIntent, ClearIntent, AcquireMergeLock, Snapshot, Insert, Applied, Fail, MarkMerged,
     MarkProposal, DeleteBranch, RollbackMerge, DiscussProposals, Stop, Crash, RecoverOrphanMerges
<1>2. \/ UNCHANGED approval
      \/ \E m \in Mergers : approval' = [approval EXCEPT ![Source(m)] = merge[m].proposal]
  BY DEF Next, MergeStep, vars, disk, StartMerge, Refuse, AbandonEphemeral, PassGate, ReadIntents,
     WriteIntent, ClearIntent, AcquireMergeLock, Snapshot, Insert, Applied, Fail, MarkMerged,
     MarkProposal, DeleteBranch, RollbackMerge, DiscussProposals, Stop, Crash, RecoverOrphanMerges
<1> QED
  BY <1>1, <1>2, MergeRecord DEF TypeOK

LEMMA NextProcessTyped ==
  ASSUME TypeOK, [Next]_vars
  PROVE  /\ lock' \in Mergers \cup {NoMerger} /\ up' \in BOOLEAN
         /\ attempts' \in 0 .. MaxAttempts /\ crashes' \in 0 .. CrashBudget
<1>1. lock' \in Mergers \cup {NoMerger}
  BY DEF Next, MergeStep, vars, disk, StartMerge, Refuse, AbandonEphemeral, PassGate, ReadIntents,
     WriteIntent, ClearIntent, AcquireMergeLock, Snapshot, Insert, Applied, Fail, Unlocked, MarkMerged,
     MarkProposal, DeleteBranch, RollbackMerge, DiscussProposals, Stop, Crash, RecoverOrphanMerges,
     TypeOK
<1>2. UNCHANGED up \/ up' = TRUE \/ up' = FALSE
  BY DEF Next, MergeStep, vars, disk, StartMerge, Refuse, AbandonEphemeral, PassGate, ReadIntents,
     WriteIntent, ClearIntent, AcquireMergeLock, Snapshot, Insert, Applied, Fail, MarkMerged,
     MarkProposal, DeleteBranch, RollbackMerge, DiscussProposals, Stop, Crash, RecoverOrphanMerges
<1>3. attempts' = attempts \/ (attempts < MaxAttempts /\ attempts' = attempts + 1)
  BY DEF Next, MergeStep, vars, disk, StartMerge, Refuse, AbandonEphemeral, PassGate, ReadIntents,
     WriteIntent, ClearIntent, AcquireMergeLock, Snapshot, Insert, Applied, Fail, MarkMerged,
     MarkProposal, DeleteBranch, RollbackMerge, DiscussProposals, Stop, Crash, RecoverOrphanMerges
<1>4. crashes' = crashes \/ (crashes < CrashBudget /\ crashes' = crashes + 1)
  BY DEF Next, MergeStep, vars, disk, StartMerge, Refuse, AbandonEphemeral, PassGate, ReadIntents,
     WriteIntent, ClearIntent, AcquireMergeLock, Snapshot, Insert, Applied, Fail, MarkMerged,
     MarkProposal, DeleteBranch, RollbackMerge, DiscussProposals, Stop, Crash, RecoverOrphanMerges
<1>5. up' \in BOOLEAN
  BY <1>2 DEF TypeOK
<1>6. attempts' \in 0 .. MaxAttempts
  BY <1>3, MergeAssumption DEF TypeOK
<1>7. crashes' \in 0 .. CrashBudget
  BY <1>4, MergeAssumption DEF TypeOK
<1> QED
  BY <1>1, <1>5, <1>6, <1>7

LEMMA NextTyped ==
  ASSUME TypeOK, AuthorityInv, CopiesEarned, [Next]_vars
  PROVE  TypeOK'
BY NextFiles, FilesTyped, NextMergeTyped, NextGraphTyped, NextIntentsTyped, NextRegistryTyped,
   NextProcessTyped DEF TypeOK

-----------------------------------------------------------------------------
(* Authority: a branch leaves "active" once, and what approved it is recorded with it. *)
LEMMA NextRegistry ==
  ASSUME TypeOK, [Next]_vars, NEW b \in Branches
  PROVE  \/ registry'[b] = registry[b] /\ approval'[b] = approval[b]
         \/ registry[b] = "active" /\ registry'[b] = "abandoned" /\ approval'[b] = approval[b]
         \/ \E m \in Mergers : /\ MarkMerged(m) /\ Source(m) = b /\ registry[b] = "active"
                               /\ registry'[b] = "merged" /\ approval'[b] = merge[m].proposal
<1>1. CASE \E m \in Mergers : MarkMerged(m)
  BY <1>1 DEF MarkMerged, TypeOK
<1>2. CASE \E m \in Mergers : AbandonEphemeral(m)
  BY <1>2 DEF AbandonEphemeral, Ephemeral, TypeOK
<1>3. CASE \E d \in Branches : DeleteBranch(d)
  BY <1>3 DEF DeleteBranch, TypeOK
<1>4. ASSUME NEW m \in Mergers, MergeStep(m), ~ MarkMerged(m), ~ AbandonEphemeral(m)
      PROVE  UNCHANGED <<registry, approval>>
  BY <1>4 DEF MergeStep, disk, StartMerge, Refuse, PassGate, ReadIntents, WriteIntent, ClearIntent,
     AcquireMergeLock, Snapshot, Insert, Applied, Fail, MarkProposal
<1> QED
  BY <1>1, <1>2, <1>3, <1>4
     DEF Next, vars, disk, RollbackMerge, DiscussProposals, Stop, Crash, RecoverOrphanMerges

(* A merge moves on by its own steps, and stands still or is gone in all others. *)
LEMMA OtherMergers ==
  ASSUME TypeOK, NEW n \in Mergers, MergeStep(n), NEW m \in Mergers, m # n
  PROVE  merge'[m] = merge[m] /\ held'[m] = held[m]
<1>1. merge'[m] = merge[m]
  BY DEF MergeStep, StartMerge, Refuse, AbandonEphemeral, PassGate, ReadIntents, WriteIntent,
     ClearIntent, AcquireMergeLock, Snapshot, Insert, Applied, Fail, MarkMerged, MarkProposal,
     Goes, End, TypeOK
<1>2. m \in Callers /\ n \in Callers
  BY MergeAssumption
<1>3. held'[m] = held[m]
  BY <1>2 DEF MergeStep, StartMerge, Refuse, AbandonEphemeral, PassGate, ReadIntents, WriteIntent,
     ClearIntent, AcquireMergeLock, Snapshot, Insert, Applied, Fail, MarkMerged, MarkProposal,
     Read, Return, MarkProposalMerged, Write, TypeOK, ProposalTypeOK
<1> QED
  BY <1>1, <1>3

LEMMA NextMerger ==
  ASSUME TypeOK, [Next]_vars, NEW m \in Mergers
  PROVE  \/ MergeStep(m)
         \/ merge'[m] = merge[m] /\ held'[m] = held[m]
         \/ merge'[m].pc = "idle"
<1>1. CASE \E n \in Mergers : MergeStep(n)
  BY <1>1, OtherMergers
<1>2. CASE DiscussProposals
  <2>1. PICK c \in Callers \ Mergers : Discuss(c)
    BY <1>2 DEF DiscussProposals
  <2>2. m \in Callers /\ m # c
    BY MergeAssumption
  <2> QED
    BY <1>2, <2>1, <2>2, OthersKeepTheirCopies DEF DiscussProposals, TypeOK
<1>3. CASE Stop \/ Crash
  BY <1>3, IdleMerge DEF Stop, Quiet, Crash
<1> QED
  BY <1>1, <1>2, <1>3 DEF Next, vars, DeleteBranch, RollbackMerge, RecoverOrphanMerges

LEMMA AuthorityStep ==
  ASSUME TypeOK, AuthorityInv, [Next]_vars
  PROVE  AuthorityInv'
<1> SUFFICES ASSUME NEW m \in Mergers PROVE PastGate(m)' /\ Marking(m)'
  BY DEF AuthorityInv
<1>1. Source(m) \in Branches /\ merge[m].proposal \in Proposals \cup {NoProposal}
  BY MergeRecord DEF TypeOK, Source
<1>2. \A b \in Branches : /\ registry'[b] = "active" => registry[b] = "active"
                          /\ registry[b] = "merged" => /\ registry'[b] = "merged"
                                                       /\ approval'[b] = approval[b]
  BY NextRegistry
<1>3. CASE merge'[m] = merge[m] /\ held'[m] = held[m]
  BY <1>1, <1>2, <1>3 DEF AuthorityInv, PastGate, Marking, Source
<1>4. CASE merge'[m].pc = "idle"
  BY <1>4 DEF PastGate, Marking
<1>5. CASE MergeStep(m)
  <2>1. CASE \E b \in Branches : StartMerge(m, b)
    <3>1. merge'[m].pc = "gate" /\ merge'[m].proposal = NoProposal
      BY <2>1, IdleMerge DEF StartMerge, TypeOK, Merge
    <3> QED
      BY <3>1 DEF PastGate, Marking
  <2>2. CASE PassGate(m)
    <3>1. CASE ~ Gated(Source(m)) /\ Goes(m, "read_intents")
      BY <1>1, <1>2, <3>1, <2>2, Went
         DEF AuthorityInv, Gated, PassGate, PastGate, Marking, Source, SameMerge, At
    <3>2. ASSUME NEW p \in ApprovedFor(Source(m)),
                 merge' = [merge EXCEPT ![m].pc = "read_intents", ![m].proposal = p]
          PROVE  PastGate(m)' /\ Marking(m)'
      <4>1. p \in Proposals /\ SourceOf[p] = Source(m) /\ p # NoProposal
        BY MergeAssumption DEF ApprovedFor
      <4>2. /\ merge'[m].pc = "read_intents" /\ merge'[m].branch = merge[m].branch
            /\ merge'[m].proposal = p
        BY <3>2 DEF TypeOK, Merge
      <4> QED
        BY <4>1, <4>2 DEF PastGate, Marking, Source
    <3> QED
      BY <2>2, <3>1, <3>2 DEF PassGate
  <2>3. CASE MarkMerged(m)
    <3>1. CASE End(m)
      BY <3>1, Ended DEF PastGate, Marking
    <3>2. CASE registry[Source(m)] = "active" /\ ~ End(m)
      <4>1. /\ registry' = [registry EXCEPT ![Source(m)] = "merged"]
            /\ approval' = [approval EXCEPT ![Source(m)] = merge[m].proposal]
            /\ Goes(m, IF merge[m].proposal = NoProposal THEN "reread_intents" ELSE "read_proposal")
        BY <2>3, <3>2 DEF MarkMerged
      <4>2. registry'[Source(m)] = "merged" /\ approval'[Source(m)] = merge[m].proposal
        BY <1>1, <4>1 DEF TypeOK
      <4>3. /\ SameMerge(m)
            /\ merge'[m].pc = IF merge[m].proposal = NoProposal THEN "reread_intents" ELSE "read_proposal"
        BY <4>1, Went
      <4>4. merge[m].pc = "mark"
        BY <2>3 DEF MarkMerged, At
      <4> QED
        BY <1>2, <4>2, <4>3, <4>4 DEF AuthorityInv, PastGate, Marking, Source, SameMerge
    <3> QED
      BY <2>3, <3>1, <3>2 DEF MarkMerged
  <2>4. CASE MarkProposal(m)
    <3>1. UNCHANGED <<registry, approval>>
      BY <2>4 DEF MarkProposal
    <3>2. CASE At(m, "read_proposal") /\ Read(m, merge[m].proposal) /\ Goes(m, "mark_proposal")
      <4>1. held'[m].id = merge[m].proposal
        BY <3>2, MergeAssumption DEF Read, TypeOK, ProposalTypeOK
      <4> QED
        BY <3>1, <3>2, <4>1, Went DEF AuthorityInv, PastGate, Marking, Source, SameMerge, At
    <3>3. CASE At(m, "mark_proposal") /\ Goes(m, "reread_intents")
      BY <3>1, <3>3, Went DEF AuthorityInv, PastGate, Marking, Source, SameMerge, At
    <3> QED
      BY <2>4, <3>2, <3>3 DEF MarkProposal
  <2>5. ASSUME NEW pc \in PCs \ {"gate", "read_proposal", "mark_proposal"}, Goes(m, pc),
               merge[m].pc \notin {"idle", "gate"}
        PROVE  PastGate(m)' /\ Marking(m)'
    BY <1>2, <1>1, <2>5, Went DEF AuthorityInv, PastGate, Marking, Source, SameMerge
  <2>6. CASE End(m)
    BY <2>6, Ended DEF PastGate, Marking
  <2>7. CASE ReadIntents(m)
    <3>1. /\ merge'[m].pc \in {"write_intent", "clear_intent"} /\ merge'[m].branch = merge[m].branch
          /\ merge'[m].proposal = merge[m].proposal /\ merge[m].pc \notin {"idle", "gate"}
      BY <2>7 DEF ReadIntents, At, TypeOK, Merge
    <3> QED
      BY <1>1, <1>2, <3>1 DEF AuthorityInv, PastGate, Marking, Source
  <2>8. CASE Insert(m)
    <3>1. /\ merge'[m].pc = "insert" /\ merge'[m].branch = merge[m].branch
          /\ merge'[m].proposal = merge[m].proposal /\ merge[m].pc = "insert"
      BY <2>8 DEF Insert, At, TypeOK, Merge
    <3> QED
      BY <1>1, <1>2, <3>1 DEF AuthorityInv, PastGate, Marking, Source
  <2> QED
    BY <1>5, <2>1, <2>2, <2>3, <2>4, <2>5, <2>6, <2>7, <2>8
       DEF MergeStep, Refuse, AbandonEphemeral, WriteIntent, ClearIntent, AcquireMergeLock, Snapshot,
       Applied, Fail, At, PCs
<1> QED
  BY <1>3, <1>4, <1>5, NextMerger

(* A file comes to say merged only in mark_proposal_merged. *)
LEMMA NextMerged ==
  ASSUME TypeOK, [Next]_vars, NEW p \in Proposals, file'[p] # NoFile, file'[p].status = "merged"
  PROVE  \/ file[p] = file'[p]
         \/ \E m \in Mergers : merge[m].pc = "mark_proposal" /\ held[m].id = p
<1>1. CASE \E m \in Mergers : MarkProposal(m)
  BY <1>1 DEF MarkProposal, At, Read, Return, MarkProposalMerged, Write, TypeOK, ProposalTypeOK
<1>2. CASE DiscussProposals
  <2>1. PICK c \in Callers : Discuss(c)
    BY <1>2 DEF DiscussProposals
  <2>2. CASE Reads(c) \/ Return(c)
    BY <2>2 DEF Reads, Read, Return
  <2>3. CASE \E q \in Proposals : Open(q)
    BY <2>3, OpenedTyped DEF Open, TypeOK, ProposalTypeOK
  <2>4. CASE \E f : Writes(c, f) /\ f.status # "merged"
    BY <2>4 DEF Writes, Write, TypeOK, ProposalTypeOK
  <2> QED
    BY <2>1, <2>2, <2>3, <2>4, DiscussWrites
<1>3. ASSUME NEW m \in Mergers, MergeStep(m), ~ MarkProposal(m)
      PROVE  UNCHANGED file
  BY <1>3 DEF MergeStep, StartMerge, Refuse, AbandonEphemeral, PassGate, ReadIntents, WriteIntent,
     ClearIntent, AcquireMergeLock, Snapshot, Insert, Applied, Fail, MarkMerged, disk
<1>4. CASE (\E b \in Branches : DeleteBranch(b) \/ RollbackMerge(b)) \/ RecoverOrphanMerges
           \/ Stop \/ Crash \/ UNCHANGED vars
  BY <1>4 DEF DeleteBranch, RollbackMerge, RecoverOrphanMerges, Stop, Crash, vars, disk
<1> QED
  BY <1>1, <1>2, <1>3, <1>4 DEF Next

LEMMA HonestStep ==
  ASSUME TypeOK, AuthorityInv, MergedProposalHonest, MergedByApproval, [Next]_vars
  PROVE  MergedProposalHonest' /\ MergedByApproval'
<1>1. ASSUME NEW b \in Branches, registry[b] = "merged"
      PROVE  registry'[b] = "merged" /\ approval'[b] = approval[b]
  BY <1>1, NextRegistry
<1>2. ASSUME NEW p \in Proposals, file'[p] # NoFile, file'[p].status = "merged"
      PROVE  registry'[SourceOf[p]] = "merged" /\ approval'[SourceOf[p]] = p
  <2>1. SourceOf[p] \in Branches
    BY MergeAssumption
  <2>2. CASE file[p] = file'[p]
    BY <1>1, <1>2, <2>1, <2>2 DEF MergedProposalHonest
  <2>3. ASSUME NEW m \in Mergers, merge[m].pc = "mark_proposal", held[m].id = p
        PROVE  registry[SourceOf[p]] = "merged" /\ approval[SourceOf[p]] = p
    BY <2>3 DEF AuthorityInv, PastGate, Marking
  <2> QED
    BY <1>1, <1>2, <2>1, <2>2, <2>3, NextMerged
<1>3. ASSUME NEW b \in Branches, Policy[b] = "requires_proposal", registry'[b] = "merged"
      PROVE  approval'[b] # NoProposal /\ SourceOf[approval'[b]] = b
  <2>1. CASE registry[b] = "merged"
    BY <1>1, <1>3, <2>1 DEF MergedByApproval
  <2>2. ASSUME NEW m \in Mergers, MarkMerged(m), Source(m) = b, registry[b] = "active",
               approval'[b] = merge[m].proposal
        PROVE  approval'[b] # NoProposal /\ SourceOf[approval'[b]] = b
    BY <1>3, <2>2 DEF MarkMerged, At, AuthorityInv, PastGate
  <2> QED
    BY <1>3, <2>1, <2>2, NextRegistry
<1> QED
  BY <1>2, <1>3 DEF MergedProposalHonest, MergedByApproval

-----------------------------------------------------------------------------
(* What holds of every run, whatever crashes, fails or is rolled back. *)
Honest == TypeOK /\ AuthorityInv /\ CopiesEarned /\ ApprovalEarned /\ MergedProposalHonest
          /\ MergedByApproval

LEMMA HonestInit == Init => Honest
<1> SUFFICES ASSUME Init PROVE Honest
  OBVIOUS
<1> USE DEF Init, ProposalInit
<1>1. TypeOK
  <2>1. ProposalTypeOK
    BY DEF ProposalTypeOK, Held
  <2>2. graph \subseteq Claims /\ snapshot \in [Branches -> SUBSET Claims]
    BY DEF Claims
  <2> QED
    BY <2>1, <2>2, IdleMerge, MergeAssumption DEF TypeOK
<1>2. AuthorityInv
  BY IdleMerge DEF AuthorityInv, PastGate, Marking
<1>3. CopiesEarned /\ ApprovalEarned /\ MergedProposalHonest /\ MergedByApproval
  BY DEF CopiesEarned, ApprovalEarned, MergedProposalHonest, MergedByApproval
<1> QED
  BY <1>1, <1>2, <1>3 DEF Honest

LEMMA HonestNext == Honest /\ [Next]_vars => Honest'
<1> SUFFICES ASSUME Honest, [Next]_vars PROVE Honest'
  OBVIOUS
<1>1. TypeOK' /\ AuthorityInv' /\ MergedProposalHonest' /\ MergedByApproval'
  BY NextTyped, AuthorityStep, HonestStep DEF Honest
<1>2. ApprovalEarned' /\ CopiesEarned'
  BY NextFiles, FilesEarned DEF Honest, TypeOK
<1> QED
  BY <1>1, <1>2 DEF Honest

LEMMA AlwaysHonest == Spec => []Honest
BY HonestInit, HonestNext, PTL DEF Spec

(* Every variable of a merge stays what it is: what clear_merge_intent keeps are intents, what
   recover_orphan_merges brings back are claims of main or of a branch. *)
THEOREM MergeTypeCorrect == Spec => []TypeOK
<1>1. Honest => TypeOK
  BY DEF Honest
<1> QED
  BY <1>1, AlwaysHonest, PTL

(* However callers overwrite each other's files, a proposal that says approved, or merged, holds
   the approvals, the passed checks and no standing objection that recompute_status asks for
   (pr/lib.rs: what the crate calls load-bearing). *)
THEOREM ApprovalsEarned == Spec => []ApprovalEarned
<1>1. Honest => ApprovalEarned
  BY DEF Honest
<1> QED
  BY <1>1, AlwaysHonest, PTL

(* A proposal says merged only if the registry says its branch was, and by this proposal:
   mark_proposal_merged comes after mark_merged_into, whatever crashed in between. *)
THEOREM ProposalsHonest == Spec => []MergedProposalHonest
<1>1. Honest => MergedProposalHonest
  BY DEF Honest
<1> QED
  BY <1>1, AlwaysHonest, PTL

(* A branch whose policy is requires_proposal is merged by an approved proposal of its own:
   nothing done between the gate and the mark takes the authority away. *)
THEOREM MergesAuthorised == Spec => []MergedByApproval
<1>1. Honest => MergedByApproval
  BY DEF Honest
<1> QED
  BY <1>1, AlwaysHonest, PTL

-----------------------------------------------------------------------------
(* The graph of main: the merge lock makes each merge's snapshot its own, as long as nobody
   rolls back by hand beside a merge. *)
Writer(m) ==
  /\ merge[m].pc \in {"snapshot", "insert"} => lock = m
  /\ merge[m].pc # "idle" => up
Diff(m) ==
  /\ merge[m].pc # "idle" => Content[Source(m)] \subseteq graph \cup merge[m].todo
  /\ merge[m].todo \subseteq Content[Source(m)]
  /\ merge[m].pc = "mark" => Content[Source(m)] \subseteq graph
Saved(m) ==
  merge[m].pc = "insert" =>
    /\ Source(m) \in taken /\ snapshot[Source(m)] \subseteq graph
    /\ graph \ snapshot[Source(m)] \subseteq Content[Source(m)]
GraphInv == \A m \in Mergers : Writer(m) /\ Diff(m) /\ Saved(m)

LEMMA GraphInit == Init => GraphInv
BY IdleMerge DEF Init, Idle, GraphInv, Writer, Diff, Saved

LEMMA SavedIsEnough == GraphInv => SnapshotUndoesOnlyThis
BY DEF GraphInv, Diff, Saved, SnapshotUndoesOnlyThis

(* Beside a merge the graph only grows, by what the writer inserts. *)
LEMMA NextGraph ==
  ASSUME RollbackRaces = FALSE, GraphInv, [Next]_vars, NEW m \in Mergers, merge[m].pc # "idle"
  PROVE  \/ UNCHANGED <<graph, taken, snapshot>>
         \/ \E n \in Mergers : Insert(n) \/ Snapshot(n)
<1>1. up /\ ~ Quiet
  BY DEF GraphInv, Writer, Quiet
<1>2. ASSUME NEW n \in Mergers, MergeStep(n), ~ Insert(n), ~ Snapshot(n)
      PROVE  UNCHANGED <<graph, taken, snapshot>>
  BY <1>2 DEF MergeStep, StartMerge, Refuse, AbandonEphemeral, PassGate, ReadIntents, WriteIntent,
     ClearIntent, AcquireMergeLock, Applied, Fail, MarkMerged, MarkProposal, disk
<1> QED
  BY <1>1, <1>2 DEF Next, vars, disk, DeleteBranch, RollbackMerge, DiscussProposals, Stop, Crash,
     RecoverOrphanMerges

(* A merge that stands still while another step is taken. *)
LEMMA BesideGraph ==
  ASSUME RollbackRaces = FALSE, TypeOK, GraphInv, [Next]_vars, NEW m \in Mergers,
         merge'[m] = merge[m], lock' = lock \/ merge[m].pc \notin {"snapshot", "insert"},
         up' = up \/ merge[m].pc = "idle"
  PROVE  Writer(m)' /\ Diff(m)' /\ Saved(m)'
<1>1. Writer(m) /\ Diff(m) /\ Saved(m)
  BY DEF GraphInv
<1>2. Writer(m)'
  BY <1>1 DEF Writer
<1>3. CASE merge[m].pc = "idle"
  BY <1>1, <1>2, <1>3 DEF Diff, Saved, Source
<1>4. CASE merge[m].pc # "idle" /\ UNCHANGED <<graph, taken, snapshot>>
  BY <1>1, <1>2, <1>4 DEF Diff, Saved, Source
<1>5. ASSUME NEW n \in Mergers, Insert(n), merge[m].pc # "idle"
      PROVE  Diff(m)' /\ Saved(m)'
  <2>1. merge[m].pc = "insert" => n = m
    BY <1>1, <1>5 DEF Insert, At, GraphInv, Writer
  <2>2. n # m
    <3>1. PICK c \in merge[n].todo : merge' = [merge EXCEPT ![n].todo = @ \ {c}]
      BY <1>5 DEF Insert
    <3>2. merge'[n].todo = merge[n].todo \ {c}
      BY <3>1 DEF TypeOK, Merge
    <3> QED
      BY <3>1, <3>2
  <2>3. graph \subseteq graph'
    BY <1>5 DEF Insert
  <2> QED
    BY <1>1, <2>1, <2>2, <2>3 DEF Diff, Saved, Source
<1>6. ASSUME NEW n \in Mergers, Snapshot(n), merge[m].pc # "idle"
      PROVE  Diff(m)' /\ Saved(m)'
  <2>1. merge[m].pc = "insert" => n = m
    BY <1>1, <1>6 DEF Snapshot, At, GraphInv, Writer
  <2>2. n # m
    BY <1>6, Went DEF Snapshot, At
  <2>3. graph' = graph
    BY <1>6 DEF Snapshot
  <2> QED
    BY <1>1, <2>1, <2>2, <2>3 DEF Diff, Saved, Source
<1> QED
  BY <1>2, <1>3, <1>4, <1>5, <1>6, NextGraph

(* A merge's own step. *)
LEMMA MergeStepGraph ==
  ASSUME TypeOK, GraphInv, NEW m \in Mergers, MergeStep(m)
  PROVE  Writer(m)' /\ Diff(m)' /\ Saved(m)'
<1>1. Writer(m) /\ Diff(m) /\ Saved(m) /\ Source(m) \in Branches
  BY MergeRecord DEF GraphInv, TypeOK, Source
<1>2. CASE End(m)
  <2>1. merge'[m] = Idle
    BY <1>2 DEF End, TypeOK
  <2> QED
    BY <2>1 DEF Idle, Writer, Diff, Saved
<1>3. ASSUME NEW b \in Branches, StartMerge(m, b)
      PROVE  Writer(m)' /\ Diff(m)' /\ Saved(m)'
  <2>1. merge'[m] = [Idle EXCEPT !.pc = "gate", !.branch = b, !.started = attempts',
                                 !.todo = Content[b] \ graph]
    BY <1>3 DEF StartMerge, TypeOK
  <2>2. merge'[m].pc = "gate" /\ merge'[m].branch = b /\ merge'[m].todo = Content[b] \ graph
    BY <2>1 DEF Idle
  <2>3. graph' = graph /\ up'
    BY <1>3 DEF StartMerge, disk, At
  <2> QED
    BY <2>2, <2>3 DEF Writer, Diff, Saved, Source
<1>4. ASSUME UNCHANGED <<graph, up>>, SameMerge(m), merge[m].pc # "idle",
             merge'[m].pc \notin {"snapshot", "insert", "mark"}
      PROVE  Writer(m)' /\ Diff(m)' /\ Saved(m)'
  BY <1>1, <1>4 DEF Writer, Diff, Saved, Source, SameMerge
<1>5. CASE PassGate(m) \/ ReadIntents(m)
  <2>1. /\ SameMerge(m) \/ PassGate(m)
        /\ merge'[m].branch = merge[m].branch /\ merge'[m].todo = merge[m].todo
        /\ merge'[m].pc \in {"read_intents", "write_intent", "clear_intent"}
        /\ merge[m].pc # "idle"
    BY <1>5 DEF PassGate, ReadIntents, Goes, At, SameMerge, TypeOK, Merge
  <2>2. UNCHANGED <<graph, up>>
    BY <1>5 DEF PassGate, ReadIntents, disk
  <2> QED
    BY <1>1, <2>1, <2>2 DEF Writer, Diff, Saved, Source
<1>6. CASE WriteIntent(m) \/ MarkMerged(m) \/ MarkProposal(m)
  <2>1. UNCHANGED <<graph, up>> /\ merge[m].pc # "idle"
    BY <1>6 DEF WriteIntent, MarkMerged, MarkProposal, At
  <2>2. \/ End(m)
        \/ \E pc \in {"lock", "reread_intents", "read_proposal", "mark_proposal"} : Goes(m, pc)
    BY <1>6 DEF WriteIntent, MarkMerged, MarkProposal
  <2> QED
    BY <1>2, <1>4, <2>1, <2>2, Went
<1>7. CASE AcquireMergeLock(m)
  <2>1. UNCHANGED <<graph, up>> /\ merge[m].pc # "idle"
    BY <1>7 DEF AcquireMergeLock, At, disk
  <2>2. CASE lock' = m /\ Goes(m, "snapshot")
    BY <1>1, <2>1, <2>2, Went DEF Writer, Diff, Saved, Source, SameMerge
  <2> QED
    BY <1>2, <1>7, <2>2 DEF AcquireMergeLock
<1>8. CASE Snapshot(m)
  <2>1. /\ UNCHANGED <<graph, lock, up>> /\ merge[m].pc = "snapshot" /\ up
        /\ merge'[m].pc = "insert" /\ SameMerge(m)
    BY <1>8, Went DEF Snapshot, At
  <2>2. Source(m) \in taken' /\ snapshot'[Source(m)] = graph
    BY <1>1, <1>8 DEF Snapshot, TypeOK
  <2> QED
    BY <1>1, <2>1, <2>2 DEF Writer, Diff, Saved, Source, SameMerge
<1>9. CASE Insert(m)
  <2>1. PICK c \in merge[m].todo : /\ graph' = graph \cup {c}
                                   /\ merge' = [merge EXCEPT ![m].todo = @ \ {c}]
    BY <1>9 DEF Insert
  <2>2. /\ merge'[m].pc = "insert" /\ merge'[m].branch = merge[m].branch
        /\ merge'[m].todo = merge[m].todo \ {c} /\ merge[m].pc = "insert"
    BY <1>9, <2>1 DEF Insert, At, TypeOK, Merge
  <2>3. UNCHANGED <<taken, snapshot, lock, up>> /\ up
    BY <1>9 DEF Insert, At
  <2> QED
    BY <1>1, <2>1, <2>2, <2>3 DEF Writer, Diff, Saved, Source
<1>10. CASE Applied(m)
  <2>1. /\ merge'[m].pc = "mark" /\ SameMerge(m) /\ graph' = graph /\ up' /\ merge[m].todo = {}
        /\ merge[m].pc = "insert"
    BY <1>10, Went DEF Applied, At, disk
  <2> QED
    BY <1>1, <2>1 DEF Writer, Diff, Saved, Source, SameMerge
<1> QED
  BY <1>2, <1>3, <1>5, <1>6, <1>7, <1>8, <1>9, <1>10
     DEF MergeStep, Refuse, AbandonEphemeral, ClearIntent, Fail

LEMMA GraphNext ==
  ASSUME RollbackRaces = FALSE, TypeOK, GraphInv, [Next]_vars
  PROVE  GraphInv'
<1> SUFFICES ASSUME NEW m \in Mergers PROVE Writer(m)' /\ Diff(m)' /\ Saved(m)'
  BY DEF GraphInv
<1>1. CASE MergeStep(m)
  BY <1>1, MergeStepGraph
<1>2. ASSUME NEW n \in Mergers, MergeStep(n), m # n
      PROVE  Writer(m)' /\ Diff(m)' /\ Saved(m)'
  <2>1. merge'[m] = merge[m]
    BY <1>2, OtherMergers
  <2>2. up' = up
    BY <1>2 DEF MergeStep, StartMerge, Refuse, AbandonEphemeral, PassGate, ReadIntents, WriteIntent,
       ClearIntent, AcquireMergeLock, Snapshot, Insert, Applied, Fail, MarkMerged, MarkProposal
  <2>3. merge[m].pc \in {"snapshot", "insert"} => lock' = lock
    <3> SUFFICES ASSUME lock = m PROVE lock' = lock
      BY DEF GraphInv, Writer
    <3>1. m # NoMerger
      BY MergeAssumption
    <3> QED
      BY <1>2, <3>1 DEF MergeStep, StartMerge, Refuse, AbandonEphemeral, PassGate, ReadIntents,
         WriteIntent, ClearIntent, AcquireMergeLock, Snapshot, Insert, Applied, Fail, Unlocked,
         MarkMerged, MarkProposal
  <2> QED
    BY <2>1, <2>2, <2>3, BesideGraph
<1>3. CASE Crash
  <2>1. merge'[m] = Idle
    BY <1>3 DEF Crash
  <2> QED
    BY <2>1 DEF Idle, Writer, Diff, Saved
<1>4. CASE Stop
  BY <1>4, BesideGraph DEF Stop, Quiet
<1>5. CASE RecoverOrphanMerges
  <2>1. merge[m].pc = "idle"
    BY <1>5 DEF RecoverOrphanMerges, GraphInv, Writer
  <2> QED
    BY <1>5, <2>1, BesideGraph DEF RecoverOrphanMerges
<1>6. CASE (\E b \in Branches : DeleteBranch(b) \/ RollbackMerge(b)) \/ DiscussProposals
           \/ UNCHANGED vars
  BY <1>6, BesideGraph DEF DeleteBranch, RollbackMerge, DiscussProposals, vars
<1> QED
  BY <1>1, <1>2, <1>3, <1>4, <1>5, <1>6 DEF Next

(* While a merge writes, restoring its snapshot undoes that merge and nothing else, however many
   merges are started, fail or are cut short: MergeLock admits one writer, and a refused one has
   written nothing. Rollbacks by hand beside a merge are excluded: they take no lock. *)
THEOREM SnapshotsAreOfOneMerge ==
  ASSUME RollbackRaces = FALSE
  PROVE  Spec => []SnapshotUndoesOnlyThis
<1>1. Honest => TypeOK
  BY DEF Honest
<1>2. TypeOK /\ GraphInv /\ [Next]_vars => GraphInv'
  BY GraphNext
<1> QED
  BY <1>1, <1>2, AlwaysHonest, GraphInit, SavedIsEnough, PTL DEF Spec

(* mark_merged_into marks a branch merged only when main holds all of it, though the diff was
   computed before the lock was taken and the mark is made after it was released. *)
THEOREM MergedAreApplied ==
  ASSUME RollbackRaces = FALSE
  PROVE  Spec => MergedMeansApplied
<1>1. Honest => TypeOK
  BY DEF Honest
<1>2. TypeOK /\ GraphInv /\ [Next]_vars => GraphInv'
  BY GraphNext
<1>3. ASSUME TypeOK, GraphInv, [Next]_vars, NEW b \in Branches,
             registry[b] # "merged", registry'[b] = "merged"
      PROVE  Content[b] \subseteq graph
  BY <1>3, NextRegistry DEF MarkMerged, At, GraphInv, Diff
<1>4. TypeOK /\ GraphInv /\ [Next]_vars =>
        [\A b \in Branches : registry[b] # "merged" /\ registry'[b] = "merged"
           => Content[b] \subseteq graph]_vars
  BY <1>3
<1> QED
  BY <1>1, <1>2, <1>4, AlwaysHonest, GraphInit, PTL DEF Spec, MergedMeansApplied

-----------------------------------------------------------------------------
(* Merges are atomic: what AtomicMerge says of Main and Saves. *)

(* A merge that may write can be found by recovery, if it is the only one. *)
Tracked == \A m \in Mergers : merge[m].pc \in {"lock", "snapshot", "insert"} =>
             \E i \in DOMAIN intents : intents[i].branch = Source(m)
OneMerger == \A m, n \in Mergers : m = n
Recoverable == OneMerger => Tracked

LEMMA RecoverableInit == Init => Recoverable
BY IdleMerge DEF Init, Recoverable, Tracked

LEMMA RecoverableNext ==
  ASSUME TypeOK, GraphInv, Recoverable, [Next]_vars
  PROVE  Recoverable'
<1> SUFFICES ASSUME OneMerger, NEW m \in Mergers, merge'[m].pc \in {"lock", "snapshot", "insert"}
             PROVE  \E i \in DOMAIN intents' : intents'[i].branch = merge'[m].branch
  BY DEF Recoverable, Tracked, OneMerger, Source
<1>1. merge[m].pc \in {"lock", "snapshot", "insert"} =>
        \E i \in DOMAIN intents : intents[i].branch = merge[m].branch
  BY DEF Recoverable, Tracked, Source
<1>2. CASE WriteIntent(m)
  <2>1. merge'[m].branch = merge[m].branch
    BY <1>2, Went DEF WriteIntent, SameMerge
  <2>2. merge[m].seen \in Seq(Intent) /\ intents' = Append(merge[m].seen, ThisIntent(m))
    BY <1>2, MergeRecord DEF WriteIntent, TypeOK
  <2> DEFINE n == Len(merge[m].seen) + 1
  <2>3. n \in DOMAIN intents' /\ intents'[n] = ThisIntent(m)
    BY <2>2
  <2> QED
    BY <2>1, <2>3 DEF ThisIntent, Source
<1>3. CASE AcquireMergeLock(m) \/ Snapshot(m) \/ Insert(m)
  <2>1. intents' = intents /\ merge[m].pc \in {"lock", "snapshot", "insert"}
    BY <1>3 DEF AcquireMergeLock, Snapshot, Insert, At, disk
  <2>2. merge'[m].branch = merge[m].branch
    <3>1. ~ End(m)
      BY Ended
    <3> QED
      BY <1>3, <3>1, Went DEF AcquireMergeLock, Snapshot, Insert, SameMerge, TypeOK, Merge
  <2> QED
    BY <1>1, <2>1, <2>2
<1>4. CASE MergeStep(m) /\ ~ WriteIntent(m) /\ ~ AcquireMergeLock(m) /\ ~ Snapshot(m) /\ ~ Insert(m)
  <2>1. ~ End(m)
    BY Ended
  <2>2. \A pc \in PCs \ {"lock", "snapshot", "insert"} : ~ Goes(m, pc)
    BY Went
  <2>3. CASE \E b \in Branches : StartMerge(m, b)
    BY <2>3, IdleMerge DEF StartMerge, TypeOK, Merge
  <2>4. CASE PassGate(m)
    <3>1. ~ Goes(m, "read_intents")
      BY <2>2 DEF PCs
    <3>2. merge'[m].pc = "read_intents"
      BY <2>4, <3>1 DEF PassGate, TypeOK, Merge
    <3> QED
      BY <3>2
  <2>5. CASE ReadIntents(m)
    BY <2>5 DEF ReadIntents, TypeOK, Merge
  <2> QED
    BY <1>4, <2>1, <2>2, <2>3, <2>4, <2>5
       DEF MergeStep, Refuse, AbandonEphemeral, ClearIntent, Applied, Fail, MarkMerged, MarkProposal, PCs
<1>5. CASE \E n \in Mergers : MergeStep(n)
  BY <1>2, <1>3, <1>4, <1>5 DEF OneMerger
<1>6. CASE Crash \/ RecoverOrphanMerges
  BY <1>6, IdleMerge DEF Crash, RecoverOrphanMerges, GraphInv, Writer
<1>7. CASE (\E b \in Branches : DeleteBranch(b) \/ RollbackMerge(b)) \/ DiscussProposals \/ Stop
           \/ UNCHANGED vars
  BY <1>1, <1>7 DEF DeleteBranch, RollbackMerge, DiscussProposals, Stop, vars, disk
<1> QED
  BY <1>5, <1>6, <1>7 DEF Next

-----------------------------------------------------------------------------
(* While a merge writes, main is what it saved. *)
LEMMA MainWriting ==
  ASSUME GraphInv, NEW m \in Mergers, merge[m].pc = "insert"
  PROVE  up /\ lock = m /\ Main = snapshot[Source(m)] /\ Source(m) \in taken
BY MergeAssumption DEF GraphInv, Writer, Saved, Main

(* A merge's step that neither saves, writes nor commits does not show. *)
LEMMA StepHidden ==
  ASSUME TypeOK, GraphInv, NEW m \in Mergers, MergeStep(m),
         ~ Snapshot(m), ~ Insert(m), ~ Applied(m), ~ Fail(m)
  PROVE  UNCHANGED <<Main, Saves>>
<1>1. up /\ up' /\ UNCHANGED <<graph, taken, snapshot>>
  <2>1. up
    BY DEF MergeStep, StartMerge, Refuse, AbandonEphemeral, PassGate, ReadIntents, WriteIntent,
       ClearIntent, AcquireMergeLock, MarkMerged, MarkProposal, At
  <2>2. UNCHANGED <<up, graph, taken, snapshot>>
    BY DEF MergeStep, StartMerge, Refuse, AbandonEphemeral, PassGate, ReadIntents, WriteIntent,
       ClearIntent, AcquireMergeLock, MarkMerged, MarkProposal, disk
  <2> QED
    BY <2>1, <2>2
<1>2. merge[m].pc # "insert"
  BY DEF MergeStep, StartMerge, Refuse, AbandonEphemeral, PassGate, ReadIntents, WriteIntent,
     ClearIntent, AcquireMergeLock, MarkMerged, MarkProposal, At
<1>3. merge'[m].pc # "insert"
  <2>1. \A pc \in PCs \ {"insert"} : Goes(m, pc) => merge'[m].pc # "insert"
    BY Went
  <2>2. CASE \E b \in Branches : StartMerge(m, b)
    BY <2>2, IdleMerge DEF StartMerge, TypeOK, Merge
  <2>3. CASE PassGate(m) \/ ReadIntents(m)
    BY <2>1, <2>3 DEF PassGate, ReadIntents, TypeOK, Merge, PCs
  <2> QED
    BY <2>1, <2>2, <2>3, Ended
       DEF MergeStep, Refuse, AbandonEphemeral, WriteIntent, ClearIntent, AcquireMergeLock, MarkMerged,
       MarkProposal, PCs
<1>4. \A n \in Mergers : n # m => merge'[n] = merge[n]
  BY OtherMergers
<1>5. lock' = lock \/ (lock = NoMerger /\ lock' = m)
  BY DEF MergeStep, StartMerge, Refuse, AbandonEphemeral, PassGate, ReadIntents, WriteIntent,
     ClearIntent, AcquireMergeLock, MarkMerged, MarkProposal
<1>6. lock \in Mergers \cup {NoMerger} /\ NoMerger \notin Mergers
  BY MergeAssumption DEF TypeOK
<1>7. Main' = Main
  BY <1>1, <1>2, <1>3, <1>4, <1>5, <1>6 DEF Main, Source
<1> QED
  BY <1>1, <1>7 DEF Saves

(* snapshot_target_db: the merge begins. *)
LEMMA SnapshotBegins ==
  ASSUME TypeOK, GraphInv, NEW m \in Mergers, Snapshot(m)
  PROVE  Atomic!Begin(Source(m))
<1>1. /\ up /\ up' /\ lock = m /\ lock' = m /\ m # NoMerger /\ Source(m) \in Branches
      /\ merge[m].pc = "snapshot"
  BY MergeAssumption, MergeRecord DEF Snapshot, At, GraphInv, Writer, TypeOK, Source
<1>2. /\ graph' = graph /\ taken' = taken \cup {Source(m)}
      /\ snapshot' = [snapshot EXCEPT ![Source(m)] = graph]
  BY DEF Snapshot
<1>3. Main = graph
  BY <1>1 DEF Main
<1>4. merge'[m].pc = "insert" /\ merge'[m].branch = Source(m)
  BY Went DEF Snapshot, SameMerge, Source
<1>5. Main' = snapshot'[Source(m)]
  BY <1>1, <1>4 DEF Main, Source
<1>6. snapshot'[Source(m)] = graph
  BY <1>1, <1>2 DEF TypeOK
<1>7. Saves' = [Saves EXCEPT ![Source(m)] = {Main}]
  BY <1>1, <1>2, <1>3 DEF Saves, TypeOK
<1> QED
  BY <1>3, <1>5, <1>6, <1>7 DEF Atomic!Begin

(* The end of apply_branch_diff: the merge commits. *)
LEMMA AppliedCommits ==
  ASSUME TypeOK, GraphInv, NEW m \in Mergers, Applied(m)
  PROVE  Atomic!Commit(Source(m))
<1>1. merge[m].pc = "insert" /\ up /\ Source(m) \in Branches
  BY MergeRecord DEF Applied, At, TypeOK, Source
<1>2. lock = m /\ Main = snapshot[Source(m)] /\ Source(m) \in taken
  BY <1>1, MainWriting
<1>3. /\ up' = up /\ lock' = NoMerger /\ UNCHANGED <<graph, taken, snapshot>>
      /\ merge[m].todo = {}
  BY <1>2 DEF Applied, Unlocked, disk
<1>4. Main' = graph
  BY <1>1, <1>3 DEF Main
<1>5. graph = snapshot[Source(m)] \cup Content[Source(m)]
  BY <1>1, <1>3 DEF GraphInv, Diff, Saved
<1>6. Main \in Saves[Source(m)] /\ Saves' = Saves
  BY <1>1, <1>2, <1>3 DEF Saves
<1> QED
  BY <1>2, <1>4, <1>5, <1>6 DEF Atomic!Commit

(* A write does not show. *)
LEMMA InsertHidden ==
  ASSUME TypeOK, GraphInv, NEW m \in Mergers, Insert(m)
  PROVE  UNCHANGED <<Main, Saves>>
<1>1. merge[m].pc = "insert"
  BY DEF Insert, At
<1>2. up /\ lock = m /\ Main = snapshot[Source(m)] /\ m # NoMerger
  BY <1>1, MainWriting, MergeAssumption
<1>3. merge'[m].pc = "insert" /\ merge'[m].branch = Source(m)
  BY <1>1 DEF Insert, TypeOK, Merge, Source
<1>4. UNCHANGED <<taken, snapshot, lock, up>>
  BY DEF Insert
<1>5. Main' = snapshot[Source(m)]
  BY <1>2, <1>3, <1>4 DEF Main, Source
<1> QED
  BY <1>2, <1>4, <1>5 DEF Saves

(* The process goes down: recovery will restore what some merge saved, or change nothing. *)
LEMMA DownRestores ==
  ASSUME TypeOK, GraphInv, Recoverable, up, ~ up', UNCHANGED <<graph, taken, snapshot, intents>>,
         OneMerger \/ Quiet
  PROVE  (\E b \in Branches : Atomic!Restore(b)) \/ UNCHANGED <<Main, Saves>>
<1>1. Main' = Restored /\ Saves' = Saves
  <2>1. Restorable' = Restorable /\ LastRestored' = LastRestored
    BY DEF LastRestored, Restorable, Found
  <2>2. \A b : LastOne(b)' = LastOne(b)
    BY DEF LastOne, Found
  <2> QED
    BY <2>1, <2>2 DEF Main, Restored, Saves
<1>2. CASE \E b \in taken : Restored = snapshot[b]
  <2>1. PICK b \in taken : Restored = snapshot[b]
    BY <1>2
  <2>2. b \in Branches /\ Restored \in Saves[b]
    BY <2>1 DEF TypeOK, Saves
  <2> QED
    BY <1>1, <2>2 DEF Atomic!Restore
<1>3. CASE Restored = graph /\ Restorable = {}
  <2>1. ASSUME NEW m \in Mergers, merge[m].pc = "insert" PROVE FALSE
    <3>1. Source(m) \in taken /\ OneMerger
      BY <2>1, MainWriting DEF Quiet
    <3>2. PICK i \in DOMAIN intents : intents[i].branch = Source(m)
      BY <2>1, <3>1 DEF Recoverable, Tracked
    <3>3. Source(m) \in Found(Source(m))
      BY <3>1, MergeAssumption DEF TypeOK, Found
    <3> QED
      BY <1>3, <3>2, <3>3 DEF Restorable
  <2>2. Main = graph
    BY <2>1 DEF Main, TypeOK
  <2> QED
    BY <1>1, <1>3, <2>2
<1> QED
  BY <1>2, <1>3, RestoredIs DEF TypeOK

LEMMA RollbackRestores ==
  ASSUME TypeOK, Quiet, NEW b \in Branches, RollbackMerge(b)
  PROVE  \E d \in Branches : Atomic!Restore(d)
<1> DEFINE d == LastOne(b)
<1>1. /\ up /\ d \in taken /\ graph' = snapshot[d]
      /\ UNCHANGED <<taken, snapshot, lock, merge, up>>
  BY LastOneFound DEF RollbackMerge, Found
<1>2. lock # NoMerger => merge[lock].pc # "insert"
  BY DEF Quiet, TypeOK
<1>3. Main' = snapshot[d]
  BY <1>1, <1>2 DEF Main
<1>4. d \in Branches
  BY <1>1 DEF TypeOK
<1>5. Main' \in Saves[d] /\ Saves' = Saves
  BY <1>1, <1>3, <1>4 DEF Saves
<1> QED
  BY <1>4, <1>5 DEF Atomic!Restore

LEMMA RecoveryHidden ==
  ASSUME TypeOK, GraphInv, RecoverOrphanMerges
  PROVE  UNCHANGED <<Main, Saves>>
<1>1. ~ up /\ up' /\ graph' = Restored /\ UNCHANGED <<taken, snapshot, lock, merge>>
  BY DEF RecoverOrphanMerges
<1>2. lock # NoMerger => merge[lock].pc # "insert"
  BY <1>1 DEF GraphInv, Writer, TypeOK
<1>3. Main = Restored /\ Main' = graph'
  BY <1>1, <1>2 DEF Main
<1> QED
  BY <1>1, <1>3 DEF Saves

(* The hypotheses: nothing fails but the process, nobody rolls back beside a merge, and merges
   that a crash may cut short come one at a time. *)
OneAtATime == Failures = FALSE /\ RollbackRaces = FALSE /\ (CrashBudget = 0 \/ OneMerger)

LEMMA AtomicInit == Init => Atomic!Init
<1> SUFFICES ASSUME Init PROVE Atomic!Init
  OBVIOUS
<1>1. Main = graph
  BY DEF Init, Main
<1> QED
  BY <1>1 DEF Init, Saves, Atomic!Init

LEMMA AtomicNext ==
  ASSUME OneAtATime, TypeOK, GraphInv, Recoverable, [Next]_vars
  PROVE  Atomic!Next \/ UNCHANGED <<Main, Saves>>
<1>1. ASSUME NEW m \in Mergers, MergeStep(m) PROVE Atomic!Next \/ UNCHANGED <<Main, Saves>>
  <2>1. Source(m) \in Branches /\ ~ Fail(m)
    BY MergeRecord DEF TypeOK, Source, OneAtATime, Fail
  <2> QED
    BY <1>1, <2>1, StepHidden, SnapshotBegins, InsertHidden, AppliedCommits DEF Atomic!Next
<1>2. CASE \E b \in Branches : RollbackMerge(b)
  BY <1>2, RollbackRestores DEF RollbackMerge, OneAtATime, Atomic!Next
<1>3. CASE Stop
  BY <1>3, DownRestores DEF Stop, disk, Atomic!Next
<1>4. CASE Crash
  <2>1. OneMerger
    BY <1>4 DEF Crash, OneAtATime, TypeOK
  <2> QED
    BY <1>4, <2>1, DownRestores DEF Crash, disk, Atomic!Next
<1>5. CASE RecoverOrphanMerges
  BY <1>5, RecoveryHidden
<1>6. CASE (\E b \in Branches : DeleteBranch(b)) \/ DiscussProposals
  <2>1. up /\ up' /\ UNCHANGED <<graph, taken, snapshot, lock, merge>>
    BY <1>6 DEF DeleteBranch, DiscussProposals
  <2> QED
    BY <2>1 DEF Main, Saves, Source
<1>7. CASE UNCHANGED vars
  BY <1>7 DEF vars, disk, Main, Saves, Source, Restored, LastRestored, Restorable, Found, LastOne
<1> QED
  BY <1>1, <1>2, <1>3, <1>4, <1>5, <1>6, <1>7 DEF Next

(* Merges into main are atomic to a reader who waits for the merge that writes and for recovery:
   snapshot_target_db, the writes of apply_branch_diff, the drop of the lock, rollback_merge and
   recover_orphan_merges are Begin, Commit and Restore of AtomicMerge. *)
THEOREM MergesAreAtomic ==
  ASSUME OneAtATime
  PROVE  Spec => MergesAtomic
<1>1. Honest => TypeOK
  BY DEF Honest
<1>2. TypeOK /\ GraphInv /\ [Next]_vars => GraphInv'
  BY GraphNext DEF OneAtATime
<1>3. TypeOK /\ GraphInv /\ Recoverable /\ [Next]_vars => Recoverable'
  BY RecoverableNext
<1>4. TypeOK /\ GraphInv /\ Recoverable /\ [Next]_vars => [Atomic!Next]_<<Main, Saves>>
  BY AtomicNext
<1> QED
  BY <1>1, <1>2, <1>3, <1>4, AlwaysHonest, GraphInit, RecoverableInit, AtomicInit, PTL
     DEF Spec, MergesAtomic, Atomic!Spec

(* What a reader of AtomicMerge gets: it never shows a part of a branch. *)
LEMMA WholeInit == Atomic!Init => Atomic!WholeBranches
<1> SUFFICES ASSUME Atomic!Init PROVE Atomic!WholeBranches
  OBVIOUS
<1>1. Base = Base \cup UNION {Content[b] : b \in {}}
  OBVIOUS
<1> QED
  BY <1>1 DEF Atomic!Init, Atomic!WholeBranches, Atomic!Whole

LEMMA WholeNext ==
  ASSUME Atomic!WholeBranches, Atomic!Next \/ UNCHANGED <<Main, Saves>>
  PROVE  Atomic!WholeBranches'
<1>1. Atomic!Whole(Main) /\ \A b \in Branches : \A g \in Saves[b] : Atomic!Whole(g)
  BY DEF Atomic!WholeBranches
<1>2. DOMAIN Saves = Branches
  BY DEF Saves
<1>3. SUFFICES Atomic!Whole(Main') /\ \A b \in Branches : \A g \in Saves'[b] : Atomic!Whole(g)
  BY DEF Atomic!WholeBranches, Atomic!Whole
<1>4. ASSUME NEW b \in Branches, Atomic!Begin(b)
      PROVE  Atomic!Whole(Main') /\ \A d \in Branches : \A g \in Saves'[d] : Atomic!Whole(g)
  BY <1>1, <1>2, <1>4 DEF Atomic!Begin
<1>5. ASSUME NEW b \in Branches, Atomic!Commit(b)
      PROVE  Atomic!Whole(Main') /\ \A d \in Branches : \A g \in Saves'[d] : Atomic!Whole(g)
  <2>1. PICK S \in SUBSET Branches : Main = Base \cup UNION {Content[d] : d \in S}
    BY <1>1 DEF Atomic!Whole
  <2>2. Main' = Base \cup UNION {Content[d] : d \in S \cup {b}}
    BY <1>5, <2>1 DEF Atomic!Commit
  <2> QED
    BY <1>1, <1>5, <2>2 DEF Atomic!Commit, Atomic!Whole
<1>6. ASSUME NEW b \in Branches, Atomic!Restore(b)
      PROVE  Atomic!Whole(Main') /\ \A d \in Branches : \A g \in Saves'[d] : Atomic!Whole(g)
  BY <1>1, <1>6 DEF Atomic!Restore
<1>7. CASE UNCHANGED <<Main, Saves>>
  BY <1>1, <1>7
<1> QED
  BY <1>4, <1>5, <1>6, <1>7 DEF Atomic!Next

(* Main is its base and whole branches whenever the process runs and no merge is in progress:
   recover_orphan_merges finds the snapshot of the merge that a crash cut short. *)
THEOREM MainHoldsWholeBranches ==
  ASSUME OneAtATime
  PROVE  Spec => []AllOrNothing
<1>1. Atomic!WholeBranches /\ [Atomic!Next]_<<Main, Saves>> => Atomic!WholeBranches'
  BY WholeNext
<1>2. ASSUME TypeOK, Atomic!WholeBranches PROVE AllOrNothing
  <2>1. SUFFICES ASSUME up, Quiet PROVE Atomic!Whole(graph)
    BY DEF AllOrNothing, Atomic!Whole
  <2>2. Main = graph
    BY <1>2, <2>1 DEF Main, Quiet, TypeOK
  <2> QED
    BY <1>2, <2>2 DEF Atomic!WholeBranches
<1>3. Honest /\ Atomic!WholeBranches => AllOrNothing
  BY <1>2 DEF Honest
<1> QED
  BY <1>1, <1>3, AlwaysHonest, MergesAreAtomic, WholeInit, PTL DEF MergesAtomic, Atomic!Spec
=============================================================================
