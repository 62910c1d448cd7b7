------------------------- MODULE ActionOutboxProofs -------------------------
(***************************************************************************)
(* Proofs about ActionOutbox for every set of runs and actions, every cap  *)
(* on the attempts and any number of crashes.  The invariant that carries  *)
(* them is SnapshotFresh: only the worker changes a row that exists, and   *)
(* its batch names each row once, so the snapshot it writes back from is   *)
(* the row it overwrites.                                                  *)
(***************************************************************************)
EXTENDS ActionOutbox, TLAPS

(* An absent row has no attempts, a deliverable one has attempts left; the
   worker records or compensates a row of the outbox. *)
WellFormed ==
  /\ \A a \in Actions : rows[a].status = "absent" => rows[a].attempts = 0
  /\ \A a \in Actions : Deliverable(a) => rows[a].attempts < MaxAttempts
  /\ worker.pc # "idle" => worker.id \in Actions

Typing == TypeOK /\ WellFormed

(* No row is twice in the worker's hands. *)
BatchDistinct ==
  /\ \A s, t \in batch : s.id = t.id => s = t
  /\ worker.pc = "record" => \A s \in batch : s.id # worker.id

(* What the worker knows of the row it has sent. *)
WorkerSound ==
  /\ worker.pc = "record" /\ worker.ok => worker.id \in acked
  /\ worker.pc = "compensate" => /\ rows[worker.id].status = "dead_letter"
                                 /\ Compensation[worker.id] \in Actions

Safe == Typing /\ BatchDistinct /\ SnapshotFresh /\ WorkerSound

-----------------------------------------------------------------------------
LEMMA EnqueuedTyped ==
  ASSUME NEW S \in SUBSET Actions, rows \in [Actions -> Row]
  PROVE  Enqueued(S) \in [Actions -> Row]
BY AttemptsAssumption DEF Enqueued, Fresh, Row

LEMMA UpdatedTyped ==
  ASSUME Typing, worker.pc = "record",
         NEW st \in {"failed", "sent", "dead_letter"}
  PROVE  Updated(st) \in [Actions -> Row]
<1>1. worker.id \in Actions /\ worker.attempts + 1 \in 0 .. MaxAttempts
  BY AttemptsAssumption DEF Typing, TypeOK, WellFormed, WorkerState
<1> QED
  BY <1>1 DEF Updated, Row, Typing, TypeOK

LEMMA InitTyping == Init => Typing
BY AttemptsAssumption
   DEF Init, Typing, TypeOK, WellFormed, Deliverable, Row, Absent, Idle, Snapshot, WorkerState

LEMMA NextTyping == Typing /\ SnapshotFresh /\ [Next]_vars => Typing'
<1> SUFFICES ASSUME Typing, SnapshotFresh, [Next]_vars PROVE Typing'
  OBVIOUS
<1>0. Idle \in WorkerState
  BY AttemptsAssumption DEF Idle, WorkerState
<1>1. ASSUME NEW r \in Runs, Enqueue(r) PROVE Typing'
  <2>1. Declared[r] \in SUBSET Actions
    BY IdsAssumption
  <2>2. rows' \in [Actions -> Row]
    BY <1>1, <2>1, EnqueuedTyped DEF Enqueue, Typing, TypeOK
  <2>3. WellFormed'
    BY <1>1, AttemptsAssumption
       DEF Enqueue, Enqueued, Typing, TypeOK, WellFormed, Deliverable, Fresh, Row, Absent
  <2> QED
    BY <1>1, <2>2, <2>3 DEF Enqueue, Typing, TypeOK
<1>2. CASE Scan
  <2>1. batch' \subseteq Snapshot
    BY <1>2, AttemptsAssumption DEF Scan, Snapshot, Typing, TypeOK, WellFormed, Deliverable, Row
  <2> QED
    BY <1>2, <2>1 DEF Scan, Typing, TypeOK, WellFormed, Deliverable
<1>3. ASSUME NEW s \in batch, NEW ok \in BOOLEAN, Post(s, ok) PROVE Typing'
  <2>1. s \in Snapshot
    BY DEF Typing, TypeOK
  <2>2. worker' \in WorkerState
    BY <1>3, <2>1 DEF Post, WorkerState, Snapshot
  <2>3. acked' \subseteq Actions /\ posts' \in [Actions -> Nat]
    BY <1>3, <2>1 DEF Post, Snapshot, Typing, TypeOK
  <2> QED
    BY <1>3, <2>1, <2>2, <2>3 DEF Post, Typing, TypeOK, WellFormed, Deliverable, Snapshot
<1>4. CASE RecordSent
  BY <1>0, <1>4, UpdatedTyped DEF RecordSent, Updated, Typing, TypeOK, WellFormed, Deliverable, Idle, Row
<1>5. CASE RecordFailed
  <2>1. worker.attempts + 1 < MaxAttempts /\ worker.id \in Actions
    BY <1>5, AttemptsAssumption DEF RecordFailed, GivesUp, Typing, TypeOK, WellFormed, WorkerState
  <2>2. rows' \in [Actions -> Row] /\ worker' = Idle
    BY <1>5, UpdatedTyped DEF RecordFailed
  <2>3. WellFormed'
    BY <1>5, <2>1, <2>2
       DEF RecordFailed, Updated, Typing, TypeOK, WellFormed, Deliverable, Idle, WorkerState
  <2> QED
    BY <1>0, <1>5, <2>2, <2>3 DEF RecordFailed, Typing, TypeOK
<1>6. CASE DeadLetter
  <2>1. worker' \in WorkerState /\ (worker'.pc # "idle" => worker'.id \in Actions)
    BY <1>0, <1>6 DEF DeadLetter, GivesUp, Typing, TypeOK, WellFormed, Deliverable, WorkerState, Idle
  <2> QED
    BY <1>6, <2>1, UpdatedTyped DEF DeadLetter, GivesUp, Updated, Typing, TypeOK, WellFormed, Deliverable, Row
<1>7. CASE Compensate
  <2>1. rows' \in [Actions -> Row]
    BY <1>7, AttemptsAssumption DEF Compensate, Enqueued, Fresh, Row, Typing, TypeOK
  <2> QED
    BY <1>0, <1>7, <2>1, AttemptsAssumption
       DEF Compensate, Enqueued, Fresh, Idle, Typing, TypeOK, WellFormed, Deliverable, Row
<1>8. CASE Crash
  BY <1>0, <1>8, AttemptsAssumption DEF Crash, Typing, TypeOK, WellFormed, Deliverable, Idle
<1>9. CASE UNCHANGED vars
  BY <1>9 DEF vars, Typing, TypeOK, WellFormed, Deliverable
<1> QED
  BY <1>1, <1>2, <1>3, <1>4, <1>5, <1>6, <1>7, <1>8, <1>9 DEF Next, WorkerStep

-----------------------------------------------------------------------------
LEMMA InitSafe == Init => Safe
BY InitTyping DEF Init, Safe, BatchDistinct, SnapshotFresh, WorkerSound, Idle

(* A row that is there is not touched by an enqueue. *)
LEMMA EnqueuedKeeps ==
  ASSUME NEW S, Typing, NEW a \in Actions, rows[a].status # "absent"
  PROVE  Enqueued(S)[a] = rows[a]
BY DEF Enqueued, Absent, Typing, TypeOK

LEMMA NextSafe == Safe /\ [Next]_vars => Safe'
<1> SUFFICES ASSUME Safe, [Next]_vars PROVE BatchDistinct' /\ SnapshotFresh' /\ WorkerSound'
  BY NextTyping DEF Safe
<1> USE DEF Safe
<1>0. /\ rows \in [Actions -> Row] /\ batch \subseteq Snapshot /\ worker \in WorkerState
      /\ worker.pc # "idle" => worker.id \in Actions
  BY DEF Typing, TypeOK, WellFormed
<1>1. ASSUME NEW r \in Runs, Enqueue(r)
      PROVE BatchDistinct' /\ SnapshotFresh' /\ WorkerSound'
  <2>1. \A a \in Actions : rows[a].status # "absent" => rows'[a] = rows[a]
    BY <1>1, EnqueuedKeeps DEF Enqueue
  <2>2. SnapshotFresh'
    BY <1>0, <1>1, <2>1 DEF Enqueue, SnapshotFresh, Deliverable, Snapshot
  <2>3. WorkerSound'
    BY <1>0, <1>1, <2>1 DEF Enqueue, WorkerSound
  <2> QED
    BY <1>1, <2>2, <2>3 DEF Enqueue, BatchDistinct
<1>2. CASE Scan
  BY <1>0, <1>2 DEF Scan, BatchDistinct, SnapshotFresh, WorkerSound, Deliverable
<1>3. ASSUME NEW s \in batch, NEW ok \in BOOLEAN, Post(s, ok)
      PROVE BatchDistinct' /\ SnapshotFresh' /\ WorkerSound'
  <2>1. s \in Snapshot
    BY <1>0
  <2>2. /\ batch' = batch \ {s} /\ rows' = rows
        /\ worker' = [pc |-> "record", id |-> s.id, attempts |-> s.attempts, ok |-> ok]
        /\ ok => s.id \in acked'
    BY <1>3 DEF Post
  <2>3. BatchDistinct'
    BY <2>2 DEF BatchDistinct
  <2>4. SnapshotFresh'
    BY <2>1, <2>2 DEF SnapshotFresh, Deliverable
  <2> QED
    BY <2>2, <2>3, <2>4 DEF WorkerSound
<1>4. ASSUME NEW st, worker.pc = "record", rows' = Updated(st), batch' = batch
      PROVE  /\ \A s \in batch' : Deliverable(s.id)' /\ rows'[s.id].attempts = s.attempts
             /\ \A s, t \in batch' : s.id = t.id => s = t
  <2>1. \A s \in batch : s.id \in Actions /\ rows'[s.id] = rows[s.id]
    BY <1>0, <1>4 DEF BatchDistinct, Updated, Snapshot
  <2> QED
    BY <1>4, <2>1 DEF SnapshotFresh, BatchDistinct, Deliverable
<1>5. CASE RecordSent
  BY <1>4, <1>5 DEF RecordSent, SnapshotFresh, BatchDistinct, WorkerSound, Idle
<1>6. CASE RecordFailed
  BY <1>4, <1>6 DEF RecordFailed, SnapshotFresh, BatchDistinct, WorkerSound, Idle
<1>7. CASE DeadLetter
  <2>1. worker.pc = "record" /\ worker.id \in Actions
    BY <1>0, <1>7 DEF DeadLetter, GivesUp
  <2>2. rows'[worker.id].status = "dead_letter"
    BY <1>0, <1>7, <2>1 DEF DeadLetter, Updated
  <2>3. worker' = Idle \/ ( /\ worker'.pc = "compensate" /\ worker'.id = worker.id
                            /\ Compensation[worker.id] \in Actions )
    BY <1>0, <1>7, <2>1, IdsAssumption DEF DeadLetter, WorkerState
  <2>4. BatchDistinct' /\ SnapshotFresh'
    BY <1>4, <1>7, <2>1, <2>3 DEF DeadLetter, SnapshotFresh, BatchDistinct, Idle
  <2> QED
    BY <2>2, <2>3, <2>4 DEF WorkerSound, Idle
<1>8. CASE Compensate
  <2>1. \A a \in Actions : rows[a].status # "absent" => rows'[a] = rows[a]
    BY <1>8, EnqueuedKeeps DEF Compensate
  <2> QED
    BY <1>0, <1>8, <2>1 DEF Compensate, BatchDistinct, SnapshotFresh, WorkerSound, Deliverable,
                            Snapshot, Idle
<1>9. CASE Crash
  BY <1>9 DEF Crash, BatchDistinct, SnapshotFresh, WorkerSound, Idle
<1>10. CASE UNCHANGED vars
  BY <1>10 DEF vars, BatchDistinct, SnapshotFresh, WorkerSound, Deliverable
<1> QED
  BY <1>1, <1>2, <1>3, <1>5, <1>6, <1>7, <1>8, <1>9, <1>10 DEF Next, WorkerStep

(* The type invariant of the outbox: no row is tried past the cap. *)
THEOREM OutboxTypeCorrect == Spec => []TypeOK
<1>1. Safe => TypeOK
  BY DEF Safe, Typing
<1> QED
  BY <1>1, InitSafe, NextSafe, PTL DEF Spec

(* What the worker writes back from never went stale, whatever runs enqueue
   while it sends (update_action_delivery does not look). *)
THEOREM SnapshotNeverStale == Spec => []SnapshotFresh
<1>1. Safe => SnapshotFresh
  BY DEF Safe
<1> QED
  BY <1>1, InitSafe, NextSafe, PTL DEF Spec

-----------------------------------------------------------------------------
LEMMA InitCounted == Init => AttemptsCounted
BY DEF Init, AttemptsCounted, Tried, Absent, Idle

LEMMA NextCounted == Safe /\ AttemptsCounted /\ [Next]_vars => AttemptsCounted'
<1> SUFFICES ASSUME Safe, AttemptsCounted, [Next]_vars, NEW a \in Actions
             PROVE  /\ Tried(a)' <= posts'[a] /\ posts'[a] <= Tried(a)' + crashes'
                    /\ rows'[a].status = "dead_letter" => rows'[a].attempts = MaxAttempts
  BY DEF AttemptsCounted
<1>0. /\ Tried(a) <= posts[a] /\ posts[a] <= Tried(a) + crashes
      /\ rows[a].status = "dead_letter" => rows[a].attempts = MaxAttempts
      /\ rows[a].attempts \in Nat /\ posts[a] \in Nat /\ crashes \in Nat
      /\ worker.attempts \in Nat /\ worker.attempts + 1 <= MaxAttempts /\ MaxAttempts \in Nat
  <2>1. rows[a] \in Row /\ worker \in WorkerState /\ posts[a] \in Nat /\ crashes \in 0 .. CrashBudget
    BY DEF Safe, Typing, TypeOK
  <2>2. rows[a].attempts \in 0 .. MaxAttempts /\ worker.attempts \in 0 .. MaxAttempts - 1
    BY <2>1 DEF Row, WorkerState
  <2>3. /\ Tried(a) <= posts[a] /\ posts[a] <= Tried(a) + crashes
        /\ rows[a].status = "dead_letter" => rows[a].attempts = MaxAttempts
    BY DEF AttemptsCounted
  <2> QED
    BY <2>1, <2>2, <2>3, AttemptsAssumption
<1>1. ASSUME NEW S, rows' = Enqueued(S), UNCHANGED <<crashes, posts>>,
             worker' = worker \/ (worker' = Idle /\ worker.pc = "compensate")
      PROVE  /\ Tried(a)' <= posts'[a] /\ posts'[a] <= Tried(a)' + crashes'
             /\ rows'[a].status = "dead_letter" => rows'[a].attempts = MaxAttempts
  <2>1. rows'[a].attempts = rows[a].attempts /\ (rows'[a] = rows[a] \/ rows'[a] = Fresh)
    BY <1>1 DEF Enqueued, Absent, Fresh
  <2> QED
    BY <1>0, <1>1, <2>1 DEF Tried, Idle, Fresh
<1>2. CASE Scan
  BY <1>0, <1>2 DEF Scan, Tried
<1>3. ASSUME NEW s \in batch, NEW ok \in BOOLEAN, Post(s, ok)
      PROVE  /\ Tried(a)' <= posts'[a] /\ posts'[a] <= Tried(a)' + crashes'
             /\ rows'[a].status = "dead_letter" => rows'[a].attempts = MaxAttempts
  <2>1. s.id \in Actions /\ worker'.pc = "record" /\ worker'.id = s.id
    BY <1>3 DEF Post, Safe, Typing, TypeOK, Snapshot
  <2>2. posts'[a] = posts[a] + (IF a = s.id THEN 1 ELSE 0)
    BY <1>3, <2>1, <1>0 DEF Post, Safe, Typing, TypeOK
  <2> QED
    BY <1>0, <1>3, <2>1, <2>2 DEF Post, Tried
<1>4. ASSUME NEW st, worker.pc = "record", rows' = Updated(st), UNCHANGED <<crashes, posts>>,
             worker'.pc # "record", st = "dead_letter" => worker.attempts + 1 = MaxAttempts
      PROVE  /\ Tried(a)' <= posts'[a] /\ posts'[a] <= Tried(a)' + crashes'
             /\ rows'[a].status = "dead_letter" => rows'[a].attempts = MaxAttempts
  <2>1. rows[worker.id].attempts = worker.attempts
    BY <1>4 DEF Safe, SnapshotFresh
  <2>2. rows'[a] = IF a = worker.id THEN [status |-> st, attempts |-> worker.attempts + 1]
                   ELSE rows[a]
    BY <1>4 DEF Updated, Safe, Typing, TypeOK
  <2> QED
    BY <1>0, <1>4, <2>1, <2>2 DEF Tried
<1>5. CASE RecordSent
  BY <1>4, <1>5 DEF RecordSent, Idle
<1>6. CASE RecordFailed
  BY <1>4, <1>6 DEF RecordFailed, Idle
<1>7. CASE DeadLetter
  <2>1. worker.pc = "record" /\ worker.attempts + 1 = MaxAttempts
    BY <1>0, <1>7 DEF DeadLetter, GivesUp
  <2>2. worker'.pc # "record"
    BY <1>7 DEF DeadLetter, Idle, Safe, Typing, TypeOK, WorkerState
  <2> QED
    BY <1>4, <1>7, <2>1, <2>2 DEF DeadLetter
<1>8. CASE Crash
  BY <1>0, <1>8 DEF Crash, Tried, Idle
<1>9. CASE UNCHANGED vars
  BY <1>0, <1>9 DEF vars, Tried
<1> QED
  BY <1>1, <1>2, <1>3, <1>5, <1>6, <1>7, <1>8, <1>9 DEF Next, WorkerStep, Enqueue, Compensate

(* An action is posted as often as its row counts, plus at most once for each
   crash: the retry bound of update_action_delivery holds of the webhook. *)
THEOREM AttemptsBounded == Spec => []AttemptsCounted
<1>1. Init => Safe /\ AttemptsCounted
  BY InitSafe, InitCounted
<1>2. Safe /\ AttemptsCounted /\ [Next]_vars => (Safe /\ AttemptsCounted)'
  BY NextSafe, NextCounted
<1> QED
  BY <1>1, <1>2, PTL DEF Spec

-----------------------------------------------------------------------------
(* The outbox implements Delivery. *)

LEMMA InitDelivery == Init => Abstract!AbstractInit
BY DEF Init, Abstract!AbstractInit, SeenState, Seen, Absent

LEMMA NextDelivery ==
  Safe /\ Safe' /\ [Next]_vars => [Abstract!AbstractNext]_<<SeenState, acked>>
<1> SUFFICES ASSUME Safe, Safe', [Next]_vars
             PROVE  Abstract!AbstractNext \/ UNCHANGED <<SeenState, acked>>
  OBVIOUS
<1>0. /\ rows \in [Actions -> Row] /\ rows' \in [Actions -> Row]
      /\ worker.pc # "idle" => worker.id \in Actions
      /\ \A a \in Actions : (rows[a] = Absent) = (rows[a].status = "absent")
  BY DEF Safe, Typing, TypeOK, WellFormed, Absent, Row
<1>1. ASSUME NEW r \in Runs, Enqueue(r) PROVE Abstract!Declare(r)
  <2>1. SeenState' = [a \in Actions |-> IF a \in Declared[r] /\ SeenState[a] = "absent"
                                           THEN "open" ELSE SeenState[a]]
    BY <1>0, <1>1 DEF Enqueue, Enqueued, SeenState, Seen, Fresh
  <2> QED
    BY <1>1, <2>1 DEF Enqueue, Abstract!Declare
<1>2. CASE Scan
  BY <1>2 DEF Scan, SeenState
<1>3. ASSUME NEW s \in batch, NEW ok \in BOOLEAN, Post(s, ok)
      PROVE  UNCHANGED <<SeenState, acked>> \/ Abstract!Acknowledge(s.id)
  <2>1. s.id \in Actions /\ SeenState[s.id] = "open"
    BY DEF Safe, Typing, TypeOK, Snapshot, SnapshotFresh, Deliverable, SeenState, Seen
  <2> QED
    BY <1>3, <2>1 DEF Post, SeenState, Abstract!Acknowledge
<1>4. ASSUME NEW st, worker.pc = "record", rows' = Updated(st)
      PROVE  /\ worker.id \in Actions /\ SeenState[worker.id] = "open"
             /\ SeenState' = [SeenState EXCEPT ![worker.id] =
                                Seen([status |-> st, attempts |-> worker.attempts + 1])]
  <2>1. worker.id \in Actions /\ SeenState[worker.id] = "open"
    BY <1>0, <1>4 DEF Safe, SnapshotFresh, Deliverable, SeenState, Seen
  <2> QED
    BY <1>0, <1>4, <2>1 DEF Updated, SeenState
<1>5. CASE RecordSent
  <2>1. Abstract!Deliver(worker.id)
    BY <1>4, <1>5 DEF RecordSent, Seen, Safe, WorkerSound, Abstract!Deliver
  <2> QED
    BY <1>0, <1>5, <2>1 DEF RecordSent, Abstract!AbstractNext
<1>6. CASE RecordFailed
  <2>1. SeenState' = [SeenState EXCEPT ![worker.id] = "open"] /\ SeenState[worker.id] = "open"
    BY <1>4, <1>6 DEF RecordFailed, Seen
  <2>2. SeenState' = SeenState
    BY <2>1 DEF SeenState
  <2> QED
    BY <1>6, <2>2 DEF RecordFailed
<1>7. CASE DeadLetter
  <2>1. worker.pc = "record" /\ rows' = Updated("dead_letter") /\ acked' = acked
    BY <1>7 DEF DeadLetter, GivesUp
  <2>2. Abstract!GiveUp(worker.id) /\ worker.id \in Actions
    BY <1>4, <2>1 DEF Seen, Abstract!GiveUp
  <2> QED
    BY <2>2 DEF Abstract!AbstractNext
<1>8. CASE Compensate
  <2> DEFINE c == Compensation[worker.id]
  <2>1. /\ worker.id \in Actions /\ c \in Actions /\ SeenState[worker.id] = "given_up"
        /\ acked' = acked /\ rows' = Enqueued({c})
    BY <1>0, <1>8 DEF Compensate, Safe, WorkerSound, SeenState, Seen
  <2>2. CASE rows[c] = Absent
    <3>1. SeenState[c] = "absent" /\ SeenState' = [SeenState EXCEPT ![c] = "open"]
      BY <1>0, <2>1, <2>2 DEF Enqueued, SeenState, Seen, Fresh
    <3> QED
      BY <2>1, <3>1 DEF Abstract!Undo, Abstract!AbstractNext
  <2>3. CASE rows[c] # Absent
    <3>1. SeenState' = SeenState
      BY <1>0, <2>1, <2>3 DEF Enqueued, SeenState
    <3> QED
      BY <2>1, <3>1
  <2> QED
    BY <2>2, <2>3
<1>9. CASE Crash
  BY <1>9 DEF Crash, SeenState
<1>10. CASE UNCHANGED vars
  BY <1>10 DEF vars, SeenState
<1>11. \A s \in batch : s.id \in Actions
  BY DEF Safe, Typing, TypeOK, Snapshot
<1> QED
  BY <1>1, <1>2, <1>3, <1>5, <1>6, <1>7, <1>8, <1>9, <1>10, <1>11
     DEF Next, WorkerStep, Abstract!AbstractNext

(* The outbox with its retrying worker, its snapshots and its crashes delivers
   what Delivery promises: final statuses are final, what is marked sent was
   acknowledged, and only a given-up action is compensated. *)
THEOREM OutboxDelivers == Spec => DeliveryHolds
<1>1. Spec => []Safe
  BY InitSafe, NextSafe, PTL DEF Spec
<1> QED
  BY <1>1, InitDelivery, NextDelivery, PTL DEF Spec, DeliveryHolds, Abstract!AbstractSpec
=============================================================================
