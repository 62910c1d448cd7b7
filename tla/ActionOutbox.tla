---------------------------- MODULE ActionOutbox ----------------------------
(***************************************************************************)
(* The durable outbox of declared side effects (S7, S8): enqueue_actions   *)
(* after a run finished "ok", the action_delivery worker that POSTs each   *)
(* due row to the project's webhook with retries, and the compensation a   *)
(* dead-lettered action fires.  One worker task runs per process; a crash  *)
(* loses its batch and what it was about to record.                        *)
(***************************************************************************)
EXTENDS Naturals

CONSTANTS
  Runs,         \* runs that may finish "ok", more than once when replayed
  Actions,      \* action ids: "run:act:i", and "id:compensate" of those
  Declared,     \* run -> the actions its body returns
  Compensation, \* action -> the id of its declared compensation, or None
  None,
  MaxAttempts,  \* ACTION_MAX_ATTEMPTS
  CrashBudget   \* bound on crashes of the process

ASSUME AttemptsAssumption == MaxAttempts \in Nat \ {0} /\ CrashBudget \in Nat
(* The two forms of id differ, so no run declares a compensation's id and no
   two actions share a compensation. *)
ASSUME IdsAssumption ==
  /\ None \notin Actions
  /\ Declared \in [Runs -> SUBSET Actions]
  /\ Compensation \in [Actions -> Actions \cup {None}]
  /\ \A a \in Actions, r \in Runs : Compensation[a] \notin Declared[r]
  /\ \A a, b \in Actions : Compensation[a] = Compensation[b] /\ Compensation[a] # None => a = b

VARIABLES
  rows,     \* action_outbox: id -> delivery status and attempts
  batch,    \* the worker's snapshot of due rows, still to be sent
  worker,   \* where the worker stands with the row it is sending
  crashes,  \* crashes so far
  posts,    \* history: POSTs of an action
  acked     \* history: actions the webhook answered with success

vars == <<rows, batch, worker, crashes, posts, acked>>

Absent   == [status |-> "absent", attempts |-> 0]
Fresh    == [status |-> "pending", attempts |-> 0]
Row      == [status : {"absent", "pending", "failed", "sent", "dead_letter"},
             attempts : 0 .. MaxAttempts]
Snapshot == [id : Actions, attempts : 0 .. MaxAttempts - 1]
Idle     == [pc |-> "idle", id |-> None, attempts |-> 0, ok |-> FALSE]
WorkerState == [pc : {"idle", "record", "compensate"}, id : Actions \cup {None},
                attempts : 0 .. MaxAttempts - 1, ok : BOOLEAN]

TypeOK ==
  /\ rows \in [Actions -> Row]
  /\ batch \subseteq Snapshot
  /\ worker \in WorkerState
  /\ crashes \in 0 .. CrashBudget
  /\ posts \in [Actions -> Nat]
  /\ acked \subseteq Actions

Init == /\ rows = [a \in Actions |-> Absent]
        /\ batch = {} /\ worker = Idle
        /\ crashes = 0
        /\ posts = [a \in Actions |-> 0] /\ acked = {}

-----------------------------------------------------------------------------
EnqueuedReplacing(S) ==  \* mutant: an upsert, a replayed run enqueues afresh
  [a \in Actions |-> IF a \in S THEN Fresh ELSE rows[a]]

(* enqueue_action: insert if absent. *)
Enqueued(S) ==
  [a \in Actions |-> IF a \in S /\ rows[a] = Absent THEN Fresh ELSE rows[a]]

(* A run reached Done, the first time or in a replay. *)
Enqueue(r) ==
  /\ rows' = Enqueued(Declared[r])
  /\ UNCHANGED <<batch, worker, crashes, posts, acked>>

DeliverablePending(a) == rows[a].status = "pending"  \* mutant: a failure is not retried

Deliverable(a) == rows[a].status \in {"pending", "failed"}

(* due_actions: any of the deliverable rows may have its backoff elapsed, and
   the batch is truncated. *)
Scan ==
  /\ worker.pc = "idle" /\ batch = {}
  /\ \E S \in SUBSET {a \in Actions : Deliverable(a)} :
       S # {} /\ batch' = {[id |-> a, attempts |-> rows[a].attempts] : a \in S}
  /\ UNCHANGED <<rows, worker, crashes, posts, acked>>

(* The POST with its answer: success, another status, or a send error, which
   also stands for a webhook that acted and whose answer was lost. *)
Post(s, ok) ==
  /\ worker.pc = "idle" /\ s \in batch
  /\ batch' = batch \ {s}
  /\ worker' = [pc |-> "record", id |-> s.id, attempts |-> s.attempts, ok |-> ok]
  /\ posts' = [posts EXCEPT ![s.id] = @ + 1]
  /\ acked' = IF ok THEN acked \cup {s.id} ELSE acked
  /\ UNCHANGED <<rows, crashes>>

(* update_action_delivery, with the attempts of the snapshot plus one. *)
Updated(status) ==
  [rows EXCEPT ![worker.id] = [status |-> status, attempts |-> worker.attempts + 1]]

RecordSent ==
  /\ worker.pc = "record" /\ worker.ok
  /\ rows' = Updated("sent") /\ worker' = Idle
  /\ UNCHANGED <<batch, crashes, posts, acked>>

GivesUpLate ==  \* mutant: off by one past the cap
  worker.pc = "record" /\ ~ worker.ok /\ worker.attempts + 1 > MaxAttempts

GivesUpEarly ==  \* mutant: off by one before the cap
  worker.pc = "record" /\ ~ worker.ok /\ worker.attempts + 2 >= MaxAttempts

GivesUp == worker.pc = "record" /\ ~ worker.ok /\ worker.attempts + 1 >= MaxAttempts

RecordFailed ==
  /\ worker.pc = "record" /\ ~ worker.ok /\ ~ GivesUp
  /\ rows' = Updated("failed") /\ worker' = Idle
  /\ UNCHANGED <<batch, crashes, posts, acked>>

DeadLetter ==
  /\ GivesUp
  /\ rows' = Updated("dead_letter")
  /\ worker' = IF Compensation[worker.id] = None THEN Idle
               ELSE [worker EXCEPT !.pc = "compensate"]
  /\ UNCHANGED <<batch, crashes, posts, acked>>

(* enqueue_compensation, a lock section of its own. *)
Compensate ==
  /\ worker.pc = "compensate"
  /\ rows' = Enqueued({Compensation[worker.id]}) /\ worker' = Idle
  /\ UNCHANGED <<batch, crashes, posts, acked>>

Crash ==
  /\ crashes < CrashBudget
  /\ crashes' = crashes + 1
  /\ batch' = {} /\ worker' = Idle
  /\ UNCHANGED <<rows, posts, acked>>

WorkerStep == \/ Scan
              \/ \E s \in batch, ok \in BOOLEAN : Post(s, ok)
              \/ RecordSent \/ RecordFailed \/ DeadLetter \/ Compensate

Next == (\E r \in Runs : Enqueue(r)) \/ WorkerStep \/ Crash

Spec == Init /\ [][Next]_vars

(* action_delivery is a periodic task: it ticks again whatever its last tick
   did, and every backoff elapses. *)
LiveSpec == Spec /\ WF_vars(WorkerStep)

-----------------------------------------------------------------------------
(* Properties. *)

Sending == {s.id : s \in batch} \cup {worker.id}

(* update_action_delivery writes the status and the attempts of the snapshot
   without reading the row: what the worker holds never goes stale, whatever
   runs enqueue meanwhile, so no attempt is lost and no final status undone. *)
SnapshotFresh ==
  /\ \A s \in batch : Deliverable(s.id) /\ rows[s.id].attempts = s.attempts
  /\ worker.pc = "record" => /\ Deliverable(worker.id)
                             /\ rows[worker.id].attempts = worker.attempts

(* An action is tried as often as its row says, plus once for each crash
   between a POST and its record: at most ACTION_MAX_ATTEMPTS + crashes times,
   and it is given up only after ACTION_MAX_ATTEMPTS answers that were no
   success. *)
Tried(a) == rows[a].attempts + (IF worker.pc = "record" /\ worker.id = a THEN 1 ELSE 0)
AttemptsCounted ==
  \A a \in Actions : /\ Tried(a) <= posts[a] /\ posts[a] <= Tried(a) + crashes
                     /\ rows[a].status = "dead_letter" => rows[a].attempts = MaxAttempts

(* What an observer of Delivery sees of the rows. *)
Seen(row) == CASE row.status = "absent"      -> "absent"
               [] row.status = "sent"        -> "delivered"
               [] row.status = "dead_letter" -> "given_up"
               [] OTHER                      -> "open"
SeenState == [a \in Actions |-> Seen(rows[a])]

Abstract == INSTANCE Delivery WITH state <- SeenState

(* The outbox delivers what Delivery promises: a final status is final, "sent"
   was acknowledged, only a dead-lettered action is compensated. *)
DeliveryHolds == Abstract!AbstractSpec

(* Every enqueued action is delivered or given up. *)
ActionsSettle == \A a \in Actions : rows[a].status # "absent"
                                 ~> rows[a].status \in {"sent", "dead_letter"}
=============================================================================
