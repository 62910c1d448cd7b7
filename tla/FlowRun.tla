------------------------------ MODULE FlowRun ------------------------------
(***************************************************************************)
(* Flow runs: FlowRuntime (start_run, the spawned task with drive_run,     *)
(* resume_run) over the file-backed FlowStore, with flow_status / the CLI  *)
(* cancelling a run in the store, flow_define, a crash of the process, and *)
(* the start-up scan for Running records.                                  *)
(*                                                                         *)
(* A task works on its own copy of the record and writes the whole of it;  *)
(* each write is one action together with what precedes it since the last  *)
(* await, and the result of every write but the first is ignored.          *)
(***************************************************************************)
EXTENDS TopoSort

CONSTANTS
  Runs,          \* flow run ids
  Definitions,   \* versions of the flow's definition that may be stored
  Ids,           \* node ids and ids that edges name
  NodesOf,       \* definition -> its nodes
  EdgesOf,       \* definition -> its edges
  Registered,    \* nodes whose kind has an executor
  MaxNodeRetries,\* max_node_retries
  NoRecord,      \* no record
  CrashBudget,   \* bound on crashes
  WriteFailures  \* bound on failing store writes

ASSUME DefinitionsAssumption ==
  /\ Definitions # {} /\ Ids \subseteq Nat /\ Registered \subseteq Ids
  /\ NodesOf \in [Definitions -> SUBSET Ids]
  /\ EdgesOf \in [Definitions -> SUBSET (Ids \X Ids)]
  /\ \A d \in Definitions : IsFiniteSet(NodesOf[d]) /\ IsFiniteSet(EdgesOf[d])
ASSUME BoundsAssumption ==
  MaxNodeRetries \in Nat /\ CrashBudget \in Nat /\ WriteFailures \in Nat

Statuses == {"running", "succeeded", "failed", "cancelled"}
Record   == [status : Statuses, current : Ids \cup {NoRecord}, outputs : SUBSET Ids]
Fresh    == [status |-> "running", current |-> NoRecord, outputs |-> {}]
Task     == [pc : {"none", "loop", "exec"}, rec : Record, def : Definitions,
             attempt : 1 .. MaxNodeRetries + 1]
ASSUME NoRecordAssumption == NoRecord \notin Record \cup Ids

VARIABLES
  latest,    \* the stored definition of the flow
  stored,    \* flow-runs/<id>.json: run -> record
  task,      \* the task that drives a run
  token,     \* runs whose CancellationToken is tripped
  canceller, \* run -> the record a store canceller has read
  found,     \* run -> the record the start-up scan listed, not yet resumed
  booting,   \* the process has not yet scanned for runs to resume
  crashes,   \* crashes so far
  lost,      \* failed writes so far
  saved      \* history: run -> nodes whose output some write stored

vars == <<latest, stored, task, token, canceller, found, booting, crashes, lost, saved>>
environment == <<latest, token, canceller, found, booting, crashes>>

NoRecords == [r \in Runs |-> NoRecord]
NoTask == [pc |-> "none", rec |-> Fresh, def |-> CHOOSE d \in Definitions : TRUE, attempt |-> 1]

TypeOK ==
  /\ latest \in Definitions
  /\ stored \in [Runs -> Record \cup {NoRecord}]
  /\ task \in [Runs -> Task]
  /\ token \subseteq Runs
  /\ canceller \in [Runs -> Record \cup {NoRecord}]
  /\ found \in [Runs -> Record \cup {NoRecord}]
  /\ booting \in BOOLEAN
  /\ crashes \in 0 .. CrashBudget /\ lost \in 0 .. WriteFailures
  /\ saved \in [Runs -> SUBSET Ids]

Init ==
  /\ latest \in Definitions
  /\ stored = NoRecords /\ canceller = NoRecords /\ found = NoRecords
  /\ task = [r \in Runs |-> NoTask]
  /\ token = {} /\ booting = FALSE
  /\ crashes = 0 /\ lost = 0
  /\ saved = [r \in Runs |-> {}]

-----------------------------------------------------------------------------
Live(r)     == task[r].pc # "none"
Terminal(c) == c # NoRecord /\ c.status \in {"succeeded", "failed", "cancelled"}

(* The store keeps the newest definition under the flow's id. *)
Define(d) ==
  /\ latest' = d
  /\ UNCHANGED <<stored, task, token, canceller, found, booting, crashes, lost, saved>>

(* upsert_flow_run: the whole record, whatever the store holds. *)
Upserted(r, rec) ==
  /\ stored' = [stored EXCEPT ![r] = rec]
  /\ saved' = [saved EXCEPT ![r] = @ \cup rec.outputs]

(* let _ = store.upsert_flow_run(record). *)
Save(r, rec) ==
  \/ Upserted(r, rec) /\ UNCHANGED lost
  \/ lost < WriteFailures /\ lost' = lost + 1 /\ UNCHANGED <<stored, saved>>

Spawned(r, rec) == [task EXCEPT ![r] = [pc |-> "loop", rec |-> rec, def |-> latest, attempt |-> 1]]

(* start_run, start_run_for_session: a fresh id, its record written first. *)
StartRun(r) ==
  /\ ~ booting /\ stored[r] = NoRecord
  /\ Upserted(r, Fresh)
  /\ task' = Spawned(r, Fresh)
  /\ UNCHANGED <<environment, lost>>

(* The loop of drive_run skips the nodes the record holds an output of. *)
Order  == [d \in Definitions |-> Sorted(NodesOf[d], EdgesOf[d])]
Cycles == {d \in Definitions : CycleDetected(NodesOf[d], EdgesOf[d])}
PendingSkipsCurrent(t) ==  \* mutant: a resume starts after the current node
  {i \in DOMAIN Order[t.def] : Order[t.def][i] \notin t.rec.outputs \cup {t.rec.current}}

Pending(t) == {i \in DOMAIN Order[t.def] : Order[t.def][i] \notin t.rec.outputs}

Cyclic(t) == t.def \in Cycles
IsNext(t, n) == \E i \in Pending(t) : Order[t.def][i] = n /\ \A j \in Pending(t) : i <= j
CanDispatch(r) == task[r].pc = "loop" /\ ~ Cyclic(task[r]) /\ r \notin token

(* The task ends: whatever happened, the final record is written. *)
End(r, status) ==
  /\ Save(r, [task[r].rec EXCEPT !.status = status])
  /\ task' = [task EXCEPT ![r] = NoTask]
  /\ UNCHANGED environment

(* The next node is marked current and its executor called. *)
Dispatch(r, n) ==
  LET rec == [task[r].rec EXCEPT !.current = n]
  IN  /\ CanDispatch(r) /\ IsNext(task[r], n) /\ n \in Registered
      /\ Save(r, rec)
      /\ task' = [task EXCEPT ![r].pc = "exec", ![r].rec = rec, ![r].attempt = 1]
      /\ UNCHANGED environment

FailDispatch(r) ==
  /\ \/ task[r].pc = "loop" /\ Cyclic(task[r])
     \/ CanDispatch(r) /\ \E n \in Ids \ Registered : IsNext(task[r], n)
  /\ End(r, "failed")

(* cancel.is_cancelled(), looked at only while a node is left. *)
CancelBetweenNodes(r) ==
  /\ task[r].pc = "loop" /\ ~ Cyclic(task[r]) /\ Pending(task[r]) # {} /\ r \in token
  /\ End(r, "cancelled")

Complete(r) ==
  /\ task[r].pc = "loop" /\ ~ Cyclic(task[r]) /\ Pending(task[r]) = {}
  /\ End(r, "succeeded")

-----------------------------------------------------------------------------
(* What the executor answers: an output, which is checkpointed, a retryable
   error, another error, or, once the token is tripped, Cancelled. *)
NodeSucceedsUnrecorded(r) ==  \* mutant: the output is not put in the record
  /\ task[r].pc = "exec"
  /\ Save(r, task[r].rec)
  /\ task' = [task EXCEPT ![r].pc = "loop"]
  /\ UNCHANGED environment

NodeSucceeds(r) ==
  LET rec == [task[r].rec EXCEPT !.outputs = @ \cup {task[r].rec.current}]
  IN  /\ task[r].pc = "exec"
      /\ Save(r, rec)
      /\ task' = [task EXCEPT ![r].pc = "loop", ![r].rec = rec]
      /\ UNCHANGED environment

RetriesPastCap(t) == t.attempt <= MaxNodeRetries + 1  \* mutant: off by one

Retries(t) == t.attempt <= MaxNodeRetries

NodeRetries(r) ==
  /\ task[r].pc = "exec" /\ Retries(task[r])
  /\ task' = [task EXCEPT ![r].attempt = @ + 1]
  /\ UNCHANGED <<environment, stored, lost, saved>>

NodeFails(r) == task[r].pc = "exec" /\ End(r, "failed")

NodeCancelled(r) == task[r].pc = "exec" /\ r \in token /\ End(r, "cancelled")

TaskStep(r) ==
  \/ \E n \in Ids : Dispatch(r, n)
  \/ FailDispatch(r) \/ CancelBetweenNodes(r) \/ Complete(r)
  \/ NodeSucceeds(r) \/ NodeRetries(r) \/ NodeFails(r) \/ NodeCancelled(r)

-----------------------------------------------------------------------------
(* FlowRunHandle.cancel.cancel(). *)
TripToken(r) ==
  /\ Live(r) /\ token' = token \cup {r}
  /\ UNCHANGED <<latest, stored, task, canceller, found, booting, crashes, lost, saved>>

(* flow_status with action "cancel" and `root flow cancel`: the record is read
   without the store's lock, then written back as cancelled.  The CLI is a
   process of its own. *)
CancelReadAny(r) ==  \* mutant: is_terminal is not looked at
  /\ canceller[r] = NoRecord /\ stored[r] # NoRecord
  /\ canceller' = [canceller EXCEPT ![r] = stored[r]]
  /\ UNCHANGED <<latest, stored, task, token, found, booting, crashes, lost, saved>>

CancelRead(r) ==
  /\ canceller[r] = NoRecord /\ stored[r] # NoRecord /\ ~ Terminal(stored[r])
  /\ canceller' = [canceller EXCEPT ![r] = stored[r]]
  /\ UNCHANGED <<latest, stored, task, token, found, booting, crashes, lost, saved>>

CancelWrite(r) ==
  /\ canceller[r] # NoRecord
  /\ Upserted(r, [canceller[r] EXCEPT !.status = "cancelled"])
  /\ canceller' = [canceller EXCEPT ![r] = NoRecord]
  /\ UNCHANGED <<latest, task, token, found, booting, crashes, lost>>

Crash ==
  /\ crashes < CrashBudget /\ crashes' = crashes + 1
  /\ task' = [r \in Runs |-> NoTask] /\ token' = {}
  /\ found' = NoRecords /\ booting' = TRUE
  /\ UNCHANGED <<latest, stored, canceller, lost, saved>>

ResumableUnlessDone(rec) ==  \* mutant: a cancelled run is resumed too
  rec # NoRecord /\ rec.status \in {"running", "cancelled"}

(* is_auto_resumable. *)
Resumable(rec) == rec # NoRecord /\ rec.status = "running"

(* scan_resumable_runs at start-up. *)
ScanResumableRuns ==
  /\ booting /\ booting' = FALSE
  /\ found' = [r \in Runs |-> IF Resumable(stored[r]) THEN stored[r] ELSE NoRecord]
  /\ UNCHANGED <<latest, stored, task, token, canceller, crashes, lost, saved>>

(* resume_run takes the record the scan listed and the stored definition. *)
ResumeRun(r) ==
  /\ found[r] # NoRecord
  /\ task' = Spawned(r, found[r])
  /\ found' = [found EXCEPT ![r] = NoRecord]
  /\ UNCHANGED <<latest, stored, token, canceller, booting, crashes, lost, saved>>

Next ==
  \/ \E d \in Definitions : Define(d)
  \/ \E r \in Runs : \/ StartRun(r) \/ TaskStep(r) \/ TripToken(r)
                     \/ CancelRead(r) \/ CancelWrite(r) \/ ResumeRun(r)
  \/ Crash \/ ScanResumableRuns

Spec == Init /\ [][Next]_vars

(* A spawned task is polled, and executors answer: each bounds its wait. *)
LiveSpec == Spec /\ \A r \in Runs : WF_vars(TaskStep(r))

-----------------------------------------------------------------------------
(* Properties. *)

(* drive_run dispatches a node only once every predecessor the definition
   gives it has an output to feed it, in a resumed run and after a
   redefinition as well. *)
InputsReady ==
  \A r \in Runs : task[r].pc = "exec" =>
    Preds(NodesOf[task[r].def], EdgesOf[task[r].def], task[r].rec.current) \subseteq task[r].rec.outputs

(* "auto-resume reads from here to skip already-completed nodes": no node runs
   again once a write stored its output, although a canceller may write an
   older record back over it. *)
NotRepeated ==
  \A r \in Runs : task[r].pc = "exec" => task[r].rec.current \notin saved[r]

(* A run becomes recorded as succeeded only with an output of every node of
   the definition it was finished under, through crashes, resumes under an
   edited definition, and lost writes. *)
SuccessComplete ==
  [][\A r \in Runs :
       stored'[r] # stored[r] /\ stored'[r].status = "succeeded"
       => NodesOf[task[r].def] \subseteq stored'[r].outputs]_vars

(* A finished record changes in two races only: a task that outlives a
   canceller's verdict overwrites it, and a canceller that read the record
   while it ran overwrites the task's. *)
QuietTerminal ==
  [][\A r \in Runs :
       Terminal(stored[r]) /\ stored'[r].status # stored[r].status
       => \/ Live(r) /\ stored[r].status = "cancelled"
          \/ /\ canceller[r] # NoRecord /\ ~ Terminal(canceller[r])
             /\ stored'[r].status = "cancelled"]_vars

(* A task ends, and its run is then recorded as finished unless the process
   died or a write was lost. *)
TaskSettles ==
  \A r \in Runs : Live(r) ~> (~ Live(r) /\ (Terminal(stored[r]) \/ crashes + lost > 0))
=============================================================================
