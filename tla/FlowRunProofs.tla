--------------------------- MODULE FlowRunProofs ---------------------------
(* The safety of flow runs, for every definition, every number of runs and
   every bound on retries, crashes and lost writes. *)
EXTENDS FlowRun, FiniteSetTheorems, WellFoundedInduction, TLAPS

(* What relates the record in the store to the copies that the task, the
   canceller and the start-up scan hold of it. *)
StoreInv(r) ==
  /\ stored[r] = NoRecord => /\ saved[r] = {} /\ ~ Live(r)
                             /\ found[r] = NoRecord /\ canceller[r] = NoRecord
  /\ stored[r] # NoRecord => /\ stored[r].outputs \subseteq saved[r]
                             /\ stored[r].status = "running" => saved[r] \subseteq stored[r].outputs
TaskInv(r) ==
  /\ Live(r) => /\ task[r].rec.status = "running" /\ saved[r] \subseteq task[r].rec.outputs
                /\ found[r] = NoRecord /\ ~ booting
                /\ stored[r] # NoRecord /\ stored[r].status \in {"running", "cancelled"}
  /\ task[r].pc = "exec" => task[r].rec.current \in Ids \ task[r].rec.outputs
FoundInv(r) ==
  found[r] # NoRecord => /\ found[r].status = "running" /\ saved[r] \subseteq found[r].outputs
                         /\ ~ booting /\ stored[r] # NoRecord
                         /\ stored[r].status \in {"running", "cancelled"}
CancellerInv(r) ==
  canceller[r] # NoRecord => /\ canceller[r].status = "running"
                             /\ canceller[r].outputs \subseteq saved[r]
CopiesInv == \A r \in Runs : StoreInv(r) /\ TaskInv(r) /\ FoundInv(r) /\ CancellerInv(r)

-----------------------------------------------------------------------------
(* What a write may do to the store and to the history of writes. *)
LEMMA SaveTyped ==
  ASSUME TypeOK, NEW r \in Runs, NEW rec \in Record, Save(r, rec)
  PROVE  /\ stored' \in [Runs -> Record \cup {NoRecord}]
         /\ lost' \in 0 .. WriteFailures /\ saved' \in [Runs -> SUBSET Ids]
<1>1. rec.outputs \subseteq Ids
  BY DEF Record
<1>2. CASE Upserted(r, rec) /\ UNCHANGED lost
  BY <1>1, <1>2 DEF Upserted, TypeOK
<1>3. CASE lost < WriteFailures /\ lost' = lost + 1 /\ UNCHANGED <<stored, saved>>
  BY <1>3, BoundsAssumption DEF TypeOK
<1> QED
  BY <1>2, <1>3 DEF Save

LEMMA SaveEffect ==
  ASSUME TypeOK, NEW r \in Runs, NEW rec, Save(r, rec), NEW q \in Runs
  PROVE  \/ stored'[q] = stored[q] /\ saved'[q] = saved[q]
         \/ q = r /\ stored'[q] = rec /\ saved'[q] = saved[q] \cup rec.outputs
BY DEF Save, Upserted, TypeOK

LEMMA NoTaskTyped == NoTask \in Task
<1>1. (CHOOSE d \in Definitions : TRUE) \in Definitions
  BY DefinitionsAssumption
<1> QED
  BY <1>1, BoundsAssumption DEF NoTask, Task, Record, Fresh, Statuses

LEMMA FreshTyped == Fresh \in Record
BY DEF Fresh, Record, Statuses

(* The records a task or a canceller writes are records. *)
LEMMA RecordsTyped ==
  ASSUME NEW rec \in Record
  PROVE  /\ \A s \in Statuses : [rec EXCEPT !.status = s] \in Record
         /\ \A n \in Ids : [rec EXCEPT !.current = n] \in Record
         /\ \A n \in Ids : [rec EXCEPT !.outputs = @ \cup {n}] \in Record
BY DEF Record

-----------------------------------------------------------------------------
LEMMA InitTyped == Init => TypeOK
<1> SUFFICES ASSUME Init PROVE TypeOK
  OBVIOUS
<1>1. task \in [Runs -> Task]
  BY NoTaskTyped DEF Init
<1>2. /\ stored \in [Runs -> Record \cup {NoRecord}] /\ found \in [Runs -> Record \cup {NoRecord}]
      /\ canceller \in [Runs -> Record \cup {NoRecord}]
  BY DEF Init, NoRecords
<1>3. crashes \in 0 .. CrashBudget /\ lost \in 0 .. WriteFailures
  BY BoundsAssumption DEF Init
<1>4. saved \in [Runs -> SUBSET Ids]
  BY DEF Init
<1> QED
  BY <1>1, <1>2, <1>3, <1>4 DEF Init, TypeOK

LEMMA EndTyped ==
  ASSUME TypeOK, NEW r \in Runs, NEW s \in Statuses, End(r, s)
  PROVE  TypeOK'
<1>1. task[r].rec \in Record
  BY DEF TypeOK, Task
<1>2. [task[r].rec EXCEPT !.status = s] \in Record
  BY <1>1, RecordsTyped
<1>3. /\ stored' \in [Runs -> Record \cup {NoRecord}]
      /\ lost' \in 0 .. WriteFailures /\ saved' \in [Runs -> SUBSET Ids]
  BY <1>2, SaveTyped DEF End
<1> QED
  BY <1>3, NoTaskTyped DEF End, TypeOK, environment

LEMMA SpawnTyped ==
  ASSUME TypeOK, NEW r \in Runs, NEW rec \in Record
  PROVE  Spawned(r, rec) \in [Runs -> Task]
BY BoundsAssumption DEF Spawned, TypeOK, Task

LEMMA TaskStepTyped ==
  ASSUME TypeOK, NEW r \in Runs, TaskInv(r), TaskStep(r)
  PROVE  TypeOK'
<1> DEFINE t == task[r]
<1>0. t \in Task /\ t.rec \in Record
  BY DEF TypeOK, Task
<1>1. ASSUME NEW n \in Ids, Dispatch(r, n)
      PROVE  TypeOK'
  <2> DEFINE rec == [t.rec EXCEPT !.current = n]
  <2>1. rec \in Record
    BY <1>0, RecordsTyped
  <2>2. /\ stored' \in [Runs -> Record \cup {NoRecord}]
        /\ lost' \in 0 .. WriteFailures /\ saved' \in [Runs -> SUBSET Ids]
    BY <1>1, <2>1, SaveTyped DEF Dispatch
  <2>3. [t EXCEPT !.pc = "exec", !.rec = rec, !.attempt = 1] \in Task
    <3>1. 1 \in 1 .. MaxNodeRetries + 1
      BY BoundsAssumption
    <3> QED
      BY <1>0, <2>1, <3>1 DEF Task
  <2>4. task' = [task EXCEPT ![r] = [t EXCEPT !.pc = "exec", !.rec = rec, !.attempt = 1]]
    BY <1>1 DEF Dispatch, TypeOK
  <2>5. task' \in [Runs -> Task]
    BY <2>3, <2>4 DEF TypeOK
  <2> QED
    BY <1>1, <2>2, <2>5 DEF Dispatch, TypeOK, environment
<1>2. CASE FailDispatch(r)
  BY <1>2, EndTyped DEF FailDispatch, Statuses
<1>3. CASE CancelBetweenNodes(r)
  BY <1>3, EndTyped DEF CancelBetweenNodes, Statuses
<1>4. CASE Complete(r)
  BY <1>4, EndTyped DEF Complete, Statuses
<1>5. CASE NodeSucceeds(r)
  <2> DEFINE rec == [t.rec EXCEPT !.outputs = @ \cup {t.rec.current}]
  <2>1. rec \in Record
    BY <1>0, <1>5, RecordsTyped DEF NodeSucceeds, TaskInv
  <2>2. /\ stored' \in [Runs -> Record \cup {NoRecord}]
        /\ lost' \in 0 .. WriteFailures /\ saved' \in [Runs -> SUBSET Ids]
    BY <1>5, <2>1, SaveTyped DEF NodeSucceeds
  <2>3. [t EXCEPT !.pc = "loop", !.rec = rec] \in Task
    BY <1>0, <2>1 DEF Task
  <2>4. task' = [task EXCEPT ![r] = [t EXCEPT !.pc = "loop", !.rec = rec]]
    BY <1>5 DEF NodeSucceeds, TypeOK
  <2>5. task' \in [Runs -> Task]
    BY <2>3, <2>4 DEF TypeOK
  <2> QED
    BY <1>5, <2>2, <2>5 DEF NodeSucceeds, TypeOK, environment
<1>6. CASE NodeRetries(r)
  <2>1. [t EXCEPT !.attempt = @ + 1] \in Task
    BY <1>0, <1>6, BoundsAssumption DEF NodeRetries, Retries, Task
  <2>2. task' = [task EXCEPT ![r] = [t EXCEPT !.attempt = @ + 1]]
    BY <1>6 DEF NodeRetries, TypeOK
  <2> QED
    BY <1>6, <2>1, <2>2 DEF NodeRetries, TypeOK, environment
<1>7. CASE NodeFails(r)
  BY <1>7, EndTyped DEF NodeFails, Statuses
<1>8. CASE NodeCancelled(r)
  BY <1>8, EndTyped DEF NodeCancelled, Statuses
<1> QED
  BY <1>1, <1>2, <1>3, <1>4, <1>5, <1>6, <1>7, <1>8 DEF TaskStep

LEMMA NextTyped ==
  ASSUME TypeOK, CopiesInv, [Next]_vars
  PROVE  TypeOK'
<1>1. ASSUME NEW r \in Runs, StartRun(r)
      PROVE  TypeOK'
  <2>1. task' \in [Runs -> Task]
    BY <1>1, FreshTyped, SpawnTyped DEF StartRun
  <2>2. stored' \in [Runs -> Record \cup {NoRecord}] /\ saved' \in [Runs -> SUBSET Ids]
    BY <1>1, FreshTyped DEF StartRun, Upserted, TypeOK, Fresh
  <2> QED
    BY <1>1, <2>1, <2>2 DEF StartRun, TypeOK, environment
<1>2. ASSUME NEW r \in Runs, TaskStep(r)
      PROVE  TypeOK'
  BY <1>2, TaskStepTyped DEF CopiesInv
<1>3. ASSUME NEW r \in Runs, CancelWrite(r)
      PROVE  TypeOK'
  <2>1. canceller[r] \in Record /\ [canceller[r] EXCEPT !.status = "cancelled"] \in Record
    BY <1>3, RecordsTyped DEF CancelWrite, TypeOK, Statuses
  <2>2. [canceller[r] EXCEPT !.status = "cancelled"].outputs \subseteq Ids
    BY <2>1 DEF Record
  <2>3. stored' \in [Runs -> Record \cup {NoRecord}] /\ saved' \in [Runs -> SUBSET Ids]
    BY <1>3, <2>1, <2>2 DEF CancelWrite, Upserted, TypeOK
  <2> QED
    BY <1>3, <2>3 DEF CancelWrite, TypeOK
<1>4. ASSUME NEW r \in Runs, ResumeRun(r)
      PROVE  TypeOK'
  <2>1. task' \in [Runs -> Task]
    BY <1>4, SpawnTyped DEF ResumeRun, TypeOK
  <2> QED
    BY <1>4, <2>1 DEF ResumeRun, TypeOK
<1>5. ASSUME NEW r \in Runs, TripToken(r) \/ CancelRead(r)
      PROVE  TypeOK'
  BY <1>5 DEF TripToken, CancelRead, TypeOK
<1>6. CASE Crash
  BY <1>6, NoTaskTyped, BoundsAssumption DEF Crash, TypeOK, NoRecords
<1>7. CASE ScanResumableRuns
  BY <1>7 DEF ScanResumableRuns, TypeOK
<1>8. ASSUME NEW d \in Definitions, Define(d)
      PROVE  TypeOK'
  BY <1>8 DEF Define, TypeOK
<1>9. CASE UNCHANGED vars
  BY <1>9 DEF vars, TypeOK
<1> QED
  BY <1>1, <1>2, <1>3, <1>4, <1>5, <1>6, <1>7, <1>8, <1>9 DEF Next

-----------------------------------------------------------------------------
LEMMA InitCopies == Init => CopiesInv
BY DEF Init, CopiesInv, StoreInv, TaskInv, FoundInv, CancellerInv, Live, NoTask, NoRecords

Copies(q) == StoreInv(q) /\ TaskInv(q) /\ FoundInv(q) /\ CancellerInv(q)

(* What a step leaves of a run it is not about. *)
LEMMA OthersKept ==
  ASSUME NEW q \in Runs, Copies(q),
         stored'[q] = stored[q], saved'[q] = saved[q], task'[q] = task[q],
         found'[q] = found[q], canceller'[q] = canceller[q], booting' = booting
  PROVE  Copies(q)'
BY DEF Copies, StoreInv, TaskInv, FoundInv, CancellerInv, Live

LEMMA EndKeepsCopies ==
  ASSUME TypeOK, NEW r \in Runs, NEW s \in {"succeeded", "failed", "cancelled"},
         NEW q \in Runs, Copies(q), Live(r), End(r, s)
  PROVE  Copies(q)'
<1>1. CASE q # r
  <2>1. stored'[q] = stored[q] /\ saved'[q] = saved[q]
    BY <1>1 DEF End, Save, Upserted, TypeOK
  <2> QED
    BY <1>1, <2>1, OthersKept DEF End, environment, TypeOK
<1>2. CASE q = r
  <2>1. task'[q].pc = "none" /\ task[q].rec \in Record
    BY <1>2 DEF End, TypeOK, Task, NoTask
  <2>2. UNCHANGED <<found, canceller, booting>>
    BY DEF End, environment
  <2>3. \/ stored'[q] = stored[q] /\ saved'[q] = saved[q]
        \/ /\ stored'[q].status = s /\ stored'[q] # NoRecord
           /\ saved[q] \subseteq saved'[q] /\ stored'[q].outputs \subseteq saved'[q]
    <3> DEFINE rec == [task[r].rec EXCEPT !.status = s]
    <3>1. rec \in Record /\ rec.status = s
      BY <1>2, <2>1 DEF Record, Statuses
    <3>2. rec # NoRecord
      BY <3>1, NoRecordAssumption
    <3>3. Save(r, rec)
      BY DEF End
    <3> HIDE DEF rec
    <3>4. \/ stored'[q] = stored[q] /\ saved'[q] = saved[q]
          \/ stored'[q] = rec /\ saved'[q] = saved[q] \cup rec.outputs
      BY <3>3, SaveEffect
    <3> QED
      BY <3>1, <3>2, <3>4
  <2> QED
    BY <1>2, <2>1, <2>2, <2>3 DEF Copies, StoreInv, TaskInv, FoundInv, CancellerInv, Live
<1> QED
  BY <1>1, <1>2

LEMMA TaskStepKeepsCopies ==
  ASSUME TypeOK, NEW r \in Runs, NEW q \in Runs, Copies(q), TaskStep(r)
  PROVE  Copies(q)'
<1> DEFINE t == task[r]
<1>0. t \in Task /\ t.rec \in Record
  BY DEF TypeOK, Task
<1>1. ASSUME NEW rec \in Record, Live(r), Save(r, rec),
             rec.status = t.rec.status, t.rec.outputs \subseteq rec.outputs,
             task'[r].rec = rec, task'[r].pc \in {"loop", "exec"},
             task'[r].pc = "exec" => rec.current \in Ids \ rec.outputs,
             \A p \in Runs : p # r => task'[p] = task[p], UNCHANGED environment
      PROVE  Copies(q)'
  <2>1. UNCHANGED <<found, canceller, booting>>
    BY <1>1 DEF environment
  <2>2. CASE q # r
    <3>1. stored'[q] = stored[q] /\ saved'[q] = saved[q]
      BY <1>1, <2>2 DEF Save, Upserted, TypeOK
    <3> QED
      BY <1>1, <2>1, <2>2, <3>1, OthersKept
  <2>3. CASE q = r
    <3>1. rec # NoRecord
      BY NoRecordAssumption
    <3>2. \/ stored'[q] = stored[q] /\ saved'[q] = saved[q]
          \/ stored'[q] = rec /\ saved'[q] = saved[q] \cup rec.outputs
      BY <1>1, <2>3, SaveEffect
    <3>3. /\ t.rec.status = "running" /\ saved[q] \subseteq t.rec.outputs
          /\ found[q] = NoRecord /\ ~ booting /\ stored[q] # NoRecord
          /\ stored[q].status \in {"running", "cancelled"}
      BY <1>1, <2>3 DEF Copies, TaskInv
    <3>4. saved[q] \subseteq saved'[q] /\ saved'[q] \subseteq rec.outputs
      BY <1>1, <3>2, <3>3
    <3>5. /\ stored'[q] # NoRecord /\ stored'[q].status \in {"running", "cancelled"}
          /\ stored'[q].status = "running" => saved'[q] \subseteq stored'[q].outputs
          /\ stored'[q].outputs \subseteq saved'[q]
      BY <1>1, <2>3, <3>1, <3>2, <3>3 DEF Copies, StoreInv
    <3>6. Live(q)' /\ Live(q)
      BY <1>1, <2>3 DEF Live
    <3>7. StoreInv(q)'
      BY <3>5 DEF StoreInv
    <3>8. TaskInv(q)'
      BY <1>1, <2>1, <2>3, <3>3, <3>4, <3>5 DEF TaskInv
    <3>9. FoundInv(q)' /\ CancellerInv(q)'
      BY <2>1, <3>3, <3>4 DEF Copies, FoundInv, CancellerInv
    <3> QED
      BY <3>7, <3>8, <3>9 DEF Copies
  <2> QED
    BY <2>2, <2>3
<1>2. ASSUME NEW n \in Ids, Dispatch(r, n)
      PROVE  Copies(q)'
  <2> DEFINE rec == [t.rec EXCEPT !.current = n]
  <2>1. rec \in Record /\ rec.current = n /\ rec.outputs = t.rec.outputs /\ rec.status = t.rec.status
    BY <1>0 DEF Record
  <2>2. n \notin t.rec.outputs
    BY <1>2 DEF Dispatch, IsNext, Pending
  <2>3. /\ task'[r].rec = rec /\ task'[r].pc = "exec"
        /\ \A p \in Runs : p # r => task'[p] = task[p]
    BY <1>2 DEF Dispatch, TypeOK, Task
  <2>4. Live(r) /\ Save(r, rec) /\ UNCHANGED environment
    BY <1>2 DEF Dispatch, CanDispatch, Live
  <2> QED
    BY <1>1, <2>1, <2>2, <2>3, <2>4
<1>3. CASE NodeSucceeds(r)
  <2> DEFINE rec == [t.rec EXCEPT !.outputs = @ \cup {t.rec.current}]
  <2>1. CASE q # r
    <3>1. stored'[q] = stored[q] /\ saved'[q] = saved[q]
      BY <1>3, <2>1 DEF NodeSucceeds, Save, Upserted, TypeOK
    <3> QED
      BY <1>3, <2>1, <3>1, OthersKept DEF NodeSucceeds, environment, TypeOK
  <2>2. CASE q = r
    <3>1. t.rec.current \in Ids
      BY <1>3, <2>2 DEF NodeSucceeds, Copies, TaskInv
    <3>2. /\ rec \in Record /\ rec.status = t.rec.status
          /\ rec.outputs = t.rec.outputs \cup {t.rec.current}
      BY <1>0, <3>1 DEF Record
    <3>3. /\ task'[r].rec = rec /\ task'[r].pc = "loop"
          /\ \A p \in Runs : p # r => task'[p] = task[p]
      BY <1>3 DEF NodeSucceeds, TypeOK, Task
    <3>4. Live(r) /\ Save(r, rec) /\ UNCHANGED environment
      BY <1>3 DEF NodeSucceeds, Live
    <3> QED
      BY <1>1, <3>2, <3>3, <3>4
  <2> QED
    BY <2>1, <2>2
<1>4. CASE NodeRetries(r)
  <2>1. task'[q].rec = task[q].rec /\ task'[q].pc = task[q].pc
    BY <1>4 DEF NodeRetries, TypeOK, Task
  <2> QED
    BY <1>4, <2>1 DEF NodeRetries, environment, Copies, StoreInv, TaskInv, FoundInv, CancellerInv, Live
<1>5. CASE FailDispatch(r)
  BY <1>5, EndKeepsCopies DEF FailDispatch, CanDispatch, Live
<1>6. CASE CancelBetweenNodes(r)
  BY <1>6, EndKeepsCopies DEF CancelBetweenNodes, Live
<1>7. CASE Complete(r)
  BY <1>7, EndKeepsCopies DEF Complete, Live
<1>8. CASE NodeFails(r)
  BY <1>8, EndKeepsCopies DEF NodeFails, Live
<1>9. CASE NodeCancelled(r)
  BY <1>9, EndKeepsCopies DEF NodeCancelled, Live
<1> QED
  BY <1>2, <1>3, <1>4, <1>5, <1>6, <1>7, <1>8, <1>9 DEF TaskStep

LEMMA NextCopies ==
  ASSUME TypeOK, CopiesInv, [Next]_vars
  PROVE  CopiesInv'
<1> SUFFICES ASSUME NEW q \in Runs
             PROVE  Copies(q)'
  BY DEF CopiesInv, Copies
<1>0. Copies(q)
  BY DEF CopiesInv, Copies
<1> USE DEF Live
<1>1. ASSUME NEW r \in Runs, StartRun(r)
      PROVE  Copies(q)'
  <2>1. CASE q # r
    BY <1>0, <1>1, <2>1, OthersKept DEF StartRun, Upserted, Spawned, environment, TypeOK
  <2>2. CASE q = r
    <3>1. /\ saved[q] = {} /\ found[q] = NoRecord /\ canceller[q] = NoRecord /\ ~ booting
      BY <1>0, <1>1, <2>2 DEF StartRun, Copies, StoreInv
    <3>2. /\ stored'[q] = Fresh /\ saved'[q] = {} /\ task'[q].rec = Fresh /\ task'[q].pc = "loop"
          /\ UNCHANGED <<found, canceller, booting>>
      BY <1>1, <2>2, <3>1 DEF StartRun, Upserted, Spawned, environment, TypeOK, Fresh
    <3>3. Fresh # NoRecord /\ Fresh.status = "running" /\ Fresh.outputs = {}
      BY FreshTyped, NoRecordAssumption DEF Fresh
    <3> QED
      BY <3>1, <3>2, <3>3 DEF Copies, StoreInv, TaskInv, FoundInv, CancellerInv
  <2> QED
    BY <2>1, <2>2
<1>2. ASSUME NEW r \in Runs, TaskStep(r)
      PROVE  Copies(q)'
  BY <1>0, <1>2, TaskStepKeepsCopies
<1>3. ASSUME NEW r \in Runs, CancelRead(r)
      PROVE  Copies(q)'
  <2>1. CASE q # r
    BY <1>0, <1>3, <2>1, OthersKept DEF CancelRead, TypeOK
  <2>2. CASE q = r
    <3>1. stored[q] \in Record /\ ~ Terminal(stored[q])
      BY <1>3, <2>2 DEF CancelRead, TypeOK
    <3>2. stored[q].status = "running" /\ stored[q] # NoRecord
      BY <1>3, <2>2, <3>1 DEF CancelRead, Terminal, Record, Statuses
    <3>3. canceller'[q].status = "running" /\ canceller'[q].outputs = stored[q].outputs
      BY <1>3, <2>2, <3>2 DEF CancelRead, TypeOK
    <3> QED
      BY <1>0, <1>3, <2>2, <3>2, <3>3
         DEF CancelRead, Copies, StoreInv, TaskInv, FoundInv, CancellerInv
  <2> QED
    BY <2>1, <2>2
<1>4. ASSUME NEW r \in Runs, CancelWrite(r)
      PROVE  Copies(q)'
  <2>1. CASE q # r
    BY <1>0, <1>4, <2>1, OthersKept DEF CancelWrite, Upserted, TypeOK
  <2>2. CASE q = r
    <3> DEFINE rec == [canceller[q] EXCEPT !.status = "cancelled"]
    <3>1. canceller[q] \in Record /\ canceller[q].outputs \subseteq saved[q]
      BY <1>0, <1>4, <2>2 DEF CancelWrite, TypeOK, Copies, CancellerInv
    <3>2. /\ rec \in Record /\ rec # NoRecord
          /\ rec.status = "cancelled" /\ rec.outputs = canceller[q].outputs
      BY <3>1, NoRecordAssumption DEF Record, Statuses
    <3>3. stored'[q] = rec /\ saved'[q] = saved[q] \cup rec.outputs
      BY <1>4, <2>2 DEF CancelWrite, Upserted, TypeOK
    <3>4. canceller'[q] = NoRecord /\ UNCHANGED <<task, found, booting>>
      BY <1>4, <2>2 DEF CancelWrite, TypeOK
    <3>5. saved'[q] = saved[q] /\ stored[q] # NoRecord
      BY <1>0, <1>4, <2>2, <3>1, <3>2, <3>3 DEF Copies, StoreInv, CancelWrite
    <3> HIDE DEF rec
    <3> QED
      BY <1>0, <3>1, <3>2, <3>3, <3>4, <3>5 DEF Copies, StoreInv, TaskInv, FoundInv, CancellerInv
  <2> QED
    BY <2>1, <2>2
<1>5. ASSUME NEW r \in Runs, ResumeRun(r)
      PROVE  Copies(q)'
  <2>1. CASE q # r
    BY <1>0, <1>5, <2>1, OthersKept DEF ResumeRun, Spawned, TypeOK
  <2>2. CASE q = r
    <3>1. /\ task'[q].pc = "loop" /\ task'[q].rec = found[q] /\ found'[q] = NoRecord
          /\ UNCHANGED <<stored, saved, canceller, booting>> /\ found[q] # NoRecord
      BY <1>5, <2>2 DEF ResumeRun, Spawned, TypeOK
    <3> QED
      BY <1>0, <3>1 DEF Copies, StoreInv, TaskInv, FoundInv, CancellerInv
  <2> QED
    BY <2>1, <2>2
<1>6. CASE Crash
  BY <1>0, <1>6 DEF Crash, Copies, StoreInv, TaskInv, FoundInv, CancellerInv, NoTask, NoRecords
<1>7. CASE ScanResumableRuns
  <2>1. ~ Live(q) /\ found[q] = NoRecord
    BY <1>0, <1>7 DEF ScanResumableRuns, Copies, TaskInv, FoundInv
  <2>2. found'[q] # NoRecord => /\ found'[q] = stored[q] /\ stored[q] # NoRecord
                                /\ stored[q].status = "running"
    BY <1>7 DEF ScanResumableRuns, Resumable
  <2>3. UNCHANGED <<stored, task, canceller, saved>> /\ ~ booting'
    BY <1>7 DEF ScanResumableRuns
  <2> QED
    BY <1>0, <2>1, <2>2, <2>3 DEF Copies, StoreInv, TaskInv, FoundInv, CancellerInv
<1>8. ASSUME UNCHANGED <<stored, task, canceller, found, booting, saved>>
      PROVE  Copies(q)'
  BY <1>0, <1>8, OthersKept
<1>9. CASE (\E d \in Definitions : Define(d)) \/ (\E r \in Runs : TripToken(r)) \/ UNCHANGED vars
  BY <1>8, <1>9 DEF Define, TripToken, vars
<1> QED
  BY <1>1, <1>2, <1>3, <1>4, <1>5, <1>6, <1>7, <1>9 DEF Next

LEMMA CopiesHold == Spec => [](TypeOK /\ CopiesInv)
<1>1. Init => TypeOK /\ CopiesInv
  BY InitTyped, InitCopies
<1>2. (TypeOK /\ CopiesInv) /\ [Next]_vars => (TypeOK /\ CopiesInv)'
  BY NextTyped, NextCopies
<1> QED
  BY <1>1, <1>2, PTL DEF Spec

-----------------------------------------------------------------------------
(* Every record, in the store and in the copies of it, keeps its type, and a
   node is never attempted more than max_node_retries + 1 times. *)
THEOREM FlowTypeCorrect == Spec => []TypeOK
BY CopiesHold, PTL

(* A node whose output some write stored is never executed again, wherever
   the process crashed, whatever writes were lost and whoever cancelled. *)
THEOREM CompletedNodesSkipped == Spec => []NotRepeated
<1>1. TypeOK /\ CopiesInv => NotRepeated
  BY DEF NotRepeated, CopiesInv, TaskInv, Live
<1> QED
  BY <1>1, CopiesHold, PTL

LEMMA TaskStepOwn ==
  ASSUME TypeOK, NEW r \in Runs, TaskStep(r), NEW q \in Runs, stored'[q] # stored[q]
  PROVE  q = r /\ Live(r)
<1>1. TaskStep(r) => Live(r) /\ \E rec : Save(r, rec) \/ UNCHANGED stored
  BY DEF TaskStep, Dispatch, FailDispatch, CancelBetweenNodes, Complete, NodeSucceeds,
         NodeRetries, NodeFails, NodeCancelled, End, CanDispatch, Live
<1> QED
  BY <1>1, SaveEffect

(* A finished record changes only when a task outlives a canceller's verdict,
   or when a canceller that read it earlier writes. *)
THEOREM FinishedRecordsKept == Spec => QuietTerminal
<1>1. ASSUME TypeOK, CopiesInv, [Next]_vars, NEW r \in Runs,
             Terminal(stored[r]), stored'[r].status # stored[r].status
      PROVE  \/ Live(r) /\ stored[r].status = "cancelled"
             \/ /\ canceller[r] # NoRecord /\ ~ Terminal(canceller[r])
                /\ stored'[r].status = "cancelled"
  <2>1. stored'[r] # stored[r] /\ stored[r] # NoRecord /\ stored[r].status # "running"
    BY <1>1 DEF Terminal
  <2>2. ASSUME NEW q \in Runs, TaskStep(q)
        PROVE  Live(r) /\ stored[r].status = "cancelled"
    BY <1>1, <2>1, <2>2, TaskStepOwn DEF CopiesInv, TaskInv
  <2>3. ASSUME NEW q \in Runs, CancelWrite(q)
        PROVE  /\ canceller[r] # NoRecord /\ ~ Terminal(canceller[r])
               /\ stored'[r].status = "cancelled"
    <3>1. q = r
      BY <1>1, <2>1, <2>3 DEF CancelWrite, Upserted, TypeOK
    <3>2. canceller[r] # NoRecord /\ canceller[r].status = "running" /\ canceller[r] \in Record
      BY <1>1, <2>3, <3>1 DEF CancelWrite, CopiesInv, CancellerInv, TypeOK
    <3>3. stored'[r] = [canceller[r] EXCEPT !.status = "cancelled"]
      BY <1>1, <2>3, <3>1 DEF CancelWrite, Upserted, TypeOK
    <3> QED
      BY <3>2, <3>3 DEF Record, Terminal
  <2>4. ASSUME NEW q \in Runs, StartRun(q)
        PROVE  FALSE
    BY <1>1, <2>1, <2>4 DEF StartRun, Upserted, TypeOK
  <2>5. ~ UNCHANGED stored
    BY <2>1
  <2> QED
    BY <1>1, <2>2, <2>3, <2>4, <2>5
       DEF Next, Define, TripToken, CancelRead, ResumeRun, Crash, ScanResumableRuns, vars
<1>2. TypeOK /\ CopiesInv /\ [Next]_vars =>
        [\A r \in Runs :
           Terminal(stored[r]) /\ stored'[r].status # stored[r].status
           => \/ Live(r) /\ stored[r].status = "cancelled"
              \/ /\ canceller[r] # NoRecord /\ ~ Terminal(canceller[r])
                 /\ stored'[r].status = "cancelled"]_vars
  BY <1>1
<1> QED
  BY <1>2, CopiesHold, PTL DEF QuietTerminal, Spec

-----------------------------------------------------------------------------
(* topological_sort, for every finite graph. *)

(* Induction, as the least counterexample. *)
LEMMA LeastNatural ==
  ASSUME NEW T \in SUBSET Nat, T # {}
  PROVE  \E x \in T : \A y \in T : x <= y
<1>1. \E x \in T : \A y \in T : ~ (<<y, x>> \in OpToRel(<, Nat))
  BY NatLessThanWellFounded, WFMin
<1>2. PICK x \in T : \A y \in T : ~ (<<y, x>> \in OpToRel(<, Nat))
  BY <1>1
<1>3. ASSUME NEW y \in T, y < x PROVE FALSE
  <2>1. <<y, x>> \in Nat \X Nat /\ <<y, x>>[1] < <<y, x>>[2]
    BY <1>3
  <2>2. <<y, x>> \in {ss \in Nat \X Nat : ss[1] < ss[2]}
    BY <2>1
  <2> QED
    BY <1>2, <2>2 DEF OpToRel
<1> QED
  BY <1>3

Pairs(S) == \A e \in S : e = <<e[1], e[2]>>
Elems(s) == {s[i] : i \in DOMAIN s}
Distinct(s) == \A i, j \in DOMAIN s : s[i] = s[j] => i = j

LEMMA AscendingExists ==
  ASSUME NEW S \in SUBSET Nat, IsFiniteSet(S)
  PROVE  \E s \in [1 .. Cardinality(S) -> S] : \A i, j \in DOMAIN s : i < j => s[i] < s[j]
<1> DEFINE Sortable(U) == \E s \in [1 .. Cardinality(U) -> U] :
                            \A i, j \in DOMAIN s : i < j => s[i] < s[j]
           Bad == {n \in Nat : \E U \in SUBSET Nat :
                     IsFiniteSet(U) /\ Cardinality(U) = n /\ ~ Sortable(U)}
<1> SUFFICES ASSUME ~ Sortable(S) PROVE FALSE
  OBVIOUS
<1>1. Cardinality(S) \in Bad
  BY FS_CardinalityType
<1>2. PICK n \in Bad : \A m \in Bad : n <= m
  <2> HIDE DEF Bad
  <2>1. Bad \in SUBSET Nat /\ Bad # {}
    BY <1>1 DEF Bad
  <2> QED
    BY <2>1, LeastNatural
<1>3. PICK U \in SUBSET Nat : IsFiniteSet(U) /\ Cardinality(U) = n /\ ~ Sortable(U)
  OBVIOUS
<1>4. n # 0
  <2> SUFFICES ASSUME n = 0 PROVE FALSE
    OBVIOUS
  <2> DEFINE e == [i \in 1 .. 0 |-> 0]
  <2>1. e \in [1 .. Cardinality(U) -> U] /\ DOMAIN e = 1 .. 0
    BY <1>3
  <2> HIDE DEF e
  <2>2. \A i, j \in DOMAIN e : FALSE
    BY <2>1
  <2> QED
    BY <1>3, <2>1, <2>2
<1>5. U # {}
  BY <1>3, <1>4, FS_EmptySet
<1>6. PICK a \in U : \A b \in U : a <= b
  BY <1>5, LeastNatural
<1> DEFINE V == U \ {a}
<1>7. IsFiniteSet(V) /\ Cardinality(V) = n - 1 /\ n - 1 \in Nat
  BY <1>3, <1>4, FS_RemoveElement
<1>8. Sortable(V)
  <2>1. n - 1 \notin Bad
    BY <1>2, <1>7
  <2> QED
    BY <1>7, <2>1
<1>9. PICK t \in [1 .. n - 1 -> V] : \A i, j \in 1 .. n - 1 : i < j => t[i] < t[j]
  BY <1>7, <1>8
<1> DEFINE s == [i \in 1 .. n |-> IF i = 1 THEN a ELSE t[i - 1]]
<1>10. s \in [1 .. Cardinality(U) -> U]
  BY <1>3, <1>7, <1>9
<1>11. ASSUME NEW i \in 1 .. n, NEW j \in 1 .. n, i < j PROVE s[i] < s[j]
  <2>1. j - 1 \in 1 .. n - 1 /\ s[j] = t[j - 1] /\ t[j - 1] \in V
    BY <1>7, <1>9, <1>11
  <2>2. CASE i = 1
    <3>1. s[i] = a /\ a <= t[j - 1] /\ a # t[j - 1] /\ t[j - 1] \in Nat /\ a \in Nat
      BY <1>3, <1>6, <2>1, <2>2
    <3> HIDE DEF s
    <3> QED
      BY <2>1, <3>1
  <2>3. CASE i # 1
    <3>1. i - 1 \in 1 .. n - 1 /\ s[i] = t[i - 1] /\ i - 1 < j - 1
      BY <1>11, <2>3
    <3> QED
      BY <1>9, <2>1, <3>1
  <2> QED
    BY <2>2, <2>3
<1> QED
  BY <1>3, <1>10, <1>11

LEMMA AscendingSorts ==
  ASSUME NEW T \in SUBSET Nat, NEW S \in SUBSET T, IsFiniteSet(S)
  PROVE  /\ Ascending(S) \in Seq(T) /\ Len(Ascending(S)) = Cardinality(S)
         /\ Distinct(Ascending(S)) /\ Elems(Ascending(S)) = S
<1> DEFINE n == Cardinality(S)
           s == Ascending(S)
<1>1. n \in Nat
  BY FS_CardinalityType
<1>2. s \in [1 .. n -> S] /\ \A i, j \in DOMAIN s : i < j => s[i] < s[j]
  BY AscendingExists DEF Ascending
<1> HIDE DEF s
<1>3. Distinct(s)
  <2>1. DOMAIN s = 1 .. n /\ \A i \in 1 .. n : s[i] \in Nat
    BY <1>2
  <2>2. ASSUME NEW i \in 1 .. n, NEW j \in 1 .. n, s[i] = s[j] PROVE i = j
    <3>1. ~ (i < j) /\ ~ (j < i)
      BY <1>2, <2>1, <2>2
    <3> QED
      BY <1>1, <3>1
  <2> QED
    BY <2>1, <2>2 DEF Distinct
<1>4. s \in Injection(1 .. n, S)
  BY <1>2, <1>3 DEF Distinct, Injection, IsInjective
<1>5. IsFiniteSet(1 .. n) /\ Cardinality(1 .. n) = n
  BY <1>1, FS_Interval
<1>6. s \in Surjection(1 .. n, S)
  BY <1>4, <1>5, FS_Injection
<1>7. Elems(s) = S
  BY <1>2, <1>6 DEF Elems, Surjection
<1>8. s \in Seq(T) /\ Len(s) = n
  <2>1. s \in [1 .. n -> T]
    BY <1>2
  <2> QED
    BY <1>1, <2>1
<1> QED
  BY <1>3, <1>7, <1>8 DEF s

LEMMA AppendKeeps ==
  ASSUME NEW S, NEW s \in Seq(S), NEW x \in S, x \notin Elems(s), Distinct(s)
  PROVE  /\ Append(s, x) \in Seq(S) /\ Distinct(Append(s, x))
         /\ Elems(Append(s, x)) = Elems(s) \cup {x}
<1> DEFINE t == Append(s, x)
<1>1. /\ t \in Seq(S) /\ DOMAIN t = 1 .. Len(s) + 1 /\ t[Len(s) + 1] = x
      /\ \A i \in 1 .. Len(s) : t[i] = s[i]
      /\ DOMAIN s = 1 .. Len(s) /\ Len(s) \in Nat
  OBVIOUS
<1> HIDE DEF t
<1>2. \A i \in 1 .. Len(s) + 1 : i \in 1 .. Len(s) \/ i = Len(s) + 1
  BY <1>1
<1>3. Distinct(t)
  BY <1>1, <1>2 DEF Distinct, Elems
<1>4. Elems(t) = Elems(s) \cup {x}
  <2>1. Len(s) + 1 \in DOMAIN t /\ DOMAIN s \subseteq DOMAIN t
    BY <1>1
  <2> QED
    BY <1>1, <1>2, <2>1 DEF Elems
<1> QED
  BY <1>1, <1>3, <1>4 DEF t

LEMMA QueueStep ==
  ASSUME NEW S, NEW q \in Seq(S), NEW t \in Seq(S), q # <<>>, Distinct(q), Distinct(t),
         Elems(q) \cap Elems(t) = {}
  PROVE  /\ Tail(q) \o t \in Seq(S) /\ Distinct(Tail(q) \o t)
         /\ Elems(Tail(q) \o t) = (Elems(q) \ {Head(q)}) \cup Elems(t)
         /\ Head(q) \in S /\ Head(q) \in Elems(q)
<1> DEFINE r == Tail(q) \o t
           n == Len(q) - 1
<1>1. /\ n \in Nat /\ Len(t) \in Nat /\ DOMAIN q = 1 .. n + 1 /\ DOMAIN t = 1 .. Len(t)
      /\ Head(q) = q[1] /\ Head(q) \in S
      /\ r \in Seq(S) /\ DOMAIN r = 1 .. n + Len(t)
      /\ \A i \in 1 .. n : r[i] = q[i + 1]
      /\ \A i \in 1 .. Len(t) : r[n + i] = t[i]
  OBVIOUS
<1> HIDE DEF r, n
<1>2. ASSUME NEW i \in DOMAIN r
      PROVE  \/ i \in 1 .. n /\ r[i] = q[i + 1] /\ i + 1 \in DOMAIN q
             \/ i - n \in DOMAIN t /\ r[i] = t[i - n]
  <2>1. i \in 1 .. n \/ i - n \in 1 .. Len(t)
    BY <1>1
  <2>2. i - n \in 1 .. Len(t) => r[n + (i - n)] = t[i - n] /\ n + (i - n) = i
    BY <1>1
  <2> QED
    BY <1>1, <2>1, <2>2
<1>3. Distinct(r)
  <2>1. ASSUME NEW i \in DOMAIN r, NEW j \in DOMAIN r, r[i] = r[j] PROVE i = j
    <3>1. CASE i \in 1 .. n /\ j \in 1 .. n
      <4>1. i + 1 \in DOMAIN q /\ j + 1 \in DOMAIN q /\ q[i + 1] = q[j + 1]
        BY <1>1, <2>1, <3>1
      <4>2. i + 1 = j + 1
        BY <4>1 DEF Distinct
      <4> QED
        BY <1>1, <3>1, <4>2
    <3>2. CASE i - n \in DOMAIN t /\ r[i] = t[i - n] /\ j - n \in DOMAIN t /\ r[j] = t[j - n]
      <4>1. i - n = j - n
        BY <2>1, <3>2 DEF Distinct
      <4> QED
        BY <1>1, <4>1
    <3>3. ~ (r[i] \in Elems(q) /\ r[j] \in Elems(t)) /\ ~ (r[j] \in Elems(q) /\ r[i] \in Elems(t))
      BY <2>1
    <3> QED
      BY <1>1, <1>2, <2>1, <3>1, <3>2, <3>3 DEF Elems
  <2> QED
    BY <2>1 DEF Distinct
<1>4. Elems(r) \subseteq (Elems(q) \ {Head(q)}) \cup Elems(t)
  <2>1. ASSUME NEW i \in DOMAIN r PROVE r[i] \in (Elems(q) \ {q[1]}) \cup Elems(t)
    <3>1. CASE i \in 1 .. n /\ r[i] = q[i + 1] /\ i + 1 \in DOMAIN q
      <4>1. i + 1 # 1 /\ 1 \in DOMAIN q
        BY <1>1, <3>1
      <4> QED
        BY <3>1, <4>1 DEF Elems, Distinct
    <3>2. CASE i - n \in DOMAIN t /\ r[i] = t[i - n]
      BY <3>2 DEF Elems
    <3> QED
      BY <1>2, <3>1, <3>2
  <2> QED
    BY <1>1, <2>1 DEF Elems
<1>5. (Elems(q) \ {Head(q)}) \cup Elems(t) \subseteq Elems(r)
  <2>1. ASSUME NEW i \in DOMAIN q, q[i] # q[1] PROVE q[i] \in Elems(r)
    <3>1. i - 1 \in 1 .. n /\ i - 1 \in DOMAIN r /\ (i - 1) + 1 = i
      BY <1>1, <2>1
    <3> QED
      BY <1>1, <3>1 DEF Elems
  <2>2. ASSUME NEW i \in DOMAIN t PROVE t[i] \in Elems(r)
    <3>1. n + i \in DOMAIN r /\ r[n + i] = t[i]
      BY <1>1
    <3> QED
      BY <3>1 DEF Elems
  <2> QED
    BY <1>1, <2>1, <2>2 DEF Elems
<1>6. Head(q) \in Elems(q)
  <2>1. 1 \in DOMAIN q
    BY <1>1
  <2> QED
    BY <1>1, <2>1 DEF Elems
<1> QED
  BY <1>1, <1>3, <1>4, <1>5, <1>6 DEF r

(* The recursion that runs the loop defines a function. *)
LEMMA KahnRuns ==
  ASSUME NEW nodes, NEW edges, IsFiniteSet(nodes)
  PROVE  LET N == Cardinality(nodes) run == Kahn(nodes, edges)
         IN  run = [i \in 0 .. N |-> IF i = 0 THEN Start0(nodes, edges)
                                     ELSE Pop(nodes, edges, run[i - 1])]
<1> DEFINE N == Cardinality(nodes)
           Run(n, f) == f = [i \in 0 .. n |-> IF i = 0 THEN Start0(nodes, edges)
                                              ELSE Pop(nodes, edges, f[i - 1])]
           Bad == {n \in Nat : ~ \E f : Run(n, f)}
<1>0. N \in Nat
  BY FS_CardinalityType
<1>1. Bad = {}
  <2> SUFFICES ASSUME Bad # {} PROVE FALSE
    OBVIOUS
  <2>1. PICK n \in Bad : \A m \in Bad : n <= m
    <3> HIDE DEF Bad
    <3>1. Bad \in SUBSET Nat
      BY DEF Bad
    <3> QED
      BY <3>1, LeastNatural
  <2>2. n # 0
    <3> DEFINE f == [i \in 0 .. 0 |-> Start0(nodes, edges)]
    <3>1. Run(0, f)
      OBVIOUS
    <3> QED
      BY <3>1
  <2>3. n - 1 \in Nat /\ n - 1 \notin Bad
    <3>1. n \in Nat
      OBVIOUS
    <3> HIDE DEF Bad
    <3>2. n - 1 \in Nat /\ ~ (n <= n - 1)
      BY <2>2, <3>1
    <3> QED
      BY <2>1, <3>2
  <2>4. PICK g : Run(n - 1, g)
    BY <2>3
  <2> DEFINE f == [i \in 0 .. n |-> IF i = n THEN Pop(nodes, edges, g[n - 1]) ELSE g[i]]
  <2>5. \A i \in 0 .. n - 1 : f[i] = g[i]
    BY <2>3
  <2>6. ASSUME NEW i \in 0 .. n
        PROVE  f[i] = IF i = 0 THEN Start0(nodes, edges) ELSE Pop(nodes, edges, f[i - 1])
    <3>1. CASE i = n
      <4>1. n - 1 \in 0 .. n - 1
        BY <2>3
      <4>2. f[n - 1] = g[n - 1]
        BY <2>5, <4>1
      <4>3. f[n] = Pop(nodes, edges, g[n - 1])
        BY <2>3
      <4> QED
        BY <2>2, <3>1, <4>2, <4>3
    <3>2. CASE i # n
      <4>1. i \in 0 .. n - 1 /\ (i # 0 => i - 1 \in 0 .. n - 1)
        BY <2>3, <3>2
      <4>2. g[i] = IF i = 0 THEN Start0(nodes, edges) ELSE Pop(nodes, edges, g[i - 1])
        BY <2>4, <4>1
      <4> QED
        BY <2>5, <4>1, <4>2
    <3> QED
      BY <3>1, <3>2
  <2> HIDE DEF f
  <2>7. f = [i \in 0 .. n |-> f[i]]
    BY DEF f
  <2>8. Run(n, f)
    BY <2>6, <2>7
  <2> QED
    BY <2>1, <2>8
<1>2. \E f : Run(N, f)
  BY <1>0, <1>1
<1>3. Kahn(nodes, edges) = CHOOSE f : Run(N, f)
  BY DEF Kahn
<1> QED
  BY <1>2, <1>3

-----------------------------------------------------------------------------
(* The loop of topological_sort after i turns: the in-degrees count the edges from what is not
   sorted, the queue holds what has none of them, and what is sorted came after all its edges. *)
Unsorted(edges, k, n) == {e \in edges : e[2] = n /\ e[1] \notin Elems(k.sorted)}
OnceEach(nodes, k) ==
  /\ k.sorted \in Seq(nodes) /\ k.queue \in Seq(nodes)
  /\ Distinct(k.sorted) /\ Distinct(k.queue)
  /\ Elems(k.sorted) \cap Elems(k.queue) = {}
Counted(nodes, edges, k) ==
  \A n \in nodes : /\ k.degree[n] = Cardinality(Unsorted(edges, k, n))
                   /\ k.degree[n] = 0 <=> n \in Elems(k.sorted) \cup Elems(k.queue)
AfterEdges(edges, s) ==
  \A i \in DOMAIN s : \A e \in edges : e[2] = s[i] => \E j \in DOMAIN s : j < i /\ s[j] = e[1]
Turns(i, k) == Len(k.sorted) = i \/ (k.queue = <<>> /\ Len(k.sorted) <= i)
KahnInv(nodes, edges, i, k) ==
  OnceEach(nodes, k) /\ Counted(nodes, edges, k) /\ AfterEdges(edges, k.sorted) /\ Turns(i, k)

LEMMA UnsortedNone ==
  ASSUME NEW edges, IsFiniteSet(edges), NEW k, NEW n
  PROVE  /\ IsFiniteSet(Unsorted(edges, k, n)) /\ Cardinality(Unsorted(edges, k, n)) \in Nat
         /\ Cardinality(Unsorted(edges, k, n)) = 0 <=> \A e \in edges : e[2] = n => e[1] \in Elems(k.sorted)
<1>1. IsFiniteSet(Unsorted(edges, k, n))
  BY FS_Subset DEF Unsorted
<1>2. Unsorted(edges, k, n) = {} <=> \A e \in edges : e[2] = n => e[1] \in Elems(k.sorted)
  BY DEF Unsorted
<1> QED
  BY <1>1, <1>2, FS_EmptySet, FS_CardinalityType

LEMMA KahnStarts ==
  ASSUME NEW nodes \in SUBSET Nat, IsFiniteSet(nodes), NEW edges, IsFiniteSet(edges)
  PROVE  KahnInv(nodes, edges, 0, Start0(nodes, edges))
<1> DEFINE k == Start0(nodes, edges)
           d == [n \in nodes |-> Cardinality({e \in edges : e[2] = n})]
           free == {n \in nodes : d[n] = 0}
<1>1. k.sorted = <<>> /\ k.queue = Ascending(free) /\ k.degree = d
  BY DEF Start0
<1>2. Elems(k.sorted) = {} /\ Len(k.sorted) = 0 /\ Distinct(k.sorted) /\ k.sorted \in Seq(nodes)
  BY <1>1 DEF Elems, Distinct
<1>3. free \in SUBSET Nat /\ free \subseteq nodes /\ IsFiniteSet(free)
  BY FS_Subset
<1>4. /\ k.queue \in Seq(nodes) /\ Distinct(k.queue) /\ Elems(k.queue) = free
  <2> HIDE DEF free
  <2> QED
    BY <1>1, <1>3, AscendingSorts
<1>5. OnceEach(nodes, k)
  BY <1>2, <1>4 DEF OnceEach
<1>6. Counted(nodes, edges, k)
  <2>1. ASSUME NEW n \in nodes PROVE k.degree[n] = Cardinality(Unsorted(edges, k, n))
    <3>1. Unsorted(edges, k, n) = {e \in edges : e[2] = n}
      BY <1>2 DEF Unsorted
    <3> QED
      BY <1>1, <3>1
  <2> QED
    BY <1>1, <1>2, <1>4, <2>1 DEF Counted
<1>7. AfterEdges(edges, k.sorted)
  BY <1>1 DEF AfterEdges
<1> QED
  BY <1>2, <1>5, <1>6, <1>7 DEF KahnInv, Turns

LEMMA KahnTurn ==
  ASSUME NEW nodes \in SUBSET Nat, IsFiniteSet(nodes),
         NEW edges, Pairs(edges), IsFiniteSet(edges),
         NEW i \in Nat, NEW k, KahnInv(nodes, edges, i, k)
  PROVE  KahnInv(nodes, edges, i + 1, Pop(nodes, edges, k))
<1> DEFINE h == Pop(nodes, edges, k)
           node == Head(k.queue)
           next == {n \in nodes : <<node, n>> \in edges}
           freed == {n \in next : k.degree[n] = 1}
<1>0. OnceEach(nodes, k) /\ Counted(nodes, edges, k) /\ AfterEdges(edges, k.sorted) /\ Turns(i, k)
  BY DEF KahnInv
<1>1. CASE k.queue = <<>>
  <2>1. h = k
    BY <1>1 DEF Pop
  <2>2. Len(k.sorted) \in Nat
    BY <1>0 DEF OnceEach
  <2>3. Turns(i + 1, k)
    BY <1>0, <1>1, <2>2 DEF Turns
  <2> QED
    BY <1>0, <2>1, <2>3 DEF KahnInv
<1>2. CASE k.queue # <<>>
  <2>1. /\ h.degree = [n \in nodes |-> IF n \in next THEN k.degree[n] - 1 ELSE k.degree[n]]
        /\ h.sorted = Append(k.sorted, node)
        /\ h.queue = Tail(k.queue) \o Ascending(freed)
    BY <1>2 DEF Pop
  <2>2. \A n \in nodes : k.degree[n] \in Nat
    BY <1>0, UnsortedNone DEF Counted
  <2>3. node \in nodes /\ node \in Elems(k.queue)
    BY <1>0, <1>2 DEF OnceEach, Elems
  <2>4. freed \in SUBSET Nat /\ freed \subseteq nodes /\ IsFiniteSet(freed)
    BY FS_Subset
  <2>5. /\ Ascending(freed) \in Seq(nodes) /\ Distinct(Ascending(freed))
        /\ Elems(Ascending(freed)) = freed
    <3> HIDE DEF freed
    <3> QED
      BY <2>4, AscendingSorts
  <2>7. freed \cap (Elems(k.sorted) \cup Elems(k.queue)) = {}
    <3>1. \A n \in freed : n \in nodes /\ k.degree[n] # 0
      OBVIOUS
    <3> QED
      BY <1>0, <3>1 DEF Counted
  <2> HIDE DEF freed, next, node, h
  <2>8. /\ h.queue \in Seq(nodes) /\ Distinct(h.queue)
        /\ Elems(h.queue) = (Elems(k.queue) \ {node}) \cup freed
    <3>1. k.queue \in Seq(nodes) /\ Distinct(k.queue) /\ Elems(k.queue) \cap Elems(Ascending(freed)) = {}
      BY <1>0, <2>5, <2>7 DEF OnceEach
    <3> QED
      BY <1>2, <2>1, <2>5, <3>1, QueueStep DEF node
  <2>9. node \notin Elems(k.sorted)
    BY <1>0, <2>3 DEF OnceEach
  <2>10. /\ h.sorted \in Seq(nodes) /\ Distinct(h.sorted)
         /\ Elems(h.sorted) = Elems(k.sorted) \cup {node}
    BY <1>0, <2>1, <2>3, <2>9, AppendKeeps DEF OnceEach
  <2>11. OnceEach(nodes, h)
    BY <1>0, <2>3, <2>7, <2>8, <2>10 DEF OnceEach
  <2>12. ASSUME NEW n \in nodes
         PROVE  h.degree[n] = Cardinality(Unsorted(edges, h, n))
    <3>1. CASE n \in next
      <4>1. <<node, n>> \in Unsorted(edges, k, n)
        BY <2>9, <3>1 DEF Unsorted, next
      <4>2. Unsorted(edges, h, n) = Unsorted(edges, k, n) \ {<<node, n>>}
        BY <2>10 DEF Unsorted, Pairs
      <4>3. Cardinality(Unsorted(edges, h, n)) = Cardinality(Unsorted(edges, k, n)) - 1
        BY <4>1, <4>2, UnsortedNone, FS_RemoveElement
      <4> QED
        BY <1>0, <2>1, <3>1, <4>3 DEF Counted
    <3>2. CASE n \notin next
      <4>1. Unsorted(edges, h, n) = Unsorted(edges, k, n)
        BY <2>10, <3>2 DEF Unsorted, next, Pairs
      <4> QED
        BY <1>0, <2>1, <3>2, <4>1 DEF Counted
    <3> QED
      BY <3>1, <3>2
  <2>13. ASSUME NEW n \in nodes
         PROVE  h.degree[n] = 0 <=> n \in Elems(h.sorted) \cup Elems(h.queue)
    <3>1. CASE n \in next
      <4>1. k.degree[n] # 0
        <5>1. <<node, n>> \in Unsorted(edges, k, n)
          BY <2>9, <3>1 DEF Unsorted, next
        <5> QED
          BY <1>0, <5>1, UnsortedNone, FS_EmptySet DEF Counted
      <4>2. n \notin Elems(k.sorted) \cup Elems(k.queue)
        BY <1>0, <4>1 DEF Counted
      <4>3. h.degree[n] = 0 <=> n \in freed
        BY <2>1, <2>2, <3>1 DEF freed
      <4> QED
        BY <2>3, <2>8, <2>10, <4>2, <4>3
    <3>2. CASE n \notin next
      <4>1. h.degree[n] = k.degree[n] /\ n \notin freed
        BY <2>1, <3>2 DEF freed
      <4> QED
        BY <1>0, <2>3, <2>8, <2>10, <4>1 DEF Counted
    <3> QED
      BY <3>1, <3>2
  <2>14. /\ DOMAIN k.sorted = 1 .. Len(k.sorted) /\ DOMAIN h.sorted = 1 .. Len(k.sorted) + 1
         /\ Len(h.sorted) = Len(k.sorted) + 1 /\ Len(k.sorted) \in Nat
         /\ \A j \in 1 .. Len(k.sorted) : h.sorted[j] = k.sorted[j]
         /\ h.sorted[Len(k.sorted) + 1] = node
    BY <1>0, <2>1 DEF OnceEach
  <2>15. AfterEdges(edges, h.sorted)
    <3>1. ASSUME NEW j \in DOMAIN h.sorted, NEW e \in edges, e[2] = h.sorted[j]
          PROVE  \E l \in DOMAIN h.sorted : l < j /\ h.sorted[l] = e[1]
      <4>1. CASE j \in 1 .. Len(k.sorted)
        <5>1. PICK l \in DOMAIN k.sorted : l < j /\ k.sorted[l] = e[1]
          BY <1>0, <2>14, <3>1, <4>1 DEF AfterEdges
        <5> QED
          BY <2>14, <5>1
      <4>2. CASE j = Len(k.sorted) + 1
        <5>1. k.degree[node] = 0
          BY <1>0, <2>3 DEF Counted
        <5>2. e[1] \in Elems(k.sorted)
          BY <1>0, <2>3, <2>14, <3>1, <4>2, <5>1, UnsortedNone DEF Counted
        <5>3. PICK l \in DOMAIN k.sorted : k.sorted[l] = e[1]
          BY <5>2 DEF Elems
        <5> QED
          BY <2>14, <4>2, <5>3
      <4> QED
        BY <2>14, <4>1, <4>2
    <3> QED
      BY <3>1 DEF AfterEdges
  <2>16. Turns(i + 1, h)
    BY <1>0, <1>2, <2>14 DEF Turns
  <2> QED
    BY <2>11, <2>12, <2>13, <2>15, <2>16 DEF KahnInv, Counted, h
<1> QED
  BY <1>1, <1>2

LEMMA KahnHolds ==
  ASSUME NEW nodes \in SUBSET Nat, IsFiniteSet(nodes),
         NEW edges, Pairs(edges), IsFiniteSet(edges)
  PROVE  KahnInv(nodes, edges, Cardinality(nodes), Kahn(nodes, edges)[Cardinality(nodes)])
<1> DEFINE N == Cardinality(nodes)
           run == Kahn(nodes, edges)
           Bad == {i \in 0 .. N : ~ KahnInv(nodes, edges, i, run[i])}
<1>0. N \in Nat
  BY FS_CardinalityType
<1>1. run = [i \in 0 .. N |-> IF i = 0 THEN Start0(nodes, edges) ELSE Pop(nodes, edges, run[i - 1])]
  BY KahnRuns
<1> HIDE DEF run, N
<1>2. ASSUME Bad # {} PROVE FALSE
  <2>1. Bad \in SUBSET Nat
    BY <1>0
  <2>2. PICK i \in Bad : \A j \in Bad : i <= j
    <3> HIDE DEF Bad
    <3> QED
      BY <1>2, <2>1, LeastNatural
  <2>3. i # 0
    BY <1>0, <1>1, KahnStarts
  <2>4. i - 1 \in 0 .. N /\ i - 1 \in Nat /\ ~ (i <= i - 1) /\ (i - 1) + 1 = i /\ i \in 0 .. N
    BY <1>0, <2>3
  <2>5. KahnInv(nodes, edges, i - 1, run[i - 1])
    BY <2>2, <2>4
  <2>6. KahnInv(nodes, edges, i, Pop(nodes, edges, run[i - 1]))
    BY <2>4, <2>5, KahnTurn
  <2>7. run[i] = Pop(nodes, edges, run[i - 1])
    BY <1>1, <2>3, <2>4
  <2> QED
    BY <2>2, <2>6, <2>7
<1> QED
  BY <1>0, <1>2 DEF run, N

(* topological_sort never puts a node before one that has an edge to it: whatever edges a
   definition has, cycles and ids that are no nodes included. *)
THEOREM SortRespectsEdges ==
  ASSUME NEW nodes \in SUBSET Nat, IsFiniteSet(nodes),
         NEW edges, Pairs(edges), IsFiniteSet(edges)
  PROVE  /\ Sorted(nodes, edges) \in Seq(nodes) /\ Distinct(Sorted(nodes, edges))
         /\ AfterEdges(edges, Sorted(nodes, edges))
BY KahnHolds DEF Sorted, KahnInv, OnceEach

(* Nodes that wait for each other, or for an id that is no node. *)
Stuck(nodes, edges, C) ==
  C # {} /\ \A n \in C : \E e \in edges : e[2] = n /\ e[1] \notin nodes \ C

LEMMA SortedAll ==
  ASSUME NEW nodes, IsFiniteSet(nodes), NEW s \in Seq(nodes), Distinct(s)
  PROVE  Len(s) = Cardinality(nodes) <=> Elems(s) = nodes
<1> DEFINE n == Len(s)
<1>1. n \in Nat /\ s \in [1 .. n -> nodes] /\ DOMAIN s = 1 .. n
  OBVIOUS
<1>2. IsFiniteSet(1 .. n) /\ Cardinality(1 .. n) = n
  BY <1>1, FS_Interval
<1>3. s \in Injection(1 .. n, nodes)
  BY <1>1 DEF Distinct, Injection, IsInjective
<1>4. n = Cardinality(nodes) <=> s \in Surjection(1 .. n, nodes)
  BY <1>2, <1>3, FS_Injection
<1>5. s \in Surjection(1 .. n, nodes) <=> Elems(s) = nodes
  BY <1>1 DEF Surjection, Elems
<1> QED
  BY <1>4, <1>5

(* topological_sort answers Err for the definitions that have a stuck set of nodes and for no
   others. *)
THEOREM CyclesDetected ==
  ASSUME NEW nodes \in SUBSET Nat, IsFiniteSet(nodes),
         NEW edges, Pairs(edges), IsFiniteSet(edges)
  PROVE  CycleDetected(nodes, edges) <=> \E C \in SUBSET nodes : Stuck(nodes, edges, C)
<1> DEFINE N == Cardinality(nodes)
           k == Kahn(nodes, edges)[N]
           s == Sorted(nodes, edges)
<1>1. KahnInv(nodes, edges, N, k) /\ s = k.sorted /\ N \in Nat
  BY KahnHolds, FS_CardinalityType DEF Sorted
<1>2. s \in Seq(nodes) /\ Distinct(s) /\ AfterEdges(edges, s) /\ Elems(s) \subseteq nodes
  BY <1>1 DEF KahnInv, OnceEach, Elems
<1>3. CycleDetected(nodes, edges) <=> Elems(s) # nodes
  BY <1>2, SortedAll DEF CycleDetected
<1>4. ASSUME Elems(s) # nodes
      PROVE  Stuck(nodes, edges, nodes \ Elems(s))
  <2>1. k.queue = <<>>
    BY <1>1, <1>2, <1>4, SortedAll DEF KahnInv, Turns
  <2>2. Elems(k.queue) = {}
    BY <2>1 DEF Elems
  <2>3. ASSUME NEW n \in nodes \ Elems(s)
        PROVE  \E e \in edges : e[2] = n /\ e[1] \notin Elems(s)
    BY <1>1, <2>2, <2>3, UnsortedNone DEF KahnInv, Counted
  <2> QED
    BY <1>2, <1>4, <2>3 DEF Stuck
<1>5. ASSUME NEW C \in SUBSET nodes, Stuck(nodes, edges, C), Elems(s) = nodes
      PROVE  FALSE
  <2> DEFINE P == {i \in DOMAIN s : s[i] \in C}
  <2>1. P \in SUBSET Nat /\ P # {}
    <3>1. DOMAIN s \subseteq Nat
      BY <1>2
    <3>2. \E n \in C : n \in Elems(s)
      BY <1>5 DEF Stuck
    <3> QED
      BY <3>1, <3>2 DEF Elems
  <2>2. PICK i \in P : \A j \in P : i <= j
    <3> HIDE DEF P
    <3> QED
      BY <2>1, LeastNatural
  <2>3. PICK e \in edges : e[2] = s[i] /\ e[1] \notin nodes \ C
    BY <1>5 DEF Stuck
  <2>4. PICK j \in DOMAIN s : j < i /\ s[j] = e[1]
    BY <1>2, <2>3 DEF AfterEdges
  <2>5. s[j] \in nodes
    BY <1>2 DEF Elems
  <2>6. j \in P
    BY <2>3, <2>4, <2>5
  <2>7. i \in Nat /\ j \in Nat
    BY <2>1, <2>6
  <2> QED
    BY <2>2, <2>4, <2>6, <2>7
<1> QED
  BY <1>3, <1>4, <1>5

-----------------------------------------------------------------------------
(* What the dispatch order is good for. *)

LEMMA OrderSound ==
  ASSUME NEW d \in Definitions
  PROVE  /\ Order[d] \in Seq(NodesOf[d]) /\ AfterEdges(EdgesOf[d], Order[d])
         /\ d \notin Cycles => Elems(Order[d]) = NodesOf[d]
<1>1. /\ NodesOf[d] \in SUBSET Nat /\ IsFiniteSet(NodesOf[d])
      /\ Pairs(EdgesOf[d]) /\ IsFiniteSet(EdgesOf[d])
  <2>1. NodesOf[d] \in SUBSET Ids /\ Ids \subseteq Nat /\ EdgesOf[d] \in SUBSET (Ids \X Ids)
    BY DefinitionsAssumption
  <2>2. Pairs(EdgesOf[d])
    BY <2>1 DEF Pairs
  <2> QED
    BY <2>1, <2>2, DefinitionsAssumption
<1>2. Order[d] = Sorted(NodesOf[d], EdgesOf[d])
  BY DEF Order
<1>3. /\ Order[d] \in Seq(NodesOf[d]) /\ Distinct(Order[d])
      /\ AfterEdges(EdgesOf[d], Order[d])
  BY <1>1, <1>2, SortRespectsEdges
<1>4. d \notin Cycles => Len(Order[d]) = Cardinality(NodesOf[d])
  BY <1>2 DEF Cycles, CycleDetected
<1> QED
  BY <1>1, <1>3, <1>4, SortedAll

(* A run whose node does not change keeps its inputs. *)
Fed(t) == t.pc = "exec" => Preds(NodesOf[t.def], EdgesOf[t.def], t.rec.current) \subseteq t.rec.outputs

LEMMA DispatchFeeds ==
  ASSUME TypeOK, NEW r \in Runs, NEW n \in Ids, Dispatch(r, n)
  PROVE  Fed(task'[r])
<1> DEFINE t == task[r]
           s == Order[t.def]
<1>1. t \in Task /\ t.def \in Definitions /\ t.rec \in Record
  BY DEF TypeOK, Task
<1>2. task'[r].rec = [t.rec EXCEPT !.current = n] /\ task'[r].def = t.def
  BY <1>1 DEF Dispatch, TypeOK, Task
<1>3. task'[r].rec.current = n /\ task'[r].rec.outputs = t.rec.outputs
  BY <1>1, <1>2 DEF Record
<1>4. PICK i \in Pending(t) : s[i] = n /\ \A j \in Pending(t) : i <= j
  BY DEF Dispatch, IsNext
<1>5. s \in Seq(NodesOf[t.def]) /\ AfterEdges(EdgesOf[t.def], s)
  BY <1>1, OrderSound
<1>6. DOMAIN s \subseteq Nat /\ i \in DOMAIN s
  BY <1>4, <1>5 DEF Pending
<1>7. ASSUME NEW m \in Preds(NodesOf[t.def], EdgesOf[t.def], n)
      PROVE  m \in t.rec.outputs
  <2>1. <<m, n>> \in EdgesOf[t.def] /\ <<m, n>>[1] = m /\ <<m, n>>[2] = n
    BY DEF Preds
  <2>2. PICK j \in DOMAIN s : j < i /\ s[j] = m
    BY <1>4, <1>5, <1>6, <2>1 DEF AfterEdges
  <2>3. j \notin Pending(t)
    BY <1>4, <1>6, <2>2
  <2> QED
    BY <2>2, <2>3 DEF Pending
<1> QED
  BY <1>2, <1>3, <1>7 DEF Fed

LEMMA FedNext ==
  ASSUME TypeOK, [Next]_vars, NEW q \in Runs, Fed(task[q])
  PROVE  Fed(task'[q])
<1>1. CASE task'[q] = task[q]
  BY <1>1
<1>2. CASE task'[q].pc # "exec"
  BY <1>2 DEF Fed
<1>3. ASSUME NEW r \in Runs, TaskStep(r)
      PROVE  Fed(task'[q])
  <2>1. CASE \E n \in Ids : Dispatch(r, n)
    <3>1. PICK n \in Ids : Dispatch(r, n)
      BY <2>1
    <3>2. q # r => task'[q] = task[q]
      BY <3>1 DEF Dispatch, TypeOK
    <3> QED
      BY <1>1, <3>1, <3>2, DispatchFeeds
  <2>2. CASE NodeRetries(r)
    <3>1. /\ task'[q].pc = task[q].pc /\ task'[q].rec = task[q].rec /\ task'[q].def = task[q].def
      BY <2>2 DEF NodeRetries, TypeOK, Task
    <3> QED
      BY <3>1 DEF Fed
  <2>3. CASE NodeSucceeds(r)
    BY <1>1, <1>2, <2>3 DEF NodeSucceeds, TypeOK, Task
  <2>4. CASE FailDispatch(r) \/ CancelBetweenNodes(r) \/ Complete(r) \/ NodeFails(r) \/ NodeCancelled(r)
    BY <1>1, <1>2, <2>4 DEF FailDispatch, CancelBetweenNodes, Complete, NodeFails, NodeCancelled, End,
       TypeOK, NoTask
  <2> QED
    BY <1>3, <2>1, <2>2, <2>3, <2>4 DEF TaskStep
<1>4. ASSUME NEW r \in Runs, StartRun(r) \/ ResumeRun(r)
      PROVE  Fed(task'[q])
  BY <1>1, <1>2, <1>4 DEF StartRun, ResumeRun, Spawned, TypeOK
<1>5. CASE Crash
  BY <1>2, <1>5 DEF Crash, NoTask
<1>6. CASE UNCHANGED task
  BY <1>1, <1>6
<1> QED
  BY <1>3, <1>4, <1>5, <1>6
     DEF Next, Define, TripToken, CancelRead, CancelWrite, ScanResumableRuns, vars

(* drive_run executes a node only when every node with an edge to it has an output in the
   record, in a run resumed under an edited definition too: the first node of the dispatch order
   without an output comes after all the others' edges. *)
THEOREM NodesAreFed == Spec => []InputsReady
<1>1. InputsReady <=> \A r \in Runs : Fed(task[r])
  BY DEF InputsReady, Fed
<1>2. Init => InputsReady
  BY DEF Init, InputsReady, NoTask
<1>3. ASSUME TypeOK, InputsReady, [Next]_vars
      PROVE  InputsReady'
  <2>1. \A r \in Runs : Fed(task'[r])
    BY <1>1, <1>3, FedNext
  <2> QED
    BY <2>1 DEF InputsReady, Fed
<1>4. TypeOK /\ InputsReady /\ [Next]_vars => InputsReady'
  BY <1>3
<1> QED
  BY <1>2, <1>4, CopiesHold, PTL DEF Spec

(* A run becomes recorded as succeeded only with an output of every node of the definition it ran
   under: the loop ends when nothing in the order is left, and topological_sort leaves no node out
   of the order unless it answers Err. *)
THEOREM SucceededRunsAreComplete == Spec => SuccessComplete
<1>1. ASSUME TypeOK, CopiesInv, [Next]_vars, NEW q \in Runs,
             stored'[q] # stored[q], stored'[q].status = "succeeded"
      PROVE  NodesOf[task[q].def] \subseteq stored'[q].outputs
  <2>1. ASSUME NEW r \in Runs, TaskStep(r)
        PROVE  NodesOf[task[q].def] \subseteq stored'[q].outputs
    <3>1. r = q /\ Live(q) /\ task[q].rec.status = "running"
      BY <1>1, <2>1, TaskStepOwn DEF CopiesInv, TaskInv
    <3>2. task[q] \in Task /\ task[q].rec \in Record /\ task[q].def \in Definitions
      BY <1>1 DEF TypeOK, Task
    <3>3. ASSUME NEW rec, Save(q, rec) PROVE stored'[q] = rec
      BY <1>1, <3>3, SaveEffect
    <3>4. CASE Complete(q)
      <4>1. stored'[q] = [task[q].rec EXCEPT !.status = "succeeded"]
        BY <3>3, <3>4 DEF Complete, End
      <4>2. stored'[q].outputs = task[q].rec.outputs
        BY <3>2, <4>1 DEF Record
      <4>3. Elems(Order[task[q].def]) = NodesOf[task[q].def]
        BY <3>2, <3>4, OrderSound DEF Complete, Cyclic
      <4>4. \A i \in DOMAIN Order[task[q].def] : Order[task[q].def][i] \in task[q].rec.outputs
        BY <3>4 DEF Complete, Pending
      <4> QED
        BY <4>2, <4>3, <4>4 DEF Elems
    <3>5. ASSUME NEW s \in {"failed", "cancelled"}, End(q, s) PROVE FALSE
      <4>1. stored'[q] = [task[q].rec EXCEPT !.status = s]
        BY <3>3, <3>5 DEF End
      <4> QED
        BY <1>1, <3>2, <4>1 DEF Record
    <3>6. ASSUME NEW n \in Ids, Dispatch(q, n) PROVE FALSE
      <4>1. stored'[q] = [task[q].rec EXCEPT !.current = n]
        BY <3>3, <3>6 DEF Dispatch
      <4> QED
        BY <1>1, <3>1, <3>2, <4>1 DEF Record
    <3>7. CASE NodeSucceeds(q)
      <4>1. stored'[q] = [task[q].rec EXCEPT !.outputs = @ \cup {task[q].rec.current}]
        BY <3>3, <3>7 DEF NodeSucceeds
      <4> QED
        BY <1>1, <3>1, <3>2, <4>1 DEF Record
    <3>8. ~ NodeRetries(q)
      BY <1>1 DEF NodeRetries
    <3> QED
      BY <2>1, <3>1, <3>4, <3>5, <3>6, <3>7, <3>8
         DEF TaskStep, FailDispatch, CancelBetweenNodes, NodeFails, NodeCancelled
  <2>2. ASSUME NEW r \in Runs, StartRun(r)
        PROVE  FALSE
    BY <1>1, <2>2 DEF StartRun, Upserted, TypeOK, Fresh
  <2>3. ASSUME NEW r \in Runs, CancelWrite(r)
        PROVE  FALSE
    <3>1. canceller[r] \in Record
      BY <1>1, <2>3 DEF CancelWrite, TypeOK
    <3> QED
      BY <1>1, <2>3, <3>1 DEF CancelWrite, Upserted, TypeOK, Record
  <2> QED
    BY <1>1, <2>1, <2>2, <2>3
       DEF Next, Define, TripToken, CancelRead, ResumeRun, Crash, ScanResumableRuns, vars
<1>2. TypeOK /\ CopiesInv /\ [Next]_vars =>
        [\A r \in Runs :
           stored'[r] # stored[r] /\ stored'[r].status = "succeeded"
           => NodesOf[task[r].def] \subseteq stored'[r].outputs]_vars
  BY <1>1
<1> QED
  BY <1>2, CopiesHold, PTL DEF SuccessComplete, Spec
=============================================================================
