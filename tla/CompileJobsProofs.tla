-------------------------- MODULE CompileJobsProofs --------------------------
(***************************************************************************)
(* Theorems about CompileJobs: whatever clients, cancels, the reaper,      *)
(* storage errors and crashes do, a workspace has one compile at a time,   *)
(* which CompilePipelineProofs assumes, and rows and observers are told    *)
(* the truth, but for a compile registered during a sweep.                 *)
(***************************************************************************)
EXTENDS CompileJobs, TLAPS

Held == {"registered", "working", "finishing", "removing", "lost"}

(* A compile that has begun and has not removed its entry is the entry of its workspace. *)
Owned == \A j \in Jobs : job[j].at \in Held => registry[job[j].ws] = j

(* A request that waits to write its row is the only one that will spawn its compile. *)
Starting ==
  /\ \A c \in Clients : client[c].at = "starting" =>
       Observes(c) \in Jobs /\ job[Observes(c)].at = "registered"
  /\ \A c, d \in Clients : client[c].at = "starting" /\ client[d].at = "starting"
                           /\ Observes(c) = Observes(d) => c = d

(* The row while the task runs, and once it has written its end. *)
RowOf(j) ==
  /\ job[j].at \in {"new", "registered"} => row[j] = None
  /\ job[j].at \in {"working", "finishing"} =>
       /\ row[j] \in {None, "running", "interrupted"}
       /\ row[j] # None => job[j].ws \in mounted
  /\ job[j].at \in {"removing", "over"} =>
       /\ row[j] = "done" => job[j].outcome = "done"
       /\ job[j].outcome = "done" /\ faults = 0 /\ row[j] # None =>
            row[j] = "done" \/ (row[j] = "interrupted" /\ j \in late)

(* What the reaper and a cancel request hold is enough to know which rows have no task. *)
Reaped(j) ==
  /\ reaper.at = "sweep" /\ Alive(j) => j \in reaper.live \cup late
  /\ row[j] = "interrupted" => ~Alive(j) \/ j \in late
Cleared(j) ==
  /\ cancel.at \in {"match", "clear"} /\ j \in cancel.running => job[j].at \notin {"new", "registered"}
  /\ cancel.at = "clear" /\ j \in cancel.running => ~Alive(j)
  /\ row[j] = "cleared" => ~Alive(j)

Told(c) ==
  /\ client[c].at = "watching" => Observes(c) \in Jobs
  /\ client[c].at # "told" => client[c].told = None
  /\ client[c].told # None => Observes(c) \in Jobs /\ job[Observes(c)].at = "over"
  /\ client[c].told = "done" => job[Observes(c)].outcome = "done"
  /\ client[c].told = "failed" /\ job[Observes(c)].outcome = "done" =>
       faults > 0 \/ (row[Observes(c)] = "interrupted" /\ Observes(c) \in late)

IInv == /\ TypeOK /\ Owned /\ Starting
        /\ \A j \in Jobs : RowOf(j) /\ Reaped(j) /\ Cleared(j)
        /\ \A c \in Clients : Told(c)
-----------------------------------------------------------------------------
(* What a step of one task, a write to one row and a change to one client leave alone. *)
LEMMA GoesFields ==
  ASSUME TypeOK, NEW k \in Jobs, NEW a \in Stages, Goes(k, a)
  PROVE  /\ job' \in [Jobs -> Job]
         /\ \A j \in Jobs : /\ job'[j].at = IF j = k THEN a ELSE job[j].at
                            /\ job'[j].ws = job[j].ws /\ job'[j].outcome = job[j].outcome
BY DEF TypeOK, Goes, Job

LEMMA WritesFields ==
  ASSUME TypeOK, NEW k \in Jobs, NEW status \in Statuses, Writes(k, status)
  PROVE  /\ row' \in [Jobs -> Statuses] /\ faults' \in 0 .. MaxFaults
         /\ faults' = 0 => faults = 0 /\ (row'[k] = status \/ job[k].ws \notin mounted)
         /\ faults > 0 => faults' > 0
         /\ row'[k] \in {row[k], status} /\ (row'[k] # row[k] => job[k].ws \in mounted)
         /\ \A j \in Jobs : j # k => row'[j] = row[j]
BY JobsAssumption DEF TypeOK, Writes

LEMMA InitIInv == Init => IInv
<1> SUFFICES ASSUME Init PROVE IInv
  OBVIOUS
<1> USE JobsAssumption
<1>1. (CHOOSE w \in Workspaces : TRUE) \in Workspaces
  OBVIOUS
<1>2. TypeOK
  <2>1. /\ registry \in [Workspaces -> Jobs \cup {None}] /\ row \in [Jobs -> Statuses]
        /\ late \subseteq Jobs /\ mounted \subseteq Workspaces
        /\ faults \in 0 .. MaxFaults /\ crashes \in 0 .. CrashBudget
    BY DEF Init, Statuses
  <2>2. job \in [Jobs -> Job]
    BY <1>1 DEF Init, Job, Stages
  <2>3. client \in [Clients -> Client]
    BY DEF Init, Client
  <2>4. reaper \in [at : {"idle", "sweep"}, live : SUBSET Jobs]
    BY DEF Init, NoSweep
  <2>5. cancel \in [at : {"idle", "list", "match", "clear"}, ws : Workspaces,
                     live : SUBSET Jobs, running : SUBSET Jobs]
    BY <1>1 DEF Init, NoCancel
  <2> QED
    BY <2>1, <2>2, <2>3, <2>4, <2>5 DEF TypeOK
<1>3. /\ \A j \in Jobs : job[j].at = "new" /\ row[j] = None
      /\ \A c \in Clients : client[c].at = "out" /\ client[c].told = None
      /\ reaper.at = "idle" /\ cancel.at = "idle"
  BY DEF Init, NoSweep, NoCancel
<1>4. Owned /\ Starting
  BY <1>3 DEF Owned, Starting, Held
<1>5. \A j \in Jobs : RowOf(j) /\ Reaped(j) /\ Cleared(j)
  BY <1>3 DEF RowOf, Reaped, Cleared, Alive
<1>6. ASSUME NEW c \in Clients PROVE Told(c)
  BY <1>3 DEF Told
<1> QED
  BY <1>2, <1>4, <1>5, <1>6 DEF IInv

LEMMA AttachIInv ==
  ASSUME IInv, NEW c \in Clients, NEW w \in Workspaces, Attach(c, w) PROVE IInv'
<1> USE JobsAssumption
<1>1. /\ registry[w] \in Jobs
      /\ UNCHANGED <<registry, row, job, reaper, cancel, late, mounted, faults, crashes>>
      /\ client[c] \in Client /\ client[c].at = "out"
  BY DEF Attach, IInv, TypeOK
<1>2. client' = [client EXCEPT ![c] = [client[c] EXCEPT !.at = "watching", !.job = registry[w]]]
  BY DEF Attach, IInv, TypeOK
<1>3. /\ client' \in [Clients -> Client]
      /\ client'[c].at = "watching" /\ client'[c].job = registry[w] /\ client'[c].told = client[c].told
      /\ \A d \in Clients : d # c => client'[d] = client[d]
  BY <1>1, <1>2 DEF Client, IInv, TypeOK
<1>4. TypeOK'
  BY <1>1, <1>3 DEF IInv, TypeOK
<1>5. Owned' /\ Starting'
  BY <1>1, <1>3 DEF IInv, Owned, Starting, Observes
<1>6. ASSUME NEW j \in Jobs PROVE (RowOf(j) /\ Reaped(j) /\ Cleared(j))'
  BY <1>1 DEF IInv, RowOf, Reaped, Cleared, Alive
<1>7. ASSUME NEW d \in Clients PROVE Told(d)'
  BY <1>1, <1>3 DEF IInv, Told, Observes
<1> QED
  BY <1>4, <1>5, <1>6, <1>7 DEF IInv

LEMMA RegisterIInv ==
  ASSUME IInv, NEW c \in Clients, NEW w \in Workspaces, Register(c, w) PROVE IInv'
<1> USE JobsAssumption
<1> DEFINE j == FreshId
<1>1. /\ client[c].at = "out" /\ registry[w] = None
      /\ j \in Jobs /\ job[j].at = "new"
      /\ UNCHANGED <<row, reaper, cancel, mounted, faults, crashes>>
      /\ registry' = [registry EXCEPT ![w] = j]
      /\ late' = IF reaper.at = "sweep" THEN late \cup {j} ELSE late
  BY DEF Register, FreshId
<1>2. /\ job' = [job EXCEPT ![j] = [job[j] EXCEPT !.at = "registered", !.ws = w]]
      /\ client' = [client EXCEPT ![c] = [client[c] EXCEPT !.at = "starting", !.job = j]]
  BY <1>1 DEF Register, IInv, TypeOK
<1>3. /\ job' \in [Jobs -> Job] /\ job'[j].at = "registered" /\ job'[j].ws = w
      /\ \A k \in Jobs : k # j => job'[k] = job[k]
  <2> HIDE DEF j
  <2>1. job \in [Jobs -> Job] /\ job[j] \in Job
    BY <1>1 DEF IInv, TypeOK
  <2> DEFINE g == [job[j] EXCEPT !.at = "registered", !.ws = w]
  <2>2. g \in Job /\ g.at = "registered" /\ g.ws = w
    BY <2>1 DEF Job, Stages
  <2>3. job' = [job EXCEPT ![j] = g]
    BY <1>2
  <2> HIDE DEF g
  <2> QED
    BY <1>1, <2>1, <2>2, <2>3
<1>4. /\ client' \in [Clients -> Client]
      /\ client'[c].at = "starting" /\ client'[c].job = j /\ client'[c].told = client[c].told
      /\ \A d \in Clients : d # c => client'[d] = client[d]
  BY <1>1, <1>2 DEF IInv, TypeOK, Client
<1> HIDE DEF j
<1>5. TypeOK'
  BY <1>1, <1>3, <1>4 DEF IInv, TypeOK
<1>6. Owned'
  <2> SUFFICES ASSUME NEW k \in Jobs, job'[k].at \in Held PROVE registry'[job'[k].ws] = k
    BY DEF Owned
  <2>1. CASE k = j
    BY <1>1, <1>3, <2>1 DEF IInv, TypeOK
  <2>2. CASE k # j
    BY <1>1, <1>3, <2>2 DEF IInv, TypeOK, Owned, Job
  <2> QED
    BY <2>1, <2>2
<1>7. Starting'
  BY <1>1, <1>3, <1>4 DEF IInv, Starting, Observes
<1>8. ASSUME NEW k \in Jobs PROVE (RowOf(k) /\ Reaped(k) /\ Cleared(k))'
  <2>1. RowOf(k) /\ Reaped(k) /\ Cleared(k)
    BY DEF IInv
  <2>2. CASE k = j
    BY <1>1, <1>3, <2>1, <2>2 DEF RowOf, Reaped, Cleared, Alive
  <2>3. CASE k # j
    BY <1>1, <1>3, <2>1, <2>3 DEF RowOf, Reaped, Cleared, Alive
  <2> QED
    BY <2>2, <2>3
<1>9. ASSUME NEW d \in Clients PROVE Told(d)'
  <2>1. Told(d)
    BY DEF IInv
  <2> QED
    BY <1>1, <1>3, <1>4, <2>1 DEF Told, Observes
<1> QED
  BY <1>5, <1>6, <1>7, <1>8, <1>9 DEF IInv

LEMMA InsertRowIInv == ASSUME IInv, NEW c \in Clients, InsertRow(c) PROVE IInv'
<1> USE JobsAssumption
<1> DEFINE j == Observes(c)
<1>1. /\ client[c].at = "starting" /\ j \in Jobs /\ job[j].at = "registered" /\ row[j] = None
      /\ Writes(j, "running") /\ Goes(j, "working")
      /\ UNCHANGED <<registry, reaper, cancel, late, mounted, crashes>>
  BY DEF InsertRow, IInv, Starting, RowOf
<1>2. client' = [client EXCEPT ![c] = [client[c] EXCEPT !.at = "watching"]]
  BY DEF InsertRow, IInv, TypeOK
<1>3. /\ client' \in [Clients -> Client]
      /\ client'[c].at = "watching" /\ client'[c].job = j /\ client'[c].told = client[c].told
      /\ \A d \in Clients : d # c => client'[d] = client[d]
  BY <1>1, <1>2 DEF IInv, TypeOK, Client, Observes
<1> HIDE DEF j
<1>4. /\ job' \in [Jobs -> Job] /\ job'[j].at = "working"
      /\ \A k \in Jobs : /\ k # j => job'[k].at = job[k].at
                         /\ job'[k].ws = job[k].ws /\ job'[k].outcome = job[k].outcome
  BY <1>1, GoesFields DEF IInv, Stages
<1>5. /\ row' \in [Jobs -> Statuses] /\ faults' \in 0 .. MaxFaults
      /\ faults' = 0 => faults = 0
      /\ faults > 0 => faults' > 0
      /\ row'[j] \in {None, "running"} /\ (row'[j] # None => job[j].ws \in mounted)
      /\ \A k \in Jobs : k # j => row'[k] = row[k]
  BY <1>1, WritesFields DEF IInv, Statuses
<1>6. TypeOK'
  BY <1>1, <1>3, <1>4, <1>5 DEF IInv, TypeOK
<1>7. Owned'
  BY <1>1, <1>4 DEF IInv, Owned, Held
<1>8. Starting'
  <2>1. \A d \in Clients : d # c /\ client[d].at = "starting" => Observes(d) # j
    BY <1>1 DEF IInv, Starting, j
  <2> QED
    BY <1>1, <1>3, <1>4, <2>1 DEF IInv, Starting, Observes
<1>9. ASSUME NEW k \in Jobs PROVE (RowOf(k) /\ Reaped(k) /\ Cleared(k))'
  <2>1. RowOf(k) /\ Reaped(k) /\ Cleared(k) /\ faults \in Nat /\ faults' \in Nat
    BY <1>5 DEF IInv, TypeOK
  <2>2. CASE k = j
    BY <1>1, <1>4, <1>5, <2>1, <2>2 DEF RowOf, Reaped, Cleared, Alive
  <2>3. CASE k # j
    BY <1>1, <1>4, <1>5, <2>1, <2>3 DEF RowOf, Reaped, Cleared, Alive
  <2> QED
    BY <2>2, <2>3
<1>10. ASSUME NEW d \in Clients PROVE Told(d)'
  <2>1. Told(d)
    BY DEF IInv
  <2> QED
    BY <1>1, <1>3, <1>4, <1>5, <2>1 DEF Told, Observes
<1> QED
  BY <1>6, <1>7, <1>8, <1>9, <1>10 DEF IInv

LEMMA DisconnectIInv == ASSUME IInv, NEW c \in Clients, Disconnect(c) PROVE IInv'
<1> USE JobsAssumption
<1> DEFINE j == Observes(c)
<1>1. /\ client[c].at = "starting" /\ j \in Jobs /\ job[j].at = "registered" /\ Goes(j, "lost")
      /\ UNCHANGED <<registry, row, reaper, cancel, late, mounted, faults, crashes>>
  BY DEF Disconnect, IInv, Starting
<1>2. client' = [client EXCEPT ![c] = [client[c] EXCEPT !.at = "gone", !.job = None]]
  BY DEF Disconnect, IInv, TypeOK
<1>3. /\ client' \in [Clients -> Client]
      /\ client'[c].at = "gone" /\ client'[c].told = client[c].told
      /\ \A d \in Clients : d # c => client'[d] = client[d]
  BY <1>1, <1>2 DEF IInv, TypeOK, Client
<1>4. client[c].told = None
  BY <1>1 DEF IInv, Told
<1> HIDE DEF j
<1>5. /\ job' \in [Jobs -> Job] /\ job'[j].at = "lost"
      /\ \A k \in Jobs : /\ k # j => job'[k].at = job[k].at
                         /\ job'[k].ws = job[k].ws /\ job'[k].outcome = job[k].outcome
  BY <1>1, GoesFields DEF IInv, Stages
<1>6. TypeOK'
  BY <1>1, <1>3, <1>5 DEF IInv, TypeOK
<1>7. Owned'
  BY <1>1, <1>5 DEF IInv, Owned, Held
<1>8. Starting'
  <2>1. \A d \in Clients : d # c /\ client[d].at = "starting" => Observes(d) # j
    BY <1>1 DEF IInv, Starting, j
  <2> QED
    BY <1>1, <1>3, <1>5, <2>1 DEF IInv, Starting, Observes
<1>9. ASSUME NEW k \in Jobs PROVE (RowOf(k) /\ Reaped(k) /\ Cleared(k))'
  <2>1. RowOf(k) /\ Reaped(k) /\ Cleared(k)
    BY DEF IInv
  <2>2. CASE k = j
    BY <1>1, <1>5, <2>1, <2>2 DEF RowOf, Reaped, Cleared, Alive
  <2>3. CASE k # j
    BY <1>1, <1>5, <2>1, <2>3 DEF RowOf, Reaped, Cleared, Alive
  <2> QED
    BY <2>2, <2>3
<1>10. ASSUME NEW d \in Clients PROVE Told(d)'
  <2>1. Told(d)
    BY DEF IInv
  <2> QED
    BY <1>1, <1>3, <1>4, <1>5, <2>1 DEF Told, Observes
<1> QED
  BY <1>6, <1>7, <1>8, <1>9, <1>10 DEF IInv

(* The steps of a task. *)
LEMMA WorkIInv == ASSUME IInv, NEW j \in Jobs, Work(j) PROVE IInv'
<1> USE JobsAssumption
<1>1. PICK o \in Outcomes :
        job' = [job EXCEPT ![j].at = "finishing", ![j].outcome = o, ![j].token = FALSE]
  BY DEF Work
<1>2. /\ job[j].at = "working" /\ mounted \subseteq mounted' /\ mounted' \subseteq Workspaces
      /\ UNCHANGED <<registry, row, client, reaper, cancel, late, faults, crashes>>
  BY DEF Work, IInv, TypeOK, Job
<1>3. /\ job' \in [Jobs -> Job] /\ job'[j].at = "finishing" /\ job'[j].ws = job[j].ws
      /\ \A k \in Jobs : k # j => job'[k] = job[k]
  <2>1. job \in [Jobs -> Job] /\ job[j] \in Job
    BY DEF IInv, TypeOK
  <2> DEFINE g == [job[j] EXCEPT !.at = "finishing", !.outcome = o, !.token = FALSE]
  <2>2. g \in Job /\ g.at = "finishing" /\ g.ws = job[j].ws
    BY <1>1, <2>1 DEF Job, Stages
  <2>3. job' = [job EXCEPT ![j] = g]
    BY <1>1, <2>1
  <2> HIDE DEF g
  <2> QED
    BY <2>1, <2>2, <2>3
<1>4. TypeOK'
  BY <1>2, <1>3 DEF IInv, TypeOK
<1>5. Owned' /\ Starting'
  BY <1>2, <1>3 DEF IInv, Owned, Held, Starting, Observes
<1>6. ASSUME NEW k \in Jobs PROVE (RowOf(k) /\ Reaped(k) /\ Cleared(k))'
  <2>1. RowOf(k) /\ Reaped(k) /\ Cleared(k)
    BY DEF IInv
  <2>2. CASE k = j
    BY <1>2, <1>3, <2>1, <2>2 DEF RowOf, Reaped, Cleared, Alive
  <2>3. CASE k # j
    BY <1>2, <1>3, <2>1, <2>3 DEF RowOf, Reaped, Cleared, Alive
  <2> QED
    BY <2>2, <2>3
<1>7. ASSUME NEW d \in Clients PROVE Told(d)'
  <2>1. Told(d)
    BY DEF IInv
  <2> QED
    BY <1>2, <1>3, <2>1 DEF Told, Observes
<1> QED
  BY <1>4, <1>5, <1>6, <1>7 DEF IInv

LEMMA FinishIInv == ASSUME IInv, NEW j \in Jobs, Finish(j) PROVE IInv'
<1> USE JobsAssumption
<1>1. /\ job[j].at = "finishing" /\ Writes(j, Settled(j, job[j].outcome)) /\ Goes(j, "removing")
      /\ UNCHANGED <<registry, client, reaper, cancel, late, mounted, crashes>>
  BY DEF Finish
<1>2. RowOf(j) /\ Reaped(j)
  BY DEF IInv
<1>3. /\ row[j] \in {None, "running", "interrupted"} /\ (row[j] # None => job[j].ws \in mounted)
      /\ (row[j] = "interrupted" => j \in late) /\ job[j].outcome \in Outcomes \cup {None}
  BY <1>1, <1>2 DEF RowOf, Reaped, Alive, IInv, TypeOK, Job
<1>4. Settled(j, job[j].outcome) \in Statuses
  BY <1>3 DEF Settled, Statuses
<1>5. /\ job' \in [Jobs -> Job] /\ job'[j].at = "removing"
      /\ \A k \in Jobs : /\ k # j => job'[k].at = job[k].at
                         /\ job'[k].ws = job[k].ws /\ job'[k].outcome = job[k].outcome
  BY <1>1, GoesFields DEF IInv, Stages
<1>6. /\ row' \in [Jobs -> Statuses] /\ faults' \in 0 .. MaxFaults
      /\ faults' = 0 => faults = 0 /\ (row'[j] = Settled(j, job[j].outcome) \/ job[j].ws \notin mounted)
      /\ faults > 0 => faults' > 0
      /\ row'[j] \in {row[j], Settled(j, job[j].outcome)} /\ (row'[j] # row[j] => job[j].ws \in mounted)
      /\ \A k \in Jobs : k # j => row'[k] = row[k]
  BY <1>1, <1>4, WritesFields DEF IInv
<1>7. TypeOK'
  BY <1>1, <1>5, <1>6 DEF IInv, TypeOK
<1>8. Owned' /\ Starting'
  BY <1>1, <1>5 DEF IInv, Owned, Held, Starting, Observes
<1>9. ASSUME NEW k \in Jobs PROVE (RowOf(k) /\ Reaped(k) /\ Cleared(k))'
  <2>1. RowOf(k) /\ Reaped(k) /\ Cleared(k) /\ faults \in Nat /\ faults' \in Nat
    BY <1>6 DEF IInv, TypeOK
  <2>2. CASE k = j
    <3>1. /\ row'[j] \in {None, "interrupted", "running"} \cup Outcomes
          /\ row'[j] = "interrupted" => j \in late
          /\ row'[j] = "done" => job[j].outcome = "done"
          /\ job[j].outcome = "done" /\ faults' = 0 /\ row'[j] # None => row'[j] \in {"done", "interrupted"}
      BY <1>3, <1>6 DEF Settled, Outcomes
    <3> QED
      BY <1>1, <1>5, <2>1, <2>2, <3>1 DEF RowOf, Reaped, Cleared, Alive, Outcomes
  <2>3. CASE k # j
    BY <1>1, <1>5, <1>6, <2>1, <2>3 DEF RowOf, Reaped, Cleared, Alive
  <2> QED
    BY <2>2, <2>3
<1>10. ASSUME NEW d \in Clients PROVE Told(d)'
  <2>1. Told(d) /\ faults \in Nat /\ faults' \in Nat
    BY <1>6 DEF IInv, TypeOK
  <2> QED
    BY <1>1, <1>5, <1>6, <2>1 DEF Told, Observes
<1> QED
  BY <1>7, <1>8, <1>9, <1>10 DEF IInv

LEMMA RemoveIInv == ASSUME IInv, NEW j \in Jobs, Remove(j) PROVE IInv'
<1> USE JobsAssumption
<1>1. /\ job[j].at = "removing" /\ Goes(j, "over")
      /\ registry' = [registry EXCEPT ![job[j].ws] = None]
      /\ UNCHANGED <<row, client, reaper, cancel, late, mounted, faults, crashes>>
  BY DEF Remove
<1>2. /\ job' \in [Jobs -> Job] /\ job'[j].at = "over"
      /\ \A k \in Jobs : /\ k # j => job'[k].at = job[k].at
                         /\ job'[k].ws = job[k].ws /\ job'[k].outcome = job[k].outcome
  BY <1>1, GoesFields DEF IInv, Stages
<1>3. TypeOK'
  BY <1>1, <1>2 DEF IInv, TypeOK
<1>4. Owned'
  <2> SUFFICES ASSUME NEW k \in Jobs, job'[k].at \in Held PROVE registry'[job'[k].ws] = k
    BY DEF Owned
  <2>1. k # j /\ job[k].at \in Held
    BY <1>2 DEF Held
  <2>2. registry[job[k].ws] = k /\ registry[job[j].ws] = j
    BY <1>1, <2>1 DEF IInv, Owned, Held
  <2>3. job[k].ws \in Workspaces
    BY DEF IInv, TypeOK, Job
  <2> QED
    BY <1>1, <1>2, <2>1, <2>2, <2>3 DEF IInv, TypeOK
<1>5. Starting'
  BY <1>1, <1>2 DEF IInv, Starting, Observes
<1>6. ASSUME NEW k \in Jobs PROVE (RowOf(k) /\ Reaped(k) /\ Cleared(k))'
  <2>1. RowOf(k) /\ Reaped(k) /\ Cleared(k)
    BY DEF IInv
  <2>2. CASE k = j
    BY <1>1, <1>2, <2>1, <2>2 DEF RowOf, Reaped, Cleared, Alive
  <2>3. CASE k # j
    BY <1>1, <1>2, <2>1, <2>3 DEF RowOf, Reaped, Cleared, Alive
  <2> QED
    BY <2>2, <2>3
<1>7. ASSUME NEW d \in Clients PROVE Told(d)'
  <2>1. Told(d)
    BY DEF IInv
  <2> QED
    BY <1>1, <1>2, <2>1 DEF Told, Observes
<1> QED
  BY <1>3, <1>4, <1>5, <1>6, <1>7 DEF IInv

LEMMA TellIInv == ASSUME IInv, NEW c \in Clients, Tell(c) PROVE IInv'
<1> USE JobsAssumption
<1> DEFINE j == Observes(c)
           t == IF job[j].ws \in mounted THEN Verdict(j) ELSE "assumed"
<1>1. /\ client[c].at = "watching" /\ job[j].at = "over" /\ j \in Jobs
      /\ UNCHANGED <<registry, row, job, reaper, cancel, late, mounted, faults, crashes>>
  BY DEF Tell, IInv, Told
<1>2. client' = [client EXCEPT ![c] = [client[c] EXCEPT !.at = "told", !.told = t]]
  BY DEF Tell, IInv, TypeOK
<1>3. /\ t \in {"done", "cancelled", "assumed", "failed"}
      /\ t = "done" => row[j] = "done"
      /\ t = "failed" => row[j] \notin {"done", None}
  BY DEF Verdict
<1>4. RowOf(j) /\ faults \in Nat
  BY <1>1 DEF IInv, TypeOK
<1> HIDE DEF t
<1>5. /\ client' \in [Clients -> Client]
      /\ client'[c].at = "told" /\ client'[c].job = j /\ client'[c].told = t
      /\ \A d \in Clients : d # c => client'[d] = client[d]
  BY <1>1, <1>2, <1>3 DEF IInv, TypeOK, Client, Outcomes, Observes
<1> HIDE DEF j
<1>6. TypeOK'
  BY <1>1, <1>5 DEF IInv, TypeOK
<1>7. Owned' /\ Starting'
  BY <1>1, <1>5 DEF IInv, Owned, Starting, Observes
<1>8. ASSUME NEW k \in Jobs PROVE (RowOf(k) /\ Reaped(k) /\ Cleared(k))'
  BY <1>1 DEF IInv, RowOf, Reaped, Cleared, Alive
<1>9. ASSUME NEW d \in Clients PROVE Told(d)'
  <2>1. CASE d = c
    BY <1>1, <1>3, <1>4, <1>5, <2>1 DEF RowOf, Told, Observes
  <2>2. CASE d # c
    BY <1>1, <1>5, <2>2 DEF IInv, Told, Observes
  <2> QED
    BY <2>1, <2>2
<1> QED
  BY <1>6, <1>7, <1>8, <1>9 DEF IInv

(* The reaper. *)
LEMMA LookAtRegistryIInv == ASSUME IInv, LookAtRegistry PROVE IInv'
<1> USE JobsAssumption
<1>1. /\ reaper' = [at |-> "sweep", live |-> Registered] /\ Registered \subseteq Jobs
      /\ UNCHANGED <<registry, row, job, client, cancel, late, mounted, faults, crashes>>
  BY DEF LookAtRegistry, Registered, IInv, TypeOK
<1>2. TypeOK'
  BY <1>1 DEF IInv, TypeOK
<1>3. Owned' /\ Starting'
  BY <1>1 DEF IInv, Owned, Starting, Observes
<1>4. ASSUME NEW k \in Jobs PROVE (RowOf(k) /\ Reaped(k) /\ Cleared(k))'
  <2>1. Alive(k) => k \in Registered
    BY DEF IInv, Owned, Alive, Held, Registered, TypeOK, Job
  <2> QED
    BY <1>1, <2>1 DEF IInv, RowOf, Reaped, Cleared, Alive
<1>5. ASSUME NEW d \in Clients PROVE Told(d)'
  BY <1>1 DEF IInv, Told, Observes
<1> QED
  BY <1>2, <1>3, <1>4, <1>5 DEF IInv

LEMMA SweepIInv == ASSUME IInv, Sweep PROVE IInv'
<1> USE JobsAssumption
<1>1. PICK kept \in SUBSET Orphans :
        /\ faults' = faults + (IF kept = {} THEN 0 ELSE 1) /\ faults' <= MaxFaults
        /\ row' = [j \in Jobs |-> IF j \in Orphans \ kept THEN "interrupted" ELSE row[j]]
  BY DEF Sweep
<1>2. /\ reaper.at = "sweep" /\ late' = {j \in late : row'[j] = "interrupted"} /\ reaper' = NoSweep
      /\ UNCHANGED <<registry, job, client, cancel, mounted, crashes>>
  BY DEF Sweep
<1>3. faults \in Nat /\ faults' \in 0 .. MaxFaults /\ faults <= faults'
  BY <1>1 DEF IInv, TypeOK
<1>4. row' \in [Jobs -> Statuses]
  BY <1>1 DEF IInv, TypeOK, Statuses
<1>5. /\ reaper' \in [at : {"idle", "sweep"}, live : SUBSET Jobs] /\ reaper'.at = "idle"
  BY <1>2 DEF NoSweep
<1>6. TypeOK'
  BY <1>2, <1>3, <1>4, <1>5 DEF IInv, TypeOK
<1>7. Owned' /\ Starting'
  BY <1>2 DEF IInv, Owned, Starting, Observes
<1>8. \A k \in Jobs : \/ row'[k] = row[k]
                      \/ /\ row[k] = "running" /\ row'[k] = "interrupted"
                         /\ k \notin reaper.live /\ job[k].ws \in mounted
  BY <1>1 DEF Orphans
<1>9. ASSUME NEW k \in Jobs PROVE (RowOf(k) /\ Reaped(k) /\ Cleared(k))'
  <2>1. RowOf(k) /\ Reaped(k) /\ Cleared(k)
    BY DEF IInv
  <2>2. CASE row'[k] = row[k]
    BY <1>2, <1>3, <1>5, <2>1, <2>2 DEF RowOf, Reaped, Cleared, Alive
  <2>3. CASE /\ row[k] = "running" /\ row'[k] = "interrupted"
             /\ k \notin reaper.live /\ job[k].ws \in mounted
    BY <1>2, <1>3, <1>5, <2>1, <2>3 DEF RowOf, Reaped, Cleared, Alive
  <2> QED
    BY <1>8, <2>2, <2>3
<1>10. ASSUME NEW d \in Clients PROVE Told(d)'
  <2>1. Told(d)
    BY DEF IInv
  <2> QED
    BY <1>2, <1>3, <1>8, <2>1 DEF Told, Observes
<1> QED
  BY <1>6, <1>7, <1>9, <1>10 DEF IInv

(* The cancel request, and the steps that only trip tokens. *)
LEMMA TripFields ==
  ASSUME TypeOK, NEW js, Trip(js)
  PROVE  /\ job' \in [Jobs -> Job]
         /\ \A j \in Jobs : /\ job'[j].at = job[j].at /\ job'[j].ws = job[j].ws
                            /\ job'[j].outcome = job[j].outcome
<1>1. job \in [Jobs -> Job]
  BY DEF TypeOK
<1>2. ASSUME NEW j \in Jobs
      PROVE  /\ job'[j] \in Job /\ job'[j].at = job[j].at /\ job'[j].ws = job[j].ws
             /\ job'[j].outcome = job[j].outcome
  <2>1. job[j] \in Job /\ (job'[j] = [job[j] EXCEPT !.token = TRUE] \/ job'[j] = job[j])
    BY <1>1 DEF Trip
  <2> QED
    BY <2>1 DEF Job
<1> QED
  BY <1>2 DEF Trip

LEMMA TokensOnlyIInv ==
  ASSUME IInv, job' \in [Jobs -> Job],
         \A j \in Jobs : /\ job'[j].at = job[j].at /\ job'[j].ws = job[j].ws
                         /\ job'[j].outcome = job[j].outcome,
         cancel' \in [at : {"idle", "list", "match", "clear"}, ws : Workspaces,
                      live : SUBSET Jobs, running : SUBSET Jobs],
         \A j \in Jobs : /\ cancel'.at \in {"match", "clear"} /\ j \in cancel'.running =>
                               job[j].at \notin {"new", "registered"}
                         /\ cancel'.at = "clear" /\ j \in cancel'.running => ~Alive(j),
         UNCHANGED <<registry, row, client, reaper, late, mounted, faults, crashes>>
  PROVE  IInv'
<1>1. TypeOK'
  BY DEF IInv, TypeOK
<1>2. Owned' /\ Starting'
  BY DEF IInv, Owned, Starting, Observes
<1>3. ASSUME NEW k \in Jobs PROVE (RowOf(k) /\ Reaped(k) /\ Cleared(k))'
  <2>1. RowOf(k) /\ Reaped(k) /\ Cleared(k)
    BY DEF IInv
  <2> QED
    BY <2>1 DEF RowOf, Reaped, Cleared, Alive
<1>4. ASSUME NEW d \in Clients PROVE Told(d)'
  <2>1. Told(d)
    BY DEF IInv
  <2> QED
    BY <2>1, JobsAssumption DEF Told, Observes
<1> QED
  BY <1>1, <1>2, <1>3, <1>4 DEF IInv

LEMMA UnownedFields ==
  ASSUME TypeOK, NEW js \in SUBSET Jobs
  PROVE  /\ Unowned(js) \in [at : {"idle", "list", "match", "clear"}, ws : Workspaces,
                             live : SUBSET Jobs, running : SUBSET Jobs]
         /\ Unowned(js).at # "match" /\ Unowned(js).running = js
BY JobsAssumption DEF TypeOK, Unowned, NoCancel

LEMMA TimeOutIInv == ASSUME IInv, NEW j \in Jobs, TimeOut(j) PROVE IInv'
<1>1. /\ job' = [job EXCEPT ![j].token = TRUE]
      /\ UNCHANGED <<registry, row, client, reaper, cancel, late, mounted, faults, crashes>>
  BY DEF TimeOut
<1>2. /\ job' \in [Jobs -> Job]
      /\ \A k \in Jobs : /\ job'[k].at = job[k].at /\ job'[k].ws = job[k].ws
                         /\ job'[k].outcome = job[k].outcome
  BY <1>1 DEF IInv, TypeOK, Job
<1> QED
  BY <1>1, <1>2, TokensOnlyIInv DEF IInv, TypeOK, Cleared

LEMMA CancelEntryIInv == ASSUME IInv, NEW w \in Workspaces, CancelEntry(w) PROVE IInv'
<1>1. /\ Trip({registry[w]})
      /\ cancel' = [at |-> "list", ws |-> w, live |-> {registry[w]} \ {None}, running |-> {}]
      /\ UNCHANGED <<registry, row, client, reaper, late, mounted, faults, crashes>>
  BY DEF CancelEntry
<1>2. {registry[w]} \ {None} \in SUBSET Jobs
  BY DEF IInv, TypeOK
<1> QED
  BY <1>1, <1>2, TripFields, TokensOnlyIInv DEF IInv

LEMMA ListRunningIInv == ASSUME IInv, ListRunning PROVE IInv'
<1> DEFINE js == {j \in Jobs : row[j] = "running" /\ job[j].ws = cancel.ws /\ cancel.ws \in mounted}
<1>1. /\ cancel' = [cancel EXCEPT !.at = "match", !.running = js]
      /\ UNCHANGED <<registry, row, job, client, reaper, late, mounted, faults, crashes>>
  BY DEF ListRunning
<1>2. js \in SUBSET Jobs /\ \A j \in js : job[j].at \notin {"new", "registered"}
  BY JobsAssumption DEF IInv, RowOf
<1> HIDE DEF js
<1>3. /\ cancel' \in [at : {"idle", "list", "match", "clear"}, ws : Workspaces,
                      live : SUBSET Jobs, running : SUBSET Jobs]
      /\ cancel'.at = "match" /\ cancel'.running = js
  BY <1>1, <1>2 DEF IInv, TypeOK
<1> QED
  BY <1>1, <1>2, <1>3, TokensOnlyIInv DEF IInv, TypeOK

LEMMA MatchRegistryIInv == ASSUME IInv, MatchRegistry PROVE IInv'
<1> DEFINE js == cancel.running \ (cancel.live \cup Registered)
<1>1. /\ cancel.at = "match" /\ Trip(cancel.running \cap Registered) /\ cancel' = Unowned(js)
      /\ UNCHANGED <<registry, row, client, reaper, late, mounted, faults, crashes>>
  BY DEF MatchRegistry
<1>2. js \in SUBSET Jobs /\ js \subseteq cancel.running
  BY DEF IInv, TypeOK
<1>3. ASSUME NEW j \in Jobs, j \in js PROVE job[j].at \notin {"new", "registered"} /\ ~Alive(j)
  <2>1. job[j].at \notin {"new", "registered"}
    BY <1>1, <1>2, <1>3 DEF IInv, Cleared
  <2>2. registry[job[j].ws] # j
    BY <1>3, JobsAssumption DEF Registered, IInv, TypeOK, Job
  <2> QED
    BY <2>1, <2>2 DEF IInv, Owned, Held, Alive
<1> HIDE DEF js
<1>4. /\ cancel' \in [at : {"idle", "list", "match", "clear"}, ws : Workspaces,
                      live : SUBSET Jobs, running : SUBSET Jobs]
      /\ cancel'.running = js
  BY <1>1, <1>2, UnownedFields DEF IInv
<1> QED
  BY <1>1, <1>3, <1>4, TripFields, TokensOnlyIInv DEF IInv

LEMMA ClearRowIInv == ASSUME IInv, NEW j \in Jobs, ClearRow(j) PROVE IInv'
<1> USE JobsAssumption
<1>1. /\ cancel.at = "clear" /\ j \in cancel.running /\ Writes(j, Settled(j, "cleared"))
      /\ cancel' = Unowned(cancel.running \ {j})
      /\ UNCHANGED <<registry, job, client, reaper, late, mounted, crashes>>
  BY DEF ClearRow
<1>2. ~Alive(j) /\ job[j].at \notin {"new", "registered"} /\ RowOf(j) /\ Reaped(j)
  BY <1>1 DEF IInv, Cleared
<1>3. Settled(j, "cleared") \in Statuses
  BY DEF Settled, Statuses, IInv, TypeOK
<1>4. /\ row' \in [Jobs -> Statuses] /\ faults' \in 0 .. MaxFaults
      /\ faults' = 0 => faults = 0
      /\ faults > 0 => faults' > 0
      /\ row'[j] \in {row[j], Settled(j, "cleared")}
      /\ \A k \in Jobs : k # j => row'[k] = row[k]
  BY <1>1, <1>3, WritesFields DEF IInv
<1>5. row'[j] = row[j] \/ (row[j] = "running" /\ row'[j] = "cleared")
  BY <1>4 DEF Settled
<1>6. /\ cancel' \in [at : {"idle", "list", "match", "clear"}, ws : Workspaces,
                      live : SUBSET Jobs, running : SUBSET Jobs]
      /\ cancel'.at # "match" /\ cancel'.running = cancel.running \ {j}
  <2>1. cancel.running \ {j} \in SUBSET Jobs
    BY DEF IInv, TypeOK
  <2> QED
    BY <1>1, <2>1, UnownedFields DEF IInv
<1>7. TypeOK'
  BY <1>1, <1>4, <1>6 DEF IInv, TypeOK
<1>8. Owned' /\ Starting'
  BY <1>1 DEF IInv, Owned, Starting, Observes
<1>9. ASSUME NEW k \in Jobs PROVE (RowOf(k) /\ Reaped(k) /\ Cleared(k))'
  <2>1. RowOf(k) /\ Reaped(k) /\ Cleared(k) /\ faults \in Nat /\ faults' \in Nat
    BY <1>4 DEF IInv, TypeOK
  <2>2. CASE k = j
    BY <1>1, <1>2, <1>4, <1>5, <1>6, <2>1, <2>2 DEF RowOf, Reaped, Cleared, Alive
  <2>3. CASE k # j
    BY <1>1, <1>4, <1>6, <2>1, <2>3 DEF RowOf, Reaped, Cleared, Alive
  <2> QED
    BY <2>2, <2>3
<1>10. ASSUME NEW d \in Clients PROVE Told(d)'
  <2>1. Told(d) /\ faults \in Nat /\ faults' \in Nat
    BY <1>4 DEF IInv, TypeOK
  <2> QED
    BY <1>1, <1>4, <1>5, <2>1 DEF Told, Observes
<1> QED
  BY <1>7, <1>8, <1>9, <1>10 DEF IInv

(* Mounting and crashing. *)
LEMMA MountIInv == ASSUME IInv, NEW w \in Workspaces, Mount(w) PROVE IInv'
<1>1. /\ mounted' = mounted \cup {w}
      /\ UNCHANGED <<registry, row, job, client, reaper, cancel, late, faults, crashes>>
  BY DEF Mount
<1>2. TypeOK'
  BY <1>1 DEF IInv, TypeOK
<1>3. Owned' /\ Starting'
  BY <1>1 DEF IInv, Owned, Starting, Observes
<1>4. ASSUME NEW k \in Jobs PROVE (RowOf(k) /\ Reaped(k) /\ Cleared(k))'
  BY <1>1 DEF IInv, RowOf, Reaped, Cleared, Alive
<1>5. ASSUME NEW d \in Clients PROVE Told(d)'
  BY <1>1 DEF IInv, Told, Observes
<1> QED
  BY <1>2, <1>3, <1>4, <1>5 DEF IInv

LEMMA CrashIInv == ASSUME IInv, Crash PROVE IInv'
<1> USE JobsAssumption
<1>1. /\ registry' = [w \in Workspaces |-> None]
      /\ reaper' = NoSweep /\ cancel' = NoCancel /\ mounted' = {}
      /\ late' = {j \in late : row[j] = "interrupted"}
      /\ crashes < CrashBudget /\ crashes' = crashes + 1 /\ UNCHANGED <<row, faults>>
  BY DEF Crash
<1>2. /\ job' \in [Jobs -> Job]
      /\ \A j \in Jobs : \/ job[j].at \in {"new", "over"} /\ job'[j] = job[j]
                         \/ job[j].at \notin {"new", "over"} /\ job'[j].at = "dead"
  <2>1. job \in [Jobs -> Job]
    BY DEF IInv, TypeOK
  <2>2. ASSUME NEW j \in Jobs
        PROVE  /\ job'[j] \in Job
               /\ \/ job[j].at \in {"new", "over"} /\ job'[j] = job[j]
                  \/ job[j].at \notin {"new", "over"} /\ job'[j].at = "dead"
    <3>1. job[j] \in Job /\ job'[j] = IF job[j].at \in {"new", "over"} THEN job[j]
                               ELSE [job[j] EXCEPT !.at = "dead", !.token = FALSE, !.outcome = None]
      BY <2>1 DEF Crash
    <3> QED
      BY <3>1 DEF Job, Stages
  <2> QED
    BY <2>2 DEF Crash
<1>3. /\ client' \in [Clients -> Client]
      /\ \A c \in Clients : \/ client[c].at \notin {"starting", "watching"} /\ client'[c] = client[c]
                            \/ client[c].at \in {"starting", "watching"} /\ client'[c].at = "gone"
                               /\ client'[c].told = client[c].told
  <2>1. client \in [Clients -> Client]
    BY DEF IInv, TypeOK
  <2>2. ASSUME NEW c \in Clients
        PROVE  /\ client'[c] \in Client
               /\ \/ client[c].at \notin {"starting", "watching"} /\ client'[c] = client[c]
                  \/ client[c].at \in {"starting", "watching"} /\ client'[c].at = "gone"
                     /\ client'[c].told = client[c].told
    <3>1. client[c] \in Client /\ client'[c] = IF client[c].at \in {"starting", "watching"}
                               THEN [client[c] EXCEPT !.at = "gone", !.job = None] ELSE client[c]
      BY <2>1 DEF Crash
    <3> QED
      BY <3>1 DEF Client
  <2> QED
    BY <2>2 DEF Crash
<1>4. /\ reaper' \in [at : {"idle", "sweep"}, live : SUBSET Jobs] /\ reaper'.at = "idle"
      /\ cancel' \in [at : {"idle", "list", "match", "clear"}, ws : Workspaces,
                      live : SUBSET Jobs, running : SUBSET Jobs] /\ cancel'.at = "idle"
  BY <1>1 DEF NoSweep, NoCancel
<1>5. TypeOK'
  BY <1>1, <1>2, <1>3, <1>4 DEF IInv, TypeOK
<1>6. Owned' /\ Starting'
  BY <1>2, <1>3 DEF IInv, Owned, Held, Starting, Observes
<1>7. ASSUME NEW k \in Jobs PROVE (RowOf(k) /\ Reaped(k) /\ Cleared(k))'
  <2>1. RowOf(k) /\ Reaped(k) /\ Cleared(k)
    BY DEF IInv
  <2> QED
    BY <1>1, <1>2, <1>4, <2>1 DEF RowOf, Reaped, Cleared, Alive
<1>8. ASSUME NEW d \in Clients PROVE Told(d)'
  <2>1. Told(d)
    BY DEF IInv
  <2> QED
    BY <1>1, <1>2, <1>3, <2>1 DEF Told, Observes
<1> QED
  BY <1>5, <1>6, <1>7, <1>8 DEF IInv
-----------------------------------------------------------------------------
LEMMA StepIInv == IInv /\ [Next]_vars => IInv'
<1> SUFFICES ASSUME IInv, [Next]_vars PROVE IInv'
  OBVIOUS
<1>1. CASE UNCHANGED vars
  <2>1. UNCHANGED <<registry, row, job, client, reaper, cancel, late, mounted, faults, crashes>>
    BY <1>1 DEF vars, memory
  <2> QED
    BY <2>1 DEF IInv, TypeOK, Owned, Starting, RowOf, Reaped, Cleared, Told, Alive, Observes
<1>2. ASSUME NEW c \in Clients,
             \/ \E w \in Workspaces : Attach(c, w) \/ Register(c, w)
             \/ InsertRow(c) \/ Disconnect(c) \/ Tell(c)
      PROVE  IInv'
  BY <1>2, AttachIInv, RegisterIInv, InsertRowIInv, DisconnectIInv, TellIInv
<1>3. ASSUME NEW j \in Jobs, Task(j) \/ TimeOut(j) \/ ClearRow(j) PROVE IInv'
  BY <1>3, WorkIInv, FinishIInv, RemoveIInv, TimeOutIInv, ClearRowIInv DEF Task
<1>4. CASE LookAtRegistry \/ Sweep
  BY <1>4, LookAtRegistryIInv, SweepIInv
<1>5. ASSUME NEW w \in Workspaces, CancelEntry(w) \/ Mount(w) PROVE IInv'
  BY <1>5, CancelEntryIInv, MountIInv
<1>6. CASE ListRunning \/ MatchRegistry
  BY <1>6, ListRunningIInv, MatchRegistryIInv
<1>7. CASE Crash
  BY <1>7, CrashIInv
<1> QED
  BY <1>1, <1>2, <1>3, <1>4, <1>5, <1>6, <1>7 DEF Next

(* Two compiles of a workspace never run at once: the entry of the one is registered until
   its task has ended, and nothing but that task, a crash included, removes it. *)
THEOREM OneCompilePerWorkspace == Spec => [](TypeOK /\ OnePerWorkspace)
<1>1. IInv => TypeOK /\ OnePerWorkspace
  BY DEF IInv, Owned, Held, OnePerWorkspace, Alive
<1> QED
  BY <1>1, InitIInv, StepIInv, PTL DEF Spec

(* The rows and the observers are told the truth: a cancel request looks at the registry
   after the rows, so a row it clears has no task, and the reaper looks before, so that it
   can only be wrong about a compile registered since; what an observer is told is then
   what the task's last write left. *)
THEOREM RowsAreTruthful == Spec => []Truthful
<1>1. IInv => Truthful
  <2> SUFFICES ASSUME IInv PROVE Truthful
    OBVIOUS
  <2>1. \A j \in Jobs : row[j] \in {"interrupted", "cleared"} => ~Alive(j) \/ j \in late
    BY DEF IInv, Reaped, Cleared
  <2>2. \A j \in Jobs : row[j] = "cleared" => ~Alive(j)
    BY DEF IInv, Cleared
  <2>3. \A c \in Clients : Told(c)
    BY DEF IInv
  <2> QED
    BY <2>1, <2>2, <2>3 DEF Truthful, Told
<1> QED
  BY <1>1, InitIInv, StepIInv, PTL DEF Spec
==============================================================================
