----------------------------- MODULE CompileJobs -----------------------------
(***************************************************************************)
(* The compiles of a server (thinkingroot-serve): the registry that lets   *)
(* one compile run per workspace, the durable row of every compile, the    *)
(* detached task that does the work, the clients that observe it, cancel   *)
(* requests, the reaper of orphaned rows, crashes and restarts.            *)
(*                                                                         *)
(* What the task does is CompilePipeline; here it only ends somehow. The   *)
(* row keeps its status; phase and counts are left out.                    *)
(***************************************************************************)
EXTENDS Naturals

CONSTANTS
  Workspaces,  \* resolved workspace keys
  Jobs,        \* ids of compiles
  Clients,     \* requests to /compile/stream
  None,        \* no compile, no row
  MaxFaults,   \* bound on storage errors
  CrashBudget  \* bound on crashes

ASSUME JobsAssumption ==
  /\ Workspaces # {} /\ None \notin Jobs
  /\ None \notin {"running", "interrupted", "cleared", "done", "failed", "cancelled", "assumed"}
  /\ MaxFaults \in Nat /\ CrashBudget \in Nat

VARIABLES
  registry, \* active_compiles: workspace -> its compile
  row,      \* compile_jobs: compile -> status
  job,      \* compile -> its task
  client,   \* request -> what its client observes
  reaper,   \* the sweep in progress
  cancel,   \* the cancel request in progress
  late,     \* compiles registered between the reaper's look at the registry and its sweep;
            \* after the sweep, those of them that it interrupted
  mounted,  \* workspaces the engine has mounted
  faults, crashes

memory == <<registry, job, client, reaper, cancel, mounted>>
vars   == <<memory, row, late, faults, crashes>>

Outcomes == {"done", "failed", "cancelled"}
Statuses == {None, "running", "interrupted", "cleared"} \cup Outcomes  \* "cleared": cancelled, no task
Stages   == {"new", "registered", "working", "finishing", "removing", "over", "lost", "dead"}
Job      == [at : Stages, ws : Workspaces, token : BOOLEAN, outcome : Outcomes \cup {None}]
Client   == [at : {"out", "starting", "watching", "told", "gone"}, job : Jobs \cup {None},
             told : Outcomes \cup {None, "assumed"}]

TypeOK ==
  /\ registry \in [Workspaces -> Jobs \cup {None}]
  /\ row \in [Jobs -> Statuses]
  /\ job \in [Jobs -> Job]
  /\ client \in [Clients -> Client]
  /\ reaper \in [at : {"idle", "sweep"}, live : SUBSET Jobs]
  /\ cancel \in [at : {"idle", "list", "match", "clear"}, ws : Workspaces,
                 live : SUBSET Jobs, running : SUBSET Jobs]
  /\ late \subseteq Jobs /\ mounted \subseteq Workspaces
  /\ faults \in 0 .. MaxFaults /\ crashes \in 0 .. CrashBudget

NoSweep  == [at |-> "idle", live |-> {}]
NoCancel == [at |-> "idle", ws |-> CHOOSE w \in Workspaces : TRUE, live |-> {}, running |-> {}]

Init ==
  /\ registry = [w \in Workspaces |-> None]
  /\ row = [j \in Jobs |-> None]
  /\ job = [j \in Jobs |-> [at |-> "new", ws |-> CHOOSE w \in Workspaces : TRUE,
                            token |-> FALSE, outcome |-> None]]
  /\ client = [c \in Clients |-> [at |-> "out", job |-> None, told |-> None]]
  /\ reaper = NoSweep /\ cancel = NoCancel /\ late = {}
  /\ mounted = {}
  /\ faults = 0 /\ crashes = 0

-----------------------------------------------------------------------------
Goes(j, at)  == job' = [job EXCEPT ![j].at = at]
Registered   == {registry[w] : w \in Workspaces} \ {None}
Observes(c)  == client[c].job

(* A write to the row of a compile: it fails when the workspace is not mounted or the
   store says no. A row that is terminal does not change. *)
Writes(j, status) ==
  \/ job[j].ws \in mounted /\ row' = [row EXCEPT ![j] = status] /\ UNCHANGED faults
  \/ job[j].ws \notin mounted /\ UNCHANGED <<row, faults>>
  \/ faults < MaxFaults /\ faults' = faults + 1 /\ UNCHANGED row
Settled(j, status) == IF row[j] = "running" THEN status ELSE row[j]

(* compile_stream, under the lock of the registry: attach to the compile of the workspace
   or register a new one. *)
Attach(c, w) ==
  /\ client[c].at = "out" /\ registry[w] # None
  /\ client' = [client EXCEPT ![c].at = "watching", ![c].job = registry[w]]
  /\ UNCHANGED <<registry, row, job, reaper, cancel, late, mounted, faults, crashes>>

FreshId == CHOOSE j \in Jobs : job[j].at = "new"

Register(c, w) ==
  LET j == FreshId IN
  /\ client[c].at = "out" /\ registry[w] = None /\ \E k \in Jobs : job[k].at = "new"
  /\ registry' = [registry EXCEPT ![w] = j]
  /\ job' = [job EXCEPT ![j].at = "registered", ![j].ws = w]
  /\ client' = [client EXCEPT ![c].at = "starting", ![c].job = j]
  /\ late' = IF reaper.at = "sweep" THEN late \cup {j} ELSE late
  /\ UNCHANGED <<row, reaper, cancel, mounted, faults, crashes>>

(* The durable row, best effort, then the detached task. *)
InsertRow(c) ==
  /\ client[c].at = "starting"
  /\ Writes(Observes(c), "running")
  /\ Goes(Observes(c), "working")
  /\ client' = [client EXCEPT ![c].at = "watching"]
  /\ UNCHANGED <<registry, reaper, cancel, late, mounted, crashes>>

(* The client goes away while its request waits to write the row: the request is dropped and
   the compile stays in the registry without a task. An observer that leaves later leaves
   everything as it is. *)
Disconnect(c) ==
  /\ client[c].at = "starting"
  /\ client' = [client EXCEPT ![c].at = "gone", ![c].job = None]
  /\ Goes(Observes(c), "lost")
  /\ UNCHANGED <<registry, row, reaper, cancel, late, mounted, faults, crashes>>

(* run_unified_compile in a task of its own, whose panic is a failure; success mounts the
   workspace if it can. *)
Work(j) ==
  /\ job[j].at = "working"
  /\ \E o \in Outcomes :
       /\ o = "cancelled" => job[j].token
       /\ job' = [job EXCEPT ![j].at = "finishing", ![j].outcome = o, ![j].token = FALSE]
       /\ mounted' \in {mounted} \cup (IF o = "done" THEN {mounted \cup {job[j].ws}} ELSE {})
  /\ UNCHANGED <<registry, row, client, reaper, cancel, late, faults, crashes>>

TimeOutFrees(j) ==  \* mutant: a compile that is out of time makes room before it has ended
  /\ job[j].at = "working" /\ ~job[j].token
  /\ job' = [job EXCEPT ![j].token = TRUE]
  /\ registry' = [registry EXCEPT ![job[j].ws] = None]
  /\ UNCHANGED <<row, client, reaper, cancel, late, mounted, faults, crashes>>
TimeOut(j) ==  \* TR_COMPILE_MAX_SECS
  /\ job[j].at = "working" /\ ~job[j].token
  /\ job' = [job EXCEPT ![j].token = TRUE]
  /\ UNCHANGED <<registry, row, client, reaper, cancel, late, mounted, faults, crashes>>

Finish(j) ==
  /\ job[j].at = "finishing"
  /\ Writes(j, Settled(j, job[j].outcome))
  /\ Goes(j, "removing")
  /\ UNCHANGED <<registry, client, reaper, cancel, late, mounted, crashes>>

(* "Remove from the registry LAST": the observers' channel closes with it. *)
Remove(j) ==
  /\ job[j].at = "removing"
  /\ registry' = [registry EXCEPT ![job[j].ws] = None]
  /\ Goes(j, "over")
  /\ UNCHANGED <<row, client, reaper, cancel, late, mounted, faults, crashes>>

(* The channel is closed: the client is told what the row says and, without a row or when
   it cannot be read, "done". *)
Verdict(j) == CASE row[j] = "done" -> "done"
                [] row[j] \in {"cancelled", "cleared"} -> "cancelled"
                [] row[j] = None -> "assumed"
                [] OTHER -> "failed"

Tell(c) ==
  /\ client[c].at = "watching" /\ job[Observes(c)].at = "over"
  /\ client' = [client EXCEPT ![c].at = "told", ![c].told =
                  IF job[Observes(c)].ws \in mounted THEN Verdict(Observes(c)) ELSE "assumed"]
  /\ UNCHANGED <<registry, row, job, reaper, cancel, late, mounted, faults, crashes>>

-----------------------------------------------------------------------------
(* CompileJobReaperTask: the ids in the registry, then a sweep over the rows of every
   mounted workspace; a write that fails leaves the row for the next sweep. *)
LookAtRegistry ==
  /\ reaper.at = "idle"
  /\ reaper' = [at |-> "sweep", live |-> Registered]
  /\ UNCHANGED <<registry, row, job, client, cancel, late, mounted, faults, crashes>>

OrphansOfDead == {j \in Jobs : row[j] = "running" /\ job[j].at = "dead" /\ job[j].ws \in mounted}  \* mutant: the host_pid comparison, with a pid that tells restarts apart
Orphans == {j \in Jobs : row[j] = "running" /\ j \notin reaper.live /\ job[j].ws \in mounted}

Sweep ==
  /\ reaper.at = "sweep"
  /\ \E kept \in SUBSET Orphans :
       /\ faults' = faults + (IF kept = {} THEN 0 ELSE 1) /\ faults' <= MaxFaults
       /\ row' = [j \in Jobs |-> IF j \in Orphans \ kept THEN "interrupted" ELSE row[j]]
  /\ late' = {j \in late : row'[j] = "interrupted"}
  /\ reaper' = NoSweep
  /\ UNCHANGED <<registry, job, client, cancel, mounted, crashes>>

(* cancel_compile_handler: the registry entry of the workspace, its running rows, those of
   them that have a registry entry, and the rows that have none. A token that no task reads
   any more is not tripped. *)
Trip(js) == job' = [j \in Jobs |-> IF j \in js /\ job[j].at \in {"registered", "working"}
                                   THEN [job[j] EXCEPT !.token = TRUE] ELSE job[j]]

CancelEntry(w) ==
  /\ cancel.at = "idle"
  /\ Trip({registry[w]})
  /\ cancel' = [at |-> "list", ws |-> w, live |-> {registry[w]} \ {None}, running |-> {}]
  /\ UNCHANGED <<registry, row, client, reaper, late, mounted, faults, crashes>>

ListRunning ==
  /\ cancel.at = "list"
  /\ cancel' = [cancel EXCEPT !.at = "match", !.running =
                  {j \in Jobs : row[j] = "running" /\ job[j].ws = cancel.ws /\ cancel.ws \in mounted}]
  /\ UNCHANGED <<registry, row, job, client, reaper, late, mounted, faults, crashes>>

Unowned(js) == IF js = {} THEN NoCancel ELSE [cancel EXCEPT !.at = "clear", !.live = {}, !.running = js]

MatchNone ==  \* mutant: the second layer is forgotten
  /\ cancel.at = "match"
  /\ cancel' = Unowned(cancel.running \ cancel.live)
  /\ UNCHANGED <<registry, row, job, client, reaper, late, mounted, faults, crashes>>
MatchRegistry ==
  /\ cancel.at = "match"
  /\ Trip(cancel.running \cap Registered)
  /\ cancel' = Unowned(cancel.running \ (cancel.live \cup Registered))
  /\ UNCHANGED <<registry, row, client, reaper, late, mounted, faults, crashes>>

ClearRow(j) ==
  /\ cancel.at = "clear" /\ j \in cancel.running
  /\ Writes(j, Settled(j, "cleared"))
  /\ cancel' = Unowned(cancel.running \ {j})
  /\ UNCHANGED <<registry, job, client, reaper, late, mounted, crashes>>

-----------------------------------------------------------------------------
(* A workspace is mounted over REST, after a restart too. *)
Mount(w) ==
  /\ w \notin mounted /\ mounted' = mounted \cup {w}
  /\ UNCHANGED <<registry, row, job, client, reaper, cancel, late, faults, crashes>>

Crash ==
  /\ crashes < CrashBudget /\ crashes' = crashes + 1
  /\ registry' = [w \in Workspaces |-> None]
  /\ job' = [j \in Jobs |-> IF job[j].at \in {"new", "over"} THEN job[j]
                                                             ELSE [job[j] EXCEPT !.at = "dead", !.token = FALSE, !.outcome = None]]
  /\ client' = [c \in Clients |-> IF client[c].at \in {"starting", "watching"}
                                  THEN [client[c] EXCEPT !.at = "gone", !.job = None] ELSE client[c]]
  /\ reaper' = NoSweep /\ cancel' = NoCancel /\ mounted' = {}
  /\ late' = {j \in late : row[j] = "interrupted"}
  /\ UNCHANGED <<row, faults>>

Task(j) == Work(j) \/ Finish(j) \/ Remove(j)

Next ==
  \/ \E c \in Clients : \/ \E w \in Workspaces : Attach(c, w) \/ Register(c, w)
                        \/ InsertRow(c) \/ Disconnect(c) \/ Tell(c)
  \/ \E j \in Jobs : Task(j) \/ TimeOut(j) \/ ClearRow(j)
  \/ LookAtRegistry \/ Sweep
  \/ \E w \in Workspaces : CancelEntry(w) \/ Mount(w)
  \/ ListRunning \/ MatchRegistry
  \/ Crash

(* The runtime polls every spawned task, the pipeline ends because it is cancelled after a
   while if it does not before, the reaper runs for ever and the provisioner mounts what is
   not mounted. Requests, cancels and disconnects owe nothing. *)
Fairness ==
  /\ \A j \in Jobs : WF_vars(Task(j))
  /\ \A c \in Clients : WF_vars(InsertRow(c) \/ Tell(c))
  /\ WF_vars(LookAtRegistry \/ Sweep)
  /\ \A w \in Workspaces : WF_vars(Mount(w))

Spec     == Init /\ [][Next]_vars
FairSpec == Spec /\ Fairness
-----------------------------------------------------------------------------
Alive(j) == job[j].at \in {"registered", "working", "finishing"}

(* One compile at a time and per workspace, whatever is dropped, cancelled or crashed, though
   the task that ends removes its workspace's entry without looking whose it is. *)
OnePerWorkspace ==
  \A j, k \in Jobs : Alive(j) /\ Alive(k) /\ job[j].ws = job[k].ws => j = k

(* What the rows and the observers are told is what became of the task. Only a compile
   without one is called interrupted or cleared, but for those that were registered during
   a sweep; an observer told "done" from a row saw a success, and one told that a success
   failed saw a row whose last write was lost or which such a sweep had spoiled. *)
Truthful ==
  /\ \A j \in Jobs : row[j] \in {"interrupted", "cleared"} => ~Alive(j) \/ j \in late
  /\ \A j \in Jobs : row[j] = "cleared" => ~Alive(j)
  /\ \A c \in Clients : client[c].told = "done" => job[Observes(c)].outcome = "done"
  /\ \A c \in Clients : client[c].told = "failed" /\ job[Observes(c)].outcome = "done" =>
                          Observes(c) \in late \/ faults > 0

(* Once requests stop, no row goes on saying "running", whatever happened to its task, and
   every observer of a compile whose task was spawned is told its end. *)
EverythingSettles ==
  []<>(/\ \A j \in Jobs : row[j] # "running"
       /\ \A c \in Clients : client[c].at = "watching" => job[Observes(c)].at = "lost")

=============================================================================
