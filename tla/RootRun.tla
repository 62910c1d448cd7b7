------------------------------ MODULE RootRun ------------------------------
(***************************************************************************)
(* The durable execution of Root Functions: run_function_with_id_opts and  *)
(* everything that re-enters a run (the fn_scheduler ticker, an answered   *)
(* cognition request), the stores they share, cancel_run, events,          *)
(* redeploys, and a crash of the server process.                           *)
(*                                                                         *)
(* Every await or store lock that separates two parts of a handler         *)
(* separates two actions here; what one lock section does is one action.   *)
(*                                                                         *)
(* A function body is the sequence of journal keys its deterministic       *)
(* control flow visits.  The key of a step is stable across replays, so    *)
(* where a body stands is the first of its keys that is not known.         *)
(***************************************************************************)
EXTENDS Naturals, Sequences

CONSTANTS
  Runs,         \* run ids
  Workers,      \* HTTP handlers that may execute a run concurrently
  Ticker,       \* the one fn_scheduler task
  Bodies,       \* function bodies that may be deployed under the one name
  Keys,         \* journal step keys
  Script,       \* body -> the step keys it visits, in order
  KindOf,       \* step key -> "op" | "sleep" | "wait" | "ask"
  Results,      \* what a journaled op may return
  Answers,      \* what a human may answer to ctx.cognition.ask
  Events,       \* event occurrences (payloads), each emitted once
  Null,         \* the value a sleep, or a wait that timed out, wakes with
  None,         \* no value
  RowIds,       \* ids (ULIDs) of timers, waiters and cognition requests
  MaxVersion,   \* bound on redeploys
  MaxAttempts,  \* the retry cap of the function (function_retry_max)
  MaxBuffer,    \* bound on buffered events
  Failures,     \* how a body may fail: subset of {"failed", "fatal"}
  SplitBrain,   \* the run's scope is not the primary workspace
  ReAnswer,     \* clients may answer a request that is already answered
  WaitsExpire,  \* time may pass the deadline of a wait or a buffered event
  AllowCancel, AllowDelete,  \* cancel_run / delete_function are called
  CrashBudget   \* bound on crashes of the process

Calls    == Workers \cup {Ticker}
Versions == 1 .. MaxVersion
Values   == Results \cup Answers \cup Events \cup {Null}
Kinds    == {"op", "sleep", "wait", "ask"}
Statuses == {"none", "ok", "suspended", "retrying", "error", "cancelled"}

ASSUME CallsAssumption == Ticker \notin Workers
ASSUME NoneAssumption  == None \notin Runs \cup Bodies \cup Keys \cup Values \cup RowIds
(* ctx numbers its ops, so no body visits a key twice. *)
ASSUME ScriptAssumption ==
  /\ Script \in [Bodies -> Seq(Keys)]
  /\ KindOf \in [Keys -> Kinds]
  /\ \A b \in Bodies : \A i, j \in DOMAIN Script[b] :
       Script[b][i] = Script[b][j] => i = j
ASSUME BoundsAssumption ==
  /\ MaxVersion \in Nat /\ MaxAttempts \in Nat \ {0}
  /\ MaxBuffer \in Nat /\ CrashBudget \in Nat
  /\ Failures \subseteq {"failed", "fatal"}
  /\ {SplitBrain, ReAnswer, WaitsExpire, AllowCancel, AllowDelete} \subseteq BOOLEAN

VARIABLES
  functions,   \* root_functions: version -> deployed body
  pin,         \* fn_run_version: run -> version it started on, 0 when absent
  status,      \* root_function_runs.status, "none" when there is no row
  journal,     \* root_function_steps: run -> key -> value
  judged,      \* verdicts bump_function_experience recorded for a run
  outbox,      \* runs whose declared actions are in action_outbox
  requests,    \* function_pending_requests
  wakes,       \* fn_timer (kinds resume, retry) and fn_waiter (kind wait)
  buffer,      \* fn_event_buffer, oldest first
  call,        \* executions of run_function_with_id_opts in flight
  due, firing, \* the ticker's snapshot of rows to fire, and the one it fires
  cancelling,  \* runs between the two lock sections of cancel_run
  crashes,     \* crashes so far
  origin,      \* history: the body the first execution of a run loaded
  ran,         \* history: <<run, key>> of every op that executed
  sent,        \* history: events emitted
  quiet        \* history: runs cancelled while nothing of theirs was in flight

store  == <<functions, pin, status, journal, judged, outbox, requests, wakes, buffer>>
ticker == <<due, firing>>
hist   == <<origin, ran, sent, quiet>>
vars   == <<store, call, ticker, cancelling, crashes, hist>>

NoSteps  == [k \in Keys |-> None]
IdleCall == [pc |-> "idle", run |-> None, body |-> None, version |-> 0,
             attempt |-> 1, prior |-> NoSteps, fresh |-> NoSteps,
             outcome |-> "none", key |-> None]
NoWake   == [id |-> None, run |-> None, kind |-> "none", key |-> None,
             attempt |-> 1, status |-> "none", value |-> None]

Steps     == [Keys -> Values \cup {None}]
CallState == [pc : {"idle", "load", "pin", "read", "exec", "persist", "register", "drop"},
              run : Runs \cup {None}, body : Bodies \cup {None},
              version : Versions \cup {0}, attempt : 1 .. MaxAttempts,
              prior : Steps, fresh : Steps,
              outcome : {"none", "done", "suspended", "failed", "fatal"},
              key : Keys \cup {None}]
WakeRow   == [id : RowIds, run : Runs, kind : {"resume", "retry", "wait"},
              key : Keys \cup {None}, attempt : 1 .. MaxAttempts,
              status : {"pending", "ready"}, value : Values]
Request   == [id : RowIds, run : Runs, key : Keys, status : {"pending", "answered"}]

TypeOK ==
  /\ functions \in [Versions -> Bodies \cup {None}]
  /\ pin \in [Runs -> Versions \cup {0}]
  /\ status \in [Runs -> Statuses]
  /\ journal \in [Runs -> Steps]
  /\ judged \in [Runs -> SUBSET {"ok", "error"}]
  /\ outbox \subseteq Runs
  /\ requests \subseteq Request
  /\ wakes \subseteq WakeRow
  /\ buffer \in Seq(Events)
  /\ call \in [Calls -> CallState]
  /\ due \subseteq WakeRow
  /\ firing \in WakeRow \cup {NoWake}
  /\ cancelling \subseteq Runs
  /\ crashes \in 0 .. CrashBudget
  /\ origin \in [Runs -> Bodies \cup {None}]
  /\ ran \subseteq Runs \X Keys
  /\ sent \subseteq Events
  /\ quiet \subseteq Runs

Init ==
  /\ functions = [v \in Versions |-> None]
  /\ pin = [r \in Runs |-> 0]
  /\ status = [r \in Runs |-> "none"]
  /\ journal = [r \in Runs |-> NoSteps]
  /\ judged = [r \in Runs |-> {}]
  /\ outbox = {} /\ requests = {} /\ wakes = {} /\ buffer = <<>>
  /\ call = [c \in Calls |-> IdleCall]
  /\ due = {} /\ firing = NoWake
  /\ cancelling = {} /\ crashes = 0
  /\ origin = [r \in Runs |-> None]
  /\ ran = {} /\ sent = {} /\ quiet = {}

-----------------------------------------------------------------------------
(* Deploying and deleting the function. *)

IsLatest(v) == /\ functions[v] # None
               /\ \A u \in Versions : functions[u] # None => u <= v

(* put_function: the new version is max(version) + 1, counted over the rows
   that exist, so numbering restarts after a delete. *)
Deploy ==
  /\ \E v \in Versions, b \in Bodies :
       /\ \A u \in Versions : functions[u] # None <=> u < v
       /\ functions' = [functions EXCEPT ![v] = b]
  /\ UNCHANGED <<pin, status, journal, judged, outbox, requests, wakes, buffer,
                 call, ticker, cancelling, crashes, hist>>

DeleteFunction ==
  /\ AllowDelete
  /\ functions' = [v \in Versions |-> None]
  /\ UNCHANGED <<pin, status, journal, judged, outbox, requests, wakes, buffer,
                 call, ticker, cancelling, crashes, hist>>

-----------------------------------------------------------------------------
(* One execution of run_function_with_id_opts. *)

Enter(c, r, a) ==
  call' = [call EXCEPT ![c] = [IdleCall EXCEPT !.pc = "load", !.run = r, !.attempt = a]]

(* The handler returns; the ticker still has the fired row to delete. *)
Leave(c) ==
  call' = [call EXCEPT ![c] = IF c = Ticker THEN [IdleCall EXCEPT !.pc = "drop"]
                                            ELSE IdleCall]

(* invoke_function runs under a fresh ULID: one nothing else refers to. *)
Invoke(c, r) ==
  /\ call[c].pc = "idle"
  /\ pin[r] = 0
  /\ \A d \in Calls : call[d].run # r
  /\ Enter(c, r, 1)
  /\ UNCHANGED <<store, ticker, cancelling, crashes, hist>>

LoadsLatest(r, v) == IsLatest(v)  \* mutant: a resume replays the latest version

(* The version an execution runs: the pinned one, else the latest. *)
Loads(r, v) == /\ IF pin[r] = 0 THEN IsLatest(v) ELSE v = pin[r]
               /\ functions[v] # None

LoadPinned(c) ==
  /\ call[c].pc = "load" /\ pin[call[c].run] # 0
  /\ \E v \in Versions :
       /\ Loads(call[c].run, v)
       /\ call' = [call EXCEPT ![c].pc = "read", ![c].body = functions[v]]
  /\ UNCHANGED <<store, ticker, cancelling, crashes, hist>>

LoadLatest(c) ==
  /\ call[c].pc = "load" /\ pin[call[c].run] = 0
  /\ \E v \in Versions :
       /\ Loads(call[c].run, v)
       /\ call' = [call EXCEPT ![c].pc = "pin", ![c].body = functions[v], ![c].version = v]
  /\ UNCHANGED <<store, ticker, cancelling, crashes, hist>>

(* set_run_version, a lock section of its own. *)
PinVersion(c) ==
  /\ call[c].pc = "pin"
  /\ pin' = [pin EXCEPT ![call[c].run] = call[c].version]
  /\ origin' = [origin EXCEPT ![call[c].run] = call[c].body]
  /\ call' = [call EXCEPT ![c].pc = "read", ![c].version = 0]
  /\ UNCHANGED <<functions, status, journal, judged, outbox, requests, wakes, buffer,
                 ticker, cancelling, crashes, ran, sent, quiet>>

(* "not deployed" or "pinned version no longer exists": an error is returned
   and nothing is recorded. *)
FunctionMissing(c) ==
  /\ call[c].pc = "load"
  /\ ~ \E v \in Versions : Loads(call[c].run, v)
  /\ Leave(c)
  /\ UNCHANGED <<store, ticker, cancelling, crashes, hist>>

ReadNothing(c) ==  \* mutant: a replay starts from an empty journal
  /\ call[c].pc = "read"
  /\ call' = [call EXCEPT ![c].pc = "exec"]
  /\ UNCHANGED <<store, ticker, cancelling, crashes, hist>>

ReadJournal(c) ==
  /\ call[c].pc = "read"
  /\ call' = [call EXCEPT ![c].pc = "exec", ![c].prior = journal[call[c].run]]
  /\ UNCHANGED <<store, ticker, cancelling, crashes, hist>>

(* op_tr_step_lookup: this execution's own steps, then the preloaded ones. *)
Known(c, k) == call[c].fresh[k] # None \/ call[c].prior[k] # None

AtStep(c, k) ==
  /\ call[c].pc = "exec"
  /\ ~ Known(c, k)
  /\ \E i \in DOMAIN Script[call[c].body] :
       /\ Script[call[c].body][i] = k
       /\ \A j \in DOMAIN Script[call[c].body] : j < i => Known(c, Script[call[c].body][j])

AtEnd(c) ==
  /\ call[c].pc = "exec"
  /\ \A i \in DOMAIN Script[call[c].body] : Known(c, Script[call[c].body][i])

(* ctx.step, ctx.llm.ask, ctx.memory.*, fetch: do it, then op_tr_step_record. *)
RunOp(c) ==
  /\ \E k \in Keys, v \in Results :
       /\ AtStep(c, k) /\ KindOf[k] = "op"
       /\ call' = [call EXCEPT ![c].fresh[k] = v]
       /\ ran' = ran \cup {<<call[c].run, k>>}
  /\ UNCHANGED <<store, ticker, cancelling, crashes, origin, sent, quiet>>

(* ctx.sleep, ctx.waitForEvent, ctx.cognition.ask throw __TR_SUSPEND__. *)
SuspendUnpersisted(c) ==  \* mutant: the wake is registered before the journal
  /\ \E k \in Keys :
       /\ AtStep(c, k) /\ KindOf[k] # "op"
       /\ call' = [call EXCEPT ![c].pc = IF KindOf[k] = "ask" THEN "persist" ELSE "register",
                               ![c].outcome = "suspended", ![c].key = k]
  /\ UNCHANGED <<store, ticker, cancelling, crashes, hist>>

Suspend(c) ==
  /\ \E k \in Keys :
       /\ AtStep(c, k) /\ KindOf[k] # "op"
       /\ call' = [call EXCEPT ![c].pc = "persist", ![c].outcome = "suspended", ![c].key = k]
  /\ UNCHANGED <<store, ticker, cancelling, crashes, hist>>

Return(c) ==
  /\ AtEnd(c)
  /\ call' = [call EXCEPT ![c].pc = "persist", ![c].outcome = "done"]
  /\ UNCHANGED <<store, ticker, cancelling, crashes, hist>>

(* A throw or the wall-clock timeout ("failed"), or a NonRetryableError
   ("fatal"), anywhere in the body.  The steps recorded so far are kept. *)
Throw(c) ==
  /\ call[c].pc = "exec"
  /\ \E o \in Failures :
       call' = [call EXCEPT ![c].pc = "persist", ![c].outcome = o]
  /\ UNCHANGED <<store, ticker, cancelling, crashes, hist>>

Suspends(c, kind) == call[c].outcome = "suspended" /\ KindOf[call[c].key] = kind

RetriesPastCap(c) ==  \* mutant: off by one at the retry cap
  call[c].outcome = "failed" /\ call[c].attempt <= MaxAttempts

Retries(c) == call[c].outcome = "failed" /\ call[c].attempt < MaxAttempts

OutcomeStatus(c) ==
  CASE call[c].outcome = "done"      -> "ok"
    [] call[c].outcome = "suspended" -> "suspended"
    [] Retries(c)                    -> "retrying"
    [] OTHER                         -> "error"

RecordedAtEnd(c) ==  \* mutant: only an execution that returns is journaled
  [k \in Keys |-> IF call[c].outcome = "done" /\ call[c].fresh[k] # None
                    THEN call[c].fresh[k] ELSE journal[call[c].run][k]]

RecordedUnlessFailed(c) ==  \* mutant: a failed attempt drops its steps
  [k \in Keys |-> IF call[c].outcome \in {"done", "suspended"} /\ call[c].fresh[k] # None
                    THEN call[c].fresh[k] ELSE journal[call[c].run][k]]

(* record_function_steps is a per-row :put, so it overwrites. *)
Recorded(c) ==
  [k \in Keys |-> IF call[c].fresh[k] # None THEN call[c].fresh[k]
                                             ELSE journal[call[c].run][k]]

VerdictEager(c) ==  \* mutant: a failure that will be retried is judged
  IF call[c].outcome \in {"failed", "fatal"} THEN {"error"}
  ELSE {OutcomeStatus(c)} \cap {"ok"}

Verdict(c) == {OutcomeStatus(c)} \cap {"ok", "error"}

RecordRun(c) ==
  /\ call[c].pc = "persist"
  /\ journal' = [journal EXCEPT ![call[c].run] = Recorded(c)]
  /\ status' = [status EXCEPT ![call[c].run] = OutcomeStatus(c)]
  /\ judged' = [judged EXCEPT ![call[c].run] = @ \cup Verdict(c)]

UsedIds == {w.id : w \in wakes \cup due} \cup {firing.id} \cup {q.id : q \in requests}

(* The first lock section after the isolate: journal, run row, experience. *)
Persist(c) ==
  /\ RecordRun(c)
  /\ ~ Suspends(c, "ask")
  /\ call' = [call EXCEPT ![c].pc = "register"]
  /\ UNCHANGED <<functions, pin, outbox, requests, wakes, buffer, ticker, cancelling,
                 crashes, hist>>

(* ... which also holds the pending request of a cognition ask. *)
PersistAsk(c) ==
  /\ RecordRun(c)
  /\ Suspends(c, "ask")
  /\ \E id \in RowIds \ UsedIds :
       requests' = requests \cup
         {[id |-> id, run |-> call[c].run, key |-> call[c].key, status |-> "pending"]}
  /\ Leave(c)
  /\ UNCHANGED <<functions, pin, outbox, wakes, buffer, ticker, cancelling, crashes,
                 hist>>

(* The lock section after it, in the primary brain.  A row is registered only
   once the journal is persisted. *)
AddWake(c, kind, attempt, st, value) ==
  \E id \in RowIds \ UsedIds :
    wakes' = wakes \cup
      {[id |-> id, run |-> call[c].run, kind |-> kind, key |-> call[c].key,
        attempt |-> attempt, status |-> st, value |-> value]}

RegisterTimer(c) ==
  /\ call[c].pc = "register" /\ Suspends(c, "sleep")
  /\ AddWake(c, "resume", 1, "pending", Null)
  /\ Leave(c)
  /\ UNCHANGED <<functions, pin, status, journal, judged, outbox, requests, buffer,
                 ticker, cancelling, crashes, hist>>

RegisterWaiter(c) ==
  /\ call[c].pc = "register" /\ Suspends(c, "wait")
  /\ IF buffer = <<>>
       THEN /\ AddWake(c, "wait", 1, "pending", Null)
            /\ UNCHANGED buffer
       ELSE /\ AddWake(c, "wait", 1, "ready", Head(buffer))
            /\ buffer' = Tail(buffer)
  /\ Leave(c)
  /\ UNCHANGED <<functions, pin, status, journal, judged, outbox, requests, ticker,
                 cancelling, crashes, hist>>

RegisterRetry(c) ==
  /\ call[c].pc = "register" /\ Retries(c)
  /\ AddWake(c, "retry", call[c].attempt + 1, "pending", Null)
  /\ Leave(c)
  /\ UNCHANGED <<functions, pin, status, journal, judged, outbox, requests, buffer,
                 ticker, cancelling, crashes, hist>>

(* enqueue_action inserts if absent, under an id derived from the run. *)
EnqueueFirstAttempt(c) ==  \* mutant: a retried run's actions are dropped
  /\ call[c].pc = "register" /\ call[c].outcome = "done"
  /\ outbox' = IF call[c].attempt = 1 THEN outbox \cup {call[c].run} ELSE outbox
  /\ Leave(c)
  /\ UNCHANGED <<functions, pin, status, journal, judged, requests, wakes, buffer,
                 ticker, cancelling, crashes, hist>>

EnqueueActions(c) ==
  /\ call[c].pc = "register" /\ call[c].outcome = "done"
  /\ outbox' = outbox \cup {call[c].run}
  /\ Leave(c)
  /\ UNCHANGED <<functions, pin, status, journal, judged, requests, wakes, buffer,
                 ticker, cancelling, crashes, hist>>

(* A terminal failure leaves nothing behind to wake. *)
ReturnError(c) ==
  /\ call[c].pc = "register"
  /\ call[c].outcome \in {"failed", "fatal"} /\ ~ Retries(c)
  /\ Leave(c)
  /\ UNCHANGED <<store, ticker, cancelling, crashes, hist>>

-----------------------------------------------------------------------------
(* The ticker: scan, then for each row of the snapshot record its wake value,
   re-enter the run and delete the row.  Any pending timer may be due. *)

Actionable(w) == w.kind = "wait" => w.status = "ready" \/ WaitsExpire

Scan ==
  /\ call[Ticker].pc = "idle" /\ due = {}
  /\ \E kinds \in {{"resume", "retry"}, {"wait"}} :
       \E S \in SUBSET {w \in wakes : w.kind \in kinds /\ Actionable(w)} :
         S # {} /\ due' = S
  /\ UNCHANGED <<store, call, firing, cancelling, crashes, hist>>

(* resume_with_value journals the wake value; a retry re-enters at once. *)
Fire(w) ==
  /\ call[Ticker].pc = "idle"
  /\ firing' = w /\ due' = due \ {w}
  /\ journal' = IF w.kind = "retry" THEN journal
                ELSE [journal EXCEPT ![w.run][w.key] =
                        IF w.status = "ready" THEN w.value ELSE Null]
  /\ Enter(Ticker, w.run, w.attempt)
  /\ UNCHANGED <<functions, pin, status, judged, outbox, requests, wakes, buffer,
                 cancelling, crashes, hist>>

(* get_or_mount_user_ws failed: the row is left for a later tick. *)
MountFails(w) ==
  /\ call[Ticker].pc = "idle" /\ SplitBrain
  /\ due' = due \ {w}
  /\ UNCHANGED <<store, call, firing, cancelling, crashes, hist>>

(* Whatever the outcome, the fired row is deleted by id. *)
DropNothing ==  \* mutant: the fired row stays
  /\ call[Ticker].pc = "drop"
  /\ firing' = NoWake
  /\ call' = [call EXCEPT ![Ticker] = IdleCall]
  /\ UNCHANGED <<store, due, cancelling, crashes, hist>>

DropByRun ==  \* mutant: deletes every row of the run, a re-armed one too
  /\ call[Ticker].pc = "drop"
  /\ wakes' = {w \in wakes : w.run # firing.run}
  /\ firing' = NoWake
  /\ call' = [call EXCEPT ![Ticker] = IdleCall]
  /\ UNCHANGED <<functions, pin, status, journal, judged, outbox, requests, buffer,
                 due, cancelling, crashes, hist>>

DropFired ==
  /\ call[Ticker].pc = "drop"
  /\ wakes' = {w \in wakes : w.id # firing.id}
  /\ firing' = NoWake
  /\ call' = [call EXCEPT ![Ticker] = IdleCall]
  /\ UNCHANGED <<functions, pin, status, journal, judged, outbox, requests, buffer,
                 due, cancelling, crashes, hist>>

-----------------------------------------------------------------------------
(* What clients do to a run. *)

(* answer_cognition looks the request up by token, whatever its status, then
   journals the answer, marks it answered and re-enters the run. *)
AnswerKeepsPending(c, q, a) ==  \* mutant: the request is not marked answered
  /\ call[c].pc = "idle"
  /\ ReAnswer \/ q.status = "pending"
  /\ journal' = [journal EXCEPT ![q.run][q.key] = a]
  /\ Enter(c, q.run, 1)
  /\ UNCHANGED <<functions, pin, status, judged, outbox, requests, wakes, buffer, ticker,
                 cancelling, crashes, hist>>

Answer(c, q, a) ==
  /\ call[c].pc = "idle"
  /\ ReAnswer \/ q.status = "pending"
  /\ journal' = [journal EXCEPT ![q.run][q.key] = a]
  /\ requests' = (requests \ {q}) \cup {[q EXCEPT !.status = "answered"]}
  /\ Enter(c, q.run, 1)
  /\ UNCHANGED <<functions, pin, status, judged, outbox, wakes, buffer, ticker,
                 cancelling, crashes, hist>>

InFlight(r) == \/ \E c \in Calls : call[c].run = r
               \/ \E w \in due \cup {firing} : w.run = r

(* cancel_run, first lock section: the scope brain.  set_run_status rewrites
   whatever row there is. *)
CancelKeepsRequests(r) ==  \* mutant: the asks of the run survive
  /\ AllowCancel /\ r \notin cancelling
  /\ status' = [status EXCEPT ![r] = IF @ = "none" THEN @ ELSE "cancelled"]
  /\ wakes' = IF SplitBrain THEN wakes ELSE {w \in wakes : w.run # r}
  /\ cancelling' = IF SplitBrain THEN cancelling \cup {r} ELSE cancelling
  /\ quiet' = IF SplitBrain \/ status[r] = "none" \/ InFlight(r) THEN quiet
              ELSE quiet \cup {r}
  /\ UNCHANGED <<functions, pin, journal, judged, outbox, requests, buffer, call, ticker,
                 crashes, origin, ran, sent>>

Cancel(r) ==
  /\ AllowCancel /\ r \notin cancelling
  /\ status' = [status EXCEPT ![r] = IF @ = "none" THEN @ ELSE "cancelled"]
  /\ requests' = {q \in requests : q.run # r}
  /\ wakes' = IF SplitBrain THEN wakes ELSE {w \in wakes : w.run # r}
  /\ cancelling' = IF SplitBrain THEN cancelling \cup {r} ELSE cancelling
  /\ quiet' = IF SplitBrain \/ status[r] = "none" \/ InFlight(r) THEN quiet
              ELSE quiet \cup {r}
  /\ UNCHANGED <<functions, pin, journal, judged, outbox, buffer, call, ticker, crashes,
                 origin, ran, sent>>

(* cancel_run, second lock section: the primary brain, where timers live. *)
CancelPrimary(r) ==
  /\ wakes' = {w \in wakes : w.run # r}
  /\ cancelling' = cancelling \ {r}
  /\ quiet' = IF status[r] = "cancelled" /\ ~ InFlight(r) THEN quiet \cup {r} ELSE quiet
  /\ UNCHANGED <<functions, pin, status, journal, judged, outbox, requests, buffer, call,
                 ticker, crashes, origin, ran, sent>>

Awaits(w) == w.kind = "wait" /\ w.status = "pending"

EmitUnbuffered(e) ==  \* mutant: an event nobody waits for yet is dropped
  /\ e \notin sent
  /\ sent' = sent \cup {e}
  /\ wakes' = {IF Awaits(w) THEN [w EXCEPT !.status = "ready", !.value = e]
                            ELSE w : w \in wakes}
  /\ UNCHANGED <<functions, pin, status, journal, judged, outbox, requests, buffer, call,
                 ticker, cancelling, crashes, origin, ran, quiet>>

(* emit_event: deliver to every pending waiter, else buffer. *)
Emit(e) ==
  /\ e \notin sent
  /\ sent' = sent \cup {e}
  /\ IF \E w \in wakes : Awaits(w)
       THEN /\ wakes' = {IF Awaits(w) THEN [w EXCEPT !.status = "ready", !.value = e]
                                      ELSE w : w \in wakes}
            /\ UNCHANGED buffer
       ELSE /\ Len(buffer) < MaxBuffer
            /\ buffer' = Append(buffer, e)
            /\ UNCHANGED wakes
  /\ UNCHANGED <<functions, pin, status, journal, judged, outbox, requests, call, ticker,
                 cancelling, crashes, origin, ran, quiet>>

(* The one-hour lifetime of the oldest buffered event ends: it is never found
   again. *)
BufferExpires ==
  /\ WaitsExpire /\ buffer # <<>>
  /\ buffer' = Tail(buffer)
  /\ UNCHANGED <<functions, pin, status, journal, judged, outbox, requests, wakes, call,
                 ticker, cancelling, crashes, hist>>

(* The process dies and restarts: only the stores survive. *)
Crash ==
  /\ crashes < CrashBudget
  /\ crashes' = crashes + 1
  /\ call' = [c \in Calls |-> IdleCall]
  /\ due' = {} /\ firing' = NoWake /\ cancelling' = {}
  /\ UNCHANGED <<store, hist>>

-----------------------------------------------------------------------------
CallStep(c) ==
  \/ LoadPinned(c) \/ LoadLatest(c) \/ PinVersion(c) \/ FunctionMissing(c)
  \/ ReadJournal(c)
  \/ RunOp(c) \/ Suspend(c) \/ Return(c) \/ Throw(c)
  \/ Persist(c) \/ PersistAsk(c)
  \/ RegisterTimer(c) \/ RegisterWaiter(c) \/ RegisterRetry(c)
  \/ EnqueueActions(c) \/ ReturnError(c)

TickerStep ==
  \/ Scan
  \/ \E w \in due : Fire(w) \/ MountFails(w)
  \/ DropFired

Next ==
  \/ Deploy \/ DeleteFunction
  \/ \E c \in Workers, r \in Runs : Invoke(c, r)
  \/ \E c \in Calls : CallStep(c)
  \/ TickerStep
  \/ \E c \in Workers, q \in requests, a \in Answers : Answer(c, q, a)
  \/ \E r \in Runs : Cancel(r)
  \/ \E r \in cancelling : CancelPrimary(r)
  \/ \E e \in Events : Emit(e)
  \/ BufferExpires
  \/ Crash

Spec == Init /\ [][Next]_vars

(* The tokio runtime polls a spawned handler until it returns; the ticker is a
   periodic task, and its clock passes every deadline. *)
LiveSpec == /\ Spec
            /\ \A c \in Calls : WF_vars(CallStep(c))
            /\ WF_vars(TickerStep)

-----------------------------------------------------------------------------
(* Properties. *)

(* S1: every execution of a run, the first one and every resume or retry,
   executes the body the run started on, whatever was deployed meanwhile. *)
ReplaysStartingBody ==
  \A c \in Calls : call[c].pc \in {"read", "exec", "persist", "register"} =>
                      call[c].body = origin[call[c].run]

(* The keys the body of run r visits before key k. *)
Before(r, k) ==
  LET s == Script[origin[r]]
  IN  {s[i] : i \in {i \in DOMAIN s : \E j \in DOMAIN s : i < j /\ s[j] = k}}

Journaled(r) == {k \in Keys : journal[r][k] # None}

(* The journal of a run is never ahead of its body: a key is there only after
   every key the body visits before it, so a replay never skips work. *)
JournalClosed ==
  \A r \in Runs : origin[r] # None =>
    \A k \in Journaled(r) : Before(r, k) \subseteq Journaled(r)

(* "registered AFTER the scope journal persists, so a wake always replays a
   complete journal" (run_function_with_id_opts): for every timer, waiter and
   request, also those the ticker already holds. *)
WakeComplete ==
  \A w \in wakes \cup due \cup requests :
    /\ origin[w.run] # None
    /\ w.key # None => Before(w.run, w.key) \subseteq Journaled(w.run)

(* A run is never executed twice at once, by a client and the ticker or by two
   clients: nothing locks a run, so this rests on the wake rows alone. *)
SingleFlight ==
  \A c, d \in Calls : c # d /\ call[c].run # None => call[c].run # call[d].run

(* A journaled step keeps its value: a replay returns what the body already
   acted on. *)
StepValuesStable ==
  [][\A r \in Runs : \A k \in Journaled(r) : journal'[r][k] = journal[r][k]]_vars

(* "completed steps replay from the journal, so only the failed work re-runs":
   without a crash an op with an effect executes once per run. *)
EffectsOnce ==
  [][\A c \in Calls, k \in Keys :
       call[c].fresh[k] = None /\ call'[c].fresh[k] # None =>
         <<call[c].run, k>> \notin ran]_vars

(* What can still take run r forward: an execution, a wake row that the ticker
   is not about to delete, or a question that waits for its answer. *)
Continues(r) ==
  \/ \E c \in Calls : call[c].run = r
  \/ \E w \in wakes : w.run = r /\ w.id # firing.id
  \/ \E q \in requests : q.run = r /\ q.status = "pending"

(* A run that started and has not finished can always be taken forward. *)
NoStranded ==
  \A r \in Runs : pin[r] # 0 /\ status[r] \notin {"ok", "error", "cancelled"} => Continues(r)

(* A finished run stays finished: no late wake, retry or answer re-opens it. *)
TerminalIsFinal ==
  [][\A r \in Runs : status[r] \in {"ok", "error"} => status'[r] = status[r]]_vars

(* Run-learning: "Only a TERMINAL failure is negative evidence", a suspended
   run is not judged, and what was learnt is what the run row says. *)
VerdictMatches ==
  \A r \in Runs : judged[r] = {status[r]} \cap {"ok", "error"}

(* The declared actions of a run are in the outbox once it finished "ok" and
   its execution returned, and never before the run row says "ok". *)
ActionsQueued ==
  \A r \in Runs : /\ r \in outbox => status[r] = "ok"
                  /\ status[r] = "ok" /\ ~ (\E c \in Calls : call[c].run = r) => r \in outbox

(* S4, as far as the code keeps it: a run cancelled while no execution of it
   and no snapshot of its rows was in flight never runs again. *)
CancelHolds ==
  \A r \in quiet : /\ status[r] = "cancelled"
                   /\ ~ InFlight(r)
                   /\ \A w \in wakes \cup requests : w.run # r

(* An emitted event reaches a run or waits for one: it is buffered, held by a
   waiter the ticker will resume, or journaled. *)
EventNotLost ==
  \A e \in sent : \/ \E i \in DOMAIN buffer : buffer[i] = e
                  \/ \E w \in wakes : w.status = "ready" /\ w.value = e
                  \/ \E r \in Runs : \E k \in Journaled(r) : journal[r][k] = e

(* Every run that started finishes: each suspension is woken, each retry
   fires, and the retries are bounded. *)
Settles == \A r \in Runs : pin[r] # 0 ~> status[r] \in {"ok", "error"}

(* "Suspended runs survive restarts and resume from the journal" (the
   durability limits document). *)
SuspendedSurvives == \A r \in Runs : status[r] = "suspended" => Continues(r)
=============================================================================
