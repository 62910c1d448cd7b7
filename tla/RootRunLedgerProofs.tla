-------------------------- MODULE RootRunLedgerProofs --------------------------
(***************************************************************************)
(* What the run rows, the recorded verdicts and the outbox say about each  *)
(* other. A run has one owner (RootRunOwnerProofs), so only its owner      *)
(* writes its row, and an owner exists only until the row says it is       *)
(* finished. cancel_run rewrites the row of a finished run as well: these  *)
(* theorems are about runs that nobody cancels.                            *)
(*                                                                         *)
(* Then what a cancel leaves behind, for every value of the constants, and *)
(* where an emitted event is, while nothing expires.                       *)
(***************************************************************************)
EXTENDS RootRunOwnerProofs

Finished == {"ok", "error"}

LedgerCall(c) ==
  /\ call[c].pc \in Busy \ {"register"} => status[call[c].run] \notin Finished
  /\ call[c].pc = "register" => status[call[c].run] = OutcomeStatus(c)
  /\ call[c].pc \notin Busy => call[c].run = None

(* The declared actions of a finished run are queued, or its owner is about to queue them. *)
LedgerRun(r) ==
  /\ pin[r] = 0 => status[r] = "none"
  /\ judged[r] = {status[r]} \cap Finished
  /\ r \in outbox => status[r] = "ok"
  /\ status[r] = "ok" => \/ r \in outbox
                         \/ \E c \in Calls : call[c].run = r /\ call[c].pc = "register"

Ledger ==
  /\ \A c \in Calls : LedgerCall(c)
  /\ \A r \in Runs : LedgerRun(r)
  /\ \A w \in Armed \cup Open : status[w.run] \notin Finished
  /\ cancelling = {}

LEMMA InitLedger == Init => Ledger
  BY DEF Init, Ledger, LedgerCall, LedgerRun, Armed, Open, IdleCall, Busy, Finished

(* A step of the owner of a run changes the ledger of that run only. *)
LEMMA OwnerLedger ==
  ASSUME Typing, Owned, Ledger, UNCHANGED cancelling,
         NEW c \in Calls, NEW r \in Runs, call[c].run = r,
         \A d \in Calls : d # c => call'[d] = call[d],
         \A s \in Runs : s # r => /\ status'[s] = status[s] /\ judged'[s] = judged[s]
                                  /\ pin'[s] = 0 => pin[s] = 0
                                  /\ s \in outbox' <=> s \in outbox,
         LedgerCall(c)', LedgerRun(r)',
         \A w \in (Armed \cup Open)' : w \in Armed \cup Open \/ status'[w.run] \notin Finished
  PROVE  Ledger'
<1>1. ASSUME NEW d \in Calls, d # c PROVE LedgerCall(d)'
  <2>1. call'[d] = call[d] /\ LedgerCall(d) /\ (call[d].pc \in Busy => call[d].run \in Runs /\ call[d].run # r)
    BY <1>1 DEF Ledger, Typing, CallsWellFormed, Owned, OneOwner
  <2>2. call[d].pc \in Busy => status'[call[d].run] = status[call[d].run]
    BY <2>1
  <2>3. OutcomeStatus(d)' = OutcomeStatus(d)
    BY <2>1 DEF OutcomeStatus, Retries
  <2>4. "register" \in Busy
    BY DEF Busy
  <2> QED
    BY <2>1, <2>2, <2>3, <2>4 DEF LedgerCall
<1>2. ASSUME NEW s \in Runs, s # r PROVE LedgerRun(s)'
  <2>1. LedgerRun(s)
    BY DEF Ledger
  <2>2. \A d \in Calls : call[d].run = s => call'[d] = call[d]
    BY <1>2
  <2> QED
    BY <1>2, <2>1, <2>2 DEF LedgerRun
<1>3. ASSUME NEW w \in (Armed \cup Open)' PROVE status'[w.run] \notin Finished
  <2>1. w \in Armed \cup Open => w.run \in Runs /\ w.run # r /\ status[w.run] \notin Finished
    BY RowsTyped DEF Ledger, Owned, OneOwner, Armed, Open
  <2> QED
    BY <2>1
<1> QED
  BY <1>1, <1>2, <1>3 DEF Ledger

(* The rest of the system leaves the run rows alone: an idle call enters a run, if any, that is
   not finished. *)
LEMMA QuietLedger ==
  ASSUME Ledger, UNCHANGED <<pin, status, judged, outbox, cancelling>>,
         \A w \in (Armed \cup Open)' : \E x \in Armed \cup Open : x.run = w.run,
         \A d \in Calls :
           \/ call'[d] = call[d]
           \/ /\ call[d].pc \notin Busy
              /\ \/ call'[d].pc \notin Busy /\ call'[d].run = None
                 \/ call'[d].pc = "load" /\ status[call'[d].run] \notin Finished
  PROVE  Ledger'
<1>1. ASSUME NEW d \in Calls PROVE LedgerCall(d)'
  <2>1. CASE call'[d] = call[d]
    <3>1. OutcomeStatus(d)' = OutcomeStatus(d)
      BY <2>1 DEF OutcomeStatus, Retries
    <3> QED
      BY <2>1, <3>1 DEF Ledger, LedgerCall
  <2>2. CASE call'[d] # call[d]
    BY <2>2 DEF LedgerCall, Busy
  <2> QED
    BY <2>1, <2>2
<1>2. ASSUME NEW s \in Runs PROVE LedgerRun(s)'
  <2>1. \A d \in Calls : call[d].pc = "register" => call'[d] = call[d]
    BY DEF Busy
  <2> QED
    BY <2>1 DEF Ledger, LedgerRun
<1>3. \A w \in (Armed \cup Open)' : status'[w.run] \notin Finished
  BY DEF Ledger
<1> QED
  BY <1>1, <1>2, <1>3 DEF Ledger

(* What recording an execution makes of the row and the verdicts of its run. *)
LEMMA RecordedRow ==
  ASSUME Typing, Ledger, NEW c \in Calls, RecordRun(c)
  PROVE  /\ call[c].run \in Runs /\ status'[call[c].run] = OutcomeStatus(c)
         /\ call[c].run \notin outbox
         /\ judged'[call[c].run] = {OutcomeStatus(c)} \cap Finished
         /\ \A s \in Runs : s # call[c].run => status'[s] = status[s] /\ judged'[s] = judged[s]
<1>1. /\ call[c].pc = "persist" /\ call[c].run \in Runs
      /\ status[call[c].run] \notin Finished /\ judged[call[c].run] = {}
      /\ status \in [Runs -> Statuses] /\ judged \in [Runs -> SUBSET {"ok", "error"}]
      /\ call[c].run \notin outbox
  BY DEF RecordRun, Typing, TypeOK, CallsWellFormed, Ledger, LedgerCall, LedgerRun, Busy, Finished
<1> QED
  BY <1>1 DEF RecordRun, Verdict, Finished

LEMMA CallStepLedger ==
  ASSUME Typing, Owned, Ledger, NEW c \in Calls, CallStep(c)
  PROVE  Ledger'
<1> USE DEF store, ticker, hist
<1>r. PICK r \in Runs : call[c].run = r
  BY InRun
<1>0. /\ call \in [Calls -> CallState] /\ call[c].pc \in Busy
      /\ pin \in [Runs -> Versions \cup {0}] /\ 0 \notin Versions
      /\ call[c].pc \in Past => pin[r] # 0
      /\ LedgerRun(r) /\ LedgerCall(c)
  BY <1>r, InRun DEF Typing, TypeOK, Owned, PinnedFirst, Ledger, Versions
<1>1. ASSUME call'[c].run = r, call[c].pc # "register", call'[c].pc \in Busy \ {"register"},
             \A d \in Calls : d # c => call'[d] = call[d],
             UNCHANGED <<status, judged, outbox, cancelling, wakes, due, firing, requests>>,
             \A s \in Runs : pin'[s] = 0 => pin[s] = 0
      PROVE  Ledger'
  <2>1. Armed' = Armed /\ Open' = Open
    BY <1>1 DEF Armed, Open
  <2>2. LedgerCall(c)' /\ LedgerRun(r)'
    BY <1>r, <1>0, <1>1 DEF LedgerCall, LedgerRun, Finished, Busy
  <2> QED
    BY <1>r, <1>1, <2>1, <2>2, OwnerLedger
<1>2. CASE LoadPinned(c)
  BY <1>r, <1>0, <1>1, <1>2 DEF LoadPinned, Busy
<1>3. CASE LoadLatest(c)
  BY <1>r, <1>0, <1>1, <1>3 DEF LoadLatest, Busy
<1>4. CASE PinVersion(c)
  <2>1. call[c].version \in Versions
    BY <1>4 DEF PinVersion, Typing, CallsWellFormed
  <2>2. \A s \in Runs : pin'[s] = 0 => pin[s] = 0
    BY <1>r, <1>0, <1>4, <2>1 DEF PinVersion
  <2> QED
    BY <1>r, <1>0, <1>1, <1>4, <2>2 DEF PinVersion, Busy
<1>5. CASE ReadJournal(c)
  BY <1>r, <1>0, <1>1, <1>5 DEF ReadJournal, Busy
<1>6. CASE RunOp(c)
  <2>1. PICK k \in Keys, v \in Results : call' = [call EXCEPT ![c].fresh[k] = v]
    BY <1>6 DEF RunOp
  <2> QED
    BY <1>r, <1>0, <1>1, <1>6, <2>1 DEF RunOp, AtStep, Busy
<1>7. CASE Suspend(c)
  BY <1>r, <1>0, <1>1, <1>7 DEF Suspend, AtStep, Busy
<1>8. CASE Return(c)
  BY <1>r, <1>0, <1>1, <1>8 DEF Return, AtEnd, Busy
<1>9. CASE Throw(c)
  BY <1>r, <1>0, <1>1, <1>9 DEF Throw, Busy
<1>10. CASE Persist(c)
  <2>1. /\ RecordRun(c) /\ UNCHANGED <<pin, outbox, wakes, due, firing, requests, cancelling>>
        /\ call[c].pc = "persist" /\ call' = [call EXCEPT ![c].pc = "register"]
    BY <1>10 DEF Persist, RecordRun
  <2>2. /\ call'[c] = [call[c] EXCEPT !.pc = "register"]
        /\ call'[c].pc = "register" /\ call'[c].run = r
        /\ call'[c].outcome = call[c].outcome /\ call'[c].attempt = call[c].attempt
        /\ \A d \in Calls : d # c => call'[d] = call[d]
    BY <1>r, <1>0, <2>1 DEF CallState
  <2>3. OutcomeStatus(c)' = OutcomeStatus(c)
    BY <2>2 DEF OutcomeStatus, Retries
  <2>4. Armed' = Armed /\ Open' = Open
    BY <2>1 DEF Armed, Open
  <2>5. LedgerCall(c)'
    BY <1>r, <2>1, <2>2, <2>3, RecordedRow DEF LedgerCall, Busy
  <2>6. LedgerRun(r)'
    BY <1>r, <1>0, <2>1, <2>2, RecordedRow DEF LedgerRun, Past
  <2> QED
    BY <1>r, <2>1, <2>2, <2>4, <2>5, <2>6, RecordedRow, OwnerLedger
<1>11. ASSUME Leave(c) PROVE /\ LedgerCall(c)' /\ \A d \in Calls : d # c => call'[d] = call[d]
  BY <1>11, LeaveShape DEF LedgerCall, Busy
<1>12. CASE PersistAsk(c)
  <2>1. /\ RecordRun(c) /\ UNCHANGED <<pin, outbox, wakes, due, firing, cancelling>>
        /\ Leave(c) /\ call[c].pc = "persist"
        /\ \A q \in requests' : q \in requests \/ q.run = r
    BY <1>12, <1>r DEF PersistAsk, RecordRun
  <2>2. OutcomeStatus(c) = "suspended"
    BY <1>12 DEF PersistAsk, Suspends, OutcomeStatus, Retries
  <2>3. LedgerRun(r)'
    BY <1>r, <1>0, <2>1, <2>2, RecordedRow DEF LedgerRun, Past
  <2>4. \A w \in (Armed \cup Open)' : w \in Armed \cup Open \/ w.run = r
    BY <2>1 DEF Armed, Open
  <2>5. status'[r] \notin Finished
    BY <1>r, <2>1, <2>2, RecordedRow DEF Finished
  <2> QED
    BY <1>r, <1>11, <2>1, <2>3, <2>4, <2>5, RecordedRow, OwnerLedger
<1>13. ASSUME Leave(c), UNCHANGED <<pin, status, judged, outbox, due, firing, requests, cancelling>>,
              status[r] # "ok",
              \A w \in wakes' : w \in wakes \/ (w.run = r /\ status[r] \notin Finished)
       PROVE  Ledger'
  <2>1. \A w \in (Armed \cup Open)' : w \in Armed \cup Open \/ status'[w.run] \notin Finished
    BY <1>13 DEF Armed, Open
  <2>2. LedgerRun(r)'
    BY <1>0, <1>13 DEF LedgerRun
  <2> QED
    BY <1>r, <1>11, <1>13, <2>1, <2>2, OwnerLedger
<1>14. CASE RegisterTimer(c) \/ RegisterWaiter(c) \/ RegisterRetry(c)
  <2>1. /\ call[c].pc = "register" /\ OutcomeStatus(c) \in {"suspended", "retrying"}
        /\ Leave(c)
        /\ UNCHANGED <<pin, status, judged, outbox, due, firing, requests, cancelling>>
    BY <1>14 DEF RegisterTimer, RegisterWaiter, RegisterRetry, Suspends, OutcomeStatus, Retries
  <2>2. status[r] \notin Finished
    BY <1>r, <1>0, <2>1 DEF LedgerCall, Finished
  <2>3. \A w \in wakes' : w \in wakes \/ w.run = r
    BY <1>14, <1>r, AddShape DEF RegisterTimer, RegisterWaiter, RegisterRetry
  <2> QED
    BY <1>13, <2>1, <2>2, <2>3 DEF Finished
<1>15. CASE FunctionMissing(c) \/ ReturnError(c)
  <2>1. /\ Leave(c)
        /\ UNCHANGED <<pin, status, judged, outbox, wakes, due, firing, requests, cancelling>>
    BY <1>15 DEF FunctionMissing, ReturnError
  <2>2. status[r] # "ok"
    BY <1>15, <1>r, <1>0 DEF FunctionMissing, ReturnError, LedgerCall, OutcomeStatus, Busy, Finished,
                             Retries
  <2> QED
    BY <1>13, <2>1, <2>2
<1>16. CASE EnqueueActions(c)
  <2>1. /\ Leave(c) /\ outbox' = outbox \cup {r}
        /\ UNCHANGED <<pin, status, judged, wakes, due, firing, requests, cancelling>>
        /\ call[c].pc = "register" /\ call[c].outcome = "done"
    BY <1>16, <1>r DEF EnqueueActions
  <2>2. status[r] = "ok"
    BY <1>r, <1>0, <2>1 DEF LedgerCall, OutcomeStatus, Retries
  <2>3. LedgerRun(r)'
    BY <1>0, <2>1, <2>2 DEF LedgerRun
  <2>4. Armed' = Armed /\ Open' = Open
    BY <2>1 DEF Armed, Open
  <2> QED
    BY <1>r, <1>11, <2>1, <2>3, <2>4, OwnerLedger
<1> QED
  BY <1>2, <1>3, <1>4, <1>5, <1>6, <1>7, <1>8, <1>9, <1>10, <1>12, <1>14, <1>15, <1>16 DEF CallStep

LEMMA NextLedger ==
  ASSUME Undisturbed, AllowCancel = FALSE, Typing, Owned, Ledger, [Next]_vars
  PROVE  Ledger'
<1> USE DEF store, ticker, hist
<1>0. \A w \in Armed \cup Open : status[w.run] \notin Finished
  BY DEF Ledger
<1>1. ASSUME NEW c \in Calls, CallStep(c) PROVE Ledger'
  BY <1>1, CallStepLedger
<1>2. ASSUME UNCHANGED <<pin, status, judged, outbox, cancelling>>,
             \A w \in (Armed \cup Open)' : \E x \in Armed \cup Open : x.run = w.run,
             NEW c \in Calls, NEW r, NEW a, Enter(c, r, a), call[c].pc = "idle",
             status[r] \notin Finished
      PROVE  Ledger'
  <2>1. call[c].pc \notin Busy
    BY <1>2 DEF Busy
  <2> QED
    BY <1>2, <2>1, EnterShape, QuietLedger
<1>3. ASSUME NEW c \in Workers, NEW r \in Runs, Invoke(c, r) PROVE Ledger'
  <2>1. /\ UNCHANGED <<pin, status, judged, outbox, cancelling, wakes, due, firing, requests>>
        /\ Enter(c, r, 1) /\ call[c].pc = "idle" /\ pin[r] = 0 /\ c \in Calls
    BY <1>3, RowsTyped DEF Invoke
  <2>2. status[r] \notin Finished
    BY <2>1 DEF Ledger, LedgerRun, Finished
  <2>3. Armed' = Armed /\ Open' = Open
    BY <2>1 DEF Armed, Open
  <2> QED
    BY <1>2, <2>1, <2>2, <2>3
<1>4. ASSUME NEW w \in due, Fire(w) PROVE Ledger'
  <2>1. /\ UNCHANGED <<pin, status, judged, outbox, cancelling, wakes, requests>>
        /\ Enter(Ticker, w.run, w.attempt) /\ call[Ticker].pc = "idle" /\ Ticker \in Calls
        /\ firing = NoWake /\ firing' = w /\ due' \subseteq due
    BY <1>4, RowsTyped DEF Fire, Owned, Distinct
  <2>2. w \in Armed
    BY <2>1, RowsTyped DEF Armed
  <2>3. Armed' \subseteq Armed /\ Open' = Open
    BY <2>1, RowsTyped DEF Armed, Open
  <2> QED
    BY <1>0, <1>2, <2>1, <2>2, <2>3
<1>5. ASSUME NEW c \in Workers, NEW q \in requests, NEW a \in Answers, Answer(c, q, a)
      PROVE  Ledger'
  <2>1. /\ UNCHANGED <<pin, status, judged, outbox, cancelling, wakes, due, firing>>
        /\ Enter(c, q.run, 1) /\ call[c].pc = "idle" /\ c \in Calls
        /\ requests' = (requests \ {q}) \cup {[q EXCEPT !.status = "answered"]}
        /\ q \in Open
    BY <1>5, RowsTyped DEF Answer, Undisturbed, Open
  <2>2. [q EXCEPT !.status = "answered"].status = "answered"
    BY RowsTyped DEF Request
  <2>3. Armed' = Armed /\ Open' \subseteq Open
    BY <2>1, <2>2 DEF Armed, Open
  <2> QED
    BY <1>0, <1>2, <2>1, <2>3
<1>6. CASE DropFired
  <2>1. /\ UNCHANGED <<pin, status, judged, outbox, cancelling, due, requests>>
        /\ firing' = NoWake /\ wakes' = {w \in wakes : w.id # firing.id}
        /\ call' = [call EXCEPT ![Ticker] = IdleCall] /\ call[Ticker].pc = "drop"
    BY <1>6 DEF DropFired
  <2>2. /\ \A d \in Calls : d # Ticker => call'[d] = call[d]
        /\ call'[Ticker].run = None /\ call'[Ticker].pc \notin Busy /\ call[Ticker].pc \notin Busy
    BY <2>1, RowsTyped DEF IdleCall, Busy
  <2>3. Armed' \subseteq Armed /\ Open' = Open
    BY <2>1 DEF Armed, Open, Owned, Distinct
  <2> QED
    BY <2>1, <2>2, <2>3, QuietLedger
<1>7. ASSUME UNCHANGED <<pin, status, judged, outbox, cancelling, call>>,
             \A w \in (Armed \cup Open)' : \E x \in Armed \cup Open : x.run = w.run
      PROVE  Ledger'
  BY <1>7, QuietLedger
<1>8. CASE Scan \/ \E w \in due : MountFails(w)
  <2>1. /\ UNCHANGED <<pin, status, judged, outbox, cancelling, call, wakes, firing, requests>>
        /\ due' \subseteq wakes \cup due
    BY <1>8 DEF Scan, MountFails
  <2>2. Armed' \subseteq Armed /\ Open' = Open
    BY <2>1 DEF Armed, Open
  <2> QED
    BY <1>7, <2>1, <2>2
<1>9. CASE Deploy \/ DeleteFunction \/ BufferExpires \/ UNCHANGED vars
  <2>1. UNCHANGED <<pin, status, judged, outbox, cancelling, call, wakes, firing, requests, due>>
    BY <1>9 DEF Deploy, DeleteFunction, BufferExpires, vars
  <2>2. Armed' = Armed /\ Open' = Open
    BY <2>1 DEF Armed, Open
  <2> QED
    BY <1>7, <2>1, <2>2
<1>10. ASSUME NEW e \in Events, Emit(e) PROVE Ledger'
  <2>1. UNCHANGED <<pin, status, judged, outbox, cancelling, call, firing, requests, due>>
    BY <1>10 DEF Emit
  <2>2. Open' = Open /\ \A w \in Armed' : \E x \in Armed : x.run = w.run
    BY <1>10, <2>1, EmitShape DEF Armed, Open
  <2> QED
    BY <1>7, <2>1, <2>2
<1>11. /\ ~ Crash /\ \A r \in Runs : ~ Cancel(r)
       /\ cancelling = {}
  BY BoundsAssumption DEF Crash, Undisturbed, Typing, TypeOK, Cancel, Ledger
<1> QED
  BY <1>1, <1>3, <1>4, <1>5, <1>6, <1>8, <1>9, <1>10, <1>11 DEF Next, TickerStep

LEMMA LedgerInvariant ==
  ASSUME Undisturbed, AllowCancel = FALSE
  PROVE  Spec => [](Typing /\ Owned /\ Ledger)
<1>1. Init => Typing /\ Owned /\ Ledger
  BY InitTyping, InitOwned, InitLedger
<1>2. (Typing /\ Owned /\ Ledger) /\ [Next]_vars => (Typing /\ Owned /\ Ledger)'
  BY NextTyping, NextOwned, NextLedger
<1> QED
  BY <1>1, <1>2, PTL DEF Spec

(* Run-learning judges every run by its last word: a run row that says "ok" or "error" has
   exactly that verdict recorded, and a suspended or retrying run has none. *)
THEOREM VerdictsMatchRows ==
  ASSUME Undisturbed, AllowCancel = FALSE
  PROVE  Spec => []VerdictMatches
<1>1. Typing /\ Owned /\ Ledger => VerdictMatches
  BY DEF Ledger, LedgerRun, VerdictMatches, Finished
<1> QED
  BY <1>1, LedgerInvariant, PTL

(* The declared actions of a run are in the outbox once it finished "ok" and its execution
   returned, and never before its row says "ok". *)
THEOREM FinishedRunsQueueActions ==
  ASSUME Undisturbed, AllowCancel = FALSE
  PROVE  Spec => []ActionsQueued
<1>1. Typing /\ Owned /\ Ledger => ActionsQueued
  BY DEF Ledger, LedgerRun, ActionsQueued
<1> QED
  BY <1>1, LedgerInvariant, PTL

(* An execution pins and records its own run only, and only when it has read the journal. *)
LEMMA OwnRowOnly ==
  ASSUME Typing, NEW c \in Calls, CallStep(c)
  PROVE  /\ \A s \in Runs : s # call[c].run => pin'[s] = pin[s] /\ status'[s] = status[s]
         /\ UNCHANGED <<due, firing, quiet, cancelling>>
         /\ status' = status \/ (call[c].pc = "persist" /\ status'[call[c].run] # "cancelled")
         /\ requests' = requests \/ status'[call[c].run] = "suspended"
<1> USE DEF store, ticker, hist
<1>0. /\ pin \in [Runs -> Versions \cup {0}] /\ status \in [Runs -> Statuses]
      /\ call[c].run \in Runs
  BY InRun DEF Typing, TypeOK
<1>1. CASE Persist(c)
  BY <1>0, <1>1 DEF Persist, RecordRun, OutcomeStatus
<1>2. CASE PersistAsk(c)
  <2>1. OutcomeStatus(c) = "suspended"
    BY <1>2 DEF PersistAsk, Suspends, OutcomeStatus, Retries
  <2> QED
    BY <1>0, <1>2, <2>1 DEF PersistAsk, RecordRun
<1>3. CASE PinVersion(c)
  BY <1>0, <1>3 DEF PinVersion
<1> QED
  BY <1>1, <1>2, <1>3 DEF CallStep, LoadPinned, LoadLatest, FunctionMissing, ReadJournal,
              RunOp, Suspend, Return, Throw, RegisterTimer,
              RegisterWaiter, RegisterRetry, EnqueueActions, ReturnError

LEMMA RowWriters ==
  ASSUME AllowCancel = FALSE, [Next]_vars, status' # status
  PROVE  \E c \in Calls : RecordRun(c)
<1> USE DEF store, ticker, hist
<1>1. ASSUME NEW c \in Calls, CallStep(c) PROVE RecordRun(c)
  BY <1>1 DEF CallStep, LoadPinned, LoadLatest, PinVersion, FunctionMissing, ReadJournal,
              RunOp, Suspend, Return, Throw, Persist, PersistAsk, RegisterTimer,
              RegisterWaiter, RegisterRetry, EnqueueActions, ReturnError
<1>2. ~ TickerStep
  BY DEF TickerStep, Scan, Fire, MountFails, DropFired
<1> QED
  BY <1>1, <1>2 DEF Next, vars, Deploy, DeleteFunction, Invoke, Answer, Cancel, CancelPrimary, Emit,
                    BufferExpires, Crash

(* A finished run stays finished: whatever wakes, retries or answers it belongs to a run that
   is not, and nobody else executes it. *)
THEOREM FinishedStaysFinished ==
  ASSUME Undisturbed, AllowCancel = FALSE
  PROVE  Spec => TerminalIsFinal
<1> DEFINE Final == \A r \in Runs : status[r] \in {"ok", "error"} => status'[r] = status[r]
<1>1. ASSUME Typing, Owned, Ledger, [Next]_vars PROVE Final
  <2>1. ASSUME NEW c \in Calls, RecordRun(c) PROVE Final
    <3>1. status[call[c].run] \notin {"ok", "error"}
      BY <1>1, <2>1 DEF RecordRun, Ledger, LedgerCall, Busy, Finished
    <3> QED
      BY <1>1, <2>1, <3>1, RecordedRow
  <2> QED
    BY <1>1, <2>1, RowWriters
<1> QED
  BY <1>1, LedgerInvariant, PTL DEF Spec, TerminalIsFinal

-----------------------------------------------------------------------------
(* Nothing strands a run: its owner leaves it only when it finishes, or when it has registered
   what wakes it. *)

(* A step that keeps what runs have, and the states of their rows. *)
LEMMA StrandFrame ==
  ASSUME NoStranded, UNCHANGED <<pin, status>>, \A s \in Runs : Continues(s) => Continues(s)'
  PROVE  NoStranded'
  BY DEF NoStranded

LEMMA CallStepStrands ==
  ASSUME AllowDelete = FALSE, Typing, Pinning, Owned, Ledger, NoStranded,
         NEW c \in Calls, CallStep(c)
  PROVE  NoStranded'
<1> USE DEF store, ticker, hist
<1>r. PICK r \in Runs : call[c].run = r
  BY InRun
<1>0. call \in [Calls -> CallState] /\ pin \in [Runs -> Versions \cup {0}]
  BY DEF Typing, TypeOK
<1>1. \A s \in Runs : s # r => pin'[s] = pin[s] /\ status'[s] = status[s]
  BY <1>r, OwnRowOnly
<1>2. CASE Stays(c)
  <2>1. \A d \in Calls : call'[d].run = call[d].run
    BY <1>2 DEF Stays
  <2>2. \A s \in Runs : Continues(s) => Continues(s)'
    BY <1>2, <2>1 DEF Stays, Continues
  <2>3. Continues(r)'
    BY <1>r, <2>1 DEF Continues
  <2> QED
    BY <1>1, <2>2, <2>3 DEF NoStranded
<1>3. CASE Goes(c)
  <2>1. /\ \A d \in Calls : d # c => call'[d] = call[d]
        /\ firing' = firing /\ wakes \subseteq wakes' /\ requests \subseteq requests'
    BY <1>3, LeaveShape DEF Goes, Adds, Asks
  <2>2. ASSUME NEW s \in Runs, s # r, Continues(s) PROVE Continues(s)'
    BY <1>r, <2>1, <2>2 DEF Continues
  <2>3. CASE Adds(c) \/ Asks(c)
    <3>1. Continues(r)'
      BY <1>r, <2>1, <2>3 DEF Adds, Asks, UsedIds, Continues
    <3> QED
      BY <1>1, <2>2, <3>1 DEF NoStranded
  <2>4. CASE FunctionMissing(c) \/ ReturnError(c) \/ EnqueueActions(c)
    <3>1. UNCHANGED <<pin, status>>
      BY <2>4 DEF FunctionMissing, ReturnError, EnqueueActions
    <3>2. ASSUME FunctionMissing(c) PROVE pin[r] = 0
      <4>1. pin[r] # 0 => functions[pin[r]] \in Bodies /\ pin[r] \in Versions
        BY <1>0 DEF Pinning
      <4>2. pin[r] # 0 => Loads(r, pin[r])
        BY <4>1, NoneAssumption DEF Loads
      <4> QED
        BY <1>r, <3>2, <4>1, <4>2 DEF FunctionMissing
    <3>3. ASSUME ReturnError(c) \/ EnqueueActions(c) PROVE status[r] \in {"ok", "error"}
      BY <1>r, <3>3 DEF ReturnError, EnqueueActions, Ledger, LedgerCall, OutcomeStatus, Retries
    <3> QED
      BY <1>1, <2>2, <2>4, <3>1, <3>2, <3>3 DEF NoStranded
  <2> QED
    BY <1>3, <2>3, <2>4 DEF Goes
<1> QED
  BY <1>2, <1>3, CallStepShape DEF Owned

LEMMA NextStrands ==
  ASSUME Undisturbed, AllowCancel = FALSE, AllowDelete = FALSE,
         Typing, Pinning, Owned, Ledger, NoStranded, [Next]_vars
  PROVE  NoStranded'
<1> USE DEF store, ticker, hist
<1>0. \A c \in Calls : call[c].pc \notin Busy => call[c].run \notin Runs
  BY RowsTyped DEF Ledger, LedgerCall
<1>1. ASSUME NEW c \in Calls, CallStep(c) PROVE NoStranded'
  BY <1>1, CallStepStrands
<1>2. ASSUME NEW c \in Calls, NEW r \in Runs, NEW a, Enter(c, r, a), call[c].pc = "idle",
             UNCHANGED <<pin, status>>,
             \A s \in Runs : s # r =>
               /\ \A w \in wakes : w.run = s /\ w.id # firing.id =>
                    \E x \in wakes' : x.run = s /\ x.id # firing'.id
               /\ \A q \in Open : q.run = s => q \in Open'
      PROVE  NoStranded'
  <2>1. /\ \A d \in Calls : d # c => call'[d] = call[d]
        /\ call'[c].run = r /\ call[c].run \notin Runs
    BY <1>0, <1>2, EnterShape DEF Busy
  <2>2. ASSUME NEW s \in Runs, s # r, Continues(s) PROVE Continues(s)'
    BY <1>2, <2>1, <2>2 DEF Continues, Open
  <2>3. Continues(r)'
    BY <2>1 DEF Continues
  <2> QED
    BY <1>2, <2>2, <2>3 DEF NoStranded
<1>3. ASSUME NEW c \in Workers, NEW r \in Runs, Invoke(c, r) PROVE NoStranded'
  <2>1. /\ UNCHANGED <<pin, status, wakes, firing, requests>>
        /\ Enter(c, r, 1) /\ call[c].pc = "idle" /\ c \in Calls
    BY <1>3, RowsTyped DEF Invoke
  <2> QED
    BY <1>2, <2>1 DEF Open
<1>4. ASSUME NEW w \in due, Fire(w) PROVE NoStranded'
  <2>1. /\ UNCHANGED <<pin, status, wakes, requests>>
        /\ Enter(Ticker, w.run, w.attempt) /\ call[Ticker].pc = "idle" /\ Ticker \in Calls
        /\ firing' = w /\ w.run \in Runs
    BY <1>4, RowsTyped DEF Fire
  <2>2. \A x \in wakes : x.run # w.run => x.id # w.id
    BY DEF Owned, Distinct
  <2> QED
    BY <1>2, <2>1, <2>2 DEF Open
<1>5. ASSUME NEW c \in Workers, NEW q \in requests, NEW a \in Answers, Answer(c, q, a)
      PROVE  NoStranded'
  <2>1. /\ UNCHANGED <<pin, status, wakes, firing>>
        /\ Enter(c, q.run, 1) /\ call[c].pc = "idle" /\ c \in Calls /\ q.run \in Runs
        /\ \A p \in requests : p # q => p \in requests'
    BY <1>5, RowsTyped DEF Answer
  <2> QED
    BY <1>2, <2>1 DEF Open
<1>6. CASE DropFired
  <2>1. /\ UNCHANGED <<pin, status, requests>> /\ firing' = NoWake
        /\ wakes' = {w \in wakes : w.id # firing.id}
        /\ call' = [call EXCEPT ![Ticker] = IdleCall] /\ call[Ticker].pc = "drop"
    BY <1>6 DEF DropFired
  <2>2. /\ \A d \in Calls : d # Ticker => call'[d] = call[d]
        /\ call[Ticker].run \notin Runs
    BY <1>0, <2>1, RowsTyped DEF Busy
  <2>3. \A w \in wakes : w.id # firing.id => w \in wakes' /\ w.id # firing'.id
    BY <2>1, RowsTyped
  <2>4. \A s \in Runs : Continues(s) => Continues(s)'
    BY <2>1, <2>2, <2>3 DEF Continues
  <2> QED
    BY <2>1, <2>4, StrandFrame
<1>7. ASSUME UNCHANGED <<pin, status, wakes, firing, requests, call>> PROVE NoStranded'
  BY <1>7, StrandFrame DEF Continues
<1>8. CASE Deploy \/ Scan \/ BufferExpires \/ UNCHANGED vars \/ \E w \in due : MountFails(w)
  BY <1>7, <1>8 DEF Deploy, Scan, BufferExpires, vars, MountFails
<1>9. ASSUME NEW e \in Events, Emit(e) PROVE NoStranded'
  <2>1. UNCHANGED <<pin, status, firing, requests, call>>
    BY <1>9 DEF Emit
  <2>2. \A w \in wakes : \E x \in wakes' : x.id = w.id /\ x.run = w.run
    <3>1. CASE \E w \in wakes : Awaits(w)
      <4>1. wakes' = {IF Awaits(w) THEN [w EXCEPT !.status = "ready", !.value = e]
                                   ELSE w : w \in wakes}
        BY <1>9, <3>1 DEF Emit
      <4>2. \A w \in wakes : LET x == IF Awaits(w) THEN [w EXCEPT !.status = "ready", !.value = e]
                                                   ELSE w
                             IN  x.id = w.id /\ x.run = w.run
        BY RowsTyped DEF WakeRow
      <4> QED
        BY <4>1, <4>2
    <3>2. CASE ~ \E w \in wakes : Awaits(w)
      BY <1>9, <3>2 DEF Emit
    <3> QED
      BY <3>1, <3>2
  <2>3. \A s \in Runs : Continues(s) => Continues(s)'
    BY <2>1, <2>2 DEF Continues
  <2> QED
    BY <2>1, <2>3, StrandFrame
<1>10. /\ ~ Crash /\ ~ DeleteFunction /\ \A r \in Runs : ~ Cancel(r)
       /\ cancelling = {}
  BY BoundsAssumption DEF Crash, Undisturbed, Typing, TypeOK, DeleteFunction, Cancel, Ledger
<1> QED
  BY <1>1, <1>3, <1>4, <1>5, <1>6, <1>8, <1>9, <1>10 DEF Next, TickerStep

(* A run that started and has not finished can always be taken forward: an execution of it is
   in flight, a row will wake it, or a question waits for its answer. *)
THEOREM NothingStrands ==
  ASSUME Undisturbed, AllowCancel = FALSE, AllowDelete = FALSE
  PROVE  Spec => []NoStranded
<1> DEFINE All == Typing /\ Pinning /\ Owned /\ Ledger /\ NoStranded
<1>1. Init => All
  BY InitTyping, InitPinning, InitOwned, InitLedger DEF Init, NoStranded
<1>2. All /\ [Next]_vars => All'
  BY NextTyping, NextPinning, NextOwned, NextLedger, NextStrands
<1> QED
  BY <1>1, <1>2, PTL DEF Spec

-----------------------------------------------------------------------------
(* Cancelling, for every value of the constants. *)

CancelSafe ==
  /\ PinnedFirst
  /\ \A r \in Runs : pin[r] = 0 => status[r] = "none"
  /\ \A r \in cancelling : status[r] = "cancelled" => \A q \in requests : q.run # r
  /\ CancelHolds

LEMMA InitCancelSafe == Init => CancelSafe
  BY DEF Init, CancelSafe, PinnedFirst, CancelHolds, Rows, IdleCall, Past

LEMMA CallStepCancel ==
  ASSUME Typing, CancelSafe, NEW c \in Calls, CallStep(c)
  PROVE  CancelSafe'
<1>r. PICK r \in Runs : call[c].run = r
  BY InRun
<1>0. Stays(c) \/ Goes(c)
  BY CallStepShape DEF CancelSafe
<1>1. /\ \A d \in Calls : d # c => call'[d] = call[d]
      /\ call'[c].run \in {r, None}
      /\ call'[c].pc \in Past => call'[c].run = r /\ pin'[r] # 0
      /\ UNCHANGED <<due, firing>>
  BY <1>0, <1>r, LeaveShape DEF Stays, Goes, Past
<1>2. /\ \A w \in wakes' : w \in wakes \/ (w.run = r /\ pin[r] # 0)
      /\ \A q \in requests' : q \in requests \/ (q.run = r /\ pin[r] # 0)
  BY <1>0, <1>r DEF Stays, Goes, Adds, Asks, CancelSafe, PinnedFirst
<1>3. /\ \A s \in Runs : s # r => pin'[s] = pin[s] /\ status'[s] = status[s]
      /\ \A s \in Runs : pin'[s] = 0 => pin[s] = 0
      /\ UNCHANGED <<quiet, cancelling>>
      /\ status' = status \/ (pin[r] # 0 /\ status'[r] # "cancelled")
      /\ requests' = requests \/ status'[r] = "suspended"
  BY <1>r, <1>0, OwnRowOnly DEF Stays, Goes, CancelSafe, PinnedFirst, Past
<1>4. PinnedFirst'
  <2>1. \A w \in Rows : w.run \in Runs /\ pin[w.run] # 0
    BY RowsTyped DEF Rows, CancelSafe, PinnedFirst
  <2>2. \A w \in Rows' : w \in Rows \/ (w.run = r /\ pin[r] # 0)
    BY <1>1, <1>2 DEF Rows
  <2>3. \A d \in Calls : call[d].pc \in Past => call[d].run \in Runs /\ pin[call[d].run] # 0
    BY RowsTyped DEF CancelSafe, PinnedFirst
  <2> QED
    BY <1>1, <1>3, <2>1, <2>2, <2>3 DEF PinnedFirst
<1>5. \A s \in Runs : pin'[s] = 0 => status'[s] = "none"
  BY <1>3 DEF CancelSafe
<1>6. \A s \in cancelling' : status'[s] = "cancelled" => \A q \in requests' : q.run # s
  BY <1>2, <1>3 DEF CancelSafe, Typing, TypeOK
<1>7. CancelHolds'
  <2>1. r \notin quiet
    BY <1>r DEF CancelSafe, CancelHolds, InFlight
  <2>2. quiet \subseteq Runs /\ None \notin Runs
    BY RowsTyped DEF Typing, TypeOK
  <2>3. ASSUME NEW s \in quiet'
        PROVE  status'[s] = "cancelled" /\ ~ InFlight(s)' /\ \A w \in (wakes \cup requests)' : w.run # s
    <3>1. s \in quiet /\ s # r /\ s \in Runs
      BY <1>3, <2>1, <2>2
    <3>2. status[s] = "cancelled" /\ ~ InFlight(s) /\ \A w \in wakes \cup requests : w.run # s
      BY <3>1 DEF CancelSafe, CancelHolds
    <3> QED
      BY <1>1, <1>2, <1>3, <2>2, <3>1, <3>2 DEF InFlight
  <2> QED
    BY <2>3 DEF CancelHolds
<1> QED
  BY <1>4, <1>5, <1>6, <1>7 DEF CancelSafe

(* Steps that neither pin, nor record, nor cancel: no row of a further run, and nothing of a
   quiet run in flight. *)
LEMMA CancelFrame ==
  ASSUME Typing, CancelSafe, UNCHANGED <<pin, status, quiet>>, cancelling' \subseteq cancelling,
         \A d \in Calls : call'[d] = call[d] \/ call'[d].pc \notin Past,
         \A w \in wakes' : \E x \in wakes : x.run = w.run,
         \A w \in due' : \E x \in wakes \cup due : x.run = w.run,
         \A q \in requests' : \E p \in requests : p.run = q.run,
         \A s \in quiet : ~ InFlight(s) => ~ InFlight(s)'
  PROVE  CancelSafe'
<1>1. PinnedFirst'
  BY DEF CancelSafe, PinnedFirst, Rows
<1>2. CancelHolds'
  BY DEF CancelSafe, CancelHolds
<1> QED
  BY <1>1, <1>2 DEF CancelSafe

LEMMA NextCancelSafe ==
  ASSUME Typing, CancelSafe, [Next]_vars
  PROVE  CancelSafe'
<1> USE DEF store, ticker, hist
<1>0. /\ \A s \in quiet : /\ status[s] = "cancelled" /\ pin[s] # 0 /\ ~ InFlight(s) /\ s \in Runs
                          /\ \A w \in wakes \cup requests : w.run # s
      /\ None \notin Runs /\ NoWake.run = None /\ Workers \subseteq Calls /\ Ticker \in Calls
  BY RowsTyped DEF CancelSafe, CancelHolds, Typing, TypeOK, NoWake
<1>1. ASSUME NEW c \in Calls, CallStep(c) PROVE CancelSafe'
  BY <1>1, CallStepCancel
<1>2. ASSUME NEW c \in Calls, NEW r, NEW a, Enter(c, r, a), r \notin quiet,
             UNCHANGED <<pin, status, quiet, cancelling, wakes>>,
             due' \subseteq due, firing' \in due \cup {firing},
             \A q \in requests' : \E p \in requests : p.run = q.run
      PROVE  CancelSafe'
  <2>1. /\ \A d \in Calls : d # c => call'[d] = call[d]
        /\ call'[c].pc = "load" /\ call'[c].run = r
    BY <1>2, EnterShape
  <2>2. ASSUME NEW s \in quiet, ~ InFlight(s) PROVE ~ InFlight(s)'
    BY <1>2, <2>1, <2>2 DEF InFlight
  <2> QED
    BY <1>2, <2>1, <2>2, CancelFrame DEF Past
<1>3. ASSUME NEW c \in Workers, NEW r \in Runs, Invoke(c, r) PROVE CancelSafe'
  BY <1>0, <1>2, <1>3 DEF Invoke
<1>4. ASSUME NEW w \in due, Fire(w) PROVE CancelSafe'
  <2>1. w.run \notin quiet
    BY <1>0 DEF InFlight
  <2> QED
    BY <1>0, <1>2, <1>4, <2>1 DEF Fire
<1>5. ASSUME NEW c \in Workers, NEW q \in requests, NEW a \in Answers, Answer(c, q, a)
      PROVE  CancelSafe'
  <2>1. /\ Enter(c, q.run, 1) /\ q.run \notin quiet /\ c \in Calls
        /\ UNCHANGED <<pin, status, quiet, cancelling, wakes, due, firing>>
        /\ requests' = (requests \ {q}) \cup {[q EXCEPT !.status = "answered"]}
    BY <1>0, <1>5 DEF Answer
  <2>2. \A x \in requests' : \E y \in requests : y.run = x.run
    BY <2>1, RowsTyped DEF Request
  <2> QED
    BY <1>2, <2>1, <2>2
<1>6. CASE Scan
  <2>1. UNCHANGED <<pin, status, quiet, cancelling, wakes, call, firing, requests>> /\ due' \subseteq wakes
    BY <1>6 DEF Scan
  <2>2. \A s \in quiet : ~ InFlight(s)'
    BY <1>0, <2>1 DEF InFlight
  <2> QED
    BY <2>1, <2>2, CancelFrame
<1>7. CASE DropFired \/ Crash
  <2>1. /\ UNCHANGED <<pin, status, quiet, requests>> /\ cancelling' \subseteq cancelling
        /\ wakes' \subseteq wakes /\ due' \subseteq due /\ firing' = NoWake
        /\ call' = [call EXCEPT ![Ticker] = IdleCall] \/ call' = [d \in Calls |-> IdleCall]
    BY <1>7 DEF DropFired, Crash
  <2>2. \A d \in Calls : call'[d] = call[d] \/ (call'[d].pc = "idle" /\ call'[d].run = None)
    BY <2>1 DEF IdleCall, Typing, TypeOK
  <2>3. \A s \in quiet : ~ InFlight(s)'
    BY <1>0, <2>1, <2>2 DEF InFlight
  <2> QED
    BY <2>1, <2>2, <2>3, CancelFrame DEF Past
<1>8. ASSUME UNCHANGED <<pin, status, quiet, cancelling, call, firing, requests>>,
             \A w \in wakes' : \E x \in wakes : x.run = w.run, due' \subseteq due
      PROVE  CancelSafe'
  <2>1. \A s \in quiet : ~ InFlight(s)'
    BY <1>0, <1>8 DEF InFlight
  <2> QED
    BY <1>8, <2>1, CancelFrame
<1>9. CASE \/ Deploy \/ DeleteFunction \/ BufferExpires \/ UNCHANGED vars
           \/ \E w \in due : MountFails(w)
  BY <1>8, <1>9 DEF Deploy, DeleteFunction, BufferExpires, vars, MountFails
<1>10. ASSUME NEW e \in Events, Emit(e) PROVE CancelSafe'
  BY <1>8, <1>10, EmitShape DEF Emit
<1>11. ASSUME NEW r \in Runs, Cancel(r) PROVE CancelSafe'
  <2>1. /\ status' = [status EXCEPT ![r] = IF status[r] = "none" THEN status[r] ELSE "cancelled"]
        /\ requests' = {q \in requests : q.run # r}
        /\ wakes' = IF SplitBrain THEN wakes ELSE {w \in wakes : w.run # r}
        /\ cancelling' \subseteq cancelling \cup {r}
        /\ quiet' = IF SplitBrain \/ status[r] = "none" \/ InFlight(r) THEN quiet
                    ELSE quiet \cup {r}
        /\ UNCHANGED <<pin, call, due, firing>>
    BY <1>11 DEF Cancel
  <2>2. status \in [Runs -> Statuses] /\ cancelling \subseteq Runs
    BY DEF Typing, TypeOK
  <2>3. \A s \in Runs : status'[s] = IF s = r /\ status[s] # "none" THEN "cancelled" ELSE status[s]
    BY <2>1, <2>2
  <2>4. PinnedFirst'
    BY <2>1 DEF CancelSafe, PinnedFirst, Rows
  <2>5. \A s \in Runs : pin'[s] = 0 => status'[s] = "none"
    BY <2>1, <2>3 DEF CancelSafe
  <2>6. \A s \in cancelling' : status'[s] = "cancelled" => \A q \in requests' : q.run # s
    BY <2>1, <2>2, <2>3 DEF CancelSafe
  <2>7. ASSUME NEW s \in quiet'
        PROVE  status'[s] = "cancelled" /\ ~ InFlight(s)' /\ \A w \in (wakes \cup requests)' : w.run # s
    <3>1. InFlight(s)' <=> InFlight(s)
      BY <2>1 DEF InFlight
    <3>2. CASE s \in quiet
      BY <1>0, <2>1, <2>3, <3>1, <3>2
    <3>3. CASE s \notin quiet
      <4>1. s = r /\ ~ SplitBrain /\ status[r] # "none" /\ ~ InFlight(r)
        BY <2>1, <3>3
      <4> QED
        BY <2>1, <2>3, <3>1, <4>1
    <3> QED
      BY <3>2, <3>3
  <2> QED
    BY <2>4, <2>5, <2>6, <2>7 DEF CancelSafe, CancelHolds
<1>12. ASSUME NEW r \in cancelling, CancelPrimary(r) PROVE CancelSafe'
  <2>1. /\ wakes' = {w \in wakes : w.run # r}
        /\ cancelling' = cancelling \ {r}
        /\ quiet' = IF status[r] = "cancelled" /\ ~ InFlight(r) THEN quiet \cup {r} ELSE quiet
        /\ UNCHANGED <<pin, status, call, due, firing, requests>>
    BY <1>12 DEF CancelPrimary
  <2>4. PinnedFirst'
    BY <2>1 DEF CancelSafe, PinnedFirst, Rows
  <2>7. ASSUME NEW s \in quiet'
        PROVE  status'[s] = "cancelled" /\ ~ InFlight(s)' /\ \A w \in (wakes \cup requests)' : w.run # s
    <3>1. InFlight(s)' <=> InFlight(s)
      BY <2>1 DEF InFlight
    <3>2. CASE s \in quiet
      BY <1>0, <2>1, <3>1, <3>2
    <3>3. CASE s \notin quiet
      <4>1. s = r /\ status[r] = "cancelled" /\ ~ InFlight(r)
        BY <2>1, <3>3
      <4>2. \A q \in requests : q.run # r
        BY <4>1 DEF CancelSafe
      <4> QED
        BY <2>1, <3>1, <4>1, <4>2
    <3> QED
      BY <3>2, <3>3
  <2> QED
    BY <2>1, <2>4, <2>7 DEF CancelSafe, CancelHolds
<1> QED
  BY <1>1, <1>3, <1>4, <1>5, <1>6, <1>7, <1>9, <1>10, <1>11, <1>12 DEF Next, TickerStep

(* S4, as far as the code keeps it: a run cancelled while no execution of it and no snapshot of
   its rows was in flight never runs again, in one workspace or across two, over crashes,
   late answers, events and redeploys. *)
THEOREM CancelledStaysCancelled == Spec => []CancelHolds
<1>1. Init => Typing /\ CancelSafe
  BY InitTyping, InitCancelSafe
<1>2. (Typing /\ CancelSafe) /\ [Next]_vars => (Typing /\ CancelSafe)'
  BY NextTyping, NextCancelSafe
<1>3. CancelSafe => CancelHolds
  BY DEF CancelSafe
<1> QED
  BY <1>1, <1>2, <1>3, PTL DEF Spec

-----------------------------------------------------------------------------
(* Events, while no wait and no buffered event passes its deadline and nothing is cancelled.
   The ticker holds copies of the waiters it read; a waiter that has its event does not change
   any more, so what the ticker deletes is what it journaled. *)

Queued(e) == \/ \E i \in DOMAIN buffer : buffer[i] = e
             \/ \E w \in wakes : w.status = "ready" /\ w.value = e
Taken(e)  == \E r \in Runs : \E k \in Journaled(r) : journal[r][k] = e

Copied(w) ==
  \A x \in wakes : x.id = w.id =>
    /\ x.kind = w.kind
    /\ x.kind = "wait" => x = w /\ x.status = "ready"

EventSafe ==
  /\ \A e \in sent : Queued(e) \/ Taken(e)
  /\ \A w \in wakes \cup due : w.kind # "wait" => w.status = "pending"
  /\ \A w \in due : w.kind = "wait" => w.status = "ready"
  /\ \A w \in due \cup {firing} : Copied(w)
  /\ firing.kind = "wait" => /\ firing.run \in Runs /\ firing.key \in Keys
                             /\ firing.value \in Values
                             /\ journal[firing.run][firing.key] = firing.value

LEMMA InitEventSafe == Init => EventSafe
  BY DEF Init, EventSafe, Copied, NoWake

LEMMA TakenStays ==
  ASSUME Kept, NEW e, Taken(e)
  PROVE  Taken(e)'
  BY DEF Kept, Taken, Journaled

(* A step in which events stay where they are, or are journaled. *)
LEMMA EventFrame ==
  ASSUME Typing, Kept, EventSafe, UNCHANGED <<sent, firing>>,
         \A e \in sent : Queued(e) => Queued(e)',
         \A w \in wakes' : \/ w \in wakes
                           \/ /\ \A x \in due \cup {firing} : x.id # w.id
                              /\ w.kind # "wait" => w.status = "pending",
         due' \subseteq due
  PROVE  EventSafe'
<1>1. \A e \in sent' : Queued(e)' \/ Taken(e)'
  BY TakenStays DEF EventSafe
<1>2. \A w \in due' \cup {firing'} : Copied(w)'
  BY DEF EventSafe, Copied
<1>3. firing'.kind = "wait" => journal'[firing'.run][firing'.key] = firing'.value
  BY NoneAssumption DEF EventSafe, Kept, Journaled
<1> QED
  BY <1>1, <1>2, <1>3 DEF EventSafe

LEMMA WaitAdded ==
  ASSUME Typing, Kept, EventSafe, UNCHANGED <<sent, firing, due>>, NEW c \in Calls,
         NEW kind, NEW a, NEW st, NEW v, AddWake(c, kind, a, st, v),
         kind # "wait" => st = "pending",
         \A e \in sent : Queued(e) => Queued(e)'
  PROVE  EventSafe'
<1>1. PICK id \in RowIds \ UsedIds :
        wakes' = wakes \cup {[id |-> id, run |-> call[c].run, kind |-> kind, key |-> call[c].key,
                              attempt |-> a, status |-> st, value |-> v]}
  BY DEF AddWake
<1>2. \A x \in due \cup {firing} : x.id # id
  BY <1>1 DEF UsedIds
<1> DEFINE y == [id |-> id, run |-> call[c].run, kind |-> kind, key |-> call[c].key,
                 attempt |-> a, status |-> st, value |-> v]
<1>3. y.id = id /\ (y.kind # "wait" => y.status = "pending") /\ wakes' = wakes \cup {y}
  BY <1>1
<1> HIDE DEF y
<1> QED
  BY <1>2, <1>3, EventFrame

LEMMA CallStepEvents ==
  ASSUME Typing, Kept, EventSafe, NEW c \in Calls, CallStep(c)
  PROVE  EventSafe'
<1> USE DEF store, ticker, hist
<1>1. CASE RegisterTimer(c) \/ RegisterRetry(c)
  <2>1. UNCHANGED <<sent, firing, due, buffer>> /\ wakes \subseteq wakes'
    BY <1>1 DEF RegisterTimer, RegisterRetry, AddWake
  <2>2. \A e \in sent : Queued(e) => Queued(e)'
    BY <2>1 DEF Queued
  <2> QED
    BY <1>1, <2>1, <2>2, WaitAdded DEF RegisterTimer, RegisterRetry
<1>2. CASE RegisterWaiter(c) /\ buffer = <<>>
  <2>1. UNCHANGED <<sent, firing, due, buffer>> /\ wakes \subseteq wakes'
    BY <1>2 DEF RegisterWaiter, AddWake
  <2>2. \A e \in sent : Queued(e) => Queued(e)'
    BY <2>1 DEF Queued
  <2> QED
    BY <1>2, <2>1, <2>2, WaitAdded DEF RegisterWaiter
<1>3. CASE RegisterWaiter(c) /\ buffer # <<>>
  <2>1. /\ UNCHANGED <<sent, firing, due>> /\ wakes \subseteq wakes' /\ buffer' = Tail(buffer)
        /\ AddWake(c, "wait", 1, "ready", Head(buffer))
    BY <1>3 DEF RegisterWaiter, AddWake
  <2>2. buffer \in Seq(Events)
    BY DEF Typing, TypeOK
  <2>3. \E w \in wakes' : w.status = "ready" /\ w.value = Head(buffer)
    <3>1. PICK id \in RowIds \ UsedIds :
            wakes' = wakes \cup {[id |-> id, run |-> call[c].run, kind |-> "wait",
               key |-> call[c].key, attempt |-> 1, status |-> "ready", value |-> Head(buffer)]}
      BY <2>1 DEF AddWake
    <3> DEFINE y == [id |-> id, run |-> call[c].run, kind |-> "wait",
               key |-> call[c].key, attempt |-> 1, status |-> "ready", value |-> Head(buffer)]
    <3>2. y \in wakes' /\ y.status = "ready" /\ y.value = Head(buffer)
      BY <3>1
    <3> QED
      BY <3>2
  <2>4. ASSUME NEW i \in DOMAIN buffer, i # 1 PROVE i - 1 \in DOMAIN buffer' /\ buffer'[i - 1] = buffer[i]
    BY <1>3, <2>1, <2>2, <2>4
  <2>5. ASSUME NEW e \in sent, Queued(e) PROVE Queued(e)'
    <3>1. CASE \E i \in DOMAIN buffer : buffer[i] = e
      <4>1. PICK i \in DOMAIN buffer : buffer[i] = e
        BY <3>1
      <4>2. CASE i = 1
        BY <2>2, <2>3, <4>1, <4>2 DEF Queued
      <4>3. CASE i # 1
        BY <2>4, <4>1, <4>3 DEF Queued
      <4> QED
        BY <4>2, <4>3
    <3>2. CASE \E w \in wakes : w.status = "ready" /\ w.value = e
      BY <2>1, <3>2 DEF Queued
    <3> QED
      BY <2>5, <3>1, <3>2 DEF Queued
  <2> QED
    BY <2>1, <2>5, WaitAdded
<1>4. CASE UNCHANGED <<sent, firing, due, buffer, wakes>>
  BY <1>4, EventFrame DEF Queued
<1> QED
  BY <1>1, <1>2, <1>3, <1>4 DEF CallStep, LoadPinned, LoadLatest, PinVersion, FunctionMissing,
     ReadJournal, RunOp, Suspend, Return, Throw, Persist, PersistAsk, EnqueueActions, ReturnError

LEMMA NextEventSafe ==
  ASSUME Undisturbed, AllowCancel = FALSE, WaitsExpire = FALSE,
         Typing, Owned, NewSteps, Ledger, EventSafe, [Next]_vars
  PROVE  EventSafe'
<1> USE DEF store, ticker, hist
<1>k. Kept
  BY StepKeeps
<1>1. ASSUME NEW c \in Calls, CallStep(c) PROVE EventSafe'
  BY <1>k, <1>1, CallStepEvents
<1>2. ASSUME UNCHANGED <<sent, firing, wakes, buffer>>, due' \subseteq due PROVE EventSafe'
  BY <1>k, <1>2, EventFrame DEF Queued
<1>3. CASE \/ Deploy \/ DeleteFunction \/ UNCHANGED vars
           \/ \E c \in Workers, r \in Runs : Invoke(c, r)
           \/ \E w \in due : MountFails(w)
           \/ \E c \in Workers, q \in requests, a \in Answers : Answer(c, q, a)
  BY <1>2, <1>3 DEF Deploy, DeleteFunction, vars, Invoke, MountFails, Answer
<1>4. CASE Scan
  <2>1. /\ UNCHANGED <<sent, firing, wakes, buffer, journal>> /\ due' \subseteq wakes
        /\ \A w \in due' : w.kind = "wait" => w.status = "ready"
    BY <1>4 DEF Scan, Actionable
  <2>2. \A w \in due' : Copied(w)'
    BY <2>1 DEF Copied, Owned, Distinct
  <2> QED
    BY <2>1, <2>2 DEF EventSafe, Queued, Taken, Journaled, Copied
<1>5. ASSUME NEW w \in due, Fire(w) PROVE EventSafe'
  <2>1. /\ UNCHANGED <<sent, wakes, buffer>> /\ firing' = w /\ due' \subseteq due
        /\ w \in Armed /\ w.run \in Runs /\ w.value \in Values
        /\ journal \in [Runs -> Steps] /\ journal[w.run] \in Steps
    BY <1>5, RowsTyped DEF Fire, Armed, Owned, Distinct, Typing, TypeOK, WakeRow
  <2>2. w.kind = "wait" => w.status = "ready" /\ w.key \in Keys
    BY <2>1 DEF EventSafe, NewSteps, BlankRows, Blank
  <2>3. w.kind = "wait" => journal'[w.run][w.key] = w.value
    BY <1>5, <2>1, <2>2 DEF Fire, Steps
  <2>4. \A e \in sent' : Queued(e)' \/ Taken(e)'
    BY <1>k, <2>1, TakenStays DEF EventSafe, Queued
  <2>5. \A x \in due' \cup {firing'} : Copied(x)'
    BY <2>1 DEF EventSafe, Copied
  <2> QED
    BY <2>1, <2>2, <2>3, <2>4, <2>5 DEF EventSafe
<1>6. CASE DropFired
  <2>1. /\ UNCHANGED <<sent, buffer, journal, due>> /\ firing' = NoWake
        /\ wakes' = {w \in wakes : w.id # firing.id}
    BY <1>6 DEF DropFired
  <2>2. ASSUME NEW e \in sent PROVE Queued(e)' \/ Taken(e)'
    <3>1. CASE Taken(e)
      BY <1>k, <3>1, TakenStays
    <3>2. CASE \E i \in DOMAIN buffer : buffer[i] = e
      BY <2>1, <3>2 DEF Queued
    <3>3. ASSUME NEW w \in wakes, w.status = "ready", w.value = e PROVE Queued(e)' \/ Taken(e)'
      <4>1. CASE w.id # firing.id
        BY <2>1, <3>3, <4>1 DEF Queued
      <4>2. CASE w.id = firing.id
        <5>0. Copied(firing) /\ w.kind = "wait"
          BY <3>3 DEF EventSafe
        <5>1. w.kind = "wait" /\ w = firing
          BY <4>2, <5>0 DEF Copied
        <5>2. Taken(e)
          BY <3>3, <5>1, NoneAssumption DEF EventSafe, Taken, Journaled
        <5> QED
          BY <1>k, <5>2, TakenStays
      <4> QED
        BY <4>1, <4>2
    <3> QED
      BY <3>1, <3>2, <3>3 DEF EventSafe, Queued
  <2>3. \A w \in due' \cup {firing'} : Copied(w)'
    BY <2>1, RowsTyped DEF EventSafe, Copied
  <2> QED
    BY <2>1, <2>2, <2>3 DEF EventSafe, NoWake
<1>7. ASSUME NEW e \in Events, Emit(e) PROVE EventSafe'
  <2>1. UNCHANGED <<due, firing, journal>> /\ sent' = sent \cup {e}
    BY <1>7 DEF Emit
  <2>2. CASE \E w \in wakes : Awaits(w)
    <3> DEFINE Delivered(w) == IF Awaits(w) THEN [w EXCEPT !.status = "ready", !.value = e] ELSE w
    <3>1. wakes' = {Delivered(w) : w \in wakes} /\ buffer' = buffer
      BY <1>7, <2>2 DEF Emit
    <3>2. \A w \in wakes : /\ Delivered(w).id = w.id /\ Delivered(w).kind = w.kind
                           /\ ~ Awaits(w) => Delivered(w) = w
                           /\ Awaits(w) => Delivered(w).status = "ready" /\ Delivered(w).value = e
      BY RowsTyped DEF WakeRow
    <3> HIDE DEF Delivered
    <3>3. Queued(e)'
      BY <2>2, <3>1, <3>2 DEF Queued
    <3>4. \A f \in sent : Queued(f) => Queued(f)'
      BY <3>1, <3>2 DEF Queued, Awaits
    <3>5. \A f \in sent' : Queued(f)' \/ Taken(f)'
      BY <1>k, <2>1, <3>3, <3>4, TakenStays DEF EventSafe
    <3>6. \A w \in due' \cup {firing'} : Copied(w)'
      BY <2>1, <3>1, <3>2 DEF EventSafe, Copied, Awaits
    <3>7. \A w \in wakes' : w.kind # "wait" => w.status = "pending"
      BY <3>1, <3>2 DEF EventSafe, Awaits
    <3> QED
      BY <2>1, <3>5, <3>6, <3>7 DEF EventSafe
  <2>3. CASE ~ \E w \in wakes : Awaits(w)
    <3>1. wakes' = wakes /\ buffer' = Append(buffer, e) /\ buffer \in Seq(Events)
      BY <1>7, <2>3 DEF Emit, Typing, TypeOK
    <3>2. /\ Len(buffer) + 1 \in DOMAIN buffer' /\ buffer'[Len(buffer) + 1] = e
          /\ \A i \in DOMAIN buffer : i \in DOMAIN buffer' /\ buffer'[i] = buffer[i]
      BY <3>1
    <3>3. Queued(e)' /\ \A f \in sent : Queued(f) => Queued(f)'
      BY <3>1, <3>2 DEF Queued
    <3>4. \A f \in sent' : Queued(f)' \/ Taken(f)'
      BY <1>k, <2>1, <3>3, TakenStays DEF EventSafe
    <3> QED
      BY <2>1, <3>1, <3>4 DEF EventSafe, Copied
  <2> QED
    BY <2>2, <2>3
<1>8. /\ ~ Crash /\ ~ BufferExpires /\ \A r \in Runs : ~ Cancel(r)
      /\ cancelling = {}
  BY BoundsAssumption DEF Crash, Undisturbed, Typing, TypeOK, BufferExpires, Cancel, Ledger
<1> QED
  BY <1>1, <1>3, <1>4, <1>5, <1>6, <1>7, <1>8 DEF Next, TickerStep

(* An emitted event is never lost while nothing expires and nothing is cancelled: it is
   buffered, or held by a waiter the ticker will resume, or journaled; also when it is emitted
   between the scan of the ticker and the deletion of the row it fired. *)
THEOREM EventsAreKept ==
  ASSUME Undisturbed, AllowCancel = FALSE, WaitsExpire = FALSE
  PROVE  Spec => []EventNotLost
<1> DEFINE All == Typing /\ Owned /\ NewSteps /\ Ledger /\ EventSafe
<1>1. Init => All
  BY InitTyping, InitOwned, InitNewSteps, InitLedger, InitEventSafe
<1>2. All /\ [Next]_vars => All'
  BY NextTyping, NextOwned, NextNewSteps, NextLedger, NextEventSafe
<1>3. All => EventNotLost
  BY DEF EventSafe, EventNotLost, Queued, Taken
<1> QED
  BY <1>1, <1>2, <1>3, PTL DEF Spec

=============================================================================
