---------------------------- MODULE RootRunProofs ----------------------------
(* Theorems about RootRun, for every value of its constants. *)
EXTENDS RootRun, TLAPS

(* What the program counter of a call says about its other fields. *)
Busy == {"load", "pin", "read", "exec", "persist", "register"}
Past == {"read", "exec", "persist", "register"}

CallsWellFormed ==
  \A c \in Calls :
    /\ call[c].pc \in Busy => call[c].run \in Runs
    /\ call[c].pc = "pin" => call[c].version \in Versions
    /\ call[c].pc \in Past \cup {"pin"} => call[c].body \in Bodies
    /\ call[c].outcome = "suspended" => call[c].key \in Keys

Typing == TypeOK /\ CallsWellFormed

LEMMA IdleTyped ==
  /\ IdleCall \in CallState
  /\ [IdleCall EXCEPT !.pc = "drop"] \in CallState
  /\ \A r \in Runs, a \in 1 .. MaxAttempts :
       [IdleCall EXCEPT !.pc = "load", !.run = r, !.attempt = a] \in CallState
<1>1. NoSteps \in Steps
  BY DEF NoSteps, Steps
<1>2. 1 \in 1 .. MaxAttempts
  BY BoundsAssumption
<1>3. IdleCall \in CallState
  BY <1>1, <1>2 DEF IdleCall, CallState
<1>4. [IdleCall EXCEPT !.pc = "drop"] \in CallState
  BY <1>3 DEF CallState
<1>5. ASSUME NEW r \in Runs, NEW a \in 1 .. MaxAttempts
      PROVE  [IdleCall EXCEPT !.pc = "load", !.run = r, !.attempt = a] \in CallState
  BY <1>3 DEF CallState
<1> QED
  BY <1>3, <1>4, <1>5

(* A call that enters a run, leaves it or steps within it keeps the typing of
   the calls. *)
CallsTyped == call \in [Calls -> CallState] /\ CallsWellFormed

LEMMA EnterTyped ==
  ASSUME CallsTyped, NEW c \in Calls, NEW r \in Runs, NEW a \in 1 .. MaxAttempts,
         Enter(c, r, a)
  PROVE  CallsTyped'
<1> DEFINE x == [IdleCall EXCEPT !.pc = "load", !.run = r, !.attempt = a]
<1>1. x \in CallState /\ call' = [call EXCEPT ![c] = x]
  BY IdleTyped DEF Enter
<1>2. x.pc = "load" /\ x.run \in Runs /\ x.outcome = "none"
  BY DEF IdleCall
<1>3. call' \in [Calls -> CallState]
  BY <1>1 DEF CallsTyped
<1>4. \A d \in Calls : call'[d] = IF d = c THEN x ELSE call[d]
  BY <1>1 DEF CallsTyped
<1> HIDE DEF x
<1> QED
  BY <1>2, <1>3, <1>4 DEF CallsTyped, CallsWellFormed, Busy, Past

LEMMA LeaveTyped ==
  ASSUME CallsTyped, NEW c \in Calls, Leave(c)
  PROVE  CallsTyped'
<1> DEFINE x == IF c = Ticker THEN [IdleCall EXCEPT !.pc = "drop"] ELSE IdleCall
<1>1. x \in CallState /\ call' = [call EXCEPT ![c] = x]
  BY IdleTyped DEF Leave
<1>2. x.pc \in {"idle", "drop"} /\ x.outcome = "none"
  BY DEF IdleCall
<1>3. call' \in [Calls -> CallState]
  BY <1>1 DEF CallsTyped
<1>4. \A d \in Calls : call'[d] = IF d = c THEN x ELSE call[d]
  BY <1>1 DEF CallsTyped
<1> HIDE DEF x
<1> QED
  BY <1>2, <1>3, <1>4 DEF CallsTyped, CallsWellFormed, Busy, Past

(* Steps of a call within a run: call changes at c only, to x. *)
LEMMA StepTyped ==
  ASSUME CallsTyped, NEW c \in Calls, NEW x \in CallState,
         call' = [call EXCEPT ![c] = x],
         x.run \in Runs,
         x.pc = "pin" => x.version \in Versions,
         x.body \in Bodies,
         x.outcome = "suspended" => x.key \in Keys
  PROVE  CallsTyped'
<1>1. call' \in [Calls -> CallState]
  BY DEF CallsTyped
<1>2. \A d \in Calls : call'[d] = IF d = c THEN x ELSE call[d]
  BY DEF CallsTyped
<1> QED
  BY <1>1, <1>2 DEF CallsTyped, CallsWellFormed, Busy, Past

LEMMA InitTyping == Init => Typing
<1> SUFFICES ASSUME Init PROVE Typing
  OBVIOUS
<1>1. CallsTyped
  BY IdleTyped DEF Init, CallsTyped, CallsWellFormed, IdleCall, Busy, Past
<1>2. TypeOK
  BY <1>1, BoundsAssumption DEF Init, TypeOK, CallsTyped, NoSteps, Steps, Statuses, NoWake, Versions
<1> QED
  BY <1>1, <1>2 DEF CallsTyped, Typing

(* The state that is not the calls, in two halves. *)
StoreTyped ==
  /\ functions \in [Versions -> Bodies \cup {None}]
  /\ pin \in [Runs -> Versions \cup {0}]
  /\ status \in [Runs -> Statuses]
  /\ journal \in [Runs -> Steps]
  /\ judged \in [Runs -> SUBSET {"ok", "error"}]
  /\ outbox \subseteq Runs
  /\ requests \subseteq Request
  /\ wakes \subseteq WakeRow
  /\ buffer \in Seq(Events)

RestTyped ==
  /\ due \subseteq WakeRow
  /\ firing \in WakeRow \cup {NoWake}
  /\ cancelling \subseteq Runs
  /\ crashes \in 0 .. CrashBudget
  /\ origin \in [Runs -> Bodies \cup {None}]
  /\ ran \subseteq Runs \X Keys
  /\ sent \subseteq Events
  /\ quiet \subseteq Runs

LEMMA TypingParts == Typing <=> CallsTyped /\ StoreTyped /\ RestTyped
  BY DEF Typing, TypeOK, CallsTyped, StoreTyped, RestTyped

LEMMA RecordTyped ==
  ASSUME Typing, NEW c \in Calls, RecordRun(c)
  PROVE  /\ journal' \in [Runs -> Steps]
         /\ status' \in [Runs -> Statuses]
         /\ judged' \in [Runs -> SUBSET {"ok", "error"}]
<1>1. call[c] \in CallState /\ call[c].run \in Runs
  BY DEF Typing, TypeOK, CallsWellFormed, RecordRun, Busy
<1>2. Recorded(c) \in Steps
  BY <1>1 DEF Recorded, Steps, CallState, Typing, TypeOK
<1>3. OutcomeStatus(c) \in Statuses
  BY DEF OutcomeStatus, Statuses
<1>4. Verdict(c) \subseteq {"ok", "error"}
  BY DEF Verdict
<1> QED
  BY <1>1, <1>2, <1>3, <1>4 DEF RecordRun, Typing, TypeOK

LEMMA AddTyped ==
  ASSUME Typing, NEW c \in Calls, call[c].pc = "register",
         NEW kind \in {"resume", "retry", "wait"}, NEW a \in 1 .. MaxAttempts,
         NEW st \in {"pending", "ready"}, NEW v \in Values, AddWake(c, kind, a, st, v)
  PROVE  wakes' \subseteq WakeRow
<1>1. call[c].run \in Runs /\ call[c].key \in Keys \cup {None}
  BY DEF Typing, TypeOK, CallsWellFormed, CallState, Busy
<1> QED
  BY <1>1 DEF AddWake, WakeRow, Typing, TypeOK

LEMMA CallStepTyping ==
  ASSUME Typing, NEW c \in Calls, CallStep(c)
  PROVE  Typing'
<1>0. /\ CallsTyped /\ StoreTyped /\ RestTyped
      /\ call[c] \in CallState
  BY TypingParts DEF CallsTyped
<1> SUFFICES CallsTyped' /\ StoreTyped' /\ RestTyped'
  BY DEF Typing, TypeOK, CallsTyped, StoreTyped, RestTyped
<1>17. 1 \in 1 .. MaxAttempts
  BY BoundsAssumption
<1> USE DEF store, ticker, hist
<1>1. CASE LoadPinned(c)
  <2>1. PICK v \in Versions :
          /\ functions[v] \in Bodies
          /\ call' = [call EXCEPT ![c].pc = "read", ![c].body = functions[v]]
    BY <1>0, <1>1 DEF LoadPinned, Loads, StoreTyped
  <2> DEFINE x == [call[c] EXCEPT !.pc = "read", !.body = functions[v]]
  <2>2. call' = [call EXCEPT ![c] = x]
    BY <1>1, <2>1 DEF LoadPinned
  <2>3. /\ x \in CallState /\ x.run \in Runs /\ x.body \in Bodies
        /\ x.pc # "pin" \/ x.version \in Versions
        /\ x.outcome = "suspended" => x.key \in Keys
    BY <1>0, <1>1, <2>1 DEF CallState, LoadPinned, CallsTyped, CallsWellFormed, Busy, Past
  <2> HIDE DEF x
  <2>4. CallsTyped'
    BY <1>0, <2>2, <2>3, StepTyped
  <2> QED
    BY <1>0, <1>1, <2>4 DEF LoadPinned, StoreTyped, RestTyped
<1>2. CASE LoadLatest(c)
  <2>1. PICK v \in Versions :
          /\ functions[v] \in Bodies
          /\ call' = [call EXCEPT ![c].pc = "pin", ![c].body = functions[v], ![c].version = v]
    BY <1>0, <1>2 DEF LoadLatest, Loads, StoreTyped
  <2> DEFINE x == [call[c] EXCEPT !.pc = "pin", !.body = functions[v], !.version = v]
  <2>2. call' = [call EXCEPT ![c] = x]
    BY <1>2, <2>1 DEF LoadLatest
  <2>3. /\ x \in CallState /\ x.run \in Runs /\ x.body \in Bodies
        /\ x.pc # "pin" \/ x.version \in Versions
        /\ x.outcome = "suspended" => x.key \in Keys
    BY <1>0, <1>2, <2>1 DEF CallState, LoadLatest, CallsTyped, CallsWellFormed, Busy, Past
  <2> HIDE DEF x
  <2>4. CallsTyped'
    BY <1>0, <2>2, <2>3, StepTyped
  <2> QED
    BY <1>0, <1>2, <2>4 DEF LoadLatest, StoreTyped, RestTyped
<1>3. CASE PinVersion(c)
  <2> DEFINE x == [call[c] EXCEPT !.pc = "read", !.version = 0]
  <2>2. call' = [call EXCEPT ![c] = x]
    BY <1>3 DEF PinVersion
  <2>3. /\ x \in CallState /\ x.run \in Runs /\ x.body \in Bodies
        /\ x.pc # "pin" \/ x.version \in Versions
        /\ x.outcome = "suspended" => x.key \in Keys
    BY <1>0, <1>3 DEF CallState, PinVersion, CallsTyped, CallsWellFormed, Busy, Past
  <2> HIDE DEF x
  <2>4. CallsTyped'
    BY <1>0, <2>2, <2>3, StepTyped
  <2> QED
    BY <1>0, <1>3, <2>4 DEF PinVersion, StoreTyped, CallsTyped, CallsWellFormed, Past, Busy, RestTyped
<1>4. CASE FunctionMissing(c)
  BY <1>0, <1>4, LeaveTyped DEF FunctionMissing, StoreTyped, RestTyped
<1>5. CASE ReadJournal(c)
  <2>1. journal[call[c].run] \in Steps
    BY <1>0, <1>5 DEF ReadJournal, StoreTyped, CallsTyped, CallsWellFormed, Busy
  <2> DEFINE x == [call[c] EXCEPT !.pc = "exec", !.prior = journal[call[c].run]]
  <2>2. call' = [call EXCEPT ![c] = x]
    BY <1>5 DEF ReadJournal
  <2>3. /\ x \in CallState /\ x.run \in Runs /\ x.body \in Bodies
        /\ x.pc # "pin" \/ x.version \in Versions
        /\ x.outcome = "suspended" => x.key \in Keys
    BY <1>0, <1>5, <2>1 DEF CallState, ReadJournal, CallsTyped, CallsWellFormed, Busy, Past
  <2> HIDE DEF x
  <2>4. CallsTyped'
    BY <1>0, <2>2, <2>3, StepTyped
  <2> QED
    BY <1>0, <1>5, <2>4 DEF ReadJournal, StoreTyped, RestTyped
<1>6. CASE RunOp(c)
  <2>1. PICK k \in Keys, v \in Results :
          /\ AtStep(c, k)
          /\ call' = [call EXCEPT ![c].fresh[k] = v]
          /\ ran' = ran \cup {<<call[c].run, k>>}
    BY <1>6 DEF RunOp
  <2>5. [call[c].fresh EXCEPT ![k] = v] \in Steps
    BY <1>0 DEF CallState, Steps, Values
  <2> DEFINE x == [call[c] EXCEPT !.fresh = [call[c].fresh EXCEPT ![k] = v]]
  <2>2. call' = [call EXCEPT ![c] = x]
    BY <1>6, <2>1 DEF RunOp, AtStep
  <2>3. /\ x \in CallState /\ x.run \in Runs /\ x.body \in Bodies
        /\ x.pc # "pin" \/ x.version \in Versions
        /\ x.outcome = "suspended" => x.key \in Keys
    BY <1>0, <1>6, <2>1, <2>5 DEF CallState, RunOp, AtStep, CallsTyped, CallsWellFormed, Busy, Past
  <2> HIDE DEF x
  <2>4. CallsTyped'
    BY <1>0, <2>2, <2>3, StepTyped
  <2> QED
    BY <1>0, <1>6, <2>1, <2>4 DEF RunOp, AtStep, StoreTyped, CallsTyped, CallsWellFormed, Past, Busy, RestTyped
<1>7. CASE Suspend(c)
  <2>1. PICK k \in Keys :
          /\ AtStep(c, k)
          /\ call' = [call EXCEPT ![c].pc = "persist", ![c].outcome = "suspended", ![c].key = k]
    BY <1>7 DEF Suspend
  <2> DEFINE x == [call[c] EXCEPT !.pc = "persist", !.outcome = "suspended", !.key = k]
  <2>2. call' = [call EXCEPT ![c] = x]
    BY <1>7, <2>1 DEF Suspend, AtStep
  <2>3. /\ x \in CallState /\ x.run \in Runs /\ x.body \in Bodies
        /\ x.pc # "pin" \/ x.version \in Versions
        /\ x.outcome = "suspended" => x.key \in Keys
    BY <1>0, <1>7, <2>1 DEF CallState, Suspend, AtStep, CallsTyped, CallsWellFormed, Busy, Past
  <2> HIDE DEF x
  <2>4. CallsTyped'
    BY <1>0, <2>2, <2>3, StepTyped
  <2> QED
    BY <1>0, <1>7, <2>4 DEF Suspend, StoreTyped, RestTyped
<1>8. CASE Return(c)
  <2> DEFINE x == [call[c] EXCEPT !.pc = "persist", !.outcome = "done"]
  <2>2. call' = [call EXCEPT ![c] = x]
    BY <1>8 DEF Return, AtEnd
  <2>3. /\ x \in CallState /\ x.run \in Runs /\ x.body \in Bodies
        /\ x.pc # "pin" \/ x.version \in Versions
        /\ x.outcome = "suspended" => x.key \in Keys
    BY <1>0, <1>8 DEF CallState, Return, AtEnd, CallsTyped, CallsWellFormed, Busy, Past
  <2> HIDE DEF x
  <2>4. CallsTyped'
    BY <1>0, <2>2, <2>3, StepTyped
  <2> QED
    BY <1>0, <1>8, <2>4 DEF Return, StoreTyped, RestTyped
<1>9. CASE Throw(c)
  <2>1. PICK o \in Failures :
          call' = [call EXCEPT ![c].pc = "persist", ![c].outcome = o]
    BY <1>9 DEF Throw
  <2>5. o \in {"failed", "fatal"}
    BY BoundsAssumption
  <2> DEFINE x == [call[c] EXCEPT !.pc = "persist", !.outcome = o]
  <2>2. call' = [call EXCEPT ![c] = x]
    BY <1>9, <2>1 DEF Throw
  <2>3. /\ x \in CallState /\ x.run \in Runs /\ x.body \in Bodies
        /\ x.pc # "pin" \/ x.version \in Versions
        /\ x.outcome = "suspended" => x.key \in Keys
    BY <1>0, <1>9, <2>1, <2>5 DEF CallState, Throw, CallsTyped, CallsWellFormed, Busy, Past
  <2> HIDE DEF x
  <2>4. CallsTyped'
    BY <1>0, <2>2, <2>3, StepTyped
  <2> QED
    BY <1>0, <1>9, <2>4 DEF Throw, StoreTyped, RestTyped
<1>10. CASE Persist(c)
  <2> DEFINE x == [call[c] EXCEPT !.pc = "register"]
  <2>2. call' = [call EXCEPT ![c] = x]
    BY <1>10 DEF Persist, RecordRun
  <2>3. /\ x \in CallState /\ x.run \in Runs /\ x.body \in Bodies
        /\ x.pc # "pin" \/ x.version \in Versions
        /\ x.outcome = "suspended" => x.key \in Keys
    BY <1>0, <1>10 DEF CallState, Persist, RecordRun, CallsTyped, CallsWellFormed, Busy, Past
  <2> HIDE DEF x
  <2>4. CallsTyped'
    BY <1>0, <2>2, <2>3, StepTyped
  <2> QED
    BY <1>0, <1>10, <2>4, RecordTyped DEF Persist, StoreTyped, RestTyped
<1>11. CASE PersistAsk(c)
  <2>1. PICK id \in RowIds : requests' = requests \cup
          {[id |-> id, run |-> call[c].run, key |-> call[c].key, status |-> "pending"]}
    BY <1>11 DEF PersistAsk
  <2>2. requests' \subseteq Request
    BY <1>0, <1>11, <2>1 DEF PersistAsk, RecordRun, Suspends, Request, StoreTyped, CallsTyped,
                             CallsWellFormed, Busy
  <2> QED
    BY <1>0, <1>11, <2>2, LeaveTyped, RecordTyped DEF PersistAsk, StoreTyped, RestTyped
<1>12. CASE RegisterTimer(c)
  <2>1. wakes' \subseteq WakeRow
    BY <1>0, <1>12, AddTyped, <1>17 DEF RegisterTimer, Suspends, Retries, StoreTyped, Values
  <2> QED
    BY <1>0, <1>12, <2>1, LeaveTyped DEF RegisterTimer, StoreTyped, RestTyped
<1>13. CASE RegisterWaiter(c)
  <2>2. buffer # <<>> => Head(buffer) \in Events /\ Tail(buffer) \in Seq(Events)
    BY <1>0 DEF StoreTyped
  <2>1. wakes' \subseteq WakeRow
    BY <1>0, <1>13, AddTyped, <1>17, <2>2 DEF RegisterWaiter, Suspends, Retries, StoreTyped, Values
  <2> QED
    BY <1>0, <1>13, <2>1, <2>2, LeaveTyped DEF RegisterWaiter, StoreTyped, RestTyped
<1>14. CASE RegisterRetry(c)
  <2>2. call[c].attempt + 1 \in 1 .. MaxAttempts
    BY <1>0, <1>14, BoundsAssumption DEF RegisterRetry, Retries, CallState
  <2>1. wakes' \subseteq WakeRow
    BY <1>0, <1>14, AddTyped, <2>2 DEF RegisterRetry, Suspends, Retries, StoreTyped, Values
  <2> QED
    BY <1>0, <1>14, <2>1, <2>2, LeaveTyped DEF RegisterRetry, StoreTyped, RestTyped
<1>15. CASE EnqueueActions(c)
  BY <1>0, <1>15, LeaveTyped DEF EnqueueActions, StoreTyped, RestTyped, CallsTyped,
                                 CallsWellFormed, Busy
<1>16. CASE ReturnError(c)
  BY <1>0, <1>16, LeaveTyped DEF ReturnError, StoreTyped, RestTyped
<1> QED
  BY <1>1, <1>2, <1>3, <1>4, <1>5, <1>6, <1>7, <1>8, <1>9, <1>10, <1>11, <1>12, <1>13,
     <1>14, <1>15, <1>16 DEF CallStep

LEMMA NextTyping == Typing /\ [Next]_vars => Typing'
<1> SUFFICES ASSUME Typing, [Next]_vars PROVE Typing'
  OBVIOUS
<1>0. CallsTyped /\ StoreTyped /\ RestTyped
  BY TypingParts
<1> USE DEF store, ticker, hist
<1>1. CASE Deploy
  BY <1>0, <1>1 DEF Deploy, Typing, TypeOK, CallsTyped, CallsWellFormed, StoreTyped, RestTyped
<1>2. CASE DeleteFunction
  BY <1>0, <1>2 DEF DeleteFunction, Typing, TypeOK, CallsTyped, CallsWellFormed, StoreTyped,
                    RestTyped
<1>3. ASSUME NEW c \in Workers, NEW r \in Runs, Invoke(c, r)
      PROVE  Typing'
  <2>1. CallsTyped'
    BY <1>0, <1>3, EnterTyped, BoundsAssumption DEF Invoke, Calls
  <2> QED
    BY <1>0, <1>3, <2>1 DEF Invoke, Typing, TypeOK, CallsTyped, StoreTyped, RestTyped
<1>4. ASSUME NEW c \in Calls, CallStep(c)
      PROVE  Typing'
  BY <1>4, CallStepTyping
<1>5. CASE Scan
  <2>1. due' \subseteq wakes
    BY <1>5 DEF Scan
  <2> QED
    BY <1>0, <1>5, <2>1 DEF Scan, Typing, TypeOK, CallsTyped, CallsWellFormed, StoreTyped,
                            RestTyped
<1>6. ASSUME NEW w \in due, Fire(w)
      PROVE  Typing'
  <2>1. w \in WakeRow /\ w.run \in Runs /\ w.attempt \in 1 .. MaxAttempts /\ w.value \in Values
    BY <1>0 DEF RestTyped, WakeRow
  <2>2. CallsTyped'
    BY <1>0, <1>6, <2>1, EnterTyped DEF Fire, Calls
  <2>3. journal' \in [Runs -> Steps]
    <3> DEFINE v == IF w.status = "ready" THEN w.value ELSE Null
    <3>1. v \in Values
      BY <2>1 DEF Values
    <3>2. [journal[w.run] EXCEPT ![w.key] = v] \in Steps
      BY <1>0, <2>1, <3>1 DEF StoreTyped, Steps
    <3>3. journal' = journal \/ journal' = [journal EXCEPT ![w.run] = [journal[w.run] EXCEPT ![w.key] = v]]
      BY <1>6 DEF Fire
    <3> HIDE DEF v
    <3> QED
      BY <1>0, <3>2, <3>3 DEF StoreTyped
  <2> QED
    BY <1>0, <1>6, <2>1, <2>2, <2>3 DEF Fire, Typing, TypeOK, CallsTyped, StoreTyped, RestTyped
<1>7. ASSUME NEW w \in due, MountFails(w)
      PROVE  Typing'
  BY <1>0, <1>7 DEF MountFails, Typing, TypeOK, CallsTyped, CallsWellFormed, StoreTyped, RestTyped
<1>8. CASE DropFired
  <2>1. CallsTyped'
    <3>1. \A d \in Calls : call'[d] = IF d = Ticker THEN IdleCall ELSE call[d]
      BY <1>0, <1>8 DEF DropFired, CallsTyped, Calls
    <3>2. IdleCall.pc = "idle" /\ IdleCall.outcome = "none"
      BY DEF IdleCall
    <3>3. call' \in [Calls -> CallState]
      BY <1>0, <1>8, IdleTyped DEF DropFired, CallsTyped
    <3> QED
      BY <1>0, <3>1, <3>2, <3>3 DEF CallsTyped, CallsWellFormed, Busy, Past
  <2> QED
    BY <1>0, <1>8, <2>1 DEF DropFired, Typing, TypeOK, CallsTyped, StoreTyped, RestTyped
<1>9. ASSUME NEW c \in Workers, NEW q \in requests, NEW a \in Answers, Answer(c, q, a)
      PROVE  Typing'
  <2>1. q \in Request /\ q.run \in Runs /\ q.key \in Keys /\ [q EXCEPT !.status = "answered"] \in Request
    BY <1>0 DEF StoreTyped, Request
  <2>2. CallsTyped'
    BY <1>0, <1>9, <2>1, EnterTyped, BoundsAssumption DEF Answer, Calls
  <2>3. journal' \in [Runs -> Steps]
    <3>1. [journal[q.run] EXCEPT ![q.key] = a] \in Steps
      BY <1>0, <2>1 DEF StoreTyped, Steps, Values
    <3>2. journal' = [journal EXCEPT ![q.run] = [journal[q.run] EXCEPT ![q.key] = a]]
      BY <1>9 DEF Answer
    <3> QED
      BY <1>0, <3>1, <3>2 DEF StoreTyped
  <2>4. requests' \subseteq Request
    BY <1>0, <1>9, <2>1 DEF Answer, StoreTyped
  <2> QED
    BY <1>0, <1>9, <2>2, <2>3, <2>4 DEF Answer, Typing, TypeOK, CallsTyped, StoreTyped, RestTyped
<1>10. ASSUME NEW r \in Runs, Cancel(r)
       PROVE  Typing'
  <2>1. status' \in [Runs -> Statuses]
    BY <1>0, <1>10 DEF Cancel, StoreTyped, Statuses
  <2> QED
    BY <1>0, <1>10, <2>1 DEF Cancel, Typing, TypeOK, CallsTyped, CallsWellFormed, StoreTyped,
                             RestTyped
<1>11. ASSUME NEW r \in cancelling, CancelPrimary(r)
       PROVE  Typing'
  BY <1>0, <1>11 DEF CancelPrimary, Typing, TypeOK, CallsTyped, CallsWellFormed, StoreTyped,
                     RestTyped
<1>12. ASSUME NEW e \in Events, Emit(e)
       PROVE  Typing'
  <2>1. \A w \in wakes : [w EXCEPT !.status = "ready", !.value = e] \in WakeRow
    BY <1>0 DEF StoreTyped, WakeRow, Values
  <2>2. wakes' \subseteq WakeRow /\ buffer' \in Seq(Events)
    <3>1. CASE \E w \in wakes : Awaits(w)
      <4>1. /\ wakes' = {IF Awaits(w) THEN [w EXCEPT !.status = "ready", !.value = e]
                                       ELSE w : w \in wakes}
            /\ buffer' = buffer
        BY <1>12, <3>1 DEF Emit
      <4>2. \A x \in wakes' : x \in WakeRow
        BY <1>0, <2>1, <4>1 DEF StoreTyped
      <4> QED
        BY <1>0, <4>1, <4>2 DEF StoreTyped
    <3>2. CASE ~ \E w \in wakes : Awaits(w)
      <4>1. wakes' = wakes /\ buffer' = Append(buffer, e)
        BY <1>12, <3>2 DEF Emit
      <4> QED
        BY <1>0, <4>1 DEF StoreTyped
    <3> QED
      BY <3>1, <3>2
  <2> QED
    BY <1>0, <1>12, <2>2 DEF Emit, Typing, TypeOK, CallsTyped, CallsWellFormed, StoreTyped,
                                   RestTyped
<1>13. CASE BufferExpires
  <2>1. buffer' \in Seq(Events)
    BY <1>0, <1>13 DEF BufferExpires, StoreTyped
  <2> QED
    BY <1>0, <1>13, <2>1 DEF BufferExpires, Typing, TypeOK, CallsTyped, CallsWellFormed,
                             StoreTyped, RestTyped
<1>14. CASE Crash
  <2>1. CallsTyped'
    BY <1>14, IdleTyped DEF Crash, CallsTyped, CallsWellFormed, IdleCall, Busy, Past
  <2>2. crashes' \in 0 .. CrashBudget
    BY <1>0, <1>14, BoundsAssumption DEF Crash, RestTyped
  <2> QED
    BY <1>0, <1>14, <2>1, <2>2 DEF Crash, Typing, TypeOK, CallsTyped, StoreTyped, RestTyped
<1>15. CASE UNCHANGED vars
  BY <1>0, <1>15 DEF vars, Typing, TypeOK, CallsTyped, CallsWellFormed, StoreTyped, RestTyped
<1> QED
  BY <1>1, <1>2, <1>3, <1>4, <1>5, <1>6, <1>7, <1>8, <1>9, <1>10, <1>11, <1>12, <1>13,
     <1>14, <1>15 DEF Next, TickerStep

(* Every variable keeps its type, and the counters their bounds: the retry cap
   and the crash budget.  The code behaviour is every handler of the run
   lifecycle. *)
THEOREM TypeCorrect == Spec => []TypeOK
<1>1. Typing => TypeOK
  BY DEF Typing
<1> QED
  BY InitTyping, NextTyping, <1>1, PTL DEF Spec

-----------------------------------------------------------------------------
(* A run is pinned to the version it started on.  While no version is deleted,
   the pinned version keeps its body; a run without a pin is known to one call
   only, and nothing can wake it. *)
Rows == wakes \cup due \cup requests

Pinning ==
  /\ \A r \in Runs : pin[r] # 0 => functions[pin[r]] \in Bodies /\ functions[pin[r]] = origin[r]
  /\ \A r \in Runs : pin[r] = 0 => origin[r] = None
  /\ \A c \in Calls : call[c].pc = "pin" =>
       pin[call[c].run] = 0 /\ functions[call[c].version] = call[c].body
  /\ \A c \in Calls : call[c].pc \in Past =>
       pin[call[c].run] # 0 /\ call[c].body = origin[call[c].run]
  /\ \A c, d \in Calls : c # d /\ call[c].run \in Runs /\ pin[call[c].run] = 0 =>
       call[d].run # call[c].run
  /\ \A w \in Rows : pin[w.run] # 0

(* The shape of most steps of a call c: versions and pins stay, rows refer to
   pinned runs, and c either leaves, or continues or enters a pinned run. *)
LEMMA PinFrame ==
  ASSUME Typing, Pinning, NEW c \in Calls,
         UNCHANGED <<functions, pin, origin>>,
         \A d \in Calls : d # c => call'[d] = call[d],
         call'[c].pc # "pin",
         call'[c].pc \in Past =>
           pin[call'[c].run] # 0 /\ call'[c].body = origin[call'[c].run],
         call'[c].run \in Runs => call'[c].run = call[c].run \/ pin[call'[c].run] # 0,
         \A w \in Rows' : pin[w.run] # 0
  PROVE  Pinning'
<1>1. \A e, d \in Calls : e # d /\ call'[e].run \in Runs /\ pin[call'[e].run] = 0 =>
        call'[d].run # call'[e].run
  <2> SUFFICES ASSUME NEW e \in Calls, NEW d \in Calls, e # d, call'[e].run \in Runs,
                      pin[call'[e].run] = 0, call'[d].run = call'[e].run
               PROVE  FALSE
    OBVIOUS
  <2>1. call[e].run = call'[e].run /\ call[d].run = call'[d].run
    OBVIOUS
  <2> QED
    BY <2>1 DEF Pinning
<1> QED
  BY <1>1 DEF Pinning

(* Steps that leave the calls alone. *)
LEMMA PinFrameIdle ==
  ASSUME Pinning, UNCHANGED <<functions, pin, origin, call>>,
         \A w \in Rows' : pin[w.run] # 0
  PROVE  Pinning'
  BY DEF Pinning

LEMMA LeaveShape ==
  ASSUME Typing, NEW c \in Calls, Leave(c)
  PROVE  /\ \A d \in Calls : d # c => call'[d] = call[d]
         /\ call'[c].pc \in {"idle", "drop"} /\ call'[c].run = None
         /\ call'[c].outcome = "none" /\ call'[c].key = None
         /\ call'[c].prior = NoSteps /\ call'[c].fresh = NoSteps
  BY DEF Leave, IdleCall, Typing, TypeOK

LEMMA EnterShape ==
  ASSUME Typing, NEW c \in Calls, NEW r, NEW a, Enter(c, r, a)
  PROVE  /\ \A d \in Calls : d # c => call'[d] = call[d]
         /\ call'[c].pc = "load" /\ call'[c].run = r
         /\ call'[c].outcome = "none" /\ call'[c].key = None
         /\ call'[c].prior = NoSteps /\ call'[c].fresh = NoSteps
  BY DEF Enter, IdleCall, Typing, TypeOK

(* Registering a row adds one of the run of the call. *)
LEMMA AddShape ==
  ASSUME NEW c \in Calls, NEW kind, NEW a, NEW st, NEW v, AddWake(c, kind, a, st, v)
  PROVE  \A w \in wakes' : w \in wakes \/ (w.run = call[c].run /\ w.key = call[c].key)
  BY DEF AddWake

(* Delivering an event keeps the rows, their runs and their keys. *)
LEMMA EmitShape ==
  ASSUME Typing, NEW e \in Events, Emit(e)
  PROVE  \A w \in wakes' : \E x \in wakes : w.id = x.id /\ w.run = x.run /\ w.key = x.key
<1>1. CASE \E w \in wakes : Awaits(w)
  <2>1. wakes' = {IF Awaits(w) THEN [w EXCEPT !.status = "ready", !.value = e]
                               ELSE w : w \in wakes}
    BY <1>1 DEF Emit
  <2>2. \A x \in wakes : LET y == [x EXCEPT !.status = "ready", !.value = e]
                         IN  y.id = x.id /\ y.run = x.run /\ y.key = x.key
    BY DEF Typing, TypeOK, WakeRow
  <2> QED
    BY <2>1, <2>2
<1>2. CASE ~ \E w \in wakes : Awaits(w)
  BY <1>2 DEF Emit
<1> QED
  BY <1>1, <1>2

LEMMA InitPinning == Init => Pinning
  BY NoneAssumption DEF Init, Pinning, Rows, IdleCall, Past

LEMMA CallStepPinning ==
  ASSUME Typing, Pinning, NEW c \in Calls, CallStep(c)
  PROVE  Pinning'
<1> USE DEF store, ticker, hist
<1>0. call \in [Calls -> CallState] /\ call[c].pc \in Busy /\ call[c].run \in Runs
  BY DEF CallStep, LoadPinned, LoadLatest, PinVersion, FunctionMissing, ReadJournal, RunOp, Suspend,
         Return, Throw, Persist, PersistAsk, RegisterTimer, RegisterWaiter, RegisterRetry,
         EnqueueActions, ReturnError, RecordRun, AtStep, AtEnd, Busy, Typing, TypeOK, CallsWellFormed
<1>1. CASE LoadPinned(c)
  <2>1. /\ call'[c].pc = "read" /\ call'[c].run = call[c].run
        /\ call'[c].body = functions[pin[call[c].run]] /\ pin[call[c].run] # 0
        /\ \A d \in Calls : d # c => call'[d] = call[d]
    BY <1>0, <1>1 DEF LoadPinned, Loads
  <2>2. call'[c].body = origin[call[c].run]
    BY <1>0, <2>1 DEF Pinning
  <2>3. UNCHANGED <<functions, pin, origin, wakes, due, requests>>
    BY <1>1 DEF LoadPinned
  <2> QED
    BY <1>0, <2>1, <2>2, <2>3, PinFrame DEF Rows, Pinning
<1>2. CASE LoadLatest(c)
  <2>1. PICK v \in Versions :
          call' = [call EXCEPT ![c].pc = "pin", ![c].body = functions[v], ![c].version = v]
    BY <1>2 DEF LoadLatest
  <2>2. /\ call'[c].pc = "pin" /\ call'[c].run = call[c].run
        /\ call'[c].body = functions[call'[c].version] /\ pin[call[c].run] = 0
        /\ \A d \in Calls : d # c => call'[d] = call[d]
    BY <1>0, <1>2, <2>1 DEF LoadLatest, CallState
  <2>3. UNCHANGED <<functions, pin, origin, wakes, due, requests>>
    BY <1>2 DEF LoadLatest
  <2> QED
    BY <1>0, <2>2, <2>3 DEF Pinning, Rows, Past
<1>3. CASE PinVersion(c)
  <2> DEFINE r == call[c].run
  <2>1. /\ call'[c].pc = "read" /\ call'[c].run = r /\ call'[c].body = call[c].body
        /\ \A d \in Calls : d # c => call'[d] = call[d]
        /\ pin' = [pin EXCEPT ![r] = call[c].version]
        /\ origin' = [origin EXCEPT ![r] = call[c].body]
        /\ UNCHANGED <<functions, wakes, due, requests>>
        /\ call[c].pc = "pin"
    BY <1>0, <1>3 DEF PinVersion
  <2>2. /\ pin \in [Runs -> Versions \cup {0}] /\ origin \in [Runs -> Bodies \cup {None}]
        /\ call[c].version \in Versions /\ 0 \notin Versions /\ call[c].body \in Bodies
        /\ functions[call[c].version] = call[c].body /\ pin[r] = 0
    BY <1>0, <2>1 DEF Typing, TypeOK, CallsWellFormed, Pinning, Versions
  <2>3. \A d \in Calls : d # c => call[d].run # r
    BY <1>0, <2>2 DEF Pinning
  <2>4. \A d \in Calls : call[d].pc \in Busy => call[d].run \in Runs
    BY DEF Typing, CallsWellFormed
  <2>5. /\ pin'[r] = call[c].version /\ origin'[r] = call[c].body
        /\ \A s \in Runs : s # r => pin'[s] = pin[s] /\ origin'[s] = origin[s]
    BY <1>0, <2>1, <2>2
  <2>6. \A w \in Rows : w.run \in Runs /\ w.run # r
    BY <2>2 DEF Pinning, Rows, Typing, TypeOK, WakeRow, Request
  <2>7. Rows' = Rows
    BY <2>1 DEF Rows
  <2> HIDE DEF r
  <2>8. \A s \in Runs : pin'[s] # 0 => functions'[pin'[s]] \in Bodies /\ functions'[pin'[s]] = origin'[s]
    BY <2>1, <2>2, <2>5 DEF Pinning
  <2>9. \A s \in Runs : pin'[s] = 0 => origin'[s] = None
    BY <2>1, <2>2, <2>5 DEF Pinning
  <2>10. \A d \in Calls : call'[d].pc = "pin" =>
           pin'[call'[d].run] = 0 /\ functions'[call'[d].version] = call'[d].body
    BY <2>1, <2>3, <2>4, <2>5 DEF Pinning, Busy
  <2>11. \A d \in Calls : call'[d].pc \in Past =>
           pin'[call'[d].run] # 0 /\ call'[d].body = origin'[call'[d].run]
    BY <2>1, <2>2, <2>3, <2>4, <2>5 DEF Pinning, Busy, Past
  <2>12. \A e, d \in Calls : e # d /\ call'[e].run \in Runs /\ pin'[call'[e].run] = 0 =>
           call'[d].run # call'[e].run
    BY <1>0, <2>1, <2>2, <2>5 DEF Pinning, r
  <2> QED
    BY <2>5, <2>6, <2>7, <2>8, <2>9, <2>10, <2>11, <2>12 DEF Pinning
<1>4. ASSUME Leave(c), UNCHANGED <<functions, pin, origin>>, \A w \in Rows' : pin[w.run] # 0
      PROVE  Pinning'
  <2>1. None \notin Runs
    BY NoneAssumption
  <2> QED
    BY <1>4, <2>1, LeaveShape, PinFrame DEF Past
<1>5. CASE FunctionMissing(c) \/ ReturnError(c) \/ EnqueueActions(c)
  BY <1>4, <1>5 DEF FunctionMissing, ReturnError, EnqueueActions, Rows, Pinning
<1>6. CASE RegisterTimer(c) \/ RegisterWaiter(c) \/ RegisterRetry(c)
  <2>1. pin[call[c].run] # 0
    BY <1>6 DEF RegisterTimer, RegisterWaiter, RegisterRetry, Pinning, Past
  <2>2. \A w \in wakes' : w \in wakes \/ w.run = call[c].run
    BY <1>6, AddShape DEF RegisterTimer, RegisterWaiter, RegisterRetry
  <2> QED
    BY <1>4, <1>6, <2>1, <2>2 DEF RegisterTimer, RegisterWaiter, RegisterRetry, Rows, Pinning
<1>7. CASE PersistAsk(c)
  <2>1. pin[call[c].run] # 0
    BY <1>7 DEF PersistAsk, RecordRun, Pinning, Past
  <2>2. \A q \in requests' : q \in requests \/ q.run = call[c].run
    BY <1>7 DEF PersistAsk
  <2> QED
    BY <1>4, <1>7, <2>1, <2>2 DEF PersistAsk, Rows, Pinning
<1>8. ASSUME call[c].pc \in Past, call'[c].pc \in Past,
             call'[c].run = call[c].run, call'[c].body = call[c].body,
             \A d \in Calls : d # c => call'[d] = call[d],
             UNCHANGED <<functions, pin, origin, wakes, due, requests>>
      PROVE  Pinning'
  BY <1>8, PinFrame DEF Pinning, Rows, Past
<1>9. CASE ReadJournal(c)
  BY <1>0, <1>8, <1>9 DEF ReadJournal, Past
<1>13. CASE Return(c)
  BY <1>0, <1>8, <1>13 DEF Return, AtEnd, Past
<1>14. CASE Persist(c)
  BY <1>0, <1>8, <1>14 DEF Persist, RecordRun, Past
<1>10. CASE RunOp(c)
  <2>1. PICK k \in Keys, v \in Results : call' = [call EXCEPT ![c].fresh[k] = v]
    BY <1>10 DEF RunOp
  <2> QED
    BY <1>0, <1>8, <1>10, <2>1 DEF RunOp, AtStep, Past
<1>11. CASE Suspend(c)
  BY <1>0, <1>8, <1>11 DEF Suspend, AtStep, Past
<1>12. CASE Throw(c)
  BY <1>0, <1>8, <1>12 DEF Throw, Past
<1> QED
  BY <1>1, <1>2, <1>3, <1>5, <1>6, <1>7, <1>9, <1>10, <1>11, <1>12, <1>13,
     <1>14 DEF CallStep

LEMMA NextPinning ==
  ASSUME AllowDelete = FALSE, Typing, Pinning, [Next]_vars
  PROVE  Pinning'
<1> USE DEF store, ticker, hist
<1>0. call \in [Calls -> CallState] /\ Workers \subseteq Calls /\ Ticker \in Calls
  BY DEF Typing, TypeOK, Calls
<1>1. CASE Deploy
  <2>1. PICK v \in Versions, b \in Bodies :
          /\ \A u \in Versions : functions[u] # None <=> u < v
          /\ functions' = [functions EXCEPT ![v] = b]
    BY <1>1 DEF Deploy
  <2>6. functions[v] = None
    <3>1. ~ (v < v)
      BY BoundsAssumption DEF Versions
    <3> QED
      BY <2>1, <3>1
  <2>2. \A u \in Versions : functions[u] \in Bodies => functions'[u] = functions[u]
    BY <2>1, <2>6, NoneAssumption DEF Typing, TypeOK
  <2>3. UNCHANGED <<pin, origin, call, wakes, due, requests>>
    BY <1>1 DEF Deploy
  <2>4. \A r \in Runs : pin[r] # 0 => pin[r] \in Versions
    BY DEF Typing, TypeOK
  <2>5. \A c \in Calls : call[c].pc = "pin" => call[c].version \in Versions /\ call[c].body \in Bodies
    BY DEF Typing, CallsWellFormed
  <2> QED
    BY <2>2, <2>3, <2>4, <2>5 DEF Pinning, Rows
<1>2. CASE DeleteFunction
  BY <1>2 DEF DeleteFunction
<1>3. ASSUME NEW c \in Workers, NEW r \in Runs, Invoke(c, r)
      PROVE  Pinning'
  <2>1. /\ \A d \in Calls : d # c => call'[d] = call[d]
        /\ call'[c].pc = "load" /\ call'[c].run = r
        /\ \A d \in Calls : call[d].run # r
    BY <1>0, <1>3, EnterShape DEF Invoke
  <2>2. UNCHANGED <<functions, pin, origin, wakes, due, requests>>
    BY <1>3 DEF Invoke
  <2> QED
    BY <1>0, <2>1, <2>2 DEF Pinning, Rows, Past
<1>4. ASSUME NEW c \in Calls, CallStep(c)
      PROVE  Pinning'
  BY <1>4, CallStepPinning
<1>5. CASE Scan \/ (\E w \in due : MountFails(w)) \/ BufferExpires
      \/ (\E r \in Runs : Cancel(r)) \/ (\E r \in cancelling : CancelPrimary(r)) \/ UNCHANGED vars
  <2>1. UNCHANGED <<functions, pin, origin, call>>
    BY <1>5 DEF Scan, MountFails, BufferExpires, Cancel, CancelPrimary, vars
  <2>2. wakes' \subseteq wakes /\ requests' \subseteq requests /\ due' \subseteq due \cup wakes
    BY <1>5 DEF Scan, MountFails, BufferExpires, Cancel, CancelPrimary, vars
  <2> QED
    BY <2>1, <2>2, PinFrameIdle DEF Pinning, Rows
<1>6. ASSUME NEW e \in Events, Emit(e)
      PROVE  Pinning'
  <2>1. UNCHANGED <<functions, pin, origin, call, due, requests>>
    BY <1>6 DEF Emit
  <2>2. \A w \in wakes' : \E x \in wakes : w.run = x.run
    BY <1>6, EmitShape
  <2> QED
    BY <2>1, <2>2, PinFrameIdle DEF Pinning, Rows
<1>7. ASSUME NEW w \in due, Fire(w)
      PROVE  Pinning'
  <2>1. pin[w.run] # 0
    BY DEF Pinning, Rows
  <2>2. /\ UNCHANGED <<functions, pin, origin, wakes, requests>> /\ due' \subseteq due
        /\ Enter(Ticker, w.run, w.attempt)
    BY <1>7 DEF Fire
  <2> QED
    BY <1>0, <2>1, <2>2, EnterShape, PinFrame DEF Pinning, Rows, Past
<1>8. CASE DropFired
  <2>1. /\ UNCHANGED <<functions, pin, origin, requests, due>> /\ wakes' \subseteq wakes
        /\ \A d \in Calls : d # Ticker => call'[d] = call[d]
        /\ call'[Ticker].pc = "idle" /\ call'[Ticker].run = None
    BY <1>0, <1>8 DEF DropFired, IdleCall
  <2> QED
    BY <1>0, <2>1, PinFrame, NoneAssumption DEF Pinning, Rows, Past
<1>9. ASSUME NEW c \in Workers, NEW q \in requests, NEW a \in Answers, Answer(c, q, a)
      PROVE  Pinning'
  <2>1. pin[q.run] # 0
    BY DEF Pinning, Rows
  <2>2. /\ UNCHANGED <<functions, pin, origin, wakes, due>> /\ Enter(c, q.run, 1)
        /\ \A p \in requests' : p \in requests \/ p.run = q.run
    <3>1. [q EXCEPT !.status = "answered"].run = q.run
      BY DEF Typing, TypeOK, Request
    <3> QED
      BY <1>9, <3>1 DEF Answer
  <2> QED
    BY <1>0, <2>1, <2>2, EnterShape, PinFrame DEF Pinning, Rows, Past
<1>10. CASE Crash
  <2>1. /\ UNCHANGED <<functions, pin, origin, wakes, requests>> /\ due' = {}
        /\ \A d \in Calls : call'[d].pc = "idle" /\ call'[d].run = None
    BY <1>10 DEF Crash, IdleCall
  <2> QED
    BY <2>1, NoneAssumption DEF Pinning, Rows, Past
<1> QED
  BY <1>1, <1>2, <1>3, <1>4, <1>5, <1>6, <1>7, <1>8, <1>9, <1>10 DEF Next, TickerStep

(* Unless a version is deleted, every execution of a run runs the body the run
   started on (S1: get_run_version, set_run_version, get_function_version). *)
THEOREM StartingBody ==
  ASSUME AllowDelete = FALSE
  PROVE  Spec => []ReplaysStartingBody
<1>1. Init => Typing /\ Pinning
  BY InitTyping, InitPinning
<1>2. (Typing /\ Pinning) /\ [Next]_vars => (Typing /\ Pinning)'
  BY NextTyping, NextPinning
<1>3. Typing /\ Pinning => ReplaysStartingBody
  BY DEF Pinning, ReplaysStartingBody, Past
<1> QED
  BY <1>1, <1>2, <1>3, PTL DEF Spec

-----------------------------------------------------------------------------
(* The journal of a run is closed under the order of its body, and so is what
   an execution knows; whatever is about to wake a run waits for a key whose
   predecessors are journaled. *)
Late     == {"exec", "persist", "register"}
Knows(c) == {k \in Keys : Known(c, k)}

JournalComplete ==
  \A r \in Runs : \A k \in Journaled(r) : pin[r] # 0 /\ Before(r, k) \subseteq Journaled(r)

RowsComplete ==
  \A w \in Rows : w.key # None => Before(w.run, w.key) \subseteq Journaled(w.run)

CallComplete(c) ==
  /\ \A k \in Knows(c) : call[c].pc \in Late
  /\ call[c].key # None => call[c].outcome = "suspended"
  /\ call[c].pc \notin {"persist", "register"} => call[c].outcome = "none"
  /\ \A r \in Runs : call[c].run = r =>
       /\ \A k \in Knows(c) : Before(r, k) \subseteq Knows(c)
       /\ call[c].pc \in Late => \A k \in Keys : call[c].prior[k] # None => k \in Journaled(r)
       /\ call[c].pc = "persist" /\ call[c].outcome = "suspended" =>
            Before(r, call[c].key) \subseteq Knows(c)
       /\ call[c].pc = "register" /\ call[c].outcome = "suspended" =>
            Before(r, call[c].key) \subseteq Journaled(r)

Complete == JournalComplete /\ RowsComplete /\ \A c \in Calls : CallComplete(c)

LEMMA CallFrame ==
  ASSUME Typing, Pinning, NEW d \in Calls, CallComplete(d), call'[d] = call[d],
         \A r \in Runs : pin[r] # 0 => origin'[r] = origin[r],
         \A r \in Runs : Journaled(r) \subseteq Journaled(r)'
  PROVE  CallComplete(d)'
<1>1. Knows(d)' = Knows(d)
  BY DEF Knows, Known
<1>2. /\ call[d].pc \in Late => pin[call[d].run] # 0
      /\ \A k \in Knows(d) : call[d].pc \in Late
  BY DEF Pinning, Late, Past, CallComplete
<1>3. ASSUME NEW r \in Runs, call'[d].run = r
      PROVE  /\ \A k \in Knows(d)' : Before(r, k)' \subseteq Knows(d)'
             /\ call'[d].pc \in Late =>
                  \A k \in Keys : call'[d].prior[k] # None => k \in Journaled(r)'
             /\ call'[d].pc = "persist" /\ call'[d].outcome = "suspended" =>
                  Before(r, call[d].key)' \subseteq Knows(d)'
             /\ call'[d].pc = "register" /\ call'[d].outcome = "suspended" =>
                  Before(r, call[d].key)' \subseteq Journaled(r)'
  <2>1. CASE call[d].pc \in Late
    <3>1. origin'[r] = origin[r]
      BY <1>2, <1>3, <2>1
    <3>2. \A k : Before(r, k)' = Before(r, k)
      BY <3>1 DEF Before
    <3>3. Before(r, call[d].key)' = Before(r, call[d].key)
      BY <3>1 DEF Before
    <3> QED
      BY <1>1, <1>3, <3>2, <3>3 DEF CallComplete
  <2>2. CASE call[d].pc \notin Late
    BY <1>1, <1>2, <2>2 DEF Late
  <2> QED
    BY <2>1, <2>2
<1> QED
  BY <1>1, <1>2, <1>3 DEF CallComplete

(* The journal grows by keys whose predecessors it has, and a new row waits
   for such a key. *)
LEMMA StoreFrame ==
  ASSUME Typing, Pinning, Complete,
         \A r \in Runs : pin[r] # 0 => pin'[r] # 0 /\ origin'[r] = origin[r],
         \A r \in Runs : Journaled(r) \subseteq Journaled(r)',
         \A r \in Runs : \A k \in Journaled(r)' :
           k \in Journaled(r) \/ (pin[r] # 0 /\ Before(r, k) \subseteq Journaled(r)'),
         \A w \in Rows' :
           \/ \E x \in Rows : w.run = x.run /\ w.key = x.key
           \/ w.key # None => \E r \in Runs : /\ r = w.run /\ pin[r] # 0
                                              /\ Before(r, w.key) \subseteq Journaled(r)'
  PROVE  JournalComplete' /\ RowsComplete'
<1>2. \A r \in Runs, k \in Keys : pin[r] # 0 => Before(r, k)' = Before(r, k)
  BY DEF Before
<1>3. JournalComplete'
  <2> SUFFICES ASSUME NEW r \in Runs, NEW k \in Journaled(r)'
               PROVE  pin'[r] # 0 /\ Before(r, k)' \subseteq Journaled(r)'
    BY DEF JournalComplete
  <2>1. k \in Keys
    BY DEF Journaled
  <2>2. pin[r] # 0 /\ Before(r, k) \subseteq Journaled(r)'
    BY DEF Complete, JournalComplete
  <2> QED
    BY <1>2, <2>1, <2>2
<1>4. RowsComplete'
  <2> SUFFICES ASSUME NEW w \in Rows', w.key # None
               PROVE  Before(w.run, w.key)' \subseteq Journaled(w.run)'
    BY DEF RowsComplete
  <2>1. PICK r \in Runs : r = w.run /\ pin[r] # 0 /\ Before(r, w.key) \subseteq Journaled(r)'
    <3>1. CASE \E x \in Rows : w.run = x.run /\ w.key = x.key
      <4>1. PICK x \in Rows : w.run = x.run /\ w.key = x.key
        BY <3>1
      <4>2. x.run \in Runs /\ pin[x.run] # 0
        BY DEF Rows, Pinning, Typing, TypeOK, WakeRow, Request
      <4>3. Before(x.run, x.key) \subseteq Journaled(x.run)
        BY <4>1 DEF Complete, RowsComplete
      <4> QED
        BY <4>1, <4>2, <4>3
    <3> QED
      BY <3>1
  <2>2. Before(w.run, w.key)' = Before(r, w.key)
    BY <2>1 DEF Before
  <2>3. Journaled(w.run)' = Journaled(r)'
    BY <2>1
  <2> QED
    BY <2>1, <2>2, <2>3
<1> QED
  BY <1>3, <1>4

(* A step of call c, or of no call, under the same conditions. *)
LEMMA CompleteFrame ==
  ASSUME Typing, Pinning, Complete, NEW c \in Calls,
         \A d \in Calls : d # c => call'[d] = call[d],
         call'[c] = call[c] \/ CallComplete(c)',
         \A r \in Runs : pin[r] # 0 => pin'[r] # 0 /\ origin'[r] = origin[r],
         \A r \in Runs : Journaled(r) \subseteq Journaled(r)',
         \A r \in Runs : \A k \in Journaled(r)' :
           k \in Journaled(r) \/ (pin[r] # 0 /\ Before(r, k) \subseteq Journaled(r)'),
         \A w \in Rows' :
           \/ \E x \in Rows : w.run = x.run /\ w.key = x.key
           \/ w.key # None => \E r \in Runs : /\ r = w.run /\ pin[r] # 0
                                              /\ Before(r, w.key) \subseteq Journaled(r)'
  PROVE  Complete'
<1>1. \A d \in Calls : CallComplete(d)'
  BY CallFrame DEF Complete
<1>2. JournalComplete' /\ RowsComplete'
  BY StoreFrame
<1> QED
  BY <1>1, <1>2 DEF Complete

(* A call that is idle, or has just entered a run, knows nothing. *)
LEMMA BlankComplete ==
  ASSUME NEW c \in Calls, call'[c].pc \notin Late,
         call'[c].prior = NoSteps, call'[c].fresh = NoSteps,
         call'[c].outcome = "none", call'[c].key = None
  PROVE  CallComplete(c)'
<1>1. Knows(c)' = {}
  BY DEF Knows, Known, NoSteps
<1> QED
  BY <1>1 DEF CallComplete, Late

(* A replay stands at a key only when it knows every key before it. *)
LEMMA AtStepBefore ==
  ASSUME Typing, Pinning, NEW c \in Calls, NEW k \in Keys, AtStep(c, k)
  PROVE  Before(call[c].run, k) \subseteq Knows(c)
<1>1. call[c].body \in Bodies /\ call[c].body = origin[call[c].run]
  BY DEF AtStep, Typing, CallsWellFormed, Pinning, Past
<1> DEFINE s == Script[call[c].body]
<1>2. s \in Seq(Keys) /\ \A i, j \in DOMAIN s : s[i] = s[j] => i = j
  BY <1>1, ScriptAssumption
<1>3. PICK i \in DOMAIN s : s[i] = k /\ \A j \in DOMAIN s : j < i => Known(c, s[j])
  BY DEF AtStep
<1>4. \A b \in Before(call[c].run, k) : \E m, j \in DOMAIN s : b = s[m] /\ m < j /\ s[j] = k
  BY <1>1 DEF Before
<1>5. \A m \in DOMAIN s : s[m] \in Keys
  BY <1>2
<1> HIDE DEF s
<1> QED
  BY <1>2, <1>3, <1>4, <1>5 DEF Knows

LEMMA InitComplete == Init => Complete
<1> SUFFICES ASSUME Init PROVE Complete
  OBVIOUS
<1>1. \A r \in Runs : Journaled(r) = {}
  BY DEF Init, Journaled, NoSteps
<1>2. Rows = {}
  BY DEF Init, Rows
<1>3. ASSUME NEW c \in Calls
      PROVE  CallComplete(c)
  <2>1. Knows(c) = {} /\ call[c].pc = "idle" /\ call[c].outcome = "none" /\ call[c].key = None
    BY DEF Init, IdleCall, Knows, Known, NoSteps
  <2> QED
    BY <2>1 DEF CallComplete, Late
<1> QED
  BY <1>1, <1>2, <1>3 DEF Complete, JournalComplete, RowsComplete

(* The keys of a run after the first lock section of an execution. *)
LEMMA RecordComplete ==
  ASSUME Typing, Pinning, Complete, NEW c \in Calls, RecordRun(c),
         NEW s \in Runs, s = call[c].run
  PROVE  /\ \A r \in Runs : Journaled(r) \subseteq Journaled(r)'
         /\ Knows(c) \subseteq Journaled(s)'
         /\ \A r \in Runs : \A k \in Journaled(r)' :
              k \in Journaled(r) \/ (pin[r] # 0 /\ Before(r, k) \subseteq Journaled(r)')
<1>1. pin[s] # 0 /\ call[c] \in CallState /\ journal \in [Runs -> Steps]
  BY DEF RecordRun, Typing, TypeOK, Pinning, Past
<1>2. \A r \in Runs : journal'[r] = IF r = s THEN Recorded(c) ELSE journal[r]
  BY <1>1 DEF RecordRun
<1>3. \A k \in Keys : Recorded(c)[k] # None <=> call[c].fresh[k] # None \/ journal[s][k] # None
  BY DEF Recorded
<1>4. \A k \in Keys : call[c].prior[k] # None => journal[s][k] # None
  BY DEF Complete, CallComplete, RecordRun, Late, Journaled
<1>5. ASSUME NEW r \in Runs
      PROVE  Journaled(r) \subseteq Journaled(r)'
  BY <1>2, <1>3 DEF Journaled
<1>6. Knows(c) \subseteq Journaled(s)'
  BY <1>2, <1>3, <1>4 DEF Knows, Known, Journaled
<1>7. ASSUME NEW r \in Runs, NEW k \in Journaled(r)', k \notin Journaled(r)
      PROVE  pin[r] # 0 /\ Before(r, k) \subseteq Journaled(r)'
  <2>1. r = s /\ k \in Knows(c)
    BY <1>2, <1>3, <1>7 DEF Journaled, Knows, Known
  <2>2. Before(s, k) \subseteq Knows(c)
    BY <2>1 DEF Complete, CallComplete
  <2> QED
    BY <1>1, <1>6, <2>1, <2>2
<1> QED
  BY <1>5, <1>6, <1>7

(* A step of call c that journals nothing and adds no row. *)
LEMMA CompleteStep ==
  ASSUME Typing, Pinning, Complete, NEW c \in Calls,
         \A d \in Calls : d # c => call'[d] = call[d],
         CallComplete(c)',
         UNCHANGED <<pin, origin, journal, wakes, due, requests>>
  PROVE  Complete'
<1>1. \A r \in Runs : Journaled(r)' = Journaled(r)
  BY DEF Journaled
<1>2. Rows' = Rows
  BY DEF Rows
<1> QED
  BY <1>1, <1>2, CompleteFrame

(* A call that leaves, after adding rows that are complete. *)
LEMMA CompleteLeave ==
  ASSUME Typing, Pinning, Complete, NEW c \in Calls, Leave(c),
         UNCHANGED <<pin, origin, journal>>,
         NEW s \in Runs, pin[s] # 0,
         \A w \in Rows' : \/ w \in Rows
                          \/ w.run = s /\ (w.key # None => Before(s, w.key) \subseteq Journaled(s))
  PROVE  Complete'
<1>1. \A r \in Runs : Journaled(r)' = Journaled(r)
  BY DEF Journaled
<1>2. CallComplete(c)' /\ \A d \in Calls : d # c => call'[d] = call[d]
  BY LeaveShape, BlankComplete DEF Late
<1> QED
  BY <1>1, <1>2, CompleteFrame

LEMMA CallStepComplete ==
  ASSUME Typing, Pinning, Complete, NEW c \in Calls, CallStep(c)
  PROVE  Complete'
<1> USE DEF store, ticker, hist
<1>0. /\ call \in [Calls -> CallState] /\ call[c].pc \in Busy /\ call[c].run \in Runs
      /\ call[c] \in CallState
  BY DEF CallStep, LoadPinned, LoadLatest, PinVersion, FunctionMissing, ReadJournal, RunOp, Suspend,
         Return, Throw, Persist, PersistAsk, RegisterTimer, RegisterWaiter, RegisterRetry,
         EnqueueActions, ReturnError, RecordRun, AtStep, AtEnd, Busy, Typing, TypeOK, CallsWellFormed
<1>19. PICK s \in Runs : s = call[c].run
  BY <1>0
<1> USE <1>19
<1>20. CallComplete(c)
  BY DEF Complete
<1>21. call[c].pc \notin Late => Knows(c) = {} /\ call[c].outcome = "none" /\ call[c].key = None
  BY <1>20 DEF CallComplete, Late
<1>22. \A r \in Runs : \A k : origin'[r] = origin[r] => Before(r, k)' = Before(r, k)
  BY DEF Before
<1>23. call[c].pc \in Late => pin[s] # 0
  BY DEF Pinning, Late, Past
<1>1. ASSUME call[c].pc \notin Late, call'[c].pc \notin Late,
             call'[c].prior = call[c].prior, call'[c].fresh = call[c].fresh,
             call'[c].outcome = call[c].outcome, call'[c].key = call[c].key
      PROVE  CallComplete(c)'
  <2>1. Knows(c)' = {}
    BY <1>1, <1>21 DEF Knows, Known
  <2> QED
    BY <1>1, <1>21, <2>1 DEF CallComplete, Late
<1>2. CASE LoadPinned(c)
  <2>1. PICK v \in Versions : call' = [call EXCEPT ![c].pc = "read", ![c].body = functions[v]]
    BY <1>2 DEF LoadPinned
  <2> QED
    BY <1>0, <1>1, <1>2, <2>1, CompleteStep DEF LoadPinned, Late
<1>3. CASE LoadLatest(c)
  <2>1. PICK v \in Versions :
          call' = [call EXCEPT ![c].pc = "pin", ![c].body = functions[v], ![c].version = v]
    BY <1>3 DEF LoadLatest
  <2> QED
    BY <1>0, <1>1, <1>3, <2>1, CompleteStep DEF LoadLatest, Late
<1>4. CASE PinVersion(c)
  <2>1. /\ call[c].pc = "pin" /\ call' = [call EXCEPT ![c].pc = "read", ![c].version = 0]
        /\ UNCHANGED <<journal, wakes, due, requests>>
        /\ pin' = [pin EXCEPT ![call[c].run] = call[c].version]
        /\ origin' = [origin EXCEPT ![call[c].run] = call[c].body]
    BY <1>4 DEF PinVersion
  <2>2. CallComplete(c)'
    BY <1>0, <1>1, <2>1 DEF Late
  <2>3. \A r \in Runs : pin[r] # 0 => r # call[c].run
    BY <2>1 DEF Pinning
  <2>4. \A r \in Runs : pin[r] # 0 => pin'[r] # 0 /\ origin'[r] = origin[r]
    BY <2>1, <2>3 DEF Typing, TypeOK
  <2>5. \A r \in Runs : Journaled(r)' = Journaled(r)
    BY <2>1 DEF Journaled
  <2>6. Rows' = Rows /\ \A d \in Calls : d # c => call'[d] = call[d]
    BY <1>0, <2>1 DEF Rows
  <2> QED
    BY <2>2, <2>4, <2>5, <2>6, CompleteFrame
<1>5. CASE ReadJournal(c)
  <2>1. /\ call[c].pc = "read"
        /\ call'[c].pc = "exec" /\ call'[c].run = s /\ call'[c].fresh = call[c].fresh
        /\ call'[c].outcome = call[c].outcome /\ call'[c].key = call[c].key
        /\ call'[c].prior = journal[s]
        /\ \A d \in Calls : d # c => call'[d] = call[d]
        /\ UNCHANGED <<pin, origin, journal, wakes, due, requests>>
    BY <1>0, <1>5 DEF ReadJournal
  <2>2. Knows(c)' = Journaled(s) /\ Journaled(s)' = Journaled(s)
    BY <1>0, <1>21, <2>1 DEF Knows, Known, Journaled, Late
  <2>3. \A k \in Journaled(s) : Before(s, k) \subseteq Journaled(s)
    BY <1>0 DEF Complete, JournalComplete
  <2>4. CallComplete(c)'
    BY <1>0, <1>21, <1>22, <2>1, <2>2, <2>3 DEF CallComplete, Late, Journaled
  <2> QED
    BY <2>1, <2>4, CompleteStep
<1>6. CASE RunOp(c)
  <2>1. PICK k \in Keys, v \in Results :
          AtStep(c, k) /\ call' = [call EXCEPT ![c].fresh[k] = v]
    BY <1>6 DEF RunOp
  <2>10. call[c].pc = "exec"
    BY <2>1 DEF AtStep
  <2>11. v # None
    BY NoneAssumption DEF Values
  <2>2. /\ call'[c].pc = "exec" /\ call'[c].run = s /\ call'[c].prior = call[c].prior
        /\ call'[c].outcome = call[c].outcome /\ call'[c].key = call[c].key
        /\ call'[c].fresh = [call[c].fresh EXCEPT ![k] = v]
        /\ \A d \in Calls : d # c => call'[d] = call[d]
        /\ UNCHANGED <<pin, origin, journal, wakes, due, requests>>
    BY <1>0, <1>6, <2>1, <2>10 DEF RunOp, CallState
  <2>3. \A i \in Keys : call'[c].fresh[i] = IF i = k THEN v ELSE call[c].fresh[i]
    BY <1>0, <2>2 DEF CallState, Steps
  <2>4. Knows(c)' = Knows(c) \cup {k}
    BY <2>2, <2>3, <2>11 DEF Knows, Known
  <2>5. Before(s, k) \subseteq Knows(c)
    BY <2>1, AtStepBefore
  <2>6. \A i \in Knows(c) : Before(s, i) \subseteq Knows(c)
    BY <1>0, <1>20 DEF CallComplete
  <2>7. Journaled(s)' = Journaled(s)
    BY <2>2 DEF Journaled
  <2>8. CallComplete(c)'
    BY <1>0, <1>20, <1>22, <2>2, <2>4, <2>5, <2>6, <2>7, <2>10 DEF CallComplete, Late
  <2> QED
    BY <2>2, <2>8, CompleteStep
<1>7. CASE Suspend(c)
  <2>1. PICK k \in Keys :
          /\ AtStep(c, k)
          /\ call' = [call EXCEPT ![c].pc = "persist", ![c].outcome = "suspended", ![c].key = k]
    BY <1>7 DEF Suspend
  <2>10. call[c].pc = "exec"
    BY <2>1 DEF AtStep
  <2>2. /\ call'[c].pc = "persist" /\ call'[c].run = s /\ call'[c].prior = call[c].prior
        /\ call'[c].fresh = call[c].fresh /\ call'[c].outcome = "suspended" /\ call'[c].key = k
        /\ \A d \in Calls : d # c => call'[d] = call[d]
        /\ UNCHANGED <<pin, origin, journal, wakes, due, requests>>
    BY <1>0, <1>7, <2>1 DEF Suspend, CallState
  <2>3. Knows(c)' = Knows(c) /\ Journaled(s)' = Journaled(s)
    BY <2>2 DEF Knows, Known, Journaled
  <2>4. Before(s, k) \subseteq Knows(c)
    BY <2>1, AtStepBefore
  <2>5. CallComplete(c)'
    BY <1>0, <1>20, <1>22, <2>2, <2>3, <2>4, <2>10 DEF CallComplete, Late
  <2> QED
    BY <2>2, <2>5, CompleteStep
<1>8. ASSUME call[c].pc = "exec", call'[c].pc = "persist", call'[c].run = s,
             call'[c].prior = call[c].prior, call'[c].fresh = call[c].fresh,
             call'[c].outcome # "suspended", call'[c].key = call[c].key,
             \A d \in Calls : d # c => call'[d] = call[d],
             UNCHANGED <<pin, origin, journal, wakes, due, requests>>
      PROVE  Complete'
  <2>1. Knows(c)' = Knows(c) /\ Journaled(s)' = Journaled(s) /\ call[c].key = None
    BY <1>8, <1>20 DEF Knows, Known, Journaled, CallComplete
  <2>2. CallComplete(c)'
    BY <1>0, <1>20, <1>22, <1>8, <2>1 DEF CallComplete, Late
  <2> QED
    BY <1>8, <2>2, CompleteStep
<1>9. CASE Return(c)
  BY <1>0, <1>8, <1>9 DEF Return, AtEnd
<1>10. CASE Throw(c)
  <2>1. PICK o \in Failures : call' = [call EXCEPT ![c].pc = "persist", ![c].outcome = o]
    BY <1>10 DEF Throw
  <2>2. o # "suspended"
    BY BoundsAssumption
  <2> QED
    BY <1>0, <1>8, <1>10, <2>1, <2>2 DEF Throw, CallState
<1>11. CASE Persist(c)
  <2>1. /\ call[c].pc = "persist" /\ RecordRun(c)
        /\ call'[c].pc = "register" /\ call'[c].run = s /\ call'[c].prior = call[c].prior
        /\ call'[c].fresh = call[c].fresh /\ call'[c].outcome = call[c].outcome
        /\ call'[c].key = call[c].key
        /\ \A d \in Calls : d # c => call'[d] = call[d]
        /\ UNCHANGED <<pin, origin, wakes, due, requests>>
    BY <1>0, <1>11 DEF Persist, RecordRun
  <2>2. Knows(c)' = Knows(c) /\ Rows' = Rows
    BY <2>1 DEF Knows, Known, Rows
  <2>3. /\ \A r \in Runs : Journaled(r) \subseteq Journaled(r)'
        /\ Knows(c) \subseteq Journaled(s)'
        /\ \A r \in Runs : \A k \in Journaled(r)' :
             k \in Journaled(r) \/ (pin[r] # 0 /\ Before(r, k) \subseteq Journaled(r)')
    BY <1>0, <2>1, RecordComplete
  <2>4. CallComplete(c)'
    BY <1>0, <1>20, <1>22, <2>1, <2>2, <2>3 DEF CallComplete, Late
  <2> QED
    BY <2>1, <2>2, <2>3, <2>4, CompleteFrame
<1>12. CASE PersistAsk(c)
  <2>1. /\ call[c].pc = "persist" /\ RecordRun(c) /\ Leave(c) /\ call[c].outcome = "suspended"
        /\ UNCHANGED <<pin, origin, wakes, due>>
    BY <1>12 DEF PersistAsk, RecordRun, Suspends
  <2>2. \A q \in requests' : q \in requests \/ (q.run = s /\ q.key = call[c].key)
    BY <1>12 DEF PersistAsk
  <2>3. /\ \A r \in Runs : Journaled(r) \subseteq Journaled(r)'
        /\ Knows(c) \subseteq Journaled(s)'
        /\ \A r \in Runs : \A k \in Journaled(r)' :
             k \in Journaled(r) \/ (pin[r] # 0 /\ Before(r, k) \subseteq Journaled(r)')
    BY <1>0, <2>1, RecordComplete
  <2>4. Before(s, call[c].key) \subseteq Knows(c)
    BY <1>0, <1>20, <2>1 DEF CallComplete
  <2>5. CallComplete(c)' /\ \A d \in Calls : d # c => call'[d] = call[d]
    BY <2>1, LeaveShape, BlankComplete DEF Late
  <2>6. Before(s, call[c].key) \subseteq Journaled(s)'
    BY <2>3, <2>4
  <2>7. pin[s] # 0
    BY <1>23, <2>1 DEF Late
  <2>8. \A w \in Rows' : w \in Rows \/ (w.run = s /\ w.key = call[c].key)
    BY <2>1, <2>2 DEF Rows
  <2>9. \A w \in Rows' :
           \/ \E x \in Rows : w.run = x.run /\ w.key = x.key
           \/ w.key # None => \E r \in Runs : /\ r = w.run /\ pin[r] # 0
                                              /\ Before(r, w.key) \subseteq Journaled(r)'
    <3> SUFFICES ASSUME NEW w \in Rows', w \notin Rows
                 PROVE  \E r \in Runs : /\ r = w.run /\ pin[r] # 0
                                        /\ Before(r, w.key) \subseteq Journaled(r)'
      OBVIOUS
    <3>1. w.run = s /\ w.key = call[c].key
      BY <2>8
    <3> QED
      BY <2>6, <2>7, <3>1
  <2> QED
    BY <2>1, <2>3, <2>5, <2>9, CompleteFrame
<1>13. CASE RegisterTimer(c) \/ RegisterWaiter(c) \/ RegisterRetry(c)
  <2>1. /\ call[c].pc = "register" /\ Leave(c) /\ UNCHANGED <<pin, origin, journal, due, requests>>
    BY <1>13 DEF RegisterTimer, RegisterWaiter, RegisterRetry
  <2>2. \A w \in wakes' : w \in wakes \/ (w.run = s /\ w.key = call[c].key)
    BY <1>13, AddShape DEF RegisterTimer, RegisterWaiter, RegisterRetry
  <2>3. call[c].key # None => Before(s, call[c].key) \subseteq Journaled(s)
    BY <1>0, <1>20, <2>1 DEF CallComplete
  <2>4. pin[s] # 0
    BY <1>23, <2>1 DEF Late
  <2>5. \A w \in Rows' : \/ w \in Rows
                         \/ w.run = s /\ (w.key # None => Before(s, w.key) \subseteq Journaled(s))
    BY <2>1, <2>2, <2>3 DEF Rows
  <2> QED
    BY <1>0, <2>1, <2>4, <2>5, CompleteLeave
<1>14. CASE FunctionMissing(c) \/ EnqueueActions(c) \/ ReturnError(c)
  <2>1. CallComplete(c)' /\ \A d \in Calls : d # c => call'[d] = call[d]
    BY <1>14, LeaveShape, BlankComplete DEF FunctionMissing, EnqueueActions, ReturnError, Late
  <2>2. UNCHANGED <<pin, origin, journal, wakes, due, requests>>
    BY <1>14 DEF FunctionMissing, EnqueueActions, ReturnError
  <2> QED
    BY <2>1, <2>2, CompleteStep
<1> QED
  BY <1>2, <1>3, <1>4, <1>5, <1>6, <1>7, <1>9, <1>10, <1>11, <1>12, <1>13, <1>14 DEF CallStep

(* A wake value is journaled under a key whose predecessors are. *)
LEMMA WakeRecorded ==
  ASSUME Typing, NEW s \in Runs, NEW key, NEW v \in Values, pin[s] # 0,
         key # None => Before(s, key) \subseteq Journaled(s),
         journal' = [journal EXCEPT ![s][key] = v]
  PROVE  /\ \A r \in Runs : Journaled(r) \subseteq Journaled(r)'
         /\ \A r \in Runs : \A k \in Journaled(r)' :
              k \in Journaled(r) \/ (pin[r] # 0 /\ Before(r, k) \subseteq Journaled(r)')
<1>1. v # None /\ None \notin Keys
  BY NoneAssumption
<1>2. \A r \in Runs, k \in Keys :
        journal'[r][k] = IF r = s /\ k = key THEN v ELSE journal[r][k]
  BY DEF Typing, TypeOK, Steps
<1>3. \A r \in Runs : Journaled(r) \subseteq Journaled(r)'
  BY <1>1, <1>2 DEF Journaled
<1>4. \A r \in Runs : \A k \in Journaled(r)' : k \in Journaled(r) \/ (r = s /\ k = key /\ k \in Keys)
  BY <1>2 DEF Journaled
<1> QED
  BY <1>1, <1>3, <1>4

LEMMA NextComplete ==
  ASSUME Typing, Pinning, Complete, [Next]_vars
  PROVE  Complete'
<1> USE DEF store, ticker, hist
<1>0. call \in [Calls -> CallState] /\ Workers \subseteq Calls /\ Ticker \in Calls
  BY DEF Typing, TypeOK, Calls
<1>1. ASSUME call' = call, UNCHANGED <<pin, origin, journal>>,
             \A w \in Rows' : \E x \in Rows : w.run = x.run /\ w.key = x.key
      PROVE  Complete'
  <2>1. \A r \in Runs : Journaled(r)' = Journaled(r)
    BY <1>1 DEF Journaled
  <2> QED
    BY <1>0, <1>1, <2>1, CompleteFrame
<1>2. CASE Deploy \/ DeleteFunction \/ Scan \/ (\E w \in due : MountFails(w)) \/ BufferExpires
      \/ (\E r \in Runs : Cancel(r)) \/ (\E r \in cancelling : CancelPrimary(r)) \/ UNCHANGED vars
  <2>1. UNCHANGED <<pin, origin, call, journal>>
    BY <1>2 DEF Deploy, DeleteFunction, Scan, MountFails, BufferExpires, Cancel, CancelPrimary, vars
  <2>2. wakes' \subseteq wakes /\ requests' \subseteq requests /\ due' \subseteq due \cup wakes
    BY <1>2 DEF Deploy, DeleteFunction, Scan, MountFails, BufferExpires, Cancel, CancelPrimary, vars
  <2> QED
    BY <1>1, <2>1, <2>2 DEF Rows
<1>3. ASSUME NEW c \in Workers, NEW r \in Runs, Invoke(c, r)
      PROVE  Complete'
  <2>1. CallComplete(c)' /\ \A d \in Calls : d # c => call'[d] = call[d]
    BY <1>0, <1>3, EnterShape, BlankComplete DEF Invoke, Late
  <2>2. UNCHANGED <<pin, origin, journal, wakes, due, requests>>
    BY <1>3 DEF Invoke
  <2> QED
    BY <1>0, <2>1, <2>2, CompleteStep
<1>4. ASSUME NEW c \in Calls, CallStep(c)
      PROVE  Complete'
  BY <1>4, CallStepComplete
<1>5. ASSUME NEW e \in Events, Emit(e)
      PROVE  Complete'
  <2>1. UNCHANGED <<pin, origin, call, journal, due, requests>>
    BY <1>5 DEF Emit
  <2> QED
    BY <1>1, <1>5, <2>1, EmitShape DEF Rows
<1>6. ASSUME NEW w \in due, Fire(w)
      PROVE  Complete'
  <2>1. w \in Rows /\ w.run \in Runs /\ pin[w.run] # 0 /\ w.value \in Values /\ Null \in Values
    BY DEF Rows, Pinning, Typing, TypeOK, WakeRow, Values
  <2>2. w.key # None => Before(w.run, w.key) \subseteq Journaled(w.run)
    BY <2>1 DEF Complete, RowsComplete
  <2>3. CallComplete(Ticker)' /\ \A d \in Calls : d # Ticker => call'[d] = call[d]
    BY <1>0, <1>6, EnterShape, BlankComplete DEF Fire, Late
  <2>4. UNCHANGED <<pin, origin>> /\ Rows' \subseteq Rows
    BY <1>6 DEF Fire, Rows
  <2>5. /\ \A r \in Runs : Journaled(r) \subseteq Journaled(r)'
        /\ \A r \in Runs : \A k \in Journaled(r)' :
             k \in Journaled(r) \/ (pin[r] # 0 /\ Before(r, k) \subseteq Journaled(r)')
    <3>1. CASE w.kind = "retry"
      BY <1>6, <3>1 DEF Fire, Journaled
    <3>2. CASE w.kind # "retry"
      <4> DEFINE v == IF w.status = "ready" THEN w.value ELSE Null
      <4>1. v \in Values /\ journal' = [journal EXCEPT ![w.run][w.key] = v]
        BY <1>6, <2>1, <3>2 DEF Fire
      <4> HIDE DEF v
      <4> QED
        BY <2>1, <2>2, <4>1, WakeRecorded
    <3> QED
      BY <3>1, <3>2
  <2> QED
    BY <1>0, <2>3, <2>4, <2>5, CompleteFrame
<1>7. CASE DropFired
  <2>1. /\ UNCHANGED <<pin, origin, journal>> /\ Rows' \subseteq Rows
        /\ \A d \in Calls : d # Ticker => call'[d] = call[d]
        /\ call'[Ticker] = IdleCall
    BY <1>0, <1>7 DEF DropFired, Rows
  <2>2. CallComplete(Ticker)'
    BY <1>0, <2>1, BlankComplete DEF IdleCall, Late
  <2>3. \A r \in Runs : Journaled(r)' = Journaled(r)
    BY <2>1 DEF Journaled
  <2> QED
    BY <1>0, <2>1, <2>2, <2>3, CompleteFrame
<1>8. ASSUME NEW c \in Workers, NEW q \in requests, NEW a \in Answers, Answer(c, q, a)
      PROVE  Complete'
  <2>1. q \in Rows /\ q.run \in Runs /\ pin[q.run] # 0 /\ q.key \in Keys /\ a \in Values
    BY DEF Rows, Pinning, Typing, TypeOK, Request, Values
  <2>2. q.key # None => Before(q.run, q.key) \subseteq Journaled(q.run)
    BY <2>1 DEF Complete, RowsComplete
  <2>3. CallComplete(c)' /\ \A d \in Calls : d # c => call'[d] = call[d]
    BY <1>0, <1>8, EnterShape, BlankComplete DEF Answer, Late
  <2>4. /\ UNCHANGED <<pin, origin, wakes, due>>
        /\ \A w \in Rows' : \E x \in Rows : w.run = x.run /\ w.key = x.key
    <3>1. [q EXCEPT !.status = "answered"].run = q.run /\ [q EXCEPT !.status = "answered"].key = q.key
      BY DEF Typing, TypeOK, Request
    <3> QED
      BY <1>8, <2>1, <3>1 DEF Answer, Rows
  <2>5. /\ \A r \in Runs : Journaled(r) \subseteq Journaled(r)'
        /\ \A r \in Runs : \A k \in Journaled(r)' :
             k \in Journaled(r) \/ (pin[r] # 0 /\ Before(r, k) \subseteq Journaled(r)')
    BY <1>8, <2>1, <2>2, WakeRecorded DEF Answer
  <2> QED
    BY <1>0, <2>3, <2>4, <2>5, CompleteFrame
<1>9. CASE Crash
  <2>1. /\ UNCHANGED <<pin, origin, journal>> /\ Rows' \subseteq Rows
        /\ \A c \in Calls : call'[c] = IdleCall
    BY <1>9 DEF Crash, Rows
  <2>2. \A c \in Calls : CallComplete(c)'
    BY <2>1, BlankComplete DEF IdleCall, Late
  <2>3. \A r \in Runs : Journaled(r)' = Journaled(r)
    BY <2>1 DEF Journaled
  <2>4. JournalComplete' /\ RowsComplete'
    BY <2>1, <2>3, StoreFrame
  <2> QED
    BY <2>2, <2>4 DEF Complete
<1> QED
  BY <1>2, <1>3, <1>4, <1>5, <1>6, <1>7, <1>8, <1>9 DEF Next, TickerStep

LEMMA CompleteInvariant ==
  ASSUME AllowDelete = FALSE
  PROVE  Spec => [](Typing /\ Pinning /\ Complete)
<1>1. Init => Typing /\ Pinning /\ Complete
  BY InitTyping, InitPinning, InitComplete
<1>2. (Typing /\ Pinning /\ Complete) /\ [Next]_vars => (Typing /\ Pinning /\ Complete)'
  BY NextTyping, NextPinning, NextComplete
<1> QED
  BY <1>1, <1>2, PTL DEF Spec

(* The journal of a run is closed under the order of the body it started on,
   through crashes, retries, redeploys, cancels and answers given twice: a
   replay never finds a later step journaled and an earlier one missing. *)
THEOREM ReplayNeverSkips ==
  ASSUME AllowDelete = FALSE
  PROVE  Spec => []JournalClosed
<1>1. Typing /\ Pinning /\ Complete => JournalClosed
  BY DEF Complete, JournalComplete, JournalClosed
<1> QED
  BY <1>1, CompleteInvariant, PTL

(* "a wake always replays a complete journal": every timer, waiter and request,
   and every row of the ticker's snapshot, waits for a step whose predecessors
   are all journaled. *)
THEOREM WakesReplayCompleteJournal ==
  ASSUME AllowDelete = FALSE
  PROVE  Spec => []WakeComplete
<1>1. Typing /\ Pinning /\ Complete => WakeComplete
  <2> SUFFICES ASSUME Typing, Pinning, Complete, NEW w \in Rows
               PROVE  /\ origin[w.run] # None
                      /\ w.key # None => Before(w.run, w.key) \subseteq Journaled(w.run)
    BY DEF WakeComplete, Rows
  <2>1. w.run \in Runs /\ pin[w.run] # 0
    BY DEF Rows, Pinning, Typing, TypeOK, WakeRow, Request
  <2>2. origin[w.run] # None
    BY <2>1, NoneAssumption DEF Pinning
  <2> QED
    BY <2>2 DEF Complete, RowsComplete
<1> QED
  BY <1>1, CompleteInvariant, PTL
=============================================================================
