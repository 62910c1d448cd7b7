-------------------------- MODULE RootRunOwnerProofs --------------------------
(***************************************************************************)
(* Nothing locks a run. What keeps two executions of it apart is that,     *)
(* while the process lives and requests are answered once, a run has at    *)
(* most one owner: an execution, a wake row, or an open request. From that *)
(* follow here the properties of what runs and what is journaled, and,     *)
(* when nothing is cancelled, those of the run rows.                       *)
(***************************************************************************)
EXTENDS RootRunProofs

(* The process does not die, and no request is answered twice. *)
Undisturbed == CrashBudget = 0 /\ ReAnswer = FALSE

(* Rows that may still take a run forward: a row the ticker is about to delete does not. *)
Armed == {w \in wakes \cup due : w.id # firing.id}
Open  == {q \in requests : q.status = "pending"}

(* Rows are told apart by their ids; the ticker's copy of a row is of the same run. *)
Distinct ==
  /\ \A w, x \in wakes : w.id = x.id => w = x
  /\ \A w, x \in due : w.id = x.id => w = x
  /\ \A w \in due : w.id # firing.id
  /\ \A w \in wakes, x \in due : w.id = x.id => w.run = x.run /\ w.key = x.key /\ w.kind = x.kind
  /\ call[Ticker].pc = "idle" => firing = NoWake

(* Only a run that is pinned has rows. *)
PinnedFirst ==
  /\ \A c \in Calls : call[c].pc \in Past => pin[call[c].run] # 0
  /\ \A w \in Rows : pin[w.run] # 0

OneOwner ==
  /\ \A c, d \in Calls : call[c].run \in Runs /\ call[c].run = call[d].run => c = d
  /\ \A w, x \in Armed : w.run = x.run => w.id = x.id
  /\ \A p, q \in Open : p.run = q.run => p = q
  /\ \A c \in Calls : \A w \in Armed \cup Open : w.run # call[c].run
  /\ \A w \in Armed, q \in Open : w.run # q.run

Owned == Distinct /\ PinnedFirst /\ OneOwner
-----------------------------------------------------------------------------
(* The shapes of the steps of an execution: it stays in its run, or leaves it and registers
   nothing, a wake row or a request. *)
Stays(c) ==
  /\ \A d \in Calls : d # c => call'[d] = call[d]
  /\ call'[c].run = call[c].run /\ call'[c].pc \in Busy
  /\ call'[c].pc \in Past => pin'[call[c].run] # 0
  /\ \A r \in Runs : pin[r] # 0 => pin'[r] # 0
  /\ UNCHANGED <<wakes, due, firing, requests>>

Adds(c) ==
  \E w \in WakeRow : /\ wakes' = wakes \cup {w}
                     /\ w.run = call[c].run /\ w.id \notin UsedIds

Asks(c) ==
  \E q \in Request : /\ requests' = requests \cup {q} /\ q.run = call[c].run
                     /\ q.status = "pending"

Goes(c) ==
  /\ Leave(c) /\ UNCHANGED <<pin, due, firing>>
  /\ \/ /\ UNCHANGED <<wakes, requests>>
        /\ FunctionMissing(c) \/ EnqueueActions(c) \/ ReturnError(c)
     \/ call[c].pc \in Past /\ Adds(c) /\ UNCHANGED requests
     \/ call[c].pc \in Past /\ Asks(c) /\ UNCHANGED wakes

LEMMA InRun ==
  ASSUME Typing, NEW c \in Calls, CallStep(c)
  PROVE  call[c] \in CallState /\ call[c].run \in Runs /\ call[c].pc \in Busy
BY DEF CallStep, LoadPinned, LoadLatest, PinVersion, FunctionMissing, ReadJournal, RunOp, Suspend,
       Return, Throw, Persist, PersistAsk, RegisterTimer, RegisterWaiter, RegisterRetry,
       EnqueueActions, ReturnError, RecordRun, AtStep, AtEnd, Busy, Typing, TypeOK, CallsWellFormed

LEMMA WakeAdded ==
  ASSUME Typing, NEW c \in Calls, call[c].pc = "register",
         NEW kind \in {"resume", "retry", "wait"}, NEW a \in 1 .. MaxAttempts,
         NEW st \in {"pending", "ready"}, NEW v \in Values, AddWake(c, kind, a, st, v)
  PROVE  Adds(c)
<1>1. PICK id \in RowIds \ UsedIds :
        wakes' = wakes \cup {[id |-> id, run |-> call[c].run, kind |-> kind, key |-> call[c].key,
                              attempt |-> a, status |-> st, value |-> v]}
  BY DEF AddWake
<1>2. call[c].run \in Runs /\ call[c].key \in Keys \cup {None}
  BY DEF Typing, TypeOK, CallsWellFormed, CallState, Busy
<1> DEFINE w == [id |-> id, run |-> call[c].run, kind |-> kind, key |-> call[c].key,
                 attempt |-> a, status |-> st, value |-> v]
<1>3. w \in WakeRow /\ w.run = call[c].run /\ w.id = id
  BY <1>2 DEF WakeRow
<1> QED
  BY <1>1, <1>3 DEF Adds

LEMMA CallStepShape ==
  ASSUME Typing, PinnedFirst, NEW c \in Calls, CallStep(c)
  PROVE  Stays(c) \/ Goes(c)
<1> USE DEF store, ticker, hist
<1>0. /\ call \in [Calls -> CallState] /\ call[c] \in CallState /\ call[c].run \in Runs
      /\ call[c].pc \in Past => pin[call[c].run] # 0
      /\ 1 \in 1 .. MaxAttempts /\ Null \in Values
  BY InRun, BoundsAssumption DEF Typing, TypeOK, PinnedFirst, Values
<1>1. CASE LoadPinned(c)
  BY <1>0, <1>1 DEF LoadPinned, Stays, Busy
<1>2. CASE LoadLatest(c)
  BY <1>0, <1>2 DEF LoadLatest, Stays, Busy, Past
<1>3. CASE PinVersion(c)
  <2>1. call[c].version \in Versions /\ 0 \notin Versions /\ pin \in [Runs -> Versions \cup {0}]
    BY <1>3 DEF PinVersion, Typing, TypeOK, CallsWellFormed, Versions
  <2> QED
    BY <1>0, <1>3, <2>1 DEF PinVersion, Stays, Busy
<1>4. CASE ReadJournal(c)
  BY <1>0, <1>4 DEF ReadJournal, Stays, Busy, Past
<1>5. CASE RunOp(c)
  <2>1. PICK k \in Keys, v \in Results : call' = [call EXCEPT ![c].fresh[k] = v]
    BY <1>5 DEF RunOp
  <2> QED
    BY <1>0, <1>5, <2>1 DEF RunOp, AtStep, Stays, Busy, Past
<1>13. CASE Suspend(c)
  BY <1>0, <1>13 DEF Suspend, AtStep, Stays, Busy, Past
<1>14. CASE Return(c)
  BY <1>0, <1>14 DEF Return, AtEnd, Stays, Busy, Past
<1>6. CASE Throw(c)
  BY <1>0, <1>6 DEF Throw, Stays, Busy, Past
<1>7. CASE Persist(c)
  BY <1>0, <1>7 DEF Persist, RecordRun, Stays, Busy, Past
<1>8. CASE PersistAsk(c)
  <2>1. call[c].key \in Keys /\ call[c].pc \in Past
    BY <1>8 DEF PersistAsk, Suspends, RecordRun, Typing, CallsWellFormed, Past
  <2>2. PICK id \in RowIds : requests' = requests \cup
          {[id |-> id, run |-> call[c].run, key |-> call[c].key, status |-> "pending"]}
    BY <1>8 DEF PersistAsk
  <2>3. [id |-> id, run |-> call[c].run, key |-> call[c].key, status |-> "pending"] \in Request
    BY <1>0, <2>1 DEF Request
  <2>4. Asks(c)
    BY <2>2, <2>3 DEF Asks
  <2> QED
    BY <1>8, <2>1, <2>4 DEF PersistAsk, Goes
<1>9. CASE RegisterTimer(c)
  BY <1>0, <1>9, WakeAdded DEF RegisterTimer, Goes, Past
<1>10. CASE RegisterWaiter(c)
  <2>1. buffer # <<>> => Head(buffer) \in Values
    BY DEF Typing, TypeOK, Values
  <2> QED
    BY <1>0, <1>10, <2>1, WakeAdded DEF RegisterWaiter, Goes, Past
<1>11. CASE RegisterRetry(c)
  <2>1. call[c].attempt + 1 \in 1 .. MaxAttempts
    BY <1>0, <1>11, BoundsAssumption DEF RegisterRetry, Retries, CallState
  <2> QED
    BY <1>0, <1>11, <2>1, WakeAdded DEF RegisterRetry, Goes, Past
<1>12. CASE FunctionMissing(c) \/ EnqueueActions(c) \/ ReturnError(c)
  BY <1>12 DEF FunctionMissing, EnqueueActions, ReturnError, Goes
<1> QED
  BY <1>1, <1>2, <1>3, <1>4, <1>5, <1>6, <1>7, <1>8, <1>9, <1>10, <1>11, <1>12,
     <1>13, <1>14 DEF CallStep

-----------------------------------------------------------------------------
LEMMA RowsTyped ==
  ASSUME Typing
  PROVE  /\ \A w \in wakes \cup due : w \in WakeRow /\ w.run \in Runs /\ w.id \in RowIds
         /\ \A q \in requests : q \in Request /\ q.run \in Runs
         /\ None \notin Runs /\ None \notin RowIds /\ NoWake.id = None
         /\ call \in [Calls -> CallState] /\ Ticker \in Calls /\ Workers \subseteq Calls
         /\ \A c \in Calls : call[c].run \in Runs \cup {None}
         /\ \A c \in Calls : call[c].pc \in Past => call[c].run \in Runs
  BY NoneAssumption DEF Typing, TypeOK, WakeRow, Request, NoWake, Calls, CallState, CallsWellFormed,
                        Busy, Past

(* Owners only go away: calls stay or end, rows stay or vanish. *)
LEMMA FewerOwners ==
  ASSUME Typing, Owned, Distinct', UNCHANGED pin,
         \A c \in Calls : call'[c] = call[c]
                          \/ (call'[c].run = None /\ call'[c].pc \in {"idle", "drop"}),
         \A w \in Armed' : \E x \in Armed : x.id = w.id /\ x.run = w.run,
         Open' \subseteq Open,
         \A w \in Rows' : \E x \in Rows : x.run = w.run
  PROVE  Owned'
<1>1. PinnedFirst'
  BY DEF Owned, PinnedFirst, Past
<1>2. /\ \A c, d \in Calls : call'[c].run \in Runs /\ call'[c].run = call'[d].run => c = d
      /\ \A w, x \in Armed' : w.run = x.run => w.id = x.id
      /\ \A p, q \in Open' : p.run = q.run => p = q
      /\ \A w \in Armed', q \in Open' : w.run # q.run
  BY RowsTyped DEF Owned, OneOwner
<1>3. \A w \in Armed \cup Open : w.run \in Runs
  BY RowsTyped DEF Armed, Open
<1>4. ASSUME NEW c \in Calls, NEW w \in (Armed \cup Open)' PROVE w.run # call'[c].run
  <2>1. PICK x \in Armed \cup Open : x.run = w.run
    OBVIOUS
  <2> QED
    BY <1>3, <2>1, RowsTyped DEF Owned, OneOwner
<1> QED
  BY <1>1, <1>2, <1>4 DEF Owned, OneOwner

LEMMA StaysOwned ==
  ASSUME Typing, Owned, NEW c \in Calls, call[c].pc \in Busy, Stays(c)
  PROVE  Owned'
<1>1. Distinct'
  BY RowsTyped DEF Owned, Distinct, Stays, Busy
<1>2. PinnedFirst'
  <2>1. \A w \in Rows : w.run \in Runs
    BY RowsTyped DEF Rows
  <2>2. Rows' = Rows
    BY DEF Stays, Rows
  <2> QED
    BY <2>1, <2>2, RowsTyped DEF Owned, PinnedFirst, Stays
<1>3. Armed' = Armed /\ Open' = Open /\ \A d \in Calls : call'[d].run = call[d].run
  BY DEF Stays, Armed, Open
<1> QED
  BY <1>1, <1>2, <1>3 DEF Owned, OneOwner

LEMMA GoesOwned ==
  ASSUME Typing, Owned, NEW c \in Calls, call[c].run \in Runs, call[c].pc \in Busy, Goes(c)
  PROVE  Owned'
<1>1. /\ \A d \in Calls : d # c => call'[d] = call[d]
      /\ call'[c].run = None /\ call'[c].pc \in {"idle", "drop"}
      /\ c = Ticker => call'[c].pc = "drop"
      /\ UNCHANGED <<pin, due, firing>>
  BY LeaveShape DEF Goes, Leave, IdleCall, Typing, TypeOK
<1>2. CASE UNCHANGED <<wakes, requests>>
  <2>1. Distinct'
    BY <1>1, <1>2, RowsTyped DEF Owned, Distinct
  <2>2. Armed' = Armed /\ Open' = Open /\ Rows' = Rows
    BY <1>1, <1>2 DEF Armed, Open, Rows
  <2> QED
    BY <1>1, <2>1, <2>2, FewerOwners
<1>3. CASE call[c].pc \in Past /\ Adds(c) /\ UNCHANGED requests
  <2>1. PICK w \in WakeRow : /\ wakes' = wakes \cup {w}
                             /\ w.run = call[c].run /\ w.id \notin UsedIds
    BY <1>3 DEF Adds
  <2>2. \A x \in wakes \cup due : x.id # w.id
    BY <2>1 DEF UsedIds
  <2>3. Distinct'
    BY <1>1, <2>1, <2>2, RowsTyped DEF Owned, Distinct
  <2>4. /\ \A x \in Armed' : x \in Armed \/ x = w
        /\ Open' = Open /\ \A x \in Rows' : x \in Rows \/ x = w
    BY <1>1, <1>3, <2>1 DEF Armed, Open, Rows
  <2>5. PinnedFirst'
    BY <1>1, <1>3, <2>1, <2>4, RowsTyped DEF Owned, PinnedFirst, Past
  <2>6. \A x \in Armed \cup Open : x.run # w.run
    BY <2>1 DEF Owned, OneOwner
  <2>7. \A d \in Calls : call'[d].run # w.run
    BY <1>1, <2>1, RowsTyped DEF Owned, OneOwner
  <2>8. \A x \in Armed \cup Open : x.run \in Runs
    BY RowsTyped DEF Armed, Open
  <2>9. \A d \in Calls : call'[d].run = call[d].run \/ call'[d].run = None
    BY <1>1
  <2>10. \A d \in Calls, x \in Armed \cup Open : x.run # call'[d].run
    BY <2>8, <2>9, RowsTyped DEF Owned, OneOwner
  <2>11. \A d, e \in Calls : call'[d].run \in Runs /\ call'[d].run = call'[e].run => d = e
    BY <2>9, RowsTyped DEF Owned, OneOwner
  <2>12. \A x, y \in Armed' : x.run = y.run => x.id = y.id
    BY <2>4, <2>6 DEF Owned, OneOwner
  <2>13. \A x \in Armed', q \in Open' : x.run # q.run
    BY <2>4, <2>6 DEF Owned, OneOwner
  <2>14. \A d \in Calls : \A x \in (Armed \cup Open)' : x.run # call'[d].run
    BY <2>4, <2>7, <2>10
  <2>15. \A p, q \in Open' : p.run = q.run => p = q
    BY <2>4 DEF Owned, OneOwner
  <2> QED
    BY <2>3, <2>5, <2>11, <2>12, <2>13, <2>14, <2>15 DEF Owned, OneOwner
<1>4. CASE call[c].pc \in Past /\ Asks(c) /\ UNCHANGED wakes
  <2>1. PICK w \in Request : /\ requests' = requests \cup {w} /\ w.run = call[c].run
                             /\ w.status = "pending"
    BY <1>4 DEF Asks
  <2>3. Distinct'
    BY <1>1, <1>4, RowsTyped DEF Owned, Distinct
  <2>4. /\ \A x \in Open' : x \in Open \/ x = w
        /\ Armed' = Armed /\ \A x \in Rows' : x \in Rows \/ x = w
    BY <1>1, <1>4, <2>1 DEF Armed, Open, Rows
  <2>5. PinnedFirst'
    BY <1>1, <1>4, <2>1, <2>4, RowsTyped DEF Owned, PinnedFirst, Past
  <2>6. \A x \in Armed \cup Open : x.run # w.run
    BY <2>1 DEF Owned, OneOwner
  <2>7. \A d \in Calls : call'[d].run # w.run
    BY <1>1, <2>1, RowsTyped DEF Owned, OneOwner
  <2>8. \A x \in Armed \cup Open : x.run \in Runs
    BY RowsTyped DEF Armed, Open
  <2>9. \A d \in Calls : call'[d].run = call[d].run \/ call'[d].run = None
    BY <1>1
  <2>10. \A d \in Calls, x \in Armed \cup Open : x.run # call'[d].run
    BY <2>8, <2>9, RowsTyped DEF Owned, OneOwner
  <2>11. \A d, e \in Calls : call'[d].run \in Runs /\ call'[d].run = call'[e].run => d = e
    BY <2>9, RowsTyped DEF Owned, OneOwner
  <2>12. \A p, q \in Open' : p.run = q.run => p = q
    BY <2>4, <2>6 DEF Owned, OneOwner
  <2>13. \A x \in Armed', q \in Open' : x.run # q.run
    BY <2>4, <2>6 DEF Owned, OneOwner
  <2>14. \A d \in Calls : \A x \in (Armed \cup Open)' : x.run # call'[d].run
    BY <2>4, <2>7, <2>10
  <2>15. \A x, y \in Armed' : x.run = y.run => x.id = y.id
    BY <2>4 DEF Owned, OneOwner
  <2> QED
    BY <2>3, <2>5, <2>11, <2>12, <2>13, <2>14, <2>15 DEF Owned, OneOwner
<1> QED
  BY <1>2, <1>3, <1>4 DEF Goes

(* A handler enters a run whose owners, if any, this very step takes away. *)
LEMMA EnterOwned ==
  ASSUME Typing, Owned, Distinct', UNCHANGED pin,
         NEW c \in Calls, NEW r \in Runs,
         \A d \in Calls : d # c => call'[d] = call[d],
         call'[c].run = r, call'[c].pc = "load",
         \A d \in Calls : call[d].run # r,
         \A w \in Armed' : w.run # r /\ w \in Armed,
         \A q \in Open' : q.run # r /\ q \in Open,
         \A w \in Rows' : \E x \in Rows : x.run = w.run
  PROVE  Owned'
<1>1. PinnedFirst'
  <2>1. ASSUME NEW d \in Calls, call'[d].pc \in Past PROVE pin'[call'[d].run] # 0
    BY <2>1 DEF Owned, PinnedFirst, Past
  <2>2. ASSUME NEW w \in Rows' PROVE pin'[w.run] # 0
    BY DEF Owned, PinnedFirst
  <2> QED
    BY <2>1, <2>2 DEF PinnedFirst
<1>2. \A d, e \in Calls : call'[d].run \in Runs /\ call'[d].run = call'[e].run => d = e
  BY DEF Owned, OneOwner
<1>3. /\ \A x, y \in Armed' : x.run = y.run => x.id = y.id
      /\ \A p, q \in Open' : p.run = q.run => p = q
      /\ \A x \in Armed', q \in Open' : x.run # q.run
  BY DEF Owned, OneOwner
<1>4. ASSUME NEW d \in Calls, NEW x \in (Armed \cup Open)' PROVE x.run # call'[d].run
  BY DEF Owned, OneOwner
<1> QED
  BY <1>1, <1>2, <1>3, <1>4 DEF Owned, OneOwner

LEMMA InitOwned == Init => Owned
  BY NoneAssumption DEF Init, Owned, Distinct, PinnedFirst, OneOwner, Armed, Open, Rows, IdleCall, Past

LEMMA NextOwned ==
  ASSUME Undisturbed, Typing, Owned, [Next]_vars
  PROVE  Owned'
<1> USE DEF store, ticker, hist
<1>1. ASSUME NEW c \in Calls, CallStep(c) PROVE Owned'
  BY <1>1, InRun, CallStepShape, StaysOwned, GoesOwned DEF Owned
<1>2. ASSUME NEW c \in Workers, NEW r \in Runs, Invoke(c, r) PROVE Owned'
  <2>1. /\ UNCHANGED <<pin, wakes, due, firing, requests>>
        /\ \A d \in Calls : d # c => call'[d] = call[d]
        /\ call'[c].run = r /\ call'[c].pc = "load"
        /\ \A d \in Calls : call[d].run # r
        /\ pin[r] = 0
    BY <1>2, EnterShape, RowsTyped DEF Invoke
  <2>2. c \in Calls /\ c # Ticker
    BY CallsAssumption DEF Calls
  <2>3. Distinct'
    BY <2>1, <2>2, RowsTyped DEF Owned, Distinct
  <2>4. Armed' = Armed /\ Open' = Open /\ Rows' = Rows
    BY <2>1 DEF Armed, Open, Rows
  <2>5. \A w \in Armed \cup Open : w \in Rows /\ w.run # r
    BY <2>1 DEF Armed, Open, Rows, Owned, PinnedFirst
  <2> QED
    BY <2>1, <2>2, <2>3, <2>4, <2>5, EnterOwned
<1>3. CASE Scan
  <2>1. /\ UNCHANGED <<pin, wakes, firing, requests, call>>
        /\ due' \subseteq wakes /\ firing = NoWake /\ due = {}
    BY <1>3 DEF Scan, Owned, Distinct
  <2>2. Distinct'
    BY <2>1, RowsTyped DEF Owned, Distinct
  <2>3. Armed' \subseteq Armed /\ Open' = Open /\ Rows' \subseteq Rows
    BY <2>1 DEF Armed, Open, Rows
  <2> QED
    BY <2>1, <2>2, <2>3, FewerOwners
<1>4. ASSUME NEW w \in due, Fire(w) PROVE Owned'
  <2>1. /\ UNCHANGED <<pin, wakes, requests>>
        /\ firing = NoWake /\ firing' = w /\ due' = due \ {w}
        /\ Enter(Ticker, w.run, w.attempt)
    BY <1>4 DEF Fire, Owned, Distinct
  <2>2. /\ \A d \in Calls : d # Ticker => call'[d] = call[d]
        /\ call'[Ticker].run = w.run /\ call'[Ticker].pc = "load"
    BY <2>1, EnterShape, RowsTyped
  <2>3. Distinct'
    BY <2>1, <2>2, RowsTyped DEF Owned, Distinct
  <2>4. w \in Armed /\ w.run \in Runs /\ \A x \in Armed \cup Open : x.run \in Runs
    BY <2>1, RowsTyped DEF Armed, Open
  <2>5. \A x \in Armed' : x \in Armed /\ x.id # w.id
    BY <2>1, RowsTyped DEF Armed
  <2>6. \A x \in Armed' : x \in Armed /\ x.run # w.run
    BY <2>4, <2>5 DEF Owned, OneOwner
  <2>7. \A q \in Open' : q \in Open /\ q.run # w.run
    BY <2>1, <2>4 DEF Owned, OneOwner, Open
  <2>8. \A d \in Calls : call[d].run # w.run
    BY <2>4 DEF Owned, OneOwner
  <2>9. Rows' \subseteq Rows
    BY <2>1 DEF Rows
  <2> QED
    BY <2>1, <2>2, <2>3, <2>4, <2>6, <2>7, <2>8, <2>9, RowsTyped, EnterOwned
<1>5. ASSUME NEW w \in due, MountFails(w) PROVE Owned'
  <2>1. UNCHANGED <<pin, wakes, firing, requests, call>> /\ due' \subseteq due
    BY <1>5 DEF MountFails
  <2>2. Distinct'
    BY <2>1 DEF Owned, Distinct
  <2>3. Armed' \subseteq Armed /\ Open' = Open /\ Rows' \subseteq Rows
    BY <2>1 DEF Armed, Open, Rows
  <2> QED
    BY <2>1, <2>2, <2>3, FewerOwners
<1>6. CASE DropFired
  <2>1. /\ UNCHANGED <<pin, due, requests>> /\ firing' = NoWake
        /\ wakes' = {w \in wakes : w.id # firing.id}
        /\ call' = [call EXCEPT ![Ticker] = IdleCall]
    BY <1>6 DEF DropFired
  <2>2. /\ \A d \in Calls : d # Ticker => call'[d] = call[d]
        /\ call'[Ticker].run = None /\ call'[Ticker].pc = "idle"
    BY <2>1, RowsTyped DEF IdleCall
  <2>3. Distinct'
    BY <2>1, RowsTyped DEF Owned, Distinct
  <2>4. Armed' \subseteq Armed /\ Open' = Open /\ Rows' \subseteq Rows
    BY <2>1 DEF Armed, Open, Rows, Owned, Distinct
  <2> QED
    BY <2>1, <2>2, <2>3, <2>4, FewerOwners
<1>7. ASSUME NEW c \in Workers, NEW q \in requests, NEW a \in Answers, Answer(c, q, a)
      PROVE  Owned'
  <2>1. /\ UNCHANGED <<pin, wakes, due, firing>> /\ Enter(c, q.run, 1)
        /\ requests' = (requests \ {q}) \cup {[q EXCEPT !.status = "answered"]}
        /\ q.status = "pending" /\ q \in Open
    BY <1>7 DEF Answer, Undisturbed, Open
  <2>2. /\ c \in Calls /\ c # Ticker /\ q.run \in Runs
        /\ [q EXCEPT !.status = "answered"].status = "answered"
        /\ [q EXCEPT !.status = "answered"].run = q.run
    BY CallsAssumption, RowsTyped DEF Calls, Request
  <2>3. /\ \A d \in Calls : d # c => call'[d] = call[d]
        /\ call'[c].run = q.run /\ call'[c].pc = "load"
    BY <2>1, <2>2, EnterShape
  <2>4. Distinct'
    BY <2>1, <2>2, <2>3, RowsTyped DEF Owned, Distinct
  <2>5. Armed' = Armed /\ \A x \in Open' : x \in Open /\ x # q
    BY <2>1, <2>2 DEF Armed, Open
  <2>6. \A x \in Open' : x.run # q.run
    BY <2>1, <2>5 DEF Owned, OneOwner
  <2>7. /\ \A x \in Armed : x.run # q.run
        /\ \A d \in Calls : call[d].run # q.run
    BY <2>1 DEF Owned, OneOwner
  <2>8. \A x \in Rows' : \E y \in Rows : y.run = x.run
    BY <2>1, <2>2 DEF Rows
  <2> QED
    BY <2>1, <2>2, <2>3, <2>4, <2>5, <2>6, <2>7, <2>8, EnterOwned
<1>8. ASSUME UNCHANGED <<pin, due, firing, call>>, wakes' \subseteq wakes, requests' \subseteq requests
      PROVE  Owned'
  <2>1. Distinct'
    BY <1>8 DEF Owned, Distinct
  <2>2. Armed' \subseteq Armed /\ Open' \subseteq Open /\ Rows' \subseteq Rows
    BY <1>8 DEF Armed, Open, Rows
  <2> QED
    BY <1>8, <2>1, <2>2, FewerOwners
<1>9. CASE \/ Deploy \/ DeleteFunction \/ BufferExpires \/ UNCHANGED vars
           \/ \E r \in Runs : Cancel(r)
           \/ \E r \in cancelling : CancelPrimary(r)
  BY <1>8, <1>9 DEF Deploy, DeleteFunction, BufferExpires, Cancel, CancelPrimary, vars
<1>10. ASSUME NEW e \in Events, Emit(e) PROVE Owned'
  <2>1. UNCHANGED <<pin, due, firing, call, requests>>
    BY <1>10 DEF Emit
  <2>2. CASE \E w \in wakes : Awaits(w)
    <3> DEFINE Delivered(w) == IF Awaits(w) THEN [w EXCEPT !.status = "ready", !.value = e] ELSE w
    <3>1. wakes' = {Delivered(w) : w \in wakes}
      BY <1>10, <2>2 DEF Emit
    <3>2. \A w \in wakes : Delivered(w).id = w.id /\ Delivered(w).run = w.run
                           /\ Delivered(w).key = w.key /\ Delivered(w).kind = w.kind
      BY RowsTyped DEF WakeRow
    <3> HIDE DEF Delivered
    <3>3. Distinct'
      <4>1. ASSUME NEW w \in wakes', NEW x \in wakes', w.id = x.id PROVE w = x
        <5>1. PICK y \in wakes, z \in wakes : w = Delivered(y) /\ x = Delivered(z)
          BY <3>1
        <5>2. y = z
          BY <3>2, <4>1, <5>1 DEF Owned, Distinct
        <5> QED
          BY <5>1, <5>2
      <4>2. ASSUME NEW w \in wakes', NEW x \in due', w.id = x.id
            PROVE  w.run = x.run /\ w.key = x.key /\ w.kind = x.kind
        BY <2>1, <3>1, <3>2, <4>2 DEF Owned, Distinct
      <4> QED
        BY <2>1, <4>1, <4>2 DEF Owned, Distinct
    <3>4. \A w \in Armed' : \E x \in Armed : x.id = w.id /\ x.run = w.run
      BY <2>1, <3>1, <3>2 DEF Armed
    <3>5. Open' = Open /\ \A w \in Rows' : \E x \in Rows : x.run = w.run
      BY <2>1, <3>1, <3>2 DEF Open, Rows
    <3> QED
      BY <2>1, <3>3, <3>4, <3>5, FewerOwners
  <2>3. CASE ~ \E w \in wakes : Awaits(w)
    BY <1>8, <1>10, <2>1, <2>3 DEF Emit
  <2> QED
    BY <2>2, <2>3
<1>11. ~ Crash
  BY BoundsAssumption DEF Crash, Undisturbed, Typing, TypeOK
<1> QED
  BY <1>1, <1>2, <1>3, <1>4, <1>5, <1>6, <1>7, <1>9, <1>10, <1>11 DEF Next, TickerStep

LEMMA OwnedInvariant ==
  ASSUME Undisturbed
  PROVE  Spec => [](Typing /\ Owned)
<1>1. Init => Typing /\ Owned
  BY InitTyping, InitOwned
<1>2. (Typing /\ Owned) /\ [Next]_vars => (Typing /\ Owned)'
  BY NextTyping, NextOwned
<1> QED
  BY <1>1, <1>2, PTL DEF Spec

(* A run is never executed twice at once, though nothing locks it, while the process lives
   and each request is answered once: whatever is cancelled, deleted, redeployed or expires,
   for any number of handlers and runs. *)
THEOREM OneExecutionAtATime ==
  ASSUME Undisturbed
  PROVE  Spec => []SingleFlight
<1>1. Typing /\ Owned => SingleFlight
  <2>1. Typing => \A c \in Calls : call[c].run \in Runs \cup {None}
    BY RowsTyped
  <2> QED
    BY <2>1 DEF Owned, OneOwner, SingleFlight
<1> QED
  BY <1>1, OwnedInvariant, PTL

-----------------------------------------------------------------------------
(* What an execution knows is the journal as it stands, since nobody else writes it; its own
   steps are new; and whatever waits for a step waits for one that is not journaled. *)
Stepping == {"exec", "persist"}

FreshOf(c) ==
  /\ call[c].pc \in {"load", "pin", "read"} => call[c].fresh = NoSteps
  /\ call[c].pc \in Stepping =>
       /\ call[c].prior = journal[call[c].run]
       /\ \A k \in Keys : call[c].fresh[k] = None \/ call[c].prior[k] = None
  /\ call[c].pc = "persist" /\ call[c].outcome = "suspended" => ~ Known(c, call[c].key)
  /\ call[c].pc = "register" /\ call[c].outcome = "suspended" =>
       journal[call[c].run][call[c].key] = None
  /\ call[c].pc \notin {"persist", "register"} => call[c].outcome # "suspended"

Blank(w) == w.key \in Keys /\ journal[w.run][w.key] = None
BlankRows ==
  /\ \A w \in Armed : w.kind # "retry" => Blank(w)
  /\ \A q \in Open : Blank(q)

HasRun(c, r, k) == call[c].run = r /\ call[c].pc \in Stepping /\ call[c].fresh[k] # None
RanOnce ==
  \A r \in Runs, k \in Keys :
    <<r, k>> \in ran => journal[r][k] # None \/ \E c \in Calls : HasRun(c, r, k)

NewSteps == BlankRows /\ RanOnce /\ \A c \in Calls : FreshOf(c)

(* A step of one call, which writes to the journal of its run only. *)
LEMMA StepFrame ==
  ASSUME Typing, NewSteps, NEW c \in Calls, NEW r \in Runs,
         \A d \in Calls : d # c => call'[d] = call[d] /\ call[d].run # r,
         call[c].pc \in Stepping => call[c].run = r,
         \A s \in Runs : s # r => journal'[s] = journal[s],
         \A s \in Runs, k \in Keys : s # r /\ <<s, k>> \in ran' => <<s, k>> \in ran,
         \A k \in Keys : <<r, k>> \in ran' => journal'[r][k] # None \/ HasRun(c, r, k)',
         FreshOf(c)', BlankRows'
  PROVE  NewSteps'
<1>1. ASSUME NEW d \in Calls, d # c PROVE FreshOf(d)'
  <2>1. call'[d] = call[d] /\ FreshOf(d) /\ (call[d].pc \in Busy => call[d].run \in Runs /\ call[d].run # r)
    BY <1>1 DEF NewSteps, Typing, CallsWellFormed
  <2>2. call[d].pc \in Busy => journal'[call[d].run] = journal[call[d].run]
    BY <2>1
  <2> QED
    BY <2>1, <2>2 DEF FreshOf, Known, Stepping, Busy
<1>2. ASSUME NEW s \in Runs, NEW k \in Keys, <<s, k>> \in ran'
      PROVE  journal'[s][k] # None \/ \E d \in Calls : HasRun(d, s, k)'
  <2>1. CASE s = r
    BY <1>2, <2>1
  <2>2. CASE s # r
    <3>1. journal[s][k] # None \/ \E d \in Calls : HasRun(d, s, k)
      BY <1>2, <2>2 DEF NewSteps, RanOnce
    <3>2. ASSUME NEW d \in Calls, HasRun(d, s, k) PROVE HasRun(d, s, k)'
      BY <2>2, <3>2 DEF HasRun
    <3> QED
      BY <2>2, <3>1, <3>2
  <2> QED
    BY <2>1, <2>2
<1> QED
  BY <1>1, <1>2 DEF NewSteps, RanOnce

(* A step that neither writes the journal nor executes anything, in which calls end. *)
LEMMA QuietFrame ==
  ASSUME NewSteps, UNCHANGED <<journal, ran>>, BlankRows',
         \A d \in Calls : \/ call'[d] = call[d]
                          \/ /\ call[d].pc \notin Stepping
                             /\ call'[d].pc \in {"idle", "drop"} /\ call'[d].outcome = "none"
  PROVE  NewSteps'
<1>1. ASSUME NEW d \in Calls PROVE FreshOf(d)'
  BY DEF NewSteps, FreshOf, Known, Stepping
<1>2. \A d \in Calls, s \in Runs, k \in Keys : HasRun(d, s, k) => HasRun(d, s, k)'
  BY DEF HasRun
<1> QED
  BY <1>1, <1>2 DEF NewSteps, RanOnce

LEMMA RowsKeepBlank ==
  ASSUME BlankRows, UNCHANGED journal, Open' \subseteq Open,
         \A w \in Armed' : \E x \in Armed : x.run = w.run /\ x.key = w.key /\ x.kind = w.kind
  PROVE  BlankRows'
  BY DEF BlankRows, Blank

LEMMA InitNewSteps == Init => NewSteps
  BY DEF Init, NewSteps, BlankRows, RanOnce, Armed, Open, FreshOf, IdleCall, Stepping

(* What Recorded makes of a journal. *)
LEMMA RecordedSteps ==
  ASSUME Typing, NewSteps, NEW c \in Calls, RecordRun(c)
  PROVE  /\ \A s \in Runs : s # call[c].run => journal'[s] = journal[s]
         /\ \A k \in Keys : /\ journal[call[c].run][k] # None =>
                                 journal'[call[c].run][k] = journal[call[c].run][k]
                            /\ call[c].fresh[k] # None => journal'[call[c].run][k] # None
         /\ call[c].outcome = "suspended" =>
              call[c].key \in Keys /\ journal'[call[c].run][call[c].key] = None
<1>1. /\ call[c].pc = "persist" /\ call[c].run \in Runs /\ FreshOf(c)
      /\ journal' = [journal EXCEPT ![call[c].run] = Recorded(c)]
      /\ journal \in [Runs -> Steps]
      /\ call[c].outcome = "suspended" => call[c].key \in Keys
  BY DEF RecordRun, NewSteps, Typing, TypeOK, CallsWellFormed, Busy
<1>2. \A k \in Keys : journal'[call[c].run][k] =
        IF call[c].fresh[k] # None THEN call[c].fresh[k] ELSE journal[call[c].run][k]
  BY <1>1 DEF Recorded
<1> QED
  BY <1>1, <1>2 DEF FreshOf, Known, Stepping

(* The same for the owner of a run: no row waits for a step of its run. *)
LEMMA OwnerFrame ==
  ASSUME Typing, Owned, NewSteps, NEW c \in Calls, NEW r \in Runs, call[c].run = r,
         \A d \in Calls : d # c => call'[d] = call[d],
         \A s \in Runs : s # r => journal'[s] = journal[s],
         \A s \in Runs, k \in Keys : s # r /\ <<s, k>> \in ran' => <<s, k>> \in ran,
         \A k \in Keys : <<r, k>> \in ran' =>
            journal'[r][k] # None \/ HasRun(c, r, k)',
         FreshOf(c)',
         \A w \in Armed' : w \in Armed \/ w.kind = "retry" \/ Blank(w)',
         \A q \in Open' : q \in Open \/ Blank(q)'
  PROVE  NewSteps'
<1>1. \A d \in Calls : d # c => call[d].run # r
  BY DEF Owned, OneOwner
<1>2. \A w \in Armed \cup Open : w.run \in Runs /\ w.run # r
  BY RowsTyped DEF Owned, OneOwner, Armed, Open
<1>3. BlankRows'
  <2>1. ASSUME NEW w \in Armed', w.kind # "retry" PROVE Blank(w)'
    <3>1. CASE w \in Armed
      <4>1. Blank(w) /\ journal'[w.run] = journal[w.run]
        BY <1>2, <2>1, <3>1 DEF NewSteps, BlankRows
      <4> QED
        BY <4>1 DEF Blank
    <3> QED
      BY <2>1, <3>1
  <2>2. ASSUME NEW q \in Open' PROVE Blank(q)'
    <3>1. CASE q \in Open
      <4>1. Blank(q) /\ journal'[q.run] = journal[q.run]
        BY <1>2, <3>1 DEF NewSteps, BlankRows
      <4> QED
        BY <4>1 DEF Blank
    <3> QED
      BY <2>2, <3>1
  <2> QED
    BY <2>1, <2>2 DEF BlankRows
<1> QED
  BY <1>1, <1>3, StepFrame

(* What executed of the run of a call is journaled or known to that call. *)
LEMMA RanOfOwner ==
  ASSUME Typing, Owned, NewSteps, NEW c \in Calls, NEW r \in Runs, call[c].run = r, NEW k \in Keys,
         <<r, k>> \in ran
  PROVE  journal[r][k] # None \/ HasRun(c, r, k)
  BY DEF NewSteps, RanOnce, HasRun, Owned, OneOwner

(* A wake row is registered for a retry, or for a step that is not journaled. *)
LEMMA WakeBlank ==
  ASSUME Typing, NewSteps, NEW c \in Calls, call[c].pc = "register", call[c].run \in Runs,
         NEW kind, NEW a, NEW st, NEW v, AddWake(c, kind, a, st, v),
         UNCHANGED <<journal, due, firing>>,
         kind = "retry" \/ call[c].outcome = "suspended"
  PROVE  \A w \in Armed' : w \in Armed \/ w.kind = "retry" \/ Blank(w)'
<1>1. PICK id \in RowIds \ UsedIds :
        wakes' = wakes \cup {[id |-> id, run |-> call[c].run, kind |-> kind, key |-> call[c].key,
                              attempt |-> a, status |-> st, value |-> v]}
  BY DEF AddWake
<1>2. call[c].outcome = "suspended" =>
        call[c].key \in Keys /\ journal[call[c].run][call[c].key] = None
  BY DEF NewSteps, FreshOf, Typing, CallsWellFormed
<1> DEFINE x == [id |-> id, run |-> call[c].run, kind |-> kind, key |-> call[c].key,
                 attempt |-> a, status |-> st, value |-> v]
<1>3. x.kind = "retry" \/ (x.key \in Keys /\ journal'[x.run][x.key] = None)
  BY <1>2
<1>4. \A w \in Armed' : w \in Armed \/ w = x
  BY <1>1 DEF Armed
<1> HIDE DEF x
<1> QED
  BY <1>3, <1>4 DEF Blank

LEMMA OwnerStep ==
  ASSUME Typing, Owned, NewSteps, NEW c \in Calls, NEW r \in Runs, call[c].run = r,
         \A d \in Calls : d # c => call'[d] = call[d],
         UNCHANGED <<journal, ran>>, FreshOf(c)',
         \A k \in Keys : HasRun(c, r, k) => HasRun(c, r, k)',
         \A w \in Armed' : w \in Armed \/ w.kind = "retry" \/ Blank(w)',
         Open' \subseteq Open
  PROVE  NewSteps'
  BY RanOfOwner, OwnerFrame

LEMMA CallStepNewSteps ==
  ASSUME Typing, Owned, NewSteps, NEW c \in Calls, CallStep(c)
  PROVE  NewSteps'
<1> USE DEF store, ticker, hist
<1>r. PICK r \in Runs : call[c].run = r
  BY InRun
<1>0. /\ call \in [Calls -> CallState] /\ call[c] \in CallState
      /\ call[c].pc \in Busy /\ FreshOf(c)
      /\ call[c].fresh \in Steps /\ call[c].prior \in Steps
  BY InRun DEF Typing, TypeOK, NewSteps, CallState
<1>1. ASSUME UNCHANGED <<journal, ran, wakes, due, firing, requests>>,
             NEW x, call' = [call EXCEPT ![c] = x], FreshOf(c)',
             call[c].pc \in Stepping => x.run = r /\ x.pc \in Stepping /\ x.fresh = call[c].fresh
      PROVE  NewSteps'
  <2>1. Armed' = Armed /\ Open' = Open
    BY <1>1 DEF Armed, Open
  <2>2. \A d \in Calls : d # c => call'[d] = call[d]
    BY <1>0, <1>1
  <2>3. \A k \in Keys : HasRun(c, r, k) => HasRun(c, r, k)'
    BY <1>0, <1>1, <1>r DEF HasRun
  <2> QED
    BY <1>0, <1>1, <1>r, <2>1, <2>2, <2>3, OwnerStep
<1>2. CASE LoadPinned(c)
  <2>1. PICK v \in Versions :
          call' = [call EXCEPT ![c] = [call[c] EXCEPT !.pc = "read", !.body = functions[v]]]
    BY <1>2 DEF LoadPinned
  <2>2. call[c].pc = "load" /\ FreshOf(c)'
    BY <1>0, <1>2, <2>1 DEF LoadPinned, FreshOf, Stepping, CallState
  <2> QED
    BY <1>1, <1>2, <2>1, <2>2 DEF LoadPinned, Stepping
<1>3. CASE LoadLatest(c)
  <2>1. PICK v \in Versions :
          call' = [call EXCEPT ![c] = [call[c] EXCEPT !.pc = "pin", !.body = functions[v],
                                                      !.version = v]]
    BY <1>3 DEF LoadLatest
  <2>2. call[c].pc = "load" /\ FreshOf(c)'
    BY <1>0, <1>3, <2>1 DEF LoadLatest, FreshOf, Stepping, CallState
  <2> QED
    BY <1>1, <1>3, <2>1, <2>2 DEF LoadLatest, Stepping
<1>4. CASE PinVersion(c)
  <2>1. call' = [call EXCEPT ![c] = [call[c] EXCEPT !.pc = "read", !.version = 0]]
    BY <1>4 DEF PinVersion
  <2>2. call[c].pc = "pin" /\ FreshOf(c)'
    BY <1>0, <1>4, <2>1 DEF PinVersion, FreshOf, Stepping, CallState
  <2> QED
    BY <1>1, <1>4, <2>1, <2>2 DEF PinVersion, Stepping
<1>5. CASE ReadJournal(c)
  <2>1. call' = [call EXCEPT ![c] = [call[c] EXCEPT !.pc = "exec", !.prior = journal[call[c].run]]]
    BY <1>5 DEF ReadJournal
  <2>2. call[c].pc = "read" /\ call[c].fresh = NoSteps /\ journal' = journal
    BY <1>0, <1>5 DEF ReadJournal, FreshOf
  <2>3. FreshOf(c)'
    BY <1>0, <2>1, <2>2 DEF FreshOf, Stepping, CallState, NoSteps
  <2> QED
    BY <1>1, <1>5, <2>1, <2>2, <2>3 DEF ReadJournal, Stepping
<1>6. CASE Suspend(c)
  <2>1. PICK k \in Keys :
          /\ ~ Known(c, k) /\ call[c].pc = "exec"
          /\ call' = [call EXCEPT ![c] = [call[c] EXCEPT !.pc = "persist", !.outcome = "suspended",
                                                         !.key = k]]
    BY <1>6 DEF Suspend, AtStep
  <2>2. FreshOf(c)'
    BY <1>0, <1>6, <2>1 DEF Suspend, FreshOf, Stepping, CallState, Known
  <2> QED
    BY <1>0, <1>1, <1>6, <1>r, <2>1, <2>2 DEF Suspend, Stepping, CallState
<1>7. CASE Return(c)
  <2>1. /\ call[c].pc = "exec"
        /\ call' = [call EXCEPT ![c] = [call[c] EXCEPT !.pc = "persist", !.outcome = "done"]]
    BY <1>7 DEF Return, AtEnd
  <2>2. FreshOf(c)'
    BY <1>0, <1>7, <2>1 DEF Return, FreshOf, Stepping, CallState
  <2> QED
    BY <1>0, <1>1, <1>7, <1>r, <2>1, <2>2 DEF Return, Stepping, CallState
<1>8. CASE Throw(c)
  <2>1. PICK o \in {"failed", "fatal"} :
          call' = [call EXCEPT ![c] = [call[c] EXCEPT !.pc = "persist", !.outcome = o]]
    BY <1>8, BoundsAssumption DEF Throw
  <2>2. call[c].pc = "exec" /\ FreshOf(c)'
    BY <1>0, <1>8, <2>1 DEF Throw, FreshOf, Stepping, CallState
  <2> QED
    BY <1>0, <1>1, <1>8, <1>r, <2>1, <2>2 DEF Throw, Stepping, CallState
<1>9. CASE RunOp(c)
  <2>1. PICK k \in Keys, v \in Results :
          /\ ~ Known(c, k) /\ call[c].pc = "exec"
          /\ call' = [call EXCEPT ![c] = [call[c] EXCEPT !.fresh = [call[c].fresh EXCEPT ![k] = v]]]
          /\ ran' = ran \cup {<<r, k>>}
    BY <1>9, <1>r DEF RunOp, AtStep
  <2>2. v # None /\ UNCHANGED <<journal, wakes, due, firing, requests>>
    BY <1>9, NoneAssumption DEF RunOp, Values
  <2>3. /\ call'[c].run = r /\ call'[c].pc = "exec" /\ call'[c].prior = call[c].prior
        /\ call'[c].outcome = call[c].outcome
        /\ call'[c].fresh = [call[c].fresh EXCEPT ![k] = v]
        /\ \A d \in Calls : d # c => call'[d] = call[d]
    BY <1>0, <1>r, <2>1 DEF CallState
  <2>4. \A l \in Keys : call'[c].fresh[l] = IF l = k THEN v ELSE call[c].fresh[l]
    BY <1>0, <2>3 DEF Steps
  <2>5. FreshOf(c)'
    BY <1>0, <1>r, <2>1, <2>2, <2>3, <2>4 DEF FreshOf, Stepping, Known
  <2>6. Armed' = Armed /\ Open' = Open
    BY <2>2 DEF Armed, Open
  <2>7. \A l \in Keys : <<r, l>> \in ran' => journal'[r][l] # None \/ HasRun(c, r, l)'
    BY <1>0, <1>r, <2>1, <2>2, <2>3, <2>4, RanOfOwner DEF HasRun, Stepping
  <2> QED
    BY <1>0, <1>r, <2>1, <2>2, <2>3, <2>5, <2>6, <2>7, OwnerFrame
<1>10. CASE Persist(c)
  <2>1. /\ RecordRun(c) /\ UNCHANGED <<ran, wakes, due, firing, requests>>
        /\ call' = [call EXCEPT ![c].pc = "register"]
    BY <1>10 DEF Persist
  <2>2. /\ call'[c] = [call[c] EXCEPT !.pc = "register"]
        /\ \A d \in Calls : d # c => call'[d] = call[d]
    BY <1>0, <2>1
  <2>3. FreshOf(c)'
    BY <1>0, <1>r, <2>1, <2>2, RecordedSteps DEF FreshOf, Stepping, CallState
  <2>4. \A k \in Keys : <<r, k>> \in ran' => journal'[r][k] # None
    BY <1>r, <2>1, RanOfOwner, RecordedSteps DEF HasRun
  <2>5. Armed' = Armed /\ Open' = Open
    BY <2>1 DEF Armed, Open
  <2>6. \A s \in Runs : s # r => journal'[s] = journal[s]
    BY <1>r, <2>1, RecordedSteps
  <2> QED
    BY <1>r, <2>1, <2>2, <2>3, <2>4, <2>5, <2>6, OwnerFrame
<1>11. CASE PersistAsk(c)
  <2>1. /\ RecordRun(c) /\ UNCHANGED <<ran, wakes, due, firing>> /\ Leave(c)
        /\ call[c].outcome = "suspended"
    BY <1>11 DEF PersistAsk, Suspends
  <2>2. /\ call'[c].pc \in {"idle", "drop"} /\ call'[c].outcome = "none"
        /\ \A d \in Calls : d # c => call'[d] = call[d]
    BY <1>0, <2>1 DEF Leave, IdleCall
  <2>3. FreshOf(c)'
    BY <2>2 DEF FreshOf, Stepping
  <2>4. \A k \in Keys : <<r, k>> \in ran' => journal'[r][k] # None
    BY <1>r, <2>1, RanOfOwner, RecordedSteps DEF HasRun
  <2>5. PICK id \in RowIds : requests' = requests \cup
          {[id |-> id, run |-> call[c].run, key |-> call[c].key, status |-> "pending"]}
    BY <1>11 DEF PersistAsk
  <2> DEFINE y == [id |-> id, run |-> call[c].run, key |-> call[c].key, status |-> "pending"]
  <2>6. y.key \in Keys /\ journal'[y.run][y.key] = None
    BY <2>1, RecordedSteps
  <2>7. Armed' = Armed /\ \A q \in Open' : q \in Open \/ q = y
    BY <2>1, <2>5 DEF Armed, Open
  <2> HIDE DEF y
  <2>8. \A q \in Open' : q \in Open \/ Blank(q)'
    BY <2>6, <2>7 DEF Blank
  <2>9. \A s \in Runs : s # r => journal'[s] = journal[s]
    BY <1>r, <2>1, RecordedSteps
  <2> QED
    BY <1>r, <2>1, <2>2, <2>3, <2>4, <2>7, <2>8, <2>9, OwnerFrame
<1>12. ASSUME Leave(c), UNCHANGED <<journal, ran, due, firing, requests>>,
              call[c].pc \notin Stepping,
              \A w \in Armed' : w \in Armed \/ w.kind = "retry" \/ Blank(w)'
       PROVE  NewSteps'
  <2>1. /\ call'[c].pc \in {"idle", "drop"} /\ call'[c].outcome = "none"
        /\ \A d \in Calls : d # c => call'[d] = call[d]
    BY <1>0, <1>12 DEF Leave, IdleCall
  <2>2. FreshOf(c)'
    BY <2>1 DEF FreshOf, Stepping
  <2>3. Open' = Open /\ \A k \in Keys : ~ HasRun(c, r, k)
    BY <1>12 DEF Open, HasRun
  <2> QED
    BY <1>r, <1>12, <2>1, <2>2, <2>3, OwnerStep
<1>13. CASE RegisterTimer(c) \/ RegisterWaiter(c) \/ RegisterRetry(c)
  <2>1. /\ Leave(c) /\ UNCHANGED <<journal, ran, due, firing, requests>>
        /\ call[c].pc = "register" /\ call[c].pc \notin Stepping
    BY <1>13 DEF RegisterTimer, RegisterWaiter, RegisterRetry, Stepping
  <2>2. \E kind, a, st, v : /\ AddWake(c, kind, a, st, v)
                            /\ kind = "retry" \/ call[c].outcome = "suspended"
    BY <1>13 DEF RegisterTimer, RegisterWaiter, RegisterRetry, Suspends
  <2>3. \A w \in Armed' : w \in Armed \/ w.kind = "retry" \/ Blank(w)'
    BY <1>r, <2>1, <2>2, WakeBlank
  <2> QED
    BY <1>12, <2>1, <2>3
<1>14. CASE FunctionMissing(c) \/ EnqueueActions(c) \/ ReturnError(c)
  <2>1. /\ Leave(c) /\ UNCHANGED <<journal, ran, wakes, due, firing, requests>>
        /\ call[c].pc \notin Stepping
    BY <1>14 DEF FunctionMissing, EnqueueActions, ReturnError, Stepping
  <2>2. Armed' = Armed
    BY <2>1 DEF Armed
  <2> QED
    BY <1>12, <2>1, <2>2
<1> QED
  BY <1>2, <1>3, <1>4, <1>5, <1>6, <1>7, <1>8, <1>9, <1>10, <1>11, <1>13, <1>14 DEF CallStep

LEMMA EnterNewSteps ==
  ASSUME Typing, Owned, NewSteps, NEW c \in Calls, NEW r \in Runs, NEW a \in 1 .. MaxAttempts,
         Enter(c, r, a), call[c].pc = "idle", UNCHANGED ran,
         \A d \in Calls : call[d].run # r,
         \A s \in Runs : s # r => journal'[s] = journal[s],
         \A k \in Keys : journal[r][k] # None => journal'[r][k] # None,
         \A w \in Armed' : w \in Armed /\ w.run # r,
         \A q \in Open' : q \in Open /\ q.run # r
  PROVE  NewSteps'
<1>1. /\ \A d \in Calls : d # c => call'[d] = call[d]
      /\ call'[c].run = r /\ call'[c].pc = "load" /\ call'[c].fresh = NoSteps
      /\ call'[c].outcome = "none"
  BY RowsTyped DEF Enter, IdleCall
<1>2. FreshOf(c)'
  BY <1>1 DEF FreshOf, Stepping
<1>3. \A k \in Keys : <<r, k>> \in ran' => journal'[r][k] # None
  BY DEF NewSteps, RanOnce, HasRun
<1>4. \A w \in Armed \cup Open : w.run \in Runs
  BY RowsTyped DEF Armed, Open
<1>5. BlankRows'
  <2>1. ASSUME NEW w \in Armed', w.kind # "retry" PROVE Blank(w)'
    <3>1. Blank(w) /\ journal'[w.run] = journal[w.run]
      BY <1>4, <2>1 DEF NewSteps, BlankRows
    <3> QED
      BY <3>1 DEF Blank
  <2>2. ASSUME NEW q \in Open' PROVE Blank(q)'
    <3>1. Blank(q) /\ journal'[q.run] = journal[q.run]
      BY <1>4, <2>2 DEF NewSteps, BlankRows
    <3> QED
      BY <3>1 DEF Blank
  <2> QED
    BY <2>1, <2>2 DEF BlankRows
<1>6. call[c].pc \notin Stepping
  BY DEF Stepping
<1> QED
  BY <1>1, <1>2, <1>3, <1>5, <1>6, StepFrame

LEMMA NextNewSteps ==
  ASSUME Undisturbed, Typing, Owned, NewSteps, [Next]_vars
  PROVE  NewSteps'
<1> USE DEF store, ticker, hist
<1>0. 1 \in 1 .. MaxAttempts
  BY BoundsAssumption
<1>1. ASSUME NEW c \in Calls, CallStep(c) PROVE NewSteps'
  BY <1>1, CallStepNewSteps
<1>2. ASSUME NEW c \in Workers, NEW r \in Runs, Invoke(c, r) PROVE NewSteps'
  <2>1. /\ UNCHANGED <<pin, wakes, due, firing, requests, journal, ran>>
        /\ Enter(c, r, 1) /\ call[c].pc = "idle"
        /\ \A d \in Calls : call[d].run # r
        /\ pin[r] = 0 /\ c \in Calls
    BY <1>2, RowsTyped DEF Invoke
  <2>2. Armed' = Armed /\ Open' = Open
    BY <2>1 DEF Armed, Open
  <2>3. \A w \in Armed \cup Open : w.run # r
    BY <2>1 DEF Armed, Open, Rows, Owned, PinnedFirst
  <2> QED
    BY <1>0, <2>1, <2>2, <2>3, EnterNewSteps
<1>3. CASE Scan
  <2>1. UNCHANGED <<firing, requests, call, journal, ran, wakes>> /\ due' \subseteq wakes
    BY <1>3 DEF Scan
  <2>2. Armed' \subseteq Armed /\ Open' = Open
    BY <2>1 DEF Armed, Open
  <2> QED
    BY <2>1, <2>2, RowsKeepBlank, QuietFrame DEF NewSteps
<1>4. ASSUME NEW w \in due, Fire(w) PROVE NewSteps'
  <2>1. /\ UNCHANGED <<wakes, requests, ran>>
        /\ firing = NoWake /\ firing' = w /\ due' = due \ {w}
        /\ Enter(Ticker, w.run, w.attempt) /\ call[Ticker].pc = "idle"
    BY <1>4 DEF Fire, Owned, Distinct
  <2>2. w \in Armed /\ w.run \in Runs /\ w.attempt \in 1 .. MaxAttempts
    BY <2>1, RowsTyped DEF Armed, WakeRow
  <2>3. \A x \in Armed' : x \in Armed /\ x.id # w.id
    BY <2>1, RowsTyped DEF Armed
  <2>4. \A x \in Armed' : x \in Armed /\ x.run # w.run
    BY <2>2, <2>3 DEF Owned, OneOwner
  <2>5. \A q \in Open' : q \in Open /\ q.run # w.run
    BY <2>1, <2>2 DEF Owned, OneOwner, Open
  <2>6. \A d \in Calls : call[d].run # w.run
    BY <2>2 DEF Owned, OneOwner
  <2>7. journal \in [Runs -> Steps] /\ w.value \in Values /\ Null \in Values /\ None \notin Values
    BY RowsTyped, NoneAssumption DEF Typing, TypeOK, WakeRow, Values
  <2>8. /\ \A s \in Runs : s # w.run => journal'[s] = journal[s]
        /\ \A k \in Keys : journal[w.run][k] # None => journal'[w.run][k] # None
    <3>1. CASE w.kind = "retry"
      BY <1>4, <3>1 DEF Fire
    <3>2. CASE w.kind # "retry"
      <4>1. PICK v \in Values :
              journal' = [journal EXCEPT ![w.run] = [journal[w.run] EXCEPT ![w.key] = v]]
        BY <1>4, <2>7, <3>2 DEF Fire
      <4>2. journal[w.run] \in Steps
        BY <2>2, <2>7
      <4> QED
        BY <2>2, <2>7, <4>1, <4>2 DEF Steps
    <3> QED
      BY <3>1, <3>2
  <2> QED
    BY <2>1, <2>2, <2>4, <2>5, <2>6, <2>8, RowsTyped, EnterNewSteps
<1>5. ASSUME NEW w \in due, MountFails(w) PROVE NewSteps'
  <2>1. UNCHANGED <<wakes, firing, requests, call, journal, ran>> /\ due' \subseteq due
    BY <1>5 DEF MountFails
  <2>2. Armed' \subseteq Armed /\ Open' = Open
    BY <2>1 DEF Armed, Open
  <2> QED
    BY <2>1, <2>2, RowsKeepBlank, QuietFrame DEF NewSteps
<1>6. CASE DropFired
  <2>1. /\ UNCHANGED <<due, requests, journal, ran>> /\ firing' = NoWake
        /\ wakes' = {w \in wakes : w.id # firing.id}
        /\ call' = [call EXCEPT ![Ticker] = IdleCall] /\ call[Ticker].pc = "drop"
    BY <1>6 DEF DropFired
  <2>2. /\ \A d \in Calls : d # Ticker => call'[d] = call[d]
        /\ call'[Ticker].outcome = "none" /\ call'[Ticker].pc = "idle"
    BY <2>1, RowsTyped DEF IdleCall
  <2>3. Armed' \subseteq Armed /\ Open' = Open
    BY <2>1 DEF Armed, Open, Owned, Distinct
  <2>4. BlankRows'
    BY <2>1, <2>3, RowsKeepBlank DEF NewSteps
  <2> QED
    BY <2>1, <2>2, <2>4, QuietFrame DEF Stepping
<1>7. ASSUME NEW c \in Workers, NEW q \in requests, NEW a \in Answers, Answer(c, q, a)
      PROVE  NewSteps'
  <2>1. /\ UNCHANGED <<wakes, due, firing, ran>> /\ Enter(c, q.run, 1) /\ call[c].pc = "idle"
        /\ requests' = (requests \ {q}) \cup {[q EXCEPT !.status = "answered"]}
        /\ journal' = [journal EXCEPT ![q.run][q.key] = a]
        /\ q.status = "pending" /\ q \in Open /\ c \in Calls
    BY <1>7, RowsTyped DEF Answer, Undisturbed, Open
  <2>2. q.run \in Runs /\ [q EXCEPT !.status = "answered"].status = "answered"
    BY RowsTyped DEF Request
  <2>3. Armed' = Armed /\ \A x \in Open' : x \in Open /\ x # q
    BY <2>1, <2>2 DEF Armed, Open
  <2>4. /\ \A x \in Open' : x \in Open /\ x.run # q.run
        /\ \A x \in Armed' : x \in Armed /\ x.run # q.run
        /\ \A d \in Calls : call[d].run # q.run
    BY <2>1, <2>3 DEF Owned, OneOwner
  <2>5. journal \in [Runs -> Steps] /\ a # None /\ journal[q.run] \in Steps
    BY <2>2, NoneAssumption DEF Typing, TypeOK, Values
  <2>6. journal' = [journal EXCEPT ![q.run] = [journal[q.run] EXCEPT ![q.key] = a]]
    BY <2>1
  <2>7. /\ \A s \in Runs : s # q.run => journal'[s] = journal[s]
        /\ \A k \in Keys : journal[q.run][k] # None => journal'[q.run][k] # None
    BY <2>2, <2>5, <2>6 DEF Steps
  <2> QED
    BY <1>0, <2>1, <2>2, <2>4, <2>7, EnterNewSteps
<1>8. ASSUME UNCHANGED <<due, firing, call, journal, ran>>, wakes' \subseteq wakes,
             requests' \subseteq requests
      PROVE  NewSteps'
  <2>1. Armed' \subseteq Armed /\ Open' \subseteq Open
    BY <1>8 DEF Armed, Open
  <2> QED
    BY <1>8, <2>1, RowsKeepBlank, QuietFrame DEF NewSteps
<1>9. CASE \/ Deploy \/ DeleteFunction \/ BufferExpires \/ UNCHANGED vars
           \/ \E r \in Runs : Cancel(r)
           \/ \E r \in cancelling : CancelPrimary(r)
  BY <1>8, <1>9 DEF Deploy, DeleteFunction, BufferExpires, Cancel, CancelPrimary, vars
<1>10. ASSUME NEW e \in Events, Emit(e) PROVE NewSteps'
  <2>1. UNCHANGED <<due, firing, call, requests, journal, ran>>
    BY <1>10 DEF Emit
  <2>2. CASE \E w \in wakes : Awaits(w)
    <3> DEFINE Delivered(w) == IF Awaits(w) THEN [w EXCEPT !.status = "ready", !.value = e] ELSE w
    <3>1. wakes' = {Delivered(w) : w \in wakes}
      BY <1>10, <2>2 DEF Emit
    <3>2. \A w \in wakes : Delivered(w).id = w.id /\ Delivered(w).run = w.run
                           /\ Delivered(w).key = w.key /\ Delivered(w).kind = w.kind
      BY RowsTyped DEF WakeRow
    <3> HIDE DEF Delivered
    <3>3. \A w \in Armed' : \E x \in Armed : x.run = w.run /\ x.key = w.key /\ x.kind = w.kind
      BY <2>1, <3>1, <3>2 DEF Armed
    <3>4. Open' = Open
      BY <2>1 DEF Open
    <3> QED
      BY <2>1, <3>3, <3>4, RowsKeepBlank, QuietFrame DEF NewSteps
  <2>3. CASE ~ \E w \in wakes : Awaits(w)
    BY <1>8, <1>10, <2>1, <2>3 DEF Emit
  <2> QED
    BY <2>2, <2>3
<1>11. ~ Crash
  BY BoundsAssumption DEF Crash, Undisturbed, Typing, TypeOK
<1> QED
  BY <1>1, <1>2, <1>3, <1>4, <1>5, <1>6, <1>7, <1>9, <1>10, <1>11 DEF Next, TickerStep

LEMMA NewStepsInvariant ==
  ASSUME Undisturbed
  PROVE  Spec => [](Typing /\ Owned /\ NewSteps)
<1>1. Init => Typing /\ Owned /\ NewSteps
  BY InitTyping, InitOwned, InitNewSteps
<1>2. (Typing /\ Owned /\ NewSteps) /\ [Next]_vars => (Typing /\ Owned /\ NewSteps)'
  BY NextTyping, NextOwned, NextNewSteps
<1> QED
  BY <1>1, <1>2, PTL DEF Spec

(* What is journaled stays. *)
Kept == \A r \in Runs : \A k \in Journaled(r) : journal'[r][k] = journal[r][k]

LEMMA StepKeeps ==
  ASSUME Undisturbed, Typing, Owned, NewSteps, [Next]_vars
  PROVE  Kept
<1> USE DEF store, ticker, hist
<1>1. ASSUME NEW c \in Calls, CallStep(c), journal' # journal PROVE Kept
  <2>1. RecordRun(c)
    BY <1>1 DEF CallStep, LoadPinned, LoadLatest, PinVersion, FunctionMissing, ReadJournal,
                RunOp, Suspend, Return, Throw, Persist, PersistAsk, RegisterTimer,
                RegisterWaiter, RegisterRetry, EnqueueActions, ReturnError
  <2> QED
    BY <2>1, RecordedSteps DEF Journaled, Kept
<1>2. ASSUME NEW w \in due, Fire(w), journal' # journal PROVE Kept
  <2>1. w.kind # "retry" /\ w \in Armed /\ w.run \in Runs
    BY <1>2, RowsTyped DEF Fire, Armed, Owned, Distinct
  <2>2. w.key \in Keys /\ journal[w.run][w.key] = None
    BY <2>1 DEF NewSteps, BlankRows, Blank
  <2>3. PICK v : journal' = [journal EXCEPT ![w.run] = [journal[w.run] EXCEPT ![w.key] = v]]
    BY <1>2, <2>1 DEF Fire
  <2>4. journal \in [Runs -> Steps] /\ journal[w.run] \in Steps
    BY <2>1 DEF Typing, TypeOK
  <2> QED
    BY <2>1, <2>2, <2>3, <2>4 DEF Journaled, Steps, Kept
<1>3. ASSUME NEW c \in Workers, NEW q \in requests, NEW a \in Answers, Answer(c, q, a)
      PROVE  Kept
  <2>1. q \in Open /\ q.run \in Runs
    BY <1>3, RowsTyped DEF Answer, Undisturbed, Open
  <2>2. q.key \in Keys /\ journal[q.run][q.key] = None
    BY <2>1 DEF NewSteps, BlankRows, Blank
  <2>3. journal' = [journal EXCEPT ![q.run] = [journal[q.run] EXCEPT ![q.key] = a]]
    BY <1>3 DEF Answer
  <2>4. journal \in [Runs -> Steps] /\ journal[q.run] \in Steps
    BY <2>1 DEF Typing, TypeOK
  <2> QED
    BY <2>1, <2>2, <2>3, <2>4 DEF Journaled, Steps, Kept
<1>4. journal' = journal => Kept
  BY DEF Kept
<1>5. CASE \/ Deploy \/ DeleteFunction \/ Scan \/ DropFired \/ BufferExpires \/ Crash
           \/ UNCHANGED vars
           \/ \E c \in Workers, r \in Runs : Invoke(c, r)
           \/ \E w \in due : MountFails(w)
           \/ \E r \in Runs : Cancel(r)
           \/ \E r \in cancelling : CancelPrimary(r)
           \/ \E e \in Events : Emit(e)
  BY <1>4, <1>5 DEF Deploy, DeleteFunction, Scan, DropFired, BufferExpires, Crash, vars, Invoke,
                    MountFails, Cancel, CancelPrimary, Emit
<1> QED
  BY <1>1, <1>2, <1>3, <1>4, <1>5 DEF Next, TickerStep

(* A journaled step keeps its value, so a replay returns what the body already acted on:
   the ticker and a client journal a wake value or an answer only for a step that is not
   there, and record_function_steps, which overwrites, has nothing to overwrite. *)
THEOREM JournalKeepsValues ==
  ASSUME Undisturbed
  PROVE  Spec => StepValuesStable
<1>1. Typing /\ Owned /\ NewSteps /\ [Next]_vars => Kept
  BY StepKeeps
<1> QED
  BY <1>1, NewStepsInvariant, PTL DEF Spec, StepValuesStable, Kept

(* An op with an effect executes at most once per run, over every suspension, retry and
   replay: where an execution stands, the op is neither journaled nor known to it, and
   nobody else executes the run. *)
THEOREM OpsExecuteOnce ==
  ASSUME Undisturbed
  PROVE  Spec => EffectsOnce
<1> DEFINE Once == \A c \in Calls, k \in Keys :
       call[c].fresh[k] = None /\ call'[c].fresh[k] # None => <<call[c].run, k>> \notin ran
<1>1. ASSUME Typing, Owned, NewSteps, [Next]_vars PROVE Once
  <2> USE DEF store, ticker, hist
  <2>1. ASSUME \A c \in Calls : call'[c].fresh = call[c].fresh \/ call'[c].fresh = NoSteps
        PROVE  Once
    BY <2>1 DEF NoSteps
  <2>2. call \in [Calls -> CallState]
    BY <1>1 DEF Typing, TypeOK
  <2>3. ASSUME NEW c \in Calls, CallStep(c), ~ RunOp(c) PROVE Once
    <3>1. CASE \/ LoadPinned(c) \/ LoadLatest(c) \/ PinVersion(c) \/ ReadJournal(c)
               \/ Suspend(c) \/ Return(c) \/ Throw(c) \/ Persist(c)
      <4>1. call[c] \in CallState /\ \A d \in Calls : d # c => call'[d] = call[d]
        BY <2>2, <3>1 DEF LoadPinned, LoadLatest, PinVersion, ReadJournal, Suspend, Return, Throw,
                          Persist
      <4>2. call'[c].fresh = call[c].fresh
        <5>1. CASE LoadPinned(c)
          BY <2>2, <4>1, <5>1 DEF LoadPinned, CallState
        <5>2. CASE LoadLatest(c)
          BY <2>2, <4>1, <5>2 DEF LoadLatest, CallState
        <5>3. CASE PinVersion(c)
          BY <2>2, <4>1, <5>3 DEF PinVersion, CallState
        <5>4. CASE ReadJournal(c)
          BY <2>2, <4>1, <5>4 DEF ReadJournal, CallState
        <5>5. CASE Suspend(c)
          BY <2>2, <4>1, <5>5 DEF Suspend, CallState
        <5>6. CASE Return(c)
          BY <2>2, <4>1, <5>6 DEF Return, CallState
        <5>7. CASE Throw(c)
          BY <2>2, <4>1, <5>7 DEF Throw, CallState
        <5>8. CASE Persist(c)
          BY <2>2, <4>1, <5>8 DEF Persist, CallState
        <5> QED
          BY <3>1, <5>1, <5>2, <5>3, <5>4, <5>5, <5>6, <5>7, <5>8
      <4> QED
        BY <2>1, <4>1, <4>2
    <3>2. CASE Leave(c)
      BY <1>1, <2>1, <3>2, LeaveShape
    <3> QED
      BY <2>3, <3>1, <3>2 DEF CallStep, FunctionMissing, PersistAsk, RegisterTimer, RegisterWaiter,
                              RegisterRetry, EnqueueActions, ReturnError
  <2>4. ASSUME NEW c \in Calls, RunOp(c) PROVE Once
    <3>1. PICK k \in Keys, v \in Results :
            /\ ~ Known(c, k) /\ call[c].pc = "exec"
            /\ call' = [call EXCEPT ![c].fresh[k] = v]
      BY <2>4 DEF RunOp, AtStep
    <3>2. /\ \A d \in Calls : d # c => call'[d] = call[d]
          /\ \A l \in Keys : l # k => call'[c].fresh[l] = call[c].fresh[l]
      BY <2>2, <3>1 DEF CallState, Steps
    <3>3. call[c].run \in Runs /\ FreshOf(c)
      BY <1>1, <3>1 DEF Typing, CallsWellFormed, Busy, NewSteps
    <3>4. <<call[c].run, k>> \notin ran
      BY <1>1, <3>1, <3>3, RanOfOwner DEF FreshOf, Known, Stepping, HasRun
    <3> QED
      BY <3>2, <3>4
  <2>5. ASSUME NEW c \in Calls, NEW r, NEW a, Enter(c, r, a) PROVE Once
    BY <1>1, <2>1, <2>5, EnterShape
  <2>6. CASE DropFired \/ Crash
    BY <2>1, <2>2, <2>6 DEF DropFired, Crash, IdleCall
  <2>7. CASE UNCHANGED call
    BY <2>1, <2>7
  <2> HIDE DEF Once
  <2>8. CASE \E c \in Workers, r \in Runs : Invoke(c, r)
    BY <2>5, <2>8 DEF Invoke, Calls
  <2>9. CASE \E w \in due : Fire(w)
    BY <2>5, <2>9 DEF Fire, Calls
  <2>10. CASE \E c \in Workers, q \in requests, a \in Answers : Answer(c, q, a)
    BY <2>5, <2>10 DEF Answer, Calls
  <2>11. CASE \/ Deploy \/ DeleteFunction \/ Scan \/ BufferExpires \/ UNCHANGED vars
              \/ \E w \in due : MountFails(w)
              \/ \E r \in Runs : Cancel(r)
              \/ \E r \in cancelling : CancelPrimary(r)
              \/ \E e \in Events : Emit(e)
    BY <2>7, <2>11 DEF Deploy, DeleteFunction, Scan, BufferExpires, vars, MountFails, Cancel,
                       CancelPrimary, Emit
  <2> QED
    BY <1>1, <2>3, <2>4, <2>6, <2>8, <2>9, <2>10, <2>11 DEF Next, TickerStep
<1> QED
  BY <1>1, NewStepsInvariant, PTL DEF Spec, EffectsOnce

=============================================================================
