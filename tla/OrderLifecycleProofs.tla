------------------------- MODULE OrderLifecycleProofs -------------------------
(***************************************************************************)
(* Theorems about OrderLifecycle, for every set of orders, lines, dates,   *)
(* tiers and products, every capacity and every number of handlers that    *)
(* interleave.                                                             *)
(*                                                                         *)
(* The counters are safe because every increment carries its predicate.    *)
(* Collected money is safe for a longer reason: as long as an order is     *)
(* collected and not yet confirmed, the handler that collected it still    *)
(* has its confirmation to do, and no step it does before can make it stop.*)
(* Both hold with the handlers of one order overlapping or not.            *)
(*                                                                         *)
(* The second half is about the clean orders, those whose own handlers     *)
(* have not overlapped and of which none was killed: whatever the others   *)
(* do beside them, sales, tickets and blocks of a clean order go together, *)
(* and the counter of a date all of whose guests are clean is the sum of   *)
(* its reservations. An order that stops being clean leaves the invariant, *)
(* which is why it is stated for every set of clean orders.                *)
(***************************************************************************)
EXTENDS OrderLifecycle, Functions, FiniteSetTheorems, TLAPS

(* What a step that a handler of order o still has to do is about.          *)
GoodStep(o, s) ==
    /\ s.do \in {"stock", "restore"} => s.line \in StockLines(o)
    /\ s.do \in {"reserve", "tier", "occurrence", "undo", "block", "ticket"} =>
            s.line \in EventLines(o)
    /\ s.do = "tier" => items[o][s.line].tier # None
    /\ s.do \in {"give", "clamp"} =>
          /\ s.place \in Place /\ s.row \in Row
          /\ s.row.order = o /\ s.place \in {s.row.occurrence, s.row.tier}
    /\ s.do \in {"collect", "confirm", "status", "quota", "record_error"} =>
          s = Do(s.do, 0)

(* A handler is about an order, and one that is to collect is a webhook and *)
(* will confirm.                                                            *)
GoodTask(t) ==
    /\ t.todo # {} => t.op \in Operation /\ t.order \in Orders
    /\ \A s \in t.todo : GoodStep(t.order, s)
    /\ \A s \in t.todo : s.do \in {"collect", "confirm"} => t.op = "webhook"
    /\ Do("collect", 0) \in t.todo => Do("confirm", 0) \in t.todo

Tasks == \A w \in Worker : GoodTask(task[w])

(* Handler w still has the confirmation of order o to do, the write of its  *)
(* status, or the record that this failed.                                  *)
WillWrite(w, o) ==
    /\ task[w].op = "webhook" /\ task[w].order = o
    /\ \E do \in {"confirm", "status", "record_error"} : Do(do, 0) \in task[w].todo

Unsettled(o) ==
    /\ orders[o].payment_intent = "collected"
    /\ orders[o].status \in {"draft", "expired"}
    /\ ~ orders[o].confirm_error

(* Collected money of an order not yet confirmed, without a word of it, is  *)
(* some webhook's business.                                                 *)
Owed == \A o \in Orders \ killed : Unsettled(o) => \E w \in Worker : WillWrite(w, o)

IInv == TypeOK /\ Tasks /\ CountersWithinCapacity /\ Owed

-----------------------------------------------------------------------------
(* Lines and steps. *)

(* A line of an order is a line, numbered by a natural number.              *)
LEMMA LineTyped ==
    ASSUME NEW o \in Orders, NEW i \in Lines(o)
    PROVE  items[o][i] \in Line /\ i \in Nat
<1>1. items[o] \in Seq(Line)
  BY LifecycleAssumption
<1> QED
  BY <1>1 DEF Lines

(* What the steps on stock take from their line is well formed.             *)
LEMMA StockTyped ==
    ASSUME NEW o \in Orders, NEW i \in StockLines(o)
    PROVE  /\ items[o][i].product \in Product
           /\ items[o][i].quantity \in Nat
           /\ i \in Nat
<1>1. i \in Lines(o) /\ items[o][i].product # None
  BY DEF StockLines
<1> QED
  BY <1>1, LineTyped DEF Line

(* What the steps on seats take from their line is well formed.             *)
LEMMA EventTyped ==
    ASSUME NEW o \in Orders, NEW i \in EventLines(o)
    PROVE  /\ items[o][i].occurrence \in Occurrence
           /\ items[o][i].tier \in Tier \cup {None}
           /\ items[o][i].quantity \in Nat
           /\ i \in Nat /\ i \in Lines(o)
<1>1. i \in Lines(o) /\ items[o][i].occurrence # None
  BY DEF EventLines
<1> QED
  BY <1>1, LineTyped DEF Line

(* The kinds of step, listed.                                               *)
LEMMA StepKinds ==
    StepKind = {"collect", "confirm", "status", "stock", "restore", "quota",
                "sales", "storno", "clamp", "reserve", "tier", "occurrence",
                "give", "undo", "block", "unblock", "find_tickets", "void",
                "ticket", "release_tiers", "release", "delete_rows", "record_error"}
BY DEF StepKind, Stage

(* A step named by its kind and its line is a step.                         *)
LEMMA DoTyped ==
    ASSUME NEW do \in StepKind, NEW i \in Nat
    PROVE  /\ Do(do, i) \in Step
           /\ Do(do, i).do = do /\ Do(do, i).line = i
BY DEF Do, Step

(* A step that gives seats back is a good step of any order.                *)
LEMMA GiveTyped ==
    ASSUME NEW r \in Row, NEW x \in Place \cap {r.occurrence, r.tier}, NEW i \in Nat,
           NEW o, r.order = o
    PROVE  Give(x, r, i) \in Step /\ GoodStep(o, Give(x, r, i))
           /\ Give(x, r, i).do = "give"
BY StepKinds DEF Give, Step, GoodStep

(* Collecting comes before confirming.                                      *)
LEMMA StepOrder == ~ NotAfter(Do("confirm", 0), Do("collect", 0))
BY DEF NotAfter, Do, Stage

-----------------------------------------------------------------------------
(* Handlers. *)

(* The step a handler is at, and the handler.                               *)
LEMMA CurrentGood ==
    ASSUME TypeOK, Tasks, NEW w \in Worker, NEW do, NEW s, Current(w, s, do)
    PROVE  /\ task[w] \in Task
           /\ task[w].order \in Orders /\ task[w].op \in Operation
           /\ s \in task[w].todo /\ s \in Step /\ s.do = do
           /\ GoodStep(task[w].order, s)
           /\ \A t \in task[w].todo : NotAfter(s, t)
<1>1. s \in task[w].todo /\ s.do = do /\ \A t \in task[w].todo : NotAfter(s, t)
  BY DEF Current
<1>2. task[w] \in Task
  BY DEF TypeOK
<1>3. GoodTask(task[w])
  BY DEF Tasks
<1> QED
  BY <1>1, <1>2, <1>3 DEF GoodTask, Task

(* Going on with good steps leaves the handlers good.  The only step that   *)
(* could leave a collection without its confirmation is the confirmation,   *)
(* which comes after it.                                                    *)
LEMMA ThenGood ==
    ASSUME TypeOK, Tasks, NEW w \in Worker, NEW do, NEW s, Current(w, s, do),
           NEW more \in SUBSET Step,
           \A m \in more : GoodStep(task[w].order, m) /\ m.do \notin {"collect", "confirm"},
           Then(w, s, more)
    PROVE  task' \in [Worker -> Task] /\ Tasks'
<1> DEFINE todo == (task[w].todo \ {s}) \cup more
<1> DEFINE next == IF todo = {} THEN Idle ELSE [task[w] EXCEPT !.todo = todo]
<1>1. task' = [task EXCEPT ![w] = next] /\ task \in [Worker -> Task]
  BY DEF Then, TypeOK
<1>2. /\ task[w] \in Task /\ task[w].order \in Orders /\ task[w].op \in Operation
      /\ s \in task[w].todo /\ GoodTask(task[w])
  BY CurrentGood DEF Tasks
<1>3. todo \in SUBSET Step
  BY <1>2 DEF Task
<1>4. next \in Task
  BY <1>2, <1>3 DEF Task, Idle
<1>5. next.todo = todo /\ (todo # {} => next.order = task[w].order /\ next.op = task[w].op)
  BY <1>2 DEF Idle, Task
<1>6. Do("collect", 0) \in todo => Do("confirm", 0) \in todo
  <2> SUFFICES ASSUME Do("collect", 0) \in todo PROVE Do("confirm", 0) \in todo
    OBVIOUS
  <2>1. Do("collect", 0) \notin more
    BY DEF Do
  <2>2. Do("collect", 0) \in task[w].todo /\ Do("confirm", 0) \in task[w].todo
    BY <1>2, <2>1 DEF GoodTask
  <2>3. s # Do("confirm", 0)
    BY <2>2, CurrentGood, StepOrder
  <2> QED
    BY <2>2, <2>3
<1>7. GoodTask(next)
  BY <1>2, <1>5, <1>6 DEF GoodTask
<1> HIDE DEF next
<1> QED
  BY <1>1, <1>4, <1>7 DEF Tasks

(* So does ending a handler.                                                *)
LEMMA StopGood ==
    ASSUME TypeOK, Tasks, NEW w \in Worker, Stop(w)
    PROVE  task' \in [Worker -> Task] /\ Tasks'
<1>1. Idle \in Task /\ GoodTask(Idle)
  BY DEF Idle, Task, GoodTask
<1> QED
  BY <1>1 DEF Stop, TypeOK, Tasks

(* So does an exception, and what is owed of any order stays so: a webhook  *)
(* has yet to record it.                                                    *)
LEMMA RaiseGood ==
    ASSUME TypeOK, Tasks, NEW w \in Worker, InFlight(w), Raise(w)
    PROVE  /\ task' \in [Worker -> Task] /\ Tasks'
           /\ \A v \in Worker, x \in Orders : WillWrite(v, x) => WillWrite(v, x)'
<1>1. task[w] \in Task /\ task[w].order \in Orders /\ task[w].op \in Operation
  BY DEF TypeOK, Tasks, GoodTask, InFlight
<1>2. CASE task[w].op = "webhook"
  <2> PICK o \in Orders : o = task[w].order
    BY <1>1
  <2> DEFINE next == [task[w] EXCEPT !.todo = {Do("record_error", 0)}]
  <2>1. Do("record_error", 0) \in Step /\ GoodStep(task[w].order, Do("record_error", 0))
        /\ Do("record_error", 0).do = "record_error"
    BY StepKinds, DoTyped DEF GoodStep
  <2>2. /\ next \in Task /\ next.todo = {Do("record_error", 0)}
        /\ next.op = "webhook" /\ next.order = o
    BY <1>1, <1>2, <2>1 DEF Task
  <2>3. GoodTask(next)
    BY <1>1, <2>1, <2>2 DEF GoodTask, Do
  <2>4. task' = [task EXCEPT ![w] = next]
    BY <1>2 DEF Raise
  <2> HIDE DEF next
  <2>5. task'[w] = next /\ \A v \in Worker : v # w => task'[v] = task[v]
    BY <2>4 DEF TypeOK
  <2>6. task' \in [Worker -> Task] /\ Tasks'
    BY <2>2, <2>3, <2>4, <2>5 DEF TypeOK, Tasks
  <2>7. WillWrite(w, o)'
    BY <2>2, <2>5 DEF WillWrite
  <2>8. \A v \in Worker, x \in Orders : WillWrite(v, x) => WillWrite(v, x)'
    <3>1. \A x \in Orders : WillWrite(w, x) => x = o
      BY DEF WillWrite
    <3>2. ASSUME NEW v \in Worker, NEW x \in Orders, v # w, WillWrite(v, x)
          PROVE  WillWrite(v, x)'
      <4>1. task'[v] = task[v]
        BY <2>5, <3>2
      <4> QED
        BY <3>2, <4>1 DEF WillWrite
    <3> QED
      BY <2>7, <3>1, <3>2
  <2> QED
    BY <2>6, <2>8
<1>3. CASE task[w].op # "webhook"
  <2>1. Stop(w)
    BY <1>3 DEF Raise
  <2>2. task' \in [Worker -> Task] /\ Tasks'
    BY <2>1, StopGood
  <2>3. \A v \in Worker : v # w => task'[v] = task[v]
    BY <2>1 DEF Stop, TypeOK
  <2> QED
    BY <1>3, <2>2, <2>3 DEF WillWrite
<1> QED
  BY <1>2, <1>3

(* A handler that starts on an idle worker with good steps of its order     *)
(* keeps the invariant.                                                     *)
LEMMA StartGood ==
    ASSUME IInv, NEW w \in Worker, NEW op, NEW o \in Orders,
           NEW todo \in SUBSET Step, \A s \in todo : GoodStep(o, s),
           Do("collect", 0) \in todo => Do("confirm", 0) \in todo,
           \A s \in todo : s.do \in {"collect", "confirm"} => op = "webhook",
           Start(w, op, o, todo)
    PROVE  IInv'
<1> DEFINE new == [op |-> op, order |-> o, id |-> starts + 1, todo |-> todo]
<1>1. /\ task' = [task EXCEPT ![w] = new] /\ task[w].todo = {}
      /\ op \in Operation /\ starts < MaxStarts /\ starts' = starts + 1
      /\ overlapped' \subseteq overlapped \cup {o}
      /\ UNCHANGED <<orders, goods, seats, papers, world>>
  BY LifecycleAssumption DEF Start, InFlight
<1>2. new \in Task /\ GoodTask(new)
  BY <1>1 DEF Task, GoodTask, IInv, TypeOK
<1> HIDE DEF new
<1>3. task' \in [Worker -> Task] /\ Tasks'
  BY <1>1, <1>2 DEF IInv, TypeOK, Tasks
<1>4. TypeOK'
  BY <1>1, <1>3, LifecycleAssumption
  DEF IInv, TypeOK, goods, seats, papers, world
<1>5. CountersWithinCapacity'
  BY <1>1 DEF IInv, CountersWithinCapacity, seats
<1>6. Owed'
  <2>1. \A v \in Worker, x \in Orders : WillWrite(v, x) => WillWrite(v, x)'
    BY <1>1 DEF WillWrite, IInv, TypeOK
  <2> QED
    BY <1>1, <2>1 DEF IInv, Owed, Unsettled, world
<1> QED
  BY <1>3, <1>4, <1>5, <1>6 DEF IInv

(* A handler that goes on, other than with its confirmation or the write of *)
(* the status, still owes what it owed.                                     *)
LEMMA ThenOwed ==
    ASSUME IInv, NEW w \in Worker, NEW do, NEW s, Current(w, s, do),
           do \notin {"confirm", "status", "record_error"},
           NEW more, Then(w, s, more), orders' = orders, killed' = killed
    PROVE  Owed'
<1>1. task[w] \in Task /\ s.do = do
  BY CurrentGood DEF IInv
<1>2. \A d \in {"confirm", "status", "record_error"} : s # Do(d, 0)
  BY <1>1 DEF Do
<1>3. ASSUME NEW v \in Worker, NEW x \in Orders, WillWrite(v, x)
      PROVE  WillWrite(v, x)'
  <2> DEFINE todo == (task[w].todo \ {s}) \cup more
  <2>1. task' = [task EXCEPT ![w] = IF todo = {} THEN Idle
                                    ELSE [task[w] EXCEPT !.todo = todo]]
    BY DEF Then
  <2>2. CASE v = w
    <3>1. \E d \in {"confirm", "status", "record_error"} : Do(d, 0) \in todo
      BY <1>2, <1>3, <2>2 DEF WillWrite
    <3>2. task'[w] = [task[w] EXCEPT !.todo = todo]
      BY <2>1, <3>1 DEF IInv, TypeOK
    <3>3. /\ task'[w].todo = todo /\ task'[w].order = task[w].order
          /\ task'[w].op = task[w].op
      BY <1>1, <3>2 DEF Task
    <3> QED
      BY <1>3, <2>2, <3>1, <3>3 DEF WillWrite
  <2>3. CASE v # w
    BY <1>3, <2>1, <2>3 DEF WillWrite, IInv, TypeOK
  <2> QED
    BY <2>2, <2>3
<1> QED
  BY <1>3 DEF IInv, Owed, Unsettled

-----------------------------------------------------------------------------
(* How handlers start. *)

(* The steps of a confirmation are good steps.                              *)
LEMMA ConfirmingGood ==
    ASSUME NEW o \in Orders
    PROVE  /\ Confirming(o) \in SUBSET Step
           /\ \A s \in Confirming(o) : GoodStep(o, s) /\ s.do \notin {"collect", "confirm"}
<1>1. ASSUME NEW i \in StockLines(o)
      PROVE  Do("stock", i) \in Step /\ GoodStep(o, Do("stock", i))
  BY StockTyped, StepKinds, DoTyped DEF GoodStep
<1>2. ASSUME NEW i \in EventLines(o)
      PROVE  Do("reserve", i) \in Step /\ GoodStep(o, Do("reserve", i))
  BY EventTyped, StepKinds, DoTyped DEF GoodStep
<1>3. ASSUME NEW i \in FirstOfDate(o)
      PROVE  Do("block", i) \in Step /\ GoodStep(o, Do("block", i))
  <2>1. i \in EventLines(o)
    BY DEF FirstOfDate
  <2> QED
    BY <2>1, EventTyped, StepKinds, DoTyped DEF GoodStep
<1>4. ASSUME NEW do \in {"status", "quota", "sales", "find_tickets"}
      PROVE  Do(do, 0) \in Step /\ GoodStep(o, Do(do, 0))
  BY StepKinds, DoTyped DEF GoodStep
<1>5. \A s \in Confirming(o) : s.do \notin {"collect", "confirm"}
  BY DEF Confirming, Do
<1> QED
  BY <1>1, <1>2, <1>3, <1>4, <1>5 DEF Confirming

(* The steps of a cancellation are good steps.                              *)
LEMMA CancellingGood ==
    ASSUME NEW o \in Orders
    PROVE  /\ Cancelling(o) \in SUBSET Step
           /\ \A s \in Cancelling(o) : GoodStep(o, s) /\ s.do \notin {"collect", "confirm"}
<1>1. ASSUME NEW i \in StockLines(o)
      PROVE  Do("restore", i) \in Step /\ GoodStep(o, Do("restore", i))
  BY StockTyped, StepKinds, DoTyped DEF GoodStep
<1>2. ASSUME NEW do \in {"status", "unblock", "void", "release_tiers", "release",
                         "quota", "storno"}
      PROVE  Do(do, 0) \in Step /\ GoodStep(o, Do(do, 0))
  BY StepKinds, DoTyped DEF GoodStep
<1>3. \A s \in Cancelling(o) : s.do \notin {"collect", "confirm"}
  BY DEF Cancelling, Do
<1> QED
  BY <1>1, <1>2, <1>3 DEF Cancelling

(* Every request starts a handler with good steps.                          *)
LEMMA RequestGood ==
    ASSUME IInv, NEW w \in Worker, NEW o \in Orders, Request(w, o)
    PROVE  IInv'
<1>1. CASE Confirm(w, o)
  <2>1. Do("collect", 0) \notin Confirming(o)
    BY ConfirmingGood DEF Do
  <2> QED
    BY <1>1, <2>1, ConfirmingGood, StartGood DEF Confirm
<1>2. CASE Cancel(w, o)
  <2>1. Do("collect", 0) \notin Cancelling(o)
    BY CancellingGood DEF Do
  <2> QED
    BY <1>2, <2>1, CancellingGood, StartGood DEF Cancel
<1>3. CASE Complete(w, o)
  <2>1. /\ {Do("status", 0)} \in SUBSET Step
        /\ GoodStep(o, Do("status", 0)) /\ Do("status", 0).do = "status"
        /\ Do("collect", 0) \notin {Do("status", 0)}
    BY StepKinds, DoTyped DEF GoodStep
  <2> QED
    BY <1>3, <2>1, StartGood DEF Complete
<1>4. CASE Webhook(w, o)
  <2>1. /\ {Do("collect", 0), Do("confirm", 0)} \in SUBSET Step
        /\ GoodStep(o, Do("collect", 0)) /\ GoodStep(o, Do("confirm", 0))
    BY StepKinds, DoTyped DEF GoodStep
  <2> QED
    BY <1>4, <2>1, StartGood DEF Webhook
<1> QED
  BY <1>1, <1>2, <1>3, <1>4 DEF Request

-----------------------------------------------------------------------------
(* The steps on the order, its stock and its sales records. *)

(* A step that leaves the orders and the counters of seats alone keeps the  *)
(* invariant if it keeps the types.                                         *)
LEMMA QuietStep ==
    ASSUME IInv, NEW w \in Worker, NEW do, NEW s, Current(w, s, do),
           do \notin {"confirm", "status", "record_error"},
           NEW more \in SUBSET Step,
           \A m \in more : GoodStep(task[w].order, m) /\ m.do \notin {"collect", "confirm"},
           Then(w, s, more), TypeOK', UNCHANGED <<orders, reserved_seats, world>>
    PROVE  IInv'
<1>1. Tasks'
  BY ThenGood DEF IInv
<1>2. CountersWithinCapacity'
  BY DEF IInv, CountersWithinCapacity
<1>3. Owed'
  BY ThenOwed DEF world
<1> QED
  BY <1>1, <1>2, <1>3 DEF IInv

(* What is owed of the other orders stays owed, and so does the order of    *)
(* the handler if the handler goes on to write its status.                  *)
LEMMA OwedMoves ==
    ASSUME IInv, NEW w \in Worker, NEW o \in Orders, killed' = killed,
           \A x \in Orders : x # o => orders'[x] = orders[x],
           \A v \in Worker, x \in Orders :
                x # o /\ WillWrite(v, x) => WillWrite(v, x)',
           Unsettled(o)' => WillWrite(w, o)'
    PROVE  Owed'
<1> SUFFICES ASSUME NEW x \in Orders \ killed, Unsettled(x)'
             PROVE  \E v \in Worker : WillWrite(v, x)'
  BY DEF Owed
<1>1. CASE x = o
  BY <1>1
<1>2. CASE x # o
  <2>1. \E v \in Worker : WillWrite(v, x)
    BY <1>2 DEF IInv, Owed, Unsettled
  <2> QED
    BY <1>2, <2>1
<1> QED
  BY <1>1, <1>2

(* Marking an order collected leaves its confirmation owed: it is the next  *)
(* step of the same handler.                                                *)
LEMMA CollectGood ==
    ASSUME IInv, NEW w \in Worker, NEW s, Collect(w, s)
    PROVE  IInv'
<1>1. /\ Current(w, s, "collect") /\ Then(w, s, {})
      /\ orders' = [orders EXCEPT ![task[w].order].payment_intent = "collected"]
      /\ UNCHANGED <<goods, seats, papers, world, starts, overlapped>>
  BY DEF Collect
<1>0. PICK o \in Orders : o = task[w].order
  BY <1>1, CurrentGood DEF IInv
<1>2. task' \in [Worker -> Task] /\ Tasks'
  BY <1>1, ThenGood DEF IInv
<1>3. /\ task[w] \in Task /\ task[w].order \in Orders /\ s = Do("collect", 0)
      /\ s \in task[w].todo
  BY <1>1, CurrentGood DEF IInv, GoodStep
<1>4. TypeOK'
  BY <1>1, <1>2, <1>3 DEF IInv, TypeOK, goods, seats, papers, world
<1>5. CountersWithinCapacity'
  BY <1>1 DEF IInv, CountersWithinCapacity, seats
<1>6. WillWrite(w, o)'
  <2>1. Do("confirm", 0) \in task[w].todo \ {s} /\ task[w].op = "webhook"
    BY <1>3 DEF IInv, Tasks, GoodTask, Do
  <2>2. task' = [task EXCEPT ![w] = [task[w] EXCEPT !.todo = task[w].todo \ {s}]]
    BY <1>1, <2>1 DEF Then
  <2>3. task'[w].todo = task[w].todo \ {s} /\ task'[w].order = o /\ task'[w].op = "webhook"
    BY <1>0, <1>3, <2>1, <2>2 DEF IInv, TypeOK, Task
  <2> QED
    BY <2>1, <2>3 DEF WillWrite
<1>7. \A v \in Worker, x \in Orders : x # o /\ WillWrite(v, x) => WillWrite(v, x)'
  BY <1>0, <1>1 DEF WillWrite, Then, IInv, TypeOK
<1>8. Owed'
  <2>1. \A x \in Orders : x # o => orders'[x] = orders[x]
    BY <1>0, <1>1 DEF IInv, TypeOK
  <2> QED
    BY <1>1, <1>6, <1>7, <2>1, OwedMoves DEF world
<1> QED
  BY <1>2, <1>4, <1>5, <1>8 DEF IInv

(* A step that raises keeps the invariant if it moves nothing else, and if  *)
(* the order of a webhook is all that it could leave unsettled.             *)
LEMMA RaisedGood ==
    ASSUME IInv, NEW w \in Worker, InFlight(w), Raise(w),
           UNCHANGED <<orders, goods, seats, papers, world, starts, overlapped>>
    PROVE  IInv'
<1>1. /\ task' \in [Worker -> Task] /\ Tasks'
      /\ \A v \in Worker, x \in Orders : WillWrite(v, x) => WillWrite(v, x)'
  BY RaiseGood DEF IInv
<1>2. TypeOK'
  BY <1>1 DEF IInv, TypeOK, goods, seats, papers, world
<1>3. CountersWithinCapacity'
  BY DEF IInv, CountersWithinCapacity, seats
<1>4. Owed'
  BY <1>1 DEF IInv, Owed, Unsettled, world
<1> QED
  BY <1>1, <1>2, <1>3, <1>4 DEF IInv

(* Accepting an order to confirm replaces the confirmation by the write of  *)
(* the status; an order that is refused is recorded, or in no need of it.   *)
LEMMA ReadToConfirmGood ==
    ASSUME IInv, NEW w \in Worker, NEW s, ReadToConfirm(w, s)
    PROVE  IInv'
<1>0. PICK o \in Orders : o = task[w].order
  BY CurrentGood DEF IInv, ReadToConfirm
<1> DEFINE more == IF can_confirm_order(o, TRUE) THEN Confirming(o) ELSE {}
<1>1. /\ Current(w, s, "confirm")
      /\ UNCHANGED <<orders, goods, seats, papers, world, starts, overlapped>>
      /\ orders[o].status = "cancelled" => Raise(w)
      /\ orders[o].status # "cancelled" => Then(w, s, more)
  BY <1>0 DEF ReadToConfirm
<1>2. /\ task[w] \in Task /\ s.do = "confirm" /\ s \in task[w].todo
      /\ task[w].op = "webhook"
  BY <1>1, CurrentGood DEF IInv, Tasks, GoodTask
<1>3. CASE orders[o].status = "cancelled"
  BY <1>1, <1>2, <1>3, RaisedGood DEF InFlight
<1>4. CASE orders[o].status # "cancelled"
  <2>1. /\ more \in SUBSET Step
        /\ \A m \in more : GoodStep(o, m) /\ m.do \notin {"collect", "confirm"}
    BY ConfirmingGood
  <2>2. Then(w, s, more)
    BY <1>1, <1>4
  <2>3. task' \in [Worker -> Task] /\ Tasks'
    BY <1>0, <1>1, <2>1, <2>2, ThenGood DEF IInv
  <2>4. TypeOK'
    BY <1>1, <2>3 DEF IInv, TypeOK, goods, seats, papers, world
  <2>5. CountersWithinCapacity'
    BY <1>1 DEF IInv, CountersWithinCapacity, seats
  <2>6. orders[o].status \in {"draft", "expired"} => WillWrite(w, o)'
    <3> SUFFICES ASSUME orders[o].status \in {"draft", "expired"}
                 PROVE  WillWrite(w, o)'
      OBVIOUS
    <3>1. Do("status", 0) \in more
      BY DEF can_confirm_order, Confirming
    <3>2. Then(w, s, more) /\ more # {}
      BY <2>2, <3>1
    <3> HIDE DEF more
    <3>3. task' = [task EXCEPT ![w] = [task[w] EXCEPT !.todo =
                                          (task[w].todo \ {s}) \cup more]]
      BY <3>2 DEF Then
    <3>4. /\ task'[w].todo = (task[w].todo \ {s}) \cup more
          /\ task'[w].order = o /\ task'[w].op = "webhook"
      BY <1>0, <1>2, <3>3 DEF IInv, TypeOK, Task
    <3> QED
      BY <3>1, <3>4 DEF WillWrite
  <2>7. \A v \in Worker, x \in Orders : x # o /\ WillWrite(v, x) => WillWrite(v, x)'
    BY <1>0, <2>2 DEF WillWrite, Then, IInv, TypeOK
  <2>8. Owed'
    <3>1. Unsettled(o)' => WillWrite(w, o)'
      BY <1>1, <2>6 DEF Unsettled
    <3> QED
      BY <1>1, <2>7, <3>1, OwedMoves DEF world
  <2> QED
    BY <2>3, <2>4, <2>5, <2>8 DEF IInv
<1> QED
  BY <1>3, <1>4

(* The status a handler writes is neither draft nor expired; a webhook that *)
(* finds no number has yet to record it.                                    *)
LEMMA WriteStatusGood ==
    ASSUME IInv, NEW w \in Worker, NEW s, WriteStatus(w, s)
    PROVE  IInv'
<1>0. PICK o \in Orders : o = task[w].order
  BY CurrentGood DEF IInv, WriteStatus
<1>1. /\ Current(w, s, "status")
      /\ \/ /\ orders' = [orders EXCEPT ![o].status = Target[task[w].op]]
            /\ Then(w, s, {})
         \/ UNCHANGED orders /\ Raise(w)
      /\ UNCHANGED <<goods, seats, papers, world, starts, overlapped>>
  BY <1>0 DEF WriteStatus
<1>2. task[w] \in Task /\ task[w].op \in Operation /\ s \in task[w].todo
  BY <1>1, CurrentGood DEF IInv
<1>3. CASE UNCHANGED orders /\ Raise(w)
  BY <1>1, <1>2, <1>3, RaisedGood DEF InFlight
<1>4. ASSUME orders' = [orders EXCEPT ![o].status = Target[task[w].op]], Then(w, s, {})
      PROVE  IInv'
  <2>1. Target[task[w].op] \in OrderStatus \ {"draft", "expired"}
    BY <1>2 DEF Target, Operation, OrderStatus
  <2>2. task' \in [Worker -> Task] /\ Tasks'
    BY <1>1, <1>4, ThenGood DEF IInv
  <2>3. TypeOK'
    BY <1>1, <1>2, <1>4, <2>1, <2>2 DEF IInv, TypeOK, goods, seats, papers, world
  <2>4. CountersWithinCapacity'
    BY <1>1 DEF IInv, CountersWithinCapacity, seats
  <2>5. \A v \in Worker, x \in Orders : x # o /\ WillWrite(v, x) => WillWrite(v, x)'
    BY <1>0, <1>4 DEF WillWrite, Then, IInv, TypeOK
  <2>6. ~ Unsettled(o)'
    BY <1>2, <1>4, <2>1 DEF Unsettled, IInv, TypeOK
  <2>7. \A x \in Orders : x # o => orders'[x] = orders[x]
    BY <1>4 DEF IInv, TypeOK
  <2>8. Owed'
    BY <1>1, <2>5, <2>6, <2>7, OwedMoves DEF world
  <2> QED
    BY <2>2, <2>3, <2>4, <2>8 DEF IInv
<1> QED
  BY <1>1, <1>3, <1>4

(* The record of the failure settles the order.                             *)
LEMMA RecordErrorGood ==
    ASSUME IInv, NEW w \in Worker, NEW s, RecordError(w, s)
    PROVE  IInv'
<1>0. PICK o \in Orders : o = task[w].order
  BY CurrentGood DEF IInv, RecordError
<1>1. /\ Current(w, s, "record_error") /\ Then(w, s, {})
      /\ orders' = [orders EXCEPT ![o].confirm_error = TRUE]
      /\ UNCHANGED <<goods, seats, papers, world, starts, overlapped>>
  BY <1>0 DEF RecordError
<1>2. task' \in [Worker -> Task] /\ Tasks'
  BY <1>1, ThenGood DEF IInv
<1>3. TypeOK'
  BY <1>1, <1>2 DEF IInv, TypeOK, goods, seats, papers, world
<1>4. CountersWithinCapacity'
  BY <1>1 DEF IInv, CountersWithinCapacity, seats
<1>5. \A v \in Worker, x \in Orders : x # o /\ WillWrite(v, x) => WillWrite(v, x)'
  BY <1>0, <1>1 DEF WillWrite, Then, IInv, TypeOK
<1>6. ~ Unsettled(o)' /\ \A x \in Orders : x # o => orders'[x] = orders[x]
  BY <1>1 DEF Unsettled, IInv, TypeOK
<1>7. Owed'
  BY <1>1, <1>5, <1>6, OwedMoves DEF world
<1> QED
  BY <1>2, <1>3, <1>4, <1>7 DEF IInv

(* Stock never falls below zero, because the decrement carries its test.    *)
LEMMA DecrementGood ==
    ASSUME IInv, NEW w \in Worker, NEW s, try_decrement_stock(w, s)
    PROVE  IInv'
<1> DEFINE item == items[task[w].order][s.line]
<1>1. /\ Current(w, s, "stock") /\ Then(w, s, {})
      /\ stock' = IF stock[item.product] >= item.quantity
                    THEN [stock EXCEPT ![item.product] = @ - item.quantity]
                    ELSE stock
      /\ UNCHANGED <<orders, sales, rows_used, seats, papers, world, starts, overlapped>>
  BY DEF try_decrement_stock
<1>2. item.product \in Product /\ item.quantity \in Nat
  BY <1>1, CurrentGood, StockTyped DEF IInv, GoodStep
<1> HIDE DEF item
<1>3. stock' \in [Product -> Nat]
  BY <1>1, <1>2 DEF IInv, TypeOK
<1>4. task' \in [Worker -> Task]
  BY <1>1, ThenGood DEF IInv
<1>5. TypeOK'
  BY <1>1, <1>3, <1>4 DEF IInv, TypeOK, seats, papers, world
<1> QED
  BY <1>1, <1>5, QuietStep DEF seats

(* Restoring stock only adds to it.                                         *)
LEMMA RestoreGood ==
    ASSUME IInv, NEW w \in Worker, NEW s, restore_stock(w, s)
    PROVE  IInv'
<1> DEFINE item == items[task[w].order][s.line]
<1>1. /\ Current(w, s, "restore") /\ Then(w, s, {})
      /\ stock' = [stock EXCEPT ![item.product] = @ + item.quantity]
      /\ UNCHANGED <<orders, sales, rows_used, seats, papers, world, starts, overlapped>>
  BY DEF restore_stock
<1>2. item.product \in Product /\ item.quantity \in Nat
  BY <1>1, CurrentGood, StockTyped DEF IInv, GoodStep
<1> HIDE DEF item
<1>3. stock' \in [Product -> Nat]
  BY <1>1, <1>2 DEF IInv, TypeOK
<1>4. task' \in [Worker -> Task]
  BY <1>1, ThenGood DEF IInv
<1>5. TypeOK'
  BY <1>1, <1>3, <1>4 DEF IInv, TypeOK, seats, papers, world
<1> QED
  BY <1>1, <1>5, QuietStep DEF seats

(* The plan's limit may end a handler, which changes nothing else.          *)
LEMMA CheckQuotaGood ==
    ASSUME IInv, NEW w \in Worker, NEW s, CheckQuota(w, s)
    PROVE  IInv'
<1>1. /\ Current(w, s, "quota")
      /\ UNCHANGED <<orders, goods, seats, papers, world, starts, overlapped>>
  BY DEF CheckQuota
<1>2. CASE Then(w, s, {})
  <2>1. task' \in [Worker -> Task]
    BY <1>1, <1>2, ThenGood DEF IInv
  <2>2. TypeOK'
    BY <1>1, <2>1 DEF IInv, TypeOK, goods, seats, papers, world
  <2> QED
    BY <1>1, <1>2, <2>2, QuietStep DEF seats
<1>3. CASE Raise(w)
  <2>1. s \in task[w].todo
    BY <1>1 DEF Current
  <2> QED
    BY <1>1, <1>3, <2>1, RaisedGood DEF InFlight
<1> QED
  BY <1>2, <1>3 DEF CheckQuota

(* Counting sales records leaves the counts natural numbers.                *)
LEMMA WriteSalesGood ==
    ASSUME IInv, NEW w \in Worker, NEW s, WriteSales(w, s)
    PROVE  IInv'
<1>1. PICK do \in {"sales", "storno"} :
        /\ Current(w, s, do) /\ Then(w, s, {})
        /\ \/ sales' = [sales EXCEPT ![task[w].order].forward = @ + 1]
           \/ sales' = [sales EXCEPT ![task[w].order].storno = @ + 1]
        /\ rows_used' = rows_used + Len(items[task[w].order])
        /\ UNCHANGED <<orders, stock, seats, papers, world, starts, overlapped>>
  BY DEF WriteSales
<1>2. task[w].order \in Orders
  BY <1>1, CurrentGood DEF IInv
<1>3. Len(items[task[w].order]) \in Nat
  BY <1>2, LifecycleAssumption
<1>4. sales' \in [Orders -> [forward: Nat, storno: Nat]]
  <2> PICK o \in Orders : o = task[w].order
    BY <1>2
  <2>1. sales \in [Orders -> [forward: Nat, storno: Nat]]
    BY DEF IInv, TypeOK
  <2>2. CASE sales' = [sales EXCEPT ![o].forward = @ + 1]
    BY <2>1, <2>2
  <2>3. CASE sales' = [sales EXCEPT ![o].storno = @ + 1]
    BY <2>1, <2>3
  <2> QED
    BY <1>1, <2>2, <2>3
<1>5. task' \in [Worker -> Task]
  BY <1>1, ThenGood DEF IInv
<1>6. TypeOK'
  BY <1>1, <1>3, <1>4, <1>5, SMTT(30) DEF IInv, TypeOK, seats, papers, world
<1> QED
  BY <1>1, <1>6, QuietStep DEF seats

(* So every step on the order, its stock and its sales keeps the invariant. *)
LEMMA OrderStepGood ==
    ASSUME IInv, NEW w \in Worker, NEW s, OrderStep(w, s)
    PROVE  IInv'
BY CollectGood, ReadToConfirmGood, WriteStatusGood, RecordErrorGood, DecrementGood,
   RestoreGood, CheckQuotaGood, WriteSalesGood DEF OrderStep

-----------------------------------------------------------------------------
(* The steps on seats. *)

(* A row for a line of events is well formed.                               *)
LEMMA NewRowTyped ==
    ASSUME TypeOK, Tasks, NEW w \in Worker, NEW do, NEW s, Current(w, s, do),
           do \in {"reserve", "tier", "occurrence", "undo"}
    PROVE  /\ NewRow(w, s.line) \in Row
           /\ NewRow(w, s.line).occurrence \in Occurrence
           /\ NewRow(w, s.line).tier = items[task[w].order][s.line].tier
           /\ s.line \in EventLines(task[w].order) /\ s.line \in Nat
<1>1. /\ task[w] \in Task /\ task[w].order \in Orders
      /\ s.line \in EventLines(task[w].order)
  BY CurrentGood DEF GoodStep
<1>2. task[w].id \in Nat
  BY <1>1 DEF Task
<1>3. /\ items[task[w].order][s.line].occurrence \in Occurrence
      /\ items[task[w].order][s.line].tier \in Tier \cup {None}
      /\ items[task[w].order][s.line].quantity \in Nat
      /\ s.line \in Nat /\ s.line \in Lines(task[w].order)
  BY <1>1, EventTyped
<1>4. LET item == items[task[w].order][s.line]
      IN  \A x \in {item.occurrence, item.tier} : task[w].order \in Guests(x)
  BY <1>1, <1>3 DEF Guests
<1> QED
  BY <1>1, <1>2, <1>3, <1>4 DEF NewRow, Row

(* A step that moves counters, within the capacity of their places, keeps   *)
(* the invariant.                                                           *)
LEMMA CounterStep ==
    ASSUME IInv, NEW w \in Worker, NEW do, NEW s, Current(w, s, do),
           do \notin {"confirm", "status", "record_error"},
           NEW more \in SUBSET Step,
           \A m \in more : GoodStep(task[w].order, m) /\ m.do \notin {"collect", "confirm"},
           Then(w, s, more),
           reserved_seats' \in [Place -> Int], CountersWithinCapacity',
           UNCHANGED <<orders, goods, rows, papers, world, starts, overlapped>>
    PROVE  IInv'
<1>1. task' \in [Worker -> Task] /\ Tasks'
  BY ThenGood DEF IInv
<1>2. TypeOK'
  BY <1>1 DEF IInv, TypeOK, goods, papers, world
<1>3. Owed'
  BY ThenOwed DEF world
<1> QED
  BY <1>1, <1>2, <1>3 DEF IInv

(* The reservation row of a line goes on with the tier or with the date.    *)
LEMMA ReserveRowGood ==
    ASSUME IInv, NEW w \in Worker, NEW s, ReserveRow(w, s)
    PROVE  IInv'
<1> DEFINE next == Do(IF NewRow(w, s.line).tier = None
                        THEN "occurrence" ELSE "tier", s.line)
<1>1. /\ Current(w, s, "reserve")
      /\ UNCHANGED <<orders, goods, reserved_seats, papers, world, starts, overlapped>>
      /\ \/ UNCHANGED rows /\ Then(w, s, {})
         \/ rows' = rows \cup {NewRow(w, s.line)} /\ Then(w, s, {next})
  BY DEF ReserveRow
<1>2. /\ NewRow(w, s.line) \in Row /\ s.line \in Nat
      /\ NewRow(w, s.line).tier = items[task[w].order][s.line].tier
      /\ s.line \in EventLines(task[w].order)
  BY <1>1, NewRowTyped DEF IInv
<1>3. next \in Step /\ GoodStep(task[w].order, next) /\ next.do \notin {"collect", "confirm"}
  <2>1. CASE NewRow(w, s.line).tier = None
    BY <1>2, <2>1, StepKinds, DoTyped DEF GoodStep
  <2>2. CASE NewRow(w, s.line).tier # None
    BY <1>2, <2>2, StepKinds, DoTyped DEF GoodStep
  <2> QED
    BY <2>1, <2>2
<1> HIDE DEF next
<1>4. PICK more \in SUBSET Step :
        /\ \A m \in more : GoodStep(task[w].order, m) /\ m.do \notin {"collect", "confirm"}
        /\ Then(w, s, more)
  <2>1. CASE Then(w, s, {})
    BY <2>1
  <2>2. CASE Then(w, s, {next})
    BY <1>3, <2>2
  <2> QED
    BY <1>1, <2>1, <2>2
<1>5. task' \in [Worker -> Task]
  BY <1>1, <1>4, ThenGood DEF IInv
<1>6. TypeOK'
  BY <1>1, <1>2, <1>5 DEF IInv, TypeOK, goods, papers, world
<1> QED
  BY <1>1, <1>4, <1>6, QuietStep

(* A refused increment changes no counter and goes on to undo the row.      *)
LEMMA RefusedGood ==
    ASSUME IInv, NEW w \in Worker, NEW do, NEW s, Current(w, s, do),
           do \in {"tier", "occurrence"},
           NEW more \in SUBSET Step,
           \A m \in more : GoodStep(task[w].order, m) /\ m.do \notin {"collect", "confirm"},
           Then(w, s, more),
           UNCHANGED <<orders, goods, seats, papers, world, starts, overlapped>>
    PROVE  IInv'
<1>1. task' \in [Worker -> Task]
  BY ThenGood DEF IInv
<1>2. TypeOK'
  BY <1>1 DEF IInv, TypeOK, goods, seats, papers, world
<1> QED
  BY <1>2, QuietStep DEF seats

(* A step that takes seats took them under the predicate of its update.     *)
LEMMA TakeGood ==
    ASSUME IInv, NEW w \in Worker, NEW do, NEW s, Current(w, s, do),
           do \in {"tier", "occurrence"},
           NEW more \in SUBSET Step,
           \A m \in more : GoodStep(task[w].order, m) /\ m.do \notin {"collect", "confirm"},
           Then(w, s, more),
           NEW x \in Place, NEW qty \in Nat, HasRoom(x, qty), TakeSeats(x, qty),
           UNCHANGED <<orders, goods, rows, papers, world, starts, overlapped>>
    PROVE  IInv'
<1>1. reserved_seats \in [Place -> Int]
  BY DEF IInv, TypeOK
<1>2. reserved_seats' \in [Place -> Int]
  BY <1>1 DEF TakeSeats
<1>3. CountersWithinCapacity'
  BY <1>1 DEF TakeSeats, HasRoom, IInv, CountersWithinCapacity
<1> QED
  BY <1>2, <1>3, CounterStep

(* Taking seats of a tier keeps the invariant, taken or refused.            *)
LEMMA ReserveTierGood ==
    ASSUME IInv, NEW w \in Worker, NEW s, ReserveTier(w, s)
    PROVE  IInv'
<1> DEFINE row == NewRow(w, s.line)
<1>1. Current(w, s, "tier")
  BY DEF ReserveTier
<1>2. row \in Row /\ s.line \in EventLines(task[w].order) /\ s.line \in Nat
  BY <1>1, NewRowTyped DEF IInv
<1>3. row.tier # None
  BY <1>1, NewRowTyped, CurrentGood DEF IInv, GoodStep
<1>4. row.tier \in Place /\ row.qty \in Nat
  BY <1>2, <1>3 DEF Row, Place
<1>5. \A do \in {"occurrence", "undo"} : /\ Do(do, s.line) \in Step
                                         /\ GoodStep(task[w].order, Do(do, s.line))
                                         /\ Do(do, s.line).do \notin {"collect", "confirm"}
  BY <1>2, StepKinds, DoTyped DEF GoodStep
<1>6. CASE HasRoom(row.tier, row.qty)
  <2>1. /\ TakeSeats(row.tier, row.qty) /\ Then(w, s, {Do("occurrence", s.line)})
        /\ UNCHANGED <<orders, goods, rows, papers, world, starts, overlapped>>
    BY <1>6 DEF ReserveTier
  <2>2. /\ {Do("occurrence", s.line)} \in SUBSET Step
        /\ \A m \in {Do("occurrence", s.line)} :
                GoodStep(task[w].order, m) /\ m.do \notin {"collect", "confirm"}
    BY <1>5
  <2> HIDE DEF row
  <2> QED
    BY <1>1, <1>4, <1>6, <2>1, <2>2, TakeGood
<1>7. CASE ~HasRoom(row.tier, row.qty)
  <2>1. /\ UNCHANGED reserved_seats /\ Then(w, s, {Do("undo", s.line)})
        /\ UNCHANGED <<orders, goods, rows, papers, world, starts, overlapped>>
    BY <1>7 DEF ReserveTier
  <2> QED
    BY <1>1, <1>5, <2>1, RefusedGood DEF seats
<1> QED
  BY <1>6, <1>7

(* Taking seats of a date keeps it too; a refusal gives the tier's back.    *)
LEMMA ReserveOccurrenceGood ==
    ASSUME IInv, NEW w \in Worker, NEW s, ReserveOccurrence(w, s)
    PROVE  IInv'
<1> DEFINE row == NewRow(w, s.line)
<1> DEFINE undo == {Do("undo", s.line)} \cup
                      (IF row.tier = None THEN {} ELSE {Give(row.tier, row, s.line)})
<1>1. Current(w, s, "occurrence")
  BY DEF ReserveOccurrence
<1>2. /\ row \in Row /\ row.occurrence \in Occurrence
      /\ s.line \in EventLines(task[w].order) /\ s.line \in Nat
  BY <1>1, NewRowTyped DEF IInv
<1>3. /\ row.occurrence \in Place /\ row.qty \in Nat
      /\ row.tier # None => row.tier \in Place
  BY <1>2 DEF Row, Place
<1>4. CASE HasRoom(row.occurrence, row.qty)
  <2>1. /\ TakeSeats(row.occurrence, row.qty) /\ Then(w, s, {})
        /\ UNCHANGED <<orders, goods, rows, papers, world, starts, overlapped>>
    BY <1>4 DEF ReserveOccurrence
  <2> HIDE DEF row
  <2> QED
    BY <1>1, <1>3, <1>4, <2>1, TakeGood
<1>5. CASE ~HasRoom(row.occurrence, row.qty)
  <2>1. /\ UNCHANGED reserved_seats /\ Then(w, s, undo)
        /\ UNCHANGED <<orders, goods, rows, papers, world, starts, overlapped>>
    BY <1>5 DEF ReserveOccurrence
  <2>2. /\ Do("undo", s.line) \in Step /\ Do("undo", s.line).do \notin {"collect", "confirm"}
        /\ GoodStep(task[w].order, Do("undo", s.line))
    BY <1>2, StepKinds, DoTyped DEF GoodStep
  <2>3. row.tier # None => /\ Give(row.tier, row, s.line) \in Step
                           /\ GoodStep(task[w].order, Give(row.tier, row, s.line))
                           /\ Give(row.tier, row, s.line).do \notin {"collect", "confirm"}
    <3>1. row.order = task[w].order
      BY DEF NewRow
    <3> QED
      BY <1>2, <1>3, <3>1, GiveTyped
  <2>4. /\ undo \in SUBSET Step
        /\ \A m \in undo : GoodStep(task[w].order, m) /\ m.do \notin {"collect", "confirm"}
    BY <2>2, <2>3
  <2> HIDE DEF undo
  <2> QED
    BY <1>1, <2>1, <2>4, RefusedGood DEF seats
<1> QED
  BY <1>4, <1>5

(* Undoing a reservation and deleting the rows of an order only take rows   *)
(* away.                                                                    *)
LEMMA FewerRowsGood ==
    ASSUME IInv, NEW w \in Worker, NEW s, UndoRow(w, s) \/ DeleteRows(w, s)
    PROVE  IInv'
<1>1. PICK do \in {"undo", "delete_rows"} :
        /\ Current(w, s, do) /\ Then(w, s, {}) /\ rows' \subseteq rows
        /\ UNCHANGED <<orders, goods, reserved_seats, papers, world, starts, overlapped>>
  BY DEF UndoRow, DeleteRows
<1>2. task' \in [Worker -> Task]
  BY <1>1, ThenGood DEF IInv
<1>3. TypeOK'
  BY <1>1, <1>2 DEF IInv, TypeOK, goods, papers, world
<1> QED
  BY <1>1, <1>3, QuietStep

(* A capacity that is set is a natural number.                              *)
LEMMA CapacityTyped ==
    \A y \in Place : capacity[y] # None => capacity[y] \in Nat
<1>1. capacity \in [Place -> Nat \cup {None}]
  BY LifecycleAssumption
<1> QED
  BY <1>1

(* Giving seats back lowers a counter.                                      *)
LEMMA GiveBackGood ==
    ASSUME IInv, NEW w \in Worker, NEW s, GiveBack(w, s)
    PROVE  IInv'
<1>1. /\ Current(w, s, "give")
      /\ reserved_seats' = [reserved_seats EXCEPT ![s.place] = @ - s.row.qty]
      /\ Then(w, s, {[s EXCEPT !.do = "clamp"]})
      /\ UNCHANGED <<orders, goods, rows, papers, world, starts, overlapped>>
  BY DEF GiveBack
<1>2. s \in Step /\ s.do = "give" /\ s.place \in Place /\ s.row \in Row
  BY <1>1, CurrentGood DEF IInv, GoodStep
<1>3. PICK clamp \in Step : clamp = [s EXCEPT !.do = "clamp"]
  BY <1>2, StepKinds DEF Step
<1>4. clamp.do = "clamp" /\ clamp.place = s.place /\ clamp.row = s.row
  BY <1>2, <1>3 DEF Step
<1>5. GoodStep(task[w].order, clamp) /\ clamp.do \notin {"collect", "confirm"}
  <2>1. s.row.order = task[w].order /\ s.place \in {s.row.occurrence, s.row.tier}
    BY <1>1, <1>2, CurrentGood DEF IInv, GoodStep
  <2> QED
    BY <1>2, <1>4, <2>1 DEF GoodStep
<1>6. Then(w, s, {clamp})
  BY <1>1, <1>3
<1>7. PICK x \in Place, qty \in Nat : x = s.place /\ qty = s.row.qty
  BY <1>2 DEF Row
<1>8. reserved_seats \in [Place -> Int]
      /\ reserved_seats' = [reserved_seats EXCEPT ![x] = @ - qty]
  BY <1>1, <1>7 DEF IInv, TypeOK
<1>9. reserved_seats' \in [Place -> Int]
  BY <1>8
<1>10. CountersWithinCapacity'
  <2>1. \A y \in Place : reserved_seats'[y] <= reserved_seats[y]
    BY <1>8
  <2> QED
    BY <1>8, <1>9, <2>1, CapacityTyped DEF IInv, CountersWithinCapacity
<1> QED
  BY <1>1, <1>5, <1>6, <1>9, <1>10, CounterStep

(* Clamping a counter to zero stays within its capacity.                    *)
LEMMA ClampGood ==
    ASSUME IInv, NEW w \in Worker, NEW s, Clamp(w, s)
    PROVE  IInv'
<1>1. /\ Current(w, s, "clamp") /\ Then(w, s, {})
      /\ reserved_seats' = [reserved_seats EXCEPT ![s.place] = IF @ < 0 THEN 0 ELSE @]
      /\ UNCHANGED <<orders, goods, rows, papers, world, starts, overlapped>>
  BY DEF Clamp
<1>2. PICK x \in Place : x = s.place
  BY <1>1, CurrentGood DEF IInv, GoodStep
<1>3. reserved_seats \in [Place -> Int]
      /\ reserved_seats' = [reserved_seats EXCEPT ![x] = IF @ < 0 THEN 0 ELSE @]
  BY <1>1, <1>2 DEF IInv, TypeOK
<1>4. reserved_seats' \in [Place -> Int]
  BY <1>3
<1>5. CountersWithinCapacity'
  <2>1. \A y \in Place : \/ reserved_seats'[y] = reserved_seats[y]
                         \/ reserved_seats'[y] = 0
    BY <1>3
  <2> QED
    BY <2>1, CapacityTyped DEF IInv, CountersWithinCapacity
<1> QED
  BY <1>1, <1>4, <1>5, CounterStep

(* The steps of a release concern reservations that were read.              *)
LEMMA ReleaseGood ==
    ASSUME IInv, NEW w \in Worker, NEW s,
           release_tier_seats(w, s) \/ release_event_seats(w, s)
    PROVE  IInv'
<1> PICK o \in Orders : o = task[w].order
  BY CurrentGood DEF IInv, release_tier_seats, release_event_seats
<1>1. UNCHANGED <<orders, goods, seats, papers, world, starts, overlapped>>
  BY DEF release_tier_seats, release_event_seats
<1>2. RowsOf(o) \subseteq Row
  BY DEF RowsOf, IInv, TypeOK
<1>3. ASSUME NEW r \in RowsOf(o), NEW x \in {r.tier, r.occurrence}, x # None
      PROVE  Give(x, r, 0) \in Step /\ GoodStep(o, Give(x, r, 0))
             /\ Give(x, r, 0).do \notin {"collect", "confirm"}
  <2>1. r \in Row /\ x \in Place \cap {r.occurrence, r.tier} /\ r.order = o
    BY <1>2, <1>3 DEF Row, Place, RowsOf
  <2> QED
    BY <2>1, GiveTyped
<1>4. \A r \in RowsOf(o) : r.occurrence # None
  BY <1>2, LifecycleAssumption DEF Row, Place
<1>5. PICK do \in {"release_tiers", "release"}, more \in SUBSET Step :
        /\ Current(w, s, do) /\ Then(w, s, more)
        /\ \A m \in more : GoodStep(o, m) /\ m.do \notin {"collect", "confirm"}
  <2>1. CASE release_tier_seats(w, s)
    <3> DEFINE more == {Give(r.tier, r, 0) : r \in {x \in RowsOf(o) : x.tier # None}}
    <3>1. Current(w, s, "release_tiers") /\ Then(w, s, more)
      BY <2>1 DEF release_tier_seats
    <3>2. \A m \in more : m \in Step /\ GoodStep(o, m) /\ m.do \notin {"collect", "confirm"}
      BY <1>3
    <3> HIDE DEF more
    <3> QED
      BY <3>1, <3>2
  <2>2. CASE release_event_seats(w, s)
    <3> DEFINE more == IF RowsOf(o) = {} THEN {}
                       ELSE {Do("delete_rows", 0)}
                            \cup {Give(r.occurrence, r, 0) : r \in RowsOf(o)}
    <3>1. Current(w, s, "release") /\ Then(w, s, more)
      BY <2>2 DEF release_event_seats
    <3>2. /\ Do("delete_rows", 0) \in Step
          /\ Do("delete_rows", 0).do \notin {"collect", "confirm"}
          /\ GoodStep(o, Do("delete_rows", 0))
      BY StepKinds, DoTyped DEF GoodStep
    <3>3. \A m \in more : m \in Step /\ GoodStep(o, m) /\ m.do \notin {"collect", "confirm"}
      BY <1>3, <1>4, <3>2
    <3> HIDE DEF more
    <3> QED
      BY <3>1, <3>3
  <2> QED
    BY <2>1, <2>2
<1>6. task' \in [Worker -> Task]
  BY <1>5, ThenGood DEF IInv
<1>7. TypeOK'
  BY <1>1, <1>6 DEF IInv, TypeOK, goods, seats, papers, world
<1> QED
  BY <1>1, <1>5, <1>7, QuietStep DEF seats

(* So every step on seats keeps the invariant.                              *)
LEMMA SeatStepGood ==
    ASSUME IInv, NEW w \in Worker, NEW s, SeatStep(w, s)
    PROVE  IInv'
BY ReserveRowGood, ReserveTierGood, ReserveOccurrenceGood, FewerRowsGood,
   GiveBackGood, ClampGood, ReleaseGood DEF SeatStep

-----------------------------------------------------------------------------
(* Blocks and tickets, the cleanup job, the operator and restarts. *)

(* A block is of a date of the order.                                       *)
LEMMA BlocksGood ==
    ASSUME IInv, NEW w \in Worker, NEW s, Block(w, s) \/ Unblock(w, s)
    PROVE  IInv'
<1> PICK o \in Orders : o = task[w].order
  BY CurrentGood DEF IInv, Block, Unblock
<1>1. PICK do \in {"block", "unblock"} :
        /\ Current(w, s, do) /\ Then(w, s, {})
        /\ \/ /\ do = "block"
              /\ blocked' = blocked \cup {<<o, items[o][s.line].occurrence>>}
           \/ blocked' \subseteq blocked
        /\ UNCHANGED <<orders, goods, seats, tickets, world, starts, overlapped>>
  BY DEF Block, Unblock
<1>2. do = "block" => items[o][s.line].occurrence \in Occurrence
  BY <1>1, CurrentGood, EventTyped DEF IInv, GoodStep
<1>3. blocked' \subseteq Orders \X Occurrence
  BY <1>1, <1>2 DEF IInv, TypeOK
<1>4. task' \in [Worker -> Task]
  BY <1>1, ThenGood DEF IInv
<1>5. TypeOK'
  BY <1>1, <1>3, <1>4 DEF IInv, TypeOK, goods, seats, world
<1> QED
  BY <1>1, <1>5, QuietStep DEF seats

(* One ticket to issue per seat of a line of events.                        *)
LEMMA FindTicketsGood ==
    ASSUME IInv, NEW w \in Worker, NEW s, FindTickets(w, s)
    PROVE  IInv'
<1> PICK o \in Orders : o = task[w].order
  BY CurrentGood DEF IInv, FindTickets
<1> DEFINE issue == UNION {{[Do("ticket", i) EXCEPT !.n = n] :
                                n \in 1..items[o][i].quantity} : i \in EventLines(o)}
<1> DEFINE more == IF HasTickets(o) THEN {} ELSE issue
<1>1. /\ Current(w, s, "find_tickets") /\ Then(w, s, more)
      /\ UNCHANGED <<orders, goods, seats, papers, world, starts, overlapped>>
  BY DEF FindTickets
<1>2. ASSUME NEW i \in EventLines(o), NEW n \in 1..items[o][i].quantity
      PROVE  LET m == [Do("ticket", i) EXCEPT !.n = n]
             IN  m \in Step /\ GoodStep(o, m) /\ m.do \notin {"collect", "confirm"}
  <2>1. i \in Nat /\ n \in Nat
    BY EventTyped
  <2> QED
    BY <2>1, StepKinds DEF Do, Step, GoodStep
<1>3. \A m \in more : m \in Step /\ GoodStep(o, m) /\ m.do \notin {"collect", "confirm"}
  <2> SUFFICES ASSUME NEW m \in issue
               PROVE  m \in Step /\ GoodStep(o, m) /\ m.do \notin {"collect", "confirm"}
    OBVIOUS
  <2>1. PICK i \in EventLines(o) :
          m \in {[Do("ticket", i) EXCEPT !.n = n] : n \in 1..items[o][i].quantity}
    OBVIOUS
  <2>2. PICK n \in 1..items[o][i].quantity : m = [Do("ticket", i) EXCEPT !.n = n]
    BY <2>1
  <2> QED
    BY <1>2, <2>2
<1> HIDE DEF issue, more
<1>4. task' \in [Worker -> Task]
  BY <1>1, <1>3, ThenGood DEF IInv
<1>5. TypeOK'
  BY <1>1, <1>4 DEF IInv, TypeOK, goods, seats, papers, world
<1> QED
  BY <1>1, <1>3, <1>5, QuietStep DEF seats

(* Issuing a ticket adds to the count of its line.                          *)
LEMMA IssueTicketGood ==
    ASSUME IInv, NEW w \in Worker, NEW s, IssueTicket(w, s)
    PROVE  IInv'
<1>1. /\ Current(w, s, "ticket") /\ Then(w, s, {})
      /\ tickets' = [tickets EXCEPT ![task[w].order][s.line].valid = @ + 1]
      /\ UNCHANGED <<orders, goods, seats, blocked, world, starts, overlapped>>
  BY DEF IssueTicket
<1>2. PICK o \in Orders : o = task[w].order
  BY <1>1, CurrentGood DEF IInv
<1>3. PICK i \in Lines(o) : i = s.line
  BY <1>1, <1>2, CurrentGood, EventTyped DEF IInv, GoodStep
<1>4. /\ DOMAIN tickets = Orders
      /\ \A p \in Orders : tickets[p] \in [Lines(p) -> [valid: Nat, voided: Nat]]
      /\ tickets' = [tickets EXCEPT ![o][i].valid = @ + 1]
  BY <1>1, <1>2, <1>3 DEF IInv, TypeOK
<1>5. DOMAIN tickets' = DOMAIN tickets
  BY <1>1
<1>6. \A p \in Orders : tickets'[p] = IF p = o
                          THEN [tickets[o] EXCEPT ![i].valid = @ + 1] ELSE tickets[p]
  BY <1>4
<1>7. [tickets[o] EXCEPT ![i].valid = @ + 1] \in [Lines(o) -> [valid: Nat, voided: Nat]]
  BY <1>4
<1>8. \A p \in Orders : tickets'[p] \in [Lines(p) -> [valid: Nat, voided: Nat]]
  BY <1>4, <1>6, <1>7
<1>9. task' \in [Worker -> Task]
  BY <1>1, ThenGood DEF IInv
<1>10. TypeOK'
  BY <1>1, <1>4, <1>5, <1>8, <1>9 DEF IInv, TypeOK, goods, seats, world
<1> QED
  BY <1>1, <1>10, QuietStep DEF seats

(* Voiding moves every valid ticket of the order to the voided ones.        *)
LEMMA VoidTicketsGood ==
    ASSUME IInv, NEW w \in Worker, NEW s, void_tickets_for_order(w, s)
    PROVE  IInv'
<1>1. PICK o \in Orders : o = task[w].order
  BY CurrentGood DEF IInv, void_tickets_for_order
<1> DEFINE voided == [i \in Lines(o) |->
        [valid |-> 0, voided |-> tickets[o][i].valid + tickets[o][i].voided]]
<1>2. /\ Current(w, s, "void") /\ Then(w, s, {})
      /\ tickets' = [tickets EXCEPT ![o] = voided]
      /\ UNCHANGED <<orders, goods, seats, blocked, world, starts, overlapped>>
  BY <1>1 DEF void_tickets_for_order
<1>3. /\ DOMAIN tickets = Orders
      /\ \A p \in Orders : tickets[p] \in [Lines(p) -> [valid: Nat, voided: Nat]]
  BY DEF IInv, TypeOK
<1>4. voided \in [Lines(o) -> [valid: Nat, voided: Nat]]
  BY <1>3
<1> HIDE DEF voided
<1>5. /\ DOMAIN tickets' = Orders
      /\ \A p \in Orders : tickets'[p] \in [Lines(p) -> [valid: Nat, voided: Nat]]
  BY <1>2, <1>3, <1>4
<1>6. task' \in [Worker -> Task]
  BY <1>2, ThenGood DEF IInv
<1>7. TypeOK'
  BY <1>2, <1>5, <1>6 DEF IInv, TypeOK, goods, seats, world
<1> QED
  BY <1>2, <1>7, QuietStep DEF seats

(* So every step on blocks and tickets keeps the invariant.                 *)
LEMMA PaperStepGood ==
    ASSUME IInv, NEW w \in Worker, NEW s, PaperStep(w, s)
    PROVE  IInv'
BY BlocksGood, FindTicketsGood, IssueTicketGood, VoidTicketsGood DEF PaperStep

(* The cleanup job writes only drafts that are not collected.               *)
LEMMA SweepGood ==
    ASSUME IInv, SweepFind \/ SweepExpire
    PROVE  IInv'
<1>1. UNCHANGED <<goods, seats, papers, open, crashes, killed, task, starts, overlapped>>
  BY DEF SweepFind, SweepExpire
<1>2. swept' \subseteq Orders
  BY DEF SweepFind, SweepExpire
<1>3. \/ orders' = orders
      \/ orders' = [o \in Orders |-> IF o \in swept /\ Unpaid(o)
                                       THEN [orders[o] EXCEPT !.status = "expired"]
                                       ELSE orders[o]]
  BY DEF SweepFind, SweepExpire
<1>4. \A o \in Orders : orders'[o] # orders[o] =>
                            orders'[o].payment_intent = "required"
  BY <1>3 DEF Unpaid, IInv, TypeOK
<1>5. orders' \in [Orders -> [status: OrderStatus,
                              payment_intent: {"none", "required", "collected"},
                              confirm_error: BOOLEAN]]
  <2> DEFINE Order == [status: OrderStatus, confirm_error: BOOLEAN,
                       payment_intent: {"none", "required", "collected"}]
  <2>1. orders \in [Orders -> Order]
    BY DEF IInv, TypeOK
  <2>2. ASSUME NEW r \in Order PROVE [r EXCEPT !.status = "expired"] \in Order
    BY DEF OrderStatus
  <2> HIDE DEF Order
  <2>3. orders' \in [Orders -> Order]
    BY <1>3, <2>1, <2>2
  <2> QED
    BY <2>3 DEF Order
<1>6. TypeOK'
  BY <1>1, <1>2, <1>5 DEF IInv, TypeOK, goods, seats, papers
<1>7. Tasks' /\ CountersWithinCapacity'
  BY <1>1 DEF IInv, Tasks, CountersWithinCapacity, seats
<1>8. \A v \in Worker, x \in Orders : WillWrite(v, x) => WillWrite(v, x)'
  BY <1>1 DEF WillWrite
<1>9. Owed'
  BY <1>1, <1>4, <1>8 DEF IInv, Owed, Unsettled
<1> QED
  BY <1>6, <1>7, <1>9 DEF IInv

(* Opening and closing touches no order, no handler and no counter.         *)
LEMMA SwitchGood ==
    ASSUME IInv, NEW x \in Switched, Switch(x)
    PROVE  IInv'
<1>1. /\ open' = [open EXCEPT ![x] = ~@]
      /\ starts < MaxStarts /\ starts' = starts + 1
      /\ UNCHANGED <<orders, goods, seats, papers, swept, crashes, killed, task, overlapped>>
  BY DEF Switch
<1>2. open' \in [Place -> BOOLEAN]
  <2>1. open \in [Place -> BOOLEAN]
    BY DEF IInv, TypeOK
  <2>2. (~open[x]) \in BOOLEAN
    OBVIOUS
  <2> QED
    BY <1>1, <2>1, <2>2
<1>7. starts' \in 0 .. MaxStarts
  BY <1>1, LifecycleAssumption DEF IInv, TypeOK
<1>3. TypeOK'
  BY <1>1, <1>2, <1>7 DEF IInv, TypeOK, goods, seats, papers
<1>4. Tasks' /\ CountersWithinCapacity'
  BY <1>1 DEF IInv, Tasks, CountersWithinCapacity, seats
<1>5. \A v \in Worker, y \in Orders : WillWrite(v, y) => WillWrite(v, y)'
  BY <1>1 DEF WillWrite
<1>6. Owed'
  BY <1>1, <1>5 DEF IInv, Owed, Unsettled
<1> QED
  BY <1>3, <1>4, <1>6 DEF IInv

(* After a restart nothing is claimed of the money collected for the order  *)
(* of the handler that was killed.                                          *)
LEMMA CrashGood ==
    ASSUME IInv, NEW w \in Worker, Crash(w)
    PROVE  IInv'
<1>1. /\ crashes < MaxCrashes /\ crashes' = crashes + 1 /\ Stop(w)
      /\ killed' = killed \cup {task[w].order} /\ InFlight(w)
      /\ UNCHANGED <<orders, goods, seats, papers, open, swept, starts, overlapped>>
  BY DEF Crash
<1>2. task' \in [Worker -> Task] /\ Tasks'
  BY <1>1, StopGood DEF IInv
<1>3. crashes' \in 0..MaxCrashes /\ killed' \subseteq Orders
  BY <1>1, LifecycleAssumption DEF IInv, TypeOK, Tasks, GoodTask, InFlight
<1>4. TypeOK'
  BY <1>1, <1>2, <1>3 DEF IInv, TypeOK, goods, seats, papers
<1>5. CountersWithinCapacity'
  BY <1>1 DEF IInv, CountersWithinCapacity, seats
<1>6. Owed'
  <2>1. \A v \in Worker : v # w => task'[v] = task[v]
    BY <1>1 DEF Stop, IInv, TypeOK
  <2>2. \A v \in Worker, x \in Orders \ killed' : WillWrite(v, x) => WillWrite(v, x)'
    BY <1>1, <2>1 DEF WillWrite
  <2> QED
    BY <1>1, <2>2 DEF IInv, Owed, Unsettled
<1> QED
  BY <1>2, <1>4, <1>5, <1>6 DEF IInv

-----------------------------------------------------------------------------
(* The invariant. *)

(* At the start no seat is taken and no money collected.                    *)
LEMMA InitGood == Init => IInv
<1> SUFFICES ASSUME Init PROVE IInv
  OBVIOUS
<1>1. TypeOK
  <2>1. task \in [Worker -> Task]
    BY DEF Init, Idle, Task
  <2>2. orders \in [Orders -> [status: OrderStatus,
                               payment_intent: {"none", "required", "collected"},
                              confirm_error: BOOLEAN]]
    BY DEF Init, OrderStatus
  <2>3. /\ DOMAIN tickets = Orders
        /\ \A o \in Orders : tickets[o] \in [Lines(o) -> [valid: Nat, voided: Nat]]
    BY DEF Init
  <2>4. stock \in [Product -> Nat] /\ starts \in 0..MaxStarts
        /\ crashes \in 0..MaxCrashes
    BY LifecycleAssumption DEF Init
  <2> QED
    BY <2>1, <2>2, <2>3, <2>4 DEF Init, TypeOK
<1>2. Tasks
  BY DEF Init, Tasks, GoodTask, Idle
<1>3. CountersWithinCapacity
  BY CapacityTyped DEF Init, CountersWithinCapacity
<1>4. Owed
  BY DEF Init, Owed, Unsettled
<1> QED
  BY <1>1, <1>2, <1>3, <1>4 DEF IInv

(* Every step keeps the invariant.                                          *)
LEMMA NextGood == IInv /\ [Next]_vars => IInv'
<1> SUFFICES ASSUME IInv, [Next]_vars PROVE IInv'
  OBVIOUS
<1>1. ASSUME NEW w \in Worker, NEW o \in Orders, Request(w, o)
      PROVE  IInv'
  BY <1>1, RequestGood
<1>2. ASSUME NEW w \in Worker, NEW s \in task[w].todo,
             OrderStep(w, s) \/ SeatStep(w, s) \/ PaperStep(w, s)
      PROVE  IInv'
  BY <1>2, OrderStepGood, SeatStepGood, PaperStepGood
<1>3. ASSUME NEW w \in Worker, Crash(w)
      PROVE  IInv'
  BY <1>3, CrashGood
<1>4. ASSUME NEW x \in Switched, Switch(x)
      PROVE  IInv'
  BY <1>4, SwitchGood
<1>5. CASE SweepFind \/ SweepExpire
  BY <1>5, SweepGood
<1>6. CASE UNCHANGED vars
  BY <1>6 DEF vars, goods, seats, papers, world, IInv, TypeOK, Tasks,
              CountersWithinCapacity, Owed, Unsettled, WillWrite
<1> QED
  BY <1>1, <1>2, <1>3, <1>4, <1>5, <1>6 DEF Next

(* The invariant holds in every reachable state.                            *)
THEOREM Invariance == Spec => []IInv
<1> QED
  BY InitGood, NextGood, PTL DEF Spec

(* Every variable keeps its type: stock is never negative, a handler always *)
(* has an order, and its steps concern lines that the order has.            *)
THEOREM TypeCorrect == Spec => []TypeOK
<1>1. IInv => TypeOK
  BY DEF IInv
<1> QED
  BY <1>1, Invariance, PTL

(* No counter of a date or tier passes its capacity, for any number of      *)
(* handlers that reserve, undo, release and are killed in any order         *)
(* (event_capacity.reserve_event_seats, tier_capacity.reserve_tier_seats).  *)
THEOREM NoOvercount == Spec => []CountersWithinCapacity
<1>1. IInv => CountersWithinCapacity
  BY DEF IInv
<1> QED
  BY <1>1, Invariance, PTL

(* Money collected for an order confirms it once its handlers are done, or  *)
(* the order says why not, whatever the cleanup job and the other handlers  *)
(* of the same order do meanwhile, and unless one of them was killed        *)
(* (reconcile_checkout_event, confirm_order, sweep_orphan_draft_orders).    *)
THEOREM CollectedConfirmed == Spec => []CollectedIsConfirmed
<1>1. IInv => CollectedIsConfirmed
  BY DEF IInv, Owed, Unsettled, WillWrite, CollectedIsConfirmed, AtRest, InFlight
<1> QED
  BY <1>1, Invariance, PTL

-----------------------------------------------------------------------------
(***************************************************************************)
(* Orders whose own handlers have neither overlapped nor been killed:      *)
(* sales, tickets and blocks go together, and where only such orders have  *)
(* lines the counters are the sums of the reservations.                    *)
(*                                                                         *)
(* K is a set of such orders.  What is said of K supposes nothing of the   *)
(* other orders: their handlers may overlap and die, and take and give     *)
(* back seats of other dates in between.                                   *)
(*                                                                         *)
(* A handler is in one of seven phases, and each says how far the sales,   *)
(* the tickets and the blocks of its order have come; an order that no     *)
(* handler works on is at Rest.  A confirmation or a cancellation that the *)
(* plan's limit ends can never be taken up half way, because the rows that *)
(* count against the plan never become fewer.                              *)
(*                                                                         *)
(* A counter stands for the rows Counted at its place: all of them but     *)
(* those whose handler has not taken their seats yet, or has already given *)
(* them back.                                                              *)
(***************************************************************************)

Confirmation == {"confirm", "webhook"}
Mid == {"tier", "occurrence", "undo"}
Single == {"collect", "confirm", "status", "quota", "sales", "storno", "unblock",
           "find_tickets", "void", "release_tiers", "release", "delete_rows",
           "record_error"}

Kinds == [confirm |-> {"status", "stock", "quota", "sales", "clamp", "reserve",
                       "tier", "occurrence", "give", "undo", "block",
                       "find_tickets", "ticket"},
          webhook |-> {"collect", "confirm", "status", "stock", "quota", "sales",
                       "clamp", "reserve", "tier", "occurrence", "give", "undo",
                       "block", "find_tickets", "ticket", "record_error"},
          cancel |-> {"status", "restore", "quota", "storno", "clamp", "give",
                      "unblock", "void", "release_tiers", "release", "delete_rows"},
          complete |-> {"status"}]

(* The steps of a handler are of its kinds, and named by kind and line.     *)
PlainStep(op, s) ==
    /\ s.do \in Kinds[op]
    /\ s.do \notin {"give", "clamp", "ticket"} => s = Do(s.do, s.line)
    /\ s.do \in Single => s.line = 0

Plain(w) == \A s \in task[w].todo : PlainStep(task[w].op, s)

(* Handlers of one of the orders do not overlap.                            *)
Apart(K) ==
    \A v, w \in Worker :
        InFlight(v) /\ InFlight(w) /\ task[v].order = task[w].order
        /\ task[v].order \in K => v = w

-----------------------------------------------------------------------------
(* Sales, tickets and blocks.                                               *)

Pristine(o) ==
    /\ sales[o].forward = 0 /\ sales[o].storno = 0
    /\ \A i \in Lines(o) : tickets[o][i].valid = 0 /\ tickets[o][i].voided = 0
    /\ \A i \in EventLines(o) : <<o, items[o][i].occurrence>> \notin blocked
    /\ RowsOf(o) = {}

Full(o) ==
    /\ sales[o].forward = 1 /\ sales[o].storno = 0
    /\ \A i \in Lines(o) : tickets[o][i].valid =
            IF i \in EventLines(o) THEN items[o][i].quantity ELSE 0
    /\ \A i \in EventLines(o) : <<o, items[o][i].occurrence>> \in blocked

Bare(o) ==
    /\ sales[o].forward = sales[o].storno
    /\ \A i \in Lines(o) : tickets[o][i].valid = 0
    /\ \A i \in EventLines(o) : <<o, items[o][i].occurrence>> \notin blocked
    /\ RowsOf(o) = {}

OverQuota(o) == rows_used + Len(items[o]) > Quota

Rest(o) ==
    /\ Full(o) \/ Bare(o)
    /\ orders[o].status \in {"draft", "expired"} => Pristine(o)
    /\ orders[o].status = "confirmed" => Full(o) \/ (Pristine(o) /\ OverQuota(o))

(* T is what the handler of order o has to do.                              *)

(* A payment that has arrived, before its order is read again.              *)
Waiting(T, o) ==
    /\ T \subseteq {Do("collect", 0), Do("confirm", 0)}
    /\ Rest(o)

(* A confirmation that raised, before this is recorded.                     *)
Recording(T, o) ==
    /\ T = {Do("record_error", 0)}
    /\ Rest(o)

Finishing(T, o) ==
    /\ T = {Do("status", 0)}
    /\ orders[o].status = "confirmed"
    /\ Rest(o)

(* A confirmation that has not recorded the sales.                          *)
Opening(T, o) ==
    /\ T \subseteq Confirming(o)
    /\ Do("sales", 0) \in T /\ Do("find_tickets", 0) \in T
    /\ \A i \in FirstOfDate(o) : Do("block", i) \in T
    /\ Do("status", 0) \in T => orders[o].status \in {"draft", "expired"}
    /\ Do("status", 0) \notin T => orders[o].status = "confirmed"
    /\ Pristine(o)

TicketStep(i, n) == [Do("ticket", i) EXCEPT !.n = n]

(* The tickets of a line that are still to be issued.                       *)
Issuing(T, o, i) ==
    /\ Do("find_tickets", 0) \in T =>
          /\ tickets[o][i].valid = 0 /\ tickets[o][i].voided = 0
          /\ \A s \in T : s.do # "ticket"
    /\ Do("find_tickets", 0) \notin T /\ i \in EventLines(o) =>
          /\ tickets[o][i].valid <= items[o][i].quantity
          /\ \A n \in tickets[o][i].valid + 1 .. items[o][i].quantity :
                TicketStep(i, n) \in T
          /\ \A s \in T : s.do = "ticket" /\ s.line = i =>
                /\ s = TicketStep(i, s.n)
                /\ s.n \in tickets[o][i].valid + 1 .. items[o][i].quantity
    /\ i \notin EventLines(o) => tickets[o][i].valid = 0

Blocking(T, o, i) ==
    Do("block", i) \in T \/ <<o, items[o][i].occurrence>> \in blocked

(* A confirmation that has.                                                 *)
Selling(T, o) ==
    /\ \A s \in T :
          s.do \notin {"collect", "confirm", "status", "stock", "quota", "sales",
                     "record_error"}
    /\ orders[o].status = "confirmed"
    /\ sales[o].forward = 1 /\ sales[o].storno = 0
    /\ \A i \in FirstOfDate(o) : Blocking(T, o, i)
    /\ \A i \in Lines(o) : Issuing(T, o, i)

(* A cancellation that has yet to reverse the sales.                        *)
Closing(T, o) ==
    /\ \A s \in T : s.do \notin {"give", "clamp", "delete_rows"}
    /\ Do("storno", 0) \in T /\ Do("unblock", 0) \in T /\ Do("void", 0) \in T
    /\ Do("release_tiers", 0) \in T /\ Do("release", 0) \in T
    /\ Do("status", 0) \in T => orders[o].status = "confirmed"
    /\ Do("status", 0) \notin T => orders[o].status = "cancelled"
    /\ \/ Full(o)
       \/ Pristine(o) /\ OverQuota(o) /\ Do("quota", 0) \in T

(* A cancellation without sales to reverse, or that has reversed them.      *)
Undoing(T, o) ==
    /\ \A s \in T : s.do \notin {"restore", "quota", "storno"}
    /\ Do("status", 0) \in T => orders[o].status \in {"draft", "expired"}
    /\ Do("status", 0) \notin T => orders[o].status = "cancelled"
    /\ sales[o].forward = sales[o].storno
    /\ Do("void", 0) \in T \/ \A i \in Lines(o) : tickets[o][i].valid = 0
    /\ \/ Do("unblock", 0) \in T
       \/ \A i \in EventLines(o) : <<o, items[o][i].occurrence>> \notin blocked

Phase(op, T, o) ==
    \/ op = "webhook" /\ (Waiting(T, o) \/ Recording(T, o))
    \/ op = "complete" /\ Finishing(T, o)
    \/ op \in Confirmation /\ (Opening(T, o) \/ Selling(T, o))
    \/ op = "cancel" /\ (Closing(T, o) \/ Undoing(T, o))

Papers(K) == \A o \in K :
    /\ AtRest(o) => Rest(o)
    /\ \A w \in Worker : InFlight(w) /\ task[w].order = o =>
                              Phase(task[w].op, task[w].todo, o)

-----------------------------------------------------------------------------
(* Seats.                                                                   *)

(* A confirmation works on one line after another.                          *)
Taking(w) ==
    /\ \A s, t \in task[w].todo : s.do \in Mid =>
          /\ t.do \in Mid => t = s
          /\ t.do = "reserve" => s.line < t.line
          /\ t.do # "quota"
    /\ \A s \in task[w].todo : s.do \in Mid => NewRow(w, s.line) \in rows
    /\ \A s \in task[w].todo : s.do = "give" =>
          /\ s = Give(NewRow(w, s.line).tier, NewRow(w, s.line), s.line)
          /\ Do("undo", s.line) \in task[w].todo

(* A cancellation gives back what its order holds, then deletes it.         *)
Releasing(T, o) ==
    /\ \A s \in T : s.do = "give" =>
          /\ s = Give(s.place, s.row, 0)
          /\ s.row \in RowsOf(o)
          /\ \/ s.place = s.row.tier /\ Do("release_tiers", 0) \notin T
             \/ s.place = s.row.occurrence /\ Do("release", 0) \notin T
    /\ Do("delete_rows", 0) \in T =>
          Do("release_tiers", 0) \notin T /\ Do("release", 0) \notin T
    /\ Do("quota", 0) \in T =>
          Do("release_tiers", 0) \in T /\ Do("release", 0) \in T
    /\ \/ Do("release", 0) \in T
       \/ Do("delete_rows", 0) \in T
       \/ RowsOf(o) = {}

SeatTask(w) ==
    /\ task[w].op \in Confirmation => Taking(w)
    /\ task[w].op = "cancel" => Releasing(task[w].todo, task[w].order)

(* Handler w has not counted row r at x yet, or no longer does.             *)
Missing(w, r, x) ==
    \/ /\ task[w].op \in Confirmation
       /\ \E i \in EventLines(r.order) :
             /\ r = NewRow(w, i)
             /\ \/ Do("tier", i) \in task[w].todo
                \/ Do("occurrence", i) \in task[w].todo /\ x = r.occurrence
                \/ Do("undo", i) \in task[w].todo /\ Give(x, r, i) \notin task[w].todo
    \/ /\ task[w].op = "cancel"
       /\ x = r.tier => Do("release_tiers", 0) \notin task[w].todo
       /\ x = r.occurrence => Do("release", 0) \notin task[w].todo
       /\ Give(x, r, 0) \notin task[w].todo

Uncounted(r, x) ==
    \E w \in Worker : InFlight(w) /\ task[w].order = r.order /\ Missing(w, r, x)

At(x) == {r \in rows : r.occurrence = x \/ r.tier = x}
Counted(x) == {r \in At(x) : ~ Uncounted(r, x)}

Seats(S) == MapThenSumSet(LAMBDA r : r.qty, S)

(* The dates and tiers where no other order has a line.                     *)
PlacesOf(K) == {x \in Place : Guests(x) \subseteq K}

Tally(K) == \A x \in PlacesOf(K) : reserved_seats[x] = Seats(Counted(x))

Together(K) ==
    /\ IsFiniteSet(rows)
    /\ \A w \in Worker : InFlight(w) /\ task[w].order \in K => Plain(w) /\ SeatTask(w)
    /\ Papers(K)
    /\ Tally(K)

(* The orders whose handlers have neither overlapped nor been killed.       *)
Clean == Orders \ (overlapped \cup killed)

Serial == \A K \in SUBSET Clean : Apart(K) /\ Together(K)

Calm(K) == IInv /\ Apart(K) /\ Together(K)

-----------------------------------------------------------------------------
(* Handlers apart.                                                          *)

(* The task of a handler that goes on; the other handlers are not touched.  *)
LEMMA ThenIs ==
    ASSUME TypeOK, NEW w \in Worker, NEW s, NEW more, Then(w, s, more)
    PROVE  /\ \A v \in Worker : v # w => task'[v] = task[v]
           /\ task'[w].todo = (task[w].todo \ {s}) \cup more
           /\ InFlight(w)' => /\ task'[w].op = task[w].op
                              /\ task'[w].order = task[w].order
                              /\ task'[w].id = task[w].id
           /\ ~ InFlight(w)' => task'[w] = Idle
<1> DEFINE todo == (task[w].todo \ {s}) \cup more
           next == IF todo = {} THEN Idle ELSE [task[w] EXCEPT !.todo = todo]
<1>1. task' = [task EXCEPT ![w] = next] /\ task \in [Worker -> Task]
  BY DEF Then, TypeOK
<1>2. task[w] \in Task
  BY <1>1
<1>3. /\ next.todo = todo
      /\ todo # {} => next.op = task[w].op /\ next.order = task[w].order
                      /\ next.id = task[w].id
      /\ todo = {} => next = Idle
  BY <1>2 DEF Task, Idle
<1> HIDE DEF next
<1>4. task'[w] = next /\ \A v \in Worker : v # w => task'[v] = task[v]
  BY <1>1
<1> QED BY <1>3, <1>4 DEF InFlight

(* A handler ended is idle.                                                 *)
LEMMA StopIs ==
    ASSUME TypeOK, NEW w \in Worker, Stop(w)
    PROVE  /\ \A v \in Worker : v # w => task'[v] = task[v]
           /\ task'[w] = Idle /\ ~ InFlight(w)'
BY SMTT(30) DEF Stop, TypeOK, InFlight, Idle

(* An exception leaves a webhook one step to do and ends any other handler. *)
LEMMA RaiseIs ==
    ASSUME TypeOK, NEW w \in Worker, Raise(w)
    PROVE  /\ \A v \in Worker : v # w => task'[v] = task[v]
           /\ task[w].op = "webhook" =>
                 /\ task'[w].op = "webhook" /\ task'[w].order = task[w].order
                 /\ task'[w].todo = {Do("record_error", 0)}
                 /\ InFlight(w)'
           /\ task[w].op # "webhook" => ~ InFlight(w)'
<1>1. CASE task[w].op = "webhook"
  <2> DEFINE U == {Do("record_error", 0)}
  <2>1. task' = [task EXCEPT ![w].todo = U] /\ task \in [Worker -> Task]
    BY <1>1 DEF Raise, TypeOK
  <2>2. task[w] \in Task /\ U # {}
    BY <2>1
  <2> HIDE DEF U
  <2>3. /\ task'[w] = [task[w] EXCEPT !.todo = U]
        /\ \A v \in Worker : v # w => task'[v] = task[v]
    BY <2>1
  <2>4. task'[w].todo = U /\ task'[w].op = task[w].op /\ task'[w].order = task[w].order
    BY <2>2, <2>3 DEF Task
  <2>5. InFlight(w)'
    BY <2>2, <2>4 DEF InFlight
  <2> QED BY <1>1, <2>3, <2>4, <2>5 DEF U
<1>2. CASE task[w].op # "webhook"
  BY <1>2, StopIs DEF Raise
<1> QED BY <1>1, <1>2

(* A step belongs to a handler, and goes on, ends it or raises.             *)
LEMMA StepOfTask ==
    ASSUME NEW w \in Worker, NEW s, OrderStep(w, s) \/ SeatStep(w, s) \/ PaperStep(w, s)
    PROVE  (\E more : Then(w, s, more)) \/ Raise(w)
BY DEF OrderStep, SeatStep, PaperStep, Collect, ReadToConfirm, WriteStatus, RecordError,
       try_decrement_stock, restore_stock, CheckQuota, WriteSales, ReserveRow,
       ReserveTier, ReserveOccurrence, UndoRow, GiveBack, Clamp,
       release_tier_seats, release_event_seats, DeleteRows, Block, Unblock,
       FindTickets, IssueTicket, void_tickets_for_order

(* It stays about the same order, and the other handlers are not touched.   *)
LEMMA StepOwn ==
    ASSUME TypeOK, NEW w \in Worker, NEW s,
           OrderStep(w, s) \/ SeatStep(w, s) \/ PaperStep(w, s)
    PROVE  /\ \A v \in Worker : v # w => task'[v] = task[v]
           /\ InFlight(w)' => task'[w].order = task[w].order
<1>1. CASE \E more : Then(w, s, more)
  BY <1>1, ThenIs
<1>2. CASE Raise(w)
  BY <1>2, RaiseIs
<1> QED BY <1>1, <1>2, StepOfTask

(* Handlers that do not overlap go on not to, if no other one starts.       *)
LEMMA ApartKept ==
    ASSUME NEW K \in SUBSET Orders, Apart(K), NEW w \in Worker,
           \A v \in Worker : v # w => task'[v] = task[v],
           InFlight(w)' /\ task'[w].order \in K =>
              \A v \in Worker : v # w /\ InFlight(v) => task[v].order # task'[w].order
    PROVE  Apart(K)'
<1> SUFFICES ASSUME NEW u \in Worker, NEW v \in Worker, InFlight(u)', InFlight(v)',
                    task'[u].order = task'[v].order, task'[u].order \in K
             PROVE  u = v
  BY DEF Apart
<1>1. \A x \in Worker : x # w => (InFlight(x)' <=> InFlight(x)) /\ task'[x] = task[x]
  BY DEF InFlight
<1>2. CASE u # w /\ v # w
  BY <1>1, <1>2 DEF Apart
<1>3. CASE u = w /\ v # w
  BY <1>1, <1>3
<1>4. CASE u # w /\ v = w
  BY <1>1, <1>4
<1> QED BY <1>2, <1>3, <1>4

-----------------------------------------------------------------------------
(* Where a handler is.                                                      *)

(* Stages are numbers.                                                      *)
LEMMA StageTyped == \A do \in StepKind : Stage[do] \in Nat
BY StepKinds DEF Stage

(* Nothing a handler still has to do belongs to an earlier stage than the   *)
(* step it is at.                                                           *)
LEMMA NoneEarlier ==
    ASSUME TypeOK, NEW w \in Worker, NEW do, NEW s, Current(w, s, do)
    PROVE  \A t \in task[w].todo : Stage[do] <= Stage[t.do]
<1> SUFFICES ASSUME NEW t \in task[w].todo PROVE Stage[do] <= Stage[t.do]
  OBVIOUS
<1>1. task[w].todo \in SUBSET Step /\ s \in task[w].todo /\ s.do = do
      /\ NotAfter(s, t)
  BY DEF TypeOK, Task, Current
<1>2. s.do \in StepKind /\ t.do \in StepKind
  BY <1>1 DEF Step
<1>3. PICK a \in Nat, b \in Nat : a = Stage[s.do] /\ b = Stage[t.do]
  BY <1>2, StageTyped
<1>4. a < b \/ a = b
  BY <1>1, <1>3 DEF NotAfter
<1> QED BY <1>1, <1>3, <1>4

(* What holds of the handler that takes a step.                             *)
LEMMA Here ==
    ASSUME NEW K \in SUBSET Orders, Calm(K),
           NEW w \in Worker, NEW do, NEW s, Current(w, s, do),
           NEW o \in K, o = task[w].order
    PROVE  /\ TypeOK /\ o \in Orders /\ InFlight(w) /\ Plain(w) /\ SeatTask(w)
           /\ Phase(task[w].op, task[w].todo, o)
           /\ \A v \in Worker : v # w /\ InFlight(v) => task[v].order # o
           /\ task[w].op \in Operation /\ task[w] \in Task
           /\ s \in task[w].todo /\ s \in Step /\ s.do = do
           /\ do \in Kinds[task[w].op]
           /\ \A t \in task[w].todo : Stage[do] <= Stage[t.do]
<1>1. TypeOK /\ Tasks /\ Apart(K) /\ Together(K)
  BY DEF Calm, IInv
<1>2. /\ task[w] \in Task /\ o \in Orders /\ task[w].op \in Operation
      /\ s \in task[w].todo /\ s \in Step /\ s.do = do
  BY <1>1, CurrentGood
<1>3. InFlight(w)
  BY <1>2 DEF InFlight
<1>4. Plain(w) /\ SeatTask(w) /\ Phase(task[w].op, task[w].todo, o)
  BY <1>1, <1>2, <1>3 DEF Together, Papers
<1>5. \A v \in Worker : v # w /\ InFlight(v) => task[v].order # o
  BY <1>1, <1>3 DEF Apart
<1>6. do \in Kinds[task[w].op]
  BY <1>2, <1>4 DEF Plain, PlainStep
<1> QED BY <1>1, <1>2, <1>3, <1>4, <1>5, <1>6, NoneEarlier

(* The phase a step belongs to.                                             *)
LEMMA WhichPhase ==
    ASSUME NEW K \in SUBSET Orders, Calm(K),
           NEW w \in Worker, NEW do, NEW s, Current(w, s, do),
           NEW o \in K, o = task[w].order, NEW T, T = task[w].todo
    PROVE  /\ do \in {"collect", "confirm"} => task[w].op = "webhook" /\ Waiting(T, o)
           /\ do = "record_error" => task[w].op = "webhook" /\ Recording(T, o)
           /\ do \in {"stock", "sales"} =>
                 task[w].op \in Confirmation /\ Opening(T, o)
           /\ do = "quota" => \/ task[w].op \in Confirmation /\ Opening(T, o)
                              \/ task[w].op = "cancel" /\ Closing(T, o)
           /\ do \in {"restore", "storno"} => task[w].op = "cancel" /\ Closing(T, o)
           /\ do \in {"reserve", "tier", "occurrence", "undo", "block",
                     "find_tickets", "ticket"} =>
                 task[w].op \in Confirmation /\ Selling(T, o)
           /\ do \in {"give", "clamp"} =>
                 \/ task[w].op \in Confirmation /\ Selling(T, o)
                 \/ task[w].op = "cancel" /\ Undoing(T, o)
           /\ do \in {"unblock", "void", "release_tiers", "release", "delete_rows"} =>
                 task[w].op = "cancel" /\ Undoing(T, o)
<1>1. /\ Phase(task[w].op, T, o) /\ s \in T /\ s.do = do /\ do \in Kinds[task[w].op]
      /\ \A t \in T : Stage[do] <= Stage[t.do]
  BY Here
<1>2. CASE task[w].op = "webhook" /\ Waiting(T, o)
  <2>1. do \in {"collect", "confirm"}
    BY <1>1, <1>2 DEF Waiting, Do
  <2> QED BY <1>2, <2>1
<1>8. CASE task[w].op = "webhook" /\ Recording(T, o)
  <2>1. do = "record_error"
    BY <1>1, <1>8 DEF Recording, Do
  <2> QED BY <1>8, <2>1
<1>3. CASE task[w].op = "complete" /\ Finishing(T, o)
  <2>1. do = "status"
    BY <1>1, <1>3 DEF Finishing, Do
  <2> QED BY <2>1
<1>4. CASE task[w].op \in Confirmation /\ Opening(T, o)
  <2>1. Do("sales", 0) \in T /\ T \subseteq Confirming(o)
    BY <1>4 DEF Opening
  <2>2. Stage[do] <= 5
    BY <1>1, <2>1 DEF Do, Stage
  <2>3. do \in {"status", "stock", "quota", "sales", "reserve", "block", "find_tickets"}
    BY <1>1, <2>1 DEF Confirming, Do
  <2>4. do \in {"status", "stock", "quota", "sales"}
    BY <2>2, <2>3 DEF Stage
  <2> QED BY <1>4, <2>4
<1>5. CASE task[w].op \in Confirmation /\ Selling(T, o)
  <2>1. do \notin {"collect", "confirm", "status", "stock", "quota", "sales",
                     "record_error"}
    BY <1>1, <1>5 DEF Selling
  <2>2. do \in {"clamp", "reserve", "tier", "occurrence", "give", "undo", "block",
                "find_tickets", "ticket"}
    BY <1>1, <1>5, <2>1 DEF Kinds, Confirmation
  <2> QED BY <1>5, <2>2
<1>6. CASE task[w].op = "cancel" /\ Closing(T, o)
  <2>1. Do("storno", 0) \in T /\ do \notin {"give", "clamp", "delete_rows"}
    BY <1>1, <1>6 DEF Closing
  <2>2. Stage[do] <= 5
    BY <1>1, <2>1 DEF Do, Stage
  <2>3. do \in {"status", "restore", "quota", "storno", "clamp", "give", "unblock",
                "void", "release_tiers", "release", "delete_rows"}
    BY <1>1, <1>6 DEF Kinds
  <2>4. do \in {"status", "restore", "quota", "storno"}
    BY <2>1, <2>2, <2>3 DEF Stage
  <2> QED BY <1>6, <2>4
<1>7. CASE task[w].op = "cancel" /\ Undoing(T, o)
  <2>1. do \notin {"restore", "quota", "storno"}
    BY <1>1, <1>7 DEF Undoing
  <2>2. do \in {"status", "clamp", "give", "unblock", "void", "release_tiers",
                "release", "delete_rows"}
    BY <1>1, <1>7, <2>1 DEF Kinds
  <2> QED BY <1>7, <2>2
<1> QED BY <1>1, <1>2, <1>3, <1>4, <1>5, <1>6, <1>7, <1>8 DEF Phase

-----------------------------------------------------------------------------
(* What a step leaves as it was.                                            *)

(* The papers of order x stay as they are; the cleanup job may expire it.   *)
SamePapers(x) ==
    /\ \/ orders'[x].status = orders[x].status
       \/ /\ orders[x].status \in {"draft", "expired"}
          /\ orders'[x].status \in {"draft", "expired"}
    /\ sales'[x] = sales[x]
    /\ tickets'[x] = tickets[x]
    /\ \A i \in EventLines(x) :
          <<x, items[x][i].occurrence>> \in blocked'
             <=> <<x, items[x][i].occurrence>> \in blocked

SameOrder(x) == SamePapers(x) /\ RowsOf(x)' = RowsOf(x)

RowsUsedGrow == rows_used \in Nat /\ rows_used' \in Nat /\ rows_used <= rows_used'

(* Beyond the plan once, beyond the plan for good.                          *)
LEMMA OverStays ==
    ASSUME NEW x \in Orders, RowsUsedGrow, OverQuota(x)
    PROVE  OverQuota(x)'
<1>1. Len(items[x]) \in Nat /\ Quota \in Nat
  BY LifecycleAssumption
<1> QED BY <1>1 DEF OverQuota, RowsUsedGrow

(* An order whose papers and rows stay keeps what is said of it.            *)
LEMMA KeepsRest ==
    ASSUME NEW x \in Orders, SameOrder(x), RowsUsedGrow
    PROVE  /\ Pristine(x) => Pristine(x)'
           /\ Full(x) => Full(x)'
           /\ Bare(x) => Bare(x)'
           /\ Rest(x) => Rest(x)'
<1>1. Pristine(x) => Pristine(x)'
  BY DEF SameOrder, SamePapers, Pristine
<1>2. Full(x) => Full(x)'
  BY DEF SameOrder, SamePapers, Full
<1>3. Bare(x) => Bare(x)'
  BY DEF SameOrder, SamePapers, Bare
<1>4. Rest(x) => Rest(x)'
  BY <1>1, <1>2, <1>3, OverStays DEF SameOrder, SamePapers, Rest
<1> QED BY <1>1, <1>2, <1>3, <1>4

(* So does the phase of a handler that waits.                               *)
LEMMA KeepsPhase ==
    ASSUME NEW x \in Orders, SameOrder(x), RowsUsedGrow, NEW op, NEW T, Phase(op, T, x)
    PROVE  Phase(op, T, x)'
<1>1. Waiting(T, x) => Waiting(T, x)'
  BY KeepsRest DEF Waiting
<1>9. Recording(T, x) => Recording(T, x)'
  BY KeepsRest DEF Recording
<1>2. Finishing(T, x) => Finishing(T, x)'
  BY KeepsRest DEF Finishing, SameOrder, SamePapers
<1>3. Opening(T, x) => Opening(T, x)'
  BY KeepsRest DEF Opening, SameOrder, SamePapers
<1>4. \A i \in Lines(x) : Issuing(T, x, i) => Issuing(T, x, i)'
  BY DEF Issuing, SameOrder, SamePapers
<1>5. \A i \in FirstOfDate(x) : Blocking(T, x, i) => Blocking(T, x, i)'
  BY DEF Blocking, SameOrder, SamePapers, FirstOfDate
<1>6. Selling(T, x) => Selling(T, x)'
  BY <1>4, <1>5 DEF Selling, SameOrder, SamePapers
<1>7. Closing(T, x) => Closing(T, x)'
  BY KeepsRest, OverStays DEF Closing, SameOrder, SamePapers
<1>8. Undoing(T, x) => Undoing(T, x)'
  BY DEF Undoing, SameOrder, SamePapers
<1> QED BY <1>1, <1>2, <1>3, <1>6, <1>7, <1>8, <1>9 DEF Phase

(* What is said of the seats of a handler that waits depends on the rows of *)
(* its own order.                                                           *)
LEMMA KeepsSeatTask ==
    ASSUME NEW v \in Worker, task'[v] = task[v], RowsOf(task[v].order)' = RowsOf(task[v].order),
           SeatTask(v)
    PROVE  SeatTask(v)'
<1>1. \A i : NewRow(v, i)' = NewRow(v, i) /\ NewRow(v, i).order = task[v].order
  BY DEF NewRow
<1>2. \A i : NewRow(v, i) \in rows => NewRow(v, i) \in rows'
  BY <1>1 DEF RowsOf
<1>3. Taking(v) => Taking(v)'
  BY <1>1, <1>2 DEF Taking
<1>4. Releasing(task[v].todo, task[v].order) => Releasing(task[v].todo, task[v].order)'
  BY DEF Releasing
<1> QED BY <1>3, <1>4 DEF SeatTask

(* A step of a handler on its order o leaves the rest as it was.            *)
LEMMA TogetherKept ==
    ASSUME NEW K \in SUBSET Orders, Calm(K),
           NEW w \in Worker, NEW o \in K,
           \A v \in Worker : v # w => task'[v] = task[v],
           \A v \in Worker : v # w /\ InFlight(v) => task[v].order # o,
           InFlight(w) => task[w].order = o,
           InFlight(w)' => task'[w].order = o,
           \A x \in Orders : x # o => SameOrder(x),
           RowsUsedGrow,
           InFlight(w)' => /\ Plain(w)' /\ SeatTask(w)'
                           /\ Phase(task[w].op, task[w].todo, o)',
           ~ InFlight(w)' => Rest(o)',
           IsFiniteSet(rows)', Tally(K)'
    PROVE  Together(K)'
<1>1. Together(K) /\ TypeOK /\ Tasks
  BY DEF Calm, IInv
<1>2. ASSUME NEW v \in Worker, v # w, InFlight(v)'
      PROVE  /\ InFlight(v) /\ task'[v] = task[v]
             /\ task[v].order \in Orders /\ task[v].order # o
  BY <1>1, <1>2 DEF InFlight, Tasks, GoodTask
<1>3. ASSUME NEW v \in Worker, InFlight(v)', task'[v].order \in K
      PROVE  Plain(v)' /\ SeatTask(v)'
  <2>1. CASE v = w
    BY <1>3, <2>1
  <2>2. CASE v # w
    <3>1. /\ InFlight(v) /\ task'[v] = task[v] /\ task[v].order \in K
          /\ RowsOf(task[v].order)' = RowsOf(task[v].order)
      BY <1>2, <1>3, <2>2 DEF SameOrder
    <3>2. Plain(v) /\ SeatTask(v)
      BY <1>1, <3>1 DEF Together
    <3>3. Plain(v)'
      BY <3>1, <3>2 DEF Plain
    <3> QED BY <3>1, <3>2, <3>3, KeepsSeatTask
  <2> QED BY <2>1, <2>2
<1>4. ASSUME NEW x \in K
      PROVE  /\ AtRest(x)' => Rest(x)'
             /\ \A v \in Worker : InFlight(v)' /\ task'[v].order = x =>
                                     Phase(task[v].op, task[v].todo, x)'
  <2>1. CASE x = o
    <3>1. AtRest(o)' => Rest(o)'
      BY DEF AtRest
    <3>2. ASSUME NEW v \in Worker, InFlight(v)', task'[v].order = o
          PROVE  Phase(task[v].op, task[v].todo, o)'
      <4>1. v = w
        BY <1>2, <3>2
      <4> QED BY <3>2, <4>1
    <3> QED BY <2>1, <3>1, <3>2
  <2>2. CASE x # o
    <3>1. SameOrder(x)
      BY <2>2
    <3>2. AtRest(x)' => AtRest(x)
      BY <2>2 DEF AtRest, InFlight
    <3>3. AtRest(x) => Rest(x)
      BY <1>1 DEF Together, Papers
    <3>4. ASSUME NEW v \in Worker, InFlight(v)', task'[v].order = x
          PROVE  Phase(task[v].op, task[v].todo, x)'
      <4>1. v # w
        BY <2>2, <3>4
      <4>2. InFlight(v) /\ task'[v] = task[v] /\ task[v].order = x
        BY <1>2, <3>4, <4>1
      <4>3. Phase(task[v].op, task[v].todo, x)
        BY <1>1, <4>2 DEF Together, Papers
      <4>4. PICK op, T : op = task[v].op /\ T = task[v].todo
        OBVIOUS
      <4>5. Phase(op, T, x)'
        BY <3>1, <4>3, <4>4, KeepsPhase
      <4>6. op = task'[v].op /\ T = task'[v].todo
        BY <4>2, <4>4
      <4> QED BY <4>5, <4>6
    <3> QED BY <3>1, <3>2, <3>3, <3>4, KeepsRest
  <2> QED BY <2>1, <2>2
<1>5. Papers(K)'
  BY <1>4 DEF Papers
<1> QED BY <1>3, <1>5 DEF Together

(* So does a step on another order, or of no handler.                       *)
LEMMA TogetherBeside ==
    ASSUME NEW K \in SUBSET Orders, Together(K), TypeOK, TypeOK',
           \A v \in Worker : \/ InFlight(v) /\ task[v].order \in K
                             \/ InFlight(v)' /\ task'[v].order \in K
                             => task'[v] = task[v],
           \A x \in K : SameOrder(x), RowsUsedGrow, IsFiniteSet(rows)',
           \A x \in PlacesOf(K) : reserved_seats'[x] = reserved_seats[x]
    PROVE  Together(K)'
<1>1. ASSUME NEW v \in Worker, InFlight(v)', task'[v].order \in K
      PROVE  /\ InFlight(v) /\ task'[v] = task[v] /\ task[v].order \in K
             /\ Plain(v)' /\ SeatTask(v)'
  <2>1. /\ InFlight(v) /\ task'[v] = task[v] /\ task[v].order \in K
        /\ RowsOf(task[v].order)' = RowsOf(task[v].order)
    BY <1>1 DEF InFlight, SameOrder
  <2>2. Plain(v) /\ SeatTask(v)
    BY <2>1 DEF Together
  <2>3. Plain(v)'
    BY <2>1, <2>2 DEF Plain
  <2> QED BY <2>1, <2>2, <2>3, KeepsSeatTask
<1>2. ASSUME NEW v \in Worker, InFlight(v), task[v].order \in K
      PROVE  InFlight(v)' /\ task'[v] = task[v]
  BY <1>2 DEF InFlight
<1>3. ASSUME NEW x \in K
      PROVE  /\ AtRest(x)' => Rest(x)'
             /\ \A v \in Worker : InFlight(v)' /\ task'[v].order = x =>
                                     Phase(task[v].op, task[v].todo, x)'
  <2>1. AtRest(x)' => AtRest(x)
    BY <1>2 DEF AtRest
  <2>2. AtRest(x) => Rest(x)
    BY DEF Together, Papers
  <2>3. ASSUME NEW v \in Worker, InFlight(v)', task'[v].order = x
        PROVE  Phase(task[v].op, task[v].todo, x)'
    <3>1. PICK op, T : op = task[v].op /\ T = task[v].todo
      OBVIOUS
    <3>2. InFlight(v) /\ task[v].order = x /\ task'[v] = task[v]
      BY <1>1, <2>3
    <3>3. Phase(op, T, x)
      BY <3>1, <3>2 DEF Together, Papers
    <3>4. Phase(op, T, x)'
      BY <3>3, KeepsPhase
    <3> QED BY <3>1, <3>2, <3>4
  <2> QED BY <2>1, <2>2, <2>3, KeepsRest
<1>4. Papers(K)'
  BY <1>3 DEF Papers
<1>5. ASSUME NEW r, r.order \in K, NEW x
      PROVE  Uncounted(r, x)' <=> Uncounted(r, x)
  <2>1. ASSUME NEW v \in Worker, task'[v] = task[v]
        PROVE  Missing(v, r, x)' <=> Missing(v, r, x)
    BY <2>1 DEF Missing, NewRow
  <2>2. ASSUME NEW v \in Worker
        PROVE  InFlight(v)' /\ task'[v].order = r.order
               <=> InFlight(v) /\ task[v].order = r.order
    BY <1>1, <1>2, <1>5
  <2>3. ASSUME NEW v \in Worker, InFlight(v), task[v].order = r.order
        PROVE  Missing(v, r, x)' <=> Missing(v, r, x)
    BY <1>2, <1>5, <2>1, <2>3
  <2> QED BY <2>2, <2>3 DEF Uncounted
<1>6. ASSUME NEW x \in PlacesOf(K)
      PROVE  Counted(x)' = Counted(x)
  <2>1. \A r \in rows \cup rows' : x \in {r.occurrence, r.tier} => r.order \in K
    <3>1. rows \subseteq Row /\ rows' \subseteq Row
      BY DEF TypeOK
    <3>2. x # None /\ Guests(x) \subseteq K
      BY LifecycleAssumption DEF PlacesOf
    <3> QED BY <3>1, <3>2 DEF Row
  <2>2. \A r : r.order \in K => (r \in rows' <=> r \in rows)
    BY DEF SameOrder, RowsOf
  <2>3. At(x)' = At(x)
    BY <2>1, <2>2 DEF At
  <2>4. \A r \in At(x) : Uncounted(r, x)' <=> Uncounted(r, x)
    BY <1>5, <2>1 DEF At
  <2> QED BY <2>3, <2>4 DEF Counted
<1>7. Tally(K)'
  BY <1>6 DEF Together, Tally, PlacesOf
<1> QED BY <1>1, <1>4, <1>7 DEF Together

-----------------------------------------------------------------------------
(* Sums over finite sets.  SumFunction is a fold that takes one element     *)
(* after another, in an order left open.  What is said here needs no order: *)
(* any element may be taken out of the sum (PaymentPlanProofs has the same   *)
(* lemmas, for the amounts of rows).                                        *)

(* The sums of f over the subsets of D.                                     *)
Additive(g, f, D) ==
    /\ g \in [SUBSET D -> Int]
    /\ g[{}] = 0
    /\ \A s \in SUBSET D : \A x \in s : g[s] = f[x] + g[s \ {x}]

(* The fold that SumFunction is.                                            *)
Fold(f) ==
    CHOOSE it : it = [s \in SUBSET DOMAIN f |->
        IF s = {} THEN 0
        ELSE f[CHOOSE x \in s : TRUE] + it[s \ {CHOOSE x \in s : TRUE}]]

(* A set of natural numbers has a least one.                                *)
LEMMA LeastNatural ==
    ASSUME NEW S \in SUBSET Nat, S # {}
    PROVE  \E x \in S : \A y \in S : x <= y
<1>1. PICK x \in S : \A y \in S : ~ (<<y, x>> \in OpToRel(<, Nat))
  <2> DEFINE less == OpToRel(<, Nat)
  <2>1. IsWellFoundedOn(less, Nat)
    BY NatLessThanWellFounded
  <2> HIDE DEF less
  <2> QED BY <2>1, WFMin DEF less
<1>2. \A y \in S : ~ (y < x)
  BY <1>1 DEF OpToRel
<1> QED BY <1>2

(* A set of finite sets has a smallest one: without an element more than    *)
(* any of them, it is not in the set.                                       *)
LEMMA SmallestSet ==
    ASSUME NEW C, C # {}, \A s \in C : IsFiniteSet(s)
    PROVE  \E s \in C : \A x \in s : s \ {x} \notin C
<1> DEFINE sizes == {Cardinality(s) : s \in C}
<1>1. sizes \in SUBSET Nat /\ sizes # {}
  BY FS_CardinalityType
<1>2. PICK n \in sizes : \A m \in sizes : n <= m
  BY <1>1, LeastNatural
<1>3. PICK s \in C : Cardinality(s) = n
  BY <1>2
<1>4. ASSUME NEW x \in s, s \ {x} \in C
      PROVE  FALSE
  <2>1. Cardinality(s \ {x}) = n - 1 /\ n \in Nat
    BY <1>1, <1>3, FS_RemoveElement
  <2>2. n <= n - 1
    BY <1>2, <1>4, <2>1
  <2> QED BY <2>1, <2>2
<1> QED BY <1>4

(* There are sums over the subsets of a finite set.                         *)
LEMMA AdditiveExists ==
    ASSUME NEW D, IsFiniteSet(D), NEW f \in [D -> Int]
    PROVE  \E g : Additive(g, f, D)
<1> DEFINE C == {T \in SUBSET D : ~ \E g : Additive(g, f, T)}
<1>1. SUFFICES ASSUME C # {} PROVE FALSE
  OBVIOUS
<1>2. PICK T \in C : \A x \in T : T \ {x} \notin C
  <2>1. \A s \in C : IsFiniteSet(s)
    BY FS_Subset
  <2> HIDE DEF C
  <2> QED BY <1>1, <2>1, SmallestSet
<1>3. T # {}
  <2>1. Additive([s \in SUBSET {} |-> 0], f, {})
    BY DEF Additive
  <2> QED BY <2>1
<1>4. PICK x \in T : TRUE
  BY <1>3
<1>5. PICK g : Additive(g, f, T \ {x})
  BY <1>2
<1> DEFINE h == [s \in SUBSET T |-> IF x \in s THEN f[x] + g[s \ {x}] ELSE g[s]]
<1>6. f[x] \in Int
  OBVIOUS
<1>7. \A s \in SUBSET T : s \ {x} \in SUBSET (T \ {x}) /\ (x \notin s => s \in SUBSET (T \ {x}))
  OBVIOUS
<1>8. h \in [SUBSET T -> Int] /\ h[{}] = 0
  BY <1>5, <1>6, <1>7 DEF Additive
<1>9. ASSUME NEW s \in SUBSET T, NEW y \in s
      PROVE  h[s] = f[y] + h[s \ {y}]
  <2>1. f[y] \in Int
    OBVIOUS
  <2>2. CASE x \notin s
    BY <1>5, <1>7, <2>2 DEF Additive
  <2>3. CASE x \in s /\ y = x
    BY <2>3
  <2>4. CASE x \in s /\ y # x
    <3>1. h[s] = f[x] + g[s \ {x}]
      BY <2>4
    <3>2. h[s \ {y}] = f[x] + g[(s \ {y}) \ {x}]
      BY <2>4
    <3>3. (s \ {y}) \ {x} = (s \ {x}) \ {y} /\ y \in s \ {x}
      BY <2>4
    <3>4. g[s \ {x}] = f[y] + g[(s \ {x}) \ {y}]
      BY <1>5, <1>7, <3>3 DEF Additive
    <3>5. PICK a \in Int : a = g[(s \ {x}) \ {y}]
      BY <1>5, <1>7 DEF Additive
    <3>6. h[s] = f[x] + (f[y] + a)
      BY <3>1, <3>4, <3>5
    <3>7. h[s \ {y}] = f[x] + a
      BY <3>2, <3>3, <3>5
    <3>8. f[x] + (f[y] + a) = f[y] + (f[x] + a)
      BY <1>6, <2>1
    <3> HIDE DEF h
    <3> QED BY <3>6, <3>7, <3>8
  <2> QED BY <2>2, <2>3, <2>4
<1>10. Additive(h, f, T)
  BY <1>8, <1>9 DEF Additive
<1> QED BY <1>2, <1>10

(* Only those.                                                              *)
LEMMA AdditiveUnique ==
    ASSUME NEW D, IsFiniteSet(D), NEW f, NEW g, NEW h,
           Additive(g, f, D), Additive(h, f, D)
    PROVE  \A s \in SUBSET D : g[s] = h[s]
<1> DEFINE C == {s \in SUBSET D : g[s] # h[s]}
<1> SUFFICES ASSUME C # {} PROVE FALSE
  OBVIOUS
<1>1. PICK s \in C : \A x \in s : s \ {x} \notin C
  <2>1. \A s \in C : IsFiniteSet(s)
    BY FS_Subset
  <2> HIDE DEF C
  <2> QED BY <2>1, SmallestSet
<1>2. PICK x \in s : TRUE
  BY <1>1 DEF Additive
<1>3. g[s \ {x}] = h[s \ {x}]
  BY <1>1, <1>2
<1> QED BY <1>1, <1>2, <1>3 DEF Additive

(* The fold is one of them.                                                 *)
LEMMA SumAdditive ==
    ASSUME NEW D, IsFiniteSet(D), NEW f \in [D -> Int]
    PROVE  \E g : Additive(g, f, D) /\ SumFunction(f) = g[D]
<1>1. PICK g : Additive(g, f, D)
  BY AdditiveExists
<1>2. DOMAIN f = D
  OBVIOUS
<1>3. SumFunction(f) = Fold(f)[D]
  BY <1>2 DEF SumFunction, SumFunctionOnSet, FoldFunctionOnSet, MapThenFoldSet, Fold
<1> DEFINE Is(it) == it = [s \in SUBSET D |->
                IF s = {} THEN 0
                ELSE f[CHOOSE x \in s : TRUE] + it[s \ {CHOOSE x \in s : TRUE}]]
<1>4. Is(g)
  <2>1. \A s \in SUBSET D : s # {} => (CHOOSE x \in s : TRUE) \in s
    OBVIOUS
  <2>2. \A s \in SUBSET D : g[s] =
                IF s = {} THEN 0
                ELSE f[CHOOSE x \in s : TRUE] + g[s \ {CHOOSE x \in s : TRUE}]
    BY <1>1, <2>1 DEF Additive
  <2>3. g = [s \in SUBSET D |-> g[s]]
    BY <1>1 DEF Additive
  <2> QED BY <2>2, <2>3
<1>5. Fold(f) = CHOOSE it : Is(it)
  BY <1>2 DEF Fold
<1>6. Is(Fold(f))
  <2> HIDE DEF Is
  <2> QED BY <1>4, <1>5
<1>7. PICK h : h = Fold(f)
  OBVIOUS
<1>8. \A s \in SUBSET D : h[s] = IF s = {} THEN 0
                ELSE f[CHOOSE x \in s : TRUE] + h[s \ {CHOOSE x \in s : TRUE}]
  BY <1>6, <1>7
<1> HIDE DEF Is
<1>9. h[D] = g[D]
  <2> DEFINE C == {s \in SUBSET D : h[s] # g[s]}
  <2> SUFFICES ASSUME C # {} PROVE FALSE
    OBVIOUS
  <2>1. PICK s \in C : \A x \in s : s \ {x} \notin C
    <3>1. \A s \in C : IsFiniteSet(s)
      BY FS_Subset
    <3> HIDE DEF C
    <3> QED BY <3>1, SmallestSet
  <2>2. s # {}
    BY <1>1, <1>8, <2>1 DEF Additive
  <2>3. PICK x \in s : x = CHOOSE y \in s : TRUE
    BY <2>2
  <2>4. h[s] = f[x] + h[s \ {x}]
    BY <1>8, <2>2, <2>3
  <2>5. g[s] = f[x] + g[s \ {x}]
    BY <1>1 DEF Additive
  <2>6. h[s \ {x}] = g[s \ {x}]
    BY <2>1
  <2> QED BY <2>1, <2>4, <2>5, <2>6
<1> QED BY <1>1, <1>3, <1>7, <1>9

(* The sum of nothing.                                                      *)
LEMMA SumOfNone ==
    ASSUME NEW f \in [{} -> Int]
    PROVE  SumFunction(f) = 0
BY SumAdditive, FS_EmptySet DEF Additive

(* An element may be taken out of a sum.                                    *)
LEMMA SumWithout ==
    ASSUME NEW D, IsFiniteSet(D), NEW f \in [D -> Int], NEW x \in D
    PROVE  /\ SumFunction(f) \in Int
           /\ SumFunction([y \in D \ {x} |-> f[y]]) \in Int
           /\ SumFunction(f) = f[x] + SumFunction([y \in D \ {x} |-> f[y]])
<1> DEFINE E == D \ {x}
           e == [y \in E |-> f[y]]
<1>1. IsFiniteSet(E) /\ e \in [E -> Int]
  BY FS_RemoveElement
<1>2. PICK g : Additive(g, f, D) /\ SumFunction(f) = g[D]
  BY SumAdditive
<1> HIDE DEF e
<1>3. PICK h : Additive(h, e, E) /\ SumFunction(e) = h[E]
  BY <1>1, SumAdditive
<1> DEFINE k == [s \in SUBSET E |-> g[s]]
<1>4. Additive(k, e, E)
  <2>1. k \in [SUBSET E -> Int] /\ k[{}] = 0
    BY <1>2 DEF Additive
  <2>2. ASSUME NEW s \in SUBSET E, NEW y \in s
        PROVE  k[s] = e[y] + k[s \ {y}]
    <3>1. s \in SUBSET D /\ s \ {y} \in SUBSET E /\ e[y] = f[y]
      BY DEF e
    <3> QED BY <1>2, <3>1 DEF Additive
  <2> QED BY <2>1, <2>2 DEF Additive
<1>5. h[E] = k[E]
  BY <1>1, <1>3, <1>4, AdditiveUnique
<1>6. g[D] = f[x] + g[E] /\ k[E] = g[E] /\ g[D] \in Int /\ g[E] \in Int
  BY <1>2 DEF Additive
<1> QED BY <1>2, <1>3, <1>5, <1>6 DEF e

(* A sum of natural numbers is one.                                         *)
LEMMA SumOfNaturals ==
    ASSUME NEW D, IsFiniteSet(D), NEW f \in [D -> Nat]
    PROVE  SumFunction(f) \in Nat
<1>1. PICK g : Additive(g, f, D) /\ SumFunction(f) = g[D]
  BY SumAdditive
<1> DEFINE C == {s \in SUBSET D : g[s] \notin Nat}
<1>2. CASE C = {}
  BY <1>1, <1>2
<1>3. CASE C # {}
  <2>1. PICK s \in C : \A x \in s : s \ {x} \notin C
    <3>1. \A s \in C : IsFiniteSet(s)
      BY FS_Subset
    <3> HIDE DEF C
    <3> QED BY <1>3, <3>1, SmallestSet
  <2>2. PICK x \in s : TRUE
    <3>1. g[{}] \in Nat
      BY <1>1 DEF Additive
    <3> QED BY <2>1, <3>1
  <2>3. g[s] = f[x] + g[s \ {x}] /\ g[s \ {x}] \in Nat /\ f[x] \in Nat
    BY <1>1, <2>1, <2>2 DEF Additive
  <2> QED BY <2>1, <2>3
<1> QED BY <1>2, <1>3

-----------------------------------------------------------------------------
(* Sums of seats.                                                           *)

(* The seats of a set of rows are a sum.                                    *)
LEMMA SeatsAreSum ==
    ASSUME NEW S \in SUBSET Row, IsFiniteSet(S)
    PROVE  Seats(S) = SumFunction([r \in S |-> r.qty])
<1> DEFINE f == [r \in S |-> r.qty]
           F(it) == it = [s \in SUBSET S |-> IF s = {} THEN 0
                ELSE (CHOOSE x \in s : TRUE).qty + it[s \ {CHOOSE x \in s : TRUE}]]
           G(it) == it = [s \in SUBSET S |-> IF s = {} THEN 0
                ELSE f[CHOOSE x \in s : TRUE] + it[s \ {CHOOSE x \in s : TRUE}]]
<1>1. Seats(S) = (CHOOSE it : F(it))[S]
  BY Zenon DEF Seats, MapThenSumSet, MapThenFoldSet
<1>2. SumFunction(f) = (CHOOSE it : G(it))[S]
  <2>1. DOMAIN f = S
    OBVIOUS
  <2> HIDE DEF f
  <2>2. SumFunction(f) = Fold(f)[S]
    BY <2>1 DEF SumFunction, SumFunctionOnSet, FoldFunctionOnSet, MapThenFoldSet, Fold
  <2> QED BY <2>1, <2>2 DEF Fold
<1>3. \A it : F(it) <=> G(it)
  <2>1. ASSUME NEW it
        PROVE  [s \in SUBSET S |-> IF s = {} THEN 0
                ELSE (CHOOSE x \in s : TRUE).qty + it[s \ {CHOOSE x \in s : TRUE}]]
               = [s \in SUBSET S |-> IF s = {} THEN 0
                ELSE f[CHOOSE x \in s : TRUE] + it[s \ {CHOOSE x \in s : TRUE}]]
    <3>1. ASSUME NEW s \in SUBSET S, s # {}
          PROVE  f[CHOOSE x \in s : TRUE] = (CHOOSE x \in s : TRUE).qty
      <4>1. (CHOOSE x \in s : TRUE) \in S
        BY <3>1
      <4> QED BY <4>1
    <3> HIDE DEF f
    <3> QED BY <3>1
  <2> QED BY <2>1
<1>4. (CHOOSE it : F(it)) = (CHOOSE it : G(it))
  <2> HIDE DEF F, G
  <2> QED BY <1>3
<1> HIDE DEF F, G
<1> QED BY <1>1, <1>2, <1>4

(* A row more adds its seats.                                               *)
LEMMA SeatsWithRow ==
    ASSUME NEW S \in SUBSET Row, IsFiniteSet(S), NEW r \in S
    PROVE  Seats(S) = r.qty + Seats(S \ {r}) /\ Seats(S \ {r}) \in Nat
           /\ r.qty \in Nat /\ Seats(S) \in Nat
<1> DEFINE E == S \ {r}
           f == [y \in S |-> y.qty]
           e == [y \in E |-> y.qty]
<1>1. IsFiniteSet(E) /\ E \in SUBSET Row
  BY FS_RemoveElement
<1>2. f \in [S -> Nat] /\ e \in [E -> Nat] /\ f \in [S -> Int] /\ f[r] = r.qty
      /\ e = [y \in E |-> f[y]] /\ r.qty \in Nat
  BY DEF Row
<1>3. Seats(S) = SumFunction(f) /\ Seats(E) = SumFunction(e)
  BY <1>1, SeatsAreSum
<1> HIDE DEF f, e
<1>4. SumFunction(f) = f[r] + SumFunction([y \in S \ {r} |-> f[y]])
  BY <1>2, SumWithout
<1>5. SumFunction(e) \in Nat /\ SumFunction(f) \in Nat
  BY <1>1, <1>2, SumOfNaturals
<1> QED BY <1>2, <1>3, <1>4, <1>5

(* No row, no seat.                                                         *)
LEMMA SeatsTyped ==
    ASSUME NEW S \in SUBSET Row, IsFiniteSet(S)
    PROVE  Seats(S) \in Nat /\ (S = {} => Seats(S) = 0)
<1> DEFINE f == [y \in S |-> y.qty]
<1>1. f \in [S -> Nat] /\ Seats(S) = SumFunction(f)
  <2>1. f \in [S -> Nat]
    BY DEF Row
  <2> QED BY <2>1, SeatsAreSum
<1>2. S = {} => f \in [{} -> Int]
  OBVIOUS
<1> HIDE DEF f
<1> QED BY <1>1, <1>2, SumOfNaturals, SumOfNone

-----------------------------------------------------------------------------
(* Which rows are counted.                                                  *)

SeatKinds == {"reserve", "tier", "occurrence", "undo", "give", "release_tiers",
              "release", "delete_rows"}

(* A step of a handler on order o changes nothing for the rows of the other *)
(* orders, and for its own rows it is the only handler.                     *)
LEMMA UncountedMoves ==
    ASSUME NEW w \in Worker, NEW o,
           \A v \in Worker : v # w => task'[v] = task[v],
           \A v \in Worker : v # w /\ InFlight(v) => task[v].order # o,
           InFlight(w) => task[w].order = o,
           InFlight(w)' => task'[w].order = o
    PROVE  \A r, x :
              /\ r.order # o => (Uncounted(r, x)' <=> Uncounted(r, x))
              /\ r.order = o =>
                    /\ Uncounted(r, x) <=> InFlight(w) /\ Missing(w, r, x)
                    /\ Uncounted(r, x)' <=> InFlight(w)' /\ Missing(w, r, x)'
<1> SUFFICES ASSUME NEW r, NEW x
             PROVE  /\ r.order # o => (Uncounted(r, x)' <=> Uncounted(r, x))
                    /\ r.order = o =>
                       /\ Uncounted(r, x) <=> InFlight(w) /\ Missing(w, r, x)
                       /\ Uncounted(r, x)' <=> InFlight(w)' /\ Missing(w, r, x)'
  OBVIOUS
<1>1. ASSUME NEW v \in Worker, v # w
      PROVE  /\ InFlight(v)' <=> InFlight(v)
             /\ task'[v].order = task[v].order
             /\ Missing(v, r, x)' <=> Missing(v, r, x)
  BY <1>1 DEF InFlight, Missing, NewRow
<1>2. r.order # o => (Uncounted(r, x)' <=> Uncounted(r, x))
  BY <1>1 DEF Uncounted
<1>3. r.order = o => (Uncounted(r, x) <=> InFlight(w) /\ Missing(w, r, x))
  BY DEF Uncounted
<1>4. r.order = o => (Uncounted(r, x)' <=> InFlight(w)' /\ Missing(w, r, x)')
  BY <1>1 DEF Uncounted
<1> QED BY <1>2, <1>3, <1>4

(* The rows counted at a place, in terms of the rows of o and the others.   *)
LEMMA CountedMoves ==
    ASSUME NEW K \in SUBSET Orders, rows' = rows,
           \A r \in rows, x \in Place : x \in {r.occurrence, r.tier} =>
              (Uncounted(r, x)' <=> Uncounted(r, x)),
           \A x \in PlacesOf(K) : reserved_seats'[x] = reserved_seats[x], Tally(K)
    PROVE  Tally(K)'
<1>1. \A x \in Place : Counted(x)' = Counted(x)
  BY DEF Counted, At
<1> QED BY <1>1 DEF Tally, PlacesOf

(* A step that is not about seats leaves them as they were, and a           *)
(* cancellation that ends has left no row.                                  *)
LEMMA SeatsQuiet ==
    ASSUME NEW K \in SUBSET Orders, Calm(K),
           NEW w \in Worker, NEW do, NEW s, Current(w, s, do),
           NEW o \in K, o = task[w].order,
           do \notin SeatKinds, NEW more, Then(w, s, more),
           \A m \in more : m.do \notin SeatKinds \cup {"quota"},
           rows' = rows,
           \A x \in PlacesOf(K) : reserved_seats'[x] = reserved_seats[x]
    PROVE  /\ InFlight(w)' => SeatTask(w)'
           /\ IsFiniteSet(rows)'
           /\ Tally(K)'
           /\ ~ InFlight(w)' /\ task[w].op = "cancel" => RowsOf(o)' = {}
<1>1. o \in Orders
  BY Here
<1>2. PICK T, U : T = task[w].todo /\ U = (T \ {s}) \cup more
  OBVIOUS
<1>3. /\ TypeOK /\ InFlight(w) /\ SeatTask(w) /\ s \in T /\ s.do = do
      /\ \A v \in Worker : v # w /\ InFlight(v) => task[v].order # o
  BY <1>1, <1>2, Here
<1>4. /\ \A v \in Worker : v # w => task'[v] = task[v]
      /\ task'[w].todo = U
      /\ InFlight(w)' => /\ task'[w].op = task[w].op /\ task'[w].order = o
                         /\ task'[w].id = task[w].id
  BY <1>1, <1>2, <1>3, ThenIs
<1>5. \A t : t.do \in SeatKinds => (t \in U <=> t \in T)
  BY <1>2, <1>3
<1>6. \A t : t.do = "quota" /\ t \in U => t \in T
  BY <1>2
<1>7. \A i : /\ Do("tier", i).do \in SeatKinds /\ Do("occurrence", i).do \in SeatKinds
             /\ Do("undo", i).do \in SeatKinds /\ Do("release_tiers", i).do \in SeatKinds
             /\ Do("release", i).do \in SeatKinds
             /\ Do("delete_rows", i).do \in SeatKinds
             /\ Do("quota", i).do = "quota"
  BY DEF Do, SeatKinds
<1>8. \A x, r, i : Give(x, r, i).do \in SeatKinds
  BY DEF Give, SeatKinds
<1>9. InFlight(w)' => \A i : NewRow(w, i)' = NewRow(w, i)
  BY <1>1, <1>4 DEF NewRow
<1>10. InFlight(w)' /\ Taking(w) => Taking(w)'
  <2> SUFFICES ASSUME InFlight(w)', Taking(w) PROVE Taking(w)'
    OBVIOUS
  <2>1. \A t \in U : t.do \in Mid \cup {"reserve", "give", "quota"} => t \in T
    BY <1>5, <1>6 DEF Mid, SeatKinds
  <2>2. \A i : Do("undo", i) \in T => Do("undo", i) \in U
    BY <1>5, <1>7
  <2> QED BY <1>2, <1>4, <1>9, <2>1, <2>2 DEF Taking, Mid
<1>11. Releasing(T, o) => Releasing(U, o)'
  <2> SUFFICES ASSUME Releasing(T, o) PROVE Releasing(U, o)'
    OBVIOUS
  <2>1. \A t \in U : t.do = "give" => t \in T
    BY <1>5 DEF SeatKinds
  <2>2. /\ Do("release_tiers", 0) \in T <=> Do("release_tiers", 0) \in U
        /\ Do("release", 0) \in T <=> Do("release", 0) \in U
        /\ Do("delete_rows", 0) \in T <=> Do("delete_rows", 0) \in U
        /\ Do("quota", 0) \in U => Do("quota", 0) \in T
    BY <1>5, <1>6, <1>7
  <2>3. RowsOf(o)' = RowsOf(o)
    BY DEF RowsOf
  <2> QED BY <2>1, <2>2, <2>3 DEF Releasing
<1>12. InFlight(w)' => SeatTask(w)'
  BY <1>1, <1>2, <1>3, <1>4, <1>10, <1>11 DEF SeatTask
<1>13. ~ InFlight(w)' => U = {}
  BY <1>4 DEF InFlight
<1>14. U = {} /\ task[w].op = "cancel" => RowsOf(o) = {}
  <2> SUFFICES ASSUME U = {}, task[w].op = "cancel" PROVE RowsOf(o) = {}
    OBVIOUS
  <2>1. Releasing(U, o)'
    BY <1>1, <1>2, <1>3, <1>11 DEF SeatTask
  <2>2. RowsOf(o)' = {}
    BY <2>1 DEF Releasing
  <2> QED BY <2>2 DEF RowsOf
<1>15. ASSUME NEW r \in rows, NEW x \in Place, r.order = o
       PROVE  InFlight(w)' /\ Missing(w, r, x)' <=> Missing(w, r, x)
  <2>1. CASE InFlight(w)'
    <3>1. \A i : /\ Do("tier", i) \in T <=> Do("tier", i) \in U
                 /\ Do("occurrence", i) \in T <=> Do("occurrence", i) \in U
                 /\ Do("undo", i) \in T <=> Do("undo", i) \in U
                 /\ Do("release_tiers", i) \in T <=> Do("release_tiers", i) \in U
                 /\ Do("release", i) \in T <=> Do("release", i) \in U
                 /\ Give(x, r, i) \in T <=> Give(x, r, i) \in U
      BY <1>5, <1>7, <1>8
    <3> QED BY <1>2, <1>4, <1>9, <2>1, <3>1 DEF Missing
  <2>2. CASE ~ InFlight(w)'
    <3>1. task[w].op # "cancel"
      BY <1>13, <1>14, <1>15, <2>2 DEF RowsOf
    <3>2. \A i : Do("tier", i) \notin T /\ Do("occurrence", i) \notin T
                 /\ Do("undo", i) \notin T
      BY <1>5, <1>7, <1>13, <2>2
    <3> QED BY <1>2, <2>2, <3>1, <3>2 DEF Missing
  <2> QED BY <2>1, <2>2
<1>16. \A r \in rows, x \in Place : Uncounted(r, x)' <=> Uncounted(r, x)
  <2> SUFFICES ASSUME NEW r \in rows, NEW x \in Place
               PROVE  Uncounted(r, x)' <=> Uncounted(r, x)
    OBVIOUS
  <2>1. /\ r.order # o => (Uncounted(r, x)' <=> Uncounted(r, x))
        /\ r.order = o =>
              /\ Uncounted(r, x) <=> InFlight(w) /\ Missing(w, r, x)
              /\ Uncounted(r, x)' <=> InFlight(w)' /\ Missing(w, r, x)'
    BY <1>1, <1>3, <1>4, UncountedMoves
  <2> QED BY <1>3, <1>15, <2>1
<1>17. Tally(K)'
  BY <1>16, CountedMoves DEF Calm, Together
<1>18. RowsOf(o)' = RowsOf(o)
  BY DEF RowsOf
<1> QED BY <1>1, <1>12, <1>13, <1>14, <1>17, <1>18 DEF Calm, Together

(* A step after which, as before it, no row of the order is missing.        *)
LEMMA AllCounted ==
    ASSUME NEW K \in SUBSET Orders, Calm(K),
           NEW w \in Worker, NEW o \in K,
           \A v \in Worker : v # w => task'[v] = task[v],
           \A v \in Worker : v # w /\ InFlight(v) => task[v].order # o,
           InFlight(w) => task[w].order = o,
           InFlight(w)' => task'[w].order = o,
           rows' = rows,
           \A x \in PlacesOf(K) : reserved_seats'[x] = reserved_seats[x],
           \A r \in RowsOf(o), x \in Place : x \in {r.occurrence, r.tier} =>
              /\ ~ (InFlight(w) /\ Missing(w, r, x))
              /\ ~ (InFlight(w)' /\ Missing(w, r, x)')
    PROVE  Tally(K)'
<1> SUFFICES ASSUME NEW r \in rows, NEW x \in Place, x \in {r.occurrence, r.tier}
             PROVE  Uncounted(r, x)' <=> Uncounted(r, x)
  BY CountedMoves DEF Calm, Together
<1>1. /\ r.order # o => (Uncounted(r, x)' <=> Uncounted(r, x))
      /\ r.order = o =>
            /\ Uncounted(r, x) <=> InFlight(w) /\ Missing(w, r, x)
            /\ Uncounted(r, x)' <=> InFlight(w)' /\ Missing(w, r, x)'
  BY UncountedMoves
<1>2. r.order = o => r \in RowsOf(o)
  BY DEF RowsOf
<1> QED BY <1>1, <1>2

-----------------------------------------------------------------------------
(* Steps that are not about seats.                                          *)

(* Such a step keeps everything if it keeps the papers of the other orders  *)
(* and takes its own order to the next phase, or to rest.                   *)
LEMMA QuietKept ==
    ASSUME NEW K \in SUBSET Orders, Calm(K),
           NEW w \in Worker, NEW do, NEW s, Current(w, s, do),
           NEW o \in K, o = task[w].order,
           do \notin SeatKinds, NEW more, Then(w, s, more),
           \A m \in more : /\ m.do \notin SeatKinds \cup {"quota"}
                           /\ PlainStep(task[w].op, m),
           rows' = rows,
           \A x \in PlacesOf(K) : reserved_seats'[x] = reserved_seats[x],
           \A x \in Orders : x # o => SamePapers(x), RowsUsedGrow,
           NEW op, op = task[w].op,
           NEW U, U = (task[w].todo \ {s}) \cup more,
           U # {} => Phase(op, U, o)',
           U = {} /\ (op = "cancel" => RowsOf(o)' = {}) => Rest(o)'
    PROVE  Together(K)'
<1>1. /\ TypeOK /\ o \in Orders /\ Plain(w)
      /\ \A v \in Worker : v # w /\ InFlight(v) => task[v].order # o
  BY Here
<1>2. /\ \A v \in Worker : v # w => task'[v] = task[v]
      /\ task'[w].todo = U
      /\ InFlight(w)' => task'[w].op = op /\ task'[w].order = o
  BY <1>1, ThenIs
<1>3. InFlight(w)' <=> U # {}
  BY <1>2 DEF InFlight
<1>4. /\ InFlight(w)' => SeatTask(w)'
      /\ IsFiniteSet(rows)' /\ Tally(K)'
      /\ ~ InFlight(w)' /\ op = "cancel" => RowsOf(o)' = {}
  BY SeatsQuiet
<1>5. InFlight(w)' => Plain(w)'
  BY <1>1, <1>2 DEF Plain
<1>6. InFlight(w)' => Phase(task[w].op, task[w].todo, o)'
  BY <1>2, <1>3
<1>7. ~ InFlight(w)' => Rest(o)'
  BY <1>3, <1>4
<1>8. \A x \in Orders : x # o => SameOrder(x)
  BY DEF SameOrder, RowsOf
<1>9. InFlight(w) => task[w].order = o
  OBVIOUS
<1> QED BY <1>1, <1>2, <1>4, <1>5, <1>6, <1>7, <1>8, <1>9, TogetherKept, ZenonT(40)

(* Papers that no step touches.                                             *)
LEMMA SamePapersWhen ==
    ASSUME NEW x \in Orders,
           orders'[x].status = orders[x].status, sales'[x] = sales[x],
           tickets'[x] = tickets[x], blocked' = blocked
    PROVE  SamePapers(x)
BY DEF SamePapers

(* A confirmation that ends has blocked every date and issued every ticket. *)
LEMMA SellingEnds ==
    \A o \in Orders : TypeOK /\ Selling({}, o) => Full(o)
<1> SUFFICES ASSUME NEW o \in Orders, TypeOK, Selling({}, o)
             PROVE  Full(o)
  OBVIOUS
<1>1. sales[o].forward = 1 /\ sales[o].storno = 0
  BY DEF Selling
<1>2. ASSUME NEW i \in Lines(o)
      PROVE  tickets[o][i].valid = IF i \in EventLines(o) THEN items[o][i].quantity ELSE 0
  <2>1. Issuing({}, o, i)
    BY DEF Selling
  <2>2. tickets[o][i].valid \in Nat
    BY DEF TypeOK
  <2>3. CASE i \in EventLines(o)
    <3>1. items[o][i].quantity \in Nat
      BY <2>3, EventTyped
    <3>2. PICK a \in Nat, q \in Nat : a = tickets[o][i].valid /\ q = items[o][i].quantity
      BY <2>2, <3>1
    <3>3. a <= q /\ \A n \in a + 1 .. q : FALSE
      BY <2>1, <2>3, <3>2 DEF Issuing
    <3>4. a = q
      <4>1. a < q => q \in a + 1 .. q
        OBVIOUS
      <4> QED BY <3>3, <4>1
    <3> QED BY <2>3, <3>2, <3>4
  <2>4. CASE i \notin EventLines(o)
    BY <2>1, <2>4 DEF Issuing
  <2> QED BY <2>3, <2>4
<1>3. ASSUME NEW i \in EventLines(o)
      PROVE  <<o, items[o][i].occurrence>> \in blocked
  <2> DEFINE same == {j \in EventLines(o) : items[o][j].occurrence = items[o][i].occurrence}
  <2>1. same \in SUBSET Nat /\ same # {}
    BY EventTyped
  <2>2. PICK j \in same : \A k \in same : j <= k
    BY <2>1, LeastNatural
  <2>3. j \in FirstOfDate(o) /\ items[o][j].occurrence = items[o][i].occurrence
    BY <2>2 DEF FirstOfDate
  <2>4. Blocking({}, o, j)
    BY <2>3 DEF Selling
  <2> QED BY <2>3, <2>4 DEF Blocking
<1> QED BY <1>1, <1>2, <1>3 DEF Full

(* The same of the next state.                                              *)
LEMMA SellingEnded ==
    \A o \in Orders : TypeOK' /\ Selling({}, o)' => Full(o)'
<1>1. (\A o \in Orders : TypeOK /\ Selling({}, o) => Full(o))'
  BY SellingEnds, PTL
<1> QED BY <1>1

(* A confirmation goes on selling, or is done.                              *)
LEMMA SellingOn ==
    ASSUME NEW o \in Orders, TypeOK', NEW op \in Confirmation, NEW U, Selling(U, o)'
    PROVE  Phase(op, U, o)' /\ (U = {} => Rest(o)')
<1>1. U = {} => Full(o)'
  BY SellingEnded
<1>2. orders'[o].status = "confirmed"
  BY DEF Selling
<1> QED BY <1>1, <1>2 DEF Phase, Rest

(* A cancellation goes on undoing, or is done.                              *)
LEMMA UndoingOn ==
    ASSUME NEW o \in Orders, NEW U, Undoing(U, o)'
    PROVE  /\ Phase("cancel", U, o)'
           /\ U = {} /\ RowsOf(o)' = {} => Rest(o)'
<1>1. U = {} /\ RowsOf(o)' = {} => Bare(o)' /\ orders'[o].status = "cancelled"
  BY DEF Undoing, Bare
<1> QED BY <1>1 DEF Phase, Rest

(* A step that stands for itself.                                           *)
LEMMA SingleIs ==
    ASSUME NEW w \in Worker, Plain(w), NEW s \in task[w].todo, s.do \in Single
    PROVE  s = Do(s.do, 0)
BY DEF Plain, PlainStep, Single

(* Nothing counted against the plan, nothing more used.                     *)
LEMMA UsedSame ==
    ASSUME TypeOK, rows_used' = rows_used
    PROVE  RowsUsedGrow
BY DEF TypeOK, RowsUsedGrow

(* An order untouched has been bare.                                        *)
LEMMA PristineIsBare ==
    ASSUME NEW o, Pristine(o)
    PROVE  Bare(o)
BY DEF Pristine, Bare

(* What the sales, tickets, blocks and rows say does not depend on the      *)
(* status.                                                                  *)
LEMMA SameGoods ==
    ASSUME NEW o, sales'[o] = sales[o], tickets'[o] = tickets[o],
           blocked' = blocked, rows' = rows
    PROVE  /\ Pristine(o) => Pristine(o)'
           /\ Full(o) => Full(o)'
           /\ Bare(o) => Bare(o)'
BY DEF Pristine, Full, Bare, RowsOf

(* A confirmation that is not at its sales yet goes on.                     *)
LEMMA OpeningOn ==
    ASSUME NEW o \in Orders, NEW T, Opening(T, o), SameOrder(o), RowsUsedGrow,
           NEW s, s.do \in {"stock", "quota"}, NEW U, U = T \ {s}
    PROVE  Opening(U, o)' /\ U # {}
<1>1. \A do, i : do \notin {"stock", "quota"} => (Do(do, i) \in U <=> Do(do, i) \in T)
  BY DEF Do
<1>2. Pristine(o)'
  BY KeepsRest DEF Opening
<1>3. U \subseteq Confirming(o)
  BY DEF Opening
<1>4. /\ Do("sales", 0) \in U /\ Do("find_tickets", 0) \in U
      /\ \A i \in FirstOfDate(o) : Do("block", i) \in U
      /\ Do("status", 0) \in U <=> Do("status", 0) \in T
  BY <1>1 DEF Opening
<1> QED BY <1>2, <1>3, <1>4 DEF Opening, SameOrder, SamePapers

(* A cancellation that is not at its reversal yet goes on.                  *)
LEMMA ClosingOn ==
    ASSUME NEW o \in Orders, NEW T, Closing(T, o), SameOrder(o), RowsUsedGrow,
           NEW s, s.do = "restore" \/ (s.do = "quota" /\ ~ OverQuota(o)),
           NEW U, U = T \ {s}
    PROVE  Closing(U, o)' /\ U # {}
<1>1. \A do, i : do \notin {"restore", "quota"} => (Do(do, i) \in U <=> Do(do, i) \in T)
  BY DEF Do
<1>2. Full(o)' \/ (Pristine(o)' /\ OverQuota(o)' /\ Do("quota", 0) \in U)
  <2>1. CASE Full(o)
    BY <2>1, KeepsRest
  <2>2. CASE Pristine(o) /\ OverQuota(o) /\ Do("quota", 0) \in T
    <3>1. Do("quota", 0) \in U
      BY <2>2 DEF Do
    <3> QED BY <2>2, <3>1, KeepsRest, OverStays
  <2> QED BY <2>1, <2>2 DEF Closing
<1>3. /\ Do("storno", 0) \in U /\ Do("unblock", 0) \in U /\ Do("void", 0) \in U
      /\ Do("release_tiers", 0) \in U /\ Do("release", 0) \in U
      /\ Do("status", 0) \in U <=> Do("status", 0) \in T
      /\ \A t \in U : t.do \notin {"give", "clamp", "delete_rows"}
  BY <1>1 DEF Closing
<1> QED BY <1>2, <1>3 DEF Closing, SameOrder, SamePapers

(* A line whose tickets the step does not concern.                          *)
LEMMA IssuingOn ==
    ASSUME NEW o, NEW i, NEW T, Issuing(T, o, i), tickets'[o] = tickets[o],
           NEW s, s.do \notin {"find_tickets", "ticket"},
           NEW more, \A m \in more : m.do \notin {"find_tickets", "ticket"},
           NEW U, U = (T \ {s}) \cup more
    PROVE  Issuing(U, o, i)'
<1>1. \A t : t.do \in {"find_tickets", "ticket"} => (t \in U <=> t \in T)
  OBVIOUS
<1>2. \A n : TicketStep(i, n).do = "ticket" /\ Do("find_tickets", n).do = "find_tickets"
  BY DEF TicketStep, Do
<1>3. Do("find_tickets", 0) \in U <=> Do("find_tickets", 0) \in T
  BY <1>1, <1>2
<1>4. \A n : TicketStep(i, n) \in U <=> TicketStep(i, n) \in T
  BY <1>1, <1>2
<1>5. \A t \in U : t.do = "ticket" => t \in T
  BY <1>1
<1> QED BY <1>3, <1>4, <1>5 DEF Issuing

(* A confirmation whose step is neither about blocks nor about tickets.     *)
LEMMA SellingQuiet ==
    ASSUME NEW o \in Orders, NEW T, Selling(T, o), SamePapers(o),
           NEW s, s.do \notin {"block", "find_tickets", "ticket"},
           NEW more,
           \A m \in more : m.do \in {"tier", "occurrence", "undo", "give", "clamp"},
           NEW U, U = (T \ {s}) \cup more
    PROVE  Selling(U, o)'
<1>1. \A i \in Lines(o) : Issuing(U, o, i)'
  <2> SUFFICES ASSUME NEW i \in Lines(o) PROVE Issuing(U, o, i)'
    OBVIOUS
  <2>1. Issuing(T, o, i) /\ tickets'[o] = tickets[o]
    BY DEF Selling, SamePapers
  <2>2. \A m \in more : m.do \notin {"find_tickets", "ticket"}
    OBVIOUS
  <2>3. s.do \notin {"find_tickets", "ticket"}
    OBVIOUS
  <2> QED BY <2>1, <2>2, <2>3, IssuingOn
<1>2. \A i \in FirstOfDate(o) : Blocking(U, o, i)'
  <2> SUFFICES ASSUME NEW i \in FirstOfDate(o) PROVE Blocking(U, o, i)'
    OBVIOUS
  <2>1. Blocking(T, o, i) /\ i \in EventLines(o)
    BY DEF Selling, FirstOfDate
  <2>2. Do("block", i) \in T => Do("block", i) \in U
    BY DEF Do
  <2> QED BY <2>1, <2>2 DEF Blocking, SamePapers
<1>3. \A t \in U :
         t.do \notin {"collect", "confirm", "status", "stock", "quota", "sales",
                     "record_error"}
  BY DEF Selling
<1> QED BY <1>1, <1>2, <1>3 DEF Selling, SamePapers

(* A cancellation whose step is about seats.                                *)
LEMMA UndoingQuiet ==
    ASSUME NEW o \in Orders, NEW T, Undoing(T, o), SamePapers(o),
           NEW s, s.do \notin {"status", "void", "unblock"},
           NEW more, \A m \in more : m.do \in {"give", "clamp", "delete_rows"},
           NEW U, U = (T \ {s}) \cup more
    PROVE  Undoing(U, o)'
<1>1. /\ Do("status", 0) \in U <=> Do("status", 0) \in T
      /\ Do("void", 0) \in U <=> Do("void", 0) \in T
      /\ Do("unblock", 0) \in U <=> Do("unblock", 0) \in T
  BY DEF Do
<1>2. \A t \in U : t.do \notin {"restore", "quota", "storno"}
  BY DEF Undoing
<1> QED BY <1>1, <1>2 DEF Undoing, SamePapers

(* A payment that has arrived leaves its order at rest.                     *)
LEMMA CollectTogether ==
    ASSUME NEW K \in SUBSET Orders, Calm(K),
           NEW w \in Worker, NEW s, Collect(w, s),
           task[w].order \in K
    PROVE  Together(K)'
<1>1. PICK o, T, op, U : /\ o = task[w].order /\ T = task[w].todo /\ op = task[w].op
                         /\ U = (task[w].todo \ {s}) \cup {}
  OBVIOUS
<1>2. /\ Current(w, s, "collect") /\ Then(w, s, {})
      /\ orders' = [orders EXCEPT ![o].payment_intent = "collected"]
      /\ sales' = sales /\ rows_used' = rows_used /\ tickets' = tickets
      /\ blocked' = blocked /\ rows' = rows /\ reserved_seats' = reserved_seats
  BY <1>1 DEF Collect, goods, seats, papers
<1>3. TypeOK /\ o \in Orders
  BY <1>1, <1>2, Here
<1>4. \A x \in Orders : SamePapers(x)
  <2>1. \A x \in Orders : orders'[x].status = orders[x].status
    BY <1>2, <1>3 DEF TypeOK
  <2> QED BY <1>2, <2>1, SamePapersWhen
<1>5. RowsUsedGrow
  BY <1>2, <1>3, UsedSame
<1>6. op = "webhook" /\ Waiting(T, o)
  BY <1>1, <1>2, WhichPhase
<1>7. SameOrder(o)
  BY <1>2, <1>3, <1>4 DEF SameOrder, RowsOf
<1>8. Rest(o)'
  BY <1>3, <1>5, <1>6, <1>7, KeepsRest DEF Waiting
<1>9. Phase(op, U, o)'
  BY <1>1, <1>6, <1>8 DEF Phase, Waiting
<1>10. "collect" \notin SeatKinds
  BY DEF SeatKinds
<1> QED BY <1>1, <1>2, <1>4, <1>5, <1>8, <1>9, <1>10, QuietKept

(* What a confirmation has to do, and where that leaves its order.          *)
LEMMA ConfirmingPlain ==
    ASSUME NEW o \in Orders, NEW op \in Confirmation
    PROVE  /\ \A t \in Confirming(o) :
                 PlainStep(op, t) /\ t.do \notin Mid \cup {"give"}
           /\ Confirming(o) # {}
           /\ op \in Operation /\ op # "cancel"
<1> SUFFICES ASSUME NEW t \in Confirming(o)
             PROVE  PlainStep(op, t) /\ t.do \notin Mid \cup {"give"}
  BY DEF Confirming, Confirmation, Operation
<1>1. \A do, i : Do(do, i).do = do /\ Do(do, i).line = i
  BY DEF Do
<1>2. /\ t.do \in {"status", "quota", "sales", "find_tickets", "stock", "reserve", "block"}
      /\ t = Do(t.do, t.line)
      /\ t.do \in {"status", "quota", "sales", "find_tickets"} => t.line = 0
  BY <1>1 DEF Confirming
<1> QED BY <1>2 DEF PlainStep, Kinds, Confirmation, Single, Mid

(* A handler that raises before it has taken or given back any seat leaves  *)
(* its order at rest, recorded or not.                                      *)
LEMMA RaiseTogether ==
    ASSUME NEW K \in SUBSET Orders, Calm(K),
           NEW w \in Worker, NEW do, NEW s, Current(w, s, do),
           NEW o \in K, o = task[w].order, Raise(w), Rest(o),
           task[w].op \in Confirmation => \A t \in task[w].todo : t.do \notin Mid,
           task[w].op = "cancel" => /\ Do("release_tiers", 0) \in task[w].todo
                                    /\ Do("release", 0) \in task[w].todo,
           orders' = orders, sales' = sales, rows_used' = rows_used,
           tickets' = tickets, blocked' = blocked, rows' = rows,
           reserved_seats' = reserved_seats
    PROVE  Together(K)'
<1>1. /\ TypeOK /\ o \in Orders /\ InFlight(w)
      /\ \A v \in Worker : v # w /\ InFlight(v) => task[v].order # o
  BY Here
<1>2. /\ \A v \in Worker : v # w => task'[v] = task[v]
      /\ InFlight(w)' => /\ task[w].op = "webhook" /\ task'[w].op = "webhook"
                         /\ task'[w].order = o
                         /\ task'[w].todo = {Do("record_error", 0)}
  BY <1>1, RaiseIs
<1>3. \A x \in Orders : SameOrder(x)
  <2>1. \A x \in Orders : SamePapers(x)
    BY SamePapersWhen
  <2> QED BY <2>1 DEF SameOrder, RowsOf
<1>4. RowsUsedGrow
  BY <1>1, UsedSame
<1>5. Rest(o)'
  BY <1>1, <1>3, <1>4, KeepsRest
<1>6. \A do2, i : Do(do2, i).do = do2 /\ Do(do2, i).line = i
  BY DEF Do
<1>7. InFlight(w)' => Plain(w)' /\ SeatTask(w)' /\ Phase(task[w].op, task[w].todo, o)'
  <2> SUFFICES ASSUME InFlight(w)'
               PROVE  Plain(w)' /\ SeatTask(w)' /\ Phase(task[w].op, task[w].todo, o)'
    OBVIOUS
  <2>1. PlainStep("webhook", Do("record_error", 0))
    BY <1>6 DEF PlainStep, Kinds
  <2>2. Plain(w)'
    BY <1>2, <2>1 DEF Plain
  <2>3. Taking(w)'
    BY <1>2, <1>6 DEF Taking, Mid
  <2>4. SeatTask(w)'
    BY <1>2, <2>3 DEF SeatTask
  <2>5. Phase(task[w].op, task[w].todo, o)'
    BY <1>2, <1>5 DEF Phase, Recording
  <2> QED BY <2>2, <2>4, <2>5
<1>8. ASSUME NEW r \in RowsOf(o), NEW x \in Place, x \in {r.occurrence, r.tier}
      PROVE  /\ ~ (InFlight(w) /\ Missing(w, r, x))
             /\ ~ (InFlight(w)' /\ Missing(w, r, x)')
  <2>1. \A i : /\ Do("tier", i).do \in Mid /\ Do("occurrence", i).do \in Mid
               /\ Do("undo", i).do \in Mid
    BY <1>6 DEF Mid
  <2>2. ~ Missing(w, r, x)
    BY <1>8, <2>1 DEF Missing
  <2>3. InFlight(w)' => ~ Missing(w, r, x)'
    <3>1. \A i : /\ Do("tier", i) # Do("record_error", 0)
                 /\ Do("occurrence", i) # Do("record_error", 0)
                 /\ Do("undo", i) # Do("record_error", 0)
      BY DEF Do
    <3> QED BY <1>2, <3>1 DEF Missing
  <2> QED BY <2>2, <2>3
<1>9. InFlight(w)' => task'[w].order = o
  BY <1>2
<1>10. Tally(K)'
  BY <1>1, <1>2, <1>8, <1>9, AllCounted
<1>11. IsFiniteSet(rows)'
  BY DEF Calm, Together
<1> QED BY <1>1, <1>2, <1>3, <1>4, <1>5, <1>7, <1>9, <1>10, <1>11, TogetherKept

(* The failure is recorded, and the order is at rest.                       *)
LEMMA RecordErrorTogether ==
    ASSUME NEW K \in SUBSET Orders, Calm(K),
           NEW w \in Worker, NEW s, RecordError(w, s),
           task[w].order \in K
    PROVE  Together(K)'
<1>1. PICK o, T, op, U : /\ o = task[w].order /\ T = task[w].todo /\ op = task[w].op
                         /\ U = (task[w].todo \ {s}) \cup {}
  OBVIOUS
<1>2. /\ Current(w, s, "record_error") /\ Then(w, s, {})
      /\ orders' = [orders EXCEPT ![o].confirm_error = TRUE]
      /\ sales' = sales /\ rows_used' = rows_used /\ tickets' = tickets
      /\ blocked' = blocked /\ rows' = rows /\ reserved_seats' = reserved_seats
  BY <1>1 DEF RecordError, goods, seats, papers
<1>3. TypeOK /\ o \in Orders /\ o \in K /\ s \in T /\ s.do = "record_error"
  BY <1>1, <1>2, Here
<1>4. \A x \in Orders : SamePapers(x)
  <2>1. \A x \in Orders : orders'[x].status = orders[x].status
    BY <1>2, <1>3 DEF TypeOK
  <2> QED BY <1>2, <2>1, SamePapersWhen
<1>5. RowsUsedGrow
  BY <1>2, <1>3, UsedSame
<1>6. op = "webhook" /\ Recording(T, o)
  BY <1>1, <1>2, WhichPhase
<1>7. SameOrder(o)
  BY <1>2, <1>3, <1>4 DEF SameOrder, RowsOf
<1>8. Rest(o)'
  BY <1>3, <1>5, <1>6, <1>7, KeepsRest DEF Recording
<1>9. U = {}
  BY <1>1, <1>3, <1>6 DEF Recording
<1>10. "record_error" \notin SeatKinds
  BY DEF SeatKinds
<1> QED BY <1>1, <1>2, <1>3, <1>4, <1>5, <1>8, <1>9, <1>10, QuietKept

(* A handler that ends leaves its order at rest.                            *)
LEMMA StatusEnds ==
    ASSUME NEW o \in Orders, Rest(o), sales'[o] = sales[o], tickets'[o] = tickets[o],
           blocked' = blocked, rows' = rows,
           orders'[o].status \in {"completed", "cancelled"}
    PROVE  Rest(o)'
BY SameGoods DEF Rest

(* The write of the status takes a handler on, or completes the order.      *)
LEMMA StatusWritten ==
    ASSUME NEW K \in SUBSET Orders, Calm(K),
           TypeOK', NEW w \in Worker, NEW s, Current(w, s, "status"), Then(w, s, {}),
           orders' = [orders EXCEPT ![task[w].order].status = Target[task[w].op]],
           UNCHANGED <<goods, seats, papers>>,
           task[w].order \in K
    PROVE  Together(K)'
<1>1. PICK o, T, op, U : /\ o = task[w].order /\ T = task[w].todo /\ op = task[w].op
                         /\ U = (task[w].todo \ {s}) \cup {}
  OBVIOUS
<1>2. /\ Current(w, s, "status") /\ Then(w, s, {})
      /\ orders' = [orders EXCEPT ![o].status = Target[op]]
      /\ sales' = sales /\ rows_used' = rows_used /\ tickets' = tickets
      /\ blocked' = blocked /\ rows' = rows /\ reserved_seats' = reserved_seats
  BY <1>1 DEF goods, seats, papers
<1>3. TypeOK /\ o \in Orders /\ Phase(op, T, o) /\ Plain(w)
      /\ s \in T /\ s.do = "status" /\ op \in Operation
  BY <1>1, <1>2, Here
<1>4. \A x \in Orders : x # o => SamePapers(x)
  <2>1. \A x \in Orders : x # o => orders'[x].status = orders[x].status
    BY <1>2, <1>3 DEF TypeOK
  <2> QED BY <1>2, <2>1, SamePapersWhen
<1>5. RowsUsedGrow
  BY <1>2, <1>3, UsedSame
<1>6. s = Do("status", 0) /\ U = T \ {s}
  BY <1>1, <1>3, SingleIs DEF Single
<1>7. orders'[o].status = Target[op]
  BY <1>2, <1>3 DEF TypeOK
<1>8. /\ sales'[o] = sales[o] /\ tickets'[o] = tickets[o]
      /\ OverQuota(o) => OverQuota(o)'
  BY <1>2, <1>3, <1>5, OverStays
<1>9. \A do, i : do # "status" => (Do(do, i) \in U <=> Do(do, i) \in T)
  BY <1>6 DEF Do
<1>10. Do("status", 0) \notin U /\ Do("status", 0) \in T
  BY <1>3, <1>6
<1> DEFINE Goes == /\ U # {} => Phase(op, U, o)'
                   /\ U = {} /\ (op = "cancel" => RowsOf(o)' = {}) => Rest(o)'
<1>11. ASSUME op = "webhook", Waiting(T, o)
       PROVE  Goes
  BY <1>3, <1>11 DEF Waiting, Do
<1>19. ASSUME op = "webhook", Recording(T, o)
       PROVE  Goes
  BY <1>3, <1>19 DEF Recording, Do
<1>12. ASSUME op = "complete", Finishing(T, o)
       PROVE  Goes
  <2>1. U = {} /\ Rest(o)
    BY <1>6, <1>12 DEF Finishing
  <2>2. orders'[o].status = "completed"
    BY <1>7, <1>12 DEF Target
  <2> QED BY <1>2, <1>3, <1>8, <2>1, <2>2, StatusEnds
<1>13. ASSUME op \in Confirmation, Opening(T, o)
       PROVE  Goes
  <2>1. orders'[o].status = "confirmed"
    BY <1>7, <1>13 DEF Target, Confirmation
  <2>2. Pristine(o)'
    BY <1>2, <1>8, <1>13, SameGoods DEF Opening
  <2>3. /\ U \subseteq Confirming(o) /\ Do("sales", 0) \in U /\ Do("find_tickets", 0) \in U
        /\ \A i \in FirstOfDate(o) : Do("block", i) \in U
    BY <1>6, <1>9, <1>13 DEF Opening
  <2>4. Opening(U, o)'
    BY <1>10, <2>1, <2>2, <2>3 DEF Opening
  <2> QED BY <1>13, <2>3, <2>4 DEF Phase
<1>14. ASSUME op \in Confirmation, Selling(T, o)
       PROVE  Goes
  BY <1>3, <1>14 DEF Selling
<1>15. ASSUME op = "cancel", Closing(T, o)
       PROVE  Goes
  <2>1. orders'[o].status = "cancelled"
    BY <1>7, <1>15 DEF Target
  <2>2. Full(o)' \/ (Pristine(o)' /\ OverQuota(o)' /\ Do("quota", 0) \in U)
    BY <1>2, <1>8, <1>9, <1>15, SameGoods DEF Closing
  <2>3. /\ Do("storno", 0) \in U /\ Do("unblock", 0) \in U /\ Do("void", 0) \in U
        /\ Do("release_tiers", 0) \in U /\ Do("release", 0) \in U
        /\ \A t \in U : t.do \notin {"give", "clamp", "delete_rows"}
    BY <1>6, <1>9, <1>15 DEF Closing
  <2>4. Closing(U, o)'
    BY <1>10, <2>1, <2>2, <2>3 DEF Closing
  <2> QED BY <1>15, <2>3, <2>4 DEF Phase
<1>16. ASSUME op = "cancel", Undoing(T, o)
       PROVE  Goes
  <2>1. orders'[o].status = "cancelled"
    BY <1>7, <1>16 DEF Target
  <2>2. /\ Do("void", 0) \in U <=> Do("void", 0) \in T
        /\ Do("unblock", 0) \in U <=> Do("unblock", 0) \in T
        /\ \A t \in U : t.do \notin {"restore", "quota", "storno"}
    BY <1>6, <1>9, <1>16 DEF Undoing
  <2>3. Undoing(U, o)'
    BY <1>2, <1>10, <1>16, <2>1, <2>2 DEF Undoing
  <2> QED BY <1>3, <1>16, <2>3, UndoingOn
<1>17. Goes
  BY <1>3, <1>11, <1>12, <1>13, <1>14, <1>15, <1>16, <1>19 DEF Phase
<1>18. "status" \notin SeatKinds
  BY DEF SeatKinds
<1> QED BY <1>1, <1>2, <1>4, <1>5, <1>17, <1>18, QuietKept

(* A confirmation whose number collides raises before anything is done.     *)
LEMMA WriteStatusTogether ==
    ASSUME NEW K \in SUBSET Orders, Calm(K), TypeOK',
           NEW w \in Worker, NEW s, WriteStatus(w, s),
           task[w].order \in K
    PROVE  Together(K)'
<1>1. PICK o, T, op : o = task[w].order /\ T = task[w].todo /\ op = task[w].op
  OBVIOUS
<1>2. /\ Current(w, s, "status")
      /\ UNCHANGED <<goods, seats, papers>>
  BY DEF WriteStatus
<1>3. /\ TypeOK /\ o \in Orders /\ o \in K /\ Phase(op, T, o) /\ Plain(w)
      /\ s \in T /\ s.do = "status"
  BY <1>1, <1>2, Here
<1>4. CASE /\ orders' = [orders EXCEPT ![task[w].order].status = Target[task[w].op]]
           /\ Then(w, s, {})
  BY <1>2, <1>4, StatusWritten
<1>5. CASE Target[op] = "confirmed" /\ orders' = orders /\ Raise(w)
  <2>1. s = Do("status", 0)
    BY <1>1, <1>3, SingleIs DEF Single
  <2>2. op \in Confirmation /\ op # "cancel" /\ op # "complete"
    <3>1. op \in Operation
      BY <1>1, <1>2, Here
    <3> QED BY <1>5, <3>1 DEF Target, Operation, Confirmation
  <2>3. Opening(T, o)
    <3>1. ~ Waiting(T, o) /\ ~ Recording(T, o)
      BY <1>3 DEF Waiting, Recording, Do
    <3>2. ~ Selling(T, o)
      BY <1>3 DEF Selling
    <3> QED BY <1>3, <2>2, <3>1, <3>2 DEF Phase
  <2>4. Rest(o)
    <3>1. orders[o].status \in {"draft", "expired"} /\ Pristine(o)
      BY <1>3, <2>1, <2>3 DEF Opening
    <3> QED BY <3>1, PristineIsBare DEF Rest
  <2>5. \A t \in T : t.do \notin Mid
    BY <1>3, <2>2, <2>3, ConfirmingPlain DEF Opening
  <2>6. /\ sales' = sales /\ rows_used' = rows_used /\ tickets' = tickets
        /\ blocked' = blocked /\ rows' = rows /\ reserved_seats' = reserved_seats
    BY <1>2 DEF goods, seats, papers
  <2> QED BY <1>1, <1>2, <1>3, <1>5, <2>2, <2>4, <2>5, <2>6, RaiseTogether
<1> QED BY <1>1, <1>4, <1>5 DEF WriteStatus

(* A step on the stock.                                                     *)
LEMMA StockTogether ==
    ASSUME NEW K \in SUBSET Orders, Calm(K),
           NEW w \in Worker, NEW s, try_decrement_stock(w, s) \/ restore_stock(w, s),
           task[w].order \in K
    PROVE  Together(K)'
<1>1. PICK o, T, op, U : /\ o = task[w].order /\ T = task[w].todo /\ op = task[w].op
                         /\ U = (task[w].todo \ {s}) \cup {}
  OBVIOUS
<1>2. PICK do \in {"stock", "restore"} :
         /\ Current(w, s, do) /\ Then(w, s, {})
         /\ orders' = orders
         /\ sales' = sales /\ rows_used' = rows_used /\ tickets' = tickets
         /\ blocked' = blocked /\ rows' = rows /\ reserved_seats' = reserved_seats
  BY DEF try_decrement_stock, restore_stock, seats, papers
<1>3. TypeOK /\ o \in Orders /\ s.do = do
  BY <1>1, <1>2, Here
<1>4. \A x \in Orders : SamePapers(x)
  BY <1>2, SamePapersWhen
<1>5. RowsUsedGrow
  BY <1>2, <1>3, UsedSame
<1>6. SameOrder(o) /\ U = T \ {s}
  BY <1>1, <1>2, <1>3, <1>4 DEF SameOrder, RowsOf
<1>7. U # {} /\ Phase(op, U, o)'
  <2>1. CASE do = "stock"
    <3>1. op \in Confirmation /\ Opening(T, o)
      BY <1>1, <1>2, <2>1, WhichPhase
    <3>2. Opening(U, o)' /\ U # {}
      BY <1>3, <1>5, <1>6, <2>1, <3>1, OpeningOn
    <3> QED BY <3>1, <3>2 DEF Phase
  <2>2. CASE do = "restore"
    <3>1. op = "cancel" /\ Closing(T, o)
      BY <1>1, <1>2, <2>2, WhichPhase
    <3>2. Closing(U, o)' /\ U # {}
      BY <1>3, <1>5, <1>6, <2>2, <3>1, ClosingOn
    <3> QED BY <3>1, <3>2 DEF Phase
  <2> QED BY <1>2, <2>1, <2>2
<1>8. do \notin SeatKinds
  BY DEF SeatKinds
<1> QED BY <1>1, <1>2, <1>4, <1>5, <1>7, <1>8, QuietKept

(* Within the plan the handler goes on; beyond it, it ends, and the order   *)
(* is at rest although confirmed without sales, or cancelled with them.     *)
LEMMA CheckQuotaTogether ==
    ASSUME NEW K \in SUBSET Orders, Calm(K),
           NEW w \in Worker, NEW s, CheckQuota(w, s),
           task[w].order \in K
    PROVE  Together(K)'
<1>1. PICK o, T, op, U : /\ o = task[w].order /\ T = task[w].todo /\ op = task[w].op
                         /\ U = (task[w].todo \ {s}) \cup {}
  OBVIOUS
<1>2. /\ Current(w, s, "quota")
      /\ orders' = orders
      /\ sales' = sales /\ rows_used' = rows_used /\ tickets' = tickets
      /\ blocked' = blocked /\ rows' = rows /\ reserved_seats' = reserved_seats
  BY DEF CheckQuota, goods, seats, papers
<1>3. /\ TypeOK /\ o \in Orders /\ s \in T /\ s.do = "quota" /\ Plain(w) /\ SeatTask(w)
      /\ \A v \in Worker : v # w /\ InFlight(v) => task[v].order # o
      /\ \A t \in T : Stage["quota"] <= Stage[t.do]
  BY <1>1, <1>2, Here
<1>4. \A x \in Orders : SamePapers(x) /\ SameOrder(x)
  <2>1. \A x \in Orders : SamePapers(x)
    BY <1>2, SamePapersWhen
  <2> QED BY <1>2, <2>1 DEF SameOrder, RowsOf
<1>5. RowsUsedGrow
  BY <1>2, <1>3, UsedSame
<1>6. U = T \ {s} /\ s = Do("quota", 0)
  BY <1>1, <1>3, SingleIs DEF Single
<1>7. \/ op \in Confirmation /\ Opening(T, o)
      \/ op = "cancel" /\ Closing(T, o)
  BY <1>1, <1>2, WhichPhase
<1>8. rows_used + Len(items[o]) <= Quota <=> ~ OverQuota(o)
  <2>1. Len(items[o]) \in Nat /\ Quota \in Nat /\ rows_used \in Nat
    BY <1>3, LifecycleAssumption DEF TypeOK
  <2> QED BY <2>1 DEF OverQuota
<1>9. CASE ~ OverQuota(o)
  <2>1. Then(w, s, {})
    BY <1>1, <1>8, <1>9 DEF CheckQuota
  <2>2. U # {} /\ Phase(op, U, o)'
    <3>1. CASE op \in Confirmation /\ Opening(T, o)
      <4>1. Opening(U, o)' /\ U # {}
        BY <1>3, <1>4, <1>5, <1>6, <3>1, OpeningOn
      <4> QED BY <3>1, <4>1 DEF Phase
    <3>2. CASE op = "cancel" /\ Closing(T, o)
      <4>1. Closing(U, o)' /\ U # {}
        BY <1>3, <1>4, <1>5, <1>6, <1>9, <3>2, ClosingOn
      <4> QED BY <3>2, <4>1 DEF Phase
    <3> QED BY <1>7, <3>1, <3>2
  <2>3. "quota" \notin SeatKinds
    BY DEF SeatKinds
  <2> QED BY <1>1, <1>2, <1>4, <1>5, <2>1, <2>2, <2>3, QuietKept
<1>10. CASE OverQuota(o)
  <2>1. Raise(w)
    BY <1>1, <1>8, <1>10 DEF CheckQuota
  <2>3. Do("status", 0) \notin T
    BY <1>3 DEF Stage, Do
  <2>4. Rest(o)
    <3>1. CASE op \in Confirmation /\ Opening(T, o)
      BY <1>10, <2>3, <3>1, PristineIsBare DEF Opening, Rest
    <3>2. CASE op = "cancel" /\ Closing(T, o)
      BY <2>3, <3>2, PristineIsBare DEF Closing, Rest
    <3> QED BY <1>7, <3>1, <3>2
  <2>5. op \in Confirmation => \A t \in T : t.do \notin Mid
    <3>1. op \in Confirmation => Taking(w)
      BY <1>1, <1>3 DEF SeatTask
    <3> QED BY <1>1, <1>3, <3>1 DEF Taking
  <2>6. op = "cancel" => Do("release_tiers", 0) \in T /\ Do("release", 0) \in T
    BY <1>7 DEF Confirmation, Closing
  <2> QED BY <1>1, <1>2, <1>3, <2>1, <2>4, <2>5, <2>6, RaiseTogether
<1> QED BY <1>9, <1>10


(* The sales are recorded and the confirmation turns to seats, blocks and   *)
(* tickets; or they are reversed, and the cancellation undoes the rest.     *)
LEMMA WriteSalesTogether ==
    ASSUME NEW K \in SUBSET Orders, Calm(K),
           TypeOK', NEW w \in Worker, NEW s, WriteSales(w, s),
           task[w].order \in K
    PROVE  Together(K)'
<1>1. PICK o, T, op, U : /\ o = task[w].order /\ T = task[w].todo /\ op = task[w].op
                         /\ U = (task[w].todo \ {s}) \cup {}
  OBVIOUS
<1>2. PICK do \in {"sales", "storno"} :
         /\ Current(w, s, do) /\ Then(w, s, {})
         /\ do = "sales" => sales' = [sales EXCEPT ![o].forward = @ + 1]
         /\ do = "storno" => sales' = [sales EXCEPT ![o].storno = @ + 1]
         /\ rows_used' = rows_used + Len(items[o])
         /\ orders' = orders /\ tickets' = tickets /\ blocked' = blocked
         /\ rows' = rows /\ reserved_seats' = reserved_seats
  BY <1>1 DEF WriteSales, seats, papers
<1>3. /\ TypeOK /\ o \in Orders /\ s \in T /\ s.do = do /\ Plain(w)
      /\ \A t \in T : Stage[do] <= Stage[t.do]
  BY <1>1, <1>2, Here
<1>4. \A x \in Orders : x # o => SamePapers(x)
  <2>1. \A x \in Orders : x # o => sales'[x] = sales[x]
    BY <1>2, <1>3 DEF TypeOK
  <2> QED BY <1>2, <2>1, SamePapersWhen
<1>5. RowsUsedGrow
  <2>1. Len(items[o]) \in Nat /\ rows_used \in Nat
    BY <1>3, LifecycleAssumption DEF TypeOK
  <2> QED BY <1>2, <2>1 DEF RowsUsedGrow
<1>6. U = T \ {s} /\ s = Do(do, 0)
  BY <1>1, <1>3, SingleIs DEF Single
<1>7. Stage[do] = 5
  BY <1>2 DEF Stage
<1>8. \A t \in T : t.do \notin {"collect", "confirm", "status", "stock", "restore", "quota"}
  <2> SUFFICES ASSUME NEW t \in T
               PROVE  t.do \notin {"collect", "confirm", "status", "stock", "restore", "quota"}
    OBVIOUS
  <2>1. 5 <= Stage[t.do]
    BY <1>3, <1>7
  <2> QED BY <2>1 DEF Stage
<1>9. Do("status", 0) \notin T /\ Do("quota", 0) \notin T
  BY <1>8 DEF Do
<1>10. \A k, i : k # do => (Do(k, i) \in U <=> Do(k, i) \in T)
  BY <1>6 DEF Do
<1>11. \A t \in U : t.do # do
  <2> SUFFICES ASSUME NEW t \in T, t.do = do PROVE t = s
    BY <1>6
  <2> QED BY <1>1, <1>2, <1>3, <1>6, SingleIs DEF Single
<1> DEFINE Goes == /\ U # {} => Phase(op, U, o)'
                   /\ U = {} /\ (op = "cancel" => RowsOf(o)' = {}) => Rest(o)'
<1>12. ASSUME do = "sales"
       PROVE  Goes
  <2>1. op \in Confirmation /\ Opening(T, o)
    BY <1>1, <1>2, <1>12, WhichPhase
  <2>2. T \subseteq Confirming(o) /\ Pristine(o) /\ orders[o].status = "confirmed"
        /\ Do("find_tickets", 0) \in T /\ \A i \in FirstOfDate(o) : Do("block", i) \in T
    BY <1>9, <2>1 DEF Opening
  <2>3. \A t \in U :
           t.do \notin {"collect", "confirm", "status", "stock", "quota", "sales", "ticket",
                     "record_error"}
    <3>1. \A t \in U : t.do \notin {"ticket", "record_error"}
      BY <1>6, <2>2 DEF Confirming, Do
    <3> QED BY <1>6, <1>8, <1>11, <1>12, <3>1
  <2>4. sales'[o].forward = 1 /\ sales'[o].storno = 0
    <3>1. /\ sales[o].forward = 0 /\ sales[o].storno = 0
          /\ sales[o] \in [forward : Nat, storno : Nat]
      BY <1>3, <2>2 DEF Pristine, TypeOK
    <3>2. sales'[o] = [sales[o] EXCEPT !.forward = @ + 1]
      BY <1>2, <1>3, <1>12 DEF TypeOK
    <3> QED BY <3>1, <3>2
  <2>5. \A i \in FirstOfDate(o) : Blocking(U, o, i)'
    BY <1>10, <1>12, <2>2 DEF Blocking
  <2>6. \A i \in Lines(o) : Issuing(U, o, i)'
    <3>1. Do("find_tickets", 0) \in U
      BY <1>10, <1>12, <2>2
    <3>2. \A i \in Lines(o) : tickets'[o][i].valid = 0 /\ tickets'[o][i].voided = 0
      BY <1>2, <2>2 DEF Pristine
    <3> QED BY <2>3, <3>1, <3>2 DEF Issuing
  <2>7. Selling(U, o)'
    BY <1>2, <2>2, <2>3, <2>4, <2>5, <2>6 DEF Selling
  <2> QED BY <1>3, <2>1, <2>7, SellingOn
<1>13. ASSUME do = "storno"
       PROVE  Goes
  <2>1. op = "cancel" /\ Closing(T, o)
    BY <1>1, <1>2, <1>13, WhichPhase
  <2>2. /\ orders[o].status = "cancelled" /\ Full(o)
        /\ Do("void", 0) \in T /\ Do("unblock", 0) \in T
    BY <1>9, <2>1 DEF Closing
  <2>3. sales'[o].forward = sales'[o].storno
    <3>1. /\ sales[o].forward = 1 /\ sales[o].storno = 0
          /\ sales[o] \in [forward : Nat, storno : Nat]
      BY <1>3, <2>2 DEF Full, TypeOK
    <3>2. sales'[o] = [sales[o] EXCEPT !.storno = @ + 1]
      BY <1>2, <1>3, <1>13 DEF TypeOK
    <3> QED BY <3>1, <3>2
  <2>4. \A t \in U : t.do \notin {"restore", "quota", "storno"}
    BY <1>6, <1>8, <1>11, <1>13
  <2>5. Do("status", 0) \notin U /\ Do("void", 0) \in U /\ Do("unblock", 0) \in U
    BY <1>9, <1>10, <1>13, <2>2
  <2>6. Undoing(U, o)'
    BY <1>2, <2>2, <2>3, <2>4, <2>5 DEF Undoing
  <2> QED BY <1>3, <2>1, <2>6, UndoingOn
<1>14. (U # {} => Phase(op, U, o)')
       /\ (U = {} /\ (op = "cancel" => RowsOf(o)' = {}) => Rest(o)')
  BY <1>2, <1>12, <1>13
<1>15. do \notin SeatKinds
  BY <1>2 DEF SeatKinds
<1>16. /\ Current(w, s, do) /\ Then(w, s, {})
       /\ rows' = rows /\ reserved_seats' = reserved_seats
  BY <1>2
<1> HIDE DEF Goes
<1> QED BY <1>1, <1>16, <1>4, <1>5, <1>14, <1>15, QuietKept

-----------------------------------------------------------------------------
(* Blocks and tickets.                                                      *)

(* A date blocked is one date less to block.                                *)
LEMMA BlockTogether ==
    ASSUME NEW K \in SUBSET Orders, Calm(K),
           TypeOK', NEW w \in Worker, NEW s, Block(w, s),
           task[w].order \in K
    PROVE  Together(K)'
<1>1. PICK o, T, op, U : /\ o = task[w].order /\ T = task[w].todo /\ op = task[w].op
                         /\ U = (task[w].todo \ {s}) \cup {}
  OBVIOUS
<1>2. /\ Current(w, s, "block") /\ Then(w, s, {})
      /\ blocked' = blocked \cup {<<o, items[o][s.line].occurrence>>}
      /\ orders' = orders /\ sales' = sales /\ rows_used' = rows_used
      /\ tickets' = tickets /\ rows' = rows /\ reserved_seats' = reserved_seats
  BY <1>1 DEF Block, goods, seats
<1>3. TypeOK /\ o \in Orders /\ s \in T /\ s.do = "block" /\ Plain(w)
  BY <1>1, <1>2, Here
<1>4. \A x \in Orders : x # o => SamePapers(x)
  BY <1>2 DEF SamePapers
<1>5. RowsUsedGrow
  BY <1>2, <1>3, UsedSame
<1>6. U = T \ {s} /\ s = Do("block", s.line)
  BY <1>1, <1>3 DEF Plain, PlainStep
<1>7. op \in Confirmation /\ Selling(T, o)
  BY <1>1, <1>2, WhichPhase
<1>8. \A i \in FirstOfDate(o) : Blocking(U, o, i)'
  <2> SUFFICES ASSUME NEW i \in FirstOfDate(o) PROVE Blocking(U, o, i)'
    OBVIOUS
  <2>1. Blocking(T, o, i)
    BY <1>7 DEF Selling
  <2>2. Do("block", i) = s => i = s.line
    BY <1>6 DEF Do
  <2> QED BY <1>2, <1>6, <2>1, <2>2 DEF Blocking
<1>9. \A i \in Lines(o) : Issuing(U, o, i)'
  <2> SUFFICES ASSUME NEW i \in Lines(o) PROVE Issuing(U, o, i)'
    OBVIOUS
  <2>1. Issuing(T, o, i) /\ tickets'[o] = tickets[o]
    BY <1>2, <1>7 DEF Selling
  <2>2. s.do \notin {"find_tickets", "ticket"}
    BY <1>3
  <2>3. U = (T \ {s}) \cup {}
    BY <1>6
  <2>4. \A m \in {} : m.do \notin {"find_tickets", "ticket"}
    OBVIOUS
  <2> QED BY <2>1, <2>2, <2>3, <2>4, IssuingOn
<1>10. Selling(U, o)'
  BY <1>2, <1>6, <1>7, <1>8, <1>9 DEF Selling
<1>11. "block" \notin SeatKinds
  BY DEF SeatKinds
<1>12. (U # {} => Phase(op, U, o)') /\ (U = {} => Rest(o)')
  BY <1>3, <1>7, <1>10, SellingOn
<1> QED BY <1>1, <1>2, <1>4, <1>5, <1>11, <1>12, QuietKept

(* The blocks of a cancelled order go.                                      *)
LEMMA UnblockTogether ==
    ASSUME NEW K \in SUBSET Orders, Calm(K),
           NEW w \in Worker, NEW s, Unblock(w, s),
           task[w].order \in K
    PROVE  Together(K)'
<1>1. PICK o, T, op, U : /\ o = task[w].order /\ T = task[w].todo /\ op = task[w].op
                         /\ U = (task[w].todo \ {s}) \cup {}
  OBVIOUS
<1>2. /\ Current(w, s, "unblock") /\ Then(w, s, {})
      /\ blocked' = {b \in blocked : b[1] # o}
      /\ orders' = orders /\ sales' = sales /\ rows_used' = rows_used
      /\ tickets' = tickets /\ rows' = rows /\ reserved_seats' = reserved_seats
  BY <1>1 DEF Unblock, goods, seats
<1>3. TypeOK /\ o \in Orders /\ s \in T /\ s.do = "unblock" /\ Plain(w)
  BY <1>1, <1>2, Here
<1>4. \A x \in Orders : x # o => SamePapers(x)
  BY <1>2 DEF SamePapers
<1>5. RowsUsedGrow
  BY <1>2, <1>3, UsedSame
<1>6. U = T \ {s} /\ s = Do("unblock", 0)
  BY <1>1, <1>3, SingleIs DEF Single
<1>7. op = "cancel" /\ Undoing(T, o)
  BY <1>1, <1>2, WhichPhase
<1>8. /\ Do("status", 0) \in U <=> Do("status", 0) \in T
      /\ Do("void", 0) \in U <=> Do("void", 0) \in T
  BY <1>6 DEF Do
<1>9. \A i \in EventLines(o) : <<o, items[o][i].occurrence>> \notin blocked'
  BY <1>2
<1>10. Undoing(U, o)'
  BY <1>2, <1>6, <1>7, <1>8, <1>9 DEF Undoing
<1>11. "unblock" \notin SeatKinds
  BY DEF SeatKinds
<1>12. /\ U # {} => Phase(op, U, o)'
       /\ U = {} /\ (op = "cancel" => RowsOf(o)' = {}) => Rest(o)'
  BY <1>3, <1>7, <1>10, UndoingOn
<1> QED BY <1>1, <1>2, <1>4, <1>5, <1>11, <1>12, QuietKept

(* The tickets of a cancelled order are void.                               *)
LEMMA VoidTogether ==
    ASSUME NEW K \in SUBSET Orders, Calm(K),
           NEW w \in Worker, NEW s, void_tickets_for_order(w, s),
           task[w].order \in K
    PROVE  Together(K)'
<1>1. PICK o, T, op, U : /\ o = task[w].order /\ T = task[w].todo /\ op = task[w].op
                         /\ U = (task[w].todo \ {s}) \cup {}
  OBVIOUS
<1>2. /\ Current(w, s, "void") /\ Then(w, s, {})
      /\ tickets' = [tickets EXCEPT ![o] = [i \in Lines(o) |->
                [valid |-> 0, voided |-> tickets[o][i].valid + tickets[o][i].voided]]]
      /\ orders' = orders /\ sales' = sales /\ rows_used' = rows_used
      /\ blocked' = blocked /\ rows' = rows /\ reserved_seats' = reserved_seats
  BY <1>1 DEF void_tickets_for_order, goods, seats
<1>3. TypeOK /\ o \in Orders /\ s \in T /\ s.do = "void" /\ Plain(w)
  BY <1>1, <1>2, Here
<1>4. \A x \in Orders : x # o => SamePapers(x)
  <2>1. \A x \in Orders : x # o => tickets'[x] = tickets[x]
    BY <1>2, <1>3 DEF TypeOK
  <2> QED BY <1>2, <2>1, SamePapersWhen
<1>5. RowsUsedGrow
  BY <1>2, <1>3, UsedSame
<1>6. U = T \ {s} /\ s = Do("void", 0)
  BY <1>1, <1>3, SingleIs DEF Single
<1>7. op = "cancel" /\ Undoing(T, o)
  BY <1>1, <1>2, WhichPhase
<1>8. /\ Do("status", 0) \in U <=> Do("status", 0) \in T
      /\ Do("unblock", 0) \in U <=> Do("unblock", 0) \in T
  BY <1>6 DEF Do
<1>9. \A i \in Lines(o) : tickets'[o][i].valid = 0
  <2>1. tickets'[o] = [i \in Lines(o) |->
                [valid |-> 0, voided |-> tickets[o][i].valid + tickets[o][i].voided]]
    BY <1>2, <1>3 DEF TypeOK
  <2> QED BY <2>1
<1>10. Undoing(U, o)'
  BY <1>2, <1>6, <1>7, <1>8, <1>9 DEF Undoing
<1>11. "void" \notin SeatKinds
  BY DEF SeatKinds
<1>12. /\ U # {} => Phase(op, U, o)'
       /\ U = {} /\ (op = "cancel" => RowsOf(o)' = {}) => Rest(o)'
  BY <1>3, <1>7, <1>10, UndoingOn
<1> QED BY <1>1, <1>2, <1>4, <1>5, <1>11, <1>12, QuietKept

(* A confirmation that finds no ticket has one to issue for every seat.     *)
LEMMA FindTicketsTogether ==
    ASSUME NEW K \in SUBSET Orders, Calm(K),
           TypeOK', NEW w \in Worker, NEW s, FindTickets(w, s),
           task[w].order \in K
    PROVE  Together(K)'
<1>1. PICK o, T, op, M, U :
         /\ o = task[w].order /\ T = task[w].todo /\ op = task[w].op
         /\ M = UNION {{TicketStep(i, n) : n \in 1..items[o][i].quantity} :
                           i \in EventLines(o)}
         /\ U = (task[w].todo \ {s}) \cup M
  OBVIOUS
<1>2. /\ Current(w, s, "find_tickets")
      /\ orders' = orders /\ sales' = sales /\ rows_used' = rows_used
      /\ tickets' = tickets /\ blocked' = blocked
      /\ rows' = rows /\ reserved_seats' = reserved_seats
  BY <1>1 DEF FindTickets, goods, seats, papers
<1>3. /\ TypeOK /\ o \in Orders /\ s \in T /\ s.do = "find_tickets" /\ Plain(w)
  BY <1>1, <1>2, Here
<1>4. s = Do("find_tickets", 0) /\ U = (T \ {s}) \cup M
  BY <1>1, <1>3, SingleIs DEF Single
<1>5. op \in Confirmation /\ Selling(T, o)
  BY <1>1, <1>2, WhichPhase
<1>6. \A i \in Lines(o) : /\ tickets[o][i].valid = 0 /\ tickets[o][i].voided = 0
                          /\ \A t \in T : t.do # "ticket"
  BY <1>3, <1>4, <1>5 DEF Selling, Issuing
<1>7. Then(w, s, M)
  <2>1. ~ HasTickets(o)
    BY <1>6 DEF HasTickets
  <2> QED BY <1>1, <2>1 DEF FindTickets, TicketStep
<1>8. \A m \in M : /\ m.do = "ticket"
                   /\ \E i \in EventLines(o) : \E n \in 1..items[o][i].quantity :
                         m = TicketStep(i, n)
  <2>1. \A m \in M : \E i \in EventLines(o) : \E n \in 1..items[o][i].quantity :
                         m = TicketStep(i, n)
    BY <1>1
  <2>2. \A i, n : TicketStep(i, n).do = "ticket"
    BY DEF TicketStep, Do
  <2> QED BY <2>1, <2>2
<1>9. \A m \in M : m.do \notin SeatKinds \cup {"quota"} /\ PlainStep(op, m)
  BY <1>5, <1>8 DEF SeatKinds, PlainStep, Kinds, Confirmation, Single
<1>10. \A x \in Orders : SamePapers(x)
  BY <1>2, SamePapersWhen
<1>11. RowsUsedGrow
  BY <1>2, <1>3, UsedSame
<1>12. ASSUME NEW i \in Lines(o)
       PROVE  Issuing(U, o, i)'
  <2>1. tickets'[o][i].valid = 0
    BY <1>2, <1>6, <1>12
  <2>2. Do("find_tickets", 0) \notin U
    BY <1>4, <1>8 DEF Do
  <2>3. ASSUME i \in EventLines(o)
        PROVE  /\ 0 <= items[o][i].quantity
               /\ \A n \in 1..items[o][i].quantity : TicketStep(i, n) \in U
    BY <1>1, <1>3, <2>3, EventTyped
  <2>4. \A t \in U : t.do = "ticket" /\ t.line = i =>
           t = TicketStep(i, t.n) /\ t.n \in 1..items[o][i].quantity
    <3> SUFFICES ASSUME NEW t \in U, t.do = "ticket", t.line = i
                 PROVE  t = TicketStep(i, t.n) /\ t.n \in 1..items[o][i].quantity
      OBVIOUS
    <3>1. t \in M
      BY <1>4, <1>6, <1>12
    <3>2. PICK j \in EventLines(o) : \E n \in 1..items[o][j].quantity :
                                        t = TicketStep(j, n)
      BY <1>8, <3>1
    <3>3. PICK n \in 1..items[o][j].quantity : t = TicketStep(j, n)
      BY <3>2
    <3>4. t.line = j /\ t.n = n
      BY <3>3 DEF TicketStep, Do
    <3> QED BY <3>3, <3>4
  <2> QED BY <2>1, <2>2, <2>3, <2>4 DEF Issuing
<1>13. \A i \in FirstOfDate(o) : Blocking(U, o, i)'
  BY <1>2, <1>4, <1>5 DEF Selling, Blocking, Do
<1>14. \A t \in U : t.do \notin {"collect", "confirm", "status", "stock", "quota", "sales",
                     "record_error"}
  BY <1>4, <1>5, <1>8 DEF Selling
<1>15. Selling(U, o)'
  BY <1>2, <1>5, <1>12, <1>13, <1>14 DEF Selling
<1>16. "find_tickets" \notin SeatKinds
  BY DEF SeatKinds
<1>17. (U # {} => Phase(op, U, o)') /\ (U = {} => Rest(o)')
  BY <1>3, <1>5, <1>15, SellingOn
<1> QED BY <1>1, <1>2, <1>7, <1>9, <1>10, <1>11, <1>16, <1>17, QuietKept

(* The tickets of a line are issued one after another.                      *)
LEMMA IssueTicketTogether ==
    ASSUME NEW K \in SUBSET Orders, Calm(K),
           TypeOK', NEW w \in Worker, NEW s, IssueTicket(w, s),
           task[w].order \in K
    PROVE  Together(K)'
<1>1. PICK o, T, op, U : /\ o = task[w].order /\ T = task[w].todo /\ op = task[w].op
                         /\ U = (task[w].todo \ {s}) \cup {}
  OBVIOUS
<1>2. /\ Current(w, s, "ticket") /\ Then(w, s, {})
      /\ tickets' = [tickets EXCEPT ![o][s.line].valid = @ + 1]
      /\ orders' = orders /\ sales' = sales /\ rows_used' = rows_used
      /\ blocked' = blocked /\ rows' = rows /\ reserved_seats' = reserved_seats
  BY <1>1 DEF IssueTicket, goods, seats
<1>3. /\ TypeOK /\ Tasks /\ o \in Orders /\ s \in T /\ s.do = "ticket"
      /\ \A t \in T : Stage["ticket"] <= Stage[t.do]
  BY <1>1, <1>2, Here DEF Calm, IInv
<1>4. U = T \ {s} /\ GoodStep(o, s) /\ \A t \in T : NotAfter(s, t)
  BY <1>1, <1>2, <1>3, CurrentGood
<1>5. PICK i \in EventLines(o) : i = s.line
  BY <1>3, <1>4 DEF GoodStep
<1>6. op \in Confirmation /\ Selling(T, o)
  BY <1>1, <1>2, WhichPhase
<1>7. Do("find_tickets", 0) \notin T
  BY <1>3 DEF Stage, Do
<1>8. /\ i \in Lines(o) /\ tickets[o] \in [Lines(o) -> [valid : Nat, voided : Nat]]
      /\ items[o][i].quantity \in Nat
  BY <1>3, <1>5, EventTyped DEF TypeOK
<1>9. PICK v \in Nat, q \in Nat : v = tickets[o][i].valid /\ q = items[o][i].quantity
  BY <1>8
<1>10. /\ v <= q
       /\ \A n \in v + 1 .. q : TicketStep(i, n) \in T
       /\ \A t \in T : t.do = "ticket" /\ t.line = i =>
             t = TicketStep(i, t.n) /\ t.n \in v + 1 .. q
  BY <1>5, <1>6, <1>7, <1>8, <1>9 DEF Selling, Issuing
<1>11. \A n : TicketStep(i, n).n = n /\ TicketStep(i, n).line = i
              /\ TicketStep(i, n).do = "ticket"
  BY DEF TicketStep, Do
<1>12. s = TicketStep(i, v + 1) /\ v + 1 <= q
  <2>1. s = TicketStep(i, s.n) /\ s.n \in v + 1 .. q
    BY <1>3, <1>5, <1>10
  <2>2. v + 1 \in v + 1 .. q
    BY <2>1
  <2>3. TicketStep(i, v + 1) \in T
    BY <1>10, <2>2
  <2>4. NotAfter(s, TicketStep(i, v + 1))
    BY <1>4, <2>3
  <2>5. Rank(s) = s.n /\ Rank(TicketStep(i, v + 1)) = v + 1
    BY <1>3, <1>11 DEF Rank, InLine
  <2>6. Stage["ticket"] \in Nat /\ i \in Nat
    BY <1>3, <1>5, EventTyped DEF Stage
  <2>7. s.n <= v + 1
    BY <1>3, <1>5, <1>11, <2>4, <2>5, <2>6 DEF NotAfter
  <2>8. s.n = v + 1
    BY <2>1, <2>7
  <2> QED BY <2>1, <2>8
<1>13. /\ tickets'[o] = [tickets[o] EXCEPT ![i].valid = @ + 1]
       /\ \A x \in Orders : x # o => tickets'[x] = tickets[x]
  BY <1>2, <1>3, <1>5 DEF TypeOK
<1>14. /\ tickets'[o][i].valid = v + 1
       /\ \A j \in Lines(o) : j # i => tickets'[o][j] = tickets[o][j]
  BY <1>8, <1>9, <1>13
<1>15. \A x \in Orders : x # o => SamePapers(x)
  BY <1>2, <1>13, SamePapersWhen
<1>16. RowsUsedGrow
  BY <1>2, <1>3, UsedSame
<1>17. Do("find_tickets", 0) \notin U
  BY <1>4, <1>7
<1>18. ASSUME NEW j \in Lines(o)
       PROVE  Issuing(U, o, j)'
  <2>1. CASE j = i
    <3>1. \A n \in (v + 1) + 1 .. q : TicketStep(i, n) \in U
      <4> SUFFICES ASSUME NEW n \in (v + 1) + 1 .. q PROVE TicketStep(i, n) \in U
        OBVIOUS
      <4>1. n \in v + 1 .. q /\ n # v + 1
        OBVIOUS
      <4>2. TicketStep(i, n) \in T /\ TicketStep(i, n) # s
        BY <1>10, <1>11, <1>12, <4>1
      <4> QED BY <1>4, <4>2
    <3>2. \A t \in U : t.do = "ticket" /\ t.line = i =>
             t = TicketStep(i, t.n) /\ t.n \in (v + 1) + 1 .. q
      <4> SUFFICES ASSUME NEW t \in U, t.do = "ticket", t.line = i
                   PROVE  t = TicketStep(i, t.n) /\ t.n \in (v + 1) + 1 .. q
        OBVIOUS
      <4>1. t = TicketStep(i, t.n) /\ t.n \in v + 1 .. q /\ t # s
        BY <1>4, <1>10
      <4>2. t.n # v + 1
        BY <1>12, <4>1
      <4> QED BY <4>1, <4>2
    <3>3. v + 1 <= q
      BY <1>12
    <3> QED BY <1>5, <1>9, <1>14, <1>17, <2>1, <3>1, <3>2, <3>3 DEF Issuing
  <2>2. CASE j # i
    <3>1. Issuing(T, o, j) /\ tickets'[o][j] = tickets[o][j]
      BY <1>6, <1>14, <1>18, <2>2 DEF Selling
    <3>2. \A n : TicketStep(j, n) # s
      BY <1>5, <2>2 DEF TicketStep, Do
    <3>3. \A n : TicketStep(j, n) \in U <=> TicketStep(j, n) \in T
      BY <1>4, <3>2
    <3> QED BY <1>4, <1>7, <1>17, <3>1, <3>3 DEF Issuing
  <2> QED BY <2>1, <2>2
<1>19. \A k \in FirstOfDate(o) : Blocking(U, o, k)'
  BY <1>2, <1>3, <1>4, <1>6 DEF Selling, Blocking, Do
<1>20. Selling(U, o)'
  BY <1>2, <1>4, <1>6, <1>18, <1>19 DEF Selling
<1>21. "ticket" \notin SeatKinds
  BY DEF SeatKinds
<1>22. (U # {} => Phase(op, U, o)') /\ (U = {} => Rest(o)')
  BY <1>3, <1>6, <1>20, SellingOn
<1> QED BY <1>1, <1>2, <1>15, <1>16, <1>21, <1>22, QuietKept

(* No counter is below zero, so setting a negative one to zero changes none.*)
LEMMA ClampTogether ==
    ASSUME NEW K \in SUBSET Orders, Calm(K),
           TypeOK', NEW w \in Worker, NEW s, Clamp(w, s),
           task[w].order \in K
    PROVE  Together(K)'
<1>1. PICK o, T, op, U : /\ o = task[w].order /\ T = task[w].todo /\ op = task[w].op
                         /\ U = (task[w].todo \ {s}) \cup {}
  OBVIOUS
<1>2. /\ Current(w, s, "clamp") /\ Then(w, s, {})
      /\ reserved_seats' = [reserved_seats EXCEPT ![s.place] = IF @ < 0 THEN 0 ELSE @]
      /\ orders' = orders /\ sales' = sales /\ rows_used' = rows_used
      /\ tickets' = tickets /\ blocked' = blocked /\ rows' = rows
  BY <1>1 DEF Clamp, goods, papers
<1>3. /\ TypeOK /\ Tasks /\ Together(K) /\ o \in Orders /\ s \in T /\ s.do = "clamp"
  BY <1>1, <1>2, Here DEF Calm, IInv
<1>4. U = T \ {s} /\ s.place \in Place
  BY <1>1, <1>2, <1>3, CurrentGood DEF GoodStep
<1>5. s.place \in PlacesOf(K) => reserved_seats[s.place] \in Nat
  <2> SUFFICES ASSUME s.place \in PlacesOf(K) PROVE reserved_seats[s.place] \in Nat
    OBVIOUS
  <2>1. Counted(s.place) \subseteq rows
    BY DEF Counted, At
  <2>2. IsFiniteSet(Counted(s.place)) /\ Counted(s.place) \in SUBSET Row
    BY <1>3, <2>1, FS_Subset DEF Together, TypeOK
  <2>3. reserved_seats[s.place] = Seats(Counted(s.place))
    BY <1>3, <1>4 DEF Together, Tally
  <2> QED BY <2>2, <2>3, SeatsTyped
<1>6. \A x \in PlacesOf(K) : reserved_seats'[x] = reserved_seats[x]
  <2>1. reserved_seats \in [Place -> Int] /\ PlacesOf(K) \subseteq Place
    BY <1>3 DEF TypeOK, PlacesOf
  <2> QED BY <1>2, <1>4, <1>5, <2>1
<1>7. \A x \in Orders : SamePapers(x)
  BY <1>2, SamePapersWhen
<1>8. RowsUsedGrow
  BY <1>2, <1>3, UsedSame
<1>9. \/ op \in Confirmation /\ Selling(T, o)
      \/ op = "cancel" /\ Undoing(T, o)
  BY <1>1, <1>2, WhichPhase
<1> DEFINE Goes == /\ U # {} => Phase(op, U, o)'
                   /\ U = {} /\ (op = "cancel" => RowsOf(o)' = {}) => Rest(o)'
<1>10. ASSUME op \in Confirmation, Selling(T, o)
       PROVE  Goes
  <2>1. Selling(U, o)'
    <3>1. U = (T \ {s}) \cup {} /\ SamePapers(o)
          /\ s.do \notin {"block", "find_tickets", "ticket"}
      BY <1>3, <1>4, <1>7
    <3>2. \A m \in {} : m.do \in {"tier", "occurrence", "undo", "give", "clamp"}
      OBVIOUS
    <3> QED BY <1>3, <1>10, <3>1, <3>2, SellingQuiet
  <2> QED BY <1>3, <1>10, <2>1, SellingOn
<1>11. ASSUME op = "cancel", Undoing(T, o)
       PROVE  Goes
  <2>1. Undoing(U, o)'
    <3>1. U = (T \ {s}) \cup {} /\ SamePapers(o)
          /\ s.do \notin {"status", "void", "unblock"}
      BY <1>3, <1>4, <1>7
    <3>2. \A m \in {} : m.do \in {"give", "clamp", "delete_rows"}
      OBVIOUS
    <3> QED BY <1>3, <1>11, <3>1, <3>2, UndoingQuiet
  <2> QED BY <1>3, <1>11, <2>1, UndoingOn
<1>12. /\ U # {} => Phase(op, U, o)'
       /\ U = {} /\ (op = "cancel" => RowsOf(o)' = {}) => Rest(o)'
  BY <1>9, <1>10, <1>11
<1>13. "clamp" \notin SeatKinds
  BY DEF SeatKinds
<1> HIDE DEF Goes
<1> QED BY <1>1, <1>2, <1>6, <1>7, <1>8, <1>12, <1>13, QuietKept

-----------------------------------------------------------------------------
(* How handlers start.                                                      *)

(* A handler that has just learnt what it has to do.                        *)
LEMMA StartsTogether ==
    ASSUME NEW K \in SUBSET Orders, Calm(K),
           NEW w \in Worker, NEW o \in K, NEW op \in Operation, NEW U,
           \A v \in Worker : v # w => task'[v] = task[v],
           \A v \in Worker : v # w /\ InFlight(v) => task[v].order # o,
           InFlight(w) => /\ task[w].order = o /\ task[w].op = "webhook"
                          /\ task[w].todo = {Do("confirm", 0)},
           task'[w].op = op, task'[w].order = o, task'[w].todo = U, U # {},
           \A t \in U : PlainStep(op, t) /\ t.do \notin Mid \cup {"give"},
           op = "cancel" => /\ Do("release_tiers", 0) \in U
                            /\ Do("release", 0) \in U
                            /\ \A t \in U : t.do # "delete_rows",
           Phase(op, U, o),
           orders' = orders, sales' = sales, rows_used' = rows_used,
           tickets' = tickets, blocked' = blocked, rows' = rows,
           reserved_seats' = reserved_seats
    PROVE  Together(K)'
<1>1. TypeOK /\ Together(K)
  BY DEF Calm, IInv
<1>2. \A x \in Orders : SameOrder(x)
  <2>1. \A x \in Orders : SamePapers(x)
    BY SamePapersWhen
  <2> QED BY <2>1 DEF SameOrder, RowsOf
<1>3. RowsUsedGrow
  BY <1>1, UsedSame
<1>4. Phase(op, U, o)'
  BY <1>2, <1>3, KeepsPhase
<1>5. Plain(w)'
  BY DEF Plain
<1>6. \A i : Do("delete_rows", i).do = "delete_rows"
  BY DEF Do
<1>7. SeatTask(w)'
  <2>1. op # "cancel" => Taking(w)'
    BY DEF Taking, Mid
  <2>2. op = "cancel" => Releasing(U, o)'
    BY <1>6 DEF Releasing
  <2> QED BY <2>1, <2>2 DEF SeatTask, Confirmation
<1>8. ASSUME NEW r \in RowsOf(o), NEW x \in Place, x \in {r.occurrence, r.tier}
      PROVE  /\ ~ (InFlight(w) /\ Missing(w, r, x))
             /\ ~ (InFlight(w)' /\ Missing(w, r, x)')
  <2>1. \A i : /\ Do("tier", i).do \in Mid /\ Do("occurrence", i).do \in Mid
               /\ Do("undo", i).do \in Mid
    BY DEF Do, Mid
  <2>2. ~ (InFlight(w) /\ Missing(w, r, x))
    <3>1. \A i : /\ Do("tier", i) # Do("confirm", 0)
                 /\ Do("occurrence", i) # Do("confirm", 0)
                 /\ Do("undo", i) # Do("confirm", 0)
      BY DEF Do
    <3> QED BY <3>1 DEF Missing
  <2>3. ~ Missing(w, r, x)'
    <3>1. \A i : Do("tier", i) \notin U /\ Do("occurrence", i) \notin U
                 /\ Do("undo", i) \notin U
      BY <2>1
    <3>2. op = "cancel" =>
             ~ (/\ x = r.tier => Do("release_tiers", 0) \notin U
                /\ x = r.occurrence => Do("release", 0) \notin U)
      BY <1>8
    <3> QED BY <3>1, <3>2 DEF Missing
  <2> QED BY <2>2, <2>3
<1>9. InFlight(w)' => task'[w].order = o
  OBVIOUS
<1>10. Tally(K)'
  BY <1>8, <1>9, AllCounted
<1>11. IsFiniteSet(rows)'
  BY <1>1 DEF Together
<1>12. InFlight(w)'
  BY DEF InFlight
<1>13. Phase(task[w].op, task[w].todo, o)'
  BY <1>4
<1> QED BY <1>2, <1>3, <1>5, <1>7, <1>9, <1>10, <1>11, <1>12,
           <1>13, TogetherKept, SMTT(60)

(* An order that can be confirmed has nothing yet.                          *)
LEMMA OpeningStarts ==
    ASSUME NEW o \in Orders, Rest(o), orders[o].status \in {"draft", "expired"},
           NEW op \in Confirmation
    PROVE  Phase(op, Confirming(o), o)
<1>1. Pristine(o)
  BY DEF Rest
<1>2. Do("sales", 0) \in Confirming(o) /\ Do("find_tickets", 0) \in Confirming(o)
      /\ Do("status", 0) \in Confirming(o)
      /\ \A i \in FirstOfDate(o) : Do("block", i) \in Confirming(o)
  BY DEF Confirming
<1> QED BY <1>1, <1>2 DEF Phase, Opening

(* The payment that has arrived confirms its order, or finds it confirmed.  *)
LEMMA ReadToConfirmTogether ==
    ASSUME NEW K \in SUBSET Orders, Calm(K),
           NEW w \in Worker, NEW s, ReadToConfirm(w, s),
           task[w].order \in K
    PROVE  Together(K)'
<1>1. PICK o, T, op : o = task[w].order /\ T = task[w].todo /\ op = task[w].op
  OBVIOUS
<1>2. /\ Current(w, s, "confirm")
      /\ orders' = orders /\ sales' = sales /\ rows_used' = rows_used
      /\ tickets' = tickets /\ blocked' = blocked
      /\ rows' = rows /\ reserved_seats' = reserved_seats
  BY <1>1 DEF ReadToConfirm, goods, seats, papers
<1>3. /\ TypeOK /\ o \in Orders /\ s \in T /\ s.do = "confirm" /\ Plain(w)
      /\ \A v \in Worker : v # w /\ InFlight(v) => task[v].order # o
      /\ \A t \in T : Stage["confirm"] <= Stage[t.do]
  BY <1>1, <1>2, Here
<1>4. op = "webhook" /\ Waiting(T, o)
  BY <1>1, <1>2, WhichPhase
<1>5. s = Do("confirm", 0) /\ T = {Do("confirm", 0)} /\ Rest(o)
  <2>1. s = Do("confirm", 0)
    BY <1>1, <1>3, SingleIs DEF Single
  <2>2. Do("collect", 0) \notin T
    BY <1>3 DEF Stage, Do
  <2> QED BY <1>3, <1>4, <2>1, <2>2 DEF Waiting
<1>8. CASE orders[o].status = "cancelled"
  <2>1. Raise(w)
    BY <1>1, <1>8 DEF ReadToConfirm
  <2>2. \A t \in T : t.do \notin Mid
    BY <1>5 DEF Do, Mid
  <2>3. op # "cancel"
    BY <1>4
  <2> QED BY <1>1, <1>2, <1>3, <1>5, <2>1, <2>2, <2>3, RaiseTogether
<1>6. CASE can_confirm_order(o, TRUE)
  <2>1. Then(w, s, Confirming(o))
    <3>1. orders[o].status # "cancelled"
      BY <1>6 DEF can_confirm_order
    <3> QED BY <1>1, <1>6, <3>1 DEF ReadToConfirm
  <2>2. orders[o].status \in {"draft", "expired"} /\ op \in Confirmation
    BY <1>4, <1>6 DEF can_confirm_order, Confirmation
  <2>3. Phase(op, Confirming(o), o) /\ op \in Operation
    BY <1>3, <1>5, <2>2, OpeningStarts, ConfirmingPlain
  <2>4. /\ \A t \in Confirming(o) :
              PlainStep(op, t) /\ t.do \notin Mid \cup {"give"}
        /\ Confirming(o) # {} /\ op # "cancel"
    BY <1>3, <2>2, ConfirmingPlain
  <2>5. /\ \A v \in Worker : v # w => task'[v] = task[v]
        /\ task'[w].todo = Confirming(o)
        /\ InFlight(w)' => task'[w].op = op /\ task'[w].order = o
    <3>1. PICK C : C = Confirming(o)
      OBVIOUS
    <3>2. Then(w, s, C)
      BY <2>1, <3>1
    <3>3. (task[w].todo \ {s}) \cup C = C
      BY <1>1, <1>5
    <3>4. /\ \A v \in Worker : v # w => task'[v] = task[v]
          /\ task'[w].todo = (task[w].todo \ {s}) \cup C
          /\ InFlight(w)' => task'[w].op = task[w].op /\ task'[w].order = task[w].order
      BY <1>3, <3>2, ThenIs
    <3> QED BY <1>1, <3>1, <3>3, <3>4
  <2>6. task'[w].op = op /\ task'[w].order = o
    BY <2>4, <2>5 DEF InFlight
  <2>7. InFlight(w) => /\ task[w].order = o /\ task[w].op = "webhook"
                       /\ task[w].todo = {Do("confirm", 0)}
    BY <1>1, <1>4, <1>5
  <2>8. PICK U : U = Confirming(o)
    OBVIOUS
  <2>9. /\ task'[w].op = op /\ task'[w].order = o /\ task'[w].todo = U /\ U # {}
        /\ \A v \in Worker : v # w => task'[v] = task[v]
        /\ Phase(op, U, o) /\ op \in Operation
        /\ \A t \in U : PlainStep(op, t) /\ t.do \notin Mid \cup {"give"}
    BY <2>3, <2>4, <2>5, <2>6, <2>8
  <2>10. o \in K
    BY <1>1
  <2> QED BY <1>2, <1>3, <2>4, <2>7, <2>9, <2>10, StartsTogether
<1>7. CASE ~ can_confirm_order(o, TRUE) /\ orders[o].status # "cancelled"
  <2>1. Then(w, s, {})
    BY <1>1, <1>7 DEF ReadToConfirm
  <2>2. (task[w].todo \ {s}) \cup {} = {}
    BY <1>1, <1>5
  <2>3. \A x \in Orders : SameOrder(x) /\ SamePapers(x)
    <3>1. \A x \in Orders : SamePapers(x)
      BY <1>2, SamePapersWhen
    <3> QED BY <1>2, <3>1 DEF SameOrder, RowsOf
  <2>4. RowsUsedGrow
    BY <1>2, <1>3, UsedSame
  <2>5. Rest(o)'
    BY <1>3, <1>5, <2>3, <2>4, KeepsRest
  <2>6. "confirm" \notin SeatKinds
    BY DEF SeatKinds
  <2>7. PICK U : U = (task[w].todo \ {s}) \cup {}
    OBVIOUS
  <2>8. U = {}
    BY <2>2, <2>7
  <2> QED BY <1>1, <1>2, <2>1, <2>3, <2>4, <2>5, <2>6, <2>7, <2>8, QuietKept
<1> QED BY <1>6, <1>7, <1>8

(* A cancellation has sales to reverse if the order it has read is          *)
(* confirmed, and an order confirmed without sales is over the plan.        *)
LEMMA CancellingStarts ==
    ASSUME NEW o \in Orders, TypeOK, Rest(o), can_cancel_order(o)
    PROVE  /\ Phase("cancel", Cancelling(o), o)
           /\ \A t \in Cancelling(o) :
                 /\ PlainStep("cancel", t) /\ t.do \notin Mid \cup {"give"}
                 /\ t.do # "delete_rows"
           /\ Do("release_tiers", 0) \in Cancelling(o)
           /\ Do("release", 0) \in Cancelling(o)
<1>1. \A do, i : Do(do, i).do = do /\ Do(do, i).line = i
  BY DEF Do
<1>2. ASSUME NEW t \in Cancelling(o)
      PROVE  /\ t.do \in {"status", "unblock", "void", "release_tiers", "release",
                          "quota", "storno", "restore"}
             /\ t = Do(t.do, t.line)
             /\ t.do # "restore" => t.line = 0
             /\ t.do \in {"quota", "storno", "restore"} => orders[o].status = "confirmed"
  BY <1>1, <1>2 DEF Cancelling
<1>3. \A t \in Cancelling(o) :
                 /\ PlainStep("cancel", t) /\ t.do \notin Mid \cup {"give", "clamp"}
                 /\ t.do # "delete_rows"
  BY <1>2 DEF PlainStep, Kinds, Single, Mid
<1>4. /\ Do("status", 0) \in Cancelling(o) /\ Do("unblock", 0) \in Cancelling(o)
      /\ Do("void", 0) \in Cancelling(o)
      /\ Do("release_tiers", 0) \in Cancelling(o)
      /\ Do("release", 0) \in Cancelling(o)
      /\ orders[o].status = "confirmed" =>
            Do("storno", 0) \in Cancelling(o) /\ Do("quota", 0) \in Cancelling(o)
  BY DEF Cancelling
<1>5. Phase("cancel", Cancelling(o), o)
  <2>1. CASE orders[o].status = "confirmed"
    <3>1. Full(o) \/ (Pristine(o) /\ OverQuota(o))
      BY <2>1 DEF Rest
    <3>2. Closing(Cancelling(o), o)
      BY <1>3, <1>4, <2>1, <3>1 DEF Closing
    <3> QED BY <3>2 DEF Phase
  <2>2. CASE orders[o].status # "confirmed"
    <3>1. orders[o].status \in {"draft", "expired"}
      BY <2>2 DEF can_cancel_order, TypeOK, OrderStatus
    <3>2. Bare(o)
      BY <3>1, PristineIsBare DEF Rest
    <3>3. Undoing(Cancelling(o), o)
      BY <1>2, <1>4, <2>2, <3>1, <3>2 DEF Undoing, Bare
    <3> QED BY <3>3 DEF Phase
  <2> QED BY <2>1, <2>2
<1> QED BY <1>3, <1>4, <1>5

(* A request finds its order at rest.                                       *)
LEMMA RequestTogether ==
    ASSUME NEW K \in SUBSET Orders, Calm(K),
           NEW w \in Worker, NEW o \in K, Request(w, o),
           AtRest(o)
    PROVE  Together(K)'
<1>1. TypeOK /\ Together(K)
  BY DEF Calm, IInv
<1>2. ASSUME NEW op \in Operation, NEW U, Start(w, op, o, U), U # {},
             \A t \in U : PlainStep(op, t) /\ t.do \notin Mid \cup {"give"},
             op = "cancel" => /\ Do("release_tiers", 0) \in U
                              /\ Do("release", 0) \in U
                              /\ \A t \in U : t.do # "delete_rows",
             Rest(o) => Phase(op, U, o)
      PROVE  Together(K)'
  <2>1. /\ \A v \in Worker : InFlight(v) => task[v].order # o
        /\ ~ InFlight(w)
        /\ task' = [task EXCEPT ![w] = [op |-> op, order |-> o, id |-> starts + 1,
                                        todo |-> U]]
        /\ orders' = orders /\ sales' = sales /\ rows_used' = rows_used
        /\ tickets' = tickets /\ blocked' = blocked
        /\ rows' = rows /\ reserved_seats' = reserved_seats
    BY <1>2 DEF Start, goods, seats, papers, AtRest
  <2>2. Rest(o)
    BY <1>1, <2>1 DEF Together, Papers
  <2>3. Phase(op, U, o)
    BY <1>2, <2>2
  <2>4. /\ \A v \in Worker : v # w => task'[v] = task[v]
        /\ task'[w].op = op /\ task'[w].order = o /\ task'[w].todo = U
    BY <1>1, <2>1 DEF TypeOK
  <2> QED BY <1>2, <2>1, <2>3, <2>4, StartsTogether
<1>3. ASSUME Confirm(w, o)
      PROVE  Together(K)'
  <2>1. Start(w, "confirm", o, Confirming(o)) /\ orders[o].status \in {"draft", "expired"}
    BY <1>3 DEF Confirm, can_confirm_order
  <2>2. "confirm" \in Confirmation
    BY DEF Confirmation
  <2>3. Rest(o) => Phase("confirm", Confirming(o), o)
    BY <2>1, <2>2, OpeningStarts
  <2> QED BY <1>2, <2>1, <2>2, <2>3, ConfirmingPlain
<1>4. ASSUME Cancel(w, o)
      PROVE  Together(K)'
  <2>1. Start(w, "cancel", o, Cancelling(o)) /\ can_cancel_order(o)
    BY <1>4 DEF Cancel
  <2>2. Rest(o)
    BY <1>1, <2>1 DEF Together, Papers
  <2>3. "cancel" \in Operation
    BY DEF Operation
  <2> QED BY <1>1, <1>2, <2>1, <2>2, <2>3, CancellingStarts
<1>5. ASSUME Complete(w, o)
      PROVE  Together(K)'
  <2>1. Start(w, "complete", o, {Do("status", 0)}) /\ orders[o].status = "confirmed"
    BY <1>5 DEF Complete
  <2>2. Rest(o) => Phase("complete", {Do("status", 0)}, o)
    BY <2>1 DEF Phase, Finishing
  <2>3. \A t \in {Do("status", 0)} :
           PlainStep("complete", t) /\ t.do \notin Mid \cup {"give"}
    BY DEF PlainStep, Kinds, Mid, Do
  <2>4. "complete" \in Operation
    BY DEF Operation
  <2> QED BY <1>2, <2>1, <2>2, <2>3, <2>4
<1>6. ASSUME Webhook(w, o)
      PROVE  Together(K)'
  <2>1. Start(w, "webhook", o, {Do("collect", 0), Do("confirm", 0)})
    BY <1>6 DEF Webhook
  <2>2. Rest(o) => Phase("webhook", {Do("collect", 0), Do("confirm", 0)}, o)
    BY DEF Phase, Waiting
  <2>3. \A t \in {Do("collect", 0), Do("confirm", 0)} :
           PlainStep("webhook", t) /\ t.do \notin Mid \cup {"give"}
    BY DEF PlainStep, Kinds, Mid, Do
  <2>4. "webhook" \in Operation
    BY DEF Operation
  <2> QED BY <1>2, <2>1, <2>2, <2>3, <2>4
<1> QED BY <1>3, <1>4, <1>5, <1>6 DEF Request

-----------------------------------------------------------------------------
(* Steps on seats.                                                          *)

(* Missing, for a confirmation by w with steps T and for a cancellation.    *)
Untaken(T, w, r, x) ==
    \E i \in EventLines(r.order) :
        /\ r = NewRow(w, i)
        /\ \/ Do("tier", i) \in T
           \/ Do("occurrence", i) \in T /\ x = r.occurrence
           \/ Do("undo", i) \in T /\ Give(x, r, i) \notin T
Given(T, r, x) ==
    /\ x = r.tier => Do("release_tiers", 0) \notin T
    /\ x = r.occurrence => Do("release", 0) \notin T
    /\ Give(x, r, 0) \notin T

(* The rows that are missing before and after the steps of the handler of   *)
(* order o change from T to U.                                              *)
TakingMoves(T, U, w, o) ==
    /\ \A r, x : r.order # o => (Uncounted(r, x)' <=> Uncounted(r, x))
    /\ \A r, x : r.order = o => (Uncounted(r, x) <=> Untaken(T, w, r, x))
    /\ \A r, x : r.order = o => (Uncounted(r, x)' <=> Untaken(U, w, r, x))
ReleasingMoves(T, U, o) ==
    /\ \A r, x : r.order # o => (Uncounted(r, x)' <=> Uncounted(r, x))
    /\ \A r, x : r.order = o => (Uncounted(r, x) <=> Given(T, r, x))
    /\ \A r, x : r.order = o => (Uncounted(r, x)' <=> U # {} /\ Given(U, r, x))

(* What a step of a confirmation starts from, and what it changes: rows of  *)
(* other orders are counted as before.                                      *)
LEMMA TakingHere ==
    ASSUME NEW K \in SUBSET Orders, Calm(K),
           NEW w \in Worker, NEW do, NEW s, Current(w, s, do),
           NEW o \in K, o = task[w].order, NEW T, T = task[w].todo,
           task[w].op \in Confirmation,
           NEW more, Then(w, s, more), NEW U, U = (T \ {s}) \cup more
    PROVE  /\ TypeOK /\ o \in Orders /\ s \in T /\ s.do = do /\ GoodStep(o, s)
           /\ \A t \in T : NotAfter(s, t) /\ PlainStep(task[w].op, t)
           /\ Taking(w) /\ IsFiniteSet(rows) /\ Tally(K)
           /\ \A i : NewRow(w, i).order = o
           /\ TakingMoves(T, U, w, o)
<1>1. /\ TypeOK /\ Tasks /\ o \in Orders /\ InFlight(w) /\ Plain(w) /\ SeatTask(w)
      /\ \A v \in Worker : v # w /\ InFlight(v) => task[v].order # o
      /\ s \in T /\ s.do = do /\ Together(K)
  BY Here DEF Calm, IInv
<1>2. GoodStep(o, s) /\ \A t \in T : NotAfter(s, t)
  BY <1>1, CurrentGood
<1>3. /\ \A v \in Worker : v # w => task'[v] = task[v]
      /\ task'[w].todo = U
      /\ InFlight(w)' => /\ task'[w].op = task[w].op /\ task'[w].order = o
                         /\ task'[w].id = task[w].id
  BY <1>1, ThenIs
<1>4. InFlight(w)' => \A i : NewRow(w, i)' = NewRow(w, i)
  BY <1>3 DEF NewRow
<1>5. \A r, x : Missing(w, r, x) <=> Untaken(T, w, r, x)
  BY DEF Missing, Untaken, Confirmation
<1>6. \A r, x : InFlight(w)' => (Missing(w, r, x)' <=> Untaken(U, w, r, x))
  BY <1>3, <1>4 DEF Missing, Untaken, Confirmation
<1>7. \A r, x : ~ InFlight(w)' => ~ Untaken(U, w, r, x)
  BY <1>3 DEF Untaken, InFlight
<1>8. \A r, x :
         /\ r.order # o => (Uncounted(r, x)' <=> Uncounted(r, x))
         /\ r.order = o =>
               /\ Uncounted(r, x) <=> InFlight(w) /\ Missing(w, r, x)
               /\ Uncounted(r, x)' <=> InFlight(w)' /\ Missing(w, r, x)'
  BY <1>1, <1>3, UncountedMoves
<1>9. \A i : NewRow(w, i).order = o
  BY DEF NewRow
<1>10. TakingMoves(T, U, w, o)
  BY <1>1, <1>5, <1>6, <1>7, <1>8 DEF TakingMoves
<1> QED BY <1>1, <1>2, <1>9, <1>10 DEF SeatTask, Plain, Together

(* What it changes, alone.                                                  *)
LEMMA TakingMoved ==
    ASSUME NEW K \in SUBSET Orders, Calm(K),
           NEW w \in Worker, NEW do, NEW s, Current(w, s, do),
           task[w].op \in Confirmation, task[w].order \in K, NEW more, Then(w, s, more)
    PROVE  TakingMoves(task[w].todo, (task[w].todo \ {s}) \cup more, w, task[w].order)
<1>1. PICK o, T, U : /\ o = task[w].order /\ T = task[w].todo
                     /\ U = (T \ {s}) \cup more
  OBVIOUS
<1>2. TakingMoves(T, U, w, o)
  BY <1>1, TakingHere
<1> QED BY <1>1, <1>2

(* The same for a cancellation.                                             *)
LEMMA ReleasingHere ==
    ASSUME NEW K \in SUBSET Orders, Calm(K),
           NEW w \in Worker, NEW do, NEW s, Current(w, s, do),
           NEW o \in K, o = task[w].order, NEW T, T = task[w].todo,
           task[w].op = "cancel",
           NEW more, Then(w, s, more), NEW U, U = (T \ {s}) \cup more
    PROVE  ReleasingMoves(T, U, o)
<1>1. /\ TypeOK /\ Tasks /\ o \in Orders /\ InFlight(w) /\ Plain(w) /\ SeatTask(w)
      /\ \A v \in Worker : v # w /\ InFlight(v) => task[v].order # o
      /\ s \in T /\ s.do = do /\ Together(K)
  BY Here DEF Calm, IInv
<1>3. /\ \A v \in Worker : v # w => task'[v] = task[v]
      /\ task'[w].todo = U
      /\ InFlight(w)' => /\ task'[w].op = task[w].op /\ task'[w].order = o
  BY <1>1, ThenIs
<1>4. InFlight(w)' <=> U # {}
  BY <1>3 DEF InFlight
<1>5. \A r, x : Missing(w, r, x) <=> Given(T, r, x)
  BY DEF Missing, Given, Confirmation
<1>6. \A r, x : InFlight(w)' => (Missing(w, r, x)' <=> Given(U, r, x))
  BY <1>3 DEF Missing, Given, Confirmation
<1>7. \A r, x :
         /\ r.order # o => (Uncounted(r, x)' <=> Uncounted(r, x))
         /\ r.order = o =>
               /\ Uncounted(r, x) <=> InFlight(w) /\ Missing(w, r, x)
               /\ Uncounted(r, x)' <=> InFlight(w)' /\ Missing(w, r, x)'
  BY <1>1, <1>3, UncountedMoves
<1> QED BY <1>1, <1>4, <1>5, <1>6, <1>7 DEF ReleasingMoves

(* A step of a confirmation that is about seats.                            *)
LEMMA TakingTogether ==
    ASSUME NEW K \in SUBSET Orders, Calm(K),
           TypeOK', NEW w \in Worker, NEW do, NEW s, Current(w, s, do),
           NEW o \in K, o = task[w].order, NEW T, T = task[w].todo,
           task[w].op \in Confirmation, Selling(T, o),
           do \notin {"block", "find_tickets", "ticket"},
           NEW more, Then(w, s, more),
           \A m \in more : /\ m.do \in {"tier", "occurrence", "undo", "give", "clamp"}
                           /\ PlainStep(task[w].op, m),
           orders' = orders, sales' = sales, rows_used' = rows_used,
           tickets' = tickets, blocked' = blocked,
           \A x \in Orders : x # o => RowsOf(x)' = RowsOf(x),
           InFlight(w)' => Taking(w)', IsFiniteSet(rows)', Tally(K)'
    PROVE  Together(K)'
<1>1. PICK U, op : U = (T \ {s}) \cup more /\ op = task[w].op
  OBVIOUS
<1>2. /\ TypeOK /\ o \in Orders /\ s \in T /\ s.do = do /\ InFlight(w) /\ Plain(w)
      /\ \A v \in Worker : v # w /\ InFlight(v) => task[v].order # o
  BY Here
<1>3. /\ \A v \in Worker : v # w => task'[v] = task[v]
      /\ task'[w].todo = U
      /\ InFlight(w)' => task'[w].op = op /\ task'[w].order = o
  BY <1>1, <1>2, ThenIs
<1>4. \A x \in Orders : SamePapers(x)
  BY SamePapersWhen
<1>5. RowsUsedGrow
  BY <1>2, UsedSame
<1>6. Selling(U, o)'
  <2>1. SamePapers(o) /\ s.do \notin {"block", "find_tickets", "ticket"}
    BY <1>2, <1>4
  <2>2. \A m \in more : m.do \in {"tier", "occurrence", "undo", "give", "clamp"}
    OBVIOUS
  <2> QED BY <1>1, <1>2, <2>1, <2>2, SellingQuiet
<1>7. Phase(op, U, o)' /\ (U = {} => Rest(o)')
  BY <1>1, <1>2, <1>6, SellingOn
<1>8. InFlight(w)' => Plain(w)'
  BY <1>1, <1>2, <1>3 DEF Plain
<1>9. InFlight(w)' => SeatTask(w)'
  BY <1>1, <1>3 DEF SeatTask, Confirmation
<1>10. InFlight(w)' => Phase(task[w].op, task[w].todo, o)'
  BY <1>3, <1>7
<1>11. ~ InFlight(w)' => Rest(o)'
  BY <1>3, <1>7 DEF InFlight
<1>12. \A x \in Orders : x # o => SameOrder(x)
  BY <1>4 DEF SameOrder
<1>13. InFlight(w) => task[w].order = o
  OBVIOUS
<1>14. InFlight(w)' => task'[w].order = o
  BY <1>3
<1> QED BY <1>2, <1>3, <1>5, <1>8, <1>9, <1>10, <1>11, <1>12, <1>13, <1>14, TogetherKept

(* A step of a cancellation that is about seats.                            *)
LEMMA ReleasingTogether ==
    ASSUME NEW K \in SUBSET Orders, Calm(K),
           NEW w \in Worker, NEW do, NEW s, Current(w, s, do),
           NEW o \in K, o = task[w].order, NEW T, T = task[w].todo,
           task[w].op = "cancel", Undoing(T, o),
           do \notin {"status", "void", "unblock"},
           NEW more, Then(w, s, more),
           \A m \in more : /\ m.do \in {"give", "clamp", "delete_rows"}
                           /\ PlainStep(task[w].op, m),
           orders' = orders, sales' = sales, rows_used' = rows_used,
           tickets' = tickets, blocked' = blocked,
           \A x \in Orders : x # o => RowsOf(x)' = RowsOf(x),
           NEW U, U = (T \ {s}) \cup more,
           Releasing(U, o)', U = {} => RowsOf(o)' = {},
           IsFiniteSet(rows)', Tally(K)'
    PROVE  Together(K)'
<1>1. /\ TypeOK /\ o \in Orders /\ s \in T /\ s.do = do /\ InFlight(w) /\ Plain(w)
      /\ \A v \in Worker : v # w /\ InFlight(v) => task[v].order # o
  BY Here
<1>2. /\ \A v \in Worker : v # w => task'[v] = task[v]
      /\ task'[w].todo = U
      /\ InFlight(w)' => task'[w].op = "cancel" /\ task'[w].order = o
  BY <1>1, ThenIs
<1>3. \A x \in Orders : SamePapers(x)
  BY SamePapersWhen
<1>4. RowsUsedGrow
  BY <1>1, UsedSame
<1>5. Undoing(U, o)'
  <2>1. SamePapers(o) /\ s.do \notin {"status", "void", "unblock"}
    BY <1>1, <1>3
  <2>2. \A m \in more : m.do \in {"give", "clamp", "delete_rows"}
    OBVIOUS
  <2> QED BY <1>1, <2>1, <2>2, UndoingQuiet
<1>6. /\ Phase("cancel", U, o)'
      /\ U = {} /\ RowsOf(o)' = {} => Rest(o)'
  BY <1>1, <1>5, UndoingOn
<1>7. InFlight(w)' => Plain(w)'
  BY <1>1, <1>2 DEF Plain
<1>8. InFlight(w)' => SeatTask(w)'
  BY <1>2 DEF SeatTask, Confirmation
<1>9. InFlight(w)' => Phase(task[w].op, task[w].todo, o)'
  BY <1>2, <1>6
<1>10. ~ InFlight(w)' => Rest(o)'
  BY <1>2, <1>6 DEF InFlight
<1>11. \A x \in Orders : x # o => SameOrder(x)
  BY <1>3 DEF SameOrder
<1>12. InFlight(w) => task[w].order = o
  OBVIOUS
<1>13. InFlight(w)' => task'[w].order = o
  BY <1>2
<1>14. \A v \in Worker : v # w => task'[v] = task[v]
  BY <1>2
<1>15. \A v \in Worker : v # w /\ InFlight(v) => task[v].order # o
  BY <1>1
<1>16. InFlight(w)' => /\ Plain(w)' /\ SeatTask(w)'
                       /\ Phase(task[w].op, task[w].todo, o)'
  BY <1>7, <1>8, <1>9
<1> QED BY <1>4, <1>10, <1>11, <1>12, <1>13, <1>14, <1>15, <1>16, TogetherKept

(* A row that is counted at one place more.                                 *)
LEMMA CountOneMore ==
    ASSUME NEW K \in SUBSET Orders, TypeOK, IsFiniteSet(rows), Tally(K), rows' = rows,
           NEW r \in rows, NEW p \in Place,
           p \in {r.occurrence, r.tier}, Uncounted(r, p), ~ Uncounted(r, p)',
           \A y \in rows, x \in Place : (y # r \/ x # p) /\ x \in {y.occurrence, y.tier} =>
              (Uncounted(y, x)' <=> Uncounted(y, x)),
           reserved_seats' = [reserved_seats EXCEPT ![p] = @ + r.qty]
    PROVE  Tally(K)'
<1>1. \A x \in Place : x # p => Counted(x)' = Counted(x)
  BY DEF Counted, At
<1>2. r \in Counted(p)' /\ Counted(p)' \ {r} = Counted(p)
  BY DEF Counted, At
<1>3. PICK S : S = Counted(p)'
  OBVIOUS
<1>4. S \in SUBSET Row /\ IsFiniteSet(S)
  <2>1. S \subseteq rows
    BY <1>3 DEF Counted, At
  <2> QED BY <2>1, FS_Subset DEF TypeOK
<1>5. Seats(S) = r.qty + Seats(S \ {r}) /\ Seats(S \ {r}) \in Nat /\ r.qty \in Nat
  BY <1>2, <1>3, <1>4, SeatsWithRow
<1>6. p \in PlacesOf(K) => reserved_seats[p] = Seats(S \ {r})
  BY <1>2, <1>3 DEF Tally
<1>7. reserved_seats'[p] = reserved_seats[p] + r.qty
      /\ \A x \in Place : x # p => reserved_seats'[x] = reserved_seats[x]
  BY DEF TypeOK
<1>8. p \in PlacesOf(K) => reserved_seats'[p] = Seats(S)
  BY <1>5, <1>6, <1>7
<1> QED BY <1>1, <1>3, <1>7, <1>8 DEF Tally, PlacesOf

(* And at one place less.                                                   *)
LEMMA CountOneLess ==
    ASSUME NEW K \in SUBSET Orders, TypeOK, IsFiniteSet(rows), Tally(K), rows' = rows,
           NEW r \in rows, NEW p \in Place,
           p \in {r.occurrence, r.tier}, ~ Uncounted(r, p), Uncounted(r, p)',
           \A y \in rows, x \in Place : (y # r \/ x # p) /\ x \in {y.occurrence, y.tier} =>
              (Uncounted(y, x)' <=> Uncounted(y, x)),
           reserved_seats' = [reserved_seats EXCEPT ![p] = @ - r.qty]
    PROVE  Tally(K)'
<1>1. \A x \in Place : x # p => Counted(x)' = Counted(x)
  BY DEF Counted, At
<1>2. r \in Counted(p) /\ Counted(p)' = Counted(p) \ {r}
  BY DEF Counted, At
<1>3. PICK S : S = Counted(p)
  OBVIOUS
<1>4. S \in SUBSET Row /\ IsFiniteSet(S)
  <2>1. S \subseteq rows
    BY <1>3 DEF Counted, At
  <2> QED BY <2>1, FS_Subset DEF TypeOK
<1>5. Seats(S) = r.qty + Seats(S \ {r}) /\ Seats(S \ {r}) \in Nat /\ r.qty \in Nat
  BY <1>2, <1>3, <1>4, SeatsWithRow
<1>6. p \in PlacesOf(K) => reserved_seats[p] = Seats(S)
  BY <1>3 DEF Tally
<1>7. reserved_seats'[p] = reserved_seats[p] - r.qty
      /\ \A x \in Place : x # p => reserved_seats'[x] = reserved_seats[x]
  BY DEF TypeOK
<1>8. p \in PlacesOf(K) => reserved_seats'[p] = Seats(S \ {r})
  BY <1>5, <1>6, <1>7
<1> QED BY <1>1, <1>2, <1>3, <1>7, <1>8 DEF Tally, PlacesOf

(* While a line is being reserved no other step of that kind is pending.    *)
LEMMA OnlyMid ==
    ASSUME NEW w \in Worker, Taking(w), NEW T, T = task[w].todo,
           NEW s \in T, s.do \in Mid
    PROVE  /\ \A t \in T : t.do \in Mid => t = s
           /\ \A t \in T : t.do = "reserve" => s.line < t.line
           /\ NewRow(w, s.line) \in rows
           /\ \A t \in T : t.do = "give" =>
                 /\ t = Give(NewRow(w, t.line).tier, NewRow(w, t.line), t.line)
                 /\ s = Do("undo", t.line)
<1>1. \A i : Do("undo", i).do \in Mid
  BY DEF Do, Mid
<1> QED BY <1>1 DEF Taking

(* The row of a line is inserted, unless the order holds one already.       *)
LEMMA ReserveRowTogether ==
    ASSUME NEW K \in SUBSET Orders, Calm(K),
           TypeOK', NEW w \in Worker, NEW s, ReserveRow(w, s),
           task[w].order \in K
    PROVE  Together(K)'
<1>1. PICK o, T, i, R : /\ o = task[w].order /\ T = task[w].todo /\ i = s.line
                        /\ R = NewRow(w, s.line)
  OBVIOUS
<1>2. /\ Current(w, s, "reserve")
      /\ orders' = orders /\ sales' = sales /\ rows_used' = rows_used
      /\ tickets' = tickets /\ blocked' = blocked
      /\ reserved_seats' = reserved_seats
  BY DEF ReserveRow, goods, papers
<1>3. PICK more, next : Then(w, s, more) /\ next = (T \ {s}) \cup more
  BY DEF ReserveRow
<1>4. task[w].op \in Confirmation /\ Selling(T, o)
  BY <1>1, <1>2, WhichPhase
<1>5. /\ TypeOK /\ o \in Orders /\ s \in T /\ s.do = "reserve" /\ GoodStep(o, s)
      /\ \A t \in T : NotAfter(s, t) /\ PlainStep(task[w].op, t)
      /\ Taking(w) /\ IsFiniteSet(rows) /\ Tally(K)
      /\ R.order = o
  <2>1. R.order = o
    BY <1>1 DEF NewRow
  <2>2. PICK do : do = "reserve"
    OBVIOUS
  <2>3. Current(w, s, do)
    BY <1>2, <2>2
  <2>4. /\ TypeOK /\ o \in Orders /\ s \in T /\ s.do = do /\ GoodStep(o, s)
        /\ \A t \in T : NotAfter(s, t) /\ PlainStep(task[w].op, t)
        /\ Taking(w) /\ IsFiniteSet(rows) /\ Tally(K)
    BY <1>1, <1>3, <1>4, <2>3, TakingHere
  <2> QED BY <2>1, <2>2, <2>4
<1>6. i \in EventLines(o) /\ i \in Nat
  BY <1>1, <1>5, EventTyped DEF GoodStep
<1>7. s = Do("reserve", i)
  BY <1>1, <1>5 DEF PlainStep
<1>8. \A t \in T : t.do \notin Mid \cup {"give"}
  <2>1. ASSUME NEW t \in T, t.do \in Mid
        PROVE  FALSE
    <3>1. t.line < i
      BY <1>1, <1>5, <2>1, OnlyMid
    <3>2. NotAfter(s, t)
      BY <1>5
    <3>3. Stage[t.do] = 6 /\ Stage["reserve"] = 6
          /\ Rank(s) = 1 /\ Rank(t) \in {2, 3, 5}
      BY <1>5, <2>1 DEF Mid, Stage, Rank, InLine
    <3>4. t.line \in Nat
      BY <1>5, <2>1, CurrentGood, <1>1 DEF TypeOK, Task, Step
    <3> QED BY <1>1, <1>5, <1>6, <3>1, <3>2, <3>3, <3>4 DEF NotAfter
  <2>2. \A k : Do("undo", k).do \in Mid
    BY DEF Do, Mid
  <2>3. ASSUME NEW t \in T, t.do = "give"
        PROVE  FALSE
    BY <1>1, <1>5, <2>1, <2>2, <2>3 DEF Taking
  <2> QED BY <2>1, <2>3
<1>9. \A k : Do("tier", k).do \in Mid /\ Do("occurrence", k).do \in Mid
             /\ Do("undo", k).do \in Mid
  BY DEF Do, Mid
<1>10. \A r, x : ~ Untaken(T, w, r, x)
  BY <1>8, <1>9 DEF Untaken
<1>11. CASE \E r \in rows : SameKey(r, o, i)
  <2>1. rows' = rows /\ Then(w, s, {})
    BY <1>1, <1>11 DEF ReserveRow
  <2>2. PICK U : U = (T \ {s}) \cup {}
    OBVIOUS
  <2>3. \A t \in U : t \in T
    BY <2>2
  <2>4. \A r, x : ~ Untaken(U, w, r, x)
    BY <1>8, <1>9, <2>3 DEF Untaken
  <2>5. \A r, x : Uncounted(r, x)' <=> Uncounted(r, x)
    <3>1. PICK M : M = {} /\ Then(w, s, M) /\ U = (T \ {s}) \cup M
      BY <2>1, <2>2
    <3>2. Current(w, s, "reserve") /\ task[w].op \in Confirmation
      BY <1>2, <1>4
    <3>3. TakingMoves(task[w].todo, (task[w].todo \ {s}) \cup M, w, task[w].order)
      BY <3>1, <3>2, TakingMoved
    <3>4. TakingMoves(T, U, w, o)
      BY <1>1, <3>1, <3>3
    <3> QED BY <1>10, <2>4, <3>4 DEF TakingMoves
  <2>6. Tally(K)' /\ IsFiniteSet(rows)'
    BY <1>2, <1>5, <2>1, <2>5, CountedMoves
  <2>7. InFlight(w)' => Taking(w)'
    <3>1. task'[w].todo = U
      BY <1>1, <1>5, <2>1, <2>2, ThenIs
    <3> QED BY <1>8, <2>3, <3>1 DEF Taking
  <2>8. \A x \in Orders : RowsOf(x)' = RowsOf(x)
    BY <2>1 DEF RowsOf
  <2> QED BY <1>1, <1>2, <1>4, <2>1, <2>6, <2>7, <2>8, TakingTogether
<1>12. CASE ~ \E r \in rows : SameKey(r, o, i)
  <2>1. PICK do \in {"tier", "occurrence"} :
           /\ do = "occurrence" => R.tier = None
           /\ Then(w, s, {Do(do, i)}) /\ rows' = rows \cup {R}
    BY <1>1, <1>12 DEF ReserveRow
  <2>2. PICK m, U : m = Do(do, i) /\ U = (T \ {s}) \cup {m}
    OBVIOUS
  <2>3. R \notin rows
    BY <1>1, <1>5, <1>12 DEF SameKey, NewRow
  <2>4. m.do = do /\ m.line = i
    BY <2>2 DEF Do
  <2>5. TakingMoves(T, U, w, o)
    <3>1. Then(w, s, {m})
      BY <2>1, <2>2
    <3>2. Current(w, s, "reserve") /\ task[w].op \in Confirmation
      BY <1>2, <1>4
    <3>3. TakingMoves(task[w].todo, (task[w].todo \ {s}) \cup {m}, w, task[w].order)
      BY <3>1, <3>2, TakingMoved
    <3> QED BY <1>1, <2>2, <3>3
  <2>6. \A r \in rows : \A x : ~ Untaken(U, w, r, x)
    <3> SUFFICES ASSUME NEW r \in rows, NEW x, NEW k \in EventLines(r.order),
                        r = NewRow(w, k)
                 PROVE  /\ Do("tier", k) \notin U /\ Do("occurrence", k) \notin U
                        /\ Do("undo", k) \notin U
      BY DEF Untaken
    <3>1. k # i
      BY <1>1, <2>3
    <3>2. Do("tier", k) # m /\ Do("occurrence", k) # m /\ Do("undo", k) # m
      BY <2>4, <3>1 DEF Do
    <3> QED BY <1>8, <1>9, <2>2, <3>2
  <2>7. \A x \in {R.occurrence, R.tier} \ {None} : Untaken(U, w, R, x)
    <3> SUFFICES ASSUME NEW x \in {R.occurrence, R.tier} \ {None}
                 PROVE  Untaken(U, w, R, x)
      OBVIOUS
    <3>1. R = NewRow(w, i) /\ i \in EventLines(R.order)
      BY <1>1, <1>5, <1>6
    <3>2. Do("tier", i) \in U \/ (Do("occurrence", i) \in U /\ x = R.occurrence)
      BY <2>1, <2>2
    <3> QED BY <3>1, <3>2 DEF Untaken
  <2>8. \A x \in Place : Counted(x)' = Counted(x)
    <3>1. None \notin Place
      BY LifecycleAssumption DEF Place
    <3>2. \A r \in rows : \A x : Uncounted(r, x)' <=> Uncounted(r, x)
      BY <1>10, <2>5, <2>6 DEF TakingMoves
    <3>3. \A x \in Place : x \in {R.occurrence, R.tier} => Uncounted(R, x)'
      BY <1>5, <2>5, <2>7, <3>1 DEF TakingMoves
    <3> QED BY <2>1, <2>3, <3>2, <3>3 DEF Counted, At
  <2>9. Tally(K)'
    BY <1>2, <1>5, <2>8 DEF Tally, PlacesOf
  <2>10. IsFiniteSet(rows)'
    BY <1>5, <2>1, FS_AddElement
  <2>11. InFlight(w)' => Taking(w)'
    <3> SUFFICES ASSUME InFlight(w)' PROVE Taking(w)'
      OBVIOUS
    <3>1. /\ task'[w].todo = U
          /\ task'[w].order = o /\ task'[w].id = task[w].id
      BY <1>1, <1>5, <2>1, <2>2, ThenIs
    <3>2. NewRow(w, i)' = R
      BY <1>1, <3>1 DEF NewRow
    <3>3. \A t \in U : t.do \in Mid => t = m
      BY <1>8, <2>2
    <3>4. \A t \in U : t.do \notin {"give", "quota"}
      BY <1>4, <1>8, <2>1, <2>2, <2>4 DEF Selling
    <3>5. ASSUME NEW t \in U, t.do = "reserve"
          PROVE  i < t.line
      <4>1. t \in T /\ t # s
        BY <2>1, <2>2, <2>4, <3>5
      <4>2. NotAfter(s, t) /\ t = Do("reserve", t.line)
        BY <1>5, <3>5, <4>1 DEF PlainStep
      <4>3. t.line # i
        BY <1>7, <4>1, <4>2
      <4>4. t.line \in Nat
        BY <1>1, <1>5, <4>1 DEF TypeOK, Task, Step
      <4> QED BY <1>1, <1>5, <1>6, <3>5, <4>2, <4>3, <4>4 DEF NotAfter, Stage
    <3>6. R \in rows'
      BY <2>1
    <3> QED BY <2>4, <3>1, <3>2, <3>3, <3>4, <3>5, <3>6 DEF Taking
  <2>12. \A x \in Orders : x # o => RowsOf(x)' = RowsOf(x)
    BY <1>5, <2>1 DEF RowsOf
  <2>13. \A n \in {m} : /\ n.do \in {"tier", "occurrence", "undo", "give", "clamp"}
                        /\ PlainStep(task[w].op, n)
    BY <1>4, <2>1, <2>2, <2>4 DEF PlainStep, Kinds, Confirmation, Single
  <2>14. Then(w, s, {m})
    BY <2>1, <2>2
  <2> QED BY <1>1, <1>2, <1>4, <2>9, <2>10, <2>11, <2>12, <2>13, <2>14, TakingTogether
<1> QED BY <1>11, <1>12

(* A line that is being reserved: its row is there, and no seats are being  *)
(* given back unless it is being undone.                                    *)
LEMMA MidHere ==
    ASSUME NEW K \in SUBSET Orders, Calm(K),
           NEW w \in Worker, NEW do \in Mid, NEW s, Current(w, s, do),
           NEW o \in K, o = task[w].order, NEW T, T = task[w].todo,
           NEW i, i = s.line, NEW R, R = NewRow(w, i)
    PROVE  /\ TypeOK /\ o \in Orders /\ s \in T /\ s.do = do
           /\ task[w].op \in Confirmation /\ Selling(T, o)
           /\ IsFiniteSet(rows) /\ Tally(K)
           /\ i \in EventLines(o) /\ R \in rows /\ R.order = o /\ R.qty \in Nat
           /\ R.occurrence \in Occurrence /\ R.tier \in Tier \cup {None}
           /\ do = "tier" => R.tier # None
           /\ s = Do(do, i)
           /\ \A t \in T : /\ t.do \in Mid => t = s
                           /\ t.do = "reserve" => i < t.line
                           /\ t.do # "quota"
           /\ \A t \in T : t.do = "give" =>
                 do = "undo" /\ t = Give(R.tier, R, i) /\ NotAfter(s, t)
<1>1. task[w].op \in Confirmation /\ Selling(T, o)
  BY WhichPhase DEF Mid
<1>2. /\ TypeOK /\ Tasks /\ Together(K) /\ o \in Orders /\ Plain(w) /\ SeatTask(w)
      /\ s \in T /\ s.do = do /\ GoodStep(o, s) /\ \A t \in T : NotAfter(s, t)
  BY Here, CurrentGood DEF Calm, IInv
<1>3. Taking(w)
  BY <1>1, <1>2 DEF SeatTask
<1>4. i \in EventLines(o) /\ (do = "tier" => R.tier # None)
  BY <1>2 DEF GoodStep, NewRow, Mid
<1>5. /\ \A t \in T : t.do \in Mid => t = s
      /\ \A t \in T : t.do = "reserve" => i < t.line
      /\ R \in rows
      /\ \A t \in T : t.do = "give" =>
            /\ t = Give(NewRow(w, t.line).tier, NewRow(w, t.line), t.line)
            /\ s = Do("undo", t.line)
  BY <1>2, <1>3, OnlyMid
<1>6. R.order = o /\ R \in Row
  BY <1>2, <1>5 DEF NewRow, TypeOK
<1>7. R.occurrence \in Occurrence /\ R.tier \in Tier \cup {None} /\ R.qty \in Nat
  BY <1>6 DEF Row
<1>8. s = Do(do, i)
  BY <1>2 DEF Plain, PlainStep, Mid
<1>9. ASSUME NEW t \in T, t.do = "give"
      PROVE  do = "undo" /\ t = Give(R.tier, R, i) /\ NotAfter(s, t)
  <2>1. t = Give(NewRow(w, t.line).tier, NewRow(w, t.line), t.line)
        /\ Do(do, i) = Do("undo", t.line)
    BY <1>5, <1>8, <1>9
  <2>2. do = "undo" /\ i = t.line
    BY <2>1 DEF Do
  <2> QED BY <1>2, <2>1, <2>2
<1>10. \A t \in T : t.do # "quota"
  BY <1>1 DEF Selling
<1> QED BY <1>1, <1>2, <1>4, <1>5, <1>6, <1>7, <1>8, <1>9, <1>10 DEF Together

(* The row alone of its order can be missing before a step, and after it if *)
(* the steps that follow are of the same line.                              *)
LEMMA OthersTaken ==
    ASSUME NEW w \in Worker, NEW o, o = task[w].order, NEW T, NEW i,
           \A t \in T : t.do \in Mid => t.line = i
    PROVE  \A r, x : r # NewRow(w, i) => ~ Untaken(T, w, r, x)
<1>1. \A k : /\ Do("tier", k).do \in Mid /\ Do("tier", k).line = k
             /\ Do("occurrence", k).do \in Mid /\ Do("occurrence", k).line = k
             /\ Do("undo", k).do \in Mid /\ Do("undo", k).line = k
  BY DEF Do, Mid
<1> QED BY <1>1 DEF Untaken

(* Handlers that are taking seats go on with one step of the same line.     *)
LEMMA TakingOn ==
    ASSUME NEW w \in Worker, NEW o, o = task[w].order, TypeOK,
           NEW s, NEW more, Then(w, s, more), NEW T, T = task[w].todo,
           NEW i, NEW R, R = NewRow(w, i), R \in rows', NEW m,
           \A t \in T \ {s} : /\ t.do \notin Mid
                              /\ t.do = "reserve" => i < t.line
                              /\ t.do \notin {"quota", "give"},
           m.do \in Mid, m.line = i,
           \A t \in more : t = m \/ (m = Do("undo", i) /\ m \in more /\ t = Give(R.tier, R, i))
    PROVE  InFlight(w)' => Taking(w)'
<1> SUFFICES ASSUME InFlight(w)' PROVE Taking(w)'
  OBVIOUS
<1>1. PICK U : U = (T \ {s}) \cup more
  OBVIOUS
<1>2. /\ task'[w].todo = U
      /\ task'[w].order = o /\ task'[w].id = task[w].id
  BY <1>1, ThenIs
<1>3. NewRow(w, i)' = R
  BY <1>2 DEF NewRow
<1>4. Give(R.tier, R, i).do = "give" /\ Give(R.tier, R, i).line = i
  BY DEF Give
<1>5. \A t \in U : t.do \in Mid => t = m
  BY <1>1, <1>4 DEF Mid
<1>6. \A t \in U : t.do \notin {"reserve", "quota"} \/ (t.do = "reserve" /\ i < t.line)
  BY <1>1, <1>4 DEF Mid
<1>7. \A t \in U : t.do = "give" => t = Give(R.tier, R, i) /\ Do("undo", i) \in U
  BY <1>1 DEF Mid
<1> QED BY <1>2, <1>3, <1>4, <1>5, <1>6, <1>7 DEF Taking

(* The seats of the tier are taken, or the row is to go again.              *)
LEMMA ReserveTierTogether ==
    ASSUME NEW K \in SUBSET Orders, Calm(K),
           TypeOK', NEW w \in Worker, NEW s, ReserveTier(w, s),
           task[w].order \in K
    PROVE  Together(K)'
<1>1. PICK o, T, i, R : /\ o = task[w].order /\ T = task[w].todo /\ i = s.line
                        /\ R = NewRow(w, i)
  OBVIOUS
<1>2. /\ Current(w, s, "tier")
      /\ orders' = orders /\ sales' = sales /\ rows_used' = rows_used
      /\ tickets' = tickets /\ blocked' = blocked /\ rows' = rows
  BY DEF ReserveTier, goods, papers
<1>3. /\ TypeOK /\ o \in Orders /\ s \in T /\ s.do = "tier"
      /\ task[w].op \in Confirmation /\ Selling(T, o)
      /\ IsFiniteSet(rows) /\ Tally(K)
      /\ i \in EventLines(o) /\ R \in rows /\ R.order = o /\ R.qty \in Nat
      /\ R.occurrence \in Occurrence /\ R.tier \in Tier
      /\ s = Do("tier", i)
      /\ \A t \in T : /\ t.do \in Mid => t = s
                      /\ t.do = "reserve" => i < t.line
                      /\ t.do \notin {"quota", "give"}
  BY <1>1, <1>2, MidHere DEF Mid
<1>4. R.tier \in Place /\ R.tier # R.occurrence
  BY <1>3, LifecycleAssumption DEF Place
<1>5. PICK m, M, U : /\ M = {m} /\ U = (T \ {s}) \cup M /\ Then(w, s, M)
                     /\ \/ /\ m = Do("occurrence", i)
                           /\ reserved_seats' = [reserved_seats EXCEPT ![R.tier] = @ + R.qty]
                        \/ m = Do("undo", i) /\ reserved_seats' = reserved_seats
  BY <1>1 DEF ReserveTier, TakeSeats
<1>6. m.do \in {"occurrence", "undo"} /\ m.line = i /\ m = Do(m.do, m.line)
  <2>1. \A do, k : Do(do, k).do = do /\ Do(do, k).line = k
    BY DEF Do
  <2> QED BY <1>5, <2>1
<1>7. TakingMoves(T, U, w, o)
  <2>1. Then(w, s, M) /\ U = (T \ {s}) \cup M
    BY <1>5
  <2>2. /\ Current(w, s, "tier") /\ task[w].op \in Confirmation
        /\ o = task[w].order /\ T = task[w].todo
    BY <1>1, <1>2, <1>3
  <2>3. TakingMoves(task[w].todo, (task[w].todo \ {s}) \cup M, w, task[w].order)
    BY <2>1, <2>2, TakingMoved, Zenon
  <2> QED BY <2>1, <2>2, <2>3
<1>8. \A r, x : r # R => ~ Untaken(T, w, r, x) /\ ~ Untaken(U, w, r, x)
  <2>1. \A t \in T : t.do \in Mid => t.line = i
    BY <1>1, <1>3
  <2>2. \A t \in U : t.do \in Mid => t.line = i
    BY <1>5, <1>6, <2>1
  <2> QED BY <1>1, <2>1, <2>2, OthersTaken
<1>9. \A x : Untaken(T, w, R, x)
  BY <1>1, <1>3 DEF Untaken
<1>10. Do("tier", i) \notin U
  <2>1. Do("tier", i) # m
    BY <1>6 DEF Do
  <2> QED BY <1>3, <1>5, <2>1
<1>11. Tally(K)'
  <2>1. CASE /\ m = Do("occurrence", i)
             /\ reserved_seats' = [reserved_seats EXCEPT ![R.tier] = @ + R.qty]
    <3>1. Do("undo", i) \notin U
      <4>1. Do("undo", i) # m /\ Do("undo", i) # s /\ Do("undo", i).do \in Mid
        BY <1>3, <2>1 DEF Do, Mid
      <4> QED BY <1>3, <1>5, <4>1
    <3>2. Untaken(U, w, R, R.occurrence)
      BY <1>1, <1>3, <1>5, <2>1 DEF Untaken
    <3>3. ~ Untaken(U, w, R, R.tier)
      <4> SUFFICES ASSUME NEW k \in EventLines(o), R = NewRow(w, k),
                          \/ Do("tier", k) \in U
                          \/ Do("occurrence", k) \in U /\ R.tier = R.occurrence
                          \/ Do("undo", k) \in U
                   PROVE  FALSE
        BY <1>3 DEF Untaken
      <4>1. /\ Do("tier", k).do \in Mid /\ Do("tier", k).line = k
            /\ Do("undo", k).do \in Mid /\ Do("undo", k).line = k
        BY DEF Do, Mid
      <4>2. \A t \in U : t.do \in Mid => t.line = i
        BY <1>1, <1>3, <1>5, <1>6
      <4>3. k = i
        BY <1>4, <4>1, <4>2
      <4> QED BY <1>4, <1>10, <3>1, <4>3
    <3>4. Uncounted(R, R.tier) /\ ~ Uncounted(R, R.tier)'
      BY <1>3, <1>7, <1>9, <3>3 DEF TakingMoves
    <3>5. \A y \in rows, x \in Place :
             (y # R \/ x # R.tier) /\ x \in {y.occurrence, y.tier} =>
              (Uncounted(y, x)' <=> Uncounted(y, x))
      <4>1. \A y \in rows : \A x : y # R => (Uncounted(y, x)' <=> Uncounted(y, x))
        BY <1>7, <1>8 DEF TakingMoves
      <4>2. Uncounted(R, R.occurrence)' <=> Uncounted(R, R.occurrence)
        BY <1>3, <1>7, <1>9, <3>2 DEF TakingMoves
      <4> QED BY <4>1, <4>2
    <3> QED BY <1>2, <1>3, <1>4, <2>1, <3>4, <3>5, CountOneMore
  <2>2. CASE m = Do("undo", i) /\ reserved_seats' = reserved_seats
    <3>1. \A x : Untaken(U, w, R, x)
      <4>1. \A x : Give(x, R, i) \notin U
        <5>1. \A x : Give(x, R, i).do = "give"
          BY DEF Give
        <5> QED BY <1>3, <1>5, <1>6, <5>1
      <4> QED BY <1>1, <1>3, <1>5, <2>2, <4>1 DEF Untaken
    <3>2. \A y \in rows : \A x : Uncounted(y, x)' <=> Uncounted(y, x)
      BY <1>3, <1>7, <1>8, <1>9, <3>1 DEF TakingMoves
    <3> QED BY <1>2, <1>3, <2>2, <3>2, CountedMoves
  <2> QED BY <1>5, <2>1, <2>2
<1>12. InFlight(w)' => Taking(w)'
  <2>1. \A t \in T \ {s} : /\ t.do \notin Mid
                           /\ t.do = "reserve" => i < t.line
                           /\ t.do \notin {"quota", "give"}
    BY <1>3
  <2>2. R \in rows'
    BY <1>2, <1>3
  <2>3. m.do \in Mid
    BY <1>6 DEF Mid
  <2>4. \A t \in M : t = m
    BY <1>5
  <2> QED BY <1>1, <1>3, <1>5, <1>6, <2>1, <2>2, <2>3, <2>4, TakingOn
<1>13. \A x \in Orders : x # o => RowsOf(x)' = RowsOf(x)
  BY <1>2 DEF RowsOf
<1>14. \A n \in M : /\ n.do \in {"tier", "occurrence", "undo", "give", "clamp"}
                    /\ PlainStep(task[w].op, n)
  <2>1. PlainStep(task[w].op, m)
    BY <1>3, <1>6 DEF PlainStep, Kinds, Confirmation, Single
  <2> QED BY <1>5, <1>6, <2>1
<1>15. IsFiniteSet(rows)'
  BY <1>2, <1>3
<1> QED BY <1>1, <1>2, <1>3, <1>5, <1>11, <1>12, <1>13, <1>14, <1>15, TakingTogether

(* A confirmation between two lines takes no seats and gives none back.     *)
LEMMA BetweenLines ==
    ASSUME NEW w \in Worker, TypeOK, NEW s, NEW more, Then(w, s, more),
           NEW U, U = (task[w].todo \ {s}) \cup more,
           \A t \in U : t.do \notin Mid \cup {"give"}
    PROVE  /\ InFlight(w)' => Taking(w)'
           /\ \A r, x : ~ Untaken(U, w, r, x)
<1>1. task'[w].todo = U
  BY ThenIs
<1>2. \A k : Do("tier", k).do \in Mid /\ Do("occurrence", k).do \in Mid
             /\ Do("undo", k).do \in Mid
  BY DEF Do, Mid
<1> QED BY <1>1, <1>2 DEF Taking, Untaken

(* The seats of the date are taken, or the tier gives its seats back and    *)
(* the row is to go again.                                                  *)
LEMMA ReserveOccurrenceTogether ==
    ASSUME NEW K \in SUBSET Orders, Calm(K),
           TypeOK', NEW w \in Worker, NEW s, ReserveOccurrence(w, s),
           task[w].order \in K
    PROVE  Together(K)'
<1>1. PICK o, T, i, R : /\ o = task[w].order /\ T = task[w].todo /\ i = s.line
                        /\ R = NewRow(w, i)
  OBVIOUS
<1>2. /\ Current(w, s, "occurrence")
      /\ orders' = orders /\ sales' = sales /\ rows_used' = rows_used
      /\ tickets' = tickets /\ blocked' = blocked /\ rows' = rows
  BY DEF ReserveOccurrence, goods, papers
<1>3. /\ TypeOK /\ o \in Orders /\ s \in T /\ s.do = "occurrence"
      /\ task[w].op \in Confirmation /\ Selling(T, o)
      /\ IsFiniteSet(rows) /\ Tally(K)
      /\ i \in EventLines(o) /\ R \in rows /\ R.order = o /\ R.qty \in Nat
      /\ R.occurrence \in Occurrence /\ R.tier \in Tier \cup {None}
      /\ s = Do("occurrence", i)
      /\ \A t \in T : /\ t.do \in Mid => t = s
                      /\ t.do = "reserve" => i < t.line
                      /\ t.do \notin {"quota", "give"}
  BY <1>1, <1>2, MidHere DEF Mid
<1>4. R.occurrence \in Place /\ R.tier # R.occurrence
  BY <1>3, LifecycleAssumption DEF Place
<1>5. PICK M, U : /\ U = (T \ {s}) \cup M /\ Then(w, s, M)
                  /\ \/ /\ M = {}
                        /\ reserved_seats' = [reserved_seats EXCEPT ![R.occurrence] = @ + R.qty]
                     \/ /\ M = {Do("undo", i)} \cup
                                  (IF R.tier = None THEN {} ELSE {Give(R.tier, R, i)})
                        /\ reserved_seats' = reserved_seats
  BY <1>1 DEF ReserveOccurrence, TakeSeats
<1>6. Then(w, s, M) /\ U = (T \ {s}) \cup M
  BY <1>5
<1>7. TakingMoves(T, U, w, o)
  <2>1. /\ Current(w, s, "occurrence") /\ task[w].op \in Confirmation
        /\ o = task[w].order /\ T = task[w].todo
    BY <1>1, <1>2, <1>3
  <2>2. TakingMoves(task[w].todo, (task[w].todo \ {s}) \cup M, w, task[w].order)
    BY <1>6, <2>1, TakingMoved, Zenon
  <2> QED BY <1>6, <2>1, <2>2
<1>8. \A r, x : r # R => ~ Untaken(T, w, r, x)
  <2>1. \A t \in T : t.do \in Mid => t.line = i
    BY <1>1, <1>3
  <2> QED BY <1>1, <2>1, OthersTaken
<1>9. \A x : Untaken(T, w, R, x) <=> x = R.occurrence
  <2>1. \A k : /\ Do("tier", k).do \in Mid /\ Do("undo", k).do \in Mid
               /\ Do("tier", k) # s /\ Do("undo", k) # s
    BY <1>3 DEF Do, Mid
  <2>2. \A k : Do("tier", k) \notin T /\ Do("undo", k) \notin T
    BY <1>3, <2>1
  <2> QED BY <1>1, <1>3, <2>2 DEF Untaken
<1>10. IsFiniteSet(rows)' /\ \A x \in Orders : x # o => RowsOf(x)' = RowsOf(x)
  BY <1>2, <1>3 DEF RowsOf
<1>11. \A t \in T \ {s} : /\ t.do \notin Mid
                          /\ t.do = "reserve" => i < t.line
                          /\ t.do \notin {"quota", "give"}
  BY <1>3
<1>12. CASE /\ M = {}
            /\ reserved_seats' = [reserved_seats EXCEPT ![R.occurrence] = @ + R.qty]
  <2>1. \A t \in U : t.do \notin Mid \cup {"give"}
    BY <1>5, <1>11, <1>12
  <2>2. (InFlight(w)' => Taking(w)') /\ \A r, x : ~ Untaken(U, w, r, x)
    BY <1>1, <1>3, <1>6, <2>1, BetweenLines
  <2>3. Uncounted(R, R.occurrence) /\ ~ Uncounted(R, R.occurrence)'
    BY <1>3, <1>7, <1>9, <2>2 DEF TakingMoves
  <2>4. \A y \in rows, x \in Place :
           (y # R \/ x # R.occurrence) /\ x \in {y.occurrence, y.tier} =>
              (Uncounted(y, x)' <=> Uncounted(y, x))
    BY <1>3, <1>7, <1>8, <1>9, <2>2 DEF TakingMoves
  <2>5. Tally(K)'
    BY <1>2, <1>3, <1>4, <1>12, <2>3, <2>4, CountOneMore
  <2>6. \A n \in M : /\ n.do \in {"tier", "occurrence", "undo", "give", "clamp"}
                     /\ PlainStep(task[w].op, n)
    BY <1>12
  <2> QED BY <1>1, <1>2, <1>3, <1>6, <1>10, <2>2, <2>5, <2>6, TakingTogether
<1>13. CASE /\ M = {Do("undo", i)} \cup
                     (IF R.tier = None THEN {} ELSE {Give(R.tier, R, i)})
            /\ reserved_seats' = reserved_seats
  <2>1. PICK m : m = Do("undo", i)
    OBVIOUS
  <2>2. m.do = "undo" /\ m.line = i /\ m \in M
        /\ \A t \in M : t = m \/ t = Give(R.tier, R, i)
    BY <1>13, <2>1 DEF Do
  <2>3. \A x : Give(x, R, i).do = "give" /\ Give(x, R, i).line = i /\ Give(x, R, i).place = x
    BY DEF Give
  <2>4. InFlight(w)' => Taking(w)'
    <3>1. m.do \in Mid
      BY <2>2 DEF Mid
    <3>2. \A t \in M : t = m \/ (m = Do("undo", i) /\ m \in M /\ t = Give(R.tier, R, i))
      BY <2>1, <2>2
    <3>3. R \in rows'
      BY <1>2, <1>3
    <3> QED BY <1>1, <1>3, <1>6, <1>11, <2>2, <3>1, <3>2, <3>3, TakingOn
  <2>5. \A r, x : r # R => ~ Untaken(U, w, r, x)
    <3>1. \A t \in U : t.do \in Mid => t.line = i
      BY <1>6, <1>11, <2>2, <2>3
    <3> QED BY <1>1, <3>1, OthersTaken
  <2>6. \A x \in Place : x \in {R.occurrence, R.tier} =>
            (Untaken(U, w, R, x) <=> x = R.occurrence)
    <3> SUFFICES ASSUME NEW x \in Place, x \in {R.occurrence, R.tier}
                 PROVE  Untaken(U, w, R, x) <=> x = R.occurrence
      OBVIOUS
    <3>1. CASE x = R.occurrence
      <4>1. Give(x, R, i) \notin U
        <5>1. Give(x, R, i) # m /\ Give(x, R, i) # Give(R.tier, R, i)
          BY <1>4, <2>2, <2>3, <3>1
        <5> QED BY <1>6, <1>11, <2>2, <2>3, <5>1
      <4>2. Do("undo", i) \in U
        BY <1>6, <2>1, <2>2
      <4> QED BY <1>1, <1>3, <3>1, <4>1, <4>2 DEF Untaken
    <3>2. CASE x # R.occurrence
      <4>1. x = R.tier /\ R.tier # None
        BY <3>2, LifecycleAssumption DEF Place
      <4>2. Give(x, R, i) \in U
        BY <1>6, <1>13, <4>1
      <4>3. \A t \in U : t.do \in Mid => t = m
        BY <1>6, <1>11, <2>2, <2>3 DEF Mid
      <4>4. \A k : /\ Do("tier", k).do \in Mid /\ Do("tier", k) # m
                   /\ Do("undo", k).do \in Mid /\ (Do("undo", k) = m => k = i)
        BY <2>1 DEF Do, Mid
      <4> QED BY <3>2, <4>2, <4>3, <4>4 DEF Untaken
    <3> QED BY <3>1, <3>2
  <2>7. \A y \in rows, x \in Place : x \in {y.occurrence, y.tier} =>
              (Uncounted(y, x)' <=> Uncounted(y, x))
    <3>1. \A y \in rows : \A x : y # R => (Uncounted(y, x)' <=> Uncounted(y, x))
      BY <1>7, <1>8, <2>5 DEF TakingMoves
    <3>2. \A x \in Place : x \in {R.occurrence, R.tier} =>
              (Uncounted(R, x)' <=> Uncounted(R, x))
      BY <1>3, <1>7, <1>9, <2>6 DEF TakingMoves
    <3> QED BY <3>1, <3>2
  <2>8. Tally(K)'
    BY <1>2, <1>3, <1>13, <2>7, CountedMoves
  <2>9. \A n \in M : /\ n.do \in {"tier", "occurrence", "undo", "give", "clamp"}
                     /\ PlainStep(task[w].op, n)
    <3>1. PlainStep(task[w].op, m)
      BY <1>3, <2>1, <2>2 DEF PlainStep, Kinds, Confirmation, Single
    <3>2. PlainStep(task[w].op, Give(R.tier, R, i))
      BY <1>3, <2>3 DEF PlainStep, Kinds, Confirmation, Single
    <3> QED BY <2>2, <2>3, <3>1, <3>2
  <2> QED BY <1>1, <1>2, <1>3, <1>6, <1>10, <2>4, <2>8, <2>9, TakingTogether
<1> QED BY <1>5, <1>12, <1>13

(* The row of a reservation that failed is not counted anywhere.            *)
LEMMA UndoRowTogether ==
    ASSUME NEW K \in SUBSET Orders, Calm(K),
           TypeOK', NEW w \in Worker, NEW s, UndoRow(w, s),
           task[w].order \in K
    PROVE  Together(K)'
<1>1. PICK o, T, i, R, M, U : /\ o = task[w].order /\ T = task[w].todo /\ i = s.line
                           /\ R = NewRow(w, i) /\ M = {} /\ U = (T \ {s}) \cup M
  OBVIOUS
<1>2. /\ Current(w, s, "undo") /\ Then(w, s, M)
      /\ orders' = orders /\ sales' = sales /\ rows_used' = rows_used
      /\ tickets' = tickets /\ blocked' = blocked
      /\ reserved_seats' = reserved_seats /\ rows' = rows \ {R}
  BY <1>1 DEF UndoRow, goods, papers
<1>3. /\ TypeOK /\ o \in Orders /\ s \in T /\ s.do = "undo"
      /\ task[w].op \in Confirmation /\ Selling(T, o)
      /\ IsFiniteSet(rows) /\ Tally(K)
      /\ i \in EventLines(o) /\ R \in rows /\ R.order = o
      /\ s = Do("undo", i)
      /\ \A t \in T : t.do \in Mid => t = s
      /\ \A t \in T : t.do = "give" => t = Give(R.tier, R, i) /\ NotAfter(s, t)
  BY <1>1, <1>2, MidHere DEF Mid
<1>4. \A t \in T : t.do # "give"
  <2> SUFFICES ASSUME NEW t \in T, t.do = "give" PROVE FALSE
    OBVIOUS
  <2>1. t.line = i /\ NotAfter(s, t)
    BY <1>3 DEF Give
  <2>2. Rank(s) = 5 /\ Rank(t) = 4 /\ Stage["give"] = 6 /\ Stage["undo"] = 6
    BY <1>3 DEF Rank, InLine, Stage
  <2>3. i \in Nat
    BY <1>3, EventTyped
  <2> QED BY <1>1, <1>3, <2>1, <2>2, <2>3 DEF NotAfter
<1>5. \A t \in U : t.do \notin Mid \cup {"give"}
  BY <1>1, <1>3, <1>4
<1>6. (InFlight(w)' => Taking(w)') /\ \A r, x : ~ Untaken(U, w, r, x)
  BY <1>1, <1>2, <1>3, <1>5, BetweenLines
<1>7. TakingMoves(T, U, w, o)
  <2>1. Then(w, s, M) /\ U = (T \ {s}) \cup M
    BY <1>1, <1>2
  <2>2. /\ Current(w, s, "undo") /\ task[w].op \in Confirmation
        /\ o = task[w].order /\ T = task[w].todo
    BY <1>1, <1>2, <1>3
  <2>3. TakingMoves(task[w].todo, (task[w].todo \ {s}) \cup M, w, task[w].order)
    BY <2>1, <2>2, TakingMoved
  <2> QED BY <2>1, <2>2, <2>3
<1>8. \A r, x : r # R => ~ Untaken(T, w, r, x)
  <2>1. \A t \in T : t.do \in Mid => t.line = i
    BY <1>1, <1>3
  <2> QED BY <1>1, <2>1, OthersTaken
<1>9. \A x : Untaken(T, w, R, x)
  <2>1. \A x : Give(x, R, i) \notin T
    BY <1>4 DEF Give
  <2> QED BY <1>1, <1>3, <2>1 DEF Untaken
<1>10. \A x \in Place : Counted(x)' = Counted(x)
  <2>1. \A r, x : r # R => (Uncounted(r, x)' <=> Uncounted(r, x))
    BY <1>6, <1>7, <1>8 DEF TakingMoves
  <2>2. \A x : Uncounted(R, x)
    BY <1>3, <1>7, <1>9 DEF TakingMoves
  <2> QED BY <1>2, <2>1, <2>2 DEF Counted, At
<1>11. Tally(K)'
  BY <1>2, <1>3, <1>10 DEF Tally, PlacesOf
<1>12. IsFiniteSet(rows)' /\ \A x \in Orders : x # o => RowsOf(x)' = RowsOf(x)
  <2>1. rows' \subseteq rows
    BY <1>2
  <2> QED BY <1>2, <1>3, <2>1, FS_Subset DEF RowsOf
<1>13. \A n \in M : /\ n.do \in {"tier", "occurrence", "undo", "give", "clamp"}
                     /\ PlainStep(task[w].op, n)
  BY <1>1
<1>14. task[w].op \in Confirmation /\ Selling(T, o)
  BY <1>3
<1> QED BY <1>1, <1>2, <1>6, <1>11, <1>12, <1>13, <1>14, TakingTogether

(* What a step of a cancellation changes, alone.                            *)
LEMMA ReleasingMoved ==
    ASSUME NEW K \in SUBSET Orders, Calm(K),
           NEW w \in Worker, NEW do, NEW s, Current(w, s, do),
           task[w].op = "cancel", task[w].order \in K, NEW more, Then(w, s, more)
    PROVE  ReleasingMoves(task[w].todo, (task[w].todo \ {s}) \cup more, task[w].order)
<1>1. PICK o, T, U : /\ o = task[w].order /\ T = task[w].todo
                     /\ U = (T \ {s}) \cup more
  OBVIOUS
<1>2. ReleasingMoves(T, U, o)
  BY <1>1, ReleasingHere
<1> QED BY <1>1, <1>2

(* Where a cancellation is.                                                 *)
LEMMA ReleaseHere ==
    ASSUME NEW K \in SUBSET Orders, Calm(K),
           NEW w \in Worker, NEW do, NEW s, Current(w, s, do),
           NEW o \in K, o = task[w].order, NEW T, T = task[w].todo,
           \/ do \in {"release_tiers", "release", "delete_rows"}
           \/ do = "give" /\ task[w].op = "cancel"
    PROVE  /\ TypeOK /\ o \in Orders /\ s \in T /\ s.do = do
           /\ task[w].op = "cancel" /\ Undoing(T, o) /\ Releasing(T, o)
           /\ IsFiniteSet(rows) /\ Tally(K) /\ GoodStep(o, s)
           /\ do # "give" => s = Do(do, 0)
           /\ \A t \in T : Stage[do] <= Stage[t.do]
           /\ \A r \in RowsOf(o) : /\ r \in rows /\ r.order = o /\ r \in Row
                                   /\ r.occurrence \in Occurrence
                                   /\ r.tier \in Tier \cup {None}
                                   /\ r.occurrence # r.tier
<1>1. task[w].op = "cancel" /\ Undoing(T, o)
  BY WhichPhase DEF Confirmation
<1>2. /\ TypeOK /\ Tasks /\ Together(K) /\ o \in Orders /\ Plain(w) /\ SeatTask(w)
      /\ s \in T /\ s.do = do /\ GoodStep(o, s)
      /\ \A t \in T : Stage[do] <= Stage[t.do]
  BY Here, CurrentGood DEF Calm, IInv
<1>3. Releasing(T, o)
  BY <1>1, <1>2 DEF SeatTask
<1>4. do # "give" => s = Do(do, 0)
  BY <1>2, SingleIs DEF Single
<1>5. ASSUME NEW r \in RowsOf(o)
      PROVE  /\ r \in rows /\ r.order = o /\ r \in Row
             /\ r.occurrence \in Occurrence
             /\ r.tier \in Tier \cup {None}
             /\ r.occurrence # r.tier
  <2>1. r \in rows /\ r.order = o /\ r \in Row
    BY <1>2 DEF RowsOf, TypeOK
  <2>2. r.occurrence \in Occurrence /\ r.tier \in Tier \cup {None}
    BY <2>1 DEF Row
  <2> QED BY <2>1, <2>2, LifecycleAssumption DEF Place
<1> QED BY <1>1, <1>2, <1>3, <1>4, <1>5 DEF Together

(* Seats of a tier go back when its date has refused.                       *)
LEMMA GiveBackTaking ==
    ASSUME NEW K \in SUBSET Orders, Calm(K),
           TypeOK', NEW w \in Worker, NEW s, GiveBack(w, s),
           task[w].order \in K,
           task[w].op \in Confirmation
    PROVE  Together(K)'
<1>1. PICK o, T, i, R, M, U : /\ o = task[w].order /\ T = task[w].todo /\ i = s.line
                              /\ R = NewRow(w, i) /\ M = {[s EXCEPT !.do = "clamp"]}
                              /\ U = (T \ {s}) \cup M
  OBVIOUS
<1>2. /\ Current(w, s, "give") /\ Then(w, s, M)
      /\ reserved_seats' = [reserved_seats EXCEPT ![s.place] = @ - s.row.qty]
      /\ orders' = orders /\ sales' = sales /\ rows_used' = rows_used
      /\ tickets' = tickets /\ blocked' = blocked /\ rows' = rows
  BY <1>1 DEF GiveBack, goods, papers
<1>3. Selling(T, o)
  BY <1>1, <1>2, WhichPhase DEF Confirmation
<1>4. /\ TypeOK /\ Tasks /\ Together(K) /\ o \in Orders /\ Plain(w) /\ SeatTask(w)
      /\ s \in T /\ s.do = "give" /\ GoodStep(o, s) /\ s \in Step
  BY <1>1, <1>2, Here, CurrentGood DEF Calm, IInv
<1>5. Taking(w) /\ IsFiniteSet(rows) /\ Tally(K)
  BY <1>4 DEF SeatTask, Together
<1>6. PICK u \in T : u = Do("undo", i) /\ s = Give(R.tier, R, i)
  BY <1>1, <1>4, <1>5 DEF Taking
<1>7. u.do = "undo" /\ u.line = i /\ u.do \in Mid /\ u # s
  BY <1>4, <1>6 DEF Do, Mid
<1>8. /\ \A t \in T : t.do \in Mid => t = u
      /\ \A t \in T : t.do = "reserve" => i < t.line
      /\ R \in rows
      /\ \A t \in T : t.do = "give" =>
            t = Give(NewRow(w, t.line).tier, NewRow(w, t.line), t.line)
                                       /\ u = Do("undo", t.line)
  BY <1>1, <1>5, <1>7, OnlyMid
<1>9. \A t \in T : t.do = "give" => t = s
  <2> SUFFICES ASSUME NEW t \in T, t.do = "give" PROVE t = s
    OBVIOUS
  <2>1. t.line = i
    BY <1>7, <1>8 DEF Do
  <2> QED BY <1>1, <1>6, <1>8, <2>1
<1>10. s.place = R.tier /\ s.row = R /\ R.tier \in Place /\ R.order = o /\ R.qty \in Nat
       /\ R.occurrence \in Occurrence /\ R.tier # R.occurrence /\ i \in EventLines(o)
  <2>1. s.place = R.tier /\ s.row = R
    BY <1>6 DEF Give
  <2>2. s.place \in Place /\ R \in Row /\ R.order = o
    BY <1>1, <1>4, <1>8 DEF GoodStep, TypeOK, NewRow
  <2>3. R.occurrence \in Occurrence /\ R.tier \in Tier \cup {None} /\ R.qty \in Nat
    BY <2>2 DEF Row
  <2>4. R.tier # R.occurrence
    BY <2>3, LifecycleAssumption DEF Place
  <2>5. i \in EventLines(o)
    <3>1. GoodStep(o, u)
      BY <1>1, <1>4 DEF Tasks, GoodTask
    <3> QED BY <1>7, <3>1 DEF GoodStep
  <2> QED BY <2>1, <2>2, <2>3, <2>4, <2>5
<1>11. \A t \in M : t.do = "clamp" /\ PlainStep(task[w].op, t)
  <2>1. [s EXCEPT !.do = "clamp"].do = "clamp"
    BY <1>4 DEF Step
  <2>2. \A t : t.do = "clamp" => PlainStep(task[w].op, t)
    BY DEF PlainStep, Kinds, Confirmation, Single
  <2> QED BY <1>1, <2>1, <2>2
<1>12. TakingMoves(T, U, w, o)
  <2>1. TakingMoves(task[w].todo, (task[w].todo \ {s}) \cup M, w, task[w].order)
    BY <1>2, TakingMoved
  <2> QED BY <1>1, <2>1
<1>13. \A r, x : r # R => ~ Untaken(T, w, r, x) /\ ~ Untaken(U, w, r, x)
  <2>1. \A t \in T : t.do \in Mid => t.line = i
    BY <1>7, <1>8
  <2>2. \A t \in U : t.do \in Mid => t.line = i
    BY <1>1, <1>11, <2>1 DEF Mid
  <2> QED BY <1>1, <2>1, <2>2, OthersTaken
<1>14. \A x : Untaken(U, w, R, x)
  <2>1. \A x, k : Give(x, R, k) \notin U
    <3>1. \A x, k : Give(x, R, k).do = "give"
      BY DEF Give
    <3> QED BY <1>1, <1>9, <1>11, <3>1
  <2>2. Do("undo", i) \in U
    BY <1>1, <1>6, <1>7
  <2> QED BY <1>1, <1>10, <2>1, <2>2 DEF Untaken
<1>15. \A x : Untaken(T, w, R, x) <=> x # R.tier
  <2>1. \A k : /\ Do("tier", k) \notin T /\ Do("occurrence", k) \notin T
               /\ Do("undo", k) \in T => k = i
    <3>1. \A k : /\ Do("tier", k).do \in Mid /\ Do("tier", k) # u
                 /\ Do("occurrence", k).do \in Mid /\ Do("occurrence", k) # u
                 /\ Do("undo", k).do \in Mid /\ Do("undo", k).line = k
      BY <1>7 DEF Do, Mid
    <3> QED BY <1>7, <1>8, <3>1
  <2>2. \A x : Give(x, R, i) \in T <=> x = R.tier
    <3>1. \A x : Give(x, R, i).do = "give" /\ Give(x, R, i).place = x
      BY DEF Give
    <3> QED BY <1>4, <1>6, <1>9, <1>10, <3>1
  <2>3. Do("undo", i) \in T
    BY <1>6
  <2> QED BY <1>1, <1>10, <2>1, <2>2, <2>3 DEF Untaken
<1>16. Tally(K)'
  <2>1. ~ Uncounted(R, R.tier) /\ Uncounted(R, R.tier)'
    BY <1>10, <1>12, <1>14, <1>15 DEF TakingMoves
  <2>2. \A y \in rows, x \in Place :
           (y # R \/ x # R.tier) /\ x \in {y.occurrence, y.tier} =>
              (Uncounted(y, x)' <=> Uncounted(y, x))
    <3>1. \A y, x : y # R => (Uncounted(y, x)' <=> Uncounted(y, x))
      BY <1>12, <1>13 DEF TakingMoves
    <3>2. \A x : x # R.tier => (Uncounted(R, x)' <=> Uncounted(R, x))
      BY <1>10, <1>12, <1>14, <1>15 DEF TakingMoves
    <3> QED BY <3>1, <3>2
  <2>3. reserved_seats' = [reserved_seats EXCEPT ![R.tier] = @ - R.qty]
    BY <1>2, <1>10
  <2>4. TypeOK /\ IsFiniteSet(rows) /\ Tally(K) /\ rows' = rows /\ R \in rows
        /\ R.tier \in Place /\ R.tier \in {R.occurrence, R.tier}
    BY <1>2, <1>4, <1>5, <1>8, <1>10
  <2> QED BY <2>1, <2>2, <2>3, <2>4, CountOneLess
<1>17. InFlight(w)' => Taking(w)'
  <2> SUFFICES ASSUME InFlight(w)' PROVE Taking(w)'
    OBVIOUS
  <2>1. /\ task'[w].todo = U
        /\ task'[w].order = o /\ task'[w].id = task[w].id
    BY <1>1, <1>2, <1>4, ThenIs
  <2>2. NewRow(w, i)' = R
    BY <1>1, <2>1 DEF NewRow
  <2>3. \A t \in U : t.do \in Mid => t = u
    BY <1>1, <1>8, <1>11 DEF Mid
  <2>4. \A t \in U : t.do # "give" /\ t.do # "quota"
    BY <1>1, <1>3, <1>9, <1>11 DEF Selling
  <2>5. \A t \in U : t.do = "reserve" => i < t.line
    BY <1>1, <1>8, <1>11
  <2>6. R \in rows'
    BY <1>2, <1>8
  <2> QED BY <1>7, <2>1, <2>2, <2>3, <2>4, <2>5, <2>6 DEF Taking
<1>18. IsFiniteSet(rows)' /\ \A x \in Orders : x # o => RowsOf(x)' = RowsOf(x)
  BY <1>2, <1>5 DEF RowsOf
<1>19. \A n \in M : /\ n.do \in {"tier", "occurrence", "undo", "give", "clamp"}
                    /\ PlainStep(task[w].op, n)
  BY <1>11
<1>20. /\ Current(w, s, "give") /\ Then(w, s, M) /\ Selling(T, o)
       /\ o = task[w].order /\ T = task[w].todo
       /\ orders' = orders /\ sales' = sales /\ rows_used' = rows_used
       /\ tickets' = tickets /\ blocked' = blocked
  BY <1>1, <1>2, <1>3
<1> QED BY <1>16, <1>17, <1>18, <1>19, <1>20, TakingTogether

(* Seats of a cancelled order go back row by row.                           *)
LEMMA GiveBackReleasing ==
    ASSUME NEW K \in SUBSET Orders, Calm(K),
           NEW w \in Worker, NEW s, GiveBack(w, s),
           task[w].order \in K, task[w].op = "cancel"
    PROVE  Together(K)'
<1>1. PICK o, T, M, U : /\ o = task[w].order /\ T = task[w].todo
                        /\ M = {[s EXCEPT !.do = "clamp"]}
                        /\ U = (T \ {s}) \cup M
  OBVIOUS
<1>2. /\ Current(w, s, "give") /\ Then(w, s, M)
      /\ reserved_seats' = [reserved_seats EXCEPT ![s.place] = @ - s.row.qty]
      /\ orders' = orders /\ sales' = sales /\ rows_used' = rows_used
      /\ tickets' = tickets /\ blocked' = blocked /\ rows' = rows
  BY <1>1 DEF GiveBack, goods, papers
<1>3. /\ TypeOK /\ o \in Orders /\ s \in T /\ s.do = "give"
      /\ Undoing(T, o) /\ Releasing(T, o)
      /\ IsFiniteSet(rows) /\ Tally(K) /\ GoodStep(o, s)
      /\ \A r \in RowsOf(o) : /\ r \in rows /\ r.order = o /\ r \in Row
                              /\ r.occurrence \in Occurrence
                              /\ r.tier \in Tier \cup {None}
                              /\ r.occurrence # r.tier
  BY <1>1, <1>2, ReleaseHere
<1>4. PICK r, p : r = s.row /\ p = s.place
  OBVIOUS
<1>5. /\ s = Give(p, r, 0) /\ r \in RowsOf(o)
      /\ \/ p = r.tier /\ Do("release_tiers", 0) \notin T
         \/ p = r.occurrence /\ Do("release", 0) \notin T
  BY <1>3, <1>4 DEF Releasing
<1>6. p \in Place /\ r \in rows /\ r.order = o /\ r.occurrence # r.tier
  BY <1>3, <1>4, <1>5 DEF GoodStep
<1>7. \A t \in M : t.do = "clamp" /\ PlainStep(task[w].op, t)
  <2>1. [s EXCEPT !.do = "clamp"].do = "clamp"
    BY <1>5 DEF Give
  <2>2. \A t : t.do = "clamp" => PlainStep(task[w].op, t)
    BY DEF PlainStep, Kinds, Single
  <2> QED BY <1>1, <2>1, <2>2
<1>8. ReleasingMoves(T, U, o)
  <2>1. ReleasingMoves(task[w].todo, (task[w].todo \ {s}) \cup M, task[w].order)
    BY <1>2, ReleasingMoved
  <2> QED BY <1>1, <2>1
<1>9. \A k : /\ Do("release_tiers", k) \in U <=> Do("release_tiers", k) \in T
             /\ Do("release", k) \in U <=> Do("release", k) \in T
             /\ Do("delete_rows", k) \in U <=> Do("delete_rows", k) \in T
             /\ Do("quota", k) \in U <=> Do("quota", k) \in T
  BY <1>1, <1>3, <1>7 DEF Do
<1>10. \A y, x : Give(x, y, 0) \in U <=> Give(x, y, 0) \in T /\ (y # r \/ x # p)
  <2>1. \A y, x : /\ Give(x, y, 0).do = "give"
                  /\ Give(x, y, 0) = s <=> y = r /\ x = p
    BY <1>5 DEF Give
  <2> QED BY <1>1, <1>7, <2>1
<1>11. U # {}
  BY <1>1
<1>12. \A y, x : (y # r \/ x # p) => (Given(U, y, x) <=> Given(T, y, x))
  BY <1>9, <1>10 DEF Given
<1>13. ~ Given(T, r, p) /\ Given(U, r, p)
  BY <1>3, <1>5, <1>6, <1>9, <1>10 DEF Given
<1>14. Tally(K)'
  <2>1. ~ Uncounted(r, p) /\ Uncounted(r, p)'
    BY <1>6, <1>8, <1>11, <1>13 DEF ReleasingMoves
  <2>2. \A y \in rows, x \in Place : (y # r \/ x # p) /\ x \in {y.occurrence, y.tier} =>
              (Uncounted(y, x)' <=> Uncounted(y, x))
    BY <1>8, <1>11, <1>12 DEF ReleasingMoves
  <2>3. p \in {r.occurrence, r.tier}
        /\ reserved_seats' = [reserved_seats EXCEPT ![p] = @ - r.qty]
    BY <1>2, <1>4, <1>5
  <2> QED BY <1>2, <1>3, <1>6, <2>1, <2>2, <2>3, CountOneLess
<1>15. Releasing(U, o)'
  <2>1. \A t \in U : t.do = "give" => t \in T
    BY <1>1, <1>7
  <2>2. RowsOf(o)' = RowsOf(o)
    BY <1>2 DEF RowsOf
  <2> QED BY <1>3, <1>9, <2>1, <2>2 DEF Releasing
<1>16. IsFiniteSet(rows)' /\ \A x \in Orders : x # o => RowsOf(x)' = RowsOf(x)
  BY <1>2, <1>3 DEF RowsOf
<1>17. \A n \in M : /\ n.do \in {"give", "clamp", "delete_rows"}
                    /\ PlainStep(task[w].op, n)
  BY <1>7
<1> QED BY <1>1, <1>2, <1>3, <1>11, <1>14, <1>15, <1>16, <1>17, ReleasingTogether, ZenonT(40)

(* A cancellation reads the rows once for the tiers.                        *)
LEMMA ReleaseTiersTogether ==
    ASSUME NEW K \in SUBSET Orders, Calm(K),
           NEW w \in Worker, NEW s, release_tier_seats(w, s),
           task[w].order \in K
    PROVE  Together(K)'
<1>1. PICK o, T, M, U :
         /\ o = task[w].order /\ T = task[w].todo
         /\ M = {Give(r.tier, r, 0) : r \in {x \in RowsOf(o) : x.tier # None}}
         /\ U = (T \ {s}) \cup M
  OBVIOUS
<1>2. /\ Current(w, s, "release_tiers") /\ Then(w, s, M)
      /\ orders' = orders /\ sales' = sales /\ rows_used' = rows_used
      /\ tickets' = tickets /\ blocked' = blocked /\ rows' = rows
      /\ reserved_seats' = reserved_seats
  BY <1>1 DEF release_tier_seats, goods, seats, papers
<1>3. /\ TypeOK /\ o \in Orders /\ s \in T /\ s = Do("release_tiers", 0)
      /\ task[w].op = "cancel" /\ Undoing(T, o) /\ Releasing(T, o)
      /\ IsFiniteSet(rows) /\ Tally(K)
      /\ \A r \in RowsOf(o) : /\ r \in rows /\ r.order = o /\ r \in Row
                              /\ r.occurrence \in Occurrence
                              /\ r.tier \in Tier \cup {None}
                              /\ r.occurrence # r.tier
  BY <1>1, <1>2, ReleaseHere
<1>4. \A t \in M : t.do = "give" /\ \E r \in RowsOf(o) : r.tier # None /\ t = Give(r.tier, r, 0)
  <2>1. \A x, y : Give(x, y, 0).do = "give"
    BY DEF Give
  <2> QED BY <1>1, <2>1
<1>5. /\ Do("delete_rows", 0) \notin T
      /\ \A t \in T : t.do # "give"
  <2>1. Do("delete_rows", 0) \notin T
    BY <1>3 DEF Releasing
  <2>2. ASSUME NEW t \in T, t.do = "give"
        PROVE  FALSE
    <3>1. t.row \in RowsOf(o) /\ Do("release", 0) \notin T
      BY <1>3, <2>2 DEF Releasing
    <3> QED BY <1>3, <2>1, <3>1 DEF Releasing
  <2> QED BY <2>1, <2>2
<1>6. \A do, k : do \notin {"give", "release_tiers"} => (Do(do, k) \in U <=> Do(do, k) \in T)
  BY <1>1, <1>3, <1>4 DEF Do
<1>7. Do("release_tiers", 0) \notin U
  BY <1>1, <1>3, <1>4 DEF Do
<1>8. ReleasingMoves(T, U, o)
  <2>1. ReleasingMoves(task[w].todo, (task[w].todo \ {s}) \cup M, task[w].order)
    BY <1>2, <1>3, ReleasingMoved
  <2> QED BY <1>1, <2>1
<1>9. ASSUME NEW r \in RowsOf(o), NEW x \in Place, x \in {r.occurrence, r.tier}
      PROVE  ~ Given(T, r, x) /\ ~ Given(U, r, x)
  <2>1. Do("release", 0) \in T /\ Do("release", 0) \in U
    BY <1>3, <1>5, <1>6 DEF Releasing
  <2>2. x = r.tier => Give(x, r, 0) \in U
    <3>1. None \notin Place
      BY LifecycleAssumption
    <3> QED BY <1>1, <1>9, <3>1
  <2> QED BY <1>3, <1>9, <2>1, <2>2 DEF Given
<1>10. Tally(K)'
  <2>1. ASSUME NEW y \in rows, NEW x \in Place, x \in {y.occurrence, y.tier}
        PROVE  Uncounted(y, x)' <=> Uncounted(y, x)
    <3>1. y.order = o => y \in RowsOf(o)
      BY DEF RowsOf
    <3> QED BY <1>8, <1>9, <2>1, <3>1 DEF ReleasingMoves
  <2> QED BY <1>2, <1>3, <2>1, CountedMoves
<1>11. Releasing(U, o)'
  <2>1. RowsOf(o)' = RowsOf(o)
    BY <1>2 DEF RowsOf
  <2>2. ASSUME NEW t \in U, t.do = "give"
        PROVE  /\ t = Give(t.place, t.row, 0)
               /\ t.row \in RowsOf(o) /\ t.place = t.row.tier
    <3>1. t \in M
      BY <1>1, <1>5, <2>2
    <3>2. PICK r \in RowsOf(o) : t = Give(r.tier, r, 0)
      BY <1>4, <3>1
    <3>3. t.place = r.tier /\ t.row = r
      BY <3>2 DEF Give
    <3> QED BY <3>2, <3>3
  <2>3. Do("quota", 0) \notin U /\ Do("delete_rows", 0) \notin U
    BY <1>3, <1>5, <1>6 DEF Undoing, Do
  <2>4. Do("release", 0) \in U \/ RowsOf(o) = {}
    BY <1>3, <1>5, <1>6 DEF Releasing
  <2> QED BY <1>7, <2>1, <2>2, <2>3, <2>4 DEF Releasing
<1>12. U = {} => RowsOf(o)' = {}
  BY <1>11 DEF Releasing
<1>13. IsFiniteSet(rows)' /\ \A x \in Orders : x # o => RowsOf(x)' = RowsOf(x)
  BY <1>2, <1>3 DEF RowsOf
<1>14. \A n \in M : /\ n.do \in {"give", "clamp", "delete_rows"}
                    /\ PlainStep(task[w].op, n)
  BY <1>3, <1>4 DEF PlainStep, Kinds, Single
<1>15. /\ Current(w, s, "release_tiers") /\ Then(w, s, M) /\ Undoing(T, o)
       /\ o = task[w].order /\ T = task[w].todo /\ U = (T \ {s}) \cup M
       /\ orders' = orders /\ sales' = sales /\ rows_used' = rows_used
       /\ tickets' = tickets /\ blocked' = blocked /\ task[w].op = "cancel"
  BY <1>1, <1>2, <1>3
<1> QED BY <1>10, <1>11, <1>12, <1>13, <1>14, <1>15, ReleasingTogether

(* And once more for the dates; by then the tiers have their seats back.    *)
LEMMA ReleaseTogether ==
    ASSUME NEW K \in SUBSET Orders, Calm(K),
           NEW w \in Worker, NEW s, release_event_seats(w, s),
           task[w].order \in K
    PROVE  Together(K)'
<1>1. PICK o, T, M, U :
         /\ o = task[w].order /\ T = task[w].todo
         /\ M = IF RowsOf(o) = {} THEN {}
                ELSE {Do("delete_rows", 0)}
                     \cup {Give(r.occurrence, r, 0) : r \in RowsOf(o)}
         /\ U = (T \ {s}) \cup M
  OBVIOUS
<1>2. /\ Current(w, s, "release") /\ Then(w, s, M)
      /\ orders' = orders /\ sales' = sales /\ rows_used' = rows_used
      /\ tickets' = tickets /\ blocked' = blocked /\ rows' = rows
      /\ reserved_seats' = reserved_seats
  BY <1>1 DEF release_event_seats, goods, seats, papers
<1>3. /\ TypeOK /\ o \in Orders /\ s \in T /\ s = Do("release", 0)
      /\ task[w].op = "cancel" /\ Undoing(T, o) /\ Releasing(T, o)
      /\ IsFiniteSet(rows) /\ Tally(K)
      /\ \A t \in T : Stage["release"] <= Stage[t.do]
      /\ \A r \in RowsOf(o) : /\ r \in rows /\ r.order = o /\ r \in Row
                              /\ r.occurrence \in Occurrence
                              /\ r.tier \in Tier \cup {None}
                              /\ r.occurrence # r.tier
  BY <1>1, <1>2, ReleaseHere
<1>4. \A t \in M : \/ t = Do("delete_rows", 0)
                   \/ \E r \in RowsOf(o) : t = Give(r.occurrence, r, 0)
  BY <1>1
<1>5. \A t \in M : t.do \in {"give", "delete_rows"}
  <2>1. Do("delete_rows", 0).do = "delete_rows" /\ \A x, y : Give(x, y, 0).do = "give"
    BY DEF Give, Do
  <2> QED BY <1>4, <2>1
<1>6. /\ Do("delete_rows", 0) \notin T
      /\ Do("release_tiers", 0) \notin T
      /\ \A t \in T : t.do # "give"
  <2>1. Do("delete_rows", 0) \notin T
    BY <1>3 DEF Releasing
  <2>2. \A t \in T : t.do \notin {"release_tiers", "give"}
    BY <1>3 DEF Stage
  <2> QED BY <2>1, <2>2 DEF Do
<1>7. Do("release_tiers", 0) \notin U /\ Do("release", 0) \notin U
  BY <1>1, <1>3, <1>5, <1>6 DEF Do
<1>8. ReleasingMoves(T, U, o)
  <2>1. ReleasingMoves(task[w].todo, (task[w].todo \ {s}) \cup M, task[w].order)
    BY <1>2, <1>3, ReleasingMoved
  <2> QED BY <1>1, <2>1
<1>9. ASSUME NEW r \in RowsOf(o), NEW x \in Place, x \in {r.occurrence, r.tier}
      PROVE  Given(T, r, x) <=> U # {} /\ Given(U, r, x)
  <2>1. U # {}
    BY <1>1, <1>9
  <2>2. CASE x = r.occurrence
    <3>1. Give(x, r, 0) \in U
      BY <1>1, <1>9, <2>2
    <3> QED BY <1>3, <2>2, <3>1 DEF Given
  <2>3. CASE x = r.tier /\ x # r.occurrence
    <3>1. Give(x, r, 0) \notin T
      BY <1>6 DEF Give
    <3>2. Give(x, r, 0) \notin M
      <4> SUFFICES ASSUME Give(x, r, 0) \in M PROVE FALSE
        OBVIOUS
      <4>1. Give(x, r, 0) # Do("delete_rows", 0)
        BY DEF Give, Do
      <4>2. PICK y \in RowsOf(o) : Give(x, r, 0) = Give(y.occurrence, y, 0)
        BY <1>4, <4>1
      <4>3. r = y /\ x = y.occurrence
        BY <4>2 DEF Give
      <4> QED BY <2>3, <4>3
    <3> QED BY <1>1, <1>6, <1>7, <2>1, <2>3, <3>1, <3>2 DEF Given
  <2> QED BY <1>9, <2>2, <2>3
<1>10. Tally(K)'
  <2>1. ASSUME NEW y \in rows, NEW x \in Place, x \in {y.occurrence, y.tier}
        PROVE  Uncounted(y, x)' <=> Uncounted(y, x)
    <3>1. y.order = o => y \in RowsOf(o)
      BY DEF RowsOf
    <3> QED BY <1>8, <1>9, <2>1, <3>1 DEF ReleasingMoves
  <2> QED BY <1>2, <1>3, <2>1, CountedMoves
<1>11. Releasing(U, o)'
  <2>1. RowsOf(o)' = RowsOf(o)
    BY <1>2 DEF RowsOf
  <2>2. ASSUME NEW t \in U, t.do = "give"
        PROVE  /\ t = Give(t.place, t.row, 0)
               /\ t.row \in RowsOf(o) /\ t.place = t.row.occurrence
    <3>1. t \in M /\ t # Do("delete_rows", 0)
      BY <1>1, <1>6, <2>2 DEF Do
    <3>2. PICK r \in RowsOf(o) : t = Give(r.occurrence, r, 0)
      BY <1>4, <3>1
    <3>3. t.place = r.occurrence /\ t.row = r
      BY <3>2 DEF Give
    <3> QED BY <3>2, <3>3
  <2>3. Do("quota", 0) \notin U
    BY <1>1, <1>3, <1>5 DEF Undoing, Do
  <2>4. Do("delete_rows", 0) \in U \/ RowsOf(o) = {}
    BY <1>1
  <2> QED BY <1>7, <2>1, <2>2, <2>3, <2>4 DEF Releasing
<1>12. U = {} => RowsOf(o)' = {}
  BY <1>11 DEF Releasing
<1>13. IsFiniteSet(rows)' /\ \A x \in Orders : x # o => RowsOf(x)' = RowsOf(x)
  BY <1>2, <1>3 DEF RowsOf
<1>14. \A n \in M : /\ n.do \in {"give", "clamp", "delete_rows"}
                    /\ PlainStep(task[w].op, n)
  <2>1. PlainStep("cancel", Do("delete_rows", 0))
    BY DEF PlainStep, Kinds, Do
  <2>2. \A t : t.do = "give" => PlainStep("cancel", t)
    BY DEF PlainStep, Kinds, Single
  <2>3. \A x, y : Give(x, y, 0).do = "give"
    BY DEF Give
  <2> QED BY <1>3, <1>4, <1>5, <2>1, <2>2, <2>3
<1>15. /\ Current(w, s, "release") /\ Then(w, s, M) /\ Undoing(T, o)
       /\ o = task[w].order /\ T = task[w].todo /\ U = (T \ {s}) \cup M
       /\ orders' = orders /\ sales' = sales /\ rows_used' = rows_used
       /\ tickets' = tickets /\ blocked' = blocked /\ task[w].op = "cancel"
  BY <1>1, <1>2, <1>3
<1> QED BY <1>10, <1>11, <1>12, <1>13, <1>14, <1>15, ReleasingTogether

(* The rows go when nothing is counted for them any more.                   *)
LEMMA DeleteRowsTogether ==
    ASSUME NEW K \in SUBSET Orders, Calm(K),
           NEW w \in Worker, NEW s, DeleteRows(w, s),
           task[w].order \in K
    PROVE  Together(K)'
<1>1. PICK o, T, M, U : /\ o = task[w].order /\ T = task[w].todo
                        /\ M = {} /\ U = (T \ {s}) \cup M
  OBVIOUS
<1>2. /\ Current(w, s, "delete_rows") /\ Then(w, s, M)
      /\ orders' = orders /\ sales' = sales /\ rows_used' = rows_used
      /\ tickets' = tickets /\ blocked' = blocked /\ rows' = rows \ RowsOf(o)
      /\ reserved_seats' = reserved_seats
  BY <1>1 DEF DeleteRows, goods, papers
<1>3. /\ TypeOK /\ o \in Orders /\ s \in T /\ s = Do("delete_rows", 0)
      /\ task[w].op = "cancel" /\ Undoing(T, o) /\ Releasing(T, o)
      /\ IsFiniteSet(rows) /\ Tally(K)
      /\ \A t \in T : Stage["delete_rows"] <= Stage[t.do]
  BY <1>1, <1>2, ReleaseHere
<1>4. /\ Do("release_tiers", 0) \notin T /\ Do("release", 0) \notin T
      /\ \A t \in T : t.do # "give"
  <2>1. \A t \in T : t.do \notin {"release_tiers", "release", "give"}
    BY <1>3 DEF Stage
  <2> QED BY <2>1 DEF Do
<1>5. ReleasingMoves(T, U, o)
  <2>1. ReleasingMoves(task[w].todo, (task[w].todo \ {s}) \cup M, task[w].order)
    BY <1>2, <1>3, ReleasingMoved
  <2> QED BY <1>1, <2>1
<1>6. \A r, x : r.order = o => Uncounted(r, x)
  <2>1. \A r, x : Give(x, r, 0) \notin T
    BY <1>4 DEF Give
  <2> QED BY <1>4, <1>5, <2>1 DEF ReleasingMoves, Given
<1>7. \A x \in Place : Counted(x)' = Counted(x)
  <2>1. \A r \in rows' : r \in rows /\ r.order # o
    BY <1>2 DEF RowsOf
  <2>2. \A r \in rows : r.order # o => r \in rows'
    BY <1>2 DEF RowsOf
  <2>3. \A r, x : r.order # o => (Uncounted(r, x)' <=> Uncounted(r, x))
    BY <1>5 DEF ReleasingMoves
  <2> QED BY <1>6, <2>1, <2>2, <2>3 DEF Counted, At
<1>8. Tally(K)'
  BY <1>2, <1>3, <1>7 DEF Tally, PlacesOf
<1>9. RowsOf(o)' = {} /\ \A x \in Orders : x # o => RowsOf(x)' = RowsOf(x)
  BY <1>2 DEF RowsOf
<1>10. Releasing(U, o)'
  <2>1. \A t \in U : t.do # "give"
    BY <1>1, <1>4
  <2>2. /\ Do("release_tiers", 0) \notin U /\ Do("release", 0) \notin U
        /\ Do("quota", 0) \notin U
    BY <1>1, <1>3, <1>4 DEF Undoing, Do
  <2> QED BY <1>9, <2>1, <2>2 DEF Releasing
<1>11. IsFiniteSet(rows)'
  <2>1. rows' \subseteq rows
    BY <1>2
  <2> QED BY <1>3, <2>1, FS_Subset
<1>12. \A n \in M : /\ n.do \in {"give", "clamp", "delete_rows"}
                    /\ PlainStep(task[w].op, n)
  BY <1>1
<1>13. /\ Current(w, s, "delete_rows") /\ Then(w, s, M) /\ Undoing(T, o)
       /\ o = task[w].order /\ T = task[w].todo /\ U = (T \ {s}) \cup M
       /\ orders' = orders /\ sales' = sales /\ rows_used' = rows_used
       /\ tickets' = tickets /\ blocked' = blocked /\ task[w].op = "cancel"
  BY <1>1, <1>2, <1>3
<1> QED BY <1>8, <1>9, <1>10, <1>11, <1>12, <1>13, ReleasingTogether
-----------------------------------------------------------------------------
(* Every step.                                                              *)

(* What a step on the order itself keeps.                                   *)
LEMMA OrderStepTogether ==
    ASSUME NEW K \in SUBSET Orders, Calm(K),
           TypeOK', NEW w \in Worker, NEW s, OrderStep(w, s),
           task[w].order \in K
    PROVE  Together(K)'
BY CollectTogether, ReadToConfirmTogether, WriteStatusTogether, RecordErrorTogether,
   StockTogether, CheckQuotaTogether, WriteSalesTogether DEF OrderStep

(* A counter is given back by a confirmation that is undone, or by a        *)
(* cancellation.                                                            *)
LEMMA GiveBackTogether ==
    ASSUME NEW K \in SUBSET Orders, Calm(K),
           TypeOK', NEW w \in Worker, NEW s, GiveBack(w, s),
           task[w].order \in K
    PROVE  Together(K)'
<1>1. Current(w, s, "give")
  BY DEF GiveBack
<1>2. task[w].op \in Confirmation \/ task[w].op = "cancel"
  BY <1>1, WhichPhase
<1> QED BY <1>2, GiveBackTaking, GiveBackReleasing

(* What a step on the seats keeps.                                          *)
LEMMA SeatStepTogether ==
    ASSUME NEW K \in SUBSET Orders, Calm(K),
           TypeOK', NEW w \in Worker, NEW s, SeatStep(w, s),
           task[w].order \in K
    PROVE  Together(K)'
BY ReserveRowTogether, ReserveTierTogether, ReserveOccurrenceTogether,
   UndoRowTogether, GiveBackTogether, ClampTogether, ReleaseTiersTogether,
   ReleaseTogether, DeleteRowsTogether DEF SeatStep

(* What a step on the blocks and tickets keeps.                             *)
LEMMA PaperStepTogether ==
    ASSUME NEW K \in SUBSET Orders, Calm(K),
           TypeOK', NEW w \in Worker, NEW s, PaperStep(w, s),
           task[w].order \in K
    PROVE  Together(K)'
BY BlockTogether, UnblockTogether, FindTicketsTogether, IssueTicketTogether,
   VoidTogether DEF PaperStep

-----------------------------------------------------------------------------
(* Steps beside the orders of K.                                            *)

(* A step changes the papers and the rows of its own order alone, and the   *)
(* counters of places where this order has a line.                          *)
Own(o) ==
    /\ \A x \in Orders : x # o => SameOrder(x)
    /\ \A x \in Place : o \notin Guests(x) => reserved_seats'[x] = reserved_seats[x]
    /\ RowsUsedGrow
    /\ IsFiniteSet(rows) => IsFiniteSet(rows)'

(* Of the steps on the order itself.                                        *)
LEMMA OrderStepOwn ==
    ASSUME IInv, NEW w \in Worker, NEW s \in task[w].todo, OrderStep(w, s),
           NEW o \in Orders, o = task[w].order
    PROVE  Own(o)
<1>1. TypeOK /\ Len(items[o]) \in Nat
  BY LifecycleAssumption DEF IInv
<1>2. /\ \A x \in Orders : x # o => orders'[x] = orders[x] /\ sales'[x] = sales[x]
      /\ tickets' = tickets /\ blocked' = blocked /\ rows' = rows
      /\ reserved_seats' = reserved_seats
      /\ rows_used' \in {rows_used, rows_used + Len(items[o])}
  <2>1. CASE Collect(w, s) \/ WriteStatus(w, s) \/ RecordError(w, s)
    BY <1>1, <2>1 DEF Collect, WriteStatus, RecordError, goods, seats, papers, TypeOK
  <2>2. CASE ReadToConfirm(w, s) \/ CheckQuota(w, s)
    BY <2>2 DEF ReadToConfirm, CheckQuota, goods, seats, papers
  <2>3. CASE try_decrement_stock(w, s) \/ restore_stock(w, s)
    BY <2>3 DEF try_decrement_stock, restore_stock, seats, papers
  <2>4. CASE WriteSales(w, s)
    BY <1>1, <2>4 DEF WriteSales, seats, papers, TypeOK
  <2> QED BY <2>1, <2>2, <2>3, <2>4 DEF OrderStep
<1>3. \A x \in Orders : x # o => SameOrder(x)
  BY <1>2 DEF SameOrder, SamePapers, RowsOf
<1>4. RowsUsedGrow
  BY <1>1, <1>2 DEF RowsUsedGrow, TypeOK
<1> QED BY <1>2, <1>3, <1>4 DEF Own

(* Of the steps on blocks and tickets.                                      *)
LEMMA PaperStepOwn ==
    ASSUME IInv, NEW w \in Worker, NEW s \in task[w].todo, PaperStep(w, s),
           NEW o \in Orders, o = task[w].order
    PROVE  Own(o)
<1>1. TypeOK
  BY DEF IInv
<1>2. /\ orders' = orders /\ sales' = sales /\ rows_used' = rows_used
      /\ rows' = rows /\ reserved_seats' = reserved_seats
      /\ \A x \in Orders : x # o =>
            /\ tickets'[x] = tickets[x]
            /\ \A y : <<x, y>> \in blocked' <=> <<x, y>> \in blocked
  <2>1. CASE Block(w, s) \/ Unblock(w, s)
    BY <1>1, <2>1 DEF Block, Unblock, goods, seats
  <2>2. CASE FindTickets(w, s)
    BY <2>2 DEF FindTickets, goods, seats, papers
  <2>3. CASE IssueTicket(w, s) \/ void_tickets_for_order(w, s)
    BY <1>1, <2>3 DEF IssueTicket, void_tickets_for_order, goods, seats, TypeOK
  <2> QED BY <2>1, <2>2, <2>3 DEF PaperStep
<1>3. \A x \in Orders : x # o => SameOrder(x)
  BY <1>2 DEF SameOrder, SamePapers, RowsOf
<1>4. RowsUsedGrow
  BY <1>1, <1>2, UsedSame
<1> QED BY <1>2, <1>3, <1>4 DEF Own

(* The places of a line are places of its order.                            *)
LEMMA LineGuest ==
    ASSUME NEW w \in Worker, NEW o \in Orders, o = task[w].order, NEW i \in EventLines(o)
    PROVE  /\ o \in Guests(NewRow(w, i).occurrence)
           /\ o \in Guests(NewRow(w, i).tier)
BY DEF Guests, NewRow, EventLines

(* Of the steps on seats.                                                   *)
LEMMA SeatStepOwn ==
    ASSUME IInv, NEW w \in Worker, NEW s \in task[w].todo, SeatStep(w, s),
           NEW o \in Orders, o = task[w].order
    PROVE  Own(o)
<1>1. TypeOK /\ GoodStep(o, s)
  BY DEF IInv, Tasks, GoodTask
<1> DEFINE i == s.line
           R == NewRow(w, i)
<1>2. R.order = o
  BY DEF NewRow
<1>3. ASSUME NEW p, p \in Place => o \in Guests(p),
             \E n : reserved_seats' = [reserved_seats EXCEPT ![p] = n]
      PROVE  \A x \in Place : o \notin Guests(x) => reserved_seats'[x] = reserved_seats[x]
  BY <1>1, <1>3 DEF TypeOK
<1>4. /\ orders' = orders /\ sales' = sales /\ rows_used' = rows_used
      /\ tickets' = tickets /\ blocked' = blocked
  BY DEF SeatStep, ReserveRow, ReserveTier, ReserveOccurrence, UndoRow, GiveBack, Clamp,
         release_tier_seats, release_event_seats, DeleteRows, goods, papers
<1>5. /\ \A x \in Orders : x # o => RowsOf(x)' = RowsOf(x)
      /\ IsFiniteSet(rows) => IsFiniteSet(rows)'
  <2>1. CASE ReserveRow(w, s)
    <3>1. rows' = rows \/ rows' = rows \cup {R}
      BY <2>1 DEF ReserveRow
    <3> QED BY <1>2, <3>1, FS_AddElement DEF RowsOf
  <2>2. CASE UndoRow(w, s) \/ DeleteRows(w, s)
    <3>1. rows' \subseteq rows /\ \A r \in rows : r.order # o => r \in rows'
      BY <1>2, <2>2 DEF UndoRow, DeleteRows, RowsOf
    <3> QED BY <3>1, FS_Subset DEF RowsOf
  <2>3. CASE rows' = rows
    BY <2>3 DEF RowsOf
  <2> QED BY <2>1, <2>2, <2>3 DEF SeatStep, ReserveTier, ReserveOccurrence, GiveBack,
                                   Clamp, release_tier_seats, release_event_seats, seats
<1>6. \A x \in Place : o \notin Guests(x) => reserved_seats'[x] = reserved_seats[x]
  <2>1. CASE ReserveTier(w, s) \/ ReserveOccurrence(w, s)
    <3>1. i \in EventLines(o)
      BY <1>1, <2>1 DEF ReserveTier, ReserveOccurrence, Current, GoodStep
    <3>2. o \in Guests(R.occurrence) /\ o \in Guests(R.tier)
      BY <3>1, LineGuest
    <3>3. \/ reserved_seats' = reserved_seats
          \/ \E p \in {R.occurrence, R.tier} :
                reserved_seats' = [reserved_seats EXCEPT ![p] = @ + R.qty]
      BY <2>1 DEF ReserveTier, ReserveOccurrence, TakeSeats
    <3> QED BY <1>3, <3>2, <3>3
  <2>2. CASE GiveBack(w, s) \/ Clamp(w, s)
    <3>1. s.place \in Place /\ s.row \in Row /\ s.row.order = o
          /\ s.place \in {s.row.occurrence, s.row.tier}
      BY <1>1, <2>2 DEF GiveBack, Clamp, Current, GoodStep
    <3>2. o \in Guests(s.place)
      BY <3>1, LifecycleAssumption DEF Row
    <3>3. \E n : reserved_seats' = [reserved_seats EXCEPT ![s.place] = n]
      BY <2>2 DEF GiveBack, Clamp
    <3> QED BY <1>3, <3>2, <3>3
  <2>3. CASE reserved_seats' = reserved_seats
    BY <2>3
  <2> QED BY <2>1, <2>2, <2>3 DEF SeatStep, ReserveRow, UndoRow, release_tier_seats,
                                   release_event_seats, DeleteRows, seats
<1>7. RowsUsedGrow
  BY <1>1, <1>4, UsedSame
<1>8. \A x \in Orders : x # o => SameOrder(x)
  BY <1>4, <1>5 DEF SameOrder, SamePapers
<1> QED BY <1>5, <1>6, <1>7, <1>8 DEF Own

(* A step on an order that is not of K.                                     *)
LEMMA StepBeside ==
    ASSUME NEW K \in SUBSET Orders, Together(K), IInv, TypeOK',
           NEW w \in Worker, NEW s \in task[w].todo,
           OrderStep(w, s) \/ SeatStep(w, s) \/ PaperStep(w, s),
           task[w].order \notin K
    PROVE  Together(K)'
<1>1. TypeOK /\ Tasks
  BY DEF IInv
<1>2. PICK o \in Orders : o = task[w].order
  BY <1>1 DEF Tasks, GoodTask
<1>3. Own(o)
  BY <1>2, OrderStepOwn, SeatStepOwn, PaperStepOwn
<1>4. /\ \A v \in Worker : v # w => task'[v] = task[v]
      /\ InFlight(w)' => task'[w].order \notin K
  BY <1>1, StepOwn
<1>5. \A v \in Worker : \/ InFlight(v) /\ task[v].order \in K
                        \/ InFlight(v)' /\ task'[v].order \in K
                        => task'[v] = task[v]
  BY <1>4
<1>6. \A x \in K : SameOrder(x)
  BY <1>2, <1>3 DEF Own
<1>7. \A x \in PlacesOf(K) : reserved_seats'[x] = reserved_seats[x]
  BY <1>2, <1>3 DEF Own, PlacesOf
<1>8. RowsUsedGrow /\ IsFiniteSet(rows)'
  BY <1>3 DEF Own, Together
<1> QED BY <1>1, <1>5, <1>6, <1>7, <1>8, TogetherBeside

(* A handler that starts or is killed touches no paper and no seat.         *)
LEMMA TaskBeside ==
    ASSUME NEW K \in SUBSET Orders, Together(K), TypeOK, TypeOK', NEW w \in Worker,
           \A v \in Worker : v # w => task'[v] = task[v],
           InFlight(w) => task[w].order \notin K,
           InFlight(w)' => task'[w].order \notin K,
           UNCHANGED <<orders, goods, seats, papers>>
    PROVE  Together(K)'
<1>1. /\ orders' = orders /\ sales' = sales /\ rows_used' = rows_used
      /\ tickets' = tickets /\ blocked' = blocked
      /\ rows' = rows /\ reserved_seats' = reserved_seats
  BY DEF goods, seats, papers
<1>2. RowsUsedGrow
  BY <1>1, UsedSame
<1>3. \A x \in K : SameOrder(x)
  BY <1>1 DEF SameOrder, SamePapers, RowsOf
<1>4. IsFiniteSet(rows)'
  BY <1>1 DEF Together
<1>5. \A v \in Worker : \/ InFlight(v) /\ task[v].order \in K
                        \/ InFlight(v)' /\ task'[v].order \in K
                        => task'[v] = task[v]
  OBVIOUS
<1> QED BY <1>1, <1>2, <1>3, <1>4, <1>5, TogetherBeside

(* Neither does a step that no handler takes.                               *)
LEMMA OutsideTogether ==
    ASSUME NEW K \in SUBSET Orders, Together(K), TypeOK, TypeOK',
           (\E x \in Switched : Switch(x)) \/ SweepFind \/ SweepExpire \/ UNCHANGED vars
    PROVE  Together(K)'
<1>1. /\ task' = task /\ sales' = sales /\ rows_used' = rows_used
      /\ tickets' = tickets /\ blocked' = blocked
      /\ rows' = rows /\ reserved_seats' = reserved_seats
  BY DEF Switch, SweepFind, SweepExpire, vars, goods, seats, papers
<1>2. RowsUsedGrow
  BY <1>1, UsedSame
<1>3. ASSUME NEW x \in Orders
      PROVE  \/ orders'[x].status = orders[x].status
             \/ /\ orders[x].status \in {"draft", "expired"}
                /\ orders'[x].status \in {"draft", "expired"}
  <2>1. CASE SweepExpire
    <3>1. orders'[x] = IF x \in swept /\ Unpaid(x)
                         THEN [orders[x] EXCEPT !.status = "expired"] ELSE orders[x]
      BY <2>1 DEF SweepExpire
    <3>2. DOMAIN orders[x] = {"status", "payment_intent", "confirm_error"}
      BY DEF TypeOK
    <3> QED BY <3>1, <3>2 DEF Unpaid
  <2>2. CASE orders' = orders
    BY <2>2
  <2> QED BY <2>1, <2>2 DEF Switch, SweepFind, vars
<1>4. \A x \in K : SameOrder(x)
  BY <1>1, <1>3 DEF SameOrder, SamePapers, RowsOf
<1>5. IsFiniteSet(rows)'
  BY <1>1 DEF Together
<1> QED BY <1>1, <1>2, <1>4, <1>5, TogetherBeside

-----------------------------------------------------------------------------
(* Every step.                                                              *)

(* An order never becomes clean again.                                      *)
LEMMA CleanLess ==
    ASSUME [Next]_vars
    PROVE  Clean' \subseteq Clean
<1>1. ASSUME NEW w \in Worker, NEW o \in Orders, Request(w, o)
      PROVE  overlapped \subseteq overlapped' /\ killed \subseteq killed'
  BY <1>1 DEF Request, Confirm, Cancel, Complete, Webhook, Start, world
<1>2. ASSUME NEW w \in Worker, NEW s \in task[w].todo,
             OrderStep(w, s) \/ SeatStep(w, s) \/ PaperStep(w, s)
      PROVE  overlapped \subseteq overlapped' /\ killed \subseteq killed'
  BY <1>2 DEF OrderStep, SeatStep, PaperStep, Collect, ReadToConfirm, WriteStatus,
       RecordError, try_decrement_stock, restore_stock, CheckQuota, WriteSales, ReserveRow,
       ReserveTier, ReserveOccurrence, UndoRow, GiveBack, Clamp,
       release_tier_seats, release_event_seats, DeleteRows, Block, Unblock,
       FindTickets, IssueTicket, void_tickets_for_order, world
<1>3. ASSUME NEW w \in Worker, Crash(w)
      PROVE  overlapped \subseteq overlapped' /\ killed \subseteq killed'
  BY <1>3 DEF Crash
<1>4. ASSUME (\E x \in Switched : Switch(x)) \/ SweepFind \/ SweepExpire \/ UNCHANGED vars
      PROVE  overlapped \subseteq overlapped' /\ killed \subseteq killed'
  BY <1>4 DEF Switch, SweepFind, SweepExpire, vars, world
<1>5. overlapped \subseteq overlapped' /\ killed \subseteq killed'
  <2>1. CASE Next
    <3>1. CASE \E w \in Worker, o \in Orders : Request(w, o)
      BY <3>1, <1>1
    <3>2. CASE \E w \in Worker : \E s \in task[w].todo :
                  OrderStep(w, s) \/ SeatStep(w, s) \/ PaperStep(w, s)
      BY <3>2, <1>2
    <3>3. CASE \E w \in Worker : Crash(w)
      BY <3>3, <1>3
    <3>4. CASE (\E x \in Switched : Switch(x)) \/ SweepFind \/ SweepExpire
      BY <3>4, <1>4
    <3> QED BY <2>1, <3>1, <3>2, <3>3, <3>4 DEF Next
  <2>2. CASE UNCHANGED vars
    BY <2>2, <1>4
  <2> QED BY <2>1, <2>2
<1> QED BY <1>5 DEF Clean

(* A request finds an order that stays clean at rest.                       *)
LEMMA RequestSerial ==
    ASSUME NEW K \in SUBSET Orders, Calm(K), TypeOK', NEW w \in Worker, NEW o \in Orders,
           Request(w, o), K \subseteq Clean'
    PROVE  Apart(K)' /\ Together(K)'
<1>1. PICK op, U : Start(w, op, o, U)
  BY DEF Request, Confirm, Cancel, Complete, Webhook
<1>2. TypeOK /\ Together(K) /\ Apart(K)
  BY DEF Calm, IInv
<1>3. /\ task' = [task EXCEPT ![w] = [op |-> op, order |-> o, id |-> starts + 1,
                                      todo |-> U]]
      /\ ~ InFlight(w) /\ task \in [Worker -> Task]
      /\ overlapped' = overlapped \cup (IF AtRest(o) THEN {} ELSE {o})
      /\ UNCHANGED <<orders, goods, seats, papers>>
  BY <1>1, <1>2 DEF Start, TypeOK
<1>4. /\ \A v \in Worker : v # w => task'[v] = task[v]
      /\ task'[w].order = o
  BY <1>3
<1>5. o \in K => AtRest(o)
  BY <1>3 DEF Clean
<1>6. Apart(K)'
  <2>1. InFlight(w)' /\ task'[w].order \in K =>
              \A v \in Worker : v # w /\ InFlight(v) => task[v].order # task'[w].order
    BY <1>4, <1>5 DEF AtRest
  <2> QED BY <1>2, <1>4, <2>1, ApartKept
<1>7. CASE o \in K
  BY <1>5, <1>6, <1>7, RequestTogether
<1>8. CASE o \notin K
  BY <1>2, <1>3, <1>4, <1>6, <1>8, TaskBeside
<1> QED BY <1>7, <1>8, <1>6

(* A step of a handler keeps its own order, if it is of K, and the others.  *)
LEMMA StepSerial ==
    ASSUME NEW K \in SUBSET Orders, Calm(K), TypeOK',
           NEW w \in Worker, NEW s \in task[w].todo,
           OrderStep(w, s) \/ SeatStep(w, s) \/ PaperStep(w, s)
    PROVE  Apart(K)' /\ Together(K)'
<1>1. IInv /\ TypeOK /\ Together(K) /\ Apart(K) /\ InFlight(w)
  BY DEF Calm, IInv, InFlight
<1>2. /\ \A v \in Worker : v # w => task'[v] = task[v]
      /\ InFlight(w)' => task'[w].order = task[w].order
  BY <1>1, StepOwn
<1>3. Apart(K)'
  <2>1. InFlight(w)' /\ task'[w].order \in K =>
              \A v \in Worker : v # w /\ InFlight(v) => task[v].order # task'[w].order
    BY <1>1, <1>2 DEF Apart
  <2> QED BY <1>1, <1>2, <2>1, ApartKept
<1>4. CASE task[w].order \in K
  BY <1>3, <1>4, OrderStepTogether, SeatStepTogether, PaperStepTogether
<1>5. CASE task[w].order \notin K
  BY <1>1, <1>3, <1>5, StepBeside
<1> QED BY <1>4, <1>5, <1>3

(* A handler that is killed takes its order out of the clean ones.          *)
LEMMA CrashSerial ==
    ASSUME NEW K \in SUBSET Orders, Calm(K), TypeOK', NEW w \in Worker, Crash(w),
           K \subseteq Clean'
    PROVE  Apart(K)' /\ Together(K)'
<1>1. TypeOK /\ Together(K) /\ Apart(K)
  BY DEF Calm, IInv
<1>2. task[w].order \notin K
  BY DEF Crash, Clean
<1>3. /\ \A v \in Worker : v # w => task'[v] = task[v]
      /\ ~ InFlight(w)'
  BY <1>1, StopIs DEF Crash
<1>4. Apart(K)'
  BY <1>1, <1>3, ApartKept
<1>5. UNCHANGED <<orders, goods, seats, papers>>
  BY DEF Crash
<1> QED BY <1>1, <1>2, <1>3, <1>4, <1>5, TaskBeside

(* Every step keeps the orders together that are clean after it.            *)
LEMMA NextSerial ==
    IInv /\ Serial /\ [Next]_vars => IInv' /\ Serial'
<1> SUFFICES ASSUME IInv, Serial, [Next]_vars PROVE IInv' /\ Serial'
  OBVIOUS
<1>1. IInv' /\ TypeOK /\ TypeOK'
  <2>1. IInv'
    BY NextGood
  <2> QED BY <2>1 DEF IInv
<1>2. ASSUME NEW K, K \subseteq Clean'
      PROVE  Apart(K)' /\ Together(K)'
  <2>1. K \subseteq Clean /\ K \in SUBSET Orders
    BY <1>2, CleanLess DEF Clean
  <2>2. Calm(K) /\ Apart(K) /\ Together(K)
    BY <2>1 DEF Serial, Calm
  <2>3. ASSUME NEW w \in Worker, NEW o \in Orders, Request(w, o)
        PROVE  Apart(K)' /\ Together(K)'
    BY <1>1, <1>2, <2>1, <2>2, <2>3, RequestSerial
  <2>4. ASSUME NEW w \in Worker, NEW s \in task[w].todo,
               OrderStep(w, s) \/ SeatStep(w, s) \/ PaperStep(w, s)
        PROVE  Apart(K)' /\ Together(K)'
    BY <1>1, <2>1, <2>2, <2>4, StepSerial
  <2>5. ASSUME NEW w \in Worker, Crash(w)
        PROVE  Apart(K)' /\ Together(K)'
    BY <1>1, <1>2, <2>1, <2>2, <2>5, CrashSerial
  <2>6. CASE (\E x \in Switched : Switch(x)) \/ SweepFind \/ SweepExpire \/ UNCHANGED vars
    <3>1. task' = task
      BY <2>6 DEF Switch, SweepFind, SweepExpire, vars
    <3>2. Apart(K)'
      BY <2>2, <3>1 DEF Apart, InFlight
    <3> QED BY <1>1, <2>1, <2>2, <2>6, <3>2, OutsideTogether
  <2> QED BY <2>3, <2>4, <2>5, <2>6 DEF Next
<1> QED BY <1>1, <1>2 DEF Serial

(* At the start every order is a draft that nothing was done for.           *)
LEMMA InitSerial == Init => Serial
<1> SUFFICES ASSUME Init, NEW K \in SUBSET Orders PROVE Apart(K) /\ Together(K)
  BY DEF Serial, Clean
<1>1. \A w \in Worker : task[w] = Idle /\ ~ InFlight(w)
  BY DEF Init, Idle, InFlight
<1>2. Apart(K)
  BY <1>1 DEF Apart
<1>3. rows = {} /\ IsFiniteSet(rows)
  BY FS_EmptySet DEF Init
<1>4. ASSUME NEW o \in Orders
      PROVE  Rest(o)
  <2>1. orders[o].status = "draft" /\ sales[o].forward = 0 /\ sales[o].storno = 0
    BY DEF Init
  <2>2. \A i \in Lines(o) : tickets[o][i].valid = 0 /\ tickets[o][i].voided = 0
    BY DEF Init
  <2>3. RowsOf(o) = {} /\ blocked = {}
    BY <1>3 DEF RowsOf, Init
  <2>4. Pristine(o)
    BY <2>1, <2>2, <2>3 DEF Pristine
  <2> QED BY <2>1, <2>4, PristineIsBare DEF Rest
<1>5. Papers(K)
  BY <1>1, <1>4 DEF Papers
<1>6. Tally(K)
  <2> SUFFICES ASSUME NEW x \in Place PROVE reserved_seats[x] = Seats(Counted(x))
    BY DEF Tally, PlacesOf
  <2>1. Counted(x) = {}
    BY <1>3 DEF Counted, At
  <2>2. {} \in SUBSET Row /\ IsFiniteSet({})
    BY FS_EmptySet
  <2>3. Seats({}) = 0
    BY <2>2, SeatsTyped
  <2> QED BY <2>1, <2>3 DEF Init
<1> QED BY <1>1, <1>2, <1>3, <1>5, <1>6 DEF Together

(* Of any orders of which no two handlers have overlapped and none was      *)
(* killed, every handler is in a phase, those without a handler are at      *)
(* rest, and the counters of the dates and tiers that only they have lines  *)
(* at are the sums of the rows counted there, whatever the handlers of the  *)
(* other orders do meanwhile, overlap and die.                              *)
THEOREM AlwaysSerial == Spec => [](IInv /\ Serial)
<1>1. Init => IInv /\ Serial
  BY InitGood, InitSerial
<1>2. (IInv /\ Serial) /\ [Next]_vars => (IInv /\ Serial)'
  BY NextSerial
<1> QED BY <1>1, <1>2, PTL DEF Spec

(* Between handlers an order whose sales stand has its tickets and its      *)
(* dates, and any other order holds nothing: an order at rest is Full or    *)
(* Bare.                                                                    *)
LEMMA RestFollows ==
    ASSUME TypeOK, NEW o \in Orders, Rest(o)
    PROVE  /\ Standing(o) \/ sales[o].forward = sales[o].storno
           /\ \A i \in Lines(o) : tickets[o][i].valid =
                IF Standing(o) /\ i \in EventLines(o) THEN items[o][i].quantity ELSE 0
           /\ \A i \in EventLines(o) :
                (<<o, items[o][i].occurrence>> \in blocked) = Standing(o)
           /\ RowsOf(o) # {} => Standing(o)
<1>1. Full(o) \/ Bare(o)
  BY DEF Rest
<1>2. CASE Full(o)
  BY <1>2 DEF Full, Standing
<1>3. CASE Bare(o)
  <2>1. sales[o].storno \in Nat /\ sales[o].forward = sales[o].storno
    BY <1>3 DEF Bare, TypeOK
  <2>2. ~ Standing(o)
    BY <2>1 DEF Standing
  <2>3. \A i \in Lines(o) : tickets[o][i].valid = 0
    BY <1>3 DEF Bare
  <2>4. \A i \in EventLines(o) :
          (<<o, items[o][i].occurrence>> \in blocked) = Standing(o)
    BY <1>3, <2>2 DEF Bare, Standing
  <2>5. RowsOf(o) = {}
    BY <1>3 DEF Bare
  <2> QED BY <2>1, <2>2, <2>3, <2>4, <2>5
<1> QED BY <1>1, <1>2, <1>3

(* Tickets, calendar blocks and seats follow the sales records of an order  *)
(* at rest whose own handlers have not overlapped or been killed, however   *)
(* many orders compete beside it and are left half done, whatever the       *)
(* plan's limit or a number not found ends half way, and whatever the       *)
(* operator and the cleanup job do meanwhile.                               *)
THEOREM ArtefactsFollow == Spec => []ArtefactsFollowSales
<1>1. IInv /\ Serial => ArtefactsFollowSales
  <2> SUFFICES ASSUME IInv, Serial, NEW o \in Orders, Undisturbed(o)
               PROVE  Rest(o) /\ TypeOK
    BY RestFollows DEF ArtefactsFollowSales
  <2>1. {o} \in SUBSET Clean /\ AtRest(o)
    BY DEF Undisturbed, Clean
  <2>2. Together({o})
    BY <2>1 DEF Serial
  <2> QED BY <2>1, <2>2 DEF Together, Papers, IInv
<1> QED BY <1>1, AlwaysSerial, PTL

(* Once the guests of a date or a tier are at rest, and no two handlers of  *)
(* one of them have overlapped and none was killed, its counter is the sum  *)
(* of its reservations, for any number of orders, lines and handlers.       *)
THEOREM SeatsAreCounted == Spec => []SeatsCounted
<1>1. IInv /\ Serial => SeatsCounted
  <2> SUFFICES ASSUME IInv, Serial, NEW x \in Place,
                      \A o \in Guests(x) : Undisturbed(o)
               PROVE  reserved_seats[x] = Held(x)
    BY DEF SeatsCounted
  <2>1. Guests(x) \in SUBSET Clean /\ \A o \in Guests(x) : AtRest(o)
    BY DEF Undisturbed, Clean, Guests
  <2>2. Together(Guests(x)) /\ x \in PlacesOf(Guests(x))
    BY <2>1 DEF Serial, PlacesOf
  <2>3. \A r \in At(x) : r.order \in Guests(x)
    <3>1. rows \subseteq Row /\ x # None
      BY LifecycleAssumption DEF IInv, TypeOK
    <3> QED BY <3>1 DEF At, Row
  <2>4. Counted(x) = At(x)
    BY <2>1, <2>3 DEF AtRest, Counted, Uncounted
  <2>5. reserved_seats[x] = Seats(At(x))
    BY <2>2, <2>4 DEF Together, Tally
  <2> QED BY <2>5 DEF Held, Seats, At
<1> QED BY <1>1, AlwaysSerial, PTL

=============================================================================
