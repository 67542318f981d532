-------------------------- MODULE BookingSlotsProofs --------------------------
(***************************************************************************)
(* Proofs about the calendar, for any orders, windows and processes.       *)
(*                                                                         *)
(* A draft holds its windows and a refused order holds none: no other      *)
(* order has a row with an id that a process deletes, and an order being   *)
(* placed has one process, which holds what it has passed.                 *)
(*                                                                         *)
(* No two orders keep overlapping rows, but for those an older of which    *)
(* was inserted too late for the comparison of the younger, or whose       *)
(* comparison raised.                                                      *)
(***************************************************************************)
EXTENDS BookingSlots, TLAPS

Compared(p) == task[p].at \in {"scan", "undo"}

(* The types, with the fact that a handler is about an order.               *)
TypeInv ==
    /\ TypeOK
    /\ \A p \in Proc : task[p].at # "idle" => task[p].order \in Order

-----------------------------------------------------------------------------
(* Types.                                                                   *)

(* Every order has a first window, and its windows are windows.             *)
LEMMA WindowsTyped ==
    ASSUME NEW o \in Order
    PROVE  /\ 1 \in 1 .. Len(Windows[o])
           /\ Len(Windows[o]) \in Nat
           /\ \A k \in 1 .. Len(Windows[o]) : Windows[o][k] \in Window
<1>1. Windows[o] \in Seq(Window) /\ Windows[o] # <<>>
  BY WindowsAssumption
<1> HIDE DEF Window
<1> QED BY <1>1

(* A process that goes on, at a window of its order, is well typed.         *)
LEMMA TaskTyped ==
    ASSUME TypeInv, NEW p \in Proc, NEW t \in Task,
           task' = [task EXCEPT ![p] = t],
           t.at # "idle" => t.order \in Order,
           t.at \in {"stamp", "upsert", "scan", "undo"} =>
               t.k \in 1 .. Len(Windows[t.order]),
           rows' \subseteq Row, order' \in [Order -> Status],
           unseen' \subseteq SUBSET Nat
    PROVE  TypeInv'
<1> HIDE DEF Task
<1>1. task' \in [Proc -> Task]
  BY DEF TypeInv, TypeOK
<1>2. \A q \in Proc : task'[q] = IF q = p THEN t ELSE task[q]
  BY DEF TypeInv, TypeOK
<1> QED BY <1>1, <1>2, Zenon DEF TypeInv, TypeOK

(* Nobody is no handler: an idle process.                                   *)
LEMMA IdleTyped == Idle \in Task /\ Idle.at = "idle"
<1>1. NoRow \in Row
  BY DayEndAssumption DEF NoRow, Row, Reason, Window
<1> QED BY <1>1 DEF Idle, Task, Stage

(* A returned process.                                                      *)
LEMMA ReturnTyped ==
    ASSUME TypeInv, NEW p \in Proc, Return(p),
           rows' \subseteq Row, order' \in [Order -> Status],
           unseen' \subseteq SUBSET Nat
    PROVE  TypeInv'
<1> HIDE DEF Task
<1> QED BY TaskTyped, IdleTyped DEF Return

(* A process that moves to another part of its handler.                     *)
LEMMA GoToTyped ==
    ASSUME TypeInv, NEW p \in Proc, NEW stage \in Stage, ~At(p, "idle"),
           GoTo(p, stage),
           \/ stage \notin {"stamp", "upsert", "scan", "undo"}
           \/ task[p].at \in {"stamp", "upsert", "scan", "undo"},
           rows' \subseteq Row, order' \in [Order -> Status],
           unseen' \subseteq SUBSET Nat
    PROVE  TypeInv'
<1> DEFINE t == [task[p] EXCEPT !.at = stage]
<1>0. task[p] \in Task
  BY DEF TypeInv, TypeOK
<1>1. t \in Task /\ t.at = stage /\ t.k = task[p].k /\ t.order = task[p].order
  BY <1>0 DEF Task
<1>2. task' = [task EXCEPT ![p] = t]
  BY DEF GoTo
<1>3. task[p].order \in Order
  BY DEF TypeInv, At
<1>4. task[p].at \in {"stamp", "upsert", "scan", "undo"} =>
          task[p].k \in 1 .. Len(Windows[task[p].order])
  BY DEF TypeInv, TypeOK
<1> HIDE DEF t
<1> QED BY <1>1, <1>2, <1>3, <1>4, TaskTyped

(* A process that goes on to the next window.                               *)
LEMMA NextWindowTyped ==
    ASSUME TypeInv, NEW p \in Proc, NEW days \in SUBSET Nat, ~At(p, "idle"),
           NextWindow(p, days), UNCHANGED order, rows' \subseteq Row,
           unseen' \subseteq SUBSET Nat
    PROVE  TypeInv'
<1> DEFINE u == IF task[p].k < Len(Windows[Mine(p)]) THEN Later(p, "stamp", days)
                ELSE IF Kind[Mine(p)] = "range" THEN Later(p, "postpass", days)
                ELSE IF Placing(p) THEN Later(p, "insert", days)
                ELSE Idle
<1>0. task[p] \in Task /\ Mine(p) = task[p].order /\ Mine(p) \in Order
  BY DEF TypeInv, TypeOK, At, Mine
<1>1. NoRow \in Row
  BY DayEndAssumption DEF NoRow, Row, Reason, Window
<1>2. Len(Windows[Mine(p)]) \in Nat /\ task[p].k \in Nat
  BY <1>0, WindowsTyped DEF Task
<1>3. \A stage \in Stage : Later(p, stage, days) \in Task
  <2> HIDE DEF Row, Stage
  <2> QED BY <1>0, <1>1, <1>2 DEF Later, Task
<1>4. \A stage \in Stage :
          /\ Later(p, stage, days).at = stage
          /\ Later(p, stage, days).order = Mine(p)
          /\ Later(p, stage, days).k = task[p].k + 1
  BY DEF Later
<1>5. u \in Task /\ (u.at # "idle" => u.order \in Order)
      /\ (u.at \in {"stamp", "upsert", "scan", "undo"} =>
             u.k \in 1 .. Len(Windows[u.order]))
  <2>1. {"stamp", "postpass", "insert"} \subseteq Stage
    BY DEF Stage
  <2> QED BY <1>0, <1>2, <1>3, <1>4, <2>1, IdleTyped
<1>6. task' = [task EXCEPT ![p] = u]
  BY DEF NextWindow
<1>7. rows' \subseteq Row /\ order' \in [Order -> Status]
  BY DEF TypeInv, TypeOK
<1> HIDE DEF u
<1> QED BY <1>5, <1>6, <1>7, TaskTyped

(* A reservation that has lost.                                             *)
LEMMA LoseTyped ==
    ASSUME TypeInv, NEW p \in Proc, ~At(p, "idle"), Lose(p),
           UNCHANGED order, rows' \subseteq Row, unseen' \subseteq SUBSET Nat
    PROVE  TypeInv'
<1>1. order' \in [Order -> Status] /\ "release" \in Stage
  BY DEF TypeInv, TypeOK, Stage
<1>2. CASE GoTo(p, "release")
  BY <1>1, <1>2, GoToTyped
<1>3. CASE Return(p)
  BY <1>1, <1>3, ReturnTyped
<1> QED BY <1>2, <1>3 DEF Lose

(* A request begins.                                                        *)
LEMMA StartTyped ==
    ASSUME TypeInv, NEW p \in Proc, NEW o \in Order, NEW stage \in Stage,
           stage \notin {"stamp", "upsert", "scan", "undo"},
           Start(p, stage, o), UNCHANGED <<rows, unseen>>,
           order' \in [Order -> Status]
    PROVE  TypeInv'
<1> DEFINE t == [Idle EXCEPT !.at = stage, !.order = o]
<1>1. t \in Task /\ t.at = stage /\ t.order = o
  <2>1. [Idle EXCEPT !.at = stage] \in Task
    BY IdleTyped DEF Task
  <2> QED BY <2>1 DEF Task, Idle
<1>2. rows' \subseteq Row /\ unseen' \subseteq SUBSET Nat
  BY DEF TypeInv, TypeOK
<1>3. task' = [task EXCEPT ![p] = t]
  BY DEF Start
<1> HIDE DEF t
<1> QED BY <1>1, <1>2, <1>3, TaskTyped

(* Every request keeps the types.                                           *)
LEMMA RequestTyped ==
    ASSUME TypeInv, NEW p \in Proc, Request(p)
    PROVE  TypeInv'
<1> USE DEF TypeInv, TypeOK
<1>1. ASSUME NEW o \in Order, Place(p, o)
      PROVE  TypeInv'
  <2>1. "check" \in Stage /\ order' \in [Order -> Status]
    BY <1>1 DEF Place, Becomes, Stage, Status
  <2> QED BY <1>1, <2>1, StartTyped DEF Place
<1>2. ASSUME NEW o \in Order, Confirm(p, o)
      PROVE  TypeInv'
  <2>1. "confirm" \in Stage /\ order' \in [Order -> Status]
    BY <1>2 DEF Confirm, Stage
  <2> QED BY <1>2, <2>1, StartTyped DEF Confirm
<1>3. ASSUME NEW o \in Order, Cancel(p, o)
      PROVE  TypeInv'
  <2>1. "cancel" \in Stage /\ order' \in [Order -> Status]
    BY <1>3 DEF Cancel, Stage
  <2> QED BY <1>3, <2>1, StartTyped DEF Cancel
<1> QED BY <1>1, <1>2, <1>3 DEF Request

(* A process that starts on the windows of its order.                       *)
LEMMA FirstTyped ==
    ASSUME TypeInv, NEW p \in Proc, NEW stage \in Stage, ~At(p, "idle"),
           task' = [task EXCEPT ![p].k = 1, ![p].at = stage],
           UNCHANGED rows, order' \in [Order -> Status],
           unseen' \subseteq SUBSET Nat
    PROVE  TypeInv'
<1> DEFINE t == [[task[p] EXCEPT !.k = 1] EXCEPT !.at = stage]
<1>0. task[p] \in Task /\ task[p].order \in Order
  BY DEF TypeInv, TypeOK, At
<1>1. [task[p] EXCEPT !.k = 1] \in Task
  BY <1>0 DEF Task
<1>2. t \in Task /\ t.k = 1 /\ t.order = task[p].order
  BY <1>0, <1>1 DEF Task
<1>3. task' = [task EXCEPT ![p] = t]
  BY <1>0 DEF TypeInv, TypeOK, Task
<1>4. 1 \in 1 .. Len(Windows[t.order]) /\ rows' \subseteq Row
  BY <1>0, <1>2, WindowsTyped DEF TypeInv, TypeOK
<1> HIDE DEF t
<1> QED BY <1>0, <1>2, <1>3, <1>4, TaskTyped

(* What the comparisons did not see are pairs of ids.                       *)
LEMMA UnseenTyped ==
    ASSUME TypeInv, NEW p \in Proc, Step(p)
    PROVE  unseen' \subseteq SUBSET Nat
<1>0. /\ unseen \subseteq SUBSET Nat /\ task[p] \in Task /\ rows \subseteq Row
  BY DEF TypeInv, TypeOK
<1>1. task[p].row.id \in Nat /\ \A r \in rows : r.id \in Nat
  <2>1. task[p].row \in Row
    BY <1>0 DEF Task
  <2> QED BY <1>0, <2>1 DEF Row
<1>2. ASSUME NEW S \in SUBSET rows,
             unseen' = unseen \cup {{task[p].row.id, r.id} : r \in S}
      PROVE  unseen' \subseteq SUBSET Nat
  <2> SUFFICES ASSUME NEW x \in unseen' PROVE x \in SUBSET Nat
    OBVIOUS
  <2>1. x \in unseen \/ \E r \in S : x = {task[p].row.id, r.id}
    BY <1>2
  <2>2. ASSUME NEW r \in S, x = {task[p].row.id, r.id} PROVE x \subseteq Nat
    <3>1. task[p].row.id \in Nat /\ r.id \in Nat
      BY <1>1
    <3> QED BY <2>2, <3>1
  <2> QED BY <1>0, <2>1, <2>2
<1>3. CASE unseen' = unseen
  BY <1>0, <1>3
<1>4. CASE Upsert(p)
  <2>1. Passed(p) \in SUBSET rows
    BY DEF Passed
  <2> QED BY <1>2, <1>3, <1>4, <2>1 DEF Upsert
<1>5. CASE ScanRaises(p)
  <2>1. {s \in Others(p) : s.owner # Merchant} \in SUBSET rows
    BY DEF Others
  <2> QED BY <1>2, <1>5, <2>1 DEF ScanRaises
<1> QED BY <1>3, <1>4, <1>5 DEF Step, Check, Insert, InsertFails, Release, Stamp,
        ScanLoses, ScanWins, Undo, PostPass, Rollback, ConfirmWrite, CancelWrite,
        Free

(* Every step of a handler keeps the types.                                 *)
LEMMA StepTyped ==
    ASSUME TypeInv, NEW p \in Proc, Step(p)
    PROVE  TypeInv'
<1>0. /\ rows \subseteq Row /\ order \in [Order -> Status]
      /\ task[p] \in Task
      /\ ~At(p, "idle") => Mine(p) \in Order
      /\ unseen' \subseteq SUBSET Nat
  BY UnseenTyped DEF TypeInv, TypeOK, At, Mine
<1> USE <1>0
<1>1. CASE Check(p)
  <2>1. ~At(p, "idle")
    BY <1>1 DEF Check, At
  <2>2. CASE Return(p) /\ Becomes(Mine(p), "refused")
    <3>1. order' \in [Order -> Status]
      BY <2>2 DEF Becomes, Status
    <3>2. rows' \subseteq Row
      BY <1>1 DEF Check
    <3> QED BY <2>2, <3>1, <3>2, ReturnTyped
  <2>3. CASE /\ task' = [task EXCEPT ![p].k = 1, ![p].at =
                            IF Kind[Mine(p)] = "slot" THEN "stamp" ELSE "insert"]
             /\ UNCHANGED order
    <3>1. (IF Kind[Mine(p)] = "slot" THEN "stamp" ELSE "insert") \in Stage
      BY DEF Stage
    <3>2. UNCHANGED rows
      BY <1>1 DEF Check
    <3> QED BY <2>1, <2>3, <3>1, <3>2, FirstTyped
  <2> QED BY <1>1, <2>2, <2>3 DEF Check
<1>2. CASE Insert(p)
  <2>1. order' \in [Order -> Status] /\ rows' \subseteq Row
    BY <1>2 DEF Insert, Becomes, Status
  <2> QED BY <1>2, <2>1, ReturnTyped DEF Insert
<1>3. CASE InsertFails(p)
  <2>1. "release" \in Stage /\ ~At(p, "idle") /\ order' = order /\ rows' = rows
    BY <1>3 DEF InsertFails, Stage, At
  <2> QED BY <1>3, <2>1, GoToTyped DEF InsertFails
<1>4. CASE Release(p)
  <2>1. order' \in [Order -> Status] /\ rows' \subseteq Row
    BY <1>4 DEF Release, Status
  <2> QED BY <1>4, <2>1, ReturnTyped DEF Release
<1>5. CASE Stamp(p)
  <2>1. PICK time, id \in 1 .. MaxTime :
          task' = [task EXCEPT ![p].at = "upsert", ![p].row =
                [id |-> id, owner |-> Mine(p), reason |-> ReasonOf(Mine(p)),
                 window |-> Windows[Mine(p)][task[p].k], created |-> time]]
    BY <1>5 DEF Stamp
  <2> DEFINE row == [id |-> id, owner |-> Mine(p), reason |-> ReasonOf(Mine(p)),
                 window |-> Windows[Mine(p)][task[p].k], created |-> time]
  <2> DEFINE t == [[task[p] EXCEPT !.at = "upsert"] EXCEPT !.row = row]
  <2>2. Mine(p) \in Order /\ task[p].k \in 1 .. Len(Windows[Mine(p)])
        /\ Mine(p) = task[p].order
    BY <1>5 DEF Stamp, At, TypeInv, TypeOK, Mine
  <2>3. row \in Row
    <3>1. id \in Nat /\ time \in Nat
      BY BoundsAssumption
    <3>2. Windows[Mine(p)][task[p].k] \in Window
      BY <2>2, WindowsTyped
    <3>3. ReasonOf(Mine(p)) \in Reason
      BY DEF ReasonOf, Reason
    <3> HIDE DEF Window
    <3> QED BY <2>2, <3>1, <3>2, <3>3 DEF Row
  <2> HIDE DEF row, Row
  <2>4. [task[p] EXCEPT !.at = "upsert"] \in Task
    BY DEF Task, Stage
  <2>5. t \in Task /\ t.order = task[p].order /\ t.k = task[p].k
    BY <2>3, <2>4 DEF Task
  <2>6. task' = [task EXCEPT ![p] = t]
    BY <2>1 DEF TypeInv, TypeOK, Task, row
  <2>7. rows' \subseteq Row /\ order' \in [Order -> Status]
    BY <1>5 DEF Stamp
  <2> HIDE DEF t
  <2> QED BY <2>2, <2>5, <2>6, <2>7, TaskTyped
<1>6. CASE Upsert(p)
  <2>1. ~At(p, "idle") /\ At(p, "upsert") /\ order' = order
        /\ task[p].row \in Row /\ task[p].days \in SUBSET Nat
        /\ task[p].row.id \in Nat
    <3>1. task[p].row \in Row /\ task[p].days \in SUBSET Nat
      BY DEF Task
    <3> QED BY <1>6, <3>1 DEF Upsert, At, Row
  <2>2. {"scan", "rollback"} \subseteq Stage
    BY DEF Stage
  <2>3. \/ rows' = rows
        \/ rows' = rows \cup {task[p].row}
    BY <1>6 DEF Upsert
  <2>4. rows' \subseteq Row
    BY <2>1, <2>3
  <2>5. CASE GoTo(p, "scan")
    BY <2>1, <2>2, <2>4, <2>5, GoToTyped DEF At
  <2>6. CASE GoTo(p, "rollback")
    BY <2>1, <2>2, <2>4, <2>6, GoToTyped
  <2>7. CASE Lose(p)
    BY <2>1, <2>4, <2>7, LoseTyped
  <2>8. CASE \E days \in SUBSET Nat : NextWindow(p, days)
    BY <2>1, <2>4, <2>8, NextWindowTyped
  <2>9. task[p].days \cup {task[p].row.id} \in SUBSET Nat
    BY <2>1
  <2> QED BY <1>6, <2>1, <2>5, <2>6, <2>7, <2>8, <2>9, Zenon DEF Upsert
<1>7. CASE ScanLoses(p)
  <2>1. "undo" \in Stage /\ ~At(p, "idle") /\ order' = order /\ rows' = rows
        /\ task[p].at = "scan"
    BY <1>7 DEF ScanLoses, Stage, At
  <2> QED BY <1>7, <2>1, GoToTyped DEF ScanLoses
<1>8. CASE ScanWins(p)
  <2>1. ~At(p, "idle") /\ UNCHANGED order /\ rows' \subseteq Row
    BY <1>8 DEF ScanWins, At
  <2> QED BY <1>8, <2>1, NextWindowTyped DEF ScanWins
<1>9. CASE ScanRaises(p)
  <2>1. order' \in [Order -> Status] /\ rows' \subseteq Row
    BY <1>9 DEF ScanRaises, Status
  <2> QED BY <1>9, <2>1, ReturnTyped DEF ScanRaises
<1>10. CASE Undo(p)
  <2>1. ~At(p, "idle") /\ UNCHANGED order /\ rows' \subseteq Row
    BY <1>10 DEF Undo, At
  <2> QED BY <1>10, <2>1, LoseTyped DEF Undo
<1>11. CASE PostPass(p)
  <2>1. ~At(p, "idle") /\ order' = order /\ rows' \subseteq Row
        /\ "rollback" \in Stage
    BY <1>11 DEF PostPass, At, Stage
  <2>2. CASE GoTo(p, "rollback")
    BY <2>1, <2>2, GoToTyped
  <2>3. CASE Return(p)
    BY <2>1, <2>3, ReturnTyped
  <2> QED BY <1>11, <2>2, <2>3 DEF PostPass
<1>12. CASE Rollback(p)
  <2>1. order' = order /\ rows' \subseteq Row
    BY <1>12 DEF Rollback
  <2> QED BY <1>12, <2>1, ReturnTyped DEF Rollback
<1>13. CASE ConfirmWrite(p)
  <2>1. ~At(p, "idle") /\ order' \in [Order -> Status] /\ rows' = rows
        /\ "stamp" \in Stage
    BY <1>13 DEF ConfirmWrite, At, Becomes, Status, Stage
  <2>2. task' = [task EXCEPT ![p].k = 1, ![p].at = "stamp"]
    BY <1>13 DEF ConfirmWrite, TypeInv, TypeOK, Task
  <2> QED BY <2>1, <2>2, FirstTyped
<1>14. CASE CancelWrite(p)
  <2>1. ~At(p, "idle") /\ order' \in [Order -> Status] /\ rows' \subseteq Row
        /\ "free" \in Stage
    BY <1>14 DEF CancelWrite, At, Becomes, Status, Stage
  <2> QED BY <1>14, <2>1, GoToTyped DEF CancelWrite
<1>15. CASE Free(p)
  <2>1. order' \in [Order -> Status] /\ rows' \subseteq Row
    BY <1>15 DEF Free
  <2> QED BY <1>15, <2>1, ReturnTyped DEF Free
<1> QED BY <1>1, <1>2, <1>3, <1>4, <1>5, <1>6, <1>7, <1>8, <1>9, <1>10,
           <1>11, <1>12, <1>13, <1>14, <1>15 DEF Step

(* Blocking by hand keeps the types.                                        *)
LEMMA BlockTyped ==
    ASSUME TypeInv, \/ \E w \in Blocks : Block(w)
                    \/ \E r \in rows : Unblock(r)
    PROVE  TypeInv'
<1>1. order' = order /\ task' = task /\ unseen' = unseen
  BY DEF Block, Unblock
<1>2. rows' \subseteq Row
  <2>1. CASE \E r \in rows : Unblock(r)
    BY <2>1 DEF Unblock, TypeInv, TypeOK
  <2>2. ASSUME NEW w \in Blocks, Block(w)
        PROVE  rows' \subseteq Row
    <3>1. w \in Window
      BY WindowsAssumption
    <3> HIDE DEF Window
    <3>2. [id |-> 0, owner |-> Merchant, reason |-> "personal",
           window |-> w, created |-> 0] \in Row
      BY <3>1 DEF Row, Reason
    <3> QED BY <2>2, <3>2 DEF Block, TypeInv, TypeOK
  <2> QED BY <2>1, <2>2
<1> QED BY <1>1, <1>2 DEF TypeInv, TypeOK

(* Every step keeps the types.                                              *)
LEMMA NextTyped ==
    ASSUME TypeInv, [Next]_vars
    PROVE  TypeInv'
<1>1. CASE UNCHANGED vars
  BY <1>1 DEF vars, TypeInv, TypeOK
<1> QED BY <1>1, RequestTyped, StepTyped, BlockTyped DEF Next

(* No process is doing anything at first.                                   *)
LEMMA InitTyped == Init => TypeInv
<1> HIDE DEF Task
<1> QED BY IdleTyped DEF Init, TypeInv, TypeOK, Status

(* Whatever is asked for, blocked and cancelled, rows, orders and processes *)
(* keep their types, and a reservation is always at one of the windows of   *)
(* its order (booking_availability.py, rental_availability.py).             *)
THEOREM TypeCorrect == Spec => []TypeOK
<1>1. Spec => []TypeInv
  BY InitTyped, NextTyped, PTL DEF Spec
<1>2. TypeInv => TypeOK
  BY DEF TypeInv
<1> QED BY <1>1, <1>2, PTL

-----------------------------------------------------------------------------
(* What a reservation holds, whatever the lag, the blocks made by hand and  *)
(* the orders several requests are about.  A process deletes by the ids it  *)
(* has noted, so first: no other order has a row with one of those ids.     *)

OwnReason == \A r \in rows : r.owner \in Order => r.reason = ReasonOf(r.owner)

(* The id made for a row is nobody else's. *)
Unused(p) ==
    /\ \A r \in rows : r.id # task[p].row.id
    /\ \A q \in Proc : /\ q # p => task[q].row.id # task[p].row.id
                       /\ task[p].row.id \notin task[q].days

Own(p) ==
    /\ At(p, "upsert") \/ Compared(p) =>
          /\ task[p].row.id > 0
          /\ task[p].row.owner = Mine(p)
          /\ task[p].row.reason = ReasonOf(Mine(p))
          /\ task[p].row.window = Windows[Mine(p)][task[p].k]
    /\ At(p, "upsert") => Unused(p)
    /\ Compared(p) =>
          /\ Kind[Mine(p)] = "slot"
          /\ \A r \in rows : r.id = task[p].row.id => r.owner = Mine(p)
    /\ 0 \notin task[p].days
    /\ \A r \in rows : r.id \in task[p].days => r.owner = Mine(p)

OwnInv == TypeInv /\ OwnReason /\ \A p \in Proc : Own(p)

(* An order being placed has one process, which holds the windows it has    *)
(* passed; a draft holds all of them, and nobody is about it who has not    *)
(* still to change its status.                                              *)
Held(o, k) == \E r \in rows : r.owner = o /\ r.window = Windows[o][k]

NoRows(o) == \A r \in rows : r.owner # o

Reserving == {"stamp", "upsert", "scan", "undo"}

Holding(p, o) ==
    /\ task[p].at \in {"check", "insert"} => order[o] = "placing"
    /\ order[o] = "placing" =>
          /\ task[p].at \in Reserving \cup {"check", "insert", "release"}
          /\ At(p, "check") \/ Kind[o] = "range" => NoRows(o)
          /\ task[p].at \in Reserving =>
                Kind[o] = "slot" /\ \A j \in 1 .. task[p].k - 1 : Held(o, j)
          /\ At(p, "scan") => task[p].row \in rows
          /\ At(p, "insert") /\ Kind[o] = "slot" =>
                \A j \in 1 .. Len(Windows[o]) : Held(o, j)

OrderGood(o) ==
    /\ order[o] \in {"none", "refused"} => NoRows(o)
    /\ order[o] \in {"none", "refused", "failed"} => \A p \in Proc : Mine(p) # o
    /\ order[o] = "placing" =>
          \A p, q \in Proc : Mine(p) = o /\ Mine(q) = o => p = q
    /\ order[o] = "draft" => \A p \in Proc : Mine(p) = o =>
          task[p].at \in {"confirm", "cancel"}
    /\ order[o] = "draft" /\ Kind[o] = "slot" =>
          \A k \in 1 .. Len(Windows[o]) : Held(o, k)
    /\ \A p \in Proc : Mine(p) = o => Holding(p, o)

Reserved == \A o \in Order : OrderGood(o)

(* What a step leaves of the process that takes it. *)

Alone(p) == \A q \in Proc : q # p => task'[q] = task[q]

(* A process that returns forgets its order and its rows.                   *)
LEMMA ReturnFacts ==
    ASSUME TypeInv, NEW p \in Proc, Return(p)
    PROVE  /\ Alone(p) /\ task'[p] = Idle
           /\ task'[p].at = "idle" /\ task'[p].order = Merchant
           /\ task'[p].row.id = 0 /\ task'[p].days = {}
<1> HIDE DEF Task
<1>1. Alone(p) /\ task'[p] = Idle
  BY DEF Return, Alone, TypeInv, TypeOK
<1> QED BY <1>1 DEF Idle, NoRow

(* One that goes elsewhere in its handler keeps both.                       *)
LEMMA GoToFacts ==
    ASSUME TypeInv, NEW p \in Proc, NEW stage, GoTo(p, stage)
    PROVE  /\ Alone(p) /\ task'[p].at = stage /\ task'[p].order = task[p].order
           /\ task'[p].k = task[p].k /\ task'[p].row = task[p].row
           /\ task'[p].days = task[p].days
<1>1. task \in [Proc -> Task]
  BY DEF TypeInv, TypeOK
<1> QED BY <1>1 DEF GoTo, Alone, Task

(* One that is done with a window has another, or what follows the last.    *)
LEMMA NextWindowFacts ==
    ASSUME TypeInv, NEW p \in Proc, NEW days, NextWindow(p, days)
    PROVE  /\ Alone(p) /\ task'[p].row.id = 0
           /\ task'[p].days \in {days, {}}
           /\ Kind[Mine(p)] = "range" => task'[p].days = days
           /\ \/ /\ task[p].k < Len(Windows[Mine(p)])
                 /\ task'[p].at = "stamp" /\ task'[p].order = Mine(p)
                 /\ task'[p].k = task[p].k + 1
              \/ /\ ~(task[p].k < Len(Windows[Mine(p)]))
                 /\ \/ /\ task'[p].at = "postpass" /\ task'[p].order = Mine(p)
                       /\ Kind[Mine(p)] = "range"
                    \/ /\ task'[p].at = "insert" /\ task'[p].order = Mine(p)
                       /\ Kind[Mine(p)] # "range" /\ Placing(p)
                    \/ /\ task'[p] = Idle
                       /\ Kind[Mine(p)] # "range" /\ ~Placing(p)
<1> DEFINE u == IF task[p].k < Len(Windows[Mine(p)]) THEN Later(p, "stamp", days)
                ELSE IF Kind[Mine(p)] = "range" THEN Later(p, "postpass", days)
                ELSE IF Placing(p) THEN Later(p, "insert", days)
                ELSE Idle
<1>1. task' = [task EXCEPT ![p] = u]
  BY DEF NextWindow
<1>2. /\ u = Idle => u.row.id = 0 /\ u.days = {}
      /\ \A stage : LET v == Later(p, stage, days) IN
            /\ v.at = stage /\ v.row.id = 0 /\ v.days = days
            /\ v.order = Mine(p) /\ v.k = task[p].k + 1
  BY DEF Later, NoRow, Idle
<1>3. \/ task[p].k < Len(Windows[Mine(p)]) /\ u = Later(p, "stamp", days)
      \/ /\ ~(task[p].k < Len(Windows[Mine(p)]))
         /\ \/ Kind[Mine(p)] = "range" /\ u = Later(p, "postpass", days)
            \/ Kind[Mine(p)] # "range" /\ Placing(p) /\ u = Later(p, "insert", days)
            \/ Kind[Mine(p)] # "range" /\ ~Placing(p) /\ u = Idle
  OBVIOUS
<1> HIDE DEF u, Task
<1>4. Alone(p) /\ task'[p] = u
  BY <1>1 DEF Alone, TypeInv, TypeOK
<1> QED BY <1>2, <1>3, <1>4

(* A process that loses a window releases or goes.                          *)
LEMMA LoseFacts ==
    ASSUME TypeInv, NEW p \in Proc, Lose(p)
    PROVE  /\ Alone(p) /\ task'[p].row.id \in {0, task[p].row.id}
           /\ task'[p].days \in {{}, task[p].days}
           /\ \/ task'[p].at = "idle" /\ task'[p].order = Merchant
                 /\ task'[p].days = {} /\ ~Placing(p)
              \/ task'[p].at = "release" /\ task'[p].order = task[p].order
BY ReturnFacts, GoToFacts DEF Lose

(* One that begins has nothing in hand.                                     *)
LEMMA StartFacts ==
    ASSUME TypeInv, NEW p \in Proc, NEW o \in Order, NEW stage, Start(p, stage, o)
    PROVE  /\ Alone(p) /\ task'[p].at = stage /\ task'[p].order = o
           /\ task'[p].row.id = 0 /\ task'[p].days = {}
           /\ At(p, "idle")
<1> DEFINE t == [Idle EXCEPT !.at = stage, !.order = o]
<1>1. t.at = stage /\ t.order = o /\ t.row.id = 0 /\ t.days = {}
  BY DEF Idle, NoRow
<1> HIDE DEF t, Task
<1>2. Alone(p) /\ task'[p] = t
  BY DEF Start, Alone, TypeInv, TypeOK, t
<1> QED BY <1>1, <1>2 DEF Start

(* A step that makes no row of an order, and notes no new id.               *)
LEMMA OwnMoves ==
    ASSUME OwnInv, TypeInv', NEW p \in Proc, Alone(p),
           \A r \in rows' : r \in rows \/ (r.id = 0 /\ r.owner = Merchant),
           ~At(p, "upsert")',
           task'[p].row.id \in {0, task[p].row.id},
           Compared(p)' => /\ Compared(p) /\ task'[p].row = task[p].row
                           /\ task'[p].order = task[p].order
                           /\ task'[p].k = task[p].k,
           task'[p].days \subseteq task[p].days,
           task'[p].days # {} => task'[p].order = task[p].order
    PROVE  OwnInv'
<1>1. OwnReason'
  BY OrderAssumption DEF OwnInv, OwnReason
<1>2. ASSUME NEW q \in Proc PROVE Own(q)'
  <2>1. Own(q) /\ Own(p)
    BY DEF OwnInv
  <2>2. CASE q = p
    <3>1. Compared(p)' => Own(p)'
      BY <2>1 DEF Own, Compared, Mine, At
    <3>2. ~Compared(p)' => Own(p)'
      BY <2>1 DEF Own, Compared, Mine, At
    <3> QED BY <2>2, <3>1, <3>2
  <2>3. CASE q # p
    <3>1. task'[q] = task[q]
      BY <2>3 DEF Alone
    <3>2. At(q, "upsert") => Unused(q)'
      <4> SUFFICES ASSUME At(q, "upsert") PROVE Unused(q)'
        OBVIOUS
      <4>1. Unused(q) /\ task[q].row.id > 0
        BY <2>1 DEF Own
      <4>2. \A r \in rows' : r.id # task[q].row.id
        BY <4>1 DEF Unused
      <4>3. ASSUME NEW x \in Proc
            PROVE  /\ x # q => task'[x].row.id # task[q].row.id
                   /\ task[q].row.id \notin task'[x].days
        <5>1. CASE x = p
          BY <2>3, <4>1, <5>1 DEF Unused
        <5>2. CASE x # p
          BY <4>1, <5>2 DEF Unused, Alone
        <5> QED BY <5>1, <5>2
      <4> QED BY <3>1, <4>2, <4>3 DEF Unused
    <3>3. \A r \in rows' : r.id = task[q].row.id /\ Compared(q) => r.owner = Mine(q)
      BY <2>1 DEF Own
    <3>4. \A r \in rows' : r.id \in task[q].days => r.owner = Mine(q)
      BY <2>1 DEF Own
    <3> QED BY <2>1, <3>1, <3>2, <3>3, <3>4 DEF Own, At, Compared, Mine
  <2> QED BY <2>2, <2>3
<1> QED BY <1>1, <1>2 DEF OwnInv

(* A row is made with an id that no row and no process has.                 *)
LEMMA StampOwn ==
    ASSUME OwnInv, TypeInv', NEW p \in Proc, Stamp(p)
    PROVE  OwnInv'
<1>1. PICK time \in 1 .. MaxTime : \E id \in 1 .. MaxTime :
          /\ Now(time, id)
          /\ task' = [task EXCEPT ![p].at = "upsert", ![p].row =
                [id |-> id, owner |-> Mine(p), reason |-> ReasonOf(Mine(p)),
                 window |-> Windows[Mine(p)][task[p].k], created |-> time]]
  BY DEF Stamp
<1>2. PICK id \in 1 .. MaxTime :
          /\ Now(time, id)
          /\ task' = [task EXCEPT ![p].at = "upsert", ![p].row =
                [id |-> id, owner |-> Mine(p), reason |-> ReasonOf(Mine(p)),
                 window |-> Windows[Mine(p)][task[p].k], created |-> time]]
  BY <1>1
<1> DEFINE new == [id |-> id, owner |-> Mine(p), reason |-> ReasonOf(Mine(p)),
                   window |-> Windows[Mine(p)][task[p].k], created |-> time]
<1>3. /\ new.id = id /\ new.owner = Mine(p) /\ new.reason = ReasonOf(Mine(p))
      /\ new.window = Windows[Mine(p)][task[p].k]
  OBVIOUS
<1>4. id > 0 /\ rows' = rows /\ At(p, "stamp")
  BY BoundsAssumption DEF Stamp
<1>5. id \notin Ids
  <2>1. CASE Lag
    BY <1>2, <2>1 DEF Now
  <2>2. CASE ~Lag
    <3>1. id = time /\ \A x \in Ids : x < time
      BY <1>2, <2>2 DEF Now
    <3>2. ~(time < time)
      BY BoundsAssumption
    <3> QED BY <3>1, <3>2
  <2> QED BY <2>1, <2>2
<1>6. /\ \A r \in rows : r.id # id
      /\ \A q \in Proc : task[q].row.id # id /\ id \notin task[q].days
  BY <1>5 DEF Ids
<1>7. task' = [task EXCEPT ![p].at = "upsert", ![p].row = new]
  BY <1>2
<1> HIDE DEF new
<1>8. task \in [Proc -> Task]
  BY DEF OwnInv, TypeInv, TypeOK
<1>9. /\ task'[p].at = "upsert" /\ task'[p].row = new
      /\ task'[p].order = task[p].order /\ task'[p].k = task[p].k
      /\ task'[p].days = task[p].days
  BY <1>7, <1>8 DEF Task
<1>10. \A q \in Proc : q # p => task'[q] = task[q]
  BY <1>7, <1>8
<1>11. OwnReason'
  BY <1>4 DEF OwnInv, OwnReason
<1>12. ASSUME NEW q \in Proc PROVE Own(q)'
  <2>1. Own(q) /\ Own(p)
    BY DEF OwnInv
  <2>2. CASE q = p
    <3>1. Unused(p)'
      BY <1>3, <1>4, <1>6, <1>9, <1>10 DEF Unused
    <3> QED BY <1>3, <1>4, <1>9, <2>1, <2>2, <3>1 DEF Own, At, Compared, Mine
  <2>3. CASE q # p
    <3>1. At(q, "upsert") => Unused(q)'
      <4> SUFFICES ASSUME At(q, "upsert") PROVE Unused(q)'
        OBVIOUS
      <4>1. Unused(q) /\ task[q].row.id # id
        BY <1>6, <2>1 DEF Own
      <4>2. ASSUME NEW x \in Proc
            PROVE  /\ x # q => task'[x].row.id # task[q].row.id
                   /\ task[q].row.id \notin task'[x].days
        <5>1. CASE x = p
          BY <1>3, <1>9, <4>1, <5>1 DEF Unused
        <5>2. CASE x # p
          BY <1>10, <4>1, <5>2 DEF Unused
        <5> QED BY <5>1, <5>2
      <4> QED BY <1>4, <1>10, <2>3, <4>1, <4>2 DEF Unused
    <3> QED BY <1>4, <1>10, <2>1, <2>3, <3>1 DEF Own, At, Compared, Mine
  <2> QED BY <2>2, <2>3
<1> QED BY <1>11, <1>12 DEF OwnInv

(* The insert: the row is its order's, and no other process has its id.     *)
LEMMA InsertsOwn ==
    ASSUME OwnInv, TypeInv', NEW p \in Proc, At(p, "upsert"), Alone(p),
           rows' = rows \cup {task[p].row}, task'[p].order = task[p].order,
           \/ /\ task'[p].at = "scan" /\ Kind[Mine(p)] = "slot"
              /\ task'[p].row = task[p].row /\ task'[p].k = task[p].k
           \/ task'[p].at \notin {"upsert", "scan", "undo"},
           task'[p].row.id \in {0, task[p].row.id},
           task'[p].days \subseteq task[p].days \cup {task[p].row.id}
    PROVE  OwnInv'
<1> DEFINE new == task[p].row
<1>1. /\ new.id > 0 /\ new.owner = Mine(p) /\ new.reason = ReasonOf(Mine(p))
      /\ new.window = Windows[Mine(p)][task[p].k]
      /\ \A r \in rows : r.id # new.id
      /\ \A q \in Proc : /\ q # p => task[q].row.id # new.id
                         /\ new.id \notin task[q].days
  BY DEF OwnInv, Own, Unused
<1>2. rows' = rows \cup {new} /\ Mine(p)' = Mine(p)
  BY DEF Mine
<1>3. OwnReason'
  BY <1>1, <1>2 DEF OwnInv, OwnReason
<1>4. Own(p)
  BY DEF OwnInv
<1>5. Own(p)'
  <2>1. \A r \in rows' : r.id = new.id => r.owner = Mine(p)
    BY <1>1, <1>2
  <2>2. 0 \notin task'[p].days
    BY <1>1, <1>4 DEF Own
  <2>3. \A r \in rows' : r.id \in task'[p].days => r.owner = Mine(p)
    BY <1>1, <1>2, <1>4 DEF Own
  <2>4. ~At(p, "upsert")'
    BY DEF At
  <2>5. Compared(p)' => /\ Kind[Mine(p)] = "slot" /\ task'[p].row = new
                        /\ task'[p].k = task[p].k
    BY DEF Compared
  <2> HIDE DEF new
  <2> QED BY <1>1, <1>2, <2>1, <2>2, <2>3, <2>4, <2>5 DEF Own
<1>6. ASSUME NEW q \in Proc, q # p PROVE Own(q)'
  <2>1. Own(q) /\ task'[q] = task[q] /\ task[q].row.id # new.id
        /\ new.id \notin task[q].days
    BY <1>1, <1>6 DEF OwnInv, Alone
  <2>2. At(q, "upsert") => Unused(q)'
    <3> SUFFICES ASSUME At(q, "upsert") PROVE Unused(q)'
      OBVIOUS
    <3>1. Unused(q) /\ task[q].row.id > 0
      BY <2>1 DEF Own
    <3>2. ASSUME NEW x \in Proc
          PROVE  /\ x # q => task'[x].row.id # task[q].row.id
                 /\ task[q].row.id \notin task'[x].days
      <4>1. CASE x = p
        BY <1>6, <2>1, <3>1, <4>1 DEF Unused
      <4>2. CASE x # p
        BY <3>1, <4>2 DEF Unused, Alone
      <4> QED BY <4>1, <4>2
    <3> QED BY <1>2, <2>1, <3>1, <3>2 DEF Unused
  <2>3. /\ \A r \in rows' : r.id = task[q].row.id /\ Compared(q) => r.owner = Mine(q)
        /\ \A r \in rows' : r.id \in task[q].days => r.owner = Mine(q)
    BY <1>2, <2>1 DEF Own
  <2> HIDE DEF new
  <2> QED BY <2>1, <2>2, <2>3 DEF Own, At, Compared, Mine
<1> QED BY <1>3, <1>5, <1>6 DEF OwnInv

(* Each step of a handler keeps the ids apart.                              *)
LEMMA StepOwn ==
    ASSUME OwnInv, TypeInv', NEW p \in Proc, Step(p)
    PROVE  OwnInv'
<1>0. TypeInv /\ Own(p) /\ task[p].order = Mine(p)
  BY DEF OwnInv, Mine
<1>1. ASSUME Return(p), rows' \subseteq rows PROVE OwnInv'
  BY <1>0, <1>1, ReturnFacts, OwnMoves DEF At, Compared
<1>2. ASSUME NEW stage \in Stage, stage \notin {"upsert", "scan", "undo"},
             GoTo(p, stage), rows' \subseteq rows
      PROVE  OwnInv'
  BY <1>0, <1>2, GoToFacts, OwnMoves DEF At, Compared
<1>3. ASSUME Lose(p), rows' \subseteq rows PROVE OwnInv'
  BY <1>0, <1>3, LoseFacts, OwnMoves DEF At, Compared
<1>4. ASSUME NEW days \in SUBSET task[p].days, NextWindow(p, days), rows' \subseteq rows
      PROVE  OwnInv'
  <2>1. /\ Alone(p) /\ task'[p].row.id = 0 /\ task'[p].days \subseteq task[p].days
        /\ task'[p].at \in {"stamp", "postpass", "insert", "idle"}
        /\ task'[p].days # {} => task'[p].order = task[p].order
    <3>1. Idle.at = "idle" /\ Idle.days = {}
      BY DEF Idle
    <3> QED BY <1>0, <1>4, <3>1, NextWindowFacts
  <2> QED BY <1>4, <2>1, OwnMoves DEF At, Compared
<1>5. {"release", "rollback", "free"} \subseteq Stage
  BY DEF Stage
<1>6. CASE Check(p)
  <2>1. CASE Return(p)
    BY <1>1, <1>6, <2>1 DEF Check
  <2>2. CASE ~Return(p)
    <3>1. task \in [Proc -> Task] /\ rows' = rows
      BY <1>0, <1>6 DEF Check, TypeInv, TypeOK
    <3>2. task' = [task EXCEPT ![p].k = 1, ![p].at =
                     IF Kind[Mine(p)] = "slot" THEN "stamp" ELSE "insert"]
      BY <1>6, <2>2 DEF Check
    <3>3. /\ Alone(p) /\ task'[p].at \in {"stamp", "insert"}
          /\ task'[p].row = task[p].row /\ task'[p].days = task[p].days
          /\ task'[p].order = task[p].order
      BY <3>1, <3>2 DEF Alone, Task
    <3> QED BY <3>1, <3>3, OwnMoves DEF At, Compared
  <2> QED BY <2>1, <2>2
<1>7. CASE Insert(p)
  BY <1>1, <1>7 DEF Insert
<1>8. CASE InsertFails(p)
  BY <1>2, <1>5, <1>8 DEF InsertFails
<1>9. CASE Release(p)
  BY <1>1, <1>9 DEF Release
<1>10. CASE Stamp(p)
  BY <1>10, StampOwn
<1>11. CASE Upsert(p)
  <2>1. At(p, "upsert")
    BY <1>11 DEF Upsert
  <2>2. CASE /\ rows' = rows \cup {task[p].row}
             /\ IF Kind[Mine(p)] = "slot" THEN GoTo(p, "scan")
                ELSE NextWindow(p, task[p].days \cup {task[p].row.id})
    <3>1. CASE Kind[Mine(p)] = "slot"
      BY <1>0, <2>1, <2>2, <3>1, GoToFacts, InsertsOwn
    <3>2. CASE Kind[Mine(p)] # "slot"
      <4>1. Kind[Mine(p)] = "range"
        BY <1>0, <2>1, <3>2, KindAssumption DEF TypeInv, At
      <4>2. /\ Alone(p) /\ task'[p].row.id = 0 /\ task'[p].order = task[p].order
            /\ task'[p].at \in {"stamp", "postpass"}
            /\ task'[p].days \in {task[p].days \cup {task[p].row.id}, {}}
        BY <1>0, <2>2, <3>2, <4>1, NextWindowFacts
      <4> QED BY <2>1, <2>2, <4>2, InsertsOwn
    <3> QED BY <3>1, <3>2
  <2>3. CASE NextWindow(p, task[p].days) /\ UNCHANGED rows
    BY <1>4, <2>3
  <2>4. CASE /\ IF Kind[Mine(p)] = "slot" THEN Lose(p) ELSE GoTo(p, "rollback")
             /\ UNCHANGED rows
    BY <1>2, <1>3, <1>5, <2>4
  <2> QED BY <1>11, <2>2, <2>3, <2>4 DEF Upsert
<1>12. CASE ScanLoses(p)
  <2>1. Compared(p) /\ GoTo(p, "undo") /\ rows' = rows
    BY <1>12 DEF ScanLoses, At, Compared
  <2> QED BY <1>0, <2>1, GoToFacts, OwnMoves DEF At
<1>13. CASE ScanWins(p)
  BY <1>4, <1>13 DEF ScanWins
<1>14. CASE ScanRaises(p)
  BY <1>1, <1>14 DEF ScanRaises
<1>15. CASE Undo(p)
  BY <1>3, <1>15 DEF Undo
<1>16. CASE PostPass(p)
  BY <1>1, <1>2, <1>5, <1>16 DEF PostPass
<1>17. CASE Rollback(p) \/ Free(p)
  BY <1>1, <1>17 DEF Rollback, Free
<1>18. CASE ConfirmWrite(p)
  <2>1. task \in [Proc -> Task] /\ rows' = rows
    BY <1>0, <1>18 DEF ConfirmWrite, TypeInv, TypeOK
  <2>2. task' = [task EXCEPT ![p].at = "stamp", ![p].k = 1]
    BY <1>18 DEF ConfirmWrite
  <2>3. /\ Alone(p) /\ task'[p].at = "stamp"
        /\ task'[p].row = task[p].row /\ task'[p].days = task[p].days
        /\ task'[p].order = task[p].order
    BY <2>1, <2>2 DEF Alone, Task
  <2> QED BY <2>1, <2>3, OwnMoves DEF At, Compared
<1>19. CASE CancelWrite(p)
  BY <1>2, <1>5, <1>19 DEF CancelWrite
<1> QED BY <1>6, <1>7, <1>8, <1>9, <1>10, <1>11, <1>12, <1>13, <1>14, <1>15,
           <1>16, <1>17, <1>18, <1>19 DEF Step

(* Every step of the system does.                                           *)
LEMMA NextOwn ==
    ASSUME OwnInv, [Next]_vars
    PROVE  OwnInv'
<1>1. TypeInv' /\ TypeInv
  BY NextTyped DEF OwnInv
<1>2. ASSUME NEW p \in Proc, NEW o \in Order, Place(p, o) \/ Confirm(p, o) \/ Cancel(p, o)
      PROVE  OwnInv'
  <2>1. rows' = rows /\ \E stage \in {"check", "confirm", "cancel"} : Start(p, stage, o)
    BY <1>2 DEF Place, Confirm, Cancel
  <2> QED BY <1>1, <2>1, StartFacts, OwnMoves DEF At, Compared
<1>3. CASE (\E w \in Blocks : Block(w)) \/ (\E r \in rows : Unblock(r)) \/ UNCHANGED vars
  <2>1. UNCHANGED task
    BY <1>3 DEF Block, Unblock, vars
  <2>2. \A r \in rows' : r \in rows \/ (r.id = 0 /\ r.owner = Merchant)
    BY <1>3 DEF Block, Unblock, vars
  <2>3. OwnReason'
    BY <2>2, OrderAssumption DEF OwnInv, OwnReason
  <2>4. ASSUME NEW q \in Proc PROVE Own(q)'
    BY <2>1, <2>2 DEF OwnInv, Own, Unused, At, Compared, Mine
  <2> QED BY <1>1, <2>3, <2>4 DEF OwnInv
<1>4. ASSUME NEW p \in Proc, Step(p) PROVE OwnInv'
  BY <1>1, <1>4, StepOwn
<1> QED BY <1>2, <1>3, <1>4 DEF Next, Request

(* What a step of a handler may change: its own task, its own order, and    *)
(* rows of that order.                                                      *)
LEMMA StepScope ==
    ASSUME OwnInv, TypeInv', NEW p \in Proc, Step(p)
    PROVE  /\ Mine(p) \in Order /\ Alone(p)
           /\ task'[p].order \in {Mine(p), Merchant}
           /\ \A x \in Order : x # Mine(p) => order'[x] = order[x]
           /\ \A r \in rows \cup rows' : r.owner # Mine(p) => r \in rows /\ r \in rows'
<1>0. /\ TypeInv /\ Own(p) /\ order \in [Order -> Status]
      /\ task \in [Proc -> Task] /\ Mine(p) = task[p].order
  BY DEF OwnInv, TypeInv, TypeOK, Mine
<1>1. Mine(p) \in Order
  <2>1. ~At(p, "idle")
    BY DEF Step, Check, Insert, InsertFails, Release, Stamp, Upsert, ScanLoses,
       ScanWins, ScanRaises, Undo, PostPass, Rollback, ConfirmWrite, CancelWrite,
       Free, At
  <2> QED BY <1>0, <2>1 DEF TypeInv, At
<1>2. Alone(p) /\ task'[p].order \in {Mine(p), Merchant}
  <2>1. CASE Return(p)
    BY <1>0, <2>1, ReturnFacts
  <2>2. CASE \E stage \in Stage : GoTo(p, stage)
    BY <1>0, <2>2, GoToFacts
  <2>3. CASE Lose(p)
    BY <1>0, <2>3, LoseFacts
  <2>4. CASE \E days \in SUBSET Nat : NextWindow(p, days)
    BY <1>0, <2>4, NextWindowFacts DEF Idle
  <2>5. CASE Stamp(p)
    <3>1. PICK new : task' = [task EXCEPT ![p].at = "upsert", ![p].row = new]
      BY <2>5 DEF Stamp
    <3> QED BY <1>0, <3>1 DEF Alone, Task
  <2>6. CASE ConfirmWrite(p)
    BY <1>0, <2>6 DEF ConfirmWrite, Alone, Task
  <2>7. CASE Check(p) /\ ~Return(p)
    <3>1. task' = [task EXCEPT ![p].k = 1, ![p].at =
                     IF Kind[Mine(p)] = "slot" THEN "stamp" ELSE "insert"]
      BY <2>7 DEF Check
    <3> QED BY <1>0, <3>1 DEF Alone, Task
  <2>8. {"release", "rollback", "free", "undo", "scan"} \subseteq Stage
    BY DEF Stage
  <2>9. CASE Upsert(p)
    <3>1. /\ task[p].days \in SUBSET Nat
          /\ task[p].days \cup {task[p].row.id} \in SUBSET Nat
      BY <1>0 DEF Task, Row
    <3> QED BY <2>2, <2>3, <2>4, <2>8, <2>9, <3>1 DEF Upsert
  <2>10. CASE ScanWins(p)
    BY <2>4, <2>10 DEF ScanWins
  <2>11. CASE Check(p) /\ Return(p)
    BY <2>1, <2>11
  <2>12. CASE Insert(p) \/ Release(p) \/ ScanRaises(p) \/ Rollback(p) \/ Free(p)
    BY <2>1, <2>12 DEF Insert, Release, ScanRaises, Rollback, Free
  <2>13. CASE InsertFails(p) \/ ScanLoses(p) \/ PostPass(p) \/ CancelWrite(p)
    BY <2>1, <2>2, <2>8, <2>13 DEF InsertFails, ScanLoses, PostPass, CancelWrite
  <2>14. CASE Undo(p)
    BY <2>3, <2>14 DEF Undo
  <2> QED BY <2>5, <2>6, <2>7, <2>9, <2>10, <2>11, <2>12, <2>13, <2>14 DEF Step
<1>3. \A x \in Order : x # Mine(p) => order'[x] = order[x]
  BY <1>0 DEF Step, Check, Insert, InsertFails, Release, Stamp, Upsert, ScanLoses,
     ScanWins, ScanRaises, Undo, PostPass, Rollback, ConfirmWrite, CancelWrite,
     Free, Becomes
<1>4. \A r \in rows \cup rows' : r.owner # Mine(p) => r \in rows /\ r \in rows'
  <2>1. CASE Undo(p)
    <3>1. \A r \in rows : r.id = task[p].row.id => r.owner = Mine(p)
      BY <1>0, <2>1 DEF Undo, At, Own, Compared
    <3> QED BY <2>1, <3>1 DEF Undo
  <2>2. CASE Rollback(p)
    <3>1. \A r \in rows : r.id \in task[p].days => r.owner = Mine(p)
      BY <1>0 DEF Own
    <3> QED BY <2>2, <3>1 DEF Rollback
  <2>3. CASE Release(p) \/ Free(p)
    BY <2>3 DEF Release, Released, Free
  <2>4. CASE Upsert(p)
    BY <1>0, <2>4 DEF Upsert, Own, At
  <2>5. CASE \/ Check(p) \/ Insert(p) \/ InsertFails(p) \/ Stamp(p) \/ ScanLoses(p)
             \/ ScanWins(p) \/ ScanRaises(p) \/ PostPass(p) \/ ConfirmWrite(p)
             \/ CancelWrite(p)
    BY <2>5 DEF Check, Insert, InsertFails, Stamp, ScanLoses, ScanWins, ScanRaises,
       PostPass, ConfirmWrite, CancelWrite
  <2> QED BY <2>1, <2>2, <2>3, <2>4, <2>5 DEF Step
<1> QED BY <1>1, <1>2, <1>3, <1>4

(* An order nobody touches.                                                 *)
LEMMA OtherOrder ==
    ASSUME OwnInv, NEW x \in Order, OrderGood(x), order'[x] = order[x],
           \A r \in rows \cup rows' : r.owner = x => r \in rows /\ r \in rows',
           \A q \in Proc : task[q].order = x \/ task'[q].order = x =>
               task'[q] = task[q]
    PROVE  OrderGood(x)'
<1>1. NoRows(x) => NoRows(x)'
  BY DEF NoRows
<1>2. \A k : Held(x, k) => Held(x, k)'
  BY DEF Held
<1>3. \A q \in Proc : /\ Mine(q)' = x <=> Mine(q) = x
                      /\ Mine(q) = x => task'[q] = task[q]
  BY DEF Mine
<1>4. ASSUME NEW q \in Proc, Mine(q) = x PROVE Holding(q, x)'
  <2>1. Holding(q, x) /\ task'[q] = task[q]
    BY <1>3, <1>4 DEF OrderGood
  <2>2. At(q, "scan") => task[q].row.owner = x
    BY <1>4 DEF OwnInv, Own, At, Compared
  <2> QED BY <1>1, <1>2, <2>1, <2>2 DEF Holding, At
<1> QED BY <1>1, <1>2, <1>3, <1>4 DEF OrderGood

(* An order that is confirmed or cancelled for good.                        *)
LEMMA LateOrder ==
    ASSUME NEW o \in Order, OrderGood(o), NEW p \in Proc, Alone(p),
           order[o] # "placing", order'[o] \in {"confirmed", "cancelled"},
           task'[p].at \notin {"check", "insert"}
    PROVE  OrderGood(o)'
<1>1. ASSUME NEW q \in Proc, task'[q].order = o PROVE Holding(q, o)'
  BY <1>1 DEF OrderGood, Holding, Alone, Mine
<1> QED BY <1>1 DEF OrderGood, Mine

(* An order that is given up before it was made.                            *)
LEMMA EndedOrder ==
    ASSUME NEW o \in Order, OrderGood(o), NEW p \in Proc, Alone(p),
           order[o] = "placing", task[p].order = o, task'[p].order = Merchant,
           \/ order'[o] = "refused" /\ NoRows(o)'
           \/ order'[o] = "failed"
    PROVE  OrderGood(o)'
<1>1. \A q \in Proc : task'[q].order # o
  BY OrderAssumption DEF OrderGood, Alone, Mine
<1> QED BY <1>1 DEF OrderGood, Mine

(* An order whose one process goes on.                                      *)
LEMMA PlacingOrder ==
    ASSUME NEW o \in Order, OrderGood(o), NEW p \in Proc, Alone(p),
           order[o] = "placing", task[p].order = o, order'[o] = "placing",
           Holding(p, o)'
    PROVE  OrderGood(o)'
<1>1. \A q \in Proc : task'[q].order = o => q = p
  BY DEF OrderGood, Alone, Mine
<1> QED BY <1>1 DEF OrderGood, Mine

(* A process that has the window it is at, and goes on to the next.         *)
LEMMA WindowHeld ==
    ASSUME OwnInv, Reserved, NEW p \in Proc, NEW o \in Order, o = Mine(p),
           order[o] = "placing", task[p].at \in {"upsert", "scan"},
           NEW days, NextWindow(p, days), UNCHANGED <<rows, order>>,
           Held(o, task[p].k)
    PROVE  OrderGood(o)'
<1>0. /\ TypeInv /\ OrderGood(o) /\ Holding(p, o) /\ Placing(p)
      /\ task[p].order = o /\ task[p].k \in 1 .. Len(Windows[o])
      /\ Len(Windows[o]) \in Nat
  BY WindowsTyped DEF OwnInv, Reserved, OrderGood, Mine, Placing, TypeInv, TypeOK
<1>1. Kind[o] = "slot" /\ \A j \in 1 .. task[p].k : Held(o, j)
  <2>1. Kind[o] = "slot" /\ \A j \in 1 .. task[p].k - 1 : Held(o, j)
    BY <1>0 DEF Holding, Reserving
  <2>2. \A j \in 1 .. task[p].k : j = task[p].k \/ j \in 1 .. task[p].k - 1
    BY <1>0
  <2> QED BY <2>1, <2>2
<1>2. /\ Alone(p)
      /\ \/ /\ task'[p].at = "stamp" /\ task'[p].k = task[p].k + 1
         \/ /\ task'[p].at = "insert" /\ ~(task[p].k < Len(Windows[o]))
  BY <1>0, <1>1, NextWindowFacts
<1>3. \A j : Held(o, j)' <=> Held(o, j)
  BY DEF Held
<1>4. Holding(p, o)'
  <2>1. CASE task'[p].at = "stamp" /\ task'[p].k = task[p].k + 1
    <3>1. 1 .. task'[p].k - 1 = 1 .. task[p].k
      BY <1>0, <2>1
    <3> QED BY <1>1, <1>3, <2>1, <3>1 DEF Holding, Reserving, At
  <2>2. CASE task'[p].at = "insert" /\ ~(task[p].k < Len(Windows[o]))
    <3>1. task[p].k = Len(Windows[o])
      BY <1>0, <2>2
    <3> QED BY <1>1, <1>3, <2>2, <3>1 DEF Holding, Reserving, At
  <2> QED BY <1>2, <2>1, <2>2
<1> QED BY <1>0, <1>2, <1>4, PlacingOrder

(* A step of the process that places an order.                              *)
LEMMA PlacingStep ==
    ASSUME OwnInv, TypeInv', Reserved, NEW p \in Proc, Step(p),
           NEW o \in Order, o = Mine(p), order[o] = "placing"
    PROVE  OrderGood(o)'
<1>0. /\ TypeInv /\ Own(p) /\ o \in Order /\ Alone(p) /\ Placing(p)
      /\ task[p].order = o /\ Reserved
      /\ order \in [Order -> Status] /\ task \in [Proc -> Task]
  BY StepScope DEF OwnInv, TypeInv, TypeOK, Mine, Placing
<1>1. /\ OrderGood(o) /\ Holding(p, o)
      /\ task[p].at \in Reserving \cup {"check", "insert", "release"}
      /\ task[p].at \in Reserving => Kind[o] = "slot"
  BY <1>0 DEF Reserved, OrderGood, Holding
<1>2. Kind[o] \in {"slot", "range"} /\ order[o] = "placing"
  BY <1>0, KindAssumption
<1>3. rows' = rows => (\A j : Held(o, j)' <=> Held(o, j)) /\ (NoRows(o)' <=> NoRows(o))
  BY DEF Held, NoRows
<1>4. ASSUME GoTo(p, "release"), order'[o] = "placing", Kind[o] = "slot" \/ rows' = rows
      PROVE  OrderGood(o)'
  <2>1. task'[p].at = "release"
    BY <1>0, <1>4, GoToFacts
  <2>2. Kind[o] = "range" => NoRows(o)'
    BY <1>1, <1>2, <1>3, <1>4 DEF Holding
  <2>3. Holding(p, o)'
    BY <2>1, <2>2 DEF Holding, Reserving, At
  <2> QED BY <1>0, <1>1, <1>2, <1>4, <2>3, PlacingOrder
<1>5. ASSUME Lose(p), order'[o] = "placing", Kind[o] = "slot" PROVE OrderGood(o)'
  BY <1>0, <1>4, <1>5 DEF Lose
<1>6. CASE Check(p)
  <2>0. At(p, "check") /\ NoRows(o)' /\ rows' = rows
    BY <1>1, <1>2, <1>3, <1>6 DEF Check, At, Holding
  <2>1. CASE Taken(o)
    <3>1. task'[p].order = Merchant /\ order'[o] = "refused"
      BY <1>0, <1>6, <2>1, ReturnFacts DEF Check, Becomes
    <3> QED BY <1>0, <1>1, <1>2, <2>0, <3>1, EndedOrder
  <2>2. CASE ~Taken(o)
    <3>1. /\ order' = order
          /\ task' = [task EXCEPT ![p].k = 1, ![p].at =
                         IF Kind[o] = "slot" THEN "stamp" ELSE "insert"]
      BY <1>6, <2>2 DEF Check
    <3>2. /\ task'[p].at = IF Kind[o] = "slot" THEN "stamp" ELSE "insert"
          /\ task'[p].k = 1
      BY <1>0, <3>1 DEF Task
    <3>3. Holding(p, o)'
      <4>1. CASE Kind[o] = "slot"
        <5>1. task'[p].at = "stamp" /\ 1 .. task'[p].k - 1 = {}
          BY <3>2, <4>1
        <5> QED BY <4>1, <5>1 DEF Holding, Reserving, At
      <4>2. CASE Kind[o] = "range"
        <5>1. task'[p].at = "insert"
          BY <3>2, <4>2
        <5> QED BY <1>2, <2>0, <3>1, <4>2, <5>1 DEF Holding, Reserving, At
      <4> QED BY <1>2, <4>1, <4>2
    <3>4. order'[o] = "placing"
      BY <1>2, <3>1
    <3> QED BY <1>0, <1>1, <1>2, <3>3, <3>4, PlacingOrder
  <2> QED BY <2>1, <2>2
<1>7. CASE Insert(p)
  <2>1. /\ rows' = rows /\ order'[o] = "draft" /\ task'[p].order = Merchant
        /\ At(p, "insert")
    BY <1>0, <1>7, ReturnFacts DEF Insert, Becomes
  <2>2. \A q \in Proc : task'[q].order # o
    BY <1>0, <1>1, <1>2, <2>1, OrderAssumption DEF OrderGood, Alone, Mine
  <2>3. Kind[o] = "slot" => \A k \in 1 .. Len(Windows[o]) : Held(o, k)'
    BY <1>1, <1>2, <1>3, <2>1 DEF Holding
  <2> QED BY <2>1, <2>2, <2>3 DEF OrderGood, Mine
<1>8. CASE InsertFails(p)
  BY <1>2, <1>4, <1>8 DEF InsertFails
<1>9. CASE Release(p)
  <2>1. /\ task'[p].order = Merchant /\ order'[o] = "refused"
        /\ rows' = rows \ Released(o)
    BY <1>0, <1>9, ReturnFacts DEF Release
  <2>2. NoRows(o)'
    <3>1. CASE Kind[o] = "slot"
      <4>1. \A r \in rows : r.owner = o => r.reason = "booking"
        BY <1>0, <3>1 DEF OwnInv, OwnReason, ReasonOf
      <4> QED BY <2>1, <4>1 DEF NoRows, Released
    <3>2. CASE Kind[o] = "range"
      BY <1>1, <1>2, <2>1, <3>2 DEF Holding, NoRows
    <3> QED BY <1>2, <3>1, <3>2
  <2> QED BY <1>0, <1>1, <1>2, <2>1, <2>2, EndedOrder
<1>10. CASE Stamp(p)
  <2>1. PICK new : task' = [task EXCEPT ![p].at = "upsert", ![p].row = new]
    BY <1>10 DEF Stamp
  <2>2. task'[p].at = "upsert" /\ task'[p].k = task[p].k
    BY <1>0, <2>1 DEF Task
  <2>3. rows' = rows /\ order' = order /\ task[p].at \in Reserving
    BY <1>10 DEF Stamp, At, Reserving
  <2>4. Holding(p, o)'
    BY <1>1, <1>2, <1>3, <2>2, <2>3 DEF Holding, Reserving, At
  <2> QED BY <1>0, <1>1, <1>2, <2>3, <2>4, PlacingOrder
<1>11. CASE Upsert(p)
  <2>0. /\ At(p, "upsert") /\ task[p].at \in Reserving /\ Kind[o] = "slot"
        /\ order' = order
        /\ task[p].row.owner = o /\ task[p].row.window = Windows[o][task[p].k]
    BY <1>0, <1>1, <1>11 DEF Upsert, Reserving, At, Own
  <2>1. CASE rows' = rows \cup {task[p].row} /\ GoTo(p, "scan")
    <3>1. /\ task'[p].at = "scan" /\ task'[p].k = task[p].k
          /\ task'[p].row = task[p].row
      BY <1>0, <2>1, GoToFacts
    <3>2. \A j : Held(o, j) => Held(o, j)'
      BY <2>1 DEF Held
    <3>3. Holding(p, o)'
      BY <1>1, <1>2, <2>0, <2>1, <3>1, <3>2 DEF Holding, Reserving, At
    <3> QED BY <1>0, <1>1, <1>2, <2>0, <3>3, PlacingOrder
  <2>2. CASE /\ \E r \in SameKey(o, task[p].row.window) : r.owner = o
             /\ NextWindow(p, task[p].days) /\ UNCHANGED rows
    <3>1. Held(o, task[p].k)
      BY <2>0, <2>2 DEF SameKey, Held
    <3>3. task[p].at \in {"upsert", "scan"}
      BY <2>0 DEF At
    <3> QED BY <1>0, <1>2, <2>0, <2>2, <3>1, <3>3, WindowHeld
  <2>3. CASE Lose(p)
    BY <1>2, <1>5, <2>0, <2>3
  <2> QED BY <1>11, <2>0, <2>1, <2>2, <2>3 DEF Upsert
<1>12. CASE ScanLoses(p)
  <2>1. /\ task'[p].at = "undo" /\ task'[p].k = task[p].k
        /\ rows' = rows /\ order' = order /\ task[p].at \in Reserving
    BY <1>0, <1>12, GoToFacts DEF ScanLoses, At, Reserving
  <2>2. Holding(p, o)'
    BY <1>1, <1>2, <1>3, <2>1 DEF Holding, Reserving, At
  <2> QED BY <1>0, <1>1, <1>2, <2>1, <2>2, PlacingOrder
<1>13. CASE ScanWins(p)
  <2>1. /\ At(p, "scan") /\ NextWindow(p, {}) /\ UNCHANGED <<rows, order>>
        /\ task[p].at \in {"upsert", "scan"} /\ o = Mine(p)
    BY <1>13 DEF ScanWins, At
  <2>2. Held(o, task[p].k)
    <3>1. task[p].row \in rows
      BY <1>1, <1>2, <2>1 DEF Holding
    <3>2. task[p].row.owner = o /\ task[p].row.window = Windows[o][task[p].k]
      BY <1>0, <2>1 DEF Own, Compared, At
    <3> QED BY <3>1, <3>2 DEF Held
  <2> QED BY <1>0, <1>2, <2>1, <2>2, WindowHeld
<1>14. CASE ScanRaises(p)
  <2>1. task'[p].order = Merchant /\ order'[o] = "failed"
    BY <1>0, <1>14, ReturnFacts DEF ScanRaises
  <2> QED BY <1>0, <1>1, <1>2, <2>1, EndedOrder
<1>15. CASE Undo(p)
  <2>1. Kind[o] = "slot" /\ order' = order /\ Lose(p)
    BY <1>1, <1>15 DEF Undo, At, Reserving
  <2> QED BY <1>2, <1>5, <2>1
<1>16. CASE PostPass(p) \/ Rollback(p) \/ ConfirmWrite(p) \/ CancelWrite(p) \/ Free(p)
  BY <1>1, <1>16 DEF PostPass, Rollback, ConfirmWrite, CancelWrite, Free, At, Reserving
<1> QED BY <1>6, <1>7, <1>8, <1>9, <1>10, <1>11, <1>12, <1>13, <1>14, <1>15,
           <1>16 DEF Step

(* A step about an order that has been placed: a confirmation, a            *)
(* cancellation, or what follows either.                                    *)
LEMMA LateStep ==
    ASSUME OwnInv, TypeInv', Reserved, NEW p \in Proc, Step(p),
           NEW o \in Order, o = Mine(p), order[o] # "placing"
    PROVE  OrderGood(o)'
<1>0. /\ TypeInv /\ OrderGood(o) /\ Alone(p) /\ ~Placing(p)
      /\ task[p].order = o /\ Mine(p) = o
      /\ order \in [Order -> Status] /\ task \in [Proc -> Task]
  BY StepScope DEF OwnInv, TypeInv, TypeOK, Mine, Placing, Reserved
<1>1. /\ order[o] \in {"draft", "confirmed", "cancelled"}
      /\ task[p].at \notin {"check", "insert"}
      /\ order[o] = "draft" => task[p].at \in {"confirm", "cancel"}
  BY <1>0 DEF OrderGood, Holding, Status
<1>2. /\ order'[o] \in {"confirmed", "cancelled"}
      /\ task'[p].at \notin {"check", "insert"}
  <2>1. CASE ConfirmWrite(p)
    <3>1. order'[o] = "confirmed"
      BY <1>0, <2>1 DEF ConfirmWrite, Becomes
    <3>2. task'[p].at = "stamp"
      BY <1>0, <2>1 DEF ConfirmWrite, Task
    <3> QED BY <3>1, <3>2
  <2>2. CASE CancelWrite(p)
    <3>1. order'[o] = "cancelled"
      BY <1>0, <2>2 DEF CancelWrite, Becomes
    <3>2. task'[p].at = "free"
      BY <1>0, <2>2, GoToFacts DEF CancelWrite
    <3> QED BY <3>1, <3>2
  <2>3. ASSUME ~At(p, "confirm"), ~At(p, "cancel"), order' = order
        PROVE  order'[o] \in {"confirmed", "cancelled"}
    BY <1>1, <2>3 DEF At
  <2>4. ASSUME Return(p) PROVE task'[p].at \notin {"check", "insert"}
    BY <1>0, <2>4, ReturnFacts
  <2>5. ASSUME NEW stage \in {"release", "rollback", "undo", "scan"}, GoTo(p, stage)
        PROVE  task'[p].at \notin {"check", "insert"}
    BY <1>0, <2>5, GoToFacts
  <2>6. ASSUME NEW days, NextWindow(p, days)
        PROVE  task'[p].at \notin {"check", "insert"}
    <3>1. Idle.at = "idle"
      BY IdleTyped
    <3> QED BY <1>0, <2>6, <3>1, NextWindowFacts
  <2>7. ASSUME Lose(p) PROVE task'[p].at \notin {"check", "insert"}
    BY <1>0, <2>7, LoseFacts
  <2>8. CASE Stamp(p)
    <3>1. PICK new : task' = [task EXCEPT ![p].at = "upsert", ![p].row = new]
      BY <2>8 DEF Stamp
    <3>2. task'[p].at = "upsert"
      BY <1>0, <3>1 DEF Task
    <3> QED BY <2>3, <2>8, <3>2 DEF Stamp, At
  <2>9. CASE Upsert(p)
    <3>1. task'[p].at \notin {"check", "insert"}
      BY <2>5, <2>6, <2>7, <2>9 DEF Upsert
    <3> QED BY <2>3, <2>9, <3>1 DEF Upsert, At
  <2>10. CASE Release(p) \/ ScanRaises(p) \/ Rollback(p) \/ Free(p)
    BY <1>0, <2>3, <2>4, <2>10 DEF Release, ScanRaises, Rollback, Free, At
  <2>11. CASE ScanLoses(p) \/ PostPass(p)
    BY <2>3, <2>4, <2>5, <2>11 DEF ScanLoses, PostPass, At
  <2>12. CASE ScanWins(p)
    BY <2>3, <2>6, <2>12 DEF ScanWins, At
  <2>13. CASE Undo(p)
    BY <2>3, <2>7, <2>13 DEF Undo, At
  <2>14. CASE Check(p) \/ Insert(p) \/ InsertFails(p)
    BY <1>1, <2>14 DEF Check, Insert, InsertFails, At
  <2> QED BY <2>1, <2>2, <2>8, <2>9, <2>10, <2>11, <2>12, <2>13, <2>14 DEF Step
<1> HIDE DEF Step
<1> QED BY <1>0, <1>2, LateOrder

(* Every order stays as it should.                                          *)
LEMMA NextReserved ==
    ASSUME OwnInv, OwnInv', Reserved, [Next]_vars
    PROVE  Reserved'
<1> SUFFICES ASSUME NEW x \in Order PROVE OrderGood(x)'
  BY DEF Reserved
<1>0. TypeInv /\ TypeInv' /\ OrderGood(x) /\ task \in [Proc -> Task]
      /\ order \in [Order -> Status]
  BY DEF OwnInv, Reserved, TypeInv, TypeOK
<1>1. ASSUME NEW p \in Proc, Step(p) PROVE OrderGood(x)'
  <2>0. /\ Mine(p) \in Order /\ Alone(p)
        /\ task[p].order = Mine(p) /\ task'[p].order \in {Mine(p), Merchant}
        /\ x # Mine(p) => order'[x] = order[x]
        /\ \A r \in rows \cup rows' : r.owner # Mine(p) => r \in rows /\ r \in rows'
    BY <1>0, <1>1, StepScope DEF Mine
  <2>1. CASE x = Mine(p) /\ order[x] = "placing"
    BY <1>0, <1>1, <2>1, PlacingStep
  <2>2. CASE x = Mine(p) /\ order[x] # "placing"
    BY <1>0, <1>1, <2>2, LateStep
  <2>3. CASE x # Mine(p)
    <3>1. \A q \in Proc : task[q].order = x \/ task'[q].order = x =>
             task'[q] = task[q]
      BY <2>0, <2>3, OrderAssumption DEF Alone
    <3>2. \A r \in rows \cup rows' : r.owner = x => r \in rows /\ r \in rows'
      BY <2>0, <2>3
    <3> QED BY <1>0, <2>0, <2>3, <3>1, <3>2, OtherOrder
  <2> QED BY <2>1, <2>2, <2>3
<1>2. ASSUME NEW p \in Proc, NEW o \in Order, Place(p, o) \/ Confirm(p, o) \/ Cancel(p, o)
      PROVE  OrderGood(x)'
  <2>0. PICK stage \in {"check", "confirm", "cancel"} : Start(p, stage, o)
    BY <1>2 DEF Place, Confirm, Cancel
  <2>1. /\ Alone(p) /\ task'[p].at = stage /\ task'[p].order = o
        /\ rows' = rows /\ At(p, "idle")
    BY <1>0, <1>2, <2>0, StartFacts DEF Place, Confirm, Cancel
  <2>2. /\ NoRows(x) => NoRows(x)'
        /\ \A k : Held(x, k) => Held(x, k)'
    BY <2>1 DEF NoRows, Held
  <2>3. CASE x # o
    <3>1. \A q \in Proc : task'[q].order = x => q # p
      BY <2>1, <2>3
    <3>2. order'[x] = order[x]
      BY <1>0, <1>2, <2>3 DEF Place, Confirm, Cancel, Becomes
    <3>3. ASSUME NEW q \in Proc, task'[q].order = x PROVE Holding(q, x)'
      <4>1. task'[q] = task[q] /\ task[q].order = x
        BY <2>1, <3>1, <3>3 DEF Alone
      <4>2. Holding(q, x)
        BY <1>0, <4>1 DEF OrderGood, Mine
      <4> QED BY <2>1, <2>2, <3>2, <4>1, <4>2 DEF Holding, At
    <3>4. \A q \in Proc : task'[q].order = x => task'[q] = task[q]
      BY <2>1, <3>1 DEF Alone
    <3> QED BY <1>0, <2>2, <3>2, <3>3, <3>4 DEF OrderGood, Mine
  <2>4. CASE x = o /\ Place(p, o)
    <3>1. /\ order[o] = "none" /\ order'[o] = "placing" /\ stage = "check"
      <4>1. order[o] = "none" /\ order'[o] = "placing" /\ Start(p, "check", o)
        BY <1>0, <2>4 DEF Place, Becomes
      <4>2. task'[p].at = "check"
        BY <1>0, <4>1, StartFacts
      <4> QED BY <2>1, <4>1, <4>2
    <3>2. /\ NoRows(x)' /\ \A q \in Proc : task[q].order # x
      BY <1>0, <2>2, <2>4, <3>1 DEF OrderGood, Mine
    <3>3. \A q \in Proc : task'[q].order = x => q = p
      BY <3>2 , <2>1 DEF Alone
    <3>4. Holding(p, x)'
      BY <2>1, <2>4, <3>1, <3>2 DEF Holding, Reserving, At
    <3> QED BY <2>4, <3>1, <3>3, <3>4 DEF OrderGood, Mine
  <2>5. CASE x = o /\ (Confirm(p, o) \/ Cancel(p, o))
    <3>1. /\ order[x] \in {"draft", "confirmed"} /\ order'[x] = order[x]
          /\ task'[p].at \in {"confirm", "cancel"}
      <4>1. CASE Confirm(p, o)
        <5>1. Start(p, "confirm", o) /\ order[x] = "draft" /\ order'[x] = order[x]
          BY <2>5, <4>1 DEF Confirm
        <5>2. task'[p].at = "confirm"
          BY <1>0, <5>1, StartFacts
        <5> QED BY <5>1, <5>2
      <4>2. CASE Cancel(p, o)
        <5>1. /\ Start(p, "cancel", o)
              /\ order[x] \in {"draft", "confirmed"} /\ order'[x] = order[x]
          BY <2>5, <4>2 DEF Cancel
        <5>2. task'[p].at = "cancel"
          BY <1>0, <5>1, StartFacts
        <5> QED BY <5>1, <5>2
      <4> QED BY <2>5, <4>1, <4>2
    <3>2. ASSUME NEW q \in Proc, task'[q].order = x
          PROVE  /\ Holding(q, x)'
                 /\ order[x] = "draft" => task'[q].at \in {"confirm", "cancel"}
      <4>1. CASE q = p
        BY <3>1, <4>1 DEF Holding
      <4>2. CASE q # p
        <5>1. task'[q] = task[q] /\ Holding(q, x)
              /\ (order[x] = "draft" => task[q].at \in {"confirm", "cancel"})
          BY <1>0, <2>1, <3>2, <4>2 DEF Alone, OrderGood, Mine
        <5> QED BY <3>1, <5>1 DEF Holding
      <4> QED BY <4>1, <4>2
    <3> QED BY <1>0, <2>2, <3>1, <3>2 DEF OrderGood, Mine
  <2> QED BY <1>2, <2>3, <2>4, <2>5
<1>3. CASE (\E w \in Blocks : Block(w)) \/ (\E r \in rows : Unblock(r)) \/ UNCHANGED vars
  <2>1. /\ UNCHANGED <<order, task>>
        /\ \A r \in rows \cup rows' : r.owner = x => r \in rows /\ r \in rows'
    BY <1>3, OrderAssumption DEF Block, Unblock, vars
  <2> QED BY <1>0, <2>1, OtherOrder
<1> QED BY <1>1, <1>2, <1>3 DEF Next, Request

(* Nothing is held at the start.                                            *)
LEMMA InitReserved == Init => OwnInv /\ Reserved
<1> SUFFICES ASSUME Init PROVE OwnInv /\ Reserved
  OBVIOUS
<1>1. \A p \in Proc : /\ task[p].at = "idle" /\ task[p].order = Merchant
                      /\ task[p].row.id = 0 /\ task[p].days = {}
  BY DEF Init, Idle, NoRow
<1>2. rows = {} /\ \A o \in Order : order[o] = "none"
  BY DEF Init
<1>3. OwnInv
  BY <1>1, <1>2, InitTyped DEF OwnInv, OwnReason, Own, At, Compared
<1>4. Reserved
  BY <1>1, <1>2, OrderAssumption DEF Reserved, OrderGood, NoRows, Mine
<1> QED BY <1>3, <1>4

(* The two together are inductive.                                          *)
LEMMA AlwaysReserved == Spec => [](OwnInv /\ Reserved)
<1>1. Init => OwnInv /\ Reserved
  BY InitReserved
<1>2. (OwnInv /\ Reserved) /\ [Next]_vars => (OwnInv /\ Reserved)'
  BY NextOwn, NextReserved
<1> QED BY <1>1, <1>2, PTL DEF Spec

(* A draft has a row for each of its windows, whoever else is rolled back,  *)
(* gives up or frees his own, and whatever is blocked by hand.              *)
THEOREM DraftsHoldTheirSlots == Spec => []DraftHoldsItsSlot
<1>1. Reserved => DraftHoldsItsSlot
  BY DEF Reserved, OrderGood, Held, DraftHoldsItsSlot
<1> QED BY <1>1, AlwaysReserved, PTL

(* An order refused in the middle of its windows has given all of them      *)
(* back.                                                                    *)
THEOREM RefusedHoldNothing == Spec => []RefusedHoldsNothing
<1>1. Reserved => RefusedHoldsNothing
  BY DEF Reserved, OrderGood, NoRows, RefusedHoldsNothing
<1> QED BY <1>1, AlwaysReserved, PTL

-----------------------------------------------------------------------------
(* The calendar.  A row under comparison may overlap anything; what it may  *)
(* not do is leave the comparison beside an older overlapping row, unless   *)
(* the history says why.  That then stays true for good: an older row that  *)
(* is inserted afterwards is in the history, and a younger one is compared, *)
(* or was, and gave way.                                                    *)

OneRowPerId ==
    \A r, s \in rows : r.owner \in Order /\ r.id = s.id => r.id # 0 /\ r = s

OneRentalADay ==
    \A r, s \in rows :
        /\ r.owner \in Order /\ r.reason = "rental"
        /\ s.owner \in Order /\ s.reason = "rental"
        /\ r.window.day = s.window.day
        => r = s

(* The rows a process compares, or may roll back, are those it inserted.    *)
Knows(p) ==
    /\ Compared(p) => \A r \in rows : r.id = task[p].row.id => r = task[p].row
    /\ task[p].days # {} =>
          /\ Kind[Mine(p)] = "range"
          /\ task[p].at \in {"stamp", "upsert", "postpass", "rollback"}
    /\ \A r \in rows : r.id \in task[p].days =>
          \E k \in 1 .. Len(Windows[Mine(p)]) :
              r.window.day = Windows[Mine(p)][k].day

(* An older reservation overlaps this one; two rentals never do.            *)
Precedes(r, s) ==
    /\ r.owner \in Order /\ Overlap(r.window, s.window) /\ Before(r, s)
    /\ ~(r.reason = "rental" /\ s.reason = "rental")

Stands(s) == \A r \in rows : Precedes(r, s) => {r.id, s.id} \in unseen

Standing == \A s \in rows : s.owner \in Order => Comparing(s) \/ Stands(s)

Calendar ==
    /\ OneRowPerId
    /\ OneRentalADay
    /\ \A p \in Proc : Knows(p)
    /\ Standing

(* A step that makes no row of an order: what its process compared, and     *)
(* does no longer, stands.                                                  *)
LEMMA CalendarMoves ==
    ASSUME OwnInv, Calendar, NEW p \in Proc, Alone(p),
           \A r \in rows' : r \in rows \/ (r.id = 0 /\ r.owner = Merchant),
           unseen \subseteq unseen',
           Compared(p)' => Compared(p) /\ task'[p].row = task[p].row,
           task'[p].days \subseteq task[p].days,
           task'[p].days # {} =>
               /\ task'[p].order = task[p].order
               /\ task'[p].at \in {"stamp", "upsert", "postpass", "rollback"},
           \A s \in rows' :
               /\ s.owner \in Order
               /\ \/ Compared(p) /\ ~Compared(p)' /\ s.id = task[p].row.id
                  \/ s.id \in task[p].days /\ s.id \notin task'[p].days
               => Stands(s)'
    PROVE  Calendar'
<1>0. Own(p) /\ Knows(p) /\ Merchant \notin Order
  BY OrderAssumption DEF OwnInv, Calendar
<1>1. \A r \in rows' : r.owner \in Order => r \in rows
  BY <1>0
<1>2. OneRowPerId'
  <2> SUFFICES ASSUME NEW r \in rows', NEW s \in rows', r.owner \in Order,
                      r.id = s.id
               PROVE  r.id # 0 /\ r = s
    BY DEF OneRowPerId
  <2>1. r \in rows /\ r.id # 0
    BY <1>1 DEF Calendar, OneRowPerId
  <2>2. s \in rows
    BY <2>1
  <2> QED BY <2>1, <2>2 DEF Calendar, OneRowPerId
<1>3. OneRentalADay'
  BY <1>1 DEF Calendar, OneRentalADay
<1>4. ASSUME NEW q \in Proc PROVE Knows(q)'
  <2>1. Own(q) /\ Knows(q)
    BY DEF OwnInv, Calendar
  <2>2. Compared(q)' => /\ Compared(q) /\ task'[q].row = task[q].row
                        /\ task[q].row.id > 0
    <3>1. Compared(q)' => Compared(q) /\ task'[q].row = task[q].row
      BY DEF Alone, Compared
    <3> QED BY <2>1, <3>1 DEF Own
  <2>3. /\ task'[q].days \subseteq task[q].days
        /\ task'[q].days # {} => Mine(q)' = Mine(q)
    BY DEF Alone, Mine
  <2>4. Compared(q)' => \A r \in rows' : r.id = task'[q].row.id => r = task'[q].row
    BY <2>1, <2>2 DEF Knows
  <2>5. task'[q].days # {} =>
            /\ Kind[Mine(q)'] = "range"
            /\ task'[q].at \in {"stamp", "upsert", "postpass", "rollback"}
    BY <2>1, <2>3 DEF Knows, Alone
  <2>6. ASSUME NEW r \in rows', r.id \in task'[q].days
        PROVE  \E k \in 1 .. Len(Windows[Mine(q)']) :
                   r.window.day = Windows[Mine(q)'][k].day
    <3>1. r \in rows /\ r.id \in task[q].days
      BY <2>1, <2>3, <2>6 DEF Own
    <3> QED BY <2>1, <2>3, <2>6, <3>1 DEF Knows
  <2> QED BY <2>4, <2>5, <2>6 DEF Knows
<1>5. Standing'
  <2> SUFFICES ASSUME NEW s \in rows', s.owner \in Order
               PROVE  Comparing(s)' \/ Stands(s)'
    BY DEF Standing
  <2>1. s \in rows /\ (Comparing(s) \/ Stands(s))
    BY <1>1 DEF Calendar, Standing
  <2>2. CASE Stands(s)
    <3>1. ASSUME NEW r \in rows', Precedes(r, s) PROVE {r.id, s.id} \in unseen'
      <4>1. r \in rows
        BY <1>1, <3>1 DEF Precedes
      <4> QED BY <2>2, <3>1, <4>1 DEF Stands
    <3> QED BY <3>1 DEF Stands, Precedes
  <2>3. ASSUME NEW q \in Proc, \/ Compared(q) /\ task[q].row.id = s.id
                               \/ s.id \in task[q].days
        PROVE  Comparing(s)' \/ Stands(s)'
    <3>1. CASE q # p
      BY <2>3, <3>1 DEF Alone, Comparing, Compared
    <3>2. CASE q = p
      BY <2>3, <3>2 DEF Comparing, Compared
    <3> QED BY <3>1, <3>2
  <2> QED BY <2>1, <2>2, <2>3 DEF Comparing, Compared
<1> QED BY <1>2, <1>3, <1>4, <1>5 DEF Calendar

(* The insert: the row is under comparison, or among the days of its call,  *)
(* and the younger ones that have won are in the history.                   *)
LEMMA InsertsCalendar ==
    ASSUME OwnInv, Calendar, NEW p \in Proc, At(p, "upsert"), Alone(p),
           SameKey(Mine(p), task[p].row.window) = {},
           rows' = rows \cup {task[p].row},
           unseen' = unseen \cup {{task[p].row.id, r.id} : r \in Passed(p)},
           task'[p].order = task[p].order,
           \/ /\ Kind[Mine(p)] = "slot" /\ task'[p].at = "scan"
              /\ task'[p].row = task[p].row /\ task'[p].days = task[p].days
           \/ /\ Kind[Mine(p)] = "range"
              /\ task'[p].at \in {"stamp", "postpass"}
              /\ task'[p].days = task[p].days \cup {task[p].row.id}
    PROVE  Calendar'
<1>0. PICK new : new = task[p].row
  OBVIOUS
<1>1. /\ new.id > 0 /\ new.owner = Mine(p) /\ new.reason = ReasonOf(Mine(p))
      /\ new.window = Windows[Mine(p)][task[p].k]
      /\ \A r \in rows : r.id # new.id
      /\ \A q \in Proc : /\ q # p => task[q].row.id # new.id
                         /\ new.id \notin task[q].days
  BY <1>0 DEF OwnInv, Own, Unused
<1>2. Mine(p)' = Mine(p) /\ rows' = rows \cup {new} /\ Mine(p) \in Order
      /\ task[p].k \in 1 .. Len(Windows[Mine(p)]) /\ Knows(p) /\ Own(p)
  BY <1>0 DEF Mine, OwnInv, TypeInv, TypeOK, At, Calendar
<1>3. OneRowPerId'
  <2>1. new.id # 0
    BY <1>1
  <2> QED BY <1>1, <1>2, <2>1 DEF Calendar, OneRowPerId
<1>4. OneRentalADay'
  <2>1. ASSUME NEW r \in rows, r.reason = "rental", new.reason = "rental",
               r.window.day = new.window.day
        PROVE  FALSE
    <3>1. Kind[Mine(p)] # "slot"
      BY <1>1, <2>1 DEF ReasonOf
    <3> QED BY <1>0, <1>1, <2>1, <3>1 DEF SameKey
  <2> QED BY <1>2, <2>1 DEF Calendar, OneRentalADay
<1>5. ASSUME NEW q \in Proc PROVE Knows(q)'
  <2>1. CASE q = p
    <3>1. CASE Kind[Mine(p)] = "slot"
      <4>1. task[p].days = {} /\ task'[p].row = new /\ task'[p].days = {}
        BY <1>0, <1>2, <3>1 DEF Knows
      <4> QED BY <1>1, <1>2, <2>1, <4>1 DEF Knows
    <3>2. CASE Kind[Mine(p)] = "range"
      <4>1. /\ task'[p].days = task[p].days \cup {new.id} /\ ~Compared(p)'
            /\ task'[p].at \in {"stamp", "postpass"}
        BY <1>0, <3>2 DEF Compared
      <4>2. ASSUME NEW r \in rows', r.id \in task'[p].days
            PROVE  \E k \in 1 .. Len(Windows[Mine(p)]) :
                       r.window.day = Windows[Mine(p)][k].day
        <5>1. CASE r = new
          BY <1>1, <1>2, <5>1
        <5>2. CASE r \in rows
          BY <1>1, <1>2, <4>1, <4>2, <5>2 DEF Knows
        <5> QED BY <1>2, <5>1, <5>2
      <4> QED BY <1>2, <2>1, <3>2, <4>1, <4>2 DEF Knows
    <3> QED BY <3>1, <3>2
  <2>2. CASE q # p
    <3>1. Knows(q) /\ task'[q] = task[q] /\ task[q].row.id # new.id
          /\ new.id \notin task[q].days
      BY <1>1, <2>2 DEF Calendar, Alone
    <3> QED BY <1>2, <3>1 DEF Knows, Compared, Mine
  <2> QED BY <2>1, <2>2
<1>6. Standing'
  <2> SUFFICES ASSUME NEW s \in rows', s.owner \in Order
               PROVE  Comparing(s)' \/ Stands(s)'
    BY DEF Standing
  <2>1. CASE s = new
    <3>1. \/ Compared(p)' /\ task'[p].row.id = s.id
          \/ s.id \in task'[p].days
      BY <1>0, <2>1 DEF Compared
    <3> QED BY <3>1 DEF Comparing, Compared
  <2>2. CASE s \in rows /\ Comparing(s)
    <3>1. PICK q \in Proc : \/ Compared(q) /\ task[q].row.id = s.id
                            \/ s.id \in task[q].days
      BY <2>2 DEF Comparing, Compared
    <3>2. CASE q # p
      BY <3>1, <3>2 DEF Alone, Comparing, Compared
    <3>3. CASE q = p
      <4>1. ~Compared(p) /\ task[p].days \subseteq task'[p].days
        BY DEF At, Compared
      <4> QED BY <3>1, <3>3, <4>1 DEF Comparing
    <3> QED BY <3>2, <3>3
  <2>3. CASE s \in rows /\ ~Comparing(s)
    <3>1. Stands(s)
      BY <2>3 DEF Calendar, Standing
    <3>2. ASSUME NEW r \in rows', Precedes(r, s) PROVE {r.id, s.id} \in unseen'
      <4>1. CASE r \in rows
        BY <3>1, <3>2, <4>1 DEF Stands
      <4>2. CASE r = new
        <5>1. s \in Passed(p)
          BY <1>0, <2>3, <3>2, <4>2 DEF Passed, Precedes, Before
        <5> QED BY <1>0, <4>2, <5>1
      <4> QED BY <1>2, <4>1, <4>2
    <3> QED BY <3>2 DEF Stands, Precedes
  <2> QED BY <1>2, <2>1, <2>2, <2>3
<1> QED BY <1>3, <1>4, <1>5, <1>6 DEF Calendar

(* Each step of a handler.                                                  *)
LEMMA StepCalendar ==
    ASSUME OwnInv, Calendar, NEW p \in Proc, Step(p)
    PROVE  Calendar'
<1>0. /\ TypeInv /\ Own(p) /\ Knows(p) /\ task[p].order = Mine(p)
      /\ rows \subseteq Row /\ task \in [Proc -> Task]
      /\ Merchant \notin Order
  BY OrderAssumption DEF OwnInv, TypeInv, TypeOK, Calendar, Mine
<1>1. ~At(p, "idle") => Mine(p) \in Order /\ Kind[Mine(p)] \in {"slot", "range"}
  BY <1>0, KindAssumption DEF TypeInv, At
<1>2. task[p].at \notin {"stamp", "upsert", "postpass", "rollback"}
         => task[p].days = {}
  BY <1>0 DEF Knows
<1>3. Compared(p) => /\ task[p].days = {} /\ Kind[Mine(p)] = "slot"
                     /\ \A r \in rows : r.id = task[p].row.id => r = task[p].row
  BY <1>0, <1>2 DEF Own, Knows, Compared
<1>4. ASSUME Return(p), rows' \subseteq rows, unseen \subseteq unseen',
             \A s \in rows' :
                /\ s.owner \in Order
                /\ \/ Compared(p) /\ s.id = task[p].row.id
                   \/ s.id \in task[p].days
                => Stands(s)'
      PROVE  Calendar'
  BY <1>0, <1>4, ReturnFacts, CalendarMoves DEF Compared
<1>5. ASSUME NEW stage \in Stage, GoTo(p, stage), rows' \subseteq rows,
             unseen' = unseen,
             stage # "scan", stage = "undo" => Compared(p),
             Compared(p) /\ stage # "undo" =>
                 \A s \in rows' : s.id # task[p].row.id,
             task[p].days = {} \/ stage = "rollback"
      PROVE  Calendar'
  <2>1. /\ Alone(p) /\ task'[p].at = stage /\ task'[p].order = task[p].order
        /\ task'[p].row = task[p].row /\ task'[p].days = task[p].days
    BY <1>0, <1>5, GoToFacts
  <2>2. Compared(p)' => Compared(p)
    BY <1>5, <2>1 DEF Compared
  <2>3. \A s \in rows' :
           ~(Compared(p) /\ ~Compared(p)' /\ s.id = task[p].row.id)
    BY <1>5, <2>1 DEF Compared
  <2> QED BY <1>5, <2>1, <2>2, <2>3, CalendarMoves
<1>6. ASSUME Lose(p), rows' \subseteq rows, unseen' = unseen, task[p].days = {},
             Compared(p) => \A s \in rows' : s.id # task[p].row.id
      PROVE  Calendar'
  <2>1. "release" \in Stage
    BY DEF Stage
  <2> QED BY <1>4, <1>5, <1>6, <2>1 DEF Lose
<1>7. ASSUME NextWindow(p, task[p].days), rows' = rows, unseen' = unseen,
             ~At(p, "idle"),
             Compared(p) => \A s \in rows : s.id = task[p].row.id => Stands(s)
      PROVE  Calendar'
  <2>1. /\ Alone(p) /\ task'[p].days \in {task[p].days, {}}
        /\ Kind[Mine(p)] = "range" => task'[p].days = task[p].days
        /\ task'[p].at \in {"stamp", "postpass", "insert", "idle"}
        /\ task'[p].at = "insert" => Kind[Mine(p)] # "range"
        /\ task'[p].at # "idle" => task'[p].order = task[p].order
        /\ task'[p].at = "idle" => task'[p].days = {}
    <3>1. Idle.at = "idle" /\ Idle.days = {}
      BY DEF Idle
    <3> QED BY <1>0, <1>7, <3>1, NextWindowFacts
  <2>2. task'[p].days = task[p].days
    BY <1>0, <2>1 DEF Knows
  <2>3. task'[p].days # {} =>
            /\ task'[p].order = task[p].order
            /\ task'[p].at \in {"stamp", "upsert", "postpass", "rollback"}
    BY <1>0, <2>1, <2>2 DEF Knows
  <2>4. ~Compared(p)'
    BY <2>1 DEF Compared
  <2>5. \A s \in rows' : Stands(s) => Stands(s)'
    BY <1>7 DEF Stands, Precedes
  <2> QED BY <1>7, <2>1, <2>2, <2>3, <2>4, <2>5, CalendarMoves
<1>8. {"release", "rollback", "free", "undo"} \subseteq Stage
  BY DEF Stage
<1>9. ASSUME task' = [task EXCEPT ![p].k = 1, ![p].at = "stamp"] \/
             task' = [task EXCEPT ![p].k = 1, ![p].at = "insert"] \/
             task' = [task EXCEPT ![p].at = "stamp", ![p].k = 1],
             rows' = rows, unseen' = unseen, ~Compared(p), task[p].days = {}
      PROVE  Calendar'
  <2>1. /\ Alone(p) /\ task'[p].at \in {"stamp", "insert"}
        /\ task'[p].days = task[p].days
    BY <1>0, <1>9 DEF Alone, Task
  <2> QED BY <1>9, <2>1, CalendarMoves DEF Compared
<1>10. CASE Check(p)
  <2>1. ~Compared(p) /\ task[p].days = {} /\ rows' = rows /\ unseen' = unseen
    BY <1>2, <1>10 DEF Check, At, Compared
  <2> QED BY <1>4, <1>9, <1>10, <2>1 DEF Check
<1>11. CASE Insert(p) \/ InsertFails(p)
  BY <1>2, <1>4, <1>5, <1>8, <1>11 DEF Insert, InsertFails, At, Compared
<1>12. CASE Release(p) \/ Free(p)
  <2>1. rows' \subseteq rows /\ unseen' = unseen /\ Return(p)
    BY <1>12 DEF Release, Free
  <2>2. ~Compared(p) /\ task[p].days = {}
    BY <1>2, <1>12 DEF Release, Free, At, Compared
  <2> QED BY <1>4, <2>1, <2>2
<1>13. CASE Stamp(p)
  <2>1. PICK row : task' = [task EXCEPT ![p].at = "upsert", ![p].row = row]
    BY <1>13 DEF Stamp
  <2>2. /\ Alone(p) /\ task'[p].at = "upsert" /\ task'[p].order = task[p].order
        /\ task'[p].days = task[p].days
    BY <1>0, <2>1 DEF Alone, Task
  <2>3. rows' = rows /\ unseen' = unseen /\ ~Compared(p) /\ ~Compared(p)'
    BY <1>13, <2>2 DEF Stamp, At, Compared
  <2> QED BY <2>2, <2>3, CalendarMoves
<1>14. CASE Upsert(p)
  <2>1. At(p, "upsert") /\ ~Compared(p) /\ ~At(p, "idle")
    BY <1>14 DEF Upsert, At, Compared
  <2>2. CASE /\ SameKey(Mine(p), task[p].row.window) = {}
             /\ rows' = rows \cup {task[p].row}
             /\ unseen' = unseen \cup {{task[p].row.id, r.id} : r \in Passed(p)}
             /\ IF Kind[Mine(p)] = "slot" THEN GoTo(p, "scan")
                ELSE NextWindow(p, task[p].days \cup {task[p].row.id})
    <3>1. CASE Kind[Mine(p)] = "slot"
      BY <1>0, <2>1, <2>2, <3>1, GoToFacts, InsertsCalendar
    <3>2. CASE Kind[Mine(p)] = "range"
      <4>1. /\ Alone(p) /\ task'[p].order = task[p].order
            /\ task'[p].at \in {"stamp", "postpass"}
            /\ task'[p].days = task[p].days \cup {task[p].row.id}
        BY <1>0, <2>2, <3>2, NextWindowFacts
      <4> QED BY <2>1, <2>2, <3>2, <4>1, InsertsCalendar
    <3> QED BY <1>1, <2>1, <3>1, <3>2
  <2>3. CASE NextWindow(p, task[p].days) /\ UNCHANGED <<rows, unseen>>
    BY <1>7, <2>1, <2>3
  <2>4. CASE /\ IF Kind[Mine(p)] = "slot" THEN Lose(p) ELSE GoTo(p, "rollback")
             /\ UNCHANGED <<rows, unseen>>
    <3>1. Kind[Mine(p)] = "slot" => task[p].days = {}
      BY <1>0 DEF Knows
    <3> QED BY <1>5, <1>6, <1>8, <2>1, <2>4, <3>1
  <2> QED BY <1>14, <2>2, <2>3, <2>4 DEF Upsert
<1>15. CASE ScanLoses(p)
  <2>1. Compared(p) /\ GoTo(p, "undo") /\ rows' = rows /\ unseen' = unseen
    BY <1>15 DEF ScanLoses, At, Compared
  <2> QED BY <1>3, <1>5, <1>8, <2>1
<1>16. CASE ScanWins(p)
  <2>1. /\ Compared(p) /\ ~At(p, "idle") /\ rows' = rows /\ unseen' = unseen
        /\ Older(p) = {}
    BY <1>16 DEF ScanWins, At, Compared
  <2>2. ASSUME NEW s \in rows, s.id = task[p].row.id, NEW r \in rows, Precedes(r, s)
        PROVE  FALSE
    <3>1. s = task[p].row
      BY <1>3, <2>1, <2>2
    <3>2. r.id # s.id
      BY <1>0, <2>2 DEF Precedes, Calendar, OneRowPerId, Before, Row
    <3>3. Overlap(s.window, r.window)
      BY <2>2 DEF Precedes, Overlap
    <3>4. r \in Older(p)
      BY <1>0, <2>2, <3>1, <3>2, <3>3 DEF Older, Others, Precedes
    <3> QED BY <2>1, <3>4
  <2>3. NextWindow(p, task[p].days)
    BY <1>3, <1>16, <2>1 DEF ScanWins
  <2> QED BY <1>7, <2>1, <2>2, <2>3 DEF Stands
<1>17. CASE ScanRaises(p)
  <2>1. /\ Compared(p) /\ Return(p) /\ rows' = rows
        /\ unseen' = unseen \cup {{task[p].row.id, r.id} :
                                   r \in {x \in Others(p) : x.owner # Merchant}}
    BY <1>17 DEF ScanRaises, At, Compared
  <2>2. ASSUME NEW s \in rows, s.id = task[p].row.id, NEW r \in rows, Precedes(r, s)
        PROVE  {r.id, s.id} \in unseen'
    <3>1. s = task[p].row
      BY <1>3, <2>1, <2>2
    <3>2. r.id # s.id
      BY <1>0, <2>2 DEF Precedes, Calendar, OneRowPerId, Before, Row
    <3>3. Overlap(s.window, r.window)
      BY <2>2 DEF Precedes, Overlap
    <3>4. r \in Others(p) /\ r.owner # Merchant
      BY <1>0, <2>2, <3>1, <3>2, <3>3 DEF Others, Precedes
    <3> QED BY <2>1, <3>1, <3>4
  <2>3. \A s \in rows' : s.id = task[p].row.id => Stands(s)'
    BY <2>1, <2>2 DEF Stands, Precedes
  <2> QED BY <1>3, <1>4, <2>1, <2>3
<1>18. CASE Undo(p)
  <2>1. /\ Compared(p) /\ rows' \subseteq rows /\ unseen' = unseen /\ Lose(p)
        /\ \A s \in rows' : s.id # task[p].row.id
    BY <1>18 DEF Undo, At, Compared
  <2> QED BY <1>3, <1>6, <2>1
<1>19. CASE PostPass(p)
  <2>1. ~Compared(p) /\ rows' = rows /\ unseen' = unseen
    BY <1>19 DEF PostPass, At, Compared
  <2>2. CASE GoTo(p, "rollback")
    BY <1>5, <1>8, <2>1, <2>2
  <2>3. CASE ~Occupied(Mine(p)) /\ Return(p)
    <3>1. ASSUME NEW s \in rows, s.owner \in Order, s.id \in task[p].days,
                 NEW r \in rows, Precedes(r, s)
          PROVE  FALSE
      <4>1. s.owner = Mine(p) /\ Kind[Mine(p)] = "range" /\ s.reason = "rental"
        BY <1>0, <3>1 DEF Own, Knows, OwnInv, OwnReason, ReasonOf
      <4>2. PICK k \in 1 .. Len(Windows[Mine(p)]) :
                s.window.day = Windows[Mine(p)][k].day
        BY <1>0, <3>1 DEF Knows
      <4>3. r.reason # "rental" /\ r.window.day = Windows[Mine(p)][k].day
        BY <3>1, <4>1, <4>2 DEF Precedes, Overlap
      <4> QED BY <2>3, <4>3 DEF Occupied
    <3>2. \A s \in rows' : s.owner \in Order /\ s.id \in task[p].days => Stands(s)'
      BY <2>1, <3>1 DEF Stands, Precedes
    <3> QED BY <1>4, <2>1, <2>3, <3>2
  <2> QED BY <1>19, <2>2, <2>3 DEF PostPass
<1>20. CASE Rollback(p)
  <2>1. /\ rows' \subseteq rows /\ ~Compared(p) /\ unseen' = unseen /\ Return(p)
        /\ \A s \in rows' : s.id \notin task[p].days
    BY <1>20 DEF Rollback, At, Compared
  <2> QED BY <1>4, <2>1
<1>21. CASE ConfirmWrite(p)
  <2>1. ~Compared(p) /\ task[p].days = {} /\ rows' = rows /\ unseen' = unseen
    BY <1>2, <1>21 DEF ConfirmWrite, At, Compared
  <2> QED BY <1>9, <1>21, <2>1 DEF ConfirmWrite
<1>22. CASE CancelWrite(p)
  <2>1. ~Compared(p) /\ task[p].days = {} /\ rows' = rows /\ unseen' = unseen
    BY <1>2, <1>22 DEF CancelWrite, At, Compared
  <2> QED BY <1>5, <1>8, <1>22, <2>1 DEF CancelWrite
<1> QED BY <1>10, <1>11, <1>12, <1>13, <1>14, <1>15, <1>16, <1>17, <1>18, <1>19,
           <1>20, <1>21, <1>22 DEF Step

(* Every step: requests begin with nothing in hand, and the merchant's rows *)
(* are not those of orders.                                                 *)
LEMMA NextCalendar ==
    ASSUME OwnInv, Calendar, [Next]_vars
    PROVE  Calendar'
<1>1. TypeInv
  BY DEF OwnInv
<1>2. ASSUME NEW p \in Proc, Request(p) PROVE Calendar'
  <2>1. PICK o \in Order : Place(p, o) \/ Confirm(p, o) \/ Cancel(p, o)
    BY <1>2 DEF Request
  <2>2. /\ rows' = rows /\ unseen' = unseen
        /\ \E stage \in {"check", "confirm", "cancel"} : Start(p, stage, o)
    BY <2>1 DEF Place, Confirm, Cancel
  <2>3. PICK stage \in {"check", "confirm", "cancel"} : Start(p, stage, o)
    BY <2>2
  <2>4. /\ Alone(p) /\ task'[p].at = stage /\ task'[p].days = {} /\ At(p, "idle")
    BY <1>1, <2>3, StartFacts
  <2>5. ~Compared(p) /\ ~Compared(p)' /\ task[p].days = {}
    BY <2>4 DEF Compared, At, Calendar, Knows
  <2> QED BY <2>2, <2>4, <2>5, CalendarMoves
<1>3. CASE (\E w \in Blocks : Block(w)) \/ (\E r \in rows : Unblock(r)) \/ UNCHANGED vars
  <2>1. UNCHANGED <<task, unseen>>
    BY <1>3 DEF Block, Unblock, vars
  <2>2. \A r \in rows' : r \in rows \/ (r.id = 0 /\ r.owner = Merchant)
    BY <1>3 DEF Block, Unblock, vars
  <2>3. CASE Proc = {}
    <3>1. \A s \in rows' : ~Comparing(s)
      BY <2>3 DEF Comparing
    <3> QED BY <2>1, <2>2, <2>3, <3>1, OrderAssumption
            DEF Calendar, OneRowPerId, OneRentalADay, Standing, Stands, Precedes,
                Comparing
  <2>4. ASSUME NEW p \in Proc PROVE Calendar'
    <3>1. /\ Alone(p) /\ task'[p] = task[p] /\ unseen \subseteq unseen'
          /\ Compared(p)' <=> Compared(p)
      BY <2>1 DEF Alone, Compared
    <3>2. task[p].days # {} =>
              task[p].at \in {"stamp", "upsert", "postpass", "rollback"}
      BY DEF Calendar, Knows
    <3> QED BY <2>2, <3>1, <3>2, CalendarMoves
  <2> QED BY <2>3, <2>4
<1> QED BY <1>2, <1>3, StepCalendar DEF Next

(* try_reserve_booking_slot and try_reserve_rental_range exclude each other *)
(* and themselves: whatever orders are placed, confirmed, cancelled and     *)
(* fail at once, whatever is blocked by hand, and in whatever order rows    *)
(* are stamped and inserted, two orders keep overlapping rows only if the   *)
(* older row came when the younger had won, or a comparison raised.         *)
THEOREM NeverDoubleBooked == Spec => []NoDoubleBooking
<1>1. Init => OwnInv /\ Calendar
  <2>1. Init => Calendar
    BY DEF Init, Calendar, OneRowPerId, OneRentalADay, Knows, Standing, Compared, Idle
  <2> QED BY <2>1, InitReserved
<1>2. OwnInv /\ Calendar /\ [Next]_vars => (OwnInv /\ Calendar)'
  BY NextOwn, NextCalendar
<1>3. OwnInv /\ Calendar => NoDoubleBooking
  <2> SUFFICES ASSUME OwnInv, Calendar, NEW r \in rows, NEW s \in rows,
                      r.owner # s.owner, Overlap(r.window, s.window),
                      r.owner \in Order, s.owner \in Order,
                      ~Comparing(r), ~Comparing(s)
               PROVE  {r.id, s.id} \in unseen
    <3>1. OwnInv => \A x \in rows : x.owner \in Order \cup {Merchant}
      BY DEF OwnInv, TypeInv, TypeOK, Row
    <3> QED BY <3>1 DEF NoDoubleBooking, InFlight
  <2>1. /\ r.id \in Nat /\ s.id \in Nat /\ r.created \in Nat /\ s.created \in Nat
        /\ Overlap(s.window, r.window) /\ r.window.day = s.window.day
    BY DEF Overlap, OwnInv, TypeInv, TypeOK, Row
  <2>2. r.id # s.id /\ ~(r.reason = "rental" /\ s.reason = "rental")
    BY <2>1 DEF Calendar, OneRowPerId, OneRentalADay
  <2>3. Before(r, s) \/ Before(s, r)
    BY <2>1, <2>2 DEF Before
  <2>4. Stands(r) /\ Stands(s)
    BY DEF Calendar, Standing
  <2>5. CASE Before(r, s)
    BY <2>2, <2>4, <2>5 DEF Stands, Precedes
  <2>6. CASE Before(s, r)
    <3>1. {s.id, r.id} \in unseen
      BY <2>1, <2>2, <2>4, <2>6 DEF Stands, Precedes
    <3> QED BY <3>1
  <2> QED BY <2>3, <2>5, <2>6
<1> QED BY <1>1, <1>2, <1>3, PTL DEF Spec

==============================================================================
