----------------------------- MODULE BookingSlots -----------------------------
(***************************************************************************)
(* The calendar of one product: the rows of blocked_slots, and how orders  *)
(* come to hold them and give them back.  A slot (services and rentals by  *)
(* the hour, booking_availability.py) is held from the draft on: each      *)
(* window is inserted first and compared with the others afterwards.  A    *)
(* range of rental days (rental_availability.py) is taken day by day when  *)
(* the order is confirmed.  create_order, confirm_order and cancel_order   *)
(* of order_service.py are the callers, in any number of processes.        *)
(*                                                                         *)
(* Each step is what one process does between two awaits on the database.  *)
(* An upsert on a key without a row inserts one, in one step: the code     *)
(* counts on it.                                                           *)
(***************************************************************************)
EXTENDS Naturals, Sequences

CONSTANTS Order,     \* bound: orders ever asked for
          Proc,      \* bound: requests handled at once
          Merchant,  \* whose rows block time by hand
          Kind,      \* of an order: "slot" or "range"
          Windows,   \* of an order: its windows or days, one after another
          Blocks,    \* windows the merchant may block
          DayEnd,    \* the last minute of a day
          Id,        \* ids of rows that can be as old as one another
          MaxTime,   \* bound: stamps and ids at once
          Raced,     \* bound: orders several requests can be about at once
          Lag        \* whether an insert can come after a later one's stamp

Window == [day : Nat, from : Nat, to : 0 .. DayEnd]

ASSUME OrderAssumption == Merchant \notin Order /\ Raced \subseteq Order
ASSUME LagAssumption == Lag \in BOOLEAN
ASSUME DayEndAssumption == DayEnd \in Nat \ {0}
ASSUME BoundsAssumption == Id \subseteq Nat /\ MaxTime \in Nat
ASSUME KindAssumption == Kind \in [Order -> {"slot", "range"}]

(* An empty window is refused before anything is written; a rental day is   *)
(* a whole day.                                                             *)
ASSUME WindowsAssumption ==
    /\ Windows \in [Order -> Seq(Window)]
    /\ \A o \in Order :
          /\ Windows[o] # <<>>
          /\ \A k \in 1 .. Len(Windows[o]) :
                /\ Windows[o][k].from < Windows[o][k].to
                /\ Kind[o] = "range" =>
                      Windows[o][k].from = 0 /\ Windows[o][k].to = DayEnd
    /\ Blocks \subseteq Window

VARIABLES rows,   \* blocked_slots
          order,  \* status of each order
          task,   \* what each process is doing
          unseen  \* history: ids of two overlapping rows, the older of which
                  \* the comparison of the younger did not see or give way to

vars == <<rows, order, task, unseen>>

-----------------------------------------------------------------------------
(* Rows and windows.                                                        *)

Reason == {"booking", "rental", "personal"}

Row == [id : Nat, owner : Order \cup {Merchant}, reason : Reason,
        window : Window, created : Nat]

(* _intervals_overlap, on the same date.                                    *)
Overlap(v, w) == v.day = w.day /\ v.from < w.to /\ w.from < v.to

ReasonOf(o) == IF Kind[o] = "slot" THEN "booking" ELSE "rental"

(* The rows an upsert finds by its key.                                     *)
SameKey(o, w) ==
    {r \in rows : r.reason = ReasonOf(o) /\
        IF Kind[o] = "slot" THEN r.window = w ELSE r.window.day = w.day}

(* Mutant: the later one wins.                                              *)
Before_Later(r, mine) == mine.created < r.created

(* The other row wins: it is older, or has the smaller id of two as old.    *)
Before(r, mine) ==
    \/ r.created < mine.created
    \/ r.created = mine.created /\ r.id < mine.id

-----------------------------------------------------------------------------
(* State.                                                                   *)

Status == {"none", "placing", "draft", "confirmed", "cancelled", "refused",
           "failed"}

Stage == {"idle", "check", "stamp", "upsert", "scan", "undo", "release",
          "insert", "confirm", "postpass", "rollback", "cancel", "free"}

(* A process: the window it is at, the row it is about to insert or has     *)
(* inserted, and the ids of the rental days it inserted so far.             *)
Task == [at : Stage, order : Order \cup {Merchant}, k : Nat, row : Row,
         days : SUBSET Nat]

TypeOK ==
    /\ rows \subseteq Row
    /\ order \in [Order -> Status]
    /\ task \in [Proc -> Task]
    /\ unseen \subseteq SUBSET Nat
    /\ \A p \in Proc :
          task[p].at \in {"stamp", "upsert", "scan", "undo"} =>
              /\ task[p].order \in Order
              /\ task[p].k \in 1 .. Len(Windows[task[p].order])

NoRow == [id |-> 0, owner |-> Merchant, reason |-> "personal",
          window |-> [day |-> 0, from |-> 0, to |-> 0], created |-> 0]

Idle == [at |-> "idle", order |-> Merchant, k |-> 0, row |-> NoRow, days |-> {}]

Init ==
    /\ rows = {}
    /\ order = [o \in Order |-> "none"]
    /\ task = [p \in Proc |-> Idle]
    /\ unseen = {}

-----------------------------------------------------------------------------
(* The parts of the handlers.                                               *)

At(p, stage) == task[p].at = stage

GoTo(p, stage) == task' = [task EXCEPT ![p].at = stage]

Return(p) == task' = [task EXCEPT ![p] = Idle]

Start(p, stage, o) ==
    /\ At(p, "idle")
    /\ o \in Raced \/ \A q \in Proc : task[q].order # o
    /\ task' = [task EXCEPT ![p] = [Idle EXCEPT !.at = stage, !.order = o]]

Becomes(o, status) == order' = [order EXCEPT ![o] = status]

Placing(p) == order[task[p].order] = "placing"

Mine(p) == task[p].order

(* The process at its next window, with the rental days it has so far.      *)
Later(p, stage, days) ==
    [at |-> stage, order |-> Mine(p), k |-> task[p].k + 1, row |-> NoRow,
     days |-> days]

(* The next window, or what comes after the last: the draft is inserted, a  *)
(* rental is compared with the rest of the calendar, a confirmation ends.   *)
NextWindow(p, days) ==
    task' = [task EXCEPT ![p] =
       IF task[p].k < Len(Windows[Mine(p)]) THEN Later(p, "stamp", days)
       ELSE IF Kind[Mine(p)] = "range" THEN Later(p, "postpass", days)
       ELSE IF Placing(p) THEN Later(p, "insert", days)
       ELSE Idle]

(* A window is taken: create_order, and a reservation of several windows,   *)
(* release what the order holds; a confirmation of one just goes on.        *)
Lose(p) ==
    IF Placing(p) \/ Len(Windows[Mine(p)]) > 1 THEN GoTo(p, "release")
    ELSE Return(p)

-----------------------------------------------------------------------------
(* create_order.                                                            *)

Place(p, o) ==
    /\ order[o] = "none"
    /\ Start(p, "check", o)
    /\ Becomes(o, "placing")
    /\ UNCHANGED <<rows, unseen>>

(* The validators: check_booking_slot_available for a slot of one day,      *)
(* check_rental_range_available for a range, nothing for several days.      *)
Taken(o) ==
    IF Kind[o] = "slot"
    THEN /\ Len(Windows[o]) = 1
         /\ \E r \in rows : Overlap(Windows[o][1], r.window)
    ELSE \E r \in rows, k \in 1 .. Len(Windows[o]) :
            r.window.day = Windows[o][k].day

Check(p) ==
    /\ At(p, "check")
    /\ IF Taken(Mine(p)) THEN Return(p) /\ Becomes(Mine(p), "refused")
       ELSE /\ task' = [task EXCEPT ![p].k = 1, ![p].at =
                           IF Kind[Mine(p)] = "slot" THEN "stamp" ELSE "insert"]
            /\ UNCHANGED order
    /\ UNCHANGED <<rows, unseen>>

Insert(p) ==
    /\ At(p, "insert")
    /\ Return(p)
    /\ Becomes(Mine(p), "draft")
    /\ UNCHANGED <<rows, unseen>>

(* The order cannot be written: what it holds is released.                  *)
InsertFails(p) ==
    /\ At(p, "insert")
    /\ GoTo(p, "release")
    /\ UNCHANGED <<rows, order, unseen>>

(* Mutant: every reservation in the calendar goes.                          *)
Released_All(o) == {r \in rows : r.reason = "booking"}

(* Mutant: the reason of the rows is the wrong one.                         *)
Released_Rental(o) == {r \in rows : r.reason = "rental" /\ r.owner = o}

(* release_booking_slot.                                                    *)
Released(o) == {r \in rows : r.reason = "booking" /\ r.owner = o}

Release(p) ==
    /\ At(p, "release")
    /\ rows' = rows \ Released(Mine(p))
    /\ Return(p)
    /\ order' = IF Placing(p) THEN [order EXCEPT ![Mine(p)] = "refused"]
                ELSE order
    /\ UNCHANGED unseen

-----------------------------------------------------------------------------
(* try_reserve_booking_slot and try_reserve_rental_range, for one window.   *)

Ids == {r.id : r \in rows} \cup {task[p].row.id : p \in Proc}
       \cup UNION {task[p].days : p \in Proc} \cup UNION unseen

Times == {r.created : r \in rows} \cup {task[p].row.created : p \in Proc}

(* It is now no earlier than any stamp there is.  Only the order of stamps  *)
(* matters: a number may come back once nothing has it.  Without a lag,     *)
(* rows are inserted in the order of their stamps, and ids do not matter.   *)
Now(time, id) ==
    IF Lag THEN /\ \A x \in Times : x <= time
                /\ \E x \in Times : time \in {x, x + 1}
                /\ id \in Id \ Ids
    ELSE /\ \A p \in Proc : ~At(p, "upsert")
         /\ \A x \in Times \cup Ids : x < time
         /\ \E x \in Times \cup Ids : time = x + 1
         /\ id = time

(* The row is made, with its id and the time, before it is sent.            *)
Stamp(p) ==
    /\ At(p, "stamp")
    /\ \E time, id \in 1 .. MaxTime :
          /\ Now(time, id)
          /\ task' = [task EXCEPT ![p].at = "upsert", ![p].row =
                [id |-> id, owner |-> Mine(p), reason |-> ReasonOf(Mine(p)),
                 window |-> Windows[Mine(p)][task[p].k], created |-> time]]
    /\ UNCHANGED <<rows, order, unseen>>

(* A row whose process has still to compare it with others or delete it.    *)
Comparing(r) ==
    \E p \in Proc : \/ task[p].at \in {"scan", "undo"} /\ task[p].row.id = r.id
                  \/ r.id \in task[p].days

(* The younger rows which the one about to be inserted comes too late for.  *)
Passed(p) ==
    LET mine == task[p].row IN
    {r \in rows : /\ Overlap(mine.window, r.window) /\ ~Comparing(r)
                  /\ \/ mine.created < r.created
                     \/ mine.created = r.created /\ mine.id < r.id}

(* find_one_and_update: a row with the key is found, or this one inserted.  *)
Upsert(p) ==
    LET found == SameKey(Mine(p), task[p].row.window) IN
    /\ At(p, "upsert")
    /\ \/ /\ found = {}
          /\ rows' = rows \cup {task[p].row}
          /\ unseen' = unseen \cup {{task[p].row.id, r.id} : r \in Passed(p)}
          /\ IF Kind[Mine(p)] = "slot" THEN GoTo(p, "scan")
             ELSE NextWindow(p, task[p].days \cup {task[p].row.id})
       \/ /\ \E r \in found : r.owner = Mine(p)
          /\ NextWindow(p, task[p].days)
          /\ UNCHANGED <<rows, unseen>>
       \/ /\ \E r \in found : r.owner # Mine(p)
          /\ IF Kind[Mine(p)] = "slot" THEN Lose(p) ELSE GoTo(p, "rollback")
          /\ UNCHANGED <<rows, unseen>>
    /\ UNCHANGED order

Others(p) ==
    {r \in rows : r.id # task[p].row.id /\ Overlap(task[p].row.window, r.window)}

Older(p) == {r \in Others(p) : r.owner # Merchant /\ Before(r, task[p].row)}

(* The other rows of the date: this one loses to an older one, stays        *)
(* beside a younger one, and cannot be compared with one made by hand,      *)
(* whose created_at is a string.  They are read in no known order.          *)
ScanLoses(p) ==
    /\ At(p, "scan")
    /\ Older(p) # {}
    /\ GoTo(p, "undo")
    /\ UNCHANGED <<rows, order, unseen>>

ScanWins(p) ==
    /\ At(p, "scan")
    /\ Older(p) = {}
    /\ \A r \in Others(p) : r.owner # Merchant
    /\ NextWindow(p, {})
    /\ UNCHANGED <<rows, order, unseen>>

ScanRaises(p) ==
    /\ At(p, "scan")
    /\ \E r \in Others(p) : r.owner = Merchant
    /\ unseen' = unseen \cup {{task[p].row.id, r.id} :
                               r \in {s \in Others(p) : s.owner # Merchant}}
    /\ Return(p)
    /\ order' = IF Placing(p) THEN [order EXCEPT ![Mine(p)] = "failed"]
                ELSE order
    /\ UNCHANGED rows

(* The row is deleted, by its id.                                           *)
Undo(p) ==
    /\ At(p, "undo")
    /\ rows' = {r \in rows : r.id # task[p].row.id}
    /\ Lose(p)
    /\ UNCHANGED <<order, unseen>>

(* Any other kind of row on one of the days.                                *)
Occupied(o) ==
    \E r \in rows, k \in 1 .. Len(Windows[o]) :
        r.reason # "rental" /\ r.window.day = Windows[o][k].day

PostPass(p) ==
    /\ At(p, "postpass")
    /\ IF Occupied(Mine(p)) THEN GoTo(p, "rollback") ELSE Return(p)
    /\ UNCHANGED <<rows, order, unseen>>

(* The days this call inserted are deleted, by their ids.                   *)
Rollback(p) ==
    /\ At(p, "rollback")
    /\ rows' = {r \in rows : r.id \notin task[p].days}
    /\ Return(p)
    /\ UNCHANGED <<order, unseen>>

-----------------------------------------------------------------------------
(* confirm_order and cancel_order: the status is read, and written in       *)
(* another step without a look at it.                                       *)

Confirm(p, o) ==
    /\ order[o] = "draft"
    /\ Start(p, "confirm", o)
    /\ UNCHANGED <<rows, order, unseen>>

(* _sync_calendar_blocks reserves again what the draft holds, and the days  *)
(* of a rental; the order is confirmed whatever comes of it.                *)
ConfirmWrite(p) ==
    /\ At(p, "confirm")
    /\ Becomes(Mine(p), "confirmed")
    /\ task' = [task EXCEPT ![p].at = "stamp", ![p].k = 1]
    /\ UNCHANGED <<rows, unseen>>

Cancel(p, o) ==
    /\ order[o] \in {"draft", "confirmed"}
    /\ Start(p, "cancel", o)
    /\ UNCHANGED <<rows, order, unseen>>

CancelWrite(p) ==
    /\ At(p, "cancel")
    /\ Becomes(Mine(p), "cancelled")
    /\ GoTo(p, "free")
    /\ UNCHANGED <<rows, unseen>>

Free(p) ==
    /\ At(p, "free")
    /\ rows' = {r \in rows : r.owner # Mine(p)}
    /\ Return(p)
    /\ UNCHANGED <<order, unseen>>

(* create_blocked_slot and delete_blocked_slot, for blocks made by hand.    *)
Block(w) ==
    /\ w.from < w.to
    /\ rows' = rows \cup {[id |-> 0, owner |-> Merchant,
                 reason |-> "personal", window |-> w, created |-> 0]}
    /\ UNCHANGED <<order, task, unseen>>

Unblock(r) ==
    /\ r.owner = Merchant
    /\ rows' = rows \ {r}
    /\ UNCHANGED <<order, task, unseen>>

-----------------------------------------------------------------------------
(* The specification.                                                       *)

Request(p) == \E o \in Order : Place(p, o) \/ Confirm(p, o) \/ Cancel(p, o)

Step(p) ==
    \/ Check(p) \/ Insert(p) \/ InsertFails(p) \/ Release(p)
    \/ Stamp(p) \/ Upsert(p)
    \/ ScanLoses(p) \/ ScanWins(p) \/ ScanRaises(p) \/ Undo(p)
    \/ PostPass(p) \/ Rollback(p)
    \/ ConfirmWrite(p) \/ CancelWrite(p) \/ Free(p)

Next ==
    \/ \E p \in Proc : Request(p) \/ Step(p)
    \/ \E w \in Blocks : Block(w)
    \/ \E r \in rows : Unblock(r)

Spec == Init /\ [][Next]_vars

-----------------------------------------------------------------------------
(* Properties.                                                              *)

(* A process may still take the row back.                                   *)
InFlight(r) == Comparing(r) \/ \E p \in Proc : At(p, "release") /\ Mine(p) = r.owner

(* Two orders never both keep overlapping rows, whichever way slots and     *)
(* days are asked for at once: "two concurrent callers cannot both succeed  *)
(* on the same physical slot".  They do only if the older row was inserted  *)
(* when the younger had won already, or its comparison with the younger     *)
(* raised; neither is ever put right.                                       *)
NoDoubleBooking ==
    \A r, s \in rows :
        r.owner # s.owner /\ Overlap(r.window, s.window) =>
            \/ Merchant \in {r.owner, s.owner}
            \/ InFlight(r) \/ InFlight(s)
            \/ {r.id, s.id} \in unseen

(* A draft keeps the calendar entry until it is confirmed or cancelled,     *)
(* whatever else is rolled back: "during that window a second customer MUST *)
(* NOT be able to overlap".                                                 *)
DraftHoldsItsSlot ==
    \A o \in Order : order[o] = "draft" /\ Kind[o] = "slot" =>
        \A k \in 1 .. Len(Windows[o]) : \E r \in rows :
            r.owner = o /\ r.window = Windows[o][k]

(* An order refused in the middle of its windows has none of them.          *)
RefusedHoldsNothing ==
    \A o \in Order : order[o] = "refused" => \A r \in rows : r.owner # o

(* An order that was never made has no row: "every block already inserted   *)
(* for this order is released before returning so the reservation is        *)
(* all-or-nothing".                                                         *)
AllOrNothing ==
    \A o \in Order : order[o] \in {"refused", "failed"} =>
        \A r \in rows : r.owner # o

=============================================================================
