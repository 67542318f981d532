---------------------------- MODULE OrderLifecycle ----------------------------
(***************************************************************************)
(* Confirming, cancelling and completing orders, and what each of them     *)
(* takes and gives back: stock, sales records, event seats, calendar       *)
(* blocks and tickets (services/order_service.py with event_capacity,      *)
(* tier_capacity, stock_service, ticket_service, order_cleanup_service).   *)
(*                                                                         *)
(* There is no transaction: confirm_order and cancel_order read the order, *)
(* write its status without a guard and then touch one collection after    *)
(* another.  A handler is a task with the steps it still has to do, and    *)
(* each action below is one database call.  The counters of seats and of   *)
(* stock are guarded by their own atomic updates.                          *)
(*                                                                         *)
(* Nothing keeps the handlers of one order from overlapping, and a restart *)
(* may kill any of them; overlapped and killed record to which orders this *)
(* has happened.  No action reads them.                                    *)
(*                                                                         *)
(* Orders are drafts when the model starts: placing one checks capacity    *)
(* only as advice, line by line, so drafts may ask for more than there is. *)
(***************************************************************************)
EXTENDS Integers, Sequences, FiniteSets, FiniteSetsExt

CONSTANTS
    Worker,         \* handlers that may be in flight at the same time
    Orders,
    Direct,         \* the orders paid online before they are confirmed
    items,          \* items[o]: the lines of order o
    Product,        \* the products whose stock is tracked
    first_stock,    \* first_stock[p]: pieces on hand at the start
    Occurrence,     \* dates of events
    Tier,           \* ticket tiers of those dates
    capacity,       \* capacity[x]: seats of an occurrence or tier, or None
    Quota,          \* data rows the organization's plan allows
    None,           \* no product, occurrence, tier, capacity or row
    Operations,     \* the operations the environment may start
    Switched,       \* the dates and tiers the operator opens and closes
    MaxStarts,      \* bound on handlers started and switches made
    MaxCrashes      \* bound on handlers killed by a process restart

VARIABLES
    orders,         \* orders[o]: status, payment_intent, confirm_error
    stock,          \* stock[p]: stock_quantity
    sales,          \* sales[o]: batches of sales records and of reversals
    rows_used,      \* data rows counted against the plan
    reserved_seats, \* reserved_seats[x]: the counter of a date or tier
    open,           \* open[x]: the date is published, the tier active
    rows,           \* event_seat_reservations
    blocked,        \* <<order, occurrence>>: blocked_slots of events
    tickets,        \* tickets[o][i]: tickets issued for line i of order o
    swept,          \* orders the cleanup job has found
    task,           \* task[w]: the handler worker w is running
    starts,         \* handlers started and switches made so far
    crashes,        \* handlers killed so far
    overlapped,     \* orders of which two handlers have been in flight at once
    killed          \* orders of which a handler has been killed

goods == <<stock, sales, rows_used>>
seats == <<reserved_seats, rows>>
papers == <<blocked, tickets>>
world == <<open, swept, crashes, killed>>
vars == <<orders, goods, seats, papers, world, task, starts, overlapped>>

Place == Occurrence \cup Tier
Lines(o) == DOMAIN items[o]
Line == [product: Product \cup {None}, quantity: Nat \ {0},
         occurrence: Occurrence \cup {None}, tier: Tier \cup {None}]

OrderStatus == {"draft", "confirmed", "completed", "cancelled", "expired"}
Operation == {"confirm", "webhook", "cancel", "complete"}

ASSUME LifecycleAssumption ==
    /\ Direct \subseteq Orders
    /\ \A o \in Orders : items[o] \in Seq(Line) /\ items[o] # <<>>
    /\ \A o \in Orders : \A i \in Lines(o) :
            items[o][i].occurrence = None => items[o][i].tier = None
    /\ None \notin Product \cup Place
    /\ Occurrence \cap Tier = {}
    /\ capacity \in [Place -> Nat \cup {None}]
    /\ first_stock \in [Product -> Nat]
    /\ Quota \in Nat
    /\ Operations \subseteq Operation
    /\ Switched \subseteq Place
    /\ MaxStarts \in Nat /\ MaxCrashes \in Nat

(* The orders with a line at place x. *)
Guests(x) ==
    {o \in Orders : \E i \in Lines(o) : x \in {items[o][i].occurrence, items[o][i].tier}}

(* A reservation of seats, by an order with a line there; id stands for the *)
(* id that its insert generates.                                            *)
Row == {r \in [order: Orders, occurrence: Occurrence, tier: Tier \cup {None},
               qty: Nat, id: Nat] :
            /\ r.order \in Guests(r.occurrence)
            /\ r.tier # None => r.order \in Guests(r.tier)}

-----------------------------------------------------------------------------
(* Tasks.  A task is the set of the steps it still has to do; one that is   *)
(* NotAfter any other is next: steps go by stage, then by line, then as     *)
(* ranked within the line.  Steps of equal rank concern rows that a query   *)
(* returns in no particular order.                                          *)

Stage == [collect |-> 0, confirm |-> 1, status |-> 2, stock |-> 3, restore |-> 3,
          quota |-> 4, sales |-> 5, storno |-> 5,
          clamp |-> 6, reserve |-> 6, tier |-> 6, occurrence |-> 6,
          give |-> 6, undo |-> 6, block |-> 6,
          unblock |-> 7, find_tickets |-> 7, void |-> 8, ticket |-> 8,
          release_tiers |-> 9, release |-> 10, delete_rows |-> 11,
          record_error |-> 12]
InLine == [clamp |-> 0, reserve |-> 1, tier |-> 2, occurrence |-> 3, give |-> 4,
           undo |-> 5, block |-> 6]
StepKind == DOMAIN Stage

Step == [do: StepKind, line: Nat, n: Nat, place: Place \cup {None},
         row: Row \cup {None}]
Do(do, i) == [do |-> do, line |-> i, n |-> 0, place |-> None, row |-> None]
Give(x, r, i) == [do |-> "give", line |-> i, n |-> 0, place |-> x, row |-> r]

Rank(s) == IF s.do \in DOMAIN InLine THEN InLine[s.do] ELSE s.n
NotAfter(s, t) ==
    \/ Stage[s.do] < Stage[t.do]
    \/ /\ Stage[s.do] = Stage[t.do]
       /\ \/ s.line < t.line
          \/ s.line = t.line /\ Rank(s) <= Rank(t)

Idle == [op |-> "idle", order |-> None, id |-> 0, todo |-> {}]
InFlight(w) == task[w].todo # {}
AtRest(o) == \A w \in Worker : InFlight(w) => task[w].order # o
Quiescent == \A w \in Worker : ~InFlight(w)

Current(w, s, do) ==
    /\ s \in task[w].todo
    /\ s.do = do
    /\ \A t \in task[w].todo : NotAfter(s, t)

(* The step is done, and more of them may follow. *)
Then(w, s, more) ==
    LET todo == (task[w].todo \ {s}) \cup more
    IN  task' = [task EXCEPT ![w] = IF todo = {} THEN Idle ELSE [@ EXCEPT !.todo = todo]]
Stop(w) == task' = [task EXCEPT ![w] = Idle]

(* An exception ends the handler; reconcile_checkout_event catches those of *)
(* confirm_order and has yet to record the failure on the order.            *)
Raise(w) == IF task[w].op = "webhook"
              THEN task' = [task EXCEPT ![w].todo = {Do("record_error", 0)}]
              ELSE Stop(w)

Start(w, op, o, todo) ==
    /\ op \in Operations
    /\ ~InFlight(w)
    /\ starts < MaxStarts
    /\ starts' = starts + 1
    /\ task' = [task EXCEPT ![w] = [op |-> op, order |-> o, id |-> starts + 1,
                                    todo |-> todo]]
    /\ overlapped' = overlapped \cup (IF AtRest(o) THEN {} ELSE {o})
    /\ UNCHANGED <<orders, goods, seats, papers, world>>

-----------------------------------------------------------------------------
Init ==
    /\ orders = [o \in Orders |->
            [status |-> "draft",
             payment_intent |-> IF o \in Direct THEN "required" ELSE "none",
             confirm_error |-> FALSE]]
    /\ stock = first_stock
    /\ sales = [o \in Orders |-> [forward |-> 0, storno |-> 0]]
    /\ rows_used = 0
    /\ reserved_seats = [x \in Place |-> 0]
    /\ open = [x \in Place |-> TRUE]
    /\ rows = {}
    /\ blocked = {}
    /\ tickets = [o \in Orders |-> [i \in Lines(o) |-> [valid |-> 0, voided |-> 0]]]
    /\ swept = {}
    /\ task = [w \in Worker |-> Idle]
    /\ starts = 0
    /\ crashes = 0
    /\ overlapped = {}
    /\ killed = {}

-----------------------------------------------------------------------------
(* How handlers start.                                                      *)

StockLines(o) == {i \in Lines(o) : items[o][i].product # None}
EventLines(o) == {i \in Lines(o) : items[o][i].occurrence # None}
FirstOfDate(o) ==
    {i \in EventLines(o) : \A j \in EventLines(o) :
        items[o][j].occurrence = items[o][i].occurrence => i <= j}

(* can_confirm_order, and the test for repetition before it. *)
can_confirm_order(o, skip_payment_check) ==
    /\ orders[o].status \in {"draft", "expired"}
    /\ skip_payment_check \/ orders[o].payment_intent # "required"

(* confirm_order once it has read an order it accepts. *)
Confirming(o) ==
    {Do("status", 0), Do("quota", 0), Do("sales", 0), Do("find_tickets", 0)}
    \cup {Do("stock", i) : i \in StockLines(o)}
    \cup {Do("reserve", i) : i \in EventLines(o)}
    \cup {Do("block", i) : i \in FirstOfDate(o)}

Confirm(w, o) ==
    /\ can_confirm_order(o, FALSE)
    /\ Start(w, "confirm", o, Confirming(o))

(* reconcile_checkout_event of a paid session: the order is marked          *)
(* collected, then confirmed without the payment check.  Deliveries of the  *)
(* event, the success page and the operator's check may all call it.        *)
Webhook(w, o) ==
    /\ orders[o].payment_intent = "required"
    /\ Start(w, "webhook", o, {Do("collect", 0), Do("confirm", 0)})

(* cancel_order: stock and sales only of an order it has read confirmed.    *)
Cancelling(o) ==
    {Do("status", 0), Do("unblock", 0), Do("void", 0),
     Do("release_tiers", 0), Do("release", 0)}
    \cup IF orders[o].status = "confirmed"
           THEN {Do("quota", 0), Do("storno", 0)}
                \cup {Do("restore", i) : i \in StockLines(o)}
           ELSE {}

(* Mutant: a completed order can be cancelled. *)
can_cancel_order_Completed(o) == orders[o].status # "cancelled"

can_cancel_order(o) == orders[o].status \notin {"completed", "cancelled"}

Cancel(w, o) ==
    /\ can_cancel_order(o)
    /\ Start(w, "cancel", o, Cancelling(o))

Complete(w, o) ==
    /\ orders[o].status = "confirmed"
    /\ Start(w, "complete", o, {Do("status", 0)})

-----------------------------------------------------------------------------
(* The steps on the order, its stock and its sales records.                 *)

(* The webhook's write, and then the read of confirm_order: an order that   *)
(* is confirmed is returned as it is, a cancelled one raises.               *)
Collect(w, s) ==
    /\ Current(w, s, "collect")
    /\ orders' = [orders EXCEPT ![task[w].order].payment_intent = "collected"]
    /\ Then(w, s, {})
    /\ UNCHANGED <<goods, seats, papers, world, starts, overlapped>>

ReadToConfirm(w, s) ==
    /\ Current(w, s, "confirm")
    /\ LET o == task[w].order
       IN  IF orders[o].status = "cancelled"
             THEN Raise(w)
             ELSE Then(w, s, IF can_confirm_order(o, TRUE) THEN Confirming(o) ELSE {})
    /\ UNCHANGED <<orders, goods, seats, papers, world, starts, overlapped>>

Target == [confirm |-> "confirmed", webhook |-> "confirmed",
           cancel |-> "cancelled", complete |-> "completed"]

(* The status is written whatever the order has become since it was read.   *)
(* A confirmation writes the order's number with it, and raises when other  *)
(* confirmations of the organization took three numbers in a row.           *)
WriteStatus(w, s) ==
    /\ Current(w, s, "status")
    /\ \/ /\ orders' = [orders EXCEPT ![task[w].order].status = Target[task[w].op]]
          /\ Then(w, s, {})
       \/ /\ Target[task[w].op] = "confirmed"
          /\ UNCHANGED orders
          /\ Raise(w)
    /\ UNCHANGED <<goods, seats, papers, world, starts, overlapped>>

(* What reconcile_checkout_event keeps of a confirmation that raised.       *)
RecordError(w, s) ==
    /\ Current(w, s, "record_error")
    /\ orders' = [orders EXCEPT ![task[w].order].confirm_error = TRUE]
    /\ Then(w, s, {})
    /\ UNCHANGED <<goods, seats, papers, world, starts, overlapped>>

(* Mutant: the predicate is not part of the update. *)
try_decrement_stock_Unguarded(w, s) ==
    LET item == items[task[w].order][s.line]
    IN  /\ Current(w, s, "stock")
        /\ stock' = [stock EXCEPT ![item.product] = @ - item.quantity]
        /\ Then(w, s, {})
        /\ UNCHANGED <<orders, sales, rows_used, seats, papers, world, starts,
                       overlapped>>

(* try_decrement_stock is atomic; when it is refused the confirmation only  *)
(* logs and goes on.                                                        *)
try_decrement_stock(w, s) ==
    LET item == items[task[w].order][s.line]
    IN  /\ Current(w, s, "stock")
        /\ stock' = IF stock[item.product] >= item.quantity
                      THEN [stock EXCEPT ![item.product] = @ - item.quantity]
                      ELSE stock
        /\ Then(w, s, {})
        /\ UNCHANGED <<orders, sales, rows_used, seats, papers, world, starts,
                       overlapped>>

(* restore_stock_for_order gives back every line, taken or not. *)
restore_stock(w, s) ==
    LET item == items[task[w].order][s.line]
    IN  /\ Current(w, s, "restore")
        /\ stock' = [stock EXCEPT ![item.product] = @ + item.quantity]
        /\ Then(w, s, {})
        /\ UNCHANGED <<orders, sales, rows_used, seats, papers, world, starts,
                       overlapped>>

(* check_module_access: beyond the plan it raises.                          *)
CheckQuota(w, s) ==
    /\ Current(w, s, "quota")
    /\ IF rows_used + Len(items[task[w].order]) <= Quota THEN Then(w, s, {}) ELSE Raise(w)
    /\ UNCHANGED <<orders, goods, seats, papers, world, starts, overlapped>>

(* _generate_sales_records and _generate_storno_records. *)
WriteSales(w, s) ==
    LET o == task[w].order
    IN  /\ \/ /\ Current(w, s, "sales")
              /\ sales' = [sales EXCEPT ![o].forward = @ + 1]
           \/ /\ Current(w, s, "storno")
              /\ sales' = [sales EXCEPT ![o].storno = @ + 1]
        /\ rows_used' = rows_used + Len(items[o])
        /\ Then(w, s, {})
        /\ UNCHANGED <<orders, stock, seats, papers, world, starts, overlapped>>

-----------------------------------------------------------------------------
(* Seats: the reservation row first, then the tier, then the date.          *)

SameKey(r, o, i) == /\ r.order = o
                    /\ r.occurrence = items[o][i].occurrence
                    /\ r.tier = items[o][i].tier

NewRow(w, i) ==
    LET o == task[w].order
    IN  [order |-> o, occurrence |-> items[o][i].occurrence,
         tier |-> items[o][i].tier, qty |-> items[o][i].quantity,
         id |-> task[w].id]

(* The upsert on (order, occurrence, tier).  A row already there ends the   *)
(* reservation of the line: already_reserved, or qty_mismatch, only logged. *)
ReserveRow(w, s) ==
    /\ Current(w, s, "reserve")
    /\ IF \E r \in rows : SameKey(r, task[w].order, s.line)
         THEN UNCHANGED rows /\ Then(w, s, {})
         ELSE /\ rows' = rows \cup {NewRow(w, s.line)}
              /\ Then(w, s, {Do(IF NewRow(w, s.line).tier = None
                                  THEN "occurrence" ELSE "tier", s.line)})
    /\ UNCHANGED <<orders, goods, reserved_seats, papers, world, starts, overlapped>>

(* Mutant: the seats asked for are not added before comparing. *)
HasRoom_Uncounted(x, qty) ==
    open[x] /\ (capacity[x] # None => reserved_seats[x] < capacity[x])

(* The predicate of the atomic increments. *)
HasRoom(x, qty) ==
    open[x] /\ (capacity[x] # None => reserved_seats[x] + qty <= capacity[x])

TakeSeats(x, qty) == reserved_seats' = [reserved_seats EXCEPT ![x] = @ + qty]

ReserveTier(w, s) ==
    LET row == NewRow(w, s.line)
    IN  /\ Current(w, s, "tier")
        /\ IF HasRoom(row.tier, row.qty)
             THEN TakeSeats(row.tier, row.qty) /\ Then(w, s, {Do("occurrence", s.line)})
             ELSE UNCHANGED reserved_seats /\ Then(w, s, {Do("undo", s.line)})
        /\ UNCHANGED <<orders, goods, rows, papers, world, starts, overlapped>>

(* Mutant: the tier is not compensated. *)
ReserveOccurrence_KeepsTier(w, s) ==
    LET row == NewRow(w, s.line)
    IN  /\ Current(w, s, "occurrence")
        /\ IF HasRoom(row.occurrence, row.qty)
             THEN TakeSeats(row.occurrence, row.qty) /\ Then(w, s, {})
             ELSE UNCHANGED reserved_seats /\ Then(w, s, {Do("undo", s.line)})
        /\ UNCHANGED <<orders, goods, rows, papers, world, starts, overlapped>>

(* A date that is full or closed makes the tier give its seats back. *)
ReserveOccurrence(w, s) ==
    LET row == NewRow(w, s.line)
        undo == {Do("undo", s.line)} \cup
                  (IF row.tier = None THEN {} ELSE {Give(row.tier, row, s.line)})
    IN  /\ Current(w, s, "occurrence")
        /\ IF HasRoom(row.occurrence, row.qty)
             THEN TakeSeats(row.occurrence, row.qty) /\ Then(w, s, {})
             ELSE UNCHANGED reserved_seats /\ Then(w, s, undo)
        /\ UNCHANGED <<orders, goods, rows, papers, world, starts, overlapped>>

(* The row is deleted by its own id. *)
UndoRow(w, s) ==
    /\ Current(w, s, "undo")
    /\ rows' = rows \ {NewRow(w, s.line)}
    /\ Then(w, s, {})
    /\ UNCHANGED <<orders, goods, reserved_seats, papers, world, starts, overlapped>>

(* A counter is decremented, then set to 0 if that made it negative.        *)
GiveBack(w, s) ==
    /\ Current(w, s, "give")
    /\ reserved_seats' = [reserved_seats EXCEPT ![s.place] = @ - s.row.qty]
    /\ Then(w, s, {[s EXCEPT !.do = "clamp"]})
    /\ UNCHANGED <<orders, goods, rows, papers, world, starts, overlapped>>

Clamp(w, s) ==
    /\ Current(w, s, "clamp")
    /\ reserved_seats' = [reserved_seats EXCEPT ![s.place] = IF @ < 0 THEN 0 ELSE @]
    /\ Then(w, s, {})
    /\ UNCHANGED <<orders, goods, rows, papers, world, starts, overlapped>>

RowsOf(o) == {r \in rows : r.order = o}

(* release_tier_seats reads the rows and leaves them; release_event_seats   *)
(* reads them again and deletes them at the end, whichever there are then.  *)
release_tier_seats(w, s) ==
    /\ Current(w, s, "release_tiers")
    /\ Then(w, s, {Give(r.tier, r, 0) :
                      r \in {x \in RowsOf(task[w].order) : x.tier # None}})
    /\ UNCHANGED <<orders, goods, seats, papers, world, starts, overlapped>>

release_event_seats(w, s) ==
    LET held == RowsOf(task[w].order)
    IN  /\ Current(w, s, "release")
        /\ Then(w, s, IF held = {} THEN {}
                      ELSE {Do("delete_rows", 0)}
                           \cup {Give(r.occurrence, r, 0) : r \in held})
        /\ UNCHANGED <<orders, goods, seats, papers, world, starts, overlapped>>

DeleteRows(w, s) ==
    /\ Current(w, s, "delete_rows")
    /\ rows' = rows \ RowsOf(task[w].order)
    /\ Then(w, s, {})
    /\ UNCHANGED <<orders, goods, reserved_seats, papers, world, starts, overlapped>>

-----------------------------------------------------------------------------
(* Calendar blocks and tickets.                                             *)

(* One block per date of the order, by an upsert; a cancellation deletes    *)
(* them all.                                                                *)
Block(w, s) ==
    LET o == task[w].order
    IN  /\ Current(w, s, "block")
        /\ blocked' = blocked \cup {<<o, items[o][s.line].occurrence>>}
        /\ Then(w, s, {})
        /\ UNCHANGED <<orders, goods, seats, tickets, world, starts, overlapped>>

Unblock(w, s) ==
    /\ Current(w, s, "unblock")
    /\ blocked' = {b \in blocked : b[1] # task[w].order}
    /\ Then(w, s, {})
    /\ UNCHANGED <<orders, goods, seats, tickets, world, starts, overlapped>>

HasTickets(o) == \E i \in Lines(o) : tickets[o][i].valid + tickets[o][i].voided > 0

(* issue_tickets_for_order: nothing if the order has any ticket, else one   *)
(* insert per seat of each event line.                                      *)
FindTickets(w, s) ==
    LET o == task[w].order
    IN  /\ Current(w, s, "find_tickets")
        /\ Then(w, s, IF HasTickets(o) THEN {}
                      ELSE UNION {{[Do("ticket", i) EXCEPT !.n = n] :
                                       n \in 1..items[o][i].quantity} :
                                   i \in EventLines(o)})
        /\ UNCHANGED <<orders, goods, seats, papers, world, starts, overlapped>>

IssueTicket(w, s) ==
    /\ Current(w, s, "ticket")
    /\ tickets' = [tickets EXCEPT ![task[w].order][s.line].valid = @ + 1]
    /\ Then(w, s, {})
    /\ UNCHANGED <<orders, goods, seats, blocked, world, starts, overlapped>>

void_tickets_for_order(w, s) ==
    LET o == task[w].order
    IN  /\ Current(w, s, "void")
        /\ tickets' = [tickets EXCEPT ![o] = [i \in Lines(o) |->
                [valid |-> 0, voided |-> tickets[o][i].valid + tickets[o][i].voided]]]
        /\ Then(w, s, {})
        /\ UNCHANGED <<orders, goods, seats, blocked, world, starts, overlapped>>

-----------------------------------------------------------------------------
(* The cleanup job, the operator's switches, restarts.                      *)

(* sweep_orphan_draft_orders: the ids of old unpaid drafts, then a guarded  *)
(* update of those that still are.  Which drafts are old is left open.      *)
Unpaid(o) == orders[o].status = "draft" /\ orders[o].payment_intent = "required"

SweepFind ==
    /\ swept = {}
    /\ \E found \in SUBSET {o \in Orders : Unpaid(o)} :
            found # {} /\ swept' = found
    /\ UNCHANGED <<orders, goods, seats, papers, open, crashes, killed, task, starts,
                   overlapped>>

(* Mutant: the update goes by the ids alone. *)
SweepExpire_ById ==
    /\ swept # {}
    /\ orders' = [o \in Orders |-> IF o \in swept
                                     THEN [orders[o] EXCEPT !.status = "expired"]
                                     ELSE orders[o]]
    /\ swept' = {}
    /\ UNCHANGED <<goods, seats, papers, open, crashes, killed, task, starts, overlapped>>

SweepExpire ==
    /\ swept # {}
    /\ orders' = [o \in Orders |-> IF o \in swept /\ Unpaid(o)
                                     THEN [orders[o] EXCEPT !.status = "expired"]
                                     ELSE orders[o]]
    /\ swept' = {}
    /\ UNCHANGED <<goods, seats, papers, open, crashes, killed, task, starts, overlapped>>

(* Taking a date offline or a tier out of sale, and back.                   *)
Switch(x) ==
    /\ starts < MaxStarts
    /\ starts' = starts + 1
    /\ open' = [open EXCEPT ![x] = ~@]
    /\ UNCHANGED <<orders, goods, seats, papers, swept, crashes, killed, task, overlapped>>

Crash(w) ==
    /\ InFlight(w)
    /\ crashes < MaxCrashes
    /\ crashes' = crashes + 1
    /\ killed' = killed \cup {task[w].order}
    /\ Stop(w)
    /\ UNCHANGED <<orders, goods, seats, papers, open, swept, starts, overlapped>>

-----------------------------------------------------------------------------
Request(w, o) == \/ Confirm(w, o) \/ Cancel(w, o) \/ Complete(w, o)
                 \/ Webhook(w, o)

OrderStep(w, s) == \/ Collect(w, s) \/ ReadToConfirm(w, s) \/ WriteStatus(w, s)
                   \/ RecordError(w, s)
                   \/ try_decrement_stock(w, s) \/ restore_stock(w, s)
                   \/ CheckQuota(w, s) \/ WriteSales(w, s)
SeatStep(w, s) == \/ ReserveRow(w, s) \/ ReserveTier(w, s) \/ ReserveOccurrence(w, s)
                  \/ UndoRow(w, s) \/ GiveBack(w, s) \/ Clamp(w, s)
                  \/ release_tier_seats(w, s) \/ release_event_seats(w, s)
                  \/ DeleteRows(w, s)
PaperStep(w, s) == \/ Block(w, s) \/ Unblock(w, s) \/ FindTickets(w, s)
                   \/ IssueTicket(w, s) \/ void_tickets_for_order(w, s)

Next ==
    \/ \E w \in Worker, o \in Orders : Request(w, o)
    \/ \E w \in Worker : \E s \in task[w].todo :
            OrderStep(w, s) \/ SeatStep(w, s) \/ PaperStep(w, s)
    \/ \E w \in Worker : Crash(w)
    \/ \E x \in Switched : Switch(x)
    \/ SweepFind \/ SweepExpire

Spec == Init /\ [][Next]_vars

-----------------------------------------------------------------------------
(* Type invariant.                                                          *)
Task == [op: Operation \cup {"idle"}, order: Orders \cup {None}, id: Nat,
         todo: SUBSET Step]

TypeOK ==
    /\ orders \in [Orders -> [status: OrderStatus,
                              payment_intent: {"none", "required", "collected"},
                              confirm_error: BOOLEAN]]
    /\ stock \in [Product -> Nat]
    /\ sales \in [Orders -> [forward: Nat, storno: Nat]]
    /\ rows_used \in Nat
    /\ reserved_seats \in [Place -> Int]
    /\ open \in [Place -> BOOLEAN]
    /\ rows \subseteq Row
    /\ blocked \subseteq Orders \X Occurrence
    /\ DOMAIN tickets = Orders
    /\ \A o \in Orders : tickets[o] \in [Lines(o) -> [valid: Nat, voided: Nat]]
    /\ swept \subseteq Orders
    /\ task \in [Worker -> Task]
    /\ starts \in 0..MaxStarts
    /\ crashes \in 0..MaxCrashes
    /\ overlapped \subseteq Orders /\ killed \subseteq Orders

-----------------------------------------------------------------------------
(* Safety whatever the interleaving.                                        *)

(* The counters never pass the capacity of a date or of a tier, however     *)
(* many handlers reserve, undo and release at the same time, and wherever   *)
(* a restart leaves them (tier_capacity: "BOTH limits must hold").          *)
CountersWithinCapacity ==
    \A x \in Place : capacity[x] # None => reserved_seats[x] <= capacity[x]

(* Money collected for an order confirms it, or the failure is on record:   *)
(* an order at rest of which no handler was killed is neither a draft nor   *)
(* expired without its confirm_error, although the cleanup job may expire   *)
(* it while its payment arrives and the confirmation may raise on the       *)
(* order's number (reconcile_checkout_event; order_cleanup_service: "Orders *)
(* with payment_intent=collected are NEVER touched").                       *)
CollectedIsConfirmed ==
    \A o \in Orders :
        /\ AtRest(o) /\ o \notin killed
        /\ orders[o].payment_intent = "collected"
        => orders[o].status \notin {"draft", "expired"} \/ orders[o].confirm_error

-----------------------------------------------------------------------------
(* Safety of an order whose own handlers did not overlap and were not       *)
(* killed, whatever happens to the others beside it.                        *)

Undisturbed(o) == AtRest(o) /\ o \notin overlapped \cup killed

Held(x) == MapThenSumSet(LAMBDA r : r.qty,
                         {r \in rows : r.occurrence = x \/ r.tier = x})

(* Once its guests are at rest the counter of a date or tier is the sum of  *)
(* its reservations: what a failed reservation took is given back exactly,  *)
(* and a release gives back what was counted.                               *)
SeatsCounted ==
    \A x \in Place :
        (\A o \in Guests(x) : Undisturbed(o)) => reserved_seats[x] = Held(x)

(* An order at rest whose sales stand has a valid ticket for every seat of  *)
(* its lines and its dates blocked; any other order has no valid ticket, no *)
(* block and no seat.  The plan's limit may end a confirmation or a         *)
(* cancellation half way, a number may not be found, other orders may be    *)
(* left half done, and this still holds.                                    *)
Standing(o) == sales[o].forward = sales[o].storno + 1
ArtefactsFollowSales ==
    \A o \in Orders : Undisturbed(o) =>
        /\ Standing(o) \/ sales[o].forward = sales[o].storno
        /\ \A i \in Lines(o) : tickets[o][i].valid =
                IF Standing(o) /\ i \in EventLines(o) THEN items[o][i].quantity ELSE 0
        /\ \A i \in EventLines(o) :
                (<<o, items[o][i].occurrence>> \in blocked) = Standing(o)
        /\ RowsOf(o) # {} => Standing(o)

-----------------------------------------------------------------------------
(* What documents promise and some run refutes.                             *)

(* Between handlers the reservations of a date or tier fit its capacity.    *)
NeverOversold ==
    Quiescent => \A x \in Place : capacity[x] # None => Held(x) <= capacity[x]

=============================================================================
