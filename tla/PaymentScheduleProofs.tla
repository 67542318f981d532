------------------------- MODULE PaymentScheduleProofs -------------------------
(***************************************************************************)
(* Theorems about PaymentSchedule, for every plan, every set of workers    *)
(* and every bound.                                                        *)
(*                                                                         *)
(* The stored document is only ever replaced by a handler's private copy   *)
(* with one row moved, so whatever is claimed of the document has to be    *)
(* claimed of every copy too, however old it is: that is the inductive     *)
(* invariant IInv.  It survives because what it says of a copy never       *)
(* becomes false while the copy ages: a session that was paid stays paid.  *)
(***************************************************************************)
EXTENDS PaymentSchedule, TLAPS

(* A row is paid only with money of its own session, and only rows the job  *)
(* may dun are late.                                                        *)
GoodRows(rows, ses) ==
    /\ rows \in [Seqs -> ScheduleRow]
    /\ \A s \in Seqs : /\ rows[s].status = "paid" => ses[s] = "paid"
                       /\ kind[s] \notin DUNNABLE_KINDS =>
                            rows[s].status \notin {"overdue", "at_risk"}

GoodDoc(d, ses) == d = Schedule(d.rows) /\ GoodRows(d.rows, ses)

GoodItem(i, ses) ==
    /\ i \in Item
    /\ i.do = "pay" => ses[i.seq] = "paid"
    /\ i.do = "refund" => i.arg <= amount[i.seq]
    /\ i.do \in ReminderKind \cup {"overdue", "at_risk"} =>
          kind[i.seq] \in DUNNABLE_KINDS

GoodTask(t, ses) ==
    /\ TypedTask(t)
    /\ GoodDoc(t.snap, ses)
    /\ \A i \in t.todo : GoodItem(i, ses)

Tasks == DOMAIN task = Worker /\ \A w \in Worker : GoodTask(task[w], session)

Stored == GoodDoc(doc, session)

Counters == /\ mails \in [Seqs -> [ReminderKind -> Nat]]
            /\ returned \in [Seqs -> Nat]
            /\ now \in Nat
            /\ starts \in 0..MaxStarts
            /\ crashes \in 0..MaxCrashes
            /\ overlapped \in BOOLEAN
            /\ RefundBacked
            /\ \A s \in Seqs : kind[s] \notin DUNNABLE_KINDS =>
                    \A k \in ReminderKind : mails[s][k] = 0

World == order \in OrderDoc /\ session \in [Seqs -> {"none", "open", "paid"}]

IInv == Tasks /\ Stored /\ Counters /\ World

-----------------------------------------------------------------------------
(* Documents. *)

(* payment_state is one of the three documented values, and a schedule      *)
(* built from well formed rows is well formed.                              *)
LEMMA ScheduleTyped ==
    ASSUME NEW rows \in [Seqs -> ScheduleRow]
    PROVE  Schedule(rows).rows = rows /\ Typed(Schedule(rows))
<1>1. Schedule(rows).rows = rows
  BY DEF Schedule
<1>2. derive_payment_state(rows) \in PaymentState
  BY DEF derive_payment_state, PaymentState
<1> QED
  BY <1>1, <1>2 DEF Typed, Schedule

(* A schedule derived from good rows is a good, well formed document.       *)
LEMMA GoodSchedule ==
    ASSUME NEW ses, NEW rows, GoodRows(rows, ses)
    PROVE  GoodDoc(Schedule(rows), ses) /\ Typed(Schedule(rows))
BY ScheduleTyped DEF GoodDoc, GoodRows

(* The schedule an order is created with shows no payment and no late row.  *)
LEMMA NewScheduleGood ==
    ASSUME NEW ses, NEW online
    PROVE  GoodDoc(NewSchedule(online), ses)
<1> DEFINE rows == [s \in Seqs |->
        NewRow(s, IF s = 0 /\ online THEN "processing" ELSE "pending")]
<1>1. GoodRows(rows, ses)
  BY ScheduleAssumption DEF GoodRows, ScheduleRow, NewRow, RowStatus
<1> QED
  BY <1>1, GoodSchedule DEF NewSchedule

(* Due dates and reminder marks do not enter the totals or payment_state:   *)
(* a targeted update of a row leaves the document derived from its rows.    *)
LEMMA TargetedUpdate ==
    ASSUME NEW rows \in [Seqs -> ScheduleRow],
           NEW other \in [Seqs -> ScheduleRow],
           \A s \in Seqs : /\ rows[s].status = other[s].status
                           /\ rows[s].paid_at = other[s].paid_at
                           /\ rows[s].refund = other[s].refund
    PROVE  /\ compute_totals(rows) = compute_totals(other)
           /\ derive_payment_state(rows) = derive_payment_state(other)
<1>1. \A s \in Seqs : Collected(rows[s]) = Collected(other[s])
  BY DEF Collected
<1>2. [s \in Seqs |-> IF rows[s].status = "cancelled" THEN 0 ELSE amount[s]]
        = [s \in Seqs |-> IF other[s].status = "cancelled" THEN 0 ELSE amount[s]]
  OBVIOUS
<1>3. [s \in Seqs |-> IF Collected(rows[s]) THEN amount[s] ELSE 0]
        = [s \in Seqs |-> IF Collected(other[s]) THEN amount[s] ELSE 0]
  BY <1>1
<1>4. [s \in Seqs |-> rows[s].refund] = [s \in Seqs |-> other[s].refund]
  OBVIOUS
<1>5. compute_totals(rows) = compute_totals(other)
  BY <1>2, <1>3, <1>4 DEF compute_totals
<1>6. {s \in Seqs : rows[s].status # "cancelled"}
        = {s \in Seqs : other[s].status # "cancelled"}
  OBVIOUS
<1>7. derive_payment_state(rows) = derive_payment_state(other)
  <2> DEFINE active == {s \in Seqs : rows[s].status # "cancelled"}
             payable(r) == {s \in active : r[s].status # "waived"}
  <2>1. payable(rows) = payable(other)
    OBVIOUS
  <2>2. (payable(rows) # {} /\ \A s \in payable(rows) : Collected(rows[s]))
          <=> (payable(other) # {} /\ \A s \in payable(other) : Collected(other[s]))
    BY <1>1, <2>1
  <2>3. (\E s \in active : kind[s] \in {"deposit", "full"} /\ rows[s].status \in PAID_STATES)
          <=> (\E s \in active : kind[s] \in {"deposit", "full"} /\ other[s].status \in PAID_STATES)
    OBVIOUS
  <2> QED
    BY <1>6, <2>2, <2>3 DEF derive_payment_state
<1> QED
  BY <1>5, <1>7

-----------------------------------------------------------------------------
(* Tasks. *)

(* A worker with nothing to do holds nothing that could be wrong.           *)
LEMMA IdleGood ==
    ASSUME NEW ses
    PROVE  GoodTask(Idle, ses)
<1>1. GoodDoc(NewSchedule(FALSE), ses)
  BY NewScheduleGood
<1>2. Typed(NewSchedule(FALSE))
  BY <1>1, ScheduleTyped DEF GoodDoc, GoodRows
<1>3. <<>> \in Seq(Phase)
  OBVIOUS
<1> QED
  BY <1>1, <1>2, <1>3, PlanAssumption DEF Idle, GoodTask, TypedTask

(* Whatever a handler does next, its worker is left with a good task.       *)
LEMMA SettledGood ==
    ASSUME NEW ses, NEW t, GoodTask(t, ses)
    PROVE  GoodTask(Settled(t), ses)
<1> DEFINE phases == IF t.phases # <<>> /\ Head(t.phases) = "rows" /\ t.todo = {}
                       THEN Tail(t.phases) ELSE t.phases
<1>1. phases \in Seq(Phase)
  BY DEF GoodTask, TypedTask
<1>2. GoodTask([t EXCEPT !.phases = phases], ses)
  BY <1>1 DEF GoodTask, TypedTask
<1> QED
  BY <1>2, IdleGood DEF Settled

(* Handing a good task to a worker keeps the task of every worker good.     *)
LEMMA ContinueGood ==
    ASSUME Tasks, NEW w \in Worker, NEW t, GoodTask(t, session),
           Continue(w, t), UNCHANGED session
    PROVE  Tasks'
<1>1. GoodTask(Settled(t), session)
  BY SettledGood
<1> QED
  BY <1>1 DEF Continue, Tasks

(* A handler ended by an exception leaves an idle worker.                   *)
LEMMA StopGood ==
    ASSUME Tasks, NEW w \in Worker, Stop(w), UNCHANGED session
    PROVE  Tasks'
BY IdleGood DEF Stop, Tasks

(* Dropping the phase just run keeps a task good.                           *)
LEMMA TailGood ==
    ASSUME NEW ses, NEW t, GoodTask(t, ses), t.phases # <<>>
    PROVE  GoodTask([t EXCEPT !.phases = Tail(@)], ses)
<1>1. Tail(t.phases) \in Seq(Phase)
  BY DEF GoodTask, TypedTask
<1> QED
  BY <1>1 DEF GoodTask, TypedTask

(* Going on to the next phase keeps every task good.                        *)
LEMMA EndPhaseGood ==
    ASSUME Tasks, NEW w \in Worker, InFlight(w), EndPhase(w), UNCHANGED session
    PROVE  Tasks'
<1> DEFINE t == [task[w] EXCEPT !.phases = Tail(@)]
<1>1. GoodTask(task[w], session)
  BY DEF Tasks
<1>2. GoodTask(t, session)
  BY <1>1, TailGood DEF InFlight
<1> QED
  BY <1>2, ContinueGood DEF EndPhase

(* Ending a row operation with a good copy keeps every task good.           *)
LEMMA FinishGood ==
    ASSUME Tasks, NEW w \in Worker, NEW i, NEW snap,
           GoodDoc(snap, session), Finish(w, i, snap), UNCHANGED session
    PROVE  Tasks'
<1> DEFINE t == [task[w] EXCEPT !.todo = @ \ {i}, !.snap = snap]
<1>1. GoodTask(task[w], session)
  BY DEF Tasks
<1>2. Typed(snap)
  BY ScheduleTyped DEF GoodDoc, GoodRows
<1>3. GoodTask(t, session)
  BY <1>1, <1>2 DEF GoodTask, TypedTask
<1> QED
  BY <1>3, ContinueGood DEF Finish

(* Going on with other good row operations keeps every task good.           *)
LEMMA ReplaceGood ==
    ASSUME Tasks, NEW w \in Worker, NEW i, NEW items,
           \A j \in items : GoodItem(j, session),
           Replace(w, i, items), UNCHANGED session
    PROVE  Tasks'
<1> DEFINE t == [task[w] EXCEPT !.todo = (@ \ {i}) \cup items]
<1>1. GoodTask(task[w], session)
  BY DEF Tasks
<1>2. GoodTask(t, session)
  BY <1>1 DEF GoodTask, TypedTask, GoodItem
<1> QED
  BY <1>2, ContinueGood DEF Replace

(* A session that was paid stays paid, so no copy gets worse with age.      *)
LEMMA AgeingGood ==
    ASSUME NEW ses, NEW new, \A s \in Seqs : ses[s] = "paid" => new[s] = "paid"
    PROVE  /\ \A d : GoodDoc(d, ses) => GoodDoc(d, new)
           /\ \A t : GoodTask(t, ses) => GoodTask(t, new)
<1>1. \A d : GoodDoc(d, ses) => GoodDoc(d, new)
  BY DEF GoodDoc, GoodRows
<1>2. \A i : GoodItem(i, ses) => GoodItem(i, new)
  BY DEF GoodItem, Item
<1> QED
  BY <1>1, <1>2 DEF GoodTask

-----------------------------------------------------------------------------
(* Handlers that start. *)

(* A handler that starts with a good copy and good operations keeps IInv.   *)
LEMMA BeginGood ==
    ASSUME IInv, NEW w \in Worker, NEW op, NEW s \in Seqs, NEW phases, NEW todo,
           NEW snap, op \in Operation \cup {"scan", "webhook"},
           phases \in Seq(Phase), \A i \in todo : GoodItem(i, session),
           GoodDoc(snap, session), Begin(w, op, s, phases, todo, snap),
           starts' \in 0..MaxStarts
    PROVE  IInv'
<1> DEFINE t == [op |-> op, seq |-> s, phases |-> phases, todo |-> todo, snap |-> snap]
<1>1. Typed(snap)
  BY ScheduleTyped DEF GoodDoc, GoodRows
<1>2. GoodTask(t, session)
  BY <1>1 DEF GoodTask, TypedTask, GoodItem
<1>3. Tasks'
  BY <1>2, ContinueGood DEF Begin, IInv
<1>4. Stored' /\ World'
  BY DEF Begin, IInv, Stored, World
<1>5. Counters'
  BY DEF Begin, IInv, Counters, RefundBacked
<1> QED
  BY <1>3, <1>4, <1>5 DEF IInv

(* The same for a handler started by a request, which counts as a start.    *)
LEMMA StartGood ==
    ASSUME IInv, NEW w \in Worker, NEW op, NEW s \in Seqs, NEW phases, NEW todo,
           NEW snap, phases \in Seq(Phase),
           \A i \in todo : GoodItem(i, session),
           GoodDoc(snap, session), Start(w, op, s, phases, todo, snap)
    PROVE  IInv'
<1>1. starts' \in 0..MaxStarts
  BY ScheduleAssumption DEF Start, IInv, Counters
<1> QED
  BY <1>1, BeginGood, ScheduleAssumption DEF Start

(* One operation on one row: only a payment, a refund and the dunning steps *)
(* have something to show for themselves.                                   *)
LEMMA DoGood ==
    ASSUME NEW ses, NEW s \in Seqs, NEW do \in ItemKind, NEW arg \in Nat,
           do = "pay" => ses[s] = "paid",
           do = "refund" => arg <= amount[s],
           do \in ReminderKind \cup {"overdue", "at_risk"} => kind[s] \in DUNNABLE_KINDS
    PROVE  GoodItem(Do(s, do, arg), ses)
BY DEF GoodItem, Do, Item

(* The operations that make no claim about money or reminders.              *)
LEMMA PlainKinds ==
    \A do \in {"paid_manual", "processing", "waive", "postpone", "cancel"} :
        /\ do \in ItemKind
        /\ do \notin ReminderKind \cup {"overdue", "at_risk", "pay", "refund"}
BY DEF ItemKind, ReminderKind

(* reconcile_checkout_event always yields a well formed list of phases.     *)
LEMMA ReconcilePhases ==
    ASSUME NEW op, NEW s
    PROVE  Reconcile(op, s) \in Seq(Phase)
<1>1. <<>> \in Seq(Phase)
  OBVIOUS
<1>2. <<"read", "rows", "mirror">> \in Seq(Phase)
  BY DEF Phase
<1>3. <<"collect", "read", "rows", "mirror", "confirm">> \in Seq(Phase)
  BY DEF Phase
<1> QED
  BY <1>1, <1>2, <1>3 DEF Reconcile

(* Stripe's webhook comes for a paid session, so its payment is genuine.    *)
LEMMA WebhookGood ==
    ASSUME IInv, NEW w \in Worker, NEW s \in Seqs, Webhook(w, s)
    PROVE  IInv'
<1> DEFINE phases == Reconcile("webhook", s)
           todo == {Do(s, "pay", 0)}
           snap == NewSchedule(FALSE)
<1>1. \A i \in todo : GoodItem(i, session)
  BY DoGood DEF Webhook, ItemKind, ReminderKind
<1>2. GoodDoc(snap, session)
  BY NewScheduleGood
<1>3. phases \in Seq(Phase)
  BY ReconcilePhases
<1>4. starts' \in 0..MaxStarts
  BY DEF Webhook, IInv, Counters
<1>5. Begin(w, "webhook", s, phases, todo, snap)
  BY DEF Webhook
<1> HIDE DEF phases, todo, snap
<1> QED
  BY <1>1, <1>2, <1>3, <1>4, <1>5, BeginGood

(* The success page asks about a session Stripe reports as paid.            *)
LEMMA VerifyGood ==
    ASSUME IInv, NEW w \in Worker, Verify(w)
    PROVE  IInv'
<1> DEFINE phases == <<"order">>
           todo == {Do(0, "pay", 0)}
           snap == NewSchedule(FALSE)
<1>1. \A i \in todo : GoodItem(i, session)
  BY DoGood, PlanAssumption DEF Verify, ItemKind, ReminderKind
<1>2. GoodDoc(snap, session)
  BY NewScheduleGood
<1>3. phases \in Seq(Phase)
  BY DEF Phase
<1>4. Start(w, "verify", 0, phases, todo, snap)
  BY DEF Verify
<1> HIDE DEF phases, todo, snap
<1> QED
  BY <1>1, <1>2, <1>3, <1>4, StartGood, PlanAssumption

(* The pay link plans no more than a move to processing.                    *)
LEMMA PayLinkGood ==
    ASSUME IInv, NEW w \in Worker, NEW s \in Seqs, PayLink(w, s)
    PROVE  IInv'
<1> DEFINE phases == <<"session", "rows">>
           todo == IF doc.rows[s].status = "processing" THEN {}
                   ELSE {Do(s, "processing", 0)}
<1>1. \A i \in todo : GoodItem(i, session)
  <2>1. GoodItem(Do(s, "processing", 0), session)
    BY DoGood, PlainKinds
  <2> QED
    BY <2>1
<1>2. GoodDoc(doc, session)
  BY DEF IInv, Stored
<1>3. phases \in Seq(Phase)
  BY DEF Phase
<1>4. Start(w, "paylink", s, phases, todo, doc)
  BY DEF PayLink
<1> HIDE DEF phases, todo
<1> QED
  BY <1>1, <1>2, <1>3, <1>4, StartGood

(* A button of the operator: one row operation on the stored document.      *)
LEMMA ButtonGood ==
    ASSUME IInv, NEW w \in Worker, NEW s \in Seqs, NEW op, NEW phases \in Seq(Phase),
           NEW do \in {"paid_manual", "waive", "postpone"}, NEW arg \in Nat,
           Start(w, op, s, phases, {Do(s, do, arg)}, doc)
    PROVE  IInv'
<1> DEFINE todo == {Do(s, do, arg)}
<1>1. GoodItem(Do(s, do, arg), session)
  BY DoGood, PlainKinds
<1>2. \A i \in todo : GoodItem(i, session)
  BY <1>1
<1>3. GoodDoc(doc, session)
  BY DEF IInv, Stored
<1>4. Start(w, op, s, phases, todo, doc)
  OBVIOUS
<1> HIDE DEF todo
<1> QED
  BY <1>2, <1>3, <1>4, StartGood

(* Mark paid by hand, waive and postpone keep IInv.                         *)
LEMMA ButtonsGood ==
    ASSUME IInv, NEW w \in Worker, NEW s \in Seqs,
           \/ MarkPaidManual(w, s)
           \/ Waive(w, s)
           \/ \E due \in Instants : Postpone(w, s, due)
    PROVE  IInv'
<1> DEFINE once == <<"rows">>
           mirrored == <<"rows", "mirror">>
<1>1. once \in Seq(Phase) /\ mirrored \in Seq(Phase)
  BY DEF Phase
<1>2. MarkPaidManual(w, s) =>
        Start(w, "paid_manual", s, mirrored, {Do(s, "paid_manual", 0)}, doc)
  BY DEF MarkPaidManual
<1>3. Waive(w, s) => Start(w, "waive", s, mirrored, {Do(s, "waive", 0)}, doc)
  BY DEF Waive
<1>4. ASSUME NEW due \in Instants, Postpone(w, s, due)
      PROVE  due \in Nat /\ Start(w, "postpone", s, once, {Do(s, "postpone", due)}, doc)
  BY <1>4, ScheduleAssumption DEF Postpone
<1> HIDE DEF once, mirrored
<1> QED
  BY <1>1, <1>2, <1>3, <1>4, ButtonGood

(* Settling, marking paid and marking unpaid start with no row operation.   *)
LEMMA SettlementsGood ==
    ASSUME IInv, NEW w \in Worker,
           \/ \E op \in Operations : Settle(w, op)
           \/ MarkOrderPaid(w)
           \/ MarkOrderUnpaid(w)
    PROVE  IInv'
<1> DEFINE snap == NewSchedule(FALSE)
           none == {}
<1>1. GoodDoc(snap, session) /\ GoodDoc(doc, session)
  BY NewScheduleGood DEF IInv, Stored
<1>2. \A i \in none : GoodItem(i, session)
  OBVIOUS
<1>3. ASSUME NEW op \in Operations, Settle(w, op)
      PROVE  \E phases \in Seq(Phase) : Start(w, op, 0, phases, none, snap)
  <2> DEFINE first == IF order.status = "draft" THEN <<"confirm">> ELSE <<>>
             middle == <<"collect", "read", "rows", "mirror">>
             last == IF op = "settle_full" THEN <<"paid">> ELSE <<>>
             phases == first \o middle \o last
  <2>1. <<>> \in Seq(Phase)
    OBVIOUS
  <2>2. <<"confirm">> \in Seq(Phase) /\ <<"paid">> \in Seq(Phase)
    BY DEF Phase
  <2>3. middle \in Seq(Phase)
    BY DEF Phase
  <2>4. first \in Seq(Phase) /\ last \in Seq(Phase)
    BY <2>1, <2>2
  <2>5. Start(w, op, 0, phases, none, snap)
    BY <1>3 DEF Settle
  <2> HIDE DEF first, middle, last
  <2>6. phases \in Seq(Phase)
    BY <2>3, <2>4
  <2> QED
    BY <2>5, <2>6
<1>4. ASSUME MarkOrderPaid(w)
      PROVE  \E phases \in Seq(Phase) : Start(w, "mark_paid", 0, phases, none, snap)
  <2>1. <<"paid", "read", "rows", "mirror">> \in Seq(Phase)
    BY DEF Phase
  <2> QED
    BY <1>4, <2>1 DEF MarkOrderPaid
<1>5. ASSUME MarkOrderUnpaid(w)
      PROVE  \E phases \in Seq(Phase) : Start(w, "mark_unpaid", 0, phases, none, doc)
  <2>1. <<"unpaid">> \in Seq(Phase)
    BY DEF Phase
  <2> QED
    BY <1>5, <2>1 DEF MarkOrderUnpaid
<1> HIDE DEF snap, none
<1> QED
  BY <1>1, <1>2, <1>3, <1>4, <1>5, StartGood, PlanAssumption

(* What plan_refund_distribution takes from a row is at most its amount.    *)
LEMMA SharesBounded ==
    ASSUME NEW rows, NEW refund_minor, NEW s \in Seqs
    PROVE  plan_refund_distribution(rows, refund_minor)[s] \in 0..amount[s]
BY PlanAssumption DEF plan_refund_distribution

(* refund_order plans for each row at most what was paid for it.            *)
LEMMA RefundGood ==
    ASSUME IInv, NEW w \in Worker, NEW op, NEW refund_minor,
           Refund(w, op, refund_minor)
    PROVE  IInv'
<1> DEFINE share == plan_refund_distribution(doc.rows, refund_minor)
           refunds == {Do(s, "refund", share[s]) : s \in {x \in Seqs : share[x] > 0}}
           cancels == {Do(s, "cancel", 0) :
                         s \in {x \in Seqs : doc.rows[x].status \in PAYABLE_STATES}}
<1>1. \A s \in Seqs : share[s] \in 0..amount[s]
  BY SharesBounded
<1>2. \A i \in refunds : GoodItem(i, session)
  <2> HIDE DEF share
  <2> TAKE i \in refunds
  <2>1. PICK s \in Seqs : i = Do(s, "refund", share[s])
    OBVIOUS
  <2>2. share[s] \in Nat /\ share[s] <= amount[s]
    BY <1>1, PlanAssumption
  <2>3. GoodItem(Do(s, "refund", share[s]), session)
    BY <2>2, DoGood DEF ItemKind, ReminderKind
  <2> QED
    BY <2>1, <2>3
<1>3. \A i \in cancels : GoodItem(i, session)
  <2> TAKE i \in cancels
  <2>1. PICK s \in Seqs : i = Do(s, "cancel", 0)
    OBVIOUS
  <2> QED
    BY <2>1, DoGood, PlainKinds
<1>4. GoodDoc(doc, session)
  BY DEF IInv, Stored
<1>5. <<"rows", "mirror", "cancel">> \in Seq(Phase) /\ <<"rows", "mirror">> \in Seq(Phase)
  BY DEF Phase
<1>6. \A i \in refunds \cup cancels : GoodItem(i, session)
  BY <1>2, <1>3
<1> HIDE DEF refunds, cancels
<1>7. \/ Start(w, op, 0, <<"rows", "mirror", "cancel">>, refunds \cup cancels, doc)
      \/ Start(w, op, 0, <<"rows", "mirror">>, refunds, doc)
  BY DEF Refund, refunds, cancels
<1> QED
  BY <1>2, <1>4, <1>5, <1>6, <1>7, StartGood, PlanAssumption

(* The planner only acts on rows of the kinds that may be dunned. *)
LEMMA PlannedGood ==
    ASSUME NEW rows, NEW i \in plan_dunning_actions(rows), NEW ses
    PROVE  GoodItem(i, ses)
<1>1. \A row : PlannedReminders(row) \subseteq ReminderKind
  BY DEF PlannedReminders, ReminderKind
<1>2. PICK s \in Seqs, do \in ReminderKind \cup {"overdue"} :
         i = Do(s, do, 0) /\ kind[s] \in DUNNABLE_KINDS
  BY <1>1 DEF plan_dunning_actions
<1> QED
  BY <1>2, DoGood DEF ItemKind, ReminderKind

(* The scan plans operations for the rows it may dun only.                  *)
LEMMA ScanGood ==
    ASSUME IInv, NEW w \in Worker, Scan(w)
    PROVE  IInv'
<1>1. \A i \in plan_dunning_actions(doc.rows) : GoodItem(i, session)
  BY PlannedGood
<1>2. GoodDoc(doc, session)
  BY DEF IInv, Stored
<1>3. <<"rows", "mirror">> \in Seq(Phase)
  BY DEF Phase
<1>4. starts' \in 0..MaxStarts
  BY DEF Scan, IInv, Counters
<1> QED
  BY <1>1, <1>2, <1>3, <1>4, BeginGood, PlanAssumption DEF Scan

-----------------------------------------------------------------------------
(* The phases outside the loop over rows. *)

(* The order stays well formed when an event is recorded.                   *)
LEMMA RecordedTyped ==
    ASSUME IInv, NEW w \in Worker
    PROVE  Recorded(w) \in SUBSET ({"webhook", "verify"} \X Seqs)
<1>1. task[w].seq \in Seqs
  BY DEF IInv, Tasks, GoodTask, TypedTask
<1>2. order.processed_events \in SUBSET ({"webhook", "verify"} \X Seqs)
  BY DEF IInv, World, OrderDoc
<1> QED
  BY <1>1, <1>2 DEF Recorded, Reconciling

(* Phases that write the order, or nothing, and end. *)
LEMMA OrderPhasesGood ==
    ASSUME IInv, NEW w \in Worker,
           \/ Collect(w)
           \/ Mirror(w)
           \/ Confirm(w)
           \/ CancelTheOrder(w)
           \/ StampPaid(w)
    PROVE  IInv'
<1>1. UNCHANGED <<doc, session, returned, mails, now, starts, crashes, overlapped>>
  BY DEF Collect, Mirror, Confirm, CancelTheOrder, StampPaid
<1>2. InFlight(w) /\ (EndPhase(w) \/ Stop(w))
  BY DEF Collect, Mirror, Confirm, CancelTheOrder, StampPaid, At
<1>3. Tasks'
  BY <1>1, <1>2, EndPhaseGood, StopGood DEF IInv
<1>4. order' \in OrderDoc
  <2>1. order \in OrderDoc
    BY DEF IInv, World
  <2>2. task[w].snap.payment_state \in PaymentState
    BY DEF IInv, Tasks, GoodTask, TypedTask, Typed
  <2>3. CASE Collect(w)
    BY <2>1, <2>3, RecordedTyped DEF Collect, OrderDoc
  <2>4. CASE Mirror(w)
    BY <2>1, <2>2, <2>4, RecordedTyped DEF Mirror, OrderDoc
  <2>5. CASE Confirm(w)
    BY <2>1, <2>5 DEF Confirm, OrderDoc
  <2>6. CASE CancelTheOrder(w)
    BY <2>1, <2>6 DEF CancelTheOrder, OrderDoc
  <2>7. CASE StampPaid(w)
    BY <2>1, <2>7 DEF StampPaid, OrderDoc
  <2> QED
    BY <2>3, <2>4, <2>5, <2>6, <2>7
<1>5. Stored' /\ Counters' /\ World'
  BY <1>1, <1>4 DEF IInv, Stored, Counters, RefundBacked, World
<1> QED
  BY <1>3, <1>5 DEF IInv

(* Reading the order chooses the phases and leaves the data alone.          *)
LEMMA ReadOrderGood ==
    ASSUME IInv, NEW w \in Worker, ReadOrder(w)
    PROVE  IInv'
<1> DEFINE t == [task[w] EXCEPT !.phases = Reconcile(task[w].op, task[w].seq)]
<1>1. GoodTask(task[w], session)
  BY DEF IInv, Tasks
<1>2. GoodTask(t, session)
  BY <1>1, ReconcilePhases DEF GoodTask, TypedTask
<1>3. Tasks'
  BY <1>2, ContinueGood DEF ReadOrder, IInv
<1> QED
  BY <1>3 DEF IInv, ReadOrder, Stored, Counters, RefundBacked, World

(* A settlement forgets the operations it had and takes those of the rows   *)
(* it has just read.                                                        *)
LEMMA ReadGood ==
    ASSUME IInv, NEW w \in Worker, Read(w)
    PROVE  IInv'
<1> DEFINE settled == {s \in Seqs : /\ doc.rows[s].status \in PAYABLE_STATES
                                    /\ task[w].op = "settle_deposit" => s = 0}
           todo == IF Reconciling(w) THEN task[w].todo
                   ELSE {Do(s, "paid_manual", 0) : s \in settled}
           t == [task[w] EXCEPT !.phases = Tail(@), !.todo = todo, !.snap = doc]
<1>1. GoodTask(task[w], session)
  BY DEF IInv, Tasks
<1>2. \A i \in todo : GoodItem(i, session)
  <2>1. \A s \in Seqs : GoodItem(Do(s, "paid_manual", 0), session)
    BY DoGood, PlainKinds
  <2> QED
    BY <1>1, <2>1 DEF GoodTask
<1>3. GoodDoc(doc, session) /\ Typed(doc)
  BY ScheduleTyped DEF IInv, Stored, GoodDoc, GoodRows
<1>4. Tail(task[w].phases) \in Seq(Phase)
  BY <1>1 DEF Read, At, InFlight, GoodTask, TypedTask
<1>5. GoodTask(t, session)
  <2> HIDE DEF todo
  <2> QED
    BY <1>1, <1>2, <1>3, <1>4 DEF GoodTask, TypedTask, GoodItem
<1>6. Continue(w, t) /\ UNCHANGED <<doc, order, session, returned, mails, now, starts, crashes, overlapped>>
  BY DEF Read
<1> HIDE DEF t
<1>7. Tasks'
  BY <1>5, <1>6, ContinueGood DEF IInv
<1> QED
  BY <1>6, <1>7 DEF IInv, Stored, Counters, RefundBacked, World

(* Sessions only move from none to open and from open to paid. *)
LEMMA SessionMoves ==
    ASSUME IInv, session' \in [Seqs -> {"none", "open", "paid"}],
           \A s \in Seqs : session[s] = "paid" => session'[s] = "paid",
           UNCHANGED <<doc, order, returned, mails, now, starts, crashes, overlapped>>
    PROVE  Stored' /\ Counters' /\ World'
<1>1. Stored'
  BY AgeingGood DEF IInv, Stored
<1> QED
  BY <1>1 DEF IInv, Counters, RefundBacked, World

(* Opening a Checkout Session takes no paid session back.                   *)
LEMMA OpenSessionGood ==
    ASSUME IInv, NEW w \in Worker, OpenSession(w)
    PROVE  IInv'
<1> DEFINE t == [task[w] EXCEPT !.phases = Tail(@)]
<1>1. task[w].seq \in Seqs
  BY DEF IInv, Tasks, GoodTask, TypedTask
<1>2. /\ session' \in [Seqs -> {"none", "open", "paid"}]
      /\ \A s \in Seqs : session[s] = "paid" => session'[s] = "paid"
  BY <1>1 DEF OpenSession, IInv, World
<1>3. Stored' /\ Counters' /\ World'
  BY <1>2, SessionMoves DEF OpenSession
<1>4. \A v \in Worker : GoodTask(task[v], session')
  BY <1>2, AgeingGood DEF IInv, Tasks
<1>5. GoodTask(t, session')
  BY <1>4, TailGood DEF OpenSession, At, InFlight
<1>6. GoodTask(Settled(t), session')
  BY <1>5, SettledGood
<1>7. task' = [task EXCEPT ![w] = Settled(t)]
  BY DEF OpenSession, EndPhase, Continue
<1>8. Tasks'
  <2> HIDE DEF t
  <2> QED
    BY <1>4, <1>6, <1>7 DEF IInv, Tasks
<1> QED
  BY <1>3, <1>8 DEF IInv

(* A payment on Stripe makes a session paid, which every old copy survives. *)
LEMMA CustomerPaysGood ==
    ASSUME IInv, NEW s \in Seqs, CustomerPays(s)
    PROVE  IInv'
<1>1. /\ session' \in [Seqs -> {"none", "open", "paid"}]
      /\ \A r \in Seqs : session[r] = "paid" => session'[r] = "paid"
  BY DEF CustomerPays, IInv, World
<1>2. Stored' /\ Counters' /\ World'
  BY <1>1, SessionMoves DEF CustomerPays
<1>3. Tasks'
  BY <1>1, AgeingGood DEF IInv, Tasks, CustomerPays
<1> QED
  BY <1>2, <1>3 DEF IInv

-----------------------------------------------------------------------------
(* The loop over rows. *)

(* A new due date with a fresh list of reminders. *)
LEMMA PostponedTyped ==
    ASSUME NEW r \in ScheduleRow, NEW due \in Nat
    PROVE  /\ [r EXCEPT !.due_at = due, !.reminders_sent = {}] \in ScheduleRow
           /\ [r EXCEPT !.due_at = due, !.reminders_sent = {}].status = r.status
           /\ [r EXCEPT !.due_at = due, !.reminders_sent = {}].paid_at = r.paid_at
           /\ [r EXCEPT !.due_at = due, !.reminders_sent = {}].refund = r.refund
<1>1. [r EXCEPT !.due_at = due] \in ScheduleRow
  BY DEF ScheduleRow
<1>2. \A x \in ScheduleRow : [x EXCEPT !.reminders_sent = {}] \in ScheduleRow
  BY DEF ScheduleRow
<1>3. [r EXCEPT !.due_at = due, !.reminders_sent = {}]
        = [[r EXCEPT !.due_at = due] EXCEPT !.reminders_sent = {}]
  BY DEF ScheduleRow
<1> QED
  BY <1>1, <1>2, <1>3 DEF ScheduleRow

(* The fields a transition carries keep the row well formed.                *)
LEMMA RowUpdatesTyped ==
    ASSUME NEW r \in ScheduleRow, NEW i, i.arg \in Nat
    PROVE  row_updates(r, i) \in ScheduleRow
<1>1. [r EXCEPT !.due_at = i.arg, !.reminders_sent = {}] \in ScheduleRow
  BY PostponedTyped
<1>2. [r EXCEPT !.refund = i.arg] \in ScheduleRow
  BY DEF ScheduleRow
<1> QED
  BY <1>1, <1>2 DEF row_updates

(* apply_row_transition on a good copy: the document it writes is good.     *)
LEMMA WrittenGood ==
    ASSUME Tasks, NEW w \in Worker, NEW i \in task[w].todo, i.do \in DOMAIN NewStatus
    PROVE  GoodDoc(Written(w, i), session)
<1> DEFINE rows == task[w].snap.rows
           row == Moved(row_updates(rows[i.seq], i), NewStatus[i.do])
           new == [rows EXCEPT ![i.seq] = row]
<1>1. GoodRows(rows, session) /\ GoodItem(i, session)
  BY DEF Tasks, GoodTask, GoodDoc
<1>2. i.seq \in Seqs /\ i.arg \in Nat /\ rows[i.seq] \in ScheduleRow
  BY <1>1 DEF GoodItem, Item, GoodRows
<1>3. NewStatus[i.do] \in RowStatus
  BY DEF NewStatus, RowStatus
<1>4. row \in ScheduleRow /\ row.status = NewStatus[i.do]
  <2>1. row_updates(rows[i.seq], i) \in ScheduleRow
    BY <1>2, RowUpdatesTyped
  <2> QED
    BY <1>3, <2>1 DEF Moved, ScheduleRow
<1>5. /\ NewStatus[i.do] = "paid" => session[i.seq] = "paid"
      /\ kind[i.seq] \notin DUNNABLE_KINDS =>
            NewStatus[i.do] \notin {"overdue", "at_risk"}
  BY <1>1 DEF NewStatus, GoodItem
<1> HIDE DEF rows, row
<1>6. GoodRows(new, session)
  BY <1>1, <1>2, <1>4, <1>5 DEF GoodRows
<1>7. GoodDoc(Schedule(new), session)
  BY <1>6, GoodSchedule
<1> QED
  BY <1>7 DEF Written, rows, row

(* A new due date takes the count of its row back to none.                  *)
LEMMA ResetMailsGood ==
    ASSUME IInv, NEW i, i.seq \in Seqs, ResetMails(i)
    PROVE  /\ mails' \in [Seqs -> [ReminderKind -> Nat]]
           /\ \A s \in Seqs : kind[s] \notin DUNNABLE_KINDS =>
                \A k \in ReminderKind : mails'[s][k] = 0
<1> DEFINE none == [k \in ReminderKind |-> 0]
<1>1. none \in [ReminderKind -> Nat] /\ \A k \in ReminderKind : none[k] = 0
  OBVIOUS
<1>2. mails' = [mails EXCEPT ![i.seq] = none] \/ mails' = mails
  BY DEF ResetMails
<1> HIDE DEF none
<1> QED
  BY <1>1, <1>2 DEF IInv, Counters

(* Any transition, on any copy, keeps IInv.                                 *)
LEMMA MoveRowGood ==
    ASSUME IInv, NEW w \in Worker, NEW i \in task[w].todo, MoveRow(w, i)
    PROVE  IInv'
<1>1. Tasks /\ GoodDoc(task[w].snap, session) /\ i.seq \in Seqs
  BY DEF IInv, Tasks, GoodTask, GoodItem, Item
<1>2. GoodDoc(Written(w, i), session)
  BY <1>1, WrittenGood DEF MoveRow
<1>3. UNCHANGED <<order, session, returned, now, starts, crashes, overlapped>>
  BY DEF MoveRow
<1>4. CASE Accepted(w, i)
  <2>1. doc' = Written(w, i) /\ ResetMails(i) /\ Finish(w, i, Written(w, i))
    BY <1>4 DEF MoveRow, apply_row_transition
  <2>2. Tasks'
    BY <1>1, <1>2, <1>3, <2>1, FinishGood
  <2>3. Stored'
    BY <1>2, <1>3, <2>1 DEF Stored
  <2>4. Counters' /\ World'
    BY <1>1, <1>3, <2>1, ResetMailsGood DEF IInv, Counters, RefundBacked, World
  <2> QED
    BY <2>2, <2>3, <2>4 DEF IInv
<1>5. CASE ~Accepted(w, i)
  <2>1. /\ UNCHANGED <<doc, mails>>
        /\ Stop(w) \/ Finish(w, i, task[w].snap)
    BY <1>5 DEF MoveRow, apply_row_transition
  <2>2. Tasks'
    BY <1>1, <1>3, <2>1, StopGood, FinishGood
  <2> QED
    BY <1>3, <2>1, <2>2 DEF IInv, Stored, Counters, RefundBacked, World
<1> QED
  BY <1>4, <1>5

(* A targeted update of due date and marks leaves a good document good.     *)
LEMMA TargetedGood ==
    ASSUME NEW ses, NEW new \in [Seqs -> ScheduleRow], GoodDoc(doc, ses),
           \A s \in Seqs : /\ new[s].status = doc.rows[s].status
                           /\ new[s].paid_at = doc.rows[s].paid_at
                           /\ new[s].refund = doc.rows[s].refund,
           doc' = [doc EXCEPT !.rows = new]
    PROVE  GoodDoc(doc', ses)
<1> DEFINE rows == doc.rows
<1>1. rows \in [Seqs -> ScheduleRow]
  BY DEF GoodDoc, GoodRows
<1>2. GoodRows(new, ses)
  BY DEF GoodDoc, GoodRows
<1>3. doc = [rows |-> rows, totals |-> compute_totals(rows),
             payment_state |-> derive_payment_state(rows)]
  BY DEF GoodDoc, Schedule
<1>4. /\ compute_totals(new) = compute_totals(rows)
      /\ derive_payment_state(new) = derive_payment_state(rows)
  BY <1>1, TargetedUpdate
<1> HIDE DEF rows
<1>5. doc' = [rows |-> new, totals |-> compute_totals(rows),
              payment_state |-> derive_payment_state(rows)]
  BY <1>3
<1>6. doc' = Schedule(new) /\ doc'.rows = new
  BY <1>4, <1>5 DEF Schedule
<1> QED
  BY <1>2, <1>6 DEF GoodDoc

(* Postponing a pending row, a targeted update, keeps IInv.                 *)
LEMMA PostponePendingGood ==
    ASSUME IInv, NEW w \in Worker, NEW i \in task[w].todo, PostponePending(w, i)
    PROVE  IInv'
<1> DEFINE row == [doc.rows[i.seq] EXCEPT !.due_at = i.arg, !.reminders_sent = {}]
           new == [doc.rows EXCEPT ![i.seq] = row]
<1>1. /\ Tasks /\ GoodDoc(task[w].snap, session) /\ GoodDoc(doc, session)
      /\ i.seq \in Seqs /\ i.arg \in Nat
  BY DEF IInv, Tasks, GoodTask, GoodItem, Item, Stored
<1>2. doc.rows \in [Seqs -> ScheduleRow] /\ doc.rows[i.seq] \in ScheduleRow
  BY <1>1 DEF GoodDoc, GoodRows
<1>3. /\ row \in ScheduleRow
      /\ row.status = doc.rows[i.seq].status
      /\ row.paid_at = doc.rows[i.seq].paid_at
      /\ row.refund = doc.rows[i.seq].refund
  BY <1>1, <1>2, PostponedTyped
<1>4. UNCHANGED <<order, session, returned, now, starts, crashes, overlapped>>
  BY DEF PostponePending
<1>5. doc' = [doc EXCEPT !.rows = new]
  BY DEF PostponePending
<1> HIDE DEF row
<1>6. GoodDoc(doc', session)
  BY <1>1, <1>2, <1>3, <1>5, TargetedGood
<1>7. Tasks'
  BY <1>1, <1>4, FinishGood DEF PostponePending
<1> QED
  BY <1>1, <1>4, <1>6, <1>7, ResetMailsGood
  DEF PostponePending, IInv, Stored, Counters, RefundBacked, World

(* The write-ahead mark, a targeted update, keeps IInv.                     *)
LEMMA MarkReminderGood ==
    ASSUME IInv, NEW w \in Worker, NEW i \in task[w].todo, MarkReminder(w, i)
    PROVE  IInv'
<1> DEFINE row == [doc.rows[i.seq] EXCEPT
                     !.reminders_sent = doc.rows[i.seq].reminders_sent \cup {i.do}]
           new == [doc.rows EXCEPT ![i.seq] = row]
           items == {Marked(i)} \cup
                      (IF i.do = "t+7" THEN {Do(i.seq, "at_risk", 0)} ELSE {})
<1>1. /\ Tasks /\ GoodDoc(task[w].snap, session) /\ GoodDoc(doc, session)
      /\ GoodItem(i, session) /\ i \in Item /\ i.seq \in Seqs
  BY DEF IInv, Tasks, GoodTask, GoodItem, Item, Stored
<1>2. doc.rows \in [Seqs -> ScheduleRow] /\ doc.rows[i.seq] \in ScheduleRow
  BY <1>1 DEF GoodDoc, GoodRows
<1>3. UNCHANGED <<order, session, returned, mails, now, starts, crashes, overlapped>>
  BY DEF MarkReminder
<1>4. i.do \in ReminderKind /\ kind[i.seq] \in DUNNABLE_KINDS
  BY <1>1 DEF MarkReminder, GoodItem
<1>5. \A j \in items : GoodItem(j, session)
  <2>1. GoodItem(Marked(i), session)
    BY <1>1 DEF Marked, GoodItem, Item
  <2>2. GoodItem(Do(i.seq, "at_risk", 0), session)
    BY <1>1, <1>4, DoGood DEF ItemKind
  <2> QED
    BY <2>1, <2>2
<1>6. CASE i.do \in doc.rows[i.seq].reminders_sent
  <2>1. Finish(w, i, task[w].snap) /\ UNCHANGED doc
    BY <1>6 DEF MarkReminder
  <2>2. Tasks'
    BY <1>1, <1>3, <2>1, FinishGood
  <2> QED
    BY <1>3, <2>1, <2>2 DEF IInv, Stored, Counters, RefundBacked, World
<1>7. CASE i.do \notin doc.rows[i.seq].reminders_sent
  <2>1. doc' = [doc EXCEPT !.rows = new] /\ Replace(w, i, items)
    BY <1>7 DEF MarkReminder
  <2>2. /\ row \in ScheduleRow
        /\ row.status = doc.rows[i.seq].status
        /\ row.paid_at = doc.rows[i.seq].paid_at
        /\ row.refund = doc.rows[i.seq].refund
    BY <1>2, <1>4 DEF ScheduleRow
  <2> HIDE DEF row, items
  <2>3. GoodDoc(doc', session)
    BY <1>1, <1>2, <2>1, <2>2, TargetedGood
  <2>4. Tasks'
    BY <1>1, <1>3, <1>5, <2>1, ReplaceGood
  <2> QED
    BY <1>3, <2>3, <2>4 DEF IInv, Stored, Counters, RefundBacked, World
<1> QED
  BY <1>6, <1>7

(* A mail goes out for a row that may be dunned only.                       *)
LEMMA MailReminderGood ==
    ASSUME IInv, NEW w \in Worker, NEW i \in task[w].todo, MailReminder(w, i)
    PROVE  IInv'
<1>1. /\ Tasks /\ GoodDoc(task[w].snap, session) /\ GoodItem(i, session)
      /\ i.seq \in Seqs
  BY DEF IInv, Tasks, GoodTask, GoodItem, Item
<1>2. i.do \in ReminderKind /\ kind[i.seq] \in DUNNABLE_KINDS
  BY <1>1 DEF MailReminder, GoodItem
<1>3. /\ mails' \in [Seqs -> [ReminderKind -> Nat]]
      /\ \A s \in Seqs : s # i.seq => mails'[s] = mails[s]
  <2> DEFINE sent == [mails[i.seq] EXCEPT ![i.do] = mails[i.seq][i.do] + 1]
  <2>1. mails \in [Seqs -> [ReminderKind -> Nat]]
    BY DEF IInv, Counters
  <2>2. sent \in [ReminderKind -> Nat]
    BY <1>1, <1>2, <2>1
  <2>3. mails' = [mails EXCEPT ![i.seq] = sent]
    BY DEF MailReminder
  <2> HIDE DEF sent
  <2> QED
    BY <2>1, <2>2, <2>3
<1>4. Tasks'
  BY <1>1, FinishGood DEF MailReminder
<1> QED
  BY <1>2, <1>3, <1>4
  DEF MailReminder, IInv, Stored, Counters, RefundBacked, World

(* One refund per row and session on Stripe: no more than was paid.         *)
LEMMA StripeRefundGood ==
    ASSUME IInv, NEW w \in Worker, NEW i \in task[w].todo, StripeRefund(w, i)
    PROVE  IInv'
<1>1. /\ Tasks /\ GoodDoc(task[w].snap, session) /\ GoodItem(i, session)
      /\ i.seq \in Seqs /\ i.arg \in Nat
  BY DEF IInv, Tasks, GoodTask, GoodItem, Item
<1>2. session[i.seq] = "paid" /\ i.arg <= amount[i.seq]
  BY <1>1 DEF StripeRefund, GoodDoc, GoodRows, GoodItem
<1>3. UNCHANGED <<doc, order, session, mails, now, starts, crashes, overlapped>>
  BY DEF StripeRefund
<1>4. GoodItem(Marked(i), session)
  BY <1>1 DEF Marked, GoodItem, Item
<1>5. Tasks'
  BY <1>1, <1>3, <1>4, ReplaceGood, StopGood DEF StripeRefund
<1>6. returned' \in [Seqs -> Nat] /\ RefundBacked'
  <2>1. returned \in [Seqs -> Nat] /\ RefundBacked
    BY DEF IInv, Counters
  <2>2. returned' = returned \/ returned' = [returned EXCEPT ![i.seq] = i.arg]
    BY DEF StripeRefund
  <2> QED
    BY <1>1, <1>2, <1>3, <2>1, <2>2 DEF RefundBacked
<1> QED
  BY <1>3, <1>5, <1>6 DEF IInv, Stored, Counters, World

(* Every step of a row operation keeps IInv.                                *)
LEMMA RowStepGood ==
    ASSUME IInv, NEW w \in Worker, RowStep(w)
    PROVE  IInv'
BY MoveRowGood, PostponePendingGood, StripeRefundGood, MarkReminderGood,
   MailReminderGood DEF RowStep

-----------------------------------------------------------------------------
(* The steps of people, of time and of restarts. *)

(* The operator's steps on the order leave the schedule alone.              *)
LEMMA OperatorGood ==
    ASSUME IInv, OperatorCancels \/ OperatorConfirms \/ OperatorCompletes
    PROVE  IInv'
<1>1. UNCHANGED <<doc, session, returned, mails, now, task, crashes, overlapped>>
  BY DEF OperatorCancels, OperatorConfirms, OperatorCompletes
<1>2. order' \in OrderDoc
  BY DEF IInv, World, OrderDoc, OperatorCancels, OperatorConfirms, OperatorCompletes
<1>3. starts' \in 0..MaxStarts
  BY ScheduleAssumption
  DEF IInv, Counters, OperatorCancels, OperatorConfirms, OperatorCompletes
<1> QED
  BY <1>1, <1>2, <1>3 DEF IInv, Tasks, Stored, Counters, RefundBacked, World

(* The clock changes nothing but the time.                                  *)
LEMMA TickGood ==
    ASSUME IInv, Tick
    PROVE  IInv'
<1>1. now' \in Nat
  BY ScheduleAssumption DEF Tick
<1> QED
  BY <1>1 DEF Tick, IInv, Tasks, Stored, Counters, RefundBacked, World

(* A restart ends every handler and loses nothing stored.                   *)
LEMMA CrashGood ==
    ASSUME IInv, NEW w \in Worker, Crash(w)
    PROVE  IInv'
<1>1. crashes' \in 0..MaxCrashes
  BY ScheduleAssumption DEF Crash, IInv, Counters
<1>2. Tasks'
  BY StopGood DEF Crash, IInv
<1> QED
  BY <1>1, <1>2 DEF Crash, IInv, Stored, Counters, RefundBacked, World

-----------------------------------------------------------------------------
(* The invariant. *)

(* IInv holds of the order as checkout leaves it.                           *)
LEMMA InitGood == Init => IInv
<1> SUFFICES ASSUME Init PROVE IInv
  OBVIOUS
<1>1. PICK online \in BOOLEAN :
        /\ doc = NewSchedule(online)
        /\ order = [status |-> "draft", reference |-> online,
                    payment_intent |-> IF online THEN "required" ELSE "none",
                    payment_state |-> "none", payment_status |-> "pending",
                    processed_events |-> {}]
        /\ session = [s \in Seqs |-> IF s = 0 /\ online THEN "open" ELSE "none"]
  BY DEF Init
<1>2. Stored
  BY <1>1, NewScheduleGood DEF Stored
<1>3. World
  BY <1>1 DEF World, OrderDoc, PaymentState
<1>4. Tasks
  BY IdleGood DEF Init, Tasks
<1>5. Counters
  <2>1. overlapped \in BOOLEAN
    BY DEF Init
  <2>2. starts \in 0..MaxStarts /\ crashes \in 0..MaxCrashes
    BY ScheduleAssumption DEF Init
  <2> QED
    BY <2>1, <2>2 DEF Init, Counters, RefundBacked
<1> QED
  BY <1>2, <1>3, <1>4, <1>5 DEF IInv

(* Every request that starts a handler keeps IInv.                          *)
LEMMA RequestGood ==
    ASSUME IInv, NEW w \in Worker, Request(w)
    PROVE  IInv'
BY PayLinkGood, ButtonsGood, SettlementsGood, VerifyGood, RefundGood DEF Request

(* Every step of a running handler keeps IInv.                              *)
LEMMA StepGood ==
    ASSUME IInv, NEW w \in Worker, Step(w)
    PROVE  IInv'
BY ReadOrderGood, OrderPhasesGood, ReadGood, OpenSessionGood, RowStepGood DEF Step

(* IInv is inductive.                                                       *)
LEMMA NextGood == IInv /\ [Next]_vars => IInv'
<1> SUFFICES ASSUME IInv, [Next]_vars PROVE IInv'
  OBVIOUS
<1>1. ASSUME NEW w \in Worker, Request(w) PROVE IInv'
  BY <1>1, RequestGood
<1>2. ASSUME NEW w \in Worker, Scan(w) PROVE IInv'
  BY <1>2, ScanGood
<1>3. ASSUME NEW w \in Worker, Step(w) PROVE IInv'
  BY <1>3, StepGood
<1>4. ASSUME NEW w \in Worker, Crash(w) PROVE IInv'
  BY <1>4, CrashGood
<1>5. ASSUME NEW w \in Worker, NEW s \in Seqs, Webhook(w, s) PROVE IInv'
  BY <1>5, WebhookGood
<1>6. ASSUME NEW s \in Seqs, CustomerPays(s) PROVE IInv'
  BY <1>6, CustomerPaysGood
<1>7. CASE OperatorCancels \/ OperatorConfirms \/ OperatorCompletes
  BY <1>7, OperatorGood
<1>8. CASE Tick
  BY <1>8, TickGood
<1>9. CASE UNCHANGED vars
  BY <1>9 DEF vars, IInv, Tasks, Stored, Counters, RefundBacked, World
<1> QED
  BY <1>1, <1>2, <1>3, <1>4, <1>5, <1>6, <1>7, <1>8, <1>9 DEF Next

(* The inductive invariant holds of every reachable state.                  *)
THEOREM Invariance == Spec => []IInv
BY InitGood, NextGood, PTL DEF Spec

-----------------------------------------------------------------------------
(* The stored documents are well formed, and so is the copy of every        *)
(* handler in flight, whatever apply_row_transition and the targeted        *)
(* updates of the dunning scan did in between.                              *)
THEOREM TypeCorrect == Spec => []TypeOK
<1>1. IInv => TypeOK
  <2> SUFFICES ASSUME IInv PROVE TypeOK
    OBVIOUS
  <2>1. Typed(doc)
    BY ScheduleTyped DEF IInv, Stored, GoodDoc, GoodRows
  <2>2. DOMAIN task = Worker /\ \A w \in Worker : TypedTask(task[w])
    BY DEF IInv, Tasks, GoodTask
  <2> QED
    BY <2>1, <2>2 DEF IInv, Counters, World, TypeOK
<1> QED
  BY <1>1, Invariance, PTL

(* Totals and payment_state of the stored document are always the ones      *)
(* compute_totals and derive_payment_state give for its rows.               *)
THEOREM AlwaysDerived == Spec => []DerivedFromRows
<1>1. IInv => DerivedFromRows
  BY DEF IInv, Stored, GoodDoc, DerivedFromRows
<1> QED
  BY <1>1, Invariance, PTL

(* A row shows PAID only if the Checkout Session of that row was paid,      *)
(* however stale the copy that wrote it.                                    *)
THEOREM PaidIsCharged == Spec => []PaidMeansCharged
<1>1. IInv => PaidMeansCharged
  BY DEF IInv, Stored, GoodDoc, GoodRows, PaidMeansCharged
<1> QED
  BY <1>1, Invariance, PTL

(* Stripe never gives back more than it collected for a row, whatever       *)
(* refunds race on it.                                                      *)
THEOREM RefundsAreBacked == Spec => []RefundBacked
<1>1. IInv => RefundBacked
  BY DEF IInv, Counters
<1> QED
  BY <1>1, Invariance, PTL

(* The dunning job never marks, moves or mails a deposit.                   *)
THEOREM DepositIsLeftAlone == Spec => []DepositNeverDunned
<1>1. IInv => DepositNeverDunned
  BY DEF IInv, Stored, Counters, GoodDoc, GoodRows, DepositNeverDunned
<1> QED
  BY <1>1, Invariance, PTL

-----------------------------------------------------------------------------
(***************************************************************************)
(* As long as handlers come one after another: the rows implement the      *)
(* abstract ledger, and unless one was killed the order mirrors the        *)
(* schedule, refunds are on record, and a settled order has no row open.   *)
(*                                                                         *)
(* Everything rests on Fresh: once a handler alone in flight has read the  *)
(* schedule, its copy shows every row with the status, the payment stamp   *)
(* and the refund of the stored row, so the guard of its write, which only *)
(* looks at the status of the row it moves, never fails and never lets an  *)
(* old row back in.  With two handlers Fresh is false, and so are the four *)
(* properties; overlapped is what the invariant knows of that.             *)
(***************************************************************************)

(* No other handler is in flight. *)
Alone(w) == \A v \in Worker : v # w => task[v] = Idle

-----------------------------------------------------------------------------
(* What is left of a handler's script.                                      *)

Has(p, phase) == \E k \in 1..Len(p) : p[k] = phase

Before(p, first, second) ==
    \A j, k \in 1..Len(p) : p[j] = first /\ p[k] = second => j < k

(* The handler has not read the schedule yet. *)
Unread(p) == Has(p, "order") \/ Has(p, "read")

RefundOps == {"refund", "refund_keep"}

(* The operations that work on the document their request has read. *)
Targeted == Buttons \cup RefundOps \cup {"paylink"}

(* The order of the phases, as far as the properties depend on it. *)
Script(t) ==
    LET p == t.phases
    IN  /\ \A a \in {"order", "read"}, b \in {"rows", "mirror"} : Before(p, a, b)
        /\ Before(p, "rows", "mirror")
        /\ Before(p, "confirm", "paid")
        /\ Has(p, "order") => t.op = "verify"
        /\ t.op \in Targeted => ~Unread(p)
        /\ Has(p, "read") => Has(p, "rows")
        /\ Has(p, "rows") => Has(p, "mirror") \/ t.op \in {"paylink", "postpone"}
        /\ Has(p, "confirm") => \/ Before(p, "mirror", "confirm")
                                \/ Before(p, "confirm", "read") /\ Has(p, "read")
        /\ Has(p, "paid") => \/ t.op = "mark_paid"
                             \/ /\ t.op = "settle_full"
                                /\ Before(p, "read", "paid") /\ Before(p, "rows", "paid")

(* The row operations of a handler: a targeted one has one per row, and a   *)
(* button only what its copy allows.                                        *)
Deeds(t) ==
    /\ \A i \in t.todo : /\ i.marked => t.phases # <<>> /\ Head(t.phases) = "rows"
                         /\ i.do = "refund" => t.op \in RefundOps
    /\ t.op = "paylink" => \A i \in t.todo : i.do = "processing"
    /\ t.op = "postpone" => \A i \in t.todo : i.do = "postpone"
    /\ t.op \in RefundOps => \A i \in t.todo : i.do \in {"refund", "cancel"}
    /\ t.op \in Buttons => \A i \in t.todo :
            LET status == t.snap.rows[i.seq].status
            IN  /\ i.do \in Buttons
                /\ \/ NewStatus[i.do] \in ALLOWED_TRANSITIONS[status]
                   \/ i.do = "postpone" /\ status = "pending"
    /\ t.op \in Targeted => \A i, j \in t.todo : i.seq = j.seq => i = j

(* Two copies that differ in due dates and reminder marks at most. *)
Agree(rows, other) ==
    \A s \in Seqs : /\ rows[s].status = other[s].status
                    /\ rows[s].paid_at = other[s].paid_at
                    /\ rows[s].refund = other[s].refund

Fresh(t, d) == t.phases = <<>> \/ Unread(t.phases) \/ Agree(t.snap.rows, d.rows)

SerialTask(t, d) == Script(t) /\ Deeds(t) /\ Fresh(t, d)

Serial == \A w \in Worker : SerialTask(task[w], doc)

-----------------------------------------------------------------------------
(* What the order and Stripe know, when no handler is killed half way.      *)

Mirrored ==
    order.payment_state # doc.payment_state =>
        \E w \in Worker : /\ Has(task[w].phases, "mirror")
                          /\ ~Unread(task[w].phases)

GivenBack(t, s, m) == \E i \in t.todo : /\ i.do = "refund" /\ i.seq = s
                                        /\ i.marked /\ i.arg = m

Returned ==
    \A s \in Seqs : returned[s] > 0 =>
        \/ doc.rows[s].status = "refunded" /\ doc.rows[s].refund = returned[s]
        \/ /\ doc.rows[s].status = "paid"
           /\ \E w \in Worker : GivenBack(task[w], s, returned[s])

Stamped ==
    /\ order.payment_status = "paid" => order.status # "draft"
    /\ order.status = "draft" => \A w \in Worker :
            Has(task[w].phases, "paid") => Has(task[w].phases, "confirm")

NoneOpen(d) == \A s \in Seqs : d.rows[s].status \notin PAYABLE_STATES

Settlements == {"mark_paid", "settle_full"}

(* A settlement of the whole order has its rows to read, or to mark.        *)
Closing(t, d) ==
    \/ NoneOpen(d)
    \/ Has(t.phases, "read")
    \/ /\ Has(t.phases, "rows")
       /\ \A s \in Seqs : d.rows[s].status \in PAYABLE_STATES =>
                Do(s, "paid_manual", 0) \in t.todo

Settling ==
    /\ \A w \in Worker : InFlight(w) /\ task[w].op \in Settlements =>
            Closing(task[w], doc)
    /\ order.status = "confirmed" /\ order.payment_status = "paid" =>
            \/ NoneOpen(doc)
            \/ \E w \in Worker : InFlight(w) /\ task[w].op = "mark_paid"

Kept == Mirrored /\ Returned /\ Stamped /\ Settling

-----------------------------------------------------------------------------
(* Lists of phases. *)

(* What the rest of a script holds, and what running its head removes.      *)
LEMMA TailHas ==
    ASSUME NEW p \in Seq(Phase), p # <<>>, NEW a
    PROVE  Has(p, a) <=> Head(p) = a \/ Has(Tail(p), a)
<1>1. Len(p) \in Nat /\ Len(p) >= 1 /\ Len(Tail(p)) = Len(p) - 1 /\ Head(p) = p[1]
  OBVIOUS
<1>2. \A k \in 1..Len(Tail(p)) : Tail(p)[k] = p[k + 1]
  OBVIOUS
<1>3. ASSUME Has(p, a), Head(p) # a PROVE Has(Tail(p), a)
  <2>1. PICK k \in 1..Len(p) : p[k] = a
    BY <1>3 DEF Has
  <2>2. k # 1 /\ k - 1 \in 1..Len(Tail(p)) /\ (k - 1) + 1 = k
    BY <1>1, <1>3, <2>1
  <2>3. Tail(p)[k - 1] = a
    BY <1>2, <2>1, <2>2
  <2> QED
    BY <2>2, <2>3 DEF Has
<1>4. ASSUME Has(Tail(p), a) PROVE Has(p, a)
  <2>1. PICK k \in 1..Len(Tail(p)) : Tail(p)[k] = a
    BY <1>4 DEF Has
  <2>2. k + 1 \in 1..Len(p) /\ p[k + 1] = a
    BY <1>1, <1>2, <2>1
  <2> QED
    BY <2>2 DEF Has
<1>5. Head(p) = a => Has(p, a)
  BY <1>1 DEF Has
<1> QED
  BY <1>3, <1>4, <1>5

(* Running the head of a script keeps the order of the rest.                *)
LEMMA TailBefore ==
    ASSUME NEW p \in Seq(Phase), p # <<>>, NEW a, NEW b, Before(p, a, b)
    PROVE  Before(Tail(p), a, b)
<1> SUFFICES ASSUME NEW j \in 1..Len(Tail(p)), NEW k \in 1..Len(Tail(p)),
                    Tail(p)[j] = a, Tail(p)[k] = b
             PROVE  j < k
  BY DEF Before
<1>1. Tail(p)[j] = p[j + 1] /\ Tail(p)[k] = p[k + 1]
  OBVIOUS
<1>2. Len(p) \in Nat /\ Len(Tail(p)) = Len(p) - 1
  OBVIOUS
<1>3. j + 1 \in 1..Len(p) /\ k + 1 \in 1..Len(p)
  BY <1>2
<1>4. j + 1 < k + 1
  BY <1>1, <1>3 DEF Before
<1> QED
  BY <1>4

(* What has to come before the head of a script is over.                    *)
LEMMA HeadBefore ==
    ASSUME NEW p \in Seq(Phase), p # <<>>, NEW a, Before(p, a, Head(p))
    PROVE  ~Has(p, a)
<1>1. Len(p) \in Nat /\ 1 \in 1..Len(p) /\ p[1] = Head(p)
  OBVIOUS
<1> QED
  BY <1>1 DEF Has, Before

(* A script that keeps to the order keeps to it when its head is run.       *)
LEMMA ScriptTail ==
    ASSUME NEW t, NEW u, t.phases \in Seq(Phase), t.phases # <<>>,
           u.op = t.op, u.phases = Tail(t.phases), Script(t)
    PROVE  Script(u)
<1> DEFINE p == t.phases
           q == Tail(p)
<1>1. \A a : Has(p, a) <=> Head(p) = a \/ Has(q, a)
  BY TailHas
<1>2. \A a, b : Before(p, a, b) => Before(q, a, b)
  BY TailBefore
<1>3. \A a : Before(p, a, Head(p)) => ~Has(p, a)
  BY HeadBefore
<1> HIDE DEF q
<1>4. q = u.phases
  BY DEF q
<1>5. /\ \A a \in {"order", "read"}, b \in {"rows", "mirror"} : Before(q, a, b)
      /\ Before(q, "rows", "mirror")
      /\ Before(q, "confirm", "paid")
      /\ Has(q, "order") => u.op = "verify"
      /\ u.op \in Targeted => ~Unread(q)
  BY <1>1, <1>2 DEF Script, Unread
<1>6. /\ Has(q, "rows") => Has(q, "mirror") \/ u.op \in {"paylink", "postpone"}
      /\ Has(q, "read") => Has(q, "rows")
  BY <1>1, <1>3 DEF Script
<1>7. Has(q, "confirm") => \/ Before(q, "mirror", "confirm")
                           \/ Before(q, "confirm", "read") /\ Has(q, "read")
  BY <1>1, <1>2, <1>3 DEF Script
<1>8. Has(q, "paid") => \/ u.op = "mark_paid"
                        \/ /\ u.op = "settle_full"
                           /\ Before(q, "read", "paid") /\ Before(q, "rows", "paid")
  BY <1>1, <1>2 DEF Script
<1> QED
  BY <1>4, <1>5, <1>6, <1>7, <1>8 DEF Script

-----------------------------------------------------------------------------
(* Tasks between two steps. *)

(* An idle worker.                                                          *)
LEMMA IdleSerial ==
    ASSUME NEW d
    PROVE  SerialTask(Idle, d)
<1>1. Len(<<>>) = 0
  OBVIOUS
<1>2. \A a : ~Has(<<>>, a)
  BY <1>1 DEF Has
<1>3. \A a, b : Before(<<>>, a, b)
  BY <1>1 DEF Before
<1>4. Idle.op = "idle" /\ Idle.phases = <<>> /\ Idle.todo = {}
  BY DEF Idle
<1> QED
  BY <1>2, <1>3, <1>4
  DEF SerialTask, Script, Deeds, Fresh, Targeted, RefundOps, Buttons, Unread

(* What becomes of a task when its loop over rows, or all of it, is over.   *)
LEMMA SettledCases ==
    ASSUME NEW t, t.phases \in Seq(Phase), NEW u, u = Settled(t)
    PROVE  \/ /\ u = Idle
              /\ \/ t.phases = <<>>
                 \/ /\ t.phases # <<>> /\ Head(t.phases) = "rows"
                    /\ t.todo = {} /\ Tail(t.phases) = <<>>
           \/ /\ u.op = t.op /\ u.seq = t.seq /\ u.todo = t.todo /\ u.snap = t.snap
              /\ t.phases # <<>> /\ u.phases # <<>>
              /\ \/ u.phases = t.phases
                    /\ ~(Head(t.phases) = "rows" /\ t.todo = {})
                 \/ /\ Head(t.phases) = "rows" /\ t.todo = {}
                    /\ u.phases = Tail(t.phases)
<1> DEFINE phases == IF t.phases # <<>> /\ Head(t.phases) = "rows" /\ t.todo = {}
                       THEN Tail(t.phases) ELSE t.phases
<1>1. u = IF phases = <<>> THEN Idle ELSE [t EXCEPT !.phases = phases]
  BY DEF Settled
<1>2. \/ /\ t.phases # <<>> /\ Head(t.phases) = "rows" /\ t.todo = {} /\ phases = Tail(t.phases)
      \/ phases = t.phases /\ ~(t.phases # <<>> /\ Head(t.phases) = "rows" /\ t.todo = {})
  OBVIOUS
<1> HIDE DEF phases
<1>3. CASE phases = <<>>
  BY <1>1, <1>2, <1>3
<1>4. CASE phases # <<>>
  <2>1. u = [t EXCEPT !.phases = phases]
    BY <1>1, <1>4
  <2>2. u.op = t.op /\ u.seq = t.seq /\ u.todo = t.todo /\ u.snap = t.snap /\ u.phases = phases
    BY <2>1
  <2>3. t.phases # <<>>
    BY <1>2, <1>4
  <2> QED
    BY <1>2, <1>4, <2>2, <2>3
<1> QED
  BY <1>3, <1>4

(* Leaving the loop over rows, or the worker, takes no other phase away.    *)
LEMMA SettledHas ==
    ASSUME NEW t, t.phases \in Seq(Phase), NEW a, a # "rows"
    PROVE  Has(Settled(t).phases, a) <=> Has(t.phases, a)
<1>1. ~Has(<<>>, a) /\ Idle.phases = <<>>
  BY DEF Has, Idle
<1>2. \A p \in Seq(Phase) : p # <<>> /\ Head(p) = "rows" =>
          (Has(p, a) <=> Has(Tail(p), a))
  BY TailHas
<1> DEFINE u == Settled(t)
<1>3. u = Settled(t)
  OBVIOUS
<1>4. Has(u.phases, a) <=> Has(t.phases, a)
  <2> HIDE DEF u
  <2>1. CASE u.phases = t.phases
    BY <2>1
  <2>2. CASE t.phases # <<>> /\ Head(t.phases) = "rows" /\ u.phases = Tail(t.phases)
    BY <1>2, <2>2
  <2>3. (u.phases = t.phases) \/ (/\ t.phases # <<>> /\ Head(t.phases) = "rows"
                                  /\ u.phases = Tail(t.phases))
    BY <1>1, <1>3, SettledCases
  <2> QED
    BY <2>1, <2>2, <2>3
<1> QED
  BY <1>4

(* Settling a task changes nothing of what Serial says of it.               *)
LEMMA SettledSerial ==
    ASSUME NEW t, t.phases \in Seq(Phase), NEW d, SerialTask(t, d)
    PROVE  SerialTask(Settled(t), d)
<1> DEFINE u == Settled(t)
<1>1. u = Settled(t)
  OBVIOUS
<1> HIDE DEF u
<1>2. CASE u = Idle
  BY <1>1, <1>2, IdleSerial
<1>3. CASE /\ u.op = t.op /\ u.todo = t.todo /\ u.snap = t.snap
           /\ t.phases # <<>> /\ u.phases = t.phases
  BY <1>1, <1>3 DEF SerialTask, Script, Deeds, Fresh
<1>4. CASE /\ u.op = t.op /\ u.todo = t.todo /\ u.snap = t.snap
           /\ t.phases # <<>> /\ Head(t.phases) = "rows" /\ t.todo = {}
           /\ u.phases = Tail(t.phases)
  <2>1. Script(u)
    BY <1>4, ScriptTail DEF SerialTask
  <2>2. Deeds(u)
    BY <1>4 DEF SerialTask, Deeds
  <2>3. ~Unread(t.phases)
    BY <1>4, HeadBefore DEF SerialTask, Script, Unread
  <2>4. Fresh(u, d)
    BY <1>4, <2>3 DEF SerialTask, Fresh
  <2> QED
    BY <1>1, <2>1, <2>2, <2>4 DEF SerialTask
<1> QED
  BY <1>1, <1>2, <1>3, <1>4, SettledCases

(* Ending a phase that neither reads nor is the loop over rows.             *)
LEMMA TailSerial ==
    ASSUME NEW t, t.phases \in Seq(Phase), NEW d, SerialTask(t, d), t.phases # <<>>,
           Head(t.phases) \notin {"order", "read", "rows"},
           NEW u, u.op = t.op, u.todo = t.todo, u.snap = t.snap,
           u.phases = Tail(t.phases)
    PROVE  SerialTask(u, d)
<1>1. Script(u)
  BY ScriptTail DEF SerialTask
<1>2. Deeds(u)
  BY DEF SerialTask, Deeds
<1>3. Unread(t.phases) => Unread(u.phases)
  BY TailHas DEF Unread
<1>4. Fresh(u, d)
  BY <1>3 DEF SerialTask, Fresh
<1> QED
  BY <1>1, <1>2, <1>4 DEF SerialTask

(* The worker that runs is alone.                                           *)
LEMMA OnlyWorker ==
    ASSUME Tasks, NEW w \in Worker, Alone(w), NEW t, t.phases \in Seq(Phase),
           Continue(w, t), SerialTask(t, doc')
    PROVE  Serial'
<1>1. SerialTask(Settled(t), doc')
  BY SettledSerial
<1>2. task'[w] = Settled(t)
  BY DEF Continue, Tasks
<1>3. \A v \in Worker : v # w => task'[v] = Idle
  BY DEF Continue, Tasks, Alone
<1> QED
  BY <1>1, <1>2, <1>3, IdleSerial DEF Serial

(* A handler that stops leaves nothing behind.                              *)
LEMMA StopSerial ==
    ASSUME Tasks, NEW w \in Worker, Alone(w), Stop(w)
    PROVE  Serial'
<1>1. \A v \in Worker : task'[v] = Idle
  BY DEF Stop, Tasks, Alone
<1> QED
  BY <1>1, IdleSerial DEF Serial

-----------------------------------------------------------------------------
(* The scripts handlers start with. *)

(* A paid session: all its calls, or only the move of a later row.          *)
LEMMA ReconcileScript ==
    ASSUME NEW t, t.op \notin Targeted,
           t.phases \in {<<>>, <<"read", "rows", "mirror">>,
                         <<"collect", "read", "rows", "mirror", "confirm">>}
    PROVE  Script(t)
<1>1. CASE t.phases = <<>>
  <2>1. Len(t.phases) = 0
    BY <1>1
  <2> QED
    BY <2>1 DEF Script, Has, Before
<1>2. CASE t.phases = <<"read", "rows", "mirror">>
  <2>1. /\ Len(t.phases) = 3
        /\ \A k \in 1..3 : t.phases[k] = CASE k = 1 -> "read" [] k = 2 -> "rows" [] OTHER -> "mirror"
    BY <1>2
  <2>2. Has(t.phases, "mirror") /\ Has(t.phases, "rows")
    BY <2>1 DEF Has
  <2>3. \A a : Has(t.phases, a) => a \in {"read", "rows", "mirror"}
    BY <2>1 DEF Has
  <2>4. /\ \A a \in {"order", "read"}, b \in {"rows", "mirror"} : Before(t.phases, a, b)
        /\ Before(t.phases, "rows", "mirror")
        /\ Before(t.phases, "confirm", "paid")
    BY <2>1 DEF Before
  <2> QED
    BY <2>2, <2>3, <2>4 DEF Script
<1>3. CASE t.phases = <<"collect", "read", "rows", "mirror", "confirm">>
  <2>1. /\ Len(t.phases) = 5
        /\ t.phases[1] = "collect" /\ t.phases[2] = "read" /\ t.phases[3] = "rows"
        /\ t.phases[4] = "mirror" /\ t.phases[5] = "confirm"
    BY <1>3
  <2>2. Has(t.phases, "mirror") /\ Has(t.phases, "rows")
    BY <2>1 DEF Has
  <2>3. \A a : Has(t.phases, a) => a \in {"collect", "read", "rows", "mirror", "confirm"}
    BY <2>1 DEF Has
  <2>4. /\ \A a \in {"order", "read"}, b \in {"rows", "mirror"} : Before(t.phases, a, b)
        /\ Before(t.phases, "rows", "mirror")
        /\ Before(t.phases, "confirm", "paid")
        /\ Before(t.phases, "mirror", "confirm")
    BY <2>1 DEF Before
  <2> QED
    BY <2>2, <2>3, <2>4 DEF Script
<1> QED
  BY <1>1, <1>2, <1>3

(* Every call of a reconciler is made after its read of the schedule.       *)
LEMMA ReconcileUnread ==
    ASSUME NEW p, p \in {<<"read", "rows", "mirror">>,
                         <<"collect", "read", "rows", "mirror", "confirm">>}
    PROVE  Unread(p)
<1>1. CASE p = <<"read", "rows", "mirror">>
  <2>1. Len(p) = 3 /\ p[1] = "read"
    BY <1>1
  <2> QED
    BY <2>1 DEF Unread, Has
<1>2. CASE p = <<"collect", "read", "rows", "mirror", "confirm">>
  <2>1. Len(p) = 5 /\ p[2] = "read"
    BY <1>2
  <2> QED
    BY <2>1 DEF Unread, Has
<1> QED
  BY <1>1, <1>2

(* A reconciler never marks the order paid.                                 *)
LEMMA ReconcileUnpaid ==
    ASSUME NEW op, NEW s
    PROVE  ~Has(Reconcile(op, s), "paid")
<1>1. ~Has(<<>>, "paid") /\ ~Has(<<"read", "rows", "mirror">>, "paid")
  BY DEF Has
<1>2. ~Has(<<"collect", "read", "rows", "mirror", "confirm">>, "paid")
  BY DEF Has
<1> QED
  BY <1>1, <1>2 DEF Reconcile

(* The scripts without a read of the schedule.                              *)
LEMMA TargetedScript ==
    ASSUME NEW t,
           \/ t.phases = <<"rows", "mirror", "cancel">>
           \/ t.phases = <<"rows", "mirror">>
           \/ t.phases = <<"rows">> /\ t.op = "postpone"
           \/ t.phases = <<"session", "rows">> /\ t.op = "paylink"
           \/ t.phases = <<"unpaid">>
    PROVE  Script(t) /\ ~Unread(t.phases)
<1>1. CASE t.phases = <<"rows", "mirror", "cancel">>
  <2>1. /\ Len(t.phases) = 3 /\ t.phases[1] = "rows" /\ t.phases[2] = "mirror"
        /\ t.phases[3] = "cancel"
    BY <1>1
  <2> QED
    BY <2>1 DEF Script, Has, Before, Unread
<1>2. CASE t.phases = <<"rows", "mirror">>
  <2>1. Len(t.phases) = 2 /\ t.phases[1] = "rows" /\ t.phases[2] = "mirror"
    BY <1>2
  <2> QED
    BY <2>1 DEF Script, Has, Before, Unread
<1>3. CASE t.phases = <<"rows">> /\ t.op = "postpone"
  <2>1. Len(t.phases) = 1 /\ t.phases[1] = "rows"
    BY <1>3
  <2> QED
    BY <1>3, <2>1 DEF Script, Has, Before, Unread
<1>4. CASE t.phases = <<"session", "rows">> /\ t.op = "paylink"
  <2>1. Len(t.phases) = 2 /\ t.phases[1] = "session" /\ t.phases[2] = "rows"
    BY <1>4
  <2> QED
    BY <1>4, <2>1 DEF Script, Has, Before, Unread
<1>5. CASE t.phases = <<"unpaid">>
  <2>1. Len(t.phases) = 1 /\ t.phases[1] = "unpaid"
    BY <1>5
  <2> QED
    BY <2>1 DEF Script, Has, Before, Unread
<1> QED
  BY <1>1, <1>2, <1>3, <1>4, <1>5

(* Where the parts of a settlement's script end up.                         *)
LEMMA Joined ==
    ASSUME NEW a \in Seq(Phase), NEW m \in Seq(Phase), NEW b \in Seq(Phase),
           NEW p, p = a \o m \o b
    PROVE  /\ Len(a) \in Nat /\ Len(m) \in Nat /\ Len(b) \in Nat
           /\ Len(p) = Len(a) + Len(m) + Len(b)
           /\ \A k \in 1..Len(a) : p[k] = a[k]
           /\ \A k \in 1..Len(m) : p[Len(a) + k] = m[k]
           /\ \A k \in 1..Len(b) : p[Len(a) + Len(m) + k] = b[k]
<1> DEFINE r == a \o m
<1>1. r \in Seq(Phase) /\ Len(r) = Len(a) + Len(m)
  OBVIOUS
<1>2. \A k \in 1..Len(a) : r[k] = a[k]
  OBVIOUS
<1>3. \A k \in 1..Len(m) : r[Len(a) + k] = m[k]
  OBVIOUS
<1>4. p = r \o b
  OBVIOUS
<1>5. Len(a) \in Nat /\ Len(m) \in Nat /\ Len(b) \in Nat
  OBVIOUS
<1> HIDE DEF r
<1>6. Len(r \o b) = Len(r) + Len(b)
  <2>1. r \in Seq(Phase)
    BY <1>1
  <2> QED
    BY <2>1
<1>7. \A k \in 1..Len(r) : p[k] = r[k]
  BY <1>1, <1>4
<1>8. \A k \in 1..Len(b) : p[Len(r) + k] = b[k]
  BY <1>1, <1>4
<1> QED
  BY <1>1, <1>2, <1>3, <1>4, <1>5, <1>6, <1>7, <1>8

(* A settlement: confirms a draft first, and marks the order paid last or,  *)
(* for mark_order_paid, first.                                              *)
LEMMA SettleScript ==
    ASSUME NEW t, NEW first, NEW last,
           first = <<>> \/ first = <<"confirm">>,
           \/ t.op = "settle_deposit" /\ last = <<>>
           \/ t.op = "settle_full" /\ last = <<"paid">>,
           t.phases = first \o <<"collect", "read", "rows", "mirror">> \o last
    PROVE  /\ Script(t) /\ Has(t.phases, "read")
           /\ Has(t.phases, "confirm") <=> first = <<"confirm">>
<1> DEFINE p == t.phases
           n == Len(first)
           middle == <<"collect", "read", "rows", "mirror">>
<1>1. first \in Seq(Phase) /\ last \in Seq(Phase) /\ middle \in Seq(Phase)
  <2>1. <<>> \in Seq(Phase)
    OBVIOUS
  <2>2. <<"confirm">> \in Seq(Phase) /\ <<"paid">> \in Seq(Phase)
    BY DEF Phase
  <2>3. middle \in Seq(Phase)
    BY DEF Phase
  <2> QED
    BY <2>1, <2>2, <2>3
<1>2. \/ n = 0 /\ first # <<"confirm">>
      \/ n = 1 /\ first[1] = "confirm" /\ first = <<"confirm">>
  <2>1. CASE first = <<>>
    BY <2>1
  <2>2. CASE first = <<"confirm">>
    BY <2>2
  <2> QED
    BY <2>1, <2>2
<1>3. \/ Len(last) = 0
      \/ Len(last) = 1 /\ last[1] = "paid" /\ t.op = "settle_full"
  <2>1. CASE last = <<>>
    BY <2>1
  <2>2. CASE last = <<"paid">> /\ t.op = "settle_full"
    BY <2>2
  <2> QED
    BY <2>1, <2>2
<1>4. /\ Len(middle) = 4 /\ middle[1] = "collect" /\ middle[2] = "read"
      /\ middle[3] = "rows" /\ middle[4] = "mirror"
  OBVIOUS
<1>5. p = first \o middle \o last
  OBVIOUS
<1> HIDE DEF p, middle
<1>6. /\ Len(p) = n + 4 + Len(last)
      /\ \A k \in 1..n : p[k] = first[k]
      /\ \A k \in 1..4 : p[n + k] = middle[k]
      /\ \A k \in 1..Len(last) : p[n + 4 + k] = last[k]
  <2>1. /\ Len(p) = n + Len(middle) + Len(last)
        /\ \A k \in 1..n : p[k] = first[k]
        /\ \A k \in 1..Len(middle) : p[n + k] = middle[k]
        /\ \A k \in 1..Len(last) : p[n + Len(middle) + k] = last[k]
    BY <1>1, <1>5, Joined
  <2> QED
    BY <1>4, <2>1
<1> HIDE DEF n
<1>7. \A k \in 1..Len(p) : \/ n = 1 /\ k = 1 /\ p[k] = "confirm"
                           \/ k = n + 1 /\ p[k] = "collect"
                           \/ k = n + 2 /\ p[k] = "read"
                           \/ k = n + 3 /\ p[k] = "rows"
                           \/ k = n + 4 /\ p[k] = "mirror"
                           \/ /\ k = n + 5 /\ p[k] = "paid"
                              /\ t.op = "settle_full"
  <2> TAKE k \in 1..Len(p)
  <2>1. CASE k <= n
    BY <1>2, <1>6, <2>1
  <2>2. CASE n < k /\ k <= n + 4
    <3>1. k - n \in 1..4 /\ n + (k - n) = k
      BY <1>2, <2>2
    <3>2. p[k] = middle[k - n]
      BY <1>6, <3>1
    <3> QED
      BY <1>4, <3>1, <3>2
  <2>3. CASE n + 4 < k
    <3>1. Len(last) = 1 /\ k = n + 4 + 1
      <4>1. n \in {0, 1} /\ Len(last) \in {0, 1} /\ Len(p) = n + 4 + Len(last)
        BY <1>2, <1>3, <1>6
      <4> QED
        BY <2>3, <4>1
    <3>2. p[n + 4 + 1] = last[1]
      BY <1>6, <3>1
    <3> QED
      BY <1>2, <1>3, <3>1, <3>2
  <2> QED
    BY <1>2, <2>1, <2>2, <2>3
<1>8. /\ Has(p, "mirror") /\ Has(p, "read") /\ Has(p, "rows")
      /\ (Has(p, "confirm") <=> n = 1)
  <2>1. /\ n + 2 \in 1..Len(p) /\ n + 3 \in 1..Len(p) /\ n + 4 \in 1..Len(p)
        /\ 1 \in 1..Len(p)
    BY <1>2, <1>3, <1>6
  <2>2. p[n + 2] = "read" /\ p[n + 3] = "rows" /\ p[n + 4] = "mirror" /\ (n = 1 => p[1] = "confirm")
    BY <1>2, <1>4, <1>6, SMTT(30)
  <2> QED
    BY <1>2, <1>7, <2>1, <2>2 DEF Has
<1>9. ~Has(p, "order") /\ (Has(p, "paid") => t.op = "settle_full")
  BY <1>7 DEF Has
<1>10. /\ \A a \in {"order", "read"}, b \in {"rows", "mirror"} : Before(p, a, b)
       /\ Before(p, "rows", "mirror") /\ Before(p, "confirm", "paid")
       /\ Before(p, "confirm", "read") /\ Before(p, "read", "paid")
       /\ Before(p, "rows", "paid")
  <2>1. n \in {0, 1}
    BY <1>2
  <2>2. \A a \in {"order", "read"}, b \in {"rows", "mirror"} : Before(p, a, b)
    BY <1>7, <2>1, SMTT(30) DEF Before
  <2>3. Before(p, "rows", "mirror") /\ Before(p, "confirm", "paid")
    <3>1. ASSUME NEW j \in 1..Len(p), NEW k \in 1..Len(p),
                 p[j] = "rows", p[k] = "mirror"
          PROVE  j < k
      BY <1>7, <2>1, <3>1, SMTT(30)
    <3>2. ASSUME NEW j \in 1..Len(p), NEW k \in 1..Len(p),
                 p[j] = "confirm", p[k] = "paid"
          PROVE  j < k
      BY <1>7, <2>1, <3>2, SMTT(30)
    <3> QED
      BY <3>1, <3>2 DEF Before
  <2>4. Before(p, "confirm", "read")
    BY <1>7, <2>1, SMTT(30) DEF Before
  <2>5. Before(p, "read", "paid") /\ Before(p, "rows", "paid")
    BY <1>7, <2>1, SMTT(30) DEF Before
  <2> QED
    BY <2>2, <2>3, <2>4, <2>5
<1>11. t.op \notin Targeted
  BY DEF Targeted, Buttons, RefundOps
<1>12. Script(t)
  BY <1>8, <1>9, <1>10, <1>11 DEF Script, p
<1> QED
  BY <1>2, <1>8, <1>12 DEF p

(* Such a script is a list of phases.                                       *)
LEMMA SettlePhases ==
    ASSUME NEW first, NEW last,
           first = <<>> \/ first = <<"confirm">>, last = <<>> \/ last = <<"paid">>
    PROVE  first \o <<"collect", "read", "rows", "mirror">> \o last \in Seq(Phase)
<1>1. <<>> \in Seq(Phase)
  OBVIOUS
<1>2. <<"confirm">> \in Seq(Phase) /\ <<"paid">> \in Seq(Phase)
  BY DEF Phase
<1> DEFINE middle == <<"collect", "read", "rows", "mirror">>
<1>3. middle \in Seq(Phase)
  BY DEF Phase
<1> HIDE DEF middle
<1>4. first \in Seq(Phase) /\ last \in Seq(Phase)
  BY <1>1, <1>2
<1>5. first \o middle \o last \in Seq(Phase)
  BY <1>3, <1>4
<1> QED
  BY <1>5 DEF middle

(* mark_order_paid.                                                         *)
LEMMA MarkPaidScript ==
    ASSUME NEW t, t.op = "mark_paid", t.phases = <<"paid", "read", "rows", "mirror">>
    PROVE  Script(t) /\ Has(t.phases, "read")
<1>1. /\ Len(t.phases) = 4 /\ t.phases[1] = "paid" /\ t.phases[2] = "read"
      /\ t.phases[3] = "rows" /\ t.phases[4] = "mirror"
  OBVIOUS
<1>2. Has(t.phases, "mirror") /\ Has(t.phases, "read") /\ Has(t.phases, "rows")
  BY <1>1 DEF Has
<1>3. \A a : Has(t.phases, a) => a \in {"paid", "read", "rows", "mirror"}
  BY <1>1 DEF Has
<1>4. /\ \A a \in {"order", "read"}, b \in {"rows", "mirror"} : Before(t.phases, a, b)
      /\ Before(t.phases, "rows", "mirror")
      /\ Before(t.phases, "confirm", "paid")
  BY <1>1 DEF Before
<1> QED
  BY <1>2, <1>3, <1>4 DEF Script, Targeted, Buttons, RefundOps

(* A verification has only its read of the order ahead.                     *)
LEMMA VerifyScript ==
    ASSUME NEW t, t.op = "verify", t.phases = <<"order">>
    PROVE  Script(t) /\ Has(t.phases, "order")
<1>1. Len(t.phases) = 1 /\ t.phases[1] = "order"
  OBVIOUS
<1>2. Has(t.phases, "order") /\ \A a : Has(t.phases, a) => a = "order"
  BY <1>1 DEF Has
<1>3. \A a, b : Before(t.phases, a, b) \/ (a = "order" /\ b = "order")
  BY <1>1 DEF Before
<1> QED
  BY <1>2, <1>3 DEF Script, Targeted, Buttons, RefundOps

-----------------------------------------------------------------------------
(* Handlers that start. *)

(* A worker that takes a task in order.                                     *)
LEMMA BeginSerial ==
    ASSUME Tasks, NEW w \in Worker, Alone(w), NEW op, NEW s,
           NEW phases \in Seq(Phase), NEW todo, NEW snap,
           Begin(w, op, s, phases, todo, snap),
           SerialTask([op |-> op, seq |-> s, phases |-> phases, todo |-> todo,
                       snap |-> snap], doc)
    PROVE  Serial'
<1> DEFINE t == [op |-> op, seq |-> s, phases |-> phases, todo |-> todo, snap |-> snap]
<1>1. t.phases \in Seq(Phase) /\ SerialTask(t, doc')
  BY DEF Begin
<1>2. Continue(w, t)
  BY DEF Begin
<1> HIDE DEF t
<1> QED
  BY <1>1, <1>2, OnlyWorker

(* Two copies of the same rows agree.                                       *)
LEMMA AgreeSame == \A rows : Agree(rows, rows)
BY DEF Agree

(* A webhook, a verification, a settlement and the two marks of the whole   *)
(* order read before they write.                                            *)
LEMMA LateReadersSerial ==
    ASSUME IInv, NEW w \in Worker, Alone(w),
           \/ \E s \in Seqs : Webhook(w, s)
           \/ Verify(w)
           \/ \E op \in Operations : Settle(w, op)
           \/ MarkOrderPaid(w)
    PROVE  Serial'
<1>1. Tasks
  BY DEF IInv
<1>2. ASSUME NEW op, op \notin Targeted, NEW s, NEW phases \in Seq(Phase), NEW todo,
             todo = {} \/ todo = {Do(s, "pay", 0)}, NEW snap,
             Begin(w, op, s, phases, todo, snap),
             LET t == [op |-> op, seq |-> s, phases |-> phases, todo |-> todo,
                       snap |-> snap]
             IN  Script(t) /\ (t.phases = <<>> \/ Unread(t.phases))
      PROVE  Serial'
  <2> DEFINE t == [op |-> op, seq |-> s, phases |-> phases, todo |-> todo,
                   snap |-> snap]
  <2>1. Deeds(t)
    <3>1. t.op = op /\ t.todo = todo
      OBVIOUS
    <3>2. \A i \in todo : ~i.marked /\ i.do = "pay"
      BY <1>2 DEF Do
    <3>3. op \notin RefundOps /\ op \notin Buttons /\ op # "paylink"
      BY <1>2 DEF Targeted
    <3> HIDE DEF t
    <3> QED
      BY <3>1, <3>2, <3>3 DEF Deeds, Targeted, Buttons
  <2>2. Fresh(t, doc)
    BY <1>2 DEF Fresh
  <2> QED
    BY <1>1, <1>2, <2>1, <2>2, BeginSerial DEF SerialTask
<1>3. ASSUME NEW s \in Seqs, Webhook(w, s) PROVE Serial'
  <2> DEFINE phases == Reconcile("webhook", s)
             snap == NewSchedule(FALSE)
             t == [op |-> "webhook", seq |-> s, phases |-> phases,
                   todo |-> {Do(s, "pay", 0)}, snap |-> snap]
  <2>1. t.phases \in {<<>>, <<"read", "rows", "mirror">>,
                      <<"collect", "read", "rows", "mirror", "confirm">>}
    BY DEF Reconcile
  <2>2. Script(t) /\ (t.phases = <<>> \/ Unread(t.phases))
    BY <2>1, ReconcileScript, ReconcileUnread DEF Targeted, Buttons, RefundOps
  <2>3. Begin(w, "webhook", s, phases, {Do(s, "pay", 0)}, snap)
    BY <1>3 DEF Webhook
  <2>4. phases \in Seq(Phase)
    BY ReconcilePhases
  <2> HIDE DEF phases, snap
  <2> QED
    BY <1>2, <2>2, <2>3, <2>4 DEF Targeted, Buttons, RefundOps
<1>4. ASSUME Verify(w) PROVE Serial'
  <2> DEFINE phases == <<"order">>
             snap == NewSchedule(FALSE)
             t == [op |-> "verify", seq |-> 0, phases |-> phases,
                   todo |-> {Do(0, "pay", 0)}, snap |-> snap]
  <2>1. Script(t) /\ Unread(t.phases)
    BY VerifyScript DEF Unread
  <2>2. Begin(w, "verify", 0, phases, {Do(0, "pay", 0)}, snap)
    BY <1>4 DEF Verify, Start
  <2>3. phases \in Seq(Phase)
    BY DEF Phase
  <2> HIDE DEF phases, snap
  <2> QED
    BY <1>2, <2>1, <2>2, <2>3 DEF Targeted, Buttons, RefundOps
<1>5. ASSUME NEW op \in Operations, Settle(w, op) PROVE Serial'
  <2> DEFINE first == IF order.status = "draft" THEN <<"confirm">> ELSE <<>>
             last == IF op = "settle_full" THEN <<"paid">> ELSE <<>>
             phases == first \o <<"collect", "read", "rows", "mirror">> \o last
             snap == NewSchedule(FALSE)
             t == [op |-> op, seq |-> 0, phases |-> phases, todo |-> {},
                   snap |-> snap]
  <2>1. op \in {"settle_deposit", "settle_full"}
    BY <1>5 DEF Settle
  <2>2. Begin(w, op, 0, phases, {}, snap)
    BY <1>5 DEF Settle, Start
  <2>3. phases \in Seq(Phase)
    BY SettlePhases
  <2>4. first = <<>> \/ first = <<"confirm">>
    OBVIOUS
  <2>5. \/ op = "settle_deposit" /\ last = <<>>
        \/ op = "settle_full" /\ last = <<"paid">>
    BY <2>1
  <2>6. t.op = op /\ t.phases = first \o <<"collect", "read", "rows", "mirror">> \o last
    OBVIOUS
  <2>7. Script(t) /\ Unread(t.phases)
    <3> HIDE DEF t, first, last
    <3> QED
      BY <2>4, <2>5, <2>6, SettleScript DEF Unread
  <2> HIDE DEF phases, snap
  <2> QED
    BY <1>2, <2>1, <2>2, <2>3, <2>7 DEF Targeted, Buttons, RefundOps
<1>6. ASSUME MarkOrderPaid(w) PROVE Serial'
  <2> DEFINE phases == <<"paid", "read", "rows", "mirror">>
             snap == NewSchedule(FALSE)
             t == [op |-> "mark_paid", seq |-> 0, phases |-> phases, todo |-> {},
                   snap |-> snap]
  <2>1. Script(t) /\ Unread(t.phases)
    BY MarkPaidScript DEF Unread
  <2>2. Begin(w, "mark_paid", 0, phases, {}, snap)
    BY <1>6 DEF MarkOrderPaid, Start
  <2>3. phases \in Seq(Phase)
    BY DEF Phase
  <2> HIDE DEF phases, snap
  <2> QED
    BY <1>2, <2>1, <2>2, <2>3 DEF Targeted, Buttons, RefundOps
<1> QED
  BY <1>3, <1>4, <1>5, <1>6

(* What every button, the pay link and a refund start with: the document as *)
(* it is stored, and no two operations on one row.                          *)
LEMMA TargetedSerial ==
    ASSUME Tasks, NEW w \in Worker, Alone(w), NEW op, NEW s,
           NEW phases \in Seq(Phase), NEW todo,
           Begin(w, op, s, phases, todo, doc),
           NEW t, t.op = op, t.phases = phases,
           Script(t), ~Unread(phases),
           \A i \in todo : ~i.marked,
           \A i \in todo : i.do = "refund" => op \in RefundOps,
           op = "paylink" => \A i \in todo : i.do = "processing",
           op = "postpone" => \A i \in todo : i.do = "postpone",
           op \in RefundOps => \A i \in todo : i.do \in {"refund", "cancel"},
           op \in Buttons => \A i \in todo :
                /\ i.do \in Buttons
                /\ \/ NewStatus[i.do] \in ALLOWED_TRANSITIONS[doc.rows[i.seq].status]
                   \/ i.do = "postpone" /\ doc.rows[i.seq].status = "pending",
           op \in Targeted => \A i, j \in todo : i.seq = j.seq => i = j
    PROVE  Serial'
<1> DEFINE u == [op |-> op, seq |-> s, phases |-> phases, todo |-> todo, snap |-> doc]
<1>1. u.op = op /\ u.phases = phases /\ u.todo = todo /\ u.snap = doc
  OBVIOUS
<1> HIDE DEF u
<1>2. Script(u)
  BY <1>1 DEF Script
<1>3. Deeds(u)
  BY <1>1 DEF Deeds
<1>4. Fresh(u, doc)
  BY <1>1, AgreeSame DEF Fresh
<1> QED
  BY <1>2, <1>3, <1>4, BeginSerial DEF SerialTask, u

(* The short scripts are lists of phases.                                   *)
LEMMA ShortPhases ==
    /\ <<"rows", "mirror", "cancel">> \in Seq(Phase)
    /\ <<"rows", "mirror">> \in Seq(Phase)
    /\ <<"rows">> \in Seq(Phase)
    /\ <<"session", "rows">> \in Seq(Phase)
    /\ <<"unpaid">> \in Seq(Phase)
<1>1. <<"rows", "mirror", "cancel">> \in Seq(Phase)
  BY DEF Phase
<1>2. <<"rows", "mirror">> \in Seq(Phase) /\ <<"session", "rows">> \in Seq(Phase)
  BY DEF Phase
<1>3. <<"rows">> \in Seq(Phase) /\ <<"unpaid">> \in Seq(Phase)
  BY DEF Phase
<1> QED
  BY <1>1, <1>2, <1>3

(* The pay link.                                                            *)
LEMMA PayLinkSerial ==
    ASSUME Tasks, NEW w \in Worker, Alone(w), NEW s \in Seqs, PayLink(w, s)
    PROVE  Serial'
<1> DEFINE p == <<"session", "rows">>
           todo == IF doc.rows[s].status = "processing" THEN {}
                   ELSE {Do(s, "processing", 0)}
           t == [op |-> "paylink", phases |-> p]
<1>1. Begin(w, "paylink", s, p, todo, doc)
  BY DEF PayLink, Start
<1>2. \A i \in todo : ~i.marked /\ i.do = "processing" /\ i.seq = s
  BY DEF Do
<1>3. \A i, j \in todo : i = j
  OBVIOUS
<1>4. t.op = "paylink" /\ t.phases = p /\ Script(t) /\ ~Unread(p)
  BY TargetedScript
<1>5. p \in Seq(Phase)
  BY ShortPhases
<1> HIDE DEF p, todo, t
<1> QED
  BY <1>1, <1>2, <1>3, <1>4, <1>5, TargetedSerial DEF RefundOps, Buttons

(* A button of the operator.                                                *)
LEMMA ButtonSerial ==
    ASSUME Tasks, NEW w \in Worker, Alone(w), NEW s \in Seqs,
           NEW op \in Buttons, NEW arg, NEW p,
           p = IF op = "postpone" THEN <<"rows">> ELSE <<"rows", "mirror">>,
           \/ NewStatus[op] \in ALLOWED_TRANSITIONS[doc.rows[s].status]
           \/ op = "postpone" /\ doc.rows[s].status = "pending",
           Start(w, op, s, p, {Do(s, op, arg)}, doc)
    PROVE  Serial'
<1> DEFINE todo == {Do(s, op, arg)}
           t == [op |-> op, phases |-> p]
<1>1. Begin(w, op, s, p, todo, doc)
  BY DEF Start
<1>2. \A i \in todo : ~i.marked /\ i.do = op /\ i.seq = s
  BY DEF Do
<1>3. \A i, j \in todo : i = j
  OBVIOUS
<1>4. t.op = op /\ t.phases = p /\ Script(t) /\ ~Unread(p)
  BY TargetedScript
<1>5. p \in Seq(Phase)
  BY ShortPhases
<1>6. op \in {"paid_manual", "waive", "postpone"}
  BY DEF Buttons
<1>7. op \notin RefundOps /\ op # "paylink"
  BY <1>6 DEF RefundOps
<1> HIDE DEF todo, t
<1>8. \A i \in todo :
        /\ i.do \in Buttons
        /\ \/ NewStatus[i.do] \in ALLOWED_TRANSITIONS[doc.rows[i.seq].status]
           \/ i.do = "postpone" /\ doc.rows[i.seq].status = "pending"
  BY <1>2
<1>9. \A i \in todo : (op = "postpone" => i.do = "postpone") /\ i.do # "refund"
  BY <1>2, <1>6
<1> QED
  BY <1>1, <1>2, <1>3, <1>4, <1>5, <1>7, <1>8, <1>9, TargetedSerial

(* Mark paid by hand, waive, postpone.                                      *)
LEMMA ButtonsSerial ==
    ASSUME Tasks, NEW w \in Worker, Alone(w), NEW s \in Seqs,
           \/ MarkPaidManual(w, s)
           \/ Waive(w, s)
           \/ \E due \in Instants : Postpone(w, s, due)
    PROVE  Serial'
<1>1. CASE MarkPaidManual(w, s)
  BY <1>1, ButtonSerial DEF MarkPaidManual, Buttons, NewStatus
<1>2. CASE Waive(w, s)
  BY <1>2, ButtonSerial DEF Waive, Buttons, NewStatus
<1>3. ASSUME NEW due \in Instants, Postpone(w, s, due) PROVE Serial'
  <2>1. \/ NewStatus["postpone"] \in ALLOWED_TRANSITIONS[doc.rows[s].status]
        \/ doc.rows[s].status = "pending"
    BY <1>3 DEF Postpone, NewStatus, PAYABLE_STATES, ALLOWED_TRANSITIONS
  <2> QED
    BY <1>3, <2>1, ButtonSerial DEF Postpone, Buttons
<1> QED
  BY <1>1, <1>2, <1>3

(* mark_order_unpaid touches no row.                                        *)
LEMMA UnpaidSerial ==
    ASSUME Tasks, NEW w \in Worker, Alone(w), MarkOrderUnpaid(w)
    PROVE  Serial'
<1> DEFINE p == <<"unpaid">>
           t == [op |-> "mark_unpaid", phases |-> p]
<1>1. Begin(w, "mark_unpaid", 0, p, {}, doc)
  BY DEF MarkOrderUnpaid, Start
<1>2. t.op = "mark_unpaid" /\ t.phases = p /\ Script(t) /\ ~Unread(p)
  BY TargetedScript
<1>3. p \in Seq(Phase)
  BY ShortPhases
<1> HIDE DEF p, t
<1> QED
  BY <1>1, <1>2, <1>3, TargetedSerial

(* refund_order refunds paid rows and cancels payable ones: never one row   *)
(* twice.                                                                   *)
LEMMA RefundSerial ==
    ASSUME Tasks, NEW w \in Worker, Alone(w), NEW op, NEW refund_minor,
           Refund(w, op, refund_minor)
    PROVE  Serial'
<1> DEFINE share == plan_refund_distribution(doc.rows, refund_minor)
           refunds == {Do(s, "refund", share[s]) : s \in {x \in Seqs : share[x] > 0}}
           cancels == {Do(s, "cancel", 0) :
                         s \in {x \in Seqs : doc.rows[x].status \in PAYABLE_STATES}}
<1>1. \A s \in Seqs : share[s] > 0 => doc.rows[s].status \in PAID_STATES
  BY DEF plan_refund_distribution, PaidRows
<1> HIDE DEF share
<1>2. \A i \in refunds : /\ ~i.marked /\ i.do = "refund"
                         /\ i = Do(i.seq, "refund", share[i.seq])
                         /\ doc.rows[i.seq].status \in PAID_STATES
  BY <1>1 DEF Do
<1>3. \A i \in cancels : /\ ~i.marked /\ i.do = "cancel"
                         /\ i = Do(i.seq, "cancel", 0)
                         /\ doc.rows[i.seq].status \in PAYABLE_STATES
  BY DEF Do
<1>4. \/ /\ op = "refund"
         /\ Begin(w, op, 0, <<"rows", "mirror", "cancel">>, refunds \cup cancels, doc)
      \/ op = "refund_keep" /\ Begin(w, op, 0, <<"rows", "mirror">>, refunds, doc)
  BY DEF Refund, Start, share
<1> HIDE DEF refunds, cancels
<1>5. ASSUME NEW todo \in {refunds, refunds \cup cancels}, op \in RefundOps,
             NEW p \in {<<"rows", "mirror", "cancel">>, <<"rows", "mirror">>},
             Begin(w, op, 0, p, todo, doc)
      PROVE  Serial'
  <2> DEFINE t == [op |-> op, phases |-> p]
  <2>1. t.op = op /\ t.phases = p /\ Script(t) /\ ~Unread(p)
    BY TargetedScript
  <2>2. p \in Seq(Phase)
    BY ShortPhases
  <2>3. \A i \in todo : ~i.marked /\ i.do \in {"refund", "cancel"}
    BY <1>2, <1>3
  <2>4. \A i, j \in todo : i.seq = j.seq => i = j
    <3>1. PAID_STATES \cap PAYABLE_STATES = {}
      BY DEF PAID_STATES, PAYABLE_STATES
    <3> QED
      BY <1>2, <1>3, <3>1
  <2>5. op \in {"refund", "refund_keep"}
    BY <1>5 DEF RefundOps
  <2> HIDE DEF t
  <2> QED
    BY <1>5, <2>1, <2>2, <2>3, <2>4, <2>5, TargetedSerial DEF Buttons
<1> QED
  BY <1>4, <1>5 DEF RefundOps

(* The scan plans reminders and moves to overdue, on the stored document.   *)
LEMMA ScanSerial ==
    ASSUME Tasks, NEW w \in Worker, Alone(w), Scan(w)
    PROVE  Serial'
<1> DEFINE p == <<"rows", "mirror">>
           todo == plan_dunning_actions(doc.rows)
           t == [op |-> "scan", phases |-> p]
<1>1. Begin(w, "scan", 0, p, todo, doc)
  BY DEF Scan
<1>2. \A i \in todo : ~i.marked /\ i.do # "refund"
  <2> TAKE i \in todo
  <2>1. \A row : PlannedReminders(row) \subseteq ReminderKind
    BY DEF PlannedReminders, ReminderKind
  <2>2. PICK s \in Seqs, do \in ReminderKind \cup {"overdue"} : i = Do(s, do, 0)
    BY <2>1 DEF plan_dunning_actions
  <2> QED
    BY <2>2 DEF Do, ReminderKind
<1>3. t.op = "scan" /\ t.phases = p /\ Script(t) /\ ~Unread(p)
  BY TargetedScript
<1>4. p \in Seq(Phase)
  BY ShortPhases
<1> HIDE DEF p, t, todo
<1> QED
  BY <1>1, <1>2, <1>3, <1>4, TargetedSerial DEF Targeted, Buttons, RefundOps

-----------------------------------------------------------------------------
(* The phases outside the loop over rows. *)

(* What a running handler brings to its next step.                          *)
LEMMA TaskFacts ==
    ASSUME IInv, Serial, NEW w \in Worker
    PROVE  /\ Tasks /\ SerialTask(task[w], doc)
           /\ task[w].phases \in Seq(Phase)
           /\ doc.rows \in [Seqs -> ScheduleRow]
           /\ task[w].snap.rows \in [Seqs -> ScheduleRow]
           /\ \A i \in task[w].todo : i \in Item
BY DEF IInv, Tasks, Stored, GoodTask, GoodDoc, GoodRows, GoodItem, TypedTask, Serial

(* The phases that only write the order or open a session.                  *)
LEMMA EndPhaseSerial ==
    ASSUME IInv, Serial, NEW w \in Worker, Alone(w), InFlight(w),
           Head(task[w].phases) \notin {"order", "read", "rows"},
           EndPhase(w), UNCHANGED doc
    PROVE  Serial'
<1> DEFINE t == [task[w] EXCEPT !.phases = Tail(@)]
<1>1. /\ t.op = task[w].op /\ t.todo = task[w].todo /\ t.snap = task[w].snap
      /\ t.phases = Tail(task[w].phases)
  OBVIOUS
<1>2. Continue(w, t)
  BY DEF EndPhase
<1>3. t.phases \in Seq(Phase)
  BY <1>1, TaskFacts DEF InFlight
<1> HIDE DEF t
<1>4. SerialTask(t, doc)
  BY <1>1, TaskFacts, TailSerial DEF InFlight
<1> QED
  BY <1>2, <1>3, <1>4, TaskFacts, OnlyWorker

(* The calls between the reads and after the loop. *)
LEMMA OrderPhasesSerial ==
    ASSUME IInv, Serial, NEW w \in Worker, Alone(w),
           \/ Collect(w) \/ OpenSession(w) \/ Mirror(w) \/ Confirm(w)
           \/ CancelTheOrder(w) \/ StampPaid(w)
    PROVE  Serial'
<1>1. InFlight(w) /\ Head(task[w].phases) \notin {"order", "read", "rows"}
  BY DEF Collect, OpenSession, Mirror, Confirm, CancelTheOrder, StampPaid, At
<1>2. (EndPhase(w) \/ Stop(w)) /\ UNCHANGED doc
  BY DEF Collect, OpenSession, Mirror, Confirm, CancelTheOrder, StampPaid
<1> QED
  BY <1>1, <1>2, EndPhaseSerial, StopSerial, TaskFacts

(* The order a verification reads decides what it will do.                  *)
LEMMA ReadOrderSerial ==
    ASSUME IInv, Serial, NEW w \in Worker, Alone(w), ReadOrder(w)
    PROVE  Serial'
<1> DEFINE phases == Reconcile(task[w].op, task[w].seq)
           t == [task[w] EXCEPT !.phases = phases]
<1>1. /\ t.op = task[w].op /\ t.todo = task[w].todo /\ t.snap = task[w].snap
      /\ t.phases = phases
  OBVIOUS
<1>2. Continue(w, t) /\ UNCHANGED doc /\ At(w, "order")
  BY DEF ReadOrder
<1>3. phases \in {<<>>, <<"read", "rows", "mirror">>,
                  <<"collect", "read", "rows", "mirror", "confirm">>}
  BY DEF Reconcile
<1>4. phases \in Seq(Phase)
  BY ReconcilePhases
<1> HIDE DEF t, phases
<1>5. SerialTask(task[w], doc) /\ task[w].phases \in Seq(Phase) /\ Tasks
  BY TaskFacts
<1>6. Has(task[w].phases, "order")
  BY <1>2, <1>5, TailHas DEF At, InFlight
<1>7. task[w].op = "verify"
  BY <1>5, <1>6 DEF SerialTask, Script
<1>8. Script(t)
  BY <1>1, <1>3, <1>7, ReconcileScript DEF Targeted, Buttons, RefundOps
<1>9. Deeds(t)
  BY <1>1, <1>2, <1>5, <1>7 DEF SerialTask, Deeds, Targeted, Buttons, RefundOps, At
<1>10. Fresh(t, doc)
  BY <1>1, <1>3, ReconcileUnread DEF Fresh
<1> QED
  BY <1>1, <1>2, <1>4, <1>5, <1>8, <1>9, <1>10, OnlyWorker DEF SerialTask

(* The read gives the handler the stored document as its copy.              *)
LEMMA ReadSerial ==
    ASSUME IInv, Serial, NEW w \in Worker, Alone(w), Read(w)
    PROVE  Serial'
<1> DEFINE settled == {s \in Seqs : /\ doc.rows[s].status \in PAYABLE_STATES
                                    /\ task[w].op = "settle_deposit" => s = 0}
           todo == IF Reconciling(w) THEN task[w].todo
                   ELSE {Do(s, "paid_manual", 0) : s \in settled}
           t == [task[w] EXCEPT !.phases = Tail(@), !.todo = todo, !.snap = doc]
<1>1. /\ t.op = task[w].op /\ t.todo = todo /\ t.snap = doc
      /\ t.phases = Tail(task[w].phases)
  OBVIOUS
<1>2. Continue(w, t) /\ UNCHANGED doc /\ At(w, "read")
  BY DEF Read
<1>3. SerialTask(task[w], doc) /\ task[w].phases \in Seq(Phase) /\ Tasks
  BY TaskFacts
<1>4. task[w].phases # <<>> /\ Head(task[w].phases) = "read"
  BY <1>2 DEF At, InFlight
<1>5. \A i \in todo : ~i.marked /\ i.do # "refund"
  <2>1. CASE Reconciling(w)
    BY <1>3, <1>4, <2>1 DEF SerialTask, Deeds, Reconciling, RefundOps
  <2>2. CASE ~Reconciling(w)
    BY <2>2 DEF Do
  <2> QED
    BY <2>1, <2>2
<1>6. task[w].op \notin Targeted
  <2>1. Has(task[w].phases, "read")
    BY <1>3, <1>4, TailHas
  <2> QED
    BY <1>3, <2>1 DEF SerialTask, Script, Unread
<1> HIDE DEF t, todo
<1>7. Script(t)
  BY <1>1, <1>3, <1>4, ScriptTail DEF SerialTask
<1>8. Deeds(t)
  BY <1>1, <1>5, <1>6 DEF Deeds, Targeted, Buttons
<1>9. Fresh(t, doc)
  BY <1>1, AgreeSame DEF Fresh
<1>10. t.phases \in Seq(Phase)
  BY <1>1, <1>3, <1>4
<1> QED
  BY <1>1, <1>2, <1>3, <1>7, <1>8, <1>9, <1>10, OnlyWorker DEF SerialTask

-----------------------------------------------------------------------------
(* The loop over rows. *)

(* In the loop the copy of the handler shows the stored rows.               *)
LEMMA LoopFacts ==
    ASSUME IInv, Serial, NEW w \in Worker, At(w, "rows")
    PROVE  /\ ~Unread(task[w].phases) /\ task[w].phases # <<>>
           /\ Agree(task[w].snap.rows, doc.rows)
<1>1. SerialTask(task[w], doc) /\ task[w].phases \in Seq(Phase)
  BY TaskFacts
<1>2. task[w].phases # <<>> /\ Head(task[w].phases) = "rows"
  BY DEF At, InFlight
<1>3. ~Unread(task[w].phases)
  BY <1>1, <1>2, HeadBefore DEF SerialTask, Script, Unread
<1> QED
  BY <1>1, <1>2, <1>3 DEF SerialTask, Fresh

(* A task that has one operation less, on rows that show the same.          *)
LEMMA ShrinkSerial ==
    ASSUME NEW t, NEW d, NEW u, NEW e, SerialTask(t, d), u.op = t.op,
           u.phases = t.phases, u.snap = t.snap, u.todo \subseteq t.todo,
           Agree(d.rows, e.rows)
    PROVE  SerialTask(u, e)
<1>1. Script(u)
  BY DEF SerialTask, Script
<1>2. Deeds(u)
  BY DEF SerialTask, Deeds
<1>3. Fresh(u, e)
  BY DEF SerialTask, Fresh, Agree
<1> QED
  BY <1>1, <1>2, <1>3 DEF SerialTask

(* Done with a row, with the copy it had.                                   *)
LEMMA FinishSerial ==
    ASSUME IInv, Serial, NEW w \in Worker, Alone(w), NEW i,
           Finish(w, i, task[w].snap), Agree(doc.rows, doc'.rows)
    PROVE  Serial'
<1> DEFINE t == [task[w] EXCEPT !.todo = @ \ {i}, !.snap = task[w].snap]
<1>1. /\ t.op = task[w].op /\ t.phases = task[w].phases /\ t.snap = task[w].snap
      /\ t.todo \subseteq task[w].todo
  OBVIOUS
<1>2. Continue(w, t)
  BY DEF Finish
<1> HIDE DEF t
<1>3. SerialTask(t, doc') /\ t.phases \in Seq(Phase)
  BY <1>1, TaskFacts, ShrinkSerial
<1> QED
  BY <1>2, <1>3, TaskFacts, OnlyWorker

(* What apply_row_transition writes: the stored rows with one row moved.    *)
LEMMA WrittenRows ==
    ASSUME IInv, NEW w \in Worker, NEW i \in task[w].todo, i.do \in DOMAIN NewStatus
    PROVE  LET row == Moved(row_updates(task[w].snap.rows[i.seq], i), NewStatus[i.do])
           IN  /\ Written(w, i).rows = [task[w].snap.rows EXCEPT ![i.seq] = row]
               /\ row \in ScheduleRow /\ row.status = NewStatus[i.do]
               /\ i.do = "refund" => row.refund = i.arg
               /\ i.do # "refund" => row.refund = task[w].snap.rows[i.seq].refund
<1> DEFINE rows == task[w].snap.rows
           old == rows[i.seq]
           row == Moved(row_updates(old, i), NewStatus[i.do])
<1>1. rows \in [Seqs -> ScheduleRow] /\ i.seq \in Seqs /\ i.arg \in Nat
  BY DEF IInv, Tasks, GoodTask, GoodDoc, GoodRows, GoodItem, Item
<1>2. old \in ScheduleRow
  BY <1>1
<1> HIDE DEF old
<1>3. row_updates(old, i) \in ScheduleRow
  BY <1>1, <1>2, RowUpdatesTyped
<1>4. /\ i.do = "refund" => row_updates(old, i).refund = i.arg
      /\ i.do # "refund" => row_updates(old, i).refund = old.refund
  <2>1. [old EXCEPT !.refund = i.arg].refund = i.arg
    BY <1>2 DEF ScheduleRow
  <2> QED
    BY <1>1, <1>2, <2>1, PostponedTyped DEF row_updates
<1>5. NewStatus[i.do] \in RowStatus
  BY DEF NewStatus, RowStatus
<1>6. /\ row \in ScheduleRow /\ row.status = NewStatus[i.do]
      /\ row.refund = row_updates(old, i).refund
  BY <1>3, <1>5 DEF Moved, ScheduleRow
<1>7. Written(w, i).rows = [rows EXCEPT ![i.seq] = row]
  BY DEF Written, Schedule, old
<1> QED
  BY <1>4, <1>6, <1>7 DEF old

(* The same, row by row.                                                    *)
LEMMA WrittenFields ==
    ASSUME IInv, NEW w \in Worker, NEW i \in task[w].todo, i.do \in DOMAIN NewStatus
    PROVE  /\ Written(w, i).rows \in [Seqs -> ScheduleRow]
           /\ Written(w, i).rows[i.seq].status = NewStatus[i.do]
           /\ i.do = "refund" => Written(w, i).rows[i.seq].refund = i.arg
           /\ \A s \in Seqs : s # i.seq =>
                  Written(w, i).rows[s] = task[w].snap.rows[s]
<1> DEFINE row == Moved(row_updates(task[w].snap.rows[i.seq], i), NewStatus[i.do])
<1>1. task[w].snap.rows \in [Seqs -> ScheduleRow] /\ i.seq \in Seqs
  BY DEF IInv, Tasks, GoodTask, GoodDoc, GoodRows, GoodItem, Item
<1>2. /\ Written(w, i).rows = [task[w].snap.rows EXCEPT ![i.seq] = row]
      /\ row \in ScheduleRow /\ row.status = NewStatus[i.do]
      /\ i.do = "refund" => row.refund = i.arg
  BY WrittenRows
<1> HIDE DEF row
<1> QED
  BY <1>1, <1>2

(* A button's move is never refused: its copy is the stored document.       *)
LEMMA ButtonAccepted ==
    ASSUME IInv, Serial, NEW w \in Worker, NEW i \in task[w].todo, MoveRow(w, i),
           task[w].op \in Buttons
    PROVE  Accepted(w, i)
<1>1. Agree(task[w].snap.rows, doc.rows) /\ i.seq \in Seqs
  BY LoopFacts DEF MoveRow, Current, IInv, Tasks, GoodTask, GoodItem, Item
<1>2. Deeds(task[w])
  BY TaskFacts DEF SerialTask
<1>3. NewStatus[i.do] \in ALLOWED_TRANSITIONS[task[w].snap.rows[i.seq].status]
  BY <1>2 DEF Deeds, MoveRow
<1> QED
  BY <1>1, <1>3 DEF Accepted, Agree

(* A transition stores what the handler keeps as its copy.                  *)
LEMMA MoveRowSerial ==
    ASSUME IInv, Serial, NEW w \in Worker, Alone(w), NEW i \in task[w].todo,
           MoveRow(w, i)
    PROVE  Serial'
<1>1. SerialTask(task[w], doc) /\ Tasks /\ task[w].phases \in Seq(Phase)
  BY TaskFacts
<1>2. CASE Accepted(w, i)
  <2> DEFINE t == [task[w] EXCEPT !.todo = @ \ {i}, !.snap = Written(w, i)]
  <2>1. /\ t.op = task[w].op /\ t.phases = task[w].phases
        /\ t.snap = Written(w, i) /\ t.todo = task[w].todo \ {i}
    OBVIOUS
  <2>2. Continue(w, t) /\ doc' = Written(w, i)
    BY <1>2 DEF MoveRow, apply_row_transition, Finish
  <2>3. /\ task[w].snap.rows \in [Seqs -> ScheduleRow]
        /\ \A j \in task[w].todo : j.seq \in Seqs
    BY TaskFacts DEF Item
  <2>4. \A s \in Seqs : s # i.seq => Written(w, i).rows[s] = task[w].snap.rows[s]
    BY WrittenFields DEF MoveRow
  <2> HIDE DEF t
  <2>5. Script(t)
    BY <1>1, <2>1 DEF SerialTask, Script
  <2>6. Deeds(t)
    <3>1. t.op \in Buttons => \A j \in t.todo :
             t.snap.rows[j.seq].status = task[w].snap.rows[j.seq].status
      BY <1>1, <2>1, <2>3, <2>4 DEF SerialTask, Deeds, Targeted
    <3> QED
      BY <1>1, <2>1, <3>1 DEF SerialTask, Deeds
  <2>7. Fresh(t, doc')
    BY <2>1, <2>2, AgreeSame DEF Fresh
  <2> QED
    BY <1>1, <2>1, <2>2, <2>5, <2>6, <2>7, OnlyWorker DEF SerialTask
<1>3. CASE ~Accepted(w, i)
  <2>1. (Stop(w) \/ Finish(w, i, task[w].snap)) /\ UNCHANGED doc
    BY <1>3 DEF MoveRow, apply_row_transition
  <2> QED
    BY <1>1, <2>1, StopSerial, FinishSerial, AgreeSame
<1> QED
  BY <1>2, <1>3

(* A targeted update of due date or marks shows no other row to a copy.     *)
LEMMA TargetedAgree ==
    ASSUME IInv, NEW s \in Seqs, NEW row \in ScheduleRow,
           row.status = doc.rows[s].status, row.paid_at = doc.rows[s].paid_at,
           row.refund = doc.rows[s].refund,
           doc' = [doc EXCEPT !.rows = [doc.rows EXCEPT ![s] = row]]
    PROVE  Agree(doc.rows, doc'.rows)
<1>1. doc.rows \in [Seqs -> ScheduleRow]
  BY DEF IInv, Stored, GoodDoc, GoodRows
<1>2. doc'.rows = [doc.rows EXCEPT ![s] = row]
  <2>1. doc = Schedule(doc.rows)
    BY DEF IInv, Stored, GoodDoc
  <2> QED
    BY <2>1 DEF Schedule
<1> QED
  BY <1>1, <1>2 DEF Agree

(* Postponing a pending row shows no other row to a copy.                   *)
LEMMA PostponeAgree ==
    ASSUME IInv, NEW w \in Worker, NEW i \in task[w].todo, PostponePending(w, i)
    PROVE  Agree(doc.rows, doc'.rows)
<1> DEFINE row == [doc.rows[i.seq] EXCEPT !.due_at = i.arg, !.reminders_sent = {}]
<1>1. i.seq \in Seqs /\ i.arg \in Nat /\ doc.rows[i.seq] \in ScheduleRow
  BY DEF IInv, Tasks, GoodTask, GoodItem, Item, Stored, GoodDoc, GoodRows
<1>2. /\ row \in ScheduleRow
      /\ row.status = doc.rows[i.seq].status
      /\ row.paid_at = doc.rows[i.seq].paid_at
      /\ row.refund = doc.rows[i.seq].refund
  BY <1>1, PostponedTyped
<1>3. doc' = [doc EXCEPT !.rows = [doc.rows EXCEPT ![i.seq] = row]]
  BY DEF PostponePending
<1> HIDE DEF row
<1> QED
  BY <1>1, <1>2, <1>3, TargetedAgree

(* Nor does the mark of a reminder.                                         *)
LEMMA MarkAgree ==
    ASSUME IInv, NEW w \in Worker, NEW i \in task[w].todo, MarkReminder(w, i)
    PROVE  Agree(doc.rows, doc'.rows)
<1> DEFINE row == [doc.rows[i.seq] EXCEPT
                     !.reminders_sent = doc.rows[i.seq].reminders_sent \cup {i.do}]
<1>1. i.seq \in Seqs /\ doc.rows[i.seq] \in ScheduleRow /\ i.do \in ReminderKind
  BY DEF IInv, Tasks, GoodTask, GoodItem, Item, Stored, GoodDoc, GoodRows, MarkReminder
<1>2. /\ row \in ScheduleRow
      /\ row.status = doc.rows[i.seq].status
      /\ row.paid_at = doc.rows[i.seq].paid_at
      /\ row.refund = doc.rows[i.seq].refund
  BY <1>1 DEF ScheduleRow
<1>3. \/ UNCHANGED doc
      \/ doc' = [doc EXCEPT !.rows = [doc.rows EXCEPT ![i.seq] = row]]
  BY DEF MarkReminder
<1> HIDE DEF row
<1> QED
  BY <1>1, <1>2, <1>3, TargetedAgree, AgreeSame

(* Writing ahead of a reminder puts the mail, and for the last one the      *)
(* escalation, in the list of a scan.                                       *)
LEMMA MarkReminderSerial ==
    ASSUME IInv, Serial, NEW w \in Worker, Alone(w), NEW i \in task[w].todo,
           MarkReminder(w, i)
    PROVE  Serial'
<1> DEFINE items == {Marked(i)} \cup
                      (IF i.do = "t+7" THEN {Do(i.seq, "at_risk", 0)} ELSE {})
           t == [task[w] EXCEPT !.todo = (@ \ {i}) \cup items]
<1>1. Agree(doc.rows, doc'.rows)
  BY MarkAgree
<1>2. SerialTask(task[w], doc) /\ Tasks /\ task[w].phases \in Seq(Phase)
  BY TaskFacts
<1>3. i.do \in ReminderKind /\ task[w].phases # <<>> /\ Head(task[w].phases) = "rows"
  BY DEF MarkReminder, Current, At, InFlight
<1>4. i \in Item
  BY TaskFacts
<1>5. CASE Finish(w, i, task[w].snap)
  BY <1>1, <1>5, FinishSerial
<1>6. CASE Replace(w, i, items)
  <2>1. /\ t.op = task[w].op /\ t.phases = task[w].phases
        /\ t.snap = task[w].snap /\ t.todo = (task[w].todo \ {i}) \cup items
    OBVIOUS
  <2>2. Continue(w, t)
    BY <1>6 DEF Replace
  <2>3. \A j \in items : j.do # "refund"
    BY <1>3, <1>4 DEF Marked, Do, Item, ReminderKind
  <2>4. task[w].op \notin Targeted
    BY <1>2, <1>3 DEF SerialTask, Deeds, Targeted, RefundOps, Buttons, ReminderKind
  <2> HIDE DEF t, items
  <2>5. Script(t)
    BY <1>2, <2>1 DEF SerialTask, Script
  <2>6. Deeds(t)
    BY <1>2, <1>3, <2>1, <2>3, <2>4 DEF SerialTask, Deeds, Targeted, Buttons
  <2>7. Fresh(t, doc')
    BY <1>1, <1>2, <2>1 DEF SerialTask, Fresh, Agree
  <2> QED
    BY <1>2, <2>1, <2>2, <2>5, <2>6, <2>7, OnlyWorker DEF SerialTask
<1> QED
  BY <1>5, <1>6 DEF MarkReminder

(* The answer of Stripe is kept on the operation.                           *)
LEMMA StripeRefundSerial ==
    ASSUME IInv, Serial, NEW w \in Worker, Alone(w), NEW i \in task[w].todo,
           StripeRefund(w, i)
    PROVE  Serial'
<1> DEFINE t == [task[w] EXCEPT !.todo = (@ \ {i}) \cup {Marked(i)}]
<1>1. SerialTask(task[w], doc) /\ Tasks /\ task[w].phases \in Seq(Phase) /\ i \in Item
  BY TaskFacts
<1>2. i.do = "refund" /\ task[w].phases # <<>> /\ Head(task[w].phases) = "rows"
  BY DEF StripeRefund, Current, At, InFlight
<1>3. CASE Stop(w)
  BY <1>1, <1>3, StopSerial
<1>4. CASE Replace(w, i, {Marked(i)})
  <2>1. /\ t.op = task[w].op /\ t.phases = task[w].phases
        /\ t.snap = task[w].snap /\ t.todo = (task[w].todo \ {i}) \cup {Marked(i)}
    OBVIOUS
  <2>2. Continue(w, t) /\ UNCHANGED doc
    BY <1>4 DEF Replace, StripeRefund
  <2>3. Marked(i).do = i.do /\ Marked(i).seq = i.seq
    BY <1>1 DEF Marked, Item
  <2>4. task[w].op \in RefundOps /\ task[w].op \notin Buttons \cup {"paylink"}
    BY <1>1, <1>2 DEF SerialTask, Deeds, RefundOps, Buttons
  <2> HIDE DEF t
  <2>5. Script(t)
    BY <1>1, <2>1 DEF SerialTask, Script
  <2>6. Deeds(t)
    <3>1. \A j \in t.todo : \/ j \in task[w].todo /\ j # i
                            \/ j = Marked(i)
      BY <2>1
    <3>2. \A j, k \in t.todo : j.seq = k.seq => j = k
      BY <1>1, <2>3, <2>4, <3>1 DEF SerialTask, Deeds, Targeted
    <3>3. \A j \in t.todo : j.do \in {"refund", "cancel"}
      BY <1>1, <1>2, <2>3, <2>4, <3>1 DEF SerialTask, Deeds
    <3> QED
      BY <1>2, <2>1, <2>4, <3>2, <3>3 DEF Deeds, RefundOps
  <2>7. Fresh(t, doc')
    BY <1>1, <2>1, <2>2 DEF SerialTask, Fresh
  <2> QED
    BY <1>1, <2>1, <2>2, <2>5, <2>6, <2>7, OnlyWorker DEF SerialTask
<1> QED
  BY <1>3, <1>4 DEF StripeRefund

(* Every step of a row operation keeps the copy fresh.                      *)
LEMMA RowStepSerial ==
    ASSUME IInv, Serial, NEW w \in Worker, Alone(w), RowStep(w)
    PROVE  Serial'
<1>1. PICK i \in task[w].todo :
        \/ MoveRow(w, i) \/ PostponePending(w, i) \/ StripeRefund(w, i)
        \/ MarkReminder(w, i) \/ MailReminder(w, i)
  BY DEF RowStep
<1>2. CASE PostponePending(w, i)
  <2>1. Finish(w, i, task[w].snap)
    BY <1>2 DEF PostponePending
  <2> QED
    BY <1>2, <2>1, PostponeAgree, FinishSerial
<1>3. CASE MailReminder(w, i)
  <2>1. Finish(w, i, task[w].snap) /\ UNCHANGED doc
    BY <1>3 DEF MailReminder
  <2> QED
    BY <2>1, AgreeSame, FinishSerial
<1> QED
  BY <1>1, <1>2, <1>3, MoveRowSerial, StripeRefundSerial, MarkReminderSerial

-----------------------------------------------------------------------------
(* The invariant of handlers that come one after another. *)

(* It holds of the first state: nobody is running.                          *)
LEMMA InitSerial == Init => Serial
BY IdleSerial DEF Init, Serial

(* A worker without a phase left is idle, and two are in flight only after  *)
(* handlers have overlapped.                                                *)
OneFlight ==
    /\ \A w \in Worker : InFlight(w) \/ task[w] = Idle
    /\ ~overlapped => \A v, w \in Worker : InFlight(v) /\ InFlight(w) => v = w

(* A step of a handler in flight.                                           *)
LEMMA StepFrame ==
    ASSUME NEW w \in Worker, Step(w)
    PROVE  /\ InFlight(w) /\ UNCHANGED overlapped
           /\ Stop(w) \/ \E t : Continue(w, t)
<1>1. CASE RowStep(w)
  <2>1. PICK i \in task[w].todo :
          \/ MoveRow(w, i) \/ PostponePending(w, i) \/ StripeRefund(w, i)
          \/ MarkReminder(w, i) \/ MailReminder(w, i)
    BY <1>1 DEF RowStep
  <2> QED
    BY <2>1 DEF MoveRow, PostponePending, StripeRefund, MarkReminder, MailReminder,
         Current, At, Finish, Replace, apply_row_transition
<1>2. CASE ReadOrder(w) \/ Collect(w) \/ Read(w) \/ OpenSession(w)
  BY <1>2 DEF ReadOrder, Collect, Read, OpenSession, At, EndPhase
<1>3. CASE Mirror(w) \/ Confirm(w) \/ CancelTheOrder(w) \/ StampPaid(w)
  BY <1>3 DEF Mirror, Confirm, CancelTheOrder, StampPaid, At, EndPhase
<1> QED
  BY <1>1, <1>2, <1>3 DEF Step

(* A handler that starts.                                                   *)
LEMMA StartFrame ==
    ASSUME NEW w \in Worker, Request(w) \/ Scan(w) \/ \E s \in Seqs : Webhook(w, s)
    PROVE  /\ ~InFlight(w) /\ overlapped' = (overlapped \/ ~Quiescent)
           /\ \E t : Continue(w, t)
<1>1. ASSUME NEW op, NEW s, NEW phases, NEW todo, NEW snap,
             Begin(w, op, s, phases, todo, snap)
      PROVE  /\ ~InFlight(w) /\ overlapped' = (overlapped \/ ~Quiescent)
             /\ \E t : Continue(w, t)
  BY <1>1 DEF Begin
<1>2. ASSUME NEW op, NEW s, NEW phases, NEW todo, NEW snap,
             Start(w, op, s, phases, todo, snap)
      PROVE  /\ ~InFlight(w) /\ overlapped' = (overlapped \/ ~Quiescent)
             /\ \E t : Continue(w, t)
  BY <1>1, <1>2 DEF Start
<1>3. CASE Request(w)
  BY <1>2, <1>3 DEF Request, PayLink, MarkPaidManual, Waive, Postpone, Settle, Verify,
       MarkOrderPaid, MarkOrderUnpaid, Refund
<1>4. CASE Scan(w)
  BY <1>1, <1>4 DEF Scan
<1>5. CASE \E s \in Seqs : Webhook(w, s)
  BY <1>1, <1>5 DEF Webhook
<1> QED
  BY <1>3, <1>4, <1>5

(* While nothing has overlapped, whoever takes a step is alone.             *)
LEMMA StepAlone ==
    ASSUME OneFlight, ~overlapped, NEW w \in Worker, InFlight(w)
    PROVE  Alone(w)
BY DEF OneFlight, Alone

LEMMA StartAlone ==
    ASSUME OneFlight, ~overlapped', NEW w \in Worker,
           overlapped' = (overlapped \/ ~Quiescent)
    PROVE  Alone(w)
BY DEF OneFlight, Alone, Quiescent

LEMMA InitOneFlight == Init => OneFlight
BY DEF Init, OneFlight, InFlight, Idle

LEMMA NextOneFlight ==
    ASSUME IInv, OneFlight, [Next]_vars
    PROVE  OneFlight' /\ (~overlapped' => ~overlapped)
<1>1. ASSUME NEW w \in Worker, Stop(w) \/ \E t : Continue(w, t)
      PROVE  /\ \A v \in Worker : v # w => task'[v] = task[v]
             /\ task'[w].phases # <<>> \/ task'[w] = Idle
  <2>1. DOMAIN task = Worker
    BY DEF IInv, Tasks
  <2>2. ASSUME NEW t PROVE Settled(t).phases # <<>> \/ Settled(t) = Idle
    <3> DEFINE phases == IF t.phases # <<>> /\ Head(t.phases) = "rows" /\ t.todo = {}
                           THEN Tail(t.phases) ELSE t.phases
    <3>1. Settled(t) = IF phases = <<>> THEN Idle ELSE [t EXCEPT !.phases = phases]
      BY DEF Settled
    <3> HIDE DEF phases
    <3> QED
      BY <3>1
  <2> QED
    BY <1>1, <2>1, <2>2 DEF Stop, Continue
<1>2. ASSUME NEW w \in Worker, InFlight(w), UNCHANGED overlapped,
             Stop(w) \/ \E t : Continue(w, t)
      PROVE  OneFlight' /\ (~overlapped' => ~overlapped)
  <2>1. /\ \A v \in Worker : v # w => task'[v] = task[v]
        /\ task'[w].phases # <<>> \/ task'[w] = Idle
    BY <1>1, <1>2
  <2>2. \A v \in Worker : InFlight(v)' => InFlight(v)
    BY <1>2, <2>1 DEF InFlight
  <2> QED
    BY <1>2, <2>1, <2>2 DEF OneFlight, InFlight
<1>3. ASSUME NEW w \in Worker,
             Request(w) \/ Scan(w) \/ \E s \in Seqs : Webhook(w, s)
      PROVE  OneFlight' /\ (~overlapped' => ~overlapped)
  <2>1. /\ ~InFlight(w) /\ overlapped' = (overlapped \/ ~Quiescent)
        /\ \E t : Continue(w, t)
    BY <1>3, StartFrame
  <2>2. /\ \A v \in Worker : v # w => task'[v] = task[v]
        /\ task'[w].phases # <<>> \/ task'[w] = Idle
    BY <1>1, <2>1
  <2>3. ~overlapped' => \A v \in Worker : v # w => ~InFlight(v)'
    BY <2>1, <2>2 DEF Quiescent, InFlight
  <2> QED
    BY <2>1, <2>2, <2>3 DEF OneFlight, InFlight
<1>4. ASSUME UNCHANGED <<task, overlapped>>
      PROVE  OneFlight' /\ (~overlapped' => ~overlapped)
  BY <1>4 DEF OneFlight, InFlight
<1>5. ASSUME NEW w \in Worker, Step(w) PROVE OneFlight' /\ (~overlapped' => ~overlapped)
  BY <1>2, <1>5, StepFrame
<1>6. ASSUME NEW w \in Worker, Crash(w) PROVE OneFlight' /\ (~overlapped' => ~overlapped)
  BY <1>2, <1>6 DEF Crash
<1>7. CASE (\E s \in Seqs : CustomerPays(s)) \/ Tick \/ UNCHANGED vars
  BY <1>4, <1>7 DEF CustomerPays, Tick, vars
<1>8. CASE OperatorCancels \/ OperatorConfirms \/ OperatorCompletes
  BY <1>4, <1>8 DEF OperatorCancels, OperatorConfirms, OperatorCompletes
<1> QED
  BY <1>3, <1>5, <1>6, <1>7, <1>8 DEF Next

(* It is inductive, together with IInv and OneFlight.                       *)
LEMMA NextSerial ==
    ASSUME IInv, OneFlight, ~overlapped => Serial, [Next]_vars, ~overlapped'
    PROVE  Serial'
<1>1. Tasks /\ Serial /\ ~overlapped
  BY NextOneFlight DEF IInv
<1>2. ASSUME NEW w \in Worker, Request(w) PROVE Serial'
  <2>1. Alone(w)
    BY <1>2, StartFrame, StartAlone
  <2> QED
    BY <1>1, <1>2, <2>1, PayLinkSerial, ButtonsSerial, LateReadersSerial, UnpaidSerial,
       RefundSerial DEF Request
<1>3. ASSUME NEW w \in Worker, Scan(w) PROVE Serial'
  <2>1. Alone(w)
    BY <1>3, StartFrame, StartAlone
  <2> QED
    BY <1>1, <1>3, <2>1, ScanSerial
<1>4. ASSUME NEW w \in Worker, Step(w) PROVE Serial'
  <2>1. Alone(w)
    BY <1>1, <1>4, StepFrame, StepAlone
  <2> QED
    BY <1>1, <1>4, <2>1, ReadOrderSerial, OrderPhasesSerial, ReadSerial, RowStepSerial
       DEF Step
<1>5. ASSUME NEW w \in Worker, Crash(w) PROVE Serial'
  <2>1. Alone(w)
    BY <1>1, <1>5, StepAlone DEF Crash
  <2> QED
    BY <1>1, <1>5, <2>1, StopSerial DEF Crash
<1>6. ASSUME NEW w \in Worker, NEW s \in Seqs, Webhook(w, s) PROVE Serial'
  <2>1. Alone(w)
    BY <1>6, StartFrame, StartAlone
  <2> QED
    BY <1>6, <2>1, LateReadersSerial
<1>7. ASSUME NEW s \in Seqs, CustomerPays(s) PROVE Serial'
  BY <1>1, <1>7 DEF CustomerPays, Serial
<1>8. CASE OperatorCancels \/ OperatorConfirms \/ OperatorCompletes
  BY <1>1, <1>8 DEF OperatorCancels, OperatorConfirms, OperatorCompletes, Serial
<1>9. CASE Tick
  BY <1>1, <1>9 DEF Tick, Serial
<1>10. CASE UNCHANGED vars
  BY <1>1, <1>10 DEF vars, Serial
<1> QED
  BY <1>2, <1>3, <1>4, <1>5, <1>6, <1>7, <1>8, <1>9, <1>10 DEF Next

(* Until two handlers overlap, a copy that has been read shows the stored   *)
(* rows until its handler ends, restarts included.                          *)
THEOREM AlwaysFresh == Spec => [](IInv /\ OneFlight /\ (~overlapped => Serial))
<1>1. Init => IInv /\ OneFlight /\ (~overlapped => Serial)
  BY InitGood, InitOneFlight, InitSerial
<1>2. IInv /\ OneFlight /\ (~overlapped => Serial) /\ [Next]_vars
        => (IInv /\ OneFlight /\ (~overlapped => Serial))'
  BY NextGood, NextOneFlight, NextSerial
<1> QED
  BY <1>1, <1>2, PTL DEF Spec

-----------------------------------------------------------------------------
(* The abstract ledger. *)

(* The status of every row, as the abstract ledger sees it. *)
Status(d) == [s \in Seqs |-> d.rows[s].status]

(* Rows that agree have the same status.                                    *)
LEMMA AgreeStatus == \A d, e : Agree(d.rows, e.rows) => Status(e) = Status(d)
BY DEF Agree, Status

(* A transition moves the status of one row as the state machine allows, or *)
(* nothing.                                                                 *)
LEMMA MoveRowLedger ==
    ASSUME IInv, Serial, NEW w \in Worker, NEW i \in task[w].todo, MoveRow(w, i)
    PROVE  \/ UNCHANGED doc
           \/ \E s \in Seqs : \E new \in ALLOWED_TRANSITIONS[Status(doc)[s]] :
                Status(doc)' = [Status(doc) EXCEPT ![s] = new]
<1>1. /\ Agree(task[w].snap.rows, doc.rows) /\ i.seq \in Seqs
      /\ task[w].snap.rows \in [Seqs -> ScheduleRow]
  BY LoopFacts, TaskFacts DEF MoveRow, Current, Item
<1>2. CASE Accepted(w, i)
  <2> DEFINE new == NewStatus[i.do]
  <2>1. doc' = Written(w, i)
    BY <1>2 DEF MoveRow, apply_row_transition
  <2>2. new \in ALLOWED_TRANSITIONS[Status(doc)[i.seq]]
    BY <1>1, <1>2 DEF Accepted, Status
  <2>3. /\ Written(w, i).rows[i.seq].status = new
        /\ \A s \in Seqs : s # i.seq =>
              Written(w, i).rows[s] = task[w].snap.rows[s]
    BY WrittenFields DEF MoveRow
  <2> HIDE DEF new
  <2>4. \A s \in Seqs : doc'.rows[s].status =
              IF s = i.seq THEN new ELSE doc.rows[s].status
    BY <1>1, <2>1, <2>3 DEF Agree
  <2>5. Status(doc)' = [Status(doc) EXCEPT ![i.seq] = new]
    BY <2>4 DEF Status
  <2> QED
    BY <1>1, <2>2, <2>5
<1>3. CASE ~Accepted(w, i)
  BY <1>3 DEF MoveRow, apply_row_transition
<1> QED
  BY <1>2, <1>3

(* Every other step leaves the statuses alone.                              *)
LEMMA NextLedger ==
    ASSUME IInv, Serial, [Next]_vars
    PROVE  \/ Status(doc)' = Status(doc)
           \/ \E s \in Seqs : \E new \in ALLOWED_TRANSITIONS[Status(doc)[s]] :
                Status(doc)' = [Status(doc) EXCEPT ![s] = new]
<1>1. UNCHANGED doc => Status(doc)' = Status(doc)
  BY DEF Status
<1>2. ASSUME NEW w \in Worker, Request(w) PROVE UNCHANGED doc
  BY <1>2 DEF Request, Start, Begin, PayLink, MarkPaidManual, Waive, Postpone, Settle,
              Verify, MarkOrderPaid, MarkOrderUnpaid, Refund
<1>3. ASSUME NEW w \in Worker, Scan(w) PROVE UNCHANGED doc
  BY <1>3 DEF Scan, Begin
<1>4. ASSUME NEW w \in Worker, NEW s \in Seqs, Webhook(w, s) PROVE UNCHANGED doc
  BY <1>4 DEF Webhook, Begin
<1>5. ASSUME NEW w \in Worker, Step(w), ~RowStep(w) PROVE UNCHANGED doc
  BY <1>5 DEF Step, ReadOrder, Collect, Read, OpenSession, Mirror, Confirm,
              CancelTheOrder, StampPaid
<1>6. ASSUME NEW w \in Worker, RowStep(w)
      PROVE  \/ UNCHANGED doc
             \/ Status(doc)' = Status(doc)
             \/ \E s \in Seqs : \E new \in ALLOWED_TRANSITIONS[Status(doc)[s]] :
                  Status(doc)' = [Status(doc) EXCEPT ![s] = new]
  <2>1. PICK i \in task[w].todo :
          \/ MoveRow(w, i) \/ PostponePending(w, i) \/ StripeRefund(w, i)
          \/ MarkReminder(w, i) \/ MailReminder(w, i)
    BY <1>6 DEF RowStep
  <2>2. CASE MoveRow(w, i)
    BY <2>2, MoveRowLedger
  <2>3. CASE PostponePending(w, i)
    BY <2>3, PostponeAgree, AgreeStatus
  <2>4. CASE MarkReminder(w, i)
    BY <2>4, MarkAgree, AgreeStatus
  <2>5. CASE StripeRefund(w, i) \/ MailReminder(w, i)
    BY <2>5 DEF StripeRefund, MailReminder
  <2> QED
    BY <2>1, <2>2, <2>3, <2>4, <2>5
<1>7. ASSUME NEW w \in Worker, Crash(w) PROVE UNCHANGED doc
  BY <1>7 DEF Crash
<1>8. ASSUME NEW s \in Seqs, CustomerPays(s) PROVE UNCHANGED doc
  BY <1>8 DEF CustomerPays
<1>9. ASSUME OperatorCancels \/ OperatorConfirms \/ OperatorCompletes \/ Tick
             \/ UNCHANGED vars
      PROVE  UNCHANGED doc
  BY <1>9 DEF OperatorCancels, OperatorConfirms, OperatorCompletes, Tick, vars
<1> QED
  BY <1>1, <1>2, <1>3, <1>4, <1>5, <1>6, <1>7, <1>8, <1>9 DEF Next

(* The rows implement the abstract ledger: until two handlers overlap every *)
(* stored change of a status is one allowed move of one row, whatever the   *)
(* operations, the clock, the restarts and the number of rows.              *)
THEOREM LedgerImplemented == Spec => LedgerRefined
<1>1. Init => Ledger!Init
  <2> SUFFICES ASSUME NEW online \in BOOLEAN, doc = NewSchedule(online)
               PROVE  Status(doc) \in [Seqs -> {"pending", "processing"}]
    BY DEF Init, Ledger!Init, Status
  <2>1. \A s \in Seqs : doc.rows[s].status \in {"pending", "processing"}
    BY DEF NewSchedule, Schedule, NewRow
  <2> QED
    BY <2>1 DEF Status
<1>2. IInv /\ OneFlight /\ (~overlapped => Serial) /\ [Next]_vars
        => [Ledger!Next]_<<Status(doc), overlapped>>
  <2> SUFFICES ASSUME IInv, OneFlight, ~overlapped => Serial, [Next]_vars
               PROVE  [Ledger!Next]_<<Status(doc), overlapped>>
    OBVIOUS
  <2>1. IInv' /\ overlapped \in BOOLEAN /\ overlapped' \in BOOLEAN
    BY NextGood DEF IInv, Counters
  <2>2. CASE overlapped'
    <3>1. \A s \in Seqs : doc'.rows[s].status \in RowStatus
      BY <2>1 DEF IInv, Stored, GoodDoc, GoodRows, ScheduleRow
    <3>2. Status(doc)' \in [Seqs -> Ledger!RowStatus]
      BY <3>1 DEF Status, RowStatus, Ledger!RowStatus
    <3> QED
      BY <2>1, <2>2, <3>2 DEF Ledger!Next, Ledger!Contend, Status
  <2>3. CASE ~overlapped'
    <3>1. Serial /\ UNCHANGED overlapped
      BY <2>1, <2>3, NextOneFlight
    <3>2. ASSUME NEW s \in Seqs, NEW new \in ALLOWED_TRANSITIONS[Status(doc)[s]],
                 Status(doc)' = [Status(doc) EXCEPT ![s] = new]
          PROVE  Ledger!Next
      BY <3>1, <3>2 DEF Ledger!Next, Ledger!MoveRow, Ledger!ALLOWED_TRANSITIONS,
           ALLOWED_TRANSITIONS, Status
    <3> QED
      BY <3>1, <3>2, NextLedger
  <2> QED
    BY <2>2, <2>3
<1>3. Status(doc) = [s \in Seqs |-> doc.rows[s].status]
  BY DEF Status
<1> QED
  BY <1>1, <1>2, <1>3, AlwaysFresh, PTL DEF Spec, LedgerRefined, Ledger!Spec, Status

-----------------------------------------------------------------------------
(* What Kept says of the one worker. *)

(* The rest of a settlement survives the end of its loop, unless every row  *)
(* is closed by then.                                                       *)
LEMMA SettledClosing ==
    ASSUME NEW t, t.phases \in Seq(Phase), NEW d, Closing(t, d)
    PROVE  \/ NoneOpen(d)
           \/ /\ Settled(t).phases # <<>> /\ Settled(t).op = t.op
              /\ Closing(Settled(t), d)
<1> DEFINE u == Settled(t)
<1>1. u = Settled(t)
  OBVIOUS
<1> HIDE DEF u
<1>2. ~Has(<<>>, "read") /\ ~Has(<<>>, "rows") /\ Idle.phases = <<>>
  BY DEF Has, Idle
<1>3. Has(t.phases, "read") => Has(u.phases, "read")
  BY <1>1, SettledHas
<1>4. CASE Has(t.phases, "read")
  BY <1>1, <1>2, <1>3, <1>4, SettledCases DEF Closing
<1>5. CASE /\ Has(t.phases, "rows")
           /\ \A s \in Seqs : d.rows[s].status \in PAYABLE_STATES =>
                Do(s, "paid_manual", 0) \in t.todo
  <2>1. CASE t.todo = {}
    BY <1>5, <2>1 DEF NoneOpen
  <2>2. CASE t.todo # {}
    BY <1>1, <1>2, <1>5, <2>2, SettledCases DEF Closing
  <2> QED
    BY <2>1, <2>2
<1> QED
  BY <1>1, <1>4, <1>5 DEF Closing

(* An answer of Stripe that is not on record yet is not dropped.            *)
LEMMA SettledGivenBack ==
    ASSUME NEW t, t.phases \in Seq(Phase), t.phases # <<>>, NEW s, NEW m,
           GivenBack(t, s, m)
    PROVE  GivenBack(Settled(t), s, m)
<1> DEFINE u == Settled(t)
<1>1. u = Settled(t) /\ t.todo # {}
  BY DEF GivenBack
<1> HIDE DEF u
<1>2. u.todo = t.todo
  BY <1>1, SettledCases
<1> QED
  BY <1>1, <1>2 DEF GivenBack

(* What is left of Kept to show of the task a worker goes on with.          *)
LEMMA ContinueKept ==
    ASSUME Tasks, NEW w \in Worker, Alone(w), NEW t, t.phases \in Seq(Phase),
           Continue(w, t),
           \/ order'.payment_state = doc'.payment_state
           \/ Has(t.phases, "mirror") /\ ~Unread(t.phases),
           \A s \in Seqs : returned'[s] > 0 =>
               \/ doc'.rows[s].status = "refunded" /\ doc'.rows[s].refund = returned'[s]
               \/ /\ doc'.rows[s].status = "paid"
                  /\ t.phases # <<>> /\ GivenBack(t, s, returned'[s]),
           order'.payment_status = "paid" => order'.status # "draft",
           order'.status = "draft" /\ Has(t.phases, "paid") => Has(t.phases, "confirm"),
           t.op \in Settlements => Closing(t, doc'),
           order'.status = "confirmed" /\ order'.payment_status = "paid" =>
               NoneOpen(doc') \/ t.op = "mark_paid"
    PROVE  Kept'
<1>1. task'[w] = Settled(t) /\ \A v \in Worker : v # w => task'[v] = Idle
  BY DEF Continue, Tasks, Alone
<1>9. Idle.phases = <<>> /\ ~Has(<<>>, "paid")
  BY DEF Idle, Has
<1>2. \A a : a # "rows" => (Has(task'[w].phases, a) <=> Has(t.phases, a))
  BY <1>1, SettledHas
<1>3. Mirrored'
  BY <1>2 DEF Mirrored, Unread
<1>4. Returned'
  <2>1. ASSUME NEW s \in Seqs, t.phases # <<>>, GivenBack(t, s, returned'[s])
        PROVE  GivenBack(task'[w], s, returned'[s])
    BY <1>1, <2>1, SettledGivenBack
  <2> QED
    BY <2>1 DEF Returned
<1>5. Stamped'
  BY <1>1, <1>2, <1>9 DEF Stamped
<1>6. Settling'
  <2>1. task'[w].phases # <<>> => task'[w].op = t.op
    <3>1. Idle.phases = <<>>
      BY DEF Idle
    <3> QED
      BY <1>1, <3>1, SettledCases
  <2>2. t.op \in Settlements =>
          NoneOpen(doc') \/ (task'[w].phases # <<>> /\ Closing(task'[w], doc'))
    <3>1. t.op \in Settlements =>
            \/ NoneOpen(doc')
            \/ Settled(t).phases # <<>> /\ Closing(Settled(t), doc')
      BY SettledClosing
    <3> QED
      BY <1>1, <3>1
  <2>3. \A v \in Worker : InFlight(v)' /\ task'[v].op \in Settlements =>
            Closing(task'[v], doc')
    <3>1. ASSUME task'[w].phases # <<>>, task'[w].op \in Settlements
          PROVE  Closing(task'[w], doc')
      BY <2>1, <2>2, <3>1 DEF Closing
    <3> QED
      BY <1>1, <1>9, <3>1 DEF InFlight
  <2>4. t.op = "mark_paid" =>
          NoneOpen(doc') \/ (task'[w].phases # <<>> /\ task'[w].op = "mark_paid")
    BY <2>1, <2>2 DEF Settlements
  <2>5. order'.status = "confirmed" /\ order'.payment_status = "paid" =>
            \/ NoneOpen(doc')
            \/ \E v \in Worker : InFlight(v)' /\ task'[v].op = "mark_paid"
    BY <2>4 DEF InFlight
  <2> QED
    BY <2>3, <2>5 DEF Settling
<1> QED
  BY <1>3, <1>4, <1>5, <1>6 DEF Kept

(* A handler that ends early must leave everything said.                    *)
LEMMA StopKept ==
    ASSUME Tasks, NEW w \in Worker, Alone(w), Stop(w),
           order'.payment_state = doc'.payment_state,
           \A s \in Seqs : returned'[s] > 0 =>
               doc'.rows[s].status = "refunded" /\ doc'.rows[s].refund = returned'[s],
           order'.payment_status = "paid" => order'.status # "draft",
           order'.status = "confirmed" /\ order'.payment_status = "paid" =>
               NoneOpen(doc')
    PROVE  Kept'
<1>1. \A v \in Worker : task'[v] = Idle
  BY DEF Stop, Tasks, Alone
<1>2. Idle.phases = <<>> /\ Idle.op = "idle" /\ ~Has(<<>>, "paid")
  BY DEF Idle, Has
<1>3. Mirrored' /\ Returned' /\ Stamped'
  BY <1>1, <1>2 DEF Mirrored, Returned, Stamped
<1>4. Settling'
  BY <1>1, <1>2 DEF Settling, InFlight
<1> QED
  BY <1>3, <1>4 DEF Kept

(* What a worker that is alone finds.                                       *)
LEMMA KeptFacts ==
    ASSUME Serial, Kept, NEW w \in Worker, Alone(w)
    PROVE  /\ \/ order.payment_state = doc.payment_state
              \/ Has(task[w].phases, "mirror") /\ ~Unread(task[w].phases)
           /\ \A s \in Seqs : returned[s] > 0 =>
                \/ doc.rows[s].status = "refunded" /\ doc.rows[s].refund = returned[s]
                \/ doc.rows[s].status = "paid" /\ GivenBack(task[w], s, returned[s])
           /\ order.payment_status = "paid" => order.status # "draft"
           /\ order.status = "draft" /\ Has(task[w].phases, "paid") =>
                Has(task[w].phases, "confirm")
           /\ InFlight(w) /\ task[w].op \in Settlements => Closing(task[w], doc)
           /\ order.status = "confirmed" /\ order.payment_status = "paid" =>
                NoneOpen(doc) \/ (InFlight(w) /\ task[w].op = "mark_paid")
           /\ ~At(w, "rows") => \A s, m : ~GivenBack(task[w], s, m)
<1>1. \A v \in Worker : v # w =>
        /\ ~Has(task[v].phases, "mirror") /\ ~InFlight(v)
        /\ \A s, m : ~GivenBack(task[v], s, m)
  BY DEF Alone, Idle, Has, InFlight, GivenBack
<1>2. Deeds(task[w])
  BY DEF Serial, SerialTask
<1>3. ~At(w, "rows") => \A s, m : ~GivenBack(task[w], s, m)
  BY <1>2 DEF Deeds, GivenBack, At, InFlight
<1>4. /\ \/ order.payment_state = doc.payment_state
         \/ Has(task[w].phases, "mirror") /\ ~Unread(task[w].phases)
      /\ \A s \in Seqs : returned[s] > 0 =>
           \/ doc.rows[s].status = "refunded" /\ doc.rows[s].refund = returned[s]
           \/ doc.rows[s].status = "paid" /\ GivenBack(task[w], s, returned[s])
  BY <1>1 DEF Kept, Mirrored, Returned
<1>5. /\ order.payment_status = "paid" => order.status # "draft"
      /\ order.status = "draft" /\ Has(task[w].phases, "paid") =>
           Has(task[w].phases, "confirm")
  BY DEF Kept, Stamped
<1>6. /\ InFlight(w) /\ task[w].op \in Settlements => Closing(task[w], doc)
      /\ order.status = "confirmed" /\ order.payment_status = "paid" =>
           NoneOpen(doc) \/ (InFlight(w) /\ task[w].op = "mark_paid")
  BY <1>1 DEF Kept, Settling
<1> QED
  BY <1>3, <1>4, <1>5, <1>6

(* No allowed move opens a row again.                                       *)
LEMMA PayableFrom ==
    ASSUME IInv, Serial, [Next]_vars, NEW s \in Seqs,
           doc'.rows[s].status \in PAYABLE_STATES
    PROVE  doc.rows[s].status \in PAYABLE_STATES
<1>1. Status(doc)[s] \in RowStatus /\ Status(doc)[s] = doc.rows[s].status
      /\ Status(doc)'[s] = doc'.rows[s].status
  <2>1. doc.rows[s] \in ScheduleRow
    BY DEF IInv, Stored, GoodDoc, GoodRows
  <2> QED
    BY <2>1 DEF ScheduleRow, Status
<1>2. \A x \in RowStatus : ALLOWED_TRANSITIONS[x] \cap PAYABLE_STATES # {} =>
          x \in PAYABLE_STATES
  BY DEF RowStatus, ALLOWED_TRANSITIONS, PAYABLE_STATES
<1>3. CASE Status(doc)' = Status(doc)
  BY <1>1, <1>3
<1>4. ASSUME NEW r \in Seqs, NEW new \in ALLOWED_TRANSITIONS[Status(doc)[r]],
             Status(doc)' = [Status(doc) EXCEPT ![r] = new]
      PROVE  doc.rows[s].status \in PAYABLE_STATES
  <2>1. Status(doc) = [x \in Seqs |-> doc.rows[x].status]
    BY DEF Status
  <2>2. CASE s = r
    BY <1>1, <1>2, <1>4, <2>1, <2>2
  <2>3. CASE s # r
    BY <1>1, <1>4, <2>1, <2>3
  <2> QED
    BY <2>2, <2>3
<1> QED
  BY <1>3, <1>4, NextLedger

-----------------------------------------------------------------------------
(* Steps outside the loop over rows. *)

(* A handler that starts finds everything in order; a settlement of the     *)
(* whole order reads first, and confirms a draft before it marks it paid.   *)
LEMMA BeginKept ==
    ASSUME IInv, Serial, Kept, NEW w \in Worker, Alone(w), NEW op, NEW s,
           NEW phases \in Seq(Phase), NEW todo, NEW snap,
           Begin(w, op, s, phases, todo, snap),
           order.status = "draft" /\ Has(phases, "paid") => Has(phases, "confirm"),
           op \in Settlements => Has(phases, "read")
    PROVE  Kept'
<1> DEFINE t == [op |-> op, seq |-> s, phases |-> phases, todo |-> todo, snap |-> snap]
<1>1. t.op = op /\ t.phases = phases
  OBVIOUS
<1>2. /\ Continue(w, t) /\ ~InFlight(w)
      /\ UNCHANGED <<doc, order, session, returned, mails, now, crashes>>
  BY DEF Begin
<1> HIDE DEF t
<1>3. task[w].phases = <<>> /\ ~Has(<<>>, "mirror") /\ ~At(w, "rows")
  BY <1>2 DEF InFlight, Has, At
<1>4. /\ order.payment_state = doc.payment_state
      /\ \A r \in Seqs : returned[r] > 0 =>
           doc.rows[r].status = "refunded" /\ doc.rows[r].refund = returned[r]
      /\ order.payment_status = "paid" => order.status # "draft"
      /\ order.status = "confirmed" /\ order.payment_status = "paid" => NoneOpen(doc)
  BY <1>2, <1>3, KeptFacts
<1>5. t.op \in Settlements => Closing(t, doc)
  BY <1>1 DEF Closing
<1>6. NoneOpen(doc) <=> NoneOpen(doc')
  BY <1>2 DEF NoneOpen
<1>7. Closing(t, doc) <=> Closing(t, doc')
  BY <1>2
<1> QED
  BY <1>1, <1>2, <1>4, <1>5, <1>6, <1>7, ContinueKept DEF IInv

(* Every handler that starts.                                               *)
LEMMA StartsKept ==
    ASSUME IInv, Serial, Kept, NEW w \in Worker, Alone(w),
           \/ Request(w)
           \/ Scan(w)
           \/ \E s \in Seqs : Webhook(w, s)
    PROVE  Kept'
<1>1. ASSUME NEW op, op \notin Settlements, NEW s, NEW phases \in Seq(Phase),
             NEW todo, NEW snap, Begin(w, op, s, phases, todo, snap),
             ~Has(phases, "paid")
      PROVE  Kept'
  BY <1>1, BeginKept
<1>2. /\ ~Has(<<"rows", "mirror", "cancel">>, "paid")
      /\ ~Has(<<"rows", "mirror">>, "paid") /\ ~Has(<<"rows">>, "paid")
      /\ ~Has(<<"session", "rows">>, "paid") /\ ~Has(<<"unpaid">>, "paid")
      /\ ~Has(<<"order">>, "paid")
  BY DEF Has
<1>3. ASSUME NEW s \in Seqs, PayLink(w, s) PROVE Kept'
  BY <1>1, <1>2, <1>3, ShortPhases DEF PayLink, Start, Settlements
<1>4. ASSUME NEW s \in Seqs, MarkPaidManual(w, s) \/ Waive(w, s) PROVE Kept'
  BY <1>1, <1>2, <1>4, ShortPhases DEF MarkPaidManual, Waive, Start, Settlements
<1>5. ASSUME NEW s \in Seqs, NEW due \in Instants, Postpone(w, s, due) PROVE Kept'
  BY <1>1, <1>2, <1>5, ShortPhases DEF Postpone, Start, Settlements
<1>6. ASSUME NEW op \in Operations, Settle(w, op) PROVE Kept'
  <2> DEFINE first == IF order.status = "draft" THEN <<"confirm">> ELSE <<>>
             last == IF op = "settle_full" THEN <<"paid">> ELSE <<>>
             phases == first \o <<"collect", "read", "rows", "mirror">> \o last
             snap == NewSchedule(FALSE)
             t == [op |-> op, phases |-> phases]
  <2>1. op \in {"settle_deposit", "settle_full"} /\ Begin(w, op, 0, phases, {}, snap)
    BY <1>6 DEF Settle, Start
  <2>2. phases \in Seq(Phase)
    BY SettlePhases
  <2>3. first = <<>> \/ first = <<"confirm">>
    OBVIOUS
  <2>4. \/ op = "settle_deposit" /\ last = <<>>
        \/ op = "settle_full" /\ last = <<"paid">>
    BY <2>1
  <2>5. t.op = op /\ t.phases = first \o <<"collect", "read", "rows", "mirror">> \o last
        /\ t.phases = phases
    OBVIOUS
  <2>6. order.status = "draft" => first = <<"confirm">>
    OBVIOUS
  <2>7. Has(phases, "read") /\ (order.status = "draft" => Has(phases, "confirm"))
    <3> HIDE DEF t, first, last, phases
    <3> QED
      BY <2>3, <2>4, <2>5, <2>6, SettleScript
  <2> HIDE DEF phases, snap
  <2> QED
    BY <2>1, <2>2, <2>7, BeginKept
<1>7. ASSUME Verify(w) PROVE Kept'
  <2>1. <<"order">> \in Seq(Phase)
    BY DEF Phase
  <2> QED
    BY <1>1, <1>2, <1>7, <2>1 DEF Verify, Start, Settlements
<1>8. ASSUME MarkOrderPaid(w) PROVE Kept'
  <2> DEFINE phases == <<"paid", "read", "rows", "mirror">>
             t == [op |-> "mark_paid", phases |-> phases]
  <2>1. phases \in Seq(Phase)
    BY DEF Phase
  <2>2. Has(phases, "read")
    <3>1. t.phases = phases /\ t.op = "mark_paid"
      OBVIOUS
    <3> HIDE DEF t
    <3> QED
      BY <3>1, MarkPaidScript
  <2>3. /\ Begin(w, "mark_paid", 0, phases, {}, NewSchedule(FALSE))
        /\ order.status # "draft"
    BY <1>8 DEF MarkOrderPaid, Start
  <2> HIDE DEF phases
  <2> QED
    BY <2>1, <2>2, <2>3, BeginKept
<1>9. ASSUME MarkOrderUnpaid(w) PROVE Kept'
  BY <1>1, <1>2, <1>9, ShortPhases DEF MarkOrderUnpaid, Start, Settlements
<1>10. ASSUME NEW op, NEW m, Refund(w, op, m) PROVE Kept'
  <2>1. op \in RefundOps
        /\ \E phases \in {<<"rows", "mirror", "cancel">>, <<"rows", "mirror">>} :
           \E todo : Begin(w, op, 0, phases, todo, doc)
    BY <1>10 DEF Refund, Start, RefundOps
  <2> QED
    BY <1>1, <1>2, <2>1, ShortPhases DEF RefundOps, Settlements
<1>11. ASSUME Scan(w) PROVE Kept'
  BY <1>1, <1>2, <1>11, ShortPhases DEF Scan, Settlements
<1>12. ASSUME NEW s \in Seqs, Webhook(w, s) PROVE Kept'
  <2>1. ~Has(Reconcile("webhook", s), "paid")
    BY ReconcileUnpaid
  <2>2. /\ Begin(w, "webhook", s, Reconcile("webhook", s), {Do(s, "pay", 0)},
                 NewSchedule(FALSE))
        /\ Reconcile("webhook", s) \in Seq(Phase)
    BY <1>12, ReconcilePhases DEF Webhook
  <2> QED
    BY <1>1, <2>1, <2>2 DEF Settlements
<1> QED
  BY <1>3, <1>4, <1>5, <1>6, <1>7, <1>8, <1>9, <1>10, <1>11, <1>12 DEF Request

(* The phases that write the order and go on, when the phase over is none   *)
(* of mirror, confirm and paid.                                             *)
LEMMA EndPhaseKept ==
    ASSUME IInv, Serial, Kept, NEW w \in Worker, Alone(w), InFlight(w),
           Head(task[w].phases) \notin {"order", "read", "rows", "mirror"},
           EndPhase(w), UNCHANGED <<doc, returned>>,
           order'.payment_state = order.payment_state,
           order'.payment_status = "paid" => order'.status # "draft",
           \/ order'.status # "draft"
           \/ order.status = "draft" /\ Head(task[w].phases) # "confirm",
           order'.status = "confirmed" /\ order'.payment_status = "paid" =>
             \/ order.status = "confirmed" /\ order.payment_status = "paid"
             \/ NoneOpen(doc) \/ task[w].op = "mark_paid"
    PROVE  Kept'
<1> DEFINE p == task[w].phases
           t == [task[w] EXCEPT !.phases = Tail(@)]
<1>1. t.op = task[w].op /\ t.todo = task[w].todo /\ t.phases = Tail(p)
  OBVIOUS
<1>2. Continue(w, t) /\ p # <<>> /\ p \in Seq(Phase) /\ Tail(p) \in Seq(Phase) /\ Tasks
  BY TaskFacts DEF EndPhase, InFlight
<1> HIDE DEF t
<1>3. \A a : Has(p, a) <=> Head(p) = a \/ Has(t.phases, a)
  BY <1>1, <1>2, TailHas
<1>4. \/ order'.payment_state = doc'.payment_state
      \/ Has(t.phases, "mirror") /\ ~Unread(t.phases)
  BY <1>3, KeptFacts DEF Unread
<1>5. \A s \in Seqs : returned'[s] > 0 =>
        doc'.rows[s].status = "refunded" /\ doc'.rows[s].refund = returned'[s]
  <2>1. ~At(w, "rows")
    BY DEF At
  <2> QED
    BY <2>1, KeptFacts
<1>6. order'.status = "draft" /\ Has(t.phases, "paid") => Has(t.phases, "confirm")
  BY <1>3, KeptFacts
<1>7. t.op \in Settlements => Closing(t, doc')
  BY <1>1, <1>3, KeptFacts DEF Closing
<1>8. order'.status = "confirmed" /\ order'.payment_status = "paid" =>
        NoneOpen(doc') \/ t.op = "mark_paid"
  BY <1>1, KeptFacts
<1> QED
  BY <1>1, <1>2, <1>4, <1>5, <1>6, <1>7, <1>8, ContinueKept

(* The calls that write the order and go on.                                *)
LEMMA OrderWritesKept ==
    ASSUME IInv, Serial, Kept, NEW w \in Worker, Alone(w),
           Collect(w) \/ OpenSession(w) \/ CancelTheOrder(w)
    PROVE  Kept'
<1>1. InFlight(w) /\ EndPhase(w) /\ UNCHANGED <<doc, returned>>
      /\ Head(task[w].phases) \notin
            {"order", "read", "rows", "mirror", "confirm", "paid", "unpaid"}
  BY DEF Collect, OpenSession, CancelTheOrder, At
<1>2. order \in OrderDoc
  BY DEF IInv, World
<1>3. CASE Collect(w)
  <2>1. /\ order'.payment_state = order.payment_state
        /\ order'.payment_status = order.payment_status
        /\ order'.status = order.status
    BY <1>2, <1>3 DEF Collect, OrderDoc
  <2> QED
    BY <1>1, <2>1, EndPhaseKept, KeptFacts
<1>4. CASE OpenSession(w)
  BY <1>1, <1>4, EndPhaseKept, KeptFacts DEF OpenSession
<1>5. CASE CancelTheOrder(w)
  <2>1. /\ order'.payment_state = order.payment_state
        /\ order'.status \in {"completed", "cancelled"}
    BY <1>2, <1>5 DEF CancelTheOrder, OrderDoc
  <2> QED
    BY <1>1, <2>1, EndPhaseKept
<1> QED
  BY <1>3, <1>4, <1>5

(* A settlement marks the order paid after its rows, mark_order_paid before *)
(* them, and neither while the order is a draft.                            *)
LEMMA StampPaidKept ==
    ASSUME IInv, Serial, Kept, NEW w \in Worker, Alone(w), StampPaid(w)
    PROVE  Kept'
<1> DEFINE p == task[w].phases
<1>1. /\ InFlight(w) /\ EndPhase(w) /\ UNCHANGED <<doc, returned>>
      /\ Head(p) \in {"paid", "unpaid"}
  BY DEF StampPaid, At
<1>2. order \in OrderDoc
  BY DEF IInv, World
<1>3. /\ order'.payment_state = order.payment_state
      /\ order'.status = order.status
      /\ Head(p) = "unpaid" => order'.payment_status = "pending"
      /\ Head(p) = "paid" => order'.payment_status = "paid"
  BY <1>2 DEF StampPaid, OrderDoc, At
<1>4. p \in Seq(Phase) /\ p # <<>> /\ Script(task[w])
  BY <1>1, TaskFacts DEF InFlight, SerialTask
<1>5. \A a : Has(p, a) <=> Head(p) = a \/ Has(Tail(p), a)
  BY <1>4, TailHas
<1>6. \A a : Before(p, a, Head(p)) => ~Has(p, a)
  BY <1>4, HeadBefore
<1>7. CASE Head(p) = "unpaid"
  BY <1>1, <1>3, <1>7, EndPhaseKept
<1>8. CASE Head(p) = "paid"
  <2>1. ~Has(p, "confirm") /\ Has(p, "paid")
    BY <1>4, <1>5, <1>6, <1>8 DEF Script
  <2>2. order.status # "draft"
    BY <2>1, KeptFacts
  <2>3. NoneOpen(doc) \/ task[w].op = "mark_paid"
    <3>1. task[w].op = "settle_full" => ~Has(p, "read") /\ ~Has(p, "rows")
      BY <1>4, <1>6, <1>8, <2>1 DEF Script
    <3>2. task[w].op \in Settlements
      BY <1>4, <2>1 DEF Script, Settlements
    <3> QED
      BY <1>1, <1>4, <2>1, <3>1, <3>2, KeptFacts DEF Script, Closing
  <2> QED
    BY <1>1, <1>3, <1>8, <2>2, <2>3, EndPhaseKept
<1> QED
  BY <1>1, <1>7, <1>8

(* A confirmation fails on a cancelled order only, before the rows are      *)
(* touched or after the order mirrors them.                                 *)
LEMMA ConfirmKept ==
    ASSUME IInv, Serial, Kept, NEW w \in Worker, Alone(w), Confirm(w)
    PROVE  Kept'
<1> DEFINE p == task[w].phases
<1>1. /\ InFlight(w) /\ UNCHANGED <<doc, returned>> /\ Head(p) = "confirm"
      /\ ~At(w, "rows")
  BY DEF Confirm, At
<1>2. order \in OrderDoc
  BY DEF IInv, World
<1>3. CASE order.status # "cancelled"
  <2>1. /\ order'.payment_state = order.payment_state
        /\ order'.payment_status = order.payment_status
        /\ order'.status = IF order.status = "draft" THEN "confirmed" ELSE order.status
    BY <1>2, <1>3 DEF Confirm, OrderDoc
  <2>2. EndPhase(w)
    BY <1>3 DEF Confirm
  <2>3. order'.status # "draft"
    BY <1>2, <2>1 DEF OrderDoc
  <2>4. order.status = "draft" => order.payment_status # "paid"
    BY KeptFacts
  <2> QED
    BY <1>1, <2>1, <2>2, <2>3, <2>4, EndPhaseKept
<1>4. CASE order.status = "cancelled"
  <2>1. Stop(w) /\ UNCHANGED order
    BY <1>4 DEF Confirm
  <2>2. p \in Seq(Phase) /\ p # <<>> /\ Script(task[w])
    BY <1>1, TaskFacts DEF InFlight, SerialTask
  <2>3. \A a : Has(p, a) <=> Head(p) = a \/ Has(Tail(p), a)
    BY <2>2, TailHas
  <2>4. \A a : Before(p, a, Head(p)) => ~Has(p, a)
    BY <2>2, HeadBefore
  <2>5. Has(p, "read") \/ ~Has(p, "mirror")
    BY <1>1, <2>2, <2>3, <2>4 DEF Script
  <2>6. order.payment_state = doc.payment_state
    BY <2>5, KeptFacts DEF Unread
  <2>7. \A s \in Seqs : returned[s] > 0 =>
          doc.rows[s].status = "refunded" /\ doc.rows[s].refund = returned[s]
    BY <1>1, KeptFacts
  <2> QED
    BY <1>1, <1>4, <2>1, <2>6, <2>7, StopKept, TaskFacts
<1> QED
  BY <1>3, <1>4

(* Two copies that agree have the same payment_state.                       *)
LEMMA AgreePaymentState ==
    ASSUME NEW rows \in [Seqs -> ScheduleRow], NEW other \in [Seqs -> ScheduleRow],
           Agree(rows, other)
    PROVE  derive_payment_state(rows) = derive_payment_state(other)
BY TargetedUpdate DEF Agree

(* The order mirrors the copy of a handler that has read the schedule.      *)
LEMMA MirrorKept ==
    ASSUME IInv, Serial, Kept, NEW w \in Worker, Alone(w), Mirror(w)
    PROVE  Kept'
<1> DEFINE p == task[w].phases
           t == [task[w] EXCEPT !.phases = Tail(@)]
<1>1. t.op = task[w].op /\ t.todo = task[w].todo /\ t.phases = Tail(p)
  OBVIOUS
<1>2. /\ Continue(w, t) /\ InFlight(w) /\ Head(p) = "mirror"
      /\ UNCHANGED <<doc, returned>> /\ ~At(w, "rows")
  BY DEF Mirror, EndPhase, At
<1>3. p # <<>> /\ p \in Seq(Phase) /\ Tail(p) \in Seq(Phase) /\ Tasks
  BY <1>2, TaskFacts DEF InFlight
<1>4. SerialTask(task[w], doc)
  BY TaskFacts
<1> HIDE DEF t
<1>5. \A a : Has(p, a) <=> Head(p) = a \/ Has(t.phases, a)
  BY <1>1, <1>3, TailHas
<1>6. Agree(task[w].snap.rows, doc.rows)
  <2>1. ~Unread(p)
    BY <1>2, <1>3, <1>4, HeadBefore DEF SerialTask, Script, Unread
  <2> QED
    BY <1>3, <1>4, <2>1 DEF SerialTask, Fresh
<1>7. task[w].snap.payment_state = doc.payment_state
  <2>1. GoodDoc(task[w].snap, session) /\ GoodDoc(doc, session)
    BY DEF IInv, Tasks, GoodTask, Stored
  <2>2. /\ task[w].snap.payment_state = derive_payment_state(task[w].snap.rows)
        /\ doc.payment_state = derive_payment_state(doc.rows)
    BY <2>1 DEF GoodDoc, Schedule
  <2> QED
    BY <1>6, <2>2, TaskFacts, AgreePaymentState
<1>8. order \in OrderDoc
  BY DEF IInv, World
<1>9. /\ order'.payment_state = doc.payment_state
      /\ order'.status = order.status
      /\ order'.payment_status = order.payment_status
  BY <1>7, <1>8 DEF Mirror, OrderDoc
<1>10. order'.status = "draft" /\ Has(t.phases, "paid") => Has(t.phases, "confirm")
  BY <1>2, <1>5, <1>9, KeptFacts
<1>11. t.op \in Settlements => Closing(t, doc')
  BY <1>1, <1>2, <1>5, KeptFacts DEF Closing
<1>12. \A s \in Seqs : returned'[s] > 0 =>
          doc'.rows[s].status = "refunded" /\ doc'.rows[s].refund = returned'[s]
  BY <1>2, KeptFacts
<1>13. /\ order'.payment_status = "paid" => order'.status # "draft"
       /\ order'.status = "confirmed" /\ order'.payment_status = "paid" =>
            NoneOpen(doc') \/ t.op = "mark_paid"
  BY <1>1, <1>2, <1>9, KeptFacts
<1> QED
  BY <1>1, <1>2, <1>3, <1>9, <1>10, <1>11, <1>12, <1>13, ContinueKept

(* A verification only starts when its order has no row to mirror.          *)
LEMMA ReadOrderKept ==
    ASSUME IInv, Serial, Kept, NEW w \in Worker, Alone(w), ReadOrder(w)
    PROVE  Kept'
<1> DEFINE phases == Reconcile(task[w].op, task[w].seq)
           t == [task[w] EXCEPT !.phases = phases]
<1>1. t.op = task[w].op /\ t.phases = phases
  OBVIOUS
<1>2. /\ Continue(w, t) /\ UNCHANGED <<doc, order, returned>>
      /\ At(w, "order") /\ ~At(w, "rows")
  BY DEF ReadOrder, At
<1>3. phases \in Seq(Phase) /\ ~Has(phases, "paid")
  BY ReconcilePhases, ReconcileUnpaid
<1> HIDE DEF t, phases
<1>4. SerialTask(task[w], doc) /\ task[w].phases \in Seq(Phase) /\ Tasks
  BY TaskFacts
<1>5. Has(task[w].phases, "order")
  BY <1>2, <1>4, TailHas DEF At, InFlight
<1>6. task[w].op = "verify"
  BY <1>4, <1>5 DEF SerialTask, Script
<1>7. order.payment_state = doc.payment_state
  BY <1>5, KeptFacts DEF Unread
<1>8. t.op \notin Settlements /\ t.op # "mark_paid"
  BY <1>1, <1>6 DEF Settlements
<1>9. /\ order.status = "confirmed" /\ order.payment_status = "paid" => NoneOpen(doc)
      /\ order.payment_status = "paid" => order.status # "draft"
      /\ \A s \in Seqs : returned[s] > 0 =>
            doc.rows[s].status = "refunded" /\ doc.rows[s].refund = returned[s]
  BY <1>2, <1>6, KeptFacts
<1> QED
  BY <1>1, <1>2, <1>3, <1>4, <1>7, <1>8, <1>9, ContinueKept DEF NoneOpen

(* A settlement of the whole order puts every row still open on its list.   *)
LEMMA ReadKept ==
    ASSUME IInv, Serial, Kept, NEW w \in Worker, Alone(w), Read(w)
    PROVE  Kept'
<1> DEFINE p == task[w].phases
           settled == {s \in Seqs : /\ doc.rows[s].status \in PAYABLE_STATES
                                    /\ task[w].op = "settle_deposit" => s = 0}
           todo == IF Reconciling(w) THEN task[w].todo
                   ELSE {Do(s, "paid_manual", 0) : s \in settled}
           t == [task[w] EXCEPT !.phases = Tail(@), !.todo = todo, !.snap = doc]
<1>1. t.op = task[w].op /\ t.todo = todo /\ t.phases = Tail(p)
  OBVIOUS
<1>2. /\ Continue(w, t) /\ UNCHANGED <<doc, order, returned>>
      /\ At(w, "read") /\ ~At(w, "rows")
  BY DEF Read, At
<1>3. SerialTask(task[w], doc) /\ p \in Seq(Phase) /\ Tasks
  BY TaskFacts
<1>4. p # <<>> /\ Head(p) = "read" /\ Tail(p) \in Seq(Phase)
  BY <1>2, <1>3 DEF At, InFlight
<1>5. task[w].op \in Settlements => \A s \in Seqs :
         doc.rows[s].status \in PAYABLE_STATES => Do(s, "paid_manual", 0) \in todo
  BY DEF Settlements, Reconciling
<1> HIDE DEF t, todo
<1>6. \A a : Has(p, a) <=> Head(p) = a \/ Has(t.phases, a)
  BY <1>1, <1>3, <1>4, TailHas
<1>7. Has(p, "read") /\ Has(t.phases, "rows")
  BY <1>3, <1>4, <1>6 DEF SerialTask, Script
<1>8. order.payment_state = doc.payment_state
  BY <1>7, KeptFacts DEF Unread
<1>9. t.op \in Settlements => Closing(t, doc')
  BY <1>1, <1>2, <1>5, <1>7 DEF Closing
<1>10. order'.status = "draft" /\ Has(t.phases, "paid") => Has(t.phases, "confirm")
  BY <1>2, <1>4, <1>6, KeptFacts
<1>11. /\ order'.status = "confirmed" /\ order'.payment_status = "paid" =>
            NoneOpen(doc') \/ t.op = "mark_paid"
       /\ order'.payment_status = "paid" => order'.status # "draft"
       /\ \A s \in Seqs : returned'[s] > 0 =>
            doc'.rows[s].status = "refunded" /\ doc'.rows[s].refund = returned'[s]
       /\ order'.payment_state = doc'.payment_state
  BY <1>1, <1>2, <1>8, KeptFacts
<1> QED
  BY <1>1, <1>2, <1>3, <1>4, <1>9, <1>10, <1>11, ContinueKept

-----------------------------------------------------------------------------
(* Steps of the loop over rows. *)

(* A row that moves between the open statuses does not touch payment_state. *)
LEMMA OpenMove ==
    ASSUME NEW rows \in [Seqs -> ScheduleRow], NEW s \in Seqs, NEW row \in ScheduleRow,
           rows[s].status \in PAYABLE_STATES, row.status \in PAYABLE_STATES
    PROVE  derive_payment_state([rows EXCEPT ![s] = row]) = derive_payment_state(rows)
<1> DEFINE other == [rows EXCEPT ![s] = row]
<1>1. \A r \in Seqs : other[r] = IF r = s THEN row ELSE rows[r]
  OBVIOUS
<1>2. \A x \in PAYABLE_STATES : x \notin PAID_STATES /\ x \notin {"refunded", "cancelled", "waived"}
  BY DEF PAYABLE_STATES, PAID_STATES
<1> HIDE DEF other
<1>3. \A r \in Seqs : /\ other[r].status = "cancelled" <=> rows[r].status = "cancelled"
                      /\ other[r].status = "waived" <=> rows[r].status = "waived"
                      /\ other[r].status \in PAID_STATES <=> rows[r].status \in PAID_STATES
                      /\ Collected(other[r]) <=> Collected(rows[r])
  BY <1>1, <1>2 DEF Collected
<1> DEFINE active(r) == {x \in Seqs : r[x].status # "cancelled"}
           payable(r) == {x \in active(r) : r[x].status # "waived"}
<1>4. active(other) = active(rows) /\ payable(other) = payable(rows)
  BY <1>3
<1>5. (\A x \in payable(other) : Collected(other[x]))
        <=> (\A x \in payable(rows) : Collected(rows[x]))
  BY <1>3, <1>4
<1>6. (\E x \in active(other) : kind[x] \in {"deposit", "full"}
                                /\ other[x].status \in PAID_STATES)
        <=> (\E x \in active(rows) : kind[x] \in {"deposit", "full"}
                                     /\ rows[x].status \in PAID_STATES)
  BY <1>3, <1>4
<1>7. derive_payment_state(other) = derive_payment_state(rows)
  BY <1>4, <1>5, <1>6 DEF derive_payment_state
<1> QED
  BY <1>7 DEF other

(* What is left of Kept to show of a step of the loop.                      *)
LEMMA RowKept ==
    ASSUME IInv, Serial, Kept, [Next]_vars, NEW w \in Worker, Alone(w), At(w, "rows"),
           NEW i \in task[w].todo, NEW t, Continue(w, t),
           t.op = task[w].op, t.phases = task[w].phases,
           task[w].todo \ {i} \subseteq t.todo, UNCHANGED order,
           \/ doc'.payment_state = doc.payment_state
           \/ task[w].op \notin {"paylink", "postpone"},
           \A s \in Seqs : returned'[s] > 0 =>
               \/ doc'.rows[s].status = "refunded" /\ doc'.rows[s].refund = returned'[s]
               \/ doc'.rows[s].status = "paid" /\ GivenBack(t, s, returned'[s]),
           \/ i # Do(i.seq, "paid_manual", 0)
           \/ doc'.rows[i.seq].status \notin PAYABLE_STATES
    PROVE  Kept'
<1> DEFINE p == task[w].phases
<1>1. p # <<>> /\ p \in Seq(Phase) /\ Head(p) = "rows" /\ Tasks /\ ~Unread(p)
  BY LoopFacts, TaskFacts DEF At, InFlight
<1>2. Script(task[w])
  BY TaskFacts DEF SerialTask
<1>3. Has(p, "rows")
  BY <1>1, TailHas
<1>4. \/ order'.payment_state = doc'.payment_state
      \/ Has(t.phases, "mirror") /\ ~Unread(t.phases)
  BY <1>1, <1>2, <1>3, KeptFacts DEF Script
<1>5. NoneOpen(doc) => NoneOpen(doc')
  BY PayableFrom DEF NoneOpen
<1>6. t.op \in Settlements => Closing(t, doc')
  <2>1. ASSUME t.op \in Settlements, ~NoneOpen(doc), NEW s \in Seqs,
               doc'.rows[s].status \in PAYABLE_STATES
        PROVE  Do(s, "paid_manual", 0) \in t.todo
    <3>1. doc.rows[s].status \in PAYABLE_STATES
      BY <2>1, PayableFrom
    <3>2. InFlight(w) /\ task[w].op \in Settlements
      BY <1>1, <2>1 DEF InFlight
    <3>3. Do(s, "paid_manual", 0) \in task[w].todo
      BY <1>1, <2>1, <3>1, <3>2, KeptFacts DEF Closing, Unread
    <3>4. Do(s, "paid_manual", 0).seq = s
      BY DEF Do
    <3>5. Do(s, "paid_manual", 0) # i
      BY <2>1, <3>4
    <3> QED
      BY <3>3, <3>5
  <2> QED
    BY <1>3, <1>5, <2>1 DEF Closing
<1>7. order'.status = "draft" /\ Has(t.phases, "paid") => Has(t.phases, "confirm")
  BY KeptFacts
<1>8. /\ order'.status = "confirmed" /\ order'.payment_status = "paid" =>
            NoneOpen(doc') \/ t.op = "mark_paid"
      /\ order'.payment_status = "paid" => order'.status # "draft"
  BY <1>5, KeptFacts
<1> QED
  BY <1>1, <1>4, <1>6, <1>7, <1>8, ContinueKept

(* A step of the loop that shows every row as it was leaves payment_state   *)
(* alone.                                                                   *)
LEMMA AgreeDoc ==
    ASSUME IInv, [Next]_vars, Agree(doc.rows, doc'.rows)
    PROVE  doc'.payment_state = doc.payment_state
<1>1. IInv'
  BY NextGood
<1>2. /\ doc.rows \in [Seqs -> ScheduleRow]
      /\ doc.payment_state = derive_payment_state(doc.rows)
  <2>1. doc = Schedule(doc.rows) /\ doc.rows \in [Seqs -> ScheduleRow]
    BY DEF IInv, Stored, GoodDoc, GoodRows
  <2> QED
    BY <2>1 DEF Schedule
<1>3. /\ doc'.rows \in [Seqs -> ScheduleRow]
      /\ doc'.payment_state = derive_payment_state(doc'.rows)
  <2>1. doc' = Schedule(doc'.rows) /\ doc'.rows \in [Seqs -> ScheduleRow]
    BY <1>1 DEF IInv, Stored, GoodDoc, GoodRows
  <2> QED
    BY <2>1 DEF Schedule
<1> QED
  BY <1>2, <1>3, AgreePaymentState

(* A transition that opens or keeps open a row is the only work of a pay    *)
(* link or a postponement, which do not mirror.                             *)
LEMMA MovePaymentState ==
    ASSUME IInv, Serial, NEW w \in Worker, NEW i \in task[w].todo, MoveRow(w, i),
           task[w].op \in {"paylink", "postpone"}, Accepted(w, i)
    PROVE  doc'.payment_state = doc.payment_state
<1> DEFINE rows == task[w].snap.rows
           row == Moved(row_updates(rows[i.seq], i), NewStatus[i.do])
<1>1. At(w, "rows") /\ i.do \in DOMAIN NewStatus /\ doc' = Written(w, i)
  BY DEF MoveRow, Current, apply_row_transition
<1>2. /\ Written(w, i).rows = [rows EXCEPT ![i.seq] = row]
      /\ row \in ScheduleRow /\ row.status = NewStatus[i.do]
  BY <1>1, WrittenRows
<1>3. /\ rows \in [Seqs -> ScheduleRow] /\ i.seq \in Seqs
      /\ doc.rows \in [Seqs -> ScheduleRow] /\ Deeds(task[w])
      /\ Agree(rows, doc.rows)
  BY <1>1, TaskFacts, LoopFacts DEF Item, SerialTask
<1>4. NewStatus[i.do] \in {"processing", "pending"}
  BY <1>3 DEF Deeds, NewStatus
<1>5. rows[i.seq].status \in PAYABLE_STATES /\ row.status \in PAYABLE_STATES
  <2>1. rows[i.seq].status \in RowStatus
    BY <1>3 DEF ScheduleRow
  <2>2. NewStatus[i.do] \in ALLOWED_TRANSITIONS[rows[i.seq].status]
    BY DEF Accepted
  <2>3. \A x \in RowStatus : ALLOWED_TRANSITIONS[x] \cap {"processing", "pending"} # {}
            => x \in PAYABLE_STATES
    BY DEF RowStatus, ALLOWED_TRANSITIONS, PAYABLE_STATES
  <2>4. {"processing", "pending"} \subseteq PAYABLE_STATES
    BY DEF PAYABLE_STATES
  <2> QED
    BY <1>2, <1>4, <2>1, <2>2, <2>3, <2>4
<1> HIDE DEF row
<1>6. derive_payment_state(Written(w, i).rows) = derive_payment_state(rows)
  BY <1>2, <1>3, <1>5, OpenMove
<1>7. derive_payment_state(rows) = derive_payment_state(doc.rows)
  BY <1>3, AgreePaymentState
<1>8. doc.payment_state = derive_payment_state(doc.rows)
  <2>1. doc = Schedule(doc.rows)
    BY DEF IInv, Stored, GoodDoc
  <2> QED
    BY <2>1 DEF Schedule
<1>9. Written(w, i).payment_state = derive_payment_state(Written(w, i).rows)
  BY DEF Written, Schedule
<1> QED
  BY <1>1, <1>6, <1>7, <1>8, <1>9

(* What Stripe gave back, on record or with the operation that is about to  *)
(* record it, which is the only one of its row.                             *)
LEMMA GivenBackFacts ==
    ASSUME IInv, Serial, Kept, NEW w \in Worker, Alone(w), NEW s \in Seqs,
           returned[s] > 0,
           ~(doc.rows[s].status = "refunded" /\ doc.rows[s].refund = returned[s])
    PROVE  /\ doc.rows[s].status = "paid" /\ task[w].op \in RefundOps
           /\ \E j \in task[w].todo :
                /\ j.do = "refund" /\ j.seq = s /\ j.marked /\ j.arg = returned[s]
                /\ \A k \in task[w].todo : k.seq = s => k = j
<1>1. doc.rows[s].status = "paid" /\ GivenBack(task[w], s, returned[s])
  BY KeptFacts
<1>2. PICK j \in task[w].todo :
        j.do = "refund" /\ j.seq = s /\ j.marked /\ j.arg = returned[s]
  BY <1>1 DEF GivenBack
<1>3. Deeds(task[w])
  BY TaskFacts DEF SerialTask
<1>4. task[w].op \in RefundOps /\ task[w].op \in Targeted
  BY <1>2, <1>3 DEF Deeds, Targeted
<1>5. \A k \in task[w].todo : k.seq = s => k = j
  BY <1>2, <1>3, <1>4 DEF Deeds
<1> QED
  BY <1>1, <1>2, <1>4, <1>5

(* A transition.                                                            *)
LEMMA MoveRowKept ==
    ASSUME IInv, Serial, Kept, [Next]_vars, NEW w \in Worker, Alone(w),
           NEW i \in task[w].todo, MoveRow(w, i)
    PROVE  Kept'
<1>1. At(w, "rows") /\ i.do \in DOMAIN NewStatus /\ UNCHANGED <<order, returned>>
  BY DEF MoveRow, Current
<1>2. /\ task[w].snap.rows \in [Seqs -> ScheduleRow] /\ i.seq \in Seqs
      /\ doc.rows \in [Seqs -> ScheduleRow] /\ Agree(task[w].snap.rows, doc.rows)
  BY <1>1, TaskFacts, LoopFacts DEF Item
<1>3. CASE Accepted(w, i)
  <2> DEFINE t == [task[w] EXCEPT !.todo = @ \ {i}, !.snap = Written(w, i)]
  <2>1. /\ t.op = task[w].op /\ t.phases = task[w].phases
        /\ t.todo = task[w].todo \ {i}
    OBVIOUS
  <2>2. Continue(w, t) /\ doc' = Written(w, i)
    BY <1>3 DEF MoveRow, apply_row_transition, Finish
  <2> HIDE DEF t
  <2>3. /\ doc'.rows[i.seq].status = NewStatus[i.do]
        /\ i.do = "refund" => doc'.rows[i.seq].refund = i.arg
        /\ \A s \in Seqs : s # i.seq => doc'.rows[s] = task[w].snap.rows[s]
    BY <1>1, <2>2, WrittenFields
  <2>4. \/ doc'.payment_state = doc.payment_state
        \/ task[w].op \notin {"paylink", "postpone"}
    BY <1>3, MovePaymentState
  <2>5. ASSUME NEW s \in Seqs, returned[s] > 0
        PROVE  \/ doc'.rows[s].status = "refunded" /\ doc'.rows[s].refund = returned[s]
               \/ doc'.rows[s].status = "paid" /\ GivenBack(t, s, returned[s])
    <3>1. CASE doc.rows[s].status = "refunded" /\ doc.rows[s].refund = returned[s]
      <4>1. s # i.seq
        BY <1>2, <1>3, <3>1, SMTT(40) DEF Accepted, Agree, ALLOWED_TRANSITIONS
      <4> QED
        BY <1>2, <2>3, <3>1, <4>1 DEF Agree
    <3>2. CASE ~(doc.rows[s].status = "refunded" /\ doc.rows[s].refund = returned[s])
      <4>1. PICK j \in task[w].todo :
              /\ j.do = "refund" /\ j.seq = s /\ j.marked /\ j.arg = returned[s]
              /\ \A k \in task[w].todo : k.seq = s => k = j
        BY <2>5, <3>2, GivenBackFacts
      <4>2. doc.rows[s].status = "paid"
        BY <2>5, <3>2, GivenBackFacts
      <4>3. CASE s = i.seq
        <5>1. i.do = "refund" /\ i.arg = returned[s]
          BY <4>1, <4>3
        <5>2. NewStatus["refund"] = "refunded"
          BY DEF NewStatus
        <5> QED
          BY <2>3, <4>3, <5>1, <5>2
      <4>4. CASE s # i.seq
        <5>1. j \in t.todo
          BY <2>1, <4>1, <4>4
        <5>2. doc'.rows[s].status = "paid"
          BY <1>2, <2>3, <4>2, <4>4 DEF Agree
        <5> QED
          BY <4>1, <5>1, <5>2 DEF GivenBack
      <4> QED
        BY <4>3, <4>4
    <3> QED
      BY <3>1, <3>2
  <2>6. i = Do(i.seq, "paid_manual", 0) => doc'.rows[i.seq].status \notin PAYABLE_STATES
    <3>1. i = Do(i.seq, "paid_manual", 0) => i.do = "paid_manual"
      BY DEF Do
    <3> QED
      BY <2>3, <3>1 DEF NewStatus, PAYABLE_STATES
  <2> QED
    BY <1>1, <2>1, <2>2, <2>4, <2>5, <2>6, RowKept
<1>4. CASE ~Accepted(w, i)
  <2> DEFINE t == [task[w] EXCEPT !.todo = @ \ {i}, !.snap = task[w].snap]
  <2>1. /\ t.op = task[w].op /\ t.phases = task[w].phases
        /\ t.todo = task[w].todo \ {i}
    OBVIOUS
  <2>2. task[w].op \notin Buttons
    BY <1>4, ButtonAccepted
  <2>3. Continue(w, t) /\ UNCHANGED doc
    BY <1>4, <2>2 DEF MoveRow, apply_row_transition, Finish
  <2> HIDE DEF t
  <2>4. NewStatus[i.do] \notin ALLOWED_TRANSITIONS[doc.rows[i.seq].status]
    BY <1>2, <1>4 DEF Accepted, Agree
  <2>5. ASSUME NEW s \in Seqs, returned[s] > 0
        PROVE  \/ doc.rows[s].status = "refunded" /\ doc.rows[s].refund = returned[s]
               \/ doc.rows[s].status = "paid" /\ GivenBack(t, s, returned[s])
    <3> SUFFICES ASSUME ~(doc.rows[s].status = "refunded"
                          /\ doc.rows[s].refund = returned[s])
                 PROVE  doc.rows[s].status = "paid" /\ GivenBack(t, s, returned[s])
      OBVIOUS
    <3>1. PICK j \in task[w].todo :
            /\ j.do = "refund" /\ j.seq = s /\ j.marked /\ j.arg = returned[s]
            /\ \A k \in task[w].todo : k.seq = s => k = j
      BY <2>5, GivenBackFacts
    <3>2. doc.rows[s].status = "paid"
      BY <2>5, GivenBackFacts
    <3>3. s # i.seq
      <4>1. NewStatus["refund"] \in ALLOWED_TRANSITIONS["paid"]
        BY DEF NewStatus, ALLOWED_TRANSITIONS
      <4> QED
        BY <2>4, <3>1, <3>2, <4>1
    <3>4. j \in t.todo
      BY <2>1, <3>1, <3>3
    <3> QED
      BY <3>1, <3>2, <3>4 DEF GivenBack
  <2>6. i = Do(i.seq, "paid_manual", 0) => doc.rows[i.seq].status \notin PAYABLE_STATES
    <3>1. i = Do(i.seq, "paid_manual", 0) => i.do = "paid_manual"
      BY DEF Do
    <3>2. \A x \in PAYABLE_STATES : NewStatus["paid_manual"] \in ALLOWED_TRANSITIONS[x]
      BY DEF NewStatus, PAYABLE_STATES, ALLOWED_TRANSITIONS
    <3> QED
      BY <2>4, <3>1, <3>2
  <2> QED
    BY <1>1, <2>1, <2>3, <2>5, <2>6, RowKept
<1> QED
  BY <1>3, <1>4

(* The steps that show every row as it was, and end or replace an operation *)
(* that neither refunds nor settles.                                        *)
LEMMA QuietStepKept ==
    ASSUME IInv, Serial, Kept, [Next]_vars, NEW w \in Worker, Alone(w), At(w, "rows"),
           NEW i \in task[w].todo, i.do \notin {"refund", "paid_manual"},
           NEW t, Continue(w, t), t.op = task[w].op, t.phases = task[w].phases,
           task[w].todo \ {i} \subseteq t.todo, UNCHANGED <<order, returned>>,
           Agree(doc.rows, doc'.rows)
    PROVE  Kept'
<1>1. doc'.payment_state = doc.payment_state
  BY AgreeDoc
<1>2. ASSUME NEW s \in Seqs, returned[s] > 0
      PROVE  \/ doc'.rows[s].status = "refunded" /\ doc'.rows[s].refund = returned[s]
             \/ doc'.rows[s].status = "paid" /\ GivenBack(t, s, returned[s])
  <2> SUFFICES ASSUME ~(doc.rows[s].status = "refunded"
                        /\ doc.rows[s].refund = returned[s])
               PROVE  doc'.rows[s].status = "paid" /\ GivenBack(t, s, returned[s])
    BY DEF Agree
  <2>1. PICK j \in task[w].todo :
          j.do = "refund" /\ j.seq = s /\ j.marked /\ j.arg = returned[s]
    BY <1>2, GivenBackFacts
  <2>2. j \in t.todo
    BY <2>1
  <2>3. doc.rows[s].status = "paid"
    BY <1>2, GivenBackFacts
  <2> QED
    BY <2>1, <2>2, <2>3 DEF GivenBack, Agree
<1>3. i # Do(i.seq, "paid_manual", 0)
  BY DEF Do
<1> QED
  BY <1>1, <1>2, <1>3, RowKept

(* Stripe is asked once per row: nothing was given back before, and what it *)
(* gives back stays with the operation until the row records it.            *)
LEMMA StripeRefundKept ==
    ASSUME IInv, Serial, Kept, [Next]_vars, NEW w \in Worker, Alone(w),
           NEW i \in task[w].todo, StripeRefund(w, i)
    PROVE  Kept'
<1> DEFINE t == [task[w] EXCEPT !.todo = (@ \ {i}) \cup {Marked(i)}]
<1>1. /\ At(w, "rows") /\ UNCHANGED <<doc, order>> /\ i.do = "refund" /\ ~i.marked
      /\ task[w].snap.rows[i.seq].status = "paid"
  BY DEF StripeRefund, Current
<1>2. /\ i \in Item /\ i.seq \in Seqs /\ Agree(task[w].snap.rows, doc.rows)
      /\ returned \in [Seqs -> Nat]
  BY <1>1, TaskFacts, LoopFacts DEF Item, IInv, Counters
<1>3. doc.rows[i.seq].status = "paid"
  BY <1>1, <1>2 DEF Agree
<1>4. returned[i.seq] = 0
  <2>1. ~(returned[i.seq] > 0)
    BY <1>1, <1>2, <1>3, GivenBackFacts
  <2> QED
    BY <1>2, <2>1
<1>5. returned' = [returned EXCEPT ![i.seq] = i.arg] /\ Replace(w, i, {Marked(i)})
  BY <1>4 DEF StripeRefund
<1>6. /\ t.op = task[w].op /\ t.phases = task[w].phases
      /\ t.todo = (task[w].todo \ {i}) \cup {Marked(i)}
  OBVIOUS
<1>7. Continue(w, t)
  BY <1>5 DEF Replace
<1>8. /\ Marked(i).do = "refund" /\ Marked(i).seq = i.seq /\ Marked(i).arg = i.arg
      /\ Marked(i).marked
  BY <1>1, <1>2 DEF Marked, Item
<1> HIDE DEF t
<1>9. ASSUME NEW s \in Seqs, returned'[s] > 0
      PROVE  \/ doc'.rows[s].status = "refunded" /\ doc'.rows[s].refund = returned'[s]
             \/ doc'.rows[s].status = "paid" /\ GivenBack(t, s, returned'[s])
  <2>1. CASE s = i.seq
    BY <1>1, <1>2, <1>3, <1>5, <1>6, <1>8, <2>1 DEF GivenBack
  <2>2. CASE s # i.seq
    <3>1. returned'[s] = returned[s] /\ returned[s] > 0
      BY <1>2, <1>5, <1>9, <2>2
    <3> SUFFICES ASSUME ~(doc.rows[s].status = "refunded"
                          /\ doc.rows[s].refund = returned[s])
                 PROVE  doc.rows[s].status = "paid" /\ GivenBack(t, s, returned[s])
      BY <1>1, <3>1
    <3>2. PICK j \in task[w].todo :
            j.do = "refund" /\ j.seq = s /\ j.marked /\ j.arg = returned[s]
      BY <3>1, GivenBackFacts
    <3>3. j \in t.todo
      BY <1>6, <2>2, <3>2
    <3>4. doc.rows[s].status = "paid"
      BY <3>1, GivenBackFacts
    <3> QED
      BY <3>2, <3>3, <3>4 DEF GivenBack
  <2> QED
    BY <2>1, <2>2
<1>10. doc'.payment_state = doc.payment_state /\ task[w].todo \ {i} \subseteq t.todo
  BY <1>1, <1>6
<1>11. i # Do(i.seq, "paid_manual", 0)
  BY <1>1 DEF Do
<1> QED
  BY <1>1, <1>6, <1>7, <1>9, <1>10, <1>11, RowKept

(* The loop, whatever its next operation.                                   *)
LEMMA RowStepKept ==
    ASSUME IInv, Serial, Kept, [Next]_vars, NEW w \in Worker, Alone(w), RowStep(w)
    PROVE  Kept'
<1>1. PICK i \in task[w].todo :
        \/ MoveRow(w, i) \/ PostponePending(w, i) \/ StripeRefund(w, i)
        \/ MarkReminder(w, i) \/ MailReminder(w, i)
  BY DEF RowStep
<1> DEFINE done == [task[w] EXCEPT !.todo = @ \ {i}, !.snap = task[w].snap]
<1>2. /\ done.op = task[w].op /\ done.phases = task[w].phases
      /\ task[w].todo \ {i} \subseteq done.todo
  OBVIOUS
<1>3. Finish(w, i, task[w].snap) <=> Continue(w, done)
  BY DEF Finish
<1> HIDE DEF done
<1>4. i.do \in ReminderKind => i.do \notin {"refund", "paid_manual"}
  BY DEF ReminderKind
<1>5. CASE PostponePending(w, i)
  <2>1. /\ At(w, "rows") /\ i.do = "postpone" /\ Finish(w, i, task[w].snap)
        /\ UNCHANGED <<order, returned>>
    BY <1>5 DEF PostponePending, Current
  <2> QED
    BY <1>2, <1>3, <1>5, <2>1, PostponeAgree, QuietStepKept
<1>6. CASE MailReminder(w, i)
  <2>1. /\ At(w, "rows") /\ i.do \in ReminderKind /\ Finish(w, i, task[w].snap)
        /\ UNCHANGED <<doc, order, returned>>
    BY <1>6 DEF MailReminder, Current
  <2>2. Agree(doc.rows, doc'.rows)
    BY <2>1, AgreeSame
  <2> QED
    BY <1>2, <1>3, <1>4, <2>1, <2>2, QuietStepKept
<1>7. CASE MarkReminder(w, i)
  <2>1. /\ At(w, "rows") /\ i.do \in ReminderKind /\ UNCHANGED <<order, returned>>
        /\ Agree(doc.rows, doc'.rows)
    BY <1>7, MarkAgree DEF MarkReminder, Current
  <2>2. CASE Finish(w, i, task[w].snap)
    BY <1>2, <1>3, <1>4, <2>1, <2>2, QuietStepKept
  <2>3. CASE ~Finish(w, i, task[w].snap)
    <3> DEFINE items == {Marked(i)} \cup
                          (IF i.do = "t+7" THEN {Do(i.seq, "at_risk", 0)} ELSE {})
               t == [task[w] EXCEPT !.todo = (@ \ {i}) \cup items]
    <3>1. /\ t.op = task[w].op /\ t.phases = task[w].phases
          /\ task[w].todo \ {i} \subseteq t.todo
      OBVIOUS
    <3>2. Continue(w, t)
      BY <1>7, <2>3 DEF MarkReminder, Replace
    <3> HIDE DEF t
    <3> QED
      BY <1>4, <2>1, <3>1, <3>2, QuietStepKept
  <2> QED
    BY <2>2, <2>3
<1>8. CASE MoveRow(w, i) \/ StripeRefund(w, i)
  BY <1>8, MoveRowKept, StripeRefundKept
<1> QED
  BY <1>1, <1>5, <1>6, <1>7, <1>8

-----------------------------------------------------------------------------
(* The whole system, when no handler is killed. *)

(* Nothing is asked of an order before its first handler.                   *)
LEMMA InitKept == Init => Kept
<1> SUFFICES ASSUME Init PROVE Kept
  OBVIOUS
<1>1. /\ \A w \in Worker : task[w] = Idle
      /\ order.status = "draft" /\ order.payment_status = "pending"
      /\ order.payment_state = "none" /\ \A s \in Seqs : returned[s] = 0
  BY DEF Init
<1>2. Idle.phases = <<>> /\ ~Has(<<>>, "paid")
  BY DEF Idle, Has
<1>3. doc.payment_state = "none"
  <2>1. PICK online \in BOOLEAN : doc = NewSchedule(online)
    BY DEF Init
  <2> DEFINE rows == [s \in Seqs |->
                NewRow(s, IF s = 0 /\ online THEN "processing" ELSE "pending")]
  <2>2. doc.payment_state = derive_payment_state(rows)
    BY <2>1 DEF NewSchedule, Schedule
  <2>3. \A s \in Seqs : rows[s].status \in {"processing", "pending"}
    BY DEF NewRow
  <2> HIDE DEF rows
  <2>4. \A s \in Seqs : ~Collected(rows[s]) /\ rows[s].status \notin PAID_STATES
    BY <2>3 DEF Collected, PAID_STATES
  <2> QED
    BY <2>2, <2>4, PlanAssumption DEF derive_payment_state
<1>4. Mirrored
  BY <1>1, <1>3 DEF Mirrored
<1>5. Returned
  BY <1>1 DEF Returned
<1>6. Stamped
  BY <1>1, <1>2 DEF Stamped
<1>7. Settling
  BY <1>1, <1>2 DEF Settling, InFlight
<1> QED
  BY <1>4, <1>5, <1>6, <1>7 DEF Kept

(* The operator's own writes never mark a draft paid, nor confirm an order  *)
(* that is marked paid.                                                     *)
LEMMA OperatorKept ==
    ASSUME IInv, Kept, OperatorCancels \/ OperatorConfirms \/ OperatorCompletes
    PROVE  Kept'
<1>1. UNCHANGED <<doc, returned, task>>
  BY DEF OperatorCancels, OperatorConfirms, OperatorCompletes
<1>2. order \in OrderDoc
  BY DEF IInv, World
<1>3. /\ order'.payment_state = order.payment_state
      /\ \/ /\ order'.status = "confirmed" /\ order.status = "draft"
            /\ order'.payment_status = order.payment_status
         \/ order'.status \in {"cancelled", "completed"}
  BY <1>2 DEF OperatorCancels, OperatorConfirms, OperatorCompletes, OrderDoc
<1>4. Mirrored' /\ Returned'
  BY <1>1, <1>3 DEF Kept, Mirrored, Returned, GivenBack
<1>5. Stamped'
  BY <1>1, <1>3 DEF Kept, Stamped
<1>6. Settling'
  <2>1. \A w \in Worker : InFlight(w)' /\ task'[w].op \in Settlements =>
            Closing(task'[w], doc')
    BY <1>1 DEF Kept, Settling, InFlight
  <2>2. ~(order'.status = "confirmed" /\ order'.payment_status = "paid")
    BY <1>3 DEF Kept, Stamped
  <2> QED
    BY <2>1, <2>2 DEF Settling
<1> QED
  BY <1>4, <1>5, <1>6 DEF Kept

(* Steps that touch neither the documents nor the handlers.                 *)
LEMMA IdleKept ==
    ASSUME Kept, UNCHANGED <<doc, order, returned, task>>
    PROVE  Kept'
BY DEF Kept, Mirrored, Returned, Stamped, Settling, GivenBack, Closing, NoneOpen,
       InFlight, Has, Unread

(* Every step keeps it but one that kills a handler.                        *)
LEMMA NextKept ==
    ASSUME IInv, OneFlight, Serial, Kept, [Next]_vars, ~overlapped', crashes' = 0
    PROVE  Kept'
<1>1. ~overlapped
  BY NextOneFlight
<1>2. ASSUME NEW w \in Worker, Request(w) \/ Scan(w) PROVE Kept'
  <2>1. Alone(w)
    BY <1>2, StartFrame, StartAlone
  <2> QED
    BY <1>2, <2>1, StartsKept
<1>3. ASSUME NEW w \in Worker, Step(w) PROVE Kept'
  <2>1. Alone(w)
    BY <1>1, <1>3, StepFrame, StepAlone
  <2> QED
    BY <1>3, <2>1, ReadOrderKept, OrderWritesKept, ReadKept, MirrorKept, ConfirmKept,
       StampPaidKept, RowStepKept DEF Step
<1>4. ASSUME NEW w \in Worker, Crash(w) PROVE FALSE
  BY <1>4 DEF Crash, IInv, Counters
<1>5. ASSUME NEW w \in Worker, NEW s \in Seqs, Webhook(w, s) PROVE Kept'
  <2>1. Alone(w)
    BY <1>5, StartFrame, StartAlone
  <2> QED
    BY <1>5, <2>1, StartsKept
<1>6. CASE OperatorCancels \/ OperatorConfirms \/ OperatorCompletes
  BY <1>6, OperatorKept
<1>7. CASE (\E s \in Seqs : CustomerPays(s)) \/ Tick \/ UNCHANGED vars
  <2>1. UNCHANGED <<doc, order, returned, task>>
    BY <1>7 DEF CustomerPays, Tick, vars
  <2> QED
    BY <2>1, IdleKept
<1> QED
  BY <1>2, <1>3, <1>4, <1>5, <1>6, <1>7 DEF Next

(* The number of killed handlers only grows.                                *)
LEMMA CrashesGrow ==
    ASSUME IInv, [Next]_vars, crashes' = 0
    PROVE  crashes = 0
<1>1. crashes \in Nat
  BY DEF IInv, Counters
<1>2. ASSUME NEW w \in Worker, Step(w) PROVE UNCHANGED crashes
  <2>1. CASE RowStep(w)
    BY <2>1 DEF RowStep, MoveRow, PostponePending, StripeRefund, MarkReminder,
         MailReminder
  <2> QED
    BY <1>2, <2>1 DEF Step, ReadOrder, Collect, Read, OpenSession, Mirror, Confirm,
         CancelTheOrder, StampPaid
<1>3. ASSUME NEW w \in Worker, Request(w) \/ Scan(w) \/ \E s \in Seqs : Webhook(w, s)
      PROVE  UNCHANGED crashes
  BY <1>3 DEF Request, PayLink, MarkPaidManual, Waive, Postpone, Settle, Verify,
       MarkOrderPaid, MarkOrderUnpaid, Refund, Scan, Webhook, Start, Begin
<1>4. ASSUME NEW w \in Worker, Crash(w) PROVE crashes' = crashes + 1
  BY <1>4 DEF Crash
<1>5. CASE (\E s \in Seqs : CustomerPays(s)) \/ Tick \/ UNCHANGED vars
  BY <1>5 DEF CustomerPays, Tick, vars
<1>6. CASE OperatorCancels \/ OperatorConfirms \/ OperatorCompletes
  BY <1>6 DEF OperatorCancels, OperatorConfirms, OperatorCompletes
<1> QED
  BY <1>1, <1>2, <1>3, <1>4, <1>5, <1>6 DEF Next

(* The invariant of handlers that come one after another.                   *)
Ordered ==
    /\ IInv /\ OneFlight
    /\ ~overlapped => Serial
    /\ ~overlapped /\ crashes = 0 => Kept

(* Handlers that come one after another, none of them killed, keep what the *)
(* order, the schedule and Stripe say of each other.                        *)
THEOREM AlwaysKept == Spec => []Ordered
<1>1. Init => Ordered
  BY InitGood, InitOneFlight, InitSerial, InitKept DEF Ordered
<1>2. Ordered /\ [Next]_vars => Ordered'
  <2> SUFFICES ASSUME Ordered, [Next]_vars PROVE Ordered'
    OBVIOUS
  <2>1. IInv' /\ OneFlight' /\ (~overlapped' => ~overlapped /\ Serial')
    BY NextGood, NextOneFlight, NextSerial DEF Ordered
  <2>2. ASSUME ~overlapped', crashes' = 0 PROVE Kept'
    BY <2>1, <2>2, CrashesGrow, NextKept DEF Ordered
  <2> QED
    BY <2>1, <2>2 DEF Ordered
<1> QED
  BY <1>1, <1>2, PTL DEF Spec

(* Between handlers of which no two overlapped and none was killed the      *)
(* order shows the payment_state of its schedule: every handler that moves  *)
(* a row into or out of the paid states mirrors it, and no other leaves it  *)
(* to be mirrored.                                                          *)
THEOREM MirrorFollows == Spec => []MirrorFollowsSchedule
<1>1. Ordered => MirrorFollowsSchedule
  <2>1. ~Has(<<>>, "mirror")
    BY DEF Has
  <2> QED
    BY <2>1 DEF Ordered, Kept, Mirrored, MirrorFollowsSchedule, Undisturbed,
         Quiescent, InFlight
<1> QED
  BY <1>1, AlwaysKept, PTL

(* Between them a row shows the refund Stripe made.                         *)
THEOREM RefundRecorded == Spec => []RefundOnRecord
<1>1. Ordered => RefundOnRecord
  <2> SUFFICES ASSUME Serial, Kept, Quiescent, NEW s \in Seqs, returned[s] > 0
               PROVE  doc.rows[s].status = "refunded" /\ doc.rows[s].refund = returned[s]
    BY DEF Ordered, RefundOnRecord, Undisturbed
  <2>1. \A w \in Worker : \A m : ~GivenBack(task[w], s, m)
    BY DEF Serial, SerialTask, Deeds, GivenBack, Quiescent, InFlight
  <2> QED
    BY <2>1 DEF Kept, Returned
<1> QED
  BY <1>1, AlwaysKept, PTL

(* Between them a confirmed order that is marked paid has no row the        *)
(* dunning scan could chase.                                                *)
THEOREM SettledIsClosed == Spec => []SettledOrderIsClosed
<1>1. Ordered => SettledOrderIsClosed
  BY DEF Ordered, Kept, Settling, NoneOpen, SettledOrderIsClosed, Undisturbed, Quiescent
<1> QED
  BY <1>1, AlwaysKept, PTL

==============================================================================
