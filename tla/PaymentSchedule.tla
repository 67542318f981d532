---------------------------- MODULE PaymentSchedule ----------------------------
(***************************************************************************)
(* The payment ledger of one order under concurrent handlers               *)
(* (services/payment_schedule_service.py and its callers).                 *)
(*                                                                         *)
(* One MongoDB document holds every row of the plan.  A handler reads the  *)
(* whole document, computes on its own copy and writes the WHOLE rows      *)
(* array back; the only guard of that write is that the row it moves still *)
(* has the status it had in the copy.  Every await is a point where other  *)
(* handlers run, so a handler is a task with a private snapshot and a list *)
(* of phases left, and each action below is one database or Stripe call.   *)
(*                                                                         *)
(* Tasks: the Stripe webhook and the verification of the success page, the *)
(* pay link, the hourly dunning scan, the operator's buttons, the          *)
(* settlement of a whole order, and refunds.                               *)
(*                                                                         *)
(* The plan is one with a deposit; a plan of one full payment is charged   *)
(* by a session of its own kind and is not covered here.                   *)
(***************************************************************************)
EXTENDS PaymentRows, Sequences, FiniteSets

CONSTANTS
    Worker,       \* handlers that may be in flight at the same time
    first_due,    \* first_due[s]: the due day of row s when the plan is made
    Instants,     \* the days at which the clock may stand
    Operations,   \* the operations the environment may start
    MaxStarts,    \* bound on handlers started by people and by Stripe
    MaxCrashes    \* bound on handlers killed by a process restart

VARIABLES
    doc,          \* the stored payment_schedules document
    order,        \* the stored order document
    session,      \* session[s]: Stripe Checkout Session of row s
    returned,     \* returned[s]: what Stripe gave back under key refund:order:s
    mails,        \* mails[s][k]: reminders k emailed since the last due date
    now,          \* the day
    task,         \* task[w]: the handler worker w is running
    starts,       \* handlers started so far
    crashes,      \* handlers killed so far
    overlapped    \* two handlers have been in flight at the same time

vars == <<doc, order, session, returned, mails, now, task, starts, crashes,
          overlapped>>

Operation == {"verify", "paylink", "paid_manual", "waive", "postpone",
              "settle_deposit", "settle_full", "mark_paid", "mark_unpaid",
              "refund", "refund_keep", "confirm", "complete", "cancel"}

(* What a handler still has to do, one database or Stripe call at a time;   *)
(* "rows" is the loop over its row operations.                              *)
Phase == {"order", "collect", "read", "session", "rows", "mirror", "confirm",
          "cancel", "paid", "unpaid"}

(* One row operation of a handler.  marked is set on a reminder once its    *)
(* write-ahead mark is stored and its mail is still to be sent; arg is the  *)
(* amount of a refund or the new day of a postponement.                     *)
ItemKind == ReminderKind \cup {"pay", "paid_manual", "processing", "waive",
                               "postpone", "overdue", "at_risk", "refund",
                               "cancel"}
Item == [seq: Seqs, do: ItemKind, arg: Nat, marked: BOOLEAN]
Do(s, do, arg) == [seq |-> s, do |-> do, arg |-> arg, marked |-> FALSE]

ASSUME ScheduleAssumption ==
    /\ Instants \subseteq Nat
    /\ first_due \in [Seqs -> Nat]
    /\ Operations \subseteq Operation
    /\ MaxStarts \in Nat /\ MaxCrashes \in Nat
    /\ kind[0] = "deposit"
    /\ \A s \in Seqs \ {0} : kind[s] \in {"balance", "installment"}

PaymentState == {"none", "deposit_paid", "fully_paid"}

NewRow(s, status) == [status |-> status, due_at |-> first_due[s],
                      paid_at |-> FALSE, reminders_sent |-> {}, refund |-> 0]

(* The document a new order gets.  An order paid online has the Checkout    *)
(* Session of its deposit open, and that row already waits for it.          *)
NewSchedule(online) ==
    Schedule([s \in Seqs |->
        NewRow(s, IF s = 0 /\ online THEN "processing" ELSE "pending")])

-----------------------------------------------------------------------------
(* Tasks.  An idle worker has no phase left and keeps no snapshot.          *)

Idle == [op |-> "idle", seq |-> 0, phases |-> <<>>, todo |-> {},
         snap |-> NewSchedule(FALSE)]
InFlight(w) == task[w].phases # <<>>
At(w, phase) == InFlight(w) /\ Head(task[w].phases) = phase
Quiescent == \A w \in Worker : ~InFlight(w)

(* A "rows" phase with nothing left is over as soon as it is reached, and a *)
(* task with no phase left frees its worker.                                *)
Settled(t) ==
    LET phases == IF t.phases # <<>> /\ Head(t.phases) = "rows" /\ t.todo = {}
                    THEN Tail(t.phases) ELSE t.phases
    IN  IF phases = <<>> THEN Idle ELSE [t EXCEPT !.phases = phases]

Continue(w, t) == task' = [task EXCEPT ![w] = Settled(t)]
EndPhase(w) == Continue(w, [task[w] EXCEPT !.phases = Tail(@)])
Stop(w) == task' = [task EXCEPT ![w] = Idle]

Begin(w, op, s, phases, todo, snap) ==
    /\ ~InFlight(w)
    /\ Continue(w, [op |-> op, seq |-> s, phases |-> phases, todo |-> todo,
                    snap |-> snap])
    /\ overlapped' = (overlapped \/ ~Quiescent)
    /\ UNCHANGED <<doc, order, session, returned, mails, now, crashes>>

(* Handlers that a person starts. *)
Start(w, op, s, phases, todo, snap) ==
    /\ op \in Operations
    /\ starts < MaxStarts
    /\ starts' = starts + 1
    /\ Begin(w, op, s, phases, todo, snap)

-----------------------------------------------------------------------------
Init ==
    \E online \in BOOLEAN :
        /\ doc = NewSchedule(online)
        /\ order = [status |-> "draft", reference |-> online,
                    payment_intent |-> IF online THEN "required" ELSE "none",
                    payment_state |-> "none", payment_status |-> "pending",
                    processed_events |-> {}]
        /\ session = [s \in Seqs |-> IF s = 0 /\ online THEN "open" ELSE "none"]
        /\ returned = [s \in Seqs |-> 0]
        /\ mails = [s \in Seqs |-> [k \in ReminderKind |-> 0]]
        /\ now = 0
        /\ task = [w \in Worker |-> Idle]
        /\ starts = 0
        /\ crashes = 0
        /\ overlapped = FALSE

-----------------------------------------------------------------------------
(* How handlers start.                                                      *)

(* Mutant: a collected order has nothing left to reconcile. *)
Reconcile_CollectedIsDone(op, s) ==
    IF order.payment_intent = "collected" THEN <<>>
    ELSE <<"collect", "read", "rows", "mirror", "confirm">>

(* reconcile_checkout_event on the order it has read: the calls it will     *)
(* make for a paid session of row s, none for a repetition.  A session that *)
(* pays a later row of a collected order only moves that row.               *)
Reconcile(op, s) ==
    LET main == s = 0 /\ order.reference
        collected == order.payment_intent = "collected"
    IN  IF \/ <<op, s>> \in order.processed_events
           \/ main /\ collected /\ order.status \in {"confirmed", "completed"}
          THEN <<>>
        ELSE IF collected THEN <<"read", "rows", "mirror">>
        ELSE <<"collect", "read", "rows", "mirror", "confirm">>

(* Mutant: the payment_status of the session is not looked at. *)
Webhook_Unpaid(w, s) ==
    /\ session[s] # "none"
    /\ Reconcile("webhook", s) # <<>>
    /\ \A v \in Worker : ~(InFlight(v) /\ task[v].op = "webhook"
                                       /\ task[v].seq = s)
    /\ Begin(w, "webhook", s, Reconcile("webhook", s), {Do(s, "pay", 0)},
             NewSchedule(FALSE))
    /\ UNCHANGED starts

(* The webhook, redelivered until it is processed; the lock on the event    *)
(* keeps a second delivery away while the first one runs.                   *)
Webhook(w, s) ==
    /\ session[s] = "paid"
    /\ Reconcile("webhook", s) # <<>>
    /\ \A v \in Worker : ~(InFlight(v) /\ task[v].op = "webhook"
                                       /\ task[v].seq = s)
    /\ Begin(w, "webhook", s, Reconcile("webhook", s), {Do(s, "pay", 0)},
             NewSchedule(FALSE))
    /\ UNCHANGED starts

(* verify_commerce_order_payment: the success page asks Stripe about the    *)
(* session of the order and reconciles it as an event of its own, on an     *)
(* order read again after Stripe's answer.                                  *)
Verify(w) ==
    /\ order.payment_intent # "collected"
    /\ order.reference
    /\ session[0] = "paid"
    /\ Start(w, "verify", 0, <<"order">>, {Do(0, "pay", 0)}, NewSchedule(FALSE))

(* GET /pay/{token} and create_row_checkout_session: a balance is payable   *)
(* only once the order is no longer a draft.  A row already processing only *)
(* gets a new session id, which is not modelled.                            *)
PayLink(w, s) ==
    /\ doc.rows[s].status \in PAYABLE_STATES
    /\ order.status = "draft" => s = 0
    /\ Start(w, "paylink", s, <<"session", "rows">>,
             IF doc.rows[s].status = "processing" THEN {}
             ELSE {Do(s, "processing", 0)}, doc)

MarkPaidManual(w, s) ==
    /\ "paid_manual" \in ALLOWED_TRANSITIONS[doc.rows[s].status]
    /\ Start(w, "paid_manual", s, <<"rows", "mirror">>,
             {Do(s, "paid_manual", 0)}, doc)

(* Mutant: the order does not learn of the waiver. *)
Waive_NoMirror(w, s) ==
    /\ "waived" \in ALLOWED_TRANSITIONS[doc.rows[s].status]
    /\ Start(w, "waive", s, <<"rows">>, {Do(s, "waive", 0)}, doc)

Waive(w, s) ==
    /\ "waived" \in ALLOWED_TRANSITIONS[doc.rows[s].status]
    /\ Start(w, "waive", s, <<"rows", "mirror">>, {Do(s, "waive", 0)}, doc)

Postpone(w, s, due) ==
    /\ doc.rows[s].status \in PAYABLE_STATES
    /\ due > now
    /\ Start(w, "postpone", s, <<"rows">>, {Do(s, "postpone", due)}, doc)

(* settle_order_manual confirms a draft first; the rows it marks are chosen *)
(* after it reads the schedule, and a full settlement marks the order paid. *)
Settle(w, op) ==
    /\ op \in {"settle_deposit", "settle_full"}
    /\ order.status # "cancelled"
    /\ Start(w, op, 0,
             (IF order.status = "draft" THEN <<"confirm">> ELSE <<>>)
                \o <<"collect", "read", "rows", "mirror">>
                \o (IF op = "settle_full" THEN <<"paid">> ELSE <<>>),
             {}, NewSchedule(FALSE))

(* Mutant: the ledger is not synchronised, as before WS-1.4. *)
MarkOrderPaid_NoRows(w) ==
    /\ order.status \in {"confirmed", "completed"}
    /\ order.payment_status # "paid"
    /\ Start(w, "mark_paid", 0, <<"paid">>, {}, NewSchedule(FALSE))

(* mark_order_paid marks the order first, then the rows. *)
MarkOrderPaid(w) ==
    /\ order.status \in {"confirmed", "completed"}
    /\ order.payment_status # "paid"
    /\ Start(w, "mark_paid", 0, <<"paid", "read", "rows", "mirror">>, {},
             NewSchedule(FALSE))

(* mark_order_unpaid is refused while a row is paid. *)
MarkOrderUnpaid(w) ==
    /\ order.status \in {"confirmed", "completed"}
    /\ order.payment_status # "pending"
    /\ PaidRows(doc.rows) = {}
    /\ Start(w, "mark_unpaid", 0, <<"unpaid">>, {}, doc)

(* refund_order: whatever the basis, an amount up to what the rows say was  *)
(* paid, spread backwards; unless the order is kept, every row still        *)
(* payable is cancelled and then the order itself.                          *)
Refund(w, op, refund_minor) ==
    LET share == plan_refund_distribution(doc.rows, refund_minor)
        refunds == {Do(s, "refund", share[s]) : s \in {x \in Seqs : share[x] > 0}}
        cancels == {Do(s, "cancel", 0) :
                        s \in {x \in Seqs : doc.rows[x].status \in PAYABLE_STATES}}
    IN  /\ refund_minor \in 0..paid_minor(doc.rows)
        /\ \/ /\ op = "refund"
              /\ Start(w, op, 0, <<"rows", "mirror", "cancel">>,
                       refunds \cup cancels, doc)
           \/ /\ op = "refund_keep"
              /\ Start(w, op, 0, <<"rows", "mirror">>, refunds, doc)

(* plan_dunning_actions over the copy of the schedule the scan has read:    *)
(* the reminders of a row that its marks do not show as sent, and the move  *)
(* of a late row to overdue.                                                *)

(* Mutant: the last threshold is one day late. *)
PlannedReminders_LateT7(row) ==
    LET late == now - row.due_at
    IN  ((IF late >= 0 THEN {"t-0"} ELSE {}) \cup (IF late > 7 THEN {"t+7"} ELSE {}))
        \ row.reminders_sent

PlannedReminders(row) ==
    LET late == now - row.due_at
        planned == (IF late < 0 /\ late >= -7 THEN {"t-7"} ELSE {})
                   \cup (IF late >= 0 THEN {"t-0"} ELSE {})
                   \cup (IF late >= 3 THEN {"t+3"} ELSE {})
                   \cup (IF late >= 7 THEN {"t+7"} ELSE {})
    IN  planned \ row.reminders_sent

(* Mutant: every row is dunned, the deposit included. *)
plan_dunning_actions_AnyKind(rows) ==
    {Do(s, "overdue", 0) :
        s \in {x \in Seqs : rows[x].status \in {"pending", "processing"}
                             /\ rows[x].due_at <= now}}

plan_dunning_actions(rows) ==
    LET dunned == {s \in Seqs : kind[s] \in DUNNABLE_KINDS
                                /\ rows[s].status \in ACTIVE_STATES}
    IN  (UNION {{Do(s, k, 0) : k \in PlannedReminders(rows[s])} : s \in dunned})
        \cup {Do(s, "overdue", 0) :
                s \in {x \in dunned : rows[x].status \in {"pending", "processing"}
                                      /\ rows[x].due_at <= now}}

(* One schedule of run_dunning_scan; the scheduler's lease keeps a second   *)
(* scan away.                                                               *)
Scan(w) ==
    /\ order.status \notin {"draft", "cancelled"}
    /\ \A v \in Worker : ~(InFlight(v) /\ task[v].op = "scan")
    /\ plan_dunning_actions(doc.rows) # {}
    /\ Begin(w, "scan", 0, <<"rows", "mirror">>,
             plan_dunning_actions(doc.rows), doc)
    /\ UNCHANGED starts

-----------------------------------------------------------------------------
(* The phases outside the loop over rows.                                   *)

(* The reconciler's own read of the order, for a verification. *)
ReadOrder(w) ==
    /\ At(w, "order")
    /\ Continue(w, [task[w] EXCEPT !.phases = Reconcile(task[w].op, task[w].seq)])
    /\ UNCHANGED <<doc, order, session, returned, mails, now, starts, crashes,
                   overlapped>>

Reconciling(w) == task[w].op \in {"webhook", "verify"}
Recorded(w) == IF Reconciling(w)
                 THEN order.processed_events \cup {<<task[w].op, task[w].seq>>}
                 ELSE order.processed_events

Collect(w) ==
    /\ At(w, "collect")
    /\ order' = [order EXCEPT !.payment_intent = "collected",
                              !.processed_events = Recorded(w)]
    /\ EndPhase(w)
    /\ UNCHANGED <<doc, session, returned, mails, now, starts, crashes, overlapped>>

(* payment_status of the order: the accountant's switch. *)
StampPaid(w) ==
    /\ \/ At(w, "paid") /\ order' = [order EXCEPT !.payment_status = "paid"]
       \/ At(w, "unpaid") /\ order' = [order EXCEPT !.payment_status = "pending"]
    /\ EndPhase(w)
    /\ UNCHANGED <<doc, session, returned, mails, now, starts, crashes, overlapped>>

(* get_schedule_for_order, and the rows a settlement will mark. *)
Read(w) ==
    LET settled == {s \in Seqs : /\ doc.rows[s].status \in PAYABLE_STATES
                                 /\ task[w].op = "settle_deposit" => s = 0}
        todo == IF Reconciling(w) THEN task[w].todo
                ELSE {Do(s, "paid_manual", 0) : s \in settled}
    IN  /\ At(w, "read")
        /\ Continue(w, [task[w] EXCEPT !.phases = Tail(@), !.todo = todo,
                                       !.snap = doc])
        /\ UNCHANGED <<doc, order, session, returned, mails, now, starts, crashes, overlapped>>

(* One idempotency key per row: a second request gets the same session. *)
OpenSession(w) ==
    /\ At(w, "session")
    /\ session' = [session EXCEPT ![task[w].seq] = IF @ = "none" THEN "open" ELSE @]
    /\ EndPhase(w)
    /\ UNCHANGED <<doc, order, returned, mails, now, starts, crashes, overlapped>>

(* The order mirrors the payment_state of the handler's copy; a reconciler  *)
(* that found the order collected records its event here.                   *)
Mirror(w) ==
    /\ At(w, "mirror")
    /\ order' = [order EXCEPT
            !.payment_state = task[w].snap.payment_state,
            !.processed_events = Recorded(w)]
    /\ EndPhase(w)
    /\ UNCHANGED <<doc, session, returned, mails, now, starts, crashes, overlapped>>

(* confirm_order with skip_payment_check: nothing to do on a confirmed or   *)
(* completed order; it raises on a cancelled one and the handler ends.      *)
Confirm(w) ==
    /\ At(w, "confirm")
    /\ IF order.status = "cancelled"
         THEN Stop(w) /\ UNCHANGED order
         ELSE /\ EndPhase(w)
              /\ order' = [order EXCEPT !.status = IF @ = "draft" THEN "confirmed" ELSE @]
    /\ UNCHANGED <<doc, session, returned, mails, now, starts, crashes, overlapped>>

(* cancel_order: raises on a completed order, which refund_order only logs. *)
CancelTheOrder(w) ==
    /\ At(w, "cancel")
    /\ order' = [order EXCEPT !.status = IF @ = "completed" THEN @ ELSE "cancelled"]
    /\ EndPhase(w)
    /\ UNCHANGED <<doc, session, returned, mails, now, starts, crashes, overlapped>>

-----------------------------------------------------------------------------
(* The loop over rows, one item at a time: by row, and within a row in the  *)
(* planner's order; refunds first and backwards.                            *)

Rank == [k \in ItemKind |->
            CASE k = "t-7" -> 1 [] k = "t-0" -> 2 [] k = "overdue" -> 3
              [] k = "t+3" -> 4 [] k = "at_risk" -> 5 [] k = "t+7" -> 6
              [] OTHER -> 0]
Key(i) == IF i.do = "refund" THEN 0 - 1 - i.seq ELSE 10 * i.seq + Rank[i.do]

Current(w, i) == /\ At(w, "rows")
                 /\ i \in task[w].todo
                 /\ \A j \in task[w].todo \ {i} : Key(i) < Key(j)

Finish(w, i, snap) == Continue(w, [task[w] EXCEPT !.todo = @ \ {i}, !.snap = snap])
Replace(w, i, items) == Continue(w, [task[w] EXCEPT !.todo = (@ \ {i}) \cup items])
Marked(i) == [i EXCEPT !.marked = TRUE]

NewStatus == [pay |-> "paid", paid_manual |-> "paid_manual",
              processing |-> "processing", waive |-> "waived",
              postpone |-> "pending", overdue |-> "overdue",
              at_risk |-> "at_risk", refund |-> "refunded",
              cancel |-> "cancelled"]

(* Mutant: the refund is not written on the row. *)
row_updates_NoRefund(row, i) ==
    IF i.do = "postpone"
      THEN [row EXCEPT !.due_at = i.arg, !.reminders_sent = {}]
    ELSE row

row_updates(row, i) ==
    IF i.do = "postpone"
      THEN [row EXCEPT !.due_at = i.arg, !.reminders_sent = {}]
    ELSE IF i.do = "refund" THEN [row EXCEPT !.refund = i.arg]
    ELSE row

(* The handlers whose endpoint answers 409 and ends on InvalidTransition;   *)
(* the others go on with their copy.                                        *)
Buttons == {"paid_manual", "waive", "postpone"}

(* Mutant: the state machine is not consulted. *)
Accepted_AnyMove(w, i) == doc.rows[i.seq].status = task[w].snap.rows[i.seq].status

(* Mutant: the totals are carried over instead of computed again. *)
Written_OldTotals(w, i) ==
    LET snap == task[w].snap
    IN  [Schedule([snap.rows EXCEPT
                     ![i.seq] = Moved(row_updates(@, i), NewStatus[i.do])])
            EXCEPT !.totals = snap.totals]

(* apply_row_transition.  The copy decides whether the move is allowed and  *)
(* what every row becomes; the store only checks the moved row's status.    *)
Accepted(w, i) ==
    LET old_status == task[w].snap.rows[i.seq].status
    IN  /\ NewStatus[i.do] \in ALLOWED_TRANSITIONS[old_status]
        /\ doc.rows[i.seq].status = old_status

Written(w, i) ==
    LET rows == task[w].snap.rows
    IN  Schedule([rows EXCEPT ![i.seq] = Moved(row_updates(@, i), NewStatus[i.do])])

(* A new due date starts its own sequence of reminders. *)
ResetMails(i) ==
    mails' = IF i.do = "postpone"
               THEN [mails EXCEPT ![i.seq] = [k \in ReminderKind |-> 0]]
               ELSE mails

apply_row_transition(w, i) ==
    IF Accepted(w, i)
      THEN doc' = Written(w, i) /\ ResetMails(i) /\ Finish(w, i, Written(w, i))
      ELSE /\ UNCHANGED <<doc, mails>>
           /\ IF task[w].op \in Buttons THEN Stop(w)
              ELSE Finish(w, i, task[w].snap)

(* A postponed pending row does not change status (PostponePending), and a  *)
(* row paid online is refunded by Stripe first.                             *)
MoveRow(w, i) ==
    /\ Current(w, i)
    /\ i.do \in DOMAIN NewStatus
    /\ i.do = "postpone" => task[w].snap.rows[i.seq].status # "pending"
    /\ i.do = "refund" /\ task[w].snap.rows[i.seq].status = "paid" => i.marked
    /\ apply_row_transition(w, i)
    /\ UNCHANGED <<order, session, returned, now, starts, crashes, overlapped>>

(* postpone_schedule_row on a row its copy shows pending: a targeted update *)
(* of that row, whatever the row has become.                                *)
PostponePending(w, i) ==
    /\ Current(w, i)
    /\ i.do = "postpone"
    /\ task[w].snap.rows[i.seq].status = "pending"
    /\ doc' = [doc EXCEPT !.rows[i.seq].due_at = i.arg,
                          !.rows[i.seq].reminders_sent = {}]
    /\ ResetMails(i)
    /\ Finish(w, i, task[w].snap)
    /\ UNCHANGED <<order, session, returned, now, starts, crashes, overlapped>>

(* _mark_reminder_sent: atomic, and only the scan that wrote the mark goes  *)
(* on.  It writes the store, not the scan's copy.                           *)
MarkReminder(w, i) ==
    /\ Current(w, i)
    /\ i.do \in ReminderKind /\ ~i.marked
    /\ IF i.do \in doc.rows[i.seq].reminders_sent
         THEN Finish(w, i, task[w].snap) /\ UNCHANGED doc
         ELSE /\ doc' = [doc EXCEPT !.rows[i.seq].reminders_sent = @ \cup {i.do}]
              /\ Replace(w, i, {Marked(i)} \cup
                    (IF i.do = "t+7" THEN {Do(i.seq, "at_risk", 0)} ELSE {}))
    /\ UNCHANGED <<order, session, returned, mails, now, starts, crashes, overlapped>>

MailReminder(w, i) ==
    /\ Current(w, i)
    /\ i.do \in ReminderKind /\ i.marked
    /\ mails' = [mails EXCEPT ![i.seq][i.do] = @ + 1]
    /\ Finish(w, i, task[w].snap)
    /\ UNCHANGED <<doc, order, session, returned, now, starts, crashes, overlapped>>

(* Mutant: no idempotency key, every request moves money. *)
StripeRefund_NoKey(w, i) ==
    /\ Current(w, i)
    /\ i.do = "refund" /\ ~i.marked
    /\ task[w].snap.rows[i.seq].status = "paid"
    /\ returned' = [returned EXCEPT ![i.seq] = @ + i.arg]
    /\ Replace(w, i, {Marked(i)})
    /\ UNCHANGED <<doc, order, session, mails, now, starts, crashes, overlapped>>

(* _stripe_refund: the key refund:order:row makes a repetition return the   *)
(* first refund; another amount under the same key is refused and the       *)
(* exception ends the handler.                                              *)
StripeRefund(w, i) ==
    /\ Current(w, i)
    /\ i.do = "refund" /\ ~i.marked
    /\ task[w].snap.rows[i.seq].status = "paid"
    /\ IF returned[i.seq] \in {0, i.arg}
         THEN /\ returned' = [returned EXCEPT ![i.seq] = i.arg]
              /\ Replace(w, i, {Marked(i)})
         ELSE Stop(w) /\ UNCHANGED returned
    /\ UNCHANGED <<doc, order, session, mails, now, starts, crashes, overlapped>>

-----------------------------------------------------------------------------
(* Single writes of the operator, the customer, time and restarts.          *)

(* POST /orders/{id}/cancel: does not touch the schedule. *)
OperatorCancels ==
    /\ "cancel" \in Operations /\ starts < MaxStarts
    /\ order.status \in {"draft", "confirmed"}
    /\ order' = [order EXCEPT !.status = "cancelled"]
    /\ starts' = starts + 1
    /\ UNCHANGED <<doc, session, returned, mails, now, task, crashes, overlapped>>

(* POST /orders/{id}/confirm: refused while an online payment is awaited. *)
OperatorConfirms ==
    /\ "confirm" \in Operations /\ starts < MaxStarts
    /\ order.status = "draft" /\ order.payment_intent # "required"
    /\ order' = [order EXCEPT !.status = "confirmed"]
    /\ starts' = starts + 1
    /\ UNCHANGED <<doc, session, returned, mails, now, task, crashes, overlapped>>

(* POST /orders/{id}/complete: marks the order paid, whatever its rows say. *)
OperatorCompletes ==
    /\ "complete" \in Operations /\ starts < MaxStarts
    /\ order.status = "confirmed"
    /\ order' = [order EXCEPT !.status = "completed", !.payment_status = "paid"]
    /\ starts' = starts + 1
    /\ UNCHANGED <<doc, session, returned, mails, now, task, crashes, overlapped>>

CustomerPays(s) ==
    /\ session[s] = "open"
    /\ session' = [session EXCEPT ![s] = "paid"]
    /\ UNCHANGED <<doc, order, returned, mails, now, task, starts, crashes, overlapped>>

Tick ==
    /\ \E t \in Instants : t > now /\ now' = t
    /\ UNCHANGED <<doc, order, session, returned, mails, task, starts, crashes, overlapped>>

Crash(w) ==
    /\ InFlight(w)
    /\ crashes < MaxCrashes
    /\ crashes' = crashes + 1
    /\ Stop(w)
    /\ UNCHANGED <<doc, order, session, returned, mails, now, starts, overlapped>>

-----------------------------------------------------------------------------
RowStep(w) ==
    \E i \in task[w].todo :
        \/ MoveRow(w, i) \/ PostponePending(w, i) \/ StripeRefund(w, i)
        \/ MarkReminder(w, i) \/ MailReminder(w, i)

Step(w) == \/ ReadOrder(w) \/ Collect(w) \/ Read(w) \/ OpenSession(w)
           \/ Mirror(w) \/ Confirm(w) \/ CancelTheOrder(w) \/ StampPaid(w)
           \/ RowStep(w)

Request(w) ==
    \/ \E s \in Seqs : PayLink(w, s) \/ MarkPaidManual(w, s) \/ Waive(w, s)
    \/ \E s \in Seqs, due \in Instants : Postpone(w, s, due)
    \/ \E op \in Operations : Settle(w, op)
    \/ Verify(w) \/ MarkOrderPaid(w) \/ MarkOrderUnpaid(w)
    \/ \E op \in Operations, m \in 0..paid_minor(doc.rows) : Refund(w, op, m)

Next ==
    \/ \E w \in Worker : Request(w) \/ Scan(w) \/ Step(w) \/ Crash(w)
    \/ \E w \in Worker, s \in Seqs : Webhook(w, s)
    \/ \E s \in Seqs : CustomerPays(s)
    \/ OperatorCancels \/ OperatorConfirms \/ OperatorCompletes
    \/ Tick

Spec == Init /\ [][Next]_vars

(* Fairness: a handler the event loop runs goes on to its next await, the   *)
(* scheduler calls the scan every hour, Stripe redelivers until it gets an  *)
(* answer, and time passes.  Nothing is assumed of people.                  *)
FairSpec ==
    /\ Spec
    /\ \A w \in Worker : WF_vars(Step(w))
    /\ WF_vars(\E w \in Worker : Scan(w))
    /\ \A s \in Seqs : WF_vars(\E w \in Worker : Webhook(w, s))
    /\ WF_vars(Tick)

-----------------------------------------------------------------------------
(* Type invariant: the stored documents are well formed and every handler   *)
(* in flight keeps a well formed copy.  totals is what compute_totals gives *)
(* (DerivedFromRows).                                                       *)
Typed(d) == /\ d.rows \in [Seqs -> ScheduleRow]
            /\ d.payment_state \in PaymentState

OrderDoc == [status: {"draft", "confirmed", "completed", "cancelled"},
             reference: BOOLEAN,
             payment_intent: {"none", "required", "collected"},
             payment_state: PaymentState,
             payment_status: {"pending", "paid"},
             processed_events: SUBSET ({"webhook", "verify"} \X Seqs)]

TypedTask(t) == /\ t.op \in Operation \cup {"idle", "scan", "webhook"}
                /\ t.seq \in Seqs
                /\ t.phases \in Seq(Phase)
                /\ t.todo \subseteq Item
                /\ Typed(t.snap)

TypeOK ==
    /\ Typed(doc)
    /\ order \in OrderDoc
    /\ session \in [Seqs -> {"none", "open", "paid"}]
    /\ returned \in [Seqs -> Nat]
    /\ mails \in [Seqs -> [ReminderKind -> Nat]]
    /\ now \in Nat
    /\ DOMAIN task = Worker /\ \A w \in Worker : TypedTask(task[w])
    /\ starts \in 0..MaxStarts
    /\ crashes \in 0..MaxCrashes
    /\ overlapped \in BOOLEAN

-----------------------------------------------------------------------------
(* Safety whatever the interleaving.                                        *)

(* The stored totals and payment_state always are the ones of the stored    *)
(* rows: stale whole-array writes and targeted updates never separate them  *)
(* (compute_totals: "mai incrementi sparsi").                               *)
DerivedFromRows == doc = Schedule(doc.rows)

(* A row is PAID only if Stripe collected the money of that very row: no    *)
(* stale copy can spread a payment to a row whose session nobody paid.      *)
PaidMeansCharged ==
    \A s \in Seqs : doc.rows[s].status = "paid" => session[s] = "paid"

(* Stripe gives back a row's money only after collecting it, and never more *)
(* than the row's amount, however many refunds race on the row.             *)
RefundBacked ==
    \A s \in Seqs : returned[s] > 0 => session[s] = "paid" /\ returned[s] <= amount[s]

(* Dunning never reaches the deposit: "mai la caparra".                     *)
DepositNeverDunned ==
    \A s \in Seqs : kind[s] \notin DUNNABLE_KINDS =>
        /\ doc.rows[s].status \notin {"overdue", "at_risk"}
        /\ \A k \in ReminderKind : mails[s][k] = 0

-----------------------------------------------------------------------------
(* Safety as long as handlers come one after another.  Nothing in the code  *)
(* ensures that, and once two overlap the four properties below are lost:   *)
(* a stale copy writes an older state over a newer one.                     *)

Ledger == INSTANCE PaymentLedger
            WITH status <- [s \in Seqs |-> doc.rows[s].status],
                 contended <- overlapped

(* The statuses of the stored rows follow the abstract ledger: until two    *)
(* handlers overlap one row moves at a time, along an allowed transition,   *)
(* whichever handlers are killed.                                           *)
LedgerRefined == Ledger!Spec

(* No handler is in flight, none met another and none was killed half way.  *)
Undisturbed == Quiescent /\ ~overlapped /\ crashes = 0

(* Between handlers the order mirrors the schedule's payment_state.         *)
MirrorFollowsSchedule ==
    Undisturbed => order.payment_state = doc.payment_state

(* The refund a row shows is the amount Stripe gave back, except on rows    *)
(* refunded outside the platform.                                           *)
RefundOnRecord ==
    Undisturbed => \A s \in Seqs :
        returned[s] > 0 => /\ doc.rows[s].status = "refunded"
                           /\ doc.rows[s].refund = returned[s]

(* Settling, or marking the order paid, leaves no row open for the dunning  *)
(* job to chase (WS-1.4 of mark_order_paid).                                *)
SettledOrderIsClosed ==
    Undisturbed /\ order.status = "confirmed" /\ order.payment_status = "paid" =>
        \A s \in Seqs : doc.rows[s].status \notin PAYABLE_STATES

-----------------------------------------------------------------------------
(* Liveness.                                                                *)

(* A balance a week late leaves the dunning states: it is escalated to      *)
(* at_risk, or somebody settled, postponed or closed it, or its order.      *)
WeekLate(s) == /\ order.status = "confirmed"
               /\ kind[s] \in DUNNABLE_KINDS
               /\ doc.rows[s].status \in ACTIVE_STATES
               /\ now - doc.rows[s].due_at >= 7
LateRowsEscalate == \A s \in Seqs : WeekLate(s) ~> ~WeekLate(s)

(* Money Stripe collected reaches the ledger: the row of a paid session     *)
(* does not stay payable.                                                   *)
PaidSessionReachesLedger ==
    \A s \in Seqs : session[s] = "paid" ~> doc.rows[s].status \notin PAYABLE_STATES

=============================================================================
