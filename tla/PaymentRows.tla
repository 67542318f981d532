------------------------------ MODULE PaymentRows ------------------------------
(***************************************************************************)
(* The pure part of the payment ledger of one order: the rows of a         *)
(* PaymentSchedule document, their state machine, and everything that is   *)
(* derived from the rows (models/payment_schedule.py and the "calcoli      *)
(* puri" of services/payment_refund_service.py).  No variable, no I/O.     *)
(*                                                                         *)
(* amount_minor and kind never change once a row is generated, so they are *)
(* constant functions; a row is the part of ScheduleRow that does change.  *)
(***************************************************************************)
EXTENDS Integers, Functions

CONSTANTS
    Seqs,     \* the row numbers of the plan, 0 is the first charge
    amount,   \* amount[s]: amount_minor of row s, in cents
    kind      \* kind[s]: the RowKind of row s

RowKind == {"full", "deposit", "balance", "installment"}

RowStatus == {"pending", "processing", "paid", "paid_manual", "overdue",
              "at_risk", "waived", "refunded", "cancelled"}

(* The four dunning reminders of ReminderMark.kind. *)
ReminderKind == {"t-7", "t-0", "t+3", "t+7"}

ASSUME PlanAssumption ==
    /\ Seqs \subseteq Nat
    /\ 0 \in Seqs
    /\ amount \in [Seqs -> Nat \ {0}]
    /\ kind \in [Seqs -> RowKind]

ALLOWED_TRANSITIONS ==
    [pending     |-> {"processing", "paid", "paid_manual", "overdue", "waived",
                      "cancelled"},
     processing  |-> {"paid", "paid_manual", "pending", "overdue", "cancelled"},
     overdue     |-> {"processing", "paid", "paid_manual", "at_risk", "waived",
                      "cancelled", "pending"},
     at_risk     |-> {"processing", "paid", "paid_manual", "waived",
                      "cancelled", "pending"},
     paid        |-> {"refunded"},
     paid_manual |-> {"refunded", "cancelled"},
     waived      |-> {"cancelled"},
     refunded    |-> {},
     cancelled   |-> {}]

PAID_STATES == {"paid", "paid_manual"}
PAYABLE_STATES == {"pending", "processing", "overdue", "at_risk"}

(* Rows the dunning job looks at: never the deposit. *)
DUNNABLE_KINDS == {"balance", "installment"}
ACTIVE_STATES == {"pending", "processing", "overdue"}

(* due_at is a day number; reminders_sent is the set of marks; refund is    *)
(* the refunded amount, 0 when the row carries no RowRefund.                *)
ScheduleRow == [status: RowStatus, due_at: Int, paid_at: BOOLEAN,
                reminders_sent: SUBSET ReminderKind, refund: Nat]

Collected(row) ==
    row.status \in PAID_STATES \/ (row.status = "refunded" /\ row.paid_at)

-----------------------------------------------------------------------------
(* Totals and payment_state, always recomputed from the rows.               *)

compute_totals(rows) ==
    [due_minor |->
        SumFunction([s \in Seqs |-> IF rows[s].status = "cancelled" THEN 0 ELSE amount[s]]),
     paid_minor |->
        SumFunction([s \in Seqs |-> IF Collected(rows[s]) THEN amount[s] ELSE 0]),
     refunded_minor |-> SumFunction([s \in Seqs |-> rows[s].refund])]

derive_payment_state(rows) ==
    LET active  == {s \in Seqs : rows[s].status # "cancelled"}
        payable == {s \in active : rows[s].status # "waived"}
    IN  IF payable # {} /\ \A s \in payable : Collected(rows[s])
          THEN "fully_paid"
        ELSE IF \E s \in active : kind[s] \in {"deposit", "full"}
                                  /\ rows[s].status \in PAID_STATES
          THEN "deposit_paid"
        ELSE "none"

(* The stored document: rows, and what the service derives from them in the *)
(* same write.                                                              *)
Schedule(rows) ==
    [rows |-> rows, totals |-> compute_totals(rows),
     payment_state |-> derive_payment_state(rows)]

(* A row that apply_row_transition moves to a new status: paid_at is        *)
(* stamped by the first of the two paid states and never removed.           *)
Moved(row, new_status) ==
    [row EXCEPT !.status = new_status,
                !.paid_at = @ \/ new_status \in PAID_STATES]

-----------------------------------------------------------------------------
(* Refunds: backwards over the paid rows, the last touched one may be part. *)

PaidRows(rows) == {s \in Seqs : rows[s].status \in PAID_STATES}

paid_minor(rows) ==
    SumFunction([s \in Seqs |-> IF s \in PaidRows(rows) THEN amount[s] ELSE 0])

(* plan_refund_distribution: what is left for row s after the paid rows     *)
(* that come later, capped by the row's own amount.                         *)
plan_refund_distribution(rows, refund_minor) ==
    LET later(s) == SumFunction([t \in Seqs |->
                        IF t \in PaidRows(rows) /\ t > s THEN amount[t] ELSE 0])
        left(s)  == refund_minor - later(s)
    IN  [s \in Seqs |-> IF s \notin PaidRows(rows) THEN 0
                        ELSE IF left(s) \in 0..amount[s] THEN left(s)
                        ELSE IF left(s) > 0 THEN amount[s] ELSE 0]

=============================================================================
