------------------------------ MODULE PaymentPlan ------------------------------
(***************************************************************************)
(* From a payment plan to the rows of the ledger, and from the paid rows   *)
(* to what a withdrawal gives back: models/payment_plan.py, generate_rows  *)
(* of services/payment_schedule_service.py and compute_policy_refund of    *)
(* services/payment_refund_service.py.  Money is in cents, time in hours   *)
(* (the due date of an installment is moved to noon, so hours matter).     *)
(***************************************************************************)
EXTENDS Integers, Sequences, Functions

CONSTANTS
    Plans,    \* payment plans an organiser may have configured
    Amounts,  \* order totals, in cents
    Start,    \* the hour the retreat starts
    Hours     \* the hours at which the clock may stand

VARIABLES
    plan,     \* the plan frozen on the order
    total,    \* total_minor of the order
    rows,     \* the generated rows, empty until the order is placed
    paid,     \* the numbers of the rows paid so far
    now       \* the hour

vars == <<plan, total, rows, paid, now>>

Day == 24
MIN_CHARGE_MINOR == 50

MinOf(a, b) == IF a < b THEN a ELSE b
MaxOf(a, b) == IF a > b THEN a ELSE b

(* PaymentPlan._validate and the bounds of its fields: the policy is a list *)
(* of tiers from the farthest to the nearest, the refund never growing.     *)
ValidPlan(p) ==
    LET tiers == p.cancellation_policy
    IN  /\ p.mode \in {"full", "deposit_balance", "deposit_installments"}
        /\ p.deposit_type \in {"percent", "fixed"}
        /\ p.deposit_value \in Nat \ {0}
        /\ p.deposit_type = "percent" => p.deposit_value <= 90
        /\ p.balance_due_days_before \in 1..180
        /\ p.installments_count \in 2..6
        /\ tiers # <<>>
        /\ tiers \in Seq([days_before : 0..365, refund_percent : 0..100])
        /\ \A i, j \in DOMAIN tiers : i < j =>
                /\ tiers[i].days_before > tiers[j].days_before
                /\ tiers[i].refund_percent >= tiers[j].refund_percent

ASSUME PlanConstants ==
    /\ \A p \in Plans : ValidPlan(p)
    /\ Amounts \subseteq Nat \ {0}
    /\ Start \in Nat
    /\ Hours \subseteq Nat

-----------------------------------------------------------------------------
(* Generation of the rows. *)

Deadline(p) == Start - Day * p.balance_due_days_before

effective_mode(p, at) == IF at >= Deadline(p) THEN "full" ELSE p.mode

(* Half-up to the cent, and never the whole total. *)
compute_deposit_minor(p, total_minor) ==
    LET deposit == IF p.deposit_type = "percent"
                     THEN (2 * total_minor * p.deposit_value + 100) \div 200
                     ELSE p.deposit_value
    IN  MaxOf(1, MinOf(deposit, total_minor - 1))

Row(seq, kind, amount, due) ==
    [seq |-> seq, kind |-> kind, amount_minor |-> amount, due_at |-> due]

(* Mutant: the odd cents are lost. *)
Installment_NoRemainder(p, balance, n, i, at) ==
    Row(i, "installment", balance \div n, Deadline(p))

(* Mutant: noon of the last day may be after the deadline. *)
Installment_Uncapped(p, balance, n, i, at) ==
    LET due_day == (at * n + (Deadline(p) - at) * i) \div (Day * n)
    IN  Row(i, "installment",
            balance \div n + (IF i <= balance % n THEN 1 ELSE 0),
            Day * due_day + 12)

(* Row i of n equal parts of the balance: the odd cents go to the first     *)
(* rows, the due dates are spread over the days up to the deadline, at noon *)
(* and never after the deadline.                                            *)
Installment(p, balance, n, i, at) ==
    LET window == Deadline(p) - at
        due_day == (at * n + window * i) \div (Day * n)
    IN  Row(i, "installment",
            balance \div n + (IF i <= balance % n THEN 1 ELSE 0),
            MinOf(Day * due_day + 12, Deadline(p)))

generate_rows(p, total_minor, at) ==
    LET deposit == compute_deposit_minor(p, total_minor)
        balance == total_minor - deposit
        n == p.installments_count
        first == Row(0, "deposit", deposit, at)
    IN  IF \/ effective_mode(p, at) = "full"
           \/ deposit < MIN_CHARGE_MINOR
           \/ balance < MIN_CHARGE_MINOR
          THEN <<Row(0, "full", total_minor, at)>>
        ELSE IF p.mode = "deposit_balance"
          THEN <<first, Row(1, "balance", balance, Deadline(p))>>
        ELSE IF balance < n
          THEN <<first, Row(1, "installment", balance, Deadline(p))>>
        ELSE <<first>> \o [i \in 1..n |-> Installment(p, balance, n, i, at)]

-----------------------------------------------------------------------------
(* What a withdrawal gives back. *)

(* Mutant: the comparison with the tier is swapped. *)
refund_percent_at_Swapped(p, days) ==
    LET tiers == p.cancellation_policy
        reached == {i \in DOMAIN tiers : days <= tiers[i].days_before}
    IN  IF days < 0 \/ reached = {} THEN 0
        ELSE tiers[CHOOSE i \in reached : \A j \in reached : i <= j].refund_percent

(* The first tier, from the farthest, that the days left still reach.       *)
refund_percent_at(p, days) ==
    LET tiers == p.cancellation_policy
        reached == {i \in DOMAIN tiers : days >= tiers[i].days_before}
    IN  IF days < 0 \/ reached = {} THEN 0
        ELSE tiers[CHOOSE i \in reached : \A j \in reached : i <= j].refund_percent

paid_minor == SumFunction([i \in DOMAIN rows |->
                 IF rows[i].seq \in paid THEN rows[i].amount_minor ELSE 0])

compute_policy_refund ==
    (paid_minor * refund_percent_at(plan, (Start - now) \div Day)) \div 100

-----------------------------------------------------------------------------
Init == /\ plan \in Plans
        /\ total \in Amounts
        /\ now \in Hours
        /\ rows = <<>>
        /\ paid = {}

create_schedule_for_new_order ==
    /\ rows = <<>>
    /\ rows' = generate_rows(plan, total, now)
    /\ UNCHANGED <<plan, total, paid, now>>

(* Mutant: a payment for a row the plan does not have is accepted. *)
Pay_AnyRow(seq) ==
    /\ rows # <<>> /\ seq \notin paid
    /\ paid' = paid \cup {seq}
    /\ UNCHANGED <<plan, total, rows, now>>

Pay(seq) ==
    /\ seq \in {rows[i].seq : i \in DOMAIN rows} \ paid
    /\ paid' = paid \cup {seq}
    /\ UNCHANGED <<plan, total, rows, now>>

Tick == /\ \E h \in Hours : h > now /\ now' = h
        /\ UNCHANGED <<plan, total, rows, paid>>

Next == create_schedule_for_new_order \/ (\E seq \in 0..6 : Pay(seq)) \/ Tick

Spec == Init /\ [][Next]_vars

-----------------------------------------------------------------------------
PlanRow == [seq: 0..6, kind: {"full", "deposit", "balance", "installment"},
            amount_minor: Nat, due_at: Int]

TypeOK == /\ plan \in Plans /\ total \in Amounts /\ now \in Hours
          /\ rows \in Seq(PlanRow)
          /\ paid \subseteq {rows[i].seq : i \in DOMAIN rows}

(* "INVARIANTE (testata): sum(r.amount_minor) == total_minor, sempre": the  *)
(* rounding of the deposit and of the installments never loses a cent.      *)
SumIsTotal ==
    rows # <<>> =>
        SumFunction([i \in DOMAIN rows |-> rows[i].amount_minor]) = total

(* The installments are due in order, the last rows by the deadline, and no *)
(* two rows differ by more than the cent of the remainder.                  *)
InstallmentsFair ==
    \A i, j \in DOMAIN rows : i < j /\ rows[i].kind = "installment" =>
        /\ rows[i].due_at <= rows[j].due_at
        /\ rows[j].due_at <= Deadline(plan)
        /\ rows[i].amount_minor - rows[j].amount_minor \in {0, 1}

(* As the retreat approaches, what a withdrawal gives back never grows      *)
(* (_validate: "piu' ti avvicini, meno rimborso").                          *)
RefundNeverGrows ==
    [][paid' = paid => compute_policy_refund' <= compute_policy_refund]_vars

=============================================================================
