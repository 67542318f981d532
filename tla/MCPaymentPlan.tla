----------------------------- MODULE MCPaymentPlan -----------------------------
(* Instances of PaymentPlan for TLC.                                        *)
EXTENDS PaymentPlan

Tier(days, percent) == [days_before |-> days, refund_percent |-> percent]

Plan(mode, type, value, n, policy) ==
    [mode |-> mode, deposit_type |-> type, deposit_value |-> value,
     balance_due_days_before |-> 2, installments_count |-> n,
     cancellation_policy |-> policy]

(* Percentages that round to either side, a fixed deposit above some totals *)
(* and below others, and every number of installments.                      *)
SomePlans ==
    {Plan(mode, deposit[1], deposit[2], n, policy) :
        mode \in {"full", "deposit_balance", "deposit_installments"},
        deposit \in {<<"percent", 1>>, <<"percent", 33>>, <<"percent", 90>>,
                     <<"fixed", 120>>},
        n \in 2..6,
        policy \in {<<Tier(4, 100), Tier(2, 50), Tier(0, 0)>>, <<Tier(3, 70)>>}}

(* Around the minimum charge, where the plan collapses, and totals that do  *)
(* not divide evenly.                                                       *)
SomeAmounts == {1, 49, 51, 99, 101, 170, 505, 5003}

(* The retreat starts on day 6 at 6 a.m.; bookings in the morning and in    *)
(* the evening, on both sides of the deadline on day 4, of every tier of    *)
(* the policies and of the start.                                           *)
SomeHours == {0, 20, 65, 101, 102, 130, 151}

=============================================================================
