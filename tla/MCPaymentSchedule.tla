--------------------------- MODULE MCPaymentSchedule ---------------------------
(* Instances of PaymentSchedule for TLC.                                    *)
EXTENDS PaymentSchedule, TLC

(* A deposit of 1 due at booking and a balance of 2 due on day 8. *)
TwoRows == {0, 1}
TwoAmounts == [s \in TwoRows |-> s + 1]
DepositBalance == [s \in TwoRows |-> IF s = 0 THEN "deposit" ELSE "balance"]
DueDates == [s \in TwoRows |-> 8 * s]

(* Before the due day, the due day, and a week after it.                    *)
FewDays == {0, 8, 15}

AllOperations == Operation

(* Workers are interchangeable. *)
Symmetry == Permutations(Worker)

=============================================================================
