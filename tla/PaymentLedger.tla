----------------------------- MODULE PaymentLedger -----------------------------
(***************************************************************************)
(* What a payment ledger promises: each row has one status, and the status *)
(* of one row at a time moves along ALLOWED_TRANSITIONS                    *)
(* (models/payment_schedule.py: "Transizioni consentite (sole-andata).     *)
(* Tutto cio' che non e' qui e' un bug").                                  *)
(*                                                                         *)
(* The promise ends with the first contention: writers that work on the    *)
(* ledger at the same time may leave any statuses behind.                  *)
(***************************************************************************)
EXTENDS PaymentRows

VARIABLES
    status,      \* status[s]: the status of row s
    contended    \* two writers have been at work at the same time

Init == /\ status \in [Seqs -> {"pending", "processing"}]
        /\ contended = FALSE

MoveRow(s) == /\ \E new \in ALLOWED_TRANSITIONS[status[s]] :
                     status' = [status EXCEPT ![s] = new]
              /\ UNCHANGED contended

Contend == /\ contended' = TRUE
           /\ status' \in [Seqs -> RowStatus]

Next == Contend \/ \E s \in Seqs : MoveRow(s)

Spec == Init /\ [][Next]_<<status, contended>>

=============================================================================
