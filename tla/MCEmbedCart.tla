----------------------------- MODULE MCEmbedCart -----------------------------
(* The embed cart with two tabs, two things to buy and few calls at once.   *)
EXTENDS EmbedCart, TLC

CONSTANTS seat, visit

Plain(l) == [line |-> l, request |-> FALSE, extras |-> FALSE]

(* A ticket, and an appointment in one of the offered slots with extra      *)
(* selections.                                                              *)
Offered == {Plain(seat), [Plain(visit) EXCEPT !.extras = TRUE]}

Tickets == {seat}

Symmetry == Permutations(Tab) \cup Permutations(Slot)

=============================================================================
