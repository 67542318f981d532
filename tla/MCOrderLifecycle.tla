--------------------------- MODULE MCOrderLifecycle ---------------------------
(* Instances of OrderLifecycle for TLC.                                     *)
EXTENDS OrderLifecycle, TLC

CONSTANTS a, b, c, vip, date, book

Ticket(t, q) == [product |-> None, quantity |-> q, occurrence |-> date, tier |-> t]
Book == [product |-> book, quantity |-> 1, occurrence |-> None, tier |-> None]

(* A date of two seats with one vip seat: a wants the vip seat and a book,  *)
(* c two seats without a tier and the vip seat.                             *)
MixedItems == [o \in Orders |->
    IF o = a THEN <<Ticket(vip, 1), Book>> ELSE <<Ticket(None, 2), Ticket(vip, 1)>>]

(* One seat for a and for b, two for c, all without a tier.                 *)
SeatItems == [o \in Orders |-> <<Ticket(None, IF o = c THEN 2 ELSE 1)>>]

TwoSeatsOneVip == [x \in Place |-> IF x = date THEN 2 ELSE IF x = vip THEN 1 ELSE None]
OneBook == [p \in Product |-> 1]
AllOperations == Operation

(* Workers are interchangeable. *)
Symmetry == Permutations(Worker)

=============================================================================
