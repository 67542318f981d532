---------------------------- MODULE MCBookingSlots ----------------------------
(* Instances of BookingSlots for TLC: one product, and two days of four     *)
(* hours.                                                                   *)
EXTENDS BookingSlots, TLC

CONSTANTS a, b, c, d

On(day, from, to) == [day |-> day, from |-> from, to |-> to]

(* A morning, an afternoon with the next morning, that next morning, and    *)
(* both days.                                                               *)
MixedKind == a :> "slot" @@ b :> "slot" @@ c :> "range" @@ d :> "slot"
MixedWindows ==
    a :> <<On(1, 0, 2)>> @@ b :> <<On(1, 1, 4), On(2, 0, 2)>>
    @@ c :> <<On(1, 0, 4), On(2, 0, 4)>> @@ d :> <<On(2, 0, 2)>>

(* The first two of them, and a holiday on the second morning.              *)
PairKind == a :> "slot" @@ b :> "slot"
PairWindows == a :> <<On(1, 0, 2)>> @@ b :> <<On(1, 1, 4), On(2, 0, 2)>>
Holiday == {On(2, 0, 4)}

Symmetry == Permutations(Proc)

=============================================================================
