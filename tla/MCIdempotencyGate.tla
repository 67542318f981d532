-------------------------- MODULE MCIdempotencyGate --------------------------
(* Instances of IdempotencyGate for TLC.                                    *)
EXTENDS IdempotencyGate, TLC

CONSTANTS c1

(* Calls have different keys and share nothing: one call, with all its      *)
(* attempts, shows what any of them meets.                                  *)
OneCall == {c1}

=============================================================================
