--------------------------- MODULE MCIdempotency ---------------------------
(* Instances of Idempotency for TLC.                                       *)
EXTENDS Idempotency

CONSTANTS a, b, c

MCThree == {a, b, c}
\* c asks for something else under the same key.
MCMixed == [r \in MCThree |-> IF r = c THEN "f2" ELSE "f1"]
MCBoth  == {"memory", "redis"}
=============================================================================
