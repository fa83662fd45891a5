---------------------------- MODULE MCStorefront ----------------------------
(* An instance of Storefront for TLC. *)
EXTENDS StorefrontProperties

CONSTANTS p1, p2, u1

\* The second product is sold out.
ShelfHalf == [p \in {p1, p2} |-> IF p = p1 THEN 2 ELSE 0]
=============================================================================
