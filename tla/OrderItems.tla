----------------------------- MODULE OrderItems -----------------------------
(***************************************************************************)
(* What an order.created message says about the order, and the services    *)
(* take from it: the items, one entry for each product.                    *)
(***************************************************************************)
EXTENDS EventBus

CONSTANTS
  Products,
  Need  \* Need[o][p]: how many of p order o asks for, after merging

ASSUME ItemsAssumption == Need \in [Orders -> [Products -> Nat]]

Wanted(o) == {p \in Products : Need[o][p] > 0}
=============================================================================
