------------------------------ MODULE MCOrders ------------------------------
(* Small instances of Orders for TLC. *)
EXTENDS Orders, TLC

CONSTANTS h1, h2, h3, o1, o2    \* model values: handlers and orders
ThreeHandlers == {h1, h2, h3}
TwoOrders == {o1, o2}
OneOrder == {o1}
Symmetry == Permutations(Handler) \cup Permutations(Order)
=============================================================================
