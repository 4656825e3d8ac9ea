----------------------------- MODULE MCWebChat ------------------------------
(* A small instance of WebChat for TLC. *)
EXTENDS WebChat

CONSTANTS p1, p2    \* model values: tabs
TwoTabs == {p1, p2}
\* Pages of different kinds share nothing.
SameKind == {[p \in TwoTabs |-> k] : k \in Kind}
=============================================================================
