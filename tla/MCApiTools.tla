----------------------------- MODULE MCApiTools -----------------------------
(* A small instance of ApiTools for TLC. *)
EXTENDS ApiTools

CONSTANTS p1, p2, t1, i1, i2, n1    \* model values: tabs, a turn, keys, a name
TwoTabs == {p1, p2}
OneTurn == {t1}
TwoIds == {i1, i2}
OneName == {n1}
Methods == {"GET"}
=============================================================================
