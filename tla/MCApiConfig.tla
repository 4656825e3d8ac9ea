---------------------------- MODULE MCApiConfig ----------------------------
(* A small instance of ApiConfig for TLC. *)
EXTENDS ApiConfig

CONSTANTS p1, p2, t1, u1, u2, k1    \* model values: tabs, a turn, urls, a secret
TwoTabs == {p1, p2}
OneTurn == {t1}
TwoUrls == {u1, u2}
OneSecret == {k1}
=============================================================================
