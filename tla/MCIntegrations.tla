--------------------------- MODULE MCIntegrations ---------------------------
(* A small instance of Integrations for TLC. *)
EXTENDS Integrations

CONSTANTS p1, p2, n1, n2, c1, c2    \* model values: tabs, numbers, capabilities
TwoTabs == {p1, p2}
TwoPhones == {n1, n2}
TwoCaps == {c1, c2}
=============================================================================
