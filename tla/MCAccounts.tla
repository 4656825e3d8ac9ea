----------------------------- MODULE MCAccounts -----------------------------
(* A small instance of Accounts for TLC. *)
EXTENDS Accounts, TLC

\* Model values: tabs, users, businesses, replicas.
CONSTANTS p1, p2, e1, e2, t1, t2, x1, x2
TwoTabs == {p1, p2}
TwoEmails == {e1, e2}
TwoTenants == {t1, t2}
TwoReplicas == {x1, x2}
Symmetric == Permutations(TwoTabs) \cup Permutations(TwoReplicas)
\* A member of one business, with a new user or one who has the choice of two.
Members == {[e \in TwoEmails |-> IF e = e1 THEN {t1} ELSE {}],
            [e \in TwoEmails |-> IF e = e1 THEN {t1} ELSE TwoTenants]}
=============================================================================
