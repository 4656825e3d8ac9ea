----------------------------- MODULE MCConsole -----------------------------
\* Two tabs with lists, or one with the editor; two rows in each table, one of
\* them not yet there on the pages with a form.
EXTENDS Console, TLC

CONSTANTS p1, p2, x1, x2

Tabs == {p1, p2}
Things == {x1, x2}
OneEditor == {p1}
Tables == {[page |-> "orders", rows |-> (x1 :> "created" @@ x2 :> "none")],
           [page |-> "proposals", rows |-> (x1 :> "pending" @@ x2 :> "pending")],
           [page |-> "catalog", rows |-> (x1 :> "active" @@ x2 :> "none")],
           [page |-> "team", rows |-> (x1 :> "none" @@ x2 :> "none")]}
=============================================================================
