------------------------------ MODULE Console ------------------------------
(***************************************************************************)
(* The console of a business in the dashboard: the pages that list and act *)
(* (Lists) and the page that edits the blueprint (Blueprints).  They have  *)
(* no table in common, so as in Lists all the tabs stay on one page.       *)
(***************************************************************************)
EXTENDS Lists, Blueprints

VARIABLE part       \* which of the two the tabs are on

consoleVars == <<listVars, blueprintVars, part>>

\* With the editor open, the tables of the other pages are nowhere used.
ConsoleInit ==
    /\ ListsInit /\ BlueprintsInit
    /\ part \in {"lists", "blueprint"}
    /\ part = "blueprint" => page = "team"

ConsoleNext ==
    \/ part = "lists" /\ ListsNext /\ UNCHANGED <<blueprintVars, part>>
    \/ part = "blueprint" /\ BlueprintsNext /\ UNCHANGED <<listVars, part>>

Spec == ConsoleInit /\ [][ConsoleNext]_consoleVars /\ ListsFairness /\ BlueprintsFairness

-----------------------------------------------------------------------------

\* No page waits for ever: lists end loading, and an editor is free again.
PagesComeBack == LoadingEnds /\ SavesEnd
=============================================================================
