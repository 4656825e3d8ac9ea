------------------------------- MODULE Lists -------------------------------
(***************************************************************************)
(* The four pages of the dashboard that list what the business has and act *)
(* on it: its orders, the proposals of the daemon, the catalog and the     *)
(* team, each open in several tabs, with the routes and services behind    *)
(* them.                                                                   *)
(*                                                                         *)
(* A page shows the rows as the last list that arrived had them, acts on   *)
(* what it shows, and lists again when the act is answered, whatever the   *)
(* answer.  The pages differ in what they do when a request fails.  The    *)
(* tables share nothing, so all the tabs are on the same page here.        *)
(***************************************************************************)
EXTENDS Integers, FiniteSets

CONSTANTS
    Tab,
    Thing,          \* orders, proposals, items or invitations
    InitialTables,  \* where the tables start: records of a page and its rows
    MaxClicks       \* bound on clicks and failures, together

Page == {"orders", "proposals", "catalog", "team"}
Status == {"none", "created", "confirmed", "paid", "fulfilled", "closed",
           "cancelled", "refunded", "pending", "approved", "rejected",
           "active", "inactive"}
NoTab == "none"
ASSUME ListsAssumption ==
    /\ MaxClicks \in Nat /\ NoTab \notin Tab
    /\ InitialTables \subseteq [page : Page, rows : [Thing -> Status]]

VARIABLES
    page,           \* the page that is open
    rows,           \* its table
    found,          \* the search index of the catalog
    writes,         \* how often the table was written
    view,           \* what each tab shows
    calls,          \* requests, from their start to their answer
    slipped,        \* items whose indexing failed, or met their removal
    clicksLeft

listVars == <<page, rows, found, writes, view, calls, slipped, clicksLeft>>

-----------------------------------------------------------------------------
(* Rows, pages and calls. *)

\* NEXT_STATUS of the page, and VALID_TRANSITIONS of the order service.
NextStatus(s) ==
    CASE s = "created" -> {"confirmed", "cancelled"}
      [] s = "confirmed" -> {"paid", "cancelled"}
      [] s = "paid" -> {"fulfilled", "refunded"}
      [] s = "fulfilled" -> {"closed", "refunded"}
      [] OTHER -> {}

\* The rows a list asks for.
Shows == [orders |-> Status \ {"none"}, proposals |-> {"pending"},
          catalog |-> {"active"}, team |-> {"pending"}]
Listed == [t \in Thing |-> IF rows[t] \in Shows[page] THEN rows[t] ELSE "none"]

\* `asOf' and `known' count the writes that the list shown and the page's own
\* answered acts come after; they, `spoiled', and `lost', that the connection was
\* lost since the last list was asked for, are for the properties alone.
Opened == [loading |-> TRUE, hidden |-> FALSE, rows |-> [t \in Thing |-> "none"],
           form |-> "closed", asOf |-> 0, known |-> 0, spoiled |-> FALSE,
           lost |-> FALSE]

Fresh == CHOOSE n \in 1 .. Cardinality(calls) + 1 : \A c \in calls : c.no # n
ListCall(p) == [tab |-> p, no |-> Fresh, op |-> "list", stage |-> "sent"]
ActCall(p, t, to) == [tab |-> p, no |-> Fresh, op |-> "act", stage |-> "sent",
                      thing |-> t, to |-> to]
FormCall(p, t) == [tab |-> p, no |-> Fresh, op |-> "add", stage |-> "sent",
                   thing |-> t, form |-> TRUE]
\* What the routes pass on to the services.
MoveCall(p, t, to) == ActCall(p, t, to)
DecisionCall(p, t, to) == ActCall(p, t, to)
RemoveCall(p, t) == ActCall(p, t, "inactive")
ItemCall(p, t) == FormCall(p, t)
InviteCall(p, t) == FormCall(p, t)
Writes(c) == c.op # "list" /\ c.stage \notin {"ok", "error"}
Lists(p) == {c \in calls : c.op = "list" /\ c.tab = p}

Click == clicksLeft > 0 /\ clicksLeft' = clicksLeft - 1

ListsInit ==
    /\ \E table \in InitialTables : page = table.page /\ rows = table.rows
    /\ found = {t \in Thing : rows[t] = "active"}
    /\ writes = 0 /\ slipped = {} /\ clicksLeft = MaxClicks
    /\ view = [p \in Tab |-> [Opened EXCEPT !.loading = FALSE, !.rows = Listed]]
    /\ calls = {}

-----------------------------------------------------------------------------
(* The user. *)

\* No buttons are shown while a list is awaited, nor, with the orders, ever
\* again once a list failed.
Usable(p) == ~view[p].loading /\ ~view[p].hidden
Act(call) ==
    /\ Click
    /\ calls' = calls \cup {call}
    /\ UNCHANGED <<page, rows, found, writes, view, slipped>>

Transition(p) ==
    /\ page = "orders" /\ Usable(p)
    /\ \E t \in Thing : \E to \in NextStatus(view[p].rows[t]) :
         Act(MoveCall(p, t, to))
Decide(p) ==
    /\ page = "proposals" /\ Usable(p)
    /\ \E t \in Thing, to \in {"approved", "rejected"} :
         view[p].rows[t] = "pending" /\ Act(DecisionCall(p, t, to))
DeleteItem(p) ==
    /\ page = "catalog" /\ Usable(p)
    /\ \E t \in Thing : view[p].rows[t] = "active" /\ Act(RemoveCall(p, t))

\* The form of the catalog and the team: what it sends goes on when it is
\* closed, and a form opened again knows nothing of it.
HasForm(p) == page = "catalog" \/ (page = "team" /\ ~view[p].loading)
Disowned(p) == {IF c.tab = p /\ c.op = "add" THEN [c EXCEPT !.form = FALSE] ELSE c
                : c \in calls}
ToggleForm(p) ==
    /\ HasForm(p) /\ Click
    /\ view' = [view EXCEPT ![p].form = IF @ = "closed" THEN "open" ELSE "closed"]
    /\ calls' = Disowned(p)
    /\ UNCHANGED <<page, rows, found, writes, slipped>>
NotYet(t) == /\ rows[t] = "none"
             /\ \A c \in calls : c.op = "add" /\ Writes(c) => c.thing # t
Submit(p, call) ==
    /\ view[p].form = "open" /\ Click
    /\ calls' = calls \cup {call}
    /\ view' = [view EXCEPT ![p].form = "busy"]
    /\ UNCHANGED <<page, rows, found, writes, slipped>>
SubmitItem(p) ==
    /\ page = "catalog"
    /\ \E t \in Thing : NotYet(t) /\ Submit(p, ItemCall(p, t))
SubmitInvite(p) ==
    /\ page = "team" /\ ~view[p].loading
    /\ \E t \in Thing : NotYet(t) /\ Submit(p, InviteCall(p, t))

\* The page is loaded again: nobody waits for what it had asked for, and it
\* matters no more but for what it writes.
Orphaned(cs, p) == {IF c.tab = p THEN [c EXCEPT !.tab = NoTab] ELSE c
                    : c \in {d \in cs : d.tab = p => Writes(d)}}
Visit(p) ==
    /\ Click
    /\ view' = [view EXCEPT ![p] = Opened]
    /\ calls' = Orphaned(calls, p) \cup {ListCall(p)}
    /\ UNCHANGED <<page, rows, found, writes, slipped>>

-----------------------------------------------------------------------------
(* The routes and services. *)

Has(c, op, stage) == c.op = op /\ c.stage = stage
Replace(c, d) == calls' = (calls \ {c}) \cup {e \in {d} : e.tab # NoTab \/ Writes(e)}
Answered(c, stage) ==
    IF c.op = "add"
      THEN [tab |-> c.tab, no |-> c.no, op |-> "add", stage |-> stage, at |-> writes',
            form |-> c.form]
    ELSE [tab |-> c.tab, no |-> c.no, op |-> c.op, stage |-> stage, at |-> writes']
Write(t, s) == rows' = [rows EXCEPT ![t] = s] /\ writes' = writes + 1
serving == <<page, view, clicksLeft>>

List(c) ==
    /\ Has(c, "list", "sent")
    /\ UNCHANGED <<rows, writes>>
    /\ Replace(c, [tab |-> c.tab, no |-> c.no, op |-> "list", stage |-> "ok",
                   at |-> writes, rows |-> Listed])
    /\ UNCHANGED <<found, slipped, serving>>
ListOrders(c) == page = "orders" /\ List(c)
ListProposals(c) == page = "proposals" /\ List(c)
ListItems(c) == page = "catalog" /\ List(c)
ListTeam(c) == page = "team" /\ List(c)

\* The order service reads the status and checks the move, then writes it.
Checked(c) == [tab |-> c.tab, no |-> c.no, op |-> "act", stage |-> "checked",
               thing |-> c.thing, to |-> c.to, seen |-> rows[c.thing]]
CheckMove_Any(c) ==
    /\ Has(c, "act", "sent") /\ page = "orders"
    /\ UNCHANGED <<rows, writes>>
    /\ Replace(c, Checked(c))
    /\ UNCHANGED <<found, slipped, serving>>
CheckMove(c) ==
    /\ Has(c, "act", "sent") /\ page = "orders"
    /\ UNCHANGED <<rows, writes>>
    /\ Replace(c, IF c.to \in NextStatus(rows[c.thing])
                  THEN Checked(c) ELSE Answered(c, "error"))
    /\ UNCHANGED <<found, slipped, serving>>
\* The move is committed before its event is published, which may fail.
Move(c) ==
    /\ Has(c, "act", "checked")
    /\ Write(c.thing, c.to)
    /\ \E stage \in {"ok", "error"} : Replace(c, Answered(c, stage))
    /\ UNCHANGED <<found, slipped, serving>>

\* A proposal is decided where it is still pending; the answer does not say.
Review(c) ==
    /\ Has(c, "act", "sent") /\ page = "proposals"
    /\ IF rows[c.thing] = "pending" THEN Write(c.thing, c.to)
       ELSE UNCHANGED <<rows, writes>>
    /\ Replace(c, Answered(c, "ok"))
    /\ UNCHANGED <<found, slipped, serving>>
Approve(c) == Has(c, "act", "sent") /\ c.to = "approved" /\ Review(c)
Reject(c) == Has(c, "act", "sent") /\ c.to = "rejected" /\ Review(c)

\* An item is stored, then indexed for the search; to remove it, it is marked,
\* then taken from the index.
StoreItem(c) ==
    /\ Has(c, "add", "sent") /\ page = "catalog"
    /\ Write(c.thing, "active")
    /\ Replace(c, [c EXCEPT !.stage = "indexing"])
    /\ UNCHANGED <<found, slipped, serving>>
IndexItem(c) ==
    /\ Has(c, "add", "indexing")
    /\ UNCHANGED <<rows, writes>>
    /\ \/ found' = found \cup {c.thing} /\ UNCHANGED slipped
       \/ slipped' = slipped \cup {c.thing} /\ UNCHANGED found
    /\ Replace(c, Answered(c, "ok"))
    /\ UNCHANGED serving
MarkItem(c) ==
    /\ Has(c, "act", "sent") /\ page = "catalog"
    /\ IF rows[c.thing] # "active"
         THEN /\ UNCHANGED <<rows, writes>> /\ Replace(c, Answered(c, "error"))
         ELSE Write(c.thing, "inactive") /\ Replace(c, [c EXCEPT !.stage = "indexing"])
    /\ slipped' = slipped \cup {d.thing : d \in {e \in calls :
                                   Has(e, "add", "indexing") /\ e.thing = c.thing}}
    /\ UNCHANGED <<found, serving>>
UnindexItem_NotAtAll(c) ==
    /\ Has(c, "act", "indexing")
    /\ UNCHANGED <<rows, writes, found, slipped>>
    /\ Replace(c, Answered(c, "ok"))
    /\ UNCHANGED serving
UnindexItem(c) ==
    /\ Has(c, "act", "indexing")
    /\ UNCHANGED <<rows, writes>>
    /\ \/ found' = found \ {c.thing} /\ UNCHANGED slipped
       \/ slipped' = slipped \cup {c.thing} /\ UNCHANGED found
    /\ Replace(c, Answered(c, "ok"))
    /\ UNCHANGED serving

CreateInvite(c) ==
    /\ Has(c, "add", "sent") /\ page = "team"
    /\ Write(c.thing, "pending")
    /\ Replace(c, Answered(c, "ok"))
    /\ UNCHANGED <<found, slipped, serving>>

\* A service fails, before its next step.
Fail(c) ==
    /\ c.stage \notin {"ok", "error"} /\ Click
    /\ UNCHANGED <<rows, writes>>
    /\ Replace(c, Answered(c, "error"))
    /\ slipped' = IF c.stage = "indexing" THEN slipped \cup {c.thing} ELSE slipped
    /\ UNCHANGED <<page, found, view>>

-----------------------------------------------------------------------------
(* The answers. *)

receiving == <<page, rows, found, writes, slipped>>
ToTab(c, op, stages) == c.op = op /\ c.stage \in stages /\ c.tab # NoTab

\* load() after an act.  Of two lists on their way the last to arrive counts.
Reloads(p, c) ==
    /\ view' = [view EXCEPT ![p].loading = TRUE, ![p].lost = FALSE,
                            ![p].known = IF c.at > @ THEN c.at ELSE @,
                            ![p].spoiled = @ \/ Lists(p) # {}]
    /\ calls' = (calls \ {c}) \cup {ListCall(p)}
StaysAsItIs(p, c) ==
    /\ view' = [view EXCEPT ![p].known = IF c.at > @ THEN c.at ELSE @]
    /\ calls' = calls \ {c}

\* The page does not look at the answer.
Acted(c) ==
    /\ ToTab(c, "act", {"ok", "error"})
    /\ Reloads(c.tab, c)
    /\ UNCHANGED <<receiving, clicksLeft>>

\* The answer to a form closes whatever form is open, or, an error, frees its
\* own.
Added(c) ==
    /\ ToTab(c, "add", {"ok"})
    /\ view' = [view EXCEPT ![c.tab].loading = TRUE, ![c.tab].form = "closed",
                            ![c.tab].lost = FALSE,
                            ![c.tab].known = IF c.at > @ THEN c.at ELSE @,
                            ![c.tab].spoiled = @ \/ Lists(c.tab) # {}]
    /\ calls' = ({IF d.tab = c.tab /\ d.op = "add" THEN [d EXCEPT !.form = FALSE] ELSE d
                  : d \in calls \ {c}}) \cup {ListCall(c.tab)}
    /\ UNCHANGED <<receiving, clicksLeft>>
NotAdded(c) ==
    /\ ToTab(c, "add", {"error"})
    /\ view' = [view EXCEPT ![c.tab].form = IF c.form THEN "open" ELSE @]
    /\ calls' = calls \ {c}
    /\ UNCHANGED <<receiving, clicksLeft>>

Loaded(c) ==
    /\ ToTab(c, "list", {"ok"})
    /\ view' = [view EXCEPT ![c.tab].loading = FALSE, ![c.tab].rows = c.rows,
                            ![c.tab].asOf = c.at]
    /\ calls' = calls \ {c}
    /\ UNCHANGED <<receiving, clicksLeft>>
\* An error hides the orders; the others keep what they showed.
NotLoaded_StillLoading(c) ==
    /\ ToTab(c, "list", {"error"})
    /\ view' = [view EXCEPT ![c.tab].spoiled = TRUE]
    /\ calls' = calls \ {c}
    /\ UNCHANGED <<receiving, clicksLeft>>
NotLoaded(c) ==
    /\ ToTab(c, "list", {"error"})
    /\ view' = [view EXCEPT ![c.tab].loading = FALSE, ![c.tab].spoiled = TRUE,
                            ![c.tab].hidden = @ \/ page = "orders"]
    /\ calls' = calls \ {c}
    /\ UNCHANGED <<receiving, clicksLeft>>

\* The connection is lost, and the call goes on.  An act is not followed by a
\* list then; a list is caught as an error by the orders and the catalog only.
Lose(c) ==
    /\ c.tab # NoTab /\ Click
    /\ LET p == c.tab
           caught == page \in {"orders", "catalog"}
       IN  view' = CASE c.op = "act" -> view
                     [] c.op = "add" ->
                          [view EXCEPT ![p].form = IF c.form THEN "open" ELSE @]
                     [] c.op = "list" ->
                          [view EXCEPT ![p].loading = @ /\ ~caught, ![p].spoiled = TRUE,
                                       ![p].hidden = @ \/ page = "orders",
                                       ![p].lost = TRUE]
    /\ Replace(c, [c EXCEPT !.tab = NoTab])
    /\ UNCHANGED receiving

-----------------------------------------------------------------------------

Serve(c) == \/ ListOrders(c) \/ ListProposals(c) \/ ListItems(c) \/ ListTeam(c)
            \/ CheckMove(c) \/ Move(c) \/ Approve(c) \/ Reject(c)
            \/ StoreItem(c) \/ IndexItem(c) \/ MarkItem(c) \/ UnindexItem(c)
            \/ CreateInvite(c)
Receive(c) == \/ Acted(c) \/ Added(c) \/ NotAdded(c) \/ Loaded(c) \/ NotLoaded(c)

ListsNext ==
    \/ \E p \in Tab : \/ Transition(p) \/ Decide(p) \/ DeleteItem(p)
                      \/ ToggleForm(p) \/ SubmitItem(p) \/ SubmitInvite(p)
                      \/ Visit(p)
    \/ \E c \in calls : Serve(c) \/ Receive(c) \/ Fail(c) \/ Lose(c)

ListsFairness == WF_listVars(\E c \in calls : Serve(c) \/ Receive(c))

-----------------------------------------------------------------------------
(* Safety. *)

\* Every variable has its type.
ListsTypeOK ==
    /\ rows \in [Thing -> Status] /\ found \subseteq Thing /\ slipped \subseteq Thing
    /\ \A p \in Tab : /\ view[p].rows \in [Thing -> Status]
                      /\ view[p].form \in {"closed", "open", "busy"}
                      /\ view[p].form = "busy" =>
                           \E c \in calls : c.op = "add" /\ c.tab = p /\ c.form
    /\ \A c \in calls : c.tab \in Tab \cup {NoTab} /\ c.op \in {"list", "act", "add"}
    /\ clicksLeft \in 0 .. MaxClicks

\* When nothing is on its way, the search finds the items of the catalog, but
\* for those whose indexing failed or was overtaken by their removal.
SearchMatchesCatalog ==
    page = "catalog" /\ (\A c \in calls : c.op = "list") =>
        \A t \in Thing \ slipped : t \in found <=> rows[t] = "active"

\* A page that waits for nothing shows what its own acts made of the rows,
\* unless a list failed or two were on their way together.
OwnActsShown ==
    \A p \in Tab :
        (\A c \in calls : c.tab # p) /\ ~view[p].spoiled => view[p].asOf >= view[p].known

\* The rows, the search and the pages agree when nothing is on its way.
ListsInv == ListsTypeOK /\ SearchMatchesCatalog /\ OwnActsShown

(* What a step may not do. *)

\* However old the page whose button was pressed: of two reviewers the first
\* decides, and an order makes only moves that are open to it, unless another
\* move came between the check and the write.
StatusMoves ==
    [][\A t \in Thing : rows'[t] # rows[t] =>
         /\ page = "proposals" => rows[t] = "pending"
         /\ page = "orders" =>
              \/ rows'[t] \in NextStatus(rows[t])
              \/ \E c \in calls : /\ Has(c, "act", "checked") /\ c.thing = t
                                  /\ c.seen # rows[t]
                                  /\ rows'[t] \in NextStatus(c.seen)]_listVars

(* Liveness. *)

\* The list comes or its error does, however many are on their way; only the
\* proposals and the team wait for good, and only when the connection is lost
\* after they asked for the last of them.
LoadingEnds ==
    \A p \in Tab : view[p].loading ~>
        (~view[p].loading \/ (page \in {"proposals", "team"} /\ view[p].lost))
=============================================================================
