------------------------------ MODULE ApiTools ------------------------------
(***************************************************************************)
(* The endpoints a tenant registers as tools (business.api_tools): the     *)
(* manager in the dashboard with its form, in several tabs; the routes     *)
(* behind it; and the turns, which look the active tools up through Redis  *)
(* once to judge a call and once more to make it.                          *)
(*                                                                         *)
(* Requests are answered in any order.  Of a tool the model keeps what the *)
(* harness decides by: its name, its method and whether it has side        *)
(* effects.  The connection (ApiConfig) is locked as soon as it is there.  *)
(***************************************************************************)
EXTENDS Integers, FiniteSets

CONSTANTS
    Tab, Turn,
    Id,             \* the keys tools get, in no particular order
    Name, Method,
    MaxEvents       \* bound on clicks, failures and deaths of turns, together

ASSUME ApiToolsAssumption == MaxEvents \in Nat /\ IsFiniteSet(Tab)

VARIABLES
    connected,      \* the tenant has an API connection
    tools,          \* business.api_tools by key
    wasActive,      \* every version of a tool that was active once
    requests,       \* the tabs' requests, from their start to their answer
    manager,        \* the state of ApiToolsManager in each tab
    form,           \* and of its ToolForm
    cache,          \* Redis' list of the active tools: <<>> or <<list>>
    turn,
    eventsLeft

vars == <<connected, tools, wasActive, requests, manager, form, cache, turn,
          eventsLeft>>

-----------------------------------------------------------------------------
(* Tools, requests and the manager. *)

Unused == [status |-> "unused"]
Deleted == [status |-> "deleted"]
Status == {"draft", "active", "disabled"}
Exists(i) == tools[i].status \in Status
Version(i) == [id |-> i, name |-> tools[i].name, method |-> tools[i].method,
               side_effect |-> tools[i].side_effect]
Active == {Version(i) : i \in {j \in Id : tools[j].status = "active"}}

Closed == [open |-> FALSE]
Opened(target) == [open |-> TRUE, editing |-> target, saving |-> 0]

Fresh(p) == CHOOSE n \in 1 .. Cardinality(requests) + 1 :
              \A r \in requests : r.tab = p => r.no # n
Load(p) == [tab |-> p, no |-> Fresh(p), op |-> "load", stage |-> "sent"]
Answered(r, stage) == [tab |-> r.tab, no |-> r.no, op |-> r.op, stage |-> stage]
Replace(r, q) == requests' = (requests \ {r}) \cup {q}
Loads(p) == {r \in requests : r.tab = p /\ r.op = "load"}

Init ==
    /\ \/ connected = FALSE /\ tools = [i \in Id |-> Unused]
       \/ /\ connected = TRUE
          /\ \E n \in Name, m \in Method :
               tools = [i \in Id |-> IF i # CHOOSE k \in Id : TRUE THEN Unused
                                    ELSE [name |-> n, method |-> m, status |-> "active",
                                          side_effect |-> FALSE]]
    /\ wasActive = Active
    /\ requests = {[tab |-> p, no |-> 1, op |-> "load", stage |-> "sent"] : p \in Tab}
    /\ manager = [p \in Tab |-> [shown |-> [i \in Id |-> "unused"], loading |-> TRUE]]
    /\ form = [p \in Tab |-> Closed]
    /\ cache = <<>>
    /\ turn = [t \in Turn |-> [stage |-> "idle"]]
    /\ eventsLeft = MaxEvents

Event == eventsLeft > 0 /\ eventsLeft' = eventsLeft - 1

-----------------------------------------------------------------------------
(* The user.  The list is hidden while it loads, the form is not. *)

clicked == <<connected, tools, wasActive, cache, turn>>
Listed(p, i) == ~manager[p].loading /\ manager[p].shown[i] \in Status
Send(p, q) == /\ Event
              /\ requests' = requests \cup {q}

\* "Add endpoint" opens the form and closes it again.
ToggleForm(p) ==
    /\ Event
    /\ form' = [form EXCEPT ![p] = IF @.open THEN Closed ELSE Opened("new")]
    /\ UNCHANGED <<requests, manager, clicked>>

\* "Edit" turns an open form, which keeps what it holds, to the tool.
EditTool(p, i) ==
    /\ Listed(p, i) /\ Event
    /\ form' = [form EXCEPT ![p] = IF @.open THEN [@ EXCEPT !.editing = i]
                                   ELSE Opened(i)]
    /\ UNCHANGED <<requests, manager, clicked>>

\* What the form may hold when it is saved: the user fills it, "Edit" does not.
Fields == [name : Name, method : Method, side_effect : BOOLEAN]

\* Every save makes the tool a draft.
Payload(f) == [name |-> f.name, method |-> f.method,
               side_effect |-> f.side_effect, status |-> "draft"]
Save(p, f) ==
    /\ form[p].open /\ form[p].saving = 0
    /\ Send(p, [tab |-> p, no |-> Fresh(p),
                op |-> IF form[p].editing = "new" THEN "create" ELSE "update",
                stage |-> IF form[p].editing = "new" THEN "check" ELSE "sent",
                id |-> form[p].editing, tool |-> Payload(f)])
    /\ form' = [form EXCEPT ![p].saving = Fresh(p)]
    /\ UNCHANGED <<manager, clicked>>

\* "Activate" and "Disable": nothing marks the list as busy.
Toggled(status) == IF status = "active" THEN "disabled" ELSE "active"
SetStatus(p, i) ==
    /\ Listed(p, i)
    /\ Send(p, [tab |-> p, no |-> Fresh(p), op |-> "status", stage |-> "sent",
                id |-> i, status |-> Toggled(manager[p].shown[i])])
    /\ UNCHANGED <<manager, form, clicked>>

Remove(p, i) ==
    /\ Listed(p, i)
    /\ Send(p, [tab |-> p, no |-> Fresh(p), op |-> "delete", stage |-> "sent",
                id |-> i])
    /\ UNCHANGED <<manager, form, clicked>>

-----------------------------------------------------------------------------
(* The routes. *)

served == <<connected, manager, form, cache, turn, eventsLeft>>
Has(r, op, stage) == r.op = op /\ r.stage = stage

SetTool(i, tool) ==
    /\ tools' = [tools EXCEPT ![i] = tool]
    /\ wasActive' = wasActive \cup
          (IF tool.status = "active"
           THEN {[id |-> i, name |-> tool.name, method |-> tool.method,
                  side_effect |-> tool.side_effect]}
           ELSE {})

ServeList(r) ==
    /\ Has(r, "load", "sent")
    /\ Replace(r, [tab |-> r.tab, no |-> r.no, op |-> "load", stage |-> "ok",
                   shown |-> [i \in Id |-> tools[i].status]])
    /\ UNCHANGED <<tools, wasActive, served>>

\* POST: the connection is looked up first, the name is UNIQUE.
CheckCreate(r) ==
    /\ Has(r, "create", "check")
    /\ Replace(r, IF connected THEN [r EXCEPT !.stage = "insert"]
                  ELSE Answered(r, "error"))
    /\ UNCHANGED <<tools, wasActive, served>>

NameTaken(n) == \E i \in Id : Exists(i) /\ tools[i].name = n
Create(r) ==
    /\ Has(r, "create", "insert")
    /\ IF NameTaken(r.tool.name)
         THEN /\ Replace(r, Answered(r, "error"))
              /\ UNCHANGED <<tools, wasActive>>
         ELSE \E i \in Id : /\ tools[i] = Unused
                            /\ SetTool(i, r.tool)
                            /\ Replace(r, Answered(r, "ok"))
    /\ UNCHANGED served

\* PATCH updates by key, and is content with no row.  The name is no field
\* of it.
Patched(i, tool) == [tool EXCEPT !.name = tools[i].name]
Patch_Upsert(r) ==
    /\ r.op \in {"update", "status"} /\ r.stage = "sent"
    /\ IF r.op = "update" THEN SetTool(r.id, r.tool)
       ELSE IF Exists(r.id) THEN SetTool(r.id, [tools[r.id] EXCEPT !.status = r.status])
       ELSE UNCHANGED <<tools, wasActive>>
    /\ Replace(r, Answered(r, "ok"))
    /\ UNCHANGED served
Patch(r) ==
    /\ r.op \in {"update", "status"} /\ r.stage = "sent"
    /\ IF ~Exists(r.id) THEN UNCHANGED <<tools, wasActive>>
       ELSE SetTool(r.id, IF r.op = "update" THEN Patched(r.id, r.tool)
                          ELSE [tools[r.id] EXCEPT !.status = r.status])
    /\ Replace(r, Answered(r, "ok"))
    /\ UNCHANGED served

Delete(r) ==
    /\ Has(r, "delete", "sent")
    /\ SetTool(r.id, Deleted)
    /\ Replace(r, Answered(r, "ok"))
    /\ UNCHANGED served

\* The network or the database fails the request, before or after its work.
Fail(r) ==
    /\ r.stage # "error" /\ Event
    /\ Replace(r, Answered(r, "error"))
    /\ UNCHANGED <<manager, form, clicked>>

-----------------------------------------------------------------------------
(* The answers. *)

received == <<connected, tools, wasActive, cache, turn, eventsLeft>>
Reload(r) ==
    /\ requests' = (requests \ {r}) \cup {Load(r.tab)}
    /\ manager' = [manager EXCEPT ![r.tab].loading = TRUE]

Loaded(r) ==
    /\ r.op = "load" /\ r.stage \in {"ok", "error"}
    /\ requests' = requests \ {r}
    /\ manager' = [manager EXCEPT ![r.tab] =
          [shown |-> IF r.stage = "ok" THEN r.shown ELSE @.shown,
           loading |-> FALSE]]
    /\ UNCHANGED <<form, received>>

\* onSaved closes the form, whichever tool it is on by now.
Saved(r) ==
    /\ r.op \in {"create", "update"} /\ r.stage = "ok"
    /\ form' = [form EXCEPT ![r.tab] = Closed]
    /\ Reload(r)
    /\ UNCHANGED received

NotSaved(r) ==
    /\ r.op \in {"create", "update"} /\ r.stage = "error"
    /\ requests' = requests \ {r}
    /\ form' = [form EXCEPT ![r.tab] = IF @.open /\ @.saving = r.no
                                       THEN [@ EXCEPT !.saving = 0] ELSE @]
    /\ UNCHANGED <<manager, received>>

\* setStatus and remove load after any answer, and not after none.
Changed(r) ==
    /\ r.op \in {"status", "delete"} /\ r.stage \in {"ok", "error"}
    /\ \/ Reload(r)
       \/ /\ r.stage = "error"
          /\ requests' = requests \ {r}
          /\ UNCHANGED manager
    /\ UNCHANGED <<form, received>>

\* The panel above connects the API.
Connect ==
    /\ ~connected /\ connected' = TRUE
    /\ UNCHANGED <<tools, wasActive, requests, manager, form, cache, turn, eventsLeft>>

-----------------------------------------------------------------------------
(* A turn's call by name: the permission gate, then the invocation. *)

turning == <<connected, tools, wasActive, requests, manager, form>>
Idle == [stage |-> "idle"]

\* classify_risk: a side effect and a DELETE wait for the owner, and nothing
\* resumes a turn that waits.
High(v) == v.side_effect \/ v.method = "DELETE"

\* What the turn does with the list: judge the tool, or call it.
Use_Unjudged(t, list, call) ==
    turn' = [turn EXCEPT ![t] =
        IF \A v \in list : v.name # call.name THEN Idle
        ELSE LET tool == CHOOSE v \in list : v.name = call.name
             IN  IF call.gated
                 THEN [stage |-> "call", tool |-> tool, judged |-> call.judged]
                 ELSE [stage |-> "again", judged |-> tool]]
Use(t, list, call) ==
    turn' = [turn EXCEPT ![t] =
        IF \A v \in list : v.name # call.name THEN Idle
        ELSE LET tool == CHOOSE v \in list : v.name = call.name
             IN  IF call.gated
                 THEN [stage |-> "call", tool |-> tool, judged |-> call.judged]
                 ELSE IF High(tool) THEN Idle
                 ELSE [stage |-> "again", judged |-> tool]]

\* load_active_tools, up to its SELECT.
Lookup(t, call) ==
    /\ IF cache # <<>> THEN Use(t, cache[1], call)
       ELSE turn' = [turn EXCEPT ![t] =
              [stage |-> "fill", list |-> Active, call |-> call]]
    /\ UNCHANGED <<cache, eventsLeft, turning>>

Gate(t, n) == /\ turn[t] = Idle /\ connected
              /\ Lookup(t, [name |-> n, gated |-> FALSE])
Invoke(t) == /\ turn[t].stage = "again"
             /\ Lookup(t, [name |-> turn[t].judged.name, gated |-> TRUE,
                           judged |-> turn[t].judged])

Fill(t) ==
    /\ turn[t].stage = "fill"
    /\ cache' = <<turn[t].list>>
    /\ Use(t, turn[t].list, turn[t].call)
    /\ UNCHANGED <<eventsLeft, turning>>

\* The request to the tenant's API, and its answer.
Call(t) ==
    /\ turn[t].stage = "call"
    /\ turn' = [turn EXCEPT ![t] = Idle]
    /\ UNCHANGED <<cache, eventsLeft, turning>>

TurnDies(t) ==
    /\ turn[t] # Idle /\ Event
    /\ turn' = [turn EXCEPT ![t] = Idle]
    /\ UNCHANGED <<cache, turning>>

\* Five minutes pass.  Nothing calls invalidate_cache.
Expire ==
    /\ cache # <<>> /\ cache' = <<>>
    /\ UNCHANGED <<turn, eventsLeft, turning>>

-----------------------------------------------------------------------------

Serve(r) == \/ ServeList(r) \/ CheckCreate(r) \/ Create(r) \/ Patch(r) \/ Delete(r)
Receive(r) == Loaded(r) \/ Saved(r) \/ NotSaved(r) \/ Changed(r)

Next ==
    \/ \E p \in Tab :
         \/ ToggleForm(p)
         \/ \E f \in Fields : Save(p, f)
         \/ \E i \in Id : EditTool(p, i) \/ SetStatus(p, i) \/ Remove(p, i)
    \/ \E r \in requests : Serve(r) \/ Fail(r) \/ Receive(r)
    \/ \E t \in Turn :
         \/ \E n \in Name : Gate(t, n)
         \/ Invoke(t) \/ Fill(t) \/ Call(t) \/ TurnDies(t)
    \/ Connect \/ Expire

Spec == Init /\ [][Next]_vars

-----------------------------------------------------------------------------
(* Safety. *)

Tool == [name : Name, method : Method, side_effect : BOOLEAN, status : Status]
Versions == [id : Id, name : Name, method : Method, side_effect : BOOLEAN]

\* Every variable has its type.
TypeOK ==
    /\ connected \in BOOLEAN /\ eventsLeft \in 0 .. MaxEvents
    /\ tools \in [Id -> Tool \cup {Unused, Deleted}]
    /\ wasActive \subseteq Versions
    /\ \A r \in requests :
         /\ r.tab \in Tab
         /\ r.op \in {"load", "create", "update", "status", "delete"}
         /\ r.stage \in {"sent", "check", "insert", "ok", "error"}
    /\ manager \in [Tab -> [shown : [Id -> Status \cup {"unused", "deleted"}],
                            loading : BOOLEAN]]
    /\ form \in [Tab -> {Closed} \cup [open : {TRUE}, editing : Id \cup {"new"},
                                      saving : Nat]]
    /\ cache = <<>> \/ cache[1] \subseteq Versions
    /\ \A t \in Turn : turn[t].stage \in {"idle", "fill", "again", "call"}

\* A call that no owner approved was judged on a version of the tool that was
\* active once and needed no approval; what is called was active as well, and
\* needs approval only if the tool was changed between judgement and call.
CallsAreJudged ==
    \A t \in Turn : turn[t].stage = "call" =>
        LET c == turn[t]
        IN  /\ {c.tool, c.judged} \subseteq wasActive
            /\ c.tool.name = c.judged.name /\ ~High(c.judged)
            /\ High(c.tool) => c.tool # c.judged

\* Names stay unique, in the table and in what turns are given, when two tabs
\* create one tool together.
Distinct(list) == \A v, w \in list : v.name = w.name => v = w
NamesUnique == Distinct(Active) /\ (cache # <<>> => Distinct(cache[1]))

\* Whoever edits meanwhile, one tool bears a name, and a call is of what was
\* judged or of a later edit of it.
ToolsInv == TypeOK /\ CallsAreJudged /\ NamesUnique

(* What a step may not do. *)

\* A version becomes callable by a click on Activate and in no other way: what
\* a save leaves behind is a draft, whatever it was and whoever looks at it,
\* and no edit or activation brings back what was deleted.
ActivatedByClick ==
    [][/\ \A i \in Id : tools[i] = Deleted => tools'[i] = Deleted
       /\ \A v \in wasActive' \ wasActive : \E r \in requests :
            Has(r, "status", "sent") /\ r.id = v.id /\ r.status = "active"]_vars
=============================================================================
