--------------------------- MODULE ApiToolsProofs ---------------------------
(***************************************************************************)
(* Theorems about ApiTools, for any number of tabs, turns, tools, names,   *)
(* methods and requests.                                                   *)
(***************************************************************************)
EXTENDS ApiTools, FiniteSetTheorems, TLAPS

-----------------------------------------------------------------------------
(* The inductive invariant *)

\* One tool bears a name, and what is active counts as active once.
TableInv ==
    /\ tools \in [Id -> Tool \cup {Unused, Deleted}]
    /\ \A i, j \in Id : Exists(i) /\ Exists(j) /\ tools[i].name = tools[j].name => i = j
    /\ wasActive \subseteq Versions /\ Active \subseteq wasActive

\* What a request carries at its stage: a save a draft, a click one of the
\* two statuses it can ask for.
Draft == [name : Name, method : Method, side_effect : BOOLEAN, status : {"draft"}]
RequestOK(r) ==
    /\ r.tab \in Tab /\ r.op \in {"load", "create", "update", "status", "delete"}
    /\ r.stage \in {"sent", "check", "insert", "ok", "error"}
    /\ Has(r, "load", "ok") => r.shown \in [Id -> Status \cup {"unused", "deleted"}]
    /\ r.op = "create" /\ r.stage \in {"check", "insert"} =>
         {"tab", "op", "stage", "tool"} \subseteq DOMAIN r /\ r.tool \in Draft
    /\ Has(r, "update", "sent") => r.id \in Id /\ r.tool \in Draft
    /\ Has(r, "status", "sent") => r.id \in Id /\ r.status \in {"active", "disabled"}
    /\ Has(r, "delete", "sent") => r.id \in Id
RequestsInv == IsFiniteSet(requests) /\ \A r \in requests : RequestOK(r)

TabsInv ==
    /\ connected \in BOOLEAN /\ eventsLeft \in 0 .. MaxEvents
    /\ manager \in [Tab -> [shown : [Id -> Status \cup {"unused", "deleted"}],
                            loading : BOOLEAN]]
    /\ form \in [Tab -> {Closed} \cup [open : {TRUE}, editing : Id \cup {"new"},
                                      saving : Nat]]

\* A list of tools as the table had it once, and a tool that needs no approval.
Given(list) == list \subseteq wasActive /\ Distinct(list)
Judged(v) == v \in wasActive /\ ~High(v)

\* A turn goes on only with what was judged.
CallOK(call) ==
    /\ call.gated \in BOOLEAN
    /\ call.gated => Judged(call.judged) /\ call.name = call.judged.name
TurnOK(s) ==
    /\ s.stage \in {"idle", "fill", "again", "call"}
    /\ s.stage = "fill" => Given(s.list) /\ CallOK(s.call)
    /\ s.stage = "again" => Judged(s.judged)
    /\ s.stage = "call" => /\ Judged(s.judged) /\ s.tool \in wasActive
                           /\ s.tool.name = s.judged.name
TurnsInv ==
    /\ cache # <<>> => Given(cache[1])
    /\ DOMAIN turn = Turn /\ \A t \in Turn : TurnOK(turn[t])

ToolsInd == TableInv /\ RequestsInv /\ TabsInv /\ TurnsInv

-----------------------------------------------------------------------------
(* The table *)

\* What was active stays so.
Grown == wasActive \subseteq wasActive'

LEMMA KnownTool ==
  ASSUME TableInv, NEW i \in Id, Exists(i)
  PROVE  tools[i] \in Tool
  BY DEF TableInv, Exists, Unused, Deleted, Status

LEMMA SetToolTable ==
  ASSUME TableInv, NEW i \in Id, NEW tool \in Tool \cup {Deleted}, SetTool(i, tool),
         tool.status \in Status =>
           \A j \in Id \ {i} : Exists(j) => tools[j].name # tool.name
  PROVE  TableInv' /\ Grown
<1> DEFINE v == [id |-> i, name |-> tool.name, method |-> tool.method,
                 side_effect |-> tool.side_effect]
<1>1. /\ tools' = [tools EXCEPT ![i] = tool] /\ tools'[i] = tool
      /\ \A j \in Id \ {i} : tools'[j] = tools[j]
      /\ wasActive' = wasActive \cup (IF tool.status = "active" THEN {v} ELSE {})
  BY DEF SetTool, TableInv
<1>2. tools' \in [Id -> Tool \cup {Unused, Deleted}]
  BY <1>1 DEF TableInv
<1>3. Deleted.status \notin Status /\ (tool.status = "active" => tool \in Tool)
  BY DEF Deleted, Status
<1>4. wasActive' \subseteq Versions /\ Grown
  <2>1. ASSUME tool.status = "active" PROVE v \in Versions
    BY <1>3, <2>1 DEF Tool, Versions
  <2> QED
    BY <1>1, <2>1 DEF TableInv, Grown
<1>5. ASSUME NEW j \in Id, NEW k \in Id, Exists(j)', Exists(k)',
             tools'[j].name = tools'[k].name
      PROVE  j = k
  BY <1>1, <1>5 DEF TableInv, Exists
<1>6. Active' \subseteq wasActive'
  <2>1. ASSUME NEW j \in Id, tools'[j].status = "active" PROVE Version(j)' \in wasActive'
    <3>1. CASE j = i
      BY <1>1, <2>1, <3>1 DEF Version
    <3>2. CASE j # i
      <4>1. Version(j)' = Version(j) /\ Version(j) \in Active
        BY <1>1, <2>1, <3>2 DEF Version, Active
      <4> QED
        BY <1>1, <4>1 DEF TableInv
    <3> QED
      BY <3>1, <3>2
  <2> QED
    BY <2>1 DEF Active
<1> QED
  BY <1>2, <1>4, <1>5, <1>6 DEF TableInv

LEMMA TableStays ==
  ASSUME TableInv, UNCHANGED <<tools, wasActive>>
  PROVE  TableInv' /\ Grown
  BY DEF TableInv, Grown, Exists, Active, Version

LEMMA TableNext == TableInv /\ RequestsInv /\ [Next]_vars => TableInv' /\ Grown
<1> SUFFICES ASSUME TableInv, RequestsInv, [Next]_vars PROVE TableInv' /\ Grown
  OBVIOUS
<1> USE DEF clicked, served, received, turning
<1>1. ASSUME NEW r \in requests, Create(r) PROVE TableInv' /\ Grown
  <2>1. CASE NameTaken(r.tool.name)
    BY <1>1, <2>1, TableStays DEF Create
  <2>2. CASE ~NameTaken(r.tool.name)
    <3>1. PICK i \in Id : SetTool(i, r.tool)
      BY <1>1, <2>2 DEF Create
    <3>2. r.tool \in Tool
      BY <1>1 DEF RequestsInv, RequestOK, Create, Has, Draft, Tool, Status
    <3>3. \A j \in Id \ {i} : Exists(j) => tools[j].name # r.tool.name
      BY <2>2 DEF NameTaken
    <3> QED
      BY <3>1, <3>2, <3>3, SetToolTable
  <2> QED
    BY <2>1, <2>2
<1>2. ASSUME NEW r \in requests, Patch(r) PROVE TableInv' /\ Grown
  <2>1. CASE ~Exists(r.id)
    BY <1>2, <2>1, TableStays DEF Patch
  <2>2. CASE Exists(r.id)
    <3>1. r.id \in Id /\ tools[r.id] \in Tool
      BY <1>2, <2>2, KnownTool DEF RequestsInv, RequestOK, Patch, Has
    <3>2. \A j \in Id \ {r.id} : Exists(j) => tools[j].name # tools[r.id].name
      BY <2>2, <3>1 DEF TableInv
    <3>3. CASE r.op = "update"
      <4>1. r.tool \in Draft
        BY <1>2, <3>3 DEF RequestsInv, RequestOK, Patch, Has
      <4>2. Patched(r.id, r.tool) \in Tool
            /\ Patched(r.id, r.tool).name = tools[r.id].name
        BY <3>1, <4>1 DEF Patched, Draft, Tool, Status
      <4>3. SetTool(r.id, Patched(r.id, r.tool))
        BY <1>2, <2>2, <3>3 DEF Patch
      <4> QED
        BY <3>1, <3>2, <4>2, <4>3, SetToolTable
    <3>4. CASE r.op = "status"
      <4>1. r.status \in Status
        BY <1>2, <3>4 DEF RequestsInv, RequestOK, Patch, Has, Status
      <4>2. /\ [tools[r.id] EXCEPT !.status = r.status] \in Tool
            /\ [tools[r.id] EXCEPT !.status = r.status].name = tools[r.id].name
        BY <3>1, <4>1 DEF Tool
      <4>3. SetTool(r.id, [tools[r.id] EXCEPT !.status = r.status])
        BY <1>2, <2>2, <3>4 DEF Patch
      <4> QED
        BY <3>1, <3>2, <4>2, <4>3, SetToolTable
    <3> QED
      BY <1>2, <3>3, <3>4 DEF Patch
  <2> QED
    BY <2>1, <2>2
<1>3. ASSUME NEW r \in requests, Delete(r) PROVE TableInv' /\ Grown
  <2>1. r.id \in Id /\ SetTool(r.id, Deleted) /\ Deleted.status \notin Status
    BY <1>3 DEF RequestsInv, RequestOK, Delete, Deleted, Status
  <2> QED
    BY <2>1, SetToolTable
<1>4. ASSUME NEW r \in requests, ServeList(r) \/ CheckCreate(r) \/ Fail(r) \/ Receive(r)
      PROVE  TableInv' /\ Grown
  BY <1>4, TableStays
  DEF ServeList, CheckCreate, Fail, Receive, Loaded, Saved, NotSaved, Changed
<1>5. ASSUME NEW p \in Tab,
             \/ ToggleForm(p) \/ \E f \in Fields : Save(p, f)
             \/ \E i \in Id : EditTool(p, i) \/ SetStatus(p, i) \/ Remove(p, i)
      PROVE  TableInv' /\ Grown
  BY <1>5, TableStays DEF ToggleForm, Save, EditTool, SetStatus, Remove
<1>6. ASSUME NEW t \in Turn,
             (\E n \in Name : Gate(t, n)) \/ Invoke(t) \/ Fill(t) \/ Call(t) \/ TurnDies(t)
      PROVE  TableInv' /\ Grown
  BY <1>6, TableStays DEF Gate, Invoke, Lookup, Fill, Call, TurnDies
<1>7. ASSUME Connect \/ Expire \/ UNCHANGED vars PROVE TableInv' /\ Grown
  BY <1>7, TableStays DEF Connect, Expire, vars
<1> QED
  BY <1>1, <1>2, <1>3, <1>4, <1>5, <1>6, <1>7 DEF Next, Serve

-----------------------------------------------------------------------------
(* Requests and tabs *)

\* There is a number that no request of the tab has.
LEMMA FreshNumber ==
  ASSUME IsFiniteSet(requests), NEW p
  PROVE  Fresh(p) \in Nat
<1> DEFINE n == Cardinality(requests)
           mine == {r \in requests : r.tab = p}
           numbers == {r.no : r \in mine}
<1>1. n \in Nat
  BY FS_CardinalityType
<1>2. IsFiniteSet(mine) /\ Cardinality(mine) \in Nat /\ Cardinality(mine) <= n
  BY <1>1, FS_Subset, FS_CardinalityType
<1>3. IsFiniteSet(numbers) /\ Cardinality(numbers) <= Cardinality(mine)
  <2>1. PICK f : f = [r \in mine |-> r.no]
    OBVIOUS
  <2>2. f \in Surjection(mine, numbers)
    BY <2>1 DEF Surjection
  <2> QED
    BY <1>2, <2>2, FS_Surjection
<1>4. IsFiniteSet(1 .. n + 1) /\ Cardinality(1 .. n + 1) = n + 1
  BY <1>1, FS_Interval
<1>5. ~(1 .. n + 1 \subseteq numbers)
  <2> SUFFICES ASSUME 1 .. n + 1 \subseteq numbers PROVE FALSE
    OBVIOUS
  <2>1. Cardinality(1 .. n + 1) <= Cardinality(numbers) /\ Cardinality(numbers) \in Nat
    BY <1>3, FS_Subset, FS_CardinalityType
  <2> QED
    BY <1>1, <1>2, <1>3, <1>4, <2>1
<1>6. \E k \in 1 .. n + 1 : \A r \in requests : r.tab = p => r.no # k
  BY <1>5
<1>7. Fresh(p) \in 1 .. n + 1
  BY <1>6 DEF Fresh
<1> QED
  BY <1>1, <1>7

LEMMA AddRequest ==
  ASSUME RequestsInv, NEW q, requests' \subseteq requests \cup {q}, RequestOK(q)
  PROVE  RequestsInv'
<1>1. IsFiniteSet(requests \cup {q})
  BY FS_AddElement DEF RequestsInv
<1>2. IsFiniteSet(requests')
  BY <1>1, FS_Subset
<1> QED
  BY <1>2 DEF RequestsInv, RequestOK, Has

\* A list at its start, and what is answered.
LEMMA PlainRequests ==
  /\ \A p \in Tab : RequestOK(Load(p))
  /\ \A r : RequestOK(r) => RequestOK(Answered(r, "error"))
  /\ \A r : RequestOK(r) /\ r.op # "load" => RequestOK(Answered(r, "ok"))
<1>1. ASSUME NEW p \in Tab PROVE RequestOK(Load(p))
  <2>1. PICK q : q = Load(p)
    OBVIOUS
  <2>2. q.tab = p /\ q.op = "load" /\ q.stage = "sent"
    BY <2>1 DEF Load
  <2> QED
    BY <2>1, <2>2 DEF RequestOK, Has
<1>2. ASSUME NEW r, RequestOK(r), NEW stage \in {"ok", "error"},
             stage = "error" \/ r.op # "load"
      PROVE  RequestOK(Answered(r, stage))
  <2>1. PICK q : q = Answered(r, stage)
    OBVIOUS
  <2>2. q.tab = r.tab /\ q.op = r.op /\ q.stage = stage
    BY <2>1 DEF Answered
  <2> QED
    BY <1>2, <2>1, <2>2 DEF RequestOK, Has
<1> QED
  BY <1>1, <1>2

LEMMA RequestsNext ==
  TableInv /\ RequestsInv /\ TabsInv /\ [Next]_vars => RequestsInv'
<1> SUFFICES ASSUME TableInv, RequestsInv, TabsInv, [Next]_vars PROVE RequestsInv'
  OBVIOUS
<1> USE DEF clicked, served, received, turning
<1>0. \A r \in requests : RequestOK(r)
  BY DEF RequestsInv
<1>1. ASSUME requests' \subseteq requests PROVE RequestsInv'
  BY <1>1, FS_Subset DEF RequestsInv, RequestOK, Has
\* The user's steps.
<1>2. ASSUME NEW p \in Tab, NEW f \in Fields, Save(p, f) PROVE RequestsInv'
  <2>1. PICK q : q = [tab |-> p, no |-> Fresh(p),
                      op |-> IF form[p].editing = "new" THEN "create" ELSE "update",
                      stage |-> IF form[p].editing = "new" THEN "check" ELSE "sent",
                      id |-> form[p].editing, tool |-> Payload(f)]
    OBVIOUS
  <2>2. /\ DOMAIN q = {"tab", "no", "op", "stage", "id", "tool"} /\ q.tab = p
        /\ q.id = form[p].editing /\ q.tool = Payload(f)
        /\ q.op = IF form[p].editing = "new" THEN "create" ELSE "update"
        /\ q.stage = IF form[p].editing = "new" THEN "check" ELSE "sent"
    BY <2>1
  <2>3. Payload(f) \in Draft
    BY DEF Payload, Fields, Draft
  <2>4. form[p].editing \in Id \cup {"new"}
    <3>1. /\ form[p] \in {Closed} \cup [open : {TRUE}, editing : Id \cup {"new"},
                                        saving : Nat]
          /\ form[p].open
      BY <1>2 DEF Save, TabsInv
    <3>2. ~Closed.open
      BY DEF Closed
    <3>3. form[p] # Closed
      BY <3>1, <3>2
    <3> QED
      BY <3>1, <3>3
  <2>5. RequestOK(q)
    BY <2>2, <2>3, <2>4 DEF RequestOK, Has
  <2> QED
    BY <1>2, <2>1, <2>5, AddRequest DEF Save, Send
<1>3. ASSUME NEW p \in Tab, NEW i \in Id, SetStatus(p, i) PROVE RequestsInv'
  <2>1. PICK q : q = [tab |-> p, no |-> Fresh(p), op |-> "status", stage |-> "sent",
                      id |-> i, status |-> Toggled(manager[p].shown[i])]
    OBVIOUS
  <2>2. /\ q.tab = p /\ q.op = "status" /\ q.stage = "sent" /\ q.id = i
        /\ q.status \in {"active", "disabled"}
    BY <2>1 DEF Toggled
  <2>3. RequestOK(q)
    BY <2>2 DEF RequestOK, Has
  <2> QED
    BY <1>3, <2>1, <2>3, AddRequest DEF SetStatus, Send
<1>4. ASSUME NEW p \in Tab, NEW i \in Id, Remove(p, i) PROVE RequestsInv'
  <2>1. PICK q : q = [tab |-> p, no |-> Fresh(p), op |-> "delete", stage |-> "sent",
                      id |-> i]
    OBVIOUS
  <2>2. q.tab = p /\ q.op = "delete" /\ q.stage = "sent" /\ q.id = i
    BY <2>1
  <2>3. RequestOK(q)
    BY <2>2 DEF RequestOK, Has
  <2> QED
    BY <1>4, <2>1, <2>3, AddRequest DEF Remove, Send
\* The routes.
<1>5. ASSUME NEW r \in requests, ServeList(r) PROVE RequestsInv'
  <2>1. PICK q : q = [tab |-> r.tab, no |-> r.no, op |-> "load", stage |-> "ok",
                      shown |-> [i \in Id |-> tools[i].status]]
    OBVIOUS
  <2>2. /\ q.tab = r.tab /\ q.op = "load" /\ q.stage = "ok"
        /\ q.shown = [i \in Id |-> tools[i].status]
    BY <2>1
  <2>3. q.shown \in [Id -> Status \cup {"unused", "deleted"}]
    BY <2>2 DEF TableInv, Tool, Unused, Deleted
  <2>4. RequestOK(q)
    BY <1>0, <2>2, <2>3 DEF RequestOK, Has
  <2> QED
    BY <1>5, <2>1, <2>4, AddRequest DEF ServeList, Replace
<1>6. ASSUME NEW r \in requests, CheckCreate(r) PROVE RequestsInv'
  <2>1. PICK q : q = [r EXCEPT !.stage = "insert"]
    OBVIOUS
  <2>2. /\ {"tab", "op", "stage", "tool"} \subseteq DOMAIN r /\ r.op = "create"
        /\ r.tool \in Draft /\ r.tab \in Tab
    BY <1>0, <1>6 DEF CheckCreate, Has, RequestOK
  <2>3. /\ DOMAIN q = DOMAIN r /\ q.tab = r.tab /\ q.op = r.op /\ q.tool = r.tool
        /\ q.stage = "insert"
    BY <2>1, <2>2
  <2>4. RequestOK(q) /\ RequestOK(Answered(r, "error"))
    BY <1>0, <2>2, <2>3, PlainRequests DEF RequestOK, Has
  <2> QED
    BY <1>6, <2>1, <2>4, AddRequest DEF CheckCreate, Replace
<1>7. ASSUME NEW r \in requests, Create(r) \/ Patch(r) \/ Delete(r) \/ Fail(r)
      PROVE  RequestsInv'
  <2>1. RequestOK(Answered(r, "error")) /\ (r.op # "load" => RequestOK(Answered(r, "ok")))
    BY <1>0, PlainRequests
  <2>2. \/ requests' \subseteq requests \cup {Answered(r, "error")}
        \/ r.op # "load" /\ requests' \subseteq requests \cup {Answered(r, "ok")}
    BY <1>7 DEF Create, Patch, Delete, Fail, Has, Replace
  <2> QED
    BY <2>1, <2>2, AddRequest
\* The answers.
<1>8. ASSUME NEW r \in requests, Receive(r) PROVE RequestsInv'
  <2>1. r.tab \in Tab
    BY <1>0 DEF RequestOK
  <2>2. requests' \subseteq requests \cup {Load(r.tab)}
    BY <1>8 DEF Receive, Loaded, Saved, NotSaved, Changed, Reload
  <2> QED
    BY <2>1, <2>2, AddRequest, PlainRequests
<1>9. ASSUME NEW p \in Tab, ToggleForm(p) \/ \E i \in Id : EditTool(p, i) PROVE RequestsInv'
  BY <1>1, <1>9 DEF ToggleForm, EditTool
<1>10. ASSUME NEW t \in Turn,
              (\E n \in Name : Gate(t, n)) \/ Invoke(t) \/ Fill(t) \/ Call(t) \/ TurnDies(t)
       PROVE  RequestsInv'
  BY <1>1, <1>10 DEF Gate, Invoke, Lookup, Fill, Call, TurnDies
<1>11. ASSUME Connect \/ Expire \/ UNCHANGED vars PROVE RequestsInv'
  BY <1>1, <1>11 DEF Connect, Expire, vars
<1> QED
  BY <1>2, <1>3, <1>4, <1>5, <1>6, <1>7, <1>8, <1>9, <1>10, <1>11 DEF Next, Serve

LEMMA TabsNext == RequestsInv /\ TabsInv /\ [Next]_vars => TabsInv'
<1> SUFFICES ASSUME RequestsInv, TabsInv, [Next]_vars PROVE TabsInv'
  OBVIOUS
<1> USE DEF clicked, served, received, turning
<1> DEFINE Forms == {Closed} \cup [open : {TRUE}, editing : Id \cup {"new"}, saving : Nat]
           Managers == [shown : [Id -> Status \cup {"unused", "deleted"}], loading : BOOLEAN]
<1>0. /\ \A r \in requests : RequestOK(r)
      /\ form \in [Tab -> Forms] /\ manager \in [Tab -> Managers]
      /\ Closed \in Forms /\ ~Closed.open
  BY DEF RequestsInv, TabsInv, Closed
<1>1. ASSUME form' \in [Tab -> Forms], manager' \in [Tab -> Managers],
             connected' \in BOOLEAN, eventsLeft' = eventsLeft \/ Event
      PROVE  TabsInv'
  <2>1. eventsLeft' \in 0 .. MaxEvents
    BY <1>1, ApiToolsAssumption DEF TabsInv, Event
  <2> QED
    BY <1>1, <2>1 DEF TabsInv
<1>2. \A i \in Id \cup {"new"} : Opened(i) \in Forms
  BY DEF Opened
<1>3. ASSUME NEW p \in Tab, form[p].open, NEW i \in Id \cup {"new"}, NEW n \in Nat
      PROVE  [form[p] EXCEPT !.editing = i] \in Forms /\ [form[p] EXCEPT !.saving = n] \in Forms
  BY <1>0, <1>3
<1>4. ASSUME NEW p \in Tab, ToggleForm(p) PROVE TabsInv'
  <2>1. form' \in [Tab -> Forms]
    BY <1>0, <1>2, <1>4 DEF ToggleForm
  <2> QED
    BY <1>0, <1>1, <1>4, <2>1 DEF ToggleForm, TabsInv
<1>5. ASSUME NEW p \in Tab, NEW i \in Id, EditTool(p, i) PROVE TabsInv'
  <2>1. form' = [form EXCEPT ![p] = IF form[p].open THEN [form[p] EXCEPT !.editing = i]
                                    ELSE Opened(i)]
    BY <1>5 DEF EditTool
  <2>2. form' \in [Tab -> Forms]
    BY <1>0, <1>2, <1>3, <2>1
  <2> QED
    BY <1>0, <1>1, <1>5, <2>2 DEF EditTool, TabsInv
<1>6. ASSUME NEW p \in Tab, NEW f \in Fields, Save(p, f) PROVE TabsInv'
  <2>1. Fresh(p) \in Nat
    BY FreshNumber DEF RequestsInv
  <2>2. form' = [form EXCEPT ![p] = [form[p] EXCEPT !.saving = Fresh(p)]] /\ form[p].open
    BY <1>6 DEF Save
  <2>3. form' \in [Tab -> Forms]
    BY <1>0, <1>3, <2>1, <2>2
  <2> QED
    BY <1>0, <1>1, <1>6, <2>3 DEF Save, Send, TabsInv
<1>7. ASSUME NEW p \in Tab, NEW i \in Id, SetStatus(p, i) \/ Remove(p, i) PROVE TabsInv'
  BY <1>0, <1>1, <1>7 DEF SetStatus, Remove, Send, TabsInv
<1>8. ASSUME NEW r \in requests, Serve(r) \/ Fail(r) PROVE TabsInv'
  BY <1>0, <1>1, <1>8
  DEF Serve, ServeList, CheckCreate, Create, Patch, Delete, Fail, TabsInv
<1>9. ASSUME NEW r \in requests, Reload(r) PROVE manager' \in [Tab -> Managers]
  <2>0. r.tab \in Tab
    BY <1>0 DEF RequestOK
  <2>1. [manager[r.tab] EXCEPT !.loading = TRUE] \in Managers
    BY <1>0, <2>0
  <2>2. manager' = [manager EXCEPT ![r.tab] = [manager[r.tab] EXCEPT !.loading = TRUE]]
    BY <1>9 DEF Reload
  <2> QED
    BY <1>0, <2>0, <2>1, <2>2
<1>10. ASSUME NEW r \in requests, Loaded(r) PROVE TabsInv'
  <2>1. r.tab \in Tab /\ (r.stage = "ok" => r.shown \in [Id -> Status \cup {"unused", "deleted"}])
    BY <1>0, <1>10 DEF Loaded, RequestOK, Has
  <2>2. [shown |-> IF r.stage = "ok" THEN r.shown ELSE manager[r.tab].shown,
         loading |-> FALSE] \in Managers
    BY <1>0, <2>1
  <2>3. manager' \in [Tab -> Managers]
    BY <1>0, <1>10, <2>1, <2>2 DEF Loaded
  <2> QED
    BY <1>0, <1>1, <1>10, <2>3 DEF Loaded, TabsInv
<1>11. ASSUME NEW r \in requests, Saved(r) PROVE TabsInv'
  <2>1. form' \in [Tab -> Forms]
    BY <1>0, <1>11 DEF Saved
  <2> QED
    BY <1>0, <1>1, <1>9, <1>11, <2>1 DEF Saved, TabsInv
<1>12. ASSUME NEW r \in requests, NotSaved(r) PROVE TabsInv'
  <2>1. form' = [form EXCEPT ![r.tab] =
                  IF form[r.tab].open /\ form[r.tab].saving = r.no
                  THEN [form[r.tab] EXCEPT !.saving = 0] ELSE form[r.tab]]
    BY <1>12 DEF NotSaved
  <2>2. r.tab \in Tab
    BY <1>0 DEF RequestOK
  <2>3. form[r.tab].open => [form[r.tab] EXCEPT !.saving = 0] \in Forms
    BY <1>3, <2>2
  <2>4. form' \in [Tab -> Forms]
    BY <1>0, <2>1, <2>2, <2>3
  <2> QED
    BY <1>0, <1>1, <1>12, <2>4 DEF NotSaved, TabsInv
<1>13. ASSUME NEW r \in requests, Changed(r) PROVE TabsInv'
  BY <1>0, <1>1, <1>9, <1>13 DEF Changed, TabsInv
<1>14. ASSUME NEW t \in Turn,
              (\E n \in Name : Gate(t, n)) \/ Invoke(t) \/ Fill(t) \/ Call(t) \/ TurnDies(t)
       PROVE  TabsInv'
  BY <1>0, <1>1, <1>14 DEF Gate, Invoke, Lookup, Fill, Call, TurnDies, TabsInv
<1>15. ASSUME Connect \/ Expire \/ UNCHANGED vars PROVE TabsInv'
  BY <1>0, <1>1, <1>15 DEF Connect, Expire, vars, TabsInv
<1> QED
  BY <1>4, <1>5, <1>6, <1>7, <1>8, <1>10, <1>11, <1>12, <1>13, <1>14, <1>15
  DEF Next, Receive

-----------------------------------------------------------------------------
(* The turns *)

LEMMA GrownKeeps ==
  ASSUME Grown
  PROVE  /\ \A list : Given(list) => Given(list)'
         /\ \A v : Judged(v) => Judged(v)'
         /\ \A call : CallOK(call) => CallOK(call)'
         /\ \A s : TurnOK(s) => TurnOK(s)'
<1>1. /\ \A list : Given(list) => Given(list)'
      /\ \A v : Judged(v) => Judged(v)'
  BY DEF Grown, Given, Judged
<1>2. \A call : CallOK(call) => CallOK(call)'
  BY <1>1 DEF CallOK
<1>3. \A s : TurnOK(s) => TurnOK(s)'
  BY <1>1, <1>2 DEF TurnOK, Grown
<1> QED
  BY <1>1, <1>2, <1>3

\* The active tools have one name each.
LEMMA ActiveGiven == TableInv => Given(Active)
<1> SUFFICES ASSUME TableInv PROVE Given(Active)
  OBVIOUS
<1>1. ASSUME NEW i \in Id, NEW j \in Id, tools[i].status = "active",
             tools[j].status = "active", Version(i).name = Version(j).name
      PROVE  i = j
  <2>1. Exists(i) /\ Exists(j)
    BY <1>1 DEF Exists, Status
  <2>2. tools[i].name = tools[j].name
    BY <1>1 DEF Version
  <2> QED
    BY <2>1, <2>2 DEF TableInv
<1>2. Distinct(Active)
  BY <1>1 DEF Distinct, Active
<1> QED
  BY <1>2 DEF Given, TableInv

\* What a turn makes of a list.
LEMMA UseKeeps ==
  ASSUME TurnsInv, NEW t \in Turn, NEW list, Given(list), NEW call, CallOK(call),
         Use(t, list, call)
  PROVE  DOMAIN turn' = Turn /\ \A s \in Turn : TurnOK(turn'[s])
<1>1. DOMAIN turn' = Turn /\ \A s \in Turn \ {t} : turn'[s] = turn[s]
  BY DEF Use, TurnsInv
<1>2. TurnOK(turn'[t])
  <2>0. TurnOK(Idle)
    BY DEF TurnOK, Idle
  <2>1. CASE \A v \in list : v.name # call.name
    BY <2>0, <2>1 DEF Use, TurnsInv
  <2>2. CASE ~(\A v \in list : v.name # call.name)
    <3>1. PICK tool : tool = CHOOSE v \in list : v.name = call.name
      OBVIOUS
    <3>2. tool \in list /\ tool.name = call.name
      BY <2>2, <3>1
    <3>3. tool \in wasActive
      BY <3>2 DEF Given
    <3>4. turn'[t] = IF call.gated
                     THEN [stage |-> "call", tool |-> tool, judged |-> call.judged]
                     ELSE IF High(tool) THEN Idle
                     ELSE [stage |-> "again", judged |-> tool]
      BY <2>2, <3>1 DEF Use, TurnsInv
    <3>5. CASE call.gated
      <4>1. PICK s : s = [stage |-> "call", tool |-> tool, judged |-> call.judged]
        OBVIOUS
      <4>2. s.stage = "call" /\ s.tool = tool /\ s.judged = call.judged
        BY <4>1
      <4>3. TurnOK(s)
        BY <3>2, <3>3, <3>5, <4>2 DEF TurnOK, CallOK
      <4> QED
        BY <3>4, <3>5, <4>1, <4>3
    <3>6. CASE ~call.gated /\ High(tool)
      BY <2>0, <3>4, <3>6
    <3>7. CASE ~call.gated /\ ~High(tool)
      <4>1. PICK s : s = [stage |-> "again", judged |-> tool]
        OBVIOUS
      <4>2. s.stage = "again" /\ s.judged = tool
        BY <4>1
      <4>3. TurnOK(s)
        BY <3>3, <3>7, <4>2 DEF TurnOK, Judged
      <4> QED
        BY <3>4, <3>7, <4>1, <4>3
    <3> QED
      BY <3>5, <3>6, <3>7
  <2> QED
    BY <2>1, <2>2
<1> QED
  BY <1>1, <1>2 DEF TurnsInv

LEMMA LookupKeeps ==
  ASSUME TableInv, TurnsInv, NEW t \in Turn, NEW call, CallOK(call), Lookup(t, call)
  PROVE  TurnsInv'
<1>0. cache' = cache /\ Grown
  BY DEF Lookup, turning, Grown
<1>1. DOMAIN turn' = Turn /\ \A s \in Turn : TurnOK(turn'[s])
  <2>1. CASE cache # <<>>
    BY <2>1, UseKeeps DEF Lookup, TurnsInv
  <2>2. CASE cache = <<>>
    <3>1. PICK s : s = [stage |-> "fill", list |-> Active, call |-> call]
      OBVIOUS
    <3>2. s.stage = "fill" /\ s.list = Active /\ s.call = call
      BY <3>1
    <3>3. TurnOK(s)
      BY <3>2, ActiveGiven DEF TurnOK
    <3>4. turn' = [turn EXCEPT ![t] = s]
      BY <2>2, <3>1 DEF Lookup
    <3> QED
      BY <3>3, <3>4 DEF TurnsInv
  <2> QED
    BY <2>1, <2>2
<1> QED
  BY <1>0, <1>1, GrownKeeps DEF TurnsInv

LEMMA TurnsNext == TableInv /\ TurnsInv /\ Grown /\ [Next]_vars => TurnsInv'
<1> SUFFICES ASSUME TableInv, TurnsInv, Grown, [Next]_vars PROVE TurnsInv'
  OBVIOUS
<1> USE DEF clicked, served, received, turning
<1>1. ASSUME UNCHANGED <<cache, turn>> PROVE TurnsInv'
  BY <1>1, GrownKeeps DEF TurnsInv
<1>2. ASSUME NEW t \in Turn, NEW n \in Name, Gate(t, n) PROVE TurnsInv'
  <2>1. PICK call : call = [name |-> n, gated |-> FALSE]
    OBVIOUS
  <2>2. call.gated = FALSE
    BY <2>1
  <2>3. CallOK(call)
    BY <2>2 DEF CallOK
  <2> QED
    BY <1>2, <2>1, <2>3, LookupKeeps DEF Gate
<1>3. ASSUME NEW t \in Turn, Invoke(t) PROVE TurnsInv'
  <2>1. PICK call : call = [name |-> turn[t].judged.name, gated |-> TRUE,
                            judged |-> turn[t].judged]
    OBVIOUS
  <2>2. /\ call.gated = TRUE /\ call.judged = turn[t].judged
        /\ call.name = call.judged.name
    BY <2>1
  <2>3. Judged(turn[t].judged)
    BY <1>3 DEF Invoke, TurnsInv, TurnOK
  <2>4. CallOK(call)
    BY <2>2, <2>3 DEF CallOK
  <2> QED
    BY <1>3, <2>1, <2>4, LookupKeeps DEF Invoke
<1>4. ASSUME NEW t \in Turn, Fill(t) PROVE TurnsInv'
  <2>1. Given(turn[t].list) /\ CallOK(turn[t].call)
    BY <1>4 DEF Fill, TurnsInv, TurnOK
  <2>2. DOMAIN turn' = Turn /\ \A s \in Turn : TurnOK(turn'[s])
    BY <1>4, <2>1, UseKeeps DEF Fill
  <2>3. cache'[1] = turn[t].list
    BY <1>4 DEF Fill
  <2> QED
    BY <2>1, <2>2, <2>3, GrownKeeps DEF TurnsInv
<1>5. ASSUME NEW t \in Turn, Call(t) \/ TurnDies(t) PROVE TurnsInv'
  <2>1. cache' = cache /\ turn' = [turn EXCEPT ![t] = Idle]
    BY <1>5 DEF Call, TurnDies
  <2>2. TurnOK(Idle)
    BY DEF TurnOK, Idle
  <2>3. DOMAIN turn' = Turn /\ \A s \in Turn : TurnOK(turn'[s])
    BY <2>1, <2>2 DEF TurnsInv
  <2> QED
    BY <2>1, <2>3, GrownKeeps DEF TurnsInv
<1>6. ASSUME Expire PROVE TurnsInv'
  BY <1>6, GrownKeeps DEF Expire, TurnsInv
<1>7. ASSUME NEW p \in Tab,
             \/ ToggleForm(p) \/ \E f \in Fields : Save(p, f)
             \/ \E i \in Id : EditTool(p, i) \/ SetStatus(p, i) \/ Remove(p, i)
      PROVE  TurnsInv'
  BY <1>1, <1>7 DEF ToggleForm, Save, EditTool, SetStatus, Remove
<1>8. ASSUME NEW r \in requests, Serve(r) \/ Fail(r) \/ Receive(r) PROVE TurnsInv'
  BY <1>1, <1>8
  DEF Serve, ServeList, CheckCreate, Create, Patch, Delete, Fail, Receive, Loaded, Saved,
      NotSaved, Changed
<1>9. ASSUME Connect \/ UNCHANGED vars PROVE TurnsInv'
  BY <1>1, <1>9 DEF Connect, vars
<1> QED
  BY <1>2, <1>3, <1>4, <1>5, <1>6, <1>7, <1>8, <1>9 DEF Next

-----------------------------------------------------------------------------
(* The theorems *)

LEMMA InitInd == Init => ToolsInd
<1> SUFFICES ASSUME Init PROVE ToolsInd
  OBVIOUS
<1>1. TableInv
  <2>1. CASE tools = [i \in Id |-> Unused]
    <3>1. \A i \in Id : tools[i].status = "unused" /\ ~Exists(i)
      BY <2>1 DEF Unused, Exists, Status
    <3>2. Active = {}
      BY <3>1 DEF Active
    <3>3. wasActive = {}
      BY <3>2 DEF Init
    <3> QED
      BY <2>1, <3>1, <3>2, <3>3 DEF TableInv
  <2>2. ASSUME NEW n \in Name, NEW m \in Method,
               tools = [i \in Id |-> IF i # CHOOSE k \in Id : TRUE THEN Unused
                                     ELSE [name |-> n, method |-> m, status |-> "active",
                                           side_effect |-> FALSE]]
        PROVE  TableInv
    <3>1. PICK k : k = CHOOSE i \in Id : TRUE
      OBVIOUS
    <3>2. PICK tool : tool = [name |-> n, method |-> m, status |-> "active",
                              side_effect |-> FALSE]
      OBVIOUS
    <3>3. /\ tool \in Tool /\ tool.name = n /\ tool.method = m
          /\ tool.side_effect = FALSE /\ tool.status = "active"
      BY <3>2 DEF Tool, Status
    <3>4. \A i \in Id : tools[i] = IF i # k THEN Unused ELSE tool
      BY <2>2, <3>1, <3>2
    <3>5. tools \in [Id -> Tool \cup {Unused, Deleted}]
      <4>1. tools = [i \in Id |-> IF i # k THEN Unused ELSE tool]
        BY <2>2, <3>1, <3>2
      <4> QED
        BY <3>3, <4>1
    <3>6. \A i \in Id : i # k => ~Exists(i) /\ tools[i].status # "active"
      BY <3>4 DEF Exists, Unused, Status
    <3>7. \A i \in Id : tools[i].status = "active" => Version(i) \in Versions
      BY <3>3, <3>4, <3>6 DEF Version, Versions
    <3>8. Active \subseteq Versions /\ wasActive = Active
      BY <3>7 DEF Active, Init
    <3> QED
      BY <3>5, <3>6, <3>8 DEF TableInv
  <2> QED
    BY <2>1, <2>2 DEF Init
<1>2. RequestsInv
  <2>1. ASSUME NEW p \in Tab,
               NEW q, q = [tab |-> p, no |-> 1, op |-> "load", stage |-> "sent"]
        PROVE  RequestOK(q)
    <3>1. q.tab = p /\ q.op = "load" /\ q.stage = "sent"
      BY <2>1
    <3> QED
      BY <3>1 DEF RequestOK, Has
  <2>2. PICK f : f = [p \in Tab |-> [tab |-> p, no |-> 1, op |-> "load",
                                     stage |-> "sent"]]
    OBVIOUS
  <2>3. f \in Surjection(Tab, requests)
    BY <2>2 DEF Init, Surjection
  <2>4. IsFiniteSet(requests)
    BY <2>3, ApiToolsAssumption, FS_Surjection
  <2> QED
    BY <2>1, <2>4 DEF Init, RequestsInv
<1>3. TabsInv
  <2>1. connected \in BOOLEAN /\ eventsLeft \in 0 .. MaxEvents
    <3>1. connected = TRUE \/ connected = FALSE
      BY Zenon DEF Init
    <3>2. eventsLeft = MaxEvents /\ MaxEvents \in Nat
      BY ApiToolsAssumption DEF Init
    <3>3. eventsLeft \in 0 .. MaxEvents
      BY <3>2
    <3> QED
      BY <3>1, <3>3
  <2>2. form \in [Tab -> {Closed} \cup [open : {TRUE}, editing : Id \cup {"new"},
                                        saving : Nat]]
    BY DEF Init
  <2>3. manager \in [Tab -> [shown : [Id -> Status \cup {"unused", "deleted"}],
                             loading : BOOLEAN]]
    BY DEF Init
  <2> QED
    BY <2>1, <2>2, <2>3 DEF TabsInv
<1>4. TurnsInv
  BY DEF Init, TurnsInv, TurnOK
<1> QED
  BY <1>1, <1>2, <1>3, <1>4 DEF ToolsInd

LEMMA NextInd == ToolsInd /\ [Next]_vars => ToolsInd'
<1> SUFFICES ASSUME ToolsInd, [Next]_vars PROVE ToolsInd'
  OBVIOUS
<1> USE DEF ToolsInd
<1>1. TableInv' /\ Grown
  BY TableNext
<1>2. RequestsInv' /\ TabsInv'
  BY RequestsNext, TabsNext
<1>3. TurnsInv'
  BY <1>1, TurnsNext
<1> QED
  BY <1>1, <1>2, <1>3

LEMMA IndHolds == ToolsInd => ToolsInv
<1> SUFFICES ASSUME ToolsInd PROVE ToolsInv
  OBVIOUS
<1> USE DEF ToolsInd
<1>1. \A r \in requests : /\ r.tab \in Tab
                          /\ r.op \in {"load", "create", "update", "status", "delete"}
                          /\ r.stage \in {"sent", "check", "insert", "ok", "error"}
  BY DEF RequestsInv, RequestOK
<1>2. cache = <<>> \/ cache[1] \subseteq Versions
  BY DEF TurnsInv, Given, TableInv
<1>3. \A t \in Turn : turn[t].stage \in {"idle", "fill", "again", "call"}
  BY DEF TurnsInv, TurnOK
<1>4. TypeOK
  BY <1>1, <1>2, <1>3 DEF TypeOK, TableInv, TabsInv
<1>5. CallsAreJudged
  <2>1. ASSUME NEW t \in Turn, turn[t].stage = "call"
        PROVE  /\ {turn[t].tool, turn[t].judged} \subseteq wasActive
               /\ turn[t].tool.name = turn[t].judged.name /\ ~High(turn[t].judged)
    BY <2>1 DEF TurnsInv, TurnOK, Judged
  <2>2. ASSUME NEW t \in Turn, turn[t].stage = "call", High(turn[t].tool)
        PROVE  turn[t].tool # turn[t].judged
    BY <2>1, <2>2
  <2> QED
    BY <2>1, <2>2 DEF CallsAreJudged
<1>6. NamesUnique
  BY ActiveGiven DEF NamesUnique, TurnsInv, Given
<1> QED
  BY <1>4, <1>5, <1>6 DEF ToolsInv

\* However tabs edit, activate and delete, and however stale the lists are that
\* turns look a tool up in: one tool bears a name, and what is called without an
\* approval was judged, by its name, on a version that was active and needed
\* none (sites/permission.py:66-95, sites/tools.py:114-121, loader.py:139-177).
THEOREM CallsJudged == Spec => []ToolsInv
<1>1. Init => ToolsInd
  BY InitInd
<1>2. ToolsInd /\ [Next]_vars => ToolsInd'
  BY NextInd
<1>3. ToolsInd => ToolsInv
  BY IndHolds
<1> QED
  BY <1>1, <1>2, <1>3, PTL DEF Spec

\* The step that makes a version callable.
LEMMA OnlyClicks ==
  ASSUME ToolsInd, [Next]_vars
  PROVE  /\ \A i \in Id : tools[i] = Deleted => tools'[i] = Deleted
         /\ \A v \in wasActive' \ wasActive : \E r \in requests :
              Has(r, "status", "sent") /\ r.id = v.id /\ r.status = "active"
<1> DEFINE Kept == \A i \in Id : tools[i] = Deleted => tools'[i] = Deleted
           Clicked == \A v \in wasActive' \ wasActive : \E r \in requests :
                        Has(r, "status", "sent") /\ r.id = v.id /\ r.status = "active"
<1> USE DEF ToolsInd, clicked, served, received, turning
<1>0. /\ tools \in [Id -> Tool \cup {Unused, Deleted}] /\ Deleted # Unused
      /\ Deleted.status = "deleted" /\ \A r \in requests : RequestOK(r)
  BY DEF TableInv, RequestsInv, Deleted, Unused
<1>1. ASSUME UNCHANGED <<tools, wasActive>> PROVE Kept /\ Clicked
  BY <1>1
\* A tool that is set and not activated.
<1>2. ASSUME NEW i \in Id, NEW tool, SetTool(i, tool), tool.status # "active",
             tools[i] = Deleted => tool = Deleted
      PROVE  Kept /\ Clicked
  BY <1>0, <1>2 DEF SetTool
<1>3. ASSUME NEW r \in requests, Create(r) PROVE Kept /\ Clicked
  <2>1. CASE NameTaken(r.tool.name)
    BY <1>1, <1>3, <2>1 DEF Create
  <2>2. CASE ~NameTaken(r.tool.name)
    <3>1. PICK i \in Id : SetTool(i, r.tool) /\ tools[i] = Unused
      BY <1>3, <2>2 DEF Create
    <3>2. r.tool.status = "draft"
      BY <1>0, <1>3 DEF RequestOK, Create, Has, Draft
    <3> QED
      BY <1>0, <1>2, <3>1, <3>2
  <2> QED
    BY <2>1, <2>2
<1>4. ASSUME NEW r \in requests, Patch(r) PROVE Kept /\ Clicked
  <2>1. CASE ~Exists(r.id)
    BY <1>1, <1>4, <2>1 DEF Patch
  <2>2. CASE Exists(r.id)
    <3>1. r.id \in Id /\ tools[r.id] # Deleted /\ tools[r.id] \in Tool
      BY <1>0, <1>4, <2>2, KnownTool DEF RequestOK, Patch, Has, Exists, Status
    <3>2. CASE r.op = "update"
      <4>1. SetTool(r.id, Patched(r.id, r.tool)) /\ r.tool \in Draft
        BY <1>0, <1>4, <2>2, <3>2 DEF Patch, RequestOK, Has
      <4>2. Patched(r.id, r.tool).status = "draft"
        BY <4>1 DEF Patched, Draft
      <4> QED
        BY <1>2, <3>1, <4>1, <4>2
    <3>3. CASE r.op = "status"
      <4>1. PICK tool : tool = [tools[r.id] EXCEPT !.status = r.status]
        OBVIOUS
      <4>2. SetTool(r.id, tool) /\ tool.status = r.status
        BY <1>4, <2>2, <3>1, <3>3, <4>1 DEF Patch, Tool
      <4>3. CASE r.status = "active"
        <5>1. Kept
          BY <1>0, <3>1, <4>2 DEF SetTool
        <5>2. \A v \in wasActive' \ wasActive : v.id = r.id
          BY <4>2 DEF SetTool
        <5>3. Has(r, "status", "sent")
          BY <1>4, <3>3 DEF Patch, Has
        <5> QED
          BY <4>3, <5>1, <5>2, <5>3
      <4> QED
        BY <1>2, <3>1, <4>2, <4>3
    <3> QED
      BY <1>4, <3>2, <3>3 DEF Patch
  <2> QED
    BY <2>1, <2>2
<1>5. ASSUME NEW r \in requests, Delete(r) PROVE Kept /\ Clicked
  <2>1. r.id \in Id /\ SetTool(r.id, Deleted) /\ Deleted.status # "active"
    BY <1>0, <1>5 DEF RequestOK, Delete
  <2> QED
    BY <1>2, <2>1
<1>6. ASSUME NEW r \in requests, ServeList(r) \/ CheckCreate(r) \/ Fail(r) \/ Receive(r)
      PROVE  Kept /\ Clicked
  BY <1>1, <1>6
  DEF ServeList, CheckCreate, Fail, Receive, Loaded, Saved, NotSaved, Changed
<1>7. ASSUME NEW p \in Tab,
             \/ ToggleForm(p) \/ \E f \in Fields : Save(p, f)
             \/ \E i \in Id : EditTool(p, i) \/ SetStatus(p, i) \/ Remove(p, i)
      PROVE  Kept /\ Clicked
  BY <1>1, <1>7 DEF ToggleForm, Save, EditTool, SetStatus, Remove
<1>8. ASSUME NEW t \in Turn,
             (\E n \in Name : Gate(t, n)) \/ Invoke(t) \/ Fill(t) \/ Call(t) \/ TurnDies(t)
      PROVE  Kept /\ Clicked
  BY <1>1, <1>8 DEF Gate, Invoke, Lookup, Fill, Call, TurnDies
<1>9. ASSUME Connect \/ Expire \/ UNCHANGED vars PROVE Kept /\ Clicked
  BY <1>1, <1>9 DEF Connect, Expire, vars
<1> QED
  BY <1>3, <1>4, <1>5, <1>6, <1>7, <1>8, <1>9 DEF Next, Serve

\* What was deleted stays so, and a version that is active for the first time
\* was activated by a click (ApiToolsManager.tsx:289, route.ts of the tool:36).
THEOREM ClicksActivate == Spec => ActivatedByClick
<1>1. ToolsInd /\ [Next]_vars =>
        [/\ \A i \in Id : tools[i] = Deleted => tools'[i] = Deleted
         /\ \A v \in wasActive' \ wasActive : \E r \in requests :
              Has(r, "status", "sent") /\ r.id = v.id /\ r.status = "active"]_vars
  BY OnlyClicks
<1>2. Init => ToolsInd
  BY InitInd
<1>3. ToolsInd /\ [Next]_vars => ToolsInd'
  BY NextInd
<1> QED
  BY <1>1, <1>2, <1>3, PTL DEF Spec, ActivatedByClick
=============================================================================
