--------------------------- MODULE ApiConfigProofs ---------------------------
(***************************************************************************)
(* Theorems about ApiConfig, for any number of tabs, turns, urls, secrets  *)
(* and requests.                                                           *)
(***************************************************************************)
EXTENDS ApiConfig, TLAPS

\* One of the rows that were committed.
Kept(config) == \E i \in 1 .. Len(history) : history[i] = config

\* The row is the last one committed, none the first; a secret has a url.
TableInv ==
    /\ history \in Seq(Row) /\ Len(history) >= 1 /\ history[1] = NoRow
    /\ row = history[Len(history)]
    /\ row.url = None => row.secret = None
    /\ LockedIsUsable

\* What a request carries at its stage; a save past its check was let through by
\* a row that was not locked.
RequestOK(r) ==
    /\ r.tab \in Tab /\ r.op \in {"load", "save", "lock", "unlock", "sandbox"}
    /\ r.stage \in {"sent", "check", "write", "ok", "error"}
    /\ r.op = "load" /\ r.stage = "ok" => r.at \in 1 .. Len(history) /\ r.view \in Shown
    /\ r.op = "save" /\ r.stage \in {"check", "write"} =>
         r.url \in Url /\ r.secret \in Secret \cup {None}
    /\ r.stage = "write" => /\ r.op = "save" /\ r.at \in 1 .. Len(history)
                            /\ ~history[r.at].locked
    /\ r.op \in {"save", "lock", "unlock"} /\ r.stage = "ok" =>
         r.at \in 1 .. Len(history)
    /\ Has(r, "sandbox", "ok") => Kept(r.config)
RequestsInv == \A r \in requests : RequestOK(r)

\* The history only grows.
Grown == history' = history \/ \E x \in Row : history' = Append(history, x)

LEMMA GrownKeeps ==
  ASSUME TableInv, Grown
  PROVE  /\ history' \in Seq(Row) /\ Len(history) \in Nat /\ Len(history') \in Nat
         /\ Len(history) <= Len(history')
         /\ \A i \in 1 .. Len(history) : history'[i] = history[i]
         /\ \A c : Kept(c) => Kept(c)'
         /\ \A r : RequestOK(r) => RequestOK(r)'
<1>1. history \in Seq(Row) /\ Len(history) \in Nat
  BY DEF TableInv
<1>2. /\ history' \in Seq(Row) /\ Len(history') \in Nat /\ Len(history) <= Len(history')
      /\ \A i \in 1 .. Len(history) : history'[i] = history[i]
  BY <1>1 DEF Grown
<1>3. \A i \in 1 .. Len(history) : i \in 1 .. Len(history')
  BY <1>1, <1>2
<1>4. \A c : Kept(c) => Kept(c)'
  BY <1>2, <1>3 DEF Kept
<1>5. \A r : RequestOK(r) => RequestOK(r)'
  BY <1>2, <1>3, <1>4 DEF RequestOK, Has
<1> QED
  BY <1>1, <1>2, <1>4, <1>5

LEMMA RowTyped ==
  ASSUME TableInv
  PROVE  /\ row \in Row /\ NoRow \in Row /\ View(row) \in Shown
         /\ Len(history) \in Nat \ {0} /\ Kept(row) /\ Kept(NoRow)
<1>1. /\ 1 \in 1 .. Len(history) /\ Len(history) \in 1 .. Len(history)
      /\ Len(history) \in Nat \ {0} /\ row \in Row
  BY DEF TableInv
<1> QED
  BY <1>1 DEF TableInv, Kept, Row, NoRow, View, Shown

\* A row that is committed.
LEMMA CommitTable ==
  ASSUME TableInv, NEW x \in Row, Commit(x), x.url = None => x.secret = None,
         x.locked => x.url # None /\ x.secret # None
  PROVE  TableInv' /\ Grown /\ Len(history') = Len(history) + 1
<1>1. history \in Seq(Row) /\ history' = Append(history, x) /\ row' = x
  BY DEF TableInv, Commit
<1>2. /\ history' \in Seq(Row) /\ Len(history') = Len(history) + 1
      /\ history'[Len(history')] = x /\ history'[1] = NoRow /\ Len(history) \in Nat
  BY <1>1 DEF TableInv
<1> QED
  BY <1>1, <1>2 DEF TableInv, Grown, LockedIsUsable

\* What the steps commit.
LEMMA TableNext == TableInv /\ RequestsInv /\ [Next]_vars => TableInv' /\ Grown
<1> SUFFICES ASSUME TableInv, RequestsInv, [Next]_vars PROVE TableInv' /\ Grown
  OBVIOUS
<1> USE DEF unseen, served, received, looking
<1>1. ASSUME UNCHANGED <<row, history>> PROVE TableInv' /\ Grown
  BY <1>1 DEF TableInv, Grown, LockedIsUsable
<1>2. ASSUME NEW r \in requests, WriteSave(r) PROVE TableInv' /\ Grown
  <2>1. r.url \in Url /\ r.secret \in Secret \cup {None} /\ row \in Row
    BY <1>2, RowTyped DEF RequestsInv, RequestOK, WriteSave, Has
  <2>2. CASE UNCHANGED <<row, history>>
    BY <1>1, <2>2
  <2>3. CASE Commit(Updated(r))
    <3>1. /\ Updated(r) \in Row /\ Updated(r).url = r.url
          /\ Updated(r).locked = row.locked
          /\ Updated(r).secret = IF r.secret = None THEN row.secret ELSE r.secret
      BY <2>1 DEF Updated, Row
    <3>2. r.url # None
      BY <2>1, ApiConfigAssumption
    <3>3. row.locked => row.secret # None
      BY DEF TableInv, LockedIsUsable
    <3> QED
      BY <2>3, <3>1, <3>2, <3>3, CommitTable
  <2>4. CASE Commit([url |-> r.url, secret |-> r.secret, locked |-> FALSE])
    <3> DEFINE x == [url |-> r.url, secret |-> r.secret, locked |-> FALSE]
    <3>1. x \in Row /\ x.url # None /\ ~x.locked
      BY <2>1, ApiConfigAssumption DEF Row
    <3> QED
      BY <2>4, <3>1, CommitTable
  <2> QED
    BY <1>2, <2>2, <2>3, <2>4 DEF WriteSave
<1>3. ASSUME NEW r \in requests, ServeLock(r) PROVE TableInv' /\ Grown
  <2>1. CASE Lockable
    <3> DEFINE x == [row EXCEPT !.locked = TRUE]
    <3>1. Commit(x) /\ row.secret # None /\ row \in Row
      BY <1>3, <2>1, RowTyped DEF ServeLock, Lockable
    <3>2. x \in Row /\ x.url = row.url /\ x.secret = row.secret
      BY <3>1 DEF Row
    <3>3. x.url # None
      BY <3>1, <3>2 DEF TableInv
    <3> QED
      BY <3>1, <3>2, <3>3, CommitTable
  <2> QED
    BY <1>1, <1>3, <2>1 DEF ServeLock
<1>4. ASSUME NEW r \in requests, ServeUnlock(r) PROVE TableInv' /\ Grown
  <2> DEFINE x == [row EXCEPT !.locked = FALSE]
  <2>1. Commit(x) /\ row \in Row
    BY <1>4, RowTyped DEF ServeUnlock
  <2>2. x \in Row /\ x.url = row.url /\ x.secret = row.secret /\ ~x.locked
    BY <2>1 DEF Row
  <2>3. x.url = None => x.secret = None
    BY <2>2 DEF TableInv
  <2> QED
    BY <2>1, <2>2, <2>3, CommitTable
<1>5. ASSUME NEW r \in requests, Serve(r), ~WriteSave(r), ~ServeLock(r), ~ServeUnlock(r)
      PROVE  TableInv' /\ Grown
  BY <1>1, <1>5 DEF Serve, ServeLoad, CheckSave, ServeSandbox
<1>6. ASSUME NEW r \in requests, Fail(r) \/ Receive(r) PROVE TableInv' /\ Grown
  BY <1>1, <1>6 DEF Fail, Receive, Loaded, Saved, Refused, Tested
<1>7. ASSUME NEW p \in Tab,
             \/ Edit(p) \/ Lock(p) \/ Unlock(p) \/ Cancel(p) \/ Sandbox(p)
             \/ \E u \in Url, s \in Secret \cup {None} : Save(p, u, s)
      PROVE  TableInv' /\ Grown
  BY <1>1, <1>7 DEF Edit, Lock, Unlock, Cancel, Sandbox, Save
<1>8. ASSUME Expire \/ \E t \in Turn : Lookup(t) \/ Fill(t) \/ Call(t) \/ TurnDies(t)
      PROVE  TableInv' /\ Grown
  BY <1>1, <1>8 DEF Expire, Lookup, Fill, Call, TurnDies
<1>9. ASSUME UNCHANGED vars PROVE TableInv' /\ Grown
  BY <1>1, <1>9 DEF vars
<1> QED
  BY <1>2, <1>3, <1>4, <1>5, <1>6, <1>7, <1>8, <1>9 DEF Next, Serve

-----------------------------------------------------------------------------
(* Requests *)

LEMMA AddRequest ==
  ASSUME TableInv, Grown, RequestsInv, NEW q, requests' \subseteq requests \cup {q},
         RequestOK(q)'
  PROVE  RequestsInv'
  BY GrownKeeps DEF RequestsInv

\* A request at its start, or at its end by an error, carries nothing yet.
LEMMA PlainRequest ==
  ASSUME NEW q, q.tab \in Tab, q.op \in {"load", "save", "lock", "unlock", "sandbox"},
         q.stage \in {"sent", "error"}
  PROVE  RequestOK(q)'
  BY DEF RequestOK, Has

LEMMA RequestsNext ==
  TableInv /\ RequestsInv /\ TableInv' /\ Grown /\ [Next]_vars => RequestsInv'
<1> SUFFICES ASSUME TableInv, RequestsInv, TableInv', Grown, [Next]_vars
             PROVE  RequestsInv'
  OBVIOUS
<1> USE DEF unseen, served, received, looking
<1>0. \A r \in requests : RequestOK(r)
  BY DEF RequestsInv
<1>1. ASSUME requests' \subseteq requests PROVE RequestsInv'
  BY <1>1, GrownKeeps DEF RequestsInv
<1>A. ASSUME NEW p \in Tab, NEW q, requests' \subseteq requests \cup {q},
             \/ \E after : q = Load(p, after)
             \/ \E op \in {"lock", "unlock", "sandbox"} : q = Simple(p, op)
      PROVE  RequestsInv'
  <2>1. q.tab = p /\ q.op \in {"load", "lock", "unlock", "sandbox"} /\ q.stage = "sent"
    BY <1>A DEF Load, Simple
  <2> QED
    BY <1>A, <2>1, AddRequest, PlainRequest
\* The user's steps.
<1>2. ASSUME NEW p \in Tab, Lock(p) \/ Unlock(p) \/ Cancel(p) \/ Sandbox(p)
      PROVE  RequestsInv'
  <2>1. \/ requests' \subseteq requests \cup {Load(p, "cancel")}
        \/ \E op \in {"lock", "unlock", "sandbox"} :
             requests' \subseteq requests \cup {Simple(p, op)}
    BY <1>2 DEF Lock, Unlock, Cancel, Sandbox, StartLoad
  <2> QED
    BY <1>A, <2>1
<1>3. ASSUME NEW p \in Tab, NEW u \in Url, NEW s \in Secret \cup {None}, Save(p, u, s)
      PROVE  RequestsInv'
  <2> PICK q : q = [tab |-> p, no |-> Fresh(p), op |-> "save", stage |-> "check",
                    url |-> u, secret |-> s]
    OBVIOUS
  <2>1. requests' \subseteq requests \cup {q}
    BY <1>3 DEF Save
  <2>2. q.tab = p /\ q.op = "save" /\ q.stage = "check" /\ q.url = u /\ q.secret = s
    OBVIOUS
  <2>3. RequestOK(q)'
    BY <2>2 DEF RequestOK, Has
  <2> QED
    BY <2>1, <2>3, AddRequest
\* The routes.
<1>4. ASSUME NEW r \in requests, Refuse(r) PROVE RequestsInv'
  <2>1. /\ requests' \subseteq requests \cup {Answer(r, "error")}
        /\ Answer(r, "error").tab = r.tab /\ Answer(r, "error").op = r.op
        /\ Answer(r, "error").stage = "error"
    BY <1>4 DEF Refuse, Replace, Answer
  <2>2. RequestOK(Answer(r, "error"))'
    BY <1>0, <2>1, PlainRequest DEF RequestOK
  <2> QED
    BY <2>1, <2>2, AddRequest
<1>5. ASSUME NEW r \in requests, r.op \in {"save", "lock", "unlock"},
             Done(r, Len(history) + 1), Len(history') = Len(history) + 1
      PROVE  RequestsInv'
  <2> PICK q : q = [tab |-> r.tab, no |-> r.no, op |-> r.op, stage |-> "ok",
                    at |-> Len(history) + 1]
    OBVIOUS
  <2>1. q.tab = r.tab /\ q.op = r.op /\ q.stage = "ok" /\ q.at = Len(history')
    BY <1>5
  <2>2. requests' \subseteq requests \cup {q}
    BY <1>5 DEF Done, Replace
  <2>3. Len(history') \in 1 .. Len(history')
    BY <1>5, GrownKeeps
  <2>4. RequestOK(q)'
    BY <1>0, <1>5, <2>1, <2>3 DEF RequestOK, Has
  <2> QED
    BY <2>2, <2>4, AddRequest
<1>6. ASSUME NEW r \in requests, ServeLoad(r) PROVE RequestsInv'
  <2> PICK q : q = [tab |-> r.tab, no |-> r.no, op |-> "load", after |-> r.after,
                    stage |-> "ok", view |-> View(row), at |-> Len(history)]
    OBVIOUS
  <2>1. /\ q.tab = r.tab /\ q.op = "load" /\ q.stage = "ok" /\ q.view = View(row)
        /\ q.at = Len(history)
    OBVIOUS
  <2>2. history' = history /\ Len(history) \in 1 .. Len(history) /\ View(row) \in Shown
    BY <1>6, RowTyped DEF ServeLoad
  <2>3. RequestOK(q)'
    BY <1>0, <2>1, <2>2 DEF RequestOK, Has
  <2>4. requests' \subseteq requests \cup {q}
    BY <1>6 DEF ServeLoad, Replace
  <2> QED
    BY <2>3, <2>4, AddRequest
<1>7. ASSUME NEW r \in requests, CheckSave(r) PROVE RequestsInv'
  <2>1. CASE row.locked
    BY <1>4, <1>7, <2>1 DEF CheckSave
  <2>2. CASE ~row.locked
    <3> PICK q : q = [tab |-> r.tab, no |-> r.no, op |-> "save",
                      stage |-> "write", url |-> r.url, secret |-> r.secret,
                      found |-> row # NoRow, at |-> Len(history)]
      OBVIOUS
    <3>1. /\ q.tab = r.tab /\ q.op = "save" /\ q.stage = "write" /\ q.url = r.url
          /\ q.secret = r.secret /\ q.at = Len(history)
      OBVIOUS
    <3>2. /\ history' = history /\ Len(history) \in 1 .. Len(history)
          /\ ~history[Len(history)].locked
      BY <1>7, <2>2, RowTyped DEF CheckSave, TableInv
    <3>3. r.url \in Url /\ r.secret \in Secret \cup {None} /\ r.tab \in Tab
      BY <1>0, <1>7 DEF CheckSave, Has, RequestOK
    <3>4. RequestOK(q)'
      BY <3>1, <3>2, <3>3 DEF RequestOK, Has
    <3>5. requests' \subseteq requests \cup {q}
      BY <1>7, <2>2 DEF CheckSave, Replace
    <3> QED
      BY <3>4, <3>5, AddRequest
  <2> QED
    BY <2>1, <2>2
<1>8. ASSUME NEW r \in requests, WriteSave(r) \/ ServeLock(r) \/ ServeUnlock(r)
      PROVE  RequestsInv'
  <2>1. \/ Refuse(r)
        \/ /\ r.op \in {"save", "lock", "unlock"} /\ Done(r, Len(history) + 1)
           /\ \E x : history' = Append(history, x)
    BY <1>8 DEF WriteSave, ServeLock, ServeUnlock, Has, Commit
  <2>2. ASSUME NEW x, history' = Append(history, x)
        PROVE  Len(history') = Len(history) + 1
    BY <2>2 DEF TableInv
  <2> QED
    BY <1>4, <1>5, <2>1, <2>2
<1>9. ASSUME NEW r \in requests, ServeSandbox(r) PROVE RequestsInv'
  <2>1. CASE row = NoRow
    BY <1>4, <1>9, <2>1 DEF ServeSandbox
  <2>2. CASE row # NoRow
    <3> PICK q : q = [tab |-> r.tab, no |-> r.no, op |-> "sandbox", stage |-> "ok",
                      config |-> row]
      OBVIOUS
    <3>1. q.tab = r.tab /\ q.op = "sandbox" /\ q.stage = "ok" /\ q.config = row
      OBVIOUS
    <3>2. Kept(q.config)'
      BY <3>1, RowTyped, GrownKeeps
    <3>3. RequestOK(q)'
      BY <1>0, <3>1, <3>2 DEF RequestOK, Has
    <3>4. requests' \subseteq requests \cup {q}
      BY <1>9, <2>2 DEF ServeSandbox, Replace
    <3> QED
      BY <3>3, <3>4, AddRequest
  <2> QED
    BY <2>1, <2>2
\* The answers.
<1>10. ASSUME NEW r \in requests, Saved(r) PROVE RequestsInv'
  <2>1. r.tab \in Tab
    BY <1>0 DEF RequestOK
  <2>2. requests' \subseteq requests \cup {Load(r.tab, r.op)}
    BY <1>10 DEF Saved, StartLoad
  <2> QED
    BY <1>A, <2>1, <2>2
<1>11. ASSUME NEW r \in requests, Loaded(r) \/ Refused(r) \/ Tested(r) PROVE RequestsInv'
  BY <1>1, <1>11 DEF Loaded, Refused, Tested
<1>12. ASSUME \/ UNCHANGED vars \/ Expire \/ \E p \in Tab : Edit(p)
              \/ \E t \in Turn : Lookup(t) \/ Fill(t) \/ Call(t) \/ TurnDies(t)
       PROVE  RequestsInv'
  BY <1>1, <1>12 DEF vars, Expire, Edit, Lookup, Fill, Call, TurnDies
<1>13. ASSUME NEW r \in requests, Fail(r) PROVE RequestsInv'
  BY <1>4, <1>13 DEF Fail
<1> QED
  BY <1>2, <1>3, <1>6, <1>7, <1>8, <1>9, <1>10, <1>11, <1>12, <1>13
  DEF Next, Serve, Receive

-----------------------------------------------------------------------------
(* The agent *)

TurnType == {Idle, [stage |-> "again"]}
            \cup [stage : {"fill"}, again : BOOLEAN, config : Row]
            \cup [stage : {"call"}, config : Row]

\* What a turn holds, and the cache, was committed; a call's was locked.
TurnOK(x) ==
    /\ x.stage = "fill" => Kept(x.config)
    /\ x.stage = "call" => Kept(x.config) /\ x.config.locked
AgentInv ==
    /\ cache \in Row /\ Kept(cache)
    /\ turn \in [Turn -> TurnType] /\ \A t \in Turn : TurnOK(turn[t])

LEMMA TurnForms ==
  ASSUME NEW x \in TurnType
  PROVE  /\ x.stage \in {"idle", "again", "fill", "call"}
         /\ x.stage = "fill" => x.config \in Row /\ x.again \in BOOLEAN
         /\ x.stage = "call" => x.config \in Row
  BY DEF TurnType, Idle

\* A step of a turn: it comes to hold nothing, or what was committed.
LEMMA PutTurn ==
  ASSUME AgentInv, TableInv, Grown, cache' \in Row, Kept(cache)',
         NEW t \in Turn, NEW x \in TurnType, TurnOK(x)', turn' = [turn EXCEPT ![t] = x]
  PROVE  AgentInv'
<1>1. /\ turn' \in [Turn -> TurnType] /\ turn'[t] = x
      /\ \A u \in Turn : u # t => turn'[u] = turn[u]
  BY DEF AgentInv
<1>2. ASSUME NEW u \in Turn, NEW y, y = turn'[u] PROVE TurnOK(y)'
  <2>1. CASE u = t
    BY <1>1, <1>2, <2>1
  <2>2. CASE u # t
    <3>1. TurnOK(y)
      BY <1>1, <1>2, <2>2 DEF AgentInv
    <3> QED
      BY <3>1, GrownKeeps DEF TurnOK
  <2> QED
    BY <2>1, <2>2
<1> QED
  BY <1>1, <1>2 DEF AgentInv, TurnOK

\* What a lookup makes of a configuration.
LEMMA FoundTurn ==
  ASSUME AgentInv, TableInv, Grown, cache' \in Row, Kept(cache)', NEW t \in Turn,
         NEW config \in Row, Kept(config)', NEW again \in BOOLEAN, Found(t, config, again)
  PROVE  AgentInv'
<1> DEFINE x == IF ~config.locked THEN Idle
                ELSE IF again THEN [stage |-> "call", config |-> config]
                ELSE [stage |-> "again"]
<1>1. x \in TurnType
  BY DEF TurnType
<1>2. /\ x.stage # "fill"
      /\ x.stage = "call" => x.config = config /\ config.locked
  BY DEF Idle
<1>3. turn' = [turn EXCEPT ![t] = x]
  BY DEF Found
<1> HIDE DEF x
<1>4. PICK y \in TurnType : y = x
  BY <1>1
<1>5. TurnOK(y)'
  BY <1>2, <1>4 DEF TurnOK
<1> QED
  BY <1>3, <1>4, <1>5, PutTurn

LEMMA IdleTurn ==
  ASSUME AgentInv, TableInv, Grown, cache' = cache, NEW t \in Turn,
         turn' = [turn EXCEPT ![t] = Idle]
  PROVE  AgentInv'
<1>1. Idle \in TurnType /\ Idle.stage = "idle"
  BY DEF TurnType, Idle
<1>2. TurnOK(Idle)'
  BY <1>1 DEF TurnOK, Idle
<1>3. cache' \in Row /\ Kept(cache)'
  BY GrownKeeps DEF AgentInv
<1> QED
  BY <1>1, <1>2, <1>3, PutTurn

LEMMA AgentNext ==
  AgentInv /\ TableInv /\ Grown /\ RequestsInv /\ [Next]_vars => AgentInv'
<1> SUFFICES ASSUME AgentInv, TableInv, Grown, RequestsInv, [Next]_vars PROVE AgentInv'
  OBVIOUS
<1> USE DEF unseen, served, received, looking
<1>0. /\ cache \in Row /\ NoRow \in Row /\ row \in Row /\ Kept(row) /\ Kept(cache)
      /\ Kept(NoRow)
      /\ \A c : Kept(c) => Kept(c)'
  BY GrownKeeps, RowTyped DEF AgentInv
<1>1. ASSUME turn' = turn, cache' \in Row, Kept(cache)' PROVE AgentInv'
  <2>1. ASSUME NEW t \in Turn, NEW y, y = turn[t] PROVE TurnOK(y)'
    <3>1. TurnOK(y)
      BY <2>1 DEF AgentInv
    <3> QED
      BY <3>1, GrownKeeps DEF TurnOK
  <2> QED
    BY <1>1, <2>1 DEF AgentInv, TurnOK
<1>2. ASSUME UNCHANGED <<turn, cache>> PROVE AgentInv'
  BY <1>0, <1>1, <1>2 DEF Kept
<1>3. ASSUME NEW t \in Turn, Lookup(t) PROVE AgentInv'
  <2>1. cache' = cache /\ history' = history /\ row' = row
    BY <1>3 DEF Lookup
  <2>2. cache' \in Row /\ Kept(cache)'
    BY <1>0, <2>1
  <2>3. PICK again \in BOOLEAN : again = (turn[t].stage = "again")
    OBVIOUS
  <2>4. CASE cache # NoRow
    <3>1. Found(t, cache, again)
      BY <1>3, <2>3, <2>4 DEF Lookup
    <3>2. PICK c \in Row : c = cache
      BY <1>0
    <3>3. Kept(c)' /\ Found(t, c, again)
      BY <2>1, <2>2, <3>1, <3>2 DEF Kept, Found
    <3> QED
      BY <2>2, <3>3, FoundTurn
  <2>5. CASE cache = NoRow /\ row = NoRow
    BY <1>3, <2>1, <2>5, IdleTurn DEF Lookup
  <2>6. CASE cache = NoRow /\ row # NoRow
    <3>1. PICK c \in Row : c = row
      BY <1>0
    <3> DEFINE x == [stage |-> "fill", again |-> again, config |-> c]
    <3>2. turn' = [turn EXCEPT ![t] = x]
      BY <1>3, <2>3, <2>6, <3>1 DEF Lookup
    <3>3. x \in TurnType /\ x.stage = "fill" /\ x.config = c
      BY DEF TurnType
    <3>4. Kept(c)'
      BY <1>0, <2>1, <3>1 DEF Kept
    <3>5. TurnOK(x)'
      BY <3>3, <3>4 DEF TurnOK
    <3> QED
      BY <2>2, <3>2, <3>3, <3>5, PutTurn
  <2> QED
    BY <2>4, <2>5, <2>6
<1>4. ASSUME NEW t \in Turn, Fill(t) PROVE AgentInv'
  <2>1. turn[t] \in TurnType /\ turn[t].stage = "fill" /\ TurnOK(turn[t])
    BY <1>4 DEF Fill, AgentInv
  <2>2. PICK c \in Row : c = turn[t].config
    BY <2>1, TurnForms
  <2>3. PICK again \in BOOLEAN : again = turn[t].again
    BY <2>1, TurnForms
  <2>4. Kept(c)
    BY <2>1, <2>2 DEF TurnOK
  <2>5. cache' = c /\ Found(t, c, again) /\ Kept(c)'
    BY <1>4, <2>2, <2>3, <2>4, GrownKeeps DEF Fill, Found
  <2>6. cache' \in Row /\ Kept(cache)'
    BY <2>5 DEF Kept
  <2> QED
    BY <2>5, <2>6, FoundTurn
<1>5. ASSUME NEW t \in Turn, Call(t) \/ TurnDies(t) PROVE AgentInv'
  BY <1>5, IdleTurn DEF Call, TurnDies
<1>6. ASSUME Expire PROVE AgentInv'
  <2>1. cache' = NoRow /\ turn' = turn /\ history' = history
    BY <1>6 DEF Expire
  <2>2. Kept(cache)'
    BY <1>0, <2>1 DEF Kept
  <2> QED
    BY <1>0, <1>1, <2>1, <2>2
<1>7. ASSUME UNCHANGED vars PROVE AgentInv'
  BY <1>2, <1>7 DEF vars
<1>8. ASSUME NEW r \in requests, Serve(r) \/ Fail(r) \/ Receive(r) PROVE AgentInv'
  BY <1>2, <1>8 DEF Serve, ServeLoad, CheckSave, WriteSave, ServeLock, ServeUnlock,
                    ServeSandbox, Fail, Receive, Loaded, Saved, Refused, Tested
<1>9. ASSUME NEW p \in Tab,
             \/ Edit(p) \/ Lock(p) \/ Unlock(p) \/ Cancel(p) \/ Sandbox(p)
             \/ \E u \in Url, s \in Secret \cup {None} : Save(p, u, s)
      PROVE  AgentInv'
  BY <1>2, <1>9 DEF Edit, Lock, Unlock, Cancel, Sandbox, Save
<1> QED
  BY <1>3, <1>4, <1>5, <1>6, <1>7, <1>8, <1>9 DEF Next

-----------------------------------------------------------------------------
(* The panels *)

PanelType == [config : Shown, at : Nat, own : Nat, disturbed : BOOLEAN,
              loading : BOOLEAN, editing : BOOLEAN, saving : BOOLEAN]

\* A panel that was not disturbed has one load under way at most; what that
\* brings, or what is shown when there is none, is no older than the tab's last
\* write.
Timely(p) ==
    /\ panel[p].own <= Len(history)
    /\ ~panel[p].disturbed =>
         \/ Loads(p) = {} /\ panel[p].at >= panel[p].own
         \/ \E l \in Loads(p) : /\ Loads(p) = {l}
                                /\ l.stage = "ok" => l.at >= panel[p].own
PanelInv == panel \in [Tab -> PanelType] /\ \A p \in Tab : Timely(p)

LEMMA PanelTyped ==
  ASSUME PanelInv, NEW p \in Tab
  PROVE  /\ panel[p] \in PanelType /\ panel[p].config \in Shown /\ panel[p].at \in Nat
         /\ panel[p].own \in Nat /\ panel[p].disturbed \in BOOLEAN
         /\ panel[p].loading \in BOOLEAN /\ panel[p].editing \in BOOLEAN
         /\ panel[p].saving \in BOOLEAN
  BY DEF PanelInv, PanelType

LEMMA PutPanel ==
  ASSUME PanelInv, NEW p \in Tab, NEW x \in PanelType, panel' = [panel EXCEPT ![p] = x]
  PROVE  /\ panel' \in [Tab -> PanelType] /\ panel'[p] = x
         /\ \A q \in Tab : q # p => panel'[q] = panel[q]
  BY DEF PanelInv

\* A panel with the loads it had, showing what it did.
LEMMA SameTimely ==
  ASSUME PanelInv, TableInv, Grown, NEW p \in Tab, Loads(p)' = Loads(p),
         panel'[p].own = panel[p].own, panel'[p].at = panel[p].at,
         panel'[p].disturbed = panel[p].disturbed
  PROVE  Timely(p)'
<1>1. /\ Len(history) \in Nat /\ Len(history') \in Nat /\ Len(history) <= Len(history')
      /\ panel[p].own \in Nat /\ panel[p].own <= Len(history)
  BY GrownKeeps, PanelTyped DEF PanelInv, Timely
<1>2. panel'[p].own <= Len(history')
  BY <1>1
<1> QED
  BY <1>2 DEF PanelInv, Timely

\* A panel for which a new load starts, alone or not.
LEMMA LoadTimely ==
  ASSUME NEW p \in Tab, NEW q, q.stage = "sent", Loads(p)' = Loads(p) \cup {q},
         panel'[p].own <= Len(history'), panel'[p].disturbed = (Loads(p) # {})
  PROVE  Timely(p)'
  BY DEF Timely

\* A load that is answered.
LEMMA ServedTimely ==
  ASSUME PanelInv, TableInv, Grown, NEW p \in Tab, NEW r \in Loads(p), NEW q,
         Loads(p)' = (Loads(p) \ {r}) \cup {q}, panel' = panel,
         q.stage = "ok" => q.at >= panel[p].own
  PROVE  Timely(p)'
<1>1. panel'[p].own <= Len(history') /\ Timely(p)
  <2>1. /\ Len(history) \in Nat /\ Len(history') \in Nat /\ Len(history) <= Len(history')
        /\ panel[p].own \in Nat /\ panel[p].own <= Len(history)
    BY GrownKeeps, PanelTyped DEF PanelInv, Timely
  <2> QED
    BY <2>1 DEF PanelInv
<1>2. CASE panel[p].disturbed
  BY <1>1, <1>2 DEF Timely
<1>3. CASE ~panel[p].disturbed
  <2>1. Loads(p) = {r}
    BY <1>1, <1>3 DEF Timely
  <2>2. Loads(p)' = {q}
    BY <2>1
  <2> QED
    BY <1>1, <2>2 DEF Timely
<1> QED
  BY <1>2, <1>3

\* Loads when a request is added, replaced or received.
LEMMA LoadsKept ==
  ASSUME NEW p,
         \/ \E q : q.op # "load" /\ requests' = requests \cup {q}
         \/ \E r, q : /\ r.op # "load" \/ r.tab # p
                      /\ q.op = r.op /\ q.tab = r.tab /\ r \in requests
                      /\ requests' = (requests \ {r}) \cup {q}
         \/ \E r : (r.op # "load" \/ r.tab # p) /\ requests' = requests \ {r}
  PROVE  Loads(p)' = Loads(p)
  BY DEF Loads

\* A request of the routes takes the place of another.
LEMMA ReplacePanels ==
  ASSUME PanelInv, TableInv, RequestsInv, Grown, panel' = panel, NEW r \in requests,
         NEW q, q.op = r.op, q.tab = r.tab,
         r.op = "load" /\ q.stage = "ok" => q.at = Len(history),
         requests' = (requests \ {r}) \cup {q}
  PROVE  PanelInv'
<1> SUFFICES ASSUME NEW p \in Tab PROVE Timely(p)'
  BY DEF PanelInv, Timely, Loads
<1>1. CASE r.op # "load" \/ r.tab # p
  <2>1. Loads(p)' = Loads(p)
    BY <1>1 DEF Loads
  <2> QED
    BY <2>1, SameTimely
<1>2. CASE r.op = "load" /\ r.tab = p
  <2>1. r \in Loads(p) /\ Loads(p)' = (Loads(p) \ {r}) \cup {q}
    BY <1>2 DEF Loads
  <2>2. q.stage = "ok" => q.at >= panel[p].own
    <3>1. panel[p].own <= Len(history)
      BY DEF PanelInv, Timely
    <3>2. panel[p].own \in Nat /\ Len(history) \in Nat
      BY PanelTyped, GrownKeeps
    <3> QED
      BY <1>2, <3>1, <3>2
  <2> QED
    BY <2>1, <2>2, ServedTimely
<1> QED
  BY <1>1, <1>2

\* A load starts, after a write of the tab perhaps.
LEMMA StartPanels ==
  ASSUME PanelInv, TableInv, Grown, NEW p \in Tab, NEW after, NEW done,
         \A r \in done : r.op # "load", NEW changed \in PanelType,
         changed.own <= Len(history), StartLoad(p, after, done, changed)
  PROVE  PanelInv'
<1> DEFINE x == [changed EXCEPT !.loading = TRUE, !.disturbed = Loads(p) # {}]
<1>1. /\ x \in PanelType /\ x.own = changed.own /\ x.disturbed = (Loads(p) # {})
      /\ panel' = [panel EXCEPT ![p] = x]
  BY DEF StartLoad, PanelType
<1> PICK q : q = Load(p, after)
  OBVIOUS
<1>2. q.tab = p /\ q.op = "load" /\ q.stage = "sent"
  BY DEF Load
<1>3. requests' = (requests \ done) \cup {q}
  BY DEF StartLoad
<1> HIDE DEF x
<1>4. /\ panel' \in [Tab -> PanelType] /\ panel'[p] = x
      /\ \A u \in Tab : u # p => panel'[u] = panel[u]
  BY <1>1, PutPanel
<1>5. Timely(p)'
  <2>1. Loads(p)' = Loads(p) \cup {q}
    BY <1>2, <1>3 DEF Loads
  <2>2. x.own <= Len(history')
    <3>1. changed.own \in Nat
      BY DEF PanelType
    <3> QED
      BY <1>1, <3>1, GrownKeeps
  <2> QED
    BY <1>1, <1>2, <1>4, <2>1, <2>2, LoadTimely
<1>6. ASSUME NEW u \in Tab, u # p PROVE Timely(u)'
  <2>1. Loads(u)' = Loads(u)
    BY <1>2, <1>3, <1>6 DEF Loads
  <2> QED
    BY <1>4, <1>6, <2>1, SameTimely
<1> QED
  BY <1>4, <1>5, <1>6 DEF PanelInv

\* A step that changes one panel, but not what it is timely by.
LEMMA EditPanels ==
  ASSUME PanelInv, TableInv, Grown, NEW p \in Tab, NEW x \in PanelType,
         panel' = [panel EXCEPT ![p] = x],
         x.own = panel[p].own, x.at = panel[p].at, x.disturbed = panel[p].disturbed,
         \A u \in Tab : Loads(u)' = Loads(u)
  PROVE  PanelInv'
<1>1. /\ panel' \in [Tab -> PanelType] /\ panel'[p] = x
      /\ \A u \in Tab : u # p => panel'[u] = panel[u]
  BY PutPanel
<1> SUFFICES ASSUME NEW u \in Tab PROVE Timely(u)'
  BY <1>1 DEF PanelInv, Timely, Loads
<1> QED
  BY <1>1, SameTimely

LEMMA PanelsNext ==
  PanelInv /\ TableInv /\ RequestsInv /\ Grown /\ [Next]_vars => PanelInv'
<1> SUFFICES ASSUME PanelInv, TableInv, RequestsInv, Grown, [Next]_vars PROVE PanelInv'
  OBVIOUS
<1> USE DEF unseen, served, received, looking
<1>0. /\ \A r \in requests : RequestOK(r)
      /\ \A p \in Tab : /\ panel[p] \in PanelType /\ panel[p].own <= Len(history)
                        /\ panel[p].own \in Nat
  BY PanelTyped DEF RequestsInv, PanelInv, Timely
<1>1. ASSUME UNCHANGED panel, \A p \in Tab : Loads(p)' = Loads(p) PROVE PanelInv'
  BY <1>1, SameTimely DEF PanelInv
<1>2. ASSUME UNCHANGED <<panel, requests>> PROVE PanelInv'
  BY <1>1, <1>2 DEF Loads
\* The user's steps.
<1>3. ASSUME NEW p \in Tab, Edit(p) PROVE PanelInv'
  <2> DEFINE x == [panel[p] EXCEPT !.editing = TRUE]
  <2>1. /\ x \in PanelType /\ x.own = panel[p].own /\ x.at = panel[p].at
        /\ x.disturbed = panel[p].disturbed
    BY <1>0 DEF PanelType
  <2>2. panel' = [panel EXCEPT ![p] = x] /\ \A u \in Tab : Loads(u)' = Loads(u)
    BY <1>3 DEF Edit, Loads
  <2> QED
    BY <2>1, <2>2, EditPanels
<1>4. ASSUME NEW p \in Tab, Lock(p) \/ Unlock(p) \/ Sandbox(p) PROVE PanelInv'
  <2>1. panel' = panel /\ \E op \in {"lock", "unlock", "sandbox"} :
          requests' = requests \cup {Simple(p, op)}
    BY <1>4 DEF Lock, Unlock, Sandbox
  <2>2. \A op : Simple(p, op).op = op
    BY DEF Simple
  <2> QED
    BY <1>1, <2>1, <2>2, LoadsKept
<1>5. ASSUME NEW p \in Tab, NEW u \in Url, NEW s \in Secret \cup {None}, Save(p, u, s)
      PROVE  PanelInv'
  <2> DEFINE x == [panel[p] EXCEPT !.saving = TRUE]
             q == [tab |-> p, no |-> Fresh(p), op |-> "save", stage |-> "check",
                   url |-> u, secret |-> s]
  <2>1. /\ x \in PanelType /\ x.own = panel[p].own /\ x.at = panel[p].at
        /\ x.disturbed = panel[p].disturbed
    BY <1>0 DEF PanelType
  <2>2. panel' = [panel EXCEPT ![p] = x] /\ requests' = requests \cup {q}
    BY <1>5 DEF Save
  <2>3. q.op # "load"
    OBVIOUS
  <2> HIDE DEF x, q
  <2>4. \A v \in Tab : Loads(v)' = Loads(v)
    BY <2>2, <2>3, LoadsKept
  <2> QED
    BY <2>1, <2>2, <2>4, EditPanels
<1>6. ASSUME NEW p \in Tab, Cancel(p) PROVE PanelInv'
  <2> DEFINE x == [panel[p] EXCEPT !.editing = FALSE]
  <2>1. x \in PanelType /\ x.own = panel[p].own
    BY <1>0 DEF PanelType
  <2>2. StartLoad(p, "cancel", {}, x) /\ x.own <= Len(history)
    BY <1>0, <1>6, <2>1 DEF Cancel
  <2> HIDE DEF x
  <2> QED
    BY <2>1, <2>2, StartPanels
\* The routes.
<1>7. ASSUME NEW r \in requests, Serve(r) \/ Fail(r) PROVE PanelInv'
  <2>1. panel' = panel
    BY <1>7 DEF Serve, ServeLoad, CheckSave, WriteSave, ServeLock, ServeUnlock,
                ServeSandbox, Fail
  <2>2. CASE Refuse(r)
    <3>1. /\ Answer(r, "error").op = r.op /\ Answer(r, "error").tab = r.tab
          /\ Answer(r, "error").stage = "error"
      BY DEF Answer
    <3> QED
      BY <2>1, <2>2, <3>1, ReplacePanels DEF Refuse, Replace
  <2>3. ASSUME r.op # "load", NEW q, q.op = r.op, q.tab = r.tab, Replace(r, q)
        PROVE  PanelInv'
    BY <2>1, <2>3, ReplacePanels DEF Replace
  <2>4. CASE ServeLoad(r)
    <3> DEFINE q == [tab |-> r.tab, no |-> r.no, op |-> "load", after |-> r.after,
                     stage |-> "ok", view |-> View(row), at |-> Len(history)]
    <3>1. q.op = "load" /\ q.tab = r.tab /\ q.at = Len(history)
      OBVIOUS
    <3>2. r.op = "load" /\ requests' = (requests \ {r}) \cup {q}
      BY <2>4 DEF ServeLoad, Replace, Has
    <3> HIDE DEF q
    <3> QED
      BY <2>1, <3>1, <3>2, ReplacePanels
  <2>5. CASE CheckSave(r) /\ ~Refuse(r)
    <3> DEFINE q == [tab |-> r.tab, no |-> r.no, op |-> "save", stage |-> "write",
                     url |-> r.url, secret |-> r.secret,
                     found |-> row # NoRow, at |-> Len(history)]
    <3>1. q.op = "save" /\ q.tab = r.tab
      OBVIOUS
    <3>2. r.op = "save" /\ Replace(r, q)
      BY <2>5 DEF CheckSave, Has
    <3> HIDE DEF q
    <3> QED
      BY <2>3, <3>1, <3>2
  <2>6. CASE (WriteSave(r) \/ ServeLock(r) \/ ServeUnlock(r)) /\ ~Refuse(r)
    <3> DEFINE q == [tab |-> r.tab, no |-> r.no, op |-> r.op, stage |-> "ok",
                     at |-> Len(history) + 1]
    <3>1. q.op = r.op /\ q.tab = r.tab
      OBVIOUS
    <3>2. r.op # "load" /\ Replace(r, q)
      BY <2>6 DEF WriteSave, ServeLock, ServeUnlock, Done, Has
    <3> HIDE DEF q
    <3> QED
      BY <2>3, <3>1, <3>2
  <2>7. CASE ServeSandbox(r) /\ ~Refuse(r)
    <3> DEFINE q == [tab |-> r.tab, no |-> r.no, op |-> "sandbox", stage |-> "ok",
                     config |-> row]
    <3>1. q.op = "sandbox" /\ q.tab = r.tab
      OBVIOUS
    <3>2. r.op = "sandbox" /\ Replace(r, q)
      BY <2>7 DEF ServeSandbox, Has
    <3> HIDE DEF q
    <3> QED
      BY <2>3, <3>1, <3>2
  <2> QED
    BY <1>7, <2>2, <2>4, <2>5, <2>6, <2>7 DEF Serve, Fail
\* The answers.
<1>8. ASSUME NEW r \in requests, Loaded(r) PROVE PanelInv'
  <2>1. /\ r.tab \in Tab /\ r.op = "load" /\ r.stage = "ok" /\ r.at \in Nat
        /\ r.at <= Len(history) /\ r.view \in Shown
    <3>1. r.at \in 1 .. Len(history)
      BY <1>0, <1>8 DEF Loaded, Has, RequestOK
    <3> QED
      BY <1>0, <1>8, <3>1 DEF Loaded, Has, RequestOK
  <2> PICK p \in Tab : p = r.tab
    BY <2>1
  <2> DEFINE y == panel[p]
             x == [y EXCEPT !.config = r.view, !.at = r.at, !.loading = FALSE,
                            !.editing = @ \/ r.view.url = None,
                            !.saving = @ /\ r.after # "save"]
  <2>2. /\ x \in PanelType /\ x.own = y.own /\ x.at = r.at /\ x.disturbed = y.disturbed
    BY <1>0, <2>1 DEF PanelType
  <2>3. panel' = [panel EXCEPT ![p] = x] /\ requests' = requests \ {r}
    BY <1>8 DEF Loaded
  <2> HIDE DEF x
  <2>4. /\ panel' \in [Tab -> PanelType] /\ panel'[p] = x
        /\ \A u \in Tab : u # p => panel'[u] = panel[u]
    BY <2>2, <2>3, PutPanel
  <2>5. \A u \in Tab : u # p => Loads(u)' = Loads(u)
    BY <2>3 DEF Loads
  <2>6. Timely(p)'
    <3>1. r \in Loads(p) /\ Loads(p)' = Loads(p) \ {r} /\ Timely(p)
      BY <2>1, <2>3 DEF Loads, PanelInv
    <3>2. ~y.disturbed => Loads(p)' = {} /\ r.at >= y.own
      BY <2>1, <3>1 DEF Timely
    <3>3. x.own <= Len(history')
      BY <1>0, <2>2, GrownKeeps
    <3> QED
      BY <2>2, <2>4, <3>2, <3>3 DEF Timely
  <2> QED
    BY <2>4, <2>5, <2>6, SameTimely DEF PanelInv
<1>9. ASSUME NEW r \in requests, Saved(r) PROVE PanelInv'
  <2>1. /\ r.tab \in Tab /\ r.op # "load" /\ r.at \in Nat /\ r.at <= Len(history)
    <3>1. r.at \in 1 .. Len(history)
      BY <1>0, <1>9 DEF Saved, RequestOK
    <3> QED
      BY <1>0, <1>9, <3>1 DEF Saved, RequestOK
  <2> PICK p \in Tab : p = r.tab
    BY <2>1
  <2> DEFINE y == panel[p]
             x == [y EXCEPT !.own = IF r.at > @ THEN r.at ELSE @,
                            !.editing = @ /\ r.op # "save"]
  <2>2. x \in PanelType /\ x.own \in {y.own, r.at}
    BY <1>0, <2>1 DEF PanelType
  <2>3. StartLoad(p, r.op, {r}, x)
    BY <1>9 DEF Saved
  <2>4. x.own <= Len(history)
    BY <1>0, <2>1, <2>2
  <2> HIDE DEF x
  <2> QED
    BY <2>1, <2>2, <2>3, <2>4, StartPanels
<1>10. ASSUME NEW r \in requests, Refused(r) PROVE PanelInv'
  <2>1. r.tab \in Tab
    BY <1>0 DEF RequestOK
  <2> PICK p \in Tab : p = r.tab
    BY <2>1
  <2> DEFINE y == panel[p]
             x == [y EXCEPT !.disturbed = @ \/ r.op = "load",
                            !.loading = @ /\ r.op # "load",
                            !.saving = @ /\ r.op # "save" /\ r.after # "save"]
  <2>2. /\ x \in PanelType /\ x.own = y.own /\ x.at = y.at
        /\ x.disturbed = (y.disturbed \/ r.op = "load")
    BY <1>0 DEF PanelType
  <2>3. panel' = [panel EXCEPT ![p] = x] /\ requests' = requests \ {r}
    BY <1>10 DEF Refused
  <2> HIDE DEF x
  <2>4. /\ panel' \in [Tab -> PanelType] /\ panel'[p] = x
        /\ \A u \in Tab : u # p => panel'[u] = panel[u]
    BY <2>2, <2>3, PutPanel
  <2>5. CASE r.op # "load"
    <3>1. \A u \in Tab : Loads(u)' = Loads(u)
      BY <2>3, <2>5 DEF Loads
    <3> QED
      BY <2>2, <2>3, <2>5, <3>1, PanelTyped, EditPanels
  <2>6. CASE r.op = "load"
    <3>1. \A u \in Tab : u # p => Loads(u)' = Loads(u)
      BY <2>3 DEF Loads
    <3>2. x.disturbed
      BY <2>2, <2>6
    <3>3. x.own <= Len(history')
      BY <1>0, <2>2, GrownKeeps
    <3>4. Timely(p)'
      BY <2>4, <3>2, <3>3 DEF Timely
    <3> QED
      BY <2>4, <3>1, <3>4, SameTimely DEF PanelInv
  <2> QED
    BY <2>5, <2>6
<1>11. ASSUME NEW r \in requests, Tested(r) PROVE PanelInv'
  <2>1. panel' = panel /\ r.op = "sandbox" /\ requests' = requests \ {r}
    BY <1>11 DEF Tested, Has
  <2> QED
    BY <1>1, <2>1, LoadsKept
<1>12. ASSUME \/ UNCHANGED vars \/ Expire
              \/ \E t \in Turn : Lookup(t) \/ Fill(t) \/ Call(t) \/ TurnDies(t)
       PROVE  PanelInv'
  BY <1>2, <1>12 DEF vars, Expire, Lookup, Fill, Call, TurnDies
<1> QED
  BY <1>3, <1>4, <1>5, <1>6, <1>7, <1>8, <1>9, <1>10, <1>11, <1>12 DEF Next, Receive

-----------------------------------------------------------------------------
(* Together *)

EventsInv == eventsLeft \in 0 .. MaxEvents

LEMMA EventsNext == EventsInv /\ [Next]_vars => EventsInv'
<1> SUFFICES ASSUME EventsInv, [Next]_vars PROVE EventsInv'
  OBVIOUS
<1>1. eventsLeft' = eventsLeft \/ Event
  BY DEF Next, vars, unseen, served, received, looking, Edit, Lock, Unlock, Cancel,
         Sandbox, Save, Serve, ServeLoad, CheckSave, WriteSave, ServeLock, ServeUnlock,
         ServeSandbox, Fail, Receive, Loaded, Saved, Refused, Tested, Lookup, Fill, Call,
         TurnDies, Expire
<1> QED
  BY <1>1, ApiConfigAssumption DEF EventsInv, Event

Inv == TableInv /\ RequestsInv /\ AgentInv /\ PanelInv /\ EventsInv

LEMMA InitInv == Init => Inv
<1> SUFFICES ASSUME Init PROVE Inv
  OBVIOUS
<1>1. /\ NoRow \in Row /\ NoRow.url = None /\ NoRow.secret = None /\ ~NoRow.locked
      /\ View(NoRow) \in Shown
  BY DEF NoRow, Row, View, Shown
<1>2. row = NoRow /\ history = <<NoRow>>
  BY DEF Init
<1>3. TableInv
  BY <1>1, <1>2 DEF TableInv, LockedIsUsable
<1>4. RequestsInv
  <2> SUFFICES ASSUME NEW r \in requests PROVE RequestOK(r)
    BY DEF RequestsInv
  <2>1. r.tab \in Tab /\ r.op = "load" /\ r.stage = "sent"
    BY DEF Init
  <2> QED
    BY <2>1 DEF RequestOK, Has
<1>5. AgentInv
  <2>1. Kept(NoRow)
    BY <1>3, RowTyped
  <2> QED
    BY <1>1, <2>1 DEF Init, AgentInv, TurnType, TurnOK, Idle
<1>6. PanelInv
  <2>1. ASSUME NEW p \in Tab
        PROVE  /\ panel[p] \in PanelType /\ panel[p].own = 0 /\ Len(history) = 1
               /\ ~panel[p].disturbed
    BY <1>1, <1>2 DEF Init, PanelType
  <2>2. ASSUME NEW p \in Tab PROVE \E l : Loads(p) = {l} /\ l.stage = "sent"
    <3> DEFINE l == [tab |-> p, no |-> 1, op |-> "load", after |-> "mount",
                     stage |-> "sent"]
    <3>1. l \in requests /\ \A r \in requests : r.tab = p => r = l
      BY DEF Init
    <3>2. l.tab = p /\ l.op = "load" /\ l.stage = "sent"
      OBVIOUS
    <3> HIDE DEF l
    <3>3. Loads(p) = {l}
      BY <3>1, <3>2 DEF Loads
    <3> QED
      BY <3>2, <3>3
  <2>3. \A p \in Tab : Timely(p)
    BY <2>1, <2>2 DEF Timely
  <2>4. panel \in [Tab -> PanelType]
    BY <2>1 DEF Init
  <2> QED
    BY <2>3, <2>4 DEF PanelInv
<1> QED
  BY <1>3, <1>4, <1>5, <1>6, ApiConfigAssumption DEF Init, Inv, EventsInv

LEMMA NextInv == Inv /\ [Next]_vars => Inv'
  BY TableNext, RequestsNext, AgentNext, PanelsNext, EventsNext DEF Inv

\* The connection's row is usable when it is locked, what leaves for the tenant's
\* API is one committed row, and a panel shows the writes that it saw acknowledged
\* (api-config/route.ts, ApiConfigPanel.tsx, load_api_config).
THEOREM ConnectionKept == Spec => []ConnectionInv
<1>1. Inv => ConnectionInv
  <2> SUFFICES ASSUME Inv PROVE ConnectionInv
    OBVIOUS
  <2>1. \A c : Kept(c) => Committed(c, FALSE) /\ (c.locked => Committed(c, TRUE))
    BY DEF Kept, Committed
  <2>2. SentAsCommitted
    BY <2>1 DEF Inv, AgentInv, TurnOK, RequestsInv, RequestOK, SentAsCommitted
  <2>3. ReadsOwnWrites
    BY DEF Inv, PanelInv, Timely, ReadsOwnWrites
  <2>4. TypeOK
    <3>1. row \in Row
      BY RowTyped DEF Inv
    <3> QED
      BY <3>1 DEF Inv, TypeOK, TableInv, RequestsInv, RequestOK, AgentInv, TurnType,
                  PanelInv, PanelType, EventsInv
  <2> QED
    BY <2>2, <2>3, <2>4 DEF ConnectionInv, Inv, TableInv
<1> QED
  BY <1>1, InitInv, NextInv, PTL DEF Spec

\* The lock of a connection is honoured by every save that was not already past
\* its check when it was set (PUT of api-config/route.ts, lock/route.ts).
THEOREM LockHonoured == Spec => LockHoldsOnceDrained
<1>1. Inv /\ [Next]_vars =>
        \A i \in 2 .. Len(history) :
          LockedAt(i) /\ row'.locked /\ Credentials(row') # Credentials(row)
          => \E r \in requests : r.stage = "write" /\ r.at < i
  <2> SUFFICES ASSUME Inv, [Next]_vars, NEW i \in 2 .. Len(history), LockedAt(i),
                      row'.locked, Credentials(row') # Credentials(row)
               PROVE  \E r \in requests : r.stage = "write" /\ r.at < i
    OBVIOUS
  <2>0. row \in Row /\ Len(history) \in Nat
    BY RowTyped DEF Inv
  <2>1. row' # row
    OBVIOUS
  <2>2. \E r \in requests : WriteSave(r) \/ ServeLock(r) \/ ServeUnlock(r)
    BY <2>1 DEF Next, vars, unseen, served, received, looking, Edit, Lock, Unlock,
         Cancel, Sandbox, Save, Serve, ServeLoad, CheckSave, ServeSandbox, Fail,
         Receive, Loaded, Saved, Refused, Tested, Lookup, Fill, Call, TurnDies, Expire
  <2>3. PICK r \in requests : WriteSave(r) \/ ServeLock(r) \/ ServeUnlock(r)
    BY <2>2
  <2>4. WriteSave(r)
    <3>1. CASE ServeLock(r) \/ ServeUnlock(r)
      <4>1. row' \in {row, [row EXCEPT !.locked = TRUE], [row EXCEPT !.locked = FALSE]}
        BY <3>1 DEF ServeLock, ServeUnlock, Commit
      <4>2. row'.url = row.url /\ row'.secret = row.secret
        BY <2>0, <4>1 DEF Row
      <4> QED
        BY <4>2 DEF Credentials
    <3> QED
      BY <2>3, <3>1
  <2>5. r.stage = "write" /\ r.at \in 1 .. Len(history) /\ ~history[r.at].locked
    BY <2>4 DEF WriteSave, Has, Inv, RequestsInv, RequestOK
  <2>6. ~(r.at \in i .. Len(history))
    BY <2>5 DEF LockedAt
  <2> QED
    BY <2>0, <2>5, <2>6
<1> QED
  BY <1>1, InitInv, NextInv, PTL DEF Spec, LockHoldsOnceDrained
=============================================================================
