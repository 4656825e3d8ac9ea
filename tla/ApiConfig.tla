----------------------------- MODULE ApiConfig -----------------------------
(***************************************************************************)
(* A tenant's API connection (business.api_config): the dashboard panel    *)
(* that edits, locks and unlocks it, in several tabs; the routes behind    *)
(* the panel; and the turns of the agent that look it up through Redis     *)
(* before they call the tenant's API.                                      *)
(*                                                                         *)
(* A request is answered in one step for each transaction of its route     *)
(* and its answer is handled later, in any order with the other answers.   *)
(* The user may type anything into the form, so a save carries any url,    *)
(* and a secret or none (the field left empty).  The other fields of the   *)
(* row follow the url's path and are left out.                             *)
(***************************************************************************)
EXTENDS Integers, Sequences, FiniteSets

CONSTANTS
    Tab,                \* dashboard tabs with the page open
    Turn,               \* turns that want to call a tool
    Url, Secret, None,
    MaxEvents           \* bound on the requests that users start, the requests
                        \* that fail and the turns that die, together

ASSUME ApiConfigAssumption ==
    /\ None \notin Url /\ None \notin Secret
    /\ MaxEvents \in Nat

VARIABLES
    row,            \* the tenant's row, or NoRow
    history,        \* the rows that were committed, the first being NoRow
    requests,       \* the tabs' requests, from their start to their answer
    panel,          \* the state of ApiConfigPanel in each tab
    cache,          \* Redis' copy of the row, or NoRow
    turn,           \* where each turn's lookups are
    eventsLeft

vars == <<row, history, requests, panel, cache, turn, eventsLeft>>

-----------------------------------------------------------------------------
(* The row, the requests and the panel. *)

NoRow == [url |-> None, secret |-> None, locked |-> FALSE]
Commit(r) == /\ row' = r
             /\ history' = Append(history, r)

\* GET does not return the secret.
View(r) == [url |-> r.url, has_secret |-> r.secret # None, locked |-> r.locked]

Fresh(p) == CHOOSE n \in 1 .. Cardinality(requests) + 1 :
              \A r \in requests : r.tab = p => r.no # n
Load(p, after) == [tab |-> p, no |-> Fresh(p), op |-> "load", after |-> after,
                   stage |-> "sent"]
Simple(p, op) == [tab |-> p, no |-> Fresh(p), op |-> op, stage |-> "sent"]

Answer(r, stage) == [tab |-> r.tab, no |-> r.no, op |-> r.op, stage |-> stage,
                     after |-> IF r.op = "load" THEN r.after ELSE "none"]
Replace(r, q) == requests' = (requests \ {r}) \cup {q}
Refuse(r) == Replace(r, Answer(r, "error"))
Loads(p) == {r \in requests : r.tab = p /\ r.op = "load"}

Init ==
    /\ row = NoRow /\ history = <<NoRow>>
    /\ requests = {[tab |-> p, no |-> 1, op |-> "load", after |-> "mount",
                    stage |-> "sent"] : p \in Tab}
    /\ panel = [p \in Tab |->
          [config |-> View(NoRow), at |-> 0, own |-> 0, disturbed |-> FALSE,
           loading |-> TRUE, editing |-> FALSE, saving |-> FALSE]]
    /\ cache = NoRow
    /\ turn = [t \in Turn |-> [stage |-> "idle"]]
    /\ eventsLeft = MaxEvents

Event == eventsLeft > 0 /\ eventsLeft' = eventsLeft - 1

-----------------------------------------------------------------------------
(* The user at the panel, which shows nothing while it loads. *)

unseen == <<row, history, cache, turn>>
isConnected(p) == panel[p].config.url # None
ReadView(p) == ~panel[p].loading /\ isConnected(p) /\ ~panel[p].editing
EditForm(p) == ~panel[p].loading /\ panel[p].editing

\* A second load of the tab may be answered before the first.
StartLoad(p, after, done, changed) ==
    /\ requests' = (requests \ done) \cup {Load(p, after)}
    /\ panel' = [panel EXCEPT ![p] =
          [changed EXCEPT !.loading = TRUE, !.disturbed = Loads(p) # {}]]

Edit(p) ==
    /\ ReadView(p) /\ ~panel[p].config.locked
    /\ panel' = [panel EXCEPT ![p].editing = TRUE]
    /\ UNCHANGED <<requests, eventsLeft, unseen>>

Lock(p) ==
    /\ ReadView(p) /\ ~panel[p].config.locked /\ panel[p].config.has_secret
    /\ Event
    /\ requests' = requests \cup {Simple(p, "lock")}
    /\ UNCHANGED <<panel, unseen>>

Unlock(p) ==
    /\ ReadView(p) /\ panel[p].config.locked
    /\ Event
    /\ requests' = requests \cup {Simple(p, "unlock")}
    /\ UNCHANGED <<panel, unseen>>

Save(p, u, s) ==
    /\ EditForm(p) /\ ~panel[p].saving
    /\ Event
    /\ requests' = requests \cup
          {[tab |-> p, no |-> Fresh(p), op |-> "save", stage |-> "check",
            url |-> u, secret |-> s]}
    /\ panel' = [panel EXCEPT ![p].saving = TRUE]
    /\ UNCHANGED unseen

\* Cancel is there during a save, too.
Cancel(p) ==
    /\ EditForm(p) /\ isConnected(p)
    /\ Event
    /\ StartLoad(p, "cancel", {}, [panel[p] EXCEPT !.editing = FALSE])
    /\ UNCHANGED unseen

\* The endpoint form below the panel: one sandbox run at a time.
Running(p) == \E r \in requests : r.tab = p /\ r.op = "sandbox"
Sandbox(p) ==
    /\ ~Running(p)
    /\ Event
    /\ requests' = requests \cup {Simple(p, "sandbox")}
    /\ UNCHANGED <<panel, unseen>>

-----------------------------------------------------------------------------
(* The routes. *)

served == <<panel, cache, turn, eventsLeft>>
Has(r, op, stage) == r.op = op /\ r.stage = stage

ServeLoad(r) ==
    /\ Has(r, "load", "sent")
    /\ Replace(r, [tab |-> r.tab, no |-> r.no, op |-> "load", after |-> r.after,
                   stage |-> "ok", view |-> View(row), at |-> Len(history)])
    /\ UNCHANGED <<row, history, served>>

\* PUT, first transaction.  The panel's payload always names base_url and
\* auth_type, so a locked row refuses it.
CheckSave_LockIgnored(r) ==
    /\ Has(r, "save", "check")
    /\ Replace(r, [tab |-> r.tab, no |-> r.no, op |-> "save", stage |-> "write",
                   url |-> r.url, secret |-> r.secret,
                   found |-> row # NoRow, at |-> Len(history)])
    /\ UNCHANGED <<row, history, served>>
CheckSave(r) ==
    /\ Has(r, "save", "check")
    /\ IF row.locked
         THEN Refuse(r)
         ELSE Replace(r, [tab |-> r.tab, no |-> r.no, op |-> "save",
                          stage |-> "write", url |-> r.url, secret |-> r.secret,
                          found |-> row # NoRow, at |-> Len(history)])
    /\ UNCHANGED <<row, history, served>>

\* A write is acknowledged with its place in the history.
Done(r, n) == Replace(r, [tab |-> r.tab, no |-> r.no, op |-> r.op,
                          stage |-> "ok", at |-> n])
\* PUT, second transaction: only the fields given, or the first row.
Updated(r) == [row EXCEPT !.url = r.url,
                          !.secret = IF r.secret = None THEN @ ELSE r.secret]

WriteSave(r) ==
    /\ Has(r, "save", "write")
    /\ \/ /\ r.found
          /\ Commit(Updated(r)) /\ Done(r, Len(history) + 1)
       \/ /\ ~r.found /\ row = NoRow
          /\ Commit([url |-> r.url, secret |-> r.secret, locked |-> FALSE])
          /\ Done(r, Len(history) + 1)
       \/ /\ ~r.found /\ row # NoRow      \* the key exists: a 500
          /\ Refuse(r) /\ UNCHANGED <<row, history>>
    /\ UNCHANGED served

Lockable == row # NoRow /\ row.secret # None

ServeLock(r) ==
    /\ Has(r, "lock", "sent")
    /\ IF Lockable
         THEN Commit([row EXCEPT !.locked = TRUE]) /\ Done(r, Len(history) + 1)
         ELSE Refuse(r) /\ UNCHANGED <<row, history>>
    /\ UNCHANGED served

ServeUnlock(r) ==
    /\ Has(r, "unlock", "sent")
    /\ Commit([row EXCEPT !.locked = FALSE]) /\ Done(r, Len(history) + 1)
    /\ UNCHANGED served

\* The sandbox needs a row, locked or not, and uses it as it is.
ServeSandbox(r) ==
    /\ Has(r, "sandbox", "sent")
    /\ IF row = NoRow
         THEN Refuse(r)
         ELSE Replace(r, [tab |-> r.tab, no |-> r.no, op |-> "sandbox",
                          stage |-> "ok", config |-> row])
    /\ UNCHANGED <<row, history, served>>

\* The network or the database fails the request, before or after its work.
Fail(r) ==
    /\ r.stage # "error" /\ Event
    /\ Refuse(r)
    /\ UNCHANGED <<row, history, panel, cache, turn>>

-----------------------------------------------------------------------------
(* The answers. *)

received == <<row, history, cache, turn, eventsLeft>>

Loaded(r) ==
    /\ Has(r, "load", "ok")
    /\ requests' = requests \ {r}
    /\ panel' = [panel EXCEPT ![r.tab] =
          [panel[r.tab] EXCEPT !.config = r.view, !.at = r.at, !.loading = FALSE,
                               !.editing = @ \/ r.view.url = None,
                               !.saving = @ /\ r.after # "save"]]
    /\ UNCHANGED received

\* After a write the panel loads again, and a save waits for that.
Saved(r) ==
    /\ r.op \in {"save", "lock", "unlock"} /\ r.stage = "ok"
    /\ StartLoad(r.tab, r.op, {r},
          [panel[r.tab] EXCEPT !.own = IF r.at > @ THEN r.at ELSE @,
                               !.editing = @ /\ r.op # "save"])
    /\ UNCHANGED received

Refused(r) ==
    /\ r.stage = "error"
    /\ requests' = requests \ {r}
    /\ panel' = [panel EXCEPT ![r.tab] =
          [panel[r.tab] EXCEPT !.disturbed = @ \/ r.op = "load",
                               !.loading = @ /\ r.op # "load",
                               !.saving = @ /\ r.op # "save" /\ r.after # "save"]]
    /\ UNCHANGED received

Tested(r) ==
    /\ Has(r, "sandbox", "ok")
    /\ requests' = requests \ {r}
    /\ UNCHANGED <<panel, received>>

-----------------------------------------------------------------------------
(* The agent's turns: the lookup that finds the tool and the one that gives *)
(* the call its configuration, each through the cache.                      *)

looking == <<row, history, requests, panel, eventsLeft>>
Idle == [stage |-> "idle"]

\* The second lookup is the one that is used, and both must be locked.
Found_LockUnchecked(t, config, again) ==
    turn' = [turn EXCEPT ![t] =
        IF again THEN [stage |-> "call", config |-> config]
        ELSE [stage |-> "again"]]
Found(t, config, again) ==
    turn' = [turn EXCEPT ![t] =
        IF ~config.locked THEN Idle
        ELSE IF again THEN [stage |-> "call", config |-> config]
        ELSE [stage |-> "again"]]

\* load_api_config up to its SELECT.
Lookup_Refreshed(t) ==
    /\ turn[t].stage \in {"idle", "again"}
    /\ LET again == turn[t].stage = "again"
           config == IF cache # NoRow THEN cache ELSE row
       IN  turn' = [turn EXCEPT ![t] =
             IF config = NoRow THEN Idle
             ELSE [stage |-> "fill", again |-> again, config |-> config]]
    /\ UNCHANGED <<cache, looking>>
Lookup(t) ==
    /\ turn[t].stage \in {"idle", "again"}
    /\ LET again == turn[t].stage = "again"
       IN  IF cache # NoRow THEN Found(t, cache, again)
           ELSE turn' = [turn EXCEPT ![t] =
                  IF row = NoRow THEN Idle
                  ELSE [stage |-> "fill", again |-> again, config |-> row]]
    /\ UNCHANGED <<cache, looking>>

Fill(t) ==
    /\ turn[t].stage = "fill"
    /\ cache' = turn[t].config
    /\ Found(t, turn[t].config, turn[t].again)
    /\ UNCHANGED looking

\* The request to the tenant's API, with the configuration in hand.
Call(t) ==
    /\ turn[t].stage = "call"
    /\ turn' = [turn EXCEPT ![t] = Idle]
    /\ UNCHANGED <<cache, looking>>

TurnDies(t) ==
    /\ turn[t] # Idle /\ Event
    /\ turn' = [turn EXCEPT ![t] = Idle]
    /\ UNCHANGED <<row, history, requests, panel, cache>>

\* Five minutes pass.  Nothing calls invalidate_cache.
Expire ==
    /\ cache # NoRow /\ cache' = NoRow
    /\ UNCHANGED <<turn, looking>>

-----------------------------------------------------------------------------

Serve(r) == \/ ServeLoad(r) \/ CheckSave(r) \/ WriteSave(r) \/ ServeLock(r)
            \/ ServeUnlock(r) \/ ServeSandbox(r)
Receive(r) == Loaded(r) \/ Saved(r) \/ Refused(r) \/ Tested(r)

Next ==
    \/ \E p \in Tab :
         \/ Edit(p) \/ Lock(p) \/ Unlock(p) \/ Cancel(p) \/ Sandbox(p)
         \/ \E u \in Url, s \in Secret \cup {None} : Save(p, u, s)
    \/ \E r \in requests : Serve(r) \/ Fail(r) \/ Receive(r)
    \/ \E t \in Turn : Lookup(t) \/ Fill(t) \/ Call(t) \/ TurnDies(t)
    \/ Expire

\* Requests are answered, a turn goes on, and the cache's time runs.
Fairness ==
    /\ WF_vars(\E r \in requests : Serve(r) \/ Receive(r))
    /\ \A t \in Turn : WF_vars(Fill(t) \/ Call(t))
    /\ WF_vars(Expire)

Spec == Init /\ [][Next]_vars /\ Fairness

-----------------------------------------------------------------------------
(* Safety. *)

Row == [url : Url \cup {None}, secret : Secret \cup {None}, locked : BOOLEAN]
Shown == [url : Url \cup {None}, has_secret : BOOLEAN, locked : BOOLEAN]

\* Every variable has its type.
TypeOK ==
    /\ row \in Row /\ history \in Seq(Row) /\ cache \in Row
    /\ \A r \in requests :
         /\ r.tab \in Tab
         /\ r.op \in {"load", "save", "lock", "unlock", "sandbox"}
         /\ r.stage \in {"sent", "check", "write", "ok", "error"}
    /\ panel \in [Tab -> [config : Shown, at : Nat, own : Nat, disturbed : BOOLEAN,
                          loading : BOOLEAN, editing : BOOLEAN, saving : BOOLEAN]]
    /\ turn \in [Turn -> {Idle, [stage |-> "again"]}
                         \cup [stage : {"fill"}, again : BOOLEAN, config : Row]
                         \cup [stage : {"call"}, config : Row]]
    /\ eventsLeft \in 0 .. MaxEvents

\* What leaves for the tenant's API is one committed row, and for a turn one
\* that was locked: neither the cache nor the two lookups mix two rows, and no
\* secret goes to a url it was not committed with.
Committed(config, locked) ==
    \E i \in 1 .. Len(history) : history[i] = config /\ (locked => config.locked)
SentAsCommitted ==
    /\ \A t \in Turn : turn[t].stage = "call" => Committed(turn[t].config, TRUE)
    /\ \A r \in requests : Has(r, "sandbox", "ok") => Committed(r.config, FALSE)

\* A locked connection has what a call needs: two tabs that create the row
\* together, or a save that leaves the secret empty, take nothing from it.
LockedIsUsable == row.locked => row.url # None /\ row.secret # None

\* When nothing is loading, a panel is no older than the last write of its own
\* that it has seen acknowledged.  What can break it is two loads under way at
\* once (Cancel during a save), answered in the other order, or a failed load.
ReadsOwnWrites ==
    \A p \in Tab : Loads(p) = {} /\ ~panel[p].disturbed
                     => panel[p].at >= panel[p].own

\* The row is usable where it is locked, used as it was committed, and shown
\* as it was written.
ConnectionInv == TypeOK /\ SentAsCommitted /\ LockedIsUsable /\ ReadsOwnWrites

(* What a step may not do. *)

Credentials(r) == <<r.url, r.secret>>
LockedAt(i) == /\ history[i].locked /\ ~history[i - 1].locked
               /\ \A j \in i .. Len(history) : history[j].locked

\* Once a connection is locked, only saves that were already past their check
\* change it: when those are over it stays what it is until an unlock.
LockHoldsOnceDrained ==
    [][\A i \in 2 .. Len(history) :
         LockedAt(i) /\ row'.locked /\ Credentials(row') # Credentials(row)
         => \E r \in requests : r.stage = "write" /\ r.at < i]_vars

(* Liveness. *)

\* When the edits are over, the cache comes to agree with the row and stays so.
CacheCatchesUp == <>[](cache \in {NoRow, row})
=============================================================================
