----------------------------- MODULE Blueprints -----------------------------
(***************************************************************************)
(* The blueprint of a business: its versions, the editor of the dashboard  *)
(* that saves whole blueprints, mutations that patch a current one, and    *)
(* the orchestrator's loader with its cache.                               *)
(*                                                                         *)
(* A save is a transaction of a few statements.  A statement sees what was *)
(* committed when it began; an UPDATE waits for rows that another          *)
(* transaction has updated and then looks at them again, an INSERT waits   *)
(* for a version that another transaction has inserted and is then         *)
(* refused.  A blueprint is the set of the edits that are in it.           *)
(***************************************************************************)
EXTENDS Integers, FiniteSets

CONSTANTS
    Editor,         \* tabs with the blueprint editor
    MaxEdits,       \* bound on saves, mutations, visits and failures, together
    MaxSaves,       \* bound on the transactions under way at a time
    MaxLoads        \* bound on the versions that turns hold at a time

ASSUME BlueprintsAssumption == {MaxEdits, MaxSaves, MaxLoads} \subseteq Nat

VARIABLES
    versions,       \* the committed rows of blueprints.versions, by version
    editor,         \* what each tab shows
    saves,          \* transactions under way, and what they do after them
    loads,          \* the versions that turns have read and not cached yet
    cache,          \* the version whose blueprint is in Redis, or 0
    excused,        \* the cache was written late, or not invalidated
    edits,          \* how many edits were made
    editsLeft

blueprintVars ==
    <<versions, editor, saves, loads, cache, excused, edits, editsLeft>>

-----------------------------------------------------------------------------
(* Versions, editors and transactions. *)

NoEditor == "none"
Latest == Cardinality(DOMAIN versions)
Current == {v \in DOMAIN versions : versions[v].current}

\* The text, as the set of the edits in it.
Shown(text) == [text |-> text, busy |-> FALSE, loading |-> FALSE]

\* A save: its number, who waits for it, its blueprint, the version it patches,
\* the rows it is to mark as not current and those it has marked, and its own
\* version.
Save(p, op, content) ==
    [no |-> edits + 1, by |-> p, op |-> op, content |-> content, stage |-> "begun",
     prior |-> 0, targets |-> {}, marked |-> {}, version |-> 0]

Edit == editsLeft > 0 /\ editsLeft' = editsLeft - 1

Begins(s) == Cardinality(saves) < MaxSaves /\ saves' = saves \cup {s}

BlueprintsInit ==
    /\ versions = [v \in {1} |-> [op |-> "create", content |-> {}, current |-> TRUE]]
    /\ editor = [p \in Editor |-> Shown({})]
    /\ saves = {} /\ loads = {} /\ cache = 0 /\ excused = FALSE /\ edits = 0
    /\ editsLeft = MaxEdits

-----------------------------------------------------------------------------
(* The editor. *)

stored == <<versions, loads, cache, excused>>

\* The user edits the text and presses Save.
PressSave(p) ==
    /\ ~editor[p].busy /\ Edit
    /\ edits' = edits + 1
    /\ LET text == editor[p].text \cup {edits + 1}
       IN  /\ editor' = [editor EXCEPT ![p].busy = TRUE, ![p].text = text]
           /\ Begins(Save(p, "create", text))
    /\ UNCHANGED stored

\* The page is loaded again, and nobody waits for its save.
Reopen(p) ==
    /\ Edit
    /\ editor' = [editor EXCEPT ![p] = [Shown({}) EXCEPT !.loading = TRUE]]
    /\ saves' = {IF s.by = p THEN [s EXCEPT !.by = NoEditor] ELSE s
                 : s \in saves}
    /\ UNCHANGED <<stored, edits>>

\* GET current reads one of the current versions, and it takes the place of the
\* text.
Load(p) ==
    /\ editor[p].loading
    /\ \E v \in Current :
         editor' = [editor EXCEPT ![p].loading = FALSE,
                                  ![p].text = versions[v].content]
    /\ UNCHANGED <<saves, stored, edits, editsLeft>>

\* Another client patches a current version.
Patch ==
    /\ Edit
    /\ edits' = edits + 1
    /\ Begins(Save(NoEditor, "mutate", {edits + 1}))
    /\ UNCHANGED <<editor, stored>>

-----------------------------------------------------------------------------
(* The blueprint service: a transaction, then the cache, then the event. *)

Goes(s, t) == saves' = (saves \ {s}) \cup
                       {u \in {t} : u.by # NoEditor \/ u.stage # "error"}
kept == <<editor, loads, edits, editsLeft>>

\* mutate() selects a current version and applies its patch to it.
Read(s) ==
    /\ s.op = "mutate" /\ s.stage = "begun"
    /\ \E v \in Current :
         Goes(s, [s EXCEPT !.prior = v, !.content = @ \cup versions[v].content,
                           !.stage = "read"])
    /\ UNCHANGED <<versions, cache, excused, kept>>

BeginMark(s) ==
    /\ s.stage = IF s.op = "mutate" THEN "read" ELSE "begun"
    /\ Goes(s, [s EXCEPT !.targets = Current, !.stage = "marking"])
    /\ UNCHANGED <<versions, cache, excused, kept>>
Mark(s) ==
    /\ s.stage = "marking"
    /\ \A t \in saves : t.marked \cap s.targets = {}
    /\ Goes(s, [s EXCEPT !.marked = s.targets \cap Current, !.targets = {},
                         !.stage = "inserting"])
    /\ UNCHANGED <<versions, cache, excused, kept>>

\* create() numbers its version after the last one, mutate() after the one it
\* patched.
Number_Last(s) == Latest + 1
Number(s) == IF s.op = "mutate" THEN s.prior + 1 ELSE Latest + 1
BeginInsert(s) ==
    /\ s.stage = "inserting"
    /\ Goes(s, [s EXCEPT !.version = Number(s), !.stage = "waiting"])
    /\ UNCHANGED <<versions, cache, excused, kept>>
Ended(s, stage) == [s EXCEPT !.stage = stage, !.content = {}, !.prior = 0,
                             !.targets = {}, !.marked = {}, !.version = 0]
Insert(s) ==
    /\ s.stage = "waiting"
    /\ ~\E t \in saves : t.stage = "committing" /\ t.version = s.version
    /\ Goes(s, IF s.version \in DOMAIN versions THEN Ended(s, "error")
               ELSE [s EXCEPT !.stage = "committing"])
    /\ UNCHANGED <<versions, cache, excused, kept>>
Committed(s) ==
    [v \in DOMAIN versions \cup {s.version} |->
       IF v = s.version
       THEN [op |-> s.op, content |-> s.content, current |-> TRUE]
       ELSE [versions[v] EXCEPT !.current = @ /\ v \notin s.marked]]
Commit(s) ==
    /\ s.stage = "committing"
    /\ versions' = Committed(s)
    /\ Goes(s, Ended(s, "committed"))
    /\ UNCHANGED <<cache, excused, kept>>

Invalidate(s) ==
    /\ s.stage = "committed"
    /\ cache' = 0 /\ excused' = FALSE
    /\ Goes(s, [s EXCEPT !.stage = "invalidated"])
    /\ UNCHANGED <<versions, kept>>

\* The service or a connection fails: what was not committed is undone.
Break(s) ==
    /\ s.stage # "error" /\ Edit
    /\ Goes(s, Ended(s, "error"))
    /\ excused' = (excused \/ s.stage = "committed")
    /\ UNCHANGED <<versions, cache, editor, loads, edits>>

\* The event is published and the save is answered.  After a success the editor
\* loads, in place of what it shows.
Reply(s) ==
    /\ s.stage \in {"invalidated", "error"}
    /\ editor' = IF s.by = NoEditor THEN editor
                 ELSE [editor EXCEPT ![s.by].busy = FALSE,
                          ![s.by].loading = @ \/ s.stage = "invalidated"]
    /\ saves' = saves \ {s}
    /\ UNCHANGED <<stored, edits, editsLeft>>

-----------------------------------------------------------------------------
(* The loader of the orchestrator. *)

loading == <<versions, editor, saves, edits, editsLeft>>

\* Any number of turns, in any replica, may have found the cache empty, some time
\* ago, and may have read one version.
ReadLatest(v) ==
    /\ v \in Current /\ \A w \in Current : w <= v
    /\ loads' = loads \cup {v} /\ Cardinality(loads') <= MaxLoads
    /\ UNCHANGED <<cache, excused, loading>>
FillCache(v) ==
    /\ cache' = v /\ loads' \in {loads, loads \ {v}}
    /\ excused' = (v # Latest)
    /\ UNCHANGED loading
Expire ==
    /\ cache # 0
    /\ cache' = 0 /\ excused' = FALSE
    /\ UNCHANGED <<loads, loading>>

-----------------------------------------------------------------------------

Proceed(s) == \/ Read(s) \/ BeginMark(s) \/ Mark(s)
              \/ BeginInsert(s) \/ Insert(s) \/ Commit(s)
              \/ Invalidate(s) \/ Reply(s)

BlueprintsNext ==
    \/ \E p \in Editor : PressSave(p) \/ Reopen(p) \/ Load(p)
    \/ Patch
    \/ \E s \in saves : Proceed(s) \/ Break(s)
    \/ \E v \in DOMAIN versions : ReadLatest(v)
    \/ \E v \in loads : FillCache(v)
    \/ Expire

\* Transactions proceed when they can.
BlueprintsFairness == WF_blueprintVars(\E s \in saves : Proceed(s))

-----------------------------------------------------------------------------
(* Safety. *)

\* Every variable has its type, and versions are numbered without a gap.
BlueprintsTypeOK ==
    /\ DOMAIN versions = 1 .. Latest
    /\ \A p \in Editor : editor[p].text \subseteq 1 .. edits
    /\ \A s \in saves : /\ s.by \in Editor \cup {NoEditor}
                        /\ s.content \subseteq 1 .. edits
    /\ loads \subseteq 1 .. Latest /\ cache \in 0 .. Latest
    /\ editsLeft \in 0 .. MaxEdits

\* However saves and mutations interleave, the last version is current, so the
\* agent, which takes the last of the current ones, has it.
LatestIsCurrent == Latest \in Current

\* A patch is applied to the version before its own: no edit that was saved
\* before it is lost to a patch.
PatchesKeepEdits ==
    \A v \in DOMAIN versions : versions[v].op = "mutate" =>
        v > 1 /\ versions[v - 1].content \subseteq versions[v].content

\* The cache holds an old blueprint only between a commit and its invalidation,
\* or if that failed, or if a load that began earlier filled the cache after it.
StaleHasCause ==
    cache \notin {0, Latest} =>
        excused \/ \E s \in saves : s.stage = "committed"

\* The versions, their current one and the cache agree.
BlueprintsInv ==
    BlueprintsTypeOK /\ LatestIsCurrent /\ PatchesKeepEdits /\ StaleHasCause

(* Liveness. *)

\* Transactions do not wait for each other for ever: an editor is free again.
SavesEnd == \A p \in Editor : editor[p].busy ~> ~editor[p].busy
=============================================================================
