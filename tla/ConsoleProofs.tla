--------------------------- MODULE ConsoleProofs ---------------------------
(***************************************************************************)
(* The console, proved for any number of tabs, rows, saves and edits.      *)
(*                                                                         *)
(* The blueprint: versions stay in a row with the last one current, a      *)
(* patch keeps the edits before it, and an old blueprint in the cache has  *)
(* a cause.  A transaction that is about to commit has the number after    *)
(* the last one, and is the only such; a mutation's content contains the   *)
(* version it patches, which no commit changes.                            *)
(*                                                                         *)
(* The lists: a call carries what its stage promises; an item that is in   *)
(* the index and not in the table, or the other way round, has a call that *)
(* is about to index it or slipped; and a page that nothing spoiled has    *)
(* its list, or waits for exactly one, that is as new as its acts.         *)
(***************************************************************************)
EXTENDS Console, FiniteSetTheorems, TLAPS

-----------------------------------------------------------------------------
(* The inductive invariant *)

Op == {"create", "mutate"}
Stage == {"begun", "read", "marking", "inserting", "waiting", "committing",
          "committed", "invalidated", "error"}
Text == SUBSET (1 .. edits)

Numbered == \E n \in Nat \ {0} : DOMAIN versions = 1 .. n

VersionInv ==
    /\ Numbered
    /\ \A v \in DOMAIN versions :
         versions[v] \in [op : Op, content : Text, current : BOOLEAN]
    /\ LatestIsCurrent /\ PatchesKeepEdits

EditorInv ==
    /\ edits \in Nat /\ editsLeft \in 0 .. MaxEdits
    /\ editor \in [Editor -> [text : Text, busy : BOOLEAN, loading : BOOLEAN]]

SaveRecord == [no : Nat, by : Editor \cup {NoEditor}, op : Op, content : Text,
               stage : Stage, prior : Nat, targets : SUBSET Nat,
               marked : SUBSET Nat, version : Nat]

\* A mutation keeps what it patches, and a number is at most the next one.
Patches(s) ==
    /\ s.prior \in DOMAIN versions
    /\ versions[s.prior].content \subseteq s.content
Sound(s) ==
    /\ s \in SaveRecord
    /\ s.op = "mutate" /\ s.stage \in {"read", "marking", "inserting", "waiting",
                                       "committing"} => Patches(s)
    /\ s.stage \in {"waiting", "committing"} =>
         /\ s.version \in 2 .. Latest + 1
         /\ s.op = "mutate" => s.version = s.prior + 1
    /\ s.stage = "committing" => s.version = Latest + 1

SavesInv ==
    /\ \A s \in saves : Sound(s)
    /\ \A s, t \in saves : s.stage = "committing" /\ t.stage = "committing" => s = t

CacheInv == loads \subseteq 1 .. Latest /\ cache \in 0 .. Latest /\ StaleHasCause

Inv == VersionInv /\ EditorInv /\ SavesInv /\ CacheInv

-----------------------------------------------------------------------------
(* Counting *)

\* The number of versions is the number of the last one.
LEMMA Counted ==
  ASSUME Numbered
  PROVE  Latest \in Nat \ {0} /\ DOMAIN versions = 1 .. Latest
<1> PICK n \in Nat \ {0} : DOMAIN versions = 1 .. n
  BY DEF Numbered
<1>1. Cardinality(1 .. n) = n
  BY FS_Interval
<1> QED
  BY <1>1 DEF Latest

LEMMA InvImplies == Inv => BlueprintsInv
<1> SUFFICES ASSUME Inv PROVE BlueprintsInv
  OBVIOUS
<1>1. DOMAIN versions = 1 .. Latest
  BY Counted DEF Inv, VersionInv
<1>2. BlueprintsTypeOK
  BY <1>1 DEF Inv, EditorInv, SavesInv, Sound, CacheInv, SaveRecord, Text,
              BlueprintsTypeOK
<1>3. LatestIsCurrent /\ PatchesKeepEdits /\ StaleHasCause
  BY DEF Inv, VersionInv, CacheInv
<1> QED
  BY <1>2, <1>3 DEF BlueprintsInv

LEMMA InitInv == ConsoleInit => Inv
<1> SUFFICES ASSUME ConsoleInit PROVE Inv
  OBVIOUS
<1> USE DEF ConsoleInit, BlueprintsInit
<1>1. DOMAIN versions = 1 .. 1 /\ Numbered
  BY DEF Numbered
<1>2. Latest = 1
  BY <1>1, Counted
<1>3. VersionInv
  BY <1>1, <1>2 DEF VersionInv, Op, Text, LatestIsCurrent, Current, PatchesKeepEdits
<1>4. EditorInv
  BY BlueprintsAssumption DEF EditorInv, Text, Shown
<1>5. SavesInv /\ CacheInv
  BY <1>2 DEF SavesInv, CacheInv, StaleHasCause
<1> QED
  BY <1>3, <1>4, <1>5 DEF Inv

-----------------------------------------------------------------------------
(* What most steps share *)

LEMMA VersionsStay ==
  ASSUME VersionInv, edits \in Nat, edits' \in {edits, edits + 1}, versions' = versions
  PROVE  VersionInv' /\ Latest' = Latest /\ Current' = Current
  BY DEF VersionInv, Numbered, Text, LatestIsCurrent, PatchesKeepEdits, Current, Latest

\* A save that is as sound as it was stays so, as texts only grow.
LEMMA SoundStays ==
  ASSUME edits \in Nat, edits' \in {edits, edits + 1}, versions' = versions,
         NEW s, Sound(s)
  PROVE  Sound(s)'
  BY DEF Sound, SaveRecord, Text, Patches, Latest

LEMMA CacheStays ==
  ASSUME CacheInv, versions' = versions, UNCHANGED <<loads, cache, excused>>,
         \A s \in saves : s.stage = "committed" =>
             \E t \in saves' : t.stage = "committed"
  PROVE  CacheInv'
  BY DEF CacheInv, StaleHasCause, Latest

\* One save takes its next form.
LEMMA SaveGoes ==
  ASSUME SavesInv, edits \in Nat, edits' = edits, versions' = versions,
         NEW s \in saves, NEW t, Goes(s, t), Sound(t),
         t.stage = "committing" => \A u \in saves : u.stage # "committing"
  PROVE  SavesInv'
<1>1. \A u \in saves' : Sound(u)'
  BY SoundStays DEF SavesInv, Goes
<1> QED
  BY <1>1 DEF SavesInv, Goes

\* A save begins, with the text of its edit.
LEMMA SaveBegins ==
  ASSUME SavesInv, edits \in Nat, edits' = edits + 1, versions' = versions,
         NEW p \in Editor \cup {NoEditor}, NEW op \in Op, NEW text, text \in Text',
         Begins(Save(p, op, text))
  PROVE  SavesInv' /\ saves \subseteq saves'
<1> PICK save : save = Save(p, op, text)
  OBVIOUS
<1>1. saves' = saves \cup {save} /\ save.stage = "begun"
  BY DEF Begins, Save
<1>2. save \in SaveRecord'
  BY DEF SaveRecord, Save, Stage
<1>3. Sound(save)'
  BY <1>1, <1>2 DEF Sound
<1>4. \A s \in saves : Sound(s)'
  BY SoundStays DEF SavesInv
<1> QED
  BY <1>1, <1>3, <1>4 DEF SavesInv

-----------------------------------------------------------------------------
(* The editor *)

LEMMA NextPressSave ==
  ASSUME Inv, NEW p \in Editor, PressSave(p)
  PROVE  Inv'
<1> USE DEF PressSave, Inv
<1> PICK text : text = editor[p].text \cup {edits + 1}
  OBVIOUS
<1>1. /\ edits \in Nat /\ edits' = edits + 1 /\ editsLeft' \in 0 .. MaxEdits
      /\ UNCHANGED <<versions, loads, cache, excused>>
  BY BlueprintsAssumption DEF EditorInv, Edit, stored
<1>2. VersionInv'
  BY <1>1, VersionsStay
<1>3. text \in Text'
  BY <1>1 DEF EditorInv, Text
<1>4. EditorInv'
  BY <1>1, <1>3 DEF EditorInv, Text
<1>5. Begins(Save(p, "create", text))
  OBVIOUS
<1>6. SavesInv' /\ saves \subseteq saves'
  BY <1>1, <1>3, <1>5, SaveBegins DEF Op
<1>7. CacheInv'
  BY <1>1, <1>6, CacheStays
<1> QED
  BY <1>2, <1>4, <1>6, <1>7

LEMMA NextPatch ==
  ASSUME Inv, Patch
  PROVE  Inv'
<1> USE DEF Patch, Inv
<1> PICK text : text = {edits + 1}
  OBVIOUS
<1>1. /\ edits \in Nat /\ edits' = edits + 1 /\ editsLeft' \in 0 .. MaxEdits
      /\ UNCHANGED <<editor, versions, loads, cache, excused>>
  BY BlueprintsAssumption DEF EditorInv, Edit, stored
<1>2. VersionInv'
  BY <1>1, VersionsStay
<1>3. text \in Text'
  BY <1>1 DEF Text
<1>4. EditorInv'
  BY <1>1 DEF EditorInv, Text
<1>5. Begins(Save(NoEditor, "mutate", text))
  OBVIOUS
<1>6. SavesInv' /\ saves \subseteq saves'
  BY <1>1, <1>3, <1>5, SaveBegins DEF Op
<1>7. CacheInv'
  BY <1>1, <1>6, CacheStays
<1> QED
  BY <1>2, <1>4, <1>6, <1>7

LEMMA NextReopen ==
  ASSUME Inv, NEW p \in Editor, Reopen(p)
  PROVE  Inv'
<1> DEFINE Left(s) == IF s.by = p THEN [s EXCEPT !.by = NoEditor] ELSE s
<1> USE DEF Reopen, Inv
<1>1. /\ edits \in Nat /\ edits' = edits /\ editsLeft' \in 0 .. MaxEdits
      /\ UNCHANGED <<versions, loads, cache, excused>>
  BY BlueprintsAssumption DEF EditorInv, Edit, stored
<1>2. VersionInv'
  BY <1>1, VersionsStay
<1>3. EditorInv'
  BY <1>1 DEF EditorInv, Text, Shown
<1>4. saves' = {Left(s) : s \in saves}
  OBVIOUS
<1>5. \A s \in saves : Sound(s) /\ Sound(Left(s)) /\ Left(s).stage = s.stage
  BY DEF SavesInv, Sound, SaveRecord, Patches
<1>6. \A s \in saves : Sound(Left(s))'
  BY <1>1, <1>5, SoundStays
<1>7. SavesInv'
  <2>1. \A u \in saves' : Sound(u)'
    BY <1>4, <1>6
  <2>2. ASSUME NEW u \in saves', NEW w \in saves',
               u.stage = "committing", w.stage = "committing"
        PROVE  u = w
    BY <1>4, <1>5, <2>2 DEF SavesInv
  <2> QED
    BY <2>1, <2>2 DEF SavesInv
<1>8. CacheInv'
  BY <1>1, <1>4, <1>5, CacheStays
<1> QED
  BY <1>2, <1>3, <1>7, <1>8

LEMMA NextLoad ==
  ASSUME Inv, NEW p \in Editor, Load(p)
  PROVE  Inv'
<1> USE DEF Load, Inv
<1>1. UNCHANGED <<versions, saves, loads, cache, excused, edits, editsLeft>>
  BY DEF stored
<1>2. VersionInv'
  BY <1>1, VersionsStay DEF EditorInv
<1>3. EditorInv'
  <2> PICK v \in Current :
         editor' = [editor EXCEPT ![p].loading = FALSE, ![p].text = versions[v].content]
    OBVIOUS
  <2>1. versions[v].content \in Text
    BY DEF Current, VersionInv
  <2>2. Text' = Text
    BY <1>1 DEF Text
  <2> DEFINE new == [editor[p] EXCEPT !.loading = FALSE, !.text = versions[v].content]
  <2>3. editor' = [editor EXCEPT ![p] = new]
    BY DEF EditorInv
  <2>4. new \in [text : Text, busy : BOOLEAN, loading : BOOLEAN]
    BY <2>1 DEF EditorInv
  <2>5. editor' \in [Editor -> [text : Text, busy : BOOLEAN, loading : BOOLEAN]]
    BY <2>3, <2>4 DEF EditorInv
  <2> QED
    BY <1>1, <2>2, <2>5 DEF EditorInv
<1>4. SavesInv'
  BY <1>1 DEF SavesInv, Sound, SaveRecord, Text, Patches, Latest
<1>5. CacheInv'
  BY <1>1, CacheStays
<1> QED
  BY <1>2, <1>3, <1>4, <1>5

-----------------------------------------------------------------------------
(* The service *)

\* The steps before a commit change the save alone.
LEMMA BeforeCommit ==
  ASSUME Inv, NEW s \in saves, NEW t, Goes(s, t), Sound(t), t.stage # "committed",
         s.stage # "committed", UNCHANGED <<versions, cache, excused, kept>>,
         t.stage = "committing" => \A u \in saves : u.stage # "committing"
  PROVE  Inv'
<1> USE DEF Inv
<1>1. UNCHANGED <<versions, cache, excused, editor, loads, edits, editsLeft>>
  BY DEF kept
<1>2. VersionInv'
  BY <1>1, VersionsStay DEF EditorInv
<1>3. EditorInv'
  BY <1>1 DEF EditorInv, Text
<1>4. SavesInv'
  BY <1>1, SaveGoes DEF EditorInv
<1>5. \A u \in saves : u.stage = "committed" => u \in saves'
  BY DEF Goes
<1>6. CacheInv'
  BY <1>1, <1>5, CacheStays
<1> QED
  BY <1>2, <1>3, <1>4, <1>6

LEMMA NextRead ==
  ASSUME Inv, NEW s \in saves, Read(s)
  PROVE  Inv'
<1> PICK v \in Current :
       Goes(s, [s EXCEPT !.prior = v, !.content = @ \cup versions[v].content,
                         !.stage = "read"])
  BY DEF Read
<1> PICK t : t = [s EXCEPT !.prior = v, !.content = @ \cup versions[v].content,
                           !.stage = "read"]
  OBVIOUS
<1>1. Sound(s) /\ v \in DOMAIN versions /\ v \in Nat /\ versions[v].content \in Text
  BY Counted DEF Inv, VersionInv, SavesInv, Current
<1>2. t \in SaveRecord
  BY <1>1 DEF Sound, SaveRecord, Stage, Text
<1>3. Sound(t) /\ t.stage = "read"
  BY <1>1, <1>2 DEF Sound, SaveRecord, Patches
<1> QED
  BY <1>3, BeforeCommit DEF Read

LEMMA NextBeginMark ==
  ASSUME Inv, NEW s \in saves, BeginMark(s)
  PROVE  Inv'
<1> PICK t : t = [s EXCEPT !.targets = Current, !.stage = "marking"]
  OBVIOUS
<1>1. Sound(s) /\ Current \subseteq Nat
  BY Counted DEF Inv, VersionInv, SavesInv, Current
<1>2. t \in SaveRecord
  BY <1>1 DEF Sound, SaveRecord, Stage
<1>3. Sound(t) /\ t.stage = "marking"
  BY <1>1, <1>2 DEF BeginMark, Sound, SaveRecord, Patches, Op
<1> QED
  BY <1>3, BeforeCommit DEF BeginMark

LEMMA NextMark ==
  ASSUME Inv, NEW s \in saves, Mark(s)
  PROVE  Inv'
<1> PICK t : t = [s EXCEPT !.marked = s.targets \cap Current, !.targets = {},
                           !.stage = "inserting"]
  OBVIOUS
<1>1. Sound(s)
  BY DEF Inv, SavesInv
<1>2. t \in SaveRecord
  BY <1>1 DEF Sound, SaveRecord, Stage
<1>3. Sound(t) /\ t.stage = "inserting"
  BY <1>1, <1>2 DEF Mark, Sound, SaveRecord, Patches
<1> QED
  BY <1>3, BeforeCommit DEF Mark

LEMMA NextBeginInsert ==
  ASSUME Inv, NEW s \in saves, BeginInsert(s)
  PROVE  Inv'
<1> PICK t : t = [s EXCEPT !.version = Number(s), !.stage = "waiting"]
  OBVIOUS
<1>1. Sound(s) /\ Latest \in Nat \ {0} /\ DOMAIN versions = 1 .. Latest
  BY Counted DEF Inv, VersionInv, SavesInv
<1>2. s.op = "mutate" => s.prior \in 1 .. Latest
  BY <1>1 DEF BeginInsert, Sound, Patches
<1>3. Number(s) \in 2 .. Latest + 1 /\ (s.op = "mutate" => Number(s) = s.prior + 1)
  BY <1>1, <1>2 DEF Number
<1>4. Number(s) \in Nat
  BY <1>1, <1>3
<1>5. t \in SaveRecord
  BY <1>1, <1>4 DEF Sound, SaveRecord, Stage
<1>6. Sound(t) /\ t.stage = "waiting"
  BY <1>1, <1>3, <1>5 DEF BeginInsert, Sound, SaveRecord, Patches
<1> QED
  BY <1>6, BeforeCommit DEF BeginInsert

\* An end before or after the commit.
LEMMA EndedSound ==
  ASSUME NEW s, Sound(s), NEW stage \in {"committed", "error"}
  PROVE  Sound(Ended(s, stage)) /\ Ended(s, stage).stage = stage
<1> PICK t : t = Ended(s, stage)
  OBVIOUS
<1>1. t \in SaveRecord /\ t.stage = stage
  BY DEF Sound, SaveRecord, Stage, Ended, Text
<1> QED
  BY <1>1 DEF Sound

\* The insert is refused when its version is there, and waits while it may come.
LEMMA NextInsert ==
  ASSUME Inv, NEW s \in saves, Insert(s)
  PROVE  Inv'
<1>1. Sound(s) /\ Latest \in Nat \ {0} /\ DOMAIN versions = 1 .. Latest
  BY Counted DEF Inv, VersionInv, SavesInv
<1>2. CASE s.version \in DOMAIN versions
  BY <1>1, <1>2, EndedSound, BeforeCommit DEF Insert
<1>3. CASE s.version \notin DOMAIN versions
  <2> PICK t : t = [s EXCEPT !.stage = "committing"]
    OBVIOUS
  <2>1. s.version = Latest + 1
    BY <1>1, <1>3 DEF Insert, Sound
  <2>2. \A u \in saves : u.stage # "committing"
    BY <2>1 DEF Insert, Inv, SavesInv, Sound
  <2>3. t \in SaveRecord
    BY <1>1 DEF Sound, SaveRecord, Stage
  <2>4. Sound(t) /\ t.stage = "committing"
    BY <1>1, <2>1, <2>3 DEF Insert, Sound, SaveRecord, Patches
  <2> QED
    BY <1>3, <2>2, <2>4, BeforeCommit DEF Insert
<1> QED
  BY <1>2, <1>3

\* The version that is committed is the next one, holds what it patches, and
\* leaves the texts of the others as they are.
LEMMA NextCommit ==
  ASSUME Inv, NEW s \in saves, Commit(s)
  PROVE  Inv'
<1> USE DEF Inv
<1> PICK n \in Nat \ {0} : DOMAIN versions = 1 .. n /\ Latest = n
  BY Counted DEF VersionInv
<1> PICK t : t = Ended(s, "committed")
  OBVIOUS
<1>1. /\ Sound(s) /\ s \in SaveRecord /\ s.version = n + 1
      /\ s.op = "mutate" => s.prior \in 1 .. n /\ s.version = s.prior + 1
                            /\ versions[s.prior].content \subseteq s.content
  BY DEF SavesInv, Commit, Sound, Patches
<1>2. /\ versions' = Committed(s) /\ Goes(s, t)
      /\ UNCHANGED <<cache, excused, editor, loads, edits, editsLeft>>
  BY DEF Commit, kept
<1>3. /\ DOMAIN versions' = 1 .. n + 1
      /\ \A v \in 1 .. n : /\ versions'[v].op = versions[v].op
                           /\ versions'[v].content = versions[v].content
                           /\ versions'[v].current \in BOOLEAN
                           /\ versions'[v] \in [op : Op, content : Text,
                                                current : BOOLEAN]
      /\ versions'[n + 1] = [op |-> s.op, content |-> s.content, current |-> TRUE]
  <2>1. DOMAIN versions' = 1 .. n + 1
    BY <1>1, <1>2 DEF Committed
  <2>2. versions'[n + 1] = [op |-> s.op, content |-> s.content, current |-> TRUE]
    BY <1>1, <1>2 DEF Committed
  <2>3. ASSUME NEW v \in 1 .. n
        PROVE  /\ versions'[v].op = versions[v].op
               /\ versions'[v].content = versions[v].content
               /\ versions'[v].current \in BOOLEAN
               /\ versions'[v] \in [op : Op, content : Text, current : BOOLEAN]
    <3>1. versions[v] \in [op : Op, content : Text, current : BOOLEAN]
      BY DEF VersionInv
    <3>2. versions'[v] = [versions[v] EXCEPT !.current = @ /\ v \notin s.marked]
      BY <1>1, <1>2 DEF Committed
    <3> QED
      BY <3>1, <3>2
  <2> QED
    BY <2>1, <2>2, <2>3
<1>4. Numbered' /\ Latest' = n + 1
  <2>1. Numbered'
    BY <1>3 DEF Numbered
  <2>2. Cardinality(1 .. n + 1) = n + 1
    BY FS_Interval
  <2> QED
    BY <1>3, <2>1, <2>2 DEF Latest
<1>5. LatestIsCurrent'
  BY <1>3, <1>4 DEF LatestIsCurrent, Current
<1>6. PatchesKeepEdits'
  <2> SUFFICES ASSUME NEW v \in 1 .. n + 1, versions'[v].op = "mutate"
               PROVE  v > 1 /\ versions'[v - 1].content \subseteq versions'[v].content
    BY <1>3 DEF PatchesKeepEdits
  <2>1. CASE v = n + 1
    BY <1>1, <1>3, <2>1
  <2>2. CASE v \in 1 .. n
    BY <1>3, <2>2 DEF VersionInv, PatchesKeepEdits
  <2> QED
    BY <2>1, <2>2
<1>7. VersionInv'
  <2>1. \A v \in 1 .. n + 1 :
          versions'[v] \in [op : Op, content : Text, current : BOOLEAN]
    <3>1. [op |-> s.op, content |-> s.content, current |-> TRUE]
            \in [op : Op, content : Text, current : BOOLEAN]
      BY <1>1 DEF SaveRecord
    <3>2. versions'[n + 1] \in [op : Op, content : Text, current : BOOLEAN]
      BY <1>3, <3>1
    <3>3. \A v \in 1 .. n + 1 : v = n + 1 \/ v \in 1 .. n
      OBVIOUS
    <3> QED
      BY <1>3, <3>2, <3>3
  <2> QED
    BY <1>2, <1>3, <1>4, <1>5, <1>6, <2>1 DEF VersionInv, Text
<1>8. EditorInv'
  BY <1>2 DEF EditorInv, Text
<1>9. SavesInv'
  <2>1. t \in SaveRecord /\ t.stage = "committed" /\ saves' = (saves \ {s}) \cup {t}
    BY <1>1, <1>2, EndedSound DEF Sound, Goes
  <2>2. Sound(t)'
    BY <1>2, <2>1 DEF Sound, SaveRecord, Text
  <2>3. ASSUME NEW u \in saves, u # s PROVE Sound(u)'
    <3>1. Sound(u) /\ u.stage # "committing"
      BY <2>3 DEF SavesInv, Commit
    <3>2. Patches(u) => Patches(u)'
      BY <1>3 DEF Patches
    <3> QED
      BY <1>2, <1>4, <3>1, <3>2 DEF Sound, SaveRecord, Text
  <2> QED
    BY <2>1, <2>2, <2>3 DEF SavesInv, Commit
<1>10. CacheInv'
  BY <1>2, <1>4, EndedSound, <1>1 DEF CacheInv, StaleHasCause, Goes
<1> QED
  BY <1>7, <1>8, <1>9, <1>10

LEMMA NextInvalidate ==
  ASSUME Inv, NEW s \in saves, Invalidate(s)
  PROVE  Inv'
<1> USE DEF Inv
<1> PICK t : t = [s EXCEPT !.stage = "invalidated"]
  OBVIOUS
<1>1. /\ UNCHANGED <<versions, editor, loads, edits, editsLeft>>
      /\ cache' = 0 /\ Goes(s, t)
  BY DEF Invalidate, kept
<1>2. Sound(t) /\ t.stage = "invalidated"
  BY DEF SavesInv, Sound, SaveRecord, Stage, Invalidate
<1>3. SavesInv'
  BY <1>1, <1>2, SaveGoes DEF EditorInv
<1>4. VersionInv' /\ Latest' = Latest
  BY <1>1, VersionsStay DEF EditorInv
<1>5. EditorInv'
  BY <1>1 DEF EditorInv, Text
<1>6. CacheInv'
  BY <1>1, <1>4, Counted DEF CacheInv, StaleHasCause, VersionInv
<1> QED
  BY <1>3, <1>4, <1>5, <1>6

LEMMA NextBreak ==
  ASSUME Inv, NEW s \in saves, Break(s)
  PROVE  Inv'
<1> USE DEF Inv
<1> PICK t : t = Ended(s, "error")
  OBVIOUS
<1>1. /\ UNCHANGED <<versions, cache, editor, loads, edits>> /\ Goes(s, t)
      /\ editsLeft' \in 0 .. MaxEdits
      /\ excused' = (excused \/ s.stage = "committed")
  BY BlueprintsAssumption DEF Break, EditorInv, Edit
<1>2. Sound(t) /\ t.stage = "error"
  BY EndedSound DEF SavesInv
<1>3. SavesInv'
  BY <1>1, <1>2, SaveGoes DEF EditorInv
<1>4. VersionInv' /\ Latest' = Latest
  BY <1>1, VersionsStay DEF EditorInv
<1>5. EditorInv'
  BY <1>1 DEF EditorInv, Text
<1>6. CacheInv'
  BY <1>1, <1>4 DEF CacheInv, StaleHasCause, Goes
<1> QED
  BY <1>3, <1>4, <1>5, <1>6

LEMMA NextReply ==
  ASSUME Inv, NEW s \in saves, Reply(s)
  PROVE  Inv'
<1> USE DEF Inv
<1>1. /\ UNCHANGED <<versions, cache, excused, loads, edits, editsLeft>>
      /\ saves' = saves \ {s} /\ s.stage # "committed"
  BY DEF Reply, stored
<1>2. s.by \in Editor \cup {NoEditor}
  BY DEF SavesInv, Sound, SaveRecord
<1>3. VersionInv'
  BY <1>1, VersionsStay DEF EditorInv
<1>4. EditorInv'
  <2>1. Text' = Text
    BY <1>1 DEF Text
  <2>2. editor' \in [Editor -> [text : Text, busy : BOOLEAN, loading : BOOLEAN]]
    BY <1>2 DEF Reply, EditorInv
  <2> QED
    BY <1>1, <2>1, <2>2 DEF EditorInv
<1>5. SavesInv'
  BY <1>1, SoundStays DEF SavesInv, EditorInv
<1>6. CacheInv'
  BY <1>1, CacheStays
<1> QED
  BY <1>3, <1>4, <1>5, <1>6

-----------------------------------------------------------------------------
(* The loader *)

LEMMA NextLoader ==
  ASSUME Inv, (\E v \in DOMAIN versions : ReadLatest(v)) \/ (\E v \in loads : FillCache(v)) \/ Expire
  PROVE  Inv'
<1> USE DEF Inv
<1>1. UNCHANGED <<versions, editor, saves, edits, editsLeft>>
  BY DEF ReadLatest, FillCache, Expire, loading
<1>2. VersionInv' /\ Latest' = Latest /\ Latest \in Nat /\ DOMAIN versions = 1 .. Latest
  BY <1>1, VersionsStay, Counted DEF EditorInv, VersionInv
<1>3. EditorInv'
  BY <1>1 DEF EditorInv, Text
<1>4. SavesInv'
  BY <1>1 DEF SavesInv, Sound, SaveRecord, Text, Patches, Latest
<1>5. CacheInv'
  <2>1. CASE \E v \in DOMAIN versions : ReadLatest(v)
    <3>1. cache' = cache /\ excused' = excused /\ loads' \subseteq 1 .. Latest
      BY <1>2, <2>1 DEF ReadLatest, CacheInv
    <3> QED
      BY <1>1, <1>2, <3>1 DEF CacheInv, StaleHasCause
  <2>2. CASE \E v \in loads : FillCache(v)
    <3>1. cache' \in 0 .. Latest /\ loads' \subseteq 1 .. Latest
      BY <1>2, <2>2 DEF FillCache, CacheInv
    <3>2. cache' # Latest => excused'
      BY <2>2 DEF FillCache
    <3> QED
      BY <1>2, <3>1, <3>2 DEF CacheInv, StaleHasCause
  <2>3. CASE Expire
    BY <1>2, <2>3 DEF Expire, CacheInv, StaleHasCause
  <2> QED
    BY <2>1, <2>2, <2>3
<1> QED
  BY <1>2, <1>3, <1>4, <1>5

-----------------------------------------------------------------------------
(* The theorem *)

LEMMA NextInv == Inv /\ [ConsoleNext]_consoleVars => Inv'
<1> SUFFICES ASSUME Inv, [ConsoleNext]_consoleVars PROVE Inv'
  OBVIOUS
<1>1. CASE UNCHANGED blueprintVars
  BY <1>1 DEF blueprintVars, Inv, VersionInv, Numbered, EditorInv, SavesInv, CacheInv,
              Sound, SaveRecord, Patches, Text, Latest, Current, LatestIsCurrent,
              PatchesKeepEdits, StaleHasCause
<1>2. CASE BlueprintsNext
  <2>1. CASE \E p \in Editor : PressSave(p) \/ Reopen(p) \/ Load(p)
    BY <2>1, NextPressSave, NextReopen, NextLoad
  <2>2. CASE Patch
    BY <2>2, NextPatch
  <2>3. CASE \E s \in saves : Proceed(s) \/ Break(s)
    BY <2>3, NextRead, NextBeginMark, NextMark, NextBeginInsert, NextInsert, NextCommit,
       NextInvalidate, NextReply, NextBreak DEF Proceed
  <2>4. CASE (\E v \in DOMAIN versions : ReadLatest(v)) \/ (\E v \in loads : FillCache(v)) \/ Expire
    BY <2>4, NextLoader
  <2> QED
    BY <1>2, <2>1, <2>2, <2>3, <2>4 DEF BlueprintsNext
<1> QED
  BY <1>1, <1>2 DEF ConsoleNext, consoleVars

\* However many tabs save and however their transactions interleave and break:
\* the last version is current, a patch keeps the edits before it, and an old
\* blueprint in the cache has a cause (blueprint-service main.py:72-175,
\* blueprint_loader.py:31-59).
THEOREM BlueprintsInvariant == Spec => []BlueprintsInv
  BY InitInv, NextInv, InvImplies, PTL DEF Spec

-----------------------------------------------------------------------------
(* The lists: what the table, the calls and the tabs are like at every step. *)

ViewRecord == [loading : BOOLEAN, hidden : BOOLEAN, rows : [Thing -> Status],
               form : {"closed", "open", "busy"}, asOf : Nat, known : Nat,
               spoiled : BOOLEAN, lost : BOOLEAN]
TabsInv ==
    /\ page \in Page /\ rows \in [Thing -> Status] /\ writes \in Nat
    /\ found \subseteq Thing /\ slipped \subseteq Thing
    /\ view \in [Tab -> ViewRecord] /\ clicksLeft \in 0 .. MaxClicks

\* What a call carries at its stage.
CallOK(c) ==
    /\ {"tab", "op", "stage"} \subseteq DOMAIN c
    /\ c.tab \in Tab \cup {NoTab} /\ c.op \in {"list", "act", "add"}
    /\ c.stage \in {"sent", "checked", "indexing", "ok", "error"}
    /\ c.op = "list" => c.stage \in {"sent", "ok", "error"}
    /\ c.op = "add" => "form" \in DOMAIN c /\ c.form \in BOOLEAN
    /\ c.op = "act" /\ c.stage \notin {"ok", "error"} =>
         "to" \in DOMAIN c /\ c.to \in Status
    /\ Writes(c) => "thing" \in DOMAIN c /\ c.thing \in Thing
    /\ c.stage = "checked" => /\ c.op = "act" /\ page = "orders"
                              /\ "seen" \in DOMAIN c /\ c.to \in NextStatus(c.seen)
    /\ c.stage = "indexing" => page = "catalog"
    /\ Has(c, "list", "ok") => {"at", "rows"} \subseteq DOMAIN c
                               /\ c.rows \in [Thing -> Status]
    /\ (c.op # "list" \/ c.stage = "ok") /\ c.stage \in {"ok", "error"} =>
         "at" \in DOMAIN c /\ c.at \in 0 .. writes
CallsInv == \A c \in calls : CallOK(c)

\* A form is busy with a call that knows it.
FormsInv == \A p \in Tab : view[p].form = "busy" =>
              \E c \in calls : c.op = "add" /\ c.tab = p /\ c.form

\* The index differs from the table only where a call will see to it, or a thing
\* slipped; an item that is being indexed is active, one that is being taken out
\* is not, one that is to be added is not there, and only one call adds it.
IndexInv ==
    page = "catalog" =>
      /\ \A t \in Thing \ slipped :
           \/ t \in found <=> rows[t] = "active"
           \/ \E c \in calls : c.stage = "indexing" /\ c.thing = t
      /\ \A c \in calls :
           c.stage = "indexing" /\ c.thing \notin slipped =>
             rows[c.thing] = IF c.op = "add" THEN "active" ELSE "inactive"
      /\ \A c \in calls : Has(c, "add", "sent") => rows[c.thing] = "none"
      /\ \A c, d \in calls :
           c.op = "add" /\ Writes(c) /\ d.op = "add" /\ Writes(d) /\ c.thing = d.thing
             => c = d

\* A page that nothing spoiled shows a list as new as its acts, or waits for one
\* that is, or will be.
Timely(p) ==
    /\ view[p].known <= writes
    /\ ~view[p].spoiled =>
         \/ Lists(p) = {} /\ view[p].asOf >= view[p].known
         \/ \E l \in calls : /\ Lists(p) = {l}
                             /\ l.stage = "ok" => l.at >= view[p].known
TimelyInv == \A p \in Tab : Timely(p)
ListsInd == TabsInv /\ CallsInv /\ FormsInv /\ IndexInv /\ TimelyInv

-----------------------------------------------------------------------------
(* Calls *)

\* The same call, for a tab that may have gone and a form that may be closed.
Same(c, d) ==
    /\ DOMAIN d = DOMAIN c
    /\ \A x \in DOMAIN c \ {"tab", "form"} : d[x] = c[x]
    /\ d.tab \in {c.tab, NoTab}
    /\ c.op = "add" => d.form \in {c.form, FALSE}

\* The writes only become more.
Quiet == page' = page /\ writes' \in Nat /\ writes <= writes'

LEMMA CallStays ==
  ASSUME NEW c, CallOK(c), TabsInv, Quiet
  PROVE  CallOK(c)'
<1>1. writes \in Nat
  BY DEF TabsInv
<1>2. ASSUME "at" \in DOMAIN c, c.at \in 0 .. writes PROVE c.at \in 0 .. writes'
  BY <1>1, <1>2 DEF Quiet
<1> QED
  BY <1>2 DEF CallOK, Quiet, Writes, Has

LEMMA SameFields ==
  ASSUME NEW c, NEW d, CallOK(c), Same(c, d)
  PROVE  /\ d.op = c.op /\ d.stage = c.stage /\ DOMAIN d = DOMAIN c
         /\ (Writes(d) <=> Writes(c)) /\ "tab" \in DOMAIN d
         /\ Writes(c) => d.thing = c.thing
  BY DEF CallOK, Same, Writes

LEMMA SameOK ==
  ASSUME NEW c, NEW d, CallOK(c), Same(c, d)
  PROVE  CallOK(d)
<1>1. /\ d.op = c.op /\ d.stage = c.stage /\ DOMAIN d = DOMAIN c
      /\ Writes(d) <=> Writes(c)
      /\ Writes(c) => d.thing = c.thing
  BY SameFields
<1>2. d.tab \in Tab \cup {NoTab}
  BY DEF Same, CallOK
<1>3. c.op = "add" => d.form \in BOOLEAN
  BY DEF Same, CallOK
<1>4. /\ "to" \in DOMAIN c => d.to = c.to
      /\ "seen" \in DOMAIN c => d.seen = c.seen
      /\ "at" \in DOMAIN c => d.at = c.at
      /\ "rows" \in DOMAIN c => d.rows = c.rows
  BY DEF Same
<1>5. /\ d.op = "act" /\ d.stage \notin {"ok", "error"} =>
           "to" \in DOMAIN d /\ d.to \in Status
      /\ d.stage = "checked" => /\ d.op = "act" /\ page = "orders"
                                /\ "seen" \in DOMAIN d /\ d.to \in NextStatus(d.seen)
  BY <1>1, <1>4 DEF CallOK
<1>6. /\ Has(d, "list", "ok") => {"at", "rows"} \subseteq DOMAIN d
                                 /\ d.rows \in [Thing -> Status]
      /\ (d.op # "list" \/ d.stage = "ok") /\ d.stage \in {"ok", "error"} =>
           "at" \in DOMAIN d /\ d.at \in 0 .. writes
  BY <1>1, <1>4 DEF CallOK, Has
<1>7. /\ {"tab", "op", "stage"} \subseteq DOMAIN d
      /\ d.op \in {"list", "act", "add"}
      /\ d.stage \in {"sent", "checked", "indexing", "ok", "error"}
      /\ d.op = "list" => d.stage \in {"sent", "ok", "error"}
      /\ d.stage = "indexing" => page = "catalog"
  BY <1>1 DEF CallOK
<1>8. d.op = "add" => "form" \in DOMAIN d /\ d.form \in BOOLEAN
  BY <1>1, <1>3 DEF CallOK
<1>9. Writes(d) => "thing" \in DOMAIN d /\ d.thing \in Thing
  BY <1>1 DEF CallOK
<1> QED
  BY <1>2, <1>5, <1>6, <1>7, <1>8, <1>9 DEF CallOK

LEMMA NewCalls ==
  ASSUME NEW p \in Tab, page \in Page
  PROVE  /\ CallOK(ListCall(p)) /\ ListCall(p).op = "list"
         /\ ListCall(p).tab = p /\ ListCall(p).stage = "sent"
         /\ \A t \in Thing, to \in Status :
              LET q == ActCall(p, t, to)
              IN  /\ CallOK(q) /\ q.op = "act" /\ q.stage = "sent" /\ q.tab = p
                  /\ q.thing = t /\ q.to = to
         /\ \A t \in Thing :
              LET q == FormCall(p, t)
              IN  /\ CallOK(q) /\ q.op = "add" /\ q.stage = "sent" /\ q.tab = p
                  /\ q.thing = t /\ q.form = TRUE
<1>1. PICK q : q = ListCall(p)
  OBVIOUS
<1>2. /\ DOMAIN q = {"tab", "no", "op", "stage"} /\ q.op = "list" /\ q.tab = p
      /\ q.stage = "sent"
  BY <1>1 DEF ListCall
<1>3. CallOK(q)
  BY <1>2 DEF CallOK, Has, Writes
<1>4. ASSUME NEW t \in Thing, NEW to \in Status
      PROVE  LET r == ActCall(p, t, to)
             IN  /\ CallOK(r) /\ r.op = "act" /\ r.stage = "sent" /\ r.tab = p
                 /\ r.thing = t /\ r.to = to
  <2>1. PICK r : r = ActCall(p, t, to)
    OBVIOUS
  <2>2. /\ DOMAIN r = {"tab", "no", "op", "stage", "thing", "to"} /\ r.op = "act"
        /\ r.tab = p /\ r.stage = "sent" /\ r.thing = t /\ r.to = to
    BY <2>1 DEF ActCall
  <2>3. CallOK(r)
    BY <2>2 DEF CallOK, Has, Writes
  <2> QED
    BY <2>1, <2>2, <2>3
<1>5. ASSUME NEW t \in Thing
      PROVE  LET r == FormCall(p, t)
             IN  /\ CallOK(r) /\ r.op = "add" /\ r.stage = "sent" /\ r.tab = p
                 /\ r.thing = t /\ r.form = TRUE
  <2>1. PICK r : r = FormCall(p, t)
    OBVIOUS
  <2>2. /\ DOMAIN r = {"tab", "no", "op", "stage", "thing", "form"} /\ r.op = "add"
        /\ r.tab = p /\ r.stage = "sent" /\ r.thing = t /\ r.form = TRUE
    BY <2>1 DEF FormCall
  <2>3. CallOK(r)
    BY <2>2 DEF CallOK, Has, Writes
  <2> QED
    BY <2>1, <2>2, <2>3
<1> QED
  BY <1>1, <1>2, <1>3, <1>4, <1>5

\* The calls of a tab that reloads, or forgets its form, or is lost.
LEMMA Relabelled ==
  ASSUME NEW c, CallOK(c)
  PROVE  /\ Same(c, c) /\ Same(c, [c EXCEPT !.tab = NoTab])
         /\ c.op = "add" => Same(c, [c EXCEPT !.form = FALSE])
         /\ [c EXCEPT !.tab = NoTab].tab = NoTab
         /\ c.op = "add" => /\ [c EXCEPT !.form = FALSE].form = FALSE
                            /\ [c EXCEPT !.form = FALSE].tab = c.tab
<1>1. "tab" \in DOMAIN c /\ (c.op = "add" => "form" \in DOMAIN c)
  BY DEF CallOK
<1>2. PICK d : d = [c EXCEPT !.tab = NoTab]
  OBVIOUS
<1>3. /\ DOMAIN d = DOMAIN c /\ d.tab = NoTab
      /\ "form" \in DOMAIN c => d.form = c.form
  BY <1>1, <1>2
<1>4. \A x \in DOMAIN c \ {"tab", "form"} : d[x] = c[x]
  BY <1>2
<1>5. Same(c, d)
  BY <1>1, <1>3, <1>4 DEF Same
<1>6. ASSUME c.op = "add"
      PROVE  /\ Same(c, [c EXCEPT !.form = FALSE])
             /\ [c EXCEPT !.form = FALSE].form = FALSE
             /\ [c EXCEPT !.form = FALSE].tab = c.tab
  <2>1. PICK e : e = [c EXCEPT !.form = FALSE]
    OBVIOUS
  <2>2. DOMAIN e = DOMAIN c /\ e.form = FALSE /\ e.tab = c.tab
    BY <1>1, <1>6, <2>1
  <2>3. \A x \in DOMAIN c \ {"tab", "form"} : e[x] = c[x]
    BY <2>1
  <2> QED
    BY <2>1, <2>2, <2>3 DEF Same
<1>7. Same(c, c)
  BY DEF Same
<1> QED
  BY <1>2, <1>3, <1>5, <1>6, <1>7

LEMMA AnsweredOK ==
  ASSUME NEW c, CallOK(c), TabsInv, Quiet, NEW stage \in {"ok", "error"},
         c.op # "list" \/ stage = "error"
  PROVE  /\ \A d : d = Answered(c, stage) => CallOK(d)'
         /\ Answered(c, stage).op = c.op
         /\ Answered(c, stage).tab = c.tab /\ Answered(c, stage).stage = stage
         /\ c.op = "add" => Answered(c, stage).form = c.form
         /\ Answered(c, stage).at = writes'
<1>1. PICK d : d = Answered(c, stage)
  OBVIOUS
<1>2. CASE c.op = "add"
  <2>1. d = [tab |-> c.tab, no |-> c.no, op |-> "add", stage |-> stage,
             at |-> writes', form |-> c.form]
    BY <1>1, <1>2 DEF Answered
  <2>2. /\ DOMAIN d = {"tab", "no", "op", "stage", "at", "form"} /\ d.op = "add"
        /\ d.tab = c.tab /\ d.stage = stage /\ d.at = writes' /\ d.form = c.form
    BY <2>1
  <2>3. CallOK(d)'
    BY <1>2, <2>2 DEF CallOK, Writes, Has, Quiet
  <2> QED
    BY <1>1, <1>2, <2>2, <2>3
<1>3. CASE c.op # "add"
  <2>1. d = [tab |-> c.tab, no |-> c.no, op |-> c.op, stage |-> stage, at |-> writes']
    BY <1>1, <1>3 DEF Answered
  <2>2. /\ DOMAIN d = {"tab", "no", "op", "stage", "at"} /\ d.op = c.op
        /\ d.tab = c.tab /\ d.stage = stage /\ d.at = writes'
    BY <2>1
  <2>3. CallOK(d)'
    BY <1>3, <2>2 DEF CallOK, Writes, Has, Quiet
  <2> QED
    BY <1>1, <1>3, <2>2, <2>3
<1> QED
  BY <1>2, <1>3

-----------------------------------------------------------------------------
(* The table and the tabs *)

\* What a tab becomes when it reloads, and when a list fails.
LEMMA ViewReloads ==
  ASSUME view \in [Tab -> ViewRecord], NEW p \in Tab, NEW at \in Nat
  PROVE  LET k == IF at > view[p].known THEN at ELSE view[p].known
             s == view[p].spoiled \/ Lists(p) # {}
         IN  /\ [view[p] EXCEPT !.loading = TRUE, !.lost = FALSE, !.known = k,
                                !.spoiled = s] \in ViewRecord
             /\ [view[p] EXCEPT !.loading = TRUE, !.form = "closed", !.lost = FALSE,
                                !.known = k, !.spoiled = s] \in ViewRecord
<1> DEFINE k == IF at > view[p].known THEN at ELSE view[p].known
           s == view[p].spoiled \/ Lists(p) # {}
<1>1. k \in Nat /\ s \in BOOLEAN
  BY DEF ViewRecord
<1> HIDE DEF k, s
<1>2. /\ [view[p] EXCEPT !.loading = TRUE, !.lost = FALSE, !.known = k, !.spoiled = s]
            \in ViewRecord
      /\ [view[p] EXCEPT !.loading = TRUE, !.form = "closed", !.lost = FALSE,
                         !.known = k, !.spoiled = s] \in ViewRecord
  BY <1>1 DEF ViewRecord
<1> QED
  BY <1>2 DEF k, s

LEMMA ViewFails ==
  ASSUME view \in [Tab -> ViewRecord], NEW p \in Tab, NEW awaits \in BOOLEAN
  PROVE  /\ [view[p] EXCEPT !.loading = awaits, !.spoiled = TRUE,
                            !.hidden = view[p].hidden \/ page = "orders"] \in ViewRecord
         /\ [view[p] EXCEPT !.loading = awaits, !.spoiled = TRUE,
                            !.hidden = view[p].hidden \/ page = "orders",
                            !.lost = TRUE] \in ViewRecord
<1>1. (view[p].hidden \/ page = "orders") \in BOOLEAN
  OBVIOUS
<1> QED
  BY <1>1 DEF ViewRecord

LEMMA TabsNext == TabsInv /\ CallsInv /\ [ListsNext]_listVars => TabsInv' /\ Quiet
<1> SUFFICES ASSUME TabsInv, CallsInv, [ListsNext]_listVars PROVE TabsInv' /\ Quiet
  OBVIOUS
<1> USE DEF serving, receiving
<1>0. \A c \in calls : CallOK(c)
  BY DEF CallsInv
<1>1. ASSUME UNCHANGED <<page, rows, writes, found, slipped>>,
             view' \in [Tab -> ViewRecord],
             clicksLeft' = clicksLeft \/ Click
      PROVE  TabsInv' /\ Quiet
  BY <1>1, ListsAssumption DEF TabsInv, Quiet, Click
<1>2. view \in [Tab -> ViewRecord]
  BY DEF TabsInv
<1>3. ASSUME NEW p \in Tab, Transition(p) \/ Decide(p) \/ DeleteItem(p)
      PROVE  TabsInv' /\ Quiet
  BY <1>1, <1>2, <1>3 DEF Transition, Decide, DeleteItem, Act
<1>4. ASSUME NEW p \in Tab, ToggleForm(p) PROVE TabsInv' /\ Quiet
  BY <1>1, <1>2, <1>4 DEF ToggleForm, ViewRecord
<1>5. ASSUME NEW p \in Tab, SubmitItem(p) \/ SubmitInvite(p) PROVE TabsInv' /\ Quiet
  <2>1. \E q : Submit(p, q)
    BY <1>5 DEF SubmitItem, SubmitInvite
  <2> QED
    BY <1>1, <1>2, <2>1 DEF Submit, ViewRecord
<1>6. ASSUME NEW p \in Tab, Visit(p) PROVE TabsInv' /\ Quiet
  <2>1. Opened \in ViewRecord
    BY DEF Opened, ViewRecord, Status
  <2> QED
    BY <1>1, <1>2, <1>6, <2>1 DEF Visit
<1>7. ASSUME UNCHANGED serving, found' \subseteq Thing, slipped' \subseteq Thing,
             \/ UNCHANGED <<rows, writes>>
             \/ \E t \in Thing, s \in Status : Write(t, s)
      PROVE  TabsInv' /\ Quiet
  BY <1>7 DEF TabsInv, Quiet, Write
<1>8. found \subseteq Thing /\ slipped \subseteq Thing
  BY DEF TabsInv
<1>9. ASSUME NEW c \in calls, c.stage \notin {"ok", "error"}, c.op # "list"
      PROVE  c.thing \in Thing /\ (c.op = "act" => c.to \in Status)
  BY <1>0, <1>9 DEF CallOK, Writes
<1>10. ASSUME NEW c \in calls, Serve(c) PROVE TabsInv' /\ Quiet
  <2>1. CASE ListOrders(c) \/ ListProposals(c) \/ ListItems(c) \/ ListTeam(c)
             \/ CheckMove(c)
    BY <1>7, <1>8, <2>1
    DEF ListOrders, ListProposals, ListItems, ListTeam, List, CheckMove
  <2>2. CASE Move(c) \/ Approve(c) \/ Reject(c)
    BY <1>7, <1>8, <1>9, <2>2 DEF Move, Approve, Reject, Review, Has
  <2>3. CASE StoreItem(c) \/ CreateInvite(c)
    <3>1. c.thing \in Thing /\ {"active", "pending"} \subseteq Status
      BY <1>9, <2>3 DEF StoreItem, CreateInvite, Has, Status
    <3> QED
      BY <1>7, <1>8, <2>3, <3>1 DEF StoreItem, CreateInvite
  <2>4. CASE IndexItem(c) \/ UnindexItem(c)
    BY <1>7, <1>8, <1>9, <2>4 DEF IndexItem, UnindexItem, Has
  <2>5. CASE MarkItem(c)
    <3>1. c.thing \in Thing /\ "inactive" \in Status
      BY <1>9, <2>5 DEF MarkItem, Has, Status
    <3>2. slipped' \subseteq Thing
      BY <1>8, <1>9, <2>5 DEF MarkItem, Has
    <3> QED
      BY <1>7, <1>8, <2>5, <3>1, <3>2 DEF MarkItem
  <2> QED
    BY <1>10, <2>1, <2>2, <2>3, <2>4, <2>5 DEF Serve
<1>11. ASSUME NEW c \in calls, Fail(c) PROVE TabsInv' /\ Quiet
  <2>1. slipped' \subseteq Thing
    BY <1>0, <1>8, <1>11 DEF Fail, CallOK, Writes
  <2> QED
    BY <1>11, <2>1, ListsAssumption DEF Fail, Click, TabsInv, Quiet
<1>12. ASSUME NEW c \in calls, Acted(c) PROVE TabsInv' /\ Quiet
  <2>1. c.tab \in Tab /\ c.at \in Nat /\ clicksLeft' = clicksLeft
    BY <1>0, <1>12 DEF Acted, ToTab, CallOK
  <2>2. view' \in [Tab -> ViewRecord]
    <3>1. view' = [view EXCEPT ![c.tab] = [view[c.tab] EXCEPT !.loading = TRUE,
                     !.lost = FALSE,
                     !.known = IF c.at > view[c.tab].known THEN c.at ELSE view[c.tab].known,
                     !.spoiled = view[c.tab].spoiled \/ Lists(c.tab) # {}]]
      BY <1>12 DEF Acted, Reloads
    <3> QED
      BY <1>2, <2>1, <3>1, ViewReloads
  <2> QED
    BY <1>1, <1>12, <2>1, <2>2 DEF Acted
<1>13. ASSUME NEW c \in calls, Added(c) PROVE TabsInv' /\ Quiet
  <2>1. c.tab \in Tab /\ c.at \in Nat /\ clicksLeft' = clicksLeft
    BY <1>0, <1>13 DEF Added, ToTab, CallOK
  <2>2. view' \in [Tab -> ViewRecord]
    <3>1. view' = [view EXCEPT ![c.tab] = [view[c.tab] EXCEPT !.loading = TRUE,
                     !.form = "closed", !.lost = FALSE,
                     !.known = IF c.at > view[c.tab].known THEN c.at ELSE view[c.tab].known,
                     !.spoiled = view[c.tab].spoiled \/ Lists(c.tab) # {}]]
      BY <1>13 DEF Added
    <3> QED
      BY <1>2, <2>1, <3>1, ViewReloads
  <2> QED
    BY <1>1, <1>13, <2>1, <2>2 DEF Added
<1>14. ASSUME NEW c \in calls, NotAdded(c) PROVE TabsInv' /\ Quiet
  <2>1. c.tab \in Tab
    BY <1>0, <1>14 DEF NotAdded, ToTab, CallOK
  <2>2. view' \in [Tab -> ViewRecord]
    BY <1>2, <1>14, <2>1 DEF NotAdded, ViewRecord
  <2> QED
    BY <1>1, <1>14, <2>2 DEF NotAdded
<1>15. ASSUME NEW c \in calls, Loaded(c) PROVE TabsInv' /\ Quiet
  <2>1. /\ c.tab \in Tab /\ c.at \in Nat /\ c.rows \in [Thing -> Status]
        /\ clicksLeft' = clicksLeft
    BY <1>0, <1>15 DEF Loaded, ToTab, CallOK, Has
  <2>2. view' \in [Tab -> ViewRecord]
    <3>1. view' = [view EXCEPT ![c.tab] = [view[c.tab] EXCEPT !.loading = FALSE,
                                              !.rows = c.rows, !.asOf = c.at]]
      BY <1>15 DEF Loaded
    <3>2. [view[c.tab] EXCEPT !.loading = FALSE, !.rows = c.rows, !.asOf = c.at]
            \in ViewRecord
      BY <1>2, <2>1 DEF ViewRecord
    <3> QED
      BY <1>2, <3>1, <3>2
  <2> QED
    BY <1>1, <1>15, <2>1, <2>2 DEF Loaded
<1>16. ASSUME NEW c \in calls, NotLoaded(c) PROVE TabsInv' /\ Quiet
  <2>1. view' \in [Tab -> ViewRecord]
    <3>1. c.tab \in Tab
      BY <1>0, <1>16 DEF NotLoaded, ToTab, CallOK
    <3>2. view' = [view EXCEPT ![c.tab] = [view[c.tab] EXCEPT !.loading = FALSE,
                     !.spoiled = TRUE, !.hidden = view[c.tab].hidden \/ page = "orders"]]
      BY <1>16 DEF NotLoaded
    <3> QED
      BY <1>2, <3>1, <3>2, ViewFails
  <2> QED
    BY <1>1, <1>16, <2>1 DEF NotLoaded
<1>17. ASSUME NEW c \in calls, Lose(c) PROVE TabsInv' /\ Quiet
  <2>1. view' \in [Tab -> ViewRecord]
    <3>0. c.tab \in Tab
      BY <1>0, <1>17 DEF Lose, CallOK
    <3>1. CASE c.op = "act"
      BY <1>2, <1>17, <3>1 DEF Lose
    <3>2. CASE c.op = "add"
      <4>1. view' = [view EXCEPT ![c.tab].form = IF c.form THEN "open" ELSE @]
        BY <1>17, <3>2 DEF Lose
      <4> QED
        BY <1>2, <3>0, <4>1 DEF ViewRecord
    <3>3. CASE c.op = "list"
      <4> DEFINE awaits == view[c.tab].loading /\ ~(page \in {"orders", "catalog"})
      <4>1. view' = [view EXCEPT ![c.tab] = [view[c.tab] EXCEPT !.loading = awaits,
                       !.spoiled = TRUE, !.hidden = view[c.tab].hidden \/ page = "orders",
                       !.lost = TRUE]]
        BY <1>17, <3>3 DEF Lose
      <4>2. awaits \in BOOLEAN
        OBVIOUS
      <4> QED
        BY <1>2, <3>0, <4>1, <4>2, ViewFails
    <3> QED
      BY <1>0, <3>1, <3>2, <3>3 DEF CallOK
  <2> QED
    BY <1>1, <1>17, <2>1 DEF Lose
<1>18. ASSUME UNCHANGED listVars PROVE TabsInv' /\ Quiet
  BY <1>1, <1>2, <1>18 DEF listVars
<1> QED
  BY <1>3, <1>4, <1>5, <1>6, <1>10, <1>11, <1>12, <1>13, <1>14, <1>15, <1>16, <1>17,
     <1>18 DEF ListsNext, Receive

-----------------------------------------------------------------------------
(* What calls carry *)

LEMMA CallsStep ==
  ASSUME TabsInv, CallsInv, Quiet,
         \A d \in calls' : \/ CallOK(d) \/ CallOK(d)'
                           \/ \E c \in calls : Same(c, d)
  PROVE  CallsInv'
<1>1. ASSUME NEW d \in calls' PROVE CallOK(d)'
  <2>1. ASSUME CallOK(d) PROVE CallOK(d)'
    BY <2>1, CallStays
  <2>2. ASSUME NEW c \in calls, Same(c, d) PROVE CallOK(d)'
    BY <2>1, <2>2, SameOK DEF CallsInv
  <2> QED
    BY <1>1, <2>1, <2>2
<1> QED
  BY <1>1 DEF CallsInv

LEMMA CallsNext == TabsInv /\ CallsInv /\ Quiet /\ [ListsNext]_listVars => CallsInv'
<1> SUFFICES ASSUME TabsInv, CallsInv, Quiet, [ListsNext]_listVars PROVE CallsInv'
  OBVIOUS
<1> USE DEF serving, receiving
<1>0. (\A c \in calls : CallOK(c)) /\ page \in Page
  BY DEF CallsInv, TabsInv
<1>1. ASSUME NEW q, CallOK(q) \/ CallOK(q)', calls' \subseteq calls \cup {q}
      PROVE  CallsInv'
  BY <1>0, <1>1, CallsStep
<1>2. ASSUME calls' \subseteq calls PROVE CallsInv'
  BY <1>0, <1>2, CallsStep
\* The user's steps.
<1>3. ASSUME NEW p \in Tab, Transition(p) \/ Decide(p) \/ DeleteItem(p)
      PROVE  CallsInv'
  <2>1. \A t \in Thing : NextStatus(view[p].rows[t]) \subseteq Status
    BY DEF NextStatus, Status
  <2>2. {"approved", "rejected", "inactive"} \subseteq Status
    BY DEF Status
  <2>3. \E t \in Thing, to \in Status : Act(ActCall(p, t, to))
    BY <1>3, <2>1, <2>2
    DEF Transition, Decide, DeleteItem, MoveCall, DecisionCall, RemoveCall
  <2>4. PICK t \in Thing, to \in Status : Act(ActCall(p, t, to))
    BY <2>3
  <2>5. CallOK(ActCall(p, t, to))
    BY <1>0, NewCalls
  <2> QED
    BY <1>1, <2>4, <2>5 DEF Act
<1>4. ASSUME NEW p \in Tab, ToggleForm(p) PROVE CallsInv'
  <2>1. \A d \in calls' : \E c \in calls : Same(c, d)
    BY <1>0, <1>4, Relabelled DEF ToggleForm, Disowned
  <2> QED
    BY <2>1, CallsStep
<1>5. ASSUME NEW p \in Tab, SubmitItem(p) \/ SubmitInvite(p) PROVE CallsInv'
  <2>1. \E t \in Thing : Submit(p, FormCall(p, t))
    BY <1>5 DEF SubmitItem, SubmitInvite, ItemCall, InviteCall
  <2> QED
    BY <1>0, <1>1, <2>1, NewCalls DEF Submit
<1>6. ASSUME NEW p \in Tab, Visit(p) PROVE CallsInv'
  <2>1. \A d \in Orphaned(calls, p) : \E c \in calls : Same(c, d)
    BY <1>0, Relabelled DEF Orphaned
  <2>2. calls' = Orphaned(calls, p) \cup {ListCall(p)} /\ CallOK(ListCall(p))
    BY <1>0, <1>6, NewCalls DEF Visit
  <2> QED
    BY <2>1, <2>2, CallsStep
\* The services.
<1>7. ASSUME NEW c \in calls, NEW d, Replace(c, d), CallOK(d) \/ CallOK(d)'
      PROVE  CallsInv'
  BY <1>1, <1>7 DEF Replace
<1>8. ASSUME NEW c \in calls, NEW stage \in {"ok", "error"},
             c.op # "list" \/ stage = "error", Replace(c, Answered(c, stage))
      PROVE  CallsInv'
  <2>1. PICK d : d = Answered(c, stage)
    OBVIOUS
  <2>2. CallOK(d)' /\ Replace(c, d)
    BY <1>0, <1>8, <2>1, AnsweredOK
  <2> QED
    BY <1>7, <2>2
<1>9. ASSUME NEW c \in calls, List(c) PROVE CallsInv'
  <2>1. PICK d : d = [tab |-> c.tab, no |-> c.no, op |-> "list", stage |-> "ok",
                      at |-> writes, rows |-> Listed]
    OBVIOUS
  <2>2. /\ DOMAIN d = {"tab", "no", "op", "stage", "at", "rows"} /\ d.tab = c.tab
        /\ d.op = "list" /\ d.stage = "ok" /\ d.at = writes /\ d.rows = Listed
    BY <2>1
  <2>3. Listed \in [Thing -> Status] /\ writes \in 0 .. writes
    BY DEF TabsInv, Listed, Status
  <2>4. CallOK(d)
    BY <1>0, <2>2, <2>3 DEF CallOK, Has, Writes
  <2> QED
    BY <1>7, <1>9, <2>1, <2>4 DEF List
<1>10. ASSUME NEW c \in calls, CheckMove(c) PROVE CallsInv'
  <2>1. CASE c.to \in NextStatus(rows[c.thing])
    <3>1. PICK d : d = Checked(c)
      OBVIOUS
    <3>2. /\ DOMAIN d = {"tab", "no", "op", "stage", "thing", "to", "seen"}
          /\ d.tab = c.tab /\ d.op = "act" /\ d.stage = "checked"
          /\ d.thing = c.thing /\ d.to = c.to /\ d.seen = rows[c.thing]
      BY <3>1 DEF Checked
    <3>3. c.tab \in Tab \cup {NoTab} /\ c.thing \in Thing /\ c.to \in Status
      BY <1>0, <1>10 DEF CheckMove, Has, CallOK, Writes
    <3>4. CallOK(d)
      BY <1>10, <2>1, <3>2, <3>3 DEF CheckMove, CallOK, Has, Writes
    <3> QED
      BY <1>7, <1>10, <2>1, <3>1, <3>4 DEF CheckMove
  <2> QED
    BY <1>8, <1>10, <2>1 DEF CheckMove, Has
<1>11. ASSUME NEW c \in calls, NEW d, page = "catalog",
              Has(c, "add", "sent") \/ Has(c, "act", "sent"),
              d = [c EXCEPT !.stage = "indexing"]
       PROVE  CallOK(d)
  <2>1. DOMAIN d = DOMAIN c /\ d.stage = "indexing"
    BY <1>0, <1>11 DEF CallOK
  <2>2. \A x \in DOMAIN c \ {"stage"} : d[x] = c[x]
    BY <1>11
  <2>3. {"tab", "op"} \subseteq DOMAIN c /\ d.tab = c.tab /\ d.op = c.op
    BY <1>0, <2>2 DEF CallOK
  <2>4. "thing" \in DOMAIN c /\ d.thing = c.thing /\ c.thing \in Thing
    BY <1>0, <1>11, <2>2 DEF CallOK, Writes, Has
  <2>5. c.op = "add" => "form" \in DOMAIN c /\ d.form = c.form /\ c.form \in BOOLEAN
    BY <1>0, <2>2 DEF CallOK
  <2>6. c.op = "act" => "to" \in DOMAIN c /\ d.to = c.to /\ c.to \in Status
    BY <1>0, <1>11, <2>2 DEF CallOK, Has
  <2> QED
    BY <1>0, <1>11, <2>1, <2>3, <2>4, <2>5, <2>6 DEF CallOK, Has, Writes
<1>12. ASSUME NEW c \in calls, Serve(c) PROVE CallsInv'
  <2>1. CASE ListOrders(c) \/ ListProposals(c) \/ ListItems(c) \/ ListTeam(c)
    BY <1>9, <2>1 DEF ListOrders, ListProposals, ListItems, ListTeam
  <2>2. CASE \/ Move(c) \/ Approve(c) \/ Reject(c) \/ IndexItem(c) \/ UnindexItem(c)
             \/ CreateInvite(c)
    BY <1>8, <2>2 DEF Move, Approve, Reject, Review, IndexItem, UnindexItem, CreateInvite,
                      Has
  <2>3. CASE StoreItem(c)
    BY <1>7, <1>11, <2>3 DEF StoreItem
  <2>4. CASE MarkItem(c)
    <3>1. c.op # "list" /\ (\/ Replace(c, Answered(c, "error"))
                           \/ Replace(c, [c EXCEPT !.stage = "indexing"]))
      BY <2>4 DEF MarkItem, Has
    <3> QED
      BY <1>7, <1>8, <1>11, <2>4, <3>1 DEF MarkItem
  <2> QED
    BY <1>10, <1>12, <2>1, <2>2, <2>3, <2>4 DEF Serve
<1>13. ASSUME NEW c \in calls, Fail(c) PROVE CallsInv'
  BY <1>8, <1>13 DEF Fail
<1>14. ASSUME NEW c \in calls, Lose(c) PROVE CallsInv'
  <2>1. CallOK([c EXCEPT !.tab = NoTab])
    BY <1>0, Relabelled, SameOK
  <2> QED
    BY <1>7, <1>14, <2>1 DEF Lose
\* The answers.
<1>15. ASSUME NEW c \in calls, Acted(c) PROVE CallsInv'
  <2>1. c.tab \in Tab
    BY <1>0, <1>15 DEF Acted, ToTab, CallOK
  <2> QED
    BY <1>0, <1>1, <1>15, <2>1, NewCalls DEF Acted, Reloads
<1>16. ASSUME NEW c \in calls, Added(c) PROVE CallsInv'
  <2>1. c.tab \in Tab
    BY <1>0, <1>16 DEF Added, ToTab, CallOK
  <2>2. \A d \in calls' : d = ListCall(c.tab) \/ \E e \in calls : Same(e, d)
    BY <1>0, <1>16, Relabelled DEF Added
  <2>3. CallOK(ListCall(c.tab))
    BY <1>0, <2>1, NewCalls
  <2> QED
    BY <2>2, <2>3, CallsStep
<1>17. ASSUME NEW c \in calls, NotAdded(c) \/ Loaded(c) \/ NotLoaded(c) PROVE CallsInv'
  BY <1>2, <1>17 DEF NotAdded, Loaded, NotLoaded
<1>18. ASSUME UNCHANGED listVars PROVE CallsInv'
  BY <1>2, <1>18 DEF listVars
<1> QED
  BY <1>3, <1>4, <1>5, <1>6, <1>12, <1>13, <1>14, <1>15, <1>16, <1>17, <1>18
  DEF ListsNext, Receive

-----------------------------------------------------------------------------
(* Forms *)

Waits(c, p) == c.op = "add" /\ c.tab = p /\ c.form

LEMMA FormsNext ==
  TabsInv /\ CallsInv /\ FormsInv /\ [ListsNext]_listVars => FormsInv'
<1> SUFFICES ASSUME TabsInv, CallsInv, FormsInv, [ListsNext]_listVars PROVE FormsInv'
  OBVIOUS
<1> USE DEF serving, receiving
<1>0. /\ \A c \in calls : CallOK(c)
      /\ view \in [Tab -> ViewRecord]
      /\ \A p \in Tab : view[p].form = "busy" => \E c \in calls : Waits(c, p)
  BY DEF CallsInv, TabsInv, FormsInv, Waits
\* The tabs whose form is untouched, and the calls that know it.
<1>1. ASSUME \A p \in Tab : view'[p].form = "busy" =>
               \/ \E d \in calls' : Waits(d, p)
               \/ /\ view[p].form = "busy"
                  /\ \A c \in calls : Waits(c, p) => \E d \in calls' : Waits(d, p)
      PROVE  FormsInv'
  BY <1>0, <1>1 DEF FormsInv, Waits
<1>2. ASSUME \A p \in Tab : view'[p].form = view[p].form,
             \A c \in calls : c.op = "add" => c \in calls'
      PROVE  FormsInv'
  BY <1>1, <1>2 DEF Waits
<1>3. ASSUME NEW p \in Tab, Transition(p) \/ Decide(p) \/ DeleteItem(p)
      PROVE  FormsInv'
  BY <1>2, <1>3 DEF Transition, Decide, DeleteItem, Act
<1>4. ASSUME NEW p \in Tab, ToggleForm(p) PROVE FormsInv'
  <2>1. view'[p].form # "busy"
    BY <1>0, <1>4 DEF ToggleForm, ViewRecord
  <2>2. ASSUME NEW q \in Tab, q # p
        PROVE  /\ view'[q].form = view[q].form
               /\ \A c \in calls : Waits(c, q) => c \in calls'
    BY <1>0, <1>4, <2>2 DEF ToggleForm, Disowned, Waits
  <2> QED
    BY <1>1, <2>1, <2>2
<1>5. ASSUME NEW p \in Tab, SubmitItem(p) \/ SubmitInvite(p) PROVE FormsInv'
  <2>1. PICK t \in Thing : Submit(p, FormCall(p, t))
    BY <1>5 DEF SubmitItem, SubmitInvite, ItemCall, InviteCall
  <2>2. FormCall(p, t) \in calls' /\ calls \subseteq calls'
    BY <2>1 DEF Submit
  <2>3. Waits(FormCall(p, t), p)
    BY DEF FormCall, Waits
  <2>4. \A q \in Tab \ {p} : view'[q].form = view[q].form
    BY <1>0, <2>1 DEF Submit
  <2> QED
    BY <1>1, <2>2, <2>3, <2>4
<1>6. ASSUME NEW p \in Tab, Visit(p) PROVE FormsInv'
  <2>1. view'[p].form = "closed"
    BY <1>0, <1>6 DEF Visit, Opened
  <2>2. ASSUME NEW q \in Tab, q # p
        PROVE  /\ view'[q].form = view[q].form
               /\ \A c \in calls : Waits(c, q) => c \in calls'
    BY <1>0, <1>6, <2>2 DEF Visit, Orphaned, Waits
  <2> QED
    BY <1>1, <2>1, <2>2
<1>7. ASSUME NEW c \in calls, NEW d, Replace(c, d), UNCHANGED view,
             c.op = "add" => d.op = "add" /\ d.tab = c.tab /\ d.form = c.form
      PROVE  FormsInv'
  <2>1. ASSUME NEW p \in Tab, NEW e \in calls, Waits(e, p)
        PROVE  \E f \in calls' : Waits(f, p)
    <3>1. CASE e # c
      BY <1>7, <2>1, <3>1 DEF Replace
    <3>2. CASE e = c
      <4>1. d.tab # NoTab /\ Waits(d, p)
        BY <1>7, <2>1, <3>2, ListsAssumption DEF Waits
      <4> QED
        BY <1>7, <4>1 DEF Replace
    <3> QED
      BY <3>1, <3>2
  <2> QED
    BY <1>1, <1>7, <2>1
<1>8. ASSUME NEW c \in calls, NEW stage \in {"ok", "error"}, UNCHANGED view,
             Replace(c, Answered(c, stage))
      PROVE  FormsInv'
  <2>1. c.op = "add" => /\ Answered(c, stage).op = "add"
                        /\ Answered(c, stage).tab = c.tab
                        /\ Answered(c, stage).form = c.form
    BY DEF Answered
  <2> QED
    BY <1>7, <1>8, <2>1
<1>9. ASSUME NEW c \in calls, Serve(c) PROVE FormsInv'
  <2>1. CASE \/ ListOrders(c) \/ ListProposals(c) \/ ListItems(c) \/ ListTeam(c)
             \/ CheckMove(c) \/ MarkItem(c)
    <3>1. c.op # "add" /\ (\E d : Replace(c, d)) /\ UNCHANGED view
      BY <2>1 DEF ListOrders, ListProposals, ListItems, ListTeam, List, CheckMove,
                  MarkItem, Has
    <3> QED
      BY <1>7, <3>1
  <2>2. CASE \/ Move(c) \/ Approve(c) \/ Reject(c) \/ IndexItem(c) \/ UnindexItem(c)
             \/ CreateInvite(c)
    BY <1>8, <2>2 DEF Move, Approve, Reject, Review, IndexItem, UnindexItem, CreateInvite
  <2>3. CASE StoreItem(c)
    <3>1. PICK d : d = [c EXCEPT !.stage = "indexing"]
      OBVIOUS
    <3>2. c.op = "add" /\ "form" \in DOMAIN c /\ {"op", "tab"} \subseteq DOMAIN c
      BY <1>0, <2>3 DEF StoreItem, Has, CallOK
    <3>3. d.op = "add" /\ d.tab = c.tab /\ d.form = c.form
      BY <3>1, <3>2
    <3> QED
      BY <1>7, <2>3, <3>1, <3>3 DEF StoreItem
  <2> QED
    BY <1>9, <2>1, <2>2, <2>3 DEF Serve
<1>10. ASSUME NEW c \in calls, Fail(c) PROVE FormsInv'
  BY <1>8, <1>10 DEF Fail
<1>11. ASSUME NEW c \in calls, Acted(c) PROVE FormsInv'
  <2>1. c.op = "act" /\ \A p \in Tab : view'[p].form = view[p].form
    BY <1>0, <1>11 DEF Acted, Reloads, ToTab, ViewRecord
  <2> QED
    BY <1>2, <1>11, <2>1 DEF Acted, Reloads
<1>12. ASSUME NEW c \in calls, Added(c) PROVE FormsInv'
  <2>1. c.tab \in Tab
    BY <1>0, <1>12 DEF Added, ToTab, CallOK
  <2>2. view'[c.tab].form = "closed"
    BY <1>0, <1>12, <2>1 DEF Added, ViewRecord
  <2>3. ASSUME NEW q \in Tab, q # c.tab
        PROVE  /\ view'[q].form = view[q].form
               /\ \A e \in calls : Waits(e, q) => e \in calls'
    BY <1>0, <1>12, <2>3 DEF Added, Waits
  <2> QED
    BY <1>1, <2>2, <2>3
\* A form that is freed knows its call; another call's answer says nothing of it.
<1>13. ASSUME NEW c \in calls, c.op = "add", c.tab \in Tab,
              view' = [view EXCEPT ![c.tab].form = IF c.form THEN "open" ELSE @],
              calls \ {c} \subseteq calls'
       PROVE  FormsInv'
  <2>1. view'[c.tab].form = IF c.form THEN "open" ELSE view[c.tab].form
    BY <1>0, <1>13 DEF ViewRecord
  <2>2. \A q \in Tab \ {c.tab} : view'[q].form = view[q].form
    BY <1>0, <1>13
  <2>3. ASSUME NEW q \in Tab, NEW e \in calls, Waits(e, q), view'[q].form = "busy"
        PROVE  e \in calls'
    BY <1>13, <2>1, <2>3 DEF Waits
  <2>4. \A q \in Tab : view'[q].form = "busy" => view[q].form = "busy"
    BY <2>1, <2>2
  <2> QED
    BY <1>1, <2>3, <2>4
<1>14. ASSUME NEW c \in calls, NotAdded(c) PROVE FormsInv'
  BY <1>0, <1>13, <1>14 DEF NotAdded, ToTab, CallOK
<1>15. ASSUME NEW c \in calls, Loaded(c) \/ NotLoaded(c) PROVE FormsInv'
  <2>1. c.op = "list" /\ \A p \in Tab : view'[p].form = view[p].form
    BY <1>0, <1>15 DEF Loaded, NotLoaded, ToTab, ViewRecord
  <2> QED
    BY <1>2, <1>15, <2>1 DEF Loaded, NotLoaded
<1>16. ASSUME NEW c \in calls, Lose(c) PROVE FormsInv'
  <2>1. c.tab \in Tab /\ calls \ {c} \subseteq calls'
    BY <1>0, <1>16 DEF Lose, Replace, CallOK
  <2>2. CASE c.op = "act"
    BY <1>2, <1>16, <2>1, <2>2 DEF Lose
  <2>3. CASE c.op = "add"
    BY <1>13, <1>16, <2>1, <2>3 DEF Lose
  <2>4. CASE c.op = "list"
    <3>1. \A p \in Tab : view'[p].form = view[p].form
      BY <1>0, <1>16, <2>4 DEF Lose, ViewRecord
    <3> QED
      BY <1>2, <2>1, <2>4, <3>1
  <2> QED
    BY <1>0, <2>2, <2>3, <2>4 DEF CallOK
<1>17. ASSUME UNCHANGED listVars PROVE FormsInv'
  BY <1>2, <1>17 DEF listVars
<1> QED
  BY <1>3, <1>4, <1>5, <1>6, <1>9, <1>10, <1>11, <1>12, <1>14, <1>15, <1>16, <1>17
  DEF ListsNext, Receive

-----------------------------------------------------------------------------
(* The search index *)

\* The calls change hands, and at most one starts.
LEMMA IndexKept ==
  ASSUME CallsInv, CallsInv', IndexInv, UNCHANGED <<page, rows, found, slipped>>,
         NEW R, \A c \in calls : Same(c, R[c]),
         NEW q, q.stage = "sent", q.op = "add" => NotYet(q.thing),
         \A d \in calls' : Writes(d) => d = q \/ \E c \in calls : d = R[c],
         \A c \in calls : c.stage = "indexing" => R[c] \in calls'
  PROVE  IndexInv'
<1> SUFFICES ASSUME page = "catalog" PROVE IndexInv'
  BY DEF IndexInv
<1>0. \A c \in calls : /\ R[c].op = c.op /\ R[c].stage = c.stage
                       /\ Writes(R[c]) <=> Writes(c)
                       /\ Writes(c) => R[c].thing = c.thing
  BY SameFields DEF CallsInv
<1>1. ASSUME NEW d, d.stage = "indexing" PROVE d \in calls => Writes(d)
  BY <1>1 DEF CallsInv, CallOK, Writes
<1>2. ASSUME NEW d \in calls', d.op = "add", d.stage \in {"sent", "indexing"}
      PROVE  Writes(d)
  BY <1>2 DEF Writes
<1>3. ASSUME NEW t \in Thing \ slipped
      PROVE  \/ t \in found <=> rows[t] = "active"
             \/ \E d \in calls' : d.stage = "indexing" /\ d.thing = t
  BY <1>0, <1>1, <1>3 DEF IndexInv
<1>4. ASSUME NEW d \in calls', d.stage = "indexing", d.thing \notin slipped, Writes(d)
      PROVE  rows[d.thing] = IF d.op = "add" THEN "active" ELSE "inactive"
  <2>1. PICK c \in calls : d = R[c]
    BY <1>4
  <2> QED
    BY <1>0, <1>1, <1>4, <2>1 DEF IndexInv
<1>5. ASSUME NEW d \in calls', Has(d, "add", "sent") PROVE rows[d.thing] = "none"
  <2>1. CASE d = q
    BY <1>5, <2>1 DEF NotYet, Has
  <2>2. ASSUME NEW c \in calls, d = R[c] PROVE rows[d.thing] = "none"
    <3>1. Has(c, "add", "sent") /\ Writes(c)
      BY <1>0, <1>5, <2>2 DEF Has, Writes
    <3> QED
      BY <1>0, <2>2, <3>1 DEF IndexInv
  <2> QED
    BY <1>2, <1>5, <2>1, <2>2 DEF Has
<1>6. ASSUME NEW d \in calls', NEW e \in calls', d.op = "add", Writes(d), e.op = "add",
             Writes(e), d.thing = e.thing
      PROVE  d = e
  <2>1. ASSUME NEW c \in calls, d = R[c], NEW b \in calls, e = R[b] PROVE d = e
    BY <1>0, <1>6, <2>1 DEF IndexInv
  <2>2. ASSUME NEW c \in calls, R[c].op = "add", Writes(R[c]), q.op = "add"
        PROVE  R[c].thing # q.thing
    BY <1>0, <2>2 DEF NotYet
  <2> QED
    BY <1>6, <2>1, <2>2
<1>7. \A d \in calls' : d.stage = "indexing" => Writes(d)
  BY DEF CallsInv, CallOK, Writes
<1> QED
  BY <1>3, <1>4, <1>5, <1>6, <1>7 DEF IndexInv, Writes, Has

LEMMA IndexSame ==
  ASSUME CallsInv, CallsInv', IndexInv, UNCHANGED <<page, rows, found, slipped>>,
         NEW q, q.stage = "sent", q.op = "add" => NotYet(q.thing),
         \A d \in calls' : Writes(d) => d = q \/ d \in calls,
         \A c \in calls : c.stage = "indexing" => c \in calls'
  PROVE  IndexInv'
<1>1. PICK R : R = [c \in calls |-> c]
  OBVIOUS
<1>2. \A c \in calls : Same(c, R[c]) /\ R[c] = c
  BY <1>1 DEF Same
<1> QED
  BY <1>2, IndexKept

LEMMA IndexQuiet ==
  ASSUME CallsInv, CallsInv', IndexInv, UNCHANGED <<page, rows, found, slipped>>,
         \A d \in calls' : Writes(d) => d \in calls,
         \A c \in calls : c.stage = "indexing" => c \in calls'
  PROVE  IndexInv'
<1>1. PICK q : q = [stage |-> "sent", op |-> "list"]
  OBVIOUS
<1>2. q.stage = "sent" /\ q.op = "list"
  BY <1>1
<1> QED
  BY <1>2, IndexSame

\* One call about a thing goes on or ends, and only that thing is touched.
LEMMA IndexOne ==
  ASSUME CallsInv, CallsInv', IndexInv, page = "catalog", page' = page,
         NEW c \in calls, Writes(c), NEW d, NEW t \in Thing, t = c.thing,
         calls \ {c} \subseteq calls',
         \A e \in calls' : Writes(e) =>
           \/ e \in calls \ {c}
           \/ e = d /\ d.stage = "indexing" /\ d.op = c.op /\ d.thing = t,
         slipped \subseteq slipped',
         \A x \in Thing \ {t} : rows'[x] = rows[x] /\ (x \in found' <=> x \in found),
         t \notin slipped' =>
           \/ t \in found' <=> rows'[t] = "active"
           \/ \E e \in calls' : e.stage = "indexing" /\ e.thing = t,
         \A e \in calls' : e.stage = "indexing" /\ e.thing = t /\ t \notin slipped' =>
           rows'[t] = IF e.op = "add" THEN "active" ELSE "inactive",
         \A e \in calls' : Has(e, "add", "sent") /\ e.thing = t => rows'[t] = "none"
  PROVE  IndexInv'
<1>1. /\ \A e \in calls' : e.stage = "indexing" => Writes(e) /\ e.thing \in Thing
      /\ \A e \in calls' : Has(e, "add", "sent") => Writes(e) /\ e.thing \in Thing
  BY DEF CallsInv, CallOK, Writes, Has
<1>2. ASSUME NEW x \in Thing \ slipped', x # t
      PROVE  \/ x \in found' <=> rows'[x] = "active"
             \/ \E e \in calls' : e.stage = "indexing" /\ e.thing = x
  BY <1>2 DEF IndexInv
<1>3. ASSUME NEW e \in calls', e.stage = "indexing", e.thing \notin slipped', e.thing # t
      PROVE  rows'[e.thing] = IF e.op = "add" THEN "active" ELSE "inactive"
  BY <1>1, <1>3 DEF IndexInv
<1>4. ASSUME NEW e \in calls', Has(e, "add", "sent"), e.thing # t
      PROVE  rows'[e.thing] = "none"
  BY <1>1, <1>4 DEF IndexInv
<1>5. ASSUME NEW e \in calls', NEW f \in calls', e.op = "add", Writes(e), f.op = "add",
             Writes(f), e.thing = f.thing
      PROVE  e = f
  BY <1>5 DEF IndexInv
<1>6. \A x \in Thing \ slipped' :
        \/ x \in found' <=> rows'[x] = "active"
        \/ \E e \in calls' : e.stage = "indexing" /\ e.thing = x
  BY <1>2
<1>7. \A e \in calls' : e.stage = "indexing" /\ e.thing \notin slipped' =>
        rows'[e.thing] = IF e.op = "add" THEN "active" ELSE "inactive"
  BY <1>3
<1>8. \A e \in calls' : Has(e, "add", "sent") => rows'[e.thing] = "none"
  BY <1>4
<1> QED
  BY <1>5, <1>6, <1>7, <1>8 DEF IndexInv, Writes, Has

LEMMA IndexNext ==
  TabsInv /\ CallsInv /\ CallsInv' /\ IndexInv /\ [ListsNext]_listVars => IndexInv'
<1> SUFFICES ASSUME TabsInv, CallsInv, CallsInv', IndexInv, [ListsNext]_listVars
             PROVE  IndexInv'
  OBVIOUS
<1> USE DEF serving, receiving
<1>0. \A c \in calls : CallOK(c)
  BY DEF CallsInv
<1>1. \A c \in calls : c.stage = "indexing" => Writes(c)
  BY <1>0 DEF CallOK, Writes
\* The user's steps.
<1>2. ASSUME NEW p \in Tab, Transition(p) \/ Decide(p) \/ DeleteItem(p)
      PROVE  IndexInv'
  <2>1. PICK t, to : Act(ActCall(p, t, to))
    BY <1>2 DEF Transition, Decide, DeleteItem, MoveCall, DecisionCall, RemoveCall
  <2>2. PICK q : q = ActCall(p, t, to)
    OBVIOUS
  <2>3. q.op = "act" /\ q.stage = "sent"
    BY <2>2 DEF ActCall
  <2> QED
    BY <2>1, <2>2, <2>3, IndexSame DEF Act
<1>3. ASSUME NEW p \in Tab, ToggleForm(p) PROVE IndexInv'
  <2>1. PICK R : R = [c \in calls |-> IF c.tab = p /\ c.op = "add"
                                      THEN [c EXCEPT !.form = FALSE] ELSE c]
    OBVIOUS
  <2>2. \A c \in calls : Same(c, R[c])
    BY <1>0, <2>1, Relabelled
  <2>3. calls' = {R[c] : c \in calls}
    BY <1>3, <2>1 DEF ToggleForm, Disowned
  <2>4. PICK q : q = [stage |-> "sent", op |-> "list"]
    OBVIOUS
  <2>5. q.stage = "sent" /\ q.op = "list"
    BY <2>4
  <2> QED
    BY <1>3, <2>2, <2>3, <2>5, IndexKept DEF ToggleForm
<1>4. ASSUME NEW p \in Tab, SubmitItem(p) \/ SubmitInvite(p) PROVE IndexInv'
  <2>1. PICK t : NotYet(t) /\ Submit(p, FormCall(p, t))
    BY <1>4 DEF SubmitItem, SubmitInvite, ItemCall, InviteCall
  <2>2. PICK q : q = FormCall(p, t)
    OBVIOUS
  <2>3. q.stage = "sent" /\ q.thing = t
    BY <2>2 DEF FormCall
  <2> QED
    BY <2>1, <2>2, <2>3, IndexSame DEF Submit
<1>5. ASSUME NEW p \in Tab, Visit(p) PROVE IndexInv'
  <2>1. PICK R : R = [c \in calls |-> IF c.tab = p THEN [c EXCEPT !.tab = NoTab] ELSE c]
    OBVIOUS
  <2>2. \A c \in calls : Same(c, R[c])
    BY <1>0, <2>1, Relabelled
  <2>3. PICK q : q = ListCall(p)
    OBVIOUS
  <2>4. q.stage = "sent" /\ q.op = "list"
    BY <2>3 DEF ListCall
  <2>5. calls' = {R[c] : c \in {d \in calls : d.tab = p => Writes(d)}} \cup {q}
    BY <1>5, <2>1, <2>3 DEF Visit, Orphaned
  <2> QED
    BY <1>1, <1>5, <2>2, <2>4, <2>5, IndexKept DEF Visit
\* The services.
<1>6. ASSUME page # "catalog", page' = page PROVE IndexInv'
  BY <1>6 DEF IndexInv
<1>7. ASSUME NEW c \in calls, c.stage # "indexing", NEW d, ~Writes(d), Replace(c, d),
             UNCHANGED <<page, rows, found, slipped>>
      PROVE  IndexInv'
  BY <1>7, IndexQuiet DEF Replace
<1>8. ASSUME NEW c, NEW stage \in {"ok", "error"} PROVE ~Writes(Answered(c, stage))
  BY DEF Answered, Writes
<1>9. ASSUME NEW c \in calls, StoreItem(c) PROVE IndexInv'
  <2>1. PICK d : d = [c EXCEPT !.stage = "indexing"]
    OBVIOUS
  <2>2. /\ {"op", "stage", "thing"} \subseteq DOMAIN c /\ c.thing \in Thing
        /\ c.op = "add" /\ c.stage = "sent" /\ Writes(c)
    BY <1>0, <1>9 DEF StoreItem, Has, CallOK, Writes
  <2>3. d.op = "add" /\ d.stage = "indexing" /\ d.thing = c.thing
    BY <2>1, <2>2
  <2>4. calls' = (calls \ {c}) \cup {d}
    BY <1>9, <2>1, <2>3 DEF StoreItem, Replace, Writes
  <2>5. /\ rows' = [rows EXCEPT ![c.thing] = "active"] /\ rows \in [Thing -> Status]
        /\ found' = found /\ slipped' = slipped /\ page = "catalog" /\ page' = page
    BY <1>9 DEF StoreItem, Write, TabsInv
  <2>6. rows[c.thing] = "none"
    BY <2>2, <2>5 DEF IndexInv, Has
  <2>7. ASSUME NEW e \in calls', e.thing = c.thing, e.stage = "indexing",
               c.thing \notin slipped
        PROVE  e = d
    <3>1. \A f \in calls \ {c} : f.stage = "indexing" /\ f.thing = c.thing => f.op # "add"
      BY <1>1, <2>2, <2>5 DEF IndexInv
    <3> QED
      BY <2>4, <2>5, <2>6, <2>7, <3>1 DEF IndexInv
  <2>8. ASSUME NEW e \in calls', Has(e, "add", "sent") PROVE e.thing # c.thing
    <3>1. e \in calls \ {c} /\ e.op = "add" /\ Writes(e)
      BY <2>3, <2>4, <2>8 DEF Has, Writes
    <3> QED
      BY <2>2, <2>5, <3>1 DEF IndexInv
  <2>9. rows'[c.thing] = "active" /\ \A x \in Thing \ {c.thing} : rows'[x] = rows[x]
    BY <2>2, <2>5
  <2>10. \E e \in calls' : e.stage = "indexing" /\ e.thing = c.thing
    BY <2>3, <2>4
  <2> QED
    BY <2>2, <2>3, <2>4, <2>5, <2>7, <2>8, <2>9, <2>10, IndexOne
<1>10. ASSUME NEW c \in calls, MarkItem(c) PROVE IndexInv'
  <2>1. /\ {"op", "stage", "thing"} \subseteq DOMAIN c /\ c.thing \in Thing
        /\ c.op = "act" /\ c.stage = "sent" /\ Writes(c)
    BY <1>0, <1>10 DEF MarkItem, Has, CallOK, Writes
  <2>2. /\ rows \in [Thing -> Status] /\ found' = found /\ page = "catalog"
        /\ page' = page /\ slipped \subseteq slipped'
        /\ \A e \in calls : e.stage = "indexing" /\ e.thing = c.thing /\ e.op = "add" =>
             c.thing \in slipped'
    BY <1>10 DEF MarkItem, Has, TabsInv
  <2>3. CASE rows[c.thing] # "active"
    <3>1. rows' = rows /\ Replace(c, Answered(c, "error"))
      BY <1>10, <2>3 DEF MarkItem
    <3>2. \A e \in calls' : Writes(e) => e \in calls \ {c}
      BY <1>8, <3>1 DEF Replace
    <3>3. calls \ {c} \subseteq calls'
      BY <3>1 DEF Replace
    <3>4. c.thing \notin slipped' =>
            \/ c.thing \in found' <=> rows'[c.thing] = "active"
            \/ \E e \in calls' : e.stage = "indexing" /\ e.thing = c.thing
      BY <2>1, <2>2, <3>1, <3>3 DEF IndexInv
    <3>5. \A e \in calls' : e.stage = "indexing" \/ Has(e, "add", "sent") => e \in calls
      <4>1. \A e \in calls' : e.stage = "indexing" \/ Has(e, "add", "sent") => Writes(e)
        BY DEF CallsInv, CallOK, Writes, Has
      <4> QED
        BY <3>2, <4>1
    <3>6. \A e \in calls' :
            e.stage = "indexing" /\ e.thing = c.thing /\ c.thing \notin slipped' =>
              rows'[c.thing] = IF e.op = "add" THEN "active" ELSE "inactive"
      BY <2>2, <3>1, <3>5 DEF IndexInv
    <3>7. \A e \in calls' : Has(e, "add", "sent") /\ e.thing = c.thing =>
            rows'[c.thing] = "none"
      BY <2>2, <3>1, <3>5 DEF IndexInv
    <3> QED
      BY <2>1, <2>2, <3>1, <3>2, <3>3, <3>4, <3>6, <3>7, IndexOne
  <2>4. CASE rows[c.thing] = "active"
    <3>1. PICK d : d = [c EXCEPT !.stage = "indexing"]
      OBVIOUS
    <3>2. d.op = "act" /\ d.stage = "indexing" /\ d.thing = c.thing
      BY <2>1, <3>1
    <3>3. calls' = (calls \ {c}) \cup {d} /\ rows' = [rows EXCEPT ![c.thing] = "inactive"]
      BY <1>10, <2>4, <3>1, <3>2 DEF MarkItem, Replace, Writes, Write
    <3>4. rows'[c.thing] = "inactive" /\ \A x \in Thing \ {c.thing} : rows'[x] = rows[x]
      BY <2>1, <2>2, <3>3
    <3>5. ASSUME NEW e \in calls', e.thing = c.thing, e.stage = "indexing",
                 c.thing \notin slipped'
          PROVE  e.op # "add"
      BY <2>2, <3>2, <3>3, <3>5
    <3>6. ASSUME NEW e \in calls', Has(e, "add", "sent") PROVE e.thing # c.thing
      BY <2>2, <2>4, <3>2, <3>3, <3>6 DEF IndexInv, Has
    <3>7. \E e \in calls' : e.stage = "indexing" /\ e.thing = c.thing
      BY <3>2, <3>3
    <3> QED
      BY <2>1, <2>2, <3>2, <3>3, <3>4, <3>5, <3>6, <3>7, IndexOne
  <2> QED
    BY <2>3, <2>4
\* The index is written, or is not and the thing slipped.
<1>11. ASSUME NEW c \in calls, c.stage = "indexing", page' = page, rows' = rows,
              NEW stage \in {"ok", "error"}, Replace(c, Answered(c, stage)),
              \/ /\ slipped' = slipped
                 /\ found' = IF c.op = "add" THEN found \cup {c.thing}
                             ELSE found \ {c.thing}
              \/ slipped' = slipped \cup {c.thing} /\ found' = found
       PROVE  IndexInv'
  <2>1. page = "catalog" /\ Writes(c) /\ c.thing \in Thing
    BY <1>0, <1>1, <1>11 DEF CallOK
  <2>2. \A e \in calls' : Writes(e) => e \in calls \ {c}
    BY <1>8, <1>11 DEF Replace
  <2>3. calls \ {c} \subseteq calls'
    BY <1>11 DEF Replace
  <2>4. \A e \in calls' : e.stage = "indexing" \/ Has(e, "add", "sent") => e \in calls
    <3>1. \A e \in calls' : e.stage = "indexing" \/ Has(e, "add", "sent") => Writes(e)
      BY DEF CallsInv, CallOK, Writes, Has
    <3> QED
      BY <2>2, <3>1
  <2>5. c.thing \notin slipped' => (c.thing \in found' <=> rows'[c.thing] = "active")
    BY <1>11, <2>1 DEF IndexInv
  <2>6. \A e \in calls' :
          e.stage = "indexing" /\ e.thing = c.thing /\ c.thing \notin slipped' =>
            rows'[c.thing] = IF e.op = "add" THEN "active" ELSE "inactive"
    BY <1>11, <2>1, <2>4 DEF IndexInv
  <2>7. \A e \in calls' : Has(e, "add", "sent") /\ e.thing = c.thing =>
          rows'[c.thing] = "none"
    BY <1>11, <2>1, <2>4 DEF IndexInv
  <2>8. \A x \in Thing \ {c.thing} : rows'[x] = rows[x] /\ (x \in found' <=> x \in found)
    BY <1>11
  <2>9. slipped \subseteq slipped'
    BY <1>11
  <2> QED
    BY <1>11, <2>1, <2>2, <2>3, <2>5, <2>6, <2>7, <2>8, <2>9, IndexOne
<1>12. ASSUME NEW c \in calls, Serve(c) PROVE IndexInv'
  <2>1. CASE ListItems(c)
    <3>1. PICK d : d = [tab |-> c.tab, no |-> c.no, op |-> "list", stage |-> "ok",
                        at |-> writes, rows |-> Listed]
      OBVIOUS
    <3>2. ~Writes(d)
      BY <3>1 DEF Writes
    <3> QED
      BY <1>7, <2>1, <3>1, <3>2 DEF ListItems, List, Has
  <2>2. CASE \/ ListOrders(c) \/ ListProposals(c) \/ ListTeam(c) \/ CheckMove(c)
             \/ Approve(c) \/ Reject(c) \/ CreateInvite(c)
    BY <1>6, <2>2 DEF ListOrders, ListProposals, ListTeam, List, CheckMove, Approve, Reject,
                      Review, CreateInvite
  <2>3. CASE Move(c)
    BY <1>0, <1>6, <2>3 DEF Move, Has, CallOK
  <2>4. CASE IndexItem(c) \/ UnindexItem(c)
    BY <1>11, <2>4 DEF IndexItem, UnindexItem, Has
  <2> QED
    BY <1>9, <1>10, <1>12, <2>1, <2>2, <2>3, <2>4 DEF Serve
<1>13. ASSUME NEW c \in calls, Fail(c) PROVE IndexInv'
  BY <1>7, <1>8, <1>11, <1>13 DEF Fail
<1>14. ASSUME NEW c \in calls, Lose(c) PROVE IndexInv'
  <2>1. PICK R : R = [x \in calls |-> IF x = c THEN [c EXCEPT !.tab = NoTab] ELSE x]
    OBVIOUS
  <2>2. \A x \in calls : Same(x, R[x])
    BY <1>0, <2>1, Relabelled
  <2>3. PICK q : q = [stage |-> "sent", op |-> "list"]
    OBVIOUS
  <2>4. q.stage = "sent" /\ q.op = "list"
    BY <2>3
  <2>5. Writes(R[c]) <=> Writes(c)
    BY <1>0, <2>2, SameFields
  <2>6. calls' = (calls \ {c}) \cup {e \in {R[c]} : e.tab # NoTab \/ Writes(e)}
    BY <1>14, <2>1 DEF Lose, Replace
  <2>7. \A x \in calls : x.stage = "indexing" => R[x] \in calls'
    BY <1>1, <2>1, <2>5, <2>6
  <2>8. \A d \in calls' : \E x \in calls : d = R[x]
    BY <2>1, <2>6
  <2> QED
    BY <1>14, <2>2, <2>4, <2>7, <2>8, IndexKept DEF Lose
\* The answers.
<1>15. ASSUME NEW c \in calls, Acted(c) PROVE IndexInv'
  <2>1. PICK q : q = ListCall(c.tab)
    OBVIOUS
  <2>2. q.stage = "sent" /\ q.op = "list"
    BY <2>1 DEF ListCall
  <2> QED
    BY <1>15, <2>1, <2>2, IndexSame DEF Acted, Reloads, ToTab
<1>16. ASSUME NEW c \in calls, Added(c) PROVE IndexInv'
  <2>1. PICK R : R = [d \in calls |-> IF d.tab = c.tab /\ d.op = "add"
                                      THEN [d EXCEPT !.form = FALSE] ELSE d]
    OBVIOUS
  <2>2. \A d \in calls : Same(d, R[d])
    BY <1>0, <2>1, Relabelled
  <2>3. PICK q : q = ListCall(c.tab)
    OBVIOUS
  <2>4. q.stage = "sent" /\ q.op = "list"
    BY <2>3 DEF ListCall
  <2>5. calls' = {R[d] : d \in calls \ {c}} \cup {q}
    BY <1>16, <2>1, <2>3 DEF Added
  <2>6. \A d \in calls : d.stage = "indexing" => R[d] \in calls'
    BY <1>16, <2>5 DEF Added, ToTab
  <2>7. \A d \in calls' : d = q \/ \E e \in calls : d = R[e]
    BY <2>5
  <2> QED
    BY <1>16, <2>2, <2>4, <2>6, <2>7, IndexKept DEF Added
<1>17. ASSUME NEW c \in calls, NotAdded(c) \/ Loaded(c) \/ NotLoaded(c) PROVE IndexInv'
  BY <1>17, IndexQuiet DEF NotAdded, Loaded, NotLoaded, ToTab
<1>18. ASSUME UNCHANGED listVars PROVE IndexInv'
  BY <1>18, IndexQuiet DEF listVars
<1> QED
  BY <1>2, <1>3, <1>4, <1>5, <1>12, <1>13, <1>14, <1>15, <1>16, <1>17, <1>18
  DEF ListsNext, Receive

-----------------------------------------------------------------------------
(* What the pages show *)

LEMMA TimelyNext ==
  TabsInv /\ CallsInv /\ TimelyInv /\ TabsInv' /\ Quiet /\ [ListsNext]_listVars =>
    TimelyInv'
<1> SUFFICES ASSUME TabsInv, CallsInv, TimelyInv, TabsInv', Quiet, [ListsNext]_listVars
             PROVE  TimelyInv'
  OBVIOUS
<1> USE DEF serving, receiving
<1>0. /\ \A c \in calls : CallOK(c)
      /\ \A p \in Tab : Timely(p)
      /\ view \in [Tab -> ViewRecord] /\ writes \in Nat /\ writes' \in Nat
      /\ writes <= writes'
      /\ \A p \in Tab : view[p].known \in Nat /\ view[p].asOf \in Nat
  BY DEF CallsInv, TimelyInv, TabsInv, Quiet, ViewRecord
\* A tab for which nothing changed.
<1>1. ASSUME NEW p \in Tab, view'[p].known = view[p].known,
             view'[p].asOf = view[p].asOf, view'[p].spoiled = view[p].spoiled,
             \A d : d.op = "list" /\ d.tab = p => (d \in calls' <=> d \in calls)
      PROVE  Timely(p)'
  <2>1. Lists(p)' = Lists(p)
    BY <1>1 DEF Lists
  <2>2. view'[p].known <= writes'
    BY <1>0, <1>1 DEF Timely
  <2>3. ASSUME NEW l \in calls, Lists(p) = {l} PROVE l \in calls'
    BY <2>1, <2>3 DEF Lists
  <2> QED
    BY <1>0, <1>1, <2>1, <2>2, <2>3 DEF Timely
\* One that asks for the list when it waits for none.
<1>2. ASSUME NEW p \in Tab, view'[p].known <= writes', NEW q, q.stage = "sent",
             ~view'[p].spoiled => Lists(p)' = {q}
      PROVE  Timely(p)'
  <2>1. Lists(p)' = {q} => q \in calls'
    BY DEF Lists
  <2> QED
    BY <1>2, <2>1 DEF Timely
<1>3. ASSUME NEW p \in Tab, view'[p].known = view[p].known, view'[p].spoiled PROVE Timely(p)'
  BY <1>0, <1>3 DEF Timely
<1>4. ASSUME UNCHANGED view, \A d : d.op = "list" => (d \in calls' <=> d \in calls)
      PROVE  TimelyInv'
  BY <1>1, <1>4 DEF TimelyInv
\* The user's steps.
<1>5. ASSUME NEW p \in Tab, Transition(p) \/ Decide(p) \/ DeleteItem(p)
      PROVE  TimelyInv'
  <2>1. PICK t, to : Act(ActCall(p, t, to))
    BY <1>5 DEF Transition, Decide, DeleteItem, MoveCall, DecisionCall, RemoveCall
  <2>2. ActCall(p, t, to).op = "act"
    BY DEF ActCall
  <2>3. \A d : d.op = "list" => d # ActCall(p, t, to)
    BY <2>2
  <2> QED
    BY <1>4, <2>1, <2>3 DEF Act
<1>6. ASSUME NEW p \in Tab, ToggleForm(p) PROVE TimelyInv'
  <2>1. \A q \in Tab : /\ view'[q].known = view[q].known /\ view'[q].asOf = view[q].asOf
                      /\ view'[q].spoiled = view[q].spoiled
    BY <1>0, <1>6 DEF ToggleForm, ViewRecord
  <2>2. \A d : d.op = "list" => (d \in calls' <=> d \in calls)
    <3>1. \A c \in calls : c.op = "add" => [c EXCEPT !.form = FALSE].op = "add"
      BY <1>0 DEF CallOK
    <3> QED
      BY <1>6, <3>1 DEF ToggleForm, Disowned
  <2> QED
    BY <1>1, <2>1, <2>2 DEF TimelyInv
<1>7. ASSUME NEW p \in Tab, SubmitItem(p) \/ SubmitInvite(p) PROVE TimelyInv'
  <2>1. PICK t : Submit(p, FormCall(p, t))
    BY <1>7 DEF SubmitItem, SubmitInvite, ItemCall, InviteCall
  <2>2. \A d : d.op = "list" => d # FormCall(p, t)
    <3>1. FormCall(p, t).op = "add"
      BY DEF FormCall
    <3> QED
      BY <3>1
  <2>3. \A q \in Tab : /\ view'[q].known = view[q].known /\ view'[q].asOf = view[q].asOf
                      /\ view'[q].spoiled = view[q].spoiled
    BY <1>0, <2>1 DEF Submit, ViewRecord
  <2> QED
    BY <1>1, <2>1, <2>2, <2>3 DEF TimelyInv, Submit
<1>8. ASSUME NEW p \in Tab, Visit(p) PROVE TimelyInv'
  <2>1. PICK q : q = ListCall(p)
    OBVIOUS
  <2>2. q.op = "list" /\ q.stage = "sent" /\ q.tab = p
    BY <2>1 DEF ListCall
  <2>3. \A c \in calls : [c EXCEPT !.tab = NoTab].tab = NoTab
    BY <1>0, Relabelled
  <2>4. calls' = Orphaned(calls, p) \cup {q}
    BY <1>8, <2>1 DEF Visit
  <2>5. Timely(p)'
    <3>1. view'[p].known = 0
      BY <1>0, <1>8 DEF Visit, Opened
    <3>2. Lists(p)' = {q}
      BY <2>2, <2>3, <2>4, ListsAssumption DEF Lists, Orphaned
    <3> QED
      BY <1>0, <1>2, <2>2, <3>1, <3>2
  <2>6. ASSUME NEW r \in Tab, r # p PROVE Timely(r)'
    <3>1. view'[r] = view[r]
      BY <1>0, <1>8, <2>6 DEF Visit
    <3>2. \A d : d.tab = r => (d \in calls' <=> d \in calls)
      BY <2>2, <2>3, <2>4, <2>6, ListsAssumption DEF Orphaned
    <3> QED
      BY <1>1, <3>1, <3>2
  <2> QED
    BY <2>5, <2>6 DEF TimelyInv
\* The services.
<1>9. ASSUME NEW c \in calls, c.op # "list", NEW d, d.op # "list", Replace(c, d),
             UNCHANGED view
      PROVE  TimelyInv'
  BY <1>4, <1>9 DEF Replace
<1>10. ASSUME NEW c \in calls, c.op = "list", NEW d, d.op = "list", d.tab = c.tab,
              Replace(c, d), UNCHANGED view,
              d.stage = "ok" => d.at = writes
       PROVE  TimelyInv'
  <2>1. ASSUME NEW p \in Tab, p # c.tab PROVE Timely(p)'
    <3>1. \A e : e.tab = p => (e \in calls' <=> e \in calls)
      BY <1>10, <2>1 DEF Replace
    <3> QED
      BY <1>1, <1>10, <3>1
  <2>2. ASSUME c.tab \in Tab, ~view[c.tab].spoiled PROVE Timely(c.tab)'
    <3>1. Lists(c.tab) = {c}
      BY <1>0, <1>10, <2>2 DEF Timely, Lists
    <3>2. d \in calls' /\ Lists(c.tab)' = {d}
      BY <1>10, <2>2, <3>1, ListsAssumption DEF Replace, Lists
    <3>3. view[c.tab].known <= writes
      BY <1>0, <2>2 DEF Timely
    <3>4. view[c.tab].known <= writes'
      BY <1>0, <2>2, <3>3
    <3> QED
      BY <1>0, <1>10, <2>2, <3>2, <3>3, <3>4 DEF Timely
  <2>3. ASSUME c.tab \in Tab, view[c.tab].spoiled PROVE Timely(c.tab)'
    BY <1>3, <1>10, <2>3
  <2> QED
    BY <2>1, <2>2, <2>3 DEF TimelyInv
<1>11. ASSUME NEW c \in calls, NEW stage \in {"ok", "error"},
              c.op # "list" \/ stage = "error",
              Replace(c, Answered(c, stage)), UNCHANGED view
       PROVE  TimelyInv'
  <2>1. PICK d : d = Answered(c, stage)
    OBVIOUS
  <2>2. d.op = c.op /\ d.tab = c.tab /\ d.stage = stage
    BY <2>1 DEF Answered
  <2> QED
    BY <1>9, <1>10, <1>11, <2>1, <2>2
<1>12. ASSUME NEW c \in calls, List(c) PROVE TimelyInv'
  <2>1. PICK d : d = [tab |-> c.tab, no |-> c.no, op |-> "list", stage |-> "ok",
                      at |-> writes, rows |-> Listed]
    OBVIOUS
  <2>2. d.op = "list" /\ d.tab = c.tab /\ d.at = writes
    BY <2>1
  <2> QED
    BY <1>10, <1>12, <2>1, <2>2 DEF List, Has
<1>13. ASSUME NEW c \in calls, StoreItem(c) \/ MarkItem(c),
              Replace(c, [c EXCEPT !.stage = "indexing"])
       PROVE  TimelyInv'
  <2>1. c.op # "list" /\ UNCHANGED view
    BY <1>13 DEF StoreItem, MarkItem, Has
  <2>2. [c EXCEPT !.stage = "indexing"].op = c.op
    BY <1>0 DEF CallOK
  <2> QED
    BY <1>9, <1>13, <2>1, <2>2
<1>14. ASSUME NEW c \in calls, CheckMove(c) PROVE TimelyInv'
  <2>1. CASE c.to \in NextStatus(rows[c.thing])
    <3>1. Checked(c).op = "act"
      BY DEF Checked
    <3> QED
      BY <1>9, <1>14, <2>1, <3>1 DEF CheckMove, Has
  <2> QED
    BY <1>11, <1>14, <2>1 DEF CheckMove, Has
<1>15. ASSUME NEW c \in calls, Serve(c) PROVE TimelyInv'
  <2>1. CASE ListOrders(c) \/ ListProposals(c) \/ ListItems(c) \/ ListTeam(c)
    BY <1>12, <2>1 DEF ListOrders, ListProposals, ListItems, ListTeam
  <2>2. CASE \/ Move(c) \/ Approve(c) \/ Reject(c) \/ IndexItem(c) \/ UnindexItem(c)
             \/ CreateInvite(c)
    BY <1>11, <2>2 DEF Move, Approve, Reject, Review, IndexItem, UnindexItem, CreateInvite,
                       Has
  <2>3. CASE StoreItem(c)
    BY <1>13, <2>3 DEF StoreItem
  <2>4. CASE MarkItem(c)
    BY <1>11, <1>13, <2>4 DEF MarkItem, Has
  <2> QED
    BY <1>14, <1>15, <2>1, <2>2, <2>3, <2>4 DEF Serve
<1>16. ASSUME NEW c \in calls, Fail(c) PROVE TimelyInv'
  BY <1>11, <1>16 DEF Fail
\* The answers.
<1>17. ASSUME NEW c \in calls, Acted(c) \/ Added(c) PROVE TimelyInv'
  <2>1. /\ c.tab \in Tab /\ c.op # "list" /\ c.at \in 0 .. writes /\ writes' = writes
    BY <1>0, <1>17 DEF Acted, Added, ToTab, CallOK
  <2>2. PICK q : q = ListCall(c.tab)
    OBVIOUS
  <2>3. q.op = "list" /\ q.stage = "sent" /\ q.tab = c.tab
    BY <2>2 DEF ListCall
  <2>4. \A d : d.op = "list" => (d \in calls' <=> d = q \/ d \in calls)
    <3>1. CASE Acted(c)
      BY <2>1, <2>2, <2>3, <3>1 DEF Acted, Reloads
    <3>2. CASE Added(c)
      <4>1. \A d \in calls : d.op = "add" => [d EXCEPT !.form = FALSE].op = "add"
        BY <1>0 DEF CallOK
      <4> QED
        BY <2>1, <2>2, <2>3, <3>2, <4>1 DEF Added
    <3> QED
      BY <1>17, <3>1, <3>2
  <2>5. /\ view'[c.tab].known \in {c.at, view[c.tab].known}
        /\ view'[c.tab].spoiled <=> view[c.tab].spoiled \/ Lists(c.tab) # {}
        /\ \A p \in Tab \ {c.tab} : view'[p] = view[p]
    BY <1>0, <1>17, <2>1 DEF Acted, Reloads, Added, ViewRecord
  <2>6. Timely(c.tab)'
    <3>1. view'[c.tab].known <= writes'
      BY <1>0, <2>1, <2>5 DEF Timely
    <3>2. ~view'[c.tab].spoiled => Lists(c.tab)' = {q}
      BY <2>3, <2>4, <2>5 DEF Lists
    <3> QED
      BY <1>2, <2>1, <2>3, <3>1, <3>2
  <2>7. \A p \in Tab \ {c.tab} : Timely(p)'
    BY <1>1, <2>3, <2>4, <2>5
  <2> QED
    BY <2>6, <2>7 DEF TimelyInv
<1>18. ASSUME NEW c \in calls, Loaded(c) PROVE TimelyInv'
  <2>1. /\ c.tab \in Tab /\ c.op = "list" /\ c.stage = "ok" /\ c.at \in 0 .. writes
        /\ calls' = calls \ {c} /\ writes' = writes
    BY <1>0, <1>18 DEF Loaded, ToTab, CallOK
  <2>2. /\ view'[c.tab].known = view[c.tab].known /\ view'[c.tab].asOf = c.at
        /\ view'[c.tab].spoiled = view[c.tab].spoiled
        /\ \A p \in Tab \ {c.tab} : view'[p] = view[p]
    BY <1>0, <1>18, <2>1 DEF Loaded, ViewRecord
  <2>3. CASE view[c.tab].spoiled
    <3>1. Timely(c.tab)'
      BY <1>3, <2>1, <2>2, <2>3
    <3>2. \A p \in Tab \ {c.tab} : Timely(p)'
      BY <1>1, <2>1, <2>2
    <3> QED
      BY <3>1, <3>2 DEF TimelyInv
  <2>4. CASE ~view[c.tab].spoiled
    <3>1. Lists(c.tab) = {c} /\ c.at >= view[c.tab].known
      BY <1>0, <2>1, <2>4 DEF Timely, Lists
    <3>2. Lists(c.tab)' = {}
      BY <2>1, <3>1 DEF Lists
    <3>3. Timely(c.tab)'
      BY <1>0, <2>1, <2>2, <3>1, <3>2 DEF Timely
    <3>4. \A p \in Tab \ {c.tab} : Timely(p)'
      BY <1>1, <2>1, <2>2
    <3> QED
      BY <3>3, <3>4 DEF TimelyInv
  <2> QED
    BY <2>3, <2>4
\* A list that failed or was lost spoils the page.
<1>19. ASSUME NEW c \in calls, c.tab \in Tab, view'[c.tab].spoiled,
              view'[c.tab].known = view[c.tab].known,
              \A p \in Tab \ {c.tab} : view'[p] = view[p],
              \A d : d.tab \in Tab \ {c.tab} => (d \in calls' <=> d \in calls)
       PROVE  TimelyInv'
  <2>1. Timely(c.tab)'
    BY <1>3, <1>19
  <2>2. \A p \in Tab \ {c.tab} : Timely(p)'
    BY <1>1, <1>19
  <2> QED
    BY <2>1, <2>2 DEF TimelyInv
<1>20. ASSUME NEW c \in calls, NotLoaded(c) PROVE TimelyInv'
  <2>1. c.tab \in Tab /\ calls' = calls \ {c}
    BY <1>0, <1>20 DEF NotLoaded, ToTab, CallOK
  <2>2. /\ view'[c.tab].spoiled /\ view'[c.tab].known = view[c.tab].known
        /\ \A p \in Tab \ {c.tab} : view'[p] = view[p]
    BY <1>0, <1>20, <2>1 DEF NotLoaded, ViewRecord
  <2> QED
    BY <1>19, <2>1, <2>2
\* Other calls leave what is listed alone.
<1>21. ASSUME \A p \in Tab : /\ view'[p].known = view[p].known
                            /\ view'[p].asOf = view[p].asOf
                            /\ view'[p].spoiled = view[p].spoiled,
              \A d : d.op = "list" => (d \in calls' <=> d \in calls)
       PROVE  TimelyInv'
  BY <1>1, <1>21 DEF TimelyInv
<1>22. ASSUME NEW c \in calls, c.op = "add", c.tab \in Tab, NEW f,
              view' = [view EXCEPT ![c.tab].form = f]
       PROVE  \A p \in Tab : /\ view'[p].known = view[p].known
                            /\ view'[p].asOf = view[p].asOf
                            /\ view'[p].spoiled = view[p].spoiled
  BY <1>0, <1>22 DEF ViewRecord
<1>23. ASSUME NEW c \in calls, NotAdded(c) PROVE TimelyInv'
  <2>1. c.tab \in Tab /\ c.op = "add" /\ calls' = calls \ {c}
    BY <1>0, <1>23 DEF NotAdded, ToTab, CallOK
  <2>2. \E f : view' = [view EXCEPT ![c.tab].form = f]
    BY <1>23 DEF NotAdded
  <2> QED
    BY <1>21, <1>22, <2>1, <2>2
<1>24. ASSUME NEW c \in calls, Lose(c) PROVE TimelyInv'
  <2>1. PICK d : d = [c EXCEPT !.tab = NoTab]
    OBVIOUS
  <2>2. c.tab \in Tab /\ d.op = c.op /\ d.tab = NoTab
    BY <1>0, <1>24, <2>1 DEF Lose, CallOK
  <2>3. calls' = (calls \ {c}) \cup {e \in {d} : e.tab # NoTab \/ Writes(e)}
    BY <1>24, <2>1 DEF Lose, Replace
  <2>4. CASE c.op = "act"
    BY <1>4, <1>24, <2>2, <2>3, <2>4 DEF Lose
  <2>5. CASE c.op = "add"
    <3>1. \E f : view' = [view EXCEPT ![c.tab].form = f]
      BY <1>24, <2>5 DEF Lose
    <3>2. \A e : e.op = "list" => (e \in calls' <=> e \in calls)
      BY <2>2, <2>3, <2>5
    <3> QED
      BY <1>21, <1>22, <2>2, <2>5, <3>1, <3>2
  <2>6. CASE c.op = "list"
    <3>1. /\ view'[c.tab].spoiled /\ view'[c.tab].known = view[c.tab].known
          /\ \A p \in Tab \ {c.tab} : view'[p] = view[p]
      BY <1>0, <1>24, <2>2, <2>6 DEF Lose, ViewRecord
    <3>2. \A e : e.tab \in Tab \ {c.tab} => (e \in calls' <=> e \in calls)
      BY <2>2, <2>3, ListsAssumption
    <3> QED
      BY <1>19, <2>2, <3>1, <3>2
  <2> QED
    BY <1>0, <2>4, <2>5, <2>6 DEF CallOK
<1>25. ASSUME UNCHANGED listVars PROVE TimelyInv'
  BY <1>4, <1>25 DEF listVars
<1> QED
  BY <1>5, <1>6, <1>7, <1>8, <1>15, <1>16, <1>17, <1>18, <1>20, <1>23, <1>24, <1>25
  DEF ListsNext, Receive

-----------------------------------------------------------------------------
(* The invariant *)

LEMMA ListsStart == ListsInit => ListsInd
<1> SUFFICES ASSUME ListsInit PROVE ListsInd
  OBVIOUS
<1>1. page \in Page /\ rows \in [Thing -> Status]
  <2>1. PICK table \in InitialTables : page = table.page /\ rows = table.rows
    BY DEF ListsInit
  <2> QED
    BY <2>1, ListsAssumption
<1>2. \A p \in Tab : view[p] = [Opened EXCEPT !.loading = FALSE, !.rows = Listed]
  BY DEF ListsInit
<1>3. Listed \in [Thing -> Status]
  BY <1>1 DEF Listed, Status
<1>4. PICK v : v = [Opened EXCEPT !.loading = FALSE, !.rows = Listed]
  OBVIOUS
<1>5. /\ v \in ViewRecord /\ v.form = "closed" /\ v.known = 0 /\ v.asOf = 0
  BY <1>3, <1>4 DEF Opened, ViewRecord
<1>6. TabsInv
  BY <1>1, <1>4, <1>5, ListsAssumption DEF ListsInit, TabsInv
<1>7. CallsInv /\ FormsInv
  BY <1>2, <1>4, <1>5 DEF ListsInit, CallsInv, FormsInv
<1>8. IndexInv
  BY DEF ListsInit, IndexInv
<1>9. TimelyInv
  <2>1. ASSUME NEW p \in Tab PROVE view[p].known = 0 /\ view[p].asOf = 0
    BY <1>2, <1>4, <1>5
  <2>2. ASSUME NEW p \in Tab PROVE Lists(p) = {}
    BY DEF ListsInit, Lists
  <2>3. writes = 0
    BY DEF ListsInit
  <2> QED
    BY <2>1, <2>2, <2>3 DEF TimelyInv, Timely
<1> QED
  BY <1>6, <1>7, <1>8, <1>9 DEF ListsInd

LEMMA ListsStep == ListsInd /\ [ListsNext]_listVars => ListsInd'
<1> SUFFICES ASSUME ListsInd, [ListsNext]_listVars PROVE ListsInd'
  OBVIOUS
<1> USE DEF ListsInd
<1>1. TabsInv' /\ Quiet
  BY TabsNext
<1>2. CallsInv'
  BY <1>1, CallsNext
<1>3. FormsInv' /\ IndexInv' /\ TimelyInv'
  BY <1>1, <1>2, FormsNext, IndexNext, TimelyNext
<1> QED
  BY <1>1, <1>2, <1>3

LEMMA ListsHold == ListsInd => ListsInv
<1> SUFFICES ASSUME ListsInd PROVE ListsInv
  OBVIOUS
<1> USE DEF ListsInd
<1>1. ListsTypeOK
  BY DEF ListsTypeOK, TabsInv, CallsInv, CallOK, FormsInv, ViewRecord
<1>2. SearchMatchesCatalog
  BY DEF SearchMatchesCatalog, IndexInv, CallsInv, CallOK
<1>3. OwnActsShown
  BY DEF OwnActsShown, TimelyInv, Timely, Lists
<1> QED
  BY <1>1, <1>2, <1>3 DEF ListsInv

\* The write of a step, and the row it goes to.
LEMMA RowsMove ==
  ASSUME ListsInd, [ListsNext]_listVars, NEW t \in Thing, rows'[t] # rows[t]
  PROVE  /\ page = "proposals" => rows[t] = "pending"
         /\ page = "orders" =>
              \/ rows'[t] \in NextStatus(rows[t])
              \/ \E c \in calls : /\ Has(c, "act", "checked") /\ c.thing = t
                                  /\ c.seen # rows[t]
                                  /\ rows'[t] \in NextStatus(c.seen)
<1> USE DEF serving, receiving, ListsInd
<1>0. (\A c \in calls : CallOK(c)) /\ rows \in [Thing -> Status]
  BY DEF CallsInv, TabsInv
<1>1. PICK c \in calls : Serve(c)
  <2>1. ASSUME NEW p \in Tab, \/ Transition(p) \/ Decide(p) \/ DeleteItem(p)
                              \/ ToggleForm(p) \/ SubmitItem(p) \/ SubmitInvite(p)
                              \/ Visit(p)
        PROVE  rows' = rows
    BY <2>1 DEF Transition, Decide, DeleteItem, Act, ToggleForm, SubmitItem, SubmitInvite,
                Submit, Visit
  <2>2. ASSUME NEW c \in calls, Receive(c) \/ Fail(c) \/ Lose(c) PROVE rows' = rows
    BY <2>2 DEF Receive, Acted, Added, NotAdded, Loaded, NotLoaded, Fail, Lose
  <2> QED
    BY <2>1, <2>2 DEF ListsNext, listVars
<1>2. CASE Move(c)
  <2>1. /\ c.op = "act" /\ c.stage = "checked" /\ page = "orders"
        /\ c.to \in NextStatus(c.seen)
    BY <1>0, <1>2 DEF Move, Has, CallOK
  <2>2. c.thing = t /\ rows'[t] = c.to
    BY <1>0, <1>2 DEF Move, Write
  <2> QED
    BY <2>1, <2>2 DEF Has
<1>3. CASE Approve(c) \/ Reject(c)
  BY <1>0, <1>3 DEF Approve, Reject, Review, Write
<1>4. CASE StoreItem(c) \/ MarkItem(c) \/ CreateInvite(c)
  BY <1>4 DEF StoreItem, MarkItem, CreateInvite
<1> QED
  BY <1>1, <1>2, <1>3, <1>4
  DEF Serve, ListOrders, ListProposals, ListItems, ListTeam, List, CheckMove, IndexItem,
      UnindexItem

\* A step leaves the editor of the blueprint alone, or the lists.
LEMMA ListsAlone ==
  ASSUME [ConsoleNext]_consoleVars
  PROVE  [ListsNext]_listVars
  BY DEF ConsoleNext, consoleVars

\* However many tabs act on what they show, however their calls interleave, fail
\* and are lost: the search finds the catalog's items but for those it slipped
\* on, and a page that waits for nothing shows its own acts (OrdersTable.tsx:26-51,
\* CatalogTable.tsx:77-99, catalog-service main.py:37-106).
THEOREM ListsInvariant == Spec => []ListsInv
<1>1. ConsoleInit => ListsInd
  BY ListsStart DEF ConsoleInit
<1>2. ListsInd /\ [ConsoleNext]_consoleVars => ListsInd'
  BY ListsStep, ListsAlone
<1> QED
  BY <1>1, <1>2, ListsHold, PTL DEF Spec

\* The first reviewer decides, and an order makes the moves that were open when
\* the service checked (order-service main.py:107-129, the approve route).
THEOREM MovesKept == Spec => StatusMoves
<1>1. ConsoleInit => ListsInd
  BY ListsStart DEF ConsoleInit
<1>2. ListsInd /\ [ConsoleNext]_consoleVars => ListsInd'
  BY ListsStep, ListsAlone
<1>3. ListsInd /\ [ConsoleNext]_consoleVars =>
        [\A t \in Thing : rows'[t] # rows[t] =>
           /\ page = "proposals" => rows[t] = "pending"
           /\ page = "orders" =>
                \/ rows'[t] \in NextStatus(rows[t])
                \/ \E c \in calls : /\ Has(c, "act", "checked") /\ c.thing = t
                                    /\ c.seen # rows[t]
                                    /\ rows'[t] \in NextStatus(c.seen)]_listVars
  BY ListsAlone, RowsMove
<1> QED
  BY <1>1, <1>2, <1>3, PTL DEF Spec, StatusMoves
=============================================================================
