--------------------------- MODULE BusinessProofs ---------------------------
(***************************************************************************)
(* Proofs about running a business: its orders, for any number of          *)
(* handlers, orders, commits and interruptions; and, after them, signing   *)
(* in to it, for any finite set of e-mail addresses and any number of      *)
(* tabs, businesses, tries and events.                                     *)
(***************************************************************************)
EXTENDS Orders, Accounts, SequenceTheorems, FiniteSetTheorems, TLAPS

-----------------------------------------------------------------------------
(* The history of commits *)

\* Appending a commit leaves the earlier ones where they are.
LEMMA AppendMove ==
  ASSUME history \in Seq(Move), NEW m \in Move, history' = Append(history, m)
  PROVE  /\ history' \in Seq(Move)
         /\ Len(history) \in Nat /\ Len(history') = Len(history) + 1
         /\ \A i \in 1 .. Len(history) : history'[i] = history[i]
         /\ history'[Len(history) + 1] = m
  OBVIOUS

\* What an order's status was does not change with later commits.
LEMMA HadStable ==
  ASSUME history \in Seq(Move), NEW m \in Move, history' = Append(history, m),
         NEW o, NEW s, NEW n \in 0 .. Len(history), Had(o, s, n)
  PROVE  Had(o, s, n)'
<1>1. \A i \in 1 .. n : i \in 1 .. Len(history)
  BY AppendMove
<1>2. \A i \in 1 .. n : history'[i] = history[i]
  BY <1>1, AppendMove
<1>3. MovesOf(o, n)' = MovesOf(o, n)
  BY <1>2 DEF MovesOf
<1>4. \A i \in MovesOf(o, n) : history'[i] = history[i]
  BY <1>2 DEF MovesOf
<1> QED
  BY <1>3, <1>4 DEF Had

\* A commit makes its status the order's.
LEMMA HadNew ==
  ASSUME history \in Seq(Move), NEW m \in Move, history' = Append(history, m),
         NEW n, n = Len(history) + 1
  PROVE  Had(m.order, m.to, n)'
<1>1. n \in Nat /\ n \in 1 .. n
  BY AppendMove
<1>2. history'[n] = m
  BY AppendMove
<1>3. n \in MovesOf(m.order, n)'
  BY <1>1, <1>2 DEF MovesOf
<1>4. \A j \in MovesOf(m.order, n)' : j <= n
  BY <1>1 DEF MovesOf
<1> QED
  BY <1>2, <1>3, <1>4 DEF Had

\* A commit of another order changes nothing.
LEMMA HadOther ==
  ASSUME history \in Seq(Move), NEW m \in Move, history' = Append(history, m),
         NEW o, o # m.order, NEW s, Had(o, s, Len(history)),
         NEW n, n = Len(history) + 1
  PROVE  Had(o, s, n)'
<1>1. \A i \in 1 .. Len(history) : history'[i] = history[i]
  BY AppendMove
<1>2. \A i \in 1 .. n : i \in 1 .. Len(history) \/ i = n
  BY AppendMove
<1>3. history'[n].order # o
  BY AppendMove
<1>4. \A i \in 1 .. Len(history) : i \in 1 .. n
  BY AppendMove
<1>5. MovesOf(o, n)' = MovesOf(o, Len(history))
  BY <1>1, <1>2, <1>3, <1>4 DEF MovesOf
<1>6. \A i \in MovesOf(o, Len(history)) : history'[i] = history[i]
  BY <1>1 DEF MovesOf
<1> QED
  BY <1>5, <1>6 DEF Had

-----------------------------------------------------------------------------
(* Moves start from a snapshot *)

\* The row is what the last commit on it left.
Current == \A o \in Order : Had(o, status[o], Len(history))

\* A handler on its way to the UPDATE has read a status the order had, and
\* its move was legal from there.
ReadInv ==
    \A h \in Handler : At(h, "update") =>
      /\ req[h].seen \in 0 .. Len(history)
      /\ Had(req[h].order, req[h].from, req[h].seen)
      /\ req[h].to \in VALID_TRANSITIONS[req[h].from]

SnapshotInv == TypeOK /\ Current /\ ReadInv /\ MovesFromSnapshot

LEMMA TaskTyped ==
  ASSUME TypeOK, NEW h \in Handler
  PROVE  /\ Idle \in Task /\ [req EXCEPT ![h] = Idle] \in [Handler -> Task]
         /\ \A i \in Nat \ {0} :
              [req EXCEPT ![h] = [stage |-> "emit", commit |-> i]] \in [Handler -> Task]
         /\ At(h, "update") => /\ req[h].order \in Order /\ req[h].from \in Status
                               /\ req[h].to \in Status /\ req[h].seen \in Nat
         /\ At(h, "emit") => req[h].commit \in Nat \ {0}
<1>1. req[h] \in Task
  BY DEF TypeOK
<1>2. Idle.stage = "idle"
  BY DEF Idle
<1>3. At(h, "update") => /\ req[h].order \in Order /\ req[h].from \in Status
                         /\ req[h].to \in Status /\ req[h].seen \in Nat
  BY <1>1, <1>2 DEF Task, At
<1>4. At(h, "emit") => req[h].commit \in Nat \ {0}
  BY <1>1, <1>2 DEF Task, At
<1>5. ASSUME NEW t \in Task PROVE [req EXCEPT ![h] = t] \in [Handler -> Task]
  BY DEF TypeOK
<1>6. \A i \in Nat \ {0} : [stage |-> "emit", commit |-> i] \in Task
  BY DEF Task
<1>7. Idle \in Task
  BY DEF Task
<1> QED
  BY <1>3, <1>4, <1>5, <1>6, <1>7

\* The step both endpoints end their transaction with.
LEMMA CommitStep ==
  ASSUME SnapshotInv, NEW h \in Handler, NEW o \in Order,
         NEW from \in Status \cup {"absent"}, NEW to \in Status,
         NEW seen \in 0 .. Len(history),
         Had(o, from, seen),
         from # "absent" => to \in VALID_TRANSITIONS[from],
         Commit(h, o, from, to, seen), UNCHANGED <<events, interruptions>>,
         NEW m, m = [order |-> o, from |-> from, to |-> to, seen |-> seen],
         NEW n, n = Len(history) + 1
  PROVE  SnapshotInv'
<1>1. history \in Seq(Move) /\ history' = Append(history, m)
  BY DEF SnapshotInv, TypeOK, Commit
<1>2. m \in Move
  BY <1>1 DEF Move
<1>3. m.order = o /\ m.from = from /\ m.to = to /\ m.seen = seen
  OBVIOUS
<1>4. /\ history' \in Seq(Move) /\ Len(history) \in Nat /\ Len(history') = n
      /\ \A i \in 1 .. Len(history) : history'[i] = history[i]
      /\ history'[n] = m
  BY <1>1, <1>2, AppendMove
<1>5. \A p, s : \A k \in 0 .. Len(history) : Had(p, s, k) => Had(p, s, k)'
  BY <1>1, <1>2, HadStable
<1>6. Had(o, to, n)'
  BY <1>1, <1>2, <1>3, HadNew
<1>7. \A p, s : p # o /\ Had(p, s, Len(history)) => Had(p, s, n)'
  BY <1>1, <1>2, <1>3, HadOther
<1>8. status' = [status EXCEPT ![o] = to] /\ status \in [Order -> Status \cup {"absent"}]
  BY DEF Commit, SnapshotInv, TypeOK
<1>9. /\ req' = [req EXCEPT ![h] = [stage |-> "emit", commit |-> n]]
      /\ n \in Nat \ {0}
  BY <1>4 DEF Commit
<1>10. TypeOK'
  <2>1. req' \in [Handler -> Task]
    BY <1>9, TaskTyped DEF SnapshotInv
  <2> QED
    BY <1>4, <1>8, <2>1 DEF SnapshotInv, TypeOK
<1>11. Current'
  <2> SUFFICES ASSUME NEW p \in Order PROVE Had(p, status[p], Len(history))'
    BY DEF Current
  <2>1. CASE p = o
    BY <1>4, <1>6, <1>8, <2>1
  <2>2. CASE p # o
    <3>1. Had(p, status[p], Len(history)) /\ status'[p] = status[p]
      BY <1>8, <2>2 DEF SnapshotInv, Current
    <3> QED
      BY <1>4, <1>7, <2>2, <3>1
  <2> QED
    BY <2>1, <2>2
<1>12. ReadInv'
  <2> SUFFICES ASSUME NEW g \in Handler, At(g, "update")'
               PROVE  /\ req'[g].seen \in 0 .. n
                      /\ Had(req[g].order, req[g].from, req[g].seen)'
                      /\ req'[g].to \in VALID_TRANSITIONS[req'[g].from]
    BY <1>4 DEF ReadInv
  <2>1. g # h /\ req'[g] = req[g]
    BY <1>9 DEF At, SnapshotInv, TypeOK
  <2>2. At(g, "update")
    BY <2>1 DEF At
  <2>3. /\ req[g].seen \in 0 .. Len(history)
        /\ Had(req[g].order, req[g].from, req[g].seen)
        /\ req[g].to \in VALID_TRANSITIONS[req[g].from]
    BY <2>2 DEF SnapshotInv, ReadInv
  <2> DEFINE po == req[g].order  pf == req[g].from  ps == req[g].seen
  <2>4. ASSUME NEW a, NEW b, NEW c, a = po, b = pf, c = ps PROVE Had(a, b, c)'
    BY <1>5, <2>3, <2>4
  <2> QED
    BY <1>4, <2>1, <2>3, <2>4
<1>13. MovesFromSnapshot'
  <2> SUFFICES ASSUME NEW i \in 1 .. n
               PROVE  LET move == history'[i] IN
                      /\ move.seen < i
                      /\ Had(history[i].order, history[i].from, history[i].seen)'
                      /\ move.from # "absent" => move.to \in VALID_TRANSITIONS[move.from]
    BY <1>4 DEF MovesFromSnapshot
  <2>1. CASE i = n
    <3>1. history'[i] = m
      BY <1>4, <2>1
    <3>2. Had(o, from, seen)'
      BY <1>5
    <3>3. /\ history'[i].order = o /\ history'[i].from = from
          /\ history'[i].to = to /\ history'[i].seen = seen
      BY <1>3, <3>1
    <3>4. seen < i
      BY <1>4, <2>1
    <3> QED
      BY <3>2, <3>3, <3>4
  <2>2. CASE i \in 1 .. Len(history)
    <3>1. history'[i] = history[i]
      BY <1>4, <2>2
    <3>2. /\ history[i].seen < i
          /\ Had(history[i].order, history[i].from, history[i].seen)
          /\ history[i].from # "absent"
               => history[i].to \in VALID_TRANSITIONS[history[i].from]
      BY <1>1, <2>2 DEF SnapshotInv, MovesFromSnapshot
    <3>3. history[i].seen \in 0 .. Len(history)
      <4>1. history[i] \in Move
        BY <1>1, <2>2
      <4> QED
        BY <1>4, <2>2, <3>2, <4>1 DEF Move
    <3>4. ASSUME NEW a, NEW b, NEW c, a = history[i].order, b = history[i].from,
                 c = history[i].seen
          PROVE  Had(a, b, c)'
      BY <1>5, <3>2, <3>3, <3>4
    <3> QED
      BY <3>1, <3>2, <3>4
  <2> QED
    BY <1>4, <2>1, <2>2
<1> QED
  BY <1>10, <1>11, <1>12, <1>13 DEF SnapshotInv

LEMMA SnapshotInit == Init => SnapshotInv
<1> SUFFICES ASSUME Init PROVE SnapshotInv
  OBVIOUS
<1>1. TypeOK
  BY OrdersAssumption DEF Init, TypeOK, Task
<1>2. Len(history) = 0
  BY DEF Init
<1>3. Current
  BY <1>2 DEF Init, Current, Had, MovesOf
<1>4. ReadInv
  BY DEF Init, ReadInv, At, Idle
<1>5. MovesFromSnapshot
  BY <1>2 DEF Init, MovesFromSnapshot
<1> QED
  BY <1>1, <1>3, <1>4, <1>5 DEF SnapshotInv

\* A step that commits nothing keeps what is known of the history.
LEMMA QuietStep ==
  ASSUME SnapshotInv, TypeOK', UNCHANGED <<status, history>>,
         NEW h \in Handler,
         \A g \in Handler : g # h => req'[g] = req[g],
         req'[h] = Idle \/ req'[h].stage = "emit"
  PROVE  SnapshotInv'
<1>1. \A p, s, k : Had(p, s, k) => Had(p, s, k)'
  BY DEF Had, MovesOf
<1>2. Current'
  <2> SUFFICES ASSUME NEW o \in Order PROVE Had(o, status[o], Len(history))'
    BY DEF Current
  <2> QED
    BY <1>1 DEF SnapshotInv, Current
<1>3. ReadInv'
  <2> SUFFICES ASSUME NEW g \in Handler, At(g, "update")'
               PROVE  /\ req'[g].seen \in 0 .. Len(history')
                      /\ Had(req[g].order, req[g].from, req[g].seen)'
                      /\ req'[g].to \in VALID_TRANSITIONS[req'[g].from]
    BY DEF ReadInv
  <2>1. g # h
    BY DEF At, Idle
  <2>2. req'[g] = req[g] /\ At(g, "update")
    BY <2>1 DEF At
  <2> QED
    BY <1>1, <2>2 DEF SnapshotInv, ReadInv
<1>4. MovesFromSnapshot'
  BY <1>1 DEF SnapshotInv, MovesFromSnapshot
<1> QED
  BY <1>2, <1>3, <1>4 DEF SnapshotInv

LEMMA SnapshotNext == SnapshotInv /\ [Next]_vars => SnapshotInv'
<1> SUFFICES ASSUME SnapshotInv, [Next]_vars PROVE SnapshotInv'
  OBVIOUS
<1> USE DEF SnapshotInv
<1>0. TypeOK /\ Len(history) \in Nat
  BY DEF TypeOK
<1>1. CASE UNCHANGED vars
  BY <1>1 DEF vars, TypeOK, Current, ReadInv, MovesFromSnapshot, Had, MovesOf, At
<1>2. ASSUME NEW h \in Handler, NEW o \in Order, Create(h, o) PROVE SnapshotInv'
  <2>1. Had(o, "absent", Len(history))
    BY <1>2 DEF Create, Current
  <2>2. Commit(h, o, "absent", "created", Len(history))
    BY <1>2 DEF Create
  <2>3. ASSUME NEW from \in Status \cup {"absent"}, NEW to \in Status,
               NEW seen \in 0 .. Len(history),
               from = "absent", to = "created", seen = Len(history)
        PROVE  SnapshotInv'
    <3>1. Commit(h, o, from, to, seen) /\ Had(o, from, seen)
      BY <2>1, <2>2, <2>3
    <3> QED
      BY <1>2, <2>3, <3>1, CommitStep DEF Create
  <2> QED
    BY <1>0, <2>3 DEF Status
<1>3. ASSUME NEW h \in Handler, NEW o \in Order, NEW to \in Requested, Read(h, o, to)
      PROVE  SnapshotInv'
  <2>1. status[o] \in Status /\ to \in Status /\ to \in VALID_TRANSITIONS[status[o]]
    BY <1>3 DEF Read, Legal, Requested
  <2> DEFINE t == [stage |-> "update", order |-> o, to |-> to,
                   from |-> status[o], seen |-> Len(history)]
  <2>2. req' = [req EXCEPT ![h] = t] /\ UNCHANGED <<status, history, events, interruptions>>
    BY <1>3 DEF Read
  <2>3. t \in Task
    BY <1>0, <2>1 DEF Task
  <2>4. TypeOK'
    BY <1>0, <2>2, <2>3 DEF TypeOK
  <2>5. \A p, s, k : Had(p, s, k) => Had(p, s, k)'
    BY <2>2 DEF Had, MovesOf
  <2>6. Current'
    <3> SUFFICES ASSUME NEW p \in Order PROVE Had(p, status[p], Len(history))'
      BY DEF Current
    <3> QED
      BY <2>2, <2>5 DEF Current
  <2>7. ReadInv'
    <3> SUFFICES ASSUME NEW g \in Handler, At(g, "update")'
                 PROVE  /\ req'[g].seen \in 0 .. Len(history')
                        /\ Had(req[g].order, req[g].from, req[g].seen)'
                        /\ req'[g].to \in VALID_TRANSITIONS[req'[g].from]
      BY DEF ReadInv
    <3>1. CASE g = h
      <4>1. req'[g] = t
        BY <1>0, <2>2, <3>1 DEF TypeOK
      <4>2. Had(o, status[o], Len(history))
        BY DEF Current
      <4> QED
        BY <1>0, <2>1, <2>2, <2>5, <4>1, <4>2
    <3>2. CASE g # h
      <4>1. req'[g] = req[g] /\ At(g, "update")
        BY <2>2, <3>2 DEF At, TypeOK
      <4> QED
        BY <2>2, <2>5, <4>1 DEF ReadInv
    <3> QED
      BY <3>1, <3>2
  <2>8. MovesFromSnapshot'
    BY <2>2, <2>5 DEF MovesFromSnapshot
  <2> QED
    BY <2>4, <2>6, <2>7, <2>8
<1>4. ASSUME NEW h \in Handler, Update(h) PROVE SnapshotInv'
  <2>1. At(h, "update")
    BY <1>4 DEF Update
  <2>2. /\ req[h].order \in Order /\ req[h].from \in Status /\ req[h].to \in Status
        /\ req[h].seen \in 0 .. Len(history)
        /\ Had(req[h].order, req[h].from, req[h].seen)
        /\ req[h].to \in VALID_TRANSITIONS[req[h].from]
    BY <1>0, <2>1, TaskTyped DEF ReadInv
  <2>3. /\ Commit(h, req[h].order, req[h].from, req[h].to, req[h].seen)
        /\ UNCHANGED <<events, interruptions>>
    BY <1>4 DEF Update
  <2>4. ASSUME NEW o \in Order, NEW from \in Status, NEW to \in Status,
               NEW seen \in 0 .. Len(history),
               o = req[h].order, from = req[h].from, to = req[h].to, seen = req[h].seen
        PROVE  SnapshotInv'
    <3>1. Commit(h, o, from, to, seen)
      BY <2>3, <2>4
    <3> QED
      BY <1>0, <2>2, <2>3, <2>4, <3>1, CommitStep
  <2> QED
    BY <2>2, <2>4
<1>5. ASSUME NEW h \in Handler, Emit(h) \/ EmitFails(h) \/ Crash(h) PROVE SnapshotInv'
  <2>1. req' = [req EXCEPT ![h] = Idle] /\ UNCHANGED <<status, history>>
    BY <1>5 DEF Emit, EmitFails, Crash
  <2>2. req' \in [Handler -> Task]
    BY <1>0, <2>1, TaskTyped
  <2>3. At(h, "emit") => Append(events, req[h].commit) \in Seq(Nat \ {0})
    BY <1>0, TaskTyped DEF TypeOK
  <2>4. events' \in Seq(Nat \ {0})
    BY <1>0, <1>5, <2>3 DEF TypeOK, Emit, EmitFails, Crash
  <2>5. interruptions' \in 0 .. MaxInterruptions
    BY <1>0, <1>5, OrdersAssumption DEF TypeOK, Emit, EmitFails, Crash, Interrupted
  <2>6. TypeOK'
    BY <1>0, <2>1, <2>2, <2>4, <2>5 DEF TypeOK
  <2>7. req'[h] = Idle /\ \A g \in Handler : g # h => req'[g] = req[g]
    BY <1>0, <2>1 DEF TypeOK
  <2> QED
    BY <2>1, <2>6, <2>7, QuietStep
<1> QED
  BY <1>1, <1>2, <1>3, <1>4, <1>5 DEF Next

\* The types hold in every reachable state, for any handlers and bounds.
THEOREM TypeCorrect == Spec => []TypeOK
<1>1. SnapshotInv => TypeOK
  BY DEF SnapshotInv
<1> QED
  BY <1>1, SnapshotInit, SnapshotNext, PTL DEF Spec

\* However many handlers move an order at once, every move is legal from a
\* status the order had when its handler read it.
THEOREM MovesAreFromSnapshots == Spec => []MovesFromSnapshot
<1>1. SnapshotInv => MovesFromSnapshot
  BY DEF SnapshotInv
<1> QED
  BY <1>1, SnapshotInit, SnapshotNext, PTL DEF Spec

-----------------------------------------------------------------------------
(* Events are commits, once each *)

\* A handler about to publish holds a commit that no event announces and no
\* other handler holds.
EmitInv ==
    \A h \in Handler : At(h, "emit") =>
      /\ req[h].commit \in DOMAIN history
      /\ \A i \in DOMAIN events : events[i] # req[h].commit
      /\ \A g \in Handler : g # h /\ At(g, "emit") => req[g].commit # req[h].commit

EventInv == TypeOK /\ EmitInv /\ EventsAreCommits

\* A commit's index is new to everyone.
LEMMA CommitIsNew ==
  ASSUME EventInv, NEW h \in Handler, NEW o, NEW from, NEW to, NEW seen,
         Commit(h, o, from, to, seen), UNCHANGED <<events, interruptions>>
  PROVE  EmitInv' /\ EventsAreCommits'
<1> USE DEF EventInv
<1> DEFINE n == Len(history) + 1
<1>1. /\ Len(history) \in Nat /\ DOMAIN history = 1 .. Len(history)
      /\ DOMAIN history' = 1 .. n
  BY DEF TypeOK, Commit
<1>2. \A i \in DOMAIN history : i \in DOMAIN history' /\ i # n
  BY <1>1
<1>3. n \in DOMAIN history'
  BY <1>1
<1>4. events' = events /\ \A i \in DOMAIN events : events[i] \in DOMAIN history
  BY DEF EventsAreCommits
<1>5. \A g \in Handler : g # h => req'[g] = req[g]
  BY DEF Commit, TypeOK
<1>6. req'[h].stage = "emit" /\ req'[h].commit = n
  BY DEF Commit, TypeOK
<1>7. EventsAreCommits'
  BY <1>2, <1>4 DEF EventsAreCommits
<1>8. ASSUME NEW g \in Handler, At(g, "emit")'
      PROVE  /\ req'[g].commit \in DOMAIN history'
             /\ \A i \in DOMAIN events' : events'[i] # req'[g].commit
             /\ \A f \in Handler : f # g /\ At(f, "emit")' => req'[f].commit # req'[g].commit
  <2> HIDE DEF n
  <2>1. CASE g = h
    <3>1. \A f \in Handler : f # g /\ At(f, "emit")' => req'[f].commit \in DOMAIN history
      BY <1>5, <2>1 DEF EmitInv, At
    <3> QED
      BY <1>2, <1>3, <1>4, <1>6, <2>1, <3>1
  <2>2. CASE g # h
    <3>1. req'[g] = req[g] /\ At(g, "emit")
      BY <1>5, <1>8, <2>2 DEF At
    <3>2. \A f \in Handler : f # g /\ At(f, "emit")' =>
            \/ f = h /\ req'[f].commit = n
            \/ At(f, "emit") /\ req'[f].commit = req[f].commit
      BY <1>5, <1>6 DEF At
    <3> QED
      BY <1>2, <1>4, <3>1, <3>2 DEF EmitInv
  <2> QED
    BY <2>1, <2>2
<1>9. EmitInv'
  BY <1>8 DEF EmitInv
<1> QED
  BY <1>7, <1>9

LEMMA EventInit == Init => EventInv
  BY SnapshotInit DEF SnapshotInv, EventInv, Init, EmitInv, EventsAreCommits, At, Idle

LEMMA EventNext == EventInv /\ TypeOK' /\ [Next]_vars => EventInv'
<1> SUFFICES ASSUME EventInv, TypeOK', [Next]_vars PROVE EmitInv' /\ EventsAreCommits'
  BY DEF EventInv
<1> USE DEF EventInv
<1>1. CASE UNCHANGED vars
  BY <1>1 DEF vars, EmitInv, EventsAreCommits, At
<1>2. ASSUME NEW h \in Handler, NEW o \in Order, Create(h, o)
      PROVE  EmitInv' /\ EventsAreCommits'
  BY <1>2, CommitIsNew DEF Create
<1>3. ASSUME NEW h \in Handler, NEW o \in Order, NEW to \in Requested, Read(h, o, to)
      PROVE  EmitInv' /\ EventsAreCommits'
  <2>1. req'[h].stage = "update" /\ \A g \in Handler : g # h => req'[g] = req[g]
    BY <1>3 DEF Read, TypeOK
  <2> QED
    BY <1>3, <2>1 DEF Read, EmitInv, EventsAreCommits, At
<1>4. ASSUME NEW h \in Handler, Update(h) PROVE EmitInv' /\ EventsAreCommits'
  BY <1>4, CommitIsNew DEF Update
<1>5. ASSUME NEW h \in Handler, Emit(h) \/ EmitFails(h) \/ Crash(h)
      PROVE  EmitInv' /\ EventsAreCommits'
  <2>1. /\ req'[h].stage = "idle" /\ history' = history
        /\ \A g \in Handler : g # h => req'[g] = req[g]
    BY <1>5 DEF Emit, EmitFails, Crash, TypeOK, Idle
  <2>2. \/ events' = events
        \/ At(h, "emit") /\ events' = Append(events, req[h].commit)
    BY <1>5 DEF Emit, EmitFails, Crash
  <2>3. CASE events' = events
    BY <2>1, <2>3 DEF EmitInv, EventsAreCommits, At
  <2>4. CASE At(h, "emit") /\ events' = Append(events, req[h].commit)
    <3> DEFINE k == Len(events) + 1  c == req[h].commit
    <3>1. events \in Seq(Nat \ {0}) /\ c \in Nat \ {0}
      BY <2>4, TaskTyped DEF TypeOK
    <3>2. /\ DOMAIN events' = DOMAIN events \cup {k} /\ k \notin DOMAIN events
          /\ events'[k] = c /\ \A i \in DOMAIN events : events'[i] = events[i]
      BY <2>4, <3>1
    <3>3. /\ c \in DOMAIN history /\ \A i \in DOMAIN events : events[i] # c
          /\ \A g \in Handler : g # h /\ At(g, "emit") => req[g].commit # c
      BY <2>4 DEF EmitInv
    <3> HIDE DEF k, c
    <3>4. EventsAreCommits'
      BY <2>1, <3>2, <3>3 DEF EventsAreCommits
    <3>5. ASSUME NEW g \in Handler, At(g, "emit")'
          PROVE  g # h /\ At(g, "emit") /\ req'[g] = req[g]
      BY <2>1, <3>5 DEF At
    <3>6. EmitInv'
      <4> SUFFICES ASSUME NEW g \in Handler, At(g, "emit")'
                   PROVE  /\ req'[g].commit \in DOMAIN history'
                          /\ \A i \in DOMAIN events' : events'[i] # req'[g].commit
                          /\ \A f \in Handler : f # g /\ At(f, "emit")'
                               => req'[f].commit # req'[g].commit
        BY DEF EmitInv
      <4>1. g # h /\ At(g, "emit") /\ req'[g] = req[g]
        BY <3>5
      <4>2. \A f \in Handler : f # g /\ At(f, "emit")' => req'[f].commit # req'[g].commit
        BY <3>5, <4>1 DEF EmitInv
      <4>3. \A i \in DOMAIN events : events[i] # req[g].commit
        BY <4>1 DEF EmitInv
      <4>4. req[g].commit # c /\ req[g].commit \in DOMAIN history
        BY <3>3, <4>1 DEF EmitInv
      <4> QED
        BY <2>1, <3>2, <4>1, <4>2, <4>3, <4>4
    <3> QED
      BY <3>4, <3>6
  <2> QED
    BY <2>2, <2>3, <2>4
<1> QED
  BY <1>1, <1>2, <1>3, <1>4, <1>5 DEF Next

\* Subscribers hear of committed moves only, and of each at most once, however
\* handlers interleave and publishes fail.
THEOREM EventsOncePerCommit == Spec => []EventsAreCommits
<1>1. EventInv => EventsAreCommits
  BY DEF EventInv
<1> QED
  BY <1>1, EventInit, EventNext, TypeCorrect, PTL DEF Spec

-----------------------------------------------------------------------------
(* Refinement *)

\* A function on 1 .. n is a sequence of length n.
LEMMA FunctionIsSeq ==
  ASSUME NEW S, NEW n \in Nat, NEW f \in [1 .. n -> S]
  PROVE  f \in Seq(S) /\ Len(f) = n
<1>1. f \in Seq(S)
  BY SeqDef
<1>2. Len(f) \in Nat /\ DOMAIN f = 1 .. Len(f)
  BY <1>1, LenProperties
<1>3. 1 .. n = 1 .. Len(f)
  BY <1>2
<1> QED
  BY <1>1, <1>2, <1>3

\* A commit is one more move.
LEMMA MovesAppend ==
  ASSUME history \in Seq(Move), NEW m \in Move, history' = Append(history, m)
  PROVE  Moves' = Append(Moves, [order |-> m.order, from |-> m.from, to |-> m.to])
<1> DEFINE Plain == [order : Order, from : Status \cup {"absent"}, to : Status]
           PlainOf(e) == [order |-> e.order, from |-> e.from, to |-> e.to]
           x == PlainOf(m)
<1>1. \A e \in Move : PlainOf(e) \in Plain
  BY DEF Move
<1>2. /\ Len(history) \in Nat /\ Len(history') \in Nat
      /\ DOMAIN history = 1 .. Len(history) /\ DOMAIN history' = 1 .. Len(history')
      /\ \A i \in 1 .. Len(history) : history[i] \in Move
      /\ \A i \in 1 .. Len(history') : history'[i] \in Move
  <2>1. history' \in Seq(Move)
    BY AppendMove
  <2> QED
    BY <2>1
<1>3. Moves \in Seq(Plain) /\ Len(Moves) = Len(history)
  <2>1. Moves = [i \in 1 .. Len(history) |-> PlainOf(history[i])]
    BY <1>2 DEF Moves
  <2> HIDE DEF Plain, PlainOf
  <2>2. Moves \in [1 .. Len(history) -> Plain]
    BY <1>1, <1>2, <2>1
  <2> QED
    BY <1>2, <2>2, FunctionIsSeq
<1>4. Moves' \in Seq(Plain) /\ Len(Moves') = Len(history) + 1
  <2>1. Moves' = [i \in 1 .. Len(history') |-> PlainOf(history'[i])]
    BY <1>2 DEF Moves
  <2> HIDE DEF Plain, PlainOf
  <2>2. Moves' \in [1 .. Len(history') -> Plain]
    BY <1>1, <1>2, <2>1
  <2>3. Moves' \in Seq(Plain) /\ Len(Moves') = Len(history')
    BY <1>2, <2>2, FunctionIsSeq
  <2> QED
    BY <2>3, AppendMove
<1>5. /\ Append(Moves, x) \in Seq(Plain)
      /\ Len(Append(Moves, x)) = Len(history) + 1
      /\ \A i \in 1 .. Len(history) : Append(Moves, x)[i] = Moves[i]
      /\ Append(Moves, x)[Len(history) + 1] = x
  <2>1. x \in Plain
    BY <1>1
  <2> HIDE DEF Plain, x
  <2> QED
    BY <1>3, <2>1, AppendProperties
<1>6. \A i \in 1 .. Len(history) : Moves'[i] = Moves[i]
  BY AppendMove DEF Moves
<1>7. Moves'[Len(history) + 1] = x
  BY AppendMove DEF Moves
<1>8. \A i \in 1 .. Len(history) + 1 : Moves'[i] = Append(Moves, x)[i]
  BY <1>5, <1>6, <1>7, AppendMove
<1> HIDE DEF Plain, x
<1>9. Moves' = Append(Moves, x)
  BY <1>4, <1>5, <1>8, SeqEqual
<1> QED
  BY <1>9 DEF x

\* A status that an order had before some commit, it was moved to.
LEMMA HadIsMove ==
  ASSUME history \in Seq(Move), NEW o, NEW s \in Status,
         NEW n \in 0 .. Len(history), Had(o, s, n)
  PROVE  Lifecycle!HasBeen(o, s)
<1>1. PICK i \in MovesOf(o, n) : s = history[i].to
  BY DEF Had, Status
<1>2. i \in DOMAIN history /\ history[i].order = o
  BY <1>1 DEF MovesOf
<1>3. i \in DOMAIN Moves /\ Moves[i].order = o /\ Moves[i].to = s
  BY <1>1, <1>2 DEF Moves
<1> QED
  BY <1>3 DEF Lifecycle!HasBeen

\* The step both endpoints end their transaction with is a move.
LEMMA CommitMoves ==
  ASSUME TypeOK, NEW h, NEW o \in Order, NEW from \in Status \cup {"absent"},
         NEW to \in Successors[from], NEW seen \in Nat,
         IF from = "absent" THEN status[o] = "absent" ELSE Lifecycle!HasBeen(o, from),
         Commit(h, o, from, to, seen), events' = events
  PROVE  Lifecycle!Next
<1> DEFINE m == [order |-> o, from |-> from, to |-> to, seen |-> seen]
<1>1. DOMAIN Successors = Status \cup {"absent"} /\ to \in Status
  BY DEF Successors, Status, VALID_TRANSITIONS
<1>2. m \in Move
  BY <1>1 DEF Move
<1>3. history \in Seq(Move) /\ history' = Append(history, m)
  BY DEF TypeOK, Commit
<1>4. Moves' = Append(Moves, [order |-> m.order, from |-> m.from, to |-> m.to])
  BY <1>2, <1>3, MovesAppend
<1>5. Moves' = Append(Moves, [order |-> o, from |-> from, to |-> to])
  BY <1>4
<1>6. status' = [status EXCEPT ![o] = to]
  BY DEF Commit
<1>7. Lifecycle!Move(o, from, to)
  BY <1>5, <1>6 DEF Lifecycle!Move
<1> QED
  BY <1>1, <1>7 DEF Lifecycle!Next

LEMMA StepsLifecycle ==
  SnapshotInv /\ EventInv /\ [Next]_vars => [Lifecycle!Next]_Lifecycle!lifecycle
<1> SUFFICES ASSUME SnapshotInv, EventInv, [Next]_vars
             PROVE  Lifecycle!Next \/ UNCHANGED <<status, history, events>>
  BY DEF Lifecycle!lifecycle, Moves
<1>0. TypeOK /\ history \in Seq(Move) /\ Len(history) \in Nat
  BY DEF SnapshotInv, TypeOK
<1>1. CASE UNCHANGED vars
  BY <1>1 DEF vars
<1>2. ASSUME NEW h \in Handler, NEW o \in Order, Create(h, o) PROVE Lifecycle!Next
  <2>1. status[o] = "absent" /\ Commit(h, o, "absent", "created", Len(history))
        /\ events' = events
    BY <1>2 DEF Create
  <2>2. "created" \in Successors["absent"]
    BY DEF Successors
  <2>3. ASSUME NEW from \in Status \cup {"absent"}, NEW to \in Successors[from],
               NEW seen \in Nat, from = "absent", to = "created", seen = Len(history)
        PROVE  Lifecycle!Next
    BY <1>0, <2>1, <2>3, CommitMoves
  <2> QED
    BY <1>0, <2>2, <2>3
<1>3. ASSUME NEW h \in Handler, NEW o \in Order, NEW to \in Requested, Read(h, o, to)
      PROVE  UNCHANGED <<status, history, events>>
  BY <1>3 DEF Read
<1>4. ASSUME NEW h \in Handler, Update(h) PROVE Lifecycle!Next
  <2>1. /\ At(h, "update") /\ events' = events
        /\ Commit(h, req[h].order, req[h].from, req[h].to, req[h].seen)
    BY <1>4 DEF Update
  <2>2. /\ req[h].order \in Order /\ req[h].from \in Status
        /\ req[h].seen \in 0 .. Len(history)
        /\ Had(req[h].order, req[h].from, req[h].seen)
        /\ req[h].to \in VALID_TRANSITIONS[req[h].from]
    BY <1>0, <2>1, TaskTyped DEF SnapshotInv, ReadInv
  <2>3. req[h].from # "absent" /\ req[h].to \in Successors[req[h].from]
    BY <2>2 DEF Successors, Status
  <2>4. Lifecycle!HasBeen(req[h].order, req[h].from)
    BY <1>0, <2>2, HadIsMove
  <2>5. ASSUME NEW o \in Order, NEW from \in Status \cup {"absent"},
               NEW to \in Successors[from], NEW seen \in Nat,
               o = req[h].order, from = req[h].from, to = req[h].to, seen = req[h].seen
        PROVE  Lifecycle!Next
    <3>1. Commit(h, o, from, to, seen) /\ from # "absent" /\ Lifecycle!HasBeen(o, from)
      BY <2>1, <2>3, <2>4, <2>5
    <3> QED
      BY <1>0, <2>1, <3>1, CommitMoves
  <2> QED
    BY <1>0, <2>2, <2>3, <2>5
<1>5. ASSUME NEW h \in Handler, Emit(h) \/ EmitFails(h) \/ Crash(h)
      PROVE  Lifecycle!Next \/ UNCHANGED <<status, history, events>>
  <2>1. UNCHANGED <<status, history>>
    BY <1>5 DEF Emit, EmitFails, Crash
  <2>2. \/ events' = events
        \/ At(h, "emit") /\ events' = Append(events, req[h].commit)
    BY <1>5 DEF Emit, EmitFails, Crash
  <2>3. ASSUME At(h, "emit"), events' = Append(events, req[h].commit)
        PROVE  Lifecycle!Next
    <3>1. req[h].commit \in DOMAIN history /\ \A i \in DOMAIN events : events[i] # req[h].commit
      BY <2>3 DEF EventInv, EmitInv
    <3>2. req[h].commit \in DOMAIN Moves /\ Moves' = Moves
      BY <2>1, <3>1 DEF Moves
    <3>3. Lifecycle!Announce(req[h].commit)
      BY <2>1, <2>3, <3>1, <3>2 DEF Lifecycle!Announce
    <3> QED
      BY <3>2, <3>3 DEF Lifecycle!Next
  <2> QED
    BY <2>1, <2>2, <2>3
<1> QED
  BY <1>1, <1>2, <1>3, <1>4, <1>5 DEF Next

LEMMA InitLifecycle == Init => Lifecycle!Init
  BY DEF Init, Lifecycle!Init, Moves

\* The handlers together implement the abstract order service: legal moves from
\* statuses the order has had, a creation, and announcements at most once.
THEOREM LifecycleImplemented == Spec => ImplementsLifecycle
<1>1. SnapshotInv => TypeOK
  BY DEF SnapshotInv
<1> QED
  BY <1>1, InitLifecycle, StepsLifecycle, SnapshotInit, SnapshotNext, EventInit, EventNext,
     PTL DEF Spec, ImplementsLifecycle, Lifecycle!Spec

-----------------------------------------------------------------------------

\* Every move is of a status the order had, and every event of a committed move,
\* for any handlers and orders (order-service main.py:107-141).
THEOREM OrdersInvariant == Spec => []OrdersInv
  BY TypeCorrect, MovesAreFromSnapshots, EventsOncePerCommit, PTL DEF OrdersInv

-----------------------------------------------------------------------------
(* The accounts: the invariant                                               *)

\* What is sent, what a route makes of it, and what it answers.
Sender == Tab \cup {None}
StartRequest(n) == [tab : Sender, no : {n}, op : {"start"}, stage : {"sent"},
                    cookie : Sessions, email : Email]
VerifyRequest(n) == [tab : Sender, no : {n}, op : {"verify"},
                     stage : {"sent", "resolve", "create", "members"},
                     cookie : Sessions, email : Email, code : Nat,
                     principal : 0 .. principals]
SwitchRequest(n) == [tab : Sender, no : {n}, op : {"switch"}, stage : {"sent"},
                     cookie : Sessions, tenant : Tenant]
LogoutRequest(n) == [tab : Sender, no : {n}, op : {"logout"}, stage : {"sent"},
                     cookie : Sessions]
Error(n) == [tab : Sender, no : {n}, op : {"start", "verify", "switch", "logout"},
             stage : {"error"}]
Redirected(n) == [tab : Sender, no : {n}, op : {"switch"}, stage : {"ok"}]
Mailed(n) == [tab : Sender, no : {n}, op : {"start"}, stage : {"ok"}, email : Email]
Accepted(n) == [tab : Sender, no : {n}, op : {"verify", "switch", "logout"},
                stage : {"ok"}, cookie : Sessions,
                count : {Cardinality(T) : T \in SUBSET Tenant} \cup {0, 1}]

\* The business of a session is its user's, or was left by another one.
TenantOK(s) ==
    s # Nothing /\ s.tenant # None =>
        /\ s.tenant \in Memberships(s.by)
        /\ s.by # s.principal => Cardinality(Memberships(s.principal)) # 1
CodeOK(r) == /\ r.code # 0 => r.code \in DOMAIN codes /\ codes[r.code].email = r.email
             /\ r.stage = "members" => r.principal # 0

SentOK(r) ==
    /\ \/ r \in StartRequest(r.no) \/ r \in SwitchRequest(r.no)
       \/ r \in LogoutRequest(r.no) \/ r \in Accepted(r.no)
       \/ r \in VerifyRequest(r.no) /\ CodeOK(r)
    /\ TenantOK(r.cookie)
RequestOK(r) ==
    SentOK(r) \/ r \in Error(r.no) \/ r \in Redirected(r.no) \/ r \in Mailed(r.no)
RequestsInv == \A r \in requests : RequestOK(r)

\* Users and principals are the same, and a new principal is a member of nothing.
IdentityInv ==
    /\ member \in [Email -> SUBSET Tenant] /\ principals \in Nat
    /\ identity \in [Email -> 0 .. principals]
    /\ \A e \in Email : identity[e] = 0 => member[e] = {}
    /\ \A e, f \in Email : identity[e] # 0 /\ identity[e] = identity[f] => e = f
    /\ \A n \in 1 .. principals : \E e \in Email : identity[e] = n

\* A code that waits to be used is its user's and its replica's, counts its tries,
\* and is the last one of both unless it is gone.
Slot == Replica \X Email
Of(c) == <<codes[c].at, codes[c].email>>
Code == [email : Email, at : Replica, tried : Nat, used : {0, 1}, gone : BOOLEAN]
Entry == [code : Nat, attempts : 0 .. MaxAttempts, expired : BOOLEAN]
EntryOK(s) ==
    /\ store[s] \in Entry /\ store[s].code \in DOMAIN codes
    /\ codes[store[s].code] = [email |-> s[2], at |-> s[1], tried |-> store[s].attempts,
                               used |-> 0, gone |-> store[s].expired]
CodesInv ==
    /\ codes \in Seq(Code)
    /\ DOMAIN store = Slot /\ store = [s \in Slot |-> store[s]]
    /\ \A s \in Slot : store[s] # Nothing => EntryOK(s)
    /\ CodeOnce
    /\ \A c \in DOMAIN codes : Good(c) => store[Of(c)] # Nothing /\ store[Of(c)].code = c

\* A page that asks for a code knows whose.
PageState == [page : {"login", "verify", "tenant", "app", "landing", "onboarding"},
              email : Email \cup {None}, shown : SUBSET Tenant,
              busy : Tenant \cup {None, "yes"}]
PageOK(t) == t \in PageState /\ (t.page = "verify" => t.email \in Email)
PagesInv == tab \in [Tab -> PageState] /\ \A p \in Tab : PageOK(tab[p])

SessionOK(s) == s \in Sessions /\ TenantOK(s)

SignInInv == /\ RequestsInv /\ IdentityInv /\ CodesInv /\ PagesInv /\ SessionOK(jar)
             /\ eventsLeft \in 0 .. MaxEvents

-----------------------------------------------------------------------------
(* What a step leaves                                                        *)

\* Principals stay members of what they were, and codes those of their users.
Lasting == /\ member' = member /\ principals' \in Nat /\ principals <= principals'
           /\ \A n \in 1 .. principals : Memberships(n)' = Memberships(n)
           /\ \A c \in DOMAIN codes : /\ c \in DOMAIN codes'
                                      /\ codes'[c].email = codes[c].email

LEMMA MembershipsOf ==
  ASSUME IdentityInv, NEW n PROVE Memberships(n) \subseteq Tenant
  BY DEF IdentityInv, Memberships

LEMMA SessionFields ==
  ASSUME NEW s \in Sessions, s # Nothing
  PROVE  /\ s.email \in Email /\ s.principal \in 1 .. principals
         /\ s.tenant \in Tenant \cup {None} /\ s.by \in 1 .. principals
  BY DEF Sessions

LEMMA SessionsLast ==
  ASSUME IdentityInv, Lasting, NEW s, SessionOK(s)
  PROVE  SessionOK(s)'
<1>1. s \in Sessions'
  BY DEF SessionOK, Sessions, IdentityInv, Lasting
<1>2. TenantOK(s)'
  <2> SUFFICES ASSUME s # Nothing, s.tenant # None
               PROVE  /\ s.tenant \in Memberships(s.by)'
                      /\ s.by # s.principal => Cardinality(Memberships(s.principal)') # 1
    BY DEF TenantOK
  <2>1. s.principal \in 1 .. principals /\ s.by \in 1 .. principals
    BY SessionFields DEF SessionOK
  <2>2. /\ Memberships(s.by)' = Memberships(s.by)
        /\ Memberships(s.principal)' = Memberships(s.principal)
    BY <2>1 DEF Lasting
  <2> QED
    BY <2>2 DEF SessionOK, TenantOK
<1> QED
  BY <1>1, <1>2 DEF SessionOK

LEMMA MoreSessions ==
  ASSUME IdentityInv, Lasting
  PROVE  Sessions \subseteq Sessions' /\ 0 .. principals \subseteq 0 .. principals'
  BY DEF Sessions, IdentityInv, Lasting

LEMMA RequestsLast ==
  ASSUME IdentityInv, Lasting, NEW r, RequestOK(r)
  PROVE  RequestOK(r)'
<1> PICK n : n = r.no
  OBVIOUS
<1>1. Sessions \subseteq Sessions' /\ 0 .. principals \subseteq 0 .. principals'
  BY MoreSessions
<1>2. ASSUME SentOK(r) PROVE SentOK(r)'
  <2>1. r.cookie \in Sessions
    BY <1>2 DEF SentOK, StartRequest, SwitchRequest, LogoutRequest, Accepted, VerifyRequest
  <2>2. TenantOK(r.cookie)'
    BY <1>2, <2>1, SessionsLast DEF SentOK, SessionOK
  <2>3. r \in StartRequest(n) => r \in StartRequest(n)'
    BY <1>1 DEF StartRequest
  <2>4. r \in SwitchRequest(n) => r \in SwitchRequest(n)'
    BY <1>1 DEF SwitchRequest
  <2>5. r \in LogoutRequest(n) => r \in LogoutRequest(n)'
    BY <1>1 DEF LogoutRequest
  <2>6. r \in Accepted(n) => r \in Accepted(n)'
    BY <1>1 DEF Accepted
  <2>7. r \in VerifyRequest(n) => r \in VerifyRequest(n)'
    BY <1>1 DEF VerifyRequest
  <2>8. CodeOK(r) => CodeOK(r)'
    BY DEF CodeOK, Lasting
  <2> QED
    BY <1>2, <2>2, <2>3, <2>4, <2>5, <2>6, <2>7, <2>8 DEF SentOK
<1> QED
  BY <1>2 DEF RequestOK, Error, Redirected, Mailed

\* What a request is, by what it asks and how far it is.
LEMMA RequestIs ==
  ASSUME NEW r, RequestOK(r)
  PROVE  /\ r.tab \in Sender
         /\ Has(r, "start", "sent") => r \in StartRequest(r.no)
         /\ r.op = "verify" /\ r.stage \in {"sent", "resolve", "create", "members"}
              => /\ r \in VerifyRequest(r.no) /\ CodeOK(r) /\ SessionOK(r.cookie)
                 /\ r.email \in Email
         /\ Has(r, "switch", "sent") => r \in SwitchRequest(r.no) /\ SessionOK(r.cookie)
         /\ Has(r, "start", "ok") => r \in Mailed(r.no) /\ r.email \in Email
         /\ Has(r, "verify", "ok") => r \in Accepted(r.no) /\ SessionOK(r.cookie)
         /\ "cookie" \in DOMAIN r => SessionOK(r.cookie)
         /\ r.op \in {"start", "verify", "switch", "logout"}
         /\ r.stage \in {"sent", "resolve", "create", "members", "ok", "error"}
<1> PICK n : n = r.no
  OBVIOUS
<1>1. CASE SentOK(r)
  <2>1. SessionOK(r.cookie)
    BY <1>1 DEF SentOK, StartRequest, SwitchRequest, LogoutRequest, Accepted,
       VerifyRequest, SessionOK
  <2>2. CASE r \in StartRequest(n)
    BY <2>1, <2>2 DEF StartRequest, Has
  <2>3. CASE r \in SwitchRequest(n)
    BY <2>1, <2>3 DEF SwitchRequest, Has
  <2>4. CASE r \in LogoutRequest(n)
    BY <2>1, <2>4 DEF LogoutRequest, Has
  <2>5. CASE r \in Accepted(n)
    BY <2>1, <2>5 DEF Accepted, Has
  <2>6. CASE r \in VerifyRequest(n) /\ CodeOK(r)
    BY <2>1, <2>6 DEF VerifyRequest, Has
  <2> QED
    BY <1>1, <2>2, <2>3, <2>4, <2>5, <2>6 DEF SentOK
<1>2. CASE r \in Error(n)
  BY <1>2 DEF Error, Has
<1>3. CASE r \in Redirected(n)
  BY <1>3 DEF Redirected, Has
<1>4. CASE r \in Mailed(n)
  BY <1>4 DEF Mailed, Has
<1> QED
  BY <1>1, <1>2, <1>3, <1>4 DEF RequestOK

-----------------------------------------------------------------------------
(* Users and principals                                                      *)

LEMMA IdentityNext ==
  ASSUME IdentityInv, RequestsInv, [AccountsNext]_accountsVars
  PROVE  /\ IdentityInv' /\ member' = member /\ principals <= principals'
         /\ \A n \in 1 .. principals : Memberships(n)' = Memberships(n)
<1>1. ASSUME UNCHANGED <<member, identity, principals>>
      PROVE  /\ IdentityInv' /\ member' = member /\ principals <= principals'
             /\ \A n \in 1 .. principals : Memberships(n)' = Memberships(n)
  BY <1>1 DEF IdentityInv, Memberships
<1>2. ASSUME NEW r \in requests, CreatePrincipal(r), identity[r.email] = 0
      PROVE  /\ IdentityInv' /\ member' = member /\ principals <= principals'
             /\ \A n \in 1 .. principals : Memberships(n)' = Memberships(n)
  <2> PICK e : e = r.email
    OBVIOUS
  <2>1. e \in Email
    BY <1>2, RequestIs DEF RequestsInv, CreatePrincipal, Has
  <2>2. /\ member' = member /\ principals' = principals + 1
        /\ identity' = [identity EXCEPT ![e] = principals + 1]
    BY <1>2 DEF CreatePrincipal, served
  <2>3. /\ principals \in Nat /\ identity \in [Email -> 0 .. principals]
        /\ identity[e] = 0
    BY <1>2 DEF IdentityInv
  <2>4. identity'[e] = principals + 1 /\ \A f \in Email \ {e} : identity'[f] = identity[f]
    BY <2>1, <2>2, <2>3
  <2>5. \A f \in Email : identity[f] \in Nat /\ identity[f] <= principals
    BY <2>3
  <2>6. identity' \in [Email -> 0 .. principals']
    BY <2>1, <2>2, <2>3
  <2>7. \A f \in Email : identity'[f] = 0 => member'[f] = {}
    BY <2>2, <2>3, <2>4 DEF IdentityInv
  <2>8. \A f, g \in Email : identity'[f] # 0 /\ identity'[f] = identity'[g] => f = g
    <3> SUFFICES ASSUME NEW f \in Email, NEW g \in Email, identity'[f] # 0,
                        identity'[f] = identity'[g], f # g
                 PROVE  FALSE
      OBVIOUS
    <3>1. CASE f = e
      BY <2>3, <2>4, <2>5, <3>1
    <3>2. CASE g = e
      BY <2>3, <2>4, <2>5, <3>2
    <3>3. CASE f # e /\ g # e
      BY <2>4, <3>3 DEF IdentityInv
    <3> QED
      BY <3>1, <3>2, <3>3
  <2>9. \A n \in 1 .. principals' : \E f \in Email : identity'[f] = n
    <3> SUFFICES ASSUME NEW n \in 1 .. principals' PROVE \E f \in Email : identity'[f] = n
      OBVIOUS
    <3>1. CASE n = principals + 1
      BY <2>1, <2>4, <3>1
    <3>2. CASE n # principals + 1
      <4>1. n \in 1 .. principals
        BY <2>2, <2>3, <3>2
      <4>2. PICK f \in Email : identity[f] = n
        BY <4>1 DEF IdentityInv
      <4>3. f # e
        BY <2>3, <4>1, <4>2
      <4> QED
        BY <2>4, <4>2, <4>3
    <3> QED
      BY <3>1, <3>2
  <2>10. \A n \in 1 .. principals : Memberships(n)' = Memberships(n)
    <3> SUFFICES ASSUME NEW n \in 1 .. principals PROVE Memberships(n)' = Memberships(n)
      OBVIOUS
    <3>1. n # 0 /\ n # principals + 1
      BY <2>3
    <3>2. \A f \in Email : identity'[f] = n <=> identity[f] = n
      BY <2>3, <2>4, <3>1
    <3> QED
      BY <2>2, <3>2 DEF Memberships
  <2> QED
    BY <2>2, <2>3, <2>6, <2>7, <2>8, <2>9, <2>10 DEF IdentityInv
<1>3. ASSUME NEW r \in requests, CreatePrincipal(r), identity[r.email] # 0
      PROVE  UNCHANGED <<member, identity, principals>>
  BY <1>3 DEF CreatePrincipal, served
<1>4. ASSUME NEW p \in Tab,
             \/ SubmitEmail(p) \/ SubmitCode(p) \/ Pick(p) \/ SignOut(p)
             \/ \E page \in {"login", "home", "tenant", "app"} : Visit(p, page)
      PROVE  UNCHANGED <<member, identity, principals>>
  BY <1>4 DEF SubmitEmail, SubmitCode, Pick, SignOut, Send, Visit, clicked
<1>5. ASSUME NEW r \in requests, Serve(r), ~CreatePrincipal(r)
      PROVE  UNCHANGED <<member, identity, principals>>
  BY <1>5 DEF Serve, Start, Verify, Resolve, SignIn, Switch, Redirect, Logout, served
<1>6. ASSUME NEW r \in requests, Fail(r) \/ Receive(r)
      PROVE  UNCHANGED <<member, identity, principals>>
  BY <1>6 DEF Fail, Receive, Started, Verified, Switched, LoggedOut, Refused, Dropped,
     clicked, received
<1>7. ASSUME \/ \E x \in Replica : Restart(x)
             \/ \E s \in Replica \X Email : Expire(s)
             \/ UNCHANGED accountsVars
      PROVE  UNCHANGED <<member, identity, principals>>
  BY <1>7 DEF Restart, Expire, accountsVars
<1> QED
  BY <1>1, <1>2, <1>3, <1>4, <1>5, <1>6, <1>7 DEF AccountsNext

-----------------------------------------------------------------------------
(* Codes                                                                     *)

CodesLast == \A c \in DOMAIN codes : /\ c \in DOMAIN codes'
                                     /\ codes'[c].email = codes[c].email

\* Each entry is one user's on one replica.
LEMMA SlotIs ==
  ASSUME NEW s \in Slot
  PROVE  s[1] \in Replica /\ s[2] \in Email /\ s = <<s[1], s[2]>>
  BY DEF Slot

LEMMA CodeIs ==
  ASSUME NEW a, NEW x, NEW b, NEW c, NEW d,
         NEW v \in [email : {a}, at : {x}, tried : {b}, used : {c}, gone : {d}]
  PROVE  v = [email |-> a, at |-> x, tried |-> b, used |-> c, gone |-> d]
  OBVIOUS

LEMMA TriedIs ==
  ASSUME NEW e, NEW x, NEW a \in Nat, NEW g, NEW right \in BOOLEAN
  PROVE  Tried([email |-> e, at |-> x, tried |-> a, used |-> 0, gone |-> g], right)
           = [email |-> e, at |-> x, tried |-> a + 1, used |-> IF right THEN 1 ELSE 0,
              gone |-> g]
<1> PICK u : u = IF right THEN 1 ELSE 0
  OBVIOUS
<1> PICK v : v = [email |-> e, at |-> x, tried |-> a, used |-> 0, gone |-> g]
  OBVIOUS
<1>1. /\ v \in [email : {e}, at : {x}, tried : {a}, used : {0}, gone : {g}]
      /\ v.tried = a /\ v.used = 0 /\ 0 + u = u
  OBVIOUS
<1>2. Tried(v, right) \in [email : {e}, at : {x}, tried : {a + 1}, used : {u}, gone : {g}]
  BY <1>1 DEF Tried
<1> QED
  BY <1>2, CodeIs

LEMMA CodesSame ==
  ASSUME CodesInv, UNCHANGED <<store, codes>>
  PROVE  CodesInv' /\ CodesLast
  BY DEF CodesInv, EntryOK, CodeOnce, Good, CodesLast, Of

LEMMA CodeFields ==
  ASSUME CodesInv
  PROVE  /\ Len(codes) \in Nat /\ DOMAIN codes = 1 .. Len(codes)
         /\ \A c \in DOMAIN codes :
              /\ codes[c] \in Code /\ c \in Nat /\ Of(c) \in Slot
              /\ codes[c].tried \in Nat /\ codes[c].used \in {0, 1}
              /\ codes[c].gone \in BOOLEAN
<1>1. codes \in Seq(Code)
  BY DEF CodesInv
<1>2. \A c \in DOMAIN codes : codes[c] \in Code
  BY <1>1
<1> QED
  BY <1>1, <1>2 DEF Code, Of, Slot

\* The entry of a user who waits for a code.
LEMMA EntryIs ==
  ASSUME CodesInv, NEW s \in Slot, store[s] # Nothing
  PROVE  LET entry == store[s]
         IN  /\ entry \in Entry /\ entry.code \in DOMAIN codes
             /\ entry.attempts \in 0 .. MaxAttempts /\ entry.attempts \in Nat
             /\ entry.expired \in BOOLEAN
             /\ codes[entry.code] = [email |-> s[2], at |-> s[1],
                                     tried |-> entry.attempts, used |-> 0,
                                     gone |-> entry.expired]
             /\ codes[entry.code].email = s[2] /\ codes[entry.code].at = s[1]
             /\ Of(entry.code) = s
<1>1. EntryOK(s)
  BY DEF CodesInv
<1> PICK c : c = codes[store[s].code]
  OBVIOUS
<1>2. c.email = s[2] /\ c.at = s[1]
  BY <1>1 DEF EntryOK
<1> QED
  BY <1>1, <1>2, SlotIs, AccountsAssumption DEF EntryOK, Entry, Of

LEMMA StartCodes ==
  ASSUME CodesInv, NEW r, NEW z \in Replica, r.email \in Email, Start(r, z)
  PROVE  CodesInv' /\ CodesLast
<1> PICK e \in Email : e = r.email
  OBVIOUS
<1> PICK s : s = <<z, e>>
  OBVIOUS
<1> PICK n : n = Len(codes) + 1
  OBVIOUS
<1> PICK x : x = [email |-> e, at |-> z, tried |-> 0, used |-> 0, gone |-> FALSE]
  OBVIOUS
<1> PICK y : y = [code |-> n, attempts |-> 0, expired |-> FALSE]
  OBVIOUS
<1>0. s \in Slot /\ s[1] = z /\ s[2] = e
  BY DEF Slot
<1>1. codes' = Append(codes, x) /\ store' = [store EXCEPT ![s] = y]
  BY DEF Start
<1>2. /\ x \in Code /\ y \in Entry /\ n \in Nat /\ y.code = n /\ y.attempts = 0
      /\ y.expired = FALSE /\ x.email = e /\ x.at = z /\ x.used = 0 /\ x.tried = 0
      /\ y # Nothing
  BY CodeFields, AccountsAssumption DEF Code, Entry, Nothing
<1>3. codes' \in Seq(Code)
  BY <1>1, <1>2 DEF CodesInv
<1>4. /\ DOMAIN codes' = DOMAIN codes \cup {n} /\ codes'[n] = x
      /\ \A c \in DOMAIN codes : codes'[c] = codes[c] /\ c < n
  BY <1>1, <1>2, CodeFields DEF CodesInv
<1>5. store'[s] = y /\ \A f \in Slot \ {s} : store'[f] = store[f]
  BY <1>0, <1>1 DEF CodesInv
<1>6. DOMAIN store' = Slot /\ store' = [f \in Slot |-> store'[f]]
  BY <1>1 DEF CodesInv
<1>7. ASSUME NEW f \in Slot, store'[f] # Nothing PROVE EntryOK(f)'
  <2>1. CASE f = s
    <3>1. x = [email |-> s[2], at |-> s[1], tried |-> y.attempts, used |-> 0,
               gone |-> y.expired]
      BY <1>0, <1>2
    <3> QED
      BY <1>2, <1>4, <1>5, <2>1, <3>1 DEF EntryOK
  <2>2. CASE f # s
    <3>1. store[f] # Nothing /\ store'[f] = store[f]
      BY <1>5, <1>7, <2>2
    <3>2. EntryOK(f)
      BY <3>1 DEF CodesInv
    <3> QED
      BY <1>4, <3>1, <3>2 DEF EntryOK
  <2> QED
    BY <2>1, <2>2
<1>8. CodeOnce'
  BY <1>2, <1>4 DEF CodesInv, CodeOnce
<1>9. ASSUME NEW c \in DOMAIN codes', Good(c)'
      PROVE  (store[Of(c)] # Nothing /\ store[Of(c)].code = c)'
  <2>1. CASE c = n
    BY <1>2, <1>4, <1>5, <2>1 DEF Of
  <2>2. CASE c # n
    <3>1. c \in DOMAIN codes /\ codes'[c] = codes[c] /\ c < n /\ n \in DOMAIN codes'
      BY <1>4, <2>2
    <3>2. Of(c) # s
      <4>1. codes'[n].email = codes'[c].email /\ codes'[n].at = codes'[c].at => n <= c
        BY <1>9, <3>1 DEF Good
      <4>2. codes[c].email # e \/ codes[c].at # z
        BY <1>2, <1>4, <3>1, <4>1, CodeFields
      <4> QED
        BY <4>2 DEF Of
    <3>3. Good(c)
      BY <1>4, <1>9, <3>1 DEF Good
    <3>4. store[Of(c)] # Nothing /\ store[Of(c)].code = c
      BY <3>1, <3>3 DEF CodesInv
    <3>5. Of(c)' = Of(c) /\ Of(c) \in Slot
      BY <3>1, CodeFields DEF Of
    <3> QED
      BY <1>5, <3>2, <3>4, <3>5
  <2> QED
    BY <2>1, <2>2
<1>10. CodesLast
  BY <1>4 DEF CodesLast
<1> QED
  BY <1>3, <1>6, <1>7, <1>8, <1>9, <1>10 DEF CodesInv

\* One entry, and the code that it waits for, become others.
Rewritten(s, left, tried, used, gone) ==
    /\ store' = [store EXCEPT ![s] = left]
    /\ codes' = [codes EXCEPT ![store[s].code] =
                   [email |-> s[2], at |-> s[1], tried |-> tried, used |-> used,
                    gone |-> gone]]
Rightly(s, left, tried, used, gone) ==
    /\ tried \in Nat /\ used \in {0, 1} /\ gone \in BOOLEAN
    /\ used = 1 => tried <= MaxAttempts
    /\ IF left = Nothing THEN gone \/ used = 1 \/ tried >= MaxAttempts
       ELSE /\ left \in Entry /\ left.code = store[s].code /\ left.attempts = tried
            /\ left.expired = gone /\ used = 0

LEMMA EntryBecomes ==
  ASSUME CodesInv, NEW s \in Slot, store[s] # Nothing, NEW left, NEW tried, NEW used,
         NEW gone, Rewritten(s, left, tried, used, gone),
         Rightly(s, left, tried, used, gone)
  PROVE  CodesInv' /\ CodesLast
<1> USE DEF Rewritten, Rightly
<1> PICK n : n = store[s].code
  OBVIOUS
<1> PICK x : x = [email |-> s[2], at |-> s[1], tried |-> tried, used |-> used,
                  gone |-> gone]
  OBVIOUS
<1>1. /\ x \in Code /\ x.email = s[2] /\ x.at = s[1] /\ x.tried = tried /\ x.used = used
      /\ x.gone = gone
  BY SlotIs DEF Code
<1>2. n \in DOMAIN codes /\ Of(n) = s /\ codes[n].email = s[2] /\ codes[n].at = s[1]
  BY EntryIs
<1>3. /\ codes' \in Seq(Code) /\ DOMAIN codes' = DOMAIN codes /\ codes'[n] = x
      /\ \A c \in DOMAIN codes \ {n} : codes'[c] = codes[c]
  BY <1>1, <1>2 DEF CodesInv
<1>4. store'[s] = left /\ \A f \in Slot \ {s} : store'[f] = store[f]
  BY DEF CodesInv
<1>5. DOMAIN store' = Slot /\ store' = [f \in Slot |-> store'[f]]
  BY DEF CodesInv
<1>6. \A c \in DOMAIN codes : /\ codes'[c].email = codes[c].email
                              /\ codes'[c].at = codes[c].at
  BY <1>1, <1>2, <1>3
<1>7. ASSUME NEW f \in Slot, store'[f] # Nothing PROVE EntryOK(f)'
  <2>1. CASE f = s
    <3>1. /\ left \in Entry /\ left.code = n /\ left.attempts = tried
          /\ left.expired = gone /\ used = 0
      BY <1>4, <1>7, <2>1
    <3> QED
      BY <1>2, <1>3, <1>4, <2>1, <3>1 DEF EntryOK
  <2>2. CASE f # s
    <3>1. store[f] # Nothing /\ store'[f] = store[f]
      BY <1>4, <1>7, <2>2
    <3>2. EntryOK(f) /\ Of(store[f].code) = f
      BY <3>1, EntryIs DEF CodesInv
    <3>3. store[f].code # n
      BY <1>2, <2>2, <3>2
    <3> QED
      BY <1>3, <3>1, <3>2, <3>3 DEF EntryOK
  <2> QED
    BY <2>1, <2>2
<1>8. CodeOnce'
  BY <1>1, <1>3 DEF CodesInv, CodeOnce
<1>9. ASSUME NEW c \in DOMAIN codes', Good(c)'
      PROVE  (store[Of(c)] # Nothing /\ store[Of(c)].code = c)'
  <2>0. c \in DOMAIN codes /\ Of(c)' = Of(c)
    BY <1>3, <1>6 DEF Of
  <2>1. CASE c = n
    <3>1. ~gone /\ used = 0 /\ tried < MaxAttempts
      BY <1>1, <1>3, <1>9, <2>1 DEF Good
    <3>2. left # Nothing
      BY <3>1, AccountsAssumption
    <3> QED
      BY <1>2, <1>4, <2>0, <2>1, <3>2
  <2>2. CASE c # n
    <3>1. codes'[c] = codes[c]
      BY <1>3, <2>0, <2>2
    <3>2. Good(c)
      BY <1>3, <1>6, <1>9, <2>0, <3>1 DEF Good
    <3>3. store[Of(c)] # Nothing /\ store[Of(c)].code = c
      BY <2>0, <3>2 DEF CodesInv
    <3>4. Of(c) # s /\ Of(c) \in Slot
      BY <2>0, <2>2, <3>3, CodeFields
    <3> QED
      BY <1>4, <2>0, <3>3, <3>4
  <2> QED
    BY <2>1, <2>2
<1>10. CodesLast
  BY <1>3, <1>6 DEF CodesLast
<1> QED
  BY <1>3, <1>5, <1>7, <1>8, <1>9, <1>10 DEF CodesInv

LEMMA VerifyCodes ==
  ASSUME CodesInv, NEW r, NEW z \in Replica, r.email \in Email, Verify(r, z)
  PROVE  CodesInv' /\ CodesLast
<1> PICK s : s = <<z, r.email>>
  OBVIOUS
<1>0. s \in Slot
  BY DEF Slot
<1> PICK entry : entry = store[s]
  OBVIOUS
<1> PICK check : check = Checked(entry, r.code)
  OBVIOUS
<1>1. /\ store' = [store EXCEPT ![s] = check.left]
      /\ codes' = IF entry = Nothing THEN codes
                  ELSE [codes EXCEPT ![entry.code] = Tried(codes[entry.code], check.right)]
  BY DEF Verify
<1>2. CASE entry = Nothing
  <2>1. check.left = Nothing
    BY <1>2 DEF Checked
  <2>2. store' = store
    BY <1>0, <1>1, <1>2, <2>1 DEF CodesInv
  <2> QED
    BY <1>1, <1>2, <2>2, CodesSame
<1>3. CASE entry # Nothing
  <2>1. /\ entry \in Entry /\ entry.code \in DOMAIN codes /\ entry.attempts \in Nat
        /\ entry.attempts <= MaxAttempts /\ entry.expired \in BOOLEAN
        /\ codes[entry.code] = [email |-> s[2], at |-> s[1], tried |-> entry.attempts,
                                used |-> 0, gone |-> entry.expired]
    BY <1>0, <1>3, EntryIs
  <2>2. check.right \in BOOLEAN
    BY DEF Checked
  <2> PICK used : used = IF check.right THEN 1 ELSE 0
    OBVIOUS
  <2>3. codes' = [codes EXCEPT ![store[s].code] =
                   [email |-> s[2], at |-> s[1], tried |-> entry.attempts + 1,
                    used |-> used, gone |-> entry.expired]]
    <3>1. Tried(codes[entry.code], check.right)
            = [email |-> s[2], at |-> s[1], tried |-> entry.attempts + 1, used |-> used,
               gone |-> entry.expired]
      <4> PICK right \in BOOLEAN : right = check.right
        BY <2>2
      <4> PICK a \in Nat : a = entry.attempts
        BY <2>1
      <4> PICK g : g = entry.expired
        OBVIOUS
      <4> PICK e, x : e = s[2] /\ x = s[1]
        OBVIOUS
      <4>1. Tried([email |-> e, at |-> x, tried |-> a, used |-> 0, gone |-> g], right)
              = [email |-> e, at |-> x, tried |-> a + 1,
                 used |-> IF right THEN 1 ELSE 0, gone |-> g]
        BY ONLY TriedIs, a \in Nat, right \in BOOLEAN
      <4> QED
        BY <2>1, <4>1
    <3> QED
      BY <1>1, <1>3, <3>1
  <2>4. used \in {0, 1} /\ (used = 1 <=> check.right) /\ entry.attempts + 1 \in Nat
    BY <2>1, <2>2
  <2>5. CASE entry.expired \/ entry.attempts + 1 > MaxAttempts
    <3>1. check.left = Nothing /\ ~check.right
      BY <2>5 DEF Checked
    <3> PICK left, tried, gone : /\ left = Nothing /\ tried = entry.attempts + 1
                                 /\ gone = entry.expired
      OBVIOUS
    <3>2. Rightly(s, left, tried, used, gone)
      BY <2>1, <2>4, <2>5, <3>1, AccountsAssumption DEF Rightly
    <3>3. Rewritten(s, left, tried, used, gone)
      BY <1>1, <2>3, <3>1 DEF Rewritten
    <3> QED
      BY <1>0, <1>3, <3>2, <3>3, EntryBecomes
  <2>6. CASE ~entry.expired /\ entry.attempts + 1 <= MaxAttempts
    <3>0. ~(entry.attempts + 1 > MaxAttempts)
      BY <2>1, <2>6, AccountsAssumption
    <3>1. CASE r.code = entry.code
      <4>1. check.left = Nothing /\ check.right
        BY <1>3, <2>6, <3>0, <3>1 DEF Checked
      <4> PICK left, tried, gone : /\ left = Nothing /\ tried = entry.attempts + 1
                                   /\ gone = entry.expired
        OBVIOUS
      <4>2. Rightly(s, left, tried, used, gone)
        BY <2>1, <2>4, <2>6, <4>1 DEF Rightly
      <4>3. Rewritten(s, left, tried, used, gone)
        BY <1>1, <2>3, <4>1 DEF Rewritten
      <4> QED
        BY <1>0, <1>3, <4>2, <4>3, EntryBecomes
    <3>2. CASE r.code # entry.code
      <4> PICK left : left = [entry EXCEPT !.attempts = entry.attempts + 1]
        OBVIOUS
      <4>1. check.left = left /\ ~check.right
        BY <1>3, <2>6, <3>0, <3>2 DEF Checked
      <4>2. /\ left \in Entry /\ left.code = entry.code
            /\ left.attempts = entry.attempts + 1 /\ left.expired = entry.expired
            /\ left # Nothing
        BY <2>1, <2>6, AccountsAssumption DEF Entry, Nothing
      <4> PICK tried, gone : tried = entry.attempts + 1 /\ gone = entry.expired
        OBVIOUS
      <4>3. Rightly(s, left, tried, used, gone)
        BY <2>1, <2>4, <4>1, <4>2 DEF Rightly
      <4>4. Rewritten(s, left, tried, used, gone)
        BY <1>1, <2>3, <4>1 DEF Rewritten
      <4> QED
        BY <1>0, <1>3, <4>3, <4>4, EntryBecomes
    <3> QED
      BY <3>1, <3>2
  <2> QED
    BY <2>1, <2>5, <2>6, AccountsAssumption
<1> QED
  BY <1>2, <1>3

LEMMA ExpireCodes ==
  ASSUME CodesInv, NEW s \in Slot, Expire(s)
  PROVE  CodesInv' /\ CodesLast
<1> PICK entry : entry = store[s]
  OBVIOUS
<1>1. /\ entry # Nothing /\ store' = [store EXCEPT ![s] = [entry EXCEPT !.expired = TRUE]]
      /\ codes' = [codes EXCEPT ![entry.code] = [codes[entry.code] EXCEPT !.gone = TRUE]]
  BY DEF Expire, CodesInv
<1>2. /\ entry \in Entry /\ entry.attempts \in Nat
      /\ codes[entry.code] = [email |-> s[2], at |-> s[1], tried |-> entry.attempts,
                              used |-> 0, gone |-> entry.expired]
  BY <1>1, EntryIs
<1> PICK x : x = codes[entry.code]
  OBVIOUS
<1>3. [x EXCEPT !.gone = TRUE]
        = [email |-> s[2], at |-> s[1], tried |-> entry.attempts, used |-> 0,
           gone |-> TRUE]
  <2>1. x \in [email : {s[2]}, at : {s[1]}, tried : {entry.attempts}, used : {0},
               gone : {entry.expired}]
    BY <1>2
  <2>2. [x EXCEPT !.gone = TRUE]
          \in [email : {s[2]}, at : {s[1]}, tried : {entry.attempts}, used : {0},
               gone : {TRUE}]
    BY <2>1
  <2> PICK e, z, a, v : /\ e = s[2] /\ z = s[1] /\ a = entry.attempts
                        /\ v = [x EXCEPT !.gone = TRUE]
    OBVIOUS
  <2>3. v \in [email : {e}, at : {z}, tried : {a}, used : {0}, gone : {TRUE}]
    BY <2>2
  <2>4. v = [email |-> e, at |-> z, tried |-> a, used |-> 0, gone |-> TRUE]
    BY ONLY <2>3, CodeIs
  <2> QED
    BY <2>4
<1> PICK left : left = [entry EXCEPT !.expired = TRUE]
  OBVIOUS
<1>4. /\ left \in Entry /\ left.code = entry.code /\ left.attempts = entry.attempts
      /\ left.expired = TRUE
  BY <1>2 DEF Entry
<1>5. left # Nothing
  BY <1>4 DEF Entry, Nothing
<1> PICK tried, gone : tried = entry.attempts /\ gone = TRUE
  OBVIOUS
<1>6. Rewritten(s, left, tried, 0, gone)
  BY <1>1, <1>3 DEF Rewritten
<1>7. Rightly(s, left, tried, 0, gone)
  BY <1>2, <1>4, <1>5 DEF Rightly
<1> QED
  BY <1>1, <1>6, <1>7, EntryBecomes

LEMMA RestartCodes ==
  ASSUME CodesInv, NEW z \in Replica, Restart(z)
  PROVE  CodesInv' /\ CodesLast
<1>1. /\ store' = [s \in Slot |-> IF s[1] = z THEN Nothing ELSE store[s]]
      /\ codes' = [c \in DOMAIN codes |->
                     [codes[c] EXCEPT !.gone = codes[c].gone \/ codes[c].at = z]]
  BY DEF Restart, Slot
<1>2. \A c \in DOMAIN codes : /\ codes'[c] \in Code
                              /\ codes'[c].gone = (codes[c].gone \/ codes[c].at = z)
                              /\ codes'[c].email = codes[c].email
                              /\ codes'[c].at = codes[c].at
                              /\ codes'[c].used = codes[c].used
                              /\ codes'[c].tried = codes[c].tried
                              /\ codes[c].at # z => codes'[c] = codes[c]
  <2> SUFFICES ASSUME NEW c \in DOMAIN codes
               PROVE  /\ codes'[c] \in Code
                      /\ codes'[c].gone = (codes[c].gone \/ codes[c].at = z)
                      /\ codes'[c].email = codes[c].email
                      /\ codes'[c].at = codes[c].at
                      /\ codes'[c].used = codes[c].used
                      /\ codes'[c].tried = codes[c].tried
                      /\ codes[c].at # z => codes'[c] = codes[c]
    OBVIOUS
  <2> PICK v \in Code : v = codes[c]
    BY CodeFields
  <2> PICK gone \in BOOLEAN : gone = (codes[c].gone \/ codes[c].at = z)
    OBVIOUS
  <2>1. codes'[c] = [v EXCEPT !.gone = gone]
    BY <1>1
  <2>2. v.at # z => gone = v.gone
    BY DEF Code
  <2>3. gone = v.gone => [v EXCEPT !.gone = gone] = v
    BY DEF Code
  <2>4. /\ [v EXCEPT !.gone = gone] \in Code
        /\ [v EXCEPT !.gone = gone].gone = gone
        /\ [v EXCEPT !.gone = gone].email = v.email
        /\ [v EXCEPT !.gone = gone].at = v.at
        /\ [v EXCEPT !.gone = gone].used = v.used
        /\ [v EXCEPT !.gone = gone].tried = v.tried
    BY DEF Code
  <2> QED
    BY <2>1, <2>2, <2>3, <2>4
<1>3. DOMAIN codes' = DOMAIN codes
  BY <1>1
<1>4. codes' \in Seq(Code)
  <2>1. codes' = [c \in 1 .. Len(codes) |-> codes'[c]]
    BY <1>1, CodeFields
  <2> QED
    BY <1>2, <2>1, CodeFields
<1>5. CodeOnce'
  BY <1>2, <1>3 DEF CodesInv, CodeOnce
<1>6. ASSUME NEW c \in DOMAIN codes', Good(c)'
      PROVE  (store[Of(c)] # Nothing /\ store[Of(c)].code = c)'
  <2>1. c \in DOMAIN codes /\ Of(c)' = Of(c) /\ Of(c) \in Slot /\ Of(c)[1] = codes[c].at
    BY <1>2, <1>3, CodeFields DEF Of
  <2>2. codes[c].at # z /\ codes'[c] = codes[c]
    BY <1>2, <1>6, <2>1 DEF Good
  <2>3. Good(c)
    BY <1>2, <1>3, <1>6, <2>1, <2>2 DEF Good
  <2>4. store[Of(c)] # Nothing /\ store[Of(c)].code = c
    BY <2>1, <2>3 DEF CodesInv
  <2> QED
    BY <1>1, <2>1, <2>2, <2>4
<1>7. ASSUME NEW s \in Slot, store'[s] # Nothing PROVE EntryOK(s)'
  <2>1. s[1] # z /\ store'[s] = store[s] /\ store[s] # Nothing
    BY <1>1, <1>7
  <2>2. EntryOK(s) /\ codes[store[s].code].at = s[1] /\ store[s].code \in DOMAIN codes
    BY <2>1, EntryIs DEF CodesInv
  <2>3. codes'[store[s].code] = codes[store[s].code]
    BY <1>2, <2>1, <2>2
  <2> QED
    BY <1>3, <2>1, <2>2, <2>3 DEF EntryOK
<1>8. DOMAIN store' = Slot /\ store' = [s \in Slot |-> store'[s]]
  BY <1>1
<1> QED
  BY <1>2, <1>3, <1>4, <1>5, <1>6, <1>7, <1>8 DEF CodesInv, CodesLast

LEMMA CodesNext ==
  ASSUME CodesInv, RequestsInv, [AccountsNext]_accountsVars
  PROVE  CodesInv' /\ CodesLast
<1>1. ASSUME NEW r \in requests, NEW x \in Replica, Start(r, x) \/ Verify(r, x)
      PROVE  CodesInv' /\ CodesLast
  <2>1. r.email \in Email
    <3>1. CASE Start(r, x)
      <4>1. r \in StartRequest(r.no)
        BY <3>1, RequestIs DEF RequestsInv, Start
      <4> QED
        BY <4>1 DEF StartRequest
    <3>2. CASE Verify(r, x)
      BY <3>2, RequestIs DEF RequestsInv, Verify, Has
    <3> QED
      BY <1>1, <3>1, <3>2
  <2> QED
    BY <1>1, <2>1, StartCodes, VerifyCodes
<1>2. ASSUME NEW s \in Slot, Expire(s) PROVE CodesInv' /\ CodesLast
  BY <1>2, ExpireCodes
<1>3. ASSUME NEW x \in Replica, Restart(x) PROVE CodesInv' /\ CodesLast
  BY <1>3, RestartCodes
<1>4. ASSUME NEW p \in Tab,
             \/ SubmitEmail(p) \/ SubmitCode(p) \/ Pick(p) \/ SignOut(p)
             \/ \E page \in {"login", "home", "tenant", "app"} : Visit(p, page)
      PROVE  UNCHANGED <<store, codes>>
  BY <1>4 DEF SubmitEmail, SubmitCode, Pick, SignOut, Send, Visit, clicked
<1>5. ASSUME NEW r \in requests, Serve(r), \A x \in Replica : ~Start(r, x) /\ ~Verify(r, x)
      PROVE  UNCHANGED <<store, codes>>
  BY <1>5 DEF Serve, Resolve, CreatePrincipal, SignIn, Switch, Redirect, Logout, served
<1>6. ASSUME NEW r \in requests, Fail(r) \/ Receive(r) PROVE UNCHANGED <<store, codes>>
  BY <1>6 DEF Fail, Receive, Started, Verified, Switched, LoggedOut, Refused, Dropped,
     clicked, received
<1>7. ASSUME UNCHANGED accountsVars PROVE UNCHANGED <<store, codes>>
  BY <1>7 DEF accountsVars
<1> QED
  BY <1>1, <1>2, <1>3, <1>4, <1>5, <1>6, <1>7, CodesSame DEF AccountsNext, Slot

-----------------------------------------------------------------------------
(* Pages                                                                     *)

LEMMA PageBecomes ==
  ASSUME PagesInv, NEW p \in Tab, NEW x, PageOK(x), tab' = [tab EXCEPT ![p] = x]
  PROVE  PagesInv'
  BY DEF PagesInv, PageOK

LEMMA PageAtOK ==
  ASSUME NEW page \in {"login", "tenant", "app", "landing", "onboarding"}
  PROVE  /\ PageOK(PageAt(page))
         /\ \A S \in SUBSET Tenant : PageOK([PageAt(page) EXCEPT !.shown = S])
         /\ \A e \in Email : PageOK([PageAt("verify") EXCEPT !.email = e])
  BY DEF PageOK, PageState, PageAt

LEMMA BusyPage ==
  ASSUME PagesInv, NEW p \in Tab, NEW b \in Tenant \cup {None, "yes"},
         tab' = [tab EXCEPT ![p].busy = b]
  PROVE  PagesInv'
<1> PICK x : x = [tab[p] EXCEPT !.busy = b]
  OBVIOUS
<1>1. tab[p] \in PageState /\ (tab[p].page = "verify" => tab[p].email \in Email)
  BY DEF PagesInv, PageOK
<1>2. PageOK(x)
  BY <1>1 DEF PageOK, PageState
<1>3. tab' = [tab EXCEPT ![p] = x]
  BY DEF PagesInv
<1> QED
  BY <1>2, <1>3, PageBecomes

LEMMA HomeOK ==
  ASSUME IdentityInv, NEW s
  PROVE  /\ PageOK(Home(s))
         /\ \A page \in {"tenant", "app"} : PageOK(Rendered(page, s))
<1>1. Memberships(s.principal) \in SUBSET Tenant
  BY MembershipsOf
<1> QED
  BY <1>1, PageAtOK DEF Home, Rendered

LEMMA PagesNext ==
  ASSUME IdentityInv, RequestsInv, PagesInv, [AccountsNext]_accountsVars
  PROVE  PagesInv'
<1>1. ASSUME NEW p \in Tab, SubmitEmail(p) \/ SubmitCode(p) PROVE PagesInv'
  <2>1. tab' = [tab EXCEPT ![p].busy = "yes"]
    BY <1>1 DEF SubmitEmail, SubmitCode, Send
  <2> QED
    BY <2>1, BusyPage
<1>2. ASSUME NEW p \in Tab, Pick(p) \/ SignOut(p) PROVE PagesInv'
  <2>1. PICK b \in Tenant \cup {None} : tab' = [tab EXCEPT ![p].busy = b]
    <3>1. tab[p].shown \subseteq Tenant
      BY DEF PagesInv, PageState
    <3> QED
      BY <1>2, <3>1 DEF Pick, SignOut, Send
  <2> QED
    BY <2>1, BusyPage
<1>3. ASSUME NEW p \in Tab, NEW page \in {"login", "home", "tenant", "app"}, Visit(p, page)
      PROVE  PagesInv'
  <2> PICK x : x = IF page = "login" THEN PageAt(page)
                   ELSE IF page = "home" THEN Home(jar) ELSE Rendered(page, jar)
    OBVIOUS
  <2>1. tab' = [tab EXCEPT ![p] = x]
    BY <1>3 DEF Visit, Loads
  <2>2. PageOK(x)
    BY HomeOK, PageAtOK
  <2> QED
    BY <2>1, <2>2, PageBecomes
<1>4. ASSUME NEW r \in requests, Receive(r) PROVE PagesInv'
  <2>1. RequestOK(r)
    BY DEF RequestsInv
  <2>2. r.tab # None => r.tab \in Tab
    BY <2>1, RequestIs DEF Sender
  <2>3. CASE Started(r)
    <3>1. r.email \in Email /\ r.tab \in Tab
      BY <2>1, <2>2, <2>3, RequestIs DEF Started, Taken
    <3>2. tab' = [tab EXCEPT ![r.tab] = [PageAt("verify") EXCEPT !.email = r.email]]
      BY <2>3 DEF Started, GoesOn
    <3> QED
      BY <3>1, <3>2, PageAtOK, PageBecomes
  <2>4. CASE Verified(r)
    <3> PICK x : x = IF r.count = 0 THEN PageAt("onboarding")
                     ELSE IF r.count > 1 THEN Rendered("tenant", r.cookie)
                     ELSE Home(r.cookie)
      OBVIOUS
    <3>1. tab' = [tab EXCEPT ![r.tab] = x] /\ r.tab \in Tab
      BY <2>2, <2>4 DEF Verified, GoesOn, Taken
    <3>2. PageOK(x)
      BY HomeOK, PageAtOK
    <3> QED
      BY <3>1, <3>2, PageBecomes
  <2>5. CASE Switched(r)
    <3> PICK x : x = Home(jar')
      OBVIOUS
    <3>1. tab' = [tab EXCEPT ![r.tab] = x] /\ r.tab \in Tab
      BY <2>2, <2>5 DEF Switched, GoesOn, Taken
    <3>2. PageOK(x)
      BY HomeOK
    <3> QED
      BY <3>1, <3>2, PageBecomes
  <2>6. CASE LoggedOut(r)
    <3>1. tab' = [tab EXCEPT ![r.tab] = PageAt("login")] /\ r.tab \in Tab
      BY <2>2, <2>6 DEF LoggedOut, Taken
    <3> QED
      BY <3>1, PageAtOK, PageBecomes
  <2>7. CASE Refused(r)
    <3>1. tab' = [tab EXCEPT ![r.tab].busy = None] /\ r.tab \in Tab
      BY <2>2, <2>7 DEF Refused
    <3> QED
      BY <3>1, BusyPage
  <2>8. CASE Dropped(r)
    BY <2>8 DEF Dropped, PagesInv
  <2> QED
    BY <1>4, <2>3, <2>4, <2>5, <2>6, <2>7, <2>8 DEF Receive
<1>5. ASSUME \/ \E x \in Replica : Restart(x)
             \/ \E s \in Replica \X Email : Expire(s)
             \/ UNCHANGED accountsVars
             \/ \E r \in requests : Serve(r) \/ Fail(r)
      PROVE  tab' = tab
  BY <1>5 DEF Restart, Expire, accountsVars, Serve, Start, Verify, Resolve,
     CreatePrincipal, SignIn, Switch, Redirect, Logout, served, Fail
<1>6. ASSUME tab' = tab PROVE PagesInv'
  BY <1>6 DEF PagesInv
<1> QED
  BY <1>1, <1>2, <1>3, <1>4, <1>5, <1>6 DEF AccountsNext

-----------------------------------------------------------------------------
(* Requests and sessions                                                     *)

LEMMA NoSession == SessionOK(Nothing)
  BY DEF SessionOK, Sessions, TenantOK

LEMMA SessionIn ==
  ASSUME NEW e \in Email, NEW n \in 1 .. principals, NEW t \in Tenant \cup {None},
         NEW by \in 1 .. principals,
         t # None => /\ t \in Memberships(by)
                     /\ by # n => Cardinality(Memberships(n)) # 1
  PROVE  SessionOK(Session(e, n, t, by))
<1> PICK s : s = Session(e, n, t, by)
  OBVIOUS
<1>1. s \in Sessions /\ s.tenant = t /\ s.by = by /\ s.principal = n
  BY DEF Session, Sessions
<1> QED
  BY <1>1 DEF SessionOK, TenantOK

\* The answers of the routes.
LEMMA ErrorOK ==
  ASSUME NEW r, RequestOK(r) PROVE RequestOK(Answer(r, "error"))
<1> PICK q : q = Answer(r, "error")
  OBVIOUS
<1>1. q \in Error(q.no)
  BY RequestIs DEF Answer, Error
<1> QED
  BY <1>1 DEF RequestOK

LEMMA AcceptOK ==
  ASSUME NEW r, RequestOK(r), r.op \in {"verify", "switch", "logout"}, NEW s, SessionOK(s),
         NEW n \in {Cardinality(T) : T \in SUBSET Tenant} \cup {0, 1}
  PROVE  RequestOK(Accept(r, s, n))
<1> PICK q : q = Accept(r, s, n)
  OBVIOUS
<1>1. q \in Accepted(q.no) /\ q.cookie = s
  BY RequestIs DEF Accept, Accepted, SessionOK
<1> QED
  BY <1>1 DEF RequestOK, SentOK, SessionOK

LEMMA UnwaitedOK ==
  ASSUME NEW r, RequestOK(r) PROVE RequestOK([r EXCEPT !.tab = None])
<1> PICK q : q = [r EXCEPT !.tab = None]
  OBVIOUS
<1> PICK n : n = r.no
  OBVIOUS
<1> USE DEF Sender
<1>1. CASE r \in StartRequest(n) /\ TenantOK(r.cookie)
  <2>1. q \in StartRequest(q.no) /\ q.cookie = r.cookie
    BY <1>1 DEF StartRequest
  <2> QED
    BY <1>1, <2>1 DEF RequestOK, SentOK
<1>2. CASE r \in SwitchRequest(n) /\ TenantOK(r.cookie)
  <2>1. q \in SwitchRequest(q.no) /\ q.cookie = r.cookie
    BY <1>2 DEF SwitchRequest
  <2> QED
    BY <1>2, <2>1 DEF RequestOK, SentOK
<1>3. CASE r \in LogoutRequest(n) /\ TenantOK(r.cookie)
  <2>1. q \in LogoutRequest(q.no) /\ q.cookie = r.cookie
    BY <1>3 DEF LogoutRequest
  <2> QED
    BY <1>3, <2>1 DEF RequestOK, SentOK
<1>4. CASE r \in Accepted(n) /\ TenantOK(r.cookie)
  <2>1. q \in Accepted(q.no) /\ q.cookie = r.cookie
    BY <1>4 DEF Accepted
  <2> QED
    BY <1>4, <2>1 DEF RequestOK, SentOK
<1>5. CASE r \in VerifyRequest(n) /\ CodeOK(r) /\ TenantOK(r.cookie)
  <2>1. /\ q \in VerifyRequest(q.no) /\ q.cookie = r.cookie /\ q.code = r.code
        /\ q.email = r.email /\ q.stage = r.stage /\ q.principal = r.principal
    BY <1>5 DEF VerifyRequest
  <2> QED
    BY <1>5, <2>1 DEF RequestOK, SentOK, CodeOK
<1>6. CASE r \in Error(n)
  <2>1. q \in Error(q.no)
    BY <1>6 DEF Error
  <2> QED
    BY <2>1 DEF RequestOK
<1>7. CASE r \in Redirected(n)
  <2>1. q \in Redirected(q.no)
    BY <1>7 DEF Redirected
  <2> QED
    BY <2>1 DEF RequestOK
<1>8. CASE r \in Mailed(n)
  <2>1. q \in Mailed(q.no)
    BY <1>8 DEF Mailed
  <2> QED
    BY <2>1 DEF RequestOK
<1> QED
  BY <1>1, <1>2, <1>3, <1>4, <1>5, <1>6, <1>7, <1>8 DEF RequestOK, SentOK

\* A verification goes on to another stage.
LEMMA StageOK ==
  ASSUME NEW r, r \in VerifyRequest(r.no), CodeOK(r), TenantOK(r.cookie),
         NEW stage \in {"resolve", "create"}
  PROVE  RequestOK([r EXCEPT !.stage = stage])
<1> PICK q : q = [r EXCEPT !.stage = stage]
  OBVIOUS
<1>1. /\ q \in VerifyRequest(q.no) /\ q.cookie = r.cookie /\ q.code = r.code
      /\ q.email = r.email /\ q.stage # "members"
  BY DEF VerifyRequest
<1> QED
  BY <1>1 DEF RequestOK, SentOK, CodeOK

LEMMA MemberOK ==
  ASSUME NEW r, r \in VerifyRequest(r.no), CodeOK(r), TenantOK(r.cookie),
         NEW n \in 0 .. principals, n # 0
  PROVE  RequestOK([r EXCEPT !.stage = "members", !.principal = n])
<1> PICK q : q = [r EXCEPT !.stage = "members", !.principal = n]
  OBVIOUS
<1>1. /\ q \in VerifyRequest(q.no) /\ q.cookie = r.cookie /\ q.code = r.code
      /\ q.email = r.email /\ q.principal = n
  BY DEF VerifyRequest
<1> QED
  BY <1>1 DEF RequestOK, SentOK, CodeOK

LEMMA CreatedOK ==
  ASSUME IdentityInv', Lasting, NEW r \in requests, RequestOK(r)', Has(r, "verify", "create"),
         principals' = principals + 1, principals \in Nat, NEW n, n = principals + 1,
         NEW q, q = [r EXCEPT !.stage = "members", !.principal = n]
  PROVE  RequestOK(q)'
<1> PICK m : m = r.no
  OBVIOUS
<1>1. r \in VerifyRequest(m)' /\ CodeOK(r)' /\ TenantOK(r.cookie)'
  BY DEF RequestOK, SentOK, StartRequest, SwitchRequest, LogoutRequest, Accepted, Has,
     VerifyRequest, Error, Redirected, Mailed
<1>2. n \in 0 .. principals' /\ n # 0
  OBVIOUS
<1>3. /\ q \in VerifyRequest(m)' /\ q.no = m /\ q.cookie = r.cookie /\ q.code = r.code
      /\ q.email = r.email /\ q.principal = n
  BY <1>1, <1>2 DEF VerifyRequest
<1>4. CodeOK(q)'
  BY <1>1, <1>2, <1>3 DEF CodeOK
<1>5. q \in VerifyRequest(q.no)' /\ TenantOK(q.cookie)'
  BY <1>1, <1>3
<1>6. SentOK(q)'
  BY <1>4, <1>5 DEF SentOK
<1>7. RequestOK(q)' <=> SentOK(q)' \/ q \in Error(q.no)' \/ q \in Redirected(q.no)'
                        \/ q \in Mailed(q.no)'
  BY DEF RequestOK
<1> QED
  BY <1>6, <1>7

LEMMA LastingNext ==
  ASSUME SignInInv, [AccountsNext]_accountsVars
  PROVE  Lasting /\ IdentityInv' /\ CodesInv'
<1>1. IdentityInv' /\ CodesInv' /\ CodesLast
  BY IdentityNext, CodesNext DEF SignInInv
<1> QED
  BY <1>1, IdentityNext DEF SignInInv, Lasting, CodesLast, IdentityInv

LEMMA SignedInOK ==
  ASSUME IdentityInv, NEW r \in requests, RequestOK(r), SignIn(r)
  PROVE  SessionOK(SignedIn(r, Memberships(r.principal)))
<1> PICK T : T = Memberships(r.principal)
  OBVIOUS
<1>1. r \in VerifyRequest(r.no) /\ CodeOK(r) /\ SessionOK(r.cookie) /\ r.stage = "members"
  BY RequestIs DEF SignIn, Has
<1>2. r.email \in Email /\ r.principal \in 1 .. principals /\ T \subseteq Tenant
  BY <1>1, MembershipsOf DEF VerifyRequest, CodeOK, IdentityInv
<1>3. CASE Cardinality(T) = 1
  <2>1. T # {}
    BY <1>3, FS_EmptySet
  <2>2. (CHOOSE t \in T : TRUE) \in T
    BY <2>1
  <2> QED
    BY <1>2, <1>3, <2>2, SessionIn DEF SignedIn
<1>4. CASE Cardinality(T) # 1 /\ r.cookie = Nothing
  BY <1>2, <1>4, SessionIn DEF SignedIn
<1>5. CASE Cardinality(T) # 1 /\ r.cookie # Nothing
  <2>1. /\ r.cookie.tenant \in Tenant \cup {None} /\ r.cookie.by \in 1 .. principals
        /\ r.cookie.tenant # None => r.cookie.tenant \in Memberships(r.cookie.by)
    BY <1>1, <1>5, SessionFields DEF SessionOK, TenantOK
  <2>2. SessionOK(Session(r.email, r.principal, r.cookie.tenant, r.cookie.by))
    BY <1>2, <1>5, <2>1, SessionIn
  <2> QED
    BY <1>5, <2>2 DEF SignedIn
<1> QED
  BY <1>3, <1>4, <1>5

\* What a page sends.
LEMMA SentRequests ==
  ASSUME SignInInv, NEW p \in Tab,
         SubmitEmail(p) \/ SubmitCode(p) \/ Pick(p) \/ SignOut(p)
  PROVE  \E q : requests' = requests \cup {q} /\ RequestOK(q)
<1> PICK n : n = Fresh
  OBVIOUS
<1>1. PageOK(tab[p]) /\ tab[p] \in PageState
  BY DEF SignInInv, PagesInv
<1>2. jar \in Sessions /\ TenantOK(jar)
  BY DEF SignInInv, SessionOK
<1>3. CASE SubmitEmail(p)
  <2>1. PICK e \in Email : requests' = requests \cup
          {[tab |-> p, no |-> n, op |-> "start", stage |-> "sent", cookie |-> jar,
            email |-> e]}
    BY <1>3 DEF SubmitEmail, Send
  <2> PICK q : q = [tab |-> p, no |-> n, op |-> "start", stage |-> "sent",
                    cookie |-> jar, email |-> e]
    OBVIOUS
  <2>2. q \in StartRequest(q.no) /\ q.cookie = jar
    BY <1>2 DEF StartRequest, Sender
  <2> QED
    BY <1>2, <2>1, <2>2 DEF RequestOK, SentOK
<1>4. CASE SubmitCode(p)
  <2>1. PICK c \in {0} \cup {d \in DOMAIN codes : codes[d].email = tab[p].email} :
          requests' = requests \cup
            {[tab |-> p, no |-> n, op |-> "verify", stage |-> "sent", cookie |-> jar,
              email |-> tab[p].email, code |-> c, principal |-> 0]}
    BY <1>4 DEF SubmitCode, Send
  <2> PICK e \in Email : e = tab[p].email
    BY <1>1, <1>4 DEF SubmitCode, PageOK
  <2> PICK q : q = [tab |-> p, no |-> n, op |-> "verify", stage |-> "sent",
                    cookie |-> jar, email |-> e, code |-> c, principal |-> 0]
    OBVIOUS
  <2>2. c \in Nat /\ (c # 0 => c \in DOMAIN codes /\ codes[c].email = e)
    BY CodeFields DEF SignInInv
  <2>3. q \in VerifyRequest(q.no) /\ q.cookie = jar /\ CodeOK(q)
    BY <1>2, <2>2 DEF VerifyRequest, Sender, CodeOK, SignInInv, IdentityInv
  <2> QED
    BY <1>2, <2>1, <2>3 DEF RequestOK, SentOK
<1>5. CASE Pick(p)
  <2>1. PICK t \in tab[p].shown : requests' = requests \cup
          {[tab |-> p, no |-> n, op |-> "switch", stage |-> "sent", cookie |-> jar,
            tenant |-> t]}
    BY <1>5 DEF Pick, Send
  <2> PICK q : q = [tab |-> p, no |-> n, op |-> "switch", stage |-> "sent",
                    cookie |-> jar, tenant |-> t]
    OBVIOUS
  <2>2. t \in Tenant
    BY <1>1 DEF PageState
  <2>3. q \in SwitchRequest(q.no) /\ q.cookie = jar
    BY <1>2, <2>2 DEF SwitchRequest, Sender
  <2> QED
    BY <1>2, <2>1, <2>3 DEF RequestOK, SentOK
<1>6. CASE SignOut(p)
  <2> PICK q : q = [tab |-> p, no |-> n, op |-> "logout", stage |-> "sent",
                    cookie |-> jar]
    OBVIOUS
  <2>1. requests' = requests \cup {q}
    BY <1>6 DEF SignOut, Send
  <2>3. q \in LogoutRequest(q.no) /\ q.cookie = jar
    BY <1>2 DEF LogoutRequest, Sender
  <2> QED
    BY <1>2, <2>1, <2>3 DEF RequestOK, SentOK
<1> QED
  BY <1>3, <1>4, <1>5, <1>6

\* What a route answers, or goes on as.
LEMMA ServedRequests ==
  ASSUME SignInInv, [AccountsNext]_accountsVars, NEW r \in requests, Serve(r) \/ Fail(r)
  PROVE  \E q : Replace(r, q) /\ (RequestOK(q) \/ RequestOK(q)')
<1>0. RequestOK(r) /\ IdentityInv /\ CodesInv
  BY DEF SignInInv, RequestsInv
<1>1. CASE \E x \in Replica : Start(r, x)
  <2> PICK q : q = [tab |-> r.tab, no |-> r.no, op |-> r.op, stage |-> "ok",
                    email |-> r.email]
    OBVIOUS
  <2>1. Replace(r, q) /\ r \in StartRequest(r.no)
    BY <1>0, <1>1, RequestIs DEF Start
  <2>2. q \in Mailed(q.no)
    BY <2>1 DEF StartRequest, Mailed
  <2> QED
    BY <2>1, <2>2 DEF RequestOK
<1>2. CASE \E x \in Replica : Verify(r, x)
  <2>1. PICK q : /\ Replace(r, q)
                 /\ q = [r EXCEPT !.stage = "resolve"] \/ q = Answer(r, "error")
    BY <1>2 DEF Verify
  <2>2. r \in VerifyRequest(r.no) /\ CodeOK(r) /\ TenantOK(r.cookie)
    BY <1>0, <1>2, RequestIs DEF Verify, Has, SessionOK
  <2> QED
    BY <1>0, <2>1, <2>2, StageOK, ErrorOK
<1>3. CASE Resolve(r)
  <2>1. /\ r \in VerifyRequest(r.no) /\ CodeOK(r) /\ TenantOK(r.cookie)
        /\ r.email \in Email
    BY <1>0, <1>3, RequestIs DEF Resolve, Has, SessionOK
  <2>2. CASE identity[r.email] = 0
    <3>1. Replace(r, [r EXCEPT !.stage = "create"])
      BY <1>3, <2>2 DEF Resolve
    <3> QED
      BY <2>1, <3>1, StageOK
  <2>3. CASE identity[r.email] # 0
    <3> PICK n \in 0 .. principals : n = identity[r.email]
      BY <1>0, <2>1 DEF IdentityInv
    <3>1. Replace(r, [r EXCEPT !.stage = "members", !.principal = n])
      BY <1>3, <2>3 DEF Resolve
    <3> QED
      BY <2>1, <2>3, <3>1, MemberOK
  <2> QED
    BY <2>2, <2>3
<1>4. CASE CreatePrincipal(r)
  <2>1. CASE identity[r.email] # 0
    BY <1>0, <1>4, <2>1, ErrorOK DEF CreatePrincipal
  <2>2. CASE identity[r.email] = 0
    <3> PICK n : n = principals + 1
      OBVIOUS
    <3> PICK q : q = [r EXCEPT !.stage = "members", !.principal = n]
      OBVIOUS
    <3>1. /\ Replace(r, q) /\ principals' = principals + 1 /\ Has(r, "verify", "create")
      BY <1>4, <2>2 DEF CreatePrincipal
    <3>2. RequestOK(r)' /\ Lasting /\ IdentityInv'
      BY <1>0, LastingNext, RequestsLast
    <3>3. RequestOK(q)'
      BY <1>0, <3>1, <3>2, CreatedOK DEF IdentityInv
    <3> QED
      BY <3>1, <3>3
  <2> QED
    BY <2>1, <2>2
<1>5. CASE SignIn(r)
  <2> PICK T : T = Memberships(r.principal)
    OBVIOUS
  <2>1. Replace(r, Accept(r, SignedIn(r, T), Cardinality(T)))
    BY <1>5 DEF SignIn
  <2>2. SessionOK(SignedIn(r, T)) /\ T \subseteq Tenant /\ r.op = "verify"
    BY <1>0, <1>5, SignedInOK, MembershipsOf DEF SignIn, Has
  <2> QED
    BY <1>0, <2>1, <2>2, AcceptOK
<1>6. CASE Switch(r)
  <2> PICK s : s = Session(r.cookie.email, r.cookie.principal, r.tenant, r.cookie.principal)
    OBVIOUS
  <2>1. /\ r \in SwitchRequest(r.no) /\ SessionOK(r.cookie) /\ r.cookie # Nothing
        /\ r.op = "switch"
    BY <1>0, <1>6, RequestIs DEF Switch, Has
  <2>2. CASE r.tenant \notin Memberships(r.cookie.principal)
    BY <1>0, <1>6, <2>2, ErrorOK DEF Switch
  <2>3. CASE r.tenant \in Memberships(r.cookie.principal)
    <3>1. Replace(r, Accept(r, s, 1))
      BY <1>6, <2>3 DEF Switch
    <3>2. r.cookie.email \in Email /\ r.cookie.principal \in 1 .. principals
          /\ r.tenant \in Tenant
      BY <2>1, SessionFields DEF SessionOK, SwitchRequest
    <3>3. SessionOK(s)
      BY <2>3, <3>2, SessionIn
    <3> QED
      BY <1>0, <2>1, <3>1, <3>3, AcceptOK
  <2> QED
    BY <2>2, <2>3
<1>7. CASE Redirect(r)
  <2>1. PICK stage \in {"ok", "error"} : Replace(r, Answer(r, stage))
    BY <1>7 DEF Redirect
  <2> PICK q : q = Answer(r, stage)
    OBVIOUS
  <2>2. r.tab \in Sender /\ r.op = "switch"
    BY <1>0, <1>7, RequestIs DEF Redirect, Has
  <2>3. q \in Redirected(q.no) \/ q \in Error(q.no)
    BY <2>2 DEF Answer, Redirected, Error
  <2> QED
    BY <2>1, <2>3 DEF RequestOK
<1>8. CASE Logout(r)
  BY <1>0, <1>8, AcceptOK, NoSession DEF Logout, Has
<1>9. CASE Fail(r)
  BY <1>0, <1>9, ErrorOK DEF Fail
<1> QED
  BY <1>1, <1>2, <1>3, <1>4, <1>5, <1>6, <1>7, <1>8, <1>9 DEF Serve

LEMMA RequestsNext ==
  ASSUME SignInInv, [AccountsNext]_accountsVars
  PROVE  RequestsInv'
<1>0. \A r \in requests : RequestOK(r)
  BY DEF SignInInv, RequestsInv
<1>1. ASSUME \A q \in requests' : RequestOK(q) \/ RequestOK(q)' PROVE RequestsInv'
  <2>1. IdentityInv /\ Lasting
    BY LastingNext DEF SignInInv
  <2> SUFFICES ASSUME NEW q \in requests' PROVE RequestOK(q)'
    BY DEF RequestsInv
  <2> QED
    BY <1>1, <2>1, RequestsLast
<1>2. ASSUME NEW p \in Tab, SubmitEmail(p) \/ SubmitCode(p) \/ Pick(p) \/ SignOut(p)
      PROVE  RequestsInv'
  BY <1>0, <1>1, <1>2, SentRequests
<1>3. ASSUME NEW r \in requests, Serve(r) \/ Fail(r) PROVE RequestsInv'
  <2>1. PICK q : Replace(r, q) /\ (RequestOK(q) \/ RequestOK(q)')
    BY <1>3, ServedRequests
  <2> QED
    BY <1>0, <1>1, <2>1 DEF Replace
<1>4. ASSUME NEW p, NEW R \in SUBSET requests,
             requests' = {IF r.tab = p THEN [r EXCEPT !.tab = None] ELSE r : r \in R}
      PROVE  RequestsInv'
  <2>1. \A q \in requests' : RequestOK(q)
    BY <1>0, <1>4, UnwaitedOK
  <2> QED
    BY <1>1, <2>1
<1>5. ASSUME NEW p \in Tab, NEW page \in {"login", "home", "tenant", "app"}, Visit(p, page)
      PROVE  RequestsInv'
  BY <1>4, <1>5 DEF Visit, Loads
<1>6. ASSUME NEW r \in requests, LoggedOut(r) PROVE RequestsInv'
  <2>1. requests' = {IF q.tab = r.tab THEN [q EXCEPT !.tab = None] ELSE q
                     : q \in requests \ {r}}
    BY <1>6 DEF LoggedOut
  <2> QED
    BY <1>4, <2>1
<1>7. ASSUME requests' \subseteq requests PROVE RequestsInv'
  BY <1>0, <1>1, <1>7
<1>8. ASSUME \/ \E x \in Replica : Restart(x)
             \/ \E s \in Replica \X Email : Expire(s)
             \/ UNCHANGED accountsVars
             \/ \E r \in requests : Receive(r) /\ ~LoggedOut(r)
      PROVE  requests' \subseteq requests
  BY <1>8 DEF Restart, Expire, accountsVars, Receive, Started, Verified, Switched,
     Refused, Dropped, GoesOn
<1> QED
  BY <1>2, <1>3, <1>5, <1>6, <1>7, <1>8 DEF AccountsNext

LEMMA JarNext ==
  ASSUME SignInInv, [AccountsNext]_accountsVars
  PROVE  SessionOK(jar)'
<1>1. SessionOK(jar) /\ \A r \in requests : RequestOK(r)
  BY DEF SignInInv, RequestsInv
<1>2. ASSUME NEW s, SessionOK(s), jar' = s PROVE SessionOK(jar)'
  <2>1. SessionOK(s)'
    BY <1>2, LastingNext, SessionsLast DEF SignInInv
  <2> QED
    BY <1>2, <2>1
<1>3. ASSUME NEW r \in requests, Receive(r) \/ Fail(r) PROVE SessionOK(jar)'
  <2>1. \/ jar' = jar
        \/ jar' = Nothing
        \/ /\ "cookie" \in DOMAIN r \/ Has(r, "verify", "ok")
           /\ jar' = r.cookie
    <3>1. CASE Verified(r)
      BY <3>1 DEF Verified, Taken
    <3>2. CASE Switched(r)
      BY <3>2 DEF Switched
    <3>3. CASE ~Verified(r) /\ ~Switched(r)
      BY <1>3, <3>3 DEF Receive, Started, LoggedOut, Refused, Dropped, Fail, HeadTaken
    <3> QED
      BY <3>1, <3>2, <3>3
  <2>2. \E s : SessionOK(s) /\ jar' = s
    BY <1>1, <2>1, RequestIs, NoSession
  <2> QED
    BY <1>2, <2>2
<1>4. ASSUME NEW p \in Tab,
             \/ SubmitEmail(p) \/ SubmitCode(p) \/ Pick(p) \/ SignOut(p)
             \/ \E page \in {"login", "home", "tenant", "app"} : Visit(p, page)
      PROVE  jar' = jar
  BY <1>4 DEF SubmitEmail, SubmitCode, Pick, SignOut, Send, Visit, clicked
<1>5. ASSUME \/ \E x \in Replica : Restart(x)
             \/ \E s \in Replica \X Email : Expire(s)
             \/ UNCHANGED accountsVars
             \/ \E r \in requests : Serve(r)
      PROVE  jar' = jar
  BY <1>5 DEF Restart, Expire, accountsVars, Serve, Start, Verify, Resolve,
     CreatePrincipal, SignIn, Switch, Redirect, Logout, served
<1> QED
  BY <1>1, <1>2, <1>3, <1>4, <1>5 DEF AccountsNext

-----------------------------------------------------------------------------
(* Signing in                                                                *)

\* As many principals as users who have one: no two have the same.
LEMMA OneEach ==
  ASSUME NEW S, IsFiniteSet(S), NEW n \in Nat, NEW f \in [S -> 1 .. n],
         \A k \in 1 .. n : \E e \in S : f[e] = k
  PROVE  n = Cardinality(S) <=> \A d, e \in S : f[d] = f[e] => d = e
<1>1. f \in Surjection(S, 1 .. n)
  BY DEF Surjection
<1>2. Cardinality(1 .. n) = n
  BY FS_Interval
<1>3. n = Cardinality(S) <=> f \in Injection(S, 1 .. n)
  BY <1>1, <1>2, FS_Surjection
<1> QED
  BY <1>3 DEF Injection, IsInjective

LEMMA FirstIdentity == AccountsInit => IdentityInv
<1> SUFFICES ASSUME AccountsInit PROVE IdentityInv
  OBVIOUS
<1> PICK known : known = {e \in Email : member[e] # {}}
  OBVIOUS
<1>1. /\ member \in [Email -> SUBSET Tenant] /\ principals = Cardinality(known)
      /\ identity \in [Email -> 0 .. Cardinality(Email)]
      /\ \A e \in Email : identity[e] # 0 <=> e \in known
      /\ {identity[e] : e \in known} = 1 .. principals
  BY AccountsAssumption DEF AccountsInit
<1>2. IsFiniteSet(known) /\ principals \in Nat
  BY <1>1, AccountsAssumption, FS_Subset, FS_CardinalityType
<1>3. \A e \in Email : identity[e] \in 0 .. principals
  <2> SUFFICES ASSUME NEW e \in Email PROVE identity[e] \in 0 .. principals
    OBVIOUS
  <2>1. CASE e \in known
    BY <1>1, <1>2, <2>1
  <2>2. CASE e \notin known
    BY <1>1, <1>2, <2>2
  <2> QED
    BY <2>1, <2>2
<1> PICK f : f = [e \in known |-> identity[e]]
  OBVIOUS
<1>4. f \in [known -> 1 .. principals] /\ \A k \in 1 .. principals : \E e \in known : f[e] = k
  BY <1>1
<1>5. \A d, e \in known : f[d] = f[e] => d = e
  <2>1. principals = Cardinality(known) <=> \A d, e \in known : f[d] = f[e] => d = e
    BY ONLY <1>2, <1>4, OneEach
  <2> QED
    BY <1>1, <2>1
<1>6. \A d, e \in Email : identity[d] # 0 /\ identity[d] = identity[e] => d = e
  BY <1>1, <1>5
<1>7. \A n \in 1 .. principals : \E e \in Email : identity[e] = n
  BY <1>1
<1> QED
  BY <1>1, <1>2, <1>3, <1>6, <1>7 DEF IdentityInv

LEMMA SignInInit == AccountsInit => SignInInv
<1> SUFFICES ASSUME AccountsInit PROVE SignInInv
  OBVIOUS
<1>1. RequestsInv /\ eventsLeft \in 0 .. MaxEvents
  BY AccountsAssumption DEF AccountsInit, RequestsInv
<1>2. CodesInv
  BY DEF AccountsInit, CodesInv, CodeOnce, Slot
<1>3. PagesInv
  BY PageAtOK DEF AccountsInit, PagesInv, PageOK
<1>4. SessionOK(jar)
  BY NoSession DEF AccountsInit
<1> QED
  BY <1>1, <1>2, <1>3, <1>4, FirstIdentity DEF SignInInv

LEMMA EventsNext ==
  ASSUME SignInInv, [AccountsNext]_accountsVars PROVE eventsLeft' \in 0 .. MaxEvents
<1>0. eventsLeft \in 0 .. MaxEvents /\ MaxEvents \in Nat
  BY AccountsAssumption DEF SignInInv
<1>1. eventsLeft' = eventsLeft \/ Event
  <2>1. ASSUME NEW r \in requests, Serve(r) \/ Fail(r) \/ Receive(r)
        PROVE  eventsLeft' = eventsLeft \/ Event
    BY <2>1 DEF Serve, Start, Verify, Resolve, CreatePrincipal, SignIn, Switch, Redirect,
       Logout, served, Fail, Receive, Started, Verified, Switched, LoggedOut, Refused,
       Dropped, received
  <2>2. ASSUME NEW p \in Tab,
               \/ SubmitEmail(p) \/ SubmitCode(p) \/ Pick(p) \/ SignOut(p)
               \/ \E page \in {"login", "home", "tenant", "app"} : Visit(p, page)
        PROVE  Event
    BY <2>2 DEF SubmitEmail, SubmitCode, Pick, SignOut, Send, Visit
  <2> QED
    BY <2>1, <2>2 DEF AccountsNext, Expire, Restart, accountsVars
<1> QED
  BY <1>0, <1>1 DEF Event

\* Signing in: the inductive invariant.
THEOREM SignInInvariant == AccountsSpec => []SignInInv
<1>1. ASSUME SignInInv, [AccountsNext]_accountsVars PROVE SignInInv'
  <2>1. IdentityInv' /\ CodesInv'
    BY <1>1, LastingNext
  <2>2. PagesInv'
    BY <1>1, PagesNext DEF SignInInv
  <2> QED
    BY <1>1, <2>1, <2>2, RequestsNext, JarNext, EventsNext DEF SignInInv
<1> QED
  BY <1>1, SignInInit, PTL DEF AccountsSpec

LEMMA PrincipalsCounted ==
  ASSUME IdentityInv PROVE OnePrincipalPerEmail
<1> PICK known : known = {e \in Email : identity[e] # 0}
  OBVIOUS
<1> PICK f : f = [e \in known |-> identity[e]]
  OBVIOUS
<1>1. IsFiniteSet(known)
  BY AccountsAssumption, FS_Subset
<1>2. f \in [known -> 1 .. principals] /\ \A k \in 1 .. principals : \E e \in known : f[e] = k
  BY DEF IdentityInv
<1>3. \A d, e \in known : f[d] = f[e] => d = e
  BY DEF IdentityInv
<1>4. principals = Cardinality(known)
  BY <1>1, <1>2, <1>3, OneEach DEF IdentityInv
<1>5. {identity[e] : e \in known} = 1 .. principals
  BY <1>2
<1>6. Cardinality(1 .. principals) = principals
  BY FS_Interval DEF IdentityInv
<1> QED
  BY <1>4, <1>5, <1>6 DEF OnePrincipalPerEmail

\* However sign-ins, switches and sign-outs of several tabs interleave, a code signs
\* in at most once and within its tries, every user has one principal, and the
\* session's business is one its user, or whoever chose it, is a member of.
THEOREM SignInsAreSound == AccountsSpec => []AccountsInv
<1>1. ASSUME SignInInv PROVE AccountsInv
  <2>1. \A x \in Replica, e \in Email : store[<<x, e>>] # Nothing =>
          /\ store[<<x, e>>].code \in DOMAIN codes
          /\ codes[store[<<x, e>>].code].email = e /\ codes[store[<<x, e>>].code].at = x
          /\ store[<<x, e>>].attempts \in 0 .. MaxAttempts
    <3> SUFFICES ASSUME NEW x \in Replica, NEW e \in Email, store[<<x, e>>] # Nothing
                 PROVE  /\ store[<<x, e>>].code \in DOMAIN codes
                        /\ codes[store[<<x, e>>].code].email = e
                        /\ codes[store[<<x, e>>].code].at = x
                        /\ store[<<x, e>>].attempts \in 0 .. MaxAttempts
      OBVIOUS
    <3> PICK s \in Slot : s = <<x, e>>
      BY DEF Slot
    <3>1. s[1] = x /\ s[2] = e
      OBVIOUS
    <3> QED
      BY <1>1, <3>1, EntryIs DEF SignInInv
  <2>2. \A p \in Tab : /\ tab[p].page \in {"login", "verify", "tenant", "app", "landing",
                                           "onboarding"}
                       /\ tab[p].shown \subseteq Tenant
                       /\ tab[p].busy \in Tenant \cup {None, "yes"}
    BY <1>1 DEF SignInInv, PagesInv, PageOK, PageState
  <2>3. \A r \in requests : /\ r.tab \in Tab \cup {None}
                            /\ "cookie" \in DOMAIN r => r.cookie \in Sessions
    BY <1>1, RequestIs DEF SignInInv, RequestsInv, Sender, SessionOK
  <2>4. identity \in [Email -> 0 .. principals] /\ jar \in Sessions
        /\ eventsLeft \in 0 .. MaxEvents
    BY <1>1 DEF SignInInv, IdentityInv, SessionOK
  <2>5. AccountsTypeOK
    BY <2>1, <2>2, <2>3, <2>4 DEF AccountsTypeOK
  <2>6. TenantOfUser
    BY <1>1 DEF SignInInv, SessionOK, TenantOK, TenantOfUser
  <2> QED
    BY <1>1, <2>5, <2>6, PrincipalsCounted DEF SignInInv, CodesInv, AccountsInv
<1> QED
  BY <1>1, SignInInvariant, PTL

\* The replica that sent a user a code refuses it only when the code expired, was
\* forgotten or used, was tried MaxAttempts times, or gave way to a newer one of that
\* replica: as long as it is good, its entry is there and waits for it.
THEOREM CodesAreHonoured == AccountsSpec => RefusedForCause
<1>1. ASSUME SignInInv, NEW r \in requests, NEW x \in Replica, Has(r, "verify", "sent"),
             Verify(r, x), r.code # 0, codes[r.code].at = x, Good(r.code)
      PROVE  codes'[r.code].used = 1
  <2> PICK c : c = r.code
    OBVIOUS
  <2> PICK e : e = r.email
    OBVIOUS
  <2> PICK s : s = <<x, e>>
    OBVIOUS
  <2>1. e \in Email /\ c \in DOMAIN codes /\ codes[c].email = e
    BY <1>1, RequestIs DEF SignInInv, RequestsInv, Has, CodeOK
  <2>2. s \in Slot /\ s[1] = x /\ s[2] = e /\ Of(c) = s
    BY <1>1, <2>1 DEF Slot, Of
  <2> PICK entry : entry = store[s]
    OBVIOUS
  <2>3. entry # Nothing /\ entry.code = c
    BY <1>1, <2>1, <2>2 DEF SignInInv, CodesInv
  <2>4. /\ entry.attempts \in Nat
        /\ codes[c] = [email |-> e, at |-> x, tried |-> entry.attempts, used |-> 0,
                       gone |-> entry.expired]
        /\ entry.expired \in BOOLEAN
    BY <1>1, <2>2, <2>3, EntryIs DEF SignInInv
  <2>5. ~entry.expired /\ entry.attempts < MaxAttempts
    BY <1>1, <2>4 DEF Good
  <2> PICK right \in BOOLEAN : right = TRUE
    OBVIOUS
  <2>6. Checked(entry, c).right = right
    BY <2>3, <2>4, <2>5, AccountsAssumption DEF Checked
  <2>7. codes' = [codes EXCEPT ![c] = Tried(codes[c], right)]
    BY <1>1, <2>3, <2>6 DEF Verify
  <2>8. Tried(codes[c], right).used = 1
    <3> PICK a \in Nat : a = entry.attempts
      BY <2>4
    <3> PICK g : g = entry.expired
      OBVIOUS
    <3> PICK u : u = IF right THEN 1 ELSE 0
      OBVIOUS
    <3>1. Tried([email |-> e, at |-> x, tried |-> a, used |-> 0, gone |-> g], right)
            = [email |-> e, at |-> x, tried |-> a + 1, used |-> IF right THEN 1 ELSE 0,
               gone |-> g]
      BY ONLY TriedIs, a \in Nat, right \in BOOLEAN
    <3>2. codes[c] = [email |-> e, at |-> x, tried |-> a, used |-> 0, gone |-> g]
      BY <2>4
    <3>3. Tried(codes[c], right)
            = [email |-> e, at |-> x, tried |-> a + 1, used |-> u, gone |-> g]
      BY ONLY <3>1, <3>2, u = IF right THEN 1 ELSE 0
    <3>4. u = 1
      OBVIOUS
    <3> QED
      BY ONLY <3>3, <3>4
  <2> QED
    BY <2>1, <2>7, <2>8
<1>2. ASSUME SignInInv, [AccountsNext]_accountsVars
      PROVE  [\A r \in requests, x \in Replica :
                Has(r, "verify", "sent") /\ Verify(r, x) =>
                    \/ r.code = 0 \/ codes[r.code].at # x \/ ~Good(r.code)
                    \/ codes'[r.code].used = 1]_accountsVars
  BY <1>1, <1>2
<1> QED
  BY <1>2, SignInInvariant, PTL DEF AccountsSpec, RefusedForCause
-----------------------------------------------------------------------------
(* Forms                                                                     *)

LEMMA ServedTab ==
  ASSUME RequestsInv, NEW r \in requests, Serve(r) \/ Fail(r)
  PROVE  \E q : Replace(r, q) /\ q.tab = r.tab
<1>0. ASSUME r.op = "verify", r.stage \in {"sent", "resolve", "create"}, NEW q,
             \/ \E stage : q = [r EXCEPT !.stage = stage]
             \/ \E n : q = [r EXCEPT !.stage = "members", !.principal = n]
             \/ q = Answer(r, "error")
      PROVE  q.tab = r.tab
  <2>1. r \in VerifyRequest(r.no)
    BY <1>0, RequestIs DEF RequestsInv
  <2>2. "tab" \in DOMAIN r /\ r = [f \in DOMAIN r |-> r[f]]
    BY <2>1 DEF VerifyRequest
  <2>3. CASE \E stage : q = [r EXCEPT !.stage = stage]
    BY <2>2, <2>3
  <2>4. CASE \E n : q = [r EXCEPT !.stage = "members", !.principal = n]
    BY <2>2, <2>4
  <2>5. CASE q = Answer(r, "error")
    BY <2>5 DEF Answer
  <2> QED
    BY <1>0, <2>3, <2>4, <2>5
<1>1. CASE Fail(r)
  BY <1>1 DEF Fail, Answer
<1>2. CASE Switch(r) \/ Redirect(r) \/ Logout(r) \/ SignIn(r)
  BY <1>2 DEF Switch, Redirect, Logout, SignIn, Answer, Accept
<1>3. CASE \E x \in Replica : Start(r, x)
  BY <1>3 DEF Start
<1>4. CASE \E x \in Replica : Verify(r, x)
  <2>1. PICK x \in Replica : Verify(r, x)
    BY <1>4
  <2>2. /\ Has(r, "verify", "sent")
        /\ \E q : /\ Replace(r, q)
                  /\ q = [r EXCEPT !.stage = "resolve"] \/ q = Answer(r, "error")
    BY <2>1 DEF Verify
  <2> QED
    BY <1>0, <2>2 DEF Has
<1>5. CASE Resolve(r)
  <2>1. /\ Has(r, "verify", "resolve")
        /\ \E q : /\ Replace(r, q)
                  /\ \/ q = [r EXCEPT !.stage = "create"]
                     \/ q = [r EXCEPT !.stage = "members", !.principal = identity[r.email]]
    BY <1>5 DEF Resolve
  <2> QED
    BY <1>0, <2>1 DEF Has
<1>6. CASE CreatePrincipal(r)
  <2>1. /\ Has(r, "verify", "create")
        /\ \E q : /\ Replace(r, q)
                  /\ \/ q = [r EXCEPT !.stage = "members", !.principal = principals + 1]
                     \/ q = Answer(r, "error")
    BY <1>6 DEF CreatePrincipal
  <2> QED
    BY <1>0, <2>1 DEF Has
<1> QED
  BY <1>1, <1>2, <1>3, <1>4, <1>5, <1>6 DEF Serve

LEMMA StillAwaited ==
  ASSUME FormsAwaitAnswers, NEW r \in requests, NEW q, q.tab = r.tab, Replace(r, q),
         tab' = tab
  PROVE  FormsAwaitAnswers'
<1> SUFFICES ASSUME NEW p \in Tab, tab[p].busy # None
             PROVE  \E x \in requests' : x.tab = p
  BY DEF FormsAwaitAnswers
<1>1. PICK x \in requests : x.tab = p
  BY DEF FormsAwaitAnswers
<1> QED
  BY <1>1 DEF Replace

\* A page that is free, or has a new request, needs no other; the other pages keep
\* theirs.
LEMMA OthersAwaited ==
  ASSUME FormsAwaitAnswers, PagesInv, NEW t \in Tab, NEW x, tab' = [tab EXCEPT ![t] = x],
         x.busy = None \/ \E r \in requests' : r.tab = t,
         \A r \in requests : r.tab # t => r \in requests'
  PROVE  FormsAwaitAnswers'
<1> SUFFICES ASSUME NEW p \in Tab, tab'[p].busy # None
             PROVE  \E r \in requests' : r.tab = p
  BY DEF FormsAwaitAnswers
<1>1. CASE p = t
  BY <1>1 DEF PagesInv, PageState
<1>2. CASE p # t
  <2>1. PICK r \in requests : r.tab = p
    BY <1>2 DEF FormsAwaitAnswers, PagesInv, PageState
  <2> QED
    BY <1>2, <2>1
<1> QED
  BY <1>1, <1>2

LEMMA AwaitedNext ==
  ASSUME FormsAwaitAnswers, PagesInv, RequestsInv, [AccountsNext]_accountsVars
  PROVE  FormsAwaitAnswers'
<1>0. \A r \in requests : r.tab # None => r.tab \in Tab
  BY RequestIs DEF RequestsInv, Sender
<1>1. ASSUME NEW p \in Tab, SubmitEmail(p) \/ SubmitCode(p) \/ Pick(p) \/ SignOut(p)
      PROVE  FormsAwaitAnswers'
  <2>1. PICK r, b : r.tab = p /\ Send(p, r, b)
    BY <1>1 DEF SubmitEmail, SubmitCode, Pick, SignOut
  <2>2. PICK x : x = [tab[p] EXCEPT !.busy = b]
    OBVIOUS
  <2>3. tab' = [tab EXCEPT ![p] = x]
    BY <2>1, <2>2 DEF Send
  <2>4. r \in requests' /\ \A q \in requests : q \in requests'
    BY <2>1 DEF Send
  <2> QED
    BY <2>1, <2>3, <2>4, OthersAwaited
<1>2. ASSUME NEW p \in Tab, NEW page \in {"login", "home", "tenant", "app"}, Visit(p, page)
      PROVE  FormsAwaitAnswers'
  <2>1. PICK x : /\ tab' = [tab EXCEPT ![p] = x]
                 /\ x = IF page = "login" THEN PageAt(page)
                        ELSE IF page = "home" THEN Home(jar) ELSE Rendered(page, jar)
    BY <1>2 DEF Visit, Loads
  <2>3. x.busy = None
    BY <2>1 DEF Home, Rendered, PageAt
  <2>2. \A r \in requests : r.tab # p => r \in requests'
    BY <1>2 DEF Visit, Loads
  <2> QED
    BY <2>1, <2>2, <2>3, OthersAwaited
<1>3. ASSUME NEW r \in requests, Serve(r) \/ Fail(r) PROVE FormsAwaitAnswers'
  <2>1. tab' = tab
    BY <1>3 DEF Serve, Start, Verify, Resolve, CreatePrincipal, SignIn, Switch, Redirect,
       Logout, served, Fail
  <2>2. PICK q : Replace(r, q) /\ q.tab = r.tab
    BY <1>3, ServedTab
  <2> QED
    BY <2>1, <2>2, StillAwaited
<1>4. ASSUME NEW r \in requests, Receive(r), ~Dropped(r) PROVE FormsAwaitAnswers'
  <2>1. r.tab \in Tab
    BY <1>0, <1>4 DEF Receive, Started, Verified, Switched, LoggedOut, Refused, Taken
  <2>2. \A q \in requests : q.tab # r.tab => q \in requests'
    BY <1>4 DEF Receive, Started, Verified, Switched, LoggedOut, Refused, GoesOn
  <2>3. CASE Refused(r)
    <3>1. PICK x : x = [tab[r.tab] EXCEPT !.busy = None]
      OBVIOUS
    <3>2. tab' = [tab EXCEPT ![r.tab] = x] /\ x.busy = None
      BY <2>1, <2>3, <3>1 DEF Refused, PagesInv, PageOK, PageState
    <3> QED
      BY <2>1, <2>2, <3>2, OthersAwaited
  <2>4. CASE ~Refused(r)
    <3>1. PICK x : tab' = [tab EXCEPT ![r.tab] = x] /\ x.busy = None
      BY <1>4, <2>4 DEF Receive, Started, Verified, Switched, LoggedOut, GoesOn, Home,
         Rendered, PageAt
    <3> QED
      BY <2>1, <2>2, <3>1, OthersAwaited
  <2> QED
    BY <2>3, <2>4
<1>5. ASSUME NEW r \in requests, Dropped(r) PROVE FormsAwaitAnswers'
  <2> SUFFICES ASSUME NEW p \in Tab, tab[p].busy # None
               PROVE  \E q \in requests' : q.tab = p
    BY <1>5 DEF Dropped, FormsAwaitAnswers
  <2>1. PICK q \in requests : q.tab = p
    BY DEF FormsAwaitAnswers
  <2>2. q # r
    BY <1>5, <2>1, AccountsAssumption DEF Dropped, None
  <2> QED
    BY <1>5, <2>1, <2>2 DEF Dropped
<1>6. ASSUME \/ \E x \in Replica : Restart(x)
             \/ \E s \in Replica \X Email : Expire(s)
             \/ UNCHANGED accountsVars
      PROVE  FormsAwaitAnswers'
  BY <1>6 DEF Restart, Expire, accountsVars, FormsAwaitAnswers
<1> QED
  BY <1>1, <1>2, <1>3, <1>4, <1>5, <1>6 DEF AccountsNext

\* A form whose button is held has a request under way whose answer will free it
\* or take its page away, however clicks, errors and answers of several tabs cross.
THEOREM FormsAreAnswered == AccountsSpec => []FormsAwaitAnswers
<1>1. AccountsInit => FormsAwaitAnswers
  BY DEF AccountsInit, PageAt, FormsAwaitAnswers
<1>2. ASSUME FormsAwaitAnswers, SignInInv, [AccountsNext]_accountsVars
      PROVE  FormsAwaitAnswers'
  BY <1>2, AwaitedNext DEF SignInInv
<1> QED
  BY <1>1, <1>2, SignInInvariant, PTL DEF AccountsSpec

=============================================================================
