--------------------------- MODULE MessagingProofs ---------------------------
(***************************************************************************)
(* Proofs about sending a business's messages: the sender, for any number  *)
(* of replicas, messages, credential changes and interruptions; and, after *)
(* it, the pages on which the owner saves the credentials it sends with,   *)
(* and the other settings, for any number of tabs, numbers and events.     *)
(***************************************************************************)
EXTENDS Sender, Integrations, FiniteSetTheorems, TLAPS

Kinds == {"text", "template", "malformed"}

-----------------------------------------------------------------------------
(* Types *)

\* Only messages that fit the schema are ever worked on.
Readable(r) == ~At(r, "idle") => Current(r).kind # "malformed"
TypeInv == TypeOK /\ \A r \in Replica : Readable(r)

\* The messages of the log.
LEMMA LogTyped ==
  ASSUME TypeOK, NEW k \in Nat, k < Len(outbound)
  PROVE  outbound[k + 1] \in MessageType /\ outbound[k + 1].kind \in Kinds
<1>1. outbound \in Seq(Message) /\ k + 1 \in 1 .. Len(outbound)
  BY DEF TypeOK
<1>2. outbound[k + 1] \in Message
  BY <1>1
<1> QED
  BY <1>2, SenderAssumption DEF MessageType, Kinds

LEMMA TaskTyped ==
  ASSUME TypeOK, NEW r \in Replica
  PROVE  /\ task[r] \in Task /\ task[r].offset \in Nat /\ Len(outbound) \in Nat
         /\ ~At(r, "idle") => task[r].offset < Len(outbound)
  BY DEF TypeOK, Task

\* Where a task begins again.
LEMMA BeginTyped ==
  ASSUME TypeOK, NEW k \in Nat, k < Len(outbound), outbound[k + 1].kind # "malformed"
  PROVE  /\ Begin(k) \in Task /\ Begin(k).offset = k
         /\ Begin(k).stage \in {"check", "send"}
  BY LogTyped DEF Begin, Task, Kinds

\* A step that gives one replica another task of the log, or none.
LEMMA PutTyped ==
  ASSUME TypeInv, NEW r \in Replica, NEW t \in Task, task' = [task EXCEPT ![r] = t],
         outbound' = outbound,
         t.stage # "idle" => /\ t.offset < Len(outbound)
                             /\ outbound[t.offset + 1].kind # "malformed"
  PROVE  /\ task' \in [Replica -> Task] /\ task'[r] = t
         /\ \A q \in Replica : q # r => task'[q] = task[q]
         /\ \A q \in Replica : At(q, "idle")' \/ task'[q].offset < Len(outbound')
         /\ \A q \in Replica : Readable(q)'
<1>1. /\ task' \in [Replica -> Task] /\ task'[r] = t
      /\ \A q \in Replica : q # r => task'[q] = task[q]
  BY DEF TypeInv, TypeOK
<1>2. \A q \in Replica : q # r => /\ At(q, "idle")' = At(q, "idle")
                                  /\ Current(q)' = Current(q)
  BY <1>1 DEF At, Current
<1>3. At(r, "idle")' = (t.stage = "idle") /\ Current(r)' = outbound[t.offset + 1]
  BY <1>1 DEF At, Current
<1>4. \A q \in Replica : Readable(q)'
  BY <1>2, <1>3 DEF TypeInv, Readable
<1>5. \A q \in Replica : At(q, "idle")' \/ task'[q].offset < Len(outbound')
  BY <1>1, <1>2, <1>3 DEF TypeInv, TypeOK
<1> QED
  BY <1>1, <1>4, <1>5

\* The three ways a handler leaves its stage.
LEMMA GotoTyped ==
  ASSUME TypeInv, NEW r \in Replica, ~At(r, "idle"), NEW s \in {"template", "send"},
         \/ Goto(r, s)
         \/ task' = [task EXCEPT ![r].content = "template", ![r].stage = s],
         outbound' = outbound
  PROVE  \E t \in Task : /\ task' = [task EXCEPT ![r] = t]
                         /\ t.stage = s /\ t.offset = task[r].offset
<1>1. task[r] \in Task
  BY TaskTyped DEF TypeInv
<1>2. CASE Goto(r, s)
  <2> DEFINE t == [task[r] EXCEPT !.stage = s]
  <2>1. t \in Task /\ t.stage = s /\ t.offset = task[r].offset
    BY <1>1 DEF Task
  <2>2. task' = [task EXCEPT ![r] = t]
    BY <1>2 DEF Goto
  <2> QED
    BY <2>1, <2>2
<1>3. CASE task' = [task EXCEPT ![r].content = "template", ![r].stage = s]
  <2> DEFINE t == [task[r] EXCEPT !.content = "template", !.stage = s]
  <2>1. t \in Task /\ t.stage = s /\ t.offset = task[r].offset
    BY <1>1 DEF Task
  <2>2. task' = [task EXCEPT ![r] = t]
    BY <1>1, <1>3 DEF TypeInv, TypeOK
  <2> QED
    BY <2>1, <2>2
<1> QED
  BY <1>2, <1>3

LEMMA AgainTyped ==
  ASSUME TypeInv, NEW r \in Replica, ~At(r, "idle"), Again(r)
  PROVE  \E t \in Task : /\ task' = [task EXCEPT ![r] = t]
                         /\ \/ owner # r /\ t = Idle
                            \/ /\ owner = r /\ t.stage \in {"check", "send"}
                               /\ t.offset = task[r].offset
<1>1. /\ task[r].offset \in Nat /\ task[r].offset < Len(outbound)
      /\ outbound[task[r].offset + 1].kind # "malformed"
  BY TaskTyped DEF TypeInv, Readable, Current
<1>2. /\ Begin(task[r].offset) \in Task /\ Begin(task[r].offset).offset = task[r].offset
      /\ Begin(task[r].offset).stage \in {"check", "send"}
  BY <1>1, BeginTyped DEF TypeInv
<1>3. Idle \in Task
  BY DEF Idle, Task
<1> QED
  BY <1>2, <1>3 DEF Again

\* One replica's task after one of its steps on a message: gone on, begun again
\* or over.
LEMMA WorkEffect ==
  ASSUME TypeInv, NEW r \in Replica, outbound' = outbound,
         \/ CheckWindow(r) \/ UseTemplate(r) \/ Throws(r) \/ Fails(r)
         \/ Drop(r) \/ Send(r) \/ SkipSend(r)
  PROVE  /\ ~At(r, "idle") /\ task' \in [Replica -> Task]
         /\ task'[r] = Idle \/ (~At(r, "idle")' /\ task'[r].offset = task[r].offset)
         /\ task'[r] = Idle => owner # r \/ Drop(r) \/ Send(r) \/ SkipSend(r)
         /\ \A q \in Replica : q # r => task'[q] = task[q]
         /\ \A q \in Replica : At(q, "idle")' \/ task'[q].offset < Len(outbound')
         /\ \A q \in Replica : Readable(q)'
<1>1. ~At(r, "idle")
  BY DEF CheckWindow, UseTemplate, Throws, Fails, Drop, Send, SkipSend, Goes, At
<1>2. /\ task[r].offset \in Nat /\ task[r].offset < Len(outbound)
      /\ outbound[task[r].offset + 1].kind # "malformed"
  BY <1>1, TaskTyped DEF TypeInv, Readable, Current
<1>3. \E t \in Task : /\ task' = [task EXCEPT ![r] = t]
                      /\ t = Idle \/ (t.stage # "idle" /\ t.offset = task[r].offset)
                      /\ t = Idle => owner # r \/ Drop(r) \/ Send(r) \/ SkipSend(r)
  <2>1. CASE CheckWindow(r) \/ UseTemplate(r)
    <3>1. \E s \in {"template", "send"} :
            \/ Goto(r, s)
            \/ task' = [task EXCEPT ![r].content = "template", ![r].stage = s]
      BY <2>1 DEF CheckWindow, UseTemplate
    <3> QED
      BY <1>1, <3>1, GotoTyped DEF Idle
  <2>2. CASE Throws(r) \/ Fails(r)
    <3>1. Again(r)
      BY <2>2 DEF Throws, Fails
    <3> QED
      BY <1>1, <3>1, AgainTyped DEF Idle
  <2>3. CASE Drop(r) \/ Send(r) \/ SkipSend(r)
    <3>1. task' = [task EXCEPT ![r] = Idle] /\ Idle \in Task
      BY <2>3 DEF Drop, Send, SkipSend, Finish, Idle, Task
    <3> QED
      BY <2>3, <3>1
  <2> QED
    BY <2>1, <2>2, <2>3
<1>4. PICK t \in Task : /\ task' = [task EXCEPT ![r] = t]
                        /\ t = Idle \/ (t.stage # "idle" /\ t.offset = task[r].offset)
                        /\ t = Idle => owner # r \/ Drop(r) \/ Send(r) \/ SkipSend(r)
  BY <1>3
<1>5. t.stage # "idle" => /\ t.offset < Len(outbound)
                          /\ outbound[t.offset + 1].kind # "malformed"
  BY <1>2, <1>4 DEF Idle
<1>6. /\ task' \in [Replica -> Task] /\ task'[r] = t
      /\ \A q \in Replica : q # r => task'[q] = task[q]
      /\ \A q \in Replica : At(q, "idle")' \/ task'[q].offset < Len(outbound')
      /\ \A q \in Replica : Readable(q)'
  BY <1>4, <1>5, PutTyped
<1> QED
  BY <1>1, <1>4, <1>6 DEF At

\* Credentials are credentials, wherever they are read and kept.
LEMMA CredsTyped ==
  ASSUME TypeOK, NEW r \in Replica, KeepCreds(r) \/ cache' = cache
  PROVE  cache' \in [Replica -> CredsType]
<1>1. Creds(r) \in CredsType
  BY DEF TypeOK, Creds
<1>2. CASE KeepCreds(r)
  <2>1. cache' = [cache EXCEPT ![r] = Creds(r)] \/ cache' = cache
    BY <1>2 DEF KeepCreds
  <2> QED
    BY <1>1, <2>1 DEF TypeOK
<1>3. CASE cache' = cache
  BY <1>3 DEF TypeOK
<1> QED
  BY <1>2, <1>3

LEMMA OffsetsAppend ==
  ASSUME NEW s \in Seq(Nat), NEW k \in Nat
  PROVE  Append(s, k) \in Seq(Nat)
  OBVIOUS

\* The variables but for task and log.
LEMMA RestTyped ==
  ASSUME TypeOK, UNCHANGED <<adapter, outbound>>,
         task' \in [Replica -> Task],
         \A r \in Replica : At(r, "idle")' \/ task'[r].offset < Len(outbound'),
         \A r \in Replica : Readable(r)',
         committed' \in 0 .. Len(outbound), position' \in 0 .. Len(outbound),
         owner' \in Replica \cup {Nobody}, window' \subseteq Customer,
         approved' \subseteq Template, saved' \in CredsType,
         cache' \in [Replica -> CredsType], key' \in Nat, delivered' \in Seq(Nat),
         outcome' \subseteq Nat \X {"sent", "skipped", "dropped", "malformed"},
         interruptions' \in 0 .. MaxInterruptions, changes' \in 0 .. MaxChanges
  PROVE  TypeInv'
  BY DEF TypeInv, TypeOK

\* A step that leaves all tasks as they are.
LEMMA SameTasks ==
  ASSUME TypeInv, UNCHANGED <<outbound, task>>
  PROVE  /\ task' \in [Replica -> Task]
         /\ \A r \in Replica : At(r, "idle")' \/ task'[r].offset < Len(outbound')
         /\ \A r \in Replica : Readable(r)'
<1>1. \A r \in Replica : At(r, "idle")' = At(r, "idle") /\ Current(r)' = Current(r)
  BY DEF At, Current
<1> QED
  BY <1>1 DEF TypeInv, TypeOK, Readable

LEMMA NextTyped == TypeInv /\ [Next]_vars => TypeInv'
<1> SUFFICES ASSUME TypeInv, [Next]_vars PROVE TypeInv'
  OBVIOUS
<1> USE DEF group, world, done
<1>0. /\ TypeOK /\ adapter \in Adapters /\ outbound \in Seq(Message)
      /\ committed \in 0 .. Len(outbound) /\ position \in 0 .. Len(outbound)
      /\ owner \in Replica \cup {Nobody} /\ window \subseteq Customer
      /\ approved \subseteq Template /\ saved \in CredsType
      /\ cache \in [Replica -> CredsType] /\ key \in Nat /\ delivered \in Seq(Nat)
      /\ outcome \subseteq Nat \X {"sent", "skipped", "dropped", "malformed"}
      /\ interruptions \in 0 .. MaxInterruptions /\ changes \in 0 .. MaxChanges
      /\ MaxInterruptions \in Nat /\ MaxChanges \in Nat /\ Len(outbound) \in Nat
  BY SenderAssumption DEF TypeInv, TypeOK
<1>i. Interrupted => interruptions' \in 0 .. MaxInterruptions
  BY <1>0 DEF Interrupted
<1>c. Changed => changes' \in 0 .. MaxChanges
  BY <1>0 DEF Changed
<1>1. CASE UNCHANGED vars
  <2>1. /\ UNCHANGED <<adapter, outbound, task, committed, position, owner, window>>
        /\ UNCHANGED <<approved, saved, cache, key, delivered, outcome, interruptions, changes>>
    BY <1>1 DEF vars
  <2> QED
    BY <1>0, <2>1, SameTasks, RestTyped
<1>2. CASE Publish
  <2>1. PICK m \in Message : outbound' = Append(outbound, m)
    BY <1>2 DEF Publish
  <2>2. /\ outbound' \in Seq(Message) /\ Len(outbound') = Len(outbound) + 1
        /\ \A i \in 1 .. Len(outbound) : outbound'[i] = outbound[i]
    BY <1>0, <2>1
  <2>3. \A r \in Replica : ~At(r, "idle") => Current(r)' = Current(r)
    <3> SUFFICES ASSUME NEW r \in Replica, ~At(r, "idle") PROVE Current(r)' = Current(r)
      OBVIOUS
    <3>1. task[r].offset + 1 \in 1 .. Len(outbound) /\ task'[r] = task[r]
      BY <1>0, <1>2, TaskTyped DEF Publish
    <3> QED
      BY <2>2, <3>1 DEF Current
  <2>4. \A r \in Replica : Readable(r)'
    BY <1>2, <2>3 DEF TypeInv, Readable, At, Publish
  <2>5. \A r \in Replica : At(r, "idle")' \/ task'[r].offset < Len(outbound')
    BY <1>0, <1>2, <2>2, TaskTyped DEF Publish, At
  <2>6. 0 .. Len(outbound) \subseteq 0 .. Len(outbound')
    BY <1>0, <2>2
  <2> QED
    BY <1>0, <1>2, <2>2, <2>4, <2>5, <2>6 DEF TypeInv, TypeOK, Publish
<1>3. ASSUME World, ~Publish PROVE TypeInv'
  <2>1. /\ UNCHANGED <<adapter, outbound, task, committed, position, owner>>
        /\ UNCHANGED <<delivered, outcome, interruptions>>
    BY <1>3 DEF World, Rotate, Write, Expire, SetStatus, Save, WebhookCaches
  <2>2. window' \subseteq Customer
    BY <1>0, <1>3 DEF World, Rotate, Write, Expire, SetStatus, Save, WebhookCaches
  <2>3. approved' \subseteq Template
    BY <1>0, <1>3 DEF World, Rotate, Write, Expire, SetStatus, Save, WebhookCaches
  <2>4. saved' \in CredsType
    BY <1>0, <1>3 DEF World, Rotate, Write, Expire, SetStatus, Save, WebhookCaches, CredsType
  <2>5. key' \in Nat
    BY <1>0, <1>3 DEF World, Rotate, Write, Expire, SetStatus, Save, WebhookCaches
  <2>6. changes' \in 0 .. MaxChanges
    BY <1>0, <1>3, <1>c DEF World, Rotate, Write, Expire, SetStatus, Save, WebhookCaches
  <2>7. cache' \in [Replica -> CredsType]
    <3>1. cache' = cache \/ \E r \in Replica : KeepCreds(r)
      BY <1>3 DEF World, Rotate, Write, Expire, SetStatus, Save, WebhookCaches
    <3> QED
      BY <1>0, <3>1, CredsTyped
  <2> QED
    BY <1>0, <2>1, <2>2, <2>3, <2>4, <2>5, <2>6, <2>7, SameTasks, RestTyped
<1>4. ASSUME NEW r \in Replica, Assign(r) PROVE TypeInv'
  <2>1. /\ owner' = r /\ position' = committed /\ UNCHANGED <<adapter, outbound, task>>
        /\ UNCHANGED <<committed, window, approved, saved, key, changes>>
        /\ UNCHANGED <<cache, delivered, outcome>>
        /\ interruptions' \in 0 .. MaxInterruptions
    BY <1>0, <1>4, <1>i DEF Assign
  <2> QED
    BY <1>0, <2>1, SameTasks, RestTyped
<1>5. ASSUME NEW r \in Replica, Take(r) PROVE TypeInv'
  <2>1. /\ UNCHANGED <<adapter, outbound, committed, owner, window, approved, saved, key>>
        /\ UNCHANGED <<changes, cache, delivered, outcome, interruptions>>
        /\ position' = position + 1 /\ position < Len(outbound)
        /\ outbound[position + 1].kind # "malformed"
        /\ task' = [task EXCEPT ![r] = Begin(position)]
    BY <1>5 DEF Take, Available
  <2>2. position' \in 0 .. Len(outbound) /\ position \in Nat
    BY <1>0, <2>1
  <2>3. Begin(position) \in Task /\ Begin(position).offset = position
    BY <1>0, <2>1, <2>2, BeginTyped
  <2>4. /\ task' \in [Replica -> Task]
        /\ \A q \in Replica : At(q, "idle")' \/ task'[q].offset < Len(outbound')
        /\ \A q \in Replica : Readable(q)'
    BY <2>1, <2>3, PutTyped
  <2> QED
    BY <1>0, <2>1, <2>2, <2>4, RestTyped
<1>6. ASSUME NEW r \in Replica, SkipMalformed(r) PROVE TypeInv'
  <2>1. /\ UNCHANGED <<adapter, outbound, task, committed, owner, window, approved, saved>>
        /\ UNCHANGED <<key, changes, cache, delivered, interruptions>>
        /\ position' = position + 1 /\ position < Len(outbound)
        /\ outcome' = outcome \cup {<<position, "malformed">>}
    BY <1>6 DEF SkipMalformed, Available
  <2>2. position' \in 0 .. Len(outbound) /\ position \in Nat
    BY <1>0, <2>1
  <2>3. outcome' \subseteq Nat \X {"sent", "skipped", "dropped", "malformed"}
    BY <1>0, <2>1, <2>2
  <2> QED
    BY <1>0, <2>1, <2>2, <2>3, SameTasks, RestTyped
<1>7. ASSUME NEW r \in Replica, CommitOffsets(r) PROVE TypeInv'
  <2>1. /\ UNCHANGED <<adapter, outbound, task, position, owner, window, approved, saved>>
        /\ UNCHANGED <<key, changes, cache, delivered, outcome, interruptions>>
        /\ committed' = Resolved(r)
    BY <1>7 DEF CommitOffsets
  <2>2. Resolved(r) \in 0 .. Len(outbound)
    <3>1. ~At(r, "idle") => task[r].offset \in 0 .. Len(outbound)
      BY <1>0, TaskTyped
    <3> QED
      BY <1>0, <3>1 DEF Resolved
  <2> QED
    BY <1>0, <2>1, <2>2, SameTasks, RestTyped
<1>8. ASSUME NEW r \in Replica,
             \/ CheckWindow(r) \/ UseTemplate(r) \/ Throws(r) \/ Fails(r)
             \/ Drop(r) \/ Send(r) \/ SkipSend(r)
      PROVE  TypeInv'
  <2>1. /\ UNCHANGED <<adapter, outbound, committed, position, owner>>
        /\ UNCHANGED <<window, approved, saved, key, changes>>
    BY <1>8 DEF CheckWindow, UseTemplate, Throws, Fails, Drop, Send, SkipSend
  <2>2. /\ task' \in [Replica -> Task]
        /\ \A q \in Replica : At(q, "idle")' \/ task'[q].offset < Len(outbound')
        /\ \A q \in Replica : Readable(q)'
    BY <1>8, <2>1, WorkEffect
  <2>3. task[r].offset \in Nat
    BY <1>0, TaskTyped
  <2>4. cache' \in [Replica -> CredsType]
    <3>1. cache' = cache \/ KeepCreds(r)
      BY <1>8 DEF CheckWindow, UseTemplate, Throws, Fails, Drop, Send, SkipSend
    <3> QED
      BY <1>0, <3>1, CredsTyped
  <2>5. delivered' \in Seq(Nat)
    <3>1. delivered' = delivered \/ delivered' = Append(delivered, task[r].offset)
      BY <1>8 DEF CheckWindow, UseTemplate, Throws, Fails, Drop, Send, SkipSend, Delivered
    <3> QED
      BY <1>0, <2>3, <3>1, OffsetsAppend
  <2>6. outcome' \subseteq Nat \X {"sent", "skipped", "dropped", "malformed"}
    <3>1. \/ outcome' = outcome
          \/ \E how \in {"sent", "skipped", "dropped"} :
               outcome' = outcome \cup {<<task[r].offset, how>>}
      BY <1>8 DEF CheckWindow, UseTemplate, Throws, Fails, Drop, Send, SkipSend, Finish
    <3> QED
      BY <1>0, <2>3, <3>1
  <2>7. interruptions' \in 0 .. MaxInterruptions
    BY <1>0, <1>8, <1>i DEF CheckWindow, UseTemplate, Throws, Fails, Drop, Send, SkipSend
  <2> QED
    BY <1>0, <2>1, <2>2, <2>4, <2>5, <2>6, <2>7, RestTyped
<1>9. ASSUME NEW r \in Replica, Crash(r) PROVE TypeInv'
  <2>1. /\ UNCHANGED <<adapter, outbound, committed, position, outcome>>
        /\ UNCHANGED <<window, approved, saved, key, changes>>
        /\ owner' \in {owner, Nobody}
        /\ delivered' = delivered \/ delivered' = Append(delivered, task[r].offset)
        /\ task' = [task EXCEPT ![r] = Idle]
        /\ cache' = [cache EXCEPT ![r] = NoCreds]
        /\ interruptions' \in 0 .. MaxInterruptions
    BY <1>9, <1>i DEF Crash, Delivered
  <2>2. /\ task' \in [Replica -> Task]
        /\ \A q \in Replica : At(q, "idle")' \/ task'[q].offset < Len(outbound')
        /\ \A q \in Replica : Readable(q)'
    BY <2>1, PutTyped DEF Idle, Task
  <2>3. delivered' \in Seq(Nat)
    BY <1>0, <2>1, TaskTyped, OffsetsAppend
  <2>4. cache' \in [Replica -> CredsType]
    BY <1>0, <2>1 DEF NoCreds, CredsType
  <2>5. owner' \in Replica \cup {Nobody}
    BY <1>0, <2>1
  <2> QED
    BY <1>0, <2>1, <2>2, <2>3, <2>4, <2>5, RestTyped
<1> QED
  BY <1>1, <1>2, <1>3, <1>4, <1>5, <1>6, <1>7, <1>8, <1>9 DEF Next, Work

LEMMA InitTyped == Init => TypeInv
<1> SUFFICES ASSUME Init PROVE TypeInv
  OBVIOUS
<1>1. saved \in CredsType /\ NoCreds \in CredsType
  BY SenderAssumption DEF Init, CredsType, NoCreds
<1>2. \A r \in Replica : At(r, "idle") /\ Readable(r)
  BY DEF Init, At, Idle, Readable
<1> QED
  BY <1>1, <1>2, SenderAssumption DEF Init, TypeInv, TypeOK, Task, Idle, Nobody

\* The types hold in every reachable state.
THEOREM TypeCorrect == Spec => []TypeOK
<1>1. TypeInv => TypeOK
  BY DEF TypeInv
<1> QED
  BY <1>1, InitTyped, NextTyped, PTL DEF Spec

-----------------------------------------------------------------------------
(* In order, and none left out *)

Ends == {o[1] : o \in outcome}
Earlier(n) == 0 .. n - 1

\* Commits and tasks have ended messages behind them only; an owner resumes no
\* earlier than the commit, and while it works, its position is just behind its
\* message.
Resumes(r) ==
    owner = r => /\ committed <= Resolved(r) /\ Earlier(Resolved(r)) \subseteq Ends
                 /\ ~At(r, "idle") => position = task[r].offset + 1
OrderInv ==
    /\ Earlier(committed) \subseteq Ends
    /\ \A r \in Replica : /\ ~At(r, "idle") => Earlier(task[r].offset) \subseteq Ends
                          /\ Resumes(r)

LEMMA EndsGrow ==
  ASSUME NEW k, NEW how, outcome' = outcome \cup {<<k, how>>}
  PROVE  Ends' = Ends \cup {k}
<1>1. <<k, how>>[1] = k
  OBVIOUS
<1>2. \A e : e \in Ends' <=> \E o \in outcome' : o[1] = e
  BY DEF Ends
<1>3. \A e : e \in Ends <=> \E o \in outcome : o[1] = e
  BY DEF Ends
<1>4. \A e : e \in Ends' <=> e \in Ends \/ e = k
  BY <1>1, <1>2, <1>3
<1> QED
  BY <1>4

\* What a replica says of itself while it, the group and the log's ends stay.
LEMMA SameResumes ==
  ASSUME OrderInv, NEW q \in Replica, task'[q] = task[q], Ends \subseteq Ends',
         owner' = q => owner = q /\ UNCHANGED <<committed, position>>
  PROVE  /\ ~At(q, "idle")' => Earlier(task'[q].offset) \subseteq Ends'
         /\ Resumes(q)'
<1>1. At(q, "idle")' = At(q, "idle")
  BY DEF At
<1>2. owner' = q => Resolved(q)' = Resolved(q)
  BY <1>1 DEF Resolved
<1> QED
  BY <1>1, <1>2 DEF OrderInv, Resumes

LEMMA OrderNext == OrderInv /\ TypeInv /\ [Next]_vars => OrderInv'
<1> SUFFICES ASSUME OrderInv, TypeInv, [Next]_vars PROVE OrderInv'
  OBVIOUS
<1> USE DEF group, world, done
<1>1. ASSUME UNCHANGED <<committed, owner, position, task, outcome>> PROVE OrderInv'
  <2>1. Ends' = Ends
    BY <1>1 DEF Ends
  <2> QED
    BY <1>1, <2>1, SameResumes DEF OrderInv
<1>2. CASE UNCHANGED vars \/ World
  BY <1>1, <1>2
  DEF vars, World, Publish, Rotate, Write, Expire, SetStatus, Save, WebhookCaches
<1>3. ASSUME NEW r \in Replica, Assign(r) PROVE OrderInv'
  <2>1. /\ At(r, "idle") /\ owner' = r /\ position' = committed
        /\ UNCHANGED <<committed, task, outcome>>
    BY <1>3 DEF Assign
  <2>2. Ends' = Ends
    BY <2>1 DEF Ends
  <2>3. At(r, "idle")' /\ Resolved(r)' = committed
    BY <2>1 DEF At, Resolved
  <2>4. committed \in Nat
    BY DEF TypeInv, TypeOK
  <2>5. Resumes(r)'
    BY <2>1, <2>2, <2>3, <2>4 DEF OrderInv, Resumes
  <2>6. \A q \in Replica : q # r => Resumes(q)'
    BY <2>1 DEF Resumes
  <2>7. \A q \in Replica : ~At(q, "idle")' => Earlier(task'[q].offset) \subseteq Ends'
    BY <2>1, <2>2 DEF OrderInv, At
  <2> QED
    BY <2>1, <2>2, <2>5, <2>6, <2>7 DEF OrderInv
<1>4. ASSUME NEW r \in Replica, Take(r) PROVE OrderInv'
  <2>1. /\ owner = r /\ At(r, "idle") /\ UNCHANGED <<committed, owner, outcome>>
        /\ position' = position + 1 /\ position \in Nat /\ position < Len(outbound)
        /\ outbound[position + 1].kind # "malformed"
        /\ task' = [task EXCEPT ![r] = Begin(position)]
    BY <1>4 DEF Take, Available, TypeInv, TypeOK
  <2>2. task'[r] = Begin(position) /\ \A q \in Replica : q # r => task'[q] = task[q]
    BY <2>1 DEF TypeInv, TypeOK
  <2>3. Begin(position).offset = position /\ Begin(position).stage \in {"check", "send"}
    BY <2>1, BeginTyped DEF TypeInv
  <2>4. Ends' = Ends
    BY <2>1 DEF Ends
  <2>5. Resolved(r) = position /\ ~At(r, "idle")' /\ Resolved(r)' = position
        /\ task'[r].offset = position
    BY <2>1, <2>2, <2>3 DEF Resolved, At
  <2>6. /\ committed <= position /\ Earlier(position) \subseteq Ends
    BY <2>1, <2>5 DEF OrderInv, Resumes
  <2>7. Resumes(r)' /\ Earlier(task'[r].offset) \subseteq Ends'
    BY <2>1, <2>4, <2>5, <2>6 DEF Resumes
  <2>8. \A q \in Replica : q # r =>
          /\ ~At(q, "idle")' => Earlier(task'[q].offset) \subseteq Ends'
          /\ Resumes(q)'
    BY <2>1, <2>2, <2>4, SameResumes
  <2> QED
    BY <2>1, <2>4, <2>7, <2>8 DEF OrderInv
<1>5. ASSUME NEW r \in Replica, SkipMalformed(r) PROVE OrderInv'
  <2>1. /\ owner = r /\ At(r, "idle") /\ UNCHANGED <<committed, owner, task>>
        /\ position' = position + 1 /\ position \in Nat /\ committed \in Nat
        /\ outcome' = outcome \cup {<<position, "malformed">>}
    BY <1>5 DEF SkipMalformed, Available, TypeInv, TypeOK
  <2>2. Ends' = Ends \cup {position}
    BY <2>1, EndsGrow
  <2>3. Resolved(r) = position /\ At(r, "idle")' /\ Resolved(r)' = position + 1
    BY <2>1 DEF Resolved, At
  <2>4. committed <= position /\ Earlier(position) \subseteq Ends
    BY <2>1, <2>3 DEF OrderInv, Resumes
  <2>5. Earlier(position + 1) \subseteq Ends' /\ committed <= position + 1
    BY <2>1, <2>2, <2>4 DEF Earlier
  <2>6. Resumes(r)'
    BY <2>1, <2>3, <2>5 DEF Resumes
  <2>7. \A q \in Replica : q # r =>
          /\ ~At(q, "idle")' => Earlier(task'[q].offset) \subseteq Ends'
          /\ Resumes(q)'
    BY <2>1, <2>2, SameResumes
  <2> QED
    BY <2>1, <2>2, <2>3, <2>6, <2>7 DEF OrderInv
<1>6. ASSUME NEW r \in Replica, CommitOffsets(r) PROVE OrderInv'
  <2>1. /\ owner = r /\ UNCHANGED <<owner, position, task, outcome>>
        /\ committed' = Resolved(r)
    BY <1>6 DEF CommitOffsets
  <2>2. Ends' = Ends /\ \A q \in Replica : At(q, "idle")' = At(q, "idle")
    BY <2>1 DEF Ends, At
  <2>3. Resolved(r)' = Resolved(r) /\ Resolved(r) \in Nat
    BY <2>1, <2>2, TaskTyped DEF Resolved, TypeInv, TypeOK
  <2>4. Earlier(committed') \subseteq Ends'
    BY <2>1, <2>2 DEF OrderInv, Resumes
  <2>5. Resumes(r)'
    BY <2>1, <2>2, <2>3 DEF OrderInv, Resumes
  <2>6. \A q \in Replica : q # r => Resumes(q)'
    BY <2>1 DEF Resumes
  <2> QED
    BY <2>1, <2>2, <2>4, <2>5, <2>6 DEF OrderInv
<1>7. ASSUME NEW r \in Replica,
             \/ CheckWindow(r) \/ UseTemplate(r) \/ Throws(r) \/ Fails(r)
             \/ Drop(r) \/ Send(r) \/ SkipSend(r)
      PROVE  OrderInv'
  <2>1. UNCHANGED <<outbound, committed, position, owner>>
    BY <1>7 DEF CheckWindow, UseTemplate, Throws, Fails, Drop, Send, SkipSend
  <2>2. /\ ~At(r, "idle")
        /\ task'[r] = Idle \/ (~At(r, "idle")' /\ task'[r].offset = task[r].offset)
        /\ task'[r] = Idle => owner # r \/ Drop(r) \/ Send(r) \/ SkipSend(r)
        /\ \A q \in Replica : q # r => task'[q] = task[q]
    BY <1>7, <2>1, WorkEffect
  <2>3. /\ outcome' = outcome \/ \E how : outcome' = outcome \cup {<<task[r].offset, how>>}
        /\ Drop(r) \/ Send(r) \/ SkipSend(r) =>
             \E how : outcome' = outcome \cup {<<task[r].offset, how>>}
    BY <1>7 DEF CheckWindow, UseTemplate, Throws, Fails, Drop, Send, SkipSend, Finish
  <2>4. /\ Ends \subseteq Ends'
        /\ Drop(r) \/ Send(r) \/ SkipSend(r) => task[r].offset \in Ends'
    BY <2>3 DEF Ends
  <2>5. /\ task[r].offset \in Nat /\ Earlier(task[r].offset) \subseteq Ends
        /\ Resolved(r) = task[r].offset /\ committed \in Nat
    BY <2>2, TaskTyped DEF OrderInv, Resolved, TypeInv, TypeOK
  <2>6. CASE task'[r] = Idle
    <3>1. At(r, "idle")' /\ Resolved(r)' = position
      BY <2>1, <2>6 DEF At, Idle, Resolved
    <3>2. ASSUME owner = r
          PROVE  /\ committed <= position /\ Earlier(position) \subseteq Ends'
      <4>1. /\ position = task[r].offset + 1 /\ committed <= task[r].offset
            /\ task[r].offset \in Ends'
        BY <2>2, <2>4, <2>5, <2>6, <3>2 DEF OrderInv, Resumes
      <4> QED
        BY <2>4, <2>5, <4>1 DEF Earlier
    <3>3. Resumes(r)'
      BY <2>1, <3>1, <3>2 DEF Resumes
    <3> QED
      BY <2>1, <2>2, <2>4, <3>1, <3>3, SameResumes DEF OrderInv
  <2>7. CASE ~At(r, "idle")' /\ task'[r].offset = task[r].offset
    <3>1. Resolved(r)' = Resolved(r) /\ Earlier(task'[r].offset) \subseteq Ends'
      BY <2>4, <2>5, <2>7 DEF Resolved
    <3>2. Resumes(r)'
      BY <2>1, <2>2, <2>4, <2>7, <3>1 DEF OrderInv, Resumes
    <3> QED
      BY <2>1, <2>2, <2>4, <3>1, <3>2, SameResumes DEF OrderInv
  <2> QED
    BY <2>2, <2>6, <2>7
<1>8. ASSUME NEW r \in Replica, Crash(r) PROVE OrderInv'
  <2>1. /\ UNCHANGED <<committed, position, outcome>> /\ owner' # r
        /\ \A q \in Replica : owner' = q => owner = q
        /\ task' = [task EXCEPT ![r] = Idle]
    BY <1>8, SenderAssumption DEF Crash, Nobody
  <2>2. task'[r] = Idle /\ \A q \in Replica : q # r => task'[q] = task[q]
    BY <2>1 DEF TypeInv, TypeOK
  <2>3. Ends' = Ends
    BY <2>1 DEF Ends
  <2>4. At(r, "idle")' /\ Resumes(r)'
    BY <2>1, <2>2 DEF At, Idle, Resumes
  <2> QED
    BY <2>1, <2>2, <2>3, <2>4, SameResumes DEF OrderInv
<1> QED
  BY <1>2, <1>3, <1>4, <1>5, <1>6, <1>7, <1>8 DEF Next, Work

LEMMA InitOrder == Init => OrderInv
  BY SenderAssumption
  DEF Init, OrderInv, Resumes, Earlier, Ends, At, Idle, Nobody, Resolved

-----------------------------------------------------------------------------
(* First copies in the order of the log *)

\* The message at offset k does not fit the schema; it ended without being sent.
Odd(k) == outbound[k + 1].kind = "malformed"
Left(k) == {<<k, "dropped">>, <<k, "skipped">>} \cap outcome # {}

\* Ends mean what they say, and of the messages before a delivered one each was
\* delivered before it, or left, or could not be read.
EndsInv ==
    \A o \in outcome :
      /\ o[1] < Len(outbound)
      /\ o[2] = "sent" => \E i \in DOMAIN delivered : delivered[i] = o[1]
      /\ o[2] = "malformed" => Odd(o[1])
Accounted(i) ==
    \A k \in Earlier(delivered[i]) :
      (\E j \in 1 .. i - 1 : delivered[j] = k) \/ Left(k) \/ Odd(k)
HistoryInv ==
    /\ EndsInv
    /\ \A i \in DOMAIN delivered :
         delivered[i] < Len(outbound) /\ ~Odd(delivered[i]) /\ Accounted(i)

\* A message that is left, or could not be read.
LEMMA EndStep ==
  ASSUME HistoryInv, NEW k, NEW how \in {"dropped", "skipped", "malformed"},
         UNCHANGED <<outbound, delivered>>, outcome' = outcome \cup {<<k, how>>},
         k < Len(outbound), how = "malformed" => Odd(k)
  PROVE  HistoryInv'
<1>1. <<k, how>>[1] = k /\ <<k, how>>[2] = how
  OBVIOUS
<1>2. \A n : Odd(n)' = Odd(n)
  BY DEF Odd
<1>3. EndsInv'
  <2> SUFFICES ASSUME NEW o \in outcome'
               PROVE  /\ o[1] < Len(outbound)
                      /\ o[2] = "sent" => \E i \in DOMAIN delivered : delivered[i] = o[1]
                      /\ o[2] = "malformed" => Odd(o[1])
    BY <1>2 DEF EndsInv
  <2>1. CASE o \in outcome
    BY <2>1 DEF HistoryInv, EndsInv
  <2>2. CASE o = <<k, how>>
    BY <1>1, <2>2
  <2> QED
    BY <2>1, <2>2
<1>4. \A n : Left(n) => Left(n)'
  BY DEF Left
<1>5. \A i \in DOMAIN delivered : Accounted(i) => Accounted(i)'
  BY <1>2, <1>4 DEF Accounted
<1> QED
  BY <1>2, <1>3, <1>5 DEF HistoryInv

\* A provider takes the message of a replica's task.
LEMMA DeliverStep ==
  ASSUME HistoryInv, OrderInv, TypeInv, NEW r \in Replica, ~At(r, "idle"),
         UNCHANGED outbound, delivered' = Append(delivered, task[r].offset),
         outcome' \in {outcome, outcome \cup {<<task[r].offset, "sent">>}}
  PROVE  HistoryInv'
<1>0. /\ task[r].offset \in Nat /\ delivered \in Seq(Nat)
      /\ Len(delivered) + 1 \in Nat
  BY TaskTyped DEF TypeInv, TypeOK
<1> PICK k \in Nat : k = task[r].offset
  BY <1>0
<1> PICK n \in Nat : n = Len(delivered) + 1
  BY <1>0
<1>1. k < Len(outbound) /\ Earlier(k) \subseteq Ends /\ ~Odd(k)
  BY TaskTyped DEF TypeInv, Readable, Current, OrderInv, Odd
<1>2. delivered' = Append(delivered, k)
  OBVIOUS
<1>3. /\ DOMAIN delivered' = 1 .. n /\ delivered'[n] = k
      /\ DOMAIN delivered = 1 .. n - 1
      /\ \A i \in 1 .. n - 1 : delivered'[i] = delivered[i] /\ delivered[i] \in Nat
  BY <1>0, <1>2
<1>4. \A m : (Odd(m)' = Odd(m)) /\ (Left(m) => Left(m)')
  BY DEF Odd, Left
<1>5. EndsInv'
  <2> SUFFICES ASSUME NEW o \in outcome'
               PROVE  /\ o[1] < Len(outbound)
                      /\ o[2] = "sent" => \E i \in DOMAIN delivered' : delivered'[i] = o[1]
                      /\ o[2] = "malformed" => Odd(o[1])
    BY <1>4 DEF EndsInv
  <2>1. CASE o \in outcome
    <3>1. /\ o[1] < Len(outbound) /\ o[2] = "malformed" => Odd(o[1])
          /\ o[2] = "sent" => \E i \in 1 .. n - 1 : delivered[i] = o[1]
      BY <1>3, <2>1 DEF HistoryInv, EndsInv
    <3>2. 1 .. n - 1 \subseteq 1 .. n
      BY <1>3
    <3> QED
      BY <1>3, <2>1, <3>1, <3>2 DEF HistoryInv, EndsInv
  <2>2. CASE o = <<k, "sent">>
    <3>1. o[1] = k /\ o[2] = "sent"
      BY <2>2
    <3>2. n \in 1 .. n
      BY <1>3
    <3> QED
      BY <1>1, <1>3, <3>1, <3>2
  <2> QED
    BY <2>1, <2>2
<1>6. ASSUME NEW i \in 1 .. n - 1
      PROVE  delivered'[i] < Len(outbound) /\ ~Odd(delivered'[i]) /\ Accounted(i)'
  <2>1. delivered[i] < Len(outbound) /\ ~Odd(delivered[i]) /\ Accounted(i)
    BY <1>3, <1>6 DEF HistoryInv
  <2>2. \A j \in 1 .. i - 1 : delivered'[j] = delivered[j]
    BY <1>3, <1>6
  <2>3. delivered'[i] = delivered[i]
    BY <1>3, <1>6
  <2>4. Accounted(i)'
    BY <1>4, <2>1, <2>2, <2>3 DEF Accounted
  <2> QED
    BY <2>1, <2>3, <2>4
<1>7. Accounted(n)'
  <2>1. ASSUME NEW m \in Earlier(k)
        PROVE  (\E j \in 1 .. n - 1 : delivered'[j] = m) \/ Left(m)' \/ Odd(m)'
    <3>1. PICK o \in outcome : o[1] = m
      BY <1>1, <2>1 DEF Ends
    <3>2. o[2] \in {"sent", "skipped", "dropped", "malformed"} /\ o = <<m, o[2]>>
      BY <3>1 DEF TypeInv, TypeOK
    <3>3. CASE o[2] = "sent"
      BY <1>3, <3>1, <3>3 DEF HistoryInv, EndsInv
    <3>4. CASE o[2] = "malformed"
      BY <1>4, <3>1, <3>4 DEF HistoryInv, EndsInv
    <3>5. CASE o[2] \in {"dropped", "skipped"}
      <4>1. Left(m)
        BY <3>2, <3>5 DEF Left
      <4> QED
        BY <1>4, <4>1
    <3> QED
      BY <3>2, <3>3, <3>4, <3>5
  <2>2. Earlier(delivered'[n]) = Earlier(k)
    BY <1>3
  <2> QED
    BY <2>1, <2>2 DEF Accounted, Earlier
<1>8. \A i \in 1 .. n : i \in 1 .. n - 1 \/ i = n
  BY <1>3
<1>9. \A i \in DOMAIN delivered' :
        delivered'[i] < Len(outbound) /\ ~Odd(delivered'[i]) /\ Accounted(i)'
  <2> SUFFICES ASSUME NEW i \in 1 .. n
               PROVE  delivered'[i] < Len(outbound) /\ ~Odd(delivered'[i]) /\ Accounted(i)'
    BY <1>3
  <2>1. CASE i = n
    BY <1>1, <1>3, <1>7, <2>1
  <2> QED
    BY <1>6, <1>8, <2>1
<1>10. \A i \in DOMAIN delivered' : Odd(delivered[i])' = Odd(delivered'[i])
  BY DEF Odd
<1> QED
  BY <1>5, <1>9, <1>10 DEF HistoryInv

LEMMA HistoryNext == HistoryInv /\ OrderInv /\ TypeInv /\ [Next]_vars => HistoryInv'
<1> SUFFICES ASSUME HistoryInv, OrderInv, TypeInv, [Next]_vars PROVE HistoryInv'
  OBVIOUS
<1> USE DEF group, world, done
<1>1. ASSUME UNCHANGED <<outbound, delivered, outcome>> PROVE HistoryInv'
  BY <1>1 DEF HistoryInv, EndsInv, Accounted, Left, Odd
<1>2. CASE Publish
  <2>1. PICK m \in Message : outbound' = Append(outbound, m)
    BY <1>2 DEF Publish
  <2>2. /\ Len(outbound') = Len(outbound) + 1 /\ Len(outbound) \in Nat
        /\ \A i \in 1 .. Len(outbound) : outbound'[i] = outbound[i]
        /\ UNCHANGED <<delivered, outcome>>
        /\ delivered \in Seq(Nat)
        /\ outcome \subseteq Nat \X {"sent", "skipped", "dropped", "malformed"}
    BY <1>2, <2>1 DEF Publish, TypeInv, TypeOK
  <2>3. \A k \in Nat : k < Len(outbound) => (Odd(k)' = Odd(k)) /\ k < Len(outbound')
    BY <2>2 DEF Odd
  <2>4. \A o \in outcome : o[1] \in Nat
    BY <2>2
  <2>5. EndsInv'
    BY <2>2, <2>3, <2>4 DEF HistoryInv, EndsInv
  <2>6. ASSUME NEW i \in DOMAIN delivered
        PROVE  delivered[i] < Len(outbound') /\ ~Odd(delivered[i])' /\ Accounted(i)'
    <3>1. delivered[i] \in Nat /\ delivered[i] < Len(outbound) /\ ~Odd(delivered[i])
      BY <2>2 DEF HistoryInv
    <3>2. \A k \in Earlier(delivered[i]) : Odd(k)' = Odd(k) /\ Left(k)' = Left(k)
      BY <2>2, <2>3, <3>1 DEF Earlier, Left
    <3>3. Accounted(i)
      BY DEF HistoryInv
    <3>4. Accounted(i)'
      BY <2>2, <3>2, <3>3 DEF Accounted
    <3>5. Odd(delivered[i])' = Odd(delivered[i])
      BY <2>2, <2>3, <3>1 DEF Odd
    <3> QED
      BY <2>2, <2>3, <3>1, <3>4, <3>5
  <2> QED
    BY <2>2, <2>5, <2>6 DEF HistoryInv, Odd
<1>3. ASSUME UNCHANGED vars \/ (World /\ ~Publish) PROVE HistoryInv'
  BY <1>1, <1>3 DEF vars, World, Rotate, Write, Expire, SetStatus, Save, WebhookCaches
<1>4. ASSUME NEW r \in Replica,
             \/ Assign(r) \/ Take(r) \/ CommitOffsets(r) \/ CheckWindow(r)
             \/ UseTemplate(r) \/ Throws(r)
      PROVE  HistoryInv'
  BY <1>1, <1>4 DEF Assign, Take, CommitOffsets, CheckWindow, UseTemplate, Throws
<1>5. ASSUME NEW r \in Replica, SkipMalformed(r) PROVE HistoryInv'
  <2>1. /\ UNCHANGED <<outbound, delivered>> /\ position < Len(outbound) /\ Odd(position)
        /\ outcome' = outcome \cup {<<position, "malformed">>}
    BY <1>5 DEF SkipMalformed, Available, Odd
  <2> QED
    BY <2>1, EndStep
<1>6. ASSUME NEW r \in Replica, Drop(r) \/ SkipSend(r) PROVE HistoryInv'
  <2>1. /\ ~At(r, "idle") /\ UNCHANGED <<outbound, delivered>>
        /\ \E how \in {"dropped", "skipped"} :
             outcome' = outcome \cup {<<task[r].offset, how>>}
    BY <1>6 DEF Drop, SkipSend, Finish, At
  <2>2. task[r].offset < Len(outbound)
    BY <2>1, TaskTyped DEF TypeInv
  <2> QED
    BY <2>1, <2>2, EndStep
<1>7. ASSUME NEW r \in Replica, Send(r) \/ Fails(r) \/ Crash(r) PROVE HistoryInv'
  <2>1. /\ UNCHANGED outbound
        /\ outcome' \in {outcome, outcome \cup {<<task[r].offset, "sent">>}}
        /\ \/ UNCHANGED <<delivered, outcome>>
           \/ ~At(r, "idle") /\ delivered' = Append(delivered, task[r].offset)
    BY <1>7 DEF Send, Fails, Crash, Finish, Goes, At, Delivered
  <2> QED
    BY <1>1, <2>1, DeliverStep
<1> QED
  BY <1>2, <1>3, <1>4, <1>5, <1>6, <1>7 DEF Next, Work

\* A customer reads the tenant's messages in the order of the log: the first
\* copy of a message comes after later ones only if a replica ended it unsent
\* (sender.ts, outbound() of the adapters, consume() of kafka-client).
THEOREM FirstCopiesOrdered == Spec => []FirstCopiesInOrder
<1>1. Init => HistoryInv
  BY DEF Init, HistoryInv, EndsInv
<1>2. TypeInv /\ HistoryInv => FirstCopiesInOrder
  <2> SUFFICES ASSUME TypeInv, HistoryInv, NEW i \in DOMAIN delivered,
                      NEW j \in DOMAIN delivered, IsFirst(j), i < j,
                      delivered[i] > delivered[j]
               PROVE  Left(delivered[j])
    BY DEF FirstCopiesInOrder, Left
  <2>1. /\ delivered[i] \in Nat /\ delivered[j] \in Nat /\ i \in Nat /\ j \in Nat
        /\ DOMAIN delivered = 1 .. Len(delivered) /\ Len(delivered) \in Nat
    BY DEF TypeInv, TypeOK
  <2>2. delivered[j] \in Earlier(delivered[i])
    BY <2>1 DEF Earlier
  <2>3. ~Odd(delivered[j]) /\ Accounted(i)
    BY DEF HistoryInv
  <2>4. ASSUME NEW m \in 1 .. i - 1, delivered[m] = delivered[j] PROVE FALSE
    <3>1. m \in DOMAIN delivered /\ m < j /\ m \in Nat
      BY <2>1
    <3>2. j <= m
      BY <2>4, <3>1 DEF IsFirst, Copies
    <3> QED
      BY <2>1, <3>1, <3>2
  <2> QED
    BY <2>2, <2>3, <2>4 DEF Accounted
<1> QED
  BY <1>1, <1>2, InitTyped, InitOrder, NextTyped, OrderNext, HistoryNext, PTL DEF Spec

-----------------------------------------------------------------------------
(* Counting: the places of an entry in a log that only grows, and a finite *)
(* set that gains or loses a member.                                       *)

Places(log, e) == {i \in DOMAIN log : log[i] = e}

\* A part of a finite set is finite, and no larger.
LEMMA PartCounts ==
  ASSUME NEW B, IsFiniteSet(B), NEW A, A \subseteq B
  PROVE  /\ IsFiniteSet(A) /\ Cardinality(A) \in Nat /\ Cardinality(B) \in Nat
         /\ Cardinality(A) <= Cardinality(B)
  BY FS_Subset, FS_CardinalityType

\* A set that gains one member, or loses one.
LEMMA GainCounts ==
  ASSUME NEW A, IsFiniteSet(A), NEW x, x \notin A, NEW B, B = A \cup {x}
  PROVE  IsFiniteSet(B) /\ Cardinality(B) = Cardinality(A) + 1
  BY FS_AddElement

LEMMA LossCounts ==
  ASSUME NEW A, IsFiniteSet(A), NEW x \in A, NEW B, B = A \ {x}
  PROVE  /\ IsFiniteSet(B) /\ Cardinality(B) = Cardinality(A) - 1
         /\ Cardinality(B) \in Nat
  BY FS_RemoveElement, FS_CardinalityType

\* An entry has finitely many places in a log.
LEMMA PlacesCount ==
  ASSUME NEW S, NEW log \in Seq(S), NEW e
  PROVE  IsFiniteSet(Places(log, e)) /\ Cardinality(Places(log, e)) \in Nat
<1>1. Len(log) \in Nat /\ DOMAIN log = 1 .. Len(log)
  OBVIOUS
<1>2. IsFiniteSet(1 .. Len(log))
  BY <1>1, FS_Interval
<1>3. Places(log, e) \subseteq 1 .. Len(log)
  BY <1>1 DEF Places
<1> QED
  BY <1>2, <1>3, PartCounts

\* Appending an entry gives that entry one place more, and no other entry any.
LEMMA PlacesAppend ==
  ASSUME NEW S, NEW log \in Seq(S), NEW a \in S, NEW e
  PROVE  Cardinality(Places(Append(log, a), e)) =
           Cardinality(Places(log, e)) + (IF e = a THEN 1 ELSE 0)
<1> DEFINE n == Len(log) + 1  longer == Append(log, a)
<1>1. /\ DOMAIN longer = DOMAIN log \cup {n} /\ n \notin DOMAIN log
      /\ longer[n] = a /\ \A i \in DOMAIN log : longer[i] = log[i]
  OBVIOUS
<1>2. IsFiniteSet(Places(log, e)) /\ Cardinality(Places(log, e)) \in Nat
  BY PlacesCount
<1> HIDE DEF n, longer
<1>3. CASE e = a
  <2>1. Places(longer, e) = Places(log, e) \cup {n}
    BY <1>1, <1>3 DEF Places
  <2>2. n \notin Places(log, e)
    BY <1>1 DEF Places
  <2>3. Cardinality(Places(longer, e)) = Cardinality(Places(log, e)) + 1
    BY <1>2, <2>1, <2>2, GainCounts
  <2> QED
    BY <1>3, <2>3 DEF longer
<1>4. CASE e # a
  <2>1. Places(longer, e) = Places(log, e)
    BY <1>1, <1>4 DEF Places
  <2> QED
    BY <1>2, <1>4, <2>1 DEF longer
<1> QED
  BY <1>3, <1>4

-----------------------------------------------------------------------------
(* Copies *)

\* The replicas at work on the message at offset k; whether the partition is
\* where k can be taken (again) without another interruption.
Trying(k) == {r \in Replica : ~At(r, "idle") /\ task[r].offset = k}
Open(k) == IF owner = Nobody \/ position <= k THEN 1 ELSE 0

\* Every copy, every attempt under way and the one to come has been paid for:
\* the first by the message itself, each other one by an interruption.
Attempts(k) == Cardinality(Copies(k)) + Cardinality(Trying(k)) + Open(k)
AttemptInv == \A k \in Nat : IsFiniteSet(Trying(k)) /\ Attempts(k) <= 1 + interruptions

LEMMA CopiesPlaces == \A k : Copies(k) = Places(delivered, k)
  BY DEF Copies, Places

LEMMA CountsTyped ==
  ASSUME TypeInv, AttemptInv, NEW k \in Nat
  PROVE  /\ Cardinality(Copies(k)) \in Nat /\ Cardinality(Trying(k)) \in Nat
         /\ Open(k) \in {0, 1} /\ IsFiniteSet(Trying(k)) /\ interruptions \in Nat
         /\ Cardinality(Copies(k)) + Cardinality(Trying(k)) + Open(k) <= 1 + interruptions
<1>1. delivered \in Seq(Nat) /\ interruptions \in Nat
  BY SenderAssumption DEF TypeInv, TypeOK
<1>2. Cardinality(Copies(k)) \in Nat
  BY <1>1, CopiesPlaces, PlacesCount
<1>3. IsFiniteSet(Trying(k))
  BY DEF AttemptInv
<1>4. Cardinality(Trying(k)) \in Nat
  BY <1>3, PartCounts
<1> QED
  BY <1>1, <1>2, <1>3, <1>4 DEF AttemptInv, Attempts, Open

\* A step that delivers nothing and starts nothing, and pays for what it opens.
LEMMA QuietStep ==
  ASSUME TypeInv, AttemptInv, delivered' = delivered,
         \A k \in Nat : Trying(k)' \subseteq Trying(k),
         \/ /\ interruptions' = interruptions
            /\ \A k \in Nat : Open(k)' = 1 => Open(k) = 1
         \/ interruptions' = interruptions + 1
  PROVE  AttemptInv'
<1> SUFFICES ASSUME NEW k \in Nat
             PROVE  IsFiniteSet(Trying(k)') /\ Attempts(k)' <= 1 + interruptions'
  BY DEF AttemptInv
<1> DEFINE A == Trying(k)  B == Trying(k)'  c == Cardinality(Copies(k))
<1>1. /\ c \in Nat /\ Open(k) \in {0, 1} /\ IsFiniteSet(A) /\ interruptions \in Nat
      /\ Cardinality(A) \in Nat
      /\ c + Cardinality(A) + Open(k) <= 1 + interruptions
  BY CountsTyped
<1>2. Cardinality(Copies(k)') = c /\ Open(k)' \in {0, 1}
  BY DEF Copies, Open
<1>3. B \subseteq A
  OBVIOUS
<1>4. Attempts(k)' = Cardinality(Copies(k)') + Cardinality(B) + Open(k)'
  BY DEF Attempts
<1> HIDE DEF A, B, c
<1>5. IsFiniteSet(B) /\ Cardinality(B) \in Nat /\ Cardinality(B) <= Cardinality(A)
  BY <1>1, <1>3, PartCounts
<1>6. Attempts(k)' <= 1 + interruptions'
  BY <1>1, <1>2, <1>4, <1>5
<1> QED
  BY <1>5, <1>6 DEF B

\* One copy more: of a task that is over, or of one that begins again for an
\* interruption.
LEMMA CopyStep ==
  ASSUME TypeInv, AttemptInv, NEW r \in Replica, ~At(r, "idle"),
         delivered' = Append(delivered, task[r].offset),
         \/ /\ interruptions' = interruptions
            /\ \A k \in Nat : Open(k)' = 1 => Open(k) = 1
            /\ \A k \in Nat : Trying(k)' = Trying(k) \ {r}
         \/ /\ interruptions' = interruptions + 1
            /\ \A k \in Nat : Trying(k)' = Trying(k) \ {r}
         \/ /\ interruptions' = interruptions + 1
            /\ \A k \in Nat : Open(k)' = Open(k) /\ Trying(k)' = Trying(k)
  PROVE  AttemptInv'
<1> SUFFICES ASSUME NEW k \in Nat
             PROVE  IsFiniteSet(Trying(k)') /\ Attempts(k)' <= 1 + interruptions'
  BY DEF AttemptInv
<1> DEFINE A == Trying(k)  B == Trying(k)'  c == Cardinality(Copies(k))
           o == task[r].offset  one == IF k = o THEN 1 ELSE 0
<1>1. /\ c \in Nat /\ Open(k) \in {0, 1} /\ IsFiniteSet(A) /\ interruptions \in Nat
      /\ Cardinality(A) \in Nat
      /\ c + Cardinality(A) + Open(k) <= 1 + interruptions
  BY CountsTyped
<1>2. Open(k)' \in {0, 1}
  BY DEF Open
<1>3. k = o => r \in A
  BY DEF Trying
<1>4. Attempts(k)' = Cardinality(Copies(k)') + Cardinality(B) + Open(k)'
  BY DEF Attempts
<1>5. Cardinality(Copies(k)') = c + one
  <2>1. Copies(k)' = Places(delivered', k)
    BY DEF Copies, Places
  <2>2. delivered \in Seq(Nat) /\ o \in Nat
    BY TaskTyped DEF TypeInv, TypeOK
  <2> HIDE DEF o
  <2>3. Cardinality(Places(Append(delivered, o), k)) =
          Cardinality(Places(delivered, k)) + (IF k = o THEN 1 ELSE 0)
    BY <2>2, PlacesAppend
  <2> QED
    BY <2>1, <2>3, CopiesPlaces DEF o
<1>6. one \in {0, 1}
  OBVIOUS
<1>7. \/ interruptions' = interruptions /\ (Open(k)' = 1 => Open(k) = 1) /\ B = A \ {r}
      \/ interruptions' = interruptions + 1 /\ B = A \ {r}
      \/ interruptions' = interruptions + 1 /\ Open(k)' = Open(k) /\ B = A
  OBVIOUS
<1> HIDE DEF A, B, c, o
<1>8. CASE B = A \ {r}
  <2>1. IsFiniteSet(B) /\ Cardinality(B) \in Nat /\ Cardinality(B) + one <= Cardinality(A)
    <3>1. CASE k = o
      BY <1>1, <1>3, <1>8, <3>1, LossCounts
    <3>2. CASE k # o
      BY <1>1, <1>8, <3>2, PartCounts
    <3> QED
      BY <3>1, <3>2
  <2> HIDE DEF one
  <2>2. Attempts(k)' <= 1 + interruptions'
    BY <1>1, <1>2, <1>4, <1>5, <1>6, <1>7, <2>1
  <2> QED
    BY <2>1, <2>2 DEF B
<1>9. CASE B = A /\ interruptions' = interruptions + 1 /\ Open(k)' = Open(k)
  <2> HIDE DEF one
  <2>1. Attempts(k)' <= 1 + interruptions'
    BY <1>1, <1>2, <1>4, <1>5, <1>6, <1>9
  <2> QED
    BY <1>1, <1>9, <2>1 DEF B
<1> QED
  BY <1>7, <1>8, <1>9

\* What a task's change makes of the attempts.
LEMMA TryingOver ==
  ASSUME TypeInv, NEW r \in Replica, task' = [task EXCEPT ![r] = Idle], NEW k
  PROVE  Trying(k)' = Trying(k) \ {r}
<1>1. \A q \in Replica : task'[q] = IF q = r THEN Idle ELSE task[q]
  BY DEF TypeInv, TypeOK
<1>2. \A q \in Replica : (~At(q, "idle"))' = (q # r /\ ~At(q, "idle"))
  BY <1>1 DEF At, Idle
<1> QED
  BY <1>1, <1>2 DEF Trying

LEMMA TryingOn ==
  ASSUME NEW r \in Replica, ~At(r, "idle"), ~At(r, "idle")',
         task'[r].offset = task[r].offset,
         \A q \in Replica : q # r => task'[q] = task[q], NEW k
  PROVE  Trying(k)' = Trying(k)
<1>1. \A q \in Replica : /\ At(q, "idle")' = At(q, "idle")
                         /\ task'[q].offset = task[q].offset
  BY DEF At
<1> QED
  BY <1>1 DEF Trying

LEMMA AttemptNext == TypeInv /\ AttemptInv /\ [Next]_vars => AttemptInv'
<1> SUFFICES ASSUME TypeInv, AttemptInv, [Next]_vars PROVE AttemptInv'
  OBVIOUS
<1> USE DEF group, world, done
<1>1. CASE UNCHANGED vars \/ World
  <2>1. UNCHANGED <<delivered, interruptions, task, owner, position>>
    BY <1>1
    DEF vars, World, Publish, Rotate, Write, Expire, SetStatus, Save, WebhookCaches
  <2>2. \A k : Trying(k)' = Trying(k) /\ Open(k)' = Open(k)
    BY <2>1 DEF Trying, At, Open
  <2> QED
    BY <2>1, <2>2, QuietStep
<1>2. ASSUME NEW r \in Replica, Assign(r) PROVE AttemptInv'
  <2>1. delivered' = delivered /\ \A k : Trying(k)' = Trying(k)
    BY <1>2 DEF Assign, Trying, At
  <2>2. CASE owner = Nobody
    <3>1. interruptions' = interruptions /\ \A k : Open(k) = 1
      BY <1>2, <2>2 DEF Assign, Open
    <3> QED
      BY <2>1, <3>1, QuietStep
  <2>3. CASE owner # Nobody
    <3>1. interruptions' = interruptions + 1
      BY <1>2, <2>3 DEF Assign, Interrupted
    <3> QED
      BY <2>1, <3>1, QuietStep
  <2> QED
    BY <2>2, <2>3
<1>3. ASSUME NEW r \in Replica, Take(r) PROVE AttemptInv'
  <2>1. /\ owner = r /\ owner # Nobody /\ At(r, "idle") /\ position \in Nat
        /\ position < Len(outbound) /\ outbound[position + 1].kind # "malformed"
        /\ position' = position + 1 /\ owner' = owner
        /\ UNCHANGED <<delivered, interruptions>>
    BY <1>3, SenderAssumption DEF Take, Available, Nobody, TypeInv, TypeOK
  <2>2. \A q \in Replica : task'[q] = IF q = r THEN Begin(position) ELSE task[q]
    BY <1>3 DEF Take, TypeInv, TypeOK
  <2>3. Begin(position).offset = position /\ Begin(position).stage # "idle"
    BY <2>1, BeginTyped DEF TypeInv
  <2> SUFFICES ASSUME NEW k \in Nat
               PROVE  IsFiniteSet(Trying(k)') /\ Attempts(k)' <= 1 + interruptions'
    BY DEF AttemptInv
  <2> DEFINE A == Trying(k)  B == Trying(k)'  c == Cardinality(Copies(k))
  <2>4. /\ c \in Nat /\ Open(k) \in {0, 1} /\ IsFiniteSet(A)
        /\ interruptions \in Nat /\ Cardinality(A) \in Nat
        /\ c + Cardinality(A) + Open(k) <= 1 + interruptions
    BY CountsTyped
  <2>5. Cardinality(Copies(k)') = c
    BY <2>1 DEF Copies
  <2>6. Attempts(k)' = Cardinality(Copies(k)') + Cardinality(B) + Open(k)'
    BY DEF Attempts
  <2>7. r \notin A /\ B = IF k = position THEN A \cup {r} ELSE A
    <3>1. \A q \in Replica : q # r => At(q, "idle")' = At(q, "idle")
      BY <2>2 DEF At
    <3>2. ~At(r, "idle")' /\ task'[r].offset = position
      BY <2>2, <2>3 DEF At
    <3> QED
      BY <2>1, <2>2, <3>1, <3>2 DEF Trying
  <2>8. /\ Open(k) = IF position <= k THEN 1 ELSE 0
        /\ Open(k)' = IF position + 1 <= k THEN 1 ELSE 0
    BY <2>1 DEF Open
  <2> HIDE DEF A, B, c
  <2>9. /\ IsFiniteSet(B) /\ Cardinality(B) \in Nat
        /\ Cardinality(B) = Cardinality(A) + (IF k = position THEN 1 ELSE 0)
    <3>1. CASE k = position
      BY <2>4, <2>7, <3>1, GainCounts, PartCounts
    <3>2. CASE k # position
      BY <2>4, <2>7, <3>2
    <3> QED
      BY <3>1, <3>2
  <2>10. Open(k)' + (IF k = position THEN 1 ELSE 0) <= Open(k) /\ Open(k)' \in {0, 1}
    BY <2>1, <2>8
  <2>11. Attempts(k)' <= 1 + interruptions'
    BY <2>1, <2>4, <2>5, <2>6, <2>9, <2>10
  <2> QED
    BY <2>9, <2>11 DEF B
<1>4. ASSUME NEW r \in Replica, SkipMalformed(r) \/ CommitOffsets(r) PROVE AttemptInv'
  <2>1. UNCHANGED <<delivered, interruptions, task, owner>>
    BY <1>4 DEF SkipMalformed, CommitOffsets
  <2>2. position \in Nat /\ position' \in {position, position + 1}
    BY <1>4 DEF SkipMalformed, CommitOffsets, TypeInv, TypeOK
  <2>3. \A k : Trying(k)' = Trying(k)
    BY <2>1 DEF Trying, At
  <2>4. \A k \in Nat : Open(k)' = 1 => Open(k) = 1
    BY <2>1, <2>2 DEF Open
  <2> QED
    BY <2>1, <2>3, <2>4, QuietStep
<1>5. ASSUME NEW r \in Replica,
             \/ CheckWindow(r) \/ UseTemplate(r) \/ Throws(r) \/ Fails(r)
             \/ Drop(r) \/ Send(r) \/ SkipSend(r)
      PROVE  AttemptInv'
  <2>1. UNCHANGED <<outbound, position, owner>>
    BY <1>5 DEF CheckWindow, UseTemplate, Throws, Fails, Drop, Send, SkipSend
  <2>2. /\ ~At(r, "idle") /\ task' \in [Replica -> Task]
        /\ task'[r] = Idle \/ (~At(r, "idle")' /\ task'[r].offset = task[r].offset)
        /\ \A q \in Replica : q # r => task'[q] = task[q]
    BY <1>5, <2>1, WorkEffect
  <2>3. \A k : Open(k)' = Open(k)
    BY <2>1 DEF Open
  <2>4. \/ \A k : Trying(k)' = Trying(k) \ {r}
        \/ \A k : Trying(k)' = Trying(k)
    <3>1. CASE task'[r] = Idle
      <4>1. task' = [task EXCEPT ![r] = Idle]
        BY <2>2, <3>1 DEF TypeInv, TypeOK
      <4> QED
        BY <4>1, TryingOver
    <3>2. CASE ~At(r, "idle")' /\ task'[r].offset = task[r].offset
      BY <2>2, <3>2, TryingOn
    <3> QED
      BY <2>2, <3>1, <3>2
  <2>5. CASE delivered' = delivered
    <3>1. interruptions' \in {interruptions, interruptions + 1}
      BY <1>5 DEF CheckWindow, UseTemplate, Throws, Fails, Drop, Send, SkipSend, Interrupted
    <3> QED
      BY <2>3, <2>4, <2>5, <3>1, QuietStep
  <2>6. ASSUME Send(r) PROVE AttemptInv'
    <3>1. /\ task' = [task EXCEPT ![r] = Idle] /\ interruptions' = interruptions
          /\ delivered' = Append(delivered, task[r].offset)
      BY <2>6 DEF Send, Finish, Delivered
    <3>2. \A k : Trying(k)' = Trying(k) \ {r}
      BY <3>1, TryingOver
    <3> QED
      BY <2>2, <2>3, <3>1, <3>2, CopyStep
  <2>7. ASSUME Fails(r), delivered' # delivered PROVE AttemptInv'
    <3>1. /\ interruptions' = interruptions + 1
          /\ delivered' = Append(delivered, task[r].offset)
      BY <2>7 DEF Fails, Interrupted, Delivered
    <3> QED
      BY <2>2, <2>3, <2>4, <3>1, CopyStep
  <2>8. delivered' = delivered \/ Send(r) \/ Fails(r)
    BY <1>5 DEF CheckWindow, UseTemplate, Throws, Drop, SkipSend
  <2> QED
    BY <2>5, <2>6, <2>7, <2>8
<1>6. ASSUME NEW r \in Replica, Crash(r) PROVE AttemptInv'
  <2>1. /\ interruptions' = interruptions + 1
        /\ task' = [task EXCEPT ![r] = Idle]
        /\ \/ delivered' = delivered
           \/ ~At(r, "idle") /\ delivered' = Append(delivered, task[r].offset)
    BY <1>6 DEF Crash, Interrupted, Goes, At, Delivered
  <2>2. \A k : Trying(k)' = Trying(k) \ {r}
    BY <2>1, TryingOver
  <2>3. CASE delivered' = delivered
    BY <2>1, <2>2, <2>3, QuietStep
  <2>4. CASE ~At(r, "idle") /\ delivered' = Append(delivered, task[r].offset)
    BY <2>1, <2>2, <2>4, CopyStep
  <2> QED
    BY <2>1, <2>3, <2>4
<1> QED
  BY <1>1, <1>2, <1>3, <1>4, <1>5, <1>6 DEF Next, Work

LEMMA InitAttempts == Init => AttemptInv
<1> SUFFICES ASSUME Init, NEW k \in Nat
             PROVE  IsFiniteSet(Trying(k)) /\ Attempts(k) <= 1 + interruptions
  BY DEF AttemptInv
<1>1. Trying(k) = {} /\ Copies(k) = {}
  BY DEF Init, Trying, At, Idle, Copies
<1>2. /\ Cardinality(Copies(k)) = 0 /\ Cardinality(Trying(k)) = 0
      /\ IsFiniteSet(Trying(k))
  BY <1>1, FS_EmptySet
<1>3. Open(k) \in {0, 1} /\ interruptions = 0
  BY DEF Open, Init
<1> QED
  BY <1>2, <1>3 DEF Attempts

\* A message is sent again only for a crash, a rebalance or a lost answer, each
\* of which costs one more copy at most (consume() of kafka-client, sender.ts).
THEOREM CopiesExplained == Spec => []CopiesBounded
<1>1. Init => TypeInv /\ AttemptInv
  BY InitTyped, InitAttempts
<1>2. (TypeInv /\ AttemptInv) /\ [Next]_vars => (TypeInv /\ AttemptInv)'
  BY NextTyped, AttemptNext
<1>3. TypeInv /\ AttemptInv => CopiesBounded
  <2> SUFFICES ASSUME TypeInv, AttemptInv, NEW k \in 0 .. MaxMessages - 1
               PROVE  Cardinality(Copies(k)) <= 1 + interruptions
    BY DEF CopiesBounded
  <2>1. k \in Nat
    BY SenderAssumption
  <2>2. /\ Cardinality(Copies(k)) \in Nat /\ Cardinality(Trying(k)) \in Nat
        /\ Open(k) \in {0, 1} /\ interruptions \in Nat
        /\ Cardinality(Copies(k)) + Cardinality(Trying(k)) + Open(k) <= 1 + interruptions
    BY <2>1, CountsTyped
  <2> QED
    BY <2>2
<1> QED
  BY <1>1, <1>2, <1>3, PTL DEF Spec

\* What customers are sent, for any replicas, messages and interruptions: in the
\* order of the log, and again for a cause only (sender.ts, kafka-client).
THEOREM SenderInvariant == Spec => []SenderInv
  BY TypeCorrect, FirstCopiesOrdered, CopiesExplained, PTL DEF SenderInv

-----------------------------------------------------------------------------
(* The consumer group as one consumer *)

LEMMA InitConsumption == Init => Group!Init
  BY DEF Init, Group!Init

\* What the messages' ends are to the group.
LEMMA StepsConsumption ==
  TypeInv /\ OrderInv /\ [Next]_vars => [Group!Next]_(Group!consumption)
<1> SUFFICES ASSUME TypeInv, OrderInv, [Next]_vars
             PROVE  [Group!Next]_(Group!consumption)
  OBVIOUS
<1> USE DEF group, world, done
<1> DEFINE D == {o[1] : o \in outcome}  A == {delivered[i] : i \in DOMAIN delivered}
<1>0. /\ Len(outbound) \in Nat /\ outbound \in Seq(Message) /\ delivered \in Seq(Nat)
      /\ committed \in Nat /\ position \in Nat /\ position <= Len(outbound)
      /\ D = Ends
  BY DEF TypeInv, TypeOK, Ends
\* Ends and deliveries of the steps.
<1>e. ASSUME NEW k, NEW how, outcome' = outcome \cup {<<k, how>>} PROVE D' = D \cup {k}
  BY <1>e, EndsGrow DEF Ends
<1>s. outcome' = outcome => D' = D
  OBVIOUS
<1>a. ASSUME NEW k \in Nat, delivered' = Append(delivered, k) PROVE A' = A \cup {k}
  <2>1. /\ DOMAIN delivered' = DOMAIN delivered \cup {Len(delivered) + 1}
        /\ delivered'[Len(delivered) + 1] = k
        /\ \A i \in DOMAIN delivered : delivered'[i] = delivered[i]
    BY <1>0, <1>a
  <2> QED
    BY <2>1
<1>u. delivered' = delivered => A' = A
  OBVIOUS
<1> HIDE DEF D, A
<1> DEFINE Stays == /\ Len(outbound)' = Len(outbound) /\ D' = D /\ A' = A
                    /\ committed' = committed
<1>t. Stays => UNCHANGED Group!consumption
  BY DEF Group!consumption, D, A
<1>1. ASSUME UNCHANGED <<outbound, outcome, delivered, committed>>
      PROVE  UNCHANGED Group!consumption
  BY <1>1, <1>s, <1>u, <1>t
<1>2. ASSUME Publish PROVE Group!Next
  <2>1. /\ Len(outbound') = Len(outbound) + 1
        /\ UNCHANGED <<outcome, delivered, committed>>
    BY <1>0, <1>2 DEF Publish
  <2> QED
    BY <2>1, <1>s, <1>u DEF Group!Next, Group!Publish, D, A
<1>3. ASSUME UNCHANGED vars \/ (World /\ ~Publish) PROVE UNCHANGED Group!consumption
  BY <1>1, <1>3 DEF vars, World, Rotate, Write, Expire, SetStatus, Save, WebhookCaches
<1>4. ASSUME NEW r \in Replica,
             Assign(r) \/ Take(r) \/ CheckWindow(r) \/ UseTemplate(r) \/ Throws(r)
      PROVE  UNCHANGED Group!consumption
  BY <1>1, <1>4 DEF Assign, Take, CheckWindow, UseTemplate, Throws
\* A message ends, or is answered, after all earlier ones have ended.
<1>5. ASSUME NEW k \in Nat, k < Len(outbound), Earlier(k) \subseteq Ends,
             UNCHANGED <<outbound, committed, delivered>>,
             \E how : outcome' = outcome \cup {<<k, how>>}
      PROVE  Group!End
  <2>1. k \in Group!Before(Len(outbound)) /\ Earlier(k) \subseteq D \cup {}
    BY <1>0, <1>5 DEF Group!Before
  <2>2. D' = D \cup {k} /\ A' = A
    BY <1>5, <1>e, <1>u
  <2> QED
    BY <1>5, <2>1, <2>2 DEF Group!End, Group!Ready, Group!Before, Earlier, D, A
<1>6. ASSUME NEW k \in Nat, k < Len(outbound), Earlier(k) \subseteq Ends,
             UNCHANGED <<outbound, committed>>, delivered' = Append(delivered, k),
             outcome' \in {outcome, outcome \cup {<<k, "sent">>}}
      PROVE  Group!Answer
  <2>1. k \in Group!Before(Len(outbound)) /\ Earlier(k) \subseteq D \cup {}
        /\ A' = A \cup {k}
    BY <1>0, <1>6, <1>a DEF Group!Before
  <2>2. D' = D \/ D' = D \cup {k}
    BY <1>6, <1>e, <1>s
  <2> QED
    BY <1>6, <2>1, <2>2 DEF Group!Answer, Group!Ready, Group!Before, Earlier, D, A
<1>7. ASSUME NEW r \in Replica, SkipMalformed(r) PROVE Group!Next
  <2>1. /\ owner = r /\ At(r, "idle") /\ position < Len(outbound)
        /\ UNCHANGED <<outbound, committed, delivered>>
        /\ outcome' = outcome \cup {<<position, "malformed">>}
    BY <1>7 DEF SkipMalformed, Available
  <2>2. Earlier(position) \subseteq Ends
    BY <2>1 DEF OrderInv, Resumes, Resolved
  <2>3. Group!End
    BY <1>0, <1>5, <2>1, <2>2
  <2> QED
    BY <2>3 DEF Group!Next
<1>8. ASSUME NEW r \in Replica, CommitOffsets(r) PROVE Group!Next
  <2>1. /\ owner = r /\ committed' = Resolved(r)
        /\ UNCHANGED <<outbound, outcome, delivered>>
    BY <1>8 DEF CommitOffsets
  <2>2. committed <= Resolved(r) /\ Earlier(Resolved(r)) \subseteq Ends
    BY <2>1 DEF OrderInv, Resumes
  <2>3. Resolved(r) \in 0 .. Len(outbound)
    BY <1>0, TaskTyped DEF Resolved, TypeInv
  <2>4. D' = D /\ A' = A /\ Earlier(Resolved(r)) \subseteq D \cup {}
    BY <1>0, <1>s, <1>u, <2>1, <2>2
  <2>5. Group!Checkpoint
    BY <2>1, <2>2, <2>3, <2>4 DEF Group!Checkpoint, Group!Before, Earlier, D, A
  <2> QED
    BY <2>5 DEF Group!Next
<1>9. ASSUME NEW r \in Replica, Drop(r) \/ SkipSend(r) PROVE Group!Next
  <2>1. /\ ~At(r, "idle") /\ UNCHANGED <<outbound, committed, delivered>>
        /\ \E how : outcome' = outcome \cup {<<task[r].offset, how>>}
    BY <1>9 DEF Drop, SkipSend, Finish, At
  <2>2. /\ task[r].offset \in Nat /\ task[r].offset < Len(outbound)
        /\ Earlier(task[r].offset) \subseteq Ends
    BY <2>1, TaskTyped DEF TypeInv, OrderInv
  <2>3. Group!End
    BY <1>5, <2>1, <2>2
  <2> QED
    BY <2>3 DEF Group!Next
<1>10. ASSUME NEW r \in Replica, Send(r) \/ Fails(r) \/ Crash(r)
       PROVE  Group!Next \/ UNCHANGED Group!consumption
  <2>1. /\ UNCHANGED <<outbound, committed>>
        /\ outcome' \in {outcome, outcome \cup {<<task[r].offset, "sent">>}}
        /\ \/ UNCHANGED <<delivered, outcome>>
           \/ ~At(r, "idle") /\ delivered' = Append(delivered, task[r].offset)
    BY <1>10 DEF Send, Fails, Crash, Finish, Goes, At, Delivered
  <2>2. CASE UNCHANGED <<delivered, outcome>>
    BY <1>1, <2>1, <2>2
  <2>3. CASE ~At(r, "idle") /\ delivered' = Append(delivered, task[r].offset)
    <3>1. /\ task[r].offset \in Nat /\ task[r].offset < Len(outbound)
          /\ Earlier(task[r].offset) \subseteq Ends
      BY <2>3, TaskTyped DEF TypeInv, OrderInv
    <3>2. Group!Answer
      BY <1>6, <2>1, <2>3, <3>1
    <3> QED
      BY <3>2 DEF Group!Next
  <2> QED
    BY <2>1, <2>2, <2>3
<1> QED
  BY <1>2, <1>3, <1>4, <1>7, <1>8, <1>9, <1>10 DEF Next, Work

\* The replicas are one in-order consumer, whatever the interruptions.
THEOREM ConsumptionImplemented == Spec => ImplementsConsumption
<1> QED
  BY InitTyped, InitOrder, NextTyped, OrderNext, InitConsumption, StepsConsumption, PTL
  DEF Spec, ImplementsConsumption, Group!Spec

-----------------------------------------------------------------------------
(* The settings of a business: the invariant                                 *)

\* A value: the number of a save, or none.
Value == 0 .. MaxEvents
NumberFields == {"phone", "tier", "webhook", "key", "pwd"}
PageFields == {"page", "loading", "shown", "form", "edited", "awaits"}

\* What a page's row holds, what of it can be shown, and what its form can hold.
RowOf(page) == CASE page = "aisensy" -> Number
                 [] page = "payment" -> [{"key_id", "upi", "secret"} -> Value]
                 [] page = "network" -> [Cap \cup {"listed"} -> BOOLEAN]
ShownOf(page) == CASE page = "aisensy" -> [phone : Phone, tier : Tier]
                   [] page = "payment" -> [{"key_id", "upi"} -> Value]
                   [] page = "network" -> [Cap \cup {"listed"} -> BOOLEAN]
FormOf(page) == CASE page = "aisensy" -> [phone : Phone \cup {""}, tier : Tier]
                  [] page = "payment" -> [{"key_id", "upi"} -> Value]
                  [] page = "network" -> {<<>>}
KeysOf(page) == CASE page = "aisensy" -> Phone
                  [] page = "payment" -> {"payment"}
                  [] page = "network" -> {"network"}

\* A number's secrets are of one save.
OneSave(row) == row.webhook # 0 => /\ row[Own(row.tier)] = row.webhook
RowsInv ==
    /\ DOMAIN rows = Key
    /\ \A page \in Page : \A k \in KeysOf(page) : rows[k] = NoRow \/ rows[k] \in RowOf(page)
    /\ \A k \in Phone : rows[k] # NoRow => rows[k].phone = k /\ OneSave(rows[k])

\* What was not edited is as the page shows it, if it shows anything.
AsShown(values, edited, shown) ==
    shown # NoRow => \A f \in DOMAIN values \ edited :
                       f \in DOMAIN shown /\ values[f] = shown[f]
PageOK(t) ==
    /\ DOMAIN t = PageFields
    /\ t.page \in Page /\ t.loading \in BOOLEAN
    /\ t.shown = NoRow \/ t.shown \in ShownOf(t.page)
    /\ t.form \in FormOf(t.page)
    /\ AsShown(t.form, t.edited, t.shown)
TabsInv == DOMAIN tab = Tab /\ \A p \in Tab : PageOK(tab[p])

\* What a save carries: values of the row's columns, and secrets of this save.
BodyOK(page, rowKey, body) ==
    CASE page = "aisensy" ->
           /\ {"phone", "tier", "webhook"} \subseteq DOMAIN body
           /\ body.phone = rowKey /\ body.tier \in Tier
           /\ body.webhook \in 1 .. MaxEvents
           /\ DOMAIN body \subseteq {"phone", "tier", "webhook", Own(body.tier)}
           /\ Own(body.tier) \in DOMAIN body => body[Own(body.tier)] = body.webhook
      [] page = "payment" ->
           /\ DOMAIN body \subseteq {"key_id", "upi", "secret"}
           /\ \A f \in DOMAIN body : body[f] \in Value
      [] page = "network" ->
           /\ DOMAIN body \subseteq Cap \cup {"listed"}
           /\ \A f \in DOMAIN body : body[f] \in BOOLEAN
SaveOK(r) == /\ r.key \in KeysOf(r.page)
             /\ BodyOK(r.page, r.key, r.body)
             /\ AsShown(r.body, r.edited, r.shown)
             /\ DOMAIN r.body \cap Secret \subseteq r.edited
RequestOK(r) ==
    /\ r.tab \in Tab /\ r.page = tab[r.tab].page
    /\ r.op \in {"load", "save"} /\ r.stage \in {"sent", "ok", "failed"}
    /\ r.op = "load" /\ r.stage = "ok" =>
         r.row \in ShownOf(r.page) \/ (r.row = NoRow /\ r.page # "network")
    /\ r.op = "save" /\ r.stage = "sent" => SaveOK(r)
RequestsInv == \A r \in requests : RequestOK(r)

CountsInv == /\ saves \in Nat /\ eventsLeft \in Nat
             /\ saves + eventsLeft <= MaxEvents

SettingsInv == RowsInv /\ TabsInv /\ RequestsInv /\ CountsInv

-----------------------------------------------------------------------------
(* Rows                                                                      *)

\* What can be shown of a row.
LEMMA VisibleIs ==
  ASSUME NEW page \in Page, NEW row \in RowOf(page)
  PROVE  /\ row # NoRow /\ Visible(row) # NoRow /\ Visible(row) \in ShownOf(page)
         /\ \A f \in DOMAIN row \ Secret :
              f \in DOMAIN Visible(row) /\ Visible(row)[f] = row[f]
<1>1. CASE page = "aisensy"
  BY <1>1 DEF RowOf, ShownOf, Visible, NoRow, Number, Secret
<1>2. CASE page = "payment"
  BY <1>2 DEF RowOf, ShownOf, Visible, NoRow, Secret
<1>3. CASE page = "network"
  BY <1>3, IntegrationsAssumption DEF RowOf, ShownOf, Visible, NoRow, Secret
<1> QED
  BY <1>1, <1>2, <1>3 DEF Page

LEMMA VisibleNothing == Visible(NoRow) = NoRow
  BY DEF Visible, NoRow

\* What a row is after a save.
LEMMA MergedIs ==
  ASSUME NEW page \in Page, NEW rowKey \in KeysOf(page), NEW body,
         BodyOK(page, rowKey, body),
         NEW row \in RowOf(page), page = "aisensy" => row.phone = rowKey
  PROVE  /\ Merged(body, row) \in RowOf(page)
         /\ page = "aisensy" /\ AisensyAccepts(body) =>
              Merged(body, row).phone = rowKey /\ OneSave(Merged(body, row))
<1>1. CASE page = "aisensy"
  <2> PICK merged : merged = Merged(body, row)
    OBVIOUS
  <2>1. /\ DOMAIN row = NumberFields
        /\ row.phone \in Phone /\ row.tier \in Tier /\ row.webhook \in Value
        /\ row.key \in Value /\ row.pwd \in Value
    BY <1>1 DEF RowOf, Number, NumberFields, Value
  <2>2. /\ body.phone = rowKey /\ rowKey \in Phone /\ body.tier \in Tier
        /\ body.webhook \in Value
        /\ {"phone", "tier", "webhook"} \subseteq DOMAIN body
        /\ Own(body.tier) \in DOMAIN body => body[Own(body.tier)] = body.webhook
        /\ DOMAIN body \subseteq {"phone", "tier", "webhook", Own(body.tier)}
    BY <1>1, IntegrationsAssumption DEF BodyOK, Value, KeysOf
  <2>3. /\ "key" \in DOMAIN body => body.key \in Value
        /\ "pwd" \in DOMAIN body => body.pwd \in Value
    BY <2>2 DEF Own, Tier
  <2>4. /\ merged = [f \in NumberFields |-> IF f \in DOMAIN body THEN body[f] ELSE row[f]]
        /\ merged.phone = rowKey /\ merged.tier = body.tier /\ merged.webhook = body.webhook
    BY <2>1, <2>2 DEF Merged, NumberFields
  <2>5. merged \in Number
    BY <2>1, <2>2, <2>3, <2>4 DEF Number, NumberFields, Value
  <2>6. AisensyAccepts(body) => merged[Own(body.tier)] = body[Own(body.tier)]
    BY <2>1, <2>2, <2>4 DEF AisensyAccepts, Own, NumberFields
  <2> QED
    BY <1>1, <2>2, <2>4, <2>5, <2>6 DEF RowOf, OneSave, AisensyAccepts
<1>2. CASE page = "payment"
  BY <1>2 DEF RowOf, BodyOK, Merged
<1>3. CASE page = "network"
  BY <1>3 DEF RowOf, BodyOK, Merged
<1> QED
  BY <1>1, <1>2, <1>3 DEF Page

\* A save of a page, and what it may change of its row.
Saves(r, page, columns) ==
    /\ Sent(r, "save", page) /\ Upsert(r, columns)
    /\ columns \in RowOf(page)
    /\ page = "aisensy" => columns.phone = r.key /\ AisensyAccepts(r.body)
Rightful(r, k) ==
    /\ r \in requests \ requests' /\ r.op = "save" /\ r.stage = "sent" /\ r.key = k
    /\ rows[k] # NoRow =>
         \A f \in DOMAIN rows[k] : rows'[k][f] # rows[k][f] =>
             \/ f \in r.edited
             \/ f \notin Secret /\ r.shown # Visible(rows[k])

LEMMA UpsertRow ==
  ASSUME RowsInv, NEW r \in requests, SaveOK(r), NEW page \in Page, NEW columns,
         Saves(r, page, columns)
  PROVE  /\ RowsInv'
         /\ \A k \in Key : rows'[k] # rows[k] => Rightful(r, k)
<1> PICK rowKey : rowKey = r.key
  OBVIOUS
<1> PICK body : body = r.body
  OBVIOUS
<1> PICK old : old = IF rows[rowKey] = NoRow THEN columns ELSE rows[rowKey]
  OBVIOUS
<1>1. /\ rowKey \in KeysOf(page) /\ BodyOK(page, rowKey, body)
      /\ AsShown(body, r.edited, r.shown)
      /\ DOMAIN body \cap Secret \subseteq r.edited /\ r.op = "save" /\ r.stage = "sent"
  BY DEF SaveOK, Saves, Sent
<1>2. rowKey \in Key /\ (page = "aisensy" => rowKey \in Phone)
  BY <1>1 DEF KeysOf, Key, Page
<1>3. old \in RowOf(page) /\ (page = "aisensy" => old.phone = rowKey)
  BY <1>1, <1>2 DEF RowsInv, Saves
<1>4. rows' = [rows EXCEPT ![rowKey] = Merged(body, old)]
  BY DEF Saves, Upsert
<1>5. /\ Merged(body, old) \in RowOf(page)
      /\ page = "aisensy" => Merged(body, old).phone = rowKey /\ OneSave(Merged(body, old))
  BY <1>1, <1>3, MergedIs DEF Saves
<1>6. /\ DOMAIN rows' = Key /\ rows'[rowKey] = Merged(body, old)
      /\ \A k \in Key \ {rowKey} : rows'[k] = rows[k]
  BY <1>2, <1>4 DEF RowsInv
<1>7. \A p \in Page : rowKey \in KeysOf(p) => p = page
  BY <1>1, IntegrationsAssumption DEF KeysOf, Page
<1>8. RowsInv'
  <2>1. ASSUME NEW p \in Page, NEW k \in KeysOf(p)
        PROVE  rows'[k] = NoRow \/ rows'[k] \in RowOf(p)
    <3>1. k \in Key
      BY DEF KeysOf, Key, Page
    <3> QED
      BY <1>5, <1>6, <1>7, <3>1 DEF RowsInv
  <2>2. ASSUME NEW k \in Phone, rows'[k] # NoRow
        PROVE  rows'[k].phone = k /\ OneSave(rows'[k])
    <3>1. k \in Key /\ k \in KeysOf("aisensy") /\ "aisensy" \in Page
      BY DEF Key, KeysOf, Page
    <3>2. CASE k = rowKey
      BY <1>5, <1>6, <1>7, <3>1, <3>2
    <3>3. CASE k # rowKey
      BY <1>6, <2>2, <3>1, <3>3 DEF RowsInv
    <3> QED
      BY <3>2, <3>3
  <2> QED
    BY <1>6, <2>1, <2>2 DEF RowsInv
<1>9. r \in requests \ requests'
  <2>1. requests' = (requests \ {r}) \cup {Answered(r, "ok")}
    BY DEF Saves, Upsert, Replace
  <2>2. Answered(r, "ok").stage = "ok"
    BY DEF Answered
  <2> QED
    BY <1>1, <2>1, <2>2
<1>10. ASSUME NEW k \in Key, rows'[k] # rows[k] PROVE Rightful(r, k)
  <2>1. k = rowKey
    BY <1>6, <1>10
  <2>2. ASSUME rows[rowKey] # NoRow, NEW f \in DOMAIN rows[rowKey],
               rows'[rowKey][f] # rows[rowKey][f],
               f \notin r.edited
        PROVE  f \notin Secret /\ r.shown # Visible(rows[rowKey])
    <3>1. rows[rowKey] = old
      BY <2>2
    <3>2. f \in DOMAIN body /\ rows'[rowKey][f] = body[f]
      BY <1>6, <2>2, <3>1 DEF Merged
    <3>3. f \notin Secret
      BY <1>1, <2>2, <3>2
    <3>4. ASSUME r.shown = Visible(old) PROVE FALSE
      <4>1. /\ Visible(old) # NoRow /\ f \in DOMAIN old \ Secret
            /\ Visible(old)[f] = old[f]
        BY <1>3, <2>2, <3>1, <3>3, VisibleIs
      <4>2. body[f] = r.shown[f]
        BY <1>1, <2>2, <3>2, <3>4, <4>1 DEF AsShown
      <4> QED
        BY <2>2, <3>1, <3>2, <3>4, <4>1, <4>2
    <3> QED
      BY <3>1, <3>3, <3>4
  <2> QED
    BY <1>1, <1>9, <2>1, <2>2 DEF Rightful
<1> QED
  BY <1>8, <1>10

\* What the owner's rows are before they are saved.
LEMMA ColumnsAre ==
  /\ \A k \in Phone : NumberColumns(k) \in Number /\ NumberColumns(k).phone = k
                      /\ NumberColumns(k).webhook = 0
  /\ PaymentColumns \in RowOf("payment") /\ RegistryColumns \in RowOf("network")
<1>1. 0 \in 0 .. MaxEvents /\ 0 \in Value
  BY IntegrationsAssumption DEF Value
<1>2. ASSUME NEW k \in Phone
      PROVE  NumberColumns(k) \in Number /\ NumberColumns(k).phone = k
             /\ NumberColumns(k).webhook = 0
  BY <1>1 DEF NumberColumns, Number, Tier
<1>3. PaymentColumns \in RowOf("payment")
  BY <1>1 DEF PaymentColumns, RowOf
<1>4. RegistryColumns \in RowOf("network")
  BY DEF RegistryColumns, RowOf
<1> QED
  BY <1>2, <1>3, <1>4

LEMMA SavesAre ==
  ASSUME NEW r, SaveOK(r), Serve(r), rows' # rows
  PROVE  \E page, columns : page \in Page /\ Saves(r, page, columns)
<1>1. CASE SaveNumber(r)
  <2>1. AisensyAccepts(r.body) /\ Upsert(r, NumberColumns(r.key))
    BY <1>1 DEF SaveNumber
  <2>2. r.key \in Phone
    BY <1>1 DEF SaveNumber, Sent, SaveOK, KeysOf
  <2>3. Saves(r, "aisensy", NumberColumns(r.key))
    BY <1>1, <2>1, <2>2, ColumnsAre DEF Saves, SaveNumber, RowOf
  <2> QED
    BY <2>3 DEF Page
<1>2. CASE SavePayment(r)
  <2>1. Saves(r, "payment", PaymentColumns)
    BY <1>2, ColumnsAre DEF Saves, SavePayment
  <2> QED
    BY <2>1 DEF Page
<1>3. CASE PutRegistry(r)
  <2>1. Saves(r, "network", RegistryColumns)
    BY <1>3, ColumnsAre DEF Saves, PutRegistry
  <2> QED
    BY <2>1 DEF Page
<1>4. CASE SelectNumber(r) \/ SelectPayment(r) \/ SelectRegistry(r)
  BY <1>4 DEF SelectNumber, SelectPayment, SelectRegistry
<1> QED
  BY <1>1, <1>2, <1>3, <1>4 DEF Serve

\* A row changes only by a save of its own, and as that may change it.
LEMMA RowsNext ==
  ASSUME RowsInv, RequestsInv, [IntegrationsNext]_integrationsVars
  PROVE  /\ RowsInv'
         /\ \A k \in Key : rows'[k] # rows[k] => \E r \in requests : Rightful(r, k)
<1>1. CASE rows' = rows
  BY <1>1 DEF RowsInv
<1>2. CASE rows' # rows
  <2>1. PICK r \in requests : Serve(r) /\ r.op = "save" /\ r.stage = "sent"
    <3>1. ASSUME NEW p \in Tab,
                 SubmitAisensy(p) \/ SubmitPayment(p) \/ ChangeNetwork(p) \/ Reopen(p)
          PROVE  FALSE
      BY <1>2, <3>1 DEF SubmitAisensy, SubmitPayment, ChangeNetwork, Reopen, Submit, SendSave
    <3>2. ASSUME NEW r \in requests, Fail(r) \/ Receive(r) PROVE FALSE
      BY <1>2, <3>2 DEF Fail, Receive, LoadedAisensy, LoadedPayment, LoadedNetwork, Saved,
         Ignored, taken
    <3>3. PICK r \in requests : Serve(r)
      BY <1>2, <3>1, <3>2 DEF IntegrationsNext, integrationsVars
    <3>4. r.op = "save" /\ r.stage = "sent"
      BY <1>2, <3>3 DEF Serve, SelectNumber, SelectPayment, SelectRegistry, SaveNumber,
         SavePayment, PutRegistry, Sent
    <3> QED
      BY <3>3, <3>4
  <2>2. SaveOK(r)
    BY <2>1 DEF RequestsInv, RequestOK
  <2>3. PICK page, columns : page \in Page /\ Saves(r, page, columns)
    BY <1>2, <2>1, <2>2, SavesAre
  <2> QED
    BY <2>2, <2>3, UpsertRow
<1> QED
  BY <1>1, <1>2

-----------------------------------------------------------------------------
(* Pages                                                                     *)

\* Every tab stays on its page.
PagesStay == \A p \in Tab : tab'[p].page = tab[p].page

LEMMA PageBecomes ==
  ASSUME TabsInv, NEW p \in Tab, NEW x, PageOK(x), x.page = tab[p].page,
         tab' = [tab EXCEPT ![p] = x]
  PROVE  TabsInv' /\ PagesStay
  BY DEF TabsInv, PagesStay

\* What a page waits for says nothing of what it shows.
LEMMA WaitingPage ==
  ASSUME NEW t, PageOK(t), NEW x, DOMAIN x = DOMAIN t, x.page = t.page,
         x.loading \in BOOLEAN, x.shown = t.shown, x.form = t.form, x.edited = t.edited
  PROVE  PageOK(x)
  BY DEF PageOK

LEMMA RenderedPage ==
  ASSUME NEW t, PageOK(t)
  PROVE  /\ PageOK(Rendered(t)) /\ Rendered(t).page = t.page
         /\ PageOK([Rendered(t) EXCEPT !.shown = NoRow])
         /\ [Rendered(t) EXCEPT !.shown = NoRow].page = t.page
<1>1. PICK x : x = Rendered(t)
  OBVIOUS
<1>2. PageOK(x) /\ x.page = t.page
  <2>1. DOMAIN t = PageFields
    BY DEF PageOK
  <2>2. /\ DOMAIN x = DOMAIN t /\ x.page = t.page /\ x.loading \in BOOLEAN
        /\ x.shown = t.shown /\ x.form = t.form /\ x.edited = t.edited
    BY <1>1, <2>1 DEF Rendered, PageFields
  <2> QED
    BY <2>2, WaitingPage
<1>3. PICK y : y = [x EXCEPT !.shown = NoRow]
  OBVIOUS
<1>4. /\ DOMAIN y = PageFields /\ y.page = x.page /\ y.loading = x.loading
      /\ y.shown = NoRow /\ y.form = x.form
  BY <1>2, <1>3 DEF PageOK, PageFields
<1>5. PageOK(y)
  BY <1>2, <1>4 DEF PageOK, AsShown
<1> QED
  BY <1>1, <1>2, <1>3, <1>4, <1>5

LEMMA PrefilledPage ==
  ASSUME NEW t, PageOK(t), NEW row \in ShownOf(t.page), NEW form \in FormOf(t.page),
         \A f \in DOMAIN form : f \in DOMAIN row /\ form[f] = row[f]
  PROVE  PageOK(Prefilled(t, row, form)) /\ Prefilled(t, row, form).page = t.page
<1>1. PICK x : x = Rendered(t)
  OBVIOUS
<1>2. PageOK(x) /\ x.page = t.page
  BY <1>1, RenderedPage
<1>3. PICK y : y = [x EXCEPT !.shown = row, !.form = form, !.edited = {}]
  OBVIOUS
<1>4. /\ DOMAIN y = PageFields /\ y.page = x.page /\ y.loading = x.loading
      /\ y.shown = row /\ y.form = form
  BY <1>2, <1>3 DEF PageOK, PageFields
<1>5. PageOK(y)
  BY <1>2, <1>4 DEF PageOK, AsShown
<1> QED
  BY <1>1, <1>2, <1>3, <1>4, <1>5 DEF Prefilled

LEMMA MountedPage ==
  ASSUME NEW page \in Page, NEW n
  PROVE  PageOK(Mounted(page, n)) /\ Mounted(page, n).page = page
<1>1. Blank(page) \in FormOf(page)
  <2>1. CASE page = "aisensy"
    BY <2>1 DEF Blank, FormOf, AisensyBlank, Tier
  <2>2. CASE page = "payment"
    BY <2>2, IntegrationsAssumption DEF Blank, FormOf, PaymentBlank, Value
  <2>3. CASE page = "network"
    BY <2>3 DEF Blank, FormOf
  <2> QED
    BY <2>1, <2>2, <2>3 DEF Page
<1>2. PICK form : form = Blank(page)
  OBVIOUS
<1> QED
  BY <1>1, <1>2 DEF Mounted, PageOK, PageFields, AsShown

\* What the user makes of a form.
Edited(p, form) == tab[p].edited \cup {f \in DOMAIN form : form[f] # tab[p].form[f]}

LEMMA EditedPage ==
  ASSUME TabsInv, NEW p \in Tab, NEW form \in FormOf(tab[p].page), NEW n,
         tab' = [tab EXCEPT ![p].form = form, ![p].edited = Edited(p, form),
                            ![p].awaits = n]
  PROVE  /\ TabsInv' /\ PagesStay
         /\ AsShown(form, Edited(p, form), tab[p].shown)
<1>1. PICK t : t = tab[p]
  OBVIOUS
<1>2. PageOK(t)
  BY <1>1 DEF TabsInv
<1>3. PICK x : x = [t EXCEPT !.form = form, !.edited = Edited(p, form), !.awaits = n]
  OBVIOUS
<1>4. /\ DOMAIN x = PageFields /\ x.page = t.page /\ x.loading = t.loading
      /\ x.shown = t.shown /\ x.form = form /\ x.edited = Edited(p, form)
  BY <1>2, <1>3 DEF PageOK, PageFields
<1>5. DOMAIN form = DOMAIN t.form
  BY <1>1, <1>2 DEF PageOK, FormOf, Page
<1>6. AsShown(form, Edited(p, form), t.shown)
  BY <1>1, <1>2, <1>5 DEF PageOK, AsShown, Edited
<1>7. PageOK(x)
  BY <1>1, <1>2, <1>4, <1>6 DEF PageOK
<1>8. tab' = [tab EXCEPT ![p] = x]
  BY <1>1, <1>3, <1>4 DEF TabsInv
<1> QED
  BY <1>1, <1>4, <1>6, <1>7, <1>8, PageBecomes

\* The answer to a load.
LEMMA LoadedPage ==
  ASSUME TabsInv, NEW r \in requests, RequestOK(r),
         \/ \E answered \in BOOLEAN : LoadedAisensy(r, answered)
         \/ LoadedPayment(r) \/ LoadedNetwork(r)
  PROVE  TabsInv' /\ PagesStay
<1> PICK p \in Tab : p = r.tab
  BY DEF RequestOK
<1> PICK t : t = tab[p]
  OBVIOUS
<1>1. PageOK(t) /\ t.page = r.page /\ r.stage \in {"sent", "ok", "failed"}
      /\ (r.op = "load" /\ r.stage = "ok" =>
            r.row \in ShownOf(r.page) \/ (r.row = NoRow /\ r.page # "network"))
  BY DEF TabsInv, RequestOK
<1>2. ASSUME NEW x, PageOK(x), x.page = t.page, tab' = [tab EXCEPT ![p] = x]
      PROVE  TabsInv' /\ PagesStay
  BY <1>2, PageBecomes
<1>3. ASSUME NEW answered \in BOOLEAN, LoadedAisensy(r, answered)
      PROVE  TabsInv' /\ PagesStay
  <2>1. r.op = "load" /\ r.stage # "sent" /\ r.page = "aisensy"
    BY <1>3 DEF LoadedAisensy, Awaited
  <2>2. CASE r.stage = "failed"
    <3> PICK loading \in BOOLEAN : loading = ~answered
      OBVIOUS
    <3>1. tab' = [tab EXCEPT ![p] = [t EXCEPT !.awaits = 0, !.loading = loading]]
      BY <1>3, <2>2 DEF LoadedAisensy
    <3> PICK x : x = [t EXCEPT !.awaits = 0, !.loading = loading]
      OBVIOUS
    <3>2. /\ DOMAIN x = DOMAIN t /\ x.page = t.page /\ x.loading \in BOOLEAN
          /\ x.shown = t.shown /\ x.form = t.form /\ x.edited = t.edited
      BY <1>1 DEF PageOK, PageFields
    <3>3. PageOK(x)
      BY <1>1, <3>2, WaitingPage
    <3> QED
      BY <1>2, <3>1, <3>2, <3>3
  <2>3. CASE r.stage = "ok" /\ r.row = NoRow
    <3>1. tab' = [tab EXCEPT ![p] = [Rendered(t) EXCEPT !.shown = NoRow]]
      BY <1>3, <2>3 DEF LoadedAisensy
    <3> QED
      BY <1>1, <1>2, <3>1, RenderedPage
  <2>4. CASE r.stage = "ok" /\ r.row # NoRow
    <3>1. tab' = [tab EXCEPT ![p] = Prefilled(t, r.row, AisensyPrefill(t.form, r.row))]
      BY <1>3, <2>4 DEF LoadedAisensy
    <3>2. r.row \in ShownOf(t.page) /\ t.form \in FormOf(t.page)
      BY <1>1, <2>1, <2>4 DEF PageOK
    <3>3. /\ AisensyPrefill(t.form, r.row) \in FormOf(t.page)
          /\ \A f \in DOMAIN AisensyPrefill(t.form, r.row) :
               f \in DOMAIN r.row /\ AisensyPrefill(t.form, r.row)[f] = r.row[f]
      BY <1>1, <2>1, <3>2 DEF AisensyPrefill, ShownOf, FormOf
    <3> QED
      BY <1>1, <1>2, <3>1, <3>2, <3>3, PrefilledPage
  <2> QED
    BY <1>1, <2>1, <2>2, <2>3, <2>4
<1>4. CASE LoadedPayment(r)
  <2>1. r.op = "load" /\ r.stage # "sent" /\ r.page = "payment"
    BY <1>4 DEF LoadedPayment, Awaited
  <2>2. CASE r.stage = "failed"
    <3>1. tab' = [tab EXCEPT ![p] = Rendered(t)]
      BY <1>4, <2>2 DEF LoadedPayment
    <3> QED
      BY <1>1, <1>2, <3>1, RenderedPage
  <2>3. CASE r.stage = "ok" /\ r.row = NoRow
    <3>1. tab' = [tab EXCEPT ![p] = [Rendered(t) EXCEPT !.shown = NoRow]]
      BY <1>4, <2>3 DEF LoadedPayment
    <3> QED
      BY <1>1, <1>2, <3>1, RenderedPage
  <2>4. CASE r.stage = "ok" /\ r.row # NoRow
    <3>1. tab' = [tab EXCEPT ![p] = Prefilled(t, r.row, PaymentPrefill(t.form, r.row))]
      BY <1>4, <2>4 DEF LoadedPayment
    <3>2. r.row \in ShownOf(t.page) /\ t.form \in FormOf(t.page)
      BY <1>1, <2>1, <2>4 DEF PageOK
    <3>3. /\ PaymentPrefill(t.form, r.row) \in FormOf(t.page)
          /\ \A f \in DOMAIN PaymentPrefill(t.form, r.row) :
               f \in DOMAIN r.row /\ PaymentPrefill(t.form, r.row)[f] = r.row[f]
      BY <1>1, <2>1, <3>2 DEF PaymentPrefill, ShownOf, FormOf
    <3> QED
      BY <1>1, <1>2, <3>1, <3>2, <3>3, PrefilledPage
  <2> QED
    BY <1>1, <2>1, <2>2, <2>3, <2>4
<1>5. CASE LoadedNetwork(r)
  <2>1. r.op = "load" /\ r.stage # "sent" /\ r.page = "network"
    BY <1>5 DEF LoadedNetwork, Awaited
  <2>2. CASE r.stage = "failed"
    <3>1. tab' = [tab EXCEPT ![p] = Rendered(t)]
      BY <1>5, <2>2 DEF LoadedNetwork
    <3> QED
      BY <1>1, <1>2, <3>1, RenderedPage
  <2>3. CASE r.stage = "ok"
    <3>1. tab' = [tab EXCEPT ![p] = Prefilled(t, r.row, <<>>)]
      BY <1>5, <2>3 DEF LoadedNetwork
    <3>2. r.row \in ShownOf(t.page)
      BY <1>1, <2>1, <2>3
    <3>3. <<>> \in FormOf(t.page) /\ DOMAIN <<>> = {}
      BY <1>1, <2>1 DEF FormOf
    <3> QED
      BY <1>1, <1>2, <3>1, <3>2, <3>3, PrefilledPage
  <2> QED
    BY <1>1, <2>1, <2>2, <2>3
<1> QED
  BY <1>3, <1>4, <1>5

\* The number of the save that is sent next.
LEMMA NewIs ==
  ASSUME CountsInv, Event PROVE new \in 1 .. MaxEvents /\ new \in Value
  BY IntegrationsAssumption DEF CountsInv, Event, new, Value

LEMMA PaymentTyped ==
  ASSUME TabsInv, CountsInv, NEW p \in Tab, SubmitPayment(p),
         NEW form \in PaymentInputs(tab[p].form)
  PROVE  form \in FormOf(tab[p].page)
<1>1. tab[p].page = "payment" /\ Event
  BY DEF SubmitPayment, Ready, Submit, SendSave
<1>2. tab[p].form \in [{"key_id", "upi"} -> Value]
  BY <1>1 DEF TabsInv, PageOK, FormOf
<1>3. new \in Value
  BY <1>1, NewIs
<1> QED
  BY <1>1, <1>2, <1>3 DEF PaymentInputs, FormOf

LEMMA TabsNext ==
  ASSUME TabsInv, RequestsInv, CountsInv, [IntegrationsNext]_integrationsVars
  PROVE  TabsInv' /\ PagesStay
<1>1. ASSUME UNCHANGED tab PROVE TabsInv' /\ PagesStay
  BY <1>1 DEF TabsInv, PagesStay
<1>2. ASSUME NEW p \in Tab, SubmitAisensy(p) PROVE TabsInv' /\ PagesStay
  <2>1. PICK form, rowKey, body, typed :
          form \in AisensyInputs /\ Submit(p, form, rowKey, body, typed)
    BY <1>2 DEF SubmitAisensy
  <2>2. form \in FormOf(tab[p].page)
    BY <1>2, <2>1 DEF SubmitAisensy, Ready, AisensyInputs, FormOf
  <2>3. tab' = [tab EXCEPT ![p].form = form, ![p].edited = Edited(p, form),
                           ![p].awaits = Fresh(p)]
    BY <2>1 DEF Submit, Edited
  <2> QED
    BY <2>2, <2>3, EditedPage
<1>3. ASSUME NEW p \in Tab, SubmitPayment(p) PROVE TabsInv' /\ PagesStay
  <2>1. PICK form, body, typed : /\ form \in PaymentInputs(tab[p].form)
                                 /\ Submit(p, form, "payment", body, typed)
    BY <1>3 DEF SubmitPayment
  <2>2. form \in FormOf(tab[p].page)
    BY <1>3, <2>1, PaymentTyped
  <2>3. tab' = [tab EXCEPT ![p].form = form, ![p].edited = Edited(p, form),
                           ![p].awaits = Fresh(p)]
    BY <2>1 DEF Submit, Edited
  <2> QED
    BY <2>2, <2>3, EditedPage
<1>9. ASSUME NEW p \in Tab, NEW t, PageOK(t), t = tab[p], NEW loading \in BOOLEAN, NEW n,
             \/ tab' = [tab EXCEPT ![p] = [t EXCEPT !.awaits = n]]
             \/ tab' = [tab EXCEPT ![p] = [t EXCEPT !.loading = loading, !.awaits = n]]
      PROVE  TabsInv' /\ PagesStay
  <2>1. PICK x : /\ tab' = [tab EXCEPT ![p] = x]
                 /\ \/ x = [t EXCEPT !.awaits = n]
                    \/ x = [t EXCEPT !.loading = loading, !.awaits = n]
    BY <1>9
  <2>2. /\ DOMAIN x = DOMAIN t /\ x.page = t.page /\ x.loading \in BOOLEAN
        /\ x.shown = t.shown /\ x.form = t.form /\ x.edited = t.edited
    BY <1>9, <2>1 DEF PageOK, PageFields
  <2> QED
    BY <1>9, <2>1, <2>2, WaitingPage, PageBecomes
<1>4. ASSUME NEW p \in Tab, ChangeNetwork(p) PROVE TabsInv' /\ PagesStay
  <2>1. PageOK(tab[p]) /\ tab' = [tab EXCEPT ![p].awaits = Fresh(p)]
    BY <1>4 DEF ChangeNetwork, TabsInv
  <2>2. tab' = [tab EXCEPT ![p] = [tab[p] EXCEPT !.awaits = Fresh(p)]]
    BY <2>1
  <2> QED
    BY <1>9, <2>1, <2>2
<1>5. ASSUME NEW p \in Tab, Reopen(p) PROVE TabsInv' /\ PagesStay
  <2>1. tab[p].page \in Page /\ tab' = [tab EXCEPT ![p] = Mounted(tab[p].page, Fresh(p))]
    BY <1>5 DEF Reopen, TabsInv, PageOK
  <2> QED
    BY <2>1, MountedPage, PageBecomes
<1>6. ASSUME NEW r \in requests, NEW page \in Page, Saved(r, page)
      PROVE  TabsInv' /\ PagesStay
  <2> PICK p \in Tab : p = r.tab
    BY DEF RequestsInv, RequestOK
  <2>1. PageOK(tab[p])
    BY DEF TabsInv
  <2>2. CASE r.stage = "ok"
    <3>1. tab' = [tab EXCEPT ![p].loading = TRUE, ![p].awaits = Fresh(p)]
      BY <1>6, <2>2 DEF Saved
    <3> PICK loading \in BOOLEAN : loading = TRUE
      OBVIOUS
    <3>2. tab' = [tab EXCEPT ![p] = [tab[p] EXCEPT !.loading = loading, !.awaits = Fresh(p)]]
      BY <3>1 DEF TabsInv
    <3> QED
      BY <1>9, <2>1, <3>2
  <2>3. CASE r.stage # "ok"
    <3>1. tab' = [tab EXCEPT ![p] = [tab[p] EXCEPT !.awaits = 0]]
      BY <1>6, <2>3 DEF Saved
    <3> QED
      BY <1>9, <2>1, <3>1
  <2> QED
    BY <2>2, <2>3
<1>7. ASSUME NEW r \in requests,
             \/ \E answered \in BOOLEAN : LoadedAisensy(r, answered)
             \/ LoadedPayment(r) \/ LoadedNetwork(r)
      PROVE  TabsInv' /\ PagesStay
  BY <1>7, LoadedPage DEF RequestsInv
<1>8. ASSUME NEW r \in requests, Serve(r) \/ Fail(r) \/ Ignored(r) PROVE UNCHANGED tab
  BY <1>8 DEF Serve, SelectNumber, SelectPayment, SelectRegistry, SaveNumber, SavePayment,
     PutRegistry, served, Fail, Ignored
<1> QED
  BY <1>1, <1>2, <1>3, <1>4, <1>5, <1>6, <1>7, <1>8 DEF IntegrationsNext, Receive,
     integrationsVars

-----------------------------------------------------------------------------
(* Requests                                                                  *)

LEMMA RequestStays ==
  ASSUME NEW r, RequestOK(r), PagesStay PROVE RequestOK(r)'
  BY DEF RequestOK, PagesStay, SaveOK

\* What a save of a page carries.
SaveOf(p, q, rowKey, body, edited) ==
    q = [tab |-> p, no |-> Fresh(p), op |-> "save", page |-> tab[p].page,
         stage |-> "sent", key |-> rowKey, body |-> body, edited |-> edited,
         shown |-> tab[p].shown]
LEMMA SentSave ==
  ASSUME NEW p \in Tab, NEW rowKey \in KeysOf(tab[p].page), NEW body, NEW edited,
         BodyOK(tab[p].page, rowKey, body), AsShown(body, edited, tab[p].shown),
         DOMAIN body \cap Secret \subseteq edited, NEW q, SaveOf(p, q, rowKey, body, edited)
  PROVE  RequestOK(q)
<1>1. /\ q.tab = p /\ q.page = tab[p].page /\ q.op = "save" /\ q.stage = "sent"
      /\ q.key = rowKey /\ q.body = body /\ q.edited = edited /\ q.shown = tab[p].shown
  BY DEF SaveOf
<1> QED
  BY <1>1 DEF RequestOK, SaveOK

\* A form's fields go as they are edited, and its secrets as they are typed.
LEMMA BodyShown ==
  ASSUME NEW form, NEW edited, NEW shown, AsShown(form, edited, shown),
         NEW fields, NEW typed, fields \subseteq DOMAIN form \cup typed
  PROVE  AsShown(Body(form, fields), edited \cup typed, shown)
  BY DEF AsShown, Body

LEMMA AisensySent ==
  ASSUME TabsInv, CountsInv, NEW p \in Tab, SubmitAisensy(p)
  PROVE  \E q : requests' = requests \cup {q} /\ RequestOK(q)
<1> PICK form \in AisensyInputs :
      \E typed \in {{}, {Own(form.tier)}} :
        Submit(p, form, form.phone, AisensyBody(form, typed), typed \cup {"webhook"})
  BY DEF SubmitAisensy
<1>1. PICK typed \in {{}, {Own(form.tier)}} :
        Submit(p, form, form.phone, AisensyBody(form, typed), typed \cup {"webhook"})
  OBVIOUS
<1>2. tab[p].page = "aisensy" /\ form \in FormOf(tab[p].page) /\ Event
  BY <1>1 DEF SubmitAisensy, Ready, AisensyInputs, FormOf, Submit, SendSave
<1> PICK body : body = AisensyBody(form, typed)
  OBVIOUS
<1> PICK edited : edited = Edited(p, form)
  OBVIOUS
<1> PICK q : SaveOf(p, q, form.phone, body, edited \cup (typed \cup {"webhook"}))
  BY DEF SaveOf
<1>3. requests' = requests \cup {q}
  BY <1>1 DEF Submit, SendSave, SaveOf, Edited
<1>4. AsShown(form, edited, tab[p].shown)
  BY <1>1, <1>2, EditedPage DEF Submit, Edited
<1>5. new \in 1 .. MaxEvents
  BY <1>2, NewIs
<1>6. /\ DOMAIN form = {"phone", "tier"} /\ form.phone \in Phone /\ form.tier \in Tier
      /\ Own(form.tier) \in {"key", "pwd"} /\ typed \subseteq {Own(form.tier)}
  BY DEF AisensyInputs, Own
<1>7. /\ DOMAIN body = {"phone", "tier", "webhook"} \cup typed
      /\ body.phone = form.phone /\ body.tier = form.tier /\ body.webhook = new
      /\ \A f \in typed : body[f] = new
  BY <1>6 DEF AisensyBody, Body
<1>8. BodyOK(tab[p].page, form.phone, body)
  BY <1>2, <1>5, <1>6, <1>7 DEF BodyOK
<1>9. DOMAIN body \cap Secret \subseteq edited \cup (typed \cup {"webhook"})
  BY <1>7 DEF Secret
<1>10. AsShown(body, edited \cup (typed \cup {"webhook"}), tab[p].shown)
  BY <1>4, <1>6, BodyShown DEF AisensyBody
<1>11. form.phone \in KeysOf(tab[p].page)
  BY <1>2, <1>6 DEF KeysOf
<1> QED
  BY <1>3, <1>8, <1>9, <1>10, <1>11, SentSave

LEMMA PaymentSent ==
  ASSUME TabsInv, CountsInv, NEW p \in Tab, SubmitPayment(p)
  PROVE  \E q : requests' = requests \cup {q} /\ RequestOK(q)
<1>1. PICK form \in PaymentInputs(tab[p].form), typed \in SUBSET {"secret"} :
        Submit(p, form, "payment", PaymentBody(form, typed), typed)
  BY DEF SubmitPayment
<1>2. tab[p].page = "payment" /\ form \in FormOf(tab[p].page) /\ Event
  BY <1>1, PaymentTyped DEF SubmitPayment, Ready, Submit, SendSave
<1> PICK body : body = PaymentBody(form, typed)
  OBVIOUS
<1> PICK edited : edited = Edited(p, form)
  OBVIOUS
<1> PICK q : SaveOf(p, q, "payment", body, edited \cup typed)
  BY DEF SaveOf
<1>3. requests' = requests \cup {q}
  BY <1>1 DEF Submit, SendSave, SaveOf, Edited
<1>4. AsShown(form, edited, tab[p].shown)
  BY <1>1, <1>2, EditedPage DEF Submit, Edited
<1>5. new \in Value
  BY <1>2, NewIs
<1>6. DOMAIN form = {"key_id", "upi"} /\ \A f \in DOMAIN form : form[f] \in Value
  BY <1>2 DEF FormOf
<1>7. /\ DOMAIN body \subseteq {"key_id", "upi"} \cup typed
      /\ \A f \in DOMAIN body : body[f] \in Value
  BY <1>5, <1>6 DEF PaymentBody, Body
<1>8. BodyOK(tab[p].page, "payment", body)
  BY <1>2, <1>7 DEF BodyOK
<1>9. DOMAIN body \cap Secret \subseteq edited \cup typed
  BY <1>7 DEF Secret
<1>10. AsShown(body, edited \cup typed, tab[p].shown)
  <2>1. {f \in DOMAIN form : form[f] # 0} \cup typed \subseteq DOMAIN form \cup typed
    OBVIOUS
  <2> QED
    BY <1>4, <2>1, BodyShown DEF PaymentBody
<1>11. "payment" \in KeysOf(tab[p].page)
  BY <1>2 DEF KeysOf
<1> QED
  BY <1>3, <1>8, <1>9, <1>10, <1>11, SentSave

LEMMA NetworkSent ==
  ASSUME TabsInv, NEW p \in Tab, ChangeNetwork(p)
  PROVE  \E q : requests' = requests \cup {q} /\ RequestOK(q)
<1> PICK shown : shown = tab[p].shown
  OBVIOUS
<1>1. tab[p].page = "network" /\ shown \in [Cap \cup {"listed"} -> BOOLEAN]
  BY DEF ChangeNetwork, Ready, TabsInv, PageOK, ShownOf
<1>2. ASSUME NEW body, NEW edited, SendSave(p, "network", body, edited),
             DOMAIN body \subseteq Cap \cup {"listed"},
             \A f \in DOMAIN body : body[f] \in BOOLEAN /\ (f \notin edited => body[f] = shown[f])
      PROVE  \E q : requests' = requests \cup {q} /\ RequestOK(q)
  <2> PICK q : SaveOf(p, q, "network", body, edited)
    BY DEF SaveOf
  <2>1. requests' = requests \cup {q}
    BY <1>2 DEF SendSave, SaveOf
  <2>2. BodyOK(tab[p].page, "network", body)
    BY <1>1, <1>2 DEF BodyOK
  <2>3. AsShown(body, edited, tab[p].shown)
    BY <1>1, <1>2 DEF AsShown
  <2>4. DOMAIN body \cap Secret \subseteq edited
    BY <1>2, IntegrationsAssumption DEF Secret
  <2>5. "network" \in KeysOf(tab[p].page)
    BY <1>1 DEF KeysOf
  <2> QED
    BY <2>1, <2>2, <2>3, <2>4, <2>5, SentSave
<1>3. CASE SendSave(p, "network", [listed |-> ~shown.listed], {"listed"})
  <2> PICK body : body = [listed |-> ~shown.listed]
    OBVIOUS
  <2>1. DOMAIN body = {"listed"} /\ body["listed"] \in BOOLEAN
    BY <1>1
  <2> QED
    BY <1>2, <1>3, <2>1
<1>4. ASSUME NEW c \in Cap, SendSave(p, "network", Relisted(shown, c), {c})
      PROVE  \E q : requests' = requests \cup {q} /\ RequestOK(q)
  <2> PICK body : body = Relisted(shown, c)
    OBVIOUS
  <2>1. /\ DOMAIN body = Cap /\ \A d \in Cap : body[d] \in BOOLEAN
        /\ \A d \in Cap : d # c => body[d] = shown[d]
    BY <1>1 DEF Relisted
  <2> QED
    BY <1>2, <1>4, <2>1
<1> QED
  BY <1>3, <1>4 DEF ChangeNetwork

LEMMA LoadSent ==
  ASSUME NEW p \in Tab, NEW page, page = tab[p].page PROVE RequestOK(Load(p, page))
<1> PICK q : q = Load(p, page)
  OBVIOUS
<1>1. q.tab = p /\ q.page = page /\ q.op = "load" /\ q.stage = "sent"
  BY DEF Load
<1> QED
  BY <1>1 DEF RequestOK

LEMMA AnsweredOK ==
  ASSUME NEW r, RequestOK(r), NEW stage \in {"ok", "failed"},
         r.op = "save" \/ stage = "failed"
  PROVE  RequestOK(Answered(r, stage))
<1> PICK q : q = Answered(r, stage)
  OBVIOUS
<1>1. q.tab = r.tab /\ q.page = r.page /\ q.op = r.op /\ q.stage = stage
  BY DEF Answered
<1> QED
  BY <1>1 DEF RequestOK

LEMMA AnswerOK ==
  ASSUME RowsInv, NEW r, RequestOK(r), NEW row, Answer(r, row),
         row \in RowOf(r.page) \/ (row = NoRow /\ r.page # "network"), r.page \in Page
  PROVE  \E q : Replace(r, q) /\ RequestOK(q)
<1> PICK q : q = [tab |-> r.tab, no |-> r.no, op |-> r.op, page |-> r.page,
                  stage |-> "ok", row |-> Visible(row)]
  OBVIOUS
<1>1. q.tab = r.tab /\ q.page = r.page /\ q.op = r.op /\ q.stage = "ok"
      /\ q.row = Visible(row)
  OBVIOUS
<1>2. q.row \in ShownOf(q.page) \/ (q.row = NoRow /\ q.page # "network")
  BY <1>1, VisibleIs, VisibleNothing
<1>3. RequestOK(q)
  BY <1>1, <1>2 DEF RequestOK
<1> QED
  BY <1>3 DEF Answer

\* What a route answers.
LEMMA ServedRequests ==
  ASSUME RowsInv, NEW r \in requests, RequestOK(r), Serve(r) \/ Fail(r)
  PROVE  \E q : Replace(r, q) /\ RequestOK(q)
<1>1. CASE SelectNumber(r)
  <2>1. PICK k \in Phone : Answer(r, rows[k])
    BY <1>1 DEF SelectNumber
  <2>2. r.page = "aisensy" /\ (rows[k] = NoRow \/ rows[k] \in RowOf("aisensy"))
    BY <1>1 DEF SelectNumber, Sent, RowsInv, KeysOf, Page
  <2> QED
    BY <2>1, <2>2, AnswerOK DEF Page
<1>2. CASE SelectPayment(r)
  <2>1. Answer(r, rows["payment"]) /\ r.page = "payment"
    BY <1>2 DEF SelectPayment, Sent
  <2>2. rows["payment"] = NoRow \/ rows["payment"] \in RowOf("payment")
    BY DEF RowsInv, KeysOf, Page
  <2> QED
    BY <2>1, <2>2, AnswerOK DEF Page
<1>3. CASE SelectRegistry(r)
  <2> PICK row : row = IF rows["network"] = NoRow THEN RegistryColumns ELSE rows["network"]
    OBVIOUS
  <2>1. Answer(r, row) /\ r.page = "network"
    BY <1>3 DEF SelectRegistry, Sent
  <2>2. row \in RowOf("network")
    BY ColumnsAre DEF RowsInv, KeysOf, Page
  <2> QED
    BY <2>1, <2>2, AnswerOK DEF Page
<1>4. CASE SaveNumber(r) \/ SavePayment(r) \/ PutRegistry(r)
  <2>1. r.op = "save"
    BY <1>4 DEF SaveNumber, SavePayment, PutRegistry, Sent
  <2>2. Replace(r, Answered(r, "ok")) \/ Replace(r, Answered(r, "failed"))
    BY <1>4 DEF SaveNumber, SavePayment, PutRegistry, Upsert
  <2> QED
    BY <2>1, <2>2, AnsweredOK
<1>5. CASE Fail(r)
  BY <1>5, AnsweredOK DEF Fail
<1> QED
  BY <1>1, <1>2, <1>3, <1>4, <1>5 DEF Serve

LEMMA RequestsNext ==
  ASSUME SettingsInv, [IntegrationsNext]_integrationsVars
  PROVE  RequestsInv'
<1>0. /\ RowsInv /\ TabsInv /\ RequestsInv /\ CountsInv
      /\ \A r \in requests : RequestOK(r)
  BY DEF SettingsInv, RequestsInv
<1>1. ASSUME \A q \in requests' : RequestOK(q) PROVE RequestsInv'
  <2>1. PagesStay
    BY <1>0, TabsNext
  <2> SUFFICES ASSUME NEW q \in requests' PROVE RequestOK(q)'
    BY DEF RequestsInv
  <2> QED
    BY <1>1, <2>1, RequestStays
<1>2. ASSUME NEW p \in Tab, SubmitAisensy(p) \/ SubmitPayment(p) \/ ChangeNetwork(p)
      PROVE  RequestsInv'
  <2>1. PICK q : requests' = requests \cup {q} /\ RequestOK(q)
    BY <1>0, <1>2, AisensySent, PaymentSent, NetworkSent
  <2> QED
    BY <1>0, <1>1, <2>1
<1>3. ASSUME NEW p \in Tab, Reopen(p) PROVE RequestsInv'
  <2>1. requests' = requests \cup {Load(p, tab[p].page)}
    BY <1>3 DEF Reopen
  <2>2. RequestOK(Load(p, tab[p].page))
    BY LoadSent
  <2> QED
    BY <1>0, <1>1, <2>1, <2>2
<1>4. ASSUME NEW r \in requests, Serve(r) \/ Fail(r) PROVE RequestsInv'
  <2>1. PICK q : Replace(r, q) /\ RequestOK(q)
    BY <1>0, <1>4, ServedRequests
  <2> QED
    BY <1>0, <1>1, <2>1 DEF Replace
<1>5. ASSUME NEW r \in requests, NEW page \in Page, Saved(r, page), r.stage = "ok"
      PROVE  RequestsInv'
  <2>1. requests' = (requests \ {r}) \cup {Load(r.tab, page)}
    BY <1>5 DEF Saved
  <2>2. r.tab \in Tab /\ page = tab[r.tab].page
    BY <1>0, <1>5 DEF Saved, Awaited, RequestOK
  <2>3. RequestOK(Load(r.tab, page))
    BY <2>2, LoadSent
  <2> QED
    BY <1>0, <1>1, <2>1, <2>3
<1>6. ASSUME NEW r \in requests, Receive(r),
             \A page \in Page : Saved(r, page) => r.stage # "ok"
      PROVE  RequestsInv'
  <2>1. requests' \subseteq requests
    BY <1>6 DEF Receive, LoadedAisensy, LoadedPayment, LoadedNetwork, Saved, Ignored
  <2> QED
    BY <1>0, <1>1, <2>1
<1>7. ASSUME UNCHANGED integrationsVars PROVE RequestsInv'
  BY <1>0, <1>1, <1>7 DEF integrationsVars
<1> QED
  BY <1>2, <1>3, <1>4, <1>5, <1>6, <1>7 DEF IntegrationsNext

-----------------------------------------------------------------------------
(* Settings                                                                  *)

LEMMA FirstSettings == IntegrationsInit => SettingsInv
<1> SUFFICES ASSUME IntegrationsInit PROVE SettingsInv
  OBVIOUS
<1>1. CountsInv
  BY IntegrationsAssumption DEF IntegrationsInit, CountsInv
<1>2. RowsInv
  <2>1. CASE rows = [k \in Key |-> NoRow]
    BY <2>1 DEF RowsInv, KeysOf, Page, Key
  <2>2. ASSUME NEW n \in Phone,
               rows = [k \in Key |-> IF k = n THEN NumberColumns(k) ELSE NoRow]
        PROVE  RowsInv
    <3>1. /\ DOMAIN rows = Key /\ n \in Key /\ rows[n] = NumberColumns(n)
          /\ \A k \in Key \ {n} : rows[k] = NoRow
      BY <2>2 DEF Key
    <3>2. ASSUME NEW page \in Page, NEW k \in KeysOf(page)
          PROVE  rows[k] = NoRow \/ rows[k] \in RowOf(page)
      <4>1. k \in Key /\ (k = n => page = "aisensy")
        BY IntegrationsAssumption DEF KeysOf, Page, Key
      <4> QED
        BY <3>1, <4>1, ColumnsAre DEF RowOf
    <3>3. \A k \in Phone : rows[k] # NoRow => k = n
      BY <3>1 DEF Key
    <3>4. rows[n].phone = n /\ OneSave(rows[n])
      BY <3>1, ColumnsAre DEF OneSave
    <3> QED
      BY <3>1, <3>2, <3>3, <3>4 DEF RowsInv
  <2>3. (CHOOSE n \in Phone : TRUE) \in Phone
    BY IntegrationsAssumption
  <2> QED
    BY <2>1, <2>2, <2>3 DEF IntegrationsInit
<1>3. PICK page \in Page :
        /\ tab = [p \in Tab |-> Mounted(page, 1)]
        /\ requests = {[tab |-> p, no |-> 1, op |-> "load", page |-> page,
                        stage |-> "sent"] : p \in Tab}
  BY DEF IntegrationsInit
<1>4. TabsInv
  BY <1>3, MountedPage DEF TabsInv
<1>5. RequestsInv
  <2> SUFFICES ASSUME NEW r \in requests PROVE RequestOK(r)
    BY DEF RequestsInv
  <2>1. r.tab \in Tab /\ r.page = page /\ r.op = "load" /\ r.stage = "sent"
    BY <1>3
  <2>2. tab[r.tab].page = page
    BY <1>3, <2>1, MountedPage
  <2> QED
    BY <2>1, <2>2 DEF RequestOK
<1> QED
  BY <1>1, <1>2, <1>4, <1>5 DEF SettingsInv

LEMMA CountsNext ==
  ASSUME CountsInv, [IntegrationsNext]_integrationsVars PROVE CountsInv'
<1>1. CASE UNCHANGED <<saves, eventsLeft>>
  BY <1>1 DEF CountsInv
<1>2. CASE Event /\ saves' \in {saves, saves + 1}
  <2>1. saves \in Nat /\ eventsLeft \in Nat /\ saves + eventsLeft <= MaxEvents
    BY DEF CountsInv
  <2>2. eventsLeft' \in Nat /\ eventsLeft' = eventsLeft - 1
    BY <1>2, <2>1 DEF Event
  <2>3. saves' = saves \/ saves' = saves + 1
    BY <1>2
  <2>4. saves' \in Nat /\ saves' + eventsLeft' <= MaxEvents
    BY <2>1, <2>2, <2>3, IntegrationsAssumption
  <2> QED
    BY <2>2, <2>4 DEF CountsInv
<1>3. ASSUME NEW p \in Tab,
             SubmitAisensy(p) \/ SubmitPayment(p) \/ ChangeNetwork(p) \/ Reopen(p)
      PROVE  Event /\ saves' \in {saves, saves + 1}
  BY <1>3 DEF SubmitAisensy, SubmitPayment, ChangeNetwork, Reopen, Submit, SendSave, new
<1>4. ASSUME NEW r \in requests, Serve(r) \/ Receive(r)
      PROVE  UNCHANGED <<saves, eventsLeft>>
  BY <1>4 DEF Serve, SelectNumber, SelectPayment, SelectRegistry, SaveNumber, SavePayment,
     PutRegistry, served, Receive, LoadedAisensy, LoadedPayment, LoadedNetwork, Saved,
     Ignored, taken
<1>5. ASSUME NEW r \in requests, Fail(r) PROVE Event /\ saves' \in {saves, saves + 1}
  BY <1>5 DEF Fail
<1> QED
  BY <1>1, <1>2, <1>3, <1>4, <1>5 DEF IntegrationsNext, integrationsVars

\* The settings of a business: the inductive invariant.
THEOREM SettingsInvariant == IntegrationsSpec => []SettingsInv
<1>1. ASSUME SettingsInv, [IntegrationsNext]_integrationsVars PROVE SettingsInv'
  BY <1>1, RowsNext, TabsNext, RequestsNext, CountsNext DEF SettingsInv
<1> QED
  BY <1>1, FirstSettings, PTL DEF IntegrationsSpec

\* However tabs, tiers and numbers are mixed, a number that was saved once is one the
\* edge can use, and its secrets are those of one save.
THEOREM CredentialsOfOneSave == IntegrationsSpec => []CredentialsInv
<1>1. ASSUME SettingsInv PROVE CredentialsInv
  <2>0. RowsInv /\ TabsInv /\ RequestsInv /\ CountsInv
    BY <1>1 DEF SettingsInv
  <2>1. saves \in 0 .. MaxEvents /\ eventsLeft \in 0 .. MaxEvents
    BY <2>0, IntegrationsAssumption DEF CountsInv
  <2>2. ASSUME NEW k \in Key, rows[k] # NoRow
        PROVE  CASE k = "payment" -> rows[k] \in [DOMAIN PaymentColumns -> 0 .. MaxEvents]
                 [] k = "network" -> rows[k] \in [Cap \cup {"listed"} -> BOOLEAN]
                 [] OTHER -> rows[k] \in Number /\ rows[k].phone = k
    <3>1. CASE k = "payment"
      <4>1. rows[k] \in RowOf("payment")
        BY <2>0, <2>2, <3>1 DEF RowsInv, KeysOf, Page
      <4>2. DOMAIN PaymentColumns = {"key_id", "upi", "secret"}
        BY DEF PaymentColumns
      <4> QED
        BY <3>1, <4>1, <4>2 DEF RowOf, Value
    <3>2. CASE k = "network"
      BY <2>0, <2>2, <3>2 DEF RowsInv, KeysOf, Page, RowOf
    <3>3. CASE k \in Phone
      <4>1. rows[k] \in Number /\ rows[k].phone = k
        BY <2>0, <2>2, <3>3 DEF RowsInv, KeysOf, Page, RowOf
      <4>2. k # "payment" /\ k # "network"
        BY <3>3, IntegrationsAssumption
      <4> QED
        BY <4>1, <4>2
    <3> QED
      BY <3>1, <3>2, <3>3 DEF Key
  <2>3. \A p \in Tab : /\ tab[p].page \in Page /\ tab[p].loading \in BOOLEAN
                       /\ DOMAIN tab[p].form = DOMAIN Blank(tab[p].page)
    <3> SUFFICES ASSUME NEW p \in Tab
                 PROVE  /\ tab[p].page \in Page /\ tab[p].loading \in BOOLEAN
                        /\ DOMAIN tab[p].form = DOMAIN Blank(tab[p].page)
      OBVIOUS
    <3> PICK page : page = tab[p].page
      OBVIOUS
    <3>1. /\ page \in Page /\ tab[p].loading \in BOOLEAN /\ tab[p].form \in FormOf(page)
      BY <2>0 DEF TabsInv, PageOK
    <3>2. CASE page = "aisensy"
      BY <3>1, <3>2 DEF FormOf, Blank, AisensyBlank
    <3>3. CASE page = "payment"
      BY <3>1, <3>3 DEF FormOf, Blank, PaymentBlank
    <3>4. CASE page = "network"
      BY <3>1, <3>4 DEF FormOf, Blank
    <3> QED
      BY <3>1, <3>2, <3>3, <3>4 DEF Page
  <2>4. \A r \in requests : /\ r.tab \in Tab /\ r.page \in Page
                            /\ r.op \in {"load", "save"}
                            /\ r.stage \in {"sent", "ok", "failed"}
    BY <2>0 DEF RequestsInv, RequestOK, TabsInv, PageOK
  <2>5. ASSUME NEW k \in Phone, rows[k] # NoRow, rows[k].webhook # 0
        PROVE  /\ Usable(rows[k])
               /\ rows[k].webhook = rows[k][Own(rows[k].tier)]
    BY <2>0, <2>5 DEF RowsInv, OneSave, Usable
  <2> QED
    BY <2>1, <2>2, <2>3, <2>4, <2>5 DEF CredentialsInv, IntegrationsTypeOK,
       CredentialsBelongTogether
<1> QED
  BY <1>1, SettingsInvariant, PTL

\* A save changes what the user edited for it.  It changes something else only when its
\* page showed something older than the row, and a secret never.
THEOREM NothingElseChanges == IntegrationsSpec => NoSilentChange
<1>1. ASSUME SettingsInv, [IntegrationsNext]_integrationsVars
      PROVE  [\A k \in Key : rows'[k] # rows[k] =>
                \E r \in requests \ requests' :
                  /\ r.op = "save" /\ r.stage = "sent" /\ r.key = k
                  /\ rows[k] # NoRow =>
                       \A f \in DOMAIN rows[k] : rows'[k][f] # rows[k][f] =>
                           \/ f \in r.edited
                           \/ f \notin Secret /\ r.shown # Visible(rows[k])]_integrationsVars
  BY <1>1, RowsNext DEF SettingsInv, Rightful
<1> QED
  BY <1>1, SettingsInvariant, PTL DEF IntegrationsSpec, NoSilentChange
=============================================================================
