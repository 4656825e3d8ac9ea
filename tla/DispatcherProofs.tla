-------------------------- MODULE DispatcherProofs --------------------------
(***************************************************************************)
(* Theorems about Dispatcher, for any number of replicas, events and       *)
(* interruptions.                                                          *)
(***************************************************************************)
EXTENDS Dispatcher, FiniteSetTheorems, TLAPS

-----------------------------------------------------------------------------
(* Types *)

LEMMA InitTyped == Init => TypeOK
  BY DispatcherAssumption DEF Init, TypeOK, Tasks, Document, Idle, Stage, Offset, NoOffset, Nobody

\* What an assignment makes of the position is an offset.
LEMMA ResetTyped == TypeOK => ResetPosition \in Nat
  BY DEF TypeOK, ResetPosition, Offset, NoOffset

LEMMA BehindTyped == \A n \in Nat : Behind(n) \subseteq Nat
  BY DEF Behind

\* The changes a task goes through keep its shape.
LEMMA TaskTyped ==
  ASSUME TypeOK, NEW c \in Consumer
  PROVE  /\ task[c].stage \in Stage /\ task[c].offset \in Nat
         /\ \A s \in Stage : [task EXCEPT ![c].stage = s] \in Tasks
         /\ \A s \in Stage, k \in Nat :
              [task EXCEPT ![c] = [stage |-> s, offset |-> k]] \in Tasks
         /\ [task EXCEPT ![c] = Idle] \in Tasks
         /\ <<"in", task[c].offset>> \in Document
         /\ <<"out", task[c].offset>> \in Document
<1>1. task[c] \in [stage : Stage, offset : Nat]
  BY DEF TypeOK, Tasks, Offset
<1>2. Idle \in [stage : Stage, offset : Nat]
  BY DEF Idle, Stage
<1>3. ASSUME NEW s \in Stage PROVE [task EXCEPT ![c].stage = s] \in Tasks
  BY <1>1 DEF TypeOK, Tasks, Offset
<1>4. ASSUME NEW t \in [stage : Stage, offset : Nat]
      PROVE  [task EXCEPT ![c] = t] \in Tasks
  BY DEF TypeOK, Tasks, Offset
<1>5. ASSUME NEW s \in Stage, NEW k \in Nat
      PROVE  [task EXCEPT ![c] = [stage |-> s, offset |-> k]] \in Tasks
  BY <1>4
<1> QED
  BY <1>1, <1>2, <1>3, <1>4, <1>5 DEF Document, Offset

\* Replies appended to the log are offsets.
LEMMA AppendTyped ==
  ASSUME TypeOK, NEW k \in Nat
  PROVE  Append(outbound, k) \in Seq(Offset)
  BY DEF TypeOK, Offset

\* Every step keeps the types of the variables.
LEMMA NextTyped == TypeOK /\ [Next]_vars => TypeOK'
<1> SUFFICES ASSUME TypeOK, [Next]_vars
             PROVE  TypeOK'
    OBVIOUS
<1>1. CASE UNCHANGED vars
  BY <1>1 DEF TypeOK, vars, consumers, records
<1>2. CASE Arrive
  BY <1>2 DEF TypeOK, Arrive, consumers, records
<1>3. ASSUME NEW c \in Consumer, Start(c) PROVE TypeOK'
  BY <1>3 DEF TypeOK, Start, records
<1>4. ASSUME NEW c \in Consumer, Assign(c) PROVE TypeOK'
  <2>1. skipped' \subseteq Offset
    BY <1>4, ResetTyped, BehindTyped DEF Assign, TypeOK, Offset
  <2> QED
    BY <1>4, <2>1, ResetTyped DEF TypeOK, Assign, Interrupted, records, Offset
<1>5. ASSUME NEW c \in Consumer, Fetch(c) PROVE TypeOK'
  <2>1. task' \in Tasks
    BY <1>5, TaskTyped DEF Fetch, Stage, TypeOK, Offset
  <2> QED
    BY <1>5, <2>1 DEF TypeOK, Fetch, records, Offset
<1>6. ASSUME NEW c \in Consumer, FetchMalformed(c) PROVE TypeOK'
  <2>1. task' \in Tasks
    BY <1>6, TaskTyped DEF FetchMalformed, Stage, TypeOK, Offset
  <2> QED
    BY <1>6, <2>1 DEF TypeOK, FetchMalformed, Offset
<1>7. ASSUME NEW c \in Consumer, AppendInbound(c) PROVE TypeOK'
  <2>1. task' \in Tasks
    BY <1>7, TaskTyped DEF AppendInbound, Goto, Stage
  <2> QED
    BY <1>7, <2>1, TaskTyped DEF TypeOK, AppendInbound, Offset
<1>8. ASSUME NEW c \in Consumer, TurnReplies(c) PROVE TypeOK'
  <2>1. task' \in Tasks
    BY <1>8, TaskTyped DEF TurnReplies, Goto, Stage
  <2> QED
    BY <1>8, <2>1 DEF TypeOK, TurnReplies, records
<1>9. ASSUME NEW c \in Consumer, AppendOutbound(c) PROVE TypeOK'
  <2>1. task' \in Tasks
    BY <1>9, TaskTyped DEF AppendOutbound, Goto, Stage
  <2> QED
    BY <1>9, <2>1, TaskTyped DEF TypeOK, AppendOutbound, Offset
<1>10. ASSUME NEW c \in Consumer, EndSilently(c) PROVE TypeOK'
  <2>1. task' \in Tasks
    BY <1>10, TaskTyped DEF EndSilently, Goto, Stage
  <2> QED
    BY <1>10, <2>1, TaskTyped DEF TypeOK, EndSilently, Offset
<1>11. ASSUME NEW c \in Consumer, PublishReply(c) PROVE TypeOK'
  <2>1. task' \in Tasks
    BY <1>11, TaskTyped DEF PublishReply, Goto, Stage
  <2> QED
    BY <1>11, <2>1, TaskTyped, AppendTyped DEF TypeOK, PublishReply, Published, Offset
<1>12. ASSUME NEW c \in Consumer, Commit(c) PROVE TypeOK'
  <2>1. task' \in Tasks
    BY <1>12, TaskTyped DEF Commit, Goto, Stage
  <2> QED
    BY <1>12, <2>1 DEF TypeOK, Commit, CommitPosition, records
<1>13. ASSUME NEW c \in Consumer, PublishFails(c) PROVE TypeOK'
  <2>1. task' \in Tasks
    BY <1>13, TaskTyped DEF PublishFails, Stop
  <2>2. outbound' \in Seq(Offset)
    BY <1>13, TaskTyped, AppendTyped DEF TypeOK, PublishFails
  <2>3. /\ mode' \in [Consumer -> {"down", "up", "stopped"}]
        /\ owner' \in Consumer \cup {Nobody} /\ interruptions' \in Nat
    BY <1>13 DEF TypeOK, PublishFails, Stop, Interrupted
  <2> QED
    BY <1>13, <2>1, <2>2, <2>3 DEF TypeOK, PublishFails
<1>14. ASSUME NEW c \in Consumer, CommitFails(c) PROVE TypeOK'
  <2>1. task' \in Tasks
    BY <1>14, TaskTyped DEF CommitFails, Stop
  <2> QED
    BY <1>14, <2>1 DEF TypeOK, CommitFails, CommitPosition, Stop, Interrupted, records
<1>15. ASSUME NEW c \in Consumer, Crash(c) PROVE TypeOK'
  <2>1. task' \in Tasks
    BY <1>15, TaskTyped DEF Crash
  <2> QED
    BY <1>15, <2>1 DEF TypeOK, Crash, Interrupted, records
<1> QED
  BY <1>1, <1>2, <1>3, <1>4, <1>5, <1>6, <1>7, <1>8, <1>9, <1>10, <1>11, <1>12,
     <1>13, <1>14, <1>15 DEF Next, Consume, Work

\* Every variable of the consumer group keeps its type (dispatcher.py, kafka.py).
THEOREM TypeCorrect == Spec => []TypeOK
<1>1. Init => TypeOK
  BY InitTyped
<1>2. TypeOK /\ [Next]_vars => TypeOK'
  BY NextTyped
<1> QED
  BY <1>1, <1>2, PTL DEF Spec

-----------------------------------------------------------------------------
(* No event is lost, and events are taken up in order *)

Done == settled \cup skipped
Working(c) == task[c].stage \notin {"idle", "commit"}
Held(c) == IF Working(c) THEN {task[c].offset} ELSE {}

\* The event under the owner's position that need not be behind is the one its
\* own task is working on.
OwnerInv == \A c \in Consumer : owner = c => Behind(position) \subseteq Done \cup Held(c)

\* Commits, positions and tasks stay within the log, and a commit never passes
\* the owner's position.
BoundInv ==
    /\ committed <= Len(inbound)
    /\ \A c \in Consumer : owner = c => committed <= position /\ position <= Len(inbound)
    /\ \A c \in Consumer : task[c].stage # "idle" => task[c].offset < Len(inbound)

\* A task in the commit stage has brought its event to an end.
OrderInv == NothingLost /\ InOrder /\ OwnerInv /\ BoundInv

LEMMA GotoEffect ==
  ASSUME TypeOK, NEW c \in Consumer, NEW s, Goto(c, s), NEW d \in Consumer
  PROVE  /\ task'[d].offset = task[d].offset
         /\ task'[d].stage = IF d = c THEN s ELSE task[d].stage
  BY DEF TypeOK, Tasks, Goto

LEMMA PutEffect ==
  ASSUME TypeOK, NEW c \in Consumer, NEW t, task' = [task EXCEPT ![c] = t],
         NEW d \in Consumer
  PROVE  task'[d] = IF d = c THEN t ELSE task[d]
  BY DEF TypeOK, Tasks

LEMMA InitOrder == Init => OrderInv
  BY DispatcherAssumption
  DEF Init, OrderInv, NothingLost, InOrder, OwnerInv, BoundInv, Behind, Idle,
      NoOffset, Nobody

\* Going on with an event keeps the order.
LEMMA MoveOrder ==
  ASSUME TypeOK, OrderInv, NEW c \in Consumer, Working(c),
         NEW s \in {"turn", "record", "publish"}, Goto(c, s),
         UNCHANGED <<inbound, committed, owner, position, settled, skipped>>
  PROVE  OrderInv'
<1>1. \A d \in Consumer : /\ task'[d].offset = task[d].offset
                          /\ task'[d].stage = IF d = c THEN s ELSE task[d].stage
  BY GotoEffect
<1>2. Done' = Done
  BY DEF Done
<1>3. \A d \in Consumer : Held(d)' = Held(d)
  BY <1>1 DEF Held, Working
<1>4. NothingLost' /\ OwnerInv'
  BY <1>2, <1>3 DEF OrderInv, NothingLost, OwnerInv
<1>5. InOrder' /\ BoundInv'
  BY <1>1, <1>2 DEF OrderInv, InOrder, BoundInv, Working, Done
<1> QED
  BY <1>4, <1>5 DEF OrderInv

\* So does bringing it to an end.
LEMMA SettleOrder ==
  ASSUME TypeOK, OrderInv, NEW c \in Consumer, Working(c), Goto(c, "commit"),
         settled' = settled \cup {task[c].offset},
         UNCHANGED <<inbound, committed, owner, position, skipped>>
  PROVE  OrderInv'
<1>1. \A d \in Consumer : /\ task'[d].offset = task[d].offset
                          /\ task'[d].stage = IF d = c THEN "commit" ELSE task[d].stage
  BY GotoEffect
<1>2. Done' = Done \cup {task[c].offset}
  BY DEF Done
<1>3. \A d \in Consumer : Done \cup Held(d) \subseteq Done' \cup Held(d)'
  BY <1>1, <1>2 DEF Held, Working
<1>4. NothingLost' /\ OwnerInv'
  BY <1>2, <1>3 DEF OrderInv, NothingLost, OwnerInv, Done
<1>5. InOrder' /\ BoundInv'
  BY <1>1, <1>2 DEF OrderInv, InOrder, BoundInv, Working, Done
<1> QED
  BY <1>4, <1>5 DEF OrderInv

\* And so does a consumer that leaves the group, whatever of its position it
\* has committed.
LEMMA LeaveOrder ==
  ASSUME TypeOK, OrderInv, NEW c \in Consumer,
         task' = [task EXCEPT ![c] = Idle],
         owner' = IF owner = c THEN Nobody ELSE owner,
         \/ committed' = committed
         \/ task[c].stage = "commit" /\ committed' = CommitPosition(c),
         UNCHANGED <<inbound, position, settled, skipped>>
  PROVE  OrderInv'
<1>1. \A d \in Consumer : task'[d] = IF d = c THEN Idle ELSE task[d]
  BY PutEffect
<1>2. Done' = Done
  BY DEF Done
<1>3. \A d \in Consumer : owner' = d => owner = d /\ d # c
  BY DispatcherAssumption
<1>4. OwnerInv'
  BY <1>1, <1>2, <1>3 DEF OrderInv, OwnerInv, Held, Working
<1>5. NothingLost'
  BY <1>2 DEF OrderInv, NothingLost, OwnerInv, Held, Working, CommitPosition, Done
<1>6. InOrder'
  BY <1>1, <1>2 DEF OrderInv, InOrder, Idle, Done
<1>7. BoundInv'
  BY <1>1, <1>3 DEF OrderInv, BoundInv, Idle, CommitPosition
<1> QED
  BY <1>4, <1>5, <1>6, <1>7 DEF OrderInv

LEMMA NextOrder == TypeOK /\ OrderInv /\ [Next]_vars => OrderInv'
<1> SUFFICES ASSUME TypeOK, OrderInv, [Next]_vars
             PROVE  OrderInv'
    OBVIOUS
<1> USE DEF OrderInv
<1>1. CASE UNCHANGED vars
  BY <1>1 DEF vars, consumers, records, NothingLost, InOrder, OwnerInv, BoundInv,
              Behind, Done, Held, Working
<1>2. CASE Arrive
  <2>1. Len(inbound') = Len(inbound) + 1 /\ Len(inbound) \in Nat
    BY <1>2 DEF Arrive, TypeOK
  <2>2. BoundInv'
    BY <1>2, <2>1 DEF Arrive, consumers, BoundInv, TypeOK, Offset, NoOffset, Tasks
  <2> QED
    BY <1>2, <2>2 DEF Arrive, consumers, records, NothingLost, InOrder, OwnerInv,
                      Done, Held, Working
<1>3. ASSUME NEW c \in Consumer, Start(c) PROVE OrderInv'
  BY <1>3 DEF Start, records, NothingLost, InOrder, OwnerInv, BoundInv, Done, Held,
              Working
<1>4. ASSUME NEW c \in Consumer, Assign(c) PROVE OrderInv'
  <2>1. Done \subseteq Done' /\ Behind(ResetPosition) \subseteq Done'
    BY <1>4 DEF Assign, Done, ResetPosition, NothingLost, records
  <2>2. NothingLost' /\ InOrder'
    BY <1>4, <2>1 DEF Assign, NothingLost, InOrder, Done
  <2>3. OwnerInv'
    BY <1>4, <2>1 DEF Assign, OwnerInv
  <2>4. Len(inbound) \in Nat
    BY DEF TypeOK
  <2>5. BoundInv'
    BY <1>4, <2>4 DEF Assign, BoundInv, ResetPosition, TypeOK, Offset, NoOffset, Nobody
  <2> QED
    BY <2>2, <2>3, <2>5
<1>5. ASSUME NEW c \in Consumer, Fetch(c) PROVE OrderInv'
  <2>1. Behind(position) \subseteq Done
    BY <1>5 DEF Fetch, CanFetch, At, OwnerInv, Held, Working
  <2>2. \A d \in Consumer : task'[d] = IF d = c
          THEN [stage |-> "append", offset |-> position] ELSE task[d]
    BY <1>5, PutEffect DEF Fetch
  <2>3. Behind(position') = Behind(position) \cup {position}
    BY <1>5 DEF Fetch, Behind, TypeOK, Offset
  <2>4. Done' = Done
    BY <1>5 DEF Fetch, Done, records
  <2>5. NothingLost'
    BY <1>5 DEF Fetch, NothingLost, records
  <2>6. InOrder'
    BY <1>5, <2>1, <2>2, <2>4 DEF InOrder, Done
  <2>7. OwnerInv'
    BY <1>5, <2>1, <2>2, <2>3, <2>4 DEF OwnerInv, Held, Working, Fetch, CanFetch
  <2>8. BoundInv'
    BY <1>5, <2>2 DEF BoundInv, Fetch, CanFetch, TypeOK, Offset, NoOffset
  <2> QED
    BY <2>5, <2>6, <2>7, <2>8
<1>6. ASSUME NEW c \in Consumer, FetchMalformed(c) PROVE OrderInv'
  <2>1. Behind(position) \subseteq Done
    BY <1>6 DEF FetchMalformed, CanFetch, At, OwnerInv, Held, Working
  <2>2. \A d \in Consumer : task'[d] = IF d = c
          THEN [stage |-> "commit", offset |-> position] ELSE task[d]
    BY <1>6, PutEffect DEF FetchMalformed
  <2>3. Behind(position') = Behind(position) \cup {position}
    BY <1>6 DEF FetchMalformed, Behind, TypeOK, Offset
  <2>4. Done' = Done \cup {position}
    BY <1>6 DEF FetchMalformed, Done
  <2>5. NothingLost'
    BY <1>6, <2>4 DEF FetchMalformed, NothingLost, Done
  <2>6. InOrder'
    BY <1>6, <2>1, <2>2, <2>4 DEF InOrder, Done
  <2>7. OwnerInv'
    BY <1>6, <2>1, <2>2, <2>3, <2>4 DEF OwnerInv, Held, Working, FetchMalformed, CanFetch
  <2>8. BoundInv'
    BY <1>6, <2>2 DEF BoundInv, FetchMalformed, CanFetch, TypeOK, Offset, NoOffset
  <2> QED
    BY <2>5, <2>6, <2>7, <2>8
<1>7. ASSUME NEW c \in Consumer, AppendInbound(c) PROVE OrderInv'
  BY <1>7, MoveOrder DEF AppendInbound, At, Working
<1>8. ASSUME NEW c \in Consumer, TurnReplies(c) PROVE OrderInv'
  BY <1>8, MoveOrder DEF TurnReplies, At, Working, records
<1>9. ASSUME NEW c \in Consumer, AppendOutbound(c) PROVE OrderInv'
  BY <1>9, MoveOrder DEF AppendOutbound, At, Working
<1>10. ASSUME NEW c \in Consumer, EndSilently(c) PROVE OrderInv'
  BY <1>10, SettleOrder DEF EndSilently, Working
<1>11. ASSUME NEW c \in Consumer, PublishReply(c) PROVE OrderInv'
  BY <1>11, SettleOrder DEF PublishReply, At, Working
<1>12. ASSUME NEW c \in Consumer, Commit(c) PROVE OrderInv'
  <2>1. \A d \in Consumer : /\ task'[d].offset = task[d].offset
                            /\ task'[d].stage = IF d = c THEN "idle" ELSE task[d].stage
    BY <1>12, GotoEffect DEF Commit
  <2>2. Done' = Done /\ \A d \in Consumer : Held(d)' = Held(d)
    BY <1>12, <2>1 DEF Commit, At, Done, Held, Working, records
  <2>3. NothingLost'
    BY <1>12, <2>2 DEF Commit, At, CommitPosition, NothingLost, OwnerInv, Held, Working, Done
  <2>4. OwnerInv'
    BY <1>12, <2>2 DEF Commit, OwnerInv
  <2>5. InOrder' /\ BoundInv'
    BY <1>12, <2>1, <2>2 DEF Commit, CommitPosition, InOrder, BoundInv, Done, TypeOK, Offset
  <2> QED
    BY <2>3, <2>4, <2>5
<1>13. ASSUME NEW c \in Consumer, PublishFails(c) PROVE OrderInv'
  <2>1. /\ task' = [task EXCEPT ![c] = Idle]
        /\ owner' = IF owner = c THEN Nobody ELSE owner
        /\ UNCHANGED <<inbound, position, settled, skipped>>
    BY <1>13 DEF PublishFails, Stop
  <2>2. committed' = committed
    BY <1>13 DEF PublishFails, Stop
  <2> QED
    BY <1>13, <2>1, <2>2, LeaveOrder
<1>14. ASSUME NEW c \in Consumer, CommitFails(c) PROVE OrderInv'
  <2>1. /\ task' = [task EXCEPT ![c] = Idle]
        /\ owner' = IF owner = c THEN Nobody ELSE owner
        /\ UNCHANGED <<inbound, position, settled, skipped>>
    BY <1>14 DEF CommitFails, Stop, At, records
  <2>2. task[c].stage = "commit" /\ committed' \in {committed, CommitPosition(c)}
    BY <1>14 DEF CommitFails, Stop, At, records
  <2> QED
    BY <1>14, <2>1, <2>2, LeaveOrder
<1>15. ASSUME NEW c \in Consumer, Crash(c) PROVE OrderInv'
  <2>1. /\ task' = [task EXCEPT ![c] = Idle]
        /\ owner' = IF owner = c THEN Nobody ELSE owner
        /\ UNCHANGED <<inbound, position, settled, skipped>>
    BY <1>15 DEF Crash, records
  <2>2. committed' = committed
    BY <1>15 DEF Crash, records
  <2> QED
    BY <1>15, <2>1, <2>2, LeaveOrder
<1> QED
  BY <1>1, <1>2, <1>3, <1>4, <1>5, <1>6, <1>7, <1>8, <1>9, <1>10, <1>11, <1>12,
     <1>13, <1>14, <1>15 DEF Next, Consume, Work

\* The committed offset never passes an event that no handler has brought to an
\* end (KafkaConsumer.run commits after the handler, kafka.py:163-165).
THEOREM NoEventLost == Spec => []NothingLost
<1>1. Init => TypeOK /\ OrderInv
  BY InitTyped, InitOrder
<1>2. (TypeOK /\ OrderInv) /\ [Next]_vars => (TypeOK /\ OrderInv)'
  BY NextTyped, NextOrder
<1>3. TypeOK /\ OrderInv => NothingLost
  BY DEF OrderInv
<1> QED
  BY <1>1, <1>2, <1>3, PTL DEF Spec

\* A tenant's events are worked on in order, also by a replica that has lost the
\* partition in the middle of a turn.
THEOREM TakenInOrder == Spec => []InOrder
<1>1. Init => TypeOK /\ OrderInv
  BY InitTyped, InitOrder
<1>2. (TypeOK /\ OrderInv) /\ [Next]_vars => (TypeOK /\ OrderInv)'
  BY NextTyped, NextOrder
<1>3. TypeOK /\ OrderInv => InOrder
  BY DEF OrderInv
<1> QED
  BY <1>1, <1>2, <1>3, PTL DEF Spec

-----------------------------------------------------------------------------
(* Replies are on record, and commits go forward *)

\* A reply on its way has its documents already.
RecordInv ==
    /\ RepliesRecorded
    /\ \A c \in Consumer :
         /\ task[c].stage \in {"turn", "record", "publish"} =>
                <<"in", task[c].offset>> \in thread
         /\ task[c].stage = "publish" => <<"out", task[c].offset>> \in thread

LEMMA AppendEffect ==
  ASSUME TypeOK, NEW k \in Nat, outbound' = Append(outbound, k)
  PROVE  /\ DOMAIN outbound' = DOMAIN outbound \cup {Len(outbound) + 1}
         /\ outbound'[Len(outbound) + 1] = k
         /\ \A i \in DOMAIN outbound : outbound'[i] = outbound[i]
  BY DEF TypeOK, Offset

\* Publishing the reply of a filed event keeps the record complete.
LEMMA ReplyRecorded ==
  ASSUME TypeOK, RecordInv, NEW c \in Consumer, task[c].stage = "publish",
         thread' = thread, outbound' = Append(outbound, task[c].offset)
  PROVE  RepliesRecorded'
<1>1. {"in", "out"} \X {task[c].offset} \subseteq thread
  <2>1. task[c].stage \in {"turn", "record", "publish"}
    OBVIOUS
  <2>2. <<"in", task[c].offset>> \in thread /\ <<"out", task[c].offset>> \in thread
    BY <2>1 DEF RecordInv
  <2> QED
    BY <2>2
<1>2. ASSUME NEW i \in DOMAIN outbound'
      PROVE  {"in", "out"} \X {outbound'[i]} \subseteq thread
  <2>1. CASE i = Len(outbound) + 1
    BY <1>1, <2>1, AppendEffect, TaskTyped
  <2>2. CASE i \in DOMAIN outbound
    <3>1. outbound'[i] = outbound[i]
      BY <2>2, AppendEffect, TaskTyped
    <3> QED
      BY <2>2, <3>1 DEF RecordInv, RepliesRecorded
  <2> QED
    BY <2>1, <2>2, AppendEffect, TaskTyped
<1>3. ASSUME NEW i \in DOMAIN outbound'
      PROVE  {"in", "out"} \X {outbound'[i]} \subseteq thread'
  BY <1>2
<1> QED
  BY <1>3 DEF RepliesRecorded

LEMMA NextRecorded == TypeOK /\ RecordInv /\ [Next]_vars => RecordInv'
<1> SUFFICES ASSUME TypeOK, RecordInv, [Next]_vars
             PROVE  RecordInv'
    OBVIOUS
<1> USE DEF RecordInv
<1>1. CASE UNCHANGED vars
  BY <1>1 DEF vars, consumers, records, RepliesRecorded
<1>2. CASE Arrive
  BY <1>2 DEF Arrive, consumers, records, RepliesRecorded
<1>3. ASSUME NEW c \in Consumer, Start(c) PROVE RecordInv'
  BY <1>3 DEF Start, records, RepliesRecorded
<1>4. ASSUME NEW c \in Consumer, Assign(c) PROVE RecordInv'
  BY <1>4 DEF Assign, records, RepliesRecorded
<1>5. ASSUME NEW c \in Consumer, Fetch(c) PROVE RecordInv'
  BY <1>5, PutEffect DEF Fetch, records, RepliesRecorded
<1>6. ASSUME NEW c \in Consumer, FetchMalformed(c) PROVE RecordInv'
  BY <1>6, PutEffect DEF FetchMalformed, RepliesRecorded
<1>7. ASSUME NEW c \in Consumer, AppendInbound(c) PROVE RecordInv'
  BY <1>7, GotoEffect DEF AppendInbound, RepliesRecorded
<1>8. ASSUME NEW c \in Consumer, TurnReplies(c) PROVE RecordInv'
  BY <1>8, GotoEffect DEF TurnReplies, At, records, RepliesRecorded
<1>9. ASSUME NEW c \in Consumer, AppendOutbound(c) PROVE RecordInv'
  BY <1>9, GotoEffect DEF AppendOutbound, At, RepliesRecorded
<1>10. ASSUME NEW c \in Consumer, EndSilently(c) PROVE RecordInv'
  BY <1>10, GotoEffect DEF EndSilently, RepliesRecorded
<1>11. ASSUME NEW c \in Consumer, PublishReply(c) PROVE RecordInv'
  <2>1. outbound' = Append(outbound, task[c].offset) /\ thread' = thread
    BY <1>11 DEF PublishReply, Published
  <2>2. RepliesRecorded'
    BY <1>11, <2>1, ReplyRecorded DEF PublishReply, At
  <2> QED
    BY <1>11, <2>1, <2>2, GotoEffect DEF PublishReply
<1>12. ASSUME NEW c \in Consumer, Commit(c) PROVE RecordInv'
  BY <1>12, GotoEffect DEF Commit, records, RepliesRecorded
<1>13. ASSUME NEW c \in Consumer, PublishFails(c) PROVE RecordInv'
  <2>1. \A d \in Consumer : task'[d] = IF d = c THEN Idle ELSE task[d]
    BY <1>13, PutEffect DEF PublishFails, Stop
  <2>2. thread' = thread /\ outbound' \in {outbound, Append(outbound, task[c].offset)}
    BY <1>13 DEF PublishFails
  <2>3. RepliesRecorded'
    BY <1>13, <2>2, ReplyRecorded DEF PublishFails, At, RepliesRecorded
  <2> QED
    BY <2>1, <2>2, <2>3 DEF Idle
<1>14. ASSUME NEW c \in Consumer, CommitFails(c) PROVE RecordInv'
  BY <1>14, PutEffect DEF CommitFails, Stop, Idle, records, RepliesRecorded
<1>15. ASSUME NEW c \in Consumer, Crash(c) PROVE RecordInv'
  BY <1>15, PutEffect DEF Crash, Idle, records, RepliesRecorded
<1> QED
  BY <1>1, <1>2, <1>3, <1>4, <1>5, <1>6, <1>7, <1>8, <1>9, <1>10, <1>11, <1>12,
     <1>13, <1>14, <1>15 DEF Next, Consume, Work

\* What the sender gets to see is in the conversation, behind the message it
\* answers (business/agent.py:60, 99-111).
THEOREM RepliesOnRecord == Spec => []RepliesRecorded
<1>1. Init => TypeOK /\ RecordInv
  BY InitTyped DEF Init, RecordInv, RepliesRecorded, Idle
<1>2. (TypeOK /\ RecordInv) /\ [Next]_vars => (TypeOK /\ RecordInv)'
  BY NextTyped, NextRecorded
<1>3. TypeOK /\ RecordInv => RepliesRecorded
  BY DEF RecordInv
<1> QED
  BY <1>1, <1>2, <1>3, PTL DEF Spec

-----------------------------------------------------------------------------
(* The replicas implement Consumption *)

LEMMA InitConsumption == Init => Events!Init
  BY DispatcherAssumption DEF Init, Events!Init

\* What brings an event to an end, answers it, or moves the checkpoint is a
\* step of Consumption; everything else is none.
LEMMA StepsConsumption ==
  TypeOK /\ OrderInv /\ [Next]_vars => [Events!Next]_Events!consumption
<1> SUFFICES ASSUME TypeOK, OrderInv, [Next]_vars
             PROVE  Events!Next \/ UNCHANGED Events!consumption
    OBVIOUS
<1> DEFINE Sent == {outbound[i] : i \in DOMAIN outbound}
<1>0. /\ \A n : Events!Before(n) = Behind(n)
      /\ \A k \in Nat : k < Len(inbound) => k \in Behind(Len(inbound))
  BY DEF Events!Before, Behind, TypeOK
<1>1. CASE UNCHANGED vars
  BY <1>1 DEF vars, consumers, records, Events!consumption
<1>2. CASE Arrive
  BY <1>2 DEF Arrive, records, Events!Publish, Events!Next, TypeOK
<1>3. ASSUME NEW c \in Consumer, Start(c) PROVE UNCHANGED Events!consumption
  BY <1>3 DEF Start, records, Events!consumption
<1>4. ASSUME NEW c \in Consumer, Assign(c)
      PROVE  Events!Next \/ UNCHANGED Events!consumption
  BY <1>4, <1>0 DEF Assign, ResetPosition, records, Events!PassOver, Events!Next,
                    Events!consumption
<1>5. ASSUME NEW c \in Consumer, Fetch(c) PROVE UNCHANGED Events!consumption
  BY <1>5 DEF Fetch, records, Events!consumption
<1>6. ASSUME NEW c \in Consumer, FetchMalformed(c) PROVE Events!End
  <2>1. position \in Behind(Len(inbound)) /\ Behind(position) \subseteq Done
    BY <1>6, <1>0 DEF FetchMalformed, CanFetch, At, OrderInv, OwnerInv, Held, Working,
                      TypeOK, Offset
  <2> QED
    BY <1>6, <1>0, <2>1 DEF FetchMalformed, Events!End, Events!Ready, Done
<1>7. ASSUME NEW c \in Consumer, AppendInbound(c) \/ TurnReplies(c) \/ AppendOutbound(c)
      PROVE  UNCHANGED Events!consumption
  BY <1>7 DEF AppendInbound, TurnReplies, AppendOutbound, records, Events!consumption
<1>8. \A c \in Consumer : task[c].stage # "idle" =>
        /\ task[c].offset \in Behind(Len(inbound))
        /\ Behind(task[c].offset) \subseteq settled \cup skipped
  BY <1>0, TaskTyped DEF OrderInv, InOrder, BoundInv
<1>9. ASSUME NEW c \in Consumer, EndSilently(c) PROVE Events!End
  BY <1>9, <1>0, <1>8 DEF EndSilently, Events!End, Events!Ready
<1>10. ASSUME NEW c \in Consumer, outbound' = Append(outbound, task[c].offset)
       PROVE  Sent' = Sent \cup {task[c].offset}
  BY <1>10, AppendEffect, TaskTyped
<1>11. ASSUME NEW c \in Consumer, PublishReply(c) PROVE Events!Answer
  <2>1. Sent' = Sent \cup {task[c].offset}
    BY <1>11, <1>10 DEF PublishReply, Published
  <2> QED
    BY <1>11, <1>0, <1>8, <2>1 DEF PublishReply, At, Events!Answer, Events!Ready
<1>12. ASSUME NEW c \in Consumer, PublishFails(c)
       PROVE  Events!Answer \/ UNCHANGED Events!consumption
  <2>1. CASE outbound' = outbound
    BY <1>12, <2>1 DEF PublishFails, Events!consumption
  <2>2. CASE outbound' = Append(outbound, task[c].offset)
    <3>1. Sent' = Sent \cup {task[c].offset}
      BY <2>2, <1>10
    <3> QED
      BY <1>12, <1>0, <1>8, <3>1 DEF PublishFails, At, Events!Answer, Events!Ready
  <2> QED
    BY <1>12, <2>1, <2>2 DEF PublishFails
<1>13. ASSUME NEW c \in Consumer, At(c, "commit"), committed' = CommitPosition(c),
              UNCHANGED <<inbound, outbound, settled, skipped>>
       PROVE  Events!Checkpoint \/ UNCHANGED Events!consumption
  <2>1. CASE owner # c
    BY <1>13, <2>1 DEF CommitPosition, Events!consumption
  <2>2. CASE owner = c
    <3>1. /\ position \in 0 .. Len(inbound) /\ position >= committed
          /\ Behind(position) \subseteq settled \cup skipped
      BY <1>13, <2>2 DEF At, OrderInv, OwnerInv, BoundInv, Held, Working, Done,
                         TypeOK, Offset, NoOffset
    <3> QED
      BY <1>13, <1>0, <2>2, <3>1 DEF CommitPosition, Events!Checkpoint
  <2> QED
    BY <2>1, <2>2
<1>14. ASSUME NEW c \in Consumer, Commit(c)
       PROVE  Events!Next \/ UNCHANGED Events!consumption
  BY <1>14, <1>13 DEF Commit, records, Events!Next
<1>15. ASSUME NEW c \in Consumer, CommitFails(c)
       PROVE  Events!Next \/ UNCHANGED Events!consumption
  <2>1. CASE committed' = committed
    BY <1>15, <2>1 DEF CommitFails, records, Events!consumption
  <2>2. CASE committed' = CommitPosition(c)
    BY <1>15, <2>2, <1>13 DEF CommitFails, records, Events!Next
  <2> QED
    BY <1>15, <2>1, <2>2 DEF CommitFails
<1>16. ASSUME NEW c \in Consumer, Crash(c) PROVE UNCHANGED Events!consumption
  BY <1>16 DEF Crash, records, Events!consumption
<1> QED
  BY <1>1, <1>2, <1>3, <1>4, <1>5, <1>6, <1>7, <1>9, <1>11, <1>12, <1>14, <1>15,
     <1>16 DEF Next, Consume, Work, Events!Next

\* The replicas together implement Consumption, whoever owns the partition.
THEOREM ConsumptionImplemented == Spec => ImplementsConsumption
<1>1. Init => TypeOK /\ OrderInv /\ Events!Init
  BY InitTyped, InitOrder, InitConsumption
<1>2. (TypeOK /\ OrderInv) /\ [Next]_vars => (TypeOK /\ OrderInv)'
  BY NextTyped, NextOrder
<1>3. (TypeOK /\ OrderInv) /\ [Next]_vars => [Events!Next]_Events!consumption
  BY StepsConsumption
<1> QED
  BY <1>1, <1>2, <1>3, PTL DEF Spec, ImplementsConsumption, Events!Spec

\* A commit never takes the group back, not even a late one of a replica that
\* has lost the partition (kafka.py:165).
THEOREM CommitsAdvance == Spec => CommitAdvances
<1>1. Init => TypeOK /\ OrderInv
  BY InitTyped, InitOrder
<1>2. (TypeOK /\ OrderInv) /\ [Next]_vars => (TypeOK /\ OrderInv)'
  BY NextTyped, NextOrder
<1>3. TypeOK /\ OrderInv /\ [Next]_vars => [committed' >= committed]_committed
  <2> SUFFICES ASSUME TypeOK, OrderInv, [Next]_vars, committed' # committed
               PROVE  committed' >= committed
      OBVIOUS
  <2>1. \E c \in Consumer : committed' = position /\ owner = c
    BY DEF Next, Consume, Work, Arrive, Start, Assign, Fetch, FetchMalformed,
           AppendInbound, TurnReplies, AppendOutbound, EndSilently, PublishReply,
           Commit, CommitPosition, PublishFails, CommitFails, Crash, vars
  <2> QED
    BY <2>1 DEF OrderInv, BoundInv, TypeOK, Offset, NoOffset
<1> QED
  BY <1>1, <1>2, <1>3, PTL DEF Spec, CommitAdvances

-----------------------------------------------------------------------------
(* Counting: the places of an entry in a log that only grows, and a finite *)
(* set that gains or loses a member.                                       *)

Places(log, e) == {i \in DOMAIN log : log[i] = e}

\* A part of a finite set is finite, and no larger.
LEMMA PartCounts ==
  ASSUME NEW B, IsFiniteSet(B), NEW A, A \subseteq B
  PROVE  /\ IsFiniteSet(A) /\ Cardinality(A) \in Nat /\ Cardinality(B) \in Nat
         /\ Cardinality(A) <= Cardinality(B)
  BY FS_Subset, FS_CardinalityType

\* A set that gains one member, or loses one.
LEMMA GainCounts ==
  ASSUME NEW A, IsFiniteSet(A), NEW x, x \notin A, NEW B, B = A \cup {x}
  PROVE  IsFiniteSet(B) /\ Cardinality(B) = Cardinality(A) + 1
  BY FS_AddElement

LEMMA LossCounts ==
  ASSUME NEW A, IsFiniteSet(A), NEW x \in A, NEW B, B = A \ {x}
  PROVE  /\ IsFiniteSet(B) /\ Cardinality(B) = Cardinality(A) - 1
         /\ Cardinality(B) \in Nat
  BY FS_RemoveElement, FS_CardinalityType

\* An entry has finitely many places in a log.
LEMMA PlacesCount ==
  ASSUME NEW S, NEW log \in Seq(S), NEW e
  PROVE  IsFiniteSet(Places(log, e)) /\ Cardinality(Places(log, e)) \in Nat
<1>1. Len(log) \in Nat /\ DOMAIN log = 1 .. Len(log)
  OBVIOUS
<1>2. IsFiniteSet(1 .. Len(log))
  BY <1>1, FS_Interval
<1>3. Places(log, e) \subseteq 1 .. Len(log)
  BY <1>1 DEF Places
<1> QED
  BY <1>2, <1>3, PartCounts

\* Appending an entry gives that entry one place more, and no other entry any.
LEMMA PlacesAppend ==
  ASSUME NEW S, NEW log \in Seq(S), NEW a \in S, NEW e
  PROVE  Cardinality(Places(Append(log, a), e)) =
           Cardinality(Places(log, e)) + (IF e = a THEN 1 ELSE 0)
<1> DEFINE n == Len(log) + 1  longer == Append(log, a)
<1>1. /\ DOMAIN longer = DOMAIN log \cup {n} /\ n \notin DOMAIN log
      /\ longer[n] = a /\ \A i \in DOMAIN log : longer[i] = log[i]
  OBVIOUS
<1>2. IsFiniteSet(Places(log, e)) /\ Cardinality(Places(log, e)) \in Nat
  BY PlacesCount
<1> HIDE DEF n, longer
<1>3. CASE e = a
  <2>1. Places(longer, e) = Places(log, e) \cup {n}
    BY <1>1, <1>3 DEF Places
  <2>2. n \notin Places(log, e)
    BY <1>1 DEF Places
  <2>3. Cardinality(Places(longer, e)) = Cardinality(Places(log, e)) + 1
    BY <1>2, <2>1, <2>2, GainCounts
  <2> QED
    BY <1>3, <2>3 DEF longer
<1>4. CASE e # a
  <2>1. Places(longer, e) = Places(log, e)
    BY <1>1, <1>4 DEF Places
  <2> QED
    BY <1>2, <1>4, <2>1 DEF longer
<1> QED
  BY <1>3, <1>4

-----------------------------------------------------------------------------
(* Second replies *)

\* The replicas that are answering the event at offset k; whether the partition
\* is where k can be fetched (again) without another interruption.
Trying(k) == {c \in Consumer : Working(c) /\ task[c].offset = k}
Open(k) == IF owner = Nobody \/ position <= k THEN 1 ELSE 0

\* Every reply, every attempt under way and the one to come has been paid for:
\* the first by the event itself, each other one by an interruption.
Attempts(k) == Answers(k) + Cardinality(Trying(k)) + Open(k)
AttemptInv == \A k \in Nat : IsFiniteSet(Trying(k)) /\ Attempts(k) <= 1 + interruptions

LEMMA AnswersPlaces == \A k : Answers(k) = Cardinality(Places(outbound, k))
  BY DEF Answers, Places

LEMMA CountsTyped ==
  ASSUME TypeOK, AttemptInv, NEW k \in Nat
  PROVE  /\ Answers(k) \in Nat /\ Cardinality(Trying(k)) \in Nat /\ Open(k) \in {0, 1}
         /\ IsFiniteSet(Trying(k)) /\ interruptions \in Nat
         /\ Answers(k) + Cardinality(Trying(k)) + Open(k) <= 1 + interruptions
<1>1. outbound \in Seq(Nat)
  BY DEF TypeOK, Offset
<1>2. Answers(k) \in Nat
  BY <1>1, AnswersPlaces, PlacesCount
<1>3. IsFiniteSet(Trying(k))
  BY DEF AttemptInv
<1>4. Cardinality(Trying(k)) \in Nat
  BY <1>3, PartCounts
<1> QED
  BY <1>2, <1>3, <1>4 DEF AttemptInv, Attempts, Open, TypeOK

\* A step that answers nothing and starts nothing, and pays for what it opens.
LEMMA IdleStep ==
  ASSUME TypeOK, AttemptInv, outbound' = outbound,
         \A k \in Nat : Trying(k)' \subseteq Trying(k),
         \/ /\ interruptions' = interruptions
            /\ \A k \in Nat : Open(k)' = 1 => Open(k) = 1
         \/ interruptions' = interruptions + 1
  PROVE  AttemptInv'
<1> SUFFICES ASSUME NEW k \in Nat
             PROVE  IsFiniteSet(Trying(k)') /\ Attempts(k)' <= 1 + interruptions'
  BY DEF AttemptInv
<1> DEFINE A == Trying(k)  B == Trying(k)'
<1>1. /\ Answers(k) \in Nat /\ Open(k) \in {0, 1} /\ IsFiniteSet(A) /\ interruptions \in Nat
      /\ Cardinality(A) \in Nat
      /\ Answers(k) + Cardinality(A) + Open(k) <= 1 + interruptions
  BY CountsTyped
<1>2. Answers(k)' = Answers(k) /\ Open(k)' \in {0, 1}
  BY DEF Answers, Open
<1>3. B \subseteq A
  OBVIOUS
<1>4. Attempts(k)' = Answers(k)' + Cardinality(B) + Open(k)'
  BY DEF Attempts
<1> HIDE DEF A, B
<1>5. IsFiniteSet(B) /\ Cardinality(B) \in Nat /\ Cardinality(B) <= Cardinality(A)
  BY <1>1, <1>3, PartCounts
<1>6. Attempts(k)' <= 1 + interruptions'
  BY <1>1, <1>2, <1>4, <1>5
<1> QED
  BY <1>5, <1>6 DEF B

\* What a task's next stage makes of the attempts.
LEMMA TryingGoto ==
  ASSUME TypeOK, NEW c \in Consumer, NEW s, Goto(c, s), NEW k
  PROVE  /\ s \in {"idle", "commit"} => Trying(k)' = Trying(k) \ {c}
         /\ s \notin {"idle", "commit"} /\ Working(c) => Trying(k)' = Trying(k)
  BY GotoEffect DEF Trying, Working

LEMMA TryingIdle ==
  ASSUME TypeOK, NEW c \in Consumer, task' = [task EXCEPT ![c] = Idle], NEW k
  PROVE  Trying(k)' = Trying(k) \ {c}
<1>1. \A d \in Consumer : task'[d] = IF d = c THEN Idle ELSE task[d]
  BY PutEffect
<1>2. \A d \in Consumer : Working(d)' = (d # c /\ Working(d))
  BY <1>1 DEF Working, Idle
<1> QED
  BY <1>1, <1>2 DEF Trying

\* The reply of a task that is through with its event, one way or the other.
LEMMA ReplyCounts ==
  ASSUME TypeOK, AttemptInv, NEW c \in Consumer, At(c, "publish"),
         outbound' = Append(outbound, task[c].offset),
         \A k \in Nat : Trying(k)' = Trying(k) \ {c},
         \/ /\ interruptions' = interruptions
            /\ \A k \in Nat : Open(k)' = 1 => Open(k) = 1
         \/ interruptions' = interruptions + 1
  PROVE  AttemptInv'
<1> SUFFICES ASSUME NEW k \in Nat
             PROVE  IsFiniteSet(Trying(k)') /\ Attempts(k)' <= 1 + interruptions'
  BY DEF AttemptInv
<1> DEFINE A == Trying(k)  B == Trying(k)'  o == task[c].offset
<1>1. /\ Answers(k) \in Nat /\ Open(k) \in {0, 1} /\ IsFiniteSet(A) /\ interruptions \in Nat
      /\ Cardinality(A) \in Nat
      /\ Answers(k) + Cardinality(A) + Open(k) <= 1 + interruptions
  BY CountsTyped
<1>2. Open(k)' \in {0, 1}
  BY DEF Open
<1>3. B = A \ {c} /\ (k = o => c \in A)
  BY DEF Trying, At, Working
<1>4. Attempts(k)' = Answers(k)' + Cardinality(B) + Open(k)'
  BY DEF Attempts
<1>5. Answers(k)' = Answers(k) + (IF k = o THEN 1 ELSE 0)
  <2>1. Answers(k)' = Cardinality(Places(outbound', k))
    BY DEF Answers, Places
  <2>2. outbound \in Seq(Nat) /\ o \in Nat
    BY TaskTyped DEF TypeOK, Offset
  <2> HIDE DEF o
  <2>3. Cardinality(Places(Append(outbound, o), k)) =
          Cardinality(Places(outbound, k)) + (IF k = o THEN 1 ELSE 0)
    BY <2>2, PlacesAppend
  <2> QED
    BY <2>1, <2>3, AnswersPlaces DEF o
<1> HIDE DEF A, B, o
<1>6. /\ IsFiniteSet(B) /\ Cardinality(B) \in Nat
      /\ Cardinality(B) + (IF k = o THEN 1 ELSE 0) <= Cardinality(A)
  <2>1. CASE k = o
    BY <1>1, <1>3, <2>1, LossCounts
  <2>2. CASE k # o
    BY <1>1, <1>3, <2>2, PartCounts
  <2> QED
    BY <2>1, <2>2
<1>7. Attempts(k)' <= 1 + interruptions'
  BY <1>1, <1>2, <1>4, <1>5, <1>6
<1> QED
  BY <1>6, <1>7 DEF B

LEMMA AttemptNext == TypeOK /\ AttemptInv /\ [Next]_vars => AttemptInv'
<1> SUFFICES ASSUME TypeOK, AttemptInv, [Next]_vars
             PROVE  AttemptInv'
    OBVIOUS
<1>1. CASE UNCHANGED vars
  <2>1. /\ outbound' = outbound /\ interruptions' = interruptions
        /\ \A k : Trying(k)' = Trying(k) /\ Open(k)' = Open(k)
    BY <1>1 DEF vars, consumers, records, Trying, Working, Open
  <2> QED
    BY <2>1, IdleStep
<1>2. ASSUME Arrive \/ \E c \in Consumer : Start(c) PROVE AttemptInv'
  <2>1. /\ outbound' = outbound /\ interruptions' = interruptions
        /\ \A k : Trying(k)' = Trying(k) /\ Open(k)' = Open(k)
    BY <1>2 DEF Arrive, Start, consumers, records, Trying, Working, Open
  <2> QED
    BY <2>1, IdleStep
<1>3. ASSUME NEW c \in Consumer, Assign(c) PROVE AttemptInv'
  <2>1. outbound' = outbound /\ \A k : Trying(k)' = Trying(k)
    BY <1>3 DEF Assign, records, Trying, Working
  <2>2. CASE owner = Nobody
    <3>1. interruptions' = interruptions /\ \A k : Open(k) = 1
      BY <1>3, <2>2 DEF Assign, Open
    <3> QED
      BY <2>1, <3>1, IdleStep
  <2>3. CASE owner # Nobody
    <3>1. interruptions' = interruptions + 1
      BY <1>3, <2>3 DEF Assign, Interrupted
    <3> QED
      BY <2>1, <3>1, IdleStep
  <2> QED
    BY <2>2, <2>3
<1>4. ASSUME NEW c \in Consumer, Fetch(c) PROVE AttemptInv'
  <2>1. /\ owner = c /\ owner # Nobody /\ ~Working(c) /\ position \in Nat
        /\ position' = position + 1 /\ owner' = owner
        /\ outbound' = outbound /\ interruptions' = interruptions
    BY <1>4, DispatcherAssumption
    DEF Fetch, CanFetch, At, Working, TypeOK, Offset, records
  <2>2. \A d \in Consumer : task'[d] = IF d = c
          THEN [stage |-> "append", offset |-> position] ELSE task[d]
    BY <1>4, PutEffect DEF Fetch
  <2> SUFFICES ASSUME NEW k \in Nat
               PROVE  IsFiniteSet(Trying(k)') /\ Attempts(k)' <= 1 + interruptions'
    BY DEF AttemptInv
  <2> DEFINE A == Trying(k)  B == Trying(k)'
  <2>3. /\ Answers(k) \in Nat /\ Open(k) \in {0, 1} /\ IsFiniteSet(A)
        /\ interruptions \in Nat /\ Cardinality(A) \in Nat
        /\ Answers(k) + Cardinality(A) + Open(k) <= 1 + interruptions
    BY CountsTyped
  <2>4. Answers(k)' = Answers(k)
    BY <2>1 DEF Answers
  <2>5. Attempts(k)' = Answers(k)' + Cardinality(B) + Open(k)'
    BY DEF Attempts
  <2>6. c \notin A /\ B = IF k = position THEN A \cup {c} ELSE A
    BY <2>1, <2>2 DEF Trying, Working
  <2>7. /\ Open(k) = IF position <= k THEN 1 ELSE 0
        /\ Open(k)' = IF position + 1 <= k THEN 1 ELSE 0
    BY <2>1 DEF Open
  <2> HIDE DEF A, B
  <2>8. /\ IsFiniteSet(B) /\ Cardinality(B) \in Nat
        /\ Cardinality(B) = Cardinality(A) + (IF k = position THEN 1 ELSE 0)
    <3>1. CASE k = position
      BY <2>3, <2>6, <3>1, GainCounts, PartCounts
    <3>2. CASE k # position
      BY <2>3, <2>6, <3>2
    <3> QED
      BY <3>1, <3>2
  <2>9. Open(k)' + (IF k = position THEN 1 ELSE 0) <= Open(k) /\ Open(k)' \in {0, 1}
    BY <2>1, <2>7
  <2>10. Attempts(k)' <= 1 + interruptions'
    BY <2>1, <2>3, <2>4, <2>5, <2>8, <2>9
  <2> QED
    BY <2>8, <2>10 DEF B
<1>5. ASSUME NEW c \in Consumer, FetchMalformed(c) PROVE AttemptInv'
  <2>1. \A d \in Consumer : task'[d] = IF d = c
          THEN [stage |-> "commit", offset |-> position] ELSE task[d]
    BY <1>5, PutEffect DEF FetchMalformed
  <2>2. \A k \in Nat : Trying(k)' \subseteq Trying(k)
    BY <2>1 DEF Trying, Working
  <2>3. \A k \in Nat : Open(k)' = 1 => Open(k) = 1
    BY <1>5 DEF FetchMalformed, Open, TypeOK, Offset
  <2> QED
    BY <1>5, <2>2, <2>3, IdleStep DEF FetchMalformed
<1>6. ASSUME NEW c \in Consumer,
             \/ AppendInbound(c) \/ TurnReplies(c) \/ AppendOutbound(c)
             \/ EndSilently(c) \/ Commit(c)
      PROVE  AttemptInv'
  <2>1. /\ UNCHANGED <<owner, position, outbound, interruptions>>
        /\ \E s \in Stage : Goto(c, s) /\ (s \in {"idle", "commit"} \/ Working(c))
    BY <1>6 DEF AppendInbound, TurnReplies, AppendOutbound, EndSilently, Commit, At,
                Working, Stage, records
  <2>2. \A k \in Nat : Trying(k)' \subseteq Trying(k)
    BY <2>1, TryingGoto
  <2>3. \A k : Open(k)' = Open(k)
    BY <2>1 DEF Open
  <2> QED
    BY <2>1, <2>2, <2>3, IdleStep
<1>7. ASSUME NEW c \in Consumer, PublishReply(c) PROVE AttemptInv'
  <2>1. /\ At(c, "publish") /\ outbound' = Append(outbound, task[c].offset)
        /\ Goto(c, "commit") /\ UNCHANGED <<owner, position, interruptions>>
    BY <1>7 DEF PublishReply, Published
  <2>2. \A k \in Nat : Trying(k)' = Trying(k) \ {c}
    BY <2>1, TryingGoto
  <2>3. \A k : Open(k)' = Open(k)
    BY <2>1 DEF Open
  <2> QED
    BY <2>1, <2>2, <2>3, ReplyCounts
<1>8. ASSUME NEW c \in Consumer, PublishFails(c) PROVE AttemptInv'
  <2>1. /\ At(c, "publish") /\ interruptions' = interruptions + 1
        /\ task' = [task EXCEPT ![c] = Idle]
        /\ outbound' \in {outbound, Append(outbound, task[c].offset)}
    BY <1>8 DEF PublishFails, Stop, Interrupted
  <2>2. \A k \in Nat : Trying(k)' = Trying(k) \ {c}
    BY <2>1, TryingIdle
  <2>3. CASE outbound' = outbound
    BY <2>1, <2>2, <2>3, IdleStep
  <2>4. CASE outbound' = Append(outbound, task[c].offset)
    BY <2>1, <2>2, <2>4, ReplyCounts
  <2> QED
    BY <2>1, <2>3, <2>4
<1>9. ASSUME NEW c \in Consumer, CommitFails(c) \/ Crash(c) PROVE AttemptInv'
  <2>1. /\ outbound' = outbound /\ interruptions' = interruptions + 1
        /\ task' = [task EXCEPT ![c] = Idle]
    BY <1>9 DEF CommitFails, Crash, Stop, Interrupted, records
  <2>2. \A k \in Nat : Trying(k)' \subseteq Trying(k)
    BY <2>1, TryingIdle
  <2> QED
    BY <2>1, <2>2, IdleStep
<1> QED
  BY <1>1, <1>2, <1>3, <1>4, <1>5, <1>6, <1>7, <1>8, <1>9 DEF Next, Consume, Work

LEMMA InitAttempts == Init => AttemptInv
<1> SUFFICES ASSUME Init, NEW k \in Nat
             PROVE  IsFiniteSet(Trying(k)) /\ Attempts(k) <= 1 + interruptions
  BY DEF AttemptInv
<1>1. Trying(k) = {} /\ {i \in DOMAIN outbound : outbound[i] = k} = {}
  BY DEF Init, Trying, Working, Idle
<1>2. Answers(k) = 0 /\ Cardinality(Trying(k)) = 0 /\ IsFiniteSet(Trying(k))
  BY <1>1, FS_EmptySet DEF Answers
<1>3. Open(k) \in {0, 1} /\ interruptions = 0
  BY DEF Open, Init
<1> QED
  BY <1>2, <1>3 DEF Attempts

\* A customer is answered again only for a crash, a rebalance or a broker error,
\* each of which costs one more reply at most (dispatcher.py:27-61,
\* kafka.py:163-165).
THEOREM SecondRepliesExplained == Spec => []DuplicatesExplained
<1>1. Init => TypeOK /\ AttemptInv
  BY InitTyped, InitAttempts
<1>2. (TypeOK /\ AttemptInv) /\ [Next]_vars => (TypeOK /\ AttemptInv)'
  BY NextTyped, AttemptNext
<1>3. TypeOK /\ AttemptInv => DuplicatesExplained
  <2> SUFFICES ASSUME TypeOK, AttemptInv, NEW k \in Behind(Len(inbound))
               PROVE  Answers(k) <= 1 + interruptions
    BY DEF DuplicatesExplained
  <2>1. k \in Nat
    BY DEF Behind, TypeOK
  <2>2. /\ Answers(k) \in Nat /\ Cardinality(Trying(k)) \in Nat /\ Open(k) \in {0, 1}
        /\ Answers(k) + Cardinality(Trying(k)) + Open(k) <= 1 + interruptions
        /\ interruptions \in Nat
    BY <2>1, CountsTyped
  <2> QED
    BY <2>2
<1> QED
  BY <1>1, <1>2, <1>3, PTL DEF Spec

-----------------------------------------------------------------------------

\* In order and without gaps, for any replicas and interruptions (kafka.py).
THEOREM DeliveryInvariant == Spec => []DeliveryInv
  BY TypeCorrect, NoEventLost, TakenInOrder, PTL DEF DeliveryInv
=============================================================================
