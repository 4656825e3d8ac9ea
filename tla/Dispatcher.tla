----------------------------- MODULE Dispatcher -----------------------------
(***************************************************************************)
(* The orchestrator's replicas consuming one tenant's partition of         *)
(* veda.messages.inbound (dispatcher.py and KafkaConsumer of kafka.py).    *)
(*                                                                         *)
(* Every replica runs one consumer task: fetch an event, handle it to the  *)
(* end, publish the reply, commit the position.  A handler's exception is  *)
(* swallowed; an exception of the publish or of the commit ends the task   *)
(* for as long as the process lives.  The broker may move the partition at *)
(* any time, and the replica that held it goes on with its event.          *)
(*                                                                         *)
(* Offsets count from 0: an event at offset k is inbound[k + 1], and a     *)
(* position or commit p means that the events before offset p are behind.  *)
(***************************************************************************)
EXTENDS Integers, Sequences, FiniteSets

CONSTANTS
    Consumer,          \* the replicas' consumer tasks
    Event,             \* inbound events
    Malformed,         \* those that do not fit the consumer's schema
    InitialCommit,     \* what the group has committed: an offset or NoOffset
    MaxEvents,         \* bound on the length of the inbound log
    MaxInterruptions   \* bound on crashes, rebalances and broker errors

NoOffset == -1
Nobody == "nobody"

ASSUME DispatcherAssumption ==
    /\ Nobody \notin Consumer
    /\ Malformed \subseteq Event
    /\ InitialCommit \in {NoOffset, 0}
    /\ MaxEvents \in Nat /\ MaxInterruptions \in Nat

VARIABLES
    inbound,       \* the partition of veda.messages.inbound
    committed,     \* the group's committed offset
    owner,         \* the consumer the partition is assigned to
    position,      \* the owner's next offset to fetch
    mode,          \* "down", "up", or "stopped": run() has raised
    task,          \* what each consumer task is doing
    thread,        \* the conversation's documents in `messages`
    outbound,      \* replies on veda.messages.outbound, by inbound offset
    settled,       \* offsets some handler has brought to an end
    skipped,       \* offsets passed over by a reset to the log's end
    interruptions

consumers == <<owner, position, mode, task>>
records == <<thread, outbound, settled>>
vars == <<inbound, committed, consumers, records, skipped, interruptions>>

-----------------------------------------------------------------------------

Stage == {"idle", "append", "turn", "record", "publish", "commit"}
Idle == [stage |-> "idle", offset |-> 0]

Init ==
    /\ inbound = <<>>
    /\ committed = InitialCommit
    /\ owner = Nobody /\ position = 0
    /\ mode = [c \in Consumer |-> "down"]
    /\ task = [c \in Consumer |-> Idle]
    /\ thread = {} /\ outbound = <<>>
    /\ settled = {} /\ skipped = {}
    /\ interruptions = 0

Behind(n) == 0 .. n - 1    \* the offsets a position has behind it
At(c, stage) == mode[c] = "up" /\ task[c].stage = stage
Goto(c, stage) == task' = [task EXCEPT ![c].stage = stage]
Interrupted == /\ interruptions < MaxInterruptions
               /\ interruptions' = interruptions + 1

\* The edge publishes an event.
Arrive ==
    /\ Len(inbound) < MaxEvents
    /\ \E e \in Event : inbound' = Append(inbound, e)
    /\ UNCHANGED <<committed, consumers, records, skipped, interruptions>>

\* A pod starts and its consumer task joins the group.
Start(c) ==
    /\ mode[c] = "down"
    /\ mode' = [mode EXCEPT ![c] = "up"]
    /\ UNCHANGED <<inbound, committed, owner, position, task, records, skipped,
                   interruptions>>

\* auto_offset_reset="latest": without a commit reading starts at the end.
ResetPosition == IF committed = NoOffset THEN Len(inbound) ELSE committed

\* The group assigns the partition; from a living owner it is a rebalance.
Assign(c) ==
    /\ mode[c] = "up"
    /\ IF owner = Nobody THEN UNCHANGED interruptions ELSE Interrupted
    /\ owner' = c
    /\ position' = ResetPosition
    /\ skipped' = IF committed = NoOffset THEN skipped \cup Behind(ResetPosition)
                                         ELSE skipped
    /\ UNCHANGED <<inbound, committed, mode, task, records>>

\* The async iterator hands over the next event and moves the position.
CanFetch_ButLast(c) == owner = c /\ At(c, "idle") /\ position < Len(inbound) - 1
CanFetch(c) == owner = c /\ At(c, "idle") /\ position < Len(inbound)

Fetch(c) ==
    /\ CanFetch(c) /\ inbound[position + 1] \notin Malformed
    /\ task' = [task EXCEPT ![c] = [stage |-> "append", offset |-> position]]
    /\ position' = position + 1
    /\ UNCHANGED <<inbound, committed, owner, mode, records, skipped,
                   interruptions>>

\* An event that does not fit the schema is logged and behind.
FetchMalformed(c) ==
    /\ CanFetch(c) /\ inbound[position + 1] \in Malformed
    /\ task' = [task EXCEPT ![c] = [stage |-> "commit", offset |-> position]]
    /\ position' = position + 1
    /\ settled' = settled \cup {position}
    /\ UNCHANGED <<inbound, committed, owner, mode, thread, outbound, skipped,
                   interruptions>>

\* The agent's handler: the inbound text is filed, ...
AppendInbound(c) ==
    /\ At(c, "append")
    /\ thread' = thread \cup {<<"in", task[c].offset>>}
    /\ Goto(c, "turn")
    /\ UNCHANGED <<inbound, committed, owner, position, mode, outbound, settled,
                   skipped, interruptions>>

\* ... the turn runs and has something to say, ...
TurnReplies_Unfiled(c) ==
    /\ At(c, "turn")
    /\ Goto(c, "publish")
    /\ UNCHANGED <<inbound, committed, owner, position, mode, records, skipped,
                   interruptions>>
TurnReplies(c) ==
    /\ At(c, "turn")
    /\ Goto(c, "record")
    /\ UNCHANGED <<inbound, committed, owner, position, mode, records, skipped,
                   interruptions>>

\* ... and the reply is filed.
AppendOutbound(c) ==
    /\ At(c, "record")
    /\ thread' = thread \cup {<<"out", task[c].offset>>}
    /\ Goto(c, "publish")
    /\ UNCHANGED <<inbound, committed, owner, position, mode, outbound, settled,
                   skipped, interruptions>>

\* The handler returns None (no text, suspended, failed turn), or raises and
\* the dispatcher swallows it: either way the event is behind, without a reply.
EndSilently(c) ==
    /\ mode[c] = "up" /\ task[c].stage \in {"append", "turn", "record"}
    /\ settled' = settled \cup {task[c].offset}
    /\ Goto(c, "commit")
    /\ UNCHANGED <<inbound, committed, owner, position, mode, thread, outbound,
                   skipped, interruptions>>

Published_Retried(k) == {Append(outbound, k), Append(Append(outbound, k), k)}
Published(k) == {Append(outbound, k)}

PublishReply(c) ==
    /\ At(c, "publish")
    /\ outbound' \in Published(task[c].offset)
    /\ settled' = settled \cup {task[c].offset}
    /\ Goto(c, "commit")
    /\ UNCHANGED <<inbound, committed, owner, position, mode, thread, skipped,
                   interruptions>>

\* commit() writes the positions of the partitions the consumer has now.
CommitPosition_Offset(c) == task[c].offset + 1
CommitPosition_LogEnd(c) == IF owner = c THEN Len(inbound) ELSE committed
CommitPosition(c) == IF owner = c THEN position ELSE committed

Commit(c) ==
    /\ At(c, "commit")
    /\ committed' = CommitPosition(c)
    /\ Goto(c, "idle")
    /\ UNCHANGED <<inbound, owner, position, mode, records, skipped, interruptions>>

\* run() raises: the consumer leaves the group and the task is over.
Stop(c) ==
    /\ Interrupted
    /\ mode' = [mode EXCEPT ![c] = "stopped"]
    /\ task' = [task EXCEPT ![c] = Idle]
    /\ owner' = IF owner = c THEN Nobody ELSE owner

\* The producer raises, before or after the broker has taken the reply.
PublishFails_Swallowed(c) ==
    /\ At(c, "publish")
    /\ Goto(c, "commit")
    /\ UNCHANGED <<inbound, committed, owner, position, mode, records, skipped,
                   interruptions>>
PublishFails(c) ==
    /\ At(c, "publish")
    /\ outbound' \in {outbound, Append(outbound, task[c].offset)}
    /\ Stop(c)
    /\ UNCHANGED <<inbound, committed, position, thread, settled, skipped>>

CommitFails(c) ==
    /\ At(c, "commit")
    /\ committed' \in {committed, CommitPosition(c)}
    /\ Stop(c)
    /\ UNCHANGED <<inbound, position, records, skipped>>

\* The process dies or is replaced; a stopped one is not restarted for being
\* stopped, /healthz answers ok.
Crash(c) ==
    /\ Interrupted
    /\ mode[c] # "down"
    /\ mode' = [mode EXCEPT ![c] = "down"]
    /\ task' = [task EXCEPT ![c] = Idle]
    /\ owner' = IF owner = c THEN Nobody ELSE owner
    /\ UNCHANGED <<inbound, committed, position, records, skipped>>

Work(c) ==
    \/ Fetch(c) \/ FetchMalformed(c)
    \/ AppendInbound(c) \/ TurnReplies(c) \/ AppendOutbound(c)
    \/ EndSilently(c) \/ PublishReply(c) \/ Commit(c)

Consume == \E c \in Consumer :
    Start(c) \/ Assign(c) \/ Work(c) \/ PublishFails(c) \/ CommitFails(c) \/ Crash(c)

Next == Arrive \/ Consume

Spec == Init /\ [][Next]_vars

\* Kubernetes restarts a dead pod, the group hands an unowned partition to a
\* member, and a task whose await returns goes on.
Fairness == \A c \in Consumer :
    /\ WF_vars(Start(c))
    /\ WF_vars(owner = Nobody /\ Assign(c))
    /\ WF_vars(Work(c))

FairSpec == Spec /\ Fairness

-----------------------------------------------------------------------------
(* Properties *)

Offset == Nat
Tasks == [Consumer -> [stage : Stage, offset : Offset]]
Document == {"in", "out"} \X Offset

TypeOK ==
    /\ inbound \in Seq(Event)
    /\ committed \in Offset \cup {NoOffset}
    /\ owner \in Consumer \cup {Nobody} /\ position \in Offset
    /\ mode \in [Consumer -> {"down", "up", "stopped"}]
    /\ task \in Tasks
    /\ thread \subseteq Document
    /\ outbound \in Seq(Offset)
    /\ settled \subseteq Offset /\ skipped \subseteq Offset
    /\ interruptions \in Nat

\* No event is lost between the log and the handlers: whatever the replicas,
\* the broker and the network do, the committed offset only passes events that
\* a handler has brought to an end, or that a reset passed over.
NothingLost == Behind(committed) \subseteq settled \cup skipped

\* Per-tenant order: an event is worked on only when every earlier event of
\* the tenant has been brought to an end.
InOrder ==
    \A c \in Consumer : task[c].stage # "idle" =>
        Behind(task[c].offset) \subseteq settled \cup skipped

\* Events are delivered in order, and none is left out.
DeliveryInv == TypeOK /\ NothingLost /\ InOrder

Answers(k) == Cardinality({i \in DOMAIN outbound : outbound[i] = k})

\* A second reply to the same message has a cause: a crash, a rebalance or a
\* broker error since the first.
DuplicatesExplained ==
    \A k \in Behind(Len(inbound)) : Answers(k) <= 1 + interruptions

\* Every reply the sender will see is in the conversation the owner can read,
\* behind the message it answers.
RepliesRecorded ==
    \A i \in DOMAIN outbound : {"in", "out"} \X {outbound[i]} \subseteq thread

\* The committed offset never goes back, whoever commits and however late.
CommitAdvances == [][committed' >= committed]_committed

\* While some replica's consumer stays up, every event of the log is brought
\* to an end or was passed over by a reset.
ServedWhileUp ==
    \A c \in Consumer : \A k \in 0 .. MaxEvents - 1 :
        k < Len(inbound) ~> k \in settled \cup skipped \/ mode[c] # "up"

-----------------------------------------------------------------------------
(* Refinement *)

Events == INSTANCE Consumption WITH
    Unset      <- NoOffset,
    published  <- Len(inbound),
    done       <- settled,
    passed     <- skipped,
    answered   <- {outbound[i] : i \in DOMAIN outbound},
    checkpoint <- committed

\* The replicas together implement Consumption: events are taken up in order
\* and checkpoints pass only what is behind, whoever owns the partition.
ImplementsConsumption == Events!Spec

=============================================================================
