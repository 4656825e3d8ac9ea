------------------------------- MODULE Sender -------------------------------
(***************************************************************************)
(* The edge's outbound sender (sender.ts, templates.ts, canSendFreeform()  *)
(* and outbound() of the WhatsApp adapters, credentials.ts, consume() of   *)
(* kafka-client): two replicas consuming one tenant's partition of         *)
(* veda.messages.outbound.                                                 *)
(*                                                                         *)
(* A message is checked against the 24-hour window, given a template when  *)
(* the window is closed, and sent.  Whatever throws on the way makes the   *)
(* consumer run the same message again from the start, so nothing behind   *)
(* it moves.  Offsets are committed some time after messages are resolved. *)
(* Credentials are cached by each process and never dropped before it ends.*)
(*                                                                         *)
(* Offsets count from 0: the message at offset k is outbound[k + 1].       *)
(***************************************************************************)
EXTENDS Integers, Sequences, FiniteSets

CONSTANTS
    Replica,
    Customer,
    Message,           \* what may be on the topic
    Template,          \* the tenant's WhatsApp templates
    Utility,           \* those of category utility
    InitialCreds,      \* what may be saved of credentials at the start
    Adapters,          \* what WA_PROVIDER may be: "aisensy", "meta"
    MaxMessages,       \* bound on the length of the log
    MaxInterruptions,  \* bound on crashes, rebalances and lost answers
    MaxChanges         \* bound on what owner and provider change

NoTemplate == "none"

\* A message: text to be sent as it is, a template (a broadcast's), or one
\* that does not fit the consumer's schema; the template it prefers; if the
\* publisher named the number to send from; if the provider refuses it for
\* good, because of the recipient for instance.
MessageType == [kind : {"text", "template", "malformed"}, to : Customer,
                check : BOOLEAN, template : Template \cup {NoTemplate},
                source : BOOLEAN, refused : BOOLEAN]

CredsType == [tier : {"none", "campaign", "project"}, key : Nat]
NoCreds == [tier |-> "none", key |-> 0]

ASSUME SenderAssumption ==
    /\ Message \subseteq MessageType
    /\ InitialCreds \subseteq {NoCreds} \cup [tier : {"campaign", "project"}, key : {1}]
    /\ NoTemplate \notin Template /\ Utility \subseteq Template
    /\ Adapters \subseteq {"aisensy", "meta"}
    /\ "nobody" \notin Replica
    /\ MaxMessages \in Nat /\ MaxInterruptions \in Nat /\ MaxChanges \in Nat

VARIABLES
    adapter,       \* the WhatsApp adapter of the deployment
    outbound,      \* the partition of veda.messages.outbound
    committed,     \* the group's committed offset
    owner,         \* the replica the partition is assigned to
    position,      \* the owner's next offset to take
    task,          \* what each replica's consumer is doing
    window,        \* customers whose 24-hour window key is set
    approved,      \* approved templates
    saved,         \* the tenant's credentials in business.whatsapp_numbers
    cache,         \* each process' cached credentials
    key,           \* the key AiSensy accepts
    delivered,     \* offsets of the messages providers took
    outcome,       \* offsets brought to an end, and how
    interruptions, changes

group == <<committed, owner, position>>
world == <<window, approved, saved, key, changes>>
done == <<delivered, outcome>>
vars == <<adapter, outbound, group, task, world, cache, done, interruptions>>

-----------------------------------------------------------------------------

Idle == [stage |-> "idle", offset |-> 0, content |-> "text"]
Nobody == "nobody"

Init ==
    /\ adapter \in Adapters
    /\ outbound = <<>> /\ committed = 0 /\ owner = Nobody /\ position = 0
    /\ task = [r \in Replica |-> Idle]
    /\ window = {} /\ approved \in SUBSET Template /\ key = 1
    /\ saved \in InitialCreds
    /\ cache = [r \in Replica |-> NoCreds]
    /\ delivered = <<>> /\ outcome = {}
    /\ interruptions = 0 /\ changes = 0

At(r, stage) == task[r].stage = stage
Current(r) == outbound[task[r].offset + 1]
Interrupted == /\ interruptions < MaxInterruptions
               /\ interruptions' = interruptions + 1
Changed == changes < MaxChanges /\ changes' = changes + 1

\* findByTenantId: the process' copy, or the row, which is then kept.
Creds(r) == IF cache[r] # NoCreds THEN cache[r] ELSE saved
KeepCreds(r) == cache' = IF adapter = "aisensy" THEN [cache EXCEPT ![r] = Creds(r)]
                                                ELSE cache

-----------------------------------------------------------------------------
(* The world around the sender *)

\* The orchestrator or a broadcast publishes.
Publish ==
    /\ Len(outbound) < MaxMessages
    /\ \E m \in Message : outbound' = Append(outbound, m)
    /\ UNCHANGED <<adapter, group, task, world, cache, done, interruptions>>

\* A customer writes; 24 hours pass.
Write(c) ==
    /\ c \notin window /\ window' = window \cup {c}
    /\ UNCHANGED <<adapter, outbound, group, task, approved, saved, key, changes,
                   cache, done, interruptions>>
Expire(c) ==
    /\ c \in window /\ window' = window \ {c}
    /\ UNCHANGED <<adapter, outbound, group, task, approved, saved, key, changes,
                   cache, done, interruptions>>

\* A template's status is set to approved, or to another one.
SetStatus(t) ==
    /\ Changed
    /\ approved' = IF t \in approved THEN approved \ {t} ELSE approved \cup {t}
    /\ UNCHANGED <<adapter, outbound, group, task, window, saved, key, cache, done,
                   interruptions>>

\* The owner saves the integration, with the key AiSensy shows.
Save(tier) ==
    /\ adapter = "aisensy" /\ Changed
    /\ saved # [tier |-> tier, key |-> key]
    /\ saved' = [tier |-> tier, key |-> key]
    /\ UNCHANGED <<adapter, outbound, group, task, window, approved, key, cache,
                   done, interruptions>>

\* A new key at AiSensy; the old one is refused from now on.
Rotate ==
    /\ adapter = "aisensy" /\ Changed
    /\ key' = key + 1
    /\ UNCHANGED <<adapter, outbound, group, task, window, approved, saved, cache,
                   done, interruptions>>

\* A webhook of the tenant's project is handled by the process.
WebhookCaches(r) ==
    /\ adapter = "aisensy" /\ cache[r] = NoCreds /\ saved # NoCreds
    /\ KeepCreds(r)
    /\ UNCHANGED <<adapter, outbound, group, task, world, done, interruptions>>

World == \/ Publish \/ Rotate
         \/ \E c \in Customer : Write(c) \/ Expire(c)
         \/ \E t \in Template : SetStatus(t)
         \/ \E tier \in {"campaign", "project"} : Save(tier)
         \/ \E r \in Replica : WebhookCaches(r)

-----------------------------------------------------------------------------
(* The consumer group *)

\* The partition is assigned; from another replica it is a rebalance, and the
\* old owner goes on with its message.
Assign(r) ==
    /\ At(r, "idle") /\ owner # r
    /\ IF owner = Nobody THEN UNCHANGED interruptions ELSE Interrupted
    /\ owner' = r /\ position' = committed
    /\ UNCHANGED <<adapter, outbound, committed, task, world, cache, done>>

\* A task at the start of a message: a template needs no window check.
Begin(k) == [stage   |-> IF outbound[k + 1].kind = "text" THEN "check" ELSE "send",
             offset  |-> k,
             content |-> outbound[k + 1].kind]

Available(r) == owner = r /\ At(r, "idle") /\ position < Len(outbound)

Take(r) ==
    /\ Available(r) /\ outbound[position + 1].kind # "malformed"
    /\ task' = [task EXCEPT ![r] = Begin(position)]
    /\ position' = position + 1
    /\ UNCHANGED <<adapter, outbound, committed, owner, world, cache, done,
                   interruptions>>
SkipMalformed(r) ==
    /\ Available(r) /\ outbound[position + 1].kind = "malformed"
    /\ outcome' = outcome \cup {<<position, "malformed">>}
    /\ position' = position + 1
    /\ UNCHANGED <<adapter, outbound, committed, owner, task, world, cache,
                   delivered, interruptions>>

\* The resolved offsets are committed at the end of a batch, or when a handler
\* throws; the broker takes a commit of the current owner only.
Resolved_Taken(r) == position
Resolved(r) == IF At(r, "idle") THEN position ELSE task[r].offset

CommitOffsets(r) ==
    /\ owner = r /\ committed # Resolved(r)
    /\ committed' = Resolved(r)
    /\ UNCHANGED <<adapter, outbound, owner, position, task, world, cache, done,
                   interruptions>>

-----------------------------------------------------------------------------
(* sendOnce *)

Goto(r, stage) == task' = [task EXCEPT ![r].stage = stage]
\* The handler returns: the message is resolved.
Finish(r, how) == /\ outcome' = outcome \cup {<<task[r].offset, how>>}
                  /\ task' = [task EXCEPT ![r] = Idle]
\* The handler throws: the consumer runs the message again, unless the
\* partition has moved.
Again_Dropped(r) == task' = [task EXCEPT ![r] = Idle]
Again(r) ==
    task' = [task EXCEPT ![r] = IF owner = r THEN Begin(task[r].offset) ELSE Idle]

\* canSendFreeform: the window's key holds the number the message leaves from.
CanSendFreeform(r) ==
    LET m == Current(r) IN
      \/ ~m.check
      \/ /\ m.to \in window
         /\ IF adapter = "meta" THEN m.source ELSE Creds(r) # NoCreds

CheckWindow(r) ==
    /\ At(r, "check")
    /\ Goto(r, IF CanSendFreeform(r) THEN "send" ELSE "template")
    /\ IF Current(r).check THEN KeepCreds(r) ELSE UNCHANGED cache
    /\ UNCHANGED <<adapter, outbound, group, world, done, interruptions>>

\* lookupApprovedTemplate: the preferred one, or any approved utility template.
HasTemplate(r) == Current(r).template \in approved \/ approved \cap Utility # {}

UseTemplate(r) ==
    /\ At(r, "template") /\ HasTemplate(r)
    /\ task' = [task EXCEPT ![r].content = "template", ![r].stage = "send"]
    /\ UNCHANGED <<adapter, outbound, group, world, cache, done, interruptions>>
Drop_Throws(r) ==
    /\ At(r, "template") /\ ~HasTemplate(r)
    /\ Again(r)
    /\ UNCHANGED <<adapter, outbound, group, world, cache, done, interruptions>>
Drop(r) ==
    /\ At(r, "template") /\ ~HasTemplate(r)
    /\ Finish(r, "dropped")
    /\ UNCHANGED <<adapter, outbound, group, world, cache, delivered, interruptions>>

\* outbound(): Meta's needs the number to send from, AiSensy's credentials, ...
Configured(r) == IF adapter = "meta" THEN Current(r).source ELSE Creds(r) # NoCreds
\* ... the campaign API has no way to say a template, and reports success, ...
Unsupported(r) == /\ adapter = "aisensy" /\ Creds(r).tier = "campaign"
                  /\ task[r].content = "template"
\* ... and the provider decides by message and key.
Accepts(r) == /\ ~Current(r).refused
              /\ adapter = "aisensy" => Creds(r).key = key
Goes(r) == At(r, "send") /\ Configured(r) /\ ~Unsupported(r) /\ Accepts(r)
Delivered(r) == delivered' = Append(delivered, task[r].offset)

Send(r) ==
    /\ Goes(r) /\ KeepCreds(r) /\ Delivered(r) /\ Finish(r, "sent")
    /\ UNCHANGED <<adapter, outbound, group, world, interruptions>>

SkipSend(r) ==
    /\ At(r, "send") /\ Configured(r) /\ Unsupported(r)
    /\ KeepCreds(r) /\ Finish(r, "skipped")
    /\ UNCHANGED <<adapter, outbound, group, world, delivered, interruptions>>

Throws(r) ==
    /\ At(r, "send") /\ ~Goes(r) /\ ~(Configured(r) /\ Unsupported(r))
    /\ KeepCreds(r) /\ Again(r)
    /\ UNCHANGED <<adapter, outbound, group, world, done, interruptions>>

\* An await fails; the provider may have taken the message all the same.
Fails(r) ==
    /\ ~At(r, "idle") /\ Interrupted
    /\ UNCHANGED delivered \/ (Goes(r) /\ Delivered(r))
    /\ Again(r)
    /\ UNCHANGED <<adapter, outbound, group, world, cache, outcome>>

\* The process dies, in a request perhaps, and starts again.
Crash(r) ==
    /\ Interrupted
    /\ UNCHANGED delivered \/ (Goes(r) /\ Delivered(r))
    /\ task' = [task EXCEPT ![r] = Idle]
    /\ cache' = [cache EXCEPT ![r] = NoCreds]
    /\ owner' = IF owner = r THEN Nobody ELSE owner
    /\ UNCHANGED <<adapter, outbound, committed, position, world, outcome>>

Work(r) == \/ Take(r) \/ SkipMalformed(r) \/ CheckWindow(r) \/ UseTemplate(r)
           \/ Drop(r) \/ Send(r) \/ SkipSend(r) \/ Throws(r)

Next == \/ World
        \/ \E r \in Replica :
             Assign(r) \/ Work(r) \/ CommitOffsets(r) \/ Fails(r) \/ Crash(r)

Spec == Init /\ [][Next]_vars

\* The group hands out an unowned partition, and an await returns.
FairSpec == /\ Spec
            /\ \A r \in Replica : WF_vars(owner = Nobody /\ Assign(r)) /\ WF_vars(Work(r))

-----------------------------------------------------------------------------
(* Safety *)

Task == [stage : {"idle", "check", "template", "send"}, offset : Nat,
         content : {"text", "template"}]

\* Every variable has its type; a task's message is in the log.
TypeOK ==
    /\ adapter \in Adapters /\ outbound \in Seq(Message)
    /\ committed \in 0 .. Len(outbound) /\ position \in 0 .. Len(outbound)
    /\ owner \in Replica \cup {Nobody} /\ task \in [Replica -> Task]
    /\ \A r \in Replica : At(r, "idle") \/ task[r].offset < Len(outbound)
    /\ window \subseteq Customer /\ approved \subseteq Template
    /\ saved \in CredsType /\ cache \in [Replica -> CredsType] /\ key \in Nat
    /\ delivered \in Seq(Nat)
    /\ outcome \subseteq Nat \X {"sent", "skipped", "dropped", "malformed"}
    /\ interruptions \in 0 .. MaxInterruptions /\ changes \in 0 .. MaxChanges

Ended(k) == \E o \in outcome : o[1] = k
Copies(k) == {i \in DOMAIN delivered : delivered[i] = k}
IsFirst(i) == \A j \in Copies(delivered[i]) : i <= j

\* A customer reads a tenant's messages in the order of the log, although
\* replicas overlap and messages are sent again.  The first copy of a message
\* comes late only if another replica brought the message to an end unsent: it
\* found no template, or credentials that cannot send one.
FirstCopiesInOrder ==
    \A i, j \in DOMAIN delivered :
      IsFirst(i) /\ IsFirst(j) /\ i < j /\ delivered[i] > delivered[j]
        => {<<delivered[j], "dropped">>, <<delivered[j], "skipped">>} \cap outcome # {}

\* A message reaches its recipient again only for a crash, a rebalance or a
\* lost answer, and every one of these costs at most one more copy.
CopiesBounded ==
    \A k \in 0 .. MaxMessages - 1 : Cardinality(Copies(k)) <= 1 + interruptions

\* What customers are sent: in order, and again for a cause only.
SenderInv == TypeOK /\ FirstCopiesInOrder /\ CopiesBounded

Group == INSTANCE Consumption WITH
    Unset      <- -1,
    published  <- Len(outbound),
    done       <- {o[1] : o \in outcome},
    passed     <- {},
    answered   <- {delivered[i] : i \in DOMAIN delivered},
    checkpoint <- committed

\* The replicas together are an in-order consumer: a message is worked on when
\* all earlier ones have ended, and a commit passes only ended ones.
ImplementsConsumption == Group!Spec

-----------------------------------------------------------------------------
(* Liveness *)

\* What the partition's messages cannot get past.
Stuck(k) ==
    \/ outbound[k + 1].refused
    \/ adapter = "meta" /\ ~outbound[k + 1].source
    \/ adapter = "aisensy" /\ \E r \in Replica : Creds(r).key # key

\* Every message comes to an end, unless it, or one before it, is stuck: the
\* provider refuses it, no number to send from was named, or a process holds
\* credentials AiSensy does not accept.
ServedInTurn ==
    \A k \in 0 .. MaxMessages - 1 :
      k < Len(outbound) ~>
        Ended(k) \/ \E j \in 0 .. k : j < Len(outbound) /\ Stuck(j)

=============================================================================
