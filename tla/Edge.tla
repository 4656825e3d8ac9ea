-------------------------------- MODULE Edge --------------------------------
(***************************************************************************)
(* The edge's webhook handlers for one tenant (routes/webhooks-*.ts, the   *)
(* adapters' inbound(), resolvePrincipal): from a provider's delivery to   *)
(* events on veda.messages.inbound.                                        *)
(*                                                                         *)
(* A payload is a batch of items.  The handler answers 200, then claims    *)
(* every item's idempotency key, resolves its sender, translates it, and   *)
(* only when the whole batch is translated publishes the events one by     *)
(* one.  Requests run concurrently, on one replica between awaits and on   *)
(* two replicas at any time; what they share is Redis, Postgres and Kafka. *)
(* A provider delivers a payload again until it has seen a 200.  Retries   *)
(* are taken to end within the keys' 24 hours.                             *)
(***************************************************************************)
EXTENDS Integers, Sequences

CONSTANTS
    Request,           \* slots for requests being handled, over the replicas
    Customer,
    Known,             \* the customers who have a principal at the start
    Payload,           \* what providers deliver
    Via,               \* each payload's provider: "whatsapp" or "aisensy"
    Items,             \* each payload's items
    MaxDeliveries,     \* bound on the deliveries of one payload
    MaxInterruptions   \* bound on crashes and on failing awaits

\* An item: the idempotency key it is claimed by (WhatsApp's message id,
\* AiSensy's notification id), the message, who sent it, and what it is: a
\* "text", an "echo" of the business's own message (AiSensy), or a "sticker"
\* that has no translation.
Item == [mark : STRING, message : STRING, customer : Customer,
         kind : {"text", "echo", "sticker"}]

ASSUME EdgeAssumption ==
    /\ Known \subseteq Customer
    /\ \A p \in Payload :
         /\ Items[p] \in Seq(Item) /\ Items[p] # <<>>
         /\ \A i, j \in DOMAIN Items[p] :
              Items[p][i].mark = Items[p][j].mark => i = j
         /\ Via[p] \in {"whatsapp", "aisensy"}
         /\ \A q \in Payload : \A i \in DOMAIN Items[p], j \in DOMAIN Items[q] :
              Items[p][i].mark = Items[q][j].mark => p = q
    /\ MaxDeliveries \in Nat /\ MaxInterruptions \in Nat

VARIABLES
    deliveries,      \* how often each payload was delivered
    acked,           \* payloads whose 200 the provider has seen
    marked,          \* idempotency keys in Redis
    identifier,      \* each customer's principal in core.identifiers, 0: none
    principals,      \* how many principals were created for each customer
    window,          \* customers whose 24-hour window key is set
    req,             \* what each request is doing
    inbound,         \* the tenant's partition of veda.messages.inbound
    collisions,      \* inserts refused by UNIQUE (channel, identifier)
    interruptions

provider == <<deliveries, acked>>
identities == <<identifier, principals, collisions>>
vars == <<provider, marked, identities, window, req, inbound, interruptions>>

-----------------------------------------------------------------------------

Idle == [stage |-> "idle"]

Init ==
    /\ deliveries = [p \in Payload |-> 0] /\ acked = {}
    /\ marked = {} /\ window = {}
    /\ identifier = [c \in Customer |-> IF c \in Known THEN 1 ELSE 0]
    /\ principals = identifier
    /\ req = [r \in Request |-> Idle]
    /\ inbound = <<>>
    /\ collisions = 0 /\ interruptions = 0

At(r, stage) == req[r].stage = stage
Batch(r) == Items[req[r].payload]
Current(r) == Batch(r)[req[r].item]
IsLast(r) == req[r].item = Len(Batch(r))
Goto(r, stage) == req' = [req EXCEPT ![r].stage = stage]
Interrupted == /\ interruptions < MaxInterruptions
               /\ interruptions' = interruptions + 1

\* The provider delivers (again); the 200 is on its way before anything else,
\* and may be lost.
Deliver(r, p) ==
    /\ At(r, "idle") /\ p \notin acked
    /\ deliveries[p] < MaxDeliveries
    /\ deliveries' = [deliveries EXCEPT ![p] = @ + 1]
    /\ acked' \in {acked, acked \cup {p}}
    /\ req' = [req EXCEPT ![r] = [stage |-> "mark", payload |-> p, item |-> 1,
                                  principal |-> 0, out |-> <<>>]]
    /\ UNCHANGED <<marked, identities, window, inbound, interruptions>>

\* Done with an item: the next one, or the window keys.  AiSensy's adapter
\* returns without refreshing the window when it has nothing to pass on.
Done_NoWindow(r, out) ==
    req' = [req EXCEPT ![r] =
        IF ~IsLast(r)
        THEN [req[r] EXCEPT !.stage = "mark", !.item = req[r].item + 1,
                            !.out = out]
        ELSE [req[r] EXCEPT !.stage = "publish", !.out = out]]
Done_LastDropped(r, out) ==
    req' = [req EXCEPT ![r] =
        IF ~IsLast(r)
        THEN [req[r] EXCEPT !.stage = "mark", !.item = req[r].item + 1,
                            !.out = out]
        ELSE [req[r] EXCEPT !.stage = "window"]]
Done(r, out) ==
    req' = [req EXCEPT ![r] =
        IF ~IsLast(r)
        THEN [req[r] EXCEPT !.stage = "mark", !.item = req[r].item + 1,
                            !.out = out]
        ELSE [req[r] EXCEPT
                !.out = out,
                !.stage = IF Via[req[r].payload] = "aisensy" /\ out = <<>>
                          THEN "publish" ELSE "window"]]

\* SET NX of the idempotency key: the first to set it has the item.
Fresh_NotClaimed(r) == TRUE
Fresh(r) == Current(r).mark \notin marked

Mark(r) ==
    /\ At(r, "mark")
    /\ marked' = marked \cup {Current(r).mark}
    /\ IF Fresh(r) /\ Current(r).kind # "echo" THEN Goto(r, "resolve")
                                               ELSE Done(r, req[r].out)
    /\ UNCHANGED <<provider, identities, window, inbound, interruptions>>

\* The cache or the SELECT: a sender without an identifier is inserted.
Resolve(r) ==
    LET found == identifier[Current(r).customer] IN
    /\ At(r, "resolve")
    /\ req' = [req EXCEPT ![r].principal = found,
                          ![r].stage = IF found = 0 THEN "insert" ELSE "content"]
    /\ UNCHANGED <<provider, marked, identities, window, inbound, interruptions>>

\* Principal and identifier in one transaction.
Unclaimed_NoConstraint(c) == TRUE
Unclaimed(c) == identifier[c] = 0

Insert(r) ==
    LET c == Current(r).customer
        created == principals[c] + 1
    IN
    /\ At(r, "insert") /\ Unclaimed(c)
    /\ principals' = [principals EXCEPT ![c] = created]
    /\ identifier' = [identifier EXCEPT ![c] = created]
    /\ req' = [req EXCEPT ![r].principal = created, ![r].stage = "content"]
    /\ UNCHANGED <<provider, marked, window, inbound, collisions, interruptions>>

\* Another request has inserted the same sender since: the constraint's error
\* ends the translation, and the batch with it.
InsertRefused(r) ==
    /\ At(r, "insert") /\ ~Unclaimed(Current(r).customer)
    /\ collisions' = collisions + 1
    /\ req' = [req EXCEPT ![r] = Idle]
    /\ UNCHANGED <<provider, marked, identifier, principals, window, inbound,
                   interruptions>>

\* Media is fetched and stored; what has no translation is left out.
Event(r) == [mark |-> Current(r).mark, message |-> Current(r).message,
             customer |-> Current(r).customer,
             principal |-> req[r].principal]

Translate(r) ==
    /\ At(r, "content")
    /\ Done(r, IF Current(r).kind = "sticker" THEN req[r].out
                                              ELSE Append(req[r].out, Event(r)))
    /\ UNCHANGED <<provider, marked, identities, window, inbound, interruptions>>

\* The 24-hour window of everyone in the batch.
RefreshWindow(r) ==
    /\ At(r, "window")
    /\ window' = window \cup {Batch(r)[i].customer : i \in DOMAIN Batch(r)}
    /\ Goto(r, "publish")
    /\ UNCHANGED <<provider, marked, identities, inbound, interruptions>>

Publish_LatestFirst(r) ==
    LET out == req[r].out IN
    /\ At(r, "publish") /\ out # <<>>
    /\ inbound' = Append(inbound, out[Len(out)])
    /\ req' = [req EXCEPT ![r].out = SubSeq(out, 1, Len(out) - 1)]
    /\ UNCHANGED <<provider, marked, identities, window, interruptions>>
Publish(r) ==
    /\ At(r, "publish") /\ req[r].out # <<>>
    /\ inbound' = Append(inbound, Head(req[r].out))
    /\ req' = [req EXCEPT ![r].out = Tail(@)]
    /\ UNCHANGED <<provider, marked, identities, window, interruptions>>

\* An error of the publish is logged, whether or not the broker has the event.
PublishFails(r) ==
    /\ At(r, "publish") /\ req[r].out # <<>> /\ Interrupted
    /\ inbound' \in {inbound, Append(inbound, Head(req[r].out))}
    /\ req' = [req EXCEPT ![r].out = Tail(@)]
    /\ UNCHANGED <<provider, marked, identities, window>>

Finish_AfterFirst(r) ==
    /\ At(r, "publish")
    /\ req' = [req EXCEPT ![r] = Idle]
    /\ UNCHANGED <<provider, marked, identities, window, inbound, interruptions>>
Finish(r) ==
    /\ At(r, "publish") /\ req[r].out = <<>>
    /\ req' = [req EXCEPT ![r] = Idle]
    /\ UNCHANGED <<provider, marked, identities, window, inbound, interruptions>>

\* An await of inbound() raises and is logged, or the replica dies.
Lose(r) ==
    /\ ~At(r, "idle") /\ Interrupted
    /\ req' = [req EXCEPT ![r] = Idle]
    /\ UNCHANGED <<provider, marked, identities, window, inbound>>

Handle(r) == \/ Mark(r) \/ Resolve(r) \/ Insert(r) \/ InsertRefused(r)
             \/ Translate(r) \/ RefreshWindow(r) \/ Publish(r) \/ Finish(r)

Next == \/ \E r \in Request, p \in Payload : Deliver(r, p)
        \/ \E r \in Request : Handle(r) \/ PublishFails(r) \/ Lose(r)

Spec == Init /\ [][Next]_vars

\* Node runs every continuation whose await has returned.
FairSpec == Spec /\ \A r \in Request : WF_vars(Handle(r))

-----------------------------------------------------------------------------
(* Safety. *)

Published == [mark : STRING, message : STRING, customer : Customer, principal : Nat]
InFlight == [stage : {"mark", "resolve", "insert", "content", "window", "publish"},
             payload : Payload, item : Nat, principal : Nat, out : Seq(Published)]

\* Every variable has its type; a request's item is one of its batch.
TypeOK ==
    /\ deliveries \in [Payload -> 0 .. MaxDeliveries]
    /\ acked \subseteq Payload /\ marked \subseteq STRING
    /\ identifier \in [Customer -> Nat] /\ principals \in [Customer -> Nat]
    /\ window \subseteq Customer
    /\ req \in [Request -> {Idle} \cup InFlight]
    /\ \A r \in Request : ~At(r, "idle") => req[r].item \in DOMAIN Batch(r)
    /\ inbound \in Seq(Published)
    /\ collisions \in Nat /\ interruptions \in 0 .. MaxInterruptions

\* Deduplication works: no delivery, redelivery or pair of concurrent requests
\* puts two events of one idempotency key on the topic.
PublishedOnce ==
    \A i, j \in DOMAIN inbound : inbound[i].mark = inbound[j].mark => i = j

\* However many requests meet a new customer at once, one principal is made,
\* and every event of the customer carries it.
OnePrincipal ==
    /\ \A c \in Customer : principals[c] <= 1
    /\ \A i \in DOMAIN inbound :
         inbound[i].principal = identifier[inbound[i].customer]

\* One event for a message, and one principal for a customer.
EdgeInv == TypeOK /\ PublishedOnce /\ OnePrincipal

\* A batch that was delivered once is published in the order it came in (a
\* second delivery can overtake the first on the items it gets to claim).
BatchInOrder ==
    \A p \in Payload :
      deliveries[p] = 1 =>
        \A i, j \in DOMAIN inbound :
          \A m, n \in DOMAIN Items[p] :
            /\ inbound[i].mark = Items[p][m].mark
            /\ inbound[j].mark = Items[p][n].mark
            /\ m < n
            => i < j

\* When the orchestrator can see a message, the window for a freeform answer
\* to its sender has been opened.
WindowOpenForReply ==
    \A i \in DOMAIN inbound : inbound[i].customer \in window

MarksOf(events) == {events[i].mark : i \in DOMAIN events}
Carried(r) == IF At(r, "idle") THEN {} ELSE
    MarksOf(req[r].out) \cup
    (IF req[r].stage \in {"resolve", "insert", "content"} THEN {Current(r).mark} ELSE {})
Texts == {m \in UNION {{Items[p][i] : i \in DOMAIN Items[p]} : p \in Payload} :
            m.kind = "text"}
Missing == {m \in Texts : /\ m.mark \in marked \ MarksOf(inbound)
                          /\ \A r \in Request : m.mark \notin Carried(r)}

\* Without crashes and failing awaits, a claimed message that will never be
\* published was lost to the race of two first contacts: an insert was refused,
\* and someone in the message's own batch was new.
LossHasCause ==
    interruptions = 0 =>
      \A m \in Missing :
        /\ collisions > 0
        /\ \E p \in Payload : \E i, j \in DOMAIN Items[p] :
             Items[p][i] = m /\ Items[p][j].customer \notin Known

-----------------------------------------------------------------------------
(* Liveness. *)

\* What is delivered is published, though several requests may share the work
\* on it: the one that loses the claim leaves it to the one that made it.  Only
\* a crash, a failing await or a refused insert can leave a text out.
AllPublished ==
    \A p \in {q \in Payload : \E i \in DOMAIN Items[q] : Items[q][i] \in Texts} :
      deliveries[p] > 0 ~>
        \/ interruptions + collisions > 0
        \/ \A i \in DOMAIN Items[p] :
             Items[p][i].kind = "text" => Items[p][i].mark \in MarksOf(inbound)

=============================================================================
