------------------------------- MODULE Orders -------------------------------
(***************************************************************************)
(* order-service (main.py) for one tenant: its two endpoints, run by       *)
(* handlers on two replicas.                                               *)
(*                                                                         *)
(* transition() reads the order without a lock, checks the move, updates   *)
(* by id alone, commits, and then publishes the event.  Postgres runs at   *)
(* READ COMMITTED: a read sees what is committed, an UPDATE waits for the  *)
(* row and then writes whatever the row has become, so UPDATE and commit   *)
(* are one step here.  The event's text is what the handler read and what  *)
(* it wrote; `events` keeps the index of the commit it announces.          *)
(***************************************************************************)
EXTENDS Integers, Sequences, FiniteSets

CONSTANTS
    Handler,           \* requests being handled, over the replicas
    Order,
    MaxCommits,        \* bound on the moves made and under way
    MaxInterruptions   \* bound on crashes and broker errors

ASSUME OrdersAssumption == MaxCommits \in Nat /\ MaxInterruptions \in Nat

Status == {"created", "confirmed", "paid", "fulfilled", "closed", "cancelled",
           "refunded"}
Requested == Status \ {"created"}    \* what a transition may ask for

VALID_TRANSITIONS == [
    created   |-> {"confirmed", "cancelled"},
    confirmed |-> {"paid", "cancelled"},
    paid      |-> {"fulfilled", "refunded"},
    fulfilled |-> {"closed", "refunded"},
    closed    |-> {},
    cancelled |-> {},
    refunded  |-> {}]

VARIABLES
    status,         \* each order's row: a status, or "absent"
    history,        \* the commits: what each handler had read and wrote
    events,         \* the tenant's events on veda.orders
    req,            \* what each handler is doing
    interruptions

vars == <<status, history, events, req, interruptions>>

-----------------------------------------------------------------------------

Idle == [stage |-> "idle"]

Init ==
    /\ status = [o \in Order |-> "absent"]
    /\ history = <<>> /\ events = <<>>
    /\ req = [h \in Handler |-> Idle]
    /\ interruptions = 0

At(h, stage) == req[h].stage = stage
Updating == {h \in Handler : At(h, "update")}
HasRoom == Len(history) + Cardinality(Updating) < MaxCommits
Interrupted == /\ interruptions < MaxInterruptions
               /\ interruptions' = interruptions + 1

\* The commit, and the handler on its way to the event.
Commit(h, o, from, to, seen) ==
    /\ status' = [status EXCEPT ![o] = to]
    /\ history' = Append(history, [order |-> o, from |-> from, to |-> to,
                                   seen |-> seen])
    /\ req' = [req EXCEPT ![h] = [stage |-> "emit", commit |-> Len(history) + 1]]

\* create_order: the row, with the schema's default status.
Create(h, o) ==
    /\ At(h, "idle") /\ status[o] = "absent" /\ HasRoom
    /\ Commit(h, o, "absent", "created", Len(history))
    /\ UNCHANGED <<events, interruptions>>

\* transition: the SELECT; an unknown order is a 404, an illegal move a 409,
\* and both leave everything as it is.
Legal_AnyMove(o, to) == status[o] \in Status
Legal(o, to) == status[o] \in Status /\ to \in VALID_TRANSITIONS[status[o]]

Read(h, o, to) ==
    /\ At(h, "idle") /\ HasRoom
    /\ Legal(o, to)
    /\ req' = [req EXCEPT ![h] = [stage |-> "update", order |-> o, to |-> to,
                                  from |-> status[o], seen |-> Len(history)]]
    /\ UNCHANGED <<status, history, events, interruptions>>

\* The UPDATE by id, and the commit.
Update(h) ==
    /\ At(h, "update")
    /\ Commit(h, req[h].order, req[h].from, req[h].to, req[h].seen)
    /\ UNCHANGED <<events, interruptions>>

Emit(h) ==
    /\ At(h, "emit")
    /\ events' = Append(events, req[h].commit)
    /\ req' = [req EXCEPT ![h] = Idle]
    /\ UNCHANGED <<status, history, interruptions>>

\* The publish raises: the request ends in a 500, the commit stands, and the
\* broker may have the event all the same.
EmitFails_Retried(h) ==
    /\ At(h, "emit") /\ Interrupted
    /\ events' \in {events, Append(events, req[h].commit)}
    /\ UNCHANGED <<status, history, req>>
EmitFails(h) ==
    /\ At(h, "emit") /\ Interrupted
    /\ events' \in {events, Append(events, req[h].commit)}
    /\ req' = [req EXCEPT ![h] = Idle]
    /\ UNCHANGED <<status, history>>

\* The replica dies, or Postgres fails the transaction.
Crash(h) ==
    /\ ~At(h, "idle") /\ Interrupted
    /\ req' = [req EXCEPT ![h] = Idle]
    /\ UNCHANGED <<status, history, events>>

Next == \E h \in Handler :
          \/ \E o \in Order : Create(h, o)
          \/ \E o \in Order, to \in Requested : Read(h, o, to)
          \/ Update(h) \/ Emit(h) \/ EmitFails(h) \/ Crash(h)

Spec == Init /\ [][Next]_vars

-----------------------------------------------------------------------------
(* Safety. *)

Move == [order : Order, from : Status \cup {"absent"}, to : Status, seen : Nat]
Task == {Idle}
        \cup [stage : {"update"}, order : Order, from : Status, to : Status, seen : Nat]
        \cup [stage : {"emit"}, commit : Nat \ {0}]

\* Every variable has its type.
TypeOK ==
    /\ status \in [Order -> Status \cup {"absent"}]
    /\ history \in Seq(Move) /\ events \in Seq(Nat \ {0})
    /\ req \in [Handler -> Task]
    /\ interruptions \in 0 .. MaxInterruptions

\* When n commits had been made, order o had status s.
MovesOf(o, n) == {i \in 1 .. n : history[i].order = o}
Had(o, s, n) ==
    \/ MovesOf(o, n) = {} /\ s = "absent"
    \/ \E i \in MovesOf(o, n) :
         /\ \A j \in MovesOf(o, n) : j <= i
         /\ s = history[i].to

\* Every transition is a legal move from a status the order really had when
\* its handler read it.  What is between the read and the write is all that
\* can go wrong: a move is illegal only if another one overtook it.
MovesFromSnapshot ==
    \A i \in DOMAIN history :
      LET move == history[i] IN
      /\ move.seen < i
      /\ Had(move.order, move.from, move.seen)
      /\ move.from # "absent" => move.to \in VALID_TRANSITIONS[move.from]

\* What subscribers hear of is committed, and they hear of it once, also when
\* the publish of a handler failed.
EventsAreCommits ==
    /\ \A i \in DOMAIN events : events[i] \in DOMAIN history
    /\ \A i, j \in DOMAIN events : events[i] = events[j] => i = j

\* Moves and their events, under concurrent handlers.
OrdersInv == TypeOK /\ MovesFromSnapshot /\ EventsAreCommits

\* The handlers together are the abstract order service, however their reads,
\* writes and publishes interleave and wherever they stop.
Successors == [s \in Status \cup {"absent"} |->
                 IF s = "absent" THEN {"created"} ELSE VALID_TRANSITIONS[s]]
Moves == [i \in DOMAIN history |-> [order |-> history[i].order,
                                    from |-> history[i].from, to |-> history[i].to]]
Lifecycle == INSTANCE OrderLifecycle WITH moves <- Moves, announced <- events
ImplementsLifecycle == Lifecycle!Spec

-----------------------------------------------------------------------------
(* What documents claim and the service does not keep. *)

\* spec/03_SYSTEM_ARCHITECTURE.md: "Order state machine (Created -> Confirmed ->
\* Paid -> Fulfilled -> Closed/Cancelled)".  Two handlers that read the same
\* status both pass the check, and the second writes over the first: an order
\* leaves "cancelled" for "paid".
LegalTransitions ==
    [][\A o \in Order :
         status'[o] # status[o] /\ status[o] # "absent"
           => status'[o] \in VALID_TRANSITIONS[status[o]]]_vars

=============================================================================
