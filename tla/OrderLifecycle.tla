--------------------------- MODULE OrderLifecycle ---------------------------
(***************************************************************************)
(* What the order service promises a tenant.  A move of an order is legal  *)
(* from a status the order has had, the one its requester saw, and the     *)
(* status is the one the last move led to; an order is created once; a     *)
(* move is announced at most once, in any order with the others.           *)
(***************************************************************************)
EXTENDS Integers, Sequences

CONSTANTS Order, Successors    \* a status' legal successors

VARIABLES
    status,        \* each order's status
    moves,         \* all moves so far: [order, from, to]
    announced      \* indices into moves, as announced

lifecycle == <<status, moves, announced>>

Init ==
    /\ status = [o \in Order |-> "absent"]
    /\ moves = <<>> /\ announced = <<>>

HasBeen(o, s) == \E i \in DOMAIN moves : moves[i].order = o /\ moves[i].to = s

Move(o, from, to) ==
    /\ IF from = "absent" THEN status[o] = "absent" ELSE HasBeen(o, from)
    /\ to \in Successors[from]
    /\ status' = [status EXCEPT ![o] = to]
    /\ moves' = Append(moves, [order |-> o, from |-> from, to |-> to])
    /\ UNCHANGED announced

Announce(i) ==
    /\ i \in DOMAIN moves
    /\ \A j \in DOMAIN announced : announced[j] # i
    /\ announced' = Append(announced, i)
    /\ UNCHANGED <<status, moves>>

Next == \/ \E o \in Order, from \in DOMAIN Successors :
             \E to \in Successors[from] : Move(o, from, to)
        \/ \E i \in DOMAIN moves : Announce(i)

Spec == Init /\ [][Next]_lifecycle
=============================================================================
