-------------------------------- MODULE Turn --------------------------------
(***************************************************************************)
(* What the harness promises to the dispatcher and to the owner of the     *)
(* tenant, without its iterations, sites or caps: a turn does permitted    *)
(* work while it runs, ends at most once, and when it ends the journal     *)
(* names the same outcome that is returned.  A turn may also be lost, by a *)
(* crash or an exception; then nothing is returned, the journal keeps what *)
(* it had or takes the write that was under way, and calls already under   *)
(* way may still land.                                                     *)
(***************************************************************************)

CONSTANT Allowed     \* capabilities that may run without an owner's approval

VARIABLES
    status,          \* "running", an outcome, or "lost"
    work,            \* capabilities the turn has used
    record           \* the outcome in the durable journal, or "none"

turn == <<status, work, record>>

Final == {"finalize", "fail", "expire", "suspended_at_permission"}

Init == status = "running" /\ work = {} /\ record = "none"

Work ==
    /\ status \in {"running", "lost"}
    /\ \E c \in Allowed : work' = work \cup {c}
    /\ UNCHANGED <<status, record>>

Checkpoint ==
    /\ status = "running" /\ record' = "iterate"
    /\ UNCHANGED <<status, work>>

Finish ==
    /\ status = "running"
    /\ \E o \in Final : status' = o /\ record' = o
    /\ UNCHANGED work

Lose ==
    /\ status = "running" /\ status' = "lost"
    /\ record' \in Final \cup {"iterate", record}
    /\ UNCHANGED work

Next == Work \/ Checkpoint \/ Finish \/ Lose

Spec == Init /\ [][Next]_turn

FairSpec == Spec /\ WF_turn(Finish \/ Lose)
=============================================================================
