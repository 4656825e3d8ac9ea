---------------------------- MODULE Consumption ----------------------------
(***************************************************************************)
(* What the consumer group promises about one tenant's events, without     *)
(* replicas, assignments or conversations: events are taken up in order,   *)
(* each after all earlier ones are behind, answered any number of times,   *)
(* and the checkpoint only moves forward over events that are behind.      *)
(* Before its first checkpoint the group may pass over what is published.  *)
(***************************************************************************)
EXTENDS Integers

CONSTANT Unset       \* the checkpoint of a group that never made one

VARIABLES
    published,       \* number of events published
    done,            \* events brought to an end
    passed,          \* events passed over
    answered,        \* events some reply was sent for
    checkpoint       \* where a restart resumes

consumption == <<published, done, passed, answered, checkpoint>>

Before(n) == 0 .. n - 1
Ready(k) == Before(k) \subseteq done \cup passed

Init ==
    /\ published = 0 /\ done = {} /\ passed = {} /\ answered = {}
    /\ checkpoint \in {Unset, 0}

Publish ==
    /\ published' = published + 1
    /\ UNCHANGED <<done, passed, answered, checkpoint>>

End ==
    /\ \E k \in Before(published) : Ready(k) /\ done' = done \cup {k}
    /\ UNCHANGED <<published, passed, answered, checkpoint>>

Answer ==
    /\ \E k \in Before(published) :
         /\ Ready(k)
         /\ answered' = answered \cup {k}
         /\ done' \in {done, done \cup {k}}
    /\ UNCHANGED <<published, passed, checkpoint>>

PassOver ==
    /\ checkpoint = Unset
    /\ passed' = passed \cup Before(published)
    /\ UNCHANGED <<published, done, answered, checkpoint>>

Checkpoint ==
    /\ \E n \in 0 .. published :
         /\ n >= checkpoint
         /\ Before(n) \subseteq done \cup passed
         /\ checkpoint' = n
    /\ UNCHANGED <<published, done, passed, answered>>

Next == Publish \/ End \/ Answer \/ PassOver \/ Checkpoint

Spec == Init /\ [][Next]_consumption
=============================================================================
