---------------------------- MODULE MCDispatcher ----------------------------
(* Small instances of Dispatcher for TLC: two replicas, one tenant. *)
EXTENDS Dispatcher

CONSTANTS r1, r2    \* model values: the replicas
MCConsumer == {r1, r2}
\* "note" is an event of a newer schema than the consumer's.
MCEvent == {"message", "note"}
MCMalformed == {"note"}
=============================================================================
