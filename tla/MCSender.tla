------------------------------ MODULE MCSender ------------------------------
(* Small instances of Sender for TLC. *)
EXTENDS Sender

CONSTANTS e1, e2      \* model values: the replicas
MCReplica == {e1, e2}
MCCustomer == {"ann"}
MCTemplate == {"receipt"}

\* A reply from a named number; a broadcast from none; a message no provider
\* takes; one of another schema.
Reply == [kind |-> "text", to |-> "ann", check |-> TRUE, template |-> NoTemplate,
          source |-> TRUE, refused |-> FALSE]
Broadcast == [Reply EXCEPT !.kind = "template", !.template = "receipt",
                           !.source = FALSE]
Refused == [Reply EXCEPT !.refused = TRUE]
Malformed == [Reply EXCEPT !.kind = "malformed"]
MCMessage == {Reply, Broadcast, Refused, Malformed}
FewMessages == {Reply, Broadcast}
MCCreds == {NoCreds, [tier |-> "campaign", key |-> 1]}
BothAdapters == {"aisensy", "meta"}
Aisensy == {"aisensy"}
=============================================================================
