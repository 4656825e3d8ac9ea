------------------------------- MODULE MCEdge -------------------------------
(* Small instances of Edge for TLC. *)
EXTENDS Edge

CONSTANTS q1, q2      \* model values: request slots
MCRequest2 == {q1, q2}

MCCustomer == {"ann", "ben"}
OnlyBen == {"ben"}

Text(mark, message, customer) ==
    [mark |-> mark, message |-> message, customer |-> customer, kind |-> "text"]

\* A batch of WhatsApp's with a text of ann's, a sticker of hers and a text of
\* ben's, and one more text of ann's; AiSensy's notification of a text, and the
\* echo of an answer.
MCItems == [
    batch  |-> <<Text("wa1", "m1", "ann"),
                 [Text("wa2", "m2", "ann") EXCEPT !.kind = "sticker"],
                 Text("wa3", "m3", "ben")>>,
    single |-> <<Text("wa4", "m4", "ann")>>,
    user   |-> <<Text("note2", "m5", "ann")>>,
    echo   |-> <<[Text("note3", "m6", "ann") EXCEPT !.kind = "echo"]>>]
MCVia == [batch |-> "whatsapp", single |-> "whatsapp", user |-> "aisensy",
          echo |-> "aisensy"]
MetaPayloads == {"batch", "single"}
MixedPayloads == {"batch", "user", "echo"}
=============================================================================
