------------------------------ MODULE WebChat ------------------------------
(***************************************************************************)
(* Chatting with an agent in the browser: the public page of a business,   *)
(* and the test page of the dashboard.  Both keep the conversation in the  *)
(* browser's local storage, one entry per kind of page that its tabs       *)
(* share, and send a message at a time to the orchestrator.                *)
(*                                                                         *)
(* Opening a page takes two steps, as its effects do: the first reads the  *)
(* entry and writes the page's blank state over it, the second shows and   *)
(* writes what was read.  Whenever what a page shows changes, the page     *)
(* writes it.  A request whose answer is lost may still be served.         *)
(***************************************************************************)
EXTENDS Integers, Sequences, FiniteSets

CONSTANTS
    Tab,
    KindsOfTabs,    \* which kinds of page the tabs may hold, as functions of Tab
    MaxEvents       \* bound on what users do and on failures

Kind == {"public", "test"}
None == "none"      \* no tab
ASSUME WebChatAssumption ==
    /\ MaxEvents \in Nat /\ None \notin Tab
    /\ KindsOfTabs \subseteq [Tab -> Kind]

VARIABLES
    kind,           \* the page of each tab
    tab,
    storage,        \* the entry of each kind of page
    minted,         \* how many identifiers were made up
    sent,           \* how many messages were sent
    requests,
    turns,          \* the turns of the agent, in the order they were taken
    optedIn,        \* customers that any business may recognise
    open,           \* the business is active, and somebody is signed in
    disturbed,      \* pages opened together, closed while opening, or reset
    eventsLeft

chatVars == <<kind, tab, storage, minted, sent, requests, turns, optedIn, open,
              disturbed, eventsLeft>>

-----------------------------------------------------------------------------
(* Pages, their entries and their requests. *)

Nobody == 0     \* the identifier of a page that has none yet
Owner == -1     \* the sender of what the owner says in the test page

Message(n, role) == [no |-> n, role |-> role]
BlankEntry == [who |-> Nobody, shown |-> <<>>, as |-> "customer"]
\* Whom the page was told of last, and what: it greets who is known.
NoBadge == [who |-> Nobody, known |-> FALSE]
Closed == [phase |-> "closed", now |-> BlankEntry, waiting |-> FALSE,
           badge |-> NoBadge]

Sender(entry) == IF entry.as = "owner" THEN Owner ELSE entry.who

ChatInit ==
    /\ kind \in KindsOfTabs
    /\ tab = [p \in Tab |-> Closed]
    /\ storage = [k \in Kind |-> BlankEntry]
    /\ minted = 0 /\ sent = 0 /\ requests = {} /\ turns = <<>> /\ optedIn = {}
    /\ open = TRUE /\ disturbed = FALSE /\ eventsLeft = MaxEvents

Event == eventsLeft > 0 /\ eventsLeft' = eventsLeft - 1

\* A page's identifier changed, or the page went: it takes no status any more
\* for the old one.
Cancelled_Nothing(rs, p) == rs
Cancelled(rs, p) == {r \in rs : r.op = "chat" \/ r.tab # p}
\* The public page asks whether the new one is known to other businesses.
Asked(rs, p, who) ==
    Cancelled(rs, p) \cup
        IF kind[p] = "public" THEN {[op |-> "status", tab |-> p, who |-> who,
                                     stage |-> "sent"]} ELSE {}

\* A page shows something else, and its effect writes it.
Shows(p, entry) ==
    /\ tab' = [tab EXCEPT ![p].now = entry]
    /\ storage' = [storage EXCEPT ![kind[p]] = entry]

-----------------------------------------------------------------------------
(* Opening and closing pages. *)

\* The page of a business that is not active is not found.
Mount(p) ==
    /\ tab[p].phase = "closed" /\ open
    /\ tab' = [tab EXCEPT ![p] = [Closed EXCEPT !.phase = "opening",
                                                !.now = storage[kind[p]]]]
    /\ storage' = [storage EXCEPT ![kind[p]] = BlankEntry]
    /\ disturbed' = (disturbed \/ \E q \in Tab \ {p} : kind[q] = kind[p]
                                                   /\ tab[q].phase = "opening")
    /\ UNCHANGED <<kind, minted, sent, requests, turns, optedIn, open, eventsLeft>>

\* An entry without an identifier is given a new one.
Loaded(entry) == IF entry.who = Nobody THEN [entry EXCEPT !.who = minted + 1]
                 ELSE entry
Render(p) ==
    /\ tab[p].phase = "opening"
    /\ LET entry == Loaded(tab[p].now)
       IN  /\ tab' = [tab EXCEPT ![p].phase = "open", ![p].now = entry]
           /\ storage' = [storage EXCEPT ![kind[p]] = entry]
           /\ minted' = minted + IF entry.who > minted THEN 1 ELSE 0
           /\ requests' = Asked(requests, p, entry.who)
    /\ UNCHANGED <<kind, sent, turns, optedIn, open, disturbed, eventsLeft>>

\* What the page had asked for goes on, and nobody waits for it.
Orphaned(rs, p) ==
    {IF r.tab = p THEN [r EXCEPT !.tab = None] ELSE r : r \in Cancelled(rs, p)}
Close(p) ==
    /\ tab[p].phase # "closed" /\ Event
    /\ tab' = [tab EXCEPT ![p] = Closed]
    /\ requests' = Orphaned(requests, p)
    /\ disturbed' = (disturbed \/ tab[p].phase = "opening")
    /\ UNCHANGED <<kind, storage, minted, sent, turns, optedIn, open>>

-----------------------------------------------------------------------------
(* What users do. *)

Typed(p) ==
    /\ tab[p].phase = "open" /\ Event
    /\ LET now == [tab[p].now EXCEPT !.shown = Append(@, Message(sent + 1, "customer"))]
       IN  /\ tab' = [tab EXCEPT ![p].now = now, ![p].waiting = TRUE]
           /\ storage' = [storage EXCEPT ![kind[p]] = now]
    /\ sent' = sent + 1
    /\ requests' = requests \cup {[op |-> "chat", tab |-> p, no |-> sent + 1,
                                   kind |-> kind[p], from |-> Sender(tab[p].now),
                                   stage |-> "sent"]}
    /\ UNCHANGED <<kind, minted, turns, optedIn, open, disturbed>>
Send(p) == ~tab[p].waiting /\ Typed(p)

\* A new conversation, whatever the page waits for, and with the badge it has.
Reset_KeepsMessages(p) ==
    /\ tab[p].phase = "open" /\ Event
    /\ Shows(p, [tab[p].now EXCEPT !.who = minted + 1])
    /\ minted' = minted + 1 /\ disturbed' = TRUE
    /\ requests' = Asked(requests, p, minted + 1)
    /\ UNCHANGED <<kind, sent, turns, optedIn, open>>
Reset(p) ==
    /\ tab[p].phase = "open" /\ Event
    /\ Shows(p, [tab[p].now EXCEPT !.who = minted + 1, !.shown = <<>>])
    /\ minted' = minted + 1 /\ disturbed' = TRUE
    /\ requests' = Asked(requests, p, minted + 1)
    /\ UNCHANGED <<kind, sent, turns, optedIn, open>>

\* The test page changes who speaks to whom, and edits the phone number.
Talk(p) ==
    /\ tab[p].phase = "open" /\ kind[p] = "test" /\ Event
    /\ \E as \in {"customer", "owner", "veda"} \ {tab[p].now.as} :
         Shows(p, [tab[p].now EXCEPT !.as = as])
    /\ UNCHANGED <<kind, minted, sent, requests, turns, optedIn, open, disturbed>>
EditPhone(p) ==
    /\ tab[p].phase = "open" /\ kind[p] = "test" /\ Event
    /\ \E who \in 1 .. minted \ {tab[p].now.who} :
         Shows(p, [tab[p].now EXCEPT !.who = who])
    /\ disturbed' = TRUE
    /\ UNCHANGED <<kind, minted, sent, requests, turns, optedIn, open>>

Known == {turns[t].from : t \in DOMAIN turns}
SetOptIn ==
    /\ \E who \in Known \ {Owner} :
         optedIn' \in {optedIn \cup {who}, optedIn \ {who}} \ {optedIn}
    /\ Event
    /\ UNCHANGED <<kind, tab, storage, minted, sent, requests, turns, open, disturbed>>

\* The business is suspended, or the owner signs out.
Shut ==
    /\ open /\ Event /\ open' = FALSE
    /\ UNCHANGED <<kind, tab, storage, minted, sent, requests, turns, optedIn, disturbed>>

-----------------------------------------------------------------------------
(* The routes and the orchestrator. *)

Replace(r, q) == requests' = (requests \ {r}) \cup {q}
asked == <<kind, tab, storage, minted, sent, open, disturbed>>

\* The turn is taken for the sender that the message came with.
Take(r) ==
    /\ r.op = "chat" /\ r.stage = "sent" /\ open
    /\ turns' = Append(turns, [no |-> r.no, kind |-> r.kind, from |-> r.from])
    /\ Replace(r, [r EXCEPT !.stage = "ok"])
    /\ UNCHANGED <<asked, optedIn, eventsLeft>>
Refuse(r) ==
    /\ r.op = "chat" /\ r.stage = "sent" /\ ~open
    /\ Replace(r, [r EXCEPT !.stage = "error"])
    /\ UNCHANGED <<asked, turns, optedIn, eventsLeft>>

\* The orchestrator fails before or after it took the turn, or the status is
\* not found, which the page does not show.
Fail(r) ==
    /\ r.stage # "error" /\ r.tab # None /\ Event
    /\ IF r.op = "chat" THEN Replace(r, [r EXCEPT !.stage = "error"])
       ELSE requests' = requests \ {r}
    /\ UNCHANGED <<asked, turns, optedIn>>

\* The page loses the connection: it shows an error, and the request goes on.
Failed_StillWaiting(r) == UNCHANGED tab
Failed(r) == tab' = [tab EXCEPT ![r.tab].waiting = FALSE]
LoseConnection(r) ==
    /\ r.op = "chat" /\ r.stage # "error" /\ r.tab # None /\ Event
    /\ Failed(r)
    /\ Replace(r, [r EXCEPT !.tab = None])
    /\ UNCHANGED <<kind, storage, minted, sent, turns, optedIn, open, disturbed>>

-----------------------------------------------------------------------------
(* The answers. *)

receiving == <<kind, minted, sent, turns, optedIn, open, disturbed, eventsLeft>>

Replied(r) ==
    /\ r.op = "chat" /\ r.stage = "ok" /\ r.tab # None
    /\ LET now == [tab[r.tab].now EXCEPT !.shown = Append(@, Message(r.no, "agent"))]
       IN  /\ tab' = [tab EXCEPT ![r.tab].now = now, ![r.tab].waiting = FALSE]
           /\ storage' = [storage EXCEPT ![kind[r.tab]] = now]
    /\ requests' = requests \ {r}
    /\ UNCHANGED receiving
Errored(r) ==
    /\ r.op = "chat" /\ r.stage = "error" /\ r.tab # None
    /\ Failed(r)
    /\ requests' = requests \ {r}
    /\ UNCHANGED <<storage, receiving>>
\* The status is the customer's when it arrives: how old it is makes no
\* difference here.
Told(r) ==
    /\ r.op = "status"
    /\ tab' = [tab EXCEPT ![r.tab].badge = [who |-> r.who, known |-> r.who \in optedIn]]
    /\ requests' = requests \ {r}
    /\ UNCHANGED <<storage, receiving>>
Discarded(r) ==
    /\ r.stage # "sent" /\ r.tab = None
    /\ requests' = requests \ {r}
    /\ UNCHANGED <<tab, storage, receiving>>

-----------------------------------------------------------------------------

Serve(r) == Take(r) \/ Refuse(r)
Receive(r) == Replied(r) \/ Errored(r) \/ Told(r) \/ Discarded(r)

ChatNext ==
    \/ \E p \in Tab : \/ Mount(p) \/ Render(p) \/ Close(p)
                      \/ Send(p) \/ Reset(p) \/ Talk(p) \/ EditPhone(p)
    \/ SetOptIn \/ Shut
    \/ \E r \in requests : Serve(r) \/ Fail(r) \/ LoseConnection(r) \/ Receive(r)

\* Effects run, and every request is answered.
Fairness == WF_chatVars(\/ \E p \in Tab : Render(p)
                        \/ \E r \in requests : Serve(r) \/ Receive(r))

ChatSpec == ChatInit /\ [][ChatNext]_chatVars /\ Fairness

-----------------------------------------------------------------------------
(* Safety. *)

Entries == [who : 0 .. minted, as : {"customer", "owner", "veda"},
            shown : Seq([no : 1 .. sent, role : {"customer", "agent"}])]

\* Every variable has its type, and a page that is open has an identifier.
ChatTypeOK ==
    /\ \A p \in Tab : /\ tab[p].phase \in {"closed", "opening", "open"}
                      /\ tab[p].now \in Entries
                      /\ tab[p].phase = "open" => tab[p].now.who # Nobody
                      /\ tab[p].waiting \in BOOLEAN
    /\ \A k \in Kind : storage[k] \in Entries
    /\ \A r \in requests : /\ r.op = "chat" => r.from \in {Owner} \cup 1 .. minted
                           /\ r.op = "status" => r.tab \in Tab
    /\ optedIn \subseteq Known
    /\ eventsLeft \in 0 .. MaxEvents

\* A browser is one customer: unless a conversation was started anew, or pages
\* were opened together or closed before they were shown, every page, now or
\* after a reload, speaks as the same one.
OneConversation ==
    ~disturbed => \A p \in Tab : tab[p].phase = "open" =>
        /\ \A q \in Tab : tab[q].phase # "closed" /\ kind[q] = kind[p]
                            => tab[q].now.who = tab[p].now.who
        /\ \/ storage[kind[p]].who = tab[p].now.who
           \/ \E q \in Tab : tab[q].phase = "opening" /\ kind[q] = kind[p]

Shown(p) == tab[p].now.shown
Answered(p) == {n \in 1 .. sent : \E i, j \in DOMAIN Shown(p) :
                  /\ i < j /\ Shown(p)[i] = Message(n, "customer")
                  /\ Shown(p)[j] = Message(n, "agent")}
Turn(n) == CHOOSE t \in DOMAIN turns : turns[t].no = n

\* The agent remembers what the customer reads: every exchange that a public
\* page shows was with the identifier that the page speaks as.
ShownIsRemembered ==
    \A p \in Tab : kind[p] = "public" =>
        \A n \in Answered(p) : /\ \E t \in DOMAIN turns : turns[t].no = n
                               /\ turns[Turn(n)].from = tab[p].now.who

\* The agent took what a page shows in the order it is shown in, but for the
\* messages whose answer did not come.
AnsweredInOrder ==
    \A p \in Tab : \A m, n \in Answered(p) : m < n => Turn(m) < Turn(n)

\* The pages, the stored conversation and the agent's memory tell one story.
ConversationInv ==
    ChatTypeOK /\ OneConversation /\ ShownIsRemembered /\ AnsweredInOrder

(* What a step may not do. *)

\* A page's badge is about the customer that it speaks as, but for one that the
\* page's own new conversation leaves over, as reset() keeps it: it stays as it
\* is until an answer about the new customer replaces it, and neither a late
\* answer about an earlier one nor anything another tab does puts one up.
Leftover(p) == tab[p].badge # NoBadge /\ tab[p].badge.who # tab[p].now.who
BadgeOfCustomer ==
    [][\A p \in Tab : Leftover(p)' =>
         Reset(p) \/ (Leftover(p) /\ tab'[p].badge = tab[p].badge)]_chatVars

(* Liveness. *)

\* A page does not wait for ever: a message can be sent again.
WaitingEnds == \A p \in Tab : tab[p].waiting ~> ~tab[p].waiting
=============================================================================
