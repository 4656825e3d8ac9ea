---------------------------- MODULE Integrations ----------------------------
(***************************************************************************)
(* The three pages on which an owner connects the business to others: the  *)
(* WhatsApp provider (AisensyForm), the payment provider (PaymentForm) and *)
(* the agent network (AgentNetworkSettings), in several tabs, with the     *)
(* routes and rows behind them.                                            *)
(*                                                                         *)
(* All three load what is stored, let the user edit it and send back more  *)
(* than was edited, and the routes merge what they are sent into the row.  *)
(* A field's value is the number of the save it was typed for, a secret's  *)
(* that of the save that sent it, and 0 is NULL or the empty text; which   *)
(* save a value is from is all that matters here.                          *)
(***************************************************************************)
EXTENDS Integers, FiniteSets

CONSTANTS
    Tab,
    Phone,          \* the owner's WhatsApp numbers
    Cap,            \* the capabilities an agent can expose
    MaxEvents       \* bound on clicks and failures, together

\* The secrets of the rows, which no page gets to see.
Secret == {"webhook", "key", "pwd", "secret"}

ASSUME IntegrationsAssumption ==
    /\ MaxEvents \in Nat
    /\ Phone # {} /\ Phone \cap {"payment", "network"} = {}
    /\ Cap \cap (Secret \cup {"listed"}) = {}

VARIABLES
    rows,           \* what is stored: a row per number, one for payment, one
                    \* for the network
    tab,            \* the page each tab is on
    requests,       \* the tabs' requests, from their start to their answer
    saves,          \* how many saves were sent
    eventsLeft

integrationsVars == <<rows, tab, requests, saves, eventsLeft>>

-----------------------------------------------------------------------------
(* Rows, pages and requests. *)

Page == {"aisensy", "payment", "network"}
Key == Phone \cup {"payment", "network"}
Tier == {"campaign", "project"}
NoRow == <<>>

\* The columns of the three tables, as they are before they are given a value.
NumberColumns(n) == [phone |-> n, tier |-> "campaign", webhook |-> 0, key |-> 0,
                     pwd |-> 0]
PaymentColumns == [key_id |-> 0, upi |-> 0, secret |-> 0]
RegistryColumns == [c \in Cap \cup {"listed"} |-> FALSE]

\* The fields the forms start with.
AisensyBlank == [phone |-> "", tier |-> "campaign"]
PaymentBlank == [key_id |-> 0, upi |-> 0]
Blank(page) == CASE page = "aisensy" -> AisensyBlank
                 [] page = "payment" -> PaymentBlank
                 [] page = "network" -> <<>>

Fresh(p) == CHOOSE n \in 1 .. Cardinality(requests) + 1 :
              \A r \in requests : r.tab = p => r.no # n
Load(p, page) == [tab |-> p, no |-> Fresh(p), op |-> "load", page |-> page,
                  stage |-> "sent"]
Mounted(page, no) == [page |-> page, loading |-> TRUE, shown |-> NoRow,
                      form |-> Blank(page), edited |-> {}, awaits |-> no]

\* An owner is set up without a number, or with one that has no credentials.
IntegrationsInit ==
    /\ \/ rows = [k \in Key |-> NoRow]
       \/ rows = [k \in Key |-> IF k = CHOOSE n \in Phone : TRUE
                               THEN NumberColumns(k) ELSE NoRow]
    /\ \E page \in Page :
         /\ tab = [p \in Tab |-> Mounted(page, 1)]
         /\ requests = {[tab |-> p, no |-> 1, op |-> "load", page |-> page,
                         stage |-> "sent"] : p \in Tab}
    /\ saves = 0 /\ eventsLeft = MaxEvents

Event == eventsLeft > 0 /\ eventsLeft' = eventsLeft - 1

-----------------------------------------------------------------------------
(* The user.  A page shows nothing to click while it loads, and its save     *)
(* button is disabled while it saves.                                        *)

Ready(p, page) == tab[p].page = page /\ ~tab[p].loading /\ tab[p].awaits = 0
new == saves + 1

\* What was edited and what the page showed go with a save for the properties
\* alone.
SendSave(p, key, body, edited) ==
    /\ Event
    /\ saves' = new
    /\ requests' = requests \cup
          {[tab |-> p, no |-> Fresh(p), op |-> "save", page |-> tab[p].page,
            stage |-> "sent", key |-> key, body |-> body, edited |-> edited,
            shown |-> tab[p].shown]}
    /\ UNCHANGED rows
Submit(p, form, key, body, typed) ==
    LET edited == tab[p].edited \cup
                    {f \in DOMAIN form : form[f] # tab[p].form[f]}
    IN  /\ SendSave(p, key, body, edited \cup typed)
        /\ tab' = [tab EXCEPT ![p].form = form, ![p].edited = edited,
                              ![p].awaits = Fresh(p)]

\* What is sent of a form, and the secrets in it.  They are emptied by a save that
\* succeeds alone: one typed for a save that failed may go with the next, for
\* another number even, as if it was typed again.
Body(form, fields) == [f \in fields |-> IF f \in DOMAIN form THEN form[f] ELSE new]

\* What the AiSensy form can hold: the button wants a number and a webhook
\* secret, which is never shown and so typed each time; the tier's own secret
\* may be left out.  The display name, the project and the template are required
\* as the number is and prefilled as the tier is.
AisensyInputs == [phone : Phone, tier : Tier]
Own(tier) == IF tier = "campaign" THEN "key" ELSE "pwd"
AisensyBody(form, typed) == Body(form, DOMAIN form \cup {"webhook"} \cup typed)
SubmitAisensy(p) ==
    /\ Ready(p, "aisensy")
    /\ \E form \in AisensyInputs :
       \E typed \in {{}, {Own(form.tier)}} :
         Submit(p, form, form.phone, AisensyBody(form, typed), typed \cup {"webhook"})

\* The payment form sends the fields that are not empty.  The Stripe fields and
\* the webhook secret are kept like the ones here.
PaymentInputs(form) == [key_id : {form.key_id, new}, upi : {form.upi, new}]
PaymentBody(form, typed) == Body(form, {f \in DOMAIN form : form[f] # 0} \cup typed)
SubmitPayment(p) ==
    /\ Ready(p, "payment")
    /\ \E form \in PaymentInputs(tab[p].form), typed \in SUBSET {"secret"} :
         Submit(p, form, "payment", PaymentBody(form, typed), typed)

\* The network page sends one change at a time: the listing, or the list of
\* capabilities as it shows it with one more or one less.
Relisted(shown, c) == [d \in Cap |-> IF d = c THEN ~shown[d] ELSE shown[d]]
ChangeNetwork(p) ==
    /\ Ready(p, "network") /\ tab[p].shown # NoRow
    /\ LET shown == tab[p].shown
       IN  \/ SendSave(p, "network", [listed |-> ~shown.listed], {"listed"})
           \/ \E c \in Cap : SendSave(p, "network", Relisted(shown, c), {c})
    /\ tab' = [tab EXCEPT ![p].awaits = Fresh(p)]

\* The user reloads the page, or leaves it and comes back: what was sent is
\* still under way, and nothing waits for its answer.  A page that is loading
\* goes on loading.
Reopen(p) ==
    /\ tab[p].loading => tab[p].awaits = 0
    /\ Event
    /\ requests' = requests \cup {Load(p, tab[p].page)}
    /\ tab' = [tab EXCEPT ![p] = Mounted(@.page, Fresh(p))]
    /\ UNCHANGED <<rows, saves>>

-----------------------------------------------------------------------------
(* The routes.  A save writes its row in one statement. *)

Sent(r, op, page) == r.op = op /\ r.page = page /\ r.stage = "sent"
Replace(r, q) == requests' = (requests \ {r}) \cup {q}
Answered(r, stage) == [tab |-> r.tab, no |-> r.no, op |-> r.op, page |-> r.page,
                       stage |-> stage]
\* The columns a page gets to see: of a secret only whether there is one.
Visible(row) == [f \in DOMAIN row \ Secret |-> row[f]]
Answer(r, row) == Replace(r, [tab |-> r.tab, no |-> r.no, op |-> r.op, page |-> r.page,
                              stage |-> "ok", row |-> Visible(row)])
served == <<tab, saves, eventsLeft>>

\* One row of those that are primary, and every row is.
SelectNumber(r) ==
    /\ Sent(r, "load", "aisensy")
    /\ \E k \in Phone :
         /\ rows[k] # NoRow \/ \A l \in Phone : rows[l] = NoRow
         /\ Answer(r, rows[k])
    /\ UNCHANGED <<rows, served>>

SelectPayment(r) ==
    /\ Sent(r, "load", "payment")
    /\ Answer(r, rows["payment"])
    /\ UNCHANGED <<rows, served>>

\* No row reads as one that exposes nothing.
SelectRegistry(r) ==
    /\ Sent(r, "load", "network")
    /\ Answer(r, IF rows["network"] = NoRow THEN RegistryColumns ELSE rows["network"])
    /\ UNCHANGED <<rows, served>>

\* A save gives the columns it carries a value, and keeps the others.
Merged(body, row) == [f \in DOMAIN row |-> IF f \in DOMAIN body THEN body[f] ELSE row[f]]
Upsert(r, columns) ==
    /\ rows' = [rows EXCEPT ![r.key] = Merged(r.body, IF @ = NoRow THEN columns ELSE @)]
    /\ Replace(r, Answered(r, "ok"))

\* Either tier has credentials of its own.
AisensyAccepts_AnyTier(body) == TRUE
AisensyAccepts(body) == Own(body.tier) \in DOMAIN body
SaveNumber(r) ==
    /\ Sent(r, "save", "aisensy")
    /\ IF AisensyAccepts(r.body) THEN Upsert(r, NumberColumns(r.key))
       ELSE Replace(r, Answered(r, "failed")) /\ UNCHANGED rows
    /\ UNCHANGED served

SavePayment(r) ==
    /\ Sent(r, "save", "payment")
    /\ Upsert(r, PaymentColumns)
    /\ UNCHANGED served

PutRegistry(r) ==
    /\ Sent(r, "save", "network")
    /\ Upsert(r, RegistryColumns)
    /\ UNCHANGED served

\* A session has ended, a feature is off or the database fails; or the network
\* does, before the request did its work or after.
Fail(r) ==
    /\ Event
    /\ r.stage \in {"sent", "ok"} /\ Replace(r, Answered(r, "failed"))
    /\ UNCHANGED <<rows, tab, saves>>

-----------------------------------------------------------------------------
(* The answers. *)

Awaited(r, op, page) == /\ r.op = op /\ r.page = page /\ r.stage # "sent"
                        /\ tab[r.tab].awaits = r.no
Rendered(t) == [t EXCEPT !.awaits = 0, !.loading = FALSE]
Prefilled(t, row, form) == [Rendered(t) EXCEPT !.shown = row, !.form = form,
                                               !.edited = {}]
taken == <<rows, saves, eventsLeft>>

AisensyPrefill(form, row) == [f \in DOMAIN form |-> row[f]]
\* A load that gets no answer throws where nothing catches it.
LoadedAisensy(r, answered) ==
    /\ Awaited(r, "load", "aisensy")
    /\ requests' = requests \ {r}
    /\ tab' = [tab EXCEPT ![r.tab] =
          CASE r.stage = "failed" -> [@ EXCEPT !.awaits = 0, !.loading = ~answered]
            [] r.stage = "ok" /\ r.row = NoRow -> [Rendered(@) EXCEPT !.shown = NoRow]
            [] OTHER -> Prefilled(@, r.row, AisensyPrefill(@.form, r.row))]
    /\ UNCHANGED taken

PaymentPrefill_EmptyOnly(form, row) ==
    [f \in DOMAIN form |-> IF form[f] = 0 THEN row[f] ELSE form[f]]
PaymentPrefill(form, row) == [f \in DOMAIN form |-> row[f]]
LoadedPayment_Uncaught(r) ==
    /\ Awaited(r, "load", "payment")
    /\ requests' = requests \ {r}
    /\ tab' = [tab EXCEPT ![r.tab] =
          CASE r.stage = "failed" -> [@ EXCEPT !.awaits = 0]
            [] r.stage = "ok" /\ r.row = NoRow -> [Rendered(@) EXCEPT !.shown = NoRow]
            [] OTHER -> Prefilled(@, r.row, PaymentPrefill(@.form, r.row))]
    /\ UNCHANGED taken
LoadedPayment(r) ==
    /\ Awaited(r, "load", "payment")
    /\ requests' = requests \ {r}
    /\ tab' = [tab EXCEPT ![r.tab] =
          CASE r.stage # "ok" -> Rendered(@)
            [] r.stage = "ok" /\ r.row = NoRow -> [Rendered(@) EXCEPT !.shown = NoRow]
            [] OTHER -> Prefilled(@, r.row, PaymentPrefill(@.form, r.row))]
    /\ UNCHANGED taken

\* When a load fails the page keeps what it showed before.
LoadedNetwork(r) ==
    /\ Awaited(r, "load", "network")
    /\ requests' = requests \ {r}
    /\ tab' = [tab EXCEPT ![r.tab] =
          IF r.stage = "ok" THEN Prefilled(@, r.row, <<>>) ELSE Rendered(@)]
    /\ UNCHANGED taken

\* A save that succeeded is followed by a load.
Saved(r, page) ==
    /\ Awaited(r, "save", page)
    /\ IF r.stage = "ok"
         THEN /\ requests' = (requests \ {r}) \cup {Load(r.tab, page)}
              /\ tab' = [tab EXCEPT ![r.tab].loading = TRUE,
                                    ![r.tab].awaits = Fresh(r.tab)]
         ELSE /\ requests' = requests \ {r}
              /\ tab' = [tab EXCEPT ![r.tab].awaits = 0]
    /\ UNCHANGED taken

\* Nothing waits for the answer any more.
Ignored(r) ==
    /\ r.stage # "sent" /\ tab[r.tab].awaits # r.no
    /\ requests' = requests \ {r}
    /\ UNCHANGED <<tab, taken>>

-----------------------------------------------------------------------------

Serve(r) == \/ SelectNumber(r) \/ SelectPayment(r) \/ SelectRegistry(r)
            \/ SaveNumber(r) \/ SavePayment(r) \/ PutRegistry(r)
Receive(r) == \/ \E answered \in BOOLEAN : LoadedAisensy(r, answered)
              \/ LoadedPayment(r) \/ LoadedNetwork(r)
              \/ \E page \in Page : Saved(r, page)
              \/ Ignored(r)

IntegrationsNext ==
    \/ \E p \in Tab : \/ SubmitAisensy(p) \/ SubmitPayment(p) \/ ChangeNetwork(p)
                      \/ Reopen(p)
    \/ \E r \in requests : Serve(r) \/ Fail(r) \/ Receive(r)

\* Every request is answered.
Fairness == WF_integrationsVars(\E r \in requests : Serve(r) \/ Receive(r))

IntegrationsSpec == IntegrationsInit /\ [][IntegrationsNext]_integrationsVars /\ Fairness

-----------------------------------------------------------------------------
(* Properties. *)

Number == [phone : Phone, tier : Tier, webhook : 0 .. MaxEvents,
           key : 0 .. MaxEvents, pwd : 0 .. MaxEvents]

\* Every variable has its type.
IntegrationsTypeOK ==
    /\ saves \in 0 .. MaxEvents /\ eventsLeft \in 0 .. MaxEvents
    /\ \A k \in Key : rows[k] # NoRow =>
         CASE k = "payment" -> rows[k] \in [DOMAIN PaymentColumns -> 0 .. MaxEvents]
           [] k = "network" -> rows[k] \in [Cap \cup {"listed"} -> BOOLEAN]
           [] OTHER -> rows[k] \in Number /\ rows[k].phone = k
    /\ \A p \in Tab : /\ tab[p].page \in Page /\ tab[p].loading \in BOOLEAN
                      /\ DOMAIN tab[p].form = DOMAIN Blank(tab[p].page)
    /\ \A r \in requests : /\ r.tab \in Tab /\ r.page \in Page
                           /\ r.op \in {"load", "save"}
                           /\ r.stage \in {"sent", "ok", "failed"}

\* credentials.ts: what the edge can use of a row.
Usable(row) == row.webhook # 0 /\ row[Own(row.tier)] # 0

\* However tabs, tiers and numbers are mixed, a number that was saved once is
\* one the edge can use, and the secret that checks its webhooks was sent with the
\* secret that sends its messages.
CredentialsBelongTogether ==
    \A k \in Phone : rows[k] # NoRow /\ rows[k].webhook # 0 =>
        /\ Usable(rows[k])
        /\ rows[k].webhook = rows[k][Own(rows[k].tier)]

CredentialsInv == IntegrationsTypeOK /\ CredentialsBelongTogether

(* What a step may not do. *)

\* A save changes what the user edited for it.  It changes something else only
\* when its page showed something older than the row, and a secret never.
NoSilentChange ==
    [][\A k \in Key : rows'[k] # rows[k] =>
         \E r \in requests \ requests' :
           /\ r.op = "save" /\ r.stage = "sent" /\ r.key = k
           /\ rows[k] # NoRow =>
                \A f \in DOMAIN rows[k] : rows'[k][f] # rows[k][f] =>
                    \/ f \in r.edited
                    \/ f \notin Secret /\ r.shown # Visible(rows[k])]_integrationsVars

(* Liveness. *)

\* The payment and network pages stop loading, whatever fails; AiSensy's does
\* unless the network loses the load.
Loading(p) == tab[p].loading /\ (tab[p].page = "aisensy" => tab[p].awaits # 0)
LoadingEnds == \A p \in Tab : Loading(p) ~> ~Loading(p)
=============================================================================
