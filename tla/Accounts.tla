------------------------------ MODULE Accounts ------------------------------
(***************************************************************************)
(* Signing in to the dashboard with a code sent by mail, choosing the      *)
(* business to work on, and signing out: the pages in the tabs of one      *)
(* browser, the routes, the codes that each replica keeps for itself, and  *)
(* the session, all of which is in the browser's cookie.                   *)
(*                                                                         *)
(* A request carries the cookie as it is when it is sent, an answer puts   *)
(* what the route made of that cookie in its place, and answers come in    *)
(* any order.  Pages are rendered in one step: they write nothing.         *)
(***************************************************************************)
EXTENDS Integers, Sequences, FiniteSets

CONSTANTS
    Tab, Email, Tenant,
    Replica,            \* the processes that serve the dashboard
    InitialMembers,     \* who may be a member of what, as functions of Email
    MaxAttempts,        \* how often a code may be tried
    MaxEvents           \* bound on clicks, failures, restarts and expiries

ASSUME AccountsAssumption ==
    /\ IsFiniteSet(Email) /\ MaxAttempts \in Nat \ {0} /\ MaxEvents \in Nat
    /\ InitialMembers \subseteq [Email -> SUBSET Tenant] /\ "none" \notin Tab

VARIABLES
    member,         \* core.tenant_memberships, by the e-mail of the principal
    identity,       \* core.identifiers: the principal of each e-mail, or 0
    principals,     \* how many principals there are
    store,          \* the STORE of each replica: the code an e-mail waits for
    codes,          \* what became of every code, for the properties alone
    jar,            \* the browser's session cookie
    tab, requests, eventsLeft

accountsVars == <<member, identity, principals, store, codes, jar, tab, requests,
                  eventsLeft>>

-----------------------------------------------------------------------------
(* Sessions, requests and pages. *)

None == "none"
Nothing == <<>>     \* no session, and no code

\* `by' is the principal the tenant was chosen for, for the properties alone.
Session(e, p, t, by) == [email |-> e, principal |-> p, tenant |-> t, by |-> by]
Memberships(p) == UNION {member[e] : e \in {f \in Email : identity[f] = p}}

Fresh == CHOOSE n \in 1 .. Cardinality(requests) + 1 : \A r \in requests : r.no # n

\* The middleware and the pages themselves send a visitor without a session to
\* the login page.
PageAt(page) == [page |-> page, email |-> None, shown |-> {}, busy |-> None]
Rendered(page, session) ==
    IF session = Nothing THEN PageAt("login")
    ELSE IF page = "tenant"
    THEN [PageAt(page) EXCEPT !.shown = Memberships(session.principal)]
    ELSE PageAt(page)
\* "/" is the overview of a business, or the landing page.
Home(session) == IF session # Nothing /\ session.tenant # None THEN PageAt("app")
                 ELSE PageAt("landing")

AccountsInit ==
    /\ member \in InitialMembers
    /\ LET known == {e \in Email : member[e] # {}}
       IN  /\ principals = Cardinality(known)
           /\ identity \in [Email -> 0 .. Cardinality(Email)]
           /\ \A e \in Email : identity[e] # 0 <=> e \in known
           /\ {identity[e] : e \in known} = 1 .. principals
    /\ store = [s \in Replica \X Email |-> Nothing]
    /\ codes = <<>>
    /\ jar = Nothing
    /\ tab = [p \in Tab |-> PageAt("login")]
    /\ requests = {} /\ eventsLeft = MaxEvents

Event == eventsLeft > 0 /\ eventsLeft' = eventsLeft - 1

-----------------------------------------------------------------------------
(* The user. *)

clicked == <<member, identity, principals, store, codes, jar>>
Send(p, r, busy) ==
    /\ Event
    /\ requests' = requests \cup {r}
    /\ tab' = [tab EXCEPT ![p].busy = busy]
    /\ UNCHANGED clicked

SubmitEmail(p) ==
    /\ tab[p].page = "login" /\ tab[p].busy = None
    /\ \E e \in Email :
         Send(p, [tab |-> p, no |-> Fresh, op |-> "start", stage |-> "sent",
                  cookie |-> jar, email |-> e], "yes")

\* The user types a code that was sent, whichever, or mistypes one: 0.
SubmitCode(p) ==
    /\ tab[p].page = "verify" /\ tab[p].busy = None
    /\ \E c \in {0} \cup {d \in DOMAIN codes : codes[d].email = tab[p].email} :
         Send(p, [tab |-> p, no |-> Fresh, op |-> "verify", stage |-> "sent",
                  cookie |-> jar, email |-> tab[p].email, code |-> c, principal |-> 0],
              "yes")

\* A business that is not being switched to can be picked meanwhile.
Pick(p) ==
    /\ tab[p].page = "tenant"
    /\ \E t \in tab[p].shown \ {tab[p].busy} :
         Send(p, [tab |-> p, no |-> Fresh, op |-> "switch", stage |-> "sent",
                  cookie |-> jar, tenant |-> t], t)

SignOut(p) ==
    /\ tab[p].page = "app"
    /\ Send(p, [tab |-> p, no |-> Fresh, op |-> "logout", stage |-> "sent",
                cookie |-> jar], None)

\* Another page is loaded, by its address: nothing waits for the answers to
\* what the last one sent.
Loads(p, page) ==
    /\ tab' = [tab EXCEPT ![p] = page]
    /\ requests' = {IF r.tab = p THEN [r EXCEPT !.tab = None] ELSE r : r \in requests}
Visit(p, page) ==
    /\ Event
    /\ Loads(p, IF page = "login" THEN PageAt(page)
                ELSE IF page = "home" THEN Home(jar) ELSE Rendered(page, jar))
    /\ UNCHANGED clicked

-----------------------------------------------------------------------------
(* The routes. *)

Has(r, op, stage) == r.op = op /\ r.stage = stage
Replace(r, q) == requests' = (requests \ {r}) \cup {q}
Answer(r, stage) == [tab |-> r.tab, no |-> r.no, op |-> r.op, stage |-> stage]
Accept(r, session, count) == [tab |-> r.tab, no |-> r.no, op |-> r.op, stage |-> "ok",
                              cookie |-> session, count |-> count]
served == <<member, jar, tab, eventsLeft>>

\* generate(): a new code takes the place of the last one of that replica.
Start(r, x) ==
    /\ Has(r, "start", "sent")
    /\ store' = [store EXCEPT ![<<x, r.email>>] =
                  [code |-> Len(codes) + 1, attempts |-> 0, expired |-> FALSE]]
    /\ codes' = Append(codes, [email |-> r.email, at |-> x, tried |-> 0, used |-> 0,
                               gone |-> FALSE])
    /\ Replace(r, [tab |-> r.tab, no |-> r.no, op |-> r.op, stage |-> "ok",
                   email |-> r.email])
    /\ UNCHANGED <<identity, principals, served>>

\* verify(): whether the code is right, and what is left of the entry.
Checked_Strict(entry, code) ==
    IF entry = Nothing \/ entry.expired \/ entry.attempts + 1 >= MaxAttempts
      THEN [right |-> FALSE, left |-> Nothing]
    ELSE IF code = entry.code THEN [right |-> TRUE, left |-> Nothing]
    ELSE [right |-> FALSE, left |-> [entry EXCEPT !.attempts = @ + 1]]
Checked(entry, code) ==
    IF entry = Nothing \/ entry.expired \/ entry.attempts + 1 > MaxAttempts
      THEN [right |-> FALSE, left |-> Nothing]
    ELSE IF code = entry.code THEN [right |-> TRUE, left |-> Nothing]
    ELSE [right |-> FALSE, left |-> [entry EXCEPT !.attempts = @ + 1]]
Tried(code, right) == [code EXCEPT !.tried = @ + 1,
                                   !.used = @ + IF right THEN 1 ELSE 0]
\* Whichever replica the request reaches looks into its own STORE.
Verify(r, x) ==
    /\ Has(r, "verify", "sent")
    /\ LET entry == store[<<x, r.email>>]
           check == Checked(entry, r.code)
       IN  /\ store' = [store EXCEPT ![<<x, r.email>>] = check.left]
           /\ codes' = IF entry = Nothing THEN codes
                       ELSE [codes EXCEPT ![entry.code] = Tried(@, check.right)]
           /\ Replace(r, IF check.right THEN [r EXCEPT !.stage = "resolve"]
                         ELSE Answer(r, "error"))
    /\ UNCHANGED <<identity, principals, served>>

\* resolveEmailPrincipal(): the e-mail is looked up, and a principal created
\* with it where there is none, in one transaction that UNIQUE may refuse.
Resolve(r) ==
    /\ Has(r, "verify", "resolve")
    /\ Replace(r, IF identity[r.email] = 0 THEN [r EXCEPT !.stage = "create"]
                  ELSE [r EXCEPT !.stage = "members", !.principal = identity[r.email]])
    /\ UNCHANGED <<identity, principals, store, codes, served>>

CreatePrincipal(r) ==
    /\ Has(r, "verify", "create")
    /\ IF identity[r.email] # 0
         THEN Replace(r, Answer(r, "error")) /\ UNCHANGED <<identity, principals>>
         ELSE /\ principals' = principals + 1
              /\ identity' = [identity EXCEPT ![r.email] = principals + 1]
              /\ Replace(r, [r EXCEPT !.stage = "members", !.principal = principals + 1])
    /\ UNCHANGED <<store, codes, served>>

\* The only business of a user is chosen.  A user with none or several keeps
\* what the cookie held.
SignedIn(r, tenants) ==
    IF Cardinality(tenants) = 1
      THEN Session(r.email, r.principal, CHOOSE t \in tenants : TRUE, r.principal)
    ELSE IF r.cookie = Nothing THEN Session(r.email, r.principal, None, r.principal)
    ELSE Session(r.email, r.principal, r.cookie.tenant, r.cookie.by)
SignIn(r) ==
    /\ Has(r, "verify", "members")
    /\ LET tenants == Memberships(r.principal)
       IN  Replace(r, Accept(r, SignedIn(r, tenants), Cardinality(tenants)))
    /\ UNCHANGED <<identity, principals, store, codes, served>>

\* Whoever is signed in by now switches, if the business is theirs.  A request
\* without a session is sent on to the login page, and may be taken for done.
Switch_Listed(r) ==
    /\ Has(r, "switch", "sent") /\ r.cookie # Nothing
    /\ Replace(r, Accept(r, Session(r.cookie.email, r.cookie.principal, r.tenant,
                                    r.cookie.principal), 1))
    /\ UNCHANGED <<identity, principals, store, codes, served>>
Switch(r) ==
    /\ Has(r, "switch", "sent") /\ r.cookie # Nothing
    /\ Replace(r, IF r.tenant \notin Memberships(r.cookie.principal)
                    THEN Answer(r, "error")
                  ELSE Accept(r, Session(r.cookie.email, r.cookie.principal, r.tenant,
                                         r.cookie.principal), 1))
    /\ UNCHANGED <<identity, principals, store, codes, served>>
Redirect(r) ==
    /\ Has(r, "switch", "sent") /\ r.cookie = Nothing
    /\ \E stage \in {"ok", "error"} : Replace(r, Answer(r, stage))
    /\ UNCHANGED <<identity, principals, store, codes, served>>

Logout(r) ==
    /\ Has(r, "logout", "sent")
    /\ Replace(r, Accept(r, Nothing, 0))
    /\ UNCHANGED <<identity, principals, store, codes, served>>

\* The browser takes the cookie of an answer as soon as its head is there, if
\* that much of it comes before the answer is broken off.
HeadTaken(r) == jar' \in {jar} \cup
    IF r.stage = "ok" /\ "cookie" \in DOMAIN r THEN {r.cookie} ELSE {}

\* The database or the network fails the request, before or after its work.
Fail(r) ==
    /\ r.stage # "error" /\ Event
    /\ HeadTaken(r)
    /\ Replace(r, Answer(r, "error"))
    /\ UNCHANGED <<member, identity, principals, store, codes, tab>>

\* Ten minutes pass, or a replica restarts and forgets its codes.
Expire(s) ==
    /\ store[s] # Nothing /\ ~store[s].expired /\ Event
    /\ store' = [store EXCEPT ![s].expired = TRUE]
    /\ codes' = [codes EXCEPT ![store[s].code].gone = TRUE]
    /\ UNCHANGED <<member, identity, principals, jar, tab, requests>>
Restart(x) ==
    /\ \E e \in Email : store[<<x, e>>] # Nothing
    /\ Event
    /\ store' = [s \in Replica \X Email |-> IF s[1] = x THEN Nothing ELSE store[s]]
    /\ codes' = [c \in DOMAIN codes |->
                    [codes[c] EXCEPT !.gone = @ \/ codes[c].at = x]]
    /\ UNCHANGED <<member, identity, principals, jar, tab, requests>>

-----------------------------------------------------------------------------
(* The answers. *)

received == <<member, identity, principals, store, codes, eventsLeft>>
Taken(r, op, stage) == Has(r, op, stage) /\ r.tab # None
GoesOn(r, page) == /\ tab' = [tab EXCEPT ![r.tab] = page]
                   /\ requests' = requests \ {r}

Started(r) ==
    /\ Taken(r, "start", "ok")
    /\ GoesOn(r, [PageAt("verify") EXCEPT !.email = r.email])
    /\ UNCHANGED <<jar, received>>

Verified(r) ==
    /\ Taken(r, "verify", "ok")
    /\ jar' = r.cookie
    /\ GoesOn(r, IF r.count = 0 THEN PageAt("onboarding")
                 ELSE IF r.count > 1 THEN Rendered("tenant", r.cookie)
                 ELSE Home(r.cookie))
    /\ UNCHANGED received

Switched(r) ==
    /\ Taken(r, "switch", "ok")
    /\ jar' = IF "cookie" \in DOMAIN r THEN r.cookie ELSE jar
    /\ GoesOn(r, Home(jar'))
    /\ UNCHANGED received

\* Signing out goes on to the login page whatever the route answered, unless
\* no answer came.
LoggedOut(r) ==
    /\ \/ Taken(r, "logout", "ok") /\ jar' = Nothing
       \/ Taken(r, "logout", "error") /\ jar' = jar
    /\ tab' = [tab EXCEPT ![r.tab] = PageAt("login")]
    /\ requests' = {IF q.tab = r.tab THEN [q EXCEPT !.tab = None] ELSE q
                    : q \in requests \ {r}}
    /\ UNCHANGED received

\* Every form sets its button free again, and shows the error.
Refused_Stuck(r) ==
    /\ r.stage = "error" /\ r.tab # None
    /\ requests' = requests \ {r}
    /\ UNCHANGED <<tab, jar, received>>
Refused(r) ==
    /\ r.stage = "error" /\ r.tab # None
    /\ requests' = requests \ {r}
    /\ tab' = [tab EXCEPT ![r.tab].busy = None]
    /\ UNCHANGED <<jar, received>>

\* The answer to a page that is gone.
Dropped(r) ==
    /\ r.stage \in {"ok", "error"} /\ r.tab = None
    /\ HeadTaken(r)
    /\ requests' = requests \ {r}
    /\ UNCHANGED <<tab, received>>

-----------------------------------------------------------------------------

Serve(r) == \/ \E x \in Replica : Start(r, x) \/ Verify(r, x)
            \/ Resolve(r) \/ CreatePrincipal(r) \/ SignIn(r)
            \/ Switch(r) \/ Redirect(r) \/ Logout(r)
Receive(r) == \/ Started(r) \/ Verified(r) \/ Switched(r) \/ LoggedOut(r)
              \/ Refused(r) \/ Dropped(r)

AccountsNext ==
    \/ \E p \in Tab :
         \/ SubmitEmail(p) \/ SubmitCode(p) \/ Pick(p) \/ SignOut(p)
         \/ \E page \in {"login", "home", "tenant", "app"} : Visit(p, page)
    \/ \E r \in requests : Serve(r) \/ Fail(r) \/ Receive(r)
    \/ \E s \in Replica \X Email : Expire(s)
    \/ \E x \in Replica : Restart(x)

AccountsSpec == AccountsInit /\ [][AccountsNext]_accountsVars

-----------------------------------------------------------------------------
(* Safety. *)

Sessions == {Nothing} \cup [email : Email, principal : 1 .. principals,
                         tenant : Tenant \cup {None}, by : 1 .. principals]

\* Every variable has its type.
AccountsTypeOK ==
    /\ identity \in [Email -> 0 .. principals]
    /\ jar \in Sessions
    /\ \A x \in Replica, e \in Email : store[<<x, e>>] # Nothing =>
         /\ store[<<x, e>>].code \in DOMAIN codes
         /\ codes[store[<<x, e>>].code].email = e /\ codes[store[<<x, e>>].code].at = x
         /\ store[<<x, e>>].attempts \in 0 .. MaxAttempts
    /\ \A p \in Tab : /\ tab[p].page \in {"login", "verify", "tenant", "app", "landing",
                                          "onboarding"}
                      /\ tab[p].shown \subseteq Tenant
                      /\ tab[p].busy \in Tenant \cup {None, "yes"}
    /\ \A r \in requests : /\ r.tab \in Tab \cup {None}
                           /\ "cookie" \in DOMAIN r => r.cookie \in Sessions
    /\ eventsLeft \in 0 .. MaxEvents

\* However many tabs try it, a code signs in once, and as one of its first
\* MaxAttempts tries.
CodeOnce ==
    \A c \in DOMAIN codes :
        /\ codes[c].used <= 1
        /\ codes[c].used = 1 => codes[c].tried <= MaxAttempts

\* Two first sign-ins of one user at once leave one principal, and no principal
\* without an e-mail.
OnePrincipalPerEmail ==
    LET known == {e \in Email : identity[e] # 0}
    IN  /\ Cardinality({identity[e] : e \in known}) = Cardinality(known)
        /\ principals = Cardinality(known)

\* A session works on a business its user is a member of, whichever pages were
\* open when the user changed; or on the one the cookie was left with when a
\* user signed in who has no business, or a choice of them.
TenantOfUser ==
    jar # Nothing /\ jar.tenant # None =>
        /\ jar.tenant \in Memberships(jar.by)
        /\ jar.by # jar.principal => Cardinality(Memberships(jar.principal)) # 1

\* Codes, principals and the session's business agree with who signed in.
AccountsInv == AccountsTypeOK /\ CodeOnce /\ OnePrincipalPerEmail /\ TenantOfUser

\* A form whose button is held by what it sent has a request whose answer is
\* still to come and goes to that page: however answers, errors, other clicks and
\* other tabs cross, no form is left busy with nothing to free it.
FormsAwaitAnswers ==
    \A p \in Tab : tab[p].busy # None => \E r \in requests : r.tab = p

(* What a step may not do. *)

\* The replica that sent a user a code refuses it only when the code expired,
\* was forgotten or used, was tried MaxAttempts times, or when that replica sent
\* a newer one.  Another replica knows nothing of it and refuses it.
Good(c) == /\ \A d \in DOMAIN codes :
                codes[d].email = codes[c].email /\ codes[d].at = codes[c].at => d <= c
           /\ ~codes[c].gone /\ codes[c].used = 0 /\ codes[c].tried < MaxAttempts
RefusedForCause ==
    [][\A r \in requests, x \in Replica :
         Has(r, "verify", "sent") /\ Verify(r, x) =>
             \/ r.code = 0 \/ codes[r.code].at # x \/ ~Good(r.code)
             \/ codes'[r.code].used = 1]_accountsVars
=============================================================================
