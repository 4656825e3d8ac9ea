# VEDA in TLA+

A verification project for VEDA (Devotron), the multi-tenant commerce-agent
platform of this repository: TLA+ modules of its core and of its dashboard, the
TLC configurations that check them on small instances, and theorems that TLAPS
proves for every value of the constants.  `PROJECT.json` is the machine-readable side of this
file: the components, the runs, the lines each definition models, the hazards
and the findings.

## 1. The system

A customer's chat message travels through the first parts below; the services
and the dashboard keep what these parts read.

| part | state it keeps | operations | talks to |
|---|---|---|---|
| edge webhooks and adapters (`apps/edge`, TypeScript, 2 replicas) | Redis: idempotency keys, 24-hour window keys, principal cache; Postgres: principals, identifiers | a webhook POST per channel: answer 200, deduplicate, resolve the sender, publish | provider, Redis, Postgres, Kafka |
| Kafka clients (`packages/kafka-client`, `veda_shared/infra/kafka.py`) | topic logs, committed offsets, group membership | publish (keyed by tenant), consume, commit | everything |
| orchestrator dispatcher (`apps/orchestrator`, 2 replicas) | one consumer task per process | handle one inbound event, publish the reply, commit | Kafka, agents |
| business agent, conversation log | `threads` (Postgres), `messages` (Mongo) | append inbound, run one harness turn, append outbound | harness |
| **agent harness** (`orchestrator/harness`) | `HarnessState` in memory, `harness_journal` in Mongo | one turn: a loop of model call and seven sites | LLM router, capabilities, tools |
| outbound sender (`apps/edge/src/sender`) | consumer of the outbound log | window check, template fallback, send | provider, templates |
| order service | `orders` rows | create, transition, emit an event | Kafka |
| catalog service | `items` (Mongo), the search index (Qdrant) | upsert, delete, list | Mongo, Qdrant |
| blueprint service and loader | versions, `is_current`, Redis cache | create, mutate, load | Redis, Postgres |
| API configuration and dynamic tools | `api_config`, `api_tools`, two Redis caches | edit, lock, test; create, edit, activate, delete; look up and call | harness sites 1 and 2 |
| dashboard, accounts (`apps/dashboard`, 2 replicas) | codes in each process, the session in a cookie | start, verify, choose a business, sign out | Postgres |
| dashboard, integrations | provider rows of a business | load, merge a save into the row | edge, payments |
| dashboard, web chats | the conversation in the browser's storage | open, send, start anew | orchestrator over HTTP |
| dashboard, lists and blueprint editor | what each tab shows | list, act, list again; save the blueprint | services |
| identity, team, template services | principals, linking codes, invites, templates | resolve, link, invite, accept, check permission | Postgres |
| Veda onboarding (`orchestrator/veda`, `intake`) | session in Redis with a TTL, tenant rows in Postgres | interview, provision a tenant and its first blueprint | blueprint tables |
| business daemon | tenant lock (Redis), proposals | run jobs per tenant, write proposals | dashboard decides |
| LLM router | daily spend (Redis) | complete with provider chain, record usage | providers |
| capabilities | catalog (Mongo + Qdrant), payments, a2a, support | one handler per capability | harness site 2 |

What is hard in it, and what makes each part correct:

* *Harness.*  Nothing runs that the permission gate did not clear, in any order
  of exceptions and crashes; the caps bound what a turn does; every turn ends;
  the journal agrees with what was returned; every call is answered to the
  model once.
* *Message path.*  Deduplication happens before the message is safe, commits
  happen after a reply is published, a consumer stops for good when a publish
  fails, a partition moves while its owner is in the middle of a turn: no
  event may be skipped, and duplicates must come from interruptions only.
* *Services.*  Read-check-write handlers that run concurrently on several
  replicas; an event, an index or a cache entry written after the commit.
* *Caches.*  A turn works with a configuration, a tool or a blueprint that was
  read before an edit: it must be one that was committed, and age out.
* *Dashboard.*  Several tabs act on rows as they were when listed, save more
  than was edited, and get their answers late, in another order, or not at
  all: nothing is taken back that nobody edited, what a page shows is what its
  own acts made of the rows, a session stays its user's, and no page waits
  for ever.

`PROJECT.json` lists these under `hazards`, each at the line where it bites.
Two of them have no property yet: two final answers of one interview that both
provision (`intake/provisioning.py:102`), and the daemon's tenant lock, which
expires and is deleted without a look at its holder (`daemon/main.py:65`).

## 2. Plan

The order follows the message: first the part that acts on a customer's
behalf, then what carries messages to and from it, then the services and the
pages around.

| # | modules | abstract specification | status |
|---|---|---|---|
| 1 | `Harness`, `ConversationProofs` | `Turn` | checked; safety and refinement proved |
| 2 | `Dispatcher`, `DispatcherProofs` | `Consumption` | checked; safety and refinement proved |
| 3 | `Edge`, `EdgeProofs` | none | checked; safety proved |
| 4 | `Orders`, `BusinessProofs` | `OrderLifecycle` | checked; safety and refinement proved |
| 5 | `Sender`, `MessagingProofs` | `Consumption` | checked; safety and refinement proved |
| 6 | `ApiConfig`, `ApiTools`, `ApiConfigProofs`, `ApiToolsProofs` | none | checked; safety proved |
| 7 | `Integrations` (`MessagingProofs`), `Accounts` (`BusinessProofs`), `WebChat` (`ConversationProofs`) | none | checked; safety proved |
| 8 | `Lists` and `Blueprints`, composed by `Console`; `ConsoleProofs` | none | checked; safety proved |
| 9 | `Pipeline`: edge, dispatcher and sender on shared logs | end-to-end delivery | to do |
| 10 | `Onboarding`: session, provisioning, redelivered answers | one tenant per interview | to do |
| 11 | `Daemon`: tenant lock and jobs; `Linking`; `Router` | mutual exclusion by lease | to do |

Every invariant, action property and refinement that a run checks is a theorem;
what is left to TLC is liveness (section 6).  Modules 9 to 11 would bring their
own.  No module uses a RECURSIVE operator.

## 3. The modules

Each `X.tla` models one component; `MCX.tla` extends it with the small sets TLC
needs.  The theorems are in `XProofs.tla`, or with those of a neighbour: the
harness and the web chats in `ConversationProofs`, orders and accounts in
`BusinessProofs`, the sender and the credentials it sends with in
`MessagingProofs`.  Such a pair shares no names, so the later one of it calls its
`Init`, `Next`, `Spec` and `TypeOK` `ChatInit`, `AccountsNext`,
`IntegrationsSpec` and so on.  An operator `Op_Mistake` beside
`Op` (`Again_Dropped` beside `Again`) is `Op` with a plausible bug in it and is
used by nothing: put in `Op`'s place, it makes TLC refute the property that
`mutants` of `PROJECT.json` names, which shows that the property depends on it.

**`Harness`** models `run_harness` (`loop.py`) and its sites.  A step is the
code between two awaits; `pc` names the await.  `state` is `HarnessState`,
`journal` the Mongo document, `resp` and the sets after it are the local
variables of one iteration; `invoked`, `remembered`, `ticket` and `spent` are
what has left the process.  `BeginIteration` is the head of the loop with its
caps, `ModelReplies` the call, its accounting and the breaker, `GateCalls` Site
1, `VerifyMemory` Site 3, `RunParallel`/`StartSequential`/`RunSequential`
Site 2, `Swarm`, `Critic`, `Escalate` Sites 4 to 6, `Decide` Site 7, and
`Save` the journal with what follows it.  `Raise`, `RaiseInTool` and `Crash` end
the turn at any await; a turn that ends so in `save_state` may have written the
journal (`CutShort`), and after `RaiseInTool` the gathered calls go on, as
`asyncio.gather` leaves them.  The model's text is a set of tags and a sequence
of calls; message contents are one bit, whether they changed since the last
digest.  `load_pending_state` is never called by the repository, so nothing
resumes a suspended turn here either.  **`Turn`** is what the harness promises:
permitted work, at most one end, a journal that names it.

**`Dispatcher`** models the orchestrator's replicas on one tenant's partition
of `veda.messages.inbound`.  `task` is where `_dispatch` and
`handle_business_message` are, `position` and `committed` belong to
`KafkaConsumer`, `Assign` is the group coordinator.  `PublishFails` and
`CommitFails` stop the task for as long as the process lives, as an exception
leaves `run()`; `Crash` restarts it.  The turn inside is `Harness`; here it
replies, says nothing or fails.  **`Consumption`** is the abstract consumer:
events in order, a checkpoint only over finished ones.  Both `Dispatcher` and
`Sender` implement it.

**`Edge`** models the webhook handlers of two providers from `Deliver` (the
POST, answered 200 at once) over `Mark` (Redis SET NX), `Resolve` and `Insert`
(`resolvePrincipal`), `Translate` and `RefreshWindow` to `Publish`, one item at
a time, the whole batch translated before the first is published.  Requests run
concurrently; `InsertRefused` is the UNIQUE violation, which drops the batch.
Assumed: a provider's retries end within the 24 hours an idempotency key lives;
an item is in one payload only; the principal cache, filled by successful
resolutions, is never wrong (identifiers are not deleted).

**`Orders`** models `create_order` and `transition`: `Read` is the SELECT with
the check of `VALID_TRANSITIONS`, `Update` the UPDATE with its commit (READ
COMMITTED, by id, so one step), `Emit` the event.  **`OrderLifecycle`** is
what holds of it under concurrency: a move is legal from a status the order
*has had*, and is announced at most once.

**`Sender`** models `sendOnce` with `canSendFreeform`, `lookupApprovedTemplate`,
both WhatsApp adapters and the credential cache under kafkajs' consumer.  An
exception runs the same message again (`Again`); offsets are committed some
time after messages are resolved (`CommitOffsets`).  `Write`, `Expire`,
`SetStatus`, `Save` and `Rotate` are the world: windows, templates and
credentials change under the sender's feet.  kafkajs is external and modelled
from its use in `kafka-client/src/index.ts`.  The group starts with a committed
offset (the reset is `Dispatcher`'s subject), loading credentials is one step
with the use of them, and Meta's access token is taken to be set.

**`ApiConfig`** models one tenant's API connection: the panel in several tabs
(`Edit`, `Save`, `Lock`, `Unlock`, `Cancel`, `Sandbox`), the routes with a step
per transaction, and turns that look the row up through Redis.  `CheckSave` and
`WriteSave` are the two transactions of the PUT: the lock, and whether there is
a row, are read in the first and used in the second.  `Lookup`, `Fill` and
`Call` are `load_api_config` and the call; a turn looks twice.  Nothing in the
repository calls `invalidate_cache`, so only `Expire` ends an entry.  A panel's
`disturbed` says that two loads were under way at once or one failed.

**`ApiTools`** models the tools a tenant registers: the manager and its form,
the routes (`CheckCreate` and `Create` are again two transactions, with the
unique name between them), and turns, which read the list of active tools once
for the gate (`Gate`) and once more for the call (`Invoke`, `Fill`, `Call`).  The
form is not prefilled by the code, and PATCH ignores the name: so here.

**`Integrations`** models the WhatsApp, payment and network pages.  A field's value
is the number of the save it was typed for, a secret's that of the save that sent
it, which is all that tells them apart: a secret that a failed save leaves in the
form and the next one sends, for another number even, is as good as typed again.
`AisensyPrefill`, `PaymentPrefill` and their like say what a page shows of a row
and so sends back, `SaveNumber`, `SavePayment` and `PutRegistry` how the routes
merge it: a save gives a row the columns it carries (`Merged`).  `Stripe`'s columns,
the webhook secret of payments and display names behave like columns that are
there, and are left out.

**`Accounts`** models sign-in, the choice of a business and sign-out in the tabs
of one browser.  The session is all in the cookie: a request carries the cookie
as it was, `Verified`, `Switched` and `LoggedOut` put the answer's in its place
whenever it arrives.  `Resolve`, `CreatePrincipal` and `SignIn` are the awaits of
the verify route; `CreatePrincipal` can meet the UNIQUE identifier.  `store` is the
`STORE` of `lib/otp.ts`, one Map in each process: nothing binds a browser to a
replica (`k8s/base/dashboard.yaml`), so `Start` and `Verify` take place in
whichever the request reaches, and `Restart` forgets the codes of one.  An answer
that is broken off, or that nobody waits for, may still have set its cookie
(`HeadTaken`).  `by` in a session is who chose its business.

**`WebChat`** models the public chat of a business and the dashboard's test
chat.  `Mount` and `Render` are the two commits of React's effects: the first
writes a blank state over the stored conversation, the second what was read.
`LoseConnection` drops a connection whose request may still be served; `Reset` starts
anew while an answer may be on its way; `Told` is the answer about the customer's
status, which the page's badge is made of, and which `Reset` leaves as it was.

**`Lists`** models the orders, proposals, catalog and team pages over one
vocabulary: a list (`ListOrders`, ...), an act on a listed row, an addition by a
form.  The pages differ where their code does: which statuses they show, what
an error or a lost connection does to them, what follows an act.  Behind them
are the services: `CheckMove` and `Move` (an order's transition), `Approve` and
`Reject` (an UPDATE that needs `pending`), `StoreItem`/`IndexItem` and
`MarkItem`/`UnindexItem` (Mongo, then the index), `CreateInvite`.  `Fail` fails any
of them before its next step, `Move` also after its commit.

**`Blueprints`** models the blueprint's rows under READ COMMITTED, statement by
statement: a save marks the current rows (waiting for rows another transaction
has marked and looking again), numbers its version, inserts (waiting for the
same number, then refused) and commits; then the cache is invalidated and the
event published.  A mutation reads a current row first.  The editor replaces
its text by what it loads.  `loads` are the versions that turns have read, having
found no cache some time before, and will fill it with (`FillCache`).
**`Console`** puts the two side by side: one browser, `part` says which pages
its tabs are on, since the tables have nothing in common.

## 4. The runs

| run | instance | distinct states | shows |
|---|---|---|---|
| `harness` | 14 responses, 4 sets of caps, costs 0 and 1 | 706,901 | gate, caps, journal and answers, order of calls, refinement of `Turn`, `TurnEnds` |
| `dispatcher` | 2 replicas, 3 events, 2 interruptions | 226,331 | nothing lost and order, duplicates, record, refinement, service while up |
| `edge` | 2 requests, 3 payloads, 2 deliveries each, 1 interruption | 488,175 | dedup and one principal, batch order, window, loss has a cause, delivery |
| `orders` | 3 handlers, 2 orders, 5 commits, 1 interruption | 334,920 | moves from a snapshot, events once, refinement |
| `sender` | 2 replicas, 2 messages of 4 kinds, 1 change, 1 interruption | 410,092 | order of first copies, bounded copies, refinement, service |
| `api_config` | 2 tabs, 1 turn, 2 urls, 1 secret, 3 events | 1,051,422 | calls use one committed, locked, usable row; panels read their own writes; a lock holds; the cache catches up |
| `api_tools` | 2 tabs, 1 turn, 2 keys of one name, 3 events | 543,959 | calls are judged, names unique, only clicks activate, nothing deleted returns |
| `integrations` | 2 tabs, 2 numbers, 2 capabilities, 3 events | 648,569 | credentials of one save and usable, no silent change, pages stop loading |
| `accounts` | 2 replicas, 2 tabs, 2 users, 2 businesses, 2 tries, 5 events | 355,240 | codes once and refused for cause, one principal per address, the session's business, a busy form has an answer to come |
| `webchat` | 2 tabs of either kind, 4 events | 634,834 | one conversation, what is shown is remembered and in order, the badge's customer, waiting ends |
| `console` | 2 tabs, 2 rows and 3 clicks; or 1 editor, 3 edits, 2 saves and 2 loads of turns at a time | 507,398 | search and pages agree with the rows, statuses move legally, versions and cache; no page waits for ever, but for lists lost with the connection |
| `orders_legal_transitions` | 3 handlers, 4 commits | stops at the counterexample | section 7 |

An invariant named after its module (`TurnInv`, `EdgeInv`, `ConnectionInv`, ...)
is the conjunction of the type invariant and the named parts beside it.

Why these bounds.  *Harness:* one response for each way through the sites
(`MCHarness`), and sets of caps of which each makes another cap the first to
bite, including a blueprint that switches the loop off; three iterations are
enough for every ordered pair of iteration kinds and the step after it.
*Dispatcher:* two interruptions give a crash during the recovery from a
rebalance; three events put one behind, one under way and one ahead of it.
*Edge:* two requests and two deliveries let a redelivery overtake its first
delivery on every item; the batch has a new sender, an untranslatable item
between two texts, and a known sender.  *Orders:* three handlers let a move be
overtaken by two; five commits reach a terminal status and the move out of it.
*Sender:* two messages, because all claims relate a message to the one in front
of it; one interruption is a rebalance in the middle of a message, a crash or a
lost answer.  *The dashboard's runs:* two tabs, because every claim relates one
page's request to another's, and two requests of one tab; the bound on clicks
and failures together (`MaxEvents`, `MaxClicks`, `MaxEdits`) lets a pair of
requests overlap and a third one, or a failure, follow.  `accounts` needs five:
an address and a code for each of two users, and a switch.  In `console` one
editor is enough: reloaded in the middle of a save it makes another from what it
loaded then, other clients patch at the same time, and the service knows no tabs.
`webchat` needs four: two openings, a message and a new conversation.  Answers,
effects, cache expiry and the turns of an agent are not counted by these bounds.

Deadlock is not checked: a turn ends, the logs are bounded, and a request that
is answered leaves nothing to do.  `Orders.cfg` uses symmetry over handlers and
orders, `Accounts.cfg` over tabs and replicas; only safety is checked there, and
nothing else tells these values apart.  The other runs use none.

## 5. Fairness

*Harness:* `WF(Step)`.  The coroutine is run by the event loop and every awaited
client has a timeout; crash and exceptions are never assumed.  *Dispatcher:*
weak fairness of each replica's start (Kubernetes restarts a dead pod), of the
assignment of an unowned partition, and of a task's next step.  Rebalances of an
owned partition and failures are not fair.  A stopped consumer is *not*
restarted, because nothing in the code does.  *Edge:* weak fairness of each
handler's continuation; deliveries and redeliveries are not fair.  *Sender:* the
same as the dispatcher's tasks and assignment.  Repeating a message is a step
of the task, so `ServedInTurn` has to name what can keep one repeating.
`Orders` has no liveness property: a request may fail, and nothing repeats it.

*The dashboard's runs:* weak fairness of serving a request or handling its
answer, as a whole: every route ends and every browser handles what arrives.
Failures, lost connections, clicks and restarts are not fair, and liveness is
stated where the code handles them: the pages that catch a lost connection stop
loading, the two that do not (`TeamView`, `ProposalsList`) are excepted by name
when the connection is lost after the last list was asked for (`lost`).
`api_config` adds a turn's next step and the expiry of a cache entry, which is
Redis' own; `console` the statements of a transaction, of which one that waits
for another is not enabled.  `api_tools` and `accounts` state no liveness and no fairness:
that a form comes back is the invariant that the answer which frees it is still
to come.

## 6. Proofs

All theorems assume only the modules' named `ASSUME`s: types and disjointness of
the constants, for `Edge` also that an idempotency key belongs to one item, for
`ApiTools` that a browser has finitely many tabs (a request then has a number
of its own), for `Accounts` that the addresses are finitely many (there are as
many principals as users), for `WebChat` that no tab has the name that stands for
no tab, and for `Integrations` that there is a number and that capabilities,
columns and keys have different names.  The bounds are part of the models, and the proofs hold for every
value of them.  Every invariant named below was checked by TLC on its run's
instance before it was proved.

*Harness.*  `TypeInv` is `TypeOK` with `Idle` (nothing in flight outside Site
2).  `GateInv` strengthens `GatedExecution`: within an iteration, whatever is in
flight, queued or cleared is permitted, and nothing of this iteration was
invoked before Site 2; without it an `invoked` set that is right now says
nothing about the next call.  `SaveInv` adds that at `Save` the outcome is
decided; from the three, `TurnImplemented` maps every step to one of `Turn`, a
journal write that the turn does not survive to `Lose`.

`JournalAgreement` needs three more.  `AnswersInv` says at each site where the
considered calls are: cleared, refused, corrected, in flight, queued or
answered, and in one of these only; `EveryCallAnswered` is its last case, and
`CallsInOrder` follows from it, as a call that is neither in flight nor queued
has run.  `JournalInv` says the state in memory covers the side effects at all
times, so that `Save` makes the document cover them; `OutcomeInv`
says that nothing is decided before Site 7 but by the gate.  `LimitsKept` needs
counting: `BudgetInv` carries the check of `loop.py:306` from where it is made
to where the loop goes round, and `CountInv` says that what this iteration
invoked are calls of its response, each once, and that the gate left room for
all of them.

*Dispatcher.*  `OrderInv` is `NothingLost`, `InOrder`, `OwnerInv` (all before
the owner's position is finished, but for the event it holds) and `BoundInv`.
`NothingLost` alone is not inductive: a commit is right only because of what
the position says.  `RecordInv` does the same for replies.  For
`SecondRepliesExplained`, `AttemptInv` counts for each event its replies, the
replicas that are at work on it, and one more while it can still be fetched:
together at most one more than the interruptions.  A step that adds to one
takes from another or is an interruption.

*Edge.*  `ClaimInv` says of every request that its translated items are claimed,
distinct, held by no other request and not published; `PublishedOnce` follows.
`PrincipalInv` says the same of principals carried by requests.  `OrderInv`
relates what a request still holds of its batch to what is on the topic: the
events it holds are of items it has passed, in their order, and behind all that
is published of the batch; `BatchInOrder` speaks only of the latter.
`WindowInv` says that who wrote what a request is about to publish has a window,
which is opened one loop earlier.  `KnownInv` and `LossInv` say of an
uninterrupted run that a claimed text is with a request or on the topic, or its
batch met a refusal.

*Orders.*  `SnapshotInv` adds to `MovesFromSnapshot` that the row agrees with
the last commit (`Current`) and that every handler's read was of a status the
order had at the commit it remembers (`ReadInv`).  `EventInv` says a commit that
a handler still has to announce is announced by nobody else.  The refinement
uses both.

*Sender.*  `TypeInv` adds to `TypeOK` that only readable messages are worked on.
`OrderInv` says that commits, tasks and positions have ended messages behind
them only, and that the owner's position is just behind its message.
`HistoryInv` looks back from each delivery: the messages before it in the log
were delivered before it, left with a cause, or unreadable; the order of first
copies follows.  `AttemptInv` counts as the dispatcher's does.  The refinement
of `Consumption` uses `OrderInv`.

*ApiConfig.*  `TableInv` and `RequestsInv` say that the row is the last one
committed and that a save past its check was let through by an unlocked row;
`AgentInv` that the cache and every turn hold rows that were committed.
`ReadsOwnWrites` speaks of panels at rest, so `PanelInv` says of an undisturbed
panel that the one load it waits for is as new as its last write, or will be.
`LockHonoured` needs little more than `RequestsInv`.

*ApiTools.*  `TableInv` says that one tool bears a name and that whatever is
active is recorded as having been; `RequestsInv` that a save carries a draft and
a click one of the two statuses it can ask for; `TurnsInv` that the cache, and what
a turn holds of it, is a list with distinct names of versions that were active.
That a name can be judged on one version and called on another is why both
versions are in the invariant.

*Console.*  `BlueprintsInvariant` proves `BlueprintsInv` for any number of tabs,
edits and transactions at a time.  That the last version is current follows
from the number of the version that commits, and that number is only right
because of three facts about transactions under way, which `SavesInv` adds: a
version that is numbered is at most the one after the last; a transaction that
is to commit has exactly that number, as its insert was not refused; and there
is one such at a time, as the other's insert waits.  For mutations `Patches`
says that the version read is still there, as it was read, and in the content.
`CacheInv` follows the turns' reads and each save's invalidation, for any number of
versions held at a time.

`ListsInvariant` proves `ListsInv` for any rows, tabs and clicks.  The search
agrees with the catalog when nothing is under way because of what `IndexInv`
says while something is: they differ on an item only where a call will still see
to it, and no two additions are about one item.  `OwnActsShown` needs
`TimelyInv`, the counterpart of the panel's, and `FormsInv` knows the call a
busy form waits for.  `MovesKept` follows from what `CallsInv` says of a call
that has passed its check.

*WebChat.*  `ChatInv` says of a conversation, whether a page shows it or the
browser stores it, that an exchange is a turn the agent has taken, that turns are
shown in the order they were taken in, and that they were taken for the customer
the page speaks as (`EntriesInv`).  An answer that is still to come fits only
because of what is known of the request: its message is one turn at most
(`TurnsInv`), a page waits for one answer at a time, that to the last message it
shows, and no turn after it is shown already (`AwaitedInv`).  `OneConversation`
holds as long as nothing was disturbed, and is inductive with `OpeningInv`: of the
tabs of one kind, one at a time is between its two commits.
`BadgesOfTheCustomer` says that a badge about another customer than the page's is
left over from the page's own `Reset` and has not changed since.  `StatusInv` says
of an answer about a status, as long as its page waits for it, that it is about the
customer the page speaks as (`BadgeSet`); for the badges that stay, `BadgeInv` says
that they are on open public pages, which change their customer by `Reset` alone
(`BadgeKept`).

*Accounts.*  `SignInInv` has four parts.  `CodesInv` ties an entry of a replica to
what became of its code: sent by that replica, the same tries, not used, and gone
exactly when the entry has expired; and the last code that a replica sent to an
address has its entry there for as long as it is good.  The first makes `CodeOnce`
inductive, the second is what `CodesAreHonoured` needs: a good code's entry cannot
have been replaced or used up.  What the theorem grants is a code typed where it
was sent; section 7 has the other replica.
`IdentityInv` says that principals are numbered without gaps and that no two
addresses have the same; that there are as many of either is then counted.
`PagesInv` knows whose code a page asks for.  `RequestsInv` says that every
cookie on its way, in a request or an answer, is one the jar could hold.  That it
stays one is not a matter of the request: a principal's memberships must not
change when another one is created (`Lasting`), which holds because a new
principal is a member of nothing.
`FormsAreAnswered` is inductive beside `PagesInv`, which knows the pages, and
`RequestsInv`, which knows that a request keeps its tab as it is served.

*Integrations.*  `SettingsInv` follows a value from the row to the form and back.
`TabsInv` says that what was not edited is as the page shows it, if it shows
anything; `RequestsInv` that a save carries only such values and the edited ones,
and the secrets it was sent with; `RowsInv` that a number's secrets are of
one save.  `NothingElseChanges` follows: if a save changes a field that nobody
edited, its page showed another value of it than the row's.

Every invariant the runs check (`TurnInv`, `EdgeInv`, `DeliveryInv`, `OrdersInv`,
`SenderInv`, `ConnectionInv`, `ToolsInv`, `ListsInv`, `BlueprintsInv`,
`ConversationInv`, `AccountsInv`, `CredentialsInv`, and their parts) is a theorem
in the words of the run or follows from one, as are the refinements and the action
properties.

Model-checked only: the liveness properties (`TurnEnds`, `AllPublished`,
`ServedWhileUp`, `ServedInTurn`, `CacheCatchesUp`, `LoadingEnds`,
`PagesComeBack`, `WaitingEnds`), as the proof system reaches neither fairness nor
ENABLED.

## 7. Where code and documents differ

One disagreement is a run that TLC ends with a counterexample, and `findings`
quotes its lines: `LegalTransitions`, concurrent transitions leave a terminal
status (`order_service/main.py:110-129` against its own table).

The others were met while modelling.  They are behaviours of the models, and no
property of the passing runs forbids them.

On the message path:

* intents of `side_effect` calls reach the journal after the calls ran
  (`loop.py:471` against `sites/tools.py:4-6`, "journaled both before (intent)
  and after (result)");
* `<escalate>` beside a high-risk call finalizes the turn (`loop.py:397` against
  `sites/permission.py:8`, "HIGH -> always suspend turn");
* critic, swarm and compaction costs are charged and not counted
  (`sites/swarm.py:68` against `loop.py:61-62`);
* two failed publishes stop both consumers for good, though "Events accumulate
  in Kafka if consumers are down" (`spec/03_SYSTEM_ARCHITECTURE.md:475`);
* two first contacts of one customer lose a batch that was answered 200
  (`identity/resolver.ts:29`);
* the campaign API cannot send the template that was chosen
  (`channels/aisensy/adapter.ts:158-189`);
* a draft the critic flagged is sent when the response is final or capped
  (`loop.py:488` against `sites/critic.py:10-12`);
* a call removed as a stale memory claim is not fed back when the response also
  speaks (`sites/output.py:84` against `sites/memory_verify.py:5-6`);
* calls beyond the per-iteration cap get no answer (`loop.py:322` against the
  comment at 321);
* thinking-only outputs reset the no-progress streak
  (`tests/harness/test_loop.py:98`);
* a dynamic tool named like a built-in decides its risk (`sites/permission.py:86`
  against `risk.py:24`);
* a group without a commit starts at the log's end (`kafka.py:134`), past what a
  replica was handling when it died, although "Kafka is the buffer";
* after a rebalance in mid-turn replies can leave out of order
  (`spec/04_TECH_STACK.md:200`);
* AiSensy can announce one message under two notification ids, and the edge
  deduplicates notifications (`spec/08_CHANNEL_LAYER.md:13`);
* an order's move stays without an event when the publish fails
  (`order_service/main.py:1`).

In the dashboard and its services:

* the lock of an API connection is checked in one transaction and the update is
  made in another, so an update overruns a lock taken in between
  (`api-config/route.ts:75-102` against migration `0008:21`, "mutating requires
  explicit unlock"); `LockHoldsOnceDrained` is what holds;
* nothing calls `invalidate_cache`, so turns use an old connection or tool until
  the entry expires (`tools/loader.py:180`);
* editing a tool starts from a blank form and so clears `side_effect`
  (`ApiToolsManager.tsx:187-206`); PATCH ignores a new name; PATCH and DELETE of
  an id that is not there answer ok; `last_tested_at` is never written;
* two creations of a blueprint at once leave two current versions
  (`blueprint-service main.py:72-101` against
  `spec/06_BUSINESS_BLUEPRINT.md:478-479`); the loader takes the last one, the
  dashboard any; saving replaces another tab's edits, and what is typed during a
  save is lost to the reload; a failure after the commit answers 500 though the
  save is done; a mutation's event has no consumer and `mutate` no caller;
* a new WhatsApp number adds a second primary row, and readers take any
  (`LIMIT 1`); `AisensyForm`'s load is not caught and loads for ever; what is
  typed during a save is lost to the reload;
* a code that was just sent is refused when the request with it reaches the other
  process: each looks into its own Map (`lib/otp.ts:14,36-37`, "fine for
  single-instance dev"), and `k8s/base/dashboard.yaml:5` has two, whatever the mail
  says ("valid for 10 minutes", `otp.ts:61`); a code stays usable at the replica that
  sent it when a newer one was sent by the other, and tries are counted in each;
* signing in over another session with no business, or several to choose from,
  keeps the old session's business (`auth/verify/route.ts:34-35`); the answer
  to a switch or a sign-out that arrives late puts an old cookie back; the login
  page drops `next`; there is no `/onboarding` page; a switch without a session is
  redirected to the login page and looks successful;
* a chat's answer that comes after a restart of the conversation is shown in the
  new one; the test chat has one stored conversation for all businesses and
  users of a browser; the continuity badge needs two businesses, but each public
  page mints its own identifier; a new conversation keeps the old customer's
  status on the page (`PublicChat.tsx:149-153`), for good if the answer about the
  new one is an error (lines 101-102), which no badge shows as long as that needs
  two businesses;
* a save of WhatsApp or payment settings that fails leaves the secrets in the form,
  and the next one sends them, for whatever number it is then
  (`AisensyForm.tsx:78-90`, `PaymentForm.tsx:71-80`);
* `TeamView` and `ProposalsList` load for ever after a lost connection; an error
  hides the orders until the page is visited again; a form that was cancelled
  and opened again is closed by the old one's success; the pages do not look at
  the answers to their acts; nothing executes an approved proposal.

## 8. Not modelled

* *End-to-end pipeline.*  Edge, dispatcher and sender are each checked with their
  logs as an interface; their composition is the plan's next module.
* *Onboarding and provisioning.*  A loop of model calls over one session
  document.  Its hazard (two provisionings of one interview) is listed.
* *Business daemon, LLM router.*  The jobs write what a model answers; the lock
  and the daily budget are short checks whose hazards are listed or known
  (`llm_router/router.py:230`); the harness sees the router as a call that
  answers, fails or is late.
* *Identity and team services.*  Linking codes and the acceptance of an invite
  have no caller in the repository; the resolution of a sender is modelled where
  it is called, in the edge.
* *Capabilities.*  One call each, which the harness treats alike.
* *Directory, reviews, profiles, conversations, overview.*  Single statements.
* *Payment webhook, Twitter, Telegram.*  The first publishes without
  deduplication and is left for the pipeline; Twitter's inbound path is `Edge`'s
  loop without a window; Telegram's is a stub.
* Marketing site, deprecated services and the integration hub have no state of
  their own; deployment files are read only for replica counts and probes.

Within the modelled parts: formatting, prompts, encryption, media upload,
filters of lists, and the binding of `:content::jsonb` in the blueprint's
statements, which is the driver's.  Catalog points are indexed under ids that
Qdrant may refuse (`sku-...`, `catalog_service/main.py:39`; if it refuses them all,
only the failing branch of `IndexItem` is ever taken).  Nor are inputs modelled
that nothing in the repository sends: an inbound event that is not JSON, which
would end a dispatcher's task in the deserializer (`kafka.py:135`) as a failed
publish does, and the `risk_override` of a tool, which POST and PATCH take and the
form never holds (`tools/dispatcher.py:197`).  The sender's credential cache is
replaced when a webhook of another project comes in (`credentials.ts:116`), and
windows are kept per project (`adapter.ts:139`): `Sender` has one project per
tenant.  `components` of `PROJECT.json` gives the reason for each part.
