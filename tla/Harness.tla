------------------------------ MODULE Harness ------------------------------
(***************************************************************************)
(* One turn of the agent harness: run_harness() of                         *)
(* apps/orchestrator/orchestrator/harness/loop.py and the seven sites it   *)
(* walks in every iteration.                                               *)
(*                                                                         *)
(* A step is the code between two awaits.  What the sites keep in memory   *)
(* (state, messages, the parsed response) is lost when the process dies;   *)
(* what has left the process (capabilities invoked, memory notes, the      *)
(* escalation ticket, the journal document) is not.                        *)
(*                                                                         *)
(* The model's text is abstracted to what parse() returns: the tags it     *)
(* holds and the sequence of its <call>s.  Message contents are abstracted *)
(* to whether they changed since the digest was last taken.                *)
(***************************************************************************)
EXTENDS Integers, Sequences, FiniteSets

CONSTANTS
    Cap,              \* every name the model may write in a <call>
    BuiltIn,          \* the names of DEFAULT_RISK and CapabilityId
    DefaultRisk,      \* risk of a built-in; "medium" where the table has no row
    Override,         \* blueprint risk_override of a built-in, or "none"
    Tool,             \* active dynamic tools of the tenant
    ToolRisk,         \* what classify_risk() answers for a dynamic tool
    RequiresApproval, \* blueprint policies.requires_approval
    Verifiable,       \* names whose memory claims have a live source
    CriticEnabled,    \* blueprint policies.critic.enabled
    Response,         \* what parse() may return for one model output
    Price,            \* possible costs of one model call, in paise
    CapsSet           \* the HarnessCaps a tenant may run with

RiskLevel == {"low", "medium", "high", "deny"}

Tag == {"thinking", "say", "ask", "final", "swarm", "escalate",
        "request_approval", "recall", "remember"}

Call == [cap : Cap, side_effect : BOOLEAN, memory_claim : BOOLEAN]

HarnessCaps == [max_iterations : Nat, max_cost_paise : Nat,
                max_actions_per_iteration : Nat, max_total_actions : Nat,
                max_no_progress_iterations : Nat]

ASSUME HarnessAssumption ==
    /\ BuiltIn \subseteq Cap /\ Tool \subseteq Cap
    /\ DefaultRisk \in [BuiltIn -> RiskLevel]
    /\ Override \in [BuiltIn -> RiskLevel \cup {"none"}]
    /\ ToolRisk \in [Tool -> {"low", "medium", "high"}]
    /\ RequiresApproval \subseteq Cap /\ Verifiable \subseteq Cap
    /\ CriticEnabled \in BOOLEAN
    /\ \A r \in Response : /\ r = [tags |-> r.tags, calls |-> r.calls]
                           /\ r.tags \subseteq Tag
                           /\ r.calls \in Seq(Call)
    /\ Price \subseteq Nat /\ Price # {}
    /\ CapsSet \subseteq HarnessCaps

VARIABLES
    caps,         \* HarnessCaps of the turn, from the blueprint
    pc,           \* the await the turn is at
    state,        \* HarnessState, in memory
    journal,      \* this turn's harness_journal document
    next,         \* next value of the for loop over iterations
    fresh,        \* messages differ from those of the last digest
    totalActions, \* total_actions
    resp,         \* the response being processed
    cleared,      \* calls the gate cleared and Site 3 did not remove
    denied,       \* calls the gate dropped
    corrected,    \* calls Site 3 removed
    forced,       \* gate_short_circuit is SUSPEND_PERMISSION
    inflight,     \* gathered parallel calls that have not returned
    queue,        \* side_effect calls still to run
    answered,     \* calls that have a tool result
    flagged,      \* the critic answered REVISE
    invoked,      \* calls handed to a capability or tool, over the turn
    remembered,   \* iterations whose <remember> notes were written
    ticket,       \* support.escalation.create was invoked
    spent         \* what the router was really charged, all sites together

turnVars == <<resp, cleared, denied, corrected, forced, inflight, queue,
              answered, flagged>>
worldVars == <<invoked, remembered, ticket, spent>>
vars == <<caps, pc, state, journal, next, fresh, totalActions, turnVars,
          worldVars>>

-----------------------------------------------------------------------------
(* Site data and pure helpers *)

NoPending == [kind |-> "none", call |-> 0]
Pending == [kind : {"none", "explicit", "high_risk_capability",
                    "policy_required"}, call : Nat]

Outcome == {"pending", "iterate", "finalize", "fail", "expire",
            "suspended_at_permission"}
Code == {"none", "model_emitted_final_answer",
         "iteration_budget_reached_with_answer", "critic_escalated",
         "internal_error", "iteration_deadline_exceeded",
         "model_output_ambiguous", "loop_max_iterations", "loop_max_actions",
         "loop_no_progress", "task_deadline_exceeded", "budget_exceeded"}

NewState == [iteration |-> 0, outcome |-> "pending", code |-> "none",
             say |-> FALSE, pending |-> NoPending, outbound |-> "none",
             cost |-> 0, streak |-> 0, intents |-> {}, results |-> {}]
NoEntry == [NewState EXCEPT !.outcome = "none"]
NoResponse == [tags |-> {}, calls |-> <<>>]

Has(t) == t \in resp.tags
Blank == resp.tags = {} /\ resp.calls = <<>>

\* The calls left after the trim to max_actions_per_iteration.
Considered_Untrimmed == DOMAIN resp.calls
Considered == {i \in DOMAIN resp.calls : i <= caps.max_actions_per_iteration}
Name(i) == resp.calls[i].cap

\* risk.classify
Classify(c) == IF Override[c] # "none" THEN Override[c] ELSE DefaultRisk[c]

\* `tools` is what load_active_tools answered; the dynamic index wins.
Unknown(c, tools) == c \notin BuiltIn /\ c \notin tools
Risk(c, tools) == IF c \in tools THEN ToolRisk[c] ELSE Classify(c)
Dropped_EnabledInV1(c, tools) == Unknown(c, tools)
Dropped(c, tools) == Unknown(c, tools) \/ Risk(c, tools) = "deny"
Suspends_NoPolicy(c, tools) == ~Unknown(c, tools) /\ Risk(c, tools) = "high"
Suspends(c, tools) ==
    /\ ~Unknown(c, tools)
    /\ \/ Risk(c, tools) = "high"
       \/ Risk(c, tools) = "medium" /\ c \in RequiresApproval

CriticRuns == CriticEnabled /\ (Has("say") \/ Has("ask"))

\* output._build_outbound: an <ask> of this iteration wins over any <say>.
BuiltOutbound == IF Has("ask") THEN "ask"
                 ELSE IF state.say THEN "text" ELSE "none"

\* output.decide: the recorded cost has reached the cap.
OverBudget == state.cost >= caps.max_cost_paise

\* tools.execute: one error result per call the gate dropped.
DenialResults == denied

\* tools.execute: side_effect calls run one by one, in document order.
NextInQueue_AnyOrder(i) == i \in queue
NextInQueue(i) == i \in queue /\ \A j \in queue : i <= j

\* save_state: the whole in-memory state replaces the journal document.
JournalEntry_LastOnly == IF state.outcome = "iterate" THEN journal ELSE state
JournalEntry == state

\* `for iteration in range(...)`.
NextIteration_Stuck == next
NextIteration == next + 1

-----------------------------------------------------------------------------
(* The loop *)

Init ==
    /\ caps \in CapsSet
    /\ pc = "top"
    /\ state = NewState
    /\ journal = NoEntry
    /\ next = 0 /\ totalActions = 0
    /\ fresh = TRUE
    /\ resp = NoResponse
    /\ cleared = {} /\ denied = {} /\ corrected = {}
    /\ forced = FALSE /\ flagged = FALSE
    /\ inflight = {} /\ queue = {} /\ answered = {}
    /\ invoked = {} /\ remembered = {} /\ ticket = FALSE /\ spent = 0

\* _terminate followed by save_state and return.
Terminate(outcome, code) ==
    /\ state' = [state EXCEPT !.outcome = outcome, !.code = code]
    /\ pc' = "save"

\* Site 5 and the no-progress breaker.  Compaction replaces the head of the
\* messages by a summary the router is paid for, so the digest changes.
BeginIteration ==
    /\ pc = "top" /\ next < caps.max_iterations
    /\ next' = NextIteration
    /\ \E compact \in BOOLEAN :
         LET changed == fresh \/ compact
             streak  == IF changed THEN 0 ELSE state.streak + 1
             begun   == [state EXCEPT !.iteration = next, !.streak = streak]
         IN /\ \E p \in Price : spent' = spent + (IF compact THEN p ELSE 0)
            /\ IF ~changed /\ streak >= caps.max_no_progress_iterations
               THEN /\ state' = [begun EXCEPT !.outcome = "expire",
                                              !.code = "loop_no_progress"]
                    /\ pc' = "save"
               ELSE state' = begun /\ pc' = "model"
    /\ fresh' = FALSE
    /\ UNCHANGED <<caps, journal, totalActions, turnVars, invoked, remembered,
                   ticket>>

\* The for loop is exhausted without an outcome (max_iterations is 0).
FallThrough ==
    /\ pc = "top" /\ next >= caps.max_iterations
    /\ Terminate("expire", "loop_max_iterations")
    /\ UNCHANGED <<caps, journal, next, fresh, totalActions, turnVars, worldVars>>

\* get_router().complete() raised: provider chain exhausted or tenant budget.
ModelCallFails ==
    /\ pc = "model"
    /\ Terminate("fail", "internal_error")
    /\ UNCHANGED <<caps, journal, next, fresh, totalActions, turnVars, worldVars>>

\* The answer came after max_iteration_wallclock_ms: paid for, not recorded.
ModelCallLate ==
    /\ pc = "model"
    /\ \E p \in Price : spent' = spent + p
    /\ Terminate("fail", "iteration_deadline_exceeded")
    /\ UNCHANGED <<caps, journal, next, fresh, totalActions, turnVars,
                   invoked, remembered,
                   ticket>>

\* The answer is recorded and parsed; <final/> beside an actionable tag fails
\* the turn, too many calls over the turn expire it, the rest goes to Site 1.
ModelReplies ==
    /\ pc = "model"
    /\ \E r \in Response, p \in Price :
         LET paid  == [state EXCEPT !.cost = @ + p]
             total == totalActions + Len(r.calls)
             ambiguous == /\ "final" \in r.tags
                          /\ r.calls # <<>> \/ {"ask", "swarm"} \cap r.tags # {}
         IN /\ resp' = r
            /\ spent' = spent + p
            /\ totalActions' = IF ambiguous THEN totalActions ELSE total
            /\ \/ /\ ambiguous
                  /\ state' = [paid EXCEPT !.outcome = "fail",
                                           !.code = "model_output_ambiguous"]
                  /\ pc' = "save"
               \/ /\ ~ambiguous /\ total > caps.max_total_actions
                  /\ state' = [paid EXCEPT !.outcome = "expire",
                                           !.code = "loop_max_actions"]
                  /\ pc' = "save"
               \/ /\ ~ambiguous /\ total <= caps.max_total_actions
                  /\ state' = paid
                  /\ pc' = "gate"
    /\ cleared' = {} /\ denied' = {} /\ corrected' = {} /\ answered' = {}
    /\ forced' = FALSE /\ flagged' = FALSE
    /\ UNCHANGED <<caps, journal, next, fresh, inflight, queue, invoked, remembered,
                   ticket>>

-----------------------------------------------------------------------------
(* Site 1, the permission gate *)

Gated(pending, ok, no) ==
    /\ pc = "gate" /\ pc' = "verify"
    /\ state' = [state EXCEPT !.pending = pending]
    /\ cleared' = ok /\ denied' = no
    /\ UNCHANGED <<caps, journal, next, fresh, totalActions, resp, corrected,
                   inflight, queue, answered, flagged, worldVars>>

\* A <request_approval> suspends before any call is looked at.
GateExplicit ==
    /\ Has("request_approval")
    /\ Gated([kind |-> "explicit", call |-> 0], {}, {})
    /\ forced' = TRUE

\* Calls are classified in document order.  The first that needs approval
\* suspends the turn; those before it stay cleared or dropped, those after it
\* are never looked at.  Loading the dynamic tools may fail: then there are none.
GateCalls ==
    /\ ~Has("request_approval")
    /\ \E tools \in {Tool, {}} :
         LET needs  == {i \in Considered : Suspends(Name(i), tools)}
             before == {i \in Considered : \A j \in needs : i < j}
             ok     == {i \in before : ~Dropped(Name(i), tools)}
         IN \/ /\ needs = {}
               /\ Gated(state.pending, ok, before \ ok)
               /\ forced' = FALSE
            \/ \E i \in needs :
                 /\ \A j \in needs : i <= j
                 /\ Gated([kind |-> IF Risk(Name(i), tools) = "high"
                                    THEN "high_risk_capability"
                                    ELSE "policy_required",
                           call |-> i], ok, before \ ok)
                 /\ forced' = TRUE

-----------------------------------------------------------------------------
(* Sites 3, 2, 6 and 4 *)

\* Any claim with a live source may turn out stale; it leaves the cleared list.
VerifyMemory ==
    /\ pc = "verify" /\ pc' = "remember"
    /\ \E stale \in SUBSET {i \in cleared : /\ resp.calls[i].memory_claim
                                            /\ Name(i) \in Verifiable} :
         /\ cleared' = cleared \ stale
         /\ corrected' = stale
    /\ UNCHANGED <<caps, state, journal, next, fresh, totalActions, resp, denied,
                   forced, inflight, queue, answered, flagged, worldVars>>

\* <remember> notes are written whether or not the gate suspended the turn.
\* Then, unless it did, the calls without side_effect are gathered and the
\* denied ones are answered with an error.
RememberAndStartTools ==
    /\ pc = "remember"
    /\ remembered' = IF Has("remember") THEN remembered \cup {state.iteration}
                                        ELSE remembered
    /\ IF forced
       THEN pc' = "swarm" /\ UNCHANGED <<inflight, queue, answered>>
       ELSE /\ pc' = "tools"
            /\ inflight' = {i \in cleared : ~resp.calls[i].side_effect}
            /\ queue' = {i \in cleared : resp.calls[i].side_effect}
            /\ answered' = DenialResults
    /\ UNCHANGED <<caps, state, journal, next, fresh, totalActions, resp, cleared,
                   denied, corrected, forced, flagged, invoked,
                   ticket, spent>>

Invocation(i) == [iteration |-> state.iteration, call |-> i, cap |-> Name(i),
                  side_effect |-> resp.calls[i].side_effect]

\* One gathered call runs.  When another raised, asyncio.gather has already
\* given up but does not cancel the rest: they run on in an aborted turn.
RunParallel ==
    /\ pc \in {"tools", "aborted"}
    /\ \E i \in inflight :
         /\ inflight' = inflight \ {i}
         /\ invoked' = invoked \cup {Invocation(i)}
         /\ answered' = answered \cup {i}
    /\ UNCHANGED <<caps, pc, state, journal, next, fresh, totalActions, resp,
                   cleared, denied, corrected, forced, queue, flagged,
                   remembered,
                   ticket, spent>>

\* The next side_effect call: its intent is appended (in memory) ...
StartSequential ==
    /\ pc = "tools" /\ inflight = {}
    /\ \E i \in queue :
         /\ NextInQueue(i)
         /\ state' = [state EXCEPT !.intents = @ \cup {<<state.iteration, i>>}]
    /\ pc' = "invoke"
    /\ UNCHANGED <<caps, journal, next, fresh, totalActions, turnVars, worldVars>>

\* ... it runs, and its result is appended.
RunSequential ==
    /\ pc = "invoke" /\ pc' = "tools"
    /\ \E i \in queue :
         /\ NextInQueue(i)
         /\ queue' = queue \ {i}
         /\ invoked' = invoked \cup {Invocation(i)}
         /\ answered' = answered \cup {i}
         /\ state' = [state EXCEPT !.results = @ \cup {<<state.iteration, i>>}]
    /\ UNCHANGED <<caps, journal, next, fresh, totalActions, resp, cleared, denied,
                   corrected, forced, inflight, flagged, remembered,
                   ticket, spent>>

ToolsDone ==
    /\ pc = "tools" /\ inflight = {} /\ queue = {}
    /\ pc' = "swarm"
    /\ UNCHANGED <<caps, state, journal, next, fresh, totalActions, turnVars,
                   worldVars>>

\* Site 6 runs even in a suspended turn; its own errors become results.
Swarm ==
    /\ pc = "swarm" /\ pc' = "critic"
    /\ IF Has("swarm") THEN \E p \in Price : spent' = spent + p
                       ELSE UNCHANGED spent
    /\ UNCHANGED <<caps, state, journal, next, fresh, totalActions, turnVars,
                   invoked, remembered,
                   ticket>>

\* Site 4, then say is accumulated onto the state.
Critic ==
    /\ pc = "critic" /\ pc' = "decide"
    /\ IF CriticRuns
       THEN flagged' \in BOOLEAN /\ \E p \in Price : spent' = spent + p
       ELSE flagged' = FALSE /\ UNCHANGED spent
    /\ state' = [state EXCEPT !.say = @ \/ Has("say")]
    /\ UNCHANGED <<caps, journal, next, fresh, totalActions, resp, cleared, denied,
                   corrected, forced, inflight, queue, answered, invoked, remembered,
                   ticket>>

-----------------------------------------------------------------------------
(* Escalation, Site 7 and the journal *)

\* An <escalate> opens a ticket and ends the turn before Site 7 sees a
\* suspension.
Escalate ==
    /\ pc = "decide" /\ Has("escalate")
    /\ ticket' = TRUE
    /\ state' = [state EXCEPT !.outcome = "finalize", !.code = "critic_escalated",
                              !.outbound = "escalation"]
    /\ pc' = "save"
    /\ UNCHANGED <<caps, journal, next, fresh, totalActions, turnVars, invoked,
                   remembered, spent>>

\* output.decide and the termination code set from its answer.  `late` is
\* elapsed_ms >= max_wallclock_ms, read once for both.
ImplicitFinal == /\ cleared = {} /\ ~Has("swarm")
                 /\ state.say \/ Has("ask")

Decision(late) ==
    IF forced THEN [state EXCEPT !.outcome = "suspended_at_permission"]
    ELSE IF next >= caps.max_iterations \/ late \/ OverBudget
    THEN [state EXCEPT
            !.outcome = "expire", !.outbound = BuiltOutbound,
            !.code = IF late THEN "task_deadline_exceeded"
                     ELSE IF OverBudget
                     THEN "budget_exceeded" ELSE "loop_max_iterations"]
    ELSE IF Has("final") \/ ImplicitFinal
    THEN [state EXCEPT
            !.outcome = "finalize", !.outbound = BuiltOutbound,
            !.code = IF Has("final") THEN "model_emitted_final_answer"
                     ELSE "iteration_budget_reached_with_answer"]
    ELSE [state EXCEPT !.outcome = "iterate"]

Decide ==
    /\ pc = "decide" /\ ~Has("escalate")
    /\ \E late \in BOOLEAN : state' = Decision(late)
    /\ pc' = "save"
    /\ UNCHANGED <<caps, journal, next, fresh, totalActions, turnVars, worldVars>>

\* save_state, then return, or append the response and the tool results to
\* the messages and go round.  Any text, even one that parses to nothing,
\* changes them; only an empty one leaves them as they were.
Save ==
    /\ pc = "save"
    /\ journal' = JournalEntry
    /\ IF state.outcome = "iterate"
       THEN pc' = "top" /\ fresh' \in (IF Blank THEN BOOLEAN ELSE {TRUE})
       ELSE pc' = "done" /\ UNCHANGED fresh
    /\ UNCHANGED <<caps, state, next, totalActions, turnVars, worldVars>>

\* A turn cut short: the write that save_state waited for may be in the journal.
CutShort == journal' = journal \/ (pc = "save" /\ journal' = JournalEntry)

\* An exception that no site catches: the summariser, a live-source lookup, a
\* memory write, the critic, or the journal write.  The dispatcher logs it and
\* the turn is over.
Raise ==
    /\ \/ pc = "top" /\ next < caps.max_iterations
       \/ pc = "verify" /\ (cleared # {} \/ Has("recall"))
       \/ pc = "remember" /\ Has("remember")
       \/ pc = "critic" /\ CriticRuns
       \/ pc = "save"
    /\ pc' = "aborted" /\ CutShort
    /\ UNCHANGED <<caps, state, next, fresh, totalActions, turnVars, worldVars>>

\* Looking up a dynamic tool raises too; the gathered calls beside it go on.
RaiseInTool ==
    /\ \/ /\ pc = "tools"
          /\ \E i \in inflight : /\ Name(i) \notin BuiltIn
                                /\ inflight' = inflight \ {i}
       \/ /\ pc = "invoke" /\ UNCHANGED inflight
          /\ \E i \in queue : Name(i) \notin BuiltIn /\ NextInQueue(i)
    /\ pc' = "aborted"
    /\ UNCHANGED <<caps, state, journal, next, fresh, totalActions, resp, cleared,
                   denied, corrected, forced, queue, answered, flagged, worldVars>>

Ended == {"done", "aborted", "crashed"}

\* The process dies; what it held in memory goes with it.
Crash ==
    /\ pc \notin {"done", "crashed"}
    /\ pc' = "crashed" /\ inflight' = {} /\ queue' = {} /\ CutShort
    /\ UNCHANGED <<caps, state, next, fresh, totalActions, resp, cleared,
                   denied, corrected, forced, answered, flagged, worldVars>>

Step ==
    \/ BeginIteration \/ FallThrough
    \/ ModelCallFails \/ ModelCallLate \/ ModelReplies
    \/ GateExplicit \/ GateCalls
    \/ VerifyMemory \/ RememberAndStartTools
    \/ RunParallel \/ StartSequential \/ RunSequential \/ ToolsDone
    \/ Swarm \/ Critic \/ Escalate \/ Decide \/ Save
    \/ Raise \/ RaiseInTool

Next == Step \/ Crash

Spec == Init /\ [][Next]_vars

\* The event loop keeps running the coroutine and every awaited client has a
\* timeout, so a turn that can take a step takes one.
FairSpec == Spec /\ WF_vars(Step)

-----------------------------------------------------------------------------
(* Properties *)

Index == Nat \ {0}
Pair == Nat \X Index
Invoked == [iteration : Nat, call : Index, cap : Cap, side_effect : BOOLEAN]

States == [iteration : Nat, outcome : Outcome \cup {"none"}, code : Code,
           say : BOOLEAN, pending : Pending,
           outbound : {"none", "text", "ask", "escalation"}, cost : Nat,
           streak : Nat, intents : SUBSET Pair, results : SUBSET Pair]

\* Types of the loop's variables and of what it leaves in the world.
TypeOK ==
    /\ caps \in CapsSet
    /\ pc \in {"top", "model", "gate", "verify", "remember", "tools", "invoke",
              "swarm", "critic", "decide", "save"} \cup Ended
    /\ state \in States /\ journal \in States
    /\ next \in Nat /\ totalActions \in Nat /\ spent \in Nat
    /\ fresh \in BOOLEAN /\ forced \in BOOLEAN /\ flagged \in BOOLEAN
    /\ ticket \in BOOLEAN
    /\ resp \in Response \cup {NoResponse}
    /\ cleared \subseteq DOMAIN resp.calls /\ denied \subseteq DOMAIN resp.calls
    /\ corrected \subseteq DOMAIN resp.calls /\ answered \subseteq DOMAIN resp.calls
    /\ inflight \subseteq DOMAIN resp.calls /\ queue \subseteq DOMAIN resp.calls
    /\ invoked \subseteq Invoked /\ remembered \subseteq Nat

\* A name that may run without an approval, with the dynamic tools loaded or
\* not: it is known, and low-risk, or medium-risk and in no owner policy.
Permitted(c) ==
    \E tools \in {Tool, {}} :
        /\ c \in BuiltIn \cup tools
        /\ \/ Risk(c, tools) = "low"
           \/ Risk(c, tools) = "medium" /\ c \notin RequiresApproval

\* Site 1 stands before Site 2: whatever reached a capability was cleared by
\* the gate (never unknown, disabled, high-risk or policy-bound), and nothing
\* of a response that suspended the turn ran, not even the calls written
\* before the one that needs approval (permission.gate, loop.py:358-369).
GatedExecution ==
    \A e \in invoked : Permitted(e.cap) /\ (forced => e.iteration # state.iteration)

\* What a turn keeps at every step, wherever it stops.
TurnInv == TypeOK /\ GatedExecution

\* Bounded autonomy: over all its iterations, and whatever aborted, a turn hands
\* no more calls to capabilities than its two action caps allow.
ActionsCapped ==
    /\ Cardinality(invoked) <= caps.max_total_actions
    /\ \A e \in invoked :
         Cardinality({f \in invoked : f.iteration = e.iteration})
            <= caps.max_actions_per_iteration

\* When the loop goes round, every call within the per-iteration cap has
\* exactly one answer for the model: a result, a refusal of the gate, or a
\* correction of Site 3.
EveryCallAnswered ==
    pc = "save" /\ state.outcome = "iterate" =>
        /\ answered \cup corrected = Considered
        /\ answered \cap corrected = {}

SideEffects == {<<e.iteration, e.call>> : e \in {f \in invoked : f.side_effect}}

\* At every point where the loop is not inside an iteration's sites, the durable
\* journal holds intent and result of each side_effect call made so far.
JournalCovers ==
    pc \in {"top", "model", "gate", "done"} =>
        SideEffects \subseteq journal.intents \cap journal.results

\* What run_harness returns: the journal agrees with it; a failed or suspended
\* turn sends nothing; a suspended one is not terminal and names what it waits
\* for; every other one has a termination code of its outcome.
OutcomeConsistent ==
    pc = "done" =>
        /\ journal = state
        /\ state.outcome \in {"finalize", "fail", "expire", "suspended_at_permission"}
        /\ state.outcome \in {"fail", "suspended_at_permission"} => state.outbound = "none"
        /\ (state.outcome = "suspended_at_permission") <=> (state.code = "none")
        /\ state.outcome = "suspended_at_permission" => state.pending # NoPending
        /\ state.pending # NoPending =>
               state.outcome = "suspended_at_permission" \/ ticket
        /\ state.outbound = "escalation" <=> ticket
        /\ state.outcome = "finalize" <=>
               state.code \in {"model_emitted_final_answer", "critic_escalated",
                              "iteration_budget_reached_with_answer"}

\* The recorded cost and the action total are below their caps whenever the
\* loop goes back to the model; what the router charged may be more.
BudgetBeforeCall ==
    pc = "model" /\ state.iteration > 0 =>
        /\ state.cost < caps.max_cost_paise /\ state.cost <= spent
        /\ totalActions <= caps.max_total_actions

\* A turn stays within its blueprint's caps, on calls and on cost.
WithinLimits == ActionsCapped /\ BudgetBeforeCall

\* The journal and the answers that the next call of the model builds on agree
\* with what was done, and with what the turn returns.
JournalAgrees == EveryCallAnswered /\ JournalCovers /\ OutcomeConsistent

\* Site 2's order: a side_effect call starts only after every gathered read of
\* its response has returned and every earlier side_effect call has run.
SequentialInOrder ==
    [][\A e \in invoked' \ invoked : e.side_effect =>
         \A i \in cleared : ~resp.calls[i].side_effect \/ i < e.call =>
             \E f \in invoked : f.iteration = e.iteration /\ f.call = i]_vars

\* Every turn comes to an end: no iteration, whatever it costs, is free of the
\* loop's bounds (loop.py:172, output.decide).
TurnEnds == <>(pc \in Ended)

-----------------------------------------------------------------------------
(* Refinement *)

AbstractTurn == INSTANCE Turn WITH
    Allowed <- {c \in Cap : Permitted(c)},
    status  <- IF pc \in {"aborted", "crashed"} THEN "lost"
               ELSE IF pc = "done" THEN state.outcome ELSE "running",
    work    <- {e.cap : e \in invoked},
    record  <- journal.outcome

\* The loop implements Turn: only permitted work, one end, a journal that names
\* the outcome returned, and no work after an end.
ImplementsTurn == AbstractTurn!Spec

=============================================================================
