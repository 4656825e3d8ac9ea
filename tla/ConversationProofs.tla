------------------------ MODULE ConversationProofs ------------------------
(***************************************************************************)
(* Proofs about an agent's conversations: one turn of the harness, for     *)
(* every set of capabilities, tools and policies, every cap and every      *)
(* response a model may give; and, after it, the chats of a browser, for   *)
(* every set of tabs of either kind and any number of events.              *)
(***************************************************************************)
EXTENDS Harness, WebChat, FiniteSetTheorems, TLAPS

-----------------------------------------------------------------------------
(* Type correctness *)

\* Calls are under way only while Site 2 runs, or in a turn that it aborted.
\* TypeOK needs it: a new response must not inherit the calls of the last one.
Idle == pc \notin {"tools", "invoke", "aborted"} => inflight = {} /\ queue = {}

TypeInv == TypeOK /\ Idle

\* What parse() returns is a record of tags and a sequence of calls.
LEMMA ResponseShape ==
    ASSUME NEW r \in Response \cup {NoResponse}
    PROVE  /\ r.tags \subseteq Tag
           /\ r.calls \in Seq(Call)
           /\ \A i \in DOMAIN r.calls : i \in Index /\ r.calls[i] \in Call
  <1>1. CASE r \in Response
    <2>1. r.tags \subseteq Tag /\ r.calls \in Seq(Call)
      BY <1>1, HarnessAssumption
    <2> QED BY <2>1 DEF Index
  <1>2. CASE r = NoResponse
    <2>1. r.tags = {} /\ r.calls = << >>
      BY <1>2 DEF NoResponse
    <2>2. << >> \in Seq(Call) /\ DOMAIN << >> = {}
      OBVIOUS
    <2> QED BY <2>1, <2>2
  <1> QED BY <1>1, <1>2

\* What ModelReplies does with one response.
ReplyOf(r, p) ==
    /\ resp' = r /\ spent' = spent + p
    /\ totalActions' \in {totalActions, totalActions + Len(r.calls)}
    /\ \/ /\ state' = [state EXCEPT !.cost = @ + p, !.outcome = "fail",
                                    !.code = "model_output_ambiguous"]
          /\ pc' = "save"
       \/ /\ state' = [state EXCEPT !.cost = @ + p, !.outcome = "expire",
                                    !.code = "loop_max_actions"]
          /\ pc' = "save"
       \/ /\ state' = [state EXCEPT !.cost = @ + p]
          /\ pc' = "gate" /\ totalActions' = totalActions + Len(r.calls)
          /\ totalActions' <= caps.max_total_actions

LEMMA ModelRepliesWith ==
    ModelReplies => \E r \in Response, p \in Price : ReplyOf(r, p)
  <1> SUFFICES ASSUME ModelReplies
               PROVE  \E r \in Response, p \in Price : ReplyOf(r, p)
    OBVIOUS
  <1> DEFINE Ambiguous(r) == /\ "final" \in r.tags
                             /\ r.calls # <<>> \/ {"ask", "swarm"} \cap r.tags # {}
             Total(r) == totalActions + Len(r.calls)
             Paid(p) == [state EXCEPT !.cost = @ + p]
  <1>1. PICK r \in Response, p \in Price :
           /\ resp' = r /\ spent' = spent + p
           /\ totalActions' = IF Ambiguous(r) THEN totalActions ELSE Total(r)
           /\ \/ /\ Ambiguous(r)
                 /\ state' = [Paid(p) EXCEPT !.outcome = "fail",
                                             !.code = "model_output_ambiguous"]
                 /\ pc' = "save"
              \/ /\ ~Ambiguous(r) /\ Total(r) > caps.max_total_actions
                 /\ state' = [Paid(p) EXCEPT !.outcome = "expire",
                                             !.code = "loop_max_actions"]
                 /\ pc' = "save"
              \/ /\ ~Ambiguous(r) /\ Total(r) <= caps.max_total_actions
                 /\ state' = Paid(p)
                 /\ pc' = "gate"
    BY Zenon DEF ModelReplies
  <1> HIDE DEF Ambiguous
  <1> SUFFICES ReplyOf(r, p)
    OBVIOUS
  <1>2. totalActions' \in {totalActions, totalActions + Len(r.calls)}
    BY <1>1
  <1>3. CASE Ambiguous(r)
    BY <1>1, <1>2, <1>3 DEF ReplyOf
  <1>4. CASE ~Ambiguous(r) /\ Total(r) <= caps.max_total_actions
    BY <1>1, <1>2, <1>4 DEF ReplyOf
  <1>5. CASE ~Ambiguous(r) /\ ~(Total(r) <= caps.max_total_actions)
    BY <1>1, <1>2, <1>5 DEF ReplyOf
  <1> QED BY <1>3, <1>4, <1>5

\* GateCalls with its local definitions named.
Needs(tools) == {i \in Considered : Suspends(Name(i), tools)}
Before(tools) == {i \in Considered : \A j \in Needs(tools) : i < j}
Ok(tools) == {i \in Before(tools) : ~Dropped(Name(i), tools)}
GateWith(tools) ==
    \/ /\ Needs(tools) = {}
       /\ Gated(state.pending, Ok(tools), Before(tools) \ Ok(tools))
       /\ forced' = FALSE
    \/ \E i \in Needs(tools) :
         /\ \A j \in Needs(tools) : i <= j
         /\ Gated([kind |-> IF Risk(Name(i), tools) = "high"
                            THEN "high_risk_capability"
                            ELSE "policy_required",
                   call |-> i], Ok(tools), Before(tools) \ Ok(tools))
         /\ forced' = TRUE

LEMMA GateCallsWith == GateCalls => \E tools \in {Tool, {}} : GateWith(tools)
  BY DEF GateCalls, GateWith, Needs, Before, Ok

LEMMA InitTyped == Init => TypeInv
  <1> SUFFICES ASSUME Init PROVE TypeInv
    OBVIOUS
  <1>1. NewState \in States /\ NoEntry \in States
    BY DEF NewState, NoEntry, States, Outcome, Code, Pending, NoPending
  <1>2. Idle
    BY DEF Init, Idle
  <1>3. TypeOK
    BY <1>1 DEF Init, TypeOK, NoResponse
  <1> QED BY <1>2, <1>3 DEF TypeInv

\* What Site 7 may answer.
LEMMA DecisionCases ==
    ASSUME NEW late \in BOOLEAN
    PROVE  \/ /\ forced
              /\ Decision(late) = [state EXCEPT !.outcome = "suspended_at_permission"]
           \/ /\ ~forced
              /\ \E c \in {"task_deadline_exceeded", "budget_exceeded",
                            "loop_max_iterations"} :
                   Decision(late) = [state EXCEPT !.outcome = "expire",
                                       !.outbound = BuiltOutbound, !.code = c]
           \/ /\ ~forced /\ ~OverBudget
              /\ \E c \in {"model_emitted_final_answer",
                            "iteration_budget_reached_with_answer"} :
                   Decision(late) = [state EXCEPT !.outcome = "finalize",
                                       !.outbound = BuiltOutbound, !.code = c]
           \/ /\ ~forced /\ ~OverBudget
              /\ Decision(late) = [state EXCEPT !.outcome = "iterate"]
  <1>1. CASE forced
    BY <1>1 DEF Decision
  <1>2. CASE ~forced /\ (next >= caps.max_iterations \/ late \/ OverBudget)
    BY <1>2 DEF Decision
  <1>3. CASE ~forced /\ ~(next >= caps.max_iterations \/ late \/ OverBudget)
    BY <1>3 DEF Decision
  <1> QED BY <1>1, <1>2, <1>3

LEMMA NextTyped == TypeInv /\ [Next]_vars => TypeInv'
  <1> SUFFICES ASSUME TypeInv, [Next]_vars PROVE TypeInv'
    OBVIOUS
  <1> USE DEF TypeInv
  <1>0. /\ HarnessAssumption
        /\ resp.calls \in Seq(Call)
        /\ \A i \in DOMAIN resp.calls : i \in Index /\ resp.calls[i] \in Call
        /\ state \in States /\ state.iteration \in Nat /\ state.cost \in Nat
        /\ next \in Nat /\ spent \in Nat
    BY ResponseShape, HarnessAssumption DEF TypeOK, States
  <1>1. CASE BeginIteration
    <2>1. PICK compact \in BOOLEAN, p \in Price :
             /\ spent' = spent + (IF compact THEN p ELSE 0)
             /\ \/ /\ state' = [state EXCEPT !.iteration = next, !.streak = 0]
                   /\ pc' = "model"
                \/ /\ state' = [state EXCEPT !.iteration = next,
                                             !.streak = state.streak + 1]
                   /\ pc' = "model"
                \/ /\ state' = [state EXCEPT !.iteration = next,
                                             !.streak = state.streak + 1,
                                             !.outcome = "expire",
                                             !.code = "loop_no_progress"]
                   /\ pc' = "save"
      BY <1>1 DEF BeginIteration
    <2>2. state' \in States
      <3>1. state.streak + 1 \in Nat
        BY <1>0 DEF States
      <3>2. CASE state' = [state EXCEPT !.iteration = next, !.streak = 0]
        BY <1>0, <3>2 DEF States
      <3>3. CASE state' = [state EXCEPT !.iteration = next,
                                        !.streak = state.streak + 1]
        BY <1>0, <3>1, <3>3 DEF States
      <3>4. CASE state' = [state EXCEPT !.iteration = next,
                                        !.streak = state.streak + 1,
                                        !.outcome = "expire",
                                        !.code = "loop_no_progress"]
        BY <1>0, <3>1, <3>4 DEF States, Outcome, Code
      <3> QED BY <2>1, <3>2, <3>3, <3>4
    <2>3. spent' \in Nat
      BY <2>1, <1>0 DEF HarnessAssumption
    <2>4. pc' \in {"model", "save"}
      BY <2>1
    <2>5. next' \in Nat
      BY <1>0, <1>1 DEF BeginIteration, NextIteration
    <2>6. /\ pc = "top" /\ fresh' \in BOOLEAN
          /\ UNCHANGED <<caps, journal, totalActions, turnVars, invoked,
                         remembered, ticket>>
      BY <1>1 DEF BeginIteration
    <2> QED BY <2>2, <2>3, <2>4, <2>5, <2>6 DEF TypeOK, Idle, turnVars
  <1>2. CASE FallThrough
    <2>1. state' \in States
      BY <1>2 DEF FallThrough, Terminate, TypeOK, States, Outcome, Code
    <2> QED BY <1>2, <2>1
        DEF FallThrough, Terminate, TypeOK, Idle, turnVars, worldVars
  <1>3. CASE ModelCallFails
    <2>1. state' \in States
      BY <1>3 DEF ModelCallFails, Terminate, TypeOK, States, Outcome, Code
    <2> QED BY <1>3, <2>1
        DEF ModelCallFails, Terminate, TypeOK, Idle, turnVars, worldVars
  <1>4. CASE ModelCallLate
    <2>1. state' \in States
      BY <1>4 DEF ModelCallLate, Terminate, TypeOK, States, Outcome, Code
    <2>2. spent' \in Nat
      BY <1>4, <1>0 DEF ModelCallLate, TypeOK, HarnessAssumption
    <2> QED BY <1>4, <2>1, <2>2
        DEF ModelCallLate, Terminate, TypeOK, Idle, turnVars
  <1>5. CASE ModelReplies
    <2>1. PICK r \in Response, p \in Price :
             /\ resp' = r /\ spent' = spent + p
             /\ totalActions' \in {totalActions, totalActions + Len(r.calls)}
             /\ \/ /\ state' = [state EXCEPT !.cost = @ + p, !.outcome = "fail",
                                             !.code = "model_output_ambiguous"]
                   /\ pc' = "save"
                \/ /\ state' = [state EXCEPT !.cost = @ + p, !.outcome = "expire",
                                             !.code = "loop_max_actions"]
                   /\ pc' = "save"
                \/ /\ state' = [state EXCEPT !.cost = @ + p]
                   /\ pc' = "gate"
      <3>1. PICK r \in Response, p \in Price : ReplyOf(r, p)
        BY <1>5, ModelRepliesWith
      <3> QED BY <3>1, Zenon DEF ReplyOf
    <2>2. p \in Nat /\ state.cost + p \in Nat
      BY <1>0 DEF HarnessAssumption
    <2>3. state' \in States
      <3>1. CASE state' = [state EXCEPT !.cost = @ + p, !.outcome = "fail",
                                        !.code = "model_output_ambiguous"]
        BY <1>0, <2>2, <3>1 DEF States, Outcome, Code
      <3>2. CASE state' = [state EXCEPT !.cost = @ + p, !.outcome = "expire",
                                        !.code = "loop_max_actions"]
        BY <1>0, <2>2, <3>2 DEF States, Outcome, Code
      <3>3. CASE state' = [state EXCEPT !.cost = @ + p]
        BY <1>0, <2>2, <3>3 DEF States
      <3> QED BY <2>1, <3>1, <3>2, <3>3
    <2>4. totalActions' \in Nat /\ spent' \in Nat
      <3>1. r.calls \in Seq(Call)
        BY ResponseShape
      <3>2. Len(r.calls) \in Nat /\ totalActions \in Nat
        BY <3>1 DEF TypeOK
      <3> QED BY <1>0, <2>1, <2>2, <3>2
    <2>5. /\ pc = "model" /\ pc' \in {"save", "gate"}
          /\ cleared' = {} /\ denied' = {} /\ corrected' = {} /\ answered' = {}
          /\ forced' = FALSE /\ flagged' = FALSE
          /\ UNCHANGED <<caps, journal, next, fresh, inflight, queue, invoked,
                         remembered, ticket>>
      BY <1>5, <2>1 DEF ModelReplies
    <2> QED BY <2>1, <2>3, <2>4, <2>5 DEF TypeOK, Idle
  <1>6. CASE GateExplicit
    <2>1. state' \in States
      BY <1>6 DEF GateExplicit, Gated, TypeOK, States, Pending
    <2> QED BY <1>6, <2>1
        DEF GateExplicit, Gated, TypeOK, Idle, worldVars
  <1>7. CASE GateCalls
    <2>1. PICK pending \in Pending, ok \in SUBSET Considered, no \in SUBSET Considered :
             Gated(pending, ok, no) /\ forced' \in BOOLEAN
      <3>1. \A i \in Considered : i \in Nat
        BY <1>0 DEF Considered, Index
      <3>2. state.pending \in Pending
        BY DEF TypeOK, States
      <3>3. PICK tools \in {Tool, {}} : GateWith(tools)
        BY <1>7, GateCallsWith
      <3>4. CASE Needs(tools) = {}
        BY <3>2, <3>3, <3>4 DEF GateWith, Needs, Before, Ok
      <3>5. CASE Needs(tools) # {}
        <4>1. PICK i \in Needs(tools) :
                 /\ Gated([kind |-> IF Risk(Name(i), tools) = "high"
                                   THEN "high_risk_capability"
                                   ELSE "policy_required",
                           call |-> i], Ok(tools), Before(tools) \ Ok(tools))
                 /\ forced' = TRUE
          BY <3>3, <3>5 DEF GateWith
        <4>2. [kind |-> IF Risk(Name(i), tools) = "high"
                        THEN "high_risk_capability" ELSE "policy_required",
               call |-> i] \in Pending
          BY <3>1 DEF Needs, Pending
        <4> QED BY <4>1, <4>2 DEF Before, Ok
      <3> QED BY <3>4, <3>5
    <2>2. state' \in States
      BY <2>1 DEF Gated, TypeOK, States
    <2>3. ok \subseteq DOMAIN resp.calls /\ no \subseteq DOMAIN resp.calls
      BY <2>1 DEF Considered
    <2> QED BY <2>1, <2>2, <2>3 DEF Gated, TypeOK, Idle, worldVars
  <1>8. CASE VerifyMemory
    BY <1>8 DEF VerifyMemory, TypeOK, Idle, worldVars
  <1>9. CASE RememberAndStartTools
    <2>1. state.iteration \in Nat
      BY DEF TypeOK, States
    <2> QED BY <1>9, <2>1 DEF RememberAndStartTools, DenialResults, TypeOK, Idle
  <1>10. CASE RunParallel
    <2>1. \A i \in inflight : Invocation(i) \in Invoked
      BY <1>0 DEF Invocation, Name, Call, TypeOK, Invoked
    <2> QED BY <1>10, <2>1 DEF RunParallel, TypeOK, Idle
  <1>11. CASE StartSequential
    <2>1. state' \in States
      <3>1. PICK i \in queue :
               state' = [state EXCEPT !.intents = @ \cup {<<state.iteration, i>>}]
        BY <1>11 DEF StartSequential
      <3>2. <<state.iteration, i>> \in Pair
        BY <1>0 DEF TypeOK, Pair
      <3> QED BY <1>0, <3>1, <3>2 DEF States
    <2> QED BY <1>11, <2>1 DEF StartSequential, TypeOK, Idle, turnVars, worldVars
  <1>12. CASE RunSequential
    <2>1. state' \in States
      <3>1. PICK i \in queue :
               state' = [state EXCEPT !.results = @ \cup {<<state.iteration, i>>}]
        BY <1>12 DEF RunSequential
      <3>2. <<state.iteration, i>> \in Pair
        BY <1>0 DEF TypeOK, Pair
      <3> QED BY <1>0, <3>1, <3>2 DEF States
    <2>2. \A i \in queue : Invocation(i) \in Invoked
      BY <1>0 DEF Invocation, Name, Call, TypeOK, Invoked
    <2> QED BY <1>12, <2>1, <2>2 DEF RunSequential, TypeOK, Idle
  <1>13. CASE ToolsDone
    BY <1>13 DEF ToolsDone, TypeOK, Idle, turnVars, worldVars
  <1>14. CASE Swarm
    BY <1>14, <1>0 DEF Swarm, TypeOK, Idle, turnVars, HarnessAssumption
  <1>15. CASE Critic
    <2>1. state' \in States
      BY <1>15 DEF Critic, TypeOK, States, Has
    <2>2. spent' \in Nat
      BY <1>15, <1>0 DEF Critic, HarnessAssumption
    <2>3. flagged' \in BOOLEAN
      BY <1>15 DEF Critic
    <2> QED BY <1>15, <2>1, <2>2, <2>3 DEF Critic, TypeOK, Idle
  <1>16. CASE Escalate
    <2>1. state' \in States
      BY <1>16 DEF Escalate, TypeOK, States, Outcome, Code
    <2> QED BY <1>16, <2>1 DEF Escalate, TypeOK, Idle, turnVars
  <1>17. CASE Decide
    <2>1. PICK late \in BOOLEAN : state' = Decision(late)
      BY <1>17 DEF Decide
    <2>2. BuiltOutbound \in {"none", "text", "ask", "escalation"}
      BY DEF BuiltOutbound
    <2>3. state' \in States
      <3>1. CASE Decision(late)
                   = [state EXCEPT !.outcome = "suspended_at_permission"]
        BY <1>0, <2>1, <3>1 DEF States, Outcome
      <3>2. CASE \E c \in {"task_deadline_exceeded", "budget_exceeded",
                            "loop_max_iterations"} :
                   Decision(late) = [state EXCEPT !.outcome = "expire",
                                       !.outbound = BuiltOutbound, !.code = c]
        <4>1. PICK c \in Code : state' = [state EXCEPT !.outcome = "expire",
                                          !.outbound = BuiltOutbound, !.code = c]
          BY <2>1, <3>2 DEF Code
        <4> QED BY <1>0, <2>2, <4>1 DEF States, Outcome
      <3>3. CASE \E c \in {"model_emitted_final_answer",
                            "iteration_budget_reached_with_answer"} :
                   Decision(late) = [state EXCEPT !.outcome = "finalize",
                                       !.outbound = BuiltOutbound, !.code = c]
        <4>1. PICK c \in Code : state' = [state EXCEPT !.outcome = "finalize",
                                          !.outbound = BuiltOutbound, !.code = c]
          BY <2>1, <3>3 DEF Code
        <4> QED BY <1>0, <2>2, <4>1 DEF States, Outcome
      <3>4. CASE Decision(late) = [state EXCEPT !.outcome = "iterate"]
        BY <1>0, <2>1, <3>4 DEF States, Outcome
      <3> QED BY DecisionCases, <3>1, <3>2, <3>3, <3>4
    <2> QED BY <1>17, <2>3 DEF Decide, TypeOK, Idle, turnVars, worldVars
  <1>18. CASE Save
    <2>1. journal' \in States
      BY <1>18 DEF Save, JournalEntry, TypeOK
    <2> QED BY <1>18, <2>1 DEF Save, TypeOK, Idle, Ended, turnVars, worldVars
  <1>19. CASE Raise
    <2>1. journal' \in States
      BY <1>19 DEF Raise, CutShort, JournalEntry, TypeOK
    <2> QED BY <1>19, <2>1 DEF Raise, TypeOK, Idle, Ended, turnVars, worldVars
  <1>20. CASE RaiseInTool
    BY <1>20 DEF RaiseInTool, TypeOK, Idle, Ended, worldVars
  <1>21. CASE Crash
    <2>1. journal' \in States
      BY <1>21 DEF Crash, CutShort, JournalEntry, TypeOK
    <2> QED BY <1>21, <2>1 DEF Crash, TypeOK, Idle, Ended, worldVars
  <1>22. CASE UNCHANGED vars
    BY <1>22 DEF TypeOK, Idle, vars, turnVars, worldVars
  <1> QED
    BY <1>1, <1>2, <1>3, <1>4, <1>5, <1>6, <1>7, <1>8, <1>9, <1>10, <1>11, <1>12,
       <1>13, <1>14, <1>15, <1>16, <1>17, <1>18, <1>19, <1>20, <1>21, <1>22
    DEF Next, Step

\* Every reachable state of a turn is of the declared types.
THEOREM TypeCorrect == Spec => []TypeOK
  <1>1. Init => TypeInv
    BY InitTyped
  <1>2. TypeInv /\ [Next]_vars => TypeInv'
    BY NextTyped
  <1> QED BY <1>1, <1>2, PTL DEF Spec, TypeInv

-----------------------------------------------------------------------------
(* The permission gate *)

\* Inside the sites of an iteration, or while a call of it is still under way.
InIteration == \/ pc \in {"model", "gate", "verify", "remember", "tools", "invoke",
                          "swarm", "critic", "decide"}
               \/ inflight # {}

\* The gate's promise is not inductive by itself: what is under way must be
\* cleared, what is cleared permitted, nothing under way once the turn is
\* suspended, and the work done before Site 2 that of earlier iterations.
GateInv ==
    /\ inflight \subseteq cleared /\ queue \subseteq cleared
    /\ \A i \in cleared : Permitted(Name(i))
    /\ forced => inflight = {} /\ queue = {}
    /\ InIteration => state.iteration < next
    /\ \A e \in invoked :
         /\ Permitted(e.cap) /\ e.iteration < next
         /\ forced => e.iteration # state.iteration
         /\ pc \in {"model", "gate", "verify", "remember"} =>
                e.iteration < state.iteration

\* Whatever the gate clears may run: it is known, and it neither needs an
\* approval nor is disabled.
LEMMA ClearedPermitted ==
    ASSUME NEW tools \in {Tool, {}}, NEW c, c \in Cap,
           ~Suspends(c, tools), ~Dropped(c, tools)
    PROVE  Permitted(c)
  <1>1. ~Unknown(c, tools) /\ Risk(c, tools) # "deny"
    BY DEF Dropped
  <1>2. c \in BuiltIn \cup tools
    BY <1>1 DEF Unknown
  <1>3. Risk(c, tools) \in RiskLevel
    <2>1. CASE c \in tools
      BY <2>1, HarnessAssumption DEF Risk, RiskLevel
    <2>2. CASE c \notin tools
      <3>1. DefaultRisk[c] \in RiskLevel /\ Override[c] \in RiskLevel \cup {"none"}
        BY <1>2, <2>2, HarnessAssumption
      <3> QED BY <2>2, <3>1 DEF Risk, Classify
    <2> QED BY <2>1, <2>2
  <1>4. Risk(c, tools) # "high" /\ (Risk(c, tools) = "medium" => c \notin RequiresApproval)
    BY <1>1 DEF Suspends
  <1>5. Risk(c, tools) \in {"low", "medium"}
    BY <1>1, <1>3, <1>4 DEF RiskLevel
  <1> QED BY <1>2, <1>4, <1>5 DEF Permitted

LEMMA InitGate == Init => GateInv
  BY DEF Init, GateInv, InIteration

LEMMA NextGate == TypeInv /\ GateInv /\ [Next]_vars => GateInv'
  <1> SUFFICES ASSUME TypeInv, GateInv, [Next]_vars PROVE GateInv'
    OBVIOUS
  <1>0. /\ state \in States /\ state.iteration \in Nat /\ next \in Nat
        /\ \A e \in invoked : e.iteration \in Nat
        /\ cleared \subseteq DOMAIN resp.calls
        /\ \A i \in DOMAIN resp.calls : i \in Index /\ resp.calls[i] \in Call
    BY ResponseShape DEF TypeInv, TypeOK, States, Invoked
  <1>1. CASE BeginIteration
    <2>1. state'.iteration = next /\ next' = next + 1
      BY <1>0, <1>1 DEF BeginIteration, NextIteration, States
    <2>2. /\ pc = "top" /\ inflight' = inflight /\ inflight = {}
          /\ UNCHANGED <<cleared, queue, forced, invoked, resp>>
      BY <1>1 DEF BeginIteration, turnVars, TypeInv, Idle
    <2> QED BY <1>0, <2>1, <2>2 DEF GateInv, InIteration, Name
  <1>2. CASE FallThrough \/ ModelCallFails \/ ModelCallLate
    <2>1. state'.iteration = state.iteration /\ pc' = "save"
      BY <1>0, <1>2 DEF FallThrough, ModelCallFails, ModelCallLate, Terminate, States
    <2>2. UNCHANGED <<next, cleared, inflight, queue, forced, invoked, resp>>
      BY <1>2 DEF FallThrough, ModelCallFails, ModelCallLate, turnVars, worldVars
    <2> QED BY <1>0, <2>1, <2>2 DEF GateInv, InIteration, Name
  <1>3. CASE ModelReplies
    <2>1. state'.iteration = state.iteration /\ pc' \in {"save", "gate"}
      <3>1. PICK r \in Response, p \in Price : ReplyOf(r, p)
        BY <1>3, ModelRepliesWith
      <3> QED BY <1>0, <3>1 DEF ReplyOf, States
    <2>2. /\ pc = "model" /\ cleared' = {} /\ forced' = FALSE
          /\ inflight' = inflight /\ queue' = queue /\ inflight = {} /\ queue = {}
          /\ UNCHANGED <<next, invoked>>
      BY <1>3 DEF ModelReplies, TypeInv, Idle
    <2> QED BY <1>0, <2>1, <2>2 DEF GateInv, InIteration
  <1>4. CASE GateExplicit
    <2>1. state'.iteration = state.iteration
      BY <1>0, <1>4 DEF GateExplicit, Gated, States
    <2>2. /\ pc = "gate" /\ pc' = "verify" /\ cleared' = {}
          /\ inflight' = {} /\ queue' = {}
          /\ UNCHANGED <<next, invoked>>
      BY <1>4 DEF GateExplicit, Gated, worldVars, TypeInv, Idle
    <2> QED BY <1>0, <2>1, <2>2 DEF GateInv, InIteration
  <1>5. CASE GateCalls
    <2>1. PICK tools \in {Tool, {}} : GateWith(tools)
      BY <1>5, GateCallsWith
    <2>2. /\ pc = "gate" /\ pc' = "verify" /\ cleared' = Ok(tools)
          /\ inflight' = {} /\ queue' = {}
          /\ state'.iteration = state.iteration
          /\ UNCHANGED <<next, invoked, resp>>
      BY <1>0, <2>1 DEF GateWith, Gated, worldVars, TypeInv, Idle, States
    <2>3. \A i \in Ok(tools) : Permitted(Name(i))
      <3> SUFFICES ASSUME NEW i \in Ok(tools) PROVE Permitted(Name(i))
        OBVIOUS
      <3>1. i \in Considered /\ i \in Nat /\ i \notin Needs(tools)
        BY <1>0 DEF Ok, Before, Needs, Considered, Index
      <3>2. Name(i) \in Cap
        BY <1>0, <3>1 DEF Considered, Name, Call
      <3> QED BY <3>1, <3>2, ClearedPermitted DEF Ok, Needs
    <2> QED BY <1>0, <2>2, <2>3 DEF GateInv, InIteration, Name
  <1>6. CASE VerifyMemory
    BY <1>6 DEF VerifyMemory, GateInv, InIteration, Name, worldVars, TypeInv, Idle
  <1>7. CASE RememberAndStartTools
    BY <1>7 DEF RememberAndStartTools, GateInv, InIteration, Name
  <1>8. CASE RunParallel
    <2>1. PICK i \in inflight :
             inflight' = inflight \ {i} /\ invoked' = invoked \cup {Invocation(i)}
      BY <1>8 DEF RunParallel
    <2>2. ~forced /\ state.iteration < next /\ Permitted(Name(i))
      BY <2>1 DEF GateInv, InIteration
    <2>3. UNCHANGED <<pc, state, next, resp, cleared, forced, queue>>
      BY <1>8 DEF RunParallel
    <2>4. pc \in {"tools", "aborted"}
      BY <1>8 DEF RunParallel
    <2> QED BY <2>1, <2>2, <2>3, <2>4 DEF GateInv, InIteration, Invocation, Name
  <1>9. CASE StartSequential
    <2>1. state'.iteration = state.iteration
      BY <1>0, <1>9 DEF StartSequential, States
    <2> QED BY <1>9, <2>1
        DEF StartSequential, GateInv, InIteration, Name, turnVars, worldVars
  <1>10. CASE RunSequential
    <2>1. PICK i \in queue :
             queue' = queue \ {i} /\ invoked' = invoked \cup {Invocation(i)}
      BY <1>10 DEF RunSequential
    <2>2. pc = "invoke" /\ pc' = "tools" /\ state'.iteration = state.iteration
      BY <1>0, <1>10 DEF RunSequential, States
    <2>3. ~forced /\ state.iteration < next /\ Permitted(Name(i))
      BY <2>1, <2>2 DEF GateInv, InIteration
    <2>4. UNCHANGED <<next, resp, cleared, forced, inflight>>
      BY <1>10 DEF RunSequential
    <2> QED BY <2>1, <2>2, <2>3, <2>4 DEF GateInv, InIteration, Invocation, Name
  <1>11. CASE ToolsDone
    BY <1>11 DEF ToolsDone, GateInv, InIteration, Name, turnVars, worldVars
  <1>12. CASE Swarm
    BY <1>12 DEF Swarm, GateInv, InIteration, Name, turnVars
  <1>13. CASE Critic
    <2>1. state'.iteration = state.iteration
      BY <1>0, <1>13 DEF Critic, States
    <2> QED BY <1>13, <2>1 DEF Critic, GateInv, InIteration, Name
  <1>14. CASE Escalate
    <2>1. state'.iteration = state.iteration
      BY <1>0, <1>14 DEF Escalate, States
    <2> QED BY <1>14, <2>1 DEF Escalate, GateInv, InIteration, Name, turnVars
  <1>15. CASE Decide
    <2>1. PICK late \in BOOLEAN : state' = Decision(late)
      BY <1>15 DEF Decide
    <2>2. state'.iteration = state.iteration
      <3>1. \A o, b, c : [state EXCEPT !.outcome = o, !.outbound = b,
                                      !.code = c].iteration = state.iteration
        BY <1>0 DEF States
      <3>2. \A o : [state EXCEPT !.outcome = o].iteration = state.iteration
        BY <1>0 DEF States
      <3> QED BY <2>1, <3>1, <3>2 DEF Decision
    <2> QED BY <1>15, <2>2 DEF Decide, GateInv, InIteration, Name, turnVars, worldVars
  <1>16. CASE Save \/ Raise
    <2>1. /\ UNCHANGED <<state, turnVars, worldVars, next>>
          /\ pc' \in {"top", "done", "aborted"}
      BY <1>16 DEF Save, Raise
    <2> QED BY <2>1 DEF GateInv, InIteration, Name, turnVars, worldVars
  <1>17. CASE RaiseInTool
    BY <1>17 DEF RaiseInTool, GateInv, InIteration, Name, worldVars
  <1>18. CASE Crash
    BY <1>18 DEF Crash, GateInv, InIteration, Name, worldVars
  <1>19. CASE UNCHANGED vars
    BY <1>19 DEF GateInv, InIteration, Name, vars, turnVars, worldVars
  <1> QED
    BY <1>1, <1>2, <1>3, <1>4, <1>5, <1>6, <1>7, <1>8, <1>9, <1>10, <1>11, <1>12,
       <1>13, <1>14, <1>15, <1>16, <1>17, <1>18, <1>19
    DEF Next, Step

\* No turn hands a capability a call that Site 1 did not clear, and a response
\* that suspends the turn has none of its calls run.
THEOREM GateRespected == Spec => []GatedExecution
  <1>1. Init => TypeInv /\ GateInv
    BY InitTyped, InitGate
  <1>2. TypeInv /\ GateInv /\ [Next]_vars => (TypeInv /\ GateInv)'
    BY NextTyped, NextGate
  <1>3. GateInv => GatedExecution
    BY DEF GateInv, GatedExecution
  <1> QED BY <1>1, <1>2, <1>3, PTL DEF Spec

-----------------------------------------------------------------------------
(* The loop implements Turn *)

\* A turn reaches the journal write only with an outcome to write.
SaveInv == pc = "save" => state.outcome \in AbstractTurn!Final \cup {"iterate"}

Running == {"top", "model", "gate", "verify", "remember", "tools", "invoke",
            "swarm", "critic", "decide", "save"}

LEMMA NextSave == TypeInv /\ SaveInv /\ [Next]_vars => SaveInv'
  <1> SUFFICES ASSUME TypeInv, SaveInv, [Next]_vars, pc' = "save"
               PROVE  state'.outcome \in AbstractTurn!Final \cup {"iterate"}
    BY DEF SaveInv
  <1>0. state \in States
    BY DEF TypeInv, TypeOK
  <1>1. CASE BeginIteration
    <2>1. state' = [state EXCEPT !.iteration = next, !.streak = state.streak + 1,
                                 !.outcome = "expire", !.code = "loop_no_progress"]
      BY <1>1 DEF BeginIteration
    <2> QED BY <1>0, <2>1 DEF States, AbstractTurn!Final
  <1>2. CASE FallThrough \/ ModelCallFails \/ ModelCallLate
    BY <1>0, <1>2
    DEF FallThrough, ModelCallFails, ModelCallLate, Terminate, States, AbstractTurn!Final
  <1>3. CASE ModelReplies
    <2>1. PICK r \in Response, p \in Price : ReplyOf(r, p)
      BY <1>3, ModelRepliesWith
    <2> QED BY <1>0, <2>1 DEF ReplyOf, States, AbstractTurn!Final
  <1>4. CASE Escalate
    BY <1>0, <1>4 DEF Escalate, States, AbstractTurn!Final
  <1>5. CASE Decide
    <2>1. PICK late \in BOOLEAN : state' = Decision(late)
      BY <1>5 DEF Decide
    <2>2. \A o, b, c : [state EXCEPT !.outcome = o, !.outbound = b,
                                    !.code = c].outcome = o
      BY <1>0 DEF States
    <2>3. \A o : [state EXCEPT !.outcome = o].outcome = o
      BY <1>0 DEF States
    <2> QED BY <2>1, <2>2, <2>3 DEF Decision, AbstractTurn!Final
  <1>6. CASE UNCHANGED vars
    BY <1>6 DEF SaveInv, vars
  <1>7. CASE \/ GateExplicit \/ GateCalls \/ VerifyMemory \/ RememberAndStartTools
             \/ StartSequential \/ RunSequential \/ ToolsDone \/ Swarm \/ Critic
             \/ Save \/ Raise \/ RaiseInTool \/ Crash
    BY <1>7 DEF GateExplicit, GateCalls, Gated, VerifyMemory, RememberAndStartTools,
       StartSequential, RunSequential, ToolsDone, Swarm, Critic, Save, Raise,
       RaiseInTool, Crash
  <1>8. CASE RunParallel
    BY <1>8 DEF RunParallel
  <1> QED
    BY <1>1, <1>2, <1>3, <1>4, <1>5, <1>6, <1>7, <1>8 DEF Next, Step

\* What a step leaves as it is for Turn: the work done and the journal.
Silent == UNCHANGED <<invoked, journal>>

LEMMA StepsTurn ==
    TypeInv /\ GateInv /\ SaveInv /\ [Next]_vars
        => [AbstractTurn!Next]_AbstractTurn!turn
  <1> SUFFICES ASSUME TypeInv, GateInv, SaveInv, [Next]_vars
               PROVE  AbstractTurn!Next \/ UNCHANGED AbstractTurn!turn
    BY DEF AbstractTurn!turn
  <1> DEFINE Status == IF pc \in {"aborted", "crashed"} THEN "lost"
                       ELSE IF pc = "done" THEN state.outcome ELSE "running"
             Done == {e.cap : e \in invoked}
  <1>1. CASE Silent /\ pc \in Running /\ pc' \in Running
    BY <1>1 DEF Silent, Running, AbstractTurn!turn
  <1>2. CASE Silent /\ pc \in Running /\ pc' \in {"aborted", "crashed"}
    BY <1>2 DEF Silent, Running, AbstractTurn!Next, AbstractTurn!Lose
  <1>3. CASE Silent /\ pc \in {"aborted", "crashed"} /\ pc' \in {"aborted", "crashed"}
    BY <1>3 DEF Silent, AbstractTurn!turn
  <1>4. CASE RunParallel \/ RunSequential
    <2>1. PICK i \in DOMAIN resp.calls :
             Permitted(Name(i)) /\ invoked' = invoked \cup {Invocation(i)}
      <3>1. \A i \in inflight \cup queue : i \in DOMAIN resp.calls /\ Permitted(Name(i))
        BY DEF GateInv, TypeInv, TypeOK
      <3>2. \E i \in inflight \cup queue : invoked' = invoked \cup {Invocation(i)}
        BY <1>4 DEF RunParallel, RunSequential
      <3> QED BY <3>1, <3>2
    <2>2. Name(i) \in {c \in Cap : Permitted(c)}
      <3>1. resp.calls[i] \in Call
        BY ResponseShape DEF TypeInv, TypeOK
      <3> QED BY <2>1, <3>1 DEF Name, Call
    <2>3. Done' = Done \cup {Name(i)}
      <3>1. Invocation(i).cap = Name(i)
        BY DEF Invocation
      <3>2. Done' = {e.cap : e \in invoked \cup {Invocation(i)}}
        BY <2>1
      <3> HIDE DEF Done
      <3>3. ASSUME NEW c PROVE c \in Done' <=> c \in Done \/ c = Name(i)
        BY <3>1, <3>2 DEF Done
      <3> QED BY <3>3
    <2>4. Status \in {"running", "lost"} /\ Status' = Status /\ journal' = journal
      BY <1>4 DEF RunParallel, RunSequential
    <2> QED BY <2>2, <2>3, <2>4 DEF AbstractTurn!Next, AbstractTurn!Work
  <1>5. CASE Save
    <2>1. pc = "save" /\ journal' = state /\ state' = state /\ invoked' = invoked
      BY <1>5 DEF Save, JournalEntry, worldVars
    <2>2. CASE state.outcome = "iterate"
      BY <1>5, <2>1, <2>2 DEF Save, AbstractTurn!Next, AbstractTurn!Checkpoint
    <2>3. CASE state.outcome # "iterate"
      <3>1. state.outcome \in AbstractTurn!Final /\ pc' = "done"
        BY <1>5, <2>1, <2>3 DEF Save, SaveInv
      <3> QED BY <2>1, <3>1 DEF AbstractTurn!Next, AbstractTurn!Finish
    <2> QED BY <2>2, <2>3
  <1>6. CASE BeginIteration \/ FallThrough \/ ModelCallFails \/ ModelCallLate
    <2>1. CASE BeginIteration
      <3>1. pc' \in {"model", "save"}
        BY <2>1 DEF BeginIteration
      <3>2. Silent /\ pc = "top"
        BY <2>1 DEF BeginIteration, Silent
      <3> QED BY <1>1, <3>1, <3>2 DEF Running
    <2>2. CASE FallThrough \/ ModelCallFails \/ ModelCallLate
      <3>1. Silent /\ pc \in Running /\ pc' \in Running
        BY <2>2 DEF FallThrough, ModelCallFails, ModelCallLate,
           Terminate, Silent, Running, worldVars
      <3> QED BY <1>1, <3>1
    <2> QED BY <1>6, <2>1, <2>2
  <1>7. CASE ModelReplies
    <2>1. PICK r \in Response, p \in Price : ReplyOf(r, p)
      BY <1>7, ModelRepliesWith
    <2>2. Silent /\ pc \in Running /\ pc' \in Running
      BY <1>7, <2>1 DEF ModelReplies, ReplyOf, Silent, Running
    <2> QED BY <1>1, <2>2
  <1>8. CASE \/ GateExplicit \/ GateCalls \/ VerifyMemory \/ RememberAndStartTools
             \/ StartSequential \/ ToolsDone \/ Swarm \/ Critic \/ Escalate \/ Decide
    <2>1. Silent /\ pc \in Running /\ pc' \in Running
      BY <1>8 DEF GateExplicit, GateCalls, Gated, VerifyMemory, RememberAndStartTools,
         StartSequential, ToolsDone, Swarm, Critic, Escalate, Decide, Silent,
         Running, worldVars
    <2> QED BY <1>1, <2>1
  <1>9. CASE Raise \/ RaiseInTool \/ Crash
    <2>1. /\ pc \in Running \cup {"aborted"} /\ pc' \in {"aborted", "crashed"}
          /\ invoked' = invoked
          /\ Silent \/ (pc = "save" /\ journal' = state)
      BY <1>9 DEF Raise, RaiseInTool, Crash, CutShort, JournalEntry, Silent, Running,
         worldVars, TypeInv, TypeOK, Ended
    <2>2. CASE pc = "save" /\ journal' = state
      <3>1. state.outcome \in AbstractTurn!Final \cup {"iterate"}
        BY <2>2 DEF SaveInv
      <3> QED BY <2>1, <2>2, <3>1 DEF AbstractTurn!Next, AbstractTurn!Lose
    <2> QED BY <1>2, <1>3, <2>1, <2>2
  <1>10. CASE UNCHANGED vars
    BY <1>10 DEF vars, worldVars, AbstractTurn!turn
  <1> QED
    BY <1>4, <1>5, <1>6, <1>7, <1>8, <1>9, <1>10 DEF Next, Step

\* Seen from outside, one run of the loop is a Turn: it does only permitted
\* work, and its return and its journal name one and the same outcome.
THEOREM TurnImplemented == Spec => ImplementsTurn
  <1>1. Init => TypeInv /\ GateInv /\ SaveInv
    BY InitTyped, InitGate DEF Init, SaveInv
  <1>2. TypeInv /\ GateInv /\ SaveInv /\ [Next]_vars
            => (TypeInv /\ GateInv /\ SaveInv)'
    BY NextTyped, NextGate, NextSave
  <1>3. Init => AbstractTurn!Init
    BY DEF Init, NoEntry, NewState, AbstractTurn!Init
  <1> QED
    BY <1>1, <1>2, <1>3, StepsTurn, PTL DEF Spec, ImplementsTurn, AbstractTurn!Spec

-----------------------------------------------------------------------------
(* Answers and the order of calls *)

\* The sites between the gate and the decision, and a turn about to go round.
Sites == {"verify", "remember", "tools", "invoke", "swarm", "critic", "decide"}
Iterating == pc = "save" /\ state.outcome = "iterate"
Ran(i) == \E f \in invoked : f.iteration = state.iteration /\ f.call = i

\* EveryCallAnswered at each site: what the gate let through and refused, then
\* what Site 3 took out, then what is under way, queued and answered, are
\* always the calls considered, and none is both corrected and answered.  A
\* cleared call that is neither under way nor queued has run.
AnswersInv ==
    /\ \A i \in inflight : ~resp.calls[i].side_effect
    /\ \A i \in queue : resp.calls[i].side_effect
    /\ pc = "invoke" => inflight = {}
    /\ pc \in {"tools", "invoke"} \/ Iterating => ~forced
    /\ pc \in {"gate", "verify", "remember"} => answered = {}
    /\ pc \in {"gate", "verify"} => corrected = {}
    /\ pc \in {"verify", "remember"} /\ ~forced =>
         /\ cleared \cup denied \cup corrected = Considered
         /\ cleared \cap denied = {} /\ (cleared \cup denied) \cap corrected = {}
    /\ pc \in {"tools", "invoke"} =>
         /\ answered \cup inflight \cup queue \cup corrected = Considered
         /\ (answered \cup inflight \cup queue) \cap corrected = {}
         /\ \A i \in cleared : i \in inflight \cup queue \/ Ran(i)
    /\ (pc \in {"swarm", "critic", "decide"} /\ ~forced) \/ Iterating =>
         /\ answered \cup corrected = Considered
         /\ answered \cap corrected = {}

\* A step that goes to the journal write without Site 7 does not go round.
LEMMA StopsTheTurn ==
    ASSUME TypeInv,
           BeginIteration \/ FallThrough \/ ModelCallFails \/ ModelCallLate
           \/ ModelReplies \/ Escalate, pc' = "save"
    PROVE  state'.outcome \in {"fail", "expire", "finalize"}
  <1>0. state \in States
    BY DEF TypeInv, TypeOK
  <1>1. CASE BeginIteration
    BY <1>0, <1>1 DEF BeginIteration, States
  <1>2. CASE FallThrough \/ ModelCallFails \/ ModelCallLate \/ Escalate
    BY <1>0, <1>2
    DEF FallThrough, ModelCallFails, ModelCallLate, Escalate, Terminate, States
  <1>3. CASE ModelReplies
    <2>1. PICK r \in Response, p \in Price : ReplyOf(r, p)
      BY <1>3, ModelRepliesWith
    <2> QED BY <1>0, <2>1 DEF ReplyOf, States
  <1> QED BY <1>1, <1>2, <1>3

\* Calls reach the world in two ways only.
LEMMA InvokedBy ==
    ASSUME [Next]_vars, ~RunParallel, ~RunSequential
    PROVE  invoked' = invoked
  BY DEF Next, Step, BeginIteration, FallThrough, ModelCallFails, ModelCallLate,
     ModelReplies, GateExplicit, GateCalls, Gated, VerifyMemory,
     RememberAndStartTools, StartSequential, ToolsDone, Swarm, Critic, Escalate,
     Decide, Save, Raise, RaiseInTool, Crash, vars, worldVars

LEMMA NextAnswers == TypeInv /\ GateInv /\ AnswersInv /\ [Next]_vars => AnswersInv'
  <1> SUFFICES ASSUME TypeInv, GateInv, AnswersInv, [Next]_vars PROVE AnswersInv'
    OBVIOUS
  <1>0. state \in States
    BY DEF TypeInv, TypeOK
  <1>1. CASE BeginIteration
    <2>1. pc = "top" /\ pc' \in {"model", "save"}
      BY <1>1 DEF BeginIteration
    <2>2. inflight' = {} /\ queue' = {}
      BY <1>1, <2>1 DEF BeginIteration, turnVars, TypeInv, Idle
    <2> QED BY <1>1, <2>1, <2>2, StopsTheTurn DEF AnswersInv, Iterating
  <1>2. CASE FallThrough \/ ModelCallFails \/ ModelCallLate
    <2>1. pc \in {"top", "model"} /\ pc' = "save" /\ UNCHANGED turnVars
      BY <1>2 DEF FallThrough, ModelCallFails, ModelCallLate, Terminate
    <2>2. inflight' = {} /\ queue' = {}
      BY <2>1 DEF turnVars, TypeInv, Idle
    <2> QED BY <1>2, <2>1, <2>2, StopsTheTurn DEF AnswersInv, Iterating
  <1>3. CASE ModelReplies
    <2>1. pc = "model" /\ pc' \in {"gate", "save"}
      BY <1>3 DEF ModelReplies
    <2>2. inflight' = {} /\ queue' = {} /\ answered' = {} /\ corrected' = {}
      BY <1>3 DEF ModelReplies, TypeInv, Idle
    <2> QED BY <1>3, <2>1, <2>2, StopsTheTurn DEF AnswersInv, Iterating
  <1>4. CASE GateExplicit
    <2>1. /\ pc = "gate" /\ pc' = "verify" /\ forced'
          /\ answered' = answered /\ corrected' = corrected
          /\ inflight' = inflight /\ queue' = queue /\ inflight = {} /\ queue = {}
      BY <1>4 DEF GateExplicit, Gated, TypeInv, Idle
    <2> QED BY <2>1 DEF AnswersInv, Iterating
  <1>5. CASE GateCalls
    <2>1. PICK tools \in {Tool, {}} : GateWith(tools)
      BY <1>5, GateCallsWith
    <2>2. /\ pc = "gate" /\ pc' = "verify"
          /\ cleared' = Ok(tools) /\ denied' = Before(tools) \ Ok(tools)
          /\ answered' = answered /\ corrected' = corrected
          /\ inflight' = {} /\ queue' = {} /\ UNCHANGED <<resp, caps>>
      BY <2>1 DEF GateWith, Gated, TypeInv, Idle
    <2>3. ~forced' => Before(tools) = Considered
      BY <2>1 DEF GateWith, Before, Needs
    <2>4. Ok(tools) \subseteq Before(tools)
      BY DEF Ok
    <2>5. Considered' = Considered
      BY <2>2 DEF Considered
    <2> QED BY <2>2, <2>3, <2>4, <2>5 DEF AnswersInv, Iterating
  <1>6. CASE VerifyMemory
    <2>1. PICK stale \in SUBSET cleared :
             cleared' = cleared \ stale /\ corrected' = stale
      BY <1>6 DEF VerifyMemory
    <2>2. /\ pc = "verify" /\ pc' = "remember"
          /\ UNCHANGED <<caps, resp, denied, forced, answered, inflight, queue>>
      BY <1>6 DEF VerifyMemory
    <2>3. Considered' = Considered
      BY <2>2 DEF Considered
    <2> QED BY <2>1, <2>2, <2>3 DEF AnswersInv, Iterating
  <1>7. CASE RememberAndStartTools
    <2>1. /\ pc = "remember"
          /\ UNCHANGED <<caps, resp, state, cleared, denied, corrected, forced>>
      BY <1>7 DEF RememberAndStartTools
    <2>2. Considered' = Considered
      BY <2>1 DEF Considered
    <2>3. CASE forced
      <3>1. pc' = "swarm" /\ UNCHANGED <<inflight, queue, answered>>
        BY <1>7, <2>3 DEF RememberAndStartTools
      <3> QED BY <2>1, <2>3, <3>1 DEF AnswersInv, Iterating
    <2>4. CASE ~forced
      <3>1. /\ pc' = "tools" /\ answered' = denied
            /\ inflight' = {i \in cleared : ~resp.calls[i].side_effect}
            /\ queue' = {i \in cleared : resp.calls[i].side_effect}
        BY <1>7, <2>4 DEF RememberAndStartTools, DenialResults
      <3>2. inflight' \cup queue' = cleared
        BY <3>1
      <3> QED BY <2>1, <2>2, <2>4, <3>1, <3>2 DEF AnswersInv, Iterating
    <2> QED BY <2>3, <2>4
  <1>8. CASE RunParallel
    <2>1. PICK i \in inflight : /\ inflight' = inflight \ {i}
                                /\ invoked' = invoked \cup {Invocation(i)}
                                /\ answered' = answered \cup {i}
      BY <1>8 DEF RunParallel
    <2>2. /\ pc \in {"tools", "aborted"}
          /\ UNCHANGED <<caps, pc, state, resp, cleared, corrected, forced, queue>>
      BY <1>8 DEF RunParallel
    <2>3. Considered' = Considered
      BY <2>2 DEF Considered
    <2>4. Invocation(i).iteration = state.iteration /\ Invocation(i).call = i
      BY DEF Invocation
    <2>5. Ran(i)' /\ \A j : Ran(j) => Ran(j)'
      BY <2>1, <2>2, <2>4 DEF Ran
    <2> QED BY <2>1, <2>2, <2>3, <2>5 DEF AnswersInv, Iterating
  <1>9. CASE StartSequential
    <2>1. /\ pc = "tools" /\ inflight = {} /\ pc' = "invoke"
          /\ state'.iteration = state.iteration
      BY <1>0, <1>9 DEF StartSequential, States
    <2>2. UNCHANGED <<caps, turnVars, invoked>>
      BY <1>9 DEF StartSequential, worldVars
    <2>3. Considered' = Considered /\ \A j : Ran(j) => Ran(j)'
      BY <2>1, <2>2 DEF Considered, Ran, turnVars
    <2> QED BY <2>1, <2>2, <2>3 DEF AnswersInv, Iterating, turnVars
  <1>10. CASE RunSequential
    <2>1. PICK i \in queue : /\ queue' = queue \ {i}
                             /\ invoked' = invoked \cup {Invocation(i)}
                             /\ answered' = answered \cup {i}
      BY <1>10 DEF RunSequential
    <2>2. /\ pc = "invoke" /\ pc' = "tools" /\ state'.iteration = state.iteration
          /\ UNCHANGED <<caps, resp, cleared, corrected, forced, inflight>>
      BY <1>0, <1>10 DEF RunSequential, States
    <2>3. Considered' = Considered
      BY <2>2 DEF Considered
    <2>4. Invocation(i).iteration = state.iteration /\ Invocation(i).call = i
      BY DEF Invocation
    <2>5. Ran(i)' /\ \A j : Ran(j) => Ran(j)'
      BY <2>1, <2>2, <2>4 DEF Ran
    <2> QED BY <2>1, <2>2, <2>3, <2>5 DEF AnswersInv, Iterating
  <1>11. CASE ToolsDone \/ Swarm \/ Critic
    <2>1. /\ pc \in {"tools", "swarm", "critic"} /\ pc' \in {"swarm", "critic", "decide"}
          /\ pc = "tools" => inflight = {} /\ queue = {}
          /\ UNCHANGED <<caps, resp, cleared, denied, corrected, forced, inflight, queue,
                         answered>>
      BY <1>11 DEF ToolsDone, Swarm, Critic, turnVars
    <2>2. Considered' = Considered
      BY <2>1 DEF Considered
    <2> QED BY <2>1, <2>2 DEF AnswersInv, Iterating
  <1>12. CASE Escalate
    <2>1. pc = "decide" /\ pc' = "save" /\ UNCHANGED turnVars
      BY <1>12 DEF Escalate
    <2> QED BY <1>12, <2>1, StopsTheTurn DEF AnswersInv, Iterating, turnVars
  <1>13. CASE Decide
    <2>1. pc = "decide" /\ pc' = "save" /\ UNCHANGED <<caps, turnVars>>
      BY <1>13 DEF Decide
    <2>2. PICK late \in BOOLEAN : state' = Decision(late)
      BY <1>13 DEF Decide
    <2>3. state'.outcome = "iterate" => ~forced
      <3>1. \A o, b, c : [state EXCEPT !.outcome = o, !.outbound = b,
                                      !.code = c].outcome = o
        BY <1>0 DEF States
      <3>2. \A o : [state EXCEPT !.outcome = o].outcome = o
        BY <1>0 DEF States
      <3> QED BY <2>2, <3>1, <3>2 DEF Decision
    <2>4. Considered' = Considered
      BY <2>1 DEF Considered, turnVars
    <2> QED BY <2>1, <2>3, <2>4 DEF AnswersInv, Iterating, turnVars
  <1>14. CASE Save \/ Raise
    <2>1. pc' \in {"top", "done", "aborted"} /\ UNCHANGED turnVars
      BY <1>14 DEF Save, Raise
    <2> QED BY <2>1 DEF AnswersInv, Iterating, turnVars
  <1>15. CASE RaiseInTool \/ Crash
    <2>1. /\ pc' \in {"aborted", "crashed"} /\ resp' = resp
          /\ inflight' \subseteq inflight /\ queue' \subseteq queue
      BY <1>15 DEF RaiseInTool, Crash
    <2> QED BY <2>1 DEF AnswersInv, Iterating
  <1>16. CASE UNCHANGED vars
    <2>1. Considered' = Considered /\ \A j : Ran(j)' = Ran(j)
      BY <1>16 DEF Considered, Ran, vars, turnVars, worldVars
    <2> QED BY <1>16, <2>1 DEF AnswersInv, Iterating, vars, turnVars
  <1> QED
    BY <1>1, <1>2, <1>3, <1>4, <1>5, <1>6, <1>7, <1>8, <1>9, <1>10, <1>11, <1>12,
       <1>13, <1>14, <1>15, <1>16 DEF Next, Step

\* When the loop goes round, each call considered was answered exactly once.
LEMMA AnswersCover == AnswersInv => EveryCallAnswered
  BY DEF AnswersInv, Iterating, EveryCallAnswered

\* Site 2 runs the gathered reads before, and the side_effect calls in document
\* order (tools.execute).
LEMMA StepsInOrder ==
    TypeInv /\ GateInv /\ AnswersInv /\ [Next]_vars =>
        (\A e \in invoked' \ invoked : e.side_effect =>
           \A i \in cleared : ~resp.calls[i].side_effect \/ i < e.call =>
             \E f \in invoked : f.iteration = e.iteration /\ f.call = i)
  <1> SUFFICES ASSUME TypeInv, GateInv, AnswersInv, [Next]_vars,
                      NEW e \in invoked' \ invoked, e.side_effect,
                      NEW i \in cleared, ~resp.calls[i].side_effect \/ i < e.call
               PROVE  \E f \in invoked : f.iteration = e.iteration /\ f.call = i
    OBVIOUS
  <1>1. CASE RunParallel
    <2>1. PICK j \in inflight : invoked' = invoked \cup {Invocation(j)}
      BY <1>1 DEF RunParallel
    <2>2. e = Invocation(j)
      BY <2>1
    <2> QED BY <2>2 DEF Invocation, AnswersInv
  <1>2. CASE RunSequential
    <2>1. PICK j \in queue : NextInQueue(j) /\ invoked' = invoked \cup {Invocation(j)}
      BY <1>2 DEF RunSequential
    <2>2. e.iteration = state.iteration /\ e.call = j
      BY <2>1 DEF Invocation
    <2>3. pc = "invoke" /\ inflight = {}
      BY <1>2 DEF RunSequential, AnswersInv
    <2>4. i \notin queue
      <3>1. i \in Nat /\ j \in Nat
        BY ResponseShape DEF TypeInv, TypeOK, Index
      <3> QED BY <2>1, <2>2, <3>1 DEF NextInQueue, AnswersInv
    <2> QED BY <2>2, <2>3, <2>4 DEF AnswersInv, Ran
  <1>3. CASE ~RunParallel /\ ~RunSequential
    <2>1. invoked' = invoked
      BY <1>3, InvokedBy
    <2> QED BY <2>1
  <1> QED BY <1>1, <1>2, <1>3

-----------------------------------------------------------------------------
(* The journal *)

\* What each field of HarnessState is written by.
LEMMA FieldsKept ==
    ASSUME TypeInv, [Next]_vars
    PROVE  /\ StartSequential \/ state'.intents = state.intents
           /\ RunSequential \/ state'.results = state.results
           /\ BeginIteration \/ state'.iteration = state.iteration
           /\ ModelReplies \/ state'.cost = state.cost
           /\ GateExplicit \/ GateCalls \/ state'.pending = state.pending
           /\ Escalate \/ Decide \/ state'.outbound = state.outbound
           /\ \/ BeginIteration \/ FallThrough \/ ModelCallFails \/ ModelCallLate
              \/ ModelReplies \/ Escalate \/ Decide
              \/ state'.code = state.code /\ state'.outcome = state.outcome
  <1>0. state \in States
    BY DEF TypeInv, TypeOK
  <1> USE <1>0 DEF States
  <1>1. CASE BeginIteration
    BY <1>1 DEF BeginIteration
  <1>2. CASE FallThrough \/ ModelCallFails \/ ModelCallLate
    BY <1>2 DEF FallThrough, ModelCallFails, ModelCallLate, Terminate
  <1>3. CASE ModelReplies
    <2>1. PICK r \in Response, p \in Price : ReplyOf(r, p)
      BY <1>3, ModelRepliesWith
    <2> QED BY <1>3, <2>1 DEF ReplyOf
  <1>4. CASE GateExplicit
    BY <1>4 DEF GateExplicit, Gated
  <1>5. CASE GateCalls
    <2>1. PICK tools \in {Tool, {}} : GateWith(tools)
      BY <1>5, GateCallsWith
    <2> QED BY <1>5, <2>1 DEF GateWith, Gated
  <1>6. CASE StartSequential
    BY <1>6 DEF StartSequential
  <1>7. CASE RunSequential
    BY <1>7 DEF RunSequential
  <1>8. CASE Critic
    BY <1>8 DEF Critic
  <1>9. CASE Escalate
    BY <1>9 DEF Escalate
  <1>10. CASE Decide
    <2>1. PICK late \in BOOLEAN : state' = Decision(late)
      BY <1>10 DEF Decide
    <2>2. \A o, b, c : LET s == [state EXCEPT !.outcome = o, !.outbound = b, !.code = c]
                       IN  /\ s.iteration = state.iteration /\ s.pending = state.pending
                           /\ s.cost = state.cost /\ s.intents = state.intents
                           /\ s.results = state.results
      OBVIOUS
    <2>3. \A o : LET s == [state EXCEPT !.outcome = o]
                 IN  /\ s.iteration = state.iteration /\ s.pending = state.pending
                     /\ s.cost = state.cost /\ s.intents = state.intents
                     /\ s.results = state.results
      OBVIOUS
    <2>4. /\ state'.iteration = state.iteration /\ state'.pending = state.pending
          /\ state'.cost = state.cost /\ state'.intents = state.intents
          /\ state'.results = state.results
      BY <2>1, <2>2, <2>3 DEF Decision
    <2> QED BY <1>10, <2>4
  <1>11. CASE \/ VerifyMemory \/ RememberAndStartTools \/ RunParallel \/ ToolsDone
              \/ Swarm \/ Save \/ Raise \/ RaiseInTool \/ Crash \/ UNCHANGED vars
    BY <1>11 DEF VerifyMemory, RememberAndStartTools, RunParallel, ToolsDone,
       Swarm, Save, Raise, RaiseInTool, Crash, vars
  <1> QED
    BY <1>1, <1>2, <1>3, <1>4, <1>5, <1>6, <1>7, <1>8, <1>9, <1>10, <1>11
    DEF Next, Step

\* JournalCovers follows from what the state itself covers at all times; and
\* there, a call's result counts only with the intent that was appended first.
JournalInv ==
    /\ SideEffects \subseteq state.intents \cap state.results
    /\ pc = "invoke" => \A i \in queue :
           NextInQueue(i) => <<state.iteration, i>> \in state.intents
    /\ JournalCovers

LEMMA NextJournal ==
    TypeInv /\ AnswersInv /\ JournalInv /\ [Next]_vars => JournalInv'
  <1> SUFFICES ASSUME TypeInv, AnswersInv, JournalInv, [Next]_vars PROVE JournalInv'
    OBVIOUS
  <1>0. state \in States
    BY DEF TypeInv, TypeOK
  <1>1. CASE RunParallel
    <2>1. PICK i \in inflight : invoked' = invoked \cup {Invocation(i)}
      BY <1>1 DEF RunParallel
    <2>2. SideEffects' = SideEffects
      BY <2>1 DEF SideEffects, Invocation, AnswersInv
    <2>3. pc \in {"tools", "aborted"} /\ UNCHANGED <<pc, state, journal>>
      BY <1>1 DEF RunParallel
    <2> QED BY <2>2, <2>3 DEF JournalInv, JournalCovers
  <1>2. CASE RunSequential
    <2>1. PICK i \in queue :
             /\ NextInQueue(i) /\ invoked' = invoked \cup {Invocation(i)}
             /\ state' = [state EXCEPT !.results = @ \cup {<<state.iteration, i>>}]
      BY <1>2 DEF RunSequential
    <2>2. pc = "invoke" /\ pc' = "tools"
      BY <1>2 DEF RunSequential
    <2>3. /\ state'.results = state.results \cup {<<state.iteration, i>>}
          /\ state'.intents = state.intents
      BY <1>0, <2>1 DEF States
    <2>4. SideEffects' \subseteq SideEffects \cup {<<state.iteration, i>>}
      BY <2>1 DEF SideEffects, Invocation
    <2>5. <<state.iteration, i>> \in state.intents
      BY <2>1, <2>2 DEF JournalInv
    <2> QED BY <2>2, <2>3, <2>4, <2>5 DEF JournalInv, JournalCovers
  <1>3. CASE StartSequential
    <2>1. PICK i \in queue :
             /\ NextInQueue(i)
             /\ state' = [state EXCEPT !.intents = @ \cup {<<state.iteration, i>>}]
      BY <1>3 DEF StartSequential
    <2>2. pc' = "invoke" /\ queue' = queue /\ invoked' = invoked
      BY <1>3 DEF StartSequential, turnVars, worldVars
    <2>3. /\ state'.intents = state.intents \cup {<<state.iteration, i>>}
          /\ state'.results = state.results /\ state'.iteration = state.iteration
      BY <1>0, <2>1 DEF States
    <2>4. \A j \in queue : NextInQueue(j) => j = i
      <3>1. \A j \in queue : j \in Nat
        BY ResponseShape DEF TypeInv, TypeOK, Index
      <3> QED BY <2>1, <3>1 DEF NextInQueue
    <2>5. \A j \in queue : NextInQueue(j)' => j = i
      BY <2>2, <2>4 DEF NextInQueue
    <2>6. SideEffects' = SideEffects
      BY <2>2 DEF SideEffects
    <2> QED BY <2>2, <2>3, <2>5, <2>6 DEF JournalInv, JournalCovers
  <1>4. CASE ~RunParallel /\ ~RunSequential /\ ~StartSequential
    <2>1. state'.intents = state.intents /\ state'.results = state.results
      BY <1>4, FieldsKept
    <2>2. SideEffects' = SideEffects
      BY <1>4, InvokedBy DEF SideEffects
    <2>3. pc' = "invoke" => pc = "invoke" /\ UNCHANGED <<queue, state>>
      BY <1>4 DEF Next, Step, BeginIteration, FallThrough, ModelCallFails,
         ModelCallLate, Terminate, ModelReplies, GateExplicit, GateCalls, Gated,
         VerifyMemory, RememberAndStartTools, ToolsDone, Swarm, Critic, Escalate,
         Decide, Save, Raise, RaiseInTool, Crash, vars, turnVars
    <2>4. CASE journal' = state
      BY <2>1, <2>2, <2>3, <2>4 DEF JournalInv, JournalCovers, NextInQueue
    <2>5. CASE journal' # state
      <3>0. ~Save
        BY <2>5 DEF Save, JournalEntry
      <3>1. journal' = journal
        BY <1>4, <2>5, <3>0 DEF Next, Step, BeginIteration, FallThrough, ModelCallFails,
           ModelCallLate, ModelReplies, GateExplicit, GateCalls, Gated, VerifyMemory,
           RememberAndStartTools, ToolsDone, Swarm, Critic, Escalate, Decide, Raise,
           RaiseInTool, Crash, CutShort, JournalEntry, vars
      <3>2. pc' \in {"top", "model", "gate", "done"} => pc \in {"top", "model", "done"}
                                                        \/ pc' = pc
        BY <1>4, <3>0 DEF Next, Step, BeginIteration, FallThrough, ModelCallFails,
           ModelCallLate, Terminate, ModelReplies, GateExplicit, GateCalls, Gated,
           VerifyMemory, RememberAndStartTools, ToolsDone, Swarm, Critic, Escalate,
           Decide, Raise, RaiseInTool, Crash, vars
      <3> QED BY <2>1, <2>2, <2>3, <3>1, <3>2 DEF JournalInv, JournalCovers, NextInQueue
    <2> QED BY <2>4, <2>5
  <1> QED BY <1>1, <1>2, <1>3, <1>4

-----------------------------------------------------------------------------
(* What run_harness returns *)

\* The last conjuncts of OutcomeConsistent, of a turn that is decided.
Consistent ==
    /\ state.outcome \in {"finalize", "fail", "expire", "suspended_at_permission"}
    /\ state.outcome \in {"fail", "suspended_at_permission"} => state.outbound = "none"
    /\ (state.outcome = "suspended_at_permission") <=> (state.code = "none")
    /\ state.outcome = "suspended_at_permission" => state.pending # NoPending
    /\ state.pending # NoPending => state.outcome = "suspended_at_permission" \/ ticket
    /\ state.outbound = "escalation" <=> ticket
    /\ state.outcome = "finalize" <=>
           state.code \in {"model_emitted_final_answer", "critic_escalated",
                          "iteration_budget_reached_with_answer"}

\* Until then nothing is decided, and what waits for an approval is what the
\* gate of this iteration suspended.
Undecided == state.outbound = "none" /\ state.code = "none" /\ ~ticket
OutcomeInv ==
    /\ pc \in {"top", "model", "gate"} \cup Sites \/ Iterating => Undecided
    /\ pc \in {"top", "model", "gate"} \/ Iterating => state.pending = NoPending
    /\ pc \in Sites => (forced <=> state.pending # NoPending)
    /\ pc = "save" /\ state.outcome # "iterate" => Consistent
    /\ pc = "done" => Consistent /\ journal = state

LEMMA NextOutcome == TypeInv /\ OutcomeInv /\ [Next]_vars => OutcomeInv'
  <1> SUFFICES ASSUME TypeInv, OutcomeInv, [Next]_vars PROVE OutcomeInv'
    OBVIOUS
  <1>0. state \in States /\ ticket \in BOOLEAN /\ forced \in BOOLEAN
    BY DEF TypeInv, TypeOK
  <1>1. CASE BeginIteration
    <2>1. /\ pc = "top" /\ ticket' = ticket
          /\ UNCHANGED <<ticket, forced>>
      BY <1>1 DEF BeginIteration, turnVars
    <2>2. state'.outbound = state.outbound /\ state'.pending = state.pending
      BY <1>1, FieldsKept DEF BeginIteration, Escalate, Decide, GateExplicit, GateCalls,
         Gated
    <2>3. \/ pc' = "save" /\ state'.outcome = "expire" /\ state'.code = "loop_no_progress"
          \/ pc' = "model" /\ state'.code = state.code
      BY <1>0, <1>1 DEF BeginIteration, States
    <2> QED BY <2>1, <2>2, <2>3
        DEF OutcomeInv, Iterating, Consistent, Undecided, Sites
  <1>2. CASE FallThrough \/ ModelCallFails \/ ModelCallLate
    <2>1. /\ pc \in {"top", "model"} /\ pc' = "save" /\ ticket' = ticket
          /\ state'.outbound = state.outbound /\ state'.pending = state.pending
          /\ \/ state'.outcome = "fail" /\ state'.code \in {"internal_error",
                                              "iteration_deadline_exceeded"}
             \/ state'.outcome = "expire" /\ state'.code = "loop_max_iterations"
      BY <1>0, <1>2
      DEF FallThrough, ModelCallFails, ModelCallLate, Terminate, States, worldVars
    <2> QED BY <2>1 DEF OutcomeInv, Iterating, Consistent, Undecided, Sites
  <1>3. CASE ModelReplies
    <2>1. pc = "model" /\ ticket' = ticket /\ ~forced'
      BY <1>3 DEF ModelReplies
    <2>2. PICK r \in Response, p \in Price : ReplyOf(r, p)
      BY <1>3, ModelRepliesWith
    <2>3. /\ state'.outbound = state.outbound /\ state'.pending = state.pending
          /\ \/ pc' = "gate" /\ state'.code = state.code
             \/ pc' = "save" /\ \/ /\ state'.outcome = "fail"
                                   /\ state'.code = "model_output_ambiguous"
                                \/ /\ state'.outcome = "expire"
                                   /\ state'.code = "loop_max_actions"
      BY <1>0, <2>2 DEF ReplyOf, States
    <2> QED BY <2>1, <2>3 DEF OutcomeInv, Iterating, Consistent, Undecided, Sites
  <1>4. CASE GateExplicit
    <2>1. /\ pc = "gate" /\ pc' = "verify" /\ forced' /\ ticket' = ticket
          /\ state' = [state EXCEPT !.pending = [kind |-> "explicit", call |-> 0]]
      BY <1>4 DEF GateExplicit, Gated, worldVars
    <2>2. /\ state'.outbound = state.outbound /\ state'.code = state.code
          /\ state'.pending # NoPending
      BY <1>0, <2>1 DEF States, NoPending
    <2> QED BY <2>1, <2>2 DEF OutcomeInv, Iterating, Undecided, Sites
  <1>5. CASE GateCalls
    <2>1. PICK tools \in {Tool, {}} : GateWith(tools)
      BY <1>5, GateCallsWith
    <2>2. /\ pc = "gate" /\ pc' = "verify" /\ ticket' = ticket
          /\ state'.outbound = state.outbound /\ state'.code = state.code
      BY <1>0, <2>1 DEF GateWith, Gated, worldVars, States
    <2>3. \/ forced' = FALSE /\ state'.pending = state.pending
          \/ forced' = TRUE /\ state'.pending # NoPending
      BY <1>0, <2>1 DEF GateWith, Gated, States, NoPending
    <2> QED BY <2>2, <2>3 DEF OutcomeInv, Iterating, Undecided, Sites
  <1>6. CASE \/ VerifyMemory \/ RememberAndStartTools \/ StartSequential
             \/ RunSequential \/ ToolsDone \/ Swarm \/ Critic
    <2>1. /\ pc \in Sites /\ pc' \in Sites /\ UNCHANGED <<ticket, forced>>
      BY <1>6 DEF VerifyMemory, RememberAndStartTools, StartSequential, RunSequential,
         ToolsDone, Swarm, Critic, Sites, turnVars, worldVars
    <2>2. /\ state'.outbound = state.outbound /\ state'.code = state.code
          /\ state'.pending = state.pending
      <3>1. CASE \/ VerifyMemory \/ RememberAndStartTools \/ ToolsDone \/ Swarm
        BY <3>1 DEF VerifyMemory, RememberAndStartTools, ToolsDone, Swarm
      <3>2. CASE StartSequential \/ RunSequential \/ Critic
        BY <1>0, <3>2 DEF StartSequential, RunSequential, Critic, States
      <3> QED BY <1>6, <3>1, <3>2
    <2> QED BY <2>1, <2>2 DEF OutcomeInv, Iterating, Undecided, Sites
  <1>7. CASE Escalate
    <2>1. /\ pc = "decide" /\ pc' = "save" /\ ticket'
          /\ state'.outcome = "finalize" /\ state'.code = "critic_escalated"
          /\ state'.outbound = "escalation"
      BY <1>0, <1>7 DEF Escalate, States
    <2> QED BY <2>1 DEF OutcomeInv, Iterating, Consistent, Undecided, Sites
  <1>8. CASE Decide
    <2>1. PICK late \in BOOLEAN : state' = Decision(late)
      BY <1>8 DEF Decide
    <2>2. /\ pc = "decide" /\ pc' = "save" /\ UNCHANGED <<ticket, forced>>
          /\ state'.pending = state.pending
      BY <1>8, FieldsKept DEF Decide, turnVars, worldVars, GateExplicit, GateCalls, Gated
    <2>3. Undecided /\ (forced <=> state.pending # NoPending)
      BY <2>2 DEF OutcomeInv, Sites
    <2>4. CASE forced
      <3>1. state' = [state EXCEPT !.outcome = "suspended_at_permission"]
        BY <2>1, <2>4 DEF Decision
      <3>2. /\ state'.outcome = "suspended_at_permission" /\ state'.code = state.code
            /\ state'.outbound = state.outbound
        BY <1>0, <3>1 DEF States
      <3> QED BY <2>2, <2>3, <2>4, <3>2
          DEF OutcomeInv, Iterating, Consistent, Undecided, Sites
    <2>5. CASE ~forced
      <3>1. /\ state'.outcome \in {"expire", "finalize", "iterate"}
            /\ state'.outcome = "iterate" => /\ state'.code = state.code
                                             /\ state'.outbound = state.outbound
            /\ state'.outcome # "iterate" => state'.outbound = BuiltOutbound
            /\ state'.outcome = "expire" => state'.code \in {"task_deadline_exceeded",
                 "budget_exceeded", "loop_max_iterations"}
            /\ state'.outcome = "finalize" => state'.code \in
                 {"model_emitted_final_answer", "iteration_budget_reached_with_answer"}
        <4>1. \A o, b, c : LET s == [state EXCEPT !.outcome = o, !.outbound = b,
                                                  !.code = c]
                           IN  s.outcome = o /\ s.outbound = b /\ s.code = c
          BY <1>0 DEF States
        <4>2. LET s == [state EXCEPT !.outcome = "iterate"]
              IN  /\ s.outcome = "iterate" /\ s.code = state.code
                  /\ s.outbound = state.outbound
          BY <1>0 DEF States
        <4> QED BY <2>1, <2>5, <4>1, <4>2 DEF Decision
      <3>2. BuiltOutbound \in {"none", "text", "ask"}
        BY DEF BuiltOutbound
      <3> QED BY <2>2, <2>3, <2>5, <3>1, <3>2
          DEF OutcomeInv, Iterating, Consistent, Undecided, Sites
    <2> QED BY <2>4, <2>5
  <1>9. CASE Save
    <2>1. /\ pc = "save" /\ journal' = state /\ UNCHANGED <<state, ticket>>
          /\ IF state.outcome = "iterate" THEN pc' = "top" ELSE pc' = "done"
      BY <1>9 DEF Save, JournalEntry, worldVars
    <2> QED BY <2>1 DEF OutcomeInv, Iterating, Consistent, Undecided, Sites
  <1>10. CASE Raise \/ RaiseInTool \/ Crash
    <2>1. pc' \in {"aborted", "crashed"}
      BY <1>10 DEF Raise, RaiseInTool, Crash
    <2> QED BY <2>1 DEF OutcomeInv, Iterating, Sites
  <1>11. CASE RunParallel \/ UNCHANGED vars
    <2>1. UNCHANGED <<pc, state, journal, ticket, forced>>
      BY <1>11 DEF RunParallel, vars, turnVars, worldVars
    <2> QED BY <2>1 DEF OutcomeInv, Iterating, Consistent, Undecided
  <1> QED
    BY <1>1, <1>2, <1>3, <1>4, <1>5, <1>6, <1>7, <1>8, <1>9, <1>10, <1>11
    DEF Next, Step

\* The journal and the answers of a turn agree with what the turn did and with
\* what it returns, for every response and every order of calls and failures
\* (tools.execute, save_state, loop.py:471-503).
THEOREM JournalAgreement == Spec => []JournalAgrees
  <1> DEFINE I == TypeInv /\ GateInv /\ AnswersInv /\ JournalInv /\ OutcomeInv
  <1>1. Init => I
    <2> SUFFICES ASSUME Init PROVE I
      OBVIOUS
    <2>1. TypeInv /\ GateInv
      BY InitTyped, InitGate
    <2>2. AnswersInv /\ OutcomeInv
      BY DEF Init, AnswersInv, OutcomeInv, Iterating, Undecided, Sites, NewState
    <2>3. SideEffects = {}
      BY DEF Init, SideEffects
    <2>4. JournalInv
      BY <2>3 DEF Init, JournalInv, JournalCovers
    <2> QED BY <2>1, <2>2, <2>4
  <1>2. I /\ [Next]_vars => I'
    BY NextTyped, NextGate, NextAnswers, NextJournal, NextOutcome
  <1>3. I => JournalAgrees
    BY AnswersCover DEF JournalInv, OutcomeInv, Consistent, OutcomeConsistent,
       JournalAgrees
  <1> QED BY <1>1, <1>2, <1>3, PTL DEF Spec

\* A side_effect call starts after all reads of its response have returned and
\* after the side_effect calls written before it (tools.execute).
THEOREM CallsInOrder == Spec => SequentialInOrder
  <1> DEFINE I == TypeInv /\ GateInv /\ AnswersInv
  <1>1. Init => I
    <2>1. Init => AnswersInv
      BY DEF Init, AnswersInv, Iterating, NewState
    <2> QED BY <2>1, InitTyped, InitGate
  <1>2. I /\ [Next]_vars => I'
    BY NextTyped, NextGate, NextAnswers
  <1>3. I /\ [Next]_vars =>
          [\A e \in invoked' \ invoked : e.side_effect =>
             \A i \in cleared : ~resp.calls[i].side_effect \/ i < e.call =>
               \E f \in invoked : f.iteration = e.iteration /\ f.call = i]_vars
    BY StepsInOrder
  <1> QED BY <1>1, <1>2, <1>3, PTL DEF Spec, SequentialInOrder

-----------------------------------------------------------------------------
(* Budgets *)

\* BudgetBeforeCall from the decision to go round on, and the bound on actions
\* from the check of loop.py:306 on.
BudgetInv ==
    /\ state.cost <= spent
    /\ pc \in {"top", "model", "gate"} \cup Sites \/ Iterating =>
         totalActions <= caps.max_total_actions
    /\ Iterating \/ (pc = "top" /\ next > 0) \/ (pc = "model" /\ state.iteration > 0) =>
         state.cost < caps.max_cost_paise

LEMMA NextBudget == TypeInv /\ BudgetInv /\ [Next]_vars => BudgetInv'
  <1> SUFFICES ASSUME TypeInv, BudgetInv, [Next]_vars PROVE BudgetInv'
    OBVIOUS
  <1>0. /\ state \in States /\ state.cost \in Nat /\ state.iteration \in Nat
        /\ next \in Nat /\ spent \in Nat /\ Price \subseteq Nat
        /\ totalActions \in Nat /\ caps.max_cost_paise \in Nat
    BY HarnessAssumption DEF TypeInv, TypeOK, States, HarnessCaps
  <1>1. CASE BeginIteration
    <2>1. /\ pc = "top" /\ state'.cost = state.cost /\ state'.iteration = next
          /\ UNCHANGED <<caps, totalActions>>
      BY <1>0, <1>1 DEF BeginIteration, States
    <2>2. spent' \in Nat /\ spent' >= spent
      BY <1>0, <1>1 DEF BeginIteration
    <2>3. pc' = "model" \/ (pc' = "save" /\ state'.outcome = "expire")
      BY <1>0, <1>1 DEF BeginIteration, States
    <2> QED BY <1>0, <2>1, <2>2, <2>3 DEF BudgetInv, Iterating, Sites
  <1>2. CASE FallThrough \/ ModelCallFails \/ ModelCallLate
    <2>1. state'.cost = state.cost /\ pc' = "save" /\ state'.outcome # "iterate"
      BY <1>0, <1>2
      DEF FallThrough, ModelCallFails, ModelCallLate, Terminate, States
    <2>2. spent' \in Nat /\ spent' >= spent
      BY <1>0, <1>2 DEF FallThrough, ModelCallFails, ModelCallLate, worldVars
    <2> QED BY <1>0, <2>1, <2>2 DEF BudgetInv, Iterating, Sites
  <1>3. CASE ModelReplies
    <2>1. PICK r \in Response, p \in Price : ReplyOf(r, p)
      BY <1>3, ModelRepliesWith
    <2>2. /\ state'.cost = state.cost + p /\ spent' = spent + p
          /\ \/ pc' = "save" /\ state'.outcome # "iterate"
             \/ pc' = "gate" /\ totalActions' <= caps.max_total_actions
      BY <1>0, <2>1 DEF ReplyOf, States
    <2>3. caps' = caps
      BY <1>3 DEF ModelReplies
    <2>4. p \in Nat
      BY <1>0
    <2> QED BY <1>0, <2>2, <2>3, <2>4 DEF BudgetInv, Iterating, Sites
  <1>4. CASE Decide
    <2>1. PICK late \in BOOLEAN : state' = Decision(late)
      BY <1>4 DEF Decide
    <2>2. state'.outcome = "iterate" => ~OverBudget
      <3>1. \A o, b, c : [state EXCEPT !.outcome = o, !.outbound = b,
                                      !.code = c].outcome = o
        BY <1>0 DEF States
      <3>2. \A o : [state EXCEPT !.outcome = o].outcome = o
        BY <1>0 DEF States
      <3> QED BY <2>1, <3>1, <3>2 DEF Decision
    <2>3. /\ pc = "decide" /\ pc' = "save" /\ state'.cost = state.cost
          /\ UNCHANGED <<caps, totalActions, spent>>
      BY <1>4, FieldsKept DEF Decide, ModelReplies, worldVars
    <2> QED BY <1>0, <2>2, <2>3 DEF BudgetInv, Iterating, OverBudget, Sites
  <1>5. CASE Escalate \/ Raise \/ RaiseInTool \/ Crash
    <2>1. \/ pc' = "save" /\ state'.outcome # "iterate"
          \/ pc' \in {"aborted", "crashed"}
      BY <1>0, <1>5 DEF Escalate, Raise, RaiseInTool, Crash, States
    <2>2. state'.cost = state.cost /\ spent' = spent
      BY <1>0, <1>5 DEF Escalate, Raise, RaiseInTool, Crash, States, worldVars
    <2> QED BY <2>1, <2>2 DEF BudgetInv, Iterating, Sites
  <1>6. CASE Save
    <2>1. /\ pc = "save" /\ UNCHANGED <<caps, state, totalActions, spent>>
          /\ IF state.outcome = "iterate" THEN pc' = "top" ELSE pc' = "done"
      BY <1>6 DEF Save, worldVars
    <2> QED BY <2>1 DEF BudgetInv, Iterating, Sites
  <1>7. CASE \/ GateExplicit \/ GateCalls \/ VerifyMemory \/ RememberAndStartTools
             \/ RunParallel \/ StartSequential \/ RunSequential \/ ToolsDone
             \/ Swarm \/ Critic
    <2>1. UNCHANGED <<caps, totalActions>> /\ state'.cost = state.cost
      <3>1. state'.cost = state.cost
        BY <1>7, FieldsKept DEF ModelReplies, GateExplicit, GateCalls, Gated,
           VerifyMemory, RememberAndStartTools, RunParallel, StartSequential,
           RunSequential, ToolsDone, Swarm, Critic
      <3>2. UNCHANGED <<caps, totalActions>>
        BY <1>7 DEF GateExplicit, GateCalls, Gated,
           VerifyMemory, RememberAndStartTools, RunParallel, StartSequential,
           RunSequential, ToolsDone, Swarm, Critic
      <3> QED BY <3>1, <3>2
    <2>2. \/ pc \in {"gate"} \cup Sites /\ pc' \in Sites
          \/ pc = "aborted" /\ pc' = "aborted"
      BY <1>7 DEF GateExplicit, GateCalls, Gated, VerifyMemory,
         RememberAndStartTools, RunParallel, StartSequential, RunSequential, ToolsDone,
         Swarm, Critic, Sites
    <2>3. spent' \in Nat /\ spent' >= spent
      BY <1>0, <1>7 DEF GateExplicit, GateCalls, Gated, VerifyMemory,
         RememberAndStartTools, RunParallel, StartSequential, RunSequential, ToolsDone,
         Swarm, Critic, worldVars
    <2> QED BY <1>0, <2>1, <2>2, <2>3 DEF BudgetInv, Iterating, Sites
  <1>8. CASE UNCHANGED vars
    BY <1>8 DEF BudgetInv, Iterating, vars, worldVars
  <1> QED
    BY <1>1, <1>2, <1>3, <1>4, <1>5, <1>6, <1>7, <1>8 DEF Next, Step

-----------------------------------------------------------------------------
(* How much is done *)

\* The calls of one iteration and of the others; an iteration whose calls may
\* still run or count.
Of(t) == {f \in invoked : f.iteration = t}
Earlier == {f \in invoked : f.iteration # state.iteration}
Underway == pc \in {"gate"} \cup Sites \/ inflight # {} \/ Iterating

\* ActionsCapped is not inductive: that a call more is one of those counted
\* before the gate follows from what of this iteration was invoked being calls
\* of its response, each once, and from room for all of them having been left.
CountInv ==
    /\ IsFiniteSet(invoked)
    /\ inflight \cup queue \subseteq Considered
    /\ \A f \in Of(state.iteration) : f.call \in Considered /\ f = Invocation(f.call)
    /\ \A t \in Nat : Cardinality(Of(t)) <= caps.max_actions_per_iteration
    /\ Cardinality(invoked) <= caps.max_total_actions
    /\ pc \in {"top", "model"} => Cardinality(invoked) <= totalActions
    /\ Underway => /\ Cardinality(Earlier) + Len(resp.calls) <= totalActions
                   /\ totalActions <= caps.max_total_actions

\* Different calls out of n are at most n.
LEMMA CallsCounted ==
    ASSUME NEW S, NEW n \in Nat, \A f \in S : f.call \in 1 .. n,
           \A f, g \in S : f.call = g.call => f = g
    PROVE  IsFiniteSet(S) /\ Cardinality(S) <= n
  <1> DEFINE F == [f \in S |-> f.call]
  <1>1. F \in Injection(S, 1 .. n)
    BY DEF Injection, IsInjective
  <1>2. IsFiniteSet(1 .. n) /\ Cardinality(1 .. n) = n
    BY FS_Interval
  <1>3. IsFiniteSet(S) /\ Cardinality(S) <= Cardinality(1 .. n)
    BY <1>1, <1>2, FS_Injection
  <1> QED BY <1>2, <1>3

\* A set splits into what a condition holds of and the rest.
LEMMA SplitCounted ==
    ASSUME NEW A, NEW B, IsFiniteSet(A \cup B), A \cap B = {}
    PROVE  /\ Cardinality(A) \in Nat /\ Cardinality(B) \in Nat
           /\ Cardinality(A \cup B) = Cardinality(A) + Cardinality(B)
  <1>1. IsFiniteSet(A) /\ IsFiniteSet(B)
    BY FS_Subset
  <1>2. Cardinality(A) \in Nat /\ Cardinality(B) \in Nat
    BY <1>1, FS_CardinalityType
  <1>3. Cardinality(A \cup B) = Cardinality(A) + Cardinality(B) - Cardinality(A \cap B)
    BY <1>1, FS_Union
  <1>4. Cardinality(A \cap B) = 0
    BY FS_EmptySet
  <1> QED BY <1>1, <1>2, <1>3, <1>4

\* The calls of an iteration (A), all different and among n, are at most n, and
\* with those of others (B) at most n more.
LEMMA IterationCounted ==
    ASSUME NEW A, NEW B, IsFiniteSet(A \cup B), A \cap B = {}, NEW n \in Nat,
           \A f \in A : f.call \in 1 .. n,
           \A f, g \in A : f.call = g.call => f = g
    PROVE  /\ Cardinality(A) <= n
           /\ Cardinality(A \cup B) <= Cardinality(B) + n
           /\ Cardinality(A \cup B) \in Nat /\ Cardinality(B) \in Nat
  <1>1. Cardinality(A) <= n
    BY CallsCounted
  <1>2. /\ Cardinality(A) \in Nat /\ Cardinality(B) \in Nat
        /\ Cardinality(A \cup B) = Cardinality(A) + Cardinality(B)
    BY SplitCounted
  <1> QED BY <1>1, <1>2

\* A step that hands call i to a capability keeps the counts.
LEMMA RunCounted ==
    ASSUME TypeInv, GateInv, CountInv, NEW i \in inflight \cup queue, Underway,
           RunParallel \/ RunSequential,
           invoked' = invoked \cup {Invocation(i)}
    PROVE  CountInv'
  <1>0. /\ caps.max_actions_per_iteration \in Nat
        /\ caps.max_total_actions \in Nat /\ totalActions \in Nat
        /\ Len(resp.calls) \in Nat /\ DOMAIN resp.calls = 1 .. Len(resp.calls)
        /\ state \in States /\ state.iteration \in Nat
    <2>1. caps \in HarnessCaps
      BY HarnessAssumption DEF TypeInv, TypeOK
    <2>2. resp.calls \in Seq(Call)
      BY ResponseShape DEF TypeInv, TypeOK
    <2> QED BY <2>1, <2>2 DEF TypeInv, TypeOK, HarnessCaps, States
  <1>1. /\ UNCHANGED <<caps, resp, totalActions>> /\ state'.iteration = state.iteration
        /\ inflight' \subseteq inflight /\ queue' \subseteq queue
        /\ pc' \in {"tools", "aborted"}
    BY <1>0 DEF RunParallel, RunSequential, States
  <1>2. /\ Considered' = Considered
        /\ \A j : Invocation(j)' = Invocation(j)
        /\ Invocation(i).iteration = state.iteration /\ Invocation(i).call = i
    BY <1>1 DEF Considered, Invocation, Name
  <1>3. IsFiniteSet(invoked')
    BY FS_AddElement DEF CountInv
  <1>4. \A f \in Of(state.iteration)' : f.call \in Considered /\ f = Invocation(f.call)
    BY <1>1, <1>2 DEF Of, CountInv
  <1> DEFINE A == Of(state.iteration)'
             B == Earlier'
  <1>5. \A f \in A : /\ f.call \in 1 .. Len(resp.calls)
                     /\ f.call \in 1 .. caps.max_actions_per_iteration
    BY <1>0, <1>4 DEF Considered
  <1>6. \A f, g \in A : f.call = g.call => f = g
    <2> SUFFICES ASSUME NEW f \in A, NEW g \in A, f.call = g.call
                 PROVE  f = g
      OBVIOUS
    <2>1. f = Invocation(f.call) /\ g = Invocation(g.call)
      BY <1>4
    <2> QED BY <2>1
  <1>7. invoked' = A \cup B /\ A \cap B = {} /\ B = Earlier
    BY <1>1, <1>2 DEF Of, Earlier
  <1> HIDE DEF A, B
  <1>8. Cardinality(A) <= caps.max_actions_per_iteration
    BY <1>0, <1>3, <1>5, <1>6, <1>7, IterationCounted
  <1>9. /\ Cardinality(invoked') <= Cardinality(Earlier) + Len(resp.calls)
        /\ Cardinality(invoked') \in Nat /\ Cardinality(Earlier) \in Nat
    <2>1. IsFiniteSet(A \cup B)
      BY <1>3, <1>7
    <2>2. /\ Cardinality(A \cup B) <= Cardinality(B) + Len(resp.calls)
          /\ Cardinality(A \cup B) \in Nat /\ Cardinality(B) \in Nat
      BY <1>0, <1>5, <1>6, <1>7, <2>1, IterationCounted
    <2> QED BY <1>7, <2>2
  <1>10. /\ Cardinality(Earlier) + Len(resp.calls) <= totalActions
         /\ totalActions <= caps.max_total_actions
    BY DEF CountInv
  <1>11. \A t \in Nat : Cardinality(Of(t)') <= caps.max_actions_per_iteration
    <2> SUFFICES ASSUME NEW t \in Nat
                 PROVE  Cardinality(Of(t)') <= caps.max_actions_per_iteration
      OBVIOUS
    <2>1. CASE t = state.iteration
      BY <1>1, <1>8, <2>1 DEF A, Of
    <2>2. CASE t # state.iteration
      <3>1. Of(t)' = Of(t)
        BY <1>2, <2>2 DEF Of
      <3> QED BY <3>1 DEF CountInv
    <2> QED BY <2>1, <2>2
  <1>12. Cardinality(invoked') <= caps.max_total_actions
    BY <1>0, <1>9, <1>10
  <1> QED
    BY <1>1, <1>2, <1>3, <1>4, <1>7, <1>10, <1>11, <1>12 DEF CountInv, B

LEMMA NextCount ==
    TypeInv /\ GateInv /\ AnswersInv /\ BudgetInv /\ CountInv /\ [Next]_vars
        => CountInv'
  <1> SUFFICES ASSUME TypeInv, GateInv, AnswersInv, BudgetInv, CountInv, [Next]_vars
               PROVE  CountInv'
    OBVIOUS
  <1>0. /\ state \in States /\ state.iteration \in Nat /\ next \in Nat
        /\ totalActions \in Nat /\ Cardinality(invoked) \in Nat
        /\ \A e \in invoked : e.iteration \in Nat
    BY FS_CardinalityType DEF TypeInv, TypeOK, States, CountInv, Invoked
  <1>1. CASE BeginIteration
    <2>1. /\ pc = "top" /\ inflight' = {} /\ queue' = {} /\ state'.iteration = next
          /\ UNCHANGED <<caps, totalActions, invoked>>
      BY <1>0, <1>1 DEF BeginIteration, States, turnVars, TypeInv, Idle
    <2>2. pc' = "model" \/ (pc' = "save" /\ state'.outcome # "iterate")
      BY <1>0, <1>1 DEF BeginIteration, States
    <2>3. Of(state.iteration)' = {} /\ \A t : Of(t)' = {f \in invoked : f.iteration = t}
      BY <1>0, <2>1 DEF Of, GateInv
    <2> QED BY <2>1, <2>2, <2>3 DEF CountInv, Underway, Iterating, Sites, Of
  <1>2. CASE FallThrough \/ ModelCallFails \/ ModelCallLate \/ Escalate
    <2>1. /\ pc \in {"top", "model", "decide"} /\ pc' = "save"
          /\ state'.iteration = state.iteration
          /\ UNCHANGED <<caps, totalActions, invoked, turnVars>>
      BY <1>0, <1>2 DEF FallThrough, ModelCallFails, ModelCallLate, Escalate,
         Terminate, States, worldVars
    <2>2. state'.outcome # "iterate" /\ inflight' = {}
      BY <1>2, <2>1, StopsTheTurn DEF turnVars, TypeInv, Idle
    <2>3. /\ Considered' = Considered /\ \A j : Invocation(j)' = Invocation(j)
          /\ \A t : Of(t)' = Of(t)
      BY <2>1 DEF Considered, Invocation, Name, Of, turnVars
    <2> QED BY <2>1, <2>2, <2>3 DEF CountInv, Underway, Iterating, Sites, Of, turnVars
  <1>3. CASE ModelReplies
    <2>1. PICK r \in Response, p \in Price : ReplyOf(r, p)
      BY <1>3, ModelRepliesWith
    <2>2. /\ pc = "model" /\ inflight' = {} /\ queue' = {}
          /\ UNCHANGED <<caps, invoked>>
      BY <1>3 DEF ModelReplies, TypeInv, Idle
    <2>3. /\ resp' = r /\ state'.iteration = state.iteration
          /\ \/ pc' = "save" /\ state'.outcome # "iterate"
             \/ /\ pc' = "gate" /\ totalActions' = totalActions + Len(r.calls)
                /\ totalActions' <= caps.max_total_actions
      BY <1>0, <2>1 DEF ReplyOf, States
    <2>4. Of(state.iteration)' = {} /\ Earlier' = invoked /\ \A t : Of(t)' = Of(t)
      BY <1>0, <2>2, <2>3 DEF Of, Earlier, GateInv
    <2>5. Len(r.calls) \in Nat
      <3>1. r.calls \in Seq(Call)
        BY ResponseShape
      <3> QED BY <3>1
    <2>6. Cardinality(Earlier') <= totalActions
      BY <2>2, <2>4 DEF CountInv
    <2>7. Underway' => /\ Cardinality(Earlier') + Len(resp'.calls) <= totalActions'
                       /\ totalActions' <= caps'.max_total_actions
      <3>1. Underway' => pc' = "gate"
        BY <2>2, <2>3 DEF Underway, Iterating, Sites
      <3> QED BY <1>0, <2>2, <2>3, <2>4, <2>5, <2>6, <3>1
    <2> QED BY <2>2, <2>3, <2>4, <2>7 DEF CountInv
  <1>4. CASE RunParallel
    <2>1. PICK i \in inflight : invoked' = invoked \cup {Invocation(i)}
      BY <1>4 DEF RunParallel
    <2> QED BY <1>4, <2>1, RunCounted DEF Underway
  <1>5. CASE RunSequential
    <2>1. PICK i \in queue : invoked' = invoked \cup {Invocation(i)}
      BY <1>5 DEF RunSequential
    <2>2. Underway
      BY <1>5 DEF RunSequential, Underway, Sites
    <2> QED BY <1>5, <2>1, <2>2, RunCounted
  <1>6. CASE Save
    <2>1. /\ pc = "save" /\ UNCHANGED <<caps, state, totalActions, turnVars, invoked>>
          /\ IF state.outcome = "iterate" THEN pc' = "top" ELSE pc' = "done"
      BY <1>6 DEF Save, worldVars
    <2>2. /\ Considered' = Considered /\ \A j : Invocation(j)' = Invocation(j)
          /\ \A t : Of(t)' = Of(t) /\ Of(state.iteration)' = Of(state.iteration)
          /\ inflight' = {}
      BY <2>1 DEF Considered, Invocation, Name, Of, turnVars, TypeInv, Idle
    <2>3. ~Underway'
      BY <2>1, <2>2 DEF Underway, Iterating, Sites
    <2>4. state.outcome = "iterate" => Cardinality(invoked) <= totalActions
      <3> DEFINE A == Of(state.iteration)
      <3> SUFFICES ASSUME state.outcome = "iterate"
                   PROVE  Cardinality(invoked) <= totalActions
        OBVIOUS
      <3>1. Len(resp.calls) \in Nat /\ DOMAIN resp.calls = 1 .. Len(resp.calls)
        <4>1. resp.calls \in Seq(Call)
          BY ResponseShape DEF TypeInv, TypeOK
        <4> QED BY <4>1
      <3>2. \A f \in A : f.call \in 1 .. Len(resp.calls) /\ f = Invocation(f.call)
        BY <3>1 DEF CountInv, Considered
      <3>3. \A f, g \in A : f.call = g.call => f = g
        <4> SUFFICES ASSUME NEW f \in A, NEW g \in A, f.call = g.call
                     PROVE  f = g
          OBVIOUS
        <4>1. f = Invocation(f.call) /\ g = Invocation(g.call)
          BY <3>2
        <4> QED BY <4>1
      <3>4. invoked = A \cup Earlier /\ A \cap Earlier = {}
        BY DEF Of, Earlier
      <3> HIDE DEF A
      <3>5. IsFiniteSet(A \cup Earlier)
        BY <3>4 DEF CountInv
      <3>6. /\ Cardinality(A \cup Earlier) <= Cardinality(Earlier) + Len(resp.calls)
            /\ Cardinality(A \cup Earlier) \in Nat /\ Cardinality(Earlier) \in Nat
        BY <3>1, <3>2, <3>3, <3>4, <3>5, IterationCounted
      <3>7. Cardinality(Earlier) + Len(resp.calls) <= totalActions
        BY <2>1 DEF CountInv, Underway, Iterating
      <3> QED BY <1>0, <3>1, <3>4, <3>6, <3>7
    <2> QED BY <2>1, <2>2, <2>3, <2>4 DEF CountInv, turnVars
  <1>7. CASE RememberAndStartTools
    <2>1. /\ pc = "remember" /\ pc' \in Sites
          /\ UNCHANGED <<caps, state, resp, totalActions, invoked>>
          /\ \/ UNCHANGED <<inflight, queue>>
             \/ /\ ~forced
                /\ inflight' \subseteq cleared /\ queue' \subseteq cleared
      BY <1>7 DEF RememberAndStartTools, Sites
    <2>2. ~forced => cleared \subseteq Considered
      BY <2>1 DEF AnswersInv
    <2>3. /\ Considered' = Considered /\ \A j : Invocation(j)' = Invocation(j)
          /\ \A t : Of(t)' = Of(t) /\ Of(state.iteration)' = Of(state.iteration)
          /\ Earlier' = Earlier
      BY <2>1 DEF Considered, Invocation, Name, Of, Earlier
    <2>4. Underway /\ pc' \notin {"top", "model"}
      BY <2>1 DEF Underway, Sites
    <2> QED BY <2>1, <2>2, <2>3, <2>4 DEF CountInv
  <1>8. CASE \/ GateExplicit \/ GateCalls \/ VerifyMemory \/ StartSequential
             \/ ToolsDone \/ Swarm \/ Critic \/ Decide \/ Raise \/ RaiseInTool \/ Crash
             \/ UNCHANGED vars
    <2>1. UNCHANGED <<caps, totalActions, resp>>
      BY <1>8 DEF GateExplicit, GateCalls, Gated, VerifyMemory, StartSequential,
         ToolsDone, Swarm, Critic, Decide, Raise, RaiseInTool, Crash, vars, turnVars
    <2>2. inflight' \subseteq inflight /\ queue' \subseteq queue
      BY <1>8 DEF GateExplicit, GateCalls, Gated, VerifyMemory, StartSequential,
         ToolsDone, Swarm, Critic, Decide, Raise, RaiseInTool, Crash, vars, turnVars
    <2>3. invoked' = invoked
      BY <1>8, InvokedBy DEF GateExplicit, GateCalls, Gated, VerifyMemory,
         StartSequential, ToolsDone, Swarm, Critic, Decide, Raise, RaiseInTool, Crash,
         vars, worldVars
    <2>4. state'.iteration = state.iteration
      <3>1. ~BeginIteration \/ UNCHANGED vars
        BY <1>8 DEF BeginIteration, GateExplicit, GateCalls, Gated, VerifyMemory,
           StartSequential, ToolsDone, Swarm, Critic, Decide, Raise, RaiseInTool, Crash
      <3> QED BY <3>1, FieldsKept DEF vars
    <2>5. pc' \in {"top", "model"} => pc' = pc
      BY <1>8 DEF GateExplicit, GateCalls, Gated, VerifyMemory, StartSequential,
         ToolsDone, Swarm, Critic, Decide, Raise, RaiseInTool, Crash, vars
    <2>6. Underway' => Underway
      <3>1. \/ pc \in {"gate"} \cup Sites
            \/ pc' \in {"aborted", "crashed"} \/ UNCHANGED <<pc, state>>
        BY <1>8 DEF GateExplicit, GateCalls, Gated, VerifyMemory, StartSequential,
           ToolsDone, Swarm, Critic, Decide, Raise, RaiseInTool, Crash, vars, Sites
      <3> QED BY <2>2, <3>1 DEF Underway, Iterating, Sites
    <2>7. /\ Considered' = Considered /\ \A j : Invocation(j)' = Invocation(j)
          /\ \A t : Of(t)' = Of(t) /\ Of(state.iteration)' = Of(state.iteration)
          /\ Earlier' = Earlier
      BY <2>1, <2>3, <2>4 DEF Considered, Invocation, Name, Of, Earlier
    <2> QED BY <2>1, <2>2, <2>3, <2>5, <2>6, <2>7 DEF CountInv
  <1> QED
    BY <1>1, <1>2, <1>3, <1>4, <1>5, <1>6, <1>7, <1>8 DEF Next, Step

\* Whatever the model answers and wherever a turn stops, its calls are within
\* both action caps, and the loop goes back to the model only below the cost cap
\* (loop.py:172-176, 306-322, output.decide).
THEOREM LimitsKept == Spec => []WithinLimits
  <1> DEFINE I == TypeInv /\ GateInv /\ AnswersInv /\ BudgetInv /\ CountInv
  <1>1. Init => I
    <2> SUFFICES ASSUME Init PROVE I
      OBVIOUS
    <2>1. TypeInv /\ GateInv
      BY InitTyped, InitGate
    <2>2. AnswersInv
      BY DEF Init, AnswersInv, Iterating, NewState
    <2>3. caps \in HarnessCaps
      BY HarnessAssumption DEF Init
    <2>4. BudgetInv
      BY <2>3 DEF Init, BudgetInv, Iterating, NewState, Sites, HarnessCaps
    <2>5. IsFiniteSet(invoked) /\ Cardinality(invoked) = 0 /\ invoked = {}
      BY FS_EmptySet DEF Init
    <2>6. \A t : Of(t) = invoked
      BY <2>5 DEF Of
    <2>7. CountInv
      BY <2>3, <2>5, <2>6 DEF Init, CountInv, Underway, Iterating, Sites, HarnessCaps
    <2> QED BY <2>1, <2>2, <2>4, <2>7
  <1>2. I /\ [Next]_vars => I'
    BY NextTyped, NextGate, NextAnswers, NextBudget, NextCount
  <1>3. I => WithinLimits
    <2> SUFFICES ASSUME I PROVE WithinLimits
      OBVIOUS
    <2>1. \A e \in invoked : Cardinality({f \in invoked : f.iteration = e.iteration})
                               <= caps.max_actions_per_iteration
      BY DEF CountInv, Of, TypeInv, TypeOK, Invoked
    <2>2. ActionsCapped
      BY <2>1 DEF ActionsCapped, CountInv
    <2> QED BY <2>2 DEF BudgetInv, BudgetBeforeCall, WithinLimits
  <1> QED BY <1>1, <1>2, <1>3, PTL DEF Spec

-----------------------------------------------------------------------------

\* What TLC checks of a turn on the small instance holds of every turn: types,
\* and the gate before every capability (permission.gate, loop.py:358-369).
THEOREM TurnInvariant == Spec => []TurnInv
  BY TypeCorrect, GateRespected, PTL DEF TurnInv

-----------------------------------------------------------------------------
(* The web chats: the invariant                                              *)

ChatRequest == [op : {"chat"}, tab : Tab \cup {None}, no : 1 .. sent, kind : Kind,
                from : {Owner} \cup 1 .. minted, stage : {"sent", "ok", "error"}]
StatusRequest == [op : {"status"}, tab : Tab, who : 0 .. minted, stage : {"sent"}]
TurnTaken == [no : 1 .. sent, kind : Kind, from : {Owner} \cup 1 .. minted]
Shownable == [no : 1 .. sent, role : {"customer", "agent"}]
TabState == [phase : {"closed", "opening", "open"}, now : Entries,
             waiting : BOOLEAN, badge : [who : Nat, known : BOOLEAN]]

\* Every variable has its type, exactly.
PagesTyped ==
    /\ tab \in [Tab -> TabState] /\ storage \in [Kind -> Entries]
    /\ \A p \in Tab : tab[p].phase = "open" => tab[p].now.who # Nobody
ChatTyped ==
    /\ PagesTyped
    /\ kind \in [Tab -> Kind] /\ minted \in Nat /\ sent \in Nat
    /\ requests \subseteq ChatRequest \cup StatusRequest
    /\ turns \in Seq(TurnTaken) /\ optedIn \subseteq Known
    /\ open \in BOOLEAN /\ disturbed \in BOOLEAN /\ eventsLeft \in 0 .. MaxEvents

\* A message and, below it, its answer.
Exchanged(shown, n) ==
    \E i, j \in DOMAIN shown : /\ i < j /\ shown[i] = Message(n, "customer")
                               /\ shown[j] = Message(n, "agent")

\* What a page of a kind shows or finds stored: the exchanges are turns, in
\* their order, and on the public page the customer's own.
EntryOK(k, e) ==
    /\ e.who = Nobody => e.shown = <<>>
    /\ k = "public" => e.as = "customer"
    /\ \A n : Exchanged(e.shown, n) => \E t \in DOMAIN turns : turns[t].no = n
    /\ \A t, u \in DOMAIN turns :
         /\ Exchanged(e.shown, turns[t].no) /\ Exchanged(e.shown, turns[u].no)
         /\ turns[t].no < turns[u].no
         => t < u
    /\ k = "public" => \A t \in DOMAIN turns :
         Exchanged(e.shown, turns[t].no) => turns[t].from = e.who
EntriesInv == /\ \A p \in Tab : EntryOK(kind[p], tab[p].now)
              /\ \A k \in Kind : EntryOK(k, storage[k])

\* A message is one request and one turn.
Chats == {r \in requests : r.op = "chat"}
ChatOK(r) ==
    /\ r.stage = "sent" => \A t \in DOMAIN turns : turns[t].no # r.no
    /\ r.stage = "ok" => \E t \in DOMAIN turns : turns[t].no = r.no
    /\ \A t \in DOMAIN turns : turns[t].no = r.no => turns[t].from = r.from
TurnsInv ==
    /\ \A t, u \in DOMAIN turns : turns[t].no = turns[u].no => t = u
    /\ \A r, q \in Chats : r.no = q.no => r = q
    /\ \A r \in Chats : ChatOK(r)

\* A page waits for one answer, to the last message it shows.
AwaitedOK(r, p) ==
    /\ tab[p].phase = "open" /\ tab[p].waiting
    /\ \A i \in DOMAIN Shown(p) :
         /\ Shown(p)[i].no <= r.no
         /\ Shown(p)[i].no = r.no => Shown(p)[i].role = "customer"
         /\ Shown(p)[i].no = r.no /\ kind[p] = "public" => r.from = tab[p].now.who
    /\ \A t, u \in DOMAIN turns :
         turns[u].no = r.no /\ Exchanged(Shown(p), turns[t].no) => t < u
AwaitedInv ==
    \A p \in Tab : /\ \A r \in Chats : r.tab = p => AwaitedOK(r, p)
                   /\ \A r, q \in Chats : r.tab = p /\ q.tab = p => r = q

\* A status is asked for the customer that the page speaks as.
StatusInv ==
    \A r \in requests : r.op = "status" =>
        /\ tab[r.tab].phase = "open" /\ kind[r.tab] = "public"
        /\ r.who = tab[r.tab].now.who

\* Unless something was disturbed, one page at a time is opening.
OpeningInv ==
    ~disturbed => \A p, q \in Tab : /\ tab[p].phase = "opening"
                                    /\ tab[q].phase = "opening" /\ kind[p] = kind[q]
                                    => p = q

ChatInv == /\ ChatTyped /\ EntriesInv /\ TurnsInv /\ AwaitedInv /\ StatusInv
           /\ OpeningInv /\ OneConversation

-----------------------------------------------------------------------------
(* What is shown                                                             *)

LEMMA ShownAppend ==
  ASSUME NEW S, NEW s \in Seq(S), NEW m \in S
  PROVE  /\ Append(s, m) \in Seq(S) /\ Len(s) \in Nat
         /\ DOMAIN s = 1 .. Len(s) /\ DOMAIN Append(s, m) = 1 .. Len(s) + 1
         /\ \A i \in 1 .. Len(s) : Append(s, m)[i] = s[i]
         /\ Append(s, m)[Len(s) + 1] = m
  OBVIOUS

LEMMA ShownMessage ==
  ASSUME NEW s \in Seq(Shownable), NEW n, Exchanged(s, n)
  PROVE  n \in 1 .. sent /\ \E i \in DOMAIN s : s[i].no = n /\ s[i].role = "customer"
<1>1. PICK i \in DOMAIN s : s[i] = Message(n, "customer")
  BY DEF Exchanged
<1>2. s[i] \in Shownable
  BY <1>1
<1> QED
  BY <1>1, <1>2 DEF Shownable, Message

LEMMA NothingExchanged == \A n : ~Exchanged(<<>>, n)
  BY DEF Exchanged

LEMMA CustomerAppended ==
  ASSUME NEW S, NEW s \in Seq(S), NEW n, Message(n, "customer") \in S,
         NEW m, Exchanged(Append(s, Message(n, "customer")), m)
  PROVE  Exchanged(s, m)
<1> DEFINE t == Append(s, Message(n, "customer"))
<1>1. PICK i, j \in DOMAIN t : /\ i < j /\ t[i] = Message(m, "customer")
                               /\ t[j] = Message(m, "agent")
  BY DEF Exchanged
<1>2. Message(m, "agent") # Message(n, "customer")
  BY DEF Message
<1>3. j # Len(s) + 1
  BY <1>1, <1>2, ShownAppend
<1>4. i \in DOMAIN s /\ j \in DOMAIN s /\ t[i] = s[i] /\ t[j] = s[j]
  BY <1>1, <1>3, ShownAppend
<1> QED
  BY <1>1, <1>4 DEF Exchanged

LEMMA AgentAppended ==
  ASSUME NEW S, NEW s \in Seq(S), NEW n, Message(n, "agent") \in S,
         NEW m, Exchanged(Append(s, Message(n, "agent")), m)
  PROVE  \/ Exchanged(s, m)
         \/ m = n /\ \E i \in DOMAIN s : s[i] = Message(n, "customer")
<1> DEFINE t == Append(s, Message(n, "agent"))
<1>1. PICK i, j \in DOMAIN t : /\ i < j /\ t[i] = Message(m, "customer")
                               /\ t[j] = Message(m, "agent")
  BY DEF Exchanged
<1>2. i \in DOMAIN s /\ t[i] = s[i]
  BY <1>1, ShownAppend
<1>3. CASE j = Len(s) + 1
  <2>1. t[j] = Message(n, "agent")
    BY <1>3, ShownAppend
  <2>2. m = n
    BY <1>1, <2>1 DEF Message
  <2> QED
    BY <1>1, <1>2, <2>2
<1>4. CASE j # Len(s) + 1
  <2>1. j \in DOMAIN s /\ t[j] = s[j]
    BY <1>1, <1>4, ShownAppend
  <2> QED
    BY <1>1, <1>2, <2>1 DEF Exchanged
<1> QED
  BY <1>3, <1>4

-----------------------------------------------------------------------------
(* What the steps write                                                      *)

\* A page's new state, and the entry that its effect writes.
Becomes(p, phase, entry, waiting, badge) ==
    tab' = [tab EXCEPT ![p] = [phase |-> phase, now |-> entry, waiting |-> waiting,
                               badge |-> badge]]
Writes(p, entry) == storage' = [storage EXCEPT ![kind[p]] = entry]
Entry(who, shown, as) == [who |-> who, shown |-> shown, as |-> as]

LEMMA RecordOf ==
  ASSUME NEW a, NEW b, NEW c, NEW d,
         NEW v \in [phase : {a}, now : {b}, waiting : {c}, badge : {d}]
  PROVE  v = [phase |-> a, now |-> b, waiting |-> c, badge |-> d]
  OBVIOUS

LEMMA EntryOf ==
  ASSUME NEW a, NEW b, NEW c, NEW v \in [who : {a}, shown : {b}, as : {c}]
  PROVE  v = Entry(a, b, c)
  BY DEF Entry

LEMMA EntryFields ==
  ASSUME NEW e \in Entries
  PROVE  /\ e = Entry(e.who, e.shown, e.as)
         /\ e.who \in 0 .. minted /\ e.as \in {"customer", "owner", "veda"}
         /\ e.shown \in Seq(Shownable)
  BY DEF Entries, Entry, Shownable

LEMMA TabFields ==
  ASSUME ChatTyped, NEW p \in Tab
  PROVE  /\ tab[p] \in TabState
         /\ tab[p].phase \in {"closed", "opening", "open"} /\ tab[p].now \in Entries
         /\ tab[p].waiting \in BOOLEAN /\ tab[p].badge \in [who : Nat, known : BOOLEAN]
         /\ kind[p] \in Kind /\ storage[kind[p]] \in Entries
         /\ kind[p] = "public" \/ kind[p] = "test"
<1>1. tab[p] \in TabState /\ kind[p] \in Kind
  BY DEF ChatTyped, PagesTyped
<1>2. storage[kind[p]] \in Entries
  BY <1>1 DEF ChatTyped, PagesTyped
<1> QED
  BY <1>1, <1>2 DEF TabState, Kind

LEMMA MountWrites ==
  ASSUME ChatTyped, NEW p \in Tab, Mount(p)
  PROVE  /\ Becomes(p, "opening", storage[kind[p]], FALSE, NoBadge)
         /\ Writes(p, BlankEntry) /\ tab[p].phase = "closed"
<1> PICK e : e = storage[kind[p]]
  OBVIOUS
<1>1. [Closed EXCEPT !.phase = "opening", !.now = e]
        \in [phase : {"opening"}, now : {e}, waiting : {FALSE}, badge : {NoBadge}]
  BY DEF Closed
<1>2. [Closed EXCEPT !.phase = "opening", !.now = e]
        = [phase |-> "opening", now |-> e, waiting |-> FALSE, badge |-> NoBadge]
  BY <1>1, RecordOf
<1> QED
  BY <1>2 DEF Mount, Becomes, Writes

LEMMA RenderWrites ==
  ASSUME ChatTyped, NEW p \in Tab, Render(p)
  PROVE  LET e == Loaded(tab[p].now)
         IN  /\ Becomes(p, "open", e, tab[p].waiting, tab[p].badge)
             /\ Writes(p, e) /\ tab[p].phase = "opening"
             /\ e = Entry(IF tab[p].now.who = Nobody THEN minted + 1 ELSE tab[p].now.who,
                          tab[p].now.shown, tab[p].now.as)
             /\ minted' = IF tab[p].now.who = Nobody THEN minted + 1 ELSE minted
<1> PICK e : e = Loaded(tab[p].now)
  OBVIOUS
<1> PICK f : f = tab[p].now
  OBVIOUS
<1> PICK t : t = tab[p]
  OBVIOUS
<1>1. f \in Entries /\ f = Entry(f.who, f.shown, f.as) /\ f.who \in 0 .. minted
  BY TabFields, EntryFields
<1>2. e = Entry(IF f.who = Nobody THEN minted + 1 ELSE f.who, f.shown, f.as)
  <2>1. [f EXCEPT !.who = minted + 1]
          \in [who : {minted + 1}, shown : {f.shown}, as : {f.as}]
    BY <1>1 DEF Entries
  <2>2. [f EXCEPT !.who = minted + 1] = Entry(minted + 1, f.shown, f.as)
    BY <2>1, EntryOf
  <2> QED
    BY <1>1, <2>2 DEF Loaded
<1>3. tab' = [tab EXCEPT ![p] = [t EXCEPT !.phase = "open", !.now = e]]
  BY DEF Render, ChatTyped, PagesTyped
<1>4. [t EXCEPT !.phase = "open", !.now = e]
        \in [phase : {"open"}, now : {e}, waiting : {t.waiting}, badge : {t.badge}]
  BY TabFields DEF TabState
<1>5. [t EXCEPT !.phase = "open", !.now = e]
        = [phase |-> "open", now |-> e, waiting |-> t.waiting, badge |-> t.badge]
  BY <1>4, RecordOf
<1>6. e.who = IF f.who = Nobody THEN minted + 1 ELSE f.who
  BY <1>2 DEF Entry
<1>7. minted' = IF f.who = Nobody THEN minted + 1 ELSE minted
  BY <1>1, <1>6 DEF Render, ChatTyped, PagesTyped
<1> QED
  BY <1>2, <1>3, <1>5, <1>7 DEF Render, Becomes, Writes

LEMMA CloseWrites ==
  ASSUME NEW p \in Tab, Close(p)
  PROVE  Becomes(p, "closed", BlankEntry, FALSE, NoBadge) /\ storage' = storage
  BY DEF Close, Becomes, Closed

\* A page that shows something else, waiting or not, and stays where it is.
LEMMA ShowsWrites ==
  ASSUME ChatTyped, NEW p \in Tab, NEW e,
         tab' = [tab EXCEPT ![p].now = e],
         storage' = [storage EXCEPT ![kind[p]] = e]
  PROVE  Becomes(p, tab[p].phase, e, tab[p].waiting, tab[p].badge) /\ Writes(p, e)
<1> PICK t : t = tab[p]
  OBVIOUS
<1>1. tab' = [tab EXCEPT ![p] = [t EXCEPT !.now = e]]
  BY DEF ChatTyped, PagesTyped
<1>2. [t EXCEPT !.now = e]
        \in [phase : {t.phase}, now : {e}, waiting : {t.waiting}, badge : {t.badge}]
  BY TabFields DEF TabState
<1>3. [t EXCEPT !.now = e]
        = [phase |-> t.phase, now |-> e, waiting |-> t.waiting, badge |-> t.badge]
  BY <1>2, RecordOf
<1> QED
  BY <1>1, <1>3 DEF Becomes, Writes
LEMMA TurnsWrites ==
  ASSUME ChatTyped, NEW p \in Tab, NEW e, NEW w,
         tab' = [tab EXCEPT ![p].now = e, ![p].waiting = w],
         storage' = [storage EXCEPT ![kind[p]] = e]
  PROVE  Becomes(p, tab[p].phase, e, w, tab[p].badge) /\ Writes(p, e)
<1> PICK t : t = tab[p]
  OBVIOUS
<1>1. tab' = [tab EXCEPT ![p] = [t EXCEPT !.now = e, !.waiting = w]]
  BY DEF ChatTyped, PagesTyped
<1>2. [t EXCEPT !.now = e, !.waiting = w]
        \in [phase : {t.phase}, now : {e}, waiting : {w}, badge : {t.badge}]
  BY TabFields DEF TabState
<1>3. [t EXCEPT !.now = e, !.waiting = w]
        = [phase |-> t.phase, now |-> e, waiting |-> w, badge |-> t.badge]
  BY <1>2, RecordOf
<1> QED
  BY <1>1, <1>3 DEF Becomes, Writes

\* Entries with a field changed.
LEMMA EntryExcept ==
  ASSUME NEW e \in Entries, NEW x
  PROVE  /\ [e EXCEPT !.who = x] = Entry(x, e.shown, e.as)
         /\ [e EXCEPT !.as = x] = Entry(e.who, e.shown, x)
         /\ [e EXCEPT !.shown = x] = Entry(e.who, x, e.as)
<1>1. [e EXCEPT !.who = x] \in [who : {x}, shown : {e.shown}, as : {e.as}]
  BY DEF Entries
<1>2. [e EXCEPT !.as = x] \in [who : {e.who}, shown : {e.shown}, as : {x}]
  BY DEF Entries
<1>3. [e EXCEPT !.shown = x] \in [who : {e.who}, shown : {x}, as : {e.as}]
  BY DEF Entries
<1> QED
  BY <1>1, <1>2, <1>3, EntryOf

LEMMA TypedWrites ==
  ASSUME ChatTyped, NEW p \in Tab, Typed(p)
  PROVE  LET e == Entry(tab[p].now.who,
                        Append(tab[p].now.shown, Message(sent + 1, "customer")),
                        tab[p].now.as)
         IN  /\ Becomes(p, "open", e, TRUE, tab[p].badge) /\ Writes(p, e)
             /\ tab[p].phase = "open"
<1> PICK f : f = tab[p].now
  OBVIOUS
<1> PICK e : e = Entry(f.who, Append(f.shown, Message(sent + 1, "customer")), f.as)
  OBVIOUS
<1>1. [f EXCEPT !.shown = Append(f.shown, Message(sent + 1, "customer"))] = e
  BY TabFields, EntryExcept
<1>2. /\ tab' = [tab EXCEPT ![p].now = e, ![p].waiting = TRUE]
      /\ storage' = [storage EXCEPT ![kind[p]] = e] /\ tab[p].phase = "open"
  BY <1>1 DEF Typed
<1> QED
  BY <1>2, TurnsWrites

LEMMA ResetWrites ==
  ASSUME ChatTyped, NEW p \in Tab, Reset(p)
  PROVE  LET e == Entry(minted + 1, <<>>, tab[p].now.as)
         IN  /\ Becomes(p, tab[p].phase, e, tab[p].waiting, tab[p].badge)
             /\ Writes(p, e)
<1> PICK f \in Entries : f = tab[p].now
  BY TabFields
<1>1. [f EXCEPT !.who = minted + 1, !.shown = <<>>] = Entry(minted + 1, <<>>, f.as)
  <2>1. [f EXCEPT !.who = minted + 1, !.shown = <<>>]
          \in [who : {minted + 1}, shown : {<<>>}, as : {f.as}]
    BY DEF Entries
  <2> QED
    BY <2>1, EntryOf
<1> QED
  BY <1>1, ShowsWrites DEF Reset, Shows

LEMMA TalkWrites ==
  ASSUME ChatTyped, NEW p \in Tab, Talk(p)
  PROVE  \E as \in {"customer", "owner", "veda"} :
           LET e == Entry(tab[p].now.who, tab[p].now.shown, as)
           IN  /\ Becomes(p, tab[p].phase, e, tab[p].waiting, tab[p].badge)
               /\ Writes(p, e)
<1>1. PICK as \in {"customer", "owner", "veda"} : Shows(p, [tab[p].now EXCEPT !.as = as])
  BY DEF Talk
<1> PICK f \in Entries : f = tab[p].now
  BY TabFields
<1>2. [f EXCEPT !.as = as] = Entry(f.who, f.shown, as)
  BY EntryExcept
<1> QED
  BY <1>1, <1>2, ShowsWrites DEF Shows

LEMMA EditPhoneWrites ==
  ASSUME ChatTyped, NEW p \in Tab, EditPhone(p)
  PROVE  \E who \in 1 .. minted :
           LET e == Entry(who, tab[p].now.shown, tab[p].now.as)
           IN  /\ Becomes(p, tab[p].phase, e, tab[p].waiting, tab[p].badge)
               /\ Writes(p, e)
<1>1. PICK who \in 1 .. minted : Shows(p, [tab[p].now EXCEPT !.who = who])
  BY DEF EditPhone
<1>2. [tab[p].now EXCEPT !.who = who] = Entry(who, tab[p].now.shown, tab[p].now.as)
  BY TabFields, EntryExcept
<1> QED
  BY <1>1, <1>2, ShowsWrites DEF Shows

LEMMA FailedWrites ==
  ASSUME ChatTyped, NEW r, r.tab \in Tab, Failed(r)
  PROVE  Becomes(r.tab, tab[r.tab].phase, tab[r.tab].now, FALSE, tab[r.tab].badge)
<1> PICK p \in Tab : p = r.tab
  OBVIOUS
<1> PICK t : t = tab[p]
  OBVIOUS
<1>1. tab' = [tab EXCEPT ![p] = [t EXCEPT !.waiting = FALSE]]
  BY DEF Failed, ChatTyped, PagesTyped
<1>2. [t EXCEPT !.waiting = FALSE]
        \in [phase : {t.phase}, now : {t.now}, waiting : {FALSE}, badge : {t.badge}]
  BY TabFields DEF TabState
<1>3. [t EXCEPT !.waiting = FALSE]
        = [phase |-> t.phase, now |-> t.now, waiting |-> FALSE, badge |-> t.badge]
  BY <1>2, RecordOf
<1> QED
  BY <1>1, <1>3 DEF Becomes

LEMMA RepliedWrites ==
  ASSUME ChatTyped, NEW r, r.tab \in Tab, Replied(r)
  PROVE  LET p == r.tab
             e == Entry(tab[p].now.who, Append(tab[p].now.shown, Message(r.no, "agent")),
                        tab[p].now.as)
         IN  Becomes(p, tab[p].phase, e, FALSE, tab[p].badge) /\ Writes(p, e)
<1> PICK p \in Tab : p = r.tab
  OBVIOUS
<1> PICK f : f = tab[p].now
  OBVIOUS
<1> PICK e : e = Entry(f.who, Append(f.shown, Message(r.no, "agent")), f.as)
  OBVIOUS
<1>1. [f EXCEPT !.shown = Append(f.shown, Message(r.no, "agent"))] = e
  BY TabFields, EntryExcept
<1>2. /\ tab' = [tab EXCEPT ![p].now = e, ![p].waiting = FALSE]
      /\ storage' = [storage EXCEPT ![kind[p]] = e]
  BY <1>1 DEF Replied
<1> QED
  BY <1>2, TurnsWrites

LEMMA ToldWrites ==
  ASSUME ChatTyped, NEW r, r.tab \in Tab, Told(r)
  PROVE  Becomes(r.tab, tab[r.tab].phase, tab[r.tab].now, tab[r.tab].waiting,
                 [who |-> r.who, known |-> r.who \in optedIn])
<1> PICK p \in Tab : p = r.tab
  OBVIOUS
<1> PICK b : b = [who |-> r.who, known |-> r.who \in optedIn]
  OBVIOUS
<1> PICK t : t = tab[p]
  OBVIOUS
<1>1. tab' = [tab EXCEPT ![p] = [t EXCEPT !.badge = b]]
  BY DEF Told, ChatTyped, PagesTyped
<1>2. [t EXCEPT !.badge = b]
        \in [phase : {t.phase}, now : {t.now}, waiting : {t.waiting}, badge : {b}]
  BY TabFields DEF TabState
<1>3. [t EXCEPT !.badge = b]
        = [phase |-> t.phase, now |-> t.now, waiting |-> t.waiting, badge |-> b]
  BY <1>2, RecordOf
<1> QED
  BY <1>1, <1>3 DEF Becomes

\* What a page's new state is.
LEMMA Became ==
  ASSUME ChatTyped, NEW p \in Tab, NEW phase, NEW e, NEW w, NEW b,
         Becomes(p, phase, e, w, b)
  PROVE  /\ tab'[p].phase = phase /\ tab'[p].now = e /\ tab'[p].waiting = w
         /\ tab'[p].badge = b
         /\ \A q \in Tab \ {p} : tab'[q] = tab[q]
  BY DEF Becomes, ChatTyped, PagesTyped

-----------------------------------------------------------------------------
(* What the steps leave: counters grow, and turns are added at the end.      *)

Grown == /\ kind' = kind /\ minted' \in Nat /\ minted <= minted'
         /\ sent' \in Nat /\ sent <= sent'
         /\ turns' = turns \/ \E r \in requests : Take(r)

LEMMA GrownNext == ASSUME ChatTyped, [ChatNext]_chatVars PROVE Grown
<1> USE DEF ChatTyped
<1>1. ASSUME NEW p \in Tab, Mount(p) \/ Close(p) \/ Send(p) \/ Talk(p) \/ EditPhone(p)
      PROVE  Grown
  BY <1>1 DEF Grown, Mount, Close, Send, Typed, Talk, EditPhone
<1>2. ASSUME NEW p \in Tab, Render(p) PROVE Grown
  BY <1>2, RenderWrites DEF Grown, Render
<1>3. ASSUME NEW p \in Tab, Reset(p) PROVE Grown
  BY <1>3 DEF Grown, Reset
<1>4. ASSUME SetOptIn \/ Shut PROVE Grown
  BY <1>4 DEF Grown, SetOptIn, Shut
<1>5. ASSUME NEW r \in requests,
             Serve(r) \/ Fail(r) \/ LoseConnection(r) \/ Receive(r)
      PROVE  Grown
  <2>1. UNCHANGED <<kind, minted, sent>>
    BY <1>5 DEF Serve, Take, Refuse, Fail, LoseConnection, Receive, Replied, Errored,
                Told, Discarded, asked, receiving
  <2>2. turns' = turns \/ Take(r)
    BY <1>5 DEF Serve, Refuse, Fail, LoseConnection, Receive, Replied, Errored, Told,
                Discarded, asked, receiving
  <2> QED
    BY <2>1, <2>2 DEF Grown
<1>6. ASSUME UNCHANGED chatVars PROVE Grown
  BY <1>6 DEF Grown, chatVars
<1> QED
  BY <1>1, <1>2, <1>3, <1>4, <1>5, <1>6 DEF ChatNext

LEMMA TypesGrow ==
  ASSUME ChatTyped, Grown
  PROVE  /\ \A e : e \in Entries => e \in Entries'
         /\ \A r \in ChatRequest : r \in ChatRequest'
         /\ \A r \in StatusRequest : r \in StatusRequest'
         /\ \A t \in TurnTaken : t \in TurnTaken'
<1>1. 0 .. minted \subseteq 0 .. minted' /\ 1 .. sent \subseteq 1 .. sent'
  BY DEF ChatTyped, Grown
<1>2. \A s : s \in Seq(Shownable) => s \in Seq(Shownable)'
  <2>1. Shownable \subseteq Shownable'
    BY <1>1 DEF Shownable
  <2> QED
    BY <2>1
<1>3. \A e : e \in Entries => e \in Entries'
  BY <1>1, <1>2 DEF Entries, Shownable
<1>4. \A n \in 1 .. minted : n \in 1 .. minted'
  BY DEF ChatTyped, Grown
<1> QED
  BY <1>1, <1>3, <1>4 DEF ChatRequest, StatusRequest, TurnTaken

\* A turn that is taken.
LEMMA TakeTurn ==
  ASSUME ChatTyped, NEW r \in requests, Take(r)
  PROVE  /\ r \in Chats /\ r \in ChatRequest /\ r.stage = "sent"
         /\ turns' \in Seq(TurnTaken) /\ Len(turns) \in Nat
         /\ DOMAIN turns = 1 .. Len(turns) /\ DOMAIN turns' = 1 .. Len(turns) + 1
         /\ \A t \in DOMAIN turns : turns'[t] = turns[t] /\ t \in DOMAIN turns'
         /\ turns'[Len(turns) + 1].no = r.no /\ turns'[Len(turns) + 1].from = r.from
<1>1. r \in Chats /\ r \in ChatRequest /\ r.stage = "sent"
  BY DEF Take, Chats, ChatTyped, StatusRequest
<1> DEFINE x == [no |-> r.no, kind |-> r.kind, from |-> r.from]
<1>2. x \in TurnTaken /\ x.no = r.no /\ x.from = r.from
  BY <1>1 DEF TurnTaken, ChatRequest
<1>3. turns' = Append(turns, x)
  BY DEF Take
<1> HIDE DEF x
<1> QED
  BY <1>1, <1>2, <1>3, ShownAppend DEF ChatTyped

\* What a page holds stays in order, whatever turn is taken next.
Held(k, e) == e \in Entries /\ EntryOK(k, e)
LEMMA HeldKept ==
  ASSUME ChatTyped, TurnsInv, Grown, NEW k, NEW e, Held(k, e)
  PROVE  Held(k, e)'
<1>1. e \in Entries'
  BY TypesGrow DEF Held
<1>2. CASE turns' = turns
  BY <1>1, <1>2 DEF Held, EntryOK
<1>3. ASSUME NEW r \in requests, Take(r) PROVE EntryOK(k, e)'
  <2> DEFINE new == Len(turns) + 1
  <2>1. /\ DOMAIN turns = 1 .. Len(turns) /\ DOMAIN turns' = 1 .. new
        /\ Len(turns) \in Nat /\ turns'[new].no = r.no
        /\ \A t \in DOMAIN turns : turns'[t] = turns[t] /\ t \in DOMAIN turns'
    BY <1>3, TakeTurn
  <2>2. ~Exchanged(e.shown, r.no)
    <3>1. \A t \in DOMAIN turns : turns[t].no # r.no
      BY <1>3, TakeTurn DEF TurnsInv, ChatOK
    <3> QED
      BY <3>1 DEF Held, EntryOK
  <2>3. \A t \in DOMAIN turns' :
          Exchanged(e.shown, turns'[t].no) => t \in DOMAIN turns /\ turns'[t] = turns[t]
    BY <2>1, <2>2
  <2> HIDE DEF new
  <2> QED
    BY <2>1, <2>3 DEF Held, EntryOK
<1> QED
  BY <1>1, <1>2, <1>3 DEF Grown, Held

LEMMA AllHeld ==
  ASSUME ChatTyped, EntriesInv
  PROVE  /\ \A p \in Tab : Held(kind[p], tab[p].now)
         /\ \A k \in Kind : Held(k, storage[k])
<1>1. \A p \in Tab : Held(kind[p], tab[p].now)
  BY TabFields DEF EntriesInv, Held
<1>2. \A k \in Kind : Held(k, storage[k])
  BY DEF EntriesInv, Held, ChatTyped, PagesTyped
<1> QED
  BY <1>1, <1>2

\* A page is written, and its entry or none.
LEMMA Written ==
  ASSUME ChatTyped, EntriesInv, TurnsInv, Grown, NEW p \in Tab,
         NEW phase \in {"closed", "opening", "open"}, NEW e, NEW w \in BOOLEAN,
         NEW b \in [who : Nat, known : BOOLEAN], Becomes(p, phase, e, w, b),
         Held(kind[p], e)', phase = "open" => e.who # Nobody,
         storage' = storage \/ \E f : Writes(p, f) /\ Held(kind[p], f)'
  PROVE  PagesTyped' /\ EntriesInv'
<1>1. kind' = kind /\ tab'[p].now = e
  BY Became DEF Grown
<1>2. \A q \in Tab : Held(kind[q], tab[q].now)'
  <2> SUFFICES ASSUME NEW q \in Tab PROVE Held(kind[q], tab[q].now)'
    OBVIOUS
  <2>1. CASE q = p
    BY <1>1, <2>1
  <2>2. CASE q # p
    <3> PICK x : x = tab[q].now
      OBVIOUS
    <3>1. Held(kind[q], x) /\ tab'[q].now = x
      BY AllHeld, Became, <2>2
    <3> PICK k : k = kind[q]
      OBVIOUS
    <3>2. Held(k, x)'
      BY <3>1, HeldKept
    <3> QED
      BY <1>1, <3>1, <3>2
  <2> QED
    BY <2>1, <2>2
<1>3. \A k \in Kind : Held(k, storage[k])'
  <2> SUFFICES ASSUME NEW k \in Kind PROVE Held(k, storage[k])'
    OBVIOUS
  <2> PICK x : x = storage[k]
    OBVIOUS
  <2>1. Held(k, x)'
    BY AllHeld, HeldKept
  <2>2. CASE storage'[k] = storage[k]
    BY <2>1, <2>2
  <2>3. CASE storage'[k] # storage[k]
    <3>1. PICK f : Writes(p, f) /\ Held(kind[p], f)'
      BY <2>3
    <3>2. k = kind[p] /\ storage'[k] = f
      BY <2>3, <3>1 DEF Writes, ChatTyped, PagesTyped
    <3> QED
      BY <1>1, <3>1, <3>2
  <2> QED
    BY <2>2, <2>3
<1>4. tab' \in [Tab -> TabState']
  <2>1. \A q \in Tab : tab'[q].now \in Entries'
    BY <1>2 DEF Held
  <2>2. tab'[p] \in TabState'
    BY <2>1 DEF Becomes, TabState, ChatTyped, PagesTyped
  <2>3. \A q \in Tab \ {p} : tab'[q] \in TabState'
    BY <2>1, Became, TabFields DEF TabState
  <2> QED
    BY <2>2, <2>3 DEF Becomes, ChatTyped, PagesTyped
<1>5. storage' \in [Kind -> Entries']
  <2>1. DOMAIN storage' = Kind /\ storage' = [k \in Kind |-> storage'[k]]
    BY DEF Writes, ChatTyped, PagesTyped
  <2> QED
    BY <1>3, <2>1 DEF Held
<1>6. \A q \in Tab : tab'[q].phase = "open" => tab'[q].now.who # Nobody
  BY Became DEF ChatTyped, PagesTyped
<1> QED
  BY <1>2, <1>3, <1>4, <1>5, <1>6 DEF PagesTyped, EntriesInv, Held

\* An entry without exchanges.
LEMMA HeldQuiet ==
  ASSUME NEW k, NEW e \in Entries', e.who = Nobody => e.shown = <<>>,
         k = "public" => e.as = "customer", \A n : ~Exchanged(e.shown, n)
  PROVE  Held(k, e)'
  BY DEF Held, EntryOK

LEMMA BlankHeld ==
  ASSUME NEW k, minted' \in Nat PROVE Held(k, BlankEntry)'
<1>1. /\ BlankEntry.who = Nobody /\ BlankEntry.shown = <<>>
      /\ BlankEntry.as = "customer" /\ BlankEntry \in Entries'
  BY DEF BlankEntry, Entries, Nobody
<1> QED
  BY <1>1, HeldQuiet, NothingExchanged

\* An entry with what another one shows, as the same customer or on the test page.
LEMMA HeldLike ==
  ASSUME NEW k, NEW d, NEW e \in Entries', Held(k, d)', e.shown = d.shown,
         e.who = Nobody => e.shown = <<>>, k = "public" => e.as = "customer",
         k = "public" => e.who = d.who \/ e.shown = <<>>
  PROVE  Held(k, e)'
  BY NothingExchanged DEF Held, EntryOK

LEMMA EntryIn ==
  ASSUME minted' \in Nat, NEW who \in 0 .. minted', NEW shown \in Seq(Shownable)',
         NEW as \in {"customer", "owner", "veda"}
  PROVE  Entry(who, shown, as) \in Entries'
  BY DEF Entry, Entries, Shownable

LEMMA MountPages ==
  ASSUME ChatTyped, EntriesInv, TurnsInv, Grown, NEW p \in Tab, Mount(p)
  PROVE  PagesTyped' /\ EntriesInv'
<1> PICK k \in Kind : k = kind[p]
  BY TabFields
<1> PICK e : e = storage[k]
  OBVIOUS
<1>1. Held(k, e)'
  BY AllHeld, HeldKept
<1>2. Held(k, BlankEntry)'
  BY BlankHeld DEF Grown
<1>3. kind'[p] = k /\ NoBadge \in [who : Nat, known : BOOLEAN]
  BY DEF Grown, NoBadge, Nobody
<1>4. Becomes(p, "opening", e, FALSE, NoBadge) /\ Writes(p, BlankEntry)
  BY MountWrites
<1> QED
  BY <1>1, <1>2, <1>3, <1>4, Written

LEMMA ClosePages ==
  ASSUME ChatTyped, EntriesInv, TurnsInv, Grown, NEW p \in Tab, Close(p)
  PROVE  PagesTyped' /\ EntriesInv'
<1>2. Held(kind[p], BlankEntry)'
  BY BlankHeld DEF Grown
<1>3. NoBadge \in [who : Nat, known : BOOLEAN]
  BY DEF NoBadge, Nobody
<1> QED
  BY <1>2, <1>3, Written, CloseWrites

LEMMA RenderPages ==
  ASSUME ChatTyped, EntriesInv, TurnsInv, Grown, NEW p \in Tab, Render(p)
  PROVE  PagesTyped' /\ EntriesInv'
<1> PICK k \in Kind : k = kind[p]
  BY TabFields
<1> PICK d : d = tab[p].now
  OBVIOUS
<1> PICK who : who = IF d.who = Nobody THEN minted + 1 ELSE d.who
  OBVIOUS
<1> PICK e : e = Entry(who, d.shown, d.as)
  OBVIOUS
<1>1. Held(k, d)' /\ Held(k, d)
  BY AllHeld, HeldKept
<1>2. /\ Becomes(p, "open", e, tab[p].waiting, tab[p].badge) /\ Writes(p, e)
      /\ minted' = IF d.who = Nobody THEN minted + 1 ELSE minted
  BY RenderWrites
<1>3. /\ d.who \in 0 .. minted /\ d.as \in {"customer", "owner", "veda"}
      /\ d.shown \in Seq(Shownable)' /\ minted \in Nat
  <2>1. d \in Entries' /\ d \in Entries
    BY <1>1 DEF Held
  <2> QED
    BY <2>1 DEF Entries, Shownable, ChatTyped
<1>4. who \in 0 .. minted' /\ who # Nobody /\ minted' \in Nat
  BY <1>2, <1>3 DEF Nobody
<1>5. e \in Entries' /\ e.who = who /\ e.shown = d.shown /\ e.as = d.as
  <2>1. Entry(who, d.shown, d.as) \in Entries'
    BY <1>3, <1>4, EntryIn
  <2> QED
    BY <2>1 DEF Entry
<1>6. k = "public" => d.as = "customer"
  BY <1>1 DEF Held, EntryOK
<1>7. d.who = Nobody => d.shown = <<>>
  BY <1>1 DEF Held, EntryOK
<1>8. Held(k, e)'
  BY <1>1, <1>4, <1>5, <1>6, <1>7, HeldLike
<1>9. kind'[p] = k
  BY DEF Grown
<1> QED
  BY <1>2, <1>4, <1>5, <1>8, <1>9, Written, TabFields

LEMMA TypedPages ==
  ASSUME ChatTyped, EntriesInv, TurnsInv, Grown, NEW p \in Tab, Typed(p)
  PROVE  PagesTyped' /\ EntriesInv'
<1> PICK k \in Kind : k = kind[p]
  BY TabFields
<1> PICK d : d = tab[p].now
  OBVIOUS
<1> PICK s : s = Append(d.shown, Message(sent + 1, "customer"))
  OBVIOUS
<1> PICK e : e = Entry(d.who, s, d.as)
  OBVIOUS
<1>1. Held(k, d)' /\ Held(k, d) /\ d.who # Nobody
  BY AllHeld, HeldKept DEF ChatTyped, PagesTyped, Typed
<1>2. Becomes(p, "open", e, TRUE, tab[p].badge) /\ Writes(p, e)
  BY TypedWrites
<1>3. /\ d.who \in 0 .. minted' /\ d.as \in {"customer", "owner", "veda"}
      /\ d.shown \in Seq(Shownable)' /\ minted' \in Nat
  <2>1. d \in Entries'
    BY <1>1 DEF Held
  <2> QED
    BY <2>1 DEF Entries, Shownable, Grown
<1>4. Message(sent + 1, "customer") \in Shownable'
  BY DEF Typed, Shownable, Message, ChatTyped
<1>5. s \in Seq(Shownable)'
  BY <1>3, <1>4
<1>6. e \in Entries' /\ e.who = d.who /\ e.shown = s /\ e.as = d.as
  <2>1. Entry(d.who, s, d.as) \in Entries'
    BY <1>3, <1>5, EntryIn
  <2> QED
    BY <2>1 DEF Entry
<1>7. \A n : Exchanged(s, n) => Exchanged(d.shown, n)
  BY <1>3, <1>4, CustomerAppended
<1>8. Held(k, e)'
  <2> SUFFICES EntryOK(k, e)'
    BY <1>6 DEF Held
  <2>1. EntryOK(k, d)'
    BY <1>1 DEF Held
  <2>2. \A n : Exchanged(e.shown, n) => Exchanged(d.shown, n)
    BY <1>6, <1>7
  <2> QED
    BY <1>1, <1>6, <2>1, <2>2 DEF EntryOK
<1>9. kind'[p] = k
  BY DEF Grown
<1>10. tab[p].badge \in [who : Nat, known : BOOLEAN]
  BY TabFields
<1> QED
  BY <1>1, <1>2, <1>6, <1>8, <1>9, <1>10, Written

LEMMA ResetPages ==
  ASSUME ChatTyped, EntriesInv, TurnsInv, Grown, NEW p \in Tab, Reset(p)
  PROVE  PagesTyped' /\ EntriesInv'
<1> PICK k \in Kind : k = kind[p]
  BY TabFields
<1> PICK d : d = tab[p].now
  OBVIOUS
<1> PICK e : e = Entry(minted + 1, <<>>, d.as)
  OBVIOUS
<1>1. Held(k, d) /\ minted' = minted + 1 /\ minted \in Nat
  BY AllHeld DEF Reset, ChatTyped
<1>2. Becomes(p, tab[p].phase, e, tab[p].waiting, tab[p].badge) /\ Writes(p, e)
  BY ResetWrites
<1>3. k = "public" => d.as = "customer"
  BY <1>1 DEF Held, EntryOK
<1>3a. d.as \in {"customer", "owner", "veda"}
  BY TabFields, EntryFields
<1>4. <<>> \in Seq(Shownable)' /\ minted + 1 \in 0 .. minted' /\ minted + 1 # Nobody
  BY <1>1 DEF Nobody
<1>5. e \in Entries' /\ e.who = minted + 1 /\ e.shown = <<>> /\ e.as = d.as
  <2>1. Entry(minted + 1, <<>>, d.as) \in Entries'
    BY <1>1, <1>3a, <1>4, EntryIn DEF Grown
  <2> QED
    BY <2>1 DEF Entry
<1>6. Held(k, e)'
  BY <1>3, <1>3a, <1>4, <1>5, HeldQuiet, NothingExchanged
<1>7. kind'[p] = k
  BY DEF Grown
<1> QED
  BY <1>2, <1>4, <1>5, <1>6, <1>7, Written, TabFields

LEMMA TestPages ==
  ASSUME ChatTyped, EntriesInv, TurnsInv, Grown, NEW p \in Tab, Talk(p) \/ EditPhone(p)
  PROVE  PagesTyped' /\ EntriesInv'
<1> PICK d : d = tab[p].now
  OBVIOUS
<1>1. PICK who \in 0 .. minted, as \in {"customer", "owner", "veda"} :
        LET e == Entry(who, d.shown, as)
        IN  /\ Becomes(p, tab[p].phase, e, tab[p].waiting, tab[p].badge)
            /\ Writes(p, e) /\ who # Nobody
  <2>1. d.who \in 0 .. minted /\ d.as \in {"customer", "owner", "veda"} /\ minted \in Nat
    BY TabFields, EntryFields DEF ChatTyped
  <2>2. d.who # Nobody
    BY DEF Talk, EditPhone, ChatTyped, PagesTyped
  <2>3. CASE Talk(p)
    BY <2>1, <2>2, <2>3, TalkWrites
  <2>4. CASE EditPhone(p)
    <3>1. PICK who \in 1 .. minted :
            LET e == Entry(who, d.shown, d.as)
            IN  /\ Becomes(p, tab[p].phase, e, tab[p].waiting, tab[p].badge)
                /\ Writes(p, e)
      BY <2>4, EditPhoneWrites
    <3>2. who \in 0 .. minted /\ who # Nobody
      BY <2>1 DEF Nobody
    <3> QED
      BY <2>1, <3>1, <3>2
  <2> QED
    BY <2>3, <2>4
<1> PICK e : e = Entry(who, d.shown, as)
  OBVIOUS
<1>2. Held("test", d)' /\ kind[p] = "test" /\ kind'[p] = "test"
  <2>1. kind[p] = "test"
    BY DEF Talk, EditPhone
  <2> QED
    BY <2>1, AllHeld, HeldKept DEF Grown
<1>3. /\ who \in 0 .. minted' /\ d.shown \in Seq(Shownable)' /\ minted' \in Nat
  <2>1. d \in Entries'
    BY <1>2 DEF Held
  <2> QED
    BY <2>1 DEF Entries, Shownable, Grown, ChatTyped
<1>4. e \in Entries' /\ e.who = who /\ e.shown = d.shown /\ e.as = as
  <2>1. Entry(who, d.shown, as) \in Entries'
    BY <1>3, EntryIn
  <2> QED
    BY <2>1 DEF Entry
<1>5. Held("test", e)'
  BY <1>1, <1>2, <1>4, HeldLike
<1>6. /\ tab[p].phase \in {"closed", "opening", "open"} /\ tab[p].waiting \in BOOLEAN
      /\ tab[p].badge \in [who : Nat, known : BOOLEAN]
  BY TabFields
<1>7. Becomes(p, tab[p].phase, e, tab[p].waiting, tab[p].badge) /\ Writes(p, e)
  BY <1>1
<1>8. Held(kind[p], e)' /\ e.who # Nobody
  BY <1>1, <1>2, <1>4, <1>5
<1> QED
  BY <1>6, <1>7, <1>8, Written

\* A page that shows what it showed.
LEMMA SamePages ==
  ASSUME ChatTyped, EntriesInv, TurnsInv, Grown, NEW p \in Tab, NEW w \in BOOLEAN,
         NEW b \in [who : Nat, known : BOOLEAN], storage' = storage,
         Becomes(p, tab[p].phase, tab[p].now, w, b)
  PROVE  PagesTyped' /\ EntriesInv'
<1> PICK d : d = tab[p].now
  OBVIOUS
<1>1. Held(kind[p], d)'
  BY AllHeld, HeldKept DEF Grown
<1>2. tab[p].phase = "open" => d.who # Nobody
  BY DEF ChatTyped, PagesTyped
<1> QED
  BY <1>1, <1>2, Written, TabFields

LEMMA StillPages ==
  ASSUME ChatTyped, EntriesInv, TurnsInv, Grown, tab' = tab, storage' = storage
  PROVE  PagesTyped' /\ EntriesInv'
<1>1. \A q \in Tab : Held(kind[q], tab[q].now)'
  <2> SUFFICES ASSUME NEW q \in Tab PROVE Held(kind[q], tab[q].now)'
    OBVIOUS
  <2> PICK k, x : k = kind[q] /\ x = tab[q].now
    OBVIOUS
  <2>1. Held(k, x)'
    BY AllHeld, HeldKept
  <2> QED
    BY <2>1 DEF Grown
<1>2. \A k \in Kind : Held(k, storage[k])'
  <2> SUFFICES ASSUME NEW k \in Kind PROVE Held(k, storage[k])'
    OBVIOUS
  <2> PICK x : x = storage[k]
    OBVIOUS
  <2>1. Held(k, x)'
    BY AllHeld, HeldKept
  <2> QED
    BY <2>1
<1>3. tab' \in [Tab -> TabState']
  <2>1. \A q \in Tab : tab[q] \in TabState'
    BY <1>1, TabFields DEF Held, TabState
  <2> QED
    BY <2>1 DEF ChatTyped, PagesTyped
<1> QED
  BY <1>1, <1>2, <1>3 DEF Held, EntriesInv, ChatTyped, PagesTyped

\* The answer to the last message that a page shows.
LEMMA RepliedPages ==
  ASSUME ChatTyped, EntriesInv, TurnsInv, AwaitedInv, Grown, NEW r \in requests,
         Replied(r)
  PROVE  PagesTyped' /\ EntriesInv'
<1>1. r \in Chats /\ r \in ChatRequest /\ r.tab \in Tab /\ r.stage = "ok"
  BY DEF Replied, Chats, ChatTyped, StatusRequest, ChatRequest
<1> PICK p \in Tab : p = r.tab
  BY <1>1
<1> PICK k \in Kind : k = kind[p]
  BY TabFields
<1> PICK d : d = tab[p].now
  OBVIOUS
<1> PICK s : s = Append(d.shown, Message(r.no, "agent"))
  OBVIOUS
<1> PICK e : e = Entry(d.who, s, d.as)
  OBVIOUS
<1>2. Held(k, d) /\ d \in Entries' /\ AwaitedOK(r, p) /\ ChatOK(r)
  BY <1>1, AllHeld, HeldKept DEF Held, AwaitedInv, TurnsInv
<1>3. Becomes(p, tab[p].phase, e, FALSE, tab[p].badge) /\ Writes(p, e)
  BY <1>1, RepliedWrites
<1>4. /\ d.who \in 0 .. minted' /\ d.as \in {"customer", "owner", "veda"}
      /\ d.shown \in Seq(Shownable)' /\ minted' \in Nat
  BY <1>2 DEF Entries, Shownable, Grown
<1>5. Message(r.no, "agent") \in Shownable' /\ sent' = sent
  BY <1>1 DEF Shownable, Message, ChatRequest, Replied, receiving
<1>6. s \in Seq(Shownable)'
  BY <1>4, <1>5
<1>7. e \in Entries' /\ e.who = d.who /\ e.shown = s /\ e.as = d.as
  <2>1. Entry(d.who, s, d.as) \in Entries'
    BY <1>4, <1>6, EntryIn
  <2> QED
    BY <2>1 DEF Entry
<1>8. tab[p].phase = "open" /\ d.who # Nobody
  BY <1>2 DEF AwaitedOK, ChatTyped, PagesTyped
<1>9. \A n : Exchanged(s, n) =>
        \/ Exchanged(d.shown, n)
        \/ n = r.no /\ \E i \in DOMAIN d.shown : d.shown[i] = Message(r.no, "customer")
  BY <1>4, <1>5, AgentAppended
<1>10. turns' = turns
  BY DEF Replied, receiving
<1>11. EntryOK(k, e)
  <2>1. EntryOK(k, d)
    BY <1>2 DEF Held
  <2>2. ASSUME NEW n, Exchanged(e.shown, n) PROVE \E t \in DOMAIN turns : turns[t].no = n
    <3>1. Exchanged(d.shown, n) \/ n = r.no
      BY <1>7, <1>9, <2>2
    <3>2. \E t \in DOMAIN turns : turns[t].no = r.no
      BY <1>1, <1>2 DEF ChatOK
    <3> QED
      BY <2>1, <3>1, <3>2 DEF EntryOK
  <2>3. ASSUME NEW t \in DOMAIN turns, NEW u \in DOMAIN turns,
               Exchanged(e.shown, turns[t].no), Exchanged(e.shown, turns[u].no),
               turns[t].no < turns[u].no
        PROVE  t < u
    <3>1. CASE Exchanged(d.shown, turns[t].no) /\ Exchanged(d.shown, turns[u].no)
      BY <2>1, <2>3, <3>1 DEF EntryOK
    <3>2. CASE Exchanged(d.shown, turns[t].no) /\ turns[u].no = r.no
      BY <1>2, <3>2 DEF AwaitedOK, Shown
    <3>3. CASE turns[t].no = r.no
      <4>1. r.no \in Nat /\ turns[u].no \in Nat
        <5>1. turns[u] \in TurnTaken
          BY DEF ChatTyped
        <5> QED
          BY <1>1, <5>1 DEF ChatRequest, TurnTaken, ChatTyped
      <4>2. Exchanged(d.shown, turns[u].no)
        <5> PICK n : n = turns[u].no
          OBVIOUS
        <5>1. r.no < n /\ n \in Nat /\ r.no \in Nat
          BY <2>3, <3>3, <4>1
        <5>2. Exchanged(s, n)
          BY <1>7, <2>3
        <5> QED
          BY <1>9, <5>1, <5>2
      <4>3. d.shown \in Seq(Shownable)
        BY <1>2, EntryFields DEF Held
      <4>4. PICK i \in DOMAIN d.shown : d.shown[i].no = turns[u].no
        BY <4>2, <4>3, ShownMessage
      <4>5. turns[u].no <= r.no
        BY <1>2, <4>4 DEF AwaitedOK, Shown
      <4> QED
        BY <2>3, <3>3, <4>1, <4>5
    <3> QED
      BY <1>7, <1>9, <2>3, <3>1, <3>2, <3>3
  <2>4. ASSUME k = "public", NEW t \in DOMAIN turns, Exchanged(e.shown, turns[t].no)
        PROVE  turns[t].from = e.who
    <3>1. CASE Exchanged(d.shown, turns[t].no)
      BY <1>7, <2>1, <2>4, <3>1 DEF EntryOK
    <3>2. ASSUME turns[t].no = r.no, NEW i \in DOMAIN d.shown,
                 d.shown[i] = Message(r.no, "customer")
          PROVE  turns[t].from = e.who
      <4>1. d.shown[i].no = r.no
        BY <3>2 DEF Message
      <4>2. r.from = d.who
        BY <1>2, <2>4, <4>1 DEF AwaitedOK, Shown
      <4> QED
        BY <1>2, <1>7, <3>2, <4>2 DEF ChatOK
    <3> QED
      BY <1>7, <1>9, <2>4, <3>1, <3>2
  <2>5. k = "public" => e.as = "customer"
    BY <1>7, <2>1 DEF EntryOK
  <2> QED
    BY <1>7, <1>8, <2>2, <2>3, <2>4, <2>5 DEF EntryOK
<1>12. Held(kind[p], e)'
  BY <1>7, <1>10, <1>11 DEF Held, EntryOK, Grown
<1>13. tab[p].badge \in [who : Nat, known : BOOLEAN]
  BY TabFields
<1>14. Becomes(p, "open", e, FALSE, tab[p].badge) /\ Writes(p, e) /\ e.who # Nobody
  BY <1>3, <1>7, <1>8
<1> QED
  BY <1>12, <1>13, <1>14, Written

LEMMA PagesNext ==
  ASSUME ChatTyped, EntriesInv, TurnsInv, AwaitedInv, [ChatNext]_chatVars
  PROVE  PagesTyped' /\ EntriesInv'
<1>0. Grown
  BY GrownNext
<1>1. ASSUME NEW p \in Tab, Mount(p) PROVE PagesTyped' /\ EntriesInv'
  BY <1>0, <1>1, MountPages
<1>2. ASSUME NEW p \in Tab, Render(p) PROVE PagesTyped' /\ EntriesInv'
  BY <1>0, <1>2, RenderPages
<1>3. ASSUME NEW p \in Tab, Close(p) PROVE PagesTyped' /\ EntriesInv'
  BY <1>0, <1>3, ClosePages
<1>4. ASSUME NEW p \in Tab, Send(p) PROVE PagesTyped' /\ EntriesInv'
  BY <1>0, <1>4, TypedPages DEF Send
<1>5. ASSUME NEW p \in Tab, Reset(p) PROVE PagesTyped' /\ EntriesInv'
  BY <1>0, <1>5, ResetPages
<1>6. ASSUME NEW p \in Tab, Talk(p) \/ EditPhone(p) PROVE PagesTyped' /\ EntriesInv'
  BY <1>0, <1>6, TestPages
<1>7. ASSUME NEW r \in requests, Replied(r) PROVE PagesTyped' /\ EntriesInv'
  BY <1>0, <1>7, RepliedPages
<1>8. ASSUME NEW r \in requests, LoseConnection(r) \/ Errored(r)
      PROVE  PagesTyped' /\ EntriesInv'
  <2>1. r.tab \in Tab /\ Failed(r) /\ storage' = storage
    BY <1>8 DEF LoseConnection, Errored, ChatTyped, StatusRequest, ChatRequest
  <2>2. Becomes(r.tab, tab[r.tab].phase, tab[r.tab].now, FALSE, tab[r.tab].badge)
    BY <2>1, FailedWrites
  <2>3. tab[r.tab].badge \in [who : Nat, known : BOOLEAN]
    BY <2>1, TabFields
  <2> QED
    BY <1>0, <2>1, <2>2, <2>3, SamePages
<1>9. ASSUME NEW r \in requests, Told(r) PROVE PagesTyped' /\ EntriesInv'
  <2>1. r.tab \in Tab /\ r.who \in Nat /\ storage' = storage
    BY <1>9 DEF Told, ChatTyped, StatusRequest, ChatRequest
  <2> PICK b : b = [who |-> r.who, known |-> r.who \in optedIn]
    OBVIOUS
  <2>2. Becomes(r.tab, tab[r.tab].phase, tab[r.tab].now, tab[r.tab].waiting, b)
    BY <1>9, <2>1, ToldWrites
  <2>3. b \in [who : Nat, known : BOOLEAN] /\ tab[r.tab].waiting \in BOOLEAN
    BY <2>1, TabFields
  <2> QED
    BY <1>0, <2>1, <2>2, <2>3, SamePages
<1>10. ASSUME tab' = tab /\ storage' = storage PROVE PagesTyped' /\ EntriesInv'
  BY <1>0, <1>10, StillPages
<1>11. ASSUME \/ SetOptIn \/ Shut \/ UNCHANGED chatVars
              \/ \E r \in requests : Serve(r) \/ Fail(r) \/ Discarded(r)
       PROVE  tab' = tab /\ storage' = storage
  BY <1>11 DEF SetOptIn, Shut, chatVars, Serve, Take, Refuse, Fail, Discarded, asked
<1> QED
  BY <1>1, <1>2, <1>3, <1>4, <1>5, <1>6, <1>7, <1>8, <1>9, <1>10, <1>11
     DEF ChatNext, Receive

-----------------------------------------------------------------------------
(* What becomes of requests                                                  *)

\* A chat goes on as another: what it carries stays, and a page or nobody waits.
Like(q, r) == /\ q \in ChatRequest /\ q.no = r.no /\ q.from = r.from
              /\ q.tab \in {r.tab, None} /\ q.stage \in {r.stage, "error"}

\* Chats go on, one as one.
Evolve == \E f : /\ \A r \in Chats : Like(f[r], r)
                 /\ \A q \in Chats' : \E r \in Chats : q = f[r]

LEMMA Fields ==
  ASSUME ChatTyped, NEW r \in requests
  PROVE  /\ r.op = "chat" \/ r.op = "status"
         /\ r.op = "chat" => r \in Chats /\ r \in ChatRequest
         /\ r.op = "status" => r \in StatusRequest /\ r.tab \in Tab /\ r.stage = "sent"
  BY DEF ChatTyped, Chats, ChatRequest, StatusRequest

LEMMA ChatFields ==
  ASSUME ChatTyped, NEW r \in Chats
  PROVE  /\ r \in ChatRequest /\ r \in requests /\ r.op = "chat"
         /\ r.no \in Nat /\ r.no \in 1 .. sent /\ r.stage \in {"sent", "ok", "error"}
         /\ r.tab \in Tab \cup {None}
  BY DEF ChatTyped, Chats, ChatRequest, StatusRequest

LEMMA SameChats ==
  ASSUME ChatTyped, Chats' \subseteq Chats PROVE Evolve
<1> DEFINE f == [r \in Chats |-> r]
<1>1. \A r \in Chats : f[r] = r /\ Like(r, r)
  BY ChatFields DEF Like
<1> QED
  BY <1>1 DEF Evolve

LEMMA ReplacedChat ==
  ASSUME ChatTyped, NEW r \in Chats, NEW q, Like(q, r), Replace(r, q)
  PROVE  Evolve
<1> DEFINE f == [x \in Chats |-> IF x = r THEN q ELSE x]
<1>1. \A x \in Chats : Like(f[x], x)
  BY ChatFields DEF Like
<1>2. \A y \in Chats' : \E x \in Chats : y = f[x]
  BY DEF Replace, Chats
<1> HIDE DEF f
<1> QED
  BY <1>1, <1>2 DEF Evolve

LEMMA OrphanedChats ==
  ASSUME ChatTyped, NEW p \in Tab, requests' = Orphaned(requests, p)
  PROVE  Evolve
<1> DEFINE f == [r \in Chats |-> IF r.tab = p THEN [r EXCEPT !.tab = None] ELSE r]
<1>1. \A r \in Chats : Like(f[r], r)
  <2> SUFFICES ASSUME NEW r \in Chats PROVE Like(f[r], r)
    OBVIOUS
  <2>1. r \in ChatRequest
    BY ChatFields
  <2>2. Like([r EXCEPT !.tab = None], r)
    BY <2>1 DEF Like, ChatRequest
  <2> QED
    BY <2>1, <2>2 DEF Like, ChatRequest
<1>2. \A q \in Chats' : \E r \in Chats : q = f[r]
  <2> SUFFICES ASSUME NEW q \in Chats' PROVE \E r \in Chats : q = f[r]
    OBVIOUS
  <2>1. PICK r \in Cancelled(requests, p) :
          q = IF r.tab = p THEN [r EXCEPT !.tab = None] ELSE r
    BY DEF Orphaned, Chats
  <2>2. r \in requests /\ q.op = "chat" /\ (r.op = "chat" \/ r.tab # p)
    BY DEF Cancelled, Chats
  <2>3. r \in Chats
    <3>1. CASE r.tab = p
      BY <2>2, <3>1 DEF Chats
    <3>2. CASE r.tab # p
      BY <2>1, <2>2, <3>2 DEF Chats
    <3> QED
      BY <3>1, <3>2
  <2> QED
    BY <2>1, <2>3
<1> HIDE DEF f
<1> QED
  BY <1>1, <1>2 DEF Evolve

\* What a request is after a stage changed, or its page.
LEMMA StageChanged ==
  ASSUME NEW r \in ChatRequest, NEW s \in {"sent", "ok", "error"}
  PROVE  LET q == [r EXCEPT !.stage = s]
         IN  /\ q \in ChatRequest /\ q.no = r.no /\ q.from = r.from /\ q.tab = r.tab
             /\ q.stage = s /\ q.op = "chat"
  BY DEF ChatRequest
LEMMA TabChanged ==
  ASSUME NEW r \in ChatRequest PROVE Like([r EXCEPT !.tab = None], r)
  BY DEF ChatRequest, Like

\* Chats go on but for a message sent and a turn taken.
LEMMA ChatsEvolve ==
  ASSUME ChatTyped, [ChatNext]_chatVars
  PROVE  \/ \E p \in Tab : Typed(p) /\ ~tab[p].waiting
         \/ \E r \in requests : Take(r)
         \/ Evolve /\ turns' = turns
<1>1. ASSUME NEW p \in Tab, Mount(p) \/ Talk(p) \/ EditPhone(p)
      PROVE  Evolve /\ turns' = turns
  BY <1>1, SameChats DEF Mount, Talk, EditPhone, Chats
<1>2. ASSUME NEW p \in Tab, Render(p) \/ Reset(p)
      PROVE  Evolve /\ turns' = turns
  <2>1. PICK who : requests' = Asked(requests, p, who)
    BY <1>2 DEF Render, Reset
  <2>2. Chats' \subseteq Chats
    BY <2>1 DEF Asked, Cancelled, Chats
  <2> QED
    BY <1>2, <2>2, SameChats DEF Render, Reset
<1>3. ASSUME NEW p \in Tab, Close(p) PROVE Evolve /\ turns' = turns
  BY <1>3, OrphanedChats DEF Close
<1>4. ASSUME SetOptIn \/ Shut \/ UNCHANGED chatVars PROVE Evolve /\ turns' = turns
  BY <1>4, SameChats DEF SetOptIn, Shut, chatVars, Chats
<1>5. ASSUME NEW r \in requests, Receive(r) PROVE Evolve /\ turns' = turns
  <2>1. requests' = requests \ {r} /\ turns' = turns
    BY <1>5 DEF Receive, Replied, Errored, Told, Discarded, receiving
  <2> QED
    BY <2>1, SameChats DEF Chats
<1>6. ASSUME NEW r \in requests, Refuse(r) \/ Fail(r) \/ LoseConnection(r)
      PROVE  Evolve /\ turns' = turns
  <2>1. turns' = turns
    BY <1>6 DEF Refuse, Fail, LoseConnection
  <2>2. CASE r.op = "chat"
    <3>1. r \in Chats /\ r \in ChatRequest
      BY <2>2, Fields
    <3>2. PICK q \in {[r EXCEPT !.stage = "error"], [r EXCEPT !.tab = None]} : Replace(r, q)
      BY <1>6, <2>2 DEF Refuse, Fail, LoseConnection
    <3>3. Like(q, r)
      <4>1. Like([r EXCEPT !.stage = "error"], r)
        BY <3>1, StageChanged DEF Like
      <4> QED
        BY <3>1, <3>2, <4>1, TabChanged
    <3> QED
      BY <2>1, <3>1, <3>2, <3>3, ReplacedChat
  <2>3. CASE r.op # "chat"
    <3>1. requests' = requests \ {r}
      BY <1>6, <2>3 DEF Refuse, Fail, LoseConnection
    <3> QED
      BY <2>1, <3>1, SameChats DEF Chats
  <2> QED
    BY <2>2, <2>3
<1> QED
  BY <1>1, <1>2, <1>3, <1>4, <1>5, <1>6 DEF ChatNext, Send, Serve

-----------------------------------------------------------------------------
(* A message is one request and one turn                                     *)

LEMMA TypedRequest ==
  ASSUME ChatTyped, NEW p \in Tab, Typed(p)
  PROVE  \E q : /\ requests' = requests \cup {q}
                /\ q \in ChatRequest' /\ q.op = "chat" /\ q.no = sent + 1 /\ q.tab = p
                /\ q.stage = "sent" /\ q.from = Sender(tab[p].now)
<1> DEFINE q == [op |-> "chat", tab |-> p, no |-> sent + 1, kind |-> kind[p],
                 from |-> Sender(tab[p].now), stage |-> "sent"]
<1>1. sent' = sent + 1 /\ minted' = minted /\ sent \in Nat /\ minted \in Nat
  BY DEF Typed, ChatTyped
<1>2. tab[p].now.who \in 0 .. minted /\ tab[p].now.who # Nobody /\ kind[p] \in Kind
  BY TabFields, EntryFields DEF Typed, ChatTyped, PagesTyped
<1>3. Sender(tab[p].now) \in {Owner} \cup 1 .. minted'
  BY <1>1, <1>2 DEF Sender, Nobody
<1>4. q \in ChatRequest'
  BY <1>1, <1>2, <1>3 DEF ChatRequest
<1>5. requests' = requests \cup {q}
  BY DEF Typed
<1>6. q.op = "chat" /\ q.no = sent + 1 /\ q.tab = p /\ q.stage = "sent"
      /\ q.from = Sender(tab[p].now)
  OBVIOUS
<1> HIDE DEF q
<1> QED
  BY <1>4, <1>5, <1>6

LEMMA TurnNo ==
  ASSUME ChatTyped, NEW t \in DOMAIN turns
  PROVE  turns[t].no \in 1 .. sent /\ turns[t].no \in Nat
<1>1. turns[t] \in TurnTaken
  BY DEF ChatTyped
<1> QED
  BY <1>1 DEF TurnTaken, ChatTyped

LEMMA TypedTurns ==
  ASSUME ChatTyped, TurnsInv, NEW p \in Tab, Typed(p)
  PROVE  TurnsInv'
<1>1. PICK q : /\ requests' = requests \cup {q} /\ q.op = "chat" /\ q.no = sent + 1
               /\ q.stage = "sent"
  BY TypedRequest
<1>2. turns' = turns /\ sent \in Nat
  BY DEF Typed, ChatTyped
<1>3. \A r \in Chats : r.no # q.no
  BY <1>1, <1>2, ChatFields
<1>4. \A t \in DOMAIN turns : turns[t].no # q.no
  BY <1>1, <1>2, TurnNo
<1>5. Chats' = Chats \cup {q}
  BY <1>1 DEF Chats
<1>6. ChatOK(q)'
  BY <1>1, <1>2, <1>4 DEF ChatOK
<1>7. \A r \in Chats : ChatOK(r)'
  BY <1>2 DEF ChatOK, TurnsInv
<1>8. \A r, x \in Chats' : r.no = x.no => r = x
  BY <1>3, <1>5 DEF TurnsInv
<1> QED
  BY <1>2, <1>5, <1>6, <1>7, <1>8 DEF TurnsInv

LEMMA EvolveTurns ==
  ASSUME ChatTyped, TurnsInv, Evolve, turns' = turns
  PROVE  TurnsInv'
<1>1. PICK f : /\ \A r \in Chats : Like(f[r], r)
               /\ \A q \in Chats' : \E r \in Chats : q = f[r]
  BY DEF Evolve
<1>2. \A r, q \in Chats' : r.no = q.no => r = q
  BY <1>1 DEF TurnsInv, Like
<1>3. ASSUME NEW q \in Chats' PROVE ChatOK(q)'
  <2>1. PICK r \in Chats : q = f[r]
    BY <1>1
  <2>2. ChatOK(r) /\ Like(q, r)
    BY <1>1, <2>1 DEF TurnsInv
  <2> QED
    BY <2>2 DEF ChatOK, Like
<1> QED
  BY <1>2, <1>3 DEF TurnsInv

LEMMA TakeChats ==
  ASSUME ChatTyped, NEW r \in requests, Take(r)
  PROVE  \E q : /\ Chats' = (Chats \ {r}) \cup {q} /\ q.no = r.no /\ q.from = r.from
                /\ q.tab = r.tab /\ q.stage = "ok" /\ q \in ChatRequest
<1> DEFINE q == [r EXCEPT !.stage = "ok"]
<1>1. r \in ChatRequest /\ r \in Chats
  BY TakeTurn
<1>2. /\ q.no = r.no /\ q.from = r.from /\ q.tab = r.tab /\ q.stage = "ok"
      /\ q \in ChatRequest /\ q.op = "chat"
  BY <1>1, StageChanged
<1>3. requests' = (requests \ {r}) \cup {q}
  BY DEF Take, Replace
<1> HIDE DEF q
<1> QED
  BY <1>2, <1>3 DEF Chats

LEMMA TakeTurns ==
  ASSUME ChatTyped, TurnsInv, NEW r \in requests, Take(r)
  PROVE  TurnsInv'
<1> PICK new : new = Len(turns) + 1
  OBVIOUS
<1>0. Len(turns) \in Nat /\ DOMAIN turns = 1 .. Len(turns) /\ DOMAIN turns' = 1 .. new
  BY TakeTurn
<1>1. /\ DOMAIN turns' = DOMAIN turns \cup {new} /\ new \notin DOMAIN turns
  BY <1>0
<1>8. /\ \A t \in DOMAIN turns : turns'[t] = turns[t]
      /\ turns'[new].no = r.no /\ turns'[new].from = r.from /\ r \in Chats
      /\ r.stage = "sent"
  BY TakeTurn
<1>2. PICK q : /\ Chats' = (Chats \ {r}) \cup {q} /\ q.no = r.no /\ q.from = r.from
               /\ q.stage = "ok"
  BY TakeChats
<1>3. \A t \in DOMAIN turns : turns[t].no # r.no
  BY <1>8 DEF TurnsInv, ChatOK
<1>4. \A t, u \in DOMAIN turns' : turns'[t].no = turns'[u].no => t = u
  BY <1>1, <1>3, <1>8 DEF TurnsInv
<1>5. \A x, y \in Chats' : x.no = y.no => x = y
  BY <1>2, <1>8 DEF TurnsInv
<1>6. ChatOK(q)'
  BY <1>1, <1>2, <1>3, <1>8 DEF ChatOK
<1>7. ASSUME NEW x \in Chats \ {r} PROVE ChatOK(x)'
  <2>1. x.no # r.no /\ ChatOK(x)
    BY <1>8 DEF TurnsInv
  <2> QED
    BY <1>1, <1>8, <2>1 DEF ChatOK
<1> QED
  BY <1>2, <1>4, <1>5, <1>6, <1>7 DEF TurnsInv

LEMMA TurnsNext ==
  ASSUME ChatTyped, TurnsInv, [ChatNext]_chatVars
  PROVE  TurnsInv'
  BY ChatsEvolve, TypedTurns, TakeTurns, EvolveTurns

\* A request that is no chat is an old one, or what a page asks about its new
\* customer.
StatusOf(p, who) == [op |-> "status", tab |-> p, who |-> who, stage |-> "sent"]
LEMMA AskedOrigin ==
  ASSUME ChatTyped, NEW p \in Tab, NEW who, requests' = Asked(requests, p, who),
         NEW q \in requests', q.op # "chat"
  PROVE  \/ q \in requests /\ q.tab # p
         \/ q = StatusOf(p, who) /\ kind[p] = "public"
  BY DEF Asked, Cancelled, StatusOf

LEMMA StatusOrigin ==
  ASSUME ChatTyped, [ChatNext]_chatVars, NEW q \in requests', q.op # "chat"
  PROVE  \/ /\ q \in requests
            /\ \A p \in Tab : Close(p) \/ Render(p) \/ Reset(p) => q.tab # p
         \/ \E p \in Tab : /\ Render(p) \/ Reset(p)
                           /\ q = StatusOf(p, tab'[p].now.who) /\ kind[p] = "public"
<1>1. ASSUME NEW p \in Tab, Close(p) PROVE q \in requests /\ q.tab # p
  <2>1. PICK r \in Cancelled(requests, p) :
          q = IF r.tab = p THEN [r EXCEPT !.tab = None] ELSE r
    BY <1>1 DEF Close, Orphaned
  <2>2. r \in requests /\ (r.op = "chat" \/ r.tab # p)
    BY DEF Cancelled
  <2>3. r.op # "chat"
    <3>1. CASE r.op = "chat"
      <4>1. r \in ChatRequest
        BY <2>2, <3>1, Fields
      <4> QED
        BY <2>1, <4>1 DEF ChatRequest
    <3> QED
      BY <3>1
  <2> QED
    BY <2>1, <2>2, <2>3
<1>2. ASSUME NEW p \in Tab, Render(p) \/ Reset(p)
      PROVE  \/ q \in requests /\ q.tab # p
             \/ q = StatusOf(p, tab'[p].now.who) /\ kind[p] = "public"
  <2>1. requests' = Asked(requests, p, tab'[p].now.who)
    <3>1. CASE Render(p)
      <4>1. tab'[p].now = Loaded(tab[p].now)
        BY <3>1, RenderWrites, Became
      <4> QED
        BY <3>1, <4>1 DEF Render
    <3>2. CASE Reset(p)
      <4>1. tab'[p].now = Entry(minted + 1, <<>>, tab[p].now.as)
        BY <3>2, ResetWrites, Became
      <4> QED
        BY <3>2, <4>1 DEF Reset, Entry
    <3> QED
      BY <1>2, <3>1, <3>2
  <2> QED
    BY <2>1, AskedOrigin
<1>3. ASSUME ~ \E p \in Tab : Close(p) \/ Render(p) \/ Reset(p) PROVE q \in requests
  <2>1. ASSUME NEW p \in Tab, Mount(p) \/ Talk(p) \/ EditPhone(p) PROVE q \in requests
    BY <2>1 DEF Mount, Talk, EditPhone
  <2>2. ASSUME NEW p \in Tab, Send(p) PROVE q \in requests
    <3>1. PICK x : requests' = requests \cup {x} /\ x.op = "chat"
      BY <2>2, TypedRequest DEF Send
    <3> QED
      BY <3>1
  <2>3. ASSUME SetOptIn \/ Shut \/ UNCHANGED chatVars PROVE q \in requests
    BY <2>3 DEF SetOptIn, Shut, chatVars
  <2>4. ASSUME NEW r \in requests, Receive(r) PROVE q \in requests
    BY <2>4 DEF Receive, Replied, Errored, Told, Discarded
  <2>5. ASSUME NEW r \in requests, Serve(r) \/ Fail(r) \/ LoseConnection(r)
        PROVE  q \in requests
    <3>1. CASE r.op = "chat"
      <4>1. r \in ChatRequest
        BY <3>1, Fields
      <4>2. PICK x \in {[r EXCEPT !.stage = "ok"], [r EXCEPT !.stage = "error"],
                        [r EXCEPT !.tab = None]} : Replace(r, x)
        BY <2>5, <3>1 DEF Serve, Take, Refuse, Fail, LoseConnection
      <4>3. x.op = "chat"
        BY <4>1, <4>2 DEF ChatRequest
      <4> QED
        BY <4>2, <4>3 DEF Replace
    <3>2. CASE r.op # "chat"
      BY <2>5, <3>2 DEF Serve, Take, Refuse, Fail, LoseConnection
    <3> QED
      BY <3>1, <3>2
  <2> QED
    BY <1>3, <2>1, <2>2, <2>3, <2>4, <2>5 DEF ChatNext, Serve
<1>4. ASSUME NEW p \in Tab, Close(p) \/ Render(p) \/ Reset(p),
             NEW o \in Tab, Close(o) \/ Render(o) \/ Reset(o)
      PROVE  p = o
  <2>1. tab'[p] # tab[p]
    <3>1. CASE Close(p)
      <4>1. tab'[p].phase = "closed"
        BY <3>1, CloseWrites, Became
      <4> QED
        BY <3>1, <4>1 DEF Close
    <3>2. CASE Render(p)
      <4>1. tab'[p].phase = "open"
        BY <3>2, RenderWrites, Became
      <4> QED
        BY <3>2, <4>1 DEF Render
    <3>3. CASE Reset(p)
      <4>1. tab'[p].now = Entry(minted + 1, <<>>, tab[p].now.as)
        BY <3>3, ResetWrites, Became
      <4>2. tab'[p].now.who = minted + 1
        BY <4>1 DEF Entry
      <4>3. tab[p].now.who \in 0 .. minted /\ minted \in Nat
        BY TabFields, EntryFields DEF ChatTyped
      <4> QED
        BY <4>2, <4>3
    <3> QED
      BY <1>4, <3>1, <3>2, <3>3
  <2>2. \A x \in Tab \ {o} : tab'[x] = tab[x]
    <3>1. CASE Close(o)
      BY <3>1, CloseWrites, Became
    <3>2. CASE Render(o)
      BY <3>2, RenderWrites, Became
    <3>3. CASE Reset(o)
      BY <3>3, ResetWrites, Became
    <3> QED
      BY <1>4, <3>1, <3>2, <3>3
  <2> QED
    BY <2>1, <2>2
<1>5. CASE \E p \in Tab : Close(p) \/ Render(p) \/ Reset(p)
  <2>1. PICK p \in Tab : Close(p) \/ Render(p) \/ Reset(p)
    BY <1>5
  <2>2. \A o \in Tab : Close(o) \/ Render(o) \/ Reset(o) => o = p
    BY <1>4, <2>1
  <2> QED
    BY <1>1, <1>2, <2>1, <2>2
<1> QED
  BY <1>3, <1>5

LEMMA ChatTypedNext ==
  ASSUME ChatTyped, EntriesInv, TurnsInv, AwaitedInv, [ChatNext]_chatVars
  PROVE  ChatTyped'
<1>0. Grown /\ PagesTyped'
  BY GrownNext, PagesNext
<1>1. requests' \subseteq ChatRequest' \cup StatusRequest'
  <2> SUFFICES ASSUME NEW q \in requests' PROVE q \in ChatRequest' \cup StatusRequest'
    OBVIOUS
  <2>1. CASE q.op = "chat"
    <3>1. ASSUME NEW p \in Tab, Typed(p) PROVE q \in ChatRequest' \/ q \in Chats
      BY <2>1, <3>1, TypedRequest DEF Chats
    <3>2. ASSUME NEW r \in requests, Take(r) PROVE q \in ChatRequest \/ q \in Chats
      <4>1. q \in Chats'
        BY <2>1 DEF Chats
      <4> QED
        BY <3>2, <4>1, TakeChats
    <3>3. ASSUME Evolve PROVE q \in ChatRequest
      <4>1. q \in Chats'
        BY <2>1 DEF Chats
      <4> QED
        BY <3>3, <4>1 DEF Evolve, Like
    <3> QED
      BY <1>0, <3>1, <3>2, <3>3, ChatsEvolve, ChatFields, TypesGrow
  <2>2. CASE q.op # "chat"
    <3>1. CASE q \in requests
      BY <1>0, <2>2, <3>1, Fields, TypesGrow
    <3>2. ASSUME NEW p \in Tab, q = StatusOf(p, tab'[p].now.who) PROVE q \in StatusRequest'
      <4>1. tab'[p].now \in Entries'
        BY <1>0 DEF PagesTyped, TabState
      <4> QED
        BY <3>2, <4>1 DEF StatusOf, StatusRequest, Entries
    <3> QED
      BY <2>2, <3>1, <3>2, StatusOrigin
  <2> QED
    BY <2>1, <2>2
<1>2. turns' \in Seq(TurnTaken')
  <2>1. TurnTaken \subseteq TurnTaken'
    BY <1>0, TypesGrow
  <2>2. CASE turns' = turns
    BY <2>1, <2>2 DEF ChatTyped
  <2>3. ASSUME NEW r \in requests, Take(r) PROVE turns' \in Seq(TurnTaken')
    BY <2>1, <2>3, TakeTurn
  <2> QED
    BY <1>0, <2>2, <2>3 DEF Grown
<1>3. optedIn' \subseteq Known'
  <2>1. Known \subseteq Known'
    <3>1. CASE turns' = turns
      BY <3>1 DEF Known
    <3>2. ASSUME NEW r \in requests, Take(r) PROVE Known \subseteq Known'
      BY <3>2, TakeTurn DEF Known
    <3> QED
      BY <1>0, <3>1, <3>2 DEF Grown
  <2>2. optedIn' \subseteq optedIn \cup Known
    <3>1. CASE SetOptIn
      BY <3>1 DEF SetOptIn, ChatTyped
    <3>2. CASE ~SetOptIn
      <4>1. optedIn' = optedIn
        BY <3>2 DEF ChatNext, chatVars, Mount, Render, Close, Send, Typed, Reset, Talk,
           EditPhone, Shut, Serve, Take, Refuse, Fail, LoseConnection, Receive, Replied,
           Errored, Told, Discarded, receiving
      <4> QED
        BY <4>1
    <3> QED
      BY <3>1, <3>2
  <2> QED
    BY <2>1, <2>2 DEF ChatTyped
<1>4. open' \in BOOLEAN
  BY DEF ChatTyped, ChatNext, chatVars, Mount, Render, Close, Send, Typed, Reset, Talk,
     EditPhone, SetOptIn, Shut, Serve, Take, Refuse, Fail, LoseConnection, Receive, Replied,
     Errored, Told, Discarded, receiving, asked
<1>5. disturbed' \in BOOLEAN
  BY DEF ChatTyped, ChatNext, chatVars, Mount, Render, Close, Send, Typed, Reset, Talk,
     EditPhone, SetOptIn, Shut, Serve, Take, Refuse, Fail, LoseConnection, Receive, Replied,
     Errored, Told, Discarded, receiving, asked
<1>6. eventsLeft' \in 0 .. MaxEvents
  <2>1. Event \/ eventsLeft' = eventsLeft
    BY DEF ChatNext, chatVars, Mount, Render, Close, Send, Typed, Reset, Talk,
       EditPhone, SetOptIn, Shut, Serve, Take, Refuse, Fail, LoseConnection, Receive,
       Replied, Errored, Told, Discarded, receiving
  <2> QED
    BY <2>1, WebChatAssumption DEF Event, ChatTyped
<1> QED
  BY <1>0, <1>1, <1>2, <1>3, <1>4, <1>5, <1>6 DEF ChatTyped, Grown

-----------------------------------------------------------------------------
(* A page waits for one answer                                               *)

\* A page still waits, and shows what it showed, or nothing.
Kept(p) ==
    /\ tab'[p].phase = tab[p].phase /\ tab'[p].waiting = tab[p].waiting
    /\ \/ tab'[p].now.shown = <<>>
       \/ /\ tab'[p].now.shown = tab[p].now.shown
          /\ kind[p] = "public" => tab'[p].now.who = tab[p].now.who

LEMMA KeptAwaited ==
  ASSUME NEW p \in Tab, NEW r, NEW q, AwaitedOK(r, p), q.no = r.no, q.from = r.from,
         turns' = turns, kind' = kind, Kept(p)
  PROVE  AwaitedOK(q, p)'
<1>1. CASE tab'[p].now.shown = <<>>
  <2>1. Shown(p)' = <<>>
    BY <1>1 DEF Shown
  <2>2. DOMAIN Shown(p)' = {} /\ \A n : ~Exchanged(Shown(p), n)'
    BY <2>1, NothingExchanged DEF Exchanged
  <2> QED
    BY <2>2 DEF AwaitedOK, Kept
<1>2. CASE tab'[p].now.shown # <<>>
  BY <1>2 DEF AwaitedOK, Kept, Shown
<1> QED
  BY <1>1, <1>2

LEMMA EvolveAwaited ==
  ASSUME ChatTyped, AwaitedInv, Evolve, turns' = turns, kind' = kind,
         \A p \in Tab : \/ Kept(p) \/ \A r \in Chats : r.tab # p
                        \/ \A q \in Chats' : q.tab # p
  PROVE  AwaitedInv'
<1>1. PICK f : /\ \A r \in Chats : Like(f[r], r)
               /\ \A q \in Chats' : \E r \in Chats : q = f[r]
  BY DEF Evolve
<1>2. ASSUME NEW p \in Tab, NEW q \in Chats', q.tab = p
      PROVE  \E r \in Chats : q = f[r] /\ r.tab = p /\ AwaitedOK(q, p)'
  <2>1. PICK r \in Chats : q = f[r] /\ Like(q, r)
    BY <1>1
  <2>2. r.tab = p
    BY <1>2, <2>1, WebChatAssumption DEF Like
  <2>3. AwaitedOK(r, p) /\ Kept(p)
    BY <1>2, <2>2 DEF AwaitedInv
  <2>4. AwaitedOK(q, p)'
    BY <2>1, <2>3, KeptAwaited DEF Like
  <2> QED
    BY <2>1, <2>2, <2>4
<1>3. ASSUME NEW p \in Tab, NEW q \in Chats', NEW x \in Chats', q.tab = p, x.tab = p
      PROVE  q = x
  <2>1. PICK r \in Chats, y \in Chats : q = f[r] /\ x = f[y] /\ r.tab = p /\ y.tab = p
    BY <1>2, <1>3
  <2> QED
    BY <2>1 DEF AwaitedInv
<1> QED
  BY <1>2, <1>3 DEF AwaitedInv

\* Nobody waits on a page that is not open, or not waiting.
LEMMA NobodyWaits ==
  ASSUME AwaitedInv, NEW p \in Tab, ~(tab[p].phase = "open" /\ tab[p].waiting)
  PROVE  \A r \in Chats : r.tab # p
  BY DEF AwaitedInv, AwaitedOK

LEMMA OthersKept ==
  ASSUME ChatTyped, NEW p \in Tab, NEW phase, NEW e, NEW w, NEW b,
         Becomes(p, phase, e, w, b)
  PROVE  \A q \in Tab \ {p} : Kept(q)
  BY Became DEF Kept

LEMMA TypedAwaited ==
  ASSUME ChatTyped, EntriesInv, TurnsInv, AwaitedInv, NEW p \in Tab, Typed(p),
         ~tab[p].waiting
  PROVE  AwaitedInv'
<1> PICK d : d = tab[p].now
  OBVIOUS
<1>1. PICK q : /\ requests' = requests \cup {q} /\ q.op = "chat" /\ q.no = sent + 1
               /\ q.tab = p /\ q.from = Sender(d)
  BY TypedRequest
<1>2. Chats' = Chats \cup {q} /\ turns' = turns /\ kind' = kind
  BY <1>1 DEF Chats, Typed
<1>3. \A r \in Chats : r.tab # p
  BY NobodyWaits
<1> PICK m : m = Message(sent + 1, "customer")
  OBVIOUS
<1> PICK s : s = Append(d.shown, m)
  OBVIOUS
<1>4. /\ tab'[p].phase = "open" /\ tab'[p].waiting = TRUE /\ tab'[p].now = Entry(d.who, s, d.as)
      /\ \A o \in Tab \ {p} : Kept(o)
  <2> PICK e : e = Entry(d.who, s, d.as)
    OBVIOUS
  <2>1. Becomes(p, "open", e, TRUE, tab[p].badge)
    BY TypedWrites
  <2>2. \A o \in Tab \ {p} : Kept(o)
    BY <2>1, OthersKept
  <2>3. tab'[p].phase = "open" /\ tab'[p].waiting = TRUE /\ tab'[p].now = e
    BY <2>1 DEF Becomes, ChatTyped, PagesTyped
  <2> QED
    BY <2>2, <2>3
<1>5. d.shown \in Seq(Shownable) /\ sent \in Nat
  BY TabFields, EntryFields DEF ChatTyped
<1>6. DOMAIN s = 1 .. Len(d.shown) + 1 /\ DOMAIN d.shown = 1 .. Len(d.shown)
      /\ (\A i \in 1 .. Len(d.shown) : s[i] = d.shown[i]) /\ s[Len(d.shown) + 1] = m
      /\ Len(d.shown) \in Nat
  <2>1. d.shown \in Seq(Shownable \cup {m})
    BY <1>5
  <2> QED
    BY <2>1, ShownAppend
<1>7. \A i \in DOMAIN d.shown : d.shown[i].no \in 1 .. sent
  <2>1. \A i \in DOMAIN d.shown : d.shown[i] \in Shownable
    BY <1>5
  <2> QED
    BY <2>1 DEF Shownable
<1>8. m.no = sent + 1 /\ m.role = "customer"
  BY DEF Message
<1>9. \A i \in DOMAIN s : \/ s[i].no < sent + 1
                          \/ s[i].no = sent + 1 /\ s[i].role = "customer"
  <2> SUFFICES ASSUME NEW i \in DOMAIN s
               PROVE  \/ s[i].no < sent + 1
                      \/ s[i].no = sent + 1 /\ s[i].role = "customer"
    OBVIOUS
  <2>1. CASE i \in DOMAIN d.shown
    BY <1>5, <1>6, <1>7, <2>1
  <2>2. CASE i \notin DOMAIN d.shown
    <3>1. i = Len(d.shown) + 1
      BY <1>6, <2>2
    <3> QED
      BY <1>6, <1>8, <3>1
  <2> QED
    BY <2>1, <2>2
<1>10. \A t \in DOMAIN turns : turns[t].no # q.no
  BY <1>1, <1>5, TurnNo
<1>11. kind[p] = "public" => q.from = d.who
  BY <1>1, AllHeld DEF Held, EntryOK, Sender
<1>12. Shown(p)' = s /\ tab'[p].now.who = d.who
  BY <1>4 DEF Shown, Entry
<1>13. AwaitedOK(q, p)'
  <2>1. \A i \in DOMAIN s : s[i].no <= q.no /\ (s[i].no = q.no => s[i].role = "customer")
    <3>1. \A i \in DOMAIN s : s[i].no \in Int
      BY <1>5, <1>6, <1>7, <1>8
    <3> QED
      BY <1>1, <1>5, <1>9, <3>1
  <2>2. kind'[p] = "public" => q.from = tab'[p].now.who
    BY <1>2, <1>11, <1>12
  <2> QED
    BY <1>2, <1>4, <1>10, <1>12, <2>1, <2>2 DEF AwaitedOK
<1>14. ASSUME NEW o \in Tab, NEW r \in Chats', r.tab = o PROVE AwaitedOK(r, o)'
  <2>1. CASE r = q
    BY <1>1, <1>13, <1>14, <2>1
  <2>2. CASE r # q
    <3>1. r \in Chats /\ o # p
      BY <1>2, <1>3, <1>14, <2>2
    <3>2. AwaitedOK(r, o) /\ Kept(o)
      BY <1>4, <1>14, <3>1 DEF AwaitedInv
    <3> QED
      BY <1>2, <3>2, KeptAwaited
  <2> QED
    BY <2>1, <2>2
<1>15. ASSUME NEW o \in Tab, NEW r \in Chats', NEW x \in Chats', r.tab = o, x.tab = o
       PROVE  r = x
  BY <1>1, <1>2, <1>3, <1>15 DEF AwaitedInv
<1> QED
  BY <1>14, <1>15 DEF AwaitedInv

LEMMA TakeAwaited ==
  ASSUME ChatTyped, EntriesInv, TurnsInv, AwaitedInv, NEW r \in requests, Take(r)
  PROVE  AwaitedInv'
<1> PICK new : new = Len(turns) + 1
  OBVIOUS
<1>1. Len(turns) \in Nat /\ DOMAIN turns = 1 .. Len(turns) /\ DOMAIN turns' = 1 .. new
  BY TakeTurn
<1>2. /\ DOMAIN turns' = DOMAIN turns \cup {new}
      /\ \A t \in DOMAIN turns : t < new /\ t # new
  BY <1>1
<1>3. /\ \A t \in DOMAIN turns : turns'[t] = turns[t]
      /\ turns'[new].no = r.no /\ r \in Chats /\ r.stage = "sent"
  BY TakeTurn
<1>4. PICK q : /\ Chats' = (Chats \ {r}) \cup {q} /\ q.no = r.no /\ q.from = r.from
               /\ q.tab = r.tab
  BY TakeChats
<1>5. \A t \in DOMAIN turns : turns[t].no # r.no
  BY <1>3 DEF TurnsInv, ChatOK
<1>6. tab' = tab /\ kind' = kind
  BY DEF Take, asked
<1>7. \A p \in Tab : ~Exchanged(Shown(p), r.no)
  BY <1>5 DEF EntriesInv, EntryOK, Shown
<1>8. ASSUME NEW p \in Tab, NEW x, NEW y \in Chats, AwaitedOK(y, p), x.no = y.no, x.from = y.from
      PROVE  AwaitedOK(x, p)'
  <2>1. \A t, u \in DOMAIN turns' :
          turns'[u].no = x.no /\ Exchanged(Shown(p), turns'[t].no) => t < u
    <3> SUFFICES ASSUME NEW t \in DOMAIN turns', NEW u \in DOMAIN turns',
                        turns'[u].no = x.no, Exchanged(Shown(p), turns'[t].no)
                 PROVE  t < u
      OBVIOUS
    <3>1. t \in DOMAIN turns /\ turns'[t] = turns[t]
      BY <1>2, <1>3, <1>7
    <3>2. CASE u = new
      BY <1>2, <3>1, <3>2
    <3>3. CASE u # new
      BY <1>2, <1>3, <1>8, <3>1, <3>3 DEF AwaitedOK
    <3> QED
      BY <3>2, <3>3
  <2>2. Shown(p)' = Shown(p)
    BY <1>6 DEF Shown
  <2> QED
    BY <1>6, <1>8, <2>1, <2>2 DEF AwaitedOK
<1>9. \A x \in Chats' : \E y \in Chats : /\ x.no = y.no /\ x.from = y.from /\ x.tab = y.tab
                                         /\ x = IF y = r THEN q ELSE y
  BY <1>3, <1>4
<1>10. ASSUME NEW p \in Tab, NEW x \in Chats', x.tab = p PROVE AwaitedOK(x, p)'
  <2>1. PICK y \in Chats : x.no = y.no /\ x.from = y.from /\ x.tab = y.tab
    BY <1>9
  <2>2. AwaitedOK(y, p)
    BY <1>10, <2>1 DEF AwaitedInv
  <2> QED
    BY <1>8, <2>1, <2>2
<1>11. ASSUME NEW p \in Tab, NEW x \in Chats', NEW z \in Chats', x.tab = p, z.tab = p
       PROVE  x = z
  BY <1>9, <1>11 DEF AwaitedInv
<1> QED
  BY <1>10, <1>11 DEF AwaitedInv

LEMMA AwaitedNext ==
  ASSUME ChatTyped, EntriesInv, TurnsInv, AwaitedInv, [ChatNext]_chatVars
  PROVE  AwaitedInv'
<1>1. ASSUME NEW p \in Tab, Typed(p), ~tab[p].waiting PROVE AwaitedInv'
  BY <1>1, TypedAwaited
<1>2. ASSUME NEW r \in requests, Take(r) PROVE AwaitedInv'
  BY <1>2, TakeAwaited
<1>3. ASSUME Evolve, turns' = turns PROVE AwaitedInv'
  <2>0. kind' = kind
    BY GrownNext DEF Grown
  <2> DEFINE Good(p) == \/ Kept(p) \/ \A r \in Chats : r.tab # p
                        \/ \A q \in Chats' : q.tab # p
  <2>1. ASSUME NEW p \in Tab, Good(p), NEW phase, NEW e, NEW w, NEW b,
               Becomes(p, phase, e, w, b)
        PROVE  AwaitedInv'
    <3>1. \A o \in Tab : Good(o)
      BY <2>1, OthersKept
    <3> QED
      BY <1>3, <2>0, <3>1, EvolveAwaited
  <2> HIDE DEF Good
  <2>2. ASSUME NEW p \in Tab, Mount(p) PROVE AwaitedInv'
    <3>1. Good(p)
      BY <2>2, MountWrites, NobodyWaits DEF Good
    <3> QED
      BY <2>1, <2>2, <3>1, MountWrites
  <2>3. ASSUME NEW p \in Tab, Render(p) PROVE AwaitedInv'
    <3>1. Good(p)
      BY <2>3, NobodyWaits DEF Good, Render
    <3> QED
      BY <2>1, <2>3, <3>1, RenderWrites
  <2>4. ASSUME NEW p \in Tab, Close(p) PROVE AwaitedInv'
    <3>1. \A q \in Chats' : q.tab # p
      <4> SUFFICES ASSUME NEW q \in Chats', q.tab = p PROVE FALSE
        OBVIOUS
      <4>1. PICK r \in Cancelled(requests, p) :
              q = IF r.tab = p THEN [r EXCEPT !.tab = None] ELSE r
        BY <2>4 DEF Close, Orphaned, Chats
      <4>2. r \in requests /\ r.tab = p
        BY <4>1 DEF Cancelled
      <4>3. r \in ChatRequest \cup StatusRequest
        BY <4>2 DEF ChatTyped
      <4>4. [r EXCEPT !.tab = None].tab = None
        BY <4>3 DEF ChatRequest, StatusRequest
      <4> QED
        BY <4>1, <4>2, <4>4, WebChatAssumption
    <3> QED
      BY <2>1, <2>4, <3>1, CloseWrites DEF Good
  <2>5. ASSUME NEW p \in Tab, Reset(p) PROVE AwaitedInv'
    <3>1. Kept(p)
      <4>1. /\ tab'[p].phase = tab[p].phase /\ tab'[p].waiting = tab[p].waiting
            /\ tab'[p].now = Entry(minted + 1, <<>>, tab[p].now.as)
        BY <2>5, ResetWrites, Became
      <4> QED
        BY <4>1 DEF Kept, Entry
    <3> QED
      BY <2>1, <2>5, <3>1, ResetWrites DEF Good
  <2>6. ASSUME NEW p \in Tab, Talk(p) \/ EditPhone(p) PROVE AwaitedInv'
    <3>1. PICK who, as :
            Becomes(p, tab[p].phase, Entry(who, tab[p].now.shown, as), tab[p].waiting,
                    tab[p].badge)
      BY <2>6, TalkWrites, EditPhoneWrites
    <3> PICK e : e = Entry(who, tab[p].now.shown, as)
      OBVIOUS
    <3>2. /\ tab'[p].phase = tab[p].phase /\ tab'[p].waiting = tab[p].waiting
          /\ tab'[p].now = e /\ e.shown = tab[p].now.shown
      BY <3>1, Became DEF Entry
    <3>3. Kept(p)
      BY <2>6, <3>2 DEF Kept, Talk, EditPhone
    <3> QED
      BY <2>1, <3>1, <3>3 DEF Good
  <2>7. ASSUME NEW r \in requests, LoseConnection(r) \/ Replied(r) \/ Errored(r)
        PROVE  AwaitedInv'
    <3>1. r \in Chats /\ r.tab \in Tab
      <4>1. r.tab # None /\ (r.stage # "sent" \/ r.op = "chat")
        BY <2>7 DEF LoseConnection, Replied, Errored
      <4> QED
        BY <4>1, Fields, ChatFields
    <3>2. \A q \in Chats' : q.tab # r.tab
      <4>1. \A x \in Chats \ {r} : x.tab # r.tab
        BY <3>1 DEF AwaitedInv
      <4>2. CASE LoseConnection(r)
        <5>1. Replace(r, [r EXCEPT !.tab = None])
          BY <4>2 DEF LoseConnection
        <5>2. [r EXCEPT !.tab = None].tab = None
          BY <3>1, ChatFields DEF ChatRequest
        <5> QED
          BY <3>1, <4>1, <5>1, <5>2, WebChatAssumption DEF Replace, Chats
      <4>3. CASE Replied(r) \/ Errored(r)
        BY <4>1, <4>3 DEF Replied, Errored, Chats
      <4> QED
        BY <2>7, <4>2, <4>3
    <3>3. PICK e, w : Becomes(r.tab, tab[r.tab].phase, e, w, tab[r.tab].badge)
      BY <2>7, <3>1, FailedWrites, RepliedWrites DEF LoseConnection, Errored
    <3> QED
      BY <2>1, <3>1, <3>2, <3>3 DEF Good
  <2>8. ASSUME NEW r \in requests, Told(r) PROVE AwaitedInv'
    <3>1. r.tab \in Tab
      BY <2>8, Fields DEF Told
    <3>2. PICK b : Becomes(r.tab, tab[r.tab].phase, tab[r.tab].now, tab[r.tab].waiting, b)
      BY <2>8, <3>1, ToldWrites
    <3>3. Kept(r.tab)
      BY <3>1, <3>2, Became DEF Kept
    <3> QED
      BY <2>1, <3>1, <3>2, <3>3 DEF Good
  <2>9. ASSUME tab' = tab PROVE AwaitedInv'
    <3>1. \A p \in Tab : Kept(p)
      BY <2>9 DEF Kept
    <3> QED
      BY <1>3, <2>0, <3>1, EvolveAwaited
  <2>10. ASSUME \/ SetOptIn \/ Shut \/ UNCHANGED chatVars
                \/ \E r \in requests : Serve(r) \/ Fail(r) \/ Discarded(r)
         PROVE  tab' = tab
    BY <2>10 DEF SetOptIn, Shut, chatVars, Serve, Take, Refuse, Fail, Discarded, asked
  <2> QED
    BY <1>1, <2>2, <2>3, <2>4, <2>5, <2>6, <2>7, <2>8, <2>9, <2>10 DEF ChatNext, Receive, Send
<1> QED
  BY <1>1, <1>2, <1>3, ChatsEvolve

-----------------------------------------------------------------------------
(* Statuses, pages that open, and the one conversation of a browser          *)

LEMMA Disturbing ==
  ASSUME [ChatNext]_chatVars, ~disturbed'
  PROVE  ~disturbed /\ \A p \in Tab : ~Reset(p) /\ ~EditPhone(p)
<1>1. \A p \in Tab : ~Reset(p) /\ ~EditPhone(p)
  BY DEF Reset, EditPhone
<1>2. ASSUME NEW p \in Tab, Mount(p) \/ Close(p) PROVE ~disturbed
  BY <1>2 DEF Mount, Close
<1>3. ASSUME NEW p \in Tab, Render(p) \/ Send(p) \/ Talk(p) PROVE ~disturbed
  BY <1>3 DEF Render, Send, Typed, Talk
<1>4. ASSUME SetOptIn \/ Shut \/ UNCHANGED chatVars PROVE ~disturbed
  BY <1>4 DEF SetOptIn, Shut, chatVars
<1>5. ASSUME NEW r \in requests, Serve(r) \/ Fail(r) \/ LoseConnection(r) \/ Receive(r)
      PROVE  ~disturbed
  BY <1>5 DEF Serve, Take, Refuse, Fail, LoseConnection, Receive, Replied, Errored,
     Told, Discarded, receiving, asked
<1> QED
  BY <1>1, <1>2, <1>3, <1>4, <1>5 DEF ChatNext

\* A step changes nothing of whom pages speak as, or it is one of these.
Speaks(p, q) == /\ tab'[q].phase = tab[q].phase /\ tab'[q].now.who = tab[q].now.who
                /\ \/ storage'[kind[q]].who = storage[kind[q]].who
                   \/ /\ tab[p].phase = "open" /\ kind[p] = kind[q]
                      /\ storage'[kind[q]].who = tab[p].now.who
LEMMA WhoSpeaks ==
  ASSUME ChatTyped, AwaitedInv, [ChatNext]_chatVars
  PROVE  \/ \E p \in Tab : Mount(p) \/ Render(p) \/ Close(p) \/ Reset(p) \/ EditPhone(p)
         \/ \A q \in Tab : \E p \in Tab : Speaks(p, q)
<1>1. ASSUME NEW p \in Tab, tab[p].phase = "open", NEW e, NEW w, NEW b,
             Becomes(p, "open", e, w, b), e.who = tab[p].now.who,
             storage' = storage \/ Writes(p, e)
      PROVE  \A q \in Tab : Speaks(p, q)
  <2> SUFFICES ASSUME NEW q \in Tab PROVE Speaks(p, q)
    OBVIOUS
  <2>1. tab'[q].phase = tab[q].phase /\ tab'[q].now.who = tab[q].now.who
    BY <1>1, Became
  <2>2. \/ storage'[kind[q]].who = storage[kind[q]].who
        \/ kind[p] = kind[q] /\ storage'[kind[q]].who = tab[p].now.who
    <3>1. CASE storage' = storage
      BY <3>1
    <3>2. CASE Writes(p, e)
      BY <1>1, <3>2, TabFields DEF Writes, ChatTyped, PagesTyped
    <3> QED
      BY <1>1, <3>1, <3>2
  <2> QED
    BY <1>1, <2>1, <2>2 DEF Speaks
<1>2. ASSUME NEW p \in Tab, Send(p) PROVE \A q \in Tab : Speaks(p, q)
  <2>1. PICK s, as : /\ Becomes(p, "open", Entry(tab[p].now.who, s, as), TRUE, tab[p].badge)
                     /\ Writes(p, Entry(tab[p].now.who, s, as)) /\ tab[p].phase = "open"
    BY <1>2, TypedWrites DEF Send
  <2> QED
    BY <1>1, <2>1 DEF Entry
<1>3. ASSUME NEW p \in Tab, Talk(p) PROVE \A q \in Tab : Speaks(p, q)
  <2>1. PICK s, as : /\ Becomes(p, tab[p].phase, Entry(tab[p].now.who, s, as),
                                tab[p].waiting, tab[p].badge)
                     /\ Writes(p, Entry(tab[p].now.who, s, as))
    BY <1>3, TalkWrites
  <2>2. tab[p].phase = "open"
    BY <1>3 DEF Talk
  <2> QED
    BY <1>1, <2>1, <2>2 DEF Entry
<1>4. ASSUME NEW r \in requests, Replied(r) PROVE \A q \in Tab : Speaks(r.tab, q)
  <2>1. r \in Chats /\ r.tab \in Tab
    BY <1>4, Fields, ChatFields DEF Replied
  <2>2. PICK s, as : /\ Becomes(r.tab, tab[r.tab].phase, Entry(tab[r.tab].now.who, s, as),
                                FALSE, tab[r.tab].badge)
                     /\ Writes(r.tab, Entry(tab[r.tab].now.who, s, as))
    BY <1>4, <2>1, RepliedWrites
  <2>3. tab[r.tab].phase = "open"
    BY <2>1 DEF AwaitedInv, AwaitedOK
  <2> QED
    BY <1>1, <2>1, <2>2, <2>3 DEF Entry
<1>5. ASSUME NEW p \in Tab, NEW phase, NEW w, NEW b, phase = tab[p].phase,
             Becomes(p, phase, tab[p].now, w, b), storage' = storage
      PROVE  \A q \in Tab : Speaks(q, q)
  BY <1>5, Became DEF Speaks
<1>6. ASSUME NEW r \in requests, LoseConnection(r) \/ Errored(r)
      PROVE  \A q \in Tab : Speaks(q, q)
  <2>1. r.tab \in Tab /\ Failed(r) /\ storage' = storage
    BY <1>6, Fields, ChatFields DEF LoseConnection, Errored
  <2> QED
    BY <1>5, <2>1, FailedWrites
<1>7. ASSUME NEW r \in requests, Told(r) PROVE \A q \in Tab : Speaks(q, q)
  <2>1. r.tab \in Tab /\ storage' = storage
    BY <1>7, Fields DEF Told
  <2> QED
    BY <1>5, <1>7, <2>1, ToldWrites
<1>8. ASSUME \/ SetOptIn \/ Shut \/ UNCHANGED chatVars
             \/ \E r \in requests : Serve(r) \/ Fail(r) \/ Discarded(r)
      PROVE  \A q \in Tab : Speaks(q, q)
  BY <1>8 DEF SetOptIn, Shut, chatVars, Serve, Take, Refuse, Fail, Discarded, asked, Speaks
<1>9. \A r \in requests : Replied(r) => r.tab \in Tab
  BY Fields, ChatFields DEF Replied
<1> QED
  BY <1>2, <1>3, <1>4, <1>6, <1>7, <1>8, <1>9 DEF ChatNext, Receive

LEMMA StatusNext ==
  ASSUME ChatTyped, AwaitedInv, StatusInv, [ChatNext]_chatVars
  PROVE  StatusInv'
<1>0. kind' = kind
  BY GrownNext DEF Grown
<1> SUFFICES ASSUME NEW q \in requests', q.op = "status"
             PROVE  /\ tab'[q.tab].phase = "open" /\ kind[q.tab] = "public"
                    /\ q.who = tab'[q.tab].now.who
  BY <1>0 DEF StatusInv
<1>1. ASSUME NEW p \in Tab, Render(p) \/ Reset(p), q = StatusOf(p, tab'[p].now.who),
             kind[p] = "public"
      PROVE  /\ tab'[q.tab].phase = "open" /\ kind[q.tab] = "public"
             /\ q.who = tab'[q.tab].now.who
  <2>1. tab'[p].phase = "open"
    <3>1. CASE Render(p)
      BY <3>1, RenderWrites, Became
    <3>2. CASE Reset(p)
      <4>1. tab'[p].phase = tab[p].phase
        BY <3>2, ResetWrites, Became
      <4> QED
        BY <3>2, <4>1 DEF Reset
    <3> QED
      BY <1>1, <3>1, <3>2
  <2> QED
    BY <1>1, <2>1 DEF StatusOf
<1>2. ASSUME q \in requests, \A p \in Tab : Close(p) \/ Render(p) \/ Reset(p) => q.tab # p
      PROVE  /\ tab'[q.tab].phase = "open" /\ kind[q.tab] = "public"
             /\ q.who = tab'[q.tab].now.who
  <2> PICK p \in Tab : p = q.tab
    BY <1>2, Fields
  <2>1. tab[p].phase = "open" /\ kind[p] = "public" /\ q.who = tab[p].now.who
    BY <1>2 DEF StatusInv
  <2>2. ASSUME NEW o \in Tab, Mount(o) \/ Render(o) \/ Close(o) \/ Reset(o) \/ EditPhone(o)
        PROVE  tab'[p] = tab[p]
    <3>1. o # p
      BY <1>2, <2>1, <2>2 DEF Mount, EditPhone
    <3>2. PICK phase, e, w, b : Becomes(o, phase, e, w, b)
      BY <2>2, MountWrites, RenderWrites, CloseWrites, ResetWrites, EditPhoneWrites
    <3> QED
      BY <3>1, <3>2, Became
  <2>3. tab'[p].phase = tab[p].phase /\ tab'[p].now.who = tab[p].now.who
    BY <2>2, WhoSpeaks DEF Speaks
  <2> QED
    BY <2>1, <2>3
<1> QED
  BY <1>1, <1>2, StatusOrigin

LEMMA OpeningNext ==
  ASSUME ChatTyped, AwaitedInv, OpeningInv, [ChatNext]_chatVars
  PROVE  OpeningInv'
<1>0. kind' = kind
  BY GrownNext DEF Grown
<1> SUFFICES ASSUME ~disturbed', NEW p \in Tab, NEW q \in Tab, tab'[p].phase = "opening",
                    tab'[q].phase = "opening", kind[p] = kind[q]
             PROVE  p = q
  BY <1>0 DEF OpeningInv
<1>1. ~disturbed /\ \A o \in Tab : ~Reset(o) /\ ~EditPhone(o)
  BY Disturbing
<1>2. ASSUME NEW o \in Tab, Mount(o) PROVE p = q
  <2>1. \A x \in Tab \ {o} : kind[x] = kind[o] => tab[x].phase # "opening"
    BY <1>2 DEF Mount
  <2>2. \A x \in Tab \ {o} : tab'[x] = tab[x]
    BY <1>2, MountWrites, Became
  <2> QED
    BY <1>1, <2>1, <2>2 DEF OpeningInv
<1>3. ASSUME NEW o \in Tab, Render(o) \/ Close(o) PROVE p = q
  <2>1. tab'[o].phase \in {"open", "closed"} /\ \A x \in Tab \ {o} : tab'[x] = tab[x]
    <3>1. CASE Render(o)
      BY <3>1, RenderWrites, Became
    <3>2. CASE Close(o)
      BY <3>2, CloseWrites, Became
    <3> QED
      BY <1>3, <3>1, <3>2
  <2> QED
    BY <1>1, <2>1 DEF OpeningInv
<1>4. ASSUME \A x \in Tab : tab'[x].phase = tab[x].phase PROVE p = q
  BY <1>1, <1>4 DEF OpeningInv
<1> QED
  BY <1>1, <1>2, <1>3, <1>4, WhoSpeaks DEF Speaks

LEMMA ConversationNext ==
  ASSUME ChatTyped, EntriesInv, AwaitedInv, OpeningInv, OneConversation,
         [ChatNext]_chatVars
  PROVE  OneConversation'
<1>0. kind' = kind
  BY GrownNext DEF Grown
<1> SUFFICES ASSUME ~disturbed', NEW p \in Tab, tab'[p].phase = "open"
             PROVE  /\ \A q \in Tab : tab'[q].phase # "closed" /\ kind[q] = kind[p]
                                        => tab'[q].now.who = tab'[p].now.who
                    /\ \/ storage'[kind[p]].who = tab'[p].now.who
                       \/ \E q \in Tab : tab'[q].phase = "opening" /\ kind[q] = kind[p]
  BY <1>0 DEF OneConversation
<1>1. ~disturbed /\ \A o \in Tab : ~Reset(o) /\ ~EditPhone(o)
  BY Disturbing
<1>2. ASSUME NEW x \in Tab, tab[x].phase = "open"
      PROVE  /\ \A q \in Tab : tab[q].phase # "closed" /\ kind[q] = kind[x]
                                 => tab[q].now.who = tab[x].now.who
             /\ \/ storage[kind[x]].who = tab[x].now.who
                \/ \E q \in Tab : tab[q].phase = "opening" /\ kind[q] = kind[x]
  BY <1>1, <1>2 DEF OneConversation
<1>3. \A q \in Tab : kind[q] \in Kind
  BY TabFields
<1>4. ASSUME NEW o \in Tab, Mount(o)
      PROVE  /\ \A q \in Tab : tab'[q].phase # "closed" /\ kind[q] = kind[p]
                                 => tab'[q].now.who = tab'[p].now.who
             /\ \/ storage'[kind[p]].who = tab'[p].now.who
                \/ \E q \in Tab : tab'[q].phase = "opening" /\ kind[q] = kind[p]
  <2>1. /\ tab'[o].phase = "opening" /\ tab'[o].now = storage[kind[o]]
        /\ \A q \in Tab \ {o} : tab'[q] = tab[q]
    <3> PICK e, w : e = storage[kind[o]] /\ w = FALSE
      OBVIOUS
    <3>1. Becomes(o, "opening", e, w, NoBadge)
      BY <1>4, MountWrites
    <3> QED
      BY <3>1, Became
  <2>2. p # o /\ tab[p].phase = "open" /\ tab'[p].now = tab[p].now
    BY <2>1
  <2>3. CASE kind[o] = kind[p]
    <3>1. \A q \in Tab \ {o} : kind[q] = kind[p] => tab[q].phase # "opening"
      BY <1>4, <2>3 DEF Mount
    <3>2. tab[o].phase = "closed"
      BY <1>4 DEF Mount
    <3>3. storage[kind[p]].who = tab[p].now.who
      BY <1>2, <2>2, <3>1, <3>2
    <3> QED
      BY <1>2, <2>1, <2>2, <2>3, <3>3
  <2>4. CASE kind[o] # kind[p]
    <3>1. storage'[kind[p]] = storage[kind[p]]
      BY <1>3, <1>4, <2>4, MountWrites DEF Writes, ChatTyped, PagesTyped
    <3>2. tab[o].phase = "closed"
      BY <1>4 DEF Mount
    <3> QED
      BY <1>2, <2>1, <2>2, <2>4, <3>1, <3>2
  <2> QED
    BY <2>3, <2>4
<1>5. ASSUME NEW o \in Tab, Close(o)
      PROVE  /\ \A q \in Tab : tab'[q].phase # "closed" /\ kind[q] = kind[p]
                                 => tab'[q].now.who = tab'[p].now.who
             /\ \/ storage'[kind[p]].who = tab'[p].now.who
                \/ \E q \in Tab : tab'[q].phase = "opening" /\ kind[q] = kind[p]
  <2>1. /\ tab'[o].phase = "closed" /\ storage' = storage
        /\ \A q \in Tab \ {o} : tab'[q] = tab[q]
    BY <1>5, CloseWrites, Became
  <2>2. p # o /\ tab[p].phase = "open" /\ tab'[p].now = tab[p].now
    BY <2>1
  <2>3. tab[o].phase # "opening"
    BY <1>5 DEF Close
  <2> QED
    BY <1>2, <2>1, <2>2, <2>3
<1>6. ASSUME NEW o \in Tab, Render(o)
      PROVE  /\ \A q \in Tab : tab'[q].phase # "closed" /\ kind[q] = kind[p]
                                 => tab'[q].now.who = tab'[p].now.who
             /\ \/ storage'[kind[p]].who = tab'[p].now.who
                \/ \E q \in Tab : tab'[q].phase = "opening" /\ kind[q] = kind[p]
  <2> PICK e : e = Loaded(tab[o].now)
    OBVIOUS
  <2>1. /\ tab'[o].phase = "open" /\ tab'[o].now = e
        /\ \A q \in Tab \ {o} : tab'[q] = tab[q]
    BY <1>6, RenderWrites, Became
  <2>2. storage'[kind[o]] = e /\ tab[o].phase = "opening"
    BY <1>3, <1>6, RenderWrites DEF Writes, ChatTyped, PagesTyped
  <2>3. tab[o].now.who # Nobody => e.who = tab[o].now.who
    <3>1. e = Entry(IF tab[o].now.who = Nobody THEN minted + 1 ELSE tab[o].now.who,
                    tab[o].now.shown, tab[o].now.as)
      BY <1>6, RenderWrites
    <3> QED
      BY <3>1 DEF Entry
  <2>4. \A q \in Tab : kind[q] = kind[o] /\ q # o => tab[q].phase # "opening"
    BY <1>1, <2>2 DEF OpeningInv
  <2>5. \A q \in Tab : kind[q] = kind[o] /\ q # o /\ tab[q].phase = "open"
                         => tab[q].now.who = e.who
    <3> SUFFICES ASSUME NEW q \in Tab, kind[q] = kind[o], q # o, tab[q].phase = "open"
                 PROVE  tab[q].now.who = e.who
      OBVIOUS
    <3>1. tab[o].now.who = tab[q].now.who
      BY <1>2, <2>2
    <3>2. tab[q].now.who # Nobody
      BY DEF ChatTyped, PagesTyped
    <3> QED
      BY <2>3, <3>1, <3>2
  <2>6. \A q \in Tab : tab[q].phase \in {"closed", "opening", "open"}
    BY TabFields
  <2>7. CASE kind[p] = kind[o]
    <3>1. tab'[p].now.who = e.who
      BY <2>1, <2>5, <2>7
    <3>2. \A q \in Tab : tab'[q].phase # "closed" /\ kind[q] = kind[p]
                           => tab'[q].now.who = e.who
      BY <2>1, <2>4, <2>5, <2>6, <2>7
    <3> QED
      BY <2>2, <2>7, <3>1, <3>2
  <2>8. CASE kind[p] # kind[o]
    <3>1. storage'[kind[p]] = storage[kind[p]]
      BY <1>3, <1>6, <2>8, RenderWrites DEF Writes, ChatTyped, PagesTyped
    <3>2. p # o /\ tab[p].phase = "open" /\ tab'[p].now = tab[p].now
      BY <2>1, <2>8
    <3> QED
      BY <1>2, <2>1, <2>8, <3>1, <3>2
  <2> QED
    BY <2>7, <2>8
<1>7. ASSUME \A q \in Tab : \E o \in Tab : Speaks(o, q)
      PROVE  /\ \A q \in Tab : tab'[q].phase # "closed" /\ kind[q] = kind[p]
                                 => tab'[q].now.who = tab'[p].now.who
             /\ \/ storage'[kind[p]].who = tab'[p].now.who
                \/ \E q \in Tab : tab'[q].phase = "opening" /\ kind[q] = kind[p]
  <2>1. \A q \in Tab : tab'[q].phase = tab[q].phase /\ tab'[q].now.who = tab[q].now.who
    BY <1>7 DEF Speaks
  <2>2. \/ storage'[kind[p]].who = storage[kind[p]].who
        \/ storage'[kind[p]].who = tab[p].now.who
    <3>1. PICK o \in Tab : Speaks(o, p)
      BY <1>7
    <3>2. tab[p].phase = "open"
      BY <2>1
    <3> QED
      BY <1>2, <3>1, <3>2 DEF Speaks
  <2> QED
    BY <1>2, <2>1, <2>2
<1> QED
  BY <1>1, <1>4, <1>5, <1>6, <1>7, WhoSpeaks

LEMMA ChatInvNext == ASSUME ChatInv, [ChatNext]_chatVars PROVE ChatInv'
<1> USE DEF ChatInv
<1>1. ChatTyped'
  BY ChatTypedNext
<1>2. EntriesInv' /\ TurnsInv'
  BY PagesNext, TurnsNext
<1>3. AwaitedInv' /\ StatusInv'
  BY AwaitedNext, StatusNext
<1>4. OpeningInv' /\ OneConversation'
  BY OpeningNext, ConversationNext
<1> QED
  BY <1>1, <1>2, <1>3, <1>4

LEMMA ChatInvInit == ChatInit => ChatInv
<1> SUFFICES ASSUME ChatInit PROVE ChatInv
  OBVIOUS
<1>1. tab = [p \in Tab |-> Closed] /\ storage = [k \in Kind |-> BlankEntry]
  BY DEF ChatInit
<1>2. requests = {} /\ turns = <<>> /\ disturbed = FALSE /\ open = TRUE /\ optedIn = {}
      /\ eventsLeft = MaxEvents /\ minted = 0 /\ sent = 0
  BY DEF ChatInit
<1>3. BlankEntry \in Entries
  BY <1>2 DEF BlankEntry, Entries, Nobody
<1>4. /\ Closed \in TabState /\ Closed.phase = "closed" /\ Closed.now = BlankEntry
  BY <1>3 DEF Closed, TabState, NoBadge, Nobody
<1>5. PagesTyped
  BY <1>1, <1>3, <1>4 DEF PagesTyped
<1>6. ChatTyped
  <2>1. kind \in [Tab -> Kind]
    BY WebChatAssumption DEF ChatInit
  <2>2. turns \in Seq(TurnTaken) /\ eventsLeft \in 0 .. MaxEvents
    BY <1>2, WebChatAssumption
  <2> QED
    BY <1>2, <1>5, <2>1, <2>2 DEF ChatTyped
<1>7. \A k : EntryOK(k, BlankEntry)
  <2>1. /\ BlankEntry.who = Nobody /\ BlankEntry.shown = <<>> /\ BlankEntry.as = "customer"
    BY DEF BlankEntry
  <2> QED
    BY <2>1, NothingExchanged DEF EntryOK
<1>8. EntriesInv
  BY <1>1, <1>4, <1>7 DEF EntriesInv
<1>9. Chats = {} /\ DOMAIN turns = {}
  BY <1>2 DEF Chats
<1>10. TurnsInv /\ AwaitedInv /\ StatusInv
  BY <1>2, <1>9 DEF TurnsInv, AwaitedInv, StatusInv
<1>11. OpeningInv /\ OneConversation
  BY <1>1, <1>4 DEF OpeningInv, OneConversation
<1> QED
  BY <1>6, <1>8, <1>10, <1>11 DEF ChatInv

\* The invariant holds throughout.
THEOREM ChatInvariant == ChatSpec => []ChatInv
<1>1. ASSUME ChatInv, [ChatNext]_chatVars PROVE ChatInv'
  BY <1>1, ChatInvNext
<1> QED
  BY <1>1, ChatInvInit, PTL DEF ChatSpec

LEMMA ChatTypeImplied == ChatInv => ChatTypeOK
<1> SUFFICES ASSUME ChatInv PROVE ChatTypeOK
  OBVIOUS
<1>0. ChatTyped
  BY DEF ChatInv
<1>1. ASSUME NEW p \in Tab
      PROVE  /\ tab[p].phase \in {"closed", "opening", "open"}
             /\ tab[p].now \in Entries
             /\ tab[p].phase = "open" => tab[p].now.who # Nobody
             /\ tab[p].waiting \in BOOLEAN
  BY <1>0, TabFields DEF ChatTyped, PagesTyped
<1>2. \A k \in Kind : storage[k] \in Entries
  BY <1>0 DEF ChatTyped, PagesTyped
<1>3. ASSUME NEW r \in requests
      PROVE  /\ r.op = "chat" => r.from \in {Owner} \cup 1 .. minted
             /\ r.op = "status" => r.tab \in Tab
  BY <1>0, Fields DEF ChatRequest
<1> QED
  BY <1>0, <1>1, <1>2, <1>3 DEF ChatTypeOK, ChatTyped

LEMMA AnsweredExchanged ==
  ASSUME NEW p \in Tab, NEW n \in Answered(p)
  PROVE  Exchanged(tab[p].now.shown, n) /\ n \in 1 .. sent
  BY DEF Answered, Exchanged, Shown

LEMMA TurnChosen ==
  ASSUME TurnsInv, NEW t \in DOMAIN turns
  PROVE  Turn(turns[t].no) = t
<1> PICK n : n = turns[t].no
  OBVIOUS
<1>1. \A u \in DOMAIN turns : turns[u].no = n => u = t
  BY DEF TurnsInv
<1> QED
  BY <1>1 DEF Turn

LEMMA Remembered ==
  ASSUME ChatInv PROVE ShownIsRemembered /\ AnsweredInOrder
<1> USE DEF ChatInv
<1>1. ASSUME NEW p \in Tab, NEW n \in Answered(p)
      PROVE  \E t \in DOMAIN turns : turns[t].no = n /\ Turn(n) = t
  <2>1. PICK t \in DOMAIN turns : turns[t].no = n
    BY AnsweredExchanged DEF EntriesInv, EntryOK
  <2> QED
    BY <2>1, TurnChosen
<1>2. ASSUME NEW p \in Tab, kind[p] = "public", NEW n \in Answered(p)
      PROVE  /\ \E t \in DOMAIN turns : turns[t].no = n
             /\ turns[Turn(n)].from = tab[p].now.who
  <2>1. PICK t \in DOMAIN turns : turns[t].no = n /\ Turn(n) = t
    BY <1>1
  <2>2. turns[t].from = tab[p].now.who
    BY <1>2, <2>1, AnsweredExchanged DEF EntriesInv, EntryOK
  <2> QED
    BY <2>1, <2>2
<1>3. ASSUME NEW p \in Tab, NEW m \in Answered(p), NEW n \in Answered(p), m < n
      PROVE  Turn(m) < Turn(n)
  <2>1. PICK t \in DOMAIN turns : turns[t].no = m /\ Turn(m) = t
    BY <1>1
  <2>2. PICK u \in DOMAIN turns : turns[u].no = n /\ Turn(n) = u
    BY <1>1
  <2>3. Exchanged(tab[p].now.shown, m) /\ Exchanged(tab[p].now.shown, n)
    BY AnsweredExchanged
  <2>4. t < u
    BY <1>3, <2>1, <2>2, <2>3 DEF EntriesInv, EntryOK
  <2> QED
    BY <2>1, <2>2, <2>4
<1> QED
  BY <1>2, <1>3 DEF ShownIsRemembered, AnsweredInOrder

\* The pages, the stored conversation and the agent's memory tell one story.
THEOREM ChatsTellOneStory == ChatSpec => []ConversationInv
<1>1. ChatInv => ConversationInv
  BY ChatTypeImplied, Remembered DEF ConversationInv, ChatInv
<1> QED
  BY <1>1, ChatInvariant, PTL

\* Only public pages that are open have a badge.
BadgeInv ==
    \A p \in Tab : tab[p].badge # NoBadge => tab[p].phase = "open" /\ kind[p] = "public"

\* A badge is set only to what the page asked for its customer.
LEMMA BadgeSet ==
  ASSUME ChatInv, [ChatNext]_chatVars, NEW p \in Tab, tab'[p].badge # tab[p].badge,
         tab'[p].badge # NoBadge
  PROVE  /\ tab'[p].badge.who = tab'[p].now.who
         /\ tab'[p].phase = "open" /\ kind[p] = "public"
<1> USE DEF ChatInv
<1>1. ASSUME NEW o \in Tab, NEW phase, NEW e, NEW w, NEW b, Becomes(o, phase, e, w, b),
             b = NoBadge \/ b = tab[o].badge
      PROVE  FALSE
  BY <1>1, Became
<1>2. ASSUME NEW o \in Tab,
             Mount(o) \/ Render(o) \/ Close(o) \/ Send(o) \/ Reset(o) \/ Talk(o) \/ EditPhone(o)
      PROVE  FALSE
  BY <1>1, <1>2, MountWrites, RenderWrites, CloseWrites, TypedWrites, ResetWrites,
     TalkWrites, EditPhoneWrites DEF Send
<1>3. ASSUME NEW r \in requests, LoseConnection(r) \/ Replied(r) \/ Errored(r) PROVE FALSE
  <2>1. r.tab \in Tab
    BY <1>3, Fields, ChatFields DEF LoseConnection, Replied, Errored
  <2> QED
    BY <1>1, <1>3, <2>1, FailedWrites, RepliedWrites DEF LoseConnection, Errored
<1>4. ASSUME NEW r \in requests, Told(r)
      PROVE  /\ tab'[p].badge.who = tab'[p].now.who
             /\ tab'[p].phase = "open" /\ kind[p] = "public"
  <2>1. r.tab \in Tab /\ r.op = "status"
    BY <1>4, Fields DEF Told
  <2> PICK b : b = [who |-> r.who, known |-> r.who \in optedIn]
    OBVIOUS
  <2>2. Becomes(r.tab, tab[r.tab].phase, tab[r.tab].now, tab[r.tab].waiting, b)
    BY <1>4, <2>1, ToldWrites
  <2>3. /\ p = r.tab /\ tab'[p].badge = b
        /\ tab'[p].now = tab[p].now /\ tab'[p].phase = tab[p].phase
    BY <2>1, <2>2, Became
  <2>4. r.who = tab[p].now.who /\ tab[p].phase = "open" /\ kind[p] = "public"
    BY <2>1, <2>3 DEF StatusInv
  <2> QED
    BY <2>3, <2>4
<1>5. ASSUME \/ SetOptIn \/ Shut \/ UNCHANGED chatVars
             \/ \E r \in requests : Serve(r) \/ Fail(r) \/ Discarded(r)
      PROVE  FALSE
  BY <1>5 DEF SetOptIn, Shut, chatVars, Serve, Take, Refuse, Fail, Discarded, asked
<1> QED
  BY <1>2, <1>3, <1>4, <1>5 DEF ChatNext, Receive

\* A badge that stays is about the same customer as before, unless its page starts
\* a new conversation.
LEMMA BadgeKept ==
  ASSUME ChatInv, BadgeInv, [ChatNext]_chatVars, NEW p \in Tab,
         tab'[p].badge = tab[p].badge, tab[p].badge # NoBadge
  PROVE  /\ tab'[p].phase = "open" /\ kind[p] = "public"
         /\ Reset(p) \/ tab'[p].now.who = tab[p].now.who
<1> USE DEF ChatInv
<1>1. tab[p].phase = "open" /\ kind[p] = "public"
  BY DEF BadgeInv
<1>2. ASSUME NEW o \in Tab, o # p,
             Mount(o) \/ Render(o) \/ Close(o) \/ Reset(o) \/ EditPhone(o)
      PROVE  tab'[p] = tab[p]
  <2>1. PICK phase, e, w, b : Becomes(o, phase, e, w, b)
    BY <1>2, MountWrites, RenderWrites, CloseWrites, ResetWrites, EditPhoneWrites
  <2> QED
    BY <1>2, <2>1, Became
<1>3. ~Mount(p) /\ ~Render(p) /\ ~EditPhone(p)
  BY <1>1 DEF Mount, Render, EditPhone
<1>4. ASSUME Close(p) PROVE FALSE
  <2>1. PICK phase, e, w, b : b = NoBadge /\ Becomes(p, phase, e, w, b)
    BY <1>4, CloseWrites
  <2>2. tab'[p].badge = b
    BY <2>1, Became
  <2> QED
    BY <2>1, <2>2
<1>5. Reset(p) => tab'[p].phase = tab[p].phase
  BY ResetWrites, Became
<1>6. \/ \E o \in Tab : Mount(o) \/ Render(o) \/ Close(o) \/ Reset(o) \/ EditPhone(o)
      \/ tab'[p].phase = tab[p].phase /\ tab'[p].now.who = tab[p].now.who
  BY WhoSpeaks DEF Speaks
<1> QED
  BY <1>1, <1>2, <1>3, <1>4, <1>5, <1>6

\* A page's badge is about the customer that it speaks as, or left over from before
\* the page's own new conversation, however late the answers come.
THEOREM BadgesOfTheCustomer == ChatSpec => BadgeOfCustomer
<1>1. ChatInit => BadgeInv
  BY DEF ChatInit, Closed, BadgeInv
<1>2. ASSUME ChatInv, BadgeInv, [ChatNext]_chatVars
      PROVE  BadgeInv'
  <2>1. kind' = kind
    BY <1>2, GrownNext DEF ChatInv, Grown
  <2>2. ASSUME NEW p \in Tab, tab'[p].badge # NoBadge
        PROVE  tab'[p].phase = "open" /\ kind[p] = "public"
    BY <1>2, <2>2, BadgeSet, BadgeKept
  <2> QED
    BY <2>1, <2>2 DEF BadgeInv
<1>3. ASSUME ChatInv, BadgeInv, [ChatNext]_chatVars
      PROVE  [\A p \in Tab : Leftover(p)' =>
                Reset(p) \/ (Leftover(p) /\ tab'[p].badge = tab[p].badge)]_chatVars
  <2>1. ASSUME NEW p \in Tab, Leftover(p)', ~Reset(p)
        PROVE  Leftover(p) /\ tab'[p].badge = tab[p].badge
    <3>1. tab'[p].badge # NoBadge /\ tab'[p].badge.who # tab'[p].now.who
      BY <2>1 DEF Leftover, NoBadge
    <3>2. tab'[p].badge = tab[p].badge
      BY <1>3, <3>1, BadgeSet
    <3>3. tab'[p].now.who = tab[p].now.who
      BY <1>3, <2>1, <3>1, <3>2, BadgeKept
    <3> QED
      BY <3>1, <3>2, <3>3 DEF Leftover
  <2> QED
    BY <2>1
<1> QED
  BY <1>1, <1>2, <1>3, ChatInvariant, PTL DEF ChatSpec, BadgeOfCustomer
=============================================================================
