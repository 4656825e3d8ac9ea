----------------------------- MODULE MCHarness -----------------------------
(* Small instances of Harness for TLC. *)
EXTENDS Harness

\* "refund" is high-risk by default, "lookup" low, "book" medium with an
\* owner policy, "add" medium without one, "bulk" switched off by a blueprint
\* override; "jobs" and "apply" are dynamic tools; "ghost" is not known.
MCBuiltIn == {"lookup", "add", "book", "refund", "bulk"}
MCTool == {"jobs", "apply"}
MCCap == MCBuiltIn \cup MCTool \cup {"ghost"}
MCDefaultRisk == [c \in MCBuiltIn |-> CASE c = "lookup" -> "low"
                                        [] c = "refund" -> "high"
                                        [] OTHER -> "medium"]
MCOverride == [c \in MCBuiltIn |-> IF c = "bulk" THEN "deny" ELSE "none"]
MCToolRisk == [t \in MCTool |-> IF t = "apply" THEN "high" ELSE "low"]
MCRequiresApproval == {"book"}
MCVerifiable == {"lookup"}

Read(c)  == [cap |-> c, side_effect |-> FALSE, memory_claim |-> FALSE]
Claim(c) == [cap |-> c, side_effect |-> FALSE, memory_claim |-> TRUE]
Write(c) == [cap |-> c, side_effect |-> TRUE, memory_claim |-> FALSE]
Says(tags, calls) == [tags |-> tags, calls |-> calls]

\* One response for each way an iteration can go.
MCResponse == {
    Says({}, <<>>),
    Says({"thinking"}, <<>>),
    Says({"say", "final"}, <<>>),
    Says({"ask", "recall"}, <<>>),
    Says({"say", "final"}, <<Read("lookup")>>),
    Says({"say"}, <<Claim("lookup")>>),
    Says({}, <<Read("lookup"), Read("jobs"), Write("add")>>),
    Says({}, <<Write("add"), Read("lookup"), Write("jobs")>>),
    Says({"remember"}, <<Write("add"), Write("refund")>>),
    Says({"say"}, <<Read("ghost"), Read("bulk")>>),
    Says({}, <<Read("lookup"), Read("book")>>),
    Says({"escalate"}, <<Read("apply")>>),
    Says({"request_approval"}, <<Read("lookup")>>),
    Says({"swarm"}, <<>>) }

CapsOf(iterations, cost, perIteration, total, stale) ==
    [max_iterations |-> iterations, max_cost_paise |-> cost,
     max_actions_per_iteration |-> perIteration, max_total_actions |-> total,
     max_no_progress_iterations |-> stale]

\* A blueprint that switches the loop off, one whose cost cap bites, one whose
\* action caps bite, and one with room where the breaker bites.
MCCaps == { CapsOf(0, 4, 2, 3, 1), CapsOf(3, 2, 3, 6, 2),
            CapsOf(2, 9, 2, 3, 2), CapsOf(3, 9, 3, 6, 1) }
=============================================================================
