---------------------------- MODULE MCWorkflow ----------------------------
(* Workflows of three steps: every shape in which a step may depend on     *)
(* earlier ones or on a later one, with the actions and policies that      *)
(* differ in control.                                                      *)
EXTENDS Workflow

Step(a, b, n) == [action |-> a, behavior |-> b, retries |-> n]

Shapes ==
  { <<{}, {1}, {2}>>, <<{}, {}, {1, 2}>>, <<{}, {1}, {1}>>, <<{3}, {}, {2}>>, <<{}, {}, {}>> }

Chains ==
  { <<Step("arena", "retry", 1), Step("select", "stop", 0), Step("continuous_training", "retry", 1)>>,
    <<Step("arena", "continue", 0), Step("arena", "retry", 2), Step("continuous_training", "stop", 0)>>,
    <<Step("continuous_training", "retry", 1), Step("stop", "stop", 0), Step("experiment", "continue", 0)>>,
    <<Step("stop", "stop", 0), Step("arena", "stop", 0), Step("select", "continue", 0)>> }

PlanOf(deps, steps, broken) ==
  [ deps |-> deps,
    action |-> [s \in Steps |-> steps[s].action],
    behavior |-> [s \in Steps |-> steps[s].behavior],
    retries |-> [s \in Steps |-> steps[s].retries],
    broken |-> broken ]

MCPlans ==
  { PlanOf(deps, steps, {}) : deps \in Shapes, steps \in Chains }
    \cup { PlanOf(<<{}, {1}, {1}>>, steps, {3}) : steps \in Chains }
=============================================================================
