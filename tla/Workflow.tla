------------------------------ MODULE Workflow ------------------------------
(***************************************************************************)
(* The durable workflow of Orchestrator V2 (WorkflowRunner): a graph of    *)
(* steps run one after the other, whose statuses, attempts and outputs     *)
(* live in state.json.  A coordinator takes the workflow lock, goes        *)
(* through the steps in the order of the specification until nothing is    *)
(* left, and writes the state before and after every action.               *)
(*                                                                         *)
(* The lock admits one coordinator, so there is one, which may be "down".  *)
(* What it holds in memory is on disk wherever it may die: a write that    *)
(* fails outside the handler's try ends run() and is a Crash here.  An     *)
(* output is abstracted to the attempt that produced it.  Actions are      *)
(* external: they return, or raise what their own supervisors and checks   *)
(* make them raise (Supervisor.tla, GenerationCommit.tla).                 *)
(***************************************************************************)
EXTENDS Naturals, FiniteSets

CONSTANTS
  N,         \* number of steps
  Plans,     \* workflow specifications that may be run
  MaxFaults  \* bound: crashes, interrupts, and writes that fail

Steps == 1..N
Actions == {"arena", "calibration", "adaptation_phase", "continuous_training",
            "experiment", "select", "stop"}

\* deps, action, behavior and retries of each step, and the steps with a
\* reference that names no field of the output.
Plan == [deps : [Steps -> SUBSET Steps],
         action : [Steps -> Actions],
         behavior : [Steps -> {"stop", "retry", "continue"}],
         retries : [Steps -> Nat],
         broken : SUBSET Steps]

\* WorkflowSpec refuses cycles: some order has every dependency first.
Acyclic(deps) ==
  \E rank \in [Steps -> Steps] : \A s \in Steps : \A d \in deps[s] : rank[d] < rank[s]

ASSUME WorkflowAssumption ==
  /\ N \in Nat /\ MaxFaults \in Nat
  /\ Plans \subseteq Plan
  /\ \A p \in Plans : Acyclic(p.deps)

VARIABLES
  plan,        \* spec.json
  state,       \* state.json: state of the workflow, "none" before it exists
  status,      \* status of each step
  attempts,    \* attempts of each step
  outputs,     \* attempt that produced each step's outputs, 0 when empty
  halted,      \* supervisor-stop.json of each step's action
  at,          \* where the coordinator stands
  cur,         \* its position in the steps
  progressed,  \* this pass changed something
  used,        \* history: the outputs each step was last started with
  faults       \* history: faults so far

record == <<state, status, attempts, outputs>>
vars == <<plan, state, status, attempts, outputs, halted, at, cur, progressed, used, faults>>

Decided == {"COMPLETED", "FAILED", "STOPPED"}

TypeOK ==
  /\ plan \in Plans
  /\ state \in {"none", "RUNNING"} \cup Decided
  /\ status \in [Steps -> {"PENDING", "RUNNING", "COMPLETED", "FAILED", "SKIPPED"}]
  /\ attempts \in [Steps -> Nat]
  /\ outputs \in [Steps -> Nat]
  /\ halted \in [Steps -> BOOLEAN]
  /\ at \in {"down", "scan", "act", "stopping"}
  /\ cur \in 1..N + 1
  /\ progressed \in BOOLEAN
  /\ used \in [Steps -> [Steps -> Nat]]
  /\ faults \in 0..MaxFaults

Init ==
  /\ plan \in Plans
  /\ state = "none"
  /\ status = [s \in Steps |-> "PENDING"]
  /\ attempts = [s \in Steps |-> 0]
  /\ outputs = [s \in Steps |-> 0]
  /\ halted = [s \in Steps |-> FALSE]
  /\ at = "down" /\ cur = 1 /\ progressed = FALSE
  /\ used = [s \in Steps |-> outputs]
  /\ faults = 0

-----------------------------------------------------------------------------
(* The coordinator.                                                        *)

Goto(place, s, moved) == at' = place /\ cur' = s /\ progressed' = moved
Leave == Goto("down", 1, FALSE)

\* run: the state is created or loaded; a decided workflow is left alone.
Launch ==
  /\ at = "down" /\ state \in {"none", "RUNNING"}
  /\ state' = "RUNNING"
  /\ Goto("scan", 1, FALSE)
  /\ UNCHANGED <<plan, status, attempts, outputs, halted, used, faults>>

Done == {"COMPLETED", "SKIPPED"}
Blocked(s) == \E d \in plan.deps[s] : status[d] \in {"FAILED", "SKIPPED"}

\* Mutant: a step starts as soon as one of its dependencies is complete.
ReadyEarly(s) ==
  plan.deps[s] = {} \/ \E d \in plan.deps[s] : status[d] = "COMPLETED"

\* _ready
Ready(s) == \A d \in plan.deps[s] : status[d] = "COMPLETED"

\* Mutant: a pass takes up every step that is not skipped.
PassedSkipped(s) == status[s] = "SKIPPED" \/ ~(Blocked(s) \/ Ready(s))

\* The pass goes by steps that are done and steps that must wait.
Passed(s) == status[s] \in Done \/ ~(Blocked(s) \/ Ready(s))
Here(s) ==
  /\ at = "scan"
  /\ s >= cur /\ ~Passed(s)
  /\ \A t \in Steps : cur <= t /\ t < s => Passed(t)

Skip(s) ==
  /\ Here(s) /\ Blocked(s)
  /\ status' = [status EXCEPT ![s] = "SKIPPED"]
  /\ Goto("scan", s + 1, TRUE)
  /\ UNCHANGED <<plan, state, attempts, outputs, halted, used, faults>>

\* The attempt is durable before the action is called.
Begin(s) ==
  /\ Here(s) /\ ~Blocked(s) /\ s \notin plan.broken
  /\ status' = [status EXCEPT ![s] = "RUNNING"]
  /\ attempts' = [attempts EXCEPT ![s] = @ + 1]
  /\ used' = [used EXCEPT ![s] = outputs]
  /\ Goto("act", s, progressed)
  /\ UNCHANGED <<plan, state, outputs, halted, faults>>

\* _resolve raises outside the try: run() ends, and nothing is recorded.
Unresolvable(s) ==
  /\ Here(s) /\ ~Blocked(s) /\ s \in plan.broken
  /\ Leave
  /\ UNCHANGED <<plan, record, halted, used, faults>>

\* Mutant: what was skipped counts as complete.
NoneRequired == {}

\* Steps whose absence fails the workflow.
Required == {"select", "continuous_training", "experiment"}

\* Mutant: the failure is raised and not recorded.
EndUnrecorded ==
  /\ at = "scan"
  /\ \A s \in Steps : s >= cur => Passed(s)
  /\ IF \A s \in Steps : status[s] \in Done
       THEN /\ state' = IF \E s \in Steps : status[s] = "SKIPPED" /\ plan.action[s] \in Required
                          THEN state ELSE "COMPLETED"
            /\ Leave
       ELSE /\ state' = state
            /\ IF progressed THEN Goto("scan", 1, FALSE) ELSE Leave
  /\ UNCHANGED <<plan, status, attempts, outputs, halted, used, faults>>

\* The pass is over: every step is done, or another pass follows, or the
\* steps left can never start.
EndPass ==
  /\ at = "scan"
  /\ \A s \in Steps : s >= cur => Passed(s)
  /\ IF \A s \in Steps : status[s] \in Done
       THEN /\ state' = IF \E s \in Steps : status[s] = "SKIPPED" /\ plan.action[s] \in Required
                          THEN "FAILED" ELSE "COMPLETED"
            /\ Leave
       ELSE /\ state' = state
            /\ IF progressed THEN Goto("scan", 1, FALSE) ELSE Leave
  /\ UNCHANGED <<plan, status, attempts, outputs, halted, used, faults>>

-----------------------------------------------------------------------------
(* The action of the step at hand.                                         *)

Acting(s) == at = "act" /\ s = cur

\* The action returned and the outputs are durable.  A training action whose
\* generation was committed retires the stop of its supervisor.
Succeed(s) ==
  /\ Acting(s)
  /\ status' = [status EXCEPT ![s] = "COMPLETED"]
  /\ outputs' = [outputs EXCEPT ![s] = attempts[s]]
  /\ halted' = [halted EXCEPT ![s] = FALSE]
  /\ IF plan.action[s] = "stop"
       THEN Goto("stopping", s, TRUE) ELSE Goto("scan", s + 1, TRUE)
  /\ UNCHANGED <<plan, state, attempts, used, faults>>

\* A stop action: the workflow becomes STOPPED with a second write.
Stop ==
  /\ at = "stopping"
  /\ state' = "STOPPED"
  /\ Leave
  /\ UNCHANGED <<plan, status, attempts, outputs, halted, used, faults>>

\* Mutant: the step gets the state of the workflow.
StopStep(s) ==
  /\ status' = [status EXCEPT ![s] = "STOPPED"]
  /\ state' = "STOPPED"
  /\ Leave

\* _is_durable_stop: the run ends with a decision left to the operator.
StopDurably(s) ==
  /\ status' = [status EXCEPT ![s] = "FAILED"]
  /\ state' = "STOPPED"
  /\ Leave

MayRetry(s) == plan.behavior[s] = "retry" /\ attempts[s] <= plan.retries[s]

\* Any other exception: retried, passed over, or the end of the workflow.
\* "then" is the state of the workflow as memory has it.
Fail(s, technical, then) ==
  LET goes == CASE technical /\ MayRetry(s) -> "PENDING"
                [] technical /\ plan.behavior[s] = "continue" -> "SKIPPED"
                [] OTHER -> "FAILED"
  IN  /\ status' = [status EXCEPT ![s] = goes]
      /\ IF goes = "FAILED" THEN state' = "FAILED" /\ Leave
                            ELSE state' = then /\ Goto("scan", s + 1, TRUE)

\* A technical error of the action, or one that its supervisor does not
\* retry any more: with the stop it leaves behind, the exception still
\* carries the reason of the last failure, not the words of a durable stop.
Technical(s) ==
  /\ Acting(s) /\ plan.action[s] \notin {"select", "stop"}
  /\ Fail(s, TRUE, state)
  /\ \E halts \in BOOLEAN : halted' = [halted EXCEPT ![s] = @ \/ halts]
  /\ UNCHANGED <<plan, attempts, outputs, used, faults>>

\* Configuration, compatibility and data errors; a selection of nothing.
Invalid(s) ==
  /\ Acting(s) /\ plan.action[s] # "stop"
  /\ Fail(s, FALSE, state)
  /\ UNCHANGED <<plan, attempts, outputs, halted, used, faults>>

\* The action met its supervisor's stop, or the selection needs a decision.
MeetStop(s) ==
  /\ Acting(s) /\ (halted[s] \/ plan.action[s] = "select")
  /\ StopDurably(s)
  /\ UNCHANGED <<plan, attempts, outputs, halted, used, faults>>

-----------------------------------------------------------------------------
(* Faults.                                                                 *)

\* The outputs cannot be written.  The write is inside the try, so the
\* completed action is treated as a failed one; its outputs stay in memory
\* and reach the disk with the next write.
SucceedUnsaved(s) ==
  /\ Acting(s) /\ faults < MaxFaults /\ faults' = faults + 1
  /\ outputs' = [outputs EXCEPT ![s] = attempts[s]]
  /\ Fail(s, TRUE, state)
  /\ UNCHANGED <<plan, attempts, halted, used>>

\* STOPPED cannot be written; memory has it already.
StopUnsaved ==
  /\ at = "stopping" /\ faults < MaxFaults /\ faults' = faults + 1
  /\ Fail(cur, TRUE, "STOPPED")
  /\ UNCHANGED <<plan, attempts, outputs, halted, used>>

\* The coordinator dies, is interrupted, or cannot write anything more.
Crash ==
  /\ at # "down" /\ faults < MaxFaults /\ faults' = faults + 1
  /\ Leave
  /\ UNCHANGED <<plan, record, halted, used>>

CoordinatorStep ==
  \/ Launch \/ EndPass \/ Stop
  \/ \E s \in Steps :
       \/ Skip(s) \/ Begin(s) \/ Unresolvable(s) \/ Succeed(s)
       \/ Technical(s) \/ Invalid(s) \/ MeetStop(s)

FaultStep == StopUnsaved \/ Crash \/ \E s \in Steps : SucceedUnsaved(s)

Next == CoordinatorStep \/ FaultStep

Spec == Init /\ [][Next]_vars

\* Actions return, and the operator runs an undecided workflow again.
FairSpec == Spec /\ WF_vars(CoordinatorStep)

-----------------------------------------------------------------------------
(* Properties.                                                             *)

\* What a step completed durably it never does again: its attempt and its
\* outputs stand, whatever crashes and reruns follow.  (A stop step whose
\* second write failed is the exception: it turns into a failed one.)
NeverRepeated ==
  [][\A s \in Steps :
       status[s] = "COMPLETED" /\ plan.action[s] # "stop"
         => /\ status'[s] = "COMPLETED"
            /\ attempts'[s] = attempts[s]
            /\ outputs'[s] = outputs[s]]_vars

\* A step that was started saw the outputs its dependencies have now: no
\* dependency is run again, or loses its outputs, under its dependents.
InputsAreFinal ==
  \A s \in Steps : status[s] \in {"RUNNING", "COMPLETED"} =>
    \A d \in plan.deps[s] : status[d] = "COMPLETED" /\ used[s][d] = outputs[d]

\* A step is attempted once, once for every retry of its policy, and once
\* more for every fault; and without a retry policy only for the faults.
RetryBudget ==
  \A s \in Steps :
    attempts[s] <= 1 + faults + (IF plan.behavior[s] = "retry" THEN plan.retries[s] ELSE 0)

\* The verdict agrees with the steps: a completed workflow left nothing
\* open and skipped no decision, a failed one has a step that failed or a
\* decision that was skipped, and a step is skipped only by its policy or
\* for a dependency that gave no result.
SkippedDecision(s) ==
  status[s] = "SKIPPED" /\ plan.action[s] \in {"select", "continuous_training", "experiment"}
VerdictIsSound ==
  /\ state = "COMPLETED" => \A s \in Steps : status[s] \in Done /\ ~SkippedDecision(s)
  /\ state = "FAILED" => \E s \in Steps : status[s] = "FAILED" \/ SkippedDecision(s)
  /\ \A s \in Steps : status[s] = "SKIPPED" =>
       \/ plan.behavior[s] = "continue"
       \/ \E d \in plan.deps[s] : status[d] \in {"FAILED", "SKIPPED"}

\* Run again after every fault, a workflow is decided, unless a reference
\* of one of its steps names nothing: that ends every run in the same place.
Settles == <>(state \in Decided \/ plan.broken # {})

\* docs/ORCHESTRATOR_V2_WORKFLOWS.md: after a stop action completes, "later
\* steps remain pending and another invocation cannot bypass that stop".
StopBlocks ==
  [][\A s, t \in Steps :
       /\ plan.action[s] = "stop" /\ status[s] = "COMPLETED"
       /\ t # s /\ status[t] = "PENDING"
       => status'[t] = "PENDING"]_vars
=============================================================================
