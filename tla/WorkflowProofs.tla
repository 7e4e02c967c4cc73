--------------------------- MODULE WorkflowProofs ---------------------------
(***************************************************************************)
(* Proofs about Workflow, for every number of steps, every workflow and    *)
(* any number of crashes, interrupts and failed writes.                    *)
(*                                                                         *)
(* The argument hangs on where the coordinator stands (Standing): while it *)
(* acts for a step the record says RUNNING, so none of the step's          *)
(* dependents has started, and a failed step is recorded together with the *)
(* verdict that ends the run.                                              *)
(***************************************************************************)
EXTENDS Workflow, TLAPS

USE WorkflowAssumption

Started == {"RUNNING", "COMPLETED"}

\* No dependent of a step has started.
Free(s) == \A t \in Steps : s \in plan.deps[t] => status[t] \notin Started

Standing ==
  /\ at \in {"act", "stopping"} => cur \in Steps
  /\ at = "act" => status[cur] = "RUNNING"
  /\ at = "stopping" =>
       plan.action[cur] = "stop" /\ status[cur] = "COMPLETED" /\ Free(cur)
  /\ at # "down" => state \in {"RUNNING", "STOPPED"}
  /\ \A s \in Steps : status[s] = "FAILED" => at = "down" /\ state \in {"FAILED", "STOPPED"}

\* The retries a policy allows.
Granted(s) == IF plan.behavior[s] = "retry" THEN plan.retries[s] ELSE 0

\* A step that may still begin has not used up what it may use.
Budget ==
  /\ RetryBudget
  /\ \A s \in Steps :
       status[s] = "PENDING" \/ (status[s] = "RUNNING" /\ ~(at = "act" /\ cur = s))
         => attempts[s] <= faults + Granted(s)

IInv == TypeOK /\ Standing /\ InputsAreFinal /\ Budget /\ VerdictIsSound

-----------------------------------------------------------------------------
\* What a plan gives for a step.
LEMMA PlanType ==
  ASSUME plan \in Plans
  PROVE  \A s \in Steps : /\ plan.deps[s] \subseteq Steps
                          /\ plan.retries[s] \in Nat
                          /\ Granted(s) \in Nat
  <1>1. plan \in Plan
    OBVIOUS
  <1>2. plan.deps \in [Steps -> SUBSET Steps] /\ plan.retries \in [Steps -> Nat]
    BY <1>1 DEF Plan
  <1> QED
    BY <1>2 DEF Granted

LEMMA Initial == Init => IInv
  <1> SUFFICES ASSUME Init PROVE IInv
    OBVIOUS
  <1>1. TypeOK
    <2>1. /\ plan \in Plans /\ state \in {"none", "RUNNING"} \cup Decided
          /\ at \in {"down", "scan", "act", "stopping"} /\ progressed \in BOOLEAN
      BY DEF Init
    <2>4. cur \in 1..N + 1 /\ faults \in 0..MaxFaults
      BY SMT DEF Init
    <2>2. /\ status \in [Steps -> {"PENDING", "RUNNING", "COMPLETED", "FAILED", "SKIPPED"}]
          /\ attempts \in [Steps -> Nat] /\ outputs \in [Steps -> Nat]
          /\ halted \in [Steps -> BOOLEAN]
      BY DEF Init
    <2>3. used \in [Steps -> [Steps -> Nat]]
      BY <2>2 DEF Init
    <2> QED
      BY <2>1, <2>2, <2>3, <2>4 DEF TypeOK
  <1>2. Standing /\ InputsAreFinal /\ VerdictIsSound
    BY DEF Init, Standing, InputsAreFinal, VerdictIsSound, Free, SkippedDecision
  <1>3. Budget
    BY PlanType, <1>1 DEF Init, Budget, RetryBudget, Granted
  <1> QED
    BY <1>1, <1>2, <1>3 DEF IInv

-----------------------------------------------------------------------------
\* A step that leaves every record alone: it moves the coordinator, and may
\* give a verdict that agrees with the records.
LEMMA Quiet ==
  ASSUME IInv, UNCHANGED <<plan, status, attempts, outputs, used>>,
         at' \in {"down", "scan"}, cur' \in 1..N + 1, progressed' \in BOOLEAN,
         halted' = halted, faults' \in 0..MaxFaults,
         faults' >= faults, at = "act" => faults' > faults,
         state' \in {"none", "RUNNING"} \cup Decided,
         at' = "scan" => state' \in {"RUNNING", "STOPPED"} /\ \A s \in Steps : status[s] # "FAILED",
         (\E s \in Steps : status[s] = "FAILED") => state' = state,
         state' = "COMPLETED" => \A s \in Steps : status[s] \in Done /\ ~SkippedDecision(s),
         state' = "FAILED" => \E s \in Steps : status[s] = "FAILED" \/ SkippedDecision(s)
  PROVE  IInv'
  <1>1. TypeOK'
    BY DEF IInv, TypeOK
  <1>2. Standing'
    BY DEF IInv, Standing, Free
  <1>3. InputsAreFinal'
    BY DEF IInv, InputsAreFinal
  <1>4. Budget'
    <2>1. faults \in Nat /\ faults' \in Nat /\ attempts \in [Steps -> Nat] /\ plan \in Plans
      BY DEF IInv, TypeOK
    <2>2. \A s \in Steps : Granted(s)' = Granted(s) /\ Granted(s) \in Nat
      BY <2>1, PlanType DEF Granted
    <2>3. \A s \in Steps : attempts[s] <= 1 + faults + Granted(s)
      BY DEF IInv, Budget, RetryBudget, Granted
    <2>4. \A s \in Steps : attempts'[s] <= 1 + faults' + Granted(s)'
      BY <2>1, <2>2, <2>3
    <2>5. RetryBudget'
      BY <2>4 DEF RetryBudget, Granted
    <2>6. ASSUME NEW s \in Steps, status'[s] = "PENDING" \/ status'[s] = "RUNNING"
          PROVE  attempts'[s] <= faults' + Granted(s)'
      <3>1. CASE at = "act"
        BY <3>1, <2>1, <2>2, <2>3
      <3>2. CASE at # "act"
        BY <3>2, <2>1, <2>2, <2>6 DEF IInv, Budget
      <3> QED
        BY <3>1, <3>2
    <2> QED
      BY <2>5, <2>6 DEF Budget
  <1>5. VerdictIsSound'
    BY DEF IInv, VerdictIsSound, SkippedDecision
  <1> QED
    BY <1>1, <1>2, <1>3, <1>4, <1>5 DEF IInv

\* The action of the step at hand ended without success: it is to be tried
\* again, passed over, or the last one of the run.
Ended(s, goes) ==
  /\ status' = [status EXCEPT ![s] = goes]
  /\ goes \in {"PENDING", "SKIPPED", "FAILED"}
  /\ goes = "PENDING" => MayRetry(s)
  /\ goes = "SKIPPED" => plan.behavior[s] = "continue"
  /\ IF goes = "FAILED"
       THEN state' \in {"FAILED", "STOPPED"} /\ Leave
       ELSE state' \in {"RUNNING", "STOPPED"} /\ Goto("scan", s + 1, TRUE)

LEMMA FailEnds ==
  ASSUME NEW s \in Steps, NEW technical \in BOOLEAN, NEW then \in {"RUNNING", "STOPPED"},
         Fail(s, technical, then)
  PROVE  \E goes : Ended(s, goes)
  <1> DEFINE goes == CASE technical /\ MayRetry(s) -> "PENDING"
                       [] technical /\ plan.behavior[s] = "continue" -> "SKIPPED"
                       [] OTHER -> "FAILED"
  <1>1. /\ goes \in {"PENDING", "SKIPPED", "FAILED"}
        /\ goes = "PENDING" => MayRetry(s)
        /\ goes = "SKIPPED" => plan.behavior[s] = "continue"
    <2>1. CASE technical /\ MayRetry(s)
      BY <2>1, Zenon DEF MayRetry
    <2>2. CASE technical /\ plan.behavior[s] = "continue"
      BY <2>2 DEF MayRetry
    <2>3. CASE ~(technical /\ MayRetry(s)) /\ ~(technical /\ plan.behavior[s] = "continue")
      BY <2>3
    <2> QED
      BY <2>1, <2>2, <2>3
  <1>2. /\ status' = [status EXCEPT ![s] = goes]
        /\ IF goes = "FAILED" THEN state' = "FAILED" /\ Leave
                             ELSE state' = then /\ Goto("scan", s + 1, TRUE)
    BY DEF Fail
  <1> HIDE DEF goes
  <1>3. Ended(s, goes)
    BY <1>1, <1>2 DEF Ended
  <1> QED
    BY <1>3

\* Such an end keeps the invariant, if no dependent has started.
LEMMA EndKeeps ==
  ASSUME IInv, NEW s \in Steps, NEW goes, Ended(s, goes),
         UNCHANGED <<plan, attempts, used>>,
         at \in {"act", "stopping"}, cur = s, status[s] \in Started, Free(s),
         outputs' \in {outputs, [outputs EXCEPT ![s] = attempts[s]]},
         halted' \in [Steps -> BOOLEAN],
         faults' \in 0..MaxFaults, faults' >= faults
  PROVE  IInv'
  <1>1. TypeOK'
    <2>1. outputs' \in [Steps -> Nat]
      BY DEF IInv, TypeOK
    <2>2. status' \in [Steps -> {"PENDING", "RUNNING", "COMPLETED", "FAILED", "SKIPPED"}]
      BY DEF IInv, TypeOK, Ended
    <2>3. cur' \in 1..N + 1 /\ at' \in {"down", "scan"} /\ progressed' \in BOOLEAN
      <3>1. 1 \in 1..N + 1 /\ s + 1 \in 1..N + 1
        BY SMT DEF Steps
      <3> QED
        BY <3>1, Zenon DEF Ended, Leave, Goto
    <2>4. state' \in {"none", "RUNNING"} \cup Decided
      BY DEF Ended, Decided
    <2> QED
      BY <2>1, <2>2, <2>3, <2>4 DEF IInv, TypeOK
  <1>2. status'[s] = goes /\ \A t \in Steps : t # s => status'[t] = status[t]
    BY DEF IInv, TypeOK, Ended
  <1>3. at \in {"act", "stopping"} /\ \A t \in Steps : status[t] # "FAILED"
    BY DEF IInv, Standing
  <1>4. Standing'
    BY <1>2, <1>3 DEF Standing, Ended, Leave, Goto
  <1>5. InputsAreFinal'
    <2>1. SUFFICES ASSUME NEW t \in Steps, status'[t] \in Started, NEW d \in plan.deps[t]
                   PROVE  status'[d] = "COMPLETED" /\ used'[t][d] = outputs'[d]
      BY DEF InputsAreFinal, Started
    <2>2. t # s /\ d \in Steps
      BY <2>1, <1>2, PlanType DEF Started, Ended, IInv, TypeOK
    <2>3. status[t] \in Started
      BY <1>2, <2>1, <2>2
    <2>4. d # s
      BY <2>1, <2>3 DEF Free
    <2>5. status[d] = "COMPLETED" /\ used[t][d] = outputs[d]
      BY <2>1, <2>3 DEF IInv, InputsAreFinal, Started
    <2>6. outputs'[d] = outputs[d]
      BY <2>2, <2>4 DEF IInv, TypeOK
    <2> QED
      BY <1>2, <2>2, <2>4, <2>5, <2>6
  <1>6. Budget'
    <2>1. faults \in Nat /\ faults' \in Nat /\ attempts \in [Steps -> Nat] /\ plan \in Plans
      BY DEF IInv, TypeOK
    <2>2. \A t \in Steps : Granted(t)' = Granted(t) /\ Granted(t) \in Nat
      BY <2>1, PlanType DEF Granted
    <2>3. \A t \in Steps : attempts[t] <= 1 + faults + Granted(t)
      BY DEF IInv, Budget, RetryBudget, Granted
    <2>4. \A t \in Steps : attempts'[t] <= 1 + faults' + Granted(t)'
      BY <2>1, <2>2, <2>3
    <2>5. RetryBudget'
      BY <2>4 DEF RetryBudget, Granted
    <2>6. ASSUME NEW t \in Steps, status'[t] = "PENDING" \/ status'[t] = "RUNNING"
          PROVE  attempts'[t] <= faults' + Granted(t)'
      <3>1. CASE t = s
        <4>1. MayRetry(s)
          BY <3>1, <1>2, <2>6 DEF Ended
        <4>2. attempts[s] <= Granted(s)
          BY <4>1 DEF MayRetry, Granted
        <4> QED
          BY <3>1, <4>2, <2>1, <2>2
      <3>2. CASE t # s
        <4>1. attempts[t] <= faults + Granted(t)
          BY <3>2, <1>2, <2>6 DEF IInv, Budget
        <4> QED
          BY <4>1, <2>1, <2>2
      <3> QED
        BY <3>1, <3>2
    <2> QED
      BY <2>5, <2>6 DEF Budget
  <1>7. VerdictIsSound'
    <2>1. state' # "COMPLETED"
      BY DEF Ended
    <2>2. state' = "FAILED" => status'[s] = "FAILED"
      BY <1>2 DEF Ended
    <2>3. ASSUME NEW t \in Steps, status'[t] = "SKIPPED"
          PROVE  \/ plan.behavior[t] = "continue"
                 \/ \E d \in plan.deps[t] : status'[d] \in {"FAILED", "SKIPPED"}
      <3>1. CASE t = s
        BY <3>1, <1>2, <2>3 DEF Ended
      <3>2. CASE t # s
        <4>1. \A d \in plan.deps[t] : status[d] \in {"FAILED", "SKIPPED"} => d # s /\ d \in Steps
          BY PlanType DEF Started, IInv, TypeOK
        <4> QED
          BY <3>2, <4>1, <1>2, <2>3 DEF IInv, VerdictIsSound
      <3> QED
        BY <3>1, <3>2
    <2> QED
      BY <2>1, <2>2, <2>3 DEF VerdictIsSound
  <1> QED
    BY <1>1, <1>4, <1>5, <1>6, <1>7 DEF IInv

\* Where the coordinator acts, none of the dependents has started.
LEMMA Acted ==
  ASSUME IInv, NEW s \in Steps, Acting(s)
  PROVE  /\ at \in {"act", "stopping"} /\ cur = s /\ Free(s)
         /\ status[s] = "RUNNING" /\ state \in {"RUNNING", "STOPPED"}
  BY DEF IInv, Standing, Acting, Free, InputsAreFinal, Started

-----------------------------------------------------------------------------
\* The steps that change a record.

LEMMA SkipKeeps ==
  ASSUME IInv, NEW s \in Steps, Skip(s)
  PROVE  IInv'
  <1>1. /\ status' = [status EXCEPT ![s] = "SKIPPED"]
        /\ at = "scan" /\ at' = "scan" /\ cur' = s + 1 /\ progressed' = TRUE
        /\ UNCHANGED <<plan, state, attempts, outputs, halted, used, faults>>
        /\ status[s] \notin Done /\ Blocked(s)
    BY DEF Skip, Here, Passed, Goto
  <1>2. /\ status'[s] = "SKIPPED"
        /\ \A t \in Steps : t # s => status'[t] = status[t]
        /\ \A t \in Steps : status[t] # "FAILED"
    BY <1>1 DEF IInv, TypeOK, Standing
  <1>3. TypeOK'
    <2>1. s + 1 \in 1..N + 1
      BY SMT DEF Steps
    <2> QED
      BY <1>1, <2>1 DEF IInv, TypeOK
  <1>4. Standing'
    BY <1>1, <1>2 DEF IInv, Standing
  <1>5. status[s] # "COMPLETED" /\ plan \in Plans
    BY <1>1 DEF Done, IInv, TypeOK
  <1>6. InputsAreFinal'
    <2>1. SUFFICES ASSUME NEW t \in Steps, status'[t] \in Started, NEW d \in plan.deps[t]
                   PROVE  status'[d] = "COMPLETED" /\ used[t][d] = outputs[d]
      BY <1>1 DEF InputsAreFinal, Started
    <2>2. t # s /\ d \in Steps
      BY <2>1, <1>2, <1>5, PlanType DEF Started
    <2>3. status[d] = "COMPLETED" /\ used[t][d] = outputs[d]
      BY <1>2, <2>1, <2>2 DEF IInv, InputsAreFinal, Started
    <2> QED
      BY <1>2, <1>5, <2>2, <2>3
  <1>7. Budget'
    BY <1>1, <1>2 DEF IInv, Budget, RetryBudget, Granted
  <1>8. VerdictIsSound'
    <2>1. state' \in {"RUNNING", "STOPPED"}
      BY <1>1 DEF IInv, Standing
    <2>2. \E d \in plan.deps[s] : status[d] \in {"FAILED", "SKIPPED"}
      BY <1>1 DEF Blocked
    <2>3. \A t, d \in Steps : status[d] \in {"FAILED", "SKIPPED"} => status'[d] \in {"FAILED", "SKIPPED"}
      BY <1>2
    <2>4. \A t \in Steps : plan.deps[t] \subseteq Steps
      BY <1>5, PlanType
    <2>5. ASSUME NEW t \in Steps, status'[t] = "SKIPPED"
          PROVE  \/ plan.behavior[t] = "continue"
                 \/ \E d \in plan.deps[t] : status'[d] \in {"FAILED", "SKIPPED"}
      <3>1. CASE t = s
        BY <3>1, <2>2, <2>3, <2>4
      <3>2. CASE t # s
        <4>1. \/ plan.behavior[t] = "continue"
              \/ \E d \in plan.deps[t] : status[d] \in {"FAILED", "SKIPPED"}
          BY <3>2, <1>2, <2>5 DEF IInv, VerdictIsSound
        <4> QED
          BY <4>1, <2>3, <2>4
      <3> QED
        BY <3>1, <3>2
    <2> QED
      BY <1>1, <2>1, <2>5 DEF VerdictIsSound
  <1> QED
    BY <1>3, <1>4, <1>6, <1>7, <1>8 DEF IInv

LEMMA BeginKeeps ==
  ASSUME IInv, NEW s \in Steps, Begin(s)
  PROVE  IInv'
  <1>1. /\ status' = [status EXCEPT ![s] = "RUNNING"]
        /\ attempts' = [attempts EXCEPT ![s] = @ + 1]
        /\ used' = [used EXCEPT ![s] = outputs]
        /\ at = "scan" /\ at' = "act" /\ cur' = s /\ progressed' = progressed
        /\ UNCHANGED <<plan, state, outputs, halted, faults>>
        /\ status[s] \notin Done /\ Ready(s)
    BY DEF Begin, Here, Passed, Goto
  <1>2. /\ status'[s] = "RUNNING" /\ used'[s] = outputs /\ attempts'[s] = attempts[s] + 1
        /\ \A t \in Steps : t # s =>
             status'[t] = status[t] /\ used'[t] = used[t] /\ attempts'[t] = attempts[t]
    BY <1>1 DEF IInv, TypeOK
  <1>3. /\ \A t \in Steps : status[t] # "FAILED"
        /\ status[s] \in {"PENDING", "RUNNING"} /\ plan \in Plans
    BY <1>1 DEF IInv, TypeOK, Standing, Done
  <1>4. TypeOK'
    <2>1. s \in 1..N + 1 /\ attempts[s] + 1 \in Nat
      BY SMTT(30) DEF Steps, IInv, TypeOK
    <2>2. attempts' \in [Steps -> Nat] /\ used' \in [Steps -> [Steps -> Nat]]
      BY <1>1, <2>1 DEF IInv, TypeOK
    <2> QED
      BY <1>1, <2>1, <2>2 DEF IInv, TypeOK
  <1>5. Standing'
    BY <1>1, <1>2, <1>3 DEF IInv, Standing
  <1>6. InputsAreFinal'
    <2>1. SUFFICES ASSUME NEW t \in Steps, status'[t] \in Started, NEW d \in plan.deps[t]
                   PROVE  status'[d] = "COMPLETED" /\ used'[t][d] = outputs[d]
      BY <1>1 DEF InputsAreFinal, Started
    <2>2. d \in Steps
      BY <1>3, PlanType
    <2>3. status[d] = "COMPLETED" /\ used'[t][d] = outputs[d]
      <3>1. CASE t = s
        BY <3>1, <1>1, <1>2 DEF Ready
      <3>2. CASE t # s
        BY <3>2, <1>2, <2>1 DEF IInv, InputsAreFinal, Started
      <3> QED
        BY <3>1, <3>2
    <2>4. d # s
      BY <2>3, <1>3
    <2> QED
      BY <1>2, <2>2, <2>3, <2>4
  <1>7. Budget'
    <2>1. faults \in Nat /\ attempts \in [Steps -> Nat] /\ faults' = faults
      BY <1>1 DEF IInv, TypeOK
    <2>2. \A t \in Steps : Granted(t)' = Granted(t) /\ Granted(t) \in Nat
      BY <1>1, <1>3, PlanType DEF Granted
    <2>3. attempts[s] <= faults + Granted(s)
      BY <1>1, <1>3 DEF IInv, Budget
    <2>4. \A t \in Steps : attempts[t] <= 1 + faults + Granted(t)
      BY DEF IInv, Budget, RetryBudget, Granted
    <2>5. \A t \in Steps : attempts'[t] <= 1 + faults' + Granted(t)'
      BY <1>2, <2>1, <2>2, <2>3, <2>4
    <2>6. RetryBudget'
      BY <2>5 DEF RetryBudget, Granted
    <2>7. ASSUME NEW t \in Steps,
                 status'[t] = "PENDING" \/ (status'[t] = "RUNNING" /\ ~(at' = "act" /\ cur' = t))
          PROVE  attempts'[t] <= faults' + Granted(t)'
      <3>1. t # s
        BY <2>7, <1>1, <1>2
      <3>2. attempts[t] <= faults + Granted(t)
        BY <3>1, <2>7, <1>1, <1>2 DEF IInv, Budget
      <3> QED
        BY <3>1, <3>2, <1>2, <2>1, <2>2
    <2> QED
      BY <2>6, <2>7, Zenon DEF Budget
  <1>8. VerdictIsSound'
    <2>1. state' \in {"RUNNING", "STOPPED"}
      BY <1>1 DEF IInv, Standing
    <2>2. ASSUME NEW t \in Steps, status'[t] = "SKIPPED"
          PROVE  \/ plan.behavior[t] = "continue"
                 \/ \E d \in plan.deps[t] : status'[d] \in {"FAILED", "SKIPPED"}
      <3>1. t # s
        BY <2>2, <1>2
      <3>2. \/ plan.behavior[t] = "continue"
            \/ \E d \in plan.deps[t] : status[d] \in {"FAILED", "SKIPPED"}
        BY <3>1, <1>2, <2>2 DEF IInv, VerdictIsSound
      <3>3. \A d \in plan.deps[t] : status[d] \in {"FAILED", "SKIPPED"} => d # s /\ d \in Steps
        BY <1>3, PlanType
      <3> QED
        BY <3>2, <3>3, <1>2
    <2> QED
      BY <1>1, <2>1, <2>2 DEF VerdictIsSound
  <1> QED
    BY <1>4, <1>5, <1>6, <1>7, <1>8 DEF IInv

LEMMA SucceedKeeps ==
  ASSUME IInv, NEW s \in Steps, Succeed(s)
  PROVE  IInv'
  <1>1. /\ status' = [status EXCEPT ![s] = "COMPLETED"]
        /\ outputs' = [outputs EXCEPT ![s] = attempts[s]]
        /\ halted' = [halted EXCEPT ![s] = FALSE]
        /\ \/ at' = "stopping" /\ cur' = s /\ plan.action[s] = "stop"
           \/ at' = "scan" /\ cur' = s + 1
        /\ progressed' = TRUE
        /\ UNCHANGED <<plan, state, attempts, used, faults>>
    BY DEF Succeed, Goto
  <1>2. /\ at = "act" /\ cur = s /\ Free(s)
        /\ status[s] = "RUNNING" /\ state \in {"RUNNING", "STOPPED"}
    BY Acted DEF Succeed, Acting
  <1>3. /\ status'[s] = "COMPLETED"
        /\ \A t \in Steps : t # s => status'[t] = status[t] /\ outputs'[t] = outputs[t]
        /\ \A t \in Steps : status[t] # "FAILED"
        /\ plan \in Plans
    BY <1>1, <1>2 DEF IInv, TypeOK, Standing
  <1>4. TypeOK'
    <2>1. s \in 1..N + 1 /\ s + 1 \in 1..N + 1
      BY SMT DEF Steps
    <2>2. outputs' \in [Steps -> Nat] /\ halted' \in [Steps -> BOOLEAN]
      BY <1>1 DEF IInv, TypeOK
    <2>3. status' \in [Steps -> {"PENDING", "RUNNING", "COMPLETED", "FAILED", "SKIPPED"}]
      BY <1>1 DEF IInv, TypeOK
    <2>4. cur' \in 1..N + 1 /\ at' \in {"down", "scan", "act", "stopping"}
      BY <1>1, <2>1
    <2> QED
      BY <1>1, <2>2, <2>3, <2>4 DEF IInv, TypeOK
  <1>5. \A t \in Steps : status'[t] \in Started => t = s \/ s \notin plan.deps[t]
    BY <1>2, <1>3 DEF Free
  <1>6. s \notin plan.deps[s]
    BY <1>2 DEF Free, Started
  <1>7. Standing'
    BY <1>1, <1>2, <1>3, <1>5, <1>6 DEF Standing, Free
  <1>8. InputsAreFinal'
    <2>1. SUFFICES ASSUME NEW t \in Steps, status'[t] \in Started, NEW d \in plan.deps[t]
                   PROVE  status'[d] = "COMPLETED" /\ used[t][d] = outputs'[d]
      BY <1>1 DEF InputsAreFinal, Started
    <2>2. d \in Steps /\ d # s
      BY <1>3, <1>5, <1>6, <2>1, PlanType
    <2>3. status[t] \in Started
      BY <1>2, <1>3, <2>1 DEF Started
    <2>4. status[d] = "COMPLETED" /\ used[t][d] = outputs[d]
      BY <2>1, <2>3 DEF IInv, InputsAreFinal, Started
    <2> QED
      BY <1>3, <2>2, <2>4
  <1>9. Budget'
    <2>1. RetryBudget'
      BY <1>1 DEF IInv, Budget, RetryBudget
    <2>2. ASSUME NEW t \in Steps, status'[t] = "PENDING" \/ status'[t] = "RUNNING"
          PROVE  attempts'[t] <= faults' + Granted(t)'
      <3>1. t # s
        BY <1>3, <2>2
      <3>2. attempts[t] <= faults + Granted(t)
        BY <3>1, <1>2, <1>3, <2>2 DEF IInv, Budget
      <3> QED
        BY <3>2, <1>1 DEF Granted
    <2> QED
      BY <2>1, <2>2, Zenon DEF Budget
  <1>10. VerdictIsSound'
    <2>1. state' \in {"RUNNING", "STOPPED"}
      BY <1>1, <1>2
    <2>2. ASSUME NEW t \in Steps, status'[t] = "SKIPPED"
          PROVE  \/ plan.behavior[t] = "continue"
                 \/ \E d \in plan.deps[t] : status'[d] \in {"FAILED", "SKIPPED"}
      <3>1. t # s
        BY <2>2, <1>3
      <3>2. \/ plan.behavior[t] = "continue"
            \/ \E d \in plan.deps[t] : status[d] \in {"FAILED", "SKIPPED"}
        BY <3>1, <1>3, <2>2 DEF IInv, VerdictIsSound
      <3>3. \A d \in plan.deps[t] : status[d] \in {"FAILED", "SKIPPED"} => d # s /\ d \in Steps
        BY <1>2, <1>3, PlanType
      <3> QED
        BY <3>2, <3>3, <1>3
    <2> QED
      BY <1>1, <2>1, <2>2 DEF VerdictIsSound
  <1> QED
    BY <1>4, <1>7, <1>8, <1>9, <1>10 DEF IInv

-----------------------------------------------------------------------------
\* The steps that end an action without success, and the quiet ones.

LEMMA TechnicalKeeps ==
  ASSUME IInv, NEW s \in Steps, Technical(s)
  PROVE  IInv'
  <1>1. Acting(s) /\ Fail(s, TRUE, state) /\ UNCHANGED <<plan, attempts, outputs, used, faults>>
    BY DEF Technical
  <1>2. halted' \in [Steps -> BOOLEAN]
    BY DEF Technical, IInv, TypeOK
  <1>3. PICK goes : Ended(s, goes)
    BY <1>1, Acted, FailEnds
  <1> QED
    BY <1>1, <1>2, <1>3, Acted, EndKeeps DEF Started, IInv, TypeOK

LEMMA InvalidKeeps ==
  ASSUME IInv, NEW s \in Steps, Invalid(s)
  PROVE  IInv'
  <1>1. Acting(s) /\ Fail(s, FALSE, state) /\ UNCHANGED <<plan, attempts, outputs, halted, used, faults>>
    BY DEF Invalid
  <1>2. PICK goes : Ended(s, goes)
    BY <1>1, Acted, FailEnds
  <1> QED
    BY <1>1, <1>2, Acted, EndKeeps DEF Started, IInv, TypeOK

LEMMA MeetStopKeeps ==
  ASSUME IInv, NEW s \in Steps, MeetStop(s)
  PROVE  IInv'
  <1>1. Acting(s) /\ UNCHANGED <<plan, attempts, outputs, halted, used, faults>>
    BY DEF MeetStop
  <1>2. Ended(s, "FAILED")
    BY DEF MeetStop, StopDurably, Ended
  <1> QED
    BY <1>1, <1>2, Acted, EndKeeps DEF Started, IInv, TypeOK

LEMMA SucceedUnsavedKeeps ==
  ASSUME IInv, NEW s \in Steps, SucceedUnsaved(s)
  PROVE  IInv'
  <1>1. /\ Acting(s) /\ Fail(s, TRUE, state) /\ UNCHANGED <<plan, attempts, halted, used>>
        /\ outputs' = [outputs EXCEPT ![s] = attempts[s]]
    BY DEF SucceedUnsaved
  <1>2. faults' \in 0..MaxFaults /\ faults' >= faults
    BY DEF SucceedUnsaved, IInv, TypeOK
  <1>3. PICK goes : Ended(s, goes)
    BY <1>1, Acted, FailEnds
  <1> QED
    BY <1>1, <1>2, <1>3, Acted, EndKeeps DEF Started, IInv, TypeOK

LEMMA StopUnsavedKeeps ==
  ASSUME IInv, StopUnsaved
  PROVE  IInv'
  <1>1. /\ at = "stopping" /\ Fail(cur, TRUE, "STOPPED")
        /\ UNCHANGED <<plan, attempts, outputs, halted, used>>
    BY DEF StopUnsaved
  <1>2. faults' \in 0..MaxFaults /\ faults' >= faults
    BY DEF StopUnsaved, IInv, TypeOK
  <1>3. cur \in Steps /\ Free(cur) /\ status[cur] \in Started
    BY <1>1 DEF IInv, Standing, Started
  <1>4. PICK goes : Ended(cur, goes)
    BY <1>1, <1>3, FailEnds
  <1> QED
    BY <1>1, <1>2, <1>3, <1>4, EndKeeps DEF IInv, TypeOK

LEMMA LaunchKeeps ==
  ASSUME IInv, Launch
  PROVE  IInv'
  <1>1. \A s \in Steps : status[s] # "FAILED"
    BY DEF IInv, Standing, Launch
  <1>2. /\ UNCHANGED <<plan, status, attempts, outputs, used>>
        /\ at = "down" /\ at' = "scan" /\ cur' = 1 /\ progressed' = FALSE
        /\ halted' = halted /\ faults' = faults /\ state' = "RUNNING"
    BY DEF Launch, Goto
  <1>3. cur' \in 1..N + 1 /\ faults' \in 0..MaxFaults /\ faults' >= faults
    BY <1>2, SMT DEF IInv, TypeOK
  <1> QED
    BY <1>1, <1>2, <1>3, Quiet

LEMMA EndPassKeeps ==
  ASSUME IInv, EndPass
  PROVE  IInv'
  <1>1. /\ UNCHANGED <<plan, status, attempts, outputs, used>>
        /\ at = "scan" /\ halted' = halted /\ faults' = faults
    BY DEF EndPass
  <1>2. /\ state \in {"RUNNING", "STOPPED"}
        /\ \A s \in Steps : status[s] # "FAILED"
    BY <1>1 DEF IInv, Standing
  <1>3. at' \in {"down", "scan"} /\ cur' = 1 /\ progressed' \in BOOLEAN
    BY DEF EndPass, Leave, Goto
  <1>4. \/ state' = state
        \/ /\ \A s \in Steps : status[s] \in Done
           /\ at' = "down"
           /\ \/ state' = "FAILED" /\ \E s \in Steps : SkippedDecision(s)
              \/ state' = "COMPLETED" /\ \A s \in Steps : ~SkippedDecision(s)
    BY DEF EndPass, Leave, Goto, SkippedDecision, Required
  <1>5. cur' \in 1..N + 1 /\ faults' \in 0..MaxFaults /\ faults' >= faults
    BY <1>1, <1>3, SMT DEF IInv, TypeOK
  <1> QED
    BY <1>1, <1>2, <1>3, <1>4, <1>5, Quiet DEF Decided

LEMMA LeaveKeeps ==
  ASSUME IInv, at # "down", Leave, UNCHANGED <<plan, status, attempts, outputs, used, halted>>,
         state' \in {state, "STOPPED"}, faults' \in 0..MaxFaults,
         faults' >= faults, at = "act" => faults' > faults
  PROVE  IInv'
  <1>1. \A s \in Steps : status[s] # "FAILED"
    BY DEF IInv, Standing
  <1>2. at' = "down" /\ cur' = 1 /\ progressed' = FALSE
    BY DEF Leave, Goto
  <1>3. cur' \in 1..N + 1
    BY <1>2, SMT
  <1>4. state' \in {"RUNNING", "STOPPED"}
    BY DEF IInv, Standing
  <1> QED
    BY <1>1, <1>2, <1>3, <1>4, Quiet DEF Decided

\* Every step of the workflow keeps the invariant.
LEMMA Inductive == IInv /\ [Next]_vars => IInv'
  <1> SUFFICES ASSUME IInv, [Next]_vars PROVE IInv'
    OBVIOUS
  <1>1. CASE UNCHANGED vars
    <2>1. /\ UNCHANGED <<plan, status, attempts, outputs, used>>
          /\ UNCHANGED <<state, halted, at, cur, progressed, faults>>
      BY <1>1 DEF vars
    <2> QED
      BY <2>1 DEF IInv, TypeOK, Standing, Free, InputsAreFinal, Budget, RetryBudget, Granted,
                  VerdictIsSound, SkippedDecision
  <1>2. CASE Launch
    BY <1>2, LaunchKeeps
  <1>3. CASE EndPass
    BY <1>3, EndPassKeeps
  <1>4. CASE Stop
    <2>1. faults' \in 0..MaxFaults /\ faults' >= faults
      BY <1>4 DEF Stop, IInv, TypeOK
    <2> QED
      BY <1>4, <2>1, LeaveKeeps DEF Stop
  <1>5. CASE StopUnsaved
    BY <1>5, StopUnsavedKeeps
  <1>6. CASE Crash
    <2>1. faults' \in 0..MaxFaults /\ faults' > faults /\ faults' >= faults
      BY <1>6 DEF Crash, IInv, TypeOK
    <2> QED
      BY <1>6, <2>1, LeaveKeeps DEF Crash, record
  <1>7. ASSUME NEW s \in Steps, Skip(s) PROVE IInv'
    BY <1>7, SkipKeeps
  <1>8. ASSUME NEW s \in Steps, Begin(s) PROVE IInv'
    BY <1>8, BeginKeeps
  <1>9. ASSUME NEW s \in Steps, Unresolvable(s) PROVE IInv'
    <2>1. faults' \in 0..MaxFaults /\ faults' >= faults /\ at = "scan"
      BY <1>9 DEF Unresolvable, Here, IInv, TypeOK
    <2> QED
      BY <1>9, <2>1, LeaveKeeps DEF Unresolvable, record
  <1>10. ASSUME NEW s \in Steps, Succeed(s) PROVE IInv'
    BY <1>10, SucceedKeeps
  <1>11. ASSUME NEW s \in Steps, Technical(s) PROVE IInv'
    BY <1>11, TechnicalKeeps
  <1>12. ASSUME NEW s \in Steps, Invalid(s) PROVE IInv'
    BY <1>12, InvalidKeeps
  <1>13. ASSUME NEW s \in Steps, MeetStop(s) PROVE IInv'
    BY <1>13, MeetStopKeeps
  <1>14. ASSUME NEW s \in Steps, SucceedUnsaved(s) PROVE IInv'
    BY <1>14, SucceedUnsavedKeeps
  <1> QED
    BY <1>1, <1>2, <1>3, <1>4, <1>5, <1>6, <1>7, <1>8, <1>9, <1>10, <1>11, <1>12, <1>13, <1>14
       DEF Next, CoordinatorStep, FaultStep

-----------------------------------------------------------------------------
(* Theorems.                                                               *)

\* Every reachable state satisfies the inductive invariant: what the records
\* say, where the coordinator stands and what may still be tried agree.
THEOREM Invariance == Spec => []IInv
  <1>1. IInv /\ UNCHANGED vars => IInv'
    BY Inductive
  <1> QED
    BY Initial, Inductive, PTL DEF Spec

\* The records keep their types, and no step counts as anything unknown.
THEOREM TypeCorrect == Spec => []TypeOK
  <1>1. IInv => TypeOK
    BY DEF IInv
  <1> QED
    BY <1>1, Invariance, PTL

\* What a started step was given is what its dependencies have: no
\* dependency runs again under it, for every workflow and any faults.
THEOREM InputsStand == Spec => []InputsAreFinal
  <1>1. IInv => InputsAreFinal
    BY DEF IInv
  <1> QED
    BY <1>1, Invariance, PTL

\* No step is called more often than its policy and the faults allow.
THEOREM RetriesAreBounded == Spec => []RetryBudget
  <1>1. IInv => RetryBudget
    BY DEF IInv, Budget
  <1> QED
    BY <1>1, Invariance, PTL

\* A verdict is never at odds with the records of the steps.
THEOREM VerdictsAreSound == Spec => []VerdictIsSound
  <1>1. IInv => VerdictIsSound
    BY DEF IInv
  <1> QED
    BY <1>1, Invariance, PTL

\* Completed work is final: no step changes the record of a completed step.
LEMMA CompletedStands ==
  ASSUME IInv, [Next]_vars, NEW s \in Steps, status[s] = "COMPLETED", plan.action[s] # "stop"
  PROVE  status'[s] = "COMPLETED" /\ attempts'[s] = attempts[s] /\ outputs'[s] = outputs[s]
  <1>1. \A t \in Steps : Here(t) => t # s
    BY DEF Here, Passed, Done
  <1>2. \A t \in Steps : Acting(t) => t # s
    BY Acted
  <1>3. status \in [Steps -> {"PENDING", "RUNNING", "COMPLETED", "FAILED", "SKIPPED"}]
    BY DEF IInv, TypeOK
  <1>4. CASE UNCHANGED vars \/ Launch \/ EndPass \/ Stop \/ Crash
    BY <1>4 DEF vars, Launch, EndPass, Stop, Crash, record
  <1>5. ASSUME NEW t \in Steps, Skip(t) \/ Begin(t) \/ Unresolvable(t)
        PROVE  status'[s] = "COMPLETED" /\ attempts'[s] = attempts[s] /\ outputs'[s] = outputs[s]
    <2>1. t # s
      BY <1>1, <1>5 DEF Skip, Begin, Unresolvable
    <2> QED
      BY <2>1, <1>3, <1>5 DEF Skip, Begin, Unresolvable, record, IInv, TypeOK
  <1>6. ASSUME NEW t \in Steps, t # s, NEW technical \in BOOLEAN, NEW then, Fail(t, technical, then)
        PROVE  status'[s] = "COMPLETED"
    BY <1>3, <1>6 DEF Fail
  <1>7. ASSUME NEW t \in Steps, Succeed(t) \/ Technical(t) \/ Invalid(t) \/ MeetStop(t) \/ SucceedUnsaved(t)
        PROVE  status'[s] = "COMPLETED" /\ attempts'[s] = attempts[s] /\ outputs'[s] = outputs[s]
    <2>1. t # s
      BY <1>2, <1>7 DEF Succeed, Technical, Invalid, MeetStop, SucceedUnsaved
    <2>2. attempts' = attempts /\ outputs' \in {outputs, [outputs EXCEPT ![t] = attempts[t]]}
      BY <1>7 DEF Succeed, Technical, Invalid, MeetStop, SucceedUnsaved
    <2>3. status'[s] = "COMPLETED"
      <3>1. CASE Succeed(t) \/ MeetStop(t)
        BY <3>1, <2>1, <1>3 DEF Succeed, MeetStop, StopDurably
      <3>2. CASE Technical(t)
        BY <3>2, <2>1, <1>6 DEF Technical
      <3>3. CASE Invalid(t)
        BY <3>3, <2>1, <1>6 DEF Invalid
      <3>4. CASE SucceedUnsaved(t)
        BY <3>4, <2>1, <1>6 DEF SucceedUnsaved
      <3> QED
        BY <1>7, <3>1, <3>2, <3>3, <3>4
    <2> QED
      BY <2>1, <2>2, <2>3 DEF IInv, TypeOK
  <1>8. CASE StopUnsaved
    <2>1. cur \in Steps /\ cur # s
      BY <1>8 DEF StopUnsaved, IInv, Standing
    <2> QED
      BY <2>1, <1>6, <1>8 DEF StopUnsaved
  <1> QED
    BY <1>4, <1>5, <1>7, <1>8 DEF Next, CoordinatorStep, FaultStep

\* "Rerunning the same command never repeats a COMPLETED action": neither
\* its status, its attempts nor its outputs change, in any workflow.
THEOREM CompletedIsFinal == Spec => NeverRepeated
  <1>1. IInv /\ [Next]_vars =>
          [\A s \in Steps :
             status[s] = "COMPLETED" /\ plan.action[s] # "stop"
               => /\ status'[s] = "COMPLETED"
                  /\ attempts'[s] = attempts[s]
                  /\ outputs'[s] = outputs[s]]_vars
    BY CompletedStands
  <1> QED
    BY <1>1, Invariance, PTL DEF Spec, NeverRepeated
=============================================================================
