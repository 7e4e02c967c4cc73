------------------------------- MODULE Adaptation -------------------------------
(***************************************************************************)
(* The staged adaptation of a model (orchestrator_v2/adaptation.py): a     *)
(* stage trains in blocks, saves and validates them, plays an Arena and    *)
(* writes a report; the next stage needs a decision for that report.  The  *)
(* phases are actions of the workflow engine (run_workflow_phase), which   *)
(* launches again what it lost; beside it an operator may stop the run     *)
(* (write_decision) or prepare a new run from the stage's start            *)
(* (retry_phase).                                                          *)
(*                                                                         *)
(* Stage 0 collects the first games; the phases begin after its review.    *)
(* A checkpoint is the number of saves it was trained for.                 *)
(***************************************************************************)
EXTENDS Integers

CONSTANTS
  LastStage,  \* the last of STAGES
  Saves,      \* saves of a block: one every 40 updates of 160
  Ends,       \* the save at which each stage ends
  PinAt,      \* the checkpoint that the execution pin is bound to
  MaxFaults   \* bound: crashes

AdaptationAssumption ==
  /\ {LastStage, Saves} \subseteq Nat \ {0} /\ {PinAt, MaxFaults} \subseteq Nat
  /\ Ends \in [1..LastStage -> Nat]
  /\ \A s \in 1..LastStage : Ends[s] % Saves = 0 /\ \A r \in 1..s-1 : Ends[r] < Ends[s]

VARIABLES
  disk,  \* state.json, decision.json and the report that the state names
  mem,   \* the phase that runs: where it is, and the result of its Arena
  env    \* crashes, the stop that was checked; what was decided (history)

adaptVars == <<disk, mem, env>>

None == [action |-> "none", report |-> 0]
Decisions == [action : {"none", "continue", "stop"}, report : Nat]
Gates == {"PASS", "INCONCLUSIVE", "FAIL"}
Down == [pc |-> "down", gate |-> "PASS"]

AdaptationTypeOK ==
  /\ disk.status \in {"READY", "RUNNING", "NEEDS_REVIEW", "STOPPED", "FAILED"}
  /\ disk.error \in {"none", "code", "decision", "other"}
  /\ disk.stage \in 0..LastStage /\ disk.update \in 0..Ends[LastStage]
  /\ disk.validated \in 0..Ends[LastStage] /\ disk.bad \in 0..2
  /\ disk.start \in 0..Ends[LastStage] /\ disk.champion \in 0..Ends[LastStage]
  /\ disk.report \in [id : Nat, stage : 0..LastStage, checkpoint : Nat, validation : Nat,
                      gate : Gates]
  /\ disk.decision \in Decisions /\ disk.last \in Decisions /\ disk.foreign \in BOOLEAN
  /\ mem.pc \in {"down", "consume", "archive", "loop", "train", "validate", "arena", "finish"}
  /\ mem.gate \in Gates

\* The first games were collected and reviewed.
AdaptationInit ==
  /\ disk = [status |-> "NEEDS_REVIEW", error |-> "none", stage |-> 0, update |-> 0,
             validated |-> 0, bad |-> 0, start |-> 0, champion |-> 0,
             report |-> [id |-> 1, stage |-> 0, checkpoint |-> 0, validation |-> 0,
                         gate |-> "PASS"],
             decision |-> None, last |-> None, foreign |-> FALSE]
  /\ mem = Down
  /\ env = [faults |-> 0, checked |-> 0, decided |-> {}, skipped |-> FALSE]

Goes(pc) == mem' = [mem EXCEPT !.pc = pc]

-----------------------------------------------------------------------------
(* Decisions.                                                              *)

\* write_decision: PASS, or INCONCLUSIVE if the reviewer allows it.
Admitted(report) == report.gate # "FAIL" /\ disk.stage < LastStage

\* run_workflow_phase for the next stage: its review must be of the report
\* that the state names; a decision that is pending must be that one.
LaunchNext ==
  /\ mem.pc = "down" /\ ~disk.foreign /\ disk.stage < LastStage
  /\ disk.status \notin {"FAILED", "STOPPED"}
  /\ \/ /\ disk.decision = None /\ disk.status = "NEEDS_REVIEW" /\ Admitted(disk.report)
        /\ disk' = [disk EXCEPT !.decision =
                      [action |-> "continue", report |-> disk.report.id]]
        /\ env' = [env EXCEPT !.decided = @ \cup {disk.report}]
     \/ /\ disk.decision = [action |-> "continue", report |-> disk.report.id]
        /\ UNCHANGED <<disk, env>>
  /\ Goes("consume")

\* run_workflow_phase for the stage that the state is in: there is something
\* to resume, or a decision to consume.
LaunchSame ==
  /\ mem.pc = "down" /\ ~disk.foreign /\ disk.stage > 0
  /\ \/ disk.status \in {"READY", "RUNNING"}
     \/ disk.status = "NEEDS_REVIEW" /\ disk.decision # None
  /\ Goes("loop") /\ UNCHANGED <<disk, env>>

\* recover_code_rollover, when the pin is of the checkpoint that failed.
Recover ==
  /\ mem.pc = "down" /\ ~disk.foreign
  /\ disk.status = "FAILED" /\ disk.error = "code" /\ disk.update = PinAt
  /\ disk' = [disk EXCEPT !.status = "READY", !.error = "none"]
  /\ UNCHANGED <<mem, env>>

\* decide --action stop: the state is read first, the file is written later.
StopCheck ==
  /\ env.checked = 0 /\ disk.status = "NEEDS_REVIEW" /\ ~disk.foreign
  /\ env' = [env EXCEPT !.checked = disk.report.id] /\ UNCHANGED <<disk, mem>>

StopWrite ==
  /\ env.checked # 0 /\ ~disk.foreign
  /\ disk' = IF disk.decision # None THEN disk
             ELSE [disk EXCEPT !.decision = [action |-> "stop", report |-> env.checked]]
  /\ env' = [env EXCEPT !.checked = 0] /\ UNCHANGED mem

Fail(error) ==
  /\ disk' = [disk EXCEPT !.status = "FAILED", !.error = error]
  /\ mem' = Down /\ UNCHANGED env

\* The state after a decision was applied; the champion plays from now on.
Applied(d) ==
  IF d.action = "stop"
    THEN [disk EXCEPT !.status = "STOPPED", !.last = d]
    ELSE [disk EXCEPT !.stage = @ + 1, !.status = "READY", !.champion = disk.update,
                      !.start = disk.update, !.last = d]

\* Mutant: the report that a decision is for is not looked at.
StaleIgnored(d) == FALSE

Stale(d) == d.report # disk.report.id

\* consume_decision.  In run (pc = loop) what it raises fails the run.
Consume ==
  LET d == disk.decision IN
  /\ \/ mem.pc = "consume"
     \/ mem.pc = "loop" /\ disk.status = "NEEDS_REVIEW" /\ d # None
  /\ \/ /\ d = disk.last
        /\ disk' = [disk EXCEPT !.decision = None] /\ Goes("loop") /\ UNCHANGED env
     \/ /\ d # disk.last /\ ~Stale(d)
        /\ d.action = "stop" \/ Admitted(disk.report)
        /\ disk' = Applied(d) /\ Goes("archive") /\ UNCHANGED env
     \/ /\ d # disk.last
        /\ Stale(d) \/ (d.action = "continue" /\ ~Admitted(disk.report))
        /\ IF mem.pc = "loop" THEN Fail("decision")
           ELSE mem' = Down /\ UNCHANGED <<disk, env>>

\* The file is renamed after the state has the decision.
Archive ==
  /\ mem.pc = "archive" /\ disk' = [disk EXCEPT !.decision = None]
  /\ Goes("loop") /\ UNCHANGED env

-----------------------------------------------------------------------------
(* A phase.                                                                *)

\* run: back at a review or at the end; else a stage goes on.
Return ==
  /\ mem.pc = "loop"
  /\ \/ disk.status \in {"STOPPED", "FAILED"}
     \/ disk.status = "NEEDS_REVIEW" /\ disk.decision = None
  /\ mem' = Down /\ UNCHANGED <<disk, env>>

Resume ==
  /\ mem.pc = "loop" /\ disk.status \in {"READY", "RUNNING"}
  /\ disk' = [disk EXCEPT !.status = "RUNNING",
                          !.decision = IF @ = disk.last THEN None ELSE @]
  /\ Goes("train") /\ UNCHANGED env

\* train_phase up to the next save, which may end a block.
Train ==
  /\ mem.pc = "train" /\ disk.update < Ends[disk.stage]
  /\ disk' = [disk EXCEPT !.update = @ + 1]
  /\ Goes(IF disk'.update % Saves = 0 THEN "validate" ELSE "train") /\ UNCHANGED env

\* The games of a later block may not be played by another code.
CodeChanges ==
  /\ mem.pc = "train" /\ disk.update < Ends[disk.stage]
  /\ disk.update > 0 /\ disk.update % Saves = 0 /\ Fail("code")

\* Spikes, too few games, an Arena that fails or has technical games.
ScienceFails == mem.pc \in {"train", "arena"} /\ Fail("other")

\* The block is evaluated; two regressions in a row need a review.
Validate ==
  /\ mem.pc = "validate"
  /\ \E bad \in {0, disk.bad + 1} :
       LET kept == [disk EXCEPT !.validated = disk.update, !.bad = bad] IN
       IF bad >= 2
         THEN /\ disk' = [kept EXCEPT !.status = "FAILED", !.error = "other"]
              /\ mem' = Down
         ELSE disk' = kept /\ Goes("train")
  /\ UNCHANGED env

TrainingDone ==
  /\ mem.pc = "train" /\ disk.update = Ends[disk.stage]
  /\ Goes("arena") /\ UNCHANGED <<disk, env>>

\* evaluate_phase; the report needs a validation, whichever is the last.
Evaluate ==
  /\ mem.pc = "arena" /\ UNCHANGED env
  /\ IF disk.validated = 0
       THEN disk' = [disk EXCEPT !.status = "FAILED", !.error = "other"] /\ mem' = Down
       ELSE /\ \E gate \in Gates : mem' = [pc |-> "finish", gate |-> gate]
            /\ UNCHANGED disk

Finish ==
  /\ mem.pc = "finish"
  /\ disk' = [disk EXCEPT !.status = "NEEDS_REVIEW",
       !.report = [id |-> @.id + 1, stage |-> disk.stage, checkpoint |-> disk.update,
                   validation |-> disk.validated, gate |-> mem.gate]]
  /\ Goes("loop") /\ UNCHANGED env

\* A crash between the last save of a block and its validation is remembered.
Crash ==
  /\ mem.pc # "down" /\ env.faults < MaxFaults
  /\ env' = [env EXCEPT !.faults = @ + 1, !.skipped = (@ \/ mem.pc = "validate")]
  /\ mem' = Down /\ UNCHANGED disk

\* retry_phase: the new run names the games of the old one, which the artifact
\* graph does not admit in it; without games (stage 0) no phase starts it.
Retry ==
  /\ mem.pc = "down" /\ ~disk.foreign /\ disk.status \in {"NEEDS_REVIEW", "FAILED"}
  /\ disk' = [disk EXCEPT !.status = "READY", !.error = "none", !.update = disk.start,
                          !.decision = None, !.last = None, !.foreign = TRUE]
  /\ UNCHANGED <<mem, env>>

PhaseStep ==
  \/ LaunchNext \/ LaunchSame \/ Consume \/ Archive \/ Return \/ Resume
  \/ Train \/ Validate \/ TrainingDone \/ Evaluate \/ Finish

AdaptationNext ==
  \/ PhaseStep \/ Recover \/ StopCheck \/ StopWrite
  \/ CodeChanges \/ ScienceFails \/ Crash \/ Retry

AdaptationSpec ==
  AdaptationInit /\ [][AdaptationNext]_adaptVars /\ WF_adaptVars(PhaseStep)

-----------------------------------------------------------------------------
(* Properties.                                                             *)

\* A stage is entered on a decision for the report of the stage before, whose
\* checkpoint became the champion.
StagesAreReviewed ==
  disk.stage > 0 => \E r \in env.decided : /\ r.stage = disk.stage - 1 /\ r.gate # "FAIL"
                                           /\ r.checkpoint = disk.champion

\* A run is stopped for the report that is under review, not by an old decision.
StopsAreReviewed == disk.status = "STOPPED" => disk.last.report = disk.report.id

\* The validation in a report is of its checkpoint, unless a crash lost it.
ReportsAreOwn ==
  disk.report.validation # disk.report.checkpoint => env.skipped

\* A decision that was consumed is never in the way: only a stop that was
\* checked before the review changed fails the run.
DecisionsDoNotFail ==
  disk.error = "decision" => disk.decision.action = "stop" /\ Stale(disk.decision)

AdaptationIsSound ==
  StagesAreReviewed /\ StopsAreReviewed /\ ReportsAreOwn /\ DecisionsDoNotFail

\* The run comes to its last review, to a gate that is not passed, or to a
\* state that needs an operator: a stop of stage 0 is one that no phase consumes.
Settled ==
  /\ mem.pc = "down"
  /\ \/ disk.status \in {"STOPPED", "FAILED"} \/ disk.foreign
     \/ /\ disk.status = "NEEDS_REVIEW"
        /\ \/ disk.stage = LastStage \/ disk.report.gate = "FAIL"
           \/ disk.stage = 0 /\ disk.decision.action = "stop"
=============================================================================
