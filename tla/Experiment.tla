------------------------------- MODULE Experiment -------------------------------
(***************************************************************************)
(* ExperimentRunnerV2 (scenarios/experiment/runner.py): independent arms    *)
(* are trained from one parent, an Arena compares their final checkpoints, *)
(* and the winner may be the parent of a second stage; or, offline, every  *)
(* arm is compared with a reference and nothing is decided.  The runner    *)
(* may be killed between any two effects and is launched again; a state of *)
(* the runner before this one (version 2) is migrated.                     *)
(*                                                                         *)
(* Training one generation and playing an Arena have modules of their own; *)
(* here both reuse what is committed.  The identities that are compared on *)
(* a resume follow from the configuration, which does not change.          *)
(***************************************************************************)
EXTENDS Naturals, FiniteSets

CONSTANTS
  Kinds,      \* the experiments: some of "single", "double", "offline", "legacy"
  Gens,       \* generations of an arm
  MaxFaults,  \* bound: crashes, failed generations, failed Arenas
  MaxCalls    \* bound: launches of an experiment that has ended

ExperimentAssumption ==
  /\ Kinds \subseteq {"single", "double", "offline", "legacy"}
  /\ Gens \in Nat \ {0} /\ {MaxFaults, MaxCalls} \subseteq Nat

VARIABLES
  kind,   \* the configuration
  disk,   \* state.json of the experiment
  world,  \* lineages of the arms and stored evaluations
  mem,    \* the runner
  count   \* faults and launches

experimentVars == <<kind, disk, world, mem, count>>

Stages == {1, 2}
Arms == {"A", "B", "control", "C"}
Candidate(stage) == IF stage = 1 THEN "B" ELSE "C"
Reference(stage) == IF stage = 1 THEN "A" ELSE "control"
ArmsOf(stage) == {Candidate(stage), Reference(stage)}
None == "none"
Verdicts == {"invalid", "win", "loss"}

\* An Arena is named by its candidate; offline, A and B meet the reference.
Contests == {"A", "B", "C"}

\* WinnerRule.choose: the candidate if it won more games than it lost.
Winner(stage, verdict) == IF verdict = "win" THEN Candidate(stage) ELSE Reference(stage)

Ended == {"returned", "failed"}

ExperimentTypeOK ==
  /\ kind \in Kinds
  /\ disk \in [state : {None, "RUNNING", "STAGE1_ARENA", "STAGE2_RUNNING", "STAGE2_ARENA",
                        "ARENA_INVALID", "STOPPED"},
               legacy : BOOLEAN, current : [Arms -> 0..Gens], final : SUBSET Arms,
               arena : [Contests -> Verdicts \cup {None}],
               winner : [Stages -> Arms \cup {None}], parent : Arms \cup {None}]
  /\ world \in [trained : [Arms -> 0..Gens], origin : [Arms -> Arms \cup {None}],
                evaluation : [Contests -> Verdicts \cup {None}]]
  /\ mem \in [pc : {"idle", "train", "arena", "record", "judge", "advance"} \cup Ended,
              stage : Stages, at : 0..Gens, contest : Contests,
              result : Verdicts \cup {None}]
  /\ count \in [faults : 0..MaxFaults, calls : 0..MaxCalls]

Idle == [pc |-> "idle", stage |-> 1, at |-> 0, contest |-> "B", result |-> None]
New == [state |-> None, legacy |-> FALSE, current |-> [a \in Arms |-> 0], final |-> {},
        arena |-> [c \in Contests |-> None], winner |-> [s \in Stages |-> None],
        parent |-> None]
Untouched == [trained |-> [a \in Arms |-> 0], origin |-> [a \in Arms |-> None],
              evaluation |-> [c \in Contests |-> None]]

\* What the runner of version 2 left in some state, with its arms A and B final or
\* not, and the Arena of an experiment that it had stopped.
Left(s, f, v) ==
  <<[New EXCEPT !.legacy = TRUE, !.state = s, !.final = f, !.arena["B"] = v],
    [Untouched EXCEPT !.trained = [a \in Arms |-> IF a \in f THEN Gens ELSE 0],
                      !.evaluation["B"] = v]>>
Legacy ==
  {Left(s, f, v) : s \in {"RUNNING", "STAGE1_ARENA", "STOPPED"}, f \in SUBSET {"A", "B"},
                   v \in Verdicts \cup {None}}

ExperimentInit ==
  /\ kind \in Kinds /\ mem = Idle /\ count = [faults |-> 0, calls |-> 0]
  /\ IF kind # "legacy" THEN disk = New /\ world = Untouched
     ELSE \E old \in Legacy :
            /\ old[1].state = "RUNNING" => old[1].arena["B"] = None
            /\ old[1].state = "STAGE1_ARENA" => old[1].final = {"A", "B"} /\ old[1].arena["B"] = None
            /\ old[1].state = "STOPPED" => old[1].final = {"A", "B"} /\ old[1].arena["B"] # None
            /\ disk = old[1] /\ world = old[2]

Goto(pc) == mem' = [mem EXCEPT !.pc = pc]
Fault == count.faults < MaxFaults /\ count' = [count EXCEPT !.faults = @ + 1]

-----------------------------------------------------------------------------
(* Launching.                                                              *)

\* _migrate_legacy_state: a winner is decided from a valid Arena, and a claim
\* to have stopped is not kept for another.
Migrated ==
  LET v == disk.arena["B"] IN
  [disk EXCEPT !.legacy = FALSE,
     !.state = IF v = "invalid" THEN "ARENA_INVALID" ELSE @,
     !.winner[1] = IF v \in {"win", "loss"} THEN Winner(1, v) ELSE None]

\* _load_or_create_state.
Loaded ==
  IF disk.legacy THEN Migrated
  ELSE [disk EXCEPT !.state = IF @ = None THEN "RUNNING" ELSE @]

Launch ==
  /\ mem.pc = "idle"
  /\ disk' = Loaded
  /\ Goto(CASE Loaded.state = "STOPPED" -> "returned"
            [] Loaded.state = "ARENA_INVALID" -> "failed"
            [] OTHER -> "train")
  /\ UNCHANGED <<kind, world, count>>

\* The operator runs an experiment again that has returned or failed.
Relaunch ==
  /\ mem.pc \in Ended
  /\ count.calls < MaxCalls /\ count' = [count EXCEPT !.calls = @ + 1]
  /\ mem' = Idle
  /\ UNCHANGED <<kind, disk, world>>

Crash ==
  /\ mem.pc \notin Ended \cup {"idle"} /\ Fault
  /\ mem' = Idle
  /\ UNCHANGED <<kind, disk, world>>

-----------------------------------------------------------------------------
(* Training: _run_arms.                                                    *)

\* The arm that is next, in the order of the configuration.
Open(stage) == ArmsOf(stage) \ disk.final
NextArm(stage) ==
  IF Reference(stage) \in Open(stage) THEN Reference(stage) ELSE Candidate(stage)

Parent(stage) == IF stage = 1 THEN None ELSE disk.parent

\* Offline, an arm goes on where its record says; else from the parent, and
\* generations that are committed are not trained again.
At(arm) == IF kind = "offline" /\ mem.at = 0 THEN disk.current[arm] ELSE mem.at

TrainOne ==
  LET arm == NextArm(mem.stage)
      g == At(arm) + 1
  IN /\ mem.pc = "train" /\ Open(mem.stage) # {} /\ At(arm) < Gens
     /\ world' = [world EXCEPT !.trained[arm] = IF g > @ THEN g ELSE @,
          !.origin[arm] = IF world.trained[arm] = 0 THEN Parent(mem.stage) ELSE @]
     /\ disk' = [disk EXCEPT !.current[arm] = IF kind = "offline" THEN g ELSE @]
     /\ mem' = [mem EXCEPT !.at = g]
     /\ UNCHANGED <<kind, count>>

FinishArm ==
  LET arm == NextArm(mem.stage) IN
  /\ mem.pc = "train" /\ Open(mem.stage) # {} /\ At(arm) = Gens
  /\ disk' = [disk EXCEPT !.final = @ \cup {arm}]
  /\ mem' = [mem EXCEPT !.at = 0]
  /\ UNCHANGED <<kind, world, count>>

\* A generation fails, or an Arena does: the exception ends the launch.
Fails ==
  /\ mem.pc \in {"train", "arena"} /\ Fault
  /\ Goto("failed")
  /\ UNCHANGED <<kind, disk, world>>

\* The arms of the stage are final: the first Arena, or the next of _run_offline.
ArmsDone ==
  /\ mem.pc = "train" /\ Open(mem.stage) = {}
  /\ IF kind = "offline"
       THEN /\ mem' = [mem EXCEPT !.pc = "arena", !.contest = "A"]
            /\ UNCHANGED disk
       ELSE /\ mem' = [mem EXCEPT !.pc = "arena", !.contest = Candidate(mem.stage)]
            /\ disk' = [disk EXCEPT !.state = IF mem.stage = 1 THEN "STAGE1_ARENA"
                                              ELSE "STAGE2_ARENA"]
  /\ UNCHANGED <<kind, world, count>>

-----------------------------------------------------------------------------
(* Deciding: _stage_arena, _stop, and the rest of run and _run_offline.    *)

\* Mutant: an evaluation that is not valid is played again.
RunArenaAgain ==
  /\ mem.pc = "arena"
  /\ \E v \in IF world.evaluation[mem.contest] \in {None, "invalid"} THEN Verdicts
              ELSE {world.evaluation[mem.contest]} :
       /\ world' = [world EXCEPT !.evaluation[mem.contest] = v]
       /\ mem' = [mem EXCEPT !.pc = "record", !.result = v]
  /\ UNCHANGED <<kind, disk, count>>

\* An evaluation that is stored is what the Arena runner returns, valid or not.
RunArena ==
  /\ mem.pc = "arena"
  /\ \E v \in IF world.evaluation[mem.contest] = None THEN Verdicts
              ELSE {world.evaluation[mem.contest]} :
       /\ world' = [world EXCEPT !.evaluation[mem.contest] = v]
       /\ mem' = [mem EXCEPT !.pc = "record", !.result = v]
  /\ UNCHANGED <<kind, disk, count>>

\* The evidence is kept once.  Offline, an Arena that is not valid is not kept,
\* the launch fails, and the last one ends the experiment after the report.
Record ==
  /\ mem.pc = "record"
  /\ IF kind # "offline"
       THEN /\ disk' = [disk EXCEPT !.arena[mem.contest] = IF @ = None THEN mem.result ELSE @]
            /\ Goto("judge")
     ELSE IF mem.result = "invalid" THEN Goto("failed") /\ UNCHANGED disk
     ELSE /\ disk' = [disk EXCEPT !.arena[mem.contest] = mem.result]
          /\ mem' = [mem EXCEPT !.pc = IF mem.contest = "A" THEN "arena" ELSE "advance",
                                !.contest = "B"]
  /\ UNCHANGED <<kind, world, count>>

\* A decision that is stored must agree with the evidence of this launch.
Judge ==
  LET s == mem.stage
      w == Winner(s, mem.result)
  IN /\ mem.pc = "judge"
     /\ IF mem.result = "invalid"
          THEN disk' = [disk EXCEPT !.state = "ARENA_INVALID"] /\ Goto("failed")
        ELSE IF disk.winner[s] \notin {None, w}
          THEN UNCHANGED disk /\ Goto("failed")
        ELSE disk' = [disk EXCEPT !.winner[s] = w] /\ Goto("advance")
     /\ UNCHANGED <<kind, world, count>>

\* Stage 2 starts from the winner of stage 1, or the experiment stops.
Advance ==
  /\ mem.pc = "advance"
  /\ IF kind = "double" /\ mem.stage = 1
       THEN IF disk.parent \notin {None, disk.winner[1]}
              THEN Goto("failed") /\ UNCHANGED disk
            ELSE /\ disk' = [disk EXCEPT !.parent = disk.winner[1], !.state = "STAGE2_RUNNING"]
                 /\ mem' = [mem EXCEPT !.pc = "train", !.stage = 2, !.at = 0]
     ELSE /\ disk' = [disk EXCEPT !.state = "STOPPED"]
          /\ Goto("returned")
  /\ UNCHANGED <<kind, world, count>>

RunnerStep ==
  \/ Launch \/ TrainOne \/ FinishArm \/ ArmsDone
  \/ RunArena \/ Record \/ Judge \/ Advance

ExperimentNext == RunnerStep \/ Relaunch \/ Fails \/ Crash

\* A runner that can go on does, and an operator launches one that has failed.
ExperimentFairness ==
  WF_experimentVars(RunnerStep) /\ WF_experimentVars(Relaunch /\ mem.pc = "failed")

ExperimentSpec == ExperimentInit /\ [][ExperimentNext]_experimentVars /\ ExperimentFairness

-----------------------------------------------------------------------------
(* Properties.                                                             *)

Decided(stage) == disk.winner[stage] # None

\* A winner is decided from the kept evidence, which is valid, is that of the
\* stored evaluation, and compares arms trained to the end; also in a state
\* that was migrated, and though every launch goes through all stages again.
DecisionsAreSound ==
  /\ \A s \in Stages : Decided(s) =>
       LET c == Candidate(s) IN
       /\ disk.arena[c] \in {"win", "loss"} /\ disk.arena[c] = world.evaluation[c]
       /\ disk.winner[s] = Winner(s, disk.arena[c])
       /\ \A a \in ArmsOf(s) : world.trained[a] = Gens
  /\ disk.state = "STOPPED" /\ ~disk.legacy =>
       IF kind = "offline" THEN \A a \in {"A", "B"} : disk.arena[a] \in {"win", "loss"}
       ELSE Decided(IF kind = "double" THEN 2 ELSE 1)

\* No generation of the second stage is trained before the first has a winner,
\* and all of them descend from that winner.
SecondStageDescends ==
  \A a \in ArmsOf(2) : world.trained[a] > 0 => Decided(1) /\ world.origin[a] = disk.winner[1]

\* With faults that end and an operator who launches it again, it is settled;
\* only an invalid Arena of an offline experiment leaves it open.
Concluded ==
  \/ disk.state \in {"STOPPED", "ARENA_INVALID"} /\ ~disk.legacy
  \/ kind = "offline" /\ \E c \in Contests : world.evaluation[c] = "invalid"
ExperimentEnds == <>Concluded
=============================================================================
