--------------------------- MODULE PerformanceTuning ---------------------------
(***************************************************************************)
(* The standalone tuner (performance_tuning/runner.py): it trains one      *)
(* generation for each planned mode of execution, measures it, and selects *)
(* a profile.  Commands that run the tuner share one durable state and the *)
(* lock of the owner; the generations are those of ProductionTrainOne      *)
(* (orchestrator_v2/production_generation.py), whose supervisor leaves a   *)
(* durable stop in the lineage when it gives up.                           *)
(*                                                                         *)
(* Mode 0 is the baseline.  A mode with a higher number plays more games   *)
(* per hour; the scientific contract, equal for all, is not modelled.      *)
(***************************************************************************)
EXTENDS Naturals, FiniteSets, FiniteSetsExt

CONSTANTS
  NumModes,     \* modes beside the baseline
  MaxActions,   \* measurement_budget.max_actions
  NumCommands,  \* bound: commands that run the tuner
  MaxFaults     \* bound: crashes of commands and failures of generations

\* Plan.__post_init__ refuses a smaller budget.
TuningAssumption ==
  /\ {NumModes, MaxFaults} \subseteq Nat /\ NumCommands \in Nat \ {0}
  /\ MaxActions \in Nat /\ MaxActions >= NumModes + 1

VARIABLES
  disk,     \* state.json of the tuning
  lineage,  \* the owner: committed generations, the stop, what was launched
  command,  \* PerformanceTuningRunner.run of each command
  faults

tuningVars == <<disk, lineage, command, faults>>

Modes == 0..NumModes
Commands == 1..NumCommands
Baseline == 0
None == NumModes + 1
Generations == 1..(2 * NumModes + 1)
Nobody == 0

\* `resume` is the index after a fallback, 0 when there is no intent.
Fresh == [status |-> "RUNNING", index |-> 0, resume |-> 0, at |-> 0, consumed |-> 0,
          seen |-> {}, failed |-> {}, selected |-> None]

States == [status : {"RUNNING", "COMPLETED", "FAILED"}, index : 0..NumModes + 1,
           resume : 0..NumModes + 1, at : 0..2 * NumModes + 1,
           consumed : 0..2 * NumModes + 1,
           seen : SUBSET [generation : Generations, mode : Modes, stable : BOOLEAN],
           failed : SUBSET Modes, selected : Modes \cup {None}]

TuningInit ==
  /\ disk = Fresh
  /\ lineage = [committed |-> [g \in Generations |-> None], stop |-> FALSE,
                launched |-> {}, owner |-> Nobody]
  /\ command = [c \in Commands |-> [pc |-> "idle", state |-> Fresh]]
  /\ faults = 0

TuningTypeOK ==
  /\ disk \in States /\ faults \in 0..MaxFaults
  /\ lineage \in [committed : [Generations -> Modes \cup {None}], stop : BOOLEAN,
                  launched : SUBSET (Generations \X Modes), owner : Commands \cup {Nobody}]
  /\ \A c \in Commands :
       /\ command[c].pc \in {"idle", "loaded", "choose", "invoke", "ended"}
       /\ command[c].state \in States

Fault == faults < MaxFaults /\ faults' = faults + 1

\* The command goes on at pc with this state; storage.save has written it.
Saves(c, pc, state) ==
  /\ disk' = state
  /\ command' = [command EXCEPT ![c] = [pc |-> pc, state |-> state]]

\* The context of the lock is left.
Ends(c, state) == Saves(c, "ended", state) /\ lineage' = [lineage EXCEPT !.owner = Nobody]

\* _state: a new state, or what is on disk, but not one that has failed.
Load(c) ==
  /\ command[c].pc = "idle"
  /\ command' = [command EXCEPT ![c] =
       [pc |-> IF disk.status = "FAILED" THEN "ended" ELSE "loaded", state |-> disk]]
  /\ UNCHANGED <<disk, lineage, faults>>

\* _OwnerLock: not waited for.
Lock(c) ==
  /\ command[c].pc = "loaded"
  /\ IF lineage.owner = Nobody
       THEN /\ command' = [command EXCEPT ![c].pc = "choose"]
            /\ lineage' = [lineage EXCEPT !.owner = c]
       ELSE /\ command' = [command EXCEPT ![c].pc = "ended"]
            /\ UNCHANGED lineage
  /\ UNCHANGED <<disk, faults>>

\* choose_next: the fallback that is due, or the next mode of the plan.
Pending(s) == s.resume > 0
Due(s) == IF Pending(s) THEN Baseline ELSE s.index

\* select_mode: the fastest of those that were measured and never failed.
Stable(s) == {o.mode : o \in {x \in s.seen : x.stable}} \ s.failed
Selection(s) == IF Stable(s) = {} THEN Baseline ELSE Max(Stable(s))

\* FINISH, also of a state that was selected before; STOP_WITH_ERROR when a
\* mode of the plan has no evidence.
Choose(c) ==
  LET s == command[c].state
      covered == Modes \subseteq {o.mode : o \in s.seen} \cup s.failed
  IN /\ command[c].pc = "choose"
     /\ IF s.selected # None
          THEN Ends(c, [s EXCEPT !.status = "COMPLETED"])
        ELSE IF Pending(s) \/ s.index <= NumModes
          THEN Saves(c, "invoke", s) /\ UNCHANGED lineage
        ELSE IF covered
          THEN Ends(c, [s EXCEPT !.selected = Selection(s), !.status = "COMPLETED"])
        ELSE Ends(c, [s EXCEPT !.status = "FAILED"])
     /\ UNCHANGED faults

Next1(s) == s.at + 1

\* The observation replaces the one of the same action, and the index moves on.
Observed(s, g, stable) ==
  [s EXCEPT !.at = g, !.consumed = @ + 1,
            !.seen = @ \cup {[generation |-> g, mode |-> Due(s), stable |-> stable]},
            !.index = IF Pending(s) THEN s.resume ELSE @ + 1, !.resume = 0]

\* Mutant: what was executed is not compared with the mode.
MatchesAny(g, mode) == lineage.committed[g] # None \/ mode = None

\* assess_observation: the executed values are those of the mode.
Matches(g, mode) == lineage.committed[g] = mode

\* A generation that is committed already is taken as it is.
Reuse(c) ==
  LET s == command[c].state IN
  /\ command[c].pc = "invoke" /\ lineage.committed[Next1(s)] # None
  /\ \E good \in BOOLEAN :
       Saves(c, "choose", Observed(s, Next1(s), good /\ Matches(Next1(s), Due(s))))
  /\ UNCHANGED <<lineage, faults>>

\* The generation runs and commits; its metrics may be unstable.
Trains(c) ==
  LET s == command[c].state
      g == Next1(s)
  IN /\ command[c].pc = "invoke" /\ lineage.committed[g] = None /\ ~lineage.stop
     /\ \E good \in BOOLEAN : Saves(c, "choose", Observed(s, g, good))
     /\ lineage' = [lineage EXCEPT !.committed[g] = Due(s),
                                   !.launched = @ \cup {<<g, Due(s)>>}]
     /\ UNCHANGED faults

\* The failed mode is rejected.  A technical failure of a mode, within the
\* budget, leaves the intent to run the baseline; any other ends the tuning.
AfterFailure(s, technical) ==
  LET failed == [s EXCEPT !.consumed = @ + 1, !.failed = @ \cup {Due(s)}]
      retries == Due(s) # Baseline /\ technical /\ s.consumed + 1 < MaxActions
  IN IF retries THEN [failed EXCEPT !.resume = s.index + 1]
     ELSE [failed EXCEPT !.status = "FAILED"]

Rejects(c, technical) ==
  LET s == AfterFailure(command[c].state, technical) IN
  IF s.status = "FAILED" THEN Saves(c, "ended", s) ELSE Saves(c, "choose", s)

Released(c) == IF command'[c].pc = "ended" THEN Nobody ELSE c

\* The supervisor gives up (a durable stop), or an OSError or a timeout; or
\* another failure, which is not retried.
TrainFails(c) ==
  LET s == command[c].state
      g == Next1(s)
  IN /\ command[c].pc = "invoke" /\ lineage.committed[g] = None /\ ~lineage.stop
     /\ Fault
     /\ \E how \in {"gave up", "transient", "unknown"} :
          /\ Rejects(c, how # "unknown")
          /\ lineage' = [lineage EXCEPT !.launched = @ \cup {<<g, Due(s)>>},
                !.stop = @ \/ how = "gave up", !.owner = Released(c)]

\* With a stop in the lineage nothing is launched; the error of that is a
\* technical failure too, and the executor acknowledges no stop.
Stopped(c) ==
  /\ command[c].pc = "invoke" /\ lineage.stop
  /\ lineage.committed[Next1(command[c].state)] = None
  /\ Rejects(c, TRUE)
  /\ lineage' = [lineage EXCEPT !.owner = Released(c)]
  /\ UNCHANGED faults

\* The command is killed: the kernel releases the lock, and the state in
\* memory is lost.  A child that runs may commit before someone looks.
Crash(c) ==
  LET s == command[c].state
      g == Next1(s)
  IN /\ command[c].pc \in {"choose", "invoke"} /\ Fault
     /\ command' = [command EXCEPT ![c] = [pc |-> "idle", state |-> Fresh]]
     /\ \E commits \in BOOLEAN :
          /\ commits => command[c].pc = "invoke" /\ ~lineage.stop
                        /\ lineage.committed[g] = None
          /\ lineage' = [lineage EXCEPT !.owner = Nobody,
               !.committed = IF commits THEN [@ EXCEPT ![g] = Due(s)] ELSE @,
               !.launched = IF commits THEN @ \cup {<<g, Due(s)>>} ELSE @]
     /\ UNCHANGED disk

CommandStep(c) ==
  Load(c) \/ Lock(c) \/ Choose(c) \/ Reuse(c) \/ Trains(c) \/ Stopped(c)

TuningNext == \E c \in Commands : CommandStep(c) \/ TrainFails(c) \/ Crash(c)

\* A command that can go on does, and a generation ends.
TuningFairness == \A c \in Commands : WF_tuningVars(CommandStep(c))

TuningSpec == TuningInit /\ [][TuningNext]_tuningVars /\ TuningFairness

-----------------------------------------------------------------------------
(* Properties.                                                             *)

\* A measurement that counts is of a generation that ran with that mode, also
\* when another command, or the one before a crash, had committed it.
MeasuresItsOwn ==
  \A o \in disk.seen : o.stable => lineage.committed[o.generation] = o.mode

\* Every command returns, and then the tuning has an outcome.
Tuned == (\A c \in Commands : command[c].pc = "ended") /\ disk.status # "RUNNING"
TuningEnds == <>Tuned

\* A mode whose supervisor gave up is recovered by a run of the baseline: the
\* tuning does not fail before the baseline was tried for that generation.
BaselineIsTried ==
  disk.status = "FAILED" /\ Pending(disk) =>
    <<Next1(disk), Baseline>> \in lineage.launched
=============================================================================
