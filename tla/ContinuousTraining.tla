-------------------------- MODULE ContinuousTraining --------------------------
(***************************************************************************)
(* ContinuousTrainingRunnerV2 (_continuous_training_core.py,               *)
(* continuous_training.py): one lineage is advanced generation by          *)
(* generation, with an Arena at every Cadence-th one, a soft stop at a     *)
(* generation boundary and, when it is configured, a sweep over self-play  *)
(* concurrency modes (performance_tuning/compatibility.py, policy.py).     *)
(*                                                                         *)
(* Generations are counted from the lineage's parent, which is 0.  Mode 0  *)
(* is the sweep's baseline.  state.json is written whole and only by the   *)
(* running coordinator, so what it holds in memory and has not written is  *)
(* the generation, or Arena, in progress.  train_one and the supervisor    *)
(* are reduced to a child, a commit and a durable stop: they have modules  *)
(* of their own (GenerationCommit, Supervisor).                            *)
(***************************************************************************)
EXTENDS Integers, FiniteSets

CONSTANTS
  Target,      \* generations to train
  Cadence,     \* arena_cadence
  Sweep,       \* number of concurrency modes beside the baseline, 0: no sweep
  StartAfter,  \* sweep.start_after_generation
  MaxFaults,   \* bound: crashes, failed attempts, failed Arenas
  MaxStops     \* bound: soft stops requested, by a signal or by another process

TrainingAssumption ==
  /\ {Target, Cadence} \subseteq Nat \ {0}
  /\ {Sweep, StartAfter, MaxFaults, MaxStops} \subseteq Nat

Gens == 1..Target
Baseline == 0
None == -1
Modes == {Baseline} \cup 1..Sweep
Due == {g \in Gens : g % Cadence = 0}

VARIABLES
  disk,  \* runtime/state.json, control/soft-stop.json, the generation commits
         \* and the supervisor's stop
  mem,   \* the coordinator
  env    \* the generation's child, what each generation was played with,
         \* and the counters of faults and stops

vars == <<disk, mem, env>>

DiskOK ==
  disk \in [life : {"none", "RUNNING", "SOFT_STOPPED", "COMPLETED"},
            active : {0} \cup Gens, current : {0} \cup Gens, arenas : SUBSET Gens,
            next : 0..Sweep, retry : {0} \cup Gens, failed : SUBSET Modes,
            seen : SUBSET [gen : Gens, mode : Modes, stable : BOOLEAN],
            selected : Modes \cup {None}, stop : BOOLEAN,
            committed : {0} \cup Gens, halt : BOOLEAN]

MemOK ==
  mem \in [pc : {"down", "resumed", "start", "boundary", "arena", "train", "wait", "record"},
           mode : Modes, signal : BOOLEAN, raised : BOOLEAN]

EnvOK ==
  env \in [child : Modes \cup {None}, played : [Gens -> Modes \cup {None}],
           clean : SUBSET Gens, faults : 0..MaxFaults, stops : 0..MaxStops, late : Nat]

TypeOK == DiskOK /\ MemOK /\ EnvOK

Down(raised) == [pc |-> "down", mode |-> Baseline, signal |-> FALSE, raised |-> raised]

Init ==
  /\ disk = [life |-> "none", active |-> 0, current |-> 0, arenas |-> {}, next |-> 0,
             retry |-> 0, failed |-> {}, seen |-> {}, selected |-> None, stop |-> FALSE,
             committed |-> 0, halt |-> FALSE]
  /\ mem = Down(FALSE)
  /\ env = [child |-> None, played |-> [g \in Gens |-> None], clean |-> {},
            faults |-> 0, stops |-> 0, late |-> 0]

Goto(label) == mem' = [mem EXCEPT !.pc = label]

-----------------------------------------------------------------------------
(* The sweep: LegacyConcurrencyAdapter and policy.py.                      *)

\* next_mode: a failed generation is played again with the baseline.
NextMode(d, g) ==
  CASE Sweep = 0 \/ d.retry = g \/ g <= StartAfter -> Baseline
    [] OTHER -> IF d.next < Sweep THEN d.next + 1
                ELSE IF d.selected # None THEN d.selected ELSE Baseline

\* Mutant: the metrics of a generation are taken for those of the mode asked.
StableUnchecked(g, m) == g \in env.clean

\* assess_observation: a clean run, of the mode that was asked for.
Stable(g, m) == g \in env.clean /\ env.played[g] = m

Observe(d, g, m) ==
  {o \in d.seen : o.gen # g} \cup {[gen |-> g, mode |-> m, stable |-> Stable(g, m)]}

\* select_mode: the modes with a stable observation that have not failed.
Candidates(d) ==
  {m \in Modes \ d.failed : \E o \in d.seen : o.mode = m /\ o.stable}

\* select: nothing is chosen before each mode was observed or failed; which
\* candidate is best is a matter of its metrics.
Selections(d) ==
  IF 1..Sweep \subseteq d.failed \cup {o.mode : o \in d.seen}
    THEN (IF Candidates(d) = {} THEN {Baseline} ELSE Candidates(d))
    ELSE {d.selected}

Larger(a, b) == IF a > b THEN a ELSE b

-----------------------------------------------------------------------------
(* _run, from the launch to the first boundary.                            *)

\* _load_or_create_state; a launch that finds a stopped lineage consumes the
\* request and then writes that the lineage runs again.
Launch ==
  /\ mem.pc = "down"
  /\ IF disk.life = "SOFT_STOPPED"
       THEN /\ disk' = [disk EXCEPT !.stop = FALSE]
            /\ mem' = [Down(FALSE) EXCEPT !.pc = "resumed"]
            /\ env' = [env EXCEPT !.late = 0]
       ELSE /\ disk' = [disk EXCEPT !.life = IF @ = "none" THEN "RUNNING" ELSE @]
            /\ mem' = [Down(FALSE) EXCEPT !.pc = "start"]
            /\ UNCHANGED env

Resume ==
  /\ mem.pc = "resumed"
  /\ disk' = [disk EXCEPT !.life = "RUNNING"]
  /\ Goto("start")
  /\ UNCHANGED env

\* _initialize_concurrency_sweep selects again from the same observations;
\* a completed lineage is reported and nothing else is done.
Start ==
  /\ mem.pc = "start"
  /\ IF disk.life = "COMPLETED"
       THEN mem' = Down(FALSE) /\ disk' = [disk EXCEPT !.stop = @ \/ mem.signal]
       ELSE Goto("boundary") /\ UNCHANGED disk
  /\ UNCHANGED env

-----------------------------------------------------------------------------
(* The loop of _run.                                                       *)

\* What comes first at a boundary: a request to stop, an Arena that is due,
\* the target, and then the next generation.
Decide(stopped, due) ==
  LET d == [disk EXCEPT !.stop = @ \/ mem.signal]
      quiet == [mem EXCEPT !.signal = FALSE]
      g == d.current + 1
  IN \/ /\ stopped
        /\ disk' = [d EXCEPT !.life = "SOFT_STOPPED", !.active = 0]
        /\ mem' = Down(FALSE)
     \/ /\ ~stopped /\ d.current \in due
        /\ disk' = d
        /\ mem' = [quiet EXCEPT !.pc = "arena"]
     \/ /\ ~stopped /\ d.current \notin due /\ d.current = Target
        /\ disk' = [d EXCEPT !.life = "COMPLETED", !.active = 0]
        /\ mem' = Down(FALSE)
     \/ /\ ~stopped /\ d.current \notin due /\ d.current < Target
        /\ disk' = [d EXCEPT !.life = "RUNNING", !.active = g]
        /\ mem' = [quiet EXCEPT !.pc = "train", !.mode = NextMode(d, g)]

\* Mutant: a request of another process is not looked for.
BoundaryOwnSignals ==
  mem.pc = "boundary" /\ Decide(mem.signal, Due \ disk.arenas) /\ UNCHANGED env

\* Mutant: the target is looked at before the Arena of the last generation.
BoundaryTargetFirst ==
  /\ mem.pc = "boundary"
  /\ Decide(disk.stop \/ mem.signal, Due \ (disk.arenas \cup {Target}))
  /\ UNCHANGED env

\* A pending signal is made durable before anything is decided.
Boundary ==
  /\ mem.pc = "boundary"
  /\ Decide(disk.stop \/ mem.signal, Due \ disk.arenas)
  /\ UNCHANGED env

\* _run_arena and _record_arena; ArenaRunnerV2 reuses a stored evaluation.
RunArena ==
  /\ mem.pc = "arena"
  /\ disk' = [disk EXCEPT !.arenas = @ \cup {disk.current}]
  /\ Goto("boundary")
  /\ UNCHANGED env

ArenaFails ==
  /\ mem.pc = "arena" /\ env.faults < MaxFaults
  /\ env' = [env EXCEPT !.faults = @ + 1]
  /\ mem' = Down(TRUE)
  /\ UNCHANGED disk

-----------------------------------------------------------------------------
(* train_one for generation current + 1.                                   *)

Generation == disk.current + 1

\* _is_baseline_recovery: the failed generation is tried with the baseline.
BaselineRecovery == Sweep > 0 /\ mem.mode = Baseline /\ disk.retry = Generation

\* _handle_sweep_failure: a failure of a mode that classify_failure finds
\* transient is recorded, the mode passed over, the same generation at the
\* baseline next; anything else ends the launch.
Falls(d) ==
  \/ /\ Sweep > 0 /\ mem.mode # Baseline
     /\ LET f == [d EXCEPT !.failed = @ \cup {mem.mode}, !.next = Larger(@, mem.mode),
                           !.retry = Generation, !.active = 0]
        IN \E m \in Selections(f) : disk' = [f EXCEPT !.selected = m]
     /\ mem' = [mem EXCEPT !.pc = "boundary", !.mode = Baseline]
  \/ disk' = d /\ mem' = Down(TRUE)

\* ProductionTrainOne: a committed generation is reused and reconciled, a
\* durable stop refuses unless it is acknowledged, a child that still runs is
\* taken over, and else one is started.
Train ==
  /\ mem.pc = "train"
  /\ IF disk.committed >= Generation
       THEN /\ disk' = [disk EXCEPT !.halt = FALSE]
            /\ Goto("record") /\ UNCHANGED env
       ELSE IF disk.halt /\ ~BaselineRecovery
         THEN Falls(disk) /\ UNCHANGED env
         ELSE /\ disk' = [disk EXCEPT !.halt = FALSE]
              /\ env' = IF env.child # None THEN env
                        ELSE [env EXCEPT !.child = mem.mode,
                                         !.late = IF disk.stop THEN @ + 1 ELSE @]
              /\ Goto("wait")

\* The child commits, whether or not the coordinator is there to see it.
ChildCommits ==
  /\ env.child # None
  /\ LET g == disk.committed + 1 IN
       /\ disk' = [disk EXCEPT !.committed = g]
       /\ \E clean \in SUBSET {g} :
            env' = [env EXCEPT !.child = None, !.played[g] = env.child,
                               !.clean = @ \cup clean]
  /\ UNCHANGED mem

TrainReturns ==
  /\ mem.pc = "wait" /\ env.child = None /\ disk.committed >= Generation
  /\ Goto("record")
  /\ UNCHANGED <<disk, env>>

\* The supervisor gave up on the child, which may have committed before; or
\* validation or reconciliation of a committed generation failed.
TrainFails ==
  /\ mem.pc \in {"train", "wait"} /\ env.faults < MaxFaults
  /\ env' = [env EXCEPT !.child = None, !.faults = @ + 1]
  /\ \E halt \in BOOLEAN :
       /\ IF halt THEN mem.pc = "wait" ELSE disk.committed >= Generation
       /\ Falls([disk EXCEPT !.halt = halt])

\* A child ends without a commit, also one that has no coordinator.
ChildLost ==
  /\ env.child # None /\ env.faults < MaxFaults
  /\ env' = [env EXCEPT !.child = None, !.faults = @ + 1]
  /\ UNCHANGED <<disk, mem>>

\* The supervisor retries a child that ended without a commit.
Relaunch ==
  /\ mem.pc = "wait" /\ env.child = None /\ disk.committed < Generation
  /\ env' = [env EXCEPT !.child = mem.mode]
  /\ UNCHANGED <<disk, mem>>

\* _record_sweep_observation and the commit of the generation to state.json.
Record ==
  /\ mem.pc = "record"
  /\ LET d == [disk EXCEPT !.current = Generation, !.active = 0]
         s == [d EXCEPT !.seen = Observe(disk, Generation, mem.mode),
                        !.next = IF Generation > StartAfter THEN Larger(@, mem.mode) ELSE @,
                        !.retry = IF @ = Generation THEN 0 ELSE @]
     IN IF Sweep = 0 THEN disk' = d
        ELSE \E m \in Selections(s) : disk' = [s EXCEPT !.selected = m]
  /\ Goto("boundary")
  /\ UNCHANGED env

-----------------------------------------------------------------------------
(* The operator and the machine.                                           *)

\* SIGINT or SIGTERM: only noted by the handler.
Signal ==
  /\ mem.pc # "down" /\ ~mem.signal /\ env.stops < MaxStops
  /\ mem' = [mem EXCEPT !.signal = TRUE]
  /\ env' = [env EXCEPT !.stops = @ + 1]
  /\ UNCHANGED disk

\* control/soft-stop.json written by another process.
RequestStop ==
  /\ disk.life # "none" /\ ~disk.stop /\ env.stops < MaxStops
  /\ disk' = [disk EXCEPT !.stop = TRUE]
  /\ env' = [env EXCEPT !.stops = @ + 1]
  /\ UNCHANGED mem

Crash ==
  /\ mem.pc # "down" /\ env.faults < MaxFaults
  /\ mem' = Down(FALSE)
  /\ env' = [env EXCEPT !.faults = @ + 1]
  /\ UNCHANGED disk

\* The operator acknowledges a durable stop of the supervisor.
Acknowledge ==
  /\ mem.pc = "down" /\ disk.halt
  /\ disk' = [disk EXCEPT !.halt = FALSE]
  /\ UNCHANGED <<mem, env>>

Coordinator ==
  Launch \/ Resume \/ Start \/ Boundary \/ RunArena \/ Train \/ TrainReturns \/ Relaunch \/ Record

Next ==
  \/ Coordinator \/ ChildCommits
  \/ ArenaFails \/ TrainFails \/ ChildLost \/ Crash
  \/ Signal \/ RequestStop \/ Acknowledge

\* The operator launches the command again; processes that run take steps.
Fairness == WF_vars(Coordinator) /\ WF_vars(ChildCommits)

Spec == Init /\ [][Next]_vars /\ Fairness

-----------------------------------------------------------------------------
(* Properties.                                                             *)

\* Every due generation has its Arena on record before the next generation
\* is played and before the lineage is complete, also when the coordinator
\* died, failed or was stopped between the commit and the Arena.
ArenasKeepUp ==
  \A g \in Due :
    g < disk.committed \/ (g = disk.committed /\ env.child # None) \/ disk.life = "COMPLETED"
      => g \in disk.arenas

\* After a soft stop is requested at most the generation in progress is
\* started, until a launch consumes the request.
StopIsPrompt == env.late <= 1

\* The sweep selects on evidence: every mode was observed or failed, the
\* selected one has not failed, and what counts as a stable observation of a
\* mode was played with it, also for a generation that was committed under
\* one mode and recorded under another.
SelectionIsSound ==
  /\ \A o \in disk.seen : o.stable => env.played[o.gen] = o.mode
  /\ disk.selected # None =>
       /\ 1..Sweep \subseteq disk.failed \cup {o.mode : o \in disk.seen}
       /\ disk.selected \notin disk.failed

\* The lineage gets to its target, or waits for the operator behind a durable
\* stop of the supervisor.
AtEnd == disk.life = "COMPLETED" \/ disk.halt
Completes == <>AtEnd
=============================================================================
