------------------------ MODULE ContinuousTrainingProofs ------------------------
(***************************************************************************)
(* The lineage keeps up with its Arenas, stops promptly and selects a mode *)
(* on sound evidence, for every target, cadence, sweep, and any number of  *)
(* crashes, failures, lost children and stop requests.  The komi         *)
(* calibration beside it selects on the whole evidence, whatever crashes.  *)
(* And a due Arena, whose match runs beside both, is VALID only with one   *)
(* result of each of its games, whatever workers and answers do.           *)
(***************************************************************************)
EXTENDS ContinuousTraining, Sequences, FiniteSetTheorems, SequenceTheorems, WellFoundedInduction,
        TLAPS

CONSTANTS
  PinAt, MaxTroubles,                                                          \* of KomiCalibration
  NumGames, NumWorkers, Lanes, BatchCap, Moves, MatchFaults, ErrorsAreTechnical  \* of ArenaEngine

VARIABLES calib, parent, worker, broker

Komi == INSTANCE KomiCalibration
M == INSTANCE ArenaEngine WITH MaxFaults <- MatchFaults

\* Where the commits, the state file, the child and the coordinator stand.
Positions ==
  /\ disk.current <= disk.committed /\ disk.committed <= disk.current + 1
  /\ env.child # None => disk.committed = disk.current /\ disk.current < Target
  /\ mem.pc \in {"train", "wait"} => disk.current < Target
  /\ mem.pc = "record" => disk.committed = disk.current + 1
  /\ mem.pc = "arena" => disk.current \in Due
  /\ disk.life = "COMPLETED" => disk.current = Target /\ mem.pc \in {"down", "start"}

\* The Arenas that must be on record by now.
Recorded ==
  /\ \A g \in Due : g < disk.current => g \in disk.arenas
  /\ \/ env.child # None
     \/ disk.committed > disk.current
     \/ mem.pc \in {"train", "wait", "record"}
     \/ disk.life = "COMPLETED"
     => (disk.current \in Due => disk.current \in disk.arenas)

\* A request that was overtaken is still there, and is seen at the next boundary.
Prompt ==
  /\ env.late \in {0, 1}
  /\ env.late = 1 => disk.stop
  /\ mem.pc = "train" => env.late = 0

\* What the sweep has seen is behind it, and the baseline never fails for good.
Evidence ==
  /\ SelectionIsSound
  /\ \A o \in disk.seen : o.gen <= disk.current
  /\ Baseline \notin disk.failed

IInv == TypeOK /\ Positions /\ Recorded /\ Prompt /\ Evidence
-----------------------------------------------------------------------------
(* Initial states and the operators of the sweep.                          *)

LEMMA Constants ==
  ASSUME TrainingAssumption
  PROVE  Target \in Nat \ {0} /\ Cadence \in Nat \ {0} /\ Sweep \in Nat /\ MaxFaults \in Nat /\ MaxStops \in Nat
BY DEF TrainingAssumption

\* A coordinator that has ended.
LEMMA DownIsTyped == ASSUME NEW r \in BOOLEAN, mem' = Down(r) PROVE MemOK'
BY DEF Down, MemOK, Modes, Baseline

LEMMA InitHolds == ASSUME TrainingAssumption, Init PROVE IInv
<1>1. TypeOK
  BY DEF TrainingAssumption, Init, TypeOK, DiskOK, MemOK, EnvOK, Down, Gens, Modes, Baseline, None
<1>2. Positions /\ Recorded /\ Prompt
  BY DEF TrainingAssumption, Init, Positions, Recorded, Prompt, Down, Due, Gens, None
<1>3. Evidence BY DEF Init, Evidence, SelectionIsSound, None, Baseline
<1> QED BY <1>1, <1>2, <1>3 DEF IInv

\* The mode of the next generation is one of the sweep's.
LEMMA NextModeIsAMode ==
  ASSUME TrainingAssumption, TypeOK, NEW g \in Nat
  PROVE  NextMode(disk, g) \in Modes
BY DEF TrainingAssumption, TypeOK, DiskOK, NextMode, Modes, Baseline, None

\* A selection keeps to the modes, and is one that has not failed.
LEMMA SelectionIsAMode ==
  ASSUME NEW failed \in SUBSET Modes, NEW d, d.failed = failed, Baseline \notin failed,
         d.selected \in Modes \cup {None}, NEW m \in Selections(d)
  PROVE  /\ m \in Modes \cup {None}
         /\ \/ /\ 1..Sweep \subseteq d.failed \cup {o.mode : o \in d.seen}
               /\ m \notin d.failed
            \/ /\ m = d.selected
               /\ ~(1..Sweep \subseteq d.failed \cup {o.mode : o \in d.seen})
<1>1. CASE 1..Sweep \subseteq d.failed \cup {o.mode : o \in d.seen}
  <2>1. CASE Candidates(d) = {}
    BY <1>1, <2>1 DEF Selections, Modes
  <2>2. CASE Candidates(d) # {}
    BY <1>1, <2>2 DEF Selections, Candidates
  <2> QED BY <2>1, <2>2
<1>2. CASE ~(1..Sweep \subseteq d.failed \cup {o.mode : o \in d.seen})
  BY <1>2 DEF Selections
<1> QED BY <1>1, <1>2

-----------------------------------------------------------------------------
(* Each action keeps the invariant.                                        *)

LEMMA LaunchKeeps == ASSUME TrainingAssumption, IInv, Launch PROVE IInv'
<1> USE DEF Launch, Down, IInv, TypeOK
<1>1. DiskOK'
  <2>1. CASE disk.life = "SOFT_STOPPED" BY ZenonT(60), <2>1 DEF DiskOK
  <2>2. CASE disk.life = "none" BY <2>2 DEF DiskOK
  <2>3. CASE disk.life \notin {"SOFT_STOPPED", "none"}
    <3>1. disk' = [disk EXCEPT !.life = disk.life] BY <2>3 DEF DiskOK
    <3> QED BY <3>1 DEF DiskOK
  <2> QED BY <2>1, <2>2, <2>3
<1>2. MemOK' BY DEF MemOK, Modes, Baseline
<1>3. EnvOK' BY Constants DEF EnvOK, Modes
<1>4. Positions' BY DEF DiskOK, MemOK, EnvOK, Positions
<1>5. Recorded' BY DEF DiskOK, MemOK, EnvOK, Positions, Recorded
<1>6. Prompt' BY DEF DiskOK, MemOK, EnvOK, Prompt
<1>7. Evidence' BY DEF DiskOK, MemOK, EnvOK, Evidence, SelectionIsSound
<1> QED BY <1>1, <1>2, <1>3, <1>4, <1>5, <1>6, <1>7

LEMMA ResumeKeeps == ASSUME TrainingAssumption, IInv, Resume PROVE IInv'
<1> USE DEF Resume, Goto, IInv, TypeOK
<1>1. DiskOK' BY DEF DiskOK
<1>2. MemOK' BY DEF MemOK
<1>3. EnvOK' BY Constants DEF EnvOK, Modes
<1>4. Positions' BY DEF DiskOK, MemOK, EnvOK, Positions
<1>5. Recorded' BY DEF DiskOK, MemOK, EnvOK, Positions, Recorded
<1>6. Prompt' BY DEF DiskOK, MemOK, EnvOK, Prompt
<1>7. Evidence' BY DEF DiskOK, MemOK, EnvOK, Evidence, SelectionIsSound
<1> QED BY <1>1, <1>2, <1>3, <1>4, <1>5, <1>6, <1>7

LEMMA StartKeeps == ASSUME TrainingAssumption, IInv, Start PROVE IInv'
<1> USE DEF Start, Goto, IInv, TypeOK
<1>1. DiskOK' BY ZenonT(60) DEF DiskOK
<1>2. MemOK'
  <2>1. CASE disk.life = "COMPLETED"
    <3>1. mem' = Down(FALSE) BY <2>1
    <3> QED BY <3>1, DownIsTyped
  <2>2. CASE disk.life # "COMPLETED" BY <2>2 DEF MemOK
  <2> QED BY <2>1, <2>2
<1>3. EnvOK' BY Constants DEF EnvOK, Modes
<1>4. Positions' BY DEF Down, DiskOK, MemOK, EnvOK, Positions
<1>5. Recorded' BY DEF Down, DiskOK, MemOK, EnvOK, Positions, Recorded
<1>6. Prompt' BY DEF Down, DiskOK, MemOK, EnvOK, Prompt
<1>7. Evidence' BY DEF Down, DiskOK, MemOK, EnvOK, Evidence, SelectionIsSound
<1> QED BY <1>1, <1>2, <1>3, <1>4, <1>5, <1>6, <1>7

LEMMA RunArenaKeeps == ASSUME TrainingAssumption, IInv, RunArena PROVE IInv'
<1> USE DEF RunArena, Goto, IInv, TypeOK
<1>1. DiskOK' BY DEF DiskOK, Positions, Due
<1>2. MemOK' BY DEF MemOK
<1>3. EnvOK' BY Constants DEF EnvOK, Modes
<1>4. Positions' BY DEF DiskOK, MemOK, EnvOK, Positions
<1>5. Recorded' BY DEF DiskOK, MemOK, EnvOK, Positions, Recorded
<1>6. Prompt' BY DEF DiskOK, MemOK, EnvOK, Prompt
<1>7. Evidence' BY DEF DiskOK, MemOK, EnvOK, Evidence, SelectionIsSound
<1> QED BY <1>1, <1>2, <1>3, <1>4, <1>5, <1>6, <1>7

LEMMA ArenaFailsKeeps == ASSUME TrainingAssumption, IInv, ArenaFails PROVE IInv'
<1> USE DEF ArenaFails, Down, IInv, TypeOK
<1>1. DiskOK' BY DEF DiskOK
<1>2. MemOK' BY DEF MemOK, Modes, Baseline
<1>3. EnvOK' BY Constants DEF EnvOK, Modes
<1>4. Positions' BY DEF DiskOK, MemOK, EnvOK, Positions
<1>5. Recorded' BY DEF DiskOK, MemOK, EnvOK, Positions, Recorded
<1>6. Prompt' BY DEF DiskOK, MemOK, EnvOK, Prompt
<1>7. Evidence' BY DEF DiskOK, MemOK, EnvOK, Evidence, SelectionIsSound
<1> QED BY <1>1, <1>2, <1>3, <1>4, <1>5, <1>6, <1>7

LEMMA TrainReturnsKeeps == ASSUME TrainingAssumption, IInv, TrainReturns PROVE IInv'
<1> USE DEF TrainReturns, Goto, Generation, IInv, TypeOK
<1>1. DiskOK' BY DEF DiskOK
<1>2. MemOK' BY DEF MemOK
<1>3. EnvOK' BY Constants DEF EnvOK, Modes
<1>4. Positions' BY Constants DEF DiskOK, MemOK, EnvOK, Positions, Gens
<1>5. Recorded' BY DEF DiskOK, MemOK, EnvOK, Positions, Recorded
<1>6. Prompt' BY DEF DiskOK, MemOK, EnvOK, Prompt
<1>7. Evidence' BY DEF DiskOK, MemOK, EnvOK, Evidence, SelectionIsSound
<1> QED BY <1>1, <1>2, <1>3, <1>4, <1>5, <1>6, <1>7

LEMMA ChildLostKeeps == ASSUME TrainingAssumption, IInv, ChildLost PROVE IInv'
<1> USE DEF ChildLost, IInv, TypeOK
<1>1. DiskOK' BY DEF DiskOK
<1>2. MemOK' BY DEF MemOK
<1>3. EnvOK'
  <2>1. env.faults + 1 \in 0..MaxFaults BY Constants DEF EnvOK
  <2>2. None \in Modes \cup {None} OBVIOUS
  <2> QED BY <2>1, <2>2 DEF EnvOK
<1>4. Positions' BY Constants DEF DiskOK, MemOK, EnvOK, Positions, Gens
<1>5. Recorded' BY DEF DiskOK, MemOK, EnvOK, Positions, Recorded
<1>6. Prompt' BY DEF DiskOK, MemOK, EnvOK, Prompt
<1>7. Evidence' BY DEF DiskOK, MemOK, EnvOK, Evidence, SelectionIsSound
<1> QED BY <1>1, <1>2, <1>3, <1>4, <1>5, <1>6, <1>7

LEMMA RelaunchKeeps == ASSUME TrainingAssumption, IInv, Relaunch PROVE IInv'
<1> USE DEF Relaunch, Generation, IInv, TypeOK
<1>1. DiskOK' BY DEF DiskOK
<1>2. MemOK' BY DEF MemOK
<1>3. EnvOK' BY Constants DEF MemOK, EnvOK
<1>4. Positions' BY SMTT(30), Constants DEF DiskOK, MemOK, EnvOK, Positions, Gens
<1>5. Recorded' BY DEF DiskOK, MemOK, EnvOK, Positions, Recorded
<1>6. Prompt' BY DEF DiskOK, MemOK, EnvOK, Prompt
<1>7. Evidence' BY DEF DiskOK, MemOK, EnvOK, Evidence, SelectionIsSound
<1> QED BY <1>1, <1>2, <1>3, <1>4, <1>5, <1>6, <1>7

LEMMA SignalKeeps == ASSUME TrainingAssumption, IInv, Signal PROVE IInv'
<1> USE DEF Signal, IInv, TypeOK
<1>1. DiskOK' BY DEF DiskOK
<1>2. MemOK' BY DEF MemOK
<1>3. EnvOK' BY Constants DEF EnvOK, Modes
<1>4. Positions' BY DEF DiskOK, MemOK, EnvOK, Positions
<1>5. Recorded' BY DEF DiskOK, MemOK, EnvOK, Positions, Recorded
<1>6. Prompt' BY DEF DiskOK, MemOK, EnvOK, Prompt
<1>7. Evidence' BY DEF DiskOK, MemOK, EnvOK, Evidence, SelectionIsSound
<1> QED BY <1>1, <1>2, <1>3, <1>4, <1>5, <1>6, <1>7

LEMMA RequestStopKeeps == ASSUME TrainingAssumption, IInv, RequestStop PROVE IInv'
<1> USE DEF RequestStop, IInv, TypeOK
<1>1. DiskOK' BY DEF DiskOK
<1>2. MemOK' BY DEF MemOK
<1>3. EnvOK' BY Constants DEF EnvOK, Modes
<1>4. Positions' BY DEF DiskOK, MemOK, EnvOK, Positions
<1>5. Recorded' BY DEF DiskOK, MemOK, EnvOK, Positions, Recorded
<1>6. Prompt' BY DEF DiskOK, MemOK, EnvOK, Prompt
<1>7. Evidence' BY DEF DiskOK, MemOK, EnvOK, Evidence, SelectionIsSound
<1> QED BY <1>1, <1>2, <1>3, <1>4, <1>5, <1>6, <1>7

LEMMA CrashKeeps == ASSUME TrainingAssumption, IInv, Crash PROVE IInv'
<1> USE DEF Crash, Down, IInv, TypeOK
<1>1. DiskOK' BY DEF DiskOK
<1>2. MemOK' BY DEF MemOK, Modes, Baseline
<1>3. EnvOK' BY Constants DEF EnvOK, Modes
<1>4. Positions' BY DEF DiskOK, MemOK, EnvOK, Positions
<1>5. Recorded' BY DEF DiskOK, MemOK, EnvOK, Positions, Recorded
<1>6. Prompt' BY DEF DiskOK, MemOK, EnvOK, Prompt
<1>7. Evidence' BY DEF DiskOK, MemOK, EnvOK, Evidence, SelectionIsSound
<1> QED BY <1>1, <1>2, <1>3, <1>4, <1>5, <1>6, <1>7

LEMMA AcknowledgeKeeps == ASSUME TrainingAssumption, IInv, Acknowledge PROVE IInv'
<1> USE DEF Acknowledge, IInv, TypeOK
<1>1. DiskOK' BY DEF DiskOK
<1>2. MemOK' BY DEF MemOK
<1>3. EnvOK' BY Constants DEF EnvOK, Modes
<1>4. Positions' BY DEF DiskOK, MemOK, EnvOK, Positions
<1>5. Recorded' BY DEF DiskOK, MemOK, EnvOK, Positions, Recorded
<1>6. Prompt' BY DEF DiskOK, MemOK, EnvOK, Prompt
<1>7. Evidence' BY DEF DiskOK, MemOK, EnvOK, Evidence, SelectionIsSound
<1> QED BY <1>1, <1>2, <1>3, <1>4, <1>5, <1>6, <1>7

\* A boundary, by what is decided.
LEMMA BoundaryKeeps == ASSUME TrainingAssumption, IInv, Boundary PROVE IInv'
<1> DEFINE stopped == disk.stop \/ mem.signal
           due == Due \ disk.arenas
           g == disk.current + 1
           d == [disk EXCEPT !.stop = @ \/ mem.signal]
           quiet == [mem EXCEPT !.signal = FALSE]
<1> USE DEF IInv, TypeOK
<1>1. EnvOK' /\ env' = env BY DEF Boundary, EnvOK
<1>2. disk.stop \in BOOLEAN /\ mem.signal \in BOOLEAN BY DEF DiskOK, MemOK
<1>3. mem.pc = "boundary" /\ Decide(stopped, due) BY DEF Boundary
<1>a. d.current = disk.current BY DEF DiskOK
<1>b. \/ /\ stopped
         /\ disk' = [d EXCEPT !.life = "SOFT_STOPPED", !.active = 0]
         /\ mem' = Down(FALSE)
      \/ /\ ~stopped /\ disk.current \in due
         /\ disk' = d
         /\ mem' = [quiet EXCEPT !.pc = "arena"]
      \/ /\ ~stopped /\ disk.current \notin due /\ disk.current = Target
         /\ disk' = [d EXCEPT !.life = "COMPLETED", !.active = 0]
         /\ mem' = Down(FALSE)
      \/ /\ ~stopped /\ disk.current \notin due /\ disk.current < Target
         /\ disk' = [d EXCEPT !.life = "RUNNING", !.active = g]
         /\ mem' = [quiet EXCEPT !.pc = "train", !.mode = NextMode(d, g)]
  BY <1>3, <1>a DEF Decide
<1>c. stopped => d = [disk EXCEPT !.stop = TRUE] BY <1>2
<1>d. ~stopped => d = [disk EXCEPT !.stop = FALSE] /\ d = disk BY <1>2 DEF DiskOK
<1>e. disk.current \in Nat /\ Target \in Nat BY Constants DEF DiskOK, Gens
<1>4. CASE stopped
  <2>1. /\ disk' = [disk EXCEPT !.stop = TRUE, !.life = "SOFT_STOPPED", !.active = 0]
        /\ mem' = Down(FALSE)
    BY <1>b, <1>c, <1>4
  <2>2. DiskOK' BY <2>1 DEF DiskOK
  <2>3. MemOK' BY <2>1, DownIsTyped
  <2>4. Positions' BY <1>1, <2>1 DEF DiskOK, Down, Positions
  <2>5. Recorded' BY <1>1, <2>1 DEF DiskOK, Down, Recorded
  <2>6. Prompt' BY <1>1, <2>1 DEF DiskOK, Down, Prompt
  <2>7. Evidence' BY <1>1, <2>1 DEF DiskOK, Evidence, SelectionIsSound
  <2> QED BY <1>1, <2>2, <2>3, <2>4, <2>5, <2>6, <2>7
<1>5. CASE ~stopped /\ disk.current \in due
  <2>1. disk' = [disk EXCEPT !.stop = FALSE] /\ mem' = [mem EXCEPT !.signal = FALSE, !.pc = "arena"]
    BY <1>b, <1>d, <1>5
  <2>2. DiskOK' BY <2>1 DEF DiskOK
  <2>3. MemOK' BY <2>1 DEF MemOK
  <2>4. Positions' BY <1>1, <1>3, <1>5, <2>1 DEF DiskOK, MemOK, Positions
  <2>5. Recorded' BY <1>1, <2>1 DEF DiskOK, MemOK, Recorded
  <2>6. Prompt' BY <1>1, <1>5, <2>1 DEF DiskOK, MemOK, Prompt
  <2>7. Evidence' BY <1>1, <2>1 DEF DiskOK, Evidence, SelectionIsSound
  <2> QED BY <1>1, <2>2, <2>3, <2>4, <2>5, <2>6, <2>7
<1>6. CASE ~stopped /\ disk.current \notin due /\ disk.current = Target
  <2>1. /\ disk' = [disk EXCEPT !.stop = FALSE, !.life = "COMPLETED", !.active = 0]
        /\ mem' = Down(FALSE)
    <3>1. disk.current \notin due /\ ~(disk.current < Target) BY <1>e, <1>6
    <3>2. disk' = [d EXCEPT !.life = "COMPLETED", !.active = 0] /\ mem' = Down(FALSE)
      <4> HIDE DEF d, due, stopped, quiet, g
      <4> QED BY <1>b, <1>6, <3>1
    <3> QED BY <1>d, <1>6, <3>2
  <2>2. DiskOK' BY <2>1 DEF DiskOK
  <2>3. MemOK' BY <2>1, DownIsTyped
  <2>4. Positions' BY <1>1, <1>6, <2>1 DEF DiskOK, Down, Positions
  <2>5. Recorded' BY <1>1, <1>6, <2>1 DEF DiskOK, Down, Recorded
  <2>6. Prompt' BY <1>1, <1>6, <2>1 DEF DiskOK, Down, Prompt
  <2>7. Evidence' BY <1>1, <2>1 DEF DiskOK, Evidence, SelectionIsSound
  <2> QED BY <1>1, <2>2, <2>3, <2>4, <2>5, <2>6, <2>7
<1>7. CASE ~stopped /\ disk.current \notin due /\ disk.current < Target
  <2>1. PICK m \in Modes :
          /\ disk' = [disk EXCEPT !.stop = FALSE, !.life = "RUNNING", !.active = g]
          /\ mem' = [mem EXCEPT !.signal = FALSE, !.pc = "train", !.mode = m]
    <3> DEFINE n == NextMode(d, g)
    <3>1. n \in Modes BY <1>7, <1>d, <1>e, NextModeIsAMode
    <3>2. /\ disk' = [d EXCEPT !.life = "RUNNING", !.active = g]
          /\ mem' = [quiet EXCEPT !.pc = "train", !.mode = NextMode(d, g)]
      <4>1. disk.current # Target BY <1>e, <1>7
      <4> HIDE DEF d, due, stopped, quiet, g
      <4> QED BY <1>b, <1>7, <4>1
    <3>3. d = disk /\ d = [disk EXCEPT !.stop = FALSE] BY <1>d, <1>7
    <3>4. disk' = [disk EXCEPT !.stop = FALSE, !.life = "RUNNING", !.active = g]
      BY <3>2, <3>3
    <3>5. mem' = [mem EXCEPT !.signal = FALSE, !.pc = "train", !.mode = n]
      BY <3>2
    <3> HIDE DEF n, d, due, stopped, quiet, g
    <3> QED BY <3>1, <3>4, <3>5, Zenon
  <2>2. DiskOK'
    <3>1. g \in Gens BY <1>e, <1>7 DEF Gens
    <3> HIDE DEF g
    <3> QED BY <2>1, <3>1 DEF DiskOK
  <2>3. MemOK' BY <2>1 DEF MemOK
  <2>4. Positions' BY <1>1, <1>7, <2>1 DEF DiskOK, MemOK, Positions
  <2>5. Recorded' BY <1>1, <1>7, <2>1 DEF DiskOK, MemOK, Recorded
  <2>6. Prompt' BY <1>1, <1>7, <2>1 DEF DiskOK, MemOK, Prompt
  <2>7. Evidence' BY <1>1, <2>1 DEF DiskOK, Evidence, SelectionIsSound
  <2> QED BY <1>1, <2>2, <2>3, <2>4, <2>5, <2>6, <2>7
<1> QED BY <1>b, <1>4, <1>5, <1>6, <1>7

LEMMA ChildCommitsKeeps == ASSUME TrainingAssumption, IInv, ChildCommits PROVE IInv'
<1> DEFINE g == disk.committed + 1
<1> USE DEF IInv, TypeOK
<1>1. /\ env.child # None /\ mem' = mem /\ disk' = [disk EXCEPT !.committed = g]
      /\ \E clean \in SUBSET {g} :
           env' = [env EXCEPT !.child = None, !.played[g] = env.child, !.clean = @ \cup clean]
  BY DEF ChildCommits
<1>2. PICK clean \in SUBSET {g} :
        env' = [env EXCEPT !.child = None, !.played[g] = env.child, !.clean = @ \cup clean]
  BY <1>1
<1>3. disk.committed = disk.current /\ g = disk.current + 1 /\ g \in Gens
  BY <1>1, Constants DEF Positions, DiskOK, Gens
<1>4. DiskOK' BY <1>1, <1>3 DEF DiskOK
<1>5. MemOK' BY <1>1 DEF MemOK
<1>6. EnvOK' BY <1>2, <1>3 DEF EnvOK
<1>7. Positions'
  <2>1. mem.pc # "record" BY <1>3, Constants DEF Positions, DiskOK, Gens
  <2> QED BY <1>1, <1>2, <1>3, <2>1, Constants DEF Positions, DiskOK, EnvOK, Gens
<1>8. Recorded' BY <1>1, <1>2, <1>3 DEF Recorded, DiskOK
<1>9. Prompt' BY <1>1, <1>2 DEF Prompt, DiskOK, EnvOK
<1>10. Evidence'
  <2>1. disk'.seen = disk.seen /\ disk'.selected = disk.selected /\ disk'.failed = disk.failed
        /\ disk'.current = disk.current
    BY <1>1 DEF DiskOK
  <2>2. \A o \in disk.seen : o.gen # g
    BY <1>3, Constants DEF Evidence, DiskOK, Gens
  <2>3. \A o \in disk.seen : env'.played[o.gen] = env.played[o.gen]
    BY <1>2, <2>2 DEF EnvOK, DiskOK
  <2> QED BY <2>1, <2>3 DEF Evidence, SelectionIsSound
<1> QED BY <1>4, <1>5, <1>6, <1>7, <1>8, <1>9, <1>10

\* A mode that failed is passed over, or the launch ends.
LEMMA FallsKeeps ==
  ASSUME TrainingAssumption, IInv, NEW h \in BOOLEAN, Falls([disk EXCEPT !.halt = h]),
         mem.pc \in {"train", "wait"}, EnvOK', env'.child \in {None, env.child},
         env'.played = env.played, env'.late = env.late
  PROVE  IInv'
<1> DEFINE d == [disk EXCEPT !.halt = h]
           f == [d EXCEPT !.failed = @ \cup {mem.mode}, !.next = Larger(@, mem.mode),
                          !.retry = Generation, !.active = 0]
<1> USE DEF IInv, TypeOK
<1>1. disk.life # "COMPLETED" BY DEF Positions
<1>2. disk.current < Target BY DEF Positions
<1>3. CASE disk' = d /\ mem' = Down(TRUE)
  <2>1. DiskOK' BY <1>3 DEF DiskOK
  <2>2. MemOK' BY <1>3, DownIsTyped
  <2>3. Positions' BY <1>3 DEF Down, DiskOK, Positions
  <2>4. Recorded' BY <1>1, <1>3 DEF Down, DiskOK, Recorded
  <2>5. Prompt' BY <1>3 DEF Down, DiskOK, Prompt
  <2>6. Evidence' BY <1>3 DEF DiskOK, Evidence, SelectionIsSound
  <2> QED BY <2>1, <2>2, <2>3, <2>4, <2>5, <2>6
<1>4. CASE /\ Sweep > 0 /\ mem.mode # Baseline
           /\ \E m \in Selections(f) : disk' = [f EXCEPT !.selected = m]
           /\ mem' = [mem EXCEPT !.pc = "boundary", !.mode = Baseline]
  <2>1. PICK m \in Selections(f) : disk' = [f EXCEPT !.selected = m] BY <1>4
  <2>2. /\ f.failed = disk.failed \cup {mem.mode} /\ f.seen = disk.seen
        /\ f.selected = disk.selected /\ f.current = disk.current
        /\ f.committed = disk.committed /\ f.arenas = disk.arenas /\ f.stop = disk.stop
        /\ f.life = disk.life
    BY DEF DiskOK
  <2>3. f.failed \in SUBSET Modes /\ Baseline \notin f.failed
    BY <1>4, <2>2 DEF DiskOK, MemOK, Evidence
  <2>4. /\ m \in Modes \cup {None}
        /\ \/ /\ 1..Sweep \subseteq f.failed \cup {o.mode : o \in f.seen}
              /\ m \notin f.failed
           \/ /\ m = f.selected
              /\ ~(1..Sweep \subseteq f.failed \cup {o.mode : o \in f.seen})
    <3>1. f.selected \in Modes \cup {None} BY <2>2 DEF DiskOK
    <3> HIDE DEF f
    <3> QED BY <2>1, <2>3, <3>1, SelectionIsAMode
  <2>5. DiskOK'
    <3>1. Larger(disk.next, mem.mode) \in 0..Sweep
      BY Constants DEF DiskOK, MemOK, Larger, Modes, Baseline
    <3>2. Generation \in Gens BY <1>2, Constants DEF Generation, DiskOK, Gens
    <3>3. f.failed = disk.failed \cup {mem.mode} /\ disk.failed \cup {mem.mode} \in SUBSET Modes
      BY <2>2, <2>3
    <3> QED BY ZenonT(60), <2>1, <2>4, <3>1, <3>2, <3>3 DEF DiskOK
  <2>6. MemOK' BY <1>4 DEF MemOK, Modes
  <2>7. /\ disk'.failed = f.failed /\ disk'.seen = disk.seen /\ disk'.selected = m
        /\ disk'.current = disk.current /\ disk'.committed = disk.committed
        /\ disk'.arenas = disk.arenas /\ disk'.stop = disk.stop /\ disk'.life = disk.life
        /\ mem'.pc = "boundary"
    <3>1. mem'.pc = "boundary" BY <1>4 DEF MemOK
    <3>2. f \in [DOMAIN disk -> {f[x] : x \in DOMAIN disk}] BY DEF DiskOK
    <3> HIDE DEF f
    <3> QED BY <2>1, <2>2, <3>1, <3>2 DEF DiskOK
  <2> HIDE DEF f, d
  <2>8. Positions' BY <1>1, <2>7 DEF Positions
  <2>9. Recorded' BY <1>1, <2>7 DEF Recorded
  <2>10. Prompt' BY <2>7 DEF Prompt
  <2>11. Evidence'
    <3>1. CASE m \notin f.failed /\ 1..Sweep \subseteq f.failed \cup {o.mode : o \in f.seen}
      BY <2>2, <2>3, <2>7, <3>1 DEF Evidence, SelectionIsSound
    <3>2. CASE m = f.selected /\ ~(1..Sweep \subseteq f.failed \cup {o.mode : o \in f.seen})
      <4>1. disk.selected = None BY <2>2, <3>2 DEF Evidence, SelectionIsSound
      <4> QED BY <2>2, <2>3, <2>7, <3>2, <4>1 DEF Evidence, SelectionIsSound
    <3> QED BY <2>4, <3>1, <3>2
  <2> QED BY <2>5, <2>6, <2>8, <2>9, <2>10, <2>11
<1> QED BY <1>3, <1>4 DEF Falls

LEMMA TrainKeeps == ASSUME TrainingAssumption, IInv, Train PROVE IInv'
<1> USE DEF IInv, TypeOK
<1>1. mem.pc = "train" BY DEF Train
<1>2. /\ disk.current \in Nat /\ disk.committed \in Nat /\ disk.current < Target
      /\ Target \in Nat
  BY <1>1, Constants DEF Positions, DiskOK, Gens
<1>3. CASE disk.committed >= Generation
  <2>1. disk' = [disk EXCEPT !.halt = FALSE] /\ mem' = [mem EXCEPT !.pc = "record"] /\ env' = env
    BY <1>3 DEF Train, Goto
  <2>2. DiskOK' BY <2>1 DEF DiskOK
  <2>3. MemOK' BY <2>1 DEF MemOK
  <2>4. EnvOK' BY <2>1 DEF EnvOK
  <2>5. Positions' BY <1>1, <1>2, <1>3, <2>1 DEF DiskOK, MemOK, Positions, Generation
  <2>6. Recorded' BY <1>1, <2>1 DEF DiskOK, MemOK, Recorded
  <2>7. Prompt' BY <1>1, <2>1 DEF DiskOK, MemOK, Prompt
  <2>8. Evidence' BY <2>1 DEF DiskOK, Evidence, SelectionIsSound
  <2> QED BY <2>2, <2>3, <2>4, <2>5, <2>6, <2>7, <2>8
<1>4. CASE ~(disk.committed >= Generation) /\ disk.halt /\ ~BaselineRecovery
  <2>1. Falls(disk) /\ env' = env BY <1>4 DEF Train
  <2>2. disk = [disk EXCEPT !.halt = disk.halt] /\ disk.halt \in BOOLEAN BY DEF DiskOK
  <2>3. EnvOK' BY <2>1 DEF EnvOK
  <2> QED BY <1>1, <2>1, <2>2, <2>3, FallsKeeps
<1>5. CASE ~(disk.committed >= Generation) /\ ~(disk.halt /\ ~BaselineRecovery)
  <2>1. disk' = [disk EXCEPT !.halt = FALSE] /\ mem' = [mem EXCEPT !.pc = "wait"]
    BY <1>5 DEF Train, Goto
  <2>2. \/ env' = env
        \/ env' = [env EXCEPT !.child = mem.mode, !.late = IF disk.stop THEN @ + 1 ELSE @]
    BY <1>5 DEF Train
  <2>3. env.late = 0 BY <1>1 DEF Prompt
  <2>4. EnvOK' /\ env'.late \in {0, 1} /\ (env'.late = 1 => disk.stop)
    <3>1. CASE env' = env BY <2>3, <3>1 DEF EnvOK
    <3> DEFINE late == IF disk.stop THEN env.late + 1 ELSE env.late
    <3>2. late \in {0, 1} /\ (late = 1 => disk.stop) BY <2>3
    <3>3. CASE env' = [env EXCEPT !.child = mem.mode, !.late = late]
      <4>1. mem.mode \in Modes \cup {None} /\ late \in Nat BY <3>2 DEF MemOK
      <4> HIDE DEF late
      <4>2. EnvOK' BY <3>3, <4>1 DEF EnvOK
      <4>3. env'.late = late BY <3>3 DEF EnvOK
      <4> QED BY <3>2, <4>2, <4>3
    <3> QED BY <2>2, <3>1, <3>3
  <2>5. DiskOK' BY <2>1 DEF DiskOK
  <2>6. MemOK' BY <2>1 DEF MemOK
  <2>7. Positions' BY <1>1, <1>2, <1>5, <2>1 DEF DiskOK, MemOK, Positions, Generation
  <2>8. Recorded' BY <1>1, <2>1 DEF DiskOK, MemOK, Recorded
  <2>9. Prompt' BY <2>1, <2>4 DEF DiskOK, MemOK, Prompt
  <2>10. env'.played = env.played BY <2>2 DEF EnvOK
  <2>11. Evidence' BY <2>1, <2>10 DEF DiskOK, Evidence, SelectionIsSound
  <2> QED BY <2>4, <2>5, <2>6, <2>7, <2>8, <2>9, <2>11
<1> QED BY <1>3, <1>4, <1>5

LEMMA TrainFailsKeeps == ASSUME TrainingAssumption, IInv, TrainFails PROVE IInv'
<1> USE DEF IInv, TypeOK
<1>1. /\ mem.pc \in {"train", "wait"} /\ env.faults < MaxFaults
      /\ env' = [env EXCEPT !.child = None, !.faults = @ + 1]
  BY DEF TrainFails
<1>2. PICK h \in BOOLEAN : Falls([disk EXCEPT !.halt = h]) BY DEF TrainFails
<1>3. EnvOK'
  <2>1. env.faults + 1 \in 0..MaxFaults BY <1>1, Constants DEF EnvOK
  <2> QED BY <1>1, <2>1 DEF EnvOK
<1>4. env'.child = None /\ env'.played = env.played /\ env'.late = env.late
  BY <1>1 DEF EnvOK
<1> QED BY <1>1, <1>2, <1>3, <1>4, FallsKeeps

LEMMA RecordKeeps == ASSUME TrainingAssumption, IInv, Record PROVE IInv'
<1> DEFINE d == [disk EXCEPT !.current = Generation, !.active = 0]
           s == [d EXCEPT !.seen = Observe(disk, Generation, mem.mode),
                          !.next = IF Generation > StartAfter THEN Larger(@, mem.mode) ELSE @,
                          !.retry = IF @ = Generation THEN 0 ELSE @]
<1> USE DEF IInv, TypeOK
<1>1. mem.pc = "record" /\ mem' = [mem EXCEPT !.pc = "boundary"] /\ env' = env
  BY DEF Record, Goto
<1>2. /\ disk.current \in Nat /\ Target \in Nat /\ Generation = disk.current + 1
      /\ Generation \in Gens /\ disk.committed = Generation
  BY <1>1, Constants DEF Positions, DiskOK, Gens, Generation
<1>3. disk.life # "COMPLETED" /\ env.child = None
  BY <1>1, <1>2 DEF Positions
<1>4. MemOK' BY <1>1 DEF MemOK
<1>5. EnvOK' BY <1>1 DEF EnvOK
<1>6. \A o \in disk.seen : o.gen # Generation /\ o.gen <= Generation
  BY <1>2 DEF Evidence, DiskOK, Gens
<1>7. CASE disk' = d
  <2>1. DiskOK' BY <1>2, <1>7 DEF DiskOK
  <2>2. Positions' BY <1>1, <1>2, <1>3, <1>7 DEF DiskOK, MemOK, Positions
  <2>3. Recorded' BY <1>1, <1>2, <1>3, <1>7 DEF DiskOK, MemOK, Recorded, Due, Gens
  <2>4. Prompt' BY <1>1, <1>7 DEF DiskOK, MemOK, Prompt
  <2>5. Evidence' BY <1>1, <1>6, <1>7 DEF DiskOK, Evidence, SelectionIsSound
  <2> QED BY <1>4, <1>5, <2>1, <2>2, <2>3, <2>4, <2>5
<1>8. CASE \E m \in Selections(s) : disk' = [s EXCEPT !.selected = m]
  <2> DEFINE o == [gen |-> Generation, mode |-> mem.mode, stable |-> Stable(Generation, mem.mode)]
  <2>1. PICK m \in Selections(s) : disk' = [s EXCEPT !.selected = m] BY <1>8
  <2>2. Observe(disk, Generation, mem.mode) = disk.seen \cup {o}
    BY <1>6 DEF Observe
  <2>3. /\ s.failed = disk.failed /\ s.seen = disk.seen \cup {o} /\ s.selected = disk.selected
        /\ s.current = Generation /\ s.committed = disk.committed /\ s.arenas = disk.arenas
        /\ s.stop = disk.stop /\ s.life = disk.life
    BY <2>2 DEF DiskOK
  <2>4. /\ m \in Modes \cup {None}
        /\ \/ /\ 1..Sweep \subseteq s.failed \cup {x.mode : x \in s.seen}
              /\ m \notin s.failed
           \/ /\ m = s.selected
              /\ ~(1..Sweep \subseteq s.failed \cup {x.mode : x \in s.seen})
    <3>1. /\ s.selected \in Modes \cup {None}
          /\ s.failed \in SUBSET Modes /\ Baseline \notin s.failed
      BY <2>3 DEF DiskOK, Evidence
    <3> HIDE DEF s
    <3> QED BY <2>1, <3>1, SelectionIsAMode
  <2>5. o \in [gen : Gens, mode : Modes, stable : BOOLEAN]
    BY <1>2 DEF MemOK, Stable
  <2>6. DiskOK'
    <3>1. Larger(disk.next, mem.mode) \in 0..Sweep
      BY Constants DEF DiskOK, MemOK, Larger, Modes, Baseline
    <3>2. disk.seen \cup {o} \in SUBSET [gen : Gens, mode : Modes, stable : BOOLEAN]
      <4> HIDE DEF o
      <4> QED BY <2>5 DEF DiskOK
    <3>3. \/ disk.next \in 0..Sweep /\ s.next = disk.next
          \/ s.next = Larger(disk.next, mem.mode)
      BY DEF DiskOK
    <3>4. s.retry \in {0} \cup Gens BY DEF DiskOK
    <3>5. s \in [DOMAIN disk -> {s[x] : x \in DOMAIN disk}] /\ s.active = 0 /\ s.halt = disk.halt
      BY DEF DiskOK
    <3>6. s.next \in 0..Sweep BY <3>1, <3>3
    <3>7. s.seen \in SUBSET [gen : Gens, mode : Modes, stable : BOOLEAN] BY <2>3, <3>2
    <3> HIDE DEF o, s
    <3> QED BY <1>2, <2>1, <2>3, <2>4, <3>4, <3>5, <3>6, <3>7 DEF DiskOK
  <2>7. /\ disk'.failed = disk.failed /\ disk'.seen = disk.seen \cup {o} /\ disk'.selected = m
        /\ disk'.current = Generation /\ disk'.committed = disk.committed
        /\ disk'.arenas = disk.arenas /\ disk'.stop = disk.stop /\ disk'.life = disk.life
        /\ mem'.pc = "boundary"
    <3>1. mem'.pc = "boundary" BY <1>1 DEF MemOK
    <3>2. s \in [DOMAIN disk -> {s[x] : x \in DOMAIN disk}] BY DEF DiskOK
    <3> HIDE DEF s
    <3> QED BY <2>1, <2>3, <3>1, <3>2 DEF DiskOK
  <2>8. o.gen = Generation /\ o.mode = mem.mode /\ (o.stable => env.played[Generation] = mem.mode)
    BY DEF Stable
  <2> HIDE DEF s, d, o
  <2>9. Positions' BY <1>1, <1>2, <1>3, <2>7 DEF Positions
  <2>10. Recorded' BY <1>1, <1>2, <1>3, <2>7 DEF Recorded, Due, Gens
  <2>11. Prompt' BY <1>1, <2>7 DEF Prompt
  <2>12. Evidence'
    <3>1. \A x \in disk'.seen : x.gen <= disk'.current
      BY <1>2, <1>6, <2>7, <2>8
    <3>2. \A x \in disk'.seen : x.stable => env'.played[x.gen] = x.mode
      BY <1>1, <2>7, <2>8 DEF Evidence, SelectionIsSound
    <3>3. disk'.selected # None =>
            /\ 1..Sweep \subseteq disk'.failed \cup {x.mode : x \in disk'.seen}
            /\ disk'.selected \notin disk'.failed
      BY <2>3, <2>4, <2>7 DEF Evidence, SelectionIsSound
    <3> QED BY <2>7, <3>1, <3>2, <3>3 DEF Evidence, SelectionIsSound
  <2> QED BY <1>4, <1>5, <2>6, <2>9, <2>10, <2>11, <2>12
<1> QED BY <1>7, <1>8 DEF Record

LEMMA StutterKeeps == ASSUME IInv, UNCHANGED vars PROVE IInv'
BY DEF vars, IInv, TypeOK, DiskOK, MemOK, EnvOK, Positions, Recorded, Prompt, Evidence,
       SelectionIsSound

LEMMA StepKeeps == ASSUME TrainingAssumption, IInv, [Next]_vars PROVE IInv'
<1>1. CASE Coordinator
  BY <1>1, LaunchKeeps, ResumeKeeps, StartKeeps, BoundaryKeeps, RunArenaKeeps, TrainKeeps,
     TrainReturnsKeeps, RelaunchKeeps, RecordKeeps DEF Coordinator
<1>2. CASE ChildCommits \/ ChildLost BY <1>2, ChildCommitsKeeps, ChildLostKeeps
<1>3. CASE ArenaFails \/ TrainFails \/ Crash
  BY <1>3, ArenaFailsKeeps, TrainFailsKeeps, CrashKeeps
<1>4. CASE Signal \/ RequestStop \/ Acknowledge
  BY <1>4, SignalKeeps, RequestStopKeeps, AcknowledgeKeeps
<1>5. CASE UNCHANGED vars BY <1>5, StutterKeeps
<1> QED BY <1>1, <1>2, <1>3, <1>4, <1>5 DEF Next

\* The invariant of every behaviour.
LEMMA Invariance == ASSUME TrainingAssumption PROVE Spec => []IInv
<1>1. Init => IInv BY InitHolds
<1>2. IInv /\ [Next]_vars => IInv' BY StepKeeps
<1> QED BY <1>1, <1>2, PTL DEF Spec

-----------------------------------------------------------------------------
(* The theorems.                                                           *)

\* The state file, the coordinator and the children keep their types.
THEOREM TypeCorrect == ASSUME TrainingAssumption PROVE Spec => []TypeOK
<1>1. IInv => TypeOK BY DEF IInv
<1> QED BY <1>1, Invariance, PTL

\* No generation is played, and no lineage completed, over a due Arena.
THEOREM ArenasAlwaysKeepUp == ASSUME TrainingAssumption PROVE Spec => []ArenasKeepUp
<1>1. IInv => ArenasKeepUp
  <2>1. ASSUME IInv, NEW g \in Due,
               \/ g < disk.committed \/ (g = disk.committed /\ env.child # None)
               \/ disk.life = "COMPLETED"
        PROVE  g \in disk.arenas
    <3>1. /\ g \in Nat /\ disk.current \in Nat /\ disk.committed \in Nat /\ Target \in Nat
          /\ g <= Target
      BY <2>1, Constants DEF IInv, TypeOK, DiskOK, Gens, Due
    <3>2. CASE g < disk.current BY <2>1, <3>2 DEF IInv, Recorded
    <3>3. CASE g = disk.current BY <2>1, <3>1, <3>3 DEF IInv, Positions, Recorded
    <3>4. CASE g > disk.current
      BY <2>1, <3>1, <3>4 DEF IInv, Positions
    <3> QED BY <3>1, <3>2, <3>3, <3>4
  <2> QED BY <2>1 DEF ArenasKeepUp
<1> QED BY <1>1, Invariance, PTL

\* After a soft stop is requested one generation at most is started.
THEOREM StopsArePrompt == ASSUME TrainingAssumption PROVE Spec => []StopIsPrompt
<1>1. IInv => StopIsPrompt BY DEF IInv, Prompt, StopIsPrompt
<1> QED BY <1>1, Invariance, PTL

\* The sweep selects a mode that has not failed, after every mode was seen or
\* failed, and stable observations are of the mode they are recorded for.
THEOREM SelectionsAreSound == ASSUME TrainingAssumption PROVE Spec => []SelectionIsSound
<1>1. IInv => SelectionIsSound BY DEF IInv, Evidence
<1> QED BY <1>1, Invariance, PTL

-----------------------------------------------------------------------------
(* KomiCalibration: the candidates' games and the komi they select.        *)

\* Where the calibration may be: on its way to the first candidate it has
\* none behind it, it chooses behind a batch of both, and it hands over what
\* it selected.
KomiPlaces ==
  /\ calib.pc \in {"down", "wait", "stopping", "pin"} => calib.at = 1
  /\ calib.pc \in {"ack", "begin", "play", "publish"} => calib.at <= 4
  /\ calib.pc = "choose" => calib.at \in {3, 5}
  /\ calib.pc = "publish" => calib.cand[Komi!Item.komi] = Komi!Item.batch
  /\ calib.pc \in {"prepare", "train"} => calib.selected # 0

\* The batches that the loop has behind it are on the ledger, whatever was
\* played before a crash.
KomiPlayed ==
  \A j \in 1..4 : j < calib.at => Komi!Work[j].batch \in calib.ledger[Komi!Work[j].komi]

KomiInv ==
  /\ Komi!CalibTypeOK /\ KomiPlaces /\ KomiPlayed
  /\ Komi!WinnerIsCumulative /\ Komi!FailsForCause

LEMMA KomiInitHolds == ASSUME MaxTroubles \in Nat, Komi!CalibInit PROVE KomiInv
<1>1. PICK w \in Komi!Worlds :
       calib = [stage |-> "WAITING_FOR_M137", pinned |-> FALSE, requested |-> FALSE,
                acked |-> FALSE, cand |-> [k \in Komi!Komis |-> Komi!Absent],
                ledger |-> [k \in Komi!Komis |-> {}], selected |-> 0, child |-> FALSE,
                pc |-> "down", at |-> 1, world |-> w, troubles |-> 0, cause |-> FALSE]
  BY DEF Komi!CalibInit
<1>2. Komi!CalibTypeOK
  BY <1>1 DEF Komi!CalibTypeOK, Komi!Stages, Komi!Komis, Komi!Absent
<1> QED
  BY <1>1, <1>2 DEF KomiInv, KomiPlaces, KomiPlayed, Komi!WinnerIsCumulative, Komi!FailsForCause

\* A step that moves the calibration on and changes neither what it has
\* played nor what it has selected.
LEMMA KomiMoves ==
  ASSUME KomiInv, Komi!CalibTypeOK',
         calib'.ledger = calib.ledger, calib'.selected = calib.selected,
         calib'.world = calib.world, calib'.at \in {1, calib.at}, KomiPlaces',
         calib'.stage = "CALIBRATION_FAILED" =>
           calib'.cause \/ calib.selected # 0
  PROVE  KomiInv'
<1>1. KomiPlayed'
  BY DEF KomiInv, KomiPlayed, Komi!CalibTypeOK, Komi!Work
<1>2. Komi!WinnerIsCumulative'
  BY DEF KomiInv, Komi!WinnerIsCumulative
<1> QED
  BY <1>1, <1>2 DEF KomiInv, Komi!FailsForCause

LEMMA KomiRun ==
  ASSUME KomiInv, MaxTroubles \in Nat,
         Komi!CalibLaunch \/ Komi!ObtainParent \/ Komi!StopParent \/ Komi!Pin \/ Komi!Await
         \/ Komi!Play \/ Komi!Handoff \/ Komi!CalibCrash
         \/ Komi!AwaitTimesOut \/ Komi!PlayFails \/ Komi!ChildFails \/ Komi!ChildReturns
  PROVE  KomiInv'
<1> USE DEF KomiInv
<1>0. Komi!CalibTypeOK
  OBVIOUS
<1>1. CASE Komi!CalibLaunch
  <2>1. Komi!CalibTypeOK' /\ KomiPlaces'
    BY <1>0, <1>1 DEF Komi!CalibLaunch, Komi!CalibTypeOK, KomiPlaces, Komi!To
  <2> QED
    BY <1>0, <1>1, <2>1, KomiMoves DEF Komi!CalibLaunch, Komi!To, Komi!CalibTypeOK,
       Komi!FailsForCause
<1>2. CASE Komi!ObtainParent
  <2>1. Komi!CalibTypeOK' /\ KomiPlaces'
    BY <1>0, <1>2 DEF Komi!ObtainParent, Komi!CalibTypeOK, KomiPlaces, Komi!To, Komi!Stages
  <2> QED
    BY <1>0, <1>2, <2>1, KomiMoves DEF Komi!ObtainParent, Komi!To, Komi!CalibTypeOK
<1>3. CASE Komi!StopParent
  <2>1. Komi!CalibTypeOK' /\ KomiPlaces'
    BY <1>0, <1>3 DEF Komi!StopParent, Komi!CalibTypeOK, KomiPlaces, Komi!To
  <2> QED
    BY <1>0, <1>3, <2>1, KomiMoves DEF Komi!StopParent, Komi!To, Komi!CalibTypeOK,
       Komi!FailsForCause
<1>4. CASE Komi!Pin
  <2>1. Komi!CalibTypeOK' /\ KomiPlaces'
    <3>1. Komi!CalibTypeOK'
      BY <1>0, <1>4 DEF Komi!Pin, Komi!CalibTypeOK, Komi!To, Komi!Stages
    <3>2. calib'.pc = "ack" /\ calib'.at = 1
      BY <1>0, <1>4 DEF Komi!Pin, Komi!CalibTypeOK, KomiPlaces, Komi!To
    <3> QED
      BY <3>1, <3>2 DEF KomiPlaces
  <2> QED
    BY <1>0, <1>4, <2>1, KomiMoves DEF Komi!Pin, Komi!To, Komi!CalibTypeOK, Komi!FailsForCause
<1>5. CASE Komi!Await
  <2>1. calib' = Komi!To("begin") \/ calib' = [Komi!To("begin") EXCEPT !.acked = TRUE]
    BY <1>5 DEF Komi!Await
  <2>2. Komi!CalibTypeOK' /\ KomiPlaces'
    BY <1>0, <1>5, <2>1 DEF Komi!Await, Komi!CalibTypeOK, KomiPlaces, Komi!To
  <2> QED
    BY <1>0, <2>1, <2>2, KomiMoves DEF Komi!To, Komi!CalibTypeOK, Komi!FailsForCause
<1>6. CASE Komi!Play
  <2>1. Komi!Item.komi \in Komi!Komis /\ Komi!Item.batch \in Komi!Batches
    BY <1>0, <1>6 DEF Komi!Play, Komi!Item, Komi!Work, Komi!Komis, Komi!Batches, KomiPlaces,
       Komi!CalibTypeOK
  <2>2. calib'.cand = [calib.cand EXCEPT ![Komi!Item.komi] = Komi!Item.batch] /\ calib'.at = calib.at
    BY <1>0, <1>6 DEF Komi!Play, Komi!To, Komi!CalibTypeOK
  <2>3. Komi!CalibTypeOK'
    BY <1>0, <1>6, <2>1, <2>2 DEF Komi!Play, Komi!To, Komi!CalibTypeOK, Komi!Batches
  <2>4. KomiPlaces'
    BY <1>0, <1>6, <2>1, <2>2 DEF Komi!Play, Komi!To, Komi!CalibTypeOK, KomiPlaces, Komi!Item
  <2> QED
    BY <1>0, <1>6, <2>3, <2>4, KomiMoves DEF Komi!Play, Komi!To, Komi!CalibTypeOK,
       Komi!FailsForCause
<1>7. CASE Komi!Handoff
  <2>1. \/ \E s \in {"KOMI_SELECTED", "CHILD_LINEAGE_CREATED", "TRAINING_RESUMED"} :
             calib' = [calib EXCEPT !.stage = s]
        \/ calib' = Komi!To("train") /\ calib.stage = "TRAINING_RESUMED"
    BY <1>7 DEF Komi!Handoff
  <2>2. Komi!CalibTypeOK' /\ KomiPlaces'
    BY <1>0, <1>7, <2>1 DEF Komi!Handoff, Komi!CalibTypeOK, KomiPlaces, Komi!To, Komi!Stages,
       Komi!Item
  <2> QED
    BY <1>0, <2>1, <2>2, KomiMoves DEF Komi!To, Komi!CalibTypeOK, Komi!FailsForCause
<1>8. CASE Komi!CalibCrash
  <2>1. Komi!CalibTypeOK' /\ KomiPlaces'
    <3>0. calib.troubles + 1 \in 0..MaxTroubles
      BY <1>0, <1>8 DEF Komi!CalibCrash, Komi!CalibTypeOK
    <3> DEFINE c == [calib EXCEPT !.troubles = calib.troubles + 1]
               d == [c EXCEPT !.pc = "down"]
    <3>00. calib' = [d EXCEPT !.at = 1]
      BY <1>0, <1>8 DEF Komi!CalibCrash, Komi!CalibTypeOK, Komi!To
    <3>1. Komi!CalibTypeOK'
      <4> DEFINE S == [stage : Komi!Stages, pinned : BOOLEAN, requested : BOOLEAN, acked : BOOLEAN,
             cand : [Komi!Komis -> {Komi!Absent, 1, 2, Komi!Aggregate}],
             ledger : [Komi!Komis -> SUBSET Komi!Batches],
             selected : {0} \cup Komi!Komis, child : BOOLEAN,
             pc : {"down", "wait", "stopping", "pin", "ack", "begin", "play", "publish",
                   "choose", "prepare", "train", "ended"},
             at : 1..5, world : Komi!Worlds, troubles : 0..MaxTroubles, cause : BOOLEAN]
      <4>1. c \in S
        BY <1>0, <3>0 DEF Komi!CalibTypeOK
      <4> HIDE DEF c
      <4>2. d \in S
        BY <4>1
      <4> HIDE DEF d
      <4>3. calib' \in S
        BY <4>2, <3>00
      <4> QED
        BY <4>3 DEF Komi!CalibTypeOK
    <3>2. calib'.pc = "down" /\ calib'.at = 1
      BY <1>0, <1>8 DEF Komi!CalibCrash, Komi!CalibTypeOK, Komi!To
    <3> QED
      BY <3>1, <3>2 DEF KomiPlaces
  <2> QED
    BY <1>0, <1>8, <2>1, KomiMoves DEF Komi!CalibCrash, Komi!To, Komi!CalibTypeOK,
       Komi!FailsForCause
<1>9. CASE Komi!AwaitTimesOut \/ Komi!PlayFails \/ Komi!ChildFails
  <2>1. /\ calib.troubles < MaxTroubles
        /\ calib' = [Komi!Failed(calib) EXCEPT !.troubles = @ + 1, !.cause = TRUE]
    BY <1>9 DEF Komi!AwaitTimesOut, Komi!PlayFails, Komi!ChildFails
  <2>2. Komi!CalibTypeOK' /\ KomiPlaces'
    <3>0. calib.troubles + 1 \in 0..MaxTroubles
      BY <1>0, <2>1 DEF Komi!CalibTypeOK
    <3>1. Komi!CalibTypeOK'
      BY <1>0, <2>1, <3>0 DEF Komi!Failed, Komi!CalibTypeOK, Komi!Stages
    <3>2. calib'.pc = "ended"
      BY <1>0, <2>1 DEF Komi!Failed, Komi!CalibTypeOK
    <3> QED
      BY <3>1, <3>2 DEF KomiPlaces
  <2> QED
    BY <1>0, <2>1, <2>2, KomiMoves DEF Komi!Failed, Komi!CalibTypeOK
<1>10. CASE Komi!ChildReturns
  <2>1. calib.pc = "train" /\ calib.selected # 0
    BY <1>10 DEF Komi!ChildReturns, KomiPlaces
  <2>2. \/ calib' = [Komi!To("ended") EXCEPT !.child = TRUE, !.stage = "COMPLETE_HANDOFF"]
        \/ calib' = Komi!Failed(calib)
    BY <1>10 DEF Komi!ChildReturns
  <2>3. Komi!CalibTypeOK' /\ KomiPlaces'
    BY <1>0, <2>2 DEF Komi!Failed, Komi!To, Komi!CalibTypeOK, KomiPlaces, Komi!Stages
  <2> QED
    BY <1>0, <2>1, <2>2, <2>3, KomiMoves DEF Komi!Failed, Komi!To, Komi!CalibTypeOK
<1> QED
  BY <1>1, <1>2, <1>3, <1>4, <1>5, <1>6, <1>7, <1>8, <1>9, <1>10

\* What is captured of a candidate is on its ledger, and nothing is lost.
LEMMA KomiCaptures ==
  ASSUME Komi!CalibTypeOK, NEW k \in Komi!Komis
  PROVE  /\ Komi!Captured(k) \in [Komi!Komis -> SUBSET Komi!Batches]
         /\ \A j \in Komi!Komis : calib.ledger[j] \subseteq Komi!Captured(k)[j]
         /\ calib.cand[k] \in Komi!Batches => calib.cand[k] \in Komi!Captured(k)[k]
  BY DEF Komi!CalibTypeOK, Komi!Captured

\* A batch that is captured when its aggregate is published is behind the loop.
LEMMA KomiPublishes ==
  ASSUME KomiInv, calib.at \in 1..4, Komi!Item.batch \in Komi!Captured(Komi!Item.komi)[Komi!Item.komi],
         calib' = Komi!Published(Komi!Item.komi)
  PROVE  KomiInv'
<1> DEFINE k == Komi!Item.komi
<1>1. k \in Komi!Komis /\ Komi!Item.batch \in Komi!Batches /\ k = Komi!Work[calib.at].komi
      /\ Komi!Item.batch = Komi!Work[calib.at].batch
  BY DEF Komi!Item, Komi!Work, Komi!Komis, Komi!Batches
<1>2. /\ Komi!Captured(k) \in [Komi!Komis -> SUBSET Komi!Batches]
      /\ \A j \in Komi!Komis : calib.ledger[j] \subseteq Komi!Captured(k)[j]
  BY <1>1, KomiCaptures DEF KomiInv
<1>3. /\ calib'.ledger = Komi!Captured(k) /\ calib'.at = calib.at + 1
      /\ calib'.cand = [calib.cand EXCEPT ![k] = Komi!Aggregate]
      /\ calib'.pc = Komi!AfterItem /\ calib'.stage = calib.stage
      /\ calib'.selected = calib.selected /\ calib'.world = calib.world /\ calib'.cause = calib.cause
  BY DEF KomiInv, Komi!CalibTypeOK, Komi!Published, Komi!To
<1>4. Komi!CalibTypeOK'
  <2>1. calib' = [[[[calib EXCEPT !.pc = Komi!AfterItem] EXCEPT !.ledger = Komi!Captured(k)]
            EXCEPT !.cand = [calib.cand EXCEPT ![k] = Komi!Aggregate]] EXCEPT !.at = calib.at + 1]
    BY DEF KomiInv, Komi!CalibTypeOK, Komi!Published, Komi!To
  <2>2. [calib.cand EXCEPT ![k] = Komi!Aggregate] \in [Komi!Komis -> {Komi!Absent, 1, 2, Komi!Aggregate}]
    BY <1>1 DEF KomiInv, Komi!CalibTypeOK
  <2>3. Komi!AfterItem \in {"choose", "ack"}
    BY DEF Komi!AfterItem
  <2>4. calib.at + 1 \in 1..5
    OBVIOUS
  <2> HIDE DEF k
  <2> QED
    BY ZenonT(60), <1>2, <2>1, <2>2, <2>3, <2>4 DEF KomiInv, Komi!CalibTypeOK
<1>5. KomiPlaces'
  BY <1>3 DEF KomiPlaces, Komi!AfterItem
<1>6. \A j \in 1..4 : Komi!Work[j].komi \in Komi!Komis
  BY DEF Komi!Work, Komi!Komis
<1>7. KomiPlayed'
  BY <1>1, <1>2, <1>3, <1>6 DEF KomiInv, KomiPlayed
<1>8. Komi!WinnerIsCumulative'
  BY <1>2, <1>3 DEF KomiInv, Komi!WinnerIsCumulative
<1> QED
  BY <1>3, <1>4, <1>5, <1>7, <1>8 DEF KomiInv, Komi!FailsForCause

LEMMA KomiBegins == ASSUME KomiInv, Komi!Begin PROVE KomiInv'
<1> DEFINE k == Komi!Item.komi
<1>1. calib.pc = "begin" /\ calib.at \in 1..4
  BY DEF Komi!Begin, KomiInv, KomiPlaces, Komi!CalibTypeOK
<1>2. k \in Komi!Komis /\ Komi!Item.batch \in Komi!Batches
  BY <1>1 DEF Komi!Item, Komi!Work, Komi!Komis, Komi!Batches
<1>3. /\ Komi!Captured(k) \in [Komi!Komis -> SUBSET Komi!Batches]
      /\ \A j \in Komi!Komis : calib.ledger[j] \subseteq Komi!Captured(k)[j]
  BY <1>2, KomiCaptures DEF KomiInv
<1>4. Komi!Item.batch = 2 => 1 \in calib.ledger[k]
  <2>1. SUFFICES ASSUME calib.at \in {3, 4} PROVE 1 \in calib.ledger[k]
    BY <1>1 DEF Komi!Item, Komi!Work
  <2>2. CASE calib.at = 3
    BY <2>2 DEF KomiInv, KomiPlayed, Komi!Item, Komi!Work
  <2>3. CASE calib.at = 4
    BY <2>3 DEF KomiInv, KomiPlayed, Komi!Item, Komi!Work
  <2> QED
    BY <2>1, <2>2, <2>3
<1>5. CASE Komi!Item.batch \in Komi!Captured(k)[k]
  BY <1>1, <1>5, KomiPublishes DEF Komi!Begin
<1>6. CASE Komi!Item.batch \notin Komi!Captured(k)[k]
  <2>1. calib' = [Komi!To("play") EXCEPT !.ledger = Komi!Captured(k),
                    !.stage = IF Komi!Item.batch = 1 THEN "CANDIDATE" ELSE "EXTENSION"]
    BY <1>2, <1>3, <1>4, <1>6 DEF Komi!Begin
  <2>2. /\ calib'.ledger = Komi!Captured(k) /\ calib'.at = calib.at /\ calib'.pc = "play"
        /\ calib'.stage \in {"CANDIDATE", "EXTENSION"}
        /\ calib'.selected = calib.selected /\ calib'.world = calib.world
    BY <2>1 DEF KomiInv, Komi!CalibTypeOK, Komi!To
  <2>3. Komi!CalibTypeOK'
    BY <1>3, <2>1, <2>2 DEF KomiInv, Komi!CalibTypeOK, Komi!To, Komi!Stages
  <2>4. KomiPlaces'
    BY <1>1, <2>2 DEF KomiPlaces
  <2>5. \A j \in 1..4 : Komi!Work[j].komi \in Komi!Komis
    BY DEF Komi!Work, Komi!Komis
  <2>6. KomiPlayed'
    BY <1>3, <2>2, <2>5 DEF KomiInv, KomiPlayed
  <2>7. Komi!WinnerIsCumulative'
    BY <1>3, <2>2 DEF KomiInv, Komi!WinnerIsCumulative
  <2> QED
    BY <2>2, <2>3, <2>4, <2>6, <2>7 DEF KomiInv, Komi!FailsForCause
<1> QED
  BY <1>5, <1>6

LEMMA KomiPublish == ASSUME KomiInv, Komi!Publish PROVE KomiInv'
<1>1. /\ calib.pc = "publish" /\ calib.at \in 1..4
      /\ calib.cand[Komi!Item.komi] = Komi!Item.batch
  BY DEF Komi!Publish, KomiInv, KomiPlaces, Komi!CalibTypeOK
<1>2. Komi!Item.komi \in Komi!Komis /\ Komi!Item.batch \in Komi!Batches
  BY <1>1 DEF Komi!Item, Komi!Work, Komi!Komis, Komi!Batches
<1>3. Komi!Item.batch \in Komi!Captured(Komi!Item.komi)[Komi!Item.komi]
  BY <1>1, <1>2, KomiCaptures DEF KomiInv
<1> QED
  BY <1>1, <1>3, KomiPublishes DEF Komi!Publish

\* The batches behind the loop are all that a verdict asks for.
LEMMA KomiChooses == ASSUME KomiInv, Komi!Choose PROVE KomiInv'
<1>1. calib.pc = "choose" /\ calib.at \in {3, 5}
  BY DEF Komi!Choose, KomiInv, KomiPlaces
<1>2. /\ 1 \in calib.ledger[1] /\ 1 \in calib.ledger[2]
      /\ calib.at = 5 => 2 \in calib.ledger[1] /\ 2 \in calib.ledger[2]
  <2>1. /\ Komi!Work[1].komi = 1 /\ Komi!Work[1].batch = 1 /\ Komi!Work[2].komi = 2 /\ Komi!Work[2].batch = 1
        /\ Komi!Work[3].komi = 1 /\ Komi!Work[3].batch = 2 /\ Komi!Work[4].komi = 2 /\ Komi!Work[4].batch = 2
    BY DEF Komi!Work
  <2>2. /\ Komi!Work[1].batch \in calib.ledger[Komi!Work[1].komi]
        /\ Komi!Work[2].batch \in calib.ledger[Komi!Work[2].komi]
        /\ calib.at = 5 => /\ Komi!Work[3].batch \in calib.ledger[Komi!Work[3].komi]
                           /\ Komi!Work[4].batch \in calib.ledger[Komi!Work[4].komi]
    BY <1>1 DEF KomiInv, KomiPlayed
  <2> QED
    BY <2>1, <2>2
<1>3. \A k \in Komi!Komis : /\ 1 \in Komi!Captured(k)[k]
                            /\ calib.at = 5 => Komi!Captured(k)[k] = Komi!Batches
  <2> TAKE k \in Komi!Komis
  <2>1. /\ Komi!Captured(k)[k] \subseteq Komi!Batches
        /\ calib.ledger[k] \subseteq Komi!Captured(k)[k]
    BY KomiCaptures DEF KomiInv
  <2> QED
    BY <1>2, <2>1 DEF Komi!Komis, Komi!Batches
<1> DEFINE evidence == [k \in Komi!Komis |-> Komi!Captured(k)[k]]
           winner == IF calib.world.first = Komi!Close THEN calib.world.total ELSE calib.world.first
<1>4. \/ calib' = [Komi!To("ack") EXCEPT !.stage = "EXTENSION"] /\ calib.at = 3
      \/ /\ calib' = [Komi!To("prepare") EXCEPT !.selected = winner]
         /\ calib.world.first = Komi!Close => calib.at = 5
  <2>1. \A k \in Komi!Komis : evidence[k] = Komi!Captured(k)[k]
    OBVIOUS
  <2>2. ~(\E k \in Komi!Komis : 1 \notin evidence[k])
    BY <1>3, <2>1
  <2>3. calib.at = 5 => ~(\E k \in Komi!Komis : evidence[k] # Komi!Batches)
    BY <1>3, <2>1
  <2>4. calib' = IF \E k \in Komi!Komis : 1 \notin evidence[k] THEN Komi!Failed(calib)
          ELSE IF calib.world.first = Komi!Close
            THEN (IF calib.at < 5 THEN [Komi!To("ack") EXCEPT !.stage = "EXTENSION"]
                  ELSE IF \E k \in Komi!Komis : evidence[k] # Komi!Batches THEN Komi!Failed(calib)
                  ELSE [Komi!To("prepare") EXCEPT !.selected = Komi!Cumulative(calib.world)])
            ELSE [Komi!To("prepare") EXCEPT !.selected = calib.world.first]
    BY DEF Komi!Choose
  <2> HIDE DEF evidence
  <2> QED
    BY <1>1, <2>2, <2>3, <2>4 DEF Komi!Cumulative
<1>5. winner \in Komi!Komis /\ winner # 0
  BY DEF KomiInv, Komi!CalibTypeOK, Komi!Worlds, Komi!Komis, Komi!Close
<1>6. CASE calib' = [Komi!To("ack") EXCEPT !.stage = "EXTENSION"] /\ calib.at = 3
  <2>1. Komi!CalibTypeOK' /\ KomiPlaces'
    <3>1. Komi!CalibTypeOK'
      BY <1>6 DEF KomiInv, Komi!CalibTypeOK, Komi!To, Komi!Stages
    <3>2. calib'.pc = "ack" /\ calib'.at = 3
      BY <1>6 DEF KomiInv, Komi!CalibTypeOK, Komi!To
    <3> QED
      BY <3>1, <3>2 DEF KomiPlaces
  <2> QED
    BY <1>6, <2>1, KomiMoves DEF KomiInv, Komi!To, Komi!CalibTypeOK
<1>7. CASE /\ calib' = [Komi!To("prepare") EXCEPT !.selected = winner]
           /\ calib.world.first = Komi!Close => calib.at = 5
  <2> HIDE DEF winner
  <2>1. /\ calib'.ledger = calib.ledger /\ calib'.at = calib.at /\ calib'.pc = "prepare"
        /\ calib'.selected = winner /\ calib'.world = calib.world
        /\ calib'.stage = calib.stage /\ calib'.cause = calib.cause
    BY <1>7 DEF KomiInv, Komi!CalibTypeOK, Komi!To
  <2>2. Komi!CalibTypeOK'
    BY <1>5, <1>7 DEF KomiInv, Komi!CalibTypeOK, Komi!To
  <2>3. KomiPlaces' /\ KomiPlayed'
    BY <1>5, <2>1 DEF KomiInv, KomiPlaces, KomiPlayed
  <2>4. Komi!WinnerIsCumulative'
    BY <1>2, <1>7, <2>1 DEF Komi!WinnerIsCumulative, Komi!Komis, Komi!Batches, winner
  <2> QED
    BY <1>5, <2>1, <2>2, <2>3, <2>4 DEF KomiInv, Komi!FailsForCause
<1> QED
  BY <1>4, <1>6, <1>7

LEMMA KomiStepKeeps ==
  ASSUME MaxTroubles \in Nat, KomiInv, [Komi!CalibNext]_Komi!calibVars PROVE KomiInv'
<1>1. CASE UNCHANGED calib
  BY <1>1 DEF KomiInv, Komi!CalibTypeOK, KomiPlaces, KomiPlayed, Komi!WinnerIsCumulative,
     Komi!FailsForCause, Komi!Item
<1> QED
  BY <1>1, KomiRun, KomiBegins, KomiPublish, KomiChooses
     DEF Komi!CalibNext, Komi!CalibStep, Komi!calibVars

\* KomiCalibration: the komi that is selected is the one that the whole evidence
\* favours, and the calibration fails before its handoff only for a cause.
THEOREM KomiIsCumulative ==
  ASSUME MaxTroubles \in Nat
  PROVE  Komi!CalibSpec => [](Komi!WinnerIsCumulative /\ Komi!FailsForCause)
<1>1. Komi!CalibInit => KomiInv
  BY KomiInitHolds
<1>2. KomiInv /\ [Komi!CalibNext]_Komi!calibVars => KomiInv'
  BY KomiStepKeeps
<1>3. KomiInv => Komi!WinnerIsCumulative /\ Komi!FailsForCause
  BY DEF KomiInv
<1> QED
  BY <1>1, <1>2, <1>3, PTL DEF Komi!CalibSpec

-----------------------------------------------------------------------------
(* ArenaEngine: the parent, its workers and the broker of one match.        *)

\* What a worker, a message and a row of a batch are.
LaneState ==
  [game : M!Games \cup {M!Free}, move : 0..Moves, role : M!Roles \cup {M!None}, foreign : BOOLEAN]
Tickets == [M!LaneIds -> [M!Roles -> Nat]]
Outputs == (M!Roles \cup {M!None}) \X Nat \X Nat
Replies == [role : M!Roles, ticket : Nat]
WorkerState ==
  [st : {"new", "ready", "run", "left", "exited", "dead"}, tasks : Seq(M!Games),
   lane : [M!LaneIds -> LaneState], ticket : Tickets, held : Tickets,
   input : [M!LaneIds -> M!Positions], output : [M!LaneIds -> Outputs],
   answers : [M!LaneIds -> Seq(Replies)], records : Seq(M!Games \X M!Outcomes)]
Requests ==
  [kind : {"inference"}, worker : M!Workers, lane : M!LaneIds, role : M!Roles, ticket : Nat]
Reports == [kind : {"done"}, worker : M!Workers, records : Seq(M!Games \X M!Outcomes)]
Complaints == [kind : {"error"}, worker : M!Workers]
Control == Reports \cup Complaints
Messages == Requests \cup Control
Rows == [worker : M!Workers, lane : M!LaneIds, role : M!Roles, ticket : Nat, position : M!Positions]
ParentState ==
  [pc : {"barrier", "loop", "join", "complete", "raised"}, tasks : Seq(M!Games),
   done : SUBSET M!Workers, records : Seq(M!Games \X M!Outcomes), faults : 0..MatchFaults,
   verdict : {M!None, "VALID", "TECHNICAL"}]
BrokerState ==
  [inbox : Seq(Messages), control : Seq(Control),
   queue : [M!Roles -> Seq(Requests)], batch : Seq(Rows)]

\* A game that is played has made its first move.
Moving(me) == \A l \in M!LaneIds : me.lane[l].game # M!Free => me.lane[l].move # 0

Typed ==
  /\ parent \in ParentState /\ worker \in [M!Workers -> WorkerState] /\ broker \in BrokerState
  /\ \A w \in M!Workers : Moving(worker[w])

-----------------------------------------------------------------------------
(* Types.                                                                  *)

\* A set of numbers that is not empty has a least one.
LEMMA LeastOf == ASSUME NEW T \in SUBSET Nat, T # {} PROVE \E x \in T : \A y \in T : x <= y
<1> DEFINE R == {ss \in Nat \X Nat : ss[1] < ss[2]}
<1>1. IsWellFoundedOn(R, Nat)
  BY NatLessThanWellFounded, Zenon DEF OpToRel
<1>2. PICK x \in T : \A y \in T : ~ (<<y, x>> \in R)
  <2> HIDE DEF R
  <2> QED BY <1>1, WFMin, Zenon
<1>3. \A y \in T : x <= y
  <2> TAKE y \in T
  <2>1. x \in Nat /\ y \in Nat /\ ~(y < x)
    BY <1>2
  <2> QED BY <2>1
<1> QED
  BY <1>3

\* A worker that is not full has a first free lane.
LEMMA FreeLane ==
  ASSUME M!MatchAssumption, NEW me, M!Busy(me) # M!LaneIds
  PROVE  M!FirstFree(me) \in M!LaneIds /\ me.lane[M!FirstFree(me)].game = M!Free
<1>1. M!LaneIds \ M!Busy(me) \in SUBSET Nat /\ M!LaneIds \ M!Busy(me) # {}
  BY DEF M!LaneIds, M!MatchAssumption, M!Busy
<1>2. \E l \in M!LaneIds \ M!Busy(me) : \A k \in M!LaneIds \ M!Busy(me) : l <= k
  BY <1>1, LeastOf
<1>3. M!FirstFree(me) \in M!LaneIds \ M!Busy(me)
  BY <1>2, Zenon DEF M!FirstFree
<1> QED BY <1>3 DEF M!Busy

\* A lane that takes a game.
Fresh(g) == [game |-> g, move |-> 1, role |-> M!None, foreign |-> FALSE]
Seat(me, l, g) == [me EXCEPT !.lane[l] = Fresh(g)]

LEMMA SeatTyped ==
  ASSUME M!MatchAssumption, NEW me \in WorkerState, Moving(me), NEW l \in M!LaneIds,
         NEW g \in M!Games
  PROVE  Seat(me, l, g) \in WorkerState /\ Moving(Seat(me, l, g))
<1>1. Fresh(g) \in LaneState
  BY DEF Fresh, LaneState, M!MatchAssumption
<1>2. Seat(me, l, g) = [me EXCEPT !.lane = [me.lane EXCEPT ![l] = Fresh(g)]]
  BY DEF Seat
<1>3. [me.lane EXCEPT ![l] = Fresh(g)] \in [M!LaneIds -> LaneState]
  BY <1>1 DEF WorkerState
<1>4. Seat(me, l, g) \in WorkerState
  BY <1>2, <1>3 DEF WorkerState
<1>5. \A k \in M!LaneIds : Seat(me, l, g).lane[k] = IF k = l THEN Fresh(g) ELSE me.lane[k]
  BY <1>2 DEF WorkerState
<1>6. Fresh(g).move = 1
  BY DEF Fresh
<1> QED BY <1>4, <1>5, <1>6 DEF Moving

\* What Finish leaves.
LEMMA FinishIs ==
  ASSUME M!MatchAssumption, NEW me \in WorkerState, Moving(me), NEW l \in M!Busy(me),
         NEW o \in M!Outcomes
  PROVE  /\ M!Finish(me, l, o) \in WorkerState /\ Moving(M!Finish(me, l, o))
         /\ M!Finish(me, l, o).records = Append(me.records, <<me.lane[l].game, o>>)
         /\ \A k \in M!LaneIds : M!Finish(me, l, o).lane[k] =
                IF k = l THEN M!IdleLane ELSE me.lane[k]
         /\ M!Finish(me, l, o).tasks = me.tasks /\ M!Finish(me, l, o).st = me.st
         /\ M!Finish(me, l, o).answers = me.answers
         /\ M!Finish(me, l, o).input = me.input /\ M!Finish(me, l, o).output = me.output
<1>0. l \in M!LaneIds /\ me.lane[l] \in LaneState /\ me.lane[l].game \in M!Games
  BY DEF M!Busy, WorkerState, LaneState
<1>1. M!IdleLane \in LaneState
  BY DEF M!IdleLane, LaneState, M!MatchAssumption
<1> DEFINE rec == Append(me.records, <<me.lane[l].game, o>>)
           lanes == [me.lane EXCEPT ![l] = M!IdleLane]
<1>2. M!Finish(me, l, o) = [me EXCEPT !.records = rec, !.lane = lanes]
  BY DEF M!Finish, WorkerState
<1>3. rec \in Seq(M!Games \X M!Outcomes)
  <2>1. <<me.lane[l].game, o>> \in M!Games \X M!Outcomes /\
            me.records \in Seq(M!Games \X M!Outcomes)
    BY <1>0 DEF WorkerState
  <2> QED BY <2>1
<1>4. lanes \in [M!LaneIds -> LaneState]
  BY <1>1 DEF WorkerState
<1>5. \A k \in M!LaneIds : lanes[k] = IF k = l THEN M!IdleLane ELSE me.lane[k]
  BY DEF WorkerState
<1> HIDE DEF rec, lanes
<1>6. M!Finish(me, l, o) \in WorkerState
  BY <1>2, <1>3, <1>4 DEF WorkerState
<1>7. /\ M!Finish(me, l, o).records = rec /\ M!Finish(me, l, o).lane = lanes
      /\ M!Finish(me, l, o).tasks = me.tasks /\ M!Finish(me, l, o).st = me.st
      /\ M!Finish(me, l, o).answers = me.answers
      /\ M!Finish(me, l, o).input = me.input /\ M!Finish(me, l, o).output = me.output
  BY <1>2 DEF WorkerState
<1>8. M!IdleLane.game = M!Free
  BY DEF M!IdleLane
<1>9. Moving(M!Finish(me, l, o))
  BY <1>7, <1>5, <1>8 DEF Moving
<1> QED BY <1>5, <1>6, <1>7, <1>9 DEF rec

\* What Played leaves: the last move ends the game, any other asks again.
Foreign(me, l) ==
  me.lane[l].foreign \/ me.output[l] # <<me.lane[l].role, me.lane[l].game, me.lane[l].move>>
Freed(me, l) == [me EXCEPT !.held[l][me.lane[l].role] = 0]
Onward(me, l) ==
  [game |-> me.lane[l].game, move |-> me.lane[l].move + 1, role |-> M!None,
   foreign |-> Foreign(me, l)]

LEMMA FreedIs ==
  ASSUME NEW me \in WorkerState, NEW l \in M!LaneIds, me.lane[l].role # M!None
  PROVE  /\ Freed(me, l) \in WorkerState
         /\ Freed(me, l).records = me.records /\ Freed(me, l).lane = me.lane
         /\ Freed(me, l).tasks = me.tasks /\ Freed(me, l).st = me.st
         /\ Freed(me, l).answers = me.answers
         /\ Freed(me, l).input = me.input /\ Freed(me, l).output = me.output
<1>1. me.lane[l].role \in M!Roles
  BY DEF WorkerState, LaneState
<1> DEFINE helds == [me.held EXCEPT ![l] = [me.held[l] EXCEPT ![me.lane[l].role] = 0]]
<1>2. Freed(me, l) = [me EXCEPT !.held = helds]
  BY DEF Freed
<1>3. helds \in Tickets
  <2>1. me.held[l] \in [M!Roles -> Nat] /\ me.held \in [M!LaneIds -> [M!Roles -> Nat]]
    BY DEF WorkerState, Tickets
  <2>2. [me.held[l] EXCEPT ![me.lane[l].role] = 0] \in [M!Roles -> Nat]
    BY <1>1, <2>1
  <2> QED BY <2>1, <2>2 DEF Tickets
<1> HIDE DEF helds
<1> QED BY <1>2, <1>3 DEF WorkerState

LEMMA OnwardIs ==
  ASSUME M!MatchAssumption, NEW me \in WorkerState, NEW l \in M!Busy(me), ~M!Over(me.lane[l])
  PROVE  /\ Onward(me, l) \in LaneState /\ Onward(me, l).game = me.lane[l].game
         /\ Onward(me, l).move # 0 /\ Onward(me, l).role = M!None
         /\ Onward(me, l).foreign = Foreign(me, l)
<1>1. PICK lane \in LaneState : lane = me.lane[l]
  BY DEF M!Busy, WorkerState
<1>2. PICK foreign \in BOOLEAN : foreign = Foreign(me, l)
  BY <1>1 DEF Foreign, LaneState
<1>3. lane.move + 1 \in 1..Moves
  BY <1>1 DEF LaneState, M!Over, M!MatchAssumption
<1>4. Onward(me, l) = [game |-> lane.game, move |-> lane.move + 1, role |-> M!None,
                       foreign |-> foreign]
  BY <1>1, <1>2, Zenon DEF Onward
<1>5. [game |-> lane.game, move |-> lane.move + 1, role |-> M!None,
       foreign |-> foreign] \in LaneState
  BY <1>3 DEF LaneState
<1>6. lane.move + 1 # 0
  BY <1>3
<1>7. /\ Onward(me, l) \in LaneState
      /\ Onward(me, l).game = lane.game /\ Onward(me, l).role = M!None
      /\ Onward(me, l).move = lane.move + 1
  BY <1>4, <1>5
<1>8. Onward(me, l).foreign = foreign
  BY <1>4
<1> QED BY <1>1, <1>2, <1>6, <1>7, <1>8, Zenon

LEMMA PlayedOver ==
  ASSUME M!MatchAssumption, NEW me \in WorkerState, Moving(me), NEW l \in M!Busy(me),
         me.lane[l].role # M!None, M!Over(me.lane[l])
  PROVE  /\ M!Played(me, l) \in WorkerState /\ Moving(M!Played(me, l))
         /\ M!Played(me, l).records = Append(me.records,
              <<me.lane[l].game, IF Foreign(me, l) THEN "foreign" ELSE "ok">>)
         /\ \A k \in M!LaneIds : M!Played(me, l).lane[k] = IF k = l THEN M!IdleLane ELSE me.lane[k]
         /\ M!Played(me, l).tasks = me.tasks /\ M!Played(me, l).st = me.st
         /\ M!Played(me, l).answers = me.answers
         /\ M!Played(me, l).input = me.input /\ M!Played(me, l).output = me.output
<1>0. l \in M!LaneIds
  BY DEF M!Busy
<1>1. PICK o \in M!Outcomes : o = IF Foreign(me, l) THEN "foreign" ELSE "ok"
  BY DEF M!Outcomes
<1>2. M!Played(me, l) = M!Finish(Freed(me, l), l, o)
  BY <1>1 DEF M!Played, Freed, Foreign
<1>3. /\ Freed(me, l) \in WorkerState
      /\ Freed(me, l).records = me.records /\ Freed(me, l).lane = me.lane
      /\ Freed(me, l).tasks = me.tasks /\ Freed(me, l).st = me.st
      /\ Freed(me, l).answers = me.answers
      /\ Freed(me, l).input = me.input /\ Freed(me, l).output = me.output
  BY <1>0, FreedIs
<1>4. Moving(Freed(me, l)) /\ l \in M!Busy(Freed(me, l))
  BY <1>3 DEF Moving, M!Busy
<1>5. PICK on \in WorkerState : on = Freed(me, l)
  BY <1>3
<1>6. /\ M!Finish(on, l, o) \in WorkerState /\ Moving(M!Finish(on, l, o))
      /\ M!Finish(on, l, o).records = Append(on.records, <<on.lane[l].game, o>>)
      /\ \A k \in M!LaneIds : M!Finish(on, l, o).lane[k] = IF k = l THEN M!IdleLane ELSE on.lane[k]
      /\ M!Finish(on, l, o).tasks = on.tasks /\ M!Finish(on, l, o).st = on.st
      /\ M!Finish(on, l, o).answers = on.answers
      /\ M!Finish(on, l, o).input = on.input /\ M!Finish(on, l, o).output = on.output
  <2>1. Moving(on) /\ l \in M!Busy(on)
    BY <1>4, <1>5, Zenon
  <2> QED BY <2>1, FinishIs, Zenon
<1>7. M!Played(me, l) = M!Finish(on, l, o)
  BY <1>2, <1>5, Zenon
<1>8. /\ on.records = me.records /\ on.lane = me.lane
      /\ on.tasks = me.tasks /\ on.st = me.st /\ on.answers = me.answers
      /\ on.input = me.input /\ on.output = me.output
  BY <1>3, <1>5
<1> HIDE <1>1, <1>5
<1> QED BY <1>1, <1>6, <1>7, <1>8

LEMMA PlayedOn ==
  ASSUME M!MatchAssumption, NEW me \in WorkerState, Moving(me), NEW l \in M!Busy(me),
         me.lane[l].role # M!None, ~M!Over(me.lane[l])
  PROVE  /\ M!Played(me, l) \in WorkerState /\ Moving(M!Played(me, l))
         /\ M!Played(me, l).records = me.records
         /\ \A k \in M!LaneIds : M!Played(me, l).lane[k] =
                IF k = l THEN Onward(me, l) ELSE me.lane[k]
         /\ M!Played(me, l).tasks = me.tasks /\ M!Played(me, l).st = me.st
         /\ M!Played(me, l).answers = me.answers
         /\ M!Played(me, l).input = me.input /\ M!Played(me, l).output = me.output
<1>0. l \in M!LaneIds
  BY DEF M!Busy
<1>1. M!Played(me, l) = [Freed(me, l) EXCEPT !.lane[l] = Onward(me, l)]
  BY DEF M!Played, Freed, Foreign, Onward
<1>2. PICK on \in WorkerState : on = Freed(me, l)
  BY <1>0, FreedIs
<1>3. /\ on.records = me.records /\ on.lane = me.lane
      /\ on.tasks = me.tasks /\ on.st = me.st /\ on.answers = me.answers
      /\ on.input = me.input /\ on.output = me.output
  BY <1>0, <1>2, FreedIs
<1>4. PICK lane \in LaneState : lane = Onward(me, l) /\ lane.move # 0
  BY OnwardIs
<1> DEFINE lanes == [on.lane EXCEPT ![l] = lane]
<1>5. M!Played(me, l) = [on EXCEPT !.lane = lanes]
  BY <1>1, <1>2, <1>4
<1>6. lanes \in [M!LaneIds -> LaneState]
  BY DEF WorkerState
<1>7. \A k \in M!LaneIds : lanes[k] = IF k = l THEN lane ELSE me.lane[k]
  BY <1>3 DEF WorkerState
<1> HIDE DEF lanes
<1>8. M!Played(me, l) \in WorkerState
  BY <1>5, <1>6 DEF WorkerState
<1>9. /\ M!Played(me, l).lane = lanes /\ M!Played(me, l).records = me.records
      /\ M!Played(me, l).tasks = me.tasks /\ M!Played(me, l).st = me.st
      /\ M!Played(me, l).answers = me.answers
      /\ M!Played(me, l).input = me.input /\ M!Played(me, l).output = me.output
  BY <1>3, <1>5 DEF WorkerState
<1>10. Moving(M!Played(me, l))
  BY <1>9, <1>7, <1>4 DEF Moving
<1> QED BY <1>4, <1>7, <1>8, <1>9, <1>10

\* What AdvanceLane leaves, when the evaluator takes the request.
Asked(me, l, r) ==
  [me EXCEPT !.lane[l].role = r, !.ticket[l][r] = me.ticket[l][r] + 1,
             !.held[l][r] = me.ticket[l][r] + 1,
             !.input[l] = <<me.lane[l].game, me.lane[l].move>>]

LEMMA AskedIs ==
  ASSUME M!MatchAssumption, NEW me \in WorkerState, Moving(me), NEW l \in M!Busy(me),
         NEW r \in M!Roles
  PROVE  /\ Asked(me, l, r) \in WorkerState /\ Moving(Asked(me, l, r))
         /\ Asked(me, l, r).records = me.records
         /\ \A k \in M!LaneIds : Asked(me, l, r).lane[k] =
              IF k = l THEN [me.lane[l] EXCEPT !.role = r] ELSE me.lane[k]
         /\ Asked(me, l, r).tasks = me.tasks /\ Asked(me, l, r).st = me.st
         /\ Asked(me, l, r).answers = me.answers
         /\ \A k \in M!LaneIds : Asked(me, l, r).input[k] =
              IF k = l THEN <<me.lane[l].game, me.lane[l].move>> ELSE me.input[k]
         /\ Asked(me, l, r).output = me.output
<1>0. l \in M!LaneIds /\ me.lane[l] \in LaneState /\ me.lane[l].game \in M!Games
  BY DEF M!Busy, WorkerState, LaneState
<1> DEFINE t == me.ticket[l][r] + 1
           lanes == [me.lane EXCEPT ![l] = [me.lane[l] EXCEPT !.role = r]]
           tickets == [me.ticket EXCEPT ![l] = [me.ticket[l] EXCEPT ![r] = t]]
           helds == [me.held EXCEPT ![l] = [me.held[l] EXCEPT ![r] = t]]
           inputs == [me.input EXCEPT ![l] = <<me.lane[l].game, me.lane[l].move>>]
<1>1. Asked(me, l, r) =
        [me EXCEPT !.lane = lanes, !.ticket = tickets, !.held = helds, !.input = inputs]
  BY DEF Asked, WorkerState
<1>2. [me.lane[l] EXCEPT !.role = r] \in LaneState
  BY <1>0 DEF LaneState
<1>3. lanes \in [M!LaneIds -> LaneState]
  BY <1>2 DEF WorkerState
<1>4. tickets \in Tickets /\ helds \in Tickets
  <2>1. /\ me.held[l] \in [M!Roles -> Nat] /\ me.held \in [M!LaneIds -> [M!Roles -> Nat]]
        /\ me.ticket[l] \in [M!Roles -> Nat] /\ me.ticket \in [M!LaneIds -> [M!Roles -> Nat]]
    BY <1>0 DEF WorkerState, Tickets
  <2>2. t \in Nat
    BY <2>1
  <2> HIDE DEF t
  <2>3. [me.held[l] EXCEPT ![r] = t] \in [M!Roles -> Nat] /\
            [me.ticket[l] EXCEPT ![r] = t] \in [M!Roles -> Nat]
    BY <2>1, <2>2
  <2> QED BY <2>1, <2>3 DEF Tickets
<1>5. inputs \in [M!LaneIds -> M!Positions]
  <2>1. me.lane[l].move \in 1..Moves
    BY <1>0 DEF Moving, LaneState, M!MatchAssumption, M!Busy
  <2>2. <<me.lane[l].game, me.lane[l].move>> \in M!Positions
    BY <1>0, <2>1 DEF M!Positions
  <2> QED BY <2>2 DEF WorkerState
<1>6. /\ \A k \in M!LaneIds : lanes[k] =
             IF k = l THEN [me.lane[l] EXCEPT !.role = r] ELSE me.lane[k]
      /\ \A k \in M!LaneIds : inputs[k] =
             IF k = l THEN <<me.lane[l].game, me.lane[l].move>> ELSE me.input[k]
  BY DEF WorkerState
<1> HIDE DEF lanes, tickets, helds, inputs
<1>7. Asked(me, l, r) \in WorkerState
  BY <1>1, <1>3, <1>4, <1>5 DEF WorkerState
<1>8. /\ Asked(me, l, r).lane = lanes /\ Asked(me, l, r).records = me.records
      /\ Asked(me, l, r).tasks = me.tasks /\ Asked(me, l, r).st = me.st
      /\ Asked(me, l, r).answers = me.answers
      /\ Asked(me, l, r).input = inputs /\ Asked(me, l, r).output = me.output
  BY <1>1 DEF WorkerState
<1>9. [me.lane[l] EXCEPT !.role = r].game = me.lane[l].game /\
          [me.lane[l] EXCEPT !.role = r].move = me.lane[l].move
  BY <1>0 DEF LaneState
<1>10. Moving(Asked(me, l, r))
  BY <1>8, <1>6, <1>9, <1>0, ZenonT(40) DEF Moving
<1> QED BY <1>6, <1>7, <1>8, <1>10

-----------------------------------------------------------------------------
(* The tasks.                                                              *)

LEMMA Division ==
  ASSUME NEW n \in Int, NEW d \in Nat \ {0}
  PROVE  /\ n \div d \in Int /\ n % d \in 0..d - 1
         /\ n = d * (n \div d) + (n % d)
<1>1. n \div d \in Int
  OBVIOUS
<1>2. n % d \in 0..d - 1
  OBVIOUS
<1>3. n = d * (n \div d) + (n % d)
  OBVIOUS
<1> QED
  BY <1>1, <1>2, <1>3

LEMMA Times == ASSUME NEW a \in Int, NEW b \in Int, NEW n \in Nat, a <= b PROVE a * n <= b * n
<1>1. (b - a) * n >= 0
  OBVIOUS
<1>2. (b - a) * n = b * n - a * n
  OBVIOUS
<1>3. a * n \in Int /\ b * n \in Int
  OBVIOUS
<1> QED BY <1>1, <1>2, <1>3

\* A worker has a turn of its own when there is a game and a lane for it.
LEMMA ShareIs ==
  ASSUME M!MatchAssumption, NEW w \in M!Workers
  PROVE  /\ M!Share(w) \in Nat
         /\ \A k \in Nat \ {0} : k <= M!Share(w) <=>
                k <= Lanes /\ (k - 1) * NumWorkers + w <= NumGames
<1>0. /\ NumWorkers \in Nat \ {0} /\ NumGames \in Nat \ {0} /\ Lanes \in Nat \ {0}
      /\ w \in Nat /\ 1 <= w /\ w <= NumWorkers
  BY DEF M!MatchAssumption, M!Workers
<1>1. PICK rest \in Int : rest = NumGames - w
  BY <1>0
<1>2. PICK d \in Int : d = rest \div NumWorkers
  BY <1>0, Division
<1>3. PICK m \in 0..NumWorkers - 1 : m = rest % NumWorkers
  BY <1>0, Division
<1>4. NumGames - w = NumWorkers * d + m
  <2>1. rest = NumWorkers * (rest \div NumWorkers) + (rest % NumWorkers)
    BY <1>0, Division
  <2> QED BY <1>1, <1>2, <1>3, <2>1, Zenon
<1>5. NumWorkers * d = d * NumWorkers /\ (d + 1) * NumWorkers = d * NumWorkers + NumWorkers
      /\ d * NumWorkers \in Int
  BY <1>0
<1>6. M!Share(w) = IF d + 1 < Lanes THEN d + 1 ELSE Lanes
  BY <1>1, <1>2, Zenon DEF M!Share
<1>7. d + 1 >= 0
  <2> SUFFICES ASSUME d + 1 <= -1 PROVE FALSE
    OBVIOUS
  <2>1. (d + 1) * NumWorkers <= (-1) * NumWorkers
    BY <1>0, Times
  <2> QED BY <2>1, <1>0, <1>4, <1>5
<1>8. M!Share(w) \in Nat
  BY <1>0, <1>6, <1>7
<1>9. ASSUME NEW k \in Nat \ {0}
      PROVE  k <= M!Share(w) <=> k <= Lanes /\ (k - 1) * NumWorkers + w <= NumGames
  <2>1. k - 1 <= d => (k - 1) * NumWorkers <= d * NumWorkers
    BY <1>0, Times
  <2>2. d + 1 <= k - 1 => (d + 1) * NumWorkers <= (k - 1) * NumWorkers
    BY <1>0, Times
  <2>3. (k - 1) * NumWorkers \in Int
    BY <1>0
  <2>4. k - 1 <= d <=> (k - 1) * NumWorkers + w <= NumGames
    BY <1>0, <1>4, <1>5, <2>1, <2>2, <2>3
  <2> QED BY <1>0, <1>6, <2>4
<1> QED BY <1>8, <1>9

\* The own tasks of a worker are games of the first turns.
LEMMA InitialIs ==
  ASSUME M!MatchAssumption, NEW w \in M!Workers
  PROVE  /\ M!Initial(w) \in Seq(M!Games) /\ Len(M!Initial(w)) = M!Share(w)
         /\ \A k \in 1..M!Share(w) : /\ M!Initial(w)[k] = (k - 1) * NumWorkers + w
                                     /\ M!Initial(w)[k] <= Lanes * NumWorkers
                                     /\ (k - 1) * NumWorkers \in Nat
<1>0. /\ NumWorkers \in Nat \ {0} /\ NumGames \in Nat \ {0} /\ Lanes \in Nat \ {0}
      /\ w \in Nat /\ 1 <= w /\ w <= NumWorkers
  BY DEF M!MatchAssumption, M!Workers
<1>1. M!Share(w) \in Nat
  BY ShareIs
<1>2. ASSUME NEW k \in 1..M!Share(w)
      PROVE  /\ (k - 1) * NumWorkers \in Nat
             /\ (k - 1) * NumWorkers + w \in M!Games
             /\ (k - 1) * NumWorkers + w <= Lanes * NumWorkers
  <2>1. k \in Nat \ {0} /\ k <= M!Share(w)
    BY <1>1
  <2>2. k <= Lanes /\ (k - 1) * NumWorkers + w <= NumGames
    BY <2>1, ShareIs
  <2>3. (k - 1) * NumWorkers \in Nat
    BY <1>0, <2>1
  <2>4. k * NumWorkers <= Lanes * NumWorkers
    BY <1>0, <2>1, <2>2, Times
  <2>5. k * NumWorkers = (k - 1) * NumWorkers + NumWorkers /\ k * NumWorkers \in Nat
    BY <1>0, <2>1
  <2>6. Lanes * NumWorkers \in Nat
    BY <1>0
  <2> QED BY <1>0, <2>2, <2>3, <2>4, <2>5, <2>6 DEF M!Games
<1>3. M!Initial(w) \in [1..M!Share(w) -> M!Games]
  BY <1>2 DEF M!Initial
<1>4. M!Initial(w) \in Seq(M!Games)
  BY <1>1, <1>3, SeqDef
<1>5. Len(M!Initial(w)) = M!Share(w)
  BY <1>1, <1>3, <1>4, LenProperties
<1> QED BY <1>2, <1>4, <1>5 DEF M!Initial

LEMMA GlobalIs ==
  ASSUME M!MatchAssumption
  PROVE  /\ M!Global \in Seq(M!Games) /\ Lanes * NumWorkers \in Nat
         /\ DOMAIN M!Global = 1..NumGames - Lanes * NumWorkers
         /\ \A k \in DOMAIN M!Global : M!Global[k] = Lanes * NumWorkers + k
<1>0. /\ NumWorkers \in Nat \ {0} /\ NumGames \in Nat \ {0} /\ Lanes \in Nat \ {0}
  BY DEF M!MatchAssumption
<1>1. PICK n \in Nat : n = Lanes * NumWorkers
  BY <1>0
<1>2. PICK c \in Nat : 1..c = 1..NumGames - n
  <2>1. CASE NumGames - n >= 0
    <3>1. NumGames - n \in Nat
      BY <1>0, <2>1
    <3> QED BY <3>1
  <2>2. CASE NumGames - n < 0
    <3>1. 1..0 = 1..NumGames - n
      BY <1>0, <2>2
    <3> QED BY <3>1
  <2> QED BY <1>0, <2>1, <2>2
<1>3. M!Global = [k \in 1..c |-> n + k]
  BY <1>1, <1>2 DEF M!Global
<1>4. \A k \in 1..c : n + k \in M!Games
  BY <1>0, <1>2 DEF M!Games
<1>5. M!Global \in [1..c -> M!Games]
  BY <1>3, <1>4
<1>6. M!Global \in Seq(M!Games)
  BY <1>5, SeqDef
<1> QED BY <1>1, <1>2, <1>3, <1>6

-----------------------------------------------------------------------------
(* Every step keeps the types.                                             *)

\* Only the state of the process, or what an evaluator remembers, differs.
SameWork(you, me) ==
  /\ you.lane = me.lane /\ you.tasks = me.tasks /\ you.records = me.records
  /\ you.answers = me.answers /\ you.input = me.input /\ you.output = me.output

LEMMA TypedBegins ==
  ASSUME M!MatchAssumption, M!MatchInit
  PROVE  Typed
<1>1. parent \in ParentState
  <2>1. M!Global \in Seq(M!Games) /\ <<>> \in Seq(M!Games \X M!Outcomes) /\ MatchFaults \in Nat
    BY GlobalIs DEF M!MatchAssumption
  <2> QED BY <2>1 DEF M!MatchInit, ParentState
<1>2. broker \in BrokerState
  BY DEF M!MatchInit, BrokerState
<1>3. ASSUME NEW w \in M!Workers PROVE worker[w] \in WorkerState /\ Moving(worker[w])
  <2>1. M!Initial(w) \in Seq(M!Games)
    BY InitialIs
  <2>2. M!IdleLane \in LaneState
    BY DEF M!IdleLane, LaneState, M!MatchAssumption
  <2>3. [l \in M!LaneIds |-> [r \in M!Roles |-> 0]] \in Tickets
    BY DEF Tickets
  <2>4. <<0, 0>> \in M!Positions /\ M!Blank \in Outputs
    BY DEF M!Positions, M!Blank, Outputs
  <2>5. /\ [l \in M!LaneIds |-> M!IdleLane] \in [M!LaneIds -> LaneState]
        /\ [l \in M!LaneIds |-> <<0, 0>>] \in [M!LaneIds -> M!Positions]
        /\ [l \in M!LaneIds |-> M!Blank] \in [M!LaneIds -> Outputs]
        /\ [l \in M!LaneIds |-> <<>>] \in [M!LaneIds -> Seq(Replies)]
        /\ <<>> \in Seq(M!Games \X M!Outcomes)
    BY <2>2, <2>4
  <2> DEFINE lanes == [l \in M!LaneIds |-> M!IdleLane]
             inputs == [l \in M!LaneIds |-> <<0, 0>>]
             outputs == [l \in M!LaneIds |-> M!Blank]
             answers == [l \in M!LaneIds |-> <<>>]
             tickets == [l \in M!LaneIds |-> [r \in M!Roles |-> 0]]
  <2>6. worker[w] = [st |-> "new", tasks |-> M!Initial(w), lane |-> lanes, ticket |-> tickets,
                     held |-> tickets, input |-> inputs, output |-> outputs,
                     answers |-> answers, records |-> <<>>]
    BY DEF M!MatchInit
  <2>7. \A l \in M!LaneIds : lanes[l].game = M!Free
    BY DEF M!IdleLane
  <2> HIDE DEF lanes, inputs, outputs, answers, tickets
  <2>8. worker[w].lane = lanes
    BY <2>6
  <2>9. worker[w] \in WorkerState
    <3>1. lanes \in [M!LaneIds -> LaneState] /\ inputs \in [M!LaneIds -> M!Positions]
      BY <2>5 DEF lanes, inputs
    <3>2. outputs \in [M!LaneIds -> Outputs] /\ answers \in [M!LaneIds -> Seq(Replies)]
      BY <2>5 DEF outputs, answers
    <3>3. tickets \in Tickets
      BY <2>3 DEF tickets
    <3> QED BY <2>1, <2>5, <2>6, <3>1, <3>2, <3>3 DEF WorkerState
  <2> QED BY <2>7, <2>8, <2>9 DEF Moving
<1>4. worker \in [M!Workers -> WorkerState]
  BY <1>3 DEF M!MatchInit
<1> QED BY <1>1, <1>2, <1>3, <1>4 DEF Typed

LEMMA WorkerTyped ==
  ASSUME Typed, NEW w \in M!Workers, NEW you \in WorkerState, Moving(you),
         worker' = [worker EXCEPT ![w] = you], parent' \in ParentState, broker' \in BrokerState
  PROVE  Typed' /\ \A v \in M!Workers : worker'[v] = IF v = w THEN you ELSE worker[v]
<1>1. \A v \in M!Workers : worker'[v] = IF v = w THEN you ELSE worker[v]
  BY DEF Typed
<1>2. worker' \in [M!Workers -> WorkerState]
  BY DEF Typed
<1>3. \A v \in M!Workers : Moving(worker'[v])
  BY <1>1 DEF Typed
<1> QED BY <1>1, <1>2, <1>3 DEF Typed, Moving

LEMMA FaultedIs ==
  ASSUME M!MatchAssumption, Typed, M!Fault, M!Faulted
  PROVE  /\ parent' \in ParentState /\ parent'.tasks = parent.tasks /\ parent'.done = parent.done
         /\ parent'.records = parent.records /\ parent'.pc = parent.pc
         /\ parent'.verdict = parent.verdict
<1>1. parent \in ParentState /\ parent.faults + 1 \in 0..MatchFaults
  BY DEF Typed, ParentState, M!Fault, M!MatchAssumption
<1> QED BY <1>1 DEF M!Faulted, ParentState

\* Only the processes of some workers change.
LEMMA StatesTyped ==
  ASSUME NEW me \in WorkerState, Moving(me),
         NEW st \in {"new", "ready", "run", "left", "exited", "dead"}
  PROVE  /\ [me EXCEPT !.st = st] \in WorkerState /\ Moving([me EXCEPT !.st = st])
         /\ SameWork([me EXCEPT !.st = st], me) /\ [me EXCEPT !.st = st].st = st
<1>1. [me EXCEPT !.st = st] \in WorkerState
  BY DEF WorkerState
<1>2. SameWork([me EXCEPT !.st = st], me) /\ [me EXCEPT !.st = st].st = st
  BY DEF WorkerState, SameWork
<1> QED BY <1>1, <1>2 DEF Moving, SameWork

LEMMA AbortIs ==
  ASSUME M!MatchAssumption, Typed, NEW n \in 0..1, M!Abort(n), n = 0 \/ M!Fault
  PROVE  /\ parent' \in ParentState /\ parent'.tasks = parent.tasks /\ parent'.done = parent.done
         /\ parent'.records = parent.records /\ parent'.pc = "raised"
         /\ parent'.verdict = parent.verdict
         /\ worker' \in [M!Workers -> WorkerState]
         /\ \A w \in M!Workers : /\ SameWork(worker'[w], worker[w]) /\ Moving(worker'[w])
                                 /\ worker'[w].st = IF M!Alive(w) THEN "dead" ELSE worker[w].st
<1>1. parent \in ParentState /\ parent.faults + n \in 0..MatchFaults
  BY DEF Typed, ParentState, M!Fault, M!MatchAssumption
<1>2. parent' = [parent EXCEPT !.pc = "raised", !.faults = parent.faults + n]
  BY DEF M!Abort
<1>3. /\ parent' \in ParentState /\ parent'.tasks = parent.tasks /\ parent'.done = parent.done
      /\ parent'.records = parent.records /\ parent'.pc = "raised"
      /\ parent'.verdict = parent.verdict
  BY <1>1, <1>2 DEF ParentState
<1>4. ASSUME NEW w \in M!Workers
      PROVE  /\ worker'[w] \in WorkerState /\ SameWork(worker'[w], worker[w]) /\ Moving(worker'[w])
             /\ worker'[w].st = IF M!Alive(w) THEN "dead" ELSE worker[w].st
  <2>1. worker[w] \in WorkerState /\ Moving(worker[w])
    BY DEF Typed
  <2>2. worker'[w] = IF M!Alive(w) THEN [worker[w] EXCEPT !.st = "dead"] ELSE worker[w]
    BY DEF M!Abort
  <2>3. CASE M!Alive(w)
    BY <2>1, <2>2, <2>3, StatesTyped, ZenonT(40)
  <2>4. CASE ~M!Alive(w)
    BY <2>1, <2>2, <2>4 DEF SameWork
  <2> QED BY <2>3, <2>4
<1>5. worker' \in [M!Workers -> WorkerState]
  BY <1>4 DEF M!Abort
<1> QED BY <1>3, <1>4, <1>5

\* Nothing is played, asked or reported: at most an error is sent, a batch is
\* given up, a process changes, or the verdict is written.
Through == {"left", "exited", "dead"}
Rules ==
  \/ /\ parent'.verdict = parent.verdict
     /\ parent'.pc \in {parent.pc, "raised"} \/ (parent.pc = "barrier" /\ parent'.pc = "loop")
  \/ /\ parent.pc = "join" /\ parent'.pc = "complete"
     /\ parent'.verdict = IF M!Technical = 0 THEN "VALID" ELSE "TECHNICAL"
Silent ==
  /\ parent'.tasks = parent.tasks /\ parent'.done = parent.done
  /\ parent'.records = parent.records /\ Rules
  /\ \A w \in M!Workers : /\ SameWork(worker'[w], worker[w])
                          /\ worker[w].st \in Through => worker'[w].st \in Through
  /\ broker'.queue = broker.queue /\ broker'.control = broker.control
  /\ broker'.batch \in {broker.batch, <<>>}
  /\ \/ broker'.inbox = broker.inbox
     \/ \E m \in Complaints : broker'.inbox = Append(broker.inbox, m)

LEMMA SameIsSame == \A me : SameWork(me, me)
  BY DEF SameWork

\* The process of one worker changes.
LEMMA StateIs ==
  ASSUME M!MatchAssumption, Typed, NEW w \in M!Workers,
         NEW st \in {"new", "ready", "run", "left", "exited", "dead"},
         worker' = [worker EXCEPT ![w].st = st],
         parent' \in ParentState, broker' \in BrokerState
  PROVE  /\ Typed'
         /\ \A v \in M!Workers : /\ SameWork(worker'[v], worker[v])
                                 /\ worker'[v].st = IF v = w THEN st ELSE worker[v].st
<1>1. PICK me \in WorkerState : me = worker[w] /\ Moving(me)
  BY DEF Typed
<1>2. PICK you \in WorkerState :
        you = [me EXCEPT !.st = st] /\ Moving(you) /\ SameWork(you, me) /\ you.st = st
  <2>1. /\ [me EXCEPT !.st = st] \in WorkerState /\ Moving([me EXCEPT !.st = st])
        /\ SameWork([me EXCEPT !.st = st], me) /\ [me EXCEPT !.st = st].st = st
    <3>1. Moving(me)
      BY <1>1
    <3> QED BY <3>1, StatesTyped, Zenon
  <2> QED BY <2>1, Zenon
<1>3. worker' = [worker EXCEPT ![w] = you]
  BY <1>1, <1>2
<1>4. Typed' /\ \A v \in M!Workers : worker'[v] = IF v = w THEN you ELSE worker[v]
  BY <1>2, <1>3, WorkerTyped, Zenon
<1>5. ASSUME NEW v \in M!Workers
      PROVE  /\ SameWork(worker'[v], worker[v])
             /\ worker'[v].st = IF v = w THEN st ELSE worker[v].st
  <2>1. CASE v = w
    BY <1>1, <1>2, <1>4, <2>1, Zenon
  <2>2. CASE v # w
    <3>1. worker'[v] = worker[v]
      BY <1>4, <2>2
    <3>2. SameWork(worker'[v], worker[v])
      BY <3>1, SameIsSame
    <3>3. worker'[v].st = worker[v].st
      BY <3>1
    <3> QED BY <2>2, <3>2, <3>3
  <2> QED BY <2>1, <2>2
<1> QED BY <1>4, <1>5

LEMMA WorkerSilent ==
  ASSUME M!MatchAssumption, Typed, NEW w \in M!Workers,
         M!Ready(w) \/ M!Exit(w) \/ M!WorkerDies(w)
  PROVE  Typed' /\ Silent
<1>1. parent \in ParentState /\ broker \in BrokerState
  BY DEF Typed
<1>2. /\ broker' = broker
      /\ parent' \in ParentState /\ parent'.tasks = parent.tasks /\ parent'.done = parent.done
      /\ parent'.records = parent.records /\ parent'.pc = parent.pc
      /\ parent'.verdict = parent.verdict
  BY <1>1, FaultedIs DEF M!Ready, M!Exit, M!WorkerDies
<1>3. PICK st \in {"new", "ready", "run", "left", "exited", "dead"} :
        /\ worker' = [worker EXCEPT ![w].st = st]
        /\ worker[w].st \in Through => st \in Through
  <2>1. CASE M!Ready(w)
    BY <2>1 DEF M!Ready, Through
  <2>2. CASE M!Exit(w)
    BY <2>2 DEF M!Exit, Through
  <2>3. CASE M!WorkerDies(w)
    BY <2>3 DEF M!WorkerDies, Through
  <2> QED BY <2>1, <2>2, <2>3
<1>4. /\ Typed'
      /\ \A v \in M!Workers : /\ SameWork(worker'[v], worker[v])
                              /\ worker'[v].st = IF v = w THEN st ELSE worker[v].st
  BY <1>1, <1>2, <1>3, StateIs
<1>5. Rules
  BY <1>2, Zenon DEF Rules
<1>6. \A v \in M!Workers : worker[v].st \in Through => worker'[v].st \in Through
  BY <1>3, <1>4
<1> QED BY <1>2, <1>4, <1>5, <1>6 DEF Silent

LEMMA WorkerRaisesIs ==
  ASSUME M!MatchAssumption, Typed, NEW w \in M!Workers, M!WorkerRaises(w)
  PROVE  Typed' /\ Silent
<1>1. parent \in ParentState /\ broker \in BrokerState
  BY DEF Typed
<1>2. /\ parent' \in ParentState /\ parent'.tasks = parent.tasks /\ parent'.done = parent.done
      /\ parent'.records = parent.records /\ parent'.pc = parent.pc
      /\ parent'.verdict = parent.verdict
  BY <1>1, FaultedIs DEF M!WorkerRaises
<1>3. PICK m \in Complaints :
        broker' = [broker EXCEPT !.inbox = Append(broker.inbox, m)]
  BY DEF M!WorkerRaises, Complaints
<1>4. Append(broker.inbox, m) \in Seq(Messages)
  <2>1. broker.inbox \in Seq(Messages) /\ m \in Messages
    BY <1>1 DEF BrokerState, Messages, Control
  <2> QED BY <2>1
<1>5. /\ broker' \in BrokerState /\ broker'.inbox = Append(broker.inbox, m)
      /\ broker'.queue = broker.queue /\ broker'.control = broker.control
      /\ broker'.batch = broker.batch
  BY <1>1, <1>3, <1>4 DEF BrokerState
<1>6. /\ Typed'
      /\ \A v \in M!Workers : /\ SameWork(worker'[v], worker[v])
                              /\ worker'[v].st = IF v = w THEN "exited" ELSE worker[v].st
  <2>1. worker' = [worker EXCEPT ![w].st = "exited"]
    BY DEF M!WorkerRaises
  <2> QED BY <1>2, <1>5, <2>1, StateIs
<1>7. Rules
  BY <1>2, Zenon DEF Rules
<1>8. \A v \in M!Workers : worker[v].st \in Through => worker'[v].st \in Through
  BY <1>6 DEF Through
<1> QED BY <1>2, <1>5, <1>6, <1>7, <1>8 DEF Silent

LEMMA StartIs ==
  ASSUME M!MatchAssumption, Typed, M!Start
  PROVE  Typed' /\ Silent
<1>1. parent \in ParentState /\ broker \in BrokerState /\ worker \in [M!Workers -> WorkerState]
  BY DEF Typed
<1>2. broker' = broker /\ parent' = [parent EXCEPT !.pc = "loop"] /\ parent.pc = "barrier"
  BY DEF M!Start
<1>3. /\ parent' \in ParentState /\ parent'.tasks = parent.tasks /\ parent'.done = parent.done
      /\ parent'.records = parent.records /\ parent'.pc = "loop"
      /\ parent'.verdict = parent.verdict
  BY <1>1, <1>2 DEF ParentState
<1>4. ASSUME NEW v \in M!Workers
      PROVE  /\ worker'[v] \in WorkerState /\ Moving(worker'[v])
             /\ SameWork(worker'[v], worker[v]) /\ worker[v].st = "ready"
  <2>1. worker'[v] = [worker[v] EXCEPT !.st = "run"] /\ worker[v].st = "ready"
    BY DEF M!Start
  <2>2. worker[v] \in WorkerState /\ Moving(worker[v])
    BY DEF Typed
  <2> QED BY <2>1, <2>2, StatesTyped, ZenonT(40)
<1>5. worker' \in [M!Workers -> WorkerState]
  BY <1>4 DEF M!Start
<1>6. \A v \in M!Workers : Moving(worker'[v])
  BY <1>4
<1>7. Typed'
  BY <1>1, <1>2, <1>3, <1>5, <1>6 DEF Typed, Moving
<1> QED BY <1>2, <1>3, <1>4, <1>7 DEF Silent, Rules, Through

LEMMA AbortSilent ==
  ASSUME M!MatchAssumption, Typed, NEW n \in 0..1, M!Abort(n), n = 0 \/ M!Fault,
         broker' \in {broker, [broker EXCEPT !.batch = <<>>]}
  PROVE  Typed' /\ Silent
<1>1. parent \in ParentState /\ broker \in BrokerState
  BY DEF Typed
<1>2. /\ broker' \in BrokerState /\ broker'.inbox = broker.inbox
      /\ broker'.queue = broker.queue /\ broker'.control = broker.control
      /\ broker'.batch \in {broker.batch, <<>>}
  <2>1. CASE broker' = broker
    BY <1>1, <2>1
  <2>2. CASE broker' = [broker EXCEPT !.batch = <<>>]
    <3>1. <<>> \in Seq(Rows)
      OBVIOUS
    <3> QED BY <1>1, <2>2, <3>1 DEF BrokerState
  <2> QED BY <2>1, <2>2
<1>3. /\ parent' \in ParentState /\ parent'.tasks = parent.tasks /\ parent'.done = parent.done
      /\ parent'.records = parent.records /\ parent'.pc = "raised"
      /\ parent'.verdict = parent.verdict
      /\ worker' \in [M!Workers -> WorkerState]
      /\ \A w \in M!Workers : /\ SameWork(worker'[w], worker[w]) /\ Moving(worker'[w])
                              /\ worker'[w].st = IF M!Alive(w) THEN "dead" ELSE worker[w].st
  BY AbortIs
<1>4. Typed'
  BY <1>2, <1>3 DEF Typed, Moving
<1>5. Rules
  BY <1>3, Zenon DEF Rules
<1>6. \A w \in M!Workers : worker[w].st \in Through => worker'[w].st \in Through
  BY <1>3 DEF Through
<1> QED BY <1>2, <1>3, <1>4, <1>5, <1>6 DEF Silent

LEMMA SummarizeIs ==
  ASSUME M!MatchAssumption, Typed, M!Summarize
  PROVE  Typed' /\ Silent
<1>1. parent \in ParentState /\ broker \in BrokerState
  BY DEF Typed
<1>2. CASE M!Dead # {}
  <2>1. M!Abort(0) /\ broker' = broker
    BY <1>2 DEF M!Summarize
  <2> QED BY <2>1, AbortSilent
<1>3. CASE M!Dead = {}
  <2>1. PICK verdict \in {"VALID", "TECHNICAL"} : verdict =
            IF M!Technical = 0 THEN "VALID" ELSE "TECHNICAL"
    OBVIOUS
  <2>2. /\ parent' = [parent EXCEPT !.pc = "complete", !.verdict = verdict]
        /\ worker' = worker /\ broker' = broker /\ parent.pc = "join"
    BY <1>3, <2>1, Zenon DEF M!Summarize
  <2>3. /\ parent' \in ParentState /\ parent'.tasks = parent.tasks /\ parent'.done = parent.done
        /\ parent'.records = parent.records /\ parent'.pc = "complete"
        /\ parent'.verdict = verdict
    BY <1>1, <2>2 DEF ParentState
  <2>4. Typed'
    BY <2>2, <2>3 DEF Typed, Moving
  <2>5. \A w \in M!Workers : SameWork(worker'[w], worker[w]) /\ worker'[w].st = worker[w].st
    BY <2>2, SameIsSame
  <2>6. Rules
    BY <2>1, <2>2, <2>3, Zenon DEF Rules
  <2> QED BY <2>2, <2>3, <2>4, <2>5, <2>6 DEF Silent
<1> QED BY <1>2, <1>3

\* What raises or ends the match.
LEMMA ParentSilent ==
  ASSUME M!MatchAssumption, Typed,
         \/ M!Start \/ M!BarrierFails \/ M!SeeDead \/ M!Summarize
         \/ M!InferenceFails \/ M!BarrierTimesOut \/ M!JoinTimesOut
  PROVE  Typed' /\ Silent
<1>1. CASE M!Start
  BY <1>1, StartIs
<1>2. CASE M!BarrierFails \/ M!SeeDead
  BY <1>2, AbortSilent DEF M!BarrierFails, M!SeeDead
<1>3. CASE M!Summarize
  BY <1>3, SummarizeIs
<1>4. CASE M!InferenceFails \/ M!BarrierTimesOut \/ M!JoinTimesOut
  BY <1>4, AbortSilent DEF M!InferenceFails, M!BarrierTimesOut, M!JoinTimesOut
<1> QED BY <1>1, <1>2, <1>3, <1>4

\* What a step of a worker leaves alone.
Others(w) == \A v \in M!Workers : v # w => worker'[v] = worker[v]
Kept == parent'.done = parent.done /\ parent'.records = parent.records
        /\ parent'.pc = parent.pc /\ parent'.verdict = parent.verdict

LEMMA SeatIs ==
  ASSUME M!MatchAssumption, NEW me \in WorkerState, Moving(me), NEW l \in M!LaneIds,
         NEW g \in M!Games
  PROVE  /\ \A k \in M!LaneIds : Seat(me, l, g).lane[k] = IF k = l THEN Fresh(g) ELSE me.lane[k]
         /\ Seat(me, l, g).records = me.records /\ Seat(me, l, g).tasks = me.tasks
         /\ Seat(me, l, g).st = me.st /\ Seat(me, l, g).answers = me.answers
         /\ Seat(me, l, g).input = me.input /\ Seat(me, l, g).output = me.output
<1>1. Seat(me, l, g) = [me EXCEPT !.lane = [me.lane EXCEPT ![l] = Fresh(g)]]
  BY DEF Seat
<1> QED BY <1>1 DEF WorkerState

\* A game goes from a list of tasks to a lane.
StartLaneEffect(w) ==
  \E l \in M!LaneIds, g \in M!Games :
    /\ worker[w].st = "run" /\ worker[w].lane[l].game = M!Free
    /\ worker'[w].st = "run"
    /\ \A k \in M!LaneIds : worker'[w].lane[k] = IF k = l THEN Fresh(g) ELSE worker[w].lane[k]
    /\ worker'[w].records = worker[w].records /\ worker'[w].answers = worker[w].answers
    /\ worker'[w].input = worker[w].input /\ worker'[w].output = worker[w].output
    /\ Others(w) /\ broker' = broker /\ Kept
    /\ \/ /\ worker[w].tasks # <<>> /\ g = Head(worker[w].tasks)
          /\ worker'[w].tasks = Tail(worker[w].tasks) /\ parent'.tasks = parent.tasks
       \/ /\ parent.tasks # <<>> /\ g = Head(parent.tasks)
          /\ worker'[w].tasks = worker[w].tasks /\ parent'.tasks = Tail(parent.tasks)

LEMMA StartLaneIs ==
  ASSUME M!MatchAssumption, Typed, NEW w \in M!Workers, M!StartLane(w)
  PROVE  Typed' /\ StartLaneEffect(w)
<1>1. parent \in ParentState /\ broker \in BrokerState
  BY DEF Typed
<1>2. PICK me \in WorkerState : me = worker[w] /\ Moving(me)
  BY DEF Typed
<1>3. me.st = "run" /\ M!Busy(me) # M!LaneIds /\ broker' = broker
  BY <1>2 DEF M!StartLane
<1>4. PICK l \in M!LaneIds : l = M!FirstFree(me) /\ me.lane[l].game = M!Free
  BY <1>3, FreeLane
<1>5. CASE /\ me.tasks # <<>>
           /\ worker' = [worker EXCEPT ![w] =
                  [Seat(me, l, Head(me.tasks)) EXCEPT !.tasks = Tail(@)]]
           /\ UNCHANGED parent
  <2>1. PICK g \in M!Games : g = Head(me.tasks)
    BY <1>5 DEF WorkerState
  <2>2. Tail(me.tasks) \in Seq(M!Games)
    BY <1>5 DEF WorkerState
  <2>3. PICK seated \in WorkerState : seated = Seat(me, l, g) /\ Moving(seated)
    BY <1>2, SeatTyped
  <2>4. /\ \A k \in M!LaneIds : seated.lane[k] = IF k = l THEN Fresh(g) ELSE me.lane[k]
        /\ seated.records = me.records /\ seated.tasks = me.tasks
        /\ seated.st = me.st /\ seated.answers = me.answers
        /\ seated.input = me.input /\ seated.output = me.output
    BY <1>2, <2>3, SeatIs
  <2>5. PICK you : you = [seated EXCEPT !.tasks = Tail(me.tasks)]
    OBVIOUS
  <2>6. /\ you \in WorkerState /\ you.lane = seated.lane
        /\ you.records = seated.records /\ you.tasks = Tail(me.tasks)
        /\ you.st = seated.st /\ you.answers = seated.answers
        /\ you.input = seated.input /\ you.output = seated.output
    BY <2>2, <2>5 DEF WorkerState
  <2>7. Moving(you)
    BY <2>3, <2>6 DEF Moving
  <2>8. worker' = [worker EXCEPT ![w] = you]
    BY <1>5, <2>1, <2>3, <2>4, <2>5
  <2>9. parent' = parent
    BY <1>5
  <2>10. Typed' /\ \A v \in M!Workers : worker'[v] = IF v = w THEN you ELSE worker[v]
    BY <1>1, <1>3, <2>6, <2>7, <2>8, <2>9, WorkerTyped
  <2>11. Others(w) /\ Kept
    BY <2>9, <2>10 DEF Others, Kept
  <2>12. worker'[w] = you
    BY <2>10
  <2>13. /\ worker[w].st = "run" /\ worker[w].lane[l].game = M!Free
         /\ worker[w].tasks # <<>> /\ g = Head(worker[w].tasks)
    BY <1>2, <1>3, <1>4, <1>5, <2>1
  <2>14. /\ worker'[w].st = "run" /\ worker'[w].tasks = Tail(worker[w].tasks)
         /\ worker'[w].records = worker[w].records /\ worker'[w].answers = worker[w].answers
         /\ worker'[w].input = worker[w].input /\ worker'[w].output = worker[w].output
    BY <1>2, <1>3, <2>4, <2>6, <2>12, Zenon
  <2>15. \A k \in M!LaneIds : worker'[w].lane[k] = IF k = l THEN Fresh(g) ELSE worker[w].lane[k]
    BY <1>2, <2>4, <2>6, <2>12, Zenon
  <2>16. parent'.tasks = parent.tasks
    BY <2>9
  <2> QED
    BY <1>3, <2>10, <2>11, <2>13, <2>14, <2>15, <2>16, Zenon DEF StartLaneEffect
<1>6. CASE /\ me.tasks = <<>> /\ parent.tasks # <<>>
           /\ worker' = [worker EXCEPT ![w] = Seat(me, l, Head(parent.tasks))]
           /\ parent' = [parent EXCEPT !.tasks = Tail(@)]
  <2>1. PICK g \in M!Games : g = Head(parent.tasks)
    BY <1>1, <1>6 DEF ParentState
  <2>2. Tail(parent.tasks) \in Seq(M!Games)
    BY <1>1, <1>6 DEF ParentState
  <2>3. PICK you \in WorkerState : you = Seat(me, l, g) /\ Moving(you)
    BY <1>2, SeatTyped
  <2>4. /\ \A k \in M!LaneIds : you.lane[k] = IF k = l THEN Fresh(g) ELSE me.lane[k]
        /\ you.records = me.records /\ you.tasks = me.tasks
        /\ you.st = me.st /\ you.answers = me.answers
        /\ you.input = me.input /\ you.output = me.output
    BY <1>2, <2>3, SeatIs
  <2>5. parent' \in ParentState /\ parent'.tasks = Tail(parent.tasks) /\ Kept
    BY <1>1, <1>6, <2>2 DEF ParentState, Kept
  <2>6. worker' = [worker EXCEPT ![w] = you]
    BY <1>6, <2>1, <2>3
  <2>7. Typed' /\ \A v \in M!Workers : worker'[v] = IF v = w THEN you ELSE worker[v]
    BY <1>1, <1>3, <2>3, <2>5, <2>6, WorkerTyped
  <2>8. Others(w) /\ worker'[w] = you
    BY <2>7 DEF Others
  <2> HIDE <2>3, <2>6, <1>6
  <2> QED
    BY <1>2, <1>3, <1>4, <1>6, <2>1, <2>4, <2>5, <2>7, <2>8 DEF StartLaneEffect
<1> QED BY <1>2, <1>4, <1>5, <1>6 DEF M!StartLane, Seat, Fresh

\* A game ends with an error: a lane is free, and an answer may be consumed.
FailEffect(w, l) ==
  /\ worker[w].st = "run" /\ l \in M!Busy(worker[w])
  /\ worker'[w].st = "run" /\ worker'[w].tasks = worker[w].tasks
  /\ worker'[w].records = Append(worker[w].records, <<worker[w].lane[l].game, "error">>)
  /\ \A k \in M!LaneIds : worker'[w].lane[k] = IF k = l THEN M!IdleLane ELSE worker[w].lane[k]
  /\ Others(w) /\ broker' = broker /\ Kept /\ parent'.tasks = parent.tasks

\* An answer is consumed.
LEMMA AnswersTyped ==
  ASSUME NEW me \in WorkerState, NEW l \in M!LaneIds, NEW a \in Seq(Replies)
  PROVE  /\ [me EXCEPT !.answers[l] = a] \in WorkerState
         /\ \A k \in M!LaneIds : [me EXCEPT !.answers[l] = a].answers[k] =
                IF k = l THEN a ELSE me.answers[k]
         /\ [me EXCEPT !.answers[l] = a].lane = me.lane
         /\ [me EXCEPT !.answers[l] = a].records = me.records
         /\ [me EXCEPT !.answers[l] = a].tasks = me.tasks
         /\ [me EXCEPT !.answers[l] = a].st = me.st
         /\ [me EXCEPT !.answers[l] = a].input = me.input
         /\ [me EXCEPT !.answers[l] = a].output = me.output
         /\ [me EXCEPT !.answers[l] = a].held = me.held
<1>1. PICK as : as = [me.answers EXCEPT ![l] = a]
  OBVIOUS
<1>0. me.answers \in [M!LaneIds -> Seq(Replies)]
  BY DEF WorkerState
<1>0a. as \in [M!LaneIds -> Seq(Replies)]
  BY <1>0, <1>1
<1>0b. \A k \in M!LaneIds : as[k] = IF k = l THEN a ELSE me.answers[k]
  BY <1>0, <1>1
<1>2. [me EXCEPT !.answers[l] = a] = [me EXCEPT !.answers = as]
  BY <1>1
<1> HIDE <1>1
<1> DEFINE P(you) ==
      /\ you \in WorkerState
      /\ \A k \in M!LaneIds : you.answers[k] = IF k = l THEN a ELSE me.answers[k]
      /\ you.lane = me.lane /\ you.records = me.records /\ you.tasks = me.tasks /\ you.st = me.st
      /\ you.input = me.input /\ you.output = me.output /\ you.held = me.held
<1>3. P([me EXCEPT !.answers = as])
  BY <1>0a, <1>0b DEF WorkerState
<1>4. P([me EXCEPT !.answers[l] = a])
  <2> HIDE DEF P
  <2> QED BY <1>2, <1>3, Zenon
<1> QED BY <1>4, Zenon

LEMMA Failing ==
  ASSUME M!MatchAssumption, Typed, NEW w \in M!Workers, NEW me \in WorkerState, Moving(me),
         NEW l \in M!Busy(me), worker[w].st = "run", l \in M!Busy(worker[w]),
         me.lane = worker[w].lane, me.records = worker[w].records, me.tasks = worker[w].tasks,
         me.st = "run",
         worker' = [worker EXCEPT ![w] = M!Finish(me, l, "error")],
         broker' = broker, parent' \in ParentState, Kept, parent'.tasks = parent.tasks
  PROVE  Typed' /\ FailEffect(w, l)
<1>1. PICK you \in WorkerState : you = M!Finish(me, l, "error") /\ Moving(you)
  BY FinishIs DEF M!Outcomes
<1>2. /\ you.records = Append(me.records, <<me.lane[l].game, "error">>)
      /\ \A k \in M!LaneIds : you.lane[k] = IF k = l THEN M!IdleLane ELSE me.lane[k]
      /\ you.tasks = me.tasks /\ you.st = me.st
  <2>1. "error" \in M!Outcomes
    BY DEF M!Outcomes
  <2>2. /\ M!Finish(me, l, "error").records = Append(me.records, <<me.lane[l].game, "error">>)
        /\ \A k \in M!LaneIds : M!Finish(me, l, "error").lane[k] =
               IF k = l THEN M!IdleLane ELSE me.lane[k]
        /\ M!Finish(me, l, "error").tasks = me.tasks /\ M!Finish(me, l, "error").st = me.st
    BY <2>1, FinishIs, SMTT(30)
  <2> QED BY <1>1, <2>2
<1>3. worker' = [worker EXCEPT ![w] = you] /\ broker \in BrokerState
  BY <1>1 DEF Typed
<1>4. Typed' /\ \A v \in M!Workers : worker'[v] = IF v = w THEN you ELSE worker[v]
  BY <1>1, <1>3, WorkerTyped, ZenonT(40)
<1>5. Others(w) /\ worker'[w] = you
  BY <1>4 DEF Others
<1> HIDE <1>1, <1>3
<1> QED BY <1>2, <1>4, <1>5, Zenon DEF FailEffect

LEMMA LaneFailsIs ==
  ASSUME M!MatchAssumption, Typed, NEW w \in M!Workers, NEW l \in M!LaneIds, M!LaneFails(w, l)
  PROVE  Typed' /\ FailEffect(w, l)
<1>1. PICK me \in WorkerState : me = worker[w] /\ Moving(me)
  BY DEF Typed
<1>2. me.st = "run" /\ l \in M!Busy(me) /\ broker' = broker /\ M!Fault /\ M!Faulted
  BY <1>1 DEF M!LaneFails
<1>3. PICK a \in {me.answers[l]} \cup {Tail(me.answers[l]) : x \in {1} \cap DOMAIN me.answers[l]} :
        worker' = [worker EXCEPT ![w] = [M!Finish(me, l, "error") EXCEPT !.answers[l] = a]]
  BY <1>1 DEF M!LaneFails
<1>4. a \in Seq(Replies)
  <2>1. PICK s \in Seq(Replies) : s = me.answers[l]
    BY <1>1 DEF WorkerState
  <2>2. a = s \/ (a = Tail(s) /\ 1 \in DOMAIN s)
    BY <1>3, <2>1
  <2> QED BY <2>2
<1>5. PICK you \in WorkerState : you = [me EXCEPT !.answers[l] = a]
  BY <1>4, AnswersTyped
<1>6. you.lane = me.lane /\ you.records = me.records /\ you.tasks = me.tasks /\ you.st = me.st
  BY <1>4, <1>5, AnswersTyped
<1>7. Moving(you) /\ l \in M!Busy(you)
  BY <1>1, <1>2, <1>6 DEF Moving, M!Busy
<1>8. [M!Finish(me, l, "error") EXCEPT !.answers[l] = a] = M!Finish(you, l, "error")
  <2>1. PICK rec : rec = Append(me.records, <<me.lane[l].game, "error">>)
    OBVIOUS
  <2>2. M!Finish(me, l, "error") = [me EXCEPT !.records = rec, !.lane[l] = M!IdleLane]
    BY <2>1 DEF M!Finish
  <2>3. M!Finish(you, l, "error") = [you EXCEPT !.records = rec, !.lane[l] = M!IdleLane]
    BY <2>1, <1>6 DEF M!Finish
  <2>4. [[me EXCEPT !.records = rec, !.lane[l] = M!IdleLane] EXCEPT !.answers[l] = a]
          = [[me EXCEPT !.answers[l] = a] EXCEPT !.records = rec, !.lane[l] = M!IdleLane]
    BY DEF WorkerState
  <2> QED BY <2>2, <2>3, <2>4, <1>5, Zenon
<1>9. /\ parent' \in ParentState /\ parent'.tasks = parent.tasks /\ Kept
  BY <1>2, FaultedIs DEF Kept
<1>10. worker' = [worker EXCEPT ![w] = M!Finish(you, l, "error")]
  BY <1>3, <1>8, Zenon
<1> HIDE <1>5, <1>3, <1>8
<1> QED BY <1>1, <1>2, <1>6, <1>7, <1>9, <1>10, Failing

\* The search of a lane asks: its request is sent and its input is written.
AskEffect(w, l) ==
  \E r \in M!Roles, m \in Requests :
    /\ worker[w].st = "run" /\ worker[w].lane[l].game # M!Free /\ worker[w].lane[l].role = M!None
    /\ worker'[w].st = "run" /\ worker'[w].tasks = worker[w].tasks
    /\ worker'[w].records = worker[w].records /\ worker'[w].answers = worker[w].answers
    /\ worker'[w].output = worker[w].output
    /\ worker'[w].lane[l] = [worker[w].lane[l] EXCEPT !.role = r]
    /\ worker'[w].input[l] = <<worker[w].lane[l].game, worker[w].lane[l].move>>
    /\ \A k \in M!LaneIds \ {l} : /\ worker'[w].lane[k] = worker[w].lane[k]
                                  /\ worker'[w].input[k] = worker[w].input[k]
    /\ m.worker = w /\ m.lane = l /\ m.role = r
    /\ broker'.inbox = Append(broker.inbox, m) /\ broker'.queue = broker.queue
    /\ broker'.control = broker.control /\ broker'.batch = broker.batch
    /\ Others(w) /\ Kept /\ parent'.tasks = parent.tasks

LEMMA AdvanceLaneIs ==
  ASSUME M!MatchAssumption, Typed, NEW w \in M!Workers, NEW l \in M!LaneIds, M!AdvanceLane(w, l)
  PROVE  Typed' /\ (FailEffect(w, l) \/ AskEffect(w, l))
<1>1. PICK me \in WorkerState : me = worker[w] /\ Moving(me)
  BY DEF Typed
<1>2. me.st = "run" /\ l \in M!Busy(me) /\ me.lane[l].role = M!None /\ parent' = parent
  BY <1>1 DEF M!AdvanceLane
<1>3. parent \in ParentState /\ broker \in BrokerState /\ Kept /\ parent'.tasks = parent.tasks
  BY <1>2 DEF Typed, Kept
<1>4. PICK r \in M!Roles : r = M!RoleOf(me.lane[l].game, me.lane[l].move)
  BY DEF M!RoleOf, M!Roles
<1>5. CASE me.held[l][r] # 0
  <2>1. worker' = [worker EXCEPT ![w] = M!Finish(me, l, "error")] /\ broker' = broker
    BY <1>1, <1>4, <1>5 DEF M!AdvanceLane
  <2> QED BY <1>1, <1>2, <1>3, <2>1, Failing
<1>6. CASE me.held[l][r] = 0
  <2>1. PICK m : m = [kind |-> "inference", worker |-> w, lane |-> l, role |-> r,
                      ticket |-> me.ticket[l][r] + 1]
    OBVIOUS
  <2>2. /\ worker' = [worker EXCEPT ![w] = Asked(me, l, r)]
        /\ broker' = [broker EXCEPT !.inbox = Append(@, m)]
    BY <1>1, <1>4, <1>6, <2>1 DEF M!AdvanceLane, Asked
  <2>3. PICK you \in WorkerState : you = Asked(me, l, r) /\ Moving(you)
    BY <1>1, <1>2, AskedIs
  <2>4. /\ you.records = me.records
        /\ \A k \in M!LaneIds : you.lane[k] =
               IF k = l THEN [me.lane[l] EXCEPT !.role = r] ELSE me.lane[k]
        /\ you.tasks = me.tasks /\ you.st = me.st /\ you.answers = me.answers
        /\ \A k \in M!LaneIds : you.input[k] =
             IF k = l THEN <<me.lane[l].game, me.lane[l].move>> ELSE me.input[k]
        /\ you.output = me.output
    <3>1. Moving(me) /\ l \in M!Busy(me)
      BY <1>1, <1>2
    <3>2. /\ Asked(me, l, r).records = me.records
          /\ \A k \in M!LaneIds : Asked(me, l, r).lane[k] =
               IF k = l THEN [me.lane[l] EXCEPT !.role = r] ELSE me.lane[k]
          /\ Asked(me, l, r).tasks = me.tasks /\ Asked(me, l, r).st = me.st
          /\ Asked(me, l, r).answers = me.answers
          /\ \A k \in M!LaneIds : Asked(me, l, r).input[k] =
               IF k = l THEN <<me.lane[l].game, me.lane[l].move>> ELSE me.input[k]
          /\ Asked(me, l, r).output = me.output
      BY <3>1, AskedIs
    <3> QED BY <2>3, <3>2
  <2>5. m \in Requests /\ m.worker = w /\ m.lane = l /\ m.role = r
    <3>1. me.ticket[l][r] + 1 \in Nat
      BY DEF WorkerState, Tickets
    <3> QED BY <2>1, <3>1 DEF Requests
  <2>6. Append(broker.inbox, m) \in Seq(Messages)
    <3>1. m \in Messages /\ broker.inbox \in Seq(Messages)
      BY <1>3, <2>5 DEF Messages, BrokerState
    <3> QED BY <3>1
  <2>7. /\ broker' \in BrokerState
        /\ broker'.inbox = Append(broker.inbox, m) /\ broker'.queue = broker.queue
        /\ broker'.control = broker.control /\ broker'.batch = broker.batch
    BY <1>3, <2>2, <2>6 DEF BrokerState
  <2>8. worker' = [worker EXCEPT ![w] = you] /\ parent' \in ParentState
    BY <1>2, <1>3, <2>2, <2>3
  <2>9. Typed' /\ \A v \in M!Workers : worker'[v] = IF v = w THEN you ELSE worker[v]
    BY <2>3, <2>7, <2>8, WorkerTyped
  <2>10. Others(w) /\ worker'[w] = you
    BY <2>9 DEF Others
  <2>11. me.lane[l].game # M!Free
    BY <1>2 DEF M!Busy
  <2>12. /\ you.lane[l] = [me.lane[l] EXCEPT !.role = r]
         /\ you.input[l] = <<me.lane[l].game, me.lane[l].move>>
         /\ \A k \in M!LaneIds \ {l} : you.lane[k] = me.lane[k] /\ you.input[k] = me.input[k]
    BY <2>4
  <2> HIDE <2>3, <2>8, <2>2, <2>1
  <2>13. AskEffect(w, l)
    <3>1. /\ worker[w].st = "run" /\ worker[w].lane[l].game # M!Free /\
                 worker[w].lane[l].role = M!None
          /\ worker'[w].st = "run" /\ worker'[w].tasks = worker[w].tasks
          /\ worker'[w].records = worker[w].records /\ worker'[w].answers = worker[w].answers
          /\ worker'[w].output = worker[w].output
      BY <1>1, <1>2, <2>4, <2>10, <2>11, Zenon
    <3>2. /\ worker'[w].lane[l] = [worker[w].lane[l] EXCEPT !.role = r]
          /\ worker'[w].input[l] = <<worker[w].lane[l].game, worker[w].lane[l].move>>
          /\ \A k \in M!LaneIds \ {l} : /\ worker'[w].lane[k] = worker[w].lane[k]
                                        /\ worker'[w].input[k] = worker[w].input[k]
      BY <1>1, <2>10, <2>12, Zenon
    <3> QED BY <1>3, <2>5, <2>7, <2>10, <3>1, <3>2, Zenon DEF AskEffect
  <2> QED BY <2>9, <2>13
<1> QED BY <1>5, <1>6

\* The expected answer is consumed: the game goes on, or it is over.
PollEffect(w, l) ==
  /\ worker[w].st = "run" /\ worker[w].lane[l].game # M!Free /\ worker[w].lane[l].role # M!None
  /\ worker[w].answers[l] # <<>>
  /\ worker'[w].st = "run" /\ worker'[w].tasks = worker[w].tasks
  /\ worker'[w].input = worker[w].input /\ worker'[w].output = worker[w].output
  /\ worker'[w].answers[l] = Tail(worker[w].answers[l])
  /\ \A k \in M!LaneIds \ {l} : /\ worker'[w].lane[k] = worker[w].lane[k]
                                /\ worker'[w].answers[k] = worker[w].answers[k]
  /\ broker' = broker /\ Others(w) /\ Kept /\ parent'.tasks = parent.tasks
OnEffect(w, l) ==
  /\ worker'[w].records = worker[w].records
  /\ worker'[w].lane[l].game = worker[w].lane[l].game /\ worker'[w].lane[l].role = M!None
  /\ worker'[w].lane[l].foreign = Foreign(worker[w], l)
OverEffect(w, l) ==
  /\ worker'[w].records = Append(worker[w].records,
       <<worker[w].lane[l].game, IF Foreign(worker[w], l) THEN "foreign" ELSE "ok">>)
  /\ worker'[w].lane[l] = M!IdleLane

LEMMA PollLaneIs ==
  ASSUME M!MatchAssumption, Typed, NEW w \in M!Workers, NEW l \in M!LaneIds, M!PollLane(w, l)
  PROVE  Typed' /\ (FailEffect(w, l) \/ (PollEffect(w, l) /\ (OnEffect(w, l) \/ OverEffect(w, l))))
<1>1. PICK me \in WorkerState : me = worker[w] /\ Moving(me)
  BY DEF Typed
<1>2. /\ me.st = "run" /\ l \in M!Busy(me) /\ me.lane[l].role # M!None /\ me.answers[l] # <<>>
      /\ parent' = parent /\ broker' = broker
  BY <1>1 DEF M!PollLane
<1>3. /\ parent \in ParentState /\ broker \in BrokerState /\ Kept
      /\ parent'.tasks = parent.tasks /\ me.lane[l].game # M!Free
  BY <1>2 DEF Typed, Kept, M!Busy
<1>4. PICK a \in Seq(Replies) : a = Tail(me.answers[l])
  <2>1. PICK s \in Seq(Replies) : s = me.answers[l]
    BY DEF WorkerState
  <2>2. s # <<>>
    BY <1>2, <2>1
  <2>3. Tail(s) \in Seq(Replies)
    BY <2>2
  <2> QED BY <2>1, <2>3
<1>5. PICK got \in WorkerState : got = [me EXCEPT !.answers[l] = a]
  BY AnswersTyped
<1>6. /\ got.lane = me.lane /\ got.records = me.records /\ got.tasks = me.tasks /\ got.st = me.st
      /\ got.input = me.input /\ got.output = me.output
      /\ \A k \in M!LaneIds : got.answers[k] = IF k = l THEN a ELSE me.answers[k]
  BY <1>5, AnswersTyped
<1>7. Moving(got) /\ l \in M!Busy(got)
  BY <1>1, <1>2, <1>6 DEF Moving, M!Busy
<1>8. got = [me EXCEPT !.answers[l] = Tail(@)]
  BY <1>4, <1>5
<1>9. CASE ~M!Expected(me, l, Head(me.answers[l]))
  <2>1. worker' = [worker EXCEPT ![w] = M!Finish(got, l, "error")]
    BY <1>1, <1>8, <1>9 DEF M!PollLane
  <2> QED BY <1>1, <1>2, <1>3, <1>6, <1>7, <2>1, Failing
<1>10. CASE M!Expected(me, l, Head(me.answers[l]))
  <2>1. worker' = [worker EXCEPT ![w] = M!Played(got, l)]
    BY <1>1, <1>8, <1>10 DEF M!PollLane
  <2>2. Foreign(got, l) <=> Foreign(me, l)
    BY <1>6 DEF Foreign
  <2>3. PICK you : you = M!Played(got, l)
    OBVIOUS
  <2>4. /\ you \in WorkerState /\ Moving(you)
        /\ you.tasks = me.tasks /\ you.st = me.st /\ you.answers = got.answers
        /\ you.input = me.input /\ you.output = me.output
        /\ \A k \in M!LaneIds \ {l} : you.lane[k] = me.lane[k]
        /\ \/ /\ you.records = Append(me.records,
                   <<me.lane[l].game, IF Foreign(me, l) THEN "foreign" ELSE "ok">>)
              /\ you.lane[l] = M!IdleLane
           \/ you.records = me.records /\ you.lane[l] = Onward(got, l) /\ ~M!Over(got.lane[l])
    <3>1. CASE M!Over(got.lane[l])
      <4>1. /\ M!Played(got, l) \in WorkerState /\ Moving(M!Played(got, l))
            /\ M!Played(got, l).records = Append(got.records,
                 <<got.lane[l].game, IF Foreign(got, l) THEN "foreign" ELSE "ok">>)
            /\ \A k \in M!LaneIds : M!Played(got, l).lane[k] =
                   IF k = l THEN M!IdleLane ELSE got.lane[k]
            /\ M!Played(got, l).tasks = got.tasks /\ M!Played(got, l).st = got.st
            /\ M!Played(got, l).answers = got.answers
            /\ M!Played(got, l).input = got.input /\ M!Played(got, l).output = got.output
        BY <1>2, <1>6, <1>7, <3>1, PlayedOver, SMTT(30)
      <4>2. (IF Foreign(got, l) THEN "foreign" ELSE "ok") =
              (IF Foreign(me, l) THEN "foreign" ELSE "ok")
        BY <2>2
      <4> QED BY <1>6, <2>3, <4>1, <4>2, <1>7 DEF M!Busy
    <3>2. CASE ~M!Over(got.lane[l])
      <4>1. /\ M!Played(got, l) \in WorkerState /\ Moving(M!Played(got, l))
            /\ M!Played(got, l).records = got.records
            /\ \A k \in M!LaneIds : M!Played(got, l).lane[k] =
                   IF k = l THEN Onward(got, l) ELSE got.lane[k]
            /\ M!Played(got, l).tasks = got.tasks /\ M!Played(got, l).st = got.st
            /\ M!Played(got, l).answers = got.answers
            /\ M!Played(got, l).input = got.input /\ M!Played(got, l).output = got.output
        BY <1>2, <1>6, <1>7, <3>2, PlayedOn
      <4> QED BY <1>6, <2>3, <3>2, <4>1, <1>7 DEF M!Busy
    <3> QED BY <3>1, <3>2
  <2>5. worker' = [worker EXCEPT ![w] = you] /\ parent' \in ParentState /\ broker' \in BrokerState
    BY <1>2, <1>3, <2>1, <2>3
  <2>6. Typed' /\ \A v \in M!Workers : worker'[v] = IF v = w THEN you ELSE worker[v]
    BY <2>4, <2>5, WorkerTyped
  <2>7. Others(w) /\ worker'[w] = you
    BY <2>6 DEF Others
  <2>8. you.answers[l] = Tail(me.answers[l]) /\
            \A k \in M!LaneIds \ {l} : you.answers[k] = me.answers[k]
    BY <1>4, <1>6, <2>4
  <2> HIDE <2>1, <2>3, <2>5, <1>5, <1>8
  <2>9. PollEffect(w, l)
    <3>1. /\ worker[w].st = "run" /\ worker[w].lane[l].game # M!Free /\
                 worker[w].lane[l].role # M!None
          /\ worker[w].answers[l] # <<>>
      BY <1>1, <1>2, <1>3
    <3>2. /\ worker'[w].st = "run" /\ worker'[w].tasks = worker[w].tasks
          /\ worker'[w].input = worker[w].input /\ worker'[w].output = worker[w].output
          /\ worker'[w].answers[l] = Tail(worker[w].answers[l])
          /\ \A k \in M!LaneIds \ {l} : /\ worker'[w].lane[k] = worker[w].lane[k]
                                        /\ worker'[w].answers[k] = worker[w].answers[k]
      BY <1>1, <1>2, <2>4, <2>7, <2>8
    <3> QED BY <1>2, <1>3, <2>7, <3>1, <3>2, Zenon DEF PollEffect
  <2>10. CASE /\ you.records = Append(me.records,
                   <<me.lane[l].game, IF Foreign(me, l) THEN "foreign" ELSE "ok">>)
              /\ you.lane[l] = M!IdleLane
    BY <1>1, <2>7, <2>10, <2>6, <2>9, Zenon DEF OverEffect
  <2>11. CASE you.records = me.records /\ you.lane[l] = Onward(got, l) /\ ~M!Over(got.lane[l])
    <3>1. /\ Onward(got, l).game = got.lane[l].game /\ Onward(got, l).role = M!None
          /\ Onward(got, l).foreign = Foreign(got, l)
      BY <1>7, <2>11, OnwardIs
    <3>2. Foreign(got, l) = Foreign(me, l)
      BY <1>6 DEF Foreign
    <3>3. OnEffect(w, l)
      BY <1>1, <1>6, <2>7, <2>11, <3>1, <3>2, Zenon DEF OnEffect
    <3> QED BY <2>6, <2>9, <3>3
  <2> QED BY <2>4, <2>10, <2>11
<1> QED BY <1>9, <1>10

\* Without a game or a task: everything that was played is reported.
LeaveEffect(w) ==
  \E m \in Reports :
    /\ worker[w].st = "run" /\ M!Busy(worker[w]) = {}
    /\ worker[w].tasks = <<>> /\ parent.tasks = <<>>
    /\ m.worker = w /\ m.records = worker[w].records
    /\ \A v \in M!Workers : /\ SameWork(worker'[v], worker[v])
                            /\ worker'[v].st = IF v = w THEN "left" ELSE worker[v].st
    /\ broker'.inbox = Append(broker.inbox, m) /\ broker'.queue = broker.queue
    /\ broker'.control = broker.control /\ broker'.batch = broker.batch
    /\ parent' = parent

LEMMA LeaveIs ==
  ASSUME M!MatchAssumption, Typed, NEW w \in M!Workers, M!Leave(w)
  PROVE  Typed' /\ LeaveEffect(w)
<1>1. parent \in ParentState /\ broker \in BrokerState /\ worker[w] \in WorkerState
  BY DEF Typed
<1>2. PICK m : m = [kind |-> "done", worker |-> w, records |-> worker[w].records]
  OBVIOUS
<1>3. m \in Reports /\ m.worker = w /\ m.records = worker[w].records
  BY <1>1, <1>2 DEF Reports, WorkerState
<1>4. Append(broker.inbox, m) \in Seq(Messages)
  <2>1. m \in Messages /\ broker.inbox \in Seq(Messages)
    BY <1>1, <1>3 DEF Messages, Control, BrokerState
  <2> QED BY <2>1
<1>5. broker' = [broker EXCEPT !.inbox = Append(broker.inbox, m)]
  BY <1>2 DEF M!Leave
<1>6. /\ broker' \in BrokerState
      /\ broker'.inbox = Append(broker.inbox, m) /\ broker'.queue = broker.queue
      /\ broker'.control = broker.control /\ broker'.batch = broker.batch
  BY <1>1, <1>4, <1>5 DEF BrokerState
<1>7. worker' = [worker EXCEPT ![w].st = "left"] /\ parent' = parent
  BY DEF M!Leave
<1>8. /\ Typed'
      /\ \A v \in M!Workers : /\ SameWork(worker'[v], worker[v])
                              /\ worker'[v].st = IF v = w THEN "left" ELSE worker[v].st
  BY <1>1, <1>6, <1>7, StateIs
<1>9. /\ worker[w].st = "run" /\ M!Busy(worker[w]) = {}
      /\ worker[w].tasks = <<>> /\ parent.tasks = <<>>
  BY DEF M!Leave
<1> HIDE <1>2, <1>5
<1> QED BY <1>3, <1>6, <1>7, <1>8, <1>9, Zenon DEF LeaveEffect

\* The first message goes on.
IngressEffect ==
  \E m \in Messages :
    /\ broker.inbox # <<>> /\ m = Head(broker.inbox) /\ broker'.inbox = Tail(broker.inbox)
    /\ broker'.batch = broker.batch /\ parent' = parent /\ worker' = worker
    /\ \/ /\ m \in Requests /\ broker'.control = broker.control
          /\ broker'.queue[m.role] = Append(broker.queue[m.role], m)
          /\ \A r \in M!Roles \ {m.role} : broker'.queue[r] = broker.queue[r]
       \/ /\ m \in Control /\ broker'.queue = broker.queue
          /\ broker'.control = Append(broker.control, m)

LEMMA IngressIs ==
  ASSUME M!MatchAssumption, Typed, M!Ingress
  PROVE  Typed' /\ IngressEffect
<1>1. broker \in BrokerState /\ broker.inbox # <<>> /\ parent' = parent /\ worker' = worker
  BY DEF Typed, M!Ingress
<1>2. broker.inbox \in Seq(Messages)
  BY <1>1 DEF BrokerState
<1>2a. PICK s \in Seq(Messages) : s = broker.inbox /\ s # <<>>
  BY <1>1, <1>2
<1>2b. Head(s) \in Messages /\ Tail(s) \in Seq(Messages)
  BY <1>2a
<1>3. PICK m \in Messages : m = Head(broker.inbox)
  BY <1>2a, <1>2b
<1>4. PICK rest \in Seq(Messages) : rest = Tail(broker.inbox)
  BY <1>2a, <1>2b
<1>5. CASE m.kind = "inference"
  <2>1. m \in Requests /\ m.role \in M!Roles
    BY <1>3, <1>5 DEF Messages, Control, Requests, Reports, Complaints
  <2>2. broker.queue \in [M!Roles -> Seq(Requests)]
    BY <1>1 DEF BrokerState
  <2>3. PICK one : one = Append(broker.queue[m.role], m)
    OBVIOUS
  <2>4. one \in Seq(Requests)
    BY <2>1, <2>2, <2>3
  <2>5. PICK queues : queues = [broker.queue EXCEPT ![m.role] = one]
    OBVIOUS
  <2>6. queues \in [M!Roles -> Seq(Requests)] /\ queues[m.role] = one
        /\ \A r \in M!Roles \ {m.role} : queues[r] = broker.queue[r]
    BY <2>1, <2>2, <2>4, <2>5, SMTT(30)
  <2>7. broker' = [broker EXCEPT !.inbox = rest, !.queue = queues]
    BY <1>1, <1>3, <1>4, <1>5, <2>3, <2>5 DEF M!Ingress, BrokerState
  <2> HIDE <2>5
  <2>8. /\ broker' \in BrokerState /\ broker'.inbox = rest /\ broker'.queue = queues
        /\ broker'.control = broker.control /\ broker'.batch = broker.batch
    BY <1>1, <2>6, <2>7 DEF BrokerState
  <2>9. Typed'
    BY <1>1, <2>8 DEF Typed, Moving
  <2>10. broker'.queue[m.role] = Append(broker.queue[m.role], m)
         /\ \A r \in M!Roles \ {m.role} : broker'.queue[r] = broker.queue[r]
    BY <2>3, <2>6, <2>8
  <2> QED BY <1>1, <1>3, <1>4, <2>1, <2>8, <2>9, <2>10, Zenon DEF IngressEffect
<1>6. CASE m.kind # "inference"
  <2>1. m \in Control
    BY <1>3, <1>6 DEF Messages, Requests
  <2>2. PICK control \in Seq(Control) : control = Append(broker.control, m)
    <3>1. PICK c \in Seq(Control) : c = broker.control
      BY <1>1 DEF BrokerState
    <3>2. Append(c, m) \in Seq(Control)
      BY <2>1
    <3> QED BY <3>1, <3>2
  <2>3. broker' = [broker EXCEPT !.inbox = rest, !.control = control]
    BY <1>1, <1>3, <1>4, <1>6, <2>2 DEF M!Ingress
  <2>4. /\ broker' \in BrokerState /\ broker'.inbox = rest /\ broker'.queue = broker.queue
        /\ broker'.control = control /\ broker'.batch = broker.batch
    BY <1>1, <2>3, ZenonT(40) DEF BrokerState
  <2>5. Typed'
    BY <1>1, <2>4 DEF Typed, Moving
  <2> QED BY <1>1, <1>3, <1>4, <2>1, <2>2, <2>4, <2>5, Zenon DEF IngressEffect
<1> QED BY <1>5, <1>6

\* The first requests of a model become the batch, with what their lanes ask.
TakeEffect ==
  \E r \in M!Roles, n \in Nat \ {0} :
    /\ n <= Len(broker.queue[r]) /\ broker.batch = <<>>
    /\ broker'.queue[r] = SubSeq(broker.queue[r], n + 1, Len(broker.queue[r]))
    /\ \A o \in M!Roles \ {r} : broker'.queue[o] = broker.queue[o]
    /\ DOMAIN broker'.batch = 1..n
    /\ \A i \in 1..n :
         /\ broker'.batch[i].worker = broker.queue[r][i].worker
         /\ broker'.batch[i].lane = broker.queue[r][i].lane
         /\ broker'.batch[i].role = r
         /\ broker'.batch[i].position =
              worker[broker.queue[r][i].worker].input[broker.queue[r][i].lane]
    /\ broker'.inbox = broker.inbox /\ broker'.control = broker.control
    /\ parent' = parent /\ worker' = worker

LEMMA TakeBatchIs ==
  ASSUME M!MatchAssumption, Typed, M!TakeBatch
  PROVE  Typed' /\ TakeEffect
<1>1. broker \in BrokerState /\ broker.batch = <<>> /\ parent' = parent /\ worker' = worker
  BY ZenonT(40) DEF Typed, M!TakeBatch
<1>2. broker.queue \in [M!Roles -> Seq(Requests)]
  BY <1>1 DEF BrokerState
<1> DEFINE count(r) == IF Len(broker.queue[r]) < BatchCap THEN Len(broker.queue[r]) ELSE BatchCap
<1>3. PICK r \in M!Roles :
        /\ count(r) > 0
        /\ broker' = [broker EXCEPT !.queue[r] = SubSeq(@, count(r) + 1, Len(@)),
              !.batch = [i \in 1..count(r) |->
                LET q == broker.queue[r][i]
                IN [worker |-> q.worker, lane |-> q.lane, role |-> r, ticket |-> q.ticket,
                    position |-> worker[q.worker].input[q.lane]]]]
  BY DEF M!TakeBatch
<1>4. PICK s \in Seq(Requests) : s = broker.queue[r]
  BY <1>2
<1>5. PICK n \in Nat \ {0} : n = count(r) /\ n <= Len(s)
  <2>1. PICK c : c = count(r)
    OBVIOUS
  <2>2. c = IF Len(s) < BatchCap THEN Len(s) ELSE BatchCap
    BY <1>4, <2>1
  <2>3. c > 0
    BY <1>3, <2>1
  <2>4. c \in Nat \ {0} /\ c <= Len(s)
    BY <2>2, <2>3 DEF M!MatchAssumption
  <2> QED BY <2>1, <2>4
<1>6. PICK rows : rows = [i \in 1..n |->
        [worker |-> s[i].worker, lane |-> s[i].lane, role |-> r, ticket |-> s[i].ticket,
         position |-> worker[s[i].worker].input[s[i].lane]]]
  OBVIOUS
<1>7. ASSUME NEW i \in 1..n
      PROVE  /\ rows[i] \in Rows /\ rows[i].worker = s[i].worker
             /\ rows[i].lane = s[i].lane /\ rows[i].role = r
             /\ rows[i].position = worker[s[i].worker].input[s[i].lane]
  <2>1. s[i] \in Requests
    BY <1>5
  <2>2. s[i].worker \in M!Workers /\ s[i].lane \in M!LaneIds /\ s[i].ticket \in Nat
    BY <2>1 DEF Requests
  <2>3. worker[s[i].worker] \in WorkerState
    BY <2>2 DEF Typed
  <2>4. worker[s[i].worker].input[s[i].lane] \in M!Positions
    BY <2>2, <2>3 DEF WorkerState
  <2> QED BY <1>6, <2>2, <2>4 DEF Rows
<1>8. rows \in Seq(Rows) /\ DOMAIN rows = 1..n
  <2>1. rows \in [1..n -> Rows]
    BY <1>6, <1>7
  <2> QED BY <2>1, SeqDef
<1>9. PICK rest \in Seq(Requests) : rest = SubSeq(s, n + 1, Len(s))
  <2>1. \A i \in n + 1..Len(s) : s[i] \in Requests
    BY <1>5
  <2>2. SubSeq(s, n + 1, Len(s)) \in Seq(Requests)
    BY <2>1, SubSeqProperties
  <2> QED BY <2>2
<1>10. PICK queues : queues = [broker.queue EXCEPT ![r] = rest]
  OBVIOUS
<1>11. queues \in [M!Roles -> Seq(Requests)] /\ queues[r] = rest
       /\ \A o \in M!Roles \ {r} : queues[o] = broker.queue[o]
  BY <1>2, <1>10
<1>12. broker' = [broker EXCEPT !.queue = queues, !.batch = rows]
  <2>1. broker' = [broker EXCEPT !.queue[r] = SubSeq(@, n + 1, Len(@)),
              !.batch = [i \in 1..n |->
                LET q == broker.queue[r][i]
                IN [worker |-> q.worker, lane |-> q.lane, role |-> r, ticket |-> q.ticket,
                    position |-> worker[q.worker].input[q.lane]]]]
    <3> HIDE DEF count
    <3> QED BY <1>3, <1>5
  <2>2. rows = [i \in 1..n |->
                LET q == broker.queue[r][i]
                IN [worker |-> q.worker, lane |-> q.lane, role |-> r, ticket |-> q.ticket,
                    position |-> worker[q.worker].input[q.lane]]]
    BY <1>4, <1>6
  <2>3. queues = [broker.queue EXCEPT ![r] = SubSeq(@, n + 1, Len(@))]
    BY <1>2, <1>4, <1>9, <1>10
  <2> HIDE <1>6, <1>10, <1>4
  <2>4. broker' = [broker EXCEPT !.queue[r] = SubSeq(@, n + 1, Len(@)), !.batch = rows]
    BY <2>1, <2>2, Zenon
  <2> QED BY <2>3, <2>4, <1>1 DEF BrokerState
<1> HIDE <1>10, <1>6
<1>13. /\ broker' \in BrokerState /\ broker'.inbox = broker.inbox /\ broker'.queue = queues
       /\ broker'.control = broker.control /\ broker'.batch = rows
  BY <1>1, <1>8, <1>11, <1>12 DEF BrokerState
<1>14. Typed'
  BY <1>1, <1>13 DEF Typed, Moving
<1>15. /\ n <= Len(broker.queue[r])
       /\ broker'.queue[r] = SubSeq(broker.queue[r], n + 1, Len(broker.queue[r]))
       /\ \A o \in M!Roles \ {r} : broker'.queue[o] = broker.queue[o]
  BY <1>4, <1>5, <1>9, <1>11, <1>13, Zenon
<1>16. \A i \in 1..n :
         /\ broker'.batch[i].worker = broker.queue[r][i].worker
         /\ broker'.batch[i].lane = broker.queue[r][i].lane
         /\ broker'.batch[i].role = r
         /\ broker'.batch[i].position =
              worker[broker.queue[r][i].worker].input[broker.queue[r][i].lane]
  BY <1>4, <1>7, <1>13, Zenon
<1>17. DOMAIN broker'.batch = 1..n
  BY <1>8, <1>13
<1> HIDE DEF count
<1> QED BY <1>1, <1>13, <1>14, <1>15, <1>16, <1>17, Zenon DEF TakeEffect

\* Every row of the batch is answered, in the slot of its lane.
AnswerEffect ==
  /\ \A w \in M!Workers :
       /\ worker'[w].lane = worker[w].lane /\ worker'[w].tasks = worker[w].tasks
       /\ worker'[w].records = worker[w].records /\ worker'[w].st = worker[w].st
       /\ worker'[w].input = worker[w].input
       /\ \A l \in M!LaneIds :
            \/ /\ M!RowsFor(w, l) = {} /\ worker'[w].answers[l] = worker[w].answers[l]
               /\ worker'[w].output[l] = worker[w].output[l]
            \/ \E i \in M!RowsFor(w, l), a \in Replies :
                 /\ worker'[w].answers[l] = Append(worker[w].answers[l], a)
                 /\ worker'[w].output[l] = <<broker.batch[i].role, broker.batch[i].position[1],
                                             broker.batch[i].position[2]>>
  /\ broker'.inbox = broker.inbox /\ broker'.queue = broker.queue
  /\ broker'.control = broker.control /\ broker'.batch = <<>>
  /\ parent' = parent

LEMMA RowForIs ==
  ASSUME Typed, NEW w \in M!Workers, NEW l \in M!LaneIds, M!RowsFor(w, l) # {}
  PROVE  \E i \in M!RowsFor(w, l) : M!RowFor(w, l) = broker.batch[i] /\ broker.batch[i] \in Rows
<1>1. PICK i \in M!RowsFor(w, l) : i = CHOOSE j \in M!RowsFor(w, l) : TRUE
  BY Zenon
<1>2. M!RowFor(w, l) = broker.batch[i]
  BY <1>1 DEF M!RowFor
<1>3. broker.batch \in Seq(Rows) /\ i \in DOMAIN broker.batch
  BY DEF Typed, BrokerState, M!RowsFor
<1>4. broker.batch[i] \in Rows
  BY <1>3
<1> QED BY <1>2, <1>4

LEMMA AnswerIs ==
  ASSUME M!MatchAssumption, Typed, M!Answer
  PROVE  Typed' /\ AnswerEffect
<1>1. broker \in BrokerState /\ parent' = parent
  BY DEF Typed, M!Answer
<1>2. /\ broker' \in BrokerState /\ broker'.inbox = broker.inbox
      /\ broker'.queue = broker.queue /\ broker'.control = broker.control
      /\ broker'.batch = <<>>
  <2>1. broker' = [broker EXCEPT !.batch = <<>>]
    BY Zenon DEF M!Answer
  <2>2. <<>> \in Seq(Rows)
    OBVIOUS
  <2> QED BY <1>1, <2>1, <2>2 DEF BrokerState
<1>3. ASSUME NEW w \in M!Workers
      PROVE  /\ worker'[w] \in WorkerState /\ Moving(worker'[w])
             /\ worker'[w].lane = worker[w].lane /\ worker'[w].tasks = worker[w].tasks
             /\ worker'[w].records = worker[w].records /\ worker'[w].st = worker[w].st
             /\ worker'[w].input = worker[w].input
             /\ \A l \in M!LaneIds :
                  \/ /\ M!RowsFor(w, l) = {} /\ worker'[w].answers[l] = worker[w].answers[l]
                     /\ worker'[w].output[l] = worker[w].output[l]
                  \/ \E i \in M!RowsFor(w, l), a \in Replies :
                       /\ worker'[w].answers[l] = Append(worker[w].answers[l], a)
                       /\ worker'[w].output[l] =
                            <<broker.batch[i].role, broker.batch[i].position[1],
                              broker.batch[i].position[2]>>
  <2>1. PICK me \in WorkerState : me = worker[w] /\ Moving(me)
    BY DEF Typed
  <2> DEFINE A(l) == IF M!RowsFor(w, l) = {} THEN me.answers[l]
                     ELSE Append(me.answers[l],
                                 [role |-> M!RowFor(w, l).role, ticket |-> M!RowFor(w, l).ticket])
             O(l) == IF M!RowsFor(w, l) = {} THEN me.output[l]
                     ELSE <<M!RowFor(w, l).role, M!RowFor(w, l).position[1],
                            M!RowFor(w, l).position[2]>>
  <2>2. ASSUME NEW l \in M!LaneIds
        PROVE  /\ A(l) \in Seq(Replies) /\ O(l) \in Outputs
               /\ \/ M!RowsFor(w, l) = {} /\ A(l) = me.answers[l] /\ O(l) = me.output[l]
                  \/ \E i \in M!RowsFor(w, l), a \in Replies :
                       /\ A(l) = Append(me.answers[l], a)
                       /\ O(l) = <<broker.batch[i].role, broker.batch[i].position[1],
                                   broker.batch[i].position[2]>>
    <3>1. me.answers[l] \in Seq(Replies) /\ me.output[l] \in Outputs
      BY DEF WorkerState
    <3>2. CASE M!RowsFor(w, l) = {}
      BY <3>1, <3>2
    <3>3. CASE M!RowsFor(w, l) # {}
      <4>1. PICK i \in M!RowsFor(w, l) : M!RowFor(w, l) = broker.batch[i] /\
                broker.batch[i] \in Rows
        BY <3>3, RowForIs
      <4>2. PICK row \in Rows : row = broker.batch[i]
        BY <4>1
      <4>3. PICK a \in Replies : a = [role |-> row.role, ticket |-> row.ticket]
        BY DEF Replies, Rows
      <4>4. PICK s \in Seq(Replies) : s = me.answers[l]
        BY <3>1
      <4>5. Append(s, a) \in Seq(Replies)
        OBVIOUS
      <4>6. A(l) = Append(s, a)
        BY <3>3, <4>1, <4>2, <4>3, <4>4
      <4>7. O(l) = <<row.role, row.position[1], row.position[2]>>
        BY <3>3, <4>1, <4>2
      <4>8. <<row.role, row.position[1], row.position[2]>> \in Outputs
        <5>1. row.role \in M!Roles /\ row.position \in M!Positions
          BY DEF Rows
        <5>2. row.position[1] \in Nat /\ row.position[2] \in Nat
          BY <5>1 DEF M!Positions, M!Games, M!MatchAssumption
        <5> QED BY <5>1, <5>2 DEF Outputs
      <4> HIDE DEF A, O
      <4> QED BY <4>2, <4>4, <4>5, <4>6, <4>7, <4>8
    <3> HIDE DEF A, O
    <3> QED BY <3>2, <3>3
  <2>3. PICK as : as = [l \in M!LaneIds |-> A(l)]
    OBVIOUS
  <2>4. PICK os : os = [l \in M!LaneIds |-> O(l)]
    OBVIOUS
  <2>5. worker'[w] = [me EXCEPT !.answers = as, !.output = os]
    BY <2>1, <2>3, <2>4 DEF M!Answer
  <2>6. as \in [M!LaneIds -> Seq(Replies)] /\ os \in [M!LaneIds -> Outputs]
        /\ \A l \in M!LaneIds : as[l] = A(l) /\ os[l] = O(l)
    <3> HIDE DEF A, O
    <3> QED BY <2>2, <2>3, <2>4
  <2> HIDE <2>3, <2>4
  <2> HIDE DEF A, O
  <2>7. /\ worker'[w] \in WorkerState
        /\ worker'[w].lane = me.lane /\ worker'[w].tasks = me.tasks
        /\ worker'[w].records = me.records /\ worker'[w].st = me.st
        /\ worker'[w].input = me.input
        /\ worker'[w].answers = as /\ worker'[w].output = os
    BY <2>5, <2>6 DEF WorkerState
  <2>8. Moving(worker'[w])
    BY <2>1, <2>7 DEF Moving
  <2>9. \A l \in M!LaneIds :
           \/ /\ M!RowsFor(w, l) = {} /\ worker'[w].answers[l] = me.answers[l]
              /\ worker'[w].output[l] = me.output[l]
           \/ \E i \in M!RowsFor(w, l), a \in Replies :
                /\ worker'[w].answers[l] = Append(me.answers[l], a)
                /\ worker'[w].output[l] =
                     <<broker.batch[i].role, broker.batch[i].position[1],
                       broker.batch[i].position[2]>>
    BY <2>2, <2>6, <2>7, ZenonT(40)
  <2> HIDE <2>5
  <2> QED BY <2>1, <2>7, <2>8, <2>9, Zenon
<1>4. worker' \in [M!Workers -> WorkerState]
  BY <1>3 DEF M!Answer
<1>5. Typed'
  BY <1>1, <1>2, <1>3, <1>4 DEF Typed, Moving
<1> QED BY <1>1, <1>2, <1>3, <1>5, Zenon DEF AnswerEffect

\* A report is handled, and everyone may be done with it.
ReportEffect ==
  \E m \in Reports :
    /\ parent.pc = "loop" /\ broker.control # <<>> /\ m = Head(broker.control)
    /\ broker'.control = Tail(broker.control) /\ broker'.inbox = broker.inbox
    /\ broker'.queue = broker.queue /\ broker'.batch = broker.batch /\ worker' = worker
    /\ parent'.tasks = parent.tasks /\ parent'.done = parent.done \cup {m.worker}
    /\ parent'.records = parent.records \o m.records /\ parent'.verdict = parent.verdict
    /\ parent'.pc = IF parent'.done = M!Workers THEN "join" ELSE "loop"

LEMMA HandleControlIs ==
  ASSUME M!MatchAssumption, Typed, M!HandleControl
  PROVE  Typed' /\ (Silent \/ ReportEffect)
<1>1. /\ parent \in ParentState /\ broker \in BrokerState /\ broker.control # <<>>
      /\ parent.pc = "loop" /\ broker.batch = <<>>
  BY DEF Typed, M!HandleControl
<1>2. PICK s \in Seq(Control) : s = broker.control /\ s # <<>>
  BY <1>1 DEF BrokerState
<1>3. Head(s) \in Control /\ Tail(s) \in Seq(Control)
  BY <1>2
<1>4. PICK m \in Control : m = Head(broker.control)
  BY <1>2, <1>3
<1>5. CASE m.kind = "error"
  <2>1. M!Abort(0) /\ broker' = broker
    BY <1>4, <1>5 DEF M!HandleControl
  <2> QED BY <2>1, AbortSilent
<1>6. CASE m.kind # "error"
  <2>1. m \in Reports
    BY <1>6 DEF Control, Complaints
  <2>2. m.worker \in M!Workers /\ m.records \in Seq(M!Games \X M!Outcomes)
    BY <2>1 DEF Reports
  <2>3. PICK done \in SUBSET M!Workers : done = parent.done \cup {m.worker}
    BY <1>1, <2>2 DEF ParentState
  <2>4. PICK pc \in {"join", "loop"} : pc = IF done = M!Workers THEN "join" ELSE "loop"
    OBVIOUS
  <2>5. PICK records \in Seq(M!Games \X M!Outcomes) : records = parent.records \o m.records
    <3>1. PICK t \in Seq(M!Games \X M!Outcomes) : t = parent.records
      BY <1>1 DEF ParentState
    <3>2. t \o m.records \in Seq(M!Games \X M!Outcomes)
      BY <2>2, ConcatProperties
    <3> QED BY <3>1, <3>2
  <2>6. /\ parent' = [parent EXCEPT !.done = done, !.records = records, !.pc = pc]
        /\ broker' = [broker EXCEPT !.control = Tail(broker.control)] /\ worker' = worker
    BY <1>1, <1>4, <1>6, <2>3, <2>4, <2>5 DEF M!HandleControl
  <2>7. /\ parent' \in ParentState /\ parent'.tasks = parent.tasks /\ parent'.done = done
        /\ parent'.records = records /\ parent'.verdict = parent.verdict /\ parent'.pc = pc
    BY <1>1, <2>6 DEF ParentState
  <2>8. /\ broker' \in BrokerState /\ broker'.inbox = broker.inbox
        /\ broker'.queue = broker.queue /\ broker'.control = Tail(broker.control)
        /\ broker'.batch = broker.batch
    BY <1>1, <1>2, <1>3, <2>6 DEF BrokerState
  <2>9. Typed'
    BY <2>6, <2>7, <2>8 DEF Typed, Moving
  <2>10. parent'.pc = IF parent'.done = M!Workers THEN "join" ELSE "loop"
    BY <2>4, <2>7
  <2>11. ReportEffect
    BY <1>1, <1>4, <2>1, <2>3, <2>5, <2>6, <2>7, <2>8, <2>10, Zenon DEF ReportEffect
  <2> QED BY <2>9, <2>11
<1> QED BY <1>5, <1>6

\* Every step, by what it does.
Effect ==
  \/ Silent \/ IngressEffect \/ TakeEffect \/ AnswerEffect \/ ReportEffect
  \/ \E w \in M!Workers :
       \/ StartLaneEffect(w) \/ LeaveEffect(w)
       \/ \E l \in M!LaneIds : \/ FailEffect(w, l) \/ AskEffect(w, l)
                               \/ (PollEffect(w, l) /\ (OnEffect(w, l) \/ OverEffect(w, l)))

LEMMA EveryStep ==
  ASSUME M!MatchAssumption, Typed, M!MatchNext
  PROVE  Typed' /\ Effect
<1>1. CASE \/ M!Start \/ M!BarrierFails \/ M!SeeDead \/ M!Summarize
           \/ M!InferenceFails \/ M!BarrierTimesOut \/ M!JoinTimesOut
  BY <1>1, ParentSilent DEF Effect
<1>2. CASE M!Ingress
  BY <1>2, IngressIs DEF Effect
<1>3. CASE M!TakeBatch
  BY <1>3, TakeBatchIs DEF Effect
<1>4. CASE M!Answer
  BY <1>4, AnswerIs DEF Effect
<1>5. CASE M!HandleControl
  BY <1>5, HandleControlIs DEF Effect
<1>6. ASSUME NEW w \in M!Workers, M!Ready(w) \/ M!Exit(w) \/ M!WorkerDies(w) PROVE Typed' /\ Effect
  BY <1>6, WorkerSilent DEF Effect
<1>7. ASSUME NEW w \in M!Workers, M!WorkerRaises(w) PROVE Typed' /\ Effect
  BY <1>7, WorkerRaisesIs DEF Effect
<1>8. ASSUME NEW w \in M!Workers, M!StartLane(w) PROVE Typed' /\ Effect
  BY <1>8, StartLaneIs DEF Effect
<1>9. ASSUME NEW w \in M!Workers, M!Leave(w) PROVE Typed' /\ Effect
  BY <1>9, LeaveIs DEF Effect
<1>10. ASSUME NEW w \in M!Workers, NEW l \in M!LaneIds, M!LaneFails(w, l) PROVE Typed' /\ Effect
  BY <1>10, LaneFailsIs DEF Effect
<1>11. ASSUME NEW w \in M!Workers, NEW l \in M!LaneIds, M!AdvanceLane(w, l) PROVE Typed' /\ Effect
  BY <1>11, AdvanceLaneIs DEF Effect
<1>12. ASSUME NEW w \in M!Workers, NEW l \in M!LaneIds, M!PollLane(w, l) PROVE Typed' /\ Effect
  BY <1>12, PollLaneIs DEF Effect
<1> QED
  BY <1>1, <1>2, <1>3, <1>4, <1>5, <1>6, <1>7, <1>8, <1>9, <1>10, <1>11, <1>12
  DEF M!MatchNext, M!ParentStep, M!WorkerStep

-----------------------------------------------------------------------------
(* Every game is somewhere, once.                                          *)

Items(s) == {s[i] : i \in DOMAIN s}
PlayedIn(s) == {s[i][1] : i \in DOMAIN s}
Seated(me) == {me.lane[l].game : l \in M!LaneIds} \ {M!Free}
Holds(me) == Items(me.tasks) \cup Seated(me) \cup PlayedIn(me.records)

Distinct(s) == \A i, j \in DOMAIN s : s[i] = s[j] => i = j
OncePlayed(s) == \A i, j \in DOMAIN s : s[i][1] = s[j][1] => i = j

\* A worker holds every game in one place.
Tidy(me) ==
  /\ Distinct(me.tasks) /\ OncePlayed(me.records)
  /\ \A k, l \in M!LaneIds : me.lane[k].game = me.lane[l].game => k = l \/ me.lane[k].game = M!Free
  /\ Items(me.tasks) \cap Seated(me) = {}
  /\ Items(me.tasks) \cap PlayedIn(me.records) = {}
  /\ Seated(me) \cap PlayedIn(me.records) = {}

\* The games are divided between the workers and the tasks of everyone.
Divided ==
  /\ Distinct(parent.tasks)
  /\ \A w \in M!Workers : Tidy(worker[w]) /\ Holds(worker[w]) \cap Items(parent.tasks) = {}
  /\ \A v, w \in M!Workers : v # w => Holds(worker[v]) \cap Holds(worker[w]) = {}
  /\ \A g \in M!Games : g \in Items(parent.tasks) \/ \E w \in M!Workers : g \in Holds(worker[w])

LEMMA TailItems ==
  ASSUME NEW S, NEW s \in Seq(S), s # <<>>, Distinct(s)
  PROVE  /\ Head(s) \in Items(s) /\ Distinct(Tail(s))
         /\ Items(Tail(s)) = Items(s) \ {Head(s)}
<1>1. /\ Tail(s) \in Seq(S) /\ Len(s) \in Nat /\ Len(s) # 0 /\ DOMAIN s = 1..Len(s)
      /\ DOMAIN Tail(s) = 1..Len(s) - 1 /\ \A i \in 1..Len(s) - 1 : Tail(s)[i] = s[i + 1]
  BY HeadTailProperties, LenProperties, EmptySeq
<1>2. Head(s) = s[1]
  OBVIOUS
<1>3. Head(s) \in Items(s)
  BY <1>1, <1>2 DEF Items
<1>4. Distinct(Tail(s))
  BY <1>1 DEF Distinct
<1>5. ASSUME NEW x \in Items(Tail(s)) PROVE x \in Items(s) \ {Head(s)}
  <2>1. PICK i \in 1..Len(s) - 1 : x = s[i + 1]
    BY <1>1 DEF Items
  <2>2. i + 1 \in DOMAIN s /\ 1 \in DOMAIN s /\ i + 1 # 1
    BY <1>1
  <2> QED BY <1>2, <2>1, <2>2 DEF Items, Distinct
<1>6. ASSUME NEW x \in Items(s), x # Head(s) PROVE x \in Items(Tail(s))
  <2>1. PICK i \in DOMAIN s : x = s[i]
    BY DEF Items
  <2>2. i - 1 \in 1..Len(s) - 1 /\ s[(i - 1) + 1] = x
    BY <1>1, <1>2, <1>6, <2>1
  <2> QED BY <1>1, <2>2 DEF Items
<1> QED BY <1>3, <1>4, <1>5, <1>6

LEMMA AppendPlayed ==
  ASSUME NEW s \in Seq(M!Games \X M!Outcomes), NEW g \in M!Games, NEW o \in M!Outcomes
  PROVE  /\ PlayedIn(Append(s, <<g, o>>)) = PlayedIn(s) \cup {g}
         /\ OncePlayed(s) /\ g \notin PlayedIn(s) => OncePlayed(Append(s, <<g, o>>))
<1>1. PICK t : t = Append(s, <<g, o>>)
  OBVIOUS
<1>2. /\ Len(s) \in Nat /\ DOMAIN s = 1..Len(s) /\ DOMAIN t = 1..Len(s) + 1
      /\ \A i \in 1..Len(s) : t[i] = s[i]
      /\ t[Len(s) + 1] = <<g, o>>
  BY <1>1
<1>3. t[Len(s) + 1][1] = g
  BY <1>2
<1>4. PlayedIn(t) = PlayedIn(s) \cup {g}
  BY <1>2, <1>3 DEF PlayedIn
<1>5. ASSUME OncePlayed(s), g \notin PlayedIn(s) PROVE OncePlayed(t)
  <2>1. \A i \in 1..Len(s) : s[i][1] # g
    BY <1>2, <1>5 DEF PlayedIn
  <2> QED BY <1>2, <1>3, <1>5, <2>1 DEF OncePlayed
<1> QED BY <1>1, <1>4, <1>5, Zenon

LEMMA SameHolds ==
  ASSUME NEW me, NEW you, you.tasks = me.tasks, you.records = me.records,
         \A l \in M!LaneIds : you.lane[l].game = me.lane[l].game
  PROVE  Holds(you) = Holds(me) /\ (Tidy(me) => Tidy(you))
<1>1. Seated(you) = Seated(me)
  BY DEF Seated
<1> QED BY <1>1 DEF Holds, Tidy

Finished(me, you, l, o) ==
  /\ me.lane[l].game # M!Free /\ you.tasks = me.tasks
  /\ you.records = Append(me.records, <<me.lane[l].game, o>>)
  /\ \A k \in M!LaneIds : you.lane[k].game = IF k = l THEN M!Free ELSE me.lane[k].game

LEMMA FinishHolds ==
  ASSUME NEW me \in WorkerState, NEW you, NEW l \in M!LaneIds, NEW o \in M!Outcomes, Tidy(me),
         Finished(me, you, l, o)
  PROVE  Holds(you) = Holds(me) /\ Tidy(you)
<1>0. /\ me.lane[l].game # M!Free /\ you.tasks = me.tasks
      /\ you.records = Append(me.records, <<me.lane[l].game, o>>)
      /\ \A k \in M!LaneIds : you.lane[k].game = IF k = l THEN M!Free ELSE me.lane[k].game
  BY DEF Finished
<1>1. PICK g \in M!Games : g = me.lane[l].game
  BY <1>0 DEF WorkerState, LaneState
<1>2. me.records \in Seq(M!Games \X M!Outcomes)
  BY DEF WorkerState
<1>3. g \in Seated(me) /\ g \notin PlayedIn(me.records) /\ g \notin Items(me.tasks)
  BY <1>0, <1>1 DEF Seated, Tidy
<1>4. /\ PlayedIn(you.records) = PlayedIn(me.records) \cup {g}
      /\ OncePlayed(you.records)
  <2>1. you.records = Append(me.records, <<g, o>>)
    BY <1>0, <1>1
  <2> QED BY <1>2, <1>3, <2>1, AppendPlayed DEF Tidy
<1>5. Seated(you) = Seated(me) \ {g}
  <2>1. ASSUME NEW x \in Seated(you) PROVE x \in Seated(me) \ {g}
    <3>1. PICK k \in M!LaneIds : x = you.lane[k].game /\ x # M!Free
      BY DEF Seated
    <3>2. k # l /\ x = me.lane[k].game
      BY <1>0, <3>1
    <3> QED BY <1>1, <3>1, <3>2 DEF Seated, Tidy
  <2>2. ASSUME NEW x \in Seated(me), x # g PROVE x \in Seated(you)
    <3>1. PICK k \in M!LaneIds : x = me.lane[k].game /\ x # M!Free
      BY DEF Seated
    <3> QED BY <1>0, <1>1, <2>2, <3>1 DEF Seated
  <2> QED BY <2>1, <2>2
<1>6. Holds(you) = Holds(me)
  BY <1>0, <1>3, <1>4, <1>5 DEF Holds
<1>7. \A k, j \in M!LaneIds : you.lane[k].game = you.lane[j].game =>
          k = j \/ you.lane[k].game = M!Free
  BY <1>0 DEF Tidy
<1>8. Tidy(you)
  BY <1>0, <1>3, <1>4, <1>5, <1>7 DEF Tidy
<1> QED BY <1>6, <1>8

LEMMA SeatHolds ==
  ASSUME NEW me \in WorkerState, NEW you, NEW l \in M!LaneIds, NEW g \in M!Games, Tidy(me),
         me.lane[l].game = M!Free, you.records = me.records,
         \A k \in M!LaneIds : you.lane[k].game = IF k = l THEN g ELSE me.lane[k].game,
         \/ me.tasks # <<>> /\ g = Head(me.tasks) /\ you.tasks = Tail(me.tasks)
         \/ g \notin Holds(me) /\ you.tasks = me.tasks
  PROVE  Holds(you) = Holds(me) \cup {g} /\ Tidy(you)
<1>0. g # M!Free
  BY DEF M!Games, M!Free
<1>1. /\ g \notin Seated(me) /\ g \notin PlayedIn(me.records) /\ Distinct(you.tasks)
      /\ g \notin Items(you.tasks) /\ Items(you.tasks) \cup {g} = Items(me.tasks) \cup {g}
  <2>1. CASE me.tasks # <<>> /\ g = Head(me.tasks) /\ you.tasks = Tail(me.tasks)
    <3>1. me.tasks \in Seq(M!Games) /\ Distinct(me.tasks)
      BY DEF WorkerState, Tidy
    <3>2. /\ g \in Items(me.tasks) /\ Distinct(you.tasks)
          /\ Items(you.tasks) = Items(me.tasks) \ {g}
      BY <2>1, <3>1, TailItems
    <3> QED BY <3>2 DEF Tidy
  <2>2. CASE g \notin Holds(me) /\ you.tasks = me.tasks
    BY <2>2 DEF Holds, Tidy
  <2> QED BY <2>1, <2>2
<1>2. Seated(you) = Seated(me) \cup {g}
  <2>1. ASSUME NEW x \in Seated(you) PROVE x \in Seated(me) \cup {g}
    BY DEF Seated
  <2>2. g \in Seated(you)
    BY <1>0 DEF Seated
  <2>3. ASSUME NEW x \in Seated(me) PROVE x \in Seated(you)
    <3>1. PICK k \in M!LaneIds : x = me.lane[k].game /\ x # M!Free
      BY DEF Seated
    <3> QED BY <3>1 DEF Seated
  <2> QED BY <2>1, <2>2, <2>3
<1>3. Holds(you) = Holds(me) \cup {g}
  BY <1>1, <1>2 DEF Holds
<1>4. ASSUME NEW k \in M!LaneIds, NEW j \in M!LaneIds, you.lane[k].game = you.lane[j].game
      PROVE  k = j \/ you.lane[k].game = M!Free
  <2>1. \A i \in M!LaneIds : me.lane[i].game # g
    BY <1>0, <1>1 DEF Seated
  <2> QED BY <1>4, <2>1 DEF Tidy
<1>5. Items(you.tasks) \subseteq Items(me.tasks)
  <2>1. ASSUME NEW x \in Items(you.tasks) PROVE x \in Items(me.tasks)
    BY <1>1
  <2> QED BY <2>1
<1>6. Tidy(you)
  BY <1>1, <1>2, <1>4, <1>5 DEF Tidy
<1> QED BY <1>3, <1>6

\* Where the first games are.
LEMMA DividedBegins ==
  ASSUME M!MatchAssumption, M!MatchInit
  PROVE  Divided
<1>0. /\ NumWorkers \in Nat \ {0} /\ NumGames \in Nat \ {0} /\ Lanes \in Nat \ {0}
  BY DEF M!MatchAssumption
<1>1. PICK top \in Nat : top = Lanes * NumWorkers
  BY <1>0
<1>2. /\ parent.tasks \in Seq(M!Games) /\ DOMAIN parent.tasks = 1..NumGames - top
      /\ \A k \in DOMAIN parent.tasks : parent.tasks[k] = top + k
  BY <1>1, GlobalIs DEF M!MatchInit
<1>3. ASSUME NEW w \in M!Workers
      PROVE  /\ worker[w].records = <<>> /\ \A l \in M!LaneIds : worker[w].lane[l].game = M!Free
             /\ worker[w].tasks = M!Initial(w)
  BY DEF M!MatchInit, M!IdleLane
<1>4. ASSUME NEW w \in M!Workers
      PROVE  /\ DOMAIN worker[w].tasks = 1..M!Share(w) /\ M!Share(w) \in Nat
             /\ \A k \in 1..M!Share(w) : /\ worker[w].tasks[k] = (k - 1) * NumWorkers + w
                                         /\ worker[w].tasks[k] <= top
                                         /\ (k - 1) * NumWorkers \in Nat
  BY <1>1, <1>3, InitialIs, ShareIs, LenProperties
<1>5. \A w \in M!Workers : Holds(worker[w]) = Items(worker[w].tasks)
  <2> TAKE w \in M!Workers
  <2>1. PlayedIn(worker[w].records) = {}
    BY <1>3 DEF PlayedIn
  <2>2. Seated(worker[w]) = {}
    BY <1>3 DEF Seated
  <2> QED BY <2>1, <2>2 DEF Holds
\* A turn has one game of each worker.
<1>6. ASSUME NEW v \in M!Workers, NEW w \in M!Workers, NEW j \in 1..M!Share(v),
             NEW k \in 1..M!Share(w),
             worker[v].tasks[j] = worker[w].tasks[k]
      PROVE  v = w /\ j = k
  <2>1. /\ v \in 1..NumWorkers /\ w \in 1..NumWorkers /\ j \in Nat /\ k \in Nat
        /\ (j - 1) * NumWorkers \in Nat /\ (k - 1) * NumWorkers \in Nat
        /\ (j - 1) * NumWorkers + v = (k - 1) * NumWorkers + w
    BY <1>4, <1>6 DEF M!Workers
  <2>2. j <= k - 1 => j * NumWorkers <= (k - 1) * NumWorkers
    BY <1>0, <2>1, Times
  <2>3. k <= j - 1 => k * NumWorkers <= (j - 1) * NumWorkers
    BY <1>0, <2>1, Times
  <2>4. /\ j * NumWorkers = (j - 1) * NumWorkers + NumWorkers
        /\ k * NumWorkers = (k - 1) * NumWorkers + NumWorkers
    BY <1>0, <2>1
  <2>5. ~(j <= k - 1)
    BY <1>0, <2>1, <2>2, <2>4
  <2>6. ~(k <= j - 1)
    BY <1>0, <2>1, <2>3, <2>4
  <2>7. j = k
    BY <2>1, <2>5, <2>6
  <2> QED BY <2>1, <2>7
<1>7. ASSUME NEW w \in M!Workers
      PROVE  Tidy(worker[w]) /\ Holds(worker[w]) \cap Items(parent.tasks) = {}
  <2>1. Distinct(worker[w].tasks)
    <3>1. ASSUME NEW j \in DOMAIN worker[w].tasks, NEW k \in DOMAIN worker[w].tasks,
                 worker[w].tasks[j] = worker[w].tasks[k]
          PROVE  j = k
      <4>1. j \in 1..M!Share(w) /\ k \in 1..M!Share(w)
        BY <1>4
      <4> QED BY <1>6, <3>1, <4>1
    <3> QED BY <3>1 DEF Distinct
  <2>2. OncePlayed(worker[w].records) /\ PlayedIn(worker[w].records) = {}
    BY <1>3 DEF OncePlayed, PlayedIn
  <2>3. Seated(worker[w]) = {}
    BY <1>3 DEF Seated
  <2>4. Tidy(worker[w])
    BY <1>3, <2>1, <2>2, <2>3 DEF Tidy
  <2>5. ASSUME NEW g \in Items(worker[w].tasks), g \in Items(parent.tasks) PROVE FALSE
    <3>1. PICK k \in 1..M!Share(w) : g = worker[w].tasks[k]
      BY <1>4 DEF Items
    <3>2. PICK j \in DOMAIN parent.tasks : g = top + j
      BY <1>2, <2>5 DEF Items
    <3>3. (k - 1) * NumWorkers \in Nat /\ w \in Nat /\ (k - 1) * NumWorkers + w <= top
          /\ g = (k - 1) * NumWorkers + w
      BY <1>4, <3>1 DEF M!Workers
    <3>4. j \in Nat /\ j >= 1
      BY <1>0, <1>2
    <3> QED BY <3>2, <3>3, <3>4
  <2> QED BY <1>5, <2>4, <2>5
<1>8. ASSUME NEW v \in M!Workers, NEW w \in M!Workers, v # w
      PROVE  Holds(worker[v]) \cap Holds(worker[w]) = {}
  <2>1. ASSUME NEW g \in Items(worker[v].tasks), g \in Items(worker[w].tasks) PROVE FALSE
    <3>1. PICK j \in 1..M!Share(v) : g = worker[v].tasks[j]
      BY <1>4 DEF Items
    <3>2. PICK k \in 1..M!Share(w) : g = worker[w].tasks[k]
      BY <1>4, <2>1 DEF Items
    <3> QED BY <1>6, <1>8, <3>1, <3>2
  <2> QED BY <1>5, <2>1
<1>9. Distinct(parent.tasks)
  BY <1>0, <1>2 DEF Distinct
<1>10. ASSUME NEW g \in M!Games
       PROVE  g \in Items(parent.tasks) \/ \E w \in M!Workers : g \in Holds(worker[w])
  <2>1. g \in Nat /\ 1 <= g /\ g <= NumGames
    BY <1>0 DEF M!Games
  <2>2. CASE g > top
    <3>1. g - top \in 1..NumGames - top /\ top + (g - top) = g
      BY <1>0, <2>1, <2>2
    <3>2. parent.tasks[g - top] = g
      BY <1>2, <3>1
    <3> QED BY <1>2, <3>1, <3>2 DEF Items
  <2>3. CASE g <= top
    <3>1. PICK p \in Int : p = g - 1
      BY <2>1
    <3>2. PICK q \in Int, m \in 0..NumWorkers - 1 : p = NumWorkers * q + m
      <4>1. p \div NumWorkers \in Int /\ p % NumWorkers \in 0..NumWorkers - 1
            /\ p = NumWorkers * (p \div NumWorkers) + (p % NumWorkers)
        BY <1>0, Division
      <4> QED BY <4>1, Zenon
    <3>3. NumWorkers * q = q * NumWorkers /\ q * NumWorkers \in Int
      BY <1>0
    <3>4. q >= 0
      <4> SUFFICES ASSUME q <= -1 PROVE FALSE
        OBVIOUS
      <4>1. q * NumWorkers <= (-1) * NumWorkers
        BY <1>0, Times
      <4> QED BY <4>1, <1>0, <2>1, <3>1, <3>2, <3>3
    <3>5. PICK w \in M!Workers : w = m + 1
      BY <1>0, <3>2 DEF M!Workers
    <3>6. PICK k \in Nat \ {0} : k = q + 1 /\ k - 1 = q
      BY <3>4
    <3>7. (k - 1) * NumWorkers + w = g
      BY <1>0, <2>1, <3>1, <3>2, <3>3, <3>5, <3>6
    <3>8. k <= Lanes
      <4> SUFFICES ASSUME Lanes <= k - 1 PROVE FALSE
        BY <1>0
      <4>1. Lanes * NumWorkers <= (k - 1) * NumWorkers
        BY <1>0, Times
      <4> QED BY <4>1, <1>0, <1>1, <2>1, <2>3, <3>3, <3>5, <3>6, <3>7
    <3>9. k <= M!Share(w) /\ M!Share(w) \in Nat
      BY <2>1, <3>7, <3>8, ShareIs
    <3>10. k \in 1..M!Share(w)
      BY <3>9
    <3>11. worker[w].tasks[k] = g
      BY <1>4, <3>7, <3>10
    <3>12. g \in Items(worker[w].tasks)
      BY <1>4, <3>10, <3>11 DEF Items
    <3> QED BY <1>5, <3>12
  <2> QED BY <1>1, <2>1, <2>2, <2>3
<1> QED BY <1>7, <1>8, <1>9, <1>10 DEF Divided

\* As long as everyone holds the same, so do the tasks of everyone.
LEMMA DividedSame ==
  ASSUME Divided, parent'.tasks = parent.tasks,
         \A w \in M!Workers : Holds(worker'[w]) = Holds(worker[w]) /\ Tidy(worker'[w])
  PROVE  Divided'
<1>1. \A w \in M!Workers : Holds(worker[w])' = Holds(worker'[w]) /\
          (Tidy(worker[w])' <=> Tidy(worker'[w]))
  BY DEF Holds, Tidy, Distinct, OncePlayed, Items, PlayedIn, Seated
<1>2. /\ Distinct(parent.tasks)'
      /\ Items(parent.tasks)' = Items(parent.tasks)
  BY DEF Divided, Distinct, Items
<1> QED BY <1>1, <1>2 DEF Divided

LEMMA DividedKept ==
  ASSUME M!MatchAssumption, Typed, Divided, Typed', Effect
  PROVE  Divided'
<1>0. \A w \in M!Workers : worker[w] \in WorkerState /\ Tidy(worker[w])
  BY DEF Typed, Divided
<1>1. CASE parent'.tasks = parent.tasks /\ \A w \in M!Workers : SameWork(worker'[w], worker[w])
  <2>1. \A w \in M!Workers : Holds(worker'[w]) = Holds(worker[w]) /\ Tidy(worker'[w])
    BY <1>0, <1>1, SameHolds DEF SameWork
  <2> QED BY <1>1, <2>1, DividedSame
<1>2. CASE IngressEffect \/ TakeEffect \/ ReportEffect
  <2>1. worker' = worker /\ parent'.tasks = parent.tasks
    BY <1>2 DEF IngressEffect, TakeEffect, ReportEffect
  <2> QED BY <1>0, <2>1, DividedSame
<1>3. CASE AnswerEffect
  <2>1. \A w \in M!Workers : Holds(worker'[w]) = Holds(worker[w]) /\ Tidy(worker'[w])
    BY <1>0, <1>3, SameHolds DEF AnswerEffect
  <2> QED BY <1>3, <2>1, DividedSame DEF AnswerEffect
<1>4. ASSUME NEW w \in M!Workers, Others(w), parent'.tasks = parent.tasks,
             Holds(worker'[w]) = Holds(worker[w]), Tidy(worker'[w])
      PROVE  Divided'
  <2>1. \A v \in M!Workers : Holds(worker'[v]) = Holds(worker[v]) /\ Tidy(worker'[v])
    BY <1>0, <1>4 DEF Others
  <2> QED BY <1>4, <2>1, DividedSame
<1>5. ASSUME NEW w \in M!Workers, NEW l \in M!LaneIds, FailEffect(w, l) PROVE Divided'
  <2>1. M!IdleLane.game = M!Free
    BY DEF M!IdleLane
  <2>2. /\ worker'[w].records = Append(worker[w].records, <<worker[w].lane[l].game, "error">>)
        /\ \A k \in M!LaneIds : worker'[w].lane[k].game =
               IF k = l THEN M!Free ELSE worker[w].lane[k].game
        /\ worker[w].lane[l].game # M!Free /\ worker'[w].tasks = worker[w].tasks
    BY <1>5, <2>1 DEF FailEffect, M!Busy
  <2>2a. worker[w] \in WorkerState /\ Tidy(worker[w]) /\ "error" \in M!Outcomes
    BY <1>0 DEF M!Outcomes
  <2>2b. Holds(worker'[w]) = Holds(worker[w]) /\ Tidy(worker'[w])
    <3>1. Finished(worker[w], worker'[w], l, "error")
      BY <2>2 DEF Finished
    <3> QED BY <2>2a, <3>1, FinishHolds
  <2> QED BY <1>4, <1>5, <2>2b DEF FailEffect
<1>6. ASSUME NEW w \in M!Workers, NEW l \in M!LaneIds, AskEffect(w, l) PROVE Divided'
  <2>1. PICK r \in M!Roles : worker'[w].lane[l] = [worker[w].lane[l] EXCEPT !.role = r]
    BY <1>6 DEF AskEffect
  <2>2. worker[w].lane[l] \in LaneState
    BY <1>0 DEF WorkerState
  <2>3. worker'[w].lane[l].game = worker[w].lane[l].game
    BY <2>1, <2>2 DEF LaneState
  <2>4. \A k \in M!LaneIds : worker'[w].lane[k].game = worker[w].lane[k].game
    BY <1>6, <2>3 DEF AskEffect
  <2>5. Holds(worker'[w]) = Holds(worker[w]) /\ Tidy(worker'[w])
    BY <1>0, <1>6, <2>4, SameHolds, ZenonT(40) DEF AskEffect
  <2> QED BY <1>4, <1>6, <2>5 DEF AskEffect
<1>7. ASSUME NEW w \in M!Workers, NEW l \in M!LaneIds, PollEffect(w, l), OnEffect(w, l)
      PROVE  Divided'
  <2>1. \A k \in M!LaneIds : worker'[w].lane[k].game = worker[w].lane[k].game
    BY <1>7 DEF PollEffect, OnEffect
  <2>2. Holds(worker'[w]) = Holds(worker[w]) /\ Tidy(worker'[w])
    BY <1>0, <1>7, <2>1, SameHolds DEF PollEffect, OnEffect
  <2> QED BY <1>4, <1>7, <2>2 DEF PollEffect
<1>8. ASSUME NEW w \in M!Workers, NEW l \in M!LaneIds, PollEffect(w, l), OverEffect(w, l)
      PROVE  Divided'
  <2>1. M!IdleLane.game = M!Free
    BY DEF M!IdleLane
  <2>2. PICK o \in M!Outcomes : o = IF Foreign(worker[w], l) THEN "foreign" ELSE "ok"
    BY DEF M!Outcomes
  <2>3. /\ worker'[w].records = Append(worker[w].records, <<worker[w].lane[l].game, o>>)
        /\ \A k \in M!LaneIds : worker'[w].lane[k].game =
               IF k = l THEN M!Free ELSE worker[w].lane[k].game
        /\ worker[w].lane[l].game # M!Free /\ worker'[w].tasks = worker[w].tasks
    BY <1>8, <2>1, <2>2 DEF PollEffect, OverEffect
  <2>4. Holds(worker'[w]) = Holds(worker[w]) /\ Tidy(worker'[w])
    <3>1. worker[w] \in WorkerState /\ Tidy(worker[w])
      BY <1>0
    <3>2. Finished(worker[w], worker'[w], l, o)
      BY <2>3 DEF Finished
    <3> QED BY <3>1, <3>2, FinishHolds
  <2> QED BY <1>4, <1>8, <2>4 DEF PollEffect
<1>9. ASSUME NEW w \in M!Workers, StartLaneEffect(w) PROVE Divided'
  <2>1. PICK l \in M!LaneIds, g \in M!Games :
          /\ worker[w].lane[l].game = M!Free /\ worker'[w].records = worker[w].records
          /\ \A k \in M!LaneIds : worker'[w].lane[k] = IF k = l THEN Fresh(g) ELSE worker[w].lane[k]
          /\ Others(w)
          /\ \/ /\ worker[w].tasks # <<>> /\ g = Head(worker[w].tasks)
                /\ worker'[w].tasks = Tail(worker[w].tasks) /\ parent'.tasks = parent.tasks
             \/ /\ parent.tasks # <<>> /\ g = Head(parent.tasks)
                /\ worker'[w].tasks = worker[w].tasks /\ parent'.tasks = Tail(parent.tasks)
    BY <1>9, Zenon DEF StartLaneEffect
  <2>2. \A k \in M!LaneIds : worker'[w].lane[k].game = IF k = l THEN g ELSE worker[w].lane[k].game
    BY <2>1 DEF Fresh
  <2>3. CASE /\ worker[w].tasks # <<>> /\ g = Head(worker[w].tasks)
             /\ worker'[w].tasks = Tail(worker[w].tasks) /\ parent'.tasks = parent.tasks
    <3>1. Holds(worker'[w]) = Holds(worker[w]) \cup {g} /\ Tidy(worker'[w])
      <4>1. worker[w] \in WorkerState /\ Tidy(worker[w])
        BY <1>0
      <4> QED BY <2>1, <2>2, <2>3, <4>1, SeatHolds, SMTT(30)
    <3>2. worker[w].tasks \in Seq(M!Games) /\ Distinct(worker[w].tasks)
      BY <1>0 DEF WorkerState, Tidy
    <3>3. g \in Holds(worker[w])
      BY <2>3, <3>2, TailItems DEF Holds
    <3> QED BY <1>4, <2>1, <2>3, <3>1, <3>3
  <2>4. CASE /\ parent.tasks # <<>> /\ g = Head(parent.tasks)
             /\ worker'[w].tasks = worker[w].tasks /\ parent'.tasks = Tail(parent.tasks)
    <3>1. parent.tasks \in Seq(M!Games) /\ Distinct(parent.tasks)
      BY DEF Typed, ParentState, Divided
    <3>2. /\ g \in Items(parent.tasks) /\ Distinct(parent'.tasks)
          /\ Items(parent'.tasks) = Items(parent.tasks) \ {g}
      BY <2>4, <3>1, TailItems
    <3>3. \A v \in M!Workers : g \notin Holds(worker[v])
      BY <3>2 DEF Divided
    <3>4. Holds(worker'[w]) = Holds(worker[w]) \cup {g} /\ Tidy(worker'[w])
      BY <1>0, <2>1, <2>2, <2>4, <3>3, SeatHolds, SMTT(30)
    <3>5. \A v \in M!Workers : /\ Tidy(worker'[v])
                               /\ Holds(worker'[v]) = IF v = w THEN Holds(worker[w]) \cup {g}
                                                      ELSE Holds(worker[v])
      BY <1>0, <2>1, <3>4 DEF Others
    <3>6. \A v \in M!Workers : Holds(worker'[v]) \cap Items(parent'.tasks) = {}
      BY <3>2, <3>5 DEF Divided
    <3>7. \A u, v \in M!Workers : u # v => Holds(worker'[u]) \cap Holds(worker'[v]) = {}
      BY <3>3, <3>5 DEF Divided
    <3>8. \A x \in M!Games : x \in Items(parent'.tasks) \/ \E v \in M!Workers :
              x \in Holds(worker'[v])
      BY <3>2, <3>5 DEF Divided
    <3>9. \A v \in M!Workers : Holds(worker[v])' = Holds(worker'[v]) /\
              (Tidy(worker[v])' <=> Tidy(worker'[v]))
      BY DEF Holds, Tidy, Distinct, OncePlayed, Items, PlayedIn, Seated
    <3>10. Distinct(parent.tasks)' /\ Items(parent.tasks)' = Items(parent'.tasks)
      BY <3>2 DEF Distinct, Items
    <3> QED BY <3>5, <3>6, <3>7, <3>8, <3>9, <3>10 DEF Divided
  <2> QED BY <2>1, <2>3, <2>4
<1> QED
  BY <1>1, <1>2, <1>3, <1>5, <1>6, <1>7, <1>8, <1>9 DEF Effect, Silent, LeaveEffect

-----------------------------------------------------------------------------
(* A worker that met no error used every evaluation for its own position.  *)

Mine(m, w, l) == m.kind = "inference" /\ m.worker = w /\ m.lane = l
NoneOf(s, w, l) == \A i \in DOMAIN s : ~Mine(s[i], w, l)
OneOf(s, w, l) == \A i, j \in DOMAIN s : Mine(s[i], w, l) /\ Mine(s[j], w, l) => i = j
RoleIn(s, w, l, r) == \A i \in DOMAIN s : Mine(s[i], w, l) => s[i].role = r
RowsIn(b, w, l) == {i \in DOMAIN b.batch : b.batch[i].worker = w /\ b.batch[i].lane = l}

Clean(me) == \A i \in DOMAIN me.records : me.records[i][2] # "error"
Perfect(me) == \A i \in DOMAIN me.records : me.records[i][2] = "ok"

\* Nothing of the lane is under way.
Idle(me, b, w, l) ==
  /\ NoneOf(b.inbox, w, l) /\ \A r \in M!Roles : NoneOf(b.queue[r], w, l)
  /\ RowsIn(b, w, l) = {} /\ me.answers[l] = <<>>

\* One request of the lane is under way, for its position: it is in the
\* request queue, in the queue of its model, in the batch, or it is answered.
Waits(me, b, w, l) ==
  LET lane == me.lane[l] IN
  /\ lane.game # M!Free /\ me.input[l] = <<lane.game, lane.move>>
  /\ OneOf(b.inbox, w, l) /\ RoleIn(b.inbox, w, l, lane.role)
  /\ OneOf(b.queue[lane.role], w, l)
  /\ \A r \in M!Roles : r # lane.role => NoneOf(b.queue[r], w, l)
  /\ \A i \in RowsIn(b, w, l) : /\ b.batch[i].role = lane.role
                                /\ b.batch[i].position = <<lane.game, lane.move>>
  /\ \A i, j \in RowsIn(b, w, l) : i = j
  /\ Len(me.answers[l]) <= 1
  /\ me.answers[l] # <<>> => me.output[l] = <<lane.role, lane.game, lane.move>>
  /\ \/ NoneOf(b.inbox, w, l)
     \/ NoneOf(b.queue[lane.role], w, l) /\ RowsIn(b, w, l) = {} /\ me.answers[l] = <<>>
  /\ NoneOf(b.queue[lane.role], w, l) \/ (RowsIn(b, w, l) = {} /\ me.answers[l] = <<>>)
  /\ RowsIn(b, w, l) = {} \/ me.answers[l] = <<>>

LaneIsOwn(me, b, w, l) ==
  /\ me.lane[l].foreign = FALSE
  /\ me.lane[l].role = M!None => Idle(me, b, w, l)
  /\ me.lane[l].role # M!None => Waits(me, b, w, l)

WorkerIsOwn(me, b, w) ==
  Clean(me) => Perfect(me) /\ \A l \in M!LaneIds : LaneIsOwn(me, b, w, l)

CleanIsOwn == \A w \in M!Workers : WorkerIsOwn(worker[w], broker, w)

\* A queue without what it had of the lane, or with nothing else of it.
NoMore(t, s, w, l) ==
  /\ NoneOf(s, w, l) => NoneOf(t, w, l)
  /\ OneOf(s, w, l) => OneOf(t, w, l)
  /\ \A r \in M!Roles : RoleIn(s, w, l, r) => RoleIn(t, w, l, r)

LEMMA NoMoreSame == \A s, w, l : NoMore(s, s, w, l)
  BY DEF NoMore

LEMMA NoMoreAppend ==
  ASSUME NEW S, NEW s \in Seq(S), NEW m \in S, NEW w, NEW l, ~Mine(m, w, l)
  PROVE  NoMore(Append(s, m), s, w, l)
<1>1. PICK t : t = Append(s, m)
  OBVIOUS
<1>2. /\ Len(s) \in Nat /\ DOMAIN s = 1..Len(s) /\ DOMAIN t = 1..Len(s) + 1
      /\ \A i \in 1..Len(s) : t[i] = s[i]
      /\ t[Len(s) + 1] = m
  BY <1>1
<1>3. \A i \in DOMAIN t : Mine(t[i], w, l) => i \in DOMAIN s /\ t[i] = s[i]
  BY <1>2
<1>4. NoMore(t, s, w, l)
  BY <1>3 DEF NoMore, NoneOf, OneOf, RoleIn
<1> QED BY <1>1, <1>4

\* What is left of a queue after its first entries.
LEMMA NoMoreRest ==
  ASSUME NEW S, NEW s \in Seq(S), NEW n \in Nat, n <= Len(s), NEW w, NEW l
  PROVE  /\ NoMore(SubSeq(s, n + 1, Len(s)), s, w, l)
         /\ OneOf(s, w, l) /\ (\E i \in 1..n : Mine(s[i], w, l)) =>
              NoneOf(SubSeq(s, n + 1, Len(s)), w, l)
<1>1. PICK t : t = SubSeq(s, n + 1, Len(s))
  OBVIOUS
<1>2. Len(s) \in Nat /\ DOMAIN s = 1..Len(s) /\ \A i \in n + 1..Len(s) : s[i] \in S
  OBVIOUS
<1>3. /\ DOMAIN t = 1..Len(s) - n
      /\ \A i \in 1..Len(s) - n : t[i] = s[n + i]
  <2>1. /\ t \in Seq(S) /\ Len(t) = IF n + 1 <= Len(s) THEN Len(s) - (n + 1) + 1 ELSE 0
        /\ \A i \in 1..Len(s) - (n + 1) + 1 : t[i] = s[(n + 1) + i - 1]
    BY <1>1, <1>2, SubSeqProperties
  <2>2. Len(t) = Len(s) - n
    <3>1. CASE n = Len(s)
      BY <1>2, <2>1, <3>1
    <3>2. CASE n + 1 <= Len(s)
      BY <1>2, <2>1, <3>2
    <3>3. n = Len(s) \/ n + 1 <= Len(s)
      <4>1. PICK k \in Nat : k = Len(s)
        BY <1>2
      <4>2. n <= k
        BY <4>1
      <4>3. n = k \/ n + 1 <= k
        BY <4>2
      <4> QED BY <4>1, <4>3
    <3> QED BY <3>1, <3>2, <3>3
  <2>2a. DOMAIN t = 1..Len(t)
    BY <2>1
  <2>3. \A i \in 1..Len(s) - n : (n + 1) + i - 1 = n + i /\ i \in 1..Len(s) - (n + 1) + 1
    BY <1>2
  <2> QED BY <2>1, <2>2, <2>2a, <2>3
<1>4. \A i \in DOMAIN t : n + i \in DOMAIN s /\ t[i] = s[n + i] /\ i \in Nat /\ n + i \notin 1..n
  BY <1>2, <1>3
<1>5. \A i \in 1..n : i \in DOMAIN s
  BY <1>2
<1>6. NoMore(t, s, w, l)
  <2>1. NoneOf(s, w, l) => NoneOf(t, w, l)
    BY <1>4 DEF NoneOf
  <2>2. OneOf(s, w, l) => OneOf(t, w, l)
    <3>1. ASSUME OneOf(s, w, l), NEW i \in DOMAIN t, NEW j \in DOMAIN t,
                 Mine(t[i], w, l), Mine(t[j], w, l)
          PROVE  i = j
      <4>1. n + i = n + j
        BY <1>4, <3>1 DEF OneOf
      <4> QED BY <1>4, <4>1
    <3> QED BY <3>1 DEF OneOf
  <2>3. \A r \in M!Roles : RoleIn(s, w, l, r) => RoleIn(t, w, l, r)
    BY <1>4 DEF RoleIn
  <2> QED BY <2>1, <2>2, <2>3 DEF NoMore
<1>7. ASSUME OneOf(s, w, l), NEW i \in 1..n, Mine(s[i], w, l) PROVE NoneOf(t, w, l)
  <2>1. ASSUME NEW j \in DOMAIN t, Mine(t[j], w, l) PROVE FALSE
    <3>1. n + j = i
      BY <1>4, <1>5, <1>7, <2>1 DEF OneOf
    <3> QED BY <1>4, <2>1, <3>1
  <2> QED BY <2>1 DEF NoneOf
<1> QED BY <1>1, <1>6, <1>7

LEMMA NoMoreTail ==
  ASSUME NEW S, NEW s \in Seq(S), s # <<>>, NEW w, NEW l
  PROVE  /\ NoMore(Tail(s), s, w, l)
         /\ OneOf(s, w, l) /\ Mine(Head(s), w, l) => NoneOf(Tail(s), w, l)
         /\ Mine(Head(s), w, l) => ~NoneOf(s, w, l)
<1>1. Tail(s) = SubSeq(s, 1 + 1, Len(s)) /\ 1 <= Len(s) /\ Head(s) = s[1]
  BY TailIsSubSeq
<1>2. /\ NoMore(SubSeq(s, 1 + 1, Len(s)), s, w, l)
      /\ OneOf(s, w, l) /\ (\E i \in 1..1 : Mine(s[i], w, l)) =>
              NoneOf(SubSeq(s, 1 + 1, Len(s)), w, l)
  BY <1>1, NoMoreRest
<1>3. 1 \in 1..1 /\ 1 \in DOMAIN s
  BY <1>1
<1> QED BY <1>1, <1>2, <1>3 DEF NoneOf

\* The lane and what is under way for it are as they were.
SameLane(you, me, l) ==
  /\ you.lane[l] = me.lane[l] /\ you.input[l] = me.input[l]
  /\ you.answers[l] = me.answers[l] /\ you.output[l] = me.output[l]
Traffic(c, b, w, l) ==
  /\ NoMore(c.inbox, b.inbox, w, l)
  /\ \A r \in M!Roles : NoMore(c.queue[r], b.queue[r], w, l)
  /\ RowsIn(c, w, l) = {} \/ c.batch = b.batch

LEMMA OwnSame ==
  ASSUME NEW me \in WorkerState, NEW you, NEW b, NEW c, NEW w, NEW l \in M!LaneIds,
         SameLane(you, me, l), Traffic(c, b, w, l), LaneIsOwn(me, b, w, l)
  PROVE  LaneIsOwn(you, c, w, l)
<1>0. me.lane[l].role \in M!Roles \cup {M!None}
  BY DEF WorkerState, LaneState
<1>1. you.lane[l].foreign = FALSE
  BY DEF SameLane, LaneIsOwn
<1>2. c.batch = b.batch => RowsIn(c, w, l) = RowsIn(b, w, l)
  BY DEF RowsIn
<1>3. CASE me.lane[l].role = M!None
  <2>1. Idle(me, b, w, l)
    BY <1>3 DEF LaneIsOwn
  <2>2. Idle(you, c, w, l)
    BY <1>2, <2>1 DEF Idle, SameLane, Traffic, NoMore
  <2> QED BY <1>1, <1>3, <2>2 DEF LaneIsOwn, SameLane
<1>4. CASE me.lane[l].role # M!None
  <2>1. Waits(me, b, w, l)
    BY <1>4 DEF LaneIsOwn
  <2>2. PICK r \in M!Roles : r = me.lane[l].role
    BY <1>0, <1>4
  <2>3. /\ you.lane[l] = me.lane[l] /\ you.input[l] = me.input[l]
        /\ you.answers[l] = me.answers[l] /\ you.output[l] = me.output[l]
    BY DEF SameLane
  <2>4. /\ OneOf(c.inbox, w, l) /\ RoleIn(c.inbox, w, l, r) /\ OneOf(c.queue[r], w, l)
        /\ NoneOf(b.inbox, w, l) => NoneOf(c.inbox, w, l)
        /\ \A o \in M!Roles : NoneOf(b.queue[o], w, l) => NoneOf(c.queue[o], w, l)
    BY <2>1, <2>2 DEF Waits, Traffic, NoMore
  <2>5. RowsIn(c, w, l) = {} \/ (c.batch = b.batch /\ RowsIn(c, w, l) = RowsIn(b, w, l))
    BY <1>2 DEF Traffic
  <2>6. Waits(you, c, w, l)
    <3>1. CASE RowsIn(c, w, l) = {}
      BY <2>1, <2>2, <2>3, <2>4, <3>1, Zenon DEF Waits
    <3>2. CASE c.batch = b.batch /\ RowsIn(c, w, l) = RowsIn(b, w, l)
      BY <2>1, <2>2, <2>3, <2>4, <3>2, Zenon DEF Waits
    <3> QED BY <2>5, <3>1, <3>2
  <2> QED BY <1>1, <1>4, <2>6 DEF LaneIsOwn, SameLane
<1> QED BY <1>3, <1>4

\* A search asks: the only request of its lane.
Asks(me, you, b, c, w, l, r, m) ==
  /\ m.worker = w /\ m.lane = l /\ m.role = r
  /\ me.lane[l].game # M!Free /\ me.lane[l].role = M!None
  /\ you.lane[l].game = me.lane[l].game /\ you.lane[l].move = me.lane[l].move
  /\ you.lane[l].role = r /\ you.lane[l].foreign = me.lane[l].foreign
  /\ you.input[l] = <<me.lane[l].game, me.lane[l].move>> /\ you.answers = me.answers
  /\ c.inbox = Append(b.inbox, m) /\ c.queue = b.queue /\ c.batch = b.batch

LEMMA AskOwns ==
  ASSUME NEW me \in WorkerState, NEW you, NEW b \in BrokerState, NEW c, NEW w, NEW l \in M!LaneIds,
         NEW r \in M!Roles, NEW m \in Requests, Asks(me, you, b, c, w, l, r, m),
         LaneIsOwn(me, b, w, l)
  PROVE  LaneIsOwn(you, c, w, l)
<1>0. /\ m.worker = w /\ m.lane = l /\ m.role = r
      /\ me.lane[l].game # M!Free /\ me.lane[l].role = M!None
      /\ you.lane[l].game = me.lane[l].game /\ you.lane[l].move = me.lane[l].move
      /\ you.lane[l].role = r /\ you.lane[l].foreign = me.lane[l].foreign
      /\ you.input[l] = <<me.lane[l].game, me.lane[l].move>> /\ you.answers = me.answers
      /\ c.inbox = Append(b.inbox, m) /\ c.queue = b.queue /\ c.batch = b.batch
  BY DEF Asks
<1>1. Idle(me, b, w, l) /\ me.lane[l].foreign = FALSE
  BY <1>0 DEF LaneIsOwn
<1>3. /\ you.lane[l].game = me.lane[l].game /\ you.lane[l].move = me.lane[l].move
      /\ you.lane[l].role = r
  BY <1>0
<1>4. you.lane[l].foreign = FALSE
  BY <1>0, <1>1
<1>5. m.kind = "inference" /\ Mine(m, w, l)
  BY <1>0 DEF Requests, Mine
<1>6. /\ Len(b.inbox) \in Nat /\ DOMAIN b.inbox = 1..Len(b.inbox)
      /\ DOMAIN c.inbox = 1..Len(b.inbox) + 1
      /\ \A i \in 1..Len(b.inbox) : c.inbox[i] = b.inbox[i]
      /\ c.inbox[Len(b.inbox) + 1] = m
  <2>1. PICK s \in Seq(Messages) : s = b.inbox
    BY DEF BrokerState
  <2>2. m \in Messages /\ c.inbox = Append(s, m)
    BY <1>0, <2>1 DEF Messages
  <2> QED BY <2>1, <2>2
<1>7. \A i \in DOMAIN c.inbox : Mine(c.inbox[i], w, l) => i = Len(b.inbox) + 1
  BY <1>1, <1>6 DEF Idle, NoneOf
<1>8. OneOf(c.inbox, w, l) /\ RoleIn(c.inbox, w, l, r)
  BY <1>0, <1>6, <1>7 DEF OneOf, RoleIn
<1>9. /\ \A o \in M!Roles : NoneOf(c.queue[o], w, l)
      /\ RowsIn(c, w, l) = {} /\ you.answers[l] = <<>>
  BY <1>0, <1>1 DEF Idle, RowsIn
<1>10. OneOf(c.queue[r], w, l)
  BY <1>9 DEF NoneOf, OneOf
<1>11. Len(you.answers[l]) <= 1
  BY <1>9
<1>12. Waits(you, c, w, l)
  BY <1>0, <1>3, <1>8, <1>9, <1>10, <1>11 DEF Waits
<1> QED BY <1>0, <1>3, <1>4, <1>12 DEF LaneIsOwn, M!None, M!Roles

\* The ingress passes on the oldest message, a request to the queue of its model.
Passed(b, c, m) ==
  /\ b.inbox # <<>> /\ m = Head(b.inbox) /\ c.inbox = Tail(b.inbox) /\ c.batch = b.batch
  /\ \/ /\ m \in Requests /\ c.queue[m.role] = Append(b.queue[m.role], m)
        /\ \A r \in M!Roles \ {m.role} : c.queue[r] = b.queue[r]
     \/ m \in Control /\ c.queue = b.queue

LEMMA QueueOwns ==
  ASSUME NEW me \in WorkerState, NEW b \in BrokerState, NEW c, NEW w, NEW l \in M!LaneIds,
         NEW m \in Requests, Mine(m, w, l), Passed(b, c, m), LaneIsOwn(me, b, w, l)
  PROVE  LaneIsOwn(me, c, w, l)
<1>1. b.inbox \in Seq(Messages) /\ b.queue \in [M!Roles -> Seq(Requests)] /\ m.role \in M!Roles
  BY ZenonT(40) DEF BrokerState, Requests
<1>0. PICK s \in Seq(Messages) : s = b.inbox /\ s # <<>> /\ c.inbox = Tail(s) /\ m = Head(s)
  BY <1>1, ZenonT(40) DEF Passed
<1>1a. m \notin Control
  BY DEF Requests, Control, Reports, Complaints
<1>1b. /\ c.batch = b.batch /\ c.queue[m.role] = Append(b.queue[m.role], m)
       /\ \A r \in M!Roles : r # m.role => c.queue[r] = b.queue[r]
  BY <1>1a DEF Passed
<1>2. ~NoneOf(b.inbox, w, l) /\ (OneOf(b.inbox, w, l) => NoneOf(c.inbox, w, l))
  <2>1. m = Head(s)
    BY <1>0
  <2>2. ~NoneOf(s, w, l) /\ (OneOf(s, w, l) => NoneOf(Tail(s), w, l))
    BY <1>0, <2>1, NoMoreTail
  <2> QED BY <1>0, <2>2
<1>3. me.lane[l].role # M!None /\ Waits(me, b, w, l) /\ me.lane[l].foreign = FALSE
  BY <1>2 DEF LaneIsOwn, Idle
<1>4. NoneOf(c.inbox, w, l) /\ OneOf(c.inbox, w, l) /\ \A r : RoleIn(c.inbox, w, l, r)
  BY <1>2, <1>3 DEF Waits, NoneOf, OneOf, RoleIn
<1>5. m.role = me.lane[l].role
  <2>1. 1 \in DOMAIN s /\ s[1] = m
    BY <1>0
  <2> QED BY <1>0, <1>3, <2>1 DEF Waits, RoleIn
<1>6. /\ NoneOf(b.queue[m.role], w, l) /\ RowsIn(b, w, l) = {} /\ me.answers[l] = <<>>
      /\ \A r \in M!Roles : r # m.role => NoneOf(c.queue[r], w, l)
  BY <1>1b, <1>2, <1>3, <1>5 DEF Waits
<1>7. RowsIn(c, w, l) = {}
  BY <1>1b, <1>6 DEF RowsIn
<1>8. OneOf(c.queue[m.role], w, l)
  <2>1. PICK q \in Seq(Requests) : q = b.queue[m.role]
    BY <1>1
  <2>2. PICK t : t = Append(q, m)
    OBVIOUS
  <2>3. /\ Len(q) \in Nat /\ DOMAIN q = 1..Len(q) /\ DOMAIN t = 1..Len(q) + 1
        /\ \A i \in 1..Len(q) : t[i] = q[i]
    BY <2>2
  <2>3a. NoneOf(q, w, l)
    BY <1>6, <2>1
  <2>4. ASSUME NEW i \in DOMAIN t, Mine(t[i], w, l) PROVE i = Len(q) + 1
    <3>1. i \in 1..Len(q) \/ i = Len(q) + 1
      <4>1. PICK n \in Nat : n = Len(q) /\ i \in 1..n + 1
        BY <2>3
      <4>2. i \in 1..n \/ i = n + 1
        BY <4>1
      <4> QED BY <4>1, <4>2
    <3>2. i \notin 1..Len(q)
      BY <2>3, <2>3a, <2>4 DEF NoneOf
    <3> QED BY <3>1, <3>2
  <2> QED BY <1>1b, <2>1, <2>2, <2>4 DEF OneOf
<1>9. Waits(me, c, w, l)
  BY <1>3, <1>4, <1>5, <1>6, <1>7, <1>8 DEF Waits
<1> QED BY <1>3, <1>9 DEF LaneIsOwn

\* A row copies what its lane asks.
Taken(b, c, r, n, ws) ==
  /\ n <= Len(b.queue[r]) /\ c.inbox = b.inbox /\ DOMAIN c.batch = 1..n
  /\ c.queue[r] = SubSeq(b.queue[r], n + 1, Len(b.queue[r]))
  /\ \A o \in M!Roles \ {r} : c.queue[o] = b.queue[o]
  /\ \A i \in 1..n : /\ c.batch[i].worker = b.queue[r][i].worker
                     /\ c.batch[i].lane = b.queue[r][i].lane
                     /\ c.batch[i].role = r
                     /\ c.batch[i].position =
                          ws[b.queue[r][i].worker].input[b.queue[r][i].lane]

LEMMA RowOwns ==
  ASSUME NEW ws, NEW w, ws[w] \in WorkerState, NEW b \in BrokerState, NEW c, NEW l \in M!LaneIds,
         NEW r \in M!Roles, NEW n \in Nat \ {0}, Taken(b, c, r, n, ws),
         RowsIn(c, w, l) # {}, LaneIsOwn(ws[w], b, w, l)
  PROVE  LaneIsOwn(ws[w], c, w, l)
<1>0. PICK me \in WorkerState : me = ws[w]
  OBVIOUS
<1>1. PICK s \in Seq(Requests) : s = b.queue[r]
  BY DEF BrokerState
<1>1a. /\ n <= Len(s) /\ c.inbox = b.inbox
       /\ c.queue[r] = SubSeq(s, n + 1, Len(s))
       /\ \A o \in M!Roles : o # r => c.queue[o] = b.queue[o]
  BY <1>1 DEF Taken
<1>1b. \A i \in 1..n : /\ c.batch[i].worker = s[i].worker /\ c.batch[i].lane = s[i].lane
                       /\ c.batch[i].role = r
                       /\ c.batch[i].position = ws[s[i].worker].input[s[i].lane]
  BY <1>1 DEF Taken
<1>1c. DOMAIN c.batch = 1..n
  BY DEF Taken
<1>2. Len(s) \in Nat /\ DOMAIN s = 1..Len(s) /\ n <= Len(s)
  BY <1>1, <1>1a
<1>3. \A i \in 1..n : i \in DOMAIN s /\ s[i].kind = "inference"
  <2>1. \A i \in DOMAIN s : s[i] \in Requests
    BY <1>2
  <2>2. \A m \in Requests : m.kind = "inference"
    BY DEF Requests
  <2>3. \A i \in 1..n : i \in DOMAIN s
    BY <1>2
  <2> QED BY <2>1, <2>2, <2>3
<1>4. \A i \in RowsIn(c, w, l) : i \in 1..n /\ i \in DOMAIN s /\ Mine(s[i], w, l)
  BY <1>1b, <1>1c, <1>3 DEF RowsIn, Mine
<1>5. PICK i \in 1..n : i \in DOMAIN s /\ Mine(s[i], w, l)
  BY <1>4
<1>6. ~NoneOf(s, w, l)
  BY <1>5 DEF NoneOf
<1>7. Waits(me, b, w, l) /\ me.lane[l].role = r /\ me.lane[l].foreign = FALSE
  BY <1>0, <1>1, <1>6 DEF LaneIsOwn, Idle, Waits
<1>8. /\ NoneOf(b.inbox, w, l) /\ me.answers[l] = <<>> /\ OneOf(s, w, l)
      /\ \A o \in M!Roles : o # r => NoneOf(b.queue[o], w, l)
  BY <1>1, <1>6, <1>7 DEF Waits
<1>9. NoneOf(c.queue[r], w, l)
  BY <1>1a, <1>2, <1>5, <1>8, NoMoreRest
<1>10. OneOf(c.queue[r], w, l)
  BY <1>9 DEF NoneOf, OneOf
<1>11. \A j, k \in RowsIn(c, w, l) : j = k
  BY <1>4, <1>8 DEF OneOf
<1>12. \A j \in RowsIn(c, w, l) : c.batch[j].role = r /\ c.batch[j].position = me.input[l]
  <2>1. ASSUME NEW j \in RowsIn(c, w, l)
        PROVE  c.batch[j].role = r /\ c.batch[j].position = me.input[l]
    <3>1. j \in 1..n /\ c.batch[j].worker = w /\ c.batch[j].lane = l
      BY <1>4, <2>1 DEF RowsIn
    <3> QED BY <1>0, <1>1b, <3>1
  <2> QED BY <2>1
<1>13. me.input[l] = <<me.lane[l].game, me.lane[l].move>>
  BY <1>7 DEF Waits
<1>14. /\ c.inbox = b.inbox /\ NoneOf(c.inbox, w, l)
       /\ \A o \in M!Roles : o # r => NoneOf(c.queue[o], w, l)
  BY <1>1a, <1>8
<1>15. Waits(me, c, w, l)
  BY <1>7, <1>8, <1>9, <1>10, <1>11, <1>12, <1>13, <1>14 DEF Waits
<1>16. me.lane[l].role # M!None
  BY <1>7 DEF M!Roles, M!None
<1> QED BY <1>0, <1>7, <1>15, <1>16 DEF LaneIsOwn

\* The answer of a row is in the slot of its lane.
LEMMA AnswerOwns ==
  ASSUME M!MatchAssumption, NEW me \in WorkerState, NEW you, NEW b, NEW c, NEW w,
         NEW l \in M!LaneIds,
         NEW i \in RowsIn(b, w, l), NEW a \in Replies,
         you.lane = me.lane, you.input = me.input,
         you.answers[l] = Append(me.answers[l], a),
         you.output[l] = <<b.batch[i].role, b.batch[i].position[1], b.batch[i].position[2]>>,
         c.inbox = b.inbox, c.queue = b.queue, c.batch = <<>>,
         LaneIsOwn(me, b, w, l)
  PROVE  LaneIsOwn(you, c, w, l)
<1>1. Waits(me, b, w, l) /\ me.lane[l].role # M!None /\ me.lane[l].foreign = FALSE
  BY DEF LaneIsOwn, Idle
<1>2. PICK r : r = me.lane[l].role
  OBVIOUS
<1>3. /\ b.batch[i].role = r /\ b.batch[i].position = <<me.lane[l].game, me.lane[l].move>>
      /\ me.answers[l] = <<>> /\ NoneOf(b.inbox, w, l) /\ NoneOf(b.queue[r], w, l)
  BY <1>1, <1>2 DEF Waits
<1>4. you.output[l] = <<r, me.lane[l].game, me.lane[l].move>>
  BY <1>3
<1>5. you.answers[l] # <<>> /\ Len(you.answers[l]) <= 1
  BY <1>3
<1>6. RowsIn(c, w, l) = {}
  BY DEF RowsIn
<1>7. Waits(you, c, w, l)
  BY <1>1, <1>2, <1>3, <1>4, <1>5, <1>6 DEF Waits
<1> QED BY <1>1, <1>7 DEF LaneIsOwn

\* The evaluation that is consumed is the own one, and nothing is left.
LEMMA PollOwns ==
  ASSUME NEW me \in WorkerState, NEW you, NEW b, NEW w, NEW l \in M!LaneIds,
         me.lane[l].role # M!None, me.answers[l] # <<>>,
         you.answers[l] = Tail(me.answers[l]),
         you.lane[l].role = M!None, LaneIsOwn(me, b, w, l)
  PROVE  ~Foreign(me, l) /\ (you.lane[l].foreign = FALSE => LaneIsOwn(you, b, w, l))
<1>1. Waits(me, b, w, l) /\ me.lane[l].foreign = FALSE
  BY DEF LaneIsOwn
<1>2. PICK r \in M!Roles : r = me.lane[l].role
  BY DEF WorkerState, LaneState
<1>3. /\ me.output[l] = <<r, me.lane[l].game, me.lane[l].move>> /\ Len(me.answers[l]) <= 1
      /\ NoneOf(b.inbox, w, l) /\ NoneOf(b.queue[r], w, l) /\ RowsIn(b, w, l) = {}
      /\ \A o \in M!Roles : o # r => NoneOf(b.queue[o], w, l)
  BY <1>1, <1>2 DEF Waits
<1>4. ~Foreign(me, l)
  BY <1>1, <1>2, <1>3 DEF Foreign
<1>5. you.answers[l] = <<>>
  <2>1. PICK s \in Seq(Replies) : s = me.answers[l]
    BY DEF WorkerState
  <2>2. s # <<>> /\ Len(s) <= 1
    BY <1>3, <2>1
  <2>3. Tail(s) = <<>>
    <3>1. Len(s) \in Nat /\ Len(s) # 0
      BY <2>2, EmptySeq
    <3>2. Len(s) = 1
      <4>1. PICK n \in Nat : n = Len(s) /\ n # 0 /\ n <= 1
        BY <2>2, <3>1
      <4>2. n = 1
        BY <4>1
      <4> QED BY <4>1, <4>2
    <3>3. Tail(s) \in Seq(Replies) /\ Len(Tail(s)) = 0
      BY <2>2, <3>2, HeadTailProperties
    <3> QED BY <3>3, EmptySeq
  <2> QED BY <2>1, <2>3
<1>6. Idle(you, b, w, l)
  BY <1>3, <1>5 DEF Idle
<1> QED BY <1>4, <1>6 DEF LaneIsOwn


LEMMA OwnBegins == ASSUME M!MatchInit PROVE CleanIsOwn
<1>1. /\ broker.inbox = <<>> /\ broker.batch = <<>> /\ \A r \in M!Roles : broker.queue[r] = <<>>
  BY DEF M!MatchInit
<1>2. ASSUME NEW w \in M!Workers, NEW l \in M!LaneIds PROVE LaneIsOwn(worker[w], broker, w, l)
  <2>1. /\ worker[w].lane[l] = M!IdleLane /\ worker[w].answers[l] = <<>>
    BY DEF M!MatchInit
  <2>2. M!IdleLane.role = M!None /\ M!IdleLane.foreign = FALSE
    BY DEF M!IdleLane
  <2>3. Idle(worker[w], broker, w, l)
    BY <1>1, <2>1 DEF Idle, NoneOf, RowsIn
  <2> QED BY <2>1, <2>2, <2>3 DEF LaneIsOwn
<1>3. ASSUME NEW w \in M!Workers PROVE Perfect(worker[w])
  BY DEF M!MatchInit, Perfect
<1> QED BY <1>2, <1>3 DEF CleanIsOwn, WorkerIsOwn

LEMMA WorkerKept ==
  ASSUME NEW me, NEW you, NEW b, NEW c, NEW w, you.records = me.records,
         \A l \in M!LaneIds : LaneIsOwn(me, b, w, l) => LaneIsOwn(you, c, w, l),
         WorkerIsOwn(me, b, w)
  PROVE  WorkerIsOwn(you, c, w)
  BY DEF WorkerIsOwn, Clean, Perfect

LEMMA RecordedClean ==
  ASSUME NEW me \in WorkerState, NEW you, NEW g, NEW o,
         you.records = Append(me.records, <<g, o>>)
  PROVE  /\ Clean(you) => o # "error" /\ Clean(me)
         /\ Perfect(me) /\ o = "ok" => Perfect(you)
<1>1. PICK s \in Seq(M!Games \X M!Outcomes) : s = me.records
  BY DEF WorkerState
<1>2. PICK t : t = Append(s, <<g, o>>)
  OBVIOUS
<1>3. /\ Len(s) \in Nat /\ DOMAIN s = 1..Len(s) /\ DOMAIN t = 1..Len(s) + 1
      /\ \A i \in 1..Len(s) : t[i] = s[i] /\ i \in 1..Len(s) + 1
      /\ t[Len(s) + 1] = <<g, o>> /\ Len(s) + 1 \in 1..Len(s) + 1
  BY <1>2
<1>4. t[Len(s) + 1][2] = o
  BY <1>3
<1>5. \A i \in DOMAIN t : i \in DOMAIN s \/ i = Len(s) + 1
  BY <1>3
<1>6. you.records = t
  BY <1>1, <1>2
<1>7. Clean(you) => o # "error" /\ Clean(me)
  BY <1>1, <1>3, <1>4, <1>6 DEF Clean
<1>8. Perfect(me) /\ o = "ok" => Perfect(you)
  BY <1>1, <1>3, <1>4, <1>5, <1>6 DEF Perfect
<1> QED BY <1>7, <1>8

\* A worker whose lanes are as they were.
LEMMA WorkerSame ==
  ASSUME NEW me \in WorkerState, NEW you, NEW b, NEW c, NEW w, you.records = me.records,
         \A l \in M!LaneIds : SameLane(you, me, l) /\ Traffic(c, b, w, l),
         WorkerIsOwn(me, b, w)
  PROVE  WorkerIsOwn(you, c, w)
  BY WorkerKept, OwnSame

\* A game ends.
LEMMA OverOwns ==
  ASSUME NEW me \in WorkerState, NEW you, NEW b, NEW w, NEW l \in M!LaneIds, NEW o,
         you.records = Append(me.records, <<me.lane[l].game, o>>),
         o = "error" \/ (Clean(me) /\ WorkerIsOwn(me, b, w) =>
                          o = "ok" /\ \A k \in M!LaneIds : LaneIsOwn(you, b, w, k)),
         WorkerIsOwn(me, b, w)
  PROVE  WorkerIsOwn(you, b, w)
<1>1. /\ Clean(you) => o # "error" /\ Clean(me)
      /\ Perfect(me) /\ o = "ok" => Perfect(you)
  BY RecordedClean
<1> QED BY <1>1 DEF WorkerIsOwn

LEMMA TrafficSame == \A b, w, l : Traffic(b, b, w, l)
  BY NoMoreSame DEF Traffic

LEMMA OwnPrime ==
  ASSUME \A w \in M!Workers : WorkerIsOwn(worker'[w], broker', w)
  PROVE  CleanIsOwn'
  BY DEF CleanIsOwn, WorkerIsOwn, Clean, Perfect, LaneIsOwn, Idle, Waits, NoneOf, OneOf,
         RoleIn, RowsIn, Mine

LEMMA OwnKept ==
  ASSUME M!MatchAssumption, Typed, CleanIsOwn, Effect
  PROVE  CleanIsOwn'
<1>0. /\ \A w \in M!Workers : worker[w] \in WorkerState /\ WorkerIsOwn(worker[w], broker, w)
      /\ broker \in BrokerState /\ broker.inbox \in Seq(Messages)
      /\ \A r \in M!Roles : broker.queue[r] \in Seq(Requests)
  BY DEF Typed, CleanIsOwn, BrokerState
\* All that is sent is a report or a complaint.
<1>1. ASSUME \A w \in M!Workers : SameWork(worker'[w], worker[w]),
             broker'.queue = broker.queue, broker'.batch \in {broker.batch, <<>>},
             \/ broker'.inbox = broker.inbox
             \/ \E m \in Control : broker'.inbox = Append(broker.inbox, m)
      PROVE  CleanIsOwn'
  <2>1. ASSUME NEW w \in M!Workers, NEW l \in M!LaneIds PROVE Traffic(broker', broker, w, l)
    <3>1. NoMore(broker'.inbox, broker.inbox, w, l)
      <4>1. CASE broker'.inbox = broker.inbox
        BY <4>1, NoMoreSame
      <4>2. ASSUME NEW m \in Control, broker'.inbox = Append(broker.inbox, m)
            PROVE  NoMore(broker'.inbox, broker.inbox, w, l)
        <5>1. ~Mine(m, w, l) /\ m \in Messages
          BY DEF Mine, Control, Reports, Complaints, Messages
        <5> QED BY <1>0, <4>2, <5>1, NoMoreAppend
      <4> QED BY <1>1, <4>1, <4>2
    <3>2. \A r \in M!Roles : NoMore(broker'.queue[r], broker.queue[r], w, l)
      BY <1>1, NoMoreSame
    <3>3. RowsIn(broker', w, l) = {} \/ broker'.batch = broker.batch
      BY <1>1 DEF RowsIn
    <3> QED BY <3>1, <3>2, <3>3 DEF Traffic
  <2>2. ASSUME NEW w \in M!Workers PROVE WorkerIsOwn(worker'[w], broker', w)
    <3>1. SameWork(worker'[w], worker[w])
      BY <1>1
    <3>2. /\ worker'[w].records = worker[w].records
          /\ \A l \in M!LaneIds : SameLane(worker'[w], worker[w], l)
      BY <3>1 DEF SameWork, SameLane
    <3> QED BY <1>0, <2>1, <3>2, WorkerSame
  <2> QED BY <2>2, OwnPrime
<1>2. CASE Silent
  <2>1. \A m \in Complaints : m \in Control
    BY DEF Control
  <2> QED BY <1>1, <1>2, <2>1 DEF Silent
<1>3. ASSUME NEW w \in M!Workers, LeaveEffect(w) PROVE CleanIsOwn'
  <2>1. \A m \in Reports : m \in Control
    BY DEF Control
  <2> QED BY <1>1, <1>3, <2>1 DEF LeaveEffect
\* A step of one worker that leaves the broker alone.
<1>4. ASSUME NEW w \in M!Workers, Others(w), broker' = broker,
             WorkerIsOwn(worker'[w], broker, w)
      PROVE  CleanIsOwn'
  <2>1. \A v \in M!Workers : WorkerIsOwn(worker'[v], broker', v)
    BY <1>0, <1>4 DEF Others
  <2> QED BY <2>1, OwnPrime
<1>5. ASSUME NEW w \in M!Workers, StartLaneEffect(w) PROVE CleanIsOwn'
  <2>1. PICK l \in M!LaneIds, g \in M!Games :
          /\ worker[w].lane[l].game = M!Free /\ worker'[w].records = worker[w].records
          /\ worker'[w].answers = worker[w].answers
          /\ worker'[w].input = worker[w].input /\ worker'[w].output = worker[w].output
          /\ \A k \in M!LaneIds : worker'[w].lane[k] = IF k = l THEN Fresh(g) ELSE worker[w].lane[k]
          /\ Others(w) /\ broker' = broker
    BY <1>5, Zenon DEF StartLaneEffect
  <2>2. ASSUME NEW k \in M!LaneIds, LaneIsOwn(worker[w], broker, w, k)
        PROVE  LaneIsOwn(worker'[w], broker, w, k)
    <3>1. CASE k = l
      <4>1. worker[w].lane[l].role = M!None
        BY <2>1, <2>2, <3>1 DEF LaneIsOwn, Waits
      <4>2. Idle(worker[w], broker, w, l)
        BY <2>2, <3>1, <4>1 DEF LaneIsOwn
      <4>3. Idle(worker'[w], broker, w, l)
        BY <2>1, <4>2 DEF Idle
      <4>4. worker'[w].lane[l].role = M!None /\ worker'[w].lane[l].foreign = FALSE
        BY <2>1 DEF Fresh
      <4> QED BY <3>1, <4>3, <4>4 DEF LaneIsOwn
    <3>2. CASE k # l
      <4>1. SameLane(worker'[w], worker[w], k)
        BY <2>1, <3>2 DEF SameLane
      <4> QED BY <1>0, <2>2, <4>1, OwnSame, TrafficSame
    <3> QED BY <3>1, <3>2
  <2>3. WorkerIsOwn(worker'[w], broker, w)
    BY <1>0, <2>1, <2>2, WorkerKept
  <2> QED BY <1>4, <2>1, <2>3
<1>6. ASSUME NEW w \in M!Workers, NEW l \in M!LaneIds, FailEffect(w, l) PROVE CleanIsOwn'
  <2>1. worker'[w].records = Append(worker[w].records, <<worker[w].lane[l].game, "error">>)
    BY <1>6 DEF FailEffect
  <2>2. WorkerIsOwn(worker'[w], broker, w)
    BY <1>0, <2>1, OverOwns
  <2> QED BY <1>4, <1>6, <2>2 DEF FailEffect
<1>7. ASSUME NEW w \in M!Workers, NEW l \in M!LaneIds, AskEffect(w, l) PROVE CleanIsOwn'
  <2>1. PICK r \in M!Roles, m \in Requests :
    /\ worker[w].lane[l].game # M!Free /\ worker[w].lane[l].role = M!None
    /\ worker'[w].records = worker[w].records /\ worker'[w].answers = worker[w].answers
    /\ worker'[w].output = worker[w].output
    /\ worker'[w].lane[l] = [worker[w].lane[l] EXCEPT !.role = r]
    /\ worker'[w].input[l] = <<worker[w].lane[l].game, worker[w].lane[l].move>>
    /\ \A k \in M!LaneIds \ {l} : /\ worker'[w].lane[k] = worker[w].lane[k]
                                  /\ worker'[w].input[k] = worker[w].input[k]
    /\ m.worker = w /\ m.lane = l /\ m.role = r
    /\ broker'.inbox = Append(broker.inbox, m) /\ broker'.queue = broker.queue
    /\ broker'.batch = broker.batch /\ Others(w)
    BY <1>7, Zenon DEF AskEffect
  <2>2. ASSUME NEW v \in M!Workers, NEW k \in M!LaneIds, v # w \/ k # l
        PROVE  Traffic(broker', broker, v, k)
    <3>1. ~Mine(m, v, k) /\ m \in Messages
      BY <2>1, <2>2 DEF Mine, Messages
    <3>2. NoMore(broker'.inbox, broker.inbox, v, k)
      BY <1>0, <2>1, <3>1, NoMoreAppend
    <3> QED BY <2>1, <3>2, NoMoreSame DEF Traffic
  <2>3. ASSUME NEW v \in M!Workers, v # w PROVE WorkerIsOwn(worker'[v], broker', v)
    <3>1. worker'[v] = worker[v]
      BY <2>1, <2>3 DEF Others
    <3>2. worker'[v].records = worker[v].records /\
              \A k \in M!LaneIds : SameLane(worker'[v], worker[v], k)
      BY <3>1 DEF SameLane
    <3> QED BY <1>0, <2>2, <2>3, <3>2, WorkerSame
  <2>4. ASSUME NEW k \in M!LaneIds, LaneIsOwn(worker[w], broker, w, k)
        PROVE  LaneIsOwn(worker'[w], broker', w, k)
    <3>1. CASE k = l
      <4>1. PICK me \in WorkerState : me = worker[w]
        BY <1>0
      <4>2. PICK b \in BrokerState : b = broker
        BY <1>0
      <4>3. /\ me.lane[l].game # M!Free /\ me.lane[l].role = M!None
            /\ worker'[w].input[l] = <<me.lane[l].game, me.lane[l].move>>
            /\ worker'[w].answers = me.answers
        BY <2>1, <4>1, Zenon
      <4>4. /\ broker'.inbox = Append(b.inbox, m) /\ broker'.queue = b.queue
            /\ broker'.batch = b.batch /\ LaneIsOwn(me, b, w, l)
            /\ m.worker = w /\ m.lane = l /\ m.role = r
        BY <2>1, <2>4, <3>1, <4>1, <4>2
      <4>5. PICK lane \in LaneState : lane = me.lane[l]
        BY DEF WorkerState
      <4>6. worker'[w].lane[l] = [lane EXCEPT !.role = r]
        BY <2>1, <4>1, <4>5, Zenon
      <4>7. /\ worker'[w].lane[l].game = lane.game /\ worker'[w].lane[l].move = lane.move
            /\ worker'[w].lane[l].role = r
        BY <4>6 DEF LaneState
      <4>8. worker'[w].lane[l].foreign = lane.foreign
        BY <4>6 DEF LaneState
      <4>9. PICK you, c : you = worker'[w] /\ c = broker'
        OBVIOUS
      <4>10. /\ you.lane[l].game = me.lane[l].game /\ you.lane[l].move = me.lane[l].move
             /\ you.lane[l].role = r /\ you.lane[l].foreign = me.lane[l].foreign
             /\ you.input[l] = <<me.lane[l].game, me.lane[l].move>> /\ you.answers = me.answers
        BY <4>3, <4>5, <4>7, <4>8, <4>9, Zenon
      <4>11. /\ c.inbox = Append(b.inbox, m) /\ c.queue = b.queue /\ c.batch = b.batch
        BY <4>4, <4>9, Zenon
      <4>12. Asks(me, you, b, c, w, l, r, m)
        BY <4>3, <4>4, <4>10, <4>11, Zenon DEF Asks
      <4>13. LaneIsOwn(you, c, w, l)
        BY <4>4, <4>12, AskOwns
      <4> QED BY <3>1, <4>9, <4>13
    <3>2. CASE k # l
      <4>1. SameLane(worker'[w], worker[w], k)
        BY <2>1, <3>2 DEF SameLane
      <4> QED BY <1>0, <2>2, <2>4, <3>2, <4>1, OwnSame
    <3> QED BY <3>1, <3>2
  <2>5. WorkerIsOwn(worker'[w], broker', w)
    BY <1>0, <2>1, <2>4, WorkerKept
  <2> QED BY <2>3, <2>5, OwnPrime
<1>8. ASSUME NEW w \in M!Workers,
             NEW l \in M!LaneIds, PollEffect(w, l), OnEffect(w, l) \/ OverEffect(w, l)
      PROVE  CleanIsOwn'
  <2>1. /\ worker[w].lane[l].role # M!None /\ worker[w].answers[l] # <<>>
        /\ worker'[w].input = worker[w].input /\ worker'[w].output = worker[w].output
        /\ worker'[w].answers[l] = Tail(worker[w].answers[l])
        /\ \A k \in M!LaneIds \ {l} : /\ worker'[w].lane[k] = worker[w].lane[k]
                                      /\ worker'[w].answers[k] = worker[w].answers[k]
        /\ broker' = broker /\ Others(w)
    BY <1>8 DEF PollEffect
  <2>2. /\ worker'[w].lane[l].role = M!None
        /\ worker'[w].lane[l].foreign = FALSE \/ worker'[w].lane[l].foreign = Foreign(worker[w], l)
    BY <1>8 DEF OnEffect, OverEffect, M!IdleLane
  <2>3. ASSUME NEW k \in M!LaneIds, \A j \in M!LaneIds : LaneIsOwn(worker[w], broker, w, j)
        PROVE  ~Foreign(worker[w], l) /\ LaneIsOwn(worker'[w], broker, w, k)
    <3>1. ~Foreign(worker[w], l) /\ (worker'[w].lane[l].foreign = FALSE =>
              LaneIsOwn(worker'[w], broker, w, l))
      BY <1>0, <2>1, <2>2, <2>3, PollOwns
    <3>2. Foreign(worker[w], l) \in BOOLEAN
      BY DEF Foreign
    <3>3. worker'[w].lane[l].foreign = FALSE
      BY <2>2, <3>1, <3>2
    <3>4. CASE k # l
      <4>1. SameLane(worker'[w], worker[w], k)
        BY <2>1, <3>4 DEF SameLane
      <4> QED BY <1>0, <2>3, <3>1, <4>1, OwnSame, TrafficSame
    <3> QED BY <3>1, <3>3, <3>4
  <2>4. CASE OnEffect(w, l)
    <3>1. worker'[w].records = worker[w].records
      BY <2>4 DEF OnEffect
    <3>2. WorkerIsOwn(worker'[w], broker, w)
      BY <1>0, <2>3, <3>1 DEF WorkerIsOwn, Clean, Perfect
    <3> QED BY <1>4, <2>1, <3>2
  <2>5. CASE OverEffect(w, l)
    <3>1. PICK o : o = IF Foreign(worker[w], l) THEN "foreign" ELSE "ok"
      OBVIOUS
    <3>2. worker'[w].records = Append(worker[w].records, <<worker[w].lane[l].game, o>>)
      BY <2>5, <3>1 DEF OverEffect
    <3>3. ASSUME Clean(worker[w]), WorkerIsOwn(worker[w], broker, w)
          PROVE  o = "ok" /\ \A k \in M!LaneIds : LaneIsOwn(worker'[w], broker, w, k)
      BY <2>3, <3>1, <3>3 DEF WorkerIsOwn
    <3>4. WorkerIsOwn(worker'[w], broker, w)
      BY <1>0, <3>2, <3>3, OverOwns
    <3> QED BY <1>4, <2>1, <3>4
  <2> QED BY <1>8, <2>4, <2>5
\* A step of the broker that leaves the workers alone.
<1>9. ASSUME worker' = worker,
             \A w \in M!Workers, l \in M!LaneIds :
               LaneIsOwn(worker[w], broker, w, l) => LaneIsOwn(worker[w], broker', w, l)
      PROVE  CleanIsOwn'
  <2>1. ASSUME NEW w \in M!Workers PROVE WorkerIsOwn(worker'[w], broker', w)
    BY <1>0, <1>9, WorkerKept
  <2> QED BY <2>1, OwnPrime
<1>10. CASE IngressEffect
  <2>1. PICK m \in Messages : Passed(broker, broker', m) /\ worker' = worker
    BY <1>10, Zenon DEF IngressEffect, Passed
  <2>2. ASSUME NEW w \in M!Workers, NEW l \in M!LaneIds, LaneIsOwn(worker[w], broker, w, l)
        PROVE  LaneIsOwn(worker[w], broker', w, l)
    <3>1. NoMore(broker'.inbox, broker.inbox, w, l)
      <4>1. PICK s \in Seq(Messages) : s = broker.inbox /\ s # <<>> /\ broker'.inbox = Tail(s)
        BY <1>0, <2>1 DEF Passed
      <4>2. NoMore(Tail(s), s, w, l)
        BY <4>1, NoMoreTail
      <4> QED BY <4>1, <4>2
    <3>2. CASE m \in Requests /\ Mine(m, w, l)
      BY <1>0, <2>1, <2>2, <3>2, QueueOwns
    <3>3. CASE ~(m \in Requests /\ Mine(m, w, l))
      <4>1. ASSUME NEW r \in M!Roles PROVE NoMore(broker'.queue[r], broker.queue[r], w, l)
        <5>1. CASE broker'.queue[r] = broker.queue[r]
          BY <5>1, NoMoreSame
        <5>2. CASE m \in Requests /\ broker'.queue[r] = Append(broker.queue[r], m)
          BY <1>0, <3>3, <5>2, NoMoreAppend
        <5> QED BY <2>1, <5>1, <5>2, ZenonT(40) DEF Passed
      <4>2. Traffic(broker', broker, w, l)
        BY <2>1, <3>1, <4>1 DEF Traffic, Passed
      <4>3. SameLane(worker[w], worker[w], l)
        BY DEF SameLane
      <4> QED BY <1>0, <2>2, <4>2, <4>3, OwnSame
    <3> QED BY <3>2, <3>3
  <2> QED BY <1>9, <2>1, <2>2
<1>11. CASE TakeEffect
  <2>1. PICK r \in M!Roles, n \in Nat \ {0} : Taken(broker, broker', r, n, worker) /\
            worker' = worker
    BY <1>11, Zenon DEF TakeEffect, Taken
  <2>2. ASSUME NEW w \in M!Workers, NEW l \in M!LaneIds, LaneIsOwn(worker[w], broker, w, l)
        PROVE  LaneIsOwn(worker[w], broker', w, l)
    <3>1. CASE RowsIn(broker', w, l) # {}
      <4>2. broker \in BrokerState /\ worker[w] \in WorkerState
        BY <1>0
      <4> QED BY <2>1, <2>2, <3>1, <4>2, RowOwns
    <3>2. CASE RowsIn(broker', w, l) = {}
      <4>1. ASSUME NEW o \in M!Roles PROVE NoMore(broker'.queue[o], broker.queue[o], w, l)
        <5>1. CASE o = r
          BY <1>0, <2>1, <5>1, NoMoreRest, ZenonT(40) DEF Taken
        <5>2. CASE o # r
          BY <2>1, <5>2, NoMoreSame DEF Taken
        <5> QED BY <5>1, <5>2
      <4>2. Traffic(broker', broker, w, l)
        BY <2>1, <3>2, <4>1, NoMoreSame DEF Traffic, Taken
      <4>3. SameLane(worker[w], worker[w], l)
        BY DEF SameLane
      <4> QED BY <1>0, <2>2, <4>2, <4>3, OwnSame
    <3> QED BY <3>1, <3>2
  <2> QED BY <1>9, <2>1, <2>2
<1>12. CASE AnswerEffect
  <2>1. ASSUME NEW w \in M!Workers PROVE WorkerIsOwn(worker'[w], broker', w)
    <3>1. /\ worker'[w].lane = worker[w].lane /\ worker'[w].records = worker[w].records
          /\ worker'[w].input = worker[w].input
          /\ broker'.inbox = broker.inbox /\ broker'.queue = broker.queue /\ broker'.batch = <<>>
      BY <1>12 DEF AnswerEffect
    <3>2. ASSUME NEW l \in M!LaneIds, LaneIsOwn(worker[w], broker, w, l)
          PROVE  LaneIsOwn(worker'[w], broker', w, l)
      <4>1. M!RowsFor(w, l) = RowsIn(broker, w, l)
        BY DEF M!RowsFor, RowsIn
      <4>2. CASE /\ M!RowsFor(w, l) = {} /\ worker'[w].answers[l] = worker[w].answers[l]
                 /\ worker'[w].output[l] = worker[w].output[l]
        <5>1. SameLane(worker'[w], worker[w], l)
          BY <3>1, <4>2 DEF SameLane
        <5>2. Traffic(broker', broker, w, l)
          BY <3>1, NoMoreSame DEF Traffic, RowsIn
        <5> QED BY <1>0, <3>2, <5>1, <5>2, OwnSame
      <4>3. ASSUME NEW i \in M!RowsFor(w, l), NEW a \in Replies,
                   worker'[w].answers[l] = Append(worker[w].answers[l], a),
                   worker'[w].output[l] = <<broker.batch[i].role, broker.batch[i].position[1],
                                            broker.batch[i].position[2]>>
            PROVE  LaneIsOwn(worker'[w], broker', w, l)
        <5>1. i \in RowsIn(broker, w, l) /\ worker[w] \in WorkerState
          BY <1>0, <4>1
        <5> QED BY <3>1, <3>2, <4>3, <5>1, AnswerOwns
      <4> QED BY <1>12, <4>2, <4>3 DEF AnswerEffect
    <3> QED BY <1>0, <3>1, <3>2, WorkerKept
  <2> QED BY <2>1, OwnPrime
<1>13. CASE ReportEffect
  <2>1. /\ worker' = worker /\ broker'.inbox = broker.inbox
        /\ broker'.queue = broker.queue /\ broker'.batch = broker.batch
    BY <1>13 DEF ReportEffect
  <2>2. \A w \in M!Workers : SameWork(worker'[w], worker[w])
    BY <2>1, SameIsSame
  <2> QED BY <1>1, <2>1, <2>2
<1> QED BY <1>2, <1>3, <1>5, <1>6, <1>7, <1>8, <1>10, <1>11, <1>12, <1>13 DEF Effect

-----------------------------------------------------------------------------
(* A worker reports once, when it has nothing left, all that it played.    *)

ReportOf(m, w) == m.kind = "done" /\ m.worker = w
NoReport(s, w) == \A i \in DOMAIN s : ~ReportOf(s[i], w)
OneReport(s, w) == \A i, j \in DOMAIN s : ReportOf(s[i], w) /\ ReportOf(s[j], w) => i = j
TrueReport(s, w, records) == \A i \in DOMAIN s : ReportOf(s[i], w) => s[i].records = records

ReportIs(p, me, b, w) ==
  /\ OneReport(b.inbox, w) /\ TrueReport(b.inbox, w, me.records)
  /\ OneReport(b.control, w) /\ TrueReport(b.control, w, me.records)
  /\ w \in p.done => NoReport(b.inbox, w) /\ NoReport(b.control, w)
  /\ NoReport(b.inbox, w) \/ NoReport(b.control, w)
  /\ w \in p.done \/ ~NoReport(b.inbox, w) \/ ~NoReport(b.control, w) =>
       me.st \in Through /\ M!Busy(me) = {} /\ me.tasks = <<>> /\ p.tasks = <<>>

ReportsAreTrue == \A w \in M!Workers : ReportIs(parent, worker[w], broker, w)

\* What was reported stays; nothing is added.
LeftOver(t, s, w) ==
  /\ NoReport(s, w) => NoReport(t, w)
  /\ OneReport(s, w) => OneReport(t, w)
  /\ \A records : TrueReport(s, w, records) => TrueReport(t, w, records)

LEMMA LeftSame == \A s, w : LeftOver(s, s, w)
  BY DEF LeftOver

LEMMA LeftAppend ==
  ASSUME NEW S, NEW s \in Seq(S), NEW m, NEW w
  PROVE  /\ ~ReportOf(m, w) => LeftOver(Append(s, m), s, w)
         /\ ReportOf(m, w) /\ NoReport(s, w) =>
              OneReport(Append(s, m), w) /\ TrueReport(Append(s, m), w, m.records)
<1>1. PICK t : t = Append(s, m)
  OBVIOUS
<1>2. /\ Len(s) \in Nat /\ DOMAIN s = 1..Len(s) /\ DOMAIN t = 1..Len(s) + 1
      /\ \A i \in 1..Len(s) : t[i] = s[i]
      /\ t[Len(s) + 1] = m
  BY <1>1
<1>2a. \A i \in DOMAIN t : i \in DOMAIN s \/ i = Len(s) + 1
  BY <1>2
<1>3. ASSUME ~ReportOf(m, w) PROVE LeftOver(t, s, w)
  <2>1. \A i \in DOMAIN t : ReportOf(t[i], w) => i \in DOMAIN s /\ t[i] = s[i]
    BY <1>2, <1>2a, <1>3
  <2> QED BY <2>1 DEF LeftOver, NoReport, OneReport, TrueReport
<1>4. ASSUME ReportOf(m, w), NoReport(s, w) PROVE OneReport(t, w) /\ TrueReport(t, w, m.records)
  <2>1. \A i \in DOMAIN t : ReportOf(t[i], w) => i = Len(s) + 1
    BY <1>2, <1>2a, <1>4 DEF NoReport
  <2> QED BY <1>2, <2>1 DEF OneReport, TrueReport
<1> QED BY <1>1, <1>3, <1>4

LEMMA LeftTail ==
  ASSUME NEW S, NEW s \in Seq(S), s # <<>>, NEW w
  PROVE  /\ LeftOver(Tail(s), s, w)
         /\ ReportOf(Head(s), w) =>
              /\ ~NoReport(s, w) /\ (OneReport(s, w) => NoReport(Tail(s), w))
              /\ \A records : TrueReport(s, w, records) => Head(s).records = records
<1>0. PICK t : t = Tail(s)
  OBVIOUS
<1>1. /\ Len(s) \in Nat /\ Len(s) # 0 /\ DOMAIN s = 1..Len(s)
      /\ DOMAIN t = 1..Len(s) - 1 /\ \A i \in 1..Len(s) - 1 : t[i] = s[i + 1]
  BY <1>0, HeadTailProperties, LenProperties, EmptySeq
<1>2. Head(s) = s[1] /\ 1 \in DOMAIN s
  BY <1>1
<1>3. \A i \in DOMAIN t : i \in Nat /\ i + 1 \in DOMAIN s /\ i + 1 # 1 /\ t[i] = s[i + 1]
  BY <1>1
<1>4. LeftOver(t, s, w)
  <2>1. NoReport(s, w) => NoReport(t, w)
    BY <1>3 DEF NoReport
  <2>2. ASSUME OneReport(s, w), NEW i \in DOMAIN t, NEW j \in DOMAIN t,
               ReportOf(t[i], w), ReportOf(t[j], w)
        PROVE  i = j
    <3>1. i + 1 = j + 1
      BY <1>3, <2>2 DEF OneReport
    <3> QED BY <1>3, <3>1
  <2>3. \A records : TrueReport(s, w, records) => TrueReport(t, w, records)
    BY <1>3 DEF TrueReport
  <2> QED BY <2>1, <2>2, <2>3 DEF LeftOver, OneReport
<1>5. ASSUME ReportOf(Head(s), w)
      PROVE  /\ ~NoReport(s, w) /\ (OneReport(s, w) => NoReport(t, w))
             /\ \A records : TrueReport(s, w, records) => Head(s).records = records
  BY <1>2, <1>3, <1>5 DEF NoReport, OneReport, TrueReport
<1> QED BY <1>0, <1>4, <1>5

LEMMA ReportSame ==
  ASSUME NEW p, NEW q, NEW me, NEW you, NEW b, NEW c, NEW w, ReportIs(p, me, b, w),
         w \in q.done => w \in p.done, p.tasks = <<>> => q.tasks = <<>>,
         LeftOver(c.inbox, b.inbox, w), LeftOver(c.control, b.control, w),
         me.st \in Through => /\ you.records = me.records /\ you.st \in Through
                              /\ M!Busy(you) = M!Busy(me) /\ you.tasks = me.tasks
  PROVE  ReportIs(q, you, c, w)
<1>1. /\ OneReport(c.inbox, w) /\ OneReport(c.control, w)
      /\ TrueReport(c.inbox, w, me.records) /\ TrueReport(c.control, w, me.records)
      /\ NoReport(b.inbox, w) => NoReport(c.inbox, w)
      /\ NoReport(b.control, w) => NoReport(c.control, w)
  BY DEF ReportIs, LeftOver
<1>2. CASE me.st \in Through
  BY <1>1, <1>2 DEF ReportIs
<1>3. CASE me.st \notin Through
  <2>1. w \notin p.done /\ NoReport(b.inbox, w) /\ NoReport(b.control, w)
    BY <1>3 DEF ReportIs
  <2>2. TrueReport(c.inbox, w, you.records) /\ TrueReport(c.control, w, you.records)
    BY <1>1, <2>1 DEF TrueReport, NoReport
  <2> QED BY <1>1, <2>1, <2>2 DEF ReportIs
<1> QED BY <1>2, <1>3

LEMMA ReportPrime ==
  ASSUME \A w \in M!Workers : ReportIs(parent', worker'[w], broker', w)
  PROVE  ReportsAreTrue'
  BY DEF ReportsAreTrue, ReportIs, NoReport, OneReport, TrueReport, ReportOf, M!Busy

LEMMA ReportBegins == ASSUME M!MatchInit PROVE ReportsAreTrue
<1>1. parent.done = {} /\ broker.inbox = <<>> /\ broker.control = <<>>
  BY DEF M!MatchInit
<1> QED BY <1>1 DEF ReportsAreTrue, ReportIs, NoReport, OneReport, TrueReport

\* Who is through does no more.
Resting ==
  /\ parent.tasks = <<>> => parent'.tasks = <<>>
  /\ \A w \in M!Workers : worker[w].st \in Through =>
       /\ worker'[w].records = worker[w].records /\ worker'[w].st \in Through
       /\ M!Busy(worker'[w]) = M!Busy(worker[w]) /\ worker'[w].tasks = worker[w].tasks

LEMMA EffectRests == ASSUME Effect PROVE Resting
<1>0. "run" \notin Through /\ "left" \in Through
  BY DEF Through
<1>1. ASSUME NEW w \in M!Workers, Others(w), worker[w].st = "run",
             parent.tasks = <<>> => parent'.tasks = <<>>
      PROVE  Resting
  BY <1>0, <1>1 DEF Others, Resting
<1>2. CASE Silent
  <2>1. \A w \in M!Workers : SameWork(worker'[w], worker[w]) =>
          /\ worker'[w].records = worker[w].records /\ worker'[w].tasks = worker[w].tasks
          /\ M!Busy(worker'[w]) = M!Busy(worker[w])
    BY DEF SameWork, M!Busy
  <2> QED BY <1>2, <2>1 DEF Silent, Resting
<1>3. CASE IngressEffect \/ TakeEffect \/ ReportEffect
  <2>1. worker' = worker /\ parent'.tasks = parent.tasks
    BY <1>3 DEF IngressEffect, TakeEffect, ReportEffect
  <2> QED BY <2>1 DEF Resting
<1>4. CASE AnswerEffect
  <2>1. \A w \in M!Workers : M!Busy(worker'[w]) = M!Busy(worker[w])
    BY <1>4 DEF AnswerEffect, M!Busy
  <2> QED BY <1>4, <2>1 DEF AnswerEffect, Resting
<1>5. ASSUME NEW w \in M!Workers, StartLaneEffect(w) PROVE Resting
  <2>1. /\ worker[w].st = "run" /\ Others(w)
        /\ parent'.tasks = parent.tasks \/ parent.tasks # <<>>
    BY <1>5, Zenon DEF StartLaneEffect
  <2> QED BY <1>1, <2>1
<1>6. ASSUME NEW w \in M!Workers, LeaveEffect(w) PROVE Resting
  <2>1. /\ parent' = parent
        /\ \A v \in M!Workers : /\ SameWork(worker'[v], worker[v])
                                /\ worker'[v].st = IF v = w THEN "left" ELSE worker[v].st
    BY <1>6, Zenon DEF LeaveEffect
  <2>2. \A v \in M!Workers :
          /\ worker'[v].records = worker[v].records /\ worker'[v].tasks = worker[v].tasks
          /\ M!Busy(worker'[v]) = M!Busy(worker[v])
    BY <2>1 DEF SameWork, M!Busy
  <2> QED BY <1>0, <2>1, <2>2 DEF Resting
<1>7. ASSUME NEW w \in M!Workers, NEW l \in M!LaneIds,
             FailEffect(w, l) \/ AskEffect(w, l) \/ PollEffect(w, l)
      PROVE  Resting
  <2>1. worker[w].st = "run" /\ Others(w) /\ parent'.tasks = parent.tasks
    BY <1>7 DEF FailEffect, AskEffect, PollEffect
  <2> QED BY <1>1, <2>1
<1> QED BY <1>2, <1>3, <1>4, <1>5, <1>6, <1>7 DEF Effect

LEMMA ReportKept ==
  ASSUME M!MatchAssumption, Typed, ReportsAreTrue, Effect
  PROVE  ReportsAreTrue'
<1>0. /\ Resting /\ \A w \in M!Workers : ReportIs(parent, worker[w], broker, w)
      /\ broker.inbox \in Seq(Messages) /\ broker.control \in Seq(Control)
      /\ "run" \notin Through /\ "left" \in Through
  BY EffectRests DEF Typed, ReportsAreTrue, BrokerState, Through
<1>1. ASSUME NEW w \in M!Workers, w \in parent'.done => w \in parent.done,
             LeftOver(broker'.inbox, broker.inbox, w), LeftOver(broker'.control, broker.control, w)
      PROVE  ReportIs(parent', worker'[w], broker', w)
  <2>1. /\ parent.tasks = <<>> => parent'.tasks = <<>>
        /\ worker[w].st \in Through =>
             /\ worker'[w].records = worker[w].records /\ worker'[w].st \in Through
             /\ M!Busy(worker'[w]) = M!Busy(worker[w]) /\ worker'[w].tasks = worker[w].tasks
    BY <1>0 DEF Resting
  <2>2. ReportIs(parent, worker[w], broker, w)
    BY <1>0
  <2> QED BY <1>1, <2>1, <2>2, ReportSame
\* Nothing that is sent is a report.
<1>2. ASSUME parent'.done = parent.done, broker'.control = broker.control,
             \/ broker'.inbox = broker.inbox
             \/ \E m \in Requests \cup Complaints : broker'.inbox = Append(broker.inbox, m)
      PROVE  ReportsAreTrue'
  <2>1. ASSUME NEW w \in M!Workers PROVE ReportIs(parent', worker'[w], broker', w)
    <3>1. CASE broker'.inbox = broker.inbox
      BY <1>1, <1>2, <3>1, LeftSame
    <3>2. ASSUME NEW m \in Requests \cup Complaints, broker'.inbox = Append(broker.inbox, m)
          PROVE  ReportIs(parent', worker'[w], broker', w)
      <4>1. ~ReportOf(m, w)
        BY DEF ReportOf, Requests, Complaints
      <4>2. LeftOver(broker'.inbox, broker.inbox, w)
        BY <1>0, <3>2, <4>1, LeftAppend
      <4> QED BY <1>1, <1>2, <4>2, LeftSame
    <3> QED BY <1>2, <3>1, <3>2
  <2> QED BY <2>1, ReportPrime
<1>3. CASE Silent \/ TakeEffect \/ AnswerEffect
  BY <1>2, <1>3, ZenonT(40) DEF Silent, TakeEffect, AnswerEffect
<1>4. ASSUME NEW w \in M!Workers, NEW l \in M!LaneIds,
             FailEffect(w, l) \/ AskEffect(w, l) \/ PollEffect(w, l)
      PROVE  ReportsAreTrue'
  BY <1>2, <1>4 DEF FailEffect, AskEffect, PollEffect, Kept
<1>5. ASSUME NEW w \in M!Workers, StartLaneEffect(w) PROVE ReportsAreTrue'
  <2>1. broker' = broker /\ Kept
    BY <1>5, Zenon DEF StartLaneEffect
  <2> QED BY <1>2, <2>1 DEF Kept
<1>6. ASSUME NEW w \in M!Workers, LeaveEffect(w) PROVE ReportsAreTrue'
  <2>1. PICK m \in Reports :
    /\ worker[w].st = "run" /\ M!Busy(worker[w]) = {}
    /\ worker[w].tasks = <<>> /\ parent.tasks = <<>>
    /\ m.worker = w /\ m.records = worker[w].records
    /\ \A v \in M!Workers : /\ SameWork(worker'[v], worker[v])
                            /\ worker'[v].st = IF v = w THEN "left" ELSE worker[v].st
    /\ broker'.inbox = Append(broker.inbox, m) /\ broker'.control = broker.control
    /\ parent' = parent
    BY <1>6, Zenon DEF LeaveEffect
  <2>2. \A v \in M!Workers : ReportOf(m, v) <=> v = w
    BY <2>1 DEF ReportOf, Reports
  <2>3. ASSUME NEW v \in M!Workers, v # w PROVE ReportIs(parent', worker'[v], broker', v)
    <3>1. LeftOver(broker'.inbox, broker.inbox, v)
      BY <1>0, <2>1, <2>2, <2>3, LeftAppend
    <3> QED BY <1>1, <2>1, <3>1, LeftSame
  <2>4. ReportIs(parent', worker'[w], broker', w)
    <3>1. w \notin parent.done /\ NoReport(broker.inbox, w) /\ NoReport(broker.control, w)
      BY <1>0, <2>1 DEF ReportIs
    <3>2. /\ OneReport(broker'.inbox, w) /\ TrueReport(broker'.inbox, w, worker[w].records)
      BY <1>0, <2>1, <2>2, <3>1, LeftAppend
    <3>3. /\ worker'[w].records = worker[w].records /\ worker'[w].tasks = <<>>
          /\ M!Busy(worker'[w]) = {} /\ worker'[w].st = "left"
      BY <2>1 DEF SameWork, M!Busy
    <3>4. /\ OneReport(broker'.control, w) /\ TrueReport(broker'.control, w, worker[w].records)
          /\ NoReport(broker'.control, w)
      BY <2>1, <3>1 DEF OneReport, TrueReport, NoReport
    <3> QED BY <1>0, <2>1, <3>1, <3>2, <3>3, <3>4 DEF ReportIs
  <2> QED BY <2>3, <2>4, ReportPrime
<1>7. CASE IngressEffect
  <2>1. PICK m \in Messages :
    /\ broker.inbox # <<>> /\ m = Head(broker.inbox) /\ broker'.inbox = Tail(broker.inbox)
    /\ parent' = parent /\ worker' = worker
    /\ \/ m \in Requests /\ broker'.control = broker.control
       \/ m \in Control /\ broker'.control = Append(broker.control, m)
    BY <1>7, Zenon DEF IngressEffect
  <2>2. ASSUME NEW w \in M!Workers PROVE ReportIs(parent', worker'[w], broker', w)
    <3>1. PICK s \in Seq(Messages) : s = broker.inbox /\ s # <<>>
      BY <1>0, <2>1
    <3>2. /\ LeftOver(Tail(s), s, w)
          /\ ReportOf(m, w) =>
              /\ ~NoReport(s, w) /\ (OneReport(s, w) => NoReport(Tail(s), w))
              /\ \A records : TrueReport(s, w, records) => m.records = records
      BY <2>1, <3>1, LeftTail
    <3>3. CASE ~ReportOf(m, w)
      <4>1. LeftOver(broker'.control, broker.control, w)
        BY <1>0, <2>1, <3>3, LeftSame, LeftAppend
      <4> QED BY <1>1, <2>1, <3>1, <3>2, <4>1
    <3>4. CASE ReportOf(m, w)
      <4>1. m \in Control /\ broker'.control = Append(broker.control, m)
        BY <2>1, <3>4 DEF ReportOf, Requests
      <4>2. ReportIs(parent, worker[w], broker, w)
        BY <1>0
      <4>3. /\ ~NoReport(broker.inbox, w) /\ NoReport(broker.control, w)
            /\ w \notin parent.done /\ NoReport(broker'.inbox, w)
            /\ m.records = worker[w].records
        BY <2>1, <3>1, <3>2, <3>4, <4>2 DEF ReportIs
      <4>4. /\ OneReport(broker'.control, w) /\ TrueReport(broker'.control, w, worker[w].records)
        BY <1>0, <3>4, <4>1, <4>3, LeftAppend
      <4>5. OneReport(broker'.inbox, w) /\ TrueReport(broker'.inbox, w, worker[w].records)
        BY <4>3 DEF OneReport, TrueReport, NoReport
      <4> QED BY <2>1, <4>2, <4>3, <4>4, <4>5 DEF ReportIs
    <3> QED BY <3>3, <3>4
  <2> QED BY <2>2, ReportPrime
<1>8. CASE ReportEffect
  <2>1. PICK m \in Reports :
    /\ broker.control # <<>> /\ m = Head(broker.control)
    /\ broker'.control = Tail(broker.control) /\ broker'.inbox = broker.inbox
    /\ worker' = worker
    /\ parent'.tasks = parent.tasks /\ parent'.done = parent.done \cup {m.worker}
    BY <1>8, Zenon DEF ReportEffect
  <2>2. ASSUME NEW w \in M!Workers PROVE ReportIs(parent', worker'[w], broker', w)
    <3>1. PICK s \in Seq(Control) : s = broker.control /\ s # <<>>
      BY <1>0, <2>1
    <3>2. /\ LeftOver(Tail(s), s, w)
          /\ ReportOf(m, w) => ~NoReport(s, w) /\ (OneReport(s, w) => NoReport(Tail(s), w))
      BY <2>1, <3>1, LeftTail
    <3>3. CASE w # m.worker
      BY <1>1, <2>1, <3>1, <3>2, <3>3, LeftSame
    <3>4. CASE w = m.worker
      <4>1. ReportOf(m, w)
        BY <3>4 DEF ReportOf, Reports
      <4>2. ReportIs(parent, worker[w], broker, w)
        BY <1>0
      <4>3. NoReport(broker.inbox, w) /\ NoReport(broker'.control, w) /\
                ~NoReport(broker.control, w)
        BY <2>1, <3>1, <3>2, <4>1, <4>2 DEF ReportIs
      <4>4. OneReport(broker'.control, w) /\ TrueReport(broker'.control, w, worker[w].records)
        BY <4>3 DEF OneReport, TrueReport, NoReport
      <4> QED BY <2>1, <4>2, <4>3, <4>4 DEF ReportIs
    <3> QED BY <3>3, <3>4
  <2> QED BY <2>2, ReportPrime
<1> QED BY <1>3, <1>4, <1>5, <1>6, <1>7, <1>8 DEF Effect

-----------------------------------------------------------------------------
(* The parent has all records of those who are done, and nothing else.     *)

Collected ==
  /\ Items(parent.records) = UNION {Items(worker[w].records) : w \in parent.done}
  /\ OncePlayed(parent.records)

LEMMA ConcatPlayed ==
  ASSUME NEW s \in Seq(M!Games \X M!Outcomes), NEW t \in Seq(M!Games \X M!Outcomes)
  PROVE  /\ Items(s \o t) = Items(s) \cup Items(t)
         /\ OncePlayed(s) /\ OncePlayed(t) /\ PlayedIn(s) \cap PlayedIn(t) = {} =>
              OncePlayed(s \o t)
<1>1. PICK both : both = s \o t
  OBVIOUS
<1>2. PICK n \in Nat, k \in Nat : n = Len(s) /\ k = Len(t)
  OBVIOUS
<1>3. /\ DOMAIN s = 1..n /\ DOMAIN t = 1..k /\ DOMAIN both = 1..n + k
      /\ \A i \in 1..n + k : both[i] = IF i <= n THEN s[i] ELSE t[i - n]
  BY <1>1, <1>2, ConcatProperties
<1>4. \A i \in 1..n : i \in DOMAIN both /\ both[i] = s[i]
  BY <1>3
<1>5. \A i \in 1..k : n + i \in DOMAIN both /\ both[n + i] = t[i]
  BY <1>3
<1>6. \A i \in DOMAIN both : i \in 1..n \/ (i - n \in 1..k /\ i = n + (i - n))
  BY <1>3
<1>7. Items(both) = Items(s) \cup Items(t)
  <2>1. ASSUME NEW x \in Items(both) PROVE x \in Items(s) \cup Items(t)
    <3>1. PICK i \in DOMAIN both : x = both[i]
      BY DEF Items
    <3>2. CASE i \in 1..n
      BY <1>3, <1>4, <3>1, <3>2 DEF Items
    <3>3. CASE i - n \in 1..k /\ i = n + (i - n)
      <4>1. x = t[i - n]
        BY <1>5, <3>1, <3>3
      <4> QED BY <1>3, <3>3, <4>1 DEF Items
    <3> QED BY <1>6, <3>2, <3>3
  <2>2. ASSUME NEW x \in Items(s) PROVE x \in Items(both)
    <3>1. PICK i \in 1..n : x = s[i]
      BY <1>3 DEF Items
    <3> QED BY <1>4, <3>1 DEF Items
  <2>3. ASSUME NEW x \in Items(t) PROVE x \in Items(both)
    <3>1. PICK i \in 1..k : x = t[i]
      BY <1>3 DEF Items
    <3> QED BY <1>5, <3>1 DEF Items
  <2> QED BY <2>1, <2>2, <2>3
<1>8. ASSUME OncePlayed(s), OncePlayed(t), PlayedIn(s) \cap PlayedIn(t) = {}
      PROVE  OncePlayed(both)
  <2>1. \A i \in 1..n, j \in 1..k : s[i][1] # t[j][1]
    BY <1>3, <1>8 DEF PlayedIn
  <2>2. ASSUME NEW i \in DOMAIN both, NEW j \in DOMAIN both, both[i][1] = both[j][1] PROVE i = j
    <3>1. CASE i \in 1..n /\ j \in 1..n
      BY <1>3, <1>4, <1>8, <2>2, <3>1 DEF OncePlayed
    <3>2. CASE i \in 1..n /\ j - n \in 1..k /\ j = n + (j - n)
      <4>1. both[i] = s[i] /\ both[j] = t[j - n]
        BY <1>4, <1>5, <3>2
      <4> QED BY <2>1, <2>2, <3>2, <4>1
    <3>3. CASE j \in 1..n /\ i - n \in 1..k /\ i = n + (i - n)
      <4>1. both[j] = s[j] /\ both[i] = t[i - n]
        BY <1>4, <1>5, <3>3
      <4> QED BY <2>1, <2>2, <3>3, <4>1
    <3>4. CASE i - n \in 1..k /\ i = n + (i - n) /\ j - n \in 1..k /\ j = n + (j - n)
      <4>1. both[i] = t[i - n] /\ both[j] = t[j - n]
        BY <1>5, <3>4
      <4>2. i - n = j - n
        BY <1>3, <1>8, <2>2, <3>4, <4>1 DEF OncePlayed
      <4> QED BY <3>4, <4>2
    <3> QED BY <1>6, <3>1, <3>2, <3>3, <3>4
  <2> QED BY <2>2 DEF OncePlayed
<1> QED BY <1>1, <1>7, <1>8

LEMMA CollectedKept ==
  ASSUME M!MatchAssumption, Typed, Divided, ReportsAreTrue, Collected, Effect
  PROVE  Collected'
<1>0. /\ Resting /\ parent \in ParentState
      /\ \A w \in M!Workers : /\ worker[w] \in WorkerState /\ Tidy(worker[w])
                              /\ ReportIs(parent, worker[w], broker, w)
  BY EffectRests DEF Typed, Divided, ReportsAreTrue
<1>1. parent.done \subseteq M!Workers /\ parent.records \in Seq(M!Games \X M!Outcomes)
  BY <1>0 DEF ParentState
<1>2. \A w \in parent.done : worker'[w].records = worker[w].records
  BY <1>0, <1>1 DEF ReportIs, Resting
<1>3. CASE parent'.done = parent.done /\ parent'.records = parent.records
  <2>1. {Items(worker[w].records) : w \in parent.done}
          = {Items(worker'[w].records) : w \in parent'.done}
    BY <1>2, <1>3, Zenon
  <2> QED BY <1>3, <2>1 DEF Collected, Items, OncePlayed
<1>4. CASE ReportEffect
  <2>1. PICK m \in Reports :
    /\ broker.control # <<>> /\ m = Head(broker.control)
    /\ worker' = worker /\ parent'.done = parent.done \cup {m.worker}
    /\ parent'.records = parent.records \o m.records
    BY <1>4, Zenon DEF ReportEffect
  <2>2. PICK w \in M!Workers : w = m.worker
    BY DEF Reports
  <2>3. /\ w \notin parent.done /\ m.records = worker[w].records
    <3>1. PICK s \in Seq(Control) : s = broker.control /\ s # <<>>
      BY <2>1 DEF Typed, BrokerState
    <3>2. ReportOf(Head(s), w)
      BY <2>1, <2>2, <3>1 DEF ReportOf, Reports
    <3>3. /\ ~NoReport(s, w)
          /\ \A records : TrueReport(s, w, records) => Head(s).records = records
      BY <3>1, <3>2, LeftTail
    <3>4. ReportIs(parent, worker[w], broker, w)
      BY <1>0
    <3> QED BY <2>1, <3>1, <3>3, <3>4 DEF ReportIs
  <2>4. worker[w].records \in Seq(M!Games \X M!Outcomes) /\ OncePlayed(worker[w].records)
    BY <1>0 DEF WorkerState, Tidy
  <2>5. PlayedIn(parent.records) \cap PlayedIn(worker[w].records) = {}
    <3>1. ASSUME NEW g \in PlayedIn(parent.records), g \in PlayedIn(worker[w].records) PROVE FALSE
      <4>1. PICK x \in Items(parent.records) : g = x[1]
        BY DEF PlayedIn, Items
      <4>2. PICK v \in parent.done : x \in Items(worker[v].records)
        BY <4>1 DEF Collected
      <4>3. g \in PlayedIn(worker[v].records)
        BY <4>1, <4>2 DEF PlayedIn, Items
      <4>4. v \in M!Workers /\ v # w
        BY <1>1, <2>3
      <4>5. g \in Holds(worker[v]) /\ g \in Holds(worker[w])
        BY <3>1, <4>3 DEF Holds
      <4> QED BY <4>4, <4>5 DEF Divided
    <3> QED BY <3>1
  <2>6. /\ Items(parent'.records) = Items(parent.records) \cup Items(worker[w].records)
        /\ OncePlayed(parent'.records)
    BY <1>1, <2>1, <2>3, <2>4, <2>5, ConcatPlayed DEF Collected
  <2>7. ASSUME NEW x
        PROVE  x \in Items(parent'.records)
                 <=> \E v \in parent'.done : x \in Items(worker'[v].records)
    BY <2>1, <2>2, <2>6 DEF Collected
  <2>8. Items(parent'.records) = UNION {Items(worker'[v].records) : v \in parent'.done}
    BY <2>7
  <2> QED BY <2>6, <2>8 DEF Collected, Items, OncePlayed
<1>5. CASE Silent \/ TakeEffect \/ AnswerEffect \/ IngressEffect
  <2>1. parent'.done = parent.done /\ parent'.records = parent.records
    BY <1>5 DEF Silent, TakeEffect, AnswerEffect, IngressEffect
  <2> QED BY <1>3, <2>1
<1>6. ASSUME NEW w \in M!Workers, StartLaneEffect(w) \/ LeaveEffect(w) PROVE Collected'
  <2>1. parent'.done = parent.done /\ parent'.records = parent.records
    BY <1>6, Zenon DEF StartLaneEffect, LeaveEffect, Kept
  <2> QED BY <1>3, <2>1
<1>7. ASSUME NEW w \in M!Workers, NEW l \in M!LaneIds,
             FailEffect(w, l) \/ AskEffect(w, l) \/ PollEffect(w, l)
      PROVE  Collected'
  <2>1. parent'.done = parent.done /\ parent'.records = parent.records
    BY <1>7, Zenon DEF FailEffect, AskEffect, PollEffect, Kept
  <2> QED BY <1>3, <2>1
<1> QED BY <1>4, <1>5, <1>6, <1>7 DEF Effect

-----------------------------------------------------------------------------
(* The verdict.                                                            *)

Verdicts ==
  /\ parent.pc \in {"barrier", "loop", "join"} => parent.verdict = M!None
  /\ parent.pc = "join" => parent.done = M!Workers
  /\ parent.verdict = "VALID" =>
       parent.done = M!Workers /\ (ErrorsAreTechnical = TRUE => M!Errors = {})

\* The count of the model and that of the library are one.
LEMMA RecordsCounted == ASSUME NEW S PROVE M!Cardinality(S) = Cardinality(S)
BY DEF Cardinality, M!Cardinality

LEMMA TechnicalIs ==
  ASSUME Typed, ErrorsAreTechnical = TRUE, M!Technical = 0
  PROVE  M!Errors = {}
<1>1. PICK s \in Seq(M!Games \X M!Outcomes) : s = parent.records
  BY DEF Typed, ParentState
<1>2. Len(s) \in Nat /\ DOMAIN s = 1..Len(s)
  OBVIOUS
<1>3. IsFiniteSet(1..Len(s))
  BY <1>2, FS_Interval
<1>4. M!Errors \in SUBSET (1..Len(s))
  BY <1>1, <1>2 DEF M!Errors
<1>5. IsFiniteSet(M!Errors)
  BY <1>3, <1>4, FS_Subset
<1>6. Cardinality(M!Errors) = 0
  BY RecordsCounted, Zenon DEF M!Technical
<1> QED BY <1>5, <1>6, FS_EmptySet

LEMMA VerdictsKept ==
  ASSUME M!MatchAssumption, Typed, Verdicts, Effect
  PROVE  Verdicts'
<1>1. CASE /\ parent'.done = parent.done /\ parent'.records = parent.records
           /\ parent'.verdict = parent.verdict /\ parent'.pc = parent.pc
  <2>1. M!Errors' = M!Errors
    BY <1>1 DEF M!Errors
  <2> QED BY <1>1, <2>1 DEF Verdicts
<1>2. CASE Silent
  <2>1. parent'.done = parent.done /\ parent'.records = parent.records /\ Rules
    BY <1>2 DEF Silent
  <2>2. M!Errors' = M!Errors
    BY <2>1 DEF M!Errors
  <2>3. CASE /\ parent'.verdict = parent.verdict
             /\ parent'.pc \in {parent.pc, "raised"} \/ (parent.pc = "barrier" /\
                    parent'.pc = "loop")
    BY <2>1, <2>2, <2>3 DEF Verdicts
  <2>4. CASE /\ parent.pc = "join" /\ parent'.pc = "complete"
             /\ parent'.verdict = IF M!Technical = 0 THEN "VALID" ELSE "TECHNICAL"
    <3>1. parent'.verdict = "VALID" => M!Technical = 0
      BY <2>4, Zenon
    <3>2. parent'.verdict = "VALID" /\ ErrorsAreTechnical = TRUE => M!Errors = {}
      BY <3>1, TechnicalIs
    <3> QED BY <2>1, <2>2, <2>4, <3>2 DEF Verdicts
  <2> QED BY <2>1, <2>3, <2>4 DEF Rules
<1>3. CASE ReportEffect
  <2>1. /\ parent.pc = "loop" /\ parent'.verdict = parent.verdict
        /\ parent'.pc = IF parent'.done = M!Workers THEN "join" ELSE "loop"
    BY <1>3, Zenon DEF ReportEffect
  <2>2. parent.verdict = M!None
    BY <2>1 DEF Verdicts
  <2>3. parent'.verdict # "VALID"
    BY <2>1, <2>2 DEF M!None
  <2> QED BY <2>1, <2>2, <2>3 DEF Verdicts
<1>4. CASE TakeEffect \/ AnswerEffect \/ IngressEffect
  <2>1. parent' = parent
    BY <1>4, Zenon DEF TakeEffect, AnswerEffect, IngressEffect
  <2> QED BY <1>1, <2>1
<1>5. ASSUME NEW w \in M!Workers, StartLaneEffect(w) \/ LeaveEffect(w) PROVE Verdicts'
  <2>1. Kept
    BY <1>5, Zenon DEF StartLaneEffect, LeaveEffect, Kept
  <2> QED BY <1>1, <2>1 DEF Kept
<1>6. ASSUME NEW w \in M!Workers, NEW l \in M!LaneIds,
             FailEffect(w, l) \/ AskEffect(w, l) \/ PollEffect(w, l)
      PROVE  Verdicts'
  <2>1. Kept
    BY <1>6, Zenon DEF FailEffect, AskEffect, PollEffect
  <2> QED BY <1>1, <2>1 DEF Kept
<1> QED BY <1>2, <1>3, <1>4, <1>5, <1>6 DEF Effect

\* Everything that holds of a match.
Match == Typed /\ Divided /\ CleanIsOwn /\ ReportsAreTrue /\ Collected /\ Verdicts

LEMMA MatchBegins == ASSUME M!MatchAssumption, M!MatchInit PROVE Match
<1>1. Collected
  BY DEF M!MatchInit, Collected, Items, OncePlayed
<1>2. Verdicts
  BY DEF M!MatchInit, Verdicts, M!None
<1> QED BY <1>1, <1>2, TypedBegins, DividedBegins, OwnBegins, ReportBegins DEF Match

LEMMA MatchSteps ==
  ASSUME M!MatchAssumption, Match, M!MatchNext
  PROVE  Match'
<1>1. Typed' /\ Effect /\ Typed /\ Divided /\ CleanIsOwn /\ ReportsAreTrue /\ Collected /\ Verdicts
  BY EveryStep DEF Match
<1> QED
  BY <1>1, DividedKept, OwnKept, ReportKept, CollectedKept, VerdictsKept DEF Match

LEMMA MatchStutters == ASSUME Match, UNCHANGED M!matchVars PROVE Match'
<1>1. parent' = parent /\ worker' = worker /\ broker' = broker
  BY DEF M!matchVars
<1>2. Typed'
  BY <1>1 DEF Match, Typed, Moving
<1>3. Divided'
  <2>1. \A w \in M!Workers : Holds(worker'[w]) = Holds(worker[w]) /\ Tidy(worker'[w])
    BY <1>1, Zenon DEF Match, Divided
  <2> QED BY <1>1, <2>1, DividedSame DEF Match
<1>4. CleanIsOwn'
  <2>1. \A w \in M!Workers : WorkerIsOwn(worker'[w], broker', w)
    BY <1>1, Zenon DEF Match, CleanIsOwn
  <2> QED BY <2>1, OwnPrime
<1>5. ReportsAreTrue'
  <2>1. \A w \in M!Workers : ReportIs(parent', worker'[w], broker', w)
    BY <1>1, Zenon DEF Match, ReportsAreTrue
  <2> QED BY <2>1, ReportPrime
<1>6. Collected'
  <2>1. {Items(worker[w].records) : w \in parent.done}
          = {Items(worker'[w].records) : w \in parent'.done}
    BY <1>1, Zenon
  <2>2. Collected /\ parent'.done = parent.done /\ parent'.records = parent.records
    BY <1>1 DEF Match
  <2> HIDE <1>1
  <2> QED BY <2>1, <2>2 DEF Collected, Items, OncePlayed
<1>7. Verdicts'
  BY <1>1 DEF Match, Verdicts, M!Errors
<1> QED BY <1>2, <1>3, <1>4, <1>5, <1>6, <1>7 DEF Match

\* A verdict VALID means that everyone reported, and no one an error.
LEMMA ValidIs ==
  ASSUME M!MatchAssumption, ErrorsAreTechnical = TRUE, Match
  PROVE  M!ValidIsClean
<1> SUFFICES ASSUME parent.verdict = "VALID"
             PROVE  Len(parent.records) = NumGames /\ M!ToSet(parent.records) = M!Games \X {"ok"}
  BY DEF M!ValidIsClean
<1>1. /\ parent.done = M!Workers /\ M!Errors = {}
      /\ Typed /\ Divided /\ CleanIsOwn /\ ReportsAreTrue /\ Collected
  BY DEF Match, Verdicts
<1>2. PICK s \in Seq(M!Games \X M!Outcomes) : s = parent.records
  BY <1>1 DEF Typed, ParentState
<1>3. Len(s) \in Nat /\ DOMAIN s = 1..Len(s) /\ \A i \in DOMAIN s : s[i] \in M!Games \X M!Outcomes
  OBVIOUS
<1>4. \A i \in DOMAIN s : s[i][2] # "error"
  BY <1>1, <1>2 DEF M!Errors
<1>5. \A x : x \in Items(s) <=> \E w \in M!Workers : x \in Items(worker[w].records)
  BY <1>1, <1>2 DEF Collected
<1>6. ASSUME NEW w \in M!Workers PROVE Perfect(worker[w])
  <2>1. Clean(worker[w])
    <3>1. ASSUME NEW i \in DOMAIN worker[w].records PROVE worker[w].records[i][2] # "error"
      <4>1. worker[w].records[i] \in Items(s)
        BY <1>5 DEF Items
      <4> QED BY <1>4, <4>1 DEF Items
    <3> QED BY <3>1 DEF Clean
  <2> QED BY <1>1, <2>1 DEF CleanIsOwn, WorkerIsOwn
<1>7. ASSUME NEW i \in DOMAIN s PROVE s[i][1] \in M!Games /\ s[i] = <<s[i][1], "ok">>
  <2>1. s[i] \in Items(s)
    BY DEF Items
  <2>2. PICK w \in M!Workers : s[i] \in Items(worker[w].records)
    BY <1>5, <2>1
  <2>3. s[i][2] = "ok"
    BY <1>6, <2>2 DEF Perfect, Items
  <2> QED BY <1>3, <2>3
<1>8. ASSUME NEW g \in M!Games PROVE \E i \in DOMAIN s : s[i][1] = g
  <2>1. \A w \in M!Workers : ReportIs(parent, worker[w], broker, w)
    BY <1>1 DEF ReportsAreTrue
  <2>2. \A w \in M!Workers : /\ M!Busy(worker[w]) = {} /\ worker[w].tasks = <<>>
                             /\ parent.tasks = <<>>
    BY <1>1, <2>1 DEF ReportIs
  <2>3. 1 \in M!Workers
    BY DEF M!Workers, M!MatchAssumption
  <2>4. Items(parent.tasks) = {}
    BY <2>2, <2>3 DEF Items
  <2>5. PICK w \in M!Workers : g \in Holds(worker[w])
    BY <1>1, <2>4 DEF Divided
  <2>6. Items(worker[w].tasks) = {}
    BY <2>2 DEF Items
  <2>7. Seated(worker[w]) = {}
    BY <2>2 DEF Seated, M!Busy
  <2>8. g \in PlayedIn(worker[w].records)
    BY <2>5, <2>6, <2>7 DEF Holds
  <2>9. PICK i \in DOMAIN worker[w].records : g = worker[w].records[i][1]
    BY <2>8 DEF PlayedIn
  <2>10. worker[w].records[i] \in Items(s)
    BY <1>5, ZenonT(40) DEF Items
  <2> QED BY <2>9, <2>10 DEF Items
<1>9. M!ToSet(parent.records) = M!Games \X {"ok"}
  <2>1. \A x : x \in M!ToSet(parent.records) <=> \E i \in DOMAIN s : s[i] = x
    BY <1>2 DEF M!ToSet
  <2>2. \A i \in DOMAIN s : s[i] \in M!Games \X {"ok"}
    BY <1>7
  <2>3. ASSUME NEW x \in M!Games \X {"ok"} PROVE \E i \in DOMAIN s : s[i] = x
    <3>1. PICK g \in M!Games : x = <<g, "ok">>
      OBVIOUS
    <3>2. PICK i \in DOMAIN s : s[i][1] = g
      BY <1>8
    <3> QED BY <1>7, <3>1, <3>2
  <2> QED BY <2>1, <2>2, <2>3
<1>10. Len(s) = NumGames
  <2>1. PICK n \in Nat : n = Len(s)
    BY <1>3
  <2>2. PICK f : f = [i \in 1..n |-> s[i][1]]
    OBVIOUS
  <2>3. f \in [1..n -> M!Games] /\ \A i \in 1..n : f[i] = s[i][1] /\ i \in DOMAIN s
    BY <1>3, <1>7, <2>1, <2>2
  <2>4. \A i, j \in 1..n : f[i] = f[j] => i = j
    BY <1>1, <1>2, <2>3 DEF Collected, OncePlayed
  <2>5. \A g \in M!Games : \E i \in 1..n : f[i] = g
    BY <1>3, <1>8, <2>1, <2>3
  <2>6. f \in Injection(1..n, M!Games)
    BY <2>3, <2>4 DEF Injection, IsInjective
  <2>7. f \in Surjection(1..n, M!Games)
    BY <2>3, <2>5 DEF Surjection
  <2>8. ExistsBijection(1..n, M!Games)
    BY <2>6, <2>7 DEF ExistsBijection, Bijection
  <2>9. NumGames \in Nat /\ M!Games = 1..NumGames
    BY DEF M!MatchAssumption, M!Games
  <2>10. /\ IsFiniteSet(1..n) /\ Cardinality(1..n) = n
         /\ IsFiniteSet(1..NumGames) /\ Cardinality(1..NumGames) = NumGames
    <3>1. /\ Cardinality(1..n) = IF 1 > n THEN 0 ELSE n - 1 + 1
          /\ Cardinality(1..NumGames) = IF 1 > NumGames THEN 0 ELSE NumGames - 1 + 1
          /\ IsFiniteSet(1..n) /\ IsFiniteSet(1..NumGames)
      BY <2>9, FS_Interval
    <3> QED BY <2>9, <3>1
  <2>11. Cardinality(M!Games) = Cardinality(1..n)
    BY <2>8, <2>10, FS_Bijection
  <2> QED BY <2>1, <2>9, <2>10, <2>11
<1> QED BY <1>2, <1>9, <1>10

LEMMA TypedIs == ASSUME M!MatchAssumption, Match PROVE M!MatchTypeOK
  BY DEF Match, Typed, ParentState, WorkerState, LaneState, M!MatchTypeOK

\* ArenaEngine: the parent, the workers, their lanes and the queues keep their types.
THEOREM MatchesAreTyped == ASSUME M!MatchAssumption PROVE M!MatchSpec => []M!MatchTypeOK
<1>1. M!MatchInit => Match
  BY MatchBegins
<1>2. Match /\ [M!MatchNext]_(M!matchVars) => Match'
  BY MatchSteps, MatchStutters
<1>3. Match => M!MatchTypeOK
  BY TypedIs
<1> QED BY <1>1, <1>2, <1>3, PTL DEF M!MatchSpec

\* ArenaEngine: where search errors are technical, a match is VALID only with one result
\* of each of its games, each decided by evaluations of the game's own positions alone.
THEOREM ValidMatchesAreClean ==
  ASSUME M!MatchAssumption, ErrorsAreTechnical = TRUE
  PROVE  M!MatchSpec => []M!ValidIsClean
<1>1. M!MatchInit => Match
  BY MatchBegins
<1>2. Match /\ [M!MatchNext]_(M!matchVars) => Match'
  BY MatchSteps, MatchStutters
<1>3. Match => M!ValidIsClean
  BY ValidIs
<1> QED BY <1>1, <1>2, <1>3, PTL DEF M!MatchSpec

================================================================================
