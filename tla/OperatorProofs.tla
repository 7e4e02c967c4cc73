----------------------------- MODULE OperatorProofs -----------------------------
(***************************************************************************)
(* What an operator launches, down to the games.  The tuner measures each  *)
(* mode on generations that ran with it, overlapping launches of a job run *)
(* the one plan that is registered, and the self-play engine of a          *)
(* generation loses no game and mixes up no evaluation: for any number of  *)
(* modes, commands, launches, games, workers, contexts and faults.         *)
(***************************************************************************)
EXTENDS PerformanceTuning, Sequences, FiniteSetTheorems, SequenceTheorems, WellFoundedInduction,
        TLAPS

CONSTANTS
  Asks, NumLaunches,                                                    \* of OperatorJob
  NumGames, NumWorkers, Contexts, Total, BatchCap, Evals, EngineFaults  \* of SelfPlayEngine

VARIABLES launch, world, parent, worker, broker

Job == INSTANCE OperatorJob
Eng == INSTANCE SelfPlayEngine WITH MaxFaults <- EngineFaults

-----------------------------------------------------------------------------
(* PerformanceTuning: the tuner and its commands.                          *)

\* What the argument needs of the types: the index of a state is the number of
\* the last generation, and a fallback leads to the index after it.
Progress(s) ==
  /\ s \in [{"status", "index", "resume", "at", "consumed", "seen", "failed", "selected"}
              -> {s[x] : x \in DOMAIN s}]
  /\ s.index \in 0..NumModes + 1 /\ s.at = s.index
  /\ s.resume = 0 \/ (s.resume = s.index + 1 /\ s.index <= NumModes)

\* A stable observation is of the mode that its generation was committed with.
Sound(s, committed) ==
  \A o \in s.seen : o.stable =>
    o.generation \in Generations /\ committed[o.generation] = o.mode /\ o.mode # None

Commits ==
  /\ lineage \in [{"committed", "stop", "launched", "owner"} -> {lineage[x] : x \in DOMAIN lineage}]
  /\ lineage.committed \in [Generations -> Modes \cup {None}]

Memory ==
  /\ command \in [Commands -> [pc : {"idle", "loaded", "choose", "invoke", "ended"},
                               state : {command[c].state : c \in Commands}]]
  /\ \A c \in Commands :
       command[c].pc = "invoke" =>
         Pending(command[c].state) \/ command[c].state.index <= NumModes

Measured ==
  /\ Progress(disk) /\ Sound(disk, lineage.committed)
  /\ \A c \in Commands :
       Progress(command[c].state) /\ Sound(command[c].state, lineage.committed)

TInv == Commits /\ Memory /\ Measured

-----------------------------------------------------------------------------
LEMMA InitHolds == ASSUME TuningAssumption, TuningInit PROVE TInv
<1>1. Progress(Fresh) /\ Sound(Fresh, lineage.committed)
  BY DEF TuningAssumption, Fresh, Progress, Sound
<1>2. /\ disk = Fresh /\ command = [c \in Commands |-> [pc |-> "idle", state |-> Fresh]]
      /\ lineage = [committed |-> [g \in Generations |-> None], stop |-> FALSE,
                    launched |-> {}, owner |-> Nobody]
  BY DEF TuningInit
<1>3. Commits BY <1>2 DEF Commits
<1>4. Memory BY <1>2 DEF Memory
<1>5. Measured BY <1>1, <1>2 DEF Measured
<1> QED BY <1>3, <1>4, <1>5 DEF TInv

\* Commits are only added, so that what was sound stays so.
Grows(old, new) == \A g \in Generations : old[g] # None => new[g] = old[g]

LEMMA StaysSound ==
  ASSUME NEW s, NEW old, NEW new, Sound(s, old), Grows(old, new)
  PROVE  Sound(s, new)
BY DEF Sound, Grows

\* A command goes on with a state that is sound.
LEMMA SavesKeeps ==
  ASSUME TInv, NEW c \in Commands, NEW pc \in {"idle", "loaded", "choose", "invoke", "ended"},
         NEW s, command' = [command EXCEPT ![c] = [pc |-> pc, state |-> s]],
         disk' \in {disk, s}, Commits', Grows(lineage.committed, lineage'.committed),
         Progress(s), Sound(s, lineage'.committed),
         pc = "invoke" => Pending(s) \/ s.index <= NumModes
  PROVE  TInv'
<1>1. \A d \in Commands : command'[d] = IF d = c THEN [pc |-> pc, state |-> s] ELSE command[d]
  BY DEF TInv, Memory
<1>2. Memory'
  <2>1. command' \in [Commands -> [pc : {"idle", "loaded", "choose", "invoke", "ended"},
                                   state : {command'[d].state : d \in Commands}]]
    BY <1>1 DEF TInv, Memory
  <2>2. ASSUME NEW d \in Commands, command'[d].pc = "invoke"
        PROVE  Pending(command'[d].state) \/ command'[d].state.index <= NumModes
    BY <1>1, <2>2 DEF TInv, Memory
  <2> QED BY <2>1, <2>2 DEF Memory, Pending
<1>3. Progress(disk') /\ Sound(disk', lineage'.committed)
  BY StaysSound DEF TInv, Measured
<1>4. ASSUME NEW d \in Commands
      PROVE  Progress(command'[d].state) /\ Sound(command'[d].state, lineage'.committed)
  <2>1. CASE d = c BY <1>1, <2>1
  <2>2. CASE d # c BY <1>1, <2>2, StaysSound DEF TInv, Measured
  <2> QED BY <2>1, <2>2
<1>5. Measured' BY <1>3, <1>4 DEF Measured, Progress, Sound
<1> QED BY <1>2, <1>5 DEF TInv

\* A command goes on, and leaves the states alone.
LEMMA MovesKeeps ==
  ASSUME TInv, NEW c \in Commands, NEW pc \in {"choose", "ended"},
         command' = [command EXCEPT ![c].pc = pc], disk' = disk, Commits',
         lineage'.committed = lineage.committed
  PROVE  TInv'
<1>1. command' = [command EXCEPT ![c] = [pc |-> pc, state |-> command[c].state]]
  <2> DEFINE States1 == {command[d].state : d \in Commands}
  <2>1. command[c] \in [pc : {"idle", "loaded", "choose", "invoke", "ended"}, state : States1]
    BY DEF TInv, Memory
  <2> HIDE DEF States1
  <2>2. [command[c] EXCEPT !.pc = pc] = [pc |-> pc, state |-> command[c].state] BY <2>1
  <2> QED BY <2>2
<1>2. Grows(lineage.committed, lineage'.committed) BY DEF Grows
<1>3. Progress(command[c].state) /\ Sound(command[c].state, lineage'.committed)
  BY DEF TInv, Measured
<1> DEFINE s == command[c].state
<1> HIDE DEF s
<1> QED BY <1>1, <1>2, <1>3, SavesKeeps DEF s

-----------------------------------------------------------------------------
LEMMA LoadKeeps == ASSUME TInv, NEW c \in Commands, Load(c) PROVE TInv'
<1>1. PICK pc \in {"ended", "loaded"} :
        command' = [command EXCEPT ![c] = [pc |-> pc, state |-> disk]]
  BY DEF Load
<1>2. disk' = disk /\ lineage' = lineage BY DEF Load
<1>3. Commits' /\ Grows(lineage.committed, lineage'.committed)
  BY <1>2 DEF TInv, Commits, Grows
<1>4. Progress(disk) /\ Sound(disk, lineage'.committed) BY <1>2 DEF TInv, Measured
<1> QED BY <1>1, <1>2, <1>3, <1>4, SavesKeeps

LEMMA LockKeeps == ASSUME TInv, NEW c \in Commands, Lock(c) PROVE TInv'
<1>1. PICK pc \in {"choose", "ended"} : command' = [command EXCEPT ![c].pc = pc]
  BY DEF Lock
<1>2. disk' = disk /\ (lineage' = lineage \/ lineage' = [lineage EXCEPT !.owner = c])
  BY DEF Lock
<1>3. Commits' /\ lineage'.committed = lineage.committed BY <1>2 DEF TInv, Commits
<1> QED BY <1>1, <1>2, <1>3, MovesKeeps

\* A new verdict leaves index, generation and observations alone.
LEMMA VerdictIsProgress ==
  ASSUME NEW s, NEW t, NEW committed, Progress(s), Sound(s, committed),
         \E st, sel : t = [s EXCEPT !.status = st, !.selected = sel]
  PROVE  Progress(t) /\ Sound(t, committed)
BY DEF Progress, Sound

LEMMA ChooseKeeps == ASSUME TInv, NEW c \in Commands, Choose(c) PROVE TInv'
<1> DEFINE s == command[c].state
<1>1. Progress(s) /\ Sound(s, lineage.committed) BY DEF TInv, Measured
<1>2. ASSUME NEW t, Ends(c, t), \E st, sel : t = [s EXCEPT !.status = st, !.selected = sel]
      PROVE  TInv'
  <2>1. /\ command' = [command EXCEPT ![c] = [pc |-> "ended", state |-> t]] /\ disk' = t
        /\ lineage' = [lineage EXCEPT !.owner = Nobody]
    BY <1>2 DEF Ends, Saves
  <2>2. Commits' /\ lineage'.committed = lineage.committed BY <2>1 DEF TInv, Commits
  <2>3. Progress(t) /\ Sound(t, lineage.committed)
    <3> HIDE DEF s
    <3> QED BY <1>1, <1>2, VerdictIsProgress
  <2>4. Grows(lineage.committed, lineage'.committed) BY <2>2 DEF Grows
  <2> QED BY <2>1, <2>2, <2>3, <2>4, SavesKeeps
<1>3. CASE /\ Pending(s) \/ s.index <= NumModes
           /\ Saves(c, "invoke", s) /\ UNCHANGED lineage
  <2>1. command' = [command EXCEPT ![c] = [pc |-> "invoke", state |-> s]] /\ disk' = s
        /\ lineage' = lineage
    BY <1>3 DEF Saves
  <2>2. Commits' /\ Grows(lineage.committed, lineage'.committed) BY <2>1 DEF TInv, Commits, Grows
  <2> HIDE DEF s
  <2> QED BY <1>1, <1>3, <2>1, <2>2, SavesKeeps
<1>4. ASSUME NEW st, Ends(c, [s EXCEPT !.status = st]) PROVE TInv'
  <2>1. [s EXCEPT !.status = st] = [s EXCEPT !.status = st, !.selected = s.selected]
    BY <1>1 DEF Progress
  <2> DEFINE t == [s EXCEPT !.status = st]
  <2>2. \E st1, sel : t = [s EXCEPT !.status = st1, !.selected = sel] BY <2>1
  <2> HIDE DEF t
  <2> QED BY <1>2, <1>4, <2>2 DEF t
<1>5. ASSUME NEW st, NEW sel, Ends(c, [s EXCEPT !.selected = sel, !.status = st]) PROVE TInv'
  <2>1. [s EXCEPT !.selected = sel, !.status = st] = [s EXCEPT !.status = st, !.selected = sel]
    OBVIOUS
  <2> DEFINE t == [s EXCEPT !.selected = sel, !.status = st]
  <2>2. \E st1, sel1 : t = [s EXCEPT !.status = st1, !.selected = sel1] BY <2>1
  <2> HIDE DEF t
  <2> QED BY <1>2, <1>5, <2>2 DEF t
<1>6. \/ \E st : Ends(c, [s EXCEPT !.status = st])
      \/ \E st, sel : Ends(c, [s EXCEPT !.selected = sel, !.status = st])
      \/ /\ Pending(s) \/ s.index <= NumModes
         /\ Saves(c, "invoke", s) /\ UNCHANGED lineage
  BY DEF Choose
<1> QED BY <1>3, <1>4, <1>5, <1>6

-----------------------------------------------------------------------------
(* The generation of an action.                                            *)

\* An observation of the next generation, which is one of the owner's.
LEMMA ObservedIsProgress ==
  ASSUME TuningAssumption, NEW s, NEW committed, NEW stable \in BOOLEAN,
         Progress(s), Sound(s, committed), Pending(s) \/ s.index <= NumModes,
         stable => committed[Next1(s)] = Due(s)
  PROVE  /\ Next1(s) \in Generations
         /\ Progress(Observed(s, Next1(s), stable))
         /\ Sound(Observed(s, Next1(s), stable), committed)
<1> DEFINE t == Observed(s, Next1(s), stable)
           o == [generation |-> Next1(s), mode |-> Due(s), stable |-> stable]
<1>1. NumModes \in Nat BY DEF TuningAssumption
<1>2. s.index \in 0..NumModes /\ (s.resume = 0 \/ s.resume = s.index + 1) /\ s.at = s.index
  BY <1>1 DEF Progress, Pending
<1>3. Next1(s) \in Generations
  <2>1. s.index + 1 >= 1 /\ s.index + 1 <= 2 * NumModes + 1 BY <1>1, <1>2
  <2> QED BY <1>1, <1>2, <2>1 DEF Next1, Generations
<1>4. Due(s) # None BY <1>1, <1>2 DEF Due, None, Baseline
<1>5. /\ t.index = s.index + 1 /\ t.at = s.index + 1 /\ t.resume = 0
      /\ t.seen = s.seen \cup {o}
  BY <1>2 DEF Observed, Progress, Pending, Next1
<1>6. DOMAIN t = {"status", "index", "resume", "at", "consumed", "seen", "failed", "selected"}
      /\ t = [x \in DOMAIN t |-> t[x]]
  BY DEF Observed, Progress
<1> HIDE DEF t
<1>7. Progress(t) BY <1>1, <1>2, <1>5, <1>6 DEF Progress
<1>8. Sound(t, committed)
  <2>1. Sound(s, committed) OBVIOUS
  <2>2. o.generation = Next1(s) /\ o.mode = Due(s) /\ o.stable = stable OBVIOUS
  <2> HIDE DEF o
  <2> QED BY <1>3, <1>4, <1>5, <2>1, <2>2 DEF Sound
<1> QED BY <1>3, <1>7, <1>8 DEF t

\* A command goes on after an observation.
LEMMA ObservesKeeps ==
  ASSUME TuningAssumption, TInv, NEW c \in Commands, NEW stable \in BOOLEAN,
         command[c].pc = "invoke",
         Saves(c, "choose", Observed(command[c].state, Next1(command[c].state), stable)),
         Commits', Grows(lineage.committed, lineage'.committed),
         stable => lineage'.committed[Next1(command[c].state)] = Due(command[c].state)
  PROVE  TInv'
<1> DEFINE s == command[c].state
           t == Observed(s, Next1(s), stable)
<1>1. Progress(s) /\ Sound(s, lineage.committed) /\ (Pending(s) \/ s.index <= NumModes)
  BY DEF TInv, Measured, Memory
<1>2. Sound(s, lineage'.committed) BY <1>1, StaysSound
<1>3. command' = [command EXCEPT ![c] = [pc |-> "choose", state |-> t]] /\ disk' = t
  BY DEF Saves
<1> HIDE DEF s
<1>4. Progress(t) /\ Sound(t, lineage'.committed)
  BY <1>1, <1>2, ObservedIsProgress DEF s
<1> HIDE DEF t
<1> QED BY <1>3, <1>4, SavesKeeps

LEMMA ReuseKeeps == ASSUME TuningAssumption, TInv, NEW c \in Commands, Reuse(c) PROVE TInv'
<1> DEFINE s == command[c].state
<1>1. command[c].pc = "invoke" /\ lineage' = lineage BY DEF Reuse
<1>2. PICK good \in BOOLEAN :
        Saves(c, "choose", Observed(s, Next1(s), good /\ Matches(Next1(s), Due(s))))
  BY DEF Reuse
<1> DEFINE stable == good /\ Matches(Next1(s), Due(s))
<1>3. stable \in BOOLEAN /\ (stable => lineage'.committed[Next1(s)] = Due(s))
  BY <1>1 DEF Matches
<1>4. Commits' /\ Grows(lineage.committed, lineage'.committed)
  BY <1>1 DEF TInv, Commits, Grows
<1>5. Saves(c, "choose", Observed(s, Next1(s), stable)) BY <1>2
<1> HIDE DEF stable
<1> QED BY <1>1, <1>3, <1>4, <1>5, ObservesKeeps

LEMMA TrainsKeeps == ASSUME TuningAssumption, TInv, NEW c \in Commands, Trains(c) PROVE TInv'
<1> DEFINE s == command[c].state
           g == Next1(s)
<1>1. /\ command[c].pc = "invoke" /\ lineage.committed[g] = None
      /\ lineage' = [lineage EXCEPT !.committed[g] = Due(s),
                                    !.launched = @ \cup {<<g, Due(s)>>}]
  BY DEF Trains
<1>2. PICK good \in BOOLEAN : Saves(c, "choose", Observed(s, g, good)) BY DEF Trains
<1>3. Progress(s) /\ Sound(s, lineage.committed) /\ (Pending(s) \/ s.index <= NumModes)
  BY <1>1 DEF TInv, Measured, Memory
<1>4. g \in Generations /\ Due(s) \in Modes
  <2>1. NumModes \in Nat BY DEF TuningAssumption
  <2>2. s.index \in 0..NumModes \/ Pending(s) BY <1>3, <2>1 DEF Progress
  <2>3. Due(s) \in Modes BY <2>1, <2>2 DEF Due, Modes, Baseline
  <2>4. g \in Generations
    <3> HIDE DEF s
    <3>1. FALSE \in BOOLEAN OBVIOUS
    <3> QED BY <1>3, <3>1, ObservedIsProgress
  <2> QED BY <2>3, <2>4
<1>5. lineage'.committed = [lineage.committed EXCEPT ![g] = Due(s)]
  BY <1>1 DEF TInv, Commits
<1>6. Commits'
  <2>1. lineage'.committed \in [Generations -> Modes \cup {None}]
    BY <1>4, <1>5 DEF TInv, Commits
  <2>2. lineage' \in [{"committed", "stop", "launched", "owner"}
                        -> {lineage'[x] : x \in DOMAIN lineage'}]
    BY <1>1 DEF TInv, Commits
  <2> QED BY <2>1, <2>2 DEF Commits
<1>7. Grows(lineage.committed, lineage'.committed)
  BY <1>1, <1>4, <1>5 DEF Grows, TInv, Commits
<1>8. lineage'.committed[g] = Due(s) BY <1>4, <1>5 DEF TInv, Commits
<1> QED BY <1>1, <1>2, <1>6, <1>7, <1>8, ObservesKeeps

-----------------------------------------------------------------------------
(* Failures.                                                               *)

\* A failure leaves what was measured alone, and the fallback it may leave is
\* for the index that failed.
LEMMA FailureIsProgress ==
  ASSUME TuningAssumption, NEW s, NEW committed, NEW technical \in BOOLEAN,
         Progress(s), Sound(s, committed), Pending(s) \/ s.index <= NumModes
  PROVE  LET t == AfterFailure(s, technical) IN
         Progress(t) /\ Sound(t, committed)
<1> DEFINE t == AfterFailure(s, technical)
<1>1. NumModes \in Nat BY DEF TuningAssumption
<1>2. s.index \in 0..NumModes /\ (s.resume = 0 \/ s.resume = s.index + 1) /\ s.at = s.index
  BY <1>1 DEF Progress, Pending
<1>3. PICK consumed, failed, resume, status :
        /\ t = [s EXCEPT !.consumed = consumed, !.failed = failed,
                         !.resume = resume, !.status = status]
        /\ resume \in {s.resume, s.index + 1}
  <2> DEFINE u == [s EXCEPT !.consumed = @ + 1, !.failed = @ \cup {Due(s)}]
  <2>1. t = [u EXCEPT !.resume = s.index + 1] \/ t = [u EXCEPT !.status = "FAILED"]
    BY DEF AfterFailure
  <2>2. CASE t = [u EXCEPT !.resume = s.index + 1]
    <3>1. t = [s EXCEPT !.consumed = @ + 1, !.failed = @ \cup {Due(s)},
                        !.resume = s.index + 1, !.status = s.status]
      BY <2>2 DEF Progress
    <3> QED BY <3>1
  <2>3. CASE t = [u EXCEPT !.status = "FAILED"]
    <3>1. t = [s EXCEPT !.consumed = @ + 1, !.failed = @ \cup {Due(s)},
                        !.resume = s.resume, !.status = "FAILED"]
      BY <2>3 DEF Progress
    <3> QED BY <3>1
  <2> QED BY <2>1, <2>2, <2>3
<1>4. /\ t.index = s.index /\ t.at = s.at /\ t.seen = s.seen
      /\ t.resume \in {s.resume, s.index + 1}
      /\ DOMAIN t = {"status", "index", "resume", "at", "consumed", "seen", "failed", "selected"}
      /\ t = [x \in DOMAIN t |-> t[x]]
  BY <1>3 DEF Progress
<1> HIDE DEF t
<1>5. Progress(t) BY <1>1, <1>2, <1>4 DEF Progress
<1>6. Sound(t, committed) BY <1>4 DEF Sound
<1> QED BY <1>5, <1>6 DEF t

\* A command goes on, or ends, after a failure; nothing is committed.
LEMMA RejectsKeeps ==
  ASSUME TuningAssumption, TInv, NEW c \in Commands, NEW technical \in BOOLEAN,
         command[c].pc = "invoke", Rejects(c, technical), Commits',
         lineage'.committed = lineage.committed
  PROVE  TInv'
<1> DEFINE s == command[c].state
           t == AfterFailure(s, technical)
<1>1. Progress(s) /\ Sound(s, lineage.committed) /\ (Pending(s) \/ s.index <= NumModes)
  BY DEF TInv, Measured, Memory
<1>2. PICK pc \in {"choose", "ended"} :
        command' = [command EXCEPT ![c] = [pc |-> pc, state |-> t]] /\ disk' = t
  BY DEF Rejects, Saves
<1>3. Grows(lineage.committed, lineage'.committed) BY DEF Grows
<1> HIDE DEF s
<1>4. Progress(t) /\ Sound(t, lineage'.committed) BY <1>1, FailureIsProgress
<1> HIDE DEF t
<1> QED BY <1>2, <1>3, <1>4, SavesKeeps

LEMMA TrainFailsKeeps ==
  ASSUME TuningAssumption, TInv, NEW c \in Commands, TrainFails(c) PROVE TInv'
<1>1. command[c].pc = "invoke" BY DEF TrainFails
<1>2. PICK how \in {"gave up", "transient", "unknown"} : Rejects(c, how # "unknown")
  BY DEF TrainFails
<1>3. \E launched, stop, owner :
        lineage' = [lineage EXCEPT !.launched = launched, !.stop = stop, !.owner = owner]
  <2> DEFINE s == command[c].state
  <2>1. PICK why \in {"gave up", "transient", "unknown"} :
          lineage' = [lineage EXCEPT !.launched = @ \cup {<<Next1(s), Due(s)>>},
                        !.stop = @ \/ why = "gave up", !.owner = Released(c)]
    BY Zenon DEF TrainFails
  <2> DEFINE launched == lineage.launched \cup {<<Next1(s), Due(s)>>}
             stop == lineage.stop \/ why = "gave up"
             owner == Released(c)
  <2>2. lineage' = [lineage EXCEPT !.launched = launched, !.stop = stop, !.owner = owner]
    BY <2>1, Zenon
  <2> HIDE DEF launched, stop, owner
  <2> QED BY <2>2
<1>4. Commits' /\ lineage'.committed = lineage.committed BY <1>3 DEF TInv, Commits
<1> DEFINE technical == how # "unknown"
<1>5. technical \in BOOLEAN /\ Rejects(c, technical) BY <1>2
<1> HIDE DEF technical
<1> QED BY <1>1, <1>4, <1>5, RejectsKeeps

LEMMA StoppedKeeps ==
  ASSUME TuningAssumption, TInv, NEW c \in Commands, Stopped(c) PROVE TInv'
<1>1. command[c].pc = "invoke" /\ Rejects(c, TRUE) BY DEF Stopped
<1>2. \E owner : lineage' = [lineage EXCEPT !.owner = owner] BY DEF Stopped
<1>3. Commits' /\ lineage'.committed = lineage.committed BY <1>2 DEF TInv, Commits
<1> QED BY <1>1, <1>3, RejectsKeeps

\* A child that commits after the crash fills a generation that was free.
LEMMA CrashKeeps == ASSUME TuningAssumption, TInv, NEW c \in Commands, Crash(c) PROVE TInv'
<1> DEFINE s == command[c].state
           g == Next1(s)
<1>1. /\ command' = [command EXCEPT ![c] = [pc |-> "idle", state |-> Fresh]]
      /\ disk' = disk
  BY DEF Crash
<1>2. PICK commits \in BOOLEAN :
        /\ commits => command[c].pc = "invoke" /\ lineage.committed[g] = None
        /\ lineage' = [lineage EXCEPT !.owner = Nobody,
             !.committed = IF commits THEN [@ EXCEPT ![g] = Due(s)] ELSE @,
             !.launched = IF commits THEN @ \cup {<<g, Due(s)>>} ELSE @]
  BY DEF Crash
<1>3. /\ DOMAIN lineage' = {"committed", "stop", "launched", "owner"}
      /\ lineage' = [x \in DOMAIN lineage' |-> lineage'[x]]
      /\ lineage'.committed = IF commits THEN [lineage.committed EXCEPT ![g] = Due(s)]
                              ELSE lineage.committed
  BY <1>2 DEF TInv, Commits
<1>4. Progress(Fresh) /\ Sound(Fresh, lineage'.committed)
  BY DEF TuningAssumption, Fresh, Progress, Sound
<1>5. /\ lineage'.committed \in [Generations -> Modes \cup {None}]
      /\ Grows(lineage.committed, lineage'.committed)
  <2>1. CASE ~commits BY <1>3, <2>1 DEF TInv, Commits, Grows
  <2>2. CASE commits
    <3>1. Progress(s) /\ Sound(s, lineage.committed) /\ (Pending(s) \/ s.index <= NumModes)
      BY <1>2, <2>2 DEF TInv, Measured, Memory
    <3>2. NumModes \in Nat BY DEF TuningAssumption
    <3>3. s.index \in 0..NumModes \/ Pending(s) BY <3>1, <3>2 DEF Progress
    <3>4. Due(s) \in Modes BY <3>2, <3>3 DEF Due, Modes, Baseline
    <3> QED BY <1>2, <1>3, <2>2, <3>4 DEF TInv, Commits, Grows
  <2> QED BY <2>1, <2>2
<1>6. Commits' BY <1>3, <1>5 DEF Commits
<1> QED BY <1>1, <1>4, <1>5, <1>6, SavesKeeps

LEMMA TuningStutterKeeps == ASSUME TInv, UNCHANGED tuningVars PROVE TInv'
<1>1. disk' = disk /\ lineage' = lineage /\ command' = command BY DEF tuningVars
<1>2. Commits' BY <1>1 DEF TInv, Commits
<1>3. Memory' BY <1>1 DEF TInv, Memory, Pending
<1>4. Measured' BY <1>1 DEF TInv, Measured, Progress, Sound
<1> QED BY <1>2, <1>3, <1>4 DEF TInv

LEMMA TuningStepKeeps == ASSUME TuningAssumption, TInv, TuningNext PROVE TInv'
<1>1. PICK c \in Commands : CommandStep(c) \/ TrainFails(c) \/ Crash(c) BY DEF TuningNext
<1>2. CASE Load(c) BY <1>2, LoadKeeps
<1>3. CASE Lock(c) BY <1>3, LockKeeps
<1>4. CASE Choose(c) BY <1>4, ChooseKeeps
<1>5. CASE Reuse(c) BY <1>5, ReuseKeeps
<1>6. CASE Trains(c) BY <1>6, TrainsKeeps
<1>7. CASE Stopped(c) BY <1>7, StoppedKeeps
<1>8. CASE TrainFails(c) BY <1>8, TrainFailsKeeps
<1>9. CASE Crash(c) BY <1>9, CrashKeeps
<1> QED BY <1>1, <1>2, <1>3, <1>4, <1>5, <1>6, <1>7, <1>8, <1>9 DEF CommandStep

LEMMA TuningInvariance == ASSUME TuningAssumption PROVE TuningSpec => []TInv
<1>1. TuningInit => TInv BY InitHolds
<1>2. TInv /\ [TuningNext]_tuningVars => TInv' BY TuningStepKeeps, TuningStutterKeeps
<1> QED BY <1>1, <1>2, PTL DEF TuningSpec

\* A measurement that counts is of a generation that ran with that mode, also
\* when another command, or the one before a crash, had committed it
\* (assess_observation compares the executed values with the mode).
THEOREM MeasurementsAreSound ==
  ASSUME TuningAssumption PROVE TuningSpec => []MeasuresItsOwn
<1>1. TInv => MeasuresItsOwn BY DEF TInv, Measured, Sound, MeasuresItsOwn
<1> QED BY <1>1, TuningInvariance, PTL

-----------------------------------------------------------------------------
(* OperatorJob: launches of one job that overlap, and their controllers.   *)

\* The lock of the registration is held in these places, a launch is over in
\* those, and a controller has, or had, the workflow in the last.
JobHolding == {"compare", "ensure", "adding", "params", "plan", "pin", "guide", "lease",
               "spawn", "wait", "kill"}
JobPlaces == Job!Outcomes \cup JobHolding \cup {"idle", "check", "lock"}
JobOwning == {"leasing", "running", "closing"}
JobServed == JobOwning \cup {"flushing", "done"}
JobSaid == JobServed \cup {"ready", "away"}

JobPlans == [ask : Asks, ver : {1, 2}]
JobSomePlan == JobPlans \cup {Job!NoPlan}
JobLaunches == [pc : JobPlaces, plan : JobSomePlan, commit : 0..2, fresh : BOOLEAN]
JobControllers == [pc : JobSaid \cup {"none", "dead", "boot", "permitted"}, plan : JobSomePlan,
                   commit : 0..2, sent : BOOLEAN]

JobDisks == [params : Asks \cup {"none"}, plan : JobSomePlan, pin : 0..2, guide : BOOLEAN,
             lease : 0..NumLaunches]
JobTreeStates == {"absent", "adding", "partial", "missing", "ready"}
JobWorlds == [ctrl : [Job!Launches -> JobControllers], reg : 0..NumLaunches,
              own : 0..NumLaunches, tree : [Job!Commits -> JobTreeStates],
              work : Job!Commits, head : Job!Commits, renews : BOOLEAN,
              reused : SUBSET Job!Launches, late : BOOLEAN, faults : 0..MaxFaults]

JobTyped ==
  disk \in JobDisks /\ launch \in [Job!Launches -> JobLaunches] /\ world \in JobWorlds

\* What a launch found and wrote while it held the lock is what is registered.
JobRegisteredAt(l) ==
  /\ launch[l].pc # "idle" => launch[l].plan \in JobPlans
  /\ launch[l].pc = "idle" => launch[l].plan = Job!NoPlan
  /\ world.work = 1 => launch[l].plan.ver \in {0, 1}
  /\ launch[l].pc \in JobHolding => world.reg = l
  /\ launch[l].pc \in JobHolding \ {"compare"} =>
       /\ disk.params \in {"none", launch[l].plan.ask} /\ disk.plan \in {Job!NoPlan, launch[l].plan}
       /\ launch[l].commit \in Job!Commits /\ disk.pin \in {0, launch[l].commit}
  /\ launch[l].pc \in {"plan", "pin", "guide", "lease", "spawn", "wait", "kill"} =>
       disk.params = launch[l].plan.ask
  /\ launch[l].pc \in {"pin", "guide", "lease", "spawn", "wait", "kill", "started"} =>
       disk.plan = launch[l].plan
  /\ launch[l].pc \in {"guide", "lease", "spawn", "wait", "kill"} => disk.pin = launch[l].commit
  /\ launch[l].pc = "different" =>
       disk.params # "none" /\ (world.work = 1 => launch[l].plan.ask # disk.params)

\* A controller belongs to a launch that got as far as to start it, and what it
\* runs is registered.
JobControlledAt(c) ==
  /\ world.ctrl[c].pc = "none" => world.ctrl[c] = Job!NoController
  /\ world.ctrl[c].pc # "none" =>
       /\ launch[c].pc \in {"wait", "kill", "started", "failed", "crashed"}
       /\ disk.plan # Job!NoPlan /\ disk.pin # 0 /\ world.ctrl[c].commit = disk.pin
  /\ launch[c].pc \in {"wait", "kill", "started"} => world.ctrl[c].pc # "none"
  /\ world.ctrl[c].plan \in {Job!NoPlan, disk.plan}
  /\ world.ctrl[c].pc \in JobSaid => world.ctrl[c].sent
  /\ world.ctrl[c].pc \in {"boot", "permitted"} => ~world.ctrl[c].sent
  /\ launch[c].pc = "started" => world.ctrl[c].sent
  /\ launch[c].pc = "failed" => ~Job!Running(c)

\* Who is in the workflow owns its lock, and the lease names it.
JobOwnedAt(c) ==
  /\ world.own = c <=> world.ctrl[c].pc \in JobOwning
  /\ world.ctrl[c].pc = "running" => world.late \/ disk.lease = c
  /\ disk.lease = c => world.ctrl[c].pc # "none"

\* As long as nothing broke: no controller is dead, nothing that was added to the
\* worktrees is gone, and who left the job left it to one that has it.
JobFaultlessAt(l) ==
  world.faults = 0 =>
    /\ launch[l].pc \notin {"failed", "runtime", "crashed", "kill"}
    /\ launch[l].pc = "adding" => world.tree[launch[l].commit] \in {"adding", "ready"}
    /\ launch[l].pc \in {"params", "plan", "pin", "guide", "lease", "spawn"} =>
         world.tree[launch[l].commit] = "ready"
    /\ launch[l].pc = "live" => \E m \in Job!Launches \ {l} : launch[m].pc = "started"
    /\ world.ctrl[l].pc # "dead"
    /\ world.ctrl[l].pc # "none" => world.tree[world.ctrl[l].commit] = "ready"
    /\ world.ctrl[l].pc = "away" => \E m \in Job!Launches : world.ctrl[m].pc \in JobServed

JobTrees ==
  world.faults = 0 =>
    /\ world.reused = {}
    /\ \A k \in Job!Commits :
         /\ world.tree[k] \in {"absent", "adding", "ready"}
         /\ world.tree[k] = "adding" =>
              \E l \in Job!Launches : launch[l].pc = "adding" /\ launch[l].commit = k

JobPlanned ==
  /\ disk.plan # Job!NoPlan => disk.plan.ask = disk.params
  /\ world.work = 1 => disk.plan.ver \in {0, 1}

JobInv ==
  /\ JobTyped /\ JobPlanned /\ JobTrees
  /\ \A l \in Job!Launches :
       JobRegisteredAt(l) /\ JobControlledAt(l) /\ JobOwnedAt(l) /\ JobFaultlessAt(l)

\* A step of one launch and its controller, as it bears on the others: the
\* registration is written only by who holds its lock, and the workflow's lock
\* is given up only by who has it.
JobActor(l) ==
  /\ \A m \in Job!Launches \ {l} :
       launch'[m] = launch[m] /\ world'.ctrl[m] = world.ctrl[m] /\ (world.reg = m => world'.reg = m)
  /\ launch'[l] = launch[l] \/ launch[l].pc # "started"
  /\ launch'[l] # launch[l] /\ launch[l].pc = "adding" /\ world'.faults = 0 =>
       world.tree[launch[l].commit] # "adding"
  /\ disk'.params = disk.params \/ (disk.params = "none" /\ world.reg = l)
  /\ disk'.plan = disk.plan \/ (disk.plan = Job!NoPlan /\ world.reg = l)
  /\ disk'.pin = disk.pin \/ (disk.pin = 0 /\ world.reg = l)
  /\ world'.work = world.work /\ world'.reused = world.reused
  /\ \A k \in Job!Commits :
       \/ world'.tree[k] = world.tree[k]
       \/ /\ world.tree[k] = "absent" /\ world'.tree[k] = "adding"
          /\ launch'[l].pc = "adding" /\ launch'[l].commit = k
  /\ world'.faults = 0 => world.faults = 0
  /\ world'.own = world.own \/ (world.own \in {0, l} /\ world'.own \in {0, l})
  /\ world.late => world'.late
  /\ disk'.lease = disk.lease \/ (disk'.lease \in {0, l} /\ (world'.late \/ world.own = l))
  /\ world'.faults = 0 /\ world.ctrl[l].pc \in JobServed => world'.ctrl[l].pc \in JobServed

LEMMA JobInitHolds == ASSUME Job!JobAssumption, Job!JobInit PROVE JobInv
<1>1. PICK b \in BOOLEAN :
        world = [ctrl |-> [c \in Job!Launches |-> Job!NoController], reg |-> 0, own |-> 0,
                 tree |-> [k \in Job!Commits |-> "absent"], work |-> 1, head |-> 1,
                 renews |-> b, reused |-> {}, late |-> FALSE, faults |-> 0]
  BY DEF Job!JobInit
<1>2. /\ disk = [params |-> "none", plan |-> Job!NoPlan, pin |-> 0, guide |-> FALSE, lease |-> 0]
      /\ launch = [l \in Job!Launches |->
                     [pc |-> "idle", plan |-> Job!NoPlan, commit |-> 0, fresh |-> FALSE]]
  BY DEF Job!JobInit
<1>3. Job!NoController \in JobControllers /\ Job!NoPlan \in JobSomePlan /\ "idle" \in JobPlaces
      /\ "absent" \in JobTreeStates
  BY DEF Job!NoController, JobControllers, JobSomePlan, JobPlaces, JobTreeStates
<1>4. NumLaunches \in Nat /\ MaxFaults \in Nat
  BY DEF Job!JobAssumption
<1>5. JobTyped
  BY <1>1, <1>2, <1>3, <1>4 DEF JobTyped, JobDisks, JobLaunches, JobWorlds, Job!Commits
<1>6. JobPlanned /\ JobTrees
  BY <1>1, <1>2 DEF JobPlanned, JobTrees, Job!NoPlan
<1>7. ASSUME NEW l \in Job!Launches
      PROVE  JobRegisteredAt(l) /\ JobControlledAt(l) /\ JobOwnedAt(l) /\ JobFaultlessAt(l)
  <2>1. launch[l].pc = "idle" /\ launch[l].plan = Job!NoPlan /\ world.ctrl[l] = Job!NoController
        /\ Job!NoController.pc = "none" /\ Job!NoController.plan = Job!NoPlan
        /\ Job!NoController.sent = FALSE /\ Job!NoPlan.ver = 0 /\ l # 0
    BY <1>1, <1>2, <1>4 DEF Job!NoController, Job!NoPlan, Job!Launches
  <2>2. world.own = 0 /\ disk.lease = 0 /\ disk.plan = Job!NoPlan
    BY <1>1, <1>2
  <2> QED
    BY <2>1, <2>2 DEF JobRegisteredAt, JobControlledAt, JobOwnedAt, JobFaultlessAt, JobHolding,
       JobOwning, JobSaid, JobServed
<1> QED
  BY <1>5, <1>6, <1>7 DEF JobInv

\* The others are as they were.
LEMMA JobActs ==
  ASSUME JobInv, NEW l \in Job!Launches, JobActor(l), JobTyped', JobPlanned',
         JobRegisteredAt(l)', JobControlledAt(l)', JobOwnedAt(l)', JobFaultlessAt(l)'
  PROVE  JobInv'
<1>1. ASSUME NEW m \in Job!Launches, m # l
      PROVE  JobRegisteredAt(m)' /\ JobControlledAt(m)' /\ JobOwnedAt(m)' /\ JobFaultlessAt(m)'
  <2>1. /\ launch'[m] = launch[m] /\ world'.ctrl[m] = world.ctrl[m]
        /\ world.reg = m => world'.reg = m /\ disk'.params = disk.params
             /\ disk'.plan = disk.plan /\ disk'.pin = disk.pin
        /\ world'.work = world.work
        /\ world'.faults = 0 => world.faults = 0
    BY <1>1 DEF JobActor
  <2>2. /\ JobRegisteredAt(m) /\ JobControlledAt(m) /\ JobOwnedAt(m) /\ JobFaultlessAt(m)
        /\ launch[m].pc # "idle" => launch[m].plan # Job!NoPlan
    BY DEF JobInv, JobRegisteredAt, JobTyped, JobPlans, Job!NoPlan
  <2>3. /\ disk.params # "none" => disk'.params = disk.params
        /\ disk.plan # Job!NoPlan => disk'.plan = disk.plan
        /\ disk.pin # 0 => disk'.pin = disk.pin
    BY DEF JobActor
  <2>4. JobRegisteredAt(m)'
    BY <2>1, <2>2, <2>3 DEF JobRegisteredAt, JobHolding
  <2>5. JobControlledAt(m)'
    BY <2>1, <2>2, <2>3 DEF JobControlledAt, Job!Running, Job!NoController
  <2>6. JobOwnedAt(m)'
    <3>1. world'.own = m <=> world.own = m
      BY <1>1 DEF JobActor, Job!Launches
    <3>2. \/ disk'.lease = disk.lease
          \/ disk'.lease # m /\ (world'.late \/ world.own = l)
      BY <1>1 DEF JobActor, Job!Launches
    <3>3. world.own = l => world.ctrl[m].pc # "running"
      BY <1>1, <2>2 DEF JobOwnedAt, JobOwning
    <3>4. world.late => world'.late
      BY DEF JobActor
    <3> QED
      BY <2>1, <2>2, <3>1, <3>2, <3>3, <3>4 DEF JobOwnedAt
  <2>7. JobFaultlessAt(m)'
    <3>1. SUFFICES ASSUME world'.faults = 0 PROVE JobFaultlessAt(m)'
      BY DEF JobFaultlessAt
    <3>2. world.faults = 0
      BY <3>1, <2>1
    <3>3. \A k \in Job!Commits :
            \/ world'.tree[k] = world.tree[k]
            \/ world.tree[k] = "absent" /\ world'.tree[k] = "adding"
      BY DEF JobActor
    <3>4. launch[m].pc \in {"adding", "params", "plan", "pin", "guide", "lease", "spawn"} =>
            launch[m].commit \in Job!Commits
      BY <2>2 DEF JobRegisteredAt, JobHolding
    <3>5. world.ctrl[m].pc # "none" => world.ctrl[m].commit \in Job!Commits
      BY <2>2 DEF JobControlledAt, JobInv, JobTyped, JobDisks, Job!Commits
    <3>6. (\E n \in Job!Launches \ {m} : launch[n].pc = "started")
             => \E n \in Job!Launches \ {m} : launch'[n].pc = "started"
      BY DEF JobActor
    <3>7. (\E n \in Job!Launches : world.ctrl[n].pc \in JobServed)
             => \E n \in Job!Launches : world'.ctrl[n].pc \in JobServed
      BY <3>1 DEF JobActor
    <3> QED
      BY <2>1, <2>2, <3>1, <3>2, <3>3, <3>4, <3>5, <3>6, <3>7 DEF JobFaultlessAt
  <2> QED
    BY <2>4, <2>5, <2>6, <2>7
<1>2. JobTrees'
  <2>1. SUFFICES ASSUME world'.faults = 0 PROVE JobTrees'
    BY DEF JobTrees
  <2>2. world.faults = 0 /\ world'.reused = {}
    BY <2>1 DEF JobActor, JobInv, JobTrees
  <2>3. ASSUME NEW k \in Job!Commits
        PROVE  /\ world'.tree[k] \in {"absent", "adding", "ready"}
               /\ world'.tree[k] = "adding" =>
                    \E m \in Job!Launches : launch'[m].pc = "adding" /\ launch'[m].commit = k
    <3>1. CASE world'.tree[k] = world.tree[k]
      <4>1. world.tree[k] \in {"absent", "adding", "ready"}
        BY <2>2 DEF JobInv, JobTrees
      <4>2. ASSUME world.tree[k] = "adding"
            PROVE  \E m \in Job!Launches : launch'[m].pc = "adding" /\ launch'[m].commit = k
        <5>1. PICK m \in Job!Launches : launch[m].pc = "adding" /\ launch[m].commit = k
          BY <2>2, <4>2 DEF JobInv, JobTrees
        <5>2. launch'[m] = launch[m]
          BY <2>1, <4>2, <5>1 DEF JobActor
        <5> QED
          BY <5>1, <5>2
      <4> QED
        BY <3>1, <4>1, <4>2
    <3>2. CASE world'.tree[k] # world.tree[k]
      BY <3>2 DEF JobActor
    <3> QED
      BY <3>1, <3>2
  <2> QED
    BY <2>2, <2>3 DEF JobTrees
<1> QED
  BY <1>1, <1>2 DEF JobInv

\* What is around the launches may change as it likes, but for what is said of
\* a run without faults.
LEMMA JobWeather ==
  ASSUME JobInv, launch' = launch, disk' = disk, JobTyped',
         world'.ctrl = world.ctrl, world'.reg = world.reg, world'.own = world.own,
         world'.late = world.late, world'.work = 1 => world.work = 1,
         JobTrees', \A l \in Job!Launches : JobFaultlessAt(l)'
  PROVE  JobInv'
<1>1. JobPlanned'
  BY DEF JobInv, JobPlanned
<1>2. ASSUME NEW l \in Job!Launches
      PROVE  JobRegisteredAt(l)' /\ JobControlledAt(l)' /\ JobOwnedAt(l)'
  <2>1. JobRegisteredAt(l) /\ JobControlledAt(l) /\ JobOwnedAt(l)
    BY DEF JobInv
  <2>2. JobRegisteredAt(l)'
    BY <2>1 DEF JobRegisteredAt
  <2>3. JobControlledAt(l)'
    BY <2>1 DEF JobControlledAt, Job!Running
  <2>4. JobOwnedAt(l)'
    BY <2>1 DEF JobOwnedAt
  <2> QED
    BY <2>2, <2>3, <2>4
<1> QED
  BY <1>1, <1>2 DEF JobInv

\* A launch goes on, or ends, and neither writes nor starts anything.
LEMMA JobGoes ==
  ASSUME JobInv, NEW l \in Job!Launches, NEW q \in JobPlaces \ {"idle"}, disk' = disk,
         launch' = [launch EXCEPT ![l].pc = q], launch[l].pc \notin {"idle", "started"},
         world' \in JobWorlds, world'.ctrl = world.ctrl, world'.own = world.own,
         world'.tree = world.tree, world'.work = world.work, world'.late = world.late,
         world'.reused = world.reused, world'.faults = 0 => world.faults = 0,
         \A m \in Job!Launches \ {l} : world.reg = m => world'.reg = m,
         launch[l].pc = "adding" /\ world'.faults = 0 => world.tree[launch[l].commit] # "adding",
         JobRegisteredAt(l)', JobControlledAt(l)', JobFaultlessAt(l)'
  PROVE  JobInv'
<1>1. launch[l] \in JobLaunches /\ launch'[l] = [launch[l] EXCEPT !.pc = q]
  BY DEF JobInv, JobTyped
<1>2. launch'[l] \in JobLaunches
  BY <1>1 DEF JobLaunches
<1>3. launch' \in [Job!Launches -> JobLaunches] /\ \A m \in Job!Launches \ {l} : launch'[m] = launch[m]
  BY <1>1, <1>2 DEF JobInv, JobTyped
<1>4. JobTyped' /\ JobPlanned'
  BY <1>3 DEF JobInv, JobTyped, JobPlanned
<1>5. JobActor(l)
  BY <1>3 DEF JobActor
<1>6. JobOwnedAt(l)'
  BY DEF JobInv, JobOwnedAt
<1> QED
  BY <1>4, <1>5, <1>6, JobActs


LEMMA JobFrees ==
  ASSUME Job!JobAssumption, world \in JobWorlds, NEW l \in Job!Launches
  PROVE  LET w == Job!Freed(l, world)
         IN  /\ w \in JobWorlds /\ w.ctrl = world.ctrl /\ w.own = world.own /\ w.tree = world.tree
             /\ w.work = world.work /\ w.late = world.late /\ w.reused = world.reused
             /\ w.faults = world.faults
             /\ \A m \in Job!Launches \ {l} : world.reg = m => w.reg = m
<1> DEFINE r == IF world.reg = l THEN 0 ELSE world.reg
<1>1. Job!Freed(l, world) = [world EXCEPT !.reg = r]
  BY DEF Job!Freed, JobWorlds
<1>2. r \in 0..NumLaunches /\ \A m \in Job!Launches \ {l} : world.reg = m => r = m
  BY DEF JobWorlds, Job!Launches, Job!JobAssumption
<1> HIDE DEF r
<1> QED
  BY <1>1, <1>2 DEF JobWorlds

\* A launch ends, and says why.
LEMMA JobEnds ==
  ASSUME Job!JobAssumption, JobInv, NEW l \in Job!Launches, NEW q \in Job!Outcomes, disk' = disk, Job!End(l, q),
         launch[l].pc \notin {"idle", "started"},
         launch[l].pc = "adding" /\ world.faults = 0 => world.tree[launch[l].commit] # "adding",
         q = "different" => disk.params # "none"
                            /\ (world.work = 1 => launch[l].plan.ask # disk.params),
         q = "started" => disk.plan = launch[l].plan /\ world.ctrl[l].sent,
         q = "failed" => ~Job!Running(l),
         world.ctrl[l].pc # "none" \/ launch[l].pc = "wait" => q \in {"started", "failed"},
         q = "started" => world.ctrl[l].pc # "none",
         world.faults = 0 => q \notin {"failed", "runtime", "crashed"},
         q = "live" /\ world.faults = 0 => \E m \in Job!Launches \ {l} : launch[m].pc = "started"
  PROVE  JobInv'
<1>1. launch' = [launch EXCEPT ![l].pc = q] /\ world' = Job!Freed(l, world)
  BY DEF Job!End, Job!Goto
<1>2. /\ JobTyped /\ JobRegisteredAt(l) /\ JobControlledAt(l) /\ JobFaultlessAt(l)
  BY DEF JobInv
<1>3. /\ world' \in JobWorlds /\ world'.ctrl = world.ctrl /\ world'.own = world.own
      /\ world'.tree = world.tree /\ world'.work = world.work /\ world'.late = world.late
      /\ world'.reused = world.reused /\ world'.faults = world.faults
      /\ \A m \in Job!Launches \ {l} : world.reg = m => world'.reg = m
  BY <1>1, <1>2, JobFrees DEF JobTyped
<1>4. /\ launch'[l].pc = q /\ launch'[l].plan = launch[l].plan
      /\ launch'[l].commit = launch[l].commit
      /\ \A m \in Job!Launches \ {l} : launch'[m] = launch[m]
  BY <1>1, <1>2 DEF JobTyped, JobLaunches
<1>5. q \notin JobHolding /\ q \notin {"idle", "wait", "kill", "adding", "params", "plan", "pin",
        "guide", "lease", "spawn"} /\ q \in JobPlaces \ {"idle"}
  BY DEF Job!Outcomes, JobHolding, JobPlaces
<1>6. JobRegisteredAt(l)'
  BY <1>2, <1>3, <1>4, <1>5 DEF JobRegisteredAt
<1>7. JobControlledAt(l)'
  BY <1>2, <1>3, <1>4, <1>5 DEF JobControlledAt, Job!Running
<1>8. JobFaultlessAt(l)'
  <2>1. (\E m \in Job!Launches \ {l} : launch[m].pc = "started")
          => \E m \in Job!Launches \ {l} : launch'[m].pc = "started"
    BY <1>4
  <2> QED
    BY <1>2, <1>3, <1>4, <1>5, <2>1 DEF JobFaultlessAt
<1> QED
  BY <1>1, <1>3, <1>5, <1>6, <1>7, <1>8, JobGoes

\* A launch goes on under the lock that it has, with its controller as it is.
LEMMA JobGoesOn ==
  ASSUME JobInv, NEW l \in Job!Launches,
         NEW q \in {"params", "spawn"}, disk' = disk, world' = world, Job!Goto(l, q),
         q = "params" => launch[l].pc \in {"ensure", "adding"},
         q = "spawn" => launch[l].pc = "lease",
         Job!TreeOf(l) = "ready" \/ world.faults > 0 \/ q = "spawn"
  PROVE  JobInv'
<1>1. launch' = [launch EXCEPT ![l].pc = q]
  BY DEF Job!Goto
<1>2. /\ JobTyped /\ JobRegisteredAt(l) /\ JobControlledAt(l) /\ JobFaultlessAt(l)
  BY DEF JobInv
<1>3. /\ launch'[l].pc = q /\ launch'[l].plan = launch[l].plan
      /\ launch'[l].commit = launch[l].commit
  BY <1>1, <1>2 DEF JobTyped, JobLaunches
<1>4. JobRegisteredAt(l)'
  BY <1>2, <1>3 DEF JobRegisteredAt, JobHolding
<1>5. JobControlledAt(l)'
  BY <1>2, <1>3 DEF JobControlledAt
<1>6. JobFaultlessAt(l)'
  BY <1>2, <1>3 DEF JobFaultlessAt, Job!TreeOf, JobTyped, JobWorlds
<1>7. q \in JobPlaces \ {"idle"}
  BY DEF JobPlaces, JobHolding
<1>8. launch[l].pc = "adding" /\ world'.faults = 0 => world.tree[launch[l].commit] # "adding"
  BY DEF Job!TreeOf, JobInv, JobTyped, JobWorlds
<1>9. launch[l].pc \notin {"idle", "started"} /\ world' \in JobWorlds
  BY <1>2 DEF JobTyped
<1> QED
  BY <1>1, <1>4, <1>5, <1>6, <1>7, <1>8, <1>9, JobGoes

LEMMA JobBegins ==
  ASSUME JobInv, NEW l \in Job!Launches, Job!RequireCommitted(l) \/ Job!Lock(l)
  PROVE  JobInv'
<1>1. /\ JobTyped /\ JobRegisteredAt(l) /\ JobControlledAt(l) /\ JobFaultlessAt(l)
  BY DEF JobInv
<1>2. PICK q \in {"lock", "dirty", "compare"} : launch' = [launch EXCEPT ![l].pc = q]
        /\ (q = "compare" => world'.reg = l)
  BY <1>1 DEF Job!RequireCommitted, Job!Lock, Job!Goto, JobTyped, JobWorlds
<1>3. /\ launch[l].pc \in {"check", "lock"} /\ disk' = disk
      /\ world' \in JobWorlds /\ world'.ctrl = world.ctrl /\ world'.own = world.own
      /\ world'.tree = world.tree /\ world'.work = world.work /\ world'.late = world.late
      /\ world'.reused = world.reused /\ world'.faults = world.faults
      /\ \A m \in Job!Launches \ {l} : world.reg = m => world'.reg = m
  BY <1>1 DEF Job!RequireCommitted, Job!Lock, JobTyped, JobWorlds, Job!Launches
<1>4. /\ launch'[l].pc = q /\ launch'[l].plan = launch[l].plan
      /\ launch'[l].commit = launch[l].commit
  BY <1>1, <1>2 DEF JobTyped, JobLaunches
<1>5. JobRegisteredAt(l)'
  BY <1>1, <1>2, <1>3, <1>4 DEF JobRegisteredAt, JobHolding
<1>6. JobControlledAt(l)'
  BY <1>1, <1>3, <1>4 DEF JobControlledAt
<1>7. JobFaultlessAt(l)'
  BY <1>1, <1>3, <1>4 DEF JobFaultlessAt
<1>8. q \in JobPlaces \ {"idle"}
  BY DEF JobPlaces, Job!Outcomes, JobHolding
<1> QED
  BY <1>2, <1>3, <1>5, <1>6, <1>7, <1>8, JobGoes

\* A launch that ends under the lock, or goes on.
LEMMA JobDecides ==
  ASSUME Job!JobAssumption, JobInv, NEW l \in Job!Launches,
         \/ Job!Compare(l) /\ Job!Differs(l)
         \/ Job!Ensure(l) /\ Job!TreeOf(l) # "absent"
         \/ Job!Added(l) \/ Job!FindLease(l) \/ Job!AwaitReady(l)
         \/ Job!Spawn(l) /\ Job!TreeOf(l) # "ready"
  PROVE  JobInv'
<1>1. /\ JobTyped /\ JobRegisteredAt(l) /\ JobControlledAt(l) /\ JobFaultlessAt(l)
      /\ JobTrees /\ JobPlanned
  BY DEF JobInv
<1>2. CASE Job!Compare(l) /\ Job!Differs(l)
  <2>1. launch[l].pc = "compare" /\ disk' = disk /\ Job!End(l, "different")
    BY <1>2 DEF Job!Compare
  <2>2. launch[l].plan \in JobPlans /\ launch[l].plan.ask # "none"
    BY <1>1, <2>1 DEF JobRegisteredAt, JobPlans, Job!JobAssumption
  <2>3. disk.plan # Job!NoPlan => disk.plan \in JobPlans /\ disk.plan.ask = disk.params
    BY <1>1 DEF JobPlanned, JobTyped, JobDisks, JobSomePlan
  <2>4. disk.params # "none"
    <3>1. disk.plan # Job!NoPlan => disk.plan.ask # "none"
      BY <2>3 DEF JobPlans, Job!JobAssumption
    <3> QED
      BY <1>2, <2>3, <3>1 DEF Job!Differs
  <2>5. world.work = 1 => launch[l].plan.ask # disk.params
    <3>1. SUFFICES ASSUME world.work = 1, launch[l].plan.ask = disk.params PROVE FALSE
      OBVIOUS
    <3>2. disk.plan \notin {Job!NoPlan, launch[l].plan}
      BY <1>2, <3>1 DEF Job!Differs
    <3>3. disk.plan.ver = launch[l].plan.ver /\ disk.plan.ask = launch[l].plan.ask
      BY <1>1, <2>2, <2>3, <3>1, <3>2 DEF JobPlanned, JobRegisteredAt, JobPlans
    <3> QED
      BY <2>2, <2>3, <3>2, <3>3 DEF JobPlans
  <2>6. world.ctrl[l].pc = "none" /\ "different" \in Job!Outcomes
    BY <1>1, <2>1 DEF JobControlledAt, Job!Outcomes
  <2> QED
    BY <2>1, <2>4, <2>5, <2>6, JobEnds
<1>3. CASE Job!Ensure(l) /\ Job!TreeOf(l) # "absent"
  <2>1. launch[l].pc = "ensure" /\ disk' = disk
    BY <1>3 DEF Job!Ensure
  <2>2. CASE Job!TreeOf(l) = "ready" /\ Job!Goto(l, "params") /\ world' = world
    BY <2>1, <2>2, JobGoesOn
  <2>3. CASE Job!TreeOf(l) \in {"adding", "partial", "missing"} /\ Job!End(l, "runtime")
    <3>1. launch[l].commit \in Job!Commits /\ world.reg = l
      BY <1>1, <2>1 DEF JobRegisteredAt, JobHolding
    <3>2. ASSUME world.faults = 0 PROVE FALSE
      <4>1. world.tree[launch[l].commit] = "adding"
        BY <1>1, <2>3, <3>1, <3>2 DEF JobTrees, Job!TreeOf
      <4>2. PICK m \in Job!Launches : launch[m].pc = "adding"
        BY <1>1, <3>1, <3>2, <4>1 DEF JobTrees
      <4>3. world.reg = m
        BY <4>2 DEF JobInv, JobRegisteredAt, JobHolding
      <4> QED
        BY <2>1, <3>1, <4>2, <4>3
    <3>3. world.ctrl[l].pc = "none" /\ "runtime" \in Job!Outcomes
      BY <1>1, <2>1 DEF JobControlledAt, Job!Outcomes
    <3> QED
      BY <2>1, <2>3, <3>2, <3>3, JobEnds
  <2> QED
    BY <1>3, <2>2, <2>3 DEF Job!Ensure
<1>4. CASE Job!Added(l)
  <2>1. launch[l].pc = "adding" /\ disk' = disk /\ Job!TreeOf(l) # "adding"
    BY <1>4 DEF Job!Added
  <2>2. CASE Job!TreeOf(l) = "ready" /\ Job!Goto(l, "params") /\ world' = world
    BY <2>1, <2>2, JobGoesOn
  <2>3. CASE Job!TreeOf(l) # "ready" /\ Job!End(l, "runtime")
    <3>1. world.faults # 0
      BY <1>1, <2>1, <2>3 DEF JobFaultlessAt, Job!TreeOf
    <3>2. world.ctrl[l].pc = "none" /\ "runtime" \in Job!Outcomes
      BY <1>1, <2>1 DEF JobControlledAt, Job!Outcomes
    <3> QED
      BY <2>1, <2>3, <3>1, <3>2, JobEnds
  <2> QED
    BY <1>4, <2>2, <2>3 DEF Job!Added
<1>5. CASE Job!FindLease(l)
  <2>1. launch[l].pc = "lease" /\ disk' = disk
    BY <1>5 DEF Job!FindLease
  <2>2. CASE Job!Goto(l, "spawn") /\ world' = world
    BY <2>1, <2>2, JobGoesOn
  <2>3. CASE disk.lease # 0 /\ Job!PidAlive(disk.lease) /\ Job!End(l, "live")
    <3>1. world.ctrl[l].pc = "none" /\ "live" \in Job!Outcomes /\ world.reg = l
      BY <1>1, <2>1 DEF JobControlledAt, JobRegisteredAt, JobHolding, Job!Outcomes
    <3>2. ASSUME world.faults = 0
          PROVE  \E m \in Job!Launches \ {l} : launch[m].pc = "started"
      <4>1. disk.lease \in Job!Launches
        BY <1>1, <2>3 DEF JobTyped, JobDisks, Job!Launches
      <4>2. Job!Running(disk.lease)
        BY <1>1, <2>3, <3>2 DEF Job!PidAlive, JobTrees
      <4>3. world.ctrl[disk.lease].pc # "none"
        BY <4>2 DEF Job!Running, Job!Gone
      <4>4. /\ launch[disk.lease].pc \in {"wait", "kill", "started", "failed", "crashed"}
            /\ launch[disk.lease].pc \notin {"failed", "crashed", "kill"}
        BY <3>2, <4>1, <4>3 DEF JobInv, JobControlledAt, JobFaultlessAt
      <4>5. launch[disk.lease].pc = "wait" => world.reg = disk.lease
        BY <4>1 DEF JobInv, JobRegisteredAt, JobHolding
      <4> QED
        BY <2>1, <3>1, <4>1, <4>4, <4>5
    <3> QED
      BY <2>1, <2>3, <3>1, <3>2, JobEnds
  <2> QED
    BY <1>5, <2>2, <2>3 DEF Job!FindLease
<1>6. CASE Job!Spawn(l) /\ Job!TreeOf(l) # "ready"
  <2>1. launch[l].pc = "spawn" /\ disk' = disk /\ Job!End(l, "failed")
    BY <1>6 DEF Job!Spawn
  <2>2. world.ctrl[l].pc = "none" /\ "failed" \in Job!Outcomes
    BY <1>1, <2>1 DEF JobControlledAt, Job!Outcomes
  <2>3. world.faults # 0 /\ ~Job!Running(l)
    BY <1>1, <1>6, <2>1, <2>2 DEF JobFaultlessAt, Job!TreeOf, Job!Running, Job!Gone
  <2> QED
    BY <2>1, <2>2, <2>3, JobEnds
<1>7. CASE Job!AwaitReady(l)
  <2>1. launch[l].pc = "wait" /\ disk' = disk /\ world.ctrl[l].pc # "none"
        /\ disk.plan = launch[l].plan
    BY <1>1, <1>7 DEF Job!AwaitReady, JobControlledAt, JobRegisteredAt
  <2>2. {"started", "failed"} \subseteq Job!Outcomes
    BY DEF Job!Outcomes
  <2>3. CASE world.ctrl[l].sent /\ Job!End(l, "started")
    BY <2>1, <2>2, <2>3, JobEnds
  <2>4. CASE ~world.ctrl[l].sent /\ ~Job!Running(l) /\ Job!End(l, "failed")
    <3>1. world.faults # 0
      BY <1>1, <2>1, <2>4 DEF JobFaultlessAt, JobControlledAt, Job!Running, Job!Gone,
         JobSaid, JobServed
    <3> QED
      BY <2>1, <2>2, <2>4, <3>1, JobEnds
  <2> QED
    BY <1>7, <2>3, <2>4 DEF Job!AwaitReady
<1> QED
  BY <1>2, <1>3, <1>4, <1>5, <1>6, <1>7


\* A launch is started, with the plan that it compiled.
LEMMA JobStarts ==
  ASSUME Job!JobAssumption, JobInv, NEW l \in Job!Launches, Job!Start(l)
  PROVE  JobInv'
<1>1. /\ JobTyped /\ JobRegisteredAt(l) /\ JobControlledAt(l) /\ JobFaultlessAt(l) /\ JobOwnedAt(l)
  BY DEF JobInv
<1>2. PICK a \in Asks :
        launch' = [launch EXCEPT ![l].pc = "check", ![l].plan = Job!Compiled(a, world.work)]
  BY DEF Job!Start
<1>3. launch[l].pc = "idle" /\ disk' = disk /\ world' = world
  BY DEF Job!Start
<1> DEFINE p == Job!Compiled(a, world.work)
<1>4. p \in JobPlans /\ (world.work = 1 => p.ver = 1)
  BY <1>1 DEF Job!Compiled, JobPlans, JobTyped, JobWorlds, Job!Commits
<1>5. p # Job!NoPlan
  BY <1>4 DEF Job!NoPlan, JobPlans, Job!JobAssumption
<1>6. launch' = [launch EXCEPT ![l].pc = "check", ![l].plan = p]
  BY <1>2
<1> HIDE DEF p
<1>7. /\ launch'[l].pc = "check" /\ launch'[l].plan = p /\ launch'[l].commit = launch[l].commit
      /\ \A m \in Job!Launches \ {l} : launch'[m] = launch[m]
  BY <1>1, <1>6 DEF JobTyped, JobLaunches
<1>8. JobTyped'
  <2>1. "check" \in JobPlaces /\ p \in JobSomePlan
    BY <1>4 DEF JobPlaces, JobSomePlan
  <2>2. launch' \in [Job!Launches -> JobLaunches]
    BY <1>1, <1>6, <2>1 DEF JobTyped, JobLaunches
  <2> QED
    BY <1>1, <1>3, <2>2 DEF JobTyped
<1>9. JobPlanned' /\ JobActor(l)
  BY <1>3, <1>7 DEF JobInv, JobPlanned, JobActor
<1>10. JobRegisteredAt(l)'
  BY <1>1, <1>3, <1>4, <1>7 DEF JobRegisteredAt, JobHolding
<1>11. JobControlledAt(l)' /\ JobOwnedAt(l)'
  BY <1>1, <1>3, <1>7 DEF JobControlledAt, JobOwnedAt
<1>12. JobFaultlessAt(l)'
  BY <1>1, <1>3, <1>7 DEF JobFaultlessAt
<1> QED
  BY <1>8, <1>9, <1>10, <1>11, <1>12, JobActs

\* The registration is this launch's: it takes the commit of it, or the one that
\* is checked out.
LEMMA JobTakesCommit ==
  ASSUME JobInv, NEW l \in Job!Launches, Job!Compare(l), ~Job!Differs(l)
  PROVE  JobInv'
<1>1. /\ JobTyped /\ JobRegisteredAt(l) /\ JobControlledAt(l) /\ JobFaultlessAt(l) /\ JobOwnedAt(l)
  BY DEF JobInv
<1> DEFINE k == IF disk.pin = 0 THEN world.head ELSE disk.pin
           f == disk.pin = 0
<1>2. /\ launch[l].pc = "compare" /\ disk' = disk /\ world' = world
      /\ launch' = [launch EXCEPT ![l].pc = "ensure", ![l].fresh = f, ![l].commit = k]
  BY DEF Job!Compare
<1>3. k \in Job!Commits /\ disk.pin \in {0, k} /\ k \in 0..2 /\ f \in BOOLEAN
  BY <1>1 DEF JobTyped, JobDisks, JobWorlds, Job!Commits
<1> HIDE DEF k, f
<1>4. /\ launch'[l].pc = "ensure" /\ launch'[l].plan = launch[l].plan /\ launch'[l].commit = k
      /\ \A m \in Job!Launches \ {l} : launch'[m] = launch[m]
  BY <1>1, <1>2 DEF JobTyped, JobLaunches
<1>5. JobTyped'
  <2>1. "ensure" \in JobPlaces
    BY DEF JobPlaces, JobHolding
  <2>2. launch' \in [Job!Launches -> JobLaunches]
    BY ZenonT(60), <1>1, <1>2, <1>3, <2>1 DEF JobTyped, JobLaunches
  <2> QED
    BY <1>1, <1>2, <2>2 DEF JobTyped
<1>6. JobPlanned' /\ JobActor(l)
  BY <1>2, <1>4 DEF JobInv, JobPlanned, JobActor
<1>7. disk.params \in {"none", launch[l].plan.ask} /\ disk.plan \in {Job!NoPlan, launch[l].plan}
  BY DEF Job!Differs
<1>8. JobRegisteredAt(l)'
  BY <1>1, <1>2, <1>3, <1>4, <1>7 DEF JobRegisteredAt, JobHolding
<1>9. JobControlledAt(l)' /\ JobOwnedAt(l)'
  BY <1>1, <1>2, <1>4 DEF JobControlledAt, JobOwnedAt
<1>10. JobFaultlessAt(l)'
  BY <1>1, <1>2, <1>4 DEF JobFaultlessAt
<1> QED
  BY <1>5, <1>6, <1>8, <1>9, <1>10, JobActs

\* git begins to add the worktree.
LEMMA JobAdds ==
  ASSUME JobInv, NEW l \in Job!Launches, Job!Ensure(l), Job!TreeOf(l) = "absent"
  PROVE  JobInv'
<1>1. /\ JobTyped /\ JobRegisteredAt(l) /\ JobControlledAt(l) /\ JobFaultlessAt(l) /\ JobOwnedAt(l)
  BY DEF JobInv
<1> DEFINE k == launch[l].commit
<1>2. /\ launch[l].pc = "ensure" /\ disk' = disk /\ launch' = [launch EXCEPT ![l].pc = "adding"]
      /\ world' = [world EXCEPT !.tree[k] = "adding"]
  BY DEF Job!Ensure, Job!Goto
<1>3. k \in Job!Commits /\ world.tree[k] = "absent"
  BY <1>1, <1>2 DEF JobRegisteredAt, JobHolding, Job!TreeOf
<1>4. /\ launch'[l].pc = "adding" /\ launch'[l].plan = launch[l].plan /\ launch'[l].commit = k
      /\ \A m \in Job!Launches \ {l} : launch'[m] = launch[m]
  BY <1>1, <1>2 DEF JobTyped, JobLaunches
<1> HIDE DEF k
<1>5. /\ world'.ctrl = world.ctrl /\ world'.reg = world.reg /\ world'.own = world.own
      /\ world'.work = world.work /\ world'.late = world.late /\ world'.reused = world.reused
      /\ world'.faults = world.faults /\ world'.tree = [world.tree EXCEPT ![k] = "adding"]
  BY <1>1, <1>2 DEF JobTyped, JobWorlds
<1>6. JobTyped'
  <2>1. "adding" \in JobPlaces /\ "adding" \in JobTreeStates
    BY DEF JobPlaces, JobHolding, JobTreeStates
  <2>2. launch' \in [Job!Launches -> JobLaunches]
    BY <1>1, <1>2, <2>1 DEF JobTyped, JobLaunches
  <2>3. world' \in JobWorlds
    BY <1>1, <1>2, <1>3, <2>1 DEF JobTyped, JobWorlds
  <2> QED
    BY <1>1, <1>2, <2>2, <2>3 DEF JobTyped
<1>7. world'.tree[k] = "adding" /\ \A j \in Job!Commits \ {k} : world'.tree[j] = world.tree[j]
  BY <1>1, <1>3, <1>5 DEF JobTyped, JobWorlds
<1>8. JobPlanned' /\ JobActor(l)
  BY <1>2, <1>3, <1>4, <1>5, <1>7 DEF JobInv, JobPlanned, JobActor
<1>9. JobRegisteredAt(l)'
  BY <1>1, <1>2, <1>4, <1>5 DEF JobRegisteredAt, JobHolding
<1>10. JobControlledAt(l)' /\ JobOwnedAt(l)'
  BY <1>1, <1>2, <1>4, <1>5 DEF JobControlledAt, JobOwnedAt
<1>11. JobFaultlessAt(l)'
  <2>1. world.ctrl[l].pc = "none"
    BY <1>1, <1>2 DEF JobControlledAt
  <2> QED
    BY <1>1, <1>4, <1>5, <1>7, <2>1 DEF JobFaultlessAt
<1> QED
  BY <1>6, <1>8, <1>9, <1>10, <1>11, JobActs

\* The files of the registration are written by who holds its lock.
LEMMA JobWrites ==
  ASSUME JobInv, NEW l \in Job!Launches,
         Job!WriteParams(l) \/ Job!WritePlan(l) \/ Job!WritePin(l) \/ Job!WriteGuide(l)
  PROVE  JobInv'
<1>1. /\ JobTyped /\ JobRegisteredAt(l) /\ JobControlledAt(l) /\ JobFaultlessAt(l) /\ JobOwnedAt(l)
      /\ JobPlanned
  BY DEF JobInv
<1>2. PICK q \in {"plan", "pin", "guide", "lease"} : launch' = [launch EXCEPT ![l].pc = q]
        /\ launch[l].pc = CASE q = "plan" -> "params" [] q = "pin" -> "plan"
                            [] q = "guide" -> "pin" [] q = "lease" -> "guide"
  BY DEF Job!WriteParams, Job!WritePlan, Job!WritePin, Job!WriteGuide, Job!Goto
<1>3. launch[l].pc \in {"params", "plan", "pin", "guide"} /\ world' = world /\ world.reg = l
      /\ launch[l].plan \in JobPlans /\ launch[l].commit \in Job!Commits
  BY <1>1 DEF Job!WriteParams, Job!WritePlan, Job!WritePin, Job!WriteGuide, JobRegisteredAt,
     JobHolding
<1>4. /\ launch'[l].pc = q /\ launch'[l].plan = launch[l].plan /\ launch'[l].commit = launch[l].commit
      /\ \A m \in Job!Launches \ {l} : launch'[m] = launch[m]
  BY <1>1, <1>2 DEF JobTyped, JobLaunches
<1>5. /\ disk'.lease = disk.lease
      /\ disk'.params = IF q = "plan" /\ disk.params = "none" THEN launch[l].plan.ask ELSE disk.params
      /\ disk'.plan = IF q = "pin" /\ disk.plan = Job!NoPlan THEN launch[l].plan ELSE disk.plan
      /\ disk'.pin = IF q = "guide" /\ disk.pin = 0 THEN launch[l].commit ELSE disk.pin
      /\ disk' \in JobDisks
  <2>1. CASE q = "plan"
    <3>1. Job!WriteParams(l)
      BY <1>2, <2>1 DEF Job!WritePlan, Job!WritePin, Job!WriteGuide
    <3> QED
      BY <1>1, <1>3, <2>1, <3>1 DEF Job!WriteParams, JobTyped, JobDisks, JobPlans
  <2>2. CASE q = "pin"
    <3>1. Job!WritePlan(l)
      BY <1>2, <2>2 DEF Job!WriteParams, Job!WritePin, Job!WriteGuide
    <3> QED
      BY <1>1, <1>3, <2>2, <3>1 DEF Job!WritePlan, JobTyped, JobDisks, JobSomePlan
  <2>3. CASE q = "guide"
    <3>1. Job!WritePin(l)
      BY <1>2, <2>3 DEF Job!WriteParams, Job!WritePlan, Job!WriteGuide
    <3> QED
      BY <1>1, <1>3, <2>3, <3>1 DEF Job!WritePin, JobTyped, JobDisks, Job!Commits
  <2>4. CASE q = "lease"
    <3>1. Job!WriteGuide(l) /\ launch[l].fresh \in BOOLEAN
      BY <1>1, <1>2, <2>4 DEF Job!WriteParams, Job!WritePlan, Job!WritePin, JobTyped, JobLaunches
    <3> QED
      BY <1>1, <1>3, <2>4, <3>1 DEF Job!WriteGuide, JobTyped, JobDisks
  <2> QED
    BY <2>1, <2>2, <2>3, <2>4
<1>6. JobTyped'
  <2>1. q \in JobPlaces
    BY DEF JobPlaces, JobHolding
  <2>2. launch' \in [Job!Launches -> JobLaunches]
    BY <1>1, <1>2, <2>1 DEF JobTyped, JobLaunches
  <2> QED
    BY <1>1, <1>3, <1>5, <2>2 DEF JobTyped
<1>7. JobPlanned'
  <2>1. world.work = 1 => launch[l].plan.ver \in {0, 1}
    BY <1>1 DEF JobRegisteredAt
  <2>2. launch[l].pc = "params" => disk.params \in {"none", launch[l].plan.ask}
          /\ disk.plan \in {Job!NoPlan, launch[l].plan}
    BY <1>1 DEF JobRegisteredAt, JobHolding
  <2>3. launch[l].pc = "plan" => disk.params = launch[l].plan.ask
    BY <1>1 DEF JobRegisteredAt
  <2> QED
    BY <1>1, <1>2, <1>3, <1>5, <2>1, <2>2, <2>3 DEF JobPlanned
<1>8. JobActor(l)
  BY <1>2, <1>3, <1>4, <1>5 DEF JobActor
<1>9. world.ctrl[l].pc = "none"
  BY <1>1, <1>3 DEF JobControlledAt
<1>10. JobRegisteredAt(l)'
  BY <1>1, <1>2, <1>3, <1>4, <1>5 DEF JobRegisteredAt, JobHolding
<1>11. JobControlledAt(l)'
  BY <1>1, <1>3, <1>4, <1>9 DEF JobControlledAt, Job!NoController, JobSaid, JobServed
<1>12. JobOwnedAt(l)'
  BY <1>1, <1>3, <1>5 DEF JobOwnedAt
<1>13. JobFaultlessAt(l)'
  BY <1>1, <1>3, <1>4, <1>9 DEF JobFaultlessAt
<1> QED
  BY <1>6, <1>7, <1>8, <1>10, <1>11, <1>12, <1>13, JobActs


LEMMA JobSpawns ==
  ASSUME Job!JobAssumption, JobInv, NEW l \in Job!Launches, Job!Spawn(l), Job!TreeOf(l) = "ready"
  PROVE  JobInv'
<1>1. /\ JobTyped /\ JobRegisteredAt(l) /\ JobControlledAt(l) /\ JobFaultlessAt(l) /\ JobOwnedAt(l)
  BY DEF JobInv
<1> DEFINE k == launch[l].commit
           r == [Job!NoController EXCEPT !.pc = "boot", !.commit = k]
<1>2. /\ launch[l].pc = "spawn" /\ disk' = disk /\ launch' = [launch EXCEPT ![l].pc = "wait"]
      /\ world' = [world EXCEPT !.ctrl[l] = r]
  BY DEF Job!Spawn, Job!Goto
<1>3. /\ k \in Job!Commits /\ world.tree[k] = "ready" /\ disk.pin = k /\ world.reg = l
      /\ disk.plan = launch[l].plan /\ launch[l].plan \in JobPlans
      /\ disk.params = launch[l].plan.ask /\ world.ctrl[l].pc = "none"
  BY <1>1, <1>2 DEF JobRegisteredAt, JobControlledAt, JobHolding, Job!TreeOf
<1>4. disk.plan # Job!NoPlan /\ k # 0 /\ k \in 0..2
  BY <1>3 DEF Job!NoPlan, JobPlans, Job!JobAssumption, Job!Commits
<1>5. /\ launch'[l].pc = "wait" /\ launch'[l].plan = launch[l].plan /\ launch'[l].commit = k
      /\ \A m \in Job!Launches \ {l} : launch'[m] = launch[m]
  BY <1>1, <1>2 DEF JobTyped, JobLaunches
<1>6. r \in JobControllers
  BY <1>4 DEF JobControllers, JobSomePlan, Job!NoController
<1>7. r.pc = "boot" /\ r.plan = Job!NoPlan /\ r.commit = k /\ r.sent = FALSE
  BY DEF Job!NoController
<1> HIDE DEF k, r
<1>8. /\ world'.ctrl = [world.ctrl EXCEPT ![l] = r] /\ world'.reg = world.reg
      /\ world'.own = world.own /\ world'.tree = world.tree
      /\ world'.work = world.work /\ world'.late = world.late /\ world'.reused = world.reused
      /\ world'.faults = world.faults
  BY <1>1, <1>2 DEF JobTyped, JobWorlds
<1>9. world'.ctrl[l] = r /\ \A m \in Job!Launches \ {l} : world'.ctrl[m] = world.ctrl[m]
  BY <1>1, <1>8 DEF JobTyped, JobWorlds
<1>10. JobTyped'
  <2>1. "wait" \in JobPlaces
    BY DEF JobPlaces, JobHolding
  <2>2. launch' \in [Job!Launches -> JobLaunches]
    BY <1>1, <1>2, <2>1 DEF JobTyped, JobLaunches
  <2>3. world' \in JobWorlds
    BY <1>1, <1>2, <1>6 DEF JobTyped, JobWorlds
  <2> QED
    BY <1>1, <1>2, <2>2, <2>3 DEF JobTyped
<1>11. JobPlanned'
  BY <1>2, <1>8 DEF JobInv, JobPlanned
<1>12. JobActor(l)
  BY <1>2, <1>3, <1>5, <1>8, <1>9 DEF JobActor, JobServed, JobOwning
<1>13. JobRegisteredAt(l)'
  BY <1>1, <1>2, <1>3, <1>5, <1>8 DEF JobRegisteredAt, JobHolding
<1>14. JobControlledAt(l)'
  BY <1>2, <1>3, <1>4, <1>5, <1>7, <1>9 DEF JobControlledAt, JobSaid, JobServed, JobOwning
<1>15. JobOwnedAt(l)'
  BY <1>1, <1>2, <1>3, <1>7, <1>8, <1>9 DEF JobOwnedAt, JobOwning
<1>16. JobFaultlessAt(l)'
  BY <1>1, <1>3, <1>5, <1>7, <1>8, <1>9 DEF JobFaultlessAt
<1> QED
  BY <1>10, <1>11, <1>12, <1>13, <1>14, <1>15, <1>16, JobActs

\* A controller that is killed has neither the workflow nor its lock.
LEMMA JobKills ==
  ASSUME Job!JobAssumption, JobInv, NEW c \in Job!Launches
  PROVE  LET w == Job!Killed(c, world)
         IN  /\ w \in JobWorlds /\ w.reg = world.reg /\ w.tree = world.tree
             /\ w.work = world.work /\ w.late = world.late /\ w.reused = world.reused
             /\ w.faults = world.faults
             /\ \A m \in Job!Launches \ {c} : w.ctrl[m] = world.ctrl[m]
             /\ w.own = (IF world.own = c THEN 0 ELSE world.own)
             /\ w.ctrl[c].pc = (IF world.ctrl[c].pc \in Job!Gone THEN world.ctrl[c].pc ELSE "dead")
             /\ w.ctrl[c].plan = world.ctrl[c].plan /\ w.ctrl[c].commit = world.ctrl[c].commit
             /\ w.ctrl[c].sent = world.ctrl[c].sent
<1> DEFINE o == IF world.own = c THEN 0 ELSE world.own
           q == IF world.ctrl[c].pc \in Job!Gone THEN world.ctrl[c].pc ELSE "dead"
           r == [world.ctrl[c] EXCEPT !.pc = q]
<1>1. world \in JobWorlds /\ world.ctrl \in [Job!Launches -> JobControllers]
      /\ world.ctrl[c] \in JobControllers
  BY DEF JobInv, JobTyped, JobWorlds
<1>2. Job!Killed(c, world) = [world EXCEPT !.own = o, !.ctrl[c] = r]
  BY <1>1 DEF Job!Killed, JobWorlds
<1>3. o \in 0..NumLaunches
  BY <1>1 DEF JobWorlds, Job!JobAssumption
<1>4. q \in JobSaid \cup {"none", "dead", "boot", "permitted"}
  BY <1>1 DEF JobControllers
<1> HIDE DEF q
<1>5. r \in JobControllers /\ r.pc = q /\ r.plan = world.ctrl[c].plan
      /\ r.commit = world.ctrl[c].commit /\ r.sent = world.ctrl[c].sent
  BY <1>1, <1>4 DEF JobControllers
<1> HIDE DEF o, r
<1>6. [world EXCEPT !.own = o, !.ctrl[c] = r] \in JobWorlds
  BY <1>1, <1>3, <1>5 DEF JobWorlds
<1> QED
  BY <1>1, <1>2, <1>5, <1>6 DEF JobWorlds, o, q

\* A fault is counted, and changes nothing else.
LEMMA JobFaults ==
  ASSUME NEW w \in JobWorlds, w.faults = world.faults, Job!Faulty(w), Job!JobAssumption
  PROVE  /\ world' \in JobWorlds /\ world'.ctrl = w.ctrl /\ world'.own = w.own /\ world'.reg = w.reg
         /\ world'.tree = w.tree /\ world'.work = w.work /\ world'.late = w.late
         /\ world'.reused = w.reused /\ world'.faults # 0
<1>1. w.faults + 1 \in 0..MaxFaults /\ w.faults + 1 # 0
  BY DEF Job!Faulty, JobWorlds, Job!JobAssumption
<1>2. world' = [w EXCEPT !.faults = w.faults + 1]
  BY DEF Job!Faulty, JobWorlds
<1> QED
  BY <1>1, <1>2 DEF JobWorlds

\* After the timeout the child is dead before the launch is over.
LEMMA JobTerminates ==
  ASSUME Job!JobAssumption, JobInv, NEW l \in Job!Launches, Job!Terminate(l)
  PROVE  JobInv'
<1>1. /\ JobTyped /\ JobRegisteredAt(l) /\ JobControlledAt(l) /\ JobFaultlessAt(l) /\ JobOwnedAt(l)
  BY DEF JobInv
<1>2. /\ launch[l].pc = "kill" /\ disk' = disk /\ launch' = [launch EXCEPT ![l].pc = "failed"]
      /\ world' = Job!Freed(l, Job!Killed(l, world))
  BY DEF Job!Terminate, Job!Goto
<1>3. world.faults # 0 /\ world.ctrl[l].pc # "none"
  BY <1>1, <1>2 DEF JobFaultlessAt, JobControlledAt
<1> DEFINE w == Job!Killed(l, world)
           r == IF w.reg = l THEN 0 ELSE w.reg
<1>4. /\ w \in JobWorlds /\ w.reg = world.reg /\ w.tree = world.tree
      /\ w.work = world.work /\ w.late = world.late /\ w.reused = world.reused
      /\ w.faults = world.faults
      /\ \A m \in Job!Launches \ {l} : w.ctrl[m] = world.ctrl[m]
      /\ w.own = (IF world.own = l THEN 0 ELSE world.own)
      /\ w.ctrl[l].pc = (IF world.ctrl[l].pc \in Job!Gone THEN world.ctrl[l].pc ELSE "dead")
      /\ w.ctrl[l].plan = world.ctrl[l].plan /\ w.ctrl[l].commit = world.ctrl[l].commit
      /\ w.ctrl[l].sent = world.ctrl[l].sent
  BY JobKills
<1> HIDE DEF w
<1>5. world' = [w EXCEPT !.reg = r] /\ r \in 0..NumLaunches
      /\ \A m \in Job!Launches \ {l} : world.reg = m => r = m
  BY <1>2, <1>4 DEF Job!Freed, JobWorlds, Job!JobAssumption, Job!Launches, w
<1> HIDE DEF r
<1>6. /\ world' \in JobWorlds /\ world'.ctrl = w.ctrl /\ world'.own = w.own /\ world'.reg = r
      /\ world'.tree = w.tree /\ world'.work = w.work /\ world'.late = w.late
      /\ world'.reused = w.reused /\ world'.faults = w.faults
  BY <1>4, <1>5 DEF JobWorlds
<1>7. /\ launch'[l].pc = "failed" /\ launch'[l].plan = launch[l].plan
      /\ \A m \in Job!Launches \ {l} : launch'[m] = launch[m]
  BY <1>1, <1>2 DEF JobTyped, JobLaunches
<1>8. JobTyped'
  <2>1. "failed" \in JobPlaces
    BY DEF JobPlaces, Job!Outcomes
  <2>2. launch' \in [Job!Launches -> JobLaunches]
    BY <1>1, <1>2, <2>1 DEF JobTyped, JobLaunches
  <2> QED
    BY <1>1, <1>2, <1>6, <2>2 DEF JobTyped
<1>9. JobPlanned'
  BY <1>2, <1>4, <1>6 DEF JobInv, JobPlanned
<1>10. JobActor(l)
  BY <1>2, <1>3, <1>4, <1>5, <1>6, <1>7 DEF JobActor
<1>11. JobRegisteredAt(l)'
  BY <1>1, <1>2, <1>4, <1>6, <1>7 DEF JobRegisteredAt, JobHolding
<1>12. JobControlledAt(l)'
  <2>1. /\ world'.ctrl[l].pc \in {"away", "done", "dead"}
        /\ world'.ctrl[l].pc \in {world.ctrl[l].pc, "dead"}
    BY <1>3, <1>4, <1>6 DEF Job!Gone
  <2>2. /\ world'.ctrl[l].plan = world.ctrl[l].plan /\ world'.ctrl[l].sent = world.ctrl[l].sent
        /\ world'.ctrl[l].commit = world.ctrl[l].commit
    BY <1>4, <1>6
  <2>3. ~Job!Running(l)'
    BY <2>1 DEF Job!Running, Job!Gone
  <2>4. "dead" \notin JobSaid
    BY DEF JobSaid, JobServed, JobOwning
  <2> QED
    BY <1>1, <1>2, <1>3, <1>7, <2>1, <2>2, <2>3, <2>4 DEF JobControlledAt
<1>13. JobOwnedAt(l)'
  <2>1. l # 0
    BY DEF Job!Launches
  <2> QED
    BY <1>1, <1>2, <1>3, <1>4, <1>6, <2>1 DEF JobOwnedAt, JobOwning, Job!Gone
<1>14. JobFaultlessAt(l)'
  BY <1>3, <1>4, <1>6 DEF JobFaultlessAt
<1> QED
  BY <1>8, <1>9, <1>10, <1>11, <1>12, <1>13, <1>14, JobActs

\* A launch dies, or has waited too long.
LEMMA JobLaunchFaults ==
  ASSUME Job!JobAssumption, JobInv, NEW l \in Job!Launches, Job!Dies(l) \/ Job!Timeout(l)
  PROVE  JobInv'
<1>1. /\ JobTyped /\ JobRegisteredAt(l) /\ JobControlledAt(l) /\ JobFaultlessAt(l)
  BY DEF JobInv
<1>2. PICK q \in {"crashed", "kill"} :
        /\ launch' = [launch EXCEPT ![l].pc = q] /\ disk' = disk
        /\ launch[l].pc \notin {"idle", "started"} /\ ~Job!Ended(l)
        /\ q = "kill" => launch[l].pc = "wait" /\ Job!Faulty(world)
        /\ q = "crashed" => Job!Faulty(Job!Freed(l, world))
  BY DEF Job!Dies, Job!Timeout, Job!Goto, Job!Ended, Job!Outcomes
<1>3. /\ world' \in JobWorlds /\ world'.ctrl = world.ctrl /\ world'.own = world.own
      /\ world'.tree = world.tree /\ world'.work = world.work /\ world'.late = world.late
      /\ world'.reused = world.reused /\ world'.faults # 0
      /\ \A m \in Job!Launches \ {l} : world.reg = m => world'.reg = m
      /\ q = "kill" => world'.reg = world.reg
  <2>1. CASE q = "kill"
    BY <1>1, <1>2, <2>1, JobFaults DEF JobTyped
  <2>2. CASE q = "crashed"
    <3> DEFINE w == Job!Freed(l, world)
    <3>1. /\ w \in JobWorlds /\ w.ctrl = world.ctrl /\ w.own = world.own /\ w.tree = world.tree
          /\ w.work = world.work /\ w.late = world.late /\ w.reused = world.reused
          /\ w.faults = world.faults
          /\ \A m \in Job!Launches \ {l} : world.reg = m => w.reg = m
      BY <1>1, JobFrees DEF JobTyped
    <3> HIDE DEF w
    <3>2. Job!Faulty(w)
      BY <1>2, <2>2 DEF w
    <3>3. /\ world' \in JobWorlds /\ world'.ctrl = w.ctrl /\ world'.own = w.own /\ world'.reg = w.reg
          /\ world'.tree = w.tree /\ world'.work = w.work /\ world'.late = w.late
          /\ world'.reused = w.reused /\ world'.faults # 0
      BY <3>1, <3>2, JobFaults
    <3> QED
      BY <2>2, <3>1, <3>3
  <2> QED
    BY <2>1, <2>2
<1>4. /\ launch'[l].pc = q /\ launch'[l].plan = launch[l].plan
      /\ launch'[l].commit = launch[l].commit
  BY <1>1, <1>2 DEF JobTyped, JobLaunches
<1>5. q \in JobPlaces \ {"idle"} /\ (q = "crashed" => q \notin JobHolding)
  BY DEF JobPlaces, JobHolding, Job!Outcomes
<1>6. JobRegisteredAt(l)'
  BY <1>1, <1>2, <1>3, <1>4, <1>5 DEF JobRegisteredAt, JobHolding
<1>7. JobControlledAt(l)'
  BY <1>1, <1>2, <1>3, <1>4 DEF JobControlledAt, Job!Running
<1>8. JobFaultlessAt(l)'
  BY <1>3 DEF JobFaultlessAt
<1> QED
  BY <1>2, <1>3, <1>5, <1>6, <1>7, <1>8, JobGoes


\* A step of a controller.
LEMMA JobControls ==
  ASSUME JobInv, NEW c \in Job!Launches, launch' = launch, disk' \in JobDisks,
         disk'.params = disk.params, disk'.plan = disk.plan, disk'.pin = disk.pin,
         world' \in JobWorlds, world'.reg = world.reg, world'.tree = world.tree,
         world'.work = world.work, world'.reused = world.reused,
         world'.faults = 0 => world.faults = 0,
         \A m \in Job!Launches \ {c} : world'.ctrl[m] = world.ctrl[m],
         world'.own = world.own \/ (world.own \in {0, c} /\ world'.own \in {0, c}),
         world.late => world'.late,
         disk'.lease = disk.lease \/ (disk'.lease \in {0, c} /\ (world'.late \/ world.own = c)),
         world'.faults = 0 /\ world.ctrl[c].pc \in JobServed => world'.ctrl[c].pc \in JobServed,
         JobControlledAt(c)', JobOwnedAt(c)', JobFaultlessAt(c)'
  PROVE  JobInv'
<1>1. JobTyped' /\ JobPlanned'
  BY DEF JobInv, JobTyped, JobPlanned
<1>2. JobActor(c)
  BY DEF JobActor
<1>3. JobRegisteredAt(c)'
  BY DEF JobInv, JobRegisteredAt
<1> QED
  BY <1>1, <1>2, <1>3, JobActs

\* A controller, o being who then has the workflow's lock, becomes r.
LEMMA JobBecomes ==
  ASSUME JobInv, NEW c \in Job!Launches, NEW r \in JobControllers, NEW o \in 0..NumLaunches,
         world' = [world EXCEPT !.ctrl[c] = r, !.own = o]
  PROVE  /\ world' \in JobWorlds /\ world'.reg = world.reg /\ world'.tree = world.tree
         /\ world'.work = world.work /\ world'.reused = world.reused
         /\ world'.faults = world.faults /\ world'.late = world.late /\ world'.own = o
         /\ \A m \in Job!Launches \ {c} : world'.ctrl[m] = world.ctrl[m]
         /\ world'.ctrl[c] = r
  BY DEF JobInv, JobTyped, JobWorlds

\* A controller that has neither the workflow nor its lock goes on, or leaves.
LEMMA JobBoots ==
  ASSUME Job!JobAssumption, JobInv, NEW c \in Job!Launches, Job!Boot(c) \/ Job!SendReady(c)
  PROVE  JobInv'
<1>1. /\ JobTyped /\ JobRegisteredAt(c) /\ JobControlledAt(c) /\ JobFaultlessAt(c) /\ JobOwnedAt(c)
  BY DEF JobInv
<1> DEFINE old == world.ctrl[c]
<1>2. /\ world \in JobWorlds /\ old \in JobControllers /\ world.own \in 0..NumLaunches
      /\ disk.plan \in JobSomePlan
  BY <1>1 DEF JobTyped, JobWorlds, JobDisks
<1>3. /\ old.pc \in {"boot", "permitted"} /\ launch' = launch /\ disk' = disk /\ ~old.sent
      /\ world.own # c /\ disk.plan # Job!NoPlan /\ disk.pin # 0 /\ old.commit = disk.pin
      /\ old.plan \in {Job!NoPlan, disk.plan}
      /\ launch[c].pc \in {"wait", "kill", "started", "failed", "crashed"}
  BY <1>1 DEF Job!Boot, Job!SendReady, Job!At, JobControlledAt, JobOwnedAt, JobOwning
<1>4. launch[c].pc # "failed" /\ launch[c].pc # "started"
  BY <1>1, <1>3 DEF JobControlledAt, Job!Running, Job!Gone
<1>5. \/ old.pc = "boot" /\ world' = [world EXCEPT !.ctrl[c].pc = "permitted", !.ctrl[c].plan = disk.plan]
      \/ old.pc = "permitted" /\ world' = [world EXCEPT !.ctrl[c].pc = "ready", !.ctrl[c].sent = TRUE]
      \/ world' = [world EXCEPT !.ctrl[c].pc = "dead"] /\ world.faults # 0
  <2>1. Job!ParentAlive(c) \/ world.faults # 0
    BY <1>1, <1>3, <1>4 DEF Job!ParentAlive, Job!Ended, Job!Outcomes, JobFaultlessAt
  <2>2. world.tree[world.ctrl[c].commit] = "ready" \/ world.faults # 0
    BY <1>1, <1>3 DEF JobFaultlessAt
  <2> QED
    BY <2>1, <2>2 DEF Job!Boot, Job!SendReady, Job!At, Job!Become
<1>6. PICK r \in JobControllers :
        /\ world' = [world EXCEPT !.ctrl[c] = r, !.own = world.own] /\ r.commit = old.commit
        /\ r.plan \in {Job!NoPlan, disk.plan}
        /\ \/ r.pc = "permitted" /\ ~r.sent
           \/ r.pc = "ready" /\ r.sent
           \/ r.pc = "dead" /\ ~r.sent /\ world.faults # 0
  <2>1. CASE old.pc = "boot" /\ world' = [world EXCEPT !.ctrl[c].pc = "permitted", !.ctrl[c].plan = disk.plan]
    <3> DEFINE r == [old EXCEPT !.pc = "permitted", !.plan = disk.plan]
    <3>1. r \in JobControllers /\ r.pc = "permitted" /\ r.commit = old.commit /\ r.plan = disk.plan
          /\ r.sent = old.sent
      BY <1>2 DEF JobControllers
    <3>2. world' = [world EXCEPT !.ctrl[c] = r, !.own = world.own]
      BY <1>2, <2>1 DEF JobWorlds
    <3> HIDE DEF r
    <3> QED
      BY <1>3, <3>1, <3>2
  <2>2. CASE old.pc = "permitted" /\ world' = [world EXCEPT !.ctrl[c].pc = "ready", !.ctrl[c].sent = TRUE]
    <3> DEFINE r == [old EXCEPT !.pc = "ready", !.sent = TRUE]
    <3>1. r \in JobControllers /\ r.pc = "ready" /\ r.commit = old.commit /\ r.plan = old.plan
          /\ r.sent
      BY <1>2 DEF JobControllers, JobSaid
    <3>2. world' = [world EXCEPT !.ctrl[c] = r, !.own = world.own]
      BY <1>2, <2>2 DEF JobWorlds
    <3> HIDE DEF r
    <3> QED
      BY <1>3, <3>1, <3>2
  <2>3. CASE world' = [world EXCEPT !.ctrl[c].pc = "dead"] /\ world.faults # 0
    <3> DEFINE r == [old EXCEPT !.pc = "dead"]
    <3>1. r \in JobControllers /\ r.pc = "dead" /\ r.commit = old.commit /\ r.plan = old.plan
          /\ r.sent = old.sent
      BY <1>2 DEF JobControllers
    <3>2. world' = [world EXCEPT !.ctrl[c] = r, !.own = world.own]
      BY <1>2, <2>3 DEF JobWorlds
    <3> HIDE DEF r
    <3> QED
      BY <1>3, <2>3, <3>1, <3>2
  <2> QED
    BY <1>5, <2>1, <2>2, <2>3
<1>7. /\ world' \in JobWorlds /\ world'.reg = world.reg /\ world'.tree = world.tree
      /\ world'.work = world.work /\ world'.reused = world.reused
      /\ world'.faults = world.faults /\ world'.late = world.late /\ world'.own = world.own
      /\ \A m \in Job!Launches \ {c} : world'.ctrl[m] = world.ctrl[m]
      /\ world'.ctrl[c] = r
  BY <1>2, <1>6, JobBecomes
<1>8. JobControlledAt(c)'
  BY <1>1, <1>3, <1>4, <1>6, <1>7 DEF JobControlledAt, JobSaid, JobServed, JobOwning
<1>9. JobOwnedAt(c)'
  BY <1>1, <1>3, <1>6, <1>7 DEF JobOwnedAt, JobOwning
<1>10. JobFaultlessAt(c)'
  BY <1>1, <1>3, <1>6, <1>7 DEF JobFaultlessAt
<1>11. old.pc \notin JobServed
  BY <1>3 DEF JobServed, JobOwning
<1> QED
  BY <1>1, <1>3, <1>7, <1>8, <1>9, <1>10, <1>11, JobControls DEF JobTyped

\* The workflow's lock, and the lease: from the one who finds it free to the one
\* who is done.
LEMMA JobServes ==
  ASSUME Job!JobAssumption, JobInv, NEW c \in Job!Launches,
         \/ Job!Acquire(c) \/ Job!PutLease(c) \/ Job!Heartbeat(c) \/ Job!DropLease(c)
         \/ Job!Unlock(c) \/ Job!Exit(c)
  PROVE  JobInv'
<1>1. /\ JobTyped /\ JobRegisteredAt(c) /\ JobControlledAt(c) /\ JobFaultlessAt(c) /\ JobOwnedAt(c)
  BY DEF JobInv
<1> DEFINE old == world.ctrl[c]
<1>2. /\ world \in JobWorlds /\ old \in JobControllers /\ world.own \in 0..NumLaunches
      /\ c \in 0..NumLaunches /\ 0 \in 0..NumLaunches /\ c # 0
  BY <1>1 DEF JobTyped, JobWorlds, Job!Launches, Job!JobAssumption
<1>3. PICK q \in {"leasing", "away", "running", "closing", "flushing", "done"}, o \in {0, c, world.own} :
        /\ launch' = launch /\ world' = [world EXCEPT !.ctrl[c].pc = q, !.own = o]
        /\ \/ /\ old.pc = "ready" /\ disk' = disk
              /\ \/ q = "leasing" /\ world.own = 0 /\ o = c
                 \/ q = "away" /\ world.own # 0 /\ o = world.own
           \/ /\ old.pc \in {"leasing", "running"} /\ q = "running" /\ o = world.own
              /\ disk' = [disk EXCEPT !.lease = c]
           \/ /\ old.pc = "running" /\ q = "closing" /\ o = world.own
              /\ disk' = [disk EXCEPT !.lease = IF @ = c THEN 0 ELSE @]
           \/ old.pc = "closing" /\ q = "flushing" /\ o = 0 /\ disk' = disk
           \/ old.pc = "flushing" /\ q = "done" /\ o = world.own /\ disk' = disk
  <2>0. world.ctrl \in [Job!Launches -> JobControllers] /\ world.own = world.own
    BY <1>2 DEF JobWorlds
  <2>1. \A q : [world EXCEPT !.ctrl[c].pc = q, !.own = world.own] = [world EXCEPT !.ctrl[c].pc = q]
    BY <1>2 DEF JobWorlds
  <2>2. CASE Job!Acquire(c)
    BY <2>1, <2>2 DEF Job!Acquire, Job!At, Job!Become
  <2>3. CASE Job!PutLease(c)
    BY <2>1, <2>3 DEF Job!PutLease, Job!At, Job!Become
  <2>4. CASE Job!Heartbeat(c)
    <3>1. /\ old.pc = "running" /\ disk' = [disk EXCEPT !.lease = c] /\ launch' = launch
          /\ world' = world
      BY <2>4 DEF Job!Heartbeat, Job!At
    <3>2. world' = [world EXCEPT !.ctrl[c].pc = "running", !.own = world.own]
      BY <1>2, <2>0, <3>1 DEF JobWorlds, JobControllers
    <3> QED
      BY <3>1, <3>2
  <2>5. CASE Job!DropLease(c)
    BY <2>1, <2>5 DEF Job!DropLease, Job!At, Job!Become
  <2>6. CASE Job!Unlock(c)
    <3>1. world' = [world EXCEPT !.ctrl[c].pc = "flushing", !.own = 0]
      BY <1>2, <2>6 DEF Job!Unlock, JobWorlds
    <3> QED
      BY <2>6, <3>1 DEF Job!Unlock, Job!At
  <2>7. CASE Job!Exit(c)
    BY <2>1, <2>7 DEF Job!Exit, Job!At, Job!Become
  <2> QED
    BY <2>2, <2>3, <2>4, <2>5, <2>6, <2>7
<1> DEFINE r == [old EXCEPT !.pc = q]
<1>4. r \in JobControllers /\ r.pc = q /\ r.plan = old.plan /\ r.commit = old.commit
      /\ r.sent = old.sent
  BY <1>2 DEF JobControllers, JobSaid, JobServed, JobOwning
<1>5. world' = [world EXCEPT !.ctrl[c] = r, !.own = o] /\ o \in 0..NumLaunches
  BY <1>2, <1>3 DEF JobWorlds
<1> HIDE DEF r
<1>6. /\ world' \in JobWorlds /\ world'.reg = world.reg /\ world'.tree = world.tree
      /\ world'.work = world.work /\ world'.reused = world.reused
      /\ world'.faults = world.faults /\ world'.late = world.late /\ world'.own = o
      /\ \A m \in Job!Launches \ {c} : world'.ctrl[m] = world.ctrl[m]
      /\ world'.ctrl[c] = r
  BY <1>4, <1>5, JobBecomes
<1>7. /\ disk' \in JobDisks /\ disk'.params = disk.params /\ disk'.plan = disk.plan
      /\ disk'.pin = disk.pin
      /\ disk'.lease = CASE q = "running" -> c
                         [] q = "closing" -> IF disk.lease = c THEN 0 ELSE disk.lease
                         [] OTHER -> disk.lease
  BY <1>1, <1>2, <1>3 DEF JobTyped, JobDisks
<1>8. old.pc \in JobOwning <=> world.own = c
  BY <1>1 DEF JobOwnedAt
<1>9. /\ old.pc \in JobSaid /\ old.pc \notin {"none", "away", "dead"} /\ q \in JobSaid
      /\ old.pc \in JobServed => q \in JobServed
      /\ q \in JobOwning <=> o = c
  BY <1>2, <1>3, <1>8 DEF JobSaid, JobServed, JobOwning
<1>10. JobControlledAt(c)'
  BY <1>1, <1>3, <1>4, <1>6, <1>7, <1>9 DEF JobControlledAt, Job!Running, Job!Gone
<1>11. JobOwnedAt(c)'
  BY <1>2, <1>3, <1>4, <1>6, <1>7, <1>9 DEF JobOwnedAt
<1>12. JobFaultlessAt(c)'
  <2>1. q = "away" => \E m \in Job!Launches : world'.ctrl[m].pc \in JobServed
    <3>1. SUFFICES ASSUME q = "away"
                   PROVE  \E m \in Job!Launches : world'.ctrl[m].pc \in JobServed
      OBVIOUS
    <3>2. world.own \in Job!Launches /\ old.pc = "ready" /\ world.own # 0
      BY <1>2, <1>3, <3>1 DEF Job!Launches
    <3>3. world.ctrl[world.own].pc \in JobOwning
      BY <3>2 DEF JobInv, JobOwnedAt
    <3>4. world.own # c
      BY <3>2, <3>3 DEF JobOwning
    <3> QED
      BY <1>6, <3>2, <3>3, <3>4 DEF JobServed
  <2> QED
    BY <1>1, <1>3, <1>4, <1>6, <1>9, <2>1 DEF JobFaultlessAt
<1>13. world'.own = world.own \/ (world.own \in {0, c} /\ world'.own \in {0, c})
  BY <1>3, <1>6, <1>8 DEF JobOwning
<1>14. disk'.lease = disk.lease \/ (disk'.lease \in {0, c} /\ world.own = c)
  BY <1>3, <1>7, <1>8 DEF JobOwning
<1> QED
  BY <1>3, <1>4, <1>6, <1>7, <1>9, <1>10, <1>11, <1>12, <1>13, <1>14, JobControls

LEMMA JobControllerFaults ==
  ASSUME Job!JobAssumption, JobInv, NEW c \in Job!Launches, Job!ControllerDies(c) \/ Job!LateBeat(c)
  PROVE  JobInv'
<1>1. /\ JobTyped /\ JobRegisteredAt(c) /\ JobControlledAt(c) /\ JobFaultlessAt(c) /\ JobOwnedAt(c)
      /\ c # 0
  BY DEF JobInv, Job!Launches
<1>2. CASE Job!ControllerDies(c)
  <2> DEFINE w == Job!Killed(c, world)
  <2>1. Job!Faulty(w) /\ Job!Running(c) /\ disk' = disk /\ launch' = launch
    BY <1>2 DEF Job!ControllerDies
  <2>2. /\ w \in JobWorlds /\ w.reg = world.reg /\ w.tree = world.tree
        /\ w.work = world.work /\ w.late = world.late /\ w.reused = world.reused
        /\ w.faults = world.faults
        /\ \A m \in Job!Launches \ {c} : w.ctrl[m] = world.ctrl[m]
        /\ w.own = (IF world.own = c THEN 0 ELSE world.own)
        /\ w.ctrl[c].pc = (IF world.ctrl[c].pc \in Job!Gone THEN world.ctrl[c].pc ELSE "dead")
        /\ w.ctrl[c].plan = world.ctrl[c].plan /\ w.ctrl[c].commit = world.ctrl[c].commit
        /\ w.ctrl[c].sent = world.ctrl[c].sent
    BY JobKills
  <2> HIDE DEF w
  <2>3. /\ world' \in JobWorlds /\ world'.ctrl = w.ctrl /\ world'.own = w.own /\ world'.reg = w.reg
        /\ world'.tree = w.tree /\ world'.work = w.work /\ world'.late = w.late
        /\ world'.reused = w.reused /\ world'.faults # 0
    BY <2>1, <2>2, JobFaults
  <2>4. world'.ctrl[c].pc = "dead" /\ world.ctrl[c].pc # "none"
    BY <2>1, <2>2, <2>3 DEF Job!Running, Job!Gone
  <2>5. JobControlledAt(c)'
    BY <1>1, <2>1, <2>2, <2>3, <2>4 DEF JobControlledAt, Job!Running, Job!Gone, JobSaid,
       JobServed, JobOwning
  <2>6. JobOwnedAt(c)'
    BY <1>1, <2>1, <2>2, <2>3, <2>4 DEF JobOwnedAt, JobOwning
  <2>7. JobFaultlessAt(c)'
    BY <2>3 DEF JobFaultlessAt
  <2> QED
    BY <1>1, <2>1, <2>2, <2>3, <2>5, <2>6, <2>7, JobControls DEF JobTyped
<1>3. CASE Job!LateBeat(c)
  <2> DEFINE w == [world EXCEPT !.late = TRUE]
  <2>1. /\ Job!Faulty(w) /\ world.ctrl[c].pc \in {"closing", "flushing"}
        /\ disk' = [disk EXCEPT !.lease = c] /\ launch' = launch
    BY <1>3 DEF Job!LateBeat
  <2>2. /\ w \in JobWorlds /\ w.reg = world.reg /\ w.tree = world.tree /\ w.ctrl = world.ctrl
        /\ w.work = world.work /\ w.late = TRUE /\ w.reused = world.reused
        /\ w.faults = world.faults /\ w.own = world.own
    BY <1>1 DEF JobTyped, JobWorlds
  <2> HIDE DEF w
  <2>3. /\ world' \in JobWorlds /\ world'.ctrl = w.ctrl /\ world'.own = w.own /\ world'.reg = w.reg
        /\ world'.tree = w.tree /\ world'.work = w.work /\ world'.late = w.late
        /\ world'.reused = w.reused /\ world'.faults # 0
    BY <2>1, <2>2, JobFaults
  <2>4. /\ disk' \in JobDisks /\ disk'.params = disk.params /\ disk'.plan = disk.plan
        /\ disk'.pin = disk.pin /\ disk'.lease = c
    BY <1>1, <2>1 DEF JobTyped, JobDisks, Job!Launches
  <2>5. JobControlledAt(c)'
    BY <1>1, <2>1, <2>2, <2>3, <2>4 DEF JobControlledAt, Job!Running
  <2>6. JobOwnedAt(c)'
    BY <1>1, <2>1, <2>2, <2>3, <2>4 DEF JobOwnedAt
  <2>7. JobFaultlessAt(c)'
    BY <2>3 DEF JobFaultlessAt
  <2> QED
    BY <2>1, <2>2, <2>3, <2>4, <2>5, <2>6, <2>7, JobControls
<1> QED
  BY <1>2, <1>3

\* The worktrees, the checkout of the developer, the pids.
LEMMA JobAround ==
  ASSUME Job!JobAssumption, JobInv,
         \/ Job!Develop
         \/ \E k \in Job!Commits : Job!GitAdds(k) \/ Job!GitFails(k) \/ Job!Sweep(k)
         \/ \E c \in Job!Launches : Job!ReusePid(c)
  PROVE  JobInv'
<1>1. JobTyped /\ JobTrees /\ \A l \in Job!Launches : JobFaultlessAt(l)
  BY DEF JobInv
<1>2. world \in JobWorlds /\ world.tree \in [Job!Commits -> JobTreeStates]
  BY <1>1 DEF JobTyped, JobWorlds
<1>3. CASE Job!Develop
  <2>1. /\ launch' = launch /\ disk' = disk /\ world' \in JobWorlds /\ world'.ctrl = world.ctrl
        /\ world'.reg = world.reg /\ world'.own = world.own /\ world'.late = world.late
        /\ world'.tree = world.tree /\ world'.reused = world.reused
        /\ world'.faults = world.faults /\ (world'.work = 1 => world.work = 1)
    BY <1>2, <1>3 DEF Job!Develop, JobWorlds, Job!Commits
  <2>2. JobTrees' /\ JobTyped'
    BY <1>1, <2>1 DEF JobTrees, JobTyped
  <2>3. \A l \in Job!Launches : JobFaultlessAt(l)'
    BY <1>1, <2>1 DEF JobFaultlessAt
  <2> QED
    BY <2>1, <2>2, <2>3, JobWeather
<1>4. ASSUME NEW k \in Job!Commits, Job!GitAdds(k) PROVE JobInv'
  <2>1. /\ launch' = launch /\ disk' = disk /\ world.tree[k] = "adding"
        /\ world' = [world EXCEPT !.tree[k] = "ready"]
    BY <1>4 DEF Job!GitAdds
  <2>2. /\ world' \in JobWorlds /\ world'.ctrl = world.ctrl
        /\ world'.reg = world.reg /\ world'.own = world.own /\ world'.late = world.late
        /\ world'.reused = world.reused /\ world'.faults = world.faults
        /\ world'.work = world.work /\ world'.tree = [world.tree EXCEPT ![k] = "ready"]
    BY <1>2, <2>1 DEF JobWorlds, JobTreeStates
  <2>3. /\ world'.tree[k] = "ready"
        /\ \A j \in Job!Commits \ {k} : world'.tree[j] = world.tree[j]
    BY <1>2, <2>2
  <2>4. JobTrees' /\ JobTyped'
    BY <1>1, <2>1, <2>2, <2>3 DEF JobTrees, JobTyped
  <2>5. ASSUME NEW l \in Job!Launches PROVE JobFaultlessAt(l)'
    <3>1. JobFaultlessAt(l) /\ JobRegisteredAt(l) /\ JobControlledAt(l)
      BY DEF JobInv
    <3>2. launch[l].pc \in {"adding", "params", "plan", "pin", "guide", "lease", "spawn"} =>
            launch[l].commit \in Job!Commits
      BY <3>1 DEF JobRegisteredAt, JobHolding
    <3>3. world.ctrl[l].pc # "none" => world.ctrl[l].commit \in Job!Commits
      BY <1>1, <3>1 DEF JobControlledAt, JobTyped, JobDisks, Job!Commits
    <3> QED
      BY <2>1, <2>2, <2>3, <3>1, <3>2, <3>3 DEF JobFaultlessAt
  <2> QED
    BY <2>1, <2>2, <2>4, <2>5, JobWeather
<1>5. ASSUME NEW w \in JobWorlds, Job!Faulty(w), launch' = launch, disk' = disk,
             w.ctrl = world.ctrl, w.reg = world.reg, w.own = world.own, w.late = world.late,
             w.work = world.work, w.faults = world.faults
      PROVE  JobInv'
  <2>1. /\ world' \in JobWorlds /\ world'.ctrl = w.ctrl /\ world'.own = w.own /\ world'.reg = w.reg
        /\ world'.work = w.work /\ world'.late = w.late /\ world'.faults # 0
    BY <1>5, JobFaults
  <2>2. JobTrees' /\ JobTyped' /\ \A l \in Job!Launches : JobFaultlessAt(l)'
    BY <1>1, <1>5, <2>1 DEF JobTrees, JobTyped, JobFaultlessAt
  <2> QED
    BY <1>5, <2>1, <2>2, JobWeather
<1>6. ASSUME NEW k \in Job!Commits, Job!GitFails(k) \/ Job!Sweep(k) PROVE JobInv'
  <2>1. PICK t \in {"absent", "partial", "missing"} : Job!Faulty([world EXCEPT !.tree[k] = t])
    BY <1>6 DEF Job!GitFails, Job!Sweep
  <2>2. launch' = launch /\ disk' = disk /\ t \in JobTreeStates
    BY <1>6 DEF Job!GitFails, Job!Sweep, JobTreeStates
  <2> DEFINE w == [world EXCEPT !.tree[k] = t]
  <2>3. /\ w \in JobWorlds /\ w.ctrl = world.ctrl /\ w.reg = world.reg /\ w.own = world.own
        /\ w.late = world.late /\ w.work = world.work /\ w.faults = world.faults
    BY <1>2, <2>2 DEF JobWorlds
  <2> QED
    BY <1>5, <2>1, <2>2, <2>3
<1>7. ASSUME NEW c \in Job!Launches, Job!ReusePid(c) PROVE JobInv'
  <2> DEFINE w == [world EXCEPT !.reused = @ \cup {c}]
  <2>1. Job!Faulty(w) /\ launch' = launch /\ disk' = disk
    BY <1>7 DEF Job!ReusePid
  <2>2. /\ w \in JobWorlds /\ w.ctrl = world.ctrl /\ w.reg = world.reg /\ w.own = world.own
        /\ w.late = world.late /\ w.work = world.work /\ w.faults = world.faults
    BY <1>2 DEF JobWorlds
  <2> QED
    BY <1>5, <2>1, <2>2
<1> QED
  BY <1>3, <1>4, <1>6, <1>7

LEMMA JobStep ==
  ASSUME Job!JobAssumption, JobInv, Job!JobNext
  PROVE  JobInv'
<1>1. ASSUME NEW l \in Job!Launches, Job!LaunchStep(l) PROVE JobInv'
  <2>1. CASE Job!Compare(l)
    BY <2>1, JobDecides, JobTakesCommit
  <2>2. CASE Job!Ensure(l)
    BY <2>2, JobDecides, JobAdds
  <2>3. CASE Job!Spawn(l)
    BY <2>3, JobDecides, JobSpawns
  <2>4. CASE Job!Added(l) \/ Job!FindLease(l) \/ Job!AwaitReady(l)
    BY <2>4, JobDecides
  <2>5. CASE Job!RequireCommitted(l) \/ Job!Lock(l)
    BY <2>5, JobBegins
  <2>6. CASE Job!WriteParams(l) \/ Job!WritePlan(l) \/ Job!WritePin(l) \/ Job!WriteGuide(l)
    BY <2>6, JobWrites
  <2>7. CASE Job!Start(l)
    BY <2>7, JobStarts
  <2>8. CASE Job!Terminate(l)
    BY <2>8, JobTerminates
  <2> QED
    BY <1>1, <2>1, <2>2, <2>3, <2>4, <2>5, <2>6, <2>7, <2>8 DEF Job!LaunchStep
<1>2. ASSUME NEW c \in Job!Launches, Job!ControllerStep(c) PROVE JobInv'
  BY <1>2, JobBoots, JobServes DEF Job!ControllerStep, Job!Startup
<1>3. ASSUME Job!Around PROVE JobInv'
  BY <1>3, JobAround, JobLaunchFaults, JobControllerFaults DEF Job!Around
<1>4. ASSUME NEW k \in Job!Commits, Job!GitAdds(k) PROVE JobInv'
  BY <1>4, JobAround
<1> QED
  BY <1>1, <1>2, <1>3, <1>4 DEF Job!JobNext

LEMMA JobSafe ==
  ASSUME Job!JobAssumption, JobInv
  PROVE  Job!JobTypeOK /\ Job!JobIsSound
<1>1. JobTyped /\ JobTrees /\ JobPlanned
  BY DEF JobInv
<1>2. ASSUME NEW l \in Job!Launches
      PROVE  JobRegisteredAt(l) /\ JobControlledAt(l) /\ JobOwnedAt(l) /\ JobFaultlessAt(l)
             /\ launch[l] \in JobLaunches /\ world.ctrl[l] \in JobControllers
  BY DEF JobInv, JobTyped, JobWorlds
<1>3. Job!JobTypeOK
  <2>1. ASSUME NEW l \in Job!Launches
        PROVE  /\ launch[l].pc \in Job!Outcomes \cup
                    {"idle", "check", "lock", "compare", "ensure", "adding", "params", "plan", "pin",
                     "guide", "lease", "spawn", "wait", "kill"}
               /\ world.ctrl[l].pc \in Job!Gone \cup
                    {"boot", "permitted", "ready", "leasing", "running", "closing", "flushing"}
    <3>1. launch[l].pc \in JobPlaces
          /\ world.ctrl[l].pc \in JobSaid \cup {"none", "dead", "boot", "permitted"}
      BY <1>2 DEF JobLaunches, JobControllers
    <3> QED
      BY <3>1 DEF JobPlaces, JobHolding, JobSaid, JobServed, JobOwning, Job!Gone
  <2>2. /\ disk.params \in Asks \cup {"none"} /\ disk.pin \in 0..2 /\ disk.lease \in 0..NumLaunches
        /\ disk.guide \in BOOLEAN /\ {world.reg, world.own} \subseteq 0..NumLaunches
        /\ world.faults \in 0..MaxFaults
    BY <1>1 DEF JobTyped, JobDisks, JobWorlds
  <2> QED
    BY <2>1, <2>2 DEF Job!JobTypeOK
<1>4. Job!RunsTheRegistration
  <2>1. ASSUME NEW c \in Job!Launches, world.ctrl[c].plan # Job!NoPlan
        PROVE  world.ctrl[c].plan = disk.plan /\ world.ctrl[c].commit = disk.pin
    BY <1>2, <2>1 DEF JobControlledAt, Job!NoController
  <2> QED
    BY <1>1, <2>1 DEF Job!RunsTheRegistration, JobPlanned
<1>5. Job!OutcomesAreTrue
  <2>1. ASSUME NEW l \in Job!Launches
        PROVE  /\ launch[l].pc = "started" => launch[l].plan = disk.plan /\ world.ctrl[l].sent
               /\ launch[l].pc \in Job!Outcomes \ {"started", "crashed"} => ~Job!Running(l)
    BY <1>2 DEF JobRegisteredAt, JobControlledAt, Job!Outcomes, Job!Running, Job!Gone
  <2> QED
    BY <2>1 DEF Job!OutcomesAreTrue
<1>6. Job!LeaseNamesTheOwner
  BY <1>2 DEF Job!LeaseNamesTheOwner, Job!At, JobOwnedAt, JobOwning
<1>7. Job!RefusedForCause
  <2>1. world.faults \in Nat
    BY <1>1, <1>2 DEF JobTyped, JobWorlds
  <2>2. ASSUME NEW l \in Job!Launches
        PROVE  /\ launch[l].pc = "different" /\ world.work = 1 => launch[l].plan.ask # disk.params
               /\ launch[l].pc \in {"failed", "runtime"} => world.faults > 0
               /\ launch[l].pc = "live" /\ world.faults = 0 =>
                    \E m \in Job!Launches \ {l} : launch[m].pc = "started"
    BY <1>2, <2>1 DEF JobRegisteredAt, JobFaultlessAt
  <2> QED
    BY <2>2 DEF Job!RefusedForCause
<1>8. Job!SomebodyHasIt
  <2>1. SUFFICES ASSUME world.faults = 0, NEW l \in Job!Launches, launch[l].pc = "started"
                 PROVE  \E c \in Job!Launches : world.ctrl[c].pc \notin {"none", "away", "dead"}
    BY DEF Job!SomebodyHasIt
  <2>2. world.ctrl[l].pc # "none" /\ world.ctrl[l].pc # "dead"
    BY <1>2, <2>1 DEF JobControlledAt, JobFaultlessAt
  <2>3. CASE world.ctrl[l].pc = "away"
    <3>1. PICK m \in Job!Launches : world.ctrl[m].pc \in JobServed
      BY <1>2, <2>1, <2>3 DEF JobFaultlessAt
    <3> QED
      BY <3>1 DEF JobServed, JobOwning
  <2> QED
    BY <2>2, <2>3
<1> QED
  BY <1>3, <1>4, <1>5, <1>6, <1>7, <1>8 DEF Job!JobIsSound

LEMMA JobStepKeeps ==
  ASSUME Job!JobAssumption, JobInv, [Job!JobNext]_<<disk, launch, world>>
  PROVE  JobInv'
<1>1. CASE UNCHANGED <<disk, launch, world>>
  BY <1>1 DEF JobInv, JobTyped, JobPlanned, JobTrees, JobRegisteredAt, JobControlledAt,
     JobOwnedAt, JobFaultlessAt, Job!Running
<1> QED
  BY <1>1, JobStep

JobSpec == Job!JobInit /\ [][Job!JobNext]_<<disk, launch, world>>

\* OperatorJob: whatever launches of a job overlap and whatever dies, every
\* controller runs the one registered plan on its commit, what a launch says is so,
\* the lease names who runs, a refusal has a cause, and a job that was said to be
\* started is somebody's.
THEOREM JobsRunWhatIsRegistered ==
  ASSUME Job!JobAssumption
  PROVE  JobSpec => [](Job!JobTypeOK /\ Job!JobIsSound)
<1>1. Job!JobInit => JobInv
  BY JobInitHolds
<1>2. JobInv /\ [Job!JobNext]_<<disk, launch, world>> => JobInv'
  BY JobStepKeeps
<1>3. JobInv => Job!JobTypeOK /\ Job!JobIsSound
  BY JobSafe
<1> QED
  BY <1>1, <1>2, <1>3, PTL DEF JobSpec

-----------------------------------------------------------------------------
(* SelfPlayEngine: the parent, its workers and the broker of one run.      *)

\* What a worker, a request and a request of a batch are made of.
EngStates ==
  [st : {"run", "wait", "exited", "dead"}, tasks : Seq(Eng!Games \cup {Eng!Stop}),
   active : [Eng!Slots -> Eng!Games \cup {Eng!Free}], asked : [Eng!Games -> 0..Evals], id : Nat,
   sent : SUBSET Eng!Slots, stop : BOOLEAN, input : [Eng!Slots -> Eng!Contents],
   output : [Eng!Slots -> Eng!Contents], done : SUBSET Eng!Games, failed : BOOLEAN,
   responses : Seq([id : Nat, ok : BOOLEAN, slots : SUBSET Eng!Slots])]
EngRequests == [worker : Eng!Workers, id : Nat, slots : (SUBSET Eng!Slots) \ {{}}]
EngStaged == [worker : Eng!Workers, id : Nat, slots : (SUBSET Eng!Slots) \ {{}},
                   rows : SUBSET (Eng!Slots \X Eng!Contents)]

EngTyped ==
  /\ parent \in [pc : {"loop", "join", "returned", "raised"}, pending : Seq(Eng!Games),
                 completed : SUBSET Eng!Games, fatal : BOOLEAN, faults : 0..EngineFaults]
  /\ worker \in [Eng!Workers -> EngStates]
  /\ broker \in [requests : Seq(EngRequests), queue : Seq(EngRequests), batch : Seq(EngStaged)]
  /\ \A i \in DOMAIN broker.batch : \A s \in broker.batch[i].slots :
       \E c \in Eng!Contents : <<s, c>> \in broker.batch[i].rows

\* A worker has one request under way at most, in one place, and none while it runs.
EngFrom(s, w) == \E i \in DOMAIN s : s[i].worker = w
EngOneEach(s) == \A i, j \in DOMAIN s : s[i].worker = s[j].worker => i = j
EngAsked(w) == EngFrom(broker.requests, w) \/ EngFrom(broker.queue, w) \/ EngFrom(broker.batch, w)

EngOneRequest ==
  /\ EngOneEach(broker.requests) /\ EngOneEach(broker.queue) /\ EngOneEach(broker.batch)
  /\ \A w \in Eng!Workers :
       /\ EngFrom(broker.requests, w) => ~EngFrom(broker.queue, w) /\ ~EngFrom(broker.batch, w)
       /\ EngFrom(broker.queue, w) => ~EngFrom(broker.batch, w)
       /\ EngAsked(w) => worker[w].responses = <<>>
       /\ worker[w].st = "run" => ~EngAsked(w) /\ worker[w].responses = <<>>
       /\ Len(worker[w].responses) <= 1

\* What is under way for a worker that waits is what it asked, and was staged
\* and answered from the slots that it wrote.
EngAsks(w, r) == r.worker = w => r.id = worker[w].id /\ r.slots = worker[w].sent
EngPosition(w, s) == <<worker[w].active[s], worker[w].asked[worker[w].active[s]]>>

EngOwnRequest ==
  \A w \in Eng!Workers : worker[w].st = "wait" =>
    /\ \A i \in DOMAIN broker.requests : EngAsks(w, broker.requests[i])
    /\ \A i \in DOMAIN broker.queue : EngAsks(w, broker.queue[i])
    /\ \A i \in DOMAIN broker.batch :
         /\ EngAsks(w, broker.batch[i])
         /\ broker.batch[i].worker = w =>
              broker.batch[i].rows = {<<s, worker[w].input[s]>> : s \in worker[w].sent}
    /\ \A s \in worker[w].sent : worker[w].input[s] = EngPosition(w, s)
    /\ \A i \in DOMAIN worker[w].responses :
         LET r == worker[w].responses[i] IN
         /\ r.id = worker[w].id /\ r.slots = worker[w].sent
         /\ r.ok => \A s \in worker[w].sent : worker[w].output[s] = EngPosition(w, s)
         /\ ~r.ok => parent.faults > 0

\* A game is in one place at most, whoever dies.
EngHolds(w, g) == Eng!Queued(w, g) \/ Eng!Played(w, g) \/ g \in worker[w].done
EngPending(g) == \E i \in DOMAIN parent.pending : parent.pending[i] = g

EngPlacedOnce ==
  /\ \A i, j \in DOMAIN parent.pending : parent.pending[i] = parent.pending[j] => i = j
  /\ \A g \in Eng!Games : EngPending(g) => g \notin parent.completed
  /\ \A w \in Eng!Workers :
       /\ \A i, j \in DOMAIN worker[w].tasks :
            worker[w].tasks[i] = worker[w].tasks[j] /\ worker[w].tasks[i] # Eng!Stop => i = j
       /\ \A s, t \in Eng!Slots :
            worker[w].active[s] = worker[w].active[t] /\ worker[w].active[s] # Eng!Free => s = t
       /\ \A g \in Eng!Games :
            /\ Eng!Queued(w, g) => ~Eng!Played(w, g) /\ g \notin worker[w].done
            /\ Eng!Played(w, g) => g \notin worker[w].done
            /\ EngHolds(w, g) => /\ ~EngPending(g) /\ g \notin parent.completed
                                 /\ \A v \in Eng!Workers \ {w} : ~EngHolds(v, g)

\* A game is somewhere, unless a worker was killed.
EngNoneLost ==
  (\A w \in Eng!Workers : worker[w].st # "dead") =>
    \A g \in Eng!Games : g \in parent.completed \/ EngPending(g) \/ \E w \in Eng!Workers : EngHolds(w, g)

\* Nobody is told to stop before all is collected, and trouble has a cause.
EngEndsForCause ==
  /\ parent.pc \in {"join", "returned"} => parent.completed = Eng!Games
  /\ parent.pc \in {"returned", "raised"} => \A w \in Eng!Workers : ~Eng!Alive(w)
  /\ parent.pc = "raised" \/ parent.fatal
       \/ (\E w \in Eng!Workers : worker[w].failed \/ worker[w].st = "dead") => parent.faults > 0
  /\ parent.pc = "loop" =>
       \A w \in Eng!Workers : /\ ~worker[w].stop /\ ~Eng!Queued(w, Eng!Stop)
                              /\ worker[w].st = "exited" => worker[w].failed

EngInv ==
  EngTyped /\ EngOneRequest /\ EngOwnRequest /\ EngPlacedOnce /\ EngNoneLost /\ EngEndsForCause

-----------------------------------------------------------------------------
(* The contexts, and who is given which of the first games.                *)

\* The instance counts as this module does.
LEMMA EngCount == ASSUME NEW S PROVE Eng!Cardinality(S) = Cardinality(S)
  BY DEF Cardinality, Eng!Cardinality

\* A set of numbers that is not empty has a least one.
LEMMA LeastOf == ASSUME NEW T \in SUBSET Nat, T # {} PROVE \E x \in T : \A y \in T : x <= y
<1> DEFINE R == {ss \in Nat \X Nat : ss[1] < ss[2]}
<1>1. IsWellFoundedOn(R, Nat)
  BY NatLessThanWellFounded, Zenon DEF OpToRel
<1>2. PICK x \in T : \A y \in T : ~ (<<y, x>> \in R)
  <2> HIDE DEF R
  <2> QED BY <1>1, WFMin, Zenon
<1>3. \A y \in T : x <= y
  <2> TAKE y \in T
  <2>1. x \in Nat /\ y \in Nat /\ ~(y < x)
    BY <1>2
  <2> QED BY <2>1
<1> QED
  BY <1>3

\* Division with a remainder.
LEMMA Division ==
  ASSUME NEW n \in Nat, NEW d \in Nat \ {0}
  PROVE  /\ n \div d \in Nat /\ n % d \in 0..d - 1
         /\ n = d * (n \div d) + (n % d)
<1>1. n \div d \in Nat
  OBVIOUS
<1>2. n % d \in 0..d - 1
  OBVIOUS
<1>3. n = d * (n \div d) + (n % d)
  OBVIOUS
<1> QED
  BY <1>1, <1>2, <1>3

\* There is work for every worker, and no worker has more contexts than the
\* first, whose requests fit a batch.
LEMMA EngContexts1 ==
  ASSUME Eng!EngineAssumption
  PROVE  /\ Eng!Count \in Nat \ {0} /\ Eng!Target \in 1..NumGames
         /\ \A w \in Eng!Workers : Eng!PerWorker(w) \in Nat /\ Eng!PerWorker(w) <= Eng!PerWorker(1)
         /\ Eng!PerWorker(1) \in 1..BatchCap
         /\ IsFiniteSet(Eng!Slots) /\ Cardinality(Eng!Slots) = Eng!PerWorker(1)
<1>1. /\ NumGames \in Nat \ {0} /\ NumWorkers \in Nat \ {0} /\ Contexts \in Nat \ {0}
      /\ Total \in Nat \ {0} /\ BatchCap \in Nat \ {0} /\ Contexts <= BatchCap
  BY DEF Eng!EngineAssumption
<1>2. Eng!Count \in Nat \ {0} /\ Eng!Count <= NumGames
  BY <1>1 DEF Eng!Count, Eng!Lesser
<1>3. Eng!Count * Contexts \in Nat \ {0}
  BY <1>1, <1>2
<1>4. Eng!Target \in 1..NumGames /\ Eng!Target <= Eng!Count * Contexts
  BY <1>1, <1>3 DEF Eng!Target, Eng!Lesser
<1> DEFINE q == Eng!Target \div Eng!Count
           m == Eng!Target % Eng!Count
<1>5. q \in Nat /\ m \in 0..Eng!Count - 1 /\ Eng!Target = Eng!Count * q + m
  BY <1>2, <1>4, Division
<1>6. \A w \in Eng!Workers : Eng!PerWorker(w) = q + (IF w <= m THEN 1 ELSE 0)
  BY DEF Eng!PerWorker
<1>7. 1 \in Eng!Workers
  BY <1>2 DEF Eng!Workers
<1>8. \A w \in Eng!Workers : Eng!PerWorker(w) \in Nat /\ Eng!PerWorker(w) <= Eng!PerWorker(1)
  <2> HIDE DEF q, m
  <2> QED BY <1>5, <1>6, <1>7, <1>2 DEF Eng!Workers
<1>9. Eng!PerWorker(1) \in 1..Contexts
  <2> HIDE DEF q, m
  <2>1. CASE m = 0
    <3>1. Eng!Count * q <= Eng!Count * Contexts /\ Eng!Count * q > 0
      BY <1>4, <1>5, <2>1, <1>2
    <3>2. q <= Contexts /\ q > 0
      BY <3>1, <1>1, <1>2, <1>5
    <3> QED BY <3>2, <2>1, <1>6, <1>7, <1>1, <1>5
  <2>2. CASE m # 0
    <3>1. Eng!Count * q < Eng!Count * Contexts
      BY <1>4, <1>5, <2>2, <1>2, <1>3
    <3>2. q < Contexts
      BY <3>1, <1>1, <1>2, <1>5
    <3> QED BY <3>2, <2>2, <1>6, <1>7, <1>1, <1>5
  <2> QED BY <2>1, <2>2
<1>10. IsFiniteSet(Eng!Slots) /\ Cardinality(Eng!Slots) = Eng!PerWorker(1)
  BY <1>9, <1>1, FS_Interval DEF Eng!Slots
<1> QED
  BY <1>1, <1>2, <1>4, <1>8, <1>9, <1>10

EngBefore(w) == (w - 1) * (Eng!Target \div Eng!Count) + Eng!Lesser(w - 1, Eng!Target % Eng!Count)

\* The first games go to the workers one after another.
LEMMA EngFirstGames ==
  ASSUME Eng!EngineAssumption
  PROVE  /\ \A w \in Eng!Workers : EngBefore(w) \in Nat /\ EngBefore(w + 1) = EngBefore(w) + Eng!PerWorker(w)
         /\ \A v, w \in Eng!Workers : v < w => EngBefore(v + 1) <= EngBefore(w)
         /\ \A g \in 1..Eng!Target : \E w \in Eng!Workers : EngBefore(w) < g /\ g <= EngBefore(w + 1)
         /\ \A w \in Eng!Workers : EngBefore(w + 1) <= Eng!Target
<1> DEFINE q == Eng!Target \div Eng!Count
           m == Eng!Target % Eng!Count
<1>1. Eng!Count \in Nat \ {0} /\ Eng!Target \in Nat /\ \A w \in Eng!Workers : w \in 1..Eng!Count
  BY EngContexts1 DEF Eng!Workers
<1>2. q \in Nat /\ m \in 0..Eng!Count - 1 /\ Eng!Target = Eng!Count * q + m
  BY <1>1, Division
<1>3. \A w \in Nat : EngBefore(w) = (w - 1) * q + Eng!Lesser(w - 1, m)
  BY DEF EngBefore
<1>4. \A w \in Eng!Workers : Eng!PerWorker(w) = q + (IF w <= m THEN 1 ELSE 0)
  BY DEF Eng!PerWorker
<1> HIDE DEF q, m
<1>5. \A v, w \in Nat \ {0} : v <= w => (v - 1) * q \in Nat /\ (v - 1) * q <= (w - 1) * q
  BY <1>2
<1>6. \A w \in Eng!Workers : EngBefore(w) \in Nat
  BY <1>1, <1>2, <1>3, <1>5 DEF Eng!Lesser
<1>7. \A w \in Eng!Workers : EngBefore(w + 1) = EngBefore(w) + Eng!PerWorker(w)
  <2> TAKE w \in Eng!Workers
  <2>1. w \in Nat \ {0} /\ (w + 1) - 1 = w /\ w * q = (w - 1) * q + q /\ (w - 1) * q \in Nat
    BY <1>1, <1>2, <1>5
  <2>2. Eng!Lesser(w, m) = Eng!Lesser(w - 1, m) + (IF w <= m THEN 1 ELSE 0)
    BY <2>1, <1>2, <1>1 DEF Eng!Lesser
  <2>3. EngBefore(w + 1) = w * q + Eng!Lesser(w, m) /\ EngBefore(w) = (w - 1) * q + Eng!Lesser(w - 1, m)
    BY <2>1, <1>3
  <2>4. Eng!Lesser(w - 1, m) \in Nat
    BY <2>1, <1>2, <1>1 DEF Eng!Lesser
  <2> HIDE DEF EngBefore
  <2> QED BY <2>1, <2>2, <2>3, <2>4, <1>4, <1>2
<1>8. \A v, w \in Nat \ {0} : v <= w => EngBefore(v) <= EngBefore(w) /\ EngBefore(v) \in Nat
  BY <1>2, <1>3, <1>5, <1>1 DEF Eng!Lesser
<1>9. \A v, w \in Eng!Workers : v < w => EngBefore(v + 1) <= EngBefore(w)
  BY <1>8, <1>1
<1>10. EngBefore(Eng!Count + 1) = Eng!Target /\ EngBefore(1) = 0
  <2>1. EngBefore(Eng!Count + 1) = Eng!Count * q + Eng!Lesser(Eng!Count, m) /\ Eng!Lesser(Eng!Count, m) = m
    BY <1>1, <1>2, <1>3 DEF Eng!Lesser
  <2>2. EngBefore(1) = 0 * q + Eng!Lesser(0, m) /\ Eng!Lesser(0, m) = 0 /\ 0 * q = 0
    BY <1>1, <1>2, <1>3 DEF Eng!Lesser
  <2> QED BY <2>1, <2>2, <1>2
<1>11. ASSUME NEW g \in 1..Eng!Target PROVE \E w \in Eng!Workers : EngBefore(w) < g /\ g <= EngBefore(w + 1)
  <2> DEFINE T == {w \in Eng!Workers : g <= EngBefore(w + 1)}
  <2>1. Eng!Count \in T /\ T \in SUBSET Nat
    BY <1>1, <1>10, <1>11 DEF Eng!Workers
  <2>2. PICK w \in T : \A y \in T : w <= y
    BY <2>1, LeastOf
  <2>3. CASE w = 1
    BY <2>2, <2>3, <1>10, <1>11 DEF Eng!Workers
  <2>4. CASE w # 1
    <3>1. w - 1 \in Eng!Workers /\ (w - 1) + 1 = w
      BY <2>2, <2>4, <1>1 DEF Eng!Workers
    <3>2. ~(w <= w - 1)
      BY <2>2, <1>1
    <3>3. ~(g <= EngBefore(w))
      BY <3>1, <3>2, <2>2
    <3>4. EngBefore(w) \in Nat
      BY <1>6, <2>2
    <3> QED BY <3>3, <3>4, <2>2, <1>11
  <2> QED BY <2>3, <2>4
<1>12. \A w \in Eng!Workers : EngBefore(w + 1) <= Eng!Target
  <2> TAKE w \in Eng!Workers
  <2>1. w + 1 \in Nat \ {0} /\ Eng!Count + 1 \in Nat \ {0} /\ w + 1 <= Eng!Count + 1
    BY <1>1
  <2> QED BY <2>1, <1>8, <1>10
<1> QED
  BY <1>6, <1>7, <1>9, <1>11, <1>12

LEMMA EngInitialTasks ==
  ASSUME Eng!EngineAssumption, NEW w \in Eng!Workers
  PROVE  /\ Eng!Initial(w) \in Seq(Eng!Games)
         /\ DOMAIN Eng!Initial(w) = 1..Eng!PerWorker(w)
         /\ \A i \in 1..Eng!PerWorker(w) : Eng!Initial(w)[i] = EngBefore(w) + i
<1>1. Eng!Initial(w) = [i \in 1..Eng!PerWorker(w) |-> EngBefore(w) + i]
  BY DEF Eng!Initial, EngBefore
<1>2. /\ Eng!PerWorker(w) \in Nat /\ EngBefore(w) \in Nat /\ Eng!Target \in Nat
      /\ EngBefore(w) + Eng!PerWorker(w) <= Eng!Target
  BY EngContexts1, EngFirstGames
<1>3. \A i \in 1..Eng!PerWorker(w) : EngBefore(w) + i \in Eng!Games
  <2>1. Eng!Target \in 1..NumGames /\ NumGames \in Nat
    BY EngContexts1 DEF Eng!EngineAssumption
  <2> QED BY <1>2, <2>1 DEF Eng!Games
<1> QED
  BY <1>1, <1>2, <1>3

\* A worker takes a task only when a slot is free.
LEMMA EngTakesIsFree ==
  ASSUME Eng!EngineAssumption, NEW w \in Eng!Workers,
         Cardinality(Eng!Busy(w)) < Eng!PerWorker(w) \/ Eng!Busy(w) = {}
  PROVE  Eng!Takes(w) \in Eng!Slots \ Eng!Busy(w)
<1>1. /\ Eng!PerWorker(w) \in Nat /\ Eng!PerWorker(w) <= Eng!PerWorker(1) /\ Eng!PerWorker(1) \in Nat \ {0}
      /\ Cardinality(Eng!Slots) = Eng!PerWorker(1) /\ 1 \in Eng!Slots /\ Eng!Slots \subseteq Nat
  BY EngContexts1 DEF Eng!Slots
<1>2. Eng!Slots \ Eng!Busy(w) # {}
  <2>1. Eng!Busy(w) \subseteq Eng!Slots
    BY DEF Eng!Busy
  <2> QED BY <1>1, <2>1
<1>3. PICK s \in Eng!Slots \ Eng!Busy(w) : \A t \in Eng!Slots \ Eng!Busy(w) : s <= t
  <2> DEFINE T == Eng!Slots \ Eng!Busy(w)
  <2>1. T \in SUBSET Nat /\ T # {}
    BY <1>1, <1>2
  <2> HIDE DEF T
  <2>2. \E s \in T : \A t \in T : s <= t
    BY <2>1, LeastOf
  <2> QED BY <2>2 DEF T
<1> QED
  BY <1>3 DEF Eng!Takes

\* A batch takes a part of the queue that is not empty.
LEMMA EngPrefixIsPart ==
  ASSUME NEW queue, Len(queue) \in Nat \ {0}
  PROVE  Eng!Prefix(queue) \in 1..Len(queue)
<1> DEFINE T == {n \in 1..Len(queue) : n = Len(queue) \/ Eng!Overfull(queue, n + 1)}
<1>1. Len(queue) \in T /\ T \in SUBSET Nat
  OBVIOUS
<1>2. PICK n \in T : \A k \in T : n <= k
  <2> HIDE DEF T
  <2> QED BY <1>1, LeastOf
<1>3. n \in 1..Len(queue) /\ (n = Len(queue) \/ Eng!Overfull(queue, n + 1))
  BY <1>2
<1>4. n = 1 \/ ~Eng!Overfull(queue, n)
  <2> SUFFICES ASSUME n # 1, Eng!Overfull(queue, n) PROVE FALSE
    OBVIOUS
  <2>1. n - 1 \in 1..Len(queue) /\ (n - 1) + 1 = n
    BY <1>3
  <2>2. n - 1 \in T
    BY <2>1
  <2>3. n <= n - 1
    BY <1>2, <2>2
  <2> QED BY <2>3, <1>3
<1> QED
  BY <1>3, <1>4 DEF Eng!Prefix

-----------------------------------------------------------------------------
LEMMA EngInitHolds == ASSUME Eng!EngineAssumption, Eng!EngineInit PROVE EngInv
<1>1. /\ Eng!Count \in Nat \ {0} /\ Eng!Target \in 1..NumGames /\ 1 \in Eng!Workers /\ 1 \in Eng!Slots
      /\ NumGames \in Nat /\ Evals \in Nat \ {0} /\ EngineFaults \in Nat /\ Eng!Nothing \in Eng!Contents
  BY EngContexts1 DEF Eng!EngineAssumption, Eng!Workers, Eng!Slots, Eng!Contents
<1>2. \A w \in Eng!Workers :
        /\ worker[w].st = "run" /\ worker[w].tasks = Eng!Initial(w) /\ worker[w].responses = <<>>
        /\ worker[w].active = [s \in Eng!Slots |-> Eng!Free] /\ worker[w].done = {}
        /\ ~worker[w].stop /\ ~worker[w].failed
  BY DEF Eng!EngineInit
<1>3. /\ parent.pc = "loop" /\ parent.completed = {} /\ ~parent.fatal
      /\ parent.pending = [i \in 1..NumGames - Eng!Target |-> Eng!Target + i]
      /\ broker = [requests |-> <<>>, queue |-> <<>>, batch |-> <<>>]
  BY DEF Eng!EngineInit
<1>4. \A w \in Eng!Workers : /\ Eng!Initial(w) \in Seq(Eng!Games) /\ DOMAIN Eng!Initial(w) = 1..Eng!PerWorker(w)
                             /\ \A i \in 1..Eng!PerWorker(w) : Eng!Initial(w)[i] = EngBefore(w) + i
                             /\ Eng!PerWorker(w) \in Nat /\ EngBefore(w) \in Nat
                             /\ EngBefore(w + 1) = EngBefore(w) + Eng!PerWorker(w)
                             /\ EngBefore(w + 1) <= Eng!Target
  BY EngInitialTasks, EngContexts1, EngFirstGames
<1>5. \A w \in Eng!Workers, g \in Eng!Games \cup {Eng!Stop} :
        Eng!Queued(w, g) <=> EngBefore(w) < g /\ g <= EngBefore(w + 1)
  <2> TAKE w \in Eng!Workers, g \in Eng!Games \cup {Eng!Stop}
  <2>1. Eng!Queued(w, g) <=> \E i \in 1..Eng!PerWorker(w) : EngBefore(w) + i = g
    BY <1>2, <1>4 DEF Eng!Queued
  <2>2. ASSUME EngBefore(w) < g, g <= EngBefore(w + 1) PROVE Eng!Queued(w, g)
    <3>1. g \in Nat
      BY DEF Eng!Games, Eng!Stop
    <3>2. g - EngBefore(w) \in 1..Eng!PerWorker(w) /\ EngBefore(w) + (g - EngBefore(w)) = g
      BY <1>4, <2>2, <3>1
    <3> QED BY <2>1, <3>2
  <2> QED BY <2>1, <2>2, <1>4
<1>6. \A g \in Eng!Games : EngPending(g) <=> g > Eng!Target
  <2> TAKE g \in Eng!Games
  <2>1. g \in 1..NumGames
    BY DEF Eng!Games
  <2>2. EngPending(g) <=> \E i \in 1..NumGames - Eng!Target : Eng!Target + i = g
    BY <1>3 DEF EngPending
  <2>3. g > Eng!Target => g - Eng!Target \in 1..NumGames - Eng!Target /\ Eng!Target + (g - Eng!Target) = g
    BY <2>1, <1>1
  <2>4. \A i \in 1..NumGames - Eng!Target : Eng!Target + i > Eng!Target
    BY <1>1
  <2> QED BY <2>2, <2>3, <2>4
<1>7. \A w \in Eng!Workers, g \in Eng!Games : ~Eng!Played(w, g) /\ (EngHolds(w, g) <=> Eng!Queued(w, g))
  BY <1>2 DEF EngHolds, Eng!Played, Eng!Games, Eng!Free
<1>8. EngTyped
  <2>1. parent.pending \in Seq(Eng!Games)
    <3>1. \A i \in 1..NumGames - Eng!Target : Eng!Target + i \in Eng!Games
      BY <1>1 DEF Eng!Games
    <3>2. NumGames - Eng!Target \in Nat
      BY <1>1
    <3> QED BY <1>3, <3>1, <3>2
  <2>2. parent \in [pc : {"loop", "join", "returned", "raised"}, pending : Seq(Eng!Games),
                 completed : SUBSET Eng!Games, fatal : BOOLEAN, faults : 0..EngineFaults]
    BY <2>1, <1>1 DEF Eng!EngineInit
  <2>3. \A w \in Eng!Workers : worker[w] \in EngStates
    <3> TAKE w \in Eng!Workers
    <3>1. Eng!Initial(w) \in Seq(Eng!Games \cup {Eng!Stop})
      BY <1>4
    <3> QED BY <3>1, <1>1 DEF Eng!EngineInit, EngStates
  <2>4. worker \in [Eng!Workers -> EngStates]
    BY <2>3 DEF Eng!EngineInit
  <2> QED BY <2>2, <2>4, <1>3 DEF EngTyped
<1>9. EngOneRequest /\ EngOwnRequest
  BY <1>2, <1>3 DEF EngOneRequest, EngOwnRequest, EngOneEach, EngFrom, EngAsked
<1>10. EngPlacedOnce
  <2>1. \A i, j \in DOMAIN parent.pending : parent.pending[i] = parent.pending[j] => i = j
    BY <1>1, <1>3
  <2>2. \A g \in Eng!Games : g \notin parent.completed
    BY <1>3
  <2>3. ASSUME NEW w \in Eng!Workers
        PROVE  \A i, j \in DOMAIN worker[w].tasks :
                 worker[w].tasks[i] = worker[w].tasks[j] /\ worker[w].tasks[i] # Eng!Stop => i = j
    BY <1>2, <1>4
  <2>4. ASSUME NEW w \in Eng!Workers, NEW g \in Eng!Games, Eng!Queued(w, g)
        PROVE  ~EngPending(g) /\ \A v \in Eng!Workers \ {w} : ~Eng!Queued(v, g)
    <3>1. g \in Nat /\ EngBefore(w) < g /\ g <= EngBefore(w + 1) /\ g <= Eng!Target
      BY <1>5, <1>4, <1>1, <2>4 DEF Eng!Games
    <3>2. ~EngPending(g)
      BY <3>1, <1>6, <1>1
    <3>3. ASSUME NEW v \in Eng!Workers \ {w}, Eng!Queued(v, g) PROVE FALSE
      <4>1. EngBefore(v) < g /\ g <= EngBefore(v + 1)
        BY <1>5, <3>3
      <4>2. v \in Nat /\ w \in Nat
        BY <1>1 DEF Eng!Workers
      <4>3. CASE v < w
        BY <4>3, <4>1, <3>1, EngFirstGames, <1>4
      <4>4. CASE w < v
        BY <4>4, <4>1, <3>1, EngFirstGames, <1>4
      <4> QED BY <4>2, <4>3, <4>4
    <3> QED BY <3>2, <3>3
  <2>5. \A w \in Eng!Workers : \A s, t \in Eng!Slots :
          worker[w].active[s] = worker[w].active[t] /\ worker[w].active[s] # Eng!Free => s = t
    BY <1>2
  <2>6. \A w \in Eng!Workers : worker[w].done = {}
    BY <1>2
  <2> QED BY <2>1, <2>2, <2>3, <2>4, <2>5, <2>6, <1>7 DEF EngPlacedOnce
<1>11. EngNoneLost
  <2> SUFFICES ASSUME NEW g \in Eng!Games PROVE EngPending(g) \/ \E w \in Eng!Workers : EngHolds(w, g)
    BY DEF EngNoneLost
  <2>1. g \in 1..NumGames
    BY DEF Eng!Games
  <2>2. CASE g > Eng!Target
    BY <2>2, <1>6
  <2>3. CASE ~(g > Eng!Target)
    <3>1. g \in 1..Eng!Target
      BY <2>1, <2>3, <1>1
    <3>2. PICK w \in Eng!Workers : EngBefore(w) < g /\ g <= EngBefore(w + 1)
      BY <3>1, EngFirstGames
    <3> QED BY <3>2, <1>5 DEF EngHolds
  <2> QED BY <2>2, <2>3
<1>12. EngEndsForCause
  <2>1. \A w \in Eng!Workers : ~Eng!Queued(w, Eng!Stop)
    <3> TAKE w \in Eng!Workers
    <3>1. Eng!Stop \notin Eng!Games
      BY DEF Eng!Stop, Eng!Games
    <3>2. \A i \in DOMAIN Eng!Initial(w) : Eng!Initial(w)[i] \in Eng!Games
      BY <1>4
    <3> QED BY <3>1, <3>2, <1>2 DEF Eng!Queued
  <2> QED BY <2>1, <1>2, <1>3 DEF EngEndsForCause
<1> QED
  BY <1>8, <1>9, <1>10, <1>11, <1>12 DEF EngInv

-----------------------------------------------------------------------------
(* Every step keeps the invariant.                                         *)

LEMMA EngTailFacts ==
  ASSUME NEW S, NEW q \in Seq(S), q # <<>>
  PROVE  /\ Head(q) \in S /\ Head(q) = q[1] /\ 1 \in DOMAIN q
         /\ Tail(q) \in Seq(S) /\ Len(q) \in Nat \ {0} /\ Len(Tail(q)) = Len(q) - 1
         /\ DOMAIN q = 1..Len(q) /\ DOMAIN Tail(q) = 1..Len(q) - 1
         /\ \A i \in DOMAIN Tail(q) : Tail(q)[i] = q[i + 1] /\ i + 1 \in DOMAIN q /\ i + 1 # 1
         /\ \A i, j \in DOMAIN Tail(q) : i + 1 = j + 1 => i = j
         /\ \A i \in DOMAIN q : i = 1 \/ (i - 1 \in DOMAIN Tail(q) /\ q[i] = Tail(q)[i - 1])
OBVIOUS

LEMMA EngShortTail ==
  ASSUME NEW S, NEW q \in Seq(S), q # <<>>, Len(q) <= 1
  PROVE  Tail(q) = <<>>
<1>1. Len(q) = 1
  <2>1. Len(q) \in Nat \ {0}
    BY EmptySeq
  <2> QED BY <2>1
<1>2. PICK t \in Seq(S) : t = Tail(q)
  BY EngTailFacts
<1>3. Len(Tail(q)) = Len(q) - 1
  BY EngTailFacts
<1>4. Len(t) = 0
  BY <1>1, <1>2, <1>3
<1> QED
  BY <1>2, <1>4, EmptySeq

LEMMA EngAppendFacts ==
  ASSUME NEW S, NEW q \in Seq(S), NEW x \in S
  PROVE  /\ Append(q, x) \in Seq(S) /\ Append(q, x) # <<>>
         /\ Len(q) \in Nat /\ DOMAIN q = 1..Len(q) /\ Len(q) + 1 \notin DOMAIN q
         /\ DOMAIN Append(q, x) = DOMAIN q \cup {Len(q) + 1}
         /\ \A i \in DOMAIN q : Append(q, x)[i] = q[i]
         /\ Append(q, x)[Len(q) + 1] = x
OBVIOUS

\* Basic facts.
LEMMA EngBasics ==
  ASSUME Eng!EngineAssumption, EngTyped
  PROVE  /\ Eng!Free \notin Eng!Games /\ Eng!Stop \notin Eng!Games /\ Eng!Free = Eng!Stop
         /\ 1 \in Eng!Workers /\ 1 \in Eng!Slots /\ Eng!Nothing \in Eng!Contents
         /\ \A g \in Eng!Games, n \in 1..Evals : <<g, n>> \in Eng!Contents
         /\ Evals \in Nat /\ EngineFaults \in Nat /\ parent.faults \in Nat
         /\ Eng!Fault => parent.faults + 1 \in 0..EngineFaults /\ parent.faults + 1 > 0
<1>1. Eng!Count \in Nat \ {0} /\ Eng!PerWorker(1) \in Nat \ {0}
  BY EngContexts1
<1>2. parent.faults \in 0..EngineFaults /\ EngineFaults \in Nat /\ Evals \in Nat
  BY DEF Eng!EngineAssumption, EngTyped
<1> QED
  BY <1>1, <1>2 DEF Eng!Free, Eng!Stop, Eng!Games, Eng!Workers, Eng!Slots, Eng!Contents, Eng!Fault

LEMMA EngTakeKeeps ==
  ASSUME Eng!EngineAssumption, EngInv, NEW w \in Eng!Workers, Eng!Take(w)
  PROVE  EngInv'
<1>1. /\ EngTyped /\ EngOneRequest /\ EngOwnRequest
      /\ EngPlacedOnce /\ EngNoneLost /\ EngEndsForCause
  BY DEF EngInv
<1>2. PICK me \in EngStates : me = worker[w]
  BY <1>1 DEF EngTyped
<1>2a. PICK head : head = Head(me.tasks)
  OBVIOUS
<1>3. /\ me.st = "run" /\ me.tasks # <<>>
      /\ Cardinality(Eng!Busy(w)) < Eng!PerWorker(w) \/ Eng!Busy(w) = {}
      /\ UNCHANGED <<parent, broker>>
      /\ worker' = [worker EXCEPT ![w] =
           IF head = Eng!Stop THEN [me EXCEPT !.tasks = Tail(me.tasks), !.stop = TRUE]
           ELSE [me EXCEPT !.tasks = Tail(me.tasks),
                           !.active = [me.active EXCEPT ![Eng!Takes(w)] = head]]]
  BY <1>2, <1>2a, EngCount DEF Eng!Take
<1>4. me.tasks \in Seq(Eng!Games \cup {Eng!Stop}) /\ me.active \in [Eng!Slots -> Eng!Games \cup {Eng!Free}]
  BY DEF EngStates
<1>5. Eng!Takes(w) \in Eng!Slots /\ me.active[Eng!Takes(w)] = Eng!Free
  BY <1>2, <1>3, EngTakesIsFree DEF Eng!Busy
<1>6. \A v \in Eng!Workers : v # w => worker'[v] = worker[v]
  BY <1>1, <1>3 DEF EngTyped
<1>7. worker'[w] = IF head = Eng!Stop THEN [me EXCEPT !.tasks = Tail(me.tasks), !.stop = TRUE]
                   ELSE [me EXCEPT !.tasks = Tail(me.tasks),
                                   !.active = [me.active EXCEPT ![Eng!Takes(w)] = head]]
  BY <1>1, <1>3 DEF EngTyped
<1>8. /\ head \in Eng!Games \cup {Eng!Stop} /\ head = me.tasks[1] /\ 1 \in DOMAIN me.tasks
      /\ Tail(me.tasks) \in Seq(Eng!Games \cup {Eng!Stop})
      /\ \A i \in DOMAIN Tail(me.tasks) : /\ Tail(me.tasks)[i] = me.tasks[i + 1]
                                          /\ i + 1 \in DOMAIN me.tasks /\ i + 1 # 1
      /\ \A i, j \in DOMAIN Tail(me.tasks) : i + 1 = j + 1 => i = j
      /\ \A i \in DOMAIN me.tasks :
           i = 1 \/ (i - 1 \in DOMAIN Tail(me.tasks) /\ me.tasks[i] = Tail(me.tasks)[i - 1])
  BY <1>2a, <1>3, <1>4, EngTailFacts
<1>8a. [me.active EXCEPT ![Eng!Takes(w)] = head] \in [Eng!Slots -> Eng!Games \cup {Eng!Free}]
  BY <1>4, <1>5, <1>8 DEF Eng!Stop, Eng!Free
<1>9. /\ worker'[w] \in EngStates
      /\ worker'[w].st = "run" /\ worker'[w].tasks = Tail(me.tasks) /\ worker'[w].done = me.done
      /\ worker'[w].responses = me.responses /\ worker'[w].failed = me.failed
      /\ head # Eng!Stop => worker'[w].stop = me.stop
  <2>1. CASE head = Eng!Stop
    <3>1. worker'[w] = [me EXCEPT !.tasks = Tail(me.tasks), !.stop = TRUE]
      BY <1>7, <2>1
    <3>2. worker'[w] \in EngStates
      BY <1>8, <3>1 DEF EngStates
    <3>3. /\ worker'[w].st = me.st /\ worker'[w].tasks = Tail(me.tasks)
          /\ worker'[w].done = me.done /\ worker'[w].responses = me.responses
      BY <3>1 DEF EngStates
    <3>4. worker'[w].failed = me.failed
      BY <3>1 DEF EngStates
    <3> QED BY <1>3, <2>1, <3>2, <3>3, <3>4
  <2>2. CASE head # Eng!Stop
    <3>1. PICK active \in [Eng!Slots -> Eng!Games \cup {Eng!Free}] :
            worker'[w] = [me EXCEPT !.tasks = Tail(me.tasks), !.active = active]
      BY <1>7, <1>8a, <2>2
    <3>2. worker'[w] \in EngStates
      BY <1>8, <3>1 DEF EngStates
    <3>3. /\ worker'[w].st = me.st /\ worker'[w].tasks = Tail(me.tasks)
          /\ worker'[w].done = me.done /\ worker'[w].responses = me.responses
      BY <3>1 DEF EngStates
    <3>4. worker'[w].failed = me.failed /\ worker'[w].stop = me.stop
      BY <3>1 DEF EngStates
    <3> QED BY <1>3, <3>2, <3>3, <3>4
  <2> QED BY <2>1, <2>2
<1>9a. \A s \in Eng!Slots : worker'[w].active[s] =
           IF head # Eng!Stop /\ s = Eng!Takes(w) THEN head ELSE me.active[s]
  BY <1>4, <1>5, <1>7 DEF EngStates
<1>10. worker' \in [Eng!Workers -> EngStates]
  BY <1>1, <1>3, <1>6, <1>9 DEF EngTyped
<1>11. EngTyped'
  BY <1>1, <1>3, <1>10 DEF EngTyped
<1>12. EngOneRequest'
  BY <1>1, <1>3, <1>6, <1>2, <1>9, <1>9a DEF EngOneRequest, EngFrom, EngOneEach, EngAsked
<1>13. EngOwnRequest'
  BY <1>1, <1>3, <1>6, <1>2, <1>9, <1>9a DEF EngOwnRequest, EngAsks, EngPosition
<1>14. \A v \in Eng!Workers, g \in Eng!Games : v # w =>
         (Eng!Queued(v, g)' <=> Eng!Queued(v, g)) /\ (Eng!Played(v, g)' <=> Eng!Played(v, g))
  BY <1>6 DEF Eng!Queued, Eng!Played
<1>15. \A g : Eng!Queued(w, g) <=> Eng!Queued(w, g)' \/ g = head
  <2> TAKE g
  <2> DEFINE q == me.tasks
             t == Tail(me.tasks)
  <2>1. Eng!Queued(w, g) <=> \E i \in DOMAIN q : q[i] = g
    BY <1>2 DEF Eng!Queued
  <2>2. Eng!Queued(w, g)' <=> \E i \in DOMAIN t : t[i] = g
    BY <1>2, <1>9, <1>9a DEF Eng!Queued
  <2> HIDE DEF q, t
  <2> QED BY <1>8, <2>1, <2>2 DEF q, t
<1>16. \A g \in Eng!Games : Eng!Played(w, g)' <=> Eng!Played(w, g) \/ g = head
  BY <1>5, <1>8, <1>2, <1>9, <1>9a, EngBasics, <1>1 DEF Eng!Played
<1>17. head \in Eng!Games => ~(Eng!Queued(w, head)')
  <2> SUFFICES ASSUME head \in Eng!Games, NEW i \in DOMAIN Tail(me.tasks), Tail(me.tasks)[i] = head
               PROVE  FALSE
    <3>1. worker'[w].tasks = Tail(me.tasks)
      BY <1>2, <1>9, <1>9a
    <3> QED BY <3>1 DEF Eng!Queued
  <2>1. me.tasks[i + 1] = me.tasks[1] /\ i + 1 \in DOMAIN me.tasks /\ i + 1 # 1
    BY <1>8
  <2>2. me.tasks[1] # Eng!Stop
    BY <1>8, <1>1, EngBasics
  <2> QED BY <1>1, <1>2, <1>8, <2>1, <2>2 DEF EngPlacedOnce
<1>18. \A v \in Eng!Workers, g \in Eng!Games : EngHolds(v, g)' <=> EngHolds(v, g)
  BY <1>6, <1>2, <1>9, <1>9a, <1>14, <1>15, <1>16 DEF EngHolds
<1>19. \A g \in Eng!Games : EngPending(g)' <=> EngPending(g)
  BY <1>3 DEF EngPending
<1>20. EngPlacedOnce'
  <2>1. \A i, j \in DOMAIN worker'[w].tasks :
          worker'[w].tasks[i] = worker'[w].tasks[j] /\ worker'[w].tasks[i] # Eng!Stop => i = j
    BY <1>1, <1>8, <1>2, <1>9, <1>9a DEF EngPlacedOnce
  <2>2. head \in Eng!Games => Eng!Queued(w, head) /\ ~Eng!Played(w, head) /\ head \notin me.done
    BY <1>1, <1>2, <1>8 DEF EngPlacedOnce, Eng!Queued
  <2>3. \A s, t \in Eng!Slots : worker'[w].active[s] = worker'[w].active[t]
                              /\ worker'[w].active[s] # Eng!Free => s = t
    BY <1>1, <1>2, <1>9, <1>9a, <2>2, <1>8, EngBasics DEF EngPlacedOnce, Eng!Played
  <2>4. ASSUME NEW g \in Eng!Games
        PROVE  /\ Eng!Queued(w, g)' => ~(Eng!Played(w, g)') /\ g \notin worker'[w].done
               /\ Eng!Played(w, g)' => g \notin worker'[w].done
    <3>1. /\ Eng!Queued(w, g) => ~Eng!Played(w, g) /\ g \notin me.done
          /\ Eng!Played(w, g) => g \notin me.done
      BY <1>1, <1>2 DEF EngPlacedOnce
    <3>2. worker'[w].done = me.done
      BY <1>2, <1>9, <1>9a
    <3>3. (Eng!Queued(w, g) <=> Eng!Queued(w, g)' \/ g = head) /\ (Eng!Played(w, g)' <=> Eng!Played(w, g) \/ g = head)
      BY <1>15, <1>16
    <3> QED BY <3>1, <3>2, <3>3, <1>17, <2>2
  <2> QED BY <1>1, <1>3, <1>6, <1>14, <1>18, <1>19, <2>1, <2>3, <2>4 DEF EngPlacedOnce
<1>21. EngNoneLost'
  BY <1>1, <1>3, <1>6, <1>2, <1>9, <1>9a, <1>18, <1>19 DEF EngNoneLost
<1>22. EngEndsForCause'
  <2>1. parent.pc = "loop" => head # Eng!Stop
    BY <1>1, <1>2, <1>8 DEF EngEndsForCause, Eng!Queued
  <2>2. \A v \in Eng!Workers : Eng!Queued(v, Eng!Stop)' => Eng!Queued(v, Eng!Stop)
    <3>1. \A v \in Eng!Workers \ {w} : Eng!Queued(v, Eng!Stop)' <=> Eng!Queued(v, Eng!Stop)
      BY <1>6 DEF Eng!Queued
    <3> QED BY <3>1, <1>15
  <2>3. \A v \in Eng!Workers : /\ worker'[v].st = worker[v].st /\ worker'[v].failed = worker[v].failed
                               /\ parent.pc = "loop" => worker'[v].stop = worker[v].stop
    BY <1>3, <1>6, <1>2, <1>9, <1>9a, <2>1
  <2> QED BY <1>1, <1>3, <2>2, <2>3 DEF EngEndsForCause, Eng!Alive
<1> QED
  BY <1>11, <1>12, <1>13, <1>20, <1>21, <1>22 DEF EngInv

\* Games that stay where they are, or are lost.
LEMMA EngPlacesStay ==
  ASSUME EngPlacedOnce, parent'.pending = parent.pending, parent'.completed = parent.completed,
         \A v \in Eng!Workers : /\ worker'[v].tasks = worker[v].tasks
                                /\ worker'[v].active = worker[v].active
                                /\ worker'[v].done \subseteq worker[v].done
  PROVE  /\ EngPlacedOnce'
         /\ \A g \in Eng!Games : EngPending(g)' <=> EngPending(g)
         /\ \A v \in Eng!Workers, g \in Eng!Games :
              /\ EngHolds(v, g)' => EngHolds(v, g)
              /\ worker'[v].done = worker[v].done => (EngHolds(v, g)' <=> EngHolds(v, g))
<1>1. \A g \in Eng!Games : EngPending(g)' <=> EngPending(g)
  BY DEF EngPending
<1>2. \A v \in Eng!Workers : \A g : (Eng!Queued(v, g)' <=> Eng!Queued(v, g)) /\ (Eng!Played(v, g)' <=> Eng!Played(v, g))
  BY DEF Eng!Queued, Eng!Played
<1>3. \A v \in Eng!Workers, g \in Eng!Games :
        /\ EngHolds(v, g)' => EngHolds(v, g)
        /\ worker'[v].done = worker[v].done => (EngHolds(v, g)' <=> EngHolds(v, g))
  BY <1>2 DEF EngHolds
<1>4. EngPlacedOnce'
  BY <1>1, <1>2, <1>3 DEF EngPlacedOnce
<1> QED
  BY <1>1, <1>3, <1>4

LEMMA EngStepKeeps ==
  ASSUME Eng!EngineAssumption, EngInv, NEW w \in Eng!Workers, Eng!Step(w)
  PROVE  EngInv'
<1>1. /\ EngTyped /\ EngOneRequest /\ EngOwnRequest
      /\ EngPlacedOnce /\ EngNoneLost /\ EngEndsForCause
  BY DEF EngInv
<1>2. PICK me \in EngStates : me = worker[w]
  BY <1>1 DEF EngTyped
<1>3. PICK busy : busy = Eng!Busy(w)
  OBVIOUS
<1>4. PICK ends \in SUBSET Eng!Busy(w) :
        LET asking == Eng!Busy(w) \ ends
            asked == [g \in Eng!Games |-> worker[w].asked[g]
                        + (IF \E s \in asking : worker[w].active[s] = g THEN 1 ELSE 0)]
            stepped == [worker[w] EXCEPT
              !.active = [s \in Eng!Slots |-> IF s \in ends THEN Eng!Free ELSE @[s]],
              !.done = @ \cup {worker[w].active[s] : s \in ends}]
        IN /\ \A s \in asking : worker[w].asked[worker[w].active[s]] < Evals
           /\ IF asking = {}
                THEN worker' = [worker EXCEPT ![w] = stepped] /\ UNCHANGED broker
                ELSE /\ worker' = [worker EXCEPT ![w] = [stepped EXCEPT
                          !.st = "wait", !.asked = asked, !.id = @ + 1, !.sent = asking,
                          !.input = [s \in Eng!Slots |->
                            IF s \in asking THEN <<worker[w].active[s], asked[worker[w].active[s]]>>
                            ELSE @[s]]]]
                     /\ broker' = [broker EXCEPT !.requests =
                          Append(@, [worker |-> w, id |-> worker[w].id + 1, slots |-> asking])]
  BY Zenon DEF Eng!Step
<1>5. PICK asking : asking = busy \ ends
  OBVIOUS
<1>6. PICK asked : asked = [g \in Eng!Games |->
        me.asked[g] + (IF \E s \in asking : me.active[s] = g THEN 1 ELSE 0)]
  OBVIOUS
<1>7. PICK active : active = [s \in Eng!Slots |-> IF s \in ends THEN Eng!Free ELSE me.active[s]]
  OBVIOUS
<1>8. PICK done : done = me.done \cup {me.active[s] : s \in ends}
  OBVIOUS
<1>9. PICK input : input = [s \in Eng!Slots |-> IF s \in asking THEN <<me.active[s], asked[me.active[s]]>>
                                            ELSE me.input[s]]
  OBVIOUS
<1>10. /\ me.st = "run" /\ UNCHANGED parent
       /\ \A s \in asking : me.asked[me.active[s]] < Evals
       /\ asking = {} => /\ worker' = [worker EXCEPT ![w] = [me EXCEPT !.active = active, !.done = done]]
                         /\ UNCHANGED broker
       /\ asking # {} =>
            /\ worker' = [worker EXCEPT ![w] = [me EXCEPT !.active = active, !.done = done,
                 !.st = "wait", !.asked = asked, !.id = me.id + 1, !.sent = asking, !.input = input]]
            /\ broker' = [broker EXCEPT !.requests =
                 Append(broker.requests, [worker |-> w, id |-> me.id + 1, slots |-> asking])]
  <2>1. me.st = "run" /\ UNCHANGED parent
    BY <1>2 DEF Eng!Step
  <2>2. PICK stepped : stepped = [me EXCEPT !.active = active, !.done = done]
    OBVIOUS
  <2>3. stepped = [worker[w] EXCEPT
              !.active = [s \in Eng!Slots |-> IF s \in ends THEN Eng!Free ELSE @[s]],
              !.done = @ \cup {worker[w].active[s] : s \in ends}]
    BY <1>2, <1>7, <1>8, <2>2 DEF EngStates
  <2>4. /\ \A s \in asking : me.asked[me.active[s]] < Evals
        /\ asking = {} => worker' = [worker EXCEPT ![w] = stepped] /\ UNCHANGED broker
    BY <1>2, <1>3, <1>4, <1>5, <2>3
  <2>5. ASSUME asking # {}
        PROVE  /\ worker' = [worker EXCEPT ![w] = [stepped EXCEPT
                     !.st = "wait", !.asked = asked, !.id = me.id + 1, !.sent = asking, !.input = input]]
               /\ broker' = [broker EXCEPT !.requests =
                    Append(broker.requests, [worker |-> w, id |-> me.id + 1, slots |-> asking])]
    <3>1. stepped.id = me.id /\ stepped.input = me.input
      BY <2>2 DEF EngStates
    <3>2. /\ worker' = [worker EXCEPT ![w] = [stepped EXCEPT
                 !.st = "wait", !.asked = asked, !.id = @ + 1, !.sent = asking,
                 !.input = [s \in Eng!Slots |-> IF s \in asking THEN <<me.active[s], asked[me.active[s]]>>
                                            ELSE @[s]]]]
          /\ broker' = [broker EXCEPT !.requests =
               Append(@, [worker |-> w, id |-> me.id + 1, slots |-> asking])]
      BY <1>2, <1>3, <1>4, <1>5, <1>6, <2>3, <2>5
    <3>3. DOMAIN stepped = DOMAIN me /\ "id" \in DOMAIN me /\ "input" \in DOMAIN me
      BY <2>2 DEF EngStates
    <3> QED BY <1>9, <3>1, <3>2, <3>3
  <2>6. asking # {} => [stepped EXCEPT
           !.st = "wait", !.asked = asked, !.id = me.id + 1, !.sent = asking, !.input = input]
         = [me EXCEPT !.active = active, !.done = done,
                 !.st = "wait", !.asked = asked, !.id = me.id + 1, !.sent = asking, !.input = input]
    BY <2>2
  <2> QED BY <2>1, <2>2, <2>4, <2>5, <2>6
<1>11. /\ me.asked \in [Eng!Games -> 0..Evals] /\ me.active \in [Eng!Slots -> Eng!Games \cup {Eng!Free}]
       /\ me.input \in [Eng!Slots -> Eng!Contents] /\ me.done \in SUBSET Eng!Games /\ me.id \in Nat
  BY DEF EngStates
<1>12. busy = {s \in Eng!Slots : me.active[s] # Eng!Free}
  BY <1>2, <1>3 DEF Eng!Busy
<1>13. /\ \A s \in busy : s \in Eng!Slots /\ me.active[s] \in Eng!Games
       /\ asking \in SUBSET Eng!Slots /\ ends \in SUBSET Eng!Slots
  BY <1>3, <1>5, <1>11, <1>12
<1>14. /\ asked \in [Eng!Games -> 0..Evals]
       /\ \A s \in asking : asked[me.active[s]] \in 1..Evals
  <2>1. \A g \in Eng!Games : me.asked[g] \in 0..Evals
    BY <1>11
  <2>2. \A s \in asking : me.active[s] \in Eng!Games /\ me.asked[me.active[s]] < Evals
    BY <1>5, <1>10, <1>13
  <2>3. Evals \in Nat
    BY <1>1, EngBasics
  <2>4. ASSUME NEW g \in Eng!Games PROVE asked[g] \in 0..Evals
    BY <1>6, <2>1, <2>2, <2>3
  <2>5. asked \in [Eng!Games -> 0..Evals]
    BY <1>6, <2>4
  <2>6. \A s \in asking : asked[me.active[s]] = me.asked[me.active[s]] + 1
    BY <1>6, <2>2
  <2> QED BY <2>1, <2>2, <2>3, <2>5, <2>6
<1>15. active \in [Eng!Slots -> Eng!Games \cup {Eng!Free}]
  BY <1>7, <1>11
<1>16. done \in SUBSET Eng!Games
  <2>1. \A s \in ends : me.active[s] \in Eng!Games
    BY <1>3, <1>4, <1>13
  <2> QED BY <1>8, <1>11, <2>1
<1>17. input \in [Eng!Slots -> Eng!Contents]
  <2>1. \A s \in asking : me.active[s] \in Eng!Games
    BY <1>5, <1>13
  <2> QED BY <1>9, <1>11, <1>14, <2>1 DEF Eng!Contents
<1>18. \A v \in Eng!Workers : v # w => worker'[v] = worker[v]
  BY <1>1, <1>10 DEF EngTyped
<1>19. /\ asking = {} => worker'[w] = [me EXCEPT !.active = active, !.done = done]
       /\ asking # {} => worker'[w] = [me EXCEPT !.active = active, !.done = done,
             !.st = "wait", !.asked = asked, !.id = me.id + 1, !.sent = asking, !.input = input]
  BY <1>1, <1>10 DEF EngTyped
<1>20. /\ worker'[w] \in EngStates /\ worker'[w].tasks = me.tasks
       /\ worker'[w].responses = me.responses
       /\ worker'[w].active = active /\ worker'[w].done = done
       /\ worker'[w].stop = me.stop /\ worker'[w].failed = me.failed
       /\ worker'[w].st \in {"run", "wait"}
       /\ asking = {} => worker'[w].st = "run"
       /\ asking # {} => /\ worker'[w].st = "wait" /\ worker'[w].asked = asked
                         /\ worker'[w].id = me.id + 1 /\ worker'[w].sent = asking
                         /\ worker'[w].input = input
  <2>1. CASE asking = {}
    <3>1. worker'[w] \in EngStates
      BY <1>15, <1>16, <1>19, <2>1 DEF EngStates
    <3>2. worker'[w].stop = me.stop /\ worker'[w].failed = me.failed
      BY <1>19, <2>1 DEF EngStates
    <3>3. /\ worker'[w].tasks = me.tasks /\ worker'[w].responses = me.responses
          /\ worker'[w].active = active /\ worker'[w].done = done /\ worker'[w].st = "run"
      BY <1>10, <1>19, <2>1 DEF EngStates
    <3> QED BY <2>1, <3>1, <3>2, <3>3
  <2>2. CASE asking # {}
    <3>1. worker'[w] \in EngStates
      <4>1. me.id + 1 \in Nat
        BY <1>11
      <4> QED BY <4>1, <1>13, <1>14, <1>15, <1>16, <1>17, <1>19, <2>2 DEF EngStates
    <3>2. worker'[w].stop = me.stop /\ worker'[w].failed = me.failed
      BY <1>19, <2>2 DEF EngStates
    <3>3. /\ worker'[w].tasks = me.tasks /\ worker'[w].responses = me.responses
          /\ worker'[w].active = active /\ worker'[w].done = done /\ worker'[w].st = "wait"
      BY <1>19, <2>2 DEF EngStates
    <3>4. /\ worker'[w].asked = asked /\ worker'[w].id = me.id + 1 /\ worker'[w].sent = asking
          /\ worker'[w].input = input
      BY <1>19, <2>2 DEF EngStates
    <3> QED BY <2>2, <3>1, <3>2, <3>3, <3>4
  <2> QED BY <2>1, <2>2
<1>21. worker' \in [Eng!Workers -> EngStates]
  BY <1>1, <1>10, <1>18, <1>20 DEF EngTyped
<1>22. EngTyped' /\ EngOneRequest' /\ EngOwnRequest'
  <2>1. CASE asking = {}
    <3>1. EngTyped'
      BY <1>1, <1>10, <1>21, <2>1 DEF EngTyped
    <3>2. EngOneRequest'
      BY <1>1, <1>2, <1>10, <1>18, <1>20, <2>1 DEF EngOneRequest, EngFrom, EngOneEach, EngAsked
    <3>3. EngOwnRequest'
      BY <1>1, <1>2, <1>10, <1>18, <1>20, <2>1 DEF EngOwnRequest, EngAsks, EngPosition
    <3> QED BY <3>1, <3>2, <3>3
  <2>2. CASE asking # {}
    <3>1. PICK r : r = [worker |-> w, id |-> me.id + 1, slots |-> asking]
      OBVIOUS
    <3>2. r \in EngRequests /\ r.worker = w /\ r.id = me.id + 1 /\ r.slots = asking
      BY <3>1, <1>11, <1>13, <2>2 DEF EngRequests
    <3>3. broker' = [broker EXCEPT !.requests = Append(broker.requests, r)]
      BY <1>10, <2>2, <3>1
    <3>4. /\ broker.requests \in Seq(EngRequests) /\ broker'.requests = Append(broker.requests, r)
          /\ broker'.queue = broker.queue /\ broker'.batch = broker.batch
      BY <1>1, <3>3 DEF EngTyped
    <3>5. /\ broker'.requests \in Seq(EngRequests)
          /\ Len(broker.requests) + 1 \notin DOMAIN broker.requests
          /\ DOMAIN broker'.requests = DOMAIN broker.requests \cup {Len(broker.requests) + 1}
          /\ \A i \in DOMAIN broker.requests : broker'.requests[i] = broker.requests[i]
          /\ broker'.requests[Len(broker.requests) + 1] = r
      BY <3>2, <3>4, EngAppendFacts
    <3>6. EngTyped'
      BY <1>1, <1>10, <1>21, <3>3, <3>5 DEF EngTyped
    <3>7. ~EngAsked(w) /\ me.responses = <<>>
      BY <1>1, <1>2, <1>10 DEF EngOneRequest
    <3>8. /\ \A v \in Eng!Workers : v # w => (EngFrom(broker.requests, v)' <=> EngFrom(broker.requests, v))
          /\ \A v \in Eng!Workers : /\ EngFrom(broker.queue, v)' <=> EngFrom(broker.queue, v)
                                    /\ EngFrom(broker.batch, v)' <=> EngFrom(broker.batch, v)
      BY <3>2, <3>4, <3>5 DEF EngFrom
    <3>9. EngOneEach(broker.requests)' /\ EngOneEach(broker.queue)' /\ EngOneEach(broker.batch)'
      <4>1. \A i \in DOMAIN broker.requests : broker.requests[i].worker # w
        BY <3>7 DEF EngAsked, EngFrom
      <4> QED BY <1>1, <4>1, <3>2, <3>4, <3>5 DEF EngOneEach, EngOneRequest
    <3>10. EngOneRequest'
      <4>1. ASSUME NEW v \in Eng!Workers
            PROVE  (/\ EngFrom(broker.requests, v) => ~EngFrom(broker.queue, v) /\ ~EngFrom(broker.batch, v)
                    /\ EngFrom(broker.queue, v) => ~EngFrom(broker.batch, v)
                    /\ EngAsked(v) => worker[v].responses = <<>>
                    /\ worker[v].st = "run" => ~EngAsked(v) /\ worker[v].responses = <<>>
                    /\ Len(worker[v].responses) <= 1)'
        BY <1>1, <1>2, <1>18, <1>20, <2>2, <3>7, <3>8 DEF EngOneRequest, EngAsked
      <4> QED BY <3>9, <4>1 DEF EngOneRequest
    <3>11. EngOwnRequest'
      <4>1. ASSUME NEW v \in Eng!Workers \ {w}, worker'[v].st = "wait"
            PROVE  \A i \in DOMAIN broker'.requests : EngAsks(v, broker.requests[i])'
        BY <1>1, <1>18, <3>2, <3>5, <4>1 DEF EngOwnRequest, EngAsks
      <4>2. \A i \in DOMAIN broker'.requests : EngAsks(w, broker.requests[i])'
        BY <1>20, <2>2, <3>2, <3>5, <3>7 DEF EngAsks, EngAsked, EngFrom
      <4>3. \A s \in asking : input[s] = <<active[s], asked[active[s]]>>
        BY <1>5, <1>7, <1>9, <1>13
      <4>4. \A s \in worker'[w].sent : worker'[w].input[s] = EngPosition(w, s)'
        BY <1>20, <2>2, <4>3 DEF EngPosition
      <4>5. /\ \A i \in DOMAIN broker'.queue : EngAsks(w, broker.queue[i])'
            /\ \A i \in DOMAIN broker'.batch : broker'.batch[i].worker # w
        BY <3>4, <3>7 DEF EngAsks, EngAsked, EngFrom
      <4>6. DOMAIN worker'[w].responses = {}
        BY <1>20, <3>7
      <4>7. \A i \in DOMAIN broker'.batch : EngAsks(w, broker.batch[i])'
        BY <4>5 DEF EngAsks
      <4> QED BY <1>1, <1>10, <1>18, <3>4, <4>1, <4>2, <4>4, <4>5, <4>6, <4>7
              DEF EngOwnRequest, EngAsks, EngPosition
    <3> QED BY <3>6, <3>10, <3>11
  <2> QED BY <2>1, <2>2
<1>23. \A v \in Eng!Workers, g \in Eng!Games : v # w =>
         (Eng!Queued(v, g)' <=> Eng!Queued(v, g)) /\ (Eng!Played(v, g)' <=> Eng!Played(v, g))
  BY <1>18 DEF Eng!Queued, Eng!Played
<1>24. \A g : Eng!Queued(w, g)' <=> Eng!Queued(w, g)
  BY <1>2, <1>20 DEF Eng!Queued
<1>25. \A g \in Eng!Games : Eng!Played(w, g)' <=> \E s \in Eng!Slots \ ends : me.active[s] = g
  BY <1>7, <1>20, <1>1, EngBasics DEF Eng!Played
<1>26. \A g \in Eng!Games : g \in done <=> g \in me.done \/ \E s \in ends : me.active[s] = g
  BY <1>8
<1>27. \A v \in Eng!Workers, g \in Eng!Games : EngHolds(v, g)' <=> EngHolds(v, g)
  <2>1. \A g \in Eng!Games : Eng!Played(w, g) <=> \E s \in Eng!Slots : me.active[s] = g
    BY <1>2 DEF Eng!Played
  <2>2. \A g \in Eng!Games : EngHolds(w, g)' <=> EngHolds(w, g)
    BY <1>2, <1>13, <1>20, <1>24, <1>25, <1>26, <2>1 DEF EngHolds
  <2> QED BY <1>18, <1>23, <2>2 DEF EngHolds
<1>28. \A g \in Eng!Games : EngPending(g)' <=> EngPending(g)
  BY <1>10 DEF EngPending
<1>29. EngPlacedOnce'
  <2>1. \A s, t \in Eng!Slots : worker'[w].active[s] = worker'[w].active[t]
                              /\ worker'[w].active[s] # Eng!Free => s = t
    BY <1>1, <1>2, <1>7, <1>20 DEF EngPlacedOnce
  <2>2. ASSUME NEW g \in Eng!Games
        PROVE  /\ Eng!Queued(w, g)' => ~(Eng!Played(w, g)') /\ g \notin worker'[w].done
               /\ Eng!Played(w, g)' => g \notin worker'[w].done
    <3>1. /\ Eng!Queued(w, g) => ~Eng!Played(w, g) /\ g \notin me.done
          /\ Eng!Played(w, g) => g \notin me.done
          /\ \A s, t \in Eng!Slots : me.active[s] = g /\ me.active[t] = g => s = t
      BY <1>1, <1>2, EngBasics DEF EngPlacedOnce
    <3>2. Eng!Played(w, g) <=> \E s \in Eng!Slots : me.active[s] = g
      BY <1>2 DEF Eng!Played
    <3>3. (Eng!Queued(w, g)' <=> Eng!Queued(w, g)) /\ worker'[w].done = done
      BY <1>20, <1>24
    <3>4. Eng!Queued(w, g)' => ~(Eng!Played(w, g)') /\ g \notin done
      BY <3>1, <3>2, <3>3, <1>13, <1>25, <1>26
    <3>5. Eng!Played(w, g)' => g \notin done
      BY <3>1, <3>2, <1>13, <1>25, <1>26
    <3> QED BY <3>3, <3>4, <3>5
  <2>3. \A i, j \in DOMAIN worker'[w].tasks :
          worker'[w].tasks[i] = worker'[w].tasks[j] /\ worker'[w].tasks[i] # Eng!Stop => i = j
    BY <1>1, <1>2, <1>20 DEF EngPlacedOnce
  <2> QED BY <1>1, <1>10, <1>18, <1>23, <1>27, <1>28, <2>1, <2>2, <2>3 DEF EngPlacedOnce
<1>30. EngNoneLost'
  BY <1>1, <1>2, <1>10, <1>18, <1>20, <1>27, <1>28 DEF EngNoneLost
<1>31. EngEndsForCause'
  <2>1. \A v \in Eng!Workers : Eng!Queued(v, Eng!Stop)' => Eng!Queued(v, Eng!Stop)
    <3>1. \A v \in Eng!Workers \ {w} : Eng!Queued(v, Eng!Stop)' <=> Eng!Queued(v, Eng!Stop)
      BY <1>18 DEF Eng!Queued
    <3> QED BY <3>1, <1>24
  <2>2. \A v \in Eng!Workers : /\ worker'[v].failed = worker[v].failed /\ worker'[v].stop = worker[v].stop
                               /\ worker'[v].st = worker[v].st
                                  \/ (worker'[v].st \in {"run", "wait"} /\ worker[v].st = "run")
    BY <1>2, <1>10, <1>18, <1>20
  <2> QED BY <1>1, <1>10, <2>1, <2>2 DEF EngEndsForCause, Eng!Alive
<1> QED
  BY <1>22, <1>29, <1>30, <1>31 DEF EngInv

\* A worker that leaves or goes on: its games stay, or are lost as it dies.
LEMMA EngLeavesKeeps ==
  ASSUME Eng!EngineAssumption, EngInv, NEW w \in Eng!Workers,
         UNCHANGED broker,
         parent' \in [pc : {"loop", "join", "returned", "raised"}, pending : Seq(Eng!Games),
                      completed : SUBSET Eng!Games, fatal : BOOLEAN, faults : 0..EngineFaults],
         parent'.pc = parent.pc, parent'.pending = parent.pending,
         parent'.completed = parent.completed, parent'.fatal = parent.fatal,
         parent'.faults >= parent.faults,
         NEW me \in EngStates, NEW you \in EngStates, me = worker[w],
         worker' = [worker EXCEPT ![w] = you],
         you.tasks = me.tasks, you.active = me.active, you.done \subseteq me.done,
         you.stop = me.stop, you.asked = me.asked, you.input = me.input, you.output = me.output,
         me.st \in {"run", "wait"}, you.st \in {"run", "exited", "dead"},
         you.st = "run" => me.responses # <<>> /\ you.responses = <<>>,
         you.responses = me.responses \/ you.responses = <<>>,
         you.st = "dead" \/ you.done = me.done,
         you.st = "exited" => you.failed \/ me.stop,
         you.failed = me.failed \/ parent'.faults > 0,
         you.st = "dead" => parent'.faults > 0
  PROVE  EngInv'
<1>1. /\ EngTyped /\ EngOneRequest /\ EngOwnRequest
      /\ EngPlacedOnce /\ EngNoneLost /\ EngEndsForCause
  BY DEF EngInv
<1>2. \A v \in Eng!Workers : v # w => worker'[v] = worker[v]
  BY <1>1 DEF EngTyped
<1>3. worker'[w] = you
  BY <1>1 DEF EngTyped
<1>4. EngTyped'
  <2>1. worker' \in [Eng!Workers -> EngStates]
    BY <1>1, <1>2, <1>3 DEF EngTyped
  <2> QED BY <1>1, <2>1 DEF EngTyped
<1>5. EngOneRequest'
  <2>1. \A v \in Eng!Workers : /\ EngFrom(broker.requests, v)' <=> EngFrom(broker.requests, v)
                               /\ EngFrom(broker.queue, v)' <=> EngFrom(broker.queue, v)
                               /\ EngFrom(broker.batch, v)' <=> EngFrom(broker.batch, v)
                               /\ EngAsked(v)' <=> EngAsked(v)
    BY DEF EngFrom, EngAsked
  <2>2. (EngOneEach(broker.requests) /\ EngOneEach(broker.queue) /\ EngOneEach(broker.batch))'
    BY <1>1 DEF EngOneRequest, EngOneEach
  <2>3. \A v \in Eng!Workers : worker'[v].responses = worker[v].responses \/ worker'[v].responses = <<>>
    BY <1>2, <1>3
  <2>4. \A v \in Eng!Workers : worker'[v].st = "run" =>
          \/ v # w /\ worker[v].st = "run" /\ worker'[v].responses = worker[v].responses
          \/ v = w /\ worker[v].responses # <<>> /\ worker'[v].responses = <<>>
    BY <1>2, <1>3
  <2>5. ASSUME NEW v \in Eng!Workers
        PROVE  (/\ EngFrom(broker.requests, v) => ~EngFrom(broker.queue, v) /\ ~EngFrom(broker.batch, v)
                /\ EngFrom(broker.queue, v) => ~EngFrom(broker.batch, v)
                /\ EngAsked(v) => worker[v].responses = <<>>
                /\ worker[v].st = "run" => ~EngAsked(v) /\ worker[v].responses = <<>>
                /\ Len(worker[v].responses) <= 1)'
    <3>1. Len(<<>>) = 0
      OBVIOUS
    <3> QED BY <1>1, <2>1, <2>3, <2>4, <3>1 DEF EngOneRequest
  <2> QED BY <2>2, <2>5 DEF EngOneRequest
<1>6. EngOwnRequest'
  <2>1. \A v \in Eng!Workers : worker'[v].st = "wait" => v # w /\ worker'[v] = worker[v]
    BY <1>2, <1>3
  <2>2. parent.faults \in Nat /\ parent'.faults \in Nat
    BY <1>1, <1>4, EngBasics DEF EngTyped
  <2> QED BY <1>1, <2>1, <2>2 DEF EngOwnRequest, EngAsks, EngPosition
<1>7. \A v \in Eng!Workers : /\ worker'[v].tasks = worker[v].tasks /\ worker'[v].active = worker[v].active
                             /\ worker'[v].done \subseteq worker[v].done
  BY <1>2, <1>3
<1>8. /\ EngPlacedOnce'
      /\ \A g \in Eng!Games : EngPending(g)' <=> EngPending(g)
      /\ \A v \in Eng!Workers, g \in Eng!Games :
           worker'[v].done = worker[v].done => (EngHolds(v, g)' <=> EngHolds(v, g))
  BY <1>1, <1>7, EngPlacesStay
<1>9. EngNoneLost'
  <2> SUFFICES ASSUME \A v \in Eng!Workers : worker'[v].st # "dead", NEW g \in Eng!Games
               PROVE  g \in parent'.completed \/ EngPending(g)' \/ \E v \in Eng!Workers : EngHolds(v, g)'
    BY DEF EngNoneLost
  <2>1. \A v \in Eng!Workers : worker[v].st # "dead" /\ worker'[v].done = worker[v].done
    BY <1>2, <1>3
  <2> QED BY <1>1, <1>8, <2>1 DEF EngNoneLost
<1>10. EngEndsForCause'
  <2>1. \A v \in Eng!Workers : Eng!Queued(v, Eng!Stop)' <=> Eng!Queued(v, Eng!Stop)
    BY <1>7 DEF Eng!Queued
  <2>2. parent.faults \in Nat /\ parent'.faults \in Nat
    BY <1>1, <1>4, EngBasics DEF EngTyped
  <2>3. Eng!Alive(w)
    BY DEF Eng!Alive
  <2>4. \A v \in Eng!Workers : /\ worker'[v].stop = worker[v].stop
                               /\ worker'[v].failed => worker[v].failed \/ parent'.faults > 0
                               /\ worker'[v].st = "dead" => worker[v].st = "dead" \/ parent'.faults > 0
                               /\ worker'[v].st = "exited" =>
                                    worker'[v].failed \/ worker[v].stop
                                    \/ (worker[v].st = "exited" /\ worker'[v].failed = worker[v].failed)
    BY <1>2, <1>3
  <2>5. \A v \in Eng!Workers : worker'[v].st \in {"run", "wait"} => worker[v].st \in {"run", "wait"}
    BY <1>2, <1>3
  <2>6. (parent.pc = "raised" \/ parent.fatal
       \/ (\E v \in Eng!Workers : worker[v].failed \/ worker[v].st = "dead") => parent.faults > 0)'
    BY <1>1, <2>2, <2>4 DEF EngEndsForCause
  <2>7. (parent.pc = "loop" =>
           \A v \in Eng!Workers : /\ ~worker[v].stop /\ ~Eng!Queued(v, Eng!Stop)
                                  /\ worker[v].st = "exited" => worker[v].failed)'
    BY <1>1, <2>1, <2>4 DEF EngEndsForCause
  <2>8. parent.pc \notin {"returned", "raised"}
    BY <1>1, <2>3 DEF EngEndsForCause
  <2>9. parent'.pc \in {"join", "returned"} => parent'.completed = Eng!Games
    BY <1>1 DEF EngEndsForCause
  <2>10. (parent.pc \in {"returned", "raised"} => \A v \in Eng!Workers : ~Eng!Alive(v))'
    BY <2>8
  <2> QED BY <2>6, <2>7, <2>9, <2>10 DEF EngEndsForCause
<1> QED
  BY <1>4, <1>5, <1>6, <1>8, <1>9, <1>10 DEF EngInv

LEMMA EngResumeKeeps ==
  ASSUME Eng!EngineAssumption, EngInv, NEW w \in Eng!Workers, Eng!Resume(w)
  PROVE  EngInv'
<1>1. EngTyped /\ EngOneRequest /\ EngOwnRequest
  BY DEF EngInv
<1>2. PICK me \in EngStates : me = worker[w]
  BY <1>1 DEF EngTyped
<1>3. PICK r : r = Head(me.responses)
  OBVIOUS
<1>4. PICK got : got = [me EXCEPT !.responses = Tail(me.responses), !.sent = {}]
  OBVIOUS
<1>5. PICK you : you = IF Eng!Accepts(me, r) THEN [got EXCEPT !.st = "run"]
                       ELSE [got EXCEPT !.st = "exited", !.failed = TRUE]
  OBVIOUS
<1>6. /\ me.st = "wait" /\ me.responses # <<>> /\ UNCHANGED <<parent, broker>>
      /\ worker' = [worker EXCEPT ![w] = you]
  <2>1. got = [me EXCEPT !.responses = Tail(@), !.sent = {}]
    BY <1>4
  <2> QED BY <1>2, <1>3, <1>5, <2>1 DEF Eng!Resume, Eng!Fails
<1>7. /\ me.responses \in Seq([id : Nat, ok : BOOLEAN, slots : SUBSET Eng!Slots])
      /\ Len(me.responses) <= 1
  BY <1>1, <1>2 DEF EngStates, EngOneRequest
<1>8. /\ Tail(me.responses) = <<>> /\ r = me.responses[1] /\ 1 \in DOMAIN me.responses
      /\ r \in [id : Nat, ok : BOOLEAN, slots : SUBSET Eng!Slots]
      /\ <<>> \in Seq([id : Nat, ok : BOOLEAN, slots : SUBSET Eng!Slots])
  BY <1>3, <1>6, <1>7, EngTailFacts, EngShortTail, EmptySeq
<1>9. got \in EngStates /\ got.responses = <<>> /\ got.st = "wait" /\ got.failed = me.failed
  BY <1>4, <1>6, <1>8 DEF EngStates
<1>10. /\ got.tasks = me.tasks /\ got.active = me.active /\ got.done = me.done
       /\ got.stop = me.stop /\ got.asked = me.asked /\ got.input = me.input
       /\ got.output = me.output
  BY <1>4 DEF EngStates
<1>11. Eng!Accepts(me, r) \/ parent.faults > 0
  BY <1>1, <1>2, <1>6, <1>8 DEF EngOwnRequest, Eng!Accepts
<1>12. /\ you \in EngStates /\ you.responses = <<>>
       /\ you.st = IF Eng!Accepts(me, r) THEN "run" ELSE "exited"
       /\ Eng!Accepts(me, r) => you.failed = me.failed
       /\ ~Eng!Accepts(me, r) => you.failed
       /\ you.tasks = me.tasks /\ you.active = me.active /\ you.done = me.done
       /\ you.asked = me.asked /\ you.input = me.input
       /\ you.output = me.output /\ you.stop = me.stop
  <2>1. CASE Eng!Accepts(me, r)
    <3>1. you = [got EXCEPT !.st = "run"]
      BY <1>5, <2>1
    <3>2. you \in EngStates /\ you.failed = got.failed /\ you.stop = got.stop
      BY <1>9, <3>1 DEF EngStates
    <3>3. /\ you.responses = got.responses /\ you.st = "run" /\ you.tasks = got.tasks
          /\ you.active = got.active /\ you.done = got.done /\ you.asked = got.asked
          /\ you.input = got.input /\ you.output = got.output
      BY <1>9, <3>1 DEF EngStates
    <3> QED BY <1>9, <1>10, <2>1, <3>2, <3>3
  <2>2. CASE ~Eng!Accepts(me, r)
    <3>1. you = [got EXCEPT !.st = "exited", !.failed = TRUE]
      BY <1>5, <2>2
    <3>2. you \in EngStates /\ you.failed /\ you.stop = got.stop
      BY <1>9, <3>1 DEF EngStates
    <3>3. /\ you.responses = got.responses /\ you.st = "exited" /\ you.tasks = got.tasks
          /\ you.active = got.active /\ you.done = got.done /\ you.asked = got.asked
          /\ you.input = got.input /\ you.output = got.output
      BY <1>9, <3>1 DEF EngStates
    <3> QED BY <1>9, <1>10, <2>2, <3>2, <3>3
  <2> QED BY <2>1, <2>2
<1>13. /\ parent' \in [pc : {"loop", "join", "returned", "raised"}, pending : Seq(Eng!Games),
                      completed : SUBSET Eng!Games, fatal : BOOLEAN, faults : 0..EngineFaults]
       /\ parent'.pc = parent.pc /\ parent'.pending = parent.pending
       /\ parent'.completed = parent.completed /\ parent'.fatal = parent.fatal
       /\ parent'.faults >= parent.faults
  BY <1>1, <1>6, EngBasics DEF EngTyped
<1>14. you.failed = me.failed \/ parent'.faults > 0
  BY <1>6, <1>11, <1>12
<1>15. /\ UNCHANGED broker /\ you.done \subseteq me.done /\ you.st \in {"run", "exited"}
       /\ you.st = "run" => me.responses # <<>> /\ you.responses = <<>>
       /\ you.st = "exited" => you.failed \/ me.stop
  BY <1>6, <1>12
<1> QED
  BY <1>2, <1>6, <1>12, <1>13, <1>14, <1>15, EngLeavesKeeps

LEMMA EngExitKeeps ==
  ASSUME Eng!EngineAssumption, EngInv, NEW w \in Eng!Workers, Eng!Exit(w)
  PROVE  EngInv'
<1>1. EngTyped
  BY DEF EngInv
<1>2. PICK me \in EngStates : me = worker[w]
  BY <1>1 DEF EngTyped
<1>3. PICK you : you = [me EXCEPT !.st = "exited"]
  OBVIOUS
<1>4. me.st = "run" /\ me.stop /\ UNCHANGED <<parent, broker>> /\ worker' = [worker EXCEPT ![w] = you]
  BY <1>2, <1>3 DEF Eng!Exit
<1>5. you \in EngStates /\ you.failed = me.failed /\ you.stop = me.stop
  BY <1>3 DEF EngStates
<1>6. /\ you.responses = me.responses /\ you.st = "exited" /\ you.tasks = me.tasks
      /\ you.active = me.active /\ you.done = me.done /\ you.asked = me.asked
      /\ you.input = me.input /\ you.output = me.output
  BY <1>3 DEF EngStates
<1>7. /\ parent' \in [pc : {"loop", "join", "returned", "raised"}, pending : Seq(Eng!Games),
                      completed : SUBSET Eng!Games, fatal : BOOLEAN, faults : 0..EngineFaults]
      /\ parent'.pc = parent.pc /\ parent'.pending = parent.pending
      /\ parent'.completed = parent.completed /\ parent'.fatal = parent.fatal
      /\ parent'.faults >= parent.faults
  BY <1>1, <1>4, EngBasics DEF EngTyped
<1> QED
  BY <1>2, <1>4, <1>5, <1>6, <1>7, EngLeavesKeeps

LEMMA EngFaultKeeps ==
  ASSUME Eng!EngineAssumption, EngInv, NEW w \in Eng!Workers, Eng!GameFails(w) \/ Eng!WorkerDies(w)
  PROVE  EngInv'
<1>1. EngTyped
  BY DEF EngInv
<1>2. PICK me \in EngStates : me = worker[w]
  BY <1>1 DEF EngTyped
<1>3. /\ Eng!Fault /\ Eng!Alive(w) /\ UNCHANGED broker
      /\ parent' = [parent EXCEPT !.faults = parent.faults + 1]
  BY DEF Eng!GameFails, Eng!WorkerDies
<1>4. /\ parent' \in [pc : {"loop", "join", "returned", "raised"}, pending : Seq(Eng!Games),
                      completed : SUBSET Eng!Games, fatal : BOOLEAN, faults : 0..EngineFaults]
      /\ parent'.pc = parent.pc /\ parent'.pending = parent.pending
      /\ parent'.completed = parent.completed
      /\ parent'.faults >= parent.faults /\ parent'.faults > 0
  <2>1. /\ parent.faults + 1 \in 0..EngineFaults /\ parent.faults \in Nat
        /\ parent.faults + 1 > 0 /\ parent.faults + 1 >= parent.faults
    BY <1>1, <1>3, EngBasics
  <2>2. PICK n \in 0..EngineFaults : n = parent.faults + 1
    BY <2>1
  <2>3. parent' = [parent EXCEPT !.faults = n]
    BY <1>3, <2>2
  <2>4. /\ parent' \in [pc : {"loop", "join", "returned", "raised"}, pending : Seq(Eng!Games),
                      completed : SUBSET Eng!Games, fatal : BOOLEAN, faults : 0..EngineFaults]
        /\ parent'.pc = parent.pc /\ parent'.pending = parent.pending
        /\ parent'.completed = parent.completed /\ parent'.faults = n
    BY <1>1, <2>3 DEF EngTyped
  <2> QED BY <2>1, <2>2, <2>4
<1>5. parent'.fatal = parent.fatal /\ me.st \in {"run", "wait"}
  BY <1>1, <1>2, <1>3 DEF EngTyped, Eng!Alive
<1>6. CASE Eng!GameFails(w)
  <2>1. PICK you : you = [me EXCEPT !.st = "exited", !.failed = TRUE]
    OBVIOUS
  <2>2. worker' = [worker EXCEPT ![w] = you]
    BY <1>2, <1>6, <2>1 DEF Eng!GameFails, Eng!Fails
  <2>3. you \in EngStates /\ you.failed /\ you.stop = me.stop
    BY <2>1 DEF EngStates
  <2>4. /\ you.responses = me.responses /\ you.st = "exited" /\ you.tasks = me.tasks
        /\ you.active = me.active /\ you.done = me.done /\ you.asked = me.asked
        /\ you.input = me.input /\ you.output = me.output
    BY <2>1 DEF EngStates
  <2> QED BY <1>2, <1>3, <1>4, <1>5, <2>2, <2>3, <2>4, EngLeavesKeeps
<1>7. CASE Eng!WorkerDies(w)
  <2>1. PICK lost \in SUBSET me.done :
          worker' = [worker EXCEPT ![w] = [me EXCEPT !.st = "dead", !.done = @ \ lost]]
    BY <1>2, <1>7 DEF Eng!WorkerDies
  <2>2. PICK you : you = [me EXCEPT !.st = "dead", !.done = me.done \ lost]
    OBVIOUS
  <2>3. worker' = [worker EXCEPT ![w] = you]
    <3>1. [me EXCEPT !.st = "dead", !.done = @ \ lost] = you
      BY <2>2 DEF EngStates
    <3> QED BY <2>1, <3>1
  <2>4. you \in EngStates /\ you.failed = me.failed /\ you.stop = me.stop
    BY <2>2 DEF EngStates
  <2>5. /\ you.responses = me.responses /\ you.st = "dead" /\ you.tasks = me.tasks
        /\ you.active = me.active /\ you.done = me.done \ lost /\ you.asked = me.asked
        /\ you.input = me.input /\ you.output = me.output
    BY <2>2 DEF EngStates
  <2> QED BY <1>2, <1>3, <1>4, <1>5, <2>3, <2>4, <2>5, EngLeavesKeeps
<1> QED
  BY <1>6, <1>7

\* The parent gives up: whoever is alive is killed.
LEMMA EngAllDieKeeps ==
  ASSUME Eng!EngineAssumption, EngInv, UNCHANGED broker,
         parent' \in [pc : {"loop", "join", "returned", "raised"}, pending : Seq(Eng!Games),
                      completed : SUBSET Eng!Games, fatal : BOOLEAN, faults : 0..EngineFaults],
         parent'.pc = "raised", parent'.pending = parent.pending,
         parent'.completed = parent.completed, parent'.faults > 0,
         worker' = [w \in Eng!Workers |-> IF Eng!Alive(w) THEN [worker[w] EXCEPT !.st = "dead"]
                                      ELSE worker[w]]
  PROVE  EngInv'
<1>1. /\ EngTyped /\ EngOneRequest /\ EngOwnRequest
      /\ EngPlacedOnce /\ EngNoneLost /\ EngEndsForCause
  BY DEF EngInv
<1>2. ASSUME NEW v \in Eng!Workers
      PROVE  /\ worker'[v] \in EngStates /\ worker'[v].st \in {"exited", "dead"}
             /\ worker'[v].tasks = worker[v].tasks /\ worker'[v].active = worker[v].active
             /\ worker'[v].done = worker[v].done /\ worker'[v].responses = worker[v].responses
             /\ worker[v].st = "dead" => worker'[v].st = "dead"
  <2>1. PICK me \in EngStates : me = worker[v]
    BY <1>1 DEF EngTyped
  <2>2. CASE Eng!Alive(v)
    <3>1. worker'[v] = [me EXCEPT !.st = "dead"]
      BY <2>1, <2>2
    <3> QED BY <2>1, <3>1 DEF EngStates
  <2>3. CASE ~Eng!Alive(v)
    <3>1. worker'[v] = me
      BY <2>1, <2>3
    <3> QED BY <2>1, <2>3, <3>1 DEF EngStates, Eng!Alive
  <2> QED BY <2>2, <2>3
<1>3. EngTyped'
  BY <1>1, <1>2 DEF EngTyped
<1>4. EngOneRequest'
  BY <1>1, <1>2 DEF EngOneRequest, EngFrom, EngOneEach, EngAsked
<1>5. EngOwnRequest'
  BY <1>2 DEF EngOwnRequest
<1>6. /\ EngPlacedOnce'
      /\ \A g \in Eng!Games : EngPending(g)' <=> EngPending(g)
      /\ \A v \in Eng!Workers, g \in Eng!Games : EngHolds(v, g)' <=> EngHolds(v, g)
  BY <1>1, <1>2, EngPlacesStay
<1>7. EngNoneLost'
  BY <1>1, <1>2, <1>6 DEF EngNoneLost
<1>8. EngEndsForCause'
  BY <1>2 DEF EngEndsForCause, Eng!Alive
<1> QED
  BY <1>3, <1>4, <1>5, <1>6, <1>7, <1>8 DEF EngInv

\* The requests of the workers stay their own while only other fields change.
LEMMA EngOwnKept ==
  ASSUME EngOwnRequest, UNCHANGED broker, parent'.faults = parent.faults,
         \A v \in Eng!Workers :
           /\ worker'[v].st = worker[v].st /\ worker'[v].active = worker[v].active
           /\ worker'[v].asked = worker[v].asked /\ worker'[v].id = worker[v].id
           /\ worker'[v].sent = worker[v].sent /\ worker'[v].input = worker[v].input
           /\ worker'[v].output = worker[v].output
           /\ worker'[v].responses = worker[v].responses
  PROVE  EngOwnRequest'
<1> SUFFICES ASSUME NEW w \in Eng!Workers, worker'[w].st = "wait"
             PROVE (/\ \A i \in DOMAIN broker.requests : EngAsks(w, broker.requests[i])
                    /\ \A i \in DOMAIN broker.queue : EngAsks(w, broker.queue[i])
                    /\ \A i \in DOMAIN broker.batch :
                         /\ EngAsks(w, broker.batch[i])
                         /\ broker.batch[i].worker = w =>
                              broker.batch[i].rows = {<<s, worker[w].input[s]>> : s \in worker[w].sent}
                    /\ \A s \in worker[w].sent : worker[w].input[s] = EngPosition(w, s)
                    /\ \A i \in DOMAIN worker[w].responses :
                         LET r == worker[w].responses[i] IN
                         /\ r.id = worker[w].id /\ r.slots = worker[w].sent
                         /\ r.ok => \A s \in worker[w].sent : worker[w].output[s] = EngPosition(w, s)
                         /\ ~r.ok => parent.faults > 0)'
  BY DEF EngOwnRequest
<1>1. worker[w].st = "wait"
  OBVIOUS
<1>2. \A i \in DOMAIN broker'.requests : EngAsks(w, broker.requests[i])'
  BY <1>1 DEF EngOwnRequest, EngAsks
<1>3. \A i \in DOMAIN broker'.queue : EngAsks(w, broker.queue[i])'
  BY <1>1 DEF EngOwnRequest, EngAsks
<1>4. (\A i \in DOMAIN broker.batch :
         /\ EngAsks(w, broker.batch[i])
         /\ broker.batch[i].worker = w =>
              broker.batch[i].rows = {<<s, worker[w].input[s]>> : s \in worker[w].sent})'
  BY <1>1 DEF EngOwnRequest, EngAsks
<1>5. (\A s \in worker[w].sent : worker[w].input[s] = EngPosition(w, s))'
  BY <1>1 DEF EngOwnRequest, EngPosition
<1>6. (\A i \in DOMAIN worker[w].responses :
         LET r == worker[w].responses[i] IN
         /\ r.id = worker[w].id /\ r.slots = worker[w].sent
         /\ r.ok => \A s \in worker[w].sent : worker[w].output[s] = EngPosition(w, s)
         /\ ~r.ok => parent.faults > 0)'
  BY <1>1 DEF EngOwnRequest, EngPosition
<1> QED
  BY <1>2, <1>3, <1>4, <1>5, <1>6

LEMMA EngIngressKeeps ==
  ASSUME Eng!EngineAssumption, EngInv, Eng!Ingress
  PROVE  EngInv'
<1>1. /\ EngTyped /\ EngOneRequest /\ EngOwnRequest
      /\ EngPlacedOnce /\ EngNoneLost /\ EngEndsForCause
  BY DEF EngInv
<1>2. broker.requests # <<>> /\ broker.requests \in Seq(EngRequests) /\ broker.queue \in Seq(EngRequests)
  BY <1>1 DEF Eng!Ingress, EngTyped
<1>3. PICK r : r = Head(broker.requests)
  OBVIOUS
<1>4. PICK rest : rest = Tail(broker.requests)
  OBVIOUS
<1>5. /\ r \in EngRequests /\ rest \in Seq(EngRequests)
      /\ r = broker.requests[1] /\ 1 \in DOMAIN broker.requests
      /\ \A i \in DOMAIN rest : /\ rest[i] = broker.requests[i + 1]
                                /\ i + 1 \in DOMAIN broker.requests /\ i + 1 # 1
      /\ \A i, j \in DOMAIN rest : i + 1 = j + 1 => i = j
      /\ \A i \in DOMAIN broker.requests :
           i = 1 \/ (i - 1 \in DOMAIN rest /\ broker.requests[i] = rest[i - 1])
  BY <1>2, <1>3, <1>4, EngTailFacts
<1>6. Cardinality(r.slots) \in 1..BatchCap
  <2>1. /\ IsFiniteSet(Eng!Slots) /\ Cardinality(Eng!Slots) <= BatchCap /\ Cardinality(Eng!Slots) \in Nat
        /\ BatchCap \in Nat
    BY EngContexts1 DEF Eng!EngineAssumption
  <2>2. r.slots \subseteq Eng!Slots /\ r.slots # {}
    BY <1>5 DEF EngRequests
  <2>3. /\ IsFiniteSet(r.slots) /\ Cardinality(r.slots) <= Cardinality(Eng!Slots)
        /\ Cardinality(r.slots) \in Nat
    BY <2>1, <2>2, FS_Subset, FS_CardinalityType
  <2>4. Cardinality(r.slots) # 0
    BY <2>2, <2>3, FS_EmptySet
  <2> QED BY <2>1, <2>3, <2>4
<1>7. /\ UNCHANGED <<parent, worker>>
      /\ broker' = [broker EXCEPT !.requests = rest, !.queue = Append(broker.queue, r)]
  <2>1. parent' = [parent EXCEPT !.fatal = parent.fatal \/ FALSE]
    BY <1>3, <1>6, EngCount DEF Eng!Ingress
  <2>2. UNCHANGED parent
    BY <1>1, <2>1 DEF EngTyped
  <2>3. broker' = [broker EXCEPT !.requests = rest, !.queue = Append(broker.queue, r)]
    BY <1>1, <1>3, <1>4, <1>6, EngCount DEF Eng!Ingress, EngTyped
  <2> QED BY <2>2, <2>3 DEF Eng!Ingress
<1>8. /\ broker'.requests = rest /\ broker'.queue = Append(broker.queue, r)
      /\ broker'.batch = broker.batch
  BY <1>1, <1>7 DEF EngTyped
<1>9. /\ broker'.queue \in Seq(EngRequests)
      /\ Len(broker.queue) + 1 \notin DOMAIN broker.queue
      /\ DOMAIN broker'.queue = DOMAIN broker.queue \cup {Len(broker.queue) + 1}
      /\ \A i \in DOMAIN broker.queue : broker'.queue[i] = broker.queue[i]
      /\ broker'.queue[Len(broker.queue) + 1] = r
  BY <1>2, <1>5, <1>8, EngAppendFacts
<1>10. EngTyped'
  BY <1>1, <1>5, <1>7, <1>8, <1>9 DEF EngTyped
<1>11. PICK u \in Eng!Workers : u = r.worker
  BY <1>5 DEF EngRequests
<1>12. ASSUME NEW i \in DOMAIN rest PROVE rest[i].worker # u
  <2>1. broker.requests[i + 1].worker = rest[i].worker /\ i + 1 \in DOMAIN broker.requests /\ i + 1 # 1
    BY <1>5
  <2> QED BY <1>1, <1>5, <1>11, <2>1 DEF EngOneRequest, EngOneEach
<1>13. /\ EngFrom(broker.requests, u) /\ ~(EngFrom(broker.requests, u)')
       /\ \A v \in Eng!Workers : v # u => (EngFrom(broker.requests, v)' <=> EngFrom(broker.requests, v))
  <2>1. EngFrom(broker.requests, u)
    BY <1>5, <1>11 DEF EngFrom
  <2>2. ~(EngFrom(broker.requests, u)')
    BY <1>8, <1>12 DEF EngFrom
  <2>3. ASSUME NEW v \in Eng!Workers, v # u PROVE EngFrom(broker.requests, v)' <=> EngFrom(broker.requests, v)
    <3>1. EngFrom(broker.requests, v)' <=> \E i \in DOMAIN rest : rest[i].worker = v
      BY <1>8 DEF EngFrom
    <3>2. EngFrom(broker.requests, v) <=> \E i \in DOMAIN broker.requests : broker.requests[i].worker = v
      BY DEF EngFrom
    <3> QED BY <1>5, <1>11, <2>3, <3>1, <3>2
  <2> QED BY <2>1, <2>2, <2>3
<1>14. \A v \in Eng!Workers : /\ EngFrom(broker.queue, v)' <=> EngFrom(broker.queue, v) \/ v = u
                              /\ EngFrom(broker.batch, v)' <=> EngFrom(broker.batch, v)
  BY <1>8, <1>9, <1>11 DEF EngFrom
<1>15. \A v \in Eng!Workers : EngAsked(v)' <=> EngAsked(v)
  BY <1>13, <1>14 DEF EngAsked
<1>16. EngOneRequest'
  <2>1. EngOneEach(broker.requests)'
    <3> SUFFICES ASSUME NEW i \in DOMAIN rest, NEW j \in DOMAIN rest, rest[i].worker = rest[j].worker
                 PROVE  i = j
      BY <1>8 DEF EngOneEach
    <3>1. i + 1 = j + 1
      BY <1>1, <1>5 DEF EngOneRequest, EngOneEach
    <3> QED BY <1>5, <3>1
  <2>2. EngOneEach(broker.queue)'
    <3>1. \A i \in DOMAIN broker.queue : broker.queue[i].worker # u
      BY <1>1, <1>13 DEF EngOneRequest, EngFrom
    <3> QED BY <1>1, <1>9, <1>11, <3>1 DEF EngOneRequest, EngOneEach
  <2>3. EngOneEach(broker.batch)'
    BY <1>1, <1>8 DEF EngOneRequest, EngOneEach
  <2>4. ASSUME NEW v \in Eng!Workers
        PROVE  (/\ EngFrom(broker.requests, v) => ~EngFrom(broker.queue, v) /\ ~EngFrom(broker.batch, v)
                /\ EngFrom(broker.queue, v) => ~EngFrom(broker.batch, v)
                /\ EngAsked(v) => worker[v].responses = <<>>
                /\ worker[v].st = "run" => ~EngAsked(v) /\ worker[v].responses = <<>>
                /\ Len(worker[v].responses) <= 1)'
    BY <1>1, <1>7, <1>13, <1>14, <1>15 DEF EngOneRequest
  <2> QED BY <2>1, <2>2, <2>3, <2>4 DEF EngOneRequest
<1>17. EngOwnRequest'
  <2>1. ASSUME NEW v \in Eng!Workers, worker[v].st = "wait"
        PROVE  /\ \A i \in DOMAIN broker'.requests : EngAsks(v, broker.requests[i])'
               /\ \A i \in DOMAIN broker'.queue : EngAsks(v, broker.queue[i])'
    <3>1. \A i \in DOMAIN broker.requests : EngAsks(v, broker.requests[i])
      BY <1>1, <2>1 DEF EngOwnRequest
    <3>2. \A i \in DOMAIN broker.queue : EngAsks(v, broker.queue[i])
      BY <1>1, <2>1 DEF EngOwnRequest
    <3>3. \A i \in DOMAIN broker'.requests : EngAsks(v, broker.requests[i])'
      BY <3>1, <1>5, <1>7, <1>8 DEF EngAsks
    <3>4. \A i \in DOMAIN broker'.queue : EngAsks(v, broker.queue[i])'
      BY <3>1, <3>2, <1>5, <1>7, <1>9 DEF EngAsks
    <3> QED BY <3>3, <3>4
  <2> QED BY <1>1, <1>7, <1>8, <2>1 DEF EngOwnRequest, EngAsks, EngPosition
<1>18. EngPlacedOnce' /\ EngNoneLost' /\ EngEndsForCause'
  BY <1>1, <1>7 DEF EngPlacedOnce, EngNoneLost, EngEndsForCause, Eng!Queued, Eng!Played, EngHolds,
     EngPending, Eng!Alive
<1> QED
  BY <1>10, <1>16, <1>17, <1>18 DEF EngInv

\* What a sequence has after its first n.
LEMMA EngDropFacts ==
  ASSUME NEW S, NEW q \in Seq(S), NEW n \in 1..Len(q)
  PROVE  /\ SubSeq(q, n + 1, Len(q)) \in Seq(S)
         /\ Len(q) \in Nat /\ DOMAIN q = 1..Len(q)
         /\ DOMAIN SubSeq(q, n + 1, Len(q)) = 1..Len(q) - n
         /\ \A i \in 1..Len(q) - n : SubSeq(q, n + 1, Len(q))[i] = q[n + i]
OBVIOUS

LEMMA EngTakeBatchKeeps ==
  ASSUME Eng!EngineAssumption, EngInv, Eng!TakeBatch
  PROVE  EngInv'
<1>1. /\ EngTyped /\ EngOneRequest /\ EngOwnRequest
      /\ EngPlacedOnce /\ EngNoneLost /\ EngEndsForCause
  BY DEF EngInv
<1>2. PICK q \in Seq(EngRequests) : q = broker.queue
  BY <1>1 DEF EngTyped
<1>3. q # <<>> /\ broker.batch = <<>> /\ UNCHANGED <<parent, worker>>
  BY <1>2 DEF Eng!TakeBatch
<1>4. PICK n : n = Eng!Prefix(q)
  OBVIOUS
<1>5. n \in 1..Len(q)
  <2>1. Len(q) \in Nat \ {0}
    BY <1>3, EmptySeq
  <2> QED BY <1>4, <2>1, EngPrefixIsPart
<1>6. PICK rest : rest = SubSeq(q, n + 1, Len(q))
  OBVIOUS
<1>7. PICK batch : batch = [i \in 1..n |->
        [worker |-> q[i].worker, id |-> q[i].id, slots |-> q[i].slots,
         rows |-> {<<s, worker[q[i].worker].input[s]>> : s \in q[i].slots}]]
  OBVIOUS
<1>8. broker' = [broker EXCEPT !.queue = rest, !.batch = batch]
  BY <1>1, <1>2, <1>4, <1>6, <1>7 DEF Eng!TakeBatch, EngTyped
<1>9. broker'.queue = rest /\ broker'.batch = batch /\ broker'.requests = broker.requests
  BY <1>1, <1>8 DEF EngTyped
<1>10. /\ rest \in Seq(EngRequests) /\ Len(q) \in Nat /\ DOMAIN q = 1..Len(q)
       /\ DOMAIN rest = 1..Len(q) - n /\ \A i \in 1..Len(q) - n : rest[i] = q[n + i]
  BY <1>5, <1>6, EngDropFacts
<1>11. \A i \in 1..n : i \in DOMAIN q /\ q[i] \in EngRequests
  BY <1>5, <1>10
<1>12. /\ DOMAIN batch = 1..n
       /\ \A i \in 1..n : /\ batch[i].worker = q[i].worker /\ batch[i].id = q[i].id
                          /\ batch[i].slots = q[i].slots
                          /\ batch[i].rows = {<<s, worker[q[i].worker].input[s]>> : s \in q[i].slots}
  BY <1>7
<1>13. batch \in Seq(EngStaged)
  <2>1. ASSUME NEW i \in 1..n PROVE batch[i] \in EngStaged
    <3>1. PICK r \in EngRequests : r = q[i]
      BY <1>11
    <3>2. r.worker \in Eng!Workers /\ r.id \in Nat /\ r.slots \in (SUBSET Eng!Slots) \ {{}}
      BY DEF EngRequests
    <3>3. worker[r.worker].input \in [Eng!Slots -> Eng!Contents]
      BY <1>1, <3>2 DEF EngTyped, EngStates
    <3>4. {<<s, worker[r.worker].input[s]>> : s \in r.slots} \in SUBSET (Eng!Slots \X Eng!Contents)
      BY <3>2, <3>3
    <3>5. batch[i] = [worker |-> r.worker, id |-> r.id, slots |-> r.slots,
                      rows |-> {<<s, worker[r.worker].input[s]>> : s \in r.slots}]
      BY <1>7, <3>1
    <3> QED BY <3>2, <3>4, <3>5 DEF EngStaged
  <2>2. n \in Nat
    BY <1>5
  <2> QED BY <1>7, <2>1, <2>2
<1>14. \A i \in DOMAIN batch : \A s \in batch[i].slots : \E c \in Eng!Contents : <<s, c>> \in batch[i].rows
  <2> TAKE i \in DOMAIN batch
  <2> TAKE s \in batch[i].slots
  <2>1. q[i] \in EngRequests /\ s \in q[i].slots
    BY <1>11, <1>12
  <2>2. q[i].worker \in Eng!Workers /\ s \in Eng!Slots
    BY <2>1 DEF EngRequests
  <2>3. worker[q[i].worker].input[s] \in Eng!Contents
    BY <1>1, <2>2 DEF EngTyped, EngStates
  <2>4. <<s, worker[q[i].worker].input[s]>> \in batch[i].rows
    BY <1>12, <2>1
  <2> QED BY <2>3, <2>4
<1>15. EngTyped'
  BY <1>1, <1>3, <1>8, <1>9, <1>10, <1>13, <1>14 DEF EngTyped
<1>16. \A v \in Eng!Workers : /\ EngFrom(broker.queue, v)' <=> \E i \in DOMAIN q : i > n /\ q[i].worker = v
                              /\ EngFrom(broker.batch, v)' <=> \E i \in DOMAIN q : i <= n /\ q[i].worker = v
                              /\ EngFrom(broker.requests, v)' <=> EngFrom(broker.requests, v)
                              /\ EngFrom(broker.queue, v) <=> \E i \in DOMAIN q : q[i].worker = v
                              /\ ~EngFrom(broker.batch, v)
  <2> TAKE v \in Eng!Workers
  <2>1. EngFrom(broker.queue, v)' <=> \E i \in 1..Len(q) - n : q[n + i].worker = v
    BY <1>9, <1>10 DEF EngFrom
  <2>2. \A i \in 1..Len(q) - n : n + i \in DOMAIN q /\ n + i > n
    BY <1>5, <1>10
  <2>3. \A i \in DOMAIN q : i > n => i - n \in 1..Len(q) - n /\ n + (i - n) = i
    BY <1>5, <1>10
  <2>4. EngFrom(broker.queue, v)' <=> \E i \in DOMAIN q : i > n /\ q[i].worker = v
    BY <2>1, <2>2, <2>3
  <2>5. EngFrom(broker.batch, v)' <=> \E i \in 1..n : q[i].worker = v
    BY <1>9, <1>12 DEF EngFrom
  <2>6. \A i : i \in 1..n <=> i \in DOMAIN q /\ i <= n
    BY <1>5, <1>10
  <2> QED BY <1>2, <1>3, <1>9, <2>4, <2>5, <2>6 DEF EngFrom
<1>17. \A i, j \in DOMAIN q : q[i].worker = q[j].worker => i = j
  BY <1>1, <1>2 DEF EngOneRequest, EngOneEach
<1>18. \A v \in Eng!Workers : EngAsked(v)' <=> EngAsked(v)
  <2>1. \A i \in DOMAIN q : i > n \/ i <= n
    BY <1>5, <1>10
  <2> QED BY <1>16, <2>1 DEF EngAsked
<1>19. EngOneRequest'
  <2>1. EngOneEach(broker.requests)'
    BY <1>1, <1>9 DEF EngOneRequest, EngOneEach
  <2>2. EngOneEach(broker.queue)'
    <3> SUFFICES ASSUME NEW i \in DOMAIN rest, NEW j \in DOMAIN rest, rest[i].worker = rest[j].worker
                 PROVE  i = j
      BY <1>9 DEF EngOneEach
    <3>1. n + i \in DOMAIN q /\ n + j \in DOMAIN q /\ q[n + i].worker = q[n + j].worker
      BY <1>5, <1>10
    <3>2. n + i = n + j
      BY <1>17, <3>1
    <3> QED BY <1>5, <1>10, <3>2
  <2>3. EngOneEach(broker.batch)'
    BY <1>9, <1>11, <1>12, <1>17 DEF EngOneEach
  <2>4. ASSUME NEW v \in Eng!Workers, EngFrom(broker.queue, v)' PROVE ~(EngFrom(broker.batch, v)')
    <3>1. \A i, j \in DOMAIN q : i > n /\ j <= n => i # j
      BY <1>5, <1>10
    <3> QED BY <1>16, <1>17, <2>4, <3>1
  <2>5. ASSUME NEW v \in Eng!Workers
        PROVE  (/\ EngFrom(broker.requests, v) => ~EngFrom(broker.queue, v) /\ ~EngFrom(broker.batch, v)
                /\ EngFrom(broker.queue, v) => ~EngFrom(broker.batch, v)
                /\ EngAsked(v) => worker[v].responses = <<>>
                /\ worker[v].st = "run" => ~EngAsked(v) /\ worker[v].responses = <<>>
                /\ Len(worker[v].responses) <= 1)'
    <3>1. EngFrom(broker.requests, v) => ~EngFrom(broker.queue, v)
      BY <1>1 DEF EngOneRequest
    <3>2. EngFrom(broker.queue, v)' \/ EngFrom(broker.batch, v)' => EngFrom(broker.queue, v)
      BY <1>16
    <3>3. /\ EngAsked(v) => worker[v].responses = <<>>
          /\ worker[v].st = "run" => ~EngAsked(v) /\ worker[v].responses = <<>>
          /\ Len(worker[v].responses) <= 1
      BY <1>1 DEF EngOneRequest
    <3> QED BY <1>3, <1>16, <1>18, <2>4, <3>1, <3>2, <3>3
  <2> QED BY <2>1, <2>2, <2>3, <2>5 DEF EngOneRequest
<1>20. EngOwnRequest'
  <2>1. ASSUME NEW v \in Eng!Workers, worker[v].st = "wait"
        PROVE  /\ \A i \in DOMAIN rest : EngAsks(v, rest[i])
               /\ \A i \in DOMAIN batch :
                    /\ EngAsks(v, batch[i])
                    /\ batch[i].worker = v =>
                         batch[i].rows = {<<s, worker[v].input[s]>> : s \in worker[v].sent}
    <3>1. \A i \in DOMAIN q : EngAsks(v, q[i])
      BY <1>1, <1>2, <2>1 DEF EngOwnRequest
    <3>2. \A i \in DOMAIN rest : EngAsks(v, rest[i])
      <4>1. \A i \in DOMAIN rest : n + i \in DOMAIN q /\ rest[i] = q[n + i]
        BY <1>5, <1>10
      <4> QED BY <3>1, <4>1 DEF EngAsks
    <3>3. \A i \in DOMAIN batch : EngAsks(v, batch[i])
      BY <3>1, <1>11, <1>12 DEF EngAsks
    <3>4. ASSUME NEW i \in DOMAIN batch, batch[i].worker = v
          PROVE  batch[i].rows = {<<s, worker[v].input[s]>> : s \in worker[v].sent}
      <4>1. q[i].worker = v /\ q[i].slots = worker[v].sent
        BY <1>11, <1>12, <3>1, <3>4 DEF EngAsks
      <4> QED BY <1>12, <3>4, <4>1
    <3> QED BY <3>2, <3>3, <3>4
  <2> QED BY <1>1, <1>3, <1>9, <2>1 DEF EngOwnRequest, EngAsks, EngPosition
<1>21. EngPlacedOnce' /\ EngNoneLost' /\ EngEndsForCause'
  BY <1>1, <1>3 DEF EngPlacedOnce, EngNoneLost, EngEndsForCause, Eng!Queued, Eng!Played, EngHolds,
     EngPending, Eng!Alive
<1> QED
  BY <1>15, <1>19, <1>20, <1>21 DEF EngInv

\* What an answer to a batch, good or bad, leaves a worker with.
LEMMA EngAnsweredFacts ==
  ASSUME Eng!EngineAssumption, EngInv, NEW w \in Eng!Workers, NEW ok \in BOOLEAN
  PROVE  LET me == worker[w]
             you == Eng!Answered(w, ok)
         IN /\ you \in EngStates
            /\ you.st = me.st /\ you.tasks = me.tasks /\ you.active = me.active /\ you.done = me.done
            /\ you.asked = me.asked /\ you.id = me.id /\ you.sent = me.sent /\ you.input = me.input
            /\ you.stop = me.stop /\ you.failed = me.failed
            /\ ~EngFrom(broker.batch, w) => you = me
            /\ EngFrom(broker.batch, w) =>
                 \E i \in DOMAIN broker.batch :
                   LET r == broker.batch[i] IN
                   /\ r.worker = w
                   /\ you.responses = <<[id |-> r.id, ok |-> ok, slots |-> r.slots]>>
                   /\ me.st = "wait" /\ ok =>
                        \A s \in me.sent : you.output[s] = me.input[s]
<1>1. /\ EngTyped /\ EngOneRequest /\ EngOwnRequest
  BY DEF EngInv
<1>2. PICK me \in EngStates : me = worker[w]
  BY <1>1 DEF EngTyped
<1>3. EngFrom(broker.batch, w) <=> Eng!InBatch(w) # {}
  BY DEF EngFrom, Eng!InBatch
<1>4. CASE Eng!InBatch(w) = {}
  BY <1>2, <1>3, <1>4 DEF Eng!Answered
<1>5. CASE Eng!InBatch(w) # {}
  <2>1. PICK i : i = CHOOSE j \in Eng!InBatch(w) : TRUE
    OBVIOUS
  <2>2. i \in DOMAIN broker.batch /\ broker.batch[i].worker = w
    BY <1>5, <2>1 DEF Eng!InBatch
  <2>3. PICK r : r = broker.batch[i]
    OBVIOUS
  <2>4. r \in EngStaged /\ \A s \in r.slots : \E c \in Eng!Contents : <<s, c>> \in r.rows
    <3>1. broker.batch \in Seq(EngStaged)
      BY <1>1 DEF EngTyped
    <3>2. r \in EngStaged
      BY <2>2, <2>3, <3>1
    <3> QED BY <1>1, <2>2, <2>3, <3>2 DEF EngTyped
  <2>5. r.id \in Nat /\ r.slots \in SUBSET Eng!Slots /\ r.rows \in SUBSET (Eng!Slots \X Eng!Contents) /\ r.worker = w
    BY <2>2, <2>3, <2>4 DEF EngStaged
  <2>6. PICK row : row = [s \in Eng!Slots |-> (CHOOSE x \in r.rows : x[1] = s)[2]]
    OBVIOUS
  <2>7. \A s \in r.slots : row[s] \in Eng!Contents /\ <<s, row[s]>> \in r.rows
    <3> TAKE s \in r.slots
    <3>1. PICK c \in Eng!Contents : <<s, c>> \in r.rows
      BY <2>4
    <3>2. PICK x : x = CHOOSE y \in r.rows : y[1] = s
      OBVIOUS
    <3>3. x \in r.rows /\ x[1] = s
      BY <3>1, <3>2
    <3>4. x \in Eng!Slots \X Eng!Contents
      BY <2>5, <3>3
    <3>5. row[s] = x[2]
      BY <2>5, <2>6, <3>2
    <3>6. x = <<x[1], x[2]>> /\ x[2] \in Eng!Contents
      BY <3>4
    <3> QED BY <3>3, <3>5, <3>6
  <2>8. PICK output : output = [s \in Eng!Slots |-> IF ok /\ s \in r.slots THEN row[s] ELSE me.output[s]]
    OBVIOUS
  <2>9. output \in [Eng!Slots -> Eng!Contents]
    <3>1. me.output \in [Eng!Slots -> Eng!Contents]
      BY DEF EngStates
    <3> QED BY <2>7, <2>8, <3>1
  <2>10. PICK responses : responses = Append(me.responses, [id |-> r.id, ok |-> ok, slots |-> r.slots])
    OBVIOUS
  <2>11. me.responses = <<>>
    BY <1>1, <1>2, <1>3, <1>5 DEF EngOneRequest, EngAsked
  <2>12. responses = <<[id |-> r.id, ok |-> ok, slots |-> r.slots]>>
    BY <2>10, <2>11
  <2>13. responses \in Seq([id : Nat, ok : BOOLEAN, slots : SUBSET Eng!Slots])
    <3>1. [id |-> r.id, ok |-> ok, slots |-> r.slots] \in [id : Nat, ok : BOOLEAN, slots : SUBSET Eng!Slots]
      BY <2>5
    <3> QED BY <2>12, <3>1
  <2>14. PICK you : you = Eng!Answered(w, ok)
    OBVIOUS
  <2>15. you = [me EXCEPT !.responses = responses, !.output = output]
    <3>1. you = [me EXCEPT
            !.responses = Append(@, [id |-> r.id, ok |-> ok, slots |-> r.slots]),
            !.output = [s \in Eng!Slots |-> IF ok /\ s \in r.slots
                                        THEN (CHOOSE x \in r.rows : x[1] = s)[2] ELSE @[s]]]
      BY <1>2, <1>5, <2>1, <2>3, <2>14 DEF Eng!Answered
    <3>2. output = [s \in Eng!Slots |-> IF ok /\ s \in r.slots
                                     THEN (CHOOSE x \in r.rows : x[1] = s)[2] ELSE me.output[s]]
      BY <2>6, <2>8
    <3> QED BY <2>10, <3>1, <3>2 DEF EngStates
  <2>16. you \in EngStates /\ you.stop = me.stop /\ you.failed = me.failed
    BY <2>9, <2>13, <2>15 DEF EngStates
  <2>17. /\ you.st = me.st /\ you.tasks = me.tasks /\ you.active = me.active /\ you.done = me.done
         /\ you.asked = me.asked /\ you.id = me.id /\ you.sent = me.sent /\ you.input = me.input
         /\ you.responses = responses /\ you.output = output
    BY <2>15 DEF EngStates
  <2>18. ASSUME me.st = "wait", ok, NEW s \in me.sent PROVE you.output[s] = me.input[s]
    <3>1. r.slots = me.sent /\ r.rows = {<<t, me.input[t]>> : t \in me.sent}
      BY <1>1, <1>2, <2>2, <2>3, <2>18 DEF EngOwnRequest, EngAsks
    <3>2. <<s, row[s]>> \in r.rows
      BY <2>7, <2>18, <3>1
    <3>3. PICK t \in me.sent : <<s, row[s]>> = <<t, me.input[t]>>
      BY <3>1, <3>2
    <3>4. row[s] = me.input[s]
      BY <3>3
    <3>5. s \in Eng!Slots
      BY <2>5, <2>18, <3>1
    <3> QED BY <2>8, <2>17, <2>18, <3>1, <3>4, <3>5
  <2> QED BY <1>2, <1>3, <1>5, <2>2, <2>3, <2>12, <2>14, <2>16, <2>17, <2>18
<1> QED
  BY <1>4, <1>5

LEMMA EngDispatchKeeps ==
  ASSUME Eng!EngineAssumption, EngInv, NEW ok \in BOOLEAN,
         worker' = [w \in Eng!Workers |-> Eng!Answered(w, ok)],
         broker' = [broker EXCEPT !.batch = <<>>],
         parent' \in [pc : {"loop", "join", "returned", "raised"}, pending : Seq(Eng!Games),
                      completed : SUBSET Eng!Games, fatal : BOOLEAN, faults : 0..EngineFaults],
         parent'.pc = parent.pc, parent'.pending = parent.pending,
         parent'.completed = parent.completed,
         parent'.fatal = parent.fatal \/ parent'.faults > 0,
         parent'.faults >= parent.faults,
         ok \/ parent'.faults > 0
  PROVE  EngInv'
<1>1. /\ EngTyped /\ EngOneRequest /\ EngOwnRequest
      /\ EngPlacedOnce /\ EngNoneLost /\ EngEndsForCause
  BY DEF EngInv
<1>2. \A v \in Eng!Workers :
        /\ worker'[v] \in EngStates
        /\ worker'[v].st = worker[v].st /\ worker'[v].tasks = worker[v].tasks
        /\ worker'[v].active = worker[v].active /\ worker'[v].done = worker[v].done
        /\ worker'[v].asked = worker[v].asked /\ worker'[v].id = worker[v].id
        /\ worker'[v].sent = worker[v].sent /\ worker'[v].input = worker[v].input
        /\ worker'[v].stop = worker[v].stop /\ worker'[v].failed = worker[v].failed
        /\ ~EngFrom(broker.batch, v) => worker'[v] = worker[v]
  BY EngAnsweredFacts
<1>3. \A v \in Eng!Workers : EngFrom(broker.batch, v) =>
        \E i \in DOMAIN broker.batch :
           /\ broker.batch[i].worker = v
           /\ worker'[v].responses =
                <<[id |-> broker.batch[i].id, ok |-> ok, slots |-> broker.batch[i].slots]>>
           /\ worker[v].st = "wait" /\ ok =>
                \A s \in worker[v].sent : worker'[v].output[s] = worker[v].input[s]
  BY EngAnsweredFacts
<1>4. /\ broker'.batch = <<>> /\ broker'.requests = broker.requests /\ broker'.queue = broker.queue
  BY <1>1 DEF EngTyped
<1>5. EngTyped'
  <2>1. worker' \in [Eng!Workers -> EngStates]
    BY <1>2
  <2>2. <<>> \in Seq(EngStaged) /\ DOMAIN <<>> = {}
    BY EmptySeq
  <2> QED BY <1>1, <1>4, <2>1, <2>2 DEF EngTyped
<1>6. \A v \in Eng!Workers : /\ EngFrom(broker.requests, v)' <=> EngFrom(broker.requests, v)
                             /\ EngFrom(broker.queue, v)' <=> EngFrom(broker.queue, v)
                             /\ ~(EngFrom(broker.batch, v)')
  BY <1>4 DEF EngFrom
<1>7. EngOneRequest'
  <2>1. EngOneEach(broker.requests)' /\ EngOneEach(broker.queue)' /\ EngOneEach(broker.batch)'
    BY <1>1, <1>4 DEF EngOneRequest, EngOneEach
  <2>2. ASSUME NEW v \in Eng!Workers
        PROVE  (/\ EngFrom(broker.requests, v) => ~EngFrom(broker.queue, v) /\ ~EngFrom(broker.batch, v)
                /\ EngFrom(broker.queue, v) => ~EngFrom(broker.batch, v)
                /\ EngAsked(v) => worker[v].responses = <<>>
                /\ worker[v].st = "run" => ~EngAsked(v) /\ worker[v].responses = <<>>
                /\ Len(worker[v].responses) <= 1)'
    <3>1. /\ EngFrom(broker.requests, v) => ~EngFrom(broker.queue, v) /\ ~EngFrom(broker.batch, v)
          /\ EngFrom(broker.queue, v) => ~EngFrom(broker.batch, v)
          /\ EngAsked(v) => worker[v].responses = <<>>
          /\ worker[v].st = "run" => ~EngAsked(v) /\ worker[v].responses = <<>>
          /\ Len(worker[v].responses) <= 1
      BY <1>1 DEF EngOneRequest
    <3>2. CASE EngFrom(broker.batch, v)
      <4>1. ~(EngAsked(v)') /\ worker[v].st # "run"
        BY <1>6, <3>1, <3>2 DEF EngAsked
      <4>2. PICK x : worker'[v].responses = <<x>>
        BY <1>3, <3>2
      <4>3. Len(worker'[v].responses) <= 1
        <5>1. Len(<<x>>) = 1
          OBVIOUS
        <5>2. Len(worker'[v].responses) = 1
          BY <4>2, <5>1, Zenon
        <5>3. 1 <= 1
          OBVIOUS
        <5> QED BY <5>2, <5>3, Zenon
      <4> QED BY <1>2, <1>6, <3>1, <4>1, <4>3
    <3>3. CASE ~EngFrom(broker.batch, v)
      <4>1. EngAsked(v)' <=> EngAsked(v)
        BY <1>6, <3>3 DEF EngAsked
      <4>2. worker'[v] = worker[v]
        BY <1>2, <3>3
      <4> QED BY <1>6, <3>1, <4>1, <4>2
    <3> QED BY <3>2, <3>3
  <2> QED BY <2>1, <2>2 DEF EngOneRequest
<1>8. EngOwnRequest'
  <2> SUFFICES ASSUME NEW v \in Eng!Workers, worker[v].st = "wait"
               PROVE  (/\ \A i \in DOMAIN broker.requests : EngAsks(v, broker.requests[i])
                       /\ \A i \in DOMAIN broker.queue : EngAsks(v, broker.queue[i])
                       /\ \A i \in DOMAIN broker.batch :
                            /\ EngAsks(v, broker.batch[i])
                            /\ broker.batch[i].worker = v =>
                                 broker.batch[i].rows = {<<s, worker[v].input[s]>> : s \in worker[v].sent}
                       /\ \A s \in worker[v].sent : worker[v].input[s] = EngPosition(v, s)
                       /\ \A i \in DOMAIN worker[v].responses :
                            LET r == worker[v].responses[i] IN
                            /\ r.id = worker[v].id /\ r.slots = worker[v].sent
                            /\ r.ok => \A s \in worker[v].sent : worker[v].output[s] = EngPosition(v, s)
                            /\ ~r.ok => parent.faults > 0)'
    BY <1>2 DEF EngOwnRequest
  <2>1. (/\ \A i \in DOMAIN broker.requests : EngAsks(v, broker.requests[i])
         /\ \A i \in DOMAIN broker.queue : EngAsks(v, broker.queue[i]))'
    BY <1>1, <1>2, <1>4 DEF EngOwnRequest, EngAsks
  <2>2. DOMAIN broker'.batch = {}
    BY <1>4
  <2>3. \A s \in worker[v].sent : worker[v].input[s] = EngPosition(v, s)
    BY <1>1 DEF EngOwnRequest
  <2>4. (\A s \in worker[v].sent : worker[v].input[s] = EngPosition(v, s))'
    BY <1>2, <2>3 DEF EngPosition
  <2>5. CASE EngFrom(broker.batch, v)
    <3>1. PICK i \in DOMAIN broker.batch :
           /\ broker.batch[i].worker = v
           /\ worker'[v].responses =
                <<[id |-> broker.batch[i].id, ok |-> ok, slots |-> broker.batch[i].slots]>>
           /\ worker[v].st = "wait" /\ ok =>
                \A s \in worker[v].sent : worker'[v].output[s] = worker[v].input[s]
      BY <1>3, <2>5
    <3>2. broker.batch[i].id = worker[v].id /\ broker.batch[i].slots = worker[v].sent
      BY <1>1, <3>1 DEF EngOwnRequest, EngAsks
    <3>3. \A j \in DOMAIN worker'[v].responses :
            LET r == worker'[v].responses[j] IN
            r.id = worker'[v].id /\ r.slots = worker'[v].sent /\ r.ok = ok
      BY <1>2, <3>1, <3>2
    <3>4. ok => (\A s \in worker[v].sent : worker[v].output[s] = EngPosition(v, s))'
      <4>1. /\ worker'[v].sent = worker[v].sent /\ worker'[v].active = worker[v].active
            /\ worker'[v].asked = worker[v].asked
        BY <1>2
      <4>2. \A s \in worker[v].sent : worker[v].input[s] = EngPosition(v, s)
        BY <2>3
      <4>3. ok => \A s \in worker[v].sent : worker'[v].output[s] = worker[v].input[s]
        BY <3>1
      <4>4. ASSUME ok, NEW s \in worker'[v].sent
            PROVE  worker'[v].output[s] = EngPosition(v, s)'
        <5>1. s \in worker[v].sent
          BY <4>1
        <5>2. EngPosition(v, s)' = EngPosition(v, s)
          BY <4>1 DEF EngPosition
        <5>3. worker'[v].output[s] = worker[v].input[s]
          BY <4>3, <4>4, <5>1, Zenon
        <5>4. worker[v].input[s] = EngPosition(v, s)
          BY <4>2, <5>1, Zenon
        <5> QED BY <5>2, <5>3, <5>4, Zenon
      <4> QED BY <4>4, Zenon
    <3> QED BY <2>1, <2>2, <2>4, <3>3, <3>4
  <2>6. CASE ~EngFrom(broker.batch, v)
    <3>1. worker'[v] = worker[v]
      BY <1>2, <2>6
    <3>2. parent.faults \in Nat /\ parent'.faults \in Nat
      BY <1>1, <1>5, EngBasics DEF EngTyped
    <3>3. (\A i \in DOMAIN worker[v].responses :
                            LET r == worker[v].responses[i] IN
                            /\ r.id = worker[v].id /\ r.slots = worker[v].sent
                            /\ r.ok => \A s \in worker[v].sent : worker[v].output[s] = EngPosition(v, s)
                            /\ ~r.ok => parent.faults > 0)'
      BY <1>1, <3>1, <3>2 DEF EngOwnRequest, EngPosition
    <3> QED BY <2>1, <2>2, <2>4, <3>3
  <2> QED BY <2>5, <2>6
<1>9. /\ EngPlacedOnce'
      /\ \A g \in Eng!Games : EngPending(g)' <=> EngPending(g)
      /\ \A v \in Eng!Workers, g \in Eng!Games : EngHolds(v, g)' <=> EngHolds(v, g)
  BY <1>1, <1>2, EngPlacesStay
<1>10. EngNoneLost'
  BY <1>1, <1>2, <1>9 DEF EngNoneLost
<1>11. EngEndsForCause'
  <2>1. \A v \in Eng!Workers : Eng!Queued(v, Eng!Stop)' <=> Eng!Queued(v, Eng!Stop)
    BY <1>2 DEF Eng!Queued
  <2>2. \A v \in Eng!Workers : /\ worker'[v].st = worker[v].st /\ worker'[v].stop = worker[v].stop
                               /\ worker'[v].failed = worker[v].failed
    BY <1>2
  <2>3. parent.faults \in Nat /\ parent'.faults \in Nat
    BY <1>1, <1>5, EngBasics DEF EngTyped
  <2>4. (parent.pc = "raised" \/ parent.fatal
       \/ (\E v \in Eng!Workers : worker[v].failed \/ worker[v].st = "dead") => parent.faults > 0)'
    BY <1>1, <2>2, <2>3 DEF EngEndsForCause
  <2>5. (parent.pc \in {"returned", "raised"} => \A v \in Eng!Workers : ~Eng!Alive(v))'
    BY <1>1, <2>2 DEF EngEndsForCause, Eng!Alive
  <2>6. (parent.pc \in {"join", "returned"} => parent.completed = Eng!Games)'
    BY <1>1 DEF EngEndsForCause
  <2>7. (parent.pc = "loop" =>
           \A v \in Eng!Workers : /\ ~worker[v].stop /\ ~Eng!Queued(v, Eng!Stop)
                                  /\ worker[v].st = "exited" => worker[v].failed)'
    BY <1>1, <2>1, <2>2 DEF EngEndsForCause
  <2> QED BY <2>4, <2>5, <2>6, <2>7 DEF EngEndsForCause
<1> QED
  BY <1>5, <1>7, <1>8, <1>9, <1>10, <1>11 DEF EngInv

LEMMA EngCollectKeeps ==
  ASSUME Eng!EngineAssumption, EngInv, NEW w \in Eng!Workers, Eng!Collect(w)
  PROVE  EngInv'
<1>1. /\ EngTyped /\ EngOneRequest /\ EngOwnRequest
      /\ EngPlacedOnce /\ EngNoneLost /\ EngEndsForCause
  BY DEF EngInv
<1>2. PICK me \in EngStates : me = worker[w]
  BY <1>1 DEF EngTyped
<1>3. PICK given : given = Eng!Assign(w)
  OBVIOUS
<1>4. PICK g \in me.done :
        LET last == parent.completed \cup {g} = Eng!Games
            told == [worker EXCEPT ![w].done = @ \ {g}, ![w].tasks = @ \o given]
        IN IF g \in parent.completed THEN Eng!Abort
           ELSE /\ parent' = [parent EXCEPT
                     !.completed = @ \cup {g}, !.pc = IF last THEN "join" ELSE @,
                     !.pending = SubSeq(@, Len(given) + 1, Len(@))]
                /\ worker' = IF last THEN [v \in Eng!Workers |-> [told[v] EXCEPT
                                                           !.tasks = Append(@, Eng!Stop)]]
                             ELSE told
                /\ UNCHANGED broker
  <2> DEFINE P(told_by, more) ==
        \E g \in told_by :
        LET last == parent.completed \cup {g} = Eng!Games
            told == [worker EXCEPT ![w].done = @ \ {g}, ![w].tasks = @ \o more]
        IN IF g \in parent.completed THEN Eng!Abort
           ELSE /\ parent' = [parent EXCEPT
                     !.completed = @ \cup {g}, !.pc = IF last THEN "join" ELSE @,
                     !.pending = SubSeq(@, Len(more) + 1, Len(@))]
                /\ worker' = IF last THEN [v \in Eng!Workers |-> [told[v] EXCEPT
                                                           !.tasks = Append(@, Eng!Stop)]]
                             ELSE told
                /\ UNCHANGED broker
  <2>1. P(worker[w].done, Eng!Assign(w))
    BY Zenon DEF Eng!Collect
  <2>2. P(me.done, given)
    <3> HIDE DEF P
    <3> QED BY <1>2, <1>3, <2>1, Zenon
  <2> QED BY <2>2
<1>5. parent.pc = "loop" /\ ~parent.fatal
  BY DEF Eng!Collect
<1>6. /\ g \in Eng!Games /\ EngHolds(w, g) /\ g \notin parent.completed /\ ~EngPending(g)
      /\ \A v \in Eng!Workers \ {w} : ~EngHolds(v, g)
      /\ ~Eng!Queued(w, g) /\ ~Eng!Played(w, g)
  <2>1. g \in Eng!Games
    BY DEF EngStates
  <2> QED BY <1>1, <1>2, <2>1 DEF EngHolds, EngPlacedOnce
<1>7. PICK last \in BOOLEAN : last <=> parent.completed \cup {g} = Eng!Games
  OBVIOUS
<1>8. PICK q \in Seq(Eng!Games) : q = parent.pending
  BY <1>1 DEF EngTyped
<1>9. PICK rest : rest = SubSeq(q, Len(given) + 1, Len(q))
  OBVIOUS
<1>10. PICK tasks : tasks = me.tasks \o given
  OBVIOUS
<1>11. PICK h : h = Head(q)
  OBVIOUS
<1>12. /\ me.tasks \in Seq(Eng!Games \cup {Eng!Stop}) /\ me.done \in SUBSET Eng!Games
       /\ parent.completed \in SUBSET Eng!Games
  BY <1>1 DEF EngTyped, EngStates
<1>13. \/ q = <<>> /\ tasks = me.tasks /\ rest = q
       \/ q # <<>> /\ tasks = Append(me.tasks, h) /\ rest = Tail(q)
  <2>1. CASE q = <<>>
    <3>1. given = <<>> /\ Len(<<>>) + 1 = 1 /\ Len(given) = Len(<<>>)
      BY <1>3, <1>8, <2>1 DEF Eng!Assign
    <3>2. rest = SubSeq(q, 1, Len(q))
      BY <1>9, <3>1
    <3>3. rest = q
      BY <3>2, SubSeqFull
    <3>4. tasks = me.tasks
      BY <1>10, <1>12, <3>1, ConcatEmptySeq
    <3> QED BY <2>1, <3>3, <3>4
  <2>2. CASE q # <<>>
    <3>1. given = <<h>> /\ Len(<<h>>) + 1 = 2
      BY <1>3, <1>8, <1>11, <2>2 DEF Eng!Assign
    <3>2. Len(given) + 1 = 2
      BY <3>1, Zenon
    <3>3. rest = SubSeq(q, 2, Len(q))
      BY <1>9, <3>2
    <3>4. SubSeq(q, 2, Len(q)) = Tail(q)
      BY <2>2
    <3>5. h \in Eng!Games \cup {Eng!Stop}
      BY <1>11, <2>2, EngTailFacts
    <3>6. Append(me.tasks, h) = me.tasks \o <<h>>
      BY <1>12, <3>5
    <3> QED BY <1>10, <2>2, <3>1, <3>3, <3>4, <3>6
  <2> QED BY <2>1, <2>2
<1>14. /\ q # <<>> => h \in Eng!Games /\ EngPending(h)
       /\ rest \in Seq(Eng!Games)
       /\ \A i, j \in DOMAIN rest : rest[i] = rest[j] => i = j
       /\ \A x : (\E i \in DOMAIN q : q[i] = x) <=> (\E i \in DOMAIN rest : rest[i] = x) \/ (q # <<>> /\ x = h)
       /\ q # <<>> => ~\E i \in DOMAIN rest : rest[i] = h
  <2>1. CASE q = <<>>
    BY <1>13, <2>1
  <2>2. CASE q # <<>>
    <3>1. rest = Tail(q)
      BY <1>13, <2>2
    <3>2. \A i, j \in DOMAIN q : q[i] = q[j] => i = j
      BY <1>1, <1>8 DEF EngPlacedOnce
    <3>3. /\ h \in Eng!Games /\ h = q[1] /\ 1 \in DOMAIN q /\ rest \in Seq(Eng!Games)
          /\ \A i \in DOMAIN rest : rest[i] = q[i + 1] /\ i + 1 \in DOMAIN q /\ i + 1 # 1
          /\ \A i, j \in DOMAIN rest : i + 1 = j + 1 => i = j
          /\ \A i \in DOMAIN q : i = 1 \/ (i - 1 \in DOMAIN rest /\ q[i] = rest[i - 1])
      BY <1>11, <2>2, <3>1, EngTailFacts
    <3>4. EngPending(h)
      BY <1>8, <3>3 DEF EngPending
    <3>5. \A i, j \in DOMAIN rest : rest[i] = rest[j] => i = j
      BY <3>2, <3>3
    <3>6. ~\E i \in DOMAIN rest : rest[i] = h
      BY <3>2, <3>3
    <3>7. \A x : (\E i \in DOMAIN q : q[i] = x) <=> (\E i \in DOMAIN rest : rest[i] = x) \/ x = h
      BY <3>3
    <3> QED BY <2>2, <3>3, <3>4, <3>5, <3>6, <3>7
  <2> QED BY <2>1, <2>2
<1>15. /\ tasks \in Seq(Eng!Games \cup {Eng!Stop})
       /\ \A x : (\E i \in DOMAIN tasks : tasks[i] = x) <=> Eng!Queued(w, x) \/ (q # <<>> /\ x = h)
       /\ \A i, j \in DOMAIN tasks : tasks[i] = tasks[j] /\ tasks[i] # Eng!Stop => i = j
  <2>1. \A i, j \in DOMAIN me.tasks : me.tasks[i] = me.tasks[j] /\ me.tasks[i] # Eng!Stop => i = j
    BY <1>1, <1>2 DEF EngPlacedOnce
  <2>2. \A x : Eng!Queued(w, x) <=> \E i \in DOMAIN me.tasks : me.tasks[i] = x
    BY <1>2 DEF Eng!Queued
  <2>3. CASE q = <<>>
    BY <1>12, <1>13, <2>1, <2>2, <2>3
  <2>4. CASE q # <<>>
    <3>1. h \in Eng!Games /\ h \in Eng!Games \cup {Eng!Stop} /\ tasks = Append(me.tasks, h)
      BY <1>13, <1>14, <2>4
    <3>2. /\ tasks \in Seq(Eng!Games \cup {Eng!Stop})
          /\ Len(me.tasks) + 1 \notin DOMAIN me.tasks
          /\ DOMAIN tasks = DOMAIN me.tasks \cup {Len(me.tasks) + 1}
          /\ \A i \in DOMAIN me.tasks : tasks[i] = me.tasks[i]
          /\ tasks[Len(me.tasks) + 1] = h
      BY <1>12, <3>1, EngAppendFacts
    <3>3. ~Eng!Queued(w, h)
      BY <1>1, <1>14, <2>4 DEF EngPlacedOnce, EngHolds
    <3>4. \A x : (\E i \in DOMAIN tasks : tasks[i] = x) <=> Eng!Queued(w, x) \/ x = h
      BY <2>2, <3>2
    <3>5. \A i, j \in DOMAIN tasks : tasks[i] = tasks[j] /\ tasks[i] # Eng!Stop => i = j
      BY <2>1, <2>2, <3>2, <3>3
    <3> QED BY <2>4, <3>2, <3>4, <3>5
  <2> QED BY <2>3, <2>4
<1>16. /\ parent' = [parent EXCEPT !.completed = parent.completed \cup {g},
                       !.pc = IF last THEN "join" ELSE "loop", !.pending = rest]
       /\ UNCHANGED broker
       /\ worker' = [v \in Eng!Workers |->
            [worker[v] EXCEPT
              !.done = IF v = w THEN me.done \ {g} ELSE worker[v].done,
              !.tasks = LET now == IF v = w THEN tasks ELSE worker[v].tasks
                        IN IF last THEN Append(now, Eng!Stop) ELSE now]]
  <2>1. PICK told : told = [worker EXCEPT ![w].done = @ \ {g}, ![w].tasks = @ \o given]
    OBVIOUS
  <2>2. /\ parent' = [parent EXCEPT
                     !.completed = @ \cup {g}, !.pc = IF last THEN "join" ELSE @,
                     !.pending = SubSeq(@, Len(given) + 1, Len(@))]
        /\ worker' = IF last THEN [v \in Eng!Workers |-> [told[v] EXCEPT !.tasks = Append(@, Eng!Stop)]]
                     ELSE told
        /\ UNCHANGED broker
    <3> DEFINE P(l, to) ==
          /\ parent' = [parent EXCEPT
                     !.completed = @ \cup {g}, !.pc = IF l THEN "join" ELSE @,
                     !.pending = SubSeq(@, Len(given) + 1, Len(@))]
          /\ worker' = IF l THEN [v \in Eng!Workers |-> [to[v] EXCEPT !.tasks = Append(@, Eng!Stop)]]
                       ELSE to
          /\ UNCHANGED broker
    <3>1. P(parent.completed \cup {g} = Eng!Games,
            [worker EXCEPT ![w].done = @ \ {g}, ![w].tasks = @ \o given])
      BY <1>4, <1>6, Zenon
    <3>2. P(parent.completed \cup {g} = Eng!Games, told)
      <4> HIDE DEF P
      <4> QED BY <2>1, <3>1, Zenon
    <3>3. CASE last
      BY <1>7, <3>2, <3>3
    <3>4. CASE ~last
      BY <1>7, <3>2, <3>4
    <3> QED BY <1>7, <3>3, <3>4
  <2>3. parent' = [parent EXCEPT !.completed = parent.completed \cup {g},
                       !.pc = IF last THEN "join" ELSE "loop", !.pending = rest]
    BY <1>1, <1>5, <1>8, <1>9, <2>2 DEF EngTyped
  <2>4. worker \in [Eng!Workers -> EngStates]
    BY <1>1 DEF EngTyped
  <2>5. /\ told[w] = [me EXCEPT !.done = me.done \ {g}, !.tasks = tasks]
        /\ \A v \in Eng!Workers : v # w => told[v] = worker[v]
        /\ told = [v \in Eng!Workers |-> told[v]]
    <3>1. told = [worker EXCEPT ![w] = [me EXCEPT !.done = me.done \ {g}, !.tasks = tasks]]
      BY <1>2, <1>10, <2>1, <2>4 DEF EngStates
    <3> QED BY <2>4, <3>1
  <2>6. ASSUME NEW v \in Eng!Workers
        PROVE  worker'[v] = [worker[v] EXCEPT
              !.done = IF v = w THEN me.done \ {g} ELSE worker[v].done,
              !.tasks = LET now == IF v = w THEN tasks ELSE worker[v].tasks
                        IN IF last THEN Append(now, Eng!Stop) ELSE now]
    <3>1. PICK now : now = IF v = w THEN tasks ELSE worker[v].tasks
      OBVIOUS
    <3>2. PICK done : done = IF v = w THEN me.done \ {g} ELSE worker[v].done
      OBVIOUS
    <3>3. PICK you \in EngStates : you = worker[v]
      BY <2>4
    <3>4. told[v] = [you EXCEPT !.done = done, !.tasks = now]
      <4>1. CASE v = w
        BY <1>2, <2>5, <3>1, <3>2, <3>3, <4>1
      <4>2. CASE v # w
        BY <2>5, <3>1, <3>2, <3>3, <4>2 DEF EngStates
      <4> QED BY <4>1, <4>2
    <3>5. CASE last
      <4>1. worker'[v] = [told[v] EXCEPT !.tasks = Append(@, Eng!Stop)]
        BY <2>2, <3>5
      <4>2. worker'[v] = [you EXCEPT !.done = done, !.tasks = Append(now, Eng!Stop)]
        BY <3>4, <4>1 DEF EngStates
      <4> QED BY <3>1, <3>2, <3>3, <3>5, <4>2
    <3>6. CASE ~last
      BY <2>2, <3>1, <3>2, <3>3, <3>4, <3>6
    <3> QED BY <3>5, <3>6
  <2>7. worker' = [v \in Eng!Workers |-> worker'[v]]
    BY <2>2, <2>5
  <2>8. worker' = [v \in Eng!Workers |->
            [worker[v] EXCEPT
              !.done = IF v = w THEN me.done \ {g} ELSE worker[v].done,
              !.tasks = LET now == IF v = w THEN tasks ELSE worker[v].tasks
                        IN IF last THEN Append(now, Eng!Stop) ELSE now]]
    BY <2>6, <2>7, Zenon
  <2> QED BY <2>2, <2>3, <2>8
<1>17. ASSUME NEW v \in Eng!Workers
       PROVE  /\ worker'[v] \in EngStates
              /\ worker'[v].st = worker[v].st /\ worker'[v].active = worker[v].active
              /\ worker'[v].asked = worker[v].asked /\ worker'[v].id = worker[v].id
              /\ worker'[v].sent = worker[v].sent /\ worker'[v].input = worker[v].input
              /\ worker'[v].output = worker[v].output
              /\ worker'[v].responses = worker[v].responses
              /\ worker'[v].done = IF v = w THEN me.done \ {g} ELSE worker[v].done
              /\ worker'[v].stop = worker[v].stop /\ worker'[v].failed = worker[v].failed
              /\ \A x : Eng!Queued(v, x)' <=> \/ Eng!Queued(v, x)
                                              \/ v = w /\ q # <<>> /\ x = h
                                              \/ last /\ x = Eng!Stop
              /\ \A i, j \in DOMAIN worker'[v].tasks :
                   worker'[v].tasks[i] = worker'[v].tasks[j] /\ worker'[v].tasks[i] # Eng!Stop => i = j
  <2>1. PICK you \in EngStates : you = worker[v]
    BY <1>1 DEF EngTyped
  <2>2. PICK now : now = IF v = w THEN tasks ELSE you.tasks
    OBVIOUS
  <2>3. PICK done : done = IF v = w THEN me.done \ {g} ELSE you.done
    OBVIOUS
  <2>4. PICK then : then = IF last THEN Append(now, Eng!Stop) ELSE now
    OBVIOUS
  <2>5. worker'[v] = [you EXCEPT !.done = done, !.tasks = then]
    BY <1>16, <2>1, <2>2, <2>3, <2>4
  <2>6. done \in SUBSET Eng!Games /\ you.tasks \in Seq(Eng!Games \cup {Eng!Stop})
    BY <1>12, <2>3 DEF EngStates
  <2>7. /\ now \in Seq(Eng!Games \cup {Eng!Stop})
        /\ \A x : (\E i \in DOMAIN now : now[i] = x) <=> Eng!Queued(v, x) \/ (v = w /\ q # <<>> /\ x = h)
        /\ \A i, j \in DOMAIN now : now[i] = now[j] /\ now[i] # Eng!Stop => i = j
    <3>1. CASE v = w
      BY <1>15, <2>2, <3>1
    <3>2. CASE v # w
      <4>1. \A i, j \in DOMAIN you.tasks : you.tasks[i] = you.tasks[j] /\ you.tasks[i] # Eng!Stop => i = j
        BY <1>1, <2>1 DEF EngPlacedOnce
      <4>2. \A x : Eng!Queued(v, x) <=> \E i \in DOMAIN you.tasks : you.tasks[i] = x
        BY <2>1 DEF Eng!Queued
      <4> QED BY <2>2, <2>6, <3>2, <4>1, <4>2
    <3> QED BY <3>1, <3>2
  <2>8. /\ then \in Seq(Eng!Games \cup {Eng!Stop})
        /\ \A x : (\E i \in DOMAIN then : then[i] = x)
                    <=> (\E i \in DOMAIN now : now[i] = x) \/ (last /\ x = Eng!Stop)
        /\ \A i, j \in DOMAIN then : then[i] = then[j] /\ then[i] # Eng!Stop => i = j
    <3>1. CASE last
      <4>1. /\ then \in Seq(Eng!Games \cup {Eng!Stop})
            /\ DOMAIN then = DOMAIN now \cup {Len(now) + 1}
            /\ \A i \in DOMAIN now : then[i] = now[i]
            /\ then[Len(now) + 1] = Eng!Stop
        BY <2>4, <2>7, <3>1, EngAppendFacts
      <4>2. \A x : (\E i \in DOMAIN then : then[i] = x)
                    <=> (\E i \in DOMAIN now : now[i] = x) \/ x = Eng!Stop
        BY <4>1
      <4>3. \A i, j \in DOMAIN then : then[i] = then[j] /\ then[i] # Eng!Stop => i = j
        BY <2>7, <4>1
      <4> QED BY <3>1, <4>1, <4>2, <4>3
    <3>2. CASE ~last
      BY <2>4, <2>7, <3>2
    <3> QED BY <3>1, <3>2
  <2>9. /\ worker'[v] \in EngStates
        /\ worker'[v].stop = you.stop /\ worker'[v].failed = you.failed
    BY <2>5, <2>6, <2>8 DEF EngStates
  <2>10. /\ worker'[v].st = you.st /\ worker'[v].active = you.active /\ worker'[v].asked = you.asked
         /\ worker'[v].id = you.id /\ worker'[v].sent = you.sent /\ worker'[v].input = you.input
         /\ worker'[v].output = you.output /\ worker'[v].responses = you.responses
         /\ worker'[v].done = done /\ worker'[v].tasks = then
    BY <2>5 DEF EngStates
  <2>11. \A x : Eng!Queued(v, x)' <=> \E i \in DOMAIN then : then[i] = x
    BY <2>10 DEF Eng!Queued
  <2>12. \A x : Eng!Queued(v, x)' <=> \/ Eng!Queued(v, x)
                                      \/ v = w /\ q # <<>> /\ x = h
                                      \/ last /\ x = Eng!Stop
    BY <2>7, <2>8, <2>11
  <2> QED BY <2>1, <2>3, <2>8, <2>9, <2>10, <2>12
<1>18. /\ parent'.completed = parent.completed \cup {g} /\ parent'.pending = rest
       /\ parent'.pc = (IF last THEN "join" ELSE "loop") /\ parent'.faults = parent.faults
       /\ parent'.fatal = parent.fatal
       /\ parent' \in [pc : {"loop", "join", "returned", "raised"}, pending : Seq(Eng!Games),
                 completed : SUBSET Eng!Games, fatal : BOOLEAN, faults : 0..EngineFaults]
  BY <1>1, <1>6, <1>14, <1>16 DEF EngTyped
<1>19. EngTyped'
  <2>1. worker' \in [Eng!Workers -> EngStates]
    BY <1>16, <1>17
  <2> QED BY <1>1, <1>16, <1>18, <2>1 DEF EngTyped
<1>20. EngOneRequest'
  <2>1. \A v \in Eng!Workers : /\ worker'[v].st = worker[v].st
                               /\ worker'[v].responses = worker[v].responses
    BY <1>17
  <2> QED BY <1>1, <1>16, <2>1 DEF EngOneRequest, EngFrom, EngOneEach, EngAsked
<1>21. EngOwnRequest'
  <2>1. \A v \in Eng!Workers :
              /\ worker'[v].st = worker[v].st /\ worker'[v].active = worker[v].active
              /\ worker'[v].asked = worker[v].asked /\ worker'[v].id = worker[v].id
              /\ worker'[v].sent = worker[v].sent /\ worker'[v].input = worker[v].input
              /\ worker'[v].output = worker[v].output
              /\ worker'[v].responses = worker[v].responses
    BY <1>17
  <2> QED BY <1>1, <1>16, <1>18, <2>1, EngOwnKept
<1>22. \A x \in Eng!Games :
         /\ x # Eng!Stop
         /\ EngPending(x) <=> EngPending(x)' \/ (q # <<>> /\ x = h)
         /\ q # <<>> => ~(EngPending(h)')
  <2>1. \A x : (EngPending(x)' <=> \E i \in DOMAIN rest : rest[i] = x)
               /\ (EngPending(x) <=> \E i \in DOMAIN q : q[i] = x)
    BY <1>8, <1>18 DEF EngPending
  <2> QED BY <1>1, <1>14, <2>1, EngBasics
<1>23. \A v \in Eng!Workers, x \in Eng!Games :
         /\ Eng!Played(v, x)' <=> Eng!Played(v, x)
         /\ Eng!Queued(v, x)' <=> Eng!Queued(v, x) \/ (v = w /\ q # <<>> /\ x = h)
         /\ x \in worker'[v].done <=> x \in worker[v].done /\ x # g
  <2> TAKE v \in Eng!Workers, x \in Eng!Games
  <2>1. Eng!Played(v, x)' <=> Eng!Played(v, x)
    BY <1>17 DEF Eng!Played
  <2>2. Eng!Queued(v, x)' <=> Eng!Queued(v, x) \/ (v = w /\ q # <<>> /\ x = h)
    BY <1>17, <1>22
  <2>3. x \in worker'[v].done <=> x \in worker[v].done /\ x # g
    <3>1. CASE v = w
      BY <1>2, <1>17, <3>1
    <3>2. CASE v # w
      BY <1>6, <1>17, <3>2 DEF EngHolds
    <3> QED BY <3>1, <3>2
  <2> QED BY <2>1, <2>2, <2>3
<1>24. \A v \in Eng!Workers, x \in Eng!Games :
         EngHolds(v, x)' <=> (EngHolds(v, x) /\ x # g) \/ (v = w /\ q # <<>> /\ x = h)
  <2> TAKE v \in Eng!Workers, x \in Eng!Games
  <2>1. ~Eng!Queued(v, g) /\ ~Eng!Played(v, g)
    BY <1>6 DEF EngHolds
  <2> QED BY <1>23, <2>1 DEF EngHolds
<1>25. q # <<>> => h \in Eng!Games /\ h # g /\ h \notin parent.completed /\ \A v \in Eng!Workers : ~EngHolds(v, h)
  BY <1>1, <1>6, <1>14 DEF EngPlacedOnce
<1>26. EngPlacedOnce'
  <2>1. (\A i, j \in DOMAIN parent.pending : parent.pending[i] = parent.pending[j] => i = j)'
    BY <1>14, <1>18
  <2>2. ASSUME NEW x \in Eng!Games, EngPending(x)' PROVE x \notin parent'.completed
    <3>1. EngPending(x) /\ x \notin parent.completed /\ x # g
      BY <1>1, <1>6, <1>22, <2>2 DEF EngPlacedOnce
    <3> QED BY <1>18, <3>1
  <2>3. ASSUME NEW v \in Eng!Workers
        PROVE  /\ \A i, j \in DOMAIN worker'[v].tasks :
                    worker'[v].tasks[i] = worker'[v].tasks[j] /\ worker'[v].tasks[i] # Eng!Stop => i = j
               /\ \A s, t \in Eng!Slots :
                    worker'[v].active[s] = worker'[v].active[t] /\ worker'[v].active[s] # Eng!Free => s = t
    BY <1>1, <1>17 DEF EngPlacedOnce
  <2>4. ASSUME NEW v \in Eng!Workers, NEW x \in Eng!Games
        PROVE  /\ Eng!Queued(v, x)' => ~(Eng!Played(v, x)') /\ x \notin worker'[v].done
               /\ Eng!Played(v, x)' => x \notin worker'[v].done
    <3>1. /\ Eng!Queued(v, x) => ~Eng!Played(v, x) /\ x \notin worker[v].done
          /\ Eng!Played(v, x) => x \notin worker[v].done
      BY <1>1 DEF EngPlacedOnce
    <3>2. q # <<>> => ~Eng!Played(w, h) /\ h \notin worker[w].done
      BY <1>25 DEF EngHolds
    <3> QED BY <1>23, <3>1, <3>2
  <2>5. ASSUME NEW v \in Eng!Workers, NEW x \in Eng!Games, EngHolds(v, x)'
        PROVE  /\ ~(EngPending(x)') /\ x \notin parent'.completed
               /\ \A u \in Eng!Workers \ {v} : ~(EngHolds(u, x)')
    <3>1. EngHolds(v, x) => /\ ~EngPending(x) /\ x \notin parent.completed
                            /\ \A u \in Eng!Workers \ {v} : ~EngHolds(u, x)
      BY <1>1 DEF EngPlacedOnce
    <3>2. CASE EngHolds(v, x) /\ x # g
      <4>1. ~(q # <<>> /\ x = h)
        BY <1>25, <3>2
      <4> QED BY <1>18, <1>22, <1>24, <3>1, <3>2, <4>1
    <3>3. CASE v = w /\ q # <<>> /\ x = h
      BY <1>18, <1>22, <1>24, <1>25, <3>3
    <3> QED BY <1>24, <2>5, <3>2, <3>3
  <2> QED BY <2>1, <2>2, <2>3, <2>4, <2>5 DEF EngPlacedOnce
<1>27. EngNoneLost'
  <2> SUFFICES ASSUME \A v \in Eng!Workers : worker'[v].st # "dead", NEW x \in Eng!Games
               PROVE  x \in parent'.completed \/ EngPending(x)' \/ \E v \in Eng!Workers : EngHolds(v, x)'
    BY DEF EngNoneLost
  <2>1. x \in parent.completed \/ EngPending(x) \/ \E v \in Eng!Workers : EngHolds(v, x)
    BY <1>1, <1>17 DEF EngNoneLost
  <2> QED BY <1>18, <1>22, <1>24, <2>1
<1>28. EngEndsForCause'
  <2>1. \A v \in Eng!Workers : /\ worker'[v].st = worker[v].st /\ worker'[v].stop = worker[v].stop
                               /\ worker'[v].failed = worker[v].failed
    BY <1>17
  <2>2. ~last => \A v \in Eng!Workers : Eng!Queued(v, Eng!Stop)' => Eng!Queued(v, Eng!Stop)
    <3>1. q # <<>> => h # Eng!Stop
      BY <1>14, <1>22
    <3> QED BY <1>17, <3>1
  <2>3. (parent.pc = "raised" \/ parent.fatal
       \/ (\E v \in Eng!Workers : worker[v].failed \/ worker[v].st = "dead") => parent.faults > 0)'
    BY <1>1, <1>18, <2>1 DEF EngEndsForCause
  <2>4. (parent.pc \in {"returned", "raised"} => \A v \in Eng!Workers : ~Eng!Alive(v))'
    BY <1>18
  <2>5. (parent.pc \in {"join", "returned"} => parent.completed = Eng!Games)'
    BY <1>7, <1>18
  <2>6. (parent.pc = "loop" =>
           \A v \in Eng!Workers : /\ ~worker[v].stop /\ ~Eng!Queued(v, Eng!Stop)
                                  /\ worker[v].st = "exited" => worker[v].failed)'
    BY <1>1, <1>5, <1>18, <2>1, <2>2 DEF EngEndsForCause
  <2> QED BY <2>3, <2>4, <2>5, <2>6 DEF EngEndsForCause
<1> QED
  BY <1>19, <1>20, <1>21, <1>26, <1>27, <1>28 DEF EngInv

LEMMA EngParentKeeps ==
  ASSUME Eng!EngineAssumption, EngInv,
         Eng!SeeFatal \/ Eng!SeeFailure \/ Eng!SeeDead \/ Eng!Join \/ Eng!JoinTimesOut
  PROVE  EngInv'
<1>1. /\ EngTyped /\ EngOneRequest /\ EngOwnRequest
      /\ EngPlacedOnce /\ EngNoneLost /\ EngEndsForCause
  BY DEF EngInv
<1>2. ASSUME Eng!Abort, parent.faults > 0 PROVE EngInv'
  <2>1. /\ parent' \in [pc : {"loop", "join", "returned", "raised"}, pending : Seq(Eng!Games),
                      completed : SUBSET Eng!Games, fatal : BOOLEAN, faults : 0..EngineFaults]
        /\ parent'.pc = "raised" /\ parent'.pending = parent.pending
        /\ parent'.completed = parent.completed /\ parent'.faults > 0
    BY <1>1, <1>2 DEF Eng!Abort, EngTyped
  <2> QED BY <1>2, <2>1, EngAllDieKeeps DEF Eng!Abort
<1>3. CASE Eng!SeeFatal \/ Eng!SeeFailure
  BY <1>1, <1>2, <1>3 DEF Eng!SeeFatal, Eng!SeeFailure, EngEndsForCause
<1>4. CASE Eng!SeeDead
  <2>1. CASE \E w \in Eng!Workers : worker[w].st = "dead"
    BY <1>1, <1>2, <1>4, <2>1 DEF Eng!SeeDead, EngEndsForCause
  <2>2. CASE \A w \in Eng!Workers : worker[w].st = "exited"
    BY <1>1, <1>4, <2>2, EngBasics DEF Eng!SeeDead, EngEndsForCause
  <2> QED BY <1>4, <2>1, <2>2 DEF Eng!SeeDead
<1>5. CASE Eng!Join
  <2>1. CASE \E w \in Eng!Workers : worker[w].st = "dead"
    BY <1>1, <1>2, <1>5, <2>1 DEF Eng!Join, EngEndsForCause
  <2>2. CASE ~\E w \in Eng!Workers : worker[w].st = "dead"
    <3>1. /\ parent.pc = "join" /\ UNCHANGED <<worker, broker>> /\ \A w \in Eng!Workers : ~Eng!Alive(w)
          /\ parent' = [parent EXCEPT !.pc = "returned"]
      BY <1>5, <2>2 DEF Eng!Join
    <3>2. /\ parent' \in [pc : {"loop", "join", "returned", "raised"}, pending : Seq(Eng!Games),
                      completed : SUBSET Eng!Games, fatal : BOOLEAN, faults : 0..EngineFaults]
          /\ parent'.pc = "returned" /\ parent'.pending = parent.pending
          /\ parent'.completed = parent.completed /\ parent'.faults = parent.faults
      BY <1>1, <3>1 DEF EngTyped
    <3>3. parent'.fatal = parent.fatal
      BY <1>1, <3>1 DEF EngTyped
    <3>4. EngTyped' /\ EngOneRequest'
      BY <1>1, <3>1, <3>2 DEF EngTyped, EngOneRequest, EngFrom, EngOneEach, EngAsked
    <3>7. EngOwnRequest'
      BY <1>1, <3>1, <3>2, EngOwnKept
    <3>5. EngPlacedOnce' /\ EngNoneLost'
      BY <1>1, <3>1, <3>2 DEF EngPlacedOnce, EngNoneLost, Eng!Queued, Eng!Played, EngHolds,
         EngPending
    <3>6. EngEndsForCause'
      BY <1>1, <3>1, <3>2, <3>3 DEF EngEndsForCause, Eng!Alive
    <3> QED BY <3>4, <3>5, <3>6, <3>7 DEF EngInv
  <2> QED BY <2>1, <2>2
<1>6. CASE Eng!JoinTimesOut
  <2>1. /\ Eng!Fault /\ UNCHANGED broker
        /\ parent' = [parent EXCEPT !.pc = "raised", !.faults = parent.faults + 1]
        /\ worker' = [w \in Eng!Workers |-> IF Eng!Alive(w) THEN [worker[w] EXCEPT !.st = "dead"]
                                        ELSE worker[w]]
    BY <1>1, <1>6 DEF Eng!JoinTimesOut, EngTyped
  <2>2. PICK n \in 0..EngineFaults : n = parent.faults + 1 /\ n > 0
    BY <1>1, <2>1, EngBasics
  <2>3. parent' = [parent EXCEPT !.pc = "raised", !.faults = n]
    BY <2>1, <2>2
  <2>4. /\ parent' \in [pc : {"loop", "join", "returned", "raised"}, pending : Seq(Eng!Games),
                      completed : SUBSET Eng!Games, fatal : BOOLEAN, faults : 0..EngineFaults]
        /\ parent'.pc = "raised" /\ parent'.pending = parent.pending
        /\ parent'.completed = parent.completed /\ parent'.faults = n
    BY <1>1, <2>3 DEF EngTyped
  <2> QED BY <2>1, <2>2, <2>4, EngAllDieKeeps
<1> QED
  BY <1>3, <1>4, <1>5, <1>6

LEMMA EngNextKeeps ==
  ASSUME Eng!EngineAssumption, EngInv, [Eng!EngineNext]_(Eng!engineVars)
  PROVE  EngInv'
<1>1. /\ EngTyped /\ EngOneRequest /\ EngOwnRequest
      /\ EngPlacedOnce /\ EngNoneLost /\ EngEndsForCause
  BY DEF EngInv
<1>2. CASE Eng!Dispatch
  <2>1. PICK ok \in BOOLEAN : ok = TRUE
    OBVIOUS
  <2>2. UNCHANGED parent /\ worker' = [w \in Eng!Workers |-> Eng!Answered(w, ok)]
        /\ broker' = [broker EXCEPT !.batch = <<>>]
    BY <1>2, <2>1 DEF Eng!Dispatch
  <2>3. /\ parent' \in [pc : {"loop", "join", "returned", "raised"}, pending : Seq(Eng!Games),
                      completed : SUBSET Eng!Games, fatal : BOOLEAN, faults : 0..EngineFaults]
        /\ parent'.pc = parent.pc /\ parent'.pending = parent.pending
        /\ parent'.completed = parent.completed /\ parent'.faults >= parent.faults
    BY <1>1, <2>2, EngBasics DEF EngTyped
  <2>4. parent'.fatal = parent.fatal \/ parent'.faults > 0
    BY <2>2
  <2>5. ok \/ parent'.faults > 0
    BY <2>1
  <2> QED BY <2>2, <2>3, <2>4, <2>5, EngDispatchKeeps
<1>3. CASE Eng!DispatchFails
  <2>1. PICK ok \in BOOLEAN : ok = FALSE
    OBVIOUS
  <2>2. Eng!Fault /\ parent' = [parent EXCEPT !.fatal = TRUE, !.faults = parent.faults + 1]
        /\ worker' = [w \in Eng!Workers |-> Eng!Answered(w, ok)]
        /\ broker' = [broker EXCEPT !.batch = <<>>]
    BY <1>3, <2>1 DEF Eng!DispatchFails
  <2>3. PICK n \in 0..EngineFaults : n = parent.faults + 1 /\ n > 0 /\ n >= parent.faults
    BY <1>1, <2>2, EngBasics
  <2>4. parent' = [parent EXCEPT !.fatal = TRUE, !.faults = n]
    BY <2>2, <2>3
  <2>5. /\ parent' \in [pc : {"loop", "join", "returned", "raised"}, pending : Seq(Eng!Games),
                      completed : SUBSET Eng!Games, fatal : BOOLEAN, faults : 0..EngineFaults]
        /\ parent'.pc = parent.pc /\ parent'.pending = parent.pending
        /\ parent'.completed = parent.completed /\ parent'.faults = n
    BY <1>1, <2>4 DEF EngTyped
  <2>6. parent'.fatal = parent.fatal \/ parent'.faults > 0
    BY <2>3, <2>5
  <2>7. ok \/ parent'.faults > 0
    BY <2>3, <2>5
  <2>8. parent'.faults >= parent.faults
    BY <2>3, <2>5
  <2> QED BY <2>2, <2>5, <2>6, <2>7, <2>8, EngDispatchKeeps
<1>4. CASE Eng!BrokerStep
  BY <1>2, <1>4, EngIngressKeeps, EngTakeBatchKeeps DEF Eng!BrokerStep
<1>5. CASE Eng!ParentStep
  BY <1>5, EngParentKeeps, EngCollectKeeps DEF Eng!ParentStep
<1>6. CASE Eng!JoinTimesOut
  BY <1>6, EngParentKeeps
<1>7. ASSUME NEW w \in Eng!Workers, Eng!WorkerStep(w) \/ Eng!GameFails(w) \/ Eng!WorkerDies(w)
      PROVE  EngInv'
  BY <1>7, EngTakeKeeps, EngStepKeeps, EngResumeKeeps, EngExitKeeps, EngFaultKeeps DEF
     Eng!WorkerStep
<1>8. CASE UNCHANGED Eng!engineVars
  <2>1. parent' = parent /\ worker' = worker /\ broker' = broker
    BY <1>8 DEF Eng!engineVars
  <2>2. EngTyped' /\ EngOneRequest'
    BY <1>1, <2>1 DEF EngTyped, EngOneRequest, EngFrom, EngOneEach, EngAsked
  <2>3. EngOwnRequest'
    BY <1>1, <2>1 DEF EngOwnRequest, EngAsks, EngPosition
  <2>4. EngPlacedOnce' /\ EngNoneLost' /\ EngEndsForCause'
    BY <1>1, <2>1 DEF EngPlacedOnce, EngNoneLost, EngEndsForCause, Eng!Queued, Eng!Played,
       EngHolds, EngPending, Eng!Alive
  <2> QED BY <2>2, <2>3, <2>4 DEF EngInv
<1> QED
  BY <1>3, <1>4, <1>5, <1>6, <1>7, <1>8 DEF Eng!EngineNext

-----------------------------------------------------------------------------
\* What the inductive invariant says of the games, of the answers and of the end.
LEMMA EngInvImplies ==
  ASSUME Eng!EngineAssumption, EngInv
  PROVE  Eng!EngineTypeOK /\ Eng!EvaluationIsOwn /\ Eng!GamesConserved /\ Eng!AllOrNothing
<1>1. /\ EngTyped /\ EngOneRequest /\ EngOwnRequest
      /\ EngPlacedOnce /\ EngNoneLost /\ EngEndsForCause
  BY DEF EngInv
<1>2. \A w \in Eng!Workers : worker[w] \in EngStates
  BY <1>1 DEF EngTyped
<1>3. Eng!EngineTypeOK
  <2>1. \A i \in DOMAIN broker.batch : broker.batch[i].rows \subseteq Eng!Slots \X Eng!Contents
    <3>1. broker.batch \in Seq(EngStaged)
      BY <1>1 DEF EngTyped
    <3>2. \A i \in DOMAIN broker.batch : broker.batch[i] \in EngStaged
      BY <3>1
    <3> QED BY <3>2 DEF EngStaged
  <2>2. \A w \in Eng!Workers :
          /\ worker[w].st \in {"run", "wait", "exited", "dead"}
          /\ worker[w].active \in [Eng!Slots -> Eng!Games \cup {Eng!Free}]
          /\ worker[w].tasks \in Seq(Eng!Games \cup {Eng!Stop})
          /\ worker[w].done \subseteq Eng!Games
          /\ worker[w].input \in [Eng!Slots -> Eng!Contents] /\ worker[w].output \in [Eng!Slots -> Eng!Contents]
    BY <1>2 DEF EngStates
  <2> QED BY <1>1, <2>1, <2>2 DEF Eng!EngineTypeOK, EngTyped
<1>4. Eng!EvaluationIsOwn
  <2> SUFFICES ASSUME NEW w \in Eng!Workers, worker[w].st = "wait", worker[w].responses # <<>>,
                      Eng!Accepts(worker[w], Head(worker[w].responses)), NEW s \in worker[w].sent
               PROVE  worker[w].output[s] = <<worker[w].active[s],
                                              worker[w].asked[worker[w].active[s]]>>
    BY DEF Eng!EvaluationIsOwn
  <2>1. 1 \in DOMAIN worker[w].responses /\ Head(worker[w].responses) = worker[w].responses[1]
    BY <1>2 DEF EngStates
  <2>2. worker[w].responses[1].ok
    BY <2>1 DEF Eng!Accepts
  <2> QED BY <1>1, <2>1, <2>2 DEF EngOwnRequest, EngPosition
<1>5. ASSUME NEW g \in Eng!Games
      PROVE  \/ Cardinality({w \in Eng!Workers :
                    Eng!Queued(w, g) \/ Eng!Played(w, g) \/ g \in worker[w].done})
                  + (IF g \in parent.completed THEN 1 ELSE 0)
                  + (IF \E i \in DOMAIN parent.pending : parent.pending[i] = g THEN 1 ELSE 0)
                  = 1
             \/ \E w \in Eng!Workers : worker[w].st = "dead"
  <2> DEFINE Holders == {w \in Eng!Workers : Eng!Queued(w, g) \/ Eng!Played(w, g) \/ g \in worker[w].done}
  <2> SUFFICES \/ Cardinality(Holders) + (IF g \in parent.completed THEN 1 ELSE 0)
                  + (IF \E i \in DOMAIN parent.pending : parent.pending[i] = g THEN 1 ELSE 0)
                  = 1
               \/ \E w \in Eng!Workers : worker[w].st = "dead"
    OBVIOUS
  <2>1. \A w \in Eng!Workers : w \in Holders <=> EngHolds(w, g)
    BY DEF EngHolds
  <2>2. EngPending(g) => g \notin parent.completed
    BY <1>1 DEF EngPlacedOnce
  <2>3. \A w \in Eng!Workers : EngHolds(w, g) => /\ ~EngPending(g) /\ g \notin parent.completed
                                                 /\ \A v \in Eng!Workers \ {w} : ~EngHolds(v, g)
    BY <1>1 DEF EngPlacedOnce
  <2>4. (\A w \in Eng!Workers : worker[w].st # "dead") =>
          g \in parent.completed \/ EngPending(g) \/ \E w \in Eng!Workers : EngHolds(w, g)
    BY <1>1 DEF EngNoneLost
  <2>5. CASE \E w \in Eng!Workers : EngHolds(w, g)
    <3>1. PICK w \in Eng!Workers : EngHolds(w, g)
      BY <2>5
    <3>2. Holders = {w}
      BY <2>1, <2>3, <3>1
    <3>3. Cardinality(Holders) = 1
      BY <3>2, FS_Singleton, Zenon
    <3>4. ~(g \in parent.completed) /\ ~(\E i \in DOMAIN parent.pending : parent.pending[i] = g)
      BY <2>3, <3>1 DEF EngPending
    <3> HIDE DEF Holders
    <3> QED BY <3>3, <3>4
  <2>6. CASE ~\E w \in Eng!Workers : EngHolds(w, g)
    <3>1. Holders = {}
      BY <2>1, <2>6
    <3>2. Cardinality(Holders) = 0
      BY <3>1, FS_EmptySet, Zenon
    <3>3. ~(g \in parent.completed /\ \E i \in DOMAIN parent.pending : parent.pending[i] = g)
      BY <2>2 DEF EngPending
    <3>4. \/ g \in parent.completed
          \/ \E i \in DOMAIN parent.pending : parent.pending[i] = g
          \/ \E w \in Eng!Workers : worker[w].st = "dead"
      BY <2>4, <2>6 DEF EngPending
    <3> HIDE DEF Holders
    <3> QED BY <3>2, <3>3, <3>4
  <2> QED BY <2>5, <2>6
<1>6. \A g \in Eng!Games, w \in Eng!Workers : Eng!Played(w, g) => ~Eng!Queued(w, g) /\ g \notin worker[w].done
  BY <1>1 DEF EngPlacedOnce
<1>7. Eng!GamesConserved
  BY <1>5, <1>6, EngCount DEF Eng!GamesConserved
<1>8. Eng!AllOrNothing
  BY <1>1 DEF Eng!AllOrNothing, EngEndsForCause
<1> QED
  BY <1>3, <1>4, <1>7, <1>8

LEMMA EngInvariance == Eng!EngineAssumption /\ Eng!EngineSpec => []EngInv
<1>1. Eng!EngineAssumption /\ Eng!EngineInit => EngInv
  BY EngInitHolds
<1>2. Eng!EngineAssumption /\ EngInv /\ [Eng!EngineNext]_(Eng!engineVars) => EngInv'
  BY EngNextKeeps
<1>3. Eng!EngineAssumption => Eng!EngineAssumption'
  BY DEF Eng!EngineAssumption
<1> QED
  BY <1>1, <1>2, <1>3, PTL DEF Eng!EngineSpec

\* SelfPlayEngine: the states are what the engine's types say.
THEOREM SelfPlayIsTyped ==
  ASSUME Eng!EngineAssumption
  PROVE  Eng!EngineSpec => []Eng!EngineTypeOK
<1>1. EngInv => Eng!EngineTypeOK
  BY EngInvImplies
<1> QED
  BY <1>1, EngInvariance, PTL

\* SelfPlayEngine: whatever is batched together, reordered, answered late or lost,
\* a game goes on only with the evaluation of the position that it asked about.
THEOREM EvaluationsStayOwn ==
  ASSUME Eng!EngineAssumption
  PROVE  Eng!EngineSpec => []Eng!EvaluationIsOwn
<1>1. EngInv => Eng!EvaluationIsOwn
  BY EngInvImplies
<1> QED
  BY <1>1, EngInvariance, PTL

\* SelfPlayEngine: every game is in one place from the first queue to its record, and
\* only a killed worker loses one; a run returns all its games or none, nobody
\* outlives it, and it is given up only after a failure.
THEOREM GamesAreNeverMixedUp ==
  ASSUME Eng!EngineAssumption
  PROVE  Eng!EngineSpec => [](Eng!GamesConserved /\ Eng!AllOrNothing)
<1>1. EngInv => Eng!GamesConserved /\ Eng!AllOrNothing
  BY EngInvImplies
<1> QED
  BY <1>1, EngInvariance, PTL

=============================================================================
