-------------------------- MODULE TrainingTransaction --------------------------
(* One generation after another is trained and committed.  `TrainingEngine`  *)
(* updates the replay, trains, writes and verifies the checkpoint and moves  *)
(* six files to their names before the marker commits them; an exception     *)
(* before the marker rolls the state in memory and the files back.  What the *)
(* state is belongs to an adapter: "cube" (a sampling counter, and changes   *)
(* of configuration recorded in the first child) or "torus" (a trainer with  *)
(* clocks of its own).  "five" is the 5CH driver: no rollback, files written *)
(* in place, a process per generation.  Whoever runs it may keep the process *)
(* over generations and retries, or lose it and load the last checkpoint.    *)
(* "genesis" is the publication of a Cube M0 by two callers at once.         *)
(*                                                                           *)
(* Weights are the history of the optimizer steps that made them.            *)
EXTENDS Integers, FiniteSets, Sequences

CONSTANTS
  MaxGen,     \* generations to train
  Steps,      \* optimizer steps of a generation
  Plans,      \* the replay windows the generations may be asked for
  MaxFaults   \* exceptions and deaths

VARIABLES disk, mem, env

tvars == <<disk, mem, env>>

TransactionAssumption ==
  /\ {MaxGen, Steps} \subseteq Nat \ {0} /\ MaxFaults \in Nat
  /\ Plans \subseteq [1..MaxGen -> Nat \ {0}] /\ Plans # {}

NoParent == -1
Kinds == {"cube", "torus", "five"}

\* The artifacts of a generation, in the order of their publication: fresh and
\* rolling replay, checkpoint and its metadata, training metrics, summary.
Files == 1..6

\* The newest w generations of a replay.
KeepLast(rows, w) == {r \in rows : Cardinality({q \in rows : q > r}) < w}

\* What one optimizer step does to the weights: the rows it drew from, and the
\* seeds of the draw (of the run, the generation, or the clock).
CubeDraw(gen, s, rows) == <<rows, gen, s.counter>>
TorusDraw(gen, rows) == <<rows, gen, 0>>
FiveDraw(s, rows) == <<rows, 0, s.updates + 1>>

Draw(kind, gen, s, rows) ==
  CASE kind = "cube" -> CubeDraw(gen, s, rows)
    [] kind = "torus" -> TorusDraw(gen, rows)
    [] kind = "five" -> FiveDraw(s, rows)

\* A checkpoint: its generation, what training goes on from, the window it was
\* trained with, its parent, and whether it records a change of configuration.
Genesis(kind, w) ==
  [gen |-> 0, weights |-> <<>>, adam |-> 0, updates |-> 0, counter |-> 0,
   rows |-> IF kind = "five" THEN {0} ELSE {}, window |-> w, parent |-> NoParent, changed |-> FALSE]

\* The replay a checkpoint c is loaded with for a window w: a Cube replay can only
\* lose rows by a change of the window, a Torus9 replay is built anew.
CubeRows(c, w) == KeepLast(c.rows, w)
TorusRows(c, w) == KeepLast(IF w > c.window THEN 1..c.gen ELSE c.rows, w)

\* The state that is loaded from checkpoint c for a window w.
Loaded(kind, c, w) ==
  [gen |-> c.gen, weights |-> c.weights, adam |-> c.adam, updates |-> c.updates,
   clock |-> IF kind = "torus" THEN c.updates ELSE 0, counter |-> c.counter,
   rows |-> CASE kind = "cube" -> CubeRows(c, w)
              [] kind = "torus" -> TorusRows(c, w)
              [] OTHER -> c.rows,
   window |-> w, parent |-> c.gen, changed |-> kind = "cube" /\ w # c.window]

\* What stands where no checkpoint is saved, and no state held: nothing reads it.
Blank == Genesis("cube", 1)
NoState == Loaded("cube", Blank, 1)
Down == [pc |-> "down", st |-> NoState, snap |-> NoState, k |-> 0]

Last == disk.chain[Len(disk.chain)]
Wanted == env.plan[Len(disk.chain)]

TransactionInit ==
  \E plan \in Plans :
    \/ \E kind \in Kinds :
         /\ env = [kind |-> kind, plan |-> plan, faults |-> 0]
         /\ disk = [chain |-> <<Genesis(kind, plan[1])>>, final |-> {}, saved |-> Blank]
         /\ mem = Down
    \/ /\ env = [kind |-> "genesis", plan |-> plan, faults |-> 0]
       /\ disk = [chain |-> <<>>, final |-> {}, saved |-> Blank]
       /\ mem = [p \in 1..2 |-> "checked"]

\* validate_state: of the Torus9 trainers it compares Adam with the clocks.
CubeValid(s) == s.updates >= 0
TorusValid(s) == s.updates = s.clock /\ s.adam = s.updates
FiveValid(s) == s.adam = s.updates

Valid(s) ==
  CASE env.kind = "cube" -> CubeValid(s)
    [] env.kind = "torus" -> TorusValid(s)
    [] env.kind = "five" -> FiveValid(s)

\* What is asked of a state and a request before anything changes.
Accepts ==
  /\ Len(disk.chain) <= MaxGen /\ mem.st.window = Wanted /\ Valid(mem.st)
  /\ env.kind = "cube" => mem.st.gen = Last.gen /\ mem.st.parent = Last.gen
  /\ env.kind # "five" => disk.final = {}

Gen == mem.st.gen + 1
Ended == mem' = Down
Fault == env.faults < MaxFaults /\ env' = [env EXCEPT !.faults = @ + 1]

-----------------------------------------------------------------------------
(* A process, its state, and one iteration.                                *)

\* The coordinator removes what a lost generation left before the next process.
Reconcile ==
  /\ mem.pc = "down" /\ disk.final # {}
  /\ disk' = [disk EXCEPT !.final = {}, !.saved = Blank] /\ UNCHANGED <<mem, env>>

Load ==
  /\ mem.pc = "down" /\ disk.final = {} /\ Len(disk.chain) <= MaxGen
  /\ mem' = [pc |-> "ready", st |-> Loaded(env.kind, Last, Wanted), snap |-> NoState, k |-> 0]
  /\ UNCHANGED <<disk, env>>

\* Who called is done with this process after an iteration (k = 1: it returned
\* or raised), or the state it holds is refused.
Exit ==
  /\ mem.pc = "ready" /\ (mem.k = 1 \/ ~Accepts)
  /\ Ended /\ UNCHANGED <<disk, env>>

Begin ==
  /\ mem.pc = "ready" /\ Accepts
  /\ mem' = [mem EXCEPT !.pc = "replay", !.snap = mem.st, !.k = 0]
  /\ UNCHANGED <<disk, env>>

\* The rows are validated, appended and the oldest evicted.  The 5CH driver
\* writes both replay files in place.
UpdateReplay ==
  /\ mem.pc = "replay" /\ \A r \in mem.st.rows : r < Gen
  /\ mem' = [mem EXCEPT !.pc = "train", !.st.rows = KeepLast(@ \cup {Gen}, mem.st.window)]
  /\ disk' = IF env.kind = "five" THEN [disk EXCEPT !.final = @ \cup {1, 2}] ELSE disk
  /\ UNCHANGED env

\* One optimizer step; the counters that move with it are the adapter's own.
Stepped(s) ==
  [s EXCEPT !.weights = Append(@, Draw(env.kind, Gen, s, s.rows)), !.adam = @ + 1,
            !.updates = IF env.kind = "torus" THEN @ ELSE @ + 1,
            !.clock = IF env.kind = "torus" THEN @ + 1 ELSE @]

TrainStep ==
  /\ mem.pc = "train" /\ mem.k < Steps
  /\ env.kind = "torus" => mem.st.adam = mem.st.clock
  /\ env.kind = "five" => mem.st.adam = mem.st.updates
  /\ mem' = [mem EXCEPT !.st = Stepped(@), !.k = @ + 1]
  /\ UNCHANGED <<disk, env>>

\* The budget is spent: the sampling counter moves on, and sync_state.
Trained(s) ==
  [s EXCEPT !.counter = IF env.kind = "cube" THEN @ + 1 ELSE @,
            !.updates = IF env.kind = "torus" THEN s.clock ELSE @]

EndTraining ==
  /\ mem.pc = "train" /\ mem.k = Steps
  /\ mem' = [mem EXCEPT !.pc = "save", !.st = Trained(@), !.k = 0]
  /\ UNCHANGED <<disk, env>>

\* The metadata takes the pending change of configuration with it, and the
\* checkpoint is written, reloaded and compared.
Save ==
  /\ mem.pc = "save"
  /\ LET s == mem.st IN
     /\ s.adam = s.updates
     /\ disk' = [disk EXCEPT
          !.saved = [gen |-> Gen, weights |-> s.weights, adam |-> s.adam, updates |-> s.updates,
                     counter |-> s.counter, rows |-> s.rows, window |-> s.window,
                     parent |-> s.parent, changed |-> s.changed],
          !.final = IF env.kind = "five" THEN Files ELSE @]
     /\ mem' = [mem EXCEPT !.pc = IF env.kind = "five" THEN "commit" ELSE "publish",
                           !.st.changed = FALSE]
  /\ UNCHANGED env

\* One file after the other gets its name.
Publish ==
  /\ mem.pc = "publish" /\ disk.final # Files
  /\ disk' = [disk EXCEPT !.final = @ \cup {Cardinality(disk.final) + 1}]
  /\ UNCHANGED <<mem, env>>

Prepared ==
  /\ mem.pc = "publish" /\ disk.final = Files
  /\ mem' = [mem EXCEPT !.pc = "commit"] /\ UNCHANGED <<disk, env>>

\* The marker: from here on the generation counts.
Commit ==
  /\ mem.pc = "commit"
  /\ disk' = [chain |-> Append(disk.chain, disk.saved), final |-> {}, saved |-> Blank]
  /\ mem' = IF env.kind = "five" THEN Down
            ELSE [mem EXCEPT !.pc = "after", !.st.gen = Gen, !.snap = NoState]
  /\ UNCHANGED env

After ==
  /\ mem.pc = "after"
  /\ mem' = [mem EXCEPT !.pc = "ready", !.st.parent = mem.st.gen, !.k = 1]
  /\ UNCHANGED <<disk, env>>

\* Reading the committed checkpoint back fails: nothing is rolled back, and the
\* parent stays the old one.  GenerationDriver returns; others let it out.
AfterFails ==
  /\ mem.pc = "after" /\ Fault /\ UNCHANGED disk
  /\ IF env.kind = "cube" THEN mem' = [mem EXCEPT !.pc = "ready", !.k = 1] ELSE Ended

\* restore_state.  Torus9 ends with sync_state, whose clocks were not restored.
Restored(s, snap) ==
  IF env.kind = "torus" THEN [snap EXCEPT !.updates = s.clock, !.clock = s.clock] ELSE snap

Raise ==
  /\ mem.pc \in {"replay", "train", "save", "publish", "commit"} /\ env.kind # "five" /\ Fault
  /\ mem' = [pc |-> "ready", st |-> Restored(mem.st, mem.snap), snap |-> NoState, k |-> 1]
  /\ disk' = [disk EXCEPT !.final = {}, !.saved = Blank]

Die == mem.pc # "down" /\ Fault /\ Ended /\ UNCHANGED disk

-----------------------------------------------------------------------------
(* The publication of M0: staged beside its place, validated, renamed.     *)

\* Everything is written and validated in a staging directory of its own.
Stage(p) ==
  /\ mem[p] = "checked"
  /\ mem' = [mem EXCEPT ![p] = "staged"] /\ UNCHANGED <<disk, env>>

\* The last look, then the rename, which no existing lineage gives way to.
Look(p) ==
  /\ mem[p] = "staged"
  /\ mem' = [mem EXCEPT ![p] = IF disk.chain = <<>> THEN "free" ELSE "failed"]
  /\ UNCHANGED <<disk, env>>

Rename(p) ==
  /\ mem[p] = "free"
  /\ IF disk.chain = <<>>
     THEN /\ disk' = [disk EXCEPT !.chain = <<Genesis("cube", p)>>]
          /\ mem' = [mem EXCEPT ![p] = "published"]
     ELSE mem' = [mem EXCEPT ![p] = "failed"] /\ UNCHANGED disk
  /\ UNCHANGED env

PublishFails(p) ==
  /\ mem[p] \in {"checked", "staged", "free"} /\ Fault
  /\ mem' = [mem EXCEPT ![p] = "failed"] /\ UNCHANGED disk

-----------------------------------------------------------------------------
Iteration ==
  \/ Reconcile \/ Load \/ Begin \/ UpdateReplay \/ TrainStep \/ EndTraining \/ Save
  \/ Publish \/ Prepared \/ Commit \/ After

Refused == Exit /\ ~Accepts
Publication(p) == Stage(p) \/ Look(p) \/ Rename(p)

TransactionNext ==
  \/ env.kind # "genesis" /\ (Iteration \/ Exit \/ AfterFails \/ Raise \/ Die)
  \/ env.kind = "genesis" /\ \E p \in 1..2 : Publication(p) \/ PublishFails(p)

\* What goes on by itself, whoever fails: an iteration, a new process for a
\* refused one (the caller ends with the error), and a publication.
Progress ==
  \/ env.kind # "genesis" /\ (Iteration \/ Refused)
  \/ env.kind = "genesis" /\ \E p \in 1..2 : Publication(p)

-----------------------------------------------------------------------------
IsCheckpoint(c) ==
  /\ c.gen \in 0..MaxGen /\ c.rows \in SUBSET (0..MaxGen) /\ c.changed \in BOOLEAN
  /\ {c.adam, c.updates, c.counter} \subseteq Nat /\ Len(c.weights) <= MaxGen * Steps
  /\ \A i \in 1..Len(c.weights) : c.weights[i][1] \subseteq 0..MaxGen

\* Types of the committed chain, of the files of the generation under way and of
\* the process.
TransactionTypeOK ==
  /\ env.kind \in Kinds \cup {"genesis"} /\ env.plan \in Plans /\ env.faults \in 0..MaxFaults
  /\ \A i \in 1..Len(disk.chain) : IsCheckpoint(disk.chain[i]) /\ disk.chain[i].gen = i - 1
  /\ disk.final \subseteq Files
  /\ env.kind = "genesis" =>
       \A p \in 1..2 : mem[p] \in {"checked", "staged", "free", "published", "failed"}
  /\ env.kind # "genesis" =>
       /\ mem.pc \in {"down", "ready", "replay", "train", "save", "publish", "commit", "after"}
       /\ mem.k \in 0..Steps
       /\ mem.pc \in {"publish", "commit"} => IsCheckpoint(disk.saved)
       /\ mem.pc # "down" => mem.st.clock \in Nat /\ mem.st.gen \in 0..MaxGen

\* The child that an undisturbed run makes of checkpoint c with a window w.
Child(kind, c, w) ==
  LET start == Loaded(kind, c, w)
      rows == KeepLast(start.rows \cup {c.gen + 1}, w)
      drawn(i) == Draw(kind, c.gen + 1, [start EXCEPT !.updates = @ + i - 1], rows)
  IN [gen |-> c.gen + 1, weights |-> c.weights \o [i \in 1..Steps |-> drawn(i)],
      adam |-> c.updates + Steps, updates |-> c.updates + Steps,
      counter |-> c.counter + (IF kind = "cube" THEN 1 ELSE 0), rows |-> rows, window |-> w,
      parent |-> c.gen, changed |-> kind = "cube" /\ w # c.window]

\* Whatever failed, was retried or was lost on the way, each committed checkpoint
\* is the child of the one before it that a run without trouble makes: the same
\* rows, draws and clocks, its true parent, and a change of configuration in the
\* first child only.
ChainIsUndisturbed ==
  env.kind # "genesis" =>
    \A i \in 2..Len(disk.chain) :
      disk.chain[i] = Child(env.kind, disk.chain[i - 1], env.plan[i - 1])

\* A state that is accepted for training is the last committed one; and of a Cube
\* state, every one is that failed before its marker: it stays usable.
StateIsCommitted ==
  (env.kind # "genesis" /\ mem.pc = "ready" /\ Len(disk.chain) <= MaxGen) =>
    ((Accepts \/ (env.kind = "cube" /\ mem.st.parent = Last.gen /\ mem.st.window = Wanted))
       => mem.st = Loaded(env.kind, Last, Wanted))

\* One publisher at most puts an M0 in place, and it stays the one of its lineage.
OneGenesis ==
  env.kind = "genesis" =>
    \A p \in 1..2 : mem[p] = "published" <=> disk.chain = <<Genesis("cube", p)>>

TransactionIsSound == ChainIsUndisturbed /\ StateIsCommitted /\ OneGenesis

\* Every generation is committed in the end; or the lineage has its M0, or no
\* publisher is left.
Transacted ==
  IF env.kind = "genesis" THEN \A p \in 1..2 : mem[p] \in {"published", "failed"}
  ELSE Len(disk.chain) > MaxGen
=============================================================================
