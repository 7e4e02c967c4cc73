---------------------------- MODULE MetadataBackfill ----------------------------
(***************************************************************************)
(* The one-time publication of V2 metadata for the checkpoints of V1          *)
(* (tools/orchestrator_v2_backfill_nodes.py).  For each checkpoint of a fixed *)
(* scope the facts are read and a plan is made; if every plan is complete and *)
(* nothing that is there differs, the missing files are written one by one: a *)
(* config, which generations may share, the provenance and the node.  The     *)
(* provenance names the commit the tool ran at, so that what a killed run has *)
(* left is compared, the next time, with what the commit of that time says.   *)
(***************************************************************************)
EXTENDS Integers, Sequences, SequencesExt

CONSTANTS
  Generations,       \* the scope is the generations 1..Generations, on the genesis 0
  Configs,    \* the effective configs there may be
  MaxFaults   \* bound: runs that are killed, and commits of the repository

BackfillAssumption ==
  /\ Generations \in Nat \ {0} /\ MaxFaults \in Nat /\ Configs # {} /\ Configs \subseteq Nat \ {0}

VARIABLES
  disk,  \* the V2 metadata: configs, and the commit of each provenance and node
  mem,   \* the run: what is left to write
  env    \* the facts of V1, the commit of the repository

Scope == 1..Generations
None == 0
Idle == [pc |-> "idle", commit |-> None, todo |-> <<>>]

\* What V1 has kept of a checkpoint: the generation of the parent it names, whether
\* the hashes agree, whether its replay is committed, and its config, if complete.
Facts == [parent : 0..Generations, hashes : BOOLEAN, replay : BOOLEAN, config : Configs \cup {None}]
Whole(g, c) == [parent |-> g - 1, hashes |-> TRUE, replay |-> TRUE, config |-> c]

\* At most one checkpoint has lost something.
BackfillInit ==
  /\ disk = [config |-> {}, provenance |-> [g \in Scope |-> None], node |-> [g \in Scope |-> None]]
  /\ mem = Idle
  /\ \E c \in [Scope -> Configs] : \E g \in Scope :
       \E f \in {Whole(g, c[g]), [Whole(g, c[g]) EXCEPT !.parent = g], [Whole(g, c[g]) EXCEPT !.hashes = FALSE],
                 [Whole(g, c[g]) EXCEPT !.replay = FALSE], [Whole(g, c[g]) EXCEPT !.config = None]} :
         env = [facts |-> [h \in Scope |-> IF h = g THEN f ELSE Whole(h, c[h])],
                head |-> 1, faults |-> 0, repaired |-> FALSE]

-----------------------------------------------------------------------------
(* Planning.                                                               *)

\* The parent is named, and is the generation before.
ParentIsKnown(g) == env.facts[g].parent + 1 = g
\* Metadata, commit, manifest and catalog agree about the checkpoint.
ChildIsKnown(g) == env.facts[g].hashes
ReplayIsKnown(g) == env.facts[g].replay
ConfigIsKnown(g) == env.facts[g].config # None

Planned(g) == ParentIsKnown(g) /\ ChildIsKnown(g) /\ ReplayIsKnown(g) /\ ConfigIsKnown(g)

\* What a plan writes, the node last; a config that generations share is the
\* destination of the first of them.
Shared(g) == \E h \in 1..(g - 1) : env.facts[h].config = env.facts[g].config
PlanOf(g) ==
  (IF Shared(g) THEN <<>> ELSE <<[what |-> "config", key |-> env.facts[g].config]>>)
    \o <<[what |-> "provenance", key |-> g], [what |-> "node", key |-> g]>>

Destinations == FlattenSeq([g \in Scope |-> PlanOf(g)])

\* _destination_state: the content of a config is its name; that of the others
\* has the commit in it.
State(file, commit) ==
  LET there == IF file.what = "provenance" THEN disk.provenance[file.key] ELSE disk.node[file.key]
  IN  IF file.what = "config" THEN (IF file.key \in disk.config THEN "same" ELSE "missing")
      ELSE IF there = None THEN "missing" ELSE IF there = commit THEN "same" ELSE "conflict"

-----------------------------------------------------------------------------
(* The run.                                                                *)

\* run_backfill: with one problem or one conflict nothing at all is written.
Run ==
  /\ mem.pc = "idle" /\ (\A g \in Scope : Planned(g)) /\ UNCHANGED <<disk, env>>
  /\ LET states == {State(Destinations[k], env.head) : k \in DOMAIN Destinations}
     IN  "conflict" \notin states /\ "missing" \in states
  /\ mem' = [pc |-> "publish", commit |-> env.head, todo |-> Destinations]

Written(file, commit) ==
  CASE file.what = "config" -> [disk EXCEPT !.config = @ \cup {file.key}]
    [] file.what = "provenance" -> [disk EXCEPT !.provenance[file.key] = commit]
    [] file.what = "node" -> [disk EXCEPT !.node[file.key] = commit]

\* _publish: what is the same is left alone.
Publish ==
  LET file == Head(mem.todo) IN
  /\ mem.pc = "publish" /\ State(file, mem.commit) # "conflict" /\ UNCHANGED env
  /\ disk' = IF State(file, mem.commit) = "same" THEN disk ELSE Written(file, mem.commit)
  /\ mem' = IF Len(mem.todo) = 1 THEN Idle ELSE [mem EXCEPT !.todo = Tail(@)]

Kill ==
  /\ mem.pc = "publish" /\ env.faults < MaxFaults
  /\ mem' = Idle /\ env' = [env EXCEPT !.faults = @ + 1] /\ UNCHANGED disk

\* The repository moves on.
Checkout ==
  /\ env.faults < MaxFaults /\ UNCHANGED <<disk, mem>>
  /\ env' = [env EXCEPT !.faults = @ + 1, !.head = @ + 1]

\* The operator puts back what V1 had lost.
Repair ==
  /\ ~env.repaired /\ (\E g \in Scope : ~Planned(g)) /\ UNCHANGED <<disk, mem>>
  /\ env' = [env EXCEPT !.repaired = TRUE,
               !.facts = [g \in Scope |->
                 Whole(g, IF @[g].config = None THEN CHOOSE c \in Configs : TRUE ELSE @[g].config)]]

BackfillNext == Run \/ Publish \/ Kill \/ Checkout \/ Repair

-----------------------------------------------------------------------------

\* Types of the metadata, the run and the facts.
BackfillTypeOK ==
  /\ disk.config \subseteq Configs /\ env.head \in 1..(MaxFaults + 1)
  /\ \A g \in Scope : {disk.provenance[g], disk.node[g]} \subseteq 0..env.head
  /\ mem.pc \in {"idle", "publish"} /\ env.facts \in [Scope -> Facts]

\* A node is published after what it refers to, and with the same commit.
NodesAreBacked ==
  \A g \in Scope : disk.node[g] # None =>
    disk.provenance[g] = disk.node[g] /\ env.facts[g].config \in disk.config

\* However often the tool was killed, run again and run at other commits, what it
\* has published is of one commit, and is a beginning of the scope.
OneMigration ==
  \A g, h \in Scope :
    /\ disk.provenance[g] # None /\ disk.provenance[h] # None => disk.provenance[g] = disk.provenance[h]
    /\ g < h /\ disk.provenance[h] # None => disk.node[g] # None

\* Nothing is published of a scope that is not known whole.
NothingIsGuessed ==
  disk.config # {} => \A g \in Scope : env.facts[g] = Whole(g, env.facts[g].config) /\ ConfigIsKnown(g)

BackfillIsSound == NodesAreBacked /\ OneMigration /\ NothingIsGuessed

\* The scope is published; or it waits, for what V1 has lost or, killed within
\* another commit, for that commit.
BackfillSettled ==
  /\ mem.pc = "idle"
  /\ \/ \A g \in Scope : disk.node[g] # None
     \/ \E g \in Scope : ~Planned(g) \/ disk.provenance[g] \notin {None, env.head}
=============================================================================
