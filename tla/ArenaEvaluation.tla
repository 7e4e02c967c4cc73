--------------------------- MODULE ArenaEvaluation ---------------------------
(***************************************************************************)
(* One evaluation of ArenaRunnerV2: the coordinator that owns the output   *)
(* directory (orchestrator_v2/_arena_runner_core.py, arena_runner.py), the *)
(* child that plays the games (arena_child.py, tools/arena.py) and the     *)
(* stored result that later calls reuse (arena_identity.py).               *)
(*                                                                         *)
(* The directory's name is a function of the evaluation identity, so one   *)
(* directory stands for one identity and a stored identity never differs.  *)
(* SupervisorV2 is reduced to its three records and its verdict: it has a  *)
(* module of its own, where a child may also be lost before it is recorded.*)
(***************************************************************************)
EXTENDS Naturals

CONSTANTS
  MaxAttempts,   \* SupervisorPolicy.max_attempts
  MaxFaults      \* bound: deaths of children and crashes of the coordinator

EvaluationAssumption == MaxAttempts \in Nat \ {0} /\ MaxFaults \in Nat

VARIABLES
  disk,  \* the output directory: identity marker, products, result file and
         \* the supervisor's intent, active child and stop
  mem,   \* the coordinator: where run() stands and what it has read
  env    \* the child, the operator events, faults, and what was returned

vars == <<disk, mem, env>>

\* A result is reused when these three are there; the games lie beside them.
Committed == {"summary", "manifest", "provenance"}

ChildStates == {"none", "clear", "play", "publish", "mark", "exiting", "exited", "dead"}
Control == {"idle", "reclaim", "load", "clear", "identify", "supervise", "launch",
            "monitor", "retire", "read"}
Attempts == 0..MaxAttempts + 1

Idle(outcome) ==
  [pc |-> "idle", attached |-> FALSE, stopped |-> FALSE, own |-> FALSE, att |-> 0,
   outcome |-> outcome]

TypeOK ==
  /\ disk \in [dir : BOOLEAN, identity : BOOLEAN, products : SUBSET Committed,
               result : Attempts, intent : Attempts, active : Attempts, stop : BOOLEAN]
  /\ mem \in [pc : Control, attached : BOOLEAN, stopped : BOOLEAN, own : BOOLEAN,
              att : Attempts, outcome : {"none", "DONE", "REUSED", "RAISED"}]
  /\ env \in [child : ChildStates, attempt : Attempts, played : SUBSET Attempts,
              events : SUBSET {"STARTED", "COMPLETED", "FAILED"},
              faults : 0..MaxFaults, returned : BOOLEAN]

Init ==
  /\ disk = [dir |-> FALSE, identity |-> FALSE, products |-> {}, result |-> 0,
             intent |-> 0, active |-> 0, stop |-> FALSE]
  /\ mem = Idle("none")
  /\ env = [child |-> "none", attempt |-> 0, played |-> {}, events |-> {},
            faults |-> 0, returned |-> FALSE]

Alive == env.child \in {"clear", "play", "publish", "mark", "exiting"}

\* load_reusable_evaluation: the identity agrees and the commit is complete.
Stored == disk.identity /\ Committed \subseteq disk.products

Goto(label) == mem' = [mem EXCEPT !.pc = label]

Larger(a, b) == IF a > b THEN a ELSE b

\* The attempt plan() would start, when nothing is alive.
NextAttempt == Larger(IF disk.active = 0 THEN 1 ELSE disk.active + 1, disk.intent)

-----------------------------------------------------------------------------
(* The facade: every end of run() is reported, and no report can fail it.  *)

Fails ==
  /\ mem' = Idle("RAISED")
  /\ env' = [env EXCEPT !.events = @ \cup {"FAILED"}]

Returns(outcome) ==
  /\ mem' = Idle(outcome)
  /\ env' = [env EXCEPT !.events = @ \cup {"COMPLETED"}, !.returned = TRUE]

-----------------------------------------------------------------------------
(* ArenaRunner.run.                                                        *)

\* The two records are read first; an intent without a child must be one the
\* supervisor would start, or the output is not touched.
Call ==
  /\ mem.pc = "idle"
  /\ IF /\ disk.dir /\ disk.active = 0 /\ disk.intent # 0
        /\ disk.stop \/ NextAttempt > MaxAttempts
       THEN Fails
       ELSE /\ mem' = [Idle("none") EXCEPT !.pc = "reclaim",
                                           !.attached = disk.active # 0,
                                           !.stopped = disk.stop]
            /\ env' = [env EXCEPT !.events = @ \cup {"STARTED"}]
  /\ UNCHANGED disk

\* Mutant: the record is retired without a look at the process group.
ReclaimBlindly ==
  /\ mem.pc = "reclaim"
  /\ IF mem.attached /\ ~disk.stop
       THEN /\ disk' = [disk EXCEPT !.intent = disk.active + 1, !.active = 0]
            /\ mem' = [mem EXCEPT !.pc = "load", !.attached = FALSE]
       ELSE Goto("load") /\ UNCHANGED disk
  /\ UNCHANGED env

\* _reclaim_stale_supervision: a recorded child that is gone is retired, and
\* the next attempt is written down before its record is removed.
Reclaim ==
  /\ mem.pc = "reclaim"
  /\ IF mem.attached /\ ~disk.stop /\ ~Alive
       THEN /\ disk' = [disk EXCEPT !.intent = disk.active + 1, !.active = 0]
            /\ mem' = [mem EXCEPT !.pc = "load", !.attached = FALSE]
       ELSE Goto("load") /\ UNCHANGED disk
  /\ UNCHANGED env

\* A complete result is returned whatever the supervisor's records say; a
\* directory without an identity marker is incomplete output.
Load ==
  /\ mem.pc = "load"
  /\ \/ Stored /\ Returns("REUSED")
     \/ ~Stored /\ disk.dir /\ mem.stopped /\ Fails
     \/ /\ ~Stored /\ ~(disk.dir /\ mem.stopped)
        /\ Goto(CASE ~disk.dir -> "identify"
                  [] mem.attached -> "supervise"
                  [] OTHER -> "clear")
        /\ UNCHANGED env
  /\ UNCHANGED disk

\* _clear_incomplete_evaluation: all but the intent and the notifications.
Clear ==
  /\ mem.pc = "clear"
  /\ disk' = [disk EXCEPT !.identity = FALSE, !.products = {}, !.result = 0]
  /\ Goto("identify")
  /\ UNCHANGED env

\* write_evaluation_identity, before any game is played.
Identify ==
  /\ mem.pc = "identify"
  /\ disk' = [disk EXCEPT !.dir = TRUE, !.identity = TRUE]
  /\ Goto("supervise")
  /\ UNCHANGED env

-----------------------------------------------------------------------------
(* _production_summary around SupervisorV2.run_once.                       *)

Supervise ==
  /\ mem.pc = "supervise"
  /\ \/ /\ disk.stop \/ (~Alive /\ NextAttempt > MaxAttempts)
        /\ Fails /\ UNCHANGED disk
     \/ /\ ~disk.stop /\ disk.active # 0 /\ Alive
        /\ mem' = [mem EXCEPT !.pc = "monitor", !.own = FALSE, !.att = disk.active]
        /\ UNCHANGED <<disk, env>>
     \/ /\ ~disk.stop /\ ~Alive /\ NextAttempt <= MaxAttempts
        /\ disk' = [disk EXCEPT !.intent = NextAttempt]
        /\ mem' = [mem EXCEPT !.pc = "launch", !.att = NextAttempt]
        /\ UNCHANGED env

\* launch(): a fresh permit and request for this attempt, then the process.
Launch ==
  /\ mem.pc = "launch"
  /\ env' = [env EXCEPT !.child = "clear", !.attempt = mem.att]
  /\ disk' = [disk EXCEPT !.active = mem.att]
  /\ mem' = [mem EXCEPT !.pc = "monitor", !.own = TRUE]

\* The verdict on a child that is gone: its exit code if it is ours, and
\* else the completion check on the result file, of whatever attempt.
Succeeded == IF mem.own THEN env.child = "exited" ELSE disk.result # 0

SeeGone ==
  /\ mem.pc = "monitor" /\ ~Alive
  /\ \/ /\ Succeeded
        /\ disk' = [disk EXCEPT !.active = 0]
        /\ Goto("retire") /\ UNCHANGED env
     \/ /\ ~Succeeded /\ mem.att < MaxAttempts
        /\ disk' = [disk EXCEPT !.active = 0, !.intent = mem.att + 1]
        /\ mem' = [mem EXCEPT !.pc = "launch", !.att = mem.att + 1]
        /\ UNCHANGED env
     \/ /\ ~Succeeded /\ mem.att >= MaxAttempts
        /\ disk' = [disk EXCEPT !.active = 0, !.stop = TRUE]
        /\ Fails

Retire ==
  /\ mem.pc = "retire"
  /\ disk' = [disk EXCEPT !.intent = 0]
  /\ Goto("read")
  /\ UNCHANGED env

ReadResult ==
  /\ mem.pc = "read"
  /\ Returns("DONE")
  /\ UNCHANGED disk

-----------------------------------------------------------------------------
(* The child: run_arena_worker, run_arena, _publish_evaluation_metadata.   *)

\* _clear_incomplete_output: the identity and the result file stay.
ChildClear ==
  /\ env.child = "clear"
  /\ disk' = [disk EXCEPT !.products = {}]
  /\ env' = [env EXCEPT !.child = "play"]
  /\ UNCHANGED mem

\* The engine refuses a directory with products; else all games are played.
ChildPlay ==
  /\ env.child = "play"
  /\ IF disk.products \cap {"summary", "manifest"} # {}
       THEN env' = [env EXCEPT !.child = "dead"] /\ UNCHANGED disk
       ELSE /\ disk' = [disk EXCEPT !.products = @ \cup {"summary", "manifest"}]
            /\ env' = [env EXCEPT !.child = "publish", !.played = @ \cup {env.attempt}]
  /\ UNCHANGED mem

\* Mutant: the provenance is published before the games are played.
ChildPublishEarly ==
  /\ env.child \in {"play", "publish"}
  /\ disk' = [disk EXCEPT !.products = Committed]
  /\ env' = [env EXCEPT !.child = "mark"]
  /\ UNCHANGED mem

ChildPublish ==
  /\ env.child = "publish"
  /\ disk' = [disk EXCEPT !.products = @ \cup {"provenance"}]
  /\ env' = [env EXCEPT !.child = "mark"]
  /\ UNCHANGED mem

ChildMark ==
  /\ env.child = "mark"
  /\ disk' = [disk EXCEPT !.result = env.attempt]
  /\ env' = [env EXCEPT !.child = "exiting"]
  /\ UNCHANGED mem

ChildExit ==
  /\ env.child = "exiting"
  /\ env' = [env EXCEPT !.child = "exited"]
  /\ UNCHANGED <<disk, mem>>

-----------------------------------------------------------------------------
(* Faults, and the operator.                                               *)

\* The child fails, or the supervisor ends it because its heartbeat is old.
ChildDies ==
  /\ Alive /\ env.faults < MaxFaults
  /\ env' = [env EXCEPT !.child = "dead", !.faults = @ + 1]
  /\ UNCHANGED <<disk, mem>>

CoordinatorDies ==
  /\ mem.pc # "idle" /\ env.faults < MaxFaults
  /\ mem' = Idle("none")
  /\ env' = [env EXCEPT !.faults = @ + 1]
  /\ UNCHANGED disk

\* acknowledge_stopped_execution, on the operator's command.
Acknowledge ==
  /\ mem.pc = "idle" /\ disk.stop
  /\ disk' = [disk EXCEPT !.intent = 0, !.active = 0, !.stop = FALSE]
  /\ UNCHANGED <<mem, env>>

Coordinator ==
  \/ Call \/ Reclaim \/ Load \/ Clear \/ Identify \/ Supervise \/ Launch
  \/ SeeGone \/ Retire \/ ReadResult
Child == ChildClear \/ ChildPlay \/ ChildPublish \/ ChildMark \/ ChildExit

Next == Coordinator \/ Child \/ ChildDies \/ CoordinatorDies \/ Acknowledge

\* The operator repeats the command; processes that run take their steps.
Fairness == WF_vars(Coordinator) /\ WF_vars(Child)

Spec == Init /\ [][Next]_vars /\ Fairness

-----------------------------------------------------------------------------
(* Properties.                                                             *)

\* What is stored as complete, marked as a result or reported as completed
\* is an evaluation whose games were all played.
EvidenceIsPlayed ==
  Stored \/ disk.result # 0 \/ "COMPLETED" \in env.events => env.played # {}

\* The coordinator removes the products of an evaluation only when no child
\* is writing there, although it decides that from records read before.
ClearsOnlyDeadOutput ==
  [][disk.identity /\ ~disk'.identity => ~Alive /\ disk.active = 0]_vars

\* Every evaluation is returned, or waits for the operator: a durable stop,
\* or a recorded attempt beyond the budget.
AtRest == env.returned \/ disk.stop \/ disk.intent > MaxAttempts
Settles == <>AtRest

=============================================================================
