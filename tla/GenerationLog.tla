---------------------------- MODULE GenerationLog ----------------------------
(***************************************************************************)
(* What a production lineage promises: the committed generations form an   *)
(* append-only log.  A generation enters the log once, with the identities *)
(* of its artifacts, and nothing in the log is ever replaced or removed.   *)
(* The caller of ProductionTrainOne learns of one generation after the     *)
(* other, and only of generations that are in the log.                     *)
(***************************************************************************)
EXTENDS Naturals, Sequences

CONSTANTS Identity,  \* identities of the artifacts of one generation
          MaxGen     \* generations of the lineage

VARIABLES log,   \* the committed generations, in order
          head   \* the last generation the caller was given

Init == log = <<>> /\ head = 0

Commit ==
  /\ Len(log) = head /\ head < MaxGen
  /\ Len(log') = Len(log) + 1 /\ log'[Len(log')] \in Identity
  /\ log' = Append(log, log'[Len(log')])
  /\ UNCHANGED head

Deliver ==
  /\ head < Len(log)
  /\ head' = head + 1
  /\ UNCHANGED log

Next == Commit \/ Deliver

Spec == Init /\ [][Next]_<<log, head>>
=============================================================================
