----------------------------- MODULE ComponentProofs -----------------------------
(***************************************************************************)
(* Proofs about components that have few theorems, each for every value of *)
(* its own constants.  A component is taken as an instance; its variables  *)
(* are those of this module that bear its names, and what is assumed of    *)
(* its constants is a hypothesis of its theorems.                          *)
(***************************************************************************)
EXTENDS Integers, Sequences, FiniteSets, FiniteSetTheorems, SequenceTheorems, TLAPS

CONSTANTS
  MaxAttempts, ArenaFaults,       \* of ArenaEvaluation
  MaxFaults,                      \* of Adaptation and Experiment
  LastStage, Saves, Ends, PinAt,  \* of Adaptation
  Kinds, Gens, MaxCalls,          \* of Experiment
  Ids, NumRequests, MaxEntries, MoveConcurrency, MaxChanges,  \* of PlayService
  Points, Neighbors, PASS, KomiHalves                         \* of GoRules

VARIABLES disk, mem, env, kind, world, count, store, req, svc, game

Arena == INSTANCE ArenaEvaluation WITH MaxFaults <- ArenaFaults
Adapt == INSTANCE Adaptation
Trial == INSTANCE Experiment
Service == INSTANCE PlayService
Go == INSTANCE GoRules

-----------------------------------------------------------------------------
(* ArenaEvaluation: one evaluation, its coordinator and its child.         *)

\* An attempt is counted within the policy, and a child has the one recorded.
ArenaAttempts ==
  /\ disk.active \in 0..MaxAttempts
  /\ mem.att \in 0..MaxAttempts
  /\ mem.pc \in {"launch", "monitor"} => mem.att # 0

\* Whatever the products or the verdict stand on was played.
ArenaPlayed ==
  /\ \/ "provenance" \in disk.products \/ disk.result # 0 \/ "COMPLETED" \in env.events
     \/ env.child \in {"publish", "mark", "exiting", "exited"}
     \/ mem.pc \in {"retire", "read"}
     => env.played # {}

\* A child at work is recorded, and no other is started; a coordinator that
\* found no record may rely on it until it starts a child itself.
ArenaDead ==
  /\ disk.active = 0 => ~Arena!Alive
  /\ disk.stop => ~Arena!Alive /\ mem.pc \notin {"launch", "monitor", "retire", "read"}
  /\ mem.pc = "launch" => ~Arena!Alive
  /\ mem.pc \in {"reclaim", "load"} /\ ~mem.attached => disk.active = 0
  /\ mem.pc = "clear" => disk.active = 0

ArenaInv == Arena!TypeOK /\ ArenaAttempts /\ ArenaPlayed /\ ArenaDead

LEMMA ArenaInitHolds == ASSUME Arena!EvaluationAssumption, Arena!Init PROVE ArenaInv
BY DEF Arena!EvaluationAssumption, Arena!Init, ArenaInv, Arena!TypeOK, ArenaAttempts, ArenaPlayed,
   ArenaDead, Arena!Idle, Arena!Attempts, Arena!Control, Arena!ChildStates, Arena!Alive

\* Numbers of attempts that occur.
LEMMA ArenaNumbers ==
  ASSUME Arena!EvaluationAssumption, ArenaInv
  PROVE  /\ 0 \in Arena!Attempts /\ MaxAttempts \in Nat \ {0}
         /\ \A a \in 0..MaxAttempts : a \in Arena!Attempts /\ a + 1 \in Arena!Attempts /\ a + 1 # 0
         /\ \A a \in Arena!Attempts : a \in Nat
         /\ Arena!NextAttempt \in Nat \ {0}
         /\ env.faults < ArenaFaults => env.faults + 1 \in 0..ArenaFaults
<1>1. MaxAttempts \in Nat \ {0} /\ ArenaFaults \in Nat
  BY DEF Arena!EvaluationAssumption
<1>2. /\ disk.active \in 0..MaxAttempts /\ disk.intent \in Arena!Attempts
      /\ env.faults \in 0..ArenaFaults
  BY DEF ArenaInv, ArenaAttempts, Arena!TypeOK
<1> QED
  BY <1>1, <1>2 DEF Arena!Attempts, Arena!NextAttempt, Arena!Larger

\* Every step keeps the invariant.
LEMMA ArenaStepKeeps ==
  ASSUME Arena!EvaluationAssumption, ArenaInv, [Arena!Next]_(Arena!vars)
  PROVE  ArenaInv'
<1>0. /\ 0 \in Arena!Attempts /\ MaxAttempts \in Nat \ {0}
      /\ \A a \in 0..MaxAttempts : a \in Arena!Attempts /\ a + 1 \in Arena!Attempts /\ a + 1 # 0
      /\ \A a \in Arena!Attempts : a \in Nat
      /\ Arena!NextAttempt \in Nat \ {0}
      /\ env.faults < ArenaFaults => env.faults + 1 \in 0..ArenaFaults
  BY ArenaNumbers
<1>1. CASE Arena!Call
  <2>1. CASE Arena!Fails /\ UNCHANGED disk
    <3>1. Arena!TypeOK'
      BY <1>0, <2>1 DEF ArenaInv, Arena!Idle, Arena!Fails, Arena!TypeOK, Arena!Control
    <3>2. ArenaAttempts'
      BY <1>0, <2>1 DEF ArenaInv, ArenaAttempts, Arena!Idle, Arena!Fails
    <3>3. ArenaPlayed'
      BY <1>0, <2>1 DEF ArenaInv, ArenaPlayed, Arena!Idle, Arena!Fails
    <3>4. ArenaDead'
      BY <1>0, <2>1 DEF ArenaInv, ArenaDead, Arena!Idle, Arena!Alive, Arena!Fails
    <3> QED
      BY <3>1, <3>2, <3>3, <3>4 DEF ArenaInv
  <2>2. CASE /\ mem.pc = "idle" /\ UNCHANGED disk
          /\ mem' = [Arena!Idle("none") EXCEPT !.pc = "reclaim", !.attached = disk.active # 0,
                                               !.stopped = disk.stop]
          /\ env' = [env EXCEPT !.events = @ \cup {"STARTED"}]
    <3>1. Arena!TypeOK'
      BY <1>0, <2>2 DEF ArenaInv, ArenaAttempts, Arena!Idle, Arena!Alive, Arena!Goto,
         Arena!Fails, Arena!Returns, Arena!Stored, Arena!Committed, Arena!Succeeded,
         Arena!TypeOK, Arena!Control, Arena!ChildStates
    <3>2. ArenaAttempts'
      BY <1>0, <2>2 DEF ArenaInv, ArenaAttempts, Arena!Idle
    <3>3. ArenaPlayed'
      BY <1>0, <2>2 DEF ArenaInv, ArenaPlayed
    <3>4. ArenaDead'
      BY <1>0, <2>2 DEF ArenaInv, ArenaAttempts, ArenaDead, Arena!Idle, Arena!Alive,
         Arena!Goto, Arena!Fails, Arena!Returns, Arena!Stored, Arena!Committed,
         Arena!Succeeded, Arena!TypeOK
    <3> QED
      BY <3>1, <3>2, <3>3, <3>4 DEF ArenaInv
  <2> QED
    BY <1>1, <2>1, <2>2 DEF Arena!Call
<1>2. CASE Arena!Reclaim
  <2>1. CASE /\ ~disk.stop /\ ~Arena!Alive /\ UNCHANGED env
          /\ disk' = [disk EXCEPT !.intent = disk.active + 1, !.active = 0]
          /\ mem' = [mem EXCEPT !.pc = "load", !.attached = FALSE]
    <3>1. Arena!TypeOK'
      BY <1>0, <2>1 DEF ArenaInv, ArenaAttempts, Arena!Idle, Arena!Alive, Arena!Goto,
         Arena!Fails, Arena!Returns, Arena!Stored, Arena!Committed, Arena!Succeeded,
         Arena!TypeOK, Arena!Control, Arena!ChildStates
    <3>2. ArenaAttempts'
      BY <1>0, <2>1 DEF ArenaInv, ArenaAttempts
    <3>3. ArenaPlayed'
      BY <1>0, <2>1 DEF ArenaInv, ArenaPlayed
    <3>4. ArenaDead'
      BY <1>0, <2>1 DEF ArenaDead, Arena!Alive
    <3> QED
      BY <3>1, <3>2, <3>3, <3>4 DEF ArenaInv
  <2>2. CASE mem.pc = "reclaim" /\ Arena!Goto("load") /\ UNCHANGED <<disk, env>>
    <3>1. Arena!TypeOK'
      BY <1>0, <2>2 DEF ArenaInv, Arena!Goto, Arena!TypeOK, Arena!Control
    <3>2. ArenaAttempts'
      BY <1>0, <2>2 DEF ArenaInv, ArenaAttempts, Arena!Goto
    <3>3. ArenaPlayed'
      BY <1>0, <2>2 DEF ArenaInv, ArenaPlayed, Arena!Goto
    <3>4. ArenaDead'
      BY <1>0, <2>2 DEF ArenaInv, ArenaDead, Arena!Alive, Arena!Goto
    <3> QED
      BY <3>1, <3>2, <3>3, <3>4 DEF ArenaInv
  <2> QED
    BY <1>2, <2>1, <2>2 DEF Arena!Reclaim, Arena!Goto
<1>3. CASE Arena!Load
  <2>1. CASE Arena!Stored /\ Arena!Returns("REUSED") /\ UNCHANGED disk
    <3>1. Arena!TypeOK'
      BY <1>0, <2>1 DEF ArenaInv, ArenaAttempts, Arena!Idle, Arena!Alive, Arena!Goto,
         Arena!Fails, Arena!Returns, Arena!Stored, Arena!Committed, Arena!Succeeded,
         Arena!TypeOK, Arena!Control, Arena!ChildStates
    <3>2. ArenaAttempts'
      BY <1>0, <2>1 DEF ArenaInv, ArenaAttempts, Arena!Idle, Arena!Returns
    <3>3. ArenaPlayed'
      BY <1>0, <2>1 DEF ArenaInv, ArenaPlayed, Arena!Returns, Arena!Stored, Arena!Committed
    <3>4. ArenaDead'
      BY <1>0, <2>1 DEF ArenaInv, ArenaDead, Arena!Idle, Arena!Alive, Arena!Returns
    <3> QED
      BY <3>1, <3>2, <3>3, <3>4 DEF ArenaInv
  <2>2. CASE Arena!Fails /\ UNCHANGED disk
    <3>1. Arena!TypeOK'
      BY <1>0, <2>2 DEF ArenaInv, Arena!Idle, Arena!Fails, Arena!TypeOK, Arena!Control
    <3>2. ArenaAttempts'
      BY <1>0, <2>2 DEF ArenaInv, ArenaAttempts, Arena!Idle, Arena!Fails
    <3>3. ArenaPlayed'
      BY <1>0, <2>2 DEF ArenaInv, ArenaPlayed, Arena!Idle, Arena!Fails
    <3>4. ArenaDead'
      BY <1>0, <2>2 DEF ArenaInv, ArenaDead, Arena!Idle, Arena!Alive, Arena!Fails
    <3> QED
      BY <3>1, <3>2, <3>3, <3>4 DEF ArenaInv
  <2>3. CASE mem.pc = "load" /\ Arena!Goto("identify") /\ UNCHANGED <<disk, env>>
    <3>1. Arena!TypeOK'
      BY <1>0, <2>3 DEF ArenaInv, Arena!Goto, Arena!TypeOK, Arena!Control
    <3>2. ArenaAttempts'
      BY <1>0, <2>3 DEF ArenaInv, ArenaAttempts, Arena!Goto
    <3>3. ArenaPlayed'
      BY <1>0, <2>3 DEF ArenaInv, ArenaPlayed, Arena!Goto
    <3>4. ArenaDead'
      BY <1>0, <2>3 DEF ArenaInv, ArenaDead, Arena!Alive, Arena!Goto
    <3> QED
      BY <3>1, <3>2, <3>3, <3>4 DEF ArenaInv
  <2>4. CASE mem.pc = "load" /\ Arena!Goto("supervise") /\ UNCHANGED <<disk, env>>
    <3>1. Arena!TypeOK'
      BY <1>0, <2>4 DEF ArenaInv, Arena!Goto, Arena!TypeOK, Arena!Control
    <3>2. ArenaAttempts'
      BY <1>0, <2>4 DEF ArenaInv, ArenaAttempts, Arena!Goto
    <3>3. ArenaPlayed'
      BY <1>0, <2>4 DEF ArenaInv, ArenaPlayed, Arena!Goto
    <3>4. ArenaDead'
      BY <1>0, <2>4 DEF ArenaInv, ArenaDead, Arena!Alive, Arena!Goto
    <3> QED
      BY <3>1, <3>2, <3>3, <3>4 DEF ArenaInv
  <2>5. CASE mem.pc = "load" /\ Arena!Goto("clear") /\ UNCHANGED <<disk, env>> /\ ~mem.attached
    <3>1. Arena!TypeOK'
      BY <1>0, <2>5 DEF ArenaInv, Arena!Goto, Arena!TypeOK, Arena!Control
    <3>2. ArenaAttempts'
      BY <1>0, <2>5 DEF ArenaInv, ArenaAttempts, Arena!Goto
    <3>3. ArenaPlayed'
      BY <1>0, <2>5 DEF ArenaInv, ArenaPlayed, Arena!Goto
    <3>4. ArenaDead'
      BY <1>0, <2>5 DEF ArenaInv, ArenaDead, Arena!Alive, Arena!Goto
    <3> QED
      BY <3>1, <3>2, <3>3, <3>4 DEF ArenaInv
  <2> QED
    BY <1>3, <2>1, <2>2, <2>3, <2>4, <2>5 DEF Arena!Load, Arena!Goto
<1>4. CASE Arena!Clear
  BY <1>0, <1>4 DEF Arena!Clear, ArenaInv, ArenaAttempts, ArenaPlayed, ArenaDead, Arena!Idle,
     Arena!Alive, Arena!Goto, Arena!Fails, Arena!Returns, Arena!Stored, Arena!Committed,
     Arena!Succeeded, Arena!NextAttempt, Arena!Larger, Arena!EvaluationAssumption,
     Arena!Attempts, Arena!TypeOK, Arena!Control, Arena!ChildStates
<1>5. CASE Arena!Identify
  BY <1>0, <1>5 DEF Arena!Identify, ArenaInv, ArenaAttempts, ArenaPlayed, ArenaDead, Arena!Idle,
     Arena!Alive, Arena!Goto, Arena!Fails, Arena!Returns, Arena!Stored, Arena!Committed,
     Arena!Succeeded, Arena!NextAttempt, Arena!Larger, Arena!EvaluationAssumption,
     Arena!Attempts, Arena!TypeOK, Arena!Control, Arena!ChildStates
<1>6. CASE Arena!Supervise
  <2>1. CASE Arena!Fails /\ UNCHANGED disk
    <3>1. Arena!TypeOK'
      BY <1>0, <2>1 DEF ArenaInv, Arena!Idle, Arena!Fails, Arena!TypeOK, Arena!Control
    <3>2. ArenaAttempts'
      BY <1>0, <2>1 DEF ArenaInv, ArenaAttempts, Arena!Idle, Arena!Fails
    <3>3. ArenaPlayed'
      BY <1>0, <2>1 DEF ArenaInv, ArenaPlayed, Arena!Idle, Arena!Fails
    <3>4. ArenaDead'
      BY <1>0, <2>1 DEF ArenaInv, ArenaDead, Arena!Idle, Arena!Alive, Arena!Fails
    <3> QED
      BY <3>1, <3>2, <3>3, <3>4 DEF ArenaInv
  <2>2. CASE /\ ~disk.stop /\ disk.active # 0 /\ UNCHANGED <<disk, env>>
          /\ mem' = [mem EXCEPT !.pc = "monitor", !.own = FALSE, !.att = disk.active]
    <3>1. Arena!TypeOK'
      BY <1>0, <2>2 DEF ArenaInv, ArenaAttempts, Arena!Idle, Arena!Alive, Arena!Goto,
         Arena!Fails, Arena!Returns, Arena!Stored, Arena!Committed, Arena!Succeeded,
         Arena!TypeOK, Arena!Control, Arena!ChildStates
    <3>2. ArenaAttempts'
      BY <1>0, <2>2 DEF ArenaInv, ArenaAttempts
    <3>3. ArenaPlayed'
      BY <1>0, <2>2 DEF ArenaInv, ArenaPlayed
    <3>4. ArenaDead'
      BY <1>0, <2>2 DEF ArenaDead
    <3> QED
      BY <3>1, <3>2, <3>3, <3>4 DEF ArenaInv
  <2>3. CASE /\ ~disk.stop /\ ~Arena!Alive /\ Arena!NextAttempt <= MaxAttempts /\ UNCHANGED env
          /\ disk' = [disk EXCEPT !.intent = Arena!NextAttempt]
          /\ mem' = [mem EXCEPT !.pc = "launch", !.att = Arena!NextAttempt]
    <3>1. Arena!TypeOK'
      <4>1. Arena!NextAttempt \in Arena!Attempts
        BY <1>0, <2>3
      <4> QED
        BY <1>0, <2>3, <4>1 DEF ArenaInv, Arena!TypeOK, Arena!Control
    <3>2. ArenaAttempts'
      BY <1>0, <2>3 DEF ArenaInv, ArenaAttempts
    <3>3. ArenaPlayed'
      BY <1>0, <2>3 DEF ArenaInv, ArenaPlayed
    <3>4. ArenaDead'
      BY <1>0, <2>3 DEF ArenaDead, Arena!Alive
    <3> QED
      BY <3>1, <3>2, <3>3, <3>4 DEF ArenaInv
  <2> QED
    BY <1>6, <2>1, <2>2, <2>3 DEF Arena!Supervise
<1>7. CASE Arena!Launch
  BY <1>0, <1>7 DEF Arena!Launch, ArenaInv, ArenaAttempts, ArenaPlayed, ArenaDead, Arena!Idle,
     Arena!Alive, Arena!Goto, Arena!Fails, Arena!Returns, Arena!Stored, Arena!Committed,
     Arena!Succeeded, Arena!NextAttempt, Arena!Larger, Arena!EvaluationAssumption,
     Arena!Attempts, Arena!TypeOK, Arena!Control, Arena!ChildStates
<1>8. CASE Arena!SeeGone
  <2>1. CASE /\ mem.pc = "monitor" /\ ~Arena!Alive /\ Arena!Succeeded
          /\ disk' = [disk EXCEPT !.active = 0]
          /\ Arena!Goto("retire") /\ UNCHANGED env
    <3>1. Arena!TypeOK'
      BY <1>0, <2>1 DEF ArenaInv, Arena!Goto, Arena!TypeOK, Arena!Control
    <3>2. ArenaAttempts'
      BY <1>0, <2>1 DEF ArenaInv, ArenaAttempts, Arena!Goto
    <3>3. ArenaPlayed'
      BY <1>0, <2>1 DEF ArenaInv, ArenaPlayed, Arena!Succeeded
    <3>4. ArenaDead'
      BY <1>0, <2>1 DEF ArenaInv, ArenaDead, Arena!Alive
    <3> QED
      BY <3>1, <3>2, <3>3, <3>4 DEF ArenaInv
  <2>2. CASE /\ mem.pc = "monitor" /\ ~Arena!Alive /\ mem.att < MaxAttempts /\ UNCHANGED env
          /\ disk' = [disk EXCEPT !.active = 0, !.intent = mem.att + 1]
          /\ mem' = [mem EXCEPT !.pc = "launch", !.att = mem.att + 1]
    <3>1. Arena!TypeOK'
      BY <1>0, <2>2 DEF ArenaInv, ArenaAttempts, Arena!Idle, Arena!Alive, Arena!Goto,
         Arena!Fails, Arena!Returns, Arena!Stored, Arena!Committed, Arena!Succeeded,
         Arena!TypeOK, Arena!Control, Arena!ChildStates
    <3>2. ArenaAttempts'
      BY <1>0, <2>2 DEF ArenaInv, ArenaAttempts
    <3>3. ArenaPlayed'
      BY <1>0, <2>2 DEF ArenaInv, ArenaPlayed
    <3>4. ArenaDead'
      BY <1>0, <2>2 DEF ArenaInv, ArenaDead, Arena!Alive
    <3> QED
      BY <3>1, <3>2, <3>3, <3>4 DEF ArenaInv
  <2>3. CASE /\ mem.pc = "monitor" /\ ~Arena!Alive
          /\ disk' = [disk EXCEPT !.active = 0, !.stop = TRUE] /\ Arena!Fails
    <3>1. Arena!TypeOK'
      BY <1>0, <2>3 DEF ArenaInv, ArenaAttempts, Arena!Idle, Arena!Alive, Arena!Goto,
         Arena!Fails, Arena!Returns, Arena!Stored, Arena!Committed, Arena!Succeeded,
         Arena!TypeOK, Arena!Control, Arena!ChildStates
    <3>2. ArenaAttempts'
      BY <1>0, <2>3 DEF ArenaAttempts, Arena!Idle, Arena!Fails
    <3>3. ArenaPlayed'
      BY <1>0, <2>3 DEF ArenaInv, ArenaPlayed, Arena!Idle, Arena!Fails
    <3>4. ArenaDead'
      BY <1>0, <2>3 DEF ArenaDead, Arena!Idle, Arena!Alive, Arena!Fails
    <3> QED
      BY <3>1, <3>2, <3>3, <3>4 DEF ArenaInv
  <2> QED
    BY <1>8, <2>1, <2>2, <2>3 DEF Arena!SeeGone
<1>9. CASE Arena!Retire
  BY <1>0, <1>9 DEF Arena!Retire, ArenaInv, ArenaAttempts, ArenaPlayed, ArenaDead, Arena!Alive,
     Arena!Goto, Arena!TypeOK, Arena!Control
<1>10. CASE Arena!ReadResult
  <2>1. Arena!TypeOK'
    BY <1>0, <1>10 DEF ArenaInv, ArenaAttempts, Arena!Idle, Arena!Alive, Arena!Goto,
       Arena!Fails, Arena!Returns, Arena!Stored, Arena!Committed, Arena!Succeeded,
       Arena!TypeOK, Arena!Control, Arena!ChildStates, Arena!ReadResult
  <2>2. ArenaAttempts'
    BY <1>0, <1>10 DEF ArenaInv, ArenaAttempts, Arena!Idle, Arena!Returns, Arena!ReadResult
  <2>3. ArenaPlayed'
    BY <1>0, <1>10 DEF ArenaInv, ArenaPlayed, Arena!Returns, Arena!ReadResult
  <2>4. ArenaDead'
    BY <1>0, <1>10 DEF ArenaInv, ArenaDead, Arena!Idle, Arena!Alive, Arena!Returns, Arena!ReadResult
  <2> QED
    BY <2>1, <2>2, <2>3, <2>4 DEF ArenaInv
<1>11. CASE Arena!ChildClear
  BY <1>0, <1>11 DEF Arena!ChildClear, ArenaInv, ArenaAttempts, ArenaPlayed, ArenaDead,
     Arena!Alive, Arena!TypeOK, Arena!ChildStates
<1>12. CASE Arena!ChildPlay
  <2>1. CASE env.child = "play" /\ env' = [env EXCEPT !.child = "dead"] /\ UNCHANGED <<disk, mem>>
    <3>1. Arena!TypeOK'
      BY <1>0, <2>1 DEF ArenaInv, Arena!TypeOK, Arena!ChildStates
    <3>2. ArenaAttempts'
      BY <1>0, <2>1 DEF ArenaInv, ArenaAttempts
    <3>3. ArenaPlayed'
      BY <1>0, <2>1 DEF ArenaInv, ArenaPlayed
    <3>4. ArenaDead'
      BY <1>0, <2>1 DEF ArenaInv, ArenaDead, Arena!Alive
    <3> QED
      BY <3>1, <3>2, <3>3, <3>4 DEF ArenaInv
  <2>2. CASE /\ env.child = "play" /\ UNCHANGED mem
          /\ disk' = [disk EXCEPT !.products = @ \cup {"summary", "manifest"}]
          /\ env' = [env EXCEPT !.child = "publish", !.played = @ \cup {env.attempt}]
    <3>1. Arena!TypeOK'
      BY <1>0, <2>2 DEF ArenaInv, ArenaAttempts, Arena!Idle, Arena!Alive, Arena!Goto,
         Arena!Fails, Arena!Returns, Arena!Stored, Arena!Committed, Arena!Succeeded,
         Arena!TypeOK, Arena!Control, Arena!ChildStates
    <3>2. ArenaAttempts'
      BY <1>0, <2>2 DEF ArenaInv, ArenaAttempts
    <3>3. ArenaPlayed'
      BY <1>0, <2>2 DEF ArenaPlayed
    <3>4. ArenaDead'
      BY <1>0, <2>2 DEF ArenaInv, ArenaDead, Arena!Alive
    <3> QED
      BY <3>1, <3>2, <3>3, <3>4 DEF ArenaInv
  <2> QED
    BY <1>12, <2>1, <2>2 DEF Arena!ChildPlay
<1>13. CASE Arena!ChildPublish
  BY <1>0, <1>13 DEF Arena!ChildPublish, ArenaInv, ArenaAttempts, ArenaPlayed, ArenaDead,
     Arena!Alive, Arena!Committed, Arena!TypeOK, Arena!ChildStates
<1>14. CASE Arena!ChildMark
  BY <1>0, <1>14 DEF Arena!ChildMark, ArenaInv, ArenaAttempts, ArenaPlayed, ArenaDead,
     Arena!Alive, Arena!TypeOK, Arena!ChildStates
<1>15. CASE Arena!ChildExit
  BY <1>0, <1>15 DEF Arena!ChildExit, ArenaInv, ArenaAttempts, ArenaPlayed, ArenaDead,
     Arena!Alive, Arena!TypeOK, Arena!ChildStates
<1>16. CASE Arena!ChildDies
  <2>1. Arena!TypeOK'
    BY ZenonT(60), <1>0, <1>16 DEF ArenaInv, ArenaAttempts, Arena!Idle, Arena!Alive,
       Arena!Goto, Arena!Fails, Arena!Returns, Arena!Stored, Arena!Committed, Arena!Succeeded,
       Arena!TypeOK, Arena!Control, Arena!ChildStates, Arena!ChildDies
  <2>2. ArenaAttempts'
    BY <1>0, <1>16 DEF ArenaInv, ArenaAttempts, Arena!ChildDies
  <2>3. ArenaPlayed'
    BY <1>0, <1>16 DEF ArenaInv, ArenaPlayed, Arena!ChildDies
  <2>4. ArenaDead'
    BY <1>0, <1>16 DEF ArenaInv, ArenaDead, Arena!ChildDies
  <2> QED
    BY <2>1, <2>2, <2>3, <2>4 DEF ArenaInv
<1>17. CASE Arena!CoordinatorDies
  BY <1>0, <1>17 DEF Arena!CoordinatorDies, ArenaInv, ArenaAttempts, ArenaPlayed, ArenaDead,
     Arena!Idle, Arena!Alive, Arena!TypeOK, Arena!Control
<1>18. CASE Arena!Acknowledge
  <2>1. Arena!TypeOK'
    BY <1>0, <1>18 DEF ArenaInv, ArenaAttempts, Arena!Idle, Arena!Alive, Arena!Goto,
       Arena!Fails, Arena!Returns, Arena!Stored, Arena!Committed, Arena!Succeeded,
       Arena!TypeOK, Arena!Control, Arena!ChildStates, Arena!Acknowledge
  <2>2. ArenaAttempts'
    BY <1>0, <1>18 DEF ArenaInv, ArenaAttempts, Arena!Acknowledge
  <2>3. ArenaPlayed'
    BY <1>0, <1>18 DEF ArenaInv, ArenaPlayed, Arena!Acknowledge
  <2>4. ArenaDead'
    BY <1>0, <1>18 DEF ArenaInv, ArenaDead, Arena!Alive, Arena!Acknowledge
  <2> QED
    BY <2>1, <2>2, <2>3, <2>4 DEF ArenaInv
<1>19. CASE UNCHANGED Arena!vars
  BY <1>19 DEF Arena!vars, ArenaInv, ArenaAttempts, ArenaPlayed, ArenaDead, Arena!Alive,
     Arena!TypeOK
<1> QED
  BY <1>1, <1>2, <1>3, <1>4, <1>5, <1>6, <1>7, <1>8, <1>9, <1>10, <1>11, <1>12, <1>13, <1>14,
     <1>15, <1>16, <1>17, <1>18, <1>19 DEF Arena!Next, Arena!Coordinator, Arena!Child

LEMMA ArenaInvariance == ASSUME Arena!EvaluationAssumption PROVE Arena!Spec => []ArenaInv
<1>1. Arena!Init => ArenaInv
  BY ArenaInitHolds
<1>2. ArenaInv /\ [Arena!Next]_(Arena!vars) => ArenaInv'
  BY ArenaStepKeeps
<1> QED
  BY <1>1, <1>2, PTL DEF Arena!Spec

\* Whatever dies and whoever asks again, what an evaluation stores, marks or
\* reports as completed was played, under every policy.
THEOREM EvaluationsArePlayed ==
  ASSUME Arena!EvaluationAssumption
  PROVE  Arena!Spec => [](Arena!EvidenceIsPlayed)
<1>1. ArenaInv => Arena!EvidenceIsPlayed
  BY DEF ArenaInv, ArenaPlayed, Arena!EvidenceIsPlayed, Arena!Stored, Arena!Committed
<1> QED
  BY ArenaInvariance, <1>1, PTL

\* A step that takes the output away finds no child.
LEMMA ArenaClears ==
  ASSUME ArenaInv, [Arena!Next]_(Arena!vars), disk.identity, ~disk'.identity
  PROVE  ~Arena!Alive /\ disk.active = 0
<1>1. CASE Arena!Clear
  BY <1>1 DEF Arena!Clear, ArenaInv, ArenaDead
<1>2. CASE ~Arena!Clear
  <2>1. disk'.identity = disk.identity \/ disk'.identity
    BY <1>2 DEF Arena!vars, Arena!Next, Arena!Coordinator, Arena!Child, Arena!Call,
       Arena!Reclaim, Arena!Load, Arena!Identify, Arena!Supervise, Arena!Launch,
       Arena!SeeGone, Arena!Retire, Arena!ReadResult, Arena!ChildClear, Arena!ChildPlay,
       Arena!ChildPublish, Arena!ChildMark, Arena!ChildExit, Arena!ChildDies,
       Arena!CoordinatorDies, Arena!Acknowledge, ArenaInv, Arena!TypeOK
  <2> QED
    BY <2>1
<1> QED
  BY <1>1, <1>2

\* The output of an evaluation is removed only when no child writes it.
THEOREM OnlyDeadOutputIsCleared ==
  ASSUME Arena!EvaluationAssumption
  PROVE  Arena!Spec => Arena!ClearsOnlyDeadOutput
<1>1. ArenaInv /\ [Arena!Next]_(Arena!vars)
        => [disk.identity /\ ~disk'.identity => ~Arena!Alive /\ disk.active = 0]_(Arena!vars)
  BY ArenaClears
<1> QED
  BY ArenaInvariance, <1>1, PTL DEF Arena!Spec, Arena!ClearsOnlyDeadOutput

-----------------------------------------------------------------------------
(* Adaptation: one run with its decisions, its phases and its operator.    *)

AdaptReports == [id : Nat, stage : 0..LastStage, checkpoint : Nat, validation : Nat,
                 gate : Adapt!Gates]

\* The records of a run.
AdaptTyped ==
  /\ disk \in [status : {"READY", "RUNNING", "NEEDS_REVIEW", "STOPPED", "FAILED"},
               error : {"none", "code", "decision", "other"},
               stage : 0..LastStage, update : Nat, validated : Nat, bad : 0..2,
               start : Nat, champion : Nat, report : AdaptReports,
               decision : Adapt!Decisions, last : Adapt!Decisions, foreign : BOOLEAN]
  /\ mem \in [pc : {"down", "consume", "archive", "loop", "train", "validate", "arena", "finish"},
              gate : Adapt!Gates]
  /\ env \in [faults : Nat, checked : Nat, decided : SUBSET AdaptReports, skipped : BOOLEAN]

AdaptRanges ==
  /\ disk.update <= Ends[LastStage] /\ disk.validated <= Ends[LastStage]
  /\ disk.start <= Ends[LastStage] /\ disk.champion <= Ends[LastStage]
  /\ disk.stage > 0 => disk.update <= Ends[disk.stage] /\ disk.start <= Ends[disk.stage]
  /\ disk.stage = 0 => disk.update = 0 /\ disk.start = 0

\* Where a phase may be, given the state of the run.
AdaptPlaces ==
  /\ mem.pc \in {"train", "validate", "arena", "finish"} => disk.status = "RUNNING"
  /\ mem.pc \in {"train", "validate", "arena", "finish", "archive", "loop"} => disk.stage > 0
  /\ disk.foreign => mem.pc = "down" /\ disk.status = "READY" /\ disk.error = "none"
  /\ disk.error # "none" => disk.status = "FAILED" /\ mem.pc = "down"
  /\ disk.bad = 2 => disk.foreign \/ disk.error = "other"
  /\ mem.pc = "archive" => disk.decision = disk.last /\ disk.last.action # "none"

\* A decision to continue that was not consumed is for the report under review,
\* which is of the present stage and checkpoint.
AdaptDecisions ==
  /\ env.checked <= disk.report.id /\ disk.decision.report <= disk.report.id
  /\ disk.last.report <= disk.report.id
  /\ disk.last.action = "continue" => disk.stage > 0
  /\ mem.pc = "consume" => disk.decision.action = "continue"
  /\ disk.decision.action = "none" => disk.decision = Adapt!None
  /\ disk.decision.action = "continue" /\ disk.decision # disk.last =>
       /\ disk.decision.report = disk.report.id /\ disk.status = "NEEDS_REVIEW"
       /\ disk.report \in env.decided /\ Adapt!Admitted(disk.report)
  /\ disk.status = "NEEDS_REVIEW" =>
       disk.report.stage = disk.stage /\ disk.report.checkpoint = disk.update

\* Between two blocks the last validation is of the checkpoint.
AdaptValidations ==
  /\ ~env.skipped /\ ~disk.foreign /\ mem.pc # "validate" /\ disk.update % Saves = 0 =>
       disk.validated = disk.update
  /\ mem.pc \in {"arena", "finish"} => disk.update % Saves = 0

AdaptInv ==
  /\ AdaptTyped /\ AdaptRanges /\ AdaptPlaces /\ AdaptDecisions /\ AdaptValidations
  /\ Adapt!AdaptationIsSound


\* The ends of the stages.
LEMMA AdaptNumbers ==
  ASSUME Adapt!AdaptationAssumption
  PROVE  /\ LastStage \in Nat \ {0} /\ Ends[LastStage] \in Nat
         /\ \A s \in 1..LastStage :
              Ends[s] \in Nat /\ Ends[s] <= Ends[LastStage] /\ Ends[s] % Saves = 0
         /\ \A s, r \in 1..LastStage : r < s => Ends[r] < Ends[s]
<1>1. /\ LastStage \in Nat \ {0} /\ Ends \in [1..LastStage -> Nat]
      /\ \A s \in 1..LastStage : Ends[s] % Saves = 0 /\ \A r \in 1..s-1 : Ends[r] < Ends[s]
  BY DEF Adapt!AdaptationAssumption
<1>2. \A s, r \in 1..LastStage : r < s => Ends[r] < Ends[s]
  <2> SUFFICES ASSUME NEW s \in 1..LastStage, NEW r \in 1..LastStage, r < s PROVE Ends[r] < Ends[s]
    OBVIOUS
  <2>1. r \in 1..s-1
    BY <1>1
  <2> QED
    BY <1>1, <2>1
<1>3. ASSUME NEW s \in 1..LastStage PROVE Ends[s] <= Ends[LastStage]
  <2>1. s = LastStage \/ s < LastStage
    BY <1>1
  <2>2. LastStage \in 1..LastStage /\ Ends[s] \in Nat /\ Ends[LastStage] \in Nat
    BY <1>1
  <2> QED
    BY <1>1, <1>2, <2>1, <2>2
<1> QED
  BY <1>1, <1>2, <1>3

LEMMA AdaptInitHolds == ASSUME Adapt!AdaptationAssumption, Adapt!AdaptationInit PROVE AdaptInv
BY AdaptNumbers DEF Adapt!AdaptationInit, AdaptInv, AdaptTyped, AdaptReports, Adapt!Decisions,
   Adapt!Gates, AdaptRanges, AdaptPlaces, AdaptDecisions, AdaptValidations, Adapt!None,
   Adapt!Down, Adapt!AdaptationIsSound, Adapt!StagesAreReviewed, Adapt!StopsAreReviewed,
   Adapt!ReportsAreOwn, Adapt!DecisionsDoNotFail


\* Every step keeps the invariant.
LEMMA AdaptStepKeeps ==
  ASSUME Adapt!AdaptationAssumption, AdaptInv, [Adapt!AdaptationNext]_(Adapt!adaptVars)
  PROVE  AdaptInv'
<1>0. /\ LastStage \in Nat \ {0} /\ Ends[LastStage] \in Nat
      /\ \A s \in 1..LastStage :
           Ends[s] \in Nat /\ Ends[s] <= Ends[LastStage] /\ Ends[s] % Saves = 0
      /\ \A s, r \in 1..LastStage : r < s => Ends[r] < Ends[s]
  BY AdaptNumbers
<1>00. Adapt!None \in Adapt!Decisions /\ "PASS" \in Adapt!Gates
  BY DEF Adapt!None, Adapt!Decisions, Adapt!Gates
<1>000. /\ disk.update \in Nat /\ env.faults + 1 \in Nat /\ 2 \in 0..2 /\ \A b \in 0..1 : b \in 0..2
        /\ disk.stage < LastStage => disk.stage + 1 \in 0..LastStage
  BY <1>0 DEF AdaptInv, AdaptTyped
<1> USE DEF AdaptInv, Adapt!AdaptationIsSound
<1>1. CASE Adapt!LaunchNext
  <2>1. AdaptTyped'
    BY <1>0, <1>1 DEF Adapt!LaunchNext, AdaptTyped, AdaptReports, Adapt!Decisions, Adapt!Goes
  <2>2. AdaptRanges'
    BY <1>0, <1>1 DEF Adapt!LaunchNext, AdaptTyped, AdaptRanges
  <2>3. AdaptPlaces'
    BY <1>0, <1>1 DEF Adapt!LaunchNext, AdaptTyped, AdaptPlaces, Adapt!Goes
  <2>4. AdaptDecisions'
    BY <1>0, <1>1 DEF Adapt!LaunchNext, AdaptTyped, AdaptReports, AdaptDecisions, Adapt!Admitted
  <2>5. AdaptValidations'
    BY <1>0, <1>1 DEF Adapt!LaunchNext, AdaptTyped, AdaptValidations, Adapt!Goes
  <2>6. Adapt!StagesAreReviewed'
    BY <1>0, <1>1 DEF Adapt!LaunchNext, AdaptTyped, Adapt!StagesAreReviewed
  <2>7. Adapt!StopsAreReviewed'
    BY <1>0, <1>1 DEF Adapt!LaunchNext, AdaptTyped, Adapt!StopsAreReviewed
  <2>8. Adapt!ReportsAreOwn'
    BY <1>0, <1>1 DEF Adapt!LaunchNext, AdaptTyped, Adapt!ReportsAreOwn
  <2>9. Adapt!DecisionsDoNotFail'
    BY <1>0, <1>1 DEF Adapt!LaunchNext, AdaptTyped, AdaptPlaces, Adapt!DecisionsDoNotFail
  <2> QED
    BY <2>1, <2>2, <2>3, <2>4, <2>5, <2>6, <2>7, <2>8, <2>9
<1>2. CASE Adapt!LaunchSame
  <2>1. AdaptTyped'
    BY <1>0, <1>2 DEF Adapt!LaunchSame, AdaptTyped, Adapt!Goes
  <2>2. AdaptRanges'
    BY <1>0, <1>2 DEF Adapt!LaunchSame, AdaptRanges
  <2>3. AdaptPlaces'
    BY <1>0, <1>2 DEF Adapt!LaunchSame, AdaptPlaces, Adapt!Goes
  <2>4. AdaptDecisions'
    BY <1>0, <1>2 DEF Adapt!LaunchSame, AdaptDecisions, Adapt!Admitted, Adapt!Goes
  <2>5. AdaptValidations'
    BY <1>0, <1>2 DEF Adapt!LaunchSame, AdaptValidations, Adapt!Goes
  <2>6. Adapt!StagesAreReviewed'
    BY <1>0, <1>2 DEF Adapt!LaunchSame, Adapt!StagesAreReviewed
  <2>7. Adapt!StopsAreReviewed'
    BY <1>0, <1>2 DEF Adapt!LaunchSame, Adapt!StopsAreReviewed
  <2>8. Adapt!ReportsAreOwn'
    BY <1>0, <1>2 DEF Adapt!LaunchSame, Adapt!ReportsAreOwn
  <2>9. Adapt!DecisionsDoNotFail'
    BY <1>0, <1>2 DEF Adapt!LaunchSame, Adapt!DecisionsDoNotFail, Adapt!Stale
  <2> QED
    BY <2>1, <2>2, <2>3, <2>4, <2>5, <2>6, <2>7, <2>8, <2>9
<1>3. CASE Adapt!Consume
  <2>1. CASE /\ disk.decision = disk.last /\ disk.decision # Adapt!None
            /\ mem.pc \in {"consume", "loop"} /\ UNCHANGED env
            /\ disk' = [disk EXCEPT !.decision = Adapt!None] /\ mem' = [mem EXCEPT !.pc = "loop"]
    <3>1. AdaptTyped'
      BY <1>000, <1>00, <2>1 DEF AdaptTyped, AdaptPlaces, Adapt!Admitted, Adapt!Down
    <3>2. AdaptRanges'
      BY <1>0, <2>1 DEF AdaptRanges
    <3>3. AdaptPlaces'
      BY <1>0, <2>1 DEF AdaptPlaces, AdaptDecisions
    <3>4. AdaptDecisions'
      BY <1>0, <2>1 DEF AdaptTyped, AdaptReports, AdaptDecisions, Adapt!None
    <3>5. AdaptValidations'
      BY <1>0, <2>1 DEF AdaptValidations
    <3>6. Adapt!StagesAreReviewed'
      BY <1>0, <2>1 DEF Adapt!StagesAreReviewed
    <3>7. Adapt!StopsAreReviewed'
      BY <1>0, <2>1 DEF Adapt!StopsAreReviewed
    <3>8. Adapt!ReportsAreOwn'
      BY <1>0, <2>1 DEF Adapt!ReportsAreOwn
    <3>9. Adapt!DecisionsDoNotFail'
      BY <1>0, <2>1 DEF AdaptPlaces, Adapt!DecisionsDoNotFail
    <3> QED
      BY <3>1, <3>2, <3>3, <3>4, <3>5, <3>6, <3>7, <3>8, <3>9
  <2>2. CASE /\ disk.decision # disk.last /\ ~Adapt!Stale(disk.decision) /\ UNCHANGED env
            /\ mem.pc = "loop" /\ disk.decision.action = "stop" /\ disk.status = "NEEDS_REVIEW"
            /\ disk' = [disk EXCEPT !.status = "STOPPED", !.last = disk.decision]
            /\ mem' = [mem EXCEPT !.pc = "archive"]
    <3>1. AdaptTyped'
      BY <1>000, <1>00, <2>2 DEF AdaptTyped, AdaptPlaces, Adapt!Admitted, Adapt!Down
    <3>2. AdaptRanges'
      BY <1>0, <2>2 DEF AdaptRanges
    <3>3. AdaptPlaces'
      BY <1>0, <2>2 DEF AdaptPlaces
    <3>4. AdaptDecisions'
      BY <1>0, <2>2 DEF AdaptDecisions
    <3>5. AdaptValidations'
      BY <1>0, <2>2 DEF AdaptValidations
    <3>6. Adapt!StagesAreReviewed'
      BY <1>0, <2>2 DEF Adapt!StagesAreReviewed
    <3>7. Adapt!StopsAreReviewed'
      BY <1>0, <2>2 DEF Adapt!StopsAreReviewed, Adapt!Stale
    <3>8. Adapt!ReportsAreOwn'
      BY <1>0, <2>2 DEF Adapt!ReportsAreOwn
    <3>9. Adapt!DecisionsDoNotFail'
      BY <1>0, <2>2 DEF Adapt!DecisionsDoNotFail
    <3> QED
      BY <3>1, <3>2, <3>3, <3>4, <3>5, <3>6, <3>7, <3>8, <3>9
  <2>3. CASE /\ disk.decision # disk.last /\ ~Adapt!Stale(disk.decision) /\ UNCHANGED env
            /\ mem.pc \in {"consume", "loop"} /\ disk.decision.action = "continue"
            /\ Adapt!Admitted(disk.report)
            /\ disk' = [disk EXCEPT !.stage = @ + 1, !.status = "READY", !.champion = disk.update,
                                    !.start = disk.update, !.last = disk.decision]
            /\ mem' = [mem EXCEPT !.pc = "archive"]
    <3>1. AdaptTyped'
      BY <1>000, <1>00, <2>3 DEF AdaptTyped, AdaptPlaces, Adapt!Admitted, Adapt!Down
    <3>2. AdaptRanges'
      BY <1>0, <2>3 DEF AdaptTyped, AdaptRanges, Adapt!Admitted
    <3>3. AdaptPlaces'
      BY <1>0, <2>3 DEF AdaptTyped, AdaptPlaces
    <3>4. AdaptDecisions'
      BY <1>0, <2>3 DEF AdaptTyped, AdaptDecisions
    <3>5. AdaptValidations'
      BY <1>0, <2>3 DEF AdaptValidations
    <3>6. Adapt!StagesAreReviewed'
      BY <1>0, <2>3 DEF AdaptTyped, AdaptDecisions, Adapt!StagesAreReviewed, Adapt!Admitted
    <3>7. Adapt!StopsAreReviewed'
      BY <1>0, <2>3 DEF Adapt!StopsAreReviewed
    <3>8. Adapt!ReportsAreOwn'
      BY <1>0, <2>3 DEF Adapt!ReportsAreOwn
    <3>9. Adapt!DecisionsDoNotFail'
      BY <1>0, <2>3 DEF Adapt!DecisionsDoNotFail
    <3> QED
      BY <3>1, <3>2, <3>3, <3>4, <3>5, <3>6, <3>7, <3>8, <3>9
  <2>4. CASE /\ mem.pc = "loop" /\ disk.decision # disk.last /\ Adapt!Stale(disk.decision)
            /\ disk.decision.action = "stop" /\ UNCHANGED env
            /\ disk' = [disk EXCEPT !.status = "FAILED", !.error = "decision"] /\ mem' = Adapt!Down
    <3>1. AdaptTyped'
      BY <1>000, <1>00, <2>4 DEF AdaptTyped, AdaptPlaces, Adapt!Admitted, Adapt!Down
    <3>2. AdaptRanges'
      BY <1>0, <2>4 DEF AdaptRanges
    <3>3. AdaptPlaces'
      BY <1>0, <2>4 DEF AdaptPlaces, Adapt!Down
    <3>4. AdaptDecisions'
      BY <1>0, <2>4 DEF AdaptDecisions, Adapt!Down
    <3>5. AdaptValidations'
      BY <1>0, <2>4 DEF AdaptValidations, Adapt!Down
    <3>6. Adapt!StagesAreReviewed'
      BY <1>0, <2>4 DEF Adapt!StagesAreReviewed
    <3>7. Adapt!StopsAreReviewed'
      BY <1>0, <2>4 DEF Adapt!StopsAreReviewed
    <3>8. Adapt!ReportsAreOwn'
      BY <1>0, <2>4 DEF Adapt!ReportsAreOwn
    <3>9. Adapt!DecisionsDoNotFail'
      BY <1>0, <2>4 DEF Adapt!DecisionsDoNotFail, Adapt!Stale
    <3> QED
      BY <3>1, <3>2, <3>3, <3>4, <3>5, <3>6, <3>7, <3>8, <3>9
  <2>5. /\ disk.decision.action \in {"none", "continue", "stop"}
        /\ disk.decision # Adapt!None => disk.decision.action # "none"
        /\ mem.pc = "consume" => disk.decision.action = "continue"
        /\ disk.decision.action = "continue" => disk.decision # Adapt!None
    BY DEF AdaptTyped, AdaptDecisions, Adapt!Decisions, Adapt!None
  <2>6. CASE disk.decision = disk.last
    BY <1>3, <2>1, <2>5, <2>6 DEF Adapt!Consume, Adapt!Goes
  <2>7. CASE disk.decision # disk.last /\ ~Adapt!Stale(disk.decision)
    <3>1. disk.decision.action = "continue" => Adapt!Admitted(disk.report)
      BY <2>7 DEF AdaptDecisions
    <3> QED
      BY <1>3, <2>2, <2>3, <2>5, <2>7, <3>1 DEF Adapt!Consume, Adapt!Applied, Adapt!Goes
  <2>8. CASE disk.decision # disk.last /\ Adapt!Stale(disk.decision)
    <3>1. disk.decision.action # "continue"
      BY <2>8 DEF AdaptDecisions, Adapt!Stale
    <3> QED
      BY <1>3, <2>4, <2>5, <2>8, <3>1 DEF Adapt!Consume, Adapt!Fail
  <2> QED
    BY <2>6, <2>7, <2>8
<1>4. CASE Adapt!Archive
  <2>1. AdaptTyped'
    BY <1>0, <1>4 DEF Adapt!Archive, AdaptTyped, Adapt!Decisions, Adapt!Goes, Adapt!None
  <2>2. AdaptRanges'
    BY <1>0, <1>4 DEF Adapt!Archive, AdaptRanges
  <2>3. AdaptPlaces'
    BY <1>0, <1>4 DEF Adapt!Archive, AdaptPlaces, Adapt!Goes
  <2>4. AdaptDecisions'
    BY <1>0, <1>4 DEF Adapt!Archive, AdaptTyped, AdaptReports, AdaptDecisions, Adapt!Goes,
       Adapt!None
  <2>5. AdaptValidations'
    BY <1>0, <1>4 DEF Adapt!Archive, AdaptValidations, Adapt!Goes
  <2>6. Adapt!StagesAreReviewed'
    BY <1>0, <1>4 DEF Adapt!Archive, Adapt!StagesAreReviewed
  <2>7. Adapt!StopsAreReviewed'
    BY <1>0, <1>4 DEF Adapt!Archive, Adapt!StopsAreReviewed
  <2>8. Adapt!ReportsAreOwn'
    BY <1>0, <1>4 DEF Adapt!Archive, Adapt!ReportsAreOwn
  <2>9. Adapt!DecisionsDoNotFail'
    BY <1>0, <1>4 DEF Adapt!Archive, AdaptPlaces, Adapt!DecisionsDoNotFail
  <2> QED
    BY <2>1, <2>2, <2>3, <2>4, <2>5, <2>6, <2>7, <2>8, <2>9
<1>5. CASE Adapt!Return
  <2>1. AdaptTyped'
    BY <1>0, <1>5 DEF Adapt!Return, AdaptTyped, Adapt!Gates, Adapt!Down
  <2>2. AdaptRanges'
    BY <1>0, <1>5 DEF Adapt!Return, AdaptRanges
  <2>3. AdaptPlaces'
    BY <1>0, <1>5 DEF Adapt!Return, AdaptPlaces, Adapt!Down
  <2>4. AdaptDecisions'
    BY <1>0, <1>5 DEF Adapt!Return, AdaptDecisions, Adapt!None, Adapt!Down
  <2>5. AdaptValidations'
    BY <1>0, <1>5 DEF Adapt!Return, AdaptValidations, Adapt!Down
  <2>6. Adapt!StagesAreReviewed'
    BY <1>0, <1>5 DEF Adapt!Return, Adapt!StagesAreReviewed
  <2>7. Adapt!StopsAreReviewed'
    BY <1>0, <1>5 DEF Adapt!Return, Adapt!StopsAreReviewed
  <2>8. Adapt!ReportsAreOwn'
    BY <1>0, <1>5 DEF Adapt!Return, Adapt!ReportsAreOwn
  <2>9. Adapt!DecisionsDoNotFail'
    BY <1>0, <1>5 DEF Adapt!Return, Adapt!DecisionsDoNotFail, Adapt!Stale
  <2> QED
    BY <2>1, <2>2, <2>3, <2>4, <2>5, <2>6, <2>7, <2>8, <2>9
<1>6. CASE Adapt!Resume
  <2>1. AdaptTyped'
    BY <1>0, <1>6 DEF Adapt!Resume, AdaptTyped, AdaptReports, Adapt!Decisions, Adapt!Gates,
       AdaptPlaces, Adapt!Goes, Adapt!Fail, Adapt!Applied, Adapt!Stale, Adapt!Admitted,
       Adapt!None, Adapt!Down
  <2>2. AdaptRanges'
    BY <1>0, <1>6 DEF Adapt!Resume, AdaptRanges
  <2>3. AdaptPlaces'
    BY <1>0, <1>6 DEF Adapt!Resume, AdaptPlaces, Adapt!Goes
  <2>4. AdaptDecisions'
    BY <1>0, <1>6 DEF Adapt!Resume, AdaptTyped, AdaptReports, AdaptDecisions, Adapt!Goes, Adapt!None
  <2>5. AdaptValidations'
    BY <1>0, <1>6 DEF Adapt!Resume, AdaptValidations, Adapt!Goes
  <2>6. Adapt!StagesAreReviewed'
    BY <1>0, <1>6 DEF Adapt!Resume, Adapt!StagesAreReviewed
  <2>7. Adapt!StopsAreReviewed'
    BY <1>0, <1>6 DEF Adapt!Resume, Adapt!StopsAreReviewed
  <2>8. Adapt!ReportsAreOwn'
    BY <1>0, <1>6 DEF Adapt!Resume, Adapt!ReportsAreOwn
  <2>9. Adapt!DecisionsDoNotFail'
    BY <1>0, <1>6 DEF Adapt!Resume, AdaptPlaces, Adapt!DecisionsDoNotFail
  <2> QED
    BY <2>1, <2>2, <2>3, <2>4, <2>5, <2>6, <2>7, <2>8, <2>9
<1>7. CASE Adapt!Train
  <2>1. AdaptTyped'
    BY <1>0, <1>7 DEF Adapt!Train, AdaptTyped, Adapt!Goes
  <2>2. AdaptRanges'
    BY <1>0, <1>7 DEF Adapt!Train, AdaptTyped, AdaptRanges, AdaptPlaces
  <2>3. AdaptPlaces'
    BY <1>0, <1>7 DEF Adapt!Train, AdaptPlaces, Adapt!Goes
  <2>4. AdaptDecisions'
    BY <1>0, <1>7 DEF Adapt!Train, AdaptPlaces, AdaptDecisions, Adapt!Goes
  <2>5. AdaptValidations'
    BY <1>0, <1>7 DEF Adapt!Train, AdaptValidations, Adapt!Goes
  <2>6. Adapt!StagesAreReviewed'
    BY <1>0, <1>7 DEF Adapt!Train, Adapt!StagesAreReviewed
  <2>7. Adapt!StopsAreReviewed'
    BY <1>0, <1>7 DEF Adapt!Train, Adapt!StopsAreReviewed
  <2>8. Adapt!ReportsAreOwn'
    BY <1>0, <1>7 DEF Adapt!Train, Adapt!ReportsAreOwn
  <2>9. Adapt!DecisionsDoNotFail'
    BY <1>0, <1>7 DEF Adapt!Train, Adapt!DecisionsDoNotFail, Adapt!Stale
  <2> QED
    BY <2>1, <2>2, <2>3, <2>4, <2>5, <2>6, <2>7, <2>8, <2>9
<1>8. CASE Adapt!Validate
  <2>1. CASE /\ mem.pc = "validate" /\ UNCHANGED env /\ mem' = Adapt!Down
            /\ disk' = [disk EXCEPT !.validated = disk.update, !.bad = 2, !.status = "FAILED",
                                    !.error = "other"]
    <3>1. AdaptTyped'
      BY <1>000, <1>00, <2>1 DEF AdaptTyped, AdaptPlaces, Adapt!Admitted, Adapt!Down
    <3>2. AdaptRanges'
      BY <1>0, <2>1 DEF AdaptRanges
    <3>3. AdaptPlaces'
      BY <1>0, <2>1 DEF AdaptPlaces, Adapt!Down
    <3>4. AdaptDecisions'
      BY <1>0, <2>1 DEF AdaptPlaces, AdaptDecisions, Adapt!Down
    <3>5. AdaptValidations'
      BY <1>0, <2>1 DEF AdaptValidations, Adapt!Down
    <3>6. Adapt!StagesAreReviewed'
      BY <1>0, <2>1 DEF Adapt!StagesAreReviewed
    <3>7. Adapt!StopsAreReviewed'
      BY <1>0, <2>1 DEF Adapt!StopsAreReviewed
    <3>8. Adapt!ReportsAreOwn'
      BY <1>0, <2>1 DEF Adapt!ReportsAreOwn
    <3>9. Adapt!DecisionsDoNotFail'
      BY <1>0, <2>1 DEF Adapt!DecisionsDoNotFail
    <3> QED
      BY <3>1, <3>2, <3>3, <3>4, <3>5, <3>6, <3>7, <3>8, <3>9
  <2>2. CASE /\ mem.pc = "validate" /\ UNCHANGED env /\ mem' = [mem EXCEPT !.pc = "train"]
            /\ \E bad \in 0..1 : disk' = [disk EXCEPT !.validated = disk.update, !.bad = bad]
    <3>1. AdaptTyped'
      BY <1>000, <1>00, <2>2 DEF AdaptTyped, AdaptPlaces, Adapt!Admitted, Adapt!Down
    <3>2. AdaptRanges'
      BY <1>0, <2>2 DEF AdaptRanges
    <3>3. AdaptPlaces'
      BY <1>0, <2>2 DEF AdaptPlaces
    <3>4. AdaptDecisions'
      BY <1>0, <2>2 DEF AdaptDecisions, Adapt!Admitted
    <3>5. AdaptValidations'
      BY <1>0, <2>2 DEF AdaptValidations
    <3>6. Adapt!StagesAreReviewed'
      BY <1>0, <2>2 DEF Adapt!StagesAreReviewed
    <3>7. Adapt!StopsAreReviewed'
      BY <1>0, <2>2 DEF Adapt!StopsAreReviewed
    <3>8. Adapt!ReportsAreOwn'
      BY <1>0, <2>2 DEF Adapt!ReportsAreOwn
    <3>9. Adapt!DecisionsDoNotFail'
      BY <1>0, <2>2 DEF Adapt!DecisionsDoNotFail, Adapt!Stale
    <3> QED
      BY <3>1, <3>2, <3>3, <3>4, <3>5, <3>6, <3>7, <3>8, <3>9
  <2>3. disk.bad + 1 \in 1..2
    BY <1>8 DEF Adapt!Validate, AdaptTyped, AdaptPlaces
  <2>4. PICK bad \in {0, disk.bad + 1} :
          LET kept == [disk EXCEPT !.validated = disk.update, !.bad = bad] IN
          IF bad >= 2
            THEN /\ disk' = [kept EXCEPT !.status = "FAILED", !.error = "other"]
                 /\ mem' = Adapt!Down
            ELSE disk' = kept /\ Adapt!Goes("train")
    BY <1>8 DEF Adapt!Validate
  <2>5. bad = 2 \/ bad \in 0..1
    BY <2>3, <2>4
  <2>6. mem.pc = "validate" /\ UNCHANGED env
    BY <1>8 DEF Adapt!Validate
  <2>7. CASE bad = 2
    <3>1. bad >= 2
      BY <2>7
    <3> QED
      BY <2>1, <2>4, <2>6, <2>7, <3>1
  <2>8. CASE bad \in 0..1
    <3>1. ~(bad >= 2)
      BY <2>8
    <3> QED
      BY <2>2, <2>4, <2>6, <2>8, <3>1 DEF Adapt!Goes
  <2> QED
    BY <2>5, <2>7, <2>8
<1>9. CASE Adapt!TrainingDone
  <2>1. AdaptTyped'
    BY <1>0, <1>9 DEF Adapt!TrainingDone, AdaptTyped, Adapt!Goes
  <2>2. AdaptRanges'
    BY <1>0, <1>9 DEF Adapt!TrainingDone, AdaptRanges
  <2>3. AdaptPlaces'
    BY <1>0, <1>9 DEF Adapt!TrainingDone, AdaptPlaces, Adapt!Goes
  <2>4. AdaptDecisions'
    BY <1>0, <1>9 DEF Adapt!TrainingDone, AdaptDecisions, Adapt!Admitted, Adapt!Goes
  <2>5. AdaptValidations'
    BY <1>0, <1>9 DEF Adapt!TrainingDone, AdaptTyped, AdaptPlaces, AdaptValidations
  <2>6. Adapt!StagesAreReviewed'
    BY <1>0, <1>9 DEF Adapt!TrainingDone, Adapt!StagesAreReviewed
  <2>7. Adapt!StopsAreReviewed'
    BY <1>0, <1>9 DEF Adapt!TrainingDone, Adapt!StopsAreReviewed
  <2>8. Adapt!ReportsAreOwn'
    BY <1>0, <1>9 DEF Adapt!TrainingDone, Adapt!ReportsAreOwn
  <2>9. Adapt!DecisionsDoNotFail'
    BY <1>0, <1>9 DEF Adapt!TrainingDone, Adapt!DecisionsDoNotFail, Adapt!Stale
  <2> QED
    BY <2>1, <2>2, <2>3, <2>4, <2>5, <2>6, <2>7, <2>8, <2>9
<1>10. CASE Adapt!Evaluate
  <2>1. CASE /\ mem.pc = "arena" /\ UNCHANGED env /\ mem' = Adapt!Down
            /\ disk' = [disk EXCEPT !.status = "FAILED", !.error = "other"]
    <3>1. AdaptTyped'
      BY <1>000, <1>00, <2>1 DEF AdaptTyped, AdaptPlaces, Adapt!Admitted, Adapt!Down
    <3>2. AdaptRanges'
      BY <1>0, <2>1 DEF AdaptRanges
    <3>3. AdaptPlaces'
      BY <1>0, <2>1 DEF AdaptPlaces, Adapt!Down
    <3>4. AdaptDecisions'
      BY <1>0, <2>1 DEF AdaptPlaces, AdaptDecisions, Adapt!Down
    <3>5. AdaptValidations'
      BY <1>0, <2>1 DEF AdaptValidations
    <3>6. Adapt!StagesAreReviewed'
      BY <1>0, <2>1 DEF Adapt!StagesAreReviewed
    <3>7. Adapt!StopsAreReviewed'
      BY <1>0, <2>1 DEF Adapt!StopsAreReviewed
    <3>8. Adapt!ReportsAreOwn'
      BY <1>0, <2>1 DEF Adapt!ReportsAreOwn
    <3>9. Adapt!DecisionsDoNotFail'
      BY <1>0, <2>1 DEF Adapt!DecisionsDoNotFail
    <3> QED
      BY <3>1, <3>2, <3>3, <3>4, <3>5, <3>6, <3>7, <3>8, <3>9
  <2>2. CASE /\ mem.pc = "arena" /\ UNCHANGED <<disk, env>>
            /\ \E gate \in Adapt!Gates : mem' = [pc |-> "finish", gate |-> gate]
    <3>1. AdaptTyped'
      BY <1>000, <1>00, <2>2 DEF AdaptTyped, AdaptPlaces, Adapt!Admitted, Adapt!Down
    <3>2. AdaptRanges'
      BY <1>0, <2>2 DEF AdaptRanges
    <3>3. AdaptPlaces'
      BY <1>0, <2>2 DEF AdaptPlaces
    <3>4. AdaptDecisions'
      BY <1>0, <2>2 DEF AdaptDecisions, Adapt!Admitted
    <3>5. AdaptValidations'
      BY <1>0, <2>2 DEF AdaptValidations
    <3>6. Adapt!StagesAreReviewed'
      BY <1>0, <2>2 DEF Adapt!StagesAreReviewed
    <3>7. Adapt!StopsAreReviewed'
      BY <1>0, <2>2 DEF Adapt!StopsAreReviewed
    <3>8. Adapt!ReportsAreOwn'
      BY <1>0, <2>2 DEF Adapt!ReportsAreOwn
    <3>9. Adapt!DecisionsDoNotFail'
      BY <1>0, <2>2 DEF Adapt!DecisionsDoNotFail, Adapt!Stale
    <3> QED
      BY <3>1, <3>2, <3>3, <3>4, <3>5, <3>6, <3>7, <3>8, <3>9
  <2> QED
    BY <1>10, <2>1, <2>2 DEF Adapt!Evaluate
<1>11. CASE Adapt!Finish
  <2>1. AdaptTyped'
    <3>1. [id |-> disk.report.id + 1, stage |-> disk.stage, checkpoint |-> disk.update,
           validation |-> disk.validated, gate |-> mem.gate] \in AdaptReports
      BY <1>0 DEF AdaptTyped, AdaptReports
    <3> QED
      BY <1>11, <3>1 DEF Adapt!Finish, Adapt!Goes, AdaptTyped
  <2>2. AdaptRanges'
    BY <1>0, <1>11 DEF Adapt!Finish, AdaptRanges
  <2>3. AdaptPlaces'
    BY <1>0, <1>11 DEF Adapt!Finish, AdaptPlaces, Adapt!Goes
  <2>4. AdaptDecisions'
    BY <1>0, <1>11 DEF Adapt!Finish, AdaptTyped, AdaptReports, Adapt!Decisions, AdaptPlaces,
       AdaptDecisions, Adapt!Goes
  <2>5. AdaptValidations'
    BY <1>0, <1>11 DEF Adapt!Finish, AdaptValidations
  <2>6. Adapt!StagesAreReviewed'
    BY <1>0, <1>11 DEF Adapt!Finish, Adapt!StagesAreReviewed
  <2>7. Adapt!StopsAreReviewed'
    BY <1>0, <1>11 DEF Adapt!Finish, Adapt!StopsAreReviewed
  <2>8. Adapt!ReportsAreOwn'
    BY <1>0, <1>11 DEF Adapt!Finish, AdaptPlaces, AdaptValidations, Adapt!ReportsAreOwn
  <2>9. Adapt!DecisionsDoNotFail'
    BY <1>0, <1>11 DEF Adapt!Finish, AdaptPlaces, Adapt!DecisionsDoNotFail
  <2> QED
    BY <2>1, <2>2, <2>3, <2>4, <2>5, <2>6, <2>7, <2>8, <2>9
<1>12. CASE Adapt!Recover
  <2>1. AdaptTyped'
    BY <1>0, <1>12 DEF Adapt!Recover, AdaptTyped, AdaptReports, Adapt!Decisions, Adapt!Gates,
       AdaptPlaces, Adapt!Goes, Adapt!Fail, Adapt!Applied, Adapt!Stale, Adapt!Admitted,
       Adapt!None, Adapt!Down
  <2>2. AdaptRanges'
    BY <1>0, <1>12 DEF Adapt!Recover, AdaptRanges
  <2>3. AdaptPlaces'
    BY <1>0, <1>12 DEF Adapt!Recover, AdaptPlaces
  <2>4. AdaptDecisions'
    BY <1>0, <1>12 DEF Adapt!Recover, AdaptDecisions
  <2>5. AdaptValidations'
    BY <1>0, <1>12 DEF Adapt!Recover, AdaptValidations
  <2>6. Adapt!StagesAreReviewed'
    BY <1>0, <1>12 DEF Adapt!Recover, Adapt!StagesAreReviewed
  <2>7. Adapt!StopsAreReviewed'
    BY <1>0, <1>12 DEF Adapt!Recover, Adapt!StopsAreReviewed
  <2>8. Adapt!ReportsAreOwn'
    BY <1>0, <1>12 DEF Adapt!Recover, Adapt!ReportsAreOwn
  <2>9. Adapt!DecisionsDoNotFail'
    BY <1>0, <1>12 DEF Adapt!Recover, Adapt!DecisionsDoNotFail
  <2> QED
    BY <2>1, <2>2, <2>3, <2>4, <2>5, <2>6, <2>7, <2>8, <2>9
<1>13. CASE Adapt!StopCheck
  <2>1. AdaptTyped'
    BY <1>0, <1>13 DEF Adapt!StopCheck, AdaptTyped, AdaptReports
  <2>2. AdaptRanges'
    BY <1>0, <1>13 DEF Adapt!StopCheck, AdaptRanges
  <2>3. AdaptPlaces'
    BY <1>0, <1>13 DEF Adapt!StopCheck, AdaptPlaces
  <2>4. AdaptDecisions'
    BY <1>0, <1>13 DEF Adapt!StopCheck, AdaptTyped, AdaptReports, AdaptDecisions, Adapt!Admitted
  <2>5. AdaptValidations'
    BY <1>0, <1>13 DEF Adapt!StopCheck, AdaptValidations
  <2>6. Adapt!StagesAreReviewed'
    BY <1>0, <1>13 DEF Adapt!StopCheck, Adapt!StagesAreReviewed
  <2>7. Adapt!StopsAreReviewed'
    BY <1>0, <1>13 DEF Adapt!StopCheck, Adapt!StopsAreReviewed
  <2>8. Adapt!ReportsAreOwn'
    BY <1>0, <1>13 DEF Adapt!StopCheck, Adapt!ReportsAreOwn
  <2>9. Adapt!DecisionsDoNotFail'
    BY <1>0, <1>13 DEF Adapt!StopCheck, Adapt!DecisionsDoNotFail, Adapt!Stale
  <2> QED
    BY <2>1, <2>2, <2>3, <2>4, <2>5, <2>6, <2>7, <2>8, <2>9
<1>14. CASE Adapt!StopWrite
  <2>1. AdaptTyped'
    BY <1>0, <1>14 DEF Adapt!StopWrite, AdaptTyped, Adapt!Decisions
  <2>2. AdaptRanges'
    BY <1>0, <1>14 DEF Adapt!StopWrite, AdaptRanges
  <2>3. AdaptPlaces'
    BY <1>0, <1>14 DEF Adapt!StopWrite, AdaptPlaces, Adapt!None
  <2>4. AdaptDecisions'
    BY <1>0, <1>14 DEF Adapt!StopWrite, AdaptTyped, AdaptReports, AdaptDecisions,
       Adapt!Admitted, Adapt!None
  <2>5. AdaptValidations'
    BY <1>0, <1>14 DEF Adapt!StopWrite, AdaptValidations
  <2>6. Adapt!StagesAreReviewed'
    BY <1>0, <1>14 DEF Adapt!StopWrite, Adapt!StagesAreReviewed
  <2>7. Adapt!StopsAreReviewed'
    BY <1>0, <1>14 DEF Adapt!StopWrite, Adapt!StopsAreReviewed
  <2>8. Adapt!ReportsAreOwn'
    BY <1>0, <1>14 DEF Adapt!StopWrite, Adapt!ReportsAreOwn
  <2>9. Adapt!DecisionsDoNotFail'
    BY <1>0, <1>14 DEF Adapt!StopWrite, Adapt!DecisionsDoNotFail, Adapt!Stale, Adapt!None
  <2> QED
    BY <2>1, <2>2, <2>3, <2>4, <2>5, <2>6, <2>7, <2>8, <2>9
<1>15. CASE Adapt!CodeChanges
  <2>1. AdaptTyped'
    BY ZenonT(60), <1>0, <1>15 DEF Adapt!CodeChanges, AdaptTyped, AdaptReports,
       Adapt!Decisions, Adapt!Gates, AdaptPlaces, Adapt!Goes, Adapt!Fail, Adapt!Applied,
       Adapt!Stale, Adapt!Admitted, Adapt!None, Adapt!Down
  <2>2. AdaptRanges'
    BY <1>0, <1>15 DEF Adapt!CodeChanges, AdaptRanges, Adapt!Fail
  <2>3. AdaptPlaces'
    BY <1>0, <1>15 DEF Adapt!CodeChanges, AdaptPlaces, Adapt!Fail, Adapt!Down
  <2>4. AdaptDecisions'
    BY <1>0, <1>15 DEF Adapt!CodeChanges, AdaptPlaces, AdaptDecisions, Adapt!Fail, Adapt!Down
  <2>5. AdaptValidations'
    BY <1>0, <1>15 DEF Adapt!CodeChanges, AdaptValidations, Adapt!Fail
  <2>6. Adapt!StagesAreReviewed'
    BY <1>0, <1>15 DEF Adapt!CodeChanges, Adapt!StagesAreReviewed, Adapt!Fail
  <2>7. Adapt!StopsAreReviewed'
    BY <1>0, <1>15 DEF Adapt!CodeChanges, Adapt!StopsAreReviewed, Adapt!Fail
  <2>8. Adapt!ReportsAreOwn'
    BY <1>0, <1>15 DEF Adapt!CodeChanges, Adapt!ReportsAreOwn, Adapt!Fail
  <2>9. Adapt!DecisionsDoNotFail'
    BY <1>0, <1>15 DEF Adapt!CodeChanges, Adapt!DecisionsDoNotFail, Adapt!Fail
  <2> QED
    BY <2>1, <2>2, <2>3, <2>4, <2>5, <2>6, <2>7, <2>8, <2>9
<1>16. CASE Adapt!ScienceFails
  <2>1. AdaptTyped'
    BY <1>0, <1>16 DEF Adapt!ScienceFails, AdaptTyped, AdaptReports, Adapt!Decisions,
       Adapt!Gates, AdaptPlaces, Adapt!Goes, Adapt!Fail, Adapt!Applied, Adapt!Stale,
       Adapt!Admitted, Adapt!None, Adapt!Down
  <2>2. AdaptRanges'
    BY <1>0, <1>16 DEF Adapt!ScienceFails, AdaptRanges, Adapt!Fail
  <2>3. AdaptPlaces'
    BY <1>0, <1>16 DEF Adapt!ScienceFails, AdaptPlaces, Adapt!Fail, Adapt!Down
  <2>4. AdaptDecisions'
    BY <1>0, <1>16 DEF Adapt!ScienceFails, AdaptPlaces, AdaptDecisions, Adapt!Fail, Adapt!Down
  <2>5. AdaptValidations'
    BY <1>0, <1>16 DEF Adapt!ScienceFails, AdaptValidations, Adapt!Fail, Adapt!Down
  <2>6. Adapt!StagesAreReviewed'
    BY <1>0, <1>16 DEF Adapt!ScienceFails, Adapt!StagesAreReviewed, Adapt!Fail
  <2>7. Adapt!StopsAreReviewed'
    BY <1>0, <1>16 DEF Adapt!ScienceFails, Adapt!StopsAreReviewed, Adapt!Fail
  <2>8. Adapt!ReportsAreOwn'
    BY <1>0, <1>16 DEF Adapt!ScienceFails, Adapt!ReportsAreOwn, Adapt!Fail
  <2>9. Adapt!DecisionsDoNotFail'
    BY <1>0, <1>16 DEF Adapt!ScienceFails, Adapt!DecisionsDoNotFail, Adapt!Fail
  <2> QED
    BY <2>1, <2>2, <2>3, <2>4, <2>5, <2>6, <2>7, <2>8, <2>9
<1>17. CASE Adapt!Crash
  <2>1. CASE mem.pc = "validate" /\ env' = [env EXCEPT !.faults = @ + 1, !.skipped = TRUE]
            /\ mem' = Adapt!Down /\ UNCHANGED disk
    <3>1. AdaptTyped'
      BY <1>000, <1>00, <2>1 DEF AdaptTyped, AdaptPlaces, Adapt!Admitted, Adapt!Down
    <3>2. AdaptRanges'
      BY <1>0, <2>1 DEF AdaptRanges
    <3>3. AdaptPlaces'
      BY <1>0, <2>1 DEF AdaptPlaces, Adapt!Down
    <3>4. AdaptDecisions'
      BY <1>0, <2>1 DEF AdaptDecisions, Adapt!Admitted, Adapt!Down
    <3>5. AdaptValidations'
      BY <1>0, <2>1 DEF AdaptValidations, Adapt!Down
    <3>6. Adapt!StagesAreReviewed'
      BY <1>0, <2>1 DEF Adapt!StagesAreReviewed
    <3>7. Adapt!StopsAreReviewed'
      BY <1>0, <2>1 DEF Adapt!StopsAreReviewed
    <3>8. Adapt!ReportsAreOwn'
      BY <1>0, <2>1 DEF Adapt!ReportsAreOwn
    <3>9. Adapt!DecisionsDoNotFail'
      BY <1>0, <2>1 DEF Adapt!DecisionsDoNotFail, Adapt!Stale
    <3> QED
      BY <3>1, <3>2, <3>3, <3>4, <3>5, <3>6, <3>7, <3>8, <3>9
  <2>2. CASE mem.pc # "validate" /\ mem.pc # "down" /\ env' = [env EXCEPT !.faults = @ + 1]
            /\ mem' = Adapt!Down /\ UNCHANGED disk
    <3>1. AdaptTyped'
      BY <1>000, <1>00, <2>2 DEF AdaptTyped, AdaptPlaces, Adapt!Admitted, Adapt!Down
    <3>2. AdaptRanges'
      BY <1>0, <2>2 DEF AdaptRanges
    <3>3. AdaptPlaces'
      BY <1>0, <2>2 DEF AdaptPlaces, Adapt!Down
    <3>4. AdaptDecisions'
      BY <1>0, <2>2 DEF AdaptDecisions, Adapt!Admitted, Adapt!Down
    <3>5. AdaptValidations'
      BY <1>0, <2>2 DEF AdaptValidations, Adapt!Down
    <3>6. Adapt!StagesAreReviewed'
      BY <1>0, <2>2 DEF Adapt!StagesAreReviewed
    <3>7. Adapt!StopsAreReviewed'
      BY <1>0, <2>2 DEF Adapt!StopsAreReviewed
    <3>8. Adapt!ReportsAreOwn'
      BY <1>0, <2>2 DEF Adapt!ReportsAreOwn
    <3>9. Adapt!DecisionsDoNotFail'
      BY <1>0, <2>2 DEF Adapt!DecisionsDoNotFail, Adapt!Stale
    <3> QED
      BY <3>1, <3>2, <3>3, <3>4, <3>5, <3>6, <3>7, <3>8, <3>9
  <2> QED
    BY <1>17, <2>1, <2>2 DEF Adapt!Crash, AdaptTyped
<1>18. CASE Adapt!Retry
  <2>1. AdaptTyped'
    BY <1>0, <1>18 DEF Adapt!Retry, AdaptTyped, AdaptReports, Adapt!Decisions, Adapt!Gates,
       AdaptPlaces, Adapt!Goes, Adapt!Fail, Adapt!Applied, Adapt!Stale, Adapt!Admitted,
       Adapt!None, Adapt!Down
  <2>2. AdaptRanges'
    BY <1>0, <1>18 DEF Adapt!Retry, AdaptRanges
  <2>3. AdaptPlaces'
    BY <1>0, <1>18 DEF Adapt!Retry, AdaptPlaces
  <2>4. AdaptDecisions'
    BY <1>0, <1>18 DEF Adapt!Retry, AdaptTyped, AdaptReports, AdaptDecisions, Adapt!None
  <2>5. AdaptValidations'
    BY <1>0, <1>18 DEF Adapt!Retry, AdaptValidations
  <2>6. Adapt!StagesAreReviewed'
    BY <1>0, <1>18 DEF Adapt!Retry, Adapt!StagesAreReviewed
  <2>7. Adapt!StopsAreReviewed'
    BY <1>0, <1>18 DEF Adapt!Retry, Adapt!StopsAreReviewed
  <2>8. Adapt!ReportsAreOwn'
    BY <1>0, <1>18 DEF Adapt!Retry, Adapt!ReportsAreOwn
  <2>9. Adapt!DecisionsDoNotFail'
    BY <1>0, <1>18 DEF Adapt!Retry, Adapt!DecisionsDoNotFail
  <2> QED
    BY <2>1, <2>2, <2>3, <2>4, <2>5, <2>6, <2>7, <2>8, <2>9
<1>19. CASE UNCHANGED Adapt!adaptVars
  BY <1>19 DEF Adapt!adaptVars, Adapt!Admitted, Adapt!DecisionsDoNotFail, Adapt!ReportsAreOwn,
     Adapt!StagesAreReviewed, Adapt!Stale, Adapt!StopsAreReviewed, AdaptDecisions, AdaptPlaces,
     AdaptRanges, AdaptTyped, AdaptValidations
<1> QED
  BY <1>1, <1>2, <1>3, <1>4, <1>5, <1>6, <1>7, <1>8, <1>9, <1>10, <1>11, <1>12, <1>13, <1>14,
     <1>15, <1>16, <1>17, <1>18, <1>19 DEF Adapt!AdaptationNext, Adapt!PhaseStep

LEMMA AdaptInvariance ==
  ASSUME Adapt!AdaptationAssumption PROVE Adapt!AdaptationSpec => []AdaptInv
<1>1. Adapt!AdaptationInit => AdaptInv
  BY AdaptInitHolds
<1>2. AdaptInv /\ [Adapt!AdaptationNext]_(Adapt!adaptVars) => AdaptInv'
  BY AdaptStepKeeps
<1> QED
  BY <1>1, <1>2, PTL DEF Adapt!AdaptationSpec

\* The state of an adaptation has its types, whatever the stages.
THEOREM AdaptationsAreTyped ==
  ASSUME Adapt!AdaptationAssumption PROVE Adapt!AdaptationSpec => [](Adapt!AdaptationTypeOK)
<1>1. AdaptInv => Adapt!AdaptationTypeOK
  <2> SUFFICES ASSUME AdaptInv PROVE Adapt!AdaptationTypeOK
    OBVIOUS
  <2>1. Ends[LastStage] \in Nat
    BY AdaptNumbers
  <2> QED
    BY <2>1 DEF AdaptInv, AdaptTyped, AdaptReports, AdaptRanges, Adapt!AdaptationTypeOK
<1> QED
  BY AdaptInvariance, <1>1, PTL

\* For any number and length of stages and any number of crashes, a stage is
\* entered on a decision for the report of the stage before, a run is stopped
\* for the report under review, a report has the validation of its own
\* checkpoint, and a consumed decision is never in the way.
THEOREM AdaptationsAreReviewed ==
  ASSUME Adapt!AdaptationAssumption PROVE Adapt!AdaptationSpec => [](Adapt!AdaptationIsSound)
<1>1. AdaptInv => Adapt!AdaptationIsSound
  BY DEF AdaptInv
<1> QED
  BY AdaptInvariance, <1>1, PTL

-----------------------------------------------------------------------------
(* Experiment: the runner, its durable state, the arms and the Arenas.     *)

\* Where the runner may be, given its state: the arms of its stage are final when
\* it goes to the Arena, and the result it holds is that of the stored evaluation.
ExpPlaces ==
  /\ mem.stage = 2 => kind = "double" /\ disk.parent = disk.winner[1] /\ disk.winner[1] # Trial!None
  /\ mem.pc = "idle" => mem = Trial!Idle
  /\ disk.legacy => /\ kind = "legacy" /\ mem.pc = "idle" /\ disk.parent = Trial!None
                    /\ \A s \in Trial!Stages : disk.winner[s] = Trial!None
                    /\ disk.arena["B"] # Trial!None => Trial!ArmsOf(1) \subseteq disk.final
                    /\ disk.state = "STOPPED" => disk.arena["B"] # Trial!None
  /\ mem.pc \in {"arena", "record", "judge", "advance"} => Trial!ArmsOf(mem.stage) \subseteq disk.final
  /\ mem.pc \in {"record", "judge"} =>
       mem.result = world.evaluation[mem.contest] /\ mem.result \in Trial!Verdicts
  /\ mem.pc = "judge" => disk.arena[mem.contest] = mem.result

\* The Arena of a stage is its own, and what is decided precedes its end.
ExpOnline ==
  kind # "offline" =>
    /\ mem.pc \in {"arena", "record", "judge"} => mem.contest = Trial!Candidate(mem.stage)
    /\ mem.pc = "advance" => disk.winner[mem.stage] # Trial!None

\* Offline, the Arena of A precedes that of B, and nothing is judged.
ExpOffline ==
  kind = "offline" =>
    /\ mem.contest # "C" /\ mem.pc # "judge"
    /\ mem.pc \in {"arena", "record"} /\ mem.contest = "B" => disk.arena["A"] \in {"win", "loss"}
    /\ mem.pc = "advance" => disk.arena["A"] \in {"win", "loss"} /\ disk.arena["B"] \in {"win", "loss"}

\* No arm is said to be further than it was trained.
ExpTraining ==
  /\ \A a \in Trial!Arms : disk.current[a] <= world.trained[a]
  /\ mem.pc = "train" /\ mem.at > 0 =>
       Trial!Open(mem.stage) # {} /\ mem.at <= world.trained[Trial!NextArm(mem.stage)]
  /\ \A a \in disk.final : world.trained[a] = Gens

\* The evidence that is kept is that of the stored evaluations.
ExpEvidence ==
  /\ \A c \in Trial!Contests : disk.arena[c] # Trial!None => disk.arena[c] = world.evaluation[c]
  /\ disk.parent # Trial!None => disk.parent = disk.winner[1]

ExpInv ==
  /\ Trial!ExperimentTypeOK /\ ExpPlaces /\ ExpOnline /\ ExpOffline /\ ExpTraining /\ ExpEvidence
  /\ Trial!DecisionsAreSound /\ Trial!SecondStageDescends


LEMMA ExpInitHolds == ASSUME Trial!ExperimentAssumption, Trial!ExperimentInit PROVE ExpInv
<1> USE DEF Trial!Stages, Trial!Arms, Trial!Contests, Trial!None, Trial!Verdicts
<1>1. mem = Trial!Idle /\ count = [faults |-> 0, calls |-> 0] /\ kind \in Kinds
  BY DEF Trial!ExperimentInit
<1>2. Gens \in Nat \ {0} /\ MaxFaults \in Nat /\ MaxCalls \in Nat
  BY DEF Trial!ExperimentAssumption
<1>3. CASE kind # "legacy"
  <2>1. disk = Trial!New /\ world = Trial!Untouched
    BY <1>3 DEF Trial!ExperimentInit
  <2>2. Trial!ExperimentTypeOK
    BY <1>1, <1>2, <2>1 DEF Trial!ExperimentTypeOK, Trial!Idle, Trial!New, Trial!Untouched
  <2> QED
    BY <1>1, <1>2, <2>1, <2>2 DEF ExpInv, ExpPlaces, ExpOnline, ExpOffline, ExpTraining,
       ExpEvidence, Trial!DecisionsAreSound, Trial!SecondStageDescends, Trial!Decided,
       Trial!ArmsOf, Trial!Candidate, Trial!Reference, Trial!Idle, Trial!New, Trial!Untouched
<1>4. CASE kind = "legacy"
  <2>1. PICK old \in Trial!Legacy :
          /\ old[1].state = "RUNNING" => old[1].arena["B"] = Trial!None
          /\ old[1].state = "STAGE1_ARENA" =>
               old[1].final = {"A", "B"} /\ old[1].arena["B"] = Trial!None
          /\ old[1].state = "STOPPED" =>
               old[1].final = {"A", "B"} /\ old[1].arena["B"] # Trial!None
          /\ disk = old[1] /\ world = old[2]
    BY <1>4 DEF Trial!ExperimentInit
  <2>2. PICK s \in {"RUNNING", "STAGE1_ARENA", "STOPPED"}, f \in SUBSET {"A", "B"},
             v \in Trial!Verdicts \cup {Trial!None} : old = Trial!Left(s, f, v)
    BY <2>1 DEF Trial!Legacy
  <2>3. /\ disk = [Trial!New EXCEPT !.legacy = TRUE, !.state = s, !.final = f, !.arena["B"] = v]
        /\ world = [Trial!Untouched EXCEPT
                      !.trained = [a \in Trial!Arms |-> IF a \in f THEN Gens ELSE 0],
                      !.evaluation["B"] = v]
    BY <2>1, <2>2 DEF Trial!Left
  <2> DEFINE current == [a \in Trial!Arms |-> 0]
             trained == [a \in Trial!Arms |-> IF a \in f THEN Gens ELSE 0]
             arena == [[c \in Trial!Contests |-> Trial!None] EXCEPT !["B"] = v]
             winner == [t \in Trial!Stages |-> Trial!None]
             origin == [a \in Trial!Arms |-> Trial!None]
  <2>4. /\ disk = [state |-> s, legacy |-> TRUE, current |-> current, final |-> f, arena |-> arena,
                   winner |-> winner, parent |-> Trial!None]
        /\ world = [trained |-> trained, origin |-> origin, evaluation |-> arena]
    BY <2>3 DEF Trial!New, Trial!Untouched
  <2>t. /\ current \in [Trial!Arms -> 0..Gens] /\ trained \in [Trial!Arms -> 0..Gens]
        /\ arena \in [Trial!Contests -> Trial!Verdicts \cup {Trial!None}]
        /\ winner \in [Trial!Stages -> Trial!Arms \cup {Trial!None}]
        /\ origin \in [Trial!Arms -> Trial!Arms \cup {Trial!None}]
        /\ \A a \in Trial!Arms : current[a] = 0 /\ origin[a] = Trial!None
        /\ \A a \in Trial!Arms : trained[a] = IF a \in f THEN Gens ELSE 0
        /\ \A a \in Trial!Arms : 0 <= trained[a]
        /\ \A t \in Trial!Stages : winner[t] = Trial!None
        /\ arena["B"] = v
    BY <1>2
  <2> HIDE DEF current, trained, arena, winner, origin
  <2>5. Trial!ExperimentTypeOK
    BY <1>1, <1>2, <2>4, <2>t DEF Trial!ExperimentTypeOK, Trial!Idle
  <2>6. /\ s = "STAGE1_ARENA" \/ s = "STOPPED" => f = {"A", "B"}
        /\ v # Trial!None <=> s = "STOPPED"
    BY <2>1, <2>4, <2>t
  <2>7. ExpPlaces
    BY <1>1, <1>4, <2>4, <2>6, <2>t DEF ExpPlaces, Trial!Idle, Trial!ArmsOf, Trial!Candidate,
       Trial!Reference
  <2>8. ExpOnline /\ ExpOffline
    BY <1>1, <1>4 DEF ExpOnline, ExpOffline, Trial!Idle
  <2>9. ExpTraining
    BY <1>1, <1>2, <2>4, <2>t DEF ExpTraining, Trial!Idle
  <2>10. ExpEvidence
    BY <2>4, <2>t DEF ExpEvidence
  <2>11. Trial!DecisionsAreSound /\ Trial!SecondStageDescends
    BY <1>4, <2>4, <2>t DEF Trial!DecisionsAreSound, Trial!SecondStageDescends, Trial!Decided,
       Trial!ArmsOf, Trial!Candidate, Trial!Reference
  <2> QED
    BY <2>5, <2>7, <2>8, <2>9, <2>10, <2>11 DEF ExpInv
<1> QED
  BY <1>3, <1>4


\* Every step keeps the invariant.
LEMMA ExpStepKeeps ==
  ASSUME Trial!ExperimentAssumption, ExpInv, [Trial!ExperimentNext]_(Trial!experimentVars)
  PROVE  ExpInv'
<1>0. /\ Gens \in Nat \ {0} /\ MaxFaults \in Nat /\ MaxCalls \in Nat
      /\ count.faults < MaxFaults => count.faults + 1 \in 0..MaxFaults
      /\ count.calls < MaxCalls => count.calls + 1 \in 0..MaxCalls
  BY DEF Trial!ExperimentAssumption, ExpInv, Trial!ExperimentTypeOK
<1>00. /\ 1 \in Trial!Stages /\ 2 \in Trial!Stages /\ {"A", "B"} \subseteq Trial!Contests
       /\ \A s \in Trial!Stages : /\ Trial!Candidate(s) \in Trial!Arms \cap Trial!Contests
                                  /\ \A v : Trial!Winner(s, v) \in Trial!Arms
                                  /\ Trial!NextArm(s) \in Trial!Arms
       /\ Trial!None \notin Trial!Arms /\ Trial!None \notin Trial!Verdicts
  BY DEF Trial!Stages, Trial!Contests, Trial!Candidate, Trial!Reference, Trial!Arms,
     Trial!Winner, Trial!NextArm, Trial!None, Trial!Verdicts
<1> USE DEF ExpInv
<1>1. CASE Trial!Launch
  <2>a. disk.legacy /\ disk' = Trial!Migrated =>
          \E st \in {Trial!None, "RUNNING", "STAGE1_ARENA", "STAGE2_RUNNING", "STAGE2_ARENA",
                    "ARENA_INVALID", "STOPPED"}, w \in Trial!Arms \cup {Trial!None} :
            /\ disk' = [disk EXCEPT !.legacy = FALSE, !.state = st, !.winner[1] = w]
            /\ st = "STOPPED" => disk.state = "STOPPED" /\ disk.arena["B"] # "invalid"
            /\ disk.arena["B"] \in {"win", "loss"} => w = Trial!Winner(1, disk.arena["B"])
            /\ disk.arena["B"] \notin {"win", "loss"} => w = Trial!None
    <3> SUFFICES ASSUME disk.legacy, disk' = Trial!Migrated
                 PROVE  \E st \in {Trial!None, "RUNNING", "STAGE1_ARENA", "STAGE2_RUNNING",
                                   "STAGE2_ARENA", "ARENA_INVALID", "STOPPED"},
                           w \in Trial!Arms \cup {Trial!None} :
                          /\ disk' = [disk EXCEPT !.legacy = FALSE, !.state = st, !.winner[1] = w]
                          /\ st = "STOPPED" => disk.state = "STOPPED" /\ disk.arena["B"] # "invalid"
                          /\ disk.arena["B"] \in {"win", "loss"} => w = Trial!Winner(1, disk.arena["B"])
                          /\ disk.arena["B"] \notin {"win", "loss"} => w = Trial!None
      OBVIOUS
    <3> DEFINE v == disk.arena["B"]
               st == IF v = "invalid" THEN "ARENA_INVALID" ELSE disk.state
               w == IF v \in {"win", "loss"} THEN Trial!Winner(1, v) ELSE Trial!None
    <3>1. disk' = [disk EXCEPT !.legacy = FALSE, !.state = st, !.winner[1] = w]
      BY DEF Trial!Migrated, Trial!ExperimentTypeOK
    <3>2. st \in {Trial!None, "RUNNING", "STAGE1_ARENA", "STAGE2_RUNNING", "STAGE2_ARENA",
                 "ARENA_INVALID", "STOPPED"}
      BY DEF Trial!ExperimentTypeOK
    <3>3. w \in Trial!Arms \cup {Trial!None}
      BY <1>00
    <3>4. st = "STOPPED" => disk.state = "STOPPED" /\ v # "invalid"
      OBVIOUS
    <3>5. /\ v \in {"win", "loss"} => w = Trial!Winner(1, v)
          /\ v \notin {"win", "loss"} => w = Trial!None
      OBVIOUS
    <3> HIDE DEF v, st, w
    <3>6. v = disk.arena["B"]
      BY DEF v
    <3> QED
      BY <3>1, <3>2, <3>3, <3>4, <3>5, <3>6
  <2>1. CASE /\ disk.legacy /\ mem.pc = "idle" /\ UNCHANGED <<kind, world, count>>
            /\ \E st \in {Trial!None, "RUNNING", "STAGE1_ARENA", "STAGE2_RUNNING", "STAGE2_ARENA",
                          "ARENA_INVALID", "STOPPED"}, w \in Trial!Arms \cup {Trial!None} :
                 /\ disk' = [disk EXCEPT !.legacy = FALSE, !.state = st, !.winner[1] = w]
                 /\ st = "STOPPED" => disk.state = "STOPPED" /\ disk.arena["B"] # "invalid"
                 /\ disk.arena["B"] \in {"win", "loss"} => w = Trial!Winner(1, disk.arena["B"])
                 /\ disk.arena["B"] \notin {"win", "loss"} => w = Trial!None
            /\ \E p \in {"returned", "failed", "train"} : mem' = [mem EXCEPT !.pc = p]
    <3>1. Trial!ExperimentTypeOK'
      <4>1. PICK st \in {Trial!None, "RUNNING", "STAGE1_ARENA", "STAGE2_RUNNING",
                        "STAGE2_ARENA", "ARENA_INVALID", "STOPPED"},
                 w \in Trial!Arms \cup {Trial!None} :
              disk' = [disk EXCEPT !.legacy = FALSE, !.state = st, !.winner[1] = w]
        BY <2>1
      <4>2. PICK p \in {"returned", "failed", "train"} : mem' = [mem EXCEPT !.pc = p]
        BY <2>1
      <4> QED
        BY <1>0, <1>00, <2>1, <4>1, <4>2 DEF Trial!ExperimentTypeOK, Trial!Ended
    <3>2. ExpPlaces'
      BY <1>0, <2>1 DEF ExpPlaces
    <3>3. ExpOnline'
      BY <1>0, <2>1 DEF ExpOnline
    <3>4. ExpOffline'
      BY <1>0, <2>1 DEF ExpOffline
    <3>5. ExpTraining'
      BY <1>0, <2>1 DEF ExpPlaces, ExpTraining, Trial!Idle
    <3>6. ExpEvidence'
      BY <1>0, <2>1 DEF ExpPlaces, ExpEvidence
    <3>7. Trial!DecisionsAreSound'
      BY <1>0, <2>1 DEF Trial!Winner, Trial!ExperimentTypeOK, ExpPlaces, ExpTraining,
         ExpEvidence, Trial!DecisionsAreSound, Trial!Decided, Trial!Stages, Trial!Candidate,
         Trial!Reference, Trial!Contests, Trial!None, Trial!Verdicts, Trial!Goto
    <3>8. Trial!SecondStageDescends'
      BY <1>0, <2>1 DEF Trial!ExperimentTypeOK, ExpPlaces, Trial!SecondStageDescends, Trial!Decided
    <3> QED
      BY <3>1, <3>2, <3>3, <3>4, <3>5, <3>6, <3>7, <3>8
  <2>2. CASE /\ ~disk.legacy /\ mem.pc = "idle" /\ UNCHANGED <<kind, disk, world, count>>
            /\ \E p \in {"returned", "failed", "train"} : mem' = [mem EXCEPT !.pc = p]
    <3>1. Trial!ExperimentTypeOK'
      BY <1>0, <2>2 DEF Trial!ExperimentTypeOK, Trial!Ended
    <3>2. ExpPlaces'
      BY <1>0, <2>2 DEF ExpPlaces
    <3>3. ExpOnline'
      BY <1>0, <2>2 DEF ExpOnline
    <3>4. ExpOffline'
      BY <1>0, <2>2 DEF ExpOffline
    <3>5. ExpTraining'
      BY <1>0, <2>2 DEF ExpPlaces, ExpTraining, Trial!Idle
    <3>6. ExpEvidence'
      BY <1>0, <2>2 DEF ExpEvidence
    <3>7. Trial!DecisionsAreSound'
      BY <1>0, <2>2 DEF Trial!DecisionsAreSound, Trial!Decided
    <3>8. Trial!SecondStageDescends'
      BY <1>0, <2>2 DEF Trial!SecondStageDescends, Trial!Decided
    <3> QED
      BY <3>1, <3>2, <3>3, <3>4, <3>5, <3>6, <3>7, <3>8
  <2>3. CASE /\ ~disk.legacy /\ mem.pc = "idle" /\ UNCHANGED <<kind, world, count>>
            /\ disk.state = Trial!None /\ disk' = [disk EXCEPT !.state = "RUNNING"]
            /\ \E p \in {"returned", "failed", "train"} : mem' = [mem EXCEPT !.pc = p]
    <3>1. Trial!ExperimentTypeOK'
      BY <1>0, <2>3 DEF Trial!ExperimentTypeOK, Trial!Ended
    <3>2. ExpPlaces'
      BY <1>0, <2>3 DEF ExpPlaces
    <3>3. ExpOnline'
      BY <1>0, <2>3 DEF ExpOnline
    <3>4. ExpOffline'
      BY <1>0, <2>3 DEF ExpOffline
    <3>5. ExpTraining'
      BY <1>0, <2>3 DEF ExpPlaces, ExpTraining, Trial!Idle
    <3>6. ExpEvidence'
      BY <1>0, <2>3 DEF ExpEvidence
    <3>7. Trial!DecisionsAreSound'
      BY <1>0, <2>3 DEF Trial!DecisionsAreSound, Trial!Decided
    <3>8. Trial!SecondStageDescends'
      BY <1>0, <2>3 DEF Trial!SecondStageDescends, Trial!Decided
    <3> QED
      BY <3>1, <3>2, <3>3, <3>4, <3>5, <3>6, <3>7, <3>8
  <2> QED
    BY SMTT(30), <1>1, <2>a, <2>1, <2>2, <2>3 DEF Trial!Launch, Trial!ExperimentTypeOK,
       Trial!Stages, Trial!Arms, Trial!ArmsOf, Trial!Candidate, Trial!Reference,
       Trial!Contests, Trial!None, Trial!Verdicts, Trial!Loaded, Trial!Goto, ExpPlaces
<1>2. CASE Trial!TrainOne
  <2> DEFINE arm == Trial!NextArm(mem.stage)
             at == Trial!At(arm)
  <2>a. /\ arm \in Trial!Arms /\ arm \in Trial!ArmsOf(mem.stage) /\ arm \notin disk.final
        /\ mem.pc = "train" /\ Trial!Open(mem.stage) # {}
    BY <1>2 DEF Trial!TrainOne, Trial!NextArm, Trial!Open, Trial!ArmsOf, Trial!Candidate,
       Trial!Reference, Trial!Arms
  <2>b. /\ at \in 0..Gens /\ at < Gens /\ at <= world.trained[arm]
        /\ world.trained[arm] \in 0..Gens /\ disk.current[arm] \in 0..Gens
        /\ disk.current[arm] <= world.trained[arm]
    BY <1>0, <1>2, <2>a DEF Trial!TrainOne, Trial!At, Trial!ExperimentTypeOK, ExpTraining
  <2>c. /\ world' = [world EXCEPT !.trained[arm] = IF at + 1 > @ THEN at + 1 ELSE @,
                !.origin[arm] = IF world.trained[arm] = 0 THEN Trial!Parent(mem.stage) ELSE @]
        /\ disk' = [disk EXCEPT !.current[arm] = IF kind = "offline" THEN at + 1 ELSE @]
        /\ mem' = [mem EXCEPT !.at = at + 1] /\ UNCHANGED <<kind, count>>
    BY <1>2 DEF Trial!TrainOne
  <2> HIDE DEF arm, at
  <2>d. PICK t \in 1..Gens : /\ t >= at + 1 /\ t >= world.trained[arm]
                             /\ t = IF at + 1 > world.trained[arm] THEN at + 1 ELSE world.trained[arm]
    BY <1>0, <2>b
  <2>e. PICK o \in Trial!Arms \cup {Trial!None} :
          o = IF world.trained[arm] = 0 THEN Trial!Parent(mem.stage) ELSE world.origin[arm]
    BY <2>a DEF Trial!Parent, Trial!ExperimentTypeOK
  <2>f. PICK c \in 0..Gens : c <= t /\ c = IF kind = "offline" THEN at + 1 ELSE disk.current[arm]
    BY <1>0, <2>b, <2>d
  <2>g. /\ world' = [world EXCEPT !.trained[arm] = t, !.origin[arm] = o]
        /\ disk' = [disk EXCEPT !.current[arm] = c]
        /\ mem' = [mem EXCEPT !.at = at + 1] /\ at + 1 \in 0..Gens /\ at + 1 <= t
    BY <1>0, <2>b, <2>c, <2>d, <2>e, <2>f DEF Trial!ExperimentTypeOK
  <2>h. UNCHANGED <<kind, count>>
    BY <2>c
  <2>1. Trial!ExperimentTypeOK'
    <3>1. t \in 0..Gens
      BY <1>0
    <3> QED
      BY <2>a, <2>g, <2>h, <3>1 DEF Trial!ExperimentTypeOK
  <2>i. /\ disk'.final = disk.final /\ disk'.arena = disk.arena /\ disk'.winner = disk.winner
        /\ disk'.parent = disk.parent /\ disk'.state = disk.state /\ disk'.legacy = disk.legacy
        /\ mem'.pc = mem.pc /\ mem'.stage = mem.stage /\ world'.evaluation = world.evaluation
        /\ mem'.contest = mem.contest /\ mem'.result = mem.result /\ mem'.at = at + 1
        /\ world'.trained[arm] = t /\ world'.origin[arm] = o /\ disk'.current[arm] = c
        /\ \A a \in Trial!Arms \ {arm} : /\ world'.trained[a] = world.trained[a]
                                         /\ world'.origin[a] = world.origin[a]
                                         /\ disk'.current[a] = disk.current[a]
    BY <2>a, <2>g DEF Trial!ExperimentTypeOK
  <2>2. ExpPlaces'
    BY <2>a, <2>h, <2>i DEF ExpPlaces
  <2>3. ExpOnline'
    BY <2>a, <2>h, <2>i DEF ExpOnline
  <2>4. ExpOffline'
    BY <2>a, <2>h, <2>i DEF ExpOffline
  <2>5. ExpTraining'
    <3>1. Trial!NextArm(mem.stage)' = arm /\ Trial!Open(mem.stage)' # {}
      BY <2>a, <2>i DEF arm, Trial!NextArm, Trial!Open
    <3>2. \A a \in Trial!Arms : disk'.current[a] <= world'.trained[a]
      BY <2>f, <2>i DEF ExpTraining
    <3>3. \A a \in disk'.final : world'.trained[a] = Gens
      BY <2>a, <2>i DEF ExpTraining, Trial!ExperimentTypeOK
    <3> QED
      BY <2>g, <2>i, <3>1, <3>2, <3>3 DEF ExpTraining
  <2>6. ExpEvidence'
    BY <2>i DEF ExpEvidence
  <2>7. Trial!DecisionsAreSound'
    <3>1. ASSUME NEW a \in Trial!Arms, world.trained[a] = Gens PROVE world'.trained[a] = Gens
      BY <1>0, <2>b, <2>d, <2>i, <3>1
    <3>2. \A s \in Trial!Stages : Trial!ArmsOf(s) \subseteq Trial!Arms
      BY DEF Trial!ArmsOf, Trial!Candidate, Trial!Reference, Trial!Arms
    <3> QED
      BY <2>h, <2>i, <3>1, <3>2 DEF Trial!DecisionsAreSound, Trial!Decided
  <2>8. Trial!SecondStageDescends'
    <3> SUFFICES ASSUME NEW a \in Trial!ArmsOf(2), world'.trained[a] > 0
                 PROVE  Trial!Decided(1)' /\ world'.origin[a] = disk'.winner[1]
      BY DEF Trial!SecondStageDescends, Trial!ArmsOf
    <3>1. a \in Trial!Arms
      BY DEF Trial!ArmsOf, Trial!Candidate, Trial!Reference, Trial!Arms
    <3>2. CASE a # arm \/ world.trained[a] # 0
      <4>1. world.trained[a] > 0 /\ world'.origin[a] = world.origin[a]
        BY <1>0, <2>b, <2>e, <2>i, <3>1, <3>2
      <4> QED
        BY <2>i, <4>1 DEF Trial!SecondStageDescends, Trial!Decided
    <3>3. CASE a = arm /\ world.trained[a] = 0
      <4>1. mem.stage = 2
        BY <2>a, <3>3 DEF Trial!ArmsOf, Trial!Candidate, Trial!Reference,
           Trial!ExperimentTypeOK, Trial!Stages
      <4>2. o = disk.parent
        BY <2>e, <3>3, <4>1 DEF Trial!Parent
      <4> QED
        BY <2>i, <3>3, <4>1, <4>2 DEF ExpPlaces, Trial!Decided
    <3> QED
      BY <3>2, <3>3
  <2> QED
    BY <2>1, <2>2, <2>3, <2>4, <2>5, <2>6, <2>7, <2>8
<1>3. CASE Trial!FinishArm
  <2>1. Trial!ExperimentTypeOK'
    BY <1>0, <1>3 DEF Trial!FinishArm, Trial!NextArm, Trial!ExperimentTypeOK, Trial!Arms,
       Trial!Candidate, Trial!Reference
  <2>2. ExpPlaces'
    BY <1>0, <1>3 DEF Trial!FinishArm, ExpPlaces
  <2>3. ExpOnline'
    BY <1>0, <1>3 DEF Trial!FinishArm, ExpOnline
  <2>4. ExpOffline'
    BY <1>0, <1>3 DEF Trial!FinishArm, ExpOffline
  <2>5. ExpTraining'
    BY <1>0, <1>3 DEF Trial!FinishArm, Trial!At, Trial!NextArm, Trial!ExperimentTypeOK,
       ExpTraining, Trial!Arms, Trial!Candidate, Trial!Reference
  <2>6. ExpEvidence'
    BY <1>0, <1>3 DEF Trial!FinishArm, ExpEvidence
  <2>7. Trial!DecisionsAreSound'
    BY <1>0, <1>3 DEF Trial!FinishArm, Trial!DecisionsAreSound, Trial!Decided
  <2>8. Trial!SecondStageDescends'
    BY <1>0, <1>3 DEF Trial!FinishArm, Trial!SecondStageDescends, Trial!Decided
  <2> QED
    BY <2>1, <2>2, <2>3, <2>4, <2>5, <2>6, <2>7, <2>8
<1>4. CASE Trial!ArmsDone
  <2>1. CASE /\ mem.pc = "train" /\ Trial!Open(mem.stage) = {} /\ UNCHANGED <<kind, world, count>>
            /\ kind = "offline" /\ mem' = [mem EXCEPT !.pc = "arena", !.contest = "A"] /\ UNCHANGED disk
    <3>1. Trial!ExperimentTypeOK'
      BY <1>0, <2>1 DEF Trial!Open, Trial!ExperimentTypeOK, Trial!Ended, ExpPlaces,
         Trial!Stages, Trial!Arms, Trial!ArmsOf, Trial!Candidate, Trial!Reference,
         Trial!Contests, Trial!None, Trial!Verdicts, Trial!Goto, Trial!Idle
    <3>2. ExpPlaces'
      BY <1>0, <2>1 DEF Trial!Open, ExpPlaces
    <3>3. ExpOnline'
      BY <1>0, <2>1 DEF ExpOnline
    <3>4. ExpOffline'
      BY <1>0, <2>1 DEF ExpOffline
    <3>5. ExpTraining'
      BY <1>0, <2>1 DEF ExpTraining
    <3>6. ExpEvidence'
      BY <1>0, <2>1 DEF ExpEvidence
    <3>7. Trial!DecisionsAreSound'
      BY <1>0, <2>1 DEF Trial!DecisionsAreSound, Trial!Decided
    <3>8. Trial!SecondStageDescends'
      BY <1>0, <2>1 DEF Trial!SecondStageDescends, Trial!Decided
    <3> QED
      BY <3>1, <3>2, <3>3, <3>4, <3>5, <3>6, <3>7, <3>8
  <2>2. CASE /\ mem.pc = "train" /\ Trial!Open(mem.stage) = {} /\ UNCHANGED <<kind, world, count>>
            /\ kind # "offline"
            /\ mem' = [mem EXCEPT !.pc = "arena", !.contest = Trial!Candidate(mem.stage)]
            /\ \E s \in {"STAGE1_ARENA", "STAGE2_ARENA"} : disk' = [disk EXCEPT !.state = s]
    <3>1. Trial!ExperimentTypeOK'
      BY ZenonT(60), <1>0, <1>00, <2>2 DEF Trial!Open, Trial!ExperimentTypeOK, Trial!Ended
    <3>2. ExpPlaces'
      BY <1>0, <2>2 DEF Trial!Open, ExpPlaces
    <3>3. ExpOnline'
      BY <1>0, <2>2 DEF ExpOnline
    <3>4. ExpOffline'
      BY <1>0, <2>2 DEF ExpOffline
    <3>5. ExpTraining'
      BY <1>0, <2>2 DEF ExpTraining
    <3>6. ExpEvidence'
      BY <1>0, <2>2 DEF ExpEvidence
    <3>7. Trial!DecisionsAreSound'
      BY <1>0, <2>2 DEF Trial!DecisionsAreSound, Trial!Decided
    <3>8. Trial!SecondStageDescends'
      BY <1>0, <2>2 DEF Trial!SecondStageDescends, Trial!Decided
    <3> QED
      BY <3>1, <3>2, <3>3, <3>4, <3>5, <3>6, <3>7, <3>8
  <2> QED
    BY <1>4, <2>1, <2>2 DEF Trial!ArmsDone
<1>5. CASE Trial!RunArena
  <2>1. Trial!ExperimentTypeOK'
    <3>1. world.evaluation[mem.contest] \in Trial!Verdicts \cup {Trial!None}
      BY DEF Trial!ExperimentTypeOK
    <3>2. PICK v \in Trial!Verdicts : /\ world' = [world EXCEPT !.evaluation[mem.contest] = v]
                                      /\ mem' = [mem EXCEPT !.pc = "record", !.result = v]
      BY <1>5, <3>1 DEF Trial!RunArena
    <3>3. UNCHANGED <<kind, disk, count>>
      BY <1>5 DEF Trial!RunArena
    <3> QED
      BY <3>2, <3>3 DEF Trial!ExperimentTypeOK
  <2>2. ExpPlaces'
    BY <1>0, <1>5 DEF Trial!RunArena, Trial!ExperimentTypeOK, ExpPlaces
  <2>3. ExpOnline'
    BY <1>0, <1>5 DEF Trial!RunArena, ExpOnline
  <2>4. ExpOffline'
    BY <1>0, <1>5 DEF Trial!RunArena, ExpOffline
  <2>5. ExpTraining'
    BY <1>0, <1>5 DEF Trial!RunArena, ExpTraining
  <2>6. ExpEvidence'
    BY <1>0, <1>5 DEF Trial!RunArena, ExpEvidence
  <2>7. Trial!DecisionsAreSound'
    BY <1>0, <1>5 DEF Trial!RunArena, Trial!DecisionsAreSound, Trial!Decided, Trial!None
  <2>8. Trial!SecondStageDescends'
    BY <1>0, <1>5 DEF Trial!RunArena, Trial!SecondStageDescends, Trial!Decided
  <2> QED
    BY <2>1, <2>2, <2>3, <2>4, <2>5, <2>6, <2>7, <2>8
<1>6. CASE Trial!Record
  <2>1. CASE /\ mem.pc = "record" /\ UNCHANGED <<kind, world, count>>
            /\ kind # "offline" /\ mem' = [mem EXCEPT !.pc = "judge"]
            /\ disk' = [disk EXCEPT !.arena[mem.contest] = IF @ = Trial!None THEN mem.result ELSE @]
    <3>1. Trial!ExperimentTypeOK'
      BY <1>0, <2>1 DEF Trial!ExperimentTypeOK
    <3>2. ExpPlaces'
      BY <1>0, <2>1 DEF Trial!ExperimentTypeOK, ExpPlaces, ExpEvidence
    <3>3. ExpOnline'
      BY <1>0, <2>1 DEF ExpOnline
    <3>4. ExpOffline'
      BY <1>0, <2>1 DEF ExpOffline
    <3>5. ExpTraining'
      BY <1>0, <2>1 DEF ExpTraining
    <3>6. ExpEvidence'
      BY <1>0, <2>1 DEF ExpPlaces, ExpEvidence
    <3>7. Trial!DecisionsAreSound'
      BY <1>0, <2>1 DEF ExpPlaces, Trial!DecisionsAreSound, Trial!Decided
    <3>8. Trial!SecondStageDescends'
      BY <1>0, <2>1 DEF Trial!SecondStageDescends, Trial!Decided
    <3> QED
      BY <3>1, <3>2, <3>3, <3>4, <3>5, <3>6, <3>7, <3>8
  <2>2. CASE /\ mem.pc = "record" /\ UNCHANGED <<kind, disk, world, count>>
            /\ mem' = [mem EXCEPT !.pc = "failed"]
    <3>1. Trial!ExperimentTypeOK'
      BY <1>0, <2>2 DEF Trial!ExperimentTypeOK, Trial!Ended
    <3>2. ExpPlaces'
      BY <1>0, <2>2 DEF ExpPlaces
    <3>3. ExpOnline'
      BY <1>0, <2>2 DEF ExpOnline
    <3>4. ExpOffline'
      BY <1>0, <2>2 DEF ExpOffline
    <3>5. ExpTraining'
      BY <1>0, <2>2 DEF ExpTraining
    <3>6. ExpEvidence'
      BY <1>0, <2>2 DEF ExpEvidence
    <3>7. Trial!DecisionsAreSound'
      BY <1>0, <2>2 DEF Trial!DecisionsAreSound, Trial!Decided
    <3>8. Trial!SecondStageDescends'
      BY <1>0, <2>2 DEF Trial!SecondStageDescends, Trial!Decided
    <3> QED
      BY <3>1, <3>2, <3>3, <3>4, <3>5, <3>6, <3>7, <3>8
  <2>3. CASE /\ mem.pc = "record" /\ UNCHANGED <<kind, world, count>>
            /\ kind = "offline" /\ mem.result # "invalid" /\ mem.contest = "A"
            /\ disk' = [disk EXCEPT !.arena[mem.contest] = mem.result]
            /\ mem' = [mem EXCEPT !.pc = "arena", !.contest = "B"]
    <3>1. Trial!ExperimentTypeOK'
      BY <1>0, <2>3 DEF Trial!ExperimentTypeOK, Trial!Ended, ExpPlaces, Trial!Stages,
         Trial!Arms, Trial!ArmsOf, Trial!Candidate, Trial!Reference, Trial!Contests,
         Trial!None, Trial!Verdicts, Trial!Goto, Trial!Idle
    <3>2. ExpPlaces'
      BY <1>0, <2>3 DEF ExpPlaces
    <3>3. ExpOnline'
      BY <1>0, <2>3 DEF ExpOnline
    <3>4. ExpOffline'
      BY <1>0, <2>3 DEF Trial!ExperimentTypeOK, ExpPlaces, ExpOffline, Trial!Verdicts
    <3>5. ExpTraining'
      BY <1>0, <2>3 DEF ExpTraining
    <3>6. ExpEvidence'
      BY <1>0, <2>3 DEF ExpPlaces, ExpEvidence
    <3>7. Trial!DecisionsAreSound'
      BY <1>0, <2>3 DEF ExpPlaces, Trial!DecisionsAreSound, Trial!Decided, Trial!Verdicts
    <3>8. Trial!SecondStageDescends'
      BY <1>0, <2>3 DEF Trial!SecondStageDescends, Trial!Decided
    <3> QED
      BY <3>1, <3>2, <3>3, <3>4, <3>5, <3>6, <3>7, <3>8
  <2>4. CASE /\ mem.pc = "record" /\ UNCHANGED <<kind, world, count>>
            /\ kind = "offline" /\ mem.result # "invalid" /\ mem.contest # "A"
            /\ disk' = [disk EXCEPT !.arena[mem.contest] = mem.result]
            /\ mem' = [mem EXCEPT !.pc = "advance", !.contest = "B"]
    <3>1. Trial!ExperimentTypeOK'
      BY <1>0, <2>4 DEF Trial!ExperimentTypeOK, Trial!Ended, ExpPlaces, Trial!Stages,
         Trial!Arms, Trial!ArmsOf, Trial!Candidate, Trial!Reference, Trial!Contests,
         Trial!None, Trial!Verdicts, Trial!Goto, Trial!Idle
    <3>2. ExpPlaces'
      BY <1>0, <2>4 DEF ExpPlaces
    <3>3. ExpOnline'
      BY <1>0, <2>4 DEF ExpOnline
    <3>4. ExpOffline'
      BY <1>0, <2>4 DEF Trial!ExperimentTypeOK, ExpPlaces, ExpOffline, Trial!Contests,
         Trial!Verdicts
    <3>5. ExpTraining'
      BY <1>0, <2>4 DEF ExpTraining
    <3>6. ExpEvidence'
      BY <1>0, <2>4 DEF ExpPlaces, ExpEvidence
    <3>7. Trial!DecisionsAreSound'
      BY <1>0, <2>4 DEF ExpPlaces, Trial!DecisionsAreSound, Trial!Decided, Trial!Verdicts
    <3>8. Trial!SecondStageDescends'
      BY <1>0, <2>4 DEF Trial!SecondStageDescends, Trial!Decided
    <3> QED
      BY <3>1, <3>2, <3>3, <3>4, <3>5, <3>6, <3>7, <3>8
  <2> QED
    BY <1>6, <2>1, <2>2, <2>3, <2>4 DEF Trial!Record, Trial!ExperimentTypeOK, Trial!Stages,
       Trial!Arms, Trial!ArmsOf, Trial!Candidate, Trial!Reference, Trial!Contests, Trial!None,
       Trial!Verdicts, Trial!Goto
<1>7. CASE Trial!Judge
  <2>1. CASE /\ mem.pc = "judge" /\ UNCHANGED <<kind, world, count>>
            /\ mem.result = "invalid" /\ disk' = [disk EXCEPT !.state = "ARENA_INVALID"]
            /\ mem' = [mem EXCEPT !.pc = "failed"]
    <3>1. Trial!ExperimentTypeOK'
      BY <1>0, <2>1 DEF Trial!ExperimentTypeOK, Trial!Ended
    <3>2. ExpPlaces'
      BY <1>0, <2>1 DEF ExpPlaces
    <3>3. ExpOnline'
      BY <1>0, <2>1 DEF ExpOnline
    <3>4. ExpOffline'
      BY <1>0, <2>1 DEF ExpOffline
    <3>5. ExpTraining'
      BY <1>0, <2>1 DEF ExpTraining
    <3>6. ExpEvidence'
      BY <1>0, <2>1 DEF ExpEvidence
    <3>7. Trial!DecisionsAreSound'
      BY <1>0, <2>1 DEF Trial!DecisionsAreSound, Trial!Decided
    <3>8. Trial!SecondStageDescends'
      BY <1>0, <2>1 DEF Trial!SecondStageDescends, Trial!Decided
    <3> QED
      BY <3>1, <3>2, <3>3, <3>4, <3>5, <3>6, <3>7, <3>8
  <2>2. CASE /\ mem.pc = "judge" /\ UNCHANGED <<kind, disk, world, count>>
            /\ mem' = [mem EXCEPT !.pc = "failed"]
    <3>1. Trial!ExperimentTypeOK'
      BY <1>0, <2>2 DEF Trial!ExperimentTypeOK, Trial!Ended
    <3>2. ExpPlaces'
      BY <1>0, <2>2 DEF ExpPlaces
    <3>3. ExpOnline'
      BY <1>0, <2>2 DEF ExpOnline
    <3>4. ExpOffline'
      BY <1>0, <2>2 DEF ExpOffline
    <3>5. ExpTraining'
      BY <1>0, <2>2 DEF ExpTraining
    <3>6. ExpEvidence'
      BY <1>0, <2>2 DEF ExpEvidence
    <3>7. Trial!DecisionsAreSound'
      BY <1>0, <2>2 DEF Trial!DecisionsAreSound, Trial!Decided
    <3>8. Trial!SecondStageDescends'
      BY <1>0, <2>2 DEF Trial!SecondStageDescends, Trial!Decided
    <3> QED
      BY <3>1, <3>2, <3>3, <3>4, <3>5, <3>6, <3>7, <3>8
  <2>3. CASE /\ mem.pc = "judge" /\ UNCHANGED <<kind, world, count>> /\ mem.result # "invalid"
            /\ disk.winner[mem.stage] \in {Trial!None, Trial!Winner(mem.stage, mem.result)}
            /\ disk' = [disk EXCEPT !.winner[mem.stage] = Trial!Winner(mem.stage, mem.result)]
            /\ mem' = [mem EXCEPT !.pc = "advance"]
    <3>1. Trial!ExperimentTypeOK'
      BY <1>0, <2>3 DEF Trial!Winner, Trial!ExperimentTypeOK, ExpPlaces, Trial!ArmsOf
    <3>2. ExpPlaces'
      BY <1>0, <2>3 DEF ExpPlaces
    <3>3. ExpOnline'
      BY <1>0, <2>3 DEF Trial!Winner, Trial!ExperimentTypeOK, ExpOnline, Trial!Reference,
         Trial!Contests, Trial!None
    <3>4. ExpOffline'
      BY <1>0, <2>3 DEF ExpOffline
    <3>5. ExpTraining'
      BY <1>0, <2>3 DEF ExpTraining
    <3>6. ExpEvidence'
      BY <1>0, <2>3 DEF ExpEvidence
    <3>7. Trial!DecisionsAreSound'
      BY <1>0, <2>3 DEF ExpPlaces, ExpOnline, ExpOffline, ExpTraining,
         Trial!DecisionsAreSound, Trial!Decided, Trial!Verdicts
    <3>8. Trial!SecondStageDescends'
      BY <1>0, <2>3 DEF Trial!SecondStageDescends, Trial!Decided
    <3> QED
      BY <3>1, <3>2, <3>3, <3>4, <3>5, <3>6, <3>7, <3>8
  <2> QED
    BY <1>7, <2>1, <2>2, <2>3 DEF Trial!Judge, Trial!Goto
<1>8. CASE Trial!Advance
  <2>1. CASE /\ mem.pc = "advance" /\ UNCHANGED <<kind, disk, world, count>>
            /\ mem' = [mem EXCEPT !.pc = "failed"]
    <3>1. Trial!ExperimentTypeOK'
      BY <1>0, <2>1 DEF Trial!ExperimentTypeOK, Trial!Ended
    <3>2. ExpPlaces'
      BY <1>0, <2>1 DEF ExpPlaces
    <3>3. ExpOnline'
      BY <1>0, <2>1 DEF ExpOnline
    <3>4. ExpOffline'
      BY <1>0, <2>1 DEF ExpOffline
    <3>5. ExpTraining'
      BY <1>0, <2>1 DEF ExpTraining
    <3>6. ExpEvidence'
      BY <1>0, <2>1 DEF ExpEvidence
    <3>7. Trial!DecisionsAreSound'
      BY <1>0, <2>1 DEF Trial!DecisionsAreSound, Trial!Decided
    <3>8. Trial!SecondStageDescends'
      BY <1>0, <2>1 DEF Trial!SecondStageDescends, Trial!Decided
    <3> QED
      BY <3>1, <3>2, <3>3, <3>4, <3>5, <3>6, <3>7, <3>8
  <2>2. CASE /\ mem.pc = "advance" /\ UNCHANGED <<kind, world, count>>
            /\ kind = "double" /\ mem.stage = 1 /\ disk.parent \in {Trial!None, disk.winner[1]}
            /\ disk' = [disk EXCEPT !.parent = disk.winner[1], !.state = "STAGE2_RUNNING"]
            /\ mem' = [mem EXCEPT !.pc = "train", !.stage = 2, !.at = 0]
    <3>1. Trial!ExperimentTypeOK'
      <4>1. disk.winner[1] \in Trial!Arms \cup {Trial!None} /\ 0 \in 0..Gens
        BY <1>0, <1>00 DEF Trial!ExperimentTypeOK
      <4> QED
        BY <1>0, <1>00, <2>2, <4>1 DEF Trial!ExperimentTypeOK
    <3>2. ExpPlaces'
      BY <1>0, <2>2 DEF ExpPlaces, ExpOnline
    <3>3. ExpOnline'
      BY <1>0, <2>2 DEF ExpOnline
    <3>4. ExpOffline'
      BY <1>0, <2>2 DEF ExpOffline
    <3>5. ExpTraining'
      BY <1>0, <2>2 DEF ExpTraining
    <3>6. ExpEvidence'
      BY <1>0, <2>2 DEF ExpEvidence
    <3>7. Trial!DecisionsAreSound'
      BY <1>0, <2>2 DEF Trial!DecisionsAreSound, Trial!Decided
    <3>8. Trial!SecondStageDescends'
      BY <1>0, <2>2 DEF Trial!SecondStageDescends, Trial!Decided
    <3> QED
      BY <3>1, <3>2, <3>3, <3>4, <3>5, <3>6, <3>7, <3>8
  <2>3. CASE /\ mem.pc = "advance" /\ UNCHANGED <<kind, world, count>>
            /\ kind # "double" /\ disk' = [disk EXCEPT !.state = "STOPPED"]
            /\ mem' = [mem EXCEPT !.pc = "returned"]
    <3>1. Trial!ExperimentTypeOK'
      BY <1>0, <1>00, <2>3 DEF Trial!ExperimentTypeOK, Trial!Ended
    <3>2. ExpPlaces'
      BY <1>0, <2>3 DEF ExpPlaces
    <3>3. ExpOnline'
      BY <1>0, <2>3 DEF ExpOnline
    <3>4. ExpOffline'
      BY <1>0, <2>3 DEF ExpOffline
    <3>5. ExpTraining'
      BY <1>0, <2>3 DEF ExpTraining
    <3>6. ExpEvidence'
      BY <1>0, <2>3 DEF ExpEvidence
    <3>7. Trial!DecisionsAreSound'
      BY <1>0, <2>3 DEF Trial!ExperimentTypeOK, ExpPlaces, ExpOnline, ExpOffline,
         Trial!DecisionsAreSound, Trial!Decided, Trial!Stages
    <3>8. Trial!SecondStageDescends'
      BY <1>0, <2>3 DEF Trial!SecondStageDescends, Trial!Decided
    <3> QED
      BY <3>1, <3>2, <3>3, <3>4, <3>5, <3>6, <3>7, <3>8
  <2>4. CASE /\ mem.pc = "advance" /\ UNCHANGED <<kind, world, count>>
            /\ kind = "double" /\ mem.stage = 2 /\ disk' = [disk EXCEPT !.state = "STOPPED"]
            /\ mem' = [mem EXCEPT !.pc = "returned"]
    <3>1. Trial!ExperimentTypeOK'
      BY <1>0, <1>00, <2>4 DEF Trial!ExperimentTypeOK, Trial!Ended
    <3>2. ExpPlaces'
      BY <1>0, <2>4 DEF ExpPlaces
    <3>3. ExpOnline'
      BY <1>0, <2>4 DEF ExpOnline
    <3>4. ExpOffline'
      BY <1>0, <2>4 DEF ExpOffline
    <3>5. ExpTraining'
      BY <1>0, <2>4 DEF ExpTraining
    <3>6. ExpEvidence'
      BY <1>0, <2>4 DEF ExpEvidence
    <3>7. Trial!DecisionsAreSound'
      BY <1>0, <2>4 DEF ExpOnline, Trial!DecisionsAreSound, Trial!Decided
    <3>8. Trial!SecondStageDescends'
      BY <1>0, <2>4 DEF Trial!SecondStageDescends, Trial!Decided
    <3> QED
      BY <3>1, <3>2, <3>3, <3>4, <3>5, <3>6, <3>7, <3>8
  <2> QED
    BY <1>8, <2>1, <2>2, <2>3, <2>4 DEF Trial!Advance, Trial!ExperimentTypeOK, Trial!Stages,
       Trial!Goto
<1>9. CASE Trial!Relaunch
  <2>1. Trial!ExperimentTypeOK'
    BY <1>0, <1>9 DEF Trial!Relaunch, Trial!ExperimentTypeOK, Trial!Stages, Trial!Contests,
       Trial!Idle
  <2>2. ExpPlaces'
    BY <1>0, <1>9 DEF Trial!Relaunch, ExpPlaces, Trial!Idle
  <2>3. ExpOnline'
    BY <1>0, <1>9 DEF Trial!Relaunch, ExpOnline, Trial!Idle
  <2>4. ExpOffline'
    BY <1>0, <1>9 DEF Trial!Relaunch, ExpOffline, Trial!Idle
  <2>5. ExpTraining'
    BY <1>0, <1>9 DEF Trial!Relaunch, ExpTraining, Trial!Idle
  <2>6. ExpEvidence'
    BY <1>0, <1>9 DEF Trial!Relaunch, ExpEvidence
  <2>7. Trial!DecisionsAreSound'
    BY <1>0, <1>9 DEF Trial!Relaunch, Trial!DecisionsAreSound, Trial!Decided
  <2>8. Trial!SecondStageDescends'
    BY <1>0, <1>9 DEF Trial!Relaunch, Trial!SecondStageDescends, Trial!Decided
  <2> QED
    BY <2>1, <2>2, <2>3, <2>4, <2>5, <2>6, <2>7, <2>8
<1>10. CASE Trial!Fails
  <2>1. Trial!ExperimentTypeOK'
    BY <1>0, <1>10 DEF Trial!Fails, Trial!Fault, Trial!ExperimentTypeOK, Trial!Ended, Trial!Goto
  <2>2. ExpPlaces'
    BY <1>0, <1>10 DEF Trial!Fails, ExpPlaces, Trial!Goto
  <2>3. ExpOnline'
    BY <1>0, <1>10 DEF Trial!Fails, ExpOnline, Trial!Goto
  <2>4. ExpOffline'
    BY <1>0, <1>10 DEF Trial!Fails, ExpOffline, Trial!Goto
  <2>5. ExpTraining'
    BY <1>0, <1>10 DEF Trial!Fails, ExpTraining, Trial!Goto
  <2>6. ExpEvidence'
    BY <1>0, <1>10 DEF Trial!Fails, ExpEvidence
  <2>7. Trial!DecisionsAreSound'
    BY <1>0, <1>10 DEF Trial!Fails, Trial!DecisionsAreSound, Trial!Decided
  <2>8. Trial!SecondStageDescends'
    BY <1>0, <1>10 DEF Trial!Fails, Trial!SecondStageDescends, Trial!Decided
  <2> QED
    BY <2>1, <2>2, <2>3, <2>4, <2>5, <2>6, <2>7, <2>8
<1>11. CASE Trial!Crash
  <2>1. Trial!ExperimentTypeOK'
    BY <1>0, <1>11 DEF Trial!Crash, Trial!Fault, Trial!ExperimentTypeOK, Trial!Stages,
       Trial!Contests, Trial!Idle
  <2>2. ExpPlaces'
    BY <1>0, <1>11 DEF Trial!Crash, ExpPlaces, Trial!Idle
  <2>3. ExpOnline'
    BY <1>0, <1>11 DEF Trial!Crash, ExpOnline, Trial!Idle
  <2>4. ExpOffline'
    BY <1>0, <1>11 DEF Trial!Crash, ExpOffline, Trial!Idle
  <2>5. ExpTraining'
    BY <1>0, <1>11 DEF Trial!Crash, ExpTraining, Trial!Idle
  <2>6. ExpEvidence'
    BY <1>0, <1>11 DEF Trial!Crash, ExpEvidence
  <2>7. Trial!DecisionsAreSound'
    BY <1>0, <1>11 DEF Trial!Crash, Trial!DecisionsAreSound, Trial!Decided
  <2>8. Trial!SecondStageDescends'
    BY <1>0, <1>11 DEF Trial!Crash, Trial!SecondStageDescends, Trial!Decided
  <2> QED
    BY <2>1, <2>2, <2>3, <2>4, <2>5, <2>6, <2>7, <2>8
<1>12. CASE UNCHANGED Trial!experimentVars
  BY <1>12 DEF Trial!experimentVars, ExpEvidence, ExpOffline, ExpOnline, ExpPlaces, ExpTraining,
     Trial!Decided, Trial!DecisionsAreSound, Trial!ExperimentTypeOK, Trial!NextArm, Trial!Open,
     Trial!SecondStageDescends
<1> QED
  BY <1>1, <1>2, <1>3, <1>4, <1>5, <1>6, <1>7, <1>8, <1>9, <1>10, <1>11, <1>12 DEF
     Trial!ExperimentNext, Trial!RunnerStep

LEMMA ExpInvariance ==
  ASSUME Trial!ExperimentAssumption PROVE Trial!ExperimentSpec => []ExpInv
<1>1. Trial!ExperimentInit => ExpInv
  BY ExpInitHolds
<1>2. ExpInv /\ [Trial!ExperimentNext]_(Trial!experimentVars) => ExpInv'
  BY ExpStepKeeps
<1> QED
  BY <1>1, <1>2, PTL DEF Trial!ExperimentSpec

\* For any number of generations, faults and launches, and for every kind of
\* experiment: a winner is decided from kept, valid evidence that is that of the
\* stored evaluation, between arms trained to the end, and the arms of a second
\* stage descend from the winner of the first.
THEOREM ExperimentsAreDecidedSoundly ==
  ASSUME Trial!ExperimentAssumption
  PROVE  Trial!ExperimentSpec => [](Trial!DecisionsAreSound /\ Trial!SecondStageDescends)
<1>1. ExpInv => Trial!DecisionsAreSound /\ Trial!SecondStageDescends
  BY DEF ExpInv
<1> QED
  BY ExpInvariance, <1>1, PTL

-----------------------------------------------------------------------------
(* PlayService: the requests, the cache of models and the capacity.        *)

ServVars == <<store, req, svc>>
ServSpec == Service!ServiceInit /\ [][Service!ServiceNext]_ServVars

ServModel == [id : Ids, content : 1..2]
ServReq == [pc : Service!Outcomes \cup Service!Holding \cup {"idle", "admit"},
            kind : {"move", "game"}, ids : Seq(Ids), place : 0..2, models : Seq(ServModel),
            got : 0..2]

ServTypes ==
  /\ store \in [content : [Ids -> 0..2], place : [Ids -> 1..2]]
  /\ req \in [Service!Requests -> ServReq]
  /\ svc \in [entries : Seq(ServModel), flight : [Ids -> 0..NumRequests], moves : Nat,
              game : 0..NumRequests, troubled : SUBSET Ids, replaced : SUBSET Ids,
              changes : 0..MaxChanges]

\* A request that wants a model names one; only those that were admitted hold any.
ServPlace(q) ==
  /\ q.pc # "idle" => Len(q.ids) > 0
  /\ Len(q.models) <= Len(q.ids)
  /\ q.pc \in Service!Holding \ {"play"} => Len(q.models) < Len(q.ids)
  /\ q.pc \notin Service!Holding => q.models = <<>>
  /\ q.pc = "loaded" => q.got # 0

ServPlaces == \A r \in Service!Requests : ServPlace(req[r])

\* A content is the one first published, unless the lineage was made anew.
ServGenuine(i, content) == i \in svc.replaced \/ content = 1

\* So are the contents of the storage, the cache and the flights.
ServModels ==
  /\ \A k \in DOMAIN svc.entries : ServGenuine(svc.entries[k].id, svc.entries[k].content)
  /\ \A i \in Ids : store.content[i] # 0 => ServGenuine(i, store.content[i])
  /\ \A r \in Service!Requests :
       /\ req[r].pc \in {"loaded", "woken"} /\ req[r].got # 0 =>
            ServGenuine(Service!Wanted(r), req[r].got)
       /\ \A k \in DOMAIN req[r].models :
            /\ req[r].models[k].id = req[r].ids[k]
            /\ ServGenuine(req[r].models[k].id, req[r].models[k].content)

\* Whatever cannot be read, or moved away, was in trouble at some time.
ServCause(r) ==
  /\ req[r].pc \in {"lookup", "loading"} =>
       req[r].place # 0 /\ (req[r].place = 2 => Service!Wanted(r) \in svc.troubled)
  /\ req[r].pc = "unloadable" => Service!Wanted(r) \in svc.troubled
  /\ req[r].pc = "woken" /\ req[r].got = 0 => Service!Wanted(r) \in svc.troubled
  /\ req[r].pc \in {"failed", "not_found"} =>
       \E k \in DOMAIN req[r].ids : req[r].ids[k] \in svc.troubled

ServCauses ==
  /\ \A i \in Ids : store.content[i] = 0 \/ store.place[i] = 2 => i \in svc.troubled
  /\ \A r \in Service!Requests : ServCause(r)

\* The cache has a model once and none that is in flight; a flight has its owner.
ServEntries ==
  /\ Len(svc.entries) <= MaxEntries
  /\ \A k, l \in DOMAIN svc.entries : svc.entries[k].id = svc.entries[l].id => k = l
  /\ \A k \in DOMAIN svc.entries : svc.flight[svc.entries[k].id] = 0

ServFlights ==
  \A r \in Service!Requests : \A i \in Ids :
    /\ svc.flight[i] = r <=> req[r].pc \in Service!Owning /\ Service!Wanted(r) = i
    /\ req[r].pc = "waiting" /\ Service!Wanted(r) = i => svc.flight[i] # 0

ServHolders(sort) ==
  {r \in Service!Requests : req[r].kind = sort /\ req[r].pc \in Service!Holding}

ServCapacity ==
  /\ svc.moves + Cardinality(ServHolders("move")) = MoveConcurrency
  /\ ServHolders("game") = IF svc.game = 0 THEN {} ELSE {svc.game}

ServInv ==
  /\ ServTypes /\ ServPlaces /\ ServModels /\ ServCauses /\ ServEntries /\ ServFlights
  /\ ServCapacity


\* What a hit does to the cache: entry k moves to the end.
LEMMA ServMoved ==
  ASSUME NEW S, NEW s \in Seq(S), NEW k \in 1..Len(s)
  PROVE  LET t == Append(Service!RemoveAt(s, k), s[k]) IN
         /\ t \in Seq(S) /\ Len(t) = Len(s)
         /\ \A j \in 1..Len(s) : t[j] = s[IF j < k THEN j ELSE IF j < Len(s) THEN j + 1 ELSE k]
<1> DEFINE a == SubSeq(s, 1, k - 1)
           b == SubSeq(s, k + 1, Len(s))
           u == a \o b
           t == Append(u, s[k])
<1>1. Len(s) \in Nat /\ k \in Nat /\ k >= 1 /\ k <= Len(s)
  BY LenProperties
<1>2. /\ a \in Seq(S) /\ Len(a) = k - 1 /\ \A j \in 1..k-1 : a[j] = s[j]
  BY <1>1, SubSeqProperties
<1>3. /\ b \in Seq(S) /\ Len(b) = Len(s) - k /\ \A j \in 1..Len(s)-k : b[j] = s[k + j]
  BY <1>1, SubSeqProperties
<1> HIDE DEF a, b
<1>4. /\ u \in Seq(S) /\ Len(u) = Len(s) - 1
      /\ \A j \in 1..Len(s)-1 : u[j] = IF j < k THEN s[j] ELSE s[j + 1]
  <2>1. u \in Seq(S) /\ Len(u) = Len(a) + Len(b)
    BY <1>2, <1>3, ConcatProperties
  <2>2. \A j \in 1..Len(a)+Len(b) : u[j] = IF j <= Len(a) THEN a[j] ELSE b[j - Len(a)]
    BY <1>2, <1>3, ConcatProperties
  <2>3. Len(a) + Len(b) = Len(s) - 1
    BY <1>1, <1>2, <1>3
  <2>4. ASSUME NEW j \in 1..Len(s)-1 PROVE u[j] = IF j < k THEN s[j] ELSE s[j + 1]
    <3>1. CASE j < k
      BY <1>1, <1>2, <2>2, <2>3, <3>1
    <3>2. CASE ~(j < k)
      <4>1. j - Len(a) \in 1..Len(s)-k /\ ~(j <= Len(a)) /\ k + (j - Len(a)) = j + 1
        BY <1>1, <1>2, <3>2
      <4> QED
        BY <1>1, <1>3, <2>2, <2>3, <3>2, <4>1
    <3> QED
      BY <3>1, <3>2
  <2> QED
    BY <2>1, <2>3, <2>4
<1> HIDE DEF u
<1>5. s[k] \in S
  BY <1>1, ElementOfSeq
<1>6. /\ t \in Seq(S) /\ Len(t) = Len(s) /\ t[Len(s)] = s[k]
      /\ \A j \in 1..Len(s)-1 : t[j] = u[j]
  BY <1>1, <1>4, <1>5, AppendProperties
<1>7. ASSUME NEW j \in 1..Len(s)
      PROVE  t[j] = s[IF j < k THEN j ELSE IF j < Len(s) THEN j + 1 ELSE k]
  <2>1. CASE j < Len(s)
    <3>1. j \in 1..Len(s)-1
      BY <1>1, <2>1
    <3> QED
      BY <1>4, <1>6, <2>1, <3>1
  <2>2. CASE ~(j < Len(s))
    <3>1. j = Len(s) /\ ~(j < k)
      BY <1>1, <2>2
    <3> QED
      BY <1>6, <2>2, <3>1
  <2> QED
    BY <2>1, <2>2
<1> QED
  BY <1>6, <1>7 DEF u, a, b, Service!RemoveAt

\* What an insertion does to it: the oldest entry goes when there is one too many.
LEMMA ServInserted ==
  ASSUME NEW S, NEW s \in Seq(S), NEW e \in S, MaxEntries \in Nat \ {0}, Len(s) <= MaxEntries
  PROVE  LET t == Service!Newest(Append(s, e)) IN
         /\ t \in Seq(S) /\ Len(t) <= MaxEntries /\ Len(t) > 0 /\ t[Len(t)] = e
         /\ Len(t) <= Len(s) + 1 /\ Len(t) >= Len(s)
         /\ \A j \in 1..Len(t)-1 : t[j] = s[j + (Len(s) + 1 - Len(t))]
<1> DEFINE u == Append(s, e)
           t == Service!Newest(u)
<1>1. /\ Len(s) \in Nat /\ u \in Seq(S) /\ Len(u) = Len(s) + 1 /\ u[Len(s) + 1] = e
      /\ \A j \in 1..Len(s) : u[j] = s[j]
  BY LenProperties, AppendProperties
<1>2. CASE Len(u) > MaxEntries
  <2>1. Len(s) = MaxEntries
    BY <1>1, <1>2
  <2>2. t = SubSeq(u, 2, Len(s) + 1)
    <3>1. t = SubSeq(u, Len(u) - MaxEntries + 1, Len(u))
      BY <1>2 DEF Service!Newest
    <3>2. Len(u) - MaxEntries + 1 = 2
      BY <1>1, <2>1
    <3> QED
      BY <1>1, <3>1, <3>2
  <2> HIDE DEF t, u
  <2>3. /\ t \in Seq(S) /\ Len(t) = Len(s) /\ \A j \in 1..Len(s) : t[j] = u[j + 1]
    <3>1. /\ 2 \in 1..Len(u)+1 /\ Len(s) + 1 \in 1-1..Len(u)
      BY <1>1, <2>1
    <3>2. \A j \in 2..Len(s)+1 : u[j] \in S
      <4> SUFFICES ASSUME NEW j \in 2..Len(s)+1 PROVE u[j] \in S
        OBVIOUS
      <4>1. j \in 1..Len(u)
        BY <1>1
      <4> QED
        BY <1>1, <4>1, ElementOfSeq
    <3>3. /\ SubSeq(u, 2, Len(s) + 1) \in Seq(S)
          /\ Len(SubSeq(u, 2, Len(s) + 1)) = IF 2 <= Len(s) + 1 THEN Len(s) + 1 - 2 + 1 ELSE 0
          /\ \A j \in 1..Len(s)+1-2+1 : SubSeq(u, 2, Len(s) + 1)[j] = u[2 + j - 1]
      BY <1>1, <3>2, SubSeqProperties
    <3>4. Len(s) + 1 - 2 + 1 = Len(s) /\ 2 <= Len(s) + 1 /\ \A j \in 1..Len(s) : 2 + j - 1 = j + 1
      BY <1>1, <2>1
    <3> QED
      BY <2>2, <3>3, <3>4
  <2>4. t[Len(t)] = e
    BY <1>1, <2>1, <2>3
  <2>5. \A j \in 1..Len(t)-1 : t[j] = s[j + (Len(s) + 1 - Len(t))]
    BY <1>1, <2>1, <2>3
  <2> QED
    BY <1>1, <2>1, <2>3, <2>4, <2>5 DEF t, u
<1>3. CASE ~(Len(u) > MaxEntries)
  <2>1. t = u
    BY <1>3 DEF Service!Newest
  <2> HIDE DEF t, u
  <2>2. Len(t) <= MaxEntries /\ Len(t) = Len(s) + 1
    BY <1>1, <1>3, <2>1
  <2>3. \A j \in 1..Len(t)-1 : t[j] = s[j + (Len(s) + 1 - Len(t))]
    BY <1>1, <2>1, <2>2
  <2> QED
    BY <1>1, <2>1, <2>2, <2>3 DEF t, u
<1> QED
  BY <1>2, <1>3


LEMMA ServInitHolds == ASSUME Service!ServiceAssumption, Service!ServiceInit PROVE ServInv
<1>1. /\ MoveConcurrency \in Nat /\ MaxEntries \in Nat \ {0} /\ NumRequests \in Nat
      /\ MaxChanges \in Nat
  BY DEF Service!ServiceAssumption
<1>2. /\ store = [content |-> [i \in Ids |-> 1], place |-> [i \in Ids |-> 1]]
      /\ req = [r \in Service!Requests |-> Service!Idle]
      /\ svc = [entries |-> <<>>, flight |-> [i \in Ids |-> 0], moves |-> MoveConcurrency,
                game |-> 0, troubled |-> {}, replaced |-> {}, changes |-> 0]
  BY DEF Service!ServiceInit
<1>3. \A r \in Service!Requests : /\ req[r].pc = "idle" /\ req[r].models = <<>> /\ req[r].ids = <<>>
                                 /\ req[r] \in ServReq /\ r # 0
  <2>1. Service!Idle \in ServReq
    BY EmptySeq DEF ServReq, Service!Idle, Service!Nothing
  <2> QED
    BY <1>1, <1>2, <2>1 DEF Service!Idle, Service!Requests
<1>4. ServTypes
  <2>1. /\ svc.entries = <<>> /\ svc.entries \in Seq(ServModel)
    BY <1>2, EmptySeq
  <2> QED
    BY <1>1, <1>2, <1>3, <2>1 DEF ServTypes
<1>5. ServPlaces
  BY <1>3, EmptySeq DEF ServPlaces, ServPlace, Service!Holding
<1>6. ServModels
  BY <1>2, <1>3 DEF ServModels, ServGenuine
<1>7. ServCauses
  BY <1>2, <1>3 DEF ServCauses, ServCause
<1>8. ServEntries
  BY <1>1, <1>2 DEF ServEntries
<1>9. ServFlights
  BY <1>2, <1>3 DEF ServFlights, Service!Owning
<1>10. ServCapacity
  <2>1. ServHolders("move") = {} /\ ServHolders("game") = {}
    BY <1>3 DEF ServHolders, Service!Holding
  <2> QED
    <3>1. Cardinality(ServHolders("move")) = 0 /\ svc.moves = MoveConcurrency /\ svc.game = 0
      BY <1>2, <2>1, FS_EmptySet
    <3> QED
      BY <1>1, <2>1, <3>1 DEF ServCapacity
<1> QED
  BY <1>4, <1>5, <1>6, <1>7, <1>8, <1>9, <1>10 DEF ServInv


\* The requests that hold a place, as one of them takes or leaves it.
LEMMA ServHoldersChange ==
  ASSUME Service!ServiceAssumption, ServTypes, ServCapacity, NEW r \in Service!Requests,
         \A w \in Service!Requests \ {r} :
           req'[w].kind = req[w].kind /\ (req'[w].pc \in Service!Holding <=> req[w].pc \in Service!Holding),
         req'[r].pc \in Service!Holding => req'[r].kind \in {"move", "game"}
  PROVE  /\ /\ req'[r].kind = req[r].kind
            /\ req'[r].pc \in Service!Holding <=> req[r].pc \in Service!Holding
            /\ svc'.moves = svc.moves /\ svc'.game = svc.game
            => ServCapacity'
         /\ /\ req[r].pc \notin Service!Holding /\ req'[r].pc \notin Service!Holding
            /\ svc'.moves = svc.moves /\ svc'.game = svc.game
            => ServCapacity'
         /\ /\ req[r].pc \notin Service!Holding /\ req'[r].pc \in Service!Holding
            /\ \/ req'[r].kind = "move" /\ svc'.moves = svc.moves - 1 /\ svc'.game = svc.game
               \/ req'[r].kind = "game" /\ svc'.moves = svc.moves /\ svc.game = 0 /\ svc'.game = r
            => ServCapacity'
         /\ /\ req[r].pc \in Service!Holding /\ req'[r].pc \notin Service!Holding
            /\ \/ req[r].kind = "move" /\ svc'.moves = svc.moves + 1 /\ svc'.game = svc.game
               \/ req[r].kind = "game" /\ svc'.moves = svc.moves /\ svc'.game = 0
            => ServCapacity'
<1> DEFINE moves == ServHolders("move")
           games == ServHolders("game")
<1>1. IsFiniteSet(moves) /\ Cardinality(moves) \in Nat /\ svc.moves \in Nat
  <2>1. IsFiniteSet(Service!Requests)
    BY FS_Interval DEF Service!ServiceAssumption, Service!Requests
  <2>2. moves \subseteq Service!Requests
    BY DEF ServHolders
  <2> QED
    BY <2>1, <2>2, FS_Subset, FS_CardinalityType DEF ServTypes
<1>2. r # 0 /\ Cardinality(moves) = MoveConcurrency - svc.moves /\ MoveConcurrency \in Nat
      /\ games = IF svc.game = 0 THEN {} ELSE {svc.game}
  BY <1>1 DEF ServCapacity, Service!Requests, Service!ServiceAssumption
<1>3. /\ r \notin moves => Cardinality(moves \cup {r}) = Cardinality(moves) + 1
      /\ r \in moves => Cardinality(moves \ {r}) = Cardinality(moves) - 1
  BY <1>1, FS_AddElement, FS_RemoveElement
<1>4. ASSUME NEW sort \in {"move", "game"}
      PROVE  /\ ServHolders(sort)' \ {r} = ServHolders(sort) \ {r}
             /\ r \in ServHolders(sort)' <=> req'[r].kind = sort /\ req'[r].pc \in Service!Holding
             /\ r \in ServHolders(sort) <=> req[r].kind = sort /\ req[r].pc \in Service!Holding
  BY DEF ServHolders, Service!Requests
<1>5. req[r].kind \in {"move", "game"}
  BY DEF ServTypes, ServReq
<1>6. /\ (r \in moves' <=> r \in moves) => moves' = moves
      /\ (r \in games' <=> r \in games) => games' = games
      /\ r \in moves' /\ r \notin moves => moves' = moves \cup {r}
      /\ r \in moves /\ r \notin moves' => moves' = moves \ {r}
      /\ r \in games' /\ r \notin games => games' = games \cup {r}
      /\ r \in games /\ r \notin games' => games' = games \ {r}
  <2>1. moves' \ {r} = moves \ {r} /\ games' \ {r} = games \ {r}
    BY <1>4
  <2> HIDE DEF moves, games
  <2> QED
    BY <2>1
<1>7. ServCapacity' <=> /\ svc'.moves + Cardinality(moves') = MoveConcurrency
                        /\ games' = IF svc'.game = 0 THEN {} ELSE {svc'.game}
  BY DEF ServCapacity
<1>8. /\ r \in moves <=> req[r].kind = "move" /\ req[r].pc \in Service!Holding
      /\ r \in games <=> req[r].kind = "game" /\ req[r].pc \in Service!Holding
      /\ r \in moves' <=> req'[r].kind = "move" /\ req'[r].pc \in Service!Holding
      /\ r \in games' <=> req'[r].kind = "game" /\ req'[r].pc \in Service!Holding
  BY <1>4
<1> HIDE DEF moves, games
<1>a. ASSUME \/ /\ req'[r].kind = req[r].kind
                /\ req'[r].pc \in Service!Holding <=> req[r].pc \in Service!Holding
             \/ req[r].pc \notin Service!Holding /\ req'[r].pc \notin Service!Holding,
             svc'.moves = svc.moves, svc'.game = svc.game
      PROVE  ServCapacity'
  <2>1. moves' = moves /\ games' = games
    BY <1>6, <1>8, <1>a
  <2> QED
    BY <1>1, <1>2, <1>7, <1>a, <2>1
<1>b. ASSUME req[r].pc \notin Service!Holding, req'[r].pc \in Service!Holding,
             req'[r].kind = "move", svc'.moves = svc.moves - 1, svc'.game = svc.game
      PROVE  ServCapacity'
  <2>1. moves' = moves \cup {r} /\ games' = games /\ r \notin moves
    BY <1>6, <1>8, <1>b
  <2>2. Cardinality(moves') = Cardinality(moves) + 1
    BY <1>3, <2>1
  <2> QED
    BY <1>1, <1>2, <1>7, <1>b, <2>1, <2>2
<1>c. ASSUME req[r].pc \notin Service!Holding, req'[r].pc \in Service!Holding,
             req'[r].kind = "game", svc'.moves = svc.moves, svc.game = 0, svc'.game = r
      PROVE  ServCapacity'
  <2>1. moves' = moves /\ games' = games \cup {r}
    BY <1>6, <1>8, <1>c
  <2> QED
    BY <1>1, <1>2, <1>7, <1>c, <2>1
<1>d. ASSUME req[r].pc \in Service!Holding, req'[r].pc \notin Service!Holding,
             req[r].kind = "move", svc'.moves = svc.moves + 1, svc'.game = svc.game
      PROVE  ServCapacity'
  <2>1. moves' = moves \ {r} /\ games' = games /\ r \in moves
    BY <1>6, <1>8, <1>d
  <2>2. Cardinality(moves') = Cardinality(moves) - 1
    BY <1>3, <2>1
  <2> QED
    BY <1>1, <1>2, <1>7, <1>d, <2>1, <2>2
<1>e. ASSUME req[r].pc \in Service!Holding, req'[r].pc \notin Service!Holding,
             req[r].kind = "game", svc'.moves = svc.moves, svc'.game = 0
      PROVE  ServCapacity'
  <2>1. moves' = moves /\ games' = games \ {r} /\ r \in games
    BY <1>6, <1>8, <1>e
  <2>2. games' = {}
    BY <1>2, <2>1
  <2> QED
    BY <1>1, <1>2, <1>7, <1>e, <2>1, <2>2
<1> QED
  BY <1>a, <1>b, <1>c, <1>d, <1>e


\* The model a request is about to get is one of those it names.
LEMMA ServWanted ==
  ASSUME ServInv, NEW r \in Service!Requests, req[r].pc \in Service!Holding \ {"play"}
  PROVE  /\ Len(req[r].models) + 1 \in DOMAIN req[r].ids /\ Service!Wanted(r) \in Ids
         /\ \E k \in DOMAIN req[r].ids : req[r].ids[k] = Service!Wanted(r)
<1>1. /\ req[r].ids \in Seq(Ids) /\ req[r].models \in Seq(ServModel)
      /\ Len(req[r].models) < Len(req[r].ids)
  BY DEF ServInv, ServTypes, ServReq, ServPlaces, ServPlace
<1>2. Len(req[r].models) + 1 \in 1..Len(req[r].ids)
  BY <1>1, LenProperties
<1> QED
  BY <1>1, <1>2, ElementOfSeq, LenProperties DEF Service!Wanted


\* Whoever leaves gives back its place; a failure is for a checkpoint in trouble.
LEMMA ServLeaves ==
  ASSUME Service!ServiceAssumption, ServInv, NEW r \in Service!Requests,
         NEW outcome \in {"failed", "search_failed", "answered"},
         req[r].pc \in Service!Holding \ Service!Owning,
         outcome = "failed" => \E k \in DOMAIN req[r].ids : req[r].ids[k] \in svc.troubled,
         req' = [req EXCEPT ![r] = Service!Ended(r, outcome)], store' = store,
         NEW n \in 0..MaxChanges, svc' = [Service!Released(r) EXCEPT !.changes = n]
  PROVE  ServInv'
<1> DEFINE q == req[r]
           x == Service!Ended(r, outcome)
<1>0. q \in ServReq /\ q.models \in Seq(ServModel) /\ q.ids \in Seq(Ids) /\ <<>> \in Seq(ServModel)
  BY EmptySeq DEF ServInv, ServTypes, ServReq
<1>1. /\ x \in ServReq /\ req' = [req EXCEPT ![r] = x]
      /\ x.pc = outcome /\ x.kind = q.kind /\ x.ids = q.ids /\ x.models = <<>>
  <2>1. outcome \in Service!Outcomes /\ q.kind \in {"move", "game"} /\ 0 \in 0..2
    BY <1>0 DEF Service!Outcomes, ServReq
  <2>2. Service!Idle \in ServReq
    BY <1>0 DEF Service!Idle, Service!Nothing, ServReq, Service!Outcomes
  <2>3. x = [Service!Idle EXCEPT !.pc = outcome, !.kind = q.kind, !.ids = q.ids]
    BY DEF Service!Ended
  <2>4. x \in ServReq
    BY <1>0, <2>1, <2>2, <2>3 DEF ServReq
  <2>5. x.pc = outcome /\ x.kind = q.kind /\ x.ids = q.ids /\ x.models = <<>>
    BY <2>3 DEF Service!Idle
  <2> QED
    BY <2>4, <2>5
<1>2. /\ req' \in [Service!Requests -> ServReq] /\ req'[r] = x
      /\ \A w \in Service!Requests \ {r} : req'[w] = req[w]
  BY <1>1 DEF ServInv, ServTypes
<1>a. /\ req'[r].pc = outcome /\ req'[r].models = <<>> /\ req'[r].ids = q.ids
      /\ req'[r].kind = q.kind /\ Len(req'[r].models) = 0 /\ DOMAIN req'[r].models = {}
      /\ Len(q.ids) > 0
  BY <1>0, <1>1, <1>2, EmptySeq DEF ServInv, ServPlaces, ServPlace, Service!Holding
<1>b. outcome \notin Service!Holding /\ outcome # "idle" /\ outcome # "not_found"
  BY DEF Service!Holding
<1>c. Service!Owning \subseteq Service!Holding
      /\ {"lookup", "loading", "unloadable", "woken", "loaded", "waiting"} \subseteq Service!Holding
  BY DEF Service!Holding, Service!Owning
<1> HIDE DEF x
<1>3. /\ svc'.entries = svc.entries /\ svc'.flight = svc.flight /\ svc'.troubled = svc.troubled
      /\ svc'.replaced = svc.replaced
      /\ q.kind = "move" => svc'.moves = svc.moves + 1 /\ svc'.game = svc.game
      /\ q.kind # "move" => svc'.moves = svc.moves /\ svc'.game = 0
  BY DEF ServInv, ServTypes, Service!Released
<1>4. ServTypes'
  <2>1. CASE q.kind = "move"
    <3>1. svc' = [svc EXCEPT !.moves = @ + 1, !.changes = n] /\ svc.moves + 1 \in Nat
      BY <2>1 DEF Service!Released, ServInv, ServTypes
    <3> QED
      BY <1>2, <3>1 DEF ServInv, ServTypes
  <2>2. CASE q.kind # "move"
    <3>1. svc' = [svc EXCEPT !.game = 0, !.changes = n] /\ 0 \in 0..NumRequests
      BY <2>2 DEF Service!Released, Service!ServiceAssumption
    <3> QED
      BY <1>2, <3>1 DEF ServInv, ServTypes
  <2> QED
    BY <2>1, <2>2
<1>d. store' = store
  OBVIOUS
<1>5. ServPlaces'
  <2>1. ServPlace(req'[r])
    BY <1>a, <1>b, <1>c DEF ServPlace
  <2> QED
    BY <1>2, <2>1 DEF ServInv, ServPlaces
<1>6. ServModels'
  <2>1. \A w \in Service!Requests \ {r} : Service!Wanted(w)' = Service!Wanted(w)
    BY <1>2 DEF Service!Wanted
  <2> QED
    BY <1>2, <1>3, <1>a, <1>b, <1>c, <1>d, <2>1 DEF ServInv, ServModels, ServGenuine
<1>7. ServCauses'
  <2>1. \A w \in Service!Requests \ {r} : ServCause(w)'
    BY <1>2, <1>3 DEF ServInv, ServCauses, ServCause, Service!Wanted
  <2>2. ServCause(r)'
    BY <1>3, <1>a, <1>b, <1>c DEF ServCause
  <2> QED
    BY <1>3, <1>d, <2>1, <2>2 DEF ServInv, ServCauses
<1>8. ServEntries'
  BY <1>3 DEF ServInv, ServEntries
<1>9. ServFlights'
  <2>1. \A w \in Service!Requests \ {r} : Service!Wanted(w)' = Service!Wanted(w)
    BY <1>2 DEF Service!Wanted
  <2> QED
    BY <1>2, <1>3, <1>a, <1>b, <1>c, <2>1 DEF ServInv, ServFlights
<1>10. ServCapacity'
  <2>1. /\ q.pc \in Service!Holding /\ req'[r].pc \notin Service!Holding /\ q.kind \in {"move", "game"}
    BY <1>0, <1>a, <1>b DEF ServReq
  <2> QED
    BY <1>2, <1>3, <2>1, ServHoldersChange DEF ServInv
<1> QED
  BY <1>4, <1>5, <1>6, <1>7, <1>8, <1>9, <1>10 DEF ServInv

\* A request takes a place, or is refused.
LEMMA ServAdmits ==
  ASSUME Service!ServiceAssumption, ServInv, NEW r \in Service!Requests, Service!Admit(r)
  PROVE  ServInv'
<1> DEFINE q == req[r]
<1>0. q \in ServReq /\ q.models \in Seq(ServModel) /\ q.ids \in Seq(Ids)
  BY DEF ServInv, ServTypes, ServReq
<1>1. CASE q.kind = "move" /\ q.pc = "admit" /\ svc.moves > 0 /\ Service!Goto(r, "describe")
             /\ svc' = [svc EXCEPT !.moves = @ - 1] /\ UNCHANGED store
  <2> DEFINE x == [q EXCEPT !.pc = "describe"]
  <2>1. x \in ServReq
    BY <1>0, <1>1 DEF ServReq, Service!Outcomes, Service!Holding
  <2>2. req' = [req EXCEPT ![r] = x] /\ store' = store
    BY <1>0, <1>1 DEF Service!Goto
  <2>3. svc' = [svc EXCEPT !.moves = @ - 1] /\ svc'.moves \in Nat
    BY <1>1 DEF ServInv, ServTypes
  <2>4. /\ req' \in [Service!Requests -> ServReq] /\ req'[r] = x
        /\ \A w \in Service!Requests \ {r} : req'[w] = req[w]
    BY <2>1, <2>2 DEF ServInv, ServTypes
  <2>5. ServTypes'
    BY <1>0, <1>1, <2>2, <2>3, <2>4 DEF ServInv, ServTypes
  <2>6. ServPlaces'
    BY <1>0, <1>1, <2>2, <2>3, <2>4 DEF ServInv, ServPlaces, ServPlace, Service!Holding
  <2>7. ServModels'
    BY <1>0, <1>1, <2>2, <2>3, <2>4 DEF ServInv, ServModels, ServGenuine, Service!Wanted
  <2>8. ServCauses'
    BY <1>0, <1>1, <2>2, <2>3, <2>4 DEF ServInv, ServCauses, ServCause, Service!Wanted
  <2>9. ServEntries'
    BY <1>0, <1>1, <2>2, <2>3, <2>4 DEF ServInv, ServEntries, ServTypes
  <2>10. ServFlights'
    BY <1>0, <1>1, <2>2, <2>3, <2>4 DEF ServInv, ServFlights, Service!Owning, Service!Wanted,
       ServTypes
  <2>11. ServCapacity'
    BY SMTT(30), <1>0, <1>1, <2>2, <2>3, <2>4, ServHoldersChange DEF ServInv,
       Service!Outcomes, Service!Holding, ServReq
  <2> QED
    BY <2>5, <2>6, <2>7, <2>8, <2>9, <2>10, <2>11 DEF ServInv
<1>2. CASE q.kind = "game" /\ q.pc = "admit" /\ svc.game = 0 /\ Service!Goto(r, "describe")
             /\ svc' = [svc EXCEPT !.game = r] /\ UNCHANGED store
  <2> DEFINE x == [q EXCEPT !.pc = "describe"]
  <2>1. x \in ServReq
    BY <1>0, <1>2 DEF ServReq, Service!Outcomes, Service!Holding
  <2>2. req' = [req EXCEPT ![r] = x] /\ store' = store
    BY <1>0, <1>2 DEF Service!Goto
  <2>3. svc' = [svc EXCEPT !.game = r] /\ r \in 0..NumRequests
    BY <1>2 DEF Service!Requests
  <2>4. /\ req' \in [Service!Requests -> ServReq] /\ req'[r] = x
        /\ \A w \in Service!Requests \ {r} : req'[w] = req[w]
    BY <2>1, <2>2 DEF ServInv, ServTypes
  <2>5. ServTypes'
    BY <1>0, <1>2, <2>2, <2>3, <2>4 DEF ServInv, ServTypes
  <2>6. ServPlaces'
    BY <1>0, <1>2, <2>2, <2>3, <2>4 DEF ServInv, ServPlaces, ServPlace, Service!Holding
  <2>7. ServModels'
    BY <1>0, <1>2, <2>2, <2>3, <2>4 DEF ServInv, ServModels, ServGenuine, Service!Wanted
  <2>8. ServCauses'
    BY <1>0, <1>2, <2>2, <2>3, <2>4 DEF ServInv, ServCauses, ServCause, Service!Wanted
  <2>9. ServEntries'
    BY <1>0, <1>2, <2>2, <2>3, <2>4 DEF ServInv, ServEntries, ServTypes
  <2>10. ServFlights'
    BY <1>0, <1>2, <2>2, <2>3, <2>4 DEF ServInv, ServFlights, Service!Owning, Service!Wanted
  <2>11. ServCapacity'
    <3>1. /\ q.pc \notin Service!Holding /\ req'[r].pc \in Service!Holding
          /\ req'[r].kind = "game"
      BY <1>0, <1>2, <2>4 DEF Service!Outcomes, Service!Holding, ServReq
    <3> HIDE DEF x
    <3> QED
      BY <1>0, <1>2, <2>3, <2>4, <3>1, ServHoldersChange DEF ServInv, ServTypes
  <2> QED
    BY <2>5, <2>6, <2>7, <2>8, <2>9, <2>10, <2>11 DEF ServInv
<1>3. CASE q.pc = "admit" /\ Service!Goto(r, "busy") /\ UNCHANGED <<svc, store>>
  <2> DEFINE x == [q EXCEPT !.pc = "busy"]
  <2>1. x \in ServReq
    BY <1>0, <1>3 DEF ServReq, Service!Outcomes, Service!Holding
  <2>2. req' = [req EXCEPT ![r] = x] /\ store' = store
    BY <1>0, <1>3 DEF Service!Goto
  <2>3. svc' = svc
    BY <1>3
  <2>4. /\ req' \in [Service!Requests -> ServReq] /\ req'[r] = x
        /\ \A w \in Service!Requests \ {r} : req'[w] = req[w]
    BY <2>1, <2>2 DEF ServInv, ServTypes
  <2>5. ServTypes'
    BY <1>0, <1>3, <2>2, <2>3, <2>4 DEF ServInv, ServTypes
  <2>6. ServPlaces'
    BY <1>0, <1>3, <2>2, <2>3, <2>4 DEF ServInv, ServPlaces, ServPlace, Service!Holding
  <2>7. ServModels'
    BY <1>0, <1>3, <2>2, <2>3, <2>4 DEF ServInv, ServModels, ServGenuine, Service!Wanted
  <2>8. ServCauses'
    BY <1>0, <1>3, <2>2, <2>3, <2>4 DEF ServInv, ServCauses, ServCause, Service!Wanted
  <2>9. ServEntries'
    BY <1>0, <1>3, <2>2, <2>3, <2>4 DEF ServInv, ServEntries, ServTypes
  <2>10. ServFlights'
    BY <1>0, <1>3, <2>2, <2>3, <2>4 DEF ServInv, ServFlights, Service!Owning, Service!Wanted,
       ServTypes
  <2>11. ServCapacity'
    BY <1>0, <1>3, <2>2, <2>3, <2>4, ServHoldersChange DEF ServInv, Service!Outcomes,
       Service!Holding, ServReq
  <2> QED
    BY <2>5, <2>6, <2>7, <2>8, <2>9, <2>10, <2>11 DEF ServInv
<1> QED
  BY <1>1, <1>2, <1>3 DEF Service!Admit, Service!Goto, Service!Requests, Service!ServiceAssumption


\* A request that stays where it is counted, and waits for the model it wanted: the
\* cache and the capacity are what they were.
LEMMA ServSteps ==
  ASSUME Service!ServiceAssumption, ServInv, NEW r \in Service!Requests, NEW x \in ServReq,
         req' = [req EXCEPT ![r] = x], store' = store, svc' = svc,
         x.kind = req[r].kind, x.ids = req[r].ids, x.models = req[r].models,
         req[r].pc \in Service!Holding \ {"play"}, x.pc \in Service!Holding \ {"play"},
         x.pc \in Service!Owning <=> req[r].pc \in Service!Owning,
         x.pc = "loaded" => x.got # 0 /\ ServGenuine(Service!Wanted(r), x.got),
         x.pc # "woken",
         x.pc \in {"lookup", "loading"} =>
           x.place # 0 /\ (x.place = 2 => Service!Wanted(r) \in svc.troubled),
         x.pc = "unloadable" => Service!Wanted(r) \in svc.troubled,
         x.pc = "waiting" => svc.flight[Service!Wanted(r)] # 0
  PROVE  ServInv'
<1>1. /\ req' \in [Service!Requests -> ServReq] /\ req'[r] = x
      /\ \A w \in Service!Requests \ {r} : req'[w] = req[w]
  BY DEF ServInv, ServTypes
<1>2. ServTypes'
  BY <1>1 DEF ServInv, ServTypes
<1>3. ServPlaces'
  <2>1. ServPlace(req'[r])
    BY <1>1 DEF ServInv, ServPlaces, ServPlace, Service!Holding
  <2> QED
    BY <1>1, <2>1 DEF ServInv, ServPlaces
<1>4. \A w \in Service!Requests : Service!Wanted(w)' = Service!Wanted(w)
  BY <1>1 DEF Service!Wanted
<1>5. ServModels'
  <2>1. \A k \in DOMAIN req'[r].models :
          /\ req'[r].models[k].id = req'[r].ids[k]
          /\ ServGenuine(req'[r].models[k].id, req'[r].models[k].content)
    BY <1>1 DEF ServInv, ServModels
  <2> QED
    BY <1>1, <1>4, <2>1 DEF ServInv, ServModels, ServGenuine
<1>6. ServCauses'
  <2>1. ServCause(r)'
    BY <1>1, <1>4 DEF ServCause, Service!Holding
  <2> QED
    BY <1>1, <1>4, <2>1 DEF ServInv, ServCauses, ServCause
<1>7. ServEntries'
  BY DEF ServInv, ServEntries
<1>8. ServFlights'
  <2>1. ASSUME NEW w \in Service!Requests, NEW i \in Ids
        PROVE  /\ svc.flight[i] = w <=> req'[w].pc \in Service!Owning /\ Service!Wanted(w) = i
               /\ req'[w].pc = "waiting" /\ Service!Wanted(w) = i => svc.flight[i] # 0
    <3>1. CASE w = r
      BY <1>1, <3>1 DEF ServInv, ServFlights
    <3>2. CASE w # r
      BY <1>1, <3>2 DEF ServInv, ServFlights
    <3> QED
      BY <3>1, <3>2
  <2> QED
    BY <1>4, <2>1 DEF ServFlights
<1>9. ServCapacity'
  <2>1. req'[r].kind = req[r].kind /\ req'[r].pc \in Service!Holding /\ req[r].pc \in Service!Holding
    BY <1>1
  <2>2. x.kind \in {"move", "game"} /\ svc'.moves = svc.moves /\ svc'.game = svc.game
    BY DEF ServReq
  <2> QED
    BY <1>1, <2>1, <2>2, ServHoldersChange DEF ServInv
<1> QED
  BY <1>2, <1>3, <1>5, <1>6, <1>7, <1>8, <1>9 DEF ServInv


LEMMA ServLeft ==
  ASSUME Service!ServiceAssumption, ServInv, NEW r \in Service!Requests,
         NEW outcome \in {"failed", "search_failed", "answered"},
         req[r].pc \in Service!Holding \ Service!Owning,
         outcome = "failed" => \E k \in DOMAIN req[r].ids : req[r].ids[k] \in svc.troubled,
         Service!Leave(r, outcome), store' = store
  PROVE  ServInv'
<1>1. /\ svc.changes \in 0..MaxChanges /\ req' = [req EXCEPT ![r] = Service!Ended(r, outcome)]
      /\ svc' = Service!Released(r)
  BY DEF ServInv, ServTypes, Service!Leave
<1>2. svc' = [Service!Released(r) EXCEPT !.changes = svc.changes]
  BY <1>1 DEF Service!Released, ServInv, ServTypes
<1> QED
  BY <1>1, <1>2, ServLeaves


\* The loader finds the checkpoint in the catalog, or fails.
LEMMA ServDescribes ==
  ASSUME Service!ServiceAssumption, ServInv, NEW r \in Service!Requests, Service!Describe(r)
  PROVE  ServInv'
<1> DEFINE q == req[r]
           i == Service!Wanted(r)
<1>0. /\ q \in ServReq /\ q.models \in Seq(ServModel) /\ q.ids \in Seq(Ids)
      /\ q.pc = "describe" /\ q.pc \in Service!Holding \ {"play"}
  BY DEF ServInv, ServTypes, ServReq, Service!Describe, Service!Holding
<1>w. /\ i \in Ids /\ store.place[i] \in 1..2 /\ \E k \in DOMAIN q.ids : q.ids[k] = i
  BY <1>0, ServWanted DEF ServInv, ServTypes
<1>1. CASE /\ Service!Listed(i) /\ UNCHANGED <<svc, store>>
           /\ req' = [req EXCEPT ![r].pc = "lookup", ![r].place = store.place[i]]
  <2> DEFINE x == [q EXCEPT !.pc = "lookup", !.place = store.place[i]]
  <2>1. x \in ServReq
    <3>1. "lookup" \in Service!Holding
      BY DEF Service!Holding
    <3>2. store.place[i] \in 0..2
      BY <1>0, <1>w
    <3> HIDE DEF i
    <3> QED
      BY <1>0, <3>1, <3>2 DEF ServReq
  <2>2. req' = [req EXCEPT ![r] = x] /\ store' = store /\ svc' = svc
    BY <1>1 DEF ServInv, ServTypes
  <2>3. /\ x.pc = "lookup" /\ x.kind = q.kind /\ x.ids = q.ids /\ x.models = q.models
        /\ x.place = store.place[i]
    BY <1>0 DEF ServReq
  <2>4. store.place[i] # 0 /\ (store.place[i] = 2 => i \in svc.troubled)
    BY <1>w DEF ServInv, ServCauses
  <2> HIDE DEF x
  <2> QED
    BY <1>0, <2>1, <2>2, <2>3, <2>4, ServSteps DEF Service!Holding, Service!Owning
<1>2. CASE ~Service!Listed(i) /\ Service!Leave(r, "failed") /\ UNCHANGED store
  <2>1. i \in svc.troubled
    BY <1>2, <1>w DEF ServInv, ServCauses, Service!Listed, Service!Nothing
  <2> QED
    BY <1>0, <1>2, <1>w, <2>1, ServLeft DEF Service!Owning
<1> QED
  BY <1>1, <1>2 DEF Service!Describe


\* The owner of a flight reads the artifact where the catalog saw it, or not.
LEMMA ServReads ==
  ASSUME Service!ServiceAssumption, ServInv, NEW r \in Service!Requests, Service!ReadArtifact(r)
  PROVE  ServInv'
<1> DEFINE q == req[r]
           i == Service!Wanted(r)
           loads == Service!Listed(i) /\ store.place[i] = q.place
<1>0. /\ q \in ServReq /\ q.models \in Seq(ServModel) /\ q.ids \in Seq(Ids)
      /\ q.pc = "loading" /\ q.pc \in Service!Holding \ {"play"} /\ q.pc \in Service!Owning
      /\ store' = store /\ svc' = svc
  BY DEF ServInv, ServTypes, ServReq, Service!ReadArtifact, Service!Holding, Service!Owning
<1>w. /\ i \in Ids /\ store.place[i] \in 1..2 /\ store.content[i] \in 0..2
  BY <1>0, ServWanted DEF ServInv, ServTypes
<1>c. /\ q.place # 0 /\ (q.place = 2 => i \in svc.troubled)
      /\ store.content[i] = 0 \/ store.place[i] = 2 => i \in svc.troubled
      /\ store.content[i] # 0 => ServGenuine(i, store.content[i])
  BY <1>0, <1>w DEF ServInv, ServCauses, ServCause, ServModels
<1>1. CASE loads
  <2> DEFINE x == [q EXCEPT !.pc = "loaded", !.got = store.content[i]]
  <2>1. x \in ServReq
    <3>1. "loaded" \in Service!Holding
      BY DEF Service!Holding
    <3>2. store.content[i] \in 0..2
      BY <1>0, <1>w
    <3> HIDE DEF i
    <3> QED
      BY <1>0, <3>1, <3>2 DEF ServReq
  <2>2. req' = [req EXCEPT ![r] = x]
    BY <1>1 DEF Service!ReadArtifact, ServInv, ServTypes
  <2>3. /\ x.pc = "loaded" /\ x.kind = q.kind /\ x.ids = q.ids /\ x.models = q.models
        /\ x.got = store.content[i] /\ store.content[i] # 0
    BY <1>0, <1>1 DEF ServReq, Service!Listed, Service!Nothing
  <2> HIDE DEF x
  <2> QED
    BY <1>0, <1>c, <2>1, <2>2, <2>3, ServSteps DEF Service!Holding, Service!Owning
<1>2. CASE ~loads
  <2> DEFINE x == [q EXCEPT !.pc = "unloadable", !.got = 0]
  <2>1. x \in ServReq
    <3>1. "unloadable" \in Service!Holding
      BY DEF Service!Holding
    <3>2. 0 \in 0..2
      BY <1>0, <1>w
    <3> HIDE DEF i
    <3> QED
      BY <1>0, <3>1, <3>2 DEF ServReq
  <2>2. req' = [req EXCEPT ![r] = x]
    BY <1>2 DEF Service!ReadArtifact, ServInv, ServTypes, Service!Nothing
  <2>3. /\ x.pc = "unloadable" /\ x.kind = q.kind /\ x.ids = q.ids /\ x.models = q.models
    BY <1>0 DEF ServReq
  <2>4. i \in svc.troubled
    <3>1. q.place \in 1..2
      BY <1>0, <1>c DEF ServReq
    <3> QED
      BY <1>2, <1>w, <1>c, <3>1 DEF Service!Listed, Service!Nothing
  <2> HIDE DEF x
  <2> QED
    BY <1>0, <1>c, <2>1, <2>2, <2>3, <2>4, ServSteps DEF Service!Holding, Service!Owning
<1> QED
  BY <1>1, <1>2


\* A request names checkpoints; what is not listed was in trouble.
LEMMA ServAsks ==
  ASSUME Service!ServiceAssumption, ServInv, NEW r \in Service!Requests, Service!Ask(r)
  PROVE  ServInv'
<1> DEFINE q == req[r]
<1>0. /\ q \in ServReq /\ q.models \in Seq(ServModel) /\ q.ids \in Seq(Ids)
      /\ q.pc = "idle" /\ store' = store /\ svc' = svc
  BY DEF ServInv, ServTypes, ServReq, Service!Ask
<1>1. PICK sort \in {"move", "game"} : \E ids \in Service!Games :
        req' = [req EXCEPT ![r].kind = sort, ![r].ids = ids,
                  ![r].pc = IF \A k \in DOMAIN ids : Service!Listed(ids[k])
                              THEN "admit" ELSE "not_found"]
  <2>1. Service!Sides \subseteq Service!Games
    BY DEF Service!Games
  <2> QED
    BY <2>1 DEF Service!Ask
<1>2. PICK ids \in Service!Games :
        req' = [req EXCEPT ![r].kind = sort, ![r].ids = ids,
                  ![r].pc = IF \A k \in DOMAIN ids : Service!Listed(ids[k])
                              THEN "admit" ELSE "not_found"]
  BY <1>1
<1>3. /\ ids \in Seq(Ids) /\ Len(ids) \in 1..2 /\ \A k \in DOMAIN ids : ids[k] \in Ids
  <2>1. CASE \E i \in Ids : ids = <<i>>
    <3>1. PICK i \in Ids : ids = <<i>>
      BY <2>1
    <3>2. Len(ids) = 1 /\ ids \in Seq(Ids) /\ DOMAIN ids = {1} /\ ids[1] \in Ids
      BY <3>1
    <3> QED
      BY <3>2
  <2>2. CASE \E i, j \in Ids : ids = <<i, j>>
    <3>1. PICK i \in Ids, j \in Ids : ids = <<i, j>>
      BY <2>2
    <3>2. Len(ids) = 2 /\ ids \in Seq(Ids) /\ DOMAIN ids = {1, 2}
          /\ ids[1] \in Ids /\ ids[2] \in Ids
      BY <3>1
    <3> QED
      BY <3>2
  <2> QED
    BY <1>2, <2>1, <2>2 DEF Service!Games, Service!Sides
<1> DEFINE pc == IF \A k \in DOMAIN ids : Service!Listed(ids[k]) THEN "admit" ELSE "not_found"
           x == [q EXCEPT !.kind = sort, !.ids = ids, !.pc = pc]
<1>4. /\ pc \in {"admit", "not_found"} /\ pc \in Service!Outcomes \cup {"admit"}
      /\ pc \notin Service!Holding
      /\ pc = "not_found" => \E k \in DOMAIN ids : ids[k] \in svc.troubled
  <2>1. \A i \in Ids : ~Service!Listed(i) => i \in svc.troubled
    BY DEF ServInv, ServCauses, Service!Listed, Service!Nothing
  <2> QED
    BY <1>3, <2>1 DEF Service!Outcomes, Service!Holding
<1> HIDE DEF pc
<1>5. x \in ServReq
  BY <1>0, <1>3, <1>4 DEF ServReq
<1>6. /\ x.pc = pc /\ x.kind = sort /\ x.ids = ids /\ x.models = q.models /\ q.models = <<>>
      /\ q.pc \notin Service!Holding
  BY <1>0 DEF ServInv, ServPlaces, ServPlace, Service!Holding
<1>7. req' = [req EXCEPT ![r] = x]
  BY <1>2 DEF pc, ServInv, ServTypes
<1> HIDE DEF x
<1>8. /\ req' \in [Service!Requests -> ServReq] /\ req'[r] = x
      /\ \A w \in Service!Requests \ {r} : req'[w] = req[w]
  BY <1>5, <1>7 DEF ServInv, ServTypes
<1>9. /\ Len(x.models) = 0 /\ DOMAIN x.models = {}
      /\ Service!Owning \subseteq Service!Holding /\ "idle" \notin Service!Holding
      /\ {"lookup", "loading", "unloadable", "woken", "loaded", "waiting"} \subseteq Service!Holding
  BY <1>6, EmptySeq DEF Service!Owning, Service!Holding
<1>10. \A w \in Service!Requests \ {r} : Service!Wanted(w)' = Service!Wanted(w)
  BY <1>8 DEF Service!Wanted
<1>11. ServTypes'
  BY <1>0, <1>8 DEF ServInv, ServTypes
<1>12. ServPlaces'
  <2>1. ServPlace(req'[r])
    <3>1. /\ Len(req'[r].ids) > 0 /\ Len(req'[r].models) <= Len(req'[r].ids)
          /\ req'[r].models = <<>> /\ req'[r].pc \notin Service!Holding
      <4>1. req'[r].ids = ids /\ req'[r].models = <<>> /\ req'[r].pc = pc
        BY <1>6, <1>8
      <4>2. Len(ids) > 0 /\ 0 <= Len(ids)
        BY <1>3
      <4>3. Len(req'[r].models) = 0
        BY <1>8, <1>9
      <4> QED
        BY <1>4, <4>1, <4>2, <4>3
    <3> QED
      BY <1>9, <3>1 DEF ServPlace
  <2> QED
    BY <1>8, <2>1 DEF ServInv, ServPlaces
<1>13. ServModels'
  BY <1>0, <1>4, <1>6, <1>8, <1>9, <1>10 DEF ServInv, ServModels, ServGenuine
<1>14. ServCauses'
  <2>1. \A w \in Service!Requests \ {r} : ServCause(w)'
    BY <1>0, <1>8 DEF ServInv, ServCauses, ServCause, Service!Wanted
  <2>2. ServCause(r)'
    BY <1>0, <1>4, <1>6, <1>8, <1>9 DEF ServCause
  <2> QED
    BY <1>0, <2>1, <2>2 DEF ServInv, ServCauses
<1>15. ServEntries'
  BY <1>0 DEF ServInv, ServEntries
<1>16. ServFlights'
  <2>1. q.pc \notin Service!Owning /\ x.pc \notin Service!Owning /\ x.pc # "waiting"
    BY <1>4, <1>6, <1>9
  <2> QED
    BY <1>0, <1>8, <1>10, <2>1 DEF ServInv, ServFlights
<1>17. ServCapacity'
  <2>1. req'[r].pc \notin Service!Holding
    BY <1>4, <1>6, <1>8
  <2> QED
    BY <1>0, <1>6, <1>8, <2>1, ServHoldersChange DEF ServInv
<1> QED
  BY <1>11, <1>12, <1>13, <1>14, <1>15, <1>16, <1>17 DEF ServInv


\* A search that ends, or fails, gives back its place.
LEMMA ServSearches ==
  ASSUME Service!ServiceAssumption, ServInv, NEW r \in Service!Requests,
         Service!Play(r) \/ Service!SearchFails(r)
  PROVE  ServInv'
<1>1. req[r].pc \in Service!Holding \ Service!Owning
  BY DEF Service!Play, Service!SearchFails, Service!Holding, Service!Owning
<1>2. CASE Service!Play(r)
  BY <1>1, <1>2, ServLeft DEF Service!Play
<1>3. CASE Service!SearchFails(r)
  <2>1. /\ svc' = [Service!Released(r) EXCEPT !.changes = @ + 1] /\ svc.changes < MaxChanges
        /\ store' = store /\ req' = [req EXCEPT ![r] = Service!Ended(r, "search_failed")]
    BY <1>3 DEF Service!SearchFails, Service!Change
  <2>2. Service!Released(r).changes = svc.changes
    BY DEF Service!Released, ServInv, ServTypes
  <2>3. svc.changes + 1 \in 0..MaxChanges
    BY <2>1 DEF ServInv, ServTypes, Service!ServiceAssumption
  <2>4. svc' = [Service!Released(r) EXCEPT !.changes = svc.changes + 1]
    BY <2>1, <2>2
  <2> QED
    BY <1>1, <2>1, <2>3, <2>4, ServLeaves
<1> QED
  BY <1>2, <1>3


\* The storage changes: what disappears or moves is in trouble, what is new replaces.
LEMMA ServStores ==
  ASSUME Service!ServiceAssumption, ServInv, NEW i \in Ids,
         Service!Archive(i) \/ Service!Discard(i) \/ Service!Remake(i)
  PROVE  ServInv'
<1> DEFINE troubled == svc.troubled \cup {i}
           replaced == svc.replaced \cup {i}
           n == svc.changes + 1
<1>1. req' = req /\ n \in 0..MaxChanges
  BY DEF ServInv, ServTypes, Service!ServiceAssumption, Service!Archive, Service!Discard,
     Service!Remake, Service!Change
<1>2. CASE Service!Archive(i) \/ Service!Discard(i)
  <2>1. svc' = [svc EXCEPT !.troubled = troubled, !.changes = n]
    BY <1>2 DEF Service!Archive, Service!Discard, Service!Change
  <2>2. /\ store' \in [content : [Ids -> 0..2], place : [Ids -> 1..2]]
        /\ \A j \in Ids \ {i} : store'.content[j] = store.content[j] /\ store'.place[j] = store.place[j]
        /\ store'.content[i] \in {0, store.content[i]}
    <3>1. CASE Service!Archive(i)
      <4>1. store' = [store EXCEPT !.place[i] = 2] /\ 2 \in 1..2
        BY <3>1 DEF Service!Archive
      <4> QED
        BY <4>1 DEF ServInv, ServTypes
    <3>2. CASE Service!Discard(i)
      <4>1. store' = [store EXCEPT !.content[i] = 0] /\ 0 \in 0..2
        BY <3>2 DEF Service!Discard, Service!Nothing
      <4> QED
        BY <4>1 DEF ServInv, ServTypes
    <3> QED
      BY <1>2, <3>1, <3>2
  <2>3. /\ svc'.entries = svc.entries /\ svc'.flight = svc.flight /\ svc'.replaced = svc.replaced
        /\ svc'.troubled = troubled /\ svc'.moves = svc.moves /\ svc'.game = svc.game
    BY <2>1 DEF ServInv, ServTypes
  <2>4. ServTypes'
    BY <1>1, <2>1, <2>2 DEF ServInv, ServTypes
  <2>5. ServModels'
    BY <1>1, <2>2, <2>3 DEF ServInv, ServModels, ServGenuine, Service!Wanted
  <2>6. ServCauses'
    BY <1>1, <2>2, <2>3 DEF ServInv, ServCauses, ServCause, Service!Wanted
  <2> QED
    BY <1>1, <2>3, <2>4, <2>5, <2>6 DEF ServInv, ServPlaces, ServEntries, ServFlights,
       ServCapacity, ServHolders, Service!Wanted
<1>3. CASE Service!Remake(i)
  <2>1. /\ svc' = [svc EXCEPT !.replaced = replaced, !.changes = n]
        /\ store' = [store EXCEPT !.content[i] = 2] /\ 2 \in 0..2
    BY <1>3 DEF Service!Remake, Service!Change, ServInv, ServTypes
  <2>3. /\ svc'.entries = svc.entries /\ svc'.flight = svc.flight /\ svc'.replaced = replaced
        /\ svc'.troubled = svc.troubled /\ svc'.moves = svc.moves /\ svc'.game = svc.game
        /\ store'.place = store.place
        /\ \A j \in Ids : store'.content[j] = IF j = i THEN 2 ELSE store.content[j]
    BY <2>1 DEF ServInv, ServTypes
  <2>4. ServTypes'
    BY <1>1, <2>1 DEF ServInv, ServTypes
  <2>5. ServModels'
    BY <1>1, <2>3 DEF ServInv, ServModels, ServGenuine, Service!Wanted
  <2>6. ServCauses'
    BY <1>1, <2>3 DEF ServInv, ServCauses, ServCause, Service!Wanted
  <2> QED
    BY <1>1, <2>3, <2>4, <2>5, <2>6 DEF ServInv, ServPlaces, ServEntries, ServFlights,
       ServCapacity, ServHolders, Service!Wanted
<1> QED
  BY <1>2, <1>3


\* A model that is not cached is loaded by the request, or by another already.
LEMMA ServMisses ==
  ASSUME Service!ServiceAssumption, ServInv, NEW r \in Service!Requests, Service!Miss(r)
  PROVE  ServInv'
<1> DEFINE q == req[r]
           i == Service!Wanted(r)
<1>0. /\ q \in ServReq /\ q.models \in Seq(ServModel) /\ q.ids \in Seq(Ids)
      /\ q.pc = "lookup" /\ q.pc \in Service!Holding \ {"play"} /\ q.pc \notin Service!Owning
      /\ store' = store /\ Service!Cached(i) = {}
  BY DEF ServInv, ServTypes, ServReq, Service!Miss, Service!Holding, Service!Owning
<1>w. /\ i \in Ids /\ svc.flight[i] \in 0..NumRequests /\ r \in 1..NumRequests /\ r # 0
      /\ r \in 0..NumRequests
  BY <1>0, ServWanted DEF ServInv, ServTypes, Service!Requests, Service!ServiceAssumption
<1>c. q.place # 0 /\ (q.place = 2 => i \in svc.troubled)
  BY <1>0 DEF ServInv, ServCauses, ServCause
<1>1. CASE svc.flight[i] = 0 /\ Service!Goto(r, "loading") /\ svc' = [svc EXCEPT !.flight[i] = r]
  <2> DEFINE x == [q EXCEPT !.pc = "loading"]
  <2>1. x \in ServReq
    <3>1. "loading" \in Service!Holding
      BY DEF Service!Holding
    <3> QED
      BY <1>0, <3>1 DEF ServReq
  <2>2. req' = [req EXCEPT ![r] = x]
    BY <1>1 DEF Service!Goto, ServInv, ServTypes
  <2>3. /\ x.pc = "loading" /\ x.kind = q.kind /\ x.ids = q.ids /\ x.models = q.models
        /\ x.place = q.place /\ x.got = q.got
    BY <1>0 DEF ServReq
  <2> HIDE DEF x
  <2>4. /\ req' \in [Service!Requests -> ServReq] /\ req'[r] = x
        /\ \A w \in Service!Requests \ {r} : req'[w] = req[w]
    BY <2>1, <2>2 DEF ServInv, ServTypes
  <2>5. /\ svc'.entries = svc.entries /\ svc'.replaced = svc.replaced /\ svc'.troubled = svc.troubled
        /\ svc'.moves = svc.moves /\ svc'.game = svc.game
        /\ \A j \in Ids : svc'.flight[j] = IF j = i THEN r ELSE svc.flight[j]
    BY <1>1, <1>w DEF ServInv, ServTypes
  <2>6. \A w \in Service!Requests : Service!Wanted(w)' = Service!Wanted(w)
    BY <2>3, <2>4 DEF Service!Wanted
  <2>7. ServTypes'
    <3>1. [svc.flight EXCEPT ![i] = r] \in [Ids -> 0..NumRequests]
      BY <1>w DEF ServInv, ServTypes
    <3> QED
      BY <1>0, <1>1, <2>4, <3>1 DEF ServInv, ServTypes
  <2>8. ServPlaces'
    <3>1. ServPlace(req'[r])
      BY <1>0, <2>3, <2>4 DEF ServInv, ServPlaces, ServPlace, Service!Holding
    <3> QED
      BY <2>4, <3>1 DEF ServInv, ServPlaces
  <2>9. ServModels'
    <3>1. \A k \in DOMAIN req'[r].models :
            /\ req'[r].models[k].id = req'[r].ids[k]
            /\ ServGenuine(req'[r].models[k].id, req'[r].models[k].content)
      BY <2>3, <2>4 DEF ServInv, ServModels
    <3> QED
      BY <1>0, <2>3, <2>4, <2>5, <2>6, <3>1 DEF ServInv, ServModels, ServGenuine
  <2>10. ServCauses'
    <3>1. ServCause(r)'
      BY <1>c, <2>3, <2>4, <2>5, <2>6 DEF ServCause
    <3> QED
      BY <1>0, <2>4, <2>5, <2>6, <3>1 DEF ServInv, ServCauses, ServCause
  <2>11. ServEntries'
    <3>1. \A k \in DOMAIN svc.entries : svc.entries[k].id \in Ids /\ svc.entries[k].id # i
      <4>1. \A k \in DOMAIN svc.entries : svc.entries[k] \in ServModel
        BY DEF ServInv, ServTypes
      <4> QED
        BY <1>0, <4>1 DEF Service!Cached, ServModel
    <3> QED
      BY <2>5, <3>1 DEF ServInv, ServEntries
  <2>12. ServFlights'
    <3>1. ASSUME NEW w \in Service!Requests, NEW j \in Ids
          PROVE  /\ svc'.flight[j] = w <=> req'[w].pc \in Service!Owning /\ Service!Wanted(w) = j
                 /\ req'[w].pc = "waiting" /\ Service!Wanted(w) = j => svc'.flight[j] # 0
      <4>1. /\ svc.flight[j] = w <=> req[w].pc \in Service!Owning /\ Service!Wanted(w) = j
            /\ req[w].pc = "waiting" /\ Service!Wanted(w) = j => svc.flight[j] # 0
        BY DEF ServInv, ServFlights
      <4>2. w # 0
        BY DEF Service!Requests, Service!ServiceAssumption
      <4>3. CASE w = r
        <5>1. req'[w].pc = "loading" /\ "loading" \in Service!Owning
          BY <2>3, <2>4, <4>3 DEF Service!Owning
        <5> QED
          BY <1>0, <1>w, <2>5, <4>1, <4>3, <5>1
      <4>4. CASE w # r
        BY <1>0, <1>1, <1>w, <2>4, <2>5, <4>1, <4>2, <4>4
      <4> QED
        BY <4>3, <4>4
    <3> QED
      BY <2>6, <3>1 DEF ServFlights
  <2>13. ServCapacity'
    <3>1. /\ req'[r].kind = req[r].kind /\ req'[r].pc \in Service!Holding /\ req[r].pc \in Service!Holding
          /\ x.kind \in {"move", "game"}
      BY <1>0, <2>1, <2>3, <2>4 DEF Service!Holding, ServReq
    <3> QED
      BY <2>3, <2>4, <2>5, <3>1, ServHoldersChange DEF ServInv
  <2> QED
    BY <2>7, <2>8, <2>9, <2>10, <2>11, <2>12, <2>13 DEF ServInv
<1>2. CASE svc.flight[i] # 0 /\ Service!Goto(r, "waiting") /\ svc' = svc
  <2> DEFINE x == [q EXCEPT !.pc = "waiting"]
  <2>1. x \in ServReq
    <3>1. "waiting" \in Service!Holding
      BY DEF Service!Holding
    <3> QED
      BY <1>0, <3>1 DEF ServReq
  <2>2. req' = [req EXCEPT ![r] = x]
    BY <1>2 DEF Service!Goto, ServInv, ServTypes
  <2>3. /\ x.pc = "waiting" /\ x.kind = q.kind /\ x.ids = q.ids /\ x.models = q.models
    BY <1>0 DEF ServReq
  <2> HIDE DEF x
  <2> QED
    BY <1>0, <1>2, <2>1, <2>2, <2>3, ServSteps DEF Service!Holding, Service!Owning
<1> QED
  BY <1>1, <1>2 DEF Service!Miss


\* A request that a flight may wake: it has the value of the flight, or its error.
ServShifts(w, i, content) ==
  \/ req'[w] = req[w]
  \/ /\ req[w].pc = "waiting" /\ Service!Wanted(w) = i
     /\ req'[w] = [req[w] EXCEPT !.pc = "woken", !.got = content]

LEMMA ServOthers ==
  ASSUME ServInv, NEW i \in Ids, NEW content \in 0..2,
         content # 0 => ServGenuine(i, content), content = 0 => i \in svc.troubled,
         svc'.troubled = svc.troubled, svc'.replaced = svc.replaced,
         NEW w \in Service!Requests, ServShifts(w, i, content)
  PROVE  /\ req'[w] \in ServReq /\ req'[w].kind = req[w].kind /\ ServPlace(req'[w])
         /\ req'[w].pc \in Service!Holding <=> req[w].pc \in Service!Holding
         /\ req'[w].pc \in Service!Owning <=> req[w].pc \in Service!Owning
         /\ req'[w].pc = "waiting" => req[w].pc = "waiting" /\ req'[w] = req[w]
         /\ Service!Wanted(w)' = Service!Wanted(w) /\ ServCause(w)'
         /\ req'[w].pc \in {"loaded", "woken"} /\ req'[w].got # 0 =>
              ServGenuine(Service!Wanted(w), req'[w].got)
         /\ \A k \in DOMAIN req'[w].models :
              /\ req'[w].models[k].id = req'[w].ids[k]
              /\ ServGenuine(req'[w].models[k].id, req'[w].models[k].content)
<1> DEFINE q == req[w]
<1>1. /\ q \in ServReq /\ ServPlace(q) /\ ServCause(w)
      /\ q.pc \in {"loaded", "woken"} /\ q.got # 0 => ServGenuine(Service!Wanted(w), q.got)
      /\ \A k \in DOMAIN q.models :
           q.models[k].id = q.ids[k] /\ ServGenuine(q.models[k].id, q.models[k].content)
  BY DEF ServInv, ServTypes, ServPlaces, ServCauses, ServModels
<1>2. CASE req'[w] = q
  BY <1>1, <1>2 DEF ServCause, Service!Wanted
<1>3. CASE /\ q.pc = "waiting" /\ Service!Wanted(w) = i
           /\ req'[w] = [q EXCEPT !.pc = "woken", !.got = content]
  <2> DEFINE y == [q EXCEPT !.pc = "woken", !.got = content]
  <2>1. /\ y.pc = "woken" /\ y.got = content /\ y.kind = q.kind /\ y.ids = q.ids
        /\ y.models = q.models /\ y.place = q.place
    BY <1>1 DEF ServReq
  <2>2. y \in ServReq
    <3>1. "woken" \in Service!Holding
      BY DEF Service!Holding
    <3> QED
      BY <1>1, <3>1 DEF ServReq
  <2>3. req'[w] = y
    BY <1>3
  <2> HIDE DEF y
  <2>4. ServPlace(y)
    BY <1>1, <1>3, <2>1 DEF ServPlace, Service!Holding
  <2>5. Service!Wanted(w)' = Service!Wanted(w)
    BY <2>1, <2>3 DEF Service!Wanted
  <2>6. ServCause(w)'
    BY <1>3, <2>1, <2>3, <2>5 DEF ServCause
  <2>7. /\ q.pc \in Service!Holding /\ y.pc \in Service!Holding
        /\ q.pc \notin Service!Owning /\ y.pc \notin Service!Owning /\ y.pc # "waiting"
    BY <1>3, <2>1 DEF Service!Holding, Service!Owning
  <2> QED
    BY <1>1, <1>3, <2>1, <2>2, <2>3, <2>4, <2>5, <2>6, <2>7
<1> QED
  BY <1>2, <1>3 DEF ServShifts


\* A request gets a model, or gives up, and its flight wakes the others.
LEMMA ServMovesOn ==
  ASSUME Service!ServiceAssumption, ServInv, NEW r \in Service!Requests, NEW x \in ServReq,
         req' = [w \in Service!Requests |-> req'[w]], req'[r] = x, store' = store,
         NEW i \in Ids, NEW content \in 0..2,
         content # 0 => ServGenuine(i, content), content = 0 => i \in svc.troubled,
         \A w \in Service!Requests \ {r} : ServShifts(w, i, content),
         svc'.troubled = svc.troubled, svc'.replaced = svc.replaced,
         i = Service!Wanted(r), req[r].pc \in Service!Holding \ {"play"}, x.kind = req[r].kind,
         x.ids = req[r].ids, x.pc \in {"describe", "play", "failed"}, ServPlace(x),
         x.pc = "failed" => \E k \in DOMAIN x.ids : x.ids[k] \in svc.troubled,
         \A k \in DOMAIN x.models :
           x.models[k].id = x.ids[k] /\ ServGenuine(x.models[k].id, x.models[k].content),
         \A j \in Ids :
           svc'.flight[j] = IF j = i /\ req[r].pc \in Service!Owning THEN 0 ELSE svc.flight[j],
         \A w \in Service!Requests \ {r} :
           req[r].pc \in Service!Owning /\ req[w].pc = "waiting" /\ Service!Wanted(w) = i =>
             req'[w].pc = "woken",
         \A k \in DOMAIN svc'.entries : ServGenuine(svc'.entries[k].id, svc'.entries[k].content),
         IF x.pc # "failed" THEN svc'.moves = svc.moves /\ svc'.game = svc.game
         ELSE \/ x.kind = "move" /\ svc'.moves = svc.moves + 1 /\ svc'.game = svc.game
              \/ x.kind = "game" /\ svc'.moves = svc.moves /\ svc'.game = 0
  PROVE  /\ req' \in [Service!Requests -> ServReq]
         /\ ServPlaces' /\ ServModels' /\ ServCauses' /\ ServFlights' /\ ServCapacity'
<1>1. ASSUME NEW w \in Service!Requests \ {r}
      PROVE  /\ req'[w] \in ServReq /\ req'[w].kind = req[w].kind /\ ServPlace(req'[w])
             /\ req'[w].pc \in Service!Holding <=> req[w].pc \in Service!Holding
             /\ req'[w].pc \in Service!Owning <=> req[w].pc \in Service!Owning
             /\ req'[w].pc = "waiting" => req[w].pc = "waiting" /\ req'[w] = req[w]
             /\ Service!Wanted(w)' = Service!Wanted(w) /\ ServCause(w)'
             /\ req'[w].pc \in {"loaded", "woken"} /\ req'[w].got # 0 =>
                  ServGenuine(Service!Wanted(w), req'[w].got)
             /\ \A k \in DOMAIN req'[w].models :
                  /\ req'[w].models[k].id = req'[w].ids[k]
                  /\ ServGenuine(req'[w].models[k].id, req'[w].models[k].content)
  BY ServOthers
<1>2. req' \in [Service!Requests -> ServReq]
  BY <1>1
<1>3. ServPlaces'
  BY <1>1 DEF ServPlaces
<1>4. ServModels'
  <2>1. x.pc \notin {"loaded", "woken"}
    OBVIOUS
  <2>2. \A k \in DOMAIN req'[r].models :
          /\ req'[r].models[k].id = req'[r].ids[k]
          /\ ServGenuine(req'[r].models[k].id, req'[r].models[k].content)
    OBVIOUS
  <2>3. \A j \in Ids : store.content[j] # 0 => ServGenuine(j, store.content[j])
    BY DEF ServInv, ServModels
  <2> QED
    BY <1>1, <2>1, <2>2, <2>3 DEF ServModels, ServGenuine
<1>5. ServCauses'
  <2>1. ServCause(r)'
    BY DEF ServCause
  <2> QED
    BY <1>1, <2>1 DEF ServCauses, ServInv
<1>6. ServFlights'
  <2>1. ASSUME NEW w \in Service!Requests, NEW j \in Ids
        PROVE  (/\ svc.flight[j] = w <=> req[w].pc \in Service!Owning /\ Service!Wanted(w) = j
                /\ req[w].pc = "waiting" /\ Service!Wanted(w) = j => svc.flight[j] # 0)'
    <3>1. /\ svc.flight[j] = w <=> req[w].pc \in Service!Owning /\ Service!Wanted(w) = j
          /\ req[w].pc = "waiting" /\ Service!Wanted(w) = j => svc.flight[j] # 0
          /\ svc.flight[j] = r <=> req[r].pc \in Service!Owning /\ Service!Wanted(r) = j
      BY DEF ServInv, ServFlights
    <3>2. w # 0
      BY DEF Service!Requests, Service!ServiceAssumption
    <3>3. CASE w = r
      <4>1. req'[w].pc \notin Service!Owning /\ req'[w].pc # "waiting"
        BY <3>3 DEF Service!Owning
      <4> QED
        BY <3>1, <3>2, <3>3, <4>1
    <3>4. CASE w # r
      BY <1>1, <3>1, <3>2, <3>4
    <3> QED
      BY <3>3, <3>4
  <2> QED
    BY <2>1 DEF ServFlights
<1>7. ServCapacity'
  <2>1. x.kind \in {"move", "game"} /\ "failed" \notin Service!Holding
        /\ {"describe", "play"} \subseteq Service!Holding
    BY DEF ServReq, Service!Holding
  <2> QED
    BY <1>1, <2>1, ServHoldersChange DEF ServInv
<1> QED
  BY <1>2, <1>3, <1>4, <1>5, <1>6, <1>7

\* A request with the model it wanted: it searches, or wants the next.
LEMMA ServFinds ==
  ASSUME ServInv, NEW r \in Service!Requests, NEW content \in 1..2,
         ServGenuine(Service!Wanted(r), content), req[r].pc \in Service!Holding \ {"play"}
  PROVE  LET x == Service!With(r, content) IN
         /\ x \in ServReq /\ x.kind = req[r].kind /\ x.ids = req[r].ids
         /\ x.pc \in {"describe", "play"} /\ ServPlace(x)
         /\ \A k \in DOMAIN x.models :
              x.models[k].id = x.ids[k] /\ ServGenuine(x.models[k].id, x.models[k].content)
<1> DEFINE q == req[r]
           i == Service!Wanted(r)
           e == [id |-> i, content |-> content]
           models == Append(q.models, e)
           pc == IF Len(models) = Len(q.ids) THEN "play" ELSE "describe"
           x == [q EXCEPT !.models = models, !.got = 0, !.place = 0, !.pc = pc]
<1>0. /\ q \in ServReq /\ q.models \in Seq(ServModel) /\ q.ids \in Seq(Ids)
      /\ Len(q.models) < Len(q.ids) /\ Len(q.ids) > 0
  BY DEF ServInv, ServTypes, ServReq, ServPlaces, ServPlace
<1>1. i \in Ids /\ i = q.ids[Len(q.models) + 1]
  BY ServWanted DEF Service!Wanted
<1>2. e \in ServModel /\ e.id = i /\ e.content = content
  BY <1>1 DEF ServModel
<1>3. x = Service!With(r, content)
  BY DEF Service!With, Service!Complete, Service!Nothing
<1> HIDE DEF e, i
<1>4. /\ models \in Seq(ServModel) /\ Len(models) = Len(q.models) + 1
      /\ models[Len(q.models) + 1] = e /\ DOMAIN models = 1..(Len(q.models) + 1)
      /\ \A k \in 1..Len(q.models) : models[k] = q.models[k]
      /\ Len(q.models) \in Nat /\ DOMAIN q.models = 1..Len(q.models) /\ Len(q.ids) \in Nat
  BY <1>0, <1>2, AppendProperties, LenProperties
<1>5. /\ pc \in {"describe", "play"} /\ pc \in Service!Holding
      /\ pc \in Service!Holding \ {"play"} => Len(models) < Len(q.ids)
      /\ Len(models) <= Len(q.ids)
  BY <1>0, <1>4 DEF Service!Holding
<1>6. \A k \in DOMAIN models : models[k].id = q.ids[k] /\ ServGenuine(models[k].id, models[k].content)
  <2>1. \A k \in DOMAIN q.models :
          q.models[k].id = q.ids[k] /\ ServGenuine(q.models[k].id, q.models[k].content)
    BY DEF ServInv, ServModels
  <2>2. ASSUME NEW k \in DOMAIN models
        PROVE  models[k].id = q.ids[k] /\ ServGenuine(models[k].id, models[k].content)
    <3>1. CASE k = Len(q.models) + 1
      BY <1>1, <1>2, <1>4, <3>1 DEF i
    <3>2. CASE k # Len(q.models) + 1
      <4>1. k \in 1..Len(q.models)
        BY <1>4, <3>2
      <4> QED
        BY <1>4, <2>1, <4>1
    <3> QED
      BY <3>1, <3>2
  <2> QED
    BY <2>2
<1> HIDE DEF models, pc
<1>7. x \in ServReq
  <2>1. 0 \in 0..2
    OBVIOUS
  <2> QED
    BY <1>0, <1>4, <1>5, <2>1 DEF ServReq
<1>8. x.kind = q.kind /\ x.ids = q.ids /\ x.models = models /\ x.pc = pc /\ x.got = 0
  BY <1>0 DEF ServReq
<1> HIDE DEF x
<1>9. ServPlace(x)
  BY <1>0, <1>5, <1>8 DEF ServPlace, Service!Holding
<1> QED
  BY <1>3, <1>5, <1>6, <1>7, <1>8, <1>9


\* A request finds its model in the cache, which is used last.
LEMMA ServHits ==
  ASSUME Service!ServiceAssumption, ServInv, NEW r \in Service!Requests, Service!Hit(r)
  PROVE  ServInv'
<1> DEFINE q == req[r]
           i == Service!Wanted(r)
           s == svc.entries
<1>0. /\ q.pc \in Service!Holding \ {"play"} /\ q.pc \notin Service!Owning /\ store' = store
      /\ s \in Seq(ServModel) /\ Len(s) \in Nat /\ DOMAIN s = 1..Len(s)
      /\ \A k \in DOMAIN s : s[k] \in ServModel
  BY LenProperties DEF ServInv, ServTypes, Service!Hit, Service!Holding, Service!Owning
<1>1. PICK k \in Service!Cached(i) :
        /\ svc' = [svc EXCEPT !.entries = Append(Service!RemoveAt(@, k), svc.entries[k])]
        /\ req' = [req EXCEPT ![r] = Service!With(r, svc.entries[k].content)]
  BY DEF Service!Hit
<1> DEFINE t == Append(Service!RemoveAt(s, k), s[k])
           content == s[k].content
           x == Service!With(r, content)
<1>2. k \in 1..Len(s) /\ s[k].id = i /\ i \in Ids /\ content \in 1..2
  BY <1>0, <1>1, ServWanted DEF Service!Cached, ServModel
<1>3. /\ t \in Seq(ServModel) /\ Len(t) = Len(s)
      /\ \A j \in 1..Len(s) : t[j] = s[IF j < k THEN j ELSE IF j < Len(s) THEN j + 1 ELSE k]
  BY <1>0, <1>2, ServMoved
<1>4. svc' = [svc EXCEPT !.entries = t] /\ req' = [req EXCEPT ![r] = x]
  BY <1>1 DEF ServInv, ServTypes
<1>5. ServGenuine(i, content)
  BY <1>0, <1>2 DEF ServInv, ServModels
<1>6. /\ x \in ServReq /\ x.kind = q.kind /\ x.ids = q.ids
      /\ x.pc \in {"describe", "play"} /\ ServPlace(x)
      /\ \A l \in DOMAIN x.models :
           x.models[l].id = x.ids[l] /\ ServGenuine(x.models[l].id, x.models[l].content)
  BY <1>0, <1>2, <1>5, ServFinds
<1> HIDE DEF t, x, content
<1>7. /\ svc'.entries = t /\ svc'.flight = svc.flight /\ svc'.moves = svc.moves
      /\ svc'.game = svc.game /\ svc'.troubled = svc.troubled /\ svc'.replaced = svc.replaced
  BY <1>4 DEF ServInv, ServTypes
<1> DEFINE at(j) == IF j < k THEN j ELSE IF j < Len(s) THEN j + 1 ELSE k
<1>8. /\ \A j \in 1..Len(s) : at(j) \in 1..Len(s)
      /\ \A j, l \in 1..Len(s) : at(j) = at(l) => j = l
  BY <1>0, <1>2
<1>9. /\ DOMAIN t = 1..Len(s) /\ \A j \in 1..Len(s) : t[j] = s[at(j)]
  BY <1>3, LenProperties
<1> HIDE DEF at
<1>10. \A j \in DOMAIN t : ServGenuine(t[j].id, t[j].content)
  BY <1>0, <1>8, <1>9 DEF ServInv, ServModels
<1>11. /\ req' \in [Service!Requests -> ServReq] /\ req'[r] = x
       /\ \A w \in Service!Requests \ {r} : req'[w] = req[w]
  BY <1>4, <1>6 DEF ServInv, ServTypes
<1>12. /\ ServPlaces' /\ ServModels' /\ ServCauses' /\ ServFlights' /\ ServCapacity'
  <2>1. \A w \in Service!Requests \ {r} : ServShifts(w, i, content)
    BY <1>11 DEF ServShifts
  <2>2. /\ req' = [w \in Service!Requests |-> req'[w]] /\ content \in 0..2 /\ content # 0
        /\ x.pc # "failed" /\ x.pc \in {"describe", "play", "failed"}
    BY <1>2, <1>6, <1>11
  <2> HIDE DEF i
  <2> QED
    BY <1>0, <1>2, <1>5, <1>6, <1>7, <1>10, <1>11, <2>1, <2>2, ServMovesOn DEF i
<1>13. ServTypes'
  BY <1>0, <1>3, <1>4, <1>11 DEF ServInv, ServTypes
<1>14. ServEntries'
  <2>1. Len(t) <= MaxEntries
    BY <1>3 DEF ServInv, ServEntries
  <2>2. ASSUME NEW j \in DOMAIN t PROVE svc.flight[t[j].id] = 0
    BY <1>0, <1>8, <1>9 DEF ServInv, ServEntries
  <2>3. ASSUME NEW j \in DOMAIN t, NEW l \in DOMAIN t, t[j].id = t[l].id PROVE j = l
    <3>1. at(j) \in DOMAIN s /\ at(l) \in DOMAIN s /\ s[at(j)].id = s[at(l)].id
      BY <1>0, <1>8, <1>9, <2>3
    <3>2. at(j) = at(l)
      BY <3>1 DEF ServInv, ServEntries
    <3> QED
      BY <1>8, <1>9, <3>2
  <2> QED
    BY <1>7, <2>1, <2>2, <2>3 DEF ServEntries
<1> QED
  BY <1>12, <1>13, <1>14 DEF ServInv

\* The owner of a flight puts the model into the cache and wakes who waits for it.
LEMMA ServInserts ==
  ASSUME Service!ServiceAssumption, ServInv, NEW r \in Service!Requests, Service!Insert(r)
  PROVE  ServInv'
<1> DEFINE q == req[r]
           i == Service!Wanted(r)
           s == svc.entries
           content == q.got
           x == Service!With(r, content)
           e == [id |-> i, content |-> content]
           t == Service!Newest(Append(s, e))
<1>0. /\ q \in ServReq /\ q.pc = "loaded" /\ q.pc \in Service!Holding \ {"play"}
      /\ q.pc \in Service!Owning /\ store' = store
      /\ s \in Seq(ServModel) /\ Len(s) \in Nat /\ DOMAIN s = 1..Len(s) /\ Len(s) <= MaxEntries
      /\ \A k \in DOMAIN s : s[k] \in ServModel
  BY LenProperties DEF ServInv, ServTypes, ServEntries, Service!Insert, Service!Holding,
     Service!Owning
<1>1. i \in Ids /\ content \in 1..2 /\ ServGenuine(i, content) /\ svc.flight[i] = r /\ r # 0
  <2>1. content \in 0..2 /\ content # 0
    BY <1>0 DEF ServReq, ServInv, ServPlaces, ServPlace
  <2>2. i \in Ids /\ r # 0
    BY <1>0, ServWanted DEF Service!Requests, Service!ServiceAssumption
  <2>3. ServGenuine(i, content)
    BY <1>0, <2>1 DEF ServInv, ServModels
  <2> HIDE DEF content
  <2> QED
    BY <1>0, <2>1, <2>2, <2>3 DEF ServInv, ServFlights
<1>2. e \in ServModel /\ e.id = i /\ e.content = content
  BY <1>1 DEF ServModel
<1>3. /\ t \in Seq(ServModel) /\ Len(t) <= MaxEntries /\ Len(t) > 0 /\ t[Len(t)] = e
      /\ Len(t) <= Len(s) + 1 /\ Len(t) >= Len(s)
      /\ \A j \in 1..Len(t)-1 : t[j] = s[j + (Len(s) + 1 - Len(t))]
  <2>1. MaxEntries \in Nat \ {0} /\ Len(s) <= MaxEntries /\ s \in Seq(ServModel)
    BY <1>0 DEF Service!ServiceAssumption
  <2> HIDE DEF e, s
  <2> QED
    BY <1>2, <2>1, ServInserted
<1>4. /\ svc' = [svc EXCEPT !.flight[i] = 0, !.entries = t]
      /\ req' = [Service!Woken(i, content, r) EXCEPT ![r] = x]
  BY DEF Service!Insert, ServInv, ServTypes
<1>5. /\ x \in ServReq /\ x.kind = q.kind /\ x.ids = q.ids
      /\ x.pc \in {"describe", "play"} /\ ServPlace(x)
      /\ \A l \in DOMAIN x.models :
           x.models[l].id = x.ids[l] /\ ServGenuine(x.models[l].id, x.models[l].content)
  BY <1>0, <1>1, ServFinds
<1> HIDE DEF t, x, e
<1>6. /\ svc'.entries = t /\ svc'.moves = svc.moves
      /\ svc'.game = svc.game /\ svc'.troubled = svc.troubled /\ svc'.replaced = svc.replaced
      /\ \A j \in Ids : svc'.flight[j] = IF j = i THEN 0 ELSE svc.flight[j]
  BY <1>4 DEF ServInv, ServTypes
<1>7. /\ req' = [w \in Service!Requests |-> req'[w]] /\ req'[r] = x
      /\ \A w \in Service!Requests \ {r} :
           /\ ServShifts(w, i, content)
           /\ req[w].pc = "waiting" /\ Service!Wanted(w) = i => req'[w].pc = "woken"
  <2>1. req' = [w \in Service!Requests |-> IF w = r THEN x ELSE Service!Woken(i, content, r)[w]]
    BY <1>4 DEF Service!Woken
  <2>2. ASSUME NEW w \in Service!Requests \ {r}
        PROVE  /\ ServShifts(w, i, content)
               /\ req[w].pc = "waiting" /\ Service!Wanted(w) = i => req'[w].pc = "woken"
    <3>1. req'[w] = IF req[w].pc = "waiting" /\ Service!Wanted(w) = i
                      THEN [req[w] EXCEPT !.pc = "woken", !.got = content] ELSE req[w]
      BY <2>1 DEF Service!Woken
    <3>2. req[w] \in ServReq
      BY DEF ServInv, ServTypes
    <3> QED
      BY <3>1, <3>2 DEF ServShifts, ServReq
  <2> QED
    BY <2>1, <2>2
<1>8. \A j \in DOMAIN t : ServGenuine(t[j].id, t[j].content)
  <2>1. ASSUME NEW j \in 1..Len(t) PROVE ServGenuine(t[j].id, t[j].content)
    <3>1. CASE j = Len(t)
      BY <1>1, <1>2, <1>3, <3>1
    <3>2. CASE j # Len(t)
      <4>1. Len(t) \in Nat /\ j \in 1..Len(t)-1 /\ j + (Len(s) + 1 - Len(t)) \in DOMAIN s
        BY <1>0, <1>3, <3>2, LenProperties
      <4> QED
        BY <1>3, <4>1 DEF ServInv, ServModels
    <3> QED
      BY <3>1, <3>2
  <2> QED
    BY <1>3, <2>1, LenProperties
<1>9. /\ req' \in [Service!Requests -> ServReq]
      /\ ServPlaces' /\ ServModels' /\ ServCauses' /\ ServFlights' /\ ServCapacity'
  <2>1. /\ content \in 0..2 /\ content # 0
        /\ x.pc # "failed" /\ x.pc \in {"describe", "play", "failed"}
    BY <1>1, <1>5
  <2>2. \A j \in Ids :
          svc'.flight[j] = IF j = i /\ q.pc \in Service!Owning THEN 0 ELSE svc.flight[j]
    BY <1>0, <1>6
  <2> HIDE DEF i, content
  <2> QED
    BY <1>0, <1>1, <1>5, <1>6, <1>7, <1>8, <2>1, <2>2, ServMovesOn DEF i
<1>10. ServTypes'
  <2>1. [svc.flight EXCEPT ![i] = 0] \in [Ids -> 0..NumRequests]
    BY <1>1 DEF ServInv, ServTypes, Service!ServiceAssumption
  <2> QED
    BY <1>0, <1>3, <1>4, <1>9, <2>1 DEF ServInv, ServTypes
<1>11. ServEntries'
  <2>1. \A k \in DOMAIN s : s[k].id # i /\ s[k].id \in Ids /\ svc.flight[s[k].id] = 0
    BY <1>0, <1>1 DEF ServInv, ServEntries, ServModel
  <2>2. DOMAIN t = 1..Len(t) /\ Len(t) \in Nat
    BY <1>3, LenProperties
  <2> DEFINE d == Len(s) + 1 - Len(t)
  <2>3. \A j \in 1..Len(t)-1 : j + d \in DOMAIN s /\ t[j] = s[j + d]
    BY <1>0, <1>3, <2>2
  <2>4. d \in 0..1
    <3>1. Len(s) \in Nat /\ Len(t) <= Len(s) + 1 /\ Len(t) >= Len(s)
      BY <1>0, <1>3
    <3>2. \A a, b \in Nat : a <= b + 1 /\ a >= b => b + 1 - a \in 0..1
      OBVIOUS
    <3> QED
      BY <2>2, <3>1, <3>2
  <2> HIDE DEF d
  <2>5. ASSUME NEW j \in DOMAIN t PROVE svc'.flight[t[j].id] = 0
    <3>1. CASE j = Len(t)
      BY <1>1, <1>2, <1>3, <1>6, <3>1
    <3>2. CASE j # Len(t)
      <4>1. j \in 1..Len(t)-1
        BY <2>2, <3>2
      <4> QED
        BY <1>6, <2>1, <2>3, <4>1
    <3> QED
      BY <3>1, <3>2
  <2>6. ASSUME NEW j \in DOMAIN t, NEW l \in DOMAIN t, t[j].id = t[l].id PROVE j = l
    <3>1. CASE j # Len(t) /\ l # Len(t)
      <4>1. j \in 1..Len(t)-1 /\ l \in 1..Len(t)-1
        BY <2>2, <3>1
      <4>2. j + d = l + d
        BY <2>3, <2>6, <4>1 DEF ServInv, ServEntries
      <4> QED
        BY <2>4, <4>1, <4>2
    <3>2. CASE j = Len(t) /\ l # Len(t)
      <4>1. l \in 1..Len(t)-1
        BY <2>2, <3>2
      <4> QED
        BY <1>2, <1>3, <2>1, <2>3, <2>6, <3>2, <4>1
    <3>3. CASE j # Len(t) /\ l = Len(t)
      <4>1. j \in 1..Len(t)-1
        BY <2>2, <3>3
      <4> QED
        BY <1>2, <1>3, <2>1, <2>3, <2>6, <3>3, <4>1
    <3> QED
      BY <3>1, <3>2, <3>3
  <2> QED
    BY <1>3, <1>6, <2>5, <2>6 DEF ServEntries
<1> QED
  BY <1>9, <1>10, <1>11 DEF ServInv

\* A load that fails is over: the owner leaves, and who waits for it is told.
LEMMA ServLoadFails ==
  ASSUME Service!ServiceAssumption, ServInv, NEW r \in Service!Requests, Service!LoadFails(r)
  PROVE  ServInv'
<1> DEFINE q == req[r]
           i == Service!Wanted(r)
           x == Service!Ended(r, "failed")
<1>0. /\ q \in ServReq /\ q.pc = "unloadable" /\ q.pc \in Service!Holding \ {"play"}
      /\ q.pc \in Service!Owning /\ store' = store
  BY DEF ServInv, ServTypes, Service!LoadFails, Service!Holding, Service!Owning
<1>1. /\ i \in Ids /\ i \in svc.troubled /\ \E k \in DOMAIN q.ids : q.ids[k] = i
      /\ svc.flight[i] = r /\ r # 0
  BY <1>0, ServWanted DEF ServInv, ServCauses, ServCause, ServFlights, Service!Requests
<1>2. /\ svc' = [Service!Released(r) EXCEPT !.flight[i] = 0]
      /\ req' = [Service!Woken(i, 0, r) EXCEPT ![r] = x]
  BY DEF Service!LoadFails, Service!Nothing
<1>3. /\ x \in ServReq /\ x.kind = q.kind /\ x.ids = q.ids /\ x.pc = "failed" /\ x.models = <<>>
  <2>1. "failed" \in Service!Outcomes /\ q.kind \in {"move", "game"} /\ q.ids \in Seq(Ids)
    BY <1>0 DEF Service!Outcomes, ServReq
  <2>2. Service!Idle \in ServReq
    BY EmptySeq DEF Service!Idle, Service!Nothing, ServReq, Service!Outcomes
  <2>3. x = [Service!Idle EXCEPT !.pc = "failed", !.kind = q.kind, !.ids = q.ids]
    BY DEF Service!Ended
  <2>4. x \in ServReq
    BY <2>1, <2>2, <2>3 DEF ServReq
  <2>5. x.pc = "failed" /\ x.kind = q.kind /\ x.ids = q.ids /\ x.models = <<>>
    BY <2>3 DEF Service!Idle
  <2> QED
    BY <2>4, <2>5
<1> HIDE DEF x
<1>4. /\ svc'.entries = svc.entries /\ svc'.troubled = svc.troubled
      /\ svc'.replaced = svc.replaced
      /\ \A j \in Ids : svc'.flight[j] = IF j = i THEN 0 ELSE svc.flight[j]
      /\ \/ q.kind = "move" /\ svc'.moves = svc.moves + 1 /\ svc'.game = svc.game
         \/ q.kind = "game" /\ svc'.moves = svc.moves /\ svc'.game = 0
      /\ svc' \in [entries : Seq(ServModel), flight : [Ids -> 0..NumRequests], moves : Nat,
                   game : 0..NumRequests, troubled : SUBSET Ids, replaced : SUBSET Ids,
                   changes : 0..MaxChanges]
  <2>0. [svc.flight EXCEPT ![i] = 0] \in [Ids -> 0..NumRequests] /\ 0 \in 0..NumRequests
    BY <1>1 DEF ServInv, ServTypes, Service!ServiceAssumption
  <2>1. CASE q.kind = "move"
    <3>1. svc' = [svc EXCEPT !.moves = @ + 1, !.flight[i] = 0] /\ svc.moves + 1 \in Nat
      BY <1>2, <2>1 DEF Service!Released, ServInv, ServTypes
    <3> QED
      BY <1>1, <2>0, <2>1, <3>1 DEF ServInv, ServTypes
  <2>2. CASE q.kind = "game"
    <3>1. svc' = [svc EXCEPT !.game = 0, !.flight[i] = 0]
      BY <1>2, <2>2 DEF Service!Released, ServInv, ServTypes
    <3> QED
      BY <1>1, <2>0, <2>2, <3>1 DEF ServInv, ServTypes
  <2> QED
    BY <1>0, <2>1, <2>2 DEF ServReq
<1>5. /\ req' = [w \in Service!Requests |-> req'[w]] /\ req'[r] = x
      /\ \A w \in Service!Requests \ {r} :
           /\ ServShifts(w, i, 0)
           /\ req[w].pc = "waiting" /\ Service!Wanted(w) = i => req'[w].pc = "woken"
  <2>1. req' = [w \in Service!Requests |-> IF w = r THEN x ELSE Service!Woken(i, 0, r)[w]]
    BY <1>2 DEF Service!Woken
  <2>2. ASSUME NEW w \in Service!Requests \ {r}
        PROVE  /\ ServShifts(w, i, 0)
               /\ req[w].pc = "waiting" /\ Service!Wanted(w) = i => req'[w].pc = "woken"
    <3>1. req'[w] = IF req[w].pc = "waiting" /\ Service!Wanted(w) = i
                      THEN [req[w] EXCEPT !.pc = "woken", !.got = 0] ELSE req[w]
      BY <2>1 DEF Service!Woken
    <3>2. req[w] \in ServReq
      BY DEF ServInv, ServTypes
    <3> QED
      BY <3>1, <3>2 DEF ServShifts, ServReq
  <2> QED
    BY <2>1, <2>2
<1>6. ServPlace(x) /\ DOMAIN x.models = {}
  <2>1. Len(q.ids) > 0 /\ Len(q.ids) \in Nat
    BY <1>0, LenProperties DEF ServInv, ServPlaces, ServPlace, ServReq
  <2>2. Len(x.models) = 0 /\ DOMAIN x.models = {}
    BY <1>3, EmptySeq
  <2>3. "failed" \notin Service!Holding
    BY DEF Service!Holding
  <2> QED
    BY <1>3, <2>1, <2>2, <2>3 DEF ServPlace
<1>7. /\ req' \in [Service!Requests -> ServReq]
      /\ ServPlaces' /\ ServModels' /\ ServCauses' /\ ServFlights' /\ ServCapacity'
  <2>1. \A j \in Ids :
          svc'.flight[j] = IF j = i /\ q.pc \in Service!Owning THEN 0 ELSE svc.flight[j]
    BY <1>0, <1>4
  <2>2. \A k \in DOMAIN svc'.entries : ServGenuine(svc'.entries[k].id, svc'.entries[k].content)
    BY <1>4 DEF ServInv, ServModels
  <2>3. \E k \in DOMAIN x.ids : x.ids[k] \in svc.troubled
    BY <1>1, <1>3
  <2> HIDE DEF i
  <2> QED
    BY SMTT(30), <1>0, <1>1, <1>3, <1>4, <1>5, <1>6, <2>1, <2>2, <2>3, ServMovesOn DEF i
<1>8. ServTypes'
  BY <1>0, <1>4, <1>7 DEF ServInv, ServTypes
<1>9. ServEntries'
  <2>1. \A k \in DOMAIN svc.entries : svc.entries[k].id \in Ids
    <3>1. \A k \in DOMAIN svc.entries : svc.entries[k] \in ServModel
      BY DEF ServInv, ServTypes
    <3> QED
      BY <3>1 DEF ServModel
  <2> QED
    BY <1>4, <2>1 DEF ServInv, ServEntries
<1> QED
  BY <1>7, <1>8, <1>9 DEF ServInv

\* Who waited takes the value of the flight, or its error.
LEMMA ServWakes ==
  ASSUME Service!ServiceAssumption, ServInv, NEW r \in Service!Requests, Service!Wake(r)
  PROVE  ServInv'
<1> DEFINE q == req[r]
           i == Service!Wanted(r)
           content == q.got
           x == Service!With(r, content)
<1>0. /\ q \in ServReq /\ q.pc = "woken" /\ q.pc \in Service!Holding \ {"play"}
      /\ q.pc \notin Service!Owning /\ store' = store
  BY DEF ServInv, ServTypes, Service!Wake, Service!Holding, Service!Owning
<1>1. i \in Ids /\ content \in 0..2 /\ \E k \in DOMAIN q.ids : q.ids[k] = i
  BY <1>0, ServWanted DEF ServReq
<1>2. CASE content # 0 /\ req' = [req EXCEPT ![r] = x] /\ svc' = svc
  <2>1. content \in 1..2 /\ content # 0 /\ ServGenuine(i, content)
    BY <1>0, <1>1, <1>2 DEF ServInv, ServModels
  <2>2. /\ x \in ServReq /\ x.kind = q.kind /\ x.ids = q.ids
        /\ x.pc \in {"describe", "play"} /\ ServPlace(x)
        /\ \A l \in DOMAIN x.models :
             x.models[l].id = x.ids[l] /\ ServGenuine(x.models[l].id, x.models[l].content)
    BY <1>0, <2>1, ServFinds
  <2> HIDE DEF x, content
  <2>3. /\ req' = [w \in Service!Requests |-> req'[w]] /\ req'[r] = x
        /\ req' \in [Service!Requests -> ServReq]
        /\ \A w \in Service!Requests \ {r} : req'[w] = req[w]
    BY <1>2, <2>2 DEF ServInv, ServTypes
  <2>4. \A w \in Service!Requests \ {r} : ServShifts(w, i, content)
    BY <2>3 DEF ServShifts
  <2>5. \A k \in DOMAIN svc'.entries : ServGenuine(svc'.entries[k].id, svc'.entries[k].content)
    BY <1>2 DEF ServInv, ServModels
  <2>6. /\ ServPlaces' /\ ServModels' /\ ServCauses' /\ ServFlights' /\ ServCapacity'
    <3>1. x.pc # "failed" /\ x.pc \in {"describe", "play", "failed"} /\ content \in 0..2
      BY <2>1, <2>2
    <3>2. /\ svc'.flight = svc.flight /\ svc'.moves = svc.moves /\ svc'.game = svc.game
          /\ svc'.troubled = svc.troubled /\ svc'.replaced = svc.replaced
      BY <1>2
    <3> HIDE DEF i
    <3> QED
      BY <1>0, <1>1, <2>1, <2>2, <2>3, <2>4, <2>5, <3>1, <3>2, ServMovesOn DEF i
  <2>7. ServTypes' /\ ServEntries'
    BY <1>0, <1>2, <2>3 DEF ServInv, ServTypes, ServEntries
  <2> QED
    BY <2>6, <2>7 DEF ServInv
<1>3. CASE content = 0 /\ Service!Leave(r, "failed")
  <2>1. i \in svc.troubled
    BY <1>0, <1>3 DEF ServInv, ServCauses, ServCause
  <2> QED
    BY <1>0, <1>1, <1>3, <2>1, ServLeft
<1> QED
  BY <1>2, <1>3 DEF Service!Wake, Service!Nothing


\* Every step of the service keeps the invariant.
LEMMA ServStepKeeps ==
  Service!ServiceAssumption /\ ServInv /\ [Service!ServiceNext]_ServVars => ServInv'
<1> SUFFICES ASSUME Service!ServiceAssumption, ServInv, [Service!ServiceNext]_ServVars
             PROVE  ServInv'
  OBVIOUS
<1>1. ASSUME NEW r \in Service!Requests, Service!RequestStep(r) \/ Service!SearchFails(r)
      PROVE  ServInv'
  BY <1>1, ServAsks, ServAdmits, ServDescribes, ServHits, ServMisses, ServReads, ServInserts,
     ServLoadFails, ServWakes, ServSearches DEF Service!RequestStep
<1>2. ASSUME NEW i \in Ids, Service!Archive(i) \/ Service!Discard(i) \/ Service!Remake(i)
      PROVE  ServInv'
  BY <1>2, ServStores
<1>3. CASE UNCHANGED ServVars
  BY <1>3 DEF ServVars, ServInv, ServTypes, ServPlaces, ServModels, ServGenuine, ServCauses,
     ServCause, ServEntries, ServFlights, ServCapacity, ServHolders, Service!Wanted
<1> QED
  BY <1>1, <1>2, <1>3 DEF Service!ServiceNext

\* The model's Cardinality is that of the theorems on finite sets.
LEMMA ServCount == ASSUME NEW S PROVE Service!Cardinality(S) = Cardinality(S)
  BY DEF Cardinality, Service!Cardinality

\* What the invariant says of serving.
LEMMA ServInvImplies == ServInv => Service!ServingIsSound
<1> SUFFICES ASSUME ServInv PROVE Service!ServingIsSound
  OBVIOUS
<1>1. Service!CacheIsSound
  <2>1. ASSUME NEW i \in Ids
        PROVE  Cardinality(Service!Cached(i)) <= 1
    <3> DEFINE c == Service!Cached(i)
    <3>1. \A k, l \in c : k = l
      BY DEF Service!Cached, ServInv, ServEntries
    <3>2. CASE c = {}
      BY <3>2, FS_EmptySet
    <3>3. CASE c # {}
      <4>1. PICK k \in c : TRUE
        BY <3>3
      <4>2. c = {k}
        BY <3>1, <4>1
      <4>3. Cardinality({k}) = 1
        BY FS_Singleton
      <4> QED
        BY <4>2, <4>3
    <3> QED
      BY <3>2, <3>3
  <2>2. ASSUME NEW i \in Ids, Service!Cached(i) # {} PROVE svc.flight[i] = 0
    BY <2>2 DEF Service!Cached, ServInv, ServEntries
  <2>3. Len(svc.entries) <= MaxEntries
    BY DEF ServInv, ServEntries
  <2>4. \A i \in Ids : \A r \in Service!Requests :
          /\ svc.flight[i] = r <=> req[r].pc \in Service!Owning /\ Service!Wanted(r) = i
          /\ req[r].pc = "waiting" /\ Service!Wanted(r) = i => svc.flight[i] # 0
    BY DEF ServInv, ServFlights
  <2>5. ASSUME NEW i \in Ids
        PROVE  /\ Cardinality(Service!Cached(i)) <= 1
               /\ Service!Cached(i) # {} => svc.flight[i] = 0
               /\ \A r \in Service!Requests :
                    /\ svc.flight[i] = r <=> req[r].pc \in Service!Owning /\ Service!Wanted(r) = i
                    /\ req[r].pc = "waiting" /\ Service!Wanted(r) = i => svc.flight[i] # 0
    BY <2>1, <2>2, <2>4
  <2> QED
    BY <2>3, <2>5, ServCount DEF Service!CacheIsSound
<1>2. Service!CapacityIsConserved
  <2>1. \A sort : ServHolders(sort) =
                     {r \in Service!Requests : req[r].kind = sort /\ req[r].pc \in Service!Holding}
    BY DEF ServHolders
  <2>2. /\ svc.moves + Cardinality(ServHolders("move")) = MoveConcurrency
        /\ ServHolders("game") = IF svc.game = 0 THEN {} ELSE {svc.game}
    BY DEF ServInv, ServCapacity
  <2> QED
    BY <2>1, <2>2, ServCount DEF Service!CapacityIsConserved
<1>3. Service!PlaysItsOwnModel
  BY DEF Service!PlaysItsOwnModel, ServInv, ServModels, ServGenuine
<1>4. Service!FailsForCause
  BY DEF Service!FailsForCause, ServInv, ServCauses, ServCause
<1> QED
  BY <1>1, <1>2, <1>3, <1>4 DEF Service!ServingIsSound

\* Serving is sound: the cache stays within its bound and has a model once, a model is
\* loaded by one request at a time and nobody waits for a flight that is over; every way
\* out of a request gives back the place it holds, once; each side is played by the model
\* of its own checkpoint, as published or made anew; and a load fails only for a
\* checkpoint that could not be read (server.py, service.py, model_cache.py).
THEOREM ServingIsAlwaysSound ==
  ASSUME Service!ServiceAssumption
  PROVE  ServSpec => []Service!ServingIsSound
<1>1. Service!ServiceInit => ServInv
  BY ServInitHolds
<1>2. ServInv /\ [Service!ServiceNext]_ServVars => ServInv'
  BY ServStepKeeps
<1> QED
  BY <1>1, <1>2, ServInvImplies, PTL DEF ServSpec

-----------------------------------------------------------------------------
(* GoRules: components, the least closed sets of a symmetric graph.        *)

LEMMA NeighborFacts ==
  ASSUME Go!RulesAssumption
  PROVE  \A p \in Points : /\ Neighbors[p] \subseteq Points
                           /\ \A q \in Neighbors[p] : p \in Neighbors[q]
<1>1. /\ Neighbors \in [Points -> SUBSET Points]
      /\ \A p, q \in Points : q \in Neighbors[p] => p \in Neighbors[q]
  BY DEF Go!RulesAssumption
<1>2. \A p \in Points : Neighbors[p] \in SUBSET Points
  BY <1>1
<1> QED
  BY <1>1, <1>2

\* A component holds its point, lies in the set, and is closed and least.
LEMMA ComponentIsLeast ==
  ASSUME NEW S \in SUBSET Points, NEW p \in S
  PROVE  /\ p \in Go!Component(S, p)
         /\ Go!Component(S, p) \subseteq S
         /\ Go!Closed(Go!Component(S, p), S)
         /\ \A T \in SUBSET S : p \in T /\ Go!Closed(T, S) => Go!Component(S, p) \subseteq T
BY DEF Go!Component, Go!Closed

\* Reachability is symmetric: every point of a component has the same one.
LEMMA ComponentOfMember ==
  ASSUME Go!RulesAssumption, NEW S \in SUBSET Points, NEW p \in S, NEW q \in Go!Component(S, p)
  PROVE  q \in S /\ Go!Component(S, q) = Go!Component(S, p)
<1> DEFINE P == Go!Component(S, p)
           Q == Go!Component(S, q)
<1>1. /\ p \in P /\ P \subseteq S /\ Go!Closed(P, S)
      /\ \A T \in SUBSET S : p \in T /\ Go!Closed(T, S) => P \subseteq T
  BY ComponentIsLeast
<1>2. q \in S /\ q \in P
  BY <1>1
<1>3. /\ q \in Q /\ Q \subseteq S /\ Go!Closed(Q, S)
      /\ \A T \in SUBSET S : q \in T /\ Go!Closed(T, S) => Q \subseteq T
  BY <1>2, ComponentIsLeast
<1> HIDE DEF P, Q
<1>4. Q \subseteq P
  BY <1>1, <1>2, <1>3
<1>5. p \in Q
  <2> SUFFICES ASSUME p \notin Q PROVE FALSE
    OBVIOUS
  <2>1. Go!Closed(P \ Q, S)
    <3> SUFFICES ASSUME NEW x \in P \ Q, NEW y \in Neighbors[x] \cap S PROVE y \in P \ Q
      BY DEF Go!Closed
    <3>1. y \in P
      BY <1>1 DEF Go!Closed
    <3>2. x \in Neighbors[y] /\ x \in S
      BY <1>1, NeighborFacts
    <3> QED
      BY <3>1, <3>2, <1>3 DEF Go!Closed
  <2>2. P \ Q \in SUBSET S /\ p \in P \ Q
    BY <1>1
  <2>3. P \subseteq P \ Q
    BY <1>1, <2>1, <2>2
  <2> QED
    BY <2>3, <1>2, <1>3
<1>6. P \subseteq Q
  BY <1>1, <1>3, <1>5
<1> QED
  BY <1>2, <1>4, <1>6 DEF P, Q

\* A component survives where points outside it are taken away.
LEMMA ComponentInSubset ==
  ASSUME NEW S \in SUBSET Points, NEW U \in SUBSET S, NEW p \in U, Go!Component(S, p) \subseteq U
  PROVE  Go!Component(U, p) = Go!Component(S, p)
<1>1. /\ p \in Go!Component(S, p) /\ Go!Closed(Go!Component(S, p), S)
      /\ \A T \in SUBSET S : p \in T /\ Go!Closed(T, S) => Go!Component(S, p) \subseteq T
  BY ComponentIsLeast
<1>2. U \in SUBSET Points
  OBVIOUS
<1>3. /\ p \in Go!Component(U, p) /\ Go!Component(U, p) \subseteq U
      /\ Go!Closed(Go!Component(U, p), U)
      /\ \A T \in SUBSET U : p \in T /\ Go!Closed(T, U) => Go!Component(U, p) \subseteq T
  BY <1>2, ComponentIsLeast
<1>4. Go!Closed(Go!Component(S, p), U)
  BY <1>1 DEF Go!Closed
<1>5. Go!Component(U, p) \subseteq Go!Component(S, p)
  BY <1>1, <1>3, <1>4
<1>6. Go!Closed(Go!Component(U, p), S)
  <2> SUFFICES ASSUME NEW x \in Go!Component(U, p), NEW y \in Neighbors[x] \cap S
               PROVE  y \in Go!Component(U, p)
    BY DEF Go!Closed
  <2>1. y \in Go!Component(S, p)
    BY <1>1, <1>5 DEF Go!Closed
  <2> QED
    BY <2>1, <1>3 DEF Go!Closed
<1>7. Go!Component(S, p) \subseteq Go!Component(U, p)
  BY <1>1, <1>3, <1>6
<1> QED
  BY <1>5, <1>7

-----------------------------------------------------------------------------
(* A legal move.  Breathes(b) is EveryGroupBreathes of a board.            *)

Breathes(b) == \A p \in Points : b[p] # Go!EMPTY => Go!Liberties(b, Go!Group(b, p)) # {}

\* The group of a stone, by the facts about components.
LEMMA GroupFacts ==
  ASSUME Go!RulesAssumption, NEW b \in Go!Boards, NEW p \in Points
  PROVE  /\ p \in Go!Group(b, p) /\ Go!Group(b, p) \subseteq Go!Of(b, b[p])
         /\ Go!Group(b, p) \subseteq Points
         /\ Go!Closed(Go!Group(b, p), Go!Of(b, b[p]))
         /\ \A q \in Go!Group(b, p) : b[q] = b[p] /\ Go!Group(b, q) = Go!Group(b, p)
<1> DEFINE S == Go!Of(b, b[p])
<1>1. S \in SUBSET Points /\ p \in S
  BY DEF Go!Of
<1>2. /\ p \in Go!Component(S, p) /\ Go!Component(S, p) \subseteq S
      /\ Go!Closed(Go!Component(S, p), S)
  BY <1>1, ComponentIsLeast
<1>3. \A q \in Go!Component(S, p) : q \in S /\ Go!Component(S, q) = Go!Component(S, p)
  BY <1>1, ComponentOfMember
<1>4. \A q \in S : b[q] = b[p]
  BY DEF Go!Of
<1> QED
  BY <1>1, <1>2, <1>3, <1>4 DEF Go!Group

LEMMA ColorFacts ==
  ASSUME NEW c \in Go!Colors
  PROVE  /\ Go!Opponent(c) \in Go!Colors /\ Go!Opponent(c) # c
         /\ c # Go!EMPTY /\ Go!Opponent(c) # Go!EMPTY
         /\ \A x \in Go!Colors \cup {Go!EMPTY} : x \in {c, Go!Opponent(c), Go!EMPTY}
BY DEF Go!Colors, Go!Opponent, Go!EMPTY

\* What placing a stone and taking the captured ones does to the boards.
LEMMA BoardsOfMove ==
  ASSUME Go!RulesAssumption, NEW s, s.stones \in Go!Boards, s.side \in Go!Colors, NEW a \in Points,
         s.stones[a] = Go!EMPTY
  PROVE  /\ Go!Placed(s, a) \in Go!Boards /\ Go!Probe(s, a) \in Go!Boards
         /\ \A p \in Points : Go!Placed(s, a)[p] = IF p = a THEN s.side ELSE s.stones[p]
         /\ \A p \in Points :
              Go!Probe(s, a)[p] = IF p \in Go!Captured(s, a) THEN Go!EMPTY ELSE Go!Placed(s, a)[p]
         /\ \A p \in Go!Captured(s, a) : p \in Points /\ Go!Placed(s, a)[p] = Go!Opponent(s.side)
<1>1. /\ Go!Placed(s, a) \in Go!Boards
      /\ \A p \in Points : Go!Placed(s, a)[p] = IF p = a THEN s.side ELSE s.stones[p]
  BY DEF Go!Placed, Go!Boards
<1>2. /\ Go!Probe(s, a) \in Go!Boards
      /\ \A p \in Points :
           Go!Probe(s, a)[p] = IF p \in Go!Captured(s, a) THEN Go!EMPTY ELSE Go!Placed(s, a)[p]
  BY <1>1 DEF Go!Probe, Go!Boards
<1>3. ASSUME NEW p \in Go!Captured(s, a)
      PROVE  p \in Points /\ Go!Placed(s, a)[p] = Go!Opponent(s.side)
  <2>1. PICK n \in Neighbors[a] :
          Go!Placed(s, a)[n] = Go!Opponent(s.side) /\ p \in Go!Group(Go!Placed(s, a), n)
    BY <1>3 DEF Go!Captured
  <2>2. n \in Points
    BY NeighborFacts
  <2> QED
    BY <1>1, <2>1, <2>2, GroupFacts
<1> QED
  BY <1>1, <1>2, <1>3

\* Every group on the board after a legal move has a liberty.
LEMMA MoveBreathes ==
  ASSUME Go!RulesAssumption, NEW s, s.stones \in Go!Boards, s.side \in Go!Colors,
         Breathes(s.stones),
         NEW a \in Points, Go!LegalPoint(s, a)
  PROVE  Breathes(Go!Probe(s, a))
<1> DEFINE b == s.stones
           c == s.side
           o == Go!Opponent(c)
           B == Go!Placed(s, a)
           R == Go!Probe(s, a)
           K == Go!Captured(s, a)
<1>1. /\ b[a] = Go!EMPTY /\ B \in Go!Boards /\ R \in Go!Boards
      /\ \A p \in Points : B[p] = IF p = a THEN c ELSE b[p]
      /\ \A p \in Points : R[p] = IF p \in K THEN Go!EMPTY ELSE B[p]
      /\ \A p \in K : p \in Points /\ B[p] = o
  BY BoardsOfMove DEF Go!LegalPoint
<1>2. /\ c \in Go!Colors /\ o # c /\ c # Go!EMPTY /\ o # Go!EMPTY
      /\ \A x \in Go!Colors \cup {Go!EMPTY} : x \in {c, o, Go!EMPTY}
  BY ColorFacts
<1>3. Go!Liberties(R, Go!Group(R, a)) # {}
  BY DEF Go!LegalPoint
<1>4. \A n \in Neighbors[a] :
        B[n] = o /\ Go!Liberties(B, Go!Group(B, n)) = {} => Go!Group(B, n) \subseteq K
  BY DEF Go!Captured
<1>5. ASSUME NEW p \in K PROVE Go!Group(B, p) \subseteq K
  <2>1. PICK n \in Neighbors[a] : /\ B[n] = o /\ Go!Liberties(B, Go!Group(B, n)) = {}
                                  /\ p \in Go!Group(B, n)
    BY <1>5 DEF Go!Captured
  <2>2. n \in Points
    BY NeighborFacts
  <2>3. Go!Group(B, p) = Go!Group(B, n)
    BY <1>1, <2>1, <2>2, GroupFacts
  <2> QED
    BY <1>4, <2>1, <2>3
<1>6. /\ b \in Go!Boards
      /\ \A p \in Points : b[p] # Go!EMPTY => Go!Liberties(b, Go!Group(b, p)) # {}
  BY DEF Breathes
<1>7. \A p \in Points : R[p] \in Go!Colors \cup {Go!EMPTY}
  BY <1>1 DEF Go!Boards
<1> HIDE DEF b, c, o, B, R, K
<1> SUFFICES ASSUME NEW p \in Points, R[p] # Go!EMPTY PROVE Go!Liberties(R, Go!Group(R, p)) # {}
  BY DEF Breathes, R
<1>8. CASE R[p] = c
  <2>1. CASE a \in Go!Group(R, p)
    BY <1>1, <1>3, <2>1, GroupFacts
  <2>2. CASE a \notin Go!Group(R, p)
    <3>1. Go!Of(R, c) = Go!Of(b, c) \cup {a} /\ a \notin Go!Of(b, c)
      BY <1>1, <1>2 DEF Go!Of
    <3>2. p # a /\ b[p] = c /\ p \in Go!Of(b, c) /\ p \in Go!Of(R, c)
      BY <1>1, <1>2, <1>8, <2>2, GroupFacts DEF Go!Of
    <3>3. /\ Go!Group(R, p) = Go!Component(Go!Of(R, c), p)
          /\ Go!Group(b, p) = Go!Component(Go!Of(b, c), p)
      BY <1>8, <3>2 DEF Go!Group
    <3>4. Go!Group(R, p) \subseteq Go!Of(b, c)
      BY <1>1, <1>8, <2>2, <3>1, GroupFacts
    <3>5. Go!Group(R, p) = Go!Group(b, p)
      <4>1. Go!Of(R, c) \in SUBSET Points /\ Go!Of(b, c) \in SUBSET Go!Of(R, c)
        BY <3>1 DEF Go!Of
      <4> QED
        BY <3>2, <3>3, <3>4, <4>1, ComponentInSubset
    <3>6. PICK e \in Points : b[e] = Go!EMPTY /\ Neighbors[e] \cap Go!Group(b, p) # {}
      BY <1>2, <1>6, <3>2 DEF Go!Liberties
    <3>7. e # a
      <4> SUFFICES ASSUME e = a PROVE FALSE
        OBVIOUS
      <4>1. PICK x \in Go!Group(R, p) : x \in Neighbors[a]
        BY <3>5, <3>6
      <4>2. x \in Points /\ a \in Neighbors[x] /\ a \in Go!Of(R, c)
        BY <3>1, NeighborFacts, <4>1
      <4> QED
        BY <1>1, <1>8, <2>2, <4>1, <4>2, GroupFacts DEF Go!Closed
    <3>8. R[e] = Go!EMPTY
      BY <1>1, <3>6, <3>7
    <3> QED
      BY <3>5, <3>6, <3>8 DEF Go!Liberties
  <2> QED
    BY <2>1, <2>2
<1>9. CASE R[p] = o
  <2>1. p \notin K /\ p # a /\ B[p] = o /\ b[p] = o
    BY <1>1, <1>2, <1>9
  <2>2. Go!Group(B, p) \cap K = {}
    BY <1>1, <1>5, <2>1, GroupFacts
  <2>3. Go!Of(B, o) = Go!Of(b, o) /\ Go!Of(R, o) = Go!Of(B, o) \ K
    BY <1>1, <1>2 DEF Go!Of
  <2>4. /\ Go!Group(B, p) = Go!Component(Go!Of(B, o), p)
        /\ Go!Group(b, p) = Go!Component(Go!Of(B, o), p)
        /\ Go!Group(R, p) = Go!Component(Go!Of(R, o), p)
    BY <1>9, <2>1, <2>3 DEF Go!Group
  <2>5. Go!Group(R, p) = Go!Group(B, p)
    <3>1. Go!Group(B, p) \subseteq Go!Of(R, o) /\ p \in Go!Of(R, o)
      BY <1>1, <2>1, <2>2, <2>3, GroupFacts
    <3>2. Go!Of(B, o) \in SUBSET Points /\ Go!Of(R, o) \in SUBSET Go!Of(B, o)
      BY <2>3 DEF Go!Of
    <3> QED
      BY <2>4, <3>1, <3>2, ComponentInSubset
  <2>6. Go!Liberties(B, Go!Group(B, p)) # {}
    <3>1. PICK e \in Points : b[e] = Go!EMPTY /\ Neighbors[e] \cap Go!Group(B, p) # {}
      BY <1>2, <1>6, <2>1, <2>4 DEF Go!Liberties
    <3>2. CASE e # a
      BY <1>1, <3>1, <3>2 DEF Go!Liberties
    <3>3. CASE e = a
      <4>1. PICK n \in Neighbors[a] : n \in Go!Group(B, p)
        BY <3>1, <3>3
      <4>2. n \in Points /\ B[n] = o /\ Go!Group(B, n) = Go!Group(B, p)
        BY <1>1, <2>1, <4>1, GroupFacts
      <4>3. n \notin K
        BY <2>2, <4>1
      <4> QED
        BY <1>1, <1>4, <4>1, <4>2, <4>3, GroupFacts
    <3> QED
      BY <3>2, <3>3
  <2>7. PICK e \in Points : B[e] = Go!EMPTY /\ Neighbors[e] \cap Go!Group(B, p) # {}
    BY <2>6 DEF Go!Liberties
  <2>8. R[e] = Go!EMPTY
    BY <1>1, <2>7
  <2> QED
    BY <2>5, <2>7, <2>8 DEF Go!Liberties
<1> QED
  BY <1>2, <1>7, <1>8, <1>9

-----------------------------------------------------------------------------
(* The invariant.                                                          *)

IsState(s) ==
  s \in [stones : Go!Boards, side : Go!Colors, passes : 0..2, history : Seq(Go!Boards),
         membership : SUBSET Go!Boards]

GameInv ==
  /\ IsState(game)
  /\ Breathes(game.stones)
  /\ Go!HistoryIsLive
  /\ IsFiniteSet(game.membership)

\* The model's Cardinality is that of the theorems on finite sets.
LEMMA GameCount == ASSUME NEW S PROVE Go!Cardinality(S) = Cardinality(S)
  BY DEF Cardinality, Go!Cardinality

LEMMA GameInitHolds == ASSUME Go!RulesAssumption, Go!RulesInit PROVE GameInv
<1> DEFINE empty == [p \in Points |-> Go!EMPTY]
<1>1. game = [stones |-> empty, side |-> "BLACK", passes |-> 0,
              history |-> <<empty>>, membership |-> {empty}]
  BY DEF Go!RulesInit, Go!InitialState
<1>2. empty \in Go!Boards
  BY DEF Go!Boards
<1>3. IsState(game)
  <2>1. <<empty>> \in Seq(Go!Boards)
    BY <1>2
  <2>2. {empty} \in SUBSET Go!Boards /\ "BLACK" \in Go!Colors /\ 0 \in 0..2
    BY <1>2 DEF Go!Colors
  <2> HIDE DEF empty
  <2> QED
    BY <1>1, <1>2, <2>1, <2>2 DEF IsState
<1>4. Breathes(game.stones)
  BY <1>1 DEF Breathes
<1>5. IsFiniteSet(game.membership) /\ Cardinality(game.membership) = 1
  BY <1>1, FS_Singleton
<1>6. Go!HistoryIsLive
  BY <1>1, <1>5, GameCount DEF Go!HistoryIsLive
<1> QED
  BY <1>3, <1>4, <1>5, <1>6 DEF GameInv

LEMMA GamePassKeeps == ASSUME GameInv, Go!Play(PASS) PROVE GameInv'
<1>1. game' = [game EXCEPT !.side = Go!Opponent(@), !.passes = @ + 1] /\ game.passes # 2
  BY DEF Go!Play, Go!Apply, Go!Legal, Go!Over
<1>2. /\ game'.stones = game.stones /\ game'.history = game.history
      /\ game'.membership = game.membership
  BY <1>1 DEF GameInv, IsState
<1>3. IsState(game')
  <2>1. /\ game \in [stones : Go!Boards, side : Go!Colors, passes : 0..2,
                      history : Seq(Go!Boards), membership : SUBSET Go!Boards]
        /\ Go!Opponent(game.side) \in Go!Colors /\ game.passes + 1 \in 0..2
    BY <1>1 DEF GameInv, IsState, Go!Colors, Go!Opponent
  <2> QED
    BY <1>1, <2>1 DEF IsState
<1> QED
  BY <1>2, <1>3 DEF GameInv, Go!HistoryIsLive, Breathes

LEMMA GameMoveKeeps ==
  ASSUME Go!RulesAssumption, GameInv, NEW a \in Points, Go!Play(a)
  PROVE  GameInv'
<1> DEFINE R == Go!Probe(game, a)
<1>1. /\ Go!LegalPoint(game, a)
      /\ game' = [stones |-> R, side |-> Go!Opponent(game.side), passes |-> 0,
                  history |-> Append(game.history, R), membership |-> game.membership \cup {R}]
  BY DEF Go!Play, Go!Apply, Go!Legal, Go!RulesAssumption
<1>2. R \in Go!Boards
  BY <1>1, BoardsOfMove DEF GameInv, IsState, Go!LegalPoint
<1>3. Breathes(R)
  BY <1>1, MoveBreathes DEF GameInv, IsState
<1>4. /\ IsFiniteSet(game.membership \cup {R})
      /\ Cardinality(game.membership \cup {R}) = Cardinality(game.membership) + 1
  BY <1>1, FS_AddElement DEF GameInv, Go!LegalPoint
<1>5. game.history \in Seq(Go!Boards)
  BY DEF GameInv, IsState
<1> HIDE DEF R
<1>6. IsState(game')
  BY <1>1, <1>2, <1>5 DEF GameInv, IsState, Go!Colors, Go!Opponent
<1>7. Go!HistoryIsLive'
  <2> DEFINE h == game.history
  <2>1. /\ Append(h, R) \in Seq(Go!Boards) /\ Len(Append(h, R)) = Len(h) + 1 /\ Len(h) \in Nat
        /\ \A i \in 1..Len(h) : Append(h, R)[i] = h[i]
        /\ Append(h, R)[Len(h) + 1] = R
    BY <1>2, <1>5
  <2>2. DOMAIN h = 1..Len(h) /\ DOMAIN Append(h, R) = 1..(Len(h) + 1)
    BY <1>5, <2>1
  <2>3. game.membership = {h[i] : i \in 1..Len(h)}
    BY <2>2 DEF GameInv, Go!HistoryIsLive
  <2>4. game.membership \cup {R} = {Append(h, R)[i] : i \in 1..(Len(h) + 1)}
    BY <2>1, <2>3
  <2> QED
    BY <1>1, <1>4, <2>1, <2>2, <2>4, GameCount DEF GameInv, Go!HistoryIsLive
<1> QED
  BY <1>1, <1>3, <1>4, <1>6, <1>7 DEF GameInv, Breathes

LEMMA GameStepKeeps == ASSUME Go!RulesAssumption, GameInv, [Go!RulesNext]_game PROVE GameInv'
<1>1. CASE UNCHANGED game
  BY <1>1 DEF GameInv, IsState, Go!HistoryIsLive, Breathes
<1>2. CASE Go!RulesNext
  BY <1>2, GamePassKeeps, GameMoveKeeps DEF Go!RulesNext
<1> QED
  BY <1>1, <1>2

LEMMA GameInvariance == ASSUME Go!RulesAssumption PROVE Go!RulesSpec => []GameInv
<1>1. Go!RulesInit => GameInv
  BY GameInitHolds
<1>2. GameInv /\ [Go!RulesNext]_game => GameInv'
  BY GameStepKeeps
<1> QED
  BY <1>1, <1>2, PTL DEF Go!RulesSpec

-----------------------------------------------------------------------------
(* GoRules: what follows from it.                                          *)

\* A state of a game has its types on every graph.
THEOREM GamesAreTyped == ASSUME Go!RulesAssumption PROVE Go!RulesSpec => [](Go!RulesTypeOK)
<1>1. GameInv => Go!RulesTypeOK
  BY DEF GameInv, IsState, Go!RulesTypeOK
<1> QED
  BY GameInvariance, <1>1, PTL

\* Whatever the graph of a topology, no group is ever out of liberties: it is
\* enough that a move looks at the groups beside its stone.
THEOREM GroupsAlwaysBreathe ==
  ASSUME Go!RulesAssumption
  PROVE  Go!RulesSpec => [](Go!EveryGroupBreathes)
<1>1. GameInv => Go!EveryGroupBreathes
  BY DEF GameInv, Breathes, Go!EveryGroupBreathes
<1> QED
  BY GameInvariance, <1>1, PTL

\* The index that superko looks into is the set of all positions of the game,
\* and no position occurs twice, on every graph.
THEOREM HistoriesAreLive == ASSUME Go!RulesAssumption PROVE Go!RulesSpec => [](Go!HistoryIsLive)
<1>1. GameInv => Go!HistoryIsLive
  BY DEF GameInv
<1> QED
  BY GameInvariance, <1>1, PTL
=============================================================================
