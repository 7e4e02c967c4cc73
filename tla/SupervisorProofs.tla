-------------------------- MODULE SupervisorProofs --------------------------
(***************************************************************************)
(* Proofs about the supervisor: type correctness, the accounting of        *)
(* attempts that bounds how many processes one execution may start, and    *)
(* which of these processes may be alive while the records forget them.    *)
(***************************************************************************)
EXTENDS Supervisor, TLAPS

-----------------------------------------------------------------------------
(* The inductive invariant.  `Spent' is what acknowledged stops and crashes *)
(* allow on top of the attempts the records name.                          *)

Spent == MaxAttempts * acks + crashes

\* A recorded child was started under the policy.
ActiveInv ==
  /\ active.attempt = 0 => active = NoRecord
  /\ active.attempt \in 0..MaxAttempts
  /\ active # NoRecord => active.pid \in Pids
  /\ RecordsAgree
  /\ pc \in {"clearIntent", "decide"} => active = NoRecord
  /\ pc = "reclaim" => active # NoRecord /\ intent = active.attempt + 1

\* Where a call stands fixes its attempt against the records.
AttemptInv ==
  /\ pc \in {"start", "spawn", "publish", "match", "monitor", "sweep", "failing",
             "retire", "decide", "survived", "integrity"} => att \in 1..MaxAttempts
  /\ pc \in {"match", "monitor", "sweep", "failing", "retire", "survived"}
       => active.attempt = att
  /\ pc \in {"publish", "match", "monitor"} => pid \in Pids
  /\ pc = "integrity" /\ pid # NoPid => active.attempt = att
  /\ pc \in {"spawn", "publish"} => intent = att
  /\ pc \in {"integrity", "decide"} => intent \in {att, att + 1}
  /\ pc = "start" => att = NextAttempt
  /\ pc \in {"spawn", "publish"} /\ active # NoRecord => active.attempt + 1 = att

\* An exit status of zero stands for durable work, and only then are the
\* records of an unstopped execution cleared.
DoneInv ==
  /\ \A p \in Pids : st[p] = "zombie" /\ code[p] = 0 => done
  /\ pc = "sweep" => done
  /\ SuccessIsDone

\* A stop is written by the last step of a call and cleared by the last
\* step of an acknowledgement.
StopInv ==
  /\ stop.attempt = 0 => stop = NoRecord
  /\ pc \in {"start", "spawn", "publish", "match", "monitor", "sweep", "failing",
             "retire", "decide", "survived", "integrity", "reclaim"} => stop = NoRecord
  /\ pc = "unpublish" => stop # NoRecord

\* The processes started so far, against the attempt the records name.
LaunchInv ==
  /\ launches <= Spent + MaxAttempts
  /\ pc \in {"start", "spawn"} => launches + 1 <= Spent + att
  /\ pc \in {"publish", "match", "monitor", "sweep", "failing", "retire", "decide",
             "survived", "integrity"} => launches <= Spent + att
  /\ (pc \in {"plan", "halt"} \/ (pc \in {"idle", "reclaim"} /\ ~done)) /\ stop = NoRecord
       => launches + 1 <= Spent + NextAttempt
  /\ pc \in {"clearActive", "clearIntent", "clearStop"} /\ ~done
       => stop # NoRecord /\ launches <= Spent

IInv == TypeOK /\ ActiveInv /\ AttemptInv /\ DoneInv /\ StopInv /\ LaunchInv
-----------------------------------------------------------------------------
(* Every step keeps the types.                                             *)

\* The type invariant by the part of the state a step writes.
DiskOK ==
  /\ intent \in Nat
  /\ active \in [attempt : Nat, pid : Pids \cup {NoPid}]
  /\ stop \in [attempt : Nat, pid : Pids \cup {NoPid}]

SystemOK ==
  /\ st \in [Pids -> LeaderState]
  /\ code \in [Pids -> {0, 1}]
  /\ kids \in [Pids -> BOOLEAN]
  /\ mine \in [Pids -> BOOLEAN]
  /\ harmed \in BOOLEAN

MemoryOK ==
  /\ pc \in Control
  /\ att \in Nat
  /\ pid \in Pids \cup {NoPid}
  /\ own \in BOOLEAN
  /\ outcome \in Outcome

CountersOK == done \in BOOLEAN /\ launches \in Nat /\ crashes \in Nat /\ acks \in Nat

LEMMA TypeParts == TypeOK <=> DiskOK /\ SystemOK /\ MemoryOK /\ CountersOK
BY DEF TypeOK, DiskOK, SystemOK, MemoryOK, CountersOK

\* Terminating a group, or failing to, keeps the types of the system.
LEMMA TerminationTypes ==
  ASSUME SystemOK, NEW p, Killed(p) \/ Survived(p) \/ UNCHANGED <<os, harmed>>
  PROVE  SystemOK'
BY DEF SystemOK, LeaderState, Killed, Survived, os

LEMMA ReturnTypes == ASSUME NEW r \in Outcome, Return(r) PROVE MemoryOK'
BY DEF Return, MemoryOK, Control

LEMMA GotoTypes == ASSUME MemoryOK, NEW l \in Control, Goto(l) PROVE MemoryOK'
BY DEF Goto, MemoryOK

LEMMA InitTypeOK == Init => TypeOK
<1> SUFFICES ASSUME Init PROVE TypeOK
  OBVIOUS
<1>1. DiskOK
  BY DEF Init, DiskOK, NoRecord
<1>2. SystemOK
  BY DEF Init, SystemOK, LeaderState, Health
<1>3. MemoryOK /\ CountersOK
  BY DEF Init, MemoryOK, CountersOK, Control, Outcome
<1> QED
  BY <1>1, <1>2, <1>3, TypeParts

LEMMA NextTypeOK == TypeOK /\ [Next]_vars => TypeOK'
<1> SUFFICES ASSUME TypeOK, [Next]_vars PROVE TypeOK'
  OBVIOUS
<1>0. DiskOK /\ SystemOK /\ MemoryOK /\ CountersOK
  BY TypeParts
<1>1. CASE Call
  BY <1>1 DEF Call, disk, os, memory, ghosts, Return, Goto, Killed, Survived, NoRecord, Record,
     TypeOK, LeaderState, Health, Control, Outcome
<1>2. CASE Plan
  <2>1. DiskOK'
    BY <1>0, <1>2 DEF Plan, DiskOK, NoRecord, Record, disk
  <2>2. SystemOK'
    BY <1>0, <1>2 DEF Plan, SystemOK, os, ghosts
  <2>3. NextAttempt \in Nat
    BY <1>0 DEF NextAttempt, DiskOK
  <2>5. MemoryOK'
    BY <1>0, <1>2, <2>3 DEF Plan, MemoryOK, DiskOK, Control, Outcome
  <2>4. CountersOK'
    BY <1>0, <1>2 DEF Plan, CountersOK, ghosts
  <2> QED
    BY <2>1, <2>2, <2>4, <2>5 DEF TypeOK, DiskOK, SystemOK, MemoryOK, CountersOK
<1>3. CASE Match
  BY <1>3 DEF Match, disk, os, memory, ghosts, Return, Goto, Killed, Survived, NoRecord, Record,
     TypeOK, LeaderState, Health, Control, Outcome
<1>4. CASE Halt
  <2>1. DiskOK'
    BY <1>0, <1>4 DEF Halt, DiskOK, NoRecord, Record, disk
  <2>2. SystemOK'
    BY <1>0, <1>4, TerminationTypes DEF Halt
  <2>3. MemoryOK'
    BY <1>0, <1>4, ReturnTypes, GotoTypes DEF Halt, MemoryOK, Control, Outcome
  <2>4. CountersOK'
    BY <1>0, <1>4 DEF Halt, CountersOK, ghosts
  <2> QED
    BY <2>1, <2>2, <2>3, <2>4 DEF TypeOK, DiskOK, SystemOK, MemoryOK, CountersOK
<1>5. CASE WriteIntent
  BY <1>5 DEF WriteIntent, disk, os, memory, ghosts, Return, Goto, Killed, Survived, NoRecord,
     Record, TypeOK, LeaderState, Health, Control, Outcome
<1>6. CASE Spawn
  BY <1>6 DEF Spawn, disk, os, memory, ghosts, Return, Goto, Killed, Survived, NoRecord, Record,
     TypeOK, LeaderState, Health, Control, Outcome
<1>7. CASE SpawnRaises
  BY <1>7 DEF SpawnRaises, disk, os, memory, ghosts, Return, Goto, Killed, Survived, NoRecord,
     Record, TypeOK, LeaderState, Health, Control, Outcome
<1>8. CASE Publish
  BY <1>8 DEF Publish, disk, os, memory, ghosts, Return, Goto, Killed, Survived, NoRecord,
     Record, TypeOK, LeaderState, Health, Control, Outcome
<1>9. CASE PublishFails
  BY <1>9 DEF PublishFails, disk, os, memory, ghosts, Return, Goto, Killed, Survived, NoRecord,
     Record, TypeOK, LeaderState, Health, Control, Outcome
<1>9a. CASE PublishInterrupted
  <2>1. SystemOK'
    BY <1>0, <1>9a, TerminationTypes DEF PublishInterrupted
  <2>2. DiskOK' /\ MemoryOK' /\ CountersOK'
    BY <1>0, <1>9a, ReturnTypes DEF PublishInterrupted, DiskOK, CountersOK, Outcome, disk
  <2> QED
    BY <2>1, <2>2 DEF TypeOK, DiskOK, SystemOK, MemoryOK, CountersOK
<1>10. CASE SeeExit
  BY <1>10 DEF SeeExit, disk, os, memory, ghosts, Return, Goto, Killed, Survived, NoRecord,
     Record, TypeOK, LeaderState, Health, Control, Outcome
<1>11. CASE Sweep
  BY ZenonT(60), <1>11 DEF Sweep, disk, os, memory, ghosts, Return, Goto, Killed, Survived, NoRecord,
     Record, TypeOK, LeaderState, Health, Control, Outcome
<1>12. CASE SeeGone
  BY <1>12 DEF SeeGone, disk, os, memory, ghosts, Return, Goto, Killed, Survived, NoRecord,
     Record, TypeOK, LeaderState, Health, Control, Outcome
<1>13. CASE SeeStale
  BY <1>13 DEF SeeStale, disk, os, memory, ghosts, Return, Goto, Killed, Survived, NoRecord,
     Record, TypeOK, LeaderState, Health, Control, Outcome
<1>14. CASE Interrupt
  BY <1>14 DEF Interrupt, disk, os, memory, ghosts, Return, Goto, Killed, Survived, NoRecord,
     Record, TypeOK, LeaderState, Health, Control, Outcome
<1>15. CASE ClearActive
  BY <1>15 DEF ClearActive, disk, os, memory, ghosts, Return, Goto, Killed, Survived, NoRecord,
     Record, TypeOK, LeaderState, Health, Control, Outcome
<1>16. CASE ClearIntent
  <2>1. DiskOK'
    BY <1>0, <1>16 DEF ClearIntent, DiskOK, NoRecord, Record, disk
  <2>2. SystemOK'
    BY <1>0, <1>16 DEF ClearIntent, SystemOK, os, ghosts
  <2>3. MemoryOK'
    BY <1>0, <1>16, ReturnTypes, GotoTypes DEF ClearIntent, Control, Outcome
  <2>4. CountersOK'
    BY <1>0, <1>16 DEF ClearIntent, CountersOK, ghosts
  <2> QED
    BY <2>1, <2>2, <2>3, <2>4 DEF TypeOK, DiskOK, SystemOK, MemoryOK, CountersOK
<1>17. CASE ClearStop
  BY <1>17 DEF ClearStop, disk, os, memory, ghosts, Return, Goto, Killed, Survived, NoRecord,
     Record, TypeOK, LeaderState, Health, Control, Outcome
<1>18. CASE Fail
  BY ZenonT(60), <1>18 DEF Fail, disk, os, memory, ghosts, Return, Goto, Killed, Survived, NoRecord, Record,
     TypeOK, LeaderState, Health, Control, Outcome
<1>19. CASE Retire
  BY <1>19 DEF Retire, disk, os, memory, ghosts, Return, Goto, Killed, Survived, NoRecord,
     Record, TypeOK, LeaderState, Health, Control, Outcome
<1>20. CASE GiveUp
  BY <1>20 DEF GiveUp, disk, os, memory, ghosts, Return, Goto, Killed, Survived, NoRecord,
     Record, TypeOK, LeaderState, Health, Control, Outcome
<1>21. CASE Retry
  <2>0. att' \in Nat
    BY <1>0, <1>21 DEF Retry, MemoryOK
  <2>1. DiskOK'
    BY <1>0, <1>21, <2>0 DEF Retry, DiskOK
  <2>2. SystemOK'
    BY <1>0, <1>21 DEF Retry, SystemOK, os, ghosts
  <2>3. MemoryOK'
    BY <1>0, <1>21, <2>0 DEF Retry, MemoryOK, Control
  <2>4. CountersOK'
    BY <1>0, <1>21 DEF Retry, CountersOK, ghosts
  <2> QED
    BY <2>1, <2>2, <2>3, <2>4 DEF TypeOK, DiskOK, SystemOK, MemoryOK, CountersOK
<1>22. CASE StopSurvivor
  BY <1>22 DEF StopSurvivor, disk, os, memory, ghosts, Return, Goto, Killed, Survived, NoRecord,
     Record, TypeOK, LeaderState, Health, Control, Outcome
<1>23. CASE Integrity
  <2>1. DiskOK'
    BY <1>0, <1>23 DEF Integrity, DiskOK, MemoryOK, Record
  <2>2. SystemOK'
    BY <1>0, <1>23, TerminationTypes DEF Integrity
  <2>3. MemoryOK'
    BY <1>0, <1>23, ReturnTypes, GotoTypes DEF Integrity, MemoryOK, Control, Outcome
  <2>4. CountersOK'
    BY <1>0, <1>23 DEF Integrity, CountersOK, ghosts
  <2> QED
    BY <2>1, <2>2, <2>3, <2>4 DEF TypeOK, DiskOK, SystemOK, MemoryOK, CountersOK
<1>24. CASE Unpublish
  BY <1>24 DEF Unpublish, disk, os, memory, ghosts, Return, Goto, Killed, Survived, NoRecord,
     Record, TypeOK, LeaderState, Health, Control, Outcome
<1>25. CASE Acknowledge
  <2>1. DiskOK'
    BY <1>0, <1>25 DEF Acknowledge, DiskOK, NoRecord, Record, disk
  <2>2. SystemOK'
    BY <1>0, <1>25, TerminationTypes DEF Acknowledge
  <2>3. MemoryOK'
    BY <1>0, <1>25, ReturnTypes, GotoTypes DEF Acknowledge, MemoryOK, Control, Outcome
  <2>4. CountersOK'
    BY <1>0, <1>25 DEF Acknowledge, CountersOK, ghosts
  <2> QED
    BY <2>1, <2>2, <2>3, <2>4 DEF TypeOK, DiskOK, SystemOK, MemoryOK, CountersOK
<1>26. CASE Reconcile
  <2>1. DiskOK'
    BY <1>0, <1>26 DEF Reconcile, DiskOK, NoRecord, Record, disk
  <2>2. SystemOK'
    BY <1>0, <1>26, TerminationTypes DEF Reconcile
  <2>3. MemoryOK'
    BY <1>0, <1>26, ReturnTypes, GotoTypes DEF Reconcile, MemoryOK, Control, Outcome
  <2>4. CountersOK'
    BY <1>0, <1>26 DEF Reconcile, CountersOK, ghosts
  <2> QED
    BY <2>1, <2>2, <2>3, <2>4 DEF TypeOK, DiskOK, SystemOK, MemoryOK, CountersOK
<1>27. CASE Reclaim
  BY <1>27 DEF Reclaim, disk, os, memory, ghosts, Return, Goto, Killed, Survived, NoRecord,
     Record, TypeOK, LeaderState, Health, Control, Outcome
<1>28. CASE ReclaimClear
  BY <1>28 DEF ReclaimClear, disk, os, memory, ghosts, Return, Goto, Killed, Survived, NoRecord,
     Record, TypeOK, LeaderState, Health, Control, Outcome
<1>29. CASE \E p \in Pids : Boot(p) \/ Complete(p) \/ KidsExit(p) \/ Freeze(p) \/ Reuse(p)
  <2>1. SystemOK'
    BY <1>0, <1>29 DEF SystemOK, LeaderState, Health, Boot, Complete, KidsExit, Freeze, Reuse,
       os, ghosts
  <2>2. DiskOK' /\ MemoryOK' /\ CountersOK'
    BY <1>0, <1>29 DEF DiskOK, MemoryOK, CountersOK, Boot, Complete, KidsExit, Freeze, Reuse,
       disk, memory, ghosts
  <2> QED
    BY <2>1, <2>2 DEF TypeOK, DiskOK, SystemOK, MemoryOK, CountersOK
<1>30. CASE \E p \in Pids, c \in {0, 1} : Exit(p, c)
  <2>1. SystemOK'
    <3> PICK p \in Pids, c \in {0, 1} : Exit(p, c)
      BY <1>30
    <3>1. st' \in [Pids -> LeaderState]
      BY <1>0 DEF SystemOK, LeaderState, Exit
    <3>2. kids' \in [Pids -> BOOLEAN]
      BY <1>0 DEF SystemOK, Exit
    <3> QED
      BY <1>0, <3>1, <3>2 DEF SystemOK, Exit, ghosts
  <2>2. DiskOK' /\ MemoryOK' /\ CountersOK'
    BY <1>0, <1>30 DEF DiskOK, MemoryOK, CountersOK, Exit, disk, memory, ghosts
  <2> QED
    BY <2>1, <2>2 DEF TypeOK, DiskOK, SystemOK, MemoryOK, CountersOK
<1>31. CASE \E machine \in BOOLEAN : Crash(machine)
  <2>1. SystemOK'
    BY <1>0, <1>31 DEF SystemOK, LeaderState, Crash
  <2>2. DiskOK' /\ MemoryOK' /\ CountersOK'
    BY <1>0, <1>31, ReturnTypes DEF DiskOK, CountersOK, Crash, Outcome, disk
  <2> QED
    BY <2>1, <2>2 DEF TypeOK, DiskOK, SystemOK, MemoryOK, CountersOK
<1>32. CASE UNCHANGED vars
  BY <1>32 DEF vars, TypeOK
<1> QED
  BY <1>1, <1>2, <1>3, <1>4, <1>5, <1>6, <1>7, <1>8, <1>9, <1>9a, <1>10, <1>11, <1>12, <1>13,
     <1>14, <1>15, <1>16, <1>17, <1>18, <1>19, <1>20, <1>21, <1>22, <1>23, <1>24, <1>25, <1>26,
     <1>27, <1>28, <1>29, <1>30, <1>31, <1>32 DEF Next, RunOnce, Recovery, Environment

-----------------------------------------------------------------------------
(* Every step keeps the accounting.                                        *)

\* The numbers the arithmetic below is about.
NumbersOK ==
  /\ intent \in Nat /\ active.attempt \in Nat /\ stop.attempt \in Nat
  /\ att \in Nat /\ launches \in Nat /\ Spent \in Nat

LEMMA MaxAttemptsFacts == MaxAttempts \in Nat /\ MaxAttempts >= 1
BY SupervisorAssumption DEF MaxAttempts

LEMMA SpentFacts ==
  ASSUME TypeOK
  PROVE  /\ NumbersOK
         /\ UNCHANGED <<acks, crashes>> => Spent' = Spent
         /\ acks' = acks + 1 /\ crashes' = crashes => Spent' = Spent + MaxAttempts
         /\ crashes' = crashes + 1 /\ acks' = acks => Spent' = Spent + 1
<1>1. acks \in Nat /\ crashes \in Nat
  BY DEF TypeOK
<1>2. \A n \in Nat : MaxAttempts * n \in Nat /\ MaxAttempts * (n + 1) = MaxAttempts * n + MaxAttempts
  BY MaxAttemptsFacts
<1> QED
  BY <1>1, <1>2, MaxAttemptsFacts DEF TypeOK, NumbersOK, Spent

LEMMA NextRecordsInv == IInv /\ [Next]_vars => ActiveInv' /\ AttemptInv' /\ StopInv'
<1> SUFFICES ASSUME IInv, [Next]_vars PROVE ActiveInv' /\ AttemptInv' /\ StopInv'
  OBVIOUS
<1>0. NumbersOK /\ ActiveInv /\ AttemptInv /\ StopInv
  BY SpentFacts DEF IInv, TypeOK
<1> USE MaxAttemptsFacts DEF NoRecord, Record, Return, Goto, disk, os, ghosts, RecordsAgree, NoPid
<1>1. CASE Call
  BY <1>0, <1>1 DEF Call, NumbersOK, ActiveInv, AttemptInv, StopInv
<1>2. CASE Plan
  BY <1>0, <1>2 DEF Plan, NumbersOK, ActiveInv, AttemptInv, StopInv, NextAttempt
<1>3. CASE Match
  BY <1>0, <1>3 DEF Match, NumbersOK, ActiveInv, AttemptInv, StopInv
<1>4. CASE Halt
  BY <1>0, <1>4 DEF Halt, NumbersOK, ActiveInv, AttemptInv, StopInv
<1>5. CASE WriteIntent
  BY <1>0, <1>5 DEF WriteIntent, NumbersOK, ActiveInv, AttemptInv, StopInv, NextAttempt
<1>6. CASE Spawn
  BY <1>0, <1>6 DEF Spawn, NumbersOK, ActiveInv, AttemptInv, StopInv
<1>7. CASE SpawnRaises
  BY <1>0, <1>7 DEF SpawnRaises, NumbersOK, ActiveInv, AttemptInv, StopInv
<1>8. CASE Publish
  BY <1>0, <1>8 DEF Publish, NumbersOK, ActiveInv, AttemptInv, StopInv
<1>9. CASE PublishFails
  BY <1>0, <1>9 DEF PublishFails, NumbersOK, ActiveInv, AttemptInv, StopInv
<1>10. CASE PublishInterrupted
  BY <1>0, <1>10 DEF PublishInterrupted, NumbersOK, ActiveInv, AttemptInv, StopInv
<1>11. CASE SeeExit
  BY <1>0, <1>11 DEF SeeExit, NumbersOK, ActiveInv, AttemptInv, StopInv
<1>12. CASE Sweep
  BY <1>0, <1>12 DEF Sweep, NumbersOK, ActiveInv, AttemptInv, StopInv
<1>13. CASE SeeGone
  BY <1>0, <1>13 DEF SeeGone, NumbersOK, ActiveInv, AttemptInv, StopInv
<1>14. CASE SeeStale
  BY <1>0, <1>14 DEF SeeStale, NumbersOK, ActiveInv, AttemptInv, StopInv
<1>15. CASE Interrupt
  BY <1>0, <1>15 DEF Interrupt, NumbersOK, ActiveInv, AttemptInv, StopInv
<1>16. CASE ClearActive
  BY <1>0, <1>16 DEF ClearActive, NumbersOK, ActiveInv, AttemptInv, StopInv
<1>17. CASE ClearIntent
  BY <1>0, <1>17 DEF ClearIntent, NumbersOK, ActiveInv, AttemptInv, StopInv
<1>18. CASE ClearStop
  BY <1>0, <1>18 DEF ClearStop, NumbersOK, ActiveInv, AttemptInv, StopInv
<1>19. CASE Fail
  BY <1>0, <1>19 DEF Fail, NumbersOK, ActiveInv, AttemptInv, StopInv
<1>20. CASE Retire
  BY <1>0, <1>20 DEF Retire, NumbersOK, ActiveInv, AttemptInv, StopInv
<1>21. CASE GiveUp
  BY <1>0, <1>21 DEF GiveUp, NumbersOK, ActiveInv, AttemptInv, StopInv
<1>22. CASE Retry
  BY <1>0, <1>22 DEF Retry, NumbersOK, ActiveInv, AttemptInv, StopInv, NextAttempt
<1>23. CASE StopSurvivor
  BY <1>0, <1>23 DEF StopSurvivor, NumbersOK, ActiveInv, AttemptInv, StopInv
<1>24. CASE Integrity
  BY <1>0, <1>24 DEF Integrity, NumbersOK, ActiveInv, AttemptInv, StopInv
<1>25. CASE Unpublish
  BY <1>0, <1>25 DEF Unpublish, NumbersOK, ActiveInv, AttemptInv, StopInv
<1>26. CASE Acknowledge
  BY <1>0, <1>26 DEF Acknowledge, NumbersOK, ActiveInv, AttemptInv, StopInv, StopMatches
<1>27. CASE Reconcile
  BY <1>0, <1>27 DEF Reconcile, NumbersOK, ActiveInv, AttemptInv, StopInv
<1>28. CASE Reclaim
  BY <1>0, <1>28 DEF Reclaim, NumbersOK, ActiveInv, AttemptInv, StopInv
<1>29. CASE ReclaimClear
  BY <1>0, <1>29 DEF ReclaimClear, NumbersOK, ActiveInv, AttemptInv, StopInv
<1>30. CASE \E p \in Pids : Boot(p) \/ Complete(p) \/ KidsExit(p) \/ Freeze(p) \/ Reuse(p)
  BY <1>0, <1>30 DEF Boot, Complete, KidsExit, Freeze, Reuse, memory, NumbersOK, ActiveInv,
     AttemptInv, StopInv, NextAttempt
<1>31. CASE \E p \in Pids, c \in {0, 1} : Exit(p, c)
  BY <1>0, <1>31 DEF Exit, memory, NumbersOK, ActiveInv, AttemptInv, StopInv, NextAttempt
<1>32. CASE \E machine \in BOOLEAN : Crash(machine)
  BY <1>0, <1>32 DEF Crash, NumbersOK, ActiveInv, AttemptInv, StopInv
<1>33. CASE UNCHANGED vars
  BY <1>0, <1>33 DEF vars, NumbersOK, ActiveInv, AttemptInv, StopInv, NextAttempt
<1> QED
  BY <1>1, <1>2, <1>3, <1>4, <1>5, <1>6, <1>7, <1>8, <1>9, <1>10, <1>11, <1>12, <1>13, <1>14,
     <1>15, <1>16, <1>17, <1>18, <1>19, <1>20, <1>21, <1>22, <1>23, <1>24, <1>25, <1>26, <1>27,
     <1>28, <1>29, <1>30, <1>31, <1>32, <1>33 DEF Next, RunOnce, Recovery, Environment

LEMMA NextDoneInv == IInv /\ [Next]_vars => DoneInv'
<1> SUFFICES ASSUME IInv, [Next]_vars PROVE DoneInv'
  OBVIOUS
<1>0. NumbersOK /\ DoneInv /\ AttemptInv /\ StopInv /\ st \in [Pids -> LeaderState] /\ code \in [Pids -> {0, 1}]
  BY SpentFacts DEF IInv, TypeOK
<1> USE MaxAttemptsFacts DEF NoRecord, Record, Return, Goto, disk, os, ghosts, RecordsAgree, NoPid
<1>1. CASE Call
  BY <1>0, <1>1 DEF Call, DoneInv, SuccessIsDone, AttemptInv, StopInv, Killed, Survived
<1>2. CASE Plan
  BY <1>0, <1>2 DEF Plan, DoneInv, SuccessIsDone, AttemptInv, StopInv, Killed, Survived, NextAttempt
<1>3. CASE Match
  BY <1>0, <1>3 DEF Match, DoneInv, SuccessIsDone, AttemptInv, StopInv, Killed, Survived
<1>4. CASE Halt
  BY <1>0, <1>4 DEF Halt, DoneInv, SuccessIsDone, AttemptInv, StopInv, Killed, Survived
<1>5. CASE WriteIntent
  BY <1>0, <1>5 DEF WriteIntent, DoneInv, SuccessIsDone, AttemptInv, StopInv, Killed, Survived,
     NextAttempt
<1>6. CASE Spawn
  BY <1>0, <1>6 DEF Spawn, DoneInv, SuccessIsDone, AttemptInv, StopInv, Killed, Survived
<1>7. CASE SpawnRaises
  BY <1>0, <1>7 DEF SpawnRaises, DoneInv, SuccessIsDone, AttemptInv, StopInv, Killed, Survived
<1>8. CASE Publish
  BY <1>0, <1>8 DEF Publish, DoneInv, SuccessIsDone, AttemptInv, StopInv, Killed, Survived
<1>9. CASE PublishFails
  BY <1>0, <1>9 DEF PublishFails, DoneInv, SuccessIsDone, AttemptInv, StopInv, Killed, Survived
<1>10. CASE PublishInterrupted
  BY <1>0, <1>10 DEF PublishInterrupted, DoneInv, SuccessIsDone, AttemptInv, StopInv, Killed,
     Survived
<1>11. CASE SeeExit
  BY <1>0, <1>11 DEF SeeExit, DoneInv, SuccessIsDone, AttemptInv, StopInv, Killed, Survived
<1>12. CASE Sweep
  BY <1>0, <1>12 DEF Sweep, DoneInv, SuccessIsDone, AttemptInv, StopInv, Killed, Survived
<1>13. CASE SeeGone
  BY <1>0, <1>13 DEF SeeGone, DoneInv, SuccessIsDone, AttemptInv, StopInv, Killed, Survived
<1>14. CASE SeeStale
  BY <1>0, <1>14 DEF SeeStale, DoneInv, SuccessIsDone, AttemptInv, StopInv, Killed, Survived
<1>15. CASE Interrupt
  BY <1>0, <1>15 DEF Interrupt, DoneInv, SuccessIsDone, AttemptInv, StopInv, Killed, Survived
<1>16. CASE ClearActive
  BY <1>0, <1>16 DEF ClearActive, DoneInv, SuccessIsDone, AttemptInv, StopInv, Killed, Survived
<1>17. CASE ClearIntent
  BY <1>0, <1>17 DEF ClearIntent, DoneInv, SuccessIsDone, AttemptInv, StopInv, Killed, Survived
<1>18. CASE ClearStop
  BY <1>0, <1>18 DEF ClearStop, DoneInv, SuccessIsDone, AttemptInv, StopInv, Killed, Survived
<1>19. CASE Fail
  BY <1>0, <1>19 DEF Fail, DoneInv, SuccessIsDone, AttemptInv, StopInv, Killed, Survived
<1>20. CASE Retire
  BY <1>0, <1>20 DEF Retire, DoneInv, SuccessIsDone, AttemptInv, StopInv, Killed, Survived
<1>21. CASE GiveUp
  BY <1>0, <1>21 DEF GiveUp, DoneInv, SuccessIsDone, AttemptInv, StopInv, Killed, Survived
<1>22. CASE Retry
  BY <1>0, <1>22 DEF Retry, DoneInv, SuccessIsDone, AttemptInv, StopInv, Killed, Survived,
     NextAttempt
<1>23. CASE StopSurvivor
  BY <1>0, <1>23 DEF StopSurvivor, DoneInv, SuccessIsDone, AttemptInv, StopInv, Killed, Survived
<1>24. CASE Integrity
  BY <1>0, <1>24 DEF Integrity, DoneInv, SuccessIsDone, AttemptInv, StopInv, Killed, Survived
<1>25. CASE Unpublish
  BY <1>0, <1>25 DEF Unpublish, DoneInv, SuccessIsDone, AttemptInv, StopInv, Killed, Survived
<1>26. CASE Acknowledge
  BY <1>0, <1>26 DEF Acknowledge, DoneInv, SuccessIsDone, AttemptInv, StopInv, Killed, Survived,
     StopMatches
<1>27. CASE Reconcile
  BY <1>0, <1>27 DEF Reconcile, DoneInv, SuccessIsDone, AttemptInv, StopInv, Killed, Survived
<1>28. CASE Reclaim
  BY <1>0, <1>28 DEF Reclaim, DoneInv, SuccessIsDone, AttemptInv, StopInv, Killed, Survived
<1>29. CASE ReclaimClear
  BY <1>0, <1>29 DEF ReclaimClear, DoneInv, SuccessIsDone, AttemptInv, StopInv, Killed, Survived
<1>30. CASE \E p \in Pids : Boot(p) \/ Complete(p) \/ KidsExit(p) \/ Freeze(p) \/ Reuse(p)
  BY <1>0, <1>30 DEF Boot, Complete, KidsExit, Freeze, Reuse, memory, DoneInv, SuccessIsDone,
     AttemptInv, StopInv, Killed, Survived, NextAttempt
<1>31. CASE \E p \in Pids, c \in {0, 1} : Exit(p, c)
  BY <1>0, <1>31 DEF Exit, memory, DoneInv, SuccessIsDone, AttemptInv, StopInv, Killed,
     Survived, NextAttempt
<1>32. CASE \E machine \in BOOLEAN : Crash(machine)
  BY <1>0, <1>32 DEF Crash, DoneInv, SuccessIsDone, AttemptInv, StopInv, Killed, Survived
<1>33. CASE UNCHANGED vars
  BY <1>0, <1>33 DEF vars, DoneInv, SuccessIsDone, AttemptInv, StopInv, Killed, Survived,
     NextAttempt
<1> QED
  BY <1>1, <1>2, <1>3, <1>4, <1>5, <1>6, <1>7, <1>8, <1>9, <1>10, <1>11, <1>12, <1>13, <1>14,
     <1>15, <1>16, <1>17, <1>18, <1>19, <1>20, <1>21, <1>22, <1>23, <1>24, <1>25, <1>26, <1>27,
     <1>28, <1>29, <1>30, <1>31, <1>32, <1>33 DEF Next, RunOnce, Recovery, Environment

LEMMA NextLaunchInv == IInv /\ [Next]_vars => LaunchInv'
<1> SUFFICES ASSUME IInv, [Next]_vars PROVE LaunchInv'
  OBVIOUS
<1>0. NumbersOK /\ TypeOK /\ ActiveInv /\ DoneInv /\ AttemptInv /\ StopInv /\ LaunchInv
  BY SpentFacts DEF IInv, TypeOK
<1>s. /\ UNCHANGED <<acks, crashes>> => Spent' = Spent
      /\ acks' = acks + 1 /\ crashes' = crashes => Spent' = Spent + MaxAttempts
      /\ crashes' = crashes + 1 /\ acks' = acks => Spent' = Spent + 1
  BY SpentFacts DEF IInv
<1>d. DoneInv'
  BY NextDoneInv
<1> USE MaxAttemptsFacts DEF NoRecord, Record, Return, Goto, disk, os, ghosts, RecordsAgree, NoPid
<1>1. CASE Call
  BY <1>0, <1>1, <1>s DEF Call, NumbersOK, ActiveInv, AttemptInv, DoneInv, SuccessIsDone,
     StopInv, LaunchInv, NextAttempt
<1>2. CASE Plan
  BY <1>0, <1>2, <1>s DEF Plan, NumbersOK, ActiveInv, AttemptInv, DoneInv, SuccessIsDone,
     StopInv, LaunchInv, NextAttempt
<1>3. CASE Match
  BY <1>0, <1>3, <1>s DEF Match, NumbersOK, ActiveInv, AttemptInv, DoneInv, SuccessIsDone,
     StopInv, LaunchInv, NextAttempt
<1>4. CASE Halt
  BY <1>0, <1>4, <1>s DEF Halt, NumbersOK, ActiveInv, AttemptInv, DoneInv, SuccessIsDone,
     StopInv, LaunchInv, NextAttempt
<1>5. CASE WriteIntent
  BY <1>0, <1>5, <1>s DEF WriteIntent, NumbersOK, ActiveInv, AttemptInv, DoneInv, SuccessIsDone,
     StopInv, LaunchInv, NextAttempt
<1>6. CASE Spawn
  BY <1>0, <1>6, <1>s DEF Spawn, NumbersOK, ActiveInv, AttemptInv, DoneInv, SuccessIsDone,
     StopInv, LaunchInv, NextAttempt
<1>7. CASE SpawnRaises
  BY <1>0, <1>7, <1>s DEF SpawnRaises, NumbersOK, ActiveInv, AttemptInv, DoneInv, SuccessIsDone,
     StopInv, LaunchInv, NextAttempt
<1>8. CASE Publish
  BY <1>0, <1>8, <1>s DEF Publish, NumbersOK, ActiveInv, AttemptInv, DoneInv, SuccessIsDone,
     StopInv, LaunchInv, NextAttempt
<1>9. CASE PublishFails
  BY <1>0, <1>9, <1>s DEF PublishFails, NumbersOK, ActiveInv, AttemptInv, DoneInv,
     SuccessIsDone, StopInv, LaunchInv, NextAttempt
<1>10. CASE PublishInterrupted
  BY <1>0, <1>10, <1>s DEF PublishInterrupted, NumbersOK, ActiveInv, AttemptInv, DoneInv,
     SuccessIsDone, StopInv, LaunchInv, NextAttempt
<1>11. CASE SeeExit
  BY <1>0, <1>11, <1>s, <1>d DEF SeeExit, NumbersOK, ActiveInv, AttemptInv, DoneInv,
     SuccessIsDone, StopInv, LaunchInv, NextAttempt
<1>12. CASE Sweep
  BY <1>0, <1>12, <1>s DEF Sweep, NumbersOK, ActiveInv, AttemptInv, DoneInv, SuccessIsDone,
     StopInv, LaunchInv, NextAttempt
<1>13. CASE SeeGone
  BY <1>0, <1>13, <1>s DEF SeeGone, NumbersOK, ActiveInv, AttemptInv, DoneInv, SuccessIsDone,
     StopInv, LaunchInv, NextAttempt
<1>14. CASE SeeStale
  BY <1>0, <1>14, <1>s DEF SeeStale, NumbersOK, ActiveInv, AttemptInv, DoneInv, SuccessIsDone,
     StopInv, LaunchInv, NextAttempt
<1>15. CASE Interrupt
  BY <1>0, <1>15, <1>s DEF Interrupt, NumbersOK, ActiveInv, AttemptInv, DoneInv, SuccessIsDone,
     StopInv, LaunchInv, NextAttempt
<1>16. CASE ClearActive
  BY <1>0, <1>16, <1>s DEF ClearActive, NumbersOK, ActiveInv, AttemptInv, DoneInv,
     SuccessIsDone, StopInv, LaunchInv, NextAttempt
<1>17. CASE ClearIntent
  BY <1>0, <1>17, <1>s DEF ClearIntent, NumbersOK, ActiveInv, AttemptInv, DoneInv,
     SuccessIsDone, StopInv, LaunchInv, NextAttempt
<1>18. CASE ClearStop
  BY <1>0, <1>18, <1>s DEF ClearStop, NumbersOK, ActiveInv, AttemptInv, DoneInv, SuccessIsDone,
     StopInv, LaunchInv, NextAttempt
<1>19. CASE Fail
  BY <1>0, <1>19, <1>s DEF Fail, NumbersOK, ActiveInv, AttemptInv, DoneInv, SuccessIsDone,
     StopInv, LaunchInv, NextAttempt
<1>20. CASE Retire
  BY <1>0, <1>20, <1>s DEF Retire, NumbersOK, ActiveInv, AttemptInv, DoneInv, SuccessIsDone,
     StopInv, LaunchInv, NextAttempt
<1>21. CASE GiveUp
  BY <1>0, <1>21, <1>s DEF GiveUp, NumbersOK, ActiveInv, AttemptInv, DoneInv, SuccessIsDone,
     StopInv, LaunchInv, NextAttempt
<1>22. CASE Retry
  BY <1>0, <1>22, <1>s DEF Retry, NumbersOK, ActiveInv, AttemptInv, DoneInv, SuccessIsDone,
     StopInv, LaunchInv, NextAttempt
<1>23. CASE StopSurvivor
  BY <1>0, <1>23, <1>s DEF StopSurvivor, NumbersOK, ActiveInv, AttemptInv, DoneInv,
     SuccessIsDone, StopInv, LaunchInv, NextAttempt
<1>24. CASE Integrity
  BY <1>0, <1>24, <1>s DEF Integrity, NumbersOK, ActiveInv, AttemptInv, DoneInv, SuccessIsDone,
     StopInv, LaunchInv, NextAttempt
<1>25. CASE Unpublish
  BY <1>0, <1>25, <1>s DEF Unpublish, NumbersOK, ActiveInv, AttemptInv, DoneInv, SuccessIsDone,
     StopInv, LaunchInv, NextAttempt
<1>26. CASE Acknowledge
  BY <1>0, <1>26, <1>s DEF Acknowledge, NumbersOK, ActiveInv, AttemptInv, DoneInv,
     SuccessIsDone, StopInv, LaunchInv, NextAttempt, StopMatches
<1>27. CASE Reconcile
  BY <1>0, <1>27, <1>s DEF Reconcile, NumbersOK, ActiveInv, AttemptInv, DoneInv, SuccessIsDone,
     StopInv, LaunchInv, NextAttempt
<1>28. CASE Reclaim
  BY <1>0, <1>28, <1>s DEF Reclaim, NumbersOK, ActiveInv, AttemptInv, DoneInv, SuccessIsDone,
     StopInv, LaunchInv, NextAttempt
<1>29. CASE ReclaimClear
  BY <1>0, <1>29, <1>s DEF ReclaimClear, NumbersOK, ActiveInv, AttemptInv, DoneInv,
     SuccessIsDone, StopInv, LaunchInv, NextAttempt
<1>30. CASE \E p \in Pids : Boot(p) \/ Complete(p) \/ KidsExit(p) \/ Freeze(p) \/ Reuse(p)
  BY <1>0, <1>30, <1>s DEF Boot, Complete, KidsExit, Freeze, Reuse, memory, NumbersOK,
     ActiveInv, AttemptInv, DoneInv, SuccessIsDone, StopInv, LaunchInv, NextAttempt, NextAttempt
<1>31. CASE \E p \in Pids, c \in {0, 1} : Exit(p, c)
  BY <1>0, <1>31, <1>s DEF Exit, memory, NumbersOK, ActiveInv, AttemptInv, DoneInv,
     SuccessIsDone, StopInv, LaunchInv, NextAttempt, NextAttempt
<1>32. CASE \E machine \in BOOLEAN : Crash(machine)
  <2>1. /\ UNCHANGED <<intent, active, stop, launches, done>>
        /\ Spent' = Spent + 1 /\ pc' = "idle"
    BY <1>s, <1>32 DEF Crash
  <2>2. Spent' \in Nat /\ NextAttempt \in Nat /\ NextAttempt' = NextAttempt
    BY <1>0, <2>1 DEF NumbersOK, NextAttempt
  <2>3. launches <= Spent + NextAttempt \/ stop # NoRecord \/ done
    <3>0. pc \in Control
      BY <1>0 DEF TypeOK
    <3>1. CASE pc \in {"idle", "plan", "halt", "reclaim", "clearActive", "clearIntent", "clearStop", "unpublish"}
      BY <1>0, <3>1 DEF NumbersOK, StopInv, LaunchInv, NextAttempt
    <3>2. CASE pc \in {"start", "spawn", "publish", "decide", "integrity"}
      BY <1>0, <3>2 DEF NumbersOK, AttemptInv, LaunchInv, NextAttempt
    <3>3. CASE pc \in {"match", "monitor", "sweep", "failing", "retire", "survived"}
      BY <1>0, <3>3 DEF NumbersOK, AttemptInv, LaunchInv, NextAttempt
    <3> QED
      BY <3>0, <3>1, <3>2, <3>3 DEF Control
  <2> QED
    BY <1>0, <2>1, <2>2, <2>3 DEF LaunchInv, NumbersOK
<1>33. CASE UNCHANGED vars
  BY <1>0, <1>33, <1>s DEF vars, NumbersOK, ActiveInv, AttemptInv, DoneInv, SuccessIsDone,
     StopInv, LaunchInv, NextAttempt, NextAttempt
<1> QED
  BY <1>1, <1>2, <1>3, <1>4, <1>5, <1>6, <1>7, <1>8, <1>9, <1>10, <1>11, <1>12, <1>13, <1>14,
     <1>15, <1>16, <1>17, <1>18, <1>19, <1>20, <1>21, <1>22, <1>23, <1>24, <1>25, <1>26, <1>27,
     <1>28, <1>29, <1>30, <1>31, <1>32, <1>33 DEF Next, RunOnce, Recovery, Environment

-----------------------------------------------------------------------------
(* Which processes are alive.  The records may forget a process only where *)
(* it is dead: this needs who holds which pid, and what is known dead.     *)

\* Whose pid a call holds: none, or that of the recorded child.
PidInv ==
  /\ pc \in {"idle", "plan", "spawn", "reclaim"} => pid = NoPid
  /\ pc = "start" => pid \in {NoPid, active.pid}
  /\ pc \in {"halt", "match", "monitor", "sweep", "failing", "retire", "survived"}
       => pid = active.pid
  /\ pc = "integrity" => pid \in {NoPid, active.pid}
  /\ pc = "unpublish" => pid = stop.pid /\ pid \in {NoPid, active.pid}

\* A process that is dead, or no process: it stays so, since pids are only
\* given to strangers again.
Dead(p) == p \in Pids => p <= launches /\ st[p] \in {"unborn", "gone", "stranger"}

\* The records name processes that were started, and where a name is about to
\* be dropped, the process is dead.
DeadInv ==
  /\ \A p \in Pids : p > launches => st[p] = "unborn"
  /\ active.pid <= launches /\ stop.pid <= launches /\ pid <= launches
  /\ pc \in {"start", "spawn", "publish", "clearActive", "reclaim"} => Dead(active.pid)
  /\ pc \in {"integrity", "unpublish"} /\ pid = NoPid => Dead(active.pid)
  /\ pc \in {"clearActive", "clearIntent", "clearStop", "retire", "decide"} => Dead(pid)
  /\ pc \in {"clearActive", "clearIntent", "clearStop"} /\ ~done => Dead(stop.pid)

\* Where nothing ever hit the coordinator, and groups die when they are
\* killed, the only child alive is the recorded one, or the new one.
Alive(p) == st[p] \in Health
SoleInv ==
  crashes = 0 /\ ~Survivors =>
    /\ pc # "survived"
    /\ pc \in {"start", "spawn", "clearActive", "clearIntent", "clearStop", "retire", "decide",
               "reclaim", "integrity", "unpublish"} => \A p \in Pids : ~Alive(p)
    /\ \A p \in Pids : Alive(p) => p = IF pc = "publish" THEN pid ELSE active.pid


\* Terminating a group, or failing to, changes the state of its leader only.
LEMMA TerminationFacts ==
  ASSUME TypeOK, NEW q, Killed(q) \/ Survived(q) \/ UNCHANGED <<os, harmed>>
  PROVE  /\ \A p \in Pids : st'[p] = st[p] \/ (p = q /\ st'[p] = "gone")
         /\ Killed(q) /\ q \in Pids => st'[q] = "gone"
         /\ Survived(q) => Survivors /\ UNCHANGED st
BY DEF TypeOK, Killed, Survived, os

\* Every step keeps who holds which pid.
LEMMA NextPidInv == IInv /\ PidInv /\ [Next]_vars => PidInv'
<1> SUFFICES ASSUME IInv /\ PidInv, [Next]_vars PROVE PidInv'
  OBVIOUS
<1>0. TypeOK /\ PidInv /\ ActiveInv /\ AttemptInv /\ StopInv
  BY DEF IInv
<1> USE DEF NoRecord, Record, Return, Goto, disk, os, ghosts, NoPid
<1>1. CASE Call
  BY <1>0, <1>1 DEF Call, PidInv, TypeOK, AttemptInv, ActiveInv, StopInv
<1>2. CASE Plan
  BY <1>0, <1>2 DEF Plan, PidInv, TypeOK, AttemptInv, ActiveInv, StopInv
<1>3. CASE Match
  BY <1>0, <1>3 DEF Match, PidInv, TypeOK, AttemptInv, ActiveInv, StopInv
<1>4. CASE Halt
  BY <1>0, <1>4 DEF Halt, PidInv, TypeOK, AttemptInv, ActiveInv, StopInv
<1>5. CASE WriteIntent
  BY <1>0, <1>5 DEF WriteIntent, PidInv, TypeOK, AttemptInv, ActiveInv, StopInv
<1>6. CASE Spawn
  BY <1>0, <1>6 DEF Spawn, PidInv, TypeOK, AttemptInv, ActiveInv, StopInv
<1>7. CASE SpawnRaises
  BY <1>0, <1>7 DEF SpawnRaises, PidInv, TypeOK, AttemptInv, ActiveInv, StopInv
<1>8. CASE Publish
  BY <1>0, <1>8 DEF Publish, PidInv, TypeOK, AttemptInv, ActiveInv, StopInv
<1>9. CASE PublishFails
  BY <1>0, <1>9 DEF PublishFails, PidInv, TypeOK, AttemptInv, ActiveInv, StopInv
<1>10. CASE PublishInterrupted
  BY <1>0, <1>10 DEF PublishInterrupted, PidInv, TypeOK, AttemptInv, ActiveInv, StopInv
<1>11. CASE SeeExit
  BY <1>0, <1>11 DEF SeeExit, PidInv, TypeOK, AttemptInv, ActiveInv, StopInv
<1>12. CASE Sweep
  BY <1>0, <1>12 DEF Sweep, PidInv, TypeOK, AttemptInv, ActiveInv, StopInv
<1>13. CASE SeeGone
  BY <1>0, <1>13 DEF SeeGone, PidInv, TypeOK, AttemptInv, ActiveInv, StopInv
<1>14. CASE SeeStale
  BY <1>0, <1>14 DEF SeeStale, PidInv, TypeOK, AttemptInv, ActiveInv, StopInv
<1>15. CASE Interrupt
  BY <1>0, <1>15 DEF Interrupt, PidInv, TypeOK, AttemptInv, ActiveInv, StopInv
<1>16. CASE ClearActive
  BY <1>0, <1>16 DEF ClearActive, PidInv, TypeOK, AttemptInv, ActiveInv, StopInv
<1>17. CASE ClearIntent
  BY <1>0, <1>17 DEF ClearIntent, PidInv, TypeOK, AttemptInv, ActiveInv, StopInv
<1>18. CASE ClearStop
  BY <1>0, <1>18 DEF ClearStop, PidInv, TypeOK, AttemptInv, ActiveInv, StopInv
<1>19. CASE Fail
  BY <1>0, <1>19 DEF Fail, PidInv, TypeOK, AttemptInv, ActiveInv, StopInv
<1>20. CASE Retire
  BY <1>0, <1>20 DEF Retire, PidInv, TypeOK, AttemptInv, ActiveInv, StopInv
<1>21. CASE GiveUp
  BY <1>0, <1>21 DEF GiveUp, PidInv, TypeOK, AttemptInv, ActiveInv, StopInv
<1>22. CASE Retry
  BY <1>0, <1>22 DEF Retry, PidInv, TypeOK, AttemptInv, ActiveInv, StopInv
<1>23. CASE StopSurvivor
  BY <1>0, <1>23 DEF StopSurvivor, PidInv, TypeOK, AttemptInv, ActiveInv, StopInv
<1>24. CASE Integrity
  BY <1>0, <1>24 DEF Integrity, PidInv, TypeOK, AttemptInv, ActiveInv, StopInv
<1>25. CASE Unpublish
  BY <1>0, <1>25 DEF Unpublish, PidInv, TypeOK, AttemptInv, ActiveInv, StopInv
<1>26. CASE Acknowledge
  BY <1>0, <1>26 DEF Acknowledge, PidInv, TypeOK, AttemptInv, ActiveInv, StopInv
<1>27. CASE Reconcile
  BY <1>0, <1>27 DEF Reconcile, PidInv, TypeOK, AttemptInv, ActiveInv, StopInv
<1>28. CASE Reclaim
  BY <1>0, <1>28 DEF Reclaim, PidInv, TypeOK, AttemptInv, ActiveInv, StopInv
<1>29. CASE ReclaimClear
  BY <1>0, <1>29 DEF ReclaimClear, PidInv, TypeOK, AttemptInv, ActiveInv, StopInv
<1>30. CASE \E p \in Pids : Boot(p) \/ Complete(p) \/ KidsExit(p) \/ Freeze(p) \/ Reuse(p)
  BY <1>0, <1>30 DEF Boot, Complete, KidsExit, Freeze, Reuse, memory, PidInv, TypeOK,
     AttemptInv, ActiveInv, StopInv
<1>31. CASE \E p \in Pids, c \in {0, 1} : Exit(p, c)
  BY <1>0, <1>31 DEF Exit, memory, PidInv, TypeOK, AttemptInv, ActiveInv, StopInv
<1>32. CASE \E machine \in BOOLEAN : Crash(machine)
  BY <1>0, <1>32 DEF Crash, PidInv, TypeOK, AttemptInv, ActiveInv, StopInv
<1>33. CASE UNCHANGED vars
  BY <1>0, <1>33 DEF vars, PidInv, TypeOK, AttemptInv, ActiveInv, StopInv
<1> QED
  BY <1>1, <1>2, <1>3, <1>4, <1>5, <1>6, <1>7, <1>8, <1>9, <1>10, <1>11, <1>12, <1>13, <1>14,
     <1>15, <1>16, <1>17, <1>18, <1>19, <1>20, <1>21, <1>22, <1>23, <1>24, <1>25, <1>26, <1>27,
     <1>28, <1>29, <1>30, <1>31, <1>32, <1>33 DEF Next, RunOnce, Recovery, Environment

\* Every step drops names of dead processes only.
LEMMA NextDeadInv == IInv /\ PidInv /\ DeadInv /\ [Next]_vars => DeadInv'
<1> SUFFICES ASSUME IInv /\ PidInv /\ DeadInv, [Next]_vars PROVE DeadInv'
  OBVIOUS
<1>0. TypeOK /\ PidInv /\ DeadInv /\ ActiveInv /\ AttemptInv /\ StopInv
  BY DEF IInv
<1> USE DEF NoRecord, Record, Return, Goto, disk, os, ghosts, NoPid
<1>1. CASE Call
  BY <1>0, <1>1 DEF Call, PidInv, DeadInv, Dead, TypeOK, ActiveInv, AttemptInv, StopInv,
     GroupExists, Health, LeaderState, Pids, Killed, Survived
<1>2. CASE Plan
  BY <1>0, <1>2 DEF Plan, PidInv, DeadInv, Dead, TypeOK, ActiveInv, AttemptInv, StopInv,
     GroupExists, Health, LeaderState, Pids, Killed, Survived
<1>3. CASE Match
  BY <1>0, <1>3 DEF Match, PidInv, DeadInv, Dead, TypeOK, ActiveInv, AttemptInv, StopInv,
     GroupExists, Health, LeaderState, Pids, Killed, Survived
<1>4. CASE Halt
  <2>1. Killed(pid) \/ Survived(pid) \/ UNCHANGED <<os, harmed>>
    BY <1>0, <1>4 DEF Halt
  <2>2. /\ \A p \in Pids : st'[p] = st[p] \/ (p = pid /\ st'[p] = "gone")
        /\ Killed(pid) /\ pid \in Pids => st'[pid] = "gone"
        /\ Survived(pid) => Survivors /\ UNCHANGED st
    BY <1>0, <2>1, TerminationFacts
  <2> QED
    BY <1>0, <2>2, <1>4 DEF Halt, PidInv, DeadInv, Dead, TypeOK, ActiveInv, AttemptInv,
       StopInv, GroupExists, Health, LeaderState, Pids
<1>5. CASE WriteIntent
  BY <1>0, <1>5 DEF WriteIntent, PidInv, DeadInv, Dead, TypeOK, ActiveInv, AttemptInv, StopInv,
     GroupExists, Health, LeaderState, Pids, Killed, Survived
<1>6. CASE Spawn
  BY <1>0, <1>6 DEF Spawn, PidInv, DeadInv, Dead, TypeOK, ActiveInv, AttemptInv, StopInv,
     GroupExists, Health, LeaderState, Pids, Killed, Survived
<1>7. CASE SpawnRaises
  BY <1>0, <1>7 DEF SpawnRaises, PidInv, DeadInv, Dead, TypeOK, ActiveInv, AttemptInv, StopInv,
     GroupExists, Health, LeaderState, Pids, Killed, Survived
<1>8. CASE Publish
  BY <1>0, <1>8 DEF Publish, PidInv, DeadInv, Dead, TypeOK, ActiveInv, AttemptInv, StopInv,
     GroupExists, Health, LeaderState, Pids, Killed, Survived
<1>9. CASE PublishFails
  <2>1. Killed(pid) \/ Survived(pid) \/ UNCHANGED <<os, harmed>>
    BY <1>0, <1>9 DEF PublishFails
  <2>2. /\ \A p \in Pids : st'[p] = st[p] \/ (p = pid /\ st'[p] = "gone")
        /\ Killed(pid) /\ pid \in Pids => st'[pid] = "gone"
        /\ Survived(pid) => Survivors /\ UNCHANGED st
    BY <1>0, <2>1, TerminationFacts
  <2> QED
    BY <1>0, <2>2, <1>9 DEF PublishFails, PidInv, DeadInv, Dead, TypeOK, ActiveInv,
       AttemptInv, StopInv, GroupExists, Health, LeaderState, Pids
<1>10. CASE PublishInterrupted
  BY <1>0, <1>10 DEF PublishInterrupted, PidInv, DeadInv, Dead, TypeOK, ActiveInv, AttemptInv,
     StopInv, GroupExists, Health, LeaderState, Pids, Killed, Survived
<1>11. CASE SeeExit
  BY <1>0, <1>11 DEF SeeExit, PidInv, DeadInv, Dead, TypeOK, ActiveInv, AttemptInv, StopInv,
     GroupExists, Health, LeaderState, Pids, Killed, Survived
<1>12. CASE Sweep
  <2>1. Killed(pid) \/ Survived(pid) \/ UNCHANGED <<os, harmed>>
    BY <1>0, <1>12 DEF Sweep
  <2>2. /\ \A p \in Pids : st'[p] = st[p] \/ (p = pid /\ st'[p] = "gone")
        /\ Killed(pid) /\ pid \in Pids => st'[pid] = "gone"
        /\ Survived(pid) => Survivors /\ UNCHANGED st
    BY <1>0, <2>1, TerminationFacts
  <2> QED
    BY <1>0, <2>2, <1>12 DEF Sweep, PidInv, DeadInv, Dead, TypeOK, ActiveInv, AttemptInv,
       StopInv, GroupExists, Health, LeaderState, Pids
<1>13. CASE SeeGone
  BY <1>0, <1>13 DEF SeeGone, PidInv, DeadInv, Dead, TypeOK, ActiveInv, AttemptInv, StopInv,
     GroupExists, Health, LeaderState, Pids, Killed, Survived
<1>14. CASE SeeStale
  BY <1>0, <1>14 DEF SeeStale, PidInv, DeadInv, Dead, TypeOK, ActiveInv, AttemptInv, StopInv,
     GroupExists, Health, LeaderState, Pids, Killed, Survived
<1>15. CASE Interrupt
  BY <1>0, <1>15 DEF Interrupt, PidInv, DeadInv, Dead, TypeOK, ActiveInv, AttemptInv, StopInv,
     GroupExists, Health, LeaderState, Pids, Killed, Survived
<1>16. CASE ClearActive
  BY <1>0, <1>16 DEF ClearActive, PidInv, DeadInv, Dead, TypeOK, ActiveInv, AttemptInv, StopInv,
     GroupExists, Health, LeaderState, Pids, Killed, Survived
<1>17. CASE ClearIntent
  BY <1>0, <1>17 DEF ClearIntent, PidInv, DeadInv, Dead, TypeOK, ActiveInv, AttemptInv, StopInv,
     GroupExists, Health, LeaderState, Pids, Killed, Survived
<1>18. CASE ClearStop
  BY <1>0, <1>18 DEF ClearStop, PidInv, DeadInv, Dead, TypeOK, ActiveInv, AttemptInv, StopInv,
     GroupExists, Health, LeaderState, Pids, Killed, Survived
<1>19. CASE Fail
  <2>1. Killed(pid) \/ Survived(pid) \/ UNCHANGED <<os, harmed>>
    BY <1>0, <1>19 DEF Fail
  <2>2. /\ \A p \in Pids : st'[p] = st[p] \/ (p = pid /\ st'[p] = "gone")
        /\ Killed(pid) /\ pid \in Pids => st'[pid] = "gone"
        /\ Survived(pid) => Survivors /\ UNCHANGED st
    BY <1>0, <2>1, TerminationFacts
  <2> QED
    BY <1>0, <2>2, <1>19 DEF Fail, PidInv, DeadInv, Dead, TypeOK, ActiveInv, AttemptInv,
       StopInv, GroupExists, Health, LeaderState, Pids
<1>20. CASE Retire
  BY <1>0, <1>20 DEF Retire, PidInv, DeadInv, Dead, TypeOK, ActiveInv, AttemptInv, StopInv,
     GroupExists, Health, LeaderState, Pids, Killed, Survived
<1>21. CASE GiveUp
  BY <1>0, <1>21 DEF GiveUp, PidInv, DeadInv, Dead, TypeOK, ActiveInv, AttemptInv, StopInv,
     GroupExists, Health, LeaderState, Pids, Killed, Survived
<1>22. CASE Retry
  BY <1>0, <1>22 DEF Retry, PidInv, DeadInv, Dead, TypeOK, ActiveInv, AttemptInv, StopInv,
     GroupExists, Health, LeaderState, Pids, Killed, Survived
<1>23. CASE StopSurvivor
  BY <1>0, <1>23 DEF StopSurvivor, PidInv, DeadInv, Dead, TypeOK, ActiveInv, AttemptInv,
     StopInv, GroupExists, Health, LeaderState, Pids, Killed, Survived
<1>24. CASE Integrity
  <2>1. Killed(pid) \/ Survived(pid) \/ UNCHANGED <<os, harmed>>
    BY <1>0, <1>24 DEF Integrity
  <2>2. /\ \A p \in Pids : st'[p] = st[p] \/ (p = pid /\ st'[p] = "gone")
        /\ Killed(pid) /\ pid \in Pids => st'[pid] = "gone"
        /\ Survived(pid) => Survivors /\ UNCHANGED st
    BY <1>0, <2>1, TerminationFacts
  <2> QED
    BY <1>0, <2>2, <1>24 DEF Integrity, PidInv, DeadInv, Dead, TypeOK, ActiveInv, AttemptInv,
       StopInv, GroupExists, Health, LeaderState, Pids
<1>25. CASE Unpublish
  BY <1>0, <1>25 DEF Unpublish, PidInv, DeadInv, Dead, TypeOK, ActiveInv, AttemptInv, StopInv,
     GroupExists, Health, LeaderState, Pids, Killed, Survived
<1>26. CASE Acknowledge
  <2> DEFINE named == IF active # NoRecord THEN active.pid ELSE stop.pid
  <2>1. Killed(named) \/ Survived(named) \/ UNCHANGED <<os, harmed>>
    BY <1>26 DEF Acknowledge
  <2>2. /\ \A p \in Pids : st'[p] = st[p] \/ (p = named /\ st'[p] = "gone")
        /\ Killed(named) /\ named \in Pids => st'[named] = "gone"
        /\ Survived(named) => Survivors /\ UNCHANGED st
    BY <1>0, <2>1, TerminationFacts
  <2> QED
    BY <1>0, <2>2, <1>26 DEF Acknowledge, StopMatches, PidInv, DeadInv, Dead, TypeOK,
       ActiveInv, AttemptInv, StopInv, GroupExists, Health, LeaderState, Pids
<1>27. CASE Reconcile
  <2>1. Killed(active.pid) \/ Survived(active.pid) \/ UNCHANGED <<os, harmed>>
    BY <1>0, <1>27 DEF Reconcile
  <2>2. /\ \A p \in Pids : st'[p] = st[p] \/ (p = active.pid /\ st'[p] = "gone")
        /\ Killed(active.pid) /\ active.pid \in Pids => st'[active.pid] = "gone"
        /\ Survived(active.pid) => Survivors /\ UNCHANGED st
    BY <1>0, <2>1, TerminationFacts
  <2> QED
    BY <1>0, <2>2, <1>27 DEF Reconcile, PidInv, DeadInv, Dead, TypeOK, ActiveInv, AttemptInv,
       StopInv, GroupExists, Health, LeaderState, Pids
<1>28. CASE Reclaim
  BY <1>0, <1>28 DEF Reclaim, PidInv, DeadInv, Dead, TypeOK, ActiveInv, AttemptInv, StopInv,
     GroupExists, Health, LeaderState, Pids, Killed, Survived
<1>29. CASE ReclaimClear
  BY <1>0, <1>29 DEF ReclaimClear, PidInv, DeadInv, Dead, TypeOK, ActiveInv, AttemptInv,
     StopInv, GroupExists, Health, LeaderState, Pids, Killed, Survived
<1>30. CASE \E p \in Pids : Boot(p) \/ Complete(p) \/ KidsExit(p) \/ Freeze(p) \/ Reuse(p)
  <2> PICK p \in Pids : Boot(p) \/ Complete(p) \/ KidsExit(p) \/ Freeze(p) \/ Reuse(p)
    BY <1>30
  <2>1. CASE Boot(p)
    BY <1>0, <2>1 DEF Boot, memory, PidInv, DeadInv, Dead, TypeOK, ActiveInv, AttemptInv,
       StopInv, GroupExists, Health, LeaderState, Pids
  <2>2. CASE Complete(p)
    BY <1>0, <2>2 DEF Complete, memory, PidInv, DeadInv, Dead, TypeOK, ActiveInv, AttemptInv,
       StopInv, GroupExists, Health, LeaderState, Pids
  <2>3. CASE KidsExit(p)
    BY <1>0, <2>3 DEF KidsExit, memory, PidInv, DeadInv, Dead, TypeOK, ActiveInv, AttemptInv,
       StopInv, GroupExists, Health, LeaderState, Pids
  <2>4. CASE Freeze(p)
    BY <1>0, <2>4 DEF Freeze, memory, PidInv, DeadInv, Dead, TypeOK, ActiveInv, AttemptInv,
       StopInv, GroupExists, Health, LeaderState, Pids
  <2>5. CASE Reuse(p)
    BY <1>0, <2>5 DEF Reuse, memory, PidInv, DeadInv, Dead, TypeOK, ActiveInv, AttemptInv,
       StopInv, GroupExists, Health, LeaderState, Pids
  <2> QED
    BY <2>1, <2>2, <2>3, <2>4, <2>5
<1>31. CASE \E p \in Pids, c \in {0, 1} : Exit(p, c)
  BY <1>0, <1>31 DEF Exit, memory, PidInv, DeadInv, Dead, TypeOK, ActiveInv, AttemptInv,
     StopInv, GroupExists, Health, LeaderState, Pids, Killed, Survived
<1>32. CASE \E machine \in BOOLEAN : Crash(machine)
  BY <1>0, <1>32 DEF Crash, PidInv, DeadInv, Dead, TypeOK, ActiveInv, AttemptInv, StopInv,
     GroupExists, Health, LeaderState, Pids, Killed, Survived
<1>33. CASE UNCHANGED vars
  BY <1>0, <1>33 DEF vars, PidInv, DeadInv, Dead, TypeOK, ActiveInv, AttemptInv, StopInv,
     GroupExists, Health, LeaderState, Pids, Killed, Survived
<1> QED
  BY <1>1, <1>2, <1>3, <1>4, <1>5, <1>6, <1>7, <1>8, <1>9, <1>10, <1>11, <1>12, <1>13, <1>14,
     <1>15, <1>16, <1>17, <1>18, <1>19, <1>20, <1>21, <1>22, <1>23, <1>24, <1>25, <1>26, <1>27,
     <1>28, <1>29, <1>30, <1>31, <1>32, <1>33 DEF Next, RunOnce, Recovery, Environment

\* Every step of an undisturbed coordinator leaves one child alive.
LEMMA NextSoleInv == IInv /\ PidInv /\ DeadInv /\ SoleInv /\ [Next]_vars => SoleInv'
<1> SUFFICES ASSUME IInv /\ PidInv /\ DeadInv /\ SoleInv, [Next]_vars PROVE SoleInv'
  OBVIOUS
<1>0. TypeOK /\ PidInv /\ DeadInv /\ SoleInv /\ ActiveInv /\ AttemptInv /\ StopInv
  BY DEF IInv
<1> USE DEF NoRecord, Record, Return, Goto, disk, os, ghosts, NoPid
<1>1. CASE Call
  BY <1>0, <1>1 DEF Call, PidInv, DeadInv, Dead, SoleInv, Alive, TypeOK, ActiveInv, AttemptInv,
     StopInv, GroupExists, Health, LeaderState, Pids, Killed, Survived
<1>2. CASE Plan
  BY <1>0, <1>2 DEF Plan, PidInv, DeadInv, Dead, SoleInv, Alive, TypeOK, ActiveInv, AttemptInv,
     StopInv, GroupExists, Health, LeaderState, Pids, Killed, Survived
<1>3. CASE Match
  BY <1>0, <1>3 DEF Match, PidInv, DeadInv, Dead, SoleInv, Alive, TypeOK, ActiveInv, AttemptInv,
     StopInv, GroupExists, Health, LeaderState, Pids, Killed, Survived
<1>4. CASE Halt
  <2>1. Killed(pid) \/ Survived(pid) \/ UNCHANGED <<os, harmed>>
    BY <1>0, <1>4 DEF Halt
  <2>2. /\ \A p \in Pids : st'[p] = st[p] \/ (p = pid /\ st'[p] = "gone")
        /\ Killed(pid) /\ pid \in Pids => st'[pid] = "gone"
        /\ Survived(pid) => Survivors /\ UNCHANGED st
    BY <1>0, <2>1, TerminationFacts
  <2> QED
    BY <1>0, <2>2, <1>4 DEF Halt, PidInv, DeadInv, Dead, SoleInv, Alive, TypeOK, ActiveInv,
       AttemptInv, StopInv, GroupExists, Health, LeaderState, Pids
<1>5. CASE WriteIntent
  BY <1>0, <1>5 DEF WriteIntent, PidInv, DeadInv, Dead, SoleInv, Alive, TypeOK, ActiveInv,
     AttemptInv, StopInv, GroupExists, Health, LeaderState, Pids, Killed, Survived
<1>6. CASE Spawn
  BY <1>0, <1>6 DEF Spawn, PidInv, DeadInv, Dead, SoleInv, Alive, TypeOK, ActiveInv, AttemptInv,
     StopInv, GroupExists, Health, LeaderState, Pids, Killed, Survived
<1>7. CASE SpawnRaises
  BY <1>0, <1>7 DEF SpawnRaises, PidInv, DeadInv, Dead, SoleInv, Alive, TypeOK, ActiveInv,
     AttemptInv, StopInv, GroupExists, Health, LeaderState, Pids, Killed, Survived
<1>8. CASE Publish
  BY <1>0, <1>8 DEF Publish, PidInv, DeadInv, Dead, SoleInv, Alive, TypeOK, ActiveInv,
     AttemptInv, StopInv, GroupExists, Health, LeaderState, Pids, Killed, Survived
<1>9. CASE PublishFails
  BY ZenonT(60), <1>0, <1>9 DEF PublishFails, PidInv, DeadInv, Dead, SoleInv, Alive, TypeOK, ActiveInv,
     AttemptInv, StopInv, GroupExists, Health, LeaderState, Pids, Killed, Survived
<1>10. CASE PublishInterrupted
  BY <1>0, <1>10 DEF PublishInterrupted, PidInv, DeadInv, Dead, SoleInv, Alive, TypeOK,
     ActiveInv, AttemptInv, StopInv, GroupExists, Health, LeaderState, Pids, Killed, Survived
<1>11. CASE SeeExit
  BY <1>0, <1>11 DEF SeeExit, PidInv, DeadInv, Dead, SoleInv, Alive, TypeOK, ActiveInv,
     AttemptInv, StopInv, GroupExists, Health, LeaderState, Pids, Killed, Survived
<1>12. CASE Sweep
  BY <1>0, <1>12 DEF Sweep, PidInv, DeadInv, Dead, SoleInv, Alive, TypeOK, ActiveInv,
     AttemptInv, StopInv, GroupExists, Health, LeaderState, Pids, Killed, Survived
<1>13. CASE SeeGone
  BY <1>0, <1>13 DEF SeeGone, PidInv, DeadInv, Dead, SoleInv, Alive, TypeOK, ActiveInv,
     AttemptInv, StopInv, GroupExists, Health, LeaderState, Pids, Killed, Survived
<1>14. CASE SeeStale
  BY <1>0, <1>14 DEF SeeStale, PidInv, DeadInv, Dead, SoleInv, Alive, TypeOK, ActiveInv,
     AttemptInv, StopInv, GroupExists, Health, LeaderState, Pids, Killed, Survived
<1>15. CASE Interrupt
  BY <1>0, <1>15 DEF Interrupt, PidInv, DeadInv, Dead, SoleInv, Alive, TypeOK, ActiveInv,
     AttemptInv, StopInv, GroupExists, Health, LeaderState, Pids, Killed, Survived
<1>16. CASE ClearActive
  BY <1>0, <1>16 DEF ClearActive, PidInv, DeadInv, Dead, SoleInv, Alive, TypeOK, ActiveInv,
     AttemptInv, StopInv, GroupExists, Health, LeaderState, Pids, Killed, Survived
<1>17. CASE ClearIntent
  BY <1>0, <1>17 DEF ClearIntent, PidInv, DeadInv, Dead, SoleInv, Alive, TypeOK, ActiveInv,
     AttemptInv, StopInv, GroupExists, Health, LeaderState, Pids, Killed, Survived
<1>18. CASE ClearStop
  BY <1>0, <1>18 DEF ClearStop, PidInv, DeadInv, Dead, SoleInv, Alive, TypeOK, ActiveInv,
     AttemptInv, StopInv, GroupExists, Health, LeaderState, Pids, Killed, Survived
<1>19. CASE Fail
  BY <1>0, <1>19 DEF Fail, PidInv, DeadInv, Dead, SoleInv, Alive, TypeOK, ActiveInv, AttemptInv,
     StopInv, GroupExists, Health, LeaderState, Pids, Killed, Survived
<1>20. CASE Retire
  BY <1>0, <1>20 DEF Retire, PidInv, DeadInv, Dead, SoleInv, Alive, TypeOK, ActiveInv,
     AttemptInv, StopInv, GroupExists, Health, LeaderState, Pids, Killed, Survived
<1>21. CASE GiveUp
  BY <1>0, <1>21 DEF GiveUp, PidInv, DeadInv, Dead, SoleInv, Alive, TypeOK, ActiveInv,
     AttemptInv, StopInv, GroupExists, Health, LeaderState, Pids, Killed, Survived
<1>22. CASE Retry
  BY <1>0, <1>22 DEF Retry, PidInv, DeadInv, Dead, SoleInv, Alive, TypeOK, ActiveInv,
     AttemptInv, StopInv, GroupExists, Health, LeaderState, Pids, Killed, Survived
<1>23. CASE StopSurvivor
  BY <1>0, <1>23 DEF StopSurvivor, PidInv, DeadInv, Dead, SoleInv, Alive, TypeOK, ActiveInv,
     AttemptInv, StopInv, GroupExists, Health, LeaderState, Pids, Killed, Survived
<1>24. CASE Integrity
  <2>1. Killed(pid) \/ Survived(pid) \/ UNCHANGED <<os, harmed>>
    BY <1>0, <1>24 DEF Integrity
  <2>2. /\ \A p \in Pids : st'[p] = st[p] \/ (p = pid /\ st'[p] = "gone")
        /\ Killed(pid) /\ pid \in Pids => st'[pid] = "gone"
        /\ Survived(pid) => Survivors /\ UNCHANGED st
    BY <1>0, <2>1, TerminationFacts
  <2> QED
    BY <1>0, <2>2, <1>24 DEF Integrity, PidInv, DeadInv, Dead, SoleInv, Alive, TypeOK,
       ActiveInv, AttemptInv, StopInv, GroupExists, Health, LeaderState, Pids
<1>25. CASE Unpublish
  BY <1>0, <1>25 DEF Unpublish, PidInv, DeadInv, Dead, SoleInv, Alive, TypeOK, ActiveInv,
     AttemptInv, StopInv, GroupExists, Health, LeaderState, Pids, Killed, Survived
<1>26. CASE Acknowledge
  <2> DEFINE named == IF active # NoRecord THEN active.pid ELSE stop.pid
  <2>1. Killed(named) \/ Survived(named) \/ UNCHANGED <<os, harmed>>
    BY <1>26 DEF Acknowledge
  <2>2. /\ \A p \in Pids : st'[p] = st[p] \/ (p = named /\ st'[p] = "gone")
        /\ Killed(named) /\ named \in Pids => st'[named] = "gone"
        /\ Survived(named) => Survivors /\ UNCHANGED st
    BY <1>0, <2>1, TerminationFacts
  <2> QED
    BY <1>0, <2>2, <1>26 DEF Acknowledge, StopMatches, PidInv, DeadInv, Dead, SoleInv, Alive,
       TypeOK, ActiveInv, AttemptInv, StopInv, GroupExists, Health, LeaderState, Pids
<1>27. CASE Reconcile
  <2>1. Killed(active.pid) \/ Survived(active.pid) \/ UNCHANGED <<os, harmed>>
    BY <1>0, <1>27 DEF Reconcile
  <2>2. /\ \A p \in Pids : st'[p] = st[p] \/ (p = active.pid /\ st'[p] = "gone")
        /\ Killed(active.pid) /\ active.pid \in Pids => st'[active.pid] = "gone"
        /\ Survived(active.pid) => Survivors /\ UNCHANGED st
    BY <1>0, <2>1, TerminationFacts
  <2> QED
    BY <1>0, <2>2, <1>27 DEF Reconcile, PidInv, DeadInv, Dead, SoleInv, Alive, TypeOK,
       ActiveInv, AttemptInv, StopInv, GroupExists, Health, LeaderState, Pids
<1>28. CASE Reclaim
  BY <1>0, <1>28 DEF Reclaim, PidInv, DeadInv, Dead, SoleInv, Alive, TypeOK, ActiveInv,
     AttemptInv, StopInv, GroupExists, Health, LeaderState, Pids, Killed, Survived
<1>29. CASE ReclaimClear
  BY <1>0, <1>29 DEF ReclaimClear, PidInv, DeadInv, Dead, SoleInv, Alive, TypeOK, ActiveInv,
     AttemptInv, StopInv, GroupExists, Health, LeaderState, Pids, Killed, Survived
<1>30. CASE \E p \in Pids : Boot(p) \/ Complete(p) \/ KidsExit(p) \/ Freeze(p) \/ Reuse(p)
  <2> PICK p \in Pids : Boot(p) \/ Complete(p) \/ KidsExit(p) \/ Freeze(p) \/ Reuse(p)
    BY <1>30
  <2>1. CASE Boot(p)
    <3>1. \A r \in Pids : st'[r] \in Health => st[r] \in Health
      BY <1>0, <2>1 DEF Boot, TypeOK, Health
    <3> QED
      BY <3>1, <1>0, <2>1 DEF Boot, memory, SoleInv, Alive
  <2>2. CASE Complete(p)
    BY <1>0, <2>2 DEF Complete, memory, PidInv, DeadInv, Dead, SoleInv, Alive, TypeOK,
       ActiveInv, AttemptInv, StopInv, GroupExists, Health, LeaderState, Pids
  <2>3. CASE KidsExit(p)
    BY <1>0, <2>3 DEF KidsExit, memory, PidInv, DeadInv, Dead, SoleInv, Alive, TypeOK,
       ActiveInv, AttemptInv, StopInv, GroupExists, Health, LeaderState, Pids
  <2>4. CASE Freeze(p)
    <3>1. \A r \in Pids : st'[r] \in Health => st[r] \in Health
      BY <1>0, <2>4 DEF Freeze, TypeOK, Health
    <3> QED
      BY <3>1, <1>0, <2>4 DEF Freeze, memory, SoleInv, Alive
  <2>5. CASE Reuse(p)
    BY ZenonT(60), <1>0, <2>5 DEF Reuse, memory, PidInv, DeadInv, Dead, SoleInv, Alive, TypeOK, ActiveInv,
       AttemptInv, StopInv, GroupExists, Health, LeaderState, Pids
  <2> QED
    BY <2>1, <2>2, <2>3, <2>4, <2>5
<1>31. CASE \E p \in Pids, c \in {0, 1} : Exit(p, c)
  BY <1>0, <1>31 DEF Exit, memory, PidInv, DeadInv, Dead, SoleInv, Alive, TypeOK, ActiveInv,
     AttemptInv, StopInv, GroupExists, Health, LeaderState, Pids, Killed, Survived
<1>32. CASE \E machine \in BOOLEAN : Crash(machine)
  BY <1>0, <1>32 DEF Crash, PidInv, DeadInv, Dead, SoleInv, Alive, TypeOK, ActiveInv,
     AttemptInv, StopInv, GroupExists, Health, LeaderState, Pids, Killed, Survived
<1>33. CASE UNCHANGED vars
  BY <1>0, <1>33 DEF vars, PidInv, DeadInv, Dead, SoleInv, Alive, TypeOK, ActiveInv, AttemptInv,
     StopInv, GroupExists, Health, LeaderState, Pids, Killed, Survived
<1> QED
  BY <1>1, <1>2, <1>3, <1>4, <1>5, <1>6, <1>7, <1>8, <1>9, <1>10, <1>11, <1>12, <1>13, <1>14,
     <1>15, <1>16, <1>17, <1>18, <1>19, <1>20, <1>21, <1>22, <1>23, <1>24, <1>25, <1>26, <1>27,
     <1>28, <1>29, <1>30, <1>31, <1>32, <1>33 DEF Next, RunOnce, Recovery, Environment

-----------------------------------------------------------------------------
(* The invariant and what follows from it.                                 *)

LEMMA InitIInv == Init => IInv
<1> SUFFICES ASSUME Init PROVE IInv
  OBVIOUS
<1>1. TypeOK
  BY InitTypeOK
<1>2. Spent = 0 /\ NextAttempt = 1
  BY MaxAttemptsFacts DEF Init, Spent, NextAttempt, NoRecord
<1> QED
  BY <1>1, <1>2, MaxAttemptsFacts DEF Init, IInv, ActiveInv, AttemptInv, DoneInv, SuccessIsDone,
     StopInv,
     LaunchInv, RecordsAgree, NoRecord

THEOREM Invariance == Spec => []IInv
<1>1. IInv /\ [Next]_vars => IInv'
  BY NextTypeOK, NextRecordsInv, NextDoneInv, NextLaunchInv DEF IInv
<1> QED
  BY InitIInv, <1>1, PTL DEF Spec

\* The supervisor's records and memory keep their types.
THEOREM TypeCorrect == Spec => []TypeOK
BY Invariance, PTL DEF IInv

\* The durable records fit together after every step and every crash, so
\* that recovery reads the right attempt from them.
THEOREM RecordsAlwaysAgree == Spec => []RecordsAgree
<1>1. IInv => RecordsAgree
  BY DEF IInv, ActiveInv
<1> QED
  BY Invariance, <1>1, PTL

\* However often the coordinator crashes, an execution starts at most
\* MaxAttempts processes per acknowledged stop, plus one per crash.
THEOREM LaunchesAreBounded == Spec => []LaunchBudget
<1>1. IInv => LaunchBudget
  <2> SUFFICES ASSUME IInv PROVE LaunchBudget
    OBVIOUS
  <2>1. \A m, n \in Nat : m * (n + 1) = m * n + m
    OBVIOUS
  <2>2. acks \in Nat /\ crashes \in Nat /\ launches \in Nat /\ MaxAttempts * acks \in Nat
    BY MaxAttemptsFacts DEF IInv, TypeOK
  <2> QED
    BY <2>1, <2>2, MaxAttemptsFacts DEF IInv, LaunchInv, Spent, LaunchBudget
<1> QED
  BY Invariance, <1>1, PTL

\* A call never works on an attempt beyond the policy's bound.
THEOREM AttemptsAreBounded == Spec => []AttemptBound
<1>1. IInv => AttemptBound
  BY DEF IInv, AttemptInv, AttemptBound
<1> QED
  BY Invariance, <1>1, PTL

\* A run reports success only when the work is durable.
THEOREM SuccessfulRunsAreDone == Spec => []SuccessIsDone
<1>1. IInv => SuccessIsDone
  BY DEF IInv, DoneInv
<1> QED
  BY Invariance, <1>1, PTL

\* No process is started while a stop is recorded.
THEOREM StopsHold == Spec => StopHolds
<1>1. IInv /\ [Next]_vars => [launches' # launches => stop = NoRecord /\ stop' = NoRecord]_vars
  <2> SUFFICES ASSUME IInv, Next, launches' # launches PROVE stop = NoRecord /\ stop' = NoRecord
    BY DEF vars
  <2>1. CASE Spawn
    BY <2>1 DEF Spawn, disk, IInv, StopInv
  <2>2. CASE ~Spawn
    BY <2>2 DEF Next, RunOnce, Recovery, Environment, Call, Plan, Match, Halt, WriteIntent,
       SpawnRaises, Publish,
       PublishFails, PublishInterrupted, SeeExit, Sweep, SeeGone, SeeStale, Interrupt, ClearActive, ClearIntent, ClearStop,
       Fail, Retire, GiveUp, Retry, StopSurvivor, Integrity, Unpublish, Acknowledge, Reconcile, Reclaim,
       ReclaimClear, Boot, Complete, Exit, KidsExit, Freeze, Reuse, Crash, ghosts
  <2> QED
    BY <2>1, <2>2
<1> QED
  BY Invariance, <1>1, PTL DEF Spec, StopHolds

\* While nothing interrupts the coordinator and groups die when they are
\* killed, one child at a time works on an execution.  (A group that outlives
\* SIGKILL, or a crash between the start of a child and the record of its
\* identity, leaves a second one: the run supervisor_orphan shows it.)
THEOREM OneWorkerAtATime == Spec => [](crashes = 0 /\ ~Survivors => OneWorker)
<1>1. Init => PidInv /\ DeadInv /\ SoleInv
  BY DEF Init, PidInv, DeadInv, Dead, SoleInv, Alive, NoRecord, NoPid, Health, Pids
<1>2. IInv /\ PidInv /\ DeadInv /\ SoleInv /\ [Next]_vars => (PidInv /\ DeadInv /\ SoleInv)'
  BY NextPidInv, NextDeadInv, NextSoleInv
<1>3. SoleInv => (crashes = 0 /\ ~Survivors => OneWorker)
  BY DEF SoleInv, OneWorker, AtWork, Alive, Health
<1> QED
  BY Invariance, <1>1, <1>2, <1>3, PTL DEF Spec

\* The step that drops one name of a worker leaves another, or the worker dead.
LEMMA NamesAreKept ==
  IInv /\ PidInv /\ DeadInv /\ [Next]_vars
    => (\A p \in Named : p \in Pids /\ AtWork(p)' /\ ~done
          => p \in {active'.pid, stop'.pid, pid'})
<1> SUFFICES ASSUME IInv /\ PidInv /\ DeadInv, [Next]_vars
             PROVE  \A p \in Named : p \in Pids /\ AtWork(p)' /\ ~done
                      => p \in {active'.pid, stop'.pid, pid'}
  OBVIOUS
<1>0. TypeOK /\ PidInv /\ DeadInv /\ ActiveInv /\ AttemptInv /\ StopInv
  BY DEF IInv
<1> USE DEF NoRecord, Record, Return, Goto, disk, os, ghosts, NoPid
<1>1. CASE Call
  BY <1>0, <1>1 DEF Call, Named, AtWork, PidInv, DeadInv, Dead, TypeOK, ActiveInv, AttemptInv,
     StopInv, GroupExists, Health, LeaderState, Pids, NextAttempt, Killed, Survived
<1>2. CASE Plan
  BY <1>0, <1>2 DEF Plan, Named, AtWork, PidInv, DeadInv, Dead, TypeOK, ActiveInv, AttemptInv,
     StopInv, GroupExists, Health, LeaderState, Pids, NextAttempt, Killed, Survived
<1>3. CASE Match
  BY <1>0, <1>3 DEF Match, Named, AtWork, PidInv, DeadInv, Dead, TypeOK, ActiveInv, AttemptInv,
     StopInv, GroupExists, Health, LeaderState, Pids, NextAttempt, Killed, Survived
<1>4. CASE Halt
  <2>1. Killed(pid) \/ Survived(pid) \/ UNCHANGED <<os, harmed>>
    BY <1>0, <1>4 DEF Halt
  <2>2. /\ \A p \in Pids : st'[p] = st[p] \/ (p = pid /\ st'[p] = "gone")
        /\ Killed(pid) /\ pid \in Pids => st'[pid] = "gone"
        /\ Survived(pid) => Survivors /\ UNCHANGED st
    BY <1>0, <2>1, TerminationFacts
  <2> QED
    BY <1>0, <2>2, <1>4 DEF Halt, Named, AtWork, PidInv, DeadInv, Dead, TypeOK, ActiveInv,
       AttemptInv, StopInv, GroupExists, Health, LeaderState, Pids, NextAttempt
<1>5. CASE WriteIntent
  BY <1>0, <1>5 DEF WriteIntent, Named, AtWork, PidInv, DeadInv, Dead, TypeOK, ActiveInv,
     AttemptInv, StopInv, GroupExists, Health, LeaderState, Pids, NextAttempt, Killed, Survived
<1>6. CASE Spawn
  BY <1>0, <1>6 DEF Spawn, Named, AtWork, PidInv, DeadInv, Dead, TypeOK, ActiveInv, AttemptInv,
     StopInv, GroupExists, Health, LeaderState, Pids, NextAttempt, Killed, Survived
<1>7. CASE SpawnRaises
  BY <1>0, <1>7 DEF SpawnRaises, Named, AtWork, PidInv, DeadInv, Dead, TypeOK, ActiveInv,
     AttemptInv, StopInv, GroupExists, Health, LeaderState, Pids, NextAttempt, Killed, Survived
<1>8. CASE Publish
  BY <1>0, <1>8 DEF Publish, Named, AtWork, PidInv, DeadInv, Dead, TypeOK, ActiveInv,
     AttemptInv, StopInv, GroupExists, Health, LeaderState, Pids, NextAttempt, Killed, Survived
<1>9. CASE PublishFails
  <2>1. Killed(pid) \/ Survived(pid) \/ UNCHANGED <<os, harmed>>
    BY <1>0, <1>9 DEF PublishFails
  <2>2. /\ \A p \in Pids : st'[p] = st[p] \/ (p = pid /\ st'[p] = "gone")
        /\ Killed(pid) /\ pid \in Pids => st'[pid] = "gone"
        /\ Survived(pid) => Survivors /\ UNCHANGED st
    BY <1>0, <2>1, TerminationFacts
  <2> QED
    BY <1>0, <2>2, <1>9 DEF PublishFails, Named, AtWork, PidInv, DeadInv, Dead, TypeOK,
       ActiveInv, AttemptInv, StopInv, GroupExists, Health, LeaderState, Pids, NextAttempt
<1>10. CASE PublishInterrupted
  BY <1>0, <1>10 DEF PublishInterrupted, Named, AtWork, PidInv, DeadInv, Dead, TypeOK,
     ActiveInv, AttemptInv, StopInv, GroupExists, Health, LeaderState, Pids, NextAttempt,
     Killed, Survived
<1>11. CASE SeeExit
  BY <1>0, <1>11 DEF SeeExit, Named, AtWork, PidInv, DeadInv, Dead, TypeOK, ActiveInv,
     AttemptInv, StopInv, GroupExists, Health, LeaderState, Pids, NextAttempt, Killed, Survived
<1>12. CASE Sweep
  <2>1. Killed(pid) \/ Survived(pid) \/ UNCHANGED <<os, harmed>>
    BY <1>0, <1>12 DEF Sweep
  <2>2. /\ \A p \in Pids : st'[p] = st[p] \/ (p = pid /\ st'[p] = "gone")
        /\ Killed(pid) /\ pid \in Pids => st'[pid] = "gone"
        /\ Survived(pid) => Survivors /\ UNCHANGED st
    BY <1>0, <2>1, TerminationFacts
  <2> QED
    BY <1>0, <2>2, <1>12 DEF Sweep, Named, AtWork, PidInv, DeadInv, Dead, TypeOK, ActiveInv,
       AttemptInv, StopInv, GroupExists, Health, LeaderState, Pids, NextAttempt
<1>13. CASE SeeGone
  BY <1>0, <1>13 DEF SeeGone, Named, AtWork, PidInv, DeadInv, Dead, TypeOK, ActiveInv,
     AttemptInv, StopInv, GroupExists, Health, LeaderState, Pids, NextAttempt, Killed, Survived
<1>14. CASE SeeStale
  BY <1>0, <1>14 DEF SeeStale, Named, AtWork, PidInv, DeadInv, Dead, TypeOK, ActiveInv,
     AttemptInv, StopInv, GroupExists, Health, LeaderState, Pids, NextAttempt, Killed, Survived
<1>15. CASE Interrupt
  BY <1>0, <1>15 DEF Interrupt, Named, AtWork, PidInv, DeadInv, Dead, TypeOK, ActiveInv,
     AttemptInv, StopInv, GroupExists, Health, LeaderState, Pids, NextAttempt, Killed, Survived
<1>16. CASE ClearActive
  BY <1>0, <1>16 DEF ClearActive, Named, AtWork, PidInv, DeadInv, Dead, TypeOK, ActiveInv,
     AttemptInv, StopInv, GroupExists, Health, LeaderState, Pids, NextAttempt, Killed, Survived
<1>17. CASE ClearIntent
  BY <1>0, <1>17 DEF ClearIntent, Named, AtWork, PidInv, DeadInv, Dead, TypeOK, ActiveInv,
     AttemptInv, StopInv, GroupExists, Health, LeaderState, Pids, NextAttempt, Killed, Survived
<1>18. CASE ClearStop
  BY <1>0, <1>18 DEF ClearStop, Named, AtWork, PidInv, DeadInv, Dead, TypeOK, ActiveInv,
     AttemptInv, StopInv, GroupExists, Health, LeaderState, Pids, NextAttempt, Killed, Survived
<1>19. CASE Fail
  <2>1. Killed(pid) \/ Survived(pid) \/ UNCHANGED <<os, harmed>>
    BY <1>0, <1>19 DEF Fail
  <2>2. /\ \A p \in Pids : st'[p] = st[p] \/ (p = pid /\ st'[p] = "gone")
        /\ Killed(pid) /\ pid \in Pids => st'[pid] = "gone"
        /\ Survived(pid) => Survivors /\ UNCHANGED st
    BY <1>0, <2>1, TerminationFacts
  <2> QED
    BY <1>0, <2>2, <1>19 DEF Fail, Named, AtWork, PidInv, DeadInv, Dead, TypeOK, ActiveInv,
       AttemptInv, StopInv, GroupExists, Health, LeaderState, Pids, NextAttempt
<1>20. CASE Retire
  BY <1>0, <1>20 DEF Retire, Named, AtWork, PidInv, DeadInv, Dead, TypeOK, ActiveInv,
     AttemptInv, StopInv, GroupExists, Health, LeaderState, Pids, NextAttempt, Killed, Survived
<1>21. CASE GiveUp
  BY <1>0, <1>21 DEF GiveUp, Named, AtWork, PidInv, DeadInv, Dead, TypeOK, ActiveInv,
     AttemptInv, StopInv, GroupExists, Health, LeaderState, Pids, NextAttempt, Killed, Survived
<1>22. CASE Retry
  BY <1>0, <1>22 DEF Retry, Named, AtWork, PidInv, DeadInv, Dead, TypeOK, ActiveInv, AttemptInv,
     StopInv, GroupExists, Health, LeaderState, Pids, NextAttempt, Killed, Survived
<1>23. CASE StopSurvivor
  BY <1>0, <1>23 DEF StopSurvivor, Named, AtWork, PidInv, DeadInv, Dead, TypeOK, ActiveInv,
     AttemptInv, StopInv, GroupExists, Health, LeaderState, Pids, NextAttempt, Killed, Survived
<1>24. CASE Integrity
  <2>1. Killed(pid) \/ Survived(pid) \/ UNCHANGED <<os, harmed>>
    BY <1>0, <1>24 DEF Integrity
  <2>2. /\ \A p \in Pids : st'[p] = st[p] \/ (p = pid /\ st'[p] = "gone")
        /\ Killed(pid) /\ pid \in Pids => st'[pid] = "gone"
        /\ Survived(pid) => Survivors /\ UNCHANGED st
    BY <1>0, <2>1, TerminationFacts
  <2> QED
    BY <1>0, <2>2, <1>24 DEF Integrity, Named, AtWork, PidInv, DeadInv, Dead, TypeOK,
       ActiveInv, AttemptInv, StopInv, GroupExists, Health, LeaderState, Pids, NextAttempt
<1>25. CASE Unpublish
  BY <1>0, <1>25 DEF Unpublish, Named, AtWork, PidInv, DeadInv, Dead, TypeOK, ActiveInv,
     AttemptInv, StopInv, GroupExists, Health, LeaderState, Pids, NextAttempt, Killed, Survived
<1>26. CASE Acknowledge
  <2> DEFINE named == IF active # NoRecord THEN active.pid ELSE stop.pid
  <2>1. Killed(named) \/ Survived(named) \/ UNCHANGED <<os, harmed>>
    BY <1>26 DEF Acknowledge
  <2>2. /\ \A p \in Pids : st'[p] = st[p] \/ (p = named /\ st'[p] = "gone")
        /\ Killed(named) /\ named \in Pids => st'[named] = "gone"
        /\ Survived(named) => Survivors /\ UNCHANGED st
    BY <1>0, <2>1, TerminationFacts
  <2> QED
    BY <1>0, <2>2, <1>26 DEF Acknowledge, StopMatches, Named, AtWork, PidInv, DeadInv, Dead,
       TypeOK, ActiveInv, AttemptInv, StopInv, GroupExists, Health, LeaderState, Pids,
       NextAttempt
<1>27. CASE Reconcile
  <2>1. Killed(active.pid) \/ Survived(active.pid) \/ UNCHANGED <<os, harmed>>
    BY <1>0, <1>27 DEF Reconcile
  <2>2. /\ \A p \in Pids : st'[p] = st[p] \/ (p = active.pid /\ st'[p] = "gone")
        /\ Killed(active.pid) /\ active.pid \in Pids => st'[active.pid] = "gone"
        /\ Survived(active.pid) => Survivors /\ UNCHANGED st
    BY <1>0, <2>1, TerminationFacts
  <2> QED
    BY <1>0, <2>2, <1>27 DEF Reconcile, Named, AtWork, PidInv, DeadInv, Dead, TypeOK,
       ActiveInv, AttemptInv, StopInv, GroupExists, Health, LeaderState, Pids, NextAttempt
<1>28. CASE Reclaim
  BY <1>0, <1>28 DEF Reclaim, Named, AtWork, PidInv, DeadInv, Dead, TypeOK, ActiveInv,
     AttemptInv, StopInv, GroupExists, Health, LeaderState, Pids, NextAttempt, Killed, Survived
<1>29. CASE ReclaimClear
  BY <1>0, <1>29 DEF ReclaimClear, Named, AtWork, PidInv, DeadInv, Dead, TypeOK, ActiveInv,
     AttemptInv, StopInv, GroupExists, Health, LeaderState, Pids, NextAttempt, Killed, Survived
<1>30. CASE \E p \in Pids : Boot(p) \/ Complete(p) \/ KidsExit(p) \/ Freeze(p) \/ Reuse(p)
  <2> PICK p \in Pids : Boot(p) \/ Complete(p) \/ KidsExit(p) \/ Freeze(p) \/ Reuse(p)
    BY <1>30
  <2>1. CASE Boot(p)
    BY <1>0, <2>1 DEF Boot, memory, Named, AtWork, PidInv, DeadInv, Dead, TypeOK, ActiveInv,
       AttemptInv, StopInv, GroupExists, Health, LeaderState, Pids, NextAttempt
  <2>2. CASE Complete(p)
    BY <1>0, <2>2 DEF Complete, memory, Named, AtWork, PidInv, DeadInv, Dead, TypeOK,
       ActiveInv, AttemptInv, StopInv, GroupExists, Health, LeaderState, Pids, NextAttempt
  <2>3. CASE KidsExit(p)
    BY <1>0, <2>3 DEF KidsExit, memory, Named, AtWork, PidInv, DeadInv, Dead, TypeOK,
       ActiveInv, AttemptInv, StopInv, GroupExists, Health, LeaderState, Pids, NextAttempt
  <2>4. CASE Freeze(p)
    BY <1>0, <2>4 DEF Freeze, memory, Named, AtWork, PidInv, DeadInv, Dead, TypeOK, ActiveInv,
       AttemptInv, StopInv, GroupExists, Health, LeaderState, Pids, NextAttempt
  <2>5. CASE Reuse(p)
    BY <1>0, <2>5 DEF Reuse, memory, Named, AtWork, PidInv, DeadInv, Dead, TypeOK, ActiveInv,
       AttemptInv, StopInv, GroupExists, Health, LeaderState, Pids, NextAttempt
  <2> QED
    BY <2>1, <2>2, <2>3, <2>4, <2>5
<1>31. CASE \E p \in Pids, c \in {0, 1} : Exit(p, c)
  BY <1>0, <1>31 DEF Exit, memory, Named, AtWork, PidInv, DeadInv, Dead, TypeOK, ActiveInv,
     AttemptInv, StopInv, GroupExists, Health, LeaderState, Pids, NextAttempt, Killed, Survived
<1>32. CASE \E machine \in BOOLEAN : Crash(machine)
  <2>1. pc # "publish" => pid \in {NoPid, active.pid, stop.pid} \/ Dead(pid)
    BY <1>0 DEF TypeOK, Control, PidInv, DeadInv
  <2>2. /\ active' = active /\ stop' = stop
        /\ \A p \in Pids : AtWork(p)' => AtWork(p)
    BY <1>32 DEF Crash, AtWork
  <2> QED
    BY <2>1, <2>2 DEF Named, Dead, AtWork, Pids
<1>33. CASE UNCHANGED vars
  BY <1>0, <1>33 DEF vars, Named, AtWork, PidInv, DeadInv, Dead, TypeOK, ActiveInv, AttemptInv,
     StopInv, GroupExists, Health, LeaderState, Pids, NextAttempt, Killed, Survived
<1> QED
  BY <1>1, <1>2, <1>3, <1>4, <1>5, <1>6, <1>7, <1>8, <1>9, <1>10, <1>11, <1>12, <1>13, <1>14,
     <1>15, <1>16, <1>17, <1>18, <1>19, <1>20, <1>21, <1>22, <1>23, <1>24, <1>25, <1>26, <1>27,
     <1>28, <1>29, <1>30, <1>31, <1>32, <1>33 DEF Next, RunOnce, Recovery, Environment

\* A child at work that a record or the call names is named after every step.
THEOREM WorkersStayRecorded == Spec => WorkerStaysRecorded
<1>1. Init => PidInv /\ DeadInv
  BY DEF Init, PidInv, DeadInv, Dead, NoRecord, NoPid, Pids
<1>2. IInv /\ PidInv /\ DeadInv /\ [Next]_vars => (PidInv /\ DeadInv)'
  BY NextPidInv, NextDeadInv
<1>3. IInv /\ PidInv /\ DeadInv /\ [Next]_vars
        => [\A p \in Named : p \in Pids /\ AtWork(p)' /\ ~done
              => p \in {active'.pid, stop'.pid, pid'}]_vars
  BY NamesAreKept
<1> QED
  BY Invariance, <1>1, <1>2, <1>3, PTL DEF Spec, WorkerStaysRecorded
=============================================================================
