----------------------------- MODULE Supervisor -----------------------------
(***************************************************************************)
(* SupervisorV2 (gocube_golden/orchestrator_v2/supervisor.py): durable     *)
(* supervision of one external execution.  Three durable records survive a *)
(* crash of the coordinator: the execution intent, the active-child        *)
(* identity and the stop record.  The operating system runs the children:  *)
(* a child is the leader of a private process group and may leave          *)
(* descendants behind.                                                     *)
(*                                                                         *)
(* One action is one step between two durable effects of the code, so the  *)
(* coordinator may crash between any two of them.  Heartbeat files are     *)
(* abstracted to the health of the child they report, a record that is     *)
(* absent is a record whose attempt is 0, and malformed or foreign records *)
(* (which this program never writes) are left out.                         *)
(***************************************************************************)
EXTENDS Naturals

CONSTANTS
  MaxPid,            \* bound: process ids the system hands out, in order
  MaxRetries,        \* SupervisorPolicy.max_retries
  ProgressTimeout,   \* progress_timeout_seconds is configured
  CompletionCheck,   \* the caller passed a completion_check
  Survivors,         \* a group may outlive SIGKILL and its grace period
  PidReuse,          \* the system may hand a freed pid to a stranger
  MaxCrashes,        \* bound: coordinator crashes and interrupts
  MaxAcks            \* bound: operator acknowledgements of a stop

ASSUME SupervisorAssumption ==
  /\ MaxPid \in Nat
  /\ MaxRetries \in Nat
  /\ MaxCrashes \in Nat
  /\ MaxAcks \in Nat
  /\ {ProgressTimeout, CompletionCheck, Survivors, PidReuse} \subseteq BOOLEAN

Pids == 1..MaxPid
NoPid == 0

VARIABLES
  intent,    \* execution-intent.json: its attempt, 0 when absent
  active,    \* active-child.json: attempt and pid
  stop,      \* supervisor-stop.json: attempt and pid
  st,        \* state of the leader that holds each pid
  code,      \* exit code of a leader that has exited
  kids,      \* descendants of the leader are alive in its group
  mine,      \* the leader is a child of the running coordinator
  done,      \* the domain's completion marker is durable
  pc,        \* where run_once / acknowledge / reconcile / reclaim stands
  att,       \* local attempt
  pid,       \* local ActiveChild, NoPid for None
  own,       \* local Popen object is held (not a reattachment)
  outcome,   \* what the last call returned
  launches,  \* history: children spawned
  crashes,   \* history: coordinator crashes and interrupted publications
  acks,      \* history: acknowledged stops
  harmed     \* history: a stranger's process group was terminated

disk   == <<intent, active, stop>>
os     == <<st, code, kids, mine>>
memory == <<pc, att, pid, own, outcome>>
ghosts == <<launches, crashes, acks, harmed>>
vars   == <<intent, active, stop, st, code, kids, mine, done,
            pc, att, pid, own, outcome, launches, crashes, acks, harmed>>

MaxAttempts == 1 + MaxRetries

NoRecord == [attempt |-> 0, pid |-> NoPid]

\* Mutant: the record names the attempt and not the process.
RecordWithoutPid(a, p) == [attempt |-> a]
Record(a, p) == [attempt |-> a, pid |-> p]

Health == {"booting", "working", "stuck", "frozen"}
LeaderState == Health \cup {"unborn", "zombie", "gone", "stranger"}
Control == {"idle", "plan", "match", "halt", "start", "spawn", "publish", "monitor",
            "sweep", "clearActive", "clearIntent", "clearStop", "failing",
            "retire", "decide", "survived", "integrity", "unpublish",
            "reclaim"}
Outcome == {"none", "SUCCESS", "FAILURE", "RAISED"}

TypeOK ==
  /\ intent \in Nat
  /\ active \in [attempt : Nat, pid : Pids \cup {NoPid}]
  /\ stop \in [attempt : Nat, pid : Pids \cup {NoPid}]
  /\ st \in [Pids -> LeaderState]
  /\ code \in [Pids -> {0, 1}]
  /\ kids \in [Pids -> BOOLEAN]
  /\ mine \in [Pids -> BOOLEAN]
  /\ done \in BOOLEAN
  /\ pc \in Control
  /\ att \in Nat
  /\ pid \in Pids \cup {NoPid}
  /\ own \in BOOLEAN
  /\ outcome \in Outcome
  /\ launches \in Nat /\ crashes \in Nat /\ acks \in Nat
  /\ harmed \in BOOLEAN

Init ==
  /\ intent = 0 /\ active = NoRecord /\ stop = NoRecord
  /\ st = [p \in Pids |-> "unborn"]
  /\ code = [p \in Pids |-> 0]
  /\ kids = [p \in Pids |-> FALSE]
  /\ mine = [p \in Pids |-> FALSE]
  /\ done = FALSE
  /\ pc = "idle" /\ att = 0 /\ pid = NoPid /\ own = FALSE
  /\ outcome = "none"
  /\ launches = 0 /\ crashes = 0 /\ acks = 0 /\ harmed = FALSE

-----------------------------------------------------------------------------
(* Process groups.                                                         *)

\* process_group_exists: a zombie leader or a descendant keeps the group.
GroupExists(p) == st[p] \notin {"unborn", "gone"} \/ kids[p]

\* terminate_process_group succeeded: TERM, KILL, and the group is gone.
Killed(p) ==
  /\ st' = [st EXCEPT ![p] = "gone"]
  /\ kids' = [kids EXCEPT ![p] = FALSE]
  /\ harmed' = (harmed \/ st[p] = "stranger")
  /\ UNCHANGED <<code, mine>>

\* terminate_process_group raised: the group outlived KILL.
Survived(p) ==
  /\ Survivors /\ GroupExists(p) /\ st[p] # "stranger"
  /\ UNCHANGED <<os, harmed>>

Return(result) ==
  /\ pc' = "idle" /\ att' = 0 /\ pid' = NoPid /\ own' = FALSE
  /\ outcome' = result

Goto(label) == pc' = label /\ UNCHANGED <<att, pid, own, outcome>>

-----------------------------------------------------------------------------
(* plan and run_once.                                                      *)

\* The caller found no completion marker and asks for a run.
Call ==
  /\ pc = "idle" /\ ~done
  /\ Goto("plan")
  /\ UNCHANGED <<disk, os, done, ghosts>>

\* Mutant: recovery forgets the intent of an attempt that left no child.
NextAttemptFromChild == active.attempt + 1

\* plan(): a recorded stop wins; a live group is a candidate for
\* reattachment; otherwise the next attempt follows the records.
NextAttempt ==
  LET after == active.attempt + 1
  IN  IF intent > after THEN intent ELSE after

Plan ==
  /\ pc = "plan"
  /\ own' = FALSE /\ outcome' = "none"
  /\ pid' = active.pid
  /\ \/ /\ stop # NoRecord
        /\ pc' = "halt" /\ att' = stop.attempt
     \/ /\ stop = NoRecord /\ active # NoRecord /\ GroupExists(active.pid)
        /\ pc' = "match" /\ att' = active.attempt
     \/ /\ stop = NoRecord
        /\ active # NoRecord => ~GroupExists(active.pid)
        /\ att' = NextAttempt
        /\ pc' = IF NextAttempt > MaxAttempts THEN "halt" ELSE "start"
  /\ UNCHANGED <<disk, os, done, ghosts>>

\* plan() probes the group a second time in _child_group_matches.
Match ==
  /\ pc = "match"
  /\ Goto(IF GroupExists(pid) THEN "monitor" ELSE "halt")
  /\ UNCHANGED <<disk, os, done, ghosts>>

\* _run_once on a STOP plan: terminate what the record names, and fail.
Halt ==
  /\ pc = "halt"
  /\ IF pid # NoPid /\ GroupExists(pid)
       THEN Killed(pid) \/ Survived(pid)
       ELSE UNCHANGED <<os, harmed>>
  /\ Return("FAILURE")
  /\ UNCHANGED <<disk, done, launches, crashes, acks>>

\* Mutant: the child is started before its attempt is durable.
WriteIntentSkipped ==
  /\ pc = "start"
  /\ pc' = "spawn" /\ pid' = NoPid /\ own' = FALSE
  /\ UNCHANGED <<disk, os, done, att, outcome, ghosts>>

\* _start, first effect: the intent names the attempt before any child runs.
WriteIntent ==
  /\ pc = "start"
  /\ intent' = att
  /\ pc' = "spawn" /\ pid' = NoPid /\ own' = FALSE
  /\ UNCHANGED <<active, stop, os, done, att, outcome, ghosts>>

\* _start, second effect: the child runs in a private session.
Spawn ==
  /\ pc = "spawn"
  /\ launches + 1 \in Pids
  /\ pid' = launches + 1
  /\ st' = [st EXCEPT ![pid'] = "booting"]
  /\ mine' = [mine EXCEPT ![pid'] = TRUE]
  /\ pc' = "publish" /\ own' = TRUE
  /\ launches' = launches + 1
  /\ UNCHANGED <<disk, code, kids, done, att, outcome, crashes, acks, harmed>>

\* The launcher raised something run_once does not catch.
SpawnRaises ==
  /\ pc = "spawn"
  /\ Return("RAISED")
  /\ UNCHANGED <<disk, os, done, ghosts>>

\* _start, third effect: the identity of the child becomes durable.
Publish ==
  /\ pc = "publish"
  /\ active' = Record(att, pid)
  /\ Goto("monitor")
  /\ UNCHANGED <<intent, stop, os, done, ghosts>>

\* The identity could not be written: the child is terminated and _start
\* raises SupervisorIntegrityError, so the caller's `active' stays None.
PublishFails ==
  /\ pc = "publish"
  /\ Killed(pid) \/ Survived(pid)
  /\ pc' = "integrity" /\ pid' = NoPid /\ own' = FALSE
  /\ UNCHANGED <<disk, done, att, outcome, launches, crashes, acks>>

\* KeyboardInterrupt while the identity is written: the child is terminated
\* and the interrupt goes on to the caller, no record names the attempt.
PublishInterrupted ==
  /\ pc = "publish" /\ crashes < MaxCrashes
  /\ crashes' = crashes + 1
  /\ Killed(pid)
  /\ Return("RAISED")
  /\ UNCHANGED <<disk, done, launches, acks>>

-----------------------------------------------------------------------------
(* _monitor.                                                               *)

\* Popen.poll or waitpid reaps a leader that is our own child.  Only the
\* reattached branch looks for descendants the leader left behind.
SeeExit ==
  /\ pc = "monitor" /\ st[pid] = "zombie" /\ (own \/ mine[pid])
  /\ st' = [st EXCEPT ![pid] = "gone"]
  /\ Goto(CASE code[pid] # 0 -> "failing"
            [] code[pid] = 0 /\ ~own /\ kids[pid] -> "sweep"
            [] OTHER -> "clearActive")
  /\ UNCHANGED <<disk, code, kids, mine, done, ghosts>>

Sweep ==
  /\ pc = "sweep"
  /\ \/ Killed(pid) /\ Goto("clearActive")
     \/ Survived(pid) /\ Goto("integrity")
  /\ UNCHANGED <<disk, done, launches, crashes, acks>>

\* Mutant: a reattached group that is gone counts as finished.
SeeGoneIsSuccess ==
  /\ pc = "monitor" /\ ~own /\ ~GroupExists(pid)
  /\ Goto("clearActive")
  /\ UNCHANGED <<disk, os, done, ghosts>>

\* A reattached group disappeared and its exit status is not ours to read.
SeeGone ==
  /\ pc = "monitor" /\ ~own /\ ~GroupExists(pid)
  /\ Goto(IF CompletionCheck /\ done THEN "clearActive" ELSE "failing")
  /\ UNCHANGED <<disk, os, done, ghosts>>

\* Mutant: only the liveness heartbeat is watched.
SeeStaleLivenessOnly ==
  /\ pc = "monitor"
  /\ \/ st[pid] \in {"booting", "frozen", "stranger"}
     \/ ~own /\ st[pid] = "gone" /\ kids[pid]
  /\ Goto("failing")
  /\ UNCHANGED <<disk, os, done, ghosts>>

\* No fresh liveness heartbeat, or no progress while one is required.
SeeStale ==
  /\ pc = "monitor"
  /\ \/ st[pid] \in {"booting", "frozen", "stranger"}
     \/ st[pid] = "stuck" /\ ProgressTimeout
     \/ ~own /\ st[pid] = "gone" /\ kids[pid]
  /\ Goto("failing")
  /\ UNCHANGED <<disk, os, done, ghosts>>

-----------------------------------------------------------------------------
(* Leaving the loop.                                                       *)

\* KeyboardInterrupt leaves the poll loop and touches nothing.
Interrupt ==
  /\ pc = "monitor"
  /\ Return("RAISED")
  /\ UNCHANGED <<disk, os, done, ghosts>>

\* _clear_runtime_identity and the ..._if_unchanged helpers: three unlinks.
ClearActive ==
  /\ pc = "clearActive"
  /\ active' = NoRecord
  /\ Goto("clearIntent")
  /\ UNCHANGED <<intent, stop, os, done, ghosts>>

ClearIntent ==
  /\ pc = "clearIntent"
  /\ intent' = 0
  /\ IF stop = NoRecord THEN Return("SUCCESS") ELSE Goto("clearStop")
  /\ UNCHANGED <<active, stop, os, done, ghosts>>

ClearStop ==
  /\ pc = "clearStop"
  /\ stop' = NoRecord
  /\ Return("SUCCESS")
  /\ UNCHANGED <<intent, active, os, done, ghosts>>

\* Mutant: the failed group is left to die on its own.
FailWithoutKill ==
  /\ pc = "failing"
  /\ Goto("retire")
  /\ UNCHANGED <<disk, os, done, ghosts>>

\* A technical failure: the group must be gone before anything is retired.
Fail ==
  /\ pc = "failing"
  /\ \/ Killed(pid) /\ Goto("retire")
     \/ Survived(pid) /\ Goto("survived")
  /\ UNCHANGED <<disk, done, launches, crashes, acks>>

Retire ==
  /\ pc = "retire"
  /\ active' = NoRecord
  /\ Goto("decide")
  /\ UNCHANGED <<intent, stop, os, done, ghosts>>

\* The budget is spent: the stop is durable, and the call fails.
GiveUp ==
  /\ pc = "decide" /\ att >= MaxAttempts
  /\ stop' = Record(att, pid)
  /\ Return("FAILURE")
  /\ UNCHANGED <<intent, active, os, done, ghosts>>

\* Mutant: every failed attempt leaves a stop, also one that is retried.
RetryWithStop ==
  /\ pc = "decide" /\ att < MaxAttempts
  /\ att' = att + 1
  /\ intent' = att + 1
  /\ stop' = Record(att, pid)
  /\ pc' = "start" /\ pid' = NoPid /\ own' = FALSE
  /\ UNCHANGED <<active, os, done, outcome, ghosts>>

\* The next attempt; _start writes the same intent once more.
Retry ==
  /\ pc = "decide" /\ att < MaxAttempts
  /\ att' = att + 1
  /\ intent' = att + 1
  /\ pc' = "start" /\ pid' = NoPid /\ own' = FALSE
  /\ UNCHANGED <<active, stop, os, done, outcome, ghosts>>

\* Cleanup of a failed attempt failed: the stop names the survivor.
StopSurvivor ==
  /\ pc = "survived"
  /\ stop' = Record(att, pid)
  /\ Goto("unpublish")
  /\ UNCHANGED <<intent, active, os, done, ghosts>>

\* except SupervisorIntegrityError: a second cleanup may raise out of
\* run_once; otherwise the stop is written and the identity removed.
Integrity ==
  /\ pc = "integrity"
  /\ \/ /\ pid # NoPid /\ Survived(pid)
        /\ Return("RAISED") /\ UNCHANGED stop
     \/ /\ IF pid # NoPid THEN Killed(pid) ELSE UNCHANGED <<os, harmed>>
        /\ stop' = Record(att, pid)
        /\ Goto("unpublish")
  /\ UNCHANGED <<intent, active, done, launches, crashes, acks>>

Unpublish ==
  /\ pc = "unpublish"
  /\ active' = NoRecord
  /\ Return("FAILURE")
  /\ UNCHANGED <<intent, stop, os, done, ghosts>>

-----------------------------------------------------------------------------
(* The other entry points of the supervisor.                               *)

\* The records a stop may be acknowledged with.
StopMatches ==
  /\ intent # 0 => intent = stop.attempt
  /\ active # NoRecord =>
       /\ active.attempt = stop.attempt
       /\ stop.pid # NoPid => stop.pid = active.pid

\* acknowledge_stopped_execution: revalidate, terminate, then three unlinks.
Acknowledge ==
  /\ pc = "idle" /\ stop # NoRecord /\ acks < MaxAcks
  /\ LET named == IF active # NoRecord THEN active.pid ELSE stop.pid
     IN  \/ /\ StopMatches
            /\ IF named # NoPid /\ GroupExists(named)
                 THEN Killed(named)
                 ELSE UNCHANGED <<os, harmed>>
            /\ pc' = "clearActive"
            /\ UNCHANGED <<att, pid, own, outcome>>
            /\ acks' = acks + 1
         \/ /\ \/ ~StopMatches /\ UNCHANGED <<os, harmed>>
               \/ StopMatches /\ named # NoPid /\ Survived(named)
            /\ Return("RAISED")
            /\ UNCHANGED acks
  /\ UNCHANGED <<disk, done, launches, crashes>>

\* reconcile_completed_execution: the caller found the completion marker.
Reconcile ==
  /\ pc = "idle" /\ done
  /\ \/ /\ IF active # NoRecord /\ GroupExists(active.pid)
             THEN Killed(active.pid)
             ELSE UNCHANGED <<os, harmed>>
        /\ pc' = "clearActive"
        /\ UNCHANGED <<att, pid, own, outcome>>
     \/ /\ active # NoRecord /\ Survived(active.pid)
        /\ Return("RAISED")
  /\ UNCHANGED <<disk, done, launches, crashes, acks>>

\* reclaim_dead_child, first effect: the next attempt is durable before the
\* dead identity is removed.
Reclaim ==
  /\ pc = "idle"
  /\ stop = NoRecord /\ active # NoRecord /\ ~GroupExists(active.pid)
  /\ intent' = active.attempt + 1
  /\ Goto("reclaim")
  /\ UNCHANGED <<active, stop, os, done, ghosts>>

ReclaimClear ==
  /\ pc = "reclaim"
  /\ active' = NoRecord
  /\ Return("SUCCESS")
  /\ UNCHANGED <<intent, stop, os, done, ghosts>>

-----------------------------------------------------------------------------
(* The children, and the system around them.                               *)

\* The permit is bound to the coordinator's pid: an orphan refuses to work.
Boot(p) ==
  /\ st[p] = "booting"
  /\ IF mine[p]
       THEN /\ st' = [st EXCEPT ![p] = "working"]
            /\ \E k \in BOOLEAN : kids' = [kids EXCEPT ![p] = k]
            /\ UNCHANGED code
       ELSE /\ st' = [st EXCEPT ![p] = "gone"]
            /\ code' = [code EXCEPT ![p] = 1]
            /\ UNCHANGED kids
  /\ UNCHANGED <<disk, mine, done, memory, ghosts>>

\* The child publishes the result of its work.
Complete(p) ==
  /\ st[p] = "working"
  /\ done' = TRUE
  /\ UNCHANGED <<disk, os, memory, ghosts>>

\* A leader without a living parent is reaped by the system.
Exit(p, c) ==
  /\ st[p] \in Health
  /\ c = 0 => st[p] = "working" /\ done
  /\ st' = [st EXCEPT ![p] = IF mine[p] THEN "zombie" ELSE "gone"]
  /\ code' = [code EXCEPT ![p] = c]
  /\ \E k \in {FALSE, kids[p]} : kids' = [kids EXCEPT ![p] = k]
  /\ UNCHANGED <<disk, mine, done, memory, ghosts>>

KidsExit(p) ==
  /\ kids[p] /\ st[p] \notin Health
  /\ kids' = [kids EXCEPT ![p] = FALSE]
  /\ UNCHANGED <<disk, st, code, mine, done, memory, ghosts>>

\* Heartbeats stop, resume, or go on without progress.
Freeze(p) ==
  /\ \/ st[p] = "working" /\ \E h \in {"frozen", "stuck"} : st' = [st EXCEPT ![p] = h]
     \/ st[p] = "frozen" /\ st' = [st EXCEPT ![p] = "working"]
  /\ UNCHANGED <<disk, code, kids, mine, done, memory, ghosts>>

\* A stranger becomes the leader of a group with a freed number, or leaves.
Reuse(p) ==
  /\ PidReuse /\ ~kids[p]
  /\ \/ st[p] = "gone" /\ st' = [st EXCEPT ![p] = "stranger"]
     \/ st[p] = "stranger" /\ st' = [st EXCEPT ![p] = "gone"]
  /\ UNCHANGED <<disk, code, kids, mine, done, memory, ghosts>>

\* The coordinator dies; its children are inherited and its zombies reaped.
\* With the machine every child dies too.
Crash(machine) ==
  /\ crashes < MaxCrashes
  /\ crashes' = crashes + 1
  /\ mine' = [p \in Pids |-> FALSE]
  /\ st' = [p \in Pids |->
              IF st[p] = "zombie" \/ (machine /\ st[p] \in Health)
                THEN "gone" ELSE st[p]]
  /\ kids' = [p \in Pids |-> kids[p] /\ ~machine]
  /\ Return("none")
  /\ UNCHANGED <<disk, code, done, launches, acks, harmed>>

-----------------------------------------------------------------------------
RunOnce ==
  \/ Call \/ Plan \/ Match \/ Halt \/ WriteIntent \/ Spawn \/ SpawnRaises
  \/ Publish \/ PublishFails \/ SeeExit \/ Sweep \/ SeeGone \/ SeeStale
  \/ ClearActive \/ ClearIntent \/ ClearStop \/ Fail \/ Retire \/ GiveUp
  \/ Retry \/ StopSurvivor \/ Integrity \/ Unpublish

Recovery == Acknowledge \/ Reconcile \/ Reclaim \/ ReclaimClear

Environment ==
  \/ \E p \in Pids : Boot(p) \/ Complete(p) \/ KidsExit(p) \/ Freeze(p) \/ Reuse(p)
  \/ \E p \in Pids, c \in {0, 1} : Exit(p, c)
  \/ \E machine \in BOOLEAN : Crash(machine)

Next == RunOnce \/ Recovery \/ Interrupt \/ PublishInterrupted \/ Environment

Spec == Init /\ [][Next]_vars

\* The coordinator keeps running once called (nothing interrupts it for its
\* sake), the system lets dying groups die, and a child that is able to work
\* again and again finishes.
Fairness ==
  /\ WF_vars(RunOnce /\ pc # "idle")
  /\ WF_vars(Recovery /\ pc # "idle")
  /\ \A p \in Pids :
       /\ WF_vars(Boot(p))
       /\ WF_vars(KidsExit(p))
       /\ SF_vars(st[p] = "working" /\ \E c \in {0, 1} : Exit(p, c))

FairSpec == Spec /\ Fairness

-----------------------------------------------------------------------------
(* Properties.                                                             *)

\* The records fit together after every step and every crash: a recorded
\* child has the attempt of the intent, or the one before it, and is never
\* recorded without an intent.  Recovery counts attempts from these records.
RecordsAgree ==
  active # NoRecord => intent \in {active.attempt, active.attempt + 1}

\* The retry budget bounds the processes ever started: MaxAttempts per
\* acknowledged stop, and one more for each crash or interrupt that hit the
\* window in which the records do not yet name the attempt in progress.
LaunchBudget == launches <= MaxAttempts * (acks + 1) + crashes

\* The attempt a run works on stays within the policy's bound, whatever
\* records a crash, a reclaim or a reattachment left behind.
AttemptBound ==
  pc \in {"start", "spawn", "publish", "monitor"} => att \in 1..MaxAttempts

\* A durable stop is final: no process is started while one is recorded.
StopHolds == [][launches' # launches => stop = NoRecord /\ stop' = NoRecord]_vars

\* run_once reports success only for work whose completion marker is
\* durable, also for a group that disappeared while it was reattached.
SuccessIsDone ==
  pc \in {"clearActive", "clearIntent"} /\ stop = NoRecord => done

\* While the work is unfinished, a child at work that is named by a record or
\* by the running call (once its identity is published) is never forgotten:
\* the step that drops one name leaves another, or the child dead, also when
\* its group outlives SIGKILL.  (For finished work reconciliation does drop
\* the name of a survivor: it looks at active-child.json only.)
AtWork(p) == st[p] \in {"working", "stuck", "frozen"}
Named == {active.pid, stop.pid} \cup IF pc = "publish" THEN {} ELSE {pid}
WorkerStaysRecorded ==
  [][\A p \in Named : p \in Pids /\ AtWork(p)' /\ ~done
        => p \in {active'.pid, stop'.pid, pid'}]_vars

\* Work on one execution is done by one child at a time.
OneWorker == \A p, q \in Pids : AtWork(p) /\ AtWork(q) => p = q

\* terminate_process_group: "exactly one verified process group".
NeverHarmsAStranger == ~harmed

\* Every call returns: a child that stops reporting is detected.
CallReturns == (pc # "idle") ~> (pc = "idle")
=============================================================================
