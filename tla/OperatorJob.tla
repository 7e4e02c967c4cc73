------------------------------ MODULE OperatorJob ------------------------------
(***************************************************************************)
(* Launching an operator job: the only way into production.  Each launch is  *)
(* a process that compiles the parameter file, registers the job once, with  *)
(* the commit it is pinned to, and hands it to a detached controller that    *)
(* runs the workflow from a worktree of that commit                          *)
(* (orchestrator_v2/production_entrypoint.py, immutable_runtime.py,          *)
(* operator_job.py, execution_permit.py, and the lock and the lease of       *)
(* workflow.py).  The same command resumes a job: launches overlap, and any  *)
(* process may die anywhere.                                                *)
(***************************************************************************)
EXTENDS Integers

CONSTANTS
  Asks,        \* the parameter files an operator may submit under this run_id
  NumLaunches, \* bound: launches
  MaxFaults    \* bound: deaths, timeouts, swept directories, reused pids

JobAssumption == NumLaunches \in Nat \ {0} /\ MaxFaults \in Nat /\ "none" \notin Asks

VARIABLES
  disk,   \* the registration of the job, and the lease of its controller
  launch, \* what each launch does, the plan it compiled, the commit it will use
  world   \* controllers, locks, worktrees, the checkout of the developer, faults

Launches == 1..NumLaunches  \* controller c is the child of launch c
Commits == 1..2             \* bound: the developer commits once while the job lives
NoPlan == [ask |-> "none", ver |-> 0]
NoController == [pc |-> "none", plan |-> NoPlan, commit |-> 0, sent |-> FALSE]

Outcomes == {"started", "dirty", "different", "runtime", "live", "failed", "crashed"}
Ended(l) == launch[l].pc \in Outcomes
Gone == {"none", "away", "done", "dead"}
Running(c) == world.ctrl[c].pc \notin Gone

\* A pid is alive while its process is, or once a stranger that leads a process
\* group of its own was given it.
PidAlive(c) == Running(c) \/ c \in world.reused

\* compile_job is deterministic: another plan of the same parameters comes from
\* other code.
Compiled(ask, code) == [ask |-> ask, ver |-> IF world.renews THEN code ELSE 1]

JobInit ==
  /\ disk = [params |-> "none", plan |-> NoPlan, pin |-> 0, guide |-> FALSE, lease |-> 0]
  /\ launch = [l \in Launches |-> [pc |-> "idle", plan |-> NoPlan, commit |-> 0, fresh |-> FALSE]]
  /\ \E renews \in BOOLEAN :
       world = [ctrl |-> [c \in Launches |-> NoController], reg |-> 0, own |-> 0,
                tree |-> [k \in Commits |-> "absent"], work |-> 1, head |-> 1,
                renews |-> renews, reused |-> {}, late |-> FALSE, faults |-> 0]

Goto(l, pc) == launch' = [launch EXCEPT ![l].pc = pc]

\* A launch that ends, or dies, leaves the registration lock.
Freed(l, w) == [w EXCEPT !.reg = IF @ = l THEN 0 ELSE @]
End(l, outcome) == Goto(l, outcome) /\ world' = Freed(l, world)

-----------------------------------------------------------------------------
(* A launch, up to its registration.                                       *)

\* The process loads the code of the working tree, and compiles with it.  Bound:
\* launches start in the order of their numbers.
Start(l) ==
  /\ launch[l].pc = "idle" /\ (l > 1 => launch[l - 1].pc # "idle")
  /\ \E a \in Asks :
       launch' = [launch EXCEPT ![l].pc = "check", ![l].plan = Compiled(a, world.work)]
  /\ UNCHANGED <<disk, world>>

\* _require_committed_job_code, before the lock.
RequireCommitted(l) ==
  /\ launch[l].pc = "check" /\ UNCHANGED <<disk, world>>
  /\ Goto(l, IF world.work = world.head THEN "lock" ELSE "dirty")

\* A mutant: the registration is not serialized.
LockAnyway(l) ==
  /\ launch[l].pc = "lock" /\ UNCHANGED disk
  /\ world' = [world EXCEPT !.reg = l] /\ Goto(l, "compare")

Lock(l) ==
  /\ launch[l].pc = "lock" /\ world.reg = 0 /\ UNCHANGED disk
  /\ world' = [world EXCEPT !.reg = l] /\ Goto(l, "compare")

Differs(l) ==
  \/ disk.params \notin {"none", launch[l].plan.ask}
  \/ disk.plan \notin {NoPlan, launch[l].plan}

\* An existing registration must be this very one; its commit is kept, and a new
\* one takes the commit that is checked out now.
Compare(l) ==
  /\ launch[l].pc = "compare" /\ UNCHANGED disk
  /\ \/ Differs(l) /\ End(l, "different")
     \/ /\ ~Differs(l) /\ UNCHANGED world
        /\ launch' = [launch EXCEPT ![l].pc = "ensure", ![l].fresh = disk.pin = 0,
                        ![l].commit = IF disk.pin = 0 THEN world.head ELSE disk.pin]

TreeOf(l) == world.tree[launch[l].commit]

\* ImmutableRuntimeManager.ensure: a worktree that exists must be the commit and
\* clean; one that git remembers and is not there cannot be added again.
Ensure(l) ==
  /\ launch[l].pc = "ensure" /\ UNCHANGED disk
  /\ \/ /\ TreeOf(l) = "absent" /\ Goto(l, "adding")
        /\ world' = [world EXCEPT !.tree[launch[l].commit] = "adding"]
     \/ TreeOf(l) = "ready" /\ Goto(l, "params") /\ UNCHANGED world
     \/ TreeOf(l) \in {"adding", "partial", "missing"} /\ End(l, "runtime")

Added(l) ==
  /\ launch[l].pc = "adding" /\ TreeOf(l) # "adding" /\ UNCHANGED disk
  /\ \/ TreeOf(l) = "ready" /\ Goto(l, "params") /\ UNCHANGED world
     \/ TreeOf(l) # "ready" /\ End(l, "runtime")

\* Each file is written if it is not there, one after the other.
WriteParams(l) ==
  /\ launch[l].pc = "params" /\ Goto(l, "plan") /\ UNCHANGED world
  /\ disk' = [disk EXCEPT !.params = IF @ = "none" THEN launch[l].plan.ask ELSE @]

WritePlan(l) ==
  /\ launch[l].pc = "plan" /\ Goto(l, "pin") /\ UNCHANGED world
  /\ disk' = [disk EXCEPT !.plan = IF @ = NoPlan THEN launch[l].plan ELSE @]

WritePin(l) ==
  /\ launch[l].pc = "pin" /\ Goto(l, "guide") /\ UNCHANGED world
  /\ disk' = [disk EXCEPT !.pin = IF @ = 0 THEN launch[l].commit ELSE @]

WriteGuide(l) ==
  /\ launch[l].pc = "guide" /\ Goto(l, "lease") /\ UNCHANGED world
  /\ disk' = [disk EXCEPT !.guide = @ \/ launch[l].fresh]

-----------------------------------------------------------------------------
(* A launch that starts its controller, with the registration lock held.   *)

FindLease(l) ==
  /\ launch[l].pc = "lease" /\ UNCHANGED disk
  /\ IF disk.lease # 0 /\ PidAlive(disk.lease)
       THEN End(l, "live") ELSE Goto(l, "spawn") /\ UNCHANGED world

\* The child's directory is the worktree.
Spawn(l) ==
  /\ launch[l].pc = "spawn" /\ UNCHANGED disk
  /\ \/ /\ TreeOf(l) = "ready" /\ Goto(l, "wait")
        /\ world' = [world EXCEPT !.ctrl[l] =
                       [NoController EXCEPT !.pc = "boot", !.commit = launch[l].commit]]
     \/ TreeOf(l) # "ready" /\ End(l, "failed")

\* READY may be read although its sender is dead by now; the end of the pipe is
\* the death of a child that did not send it.
AwaitReady(l) ==
  /\ launch[l].pc = "wait" /\ UNCHANGED disk
  /\ \/ world.ctrl[l].sent /\ End(l, "started")
     \/ ~world.ctrl[l].sent /\ ~Running(l) /\ End(l, "failed")

Killed(c, w) == [w EXCEPT !.own = IF @ = c THEN 0 ELSE @,
                          !.ctrl[c].pc = IF @ \in Gone THEN @ ELSE "dead"]

\* After a timeout: the child is terminated and reaped before the launch fails.
Terminate(l) ==
  /\ launch[l].pc = "kill" /\ Goto(l, "failed") /\ UNCHANGED disk
  /\ world' = Freed(l, Killed(l, world))

LaunchStep(l) ==
  \/ Start(l) \/ RequireCommitted(l) \/ Lock(l) \/ Compare(l) \/ Ensure(l) \/ Added(l)
  \/ WriteParams(l) \/ WritePlan(l) \/ WritePin(l) \/ WriteGuide(l)
  \/ FindLease(l) \/ Spawn(l) \/ AwaitReady(l) \/ Terminate(l)

-----------------------------------------------------------------------------
(* The controller.                                                         *)

At(c, pc) == world.ctrl[c].pc = pc
Become(c, pc) == world' = [world EXCEPT !.ctrl[c].pc = pc]
ParentAlive(c) == ~Ended(c)

\* It reads the plan; its permit is for this code, and for a child of a launch
\* that is still there.
Boot(c) ==
  /\ At(c, "boot") /\ UNCHANGED <<disk, launch>>
  /\ \/ /\ ParentAlive(c) /\ world.tree[world.ctrl[c].commit] = "ready"
        /\ world' = [world EXCEPT !.ctrl[c].pc = "permitted", !.ctrl[c].plan = disk.plan]
     \/ ~ParentAlive(c) /\ Become(c, "dead")
     \/ world.tree[world.ctrl[c].commit] # "ready" /\ Become(c, "dead")

\* READY is said before the workflow's lock is tried; nobody may read it.
SendReady(c) ==
  /\ At(c, "permitted") /\ UNCHANGED <<disk, launch>>
  /\ \/ /\ ParentAlive(c)
        /\ world' = [world EXCEPT !.ctrl[c].pc = "ready", !.ctrl[c].sent = TRUE]
     \/ ~ParentAlive(c) /\ Become(c, "dead")

\* workflow.lock is not waited for: who finds it taken leaves.
Acquire(c) ==
  /\ At(c, "ready") /\ UNCHANGED <<disk, launch>>
  /\ \/ world.own = 0 /\ world' = [world EXCEPT !.ctrl[c].pc = "leasing", !.own = c]
     \/ world.own # 0 /\ Become(c, "away")

PutLease(c) ==
  /\ At(c, "leasing") /\ Become(c, "running")
  /\ disk' = [disk EXCEPT !.lease = c] /\ UNCHANGED launch

Heartbeat(c) ==
  /\ At(c, "running") /\ disk.lease # c
  /\ disk' = [disk EXCEPT !.lease = c] /\ UNCHANGED <<launch, world>>

\* The workflow has ended, or failed.  The lease goes if it is still its own,
\* then the lock, then the notifications are flushed.
DropLease(c) ==
  /\ At(c, "running") /\ Become(c, "closing") /\ UNCHANGED launch
  /\ disk' = [disk EXCEPT !.lease = IF @ = c THEN 0 ELSE @]

Unlock(c) ==
  /\ At(c, "closing") /\ UNCHANGED <<disk, launch>>
  /\ world' = [world EXCEPT !.own = 0, !.ctrl[c].pc = "flushing"]

Exit(c) == At(c, "flushing") /\ Become(c, "done") /\ UNCHANGED <<disk, launch>>

Startup(c) == Boot(c) \/ SendReady(c) \/ Acquire(c) \/ PutLease(c)
ControllerStep(c) == Startup(c) \/ Heartbeat(c) \/ DropLease(c) \/ Unlock(c) \/ Exit(c)

-----------------------------------------------------------------------------
(* What happens around them.                                               *)

\* git outlives the launch that called it.
GitAdds(k) ==
  /\ world.tree[k] = "adding" /\ world' = [world EXCEPT !.tree[k] = "ready"]
  /\ UNCHANGED <<disk, launch>>

\* The developer edits the checkout, and commits what was edited.
Develop ==
  /\ UNCHANGED <<disk, launch>>
  /\ \/ world.work = 1 /\ world' = [world EXCEPT !.work = 2]
     \/ world.work = 2 /\ world.head = 1 /\ world' = [world EXCEPT !.head = 2]

Faulty(w) == world.faults < MaxFaults /\ world' = [w EXCEPT !.faults = @ + 1]

Dies(l) ==
  /\ launch[l].pc # "idle" /\ ~Ended(l)
  /\ Faulty(Freed(l, world)) /\ Goto(l, "crashed") /\ UNCHANGED disk

ControllerDies(c) == Running(c) /\ Faulty(Killed(c, world)) /\ UNCHANGED <<disk, launch>>

Timeout(l) ==
  /\ launch[l].pc = "wait" /\ Faulty(world) /\ Goto(l, "kill") /\ UNCHANGED disk

\* git removes what it began when it fails, unless it is killed.
GitFails(k) ==
  /\ world.tree[k] = "adding" /\ UNCHANGED <<disk, launch>>
  /\ \E left \in {"absent", "partial"} : Faulty([world EXCEPT !.tree[k] = left])

\* The worktrees are in the temporary directory, which the system may clean.
Sweep(k) ==
  /\ world.tree[k] = "ready" /\ Faulty([world EXCEPT !.tree[k] = "missing"])
  /\ UNCHANGED <<disk, launch>>

ReusePid(c) ==
  /\ disk.lease = c /\ ~PidAlive(c) /\ Faulty([world EXCEPT !.reused = @ \cup {c}])
  /\ UNCHANGED <<disk, launch>>

\* A heartbeat is joined for two seconds only: one that is stuck in the file
\* system writes after its lease was removed.
LateBeat(c) ==
  /\ world.ctrl[c].pc \in {"closing", "flushing"} /\ Faulty([world EXCEPT !.late = TRUE])
  /\ disk' = [disk EXCEPT !.lease = c] /\ UNCHANGED launch

Around ==
  \/ Develop \/ \E k \in Commits : GitFails(k) \/ Sweep(k)
  \/ \E l \in Launches : Dies(l) \/ ControllerDies(l) \/ Timeout(l) \/ ReusePid(l) \/ LateBeat(l)

JobNext ==
  \/ \E l \in Launches : LaunchStep(l) \/ ControllerStep(l)
  \/ \E k \in Commits : GitAdds(k)
  \/ Around

-----------------------------------------------------------------------------

\* Types of the registration, of the launches and of what is around them.
JobTypeOK ==
  /\ disk.params \in Asks \cup {"none"} /\ disk.pin \in 0..2 /\ disk.lease \in 0..NumLaunches
  /\ disk.guide \in BOOLEAN /\ {world.reg, world.own} \subseteq 0..NumLaunches
  /\ \A l \in Launches :
       /\ launch[l].pc \in Outcomes \cup
            {"idle", "check", "lock", "compare", "ensure", "adding", "params", "plan", "pin",
             "guide", "lease", "spawn", "wait", "kill"}
       /\ world.ctrl[l].pc \in Gone \cup
            {"boot", "permitted", "ready", "leasing", "running", "closing", "flushing"}
  /\ world.faults \in 0..MaxFaults

\* Two launches never mix their plans, and every controller runs the one plan of
\* the registered parameters, on the one commit of the registration.
RunsTheRegistration ==
  /\ disk.plan # NoPlan => disk.plan.ask = disk.params
  /\ \A c \in Launches :
       world.ctrl[c].plan # NoPlan =>
         world.ctrl[c].plan = disk.plan /\ world.ctrl[c].commit = disk.pin

\* What a launch says is so: STARTED, that what it asked is registered and its
\* controller had a permit; failure, that no controller of it is left.
OutcomesAreTrue ==
  \A l \in Launches :
    /\ launch[l].pc = "started" => launch[l].plan = disk.plan /\ world.ctrl[l].sent
    /\ launch[l].pc \in Outcomes \ {"started", "crashed"} => ~Running(l)

\* The lease names the controller that runs, unless a late heartbeat of another
\* has just been there.
LeaseNamesTheOwner ==
  \A c \in Launches :
    At(c, "running") => world.own = c /\ (world.late \/ disk.lease = c)

\* A launch is refused for a cause: another plan, a controller that lives (or a
\* stranger under its pid), or something that broke.
RefusedForCause ==
  \A l \in Launches :
    /\ launch[l].pc = "different" /\ world.work = 1 => launch[l].plan.ask # disk.params
    /\ launch[l].pc \in {"failed", "runtime"} => world.faults > 0
    /\ launch[l].pc = "live" /\ world.faults = 0 =>
         \E m \in Launches \ {l} : launch[m].pc = "started"

\* READY comes before the lock, so a controller whose launch said STARTED may
\* leave; it then leaves the job to one that has it.
SomebodyHasIt ==
  world.faults = 0 /\ (\E l \in Launches : launch[l].pc = "started") =>
    \E c \in Launches : world.ctrl[c].pc \notin {"none", "away", "dead"}

\* The safety of launching: all of the above.
JobIsSound ==
  /\ RunsTheRegistration /\ OutcomesAreTrue /\ LeaseNamesTheOwner
  /\ RefusedForCause /\ SomebodyHasIt

Launched == \A l \in Launches : Ended(l)
=============================================================================
