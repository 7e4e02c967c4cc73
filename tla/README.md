# TLA+ models of gocube-alphazero

This directory holds TLA+ specifications of the parts of gocube-alphazero whose
correctness depends on the order of events: processes that crash and are
restarted, records that are written one after the other, workers that outlive
their parents, messages whose answer is lost. The specifications are translated
from the Python source; `PROJECT.json` maps every definition to the lines it
stands for. TLC checks small instances, TLAPS proves the most important
properties for every value of the constants.

These components are modelled:

| component | modules | configurations |
|---|---|---|
| external supervision (`orchestrator_v2/supervisor.py`, `process_supervision.py`) | `Supervisor`, `MCSupervisor`, `SupervisorProofs` | `SupervisorSafety`, `SupervisorLive`, `SupervisorOrphan` |
| operator notifications (`gocube_golden/notifications/`) | `Notifications`, `AmbiguousDelivery`, `MCNotifications`, `NotificationProofs` | `NotificationSafety`, `NotificationLive`, `NotificationImport` |
| production generations (`production_generation.py`, `generation_recovery.py`, `cube_production.py`, `training_engine.py`, `artifact_graph.py`, the five-channel torus9 trainer) | `GenerationCommit`, `GenerationLog`, `MCGeneration`, `GenerationProofs` | `GenerationSafety`, `GenerationRestart` |
| the workflow engine (`orchestrator_v2/workflow.py`) | `Workflow`, `MCWorkflow`, `WorkflowProofs` | `Workflow`, `WorkflowStop` |
| Arena evaluation V2 (`_arena_runner_core.py`, `arena_child.py`, `arena_identity.py`, `tools/arena.py`) | `ArenaEvaluation`, `ComponentProofs` | `System` |
| continuous training (`_continuous_training_core.py`, the sweep of `performance_tuning/compatibility.py`) | `ContinuousTraining`, `ContinuousTrainingProofs` | `System` |
| komi calibration (`scenarios/komi/`) | `KomiCalibration` (extends `ContinuousTraining`), `ContinuousTrainingProofs` | `System` |
| experiments (`scenarios/experiment/`) | `Experiment`, `ComponentProofs` | `System` |
| the standalone tuner (`performance_tuning/runner.py`) | `PerformanceTuning`, `OperatorProofs` | `System`, `TuningBaseline` |
| the self-play engine (`selfplay_engine.py`) | `SelfPlayEngine`, `OperatorProofs` | `System` |
| the Arena engine (`tools/arena_engine.py`, `tools/arena_worker.py`) | `ArenaEngine`, `ContinuousTrainingProofs` | `System` |
| the staged adaptation (`orchestrator_v2/adaptation.py`) | `Adaptation`, `ComponentProofs` | `System` |
| operator jobs and their worktrees (`production_entrypoint.py`, `operator_job.py`, `immutable_runtime.py`) | `OperatorJob`, `OperatorProofs` | `System` |
| the rolling replay (`torus9_training.py`, `torus9_run_driver.py`, `artifact_resolver.py`, `cube_training_v2.py`) | `ReplayWindow` | `System` |
| the rules of the games (`rules.py`, `state.py`, `scoring.py`) | `GoRules`, `ComponentProofs` | `System` |
| the territory rules (`katago_v3.py`) | `TerritoryRules` | `System` |
| tree search (`search.py`, and the games of both engines) | `TreeSearch` (extends `GoRules`) | `System` |
| the Protocol V1 service (`alphazero/envs/gocube/integration/`) | `PlayService`, `ComponentProofs` | `System` |
| training transactions (`training_engine.py`, `cube_training_v2.py`, `torus9_training.py`, `torus9_monolith.py`, `cube_m0_publisher.py`) | `TrainingTransaction` | `System` |
| orchestrator V1 (`orchestrator.py`, `production_orchestrator.py`, `operator_policy.py`, `artifact_catalog.py`) | `LineageOrchestrator` | `System` |
| run storage (`run_storage.py`, `run_lifecycle.py`, the tools that move, deduplicate and refresh lineages) | `RunStorage` | `System` |
| metadata of V1 lineages (`tools/orchestrator_v2_backfill_nodes.py`) | `MetadataBackfill` | `System` |

`MCSystem` instantiates all but the first four for `System.cfg`.

Run a configuration with `tlc -workers 2 -config SupervisorSafety.cfg MCSupervisor`
and a proof module with `tlapm SupervisorProofs.tla`.

## 1. The system

gocube-alphazero trains networks for Go on a torus and on cube surfaces. What
runs is a stack of coordinators, each of which keeps its progress in JSON files
that are replaced atomically, calls the next one below, and must find its way
when it is started again after any crash:

```
operator job / production entry point  plan, pin, lease     OperatorJob
  └─ workflow engine            state.json                      Workflow
       ├─ Arena evaluation      evaluation directory, result    ArenaEvaluation
       │    └─ Arena engine     workers, lanes, scheduler       ArenaEngine
       ├─ experiment            state.json, arms, stages        Experiment
       ├─ komi calibration      ledger, pinned parent           KomiCalibration
       ├─ performance tuning    observations, owner lock        PerformanceTuning
       ├─ adaptation            state.json, decision.json       Adaptation
       └─ continuous training   state.json, soft stop           ContinuousTraining
            ├─ rolling replay          rows of past generations ReplayWindow
            └─ production generation   artifacts, evidence,     GenerationCommit
               │                       completion marker
               └─ SupervisorV2   intent, active child, stop     Supervisor
                    └─ child process (training, Arena)
                         └─ self-play engine  workers, slots    SelfPlayEngine
                              └─ search of a player, rules      TreeSearch, GoRules, TerritoryRules
play service: cached models, threads, run storage               PlayService
notifications: event and delivery files, Telegram               Notifications
```

### Components

*SupervisorV2.* State: `execution-intent.json` (attempt), `active-child.json`
(attempt, pid), `supervisor-stop.json`; in memory, the attempt, the child and
perhaps its `Popen`. Operations: `run_once` (plan, start or reattach, monitor,
retry, give up), `acknowledge_stopped_execution`, `reconcile_completed_execution`,
`reclaim_dead_child`. It calls the process functions (probe, terminate a group)
and is called by the generation, Arena and continuous-training runners. Hard:
a crash between any two effects, processes that survive a kill, a reused pid, a
child that exits between two probes. Right if: one child works at a time,
launches are bounded, a stop is final, success means durable work, calls return.

*Notifications.* State: one event file and one delivery file for each event,
`dispatcher.lock`, threads of every process. Operations: publish, drain, retry,
requeue, migration of the old outbox, close. Hard: the answer to an HTTP request
may be lost or come after its drain gave up; several processes share the
directory; a receipt may fail to be written. Right if: no message is told twice,
a receipt is true, every published event comes to rest.

*Production generation.* State: six artifacts, provenance, checkpoint node,
manifest entry, catalog record and completion marker of each generation; the
supervisor's records. Operations: reuse or train one generation, publish,
reconcile what an uncommitted attempt left. Hard: an attempt may die between any
two of some fifteen durable effects, and recovery too. Right if: a committed
generation stays valid, a clean retry succeeds, each generation is handed out
once and in order.

*Workflow engine.* State: `state.json` (state of the workflow; status, attempts
and outputs of every step), guarded by `workflow.lock`. Operations: `run`, which
passes over the steps until nothing is left. Hard: crashes while an action runs,
writes that fail after an action succeeded, policies (retry, continue, stop).
Right if: completed work is never repeated, inputs never change under a started
step, the verdict agrees with the steps, every workflow is decided.

*Arena evaluation.* State: the output directory, named by the identity of the
evaluation: identity marker, summary, manifest, provenance, `arena-child-result.json`,
and the supervisor's records. Operations: reuse a stored evaluation, reclaim a
dead child, clear incomplete output, supervise a child, read its result. Hard:
a predecessor's child may still write what this call clears; the result file
may be of another attempt. Right if: what is stored or reported was played, no
output is cleared under a living child, every call chain comes to an end.

*Continuous training.* State: `runtime/state.json`, `control/soft-stop.json`, the
committed generations. Operations: launch, resume, a loop of stop, due Arena,
target, next generation, with a sweep over concurrency modes. Hard: a commit
whose coordinator died before its Arena; stops that arrive at any moment; modes
that fail. Right if: due Arenas are played before anything else, a stop is
prompt, a mode is selected on what was really played with it.

*Komi calibration.* State: stage, pinned parent, batch ledger, winner, child
lineage. It stops the parent lineage, plays two batches when the first is close,
and hands over to a child lineage. Right if: the winner has the whole evidence,
and a crash never makes it fail.

*Experiment.* State: arms with their checkpoints, Arena evidence and winner of
each stage. Every launch walks all stages again. Right if: a winner is decided
from stored valid evidence that does not change, and the second stage descends
from it.

*Performance tuning.* State: observations, failed modes, the intent to return to
the baseline, one owner at a time. Right if: an observation that counts for a
mode was trained in that mode.

*Self-play engine.* State: pending games, workers' slots in shared memory, queues,
the broker's batches. Right if: no game is lost or doubled, a game goes on with
the evaluation of its own position, partial results are not returned, runs end.

*Arena engine.* State: lanes with an input and an output slot, tickets, a
scheduler that serves one model at a time. Right if: a match counts as `VALID`
only if every game was played to its end on its own evaluations, and runs end.

*Adaptation.* State: `state.json` (stage, update, status, champion, report),
`decision.json`, the report. Stages train in blocks with a validation after each,
play an Arena, write a report and wait for a decision about it. An operator may
stop, retry or change the code at any moment. Right if: a stage is entered on the
review of the stage before, a report is about its own checkpoint, a stale decision
does no harm, and every run settles.

*Operator jobs.* State: the registered parameters, plan, commit pin and guide, the
controller's lease and lock, one worktree for each commit. A launch compiles,
registers, makes the worktree, spawns a detached controller and waits until it
reports READY. Hard: launches overlap, any process dies anywhere, git outlives its
caller, pids are reused, the checkout moves on. Right if: every controller runs the
one registered plan on its pinned commit, a launch reports what is so, and is
refused for a cause.

*Rolling replay.* State: rows kept by generation in each committed artifact. A
generation starts from the rolling artifact of its parent or from the fresh rows of
its ancestors and adds its own. Right if: however the rows were handed down they
are the window of the ancestry, and a generation is refused for a cause.

*Rules, scoring and tree search.* State: the board, the positions met, the passes;
the tree a player keeps between moves, and a search that is suspended at every
evaluation. Right if: no group is without liberties, no position comes twice, the
score is the area or, by the territory rules, what an owner's stones surround, the tree is of the game that is played, its numbers add up, and
games end.

*Play service.* State: a bounded cache of models, the loads in flight, a capacity
for searches and a lock for games; beneath it the run storage changes. Right if: a
model is loaded once, belongs to the checkpoint that was asked for, and no error
keeps capacity or is another checkpoint's.

*Orchestrator V1.* State: transactions, results, catalog, state and manifest of a
lineage, a lock file, a stop request; drivers that are processes of their own.
Operations: `create`, `prepare_resume`, `run`, `request_soft_stop`. Its command line
now refuses to run (`reject_legacy_v1_entrypoint`, `version.py:29`), but the library
is kept under test and wrote the lineages that V2 takes over. Right if: one session
works at a time, the next one finishes the commit it finds, an Arena that is due comes
before more training, and every session ends.

*Training lines.* State: the committed checkpoints; in memory the model, Adam, the
replay, counters and the parent's identity, which a snapshot must bring back when
something fails before the marker; the files of the generation under way. Operations:
`run_iteration`, the adapters for Cube and Torus9, the five-channel `run_generation`,
`publish_cube_m0`. Right if: every committed checkpoint is the child of the one before
it that a run without trouble would have made, a state that may be trained is the
committed one, and one M0 at most is published.

*Run storage.* State: the directories of the lineages, active or archived, each with
a manifest that gives the hash of its checkpoint and the lineages it refers to, and a
runtime state; records of discards. Operations: create, resolve, archive, discard, and
the tools run by hand: migrate, split, refresh the manifests, replace equal checkpoints
by links. None takes a lock. Right if: no operation, and no crash within one, loses
bytes that a manifest, a link or an evaluation still names.

*Metadata backfill.* State: config, provenance and node files of a fixed scope of V1
checkpoints. The tool plans everything before it writes anything. Right if: a node is
published after what it refers to, everything is of one commit, and nothing is guessed.

*Not modelled.* Networks, tensors, reports, diagnostics, and contracts that are only parsed and compared have
no states a model checker could add to. Every component, with its sources and the
reason, is listed in `PROJECT.json` under `components`.

### How they interact

A workflow step calls its handler; a training handler calls continuous training,
which asks for one generation after the other; `ProductionTrainOne` looks for the
completion marker, and else has a supervisor run one child. The supervisor's
exception, or its stop file named in the text of the exception, comes back up to
the workflow. All of them publish notifications. The models are joined by what
they assume of one another:

- `GenerationCommit` assumes of supervision that one worker lives at a time,
  that attempts are counted durably within the policy, and that giving up leaves
  a stop. `Supervisor` shows attempts and stops in every run, and one worker when
  the coordinator does not crash between starting a child and recording it. In
  that window it is false (`supervisor_orphan`); two workers of one generation
  are not modelled in `GenerationCommit`.
- `ArenaEvaluation`, `ContinuousTraining` and `PerformanceTuning` reduce
  supervision to its three records, or to a child, a commit and a durable stop:
  one child at a time, attempts counted durably, a stop after giving up. They
  share the premise above.
- `Experiment` and `KomiCalibration` assume of a lineage that a committed
  generation is reused (`GenerationCommit`) and of an Arena that a stored
  evaluation is reused (`ArenaEvaluation`). `KomiCalibration` is composed with
  `ContinuousTraining`: the parent lineage takes its own steps beside it.
- `ReplayWindow` assumes what `GenerationCommit` shows: committed artifacts do not
  change. `TreeSearch` extends `GoRules`, and plays the games of both engines.
- `TrainingTransaction` is what `GenerationCommit` treats as one child: what the
  trained state is made of, over generations and retries in one process. That files of
  a lost generation are reconciled before the next child is what `GenerationCommit` shows.
- `PlayService` resolves checkpoints in the storage that `RunStorage` describes; it sees
  of it that a checkpoint is published, moved, removed and made anew. `ReplayWindow`
  starts from the nodes that `MetadataBackfill` publishes.
- `OperatorJob` has of the workflow what concerns its controller: lock, lease and
  the check of the permit. That the lock excludes a second coordinator is what
  `Workflow` assumes.
- `Workflow` assumes of its actions that they return or raise. What they may
  raise, and the stop they may leave behind, is what the supervisor does.

## 2. The models

Each model takes one step between two durable effects of the code, so that a
crash may hit between any two. Data is abstracted to identities: a file is the
launch or attempt that wrote it.

### Supervisor

`intent`, `active` and `stop` are the three record files (an absent one has
attempt 0). `st`, `code`, `kids`, `mine` are the operating system: the leader that
holds each pid (booting, working, stuck, frozen, a zombie, gone, or a stranger
that got the number), its exit code, descendants in its group, and whether it is a
child of the running coordinator. `pc`, `att`, `pid`, `own`, `outcome` are the
coordinator's memory. `plan` is `Plan`/`Match`/`Halt` (two actions, since it
probes the group twice), `_start` is `WriteIntent`/`Spawn`/`Publish` with the
branches in which each fails, `_monitor` is `SeeExit`/`SeeGone`/`SeeStale`/`Sweep`,
the rest of `_run_once` is `Fail`/`Retire`/`GiveUp`/`Retry`/`StopSurvivor`, and the
three recovery operations are the actions of their names. `Boot` is the child's
permit check: an orphan whose parent died refuses to work. Malformed records are
left out, because the program never writes one.

### Notifications and AmbiguousDelivery

Each process has a main thread, a worker and one sender per HTTP request
(`sends`). A drain takes the lock, reads a snapshot (`todo`), reserves an event by
making it `UNCERTAIN`, starts the request and waits; a deadline may pass at any
time, which releases the lock while the request flies on. Senders save their
outcome without the lock. `Arrive` and `Refused` are Telegram's side. Writes may
fail and delivery files may be corrupt (`DiskFaults`). The migration of the old
outbox is `Import` and its receipt step.

`AmbiguousDelivery` says what such a channel promises: a message is claimed
before it is told, told at most once, and a claim is given back only if the
message was certainly not told.

### GenerationCommit and GenerationLog

The artifacts and pieces of evidence of each generation are variables holding the
identities they were computed from. The worker's steps (`pc`) are: discard, prune
and unlink (cube recovery), collect, publish (six files, one rename each), the
four pieces of evidence, the fence (completion marker), finish; `Raise` is an
exception at any of them, with the cleanup the code does, `Die` a kill. The
coordinator (`call`) checks for the marker, reuses, supervises, monitors and
validates. `Valid` and `Trusted` are what `validate_generation_commit` compares.
The cube path and the five-channel torus9 path differ in recovery, in what they
may overwrite, and in which content is reproducible.

`GenerationLog` is an append-only log of commits with a cursor for the caller.

An interrupt of a coordinator that then goes on in the same process is left out:
it leaves the same records as a crash.

### Workflow

`plan` is the scenario (dependencies, actions, policies, and which steps have a
reference that names no field); `state`, `status`, `attempts`, `outputs` are
`state.json`; `halted` is the stop each action's supervisor left; `at`, `cur`,
`progressed` are the coordinator inside `run`. An output is the attempt that
produced it. `Begin` is the durable start of an attempt, `Succeed` its durable
end, `Technical`, `Invalid` and `MeetStop` are the exceptions by what the code
does about them, `SucceedUnsaved` and `StopUnsaved` the writes that fail inside
the `try`, and `Crash` everything that ends the process. The controller lease
(`controller.json` and its heartbeat thread) is in `OperatorJob`: the lock, not the
lease, excludes a second coordinator.

### ArenaEvaluation

`disk` is the output directory (`result` is the attempt the result file comes
from), `mem` the coordinator, `env` the child and what was reported. `Call`,
`Reclaim`, `Load`, `Clear`, `Identify` are `run` up to its supervised part;
`Supervise`, `Launch`, `SeeGone`, `Succeeded`, `Retire` are the supervisor with
this caller's completion check; `ChildClear`, `ChildPlay`, `ChildPublish`,
`ChildMark`, `ChildExit` the child. Both may die anywhere. Because the directory
is named by the identity, a stored identity never differs from the wanted one.

### ContinuousTraining

`disk` is `state.json`, the soft-stop request, the commits and the supervisor's
stop. `Boundary` is one turn of the loop up to the decision; `RunArena` is
`_run_arena` with `_record_arena`; `Train`, `TrainReturns`, `TrainFails`,
`Relaunch` are `train_one`; `Record` the commit of the generation to the state,
with the sweep's observation and selection. `ChildCommits` belongs to the child,
which goes on without its coordinator. `Signal` and `RequestStop` are the two ways
a stop is asked for. `Falls` is `_handle_sweep_failure`. `ChildLost` and `Relaunch`
are the supervisor's retry of a child that left nothing.

### KomiCalibration

`calib` is the calibration's state and process; `calib.world` fixes what the games
will say, so that the properties can speak of the right winner. `ObtainParent`,
`StopParent`, `Await`, `Pin` lead to the pinned parent; `Begin`, `Play`, `Publish`
are one batch, `Choose` selects or extends, `Handoff` and `ChildReturns` end it.

### PerformanceTuning

`disk` is the state all commands share, `lineage` the owner with its committed
generations, stop and lock, `command` each process. A command loads the state
before it takes the lock, as the code does. `Trains`, `TrainFails` and `Stopped`
are `train_one` by outcome, `AfterFailure` the fallback to the baseline.

### Experiment

`disk` is the state file, `world` the arms' lineages and the stored evaluations,
`mem` the runner. `Migrated` is the state of version 2 made into one of version 3.
`Open`, `TrainOne`, `FinishArm` train the arms, `RunArena` and `Record` play and keep
an evaluation, `Judge` decides or compares with what was decided, `Advance` goes to
the next stage.

### SelfPlayEngine

`Take`, `Step`, `Resume`, `Exit` are the loop of a worker that steps several games
and sends one request for all that wait; `Ingress`, `TakeBatch`, `Dispatch` the
broker's thread; `Collect`, `SeeFatal`, `SeeFailure`, `SeeDead`, `Join` the parent.
A slot holds the position written to it, so a wrong route shows.

### ArenaEngine

`Ready`, `StartLane`, `PollLane`, `Leave`, `Exit` are a worker; `Ingress` sorts what
workers send, `TakeBatch` and `Answer` serve one model; `Start`, `HandleControl`,
`SeeDead`, `Summarize` and the failures are the parent. Two evaluators share the
slots of a lane, as in the code.

### Adaptation

`disk` is `state.json` with the decision and the report, `mem` the phase that runs,
`env` crashes, the stop that was checked and what was decided. A checkpoint is the
number of saves it was trained for. `LaunchNext` and `LaunchSame` are the workflow's
calls, `Consume`, `Stale` and `Archive` what a phase does with a decision; `Train`
(one save at a time), `Validate`, `Evaluate`, `Finish` are a stage. `StopCheck` and
`StopWrite` are the two halves of `write_decision`, between which the report may
change; `Recover` and `Retry` the operator's repairs. The first stage, which
collects games before any phase, and a stage run for its evaluation only are left
out.

### OperatorJob

`disk` is the registration and the lease, `launch` each launching process, `world`
the controllers, the two locks, the worktrees, the developer's checkout. `Start`
compiles, `RequireCommitted`, `Lock`, `Compare`, `Ensure` and the four writes
register, `Spawn` and `AwaitReady` hand over; `Boot`, `SendReady`, `Acquire`,
`PutLease`, `Heartbeat`, `DropLease`, `Unlock`, `Exit` are the controller. A plan is
the file it was asked with and the code that compiled it. `GitAdds` is `git worktree
add`, which may outlive the launch that started it. Telegram is assumed configured;
the other commands (drain, summary, audit) are left out.

### ReplayWindow

`graph` is a sequence of committed nodes with their fresh sizes, rolling rows and
the parts these are composed of; `run` the generation that is trained; `path` the
torus9 or cube code. `Trim` is what `append_generation` keeps, `Window` the
reference definition: the last rows, up to the cap, of the last generations of the
ancestry. Nodes of orchestrator V1 come from the backfill tool and have no
completion marker. A V2 torus9 lineage cannot start from a genesis in this code
(see section 5), so its graphs start with nodes of V1.

### GoRules and TreeSearch

`GoRules` is written for any graph. `Probe` looks for captures beside the new stone
only, as the code does; `LegalPoint` forbids suicide and repetition; `Count` floods
empty regions. `TreeSearch` names a node by the actions that lead to it.
`PrepareRoot` and `Advance` are what keeps a tree across moves, `Traverse`,
`Resume` and `Backup` a simulation that is suspended at its evaluation, `Move` and
`OpponentMoves` the game. The formula that ranks edges is left out: a traversal
takes any edge, and an evaluation is worth 1 or -1.

### TerritoryRules

The rules of `katago_v3.py`, which the tests compare with KataGo itself, for any graph.
A state keeps the board, both players' passed positions, the positions since the last
pass with their counts, and the stones that may not be retaken. `Placed`, `Passed` and
`Unblocked` are the three kinds of `apply_v3_action`, each with the cycle check behind it;
`PassAliveGroups` is Benson's loop round by round; `BasicArea`, `InSeki` and `Life` are
`independent_life_analysis`, `Area` and `Owned` the two passes of `final_v3_score`.
`BonusIsOfBoard` relates the bonus kept by increments to the one a setup begins with,
`KoIsTold` the ko the observation shows to the ko the rules forbid, `PassAliveLives` the
loop to its greatest fixed point and to every move of the opponent.

### PlayService

`store` is where each published checkpoint lies and its content, `req` one thread
for each request, `svc` the cache, its flights and the capacity. `Ask`, `Admit`,
`Describe` are the way to the cache; `Hit`, `Miss`, `ReadArtifact`, `Insert`,
`LoadFails` and `Wake` are `get_or_load`; `Play` and `SearchFails` the rest.
`Archive`, `Discard` and `Remake` change the storage beneath.

### LineageOrchestrator

`disk` is the lineage directory, `mem` the sessions, `env` the drivers, the policy a
command may have installed and what happened. `CreateLock`, `InspectLock`,
`UnlinkStale`, `WriteLock` and `Unlock` are `RunLock`, one action for each system call;
`RecoverCatalog`, `RecoverState`, `RecoverManifest` are `_recover_interrupted_commit`;
`Open` and `Reopen` are `run` up to its loop and `prepare_resume`; `Loop` to `Close` the
loop; `Begin` to `Check` a generation, whose commit is `Validate`, `CommitTx`,
`Register`, `CommitState`, `CommitManifest`; the rest is the Arena and the operator.
`advisory` says that `install_operator_policy` replaced the methods it replaces. A
version stands for the bytes of an artifact. `orphaned` and `raced` remember that a
driver outlived its session and that a lock file was removed which was not the one
inspected; the properties that fail then say so.

### TrainingTransaction

`disk` is the chain of committed checkpoints with the files of the generation under
way, `mem` the process: its state, the snapshot and where it is in the transaction;
`env` the adapter (`kind`), the windows the generations will ask for and the faults.
`Begin` to `After` are `run_iteration`; `Raise` is its `except`, `AfterFails` what
raises behind the marker, `Die` a lost process. Weights are the history of optimizer
steps: for each the rows it drew from and the seeds of the draw, so a lost counter, a
row too many or a step done twice makes a different checkpoint. `Child` is the
reference definition: what one undisturbed generation makes of a checkpoint.
`Stage`, `Look` and `Rename` are `publish_cube_m0`, by two callers.

### RunStorage

`disk.dir` is a directory for each namespace and lineage: its manifest (`status`,
`hash`, `refs`), its one checkpoint (`file`, or `link` with the content `of` what it
replaced, and what a deduplication has put `aside`), its runtime state. `Create` and
`Publish`, `Archive` to `Seal`, `Discard` to `RemoveTree` are the lifecycle; `Refresh`,
`Migrate`, `Split`, `ArchiveLegacy` and `Deduplicate` begin the tools, whose steps
follow them. The removal of a tree has no order, so a kill leaves the manifest or the
checkpoint. `env.met` says that an operation began while another was under way.

### MetadataBackfill

`env.facts` is what V1 has kept of each checkpoint, `env.head` the commit of the
repository. `Run` plans and compares (all or nothing), `Publish` writes one file, the
node of a checkpoint last. A provenance is the commit it names.

### MCSystem

A behaviour of `MCSystem` is one of its components: `part` names it, and
`disk`, `mem`, `env`, `aux`, `kind` are its state. Each module is instantiated with
its own constants, each property speaks of its part, and each part's fairness is
the one of its module. Nothing is shared between parts; where two components
interact, one module composes them (`KomiCalibration` with its parent lineage).

## 3. What TLC checks

| run | instance | properties |
|---|---|---|
| `supervisor_safety` | 6 pids, 1 retry, survivors of SIGKILL, 1 crash, 1 acknowledgement | `TypeOK`, `RecordsAgree`, `LaunchBudget`, `SuccessIsDone`, `StopHolds`, `WorkerStaysRecorded` |
| `supervisor_live` | 3 pids, 1 retry, pid reuse, 1 acknowledgement, no crash | `OneWorker`, `CallReturns` |
| `supervisor_orphan` | a crash | violation of `OneWorker` |
| `notifications_safety` | 1 event, 3 processes (2 with credentials), disk faults, 1 refusal, 1 crash | `TypeOK`, `AtMostOnce`, `RetryIsSafe`, `ReceiptIsTrue`, `ImplementsDelivery` |
| `notifications_live` | 1 event, 2 processes, 1 refusal | `Settles` |
| `notifications_import` | 1 new event and 1 migrated with its receipt, 1 process, 1 crash | `Settles` |
| `generation_safety` | 3 generations, cube with one retry and torus9 without, 3 faults | `TypeOK`, `CommittedStaysValid`, `CleanAttemptCommits`, `ImplementsLog`, `Finishes` |
| `generation_restart` | torus9, no retry, 1 fault | violation of `RestartCommits` |
| `workflow` | 24 workflows of 3 steps, 3 faults | `TypeOK`, `InputsAreFinal`, `VerdictIsSound`, `NeverRepeated`, `Settles` |
| `workflow_stop` | the same, 1 fault | violation of `StopBlocks` |
| `system`, lineage | target 4, an Arena at every second generation, 2 modes beside the baseline after generation 1, 2 faults, 1 stop | `LineageIsSound` |
| `system`, arena | 2 attempts, 3 faults | `EvidenceIsPlayed`, `ClearsOnlyDeadOutput` |
| `system`, komi | 2 candidates, 2 batches, parent of 2 generations pinned at 1, 1 failure | `CalibrationIsSound` |
| `system`, tuning | 2 modes beside the baseline, 3 actions, 2 commands, 2 faults | `MeasuresItsOwn` |
| `system`, trial | one stage, two stages, offline, migrated; 2 generations an arm, 2 faults, 3 launches | `DecisionsAreSound` |
| `system`, selfplay | 4 games, 2 workers with 2 and 1 contexts, batches of 2, 1 evaluation a game, 1 fault | `SelfPlayIsSound` |
| `system`, match | 3 games of 2 moves, 2 workers with a lane each, batches of 2, 1 fault | `ValidIsClean` |
| `system`, adaptation | 2 stages that end after 1 and 3 blocks of 2 saves, the pin at 2, 2 crashes | `AdaptationIsSound` |
| `system`, rules | all games on a path of 3 points | `GamesAreSound` |
| `system`, territory | all games on a path of 2 points; on a path of 3 to the first pass; 4 moves from 7 positions on a ring of 5 | `GamesAreSound` |
| `system`, search | all games on a path of 2 points, 2 simulations a move, cut off after 3 moves | `GamesAreSound` |
| `system`, replay | 5 nodes, 2 of them of V1, 2 lineages, 1 or 3 rows each; windows of 2 generations, and of 3 with a cap of 3 rows | `ReplayIsSound` |
| `system`, job | 2 launches, 2 parameter files, 2 faults, 1 commit by the developer | `JobIsSound` |
| `system`, service | 2 requests, 2 checkpoints, a cache of 1, 1 move at a time, 2 changes | `ServingIsSound` |
| `system`, V1 | 2 generations, an Arena after each, with the policy and without, 2 sessions and perhaps the lock of a dead one, 1 restart, 2 faults, 1 stop | `LineageIsSound` |
| `system`, training | 3 generations of 2 steps, windows that stay, shrink and grow, 3 faults, 3 adapters; 2 publishers of M0 | `LineageIsSound` |
| `system`, storage | 2 lineages with equal checkpoints, one perhaps not migrated, 2 contents, 3 operations, 1 of them killed or begun beside another | `LineageIsSound` |
| `system`, backfill | 3 generations, 2 configs, 3 kills or commits, at most one checkpoint with something lost | `LineageIsSound` |
| `system`, every part | | `TypeOK`, `ComesToAnEnd` |
| `tuning_baseline` | the tuning of `system` by itself | violation of `BaselineIsTried` |

### Why the bounds are enough

*Supervisor.* Six pids allow every launch that one retry, one crash and one
acknowledged stop permit (`MaxAttempts * (acks + 1) + crashes` = 5), with one to
spare, so the pid bound never cuts a retry short. One crash reaches every window
between two effects; a second crash finds records of a shape the first already
produced, and the proofs cover any number.

*Notifications.* Two configured processes and one unconfigured one contend for
one event; safety is a matter of one event at a time (its delivery file, its
requests), and the proofs cover any number of events and processes. Liveness
needs a second event only to see a worker that ends while something arrives,
which is the migration run.

*Generation.* Three generations let a marker be followed by two more. Three
faults: one ends an attempt, one its recovery, one the coordinator. Twelve
launches are more than three faults can cause.

*Workflow.* Three steps in five shapes (chain, two dependencies, fork, a step that
depends on a later one, none) with the combinations of actions that differ in
control: retry then decision then retry; continue with a required step behind it;
a stop between two actions; a stop first. A decided workflow stops, hence no
deadlock check; the same holds for a supervisor whose budget is spent or whose
pids are used up and for a finished lineage.

*System.* A lineage of four generations with a sweep that starts after the first
has every mode tried and one generation played with the selected one; Arenas fall
on a generation inside the sweep and on the last. Two faults are a failure and a
crash around it. An evaluation with two attempts and three faults can lose both
attempts and the coordinator. Two tuning commands contend for the lock; two modes
give a failure, a fallback and a mode after it. The third game of three in a match
is taken from the shared queue; four games on three contexts leave one to be handed
out. Two moves let both models answer on one lane. Two stages have a decision that
belongs to the first when the second is reviewed, and the pin lies inside the
second. On a path of three points there are captures, snapbacks of the board that
superko forbids, and games that go on after a pass; the search needs fewer points,
because its tree is compared with the game and not with the board. Territory games on two
points all end within 19 moves; the path of three is the least with a cycle (13 moves
without a pass), the ring of five with a ko that can be retaken, and with two groups that
live on each other's eyes. Five nodes are
three generations after the two of V1, so a row falls out of the window and out of
the cap, also after a change of either (six nodes pass too). Two launches overlap in
all ways; three launches with one fault pass too. Two requests on a cache of one
model share a flight, evict and find each other busy; three requests with one change
pass too. Two sessions of V1 contend for the lock a dead one left, and the second
recovers what the first leaves; a fault is spent on the death and one is left for what
follows. Sessions overlap only while they take the lock, and a state in which two hold it
is the last of its behaviour: what two sessions do to one lineage is not followed.
Three generations let a row fall out of the window, a window shrink and grow again, and
a generation follow one that failed twice; the third fault falls behind the marker.
Two lineages are the owner of a checkpoint and one that links to it; three operations
deduplicate, refresh or archive, and then discard. Three generations of a backfill share
a config or have their own, and three faults kill, move on and kill again.

### Fairness

- `Supervisor`: the coordinator's loop keeps running once called (weak fairness of
  its steps: it is one thread that polls); a dying group disappears; a child that
  is able to work again and again finishes (strong fairness, since it may freeze
  in between). Nothing is assumed of crashes, hangs or reuse. A child that beats
  without progress is assumed to be detected only because
  `progress_timeout_seconds` is configured in that run; by default it is not, and
  the call then waits without end.
- `Notifications`: threads keep running, a request in flight has some outcome, time
  passes (a retry becomes due), and a process that ended is started again. A worker
  that polls for the lock finds it free some day, and a drain does not meet its
  deadline before its first attempt every time (strong fairness); both are races
  with other processes that no code excludes but that no schedule loses for ever.
- `GenerationCommit`: worker and coordinator keep running and the caller asks
  again, as the continuous-training loop does; the operator acknowledges a stop
  that is met again and again (strong fairness).
- The parts of `MCSystem`: coordinators, children, workers, brokers and parents that
  can take a step do (weak fairness of each process), and a command that ended
  without finishing is launched again, because its operator does so. Nothing is
  assumed of acknowledgements: `ComesToAnEnd` lets a lineage or an evaluation rest
  behind a durable stop. Sessions of V1 are launched as often as the bound allows; a
  driver that hangs while its heartbeat stays fresh is not modelled.
  A training goes on, and a process whose state is refused ends and is
  replaced; that a failed caller gives up is allowed and not assumed.
  Of the replay and the storage no fairness is assumed, for they wait for nothing.
  The backfill is run again at whatever commit is checked out.
- `Workflow`: actions return and the operator runs an undecided workflow again.

## 4. What is proved

All theorems hold for every value of the constants (any policy, any number of
processes, events, generations, steps and faults), under the assumptions named in
each module (`SupervisorAssumption` and so on), which say of what type the
constants are.

*SupervisorProofs.* `TypeCorrect`, `RecordsAlwaysAgree`, `LaunchesAreBounded`,
`AttemptsAreBounded`, `SuccessfulRunsAreDone`, `StopsHold`, `OneWorkerAtATime`,
`WorkersStayRecorded`. The bound on launches
is not inductive: it must be known how far the records and the memory at each
control point are ahead of the launches counted, so the invariant relates
`launches` to `intent`, `active`, `stop` and `att` at every value of `pc`. That a
call may only be past planning when no stop is recorded gives `StopsHold`. The last
two follow a child from its start to its end: at every value of `pc` it is known
whether the pid in memory is that of the recorded child (`PidInv`), that whoever is
declared dead is dead (`DeadInv`), and that a worker is either recorded or about to
be, so that nobody starts a second (`SoleInv`). Their hypotheses are those of the
properties: no coordinator has crashed, since the crash between start and record
breaks them (see below), and no group survives SIGKILL.

*NotificationProofs.* `TypeCorrect`, `NeverTwice`, `RetriesAreSafe`,
`ReceiptsAreTrue` and `Refinement` (the dispatchers implement
`AmbiguousDelivery`), under the extra assumption that no legacy receipts are
imported (`Receipts = {}`). The invariant says who is responsible for an event: a
sendable event has no live request and was not told, an uncertain one has at most
one live request, and a drain's snapshot is protected by the lock. The lock is
essential to the second: an expired drain leaves its request behind, and only the
reservation keeps the next drain away.

*GenerationProofs.* `TypeCorrect`, `CommitsAreFinal`, `CleanAttemptsCommit` and
`LineageIsLog`: the commit protocol, with its crashes, retries and recovery,
implements the append-only log of `GenerationLog`. The
invariant (`Phases`) lists, for every step of the worker, what it has already written
with its own identity; at the fence this is everything the marker vouches for, and no
earlier step is taken in a committed generation. `Started` and `InOrder` say that
generations are begun one after the other and that a generation under way is the
first without a marker, which is what makes a commit an append; `Swept`, that an attempt
which was never disturbed finds nothing foreign in its way. `CommitsAreFinal` holds of
the cube path, and of torus9 without retries (`Careful`): a torus9 attempt that
is run again overwrites what is committed (see below), so this hypothesis cannot be
dropped.

*WorkflowProofs.* `Invariance` and from it `TypeCorrect`, `InputsStand`,
`RetriesAreBounded`, `VerdictsAreSound`, `CompletedIsFinal`. The invariant hangs on
where the coordinator stands: while it acts for a step the record says `RUNNING`,
so no dependent of the step can have started; a failed step is recorded in the
same write as the verdict; and a step that may begin still has an attempt left.
Acyclicity is not needed for these, only for `Settles`.

*ContinuousTrainingProofs.* `TypeCorrect`, `ArenasAlwaysKeepUp`, `StopsArePrompt`,
`SelectionsAreSound`. The invariant has four parts: `Positions` (how far the commits
may be ahead of the recorded generation at each point of the loop), `Recorded` (an
Arena that is due before the recorded generation was played), `Prompt` (at most one
generation overtakes a request, which is then still there at the next boundary) and
`Evidence` (what the sweep has seen lies behind it, and the baseline is never among the
failed modes).

`KomiIsCumulative` is proved beside it, of `KomiCalibration` and the parent lineage
together, for any number of crashes and failures and whichever generation is pinned.
`KomiPlaces` says where the loop over the candidates may be at each point of the
calibration, `KomiPlayed` that every batch it has behind it is on the ledger: after a
crash the loop begins again, and what it passes over it passes because the record of
the candidate holds the batch.

`MatchesAreTyped` and `ValidMatchesAreClean` are of `ArenaEngine`, for any number of games,
workers, lanes, moves and faults, and the second of the summaries that count search
errors. `Divided`: a game is with everyone, or with one worker, where it is queued, on one
lane or recorded, and never twice; so none is lost. `CleanIsOwn` is the heart of it: a
worker without a search error on record has, of each of its lanes, one request under way
at most, for the position the lane is at, and consumed no evaluation of another one. A
request that is given up may come back into a slot that another game uses; but giving it
up is a search error, so the worker is not clean any more, and all that is claimed of it is
that its record says so. `ReportsAreTrue`: a report is the whole record of a worker that has
nothing left to play, and there is one of each. `Collected`: the parent has exactly
these records, no game twice. `Verdicts`: it decides when all have reported, and `VALID`
only without a search error. Together these leave one result of each game.

*OperatorProofs.* `MeasurementsAreSound` of `PerformanceTuning`. `Progress` ties the
index of a state, the generation it is at and the fallback that is to be resumed; `Sound` says that a stable
observation names the mode its generation was committed with. Both are kept of the
state on disk and of the copy in every command's memory: a copy loaded before the lock
may be old, but it stays sound, because a committed generation never changes its mode.

`JobsRunWhatIsRegistered` is of `OperatorJob`, for any number of launches and faults. Each
launch has four things to be known. `JobRegisteredAt`: what it found or wrote
under the registration lock is what is registered, at each of its steps.
`JobControlledAt`: a controller exists for a launch that got as far as to start it, and
has the registered plan and commit. `JobOwnedAt`: the lock of the workflow and the lease name
the controller that is in it. `JobFaultlessAt`, with `JobTrees`: as long as nothing
broke, the worktree a launch is to use is there, and a controller that went away left
the job to another. That all this holds of the launches that did not move
is one lemma for every step (`JobActor`): the registration is written only by the
launch that holds its lock.

`EvaluationsStayOwn`, `GamesAreNeverMixedUp` and `SelfPlayIsTyped` are of
`SelfPlayEngine`, for any number of games, workers, contexts, evaluations and failures and
every cap that holds the contexts of a worker. `EngOneRequest`: a worker has one request
under way at most, which is in the first queue, in the broker's queue, in the batch or
answered. `EngOwnRequest`: that request has the id and the slots of the worker that
waits for it, its staged rows and its answer are those of the slots the worker
wrote, and the slots still are of the games they were written for. `EngPlacedOnce`: a game
is pending, queued, played, told or collected, and never twice. `EngNoneLost`: it is
one of these while no worker was killed. `EngEndsForCause`: nobody is told to
stop before the last record, and what looks like trouble has a fault behind it. The
first of these needs that a worker writes its slots and asks in one step and then
waits; were the next request possible before the answer, the id would not be
enough. That the first tasks are spread over the workers without gap or overlap is
proved too (`EngFirstGames`), by division with remainder and a least worker.

*ComponentProofs.* Five components, each taken as an instance, with its
assumptions about the constants as hypotheses of its theorems.

- *ArenaEvaluation*: `EvaluationsArePlayed` and `OnlyDeadOutputIsCleared`. `ArenaAttempts`
  says which attempt every process and record is of, `ArenaPlayed` that each file of the
  output was written behind the games it reports, `ArenaDead` that at every point of the
  coordinator from which output may be cleared no child lives.
- *Adaptation*: `AdaptationsAreTyped`, `AdaptationsAreReviewed`. `AdaptPlaces` relates where
  the workflow stands in memory to its durable status, `AdaptDecisions` says which
  decision is the answer to which report, `AdaptValidations` that a validation is of the
  checkpoint it stands beside.
- *Experiment*: `ExperimentsAreDecidedSoundly`, for online, offline and migrated legacy
  experiments. `ExpPlaces`, `ExpOnline` and `ExpOffline` say what is known at each point of
  a launch, `ExpTraining` that no arm is recorded to be further than it was trained,
  `ExpEvidence` that the result that is kept is that of the stored evaluation.
- *PlayService*: `ServingIsAlwaysSound`, for any number of requests, checkpoints and places.
  `ServFlights` pairs each load in flight with one request that owns it, `ServEntries`
  says that what is cached is not in flight, `ServModels` that a content in the storage, the
  cache, a flight or a request is genuine, `ServCauses` that whoever is to fail has met a
  checkpoint in trouble, `ServCapacity` counts the places held. What the cache does to
  its sequence (`ServMoved`, `ServInserted`) is proved as lemmas on sequences.
- *GoRules*: `GamesAreTyped`, `GroupsAlwaysBreathe` and `HistoriesAreLive`, for every
  finite graph of points whose neighbours are mutual (`RulesAssumption`), so for every
  torus and every cube surface at once. A group is the least set that holds its point and
  is closed under neighbours of the colour. A move touches the groups next to its point
  only: a group of the opponent without another liberty is taken off as a whole, the
  group that was played into breathes or the move is refused, and of any other group no
  point was changed. That captures only add liberties to what stays is the core of the
  argument.

*SystemProofs.* Ten of the properties that the run `System` checks, as theorems of
`MCSystem!Spec`: `EvidenceIsAlwaysPlayed`, `OnlyDeadOutputIsRemoved`,
`CalibrationsAreSound`, `EachMeasuresItsOwn`, `ArmsAreJudgedSoundly`, `StagesAreReviewed`,
`JobsAreSound`, `SelfPlayRunsAreSound`, `ValidMatchesAreClean`, `ModelsAreServedSoundly`.
They are about the constants of `MCSystem`, and
follow from the lemmas above, which are about all constants: the modules of proofs are
instantiated there, definition by definition a component is the same in both (the lemmas
`...Begins` and `...Steps`), and a step moves one part only (`OnePartMoves`), so each part
keeps its invariant.

*Only model-checked.* Liveness (`CallReturns`, `Settles`, `Finishes`), because
fairness is beyond the prover; the scores of the games (`ScoreIsArea` and the territory
rules), which are folds over the points and would need induction over data;
the other components of `MCSystem`: tree search, replay, training transactions,
orchestrator V1, run storage and the metadata backfill; and the
properties of `System` that cover several components of which not all are proved
(`TypeOK`, `LineageIsSound`, `GamesAreSound`).

## 5. What the checks found

- **A crash between start and record leaves two workers** (`supervisor_orphan`).
  The child is spawned before its identity is durable. If it has passed its permit
  check when the coordinator dies, the next call starts a second one beside it.
- **The five-channel path cannot restart a half-published generation**
  (`generation_restart`). Metrics and summary hold wall times, so a second attempt
  produces other content than the provenance it meets, and the immutable-file
  check refuses it, for ever.
- **A stop step can be bypassed by a crash** (`workflow_stop`), since the step and
  the workflow are decided by two writes.

- **The baseline that replaces a failed mode is never tried** (`tuning_baseline`).
  When the supervisor gives up on a trial mode it leaves a stop in the lineage. The
  tuner's executor never asks to acknowledge it (the sweep inside continuous
  training does), so the fallback is refused before anything is launched.

Further observations. The first two have an instance that shows them; the others
are visible in the models:

- *A stranger's processes can be terminated.* A recorded child is recognised by pid
  and process group alone (`process_supervision.py:146`); after a reboot or a wrap of
  the pid counter another group leader may have the number. `MCSupervisor` with
  `MaxPid = 3`, `MaxRetries = 1`, `PidReuse = TRUE`, `MaxCrashes = 1`, `MaxAcks = 0`,
  `Survivors = FALSE` and both checks `TRUE` violates `NeverHarmsAStranger`.
- *The five-channel path overwrites a committed generation.* `run_generation` does
  not look at the marker (`torus9_five_channel_training.py:387`); an attempt that
  failed after it, or whose exit status was lost, is run again. `MCGeneration` with
  `MaxGen = 2`, `Setups <- Torus9Retries`, `MaxLaunches = 3`, `MaxFaults = 1` violates
  `CommittedStaysValid`. `generation_safety` therefore gives torus9 no retries; that
  is a restriction of the instance, not of the code.

- *Notifications.* A network error or a 5xx answer leaves an event `UNCERTAIN`,
  and nothing ever sends it again; `docs/notifications-stage1.md:74` promises
  retries. Sending again would break `AtMostOnce`, which the code comments promise.
  An event migrated with its receipt is pending until the receipt is written, so a
  drain beside the migration sends it again.
- *Supervisor.* A coordinator that crashes during the last attempt leaves records
  that refuse every start and no stop to acknowledge; acknowledging is then a
  successful no-op (`BudgetLost` in `GenerationCommit`). Reconciliation of finished
  work drops the record of a group that survived SIGKILL.
- *Workflow.* Crashes use up the retry budget of a step. A reference to a missing
  field ends every run and leaves the workflow `RUNNING`. The first time a
  supervisor gives up, the exception carries the reason of the last failure and not
  the stop file's name, so the workflow retries, skips or fails the step where a
  recognised stop would make it `STOPPED`.

- *Continuous training.* `_is_baseline_recovery` acknowledges again, on every
  relaunch, a stop the baseline itself left. A relaunch that finds a stop request
  becomes `SOFT_STOPPED` while a child that could be reattached still runs.
- *Arena evaluation.* Reclaiming the dead child of the last attempt writes an intent
  beyond the bound; a stored result is still reused by that call, but the next call
  refuses before it looks (`_arena_runner_core.py:507`).
- *Arena engine.* Cube's summary counts search errors as invalid games only, and the
  technical gate looks at technical games only (`cube_v2.py:374`): with
  `ErrorsAreTechnical = FALSE`, `ValidIsClean` is false. The Cube summary has no
  `games` entry, so the completion check never accepts a Cube result.
- *Self-play engine.* `active_games_per_worker` above `inference_batch_cap` passes
  validation and aborts the run (`EngineAssumption` excludes it). A worker killed
  while it writes to the event queue may block the parent.
- *Komi.* The stop of the parent need not be acknowledged when no request file is
  there; the handoff fails for a child lineage that had run none or several
  generations.
- *Tuning.* `choose_next` never compares with `max_actions`. The state is loaded
  before the lock is taken, so a second command may work on an old state.

- *Rolling replay.* Once the cap has dropped a whole generation, or a config asks for
  another replay policy, a torus9 lineage of V1 can never be trained again
  (`torus9_run_driver.py:1909`, `artifact_resolver.py:366`), although
  `docs/orchestrator-v2/contracts-and-legacy-audit.md:175` says that window and cap
  may change at the next generation. A V2 torus9 lineage cannot start from a genesis:
  the replay sources are resolved before the initial state is made. A cube that
  widens its window keeps only what the narrower one left.
- *Operator jobs.* READY is sent before the workflow's lock is taken, so two launches
  may both report `STARTED`; the second controller then leaves. The plan is compiled
  by the working tree and pinned to HEAD as it is later. A relaunch after a code
  update whose plan differs is refused, although
  `docs/orchestrator-v2/ORCHESTRATOR_V2_LAUNCH_GUIDE.md:260` says the same command
  resumes. A crash between pin and guide leaves the guide unwritten for ever.
  Worktrees lie in the temporary directory; one that was swept is refused by git
  ("missing but already registered"), although `immutable_runtime.py:1` says they are
  retained for restarts. A heartbeat that outlives its join of two seconds writes the
  lease again after it was removed.
- *Adaptation.* After a crash between the last save of a block and its validation the
  block counts as trained, and the report carries the validation of an earlier
  checkpoint. The handler of SIGTERM is installed by the standalone launcher only.
- *Play service.* The key of the cache is (id, device, backend), and no hash is
  compared when a cached model is served, so a checkpoint made anew under the same id
  is answered with the old model until it is evicted. A waiter gets the error of a
  load that began before it asked, and waits without a timeout.
- *Orchestrator V1.* A stale lock is inspected, then removed by name
  (`orchestrator.py:369`): of two contenders the slower removes the lock the faster has
  just taken, and both hold it. A death between creating the lock and writing it leaves a
  file that every later session refuses (`:364`). The stop is read at the top of the loop
  only, so a generation still starts after a pending Arena, although
  `production_orchestrator.py:500` says that no other unit does; the same holds for the
  stop the policy's gate asks for. Under the policy an I/O error after the transaction is
  COMMITTED makes the session retry a generation that "is already committed" for as long
  as it lives, with the lock in its hands and deaf to stops (`operator_policy.py:397`);
  `SessionsEnd` excepts this. The policy replaces `_run_child` by one that leaves no code
  provenance. A driver that outlives its session is never looked for, and may write over
  artifacts that are committed by then, which the next recovery refuses. After a crash
  in `RUNNING` the command `resume` refuses, and only `_supervise` goes on.

- *Training lines.* Torus9's `restore_state` (`torus9_training.py:1994`) ends with
  `sync_state`, which overwrites the restored counters with those of the trainer, which
  are never rolled back, while Adam was restored: after a failure in or behind the
  optimizer steps `validate_state` refuses the state ("Adam step does not match training
  clock"), although `training_engine.py:5` says that a failure before the marker leaves
  the previous state usable. Every caller ends with the error, so a new process
  loads the checkpoint. An error behind the marker leaves the old parent in the state; of
  a Cube the next request is refused for it.
- *Run storage.* Nothing excludes two operations: an evaluation that resolves a
  checkpoint while its lineage is discarded, behind the scan for references
  (`run_lifecycle.py:116`), is left without it. `StorageIsSound` excepts overlaps
  (`env.met`). A deduplication killed before it writes the manifests leaves links that
  nothing names; after a refresh the hash is gone as well, and the lineage that holds
  the bytes can be discarded. `create_lineage` looks at the active namespace only, so an
  archived lineage may get a namesake, and neither can be resolved from then on.
  `ensure_lineage_layout` returns an existing directory whatever its manifest says of
  its spec, although `create_lineage` is to create a new one.
- *Metadata backfill.* The provenance holds the commit the tool ran at. A run that was
  killed must be finished at that commit; at any other its own files are a conflict
  (`orchestrator_v2_backfill_nodes.py:559`), and nothing more is written.
- *Torus9 driver.* The liveness process reads and writes the heartbeat file beside the
  driver (`torus9_run_driver.py`, `_Heartbeat.write`), so newer progress may be
  replaced by older.

## 6. What is left out of the modelled components

Parsing and validation of files, permits' signatures, wording of messages,
telemetry, wall-clock times. Files replaced by rename are atomic and durable in
order, which is what `atomic_write_json` establishes. Records the program never
writes are not initial states. The torus9 monolithic driver and offline replay
inputs are not in `GenerationCommit`; the rule by which a selection chooses its
winner is not in `Workflow`.

In the modules of `MCSystem`: metrics are reduced to stable or not and to an order of
modes; what a game computes, what a network answers, telemetry and memory gates,
statistics and stop rules of a match, the older queue path of the self-play engine
(`_worker_main`), reports and notifications are left out.

Search formulas, noise and temperatures are left out of `TreeSearch`, the V1 driver
(`_prepare_state`, `_reference_sources`) of `ReplayWindow`, the validation of fields and
the mapping of coordinates of `PlayService`, the status, report and creation of a lineage
(one step) of `LineageOrchestrator`, whose lifecycle (archive, discard) takes no lock.

## 7. Plan

The invariants of `LineageOrchestrator`, `TrainingTransaction`, `RunStorage` and
`MetadataBackfill`, which `MCSystem` checks, as theorems for any number of calls and
faults, and that a window handed down through rolling artifacts is that of the
ancestry (`ReplayWindow`).
