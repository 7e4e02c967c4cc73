----------------------------- MODULE SystemProofs -----------------------------
(***************************************************************************)
(* What MCSystem checks of nine of its parts, as theorems of its own       *)
(* specification.  Each part keeps the invariant that its module of proofs *)
(* shows for every value of the constants, and no step of another part     *)
(* touches what it has.                                                    *)
(***************************************************************************)
EXTENDS MCSystem, TLAPS

\* The modules of proofs at the constants of MCSystem.
Parts == INSTANCE ComponentProofs WITH
  MaxAttempts <- 2, ArenaFaults <- 3, MaxFaults <- 2, LastStage <- 2, Saves <- 2,
  Ends <- <<2, 6>>, PinAt <- 2, Kinds <- {"single", "double", "offline", "legacy"}, Gens <- 2,
  MaxCalls <- 3, Ids <- {"a", "b"}, NumRequests <- 2, MaxEntries <- 1, MoveConcurrency <- 1,
  MaxChanges <- 2, Points <- 1..3, Neighbors <- Path(3), PASS <- 0, KomiHalves <- 1,
  world <- env, count <- aux, store <- disk, req <- mem, svc <- env, game <- disk

Launched == INSTANCE OperatorProofs WITH
  NumModes <- 2, MaxActions <- 3, NumCommands <- 2, MaxFaults <- 2, Asks <- {"a", "b"},
  NumLaunches <- 2, lineage <- env, command <- mem, faults <- aux, launch <- mem, world <- env,
  NumGames <- 4, NumWorkers <- 2, Contexts <- 2, Total <- 3, BatchCap <- 2, Evals <- 1,
  EngineFaults <- 1, parent <- disk, worker <- mem, broker <- env

Trained == INSTANCE ContinuousTrainingProofs WITH
  Target <- 2, Cadence <- 2, Sweep <- 0, StartAfter <- 0, MaxFaults <- 0, MaxStops <- 0,
  PinAt <- 1, MaxTroubles <- 1, calib <- aux,
  NumGames <- 3, NumWorkers <- 2, Lanes <- 1, BatchCap <- 2, Moves <- 2, MatchFaults <- 1,
  ErrorsAreTechnical <- TRUE, parent <- disk, worker <- mem, broker <- env

-----------------------------------------------------------------------------
(* One part moves at a time.                                               *)

\* What a step does to each of the parts: it is its own step, or it leaves it alone.
LEMMA OnePartMoves ==
  ASSUME [Next]_vars
  PROVE  /\ part' = part
         /\ part = "arena" => [Arena!Next]_<<disk, mem, env>>
         /\ part = "adaptation" => [Adapt!AdaptationNext]_<<disk, mem, env>>
         /\ part = "trial" => [Trial!ExperimentNext]_<<kind, disk, env, mem, aux>>
         /\ part = "service" => [Service!ServiceNext]_<<disk, mem, env>>
         /\ part = "tuning" => [Tuning!TuningNext]_<<disk, env, mem, aux>>
         /\ part = "job" => [Job!JobNext]_<<disk, mem, env>>
         /\ part = "match" => [Match!MatchNext]_<<disk, mem, env>>
         /\ part = "selfplay" => [SelfPlay!EngineNext]_<<disk, mem, env>>
         /\ part = "komi" => [Komi!CalibNext]_<<disk, mem, env, aux>>
BY DEF Next, Step, AuxStep, FullStep, vars

-----------------------------------------------------------------------------
(* A component is an instance here, and another one where it is proved:    *)
(* definition by definition they are the same.                             *)

LEMMA ArenaBegins == ASSUME Arena!Init PROVE Parts!Arena!Init
BY DEF Arena!Idle, Arena!Init, Parts!Arena!Idle, Parts!Arena!Init

LEMMA ArenaSteps == ASSUME Arena!Next PROVE Parts!Arena!Next
BY DEF Arena!Committed, Arena!Idle, Arena!Alive, Arena!Stored, Arena!Goto, Arena!Larger,
   Arena!NextAttempt, Arena!Fails, Arena!Returns, Arena!Call, Arena!Reclaim, Arena!Load,
   Arena!Clear, Arena!Identify, Arena!Supervise, Arena!Launch, Arena!Succeeded,
   Arena!SeeGone, Arena!Retire, Arena!ReadResult, Arena!ChildClear, Arena!ChildPlay,
   Arena!ChildPublish, Arena!ChildMark, Arena!ChildExit, Arena!ChildDies,
   Arena!CoordinatorDies, Arena!Acknowledge, Arena!Coordinator, Arena!Child, Arena!Next,
   Parts!Arena!Committed, Parts!Arena!Idle, Parts!Arena!Alive, Parts!Arena!Stored,
   Parts!Arena!Goto, Parts!Arena!Larger, Parts!Arena!NextAttempt, Parts!Arena!Fails,
   Parts!Arena!Returns, Parts!Arena!Call, Parts!Arena!Reclaim, Parts!Arena!Load,
   Parts!Arena!Clear, Parts!Arena!Identify, Parts!Arena!Supervise, Parts!Arena!Launch,
   Parts!Arena!Succeeded, Parts!Arena!SeeGone, Parts!Arena!Retire, Parts!Arena!ReadResult,
   Parts!Arena!ChildClear, Parts!Arena!ChildPlay, Parts!Arena!ChildPublish,
   Parts!Arena!ChildMark, Parts!Arena!ChildExit, Parts!Arena!ChildDies,
   Parts!Arena!CoordinatorDies, Parts!Arena!Acknowledge, Parts!Arena!Coordinator,
   Parts!Arena!Child, Parts!Arena!Next

LEMMA AdaptBegins == ASSUME Adapt!AdaptationInit PROVE Parts!Adapt!AdaptationInit
BY DEF Adapt!None, Adapt!Down, Adapt!AdaptationInit, Parts!Adapt!None, Parts!Adapt!Down,
   Parts!Adapt!AdaptationInit

LEMMA AdaptSteps == ASSUME Adapt!AdaptationNext PROVE Parts!Adapt!AdaptationNext
BY DEF Adapt!None, Adapt!Gates, Adapt!Down, Adapt!Goes, Adapt!Admitted, Adapt!LaunchNext,
   Adapt!LaunchSame, Adapt!Recover, Adapt!StopCheck, Adapt!StopWrite, Adapt!Fail,
   Adapt!Applied, Adapt!Stale, Adapt!Consume, Adapt!Archive, Adapt!Return, Adapt!Resume,
   Adapt!Train, Adapt!CodeChanges, Adapt!ScienceFails, Adapt!Validate, Adapt!TrainingDone,
   Adapt!Evaluate, Adapt!Finish, Adapt!Crash, Adapt!Retry, Adapt!PhaseStep,
   Adapt!AdaptationNext, Parts!Adapt!None, Parts!Adapt!Gates, Parts!Adapt!Down,
   Parts!Adapt!Goes, Parts!Adapt!Admitted, Parts!Adapt!LaunchNext, Parts!Adapt!LaunchSame,
   Parts!Adapt!Recover, Parts!Adapt!StopCheck, Parts!Adapt!StopWrite, Parts!Adapt!Fail,
   Parts!Adapt!Applied, Parts!Adapt!Stale, Parts!Adapt!Consume, Parts!Adapt!Archive,
   Parts!Adapt!Return, Parts!Adapt!Resume, Parts!Adapt!Train, Parts!Adapt!CodeChanges,
   Parts!Adapt!ScienceFails, Parts!Adapt!Validate, Parts!Adapt!TrainingDone,
   Parts!Adapt!Evaluate, Parts!Adapt!Finish, Parts!Adapt!Crash, Parts!Adapt!Retry,
   Parts!Adapt!PhaseStep, Parts!Adapt!AdaptationNext

LEMMA TrialBegins == ASSUME Trial!ExperimentInit PROVE Parts!Trial!ExperimentInit
<1>1. Trial!Legacy = Parts!Trial!Legacy
  BY DEF Trial!Stages, Trial!Arms, Trial!None, Trial!Verdicts, Trial!Contests, Trial!New,
     Trial!Untouched, Trial!Left, Trial!Legacy, Parts!Trial!Stages, Parts!Trial!Arms,
     Parts!Trial!None, Parts!Trial!Verdicts, Parts!Trial!Contests, Parts!Trial!New,
     Parts!Trial!Untouched, Parts!Trial!Left, Parts!Trial!Legacy
<1>2. /\ Trial!New = Parts!Trial!New /\ Trial!Untouched = Parts!Trial!Untouched
      /\ Trial!None = Parts!Trial!None
  BY DEF Trial!Stages, Trial!Arms, Trial!None, Trial!Contests, Trial!New, Trial!Untouched,
     Parts!Trial!Stages, Parts!Trial!Arms, Parts!Trial!None, Parts!Trial!Contests,
     Parts!Trial!New, Parts!Trial!Untouched
<1> QED
  BY <1>1, <1>2 DEF Trial!ExperimentInit, Trial!Idle, Parts!Trial!ExperimentInit,
     Parts!Trial!Idle

LEMMA TrialSteps == ASSUME Trial!ExperimentNext PROVE Parts!Trial!ExperimentNext
BY DEF Trial!Candidate, Trial!Reference, Trial!ArmsOf, Trial!None, Trial!Verdicts, Trial!Winner,
   Trial!Ended, Trial!Idle, Trial!Goto, Trial!Fault, Trial!Migrated, Trial!Loaded,
   Trial!Launch, Trial!Relaunch, Trial!Crash, Trial!Open, Trial!NextArm, Trial!Parent,
   Trial!At, Trial!TrainOne, Trial!FinishArm, Trial!Fails, Trial!ArmsDone, Trial!RunArena,
   Trial!Record, Trial!Judge, Trial!Advance, Trial!RunnerStep, Trial!ExperimentNext,
   Parts!Trial!Candidate, Parts!Trial!Reference, Parts!Trial!ArmsOf, Parts!Trial!None,
   Parts!Trial!Verdicts, Parts!Trial!Winner, Parts!Trial!Ended, Parts!Trial!Idle,
   Parts!Trial!Goto, Parts!Trial!Fault, Parts!Trial!Migrated, Parts!Trial!Loaded,
   Parts!Trial!Launch, Parts!Trial!Relaunch, Parts!Trial!Crash, Parts!Trial!Open,
   Parts!Trial!NextArm, Parts!Trial!Parent, Parts!Trial!At, Parts!Trial!TrainOne,
   Parts!Trial!FinishArm, Parts!Trial!Fails, Parts!Trial!ArmsDone, Parts!Trial!RunArena,
   Parts!Trial!Record, Parts!Trial!Judge, Parts!Trial!Advance, Parts!Trial!RunnerStep,
   Parts!Trial!ExperimentNext

LEMMA ServiceBegins == ASSUME Service!ServiceInit PROVE Parts!Service!ServiceInit
BY DEF Service!Requests, Service!Nothing, Service!Idle, Service!ServiceInit,
   Parts!Service!Requests, Parts!Service!Nothing, Parts!Service!Idle,
   Parts!Service!ServiceInit

LEMMA ServiceSteps == ASSUME Service!ServiceNext PROVE Parts!Service!ServiceNext
<1>1. Service!Sides = Parts!Service!Sides /\ Service!Games = Parts!Service!Games
  BY DEF Service!Sides, Service!Games, Parts!Service!Sides, Parts!Service!Games
<1>2. ASSUME NEW r, Service!Ask(r) PROVE Parts!Service!Ask(r)
  BY <1>1, <1>2 DEF Service!Ask, Service!Listed, Service!Nothing, Parts!Service!Ask,
     Parts!Service!Listed, Parts!Service!Nothing
<1>3. ASSUME NEW r, Service!RequestStep(r), ~Service!Ask(r) PROVE Parts!Service!RequestStep(r)
  BY <1>3 DEF Service!RequestStep, Service!Requests, Service!Nothing, Service!Idle,
     Service!Wanted,
     Service!Complete, Service!Listed, Service!Goto, Service!Ended, Service!Released,
     Service!Leave, Service!Admit, Service!Describe, Service!Cached, Service!With,
     Service!Hit, Service!Miss, Service!ReadArtifact, Service!Woken, Service!Newest,
     Service!Insert, Service!LoadFails, Service!Wake, Service!Play, Service!RemoveAt,
     Parts!Service!RequestStep, Parts!Service!Requests, Parts!Service!Nothing,
     Parts!Service!Idle, Parts!Service!Wanted, Parts!Service!Complete, Parts!Service!Listed,
     Parts!Service!Goto, Parts!Service!Ended, Parts!Service!Released, Parts!Service!Leave,
     Parts!Service!Admit, Parts!Service!Describe, Parts!Service!Cached, Parts!Service!With,
     Parts!Service!Hit, Parts!Service!Miss, Parts!Service!ReadArtifact, Parts!Service!Woken,
     Parts!Service!Newest, Parts!Service!Insert, Parts!Service!LoadFails,
     Parts!Service!Wake, Parts!Service!Play, Parts!Service!RemoveAt
<1>4. ASSUME NEW r, Service!SearchFails(r) PROVE Parts!Service!SearchFails(r)
  BY <1>4 DEF Service!Nothing, Service!Idle, Service!Ended, Service!Released, Service!Change,
     Service!SearchFails, Parts!Service!Nothing, Parts!Service!Idle, Parts!Service!Ended,
     Parts!Service!Released, Parts!Service!Change, Parts!Service!SearchFails
<1>5. ASSUME NEW i, Service!Archive(i) \/ Service!Discard(i) \/ Service!Remake(i)
      PROVE  Parts!Service!Archive(i) \/ Parts!Service!Discard(i) \/ Parts!Service!Remake(i)
  BY <1>5 DEF Service!Nothing, Service!Listed, Service!Change, Service!Archive, Service!Discard,
     Service!Remake, Parts!Service!Nothing, Parts!Service!Listed, Parts!Service!Change,
     Parts!Service!Archive, Parts!Service!Discard, Parts!Service!Remake
<1> QED
  BY <1>2, <1>3, <1>4, <1>5 DEF Service!ServiceNext, Parts!Service!ServiceNext,
     Parts!Service!RequestStep, Service!Requests, Parts!Service!Requests

LEMMA TuningBegins == ASSUME Tuning!TuningInit PROVE Launched!TuningInit
BY DEF Tuning!Commands, Tuning!None, Tuning!Generations, Tuning!Nobody, Tuning!Fresh,
   Tuning!TuningInit, Launched!Commands, Launched!None, Launched!Generations,
   Launched!Nobody, Launched!Fresh, Launched!TuningInit

LEMMA TuningSteps == ASSUME Tuning!TuningNext PROVE Launched!TuningNext
BY DEF Tuning!Modes, Tuning!Commands, Tuning!Baseline, Tuning!None, Tuning!Nobody, Tuning!Fresh,
   Tuning!Fault, Tuning!Saves, Tuning!Ends, Tuning!Load, Tuning!Lock, Tuning!Pending,
   Tuning!Due, Tuning!Stable, Tuning!Selection, Tuning!Choose, Tuning!Next1,
   Tuning!Observed, Tuning!Matches, Tuning!Reuse, Tuning!Trains, Tuning!AfterFailure,
   Tuning!Rejects, Tuning!Released, Tuning!TrainFails, Tuning!Stopped, Tuning!Crash,
   Tuning!CommandStep, Tuning!TuningNext, Tuning!Max, Launched!Modes, Launched!Commands,
   Launched!Baseline, Launched!None, Launched!Nobody, Launched!Fresh, Launched!Fault,
   Launched!Saves, Launched!Ends, Launched!Load, Launched!Lock, Launched!Pending,
   Launched!Due, Launched!Stable, Launched!Selection, Launched!Choose, Launched!Next1,
   Launched!Observed, Launched!Matches, Launched!Reuse, Launched!Trains,
   Launched!AfterFailure, Launched!Rejects, Launched!Released, Launched!TrainFails,
   Launched!Stopped, Launched!Crash, Launched!CommandStep, Launched!TuningNext, Launched!Max

LEMMA JobBegins == ASSUME Job!JobInit PROVE Launched!Job!JobInit
BY DEF Job!Launches, Job!Commits, Job!NoPlan, Job!NoController, Job!JobInit,
   Launched!Job!Launches, Launched!Job!Commits, Launched!Job!NoPlan,
   Launched!Job!NoController, Launched!Job!JobInit

LEMMA JobSteps == ASSUME Job!JobNext PROVE Launched!Job!JobNext
BY DEF Job!Launches, Job!Commits, Job!NoPlan, Job!NoController, Job!Outcomes, Job!Ended,
   Job!Gone, Job!Running, Job!PidAlive, Job!Compiled, Job!Goto, Job!Freed, Job!End,
   Job!Start, Job!RequireCommitted, Job!Lock, Job!Differs, Job!Compare, Job!TreeOf,
   Job!Ensure, Job!Added, Job!WriteParams, Job!WritePlan, Job!WritePin, Job!WriteGuide,
   Job!FindLease, Job!Spawn, Job!AwaitReady, Job!Killed, Job!Terminate, Job!LaunchStep,
   Job!At, Job!Become, Job!ParentAlive, Job!Boot, Job!SendReady, Job!Acquire, Job!PutLease,
   Job!Heartbeat, Job!DropLease, Job!Unlock, Job!Exit, Job!Startup, Job!ControllerStep,
   Job!GitAdds, Job!Develop, Job!Faulty, Job!Dies, Job!ControllerDies, Job!Timeout,
   Job!GitFails, Job!Sweep, Job!ReusePid, Job!LateBeat, Job!Around, Job!JobNext,
   Launched!Job!Launches, Launched!Job!Commits, Launched!Job!NoPlan,
   Launched!Job!NoController, Launched!Job!Outcomes, Launched!Job!Ended, Launched!Job!Gone,
   Launched!Job!Running, Launched!Job!PidAlive, Launched!Job!Compiled, Launched!Job!Goto,
   Launched!Job!Freed, Launched!Job!End, Launched!Job!Start, Launched!Job!RequireCommitted,
   Launched!Job!Lock, Launched!Job!Differs, Launched!Job!Compare, Launched!Job!TreeOf,
   Launched!Job!Ensure, Launched!Job!Added, Launched!Job!WriteParams,
   Launched!Job!WritePlan, Launched!Job!WritePin, Launched!Job!WriteGuide,
   Launched!Job!FindLease, Launched!Job!Spawn, Launched!Job!AwaitReady, Launched!Job!Killed,
   Launched!Job!Terminate, Launched!Job!LaunchStep, Launched!Job!At, Launched!Job!Become,
   Launched!Job!ParentAlive, Launched!Job!Boot, Launched!Job!SendReady,
   Launched!Job!Acquire, Launched!Job!PutLease, Launched!Job!Heartbeat,
   Launched!Job!DropLease, Launched!Job!Unlock, Launched!Job!Exit, Launched!Job!Startup,
   Launched!Job!ControllerStep, Launched!Job!GitAdds, Launched!Job!Develop,
   Launched!Job!Faulty, Launched!Job!Dies, Launched!Job!ControllerDies,
   Launched!Job!Timeout, Launched!Job!GitFails, Launched!Job!Sweep, Launched!Job!ReusePid,
   Launched!Job!LateBeat, Launched!Job!Around, Launched!Job!JobNext

LEMMA SelfPlayBegins == ASSUME SelfPlay!EngineInit PROVE Launched!Eng!EngineInit
BY DEF SelfPlay!Games, SelfPlay!Lesser, SelfPlay!Count, SelfPlay!Workers, SelfPlay!Target,
   SelfPlay!PerWorker, SelfPlay!Slots, SelfPlay!Free, SelfPlay!Nothing, SelfPlay!Initial,
   SelfPlay!EngineInit, Launched!Eng!Games, Launched!Eng!Lesser, Launched!Eng!Count,
   Launched!Eng!Workers, Launched!Eng!Target, Launched!Eng!PerWorker, Launched!Eng!Slots,
   Launched!Eng!Free, Launched!Eng!Nothing, Launched!Eng!Initial, Launched!Eng!EngineInit

LEMMA SelfPlayRows == ASSUME NEW q PROVE SelfPlay!RowsOf(q) = Launched!Eng!RowsOf(q)
BY DEF SelfPlay!RowsOf, SelfPlay!FoldSeq, SelfPlay!FoldFunction, SelfPlay!FoldFunctionOnSet,
   SelfPlay!MapThenFoldSet, SelfPlay!Cardinality, Launched!Eng!RowsOf, Launched!Eng!FoldSeq,
   Launched!Eng!FoldFunction, Launched!Eng!FoldFunctionOnSet, Launched!Eng!MapThenFoldSet,
   Launched!Eng!Cardinality

LEMMA SelfPlaySteps == ASSUME SelfPlay!EngineNext PROVE Launched!Eng!EngineNext
BY SelfPlayRows DEF SelfPlay!Games, SelfPlay!Lesser, SelfPlay!Count, SelfPlay!Workers,
   SelfPlay!Target, SelfPlay!PerWorker, SelfPlay!Slots, SelfPlay!Free, SelfPlay!Stop,
   SelfPlay!Busy, SelfPlay!Alive, SelfPlay!Fault, SelfPlay!Takes, SelfPlay!Take, SelfPlay!Step,
   SelfPlay!Fails, SelfPlay!Accepts, SelfPlay!Resume, SelfPlay!Exit, SelfPlay!GameFails,
   SelfPlay!WorkerDies, SelfPlay!Ingress, SelfPlay!Overfull, SelfPlay!Prefix, SelfPlay!TakeBatch,
   SelfPlay!InBatch, SelfPlay!Answered, SelfPlay!Dispatch, SelfPlay!DispatchFails, SelfPlay!Abort,
   SelfPlay!SeeFatal, SelfPlay!SeeFailure, SelfPlay!SeeDead, SelfPlay!Assign, SelfPlay!Collect,
   SelfPlay!Join, SelfPlay!JoinTimesOut, SelfPlay!WorkerStep, SelfPlay!BrokerStep,
   SelfPlay!ParentStep, SelfPlay!EngineNext, SelfPlay!Cardinality, Launched!Eng!Games,
   Launched!Eng!Lesser, Launched!Eng!Count, Launched!Eng!Workers, Launched!Eng!Target,
   Launched!Eng!PerWorker, Launched!Eng!Slots, Launched!Eng!Free, Launched!Eng!Stop,
   Launched!Eng!Busy, Launched!Eng!Alive, Launched!Eng!Fault, Launched!Eng!Takes,
   Launched!Eng!Take, Launched!Eng!Step, Launched!Eng!Fails, Launched!Eng!Accepts,
   Launched!Eng!Resume, Launched!Eng!Exit, Launched!Eng!GameFails, Launched!Eng!WorkerDies,
   Launched!Eng!Ingress, Launched!Eng!Overfull, Launched!Eng!Prefix, Launched!Eng!TakeBatch,
   Launched!Eng!InBatch, Launched!Eng!Answered, Launched!Eng!Dispatch, Launched!Eng!DispatchFails,
   Launched!Eng!Abort, Launched!Eng!SeeFatal, Launched!Eng!SeeFailure, Launched!Eng!SeeDead,
   Launched!Eng!Assign, Launched!Eng!Collect, Launched!Eng!Join, Launched!Eng!JoinTimesOut,
   Launched!Eng!WorkerStep, Launched!Eng!BrokerStep, Launched!Eng!ParentStep,
   Launched!Eng!EngineNext, Launched!Eng!Cardinality

LEMMA KomiBegins == ASSUME Komi!CalibInit PROVE Trained!Komi!CalibInit
BY DEF Komi!Gens, Komi!Baseline, Komi!None, Komi!Down, Komi!Init, Komi!Komis, Komi!Absent,
   Komi!Worlds, Komi!CalibInit, Trained!Komi!Gens, Trained!Komi!Baseline, Trained!Komi!None,
   Trained!Komi!Down, Trained!Komi!Init, Trained!Komi!Komis, Trained!Komi!Absent,
   Trained!Komi!Worlds, Trained!Komi!CalibInit

LEMMA KomiSteps == ASSUME Komi!CalibNext PROVE Trained!Komi!CalibNext
BY DEF Komi!Gens, Komi!Baseline, Komi!None, Komi!Modes, Komi!Due, Komi!vars, Komi!Down,
   Komi!Goto, Komi!NextMode, Komi!Stable, Komi!Observe, Komi!Candidates, Komi!Selections,
   Komi!Larger, Komi!Launch, Komi!Resume, Komi!Start, Komi!Decide, Komi!Boundary,
   Komi!RunArena, Komi!ArenaFails, Komi!Generation, Komi!BaselineRecovery, Komi!Falls,
   Komi!Train, Komi!ChildCommits, Komi!TrainReturns, Komi!TrainFails, Komi!ChildLost,
   Komi!Relaunch, Komi!Record, Komi!Signal, Komi!RequestStop, Komi!Crash, Komi!Acknowledge,
   Komi!Coordinator, Komi!Next, Komi!Komis, Komi!Batches, Komi!Aggregate, Komi!Work,
   Komi!Close, Komi!To, Komi!Failed, Komi!CalibLaunch, Komi!ObtainParent, Komi!StopParent,
   Komi!Pin, Komi!Item, Komi!Await, Komi!AwaitTimesOut, Komi!Captured, Komi!AfterItem,
   Komi!Published, Komi!Begin, Komi!Play, Komi!PlayFails, Komi!Publish, Komi!Cumulative,
   Komi!Choose, Komi!Handoff, Komi!ChildReturns, Komi!ChildFails, Komi!CalibCrash,
   Komi!CalibStep, Komi!CalibNext, Trained!Komi!Gens, Trained!Komi!Baseline,
   Trained!Komi!None, Trained!Komi!Modes, Trained!Komi!Due, Trained!Komi!vars,
   Trained!Komi!Down, Trained!Komi!Goto, Trained!Komi!NextMode, Trained!Komi!Stable,
   Trained!Komi!Observe, Trained!Komi!Candidates, Trained!Komi!Selections,
   Trained!Komi!Larger, Trained!Komi!Launch, Trained!Komi!Resume, Trained!Komi!Start,
   Trained!Komi!Decide, Trained!Komi!Boundary, Trained!Komi!RunArena,
   Trained!Komi!ArenaFails, Trained!Komi!Generation, Trained!Komi!BaselineRecovery,
   Trained!Komi!Falls, Trained!Komi!Train, Trained!Komi!ChildCommits,
   Trained!Komi!TrainReturns, Trained!Komi!TrainFails, Trained!Komi!ChildLost,
   Trained!Komi!Relaunch, Trained!Komi!Record, Trained!Komi!Signal,
   Trained!Komi!RequestStop, Trained!Komi!Crash, Trained!Komi!Acknowledge,
   Trained!Komi!Coordinator, Trained!Komi!Next, Trained!Komi!Komis, Trained!Komi!Batches,
   Trained!Komi!Aggregate, Trained!Komi!Work, Trained!Komi!Close, Trained!Komi!To,
   Trained!Komi!Failed, Trained!Komi!CalibLaunch, Trained!Komi!ObtainParent,
   Trained!Komi!StopParent, Trained!Komi!Pin, Trained!Komi!Item, Trained!Komi!Await,
   Trained!Komi!AwaitTimesOut, Trained!Komi!Captured, Trained!Komi!AfterItem,
   Trained!Komi!Published, Trained!Komi!Begin, Trained!Komi!Play, Trained!Komi!PlayFails,
   Trained!Komi!Publish, Trained!Komi!Cumulative, Trained!Komi!Choose, Trained!Komi!Handoff,
   Trained!Komi!ChildReturns, Trained!Komi!ChildFails, Trained!Komi!CalibCrash,
   Trained!Komi!CalibStep, Trained!Komi!CalibNext

LEMMA MatchBegins == ASSUME Match!MatchInit PROVE Trained!M!MatchInit
BY DEF Match!Workers, Match!LaneIds, Match!Roles, Match!Free, Match!None, Match!Blank,
   Match!Share, Match!Initial, Match!Global, Match!IdleLane, Match!MatchInit, Trained!M!Workers,
   Trained!M!LaneIds, Trained!M!Roles, Trained!M!Free, Trained!M!None, Trained!M!Blank,
   Trained!M!Share, Trained!M!Initial, Trained!M!Global, Trained!M!IdleLane, Trained!M!MatchInit

LEMMA MatchSteps == ASSUME Match!MatchNext PROVE Trained!M!MatchNext
BY DEF Match!Workers, Match!LaneIds, Match!Roles, Match!Free, Match!None, Match!RoleOf,
   Match!IdleLane, Match!Alive, Match!Fault, Match!Faulted, Match!Busy, Match!FirstFree,
   Match!Ready, Match!StartLane, Match!Finish, Match!AdvanceLane, Match!Expected, Match!Over,
   Match!Played, Match!PollLane, Match!LaneFails, Match!Leave, Match!Exit, Match!WorkerRaises,
   Match!WorkerDies, Match!Ingress, Match!Dead, Match!TakeBatch, Match!RowsFor, Match!RowFor,
   Match!Answer, Match!Abort, Match!Start, Match!BarrierFails, Match!BarrierTimesOut,
   Match!HandleControl, Match!SeeDead, Match!InferenceFails, Match!Errors, Match!Technical,
   Match!Summarize, Match!JoinTimesOut, Match!WorkerStep, Match!ParentStep, Match!MatchNext,
   Match!Cardinality, Trained!M!Workers, Trained!M!LaneIds, Trained!M!Roles, Trained!M!Free,
   Trained!M!None, Trained!M!RoleOf, Trained!M!IdleLane, Trained!M!Alive, Trained!M!Fault,
   Trained!M!Faulted, Trained!M!Busy, Trained!M!FirstFree, Trained!M!Ready, Trained!M!StartLane,
   Trained!M!Finish, Trained!M!AdvanceLane, Trained!M!Expected, Trained!M!Over, Trained!M!Played,
   Trained!M!PollLane, Trained!M!LaneFails, Trained!M!Leave, Trained!M!Exit,
   Trained!M!WorkerRaises, Trained!M!WorkerDies, Trained!M!Ingress, Trained!M!Dead,
   Trained!M!TakeBatch, Trained!M!RowsFor, Trained!M!RowFor, Trained!M!Answer, Trained!M!Abort,
   Trained!M!Start, Trained!M!BarrierFails, Trained!M!BarrierTimesOut, Trained!M!HandleControl,
   Trained!M!SeeDead, Trained!M!InferenceFails, Trained!M!Errors, Trained!M!Technical,
   Trained!M!Summarize, Trained!M!JoinTimesOut, Trained!M!WorkerStep, Trained!M!ParentStep,
   Trained!M!MatchNext, Trained!M!Cardinality

-----------------------------------------------------------------------------
(* The invariants of the parts.                                            *)

LEMMA ArenaInvariance == Spec => [](part = "arena" => Parts!ArenaInv)
<1>1. Parts!Arena!EvaluationAssumption
  BY AllAssumptions DEF Arena!EvaluationAssumption, Parts!Arena!EvaluationAssumption
<1>2. Init => (part = "arena" => Parts!ArenaInv)
  BY <1>1, ArenaBegins, Parts!ArenaInitHolds DEF Init
<1>3. (part = "arena" => Parts!ArenaInv) /\ [Next]_vars => (part = "arena" => Parts!ArenaInv)'
  <2> SUFFICES ASSUME part = "arena", Parts!ArenaInv, [Next]_vars PROVE Parts!ArenaInv'
    BY OnePartMoves
  <2>1. [Arena!Next]_<<disk, mem, env>>
    BY OnePartMoves
  <2> QED
    BY <1>1, <2>1, ArenaSteps, Parts!ArenaStepKeeps DEF Parts!Arena!vars
<1> QED
  BY <1>2, <1>3, PTL DEF Spec

LEMMA AdaptInvariance == Spec => [](part = "adaptation" => Parts!AdaptInv)
<1>1. Parts!Adapt!AdaptationAssumption
  BY AllAssumptions DEF Adapt!AdaptationAssumption, Parts!Adapt!AdaptationAssumption
<1>2. Init => (part = "adaptation" => Parts!AdaptInv)
  BY <1>1, AdaptBegins, Parts!AdaptInitHolds DEF Init
<1>3. (part = "adaptation" => Parts!AdaptInv) /\ [Next]_vars
        => (part = "adaptation" => Parts!AdaptInv)'
  <2> SUFFICES ASSUME part = "adaptation", Parts!AdaptInv, [Next]_vars PROVE Parts!AdaptInv'
    BY OnePartMoves
  <2>1. [Adapt!AdaptationNext]_<<disk, mem, env>>
    BY OnePartMoves
  <2> QED
    BY <1>1, <2>1, AdaptSteps, Parts!AdaptStepKeeps DEF Parts!Adapt!adaptVars
<1> QED
  BY <1>2, <1>3, PTL DEF Spec

LEMMA TrialInvariance == Spec => [](part = "trial" => Parts!ExpInv)
<1>1. Parts!Trial!ExperimentAssumption
  BY AllAssumptions DEF Trial!ExperimentAssumption, Parts!Trial!ExperimentAssumption
<1>2. Init => (part = "trial" => Parts!ExpInv)
  BY <1>1, TrialBegins, Parts!ExpInitHolds DEF Init
<1>3. (part = "trial" => Parts!ExpInv) /\ [Next]_vars => (part = "trial" => Parts!ExpInv)'
  <2> SUFFICES ASSUME part = "trial", Parts!ExpInv, [Next]_vars PROVE Parts!ExpInv'
    BY OnePartMoves
  <2>1. [Trial!ExperimentNext]_<<kind, disk, env, mem, aux>>
    BY OnePartMoves
  <2> QED
    BY <1>1, <2>1, TrialSteps, Parts!ExpStepKeeps DEF Parts!Trial!experimentVars
<1> QED
  BY <1>2, <1>3, PTL DEF Spec

LEMMA ServiceInvariance == Spec => [](part = "service" => Parts!ServInv)
<1>1. Parts!Service!ServiceAssumption
  BY AllAssumptions DEF Service!ServiceAssumption, Parts!Service!ServiceAssumption
<1>2. Init => (part = "service" => Parts!ServInv)
  BY <1>1, ServiceBegins, Parts!ServInitHolds DEF Init
<1>3. (part = "service" => Parts!ServInv) /\ [Next]_vars => (part = "service" => Parts!ServInv)'
  <2> SUFFICES ASSUME part = "service", Parts!ServInv, [Next]_vars PROVE Parts!ServInv'
    BY OnePartMoves
  <2>1. [Service!ServiceNext]_<<disk, mem, env>>
    BY OnePartMoves
  <2> QED
    BY <1>1, <2>1, ServiceSteps, Parts!ServStepKeeps DEF Parts!ServVars
<1> QED
  BY <1>2, <1>3, PTL DEF Spec

LEMMA TuningInvariance == Spec => [](part = "tuning" => Launched!TInv)
<1>1. Launched!TuningAssumption
  BY AllAssumptions DEF Tuning!TuningAssumption, Launched!TuningAssumption
<1>2. Init => (part = "tuning" => Launched!TInv)
  BY <1>1, TuningBegins, Launched!InitHolds DEF Init
<1>3. (part = "tuning" => Launched!TInv) /\ [Next]_vars => (part = "tuning" => Launched!TInv)'
  <2> SUFFICES ASSUME part = "tuning", Launched!TInv, [Next]_vars PROVE Launched!TInv'
    BY OnePartMoves
  <2>1. [Tuning!TuningNext]_<<disk, env, mem, aux>>
    BY OnePartMoves
  <2> QED
    BY <1>1, <2>1, TuningSteps, Launched!TuningStepKeeps, Launched!TuningStutterKeeps
       DEF Launched!tuningVars
<1> QED
  BY <1>2, <1>3, PTL DEF Spec

LEMMA JobInvariance == Spec => [](part = "job" => Launched!JobInv)
<1>1. Launched!Job!JobAssumption
  BY AllAssumptions DEF Job!JobAssumption, Launched!Job!JobAssumption
<1>2. Init => (part = "job" => Launched!JobInv)
  BY <1>1, JobBegins, Launched!JobInitHolds DEF Init
<1>3. (part = "job" => Launched!JobInv) /\ [Next]_vars => (part = "job" => Launched!JobInv)'
  <2> SUFFICES ASSUME part = "job", Launched!JobInv, [Next]_vars PROVE Launched!JobInv'
    BY OnePartMoves
  <2>1. [Job!JobNext]_<<disk, mem, env>>
    BY OnePartMoves
  <2> QED
    BY <1>1, <2>1, JobSteps, Launched!JobStepKeeps
<1> QED
  BY <1>2, <1>3, PTL DEF Spec

LEMMA SelfPlayInvariance == Spec => [](part = "selfplay" => Launched!EngInv)
<1>1. Launched!Eng!EngineAssumption
  BY AllAssumptions DEF SelfPlay!EngineAssumption, Launched!Eng!EngineAssumption
<1>2. Init => (part = "selfplay" => Launched!EngInv)
  BY <1>1, SelfPlayBegins, Launched!EngInitHolds DEF Init
<1>3. (part = "selfplay" => Launched!EngInv) /\ [Next]_vars
        => (part = "selfplay" => Launched!EngInv)'
  <2> SUFFICES ASSUME part = "selfplay", Launched!EngInv, [Next]_vars PROVE Launched!EngInv'
    BY OnePartMoves
  <2>1. [SelfPlay!EngineNext]_<<disk, mem, env>>
    BY OnePartMoves
  <2> QED
    BY <1>1, <2>1, SelfPlaySteps, Launched!EngNextKeeps DEF Launched!Eng!engineVars
<1> QED
  BY <1>2, <1>3, PTL DEF Spec

LEMMA KomiInvariance == Spec => [](part = "komi" => Trained!KomiInv)
<1>1. 1 \in Nat
  OBVIOUS
<1>2. Init => (part = "komi" => Trained!KomiInv)
  BY <1>1, KomiBegins, Trained!KomiInitHolds DEF Init
<1>3. (part = "komi" => Trained!KomiInv) /\ [Next]_vars => (part = "komi" => Trained!KomiInv)'
  <2> SUFFICES ASSUME part = "komi", Trained!KomiInv, [Next]_vars PROVE Trained!KomiInv'
    BY OnePartMoves
  <2>1. [Komi!CalibNext]_<<disk, mem, env, aux>>
    BY OnePartMoves
  <2> QED
    BY <1>1, <2>1, KomiSteps, Trained!KomiStepKeeps DEF Trained!Komi!calibVars, Trained!Komi!vars
<1> QED
  BY <1>2, <1>3, PTL DEF Spec

LEMMA MatchInvariance == Spec => [](part = "match" => Trained!Match)
<1>1. Trained!M!MatchAssumption
  BY AllAssumptions DEF Match!MatchAssumption, Trained!M!MatchAssumption
<1>2. Init => (part = "match" => Trained!Match)
  BY <1>1, MatchBegins, Trained!MatchBegins DEF Init
<1>3. (part = "match" => Trained!Match) /\ [Next]_vars => (part = "match" => Trained!Match)'
  <2> SUFFICES ASSUME part = "match", Trained!Match, [Next]_vars PROVE Trained!Match'
    BY OnePartMoves
  <2>1. [Match!MatchNext]_<<disk, mem, env>>
    BY OnePartMoves
  <2> QED
    BY <1>1, <2>1, MatchSteps, Trained!MatchSteps, Trained!MatchStutters
       DEF Trained!M!matchVars
<1> QED
  BY <1>2, <1>3, PTL DEF Spec

-----------------------------------------------------------------------------
(* What follows from them, as the run of MCSystem checks it.               *)

\* ArenaEvaluation: whatever dies and whoever asks again, what is stored, marked or
\* reported as completed was played.
THEOREM EvidenceIsAlwaysPlayed == Spec => []EvidenceIsPlayed
<1>1. Parts!ArenaInv => Parts!Arena!EvidenceIsPlayed
  BY DEF Parts!ArenaInv, Parts!ArenaPlayed, Parts!Arena!Committed, Parts!Arena!Stored,
     Parts!Arena!EvidenceIsPlayed
<1>2. Parts!Arena!EvidenceIsPlayed => Arena!EvidenceIsPlayed
  BY DEF Arena!Committed, Arena!Stored, Arena!EvidenceIsPlayed, Parts!Arena!Committed,
     Parts!Arena!Stored, Parts!Arena!EvidenceIsPlayed
<1>3. (part = "arena" => Parts!ArenaInv) => EvidenceIsPlayed
  BY <1>1, <1>2 DEF EvidenceIsPlayed
<1> QED
  BY <1>3, ArenaInvariance, PTL

\* Adaptation: a stage is entered on the review of the one before, and old decisions do
\* no harm.
THEOREM StagesAreReviewed == Spec => []AdaptationIsSound
<1>1. Parts!AdaptInv => Parts!Adapt!AdaptationIsSound
  BY DEF Parts!AdaptInv
<1>2. Parts!Adapt!AdaptationIsSound => Adapt!AdaptationIsSound
  BY DEF Adapt!Stale, Adapt!StagesAreReviewed, Adapt!StopsAreReviewed, Adapt!ReportsAreOwn,
     Adapt!DecisionsDoNotFail, Adapt!AdaptationIsSound, Parts!Adapt!Stale,
     Parts!Adapt!StagesAreReviewed, Parts!Adapt!StopsAreReviewed, Parts!Adapt!ReportsAreOwn,
     Parts!Adapt!DecisionsDoNotFail, Parts!Adapt!AdaptationIsSound
<1>3. (part = "adaptation" => Parts!AdaptInv) => AdaptationIsSound
  BY <1>1, <1>2 DEF AdaptationIsSound
<1> QED
  BY <1>3, AdaptInvariance, PTL

\* Experiment: a winner is decided from kept, valid evidence, and the second stage descends
\* from the winner of the first.
THEOREM ArmsAreJudgedSoundly == Spec => []DecisionsAreSound
<1>1. Parts!ExpInv => Parts!Trial!DecisionsAreSound /\ Parts!Trial!SecondStageDescends
  BY DEF Parts!ExpInv
<1>2. Parts!Trial!DecisionsAreSound /\ Parts!Trial!SecondStageDescends
        => Trial!DecisionsAreSound /\ Trial!SecondStageDescends
  BY DEF Trial!Stages, Trial!Candidate, Trial!Reference, Trial!ArmsOf, Trial!None, Trial!Winner,
     Trial!Decided, Trial!DecisionsAreSound, Trial!SecondStageDescends, Parts!Trial!Stages,
     Parts!Trial!Candidate, Parts!Trial!Reference, Parts!Trial!ArmsOf, Parts!Trial!None,
     Parts!Trial!Winner, Parts!Trial!Decided, Parts!Trial!DecisionsAreSound,
     Parts!Trial!SecondStageDescends
<1>3. (part = "trial" => Parts!ExpInv) => DecisionsAreSound
  BY <1>1, <1>2 DEF DecisionsAreSound
<1> QED
  BY <1>3, TrialInvariance, PTL

\* PlayService: models are loaded once, sides play their own, and the capacity is
\* given back.
THEOREM ModelsAreServedSoundly == Spec => []ServingIsSound
<1>1. Parts!ServInv => Parts!Service!ServingIsSound
  BY Parts!ServInvImplies
<1>2. Parts!Service!ServingIsSound => Service!ServingIsSound
  BY DEF Service!Requests, Service!Wanted, Service!Cached, Service!Holding, Service!Owning,
     Service!CacheIsSound, Service!CapacityIsConserved, Service!PlaysItsOwnModel,
     Service!FailsForCause, Service!ServingIsSound, Service!Cardinality,
     Parts!Service!Requests, Parts!Service!Wanted, Parts!Service!Cached,
     Parts!Service!Holding, Parts!Service!Owning, Parts!Service!CacheIsSound,
     Parts!Service!CapacityIsConserved, Parts!Service!PlaysItsOwnModel,
     Parts!Service!FailsForCause, Parts!Service!ServingIsSound, Parts!Service!Cardinality
<1>3. (part = "service" => Parts!ServInv) => ServingIsSound
  BY <1>1, <1>2 DEF ServingIsSound
<1> QED
  BY <1>3, ServiceInvariance, PTL

\* PerformanceTuning: a stable measurement is of a generation that ran with its mode,
\* whichever command committed it.
THEOREM EachMeasuresItsOwn == Spec => []MeasuresItsOwn
<1>1. Launched!TInv => Launched!MeasuresItsOwn
  BY DEF Launched!TInv, Launched!Measured, Launched!Sound, Launched!MeasuresItsOwn
<1>2. Launched!MeasuresItsOwn => Tuning!MeasuresItsOwn
  BY DEF Tuning!MeasuresItsOwn, Launched!MeasuresItsOwn
<1>3. (part = "tuning" => Launched!TInv) => MeasuresItsOwn
  BY <1>1, <1>2 DEF MeasuresItsOwn
<1> QED
  BY <1>3, TuningInvariance, PTL

\* OperatorJob: every controller runs the one registered plan on its pinned commit, and a
\* launch says what is so.
THEOREM JobsAreSound == Spec => []JobIsSound
<1>1. Launched!JobInv => Launched!Job!JobIsSound
  <2>1. Launched!Job!JobAssumption
    BY AllAssumptions DEF Job!JobAssumption, Launched!Job!JobAssumption
  <2> QED
    BY <2>1, Launched!JobSafe
<1>2. Launched!Job!JobIsSound => Job!JobIsSound
  BY DEF Job!Launches, Job!NoPlan, Job!Outcomes, Job!Gone, Job!Running, Job!At,
     Job!RunsTheRegistration, Job!OutcomesAreTrue, Job!LeaseNamesTheOwner,
     Job!RefusedForCause, Job!SomebodyHasIt, Job!JobIsSound, Launched!Job!Launches,
     Launched!Job!NoPlan, Launched!Job!Outcomes, Launched!Job!Gone, Launched!Job!Running,
     Launched!Job!At, Launched!Job!RunsTheRegistration, Launched!Job!OutcomesAreTrue,
     Launched!Job!LeaseNamesTheOwner, Launched!Job!RefusedForCause,
     Launched!Job!SomebodyHasIt, Launched!Job!JobIsSound
<1>3. (part = "job" => Launched!JobInv) => JobIsSound
  BY <1>1, <1>2 DEF JobIsSound
<1> QED
  BY <1>3, JobInvariance, PTL

\* SelfPlayEngine: a game goes on with the evaluation of its own position, no game is
\* lost but with a killed worker, and a run returns all its games or fails for a cause.
THEOREM SelfPlayRunsAreSound == Spec => []SelfPlayIsSound
<1>1. Launched!EngInv => /\ Launched!Eng!EvaluationIsOwn
                         /\ Launched!Eng!GamesConserved /\ Launched!Eng!AllOrNothing
  <2>1. Launched!Eng!EngineAssumption
    BY AllAssumptions DEF SelfPlay!EngineAssumption, Launched!Eng!EngineAssumption
  <2> QED
    BY <2>1, Launched!EngInvImplies
<1>2. Launched!Eng!EvaluationIsOwn /\ Launched!Eng!GamesConserved /\ Launched!Eng!AllOrNothing
        => SelfPlay!EvaluationIsOwn /\ SelfPlay!GamesConserved /\ SelfPlay!AllOrNothing
  BY DEF SelfPlay!Games, SelfPlay!Lesser, SelfPlay!Count, SelfPlay!Workers, SelfPlay!Target,
     SelfPlay!PerWorker, SelfPlay!Slots, SelfPlay!Alive, SelfPlay!Accepts,
     SelfPlay!EvaluationIsOwn, SelfPlay!Queued, SelfPlay!Played, SelfPlay!GamesConserved,
     SelfPlay!AllOrNothing, SelfPlay!Cardinality, Launched!Eng!Games, Launched!Eng!Lesser,
     Launched!Eng!Count, Launched!Eng!Workers, Launched!Eng!Target, Launched!Eng!PerWorker,
     Launched!Eng!Slots, Launched!Eng!Alive, Launched!Eng!Accepts, Launched!Eng!EvaluationIsOwn,
     Launched!Eng!Queued, Launched!Eng!Played, Launched!Eng!GamesConserved,
     Launched!Eng!AllOrNothing, Launched!Eng!Cardinality
<1>3. (part = "selfplay" => Launched!EngInv) => SelfPlayIsSound
  BY <1>1, <1>2 DEF SelfPlayIsSound
<1> QED
  BY <1>3, SelfPlayInvariance, PTL

\* ArenaEngine: a match is VALID only with one result of each of its games, each
\* decided by evaluations of the game's own positions alone.
THEOREM ValidMatchesAreClean == Spec => []ValidIsClean
<1>1. Trained!Match => Trained!M!ValidIsClean
  <2>1. Trained!M!MatchAssumption
    BY AllAssumptions DEF Match!MatchAssumption, Trained!M!MatchAssumption
  <2> QED
    BY <2>1, Trained!ValidIs
<1>2. Trained!M!ValidIsClean => Match!ValidIsClean
  BY DEF Match!Games, Match!ValidIsClean, Match!ToSet, Trained!M!Games, Trained!M!ValidIsClean,
     Trained!M!ToSet
<1>3. (part = "match" => Trained!Match) => ValidIsClean
  BY <1>1, <1>2 DEF ValidIsClean
<1> QED
  BY <1>3, MatchInvariance, PTL

\* KomiCalibration beside its parent: the winner has the whole evidence, and before the
\* handoff no crash makes the calibration fail.
THEOREM CalibrationsAreSound == Spec => []CalibrationIsSound
<1>1. Trained!KomiInv => Trained!Komi!WinnerIsCumulative /\ Trained!Komi!FailsForCause
  BY DEF Trained!KomiInv
<1>2. Trained!Komi!WinnerIsCumulative /\ Trained!Komi!FailsForCause
        => Komi!WinnerIsCumulative /\ Komi!FailsForCause
  BY DEF Komi!Komis, Komi!Batches, Komi!Close, Komi!WinnerIsCumulative, Komi!FailsForCause,
     Trained!Komi!Komis, Trained!Komi!Batches, Trained!Komi!Close,
     Trained!Komi!WinnerIsCumulative, Trained!Komi!FailsForCause
<1>3. (part = "komi" => Trained!KomiInv) => CalibrationIsSound
  BY <1>1, <1>2 DEF CalibrationIsSound
<1> QED
  BY <1>3, KomiInvariance, PTL

\* ArenaEvaluation: no step removes the output while a child writes it.
THEOREM OnlyDeadOutputIsRemoved == Spec => ClearsOnlyDeadOutput
<1>1. (part = "arena" => Parts!ArenaInv) /\ [Next]_vars
        => [part = "arena" /\ disk.identity /\ ~disk'.identity
              => ~Arena!Alive /\ disk.active = 0]_vars
  <2> SUFFICES ASSUME Parts!ArenaInv, [Next]_vars, part = "arena", disk.identity, ~disk'.identity
               PROVE  ~Arena!Alive /\ disk.active = 0
    OBVIOUS
  <2>1. [Arena!Next]_<<disk, mem, env>>
    BY OnePartMoves
  <2>2. ~Parts!Arena!Alive /\ disk.active = 0
    BY <2>1, ArenaSteps, Parts!ArenaClears DEF Parts!Arena!vars
  <2> QED
    BY <2>2 DEF Arena!Alive, Parts!Arena!Alive
<1> QED
  BY <1>1, ArenaInvariance, PTL DEF Spec, ClearsOnlyDeadOutput
=============================================================================
