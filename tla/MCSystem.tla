-------------------------------- MODULE MCSystem --------------------------------
(* The components that use supervision, commits and deliveries, or stand     *)
(* beside them: launching a job, training a lineage, evaluating a pair in an *)
(* Arena, calibrating the komi, tuning the execution, comparing the arms of  *)
(* an experiment, adapting a model in reviewed stages, the two engines that  *)
(* play the games, the games themselves (both rules, and the search of a     *)
(* player), the rolling replay of a graph of generations, the service that   *)
(* plays with the published models, the transactions that train one          *)
(* generation after another, the orchestrator V1, the storage of the         *)
(* lineages, and the publication of metadata for those of V1.  A behaviour   *)
(* is one of them, the one that `part` names; `disk`, `mem` and `env` are    *)
(* what it keeps on disk, in memory and in the world around it (for an       *)
(* engine: its parent, workers and broker; for a search: the game, the tree  *)
(* and the session), `aux` and `kind` what else it has.                      *)
EXTENDS Integers

VARIABLES part, disk, mem, env, aux, kind

vars == <<part, disk, mem, env, aux, kind>>

Lineage == INSTANCE ContinuousTraining WITH
  Target <- 4, Cadence <- 2, Sweep <- 2, StartAfter <- 1, MaxFaults <- 2, MaxStops <- 1

Arena == INSTANCE ArenaEvaluation WITH MaxAttempts <- 2, MaxFaults <- 3

Komi == INSTANCE KomiCalibration WITH
  Target <- 2, Cadence <- 2, Sweep <- 0, StartAfter <- 0, MaxFaults <- 0, MaxStops <- 0,
  PinAt <- 1, MaxTroubles <- 1, calib <- aux

Tuning == INSTANCE PerformanceTuning WITH
  NumModes <- 2, MaxActions <- 3, NumCommands <- 2, MaxFaults <- 2,
  lineage <- env, command <- mem, faults <- aux

Trial == INSTANCE Experiment WITH
  Kinds <- {"single", "double", "offline", "legacy"}, Gens <- 2, MaxFaults <- 2,
  MaxCalls <- 3, world <- env, count <- aux

SelfPlay == INSTANCE SelfPlayEngine WITH
  NumGames <- 4, NumWorkers <- 2, Contexts <- 2, Total <- 3, BatchCap <- 2, Evals <- 1,
  MaxFaults <- 1, parent <- disk, worker <- mem, broker <- env

Match == INSTANCE ArenaEngine WITH
  NumGames <- 3, NumWorkers <- 2, Lanes <- 1, BatchCap <- 2, Moves <- 2, MaxFaults <- 1,
  ErrorsAreTechnical <- TRUE, parent <- disk, worker <- mem, broker <- env

Adapt == INSTANCE Adaptation WITH
  LastStage <- 2, Saves <- 2, Ends <- <<2, 6>>, PinAt <- 2, MaxFaults <- 2

Replay == INSTANCE ReplayWindow WITH
  Policies <- {[gens |-> 2, cap |-> 0], [gens |-> 3, cap |-> 3]}, Sizes <- {1, 3},
  MaxNodes <- 5, MaxLegacy <- 2, MaxLines <- 2, graph <- disk, run <- mem, path <- env

Job == INSTANCE OperatorJob WITH
  Asks <- {"a", "b"}, NumLaunches <- 2, MaxFaults <- 2, launch <- mem, world <- env

Service == INSTANCE PlayService WITH
  Ids <- {"a", "b"}, NumRequests <- 2, MaxEntries <- 1, MoveConcurrency <- 1, MaxChanges <- 2,
  store <- disk, req <- mem, svc <- env

V1 == INSTANCE LineageOrchestrator WITH
  MaxGen <- 2, Cadence <- 1, MaxRestarts <- 1, NumSessions <- 2, MaxFaults <- 2, MaxStops <- 1

Transaction == INSTANCE TrainingTransaction WITH
  MaxGen <- 3, Steps <- 2, MaxFaults <- 3,
  Plans <- {<<2, 2, 2>>, <<2, 2, 1>>, <<1, 2, 2>>, <<1, 1, 2>>, <<2, 1, 2>>}

Storage == INSTANCE RunStorage WITH
  Lines <- {1, 2}, Contents <- {1, 2}, MaxOps <- 3, MaxFaults <- 1

Backfill == INSTANCE MetadataBackfill WITH Generations <- 3, Configs <- {1, 2}, MaxFaults <- 3

\* The graphs of the games: a path of three points, and of two.
Path(n) == [p \in 1..n |-> {q \in 1..n : q = p + 1 \/ q = p - 1}]

Rules == INSTANCE GoRules WITH
  Points <- 1..3, Neighbors <- Path(3), PASS <- 0, KomiHalves <- 1, game <- disk

\* Territory rules: from a ko, and from two groups that live, on a ring of five; to
\* the ends of the games on two points; and through cycles on three.
Ring == [p \in 1..5 |-> {(p % 5) + 1, ((p + 3) % 5) + 1}]
Starts == {[board |-> b, player |-> 0, phase |-> ph, caps |-> <<0, 0>>, blocked |-> {}] :
             b \in {<<1, 2, 0, 2, 0>>, <<1, 1, 0, 1, 0>>}, ph \in {"main", "cleanup1", "cleanup2"}}

Ring5 == INSTANCE TerritoryRules WITH
  Points <- 1..5, Neighbors <- Ring, PASS <- 0, KomiHalves <- 1, Setups <- Starts,
  MaxTurns <- 4, MaxRests <- 4, pos <- disk
Line2 == INSTANCE TerritoryRules WITH
  Points <- 1..2, Neighbors <- Path(2), PASS <- 0, KomiHalves <- 1, Setups <- {},
  MaxTurns <- 20, MaxRests <- 20, pos <- disk
Line3 == INSTANCE TerritoryRules WITH
  Points <- 1..3, Neighbors <- Path(3), PASS <- 0, KomiHalves <- 1, Setups <- {},
  MaxTurns <- 14, MaxRests <- 1, pos <- disk

Trees == INSTANCE TreeSearch WITH
  Points <- 1..2, Neighbors <- Path(2), PASS <- 0, KomiHalves <- 1, Sims <- 2, Watchdog <- 3,
  game <- disk, tree <- mem, session <- env, table <- aux

ASSUME AllAssumptions ==
  /\ Lineage!TrainingAssumption /\ Arena!EvaluationAssumption /\ Komi!TrainingAssumption
  /\ Tuning!TuningAssumption /\ Trial!ExperimentAssumption
  /\ SelfPlay!EngineAssumption /\ Match!MatchAssumption
  /\ Adapt!AdaptationAssumption /\ Rules!RulesAssumption /\ Trees!SearchAssumption
  /\ Replay!ReplayAssumption /\ Job!JobAssumption /\ Service!ServiceAssumption
  /\ V1!OrchestratorAssumption /\ Transaction!TransactionAssumption
  /\ Storage!StorageAssumption /\ Backfill!BackfillAssumption
  /\ Ring5!TerritoryAssumption /\ Line2!TerritoryAssumption /\ Line3!TerritoryAssumption

Unused == "unused"

Init ==
  \/ part = "komi" /\ Komi!CalibInit /\ kind = Unused
  \/ part = "tuning" /\ Tuning!TuningInit /\ kind = Unused
  \/ part = "trial" /\ Trial!ExperimentInit
  \/ part = "search" /\ Trees!SearchInit /\ kind = Unused
  \/ /\ aux = Unused /\ kind = Unused
     /\ \/ part = "lineage" /\ Lineage!Init
        \/ part = "arena" /\ Arena!Init
        \/ part = "selfplay" /\ SelfPlay!EngineInit
        \/ part = "match" /\ Match!MatchInit
        \/ part = "adaptation" /\ Adapt!AdaptationInit
        \/ part = "rules" /\ Rules!RulesInit /\ mem = Unused /\ env = Unused
        \/ part = "replay" /\ Replay!ReplayInit
        \/ part = "job" /\ Job!JobInit
        \/ part = "service" /\ Service!ServiceInit
        \/ part = "v1" /\ V1!OrchestratorInit
        \/ part = "training" /\ Transaction!TransactionInit
        \/ part = "storage" /\ Storage!StorageInit
        \/ part = "backfill" /\ Backfill!BackfillInit
        \/ /\ part = "territory" /\ env = Unused
           /\ \/ mem = 5 /\ Ring5!TerritoryInit
              \/ mem = 2 /\ Line2!TerritoryInit
              \/ mem = 3 /\ Line3!TerritoryInit

\* A step of a component that uses `disk`, `mem` and `env`; of `aux` too; of all.
Step(p, A) == part = p /\ A /\ UNCHANGED <<part, aux, kind>>
AuxStep(p, A) == part = p /\ A /\ UNCHANGED <<part, kind>>
FullStep(p, A) == part = p /\ A /\ UNCHANGED part

\* The graph that a game of territory rules is played on never changes.
Territory == /\ UNCHANGED <<mem, env>>
             /\ \/ mem = 5 /\ Ring5!TerritoryNext
                \/ mem = 2 /\ Line2!TerritoryNext
                \/ mem = 3 /\ Line3!TerritoryNext

Next ==
  \/ Step("lineage", Lineage!Next) \/ Step("arena", Arena!Next)
  \/ AuxStep("komi", Komi!CalibNext) \/ AuxStep("tuning", Tuning!TuningNext)
  \/ FullStep("trial", Trial!ExperimentNext)
  \/ Step("selfplay", SelfPlay!EngineNext) \/ Step("match", Match!MatchNext)
  \/ Step("adaptation", Adapt!AdaptationNext)
  \/ Step("rules", Rules!RulesNext /\ UNCHANGED <<mem, env>>)
  \/ AuxStep("search", Trees!SearchNext)
  \/ Step("replay", Replay!ReplayNext)
  \/ Step("job", Job!JobNext) \/ Step("service", Service!ServiceNext)
  \/ Step("v1", V1!OrchestratorNext) \/ Step("training", Transaction!TransactionNext)
  \/ Step("storage", Storage!StorageNext) \/ Step("backfill", Backfill!BackfillNext)
  \/ Step("territory", Territory)

\* The fairness of each module, for the component that runs.
Fairness ==
  /\ WF_vars(Step("lineage", Lineage!Coordinator))
  /\ WF_vars(Step("lineage", Lineage!ChildCommits))
  /\ WF_vars(Step("arena", Arena!Coordinator)) /\ WF_vars(Step("arena", Arena!Child))
  /\ WF_vars(Step("komi", Komi!Coordinator)) /\ WF_vars(Step("komi", Komi!ChildCommits))
  /\ WF_vars(AuxStep("komi", Komi!CalibStep))
  /\ \A c \in 1..2 : WF_vars(AuxStep("tuning", Tuning!CommandStep(c)))
  /\ WF_vars(FullStep("trial", Trial!RunnerStep))
  /\ WF_vars(FullStep("trial", Trial!Relaunch /\ mem.pc = "failed"))
  /\ WF_vars(Step("selfplay", SelfPlay!BrokerStep))
  /\ WF_vars(Step("selfplay", SelfPlay!ParentStep))
  /\ \A w \in 1..2 : WF_vars(Step("selfplay", SelfPlay!WorkerStep(w)))
  /\ WF_vars(Step("match", Match!ParentStep)) /\ WF_vars(Step("match", Match!Ingress))
  /\ \A w \in 1..2 : WF_vars(Step("match", Match!WorkerStep(w)))
  /\ WF_vars(Step("adaptation", Adapt!PhaseStep))
  /\ WF_vars(Step("rules", Rules!RulesNext /\ UNCHANGED <<mem, env>>))
  /\ WF_vars(AuxStep("search", Trees!SearchNext))
  /\ \A l \in 1..2 : WF_vars(Step("job", Job!LaunchStep(l))) /\ WF_vars(Step("job", Job!Startup(l)))
  /\ WF_vars(Step("job", \E k \in 1..2 : Job!GitAdds(k)))
  /\ \A r \in 1..2 : WF_vars(Step("service", Service!RequestStep(r)))
  /\ \A s \in 1..2 : WF_vars(Step("v1", V1!SessionStep(s)))
  /\ WF_vars(Step("training", Transaction!Progress))
  /\ WF_vars(Step("backfill", Backfill!Run)) /\ WF_vars(Step("backfill", Backfill!Publish))
  /\ WF_vars(Step("v1", \E d \in env.drivers : V1!Publish(d)))

Spec == Init /\ [][Next]_vars /\ Fairness

-----------------------------------------------------------------------------
(* Properties of the modules, each of the component it is about.           *)

\* Types of the state of each component, as the code keeps it.
TypeOK ==
  CASE part = "lineage" -> Lineage!TypeOK
    [] part = "arena" -> Arena!TypeOK
    [] part = "komi" -> Komi!TypeOK /\ Komi!CalibTypeOK
    [] part = "tuning" -> Tuning!TuningTypeOK
    [] part = "trial" -> Trial!ExperimentTypeOK
    [] part = "selfplay" -> SelfPlay!EngineTypeOK
    [] part = "match" -> Match!MatchTypeOK
    [] part = "adaptation" -> Adapt!AdaptationTypeOK
    [] part = "rules" -> Rules!RulesTypeOK
    [] part = "search" -> Trees!SearchTypeOK
    [] part = "replay" -> Replay!ReplayTypeOK
    [] part = "job" -> Job!JobTypeOK
    [] part = "service" -> Service!ServiceTypeOK
    [] part = "v1" -> V1!OrchestratorTypeOK
    [] part = "training" -> Transaction!TransactionTypeOK
    [] part = "storage" -> Storage!StorageTypeOK
    [] part = "backfill" -> Backfill!BackfillTypeOK
    [] part = "territory" -> CASE mem = 5 -> Ring5!TerritoryTypeOK
                               [] mem = 2 -> Line2!TerritoryTypeOK
                               [] mem = 3 -> Line3!TerritoryTypeOK

\* ContinuousTraining: no generation is played over a due Arena, one at most is
\* started after a soft stop, and the sweep selects on what was really played.
\* LineageOrchestrator: the same of V1; its lock excludes, and whatever a session
\* leaves of a commit, the next one recovers.  TrainingTransaction: whatever
\* failed on the way, the committed checkpoints are those of a run without trouble.
\* RunStorage: no operation loses bytes that something refers to.  MetadataBackfill:
\* what is published for a lineage of V1 is known whole and is of one commit.
LineageIsSound ==
  /\ part = "lineage" => /\ Lineage!ArenasKeepUp /\ Lineage!StopIsPrompt
                         /\ Lineage!SelectionIsSound
  /\ part = "v1" => V1!OrchestrationIsSound
  /\ part = "training" => Transaction!TransactionIsSound
  /\ part = "storage" => Storage!StorageIsSound
  /\ part = "backfill" => Backfill!BackfillIsSound

\* ArenaEvaluation: what is stored, marked or reported was played.
EvidenceIsPlayed == part = "arena" => Arena!EvidenceIsPlayed

\* ArenaEvaluation: no output is removed while a child writes it.
ClearsOnlyDeadOutput ==
  [][part = "arena" /\ disk.identity /\ ~disk'.identity
       => ~Arena!Alive /\ disk.active = 0]_vars

\* KomiCalibration: the winner has the whole evidence, and no crash makes the
\* calibration fail.
CalibrationIsSound == part = "komi" => Komi!WinnerIsCumulative /\ Komi!FailsForCause

\* PerformanceTuning: a measurement that counts is of its own mode.
MeasuresItsOwn == part = "tuning" => Tuning!MeasuresItsOwn

\* Experiment: winners are decided from kept, valid evidence, and the second
\* stage descends from the first one's.
DecisionsAreSound ==
  part = "trial" => Trial!DecisionsAreSound /\ Trial!SecondStageDescends

\* SelfPlayEngine: a game goes on with the evaluation of its own position; no
\* game is lost or played twice, partial results are not returned, no worker
\* outlives the run, and none fails without a fault.
SelfPlayIsSound ==
  part = "selfplay" => /\ SelfPlay!EvaluationIsOwn
                       /\ SelfPlay!GamesConserved /\ SelfPlay!AllOrNothing

\* ArenaEngine: a match that counts as VALID played every game to its end, on
\* evaluations of its own positions.
ValidIsClean == part = "match" => Match!ValidIsClean

\* Adaptation: a stage is entered on the review of the stage before, a report
\* is about its own checkpoint, and old decisions do no harm.
AdaptationIsSound == part = "adaptation" => Adapt!AdaptationIsSound

\* GoRules: no group is ever out of liberties, the index of positions agrees
\* with the history, and the score is the area.  TreeSearch: what is kept of a
\* tree is of the game, and its numbers add up.  TerritoryRules: what is pass-alive
\* lives, the bonus is the board's, the count is fair, and games end.
GamesAreSound ==
  /\ part = "rules" => Rules!RulesAreSound
  /\ part = "search" => Trees!SearchIsSound
  /\ part = "territory" => CASE mem = 5 -> Ring5!TerritoryIsSound
                              [] mem = 2 -> Line2!TerritoryIsSound /\ Line2!EndsInTime
                              [] mem = 3 -> Line3!TerritoryIsSound

\* ReplayWindow: a generation is trained on the window of its ancestry, however
\* the rows were handed down; the evidence beside them is true; and a
\* generation is refused for a cause.
ReplayIsSound == part = "replay" => Replay!ReplayIsSound

\* OperatorJob: every controller runs the one registered plan on its pinned
\* commit, a launch says what is so, and is refused for a cause.
JobIsSound == part = "job" => Job!JobIsSound

\* PlayService: a model is loaded once however many want it, each side is played
\* by its own, no error keeps a place of the capacity, and the trouble of one
\* checkpoint is not another's.
ServingIsSound == part = "service" => Service!ServingIsSound

\* A command that is launched again after it failed, stopped or crashed comes
\* to its end, or waits for the operator behind a durable stop; the run of an
\* engine ends, whoever dies or stays silent; and so does every game; every
\* request that was made is answered, every session of V1 is over, and the metadata
\* is published or waits for the operator.  The replay and the storage have nothing
\* to wait for, and the length of territory games is bounded by an invariant: no
\* fairness is assumed of them.
ComesToAnEnd ==
  <>CASE part = "lineage" -> Lineage!AtEnd
      [] part = "arena" -> Arena!AtRest
      [] part = "komi" -> Komi!Calibrated
      [] part = "tuning" -> Tuning!Tuned
      [] part = "trial" -> Trial!Concluded
      [] part = "selfplay" -> SelfPlay!RunEnded
      [] part = "match" -> Match!MatchEnded
      [] part = "adaptation" -> Adapt!Settled
      [] part = "rules" -> Rules!Over(disk)
      [] part = "search" -> aux.end # "none"
      [] part = "replay" -> TRUE
      [] part = "job" -> Job!Launched
      [] part = "service" -> Service!AllAnswered
      [] part = "v1" -> V1!SessionsEnd
      [] part = "training" -> Transaction!Transacted
      [] part = "storage" -> TRUE
      [] part = "backfill" -> Backfill!BackfillSettled
      [] part = "territory" -> TRUE
=============================================================================
