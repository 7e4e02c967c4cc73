-------------------------- MODULE GenerationCommit --------------------------
(***************************************************************************)
(* One production lineage growing generation by generation.  The           *)
(* coordinator (ProductionTrainOne) reuses a committed generation or runs  *)
(* a supervised worker; the worker publishes six artifacts, then the graph *)
(* evidence (provenance, CheckpointNode, manifest entry, catalog record)   *)
(* and last the completion marker, the fence that commits the generation.  *)
(* An attempt that fails or is killed leaves whatever it had published.    *)
(*                                                                         *)
(* Two production paths share this protocol.  "cube" (cube_production,     *)
(* TrainingEngine) first removes what an uncommitted attempt left behind   *)
(* and refuses to touch published artifacts; "torus9" (the five-channel    *)
(* trainer) keeps collected shards and writes its artifacts again.         *)
(*                                                                         *)
(* An artifact is abstracted to the launch that produced its content, a    *)
(* hash or a record over artifacts to their identities.  Supervision is    *)
(* abstracted to what Supervisor.tla establishes: at most one worker       *)
(* lives, attempts are counted durably, and the last failure leaves a stop *)
(* for the operator to acknowledge.                                        *)
(***************************************************************************)
EXTENDS Naturals, FiniteSets

CONSTANTS
  MaxGen,       \* bound: generations of the lineage
  Setups,       \* pairs of a production path and SupervisorPolicy.max_retries
  MaxLaunches,  \* bound: workers started
  MaxFaults     \* bound: exceptions, kills, and crashes

ASSUME GenerationAssumption ==
  /\ MaxGen \in Nat /\ MaxLaunches \in Nat /\ MaxFaults \in Nat
  /\ Setups \subseteq {"cube", "torus9"} \X Nat

Gens == 1..MaxGen
Launches == 1..MaxLaunches

\* The artifacts in the order they are published.
Files == 1..6
Rolling == 2
Checkpoint == 3
\* fresh replay, rolling replay, checkpoint, its metadata: functions of the
\* collected games; training metrics and summary also hold wall times.
Reproducible == 1..4

\* Identities of a generation's artifacts; Absent where there is no record.
Identity == [Files -> 0..MaxLaunches]
Absent == [f \in Files |-> 0]

VARIABLES
  path,       \* production path of the topology
  retries,    \* SupervisorPolicy.max_retries
  file,       \* artifacts of each generation, 0 when there is none
  prov,       \* metadata/provenance-v2/M<g>.json
  node,       \* metadata/checkpoints/M<g>.json
  manifest,   \* checkpoint_hashes and generation_commits of manifest.json
  catalog,    \* record of the generation in runtime/artifact-catalog.json
  marker,     \* generation-<g>.complete.json
  shards,     \* torus9: the launch that collected the games, durable
  head,       \* the caller's last generation, durable
  attempt,    \* attempts the supervisor's records count
  stopped,    \* supervisor-stop.json is present
  call,       \* where ProductionTrainOne stands
  own,        \* the worker is a child of the running coordinator
  pc,         \* where the worker stands
  step,       \* its position in a list of paths
  hurt,       \* history: a fault hit the last worker
  launches,   \* history: workers started
  faults      \* history: faults so far

setup   == <<path, retries>>
graph   == <<prov, node, manifest, catalog>>
disk    == <<file, prov, node, manifest, catalog, marker, shards>>
parent  == <<head, attempt, stopped, call, own>>
history == <<launches, faults>>
vars    == <<path, retries, file, prov, node, manifest, catalog, marker, shards,
             head, attempt, stopped, call, own, pc, step, hurt, launches, faults>>

\* The worker's request: the child of the caller's last generation.
G == head + 1

Committed(g) == marker[g] # Absent

Transaction == {"publish", "prov", "node", "manifest", "catalog", "fence"}
Working == {"discard", "prune", "unlink", "collect", "cleanup", "finish"} \cup Transaction

TypeOK ==
  /\ path \in {"cube", "torus9"} /\ retries \in Nat
  /\ {file, prov, node, manifest, catalog, marker} \subseteq [Gens -> Identity]
  /\ shards \in [Gens -> 0..MaxLaunches]
  /\ head \in 0..MaxGen
  /\ attempt \in 0..retries + 1
  /\ stopped \in BOOLEAN
  /\ call \in {"idle", "check", "supervise", "monitor", "validate"}
  /\ own \in BOOLEAN
  /\ pc \in Working \cup {"none", "ok", "bad"}
  /\ step \in 1..8
  /\ hurt \in BOOLEAN
  /\ launches \in 0..MaxLaunches
  /\ faults \in 0..MaxFaults

Init ==
  /\ \E s \in Setups : path = s[1] /\ retries = s[2]
  /\ LET none == [g \in Gens |-> Absent]
     IN  /\ file = none /\ prov = none /\ node = none
         /\ manifest = none /\ catalog = none /\ marker = none
  /\ shards = [g \in Gens |-> 0]
  /\ head = 0 /\ attempt = 0 /\ stopped = FALSE
  /\ call = "idle" /\ own = FALSE
  /\ pc = "none" /\ step = 1 /\ hurt = FALSE
  /\ launches = 0 /\ faults = 0

-----------------------------------------------------------------------------
(* The worker.  Steps move it on within one attempt.                       *)

\* What the running attempt writes: torus9 reuses its durable games.
Content(f) ==
  IF path = "torus9" /\ f \in Reproducible THEN shards[G] ELSE launches
Ids == [f \in Files |-> Content(f)]

SetFile(id) ==
  [file EXCEPT ![G] = [f \in Files |-> IF f = step THEN id ELSE file[G][f]]]

Worker(from, to) ==
  /\ pc = from /\ pc' = to
  /\ UNCHANGED <<setup, parent, history, hurt>>

\* Mutant: evidence of the generation itself counts as later.
OwnEvidence == \E g \in Gens : g >= G /\ (Committed(g) \/ manifest[g] # Absent)

\* _later_generation_evidence_exists
LaterEvidence == \E g \in Gens : g > G /\ (Committed(g) \/ manifest[g] # Absent)

\* reconcile_uncommitted_generation, first effect: the catalog record.  With
\* the marker present there is nothing to remove; with evidence of a later
\* generation it fails closed.
Discard ==
  /\ Worker("discard", CASE Committed(G) -> "collect"
                        [] ~Committed(G) /\ LaterEvidence -> "bad"
                        [] OTHER -> "prune")
  /\ catalog' = IF pc' = "prune" THEN [catalog EXCEPT ![G] = Absent] ELSE catalog
  /\ UNCHANGED <<file, prov, node, manifest, marker, shards, step>>

\* Second effect: the manifest loses the entries of the generation.
Prune ==
  /\ Worker("prune", "unlink")
  /\ manifest' = [manifest EXCEPT ![G] = Absent]
  /\ step' = 1
  /\ UNCHANGED <<file, prov, node, catalog, marker, shards>>

\* Mutant: the graph files are not among the paths to remove.
UnlinkArtifactsOnly ==
  /\ Worker("unlink", IF step < 6 THEN "unlink" ELSE "collect")
  /\ file' = SetFile(0)
  /\ step' = IF step < 6 THEN step + 1 ELSE 1
  /\ UNCHANGED <<graph, marker, shards>>

\* Then its files one by one, the two graph files last.
Unlink ==
  /\ Worker("unlink", IF step < 8 THEN "unlink" ELSE "collect")
  /\ file' = SetFile(0)
  /\ prov' = IF step = 7 THEN [prov EXCEPT ![G] = Absent] ELSE prov
  /\ node' = IF step = 8 THEN [node EXCEPT ![G] = Absent] ELSE node
  /\ step' = IF step < 8 THEN step + 1 ELSE 1
  /\ UNCHANGED <<manifest, catalog, marker, shards>>

\* A cube worker refuses a committed generation and published artifacts.
Published == Committed(G) \/ file[G] # Absent

\* Self-play, and training up to the first artifact.
Collect ==
  /\ Worker("collect", "publish")
  /\ path = "cube" => ~Published
  /\ shards' = IF path = "torus9" /\ shards[G] = 0
                 THEN [shards EXCEPT ![G] = launches] ELSE shards
  /\ step' = 1
  /\ UNCHANGED <<file, graph, marker>>

CollectRefused ==
  /\ Worker("collect", "bad")
  /\ path = "cube" /\ Published
  /\ UNCHANGED <<disk, step>>

\* The artifacts are published one by one.
Publish ==
  /\ Worker("publish", IF step < 6 THEN "publish" ELSE "prov")
  /\ file' = SetFile(Content(step))
  /\ step' = IF step < 6 THEN step + 1 ELSE 1
  /\ UNCHANGED <<graph, marker, shards>>

\* _write_immutable_json: other content is refused, the same is left alone.
Writable(record) == record \in {Absent, Ids}

WriteProvenance ==
  /\ Worker("prov", "node")
  /\ Writable(prov[G])
  /\ prov' = [prov EXCEPT ![G] = Ids]
  /\ UNCHANGED <<file, node, manifest, catalog, marker, shards, step>>

WriteNode ==
  /\ Worker("node", "manifest")
  /\ Writable(node[G])
  /\ node' = [node EXCEPT ![G] = Ids]
  /\ UNCHANGED <<file, prov, manifest, catalog, marker, shards, step>>

WriteManifest ==
  /\ Worker("manifest", "catalog")
  /\ manifest' = [manifest EXCEPT ![G] = Ids]
  /\ UNCHANGED <<file, prov, node, catalog, marker, shards, step>>

\* ArtifactCatalog.register_generation
Register ==
  /\ Worker("catalog", "fence")
  /\ Writable(catalog[G])
  /\ catalog' = [catalog EXCEPT ![G] = Ids]
  /\ UNCHANGED <<file, prov, node, manifest, marker, shards, step>>

\* publish_checkpoint_graph raised: the attempt fails without any fault.
GraphRefused ==
  /\ pc \in {"prov", "node", "catalog"}
  /\ ~Writable([prov |-> prov, node |-> node, catalog |-> catalog][pc][G])
  /\ Worker(pc, IF path = "cube" THEN "cleanup" ELSE "bad")
  /\ step' = 1
  /\ UNCHANGED disk

\* The completion marker names every artifact: the commit.
Fence ==
  /\ Worker("fence", "finish")
  /\ marker' = [marker EXCEPT ![G] = Ids]
  /\ UNCHANGED <<file, graph, shards, step>>

\* GenerationRunner verifies the artifacts and the result is written.
Finish ==
  /\ Worker("finish", "ok")
  /\ UNCHANGED <<disk, step>>

\* Mutant: also a failure after the fence removes the published artifacts.
RaiseRemoves ==
  /\ pc \in Working /\ faults < MaxFaults
  /\ pc' = IF path = "cube" /\ pc \in Transaction \cup {"cleanup", "finish"}
             THEN "cleanup" ELSE "bad"
  /\ step' = 1 /\ hurt' = TRUE /\ faults' = faults + 1
  /\ UNCHANGED <<setup, disk, parent, launches>>

\* Something raised.  TrainingEngine removes what the transaction published,
\* unless the fence was crossed; torus9 leaves everything in place.
Raise ==
  /\ pc \in Working /\ faults < MaxFaults
  /\ pc' = IF path = "cube" /\ pc \in Transaction THEN "cleanup" ELSE "bad"
  /\ step' = 1 /\ hurt' = TRUE /\ faults' = faults + 1
  /\ UNCHANGED <<setup, disk, parent, launches>>

Cleanup ==
  /\ Worker("cleanup", IF step < 6 THEN "cleanup" ELSE "bad")
  /\ file' = SetFile(0)
  /\ step' = IF step < 6 THEN step + 1 ELSE 1
  /\ UNCHANGED <<graph, marker, shards>>

\* The worker is killed: by the supervisor for a stale heartbeat, or outside.
Die ==
  /\ pc \in Working /\ faults < MaxFaults
  /\ pc' = "bad" /\ hurt' = TRUE /\ faults' = faults + 1
  /\ UNCHANGED <<setup, disk, parent, step, launches>>

WorkerStep ==
  \/ Discard \/ Prune \/ Unlink \/ Collect \/ CollectRefused
  \/ Publish \/ WriteProvenance \/ WriteNode \/ WriteManifest \/ Register
  \/ GraphRefused \/ Fence \/ Finish \/ Cleanup

-----------------------------------------------------------------------------
(* The coordinator.                                                        *)

Coordinator(from, to) ==
  /\ call = from /\ call' = to
  /\ UNCHANGED <<setup, disk, step, faults>>

worker == <<pc, hurt, launches>>
records == <<attempt, stopped>>

\* validate_generation_commit: the marker agrees with the artifacts, the
\* node and the provenance; manifest and catalog hold the checkpoint.
Evidence(g) ==
  /\ prov[g] = marker[g] /\ node[g] = marker[g]
  /\ manifest[g][Checkpoint] = marker[g][Checkpoint]
  /\ catalog[g][Checkpoint] = marker[g][Checkpoint]
Valid(g) == file[g] = marker[g] /\ Evidence(g)

\* With reuse_committed_rolling_replay_identity the rolling replay, which is
\* large, is not hashed again: the catalog's identity stands for it.
Trusted(g) ==
  /\ \A f \in Files \ {Rolling} : file[g][f] = marker[g][f]
  /\ file[g][Rolling] # 0
  /\ catalog[g][Rolling] = marker[g][Rolling]
  /\ Evidence(g)

\* The caller asks for the next generation.
Call ==
  /\ Coordinator("idle", "check")
  /\ head < MaxGen
  /\ UNCHANGED <<head, records, own, worker>>

NotCommitted ==
  /\ Coordinator("check", "supervise")
  /\ ~Committed(G)
  /\ UNCHANGED <<head, records, own, worker>>

\* reconcile_completed_execution: the supervisor's records of a committed
\* generation and a worker that has not yet exited are retired.
Retire ==
  /\ head' = head + 1
  /\ attempt' = 0 /\ stopped' = FALSE /\ own' = FALSE /\ pc' = "none"
  /\ UNCHANGED <<hurt, launches>>

\* Mutant: a published node is taken for a committed generation.
ReuseNode ==
  /\ Coordinator("check", "idle")
  /\ node[G] # Absent
  /\ Retire

\* _reuse_committed_child: validated again, or an error.
Reuse ==
  /\ Coordinator("check", "idle")
  /\ Committed(G)
  /\ IF Valid(G) THEN Retire ELSE UNCHANGED <<head, records, own, worker>>

\* acknowledge_stopped_execution, when the operator asks for it.
Acknowledge ==
  /\ Coordinator("supervise", "supervise")
  /\ stopped
  /\ attempt' = 0 /\ stopped' = FALSE
  /\ UNCHANGED <<head, own, worker>>

\* run_once fails on a durable stop and on a spent budget.
Halt ==
  /\ Coordinator("supervise", "idle")
  /\ stopped \/ (pc \notin Working /\ attempt > retries)
  /\ UNCHANGED <<head, records, own, worker>>

\* The worker of a coordinator that died: its exit status is lost.
Reattach ==
  /\ Coordinator("supervise", "monitor")
  /\ ~stopped /\ pc \in Working
  /\ own' = FALSE
  /\ UNCHANGED <<head, records, worker>>

\* The launcher starts the next attempt.
Launch ==
  /\ launches < MaxLaunches
  /\ launches' = launches + 1 /\ attempt' = attempt + 1
  /\ pc' = IF path = "cube" THEN "discard" ELSE "collect"
  /\ own' = TRUE /\ hurt' = FALSE
  /\ UNCHANGED <<head, stopped>>

Start ==
  /\ Coordinator("supervise", "monitor")
  /\ ~stopped /\ pc \notin Working /\ attempt <= retries
  /\ Launch

\* Exit status 0 of our own child.
SeeSuccess ==
  /\ Coordinator("monitor", "validate")
  /\ pc = "ok" /\ own
  /\ attempt' = 0 /\ pc' = "none" /\ own' = FALSE
  /\ UNCHANGED <<head, stopped, hurt, launches>>

\* A failure, or a reattached worker that is gone: no completion check is
\* passed, so also one that committed counts as failed.
Failed == pc = "bad" \/ (pc = "ok" /\ ~own)

\* Mutant: the budget is not consulted.
RetryAlways ==
  /\ Coordinator("monitor", "monitor")
  /\ Failed
  /\ Launch

Retry ==
  /\ Coordinator("monitor", "monitor")
  /\ Failed /\ attempt <= retries
  /\ Launch

GiveUp ==
  /\ Coordinator("monitor", "idle")
  /\ Failed /\ attempt > retries
  /\ stopped' = TRUE
  /\ UNCHANGED <<head, attempt, own, worker>>

\* After a success the commit is validated once more.
Deliver ==
  /\ Coordinator("validate", "idle")
  /\ head' = IF Committed(G) /\ Trusted(G) THEN head + 1 ELSE head
  /\ UNCHANGED <<records, own, worker>>

\* The coordinator dies; with the machine its worker dies too.
Crash(machine) ==
  /\ faults < MaxFaults /\ faults' = faults + 1
  /\ call' = "idle" /\ own' = FALSE
  /\ IF machine /\ pc \in Working
       THEN pc' = "bad" /\ hurt' = TRUE
       ELSE UNCHANGED <<pc, hurt>>
  /\ UNCHANGED <<setup, disk, head, records, step, launches>>

CoordinatorStep ==
  \/ Call \/ NotCommitted \/ Reuse \/ Acknowledge \/ Halt
  \/ Reattach \/ Start \/ SeeSuccess \/ Retry \/ GiveUp \/ Deliver

Next ==
  \/ WorkerStep \/ CoordinatorStep \/ Raise \/ Die
  \/ \E machine \in BOOLEAN : Crash(machine)

Spec == Init /\ [][Next]_vars

\* Processes keep running, the caller asks again until its target is reached,
\* and the operator acknowledges a stop he keeps meeting.
Fairness ==
  /\ WF_vars(WorkerStep)
  /\ WF_vars(CoordinatorStep)
  /\ SF_vars(Acknowledge)

FairSpec == Spec /\ Fairness

-----------------------------------------------------------------------------
(* Properties.                                                             *)

\* A committed generation validates at every later moment: whatever retries,
\* recoveries and failed attempts follow, none of them touches its artifacts
\* or its evidence, and the marker never appears before all of it is there.
CommittedStaysValid == \A g \in Gens : Committed(g) => Valid(g)

\* Cube: an attempt that no fault hit commits, whatever earlier attempts left
\* behind, unless the generation was committed before.  This is what makes
\* "the same generation can be retried safely" (generation_recovery.py).
CleanAttemptCommits ==
  path = "cube" /\ pc = "bad" /\ ~hurt => Committed(G)

\* The five-channel trainer restarts from the generation's parent if it was
\* interrupted before the commit (docs/orchestrator-v2/
\* torus9-five-channel-training.md:44-46), so a restart no fault hits commits.
RestartCommits ==
  path = "torus9" /\ pc = "bad" /\ ~hurt => Committed(G)

\* Cube: the lineage reaches its last generation however the faults fall.
\* One case is excepted: a coordinator that crashes during the last attempt
\* the policy allows leaves no stop to acknowledge when that attempt dies
\* too, and SupervisorV2.plan then refuses to start for ever.
BudgetLost ==
  /\ call # "monitor" /\ pc \notin Working
  /\ ~stopped /\ attempt > retries /\ ~Committed(G)
Finishes == path = "cube" ~> (head = MaxGen \/ BudgetLost)

\* The lineage implements an append-only log of committed generations.
CommittedGens == {g \in Gens : Committed(g)}
Log == INSTANCE GenerationLog WITH
         log <- [g \in 1..Cardinality(CommittedGens) |-> marker[g]], head <- head
ImplementsLog == Log!Spec
=============================================================================
