---------------------------- MODULE SelfPlayEngine ----------------------------
(***************************************************************************)
(* One run of the process self-play engine (selfplay_engine.py and the     *)
(* facade gocube_golden/selfplay_engine.py) on the shared-memory path: a   *)
(* parent that hands out games and collects records, workers that step     *)
(* several games in turn, and a central broker that batches their          *)
(* inference requests and answers through shared slots.                    *)
(*                                                                         *)
(* What is written to a slot is <<game, number of the evaluation>>; the    *)
(* network maps a position to an output of its own, so an output slot      *)
(* holds the position it was computed from.  A queue of multiprocessing    *)
(* is FIFO for one producer; what parents and workers see of it may lag.   *)
(***************************************************************************)
EXTENDS Integers, Sequences, FiniteSets, SequencesExt

CONSTANTS
  NumGames,    \* games of the run
  NumWorkers,  \* SelfPlayEngineConfig.workers
  Contexts,    \* active_games_per_worker
  Total,       \* total_active_contexts
  BatchCap,    \* inference_batch_cap
  Evals,       \* bound: evaluations that a game asks for at most
  MaxFaults    \* bound: failures of games, workers, inference, and timeouts

EngineAssumption ==
  /\ {NumGames, NumWorkers, Contexts, Total, BatchCap, Evals} \subseteq Nat \ {0}
  /\ MaxFaults \in Nat
  /\ Contexts <= BatchCap

VARIABLES
  parent,  \* SelfPlayEngine.run: where it stands, pending games, records, fatal
  worker,  \* _shared_worker_main of each worker
  broker   \* _CentralInference: what was received, and the batch being served

engineVars == <<parent, worker, broker>>

Games == 1..NumGames
Lesser(a, b) == IF a < b THEN a ELSE b
Count == Lesser(NumWorkers, NumGames)
Workers == 1..Count
Target == Lesser(Lesser(NumGames, Count * Contexts), Total)

\* The contexts of each worker: the target spread evenly.
PerWorker(w) == Target \div Count + (IF w <= Target % Count THEN 1 ELSE 0)

Slots == 1..PerWorker(1)
Free == 0
Stop == 0
Nothing == <<0, 0>>

\* The games that are queued for worker w before it starts.
Initial(w) ==
  LET before == (w - 1) * (Target \div Count) + Lesser(w - 1, Target % Count)
  IN [i \in 1..PerWorker(w) |-> before + i]

Contents == {Nothing} \cup (Games \X (1..Evals))

EngineTypeOK ==
  /\ parent \in [pc : {"loop", "join", "returned", "raised"}, pending : Seq(Games),
                 completed : SUBSET Games, fatal : BOOLEAN, faults : 0..MaxFaults]
  /\ \A w \in Workers :
       /\ worker[w].st \in {"run", "wait", "exited", "dead"}
       /\ worker[w].active \in [Slots -> Games \cup {Free}]
       /\ worker[w].tasks \in Seq(Games \cup {Stop})
       /\ worker[w].done \subseteq Games
       /\ worker[w].input \in [Slots -> Contents] /\ worker[w].output \in [Slots -> Contents]
  /\ \A i \in DOMAIN broker.batch : broker.batch[i].rows \subseteq Slots \X Contents

EngineInit ==
  /\ parent = [pc |-> "loop", pending |-> [i \in 1..NumGames - Target |-> Target + i],
               completed |-> {}, fatal |-> FALSE, faults |-> 0]
  /\ worker = [w \in Workers |->
       [st |-> "run", tasks |-> Initial(w), active |-> [s \in Slots |-> Free],
        asked |-> [g \in Games |-> 0], id |-> 0, sent |-> {}, stop |-> FALSE,
        input |-> [s \in Slots |-> Nothing], output |-> [s \in Slots |-> Nothing],
        responses |-> <<>>, done |-> {}, failed |-> FALSE]]
  /\ broker = [requests |-> <<>>, queue |-> <<>>, batch |-> <<>>]

Busy(w) == {s \in Slots : worker[w].active[s] # Free}
Alive(w) == worker[w].st \in {"run", "wait"}
Fault == parent.faults < MaxFaults

-----------------------------------------------------------------------------
(* A worker: _shared_worker_main and InferenceClient.request_shared_batch. *)

\* Mutant: a task is given the slot after the last, also when one before is free.
TakesCounted(w) == Cardinality(Busy(w)) + 1

\* A task goes to the first slot that is free.
Takes(w) == CHOOSE s \in Slots \ Busy(w) : \A t \in Slots \ Busy(w) : s <= t

\* fill_slots, or the blocking get of a worker that has no game: a worker
\* without a context of its own would also take a game then.
Take(w) ==
  LET me == worker[w] IN
  /\ me.st = "run" /\ ~me.stop /\ me.tasks # <<>>
  /\ Cardinality(Busy(w)) < PerWorker(w) \/ Busy(w) = {}
  /\ worker' = [worker EXCEPT ![w] =
       IF Head(me.tasks) = Stop THEN [me EXCEPT !.tasks = Tail(@), !.stop = TRUE]
       ELSE [me EXCEPT !.tasks = Tail(@), !.active[Takes(w)] = Head(me.tasks)]]
  /\ UNCHANGED <<parent, broker>>

\* Each active game is stepped: it ends, or asks for one evaluation; all that
\* ask share one request, and the worker waits for its answer.
Step(w) ==
  LET me == worker[w] IN
  /\ me.st = "run" /\ Busy(w) # {}
  /\ \E ends \in SUBSET Busy(w) :
       LET asking == Busy(w) \ ends
           asked == [g \in Games |->
                       me.asked[g] + (IF \E s \in asking : me.active[s] = g THEN 1 ELSE 0)]
           stepped == [me EXCEPT
             !.active = [s \in Slots |-> IF s \in ends THEN Free ELSE @[s]],
             !.done = @ \cup {me.active[s] : s \in ends}]
       IN /\ \A s \in asking : me.asked[me.active[s]] < Evals
          /\ IF asking = {}
               THEN worker' = [worker EXCEPT ![w] = stepped] /\ UNCHANGED broker
               ELSE /\ worker' = [worker EXCEPT ![w] = [stepped EXCEPT
                         !.st = "wait", !.asked = asked, !.id = @ + 1, !.sent = asking,
                         !.input = [s \in Slots |->
                           IF s \in asking THEN <<me.active[s], asked[me.active[s]]>>
                           ELSE @[s]]]]
                    /\ broker' = [broker EXCEPT !.requests =
                         Append(@, [worker |-> w, id |-> me.id + 1, slots |-> asking])]
  /\ UNCHANGED parent

\* The worker reports the game as failed, leaves, and exits with 0.
Fails(me) == [me EXCEPT !.st = "exited", !.failed = TRUE]

\* _wait: the envelope must carry the id and the slots of the request.
Accepts(me, r) == r.ok /\ r.id = me.id /\ r.slots = me.sent

Resume(w) ==
  LET me == worker[w] IN
  /\ me.st = "wait" /\ me.responses # <<>>
  /\ worker' = [worker EXCEPT ![w] =
       LET got == [me EXCEPT !.responses = Tail(@), !.sent = {}] IN
       IF Accepts(me, Head(me.responses)) THEN [got EXCEPT !.st = "run"] ELSE Fails(got)]
  /\ UNCHANGED <<parent, broker>>

Exit(w) ==
  /\ worker[w].st = "run" /\ Busy(w) = {} /\ worker[w].stop
  /\ worker' = [worker EXCEPT ![w].st = "exited"]
  /\ UNCHANGED <<parent, broker>>

\* A game raises, or no answer came within inference_request_timeout_s.
GameFails(w) ==
  /\ Fault /\ Alive(w) /\ Busy(w) # {}
  /\ worker' = [worker EXCEPT ![w] = Fails(@)]
  /\ parent' = [parent EXCEPT !.faults = @ + 1]
  /\ UNCHANGED broker

\* A worker is killed; what it had not yet flushed to the parent is lost.
WorkerDies(w) ==
  /\ Fault /\ Alive(w)
  /\ \E lost \in SUBSET worker[w].done :
       worker' = [worker EXCEPT ![w] = [worker[w] EXCEPT !.st = "dead", !.done = @ \ lost]]
  /\ parent' = [parent EXCEPT !.faults = @ + 1]
  /\ UNCHANGED broker

-----------------------------------------------------------------------------
(* The broker: _ingress, _take_batch, _dispatch.                           *)

\* A request with too many rows is dropped, and the run is lost.
Ingress ==
  /\ broker.requests # <<>> /\ parent.pc \in {"loop", "join"}
  /\ LET r == Head(broker.requests)
         fits == Cardinality(r.slots) \in 1..BatchCap
     IN /\ broker' = [broker EXCEPT !.requests = Tail(@),
                                    !.queue = IF fits THEN Append(@, r) ELSE @]
        /\ parent' = [parent EXCEPT !.fatal = @ \/ ~fits]
  /\ UNCHANGED worker

RowsOf(requests) == FoldSeq(LAMBDA r, n : n + Cardinality(r.slots), 0, requests)

\* The longest prefix of the queue whose rows fit the cap; the first request always does.
Overfull(queue, n) == RowsOf(SubSeq(queue, 1, n)) > BatchCap

Prefix(queue) ==
  CHOOSE n \in 1..Len(queue) :
    /\ n = 1 \/ ~Overfull(queue, n)
    /\ n = Len(queue) \/ Overfull(queue, n + 1)

\* At the cap or at the deadline, which depends on the clock; the inputs are
\* copied from the shared slots to a staging buffer.
TakeBatch ==
  /\ broker.queue # <<>> /\ broker.batch = <<>> /\ parent.pc \in {"loop", "join"}
  /\ LET n == Prefix(broker.queue)
         staged(r) == [worker |-> r.worker, id |-> r.id, slots |-> r.slots,
                       rows |-> {<<s, worker[r.worker].input[s]>> : s \in r.slots}]
     IN broker' = [broker EXCEPT !.queue = SubSeq(@, n + 1, Len(@)),
                                 !.batch = [i \in 1..n |-> staged(broker.queue[i])]]
  /\ UNCHANGED <<parent, worker>>

\* Mutant: the answer is routed by the id of the request alone.
InBatchById(w) == {i \in DOMAIN broker.batch : broker.batch[i].id = worker[w].id}

InBatch(w) == {i \in DOMAIN broker.batch : broker.batch[i].worker = w}

Answered(w, ok) ==
  LET me == worker[w] IN
  IF InBatch(w) = {} THEN me
  ELSE LET r == broker.batch[CHOOSE i \in InBatch(w) : TRUE]
           row(s) == (CHOOSE x \in r.rows : x[1] = s)[2]
       IN [me EXCEPT
            !.responses = Append(@, [id |-> r.id, ok |-> ok, slots |-> r.slots]),
            !.output = [s \in Slots |-> IF ok /\ s \in r.slots THEN row(s) ELSE @[s]]]

\* Outputs to the shared slots, then one response for each request.
Dispatch ==
  /\ broker.batch # <<>> /\ parent.pc \in {"loop", "join"}
  /\ worker' = [w \in Workers |-> Answered(w, TRUE)]
  /\ broker' = [broker EXCEPT !.batch = <<>>]
  /\ UNCHANGED parent

\* The forward pass raises: the run is lost and each request is told so.
DispatchFails ==
  /\ Fault /\ broker.batch # <<>> /\ parent.pc \in {"loop", "join"}
  /\ worker' = [w \in Workers |-> Answered(w, FALSE)]
  /\ broker' = [broker EXCEPT !.batch = <<>>]
  /\ parent' = [parent EXCEPT !.fatal = TRUE, !.faults = @ + 1]

-----------------------------------------------------------------------------
(* The parent: run, assign_next, send_stops, _terminate.                   *)

\* All workers are terminated, with SIGKILL for those that stay, and joined.
Abort ==
  /\ parent' = [parent EXCEPT !.pc = "raised"]
  /\ worker' = [w \in Workers |-> IF Alive(w) THEN [worker[w] EXCEPT !.st = "dead"]
                                  ELSE worker[w]]
  /\ UNCHANGED broker

SeeFatal == parent.pc = "loop" /\ parent.fatal /\ Abort

SeeFailure ==
  /\ parent.pc = "loop"
  /\ \E w \in Workers : worker[w].failed /\ worker[w].done = {}
  /\ Abort

\* Mutant: only a run without workers is given up.
SeeNobody ==
  /\ parent.pc = "loop" /\ \A w \in Workers : worker[w].done = {} /\ ~worker[w].failed
  /\ \A w \in Workers : ~Alive(w)
  /\ Abort

\* A quarter of a second without an event: is someone dead, or everyone gone?
SeeDead ==
  /\ parent.pc = "loop" /\ \A w \in Workers : worker[w].done = {} /\ ~worker[w].failed
  /\ \/ \E w \in Workers : worker[w].st = "dead"
     \/ \A w \in Workers : worker[w].st = "exited"
  /\ Abort

\* assign_next: one pending game, to the worker whose game ended.
Assign(w) == IF parent.pending = <<>> THEN <<>> ELSE <<Head(parent.pending)>>

\* A record is kept and the next game is handed out; the last one stops all.
Collect(w) ==
  /\ parent.pc = "loop" /\ ~parent.fatal
  /\ \E g \in worker[w].done :
       LET given == Assign(w)
           last == parent.completed \cup {g} = Games
           told == [worker EXCEPT ![w].done = @ \ {g}, ![w].tasks = @ \o given]
       IN IF g \in parent.completed THEN Abort
          ELSE /\ parent' = [parent EXCEPT
                    !.completed = @ \cup {g}, !.pc = IF last THEN "join" ELSE @,
                    !.pending = SubSeq(@, Len(given) + 1, Len(@))]
               /\ worker' = IF last THEN [v \in Workers |-> [told[v] EXCEPT
                                                          !.tasks = Append(@, Stop)]]
                            ELSE told
               /\ UNCHANGED broker

\* Every worker must have left by itself with 0; then the broker is stopped.
Join ==
  /\ parent.pc = "join" /\ \A w \in Workers : ~Alive(w)
  /\ IF \E w \in Workers : worker[w].st = "dead" THEN Abort
     ELSE parent' = [parent EXCEPT !.pc = "returned"] /\ UNCHANGED <<worker, broker>>

\* worker_join_timeout_s passes.
JoinTimesOut ==
  /\ Fault /\ parent.pc = "join" /\ \E w \in Workers : Alive(w)
  /\ parent' = [parent EXCEPT !.pc = "raised", !.faults = @ + 1]
  /\ worker' = [w \in Workers |-> IF Alive(w) THEN [worker[w] EXCEPT !.st = "dead"]
                                  ELSE worker[w]]
  /\ UNCHANGED broker

WorkerStep(w) == Take(w) \/ Step(w) \/ Resume(w) \/ Exit(w)
BrokerStep == Ingress \/ TakeBatch \/ Dispatch
ParentStep == SeeFatal \/ SeeFailure \/ SeeDead \/ Join \/ \E w \in Workers : Collect(w)

EngineNext ==
  \/ BrokerStep \/ ParentStep \/ DispatchFails \/ JoinTimesOut
  \/ \E w \in Workers : WorkerStep(w) \/ GameFails(w) \/ WorkerDies(w)

\* Processes and threads that can go on do.
EngineFairness ==
  /\ WF_engineVars(BrokerStep) /\ WF_engineVars(ParentStep)
  /\ \A w \in Workers : WF_engineVars(WorkerStep(w))

EngineSpec == EngineInit /\ [][EngineNext]_engineVars /\ EngineFairness

-----------------------------------------------------------------------------
(* Properties.                                                             *)

\* A game goes on with the evaluation of the position it asked about, though
\* slots are reused by other games and other workers share the batch.
EvaluationIsOwn ==
  \A w \in Workers :
    LET me == worker[w] IN
    me.st = "wait" /\ me.responses # <<>> /\ Accepts(me, Head(me.responses)) =>
      \A s \in me.sent : me.output[s] = <<me.active[s], me.asked[me.active[s]]>>

Queued(w, g) == \E i \in DOMAIN worker[w].tasks : worker[w].tasks[i] = g
Played(w, g) == \E s \in Slots : worker[w].active[s] = g

\* A game is in one place: pending, with one worker (queued, played or told),
\* or collected; only a killed worker loses one.
GamesConserved ==
  \A g \in Games :
    /\ Cardinality({w \in Workers : Queued(w, g) \/ Played(w, g) \/ g \in worker[w].done})
         + (IF g \in parent.completed THEN 1 ELSE 0)
         + (IF \E i \in DOMAIN parent.pending : parent.pending[i] = g THEN 1 ELSE 0)
         = 1
         \/ \E w \in Workers : worker[w].st = "dead"
    /\ \A w \in Workers : Played(w, g) => ~Queued(w, g) /\ g \notin worker[w].done

\* Partial results are not returned, no worker outlives the run, and a run in
\* which nothing failed returns.
AllOrNothing ==
  /\ parent.pc = "returned" => parent.completed = Games
  /\ parent.pc \in {"returned", "raised"} => \A w \in Workers : ~Alive(w)
  /\ parent.pc = "raised" => parent.faults > 0

\* Every run ends, whoever dies or stays silent.
RunEnded == parent.pc \in {"returned", "raised"}
RunEnds == <>RunEnded
=============================================================================
