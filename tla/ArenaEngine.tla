------------------------------ MODULE ArenaEngine ------------------------------
(***************************************************************************)
(* One match of the Arena engine (tools/arena_engine.py, run_arena) between *)
(* a candidate and a reference: cooperative workers (tools/arena_worker.py) *)
(* that interleave games on lanes, an ingress thread that sorts what they  *)
(* send, and a parent that dispatches one model at a time.                 *)
(*                                                                         *)
(* A lane has one input slot, one output slot and one response queue; its  *)
(* two evaluators, one for each model, share them.  A slot holds the       *)
(* position <<game, move>> it was written for, and an output also names    *)
(* the model.  A move takes one evaluation.  Every task is in its queue    *)
(* before a worker starts; a worker that is killed is always noticed, so   *)
(* what it had not flushed is not modelled.                                *)
(***************************************************************************)
EXTENDS Integers, Sequences, FiniteSets, SequencesExt

CONSTANTS
  NumGames,           \* games of the match
  NumWorkers,         \* config.workers
  Lanes,              \* config.games_per_worker
  BatchCap,           \* config.inference_batch_rows
  Moves,              \* bound: moves of a game
  MaxFaults,          \* bound: late answers, bad evaluations, deaths, timeouts
  ErrorsAreTechnical  \* summarize counts search errors (Torus9), or not (Cube)

MatchAssumption ==
  /\ {NumGames, NumWorkers, Lanes, BatchCap, Moves} \subseteq Nat \ {0}
  /\ MaxFaults \in Nat /\ ErrorsAreTechnical \in BOOLEAN

VARIABLES
  parent,  \* run_arena: where it stands, what the workers reported, the verdict
  worker,  \* run_cooperative_arena_worker of each worker
  broker   \* the request queue, control_pending, the scheduler, the batch

matchVars == <<parent, worker, broker>>

Games == 1..NumGames
Workers == 1..NumWorkers
LaneIds == 1..Lanes
Roles == {"candidate", "reference"}
Free == 0
None == "none"
Blank == <<None, 0, 0>>

\* The sides alternate, and pairs of games swap the colours.
RoleOf(g, m) == IF (g + m) % 2 = 0 THEN "candidate" ELSE "reference"

\* The tasks go round the workers, which have at first as many as they have
\* lanes; those beyond the lanes are for everyone.
Share(w) ==
  LET turns == (NumGames - w) \div NumWorkers + 1 IN IF turns < Lanes THEN turns ELSE Lanes
Initial(w) == [k \in 1..Share(w) |-> (k - 1) * NumWorkers + w]
Global == [k \in 1..NumGames - Lanes * NumWorkers |-> Lanes * NumWorkers + k]

\* `foreign` is history: the game consumed another position's evaluation.
IdleLane == [game |-> Free, move |-> 0, role |-> None, foreign |-> FALSE]
Outcomes == {"ok", "foreign", "error"}

MatchInit ==
  /\ parent = [pc |-> "barrier", tasks |-> Global, done |-> {}, records |-> <<>>,
               verdict |-> None, faults |-> 0]
  /\ worker = [w \in Workers |->
       [st |-> "new", tasks |-> Initial(w), lane |-> [l \in LaneIds |-> IdleLane],
        ticket |-> [l \in LaneIds |-> [r \in Roles |-> 0]],
        held |-> [l \in LaneIds |-> [r \in Roles |-> 0]],
        input |-> [l \in LaneIds |-> <<0, 0>>], output |-> [l \in LaneIds |-> Blank],
        answers |-> [l \in LaneIds |-> <<>>], records |-> <<>>]]
  /\ broker = [inbox |-> <<>>, control |-> <<>>, queue |-> [r \in Roles |-> <<>>],
               batch |-> <<>>]

Positions == {<<0, 0>>} \cup (Games \X (1..Moves))

MatchTypeOK ==
  /\ parent.pc \in {"barrier", "loop", "join", "complete", "raised"}
  /\ parent.tasks \in Seq(Games) /\ parent.done \subseteq Workers
  /\ parent.records \in Seq(Games \X Outcomes) /\ parent.faults \in 0..MaxFaults
  /\ parent.verdict \in {None, "VALID", "TECHNICAL"}
  /\ \A w \in Workers :
       /\ worker[w].st \in {"new", "ready", "run", "left", "exited", "dead"}
       /\ worker[w].tasks \in Seq(Games) /\ worker[w].records \in Seq(Games \X Outcomes)
       /\ \A l \in LaneIds :
            /\ worker[w].lane[l] \in [game : Games \cup {Free}, move : 0..Moves,
                                      role : Roles \cup {None}, foreign : BOOLEAN]
            /\ worker[w].input[l] \in Positions

Alive(w) == worker[w].st \notin {"exited", "dead"}
Fault == parent.faults < MaxFaults
Faulted == parent' = [parent EXCEPT !.faults = @ + 1]
Busy(me) == {l \in LaneIds : me.lane[l].game # Free}
FirstFree(me) == CHOOSE l \in LaneIds \ Busy(me) : \A k \in LaneIds \ Busy(me) : l <= k

-----------------------------------------------------------------------------
(* A worker.                                                               *)

Ready(w) ==
  /\ worker[w].st = "new"
  /\ worker' = [worker EXCEPT ![w].st = "ready"]
  /\ UNCHANGED <<parent, broker>>

\* fill_lanes, start_lane: its own tasks first, then those of everyone.
StartLane(w) ==
  LET me == worker[w]
      seated(g) == [me EXCEPT !.lane[FirstFree(me)] =
                      [game |-> g, move |-> 1, role |-> None, foreign |-> FALSE]]
  IN /\ me.st = "run" /\ Busy(me) # LaneIds
     /\ \/ /\ me.tasks # <<>>
           /\ worker' = [worker EXCEPT ![w] = [seated(Head(me.tasks)) EXCEPT !.tasks = Tail(@)]]
           /\ UNCHANGED parent
        \/ /\ me.tasks = <<>> /\ parent.tasks # <<>>
           /\ worker' = [worker EXCEPT ![w] = seated(Head(parent.tasks))]
           /\ parent' = [parent EXCEPT !.tasks = Tail(@)]
     /\ UNCHANGED broker

Finish(me, l, outcome) ==
  [me EXCEPT !.records = Append(@, <<me.lane[l].game, outcome>>), !.lane[l] = IdleLane]

\* start_or_advance_lane: the search asks for an evaluation.  An evaluator that
\* still holds a request refuses, which ends the game with a search error.
AdvanceLane(w, l) ==
  LET me == worker[w]
      r == RoleOf(me.lane[l].game, me.lane[l].move)
      t == me.ticket[l][r] + 1
  IN /\ me.st = "run" /\ l \in Busy(me) /\ me.lane[l].role = None
     /\ IF me.held[l][r] # 0
          THEN worker' = [worker EXCEPT ![w] = Finish(me, l, "error")] /\ UNCHANGED broker
          ELSE /\ worker' = [worker EXCEPT ![w] =
                    [me EXCEPT !.lane[l].role = r, !.ticket[l][r] = t, !.held[l][r] = t,
                               !.input[l] = <<me.lane[l].game, me.lane[l].move>>]]
               /\ broker' = [broker EXCEPT !.inbox = Append(@,
                    [kind |-> "inference", worker |-> w, lane |-> l, role |-> r, ticket |-> t])]
     /\ UNCHANGED parent

\* What poll compares: the model and the ticket of the pending request.
Expected(me, l, a) == a.role = me.lane[l].role /\ a.ticket = me.held[l][me.lane[l].role]

\* Mutant: the limit is noticed one move late.
OverLate(lane) == lane.move > Moves

\* The game is over, at the latest with its last move.
Over(lane) == lane.move = Moves

\* The move is played; the evaluation is read from the lane's output slot.
Played(me, l) ==
  LET lane == me.lane[l]
      foreign == lane.foreign \/ me.output[l] # <<lane.role, lane.game, lane.move>>
      on == [me EXCEPT !.held[l][lane.role] = 0]
  IN IF Over(lane) THEN Finish(on, l, IF foreign THEN "foreign" ELSE "ok")
     ELSE [on EXCEPT !.lane[l] = [game |-> lane.game, move |-> lane.move + 1,
                                  role |-> None, foreign |-> foreign]]

\* poll: any other answer ends the game, and the evaluator keeps its request.
PollLane(w, l) ==
  LET me == worker[w]
      got == [me EXCEPT !.answers[l] = Tail(@)]
  IN /\ me.st = "run" /\ l \in Busy(me) /\ me.lane[l].role # None /\ me.answers[l] # <<>>
     /\ worker' = [worker EXCEPT ![w] =
          IF Expected(me, l, Head(me.answers[l])) THEN Played(got, l)
          ELSE Finish(got, l, "error")]
     /\ UNCHANGED <<parent, broker>>

\* The search raises or, as a request that is pending, ARENA_INFERENCE_TIMEOUT_SEC
\* passes or the evaluation is not finite: the request stays with its evaluator.
LaneFails(w, l) ==
  LET me == worker[w] IN
  /\ Fault /\ me.st = "run" /\ l \in Busy(me)
  /\ \E answers \in {me.answers[l]} \cup {Tail(me.answers[l]) : x \in {1} \cap DOMAIN me.answers[l]} :
       worker' = [worker EXCEPT ![w] =
         [Finish(me, l, "error") EXCEPT !.answers[l] = answers]]
  /\ Faulted /\ UNCHANGED broker

\* Without a game and without a task for a second: one message with all records.
Leave(w) ==
  LET me == worker[w] IN
  /\ me.st = "run" /\ Busy(me) = {} /\ me.tasks = <<>> /\ parent.tasks = <<>>
  /\ worker' = [worker EXCEPT ![w].st = "left"]
  /\ broker' = [broker EXCEPT !.inbox =
       Append(@, [kind |-> "done", worker |-> w, records |-> me.records])]
  /\ UNCHANGED parent

Exit(w) ==
  /\ worker[w].st = "left"
  /\ worker' = [worker EXCEPT ![w].st = "exited"]
  /\ UNCHANGED <<parent, broker>>

\* What escapes the lanes is reported, and the process exits with 0.
WorkerRaises(w) ==
  /\ Fault /\ worker[w].st \in {"ready", "run"}
  /\ worker' = [worker EXCEPT ![w].st = "exited"]
  /\ broker' = [broker EXCEPT !.inbox = Append(@, [kind |-> "error", worker |-> w])]
  /\ Faulted

WorkerDies(w) ==
  /\ Fault /\ Alive(w)
  /\ worker' = [worker EXCEPT ![w].st = "dead"]
  /\ Faulted /\ UNCHANGED broker

-----------------------------------------------------------------------------
(* The broker: _ArenaBrokerIngress, and the dispatch of run_arena.         *)

\* Requests go to the queue of their model, all else to control_pending.
Ingress ==
  /\ broker.inbox # <<>> /\ parent.pc = "loop"
  /\ LET m == Head(broker.inbox) IN
     broker' = IF m.kind = "inference"
               THEN [broker EXCEPT !.inbox = Tail(@), !.queue[m.role] = Append(@, m)]
               ELSE [broker EXCEPT !.inbox = Tail(@), !.control = Append(@, m)]
  /\ UNCHANGED <<parent, worker>>

Dead == {w \in Workers : worker[w].st = "dead"}

\* next_ready_model, pop_batch and the copy of the inputs.  Which model is
\* ready depends on the clock and the turn; control messages come first.
TakeBatch ==
  /\ parent.pc = "loop" /\ parent.done # Workers
  /\ broker.control = <<>> /\ broker.batch = <<>> /\ Dead = {}
  /\ \E r \in Roles :
       LET n == IF Len(broker.queue[r]) < BatchCap THEN Len(broker.queue[r]) ELSE BatchCap
       IN /\ n > 0
          /\ broker' = [broker EXCEPT !.queue[r] = SubSeq(@, n + 1, Len(@)),
                !.batch = [i \in 1..n |->
                  LET q == broker.queue[r][i]
                  IN [worker |-> q.worker, lane |-> q.lane, role |-> r, ticket |-> q.ticket,
                      position |-> worker[q.worker].input[q.lane]]]]
  /\ UNCHANGED <<parent, worker>>

\* An evaluator has one request under way, so a batch has one row of a lane at most.
RowsFor(w, l) ==
  {i \in DOMAIN broker.batch : broker.batch[i].worker = w /\ broker.batch[i].lane = l}
RowFor(w, l) == broker.batch[CHOOSE i \in RowsFor(w, l) : TRUE]

\* The rows go to the output slots, then a response to the lane of each.
Answer ==
  /\ broker.batch # <<>>
  /\ worker' = [w \in Workers |-> [worker[w] EXCEPT
       !.answers = [l \in LaneIds |->
         IF RowsFor(w, l) = {} THEN @[l]
         ELSE Append(@[l], [role |-> RowFor(w, l).role, ticket |-> RowFor(w, l).ticket])],
       !.output = [l \in LaneIds |->
         IF RowsFor(w, l) = {} THEN @[l]
         ELSE <<RowFor(w, l).role, RowFor(w, l).position[1], RowFor(w, l).position[2]>>]]]
  /\ broker' = [broker EXCEPT !.batch = <<>>]
  /\ UNCHANGED parent

-----------------------------------------------------------------------------
(* The parent.                                                             *)

\* _terminate: whoever is alive gets SIGTERM, and the error goes up.
Abort(faults) ==
  /\ parent' = [parent EXCEPT !.pc = "raised", !.faults = @ + faults]
  /\ worker' = [w \in Workers |-> IF Alive(w) THEN [worker[w] EXCEPT !.st = "dead"]
                                  ELSE worker[w]]

Start ==
  /\ parent.pc = "barrier"
  /\ \A w \in Workers : worker[w].st = "ready"
  /\ worker' = [w \in Workers |-> [worker[w] EXCEPT !.st = "run"]]
  /\ parent' = [parent EXCEPT !.pc = "loop"]
  /\ UNCHANGED broker

\* Someone has died or reported an error before everyone was ready.
BarrierFails ==
  /\ parent.pc = "barrier" /\ \E w \in Workers : ~Alive(w)
  /\ Abort(0) /\ UNCHANGED broker

BarrierTimesOut ==
  /\ Fault /\ parent.pc = "barrier" /\ \E w \in Workers : worker[w].st = "new"
  /\ Abort(1) /\ UNCHANGED broker

\* handle_non_inference; the loop ends when everyone is done.
HandleControl ==
  /\ parent.pc = "loop" /\ broker.control # <<>> /\ broker.batch = <<>>
  /\ LET m == Head(broker.control)
         done == parent.done \cup {m.worker}
     IN IF m.kind = "error" THEN Abort(0) /\ UNCHANGED broker
        ELSE /\ parent' = [parent EXCEPT !.done = done, !.records = @ \o m.records,
                             !.pc = IF done = Workers THEN "join" ELSE @]
             /\ broker' = [broker EXCEPT !.control = Tail(@)]
             /\ UNCHANGED worker

SeeDead ==
  /\ parent.pc = "loop" /\ broker.control = <<>> /\ broker.batch = <<>> /\ Dead # {}
  /\ Abort(0) /\ UNCHANGED broker

InferenceFails ==
  /\ Fault /\ broker.batch # <<>>
  /\ Abort(1)
  /\ broker' = [broker EXCEPT !.batch = <<>>]

Errors == {i \in DOMAIN parent.records : parent.records[i][2] = "error"}

\* Mutant: the summary of the torus profile counts as that of the cube does.
TechnicalNever == 0 * Cardinality(Errors)

\* The games that summarize counts as technical.
Technical == IF ErrorsAreTechnical THEN Cardinality(Errors) ELSE 0

\* All left with 0: summarize, the gates, and the status of the boundary.
Summarize ==
  /\ parent.pc = "join" /\ \A w \in Workers : ~Alive(w)
  /\ IF Dead # {} THEN Abort(0)
     ELSE /\ parent' = [parent EXCEPT !.pc = "complete",
               !.verdict = IF Technical = 0 THEN "VALID" ELSE "TECHNICAL"]
          /\ UNCHANGED worker
  /\ UNCHANGED broker

\* A worker does not exit within 15 seconds.
JoinTimesOut ==
  /\ Fault /\ parent.pc = "join" /\ \E w \in Workers : Alive(w)
  /\ Abort(1)
  /\ UNCHANGED broker

WorkerStep(w) ==
  \/ Ready(w) \/ StartLane(w) \/ Leave(w) \/ Exit(w)
  \/ \E l \in LaneIds : AdvanceLane(w, l) \/ PollLane(w, l)
ParentStep ==
  Start \/ BarrierFails \/ HandleControl \/ SeeDead \/ TakeBatch \/ Answer \/ Summarize

MatchNext ==
  \/ ParentStep \/ Ingress \/ InferenceFails \/ BarrierTimesOut \/ JoinTimesOut
  \/ \E w \in Workers :
       \/ WorkerStep(w) \/ WorkerRaises(w) \/ WorkerDies(w)
       \/ \E l \in LaneIds : LaneFails(w, l)

\* Processes and threads that can go on do.
MatchFairness ==
  /\ WF_matchVars(ParentStep) /\ WF_matchVars(Ingress)
  /\ \A w \in Workers : WF_matchVars(WorkerStep(w))

MatchSpec == MatchInit /\ [][MatchNext]_matchVars /\ MatchFairness

-----------------------------------------------------------------------------
(* Properties.                                                             *)

\* A match that counts as VALID played every game once, to its end, and on
\* evaluations of its own positions: a late answer of a request that was given
\* up may reach a slot that another game uses, but then the match does not count.
ValidIsClean ==
  parent.verdict = "VALID" =>
    /\ Len(parent.records) = NumGames
    /\ ToSet(parent.records) = Games \X {"ok"}

\* The match ends, with a verdict or an error, and leaves no worker behind.
MatchEnded == parent.pc \in {"complete", "raised"} /\ \A w \in Workers : ~Alive(w)
MatchEnds == <>MatchEnded
=============================================================================
