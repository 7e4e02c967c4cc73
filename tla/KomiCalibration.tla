--------------------------- MODULE KomiCalibration ---------------------------
(***************************************************************************)
(* Komi calibration (scenarios/komi/runner.py, production_runner.py,       *)
(* policy.py) beside the training lineage it takes its parent from: it     *)
(* waits for the parent's checkpoint, asks that lineage to stop, plays the *)
(* candidates' games, extends an ambiguous result by a second batch, and   *)
(* hands the winner to a child lineage.                                    *)
(*                                                                         *)
(* Two candidates, 1 (komi 1.5) and 2 (komi 2.5), are the production case. *)
(* What the games say is fixed but unknown: world.first is the verdict on  *)
(* the first batches ("close" when the biases differ by less than the      *)
(* threshold), world.second that on the second ones, world.total that on   *)
(* both together.                                                          *)
(***************************************************************************)
EXTENDS ContinuousTraining

CONSTANTS
  PinAt,        \* the parent's generation (137)
  MaxTroubles   \* bound: crashes of the calibration, failures of what it calls

VARIABLE calib  \* state.json of the calibration (stage ... child), the process
                \* (pc, at) and the history of it

calibVars == <<vars, calib>>

Komis == {1, 2}
Batches == {1, 2}
Absent == 0
Aggregate == 3   \* a published aggregate; 1 or 2: the result of that batch

\* The batches in the order in which they are played.
Work == <<[komi |-> 1, batch |-> 1], [komi |-> 2, batch |-> 1],
          [komi |-> 1, batch |-> 2], [komi |-> 2, batch |-> 2]>>

Worlds == [first : Komis \cup {0}, second : Komis, total : Komis]
Close == 0

Stages == {"WAITING_FOR_M137", "STOPPING_PARENT", "M137_PINNED", "CANDIDATE",
           "EXTENSION", "KOMI_SELECTED", "CHILD_LINEAGE_CREATED",
           "TRAINING_RESUMED", "COMPLETE_HANDOFF", "CALIBRATION_FAILED"}

CalibTypeOK ==
  calib \in [stage : Stages, pinned : BOOLEAN, requested : BOOLEAN, acked : BOOLEAN,
             cand : [Komis -> {Absent, 1, 2, Aggregate}], ledger : [Komis -> SUBSET Batches],
             selected : {0} \cup Komis, child : BOOLEAN,
             pc : {"down", "wait", "stopping", "pin", "ack", "begin", "play", "publish",
                   "choose", "prepare", "train", "ended"},
             at : 1..5, world : Worlds, troubles : 0..MaxTroubles, cause : BOOLEAN]

CalibInit ==
  /\ Init
  /\ \E world \in Worlds :
       calib = [stage |-> "WAITING_FOR_M137", pinned |-> FALSE, requested |-> FALSE,
                acked |-> FALSE, cand |-> [k \in Komis |-> Absent],
                ledger |-> [k \in Komis |-> {}], selected |-> 0, child |-> FALSE,
                pc |-> "down", at |-> 1, world |-> world, troubles |-> 0, cause |-> FALSE]

To(label) == [calib EXCEPT !.pc = label]

\* _fail: the calibration fails closed and is not resumed.
Failed(c) == [c EXCEPT !.stage = "CALIBRATION_FAILED", !.pc = "ended"]

-----------------------------------------------------------------------------
(* run, up to the first candidate.                                         *)

\* A run that finds the parent pinned goes on from there.
CalibLaunch ==
  /\ calib.pc = "down"
  /\ calib' = [To(CASE calib.stage \in {"COMPLETE_HANDOFF", "CALIBRATION_FAILED"} -> "ended"
                    [] calib.pinned -> "stopping"
                    [] OTHER -> "wait") EXCEPT !.at = 1]
  /\ UNCHANGED vars

\* _obtain_m137: the committed checkpoint, and no later one, is waited for.
ObtainParent ==
  /\ calib.pc = "wait" /\ disk.committed >= PinAt
  /\ calib' = [To("stopping") EXCEPT !.stage = "STOPPING_PARENT"]
  /\ UNCHANGED vars

\* _request_parent_soft_stop, then parent_stop_requested.
StopParent ==
  /\ calib.pc = "stopping"
  /\ disk' = [disk EXCEPT !.stop = @ \/ ~calib.requested]
  /\ calib' = To("pin")
  /\ UNCHANGED <<mem, env>>

Pin ==
  /\ calib.pc = "pin"
  /\ calib' = [To("ack") EXCEPT
       !.requested = TRUE, !.pinned = TRUE,
       !.stage = IF @ \in {"WAITING_FOR_M137", "STOPPING_PARENT"} THEN "M137_PINNED" ELSE @]
  /\ UNCHANGED vars

-----------------------------------------------------------------------------
(* The candidates: production_runner's _run_candidate around the base one. *)

Item == Work[calib.at]

\* _await_parent_soft_stop: nothing to wait for where there is no request;
\* else the parent's state must say that it stopped and runs no generation.
Await ==
  /\ calib.pc = "ack"
  /\ \/ /\ calib.acked \/ ~disk.stop
        /\ calib' = To("begin")
     \/ /\ ~calib.acked /\ disk.stop
        /\ disk.life \in {"SOFT_STOPPED", "COMPLETED"} /\ disk.active = 0
        /\ calib' = [To("begin") EXCEPT !.acked = TRUE]
  /\ UNCHANGED vars

\* Six hours without an acknowledgement.
AwaitTimesOut ==
  /\ calib.pc = "ack" /\ ~calib.acked /\ disk.stop /\ calib.troubles < MaxTroubles
  /\ ~(disk.life \in {"SOFT_STOPPED", "COMPLETED"} /\ disk.active = 0)
  /\ calib' = [Failed(calib) EXCEPT !.troubles = @ + 1, !.cause = TRUE]
  /\ UNCHANGED vars

\* _capture_current_candidate: a result that is no aggregate goes to the ledger.
Captured(k) ==
  IF calib.cand[k] \in Batches THEN [calib.ledger EXCEPT ![k] = @ \cup {calib.cand[k]}]
  ELSE calib.ledger

AfterItem == IF calib.at \in {2, 4} THEN "choose" ELSE "ack"

\* _publish_aggregate of contiguous batches.
Published(k) ==
  [To(AfterItem) EXCEPT !.ledger = Captured(k), !.cand[k] = Aggregate, !.at = @ + 1]

\* A batch on the ledger is not played again; one in the candidate's place
\* is captured before the next result takes that place.
Begin ==
  /\ calib.pc = "begin"
  /\ LET k == Item.komi
         ledger == Captured(k)
     IN calib' =
          IF Item.batch \in ledger[k] THEN Published(k)
          ELSE IF Item.batch = 2 /\ 1 \notin ledger[k] THEN Failed(calib)
          ELSE [To("play") EXCEPT !.ledger = ledger,
                                  !.stage = IF Item.batch = 1 THEN "CANDIDATE" ELSE "EXTENSION"]
  /\ UNCHANGED vars

\* The Arena returns a valid result with the right number of games.
Play ==
  /\ calib.pc = "play"
  /\ calib' = [To("publish") EXCEPT !.cand[Item.komi] = Item.batch]
  /\ UNCHANGED vars

PlayFails ==
  /\ calib.pc = "play" /\ calib.troubles < MaxTroubles
  /\ calib' = [Failed(calib) EXCEPT !.troubles = @ + 1, !.cause = TRUE]
  /\ UNCHANGED vars

Publish ==
  /\ calib.pc = "publish"
  /\ calib' = Published(Item.komi)
  /\ UNCHANGED vars

-----------------------------------------------------------------------------
(* _select_or_extend and select_komi.                                      *)

\* Mutant: the extension batch alone decides.
CumulativeExtensionOnly(world) == world.second

Cumulative(world) == world.total

\* The verdict when both batches of every candidate are there.
Choose ==
  /\ calib.pc = "choose"
  /\ LET evidence == [k \in Komis |-> Captured(k)[k]]
     IN calib' =
          IF \E k \in Komis : 1 \notin evidence[k] THEN Failed(calib)
          ELSE IF calib.world.first = Close
            THEN (IF calib.at < 5 THEN [To("ack") EXCEPT !.stage = "EXTENSION"]
                  ELSE IF \E k \in Komis : evidence[k] # Batches THEN Failed(calib)
                  ELSE [To("prepare") EXCEPT !.selected = Cumulative(calib.world)])
            ELSE [To("prepare") EXCEPT !.selected = calib.world.first]
  /\ UNCHANGED vars

-----------------------------------------------------------------------------
(* The handoff.                                                            *)

\* KOMI_SELECTED, _create_child, CHILD_LINEAGE_CREATED, TRAINING_RESUMED:
\* each is written, and preparing the child's lineage can be repeated.
Handoff ==
  /\ calib.pc = "prepare"
  /\ calib' = CASE calib.stage \in {"CHILD_LINEAGE_CREATED"} ->
                     [calib EXCEPT !.stage = "TRAINING_RESUMED"]
                [] calib.stage = "KOMI_SELECTED" ->
                     [calib EXCEPT !.stage = "CHILD_LINEAGE_CREATED"]
                [] calib.stage = "TRAINING_RESUMED" -> To("train")
                [] OTHER -> [calib EXCEPT !.stage = "KOMI_SELECTED"]
  /\ UNCHANGED vars

\* The child's ContinuousTrainingRunnerV2 returns after n generations, at its
\* target or at a soft stop; its last checkpoint must descend from the parent
\* at one remove.
ChildReturns ==
  /\ calib.pc = "train"
  /\ \E n \in 0..2 :
       calib' = IF n = 1 \/ calib.child
                  THEN [To("ended") EXCEPT !.child = TRUE, !.stage = "COMPLETE_HANDOFF"]
                  ELSE Failed(calib)
  /\ UNCHANGED vars

ChildFails ==
  /\ calib.pc = "train" /\ calib.troubles < MaxTroubles
  /\ calib' = [Failed(calib) EXCEPT !.troubles = @ + 1, !.cause = TRUE]
  /\ UNCHANGED vars

CalibCrash ==
  /\ calib.pc \notin {"down", "ended"} /\ calib.troubles < MaxTroubles
  /\ calib' = [To("down") EXCEPT !.troubles = @ + 1, !.at = 1]
  /\ UNCHANGED vars

CalibStep ==
  \/ CalibLaunch \/ ObtainParent \/ StopParent \/ Pin \/ Await \/ Begin \/ Play
  \/ Publish \/ Choose \/ Handoff \/ ChildReturns

CalibNext ==
  \/ CalibStep \/ AwaitTimesOut \/ PlayFails \/ ChildFails \/ CalibCrash
  \/ Next /\ UNCHANGED calib

CalibSpec ==
  CalibInit /\ [][CalibNext]_calibVars /\ Fairness /\ WF_calibVars(CalibStep)

-----------------------------------------------------------------------------
(* Properties.                                                             *)

\* The selected komi is the one that the whole evidence favours: the first
\* batches unless they are close, and both batches together if they are,
\* whatever crash came between a result and its aggregate.
WinnerIsCumulative ==
  calib.selected # 0 =>
    LET world == calib.world IN
      /\ calib.selected = IF world.first = Close THEN world.total ELSE world.first
      /\ \A k \in Komis : (IF world.first = Close THEN Batches ELSE {1}) \subseteq calib.ledger[k]

\* A crash never fails the calibration: before the handoff it fails only
\* because an Arena failed or the parent did not stop in time.
FailsForCause ==
  calib.stage = "CALIBRATION_FAILED" => calib.cause \/ calib.selected # 0

\* The calibration ends, or its parent waits for the operator.
Calibrated == calib.pc = "ended" \/ disk.halt
Calibrates == <>Calibrated

=============================================================================
