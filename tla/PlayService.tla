------------------------------ MODULE PlayService ------------------------------
(***************************************************************************)
(* The Protocol V1 service: HTTP threads that answer a move or play a whole  *)
(* game with published checkpoints (alphazero/envs/gocube/integration/:      *)
(* server.py, service.py, model_cache.py, golden_models.py, catalog.py,      *)
(* golden_move.py, golden_generation.py).  Models are kept in a bounded      *)
(* cache that loads each of them once however many threads want it; moves    *)
(* and games have a capacity that is never waited for.                      *)
(*                                                                         *)
(* The catalog walks the run storage on every request, so a checkpoint may   *)
(* be archived, discarded or made anew between any two looks.               *)
(***************************************************************************)
EXTENDS Integers, Sequences, FiniteSets, SequencesExt

CONSTANTS
  Ids,             \* published checkpoints
  NumRequests,     \* bound: requests, a thread each
  MaxEntries,      \* models the cache keeps
  MoveConcurrency, \* moves searched at a time
  MaxChanges       \* bound: changes of the storage, and searches that fail

ServiceAssumption ==
  /\ {MaxEntries, MoveConcurrency} \subseteq Nat \ {0} /\ {NumRequests, MaxChanges} \subseteq Nat

VARIABLES
  store, \* each checkpoint's artifact: its content, and in which place it lies
  req,   \* each request
  svc    \* the cache, its flights, and what is left of the capacity

Requests == 1..NumRequests
Nothing == 0     \* no artifact; 1 is the content that was published first, 2 a later one

Idle == [pc |-> "idle", kind |-> "move", ids |-> <<>>, place |-> 0, models |-> <<>>, got |-> Nothing]

ServiceInit ==
  /\ store = [content |-> [i \in Ids |-> 1], place |-> [i \in Ids |-> 1]]
  /\ req = [r \in Requests |-> Idle]
  /\ svc = [entries |-> <<>>, flight |-> [i \in Ids |-> 0], moves |-> MoveConcurrency,
            game |-> 0, troubled |-> {}, replaced |-> {}, changes |-> 0]

\* The model a request wants next, and whether it has all it needs.
Wanted(r) == req[r].ids[Len(req[r].models) + 1]
Complete(models, r) == Len(models) = Len(req[r].ids)
Listed(i) == store.content[i] # Nothing

Goto(r, pc) == req' = [req EXCEPT ![r].pc = pc]
Ended(r, outcome) == [Idle EXCEPT !.pc = outcome, !.kind = req[r].kind, !.ids = req[r].ids]

\* Every way out of a request that was admitted releases what it holds.
Released(r) ==
  IF req[r].kind = "move" THEN [svc EXCEPT !.moves = @ + 1] ELSE [svc EXCEPT !.game = 0]
Leave(r, outcome) == req' = [req EXCEPT ![r] = Ended(r, outcome)] /\ svc' = Released(r)

-----------------------------------------------------------------------------
(* A request.                                                              *)

\* The ids a request names: one for a move, and for a game of a checkpoint with
\* itself.
Sides == {<<i>> : i \in Ids}
Games == Sides \cup {<<i, j>> : i, j \in Ids}

\* A request that is well formed, looked up in the catalog.
Ask(r) ==
  /\ req[r].pc = "idle" /\ (r > 1 => req[r - 1].pc # "idle") /\ UNCHANGED <<store, svc>>
  /\ \E kind \in {"move", "game"} : \E ids \in IF kind = "move" THEN Sides ELSE Games :
       /\ Len(ids) = 2 => ids[1] # ids[2]
       /\ req' = [req EXCEPT ![r].kind = kind, ![r].ids = ids,
                    ![r].pc = IF \A k \in DOMAIN ids : Listed(ids[k]) THEN "admit" ELSE "not_found"]

Admit(r) ==
  /\ req[r].pc = "admit" /\ UNCHANGED store
  /\ \/ /\ req[r].kind = "move" /\ svc.moves > 0
        /\ Goto(r, "describe") /\ svc' = [svc EXCEPT !.moves = @ - 1]
     \/ /\ req[r].kind = "game" /\ svc.game = 0
        /\ Goto(r, "describe") /\ svc' = [svc EXCEPT !.game = r]
     \/ /\ IF req[r].kind = "move" THEN svc.moves = 0 ELSE svc.game # 0
        /\ Goto(r, "busy") /\ UNCHANGED svc

\* GoldenCheckpointLoader.load looks in the catalog again.
Describe(r) ==
  /\ req[r].pc = "describe" /\ UNCHANGED store
  /\ \/ /\ Listed(Wanted(r)) /\ UNCHANGED svc
        /\ req' = [req EXCEPT ![r].pc = "lookup", ![r].place = store.place[Wanted(r)]]
     \/ ~Listed(Wanted(r)) /\ Leave(r, "failed")

Cached(i) == {k \in DOMAIN svc.entries : svc.entries[k].id = i}

\* A model it has got: the next one, or the search.
With(r, content) ==
  LET models == Append(req[r].models, [id |-> Wanted(r), content |-> content])
  IN  [req[r] EXCEPT !.models = models, !.got = Nothing, !.place = 0,
                     !.pc = IF Complete(models, r) THEN "play" ELSE "describe"]

\* get_or_load, up to the loader, under the lock of the cache.
Hit(r) ==
  /\ req[r].pc = "lookup" /\ UNCHANGED store
  /\ \E k \in Cached(Wanted(r)) :
       /\ svc' = [svc EXCEPT !.entries = Append(RemoveAt(@, k), svc.entries[k])]
       /\ req' = [req EXCEPT ![r] = With(r, svc.entries[k].content)]

Miss(r) ==
  /\ req[r].pc = "lookup" /\ Cached(Wanted(r)) = {} /\ UNCHANGED store
  /\ \/ /\ svc.flight[Wanted(r)] = 0 /\ Goto(r, "loading")
        /\ svc' = [svc EXCEPT !.flight[Wanted(r)] = r]
     \/ svc.flight[Wanted(r)] # 0 /\ Goto(r, "waiting") /\ UNCHANGED svc

\* The owner of a flight reads the artifact where the catalog saw it.
ReadArtifact(r) ==
  /\ req[r].pc = "loading" /\ UNCHANGED <<store, svc>>
  /\ LET i == Wanted(r)
         loads == Listed(i) /\ store.place[i] = req[r].place
     IN  req' = [req EXCEPT ![r].pc = IF loads THEN "loaded" ELSE "unloadable",
                            ![r].got = IF loads THEN store.content[i] ELSE Nothing]

\* The event of a flight: whoever waits on it has its value, or its error.
Woken(i, content, except) ==
  [w \in Requests |->
     IF w # except /\ req[w].pc = "waiting" /\ Wanted(w) = i
       THEN [req[w] EXCEPT !.pc = "woken", !.got = content] ELSE req[w]]

Newest(entries) ==
  IF Len(entries) > MaxEntries THEN SubSeq(entries, Len(entries) - MaxEntries + 1, Len(entries))
  ELSE entries

Insert(r) ==
  /\ req[r].pc = "loaded" /\ UNCHANGED store
  /\ LET i == Wanted(r)
         entry == [id |-> i, content |-> req[r].got]
     IN  /\ svc' = [svc EXCEPT !.flight[i] = 0, !.entries = Newest(Append(@, entry))]
         /\ req' = [Woken(i, req[r].got, r) EXCEPT ![r] = With(r, req[r].got)]

\* A mutant: a load that fails stays in flight, and its error is for ever.
FailsForEver(r) ==
  /\ req[r].pc = "unloadable" /\ UNCHANGED store
  /\ svc' = Released(r) /\ req' = [Woken(Wanted(r), Nothing, r) EXCEPT ![r] = Ended(r, "failed")]

LoadFails(r) ==
  /\ req[r].pc = "unloadable" /\ UNCHANGED store
  /\ svc' = [Released(r) EXCEPT !.flight[Wanted(r)] = 0]
  /\ req' = [Woken(Wanted(r), Nothing, r) EXCEPT ![r] = Ended(r, "failed")]

Wake(r) ==
  /\ req[r].pc = "woken" /\ UNCHANGED store
  /\ \/ req[r].got # Nothing /\ req' = [req EXCEPT ![r] = With(r, req[r].got)] /\ UNCHANGED svc
     \/ req[r].got = Nothing /\ Leave(r, "failed")

\* The search of one move, or a game to its end.
Play(r) == req[r].pc = "play" /\ Leave(r, "answered") /\ UNCHANGED store

RequestStep(r) ==
  \/ Ask(r) \/ Admit(r) \/ Describe(r) \/ Hit(r) \/ Miss(r) \/ ReadArtifact(r)
  \/ Insert(r) \/ LoadFails(r) \/ Wake(r) \/ Play(r)

-----------------------------------------------------------------------------
(* What may go wrong.                                                      *)

Change(w) == svc.changes < MaxChanges /\ svc' = [w EXCEPT !.changes = @ + 1]

\* An illegal result, an error of the device, a game over its limit.
SearchFails(r) ==
  /\ req[r].pc = "play" /\ Change(Released(r)) /\ UNCHANGED store
  /\ req' = [req EXCEPT ![r] = Ended(r, "search_failed")]

Archive(i) ==
  /\ Listed(i) /\ store.place[i] = 1 /\ store' = [store EXCEPT !.place[i] = 2]
  /\ Change([svc EXCEPT !.troubled = @ \cup {i}]) /\ UNCHANGED req

\* Only what is not archived is discarded.
Discard(i) ==
  /\ Listed(i) /\ store.place[i] = 1 /\ store' = [store EXCEPT !.content[i] = Nothing]
  /\ Change([svc EXCEPT !.troubled = @ \cup {i}]) /\ UNCHANGED req

\* A lineage of the same name is made again: the id is the same.
Remake(i) ==
  /\ ~Listed(i) /\ store' = [store EXCEPT !.content[i] = 2]
  /\ Change([svc EXCEPT !.replaced = @ \cup {i}]) /\ UNCHANGED req

ServiceNext ==
  \/ \E r \in Requests : RequestStep(r) \/ SearchFails(r)
  \/ \E i \in Ids : Archive(i) \/ Discard(i) \/ Remake(i)

-----------------------------------------------------------------------------

Outcomes == {"not_found", "busy", "failed", "search_failed", "answered"}
Holding == {"describe", "lookup", "loading", "loaded", "unloadable", "waiting", "woken", "play"}
Owning == {"loading", "loaded", "unloadable"}

\* Types of the storage, the requests and the service.
ServiceTypeOK ==
  /\ \A i \in Ids : store.content[i] \in 0..2 /\ store.place[i] \in 1..2
  /\ \A r \in Requests :
       /\ req[r].pc \in Outcomes \cup Holding \cup {"idle", "admit"}
       /\ req[r].kind \in {"move", "game"} /\ req[r].got \in 0..2
  /\ svc.game \in 0..NumRequests /\ svc.changes \in 0..MaxChanges
  /\ \A i \in Ids : svc.flight[i] \in 0..NumRequests

\* The cache is bounded and has a model once; a model is loaded by one thread at
\* a time, and nobody waits on a flight that is over.
CacheIsSound ==
  /\ Len(svc.entries) <= MaxEntries
  /\ \A i \in Ids :
       /\ Cardinality(Cached(i)) <= 1
       /\ Cached(i) # {} => svc.flight[i] = 0
       /\ \A r \in Requests :
            /\ svc.flight[i] = r <=> req[r].pc \in Owning /\ Wanted(r) = i
            /\ req[r].pc = "waiting" /\ Wanted(r) = i => svc.flight[i] # 0

\* No error and no outcome keeps a place of the capacity, or frees one twice.
CapacityIsConserved ==
  LET holding(kind) == {r \in Requests : req[r].kind = kind /\ req[r].pc \in Holding}
  IN  /\ svc.moves + Cardinality(holding("move")) = MoveConcurrency
      /\ holding("game") = IF svc.game = 0 THEN {} ELSE {svc.game}

\* Each side is played by the model of its own checkpoint, as it was published
\* unless its lineage was made anew.
PlaysItsOwnModel ==
  \A r \in Requests :
    LET got == req[r].models IN
    \A k \in DOMAIN got :
      got[k].id = req[r].ids[k] /\ (got[k].id \in svc.replaced \/ got[k].content = 1)

\* A load fails only for a checkpoint that could not be read at some time: the
\* trouble of one is not another's.
FailsForCause ==
  \A r \in Requests :
    req[r].pc \in {"failed", "not_found"} => \E k \in DOMAIN req[r].ids : req[r].ids[k] \in svc.troubled

\* The safety of serving: all of the above.
ServingIsSound ==
  CacheIsSound /\ CapacityIsConserved /\ PlaysItsOwnModel /\ FailsForCause

AllAnswered == \A r \in Requests : req[r].pc \in Outcomes
=============================================================================
