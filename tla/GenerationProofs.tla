-------------------------- MODULE GenerationProofs --------------------------
(***************************************************************************)
(* Proofs about GenerationCommit, for any number of generations, launches  *)
(* and faults and any retry policy: its types, that a committed generation *)
(* validates for ever, that a cube attempt which no fault hits commits, and *)
(* that the lineage implements the log of GenerationLog.                   *)
(*                                                                         *)
(* The second needs to know what the worker has already done when it       *)
(* stands at some step (Phases): by the fence every artifact and every     *)
(* piece of evidence carries the identities of the running attempt, and    *)
(* no step before the fence is taken in a committed generation.  The third *)
(* needs what the attempt found there and swept away (Swept), the log that *)
(* generations are committed in order (InOrder).                           *)
(***************************************************************************)
EXTENDS GenerationCommit, Sequences, FiniteSetTheorems, TLAPS

USE GenerationAssumption

\* Where requests are open there is a generation left to train; a success
\* is validated when its worker is gone; lists of paths are not overrun.
Bounds ==
  /\ call # "idle" \/ pc \in Working => head < MaxGen
  /\ call = "validate" => pc = "none"
  /\ pc \in {"publish", "cleanup"} => step \in 1..6

\* Workers are counted, and one that works was allowed to; a request in progress
\* whose generation was committed meanwhile still has its attempt on record.
Started ==
  /\ pc \in Working => attempt >= 1 /\ ~stopped /\ launches >= 1
  /\ call = "monitor" => attempt >= 1 /\ ~stopped
  /\ call = "supervise" /\ Committed(G) => attempt >= 1 /\ ~stopped
  /\ pc \in {"discard", "prune", "unlink", "cleanup"} => path = "cube"

\* What the caller was given is committed, and nothing beyond the next; and a
\* committed generation has a provenance, which no later attempt can write.
InOrder ==
  /\ \A g \in Gens : g <= head => Committed(g)
  /\ \A g \in Gens : g > G => ~Committed(g)
  /\ \A g \in Gens : Committed(g) => prov[g][6] \in 1..launches
  /\ pc \in Transaction \ {"publish", "prov"} => prov[G] = Ids /\ ~Committed(G)
  /\ pc \in {"discard", "collect", "publish", "prov"} /\ Committed(G)
       => prov[G][6] < launches

\* The paths on which no attempt follows one that committed: the cube's, whose
\* workers refuse, and one without retries.
Careful == path = "cube" \/ retries = 0

\* The steps a careful worker takes only in an uncommitted generation.
Uncommitted == {"prune", "unlink", "cleanup"} \cup Transaction

\* What a careful worker has done when it stands at a step.
Phases ==
  /\ pc \in Uncommitted => ~Committed(G)
  /\ pc = "collect" => path = "cube" \/ ~Committed(G)
  /\ pc = "publish" => \A f \in Files : f < step => file[G][f] = Content(f)
  /\ pc \in Transaction \ {"publish"} => file[G] = Ids
  /\ pc \in Transaction \ {"publish", "prov"} => prov[G] = Ids
  /\ pc \in Transaction \ {"publish", "prov", "node"} => node[G] = Ids
  /\ pc \in {"catalog", "fence"} => manifest[G] = Ids
  /\ pc = "fence" => catalog[G] = Ids

\* What an attempt on the cube path finds: nothing of a later generation, and
\* nothing of its own where it has swept, unless the generation is committed.
Swept ==
  /\ \A g \in Gens : g > G => manifest[g] = Absent
  /\ pc \in {"prune", "unlink", "collect"} \cup (Transaction \ {"fence"}) /\ ~Committed(G)
       => catalog[G] = Absent
  /\ pc = "unlink" => \A f \in Files : f < step => file[G][f] = 0
  /\ pc = "unlink" /\ step = 8 => prov[G] = Absent
  /\ pc = "collect" /\ ~Committed(G) => file[G] = Absent
  /\ pc \in {"collect", "publish", "prov"} /\ ~Committed(G) => prov[G] = Absent
  /\ pc \in {"collect", "publish", "prov", "node"} /\ ~Committed(G) => node[G] = Absent
  /\ pc = "cleanup" => hurt
  /\ pc = "bad" /\ ~hurt => Committed(G)

IInv ==
  /\ TypeOK
  /\ Bounds
  /\ Started
  /\ InOrder
  /\ Careful => Phases /\ CommittedStaysValid
  /\ path = "cube" => Swept

-----------------------------------------------------------------------------
\* Records of identities stay records of identities.
LEMMA PutType ==
  ASSUME NEW r \in [Gens -> Identity], NEW g \in Gens, NEW id \in Identity
  PROVE  /\ [r EXCEPT ![g] = id] \in [Gens -> Identity]
         /\ [r EXCEPT ![g] = id][g] = id
         /\ \A h \in Gens : h # g => [r EXCEPT ![g] = id][h] = r[h]
  OBVIOUS

\* The identities a worker writes.
LEMMA IdsType ==
  ASSUME TypeOK, head < MaxGen
  PROVE  G \in Gens /\ Absent \in Identity /\ Ids \in Identity
         /\ \A f \in Files : Content(f) \in 0..MaxLaunches
  <1>1. G \in Gens
    BY DEF TypeOK, G, Gens
  <1>2. shards[G] \in 0..MaxLaunches
    BY <1>1 DEF TypeOK
  <1>3. \A f \in Files : Content(f) \in 0..MaxLaunches
    BY <1>2 DEF TypeOK, Content
  <1> QED
    BY <1>1, <1>3 DEF Ids, Identity, Absent

\* Setting one file.
LEMMA SetFileType ==
  ASSUME TypeOK, head < MaxGen, NEW id \in 0..MaxLaunches
  PROVE  /\ SetFile(id) \in [Gens -> Identity]
         /\ \A f \in Files : SetFile(id)[G][f] = IF f = step THEN id ELSE file[G][f]
         /\ \A h \in Gens : h # G => SetFile(id)[h] = file[h]
  <1>1. G \in Gens /\ file \in [Gens -> Identity]
    BY IdsType DEF TypeOK
  <1> DEFINE new == [f \in Files |-> IF f = step THEN id ELSE file[G][f]]
  <1>2. new \in Identity
    BY <1>1 DEF Identity
  <1>3. SetFile(id) = [file EXCEPT ![G] = new]
    BY DEF SetFile
  <1> HIDE DEF new
  <1>4. /\ SetFile(id) \in [Gens -> Identity]
        /\ SetFile(id)[G] = new
        /\ \A h \in Gens : h # G => SetFile(id)[h] = file[h]
    BY <1>1, <1>2, <1>3, PutType
  <1> QED
    BY <1>4 DEF new

LEMMA Initial == Init => IInv
  <1> SUFFICES ASSUME Init PROVE IInv
    OBVIOUS
  <1>1. TypeOK
    <2>1. Absent \in Identity
      BY DEF Absent, Identity
    <2>2. path \in {"cube", "torus9"} /\ retries \in Nat
      BY DEF Init
    <2>3. {file, prov, node, manifest, catalog, marker} \subseteq [Gens -> Identity]
      BY <2>1 DEF Init
    <2>4. /\ shards \in [Gens -> 0..MaxLaunches] /\ head \in 0..MaxGen
          /\ attempt \in 0..retries + 1 /\ step \in 1..8
          /\ launches \in 0..MaxLaunches /\ faults \in 0..MaxFaults
      BY <2>2 DEF Init
    <2>5. /\ stopped \in BOOLEAN /\ own \in BOOLEAN /\ hurt \in BOOLEAN
          /\ call \in {"idle", "check", "supervise", "monitor", "validate"}
          /\ pc \in Working \cup {"none", "ok", "bad"}
      BY DEF Init
    <2> QED
      BY <2>2, <2>3, <2>4, <2>5 DEF TypeOK
  <1>2. Bounds
    BY DEF Init, Bounds, Working, Transaction
  <1>3. Phases
    BY DEF Init, Phases, Uncommitted, Transaction
  <1>4. CommittedStaysValid
    BY DEF Init, CommittedStaysValid, Committed
  <1>5. Started /\ InOrder
    <2>1. \A g \in Gens : ~Committed(g) /\ ~(g <= head)
      BY DEF Init, Committed, Gens
    <2>2. pc = "none" /\ call = "idle"
      BY DEF Init
    <2> QED
      BY <2>1, <2>2 DEF Started, InOrder, Working, Transaction
  <1>6. Swept
    BY DEF Init, Swept, Transaction
  <1> QED
    BY <1>1, <1>2, <1>3, <1>4, <1>5, <1>6 DEF IInv

-----------------------------------------------------------------------------
(* Types.                                                                  *)

\* What the worker's steps share.
LEMMA WorkerTypes ==
  ASSUME TypeOK, Bounds, NEW from \in Working, NEW to, Worker(from, to)
  PROVE  /\ head < MaxGen /\ G \in Gens /\ G' = G
         /\ path' \in {"cube", "torus9"} /\ retries' \in Nat
         /\ head' \in 0..MaxGen /\ attempt' \in 0..retries' + 1
         /\ stopped' \in BOOLEAN /\ own' \in BOOLEAN /\ hurt' \in BOOLEAN
         /\ call' \in {"idle", "check", "supervise", "monitor", "validate"}
         /\ launches' \in 0..MaxLaunches /\ faults' \in 0..MaxFaults
         /\ pc = from /\ pc' = to
         /\ head' < MaxGen /\ call' # "validate"
  <1>1. head < MaxGen /\ pc = from /\ pc' = to /\ call # "validate" /\ UNCHANGED <<setup, parent, history, hurt>>
    BY DEF Worker, Bounds, Working, Transaction
  <1>2. G \in Gens
    BY <1>1, IdsType
  <1> QED
    BY <1>1, <1>2 DEF TypeOK, setup, parent, history, G

\* A step of the worker keeps the types if what it writes has its type.
LEMMA WorkerKeeps ==
  ASSUME TypeOK, Bounds, NEW from \in Working,
         NEW to, Worker(from, to), to \in Working \cup {"ok", "bad"},
         {file, prov, node, manifest, catalog, marker}' \subseteq [Gens -> Identity],
         shards' \in [Gens -> 0..MaxLaunches],
         step' \in 1..8, pc' \in {"publish", "cleanup"} => step' \in 1..6
  PROVE  TypeOK' /\ Bounds'
  <1>1. /\ path' \in {"cube", "torus9"} /\ retries' \in Nat
        /\ head' \in 0..MaxGen /\ attempt' \in 0..retries' + 1
        /\ stopped' \in BOOLEAN /\ own' \in BOOLEAN /\ hurt' \in BOOLEAN
        /\ call' \in {"idle", "check", "supervise", "monitor", "validate"}
        /\ launches' \in 0..MaxLaunches /\ faults' \in 0..MaxFaults
        /\ pc' = to /\ head' < MaxGen /\ call' # "validate"
    BY WorkerTypes
  <1>2. TypeOK'
    BY <1>1 DEF TypeOK
  <1> QED
    BY <1>1, <1>2 DEF Bounds

LEMMA WorkerTypeStep ==
  ASSUME TypeOK, Bounds, WorkerStep PROVE TypeOK' /\ Bounds'
  <1> USE DEF Working, Transaction
  <1>t. /\ {file, prov, node, manifest, catalog, marker} \subseteq [Gens -> Identity]
        /\ shards \in [Gens -> 0..MaxLaunches] /\ step \in 1..8
    BY DEF TypeOK
  <1>1. CASE Discard
    <2>1. Worker("discard", CASE Committed(G) -> "collect" [] ~Committed(G) /\ LaterEvidence -> "bad" [] OTHER -> "prune")
      BY <1>1 DEF Discard
    <2>2. head < MaxGen /\ G \in Gens
      BY <2>1, WorkerTypes
    <2>3. {file, prov, node, manifest, catalog, marker}' \subseteq [Gens -> Identity]
      BY <1>1, <1>t, <2>2, IdsType, PutType DEF Discard
    <2>4. shards' \in [Gens -> 0..MaxLaunches]
      BY <1>1, <1>t, <2>2 DEF Discard
    <2>5. step' \in 1..8 /\ (pc' \in {"publish", "cleanup"} => step' \in 1..6)
      BY <1>1, <1>t DEF Discard, Worker
    <2> QED
      BY <2>1, <2>3, <2>4, <2>5, WorkerKeeps
  <1>2. CASE Prune
    <2>1. Worker("prune", "unlink")
      BY <1>2 DEF Prune
    <2>2. head < MaxGen /\ G \in Gens
      BY <2>1, WorkerTypes
    <2>3. {file, prov, node, manifest, catalog, marker}' \subseteq [Gens -> Identity]
      BY <1>2, <1>t, <2>2, IdsType, PutType DEF Prune
    <2>4. shards' \in [Gens -> 0..MaxLaunches]
      BY <1>2, <1>t, <2>2 DEF Prune
    <2>5. step' \in 1..8 /\ (pc' \in {"publish", "cleanup"} => step' \in 1..6)
      BY <1>2, <1>t DEF Prune, Worker
    <2> QED
      BY <2>1, <2>3, <2>4, <2>5, WorkerKeeps
  <1>3. CASE Unlink
    <2>1. Worker("unlink", IF step < 8 THEN "unlink" ELSE "collect")
      BY <1>3 DEF Unlink
    <2>2. head < MaxGen /\ G \in Gens
      BY <2>1, WorkerTypes
    <2>3. {file, prov, node, manifest, catalog, marker}' \subseteq [Gens -> Identity]
      BY <1>3, <1>t, <2>2, IdsType, PutType, SetFileType DEF Unlink
    <2>4. shards' \in [Gens -> 0..MaxLaunches]
      BY <1>3, <1>t, <2>2 DEF Unlink
    <2>5. step' \in 1..8 /\ (pc' \in {"publish", "cleanup"} => step' \in 1..6)
      BY <1>3, <1>t DEF Unlink, Worker
    <2> QED
      BY <2>1, <2>3, <2>4, <2>5, WorkerKeeps
  <1>4. CASE Collect
    <2>1. Worker("collect", "publish")
      BY <1>4 DEF Collect
    <2>2. head < MaxGen /\ G \in Gens
      BY <2>1, WorkerTypes
    <2>3. {file, prov, node, manifest, catalog, marker}' \subseteq [Gens -> Identity]
      BY <1>4, <1>t, <2>2, IdsType, PutType DEF Collect, graph
    <2>4. shards' \in [Gens -> 0..MaxLaunches]
      BY <1>4, <1>t, <2>2 DEF Collect, TypeOK
    <2>5. step' \in 1..8 /\ (pc' \in {"publish", "cleanup"} => step' \in 1..6)
      BY <1>4, <1>t DEF Collect, Worker
    <2> QED
      BY <2>1, <2>3, <2>4, <2>5, WorkerKeeps
  <1>5. CASE CollectRefused
    <2>1. Worker("collect", "bad")
      BY <1>5 DEF CollectRefused
    <2>2. head < MaxGen /\ G \in Gens
      BY <2>1, WorkerTypes
    <2>3. {file, prov, node, manifest, catalog, marker}' \subseteq [Gens -> Identity]
      BY <1>5, <1>t, <2>2, IdsType, PutType DEF CollectRefused, disk
    <2>4. shards' \in [Gens -> 0..MaxLaunches]
      BY <1>5, <1>t, <2>2 DEF CollectRefused, disk
    <2>5. step' \in 1..8 /\ (pc' \in {"publish", "cleanup"} => step' \in 1..6)
      BY <1>5, <1>t DEF CollectRefused, Worker
    <2> QED
      BY <2>1, <2>3, <2>4, <2>5, WorkerKeeps
  <1>6. CASE Publish
    <2>1. Worker("publish", IF step < 6 THEN "publish" ELSE "prov")
      BY <1>6 DEF Publish
    <2>2. head < MaxGen /\ G \in Gens
      BY <2>1, WorkerTypes
    <2>2a. step \in Files /\ Content(step) \in 0..MaxLaunches
      BY <2>1, <2>2, IdsType DEF Worker, Bounds, Files
    <2>3. {file, prov, node, manifest, catalog, marker}' \subseteq [Gens -> Identity]
      BY <1>6, <1>t, <2>2, IdsType, PutType, SetFileType, <2>2a DEF Publish, graph
    <2>4. shards' \in [Gens -> 0..MaxLaunches]
      BY <1>6, <1>t, <2>2 DEF Publish
    <2>5. step' \in 1..8 /\ (pc' \in {"publish", "cleanup"} => step' \in 1..6)
      BY <1>6, <1>t DEF Publish, Worker, Bounds
    <2> QED
      BY <2>1, <2>3, <2>4, <2>5, WorkerKeeps
  <1>7. CASE WriteProvenance
    <2>1. Worker("prov", "node")
      BY <1>7 DEF WriteProvenance
    <2>2. head < MaxGen /\ G \in Gens
      BY <2>1, WorkerTypes
    <2>3. {file, prov, node, manifest, catalog, marker}' \subseteq [Gens -> Identity]
      BY <1>7, <1>t, <2>2, IdsType, PutType DEF WriteProvenance
    <2>4. shards' \in [Gens -> 0..MaxLaunches]
      BY <1>7, <1>t, <2>2 DEF WriteProvenance
    <2>5. step' \in 1..8 /\ (pc' \in {"publish", "cleanup"} => step' \in 1..6)
      BY <1>7, <1>t DEF WriteProvenance, Worker
    <2> QED
      BY <2>1, <2>3, <2>4, <2>5, WorkerKeeps
  <1>8. CASE WriteNode
    <2>1. Worker("node", "manifest")
      BY <1>8 DEF WriteNode
    <2>2. head < MaxGen /\ G \in Gens
      BY <2>1, WorkerTypes
    <2>3. {file, prov, node, manifest, catalog, marker}' \subseteq [Gens -> Identity]
      BY <1>8, <1>t, <2>2, IdsType, PutType DEF WriteNode
    <2>4. shards' \in [Gens -> 0..MaxLaunches]
      BY <1>8, <1>t, <2>2 DEF WriteNode
    <2>5. step' \in 1..8 /\ (pc' \in {"publish", "cleanup"} => step' \in 1..6)
      BY <1>8, <1>t DEF WriteNode, Worker
    <2> QED
      BY <2>1, <2>3, <2>4, <2>5, WorkerKeeps
  <1>9. CASE WriteManifest
    <2>1. Worker("manifest", "catalog")
      BY <1>9 DEF WriteManifest
    <2>2. head < MaxGen /\ G \in Gens
      BY <2>1, WorkerTypes
    <2>3. {file, prov, node, manifest, catalog, marker}' \subseteq [Gens -> Identity]
      BY <1>9, <1>t, <2>2, IdsType, PutType DEF WriteManifest
    <2>4. shards' \in [Gens -> 0..MaxLaunches]
      BY <1>9, <1>t, <2>2 DEF WriteManifest
    <2>5. step' \in 1..8 /\ (pc' \in {"publish", "cleanup"} => step' \in 1..6)
      BY <1>9, <1>t DEF WriteManifest, Worker
    <2> QED
      BY <2>1, <2>3, <2>4, <2>5, WorkerKeeps
  <1>10. CASE Register
    <2>1. Worker("catalog", "fence")
      BY <1>10 DEF Register
    <2>2. head < MaxGen /\ G \in Gens
      BY <2>1, WorkerTypes
    <2>3. {file, prov, node, manifest, catalog, marker}' \subseteq [Gens -> Identity]
      BY <1>10, <1>t, <2>2, IdsType, PutType DEF Register
    <2>4. shards' \in [Gens -> 0..MaxLaunches]
      BY <1>10, <1>t, <2>2 DEF Register
    <2>5. step' \in 1..8 /\ (pc' \in {"publish", "cleanup"} => step' \in 1..6)
      BY <1>10, <1>t DEF Register, Worker
    <2> QED
      BY <2>1, <2>3, <2>4, <2>5, WorkerKeeps
  <1>11. CASE GraphRefused
    <2>1. Worker(pc, IF path = "cube" THEN "cleanup" ELSE "bad")
      BY <1>11 DEF GraphRefused
    <2>2. head < MaxGen /\ G \in Gens
      BY <2>1, WorkerTypes, <1>11 DEF GraphRefused
    <2>3. {file, prov, node, manifest, catalog, marker}' \subseteq [Gens -> Identity]
      BY <1>11, <1>t, <2>2, IdsType, PutType DEF GraphRefused, disk
    <2>4. shards' \in [Gens -> 0..MaxLaunches]
      BY <1>11, <1>t, <2>2 DEF GraphRefused, disk
    <2>5. step' \in 1..8 /\ (pc' \in {"publish", "cleanup"} => step' \in 1..6)
      BY <1>11, <1>t DEF GraphRefused, Worker
    <2> QED
      BY <2>1, <2>3, <2>4, <2>5, WorkerKeeps, <1>11 DEF GraphRefused
  <1>12. CASE Fence
    <2>1. Worker("fence", "finish")
      BY <1>12 DEF Fence
    <2>2. head < MaxGen /\ G \in Gens
      BY <2>1, WorkerTypes
    <2>3. {file, prov, node, manifest, catalog, marker}' \subseteq [Gens -> Identity]
      BY <1>12, <1>t, <2>2, IdsType, PutType DEF Fence, graph
    <2>4. shards' \in [Gens -> 0..MaxLaunches]
      BY <1>12, <1>t, <2>2 DEF Fence
    <2>5. step' \in 1..8 /\ (pc' \in {"publish", "cleanup"} => step' \in 1..6)
      BY <1>12, <1>t DEF Fence, Worker
    <2> QED
      BY <2>1, <2>3, <2>4, <2>5, WorkerKeeps
  <1>13. CASE Finish
    <2>1. Worker("finish", "ok")
      BY <1>13 DEF Finish
    <2>2. head < MaxGen /\ G \in Gens
      BY <2>1, WorkerTypes
    <2>3. {file, prov, node, manifest, catalog, marker}' \subseteq [Gens -> Identity]
      BY <1>13, <1>t, <2>2, IdsType, PutType DEF Finish, disk
    <2>4. shards' \in [Gens -> 0..MaxLaunches]
      BY <1>13, <1>t, <2>2 DEF Finish, disk
    <2>5. step' \in 1..8 /\ (pc' \in {"publish", "cleanup"} => step' \in 1..6)
      BY <1>13, <1>t DEF Finish, Worker
    <2> QED
      BY <2>1, <2>3, <2>4, <2>5, WorkerKeeps
  <1>14. CASE Cleanup
    <2>1. Worker("cleanup", IF step < 6 THEN "cleanup" ELSE "bad")
      BY <1>14 DEF Cleanup
    <2>2. head < MaxGen /\ G \in Gens
      BY <2>1, WorkerTypes
    <2>3. {file, prov, node, manifest, catalog, marker}' \subseteq [Gens -> Identity]
      BY <1>14, <1>t, <2>2, IdsType, PutType, SetFileType DEF Cleanup, graph
    <2>4. shards' \in [Gens -> 0..MaxLaunches]
      BY <1>14, <1>t, <2>2 DEF Cleanup
    <2>5. step' \in 1..8 /\ (pc' \in {"publish", "cleanup"} => step' \in 1..6)
      BY <1>14, <1>t DEF Cleanup, Worker, Bounds
    <2> QED
      BY <2>1, <2>3, <2>4, <2>5, WorkerKeeps
  <1> QED
    BY <1>1, <1>2, <1>3, <1>4, <1>5, <1>6, <1>7, <1>8, <1>9, <1>10, <1>11, <1>12, <1>13, <1>14 DEF WorkerStep

LEMMA CoordinatorTypeStep ==
  ASSUME TypeOK, Bounds, CoordinatorStep PROVE TypeOK' /\ Bounds'
  <1> USE DEF Working, Transaction
  <1>t. /\ path \in {"cube", "torus9"} /\ retries \in Nat
        /\ {file, prov, node, manifest, catalog, marker} \subseteq [Gens -> Identity]
        /\ shards \in [Gens -> 0..MaxLaunches] /\ step \in 1..8 /\ faults \in 0..MaxFaults
        /\ head \in 0..MaxGen /\ attempt \in 0..retries + 1 /\ stopped \in BOOLEAN
        /\ own \in BOOLEAN /\ hurt \in BOOLEAN /\ launches \in 0..MaxLaunches
        /\ call \in {"idle", "check", "supervise", "monitor", "validate"}
        /\ pc \in Working \cup {"none", "ok", "bad"}
    BY DEF TypeOK
  <1>d. ASSUME NEW from, NEW to, Coordinator(from, to)
        PROVE  /\ path' \in {"cube", "torus9"} /\ retries' = retries
               /\ {file, prov, node, manifest, catalog, marker}' \subseteq [Gens -> Identity]
               /\ shards' \in [Gens -> 0..MaxLaunches] /\ step' = step
               /\ faults' \in 0..MaxFaults
               /\ call = from /\ call' = to
    BY <1>t, <1>d DEF Coordinator, setup, disk
  <1>1. CASE Call
    <2>1. Coordinator("idle", "check")
      BY <1>1 DEF Call
    <2>2. /\ head' \in 0..MaxGen /\ attempt' \in 0..retries + 1
          /\ launches' \in 0..MaxLaunches
      BY <1>1, <1>t, <1>d, <2>1 DEF Call, records, worker, Bounds
    <2>4. stopped' \in BOOLEAN /\ own' \in BOOLEAN /\ hurt' \in BOOLEAN
      BY <1>1, <1>t DEF Call, records, worker
    <2>5. pc' \in Working \cup {"none", "ok", "bad"}
      BY <1>1, <1>t DEF Call, worker
    <2>3. Bounds'
      BY <1>1, <1>t, <1>d, <2>1 DEF Call, records, worker, Bounds
    <2> QED
      BY <1>d, <1>t, <2>1, <2>2, <2>3, <2>4, <2>5 DEF TypeOK
  <1>2. CASE NotCommitted
    <2>1. Coordinator("check", "supervise")
      BY <1>2 DEF NotCommitted
    <2>2. /\ head' \in 0..MaxGen /\ attempt' \in 0..retries + 1
          /\ launches' \in 0..MaxLaunches
      BY <1>2, <1>t, <1>d, <2>1 DEF NotCommitted, records, worker, Bounds
    <2>4. stopped' \in BOOLEAN /\ own' \in BOOLEAN /\ hurt' \in BOOLEAN
      BY <1>2, <1>t DEF NotCommitted, records, worker
    <2>5. pc' \in Working \cup {"none", "ok", "bad"}
      BY <1>2, <1>t DEF NotCommitted, worker
    <2>3. Bounds'
      BY <1>2, <1>t, <1>d, <2>1 DEF NotCommitted, records, worker, Bounds
    <2> QED
      BY <1>d, <1>t, <2>1, <2>2, <2>3, <2>4, <2>5 DEF TypeOK
  <1>3. CASE Reuse
    <2>1. Coordinator("check", "idle")
      BY <1>3 DEF Reuse
    <2>2. /\ head' \in 0..MaxGen /\ attempt' \in 0..retries + 1
          /\ launches' \in 0..MaxLaunches
      BY <1>3, <1>t, <1>d, <2>1 DEF Reuse, records, worker, Bounds, Retire
    <2>4. stopped' \in BOOLEAN /\ own' \in BOOLEAN /\ hurt' \in BOOLEAN
      BY <1>3, <1>t DEF Reuse, records, worker, Retire
    <2>5. pc' \in Working \cup {"none", "ok", "bad"}
      BY <1>3, <1>t DEF Reuse, worker, Retire
    <2>3. Bounds'
      BY <1>3, <1>t, <1>d, <2>1 DEF Reuse, records, worker, Bounds, Retire
    <2> QED
      BY <1>d, <1>t, <2>1, <2>2, <2>3, <2>4, <2>5 DEF TypeOK
  <1>4. CASE Acknowledge
    <2>1. Coordinator("supervise", "supervise")
      BY <1>4 DEF Acknowledge
    <2>2. /\ head' \in 0..MaxGen /\ attempt' \in 0..retries + 1
          /\ launches' \in 0..MaxLaunches
      BY <1>4, <1>t, <1>d, <2>1 DEF Acknowledge, records, worker, Bounds
    <2>4. stopped' \in BOOLEAN /\ own' \in BOOLEAN /\ hurt' \in BOOLEAN
      BY <1>4, <1>t DEF Acknowledge, records, worker
    <2>5. pc' \in Working \cup {"none", "ok", "bad"}
      BY <1>4, <1>t DEF Acknowledge, worker
    <2>3. Bounds'
      BY <1>4, <1>t, <1>d, <2>1 DEF Acknowledge, records, worker, Bounds
    <2> QED
      BY <1>d, <1>t, <2>1, <2>2, <2>3, <2>4, <2>5 DEF TypeOK
  <1>5. CASE Halt
    <2>1. Coordinator("supervise", "idle")
      BY <1>5 DEF Halt
    <2>2. /\ head' \in 0..MaxGen /\ attempt' \in 0..retries + 1
          /\ launches' \in 0..MaxLaunches
      BY <1>5, <1>t, <1>d, <2>1 DEF Halt, records, worker, Bounds
    <2>4. stopped' \in BOOLEAN /\ own' \in BOOLEAN /\ hurt' \in BOOLEAN
      BY <1>5, <1>t DEF Halt, records, worker
    <2>5. pc' \in Working \cup {"none", "ok", "bad"}
      BY <1>5, <1>t DEF Halt, worker
    <2>3. Bounds'
      BY <1>5, <1>t, <1>d, <2>1 DEF Halt, records, worker, Bounds
    <2> QED
      BY <1>d, <1>t, <2>1, <2>2, <2>3, <2>4, <2>5 DEF TypeOK
  <1>6. CASE Reattach
    <2>1. Coordinator("supervise", "monitor")
      BY <1>6 DEF Reattach
    <2>2. /\ head' \in 0..MaxGen /\ attempt' \in 0..retries + 1
          /\ launches' \in 0..MaxLaunches
      BY <1>6, <1>t, <1>d, <2>1 DEF Reattach, records, worker, Bounds
    <2>4. stopped' \in BOOLEAN /\ own' \in BOOLEAN /\ hurt' \in BOOLEAN
      BY <1>6, <1>t DEF Reattach, records, worker
    <2>5. pc' \in Working \cup {"none", "ok", "bad"}
      BY <1>6, <1>t DEF Reattach, worker
    <2>3. Bounds'
      BY <1>6, <1>t, <1>d, <2>1 DEF Reattach, records, worker, Bounds
    <2> QED
      BY <1>d, <1>t, <2>1, <2>2, <2>3, <2>4, <2>5 DEF TypeOK
  <1>7. CASE Start
    <2>1. Coordinator("supervise", "monitor")
      BY <1>7 DEF Start
    <2>2. /\ head' \in 0..MaxGen /\ attempt' \in 0..retries + 1
          /\ launches' \in 0..MaxLaunches
      BY <1>7, <1>t, <1>d, <2>1 DEF Start, records, worker, Bounds, Launch
    <2>4. stopped' \in BOOLEAN /\ own' \in BOOLEAN /\ hurt' \in BOOLEAN
      BY <1>7, <1>t DEF Start, records, worker, Launch
    <2>5. pc' \in Working \cup {"none", "ok", "bad"}
      BY <1>7, <1>t DEF Start, worker, Launch
    <2>3. Bounds'
      BY <1>7, <1>t, <1>d, <2>1 DEF Start, records, worker, Bounds, Launch
    <2> QED
      BY <1>d, <1>t, <2>1, <2>2, <2>3, <2>4, <2>5 DEF TypeOK
  <1>8. CASE SeeSuccess
    <2>1. Coordinator("monitor", "validate")
      BY <1>8 DEF SeeSuccess
    <2>2. /\ head' \in 0..MaxGen /\ attempt' \in 0..retries + 1
          /\ launches' \in 0..MaxLaunches
      BY <1>8, <1>t, <1>d, <2>1 DEF SeeSuccess, records, worker, Bounds
    <2>4. stopped' \in BOOLEAN /\ own' \in BOOLEAN /\ hurt' \in BOOLEAN
      BY <1>8, <1>t DEF SeeSuccess, records, worker
    <2>5. pc' \in Working \cup {"none", "ok", "bad"}
      BY <1>8, <1>t DEF SeeSuccess, worker
    <2>3. Bounds'
      BY <1>8, <1>t, <1>d, <2>1 DEF SeeSuccess, records, worker, Bounds
    <2> QED
      BY <1>d, <1>t, <2>1, <2>2, <2>3, <2>4, <2>5 DEF TypeOK
  <1>9. CASE Retry
    <2>1. Coordinator("monitor", "monitor")
      BY <1>9 DEF Retry
    <2>2. /\ head' \in 0..MaxGen /\ attempt' \in 0..retries + 1
          /\ launches' \in 0..MaxLaunches
      BY <1>9, <1>t, <1>d, <2>1 DEF Retry, records, worker, Bounds, Launch, Failed
    <2>4. stopped' \in BOOLEAN /\ own' \in BOOLEAN /\ hurt' \in BOOLEAN
      BY <1>9, <1>t DEF Retry, records, worker, Launch, Failed
    <2>5. pc' \in Working \cup {"none", "ok", "bad"}
      BY <1>9, <1>t DEF Retry, worker, Launch, Failed
    <2>3. Bounds'
      BY <1>9, <1>t, <1>d, <2>1 DEF Retry, records, worker, Bounds, Launch, Failed
    <2> QED
      BY <1>d, <1>t, <2>1, <2>2, <2>3, <2>4, <2>5 DEF TypeOK
  <1>10. CASE GiveUp
    <2>1. Coordinator("monitor", "idle")
      BY <1>10 DEF GiveUp
    <2>2. /\ head' \in 0..MaxGen /\ attempt' \in 0..retries + 1
          /\ launches' \in 0..MaxLaunches
      BY <1>10, <1>t, <1>d, <2>1 DEF GiveUp, records, worker, Bounds, Failed
    <2>4. stopped' \in BOOLEAN /\ own' \in BOOLEAN /\ hurt' \in BOOLEAN
      BY <1>10, <1>t DEF GiveUp, records, worker, Failed
    <2>5. pc' \in Working \cup {"none", "ok", "bad"}
      BY <1>10, <1>t DEF GiveUp, worker, Failed
    <2>3. Bounds'
      BY <1>10, <1>t, <1>d, <2>1 DEF GiveUp, records, worker, Bounds, Failed
    <2> QED
      BY <1>d, <1>t, <2>1, <2>2, <2>3, <2>4, <2>5 DEF TypeOK
  <1>11. CASE Deliver
    <2>1. Coordinator("validate", "idle")
      BY <1>11 DEF Deliver
    <2>2. /\ head' \in 0..MaxGen /\ attempt' \in 0..retries + 1
          /\ launches' \in 0..MaxLaunches
      BY <1>11, <1>t, <1>d, <2>1 DEF Deliver, records, worker, Bounds
    <2>4. stopped' \in BOOLEAN /\ own' \in BOOLEAN /\ hurt' \in BOOLEAN
      BY <1>11, <1>t DEF Deliver, records, worker
    <2>5. pc' \in Working \cup {"none", "ok", "bad"}
      BY <1>11, <1>t DEF Deliver, worker
    <2>3. Bounds'
      BY <1>11, <1>t, <1>d, <2>1 DEF Deliver, records, worker, Bounds
    <2> QED
      BY <1>d, <1>t, <2>1, <2>2, <2>3, <2>4, <2>5 DEF TypeOK
  <1> QED
    BY <1>1, <1>2, <1>3, <1>4, <1>5, <1>6, <1>7, <1>8, <1>9, <1>10, <1>11 DEF CoordinatorStep

LEMMA TypeStep ==
  ASSUME TypeOK, Bounds, [Next]_vars PROVE TypeOK' /\ Bounds'
  <1>1. CASE WorkerStep
    BY <1>1, WorkerTypeStep
  <1>2. CASE CoordinatorStep
    BY <1>2, CoordinatorTypeStep
  <1>3. CASE Raise
    BY <1>3 DEF Raise, TypeOK, Bounds, Working, Transaction, setup, disk, parent
  <1>4. CASE Die
    BY <1>4 DEF Die, TypeOK, Bounds, Working, Transaction, setup, disk, parent
  <1>5. ASSUME NEW machine \in BOOLEAN, Crash(machine) PROVE TypeOK' /\ Bounds'
    <2>1. TypeOK'
      <3>1. pc' \in Working \cup {"none", "ok", "bad"} /\ hurt' \in BOOLEAN
        BY <1>5 DEF Crash, TypeOK
      <3>2. faults' \in 0..MaxFaults
        BY <1>5 DEF Crash, TypeOK
      <3> QED
        BY <1>5, <3>1, <3>2 DEF Crash, TypeOK, setup, disk, records
    <2>2. Bounds'
      BY <1>5 DEF Crash, TypeOK, Bounds, Working, Transaction
    <2> QED
      BY <2>1, <2>2
  <1>6. CASE UNCHANGED vars
    BY <1>6 DEF vars, TypeOK, Bounds
  <1> QED
    BY <1>1, <1>2, <1>3, <1>4, <1>5, <1>6 DEF Next

-----------------------------------------------------------------------------
(* Attempts.                                                               *)

\* The identities a worker writes stay the same within an attempt, from the
\* moment it has its games.
LEMMA IdsKept ==
  ASSUME UNCHANGED <<path, launches, head, shards>>
  PROVE  Ids' = Ids /\ \A f \in Files : Content(f)' = Content(f)
  BY DEF Ids, Content, G

\* Every step of a worker is one of these.
LEMMA WorkerMoves ==
  ASSUME TypeOK, Bounds, WorkerStep
  PROVE  /\ pc \in Working /\ Worker(pc, pc')
         /\ pc = "discard" => Discard
         /\ pc = "prune" => Prune
         /\ pc = "unlink" => Unlink
         /\ pc = "collect" => Collect \/ CollectRefused
         /\ pc = "publish" => Publish
         /\ pc = "prov" => WriteProvenance \/ GraphRefused
         /\ pc = "node" => WriteNode \/ GraphRefused
         /\ pc = "manifest" => WriteManifest
         /\ pc = "catalog" => Register \/ GraphRefused
         /\ pc = "fence" => Fence
         /\ pc = "finish" => Finish
         /\ pc = "cleanup" => Cleanup
         /\ pc # "collect" => shards' = shards
  BY DEF WorkerStep, Worker, Working, Transaction, Discard, Prune, Unlink, Collect,
         CollectRefused, Publish, WriteProvenance, WriteNode, WriteManifest, Register,
         GraphRefused, Fence, Finish, Cleanup, disk

\* A step that only touches what belongs to an uncommitted generation.
LEMMA LocalStep ==
  ASSUME CommittedStaysValid, ~Committed(G), marker' = marker,
         \A h \in Gens : h # G =>
           /\ file'[h] = file[h] /\ prov'[h] = prov[h] /\ node'[h] = node[h]
           /\ manifest'[h] = manifest[h] /\ catalog'[h] = catalog[h]
  PROVE  CommittedStaysValid'
  BY DEF CommittedStaysValid, Committed, Valid, Evidence

\* A step that leaves the disk alone.
LEMMA QuietStep ==
  ASSUME CommittedStaysValid, UNCHANGED disk
  PROVE  CommittedStaysValid'
  BY DEF CommittedStaysValid, Committed, Valid, Evidence, disk

LEMMA WorkerPhaseStep ==
  ASSUME TypeOK, Bounds, Started, Phases, CommittedStaysValid, WorkerStep
  PROVE  Phases' /\ CommittedStaysValid'
  <1> USE DEF Working, Transaction, Uncommitted
  <1>t. /\ file \in [Gens -> Identity] /\ prov \in [Gens -> Identity]
        /\ node \in [Gens -> Identity] /\ manifest \in [Gens -> Identity]
        /\ catalog \in [Gens -> Identity] /\ marker \in [Gens -> Identity]
        /\ step \in 1..8
    BY DEF TypeOK
  <1>w. ASSUME NEW from \in Working, NEW to, Worker(from, to)
        PROVE  /\ head < MaxGen /\ G \in Gens /\ G' = G /\ Ids \in Identity
               /\ (from # "collect" => Ids' = Ids)
               /\ pc = from /\ pc' = to /\ launches' = launches /\ path' = path
    <2>1. head < MaxGen /\ G \in Gens /\ G' = G /\ pc = from /\ pc' = to
      BY <1>w, WorkerTypes
    <2>2. UNCHANGED <<path, launches, head>>
      BY <1>w DEF Worker, setup, history, parent
    <2> QED
      BY <2>1, <2>2, IdsKept, IdsType, WorkerMoves
  <1>1. CASE Discard
    <2>1. Worker("discard", CASE Committed(G) -> "collect" [] ~Committed(G) /\ LaterEvidence -> "bad" [] OTHER -> "prune")
      BY <1>1 DEF Discard
    <2>2. /\ head < MaxGen /\ G \in Gens /\ G' = G /\ Ids' = Ids /\ Ids \in Identity
          /\ pc = "discard" /\ pc' = (CASE Committed(G) -> "collect" [] ~Committed(G) /\ LaterEvidence -> "bad" [] OTHER -> "prune") /\ launches' = launches /\ path' = path
      BY <2>1, <1>w
    <2>3. /\ marker' = marker /\ file' = file /\ prov' = prov /\ node' = node /\ manifest' = manifest
          /\ pc' = "prune" => ~Committed(G)
          /\ pc' # "prune" => catalog' = catalog
          /\ pc' = "prune" => \A h \in Gens : h # G => catalog'[h] = catalog[h]
          /\ pc' \in {"collect", "bad", "prune"}
      BY <1>1, <1>t, <2>2, PutType, IdsType DEF Discard
    <2>4. Phases'
      BY <2>2, <2>3 DEF Phases, Committed, Started
    <2>5. CommittedStaysValid'
      <3>1. CASE pc' = "prune"
        BY <2>3, <3>1, LocalStep
      <3>2. CASE pc' # "prune"
        BY <2>3, <3>2 DEF CommittedStaysValid, Committed, Valid, Evidence
      <3> QED
        BY <3>1, <3>2
    <2> QED
      BY <2>4, <2>5
  <1>2. CASE Prune
    <2>1. Worker("prune", "unlink")
      BY <1>2 DEF Prune
    <2>2. /\ head < MaxGen /\ G \in Gens /\ G' = G /\ Ids' = Ids /\ Ids \in Identity
          /\ pc = "prune" /\ pc' = ("unlink") /\ launches' = launches /\ path' = path
      BY <2>1, <1>w
    <2>3. /\ (\A h \in Gens : h # G => manifest'[h] = manifest[h])
          /\ marker' = marker /\ file' = file /\ prov' = prov /\ node' = node /\ catalog' = catalog
      BY <1>2, <1>t, <2>2, IdsType, PutType DEF Prune
    <2>4. Phases'
      BY <2>2, <2>3 DEF Phases, Committed
    <2>5. CommittedStaysValid'
      <3>1. ~Committed(G)
        BY <2>2 DEF Phases
      <3> QED
        BY <3>1, <2>3, LocalStep
    <2> QED
      BY <2>4, <2>5
  <1>3. CASE Unlink
    <2>1. Worker("unlink", IF step < 8 THEN "unlink" ELSE "collect")
      BY <1>3 DEF Unlink
    <2>2. /\ head < MaxGen /\ G \in Gens /\ G' = G /\ Ids' = Ids /\ Ids \in Identity
          /\ pc = "unlink" /\ pc' = (IF step < 8 THEN "unlink" ELSE "collect") /\ launches' = launches /\ path' = path
      BY <2>1, <1>w
    <2>3. /\ \A h \in Gens : h # G =>
               file'[h] = file[h] /\ prov'[h] = prov[h] /\ node'[h] = node[h]
          /\ marker' = marker /\ manifest' = manifest /\ catalog' = catalog
      BY <1>3, <1>t, <2>2, IdsType, SetFileType, PutType DEF Unlink, graph
    <2>4. Phases'
      BY <2>2, <2>3 DEF Phases, Committed, Started
    <2>5. CommittedStaysValid'
      <3>1. ~Committed(G)
        BY <2>2 DEF Phases
      <3> QED
        BY <3>1, <2>3, LocalStep
    <2> QED
      BY <2>4, <2>5
  <1>4. CASE Collect
    <2>1. Worker("collect", "publish")
      BY <1>4 DEF Collect
    <2>2. /\ head < MaxGen /\ G \in Gens /\ G' = G /\ Ids \in Identity
          /\ pc = "collect" /\ pc' = ("publish") /\ launches' = launches /\ path' = path
      BY <2>1, <1>w
    <2>3. UNCHANGED <<file, graph, marker>> /\ ~Committed(G) /\ step' = 1
      BY <1>4, <2>2 DEF Collect, Published, Phases
    <2>4. Phases'
      BY <2>2, <2>3 DEF Phases, Committed, Files
    <2>5. CommittedStaysValid'
      BY <2>3, LocalStep DEF graph
    <2> QED
      BY <2>4, <2>5
  <1>5. CASE CollectRefused
    <2>1. Worker("collect", "bad")
      BY <1>5 DEF CollectRefused
    <2>2. /\ head < MaxGen /\ G \in Gens /\ G' = G /\ Ids \in Identity
          /\ pc = "collect" /\ pc' = ("bad") /\ launches' = launches /\ path' = path
      BY <2>1, <1>w
    <2>3. UNCHANGED disk
      BY <1>5 DEF CollectRefused
    <2>4. Phases'
      BY <2>2, <2>3 DEF Phases, Committed, disk
    <2> QED
      BY <2>3, <2>4, QuietStep
  <1>6. CASE Publish
    <2>1. Worker("publish", IF step < 6 THEN "publish" ELSE "prov")
      BY <1>6 DEF Publish
    <2>2. /\ head < MaxGen /\ G \in Gens /\ G' = G /\ Ids' = Ids /\ Ids \in Identity
          /\ pc = "publish" /\ pc' = (IF step < 6 THEN "publish" ELSE "prov") /\ launches' = launches /\ path' = path
      BY <2>1, <1>w
    <2>2a. step \in Files /\ Content(step) \in 0..MaxLaunches
      BY <2>2, IdsType DEF Bounds, Files
    <2>2b. \A f \in Files : Content(f)' = Content(f) /\ Ids[f] = Content(f)
      BY <1>6, <2>1, <2>2, IdsKept DEF Publish, Worker, parent, Ids
    <2>3. /\ \A f \in Files : file'[G][f] = IF f = step THEN Content(step) ELSE file[G][f]
          /\ \A h \in Gens : h # G => file'[h] = file[h]
          /\ file' \in [Gens -> Identity]
          /\ marker' = marker /\ prov' = prov /\ node' = node
          /\ manifest' = manifest /\ catalog' = catalog
          /\ step' = (IF step < 6 THEN step + 1 ELSE 1)
      BY <1>6, <2>2, <2>2a, SetFileType DEF Publish, graph
    <2>3a. ASSUME step < 6 PROVE Phases'
      <3>1. \A f \in Files : f < step' => file'[G][f] = Content(f)
        BY <2>2, <2>2a, <2>3, <2>3a DEF Phases, Files
      <3> QED
        BY <3>1, <2>2, <2>2b, <2>3, <2>3a DEF Phases, Committed
    <2>3b. ASSUME ~(step < 6) PROVE Phases'
      <3>1. \A f \in Files : file'[G][f] = Ids[f]
        BY <2>2, <2>2a, <2>2b, <2>3, <2>3b DEF Phases, Files
      <3>2. file'[G] = Ids
        BY <3>1, <2>2, <2>3 DEF Identity
      <3> QED
        BY <3>2, <2>2, <2>3, <2>3b DEF Phases, Committed
    <2>4. Phases'
      BY <2>3a, <2>3b
    <2>5. CommittedStaysValid'
      <3>1. ~Committed(G)
        BY <2>2 DEF Phases
      <3> QED
        BY <3>1, <2>3, LocalStep
    <2> QED
      BY <2>4, <2>5
  <1>7. CASE WriteProvenance
    <2>1. Worker("prov", "node")
      BY <1>7 DEF WriteProvenance
    <2>2. /\ head < MaxGen /\ G \in Gens /\ G' = G /\ Ids' = Ids /\ Ids \in Identity
          /\ pc = "prov" /\ pc' = ("node") /\ launches' = launches /\ path' = path
      BY <2>1, <1>w
    <2>3. /\ prov'[G] = Ids /\ (\A h \in Gens : h # G => prov'[h] = prov[h])
          /\ marker' = marker /\ file' = file /\ node' = node /\ manifest' = manifest /\ catalog' = catalog
      BY <1>7, <1>t, <2>2, PutType DEF WriteProvenance
    <2>4. Phases'
      BY <2>2, <2>3 DEF Phases, Committed
    <2>5. CommittedStaysValid'
      <3>1. ~Committed(G)
        BY <2>2 DEF Phases
      <3> QED
        BY <3>1, <2>3, LocalStep
    <2> QED
      BY <2>4, <2>5
  <1>8. CASE WriteNode
    <2>1. Worker("node", "manifest")
      BY <1>8 DEF WriteNode
    <2>2. /\ head < MaxGen /\ G \in Gens /\ G' = G /\ Ids' = Ids /\ Ids \in Identity
          /\ pc = "node" /\ pc' = ("manifest") /\ launches' = launches /\ path' = path
      BY <2>1, <1>w
    <2>3. /\ node'[G] = Ids /\ (\A h \in Gens : h # G => node'[h] = node[h])
          /\ marker' = marker /\ file' = file /\ prov' = prov /\ manifest' = manifest /\ catalog' = catalog
      BY <1>8, <1>t, <2>2, PutType DEF WriteNode
    <2>4. Phases'
      BY <2>2, <2>3 DEF Phases, Committed
    <2>5. CommittedStaysValid'
      <3>1. ~Committed(G)
        BY <2>2 DEF Phases
      <3> QED
        BY <3>1, <2>3, LocalStep
    <2> QED
      BY <2>4, <2>5
  <1>9. CASE WriteManifest
    <2>1. Worker("manifest", "catalog")
      BY <1>9 DEF WriteManifest
    <2>2. /\ head < MaxGen /\ G \in Gens /\ G' = G /\ Ids' = Ids /\ Ids \in Identity
          /\ pc = "manifest" /\ pc' = ("catalog") /\ launches' = launches /\ path' = path
      BY <2>1, <1>w
    <2>3. /\ manifest'[G] = Ids /\ (\A h \in Gens : h # G => manifest'[h] = manifest[h])
          /\ marker' = marker /\ file' = file /\ prov' = prov /\ node' = node /\ catalog' = catalog
      BY <1>9, <1>t, <2>2, PutType DEF WriteManifest
    <2>4. Phases'
      BY <2>2, <2>3 DEF Phases, Committed
    <2>5. CommittedStaysValid'
      <3>1. ~Committed(G)
        BY <2>2 DEF Phases
      <3> QED
        BY <3>1, <2>3, LocalStep
    <2> QED
      BY <2>4, <2>5
  <1>10. CASE Register
    <2>1. Worker("catalog", "fence")
      BY <1>10 DEF Register
    <2>2. /\ head < MaxGen /\ G \in Gens /\ G' = G /\ Ids' = Ids /\ Ids \in Identity
          /\ pc = "catalog" /\ pc' = ("fence") /\ launches' = launches /\ path' = path
      BY <2>1, <1>w
    <2>3. /\ catalog'[G] = Ids /\ (\A h \in Gens : h # G => catalog'[h] = catalog[h])
          /\ marker' = marker /\ file' = file /\ prov' = prov /\ node' = node /\ manifest' = manifest
      BY <1>10, <1>t, <2>2, PutType DEF Register
    <2>4. Phases'
      BY <2>2, <2>3 DEF Phases, Committed
    <2>5. CommittedStaysValid'
      <3>1. ~Committed(G)
        BY <2>2 DEF Phases
      <3> QED
        BY <3>1, <2>3, LocalStep
    <2> QED
      BY <2>4, <2>5
  <1>11. CASE GraphRefused
    <2>1. Worker(pc, IF path = "cube" THEN "cleanup" ELSE "bad")
      BY <1>11 DEF GraphRefused
    <2>2. /\ head < MaxGen /\ G \in Gens /\ G' = G /\ Ids' = Ids /\ Ids \in Identity
          /\ pc = pc /\ pc' = (IF path = "cube" THEN "cleanup" ELSE "bad") /\ launches' = launches /\ path' = path
      BY <2>1, <1>w, <1>11 DEF GraphRefused
    <2>3. UNCHANGED disk
      BY <1>11 DEF GraphRefused
    <2>4. Phases'
      BY <1>11, <2>2, <2>3 DEF Phases, Committed, disk, GraphRefused
    <2> QED
      BY <2>3, <2>4, QuietStep
  <1>12. CASE Fence
    <2>1. Worker("fence", "finish")
      BY <1>12 DEF Fence
    <2>2. /\ head < MaxGen /\ G \in Gens /\ G' = G /\ Ids' = Ids /\ Ids \in Identity
          /\ pc = "fence" /\ pc' = ("finish") /\ launches' = launches /\ path' = path
      BY <2>1, <1>w
    <2>3. marker'[G] = Ids /\ (\A h \in Gens : h # G => marker'[h] = marker[h]) /\ UNCHANGED <<file, graph>>
      BY <1>12, <2>2, <1>t, PutType DEF Fence
    <2>4. Phases'
      BY <2>2 DEF Phases
    <2>5. file[G] = Ids /\ prov[G] = Ids /\ node[G] = Ids /\ manifest[G] = Ids /\ catalog[G] = Ids
      BY <2>2 DEF Phases
    <2>6. CommittedStaysValid'
      BY <2>3, <2>5 DEF CommittedStaysValid, Committed, Valid, Evidence, graph
    <2> QED
      BY <2>4, <2>6
  <1>13. CASE Finish
    <2>1. Worker("finish", "ok")
      BY <1>13 DEF Finish
    <2>2. /\ head < MaxGen /\ G \in Gens /\ G' = G /\ Ids' = Ids /\ Ids \in Identity
          /\ pc = "finish" /\ pc' = ("ok") /\ launches' = launches /\ path' = path
      BY <2>1, <1>w
    <2>3. UNCHANGED disk
      BY <1>13 DEF Finish
    <2>4. Phases'
      BY <2>2, <2>3 DEF Phases, Committed, disk
    <2> QED
      BY <2>3, <2>4, QuietStep
  <1>14. CASE Cleanup
    <2>1. Worker("cleanup", IF step < 6 THEN "cleanup" ELSE "bad")
      BY <1>14 DEF Cleanup
    <2>2. /\ head < MaxGen /\ G \in Gens /\ G' = G /\ Ids' = Ids /\ Ids \in Identity
          /\ pc = "cleanup" /\ pc' = (IF step < 6 THEN "cleanup" ELSE "bad") /\ launches' = launches /\ path' = path
      BY <2>1, <1>w
    <2>3. /\ \A h \in Gens : h # G =>
               file'[h] = file[h] /\ prov'[h] = prov[h] /\ node'[h] = node[h]
          /\ marker' = marker /\ manifest' = manifest /\ catalog' = catalog
      BY <1>14, <1>t, <2>2, IdsType, SetFileType, PutType DEF Cleanup, graph
    <2>4. Phases'
      BY <2>2, <2>3 DEF Phases, Committed
    <2>5. CommittedStaysValid'
      <3>1. ~Committed(G)
        BY <2>2 DEF Phases
      <3> QED
        BY <3>1, <2>3, LocalStep
    <2> QED
      BY <2>4, <2>5
  <1> QED
    BY <1>1, <1>2, <1>3, <1>4, <1>5, <1>6, <1>7, <1>8, <1>9, <1>10, <1>11, <1>12, <1>13, <1>14 DEF WorkerStep

LEMMA PhaseStep ==
  ASSUME TypeOK, Bounds, Started, Careful, Phases, CommittedStaysValid, [Next]_vars
  PROVE  Phases' /\ CommittedStaysValid'
  <1>1. CASE WorkerStep
    BY <1>1, WorkerPhaseStep
  \* Elsewhere the disk is left alone, and a worker is none, new, or as it was.
  <1>2. ASSUME UNCHANGED disk, UNCHANGED path,
               \/ pc' \in {"none", "ok", "bad", "discard"}
               \/ pc' = "collect" /\ ~Committed(G) /\ UNCHANGED head
               \/ pc' = pc /\ UNCHANGED <<head, launches, step>>
               \/ pc' = "cleanup" /\ pc \in Transaction /\ UNCHANGED head
        PROVE  Phases' /\ CommittedStaysValid'
    <2>1. CommittedStaysValid'
      BY <1>2, QuietStep
    <2>2. CASE pc' \in {"none", "ok", "bad", "discard"}
      <3>1. /\ pc' \notin Uncommitted /\ pc' \notin Transaction
            /\ pc' \notin {"publish", "catalog", "fence", "collect"}
        BY <2>2 DEF Uncommitted, Transaction
      <3>2. pc' # "publish" /\ pc' # "fence" /\ pc' # "collect"
        BY <3>1
      <3> QED
        BY <2>1, <3>1, <3>2 DEF Phases
    <2>3. CASE pc' = pc /\ UNCHANGED <<head, launches, step>>
      <3>1. G' = G
        BY <2>3 DEF G
      <3>2. Ids' = Ids
        BY <1>2, <2>3, IdsKept DEF disk
      <3>2a. \A f \in Files : Content(f)' = Content(f)
        BY <1>2, <2>3, IdsKept DEF disk
      <3>3. /\ UNCHANGED <<file, prov, node, manifest, catalog, marker>>
            /\ pc' = pc /\ step' = step /\ launches' = launches /\ path' = path
        BY <1>2, <2>3 DEF disk
      <3> QED
        BY <2>1, <3>1, <3>2, <3>2a, <3>3 DEF Phases, Committed
    <2>4. CASE pc' = "cleanup" /\ pc \in Transaction /\ UNCHANGED head
      <3>1. G' = G /\ marker' = marker
        BY <1>2, <2>4 DEF G, disk
      <3>2. pc' \notin Transaction /\ pc' # "publish" /\ pc' # "fence"
            /\ pc' \notin {"catalog", "fence"} /\ pc' # "collect"
        BY <2>4 DEF Transaction
      <3>3. ~Committed(G)'
        BY <3>1, <2>4 DEF Phases, Uncommitted, Committed
      <3> QED
        BY <2>1, <3>2, <3>3 DEF Phases
    <2>5. CASE pc' = "collect" /\ ~Committed(G) /\ UNCHANGED head
      <3>1. ~Committed(G)'
        BY <1>2, <2>5 DEF G, disk, Committed
      <3>2. pc' \notin Uncommitted /\ pc' \notin Transaction
            /\ pc' \notin {"publish", "catalog", "fence"}
        BY <2>5 DEF Uncommitted, Transaction
      <3>3. pc' # "publish" /\ pc' # "fence"
        BY <3>2
      <3> QED
        BY <2>1, <3>1, <3>2, <3>3 DEF Phases
    <2> QED
      BY <1>2, <2>1, <2>2, <2>3, <2>4, <2>5
  <1>3. CASE CoordinatorStep
    <2>1. CASE Call \/ NotCommitted \/ Acknowledge \/ Halt \/ Reattach \/ GiveUp
      BY <1>2, <2>1 DEF Call, NotCommitted, Acknowledge, Halt, Reattach, GiveUp,
                        Coordinator, worker, setup
    <2>2. CASE Reuse
      BY <1>2, <2>2 DEF Reuse, Retire, Coordinator, worker, setup
    <2>3. CASE Start \/ Retry
      <3>1. UNCHANGED <<disk, path, head>>
        BY <2>3 DEF Start, Retry, Launch, Coordinator, setup
      <3>2. CASE path = "cube"
        BY <1>2, <2>3, <3>1, <3>2 DEF Start, Retry, Launch
      <3>3. CASE path # "cube"
        <4>1. attempt = 0
          BY <2>3, <3>3 DEF Start, Retry, Careful, TypeOK
        <4>2. Start
          BY <2>3, <4>1 DEF Retry, Coordinator, Started
        <4>3. ~Committed(G)
          BY <4>1, <4>2 DEF Start, Coordinator, Started
        <4> QED
          BY <1>2, <3>1, <3>3, <4>2, <4>3 DEF Start, Launch
      <3> QED
        BY <3>2, <3>3
    <2>4. CASE SeeSuccess
      BY <1>2, <2>4 DEF SeeSuccess, Coordinator, setup
    <2>5. CASE Deliver
      BY <1>2, <2>5 DEF Deliver, Coordinator, worker, setup, Bounds
    <2> QED
      BY <1>3, <2>1, <2>2, <2>3, <2>4, <2>5 DEF CoordinatorStep
  <1>4. CASE Raise
    BY <1>2, <1>4 DEF Raise, setup, parent
  <1>5. CASE Die
    BY <1>2, <1>5 DEF Die, setup
  <1>6. ASSUME NEW machine \in BOOLEAN, Crash(machine)
        PROVE  Phases' /\ CommittedStaysValid'
    BY <1>2, <1>6 DEF Crash, setup
  <1>7. CASE UNCHANGED vars
    BY <1>2, <1>7 DEF vars, disk
  <1> QED
    BY <1>1, <1>3, <1>4, <1>5, <1>6, <1>7 DEF Next

LEMMA StartedStep ==
  ASSUME TypeOK, Bounds, Started, [Next]_vars
  PROVE  Started'
  <1> USE DEF Working, Transaction
  <1>0. attempt \in Nat /\ launches \in Nat
    BY DEF TypeOK
  <1>1. CASE WorkerStep
    <2>1. pc \in Working /\ Worker(pc, pc')
      BY <1>1, WorkerMoves
    <2>2. UNCHANGED <<path, attempt, stopped, call, launches, head>>
      BY <2>1 DEF Worker, setup, parent, history
    <2>3. pc' \in {"discard", "prune", "unlink", "cleanup"} => path = "cube"
      <3>1. pc \in {"discard", "prune", "unlink", "cleanup"} => path = "cube"
        BY DEF Started
      <3>2. pc' = "cleanup" => path = "cube"
        BY <1>1, <2>1, <3>1, WorkerMoves
           DEF Worker, Discard, Prune, Unlink, Collect, CollectRefused, Publish, WriteProvenance,
               WriteNode, WriteManifest, Register, GraphRefused, Fence, Finish, Cleanup
      <3>3. pc' \in {"discard", "prune", "unlink"} => pc \in {"discard", "prune", "unlink"}
        BY <1>1, <2>1, WorkerMoves
           DEF Worker, Discard, Prune, Unlink, Collect, CollectRefused, Publish, WriteProvenance,
               WriteNode, WriteManifest, Register, GraphRefused, Fence, Finish, Cleanup
      <3> QED
        BY <3>1, <3>2, <3>3
    <2> QED
      BY <2>1, <2>2, <2>3 DEF Started
  <1>2. CASE CoordinatorStep
    <2>1. UNCHANGED <<path, marker>>
      BY <1>2 DEF CoordinatorStep, Coordinator, setup, disk, Call, NotCommitted, Reuse,
                  Acknowledge, Halt, Reattach, Start, SeeSuccess, Retry, GiveUp, Deliver
    <2>2. CASE Call \/ NotCommitted \/ Halt \/ Reattach \/ Deliver
      BY <2>1, <2>2 DEF Call, NotCommitted, Halt, Reattach, Deliver, Coordinator, worker,
                        records, Started, Bounds, Committed, G
    <2>3. CASE Reuse
      BY <2>1, <2>3 DEF Reuse, Retire, Coordinator, worker, records, Started
    <2>4. CASE Acknowledge \/ GiveUp
      BY <2>1, <2>4 DEF Acknowledge, GiveUp, Failed, Coordinator, worker, records, Started,
                        Committed, G
    <2>5. CASE Start \/ Retry
      <3>1. /\ attempt' = attempt + 1 /\ launches' = launches + 1 /\ call' = "monitor"
            /\ stopped' = stopped /\ pc' = (IF path = "cube" THEN "discard" ELSE "collect")
        BY <2>5 DEF Start, Retry, Launch, Coordinator
      <3>2. Start => ~stopped
        BY DEF Start
      <3>3. Retry => ~stopped
        BY DEF Retry, Coordinator, Started
      <3> QED
        BY <1>0, <2>1, <2>5, <3>1, <3>2, <3>3 DEF Started
    <2>6. CASE SeeSuccess
      BY <2>1, <2>6 DEF SeeSuccess, Coordinator, Started
    <2> QED
      BY <1>2, <2>2, <2>3, <2>4, <2>5, <2>6 DEF CoordinatorStep
  <1>3. CASE Raise
    BY <1>3 DEF Raise, Started, setup, parent, disk, Committed, G
  <1>4. CASE Die
    BY <1>4 DEF Die, Started, setup, parent, disk, Committed, G
  <1>5. ASSUME NEW machine \in BOOLEAN, Crash(machine) PROVE Started'
    BY <1>5 DEF Crash, Started, setup, records
  <1>6. CASE UNCHANGED vars
    BY <1>6 DEF vars, Started, Committed, G
  <1> QED
    BY <1>1, <1>2, <1>3, <1>4, <1>5, <1>6 DEF Next

-----------------------------------------------------------------------------
(* The order of the commits.                                               *)

\* The caller is given a generation only when it is committed.
LEMMA HeadMoves ==
  ASSUME TypeOK, Bounds, [Next]_vars
  PROVE  \/ head' = head
         \/ head' = head + 1 /\ Committed(G) /\ pc' = "none" /\ UNCHANGED <<disk, launches>>
  <1>1. CASE WorkerStep
    BY <1>1, WorkerMoves DEF Worker, parent
  <1>2. CASE Reuse
    BY <1>2 DEF Reuse, Retire, Coordinator
  <1>3. CASE Deliver
    BY <1>3 DEF Deliver, Coordinator, Bounds, worker
  <1>4. CASE Raise \/ Die \/ \E machine \in BOOLEAN : Crash(machine)
    BY <1>4 DEF Raise, Die, Crash, parent
  <1>5. CASE Call \/ NotCommitted \/ Acknowledge \/ Halt \/ Reattach \/ Start \/ SeeSuccess
             \/ Retry \/ GiveUp
    BY <1>5 DEF Call, NotCommitted, Acknowledge, Halt, Reattach, Start, SeeSuccess, Retry,
                GiveUp, Launch
  <1>6. CASE UNCHANGED vars
    BY <1>6 DEF vars
  <1> QED
    BY <1>1, <1>2, <1>3, <1>4, <1>5, <1>6 DEF Next, CoordinatorStep

\* Only the worker writes, and only the fence commits.
LEMMA DiskMoves ==
  ASSUME TypeOK, Bounds, [Next]_vars
  PROVE  /\ WorkerStep \/ UNCHANGED disk
         /\ Fence \/ UNCHANGED marker
  <1>1. CASE WorkerStep
    <2>1. Fence \/ UNCHANGED marker
      BY <1>1 DEF WorkerStep, Discard, Prune, Unlink, Collect, CollectRefused, Publish,
                  WriteProvenance, WriteNode, WriteManifest, Register, GraphRefused, Finish,
                  Cleanup, disk
    <2> QED
      BY <1>1, <2>1
  <1>2. CASE CoordinatorStep
    BY <1>2 DEF CoordinatorStep, Coordinator, disk, Call, NotCommitted, Reuse,
                Acknowledge, Halt, Reattach, Start, SeeSuccess, Retry, GiveUp, Deliver
  <1>3. CASE Raise \/ Die \/ \E machine \in BOOLEAN : Crash(machine)
    BY <1>3 DEF Raise, Die, Crash, disk
  <1>4. CASE UNCHANGED vars
    BY <1>4 DEF vars, disk
  <1> QED
    BY <1>1, <1>2, <1>3, <1>4 DEF Next

\* How the worker may come to stand where it stands.
LEMMA StandMoves ==
  ASSUME TypeOK, Bounds, [Next]_vars, ~WorkerStep
  PROVE  \/ pc' = "none" \/ (pc' = "bad" /\ hurt')
         \/ pc' = pc /\ UNCHANGED <<head, launches, step, hurt, path>>
         \/ /\ pc' = "cleanup" /\ path = "cube" /\ pc \in Transaction /\ hurt'
            /\ UNCHANGED <<head, launches, path>>
         \/ /\ pc' = (IF path = "cube" THEN "discard" ELSE "collect")
            /\ launches' = launches + 1 /\ UNCHANGED <<head, path>> /\ call # "idle"
  <1>1. CASE CoordinatorStep
    <2>1. UNCHANGED <<path, retries>>
      BY <1>1 DEF CoordinatorStep, Coordinator, setup, Call, NotCommitted, Reuse,
                  Acknowledge, Halt, Reattach, Start, SeeSuccess, Retry, GiveUp, Deliver
    <2>2. UNCHANGED step
      BY <1>1 DEF CoordinatorStep, Coordinator, disk, Call, NotCommitted, Reuse,
                  Acknowledge, Halt, Reattach, Start, SeeSuccess, Retry, GiveUp, Deliver
    <2> QED
      BY <1>1, <2>1, <2>2 DEF CoordinatorStep, worker, Launch, Retire, Bounds, Coordinator, Call,
         NotCommitted, Reuse, Acknowledge, Halt, Reattach, Start, SeeSuccess, Retry, GiveUp, Deliver
  <1>2. CASE Raise
    BY <1>2 DEF Raise, setup, parent
  <1>3. CASE Die
    BY <1>3 DEF Die
  <1>4. ASSUME NEW machine \in BOOLEAN, Crash(machine)
        PROVE  \/ pc' = "bad" /\ hurt'
               \/ pc' = pc /\ UNCHANGED <<head, launches, step, hurt, path>>
    BY <1>4 DEF Crash, setup
  <1>5. CASE UNCHANGED vars
    BY <1>5 DEF vars
  <1> QED
    BY <1>1, <1>2, <1>3, <1>4, <1>5 DEF Next

\* What a step of the worker leaves as it was.
LEMMA WorkerFrame ==
  ASSUME TypeOK, Bounds, WorkerStep
  PROVE  /\ head < MaxGen /\ G \in Gens /\ G' = G /\ pc \in Working
         /\ UNCHANGED <<path, launches, hurt>> /\ Ids[6] = launches /\ Ids \in Identity
         /\ pc # "collect" => Ids' = Ids
  <1>1. pc \in Working /\ Worker(pc, pc')
    BY WorkerMoves
  <1>2. head < MaxGen /\ G \in Gens /\ G' = G /\ Ids \in Identity
    BY <1>1, WorkerTypes, IdsType
  <1>3. UNCHANGED <<path, launches, hurt, head>>
    BY <1>1 DEF Worker, setup, parent, history
  <1>4. Ids[6] = launches
    BY DEF Ids, Content, Reproducible, Files
  <1>5. pc # "collect" => Ids' = Ids
    BY <1>3, WorkerMoves, IdsKept
  <1> QED
    BY <1>1, <1>2, <1>3, <1>4, <1>5

LEMMA OrderStep ==
  ASSUME TypeOK, Bounds, Started, InOrder, path = "cube" => Phases, [Next]_vars
  PROVE  InOrder'
  <1> USE DEF Transaction
  <1>t. /\ prov \in [Gens -> Identity] /\ marker \in [Gens -> Identity]
        /\ \A g \in Gens : prov[g][6] \in Nat
        /\ launches \in Nat /\ head \in Nat /\ G = head + 1 /\ Gens \subseteq Nat
    <2>1. /\ prov \in [Gens -> Identity] /\ marker \in [Gens -> Identity]
          /\ launches \in Nat /\ head \in Nat /\ G = head + 1 /\ Gens \subseteq Nat
      BY DEF TypeOK, G, Gens
    <2>2. \A id \in Identity : id[6] \in Nat
      BY DEF Identity, Files
    <2> QED
      BY <2>1, <2>2
  <1>1. CASE head' # head
    <2>1. head' = head + 1 /\ Committed(G) /\ pc' = "none" /\ UNCHANGED <<disk, launches>>
      BY <1>1, HeadMoves
    <2>2. G' = G + 1 /\ UNCHANGED <<prov, marker>>
      BY <2>1 DEF G, disk
    <2> QED
      BY <1>t, <2>1, <2>2 DEF InOrder, Committed
  <1>2. CASE head' = head /\ ~WorkerStep
    <2>1. UNCHANGED <<prov, marker>> /\ G' = G
      BY <1>2, DiskMoves DEF disk, G
    <2>2. CASE pc' = "none" \/ pc' = "bad" \/ pc' = "cleanup"
      <3>1. launches' \in Nat /\ launches <= launches'
        BY <1>2, <1>t DEF Next, vars, CoordinatorStep, Coordinator, worker, Launch, Retire,
               Call, NotCommitted, Reuse, Acknowledge, Halt, Reattach, Start, SeeSuccess,
               Retry, GiveUp, Deliver, Raise, Die, Crash
      <3> QED
        BY <1>2, <1>t, <2>1, <2>2, <3>1 DEF InOrder, Committed
    <2>3. CASE pc' = pc /\ UNCHANGED <<head, launches, step, hurt, path>>
      <3>1. Ids' = Ids
        BY <1>2, <2>3, DiskMoves, IdsKept DEF disk
      <3> QED
        BY <1>2, <2>1, <2>3, <3>1 DEF InOrder, Committed
    <2>4. CASE /\ pc' = (IF path = "cube" THEN "discard" ELSE "collect")
               /\ launches' = launches + 1 /\ UNCHANGED <<head, path>> /\ call # "idle"
      <3>1. \A g \in Gens : Committed(g)' <=> Committed(g)
        BY <2>1 DEF Committed
      <3>2. \A g \in Gens : Committed(g) => prov'[g][6] \in 1..launches' /\ prov'[g][6] < launches'
        <4> SUFFICES ASSUME NEW g \in Gens, Committed(g)
                     PROVE  prov'[g][6] \in 1..launches' /\ prov'[g][6] < launches'
          OBVIOUS
        <4>1. prov[g][6] \in 1..launches
          BY DEF InOrder
        <4>2. prov' = prov /\ launches' = launches + 1 /\ launches \in Nat
          BY <1>t, <2>1, <2>4
        <4> QED
          BY <4>1, <4>2
      <3>3. G \in Gens
        BY <2>4, IdsType DEF Bounds
      <3> QED
        BY <1>2, <2>1, <2>4, <3>1, <3>2, <3>3 DEF InOrder
    <2> QED
      BY <1>2, <2>2, <2>3, <2>4, StandMoves
  <1>3. CASE head' = head /\ WorkerStep
    <2>1. /\ head < MaxGen /\ G \in Gens /\ G' = G /\ UNCHANGED launches
          /\ Ids[6] = launches /\ Ids \in Identity /\ (pc # "collect" => Ids' = Ids)
      BY <1>3, WorkerFrame
    <2>2. CASE Fence
      <3>1. /\ marker'[G] = Ids /\ (\A h \in Gens : h # G => marker'[h] = marker[h])
            /\ UNCHANGED prov /\ pc = "fence" /\ pc' = "finish"
        BY <2>1, <2>2, <1>t, PutType DEF Fence, graph, Worker
      <3>2. prov[G] = Ids /\ launches >= 1
        BY <3>1 DEF InOrder, Started, Working
      <3>3. Ids # Absent
        BY <2>1, <3>2 DEF Absent, Files
      <3> QED
        BY <1>3, <1>t, <2>1, <3>1, <3>2, <3>3 DEF InOrder, Committed
    <2>3. CASE ~Fence
      <3>1. UNCHANGED marker
        BY <2>3, DiskMoves
      <3>2. \A g \in Gens : Committed(g)' <=> Committed(g)
        BY <3>1 DEF Committed
      <3>3. CASE WriteProvenance
        <4>1. /\ prov'[G] = Ids /\ (\A h \in Gens : h # G => prov'[h] = prov[h])
              /\ prov[G] \in {Absent, Ids} /\ pc = "prov" /\ pc' = "node"
          BY <1>t, <2>1, <3>3, PutType DEF WriteProvenance, Writable, Worker
        <4>2. ~Committed(G)
          BY <1>t, <2>1, <4>1 DEF InOrder, Absent, Files
        <4>3. \A g \in Gens : Committed(g)' => prov'[g][6] \in 1..launches'
          BY <2>1, <3>2, <4>1, <4>2 DEF InOrder
        <4> QED
          BY <1>3, <2>1, <3>2, <4>1, <4>2, <4>3 DEF InOrder
      <3>4. CASE Unlink
        <4>1. /\ \A h \in Gens : h # G => prov'[h] = prov[h]
              /\ pc = "unlink" /\ pc' \in {"unlink", "collect"}
          BY <1>t, <2>1, <3>4, PutType, IdsType DEF Unlink, Worker
        <4>2. ~Committed(G)
          BY <4>1 DEF Started, Phases, Uncommitted
        <4>3. \A g \in Gens : Committed(g)' => prov'[g][6] \in 1..launches'
          BY <2>1, <3>2, <4>1, <4>2 DEF InOrder
        <4> QED
          BY <1>3, <2>1, <3>2, <4>1, <4>2, <4>3 DEF InOrder
      <3>5. CASE ~WriteProvenance /\ ~Unlink
        <4>1. UNCHANGED prov
          BY <1>3, <2>3, <3>5 DEF WorkerStep, Discard, Prune, Collect, CollectRefused, Publish,
                WriteNode, WriteManifest, Register, GraphRefused, Finish, Cleanup, disk, graph
        <4>2. \A g \in Gens : Committed(g)' => prov'[g][6] \in 1..launches'
          BY <2>1, <3>2, <4>1 DEF InOrder
        <4>3. /\ pc' \in Transaction \ {"publish", "prov"} => pc \in Transaction \ {"publish", "prov"}
              /\ pc' \in {"discard", "collect", "publish", "prov"}
                   => pc \in {"discard", "collect", "publish", "prov"}
              /\ pc = "collect" => pc' \in {"publish", "bad"}
          BY <1>3, <2>3, <3>5 DEF WorkerStep, Discard, Prune, Collect, CollectRefused, Publish,
                WriteNode, WriteManifest, Register, GraphRefused, Finish, Cleanup, Worker
        <4> QED
          BY <1>3, <2>1, <3>2, <4>1, <4>2, <4>3 DEF InOrder
      <3> QED
        BY <3>3, <3>4, <3>5
    <2> QED
      BY <2>2, <2>3
  <1> QED
    BY <1>1, <1>2, <1>3

-----------------------------------------------------------------------------
(* What a cube worker finds.                                               *)

LEMMA SweptStep ==
  ASSUME TypeOK, Bounds, Started, InOrder, path = "cube", Phases, Swept, [Next]_vars
  PROVE  Swept'
  <1> USE DEF Transaction
  <1>t. /\ file \in [Gens -> Identity] /\ prov \in [Gens -> Identity]
        /\ node \in [Gens -> Identity] /\ manifest \in [Gens -> Identity]
        /\ catalog \in [Gens -> Identity] /\ marker \in [Gens -> Identity]
        /\ step \in 1..8 /\ head \in Nat /\ G = head + 1 /\ Gens \subseteq Nat
    BY DEF TypeOK, G, Gens
  <1>1. CASE head' # head
    <2>1. head' = head + 1 /\ pc' = "none" /\ UNCHANGED disk
      BY <1>1, HeadMoves
    <2>2. G' = G + 1 /\ UNCHANGED manifest
      BY <2>1 DEF G, disk
    <2>3. \A g \in Gens : g > G' => manifest'[g] = Absent
      <3>1. \A g \in Gens : g > G + 1 => g > G
        BY <1>t
      <3> QED
        BY <2>2, <3>1 DEF Swept
    <2> QED
      BY <2>1, <2>3 DEF Swept
  <1>2. CASE head' = head /\ ~WorkerStep
    <2>1. UNCHANGED <<file, prov, node, manifest, catalog, marker>> /\ G' = G
      BY <1>2, DiskMoves DEF disk, G
    <2> QED
      BY <1>2, <2>1, StandMoves DEF Swept, Committed
  <1>3. CASE head' = head /\ WorkerStep
    <2>1. /\ head < MaxGen /\ G \in Gens /\ G' = G /\ pc \in Working /\ UNCHANGED hurt
      BY <1>3, WorkerFrame
    <2>m. \A g \in Gens : g > G => g # G
      BY <1>t
    <2>2. CASE pc = "discard"
      <3>1. ~Committed(G) => ~LaterEvidence
        BY <2>1 DEF LaterEvidence, InOrder, Swept
      <3>2. Discard /\ UNCHANGED <<file, prov, node, manifest, marker>>
        BY <1>3, <2>2, WorkerMoves DEF Discard
      <3>3. pc' = (IF Committed(G) THEN "collect" ELSE "prune")
        BY <3>1, <3>2 DEF Discard, Worker
      <3>4. ~Committed(G) => catalog'[G] = Absent
        BY <1>t, <2>1, <3>2, <3>3, PutType, IdsType DEF Discard
      <3> QED
        BY <2>1, <3>2, <3>3, <3>4 DEF Swept, Committed
    <2>3. CASE pc = "prune"
      <3>1. Prune
        BY <1>3, <2>3, WorkerMoves
      <3>2. /\ \A h \in Gens : h # G => manifest'[h] = manifest[h]
            /\ pc' = "unlink" /\ step' = 1 /\ UNCHANGED <<marker, catalog>>
        BY <1>t, <2>1, <3>1, PutType, IdsType DEF Prune, Worker
      <3> QED
        BY <2>1, <2>m, <2>3, <3>2 DEF Swept, Committed, Files
    <2>4. CASE pc = "unlink"
      <3>1. Unlink /\ UNCHANGED <<manifest, catalog, marker>>
        BY <1>3, <2>4, WorkerMoves DEF Unlink
      <3>2. /\ \A f \in Files : file'[G][f] = IF f = step THEN 0 ELSE file[G][f]
            /\ file' \in [Gens -> Identity]
        BY <2>1, <3>1, SetFileType DEF Unlink, TypeOK
      <3>3. /\ step = 7 => prov'[G] = Absent
            /\ step # 7 => prov' = prov
            /\ step = 8 => node'[G] = Absent
        BY <1>t, <2>1, <3>1, PutType, IdsType DEF Unlink
      <3>4. CASE step < 8
        <4>1. pc' = "unlink" /\ step' = step + 1
          BY <3>1, <3>4 DEF Unlink, Worker
        <4>2. \A f \in Files : f < step' => file'[G][f] = 0
          BY <1>t, <2>4, <3>2, <4>1 DEF Swept, Files
        <4> QED
          BY <1>t, <2>1, <2>4, <3>1, <3>3, <4>1, <4>2 DEF Swept, Committed
      <3>5. CASE step = 8
        <4>1. pc' = "collect"
          BY <3>1, <3>5 DEF Unlink, Worker
        <4>2. \A f \in Files : file'[G][f] = 0
          BY <2>4, <3>2, <3>5 DEF Swept, Files
        <4>3. file'[G] = Absent
          BY <2>1, <3>2, <4>2 DEF Absent, Identity
        <4> QED
          BY <2>1, <2>4, <3>1, <3>3, <3>5, <4>1, <4>3 DEF Swept, Committed
      <3> QED
        BY <1>t, <3>4, <3>5
    <2>5. CASE pc = "collect"
      <3>1. CASE Collect
        BY <2>1, <2>5, <3>1 DEF Collect, Worker, Swept, Committed, Published, graph
      <3>2. CASE CollectRefused
        BY <2>1, <2>5, <3>2 DEF CollectRefused, Worker, Swept, Committed, Published, disk
      <3> QED
        BY <1>3, <2>5, <3>1, <3>2, WorkerMoves
    <2>6. CASE pc \in {"prov", "node", "catalog"}
      <3>1. ~Committed(G)
        BY <2>6 DEF Phases, Uncommitted
      <3>2. ~GraphRefused
        <4>1. Writable(IF pc = "prov" THEN prov[G] ELSE IF pc = "node" THEN node[G] ELSE catalog[G])
          BY <2>6, <3>1 DEF Swept, Writable
        <4>2. [prov |-> prov, node |-> node, catalog |-> catalog][pc][G]
                = IF pc = "prov" THEN prov[G] ELSE IF pc = "node" THEN node[G] ELSE catalog[G]
          BY <2>6
        <4> QED
          BY <4>1, <4>2 DEF GraphRefused
      <3>3. CASE pc = "prov"
        BY <1>3, <2>1, <3>2, <3>3, WorkerMoves DEF WriteProvenance, Worker, Swept, Committed
      <3>4. CASE pc = "node"
        BY <1>3, <2>1, <3>2, <3>4, WorkerMoves DEF WriteNode, Worker, Swept, Committed
      <3>5. CASE pc = "catalog"
        BY <1>3, <2>1, <3>2, <3>5, WorkerMoves DEF Register, Worker, Swept, Committed
      <3> QED
        BY <2>6, <3>3, <3>4, <3>5
    <2>7. CASE pc = "manifest"
      <3>1. WriteManifest
        BY <1>3, <2>7, WorkerMoves
      <3>2. /\ \A h \in Gens : h # G => manifest'[h] = manifest[h]
            /\ pc' = "catalog" /\ UNCHANGED <<marker, catalog>>
        BY <1>t, <2>1, <3>1, PutType, IdsType DEF WriteManifest, Worker
      <3> QED
        BY <2>1, <2>m, <2>7, <3>2 DEF Swept, Committed
    <2>8. CASE pc = "publish"
      BY <1>3, <2>1, <2>8, WorkerMoves DEF Publish, Worker, Swept, Committed, graph
    <2>9. CASE pc \in {"fence", "finish", "cleanup"}
      BY <1>3, <2>1, <2>9, WorkerMoves
         DEF Fence, Finish, Cleanup, Worker, Swept, graph, disk
    <2> QED
      BY <2>1, <2>2, <2>3, <2>4, <2>5, <2>6, <2>7, <2>8, <2>9 DEF Working
  <1> QED
    BY <1>1, <1>2, <1>3

LEMMA Inductive == IInv /\ [Next]_vars => IInv'
  <1> SUFFICES ASSUME IInv, [Next]_vars PROVE IInv'
    OBVIOUS
  <1>1. TypeOK' /\ Bounds'
    BY TypeStep DEF IInv
  <1>2. UNCHANGED <<path, retries>>
    BY DEF Next, WorkerStep, CoordinatorStep, vars, Worker, Coordinator, setup, Discard,
           Prune, Unlink, Collect, CollectRefused, Publish, WriteProvenance, WriteNode,
           WriteManifest, Register, GraphRefused, Fence, Finish, Cleanup, Call,
           NotCommitted, Reuse, Acknowledge, Halt, Reattach, Start, SeeSuccess, Retry,
           GiveUp, Deliver, Raise, Die, Crash
  <1>3. Careful => Phases' /\ CommittedStaysValid'
    BY PhaseStep DEF IInv
  <1>4. Started' /\ InOrder'
    BY StartedStep, OrderStep DEF IInv, Careful
  <1>5. path = "cube" => Swept'
    BY SweptStep DEF IInv, Careful
  <1> QED
    BY <1>1, <1>2, <1>3, <1>4, <1>5 DEF IInv, Careful

-----------------------------------------------------------------------------
(* Theorems.                                                               *)

LEMMA Invariant == Spec => []IInv
  BY Initial, Inductive, PTL DEF Spec

\* Every reachable state of GenerationCommit is well typed: no record names a
\* launch that never was, and attempts stay within the retry policy.
THEOREM TypeCorrect == Spec => []TypeOK
  <1>1. IInv => TypeOK
    BY DEF IInv
  <1> QED
    BY <1>1, Invariant, PTL

\* A generation that has its completion marker validates at every later moment,
\* for any number of generations, launches and faults: on the cube path with any
\* retry policy, and on the five-channel path when it is not retried (there a
\* retry of an attempt that committed publishes its artifacts again).  Retries,
\* reconciliation and the cleanup of failed attempts never touch what is
\* committed, and the marker is always last.
THEOREM CommitsAreFinal == Spec => [](path = "cube" \/ retries = 0 => CommittedStaysValid)
  <1>1. IInv => (path = "cube" \/ retries = 0 => CommittedStaysValid)
    BY DEF IInv, Careful
  <1> QED
    BY <1>1, Invariant, PTL

\* On the cube path an attempt that no fault hit never fails, whatever earlier
\* attempts left behind, unless its generation was committed before.
THEOREM CleanAttemptsCommit == Spec => []CleanAttemptCommits
  <1>1. IInv => CleanAttemptCommits
    BY DEF IInv, Swept, CleanAttemptCommits
  <1> QED
    BY <1>1, Invariant, PTL

-----------------------------------------------------------------------------
(* The lineage as a log.                                                   *)

\* How many generations are committed, when all of them up to h are and none
\* beyond the next.
LEMMA LogLength ==
  ASSUME NEW h \in 0..MaxGen, NEW S \in SUBSET Gens,
         \A g \in Gens : g <= h => g \in S,
         \A g \in Gens : g > h + 1 => g \notin S
  PROVE  Cardinality(S) = IF h + 1 \in S THEN h + 1 ELSE h
  <1> DEFINE n == IF h + 1 \in S THEN h + 1 ELSE h
  <1>1. n \in Nat
    OBVIOUS
  <1>2. S = 1..n
    <2>1. ASSUME NEW g \in S PROVE g \in 1..n
      BY <2>1 DEF Gens
    <2>2. ASSUME NEW g \in 1..n PROVE g \in S
      BY <2>2 DEF Gens
    <2> QED
      BY <2>1, <2>2
  <1> QED
    BY <1>1, <1>2, FS_Interval

\* The identities of the committed generations, as the log holds them.
Entries == [g \in 1..Cardinality(CommittedGens) |-> marker[g]]

LEMMA LogStep == IInv /\ IInv' /\ [Next]_vars => [Log!Next]_<<Entries, head>>
  <1> SUFFICES ASSUME IInv, IInv', [Next]_vars PROVE [Log!Next]_<<Entries, head>>
    OBVIOUS
  <1>t. TypeOK /\ Bounds /\ InOrder /\ TypeOK' /\ InOrder'
    BY DEF IInv
  <1>h. head \in Nat /\ G = head + 1
    BY <1>t DEF TypeOK, G
  <1>1. CASE Fence
    <2>1. /\ head < MaxGen /\ G \in Gens /\ G' = G /\ Ids \in Identity /\ head' = head
          /\ pc = "fence"
      BY <1>t, <1>1, WorkerFrame DEF WorkerStep, Fence, Worker, parent
    <2>2. marker'[G] = Ids /\ \A h \in Gens : h # G => marker'[h] = marker[h]
      BY <1>1, <1>t, <2>1, PutType DEF Fence, TypeOK
    <2>3. ~Committed(G)
      BY <1>t, <2>1 DEF InOrder, Transaction
    <2>4. Cardinality(CommittedGens) = head
      <3>1. head + 1 \notin CommittedGens
        BY <1>h, <2>3 DEF CommittedGens
      <3> QED
        BY <1>t, <1>h, <3>1, LogLength DEF CommittedGens, InOrder, TypeOK
    <2>5. Committed(G)'
      <3>1. Ids[6] = launches /\ launches >= 1
        BY <1>t, <1>1, <2>1, WorkerFrame DEF WorkerStep, IInv, Started, Working, Transaction
      <3> QED
        BY <2>1, <2>2, <3>1 DEF Committed, Absent, Files
    <2>6. Cardinality(CommittedGens)' = head + 1
      <3>1. head + 1 \in CommittedGens'
        BY <1>h, <2>1, <2>5 DEF CommittedGens
      <3>2. /\ \A g \in Gens : g <= head => g \in CommittedGens'
            /\ \A g \in Gens : g > head + 1 => g \notin CommittedGens'
            /\ CommittedGens' \in SUBSET Gens
        BY <1>t, <1>h, <2>1 DEF CommittedGens, InOrder
      <3>3. head \in 0..MaxGen
        BY <1>t DEF TypeOK
      <3> QED
        BY <3>1, <3>2, <3>3, LogLength
    <2>7. Entries = [g \in 1..head |-> marker[g]] /\ Entries' = [g \in 1..head + 1 |-> marker'[g]]
      BY <2>4, <2>6 DEF Entries
    <2>8. \A g \in 1..head : marker'[g] = marker[g]
      BY <1>h, <2>1, <2>2 DEF Gens
    <2>9. /\ Len(Entries) = head /\ Len(Entries') = head + 1 /\ Entries'[head + 1] = Ids
          /\ Entries' = Append(Entries, Ids)
      <3>1. Entries \in Seq(Identity)
        <4>1. \A g \in 1..head : g \in Gens
          BY <1>h, <2>1 DEF Gens
        <4>2. \A g \in 1..head : marker[g] \in Identity
          BY <1>t, <4>1 DEF TypeOK
        <4> QED
          BY <1>h, <2>7, <4>2
      <3>2. Entries' = Append(Entries, Ids)
        BY <1>h, <2>2, <2>7, <2>8, <3>1
      <3> QED
        BY <1>h, <2>1, <2>2, <2>7, <3>1, <3>2
    <2> QED
      BY <2>1, <2>9 DEF Log!Next, Log!Commit, Entries
  <1>2. CASE ~Fence
    <2>1. UNCHANGED marker
      BY <1>t, <1>2, DiskMoves
    <2>2. CommittedGens' = CommittedGens /\ Entries' = Entries
      BY <2>1 DEF CommittedGens, Committed, Entries
    <2>3. CASE head' = head
      BY <2>2, <2>3
    <2>4. CASE head' # head
      <3>1. head' = head + 1 /\ Committed(G)
        BY <1>t, <2>4, HeadMoves
      <3>2. G \in Gens
        BY <1>t, <1>h, <3>1 DEF TypeOK, Gens
      <3>3. Cardinality(CommittedGens) = head + 1
        <4>1. head + 1 \in CommittedGens
          BY <1>h, <3>1, <3>2 DEF CommittedGens
        <4> QED
          BY <1>t, <1>h, <4>1, LogLength DEF CommittedGens, InOrder, TypeOK
      <3>4. Len(Entries) = head + 1
        BY <1>h, <3>3 DEF Entries
      <3>5. head < Len(Entries) /\ head' = head + 1 /\ UNCHANGED Entries
        BY <1>h, <2>2, <3>1, <3>4
      <3>6. Log!Deliver
        BY <3>5 DEF Log!Deliver, Entries
      <3> QED
        BY <3>6 DEF Log!Next
    <2> QED
      BY <2>3, <2>4
  <1> QED
    BY <1>1, <1>2

\* The lineage implements an append-only log: on either path, with any retry
\* policy and however the faults fall, a generation is committed once, in its
\* turn, is never replaced or taken back, and the caller is handed the
\* committed generations one after the other.
THEOREM LineageIsLog == Spec => ImplementsLog
  <1>1. Init => Log!Init
    <2> SUFFICES ASSUME Init PROVE Log!Init
      OBVIOUS
    <2>1. IInv
      BY Initial
    <2>2. head = 0 /\ \A g \in Gens : ~Committed(g)
      BY DEF Init, Committed
    <2>3. Cardinality(CommittedGens) = 0
      BY <2>2, FS_EmptySet DEF CommittedGens
    <2> QED
      BY <2>2, <2>3 DEF Log!Init
  <1>2. IInv /\ IInv' /\ [Next]_vars => [Log!Next]_<<Entries, head>>
    BY LogStep
  <1> QED
    BY <1>1, <1>2, Invariant, PTL DEF Spec, ImplementsLog, Log!Spec, Entries

=============================================================================
