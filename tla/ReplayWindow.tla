------------------------------ MODULE ReplayWindow ------------------------------
(***************************************************************************)
(* The rolling replay of a graph of generations: the rows a generation is   *)
(* trained on are the last ones, up to a cap, of the last generations of     *)
(* its ancestry.  Nobody recomputes them: each generation starts from the    *)
(* rolling artifact of its parent, or from the fresh artifacts of its        *)
(* ancestors, and appends its own rows (tools/torus9_run_driver.py,          *)
(* gocube_golden/torus9_training.py, artifact_resolver.py; for the cubes     *)
(* orchestrator_v2/cube_production.py and cube_training_v2.py).              *)
(*                                                                         *)
(* `graph` is what is committed: a sequence of checkpoint nodes, the genesis *)
(* first.  Committed content is immutable; how it gets committed, crashes    *)
(* included, is GenerationCommit's concern.                                 *)
(***************************************************************************)
EXTENDS Integers, Sequences, FiniteSets, SequencesExt

CONSTANTS
  Policies,  \* the replay policies a config may ask for
  Sizes,     \* how many rows a generation may produce
  MaxNodes,  \* bound: nodes of the graph
  MaxLegacy, \* bound: generations taken over from orchestrator V1
  MaxLines   \* bound: lineages

NoCap == 0

ReplayAssumption ==
  /\ \A p \in Policies : p.gens \in Nat \ {0} /\ p.cap \in Nat
  /\ Sizes \subseteq Nat \ {0} /\ {MaxNodes, MaxLegacy, MaxLines} \subseteq Nat
  /\ MaxLegacy < MaxNodes

VARIABLES
  graph,  \* the nodes: generation, parent, lineage, policy, fresh size, rolling rows,
          \* the parts they are composed of, and whether V2 committed them
  run,    \* the generation that is being trained
  path    \* the training path: "torus9" or "cube"

\* A row names its generation and the node whose fresh artifact has it.
Fresh(node, gen, size) == [k \in 1..size |-> [gen |-> gen, node |-> node, k |-> k]]
GensOf(rows) == {rows[k].gen : k \in DOMAIN rows}
CountOf(rows, g) == Cardinality({k \in DOMAIN rows : rows[k].gen = g})
RowsOf(rows, g) == SelectSeq(rows, LAMBDA r : r.gen = g)
Sorted(gens) == SetToSortSeq(gens, <)

MinOf(a, b) == IF a < b THEN a ELSE b
MaxOf(a, b) == IF a < b THEN b ELSE a
Sum(f) == FoldFunction(+, 0, f)

-----------------------------------------------------------------------------
(* The buffer: rows, the last generation, and for each generation that is   *)
(* left its artifact, the rows it had and the rows that are left.           *)

Empty == [rows |-> <<>>, last |-> 0, parts |-> <<>>]

LastRows(rows, cap) ==
  IF cap = NoCap \/ Len(rows) <= cap THEN rows
  ELSE SubSeq(rows, Len(rows) - cap + 1, Len(rows))

\* append_generation of the core: drop the generations before the window, then
\* the oldest rows over the cap.
Trim(rows, gen, pol) ==
  LastRows(SelectSeq(rows, LAMBDA r : r.gen >= gen - pol.gens + 1), pol.cap)

\* The identities kept beside the rows, by the facade of the torus.
PartsLeft(parts, rows) ==
  [g \in DOMAIN parts \cap GensOf(rows) |-> [parts[g] EXCEPT !.left = CountOf(rows, g)]]

Append1(buffer, gen, rows, part, pol) ==
  LET trimmed == Trim(buffer.rows \o rows, gen, pol)
      parts == [g \in DOMAIN buffer.parts \cup {gen} |->
                  IF g = gen THEN part ELSE buffer.parts[g]]
  IN  [rows |-> trimmed, last |-> gen, parts |-> PartsLeft(parts, trimmed)]

\* What append_generation refuses.
Appendable(buffer, gen, rows) ==
  gen > buffer.last /\ {rows[k] : k \in DOMAIN rows} \cap {buffer.rows[k] : k \in DOMAIN buffer.rows} = {}

Part(node, size) == [file |-> node, size |-> size, left |-> size]

-----------------------------------------------------------------------------
(* What the driver says of a composition, without reading a row.            *)

\* _v2_compose_replay_identity: the oldest generations lose rows until the cap
\* is met, and those that lost all of them are left out.
Compose(parts, pol) ==
  LET excess == IF pol.cap = NoCap THEN 0
                ELSE MaxOf(0, Sum([g \in DOMAIN parts |-> parts[g].size]) - pol.cap)
      older(g) == Sum([h \in {h \in DOMAIN parts : h < g} |-> parts[h].size])
      left(g) == parts[g].size - MinOf(parts[g].size, MaxOf(0, excess - older(g)))
  IN  [g \in {g \in DOMAIN parts : left(g) > 0} |-> [parts[g] EXCEPT !.left = left(g)]]

\* The committed evidence of a rolling artifact agrees with itself.
EvidenceSound(n) ==
  /\ Compose(n.parts, n.policy) = n.parts
  /\ GensOf(n.rows) = DOMAIN n.parts
  /\ Len(n.rows) = Sum([g \in DOMAIN n.parts |-> n.parts[g].left])

\* A mutant: the policy of the parent is not compared.
MatchesAnyScope(n, pol) ==
  n.gen > 0 /\ DOMAIN n.parts = (n.gen - Cardinality(DOMAIN n.parts) + 1)..n.gen

\* _v2_replay_identity_matches_scope: the rolling artifact of the parent is
\* what the child's policy asks for.
MatchesScope(n, pol) ==
  LET composed == Compose(n.parts, pol)
      count == MinOf(pol.gens, n.gen)
  IN  /\ n.policy = pol /\ count > 0 /\ composed = n.parts
      /\ DOMAIN composed = (n.gen - count + 1)..n.gen

-----------------------------------------------------------------------------
(* The graph.                                                              *)

Genesis(pol) ==
  [gen |-> 0, parent |-> 0, lineage |-> 1, policy |-> pol, size |-> 0, rows |-> <<>>,
   parts |-> <<>>, committed |-> FALSE]

\* The ancestors from i back, i first, the genesis left out.
Ancestry[i \in Nat] ==
  IF i = 0 \/ graph[i].gen = 0 THEN <<>> ELSE Append(Ancestry[graph[i].parent], i)

\* _fresh_replay_window: the last nodes of the ancestry, oldest first; there
\* must be as many as are asked for.
TooYoung(i, count) == Len(Ancestry[i]) < count
FreshWindow(i, count) == LET all == Ancestry[i] IN SubSeq(all, Len(all) - count + 1, Len(all))

FreshOf(i) == Fresh(i, graph[i].gen, graph[i].size)
FreshParts(nodes) ==
  [g \in {graph[nodes[k]].gen : k \in DOMAIN nodes} |->
     LET i == nodes[CHOOSE k \in DOMAIN nodes : graph[nodes[k]].gen = g] IN Part(i, graph[i].size)]

\* Generations that orchestrator V1 made: nodes whose rolling artifact has no
\* compact evidence, so that only their fresh artifacts are used.
LegacyGraph(sizes, pol) ==
  <<Genesis(pol)>> \o
  [i \in DOMAIN sizes |-> [Genesis(pol) EXCEPT !.gen = i, !.parent = i, !.size = sizes[i]]]

Idle == [pc |-> "idle"]

ReplayInit ==
  /\ path \in {"torus9", "cube"} /\ run = Idle
  /\ \E n \in 0..(IF path = "cube" THEN 0 ELSE MaxLegacy), pol \in Policies :
       \E sizes \in [1..n -> Sizes] : graph = LegacyGraph(sizes, pol)

-----------------------------------------------------------------------------
(* Training one generation.  The process that does it has nothing durable   *)
(* before it publishes.                                                    *)

Lines == {graph[i].lineage : i \in DOMAIN graph}

\* A child continues the lineage of its parent, unless that has a child
\* already, or opens another.
LineagesFor(i) ==
  {l \in {graph[i].lineage} : \A j \in DOMAIN graph : graph[j].parent = i => graph[j].lineage # l}
  \cup {l \in {Cardinality(Lines) + 1} : l <= MaxLines}

\* A generation is asked for: a parent, the lineage it goes to, the policy of
\* the config that is then in force.
Ask ==
  /\ run.pc = "idle" /\ Len(graph) < MaxNodes
  /\ \E i \in DOMAIN graph, pol \in Policies : \E l \in LineagesFor(i) :
       run' = [pc |-> "select", parent |-> i, lineage |-> l, policy |-> pol]
  /\ UNCHANGED <<graph, path>>

Refuse(why) ==
  /\ run' = [pc |-> "refused", parent |-> run.parent, lineage |-> run.lineage,
             policy |-> run.policy, why |-> why]
  /\ UNCHANGED <<graph, path>>

Select(source) ==
  /\ run' = [pc |-> "restore", parent |-> run.parent, lineage |-> run.lineage,
             policy |-> run.policy, source |-> source]
  /\ UNCHANGED <<graph, path>>

\* _resolve_v2_replay_sources: the rolling artifact of the parent if it is in
\* scope; else the fresh window of the graph, which also checks a rolling
\* artifact of the same policy.
SelectTorus ==
  LET parent == graph[run.parent] pol == run.policy
      window == FreshWindow(run.parent, pol.gens)
  IN  /\ run.pc = "select" /\ path = "torus9"
      /\ \/ parent.committed /\ ~EvidenceSound(parent) /\ Refuse("evidence")
         \/ /\ parent.committed /\ EvidenceSound(parent) /\ MatchesScope(parent, pol)
            /\ Select("rolling")
         \/ /\ ~(parent.committed /\ (~EvidenceSound(parent) \/ MatchesScope(parent, pol)))
            /\ \/ TooYoung(run.parent, pol.gens) /\ Refuse("ancestry")
               \/ /\ ~TooYoung(run.parent, pol.gens)
                  /\ IF ~parent.committed \/ parent.policy # pol THEN Select("fresh")
                     ELSE IF parent.parts = Compose(FreshParts(window), pol) THEN Select("rolling")
                     ELSE Refuse("evidence")

\* The cubes have the rolling artifact of the parent only; another config
\* needs another lineage.
SelectCube ==
  /\ run.pc = "select" /\ path = "cube"
  /\ IF run.policy # graph[run.parent].policy /\ run.lineage = graph[run.parent].lineage
     THEN Refuse("lineage") ELSE Select("rolling")

Restored(buffer) ==
  /\ run' = [pc |-> "train", parent |-> run.parent, lineage |-> run.lineage,
             policy |-> run.policy, buffer |-> buffer]
  /\ UNCHANGED <<graph, path>>

\* from_persisted_rows and validate_replay: ordered, within the window and cap.
Presentable(rows, pol) ==
  /\ \A j, k \in DOMAIN rows : j < k => rows[j].gen <= rows[k].gen /\ rows[j] # rows[k]
  /\ \A j, k \in DOMAIN rows : rows[k].gen - rows[j].gen < pol.gens
  /\ pol.cap = NoCap \/ Len(rows) <= pol.cap

\* load_state with the rolling artifact: its rows and its parts, as they are.
RestoreRolling ==
  LET parent == graph[run.parent] IN
  /\ run.pc = "restore" /\ path = "torus9" /\ run.source = "rolling"
  /\ IF Presentable(parent.rows, run.policy)
     THEN Restored([rows |-> parent.rows, last |-> parent.rows[Len(parent.rows)].gen,
                    parts |-> parent.parts])
     ELSE Refuse("rows")

\* _rolling_from_sources with fresh artifacts: each generation is appended to an
\* empty buffer, and the result compared with the expected composition.
RestoreFresh ==
  LET window == FreshWindow(run.parent, run.policy.gens)
      buffer == FoldLeft(LAMBDA b, i : Append1(b, graph[i].gen, FreshOf(i),
                                               Part(i, graph[i].size), run.policy),
                         Empty, window)
  IN  /\ run.pc = "restore" /\ run.source = "fresh"
      /\ IF /\ buffer.parts = Compose(FreshParts(window), run.policy)
            /\ Presentable(buffer.rows, run.policy)
         THEN Restored(buffer) ELSE Refuse("rows")

\* _restore_replay of the cubes: the rows are appended again by generation.
Reappended(rows, pol) ==
  FoldLeft(LAMBDA b, g : [rows |-> Trim(b.rows \o RowsOf(rows, g), g, pol), last |-> g,
                          parts |-> <<>>],
           Empty, Sorted(GensOf(rows)))

\* load_cube_checkpoint, or load_cube_checkpoint_for_config_transition: the rows
\* are restored under the policy of the source, then under the new one.
RestoreCube ==
  LET parent == graph[run.parent] IN
  /\ run.pc = "restore" /\ path = "cube"
  /\ IF Reappended(parent.rows, parent.policy).rows = parent.rows
     THEN Restored(Reappended(parent.rows, run.policy)) ELSE Refuse("rows")

\* run_iteration up to the composition of the identity: the fresh rows are
\* appended and the buffer validated.
Grow ==
  /\ run.pc = "train"
  /\ \E size \in Sizes :
       LET gen == graph[run.parent].gen + 1
           node == Len(graph) + 1
           rows == Fresh(node, gen, size)
           grown == Append1(run.buffer, gen, rows, Part(node, size), run.policy)
       IN  IF Appendable(run.buffer, gen, rows) /\ Presentable(grown.rows, run.policy)
           THEN /\ run' = [pc |-> "publish", parent |-> run.parent, lineage |-> run.lineage,
                           policy |-> run.policy, buffer |-> grown, size |-> size]
                /\ UNCHANGED <<graph, path>>
           ELSE Refuse("rows")

\* The commit: rolling and fresh artifacts, and the marker with the identity.
Publish ==
  /\ run.pc = "publish"
  /\ graph' = Append(graph,
       [gen |-> graph[run.parent].gen + 1, parent |-> run.parent, lineage |-> run.lineage,
        policy |-> run.policy, size |-> run.size, rows |-> run.buffer.rows,
        parts |-> IF path = "cube" THEN <<>> ELSE run.buffer.parts, committed |-> TRUE])
  /\ run' = Idle /\ UNCHANGED path

Train ==
  \/ SelectTorus \/ SelectCube \/ RestoreRolling \/ RestoreFresh \/ RestoreCube
  \/ Grow \/ Publish

ReplayNext == Ask \/ Train

ReplaySpec == ReplayInit /\ [][ReplayNext]_<<graph, run, path>>

-----------------------------------------------------------------------------

ReplayTypeOK ==
  /\ path \in {"torus9", "cube"}
  /\ \A i \in DOMAIN graph :
       /\ graph[i].gen \in Nat /\ graph[i].parent \in 0..(i - 1) /\ graph[i].policy \in Policies
       /\ graph[i].lineage \in 1..MaxLines /\ graph[i].size \in Sizes \cup {0}
  /\ run.pc \in {"idle", "select", "restore", "train", "publish", "refused"}

\* All rows of a generation's ancestry, its own last: what the window is cut of.
History[i \in Nat] ==
  IF i = 0 THEN <<>> ELSE History[graph[i].parent] \o FreshOf(i)

\* The window by its definition: the last rows of the last generations.
Window(i, pol) ==
  LastRows(SelectSeq(History[i], LAMBDA r : r.gen > graph[i].gen - pol.gens), pol.cap)

Within(p, q) ==
  p = q \/ (p.gens <= q.gens /\ (q.cap = NoCap \/ (p.cap # NoCap /\ p.cap <= q.cap)))

\* No config on the way to node i kept less than pol asks for.
NeverNarrower(i, pol) ==
  LET nodes == Ancestry[i] IN \A k \in DOMAIN nodes : Within(pol, graph[nodes[k]].policy)

\* What is trained on is the window of the ancestry, through whatever artifacts
\* it was handed down, trimmed on the way or not, across lineages and changes of
\* the policy.  Only a cube cannot get back what a narrower config dropped: it
\* then has the last rows of the window.
IsWindow(rows, i, pol) ==
  IF path = "torus9" \/ NeverNarrower(i, pol) THEN rows = Window(i, pol)
  ELSE IsSuffix(rows, Window(i, pol)) /\ GensOf(rows) # {}

WindowIsTheTail ==
  /\ \A i \in DOMAIN graph :
       graph[i].committed => IsWindow(graph[i].rows, i, graph[i].policy)
  /\ run.pc = "train" /\ graph[run.parent].gen > 0 =>
       IsWindow(run.buffer.rows, run.parent, run.policy)

\* The published parts say what the rolling artifact holds, and of which files:
\* a later generation trusts them instead of the rows.
EvidenceIsTrue ==
  \A i \in DOMAIN graph : graph[i].committed /\ path = "torus9" =>
    /\ DOMAIN graph[i].parts = GensOf(graph[i].rows)
    /\ \A g \in DOMAIN graph[i].parts :
         LET part == graph[i].parts[g] IN
         /\ part.left = CountOf(graph[i].rows, g)
         /\ part.size = graph[part.file].size /\ graph[part.file].gen = g
         /\ \A k \in DOMAIN graph[i].rows :
              graph[i].rows[k].gen = g => graph[i].rows[k].node = part.file

\* A generation whose parent is committed is refused for a cause only: never for
\* its rows or their evidence; on the torus, because the ancestry is shorter
\* than the window and the rolling artifact cannot stand in for it (another
\* policy, a V1 parent, or a cap that has dropped a whole generation); for the
\* cubes, because a config changed within a lineage.
RefusedForCause ==
  run.pc = "refused" =>
    LET parent == graph[run.parent] IN
    IF path = "cube"
    THEN run.why = "lineage" /\ run.policy # parent.policy /\ run.lineage = parent.lineage
    ELSE /\ run.why = "ancestry" /\ parent.gen < run.policy.gens
         /\ ~parent.committed \/ parent.policy # run.policy \/ Cardinality(GensOf(parent.rows)) < parent.gen

ReplayIsSound == WindowIsTheTail /\ EvidenceIsTrue /\ RefusedForCause
=============================================================================
