------------------------------- MODULE TreeSearch -------------------------------
(***************************************************************************)
(* The search of one player through a game: the tree that is kept from     *)
(* move to move (gocube_golden/search.py, SearchTree), the session that    *)
(* searches from its root and is suspended at each evaluation              *)
(* (SequentialPUCTSession), and the game it is for: a self-play game whose *)
(* player is both sides (torus9_selfplay.py) or one side of an Arena game  *)
(* (tools/arena_worker.py), where the other side plays what it likes.      *)
(*                                                                         *)
(* A node is named by the actions that lead to it from the root; with it   *)
(* are the numbers of the edge into it.  The formula that ranks edges, with *)
(* its priors and noise, is left out: a traversal takes any edge, and an   *)
(* evaluation is worth 1 or -1 to the side that is to move.                *)
(***************************************************************************)
EXTENDS GoRules, SequencesExt

CONSTANTS
  Sims,     \* simulations of a search
  Watchdog  \* moves after which a game is cut off

SearchAssumption == RulesAssumption /\ {Sims, Watchdog} \subseteq Nat \ {0}

VARIABLES
  tree,     \* SearchTree.root and what hangs from it
  session,  \* the search of the move, suspended or not
  table     \* which game it is, its moves, and how it ended

searchVars == <<game, tree, session, table>>

NoTree == [p \in {} |-> 0]
Node(s) == [state |-> s, expanded |-> FALSE, utility |-> 0, visits |-> 0, value |-> 0]
Fresh(s) == [p \in {<<>>} |-> Node(s)]
Idle == [on |-> FALSE, waiting |-> FALSE, leaf |-> <<>>, left |-> 0, base |-> 0]

SearchTypeOK ==
  /\ RulesTypeOK
  /\ \A p \in DOMAIN tree : /\ p \in Seq(Points \cup {PASS})
                            /\ tree[p].utility \in -1..1 /\ tree[p].visits \in Nat
  /\ session.on \in BOOLEAN /\ session.waiting \in BOOLEAN /\ session.left \in 0..Sims
  /\ table.mine \in (SUBSET Colors) \ {{}} /\ table.reuse \in BOOLEAN
  /\ table.ply \in 0..Watchdog /\ table.end \in {"none", "formal", "truncated", "error"}

SearchInit ==
  /\ RulesInit /\ tree = NoTree /\ session = Idle
  /\ \E mine \in (SUBSET Colors) \ {{}}, reuse \in BOOLEAN :
       table = [mine |-> mine, reuse |-> reuse, ply |-> 0, end |-> "none"]

Children(t, p) == {q \in DOMAIN t : Len(q) = Len(p) + 1 /\ IsPrefix(p, q)}
SumOver(S, f(_)) == FoldSet(LAMBDA q, acc : acc + f(q), 0, S)
VisitsBelow(t, p) == SumOver(Children(t, p), LAMBDA q : t[q].visits)
ValueBelow(t, p) == SumOver(Children(t, p), LAMBDA q : t[q].value)
VisitsOf(t, p) == IF p \in DOMAIN t THEN t[p].visits ELSE 0

Playing == table.end = "none" /\ ~Over(game) /\ table.ply < Watchdog

-----------------------------------------------------------------------------
(* SearchTree.                                                             *)

PrepareRoot ==
  IF table.reuse /\ tree # NoTree /\ tree[<<>>].state = game THEN tree ELSE Fresh(game)

Below(t, a) ==
  LET paths == {q \in DOMAIN t : q # <<>> /\ Head(q) = a}
  IN [p \in {Tail(q) : q \in paths} |-> t[<<a>> \o p]]

\* SearchTree.advance; the tree of a side that has not searched yet is not made.
Advance(t, a, after) ==
  IF ~table.reuse \/ t = NoTree THEN NoTree
  ELSE IF <<a>> \in DOMAIN t /\ t[<<a>>].state = after THEN Below(t, a)
  ELSE Fresh(after)

-----------------------------------------------------------------------------
(* The session.                                                            *)

\* _run up to its first evaluation, or on from a root that was kept.
Begin ==
  /\ Playing /\ ~session.on /\ game.side \in table.mine
  /\ tree' = PrepareRoot
  /\ session' = [on |-> TRUE, waiting |-> ~tree'[<<>>].expanded, leaf |-> <<>>,
                 left |-> Sims, base |-> VisitsBelow(tree', <<>>)]
  /\ UNCHANGED <<game, table>>

\* Mutant: the sign is flipped once, for the leaf.
BackupOnce(t, leaf, u) ==
  [q \in DOMAIN t |-> IF q # <<>> /\ IsPrefix(q, leaf)
                        THEN [t[q] EXCEPT !.visits = @ + 1, !.value = @ - u]
                        ELSE t[q]]

\* _backup: each edge up to the root, from its parent's side.
Backup(t, leaf, u) ==
  LET sign(q) == IF (Len(leaf) - Len(q)) % 2 = 0 THEN -u ELSE u
  IN [q \in DOMAIN t |-> IF q # <<>> /\ IsPrefix(q, leaf)
                           THEN [t[q] EXCEPT !.visits = @ + 1, !.value = @ + sign(q)]
                           ELSE t[q]]

\* _traverse, to a node without edges, which is made if it is new.  A game that
\* is over has its exact value; else the session is suspended.
Traverse ==
  /\ session.on /\ ~session.waiting /\ session.left > 0
  /\ \E p \in DOMAIN tree : \E a \in Legal(tree[p].state) :
       LET q == Append(p, a)
           found == IF q \in DOMAIN tree THEN tree[q] ELSE Node(Apply(tree[p].state, a))
           grown == [r \in DOMAIN tree \cup {q} |-> IF r = q THEN found ELSE tree[r]]
       IN /\ tree[p].expanded /\ ~found.expanded
          /\ IF Over(found.state)
               THEN /\ tree' = Backup(grown, q, Utility(found.state))
                    /\ session' = [session EXCEPT !.left = @ - 1]
               ELSE /\ tree' = grown
                    /\ session' = [session EXCEPT !.waiting = TRUE, !.leaf = q]
  /\ UNCHANGED <<game, table>>

\* resume: _expand, and _backup unless it was the root.
Resume ==
  /\ session.waiting
  /\ \E u \in {-1, 1} :
       LET leaf == session.leaf
           grown == [tree EXCEPT ![leaf].expanded = TRUE, ![leaf].utility = u]
       IN /\ tree' = Backup(grown, leaf, u)
          /\ session' = [session EXCEPT !.waiting = FALSE, !.leaf = <<>>,
                                        !.left = IF leaf = <<>> THEN @ ELSE @ - 1]
  /\ UNCHANGED <<game, table>>

\* The evaluation does not come, or is refused: the game is over.
SearchError ==
  /\ session.waiting /\ session' = Idle
  /\ table' = [table EXCEPT !.end = "error"] /\ UNCHANGED <<game, tree>>

-----------------------------------------------------------------------------
(* The game.                                                               *)

Moves(a) ==
  /\ game' = Apply(game, a) /\ tree' = Advance(tree, a, game') /\ session' = Idle
  /\ table' = [table EXCEPT !.ply = @ + 1, !.end = IF Over(game') THEN "formal" ELSE @]

\* _finalize, and the move: the most visited, or (self-play, at temperature 1)
\* any that was visited.
Move ==
  /\ session.on /\ ~session.waiting /\ session.left = 0
  /\ \E a \in Legal(game) :
       /\ VisitsOf(tree, <<a>>) > 0
       /\ table.mine # Colors =>
            \A b \in Legal(game) : VisitsOf(tree, <<b>>) <= VisitsOf(tree, <<a>>)
       /\ Moves(a)

\* process_step after a search of the other side: both trees observe the move.
OpponentMoves ==
  /\ Playing /\ ~session.on /\ game.side \notin table.mine
  /\ \E a \in Legal(game) : Moves(a)

Truncate ==
  /\ table.end = "none" /\ ~session.on /\ table.ply = Watchdog
  /\ table' = [table EXCEPT !.end = "truncated"] /\ UNCHANGED <<game, tree, session>>

SearchNext ==
  \/ Begin \/ Traverse \/ Resume \/ SearchError \/ Move \/ OpponentMoves \/ Truncate

SearchSpec == SearchInit /\ [][SearchNext]_searchVars /\ WF_searchVars(SearchNext)

-----------------------------------------------------------------------------
(* Properties.                                                             *)

\* A tree is of the game: its root is where the game is, and each node is
\* where its actions lead; so what was kept over moves is still true.
TreeFollowsGame ==
  /\ tree # NoTree => tree[<<>>].state = game
  /\ \A p \in DOMAIN tree \ {<<>>} :
       /\ Front(p) \in DOMAIN tree /\ tree[Front(p)].expanded
       /\ Last(p) \in Legal(tree[Front(p)].state)
       /\ tree[p].state = Apply(tree[Front(p)].state, Last(p))

\* The visits and values of a node account for those below it: each visit
\* after the first one went on to a child, and the value is what the node was
\* worth and its children's, seen from the other side.
NumbersAddUp ==
  \A p \in DOMAIN tree \ {<<>>} :
    LET n == tree[p] IN
    CASE n.expanded -> /\ n.visits = 1 + VisitsBelow(tree, p)
                       /\ n.value = -(n.utility + ValueBelow(tree, p))
      [] Over(n.state) -> n.visits > 0 /\ n.value = -n.visits * Utility(n.state)
      [] OTHER -> n.visits = 0 /\ n.value = 0 /\ (session.waiting => session.leaf = p)

\* A search adds its simulations to what the root had, no less and no more.
SearchesAddUp ==
  session.on => VisitsBelow(tree, <<>>) = session.base + Sims - session.left

SearchIsSound == TreeFollowsGame /\ NumbersAddUp /\ SearchesAddUp

\* Every game ends, by its rules or without.
GameIsEnded == <>(table.end # "none")
=============================================================================
