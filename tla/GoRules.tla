--------------------------------- MODULE GoRules --------------------------------
(***************************************************************************)
(* The rules of the games (gocube_golden/rules.py, state.py, scoring.py):  *)
(* Go with area scoring on a graph of points, suicide forbidden, positional *)
(* superko, and two passes in a row to end a game.  The topologies (tori and *)
(* surfaces of cubes) differ in the graph only.                             *)
(*                                                                         *)
(* A state is immutable in the code; the index of the positions that were   *)
(* met (`membership`) is kept beside the history by every transition.       *)
(***************************************************************************)
EXTENDS Integers, Sequences, FiniteSets, FiniteSetsExt

CONSTANTS
  Points,
  Neighbors,  \* the neighbours of each point
  PASS,       \* the action that is no point
  KomiHalves  \* the komi of the rules, in half points

\* GoldenTopology checks its graph.
RulesAssumption ==
  /\ IsFiniteSet(Points) /\ PASS \notin Points /\ KomiHalves \in Int
  /\ Neighbors \in [Points -> SUBSET Points]
  /\ \A p \in Points : p \notin Neighbors[p]
  /\ \A p, q \in Points : q \in Neighbors[p] => p \in Neighbors[q]

VARIABLE game   \* the GoldenState of the game

Colors == {"BLACK", "WHITE"}
EMPTY == "EMPTY"
Boards == [Points -> Colors \cup {EMPTY}]
Opponent(c) == IF c = "BLACK" THEN "WHITE" ELSE "BLACK"

RulesTypeOK ==
  /\ game.stones \in Boards /\ game.side \in Colors /\ game.passes \in 0..2
  /\ game.history \in Seq(Boards) /\ game.membership \subseteq Boards

\* initial_state
InitialState ==
  LET empty == [p \in Points |-> EMPTY] IN
  [stones |-> empty, side |-> "BLACK", passes |-> 0,
   history |-> <<empty>>, membership |-> {empty}]

RulesInit == game = InitialState

-----------------------------------------------------------------------------
(* Groups.                                                                 *)

Closed(T, S) == \A x \in T : Neighbors[x] \cap S \subseteq T

\* What a search through S finds from p: the least closed set with p.
Component(S, p) == {q \in S : \A T \in SUBSET S : p \in T /\ Closed(T, S) => q \in T}

Of(stones, c) == {p \in Points : stones[p] = c}
Group(stones, p) == Component(Of(stones, stones[p]), p)
Liberties(stones, G) == {e \in Points : stones[e] = EMPTY /\ Neighbors[e] \cap G # {}}

-----------------------------------------------------------------------------
(* Moves.                                                                  *)

Placed(s, a) == [s.stones EXCEPT ![a] = s.side]

\* Groups of the opponent beside the new stone that are out of liberties.
Captured(s, a) ==
  LET board == Placed(s, a) IN
  UNION {Group(board, n) :
           n \in {x \in Neighbors[a] : /\ board[x] = Opponent(s.side)
                                       /\ Liberties(board, Group(board, x)) = {}}}

\* _probe_point: the captured stones are taken away.
Probe(s, a) == [p \in Points |-> IF p \in Captured(s, a) THEN EMPTY ELSE Placed(s, a)[p]]

\* Mutant: suicide is not looked for.
LegalPointSuicide(s, a) == s.stones[a] = EMPTY /\ Probe(s, a) \notin s.membership

\* The point is empty, the move is no suicide, and the position is new.
LegalPoint(s, a) ==
  /\ s.stones[a] = EMPTY
  /\ Liberties(Probe(s, a), Group(Probe(s, a), a)) # {}
  /\ Probe(s, a) \notin s.membership

Over(s) == s.passes = 2

\* prepare_legal_actions
Legal(s) == IF Over(s) THEN {} ELSE {a \in Points : LegalPoint(s, a)} \cup {PASS}

\* apply_action, with the trusted construction of the child.
Apply(s, a) ==
  IF a = PASS
    THEN [s EXCEPT !.side = Opponent(@), !.passes = @ + 1]
    ELSE [stones |-> Probe(s, a), side |-> Opponent(s.side), passes |-> 0,
          history |-> Append(s.history, Probe(s, a)),
          membership |-> s.membership \cup {Probe(s, a)}]

Play(a) == a \in Legal(game) /\ game' = Apply(game, a)

RulesNext == \E a \in Points \cup {PASS} : Play(a)

RulesSpec == RulesInit /\ [][RulesNext]_game /\ WF_game(RulesNext)

-----------------------------------------------------------------------------
(* Scoring.                                                                *)

\* _empty_component: the colours on the boundary of a component.
Boundary(stones, C) == {stones[p] : p \in UNION {Neighbors[q] : q \in C}} \ {EMPTY}

\* score_terminal: one pass over the points counts each empty component once.
Count(stones) ==
  LET Visit(p, acc) ==
        LET C == Group(stones, p)
            c == Boundary(stones, C)
        IN IF stones[p] # EMPTY \/ p \in acc.seen THEN acc
           ELSE [seen |-> acc.seen \cup C,
                 black |-> acc.black + IF c = {"BLACK"} THEN Cardinality(C) ELSE 0,
                 white |-> acc.white + IF c = {"WHITE"} THEN Cardinality(C) ELSE 0]
  IN FoldSet(Visit, [seen |-> {}, black |-> Cardinality(Of(stones, "BLACK")),
                     white |-> Cardinality(Of(stones, "WHITE"))], Points)

\* terminal_utility, to the side that is to move.
Utility(s) ==
  LET margin == 2 * (Count(s.stones).black - Count(s.stones).white) - KomiHalves
      signed == IF s.side = "BLACK" THEN margin ELSE -margin
  IN IF signed > 0 THEN 1 ELSE IF signed < 0 THEN -1 ELSE 0

-----------------------------------------------------------------------------
(* Properties.                                                             *)

\* The rules look at the neighbours of a new stone only; that is enough: no
\* group on the board is ever out of liberties.
EveryGroupBreathes ==
  \A p \in Points :
    game.stones[p] # EMPTY => Liberties(game.stones, Group(game.stones, p)) # {}

\* The index of positions agrees with the history, which ends at the board and
\* has no position twice (what GoldenState checks of a state it did not make).
HistoryIsLive ==
  /\ game.history[Len(game.history)] = game.stones
  /\ game.membership = {game.history[i] : i \in DOMAIN game.history}
  /\ Cardinality(game.membership) = Len(game.history)

\* A point is counted for a colour if it has a stone of it, or if no stone of
\* the other colour, and some of its own, is reached through empty points.
Reaches(p, c) == \E q \in Group(game.stones, p) : \E n \in Neighbors[q] : game.stones[n] = c
Owns(p, c) ==
  \/ game.stones[p] = c
  \/ game.stones[p] = EMPTY /\ Reaches(p, c) /\ ~Reaches(p, Opponent(c))
ScoreIsArea ==
  /\ Count(game.stones).black = Cardinality({p \in Points : Owns(p, "BLACK")})
  /\ Count(game.stones).white = Cardinality({p \in Points : Owns(p, "WHITE")})

RulesAreSound == EveryGroupBreathes /\ HistoryIsLive /\ ScoreIsArea

\* Superko leaves a game finitely many moves: it comes to two passes.
GameEnds == <>Over(game)
=============================================================================
