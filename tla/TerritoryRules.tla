----------------------------- MODULE TerritoryRules ---------------------------
(***************************************************************************)
(* The second rules of the repository: territory scoring after KataGo's    *)
(* Japanese rules (alphazero/envs/gocube/katago_v3.py), on a graph of      *)
(* points.  A game has a main phase, with simple ko, and two clean-ups, in *)
(* which a stone that took a ko may not be retaken until it is unblocked;  *)
(* two passes in a row, or a pass in a position where that player has      *)
(* passed before, end a phase.  A position met three times since the last  *)
(* pass ends the game without a result.                                    *)
(*                                                                         *)
(* Left out: the counters that nothing reads (moves of the first two       *)
(* phases, captures of the clean-ups, unblocks, the history of the phase). *)
(* The komi is kept in half points, and so are scores.                     *)
(***************************************************************************)
EXTENDS Integers, Sequences, FiniteSets, FiniteSetsExt

CONSTANTS
  Points,
  Neighbors,
  PASS,
  KomiHalves,
  Setups,    \* what games start from, besides the initial state
  MaxTurns,  \* bounds of a run: a game is followed that far,
  MaxRests   \* and through so many passes

TerritoryAssumption ==
  /\ IsFiniteSet(Points) /\ PASS \notin Points /\ KomiHalves \in Int /\ {MaxTurns, MaxRests} \subseteq Nat
  /\ Neighbors \in [Points -> SUBSET Points]
  /\ \A p \in Points : p \notin Neighbors[p]
  /\ \A p, q \in Points : q \in Neighbors[p] => p \in Neighbors[q]

VARIABLE pos   \* the V3State of the game

EMPTY == 0
BLACK == 1
WHITE == 2
Boards == [Points -> {EMPTY, BLACK, WHITE}]
NoBoard == <<>>
Stone(player) == player + 1
Other(c) == 3 - c

Playing == {"main", "cleanup1", "cleanup2"}
Cleanup == {"cleanup1", "cleanup2"}

\* _state_key
Key(s) == <<s.player, s.board, s.blocked>>

TerritoryTypeOK ==
  /\ pos.board \in Boards /\ pos.player \in 0..1 /\ pos.phase \in Playing \cup {"scored", "no_result"}
  /\ pos.passes \in 0..2 /\ pos.blocked \subseteq Points
  /\ \A c \in 1..2 : pos.caps[c] \in Nat /\ pos.moves2[c] \in Nat
  /\ pos.bonus \in Int /\ pos.start \in Boards \cup {NoBoard} /\ pos.prev \in Boards \cup {NoBoard}
  /\ \A k \in DOMAIN pos.since : pos.since[k] \in 1..3
  /\ pos.why \in {"none", "formal_pass", "pass_alive", "cycle"}

-----------------------------------------------------------------------------
(* Groups and regions.                                                     *)

Of(board, c) == {p \in Points : board[p] = c}

\* What a search through S finds from p.
Component(S, p) ==
  LET grown[n \in 0..Cardinality(S)] ==
        IF n = 0 THEN {p}
        ELSE LET before == grown[n - 1] IN before \cup {q \in S : Neighbors[q] \cap before # {}}
  IN grown[Cardinality(S)]

Components(S) == {Component(S, p) : p \in S}
Border(S) == UNION {Neighbors[p] : p \in S}
Group(board, p) == Component(Of(board, board[p]), p)
Liberties(board, p) == Border(Group(board, p)) \cap Of(board, EMPTY)
Size(board, c) == Cardinality(Of(board, c))

-----------------------------------------------------------------------------
(* States to start from.                                                   *)

\* _boardhistory_clear_white_bonus
ClearBonus(board, caps) == Size(board, BLACK) - Size(board, WHITE) - caps[1] + caps[2]

\* v3_state_from_board: of a setup [board, player, phase, caps, blocked].
StateFromBoard(u) ==
  [board |-> u.board, player |-> u.player, phase |-> u.phase, caps |-> u.caps,
   bonus |-> ClearBonus(u.board, u.caps), prev |-> NoBoard, blocked |-> u.blocked,
   since |-> [k \in {<<u.player, u.board, u.blocked>>} |-> 1], passes |-> 0,
   passed |-> [p \in 0..1 |-> {}], kos |-> {},
   start |-> IF u.phase = "cleanup2" THEN u.board ELSE NoBoard,
   moves2 |-> <<0, 0>>, turns |-> 0, rests |-> 0, why |-> "none"]

\* initial_v3_state
InitialState ==
  StateFromBoard([board |-> [p \in Points |-> EMPTY], player |-> 0, phase |-> "main",
                  caps |-> <<0, 0>>, blocked |-> {}])

TerritoryInit == pos \in {InitialState} \cup {StateFromBoard(u) : u \in Setups}

-----------------------------------------------------------------------------
(* Moves.                                                                  *)

With(board, player, a) == [board EXCEPT ![a] = Stone(player)]

\* _pseudolegal_candidate: what is captured by a stone at a, the board after
\* it, and that the stone is no suicide.
Taken(board, player, a) ==
  LET b == With(board, player, a)
  IN UNION {Group(b, n) : n \in {x \in Neighbors[a] : /\ b[x] = Other(Stone(player))
                                                     /\ Liberties(b, x) = {}}}
Candidate(board, player, a) ==
  [p \in Points |-> IF p \in Taken(board, player, a) THEN EMPTY
                    ELSE With(board, player, a)[p]]
Pseudolegal(board, player, a) ==
  board[a] = EMPTY /\ Liberties(Candidate(board, player, a), a) # {}

\* _is_ko_move: one stone was taken, and taking back restores the board.
IsKoMove(s, a) ==
  \E x \in Taken(s.board, s.player, a), new \in {Candidate(s.board, s.player, a)} :
    /\ Taken(s.board, s.player, a) = {x}
    /\ Pseudolegal(new, 1 - s.player, x) /\ Candidate(new, 1 - s.player, x) = s.board

\* is_simple_ko_state
IsSimpleKo(s) ==
  /\ s.phase \in Playing /\ s.prev # NoBoard
  /\ \E x, r \in Points :
       /\ {p \in Points : s.prev[p] # s.board[p]} = {x, r}
       /\ s.prev[x] = EMPTY /\ s.board[x] = Other(Stone(s.player))
       /\ s.prev[r] = Stone(s.player) /\ s.board[r] = EMPTY
       /\ Pseudolegal(s.board, s.player, r)
       /\ Cardinality(Taken(s.board, s.player, r)) = 1
       /\ Candidate(s.board, s.player, r) = s.prev

\* _pass_for_ko_unblock_target: the blocked stone that this action unblocks,
\* either the stone itself or the only stone that it would take.
UnblockTarget(s, a) ==
  LET opponent == Other(Stone(s.player))
      lone(x) == Group(s.board, x) = {x} /\ Cardinality(Liberties(s.board, x)) = 1
      atari == {n \in Neighbors[a] : Liberties(s.board, n) = {a}}
  IN IF s.phase \notin Cleanup THEN {}
     ELSE IF a \in s.blocked /\ s.board[a] = opponent /\ lone(a) THEN {a}
     ELSE IF s.board[a] # EMPTY \/ (\E n \in Neighbors[a] : s.board[n] # opponent) THEN {}
     ELSE {x \in s.blocked : atari = {x} /\ Group(s.board, x) = {x}}

\* _legal_placement, with _ko_repeat_forbidden.
LegalPlacement(s, a) ==
  /\ Pseudolegal(s.board, s.player, a)
  /\ IF s.phase = "main" THEN Candidate(s.board, s.player, a) # s.prev
     ELSE IsKoMove(s, a) => /\ Taken(s.board, s.player, a) \cap s.blocked = {}
                            /\ <<s.player, a, s.board>> \notin s.kos

Over(s) == s.phase \notin Playing

\* v3_valid_moves
Legal(s) ==
  IF Over(s) THEN {}
  ELSE {a \in Points : UnblockTarget(s, a) # {} \/ LegalPlacement(s, a)} \cup {PASS}

-----------------------------------------------------------------------------
(* Transitions.                                                            *)

\* _phase_reset
PhaseReset(s, phase) ==
  [s EXCEPT !.phase = phase, !.passes = 0, !.blocked = {}, !.passed = [p \in 0..1 |-> {}],
            !.since = [k \in {<<s.player, s.board, {}>>} |-> 1], !.kos = {},
            !.start = IF phase = "cleanup2" THEN s.board ELSE @]

\* _finish_phase_after_pass
FinishPhase(s) ==
  CASE s.phase = "main" -> PhaseReset(s, "cleanup1")
    [] s.phase = "cleanup1" -> PhaseReset(s, "cleanup2")
    [] s.phase = "cleanup2" -> [s EXCEPT !.phase = "scored", !.why = "formal_pass"]

\* _cycle_check_and_record
Recorded(s, afterPass) ==
  LET k == Key(s)
      seen == IF k \in DOMAIN s.since THEN s.since[k] ELSE 0
  IN IF afterPass THEN [s EXCEPT !.since = [x \in {k} |-> 1]]
     ELSE IF seen >= 2 THEN [s EXCEPT !.phase = "no_result", !.why = "cycle"]
     ELSE [s EXCEPT !.since = [x \in DOMAIN @ \cup {k} |-> IF x = k THEN seen + 1 ELSE @[x]]]

\* _pass, and whether it ends the phase.
Passed(s) ==
  [s EXCEPT !.player = 1 - @, !.turns = @ + 1, !.passes = @ + 1, !.prev = s.board,
            !.rests = @ + 1, !.passed[s.player] = @ \cup {Key(s)}]
EndsPhase(s) == s.passes >= 1 \/ Key(s) \in s.passed[s.player]

\* _unblock
Unblocked(s, a) ==
  [s EXCEPT !.player = 1 - @, !.turns = @ + 1, !.passes = 0, !.prev = s.board,
            !.blocked = @ \ UnblockTarget(s, a)]

\* _placement
Placed(s, a) ==
  LET new == Candidate(s.board, s.player, a)
      ko == s.phase \in Cleanup /\ IsKoMove(s, a)
      blocked == IF ko THEN s.blocked \cup {a} ELSE s.blocked
  IN [s EXCEPT
        !.board = new, !.player = 1 - @, !.turns = @ + 1, !.passes = 0, !.prev = s.board,
        !.caps[Stone(s.player)] = @ + Cardinality(Taken(s.board, s.player, a)),
        !.blocked = IF s.phase = "main" THEN {} ELSE {p \in blocked : new[p] # EMPTY},
        !.kos = IF ko THEN @ \cup {<<s.player, a, s.board>>} ELSE @,
        !.moves2[Stone(s.player)] = IF s.phase = "cleanup2" THEN @ + 1 ELSE @,
        !.bonus = CASE s.phase = "cleanup2" -> @
                    [] s.player = 0 -> @ + 1
                    [] OTHER -> @ - 1]

\* apply_v3_action: a turn, and what it then meets.
Turn(s, a) ==
  IF a = PASS THEN Passed(s)
  ELSE IF UnblockTarget(s, a) # {} THEN Unblocked(s, a) ELSE Placed(s, a)

Applied(s, a) ==
  {IF a = PASS /\ EndsPhase(s) THEN FinishPhase(next) ELSE Recorded(next, a = PASS) :
     next \in {Turn(s, a)}}

-----------------------------------------------------------------------------
(* Life.                                                                   *)

Groups(board, c) == Components(Of(board, c))
Foreign(board, c) == Components({p \in Points : board[p] # c})

\* Those of some groups that are beside a region, and beside each of its empty points.
Beside(gs, R) == LET around == Border(R) IN {g \in gs : g \cap around # {}}
Vital(board, gs, R) ==
  {g \in Beside(gs, R) : \A p \in R : board[p] = EMPTY => g \cap Neighbors[p] # {}}

\* _benson_pass_alive_groups: groups with fewer than two vital regions are struck
\* off, then regions beside a group that was, until nothing changes.
PassAliveGroups(board, c) ==
  LET gs == Groups(board, c)
      regions == {[beside |-> Beside(gs, R), vital |-> Vital(board, gs, R), at |-> R] :
                    R \in {X \in Foreign(board, c) : Beside(gs, X) # {}}}
      keep(G, rs) == {g \in G : Cardinality({r \in rs : g \in r.vital}) >= 2}
      round[n \in 0..Cardinality(gs)] ==
        IF n = 0 THEN [g |-> gs, r |-> regions]
        ELSE LET last == round[n - 1]
                 G == keep(last.g, last.r)
             IN [g |-> G, r |-> {r \in last.r : r.beside \subseteq G}]
  IN round[Cardinality(gs)].g

\* _pass_alive_territory_for_color
PassAliveTerritory(board, c) ==
  LET alive == UNION PassAliveGroups(board, c)
      own(R) == Border(R) \cap Of(board, c)
  IN UNION {R \in Foreign(board, c) :
              /\ own(R) # {} /\ own(R) \subseteq alive
              /\ Cardinality({p \in R : Neighbors[p] \cap alive # {}}) >= Cardinality(R) - 1}

\* pass_alive_analysis: the points it covers for a colour.
PassAlive(board, c) == UNION PassAliveGroups(board, c) \cup PassAliveTerritory(board, c)

\* independent_life_analysis: whose each point is before seki is looked for.
BasicArea(board) ==
  LET white == PassAlive(board, WHITE)
      black == PassAlive(board, BLACK)
      walled(c) == UNION {R \in Foreign(board, c) : /\ R \cap Of(board, Other(c)) = {}
                                                    /\ Border(R) \cap Of(board, c) # {}}
      byBlack == walled(BLACK)
      byWhite == walled(WHITE)
  IN [p \in Points |->
        IF p \in white THEN WHITE ELSE IF p \in black THEN BLACK
        ELSE IF p \in byBlack THEN BLACK ELSE IF p \in byWhite THEN WHITE ELSE board[p]]

\* A component of a colour is in seki when one of its stones is in atari, or an
\* empty point that is nobody's is beside it.
InSeki(board, area, c, C) ==
  \E p \in C : \/ board[p] = c /\ Cardinality(Liberties(board, p)) = 1
               \/ \E n \in Neighbors[p] : board[n] = EMPTY /\ area[n] = EMPTY

Life(board, c) ==
  UNION {UNION {C \in Components(Of(area, c)) : ~InSeki(board, area, c, C)} :
           area \in {BasicArea(board)}}

-----------------------------------------------------------------------------
(* Scores and labels.                                                      *)

\* final_v3_score: stones outside both areas count, in the second clean-up
\* only those that were there at its start.
Stays(s, c, p) == s.board[p] = c /\ (s.start = NoBoard \/ s.start[p] = c)
Area(s, c) ==
  LET own == Life(s.board, c)
      lives == own \cup Life(s.board, Other(c))
  IN Cardinality(own) + Cardinality({p \in Points \ lives : Stays(s, c, p)})
Margin(s) == 2 * (Area(s, BLACK) - Area(s, WHITE) - s.bonus) - KomiHalves

\* The points labelled as a colour's.
Owned(s, c) ==
  LET theirs == Life(s.board, Other(c))
  IN Life(s.board, c) \cup {p \in Points \ theirs : Stays(s, c, p)}

\* build_v3_training_targets, of the end of a game for one side: shares of win,
\* loss and no result, in halves, and whether score and ownership count.
Targets(s, margin, side) ==
  LET ahead == IF side = 0 THEN margin ELSE -margin
  IN IF s.phase = "no_result" THEN [value |-> <<0, 0, 2>>, masked |-> TRUE]
     ELSE [value |-> CASE ahead = 0 -> <<1, 1, 0>>
                       [] ahead > 0 -> <<2, 0, 0>>
                       [] OTHER -> <<0, 2, 0>>, masked |-> FALSE]

-----------------------------------------------------------------------------
(* A game.                                                                 *)

Play(a) ==
  /\ pos.turns < MaxTurns /\ (a = PASS => pos.rests < MaxRests)
  /\ a \in Legal(pos) /\ pos' \in Applied(pos, a)

\* maybe_pass_alive_early_terminal, where every point is decided.
EndEarly ==
  /\ pos.phase = "main"
  /\ PassAlive(pos.board, BLACK) \cup PassAlive(pos.board, WHITE) = Points
  /\ pos' = [pos EXCEPT !.phase = "scored", !.why = "pass_alive", !.start = pos.board]

TerritoryNext == EndEarly \/ \E a \in Points \cup {PASS} : Play(a)

TerritorySpec == TerritoryInit /\ [][TerritoryNext]_pos

-----------------------------------------------------------------------------
(* Properties.                                                             *)

\* No group is ever out of liberties, and a block is on a stone.
BoardIsLegal ==
  /\ \A p \in Points : pos.board[p] # EMPTY => Liberties(pos.board, p) # {}
  /\ \A p \in pos.blocked : pos.board[p] # EMPTY

\* The white bonus, kept by increments, is what a state set up from this very
\* board and these captures would begin with, until the second clean-up, whose
\* stones are not paid for: a game and its replay from a board score the same.
BonusIsOfBoard ==
  pos.bonus = ClearBonus(pos.board, pos.caps) - pos.moves2[1] + pos.moves2[2]

\* What the search is told is a simple ko is what the main phase forbids.
KoIsTold ==
  pos.phase = "main" =>
    (IsSimpleKo(pos) <=> \E a \in Points : /\ Pseudolegal(pos.board, pos.player, a)
                                           /\ Candidate(pos.board, pos.player, a) = pos.prev)

\* Groups that are pass-alive stay so whatever the opponent alone does, and the
\* search finds all there are: every set of groups that keeps itself alive.
PassAliveLives ==
  \A c \in {BLACK, WHITE} :
    LET gs == Groups(pos.board, c)
        groups == PassAliveGroups(pos.board, c)
        mover == Other(c) - 1
        selfish(X) == \A g \in X : Cardinality({R \in Foreign(pos.board, c) :
                         g \in Vital(pos.board, gs, R) /\ Beside(gs, R) \subseteq X}) >= 2
    IN /\ groups = UNION {X \in SUBSET gs : selfish(X)}
       /\ \A a \in Points : groups # {} /\ Pseudolegal(pos.board, mover, a) =>
            groups \subseteq PassAliveGroups(Candidate(pos.board, mover, a), c)

\* What is counted is what is labelled; no point is both colours'; the count
\* does not favour a colour, though white is written over black.
CountIsFair ==
  LET swapped == [p \in Points |-> IF pos.board[p] = EMPTY THEN EMPTY ELSE Other(pos.board[p])]
  IN /\ \A c \in {BLACK, WHITE} : /\ Area(pos, c) = Cardinality(Owned(pos, c))
                                  /\ Life(swapped, c) = Life(pos.board, Other(c))
     /\ Owned(pos, BLACK) \cap Owned(pos, WHITE) = {}

\* At the end the labels of the two sides mirror each other, and a game without
\* a result teaches no score.
LabelsMirror ==
  Over(pos) =>
    \E margin \in {Margin(pos)} :
      LET b == Targets(pos, margin, 0).value
          w == Targets(pos, margin, 1).value
      IN /\ b[1] = w[2] /\ b[2] = w[1] /\ b[3] = w[3] /\ b[1] + b[2] + b[3] = 2
         /\ Targets(pos, margin, 0).masked = (pos.why = "cycle")

TerritoryIsSound ==
  BoardIsLegal /\ BonusIsOfBoard /\ KoIsTold /\ PassAliveLives /\ CountIsFair /\ LabelsMirror

\* Cycles are cut and passes are remembered: no game is still played when the
\* bound on its length is met (of runs whose bounds cut no game short).
EndsInTime == pos.turns = MaxTurns => Over(pos)
=============================================================================
