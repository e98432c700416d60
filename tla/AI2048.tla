-------------------------------- MODULE AI2048 --------------------------------
(***************************************************************************)
(* ai_set::AI2048 (src/ai/2048/ai_2048.cc): the board, the move, the       *)
(* evaluation and the search, on a board of Rows x Cols cells (4 x 4 in    *)
(* the code) that is won with a tile of 2^WinTile (WinTile = 11). A board  *)
(* maps its cells, row by row from 0, to the logarithm of their tile, 0    *)
(* where there is none.                                                    *)
(***************************************************************************)
EXTENDS Integers, Sequences, SequencesExt, FiniteSetsExt

CONSTANTS Rows, Cols, WinTile

ASSUME BoardAssumption ==
  /\ Rows \in Nat \ {0} /\ Cols \in Nat \ {0} /\ Rows * Cols > 1
  /\ WinTile \in Nat \ {0, 1, 2}

Size == Rows * Cols
Cells == 0..(Size - 1)
Dirs == 0..3
kUp == 0
kRight == 1
kDown == 2
kLeft == 3

EmptyBoard == [p \in Cells |-> 0]

\* The scores are doubles with one decimal; here they are counted in tenths.
INF == 10000

IsValid(pos) == pos \in Cells

\* The table dir_pos: the neighbour of a cell, -1 beyond the edge.
dir_pos(pos, dir) ==
  CASE dir = kUp -> IF pos \div Cols > 0 THEN pos - Cols ELSE -1
    [] dir = kRight -> IF pos % Cols < Cols - 1 THEN pos + 1 ELSE -1
    [] dir = kDown -> IF pos \div Cols < Rows - 1 THEN pos + Cols ELSE -1
    [] dir = kLeft -> IF pos % Cols > 0 THEN pos - 1 ELSE -1

\* One turn of GetTargetPos's loop: on to the next cell if it is empty.
Onward(tiles, p, dir) ==
  LET next == dir_pos(p, dir) IN IF IsValid(next) /\ tiles[next] = 0 THEN next ELSE p

\* The last empty cell a tile at pos slides to, and what lies behind it. No
\* line has as many as Rows + Cols cells.
GetTargetPos(tiles, pos, dir) ==
  LET walk[n \in 0..(Rows + Cols)] == IF n = 0 THEN pos ELSE Onward(tiles, walk[n - 1], dir)
      last == walk[Rows + Cols]
  IN <<last, dir_pos(last, dir)>>

GetAllEmptyPos(tiles) == {p \in Cells : tiles[p] = 0}
IsWin(tiles) == \E p \in Cells : tiles[p] = WinTile
GetMaxValue(tiles) == Max({tiles[p] : p \in Cells})

\* AddRandTile: a 2 or a 4 on some empty cell, nothing on a full board.
AddRandTile(tiles) ==
  IF GetAllEmptyPos(tiles) = {} THEN {tiles}
  ELSE {[tiles EXCEPT ![p] = v] : p \in GetAllEmptyPos(tiles), v \in {1, 2}}

\* GetAllTiles and AddComputerMove: the grid holds the tiles themselves. Only
\* cells that are empty here are taken over.
GetAllTiles(tiles) == [p \in Cells |-> IF tiles[p] > 0 THEN 2 ^ tiles[p] ELSE 0]
lg2(n) == IF n = 0 THEN 0 ELSE CHOOSE k \in 0..n : 2 ^ k <= n /\ n < 2 ^ (k + 1)
\* A faulty AddComputerMove: a new 2 is not taken over.
AddComputerMoveNo2(tiles, grid) ==
  [p \in Cells |-> IF tiles[p] = 0 /\ grid[p] > 2 THEN lg2(grid[p]) ELSE tiles[p]]
AddComputerMove(tiles, grid) ==
  [p \in Cells |-> IF tiles[p] = 0 /\ grid[p] > 0 THEN lg2(grid[p]) ELSE tiles[p]]

-------------------------------------------------------------------------------
\* The cell TryMove visits as the k-th: it begins at the edge it moves to.
Visit(k, dir) ==
  LET pos_list(reverse, n, i) == IF reverse THEN n - 1 - i ELSE i IN
  pos_list(dir = kDown, Rows, (k - 1) \div Cols) * Cols + pos_list(dir = kRight, Cols, (k - 1) % Cols)

\* A faulty MoveTile: a tile that has just been merged into may merge again.
MoveTileTwice(m, pos, dir) ==
  LET target == GetTargetPos(m.tiles, pos, dir) IN
  IF m.tiles[pos] = 0 THEN m
  ELSE IF IsValid(target[2]) /\ m.tiles[target[2]] = m.tiles[pos]
  THEN [tiles |-> [m.tiles EXCEPT ![target[2]] = @ + 1, ![pos] = 0],
        merged |-> m.merged, can_move |-> TRUE]
  ELSE IF pos # target[1]
  THEN [m EXCEPT !.tiles = [@ EXCEPT ![target[1]] = m.tiles[pos], ![pos] = 0],
                 !.can_move = TRUE]
  ELSE m

\* One tile moves: it merges into an equal tile that no other has merged into
\* during this move, or slides as far as it can.
MoveTile(m, pos, dir) ==
  LET target == GetTargetPos(m.tiles, pos, dir) IN
  IF m.tiles[pos] = 0 THEN m
  ELSE IF /\ IsValid(target[2]) /\ m.tiles[target[2]] = m.tiles[pos]
          /\ target[2] \notin m.merged
  THEN [tiles |-> [m.tiles EXCEPT ![target[2]] = @ + 1, ![pos] = 0],
        merged |-> m.merged \cup {target[2]}, can_move |-> TRUE]
  ELSE IF pos # target[1]
  THEN [m EXCEPT !.tiles = [@ EXCEPT ![target[1]] = m.tiles[pos], ![pos] = 0],
                 !.can_move = TRUE]
  ELSE m

TryMove(tiles, dir) ==
  LET start == [tiles |-> tiles, merged |-> {}, can_move |-> FALSE]
      moved[k \in 0..Size] == IF k = 0 THEN start ELSE MoveTile(moved[k - 1], Visit(k, dir), dir)
  IN moved[Size]

CanMove(tiles) == \E dir \in Dirs : TryMove(tiles, dir).can_move

-------------------------------------------------------------------------------
\* EvalSmoothnessValue: differences to the next tile to the right and below.
EvalSmoothnessValue(tiles) ==
  LET Roughness(e) ==
        LET target == GetTargetPos(tiles, e[1], e[2])[2] IN
        IF ~IsValid(target) THEN 0
        ELSE LET d == tiles[e[1]] - tiles[target] IN IF d < 0 THEN -d ELSE d
  IN -MapThenSumSet(Roughness, {p \in Cells : tiles[p] > 0} \X {kRight, kDown})

\* Mark and GetLandNum: the areas of equal neighbouring tiles.
Mark(tiles, pos, val, marked) ==
  LET mark[p \in Cells \cup {-1}, seen \in SUBSET Cells] ==
        LET Spread(s, dir) == mark[dir_pos(p, dir), s] IN
        IF ~IsValid(p) \/ tiles[p] # val \/ p \in seen THEN seen
        ELSE FoldLeft(Spread, seen \cup {p}, <<kUp, kRight, kDown, kLeft>>)
  IN mark[pos, marked]

GetLandNum(tiles) ==
  LET Count(s, p) == IF tiles[p] = 0 \/ p \in s.marked THEN s
                     ELSE [num |-> s.num + 1, marked |-> Mark(tiles, p, tiles[p], s.marked)]
  IN FoldLeft(Count, [num |-> 0, marked |-> {}], [k \in 1..Size |-> k - 1]).num

\* EvalMonotonicityValue: along a line, the first cell, the tiles after it and
\* the last cell are compared in turn, falls and rises summed apart.
LineTotals(line) ==
  LET stops == {1, Len(line)} \cup {i \in DOMAIN line : line[i] # 0}
      Following(i) == Min({j \in stops : j > i})
      Fall(i) == line[i] - line[Following(i)]
      pairs == stops \ {Len(line)}
  IN [falls |-> -MapThenSumSet(Fall, {i \in pairs : Fall(i) > 0}),
      rises |-> MapThenSumSet(Fall, {i \in pairs : Fall(i) <= 0})]

EvalMonotonicityValue(tiles) ==
  LET rows == [i \in 1..Rows |-> [k \in 1..Cols |-> tiles[(i - 1) * Cols + k - 1]]]
      columns == [i \in 1..Cols |-> [k \in 1..Rows |-> tiles[(k - 1) * Cols + i - 1]]]
      Add(total, line) == LET t == LineTotals(line) IN
                          [falls |-> total.falls + t.falls, rises |-> total.rises + t.rises]
      Best(lines) == LET t == FoldLeft(Add, [falls |-> 0, rises |-> 0], lines) IN
                     Max({t.falls, t.rises})
  IN Best(rows) + Best(columns)

\* EvalAll: weights 0.1, 1.0, 2.7 and 1.0.
EvalAll(tiles) ==
  EvalSmoothnessValue(tiles) + 10 * EvalMonotonicityValue(tiles)
  + 27 * lg2(Cardinality(GetAllEmptyPos(tiles))) + 10 * GetMaxValue(tiles)

\* No board is worth as little as -INF. On the code's board smoothness is above
\* -352 tenths (32 differences of at most 11) and monotonicity above -1760
\* (8 lines that fall by at most 22 each).
ASSUME EvalAssumption ==
  \A b \in [Cells -> 0..WinTile] : EvalAll(b) \in Int /\ EvalAll(b) > -INF

-------------------------------------------------------------------------------
\* GetCandidateSet: the new tiles that leave the roughest board, 2s first.
GetCandidateSet(tiles) ==
  LET all == [k \in 1..(2 * Size) |-> [pos |-> (k - 1) % Size,
                                       val |-> 1 + (k - 1) \div Size]]
      moves == SelectSeq(all, LAMBDA m : tiles[m.pos] = 0)
      Added(m) == [tiles EXCEPT ![m.pos] = m.val]
      scored == {[score |-> GetLandNum(Added(moves[k])) - EvalSmoothnessValue(Added(moves[k])),
                  index |-> k] : k \in DOMAIN moves}
      max_score == Max({s.score : s \in scored})
      best == {s.index : s \in {t \in scored : t.score = max_score}}
  IN [i \in 1..Cardinality(best) |->
        Added(moves[CHOOSE k \in best : Cardinality({j \in best : j < k}) = i - 1])]

\* A faulty PlayerTry: a bound that equals alpha counts as a better move.
PlayerTryTies(turn, dir, new, score, beta) ==
  IF ~new.can_move THEN turn
  ELSE [alpha |-> Max({turn.alpha, score}), cut |-> FALSE,
        move |-> IF score >= turn.alpha THEN dir ELSE turn.move]

\* One turn of the player's loop in MiniMaxSearch: the move to new in direction
\* dir has that score. move is best_move_, and cut ends the loop.
PlayerTry(turn, dir, new, score, beta) ==
  IF turn.cut \/ ~new.can_move THEN turn
  ELSE LET alpha == Max({turn.alpha, score}) IN
       [alpha |-> alpha, cut |-> beta <= alpha,
        move |-> IF score > turn.alpha THEN dir ELSE turn.move]

\* One turn of the computer's loop, over the candidates.
ComputerTry(turn, score, alpha) ==
  IF turn.cut THEN turn
  ELSE LET beta == Min({turn.beta, score}) IN [beta |-> beta, cut |-> beta <= alpha]

\* What the two loops return.
PlayerEnds(turn, beta) == [score |-> IF turn.cut THEN beta ELSE turn.alpha, move |-> turn.move]
ComputerEnds(turn, alpha) == [score |-> IF turn.cut THEN alpha ELSE turn.beta, move |-> -1]

\* MiniMaxSearch where it does not return at once: fail-hard alpha-beta, where
\* Below is the search of the boards below this one. The computer's turn keeps
\* the depth. move is best_move_, -1 if no direction beats alpha.
SearchFrom(Below(_, _, _, _, _), tiles, depth, isPlayer, alpha, beta) ==
  LET Play(turn, dir, new) ==
        PlayerTry(turn, dir, new, Below(new.tiles, depth - 1, FALSE, turn.alpha, beta), beta)
      start == [alpha |-> alpha, cut |-> FALSE, move |-> -1]
      turns[n \in 0..4] == IF n = 0 THEN start ELSE Play(turns[n - 1], n - 1, TryMove(tiles, n - 1))
      Answer(turn, board) == ComputerTry(turn, Below(board, depth, TRUE, alpha, turn.beta), alpha)
  IN IF isPlayer THEN PlayerEnds(turns[4], beta)
     ELSE ComputerEnds(FoldLeft(Answer, [beta |-> beta, cut |-> FALSE], GetCandidateSet(tiles)), alpha)

IsLeaf(tiles, depth) == depth <= 0 \/ IsWin(tiles)

Score[tiles \in [Cells -> Nat], depth \in Nat, isPlayer \in BOOLEAN, alpha \in Int, beta \in Int] ==
  LET Below(t, d, p, a, b) == IF IsLeaf(t, d) THEN EvalAll(t) ELSE Score[t, d, p, a, b] IN
  SearchFrom(Below, tiles, depth, isPlayer, alpha, beta).score

ScoreBelow(tiles, depth, isPlayer, alpha, beta) ==
  IF IsLeaf(tiles, depth) THEN EvalAll(tiles) ELSE Score[tiles, depth, isPlayer, alpha, beta]

\* A search that returns at once leaves best_move_ as it was: nobody reads it below the root,
\* and the root is neither of depth 0 nor a board that is won, which ends the game before.
MiniMaxSearch(tiles, depth, isPlayer, alpha, beta) ==
  IF IsLeaf(tiles, depth) THEN [score |-> EvalAll(tiles), move |-> -1]
  ELSE SearchFrom(ScoreBelow, tiles, depth, isPlayer, alpha, beta)

\* GetPlayerBestMove, of which the clock allows `searches` searches: deeper
\* and deeper until none is left or one finds no move. best_score is never
\* updated, so every search that finds a move replaces the one before.
Deepen(last, search) ==
  IF last.over \/ search.move = -1 THEN [last EXCEPT !.over = TRUE]
  ELSE [last EXCEPT !.best = IF search.score > -INF THEN search.move ELSE @]

GetPlayerBestMove(tiles, searches) ==
  LET found[depth \in 0..searches] ==
        IF depth = 0 THEN [best |-> 0, over |-> FALSE]
        ELSE Deepen(found[depth - 1], MiniMaxSearch(tiles, depth, TRUE, -INF, INF))
  IN found[searches].best
===============================================================================
