------------------------------ MODULE MCGame2048 ------------------------------
(***************************************************************************)
(* The game, with definitions the move and the search are held against:    *)
(* what a move of 2048 is, and plain minimax.                              *)
(***************************************************************************)
EXTENDS Game2048

\* What a move of the game is, said without TryMove: along each line, seen
\* from the edge the tiles move to, the gaps close and then pairs of equal
\* tiles merge, each tile at most once.
RECURSIVE MergePairs(_)
MergePairs(s) ==
  IF Len(s) < 2 THEN s
  ELSE IF s[1] = s[2] THEN <<s[1] + 1>> \o MergePairs(SubSeq(s, 3, Len(s)))
  ELSE <<s[1]>> \o MergePairs(Tail(s))

\* Cell k of line i, counted from the edge the tiles move to.
LineCell(i, k, dir) ==
  CASE dir = kUp -> k * Cols + i
    [] dir = kDown -> (Rows - 1 - k) * Cols + i
    [] dir = kLeft -> i * Cols + k
    [] dir = kRight -> i * Cols + (Cols - 1 - k)

Slide(tiles, dir) ==
  LET count == IF dir \in {kUp, kDown} THEN Cols ELSE Rows
      length == Size \div count
      Line(i) == MergePairs(SelectSeq([k \in 1..length |-> tiles[LineCell(i, k - 1, dir)]],
                                      LAMBDA v : v > 0))
      Place(p) == CHOOSE ik \in (0..(count - 1)) \X (1..length) : LineCell(ik[1], ik[2] - 1, dir) = p
  IN [p \in Cells |-> LET ik == Place(p) IN
                      IF ik[2] <= Len(Line(ik[1])) THEN Line(ik[1])[ik[2]] ELSE 0]

\* The value of a position without pruning, -INF for a player who cannot move.
RECURSIVE MiniMax(_, _, _)
MiniMax(tiles, depth, isPlayer) ==
  IF depth <= 0 \/ IsWin(tiles) THEN EvalAll(tiles)
  ELSE IF isPlayer
  THEN LET moves == {m \in {TryMove(tiles, d) : d \in Dirs} : m.can_move} IN
       Max({-INF} \cup {MiniMax(m.tiles, depth - 1, FALSE) : m \in moves})
  ELSE Min({INF} \cup {MiniMax(b, depth, TRUE) : b \in Range(GetCandidateSet(tiles))})

\* What a search of some depth must return: the greatest value of a direction,
\* and the first one that has it, if it beats -INF.
BestByMiniMax(tiles, depth) ==
  LET legal == {d \in Dirs : TryMove(tiles, d).can_move}
      valued == {[dir |-> d, value |-> MiniMax(TryMove(tiles, d).tiles, depth - 1, FALSE)] :
                   d \in legal}
      score == Max({-INF} \cup {v.value : v \in valued})
  IN [score |-> score,
      move |-> IF score = -INF THEN -1 ELSE Min({v.dir : v \in {w \in valued : w.value = score}})]

-------------------------------------------------------------------------------
\* A board the server is about to be sent.
Sent == peer = "AI2048Client" /\ Len(toServer) = 5 /\ ~isOver

\* TryMove does what a move of the game does, in all four directions, and says
\* whether it did anything: neither the order in which it visits the cells nor
\* the merged flags make a difference to the lines of the board.
MoveIsSlide ==
  Sent => \A dir \in Dirs :
            LET moved == TryMove(dummy_, dir) IN
            /\ moved.tiles = Slide(dummy_, dir)
            /\ moved.can_move <=> moved.tiles # dummy_

\* Alpha-beta finds the value plain minimax finds, and the first of the best
\* directions: a pruned branch, which returns a bound and not a value, never
\* becomes the best move.
SearchIsMiniMax ==
  Sent => \A depth \in 1..MaxSearches :
            MiniMaxSearch(dummy_, depth, TRUE, -INF, INF) = BestByMiniMax(dummy_, depth)
===============================================================================
