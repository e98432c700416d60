---------------------------- MODULE Game2048Proofs ----------------------------
(***************************************************************************)
(* The game of 2048: client and server never lose each other's board, and  *)
(* a peer that sends anything else is shut out, on boards of any size,     *)
(* for every cut of the stream and every number of searches.               *)
(***************************************************************************)
EXTENDS Game2048, InductionFacts, SequenceTheorems

Tiles == [Cells -> Nat]

\* A board has cells, and 0 is one of them.
LEMMA CellsFacts == Size \in Nat /\ Size > 1 /\ 0 \in Cells /\ Cells \subseteq Nat
<1>1. Size \in Nat
  BY BoardAssumption DEF Size
<1> QED BY <1>1, BoardAssumption DEF Size, Cells

\* The row and the column of a cell.
LEMMA RowAndColumn ==
    ASSUME NEW p \in Cells
    PROVE  /\ p \div Cols \in 0..(Rows - 1) /\ p % Cols \in 0..(Cols - 1)
           /\ p = Cols * (p \div Cols) + (p % Cols)
<1> DEFINE q == p \div Cols
           r == p % Cols
<1>1. p \in Nat /\ p < Rows * Cols
  BY CellsFacts DEF Cells, Size
<1>2. q \in Int /\ r \in 0..(Cols - 1) /\ p = Cols * q + r
  BY <1>1, BoardAssumption
<1> HIDE DEF q, r
<1>3. q >= 0
  <2> SUFFICES ASSUME q <= -1 PROVE FALSE
    BY <1>2
  <2>1. Cols * q <= Cols * (-1)
    BY <1>2, BoardAssumption
  <2> QED BY <1>1, <1>2, <2>1, BoardAssumption
<1>4. q <= Rows - 1
  <2> SUFFICES ASSUME q >= Rows PROVE FALSE
    BY <1>2, BoardAssumption
  <2>1. Cols * q >= Cols * Rows
    BY <1>2, BoardAssumption
  <2> QED BY <1>1, <1>2, <2>1, BoardAssumption
<1>5. q \in 0..(Rows - 1)
  BY <1>2, <1>3, <1>4, BoardAssumption
<1> QED BY <1>2, <1>5, Zenon DEF q, r

\* Every row and column has a cell.
LEMMA CellAt ==
    ASSUME NEW i \in 0..(Rows - 1), NEW j \in 0..(Cols - 1)
    PROVE  /\ Cols * i + j \in Cells
           /\ (Cols * i + j) \div Cols = i /\ (Cols * i + j) % Cols = j
<1> DEFINE p == Cols * i + j
<1>1. Cols * i <= Cols * (Rows - 1) /\ Cols * i >= 0 /\ Cols * i \in Int
  BY BoardAssumption
<1>2. p \in Cells
  <2>1. p \in Nat /\ p < Cols * (Rows - 1) + Cols
    BY <1>1, BoardAssumption
  <2>2. Cols * (Rows - 1) + Cols = Rows * Cols
    BY BoardAssumption
  <2> HIDE DEF p
  <2> QED BY <2>1, <2>2, CellsFacts DEF Cells, Size
<1> DEFINE q == p \div Cols
           r == p % Cols
<1>3. q \in 0..(Rows - 1) /\ r \in 0..(Cols - 1) /\ p = Cols * q + r
  <2> HIDE DEF p
  <2> QED BY <1>2, RowAndColumn, Zenon
<1> HIDE DEF q, r
<1>4. q = i /\ r = j
  <2>1. q \in Int /\ i \in Int /\ Cols * q + r = Cols * i + j /\ Cols \in Nat \ {0}
    BY <1>3, BoardAssumption
  <2> HIDE DEF p
  <2> QED BY <1>3, <2>1, DigitsUnique
<1>5. p \div Cols = i /\ p % Cols = j
  BY <1>4, Zenon DEF q, r
<1> QED BY <1>2, <1>5

\* A step leads to a cell or off the board.
LEMMA DirPosType ==
    ASSUME NEW p \in Cells, NEW dir \in Dirs
    PROVE  dir_pos(p, dir) \in Cells \cup {-1}
<1> DEFINE q == p \div Cols
           r == p % Cols
<1>1. q \in 0..(Rows - 1) /\ r \in 0..(Cols - 1) /\ p = Cols * q + r
  BY RowAndColumn, Zenon
<1> HIDE DEF q, r
<1>2. q > 0 => p - Cols \in Cells
  <2> HAVE q > 0
  <2>1. q - 1 \in 0..(Rows - 1)
    BY <1>1, BoardAssumption
  <2>2. Cols * (q - 1) + r \in Cells
    BY <1>1, <2>1, CellAt, Zenon
  <2>3. Cols * (q - 1) + r = p - Cols
    BY <1>1, BoardAssumption
  <2> QED BY <2>2, <2>3, Zenon
<1>3. q < Rows - 1 => p + Cols \in Cells
  <2> HAVE q < Rows - 1
  <2>1. q + 1 \in 0..(Rows - 1)
    BY <1>1, BoardAssumption
  <2>2. Cols * (q + 1) + r \in Cells
    BY <1>1, <2>1, CellAt, Zenon
  <2>3. Cols * (q + 1) + r = p + Cols
    BY <1>1, BoardAssumption
  <2> QED BY <2>2, <2>3, Zenon
<1>4. r > 0 => p - 1 \in Cells
  <2> HAVE r > 0
  <2>1. r - 1 \in 0..(Cols - 1)
    BY <1>1, BoardAssumption
  <2>2. Cols * q + (r - 1) \in Cells
    BY <1>1, <2>1, CellAt, Zenon
  <2>3. Cols * q + (r - 1) = p - 1
    BY <1>1, BoardAssumption
  <2> QED BY <2>2, <2>3, Zenon
<1>5. r < Cols - 1 => p + 1 \in Cells
  <2> HAVE r < Cols - 1
  <2>1. r + 1 \in 0..(Cols - 1)
    BY <1>1, BoardAssumption
  <2>2. Cols * q + (r + 1) \in Cells
    BY <1>1, <2>1, CellAt, Zenon
  <2>3. Cols * q + (r + 1) = p + 1
    BY <1>1, BoardAssumption
  <2> QED BY <2>2, <2>3, Zenon
<1>6. dir_pos(p, dir) \in {-1, p - Cols, p + Cols, p - 1, p + 1}
  BY DEF dir_pos, Dirs, kUp, kRight, kDown, kLeft
<1>7. /\ dir = kUp => dir_pos(p, dir) = IF q > 0 THEN p - Cols ELSE -1
      /\ dir = kRight => dir_pos(p, dir) = IF r < Cols - 1 THEN p + 1 ELSE -1
      /\ dir = kDown => dir_pos(p, dir) = IF q < Rows - 1 THEN p + Cols ELSE -1
      /\ dir = kLeft => dir_pos(p, dir) = IF r > 0 THEN p - 1 ELSE -1
  BY DEF dir_pos, kUp, kRight, kDown, kLeft, q, r
<1>8. dir = kUp \/ dir = kRight \/ dir = kDown \/ dir = kLeft
  BY DEF Dirs, kUp, kRight, kDown, kLeft
<1> QED BY <1>2, <1>3, <1>4, <1>5, <1>7, <1>8

\* How many cells TryMove visits before p: whole lines, and cells of its line.
Rank(p, dir) ==
  Cols * (IF dir = kDown THEN (Rows - 1) - (p \div Cols) ELSE p \div Cols)
  + (IF dir = kRight THEN (Cols - 1) - (p % Cols) ELSE p % Cols)

LEMMA RankType ==
    ASSUME NEW p \in Cells, NEW dir \in Dirs
    PROVE  Rank(p, dir) \in Int
<1> DEFINE q == p \div Cols
           r == p % Cols
           i == IF dir = kDown THEN (Rows - 1) - q ELSE q
           j == IF dir = kRight THEN (Cols - 1) - r ELSE r
<1>1. q \in Int /\ r \in Int
  BY RowAndColumn
<1>2. Rank(p, dir) = Cols * i + j
  BY DEF Rank
<1> HIDE DEF q, r
<1>3. i \in Int /\ j \in Int
  BY <1>1, BoardAssumption
<1> HIDE DEF i, j
<1> QED BY <1>2, <1>3, BoardAssumption

\* The rank of a cell, by its row and its column.
LEMMA RankAt ==
    ASSUME NEW q \in 0..(Rows - 1), NEW r \in 0..(Cols - 1), NEW dir \in Dirs
    PROVE  Rank(Cols * q + r, dir) = Cols * (IF dir = kDown THEN (Rows - 1) - q ELSE q)
                                     + (IF dir = kRight THEN (Cols - 1) - r ELSE r)
<1> DEFINE p == Cols * q + r
<1>1. p \div Cols = q /\ p % Cols = r
  BY CellAt
<1> HIDE DEF p
<1>2. Rank(p, dir) = Cols * (IF dir = kDown THEN (Rows - 1) - q ELSE q)
                     + (IF dir = kRight THEN (Cols - 1) - r ELSE r)
  BY <1>1, Zenon DEF Rank
<1> QED BY <1>2 DEF p

\* A step leads to a cell that TryMove has visited before.
LEMMA RankFalls ==
    ASSUME NEW p \in Cells, NEW dir \in Dirs, dir_pos(p, dir) \in Cells
    PROVE  Rank(dir_pos(p, dir), dir) < Rank(p, dir)
<1> DEFINE q == p \div Cols
           r == p % Cols
<1>1. q \in 0..(Rows - 1) /\ r \in 0..(Cols - 1) /\ p = Cols * q + r
  BY RowAndColumn, Zenon
<1>2. -1 \notin Cells
  BY DEF Cells
<1>3. /\ dir = kUp => q > 0 /\ dir_pos(p, dir) = p - Cols
      /\ dir = kRight => r < Cols - 1 /\ dir_pos(p, dir) = p + 1
      /\ dir = kDown => q < Rows - 1 /\ dir_pos(p, dir) = p + Cols
      /\ dir = kLeft => r > 0 /\ dir_pos(p, dir) = p - 1
  BY <1>2 DEF dir_pos, kUp, kRight, kDown, kLeft, q, r
<1>4. dir = kUp \/ dir = kRight \/ dir = kDown \/ dir = kLeft
  BY DEF Dirs, kUp, kRight, kDown, kLeft
<1>5. kUp # kDown /\ kUp # kRight /\ kRight # kDown /\ kLeft # kDown /\ kLeft # kRight
  BY DEF kUp, kRight, kDown, kLeft
<1> HIDE DEF q, r
<1>6. Cols \in Nat \ {0} /\ Rows \in Nat \ {0}
  BY BoardAssumption
<1>7. Rank(p, dir) = Cols * (IF dir = kDown THEN (Rows - 1) - q ELSE q)
                     + (IF dir = kRight THEN (Cols - 1) - r ELSE r)
  BY <1>1, RankAt
<1>8. CASE dir = kUp
  <2>1. q - 1 \in 0..(Rows - 1) /\ dir_pos(p, dir) = Cols * (q - 1) + r
    BY <1>1, <1>3, <1>6, <1>8
  <2>2. Rank(dir_pos(p, dir), dir) = Cols * (q - 1) + r
    BY <1>1, <1>5, <1>8, <2>1, RankAt
  <2>3. Rank(p, dir) = Cols * q + r
    BY <1>5, <1>7, <1>8
  <2> QED BY <1>1, <1>6, <2>2, <2>3
<1>9. CASE dir = kRight
  <2>1. r + 1 \in 0..(Cols - 1) /\ dir_pos(p, dir) = Cols * q + (r + 1)
    BY <1>1, <1>3, <1>6, <1>9
  <2>2. Rank(dir_pos(p, dir), dir) = Cols * q + ((Cols - 1) - (r + 1))
    BY <1>1, <1>5, <1>9, <2>1, RankAt
  <2>3. Rank(p, dir) = Cols * q + ((Cols - 1) - r)
    BY <1>5, <1>7, <1>9
  <2> QED BY <1>1, <1>6, <2>2, <2>3
<1>10. CASE dir = kDown
  <2>1. q + 1 \in 0..(Rows - 1) /\ dir_pos(p, dir) = Cols * (q + 1) + r
    BY <1>1, <1>3, <1>6, <1>10
  <2>2. Rank(dir_pos(p, dir), dir) = Cols * ((Rows - 1) - (q + 1)) + r
    BY <1>1, <1>5, <1>10, <2>1, RankAt
  <2>3. Rank(p, dir) = Cols * ((Rows - 1) - q) + r
    BY <1>5, <1>7, <1>10
  <2>4. Cols * ((Rows - 1) - (q + 1)) = Cols * ((Rows - 1) - q) - Cols
    BY <1>1, <1>6
  <2>5. Cols * ((Rows - 1) - q) \in Int
    BY <1>1, <1>6
  <2> QED BY <1>1, <1>6, <2>2, <2>3, <2>4, <2>5
<1>11. CASE dir = kLeft
  <2>1. r - 1 \in 0..(Cols - 1) /\ dir_pos(p, dir) = Cols * q + (r - 1)
    BY <1>1, <1>3, <1>6, <1>11
  <2>2. Rank(dir_pos(p, dir), dir) = Cols * q + (r - 1)
    BY <1>1, <1>5, <1>11, <2>1, RankAt
  <2>3. Rank(p, dir) = Cols * q + r
    BY <1>5, <1>7, <1>11
  <2> QED BY <1>1, <1>6, <2>2, <2>3
<1> QED BY <1>4, <1>8, <1>9, <1>10, <1>11

LEMMA OnwardType ==
    ASSUME NEW tiles, NEW p \in Cells, NEW dir \in Dirs
    PROVE  Onward(tiles, p, dir) \in Cells /\ Rank(Onward(tiles, p, dir), dir) <= Rank(p, dir)
<1>1. Rank(p, dir) \in Int /\ Rank(p, dir) <= Rank(p, dir)
  BY RankType
<1>2. CASE Onward(tiles, p, dir) = p
  BY <1>1, <1>2
<1>3. CASE Onward(tiles, p, dir) = dir_pos(p, dir) /\ dir_pos(p, dir) \in Cells
  <2>1. Rank(dir_pos(p, dir), dir) < Rank(p, dir) /\ Rank(dir_pos(p, dir), dir) \in Int
    BY <1>3, RankFalls, RankType
  <2> QED BY <1>1, <1>3, <2>1
<1> QED BY <1>2, <1>3 DEF Onward, IsValid

\* GetTargetPos ends on a cell visited no later: what lies behind it is a
\* cell or nothing.
LEMMA TargetType ==
    ASSUME NEW tiles, NEW pos \in Cells, NEW dir \in Dirs
    PROVE  \E last \in Cells : /\ Rank(last, dir) <= Rank(pos, dir)
                               /\ Rank(last, dir) <= Rank(Onward(tiles, pos, dir), dir)
                               /\ GetTargetPos(tiles, pos, dir) = <<last, dir_pos(last, dir)>>
<1> DEFINE m == Rows + Cols
           F == [n \in 1..m |-> [p \in Cells |-> Onward(tiles, p, dir)]]
           Def(g) == [n \in 0..m |-> IF n = 0 THEN pos ELSE Onward(tiles, g[n - 1], dir)]
<1>1. m \in Nat
  BY BoardAssumption
<1>2. F \in [1..m -> [Cells -> Cells]]
  BY OnwardType
<1>3. PICK g \in [0..m -> Cells] : g[0] = pos /\ \A n \in 1..m : g[n] = F[n][g[n - 1]]
  <2> HIDE DEF m, F
  <2>1. Solvable(m, Cells, pos, F)
    BY <1>1, <1>2, RecursionExists
  <2> QED BY <2>1, Zenon DEF Solvable
<1>4. \A n \in 1..m : g[n] = Onward(tiles, g[n - 1], dir)
  <2>1. \A n \in 1..m : g[n - 1] \in Cells
    BY <1>1
  <2>2. \A n \in 1..m, x \in Cells : F[n][x] = Onward(tiles, x, dir)
    OBVIOUS
  <2> HIDE DEF F
  <2> QED BY <1>3, <2>1, <2>2
<1>5. g = Def(g)
  <2> HIDE DEF m
  <2> QED BY <1>1, <1>3, <1>4
<1> HIDE DEF F
<1> DEFINE h == CHOOSE f : f = Def(f)
<1>6. h = Def(h)
  <2> HIDE DEF Def
  <2> QED BY <1>5, Zenon
<1>7. GetTargetPos(tiles, pos, dir) = <<h[m], dir_pos(h[m], dir)>>
  BY Zenon DEF GetTargetPos
<1> HIDE DEF h
<1>8. h[0] = pos /\ \A n \in 1..m : h[n] = Onward(tiles, h[n - 1], dir)
  <2> HIDE DEF m
  <2> QED BY <1>1, <1>6
<1>9. /\ h[m] \in Cells /\ Rank(h[m], dir) <= Rank(pos, dir)
      /\ Rank(h[m], dir) <= Rank(Onward(tiles, pos, dir), dir)
  <2> DEFINE first == Onward(tiles, pos, dir)
             Near(n) == /\ h[n] \in Cells /\ Rank(h[n], dir) <= Rank(pos, dir)
                        /\ n > 0 => Rank(h[n], dir) <= Rank(first, dir)
             S == {n \in Nat : n <= m => Near(n)}
  <2>0. first \in Cells /\ Rank(first, dir) \in Int /\ Rank(pos, dir) \in Int
    BY OnwardType, RankType
  <2>1. 0 \in S
    BY <1>8, RankType
  <2>2. ASSUME NEW n \in Nat, n \in S PROVE n + 1 \in S
    <3> SUFFICES ASSUME n + 1 <= m PROVE Near(n + 1)
      OBVIOUS
    <3> HIDE DEF m, first
    <3>1. Near(n) /\ n + 1 \in 1..m /\ (n + 1) - 1 = n
      BY <1>1, <2>2
    <3>2. h[n + 1] = Onward(tiles, h[n], dir)
      BY <1>8, <3>1
    <3>3. h[n + 1] \in Cells /\ Rank(h[n + 1], dir) <= Rank(h[n], dir)
      BY <3>1, <3>2, OnwardType
    <3>4. Rank(h[n + 1], dir) \in Int /\ Rank(h[n], dir) \in Int
      BY <3>1, <3>3, RankType
    <3>5. Rank(h[n + 1], dir) <= Rank(pos, dir)
      BY <2>0, <3>1, <3>3, <3>4
    <3>6. Rank(h[n + 1], dir) <= Rank(first, dir)
      <4>1. CASE n = 0
        <5>1. h[n + 1] = first
          BY <1>8, <3>2, <4>1 DEF first
        <5> QED BY <2>0, <5>1
      <4>2. CASE n > 0
        BY <2>0, <3>1, <3>3, <3>4, <4>2
      <4> QED BY <4>1, <4>2
    <3> QED BY <3>3, <3>5, <3>6
  <2> HIDE DEF S
  <2>3. \A n \in Nat : n \in S
    BY <2>1, <2>2, SetInduction
  <2>4. m > 0
    BY BoardAssumption
  <2> QED BY <1>1, <2>3, <2>4 DEF S
<1> QED BY <1>7, <1>9

\* The board under way in TryMove.
Moving == [tiles : Tiles, merged : SUBSET Cells, can_move : BOOLEAN]

\* TryMove visits cells.
LEMMA VisitType ==
    ASSUME NEW k \in 1..Size, NEW dir \in Dirs
    PROVE  Visit(k, dir) \in Cells
<1> DEFINE q == (k - 1) \div Cols
           r == (k - 1) % Cols
           i == IF dir = kDown THEN Rows - 1 - q ELSE q
           j == IF dir = kRight THEN Cols - 1 - r ELSE r
<1>1. k - 1 \in Cells
  BY CellsFacts DEF Cells
<1>2. q \in 0..(Rows - 1) /\ r \in 0..(Cols - 1)
  BY <1>1, RowAndColumn, Zenon
<1>3. Visit(k, dir) = i * Cols + j
  BY DEF Visit
<1> HIDE DEF q, r
<1>4. i \in 0..(Rows - 1) /\ j \in 0..(Cols - 1)
  BY <1>2, BoardAssumption
<1> HIDE DEF i, j
<1>5. i * Cols = Cols * i
  BY <1>4, BoardAssumption
<1> QED BY <1>3, <1>4, <1>5, CellAt

\* Moving a tile keeps the board a board.
LEMMA MoveTileType ==
    ASSUME NEW m \in Moving, NEW pos \in Cells, NEW dir \in Dirs
    PROVE  MoveTile(m, pos, dir) \in Moving
<1>1. PICK last \in Cells : GetTargetPos(m.tiles, pos, dir) = <<last, dir_pos(last, dir)>>
  BY TargetType
<1> DEFINE next == dir_pos(last, dir)
<1>2. m.tiles \in Tiles /\ m.merged \in SUBSET Cells /\ m.can_move \in BOOLEAN
  BY DEF Moving
<1>3. GetTargetPos(m.tiles, pos, dir)[1] = last /\ GetTargetPos(m.tiles, pos, dir)[2] = next
  BY <1>1
<1> HIDE DEF next
<1>4. \/ MoveTile(m, pos, dir) = m
      \/ /\ next \in Cells
         /\ MoveTile(m, pos, dir) =
              [tiles |-> [m.tiles EXCEPT ![next] = @ + 1, ![pos] = 0],
               merged |-> m.merged \cup {next}, can_move |-> TRUE]
      \/ MoveTile(m, pos, dir) =
           [m EXCEPT !.tiles = [@ EXCEPT ![last] = m.tiles[pos], ![pos] = 0], !.can_move = TRUE]
  BY <1>3 DEF MoveTile, IsValid
<1>5. ASSUME next \in Cells
      PROVE  [m.tiles EXCEPT ![next] = @ + 1, ![pos] = 0] \in Tiles
  BY <1>2, <1>5 DEF Tiles
<1>6. [m.tiles EXCEPT ![last] = m.tiles[pos], ![pos] = 0] \in Tiles
  BY <1>2 DEF Tiles
<1>7. CASE MoveTile(m, pos, dir) = m
  BY <1>7
<1>8. CASE /\ next \in Cells
           /\ MoveTile(m, pos, dir) =
                [tiles |-> [m.tiles EXCEPT ![next] = @ + 1, ![pos] = 0],
                 merged |-> m.merged \cup {next}, can_move |-> TRUE]
  <2> DEFINE t == [m.tiles EXCEPT ![next] = @ + 1, ![pos] = 0]
  <2>1. t \in Tiles
    BY <1>5, <1>8
  <2> HIDE DEF t
  <2>2. MoveTile(m, pos, dir) = [tiles |-> t, merged |-> m.merged \cup {next}, can_move |-> TRUE]
    BY <1>8, Zenon DEF t
  <2> QED BY <1>2, <1>8, <2>1, <2>2 DEF Moving
<1>9. CASE MoveTile(m, pos, dir) =
             [m EXCEPT !.tiles = [@ EXCEPT ![last] = m.tiles[pos], ![pos] = 0], !.can_move = TRUE]
  <2> DEFINE t == [m.tiles EXCEPT ![last] = m.tiles[pos], ![pos] = 0]
  <2>1. MoveTile(m, pos, dir) = [m EXCEPT !.tiles = t, !.can_move = TRUE]
    BY <1>9
  <2>2. t \in Tiles
    BY <1>6
  <2> HIDE DEF t
  <2> QED BY <2>1, <2>2 DEF Moving
<1> QED BY <1>4, <1>7, <1>8, <1>9

\* The boards TryMove goes through.
IsTrace(h, tiles, dir) ==
  /\ h \in [0..Size -> Moving]
  /\ h[0] = [tiles |-> tiles, merged |-> {}, can_move |-> FALSE]
  /\ \A k \in 1..Size : h[k] = MoveTile(h[k - 1], Visit(k, dir), dir)
  /\ TryMove(tiles, dir) = h[Size]

\* TryMove is what its definition says.
LEMMA TryMoveRecursion ==
    ASSUME NEW tiles \in Tiles, NEW dir \in Dirs
    PROVE  \E h : IsTrace(h, tiles, dir)
<1> DEFINE start == [tiles |-> tiles, merged |-> {}, can_move |-> FALSE]
           F == [k \in 1..Size |-> [x \in Moving |-> MoveTile(x, Visit(k, dir), dir)]]
           Def(g) == [k \in 0..Size |-> IF k = 0 THEN start ELSE MoveTile(g[k - 1], Visit(k, dir), dir)]
<1>1. Size \in Nat
  BY CellsFacts
<1>2. start \in Moving
  BY DEF Moving
<1>3. F \in [1..Size -> [Moving -> Moving]]
  BY VisitType, MoveTileType
<1>4. PICK g \in [0..Size -> Moving] : g[0] = start /\ \A k \in 1..Size : g[k] = F[k][g[k - 1]]
  <2> HIDE DEF start, F
  <2>1. Solvable(Size, Moving, start, F)
    BY <1>1, <1>2, <1>3, RecursionExists
  <2> QED BY <2>1, Zenon DEF Solvable
<1>5. \A k \in 1..Size : g[k] = MoveTile(g[k - 1], Visit(k, dir), dir)
  <2>1. \A k \in 1..Size : g[k - 1] \in Moving
    BY <1>1
  <2>2. \A k \in 1..Size, x \in Moving : F[k][x] = MoveTile(x, Visit(k, dir), dir)
    OBVIOUS
  <2> HIDE DEF F
  <2> QED BY <1>4, <2>1, <2>2
<1>6. g = Def(g)
  <2> HIDE DEF start
  <2> QED BY <1>1, <1>4, <1>5
<1> HIDE DEF F
<1> DEFINE h == CHOOSE f : f = Def(f)
<1>7. h = Def(h)
  <2> HIDE DEF Def
  <2> QED BY <1>6, Zenon
<1>8. TryMove(tiles, dir) = h[Size]
  BY Zenon DEF TryMove
<1> HIDE DEF h
<1>9. h[0] = start /\ \A k \in 1..Size : h[k] = MoveTile(h[k - 1], Visit(k, dir), dir)
  <2> HIDE DEF start
  <2> QED BY <1>1, <1>7
<1>10. h \in [0..Size -> Moving]
  <2> DEFINE S == {k \in Nat : k <= Size => h[k] \in Moving}
  <2>1. 0 \in S
    BY <1>2, <1>9
  <2>2. ASSUME NEW n \in Nat, n \in S PROVE n + 1 \in S
    <3> SUFFICES ASSUME n + 1 <= Size PROVE h[n + 1] \in Moving
      OBVIOUS
    <3>1. h[n] \in Moving /\ n + 1 \in 1..Size /\ (n + 1) - 1 = n
      BY <1>1, <2>2
    <3>2. h[n + 1] = MoveTile(h[n], Visit(n + 1, dir), dir)
      BY <1>9, <3>1
    <3> QED BY <3>1, <3>2, VisitType, MoveTileType
  <2> HIDE DEF S
  <2>3. \A n \in Nat : n \in S
    BY <2>1, <2>2, SetInduction
  <2>4. \A k \in 0..Size : h[k] \in Moving
    BY <1>1, <2>3 DEF S
  <2>5. h = [k \in 0..Size |-> IF k = 0 THEN start ELSE MoveTile(h[k - 1], Visit(k, dir), dir)]
    BY <1>7
  <2> HIDE DEF start
  <2> QED BY <2>4, <2>5
<1> QED BY <1>8, <1>9, <1>10 DEF IsTrace

\* A move gives a board, and says whether it moved anything.
LEMMA TryMoveType ==
    ASSUME NEW tiles \in Tiles, NEW dir \in Dirs
    PROVE  TryMove(tiles, dir).tiles \in Tiles /\ TryMove(tiles, dir).can_move \in BOOLEAN
<1>1. PICK h : IsTrace(h, tiles, dir)
  BY TryMoveRecursion
<1>2. TryMove(tiles, dir) \in Moving
  BY <1>1, CellsFacts DEF IsTrace
<1> QED BY <1>2 DEF Moving

\* The k-th cell TryMove visits has k - 1 cells before it.
LEMMA VisitRank ==
    ASSUME NEW k \in 1..Size, NEW dir \in Dirs
    PROVE  Rank(Visit(k, dir), dir) = k - 1
<1> DEFINE q == (k - 1) \div Cols
           r == (k - 1) % Cols
           i == IF dir = kDown THEN Rows - 1 - q ELSE q
           j == IF dir = kRight THEN Cols - 1 - r ELSE r
<1>1. k - 1 \in Cells
  BY CellsFacts DEF Cells
<1>2. q \in 0..(Rows - 1) /\ r \in 0..(Cols - 1) /\ k - 1 = Cols * q + r
  BY <1>1, RowAndColumn, Zenon
<1>3. Visit(k, dir) = i * Cols + j
  BY DEF Visit
<1> HIDE DEF q, r
<1>4. i \in 0..(Rows - 1) /\ j \in 0..(Cols - 1)
  BY <1>2, BoardAssumption
<1>5. /\ (IF dir = kDown THEN (Rows - 1) - i ELSE i) = q
      /\ (IF dir = kRight THEN (Cols - 1) - j ELSE j) = r
  BY <1>2, BoardAssumption
<1> HIDE DEF i, j
<1>6. i * Cols = Cols * i
  BY <1>4, BoardAssumption
<1>7. Rank(Cols * i + j, dir) = Cols * q + r
  BY <1>4, <1>5, RankAt
<1> QED BY <1>2, <1>3, <1>6, <1>7

\* What TryMove has merged into it has visited, and nothing else has grown.
Tame(m, k, bound, dir) ==
  /\ \A p \in Cells : m.tiles[p] <= bound \/ (p \in m.merged /\ m.tiles[p] <= bound + 1)
  /\ \A p \in m.merged : Rank(p, dir) < k

LEMMA MoveTileTame ==
    ASSUME NEW m \in Moving, NEW bound \in Nat, NEW k \in 1..Size, NEW dir \in Dirs,
           Tame(m, k - 1, bound, dir)
    PROVE  Tame(MoveTile(m, Visit(k, dir), dir), k, bound, dir)
<1> DEFINE pos == Visit(k, dir)
<1>1. pos \in Cells /\ Rank(pos, dir) = k - 1 /\ k \in Int
  BY VisitType, VisitRank, CellsFacts
<1> HIDE DEF pos
<1>2. PICK last \in Cells : /\ Rank(last, dir) <= Rank(pos, dir)
                            /\ GetTargetPos(m.tiles, pos, dir) = <<last, dir_pos(last, dir)>>
  BY <1>1, TargetType
<1> DEFINE next == dir_pos(last, dir)
<1>3. m.tiles \in Tiles /\ m.merged \in SUBSET Cells
  BY DEF Moving
<1>4. GetTargetPos(m.tiles, pos, dir)[1] = last /\ GetTargetPos(m.tiles, pos, dir)[2] = next
  BY <1>2
<1>5. next \in Cells => Rank(next, dir) < k - 1
  <2> HAVE next \in Cells
  <2>1. Rank(next, dir) < Rank(last, dir) /\ Rank(next, dir) \in Int /\ Rank(last, dir) \in Int
    BY RankFalls, RankType
  <2> QED BY <1>1, <1>2, <2>1
<1> HIDE DEF next
<1>6. pos \notin m.merged
  BY <1>1 DEF Tame
<1>7. m.tiles[pos] <= bound
  BY <1>1, <1>6 DEF Tame
<1>8. \A p \in m.merged : Rank(p, dir) < k
  BY <1>1, <1>3, RankType DEF Tame
<1>9. \/ MoveTile(m, pos, dir) = m
      \/ /\ next \in Cells /\ m.tiles[next] = m.tiles[pos]
         /\ MoveTile(m, pos, dir) =
              [tiles |-> [m.tiles EXCEPT ![next] = @ + 1, ![pos] = 0],
               merged |-> m.merged \cup {next}, can_move |-> TRUE]
      \/ MoveTile(m, pos, dir) =
           [m EXCEPT !.tiles = [@ EXCEPT ![last] = m.tiles[pos], ![pos] = 0], !.can_move = TRUE]
  BY <1>4 DEF MoveTile, IsValid
<1>10. CASE MoveTile(m, pos, dir) = m
  BY <1>8, <1>10 DEF Tame, pos
<1>11. CASE /\ next \in Cells /\ m.tiles[next] = m.tiles[pos]
            /\ MoveTile(m, pos, dir) =
                 [tiles |-> [m.tiles EXCEPT ![next] = @ + 1, ![pos] = 0],
                  merged |-> m.merged \cup {next}, can_move |-> TRUE]
  <2> DEFINE t == [m.tiles EXCEPT ![next] = @ + 1, ![pos] = 0]
  <2>1. ASSUME NEW p \in Cells PROVE t[p] = IF p = pos THEN 0 ELSE
                                            IF p = next THEN m.tiles[next] + 1 ELSE m.tiles[p]
    BY <1>1, <1>3, <1>11 DEF Tiles
  <2>2. MoveTile(m, pos, dir).tiles = t /\ MoveTile(m, pos, dir).merged = m.merged \cup {next}
    BY <1>11
  <2>3. \A p \in Cells : m.tiles[p] \in Nat
    BY <1>3 DEF Tiles
  <2> HIDE DEF t
  <2>4. \A p \in Cells : t[p] <= bound \/ (p \in m.merged \cup {next} /\ t[p] <= bound + 1)
    BY <1>7, <1>11, <2>1, <2>3 DEF Tame
  <2>5. \A p \in m.merged \cup {next} : Rank(p, dir) < k
    BY <1>1, <1>5, <1>8, <1>11, RankType
  <2> QED BY <2>2, <2>4, <2>5 DEF Tame, pos
<1>12. CASE MoveTile(m, pos, dir) =
             [m EXCEPT !.tiles = [@ EXCEPT ![last] = m.tiles[pos], ![pos] = 0], !.can_move = TRUE]
  <2> DEFINE t == [m.tiles EXCEPT ![last] = m.tiles[pos], ![pos] = 0]
  <2>1. ASSUME NEW p \in Cells PROVE t[p] = IF p = pos THEN 0 ELSE
                                            IF p = last THEN m.tiles[pos] ELSE m.tiles[p]
    BY <1>1, <1>3 DEF Tiles
  <2>2. MoveTile(m, pos, dir).tiles = t /\ MoveTile(m, pos, dir).merged = m.merged
    BY <1>12 DEF Moving
  <2> HIDE DEF t
  <2>3. \A p \in Cells : t[p] <= bound \/ (p \in m.merged /\ t[p] <= bound + 1)
    BY <1>7, <2>1 DEF Tame
  <2> QED BY <1>8, <2>2, <2>3 DEF Tame, pos
<1> QED BY <1>9, <1>10, <1>11, <1>12 DEF pos

\* No tile grows twice in a move.
LEMMA TryMoveBound ==
    ASSUME NEW tiles \in Tiles, NEW dir \in Dirs, NEW bound \in Nat,
           \A p \in Cells : tiles[p] <= bound
    PROVE  \A p \in Cells : TryMove(tiles, dir).tiles[p] <= bound + 1
<1>1. PICK h : IsTrace(h, tiles, dir)
  BY TryMoveRecursion
<1> DEFINE S == {k \in 0..Size : Tame(h[k], k, bound, dir)}
<1>2. 0 \in S
  <2>1. h[0].tiles = tiles /\ h[0].merged = {}
    BY <1>1 DEF IsTrace
  <2> QED BY <2>1, CellsFacts DEF Tame
<1>3. ASSUME NEW n \in 0..(Size - 1), n \in S PROVE n + 1 \in S
  <2>1. n + 1 \in 1..Size /\ (n + 1) - 1 = n /\ n \in 0..Size
    BY CellsFacts
  <2>2. h[n] \in Moving /\ h[n + 1] = MoveTile(h[n], Visit(n + 1, dir), dir)
    BY <1>1, <2>1 DEF IsTrace
  <2>3. Tame(h[n + 1], n + 1, bound, dir)
    BY <1>3, <2>1, <2>2, MoveTileTame
  <2> QED BY <2>1, <2>3
<1>4. Size \in S
  <2> HIDE DEF S
  <2>1. \A n \in 0..Size : n \in S
    BY <1>2, <1>3, CellsFacts, BoundedInduction
  <2> QED BY <2>1, CellsFacts
<1>5. Tame(TryMove(tiles, dir), Size, bound, dir)
  BY <1>1, <1>4 DEF IsTrace
<1>6. \A p \in Cells : TryMove(tiles, dir).tiles[p] \in Nat
  BY TryMoveType DEF Moving, Tiles
<1> QED BY <1>5, <1>6 DEF Tame

-------------------------------------------------------------------------------
\* TryMove visits every cell.
LEMMA VisitOfRank ==
    ASSUME NEW p \in Cells, NEW dir \in Dirs
    PROVE  /\ Rank(p, dir) + 1 \in 1..Size /\ (Rank(p, dir) + 1) - 1 \in 0..Size
           /\ Visit(Rank(p, dir) + 1, dir) = p
<1> DEFINE q == p \div Cols
           r == p % Cols
           i == IF dir = kDown THEN (Rows - 1) - q ELSE q
           j == IF dir = kRight THEN (Cols - 1) - r ELSE r
           n == Rank(p, dir)
<1>1. q \in 0..(Rows - 1) /\ r \in 0..(Cols - 1) /\ p = Cols * q + r
  BY RowAndColumn, Zenon
<1>2. n = Cols * i + j
  BY DEF Rank
<1> HIDE DEF q, r
<1>3. i \in 0..(Rows - 1) /\ j \in 0..(Cols - 1)
  BY <1>1, BoardAssumption
<1>4. /\ (IF dir = kDown THEN Rows - 1 - i ELSE i) = q
      /\ (IF dir = kRight THEN Cols - 1 - j ELSE j) = r
  BY <1>1, BoardAssumption
<1> HIDE DEF i, j, n
<1>5. n \in Cells /\ n \div Cols = i /\ n % Cols = j
  BY <1>2, <1>3, CellAt
<1>6. n \in Nat /\ n + 1 \in 1..Size /\ (n + 1) - 1 = n /\ n \in 0..Size
  BY <1>5, CellsFacts DEF Cells
<1>7. Visit(n + 1, dir) = (IF dir = kDown THEN Rows - 1 - i ELSE i) * Cols
                          + (IF dir = kRight THEN Cols - 1 - j ELSE j)
  <2>1. ((n + 1) - 1) \div Cols = i /\ ((n + 1) - 1) % Cols = j
    BY <1>5, <1>6
  <2> QED BY <2>1, Zenon DEF Visit
<1>8. Visit(n + 1, dir) = q * Cols + r
  BY <1>4, <1>7, Zenon
<1>9. q * Cols = Cols * q
  BY <1>1, BoardAssumption
<1> QED BY <1>1, <1>6, <1>8, <1>9 DEF n

\* Nothing has moved, or it is known.
LEMMA MoveTileMoves ==
    ASSUME NEW m \in Moving, NEW pos, NEW dir
    PROVE  MoveTile(m, pos, dir) = m \/ MoveTile(m, pos, dir).can_move = TRUE
BY DEF MoveTile, Moving

LEMMA TraceKeeps ==
    ASSUME NEW tiles, NEW dir, NEW h, IsTrace(h, tiles, dir)
    PROVE  \A k \in 0..Size : /\ h[k].can_move = TRUE \/ h[k] = h[0]
                              /\ \A j \in 0..k : h[j].can_move = TRUE => h[k].can_move = TRUE
<1> DEFINE S == {k \in 0..Size : /\ h[k].can_move = TRUE \/ h[k] = h[0]
                                 /\ \A j \in 0..k : h[j].can_move = TRUE => h[k].can_move = TRUE}
<1>1. Size \in Nat
  BY CellsFacts
<1>2. 0 \in S
  BY <1>1
<1>3. ASSUME NEW n \in 0..(Size - 1), n \in S PROVE n + 1 \in S
  <2>1. n + 1 \in 1..Size /\ (n + 1) - 1 = n /\ n \in 0..Size /\ n + 1 \in 0..Size
    BY <1>1
  <2>2. h[n] \in Moving /\ h[n + 1] = MoveTile(h[n], Visit(n + 1, dir), dir)
    BY <2>1 DEF IsTrace
  <2>3. h[n + 1] = h[n] \/ h[n + 1].can_move = TRUE
    BY <2>2, MoveTileMoves
  <2>4. ASSUME NEW j \in 0..(n + 1), h[j].can_move = TRUE PROVE h[n + 1].can_move = TRUE
    <3>1. j = n + 1 \/ j \in 0..n
      OBVIOUS
    <3> QED BY <1>3, <2>3, <2>4, <3>1
  <2> QED BY <1>3, <2>1, <2>3, <2>4
<1> HIDE DEF S
<1>4. \A n \in 0..Size : n \in S
  BY <1>1, <1>2, <1>3, BoundedInduction
<1> QED BY <1>4 DEF S

\* A move that is none leaves the board alone.
LEMMA NoMoveKeeps ==
    ASSUME NEW tiles \in Tiles, NEW dir \in Dirs, ~TryMove(tiles, dir).can_move
    PROVE  TryMove(tiles, dir).tiles = tiles
<1>1. PICK h : IsTrace(h, tiles, dir)
  BY TryMoveRecursion
<1>2. Size \in 0..Size
  BY CellsFacts
<1>3. TryMove(tiles, dir) = h[Size] /\ h[0] = [tiles |-> tiles, merged |-> {}, can_move |-> FALSE]
  BY <1>1, Zenon DEF IsTrace
<1>4. h[Size].can_move = TRUE \/ h[Size] = h[0]
  BY <1>1, <1>2, TraceKeeps
<1> QED BY <1>3, <1>4

\* A tile with a gap in front of it moves.
LEMMA GapMoves ==
    ASSUME NEW tiles \in Tiles, NEW dir \in Dirs, NEW p \in Cells, tiles[p] # 0,
           dir_pos(p, dir) \in Cells, tiles[dir_pos(p, dir)] = 0
    PROVE  TryMove(tiles, dir).can_move
<1>1. PICK h : IsTrace(h, tiles, dir)
  BY TryMoveRecursion
<1> DEFINE k == Rank(p, dir) + 1
<1>2. k \in 1..Size /\ k - 1 \in 0..Size /\ Visit(k, dir) = p
  BY VisitOfRank
<1> HIDE DEF k
<1>3. Size \in Nat /\ k \in 0..Size /\ Size \in 0..Size /\ k - 1 \in 0..k /\ k \in 0..Size
  BY <1>2, CellsFacts
<1>4. /\ h[k - 1] \in Moving /\ h[k] = MoveTile(h[k - 1], p, dir) /\ TryMove(tiles, dir) = h[Size]
      /\ h[0] = [tiles |-> tiles, merged |-> {}, can_move |-> FALSE]
  BY <1>1, <1>2 DEF IsTrace
<1>5. CASE h[k - 1].can_move = TRUE
  <2>1. h[Size].can_move = TRUE
    BY <1>1, <1>2, <1>3, <1>5, TraceKeeps
  <2> QED BY <1>4, <2>1
<1>6. CASE h[k - 1] = h[0]
  <2> DEFINE m == h[k - 1]
  <2>1. m \in Moving /\ m.tiles = tiles
    BY <1>4, <1>6
  <2>2. PICK last \in Cells : /\ Rank(last, dir) <= Rank(p, dir)
                              /\ Rank(last, dir) <= Rank(Onward(tiles, p, dir), dir)
                              /\ GetTargetPos(tiles, p, dir) = <<last, dir_pos(last, dir)>>
    BY TargetType
  <2>3. Onward(tiles, p, dir) = dir_pos(p, dir)
    BY DEF Onward, IsValid
  <2>4. /\ Rank(dir_pos(p, dir), dir) < Rank(p, dir) /\ Rank(dir_pos(p, dir), dir) \in Int
        /\ Rank(p, dir) \in Int /\ Rank(last, dir) \in Int
    BY RankFalls, RankType
  <2>5. last # p
    BY <2>2, <2>3, <2>4
  <2>6. GetTargetPos(tiles, p, dir)[1] = last
    BY <2>2
  <2> HIDE DEF m
  <2>7. MoveTile(m, p, dir).can_move = TRUE
    BY <2>1, <2>5, <2>6 DEF MoveTile, Moving
  <2>8. h[k].can_move = TRUE
    BY <1>4, <2>7 DEF m
  <2>9. h[Size].can_move = TRUE
    BY <1>1, <1>3, <2>8, TraceKeeps
  <2> QED BY <1>4, <2>9
<1> QED BY <1>1, <1>2, <1>5, <1>6, TraceKeeps

\* What every neighbour takes over, all of 0..m have.
LEMMA Spreads ==
    ASSUME NEW m \in Nat, NEW S, NEW a \in 0..m, a \in S,
           \A n \in 0..m : n \in S /\ n + 1 <= m => n + 1 \in S,
           \A n \in 0..m : n \in S /\ n >= 1 => n - 1 \in S
    PROVE  \A n \in 0..m : n \in S
<1> DEFINE U == {n \in Nat : a + n <= m => a + n \in S}
           D == {n \in Nat : n <= a => a - n \in S}
<1>1. 0 \in U /\ 0 \in D
  OBVIOUS
<1>2. ASSUME NEW n \in Nat, n \in U PROVE n + 1 \in U
  <2> SUFFICES ASSUME a + (n + 1) <= m PROVE a + (n + 1) \in S
    OBVIOUS
  <2>1. a + n \in 0..m /\ (a + n) + 1 <= m /\ (a + n) + 1 = a + (n + 1) /\ a + n \in S
    BY <1>2
  <2>2. (a + n) + 1 \in S
    BY <2>1
  <2> QED BY <2>1, <2>2
<1>3. ASSUME NEW n \in Nat, n \in D PROVE n + 1 \in D
  <2> SUFFICES ASSUME n + 1 <= a PROVE a - (n + 1) \in S
    OBVIOUS
  <2>1. a - n \in 0..m /\ a - n >= 1 /\ (a - n) - 1 = a - (n + 1) /\ a - n \in S
    BY <1>3
  <2>2. (a - n) - 1 \in S
    BY <2>1
  <2> QED BY <2>1, <2>2
<1> HIDE DEF U, D
<1>4. \A n \in Nat : n \in U
  BY <1>1, <1>2, SetInduction
<1>5. \A n \in Nat : n \in D
  BY <1>1, <1>3, SetInduction
<1> TAKE n \in 0..m
<1>6. CASE n >= a
  <2>1. n - a \in Nat /\ a + (n - a) = n /\ a + (n - a) <= m
    BY <1>6
  <2> QED BY <1>4, <2>1 DEF U
<1>7. CASE n < a
  <2>1. a - n \in Nat /\ a - (a - n) = n /\ a - n <= a
    BY <1>7
  <2> QED BY <1>5, <2>1 DEF D
<1> QED BY <1>6, <1>7

\* The neighbours of a cell, by its row and its column.
LEMMA Neighbours ==
    ASSUME NEW i \in 0..(Rows - 1), NEW j \in 0..(Cols - 1)
    PROVE  /\ i >= 1 => dir_pos(Cols * i + j, kUp) = Cols * (i - 1) + j
           /\ i + 1 <= Rows - 1 => dir_pos(Cols * i + j, kDown) = Cols * (i + 1) + j
           /\ j >= 1 => dir_pos(Cols * i + j, kLeft) = Cols * i + (j - 1)
           /\ j + 1 <= Cols - 1 => dir_pos(Cols * i + j, kRight) = Cols * i + (j + 1)
<1> DEFINE p == Cols * i + j
<1>1. p \div Cols = i /\ p % Cols = j
  BY CellAt
<1>2. /\ Cols * (i - 1) + j = p - Cols /\ Cols * (i + 1) + j = p + Cols
      /\ Cols * i + (j - 1) = p - 1 /\ Cols * i + (j + 1) = p + 1
  BY BoardAssumption
<1> HIDE DEF p
<1>3. /\ i >= 1 => dir_pos(p, kUp) = p - Cols
      /\ i + 1 <= Rows - 1 => dir_pos(p, kDown) = p + Cols
      /\ j >= 1 => dir_pos(p, kLeft) = p - 1
      /\ j + 1 <= Cols - 1 => dir_pos(p, kRight) = p + 1
  BY <1>1, BoardAssumption DEF dir_pos, kUp, kRight, kDown, kLeft
<1> QED BY <1>2, <1>3 DEF p

\* A board that has a tile and on which no move is left is full: else some tile
\* would have a gap beside it.
LEMMA StuckIsFull ==
    ASSUME NEW tiles \in Tiles, ~CanMove(tiles), NEW a \in Cells, tiles[a] # 0
    PROVE  GetAllEmptyPos(tiles) = {}
<1> DEFINE Filled(i, j) == tiles[Cols * i + j] # 0
<1>1. ASSUME NEW p \in Cells, NEW dir \in Dirs, tiles[p] # 0, dir_pos(p, dir) \in Cells
      PROVE  tiles[dir_pos(p, dir)] # 0
  BY <1>1, GapMoves DEF CanMove
<1>2. kUp \in Dirs /\ kRight \in Dirs /\ kDown \in Dirs /\ kLeft \in Dirs
  BY DEF Dirs, kUp, kRight, kDown, kLeft
<1>3. Rows - 1 \in Nat /\ Cols - 1 \in Nat
  BY BoardAssumption
<1>4. PICK q \in 0..(Rows - 1), r \in 0..(Cols - 1) : a = Cols * q + r
  <2>1. a \div Cols \in 0..(Rows - 1) /\ a % Cols \in 0..(Cols - 1) /\ a = Cols * (a \div Cols) + (a % Cols)
    BY RowAndColumn
  <2> QED BY <2>1, Zenon
<1>5. ASSUME NEW i \in 0..(Rows - 1), NEW j \in 0..(Cols - 1), Filled(i, j)
      PROVE  /\ i >= 1 => Filled(i - 1, j)
             /\ i + 1 <= Rows - 1 => Filled(i + 1, j)
             /\ j >= 1 => Filled(i, j - 1)
             /\ j + 1 <= Cols - 1 => Filled(i, j + 1)
  <2> DEFINE p == Cols * i + j
  <2>1. p \in Cells /\ tiles[p] # 0
    BY <1>5, CellAt
  <2>2. /\ i >= 1 => dir_pos(p, kUp) = Cols * (i - 1) + j
        /\ i + 1 <= Rows - 1 => dir_pos(p, kDown) = Cols * (i + 1) + j
        /\ j >= 1 => dir_pos(p, kLeft) = Cols * i + (j - 1)
        /\ j + 1 <= Cols - 1 => dir_pos(p, kRight) = Cols * i + (j + 1)
    BY Neighbours
  <2> HIDE DEF p
  <2>3. i >= 1 => Filled(i - 1, j)
    <3> HAVE i >= 1
    <3>1. i - 1 \in 0..(Rows - 1)
      BY <1>3
    <3>2. Cols * (i - 1) + j \in Cells
      BY <3>1, CellAt, Zenon
    <3> QED BY <1>1, <1>2, <2>1, <2>2, <3>2
  <2>4. i + 1 <= Rows - 1 => Filled(i + 1, j)
    <3> HAVE i + 1 <= Rows - 1
    <3>1. i + 1 \in 0..(Rows - 1)
      BY <1>3
    <3>2. Cols * (i + 1) + j \in Cells
      BY <3>1, CellAt, Zenon
    <3> QED BY <1>1, <1>2, <2>1, <2>2, <3>2
  <2>5. j >= 1 => Filled(i, j - 1)
    <3> HAVE j >= 1
    <3>1. j - 1 \in 0..(Cols - 1)
      BY <1>3
    <3>2. Cols * i + (j - 1) \in Cells
      BY <3>1, CellAt, Zenon
    <3> QED BY <1>1, <1>2, <2>1, <2>2, <3>2
  <2>6. j + 1 <= Cols - 1 => Filled(i, j + 1)
    <3> HAVE j + 1 <= Cols - 1
    <3>1. j + 1 \in 0..(Cols - 1)
      BY <1>3
    <3>2. Cols * i + (j + 1) \in Cells
      BY <3>1, CellAt, Zenon
    <3> QED BY <1>1, <1>2, <2>1, <2>2, <3>2
  <2> QED BY <2>3, <2>4, <2>5, <2>6
<1>6. Filled(q, r)
  BY <1>4
<1> HIDE DEF Filled
<1>7. \A j \in 0..(Cols - 1) : Filled(q, j)
  <2> DEFINE S == {j \in 0..(Cols - 1) : Filled(q, j)}
  <2>1. r \in S
    BY <1>6
  <2>2. \A n \in 0..(Cols - 1) : n \in S /\ n + 1 <= Cols - 1 => n + 1 \in S
    BY <1>3, <1>5
  <2>3. \A n \in 0..(Cols - 1) : n \in S /\ n >= 1 => n - 1 \in S
    BY <1>3, <1>5
  <2> HIDE DEF S
  <2>4. \A n \in 0..(Cols - 1) : n \in S
    BY <1>3, <2>1, <2>2, <2>3, Spreads
  <2> QED BY <2>4 DEF S
<1>8. ASSUME NEW j \in 0..(Cols - 1) PROVE \A i \in 0..(Rows - 1) : Filled(i, j)
  <2> DEFINE S == {i \in 0..(Rows - 1) : Filled(i, j)}
  <2>1. q \in S
    BY <1>7
  <2>2. \A n \in 0..(Rows - 1) : n \in S /\ n + 1 <= Rows - 1 => n + 1 \in S
    BY <1>3, <1>5
  <2>3. \A n \in 0..(Rows - 1) : n \in S /\ n >= 1 => n - 1 \in S
    BY <1>3, <1>5
  <2> HIDE DEF S
  <2>4. \A n \in 0..(Rows - 1) : n \in S
    BY <1>3, <2>1, <2>2, <2>3, Spreads
  <2> QED BY <2>4 DEF S
<1>9. ASSUME NEW p \in Cells PROVE tiles[p] # 0
  <2>1. p \div Cols \in 0..(Rows - 1) /\ p % Cols \in 0..(Cols - 1) /\ p = Cols * (p \div Cols) + (p % Cols)
    BY RowAndColumn
  <2>2. Filled(p \div Cols, p % Cols)
    BY <1>8, <2>1, Zenon
  <2>3. tiles[Cols * (p \div Cols) + (p % Cols)] # 0
    BY <2>2, Zenon DEF Filled
  <2> QED BY <2>1, <2>3, Zenon
<1> QED BY <1>9 DEF GetAllEmptyPos

-------------------------------------------------------------------------------
\* No direction, or one in which tiles move.
Playable(tiles, dir) == dir \in Dirs /\ TryMove(tiles, dir).can_move

\* A turn of the player's loop keeps a direction that can be played.
LEMMA PlayerTryPlayable ==
    ASSUME NEW tiles, NEW turn, NEW dir \in Dirs, NEW score, NEW beta,
           turn.move = -1 \/ Playable(tiles, turn.move)
    PROVE  LET next == PlayerTry(turn, dir, TryMove(tiles, dir), score, beta)
           IN  next.move = -1 \/ Playable(tiles, next.move)
<1>1. CASE turn.cut \/ ~TryMove(tiles, dir).can_move
  <2>1. PlayerTry(turn, dir, TryMove(tiles, dir), score, beta) = turn
    BY <1>1, Zenon DEF PlayerTry
  <2> QED BY <2>1
<1>2. CASE ~(turn.cut \/ ~TryMove(tiles, dir).can_move)
  <2>1. PlayerTry(turn, dir, TryMove(tiles, dir), score, beta).move \in {dir, turn.move}
    BY <1>2 DEF PlayerTry
  <2>2. Playable(tiles, dir)
    BY <1>2 DEF Playable
  <2> QED BY <2>1, <2>2
<1> QED BY <1>1, <1>2

\* One turn of the player's loop, and its four turns one after the other.
PlayOnce(tiles, depth, beta, turn, dir) ==
  PlayerTry(turn, dir, TryMove(tiles, dir),
            ScoreBelow(TryMove(tiles, dir).tiles, depth - 1, FALSE, turn.alpha, beta), beta)

PlayAll(tiles, depth, alpha, beta) ==
  LET Then(turn, dir) == PlayOnce(tiles, depth, beta, turn, dir) IN
  Then(Then(Then(Then([alpha |-> alpha, cut |-> FALSE, move |-> -1], kUp), kRight), kDown), kLeft)

\* A search that does not return at once is the loop over the four directions.
LEMMA SearchUnrolled ==
    ASSUME NEW tiles, NEW depth, NEW alpha, NEW beta, ~IsLeaf(tiles, depth)
    PROVE  MiniMaxSearch(tiles, depth, TRUE, alpha, beta)
             = PlayerEnds(PlayAll(tiles, depth, alpha, beta), beta)
<1> DEFINE start == [alpha |-> alpha, cut |-> FALSE, move |-> -1]
           Play(turn, dir) == PlayOnce(tiles, depth, beta, turn, dir)
           Def(g) == [n \in 0..4 |-> IF n = 0 THEN start ELSE Play(g[n - 1], n - 1)]
           t1 == Play(start, 0)
           t2 == Play(t1, 1)
           t3 == Play(t2, 2)
           t4 == Play(t3, 3)
           h == CHOOSE f : f = Def(f)
<1>1. MiniMaxSearch(tiles, depth, TRUE, alpha, beta) = PlayerEnds(h[4], beta)
  BY Zenon DEF MiniMaxSearch, SearchFrom, PlayOnce
<1>2. PlayAll(tiles, depth, alpha, beta) = t4
  BY Zenon DEF PlayAll, kUp, kRight, kDown, kLeft
<1> HIDE DEF Play, start
<1>3. \E g : g = Def(g)
  <2> DEFINE g == [n \in 0..4 |-> IF n = 0 THEN start ELSE IF n = 1 THEN t1 ELSE IF n = 2 THEN t2
                                  ELSE IF n = 3 THEN t3 ELSE t4]
  <2> HIDE DEF t1, t2, t3, t4
  <2>1. g[0] = start /\ g[1] = t1 /\ g[2] = t2 /\ g[3] = t3 /\ g[4] = t4
    OBVIOUS
  <2>2. ASSUME NEW n \in 0..4 PROVE g[n] = IF n = 0 THEN start ELSE Play(g[n - 1], n - 1)
    <3>1. CASE n = 0
      BY <2>1, <3>1
    <3>2. CASE n = 1
      BY <2>1, <3>2 DEF t1
    <3>3. CASE n = 2
      BY <2>1, <3>3 DEF t2
    <3>4. CASE n = 3
      BY <2>1, <3>4 DEF t3
    <3>5. CASE n = 4
      BY <2>1, <3>5 DEF t4
    <3> QED BY <3>1, <3>2, <3>3, <3>4, <3>5
  <2>3. g = [n \in 0..4 |-> g[n]]
    OBVIOUS
  <2> HIDE DEF g
  <2>4. g = Def(g)
    BY <2>2, <2>3
  <2> QED BY <2>4
<1>4. h = Def(h)
  <2> HIDE DEF Def
  <2> QED BY <1>3, Zenon
<1> HIDE DEF h
<1>5. h[0] = start /\ \A n \in 1..4 : h[n] = Play(h[n - 1], n - 1)
  BY <1>4
<1>6. h[1] = Play(h[0], 0) /\ h[2] = Play(h[1], 1) /\ h[3] = Play(h[2], 2) /\ h[4] = Play(h[3], 3)
  BY <1>5
<1>7. h[4] = t4
  BY <1>5, <1>6, Zenon
<1> QED BY <1>1, <1>2, <1>7, Zenon

\* A search finds no move, or one that can be made.
LEMMA SearchPlayable ==
    ASSUME NEW tiles, NEW depth, NEW alpha, NEW beta
    PROVE  LET found == MiniMaxSearch(tiles, depth, TRUE, alpha, beta)
           IN  found.move = -1 \/ Playable(tiles, found.move)
<1> DEFINE Play(turn, dir) == PlayOnce(tiles, depth, beta, turn, dir)
           t0 == [alpha |-> alpha, cut |-> FALSE, move |-> -1]
           t1 == Play(t0, kUp)
           t2 == Play(t1, kRight)
           t3 == Play(t2, kDown)
           t4 == Play(t3, kLeft)
           Good(turn) == turn.move = -1 \/ Playable(tiles, turn.move)
           found == MiniMaxSearch(tiles, depth, TRUE, alpha, beta)
<1>1. found.move = -1 \/ found.move = t4.move
  <2>1. CASE IsLeaf(tiles, depth)
    <3>1. found = [score |-> EvalAll(tiles), move |-> -1]
      BY <2>1, Zenon DEF MiniMaxSearch
    <3> HIDE DEF found, t4
    <3> QED BY <3>1
  <2>2. CASE ~IsLeaf(tiles, depth)
    <3>1. found = PlayerEnds(t4, beta)
      BY <2>2, SearchUnrolled, Zenon DEF PlayAll
    <3> HIDE DEF found, t4
    <3> QED BY <3>1 DEF PlayerEnds
  <2> QED BY <2>1, <2>2
<1>2. kUp \in Dirs /\ kRight \in Dirs /\ kDown \in Dirs /\ kLeft \in Dirs
  BY DEF Dirs, kUp, kRight, kDown, kLeft
<1>3. ASSUME NEW turn, NEW dir \in Dirs, Good(turn) PROVE Good(Play(turn, dir))
  BY <1>3, PlayerTryPlayable DEF PlayOnce
<1>4. Good(t0)
  OBVIOUS
<1> HIDE DEF Play, t0, Good
<1>5. Good(t1)
  BY <1>2, <1>3, <1>4
<1> HIDE DEF t1
<1>6. Good(t2)
  BY <1>2, <1>3, <1>5
<1> HIDE DEF t2
<1>7. Good(t3)
  BY <1>2, <1>3, <1>6
<1> HIDE DEF t3
<1>8. Good(t4)
  BY <1>2, <1>3, <1>7
<1> HIDE DEF t4, found
<1>9. Good(found)
  BY <1>1, <1>8 DEF Good
<1> QED BY <1>9, Zenon DEF Good, found

\* What is left of the searches GetPlayerBestMove makes.
Found == [best : Dirs, over : BOOLEAN]

IsDeepening(h, tiles, searches) ==
  /\ h \in [0..searches -> Found]
  /\ h[0] = [best |-> 0, over |-> FALSE]
  /\ \A n \in 1..searches : h[n] = Deepen(h[n - 1], MiniMaxSearch(tiles, n, TRUE, -INF, INF))
  /\ GetPlayerBestMove(tiles, searches) = h[searches].best

\* One search more: its move can be made and is taken, or the one before stays.
LEMMA DeepenKeeps ==
    ASSUME NEW tiles, NEW n, NEW x \in Found
    PROVE  LET search == MiniMaxSearch(tiles, n, TRUE, -INF, INF)
               next == Deepen(x, search)
           IN  /\ next \in Found /\ (next.best = x.best \/ Playable(tiles, next.best))
               /\ x.over = FALSE /\ search.move # -1 /\ search.score > -INF => Playable(tiles, next.best)
<1> DEFINE s == MiniMaxSearch(tiles, n, TRUE, -INF, INF)
<1>1. s.move = -1 \/ Playable(tiles, s.move)
  BY SearchPlayable, Zenon
<1> HIDE DEF s
<1>2. CASE x.over \/ s.move = -1
  <2>1. Deepen(x, s) = [x EXCEPT !.over = TRUE]
    BY <1>2 DEF Deepen
  <2>2. Deepen(x, s) \in Found /\ Deepen(x, s).best = x.best
    BY <2>1 DEF Found
  <2>3. ~(x.over = FALSE /\ s.move # -1)
    BY <1>2
  <2> QED BY <2>2, <2>3, Zenon DEF s
<1>3. CASE ~(x.over \/ s.move = -1)
  <2>1. Deepen(x, s) = [x EXCEPT !.best = IF s.score > -INF THEN s.move ELSE x.best]
    BY <1>3 DEF Deepen
  <2>2. Playable(tiles, s.move) /\ s.move \in Dirs
    BY <1>1, <1>3 DEF Playable
  <2>3. /\ Deepen(x, s) \in Found
        /\ Deepen(x, s).best = IF s.score > -INF THEN s.move ELSE x.best
    BY <2>1, <2>2 DEF Found
  <2>4. Deepen(x, s).best = x.best \/ Playable(tiles, Deepen(x, s).best)
    BY <2>2, <2>3
  <2>5. s.score > -INF => Playable(tiles, Deepen(x, s).best)
    BY <2>2, <2>3
  <2> QED BY <2>3, <2>4, <2>5, Zenon DEF s
<1> QED BY <1>2, <1>3, Zenon

\* GetPlayerBestMove is what its definition says.
LEMMA DeepeningExists ==
    ASSUME NEW tiles, NEW searches \in Nat
    PROVE  \E h : IsDeepening(h, tiles, searches)
<1> DEFINE At(depth) == MiniMaxSearch(tiles, depth, TRUE, -INF, INF)
           start == [best |-> 0, over |-> FALSE]
           F == [n \in 1..searches |-> [x \in Found |-> Deepen(x, At(n))]]
           Def(g) == [n \in 0..searches |-> IF n = 0 THEN start ELSE Deepen(g[n - 1], At(n))]
<1>1. start \in Found
  BY DEF Found, Dirs
<1>2. ASSUME NEW n, NEW x \in Found PROVE Deepen(x, At(n)) \in Found
  BY DeepenKeeps, Zenon
<1> HIDE DEF At
<1>3. F \in [1..searches -> [Found -> Found]]
  BY <1>2
<1>4. PICK g \in [0..searches -> Found] : g[0] = start /\ \A n \in 1..searches : g[n] = F[n][g[n - 1]]
  <2> HIDE DEF start, F
  <2>1. Solvable(searches, Found, start, F)
    BY <1>1, <1>3, RecursionExists
  <2> QED BY <2>1, Zenon DEF Solvable
<1>5. \A n \in 1..searches : g[n] = Deepen(g[n - 1], At(n))
  <2>1. \A n \in 1..searches : g[n - 1] \in Found
    OBVIOUS
  <2>2. \A n \in 1..searches, x \in Found : F[n][x] = Deepen(x, At(n))
    OBVIOUS
  <2> HIDE DEF F
  <2> QED BY <1>4, <2>1, <2>2
<1>6. g = Def(g)
  <2> HIDE DEF start
  <2> QED BY <1>4, <1>5
<1> HIDE DEF F
<1> DEFINE h == CHOOSE f : f = Def(f)
<1>7. h = Def(h)
  <2> HIDE DEF Def
  <2> QED BY <1>6, Zenon
<1>8. GetPlayerBestMove(tiles, searches) = h[searches].best
  BY Zenon DEF GetPlayerBestMove, At
<1> HIDE DEF h
<1>9. h[0] = start /\ \A n \in 1..searches : h[n] = Deepen(h[n - 1], At(n))
  <2> HIDE DEF start
  <2> QED BY <1>7
<1>10. h \in [0..searches -> Found]
  <2> HIDE DEF start
  <2> DEFINE S == {n \in Nat : n <= searches => h[n] \in Found}
  <2>1. 0 \in S
    BY <1>1, <1>9
  <2>2. ASSUME NEW n \in Nat, n \in S PROVE n + 1 \in S
    <3> SUFFICES ASSUME n + 1 <= searches PROVE h[n + 1] \in Found
      OBVIOUS
    <3>1. h[n] \in Found /\ n + 1 \in 1..searches /\ (n + 1) - 1 = n
      BY <2>2
    <3>2. h[n + 1] = Deepen(h[n], At(n + 1))
      BY <1>9, <3>1
    <3> QED BY <1>2, <3>1, <3>2
  <2> HIDE DEF S
  <2>3. \A n \in Nat : n \in S
    BY <2>1, <2>2, SetInduction
  <2>4. \A n \in 0..searches : h[n] \in Found
    BY <2>3 DEF S
  <2>5. h = [n \in 0..searches |-> IF n = 0 THEN start ELSE Deepen(h[n - 1], At(n))]
    BY <1>7
  <2> QED BY <2>4, <2>5
<1>11. IsDeepening(h, tiles, searches)
  BY <1>8, <1>9, <1>10, Zenon DEF IsDeepening, At
<1> QED BY <1>11

\* Searching deeper keeps a move that can be made, or UP.
LEMMA BestMovePlayable ==
    ASSUME NEW tiles, NEW searches \in Nat
    PROVE  LET best == GetPlayerBestMove(tiles, searches)
           IN  best = kUp \/ Playable(tiles, best)
<1>1. PICK h : IsDeepening(h, tiles, searches)
  BY DeepeningExists
<1> DEFINE Good(found) == found.best = kUp \/ Playable(tiles, found.best)
           S == {n \in 0..searches : Good(h[n])}
<1>2. 0 \in S
  BY <1>1 DEF IsDeepening, kUp
<1>3. ASSUME NEW n \in 0..(searches - 1), n \in S PROVE n + 1 \in S
  <2>1. n + 1 \in 1..searches /\ (n + 1) - 1 = n /\ n \in 0..searches /\ n + 1 \in 0..searches
    OBVIOUS
  <2>2. h[n] \in Found /\ h[n + 1] = Deepen(h[n], MiniMaxSearch(tiles, n + 1, TRUE, -INF, INF))
    BY <1>1, <2>1 DEF IsDeepening
  <2>3. h[n + 1].best = h[n].best \/ Playable(tiles, h[n + 1].best)
    BY <2>2, DeepenKeeps, Zenon
  <2> QED BY <1>3, <2>1, <2>3
<1>4. searches \in S
  <2> HIDE DEF S
  <2>1. \A n \in 0..searches : n \in S
    BY <1>2, <1>3, BoundedInduction
  <2> QED BY <2>1
<1> QED BY <1>1, <1>4 DEF IsDeepening

\* The greater of two scores.
LEMMA MaxOfTwo ==
    ASSUME NEW a \in Int, NEW b \in Int
    PROVE  Max({a, b}) \in Int /\ Max({a, b}) >= a /\ Max({a, b}) >= b
<1>1. \E x \in {a, b} : \A y \in {a, b} : x >= y
  OBVIOUS
<1>2. Max({a, b}) \in {a, b} /\ \A y \in {a, b} : Max({a, b}) >= y
  BY <1>1, Zenon DEF Max
<1> QED BY <1>2

\* After a search of depth 1 has tried some directions: none of them moves
\* anything, or it has found a move and raised alpha.
Tried(turn, tiles, dirs) ==
  /\ turn.move = -1 => /\ turn.alpha = -INF /\ turn.cut = FALSE
                       /\ \A d \in dirs : ~TryMove(tiles, d).can_move
  /\ turn.move # -1 => turn.alpha \in Int /\ turn.alpha > -INF

LEMMA PlayerTryFinds ==
    ASSUME NEW tiles \in Tiles, NEW turn, NEW dirs, NEW dir \in Dirs, NEW score \in Int, score > -INF,
           NEW beta, Tried(turn, tiles, dirs)
    PROVE  Tried(PlayerTry(turn, dir, TryMove(tiles, dir), score, beta), tiles, dirs \cup {dir})
<1> DEFINE next == PlayerTry(turn, dir, TryMove(tiles, dir), score, beta)
           alpha == Max({turn.alpha, score})
<1>1. -INF \in Int /\ dir # -1
  BY DEF INF, Dirs
<1>2. CASE turn.cut \/ ~TryMove(tiles, dir).can_move
  <2>1. next = turn
    BY <1>2, Zenon DEF PlayerTry
  <2>2. turn.move = -1 => ~TryMove(tiles, dir).can_move
    BY <1>2 DEF Tried
  <2> HIDE DEF next
  <2> QED BY <2>1, <2>2 DEF Tried, next
<1>3. CASE ~(turn.cut \/ ~TryMove(tiles, dir).can_move)
  <2>1. next = [alpha |-> alpha, cut |-> beta <= alpha,
                move |-> IF score > turn.alpha THEN dir ELSE turn.move]
    BY <1>3, Zenon DEF PlayerTry
  <2>2. turn.alpha \in Int
    BY <1>1 DEF Tried
  <2>3. alpha \in Int /\ alpha >= score
    BY <2>2, MaxOfTwo
  <2> HIDE DEF next, alpha
  <2>4. next.alpha \in Int /\ next.alpha > -INF
    BY <1>1, <2>1, <2>3
  <2>5. next.move # -1
    <3>1. next.move = IF score > turn.alpha THEN dir ELSE turn.move
      BY <2>1
    <3> QED BY <1>1, <3>1 DEF Tried
  <2> QED BY <2>4, <2>5 DEF Tried, next
<1> QED BY <1>2, <1>3

\* The first search finds a move if there is one: no board is worth -INF.
LEMMA FirstSearch ==
    ASSUME NEW tiles \in Tiles, \A p \in Cells : tiles[p] < WinTile, CanMove(tiles)
    PROVE  LET search == MiniMaxSearch(tiles, 1, TRUE, -INF, INF)
           IN  search.move # -1 /\ search.score > -INF
<1> DEFINE Play(turn, dir) == PlayOnce(tiles, 1, INF, turn, dir)
           t0 == [alpha |-> -INF, cut |-> FALSE, move |-> -1]
           t1 == Play(t0, kUp)
           t2 == Play(t1, kRight)
           t3 == Play(t2, kDown)
           t4 == Play(t3, kLeft)
           found == MiniMaxSearch(tiles, 1, TRUE, -INF, INF)
<1>1. found = PlayerEnds(t4, INF)
  <2>1. \A p \in Cells : tiles[p] # WinTile
    BY BoardAssumption DEF Tiles
  <2>2. ~IsLeaf(tiles, 1)
    BY <2>1 DEF IsLeaf, IsWin
  <2> QED BY <2>2, SearchUnrolled, Zenon DEF PlayAll
<1>2. kUp \in Dirs /\ kRight \in Dirs /\ kDown \in Dirs /\ kLeft \in Dirs /\ Dirs = {kUp, kRight, kDown, kLeft}
  BY DEF Dirs, kUp, kRight, kDown, kLeft
<1>3. ASSUME NEW dir \in Dirs, NEW alpha, NEW score,
             score = ScoreBelow(TryMove(tiles, dir).tiles, 1 - 1, FALSE, alpha, INF)
      PROVE  score \in Int /\ score > -INF
  <2> DEFINE b == TryMove(tiles, dir).tiles
  <2>1. WinTile - 1 \in Nat /\ WinTile \in Nat
    BY BoardAssumption
  <2>2. \A p \in Cells : tiles[p] <= WinTile - 1
    BY <2>1 DEF Tiles
  <2>3. b \in Tiles /\ \A p \in Cells : b[p] <= (WinTile - 1) + 1
    BY <2>1, <2>2, TryMoveType, TryMoveBound
  <2> HIDE DEF b
  <2>4. b \in [Cells -> 0..WinTile]
    BY <2>1, <2>3 DEF Tiles
  <2>5. IsLeaf(b, 1 - 1)
    BY DEF IsLeaf
  <2>6. score = EvalAll(b)
    BY <1>3, <2>5, Zenon DEF ScoreBelow, b
  <2> QED BY <2>4, <2>6, EvalAssumption
<1>4. ASSUME NEW turn, NEW dir \in Dirs, NEW dirs, Tried(turn, tiles, dirs)
      PROVE  Tried(Play(turn, dir), tiles, dirs \cup {dir})
  BY <1>3, <1>4, PlayerTryFinds DEF PlayOnce
<1>5. Tried(t0, tiles, {})
  BY DEF Tried
<1> HIDE DEF Play, t0
<1>6. Tried(t1, tiles, {} \cup {kUp})
  BY <1>2, <1>4, <1>5
<1> HIDE DEF t1
<1>7. Tried(t2, tiles, ({} \cup {kUp}) \cup {kRight})
  BY <1>2, <1>4, <1>6
<1> HIDE DEF t2
<1>8. Tried(t3, tiles, (({} \cup {kUp}) \cup {kRight}) \cup {kDown})
  BY <1>2, <1>4, <1>7
<1> HIDE DEF t3
<1>9. Tried(t4, tiles, ((({} \cup {kUp}) \cup {kRight}) \cup {kDown}) \cup {kLeft})
  BY <1>2, <1>4, <1>8
<1> HIDE DEF t4
<1>10. t4.move # -1
  BY <1>2, <1>9 DEF Tried, CanMove
<1>11. t4.alpha \in Int /\ t4.alpha > -INF /\ INF > -INF
  BY <1>9, <1>10 DEF Tried, INF
<1> HIDE DEF found
<1>12. found.move # -1 /\ found.score > -INF
  BY <1>1, <1>10, <1>11 DEF PlayerEnds
<1> QED BY <1>12, Zenon DEF found

\* With time for a search, a direction in which nothing moves is the answer only
\* if there is no other.
LEMMA SearchFindsMove ==
    ASSUME NEW tiles \in Tiles, \A p \in Cells : tiles[p] < WinTile, NEW searches \in Nat \ {0}
    PROVE  TryMove(tiles, GetPlayerBestMove(tiles, searches)).can_move \/ ~CanMove(tiles)
<1> SUFFICES ASSUME CanMove(tiles) PROVE Playable(tiles, GetPlayerBestMove(tiles, searches))
  BY Zenon DEF Playable
<1>1. PICK h : IsDeepening(h, tiles, searches)
  BY DeepeningExists
<1> DEFINE S == {n \in 0..searches : n = 0 \/ Playable(tiles, h[n].best)}
<1>2. 0 \in S
  OBVIOUS
<1>3. ASSUME NEW n \in 0..(searches - 1), n \in S PROVE n + 1 \in S
  <2>1. n + 1 \in 1..searches /\ (n + 1) - 1 = n /\ n \in 0..searches /\ n + 1 \in 0..searches
    OBVIOUS
  <2>2. h[n] \in Found /\ h[n + 1] = Deepen(h[n], MiniMaxSearch(tiles, n + 1, TRUE, -INF, INF))
    BY <1>1, <2>1 DEF IsDeepening
  <2>3. CASE n # 0
    <3>1. h[n + 1].best = h[n].best \/ Playable(tiles, h[n + 1].best)
      BY <2>2, DeepenKeeps, Zenon
    <3> QED BY <1>3, <2>1, <2>3, <3>1
  <2>4. CASE n = 0
    <3>6. n + 1 = 1
      BY <2>4
    <3>1. h[1] = Deepen(h[0], MiniMaxSearch(tiles, 1, TRUE, -INF, INF)) /\ h[0] \in Found
      BY <2>2, <2>4, <3>6, Zenon
    <3>2. h[0].over = FALSE
      BY <1>1 DEF IsDeepening
    <3> DEFINE search == MiniMaxSearch(tiles, 1, TRUE, -INF, INF)
    <3>3. search.move # -1 /\ search.score > -INF
      BY FirstSearch, Zenon
    <3>5. h[0].over = FALSE /\ search.move # -1 /\ search.score > -INF =>
            Playable(tiles, Deepen(h[0], search).best)
      BY <3>1, DeepenKeeps, Zenon
    <3> HIDE DEF search
    <3>4. Playable(tiles, h[1].best)
      BY <3>1, <3>2, <3>3, <3>5 DEF search
    <3> QED BY <2>1, <2>4, <3>4
  <2> QED BY <2>3, <2>4
<1>4. searches \in S
  <2> HIDE DEF S
  <2>1. \A n \in 0..searches : n \in S
    BY <1>2, <1>3, BoundedInduction
  <2> QED BY <2>1
<1> QED BY <1>1, <1>4 DEF IsDeepening

-------------------------------------------------------------------------------
\* A new tile's logarithm is what the server takes it for.
LEMMA NewTiles == lg2(2) = 1 /\ lg2(4) = 2
<1>1. \A k \in 0..2 : (2 ^ k <= 2 /\ 2 < 2 ^ (k + 1)) <=> k = 1
  <2> SUFFICES ASSUME NEW k \in 0..2 PROVE (2 ^ k <= 2 /\ 2 < 2 ^ (k + 1)) <=> k = 1
    OBVIOUS
  <2>1. CASE k = 0
    <3>1. k + 1 = 1 /\ 2 ^ 0 = 1 /\ 2 ^ 1 = 2
      BY <2>1
    <3>2. 2 ^ k = 1 /\ 2 ^ (k + 1) = 2
      BY <2>1, <3>1
    <3> QED BY <2>1, <3>2
  <2>2. CASE k = 1
    <3>1. k + 1 = 2 /\ 2 ^ 1 = 2 /\ 2 ^ 2 = 4
      BY <2>2
    <3>2. 2 ^ k = 2 /\ 2 ^ (k + 1) = 4
      BY <2>2, <3>1
    <3> QED BY <2>2, <3>2
  <2>3. CASE k = 2
    <3>1. k + 1 = 3 /\ 2 ^ 2 = 4 /\ 2 ^ 3 = 8
      BY <2>3
    <3>2. 2 ^ k = 4 /\ 2 ^ (k + 1) = 8
      BY <2>3, <3>1
    <3> QED BY <2>3, <3>2
  <2> QED BY <2>1, <2>2, <2>3
<1>2. lg2(2) = 1
  BY <1>1 DEF lg2
<1>3. \A k \in 0..4 : (2 ^ k <= 4 /\ 4 < 2 ^ (k + 1)) <=> k = 2
  <2> SUFFICES ASSUME NEW k \in 0..4 PROVE (2 ^ k <= 4 /\ 4 < 2 ^ (k + 1)) <=> k = 2
    OBVIOUS
  <2>1. CASE k = 0
    <3>1. k + 1 = 1 /\ 2 ^ 0 = 1 /\ 2 ^ 1 = 2
      BY <2>1
    <3>2. 2 ^ k = 1 /\ 2 ^ (k + 1) = 2
      BY <2>1, <3>1
    <3> QED BY <2>1, <3>2
  <2>2. CASE k = 1
    <3>1. k + 1 = 2 /\ 2 ^ 1 = 2 /\ 2 ^ 2 = 4
      BY <2>2
    <3>2. 2 ^ k = 2 /\ 2 ^ (k + 1) = 4
      BY <2>2, <3>1
    <3> QED BY <2>2, <3>2
  <2>3. CASE k = 2
    <3>1. k + 1 = 3 /\ 2 ^ 2 = 4 /\ 2 ^ 3 = 8
      BY <2>3
    <3>2. 2 ^ k = 4 /\ 2 ^ (k + 1) = 8
      BY <2>3, <3>1
    <3> QED BY <2>3, <3>2
  <2>4. CASE k = 3
    <3>1. k + 1 = 4 /\ 2 ^ 3 = 8 /\ 2 ^ 4 = 16
      BY <2>4
    <3>2. 2 ^ k = 8 /\ 2 ^ (k + 1) = 16
      BY <2>4, <3>1
    <3> QED BY <2>4, <3>2
  <2>5. CASE k = 4
    <3>1. k + 1 = 5 /\ 2 ^ 4 = 16 /\ 2 ^ 5 = 32
      BY <2>5
    <3>2. 2 ^ k = 16 /\ 2 ^ (k + 1) = 32
      BY <2>5, <3>1
    <3> QED BY <2>5, <3>2
  <2> QED BY <2>1, <2>2, <2>3, <2>4, <2>5
<1>4. lg2(4) = 2
  BY <1>3 DEF lg2
<1> QED BY <1>2, <1>4

\* What the server makes of a board that differs from its own by new tiles.
LEMMA TakesOver ==
    ASSUME NEW tiles \in Tiles, NEW board \in Tiles,
           \A p \in Cells : board[p] = tiles[p] \/ (tiles[p] = 0 /\ board[p] \in {1, 2})
    PROVE  AddComputerMove(tiles, GetAllTiles(board)) = board
<1> DEFINE grid == GetAllTiles(board)
           Over(p) == IF tiles[p] = 0 /\ grid[p] > 0 THEN lg2(grid[p]) ELSE tiles[p]
<1>1. ASSUME NEW p \in Cells PROVE Over(p) = board[p]
  <2>1. grid[p] = IF board[p] > 0 THEN 2 ^ board[p] ELSE 0
    BY DEF GetAllTiles
  <2> HIDE DEF grid
  <2>2. board[p] \in Nat /\ tiles[p] \in Nat
    BY DEF Tiles
  <2>3. CASE tiles[p] # 0
    BY <2>3
  <2>4. CASE tiles[p] = 0 /\ board[p] = 0
    BY <2>1, <2>4
  <2>5. CASE tiles[p] = 0 /\ board[p] = 1
    <3>1. 2 ^ 1 = 2
      OBVIOUS
    <3>2. grid[p] = 2
      BY <2>1, <2>5, <3>1
    <3> QED BY <2>5, <3>2, NewTiles
  <2>6. CASE tiles[p] = 0 /\ board[p] = 2
    <3>1. 2 ^ 2 = 4
      OBVIOUS
    <3>2. grid[p] = 4
      BY <2>1, <2>6, <3>1
    <3> QED BY <2>6, <3>2, NewTiles
  <2> QED BY <2>2, <2>3, <2>4, <2>5, <2>6
<1>2. AddComputerMove(tiles, grid) = [p \in Cells |-> Over(p)]
  BY DEF AddComputerMove
<1>3. board = [p \in Cells |-> board[p]]
  BY DEF Tiles
<1> HIDE DEF Over
<1> QED BY <1>1, <1>2, <1>3

\* The boards AddRandTile makes.
LEMMA RandTile ==
    ASSUME NEW tiles \in Tiles, NEW board \in AddRandTile(tiles)
    PROVE  /\ board \in Tiles
           /\ \A p \in Cells : board[p] = tiles[p] \/ (tiles[p] = 0 /\ board[p] \in {1, 2})
<1>1. CASE GetAllEmptyPos(tiles) = {}
  BY <1>1 DEF AddRandTile
<1>2. CASE GetAllEmptyPos(tiles) # {}
  <2>1. PICK p \in GetAllEmptyPos(tiles), v \in {1, 2} : board = [tiles EXCEPT ![p] = v]
    BY <1>2 DEF AddRandTile
  <2>2. p \in Cells /\ tiles[p] = 0
    BY DEF GetAllEmptyPos
  <2> QED BY <2>1, <2>2 DEF Tiles
<1> QED BY <1>1, <1>2

\* An empty board is a board.
LEMMA EmptyBoardType == EmptyBoard \in Tiles /\ \A p \in Cells : EmptyBoard[p] = 0
BY DEF EmptyBoard, Tiles

-------------------------------------------------------------------------------
\* A sequence of five units.
FiveUnits(f) == f \in Seq({f[i] : i \in 1..5}) /\ Len(f) = 5

\* The fields of a frame.
Fields(f, len, nameLen, typeName, data, checkSum) ==
  /\ FiveUnits(f) /\ f[1].value = len /\ f[2].value = nameLen /\ f[3].value = typeName
  /\ f[4].value = data /\ f[5].value = checkSum
  /\ f[4].field = "data" /\ f[5].field = "checkSum"

LEMMA FrameFacts ==
    ASSUME NEW a, NEW b, NEW c, NEW d, NEW e
    PROVE  Fields(Frame(a, b, c, d, e), a, b, c, d, e)
BY DEF Fields, FiveUnits, Frame, Unit

\* The first i units of a frame have been read, the others are on their way.
InTransit(f, buf, rest) == \E i \in 0..4 : buf = SubSeq(f, 1, i) /\ rest = SubSeq(f, i + 1, 5)

IsFrame(f) == \E a, b, c, d, e : f = Frame(a, b, c, d, e)

\* What SubSeq takes.
LEMMA SubSeqIs ==
    ASSUME NEW S, NEW s \in Seq(S), NEW lo \in Nat, NEW hi \in Nat,
           1 <= lo, hi <= Len(s), lo <= hi + 1
    PROVE  /\ SubSeq(s, lo, hi) \in Seq(S) /\ Len(SubSeq(s, lo, hi)) = hi - lo + 1
           /\ \A k \in 1..(hi - lo + 1) : SubSeq(s, lo, hi)[k] = s[lo + k - 1]
<1>1. \A k \in lo..hi : s[k] \in S
  OBVIOUS
<1>2. /\ SubSeq(s, lo, hi) \in Seq(S)
      /\ Len(SubSeq(s, lo, hi)) = IF lo <= hi THEN hi - lo + 1 ELSE 0
      /\ \A k \in 1..(hi - lo + 1) : SubSeq(s, lo, hi)[k] = s[lo + k - 1]
  BY <1>1, SubSeqProperties
<1> QED BY <1>2

\* What one read makes of a frame on its way.
LEMMA ReadOn ==
    ASSUME NEW S, NEW f \in Seq(S), Len(f) = 5, NEW i \in 0..4, NEW n \in 1..(5 - i)
    PROVE  /\ SubSeq(f, 1, i) \o SubSeq(SubSeq(f, i + 1, 5), 1, n) = SubSeq(f, 1, i + n)
           /\ SubSeq(SubSeq(f, i + 1, 5), n + 1, 5 - i) = SubSeq(f, i + n + 1, 5)
           /\ Len(SubSeq(f, 1, i)) = i /\ Len(SubSeq(f, i + 1, 5)) = 5 - i
           /\ Len(SubSeq(f, 1, i + n)) = i + n
<1> DEFINE x == SubSeq(f, 1, i)
           y == SubSeq(f, i + 1, 5)
           y1 == SubSeq(y, 1, n)
           y2 == SubSeq(y, n + 1, 5 - i)
           z == SubSeq(f, 1, i + n)
           w == SubSeq(f, i + n + 1, 5)
<1>1. x \in Seq(S) /\ Len(x) = i /\ \A k \in 1..(i) : x[k] = f[k]
  <2>1. i - 1 + 1 = i /\ 1 \in Nat /\ i \in Nat /\ 1 <= 1 /\ i <= Len(f) /\ 1 <= i + 1
    OBVIOUS
  <2>2. /\ x \in Seq(S) /\ Len(x) = i - 1 + 1
        /\ \A k \in 1..(i - 1 + 1) : x[k] = f[1 + k - 1]
    BY <2>1, SubSeqIs
  <2>3. \A k \in 1..(i) : 1 + k - 1 = k
    OBVIOUS
  <2> HIDE DEF x
  <2> QED BY <2>1, <2>2, <2>3
<1>2. y \in Seq(S) /\ Len(y) = 5 - i /\ \A k \in 1..(5 - i) : y[k] = f[i + k]
  <2>1. 5 - (i + 1) + 1 = 5 - i /\ i + 1 \in Nat /\ 5 \in Nat /\ 1 <= i + 1 /\ 5 <= Len(f) /\ i + 1 <= 5 + 1
    OBVIOUS
  <2>2. /\ y \in Seq(S) /\ Len(y) = 5 - (i + 1) + 1
        /\ \A k \in 1..(5 - (i + 1) + 1) : y[k] = f[i + 1 + k - 1]
    BY <2>1, SubSeqIs
  <2>3. \A k \in 1..(5 - i) : i + 1 + k - 1 = i + k
    OBVIOUS
  <2> HIDE DEF y
  <2> QED BY <2>1, <2>2, <2>3
<1>3. z \in Seq(S) /\ Len(z) = i + n /\ \A k \in 1..(i + n) : z[k] = f[k]
  <2> DEFINE j == i + n
             v == SubSeq(f, 1, j)
  <2>1. j \in Nat /\ j <= Len(f) /\ 1 <= j + 1 /\ 1 \in Nat /\ 1 <= 1
    OBVIOUS
  <2> HIDE DEF j
  <2>2. v \in Seq(S) /\ Len(v) = j - 1 + 1 /\ \A k \in 1..(j - 1 + 1) : v[k] = f[1 + k - 1]
    BY <2>1, SubSeqIs
  <2>3. j - 1 + 1 = j /\ \A k \in 1..j : 1 + k - 1 = k
    BY <2>1
  <2> HIDE DEF v
  <2>4. v \in Seq(S) /\ Len(v) = j /\ \A k \in 1..j : v[k] = f[k]
    BY <2>2, <2>3
  <2> QED BY <2>4, Zenon DEF v, j
<1>4. w \in Seq(S) /\ Len(w) = 5 - i - n /\ \A k \in 1..(5 - i - n) : w[k] = f[i + n + k]
  <2>1. 5 - (i + n + 1) + 1 = 5 - i - n /\ i + n + 1 \in Nat /\ 5 \in Nat /\ 1 <= i + n + 1 /\ 5 <= Len(f) /\ i + n + 1 <= 5 + 1
    OBVIOUS
  <2>2. /\ w \in Seq(S) /\ Len(w) = 5 - (i + n + 1) + 1
        /\ \A k \in 1..(5 - (i + n + 1) + 1) : w[k] = f[i + n + 1 + k - 1]
    BY <2>1, SubSeqIs
  <2>3. \A k \in 1..(5 - i - n) : i + n + 1 + k - 1 = i + n + k
    OBVIOUS
  <2> HIDE DEF w
  <2> QED BY <2>1, <2>2, <2>3
<1> HIDE DEF x, y, z, w
<1>5. y1 \in Seq(S) /\ Len(y1) = n /\ \A k \in 1..(n) : y1[k] = y[k]
  <2>1. n - 1 + 1 = n /\ 1 \in Nat /\ n \in Nat /\ 1 <= 1 /\ n <= Len(y) /\ 1 <= n + 1
    BY <1>2
  <2>2. /\ y1 \in Seq(S) /\ Len(y1) = n - 1 + 1
        /\ \A k \in 1..(n - 1 + 1) : y1[k] = y[1 + k - 1]
    BY <1>2, <2>1, SubSeqIs
  <2>3. \A k \in 1..(n) : 1 + k - 1 = k
    OBVIOUS
  <2> HIDE DEF y1
  <2> QED BY <2>1, <2>2, <2>3
<1>6. y2 \in Seq(S) /\ Len(y2) = 5 - i - n /\ \A k \in 1..(5 - i - n) : y2[k] = y[n + k]
  <2>1. 5 - i - (n + 1) + 1 = 5 - i - n /\ n + 1 \in Nat /\ 5 - i \in Nat /\ 1 <= n + 1 /\ 5 - i <= Len(y) /\ n + 1 <= 5 - i + 1
    BY <1>2
  <2>2. /\ y2 \in Seq(S) /\ Len(y2) = 5 - i - (n + 1) + 1
        /\ \A k \in 1..(5 - i - (n + 1) + 1) : y2[k] = y[n + 1 + k - 1]
    BY <1>2, <2>1, SubSeqIs
  <2>3. \A k \in 1..(5 - i - n) : n + 1 + k - 1 = n + k
    OBVIOUS
  <2> HIDE DEF y2
  <2> QED BY <2>1, <2>2, <2>3
<1> HIDE DEF y1, y2
<1>7. y2 = w
  <2>1. ASSUME NEW k \in 1..(5 - i - n) PROVE y2[k] = w[k]
    <3>1. n + k \in 1..(5 - i) /\ i + (n + k) = i + n + k
      OBVIOUS
    <3>2. y2[k] = f[i + n + k]
      BY <1>2, <1>6, <3>1
    <3> QED BY <1>4, <3>2
  <2> QED BY <1>4, <1>6, <2>1
<1>8. x \o y1 = z
  <2>1. x \o y1 \in Seq(S) /\ Len(x \o y1) = i + n
    BY <1>1, <1>5
  <2>2. ASSUME NEW k \in 1..(i + n) PROVE (x \o y1)[k] = z[k]
    <3>1. CASE k <= i
      BY <1>1, <1>3, <1>5, <3>1
    <3>2. CASE k > i
      <4>1. (x \o y1)[k] = y1[k - i]
        BY <1>1, <1>5, <3>2
      <4>2. k - i \in 1..n /\ k - i \in 1..(5 - i) /\ i + (k - i) = k
        BY <3>2
      <4>3. y1[k - i] = f[i + (k - i)]
        BY <1>2, <1>5, <4>2
      <4> QED BY <1>3, <4>1, <4>2, <4>3
    <3>3. k <= i \/ k > i
      OBVIOUS
    <3> QED BY <3>1, <3>2, <3>3, Zenon
  <2> QED BY <1>3, <2>1, <2>2
<1> QED BY <1>1, <1>2, <1>3, <1>7, <1>8 DEF x, y, y1, y2, z, w

\* A read brings some of what is on its way.
LEMMA ReadsType ==
    ASSUME NEW stream, Len(stream) \in Nat, NEW n \in Reads(stream)
    PROVE  n \in 1..Len(stream)
BY GameAssumption DEF Reads

\* A frame of which too little has been read waits.
LEMMA FrameWaits ==
    ASSUME NEW f, NEW S, f \in Seq(S), Len(f) = 5, f[1].value = 4, NEW i \in 1..4
    PROVE  onMessage(SubSeq(f, 1, i)) = [result |-> "wait", rest |-> SubSeq(f, 1, i)]
<1> DEFINE buf == SubSeq(f, 1, i)
<1>1. Len(buf) = i /\ buf[1] = f[1]
  <2>1. 1 \in Nat /\ i \in Nat /\ 1 <= 1 /\ i <= Len(f) /\ 1 <= i + 1
    OBVIOUS
  <2>2. Len(buf) = i - 1 + 1 /\ \A k \in 1..(i - 1 + 1) : buf[k] = f[1 + k - 1]
    BY <2>1, SubSeqIs
  <2> HIDE DEF buf
  <2> QED BY <2>2
<1> HIDE DEF buf
<1>2. buf[1].value = 4
  BY <1>1
<1>3. ~(4 > kMaxMessageLen \/ 4 < kMinMessageLen) /\ kMinMessageLen = 3 /\ kHeaderLen = 1
  BY GameAssumption DEF kMinMessageLen, kHeaderLen
<1>4. Len(buf) < kMinMessageLen + kHeaderLen \/ Len(buf) < 4 + kHeaderLen
  BY <1>1, <1>3
<1>5. onMessage(buf) = [result |-> "wait", rest |-> buf]
  BY <1>2, <1>3, <1>4 DEF onMessage
<1> QED BY <1>5 DEF buf

\* A frame whose length is out of bounds is refused, or waits.
LEMMA FrameTooLong ==
    ASSUME NEW f, NEW S, f \in Seq(S), Len(f) = 5, f[1].value \in Nat,
           f[1].value > kMaxMessageLen \/ f[1].value < 3, NEW i \in 1..5
    PROVE  LET got == onMessage(SubSeq(f, 1, i))
           IN  got.rest = SubSeq(f, 1, i) /\ got.result = IF i < 4 THEN "wait" ELSE "kInvalidLength"
<1> DEFINE buf == SubSeq(f, 1, i)
<1>1. Len(buf) = i /\ buf[1] = f[1]
  <2>1. 1 \in Nat /\ i \in Nat /\ 1 <= 1 /\ i <= Len(f) /\ 1 <= i + 1
    OBVIOUS
  <2>2. Len(buf) = i - 1 + 1 /\ \A k \in 1..(i - 1 + 1) : buf[k] = f[1 + k - 1]
    BY <2>1, SubSeqIs
  <2> HIDE DEF buf
  <2> QED BY <2>2
<1> HIDE DEF buf
<1>2. kMinMessageLen = 3 /\ kHeaderLen = 1
  BY DEF kMinMessageLen, kHeaderLen
<1>3. CASE i < 4
  <2>1. onMessage(buf) = [result |-> "wait", rest |-> buf]
    BY <1>1, <1>2, <1>3 DEF onMessage
  <2> QED BY <1>3, <2>1 DEF buf
<1>4. CASE ~(i < 4)
  <2>1. onMessage(buf) = [result |-> "kInvalidLength", rest |-> buf]
    BY <1>1, <1>2, <1>4 DEF onMessage
  <2> QED BY <1>4, <2>1 DEF buf
<1> QED BY <1>3, <1>4

\* A frame whose length is one short takes its data for the check sum, or waits.
LEMMA FrameTooShort ==
    ASSUME NEW f, NEW S, f \in Seq(S), Len(f) = 5, f[1].value = 3, f[4].field = "data", NEW i \in 1..5
    PROVE  LET got == onMessage(SubSeq(f, 1, i))
           IN  got.rest = SubSeq(f, 1, i) /\ got.result = IF i < 4 THEN "wait" ELSE "kCheckSumError"
<1> DEFINE buf == SubSeq(f, 1, i)
<1>1. buf \in Seq(S) /\ Len(buf) = i /\ \A k \in 1..i : buf[k] = f[k]
  <2>1. 1 \in Nat /\ i \in Nat /\ 1 <= 1 /\ i <= Len(f) /\ 1 <= i + 1 /\ i - 1 + 1 = i
    OBVIOUS
  <2>2. /\ buf \in Seq(S) /\ Len(buf) = i - 1 + 1
        /\ \A k \in 1..(i - 1 + 1) : buf[k] = f[1 + k - 1]
    BY <2>1, SubSeqIs
  <2>3. \A k \in 1..i : 1 + k - 1 = k
    OBVIOUS
  <2> HIDE DEF buf
  <2> QED BY <2>1, <2>2, <2>3
<1> HIDE DEF buf
<1>2. kMinMessageLen = 3 /\ kHeaderLen = 1 /\ buf[1].value = 3 /\ ~(3 > kMaxMessageLen)
  BY <1>1, GameAssumption DEF kMinMessageLen, kHeaderLen
<1>3. CASE i < 4
  <2>1. onMessage(buf) = [result |-> "wait", rest |-> buf]
    BY <1>1, <1>2, <1>3 DEF onMessage
  <2> QED BY <1>3, <2>1 DEF buf
<1>4. CASE ~(i < 4)
  <2> DEFINE g == SubSeq(buf, 2, 4)
  <2>1. Len(g) = 3 /\ g[3] = f[4]
    <3>1. 2 \in Nat /\ 4 \in Nat /\ 1 <= 2 /\ 4 <= Len(buf) /\ 2 <= 4 + 1 /\ 4 \in 1..i
      BY <1>1, <1>4
    <3>2. Len(g) = 4 - 2 + 1 /\ \A k \in 1..(4 - 2 + 1) : g[k] = buf[2 + k - 1]
      BY <1>1, <3>1, SubSeqIs
    <3> HIDE DEF g
    <3> QED BY <1>1, <3>1, <3>2
  <2> HIDE DEF g
  <2>2. parse(g) = "kCheckSumError"
    BY <2>1 DEF parse
  <2>3. kHeaderLen + 1 = 2 /\ kHeaderLen + 3 = 4 /\ ~(Len(buf) < 4) /\ kMinMessageLen + kHeaderLen = 4
        /\ 3 + kHeaderLen = 4
    BY <1>1, <1>2, <1>4
  <2>4. onMessage(buf) = [result |-> "kCheckSumError", rest |-> buf]
    BY <1>2, <2>2, <2>3 DEF onMessage, g
  <2> QED BY <1>4, <2>4 DEF buf
<1> QED BY <1>3, <1>4

\* A frame that announces more than it brings is waited for.
LEMMA FrameUnfinished ==
    ASSUME NEW f, NEW S, f \in Seq(S), Len(f) = 5, f[1].value \in 5..kMaxMessageLen, NEW i \in 1..5
    PROVE  onMessage(SubSeq(f, 1, i)) = [result |-> "wait", rest |-> SubSeq(f, 1, i)]
<1> DEFINE buf == SubSeq(f, 1, i)
<1>1. Len(buf) = i /\ buf[1] = f[1]
  <2>1. 1 \in Nat /\ i \in Nat /\ 1 <= 1 /\ i <= Len(f) /\ 1 <= i + 1
    OBVIOUS
  <2>2. Len(buf) = i - 1 + 1 /\ \A k \in 1..(i - 1 + 1) : buf[k] = f[1 + k - 1]
    BY <2>1, SubSeqIs
  <2> HIDE DEF buf
  <2> QED BY <2>2
<1> HIDE DEF buf
<1> DEFINE l == buf[1].value
<1>2. l \in 5..kMaxMessageLen
  BY <1>1
<1> HIDE DEF l
<1>3. ~(l > kMaxMessageLen \/ l < kMinMessageLen) /\ Len(buf) < l + kHeaderLen
  BY <1>1, <1>2, GameAssumption DEF kMinMessageLen, kHeaderLen
<1>4. onMessage(buf) = [result |-> "wait", rest |-> buf]
  BY <1>3 DEF onMessage, l
<1> QED BY <1>4 DEF buf

\* A frame with its name, its type, its data and its check sum in order.
Sound(f) ==
  /\ f[5].value /\ f[2].value \in 1..2
  /\ f[3].value \in KnownTypes /\ f[4].value.type = f[3].value

\* A whole frame is a message if it is sound and an error otherwise.
LEMMA FrameWhole ==
    ASSUME NEW f, NEW S, f \in Seq(S), Len(f) = 5, f[1].value = 4, f[5].value \in BOOLEAN,
           f[5].field = "checkSum"
    PROVE  /\ Sound(f) => onMessage(f) = [result |-> "message", message |-> f[4].value, rest |-> <<>>]
           /\ ~Sound(f) => /\ onMessage(f).rest = f
                           /\ onMessage(f).result \notin {"wait", "message"}
<1> DEFINE g == SubSeq(f, 2, 5)
           error == parse(g)
<1>1. Len(g) = 4 /\ g[1] = f[2] /\ g[2] = f[3] /\ g[3] = f[4] /\ g[4] = f[5]
  <2>1. 2 \in Nat /\ 5 \in Nat /\ 1 <= 2 /\ 5 <= Len(f) /\ 2 <= 5 + 1
    OBVIOUS
  <2>2. Len(g) = 5 - 2 + 1 /\ \A k \in 1..(5 - 2 + 1) : g[k] = f[2 + k - 1]
    BY <2>1, SubSeqIs
  <2> HIDE DEF g
  <2> QED BY <2>2
<1> HIDE DEF g
<1>2. kMinMessageLen = 3 /\ kHeaderLen = 1 /\ 4 - 2 * kHeaderLen = 2
  BY DEF kMinMessageLen, kHeaderLen
<1>3. Sound(f) <=> error = "kNoError"
  BY <1>1, <1>2 DEF parse, Sound
<1>4. error \notin {"wait", "message"}
  BY <1>1, <1>2 DEF parse
<1> HIDE DEF error
<1>5. onMessage(f) = IF error # "kNoError" THEN [result |-> error, rest |-> f]
                     ELSE [result |-> "message", message |-> f[4].value, rest |-> SubSeq(f, 6, 5)]
  <2>1. ~(4 > kMaxMessageLen \/ 4 < kMinMessageLen) /\ kHeaderLen + 4 = 5 /\ kHeaderLen + 4 + 1 = 6
        /\ kHeaderLen + 1 = 2 /\ kHeaderLen + 3 = 4 /\ 4 + kHeaderLen = 5
        /\ ~(5 < kMinMessageLen + kHeaderLen) /\ ~(5 < 5)
    BY <1>2, GameAssumption
  <2> QED BY <2>1 DEF onMessage, error, g
<1>6. SubSeq(f, 6, 5) = <<>>
  BY SubSeqEmpty
<1> QED BY <1>3, <1>4, <1>5, <1>6

\* A board to be played.
ToBePlayed(message) ==
  message.type = "CSAI2048Tile" /\ message.is_over = FALSE /\ DOMAIN message.data = Cells

\* Why the server does not play for a frame.
Refused(f) ==
  /\ FiveUnits(f) /\ f[1].value \in Nat /\ f[5].value \in BOOLEAN
  /\ f[4].field = "data" /\ f[5].field = "checkSum"
  /\ f[4].value.type = "CSAI2048Tile" => f[4].value.is_over \in BOOLEAN
  /\ f[1].value = 4 => ~Sound(f) \/ ~ToBePlayed(f[4].value)

\* A frame of fillEmptyBuffer.
LEMMA FilledFrame ==
    ASSUME NEW message
    PROVE  LET f == fillEmptyBuffer(message)
           IN  /\ f = Frame(4, 1, message.type, message, TRUE)
               /\ Fields(f, 4, 1, message.type, message, TRUE)
<1>1. fillEmptyBuffer(message) = Frame(4, 1, message.type, message, TRUE)
  BY DEF fillEmptyBuffer, Frame
<1> QED BY <1>1, FrameFacts, Zenon

\* A board is a message of its type.
LEMMA TileFacts ==
    ASSUME NEW grid, NEW over
    PROVE  /\ Tile(grid, over).type = "CSAI2048Tile" /\ Tile(grid, over).data = grid
           /\ Tile(grid, over).is_over = over
BY DEF Tile

\* No frame of another peer is played for.
LEMMA OddFramesRefused == \A f \in OddFrames : Refused(f)
<1> SUFFICES ASSUME NEW f \in OddFrames PROVE Refused(f)
  OBVIOUS
<1> DEFINE board == Tile(EmptyBoard, FALSE)
           last == Tile(EmptyBoard, TRUE)
           none == Tile(<<1>>, FALSE)
<1>1. PICK len \in 0..(kMaxMessageLen + 1), nameLen \in {0, 1, kMaxMessageLen},
           typeName \in KnownTypes \cup {"unknown"}, data \in Messages, checkSum \in BOOLEAN :
        f = Frame(len, nameLen, typeName, data, checkSum)
  BY DEF OddFrames, Frames
<1>2. f # fillEmptyBuffer(board)
  BY DEF OddFrames
<1>3. Fields(f, len, nameLen, typeName, data, checkSum)
  BY <1>1, FrameFacts, Zenon
<1>4. data \in {board, last, none, Move("UP"), [type |-> "unregistered"]}
  BY DEF Messages
<1>5. /\ board.type = "CSAI2048Tile" /\ board.is_over = FALSE
      /\ last.is_over = TRUE /\ none.data = <<1>> /\ none.is_over = FALSE
  BY TileFacts
<1>6. Move("UP").type # "CSAI2048Tile" /\ [type |-> "unregistered"].type # "CSAI2048Tile"
  BY DEF Move
<1>7. DOMAIN <<1>> # Cells
  <2>1. DOMAIN <<1>> = 1..1
    OBVIOUS
  <2> QED BY <2>1, CellsFacts
<1>8. data.type = "CSAI2048Tile" => data.is_over \in BOOLEAN
  <2> HIDE DEF board, last, none
  <2> QED BY <1>4, <1>5, <1>6, Zenon
<1>9. ToBePlayed(data) => data = board
  <2> HIDE DEF board, last, none
  <2>1. ~ToBePlayed(last)
    BY <1>5, Zenon DEF ToBePlayed
  <2>2. ~ToBePlayed(none)
    BY <1>5, <1>7, Zenon DEF ToBePlayed
  <2>3. ~ToBePlayed(Move("UP")) /\ ~ToBePlayed([type |-> "unregistered"])
    BY <1>6, Zenon DEF ToBePlayed
  <2> QED BY <1>4, <2>1, <2>2, <2>3, Zenon
<1>10. /\ FiveUnits(f) /\ f[1].value = len /\ f[2].value = nameLen /\ f[3].value = typeName
       /\ f[4].value = data /\ f[5].value = checkSum /\ f[4].field = "data" /\ f[5].field = "checkSum"
  BY <1>3, Zenon DEF Fields
<1> HIDE DEF board, last, none
<1>11. ASSUME f[1].value = 4, Sound(f), ToBePlayed(f[4].value) PROVE FALSE
  <2>1. data = board /\ len = 4
    BY <1>9, <1>10, <1>11, Zenon
  <2>2. checkSum = TRUE
    BY <1>10, <1>11, Zenon DEF Sound
  <2>3. nameLen = 1
    <3>1. nameLen \in 1..2
      BY <1>10, <1>11, Zenon DEF Sound
    <3> QED BY <3>1, GameAssumption
  <2>4. typeName = board.type
    BY <1>10, <1>11, <2>1, Zenon DEF Sound
  <2>5. f = Frame(4, 1, board.type, board, TRUE)
    BY <1>1, <2>1, <2>2, <2>3, <2>4, Zenon
  <2> QED BY <1>2, <2>5, Zenon DEF fillEmptyBuffer
<1>12. f[1].value \in Nat
  <2>1. len \in Nat
    BY GameAssumption
  <2> QED BY <1>10, <2>1, Zenon
<1>13. f[4].value.type = "CSAI2048Tile" => f[4].value.is_over \in BOOLEAN
  BY <1>8, <1>10, Zenon
<1>14. f[5].value \in BOOLEAN
  BY <1>10, Zenon
<1> QED BY <1>10, <1>11, <1>12, <1>13, <1>14, Zenon DEF Refused

-------------------------------------------------------------------------------
\* Two parts of a stream hold no more than one frame.
Fits(buf, rest) == Len(buf) \in Nat /\ Len(rest) \in Nat /\ Len(buf) + Len(rest) <= 5

\* The client's board is on its way to the server.
BoardOnItsWay ==
  /\ InTransit(fillEmptyBuffer(Tile(GetAllTiles(dummy_), isOver)), serverBuf, toServer)
  /\ clientBuf = <<>> /\ toClient = <<>>

\* The server's board lacks only new tiles of the client's.
Mirrored == AddComputerMove(ai, GetAllTiles(dummy_)) = dummy_

\* A direction in which nothing moves is an answer if there is no other one, or
\* was no time to look for it.
Justified(tiles, dir, late) == late \/ TryMove(tiles, dir).can_move \/ ~CanMove(tiles)

\* A move is on its way to the client: the server has made it.
MoveOnItsWay ==
  /\ serverBuf = <<>> /\ toServer = <<>> /\ isOver = FALSE
  /\ \E dir \in Dirs : /\ InTransit(fillEmptyBuffer(Move(MoveTypes[dir + 1])), clientBuf, toClient)
                       /\ ai = TryMove(dummy_, dir).tiles
                       /\ Justified(dummy_, dir, starved)

\* The types of the variables, without the bound on the tiles.
Types ==
  /\ peer \in {"AI2048Client", "other"} /\ dummy_ \in Tiles /\ ai \in Tiles
  /\ client \in {"idle", "connected", "down"} /\ server \in ConnStates
  /\ isOver \in BOOLEAN /\ starved \in BOOLEAN
  /\ server = "down" => client = "down"
  /\ client = "idle" => server = "idle" /\ toServer = <<>> /\ serverBuf = <<>>
  /\ server = "idle" => client # "down" /\ toClient = <<>> /\ clientBuf = <<>>

\* The turns of a game.
Game ==
  peer = "AI2048Client" =>
    /\ server = "idle" => \A p \in Cells : dummy_[p] \in {0, 1, 2}
    /\ client = "connected" /\ server = "idle" => BoardOnItsWay
    /\ client = "connected" /\ server = "connected" => (BoardOnItsWay /\ Mirrored) \/ MoveOnItsWay
    /\ client = "connected" /\ server = "disconnecting" =>
         toServer = <<>> /\ serverBuf = <<>> /\ toClient = <<>> /\ clientBuf = <<>>
    /\ client = "down" =>
         toServer = <<>> /\ toClient = <<>> /\ Fits(serverBuf, clientBuf)

\* A frame of another peer is on its way.
OddOnItsWay == \E f \in OddFrames : InTransit(f, serverBuf, toServer)

\* It has come, and the server waits for what it announced.
OddWaits == toServer = <<>> /\ Unfinished(serverBuf)

\* How far another peer gets.
Odd ==
  peer = "other" =>
    /\ ai = EmptyBoard /\ toClient = <<>> /\ clientBuf = <<>> /\ isOver = FALSE
    /\ dummy_ = EmptyBoard
    /\ client = "connected" /\ server = "idle" => OddOnItsWay
    /\ client = "connected" /\ server = "connected" => OddOnItsWay \/ OddWaits
    /\ toServer = <<>> \/ OddOnItsWay
    /\ client = "down" /\ server = "connected" => toServer = <<>>
    /\ Fits(serverBuf, toServer)

\* No tile outgrows the one that wins, which ends the game.
ClientBounded ==
  /\ \A p \in Cells : dummy_[p] <= WinTile
  /\ isOver = FALSE => \A p \in Cells : dummy_[p] < WinTile
ServerBounded == \A p \in Cells : ai[p] <= WinTile
Bounded == ClientBounded /\ ServerBounded

Inv == Types /\ Game /\ Odd

\* A part of a frame is no longer than a frame.
LEMMA SmallSum ==
    ASSUME NEW buf, NEW rest, Len(buf) \in 0..4, Len(rest) = 0
    PROVE  Fits(buf, rest) /\ Fits(rest, buf)
<1> DEFINE m == Len(buf)
           n == Len(rest)
<1> HIDE DEF m, n
<1>1. m \in 0..4 /\ n = 0
  BY DEF m, n
<1>2. m \in Nat /\ n \in Nat /\ m + n <= 5 /\ n + m <= 5
  BY <1>1
<1> QED BY <1>2, Zenon DEF Fits, m, n

LEMMA EmptyFits == Fits(<<>>, <<>>)
BY DEF Fits

\* A frame is on its way once it is sent.
LEMMA TransitStart ==
    ASSUME NEW f, FiveUnits(f)
    PROVE  InTransit(f, <<>>, f) /\ <<>> \o f = f
<1> DEFINE S == {f[i] : i \in 1..5}
<1>1. f \in Seq(S) /\ Len(f) = 5
  BY DEF FiveUnits
<1> HIDE DEF S
<1>2. SubSeq(f, 1, 0) = <<>> /\ SubSeq(f, 1, 5) = f
  BY <1>1, SubSeqEmpty, SubSeqFull
<1>3. <<>> \o f = f
  BY <1>1
<1>4. 0 \in 0..4 /\ 0 + 1 = 1
  OBVIOUS
<1> QED BY <1>2, <1>3, <1>4 DEF InTransit

\* A frame on its way is whole, and its end has not been read.
LEMMA TransitLens ==
    ASSUME NEW f, FiveUnits(f), NEW buf, NEW rest, InTransit(f, buf, rest)
    PROVE  /\ Len(buf) \in 0..4 /\ Len(rest) = 5 - Len(buf) /\ rest # <<>>
           /\ buf \o rest = f /\ rest \o buf # <<>>
<1> DEFINE S == {f[i] : i \in 1..5}
<1>1. f \in Seq(S) /\ Len(f) = 5
  BY DEF FiveUnits
<1> HIDE DEF S
<1>2. PICK i \in 0..4 : buf = SubSeq(f, 1, i) /\ rest = SubSeq(f, i + 1, 5)
  BY Zenon DEF InTransit
<1>3. buf \in Seq(S) /\ Len(buf) = i
  <2>1. 1 \in Nat /\ i \in Nat /\ 1 <= 1 /\ i <= Len(f) /\ 1 <= i + 1
    BY <1>1
  <2>2. SubSeq(f, 1, i) \in Seq(S) /\ Len(SubSeq(f, 1, i)) = i - 1 + 1
    BY <1>1, <2>1, SubSeqIs
  <2> QED BY <1>2, <2>2
<1>4. rest \in Seq(S) /\ Len(rest) = 5 - i /\ SubSeq(rest, 1, 5 - i) = rest
  <2>1. i + 1 \in Nat /\ 5 \in Nat /\ 1 <= i + 1 /\ 5 <= Len(f) /\ i + 1 <= 5 + 1
    BY <1>1
  <2>2. SubSeq(f, i + 1, 5) \in Seq(S) /\ Len(SubSeq(f, i + 1, 5)) = 5 - (i + 1) + 1
    BY <1>1, <2>1, SubSeqIs
  <2>3. rest \in Seq(S) /\ Len(rest) = 5 - i
    BY <1>2, <2>2
  <2>4. SubSeq(rest, 1, Len(rest)) = rest
    BY <2>3, SubSeqFull
  <2> QED BY <2>3, <2>4
<1>5. buf \o rest = f
  <2>1. 5 - i \in 1..(5 - i) /\ i + (5 - i) = 5
    OBVIOUS
  <2>2. SubSeq(f, 1, i) \o SubSeq(SubSeq(f, i + 1, 5), 1, 5 - i) = SubSeq(f, 1, i + (5 - i))
    BY <1>1, <2>1, ReadOn
  <2>3. buf \o SubSeq(rest, 1, 5 - i) = SubSeq(f, 1, 5)
    BY <1>2, <2>1, <2>2
  <2>4. SubSeq(f, 1, 5) = f
    BY <1>1, SubSeqFull
  <2> QED BY <1>4, <2>3, <2>4
<1>6. Len(rest) # 0 /\ Len(rest \o buf) = 5
  BY <1>3, <1>4
<1>7. rest # <<>> /\ rest \o buf # <<>>
  BY <1>6
<1> QED BY <1>3, <1>4, <1>5, <1>7

LEMMA TransitFits ==
    ASSUME NEW f, FiveUnits(f), NEW buf, NEW rest, InTransit(f, buf, rest)
    PROVE  Fits(buf, rest)
<1>1. Len(buf) \in 0..4 /\ Len(rest) = 5 - Len(buf)
  BY TransitLens
<1> QED BY <1>1 DEF Fits

\* One read of a frame on its way.
ReadTo(f, buf, rest, n, j) ==
  /\ buf \o SubSeq(rest, 1, n) = SubSeq(f, 1, j)
  /\ SubSeq(rest, n + 1, Len(rest)) = SubSeq(f, j + 1, 5)
  /\ Len(SubSeq(f, 1, j)) = j

LEMMA TransitRead ==
    ASSUME NEW f, FiveUnits(f), NEW buf, NEW rest, InTransit(f, buf, rest), NEW n \in Reads(rest)
    PROVE  \E j \in 1..5 : ReadTo(f, buf, rest, n, j)
<1> DEFINE S == {f[i] : i \in 1..5}
<1>1. f \in Seq(S) /\ Len(f) = 5
  BY DEF FiveUnits
<1> HIDE DEF S
<1>2. PICK i \in 0..4 : buf = SubSeq(f, 1, i) /\ rest = SubSeq(f, i + 1, 5)
  BY Zenon DEF InTransit
<1>3. Len(rest) = 5 - i
  <2>1. 1 \in 1..(5 - i)
    OBVIOUS
  <2>2. Len(SubSeq(f, i + 1, 5)) = 5 - i
    BY <1>1, <2>1, ReadOn
  <2> QED BY <1>2, <2>2
<1>4. n \in 1..(5 - i)
  <2>1. Len(rest) \in Nat
    BY <1>3
  <2>2. n \in 1..Len(rest)
    BY <2>1, ReadsType
  <2> QED BY <1>3, <2>2
<1>5. /\ SubSeq(f, 1, i) \o SubSeq(SubSeq(f, i + 1, 5), 1, n) = SubSeq(f, 1, i + n)
      /\ SubSeq(SubSeq(f, i + 1, 5), n + 1, 5 - i) = SubSeq(f, i + n + 1, 5)
      /\ Len(SubSeq(f, 1, i + n)) = i + n
  BY <1>1, <1>4, ReadOn
<1>6. i + n \in 1..5
  BY <1>4
<1>7. ReadTo(f, buf, rest, n, i + n)
  BY <1>2, <1>3, <1>5 DEF ReadTo
<1> QED BY <1>6, <1>7

\* Nothing comes from an empty stream.
LEMMA NoReads == Reads(<<>>) = {}
<1>1. Len(<<>>) = 0 /\ Len(<<>>) \in Nat
  OBVIOUS
<1>2. ASSUME NEW n \in Reads(<<>>) PROVE FALSE
  <2>1. n \in 1..Len(<<>>)
    BY <1>1, ReadsType
  <2> QED BY <1>1, <2>1
<1> QED BY <1>2, Zenon

\* What a read of a well-formed message comes to: it waits for more, or the
\* message is handed on and nothing is left.
GoodOutcome(f, message, got, left) ==
  \/ got.result = "wait" /\ InTransit(f, got.rest, left)
  \/ got.result = "message" /\ got.message = message /\ got.rest = <<>> /\ left = <<>>

LEMMA GoodRead ==
    ASSUME NEW message, message.type \in KnownTypes, NEW buf, NEW rest,
           InTransit(fillEmptyBuffer(message), buf, rest), NEW n \in Reads(rest)
    PROVE  GoodOutcome(fillEmptyBuffer(message), message,
                       onMessage(buf \o SubSeq(rest, 1, n)), SubSeq(rest, n + 1, Len(rest)))
<1> DEFINE f == fillEmptyBuffer(message)
<1>1. Fields(f, 4, 1, message.type, message, TRUE)
  BY FilledFrame, Zenon
<1>2. InTransit(f, buf, rest)
  OBVIOUS
<1> HIDE DEF f
<1>3. FiveUnits(f) /\ f[1].value = 4 /\ f[2].value = 1 /\ f[3].value = message.type /\ f[4].value = message
  BY <1>1, Zenon DEF Fields
<1>4. f[5].value = TRUE /\ f[5].value \in BOOLEAN /\ f[5].field = "checkSum"
  BY <1>1, Zenon DEF Fields
<1>0. PICK j \in 1..5 : ReadTo(f, buf, rest, n, j)
  BY <1>2, <1>3, TransitRead
<1>5. /\ buf \o SubSeq(rest, 1, n) = SubSeq(f, 1, j)
      /\ SubSeq(rest, n + 1, Len(rest)) = SubSeq(f, j + 1, 5)
      /\ Len(SubSeq(f, 1, j)) = j
  BY <1>0 DEF ReadTo
<1> DEFINE S == {f[i] : i \in 1..5}
<1>6. f \in Seq(S) /\ Len(f) = 5
  BY <1>3 DEF FiveUnits
<1> HIDE DEF S
<1>7. CASE j <= 4
  <2>1. j \in 1..4 /\ j \in 0..4
    BY <1>7
  <2>2. onMessage(SubSeq(f, 1, j)) = [result |-> "wait", rest |-> SubSeq(f, 1, j)]
    BY <1>3, <1>6, <2>1, FrameWaits
  <2>3. InTransit(f, SubSeq(f, 1, j), SubSeq(f, j + 1, 5))
    BY <2>1, Zenon DEF InTransit
  <2>4. onMessage(SubSeq(f, 1, j)).result = "wait" /\ onMessage(SubSeq(f, 1, j)).rest = SubSeq(f, 1, j)
    BY <2>2
  <2>5. GoodOutcome(f, message, onMessage(SubSeq(f, 1, j)), SubSeq(f, j + 1, 5))
    BY <2>3, <2>4, Zenon DEF GoodOutcome
  <2> QED BY <1>5, <2>5, Zenon DEF f
<1>8. CASE j = 5
  <2>1. SubSeq(f, 1, 5) = f /\ SubSeq(f, 6, 5) = <<>> /\ j + 1 = 6
    BY <1>6, <1>8, SubSeqFull, SubSeqEmpty
  <2>2. f[2].value \in 1..2 /\ f[3].value \in KnownTypes /\ f[4].value.type = f[3].value
    BY <1>3
  <2>3. Sound(f)
    BY <1>4, <2>2, Zenon DEF Sound
  <2>4. onMessage(f) = [result |-> "message", message |-> message, rest |-> <<>>]
    BY <1>3, <1>4, <1>6, <2>3, FrameWhole
  <2>5. onMessage(f).result = "message" /\ onMessage(f).message = message /\ onMessage(f).rest = <<>>
    BY <2>4
  <2>6. GoodOutcome(f, message, onMessage(f), <<>>)
    BY <2>5, Zenon DEF GoodOutcome
  <2>7. buf \o SubSeq(rest, 1, n) = f /\ SubSeq(rest, n + 1, Len(rest)) = <<>>
    BY <1>5, <1>8, <2>1
  <2> QED BY <2>6, <2>7, Zenon DEF f
<1> QED BY <1>7, <1>8

\* What a read of another peer's frame comes to: it waits for the rest of it, or for what the
\* frame announced, is an error, or is a message that is not played for.
OddOutcome(f, got, left) ==
  \/ got.result = "wait" /\ InTransit(f, got.rest, left)
  \/ got.result = "wait" /\ left = <<>> /\ Unfinished(got.rest) /\ Fits(got.rest, left)
  \/ /\ got.result \notin {"wait", "message"} /\ Fits(got.rest, left)
     /\ left = <<>> \/ InTransit(f, got.rest, left)
  \/ /\ got.result = "message" /\ got.rest = <<>> /\ left = <<>>
     /\ ~ToBePlayed(got.message)
     /\ got.message.type = "CSAI2048Tile" => got.message.is_over \in BOOLEAN

LEMMA OddRead ==
    ASSUME NEW f \in OddFrames, NEW buf, NEW rest, InTransit(f, buf, rest), NEW n \in Reads(rest)
    PROVE  OddOutcome(f, onMessage(buf \o SubSeq(rest, 1, n)), SubSeq(rest, n + 1, Len(rest)))
<1>1. Refused(f)
  BY OddFramesRefused
<1>2. /\ FiveUnits(f) /\ f[1].value \in Nat /\ f[5].value \in BOOLEAN
      /\ f[4].field = "data" /\ f[5].field = "checkSum"
  BY <1>1 DEF Refused
<1>0. PICK j \in 1..5 : ReadTo(f, buf, rest, n, j)
  BY <1>2, TransitRead
<1>3. /\ buf \o SubSeq(rest, 1, n) = SubSeq(f, 1, j)
      /\ SubSeq(rest, n + 1, Len(rest)) = SubSeq(f, j + 1, 5)
      /\ Len(SubSeq(f, 1, j)) = j
  BY <1>0 DEF ReadTo
<1> DEFINE S == {f[i] : i \in 1..5}
           got == onMessage(SubSeq(f, 1, j))
           left == SubSeq(f, j + 1, 5)
<1>4. f \in Seq(S) /\ Len(f) = 5
  BY <1>2 DEF FiveUnits
<1> HIDE DEF S
<1> SUFFICES OddOutcome(f, got, left)
  BY <1>3, Zenon
<1>5. j <= 4 => InTransit(f, SubSeq(f, 1, j), left)
  <2> HAVE j <= 4
  <2>1. j \in 0..4
    OBVIOUS
  <2> QED BY <2>1, Zenon DEF InTransit
<1>6. j = 5 => left = <<>> /\ SubSeq(f, 1, j) = f
  BY <1>4, SubSeqFull, SubSeqEmpty
<1>7. Fits(SubSeq(f, 1, j), left)
  <2>1. CASE j = 5
    BY <1>3, <1>6, <2>1 DEF Fits
  <2>2. CASE j <= 4
    <3>1. InTransit(f, SubSeq(f, 1, j), left)
      BY <1>5, <2>2
    <3> HIDE DEF left
    <3> QED BY <1>2, <3>1, TransitFits
  <2> QED BY <2>1, <2>2
<1> HIDE DEF left
<1>8. ASSUME got.rest = SubSeq(f, 1, j), got.result \notin {"wait", "message"}
      PROVE  OddOutcome(f, got, left)
  <2>0. j <= 4 \/ j = 5
    OBVIOUS
  <2>1. left = <<>> \/ InTransit(f, got.rest, left)
    <3> HIDE DEF got
    <3> QED BY <1>5, <1>6, <1>8, <2>0, Zenon
  <2>2. Fits(got.rest, left)
    BY <1>7, <1>8
  <2> QED BY <1>8, <2>1, <2>2, Zenon DEF OddOutcome
<1>9. ASSUME got.rest = SubSeq(f, 1, j), got.result = "wait", j <= 4
      PROVE  OddOutcome(f, got, left)
  BY <1>5, <1>9, Zenon DEF OddOutcome
<1>10. CASE f[1].value > kMaxMessageLen \/ f[1].value < 3
  <2>1. got.rest = SubSeq(f, 1, j) /\ got.result = IF j < 4 THEN "wait" ELSE "kInvalidLength"
    BY <1>2, <1>4, <1>10, FrameTooLong
  <2> HIDE DEF got
  <2> QED BY <1>8, <1>9, <2>1
<1>11. CASE f[1].value = 4 /\ j <= 4
  <2>1. j \in 1..4
    BY <1>11
  <2>2. got = [result |-> "wait", rest |-> SubSeq(f, 1, j)]
    BY <1>4, <1>11, <2>1, FrameWaits
  <2> HIDE DEF got
  <2> QED BY <1>9, <1>11, <2>2
<1>12. CASE f[1].value = 4 /\ j = 5
  <2>1. got = onMessage(f) /\ left = <<>>
    BY <1>6, <1>12
  <2>2. /\ Sound(f) => onMessage(f) = [result |-> "message", message |-> f[4].value, rest |-> <<>>]
        /\ ~Sound(f) => /\ onMessage(f).rest = f
                        /\ onMessage(f).result \notin {"wait", "message"}
    BY <1>2, <1>4, <1>12, FrameWhole
  <2> HIDE DEF got
  <2>3. CASE ~Sound(f)
    BY <1>6, <1>8, <1>12, <2>1, <2>2, <2>3
  <2>4. CASE Sound(f)
    <3>1. /\ ~ToBePlayed(f[4].value)
          /\ f[4].value.type = "CSAI2048Tile" => f[4].value.is_over \in BOOLEAN
      BY <1>1, <1>12, <2>4, Zenon DEF Refused
    <3>2. got.result = "message" /\ got.message = f[4].value /\ got.rest = <<>>
      BY <2>1, <2>2, <2>4
    <3> QED BY <2>1, <3>1, <3>2, Zenon DEF OddOutcome
  <2> QED BY <2>3, <2>4
<1>13. CASE f[1].value = 3
  <2>1. got.rest = SubSeq(f, 1, j) /\ got.result = IF j < 4 THEN "wait" ELSE "kCheckSumError"
    BY <1>2, <1>4, <1>13, FrameTooShort
  <2> HIDE DEF got
  <2> QED BY <1>8, <1>9, <2>1
<1>14. CASE f[1].value \in 5..kMaxMessageLen
  <2>1. got = [result |-> "wait", rest |-> SubSeq(f, 1, j)]
    BY <1>4, <1>14, FrameUnfinished
  <2>2. got.result = "wait" /\ got.rest = SubSeq(f, 1, j)
    BY <2>1
  <2> HIDE DEF got
  <2>3. CASE j = 5
    <3>1. got.rest = f /\ left = <<>> /\ f # <<>>
      BY <1>4, <1>6, <2>2, <2>3
    <3>2. Unfinished(got.rest)
      BY <1>4, <1>14, <3>1 DEF Unfinished
    <3>3. Fits(got.rest, left)
      BY <1>7, <2>2
    <3> QED BY <2>2, <3>1, <3>2, <3>3, Zenon DEF OddOutcome
  <2> QED BY <1>9, <2>2, <2>3
<1>15. \/ f[1].value > kMaxMessageLen \/ f[1].value < 3
       \/ f[1].value = 3 \/ f[1].value = 4 \/ f[1].value \in 5..kMaxMessageLen
  BY <1>2, GameAssumption
<1>16. j <= 4 \/ j = 5
  OBVIOUS
<1> QED BY <1>10, <1>11, <1>12, <1>13, <1>14, <1>15, <1>16, Zenon

-------------------------------------------------------------------------------
\* InitDummy makes a board of new tiles.
LEMMA InitialBoard ==
    ASSUME NEW b \in AddRandTile(EmptyBoard), NEW board \in AddRandTile(b)
    PROVE  board \in Tiles /\ \A p \in Cells : board[p] \in {0, 1, 2}
<1>1. EmptyBoard \in Tiles /\ \A p \in Cells : EmptyBoard[p] = 0
  BY EmptyBoardType
<1>2. b \in Tiles /\ \A p \in Cells : b[p] = EmptyBoard[p] \/ b[p] \in {1, 2}
  BY <1>1, RandTile
<1>3. board \in Tiles /\ \A p \in Cells : board[p] = b[p] \/ board[p] \in {1, 2}
  BY <1>2, RandTile
<1> QED BY <1>1, <1>2, <1>3

\* The invariant holds before the client connects.
LEMMA InvInit == Init => Inv
<1> SUFFICES ASSUME Init PROVE Inv
  OBVIOUS
<1>1. /\ peer \in {"AI2048Client", "other"} /\ ai = EmptyBoard /\ client = "idle" /\ server = "idle"
      /\ toServer = <<>> /\ toClient = <<>> /\ serverBuf = <<>> /\ clientBuf = <<>>
      /\ isOver = FALSE /\ starved = FALSE
  BY DEF Init
<1>2. PICK b \in AddRandTile(EmptyBoard) :
        dummy_ \in IF peer = "other" THEN {EmptyBoard} ELSE AddRandTile(b)
  BY Zenon DEF Init
<1>3. dummy_ \in Tiles /\ ai \in Tiles
  BY <1>1, <1>2, InitialBoard, EmptyBoardType
<1>4. Types
  BY <1>1, <1>3 DEF Types, ConnStates
<1>5. Game
  BY <1>1, <1>2, InitialBoard DEF Game
<1>6. Odd
  <2>1. Fits(serverBuf, toServer)
    BY <1>1, EmptyFits
  <2> QED BY <1>1, <1>2, <2>1 DEF Odd
<1> QED BY <1>4, <1>5, <1>6 DEF Inv

\* The client connects and sends its board, or the other peer its frame.
LEMMA ClientUpInv == Inv /\ ClientUp => Inv'
<1> SUFFICES ASSUME Inv, ClientUp PROVE Inv'
  OBVIOUS
<1>1. /\ client = "idle" /\ client' = "connected"
      /\ UNCHANGED <<peer, dummy_, ai, server, toClient, serverBuf, clientBuf, starved>>
  BY DEF ClientUp
<1>2. /\ server = "idle" /\ toServer = <<>> /\ serverBuf = <<>> /\ toClient = <<>> /\ clientBuf = <<>>
      /\ isOver \in BOOLEAN
  BY <1>1 DEF Inv, Types
<1>3. CASE peer = "AI2048Client"
  <2> DEFINE last == FALSE \/ IsWin(dummy_)
             f == fillEmptyBuffer(Tile(GetAllTiles(dummy_), last))
  <2>1. toServer' = toServer \o f /\ isOver' = last
    BY <1>3, Zenon DEF ClientUp, SendTileDataToServer
  <2>2. FiveUnits(f)
    BY FilledFrame, Zenon DEF Fields
  <2>3. isOver' \in BOOLEAN
    BY <2>1, Zenon DEF IsWin
  <2>4. InTransit(f, serverBuf', toServer')
    <3> HIDE DEF f
    <3>1. InTransit(f, <<>>, f) /\ <<>> \o f = f
      BY <2>2, TransitStart
    <3>2. serverBuf' = <<>> /\ toServer' = f
      BY <1>1, <1>2, <2>1, <3>1
    <3> QED BY <3>1, <3>2
  <2>5. f = fillEmptyBuffer(Tile(GetAllTiles(dummy_'), isOver'))
    BY <1>1, <2>1, Zenon
  <2>6. BoardOnItsWay'
    <3> HIDE DEF f
    <3> QED BY <1>1, <1>2, <2>4, <2>5 DEF BoardOnItsWay
  <2>7. Types'
    BY <1>1, <1>2, <2>3 DEF Inv, Types
  <2>8. Game'
    BY <1>1, <1>2, <1>3, <2>6 DEF Inv, Game
  <2>9. Odd'
    BY <1>1, <1>3 DEF Odd
  <2> QED BY <2>7, <2>8, <2>9 DEF Inv
<1>4. CASE peer = "other"
  <2>1. PICK f \in OddFrames : toServer' = f
    BY <1>4 DEF ClientUp
  <2>2. isOver' = isOver
    BY <1>4 DEF ClientUp
  <2>3. FiveUnits(f)
    BY OddFramesRefused DEF Refused
  <2>4. InTransit(f, serverBuf', toServer')
    BY <1>1, <1>2, <2>1, <2>3, TransitStart
  <2>5. OddOnItsWay'
    BY <2>4 DEF OddOnItsWay
  <2>6. Fits(serverBuf', toServer')
    BY <2>3, <2>4, TransitFits
  <2>7. Types'
    BY <1>1, <1>2, <2>2 DEF Inv, Types
  <2>8. Game'
    BY <1>1, <1>4 DEF Game
  <2>9. Odd'
    BY <1>1, <1>2, <1>4, <2>2, <2>5, <2>6 DEF Inv, Odd
  <2> QED BY <2>7, <2>8, <2>9 DEF Inv
<1> QED BY <1>3, <1>4 DEF Inv, Types

\* The server's new board is empty, and the client's has new tiles only.
LEMMA ServerUpInv == Inv /\ ServerUp => Inv'
<1> SUFFICES ASSUME Inv, ServerUp PROVE Inv'
  OBVIOUS
<1>1. /\ client = "connected" /\ server = "idle" /\ server' = "connected" /\ ai' = EmptyBoard
      /\ UNCHANGED <<peer, dummy_, client, toServer, toClient, serverBuf, clientBuf, isOver, starved>>
  BY DEF ServerUp
<1>2. Types'
  BY <1>1, EmptyBoardType DEF Inv, Types, ConnStates
<1>3. Game'
  <2>1. CASE peer = "AI2048Client"
    <3>1. BoardOnItsWay /\ \A p \in Cells : dummy_[p] \in {0, 1, 2}
      BY <1>1, <2>1 DEF Inv, Game
    <3>2. BoardOnItsWay'
      BY <1>1, <3>1 DEF BoardOnItsWay
    <3>3. AddComputerMove(EmptyBoard, GetAllTiles(dummy_)) = dummy_
      <4>1. dummy_ \in Tiles
        BY DEF Inv, Types
      <4> QED BY <3>1, <4>1, EmptyBoardType, TakesOver
    <3>4. Mirrored'
      BY <1>1, <3>3 DEF Mirrored
    <3> QED BY <1>1, <2>1, <3>2, <3>4 DEF Game
  <2>2. CASE peer # "AI2048Client"
    BY <1>1, <2>2 DEF Game
  <2> QED BY <2>1, <2>2
<1>4. Odd'
  <2>1. OddOnItsWay => OddOnItsWay'
    BY <1>1 DEF OddOnItsWay
  <2> QED BY <1>1, <2>1 DEF Inv, Odd
<1> QED BY <1>2, <1>3, <1>4 DEF Inv

\* The names of the directions are different.
LEMMA MoveTypeFacts ==
    ASSUME NEW dir \in Dirs
    PROVE  /\ (CHOOSE d \in Dirs : MoveTypes[d + 1] = MoveTypes[dir + 1]) = dir
           /\ Move(MoveTypes[dir + 1]).type = "SCAI2048Move"
           /\ Move(MoveTypes[dir + 1]).move = MoveTypes[dir + 1]
<1>1. MoveTypes[1] = "UP" /\ MoveTypes[2] = "RIGHT" /\ MoveTypes[3] = "DOWN" /\ MoveTypes[4] = "LEFT"
  BY DEF MoveTypes
<1>2. \A d \in Dirs : MoveTypes[d + 1] = MoveTypes[dir + 1] => d = dir
  <2>1. \A d \in Dirs : d = 0 \/ d = 1 \/ d = 2 \/ d = 3
    BY DEF Dirs
  <2>2. 0 + 1 = 1 /\ 1 + 1 = 2 /\ 2 + 1 = 3 /\ 3 + 1 = 4
    OBVIOUS
  <2> QED BY <1>1, <2>1, <2>2
<1> QED BY <1>2 DEF Move

\* A move is on its way whenever the client of a game reads.
LEMMA ClientReads ==
    ASSUME Inv, NEW n, ClientRead(n)
    PROVE  peer = "AI2048Client" /\ client = "connected" /\ server = "connected" /\ MoveOnItsWay
<1>1. client = "connected" /\ n \in Reads(toClient)
  BY DEF ClientRead
<1>2. toClient # <<>>
  BY <1>1, NoReads
<1>3. peer = "AI2048Client"
  BY <1>2 DEF Inv, Odd, Types
<1>4. server = "connected"
  BY <1>1, <1>2, <1>3 DEF Inv, Types, Game, ConnStates
<1>5. MoveOnItsWay
  BY <1>1, <1>2, <1>3, <1>4 DEF Inv, Game, BoardOnItsWay
<1> QED BY <1>1, <1>3, <1>4, <1>5

\* The client reads a move, makes it, adds a tile and sends its board.
ClientMoves ==
  /\ isOver = FALSE
  /\ \E dir \in Dirs : \E board \in AddRandTile(TryMove(dummy_, dir).tiles) :
       /\ Justified(dummy_, dir, starved)
       /\ dummy_' = board /\ isOver' = (~TryMove(dummy_, dir).can_move \/ IsWin(board))

LEMMA ClientReadInv ==
    ASSUME Inv, NEW n, ClientRead(n)
    PROVE  Inv' /\ (UNCHANGED <<dummy_, isOver>> \/ ClientMoves)
<1> DEFINE got == onMessage(clientBuf \o SubSeq(toClient, 1, n))
           left == SubSeq(toClient, n + 1, Len(toClient))
<1>1. peer = "AI2048Client" /\ client = "connected" /\ server = "connected" /\ MoveOnItsWay
  BY ClientReads
<1>2. /\ n \in Reads(toClient) /\ toClient' = left /\ clientBuf' = got.rest
      /\ got.result = "message" => OnSCAI2048Move(got.message)
      /\ got.result # "message" => UNCHANGED <<dummy_, toServer, isOver>>
      /\ UNCHANGED <<peer, ai, client, server, serverBuf, starved>>
  BY Zenon DEF ClientRead
<1>3. serverBuf = <<>> /\ toServer = <<>> /\ isOver = FALSE
  BY <1>1 DEF MoveOnItsWay
<1>4. PICK dir \in Dirs :
        /\ InTransit(fillEmptyBuffer(Move(MoveTypes[dir + 1])), clientBuf, toClient)
        /\ ai = TryMove(dummy_, dir).tiles
        /\ Justified(dummy_, dir, starved)
  BY <1>1, Zenon DEF MoveOnItsWay
<1> DEFINE message == Move(MoveTypes[dir + 1])
           f == fillEmptyBuffer(message)
<1>5. GoodOutcome(f, message, got, left)
  <2>1. message.type \in KnownTypes
    BY MoveTypeFacts, GameAssumption
  <2>2. InTransit(f, clientBuf, toClient)
    BY <1>4
  <2> HIDE DEF message
  <2> QED BY <1>2, <2>1, <2>2, GoodRead
<1> HIDE DEF got, left, f, message
<1>6. CASE got.result = "wait" /\ InTransit(f, got.rest, left)
  <2>1. UNCHANGED <<peer, dummy_, ai, client, server, toServer, serverBuf, isOver, starved>>
    BY <1>2, <1>6
  <2>2. MoveOnItsWay'
    <3>1. /\ InTransit(f, clientBuf', toClient') /\ ai' = TryMove(dummy_', dir).tiles
          /\ Justified(dummy_', dir, starved')
      BY <1>2, <1>4, <1>6, <2>1
    <3>2. InTransit(fillEmptyBuffer(Move(MoveTypes[dir + 1])), clientBuf', toClient')
      BY <3>1, Zenon DEF f, message
    <3> QED BY <1>3, <2>1, <3>1, <3>2 DEF MoveOnItsWay
  <2>3. Types'
    BY <1>1, <2>1 DEF Inv, Types
  <2>4. Game'
    BY <1>1, <2>1, <2>2 DEF Game
  <2>5. Odd'
    BY <1>1, <2>1 DEF Odd
  <2> QED BY <2>1, <2>3, <2>4, <2>5 DEF Inv
<1>7. CASE got.result = "message" /\ got.message = message /\ got.rest = <<>> /\ left = <<>>
  <2>1. dummy_ \in Tiles /\ ai \in Tiles
    BY DEF Inv, Types
  <2> DEFINE moved == TryMove(dummy_, dir)
  <2>2. (CHOOSE d \in Dirs : MoveTypes[d + 1] = message.move) = dir
    BY MoveTypeFacts DEF message
  <2>3. OnSCAI2048Move(message)
    BY <1>2, <1>7
  <2>4. PICK board \in AddRandTile(moved.tiles) :
          dummy_' = board /\ SendTileDataToServer(board, ~moved.can_move)
    BY <2>2, <2>3, Zenon DEF OnSCAI2048Move
  <2>5. moved.tiles \in Tiles /\ moved.can_move \in BOOLEAN
    BY <2>1, TryMoveType
  <2>6. ai = moved.tiles
    BY <1>4
  <2> HIDE DEF moved
  <2>7. /\ board \in Tiles
        /\ \A p \in Cells : board[p] = moved.tiles[p] \/ (moved.tiles[p] = 0 /\ board[p] \in {1, 2})
    BY <2>5, RandTile
  <2>8. AddComputerMove(moved.tiles, GetAllTiles(board)) = board
    BY <2>5, <2>7, TakesOver
  <2> DEFINE last == ~moved.can_move \/ IsWin(board)
             g == fillEmptyBuffer(Tile(GetAllTiles(board), last))
  <2>9. toServer' = toServer \o g /\ isOver' = last
    BY <2>4, Zenon DEF SendTileDataToServer
  <2>10. isOver' \in BOOLEAN
    BY <2>9, Zenon DEF IsWin
  <2>20. ClientMoves
    BY <1>3, <1>4, <2>4, <2>9, Zenon DEF ClientMoves, moved
  <2>11. g = fillEmptyBuffer(Tile(GetAllTiles(dummy_'), isOver'))
    BY <2>4, <2>9, Zenon
  <2>12. FiveUnits(g)
    BY FilledFrame, Zenon DEF Fields
  <2> HIDE DEF last, g
  <2>13. InTransit(g, <<>>, g) /\ <<>> \o g = g
    BY <2>12, TransitStart
  <2>14. serverBuf' = <<>> /\ toServer' = g /\ clientBuf' = <<>> /\ toClient' = <<>>
    BY <1>2, <1>3, <1>7, <2>9, <2>13
  <2>15. BoardOnItsWay'
    BY <2>11, <2>13, <2>14 DEF BoardOnItsWay
  <2>16. Mirrored'
    BY <1>2, <2>4, <2>6, <2>8 DEF Mirrored
  <2>17. Types'
    BY <1>1, <1>2, <2>1, <2>4, <2>7, <2>10 DEF Inv, Types
  <2>18. Game'
    BY <1>1, <1>2, <2>15, <2>16 DEF Game
  <2>19. Odd'
    BY <1>1, <1>2 DEF Odd
  <2> QED BY <2>17, <2>18, <2>19, <2>20 DEF Inv
<1> QED BY <1>5, <1>6, <1>7 DEF GoodOutcome

\* One read of the server, whatever it brings.
ServerReads(n, got, left) ==
  /\ server \in {"connected", "disconnecting"} /\ n \in Reads(toServer)
  /\ toServer' = left /\ serverBuf' = got.rest
  /\ got.result = "wait" => UNCHANGED <<ai, server, toClient, starved>>
  /\ got.result = "message" => onProtobufMessage(got.message)
  /\ got.result \notin {"wait", "message"} => ShutDown
  /\ UNCHANGED <<peer, dummy_, client, clientBuf, isOver>>

LEMMA ServerReadIs ==
    ASSUME NEW n, ServerRead(n)
    PROVE  ServerReads(n, onMessage(serverBuf \o SubSeq(toServer, 1, n)),
                       SubSeq(toServer, n + 1, Len(toServer)))
<1> DEFINE got == onMessage(serverBuf \o SubSeq(toServer, 1, n))
           left == SubSeq(toServer, n + 1, Len(toServer))
<1>1. /\ server \in {"connected", "disconnecting"} /\ n \in Reads(toServer)
      /\ toServer' = left /\ serverBuf' = got.rest
      /\ UNCHANGED <<peer, dummy_, client, clientBuf, isOver>>
  BY Zenon DEF ServerRead
<1>2. (CASE got.result = "wait" -> UNCHANGED <<ai, server, toClient, starved>>
         [] got.result = "message" -> onProtobufMessage(got.message)
         [] OTHER -> ShutDown)
  BY Zenon DEF ServerRead
<1> HIDE DEF got
<1>3. got.result = "wait" => UNCHANGED <<ai, server, toClient, starved>>
  BY <1>2
<1>4. got.result = "message" => onProtobufMessage(got.message)
  BY <1>2
<1>5. got.result \notin {"wait", "message"} => ShutDown
  BY <1>2
<1>6. ServerReads(n, got, left)
  <2> HIDE DEF left
  <2> QED BY <1>1, <1>3, <1>4, <1>5, Zenon DEF ServerReads
<1> QED BY <1>6 DEF got, left

\* The server's answer to a board: the move it has made.
LEMMA ServerMoves ==
    ASSUME Inv, ClientBounded, server = "connected", toClient = <<>>, Mirrored, isOver = FALSE,
           OnCSAI2048Tile(Tile(GetAllTiles(dummy_), isOver))
    PROVE  /\ UNCHANGED server /\ starved' \in BOOLEAN
           /\ \E dir \in Dirs :
                /\ ai' = TryMove(dummy_, dir).tiles /\ toClient' = fillEmptyBuffer(Move(MoveTypes[dir + 1]))
                /\ Justified(dummy_, dir, starved')
<1> DEFINE message == Tile(GetAllTiles(dummy_), isOver)
<1>1. message.data = GetAllTiles(dummy_) /\ message.is_over = FALSE /\ DOMAIN message.data = Cells
  BY TileFacts DEF GetAllTiles
<1> HIDE DEF message
<1>2. PICK searches \in 0..MaxSearches :
        \E board \in {AddComputerMove(ai, message.data)} :
        \E best_move \in {GetPlayerBestMove(board, searches)} :
          LET moved == TryMove(board, best_move)
              type == IF moved.can_move THEN MoveTypes[best_move + 1] ELSE "UP" IN
          /\ ai' = moved.tiles
          /\ starved' = (searches = 0)
          /\ toClient' = IF server = "connected" THEN toClient \o fillEmptyBuffer(Move(type))
                         ELSE toClient
          /\ UNCHANGED server
  BY <1>1, Zenon DEF OnCSAI2048Tile, message
<1>3. AddComputerMove(ai, message.data) = dummy_
  BY <1>1 DEF Mirrored
<1> DEFINE best == GetPlayerBestMove(dummy_, searches)
           moved == TryMove(dummy_, best)
           type == IF moved.can_move THEN MoveTypes[best + 1] ELSE "UP"
<1>4. /\ ai' = moved.tiles /\ starved' = (searches = 0) /\ UNCHANGED server
      /\ toClient' = IF server = "connected" THEN toClient \o fillEmptyBuffer(Move(type)) ELSE toClient
  BY <1>2, <1>3, Zenon
<1>5. best = kUp \/ Playable(dummy_, best)
  <2>1. searches \in Nat
    BY GameAssumption
  <2> QED BY <2>1, BestMovePlayable, Zenon
<1> HIDE DEF best
<1>6. best \in Dirs
  BY <1>5 DEF Playable, kUp, Dirs
<1>7. type = MoveTypes[best + 1]
  <2>1. CASE moved.can_move
    BY <2>1
  <2>2. CASE ~moved.can_move
    <3>1. best = kUp
      BY <1>5, <2>2 DEF Playable
    <3>2. MoveTypes[kUp + 1] = "UP"
      BY DEF MoveTypes, kUp
    <3> QED BY <2>2, <3>1, <3>2
  <2> QED BY <2>1, <2>2
<1> HIDE DEF type
<1> DEFINE f == fillEmptyBuffer(Move(MoveTypes[best + 1]))
<1>8. <<>> \o f = f
  <2>1. FiveUnits(f)
    BY FilledFrame, Zenon DEF Fields
  <2> HIDE DEF f
  <2> QED BY <2>1, TransitStart
<1>9. toClient' = f
  <2>1. toClient' = toClient \o fillEmptyBuffer(Move(type))
    BY <1>4
  <2>2. toClient' = <<>> \o f
    BY <1>7, <2>1, Zenon
  <2> QED BY <1>8, <2>2, Zenon
<1>10. starved' \in BOOLEAN
  BY <1>4, Zenon
<1>11. Justified(dummy_, best, starved')
  <2>1. CASE searches = 0
    BY <1>4, <2>1, Zenon DEF Justified
  <2>2. CASE searches # 0
    <3>1. searches \in Nat \ {0}
      BY <2>2, GameAssumption
    <3>2. dummy_ \in Tiles /\ \A p \in Cells : dummy_[p] < WinTile
      BY DEF Inv, Types, ClientBounded
    <3>3. TryMove(dummy_, best).can_move \/ ~CanMove(dummy_)
      BY <3>1, <3>2, SearchFindsMove, Zenon DEF best
    <3> QED BY <3>3, Zenon DEF Justified
  <2> QED BY <2>1, <2>2
<1> QED BY <1>4, <1>6, <1>9, <1>10, <1>11

\* The server reads the client's board: it waits, or shuts down, or answers.
LEMMA GameServerRead ==
    ASSUME Inv, ClientBounded, NEW n, ServerRead(n), peer = "AI2048Client"
    PROVE  Inv' /\ (isOver = TRUE => UNCHANGED starved)
<1> DEFINE got == onMessage(serverBuf \o SubSeq(toServer, 1, n))
           left == SubSeq(toServer, n + 1, Len(toServer))
           message == Tile(GetAllTiles(dummy_), isOver)
           f == fillEmptyBuffer(message)
<1>1. ServerReads(n, got, left)
  BY ServerReadIs
<1>2. server \in {"connected", "disconnecting"} /\ n \in Reads(toServer)
  BY <1>1, Zenon DEF ServerReads
<1>3. toServer # <<>>
  BY <1>2, NoReads
<1>4. client = "connected" /\ server = "connected"
  BY <1>2, <1>3 DEF Inv, Types, Game
<1>5. BoardOnItsWay /\ Mirrored
  BY <1>3, <1>4 DEF Inv, Game, MoveOnItsWay
<1>6. InTransit(f, serverBuf, toServer) /\ clientBuf = <<>> /\ toClient = <<>>
  BY <1>5, Zenon DEF BoardOnItsWay
<1>7. message.type = "CSAI2048Tile" /\ message.is_over = isOver /\ message.data = GetAllTiles(dummy_)
  BY TileFacts, Zenon
<1>8. GoodOutcome(f, message, got, left)
  <2>1. message.type \in KnownTypes
    BY <1>7, GameAssumption
  <2> HIDE DEF message
  <2> QED BY <1>2, <1>6, <2>1, GoodRead
<1> HIDE DEF got, left, f, message
<1>9. /\ toServer' = left /\ serverBuf' = got.rest /\ UNCHANGED <<peer, dummy_, client, clientBuf, isOver>>
      /\ got.result = "wait" => UNCHANGED <<ai, server, toClient, starved>>
      /\ got.result = "message" => onProtobufMessage(got.message)
  BY <1>1, Zenon DEF ServerReads
<1>10. dummy_ \in Tiles /\ ai \in Tiles /\ isOver \in BOOLEAN /\ starved \in BOOLEAN
  BY DEF Inv, Types
<1>11. CASE got.result = "wait" /\ InTransit(f, got.rest, left)
  <2>1. UNCHANGED <<peer, dummy_, ai, client, server, toClient, clientBuf, isOver, starved>>
    BY <1>9, <1>11
  <2>2. BoardOnItsWay'
    <3>1. InTransit(f, serverBuf', toServer')
      BY <1>9, <1>11
    <3>2. f = fillEmptyBuffer(Tile(GetAllTiles(dummy_'), isOver'))
      BY <2>1, Zenon DEF f, message
    <3> QED BY <1>6, <2>1, <3>1, <3>2 DEF BoardOnItsWay
  <2>3. Mirrored'
    BY <1>5, <2>1 DEF Mirrored
  <2>4. Types'
    BY <1>4, <2>1 DEF Inv, Types
  <2>5. Game'
    BY <1>4, <2>1, <2>2, <2>3 DEF Game
  <2>6. Odd'
    BY <2>1 DEF Odd
  <2> QED BY <2>1, <2>4, <2>5, <2>6 DEF Inv
<1>12. CASE got.result = "message" /\ got.message = message /\ got.rest = <<>> /\ left = <<>>
  <2>1. OnCSAI2048Tile(message)
    BY <1>7, <1>9, <1>12, Zenon DEF onProtobufMessage
  <2>2. toServer' = <<>> /\ serverBuf' = <<>> /\ clientBuf' = <<>>
    BY <1>6, <1>9, <1>12
  <2>3. CASE isOver = TRUE
    <3>1. server' = "disconnecting" /\ UNCHANGED <<ai, toClient, starved>>
      BY <1>7, <2>1, <2>3, Zenon DEF OnCSAI2048Tile, ShutDown
    <3>2. Types'
      BY <1>4, <1>9, <1>10, <3>1 DEF Inv, Types, ConnStates
    <3>3. Game'
      BY <1>4, <1>6, <1>9, <2>2, <3>1 DEF Game
    <3>4. Odd'
      BY <1>9 DEF Odd
    <3> QED BY <3>1, <3>2, <3>3, <3>4 DEF Inv
  <2>4. CASE isOver = FALSE
    <3>1. /\ UNCHANGED server /\ starved' \in BOOLEAN
          /\ \E dir \in Dirs :
               /\ ai' = TryMove(dummy_, dir).tiles /\ toClient' = fillEmptyBuffer(Move(MoveTypes[dir + 1]))
               /\ Justified(dummy_, dir, starved')
      BY <1>4, <1>5, <1>6, <2>1, <2>4, ServerMoves DEF message
    <3>2. PICK dir \in Dirs :
            /\ ai' = TryMove(dummy_, dir).tiles /\ toClient' = fillEmptyBuffer(Move(MoveTypes[dir + 1]))
            /\ Justified(dummy_, dir, starved')
      BY <3>1, Zenon
    <3> DEFINE g == fillEmptyBuffer(Move(MoveTypes[dir + 1]))
    <3>3. InTransit(g, clientBuf', toClient')
      <4>1. FiveUnits(g)
        BY FilledFrame, Zenon DEF Fields
      <4>2. InTransit(g, <<>>, g)
        <5> HIDE DEF g
        <5> QED BY <4>1, TransitStart
      <4> QED BY <2>2, <3>2, <4>2, Zenon
    <3>4. ai' = TryMove(dummy_', dir).tiles /\ isOver' = FALSE /\ Justified(dummy_', dir, starved')
      BY <1>9, <2>4, <3>2
    <3>5. MoveOnItsWay'
      BY <2>2, <3>3, <3>4, Zenon DEF MoveOnItsWay
    <3>6. ai' \in Tiles
      BY <1>10, <3>2, TryMoveType
    <3>7. Types'
      BY <1>4, <1>9, <1>10, <3>1, <3>6 DEF Inv, Types
    <3>8. Game'
      BY <1>4, <1>9, <3>1, <3>5 DEF Game
    <3>9. Odd'
      BY <1>9 DEF Odd
    <3> QED BY <2>4, <3>7, <3>8, <3>9 DEF Inv
  <2> QED BY <1>10, <2>3, <2>4
<1> QED BY <1>8, <1>11, <1>12 DEF GoodOutcome

\* The server reads another peer's frame: it waits or shuts down.
LEMMA OddServerRead ==
    ASSUME Inv, NEW n, ServerRead(n), peer = "other"
    PROVE  Inv'
<1> DEFINE got == onMessage(serverBuf \o SubSeq(toServer, 1, n))
           left == SubSeq(toServer, n + 1, Len(toServer))
<1>1. ServerReads(n, got, left)
  BY ServerReadIs
<1>2. server \in {"connected", "disconnecting"} /\ n \in Reads(toServer)
  BY <1>1, Zenon DEF ServerReads
<1>3. toServer # <<>>
  BY <1>2, NoReads
<1>4. OddOnItsWay
  BY <1>3 DEF Inv, Odd
<1>5. PICK f \in OddFrames : InTransit(f, serverBuf, toServer)
  BY <1>4 DEF OddOnItsWay
<1>6. OddOutcome(f, got, left)
  BY <1>2, <1>5, OddRead
<1>7. FiveUnits(f)
  BY OddFramesRefused DEF Refused
<1> HIDE DEF got, left
<1>8. /\ toServer' = left /\ serverBuf' = got.rest /\ UNCHANGED <<peer, dummy_, client, clientBuf, isOver>>
      /\ got.result = "wait" => UNCHANGED <<ai, server, toClient, starved>>
      /\ got.result = "message" => onProtobufMessage(got.message)
      /\ got.result \notin {"wait", "message"} => ShutDown
  BY <1>1, Zenon DEF ServerReads
<1>9. client # "idle" /\ server # "idle"
  BY <1>2, <1>3 DEF Inv, Types
<1>10. Game'
  BY <1>8 DEF Game
<1>11. CASE got.result = "wait" /\ InTransit(f, got.rest, left)
  <2>1. UNCHANGED <<peer, dummy_, ai, client, server, toClient, clientBuf, isOver, starved>>
    BY <1>8, <1>11
  <2>2. InTransit(f, serverBuf', toServer')
    BY <1>8, <1>11
  <2>3. OddOnItsWay'
    BY <2>2 DEF OddOnItsWay
  <2>4. Fits(serverBuf', toServer')
    BY <1>7, <2>2, TransitFits
  <2>5. Types'
    BY <1>9, <2>1 DEF Inv, Types
  <2>6. ~(client = "down" /\ server = "connected")
    BY <1>3 DEF Inv, Odd
  <2>7. Odd'
    BY <2>1, <2>3, <2>4, <2>6 DEF Inv, Odd
  <2> QED BY <1>10, <2>5, <2>7 DEF Inv
<1>15. CASE got.result = "wait" /\ left = <<>> /\ Unfinished(got.rest) /\ Fits(got.rest, left)
  <2>1. UNCHANGED <<peer, dummy_, ai, client, server, toClient, clientBuf, isOver, starved>>
    BY <1>8, <1>15
  <2>2. toServer' = <<>> /\ Fits(serverBuf', toServer')
    BY <1>8, <1>15
  <2>3. OddWaits'
    BY <1>8, <1>15 DEF OddWaits, Unfinished
  <2>4. Types'
    BY <1>9, <2>1 DEF Inv, Types
  <2>5. Odd'
    BY <1>9, <2>1, <2>2, <2>3 DEF Inv, Odd
  <2> QED BY <1>10, <2>4, <2>5 DEF Inv
<1>12. ASSUME ShutDown, left = <<>> \/ InTransit(f, got.rest, left), Fits(got.rest, left)
       PROVE  Inv'
  <2>1. server' = "disconnecting" /\ UNCHANGED <<ai, toClient, starved>>
    BY <1>12 DEF ShutDown
  <2>2. toServer' = <<>> \/ OddOnItsWay'
    BY <1>8, <1>12 DEF OddOnItsWay
  <2>3. Fits(serverBuf', toServer')
    BY <1>8, <1>12
  <2>4. Types'
    BY <1>8, <1>9, <2>1 DEF Inv, Types, ConnStates
  <2>5. Odd'
    BY <1>8, <2>1, <2>2, <2>3 DEF Inv, Odd
  <2> QED BY <1>10, <2>4, <2>5 DEF Inv
<1>13. CASE /\ got.result \notin {"wait", "message"} /\ Fits(got.rest, left)
            /\ left = <<>> \/ InTransit(f, got.rest, left)
  <2>1. ShutDown
    BY <1>8, <1>13
  <2>2. Fits(got.rest, left)
    BY <1>13
  <2> QED BY <1>12, <1>13, <2>1, <2>2
<1>14. CASE /\ got.result = "message" /\ got.rest = <<>> /\ left = <<>>
            /\ ~ToBePlayed(got.message)
            /\ got.message.type = "CSAI2048Tile" => got.message.is_over \in BOOLEAN
  <2>1. onProtobufMessage(got.message)
    BY <1>8, <1>14
  <2>2. ShutDown
    <3>1. CASE got.message.type # "CSAI2048Tile"
      BY <2>1, <3>1, Zenon DEF onProtobufMessage
    <3>2. CASE got.message.type = "CSAI2048Tile"
      <4>1. OnCSAI2048Tile(got.message)
        BY <2>1, <3>2, Zenon DEF onProtobufMessage
      <4>2. got.message.is_over = TRUE \/ DOMAIN got.message.data # Cells
        BY <1>14, <3>2, Zenon DEF ToBePlayed
      <4> QED BY <4>1, <4>2, Zenon DEF OnCSAI2048Tile
    <3> QED BY <3>1, <3>2, Zenon
  <2>3. Fits(got.rest, left)
    BY <1>14, EmptyFits
  <2> QED BY <1>12, <1>14, <2>2, <2>3
<1> QED BY <1>6, <1>11, <1>13, <1>14, <1>15, Zenon DEF OddOutcome

\* The client sees the end of the stream.
LEMMA ClientDownInv == Inv /\ ClientDown => Inv'
<1> SUFFICES ASSUME Inv, ClientDown PROVE Inv'
  OBVIOUS
<1>1. /\ client = "connected" /\ server \in {"disconnecting", "down"} /\ toClient = <<>> /\ client' = "down"
      /\ UNCHANGED <<peer, dummy_, ai, server, toServer, toClient, serverBuf, clientBuf, isOver, starved>>
  BY DEF ClientDown
<1>2. server = "disconnecting"
  BY <1>1 DEF Inv, Types
<1>3. Types'
  BY <1>1, <1>2 DEF Inv, Types
<1>4. Game'
  <2>1. CASE peer = "AI2048Client"
    <3>1. toServer = <<>> /\ serverBuf = <<>> /\ clientBuf = <<>>
      BY <1>1, <1>2, <2>1 DEF Inv, Game
    <3>2. Fits(serverBuf', clientBuf')
      BY <1>1, <3>1, EmptyFits
    <3> QED BY <1>1, <1>2, <3>1, <3>2 DEF Game
  <2>2. CASE peer # "AI2048Client"
    BY <1>1, <2>2 DEF Game
  <2> QED BY <2>1, <2>2
<1>5. Odd'
  <2>1. OddOnItsWay => OddOnItsWay'
    BY <1>1 DEF OddOnItsWay
  <2> QED BY <1>1, <1>2, <2>1 DEF Inv, Odd
<1> QED BY <1>3, <1>4, <1>5 DEF Inv

\* The server sees that the client has gone.
LEMMA ServerDownInv == Inv /\ ServerDown => Inv'
<1> SUFFICES ASSUME Inv, ServerDown PROVE Inv'
  OBVIOUS
<1>1. /\ client = "down" /\ server' = "down" /\ ai' = EmptyBoard /\ toServer' = <<>> /\ serverBuf' = <<>>
      /\ UNCHANGED <<peer, dummy_, client, toClient, clientBuf, isOver, starved>>
  BY DEF ServerDown
<1>2. Types'
  BY <1>1, EmptyBoardType DEF Inv, Types, ConnStates
<1>3. Game'
  <2>1. CASE peer = "AI2048Client"
    <3>1. toClient = <<>> /\ Fits(serverBuf, clientBuf)
      BY <1>1, <2>1 DEF Inv, Game
    <3>2. Fits(serverBuf', clientBuf')
      BY <1>1, <3>1 DEF Fits
    <3> QED BY <1>1, <3>1, <3>2 DEF Game
  <2>2. CASE peer # "AI2048Client"
    BY <1>1, <2>2 DEF Game
  <2> QED BY <2>1, <2>2
<1>4. Odd'
  <2>1. Fits(serverBuf', toServer')
    BY <1>1, EmptyFits
  <2> QED BY <1>1, <2>1 DEF Inv, Odd
<1> QED BY <1>2, <1>3, <1>4 DEF Inv

\* The connection breaks: what was on its way is lost, what was read stays.
LEMMA BreakInv == Inv /\ Break => Inv'
<1> SUFFICES ASSUME Inv, Break PROVE Inv'
  OBVIOUS
<1>1. /\ client = "connected" /\ server # "idle" /\ client' = "down" /\ toServer' = <<>> /\ toClient' = <<>>
      /\ UNCHANGED <<peer, dummy_, ai, server, serverBuf, clientBuf, isOver, starved>>
  BY DEF Break
<1>2. Types'
  BY <1>1 DEF Inv, Types
<1>3. Game'
  <2>1. CASE peer = "AI2048Client"
    <3>1. server \in {"connected", "disconnecting"}
      BY <1>1 DEF Inv, Types, ConnStates
    <3>2. Fits(serverBuf, clientBuf)
      <4>1. CASE server = "disconnecting"
        BY <1>1, <2>1, <4>1, EmptyFits DEF Inv, Game
      <4>2. CASE server = "connected" /\ BoardOnItsWay
        <5> DEFINE f == fillEmptyBuffer(Tile(GetAllTiles(dummy_), isOver))
        <5>1. FiveUnits(f)
          BY FilledFrame, Zenon DEF Fields
        <5>2. InTransit(f, serverBuf, toServer) /\ clientBuf = <<>>
          BY <4>2, Zenon DEF BoardOnItsWay
        <5> HIDE DEF f
        <5>3. Len(serverBuf) \in 0..4
          BY <5>1, <5>2, TransitLens
        <5>4. Len(clientBuf) = 0
          BY <5>2
        <5> QED BY <5>3, <5>4, SmallSum
      <4>3. CASE server = "connected" /\ MoveOnItsWay
        <5>1. PICK dir \in Dirs : InTransit(fillEmptyBuffer(Move(MoveTypes[dir + 1])), clientBuf, toClient)
          BY <4>3, Zenon DEF MoveOnItsWay
        <5> DEFINE f == fillEmptyBuffer(Move(MoveTypes[dir + 1]))
        <5>2. FiveUnits(f)
          BY FilledFrame, Zenon DEF Fields
        <5>3. InTransit(f, clientBuf, toClient)
          BY <5>1
        <5>4. serverBuf = <<>>
          BY <4>3 DEF MoveOnItsWay
        <5> HIDE DEF f
        <5>5. Len(clientBuf) \in 0..4
          BY <5>2, <5>3, TransitLens
        <5>6. Len(serverBuf) = 0
          BY <5>4
        <5> QED BY <5>5, <5>6, SmallSum
      <4> QED BY <1>1, <2>1, <3>1, <4>1, <4>2, <4>3 DEF Inv, Game
    <3> QED BY <1>1, <3>1, <3>2 DEF Game
  <2>2. CASE peer # "AI2048Client"
    BY <1>1, <2>2 DEF Game
  <2> QED BY <2>1, <2>2
<1>4. Odd'
  <2>1. CASE peer = "other"
    <3>1. Fits(serverBuf', toServer')
      <4>1. toServer = <<>> \/ OddOnItsWay
        BY <2>1 DEF Inv, Odd
      <4>2. CASE toServer = <<>>
        BY <1>1, <2>1, <4>2 DEF Inv, Odd
      <4>3. CASE OddOnItsWay
        <5>1. PICK f \in OddFrames : InTransit(f, serverBuf, toServer)
          BY <4>3 DEF OddOnItsWay
        <5>2. FiveUnits(f)
          BY OddFramesRefused DEF Refused
        <5>3. Len(serverBuf) \in 0..4
          BY <5>1, <5>2, TransitLens
        <5>4. Len(toServer') = 0 /\ Len(serverBuf') = Len(serverBuf)
          BY <1>1
        <5> QED BY <5>3, <5>4, SmallSum
      <4> QED BY <4>1, <4>2, <4>3
    <3> QED BY <1>1, <2>1, <3>1 DEF Inv, Odd
  <2>2. CASE peer # "other"
    BY <1>1, <2>2 DEF Odd
  <2> QED BY <2>1, <2>2
<1> QED BY <1>2, <1>3, <1>4 DEF Inv

\* Every step keeps the invariant.
LEMMA InvStep == Inv /\ Bounded /\ [Next]_vars => Inv'
<1> SUFFICES ASSUME Inv, Bounded, [Next]_vars PROVE Inv'
  OBVIOUS
<1>1. CASE ClientUp
  BY <1>1, ClientUpInv
<1>2. CASE ServerUp
  BY <1>2, ServerUpInv
<1>3. ASSUME NEW n \in Reads(toClient), ClientRead(n) PROVE Inv'
  BY <1>3, ClientReadInv
<1>4. ASSUME NEW n \in Reads(toServer), ServerRead(n) PROVE Inv'
  <2>1. peer = "AI2048Client" \/ peer = "other"
    BY DEF Inv, Types
  <2> QED BY <1>4, <2>1, GameServerRead, OddServerRead DEF Bounded
<1>5. CASE ClientDown
  BY <1>5, ClientDownInv
<1>6. CASE ServerDown
  BY <1>6, ServerDownInv
<1>7. CASE Break
  BY <1>7, BreakInv
<1>8. CASE UNCHANGED vars
  BY <1>8 DEF vars, Inv, Types, Game, Odd, BoardOnItsWay, Mirrored, MoveOnItsWay, OddOnItsWay,
              OddWaits, Unfinished
<1> QED BY <1>1, <1>2, <1>3, <1>4, <1>5, <1>6, <1>7, <1>8, Zenon DEF Next

\* The invariant says that the boards mirror each other.
LEMMA InvMirrors == Inv => ServerMirrorsClient
<1> SUFFICES ASSUME Inv, peer = "AI2048Client", client = "connected", server = "connected"
             PROVE  ServerMirrorsClient
  BY Zenon DEF ServerMirrorsClient
<1>1. CASE BoardOnItsWay /\ Mirrored
  <2>1. toClient \o clientBuf = <<>>
    BY <1>1 DEF BoardOnItsWay
  <2> QED BY <1>1, <2>1, Zenon DEF Mirrored, ServerMirrorsClient
<1>2. CASE MoveOnItsWay
  <2>1. PICK dir \in Dirs :
          /\ InTransit(fillEmptyBuffer(Move(MoveTypes[dir + 1])), clientBuf, toClient)
          /\ ai = TryMove(dummy_, dir).tiles
    BY <1>2, Zenon DEF MoveOnItsWay
  <2> DEFINE message == Move(MoveTypes[dir + 1])
             f == fillEmptyBuffer(message)
  <2>2. FiveUnits(f) /\ f[4].value = message
    BY FilledFrame, Zenon DEF Fields
  <2>3. InTransit(f, clientBuf, toClient)
    BY <2>1
  <2>4. message.move = MoveTypes[dir + 1] /\ (CHOOSE d \in Dirs : MoveTypes[d + 1] = MoveTypes[dir + 1]) = dir
    BY MoveTypeFacts, Zenon
  <2> HIDE DEF f, message
  <2>5. toClient \o clientBuf # <<>> /\ clientBuf \o toClient = f
    BY <2>2, <2>3, TransitLens
  <2>6. (clientBuf \o toClient)[4].value.move = MoveTypes[dir + 1]
    BY <2>2, <2>4, <2>5
  <2> QED BY <2>1, <2>4, <2>5, <2>6, Zenon DEF ServerMirrorsClient
<1> QED BY <1>1, <1>2 DEF Inv, Game

\* The invariant says that other peers get no game.
LEMMA InvShutsOut == Inv => OddFrameGetsNoGame
<1> SUFFICES ASSUME Inv, peer = "other" PROVE OddFrameGetsNoGame
  BY Zenon DEF OddFrameGetsNoGame
<1>1. ai = EmptyBoard /\ toClient = <<>>
  BY DEF Inv, Odd
<1>2. ASSUME client = "connected", server # "idle", toServer = <<>>
      PROVE  server = "disconnecting" \/ Unfinished(serverBuf)
  <2>1. server # "down"
    BY <1>2 DEF Inv, Types
  <2>2. ASSUME server = "connected", ~Unfinished(serverBuf) PROVE FALSE
    <3>1. OddOnItsWay
      BY <1>2, <2>2 DEF Inv, Odd, OddWaits
    <3>2. PICK f \in OddFrames : InTransit(f, serverBuf, toServer)
      BY <3>1 DEF OddOnItsWay
    <3>3. FiveUnits(f)
      BY OddFramesRefused DEF Refused
    <3> QED BY <1>2, <3>2, <3>3, TransitLens
  <2> QED BY <1>2, <2>1, <2>2 DEF Inv, Types, ConnStates
<1> QED BY <1>1, <1>2 DEF OddFrameGetsNoGame

-------------------------------------------------------------------------------
\* The tiles are bounded to begin with.
LEMMA BoundedInit == Init => Bounded
<1> SUFFICES ASSUME Init PROVE Bounded
  OBVIOUS
<1>1. PICK b \in AddRandTile(EmptyBoard) :
        dummy_ \in IF peer = "other" THEN {EmptyBoard} ELSE AddRandTile(b)
  BY Zenon DEF Init
<1>2. ai = EmptyBoard
  BY DEF Init
<1>3. \A p \in Cells : dummy_[p] \in {0, 1, 2}
  <2>1. CASE peer = "other"
    BY <1>1, <2>1, EmptyBoardType
  <2>2. CASE peer # "other"
    BY <1>1, <2>2, InitialBoard
  <2> QED BY <2>1, <2>2
<1> QED BY <1>2, <1>3, EmptyBoardType, BoardAssumption DEF Bounded, ClientBounded, ServerBounded

\* The client's move: its board was below the winning tile, and the move adds
\* one to a tile at most.
LEMMA BoundedMove ==
    ASSUME Inv, Bounded, ClientMoves
    PROVE  /\ \A p \in Cells : dummy_'[p] <= WinTile
           /\ isOver' = FALSE => \A p \in Cells : dummy_'[p] < WinTile
<1>1. PICK dir \in Dirs : \E board \in AddRandTile(TryMove(dummy_, dir).tiles) :
        /\ Justified(dummy_, dir, starved)
        /\ dummy_' = board /\ isOver' = (~TryMove(dummy_, dir).can_move \/ IsWin(board))
  BY Zenon DEF ClientMoves
<1> DEFINE moved == TryMove(dummy_, dir)
<1>2. PICK board \in AddRandTile(moved.tiles) :
        dummy_' = board /\ isOver' = (~moved.can_move \/ IsWin(board))
  BY <1>1, Zenon
<1>3. dummy_ \in Tiles /\ WinTile \in Nat /\ WinTile >= 3 /\ WinTile - 1 \in Nat
  BY BoardAssumption DEF Inv, Types
<1>4. \A p \in Cells : dummy_[p] < WinTile /\ dummy_[p] \in Nat
  BY <1>3 DEF Bounded, ClientBounded, ServerBounded, ClientMoves, Tiles
<1>5. \A p \in Cells : dummy_[p] <= WinTile - 1
  BY <1>3, <1>4
<1>6. moved.tiles \in Tiles
  BY <1>3, TryMoveType
<1>7. \A p \in Cells : moved.tiles[p] <= (WinTile - 1) + 1
  BY <1>3, <1>5, TryMoveBound
<1> HIDE DEF moved
<1>8. /\ board \in Tiles
      /\ \A p \in Cells : board[p] = moved.tiles[p] \/ (moved.tiles[p] = 0 /\ board[p] \in {1, 2})
  BY <1>6, RandTile
<1>9. \A p \in Cells : board[p] <= WinTile /\ board[p] \in Nat
  BY <1>3, <1>7, <1>8 DEF Tiles
<1>10. isOver' = FALSE => \A p \in Cells : board[p] # WinTile
  BY <1>2, Zenon DEF IsWin
<1>11. isOver' = FALSE => \A p \in Cells : board[p] < WinTile
  BY <1>3, <1>9, <1>10
<1> QED BY <1>2, <1>9, <1>11

\* In a game the server's board is within bounds if the client's is: it lacks
\* new tiles only, or is one move ahead of a board below the winning tile.
InGame == peer = "AI2048Client" /\ client = "connected" /\ server = "connected"

LEMMA MirrorBounded == Inv /\ InGame /\ ClientBounded => ServerBounded
<1> SUFFICES ASSUME Inv, InGame, ClientBounded PROVE ServerBounded
  OBVIOUS
<1>1. dummy_ \in Tiles /\ ai \in Tiles /\ WinTile \in Nat /\ WinTile >= 3 /\ WinTile - 1 \in Nat
  BY BoardAssumption DEF Inv, Types
<1>2. CASE Mirrored
  <2>1. ASSUME NEW p \in Cells, ai[p] # 0 PROVE dummy_[p] = ai[p]
    BY <1>2, <2>1 DEF Mirrored, AddComputerMove
  <2> QED BY <1>1, <2>1 DEF ClientBounded, ServerBounded, Tiles
<1>3. CASE MoveOnItsWay
  <2>1. PICK dir \in Dirs : ai = TryMove(dummy_, dir).tiles
    BY <1>3, Zenon DEF MoveOnItsWay
  <2>2. \A p \in Cells : dummy_[p] < WinTile /\ dummy_[p] \in Nat
    BY <1>1, <1>3 DEF ClientBounded, MoveOnItsWay, Tiles
  <2>3. \A p \in Cells : dummy_[p] <= WinTile - 1
    BY <1>1, <2>2
  <2>4. \A p \in Cells : TryMove(dummy_, dir).tiles[p] <= (WinTile - 1) + 1
    BY <1>1, <2>3, TryMoveBound
  <2> QED BY <1>1, <2>1, <2>4 DEF ServerBounded
<1> QED BY <1>2, <1>3 DEF Inv, Game, InGame

LEMMA MirrorBoundedNext == (Inv /\ InGame /\ ClientBounded => ServerBounded)'
BY MirrorBounded, PTL

\* A read of the server changes its board only if it goes on with the game.
LEMMA ServerKeeps ==
    ASSUME NEW n, ServerRead(n)
    PROVE  /\ UNCHANGED <<peer, dummy_, client, isOver>>
           /\ server \in {"connected", "disconnecting"}
           /\ UNCHANGED ai \/ UNCHANGED server
<1> DEFINE got == onMessage(serverBuf \o SubSeq(toServer, 1, n))
           left == SubSeq(toServer, n + 1, Len(toServer))
<1>1. ServerReads(n, got, left)
  BY ServerReadIs
<1> HIDE DEF got, left
<1>2. /\ UNCHANGED <<peer, dummy_, client, clientBuf, isOver>>
      /\ server \in {"connected", "disconnecting"}
      /\ got.result = "wait" => UNCHANGED <<ai, server, toClient, starved>>
      /\ got.result = "message" => onProtobufMessage(got.message)
      /\ got.result \notin {"wait", "message"} => ShutDown
  BY <1>1, Zenon DEF ServerReads
<1>3. ShutDown => UNCHANGED ai
  BY DEF ShutDown
<1>4. ASSUME NEW message, OnCSAI2048Tile(message) PROVE ShutDown \/ UNCHANGED server
  BY <1>4, Zenon DEF OnCSAI2048Tile
<1>5. got.result = "message" => ShutDown \/ UNCHANGED server
  BY <1>2, <1>4, Zenon DEF onProtobufMessage
<1> QED BY <1>2, <1>3, <1>5

LEMMA BoundedStep == Inv /\ Bounded /\ [Next]_vars => Bounded'
<1> SUFFICES ASSUME Inv, Bounded, [Next]_vars PROVE Bounded'
  OBVIOUS
<1>1. dummy_ \in Tiles /\ ai \in Tiles /\ WinTile \in Nat /\ WinTile >= 3
  BY BoardAssumption DEF Inv, Types
<1>2. \A p \in Cells : EmptyBoard[p] <= WinTile
  BY <1>1, EmptyBoardType
<1>3. ASSUME UNCHANGED <<dummy_, isOver>>, UNCHANGED ai \/ ai' = EmptyBoard PROVE Bounded'
  BY <1>2, <1>3 DEF Bounded, ClientBounded, ServerBounded
<1>4. CASE ClientUp
  <2>1. UNCHANGED <<dummy_, ai>>
    BY <1>4 DEF ClientUp
  <2>2. CASE peer = "AI2048Client"
    <3>1. client = "idle"
      BY <1>4 DEF ClientUp
    <3>2. \A p \in Cells : dummy_[p] \in {0, 1, 2}
      BY <2>2, <3>1 DEF Inv, Types, Game
    <3>3. \A p \in Cells : dummy_[p] < WinTile
      BY <1>1, <3>2
    <3> QED BY <2>1, <3>3 DEF Bounded, ClientBounded, ServerBounded
  <2>3. CASE peer # "AI2048Client"
    <3>1. UNCHANGED isOver
      BY <1>4, <2>3 DEF ClientUp
    <3> QED BY <1>3, <2>1, <3>1
  <2> QED BY <2>2, <2>3
<1>5. CASE ServerUp
  BY <1>3, <1>5 DEF ServerUp
<1>6. ASSUME NEW n \in Reads(toClient), ClientRead(n) PROVE Bounded'
  <2>1. UNCHANGED ai
    BY <1>6 DEF ClientRead
  <2>2. UNCHANGED <<dummy_, isOver>> \/ ClientMoves
    BY <1>6, ClientReadInv
  <2>3. CASE UNCHANGED <<dummy_, isOver>>
    BY <1>3, <2>1, <2>3
  <2>4. CASE ClientMoves
    <3>1. /\ \A p \in Cells : dummy_'[p] <= WinTile
          /\ isOver' = FALSE => \A p \in Cells : dummy_'[p] < WinTile
      BY <2>4, BoundedMove
    <3> QED BY <2>1, <3>1 DEF Bounded, ClientBounded, ServerBounded
  <2> QED BY <2>2, <2>3, <2>4
<1>7. ASSUME NEW n \in Reads(toServer), ServerRead(n) PROVE Bounded'
  <2>1. /\ UNCHANGED <<peer, dummy_, client, isOver>>
        /\ server \in {"connected", "disconnecting"}
        /\ UNCHANGED ai \/ UNCHANGED server
    BY <1>7, ServerKeeps
  <2>2. Inv'
    BY InvStep
  <2>3. CASE UNCHANGED ai
    BY <1>3, <2>1, <2>3
  <2>4. CASE UNCHANGED server /\ peer = "AI2048Client"
    <3>1. toServer # <<>>
      BY <1>7, NoReads
    <3>2. client = "connected"
      BY <2>1, <2>4, <3>1 DEF Inv, Types, Game
    <3>5. server = "connected"
      BY <2>1, <2>4, <3>1, <3>2 DEF Inv, Game
    <3>3. ClientBounded'
      BY <2>1 DEF Bounded, ClientBounded
    <3>4. InGame'
      BY <2>1, <2>4, <3>2, <3>5 DEF InGame
    <3> QED BY <2>2, <3>3, <3>4, MirrorBoundedNext DEF Bounded
  <2>5. CASE peer = "other"
    <3>1. ai' = EmptyBoard
      BY <2>1, <2>2, <2>5 DEF Inv, Odd
    <3> QED BY <1>3, <2>1, <3>1
  <2> QED BY <2>1, <2>3, <2>4, <2>5 DEF Inv, Types
<1>8. CASE ClientDown
  BY <1>3, <1>8 DEF ClientDown
<1>9. CASE ServerDown
  BY <1>3, <1>9 DEF ServerDown
<1>10. CASE Break
  BY <1>3, <1>10 DEF Break
<1>11. CASE UNCHANGED vars
  BY <1>3, <1>11 DEF vars
<1> QED BY <1>4, <1>5, <1>6, <1>7, <1>8, <1>9, <1>10, <1>11, Zenon DEF Next

-------------------------------------------------------------------------------
\* The client's board is never empty, and what it gives up is over.
HasTile(tiles) == \E p \in Cells : tiles[p] # 0
Real == (peer = "AI2048Client" => HasTile(dummy_)) /\ GameOverIsReal

\* AddRandTile leaves a tile on the board, or left the full one alone.
LEMMA RandTilePuts ==
    ASSUME NEW tiles \in Tiles, NEW board \in AddRandTile(tiles)
    PROVE  HasTile(board)
<1>1. CASE GetAllEmptyPos(tiles) = {}
  <2>1. board = tiles
    BY <1>1 DEF AddRandTile
  <2>2. 0 \in Cells /\ tiles[0] # 0
    BY <1>1, CellsFacts DEF GetAllEmptyPos
  <2> QED BY <2>1, <2>2 DEF HasTile
<1>2. CASE GetAllEmptyPos(tiles) # {}
  <2>1. PICK p \in GetAllEmptyPos(tiles), v \in {1, 2} : board = [tiles EXCEPT ![p] = v]
    BY <1>2 DEF AddRandTile
  <2>2. p \in Cells /\ board[p] = v
    BY <2>1 DEF GetAllEmptyPos, Tiles
  <2>3. v # 0
    OBVIOUS
  <2> QED BY <2>2, <2>3 DEF HasTile
<1> QED BY <1>1, <1>2

LEMMA RealInit == Init => Real
<1> SUFFICES ASSUME Init PROVE Real
  OBVIOUS
<1>1. PICK b \in AddRandTile(EmptyBoard) :
        dummy_ \in IF peer = "other" THEN {EmptyBoard} ELSE AddRandTile(b)
  BY Zenon DEF Init
<1>2. b \in Tiles
  BY RandTile, EmptyBoardType
<1>3. peer = "AI2048Client" => HasTile(dummy_)
  BY <1>1, <1>2, RandTilePuts
<1> QED BY <1>3 DEF Init, Real, GameOverIsReal

\* The client's move. If nothing moved for want of a move, the board is full, no
\* tile is added, and it is the same board that is given up.
LEMMA RealMove ==
    ASSUME Inv, HasTile(dummy_), ClientMoves, UNCHANGED starved
    PROVE  HasTile(dummy_') /\ GameOverIsReal'
<1>1. PICK dir \in Dirs : \E board \in AddRandTile(TryMove(dummy_, dir).tiles) :
        /\ Justified(dummy_, dir, starved)
        /\ dummy_' = board /\ isOver' = (~TryMove(dummy_, dir).can_move \/ IsWin(board))
  BY Zenon DEF ClientMoves
<1>2. PICK board \in AddRandTile(TryMove(dummy_, dir).tiles) :
        /\ Justified(dummy_, dir, starved)
        /\ dummy_' = board /\ isOver' = (~TryMove(dummy_, dir).can_move \/ IsWin(board))
  BY <1>1, Zenon
<1>3. dummy_ \in Tiles /\ TryMove(dummy_, dir).tiles \in Tiles
  BY TryMoveType DEF Inv, Types
<1>4. HasTile(board)
  BY <1>3, RandTilePuts
<1>5. CASE TryMove(dummy_, dir).can_move
  <2>1. isOver' => IsWin(board)
    BY <1>2, <1>5, Zenon
  <2> QED BY <1>2, <1>4, <2>1 DEF GameOverIsReal
<1>6. CASE ~TryMove(dummy_, dir).can_move /\ ~starved
  <2>1. ~CanMove(dummy_)
    BY <1>2, <1>6 DEF Justified
  <2>2. TryMove(dummy_, dir).tiles = dummy_
    BY <1>3, <1>6, NoMoveKeeps
  <2>3. GetAllEmptyPos(dummy_) = {}
    BY <1>3, <2>1, StuckIsFull DEF HasTile
  <2>4. board = dummy_
    BY <1>2, <2>2, <2>3 DEF AddRandTile
  <2> QED BY <1>2, <1>4, <2>1, <2>4 DEF GameOverIsReal
<1>7. CASE starved
  BY <1>2, <1>4, <1>7 DEF GameOverIsReal
<1> QED BY <1>5, <1>6, <1>7

LEMMA RealStep == Inv /\ Bounded /\ Real /\ [Next]_vars => Real'
<1> SUFFICES ASSUME Inv, Bounded, Real, [Next]_vars PROVE Real'
  OBVIOUS
<1>1. ASSUME UNCHANGED <<peer, dummy_, isOver, starved>> PROVE Real'
  BY <1>1 DEF Real, GameOverIsReal
<1>2. CASE ClientUp
  <2>1. UNCHANGED <<peer, dummy_, starved>>
    BY <1>2 DEF ClientUp
  <2>2. CASE peer = "AI2048Client"
    <3>1. isOver' = (FALSE \/ IsWin(dummy_))
      BY <1>2, <2>2, Zenon DEF ClientUp, SendTileDataToServer
    <3>2. isOver' => IsWin(dummy_)
      BY <3>1, Zenon
    <3> QED BY <2>1, <3>2 DEF Real, GameOverIsReal
  <2>3. CASE peer # "AI2048Client"
    <3>1. UNCHANGED isOver
      BY <1>2, <2>3 DEF ClientUp
    <3> QED BY <1>1, <2>1, <3>1
  <2> QED BY <2>2, <2>3
<1>3. CASE ServerUp
  BY <1>1, <1>3 DEF ServerUp
<1>4. ASSUME NEW n \in Reads(toClient), ClientRead(n) PROVE Real'
  <2>1. UNCHANGED <<peer, starved>> /\ peer = "AI2048Client"
    BY <1>4, ClientReads DEF ClientRead
  <2>2. UNCHANGED <<dummy_, isOver>> \/ ClientMoves
    BY <1>4, ClientReadInv
  <2>3. CASE UNCHANGED <<dummy_, isOver>>
    BY <1>1, <2>1, <2>3
  <2>4. CASE ClientMoves
    <3>1. HasTile(dummy_') /\ GameOverIsReal'
      BY <2>1, <2>4, RealMove DEF Real
    <3> QED BY <3>1 DEF Real
  <2> QED BY <2>2, <2>3, <2>4
<1>5. ASSUME NEW n \in Reads(toServer), ServerRead(n) PROVE Real'
  <2>1. UNCHANGED <<peer, dummy_, isOver>>
    BY <1>5, ServerKeeps
  <2>2. isOver = FALSE => Real'
    BY <2>1 DEF Real, GameOverIsReal
  <2>3. ASSUME isOver = TRUE PROVE UNCHANGED starved
    <3>1. peer = "AI2048Client"
      BY <2>3 DEF Inv, Types, Odd
    <3> QED BY <1>5, <2>3, <3>1, GameServerRead DEF Bounded
  <2>4. isOver \in BOOLEAN
    BY DEF Inv, Types
  <2> QED BY <1>1, <2>1, <2>2, <2>3, <2>4
<1>6. CASE ClientDown
  BY <1>1, <1>6 DEF ClientDown
<1>7. CASE ServerDown
  BY <1>1, <1>7 DEF ServerDown
<1>8. CASE Break
  BY <1>1, <1>8 DEF Break
<1>9. CASE UNCHANGED vars
  BY <1>1, <1>9 DEF vars
<1> QED BY <1>2, <1>3, <1>4, <1>5, <1>6, <1>7, <1>8, <1>9, Zenon DEF Next

-------------------------------------------------------------------------------
\* At most one frame waits, at either end.
LEMMA OneFrame ==
    ASSUME Inv
    PROVE  Len(serverBuf) + Len(toServer) + Len(clientBuf) + Len(toClient) <= 5
<1>1. Len(<<>>) = 0
  OBVIOUS
<1>2. ASSUME NEW m, NEW n, NEW k, NEW l, m \in Nat, n \in Nat, k = 0, l = 0, m + n <= 5
      PROVE  /\ m + n + k + l <= 5 /\ k + l + m + n <= 5 /\ m + k + n + l <= 5
  BY <1>2
<1>3. CASE client = "idle"
  <2>1. serverBuf = <<>> /\ toServer = <<>> /\ clientBuf = <<>> /\ toClient = <<>>
    BY <1>3 DEF Inv, Types
  <2>2. Fits(serverBuf, toServer) /\ Len(clientBuf) = 0 /\ Len(toClient) = 0
    BY <1>1, <2>1, EmptyFits
  <2> QED BY <1>2, <2>2, Zenon DEF Fits
<1>4. CASE peer = "other"
  <2>1. Fits(serverBuf, toServer) /\ Len(clientBuf) = 0 /\ Len(toClient) = 0
    BY <1>1, <1>4 DEF Inv, Odd
  <2> QED BY <1>2, <2>1, Zenon DEF Fits
<1>5. CASE peer = "AI2048Client" /\ client = "down"
  <2>1. Fits(serverBuf, clientBuf) /\ Len(toServer) = 0 /\ Len(toClient) = 0
    BY <1>1, <1>5 DEF Inv, Game
  <2> QED BY <1>2, <2>1, Zenon DEF Fits
<1>6. CASE BoardOnItsWay
  <2> DEFINE f == fillEmptyBuffer(Tile(GetAllTiles(dummy_), isOver))
  <2>1. FiveUnits(f)
    BY FilledFrame, Zenon DEF Fields
  <2>2. InTransit(f, serverBuf, toServer)
    BY <1>6, Zenon DEF BoardOnItsWay
  <2> HIDE DEF f
  <2>3. Fits(serverBuf, toServer)
    BY <2>1, <2>2, TransitFits
  <2>4. Len(clientBuf) = 0 /\ Len(toClient) = 0
    BY <1>1, <1>6 DEF BoardOnItsWay
  <2> QED BY <1>2, <2>3, <2>4, Zenon DEF Fits
<1>7. CASE MoveOnItsWay
  <2>1. PICK dir \in Dirs : InTransit(fillEmptyBuffer(Move(MoveTypes[dir + 1])), clientBuf, toClient)
    BY <1>7, Zenon DEF MoveOnItsWay
  <2> DEFINE f == fillEmptyBuffer(Move(MoveTypes[dir + 1]))
  <2>2. FiveUnits(f)
    BY FilledFrame, Zenon DEF Fields
  <2>3. InTransit(f, clientBuf, toClient)
    BY <2>1
  <2> HIDE DEF f
  <2>4. Fits(clientBuf, toClient)
    BY <2>2, <2>3, TransitFits
  <2>5. Len(serverBuf) = 0 /\ Len(toServer) = 0
    BY <1>1, <1>7 DEF MoveOnItsWay
  <2> QED BY <1>2, <2>4, <2>5, Zenon DEF Fits
<1>8. CASE peer = "AI2048Client" /\ client = "connected" /\ server = "disconnecting"
  <2>1. serverBuf = <<>> /\ toServer = <<>> /\ clientBuf = <<>> /\ toClient = <<>>
    BY <1>8 DEF Inv, Game
  <2>2. Fits(serverBuf, toServer) /\ Len(clientBuf) = 0 /\ Len(toClient) = 0
    BY <1>1, <2>1, EmptyFits
  <2> QED BY <1>2, <2>2, Zenon DEF Fits
<1> QED BY <1>3, <1>4, <1>5, <1>6, <1>7, <1>8 DEF Inv, Types, Game, ConnStates

LEMMA InvTypes == Inv /\ Bounded => TypeOK
<1> SUFFICES ASSUME Inv, Bounded PROVE TypeOK
  OBVIOUS
<1>1. /\ peer \in {"AI2048Client", "other"} /\ dummy_ \in Tiles /\ ai \in Tiles
      /\ client \in ConnStates /\ server \in ConnStates
      /\ isOver \in BOOLEAN /\ starved \in BOOLEAN
  BY DEF Inv, Types, ConnStates
<1>2. dummy_ \in Boards /\ ai \in Boards
  BY <1>1, BoardAssumption DEF Bounded, ClientBounded, ServerBounded, Tiles, Boards
<1> QED BY <1>1, <1>2, OneFrame DEF TypeOK

LEMMA InvAlways == Spec => [](Inv /\ Bounded)
<1>1. Init => Inv /\ Bounded
  BY InvInit, BoundedInit
<1>2. Inv /\ Bounded /\ [Next]_vars => (Inv /\ Bounded)'
  BY InvStep, BoundedStep
<1> QED BY <1>1, <1>2, PTL DEF Spec

\* The types hold: no tile outgrows the winning one, although the server moves on
\* a board it was never sent whole, and at most one frame waits at either end.
THEOREM GameTypes == Spec => []TypeOK
<1> QED BY InvAlways, InvTypes, PTL

\* The two boards stay in step for every board size, number of searches and cut
\* of the stream: what the server adds, moves and sends is what the client holds.
THEOREM BoardsMirror == Spec => []ServerMirrorsClient
<1> QED BY InvAlways, InvMirrors, PTL

\* A frame with any of its fields wrong, its length within the limits included, gets no game,
\* whatever the cuts of the stream: its sender is shut out, or the server waits for what the frame
\* announced and has not brought.
THEOREM OddFramesGetNoGame == Spec => []OddFrameGetsNoGame
<1> QED BY InvAlways, InvShutsOut, PTL

\* The client gives the game up only when it is won or no move is left, unless
\* the server's clock left it no search: the server's answer to a board with a
\* move is a move, for its first search finds one whatever the boards are worth.
THEOREM GameOversAreReal == Spec => []GameOverIsReal
<1>1. Init => Inv /\ Bounded /\ Real
  BY InvInit, BoundedInit, RealInit
<1>2. (Inv /\ Bounded /\ Real) /\ [Next]_vars => (Inv /\ Bounded /\ Real)'
  BY InvStep, BoundedStep, RealStep
<1>3. Real => GameOverIsReal
  BY DEF Real
<1> QED BY <1>1, <1>2, <1>3, PTL DEF Spec
===============================================================================
