------------------------------ MODULE MazeMap ------------------------------
(* The layout of the maze array of empee2/maze.c and what the blocks of the *)
(* display show of it. The array has one dimension; its column 0 is also    *)
(* the right boundary of the row above, and a row of walls is added above   *)
(* and below. A cell is the set of its bits; the three bits of a fruit's    *)
(* kind are the one bit "fruit". xd and yd are maze_x_dim and maze_y_dim.   *)
EXTENDS Integers

NONE == {}
WALL == {"wall"}
Bits == {"wall", "fruit", "exit", "reach"}

Up == 0
Right == 1
Down == 2
Left == 3
Dirs == {Up, Right, Down, Left}

MAZE_INDEX(xd, a, b) == a + (b + 1) * (2 * xd)

(* The array as far as a maze of this size uses it.                         *)
CellsOf(xd, yd) == 0 .. (2 * xd * (2 * yd + 3))

(* The (odd, odd) lattice points.                                           *)
RoomsOf(xd, yd) == {<<2 * i + 1, 2 * j + 1>> : i \in 0 .. (xd - 1), j \in 0 .. (yd - 1)}

Toward(p, d, n) == CASE d = Up    -> <<p[1], p[2] - n>>
                     [] d = Right -> <<p[1] + n, p[2]>>
                     [] d = Down  -> <<p[1], p[2] + n>>
                     [] d = Left  -> <<p[1] - n, p[2]>>

(* find_block: which of the images of blocks.s a lattice point is drawn as. *)
(* A wall's image is chosen by which of its four neighbours are walls.      *)
find_block(m, xd, n_fruits, p) ==
    LET bits == m[MAZE_INDEX(xd, p[1], p[2])]
        walls == {d \in Dirs : LET q == Toward(p, d, 1)
                               IN  "wall" \in m[MAZE_INDEX(xd, q[1], q[2])]}
    IN  CASE n_fruits = 0 /\ "exit" \in bits -> <<"exit">>
          [] ~(n_fruits = 0 /\ "exit" \in bits) /\ "reach" \notin bits ->
                IF "fruit" \in bits THEN <<"fruit shadow">> ELSE <<"shadow">>
          [] OTHER -> IF "fruit" \in bits THEN <<"fruit">>
                      ELSE IF "wall" \notin bits THEN <<"empty">>
                      ELSE <<"wall", walls>>
=============================================================================
