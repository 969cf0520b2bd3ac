----------------------------- MODULE MCMazeGame -----------------------------
(* MazeGame in mazes of two by two rooms, with blocks of three pixels and a *)
(* view that is smaller than the maze on both axes.                         *)
EXTENDS MazeGame

Room(squares, way_out, fruit) ==
    [x_dim |-> 2, y_dim |-> 2, open |-> squares, exit |-> way_out,
     fruits |-> fruit]

(* A corridor with one turn; the way to the exit passes the fruit. *)
Turn == Room({<<1, 1>>, <<2, 1>>, <<3, 1>>, <<3, 2>>, <<3, 3>>},
             <<3, 3>>, {<<3, 1>>})
OneTurn == {Turn}

Across == Room({<<1, 1>>, <<2, 1>>, <<3, 1>>, <<3, 3>>}, <<3, 1>>, {<<1, 1>>})
OneCorridor == {Across}
=============================================================================
