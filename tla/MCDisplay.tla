----------------------------- MODULE MCDisplay -----------------------------
(* Display with blocks of two pixels, a window of eight pixels by six and   *)
(* mazes that scroll on both axes.                                          *)
EXTENDS Display

Room(x, y, squares, way_out, fruit) ==
    [x_dim |-> x, y_dim |-> y, open |-> squares, exit |-> way_out, fruits |-> fruit]

(* A fork: down to the exit, which appears when the fruit to the right, at  *)
(* the end of a corridor with a turn, is eaten; and a corridor along the    *)
(* other two sides.                                                         *)
Fork == Room(3, 2, {<<1, 1>>, <<1, 2>>, <<1, 3>>, <<2, 1>>, <<3, 1>>, <<4, 1>>, <<5, 1>>,
                    <<5, 2>>, <<5, 3>>},
             <<1, 3>>, {<<5, 3>>})
Corner == Room(3, 2, {<<1, 1>>, <<1, 2>>, <<1, 3>>, <<2, 3>>, <<3, 3>>, <<4, 3>>, <<5, 3>>},
               <<5, 3>>, {<<3, 3>>})
TwoMazes == {Fork, Corner}
AllButCorner == 1 .. 3
=============================================================================
