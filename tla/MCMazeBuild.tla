---------------------------- MODULE MCMazeBuild ----------------------------
(* MazeBuild for mazes of two by two, three by two and two by three rooms.  *)
EXTENDS MazeBuild
ThreeSizes == {<<2, 2>>, <<3, 2>>, <<2, 3>>}
=============================================================================
