----------------------------- MODULE MazeBuild -----------------------------
(* make_maze of empee2/maze.c, step by step: the worms that dig the maze,  *)
(* the phase that connects what they left apart, the fruit and the exit.   *)
(* The maze is the array of MazeMap.                                       *)
EXTENDS MazeMap, FiniteSets

CONSTANTS
    Sizes,          \* the <<x_dim, y_dim>> of the levels played
    StartFruits,    \* fruit in a new maze
    GOD_MODE,       \* compiled with the walls taken away at the end
    ScanBelow,      \* 20: with fewer rooms left, scan rather than guess
    MaxTrials       \* 100: guesses before scanning

ASSUME SizesAssumption ==
    Sizes \subseteq (Nat \ {0, 1}) \X (Nat \ {0, 1}) /\ Sizes # {}
ASSUME FruitAssumption ==
    StartFruits \in Nat /\ \A s \in Sizes : StartFruits < s[1] * s[2]
ASSUME ModeAssumption ==
    GOD_MODE \in BOOLEAN /\ ScanBelow \in Nat /\ MaxTrials \in Nat

VARIABLES
    phase,      \* where make_maze is
    size,       \* maze_x_dim and maze_y_dim
    maze,
    remaining, trials,
    at,         \* x and y: the worm, or the room being looked at
    pref_dir,
    n_fruits, exit
buildVars == <<phase, size, maze, remaining, trials, at, pref_dir, n_fruits, exit>>

-----------------------------------------------------------------------------
W == 2 * size[1]
Index(p) == MAZE_INDEX(size[1], p[1], p[2])
Cell(m, p) == m[Index(p)]
Cells == CellsOf(size[1], size[2])
Rooms == RoomsOf(size[1], size[2])

(* The lattice points inside the boundary.                                  *)
Inside == (1 .. (W - 1)) \X (1 .. (2 * size[2] - 1))

(* How far the neighbour in a direction is in the array.                    *)
Step(d) == CASE d = Up -> -W [] d = Right -> 1 [] d = Down -> W [] d = Left -> -1

(* The tests y > 1, x < 2X - 1, y < 2Y - 1 and x > 1 of the code.           *)
InMaze_wide(p, d) == CASE d = Up    -> p[2] > 1                         \* faulty
                       [] d = Right -> p[1] < W
                       [] d = Down  -> p[2] < 2 * size[2] - 1
                       [] d = Left  -> p[1] > 1
InMaze(p, d) == CASE d = Up    -> p[2] > 1
                  [] d = Right -> p[1] < W - 1
                  [] d = Down  -> p[2] < 2 * size[2] - 1
                  [] d = Left  -> p[1] > 1

(* mark_maze_area: the rooms not marked yet that its breadth-first search   *)
(* enters from the rooms found, each on the far side of an open space, and  *)
(* in the end all it enters from room s. The order of its queue does not    *)
(* matter.                                                                  *)
Entered(m, found) ==
    {c \in Cells \ found : \E d \in Dirs : /\ c - 2 * Step(d) \in found
                                          /\ "wall" \notin m[c - Step(d)]
                                          /\ "reach" \notin m[c]}
AreaFrom(m, s) ==
    LET Area[found \in SUBSET Cells] ==
            LET new == Entered(m, found)
            IN  IF new = {} THEN found ELSE Area[found \cup new]
    IN  Area[{s}]

MarkArea(m, s) == LET area == AreaFrom(m, s)
                  IN  [c \in Cells |-> IF c \in area THEN m[c] \cup {"reach"} ELSE m[c]]

-----------------------------------------------------------------------------
(* The worms.                                                               *)

Walls(s) == [c \in CellsOf(s[1], s[2]) |-> WALL]

BuildInit ==
    /\ size \in Sizes
    /\ maze = Walls(size)
    /\ remaining = size[1] * size[2]
    /\ phase = "drop"
    /\ at = <<1, 1>>
    /\ pref_dir = Up
    /\ trials = 0
    /\ n_fruits = 0
    /\ exit = <<0, 0>>

(* A worm starts on a room that is still a wall.                            *)
DropWorm ==
    /\ phase = "drop"
    /\ \E p \in Rooms, d \in Dirs :
          /\ "wall" \in Cell(maze, p)
          /\ at' = p
          /\ pref_dir' = d
          /\ maze' = [maze EXCEPT ![Index(p)] = NONE]
    /\ remaining' = remaining - 1
    /\ phase' = "crawl"
    /\ UNCHANGED <<size, trials, n_fruits, exit>>

TurnsAround(d) == (d - pref_dir + 4) % 4 = 2

(* The rooms left when the worm comes to p.                                 *)
Buried_always(p) == remaining - 1                                       \* faulty
Buried(p) == IF Cell(maze, p) = WALL THEN remaining - 1 ELSE remaining

(* Every weight of turn_wt is positive, so any direction inside the maze    *)
(* may be picked.                                                           *)
Crawl ==
    /\ phase = "crawl"
    /\ \E d \in Dirs :
          LET p == Toward(at, d, 2)
              between == Toward(at, d, 1)
          IN  /\ InMaze(at, d)
              /\ ~TurnsAround(d)
              /\ at' = p
              /\ pref_dir' = d
              /\ maze' = [maze EXCEPT ![Index(between)] = NONE,
                                      ![Index(p)] = NONE]
              /\ remaining' = Buried(p)
    /\ UNCHANGED <<phase, size, trials, n_fruits, exit>>

StopWorm ==
    /\ phase = "crawl"
    /\ \E d \in Dirs : InMaze(at, d) /\ TurnsAround(d)
    /\ IF remaining > 0
         THEN /\ phase' = "drop"
              /\ UNCHANGED <<maze, remaining, trials>>
         ELSE /\ phase' = "connect"
              /\ maze' = MarkArea(maze, Index(<<1, 1>>))
              /\ remaining' = size[1] * size[2]
                              - Cardinality(AreaFrom(maze, Index(<<1, 1>>)))
              /\ trials' = 0
    /\ UNCHANGED <<size, at, pref_dir, n_fruits, exit>>

-----------------------------------------------------------------------------
(* The second phase: knock down a wall between a room not reached and one   *)
(* that is.                                                                 *)

(* The directions in which the code looks for a reached neighbour, in its   *)
(* order.                                                                   *)
Preference == <<Up, Left, Right, Down>>

Openings(p) == {i \in 1 .. 4 : /\ InMaze(p, Preference[i])
                              /\ "reach" \in Cell(maze, Toward(p, Preference[i], 2))}

(* The first of them wins; with none, the room is left for later.           *)
Join(p) ==
    IF Openings(p) = {}
      THEN UNCHANGED <<maze, remaining>>
      ELSE LET i == CHOOSE k \in Openings(p) : \A j \in Openings(p) : k <= j
               between == Toward(p, Preference[i], 1)
               joined == [maze EXCEPT ![Index(between)] = NONE]
               here == Index(p)
           IN  /\ maze' = MarkArea(joined, here)
               /\ remaining' = remaining - Cardinality(AreaFrom(joined, here))

NextRoom(p) == IF p[1] + 2 > W
                 THEN <<p[1] + 2 - W, IF p[2] + 2 > 2 * size[2]
                                        THEN p[2] + 2 - 2 * size[2] ELSE p[2] + 2>>
                 ELSE <<p[1] + 2, p[2]>>

LoopEnds_early == phase' = IF remaining' > 1 THEN "connect" ELSE "clear" \* faulty
LoopEnds == phase' = IF remaining' > 0 THEN "connect" ELSE "clear"

(* trials is capped: past MaxTrials it only matters that it is past it.     *)
Scan ==
    /\ phase = "connect"
    /\ remaining < ScanBelow \/ trials + 1 > MaxTrials
    /\ trials' = IF remaining < ScanBelow \/ trials > MaxTrials THEN trials ELSE trials + 1
    /\ at' = NextRoom(at)
    /\ IF "reach" \in Cell(maze, at')
         THEN UNCHANGED <<maze, remaining>>
         ELSE Join(at')
    /\ LoopEnds
    /\ UNCHANGED <<size, pref_dir, n_fruits, exit>>

Guess ==
    /\ phase = "connect"
    /\ remaining >= ScanBelow /\ trials + 1 <= MaxTrials
    /\ trials' = trials + 1
    /\ \E p \in Rooms : /\ "reach" \notin Cell(maze, p)
                        /\ at' = p
                        /\ Join(p)
    /\ LoopEnds
    /\ UNCHANGED <<size, pref_dir, n_fruits, exit>>

-----------------------------------------------------------------------------
(* The marks are removed, with GOD_MODE the inner walls too; then fruit and *)
(* exit.                                                                    *)

ClearMarks ==
    /\ phase = "clear"
    /\ maze' = [c \in Cells |->
                    IF GOD_MODE /\ \E p \in Inside : c = Index(p) THEN NONE
                    ELSE IF \E p \in Rooms : c = Index(p) THEN maze[c] \ {"reach"}
                    ELSE maze[c]]
    /\ n_fruits' = 0
    /\ phase' = "furnish"
    /\ UNCHANGED <<size, remaining, trials, at, pref_dir, exit>>

(* _add_a_fruit and the choice of the exit take a room without fruit.       *)
Unfruited == {p \in Rooms : "fruit" \notin Cell(maze, p)}

AddFruit ==
    /\ phase = "furnish" /\ n_fruits < StartFruits
    /\ \E p \in Unfruited : maze' = [maze EXCEPT ![Index(p)] = @ \cup {"fruit"}]
    /\ n_fruits' = n_fruits + 1
    /\ UNCHANGED <<phase, size, remaining, trials, at, pref_dir, exit>>

AddExit ==
    /\ phase = "furnish" /\ n_fruits = StartFruits
    /\ \E p \in Unfruited :
          /\ maze' = [maze EXCEPT ![Index(p)] = @ \cup {"exit"}]
          /\ at' = p
          /\ exit' = p
    /\ phase' = "built"
    /\ UNCHANGED <<size, remaining, trials, pref_dir, n_fruits>>

(* The next level is made in the same array. The locals of make_maze are    *)
(* not read before they are assigned.                                       *)
NextLevel ==
    /\ phase = "built"
    /\ size' \in Sizes
    /\ maze' = Walls(size')
    /\ remaining' = size'[1] * size'[2]
    /\ phase' = "drop"
    /\ at' = <<1, 1>> /\ pref_dir' = Up /\ trials' = 0
    /\ UNCHANGED <<n_fruits, exit>>

BuildNext ==
    \/ DropWorm \/ Crawl \/ StopWorm
    \/ Scan \/ Guess
    \/ ClearMarks \/ AddFruit \/ AddExit
    \/ NextLevel

BuildSpec == BuildInit /\ [][BuildNext]_buildVars

-----------------------------------------------------------------------------
(* Properties.                                                              *)

(* The locals and the array have their types; the worm and the scan stay on *)
(* rooms.                                                                   *)
BuildTypeOK ==
    /\ phase \in {"drop", "crawl", "connect", "clear", "furnish", "built"}
    /\ size \in Sizes
    /\ maze \in [Cells -> SUBSET Bits]
    /\ remaining \in 0 .. (size[1] * size[2])
    /\ trials \in 0 .. (MaxTrials + 1)
    /\ at \in Rooms
    /\ pref_dir \in Dirs
    /\ n_fruits \in 0 .. StartFruits

(* make_maze: no step opens the boundary, on any side, although the right   *)
(* one is the left one of the next row in the array. (The game reads one    *)
(* cell past the player's without a test.)                                  *)
BorderClosed ==
    \A a \in 0 .. W, b \in 0 .. (2 * size[2]) :
        <<a, b>> \notin Inside => "wall" \in Cell(maze, <<a, b>>)

(* The counter that ends both loops counts what is left: the rooms still    *)
(* walls while worms dig, the rooms not reached while they are connected.   *)
(* One too many would loop for ever, one too few leave rooms buried.        *)
RemainingIsExact ==
    /\ phase \in {"drop", "crawl"} =>
         remaining = Cardinality({p \in Rooms : "wall" \in Cell(maze, p)})
    /\ phase = "connect" =>
         remaining = Cardinality({p \in Rooms : "reach" \notin Cell(maze, p)})

(* What can be walked to from (1, 1), without an algorithm: a set of rooms  *)
(* is closed when no step between rooms leaves it, and the rooms that can   *)
(* be walked to are the least closed set with (1, 1).                       *)
Closed(S) ==
    \A p \in S, d \in Dirs :
        "wall" \notin Cell(maze, Toward(p, d, 1)) => Toward(p, d, 2) \in S
LeastClosed(S) ==
    /\ <<1, 1>> \in S
    /\ Closed(S)
    /\ \A T \in SUBSET Rooms : <<1, 1>> \in T /\ Closed(T) => S \subseteq T

(* mark_maze_area stops at rooms already marked: the marks are still, after *)
(* every wall that is knocked down, the rooms one can walk to from (1, 1).  *)
MarksAreWalkable ==
    phase = "connect" =>
        LeastClosed({p \in Rooms : "reach" \in Cell(maze, p)})

(* The maze that make_maze returns is in one piece: every fruit and the     *)
(* exit can be walked to from where the player starts.                      *)
MazeIsConnected ==
    phase \in {"clear", "furnish", "built"} => LeastClosed(Rooms)

(* n_fruits is the fruit in the maze, and the exit is one room without      *)
(* fruit: what makes a level winnable.                                      *)
FruitIsCounted ==
    /\ phase \in {"furnish", "built"} =>
         n_fruits = Cardinality({c \in Cells : "fruit" \in maze[c]})
    /\ phase = "built" =>
         /\ {c \in Cells : "exit" \in maze[c]} = {Index(exit)}
         /\ "fruit" \notin Cell(maze, exit)
         /\ \A c \in Cells : "fruit" \in maze[c] => c \in {Index(p) : p \in Rooms}

(* The second phase ends, whatever the worms left and whatever is guessed:  *)
(* within one turn of the scan through the rooms, from wherever the worm or *)
(* the last guess stopped, is a room that can be joined.                    *)
ScanFindsARoom ==
    phase = "connect" /\ remaining > 0 =>
        LET Visit[n \in 0 .. (size[1] * size[2])] ==
                IF n = 0 THEN at ELSE NextRoom(Visit[n - 1])
        IN  \E n \in 1 .. (size[1] * size[2]) :
               /\ "reach" \notin Cell(maze, Visit[n])
               /\ Openings(Visit[n]) # {}

(* Both loops of make_maze end when they should: the counter is exact, and  *)
(* the scan always has a room to join.                                      *)
LoopsEnd == BuildTypeOK /\ RemainingIsExact /\ ScanFindsARoom

(* Every level can be won: the marks the second loop works with are true,   *)
(* the maze is in one piece when it ends, and the fruit to eat is there.    *)
LevelIsWinnable == MarksAreWalkable /\ MazeIsConnected /\ FruitIsCounted
=============================================================================
