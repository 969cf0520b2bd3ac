----------------------------- MODULE Maze_proofs -----------------------------
(***************************************************************************)
(* The maze of empee2, for every size of maze, of block and of view.       *)
(*                                                                         *)
(* MazeGame: where the player is (with the types), and who may set or test *)
(* pressed; the two do not need each other.                                *)
(*                                                                         *)
(* MazeBuild: what make_maze leaves. The geometry of its one-dimensional   *)
(* array, what its search marks, what knocking down a wall does to the     *)
(* marks, the order of its scan, and the invariant of its phases.          *)
(*                                                                         *)
(* Last, the two together: what MazeGame assumes of its mazes is what      *)
(* make_maze builds.                                                       *)
(***************************************************************************)
EXTENDS MazeGame, MazeBuild, FiniteSetTheorems, WellFoundedInduction, TLAPS

LEMMA BlockIsPositive ==
    /\ BLOCK \in Nat /\ BLOCK > 0
    /\ SHOW_MIN \in Nat /\ SHOW_MIN <= BLOCK
    /\ BLOCK * PAN_BORDER \in Nat /\ BLOCK * PAN_BORDER >= BLOCK
    /\ BLOCK * (PAN_BORDER + 1) = BLOCK * PAN_BORDER + BLOCK
    /\ BLOCK * (2 * PAN_BORDER + 1) = 2 * (BLOCK * PAN_BORDER) + BLOCK
    /\ \A n \in Nat : Limit(n) \in Int
BY MazeGameAssumption DEF Limit

LEMMA Vectors ==
    /\ \A d \in AllDirs : DX[d] \in {-1, 0, 1} /\ DY[d] \in {-1, 0, 1}
    /\ DX["stop"] = 0 /\ DY["stop"] = 0
    /\ DX["up"] = 0 /\ DY["up"] = -1
    /\ DX["down"] = 0 /\ DY["down"] = 1
    /\ DX["left"] = -1 /\ DY["left"] = 0
    /\ DX["right"] = 1 /\ DY["right"] = 0
BY DEF DX, DY, AllDirs, Moves

(* The lattice point of a pixel that starts a block. *)
LEMMA SquareOfBlock ==
    ASSUME NEW s \in Int PROVE (BLOCK * s) \div BLOCK = s
<1>1. \E q \in Int : BLOCK * s = BLOCK * q + 0 /\ q = s
  BY BlockIsPositive
<1> QED
  BY BlockIsPositive, <1>1

-----------------------------------------------------------------------------
(* Panning *)

(* A view that starts at the first pixel shown holds a player at (1,1). *)
LEMMA ViewStart ==
    ASSUME NEW scroll \in Nat, NEW n \in Nat,
           scroll >= BLOCK * (2 * PAN_BORDER + 1), SHOW_MIN + scroll <= Limit(n)
    PROVE InView(BLOCK, SHOW_MIN, scroll, n)
BY BlockIsPositive DEF InView

LEMMA ViewBack ==
    ASSUME NEW scroll \in Nat, NEW n \in Nat,
           scroll >= BLOCK * (2 * PAN_BORDER + 1),
           NEW p \in Int, NEW m \in Int, InView(p, m, scroll, n)
    PROVE PanBack(p - 1, m) \in Int /\ InView(p - 1, PanBack(p - 1, m), scroll, n)
BY BlockIsPositive DEF InView, PanBack

LEMMA ViewForward ==
    ASSUME NEW scroll \in Nat, NEW n \in Nat,
           scroll >= BLOCK * (2 * PAN_BORDER + 1),
           NEW p \in Int, NEW m \in Int, InView(p, m, scroll, n)
    PROVE /\ PanForward(p + 1, m, scroll, n) \in Int
          /\ InView(p + 1, PanForward(p + 1, m, scroll, n), scroll, n)
BY BlockIsPositive DEF InView, PanForward

-----------------------------------------------------------------------------
(* Where the player is *)

LevelIsPlayed == InLevel => level <= MAX_LEVEL

PInv == /\ TypeOK /\ LevelIsPlayed
        /\ PlayerInCorridor /\ PlayerInView /\ StrayReadIsHarmless

(* What the other threads do leaves the player where it is; next_dir never *)
(* goes back to DIR_STOP.                                                  *)
LEMMA KeyboardKeepsTypes ==
    ASSUME TypeOK, KeyboardStep
    PROVE /\ TypeOK' /\ UNCHANGED <<rtc, game>>
          /\ next_dir' = "stop" => next_dir = "stop"
<1> USE DEF TypeOK, game, place, keys, signals, outcome
<1>1. CASE KeyboardLoop
  BY <1>1 DEF KeyboardLoop
<1>2. CASE QuitKey
  BY <1>2 DEF QuitKey, KeyStep
<1>3. CASE EscapeKey \/ BracketKey \/ OtherKey
  BY <1>3 DEF EscapeKey, BracketKey, OtherKey, KeyStep
<1>4. CASE ArrowKey
  BY <1>4, MazeGameAssumption DEF ArrowKey, KeyStep
<1>5. CASE StoreDir
  BY <1>5 DEF StoreDir, AllDirs, Moves
<1> QED
  BY <1>1, <1>2, <1>3, <1>4, <1>5 DEF KeyboardStep

LEMMA TuxKeepsTypes ==
    ASSUME TypeOK, TuxStep \/ SpuriousWakeup
    PROVE /\ TypeOK' /\ UNCHANGED <<rtc, game>>
          /\ next_dir' = "stop" => next_dir = "stop"
<1> USE DEF TypeOK, game, place, keys, signals, outcome, TuxUnchanged, TuxGoto
<1>1. CASE TuxLoop \/ LockCon \/ TestPressed \/ CondWait \/ SpuriousWakeup
  BY <1>1 DEF TuxLoop, LockCon, TestPressed, CondWait, SpuriousWakeup
<1>2. CASE Steer
  <2>1. /\ next_dir' \in AllDirs
        /\ next_dir' = "stop" => next_dir = "stop"
    BY <1>2, MazeGameAssumption DEF Steer, AllDirs, Moves
  <2> QED
    BY <1>2, <2>1 DEF Steer
<1>3. CASE ClearPressed
  BY <1>3 DEF ClearPressed
<1> QED
  BY <1>1, <1>2, <1>3 DEF TuxStep

LEMMA OthersKeepPInv ==
    ASSUME PInv, KeyboardStep \/ TuxStep \/ SpuriousWakeup PROVE PInv'
<1>1. /\ TypeOK' /\ UNCHANGED <<rtc, game>>
      /\ next_dir' = "stop" => next_dir = "stop"
  BY KeyboardKeepsTypes, TuxKeepsTypes DEF PInv
<1> QED
  BY <1>1
  DEF PInv, LevelIsPlayed, PlayerInCorridor, PlayerInView,
      StrayReadIsHarmless, InLevel, game, place

(* A level starts with the player at (1,1), in the corner of the view. *)
LEMMA StartKeepsPInv ==
    ASSUME PInv, StartLevel PROVE PInv'
<1>1. TypeOK'
  <2>1. layout' \in Mazes /\ fruits' \subseteq layout'.open
    BY MazesAssumption DEF IsMaze, StartLevel, prepare_maze_level, check_for_fruit
  <2> QED
    BY <2>1, BlockIsPositive
    DEF PInv, TypeOK, StartLevel, prepare_maze_level, FirstDir, keys, signals, outcome, AllDirs
<1>2. PlayerInCorridor'
  <2>1. <<1, 1>> \in layout'.open
    BY MazesAssumption DEF IsMaze, StartLevel, prepare_maze_level, check_for_fruit
  <2> QED
    BY <2>1, BlockIsPositive, Vectors
    DEF StartLevel, prepare_maze_level, check_for_fruit, FirstDir, PlayerInCorridor
<1>3. PlayerInView'
  <2>1. PICK m \in Mazes : layout' = m
    BY DEF StartLevel, prepare_maze_level, check_for_fruit
  <2>2. InView(BLOCK, SHOW_MIN, SCROLL_X_DIM, m.x_dim)
    BY MazeGameAssumption, MazesAssumption, ViewAssumption, ViewStart DEF IsMaze
  <2>3. InView(BLOCK, SHOW_MIN, SCROLL_Y_DIM, m.y_dim)
    BY MazeGameAssumption, MazesAssumption, ViewAssumption, ViewStart DEF IsMaze
  <2> QED
    BY <2>1, <2>2, <2>3 DEF StartLevel, prepare_maze_level, check_for_fruit, PlayerInView, InView
<1>4. StrayReadIsHarmless' /\ LevelIsPlayed'
  BY DEF StartLevel, prepare_maze_level, check_for_fruit, FirstDir, StrayReadIsHarmless, LevelIsPlayed
<1> QED
  BY <1>1, <1>2, <1>3, <1>4 DEF PInv

(* Steps of rtc_thread that leave the player and the maze as they are. *)
LEMMA PollingKeepsPInv ==
    ASSUME PInv,
           \/ WaitTick \/ LeaveLevel \/ PollButton \/ TicksServed \/ LowerFlag
           \/ Press \/ Signal \/ LeaveLevels \/ LastSignal \/ SetWinner
    PROVE PInv'
<1>1. /\ TypeOK' /\ UNCHANGED <<layout, place, next_dir>>
      /\ InLevel' => InLevel /\ UNCHANGED level
  <2> USE DEF PInv, TypeOK, InLevel, game, place, keys, signals, outcome
  <2>1. CASE WaitTick
    BY <2>1, MazeGameAssumption DEF WaitTick, ReadTimer
  <2>2. CASE PollButton
    BY <2>2, MazeGameAssumption DEF PollButton
  <2>3. CASE LeaveLevel
    BY <2>3, MazeGameAssumption DEF LeaveLevel, LevelIsPlayed
  <2>4. CASE TicksServed \/ LowerFlag \/ Press
    BY <2>4 DEF TicksServed, LowerFlag, Press
  <2>5. CASE Signal \/ LastSignal
    BY <2>5 DEF Signal, LastSignal, Woken
  <2>6. CASE LeaveLevels
    BY <2>6 DEF LeaveLevels
  <2>7. CASE SetWinner
    BY <2>7 DEF SetWinner
  <2> QED
    BY <2>1, <2>2, <2>3, <2>4, <2>5, <2>6, <2>7
<1> QED
  BY <1>1
  DEF PInv, LevelIsPlayed, PlayerInCorridor, PlayerInView,
      StrayReadIsHarmless, InLevel, place

LEMMA WinKeepsPInv ==
    ASSUME PInv, WinLevel PROVE PInv'
<1>1. TypeOK'
  BY MazeGameAssumption
  DEF PInv, TypeOK, LevelIsPlayed, InLevel, WinLevel, Facing, keys, signals,
      outcome
<1> QED
  BY <1>1
  DEF PInv, LevelIsPlayed, PlayerInCorridor, PlayerInView,
      StrayReadIsHarmless, InLevel, WinLevel

(* One pixel towards a square d away, with n pixels to go.  The squares s  *)
(* of PlayerInCorridor are pairs of integers.                              *)
LEMMA OpenSquares ==
    ASSUME TypeOK PROVE \A s \in layout.open : s \in Int \X Int
BY MazesAssumption DEF IsMaze, TypeOK

LEMMA MoveKeepsView ==
    ASSUME TypeOK, rtc = "move", PlayerInView, NEW d \in AllDirs, NEW n, MoveOn(d, n),
           layout' = layout
    PROVE /\ x' \in Int /\ y' \in Int /\ map_x' \in Int /\ map_y' \in Int
          /\ PlayerInView'
<1> DEFINE nx == layout.x_dim
           ny == layout.y_dim
<1>0. /\ x \in Int /\ y \in Int /\ map_x \in Int /\ map_y \in Int
      /\ nx \in Nat /\ ny \in Nat /\ SCROLL_X_DIM \in Nat /\ SCROLL_Y_DIM \in Nat
      /\ SCROLL_X_DIM >= BLOCK * (2 * PAN_BORDER + 1)
      /\ SCROLL_Y_DIM >= BLOCK * (2 * PAN_BORDER + 1)
  BY MazesAssumption, MazeGameAssumption, ViewAssumption DEF IsMaze, TypeOK
<1>1. /\ InView(x, map_x, SCROLL_X_DIM, nx)
      /\ InView(y, map_y, SCROLL_Y_DIM, ny)
  BY DEF PlayerInView, InLevel
<1>2. /\ x' \in Int /\ map_x' \in Int
      /\ InView(x', map_x', SCROLL_X_DIM, nx)
  <2>1. CASE d = "left"
    <3>1. x' = x - 1 /\ map_x' = PanBack(x', map_x)
      BY <2>1, <1>0, Vectors DEF MoveOn
    <3> HIDE DEF nx
    <3> QED
      BY <3>1, <1>0, <1>1, ViewBack
  <2>2. CASE d = "right"
    <3>1. x' = x + 1 /\ map_x' = PanForward(x', map_x, SCROLL_X_DIM, nx)
      BY <2>2, <1>0, Vectors DEF MoveOn
    <3> HIDE DEF nx
    <3> QED
      BY <3>1, <1>0, <1>1, ViewForward
  <2>3. CASE d \notin {"left", "right"}
    <3>1. x' = x /\ map_x' = map_x
      BY <2>3, <1>0 DEF MoveOn, DX
    <3> QED
      BY <3>1, <1>0, <1>1
  <2> QED
    BY <2>1, <2>2, <2>3
<1>3. /\ y' \in Int /\ map_y' \in Int
      /\ InView(y', map_y', SCROLL_Y_DIM, ny)
  <2>1. CASE d = "up"
    <3>1. y' = y - 1 /\ map_y' = PanBack(y', map_y)
      BY <2>1, <1>0, Vectors DEF MoveOn
    <3> HIDE DEF ny
    <3> QED
      BY <3>1, <1>0, <1>1, ViewBack
  <2>2. CASE d = "down"
    <3>1. y' = y + 1 /\ map_y' = PanForward(y', map_y, SCROLL_Y_DIM, ny)
      BY <2>2, <1>0, Vectors DEF MoveOn
    <3> HIDE DEF ny
    <3> QED
      BY <3>1, <1>0, <1>1, ViewForward
  <2>3. CASE d \notin {"up", "down"}
    <3>1. y' = y /\ map_y' = map_y
      BY <2>3, <1>0 DEF MoveOn, DY
    <3> QED
      BY <3>1, <1>0, <1>1
  <2> QED
    BY <2>1, <2>2, <2>3
<1> QED
  BY <1>2, <1>3 DEF PlayerInView, InView

(* One pixel towards an open square s from the open square behind. *)
LEMMA StepTowards ==
    ASSUME TypeOK, NEW s \in layout.open, NEW d \in Moves, NEW n \in 1 .. BLOCK,
           x + n * DX[d] = BLOCK * s[1], y + n * DY[d] = BLOCK * s[2],
           <<s[1] - DX[d], s[2] - DY[d]>> \in layout.open,
           MoveOn(d, n), layout' = layout
    PROVE move_cnt' \in 0 .. BLOCK - 1 /\ dir' = d /\ PlayerInCorridor'
<1>1. /\ dir' = d /\ move_cnt' = n - 1 /\ move_cnt' \in 0 .. BLOCK - 1
      /\ x' = x + DX[d] /\ y' = y + DY[d]
  BY BlockIsPositive DEF MoveOn, CountDown, Moves
<1>2. x' + move_cnt' * DX[d] = BLOCK * s[1]
  BY <1>1, Vectors DEF TypeOK, Moves
<1>3. y' + move_cnt' * DY[d] = BLOCK * s[2]
  BY <1>1, Vectors DEF TypeOK, Moves
<1> QED
  BY <1>1, <1>2, <1>3 DEF PlayerInCorridor

(* A step between two squares, back or forth. *)
LEMMA BetweenSquaresStaysInCorridor ==
    ASSUME PInv, BetweenSquares
    PROVE move_cnt' \in 0 .. BLOCK - 1 /\ dir' \in AllDirs /\ PlayerInCorridor'
<1> USE DEF PInv
<1>1. /\ x \in Int /\ y \in Int /\ move_cnt \in Int /\ move_cnt > 0
      /\ move_cnt < BLOCK /\ dir \in AllDirs
      /\ MoveOn(Facing, PixelsLeft) /\ layout' = layout
  BY BlockIsPositive DEF TypeOK, BetweenSquares, PixelsLeft
<1>2. PICK s \in layout.open :
        /\ x + move_cnt * DX[dir] = BLOCK * s[1]
        /\ y + move_cnt * DY[dir] = BLOCK * s[2]
        /\ <<s[1] - DX[dir], s[2] - DY[dir]>> \in layout.open
  BY <1>1 DEF PlayerInCorridor, InLevel, BetweenSquares
<1>3. s[1] \in Int /\ s[2] \in Int /\ s = <<s[1], s[2]>>
  BY OpenSquares
<1>4. CASE TurnsBack
  <2> DEFINE u == <<s[1] - DX[dir], s[2] - DY[dir]>>
  <2>1. /\ dir \in Moves /\ next_dir \in Moves
        /\ DX[next_dir] = -DX[dir] /\ DY[next_dir] = -DY[dir]
    BY <1>4, Vectors DEF TurnsBack, Reverses, Moves
  <2>2. MoveOn(next_dir, BLOCK - move_cnt) /\ BLOCK - move_cnt \in 1 .. BLOCK
    BY <1>1, <1>4, BlockIsPositive DEF Facing, PixelsLeft
  <2>3. /\ x + (BLOCK - move_cnt) * DX[next_dir] = BLOCK * (s[1] - DX[dir])
        /\ y + (BLOCK - move_cnt) * DY[next_dir] = BLOCK * (s[2] - DY[dir])
    BY <1>1, <1>2, <1>3, <2>1, BlockIsPositive, Vectors DEF AllDirs
  <2>4. <<u[1] - DX[next_dir], u[2] - DY[next_dir]>> = s
    BY <1>1, <1>3, <2>1, Vectors DEF AllDirs
  <2>5. u \in layout.open /\ u[1] = s[1] - DX[dir] /\ u[2] = s[2] - DY[dir]
    BY <1>2
  <2> HIDE DEF u
  <2> QED
    BY <1>1, <2>1, <2>2, <2>3, <2>4, <2>5, StepTowards DEF AllDirs
<1>5. CASE ~TurnsBack /\ dir # "stop"
  <2>1. MoveOn(dir, move_cnt) /\ dir \in Moves /\ move_cnt \in 1 .. BLOCK
    BY <1>1, <1>5, BlockIsPositive DEF Facing, PixelsLeft, AllDirs
  <2> QED
    BY <1>1, <1>2, <2>1, StepTowards DEF AllDirs
<1>6. CASE ~TurnsBack /\ dir = "stop"
  <2>1. dir' = "stop" /\ move_cnt' = 0 /\ x' = x + 0 /\ y' = y + 0
    BY <1>1, <1>6, Vectors DEF Facing, MoveOn, CountDown
  <2>2. x = BLOCK * s[1] /\ y = BLOCK * s[2]
    BY <1>1, <1>2, <1>6, Vectors
  <2>3. PlayerInCorridor'
    BY <1>1, <2>1, <2>2, Vectors DEF PlayerInCorridor
  <2> QED
    BY <2>1, <2>3, BlockIsPositive DEF AllDirs
<1> QED
  BY <1>4, <1>5, <1>6

(* On a square the player leaves through an open side only. *)
LEMMA NewSquareStaysInCorridor ==
    ASSUME PInv, NewSquare
    PROVE /\ move_cnt' \in 0 .. BLOCK - 1 /\ dir' \in AllDirs /\ PlayerInCorridor'
          /\ next_dir = "stop" => dir' = "stop"
<1> USE DEF PInv
<1>1. /\ x \in Int /\ y \in Int /\ move_cnt = 0 /\ layout' = layout
      /\ dir \in AllDirs /\ next_dir \in AllDirs
  BY BlockIsPositive DEF TypeOK, NewSquare, PixelsLeft
<1>2. PICK s \in layout.open : x = BLOCK * s[1] /\ y = BLOCK * s[2]
  <2>1. PICK s \in layout.open : /\ x + 0 * DX[dir] = BLOCK * s[1]
                               /\ y + 0 * DY[dir] = BLOCK * s[2]
    BY <1>1 DEF PlayerInCorridor, InLevel, NewSquare
  <2> QED
    BY <1>1, <2>1, Vectors
<1>3. s[1] \in Int /\ s[2] \in Int /\ s = <<s[1], s[2]>>
  BY OpenSquares
<1>4. Square = s
  BY <1>2, <1>3, SquareOfBlock DEF Square
<1>5. PICK d \in Headings : MoveOn(d, BLOCK)
  BY DEF NewSquare
<1>6. d = "stop" \/ (d \in Moves /\ IsOpen(d))
  BY <1>1, <1>5 DEF Headings, Turned, Facing, AllDirs
<1>7. next_dir = "stop" => d = "stop"
  BY <1>1, <1>5 DEF Headings, Turned, Facing, TurnsBack, Reverses,
                    StrayReadIsHarmless, InLevel, NewSquare
<1>8. CASE d = "stop"
  <2>1. dir' = "stop" /\ move_cnt' = 0 /\ x' = x + 0 /\ y' = y + 0
    BY <1>5, <1>8, Vectors DEF MoveOn, CountDown
  <2>2. PlayerInCorridor'
    BY <1>1, <1>2, <2>1, Vectors DEF PlayerInCorridor
  <2> QED
    BY <2>1, <2>2, BlockIsPositive DEF AllDirs
<1>9. CASE d \in Moves /\ IsOpen(d)
  <2> DEFINE u == <<s[1] + DX[d], s[2] + DY[d]>>
  <2>1. u \in layout.open /\ u[1] = s[1] + DX[d] /\ u[2] = s[2] + DY[d]
    BY <1>4, <1>9 DEF IsOpen
  <2>2. DX[d] \in Int /\ DY[d] \in Int
    BY <1>9, Vectors DEF AllDirs
  <2>3. <<u[1] - DX[d], u[2] - DY[d]>> = s
    BY <1>3, <2>1, <2>2
  <2>4. /\ x + BLOCK * DX[d] = BLOCK * u[1]
        /\ y + BLOCK * DY[d] = BLOCK * u[2]
    BY <1>2, <1>3, <2>1, <2>2, BlockIsPositive
  <2>5. BLOCK \in 1 .. BLOCK
    BY BlockIsPositive
  <2> HIDE DEF u
  <2>6. move_cnt' \in 0 .. BLOCK - 1 /\ dir' = d /\ PlayerInCorridor'
    BY <1>1, <1>5, <1>9, <2>1, <2>3, <2>4, <2>5, StepTowards
  <2> QED
    BY <1>7, <1>9, <2>6 DEF AllDirs
<1> QED
  BY <1>6, <1>8, <1>9

LEMMA MoveKeepsPInv ==
    ASSUME PInv, BetweenSquares \/ NewSquare PROVE PInv'
<1> USE DEF PInv
<1>1. /\ layout' = layout /\ fruits' \subseteq fruits /\ rtc = "move" /\ rtc' = "poll"
      /\ UNCHANGED <<keyboard, tux, level, ticks, keys, next_dir, signals,
                     outcome>>
  BY DEF BetweenSquares, NewSquare, check_for_fruit
<1>2. \E d \in AllDirs, n \in Int : MoveOn(d, n)
  <2>1. CASE BetweenSquares
    <3>1. Facing \in AllDirs /\ PixelsLeft \in Int
      BY BlockIsPositive DEF TypeOK, Facing, PixelsLeft
    <3> QED
      BY <2>1, <3>1 DEF BetweenSquares
  <2>2. CASE NewSquare
    <3>1. \A d \in Headings : d \in AllDirs
      BY DEF TypeOK, Headings, Turned, Facing, AllDirs
    <3> QED
      BY <2>2, <3>1, BlockIsPositive DEF NewSquare
  <2> QED
    BY <2>1, <2>2
<1>3. /\ x' \in Int /\ y' \in Int /\ map_x' \in Int /\ map_y' \in Int
      /\ PlayerInView'
  BY <1>1, <1>2, MoveKeepsView
<1>4. move_cnt' \in 0 .. BLOCK - 1 /\ dir' \in AllDirs /\ PlayerInCorridor'
  BY BetweenSquaresStaysInCorridor, NewSquareStaysInCorridor
<1>5. StrayReadIsHarmless'
  <2>1. next_dir = "stop" => dir = "stop"
    BY <1>1 DEF StrayReadIsHarmless, InLevel
  <2>2. CASE BetweenSquares
    BY <1>1, <2>1, <2>2
    DEF BetweenSquares, MoveOn, Facing, TurnsBack, Reverses, StrayReadIsHarmless
  <2>3. CASE NewSquare
    BY <1>1, <2>3, NewSquareStaysInCorridor DEF StrayReadIsHarmless
  <2> QED
    BY <2>2, <2>3
<1>6. TypeOK' /\ LevelIsPlayed'
  BY <1>1, <1>3, <1>4
  DEF TypeOK, LevelIsPlayed, InLevel, keys, signals, outcome
<1> QED
  BY <1>3, <1>4, <1>5, <1>6

LEMMA StutterKeepsPInv == ASSUME PInv, UNCHANGED vars PROVE PInv'
BY DEF PInv, TypeOK, LevelIsPlayed, PlayerInCorridor, PlayerInView,
       StrayReadIsHarmless, InLevel, vars, game, place, keys, signals, outcome

LEMMA InitPInv == ASSUME Init PROVE PInv
<1>1. level \in 1 .. MAX_LEVEL + 1 /\ ticks \in 0 .. MaxTicks
  BY MazeGameAssumption DEF Init
<1>2. move_cnt \in 0 .. BLOCK - 1
  BY BlockIsPositive DEF Init
<1>3. TypeOK
  <2>1. /\ dir \in AllDirs /\ next_dir \in AllDirs /\ key_dir \in Moves
        /\ button \in Buttons
    BY DEF Init, Buttons, AllDirs, Moves
  <2>2. /\ {pressed, flag, quit_flag, winner} \subseteq BOOLEAN
        /\ fruits \subseteq layout.open
    BY DEF Init
  <2> QED
    BY <1>1, <1>2, <2>1, <2>2 DEF Init, TypeOK
<1> QED
  BY <1>3
  DEF Init, PInv, LevelIsPlayed, PlayerInCorridor, PlayerInView,
      StrayReadIsHarmless, InLevel

(* The types, the way of the player and his place in the view.             *)
THEOREM PlayerInvariant == Spec => []PInv
<1>1. PInv /\ [Next]_vars => PInv'
  <2> SUFFICES ASSUME PInv, [Next]_vars PROVE PInv'
    OBVIOUS
  <2> QED
    BY StartKeepsPInv, PollingKeepsPInv, MoveKeepsPInv, WinKeepsPInv,
       OthersKeepPInv, StutterKeepsPInv
    DEF Next, RtcStep
<1> QED
  BY InitPInv, <1>1, PTL DEF Spec

(* The counters of the game keep their ranges wherever the threads are: a  *)
(* move never has a whole block to go, and no fruit lies in a wall.        *)
THEOREM GameTypes == Spec => []TypeOK
BY PlayerInvariant, PTL DEF PInv

(* open[] is read past its end for a player that stands still only.        *)
THEOREM StrayReadHasNoEffect == Spec => []StrayReadIsHarmless
BY PlayerInvariant, PTL DEF PInv

(* Whatever the two input threads store between two pixels, the player     *)
(* never enters a wall: rtc_thread turns him on squares, and back anywhere.*)
THEOREM NeverInAWall == Spec => []PlayerInCorridor
BY PlayerInvariant, PTL DEF PInv

(* Panning by one pixel per move is enough: the player stays PAN_BORDER    *)
(* squares inside the view as far as the maze goes, and the view inside    *)
(* the maze.                                                               *)
THEOREM ViewFollowsPlayer == Spec => []PlayerInView
BY PlayerInvariant, PTL DEF PInv

-----------------------------------------------------------------------------
(* The condition variable *)

CInv == /\ TypeOK
        /\ ~(RtcHoldsConMtx /\ TuxHoldsConMtx)
        /\ tux = "sleep" => ~pressed
        /\ PressWakesTux

LEMMA StepKeepsCInv ==
    ASSUME CInv, TypeOK', [Next]_vars PROVE CInv'
<1> USE DEF CInv, RtcHoldsConMtx, TuxHoldsConMtx, PressWakesTux
<1>1. CASE KeyboardStep
  BY <1>1
  DEF KeyboardStep, KeyboardLoop, KeyStep, QuitKey, EscapeKey, BracketKey,
      ArrowKey, OtherKey, StoreDir, signals
<1>2. CASE TuxStep \/ SpuriousWakeup
  BY <1>2
  DEF TuxStep, TuxLoop, TuxGoto, TuxUnchanged, LockCon, ConMtxFree,
      TestPressed, CondWait, SpuriousWakeup, Steer, ClearPressed
<1>3. CASE LowerFlag \/ Press
  BY <1>3 DEF LowerFlag, Press, ConMtxFree
<1>4. CASE Signal \/ LastSignal
  BY <1>4 DEF Signal, LastSignal, Woken, signals
<1>5. CASE RtcStep /\ ~(LowerFlag \/ Press \/ Signal \/ LastSignal)
  <2>1. /\ UNCHANGED <<tux, pressed>>
        /\ RtcHoldsConMtx' => RtcHoldsConMtx
        /\ RtcHoldsConMtx => RtcHoldsConMtx'
    BY <1>5
    DEF RtcStep, StartLevel, WaitTick, ReadTimer, LeaveLevel, PollButton,
        TicksServed, BetweenSquares, NewSquare, WinLevel, LeaveLevels, SetWinner,
        signals
  <2> QED
    BY <2>1
<1>6. CASE UNCHANGED vars
  BY <1>6 DEF vars, signals
<1> QED
  BY <1>1, <1>2, <1>3, <1>4, <1>5, <1>6 DEF Next

(* A press that comes while tux_thread waits is signalled: con_mtx is held *)
(* from its test of pressed until it waits, and whenever pressed is set.   *)
THEOREM NoPressIsSleptThrough == Spec => []PressWakesTux
<1>1. Spec => []TypeOK
  BY PlayerInvariant, PTL DEF PInv
<1>2. Init => (TypeOK => CInv)
  BY DEF Init, CInv, RtcHoldsConMtx, TuxHoldsConMtx, PressWakesTux
<1>3. CInv /\ TypeOK' /\ [Next]_vars => CInv'
  BY StepKeepsCInv
<1>4. CInv => PressWakesTux
  BY DEF CInv
<1> QED
  BY <1>1, <1>2, <1>3, <1>4, PTL DEF Spec

-----------------------------------------------------------------------------
(* make_maze.                                                               *)

(* A set of naturals with a member has a least one. *)
LEMMA LeastNat ==
  ASSUME NEW T \in SUBSET Nat, T # {}
  PROVE  \E m \in T : \A k \in T : m <= k
  <1> DEFINE R == {p \in Nat \X Nat : p[1] < p[2]}
  <1>1. IsWellFoundedOn(R, Nat)
    BY NatLessThanWellFounded DEF OpToRel
  <1> HIDE DEF R
  <1>2. \E z \in T : \A k \in T : ~ (<<k, z>> \in R)
    BY <1>1, WFMin
  <1>3. ASSUME NEW z \in T, NEW k \in T, ~ (<<k, z>> \in R) PROVE z <= k
    <2>1. z \in Nat /\ k \in Nat /\ ~(k < z)
      BY <1>3 DEF R
    <2>2. QED
      BY <2>1
  <1>4. QED
    BY <1>2, <1>3

LEMMA TimesMonotone ==
  ASSUME NEW b \in Nat, NEW i \in Int, NEW j \in Int, i <= j
  PROVE  b * i <= b * j
  <1>1. b * (j - i) >= 0
    OBVIOUS
  <1>2. b * (j - i) = b * j - b * i
    OBVIOUS
  <1>3. QED
    BY <1>1, <1>2

(* Two columns of the array that are less than a row apart are one column   *)
(* if they are whole rows apart.                                            *)
LEMMA SameRow ==
  ASSUME NEW w \in Nat, NEW k \in Int, NEW e \in Int, w * k = e, -w < e, e < w
  PROVE  k = 0
  <1>1. ~(k >= 1)
    BY TimesMonotone, w * 1 = w
  <1>2. ~(k <= -1)
    BY TimesMonotone, w * (-1) = -w
  <1>3. QED
    BY <1>1, <1>2

-----------------------------------------------------------------------------
(* The geometry of the array.                                               *)

Points == (0 .. W) \X (0 .. (2 * size[2]))

LEMMA Dims ==
  ASSUME size \in Sizes
  PROVE  /\ size[1] \in Nat /\ size[2] \in Nat /\ size[1] >= 2 /\ size[2] >= 2
         /\ W \in Nat /\ W = 2 * size[1]
  BY SizesAssumption DEF W

LEMMA RoomIsOdd ==
  ASSUME size \in Sizes, NEW p
  PROVE  p \in Rooms <=> p \in Inside /\ p[1] % 2 = 1 /\ p[2] % 2 = 1
  <1> USE Dims
  <1>1. ASSUME p \in Rooms PROVE p \in Inside /\ p[1] % 2 = 1 /\ p[2] % 2 = 1
    BY <1>1 DEF Rooms, RoomsOf, Inside, W
  <1>2. ASSUME p \in Inside, p[1] % 2 = 1, p[2] % 2 = 1 PROVE p \in Rooms
    <2> DEFINE i == p[1] \div 2
               j == p[2] \div 2
    <2>1. /\ i \in 0 .. (size[1] - 1) /\ p[1] = 2 * i + 1
          /\ j \in 0 .. (size[2] - 1) /\ p[2] = 2 * j + 1
      BY <1>2 DEF Inside, W
    <2>2. p = <<p[1], p[2]>>
      BY <1>2 DEF Inside
    <2> HIDE DEF i, j
    <2>3. QED
      BY <2>1, <2>2 DEF Rooms, RoomsOf
  <1>3. QED
    BY <1>1, <1>2

LEMMA FirstRoom ==
  ASSUME size \in Sizes
  PROVE  <<1, 1>> \in Rooms
  BY RoomIsOdd, Dims DEF Inside

LEMMA IndexIs ==
  ASSUME size \in Sizes, NEW p \in Int \X Int
  PROVE  Index(p) \in Int /\ Index(p) = p[1] + W * (p[2] + 1)
  BY Dims DEF Index, MAZE_INDEX

LEMMA IndexInCells ==
  ASSUME size \in Sizes, NEW p \in (0 .. W) \X (-1 .. (2 * size[2] + 1))
  PROVE  Index(p) \in Cells
  <1>1. p[2] + 1 \in Int /\ p[2] + 1 <= 2 * size[2] + 2 /\ 0 <= p[2] + 1
    BY Dims
  <1>2. W * 0 <= W * (p[2] + 1) /\ W * (p[2] + 1) <= W * (2 * size[2] + 2)
    BY <1>1, TimesMonotone, Dims
  <1>3. /\ W * (2 * size[2] + 2) + W = W * (2 * size[2] + 3)
        /\ W * (2 * size[2] + 3) = 2 * size[1] * (2 * size[2] + 3) /\ W * 0 = 0
    BY Dims
  <1>4. Index(p) = p[1] + W * (p[2] + 1) /\ p[1] \in 0 .. W
    BY IndexIs, Dims
  <1>5. W * (p[2] + 1) \in Int /\ W * (2 * size[2] + 3) \in Int
    BY <1>1, Dims
  <1>6. Index(p) \in 0 .. (W * (2 * size[2] + 3))
    BY <1>2, <1>3, <1>4, <1>5, Dims
  <1>7. QED
    BY <1>6, <1>3 DEF Cells, CellsOf

LEMMA PointInCells ==
  ASSUME size \in Sizes, NEW p \in Points
  PROVE  Index(p) \in Cells
  BY IndexInCells, Dims DEF Points

LEMMA InsideIsPoint ==
  ASSUME size \in Sizes
  PROVE  /\ Inside \subseteq Points
         /\ Rooms \subseteq Inside
         /\ Points \subseteq Int \X Int
  BY RoomIsOdd, Dims DEF Inside, Points

(* Rows apart and columns apart, of the same index.                         *)
LEMMA RowsApart ==
  ASSUME NEW w \in Nat, NEW a \in Int, NEW b \in Int, NEW c \in Int, NEW e \in Int,
         a + w * (b + 1) = c + w * (e + 1)
  PROVE  w * (b - e) = c - a
  <1> DEFINE m == w * b
             n == w * e
  <1>1. m \in Int /\ n \in Int
    OBVIOUS
  <1>2. w * (b + 1) = m + w /\ w * (e + 1) = n + w /\ w * (b - e) = m - n
    OBVIOUS
  <1> HIDE DEF m, n
  <1>3. QED
    BY <1>1, <1>2

(* A point inside the boundary shares its cell with no other point.         *)
LEMMA IndexUnique ==
  ASSUME size \in Sizes, NEW p \in Inside, NEW q \in Points, Index(p) = Index(q)
  PROVE  p = q
  <1>1. p \in Int \X Int /\ q \in Int \X Int
    BY InsideIsPoint
  <1>2. p[1] + W * (p[2] + 1) = q[1] + W * (q[2] + 1)
    BY <1>1, IndexIs
  <1>3. W * (p[2] - q[2]) = q[1] - p[1]
    <2>1. W \in Nat
      BY Dims
    <2>2. p[1] \in Int /\ p[2] \in Int /\ q[1] \in Int /\ q[2] \in Int
      BY <1>1
    <2> DEFINE a == p[1]
               b == p[2]
               c == q[1]
               e == q[2]
               w == W
    <2>3. w \in Nat /\ a \in Int /\ b \in Int /\ c \in Int /\ e \in Int /\ a + w * (b + 1) = c + w * (e + 1)
      BY <1>2, <2>1, <2>2, Zenon
    <2> HIDE DEF a, b, c, e, w
    <2>4. w * (b - e) = c - a
      BY <2>3, RowsApart
    <2>5. QED
      BY <2>4, Zenon DEF a, b, c, e, w
  <1>4. -W < q[1] - p[1] /\ q[1] - p[1] < W
    BY Dims DEF Inside, Points
  <1>5. p[2] - q[2] = 0
    BY <1>1, <1>3, <1>4, SameRow, Dims
  <1>6. p[1] = q[1] /\ p[2] = q[2]
    BY <1>1, <1>2, <1>5, Dims
  <1>7. QED
    BY <1>1, <1>6

LEMMA TowardIs ==
  ASSUME NEW p \in Int \X Int, NEW d \in Dirs, NEW n \in Int
  PROVE  Toward(p, d, n) \in Int \X Int
  BY DEF Toward, Dirs, Up, Down, Left, Right

(* The steps of mark_maze_area in the array are those in the maze.          *)
LEMMA StepIs ==
  ASSUME size \in Sizes, NEW p \in Int \X Int, NEW d \in Dirs
  PROVE  /\ Step(d) \in Int
         /\ Index(Toward(p, d, 1)) = Index(p) + Step(d)
         /\ Index(Toward(p, d, 2)) = Index(p) + 2 * Step(d)
  <1>2. Toward(p, d, 1) \in Int \X Int /\ Toward(p, d, 2) \in Int \X Int
    BY TowardIs
  <1> USE Dims
  <1>1. Step(d) \in Int
    BY DEF Step, Dirs, Up, Down, Left, Right
  <1>3. /\ Index(p) = p[1] + W * (p[2] + 1)
        /\ Index(Toward(p, d, 1)) = Toward(p, d, 1)[1] + W * (Toward(p, d, 1)[2] + 1)
        /\ Index(Toward(p, d, 2)) = Toward(p, d, 2)[1] + W * (Toward(p, d, 2)[2] + 1)
    BY <1>2, IndexIs
  <1>4. /\ Index(Toward(p, d, 1)) = Index(p) + Step(d)
        /\ Index(Toward(p, d, 2)) = Index(p) + 2 * Step(d)
    BY <1>3 DEF Step, Toward, Dirs, Up, Down, Left, Right
  <1>5. QED
    BY <1>1, <1>4

(* Next to a room is a point of the maze that is no room; behind it, unless *)
(* it lies on the boundary, is another room.                                *)
LEMMA NextToRoom ==
  ASSUME size \in Sizes, NEW p \in Rooms, NEW d \in Dirs
  PROVE  /\ Toward(p, d, 1) \in Points
         /\ Toward(p, d, 1) \notin Rooms
         /\ Toward(p, d, 1) \in Inside => Toward(p, d, 2) \in Rooms
         /\ InMaze(p, d) <=> Toward(p, d, 1) \in Inside
  <1>1. p \in Inside /\ p[1] % 2 = 1 /\ p[2] % 2 = 1
    BY RoomIsOdd
  <1> DEFINE q == Toward(p, d, 1)
             r == Toward(p, d, 2)
  <1>2. q \in Points
    BY <1>1, Dims DEF Inside, Points, Toward, Dirs, Up, Down, Left, Right
  <1>3. q[1] % 2 = 0 \/ q[2] % 2 = 0
    BY <1>1, Dims DEF Inside, Toward, Dirs, Up, Down, Left, Right
  <1>4. q \notin Rooms
    BY <1>3, RoomIsOdd
  <1>5. q \in Inside => r \in Inside
    <2> SUFFICES ASSUME q \in Inside PROVE r \in Inside
      OBVIOUS
    <2>1. r[1] % 2 = 1 /\ r[2] % 2 = 1
      BY <1>1, Dims DEF Inside, Toward, Dirs, Up, Down, Left, Right
    <2>2. QED
      BY <1>1, Dims DEF Inside, Toward, Dirs, Up, Down, Left, Right
  <1>6. r[1] % 2 = 1 /\ r[2] % 2 = 1
    BY <1>1, Dims DEF Inside, Toward, Dirs, Up, Down, Left, Right
  <1>7. InMaze(p, d) <=> q \in Inside
    <2>1. /\ p[1] \in 1 .. (W - 1) /\ p[2] \in 1 .. (2 * size[2] - 1)
          /\ W \in Nat /\ size[2] \in Nat
      BY <1>1, Dims DEF Inside
    <2>2. CASE d = Up
      BY <2>1, <2>2 DEF Inside, InMaze, Toward, Up, Down, Left, Right
    <2>3. CASE d = Down
      BY <2>1, <2>3 DEF Inside, InMaze, Toward, Up, Down, Left, Right
    <2>4. CASE d = Left
      BY <2>1, <2>4 DEF Inside, InMaze, Toward, Up, Down, Left, Right
    <2>5. CASE d = Right
      BY <2>1, <2>5 DEF Inside, InMaze, Toward, Up, Down, Left, Right
    <2>6. QED
      BY <2>2, <2>3, <2>4, <2>5 DEF Dirs
  <1>8. QED
    BY <1>2, <1>4, <1>5, <1>6, <1>7, RoomIsOdd

(* A point next to a room lies between two rooms only.                      *)
LEMMA BetweenTwo ==
  ASSUME size \in Sizes, NEW p \in Rooms, NEW d \in Dirs, NEW r \in Rooms, NEW e \in Dirs,
         Toward(r, e, 1) = Toward(p, d, 1)
  PROVE  \/ r = p /\ e = d
         \/ r = Toward(p, d, 2) /\ Toward(r, e, 2) = p
  <1>1. /\ p \in Int \X Int /\ p[1] % 2 = 1 /\ p[2] % 2 = 1
        /\ r \in Int \X Int /\ r[1] % 2 = 1 /\ r[2] % 2 = 1
    BY RoomIsOdd, InsideIsPoint
  <1>2. p = <<p[1], p[2]>> /\ r = <<r[1], r[2]>>
    BY <1>1
  <1>3. QED
    BY <1>1, <1>2 DEF Toward, Dirs, Up, Down, Left, Right

(* From the room behind, the way back.                                      *)
Back(d) == CHOOSE e \in Dirs : e = (d + 2) % 4

LEMMA WayBack ==
  ASSUME NEW p \in Int \X Int, NEW d \in Dirs
  PROVE  /\ Back(d) \in Dirs
         /\ Toward(Toward(p, d, 2), Back(d), 1) = Toward(p, d, 1)
         /\ Toward(Toward(p, d, 2), Back(d), 2) = p
  <1>1. Back(d) \in Dirs /\ Back(d) = (d + 2) % 4
    BY DEF Back, Dirs, Up, Down, Left, Right
  <1>2. p = <<p[1], p[2]>>
    OBVIOUS
  <1>3. QED
    BY <1>1, <1>2 DEF Toward, Dirs, Up, Down, Left, Right

(* The least set of cells with those found that nothing more is entered     *)
(* from.                                                                    *)
Spread(m, found) ==
  {c \in Cells : \A T \in SUBSET Cells :
                    found \subseteq T /\ Entered(m, T) = {} => c \in T}

LEMMA EnteredGrows ==
  ASSUME NEW m, NEW F \in SUBSET Cells, NEW T \in SUBSET Cells, F \subseteq T, Entered(m, T) = {}
  PROVE  Entered(m, F) \subseteq T
  BY DEF Entered

LEMMA SpreadStep ==
  ASSUME NEW m, NEW F \in SUBSET Cells
  PROVE  /\ F \cup Entered(m, F) \in SUBSET Cells
         /\ Spread(m, F \cup Entered(m, F)) = Spread(m, F)
         /\ Entered(m, F) = {} => Spread(m, F) = F
  <1>1. Entered(m, F) \subseteq Cells
    BY DEF Entered
  <1>2. ASSUME NEW T \in SUBSET Cells, Entered(m, T) = {}
        PROVE  F \subseteq T <=> F \cup Entered(m, F) \subseteq T
    BY <1>2, EnteredGrows
  <1>3. Spread(m, F \cup Entered(m, F)) = Spread(m, F)
    BY <1>2 DEF Spread
  <1>4. ASSUME Entered(m, F) = {} PROVE Spread(m, F) = F
    <2>1. Spread(m, F) \subseteq F
      BY <1>4 DEF Spread
    <2>2. F \subseteq Spread(m, F)
      BY DEF Spread
    <2>3. QED
      BY <2>1, <2>2
  <1>5. QED
    BY <1>1, <1>3, <1>4

LEMMA SpreadIsClosed ==
  ASSUME NEW m, NEW F \in SUBSET Cells
  PROVE  /\ Spread(m, F) \in SUBSET Cells
         /\ F \subseteq Spread(m, F)
         /\ Entered(m, Spread(m, F)) = {}
  <1>1. Spread(m, F) \in SUBSET Cells /\ F \subseteq Spread(m, F)
    BY DEF Spread
  <1>2. ASSUME NEW c \in Entered(m, Spread(m, F)) PROVE FALSE
    <2>1. c \in Cells /\ c \notin Spread(m, F)
      BY <1>2 DEF Entered
    <2>2. PICK T \in SUBSET Cells : F \subseteq T /\ Entered(m, T) = {} /\ c \notin T
      BY <2>1 DEF Spread
    <2>3. Spread(m, F) \subseteq T
      BY <2>2 DEF Spread
    <2>4. c \in Entered(m, T)
      BY <1>2, <2>2, <2>3 DEF Entered
    <2>5. QED
      BY <2>2, <2>4
  <1>3. QED
    BY <1>1, <1>2

LEMMA CellsAreFinite ==
  ASSUME size \in Sizes
  PROVE  IsFiniteSet(Cells)
  <1> DEFINE n == 2 * size[1] * (2 * size[2] + 3)
  <1>1. n \in Int
    BY Dims
  <1>2. Cells = 0 .. n
    BY DEF Cells, CellsOf
  <1> HIDE DEF n
  <1>3. QED
    BY <1>1, <1>2, FS_Interval

(* mark_maze_area enters these cells, and no others.                        *)
LEMMA AreaIsSpread ==
  ASSUME size \in Sizes, NEW m, NEW s \in Cells
  PROVE  AreaFrom(m, s) = Spread(m, {s})
  <1> DEFINE Pass(g, found) ==
               LET new == Entered(m, found)
               IN  IF new = {} THEN found ELSE g[found \cup new]
             IsArea(g) == g = [found \in SUBSET Cells |-> Pass(g, found)]
             Area == CHOOSE g : IsArea(g)
             h == [found \in SUBSET Cells |-> Spread(m, found)]
  <1>1. AreaFrom(m, s) = Area[{s}]
    BY DEF AreaFrom
  <1>2. IsArea(h)
    <2>1. ASSUME NEW F \in SUBSET Cells PROVE h[F] = Pass(h, F)
      BY SpreadStep
    <2> HIDE DEF Pass
    <2>2. QED
      BY <2>1
  <1>3. IsArea(Area)
    BY <1>2
  <1>4. ASSUME NEW F \in SUBSET Cells
        PROVE  Area[F] = IF Entered(m, F) = {} THEN F ELSE Area[F \cup Entered(m, F)]
    <2> HIDE DEF Area
    <2>1. Area[F] = Pass(Area, F)
      BY <1>3
    <2>2. QED
      BY <2>1
  <1> HIDE DEF Area, IsArea, Pass, h
  <1> DEFINE Left_(F) == Cardinality(Cells \ F)
             Bad == {F \in SUBSET Cells : Area[F] # Spread(m, F)}
             BadSizes == {n \in Nat : \E F \in Bad : n = Left_(F)}
  <1>5. IsFiniteSet(Cells)
    BY CellsAreFinite
  <1>6. ASSUME NEW F \in SUBSET Cells PROVE IsFiniteSet(Cells \ F) /\ Left_(F) \in Nat
    BY <1>5, FS_Subset, FS_CardinalityType
  <1>7. ASSUME Bad # {} PROVE FALSE
    <2>1. BadSizes # {}
      BY <1>6, <1>7
    <2>2. PICK n \in BadSizes : \A k \in BadSizes : n <= k
      BY <2>1, LeastNat
    <2>3. PICK F \in Bad : n = Left_(F)
      BY <2>2
    <2> DEFINE new == Entered(m, F)
               G == F \cup new
    <2>4. new # {}
      BY <1>4, <2>3, SpreadStep
    <2>5. G \in SUBSET Cells /\ Area[G] # Spread(m, G)
      BY <1>4, <2>3, <2>4, SpreadStep
    <2>6. Left_(G) \in BadSizes
      BY <1>6, <2>5
    <2>7. n <= Left_(G)
      BY <2>2, <2>6
    <2>8. Cells \ G \in SUBSET (Cells \ F) /\ Cells \ G # Cells \ F
      BY <2>4 DEF Entered
    <2>9. Left_(G) < Left_(F)
      <3>1. IsFiniteSet(Cells \ F) /\ Left_(G) \in Nat /\ Left_(F) \in Nat
        BY <1>6, <2>3, <2>5
      <3>2. Left_(G) <= Left_(F) /\ Left_(G) # Left_(F)
        BY <3>1, <2>8, FS_Subset
      <3>3. QED
        BY <3>1, <3>2
    <2>10. QED
      BY <2>3, <2>7, <2>9, <1>6, <2>5
  <1>8. Area[{s}] = Spread(m, {s})
    BY <1>7
  <1>9. QED
    BY <1>1, <1>8

(* What AreaFrom promises: the cell it starts from, nothing left to enter,  *)
(* and no more than that.                                                   *)
LEMMA AreaIs ==
  ASSUME size \in Sizes, NEW m, NEW s \in Cells
  PROVE  /\ AreaFrom(m, s) \in SUBSET Cells
         /\ s \in AreaFrom(m, s)
         /\ Entered(m, AreaFrom(m, s)) = {}
         /\ \A T \in SUBSET Cells :
               s \in T /\ Entered(m, T) = {} => AreaFrom(m, s) \subseteq T
  <1>1. AreaFrom(m, s) = Spread(m, {s})
    BY AreaIsSpread
  <1>2. {s} \in SUBSET Cells
    OBVIOUS
  <1>3. \A T \in SUBSET Cells : s \in T /\ Entered(m, T) = {} => Spread(m, {s}) \subseteq T
    BY DEF Spread
  <1>4. QED
    BY <1>1, <1>2, <1>3, SpreadIsClosed

Boards == [Cells -> SUBSET Bits]
Open(m, q) == "wall" \notin Cell(m, q)
Reached(m) == {p \in Rooms : "reach" \in Cell(m, p)}
Bordered(m) == \A p \in Points : p \notin Inside => "wall" \in Cell(m, p)
ClosedIn(m, S) ==
    \A p \in S, d \in Dirs : Open(m, Toward(p, d, 1)) => Toward(p, d, 2) \in S
LeastIn(m, S) ==
    /\ <<1, 1>> \in S
    /\ ClosedIn(m, S)
    /\ \A T \in SUBSET Rooms : <<1, 1>> \in T /\ ClosedIn(m, T) => S \subseteq T

AreaRooms(m, p) == {r \in Rooms : Index(r) \in AreaFrom(m, Index(p))}

LEMMA OpenWay ==
  ASSUME size \in Sizes, NEW m, Bordered(m), NEW r \in Rooms, NEW d \in Dirs,
         Open(m, Toward(r, d, 1))
  PROVE  Toward(r, d, 1) \in Inside /\ Toward(r, d, 2) \in Rooms
  BY NextToRoom DEF Bordered, Open

LEMMA RoomCell ==
  ASSUME size \in Sizes, NEW p \in Rooms
  PROVE  Index(p) \in Cells /\ p \in Points /\ p \in Int \X Int
  BY InsideIsPoint, PointInCells

(* An area consists of rooms.                                               *)
LEMMA AreaIsOfRooms ==
  ASSUME size \in Sizes, NEW m, Bordered(m), NEW p \in Rooms
  PROVE  \A c \in AreaFrom(m, Index(p)) : \E r \in AreaRooms(m, p) : c = Index(r)
  <1> DEFINE T == {c \in Cells : \E r \in Rooms : c = Index(r)}
  <1>1. Index(p) \in T
    BY RoomCell
  <1>2. ASSUME NEW c \in Entered(m, T) PROVE FALSE
    <2>1. PICK d \in Dirs : c - 2 * Step(d) \in T /\ "wall" \notin m[c - Step(d)]
      BY <1>2 DEF Entered
    <2>2. PICK r \in Rooms : c - 2 * Step(d) = Index(r)
      BY <2>1
    <2>3. c \in Int /\ c \notin T /\ c \in Cells
      BY <1>2, Dims DEF Entered, Cells, CellsOf
    <2>4. /\ Step(d) \in Int /\ Index(r) \in Int
          /\ Index(Toward(r, d, 1)) = Index(r) + Step(d)
          /\ Index(Toward(r, d, 2)) = Index(r) + 2 * Step(d)
      BY RoomCell, StepIs, IndexIs
    <2>5. c - Step(d) = Index(Toward(r, d, 1)) /\ c = Index(Toward(r, d, 2))
      BY <2>2, <2>3, <2>4
    <2>6. Toward(r, d, 2) \in Rooms
      BY <2>1, <2>5, OpenWay DEF Open, Cell
    <2>7. QED
      BY <2>3, <2>5, <2>6
  <1> HIDE DEF T
  <1>3. T \in SUBSET Cells
    BY DEF T
  <1>4. AreaFrom(m, Index(p)) \subseteq T
    BY <1>1, <1>2, <1>3, AreaIs, RoomCell
  <1>5. QED
    BY <1>4 DEF T, AreaRooms

(* Within an area and the rooms marked before one can walk about: the area  *)
(* is entered from its first room only, and is no larger than it must be.   *)
LEMMA AreaIsWalked ==
  ASSUME size \in Sizes, NEW m, Bordered(m), NEW p \in Rooms, p \notin Reached(m)
  PROVE  /\ p \in AreaRooms(m, p)
         /\ AreaRooms(m, p) \cap Reached(m) = {}
         /\ \A r \in AreaRooms(m, p), d \in Dirs :
               Open(m, Toward(r, d, 1)) => Toward(r, d, 2) \in AreaRooms(m, p) \cup Reached(m)
         /\ \A T \in SUBSET Rooms : p \in T /\ ClosedIn(m, T) => AreaRooms(m, p) \subseteq T
  <1> DEFINE A == AreaFrom(m, Index(p))
  <1>1. /\ A \in SUBSET Cells /\ Index(p) \in A /\ Entered(m, A) = {}
        /\ \A T \in SUBSET Cells : Index(p) \in T /\ Entered(m, T) = {} => A \subseteq T
    BY AreaIs, RoomCell
  <1> HIDE DEF A
  <1>2. p \in AreaRooms(m, p)
    BY <1>1 DEF AreaRooms, A
  <1>3. AreaRooms(m, p) \cap Reached(m) = {}
    <2> DEFINE T == {c \in Cells : "reach" \notin m[c]}
    <2>1. Entered(m, T) = {}
      BY DEF Entered
    <2>2. Index(p) \in T
      BY RoomCell DEF Reached, Cell
    <2>3. A \subseteq T
      BY <1>1, <2>1, <2>2
    <2>4. QED
      BY <2>3 DEF AreaRooms, Reached, Cell, A
  <1>4. ASSUME NEW r \in AreaRooms(m, p), NEW d \in Dirs, Open(m, Toward(r, d, 1)),
               Toward(r, d, 2) \notin AreaRooms(m, p) \cup Reached(m)
        PROVE  FALSE
    <2> DEFINE z == Toward(r, d, 2)
               c == Index(z)
    <2>1. r \in Rooms /\ Index(r) \in A
      BY DEF AreaRooms, A
    <2>2. z \in Rooms
      BY <1>4, <2>1, OpenWay
    <2>3. c \in Cells /\ c \notin A /\ "reach" \notin m[c]
      BY <1>4, <2>2, RoomCell DEF AreaRooms, Reached, Cell, A
    <2>4. /\ Step(d) \in Int /\ Index(r) \in Int
          /\ Index(Toward(r, d, 1)) = Index(r) + Step(d)
          /\ c = Index(r) + 2 * Step(d)
      BY <2>1, RoomCell, StepIs, IndexIs
    <2>5. c - 2 * Step(d) = Index(r) /\ c - Step(d) = Index(Toward(r, d, 1))
      BY <2>4
    <2>6. c \in Entered(m, A)
      BY <1>4, <2>1, <2>3, <2>5 DEF Entered, Open, Cell
    <2>7. QED
      BY <1>1, <2>6
  <1>5. ASSUME NEW U \in SUBSET Rooms, p \in U, ClosedIn(m, U)
        PROVE  AreaRooms(m, p) \subseteq U
    <2> DEFINE T == {c \in Cells : \E r \in U : c = Index(r)}
    <2>1. Index(p) \in T
      BY <1>5, RoomCell
    <2>2. ASSUME NEW c \in Entered(m, T) PROVE FALSE
      <3>1. PICK d \in Dirs : c - 2 * Step(d) \in T /\ "wall" \notin m[c - Step(d)]
        BY <2>2 DEF Entered
      <3>2. PICK r \in U : c - 2 * Step(d) = Index(r)
        BY <3>1
      <3>3. c \in Int /\ c \notin T /\ c \in Cells
        BY <2>2, Dims DEF Entered, Cells, CellsOf
      <3>4. /\ Step(d) \in Int /\ Index(r) \in Int
            /\ Index(Toward(r, d, 1)) = Index(r) + Step(d)
            /\ Index(Toward(r, d, 2)) = Index(r) + 2 * Step(d)
        BY RoomCell, StepIs, IndexIs
      <3>5. c - Step(d) = Index(Toward(r, d, 1)) /\ c = Index(Toward(r, d, 2))
        BY <3>2, <3>3, <3>4
      <3>6. Toward(r, d, 2) \in U
        BY <1>5, <3>1, <3>5 DEF ClosedIn, Open, Cell
      <3>7. QED
        BY <3>3, <3>5, <3>6
    <2> HIDE DEF T
    <2>3. T \in SUBSET Cells
      BY DEF T
    <2>4. A \subseteq T
      BY <1>1, <2>1, <2>2, <2>3
    <2>5. ASSUME NEW r \in AreaRooms(m, p) PROVE r \in U
      <3>1. r \in Rooms /\ Index(r) \in T
        BY <2>4 DEF AreaRooms, A
      <3>2. PICK u \in U : Index(r) = Index(u)
        BY <3>1 DEF T
      <3>3. r = u
        BY <3>1, <3>2, IndexUnique, InsideIsPoint
      <3>4. QED
        BY <3>3
    <2>6. QED
      BY <2>5
  <1>6. QED
    BY <1>2, <1>3, <1>4, <1>5

LEMMA Counted ==
  ASSUME NEW n \in Nat \ {0}
  PROVE  IsFiniteSet(0 .. (n - 1)) /\ Cardinality(0 .. (n - 1)) = n
  <1>1. n - 1 \in Int /\ ~(0 > n - 1) /\ n - 1 - 0 + 1 = n
    OBVIOUS
  <1> DEFINE k == n - 1
  <1>2. IsFiniteSet(0 .. k) /\ Cardinality(0 .. k) = IF 0 > k THEN 0 ELSE k - 0 + 1
    <2> HIDE DEF k
    <2>1. k \in Int /\ 0 \in Int
      BY <1>1 DEF k
    <2>2. QED
      BY <2>1, FS_Interval
  <1>3. QED
    BY <1>1, <1>2

(* mark_maze_area returns the number of rooms it marks.                     *)
LEMMA RoomsAreFinite ==
  ASSUME size \in Sizes
  PROVE  IsFiniteSet(Rooms) /\ Cardinality(Rooms) = size[1] * size[2]
  <1> DEFINE I == 0 .. (size[1] - 1)
             J == 0 .. (size[2] - 1)
             f == [t \in I \X J |-> <<2 * t[1] + 1, 2 * t[2] + 1>>]
  <1>0. size[1] \in Nat \ {0} /\ size[2] \in Nat \ {0}
    BY Dims
  <1>1. IsFiniteSet(I) /\ Cardinality(I) = size[1]
    BY <1>0, Counted, Zenon
  <1>2. IsFiniteSet(J) /\ Cardinality(J) = size[2]
    BY <1>0, Counted, Zenon
  <1>3. IsFiniteSet(I \X J) /\ Cardinality(I \X J) = size[1] * size[2]
    <2> HIDE DEF I, J
    <2>1. IsFiniteSet(I \X J) /\ Cardinality(I \X J) = Cardinality(I) * Cardinality(J)
      BY <1>1, <1>2, FS_Product, Zenon
    <2>2. QED
      BY <1>1, <1>2, <2>1, Zenon
  <1>4. f \in [I \X J -> Rooms]
    BY DEF Rooms, RoomsOf
  <1>5. \A t, u \in I \X J : f[t] = f[u] => t = u
    <2> SUFFICES ASSUME NEW t \in I \X J, NEW u \in I \X J, f[t] = f[u] PROVE t = u
      OBVIOUS
    <2>1. /\ t[1] \in Int /\ t[2] \in Int /\ t = <<t[1], t[2]>>
          /\ u[1] \in Int /\ u[2] \in Int /\ u = <<u[1], u[2]>>
      OBVIOUS
    <2>2. f[t] = <<2 * t[1] + 1, 2 * t[2] + 1>> /\ f[u] = <<2 * u[1] + 1, 2 * u[2] + 1>>
      BY Zenon
    <2> HIDE DEF f, I, J
    <2>3. 2 * t[1] + 1 = 2 * u[1] + 1 /\ 2 * t[2] + 1 = 2 * u[2] + 1
      <3> DEFINE a == 2 * t[1] + 1
                 b == 2 * t[2] + 1
                 c == 2 * u[1] + 1
                 d == 2 * u[2] + 1
      <3>1. <<a, b>> = <<c, d>>
        BY <2>2, Zenon
      <3> HIDE DEF a, b, c, d
      <3>2. a = c /\ b = d
        BY <3>1
      <3>3. QED
        BY <3>2, Zenon DEF a, b, c, d
    <2>4. t[1] = u[1] /\ t[2] = u[2]
      BY <2>1, <2>3
    <2>5. QED
      BY <2>1, <2>4, Zenon
  <1>6. \A r \in Rooms : \E t \in I \X J : f[t] = r
    <2> TAKE r \in Rooms
    <2>1. PICK i \in I, j \in J : r = <<2 * i + 1, 2 * j + 1>>
      BY DEF Rooms, RoomsOf
    <2>2. <<i, j>> \in I \X J /\ f[<<i, j>>] = r
      BY <2>1
    <2>3. QED
      BY <2>2
  <1> HIDE DEF f
  <1>7. f \in Bijection(I \X J, Rooms)
    BY <1>4, <1>5, <1>6 DEF Bijection, Injection, Surjection, IsInjective
  <1>8. QED
    BY <1>3, <1>7, FS_Bijection DEF ExistsBijection

LEMMA AreaSize ==
  ASSUME size \in Sizes, NEW m, Bordered(m), NEW p \in Rooms
  PROVE  /\ IsFiniteSet(AreaRooms(m, p))
         /\ Cardinality(AreaFrom(m, Index(p))) = Cardinality(AreaRooms(m, p))
  <1> DEFINE A == AreaFrom(m, Index(p))
             R == AreaRooms(m, p)
             f == [r \in R |-> Index(r)]
  <1>1. IsFiniteSet(R) /\ R \subseteq Rooms
    <2>1. R \in SUBSET Rooms
      BY DEF AreaRooms
    <2>2. QED
      BY <2>1, RoomsAreFinite, FS_Subset
  <1>2. \A c \in A : \E r \in R : c = Index(r)
    BY AreaIsOfRooms
  <1>3. \A r \in R : Index(r) \in A
    BY DEF AreaRooms
  <1>4. \A r, q \in R : Index(r) = Index(q) => r = q
    BY <1>1, IndexUnique, InsideIsPoint
  <1> HIDE DEF A, R
  <1>5. f \in Bijection(R, A)
    BY <1>2, <1>3, <1>4 DEF Bijection, Injection, Surjection, IsInjective
  <1>6. QED
    BY <1>1, <1>5, FS_Bijection DEF ExistsBijection, A, R

(* What the marks change: no wall, and the rooms of the area are reached.   *)
LEMMA Marked ==
  ASSUME size \in Sizes, NEW m \in Boards, Bordered(m), NEW p \in Rooms
  PROVE  LET m2 == MarkArea(m, Index(p))
         IN  /\ m2 \in Boards
             /\ \A c \in Cells : m2[c] \subseteq m[c] \cup {"reach"} /\ m[c] \subseteq m2[c]
             /\ \A c \in Cells : "reach" \in m2[c] =>
                    "reach" \in m[c] \/ \E r \in Rooms : c = Index(r)
             /\ Reached(m2) = Reached(m) \cup AreaRooms(m, p)
  <1> DEFINE m2 == MarkArea(m, Index(p))
  <1>1. \A c \in Cells : m2[c] = IF c \in AreaFrom(m, Index(p)) THEN m[c] \cup {"reach"} ELSE m[c]
    BY DEF MarkArea
  <1>2. m2 \in Boards
    BY DEF MarkArea, Boards, Bits
  <1> HIDE DEF m2
  <1>3. \A c \in Cells : m2[c] \subseteq m[c] \cup {"reach"} /\ m[c] \subseteq m2[c]
    BY <1>1
  <1>4. \A c \in Cells : "reach" \in m2[c] => "reach" \in m[c] \/ \E r \in Rooms : c = Index(r)
    <2>1. ASSUME NEW c \in Cells, c \in AreaFrom(m, Index(p)) PROVE \E r \in Rooms : c = Index(r)
      <3>1. \E r \in AreaRooms(m, p) : c = Index(r)
        BY <2>1, AreaIsOfRooms
      <3>2. QED
        BY <3>1 DEF AreaRooms
    <2>2. QED
      BY <1>1, <2>1
  <1>5. \A r \in Rooms : "reach" \in Cell(m2, r) <=> "reach" \in Cell(m, r) \/ r \in AreaRooms(m, p)
    BY <1>1, RoomCell DEF AreaRooms, Cell
  <1>6. Reached(m2) = Reached(m) \cup AreaRooms(m, p)
    BY <1>5 DEF Reached, AreaRooms
  <1>7. QED
    BY <1>2, <1>3, <1>4, <1>6 DEF m2

(* A space dug inside the boundary.                                         *)
Dug(m, q) == [m EXCEPT ![Index(q)] = NONE]

LEMMA DugCells ==
  ASSUME size \in Sizes, NEW m \in Boards, NEW q \in Inside
  PROVE  /\ Dug(m, q) \in Boards
         /\ Cell(Dug(m, q), q) = NONE
         /\ \A c \in Cells : Dug(m, q)[c] = NONE \/ Dug(m, q)[c] = m[c]
         /\ \A z \in Points : z # q => Cell(Dug(m, q), z) = Cell(m, z)
         /\ Bordered(m) => Bordered(Dug(m, q))
  <1>1. Index(q) \in Cells
    BY InsideIsPoint, PointInCells
  <1>2. /\ Dug(m, q) \in Boards
        /\ Dug(m, q)[Index(q)] = NONE
        /\ \A c \in Cells : c # Index(q) => Dug(m, q)[c] = m[c]
    BY <1>1 DEF Dug, Boards, NONE
  <1>3. \A c \in Cells : Dug(m, q)[c] = NONE \/ Dug(m, q)[c] = m[c]
    BY <1>1, <1>2
  <1>4. Cell(Dug(m, q), q) = NONE
    BY <1>2 DEF Cell
  <1>5. ASSUME NEW z \in Points, z # q PROVE Cell(Dug(m, q), z) = Cell(m, z)
    <2>1. Index(z) \in Cells
      BY PointInCells
    <2>2. Index(z) # Index(q)
      BY <1>5, IndexUnique
    <2>3. QED
      BY <1>2, <2>1, <2>2 DEF Cell
  <1>6. Bordered(m) => Bordered(Dug(m, q))
    BY <1>5 DEF Bordered
  <1>7. QED
    BY <1>2, <1>3, <1>4, <1>5, <1>6

LEMMA MarksKeepWalls ==
  ASSUME size \in Sizes, NEW m \in Boards, Bordered(m), NEW p \in Rooms
  PROVE  /\ \A z \in Points : Open(MarkArea(m, Index(p)), z) <=> Open(m, z)
         /\ Bordered(MarkArea(m, Index(p)))
  <1> DEFINE m2 == MarkArea(m, Index(p))
  <1>1. \A c \in Cells : m2[c] \subseteq m[c] \cup {"reach"} /\ m[c] \subseteq m2[c]
    BY Marked
  <1> HIDE DEF m2
  <1>2. \A z \in Points : Open(m2, z) <=> Open(m, z)
    BY <1>1, PointInCells DEF Open, Cell
  <1>3. Bordered(m2)
    BY <1>2 DEF Bordered, Open
  <1>4. QED
    BY <1>2, <1>3 DEF m2

(* Before the second phase: the rooms reached from (1, 1) are marked.       *)
LEMMA FirstMarks ==
  ASSUME size \in Sizes, NEW m \in Boards, Bordered(m), Reached(m) = {}
  PROVE  LET m2 == MarkArea(m, Index(<<1, 1>>))
         IN  /\ Reached(m2) = AreaRooms(m, <<1, 1>>)
             /\ LeastIn(m2, Reached(m2))
  <1> DEFINE p == <<1, 1>>
             m2 == MarkArea(m, Index(p))
             A == AreaRooms(m, p)
  <1>1. p \in Rooms /\ p \notin Reached(m)
    BY FirstRoom
  <1> HIDE DEF p
  <1>2. Reached(m2) = A
    BY <1>1, Marked
  <1>3. /\ p \in A
        /\ \A r \in A, d \in Dirs : Open(m, Toward(r, d, 1)) => Toward(r, d, 2) \in A
        /\ \A T \in SUBSET Rooms : p \in T /\ ClosedIn(m, T) => A \subseteq T
    BY <1>1, AreaIsWalked
  <1>4. A \subseteq Rooms
    BY DEF AreaRooms
  <1>5. \A z \in Points : Open(m2, z) <=> Open(m, z)
    BY <1>1, MarksKeepWalls
  <1> HIDE DEF A, m2
  <1>6. \A r \in Rooms, d \in Dirs : Open(m2, Toward(r, d, 1)) <=> Open(m, Toward(r, d, 1))
    BY <1>5, NextToRoom
  <1>7. ClosedIn(m2, A)
    BY <1>3, <1>4, <1>6 DEF ClosedIn
  <1>8. \A T \in SUBSET Rooms : ClosedIn(m2, T) => ClosedIn(m, T)
    BY <1>6 DEF ClosedIn
  <1>9. LeastIn(m2, A)
    BY <1>3, <1>7, <1>8 DEF LeastIn, p
  <1>10. QED
    BY <1>2, <1>9 DEF p, A, m2

(* A wall is knocked down between a room that is not reached and one that   *)
(* is, and the marks are still the rooms one can walk to.                   *)
LEMMA Joined ==
  ASSUME size \in Sizes, NEW m \in Boards, Bordered(m), LeastIn(m, Reached(m)),
         NEW p \in Rooms, p \notin Reached(m),
         NEW d \in Dirs, InMaze(p, d), Toward(p, d, 2) \in Reached(m)
  PROVE  LET joined == Dug(m, Toward(p, d, 1))
             m2 == MarkArea(joined, Index(p))
             A == AreaRooms(joined, p)
         IN  /\ m2 \in Boards /\ Bordered(joined) /\ Bordered(m2)
             /\ \A c \in Cells : m2[c] \subseteq m[c] \cup {"reach"}
             /\ \A c \in Cells : "reach" \in m2[c] =>
                    "reach" \in m[c] \/ \E r \in Rooms : c = Index(r)
             /\ Reached(m2) = Reached(m) \cup A
             /\ A \cap Reached(m) = {}
             /\ LeastIn(m2, Reached(m2))
  <1> DEFINE between == Toward(p, d, 1)
             q == Toward(p, d, 2)
             joined == Dug(m, between)
             m2 == MarkArea(joined, Index(p))
             A == AreaRooms(joined, p)
             R == Reached(m)
  <1>1. between \in Inside /\ between \notin Rooms /\ q \in Rooms
    BY NextToRoom
  <1>2. /\ joined \in Boards /\ Bordered(joined)
        /\ Cell(joined, between) = NONE
        /\ \A c \in Cells : joined[c] = NONE \/ joined[c] = m[c]
        /\ \A z \in Points : z # between => Cell(joined, z) = Cell(m, z)
    BY <1>1, DugCells
  <1> HIDE DEF joined
  <1>3. Reached(joined) = R
    BY <1>1, <1>2, InsideIsPoint DEF Reached
  <1>4. /\ p \in A
        /\ A \cap R = {}
        /\ \A r \in A, e \in Dirs : Open(joined, Toward(r, e, 1)) => Toward(r, e, 2) \in A \cup R
        /\ \A T \in SUBSET Rooms : p \in T /\ ClosedIn(joined, T) => A \subseteq T
    BY <1>2, <1>3, AreaIsWalked
  <1>5. /\ m2 \in Boards
        /\ \A c \in Cells : m2[c] \subseteq joined[c] \cup {"reach"} /\ joined[c] \subseteq m2[c]
        /\ \A c \in Cells : "reach" \in m2[c] =>
               "reach" \in joined[c] \/ \E r \in Rooms : c = Index(r)
        /\ Reached(m2) = R \cup A
    BY <1>2, <1>3, Marked
  <1>6. \A c \in Cells : m2[c] \subseteq m[c] \cup {"reach"}
    BY <1>2, <1>5 DEF NONE
  <1>7. \A c \in Cells : "reach" \in m2[c] => "reach" \in m[c] \/ \E r \in Rooms : c = Index(r)
    BY <1>2, <1>5 DEF NONE
  <1>8. Bordered(m2) /\ \A z \in Points : Open(m2, z) <=> Open(joined, z)
    BY <1>2, MarksKeepWalls
  <1>9. A \subseteq Rooms /\ R \subseteq Rooms
    BY DEF AreaRooms, Reached
  <1> HIDE DEF A, m2, R, between
  <1>10. \A r \in Rooms, e \in Dirs :
            /\ Open(m2, Toward(r, e, 1)) <=> Open(joined, Toward(r, e, 1))
            /\ Toward(r, e, 1) # between =>
                  (Open(joined, Toward(r, e, 1)) <=> Open(m, Toward(r, e, 1)))
    BY <1>2, <1>8, NextToRoom DEF Open
  <1>11. ASSUME NEW r \in R \cup A, NEW e \in Dirs, Open(m2, Toward(r, e, 1))
         PROVE  Toward(r, e, 2) \in R \cup A
    <2>1. r \in Rooms /\ Open(joined, Toward(r, e, 1))
      BY <1>9, <1>10, <1>11
    <2>2. CASE r \in A
      BY <1>4, <2>1, <2>2
    <2>3. CASE r \in R /\ Toward(r, e, 1) # between
      BY <1>10, <2>1, <2>3 DEF LeastIn, ClosedIn, R
    <2>4. CASE r \in R /\ Toward(r, e, 1) = between
      <3>1. r # p
        BY <1>4, <2>4
      <3>2. Toward(r, e, 2) = p
        BY <2>1, <2>4, <3>1, BetweenTwo DEF between
      <3>3. QED
        BY <1>4, <3>2
    <2>5. QED
      BY <1>11, <2>2, <2>3, <2>4
  <1>12. ASSUME NEW T \in SUBSET Rooms, <<1, 1>> \in T, ClosedIn(m2, T)
         PROVE  R \cup A \subseteq T
    <2>1. ClosedIn(joined, T)
      BY <1>10, <1>12 DEF ClosedIn
    <2>2. \A r \in Rooms, e \in Dirs :
             Open(m, Toward(r, e, 1)) => Open(joined, Toward(r, e, 1))
      BY <1>2, <1>10 DEF Open, NONE
    <2>3. ClosedIn(m, T)
      BY <2>1, <2>2 DEF ClosedIn
    <2>4. R \subseteq T
      BY <1>12, <2>3 DEF LeastIn, R
    <2>5. q \in T
      BY <2>4 DEF R
    <2>6. /\ Back(d) \in Dirs /\ Toward(q, Back(d), 1) = between
          /\ Toward(q, Back(d), 2) = p
      BY WayBack, RoomCell DEF between
    <2>7. Open(joined, between)
      BY <1>2 DEF Open, NONE
    <2> HIDE DEF q
    <2>8. p \in T
      BY <2>1, <2>5, <2>6, <2>7 DEF ClosedIn
    <2>9. A \subseteq T
      BY <1>4, <2>1, <2>8
    <2>10. QED
      BY <2>4, <2>9
  <1>13. <<1, 1>> \in R
    BY DEF LeastIn, R
  <1>14. LeastIn(m2, R \cup A)
    BY <1>11, <1>12, <1>13 DEF LeastIn, ClosedIn
  <1>15. QED
    BY <1>2, <1>4, <1>5, <1>6, <1>7, <1>8, <1>14 DEF A, m2, R, between, joined

LEMMA DivMod ==
  ASSUME NEW a \in Nat, NEW b \in Nat \ {0}
  PROVE  /\ a \div b \in Nat /\ a % b \in 0 .. b - 1
         /\ a = b * (a \div b) + (a % b)
  OBVIOUS

(* The rooms in the order of the scan.                                      *)
Number(p) == p[1] \div 2 + size[1] * (p[2] \div 2)
AllRooms == size[1] * size[2]
Around(n) == IF n >= AllRooms THEN n - AllRooms ELSE n

LEMMA RoomParts ==
  ASSUME size \in Sizes, NEW p \in Rooms
  PROVE  /\ p[1] \div 2 \in 0 .. (size[1] - 1) /\ p[2] \div 2 \in 0 .. (size[2] - 1)
         /\ p = <<2 * (p[1] \div 2) + 1, 2 * (p[2] \div 2) + 1>>
  <1>1. PICK i \in 0 .. (size[1] - 1), j \in 0 .. (size[2] - 1) : p = <<2 * i + 1, 2 * j + 1>>
    BY DEF Rooms, RoomsOf
  <1>2. p[1] \div 2 = i /\ p[2] \div 2 = j
    BY <1>1, Dims
  <1>3. QED
    BY <1>1, <1>2

LEMMA HowManyRooms ==
  ASSUME size \in Sizes
  PROVE  AllRooms \in Nat /\ AllRooms >= 1
  <1>1. size[1] * 1 <= size[1] * size[2]
    BY TimesMonotone, Dims
  <1>2. QED
    BY <1>1, Dims DEF AllRooms

LEMMA NumberIs ==
  ASSUME size \in Sizes, NEW p \in Rooms
  PROVE  Number(p) \in 0 .. (AllRooms - 1)
  <1> DEFINE i == p[1] \div 2
             j == p[2] \div 2
  <1>1. i \in 0 .. (size[1] - 1) /\ j \in 0 .. (size[2] - 1)
    BY RoomParts
  <1> HIDE DEF i, j
  <1>2. size[1] * j <= size[1] * (size[2] - 1) /\ size[1] * 0 <= size[1] * j
    BY <1>1, Dims, TimesMonotone
  <1>3. size[1] * (size[2] - 1) = size[1] * size[2] - size[1] /\ size[1] * 0 = 0
    BY Dims
  <1>4. size[1] * j \in Int /\ size[1] * size[2] \in Int
    BY <1>1, Dims
  <1>5. i + size[1] * j \in 0 .. (size[1] * size[2] - 1)
    BY <1>1, <1>2, <1>3, <1>4, Dims
  <1>6. QED
    BY <1>5 DEF Number, AllRooms, i, j

LEMMA NumberUnique ==
  ASSUME size \in Sizes, NEW p \in Rooms, NEW q \in Rooms, Number(p) = Number(q)
  PROVE  p = q
  <1> DEFINE i == p[1] \div 2
             j == p[2] \div 2
             k == q[1] \div 2
             l == q[2] \div 2
  <1>1. /\ i \in 0 .. (size[1] - 1) /\ j \in 0 .. (size[2] - 1) /\ p = <<2 * i + 1, 2 * j + 1>>
        /\ k \in 0 .. (size[1] - 1) /\ l \in 0 .. (size[2] - 1) /\ q = <<2 * k + 1, 2 * l + 1>>
    BY RoomParts
  <1>2. i + size[1] * j = k + size[1] * l
    BY DEF Number
  <1> HIDE DEF i, j, k, l
  <1>3. size[1] * (j - l) = k - i
    <2>1. j \in Int /\ l \in Int /\ size[1] \in Int
      BY <1>1, Dims
    <2>2. size[1] * (j - l) = size[1] * j - size[1] * l
      BY <2>1
    <2>3. size[1] * j \in Int /\ size[1] * l \in Int /\ i \in Int /\ k \in Int
      BY <1>1, <2>1
    <2>4. QED
      BY <1>2, <2>2, <2>3
  <1>4. -size[1] < k - i /\ k - i < size[1]
    BY <1>1, Dims
  <1>5. j - l = 0
    BY <1>1, <1>3, <1>4, SameRow, Dims
  <1>6. i = k
    BY <1>1, <1>2, <1>5, Dims
  <1>7. QED
    BY <1>1, <1>5, <1>6

LEMMA RoomNumbered ==
  ASSUME size \in Sizes, NEW n \in 0 .. (AllRooms - 1)
  PROVE  \E p \in Rooms : Number(p) = n
  <1> DEFINE i == n % size[1]
             j == n \div size[1]
             p == <<2 * i + 1, 2 * j + 1>>
  <1>1. n \in Nat /\ size[1] \in Nat \ {0}
    BY HowManyRooms, Dims
  <1>2. j \in Nat /\ i \in 0 .. (size[1] - 1) /\ n = size[1] * j + i
    BY <1>1, DivMod
  <1> HIDE DEF i, j
  <1>3. j <= size[2] - 1
    <2> SUFFICES ASSUME j >= size[2] PROVE FALSE
      BY <1>2, Dims
    <2>1. size[1] * size[2] <= size[1] * j
      BY <1>2, TimesMonotone, Dims
    <2>2. n <= size[1] * size[2] - 1
      BY <1>1, HowManyRooms DEF AllRooms
    <2>3. size[1] * j \in Int /\ size[1] * size[2] \in Int
      BY <1>2, Dims
    <2>4. QED
      BY <1>1, <1>2, <2>1, <2>2, <2>3
  <1>4. p \in Rooms
    BY <1>2, <1>3, Dims DEF Rooms, RoomsOf
  <1>5. p[1] \div 2 = i /\ p[2] \div 2 = j
    BY <1>2
  <1>6. Number(p) = n
    <2>1. Number(p) = i + size[1] * j
      BY <1>5, Zenon DEF Number
    <2> DEFINE k == size[1] * j
    <2>2. k \in Int /\ i \in Int /\ n = k + i
      BY <1>1, <1>2
    <2> HIDE DEF k
    <2>3. i + k = n
      BY <2>2
    <2>4. QED
      BY <2>1, <2>3 DEF k
  <1>7. QED
    BY <1>4, <1>6

LEMMA NextInOrder ==
  ASSUME size \in Sizes, NEW p \in Rooms
  PROVE  /\ NextRoom(p) \in Rooms
         /\ Number(NextRoom(p)) = Around(Number(p) + 1)
  <1> DEFINE i == p[1] \div 2
             j == p[2] \div 2
             a == IF i + 1 = size[1] THEN 0 ELSE i + 1
             b == IF i + 1 # size[1] THEN j ELSE IF j + 1 = size[2] THEN 0 ELSE j + 1
  <1>1. i \in 0 .. (size[1] - 1) /\ j \in 0 .. (size[2] - 1) /\ p = <<2 * i + 1, 2 * j + 1>>
    BY RoomParts
  <1> HIDE DEF i, j
  <1>2. NextRoom(p) = <<2 * a + 1, 2 * b + 1>>
    BY <1>1, Dims DEF NextRoom
  <1>3. a \in 0 .. (size[1] - 1) /\ b \in 0 .. (size[2] - 1)
    BY <1>1, Dims
  <1>4. NextRoom(p) \in Rooms
    <2> HIDE DEF a, b
    <2>1. QED
      BY <1>2, <1>3 DEF Rooms, RoomsOf
  <1>5. Number(NextRoom(p)) = a + size[1] * b
    <2> HIDE DEF a, b
    <2>1. (2 * a + 1) \div 2 = a /\ (2 * b + 1) \div 2 = b
      BY <1>3, Dims
    <2>2. QED
      BY <1>2, <2>1 DEF Number
  <1>6. Number(p) = i + size[1] * j /\ Number(p) \in 0 .. (AllRooms - 1)
    BY NumberIs DEF Number, i, j
  <1>7. Number(NextRoom(p)) \in 0 .. (AllRooms - 1)
    BY <1>4, NumberIs
  <1>8. CASE i + 1 # size[1]
    <2>1. Number(NextRoom(p)) = Number(p) + 1
      BY <1>1, <1>5, <1>6, <1>8, Dims
    <2>2. QED
      BY <1>4, <1>7, <2>1, HowManyRooms DEF Around
  <1>9. CASE i + 1 = size[1] /\ j + 1 # size[2]
    <2>1. size[1] * (j + 1) = size[1] * j + size[1]
      BY <1>1, Dims
    <2>2. Number(NextRoom(p)) = Number(p) + 1
      <3>1. a = 0 /\ b = j + 1
        BY <1>9
      <3> HIDE DEF a, b
      <3>2. QED
        BY <1>1, <1>5, <1>6, <1>9, <2>1, <3>1, Dims
    <2>3. QED
      BY <1>4, <1>7, <2>2, HowManyRooms DEF Around
  <1>10. CASE i + 1 = size[1] /\ j + 1 = size[2]
    <2>1. size[1] * (j + 1) = size[1] * j + size[1]
      BY <1>1, Dims
    <2>2. Number(p) + 1 = AllRooms
      BY <1>1, <1>6, <1>10, <2>1, Dims DEF AllRooms
    <2>3. Number(NextRoom(p)) = 0
      <3>1. a = 0 /\ b = 0
        BY <1>10
      <3> HIDE DEF a, b
      <3>2. QED
        BY <1>5, <3>1, Dims
    <2>4. QED
      BY <1>4, <2>2, <2>3, HowManyRooms DEF Around
  <1>11. QED
    BY <1>8, <1>9, <1>10

(* One turn of the scan passes every room.                                  *)
LEMMA ScanPassesAll ==
  ASSUME size \in Sizes, at \in Rooms, NEW p \in Rooms
  PROVE  LET Visit[n \in 0 .. (size[1] * size[2])] ==
                 IF n = 0 THEN at ELSE NextRoom(Visit[n - 1])
         IN  \E n \in 1 .. (size[1] * size[2]) : Visit[n] = p
  <1> DEFINE D == 0 .. AllRooms
             F(g, n) == IF n = 0 THEN at ELSE NextRoom(g[n - 1])
             IsVisit(g) == g = [n \in D |-> F(g, n)]
             Visit == CHOOSE g : IsVisit(g)
             RoomOf(k) == CHOOSE r \in Rooms : Number(r) = k
             h == [n \in D |-> RoomOf(Around(Number(at) + n))]
  <1>1. AllRooms \in Nat /\ AllRooms >= 1
    BY HowManyRooms
  <1>2. Number(at) \in 0 .. (AllRooms - 1) /\ Number(p) \in 0 .. (AllRooms - 1)
    BY NumberIs
  <1>3. \A k \in 0 .. (AllRooms - 1) : RoomOf(k) \in Rooms /\ Number(RoomOf(k)) = k
    BY RoomNumbered
  <1> HIDE DEF RoomOf
  <1>4. \A n \in D : Around(Number(at) + n) \in 0 .. (AllRooms - 1)
    BY <1>1, <1>2 DEF Around
  <1>5. ASSUME NEW n \in D PROVE h[n] = F(h, n)
    <2>1. h[n] \in Rooms /\ Number(h[n]) = Around(Number(at) + n)
      BY <1>3, <1>4
    <2>2. CASE n = 0
      <3>1. Number(h[n]) = Number(at)
        BY <1>1, <1>2, <2>1, <2>2 DEF Around
      <3>2. h[n] = at
        BY <2>1, <3>1, NumberUnique
      <3>3. QED
        BY <2>2, <3>2
    <2>3. CASE n # 0
      <3>1. n - 1 \in D
        BY <1>1, <2>3
      <3>2. h[n - 1] \in Rooms /\ Number(h[n - 1]) = Around(Number(at) + (n - 1))
        BY <1>3, <1>4, <3>1
      <3> HIDE DEF h
      <3>3. /\ NextRoom(h[n - 1]) \in Rooms
            /\ Number(NextRoom(h[n - 1])) = Around(Number(h[n - 1]) + 1)
        BY <3>2, NextInOrder
      <3>4. Around(Number(h[n - 1]) + 1) = Around(Number(at) + n)
        BY <1>1, <1>2, <2>3, <3>2 DEF Around
      <3>5. h[n] = NextRoom(h[n - 1])
        BY <2>1, <3>3, <3>4, NumberUnique
      <3>6. QED
        BY <2>3, <3>5
    <2>4. QED
      BY <2>2, <2>3
  <1>6. IsVisit(h)
    <2> HIDE DEF F
    <2>1. QED
      BY <1>5
  <1>7. IsVisit(Visit)
    <2> HIDE DEF IsVisit, h
    <2>1. QED
      BY <1>6
  <1>8. Visit[0] = at /\ \A n \in D : n # 0 => Visit[n] = NextRoom(Visit[n - 1])
    <2> HIDE DEF Visit
    <2>1. \A n \in D : Visit[n] = F(Visit, n)
      <3> HIDE DEF F
      <3>1. QED
        BY <1>7
    <2>2. 0 \in D
      BY <1>1
    <2>3. QED
      BY <2>1, <2>2
  <1> HIDE DEF h, F, IsVisit
  <1> DEFINE V == Visit
  <1>9. V[0] = at /\ \A n \in D : n # 0 => V[n] = NextRoom(V[n - 1])
    BY <1>8
  <1> HIDE DEF V
  <1> DEFINE Goes(n) == V[n] \in Rooms /\ Number(V[n]) = Around(Number(at) + n)
             Bad == {n \in D : ~Goes(n)}
  <1>10. Goes(0)
    BY <1>1, <1>2, <1>9 DEF Around
  <1>11. ASSUME NEW n \in D, n # 0, Goes(n - 1) PROVE Goes(n)
    <2>1. V[n] \in Rooms /\ Number(V[n]) = Around(Number(V[n - 1]) + 1)
      BY <1>9, <1>11, NextInOrder
    <2>2. Around(Number(V[n - 1]) + 1) = Around(Number(at) + n)
      BY <1>1, <1>2, <1>11 DEF Around
    <2>3. QED
      BY <2>1, <2>2
  <1>12. Bad = {}
    <2> SUFFICES ASSUME Bad # {} PROVE FALSE
      OBVIOUS
    <2>1. Bad \in SUBSET Nat
      BY <1>1
    <2>2. PICK n \in Bad : \A k \in Bad : n <= k
      BY <2>1, LeastNat
    <2>3. n \in D /\ n # 0 /\ ~Goes(n)
      BY <1>10, <2>2
    <2> HIDE DEF Goes
    <2>4. n - 1 \in D /\ n - 1 \notin Bad
      BY <1>1, <2>2, <2>3
    <2>5. Goes(n - 1)
      BY <2>4
    <2>6. QED
      BY <1>11, <2>3, <2>5
  <1> DEFINE n == IF Number(p) > Number(at) THEN Number(p) - Number(at)
                                            ELSE Number(p) - Number(at) + AllRooms
  <1>13. n \in 1 .. AllRooms /\ Around(Number(at) + n) = Number(p)
    BY <1>1, <1>2 DEF Around
  <1> HIDE DEF n
  <1>14. V[n] \in Rooms /\ Number(V[n]) = Number(p)
    BY <1>1, <1>12, <1>13
  <1>15. V[n] = p
    BY <1>14, NumberUnique
  <1>16. \E k \in 1 .. AllRooms : Visit[k] = p
    BY <1>13, <1>15 DEF V
  <1>17. QED
    BY <1>16 DEF AllRooms, Visit, IsVisit, F

(* Of the rooms not reached, one has a reached neighbour: one nearest to    *)
(* (1, 1) has it on the left or above.                                      *)
LEMMA SomeRoomJoins ==
  ASSUME size \in Sizes, <<1, 1>> \in Reached(maze), NEW u \in Rooms, u \notin Reached(maze)
  PROVE  \E p \in Rooms : p \notin Reached(maze) /\ Openings(p) # {}
  <1> DEFINE Sums == {n \in Nat : \E p \in Rooms : p \notin Reached(maze) /\ n = p[1] + p[2]}
  <1>1. u[1] + u[2] \in Sums
    BY RoomCell, InsideIsPoint DEF Points, Inside
  <1>2. PICK n \in Sums : \A k \in Sums : n <= k
    BY <1>1, LeastNat
  <1>3. PICK p \in Rooms : p \notin Reached(maze) /\ n = p[1] + p[2]
    BY <1>2
  <1>4. /\ p \in Inside /\ p[1] % 2 = 1 /\ p[2] % 2 = 1
        /\ p = <<p[1], p[2]>> /\ p[1] \in Nat /\ p[2] \in Nat
    BY RoomIsOdd, Dims DEF Inside
  <1>5. p # <<1, 1>>
    BY <1>3
  <1>6. ASSUME NEW d \in {Up, Left}, InMaze(p, d) PROVE Openings(p) # {}
    <2> DEFINE q == Toward(p, d, 2)
    <2>1. d \in Dirs
      BY DEF Dirs, Up, Left
    <2>2. q \in Rooms
      BY <1>6, <2>1, NextToRoom
    <2>3. q[1] + q[2] = n - 2
      BY <1>3, <1>4 DEF Toward, Up, Left, Down, Right
    <2>4. q[1] \in Nat /\ q[2] \in Nat
      BY <2>2, RoomIsOdd, Dims DEF Inside
    <2> HIDE DEF q
    <2>5. q \in Reached(maze)
      <3> SUFFICES ASSUME q \notin Reached(maze) PROVE FALSE
        OBVIOUS
      <3>1. q[1] + q[2] \in Sums
        BY <2>2, <2>4
      <3>2. QED
        BY <1>2, <2>3, <2>4, <3>1
    <2>6. "reach" \in Cell(maze, q)
      BY <2>5 DEF Reached
    <2>7. d = Preference[1] \/ d = Preference[2]
      BY DEF Preference
    <2>8. 1 \in Openings(p) \/ 2 \in Openings(p)
      BY <1>6, <2>6, <2>7 DEF Openings, q
    <2>9. QED
      BY <2>8
  <1>7. InMaze(p, Up) \/ InMaze(p, Left)
    <2>1. p[1] > 1 \/ p[2] > 1
      BY <1>4, <1>5
    <2>2. QED
      BY <2>1 DEF InMaze, Up, Left, Down, Right
  <1>8. Openings(p) # {}
    BY <1>6, <1>7
  <1>9. QED
    BY <1>3, <1>8

Walled == {p \in Rooms : "wall" \in Cell(maze, p)}
Unreached == {p \in Rooms : "reach" \notin Cell(maze, p)}
Fruited == {c \in Cells : "fruit" \in maze[c]}

BitsInv ==
  /\ phase \in {"drop", "crawl"} => \A c \in Cells : maze[c] \subseteq {"wall"}
  /\ phase \in {"connect", "clear"} => \A c \in Cells : maze[c] \subseteq {"wall", "reach"}
  /\ phase \in {"connect", "clear"} =>
       \A c \in Cells : "reach" \in maze[c] => \E r \in Rooms : c = Index(r)
  /\ phase \in {"furnish", "built"} => \A c \in Cells : "reach" \notin maze[c]
  /\ phase = "furnish" => \A c \in Cells : "exit" \notin maze[c]
  /\ phase \in {"connect", "clear", "furnish", "built"} =>
       \A p \in Rooms : Open(maze, p)

CountInv ==
  /\ phase \in {"drop", "crawl"} => remaining = Cardinality(Walled)
  /\ phase = "connect" => remaining = Cardinality(Unreached)

WalkInv ==
  /\ phase = "connect" => LeastIn(maze, Reached(maze))
  /\ phase \in {"clear", "furnish", "built"} => LeastIn(maze, Rooms)

FruitInv ==
  /\ phase \in {"furnish", "built"} =>
       /\ n_fruits = Cardinality(Fruited)
       /\ \A c \in Cells : "fruit" \in maze[c] => \E r \in Rooms : c = Index(r)
  /\ phase = "built" =>
       /\ exit \in Rooms
       /\ {c \in Cells : "exit" \in maze[c]} = {Index(exit)}
       /\ "fruit" \notin Cell(maze, exit)

BuildInv == BuildTypeOK /\ Bordered(maze) /\ BitsInv /\ CountInv /\ WalkInv /\ FruitInv

LEMMA SameSize ==
  ASSUME size' = size
  PROVE  /\ W' = W /\ Cells' = Cells /\ Rooms' = Rooms /\ Inside' = Inside /\ Points' = Points
         /\ Bordered(maze)' <=> Bordered(maze')
         /\ Reached(maze)' = Reached(maze')
         /\ Walled' = {p \in Rooms : "wall" \in Cell(maze', p)}
         /\ Unreached' = {p \in Rooms : "reach" \notin Cell(maze', p)}
         /\ Fruited' = {c \in Cells : "fruit" \in maze'[c]}
         /\ \A S : LeastIn(maze, S)' <=> LeastIn(maze', S)
         /\ \A p : Open(maze, p)' <=> Open(maze', p)
         /\ \A p : Index(p)' = Index(p)
         /\ \A p : Cell(maze, p)' = Cell(maze', p)
  <1>1. W' = W /\ \A p : Index(p)' = Index(p)
    BY DEF W, Index
  <1>2. Cells' = Cells /\ Rooms' = Rooms /\ Inside' = Inside /\ Points' = Points
    BY <1>1 DEF Cells, Rooms, Inside, Points
  <1>3. \A p : Cell(maze, p)' = Cell(maze', p)
    BY <1>1 DEF Cell
  <1>4. \A p : Open(maze, p)' <=> Open(maze', p)
    BY <1>3 DEF Open
  <1>5. Bordered(maze)' <=> Bordered(maze')
    BY <1>2, <1>3 DEF Bordered
  <1>6. Reached(maze)' = Reached(maze')
    BY <1>2, <1>3 DEF Reached
  <1>7. /\ Walled' = {p \in Rooms : "wall" \in Cell(maze', p)}
        /\ Unreached' = {p \in Rooms : "reach" \notin Cell(maze', p)}
        /\ Fruited' = {c \in Cells : "fruit" \in maze'[c]}
    BY <1>2, <1>3 DEF Walled, Unreached, Fruited
  <1>8. \A S : ClosedIn(maze, S)' <=> ClosedIn(maze', S)
    BY <1>4 DEF ClosedIn
  <1>9. \A S : LeastIn(maze, S)' <=> LeastIn(maze', S)
    BY <1>2, <1>8 DEF LeastIn
  <1>10. QED
    BY <1>1, <1>2, <1>3, <1>4, <1>5, <1>6, <1>7, <1>9

LEMMA SubsetCount ==
  ASSUME size \in Sizes, NEW S \in SUBSET Rooms
  PROVE  IsFiniteSet(S) /\ Cardinality(S) \in 0 .. AllRooms
  <1>1. IsFiniteSet(Rooms) /\ Cardinality(Rooms) = AllRooms
    BY RoomsAreFinite DEF AllRooms
  <1>2. IsFiniteSet(S) /\ Cardinality(S) <= AllRooms
    BY <1>1, FS_Subset
  <1>3. Cardinality(S) \in Nat
    BY <1>2, FS_CardinalityType
  <1>4. QED
    BY <1>2, <1>3, HowManyRooms

(* A new maze is all walls.                                                 *)
Fresh ==
  /\ size \in Sizes /\ maze = Walls(size) /\ remaining = size[1] * size[2]
  /\ phase = "drop" /\ at = <<1, 1>> /\ pref_dir = Up /\ trials = 0
  /\ n_fruits \in 0 .. StartFruits

LEMMA FreshIsBuildInv == Fresh => BuildInv
  <1> SUFFICES ASSUME Fresh PROVE BuildInv
    OBVIOUS
  <1>1. size \in Sizes /\ maze = [c \in Cells |-> WALL] /\ phase = "drop"
    BY DEF Fresh, Walls, Cells
  <1>2. maze \in Boards
    BY <1>1 DEF Boards, WALL, Bits
  <1>3. \A p \in Points : Cell(maze, p) = WALL
    BY <1>1, PointInCells DEF Cell
  <1>4. Bordered(maze)
    BY <1>3 DEF Bordered, WALL
  <1>5. BitsInv
    BY <1>1 DEF BitsInv, WALL
  <1>6. Walled = Rooms
    BY <1>1, <1>3, InsideIsPoint DEF Walled, WALL
  <1>7. CountInv
    BY <1>1, <1>6, RoomsAreFinite DEF CountInv, Fresh
  <1>8. remaining \in 0 .. (size[1] * size[2])
    BY <1>1, HowManyRooms DEF Fresh, AllRooms
  <1>9. at \in Rooms
    BY <1>1, FirstRoom DEF Fresh
  <1>10. trials \in 0 .. (MaxTrials + 1) /\ pref_dir \in Dirs /\ n_fruits \in 0 .. StartFruits
    BY ModeAssumption DEF Fresh, Dirs
  <1>11. BuildTypeOK
    BY <1>1, <1>2, <1>8, <1>9, <1>10 DEF BuildTypeOK, Boards
  <1>12. WalkInv /\ FruitInv
    BY <1>1 DEF WalkInv, FruitInv
  <1>13. QED
    BY <1>4, <1>5, <1>7, <1>11, <1>12 DEF BuildInv

LEMMA InitBuildInv == BuildInit => BuildInv
  <1>1. BuildInit => Fresh
    BY FruitAssumption DEF BuildInit, Fresh
  <1>2. QED
    BY <1>1, FreshIsBuildInv

LEMMA NextLevelKeepsBuildInv == BuildInv /\ NextLevel => BuildInv'
  <1>1. BuildInv /\ NextLevel => Fresh'
    BY DEF BuildInv, BuildTypeOK, NextLevel, Fresh
  <1>2. QED
    BY <1>1, FreshIsBuildInv, PTL

-----------------------------------------------------------------------------
(* The worms.                                                               *)

LEMMA RoomCount ==
  ASSUME size \in Sizes, NEW S \in SUBSET Rooms, NEW p
  PROVE  Cardinality(S \ {p}) = IF p \in S THEN Cardinality(S) - 1 ELSE Cardinality(S)
  <1>1. IsFiniteSet(S)
    BY SubsetCount
  <1>2. QED
    BY <1>1, FS_RemoveElement

(* What digging at a room does to the rooms still walls.                    *)
LEMMA WormDigs ==
  ASSUME BuildInv, phase \in {"drop", "crawl"}, size' = size, phase' = "crawl",
         NEW m \in Boards, Bordered(m), NEW p \in Rooms,
         \A c \in Cells : m[c] \subseteq {"wall"},
         {r \in Rooms : "wall" \in Cell(m, r)} = Walled \ {p},
         maze' = m, at' = p, remaining' = Cardinality(Walled \ {p}),
         pref_dir' \in Dirs, UNCHANGED <<trials, n_fruits, exit>>
  PROVE  BuildInv'
  <1>1. /\ Cells' = Cells /\ Rooms' = Rooms
        /\ Walled' = {q \in Rooms : "wall" \in Cell(maze', q)}
        /\ Bordered(maze)' <=> Bordered(maze')
    BY SameSize
  <1>2. size \in Sizes
    BY DEF BuildInv, BuildTypeOK
  <1>3. Walled \ {p} \in SUBSET Rooms
    BY DEF Walled
  <1>4. remaining' \in 0 .. AllRooms
    BY <1>2, <1>3, SubsetCount
  <1>5. BuildTypeOK'
    BY <1>1, <1>4 DEF BuildInv, BuildTypeOK, Boards, AllRooms
  <1>6. BitsInv' /\ CountInv' /\ WalkInv' /\ FruitInv'
    BY <1>1 DEF BitsInv, CountInv, WalkInv, FruitInv
  <1>7. QED
    BY <1>1, <1>5, <1>6 DEF BuildInv

LEMMA DropWormKeepsBuildInv ==
  ASSUME BuildInv, DropWorm
  PROVE  BuildInv'
  <1>1. PICK p \in Rooms, d \in Dirs :
           /\ "wall" \in Cell(maze, p) /\ at' = p /\ pref_dir' = d
           /\ maze' = Dug(maze, p)
    BY DEF DropWorm, Dug
  <1>2. /\ size \in Sizes /\ maze \in Boards /\ Bordered(maze)
        /\ phase = "drop" /\ phase' = "crawl" /\ size' = size /\ remaining' = remaining - 1
        /\ UNCHANGED <<trials, n_fruits, exit>>
    BY DEF BuildInv, BuildTypeOK, Boards, DropWorm
  <1>3. p \in Inside /\ Rooms \subseteq Points
    BY <1>2, InsideIsPoint
  <1> DEFINE m == Dug(maze, p)
  <1>4. /\ m \in Boards /\ Bordered(m) /\ Cell(m, p) = NONE
        /\ \A c \in Cells : m[c] = NONE \/ m[c] = maze[c]
        /\ \A z \in Points : z # p => Cell(m, z) = Cell(maze, z)
    BY <1>2, <1>3, DugCells
  <1> HIDE DEF m
  <1>5. \A c \in Cells : m[c] \subseteq {"wall"}
    BY <1>2, <1>4 DEF BuildInv, BitsInv, NONE
  <1>6. {r \in Rooms : "wall" \in Cell(m, r)} = Walled \ {p}
    BY <1>3, <1>4 DEF Walled, NONE
  <1>7. p \in Walled /\ Walled \in SUBSET Rooms
    BY <1>1 DEF Walled
  <1>8. remaining' = Cardinality(Walled \ {p})
    BY <1>2, <1>7, RoomCount DEF BuildInv, CountInv
  <1>9. maze' = m /\ at' = p /\ pref_dir' \in Dirs
    BY <1>1 DEF m
  <1>10. QED
    BY <1>2, <1>4, <1>5, <1>6, <1>8, <1>9, WormDigs

LEMMA CrawlKeepsBuildInv ==
  ASSUME BuildInv, Crawl
  PROVE  BuildInv'
  <1>1. PICK d \in Dirs :
           /\ InMaze(at, d) /\ at' = Toward(at, d, 2) /\ pref_dir' = d
           /\ maze' = Dug(Dug(maze, Toward(at, d, 1)), Toward(at, d, 2))
           /\ remaining' = Buried(Toward(at, d, 2))
    BY DEF Crawl, Dug
  <1> DEFINE p == Toward(at, d, 2)
             between == Toward(at, d, 1)
             m1 == Dug(maze, between)
             m == Dug(m1, p)
  <1>2. /\ size \in Sizes /\ maze \in Boards /\ Bordered(maze) /\ at \in Rooms
        /\ phase = "crawl" /\ phase' = "crawl" /\ size' = size
        /\ UNCHANGED <<trials, n_fruits, exit>>
    BY DEF BuildInv, BuildTypeOK, Boards, Crawl
  <1>3. between \in Inside /\ between \notin Rooms /\ p \in Rooms
    BY <1>1, <1>2, NextToRoom
  <1>4. p \in Inside /\ Rooms \subseteq Points
    BY <1>2, <1>3, InsideIsPoint
  <1> HIDE DEF p, between
  <1>5. /\ m1 \in Boards /\ Bordered(m1)
        /\ \A c \in Cells : m1[c] = NONE \/ m1[c] = maze[c]
        /\ \A z \in Points : z # between => Cell(m1, z) = Cell(maze, z)
    BY <1>2, <1>3, DugCells
  <1> HIDE DEF m1
  <1>6. /\ m \in Boards /\ Bordered(m) /\ Cell(m, p) = NONE
        /\ \A c \in Cells : m[c] = NONE \/ m[c] = m1[c]
        /\ \A z \in Points : z # p => Cell(m, z) = Cell(m1, z)
    BY <1>2, <1>4, <1>5, DugCells
  <1> HIDE DEF m
  <1>7. \A c \in Cells : m[c] \subseteq {"wall"}
    BY <1>2, <1>5, <1>6 DEF BuildInv, BitsInv, NONE
  <1>8. {r \in Rooms : "wall" \in Cell(m, r)} = Walled \ {p}
    BY <1>3, <1>4, <1>5, <1>6 DEF Walled, NONE
  <1>9. Cell(maze, p) \subseteq {"wall"}
    BY <1>2, <1>3, RoomCell DEF BuildInv, BitsInv, Cell
  <1>10. Cell(maze, p) = WALL <=> p \in Walled
    BY <1>3, <1>9 DEF Walled, WALL
  <1>11. remaining' = Cardinality(Walled \ {p})
    <2>1. remaining = Cardinality(Walled) /\ Walled \in SUBSET Rooms
      BY <1>2 DEF BuildInv, CountInv, Walled
    <2>2. remaining' = IF p \in Walled THEN remaining - 1 ELSE remaining
      BY <1>1, <1>10 DEF Buried, p
    <2>3. QED
      BY <1>2, <2>1, <2>2, RoomCount
  <1>12. maze' = m /\ at' = p /\ pref_dir' \in Dirs
    BY <1>1 DEF m, m1, p, between
  <1>13. QED
    BY <1>2, <1>3, <1>6, <1>7, <1>8, <1>11, <1>12, WormDigs

-----------------------------------------------------------------------------
(* The two loops of the second phase.                                       *)

(* What holds of the maze between two rounds.                               *)
Connecting(m, left) ==
  /\ m \in Boards /\ Bordered(m)
  /\ \A c \in Cells : m[c] \subseteq {"wall", "reach"}
  /\ \A c \in Cells : "reach" \in m[c] => \E r \in Rooms : c = Index(r)
  /\ \A p \in Rooms : Open(m, p)
  /\ LeastIn(m, Reached(m))
  /\ left = Cardinality(Rooms \ Reached(m))

LEMMA ConnectingIs ==
  ASSUME BuildInv, phase = "connect"
  PROVE  Connecting(maze, remaining)
  <1>1. Unreached = Rooms \ Reached(maze)
    BY DEF Unreached, Reached
  <1>2. QED
    BY <1>1 DEF BuildInv, BuildTypeOK, BitsInv, CountInv, WalkInv, Connecting, Boards

LEMMA ConnectingKeepsBuildInv ==
  ASSUME BuildInv, size' = size, Connecting(maze', remaining'),
         phase' = IF remaining' > 0 THEN "connect" ELSE "clear",
         at' \in Rooms, pref_dir' \in Dirs, trials' \in 0 .. (MaxTrials + 1),
         UNCHANGED <<n_fruits, exit>>
  PROVE  BuildInv'
  <1>1. size \in Sizes /\ n_fruits \in 0 .. StartFruits
    BY DEF BuildInv, BuildTypeOK
  <1>2. /\ Cells' = Cells /\ Rooms' = Rooms
        /\ Bordered(maze)' <=> Bordered(maze')
        /\ Reached(maze)' = Reached(maze')
        /\ Unreached' = {p \in Rooms : "reach" \notin Cell(maze', p)}
        /\ \A S : LeastIn(maze, S)' <=> LeastIn(maze', S)
        /\ \A p : Open(maze, p)' <=> Open(maze', p)
        /\ \A p : Index(p)' = Index(p)
    BY SameSize
  <1>3. Unreached' = Rooms \ Reached(maze')
    BY <1>2 DEF Reached
  <1>4. Rooms \ Reached(maze') \in SUBSET Rooms
    OBVIOUS
  <1>5. IsFiniteSet(Rooms \ Reached(maze')) /\ remaining' \in 0 .. AllRooms
    BY <1>1, <1>4, SubsetCount DEF Connecting
  <1>6. phase' \in {"connect", "clear"} /\ (phase' = "clear" => remaining' = 0)
    BY <1>5, <1>1, HowManyRooms
  <1>7. BuildTypeOK'
    BY <1>1, <1>2, <1>5, <1>6 DEF BuildTypeOK, Boards, Connecting, AllRooms
  <1>8. BitsInv'
    <2>1. /\ \A c \in Cells : maze'[c] \subseteq {"wall", "reach"}
          /\ \A c \in Cells : "reach" \in maze'[c] => \E r \in Rooms : c = Index(r)
          /\ \A p \in Rooms : Open(maze', p)
      BY DEF Connecting
    <2>2. QED
      BY <1>2, <1>6, <2>1 DEF BitsInv
  <1>9. CountInv'
    BY <1>3, <1>6 DEF CountInv, Connecting
  <1>10. phase' = "clear" => Reached(maze') = Rooms
    <2> SUFFICES ASSUME phase' = "clear" PROVE Reached(maze') = Rooms
      OBVIOUS
    <2>1. Cardinality(Rooms \ Reached(maze')) = 0
      BY <1>6 DEF Connecting
    <2>2. Rooms \ Reached(maze') = {}
      BY <1>5, <2>1, FS_EmptySet
    <2>3. QED
      BY <2>2 DEF Reached
  <1>11. WalkInv'
    BY <1>2, <1>6, <1>10 DEF WalkInv, Connecting
  <1>12. FruitInv'
    BY <1>6 DEF FruitInv
  <1>13. QED
    BY <1>2, <1>7, <1>8, <1>9, <1>11, <1>12 DEF BuildInv, Connecting

LEMMA JoinKeepsConnecting ==
  ASSUME size \in Sizes, Connecting(maze, remaining),
         NEW p \in Rooms, "reach" \notin Cell(maze, p), Join(p)
  PROVE  Connecting(maze', remaining')
  <1>1. CASE Openings(p) = {}
    BY <1>1 DEF Join
  <1>2. CASE Openings(p) # {}
    <2>1. p \notin Reached(maze)
      BY DEF Reached
    <2>2. Openings(p) \in SUBSET (1 .. 4)
      BY DEF Openings
    <2>3. \E k \in Openings(p) : \A j \in Openings(p) : k <= j
      BY <1>2, <2>2, LeastNat
    <2>4. PICK i \in Openings(p) :
             /\ maze' = MarkArea(Dug(maze, Toward(p, Preference[i], 1)), Index(p))
             /\ remaining' = remaining
                   - Cardinality(AreaFrom(Dug(maze, Toward(p, Preference[i], 1)), Index(p)))
      BY <1>2, <2>3 DEF Join, Dug
    <2> DEFINE d == Preference[i]
               joined == Dug(maze, Toward(p, d, 1))
               A == AreaRooms(joined, p)
    <2>5. d \in Dirs /\ InMaze(p, d) /\ "reach" \in Cell(maze, Toward(p, d, 2))
      BY <2>2 DEF Openings, Preference, Dirs
    <2> HIDE DEF d
    <2>6. Toward(p, d, 2) \in Reached(maze)
      BY <2>5, NextToRoom DEF Reached
    <2>7. /\ maze' \in Boards /\ Bordered(joined) /\ Bordered(maze')
          /\ \A c \in Cells : maze'[c] \subseteq maze[c] \cup {"reach"}
          /\ \A c \in Cells : "reach" \in maze'[c] =>
                 "reach" \in maze[c] \/ \E r \in Rooms : c = Index(r)
          /\ Reached(maze') = Reached(maze) \cup A
          /\ A \cap Reached(maze) = {}
          /\ LeastIn(maze', Reached(maze'))
      BY <2>1, <2>4, <2>5, <2>6, Joined DEF Connecting, d
    <2>8. remaining' = Cardinality(Rooms \ Reached(maze'))
      <3> DEFINE U == Rooms \ Reached(maze)
      <3>1. IsFiniteSet(A) /\ Cardinality(AreaFrom(joined, Index(p))) = Cardinality(A)
        BY <2>7, AreaSize
      <3>2. U \in SUBSET Rooms /\ IsFiniteSet(U) /\ remaining = Cardinality(U)
        BY SubsetCount DEF Connecting
      <3>3. A \subseteq Rooms
        BY DEF AreaRooms
      <3> HIDE DEF A, joined
      <3>4. U \cap A = A /\ U \ A = Rooms \ Reached(maze')
        BY <2>7, <3>3
      <3>5. Cardinality(U \ A) = Cardinality(U) - Cardinality(A)
        <4>1. Cardinality(U \ A) = Cardinality(U) - Cardinality(U \cap A)
          BY <3>2, FS_Difference, Zenon
        <4>2. QED
          BY <3>4, <4>1, Zenon
      <3>6. QED
        BY <2>4, <3>1, <3>2, <3>4, <3>5 DEF joined, d
    <2>9. \A c \in Cells : maze'[c] \subseteq {"wall", "reach"}
      BY <2>7 DEF Connecting
    <2>10. \A c \in Cells : "reach" \in maze'[c] => \E r \in Rooms : c = Index(r)
      BY <2>7 DEF Connecting
    <2>11. \A r \in Rooms : Open(maze', r)
      BY <2>7, RoomCell DEF Connecting, Open, Cell
    <2>12. QED
      BY <2>7, <2>8, <2>9, <2>10, <2>11 DEF Connecting
  <1>3. QED
    BY <1>1, <1>2

LEMMA StopWormKeepsBuildInv ==
  ASSUME BuildInv, StopWorm
  PROVE  BuildInv'
  <1>1. /\ size \in Sizes /\ maze \in Boards /\ Bordered(maze) /\ phase = "crawl"
        /\ UNCHANGED <<size, at, pref_dir, n_fruits, exit>>
        /\ trials \in 0 .. (MaxTrials + 1) /\ at \in Rooms /\ pref_dir \in Dirs
    BY DEF BuildInv, BuildTypeOK, Boards, StopWorm
  <1>2. /\ Cells' = Cells /\ Rooms' = Rooms
        /\ Bordered(maze)' <=> Bordered(maze')
        /\ Walled' = {p \in Rooms : "wall" \in Cell(maze', p)}
    BY <1>1, SameSize
  <1>3. CASE remaining > 0
    <2>1. phase' = "drop" /\ UNCHANGED <<maze, remaining, trials>>
      BY <1>3 DEF StopWorm
    <2>2. Walled' = Walled
      BY <1>2, <2>1 DEF Walled
    <2>3. BuildTypeOK'
      BY <1>1, <1>2, <2>1 DEF BuildInv, BuildTypeOK
    <2>4. BitsInv' /\ CountInv' /\ WalkInv' /\ FruitInv'
      BY <1>1, <1>2, <2>1, <2>2 DEF BuildInv, BitsInv, CountInv, WalkInv, FruitInv
    <2>5. QED
      BY <1>1, <1>2, <2>1, <2>3, <2>4 DEF BuildInv
  <1>4. CASE ~(remaining > 0)
    <2> DEFINE p == <<1, 1>>
               A == AreaRooms(maze, p)
    <2>1. /\ phase' = "connect" /\ trials' = 0
          /\ maze' = MarkArea(maze, Index(p))
          /\ remaining' = size[1] * size[2] - Cardinality(AreaFrom(maze, Index(p)))
      BY <1>4 DEF StopWorm
    <2>2. \A c \in Cells : maze[c] \subseteq {"wall"}
      BY <1>1 DEF BuildInv, BitsInv
    <2>3. Reached(maze) = {}
      BY <1>1, <2>2, RoomCell DEF Reached, Cell
    <2>4. p \in Rooms
      BY <1>1, FirstRoom
    <2>5. Reached(maze') = A /\ LeastIn(maze', Reached(maze'))
      BY <1>1, <2>1, <2>3, FirstMarks
    <2> HIDE DEF p
    <2>6. /\ maze' \in Boards
          /\ \A c \in Cells : maze'[c] \subseteq maze[c] \cup {"reach"}
          /\ \A c \in Cells : "reach" \in maze'[c] =>
                 "reach" \in maze[c] \/ \E r \in Rooms : c = Index(r)
      BY <1>1, <2>1, <2>4, Marked
    <2>7. Bordered(maze')
      BY <1>1, <2>1, <2>4, MarksKeepWalls
    <2>8. \A r \in Rooms : Open(maze', r)
      <3>1. Walled \in SUBSET Rooms
        BY DEF Walled
      <3>2. Cardinality(Walled) = 0 /\ IsFiniteSet(Walled)
        BY <1>1, <1>4, <3>1, SubsetCount, HowManyRooms DEF BuildInv, CountInv
      <3>3. Walled = {}
        BY <3>2, FS_EmptySet
      <3>4. QED
        <4> TAKE r \in Rooms
        <4>1. Index(r) \in Cells
          BY <1>1, RoomCell
        <4>2. "wall" \notin maze[Index(r)]
          BY <3>3, Zenon DEF Walled, Cell
        <4>3. maze'[Index(r)] \subseteq maze[Index(r)] \cup {"reach"}
          BY <2>6, <4>1, Zenon
        <4>4. "wall" \notin maze'[Index(r)]
          BY <4>2, <4>3
        <4>5. QED
          BY <4>4, Zenon DEF Open, Cell
    <2>9. remaining' = Cardinality(Rooms \ Reached(maze'))
      <3>1. IsFiniteSet(Rooms) /\ Cardinality(Rooms) = size[1] * size[2]
        BY <1>1, RoomsAreFinite
      <3>2. Cardinality(AreaFrom(maze, Index(p))) = Cardinality(A)
        BY <1>1, <2>4, AreaSize
      <3>3. Rooms \cap A = A
        BY DEF AreaRooms
      <3> HIDE DEF A
      <3>4. Cardinality(Rooms \ A) = Cardinality(Rooms) - Cardinality(A)
        <4>1. Cardinality(Rooms \ A) = Cardinality(Rooms) - Cardinality(Rooms \cap A)
          BY <3>1, FS_Difference, Zenon
        <4>2. QED
          BY <3>3, <4>1, Zenon
      <3>5. QED
        BY <2>1, <2>5, <3>1, <3>2, <3>4
    <2>10. Connecting(maze', remaining')
      BY <2>2, <2>5, <2>6, <2>7, <2>8, <2>9 DEF Connecting
    <2>11. /\ Unreached' = {q \in Rooms : "reach" \notin Cell(maze', q)}
           /\ Reached(maze)' = Reached(maze')
           /\ \A S : LeastIn(maze, S)' <=> LeastIn(maze', S)
           /\ \A q : Open(maze, q)' <=> Open(maze', q)
           /\ \A q : Index(q)' = Index(q)
      BY <1>1, SameSize
    <2>12. Unreached' = Rooms \ Reached(maze')
      BY <2>11 DEF Reached
    <2>13. remaining' \in 0 .. AllRooms
      BY <1>1, <2>9, SubsetCount
    <2>14. BuildTypeOK'
      BY <1>1, <1>2, <2>1, <2>6, <2>13, ModeAssumption
         DEF BuildInv, BuildTypeOK, Boards, AllRooms
    <2>15. BitsInv'
      BY <1>2, <2>1, <2>10, <2>11 DEF BitsInv, Connecting
    <2>16. CountInv' /\ WalkInv' /\ FruitInv'
      BY <2>1, <2>5, <2>9, <2>11, <2>12 DEF CountInv, WalkInv, FruitInv
    <2>17. QED
      BY <1>2, <2>7, <2>14, <2>15, <2>16 DEF BuildInv
  <1>5. QED
    BY <1>3, <1>4

LEMMA ScanKeepsBuildInv ==
  ASSUME BuildInv, Scan
  PROVE  BuildInv'
  <1>1. /\ size \in Sizes /\ size' = size /\ phase = "connect" /\ at \in Rooms
        /\ UNCHANGED <<pref_dir, n_fruits, exit>> /\ pref_dir \in Dirs
        /\ phase' = IF remaining' > 0 THEN "connect" ELSE "clear"
        /\ trials \in 0 .. (MaxTrials + 1)
    BY DEF BuildInv, BuildTypeOK, Scan, LoopEnds
  <1>2. Connecting(maze, remaining)
    BY <1>1, ConnectingIs
  <1>3. at' \in Rooms
    BY <1>1, NextInOrder DEF Scan
  <1>4. Connecting(maze', remaining')
    <2>1. CASE "reach" \in Cell(maze, at')
      BY <1>2, <2>1 DEF Scan
    <2>2. CASE "reach" \notin Cell(maze, at')
      <3>1. Join(at')
        BY <2>2 DEF Scan
      <3>2. QED
        BY <1>1, <1>2, <1>3, <2>2, <3>1, JoinKeepsConnecting
    <2>3. QED
      BY <2>1, <2>2
  <1>5. trials' \in 0 .. (MaxTrials + 1)
    BY <1>1, ModeAssumption DEF Scan
  <1>6. QED
    BY <1>1, <1>3, <1>4, <1>5, ConnectingKeepsBuildInv

LEMMA GuessKeepsBuildInv ==
  ASSUME BuildInv, Guess
  PROVE  BuildInv'
  <1>1. /\ size \in Sizes /\ size' = size /\ phase = "connect"
        /\ UNCHANGED <<pref_dir, n_fruits, exit>> /\ pref_dir \in Dirs
        /\ phase' = IF remaining' > 0 THEN "connect" ELSE "clear"
        /\ trials \in 0 .. (MaxTrials + 1)
    BY DEF BuildInv, BuildTypeOK, Guess, LoopEnds
  <1>2. PICK p \in Rooms : "reach" \notin Cell(maze, p) /\ at' = p /\ Join(p)
    BY DEF Guess
  <1>3. Connecting(maze', remaining')
    BY <1>1, <1>2, ConnectingIs, JoinKeepsConnecting
  <1>4. trials' \in 0 .. (MaxTrials + 1)
    BY <1>1, ModeAssumption DEF Guess
  <1>5. QED
    BY <1>1, <1>2, <1>3, <1>4, ConnectingKeepsBuildInv

-----------------------------------------------------------------------------
(* The marks are removed, and fruit and exit are added.                     *)

(* With no wall closed, a maze in one piece stays in one piece.             *)
LEMMA StaysWhole ==
  ASSUME size \in Sizes, NEW m, NEW m2, Bordered(m2), LeastIn(m, Rooms),
         \A z \in Points : Open(m, z) => Open(m2, z)
  PROVE  LeastIn(m2, Rooms)
  <1>1. ClosedIn(m2, Rooms)
    BY OpenWay DEF ClosedIn
  <1>2. \A T \in SUBSET Rooms : ClosedIn(m2, T) => ClosedIn(m, T)
    BY NextToRoom DEF ClosedIn
  <1>3. QED
    BY <1>1, <1>2 DEF LeastIn

LEMMA ClearMarksKeepsBuildInv ==
  ASSUME BuildInv, ClearMarks
  PROVE  BuildInv'
  <1>1. /\ size \in Sizes /\ maze \in Boards /\ Bordered(maze) /\ phase = "clear"
        /\ phase' = "furnish" /\ n_fruits' = 0 /\ LeastIn(maze, Rooms)
        /\ UNCHANGED <<size, remaining, trials, at, pref_dir, exit>>
    BY DEF BuildInv, BuildTypeOK, WalkInv, Boards, ClearMarks
  <1>2. /\ Cells' = Cells /\ Rooms' = Rooms
        /\ Bordered(maze)' <=> Bordered(maze')
        /\ Fruited' = {c \in Cells : "fruit" \in maze'[c]}
        /\ \A S : LeastIn(maze, S)' <=> LeastIn(maze', S)
        /\ \A p : Open(maze, p)' <=> Open(maze', p)
    BY <1>1, SameSize
  <1>3. \A c \in Cells :
           maze'[c] = IF GOD_MODE /\ \E p \in Inside : c = Index(p) THEN NONE
                      ELSE IF \E p \in Rooms : c = Index(p) THEN maze[c] \ {"reach"}
                      ELSE maze[c]
    BY DEF ClearMarks
  <1>4. \A c \in Cells : maze[c] \subseteq {"wall", "reach"}
    BY <1>1 DEF BuildInv, BitsInv
  <1>5. \A c \in Cells : "reach" \in maze[c] => \E r \in Rooms : c = Index(r)
    BY <1>1 DEF BuildInv, BitsInv
  <1>6. \A c \in Cells : maze'[c] \subseteq {"wall"}
    <2> TAKE c \in Cells
    <2>1. CASE GOD_MODE /\ \E p \in Inside : c = Index(p)
      BY <1>3, <2>1 DEF NONE
    <2>2. CASE ~(GOD_MODE /\ \E p \in Inside : c = Index(p)) /\ \E p \in Rooms : c = Index(p)
      <3>1. maze'[c] = maze[c] \ {"reach"} /\ maze[c] \subseteq {"wall", "reach"}
        BY <1>3, <1>4, <2>2
      <3>2. QED
        BY <3>1
    <2>3. CASE ~(GOD_MODE /\ \E p \in Inside : c = Index(p)) /\ ~(\E p \in Rooms : c = Index(p))
      <3>1. maze'[c] = maze[c] /\ maze[c] \subseteq {"wall", "reach"} /\ "reach" \notin maze[c]
        BY <1>3, <1>4, <1>5, <2>3
      <3>2. QED
        BY <3>1
    <2>4. QED
      BY <2>1, <2>2, <2>3
  <1>7. DOMAIN maze' = Cells /\ maze' = [c \in Cells |-> maze'[c]]
    BY DEF ClearMarks
  <1>8. maze' \in Boards
    BY <1>6, <1>7 DEF Boards, Bits
  <1>9. \A z \in Points : z \notin Inside => Cell(maze', z) = Cell(maze, z)
    <2> SUFFICES ASSUME NEW z \in Points, z \notin Inside PROVE Cell(maze', z) = Cell(maze, z)
      OBVIOUS
    <2>1. \A p \in Inside : Index(z) # Index(p)
      BY <1>1, IndexUnique
    <2>2. \A p \in Rooms : Index(z) # Index(p)
      BY <1>1, <2>1, InsideIsPoint
    <2>3. QED
      BY <1>1, <1>3, <2>1, <2>2, PointInCells DEF Cell
  <1>10. Bordered(maze')
    BY <1>1, <1>9 DEF Bordered
  <1>11. \A z \in Points : Open(maze, z) => Open(maze', z)
    BY <1>1, <1>3, PointInCells DEF Open, Cell, NONE
  <1>12. LeastIn(maze', Rooms)
    BY <1>1, <1>10, <1>11, StaysWhole
  <1>13. \A p \in Rooms : Open(maze', p)
    BY <1>1, <1>11, RoomCell DEF BuildInv, BitsInv
  <1>14. BuildTypeOK'
    BY <1>1, <1>2, <1>8, FruitAssumption DEF BuildInv, BuildTypeOK, Boards
  <1>15. BitsInv'
    BY <1>1, <1>2, <1>6, <1>13 DEF BitsInv
  <1>16. Fruited' = {}
    BY <1>2, <1>6
  <1>17. FruitInv'
    BY <1>1, <1>2, <1>6, <1>16, FS_EmptySet DEF FruitInv
  <1>18. CountInv' /\ WalkInv'
    BY <1>1, <1>2, <1>12 DEF CountInv, WalkInv
  <1>19. QED
    BY <1>2, <1>10, <1>14, <1>15, <1>17, <1>18 DEF BuildInv

(* A bit other than the wall's is set in a room.                            *)
Furnish(m, p, b) == [m EXCEPT ![Index(p)] = @ \cup {b}]
Whole(m) ==
  /\ m \in Boards /\ Bordered(m) /\ LeastIn(m, Rooms)
  /\ \A r \in Rooms : Open(m, r)
  /\ \A c \in Cells : "reach" \notin m[c]

(* Something laid in one cell, seen cell by cell.                          *)
LEMMA FurnishIs ==
  ASSUME NEW m \in Boards, NEW p, NEW b
  PROVE  \A c \in Cells : Furnish(m, p, b)[c] = IF c = Index(p) THEN m[c] \cup {b} ELSE m[c]
  BY DEF Boards, Furnish

(* A fruit or the exit laid in a room leaves the maze whole.                *)
LEMMA Furnished ==
  ASSUME size \in Sizes, NEW m, Whole(m), NEW p \in Rooms, NEW b, b \in {"fruit", "exit"}
  PROVE  Whole(Furnish(m, p, b))
  <1> DEFINE m2 == Furnish(m, p, b)
  <1>0. /\ m \in Boards /\ Bordered(m) /\ LeastIn(m, Rooms)
        /\ \A r \in Rooms : Open(m, r)
        /\ \A c \in Cells : "reach" \notin m[c]
    BY DEF Whole
  <1>1. Index(p) \in Cells
    BY RoomCell
  <1>2. m2 \in Boards
    BY <1>0, <1>1 DEF Boards, Bits, Furnish
  <1>3. \A c \in Cells : m2[c] = IF c = Index(p) THEN m[c] \cup {b} ELSE m[c]
    BY <1>0, FurnishIs
  <1> HIDE DEF m2
  <1>3a. \A c \in Cells :
            /\ "wall" \in m2[c] <=> "wall" \in m[c]
            /\ "reach" \in m2[c] <=> "reach" \in m[c]
    <2>1. b # "wall" /\ b # "reach"
      OBVIOUS
    <2> TAKE c \in Cells
    <2>2. m2[c] = m[c] \/ m2[c] = m[c] \cup {b}
      BY <1>3
    <2>3. QED
      BY <2>1, <2>2
  <1>4. \A z \in Points : Open(m2, z) <=> Open(m, z)
    BY <1>3a, PointInCells DEF Open, Cell
  <1>5. Bordered(m2)
    BY <1>0, <1>4 DEF Bordered, Open
  <1>6. LeastIn(m2, Rooms)
    BY <1>0, <1>4, <1>5, StaysWhole
  <1>7. \A r \in Rooms : Open(m2, r)
    BY <1>0, <1>4, RoomCell
  <1>8. \A c \in Cells : "reach" \notin m2[c]
    BY <1>0, <1>3a
  <1>9. QED
    BY <1>2, <1>5, <1>6, <1>7, <1>8 DEF m2, Whole

LEMMA AddFruitKeepsBuildInv ==
  ASSUME BuildInv, AddFruit
  PROVE  BuildInv'
  <1>1. PICK p \in Unfruited : maze' = [maze EXCEPT ![Index(p)] = @ \cup {"fruit"}]
    BY DEF AddFruit
  <1>2. /\ size \in Sizes /\ maze \in Boards /\ Bordered(maze) /\ LeastIn(maze, Rooms)
        /\ phase = "furnish" /\ phase' = "furnish"
        /\ n_fruits < StartFruits /\ n_fruits' = n_fruits + 1 /\ n_fruits \in 0 .. StartFruits
        /\ UNCHANGED <<size, remaining, trials, at, pref_dir, exit>>
    BY DEF BuildInv, BuildTypeOK, WalkInv, Boards, AddFruit
  <1>3. /\ Cells' = Cells /\ Rooms' = Rooms
        /\ Bordered(maze)' <=> Bordered(maze')
        /\ Fruited' = {c \in Cells : "fruit" \in maze'[c]}
        /\ \A S : LeastIn(maze, S)' <=> LeastIn(maze', S)
        /\ \A q : Open(maze, q)' <=> Open(maze', q)
        /\ \A q : Index(q)' = Index(q)
    BY <1>2, SameSize
  <1>4. /\ \A r \in Rooms : Open(maze, r)
        /\ \A c \in Cells : "reach" \notin maze[c]
        /\ \A c \in Cells : "exit" \notin maze[c]
    BY <1>2 DEF BuildInv, BitsInv
  <1>5. p \in Rooms /\ "fruit" \notin Cell(maze, p) /\ Index(p) \in Cells
    BY <1>2, RoomCell DEF Unfruited
  <1>6. /\ maze' \in Boards /\ Bordered(maze') /\ LeastIn(maze', Rooms)
        /\ \A r \in Rooms : Open(maze', r)
        /\ \A c \in Cells : "reach" \notin maze'[c]
        /\ \A c \in Cells : maze'[c] = IF c = Index(p) THEN maze[c] \cup {"fruit"} ELSE maze[c]
    <2>1. maze' = Furnish(maze, p, "fruit")
      BY <1>1, Zenon DEF Furnish
    <2>2. Whole(maze)
      BY <1>2, <1>4, Zenon DEF Whole
    <2>3. Whole(Furnish(maze, p, "fruit"))
      BY <1>2, <1>5, <2>2, Furnished
    <2>4. \A c \in Cells : Furnish(maze, p, "fruit")[c] = IF c = Index(p) THEN maze[c] \cup {"fruit"} ELSE maze[c]
      BY <1>2, FurnishIs
    <2> DEFINE m2 == maze'
    <2>5. Whole(m2)
      BY <2>1, <2>3, Zenon
    <2>6. \A c \in Cells : m2[c] = IF c = Index(p) THEN maze[c] \cup {"fruit"} ELSE maze[c]
      BY <2>1, <2>4, Zenon
    <2> HIDE DEF m2
    <2>7. /\ m2 \in Boards /\ Bordered(m2) /\ LeastIn(m2, Rooms)
          /\ \A r \in Rooms : Open(m2, r)
          /\ \A c \in Cells : "reach" \notin m2[c]
      BY <2>5, Zenon DEF Whole
    <2>8. QED
      BY <2>6, <2>7, Zenon DEF m2
  <1>7. BuildTypeOK'
    BY <1>2, <1>3, <1>6, FruitAssumption DEF BuildInv, BuildTypeOK, Boards
  <1>8. \A c \in Cells : "exit" \notin maze'[c]
    <2> TAKE c \in Cells
    <2>1. maze'[c] = maze[c] \/ maze'[c] = maze[c] \cup {"fruit"}
      BY <1>6
    <2>2. "exit" \notin maze[c] /\ "exit" # "fruit"
      BY <1>4
    <2>3. QED
      BY <2>1, <2>2
  <1>9. BitsInv'
    BY <1>2, <1>3, <1>6, <1>8 DEF BitsInv
  <1>10. Fruited' = Fruited \cup {Index(p)} /\ Index(p) \notin Fruited
    BY <1>3, <1>5, <1>6 DEF Fruited, Cell
  <1>11. IsFiniteSet(Fruited) /\ n_fruits = Cardinality(Fruited)
    <2>1. Fruited \in SUBSET Cells
      BY DEF Fruited
    <2>2. QED
      BY <1>2, <2>1, CellsAreFinite, FS_Subset DEF BuildInv, FruitInv
  <1>12. Cardinality(Fruited') = Cardinality(Fruited) + 1
    BY <1>10, <1>11, FS_AddElement
  <1>13. \A c \in Cells : "fruit" \in maze'[c] => \E r \in Rooms : c = Index(r)
    BY <1>2, <1>5, <1>6 DEF BuildInv, FruitInv
  <1>14. FruitInv'
    BY <1>2, <1>3, <1>11, <1>12, <1>13 DEF FruitInv
  <1>15. CountInv' /\ WalkInv'
    BY <1>2, <1>3, <1>6 DEF CountInv, WalkInv
  <1>16. QED
    BY <1>3, <1>6, <1>7, <1>9, <1>14, <1>15 DEF BuildInv

LEMMA AddExitKeepsBuildInv ==
  ASSUME BuildInv, AddExit
  PROVE  BuildInv'
  <1>1. PICK p \in Unfruited :
           maze' = [maze EXCEPT ![Index(p)] = @ \cup {"exit"}] /\ at' = p /\ exit' = p
    BY DEF AddExit
  <1>2. /\ size \in Sizes /\ maze \in Boards /\ Bordered(maze) /\ LeastIn(maze, Rooms)
        /\ phase = "furnish" /\ phase' = "built" /\ n_fruits \in 0 .. StartFruits
        /\ UNCHANGED <<size, remaining, trials, pref_dir, n_fruits>>
    BY DEF BuildInv, BuildTypeOK, WalkInv, Boards, AddExit
  <1>3. /\ Cells' = Cells /\ Rooms' = Rooms
        /\ Bordered(maze)' <=> Bordered(maze')
        /\ Fruited' = {c \in Cells : "fruit" \in maze'[c]}
        /\ \A S : LeastIn(maze, S)' <=> LeastIn(maze', S)
        /\ \A q : Open(maze, q)' <=> Open(maze', q)
        /\ \A q : Index(q)' = Index(q)
    BY <1>2, SameSize
  <1>4. /\ \A r \in Rooms : Open(maze, r)
        /\ \A c \in Cells : "reach" \notin maze[c]
        /\ \A c \in Cells : "exit" \notin maze[c]
    BY <1>2 DEF BuildInv, BitsInv
  <1>5. p \in Rooms /\ "fruit" \notin Cell(maze, p) /\ Index(p) \in Cells
    BY <1>2, RoomCell DEF Unfruited
  <1>6. /\ maze' \in Boards /\ Bordered(maze') /\ LeastIn(maze', Rooms)
        /\ \A r \in Rooms : Open(maze', r)
        /\ \A c \in Cells : "reach" \notin maze'[c]
        /\ \A c \in Cells : maze'[c] = IF c = Index(p) THEN maze[c] \cup {"exit"} ELSE maze[c]
    <2>1. maze' = Furnish(maze, p, "exit")
      BY <1>1, Zenon DEF Furnish
    <2>2. Whole(maze)
      BY <1>2, <1>4, Zenon DEF Whole
    <2>3. Whole(Furnish(maze, p, "exit"))
      BY <1>2, <1>5, <2>2, Furnished
    <2>4. \A c \in Cells : Furnish(maze, p, "exit")[c] = IF c = Index(p) THEN maze[c] \cup {"exit"} ELSE maze[c]
      BY <1>2, FurnishIs
    <2> DEFINE m2 == maze'
    <2>5. Whole(m2)
      BY <2>1, <2>3, Zenon
    <2>6. \A c \in Cells : m2[c] = IF c = Index(p) THEN maze[c] \cup {"exit"} ELSE maze[c]
      BY <2>1, <2>4, Zenon
    <2> HIDE DEF m2
    <2>7. /\ m2 \in Boards /\ Bordered(m2) /\ LeastIn(m2, Rooms)
          /\ \A r \in Rooms : Open(m2, r)
          /\ \A c \in Cells : "reach" \notin m2[c]
      BY <2>5, Zenon DEF Whole
    <2>8. QED
      BY <2>6, <2>7, Zenon DEF m2
  <1>7. BuildTypeOK'
    BY <1>1, <1>2, <1>3, <1>5, <1>6 DEF BuildInv, BuildTypeOK, Boards
  <1>8. BitsInv'
    BY <1>2, <1>3, <1>6 DEF BitsInv
  <1>8a. \A c \in Cells : "fruit" \in maze'[c] <=> "fruit" \in maze[c]
    <2> TAKE c \in Cells
    <2>1. maze'[c] = maze[c] \/ maze'[c] = maze[c] \cup {"exit"}
      BY <1>6
    <2>2. "fruit" # "exit"
      OBVIOUS
    <2>3. QED
      BY <2>1, <2>2
  <1>9. Fruited' = Fruited
    BY <1>3, <1>8a DEF Fruited
  <1>10. \A c \in Cells : "fruit" \in maze'[c] => \E r \in Rooms : c = Index(r)
    BY <1>2, <1>8a DEF BuildInv, FruitInv
  <1>11. {c \in Cells : "exit" \in maze'[c]} = {Index(p)}
    BY <1>4, <1>5, <1>6
  <1>12. "fruit" \notin maze'[Index(p)]
    BY <1>5, <1>8a DEF Cell
  <1>13. n_fruits = Cardinality(Fruited)
    BY <1>2 DEF BuildInv, FruitInv
  <1>14. Cell(maze, exit)' = maze'[Index(p)] /\ Index(exit)' = Index(p)
    BY <1>1, <1>2 DEF Cell, Index
  <1>15. FruitInv'
    BY <1>1, <1>2, <1>3, <1>5, <1>9, <1>10, <1>11, <1>12, <1>13, <1>14 DEF FruitInv
  <1>16. CountInv' /\ WalkInv'
    BY <1>2, <1>3, <1>6 DEF CountInv, WalkInv
  <1>17. QED
    BY <1>3, <1>6, <1>7, <1>8, <1>15, <1>16 DEF BuildInv

LEMMA StutterKeepsBuildInv ==
  ASSUME BuildInv, UNCHANGED buildVars
  PROVE  BuildInv'
  <1>1. /\ size' = size /\ maze' = maze
        /\ UNCHANGED <<phase, remaining, trials, at, pref_dir, n_fruits, exit>>
    BY DEF buildVars
  <1>2. /\ Cells' = Cells /\ Rooms' = Rooms
        /\ Bordered(maze)' <=> Bordered(maze')
        /\ Reached(maze)' = Reached(maze')
        /\ Walled' = {p \in Rooms : "wall" \in Cell(maze', p)}
        /\ Unreached' = {p \in Rooms : "reach" \notin Cell(maze', p)}
        /\ Fruited' = {c \in Cells : "fruit" \in maze'[c]}
        /\ \A S : LeastIn(maze, S)' <=> LeastIn(maze', S)
        /\ \A q : Open(maze, q)' <=> Open(maze', q)
        /\ \A q : Index(q)' = Index(q)
        /\ \A q : Cell(maze, q)' = Cell(maze', q)
    BY <1>1, SameSize
  <1>3. Walled' = Walled /\ Unreached' = Unreached /\ Fruited' = Fruited
    BY <1>1, <1>2 DEF Walled, Unreached, Fruited
  <1>4. BuildTypeOK'
    BY <1>1, <1>2 DEF BuildInv, BuildTypeOK
  <1>5. BitsInv'
    BY <1>1, <1>2 DEF BuildInv, BitsInv
  <1>6. CountInv' /\ WalkInv'
    BY <1>1, <1>2, <1>3 DEF BuildInv, CountInv, WalkInv
  <1>7. Cell(maze, exit)' = Cell(maze, exit) /\ Index(exit)' = Index(exit)
    BY <1>1 DEF Cell, Index
  <1>8. FruitInv'
    BY <1>1, <1>2, <1>3, <1>7 DEF BuildInv, FruitInv
  <1>9. QED
    BY <1>1, <1>2, <1>4, <1>5, <1>6, <1>8 DEF BuildInv

(* The invariant of make_maze: what the bits of each phase are, how many    *)
(* rooms are left, which rooms can be walked to, and where the fruit is.    *)
THEOREM MazeInvariant == BuildSpec => []BuildInv
  <1>1. BuildInv /\ [BuildNext]_buildVars => BuildInv'
    <2> SUFFICES ASSUME BuildInv, [BuildNext]_buildVars PROVE BuildInv'
      OBVIOUS
    <2>1. CASE DropWorm
      BY <2>1, DropWormKeepsBuildInv
    <2>2. CASE Crawl
      BY <2>2, CrawlKeepsBuildInv
    <2>3. CASE StopWorm
      BY <2>3, StopWormKeepsBuildInv
    <2>4. CASE Scan
      BY <2>4, ScanKeepsBuildInv
    <2>5. CASE Guess
      BY <2>5, GuessKeepsBuildInv
    <2>6. CASE ClearMarks
      BY <2>6, ClearMarksKeepsBuildInv
    <2>7. CASE AddFruit
      BY <2>7, AddFruitKeepsBuildInv
    <2>8. CASE AddExit
      BY <2>8, AddExitKeepsBuildInv
    <2>9. CASE NextLevel
      BY <2>9, NextLevelKeepsBuildInv
    <2>10. CASE UNCHANGED buildVars
      BY <2>10, StutterKeepsBuildInv
    <2>11. QED
      BY <2>1, <2>2, <2>3, <2>4, <2>5, <2>6, <2>7, <2>8, <2>9, <2>10 DEF BuildNext
  <1>2. QED
    BY <1>1, InitBuildInv, PTL DEF BuildSpec

(* make_maze leaves the boundary closed on every side, in mazes of every    *)
(* size.                                                                    *)
THEOREM BoundaryHolds == BuildSpec => []BorderClosed
  <1>1. BuildInv => BorderClosed
    BY DEF BuildInv, Bordered, Points, BorderClosed
  <1>2. QED
    BY <1>1, MazeInvariant, PTL

(* The counter of both loops is exact and a turn of the scan always finds a *)
(* room to join: neither loop of make_maze runs for ever, whatever size the *)
(* maze has.                                                                *)
THEOREM LoopsOfMakeMaze == BuildSpec => []LoopsEnd
  <1>1. BuildInv => RemainingIsExact
    BY DEF BuildInv, CountInv, RemainingIsExact, Walled, Unreached
  <1>2. ASSUME BuildInv PROVE ScanFindsARoom
    <2> SUFFICES ASSUME phase = "connect", remaining > 0 PROVE ScanFindsARoom
      BY DEF ScanFindsARoom
    <2>1. /\ size \in Sizes /\ at \in Rooms
          /\ LeastIn(maze, Reached(maze)) /\ remaining = Cardinality(Unreached)
      BY <1>2 DEF BuildInv, BuildTypeOK, WalkInv, CountInv
    <2>2. PICK u \in Rooms : u \notin Reached(maze)
      <3>1. Unreached # {}
        BY <2>1, FS_EmptySet
      <3>2. QED
        BY <3>1 DEF Unreached, Reached
    <2>3. PICK p \in Rooms : p \notin Reached(maze) /\ Openings(p) # {}
      BY <2>1, <2>2, SomeRoomJoins DEF LeastIn
    <2>4. "reach" \notin Cell(maze, p)
      BY <2>3 DEF Reached
    <2>5. QED
      BY <2>1, <2>3, <2>4, ScanPassesAll DEF ScanFindsARoom
  <1>3. BuildInv => LoopsEnd
    BY <1>1, <1>2 DEF BuildInv, LoopsEnd
  <1>4. QED
    BY <1>3, MazeInvariant, PTL

(* The maze that make_maze returns is in one piece, with its fruit and its  *)
(* exit in rooms: every level, of every size, can be won.                   *)
THEOREM EveryLevelIsWinnable == BuildSpec => []LevelIsWinnable
  <1>1. \A S : LeastIn(maze, S) => LeastClosed(S)
    BY DEF LeastIn, LeastClosed, ClosedIn, Closed, Open
  <1>2. BuildInv => MarksAreWalkable /\ MazeIsConnected
    BY <1>1 DEF BuildInv, WalkInv, MarksAreWalkable, MazeIsConnected, Reached
  <1>3. ASSUME BuildInv PROVE FruitIsCounted
    <2>1. phase \in {"furnish", "built"} => n_fruits = Cardinality({c \in Cells : "fruit" \in maze[c]})
      BY <1>3 DEF BuildInv, FruitInv, Fruited
    <2>2. phase = "built" =>
             /\ {c \in Cells : "exit" \in maze[c]} = {Index(exit)}
             /\ "fruit" \notin Cell(maze, exit)
             /\ \A c \in Cells : "fruit" \in maze[c] => c \in {Index(p) : p \in Rooms}
      BY <1>3 DEF BuildInv, FruitInv
    <2>3. QED
      BY <2>1, <2>2 DEF FruitIsCounted
  <1>4. BuildInv => LevelIsWinnable
    BY <1>2, <1>3 DEF LevelIsWinnable
  <1>5. QED
    BY <1>4, MazeInvariant, PTL

-----------------------------------------------------------------------------
(* make_maze and the game.                                                  *)

(* The maze that make_maze has left in its array, as the game sees it.      *)
Built ==
    [x_dim |-> size[1], y_dim |-> size[2],
     open |-> {p \in Points : Open(maze, p)},
     exit |-> exit,
     fruits |-> {p \in Points : "fruit" \in Cell(maze, p)}]

(* Every maze make_maze returns is one the game is safe in: a boundary of   *)
(* walls, (1, 1), the exit and the fruit in the open, no fruit on the exit. *)
THEOREM MakeMazeMakesMazes == BuildSpec => [](phase = "built" => IsMaze(Built))
  <1>1. ASSUME BuildInv, phase = "built" PROVE IsMaze(Built)
    <2>1. /\ size \in Sizes /\ Bordered(maze) /\ exit \in Rooms
          /\ \A r \in Rooms : Open(maze, r)
          /\ \A c \in Cells : "fruit" \in maze[c] => \E r \in Rooms : c = Index(r)
          /\ "fruit" \notin Cell(maze, exit)
      BY <1>1 DEF BuildInv, BuildTypeOK, BitsInv, FruitInv
    <2>2. Built.open \subseteq Inside
      BY <2>1 DEF Built, Bordered, Open
    <2>3. Inside = (1 .. 2 * Built.x_dim - 1) \X (1 .. 2 * Built.y_dim - 1)
      BY <2>1, Dims DEF Built, Inside, W
    <2>4. Rooms \subseteq Built.open
      BY <2>1, RoomCell DEF Built
    <2>5. ASSUME NEW p \in Built.fruits PROVE p \in Built.open \ {Built.exit}
      <3>1. p \in Points /\ "fruit" \in maze[Index(p)] /\ Index(p) \in Cells
        BY <2>1, PointInCells DEF Built, Cell
      <3>2. PICK r \in Rooms : Index(p) = Index(r)
        BY <2>1, <3>1
      <3>3. p = r
        BY <2>1, <3>1, <3>2, IndexUnique, InsideIsPoint
      <3>4. p # exit
        BY <2>1, <3>1 DEF Cell
      <3>5. QED
        BY <2>4, <3>3, <3>4 DEF Built
    <2>6. <<1, 1>> \in Built.open /\ Built.exit \in Built.open
      BY <2>1, <2>4, FirstRoom DEF Built
    <2>7. Built.x_dim \in Nat /\ Built.y_dim \in Nat
      BY <2>1, Dims DEF Built
    <2>8. QED
      BY <2>2, <2>3, <2>5, <2>6, <2>7 DEF IsMaze
  <1>2. QED
    BY <1>1, MazeInvariant, PTL
=============================================================================
