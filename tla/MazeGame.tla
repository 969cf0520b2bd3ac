------------------------------ MODULE MazeGame ------------------------------
(***************************************************************************)
(* The three threads of empee2/mazegame.c.  rtc_thread polls the Tux       *)
(* controller and moves the player once per timer tick, keyboard_thread    *)
(* and tux_thread choose next_dir.  Two mutexes, a condition variable and  *)
(* four plain globals (flag, pressed, quit_flag, winner) connect them.     *)
(*                                                                         *)
(* A mutex is held at the program counters that ConMtxFree and MtxFree name*)
(* Code between a lock and its unlock is one step where only variables of  *)
(* its own thread, or variables always used under that lock, change in it. *)
(* Drawing, the clock and the LEDs are left out.                           *)
(*                                                                         *)
(* A maze is what make_maze() leaves: its squares without MAZE_WALL, its   *)
(* exit and its fruits; squares are lattice points, positions are pixels.  *)
(* prepare_maze_level() cannot fail: it clips the dimensions itself.       *)
(*                                                                         *)
(* Operators marked "faulty" are what a slip in the code would make of the *)
(* operator defined after them; no action uses them.                       *)
(***************************************************************************)
EXTENDS Integers, FiniteSets

CONSTANTS MAX_LEVEL,                   \* mazegame.c:78
          BLOCK,                       \* BLOCK_X_DIM = BLOCK_Y_DIM
          SCROLL_X_DIM, SCROLL_Y_DIM,  \* the size of the view
          SHOW_MIN,                    \* hidden pixels of the boundary
          PAN_BORDER,                  \* squares kept ahead of the player
          MaxTicks,                    \* ticks served at once, 8 in the code
          Mazes,
          KeyDirs, ButtonDirs          \* directions the user may press

Moves == {"up", "right", "down", "left"}
AllDirs == Moves \cup {"stop"}
DX == [d \in AllDirs |-> IF d = "right" THEN 1 ELSE IF d = "left" THEN -1 ELSE 0]
DY == [d \in AllDirs |-> IF d = "down" THEN 1 ELSE IF d = "up" THEN -1 ELSE 0]
Reverses(d, e) == <<d, e>> \in {<<"up", "down">>, <<"down", "up">>,
                                <<"left", "right">>, <<"right", "left">>}

(* Pixel up to which a view of a maze of n columns (rows) may extend. *)
Limit(n) == (2 * n + 1) * BLOCK - SHOW_MIN

ASSUME MazeGameAssumption ==
    /\ MAX_LEVEL \in Nat \ {0} /\ BLOCK \in Nat \ {0} /\ MaxTicks \in Nat \ {0}
    /\ SCROLL_X_DIM \in Nat /\ SCROLL_Y_DIM \in Nat
    /\ SHOW_MIN \in 0 .. BLOCK /\ PAN_BORDER \in Nat \ {0}
    /\ KeyDirs \subseteq Moves /\ ButtonDirs \subseteq Moves

(* The mazes of make_maze(): a boundary of walls, (1,1) open. *)
IsMaze(m) ==
    /\ m.x_dim \in Nat /\ m.y_dim \in Nat
    /\ m.open \subseteq (1 .. 2 * m.x_dim - 1) \X (1 .. 2 * m.y_dim - 1)
    /\ <<1, 1>> \in m.open /\ m.exit \in m.open
    /\ m.fruits \subseteq m.open \ {m.exit}

ASSUME MazesAssumption == \A m \in Mazes : IsMaze(m)

(* The view is smaller than the least maze and holds both pan borders. *)
ASSUME ViewAssumption ==
    /\ SCROLL_X_DIM >= BLOCK * (2 * PAN_BORDER + 1)
    /\ SCROLL_Y_DIM >= BLOCK * (2 * PAN_BORDER + 1)
    /\ \A m \in Mazes : /\ SHOW_MIN + SCROLL_X_DIM <= Limit(m.x_dim)
                        /\ SHOW_MIN + SCROLL_Y_DIM <= Limit(m.y_dim)

VARIABLES
    rtc, keyboard, tux,          \* where each thread is
    level, ticks, layout, fruits,  \* of rtc_thread and maze.c
    x, y, map_x, map_y,          \* X_after, Y_after, game_info's view
    dir, move_cnt,
    key_state,                   \* state of keyboard_thread
    key_dir,                     \* the arrow it is about to store
    next_dir, button, pressed, flag, quit_flag, winner

place == <<x, y, map_x, map_y, dir, move_cnt>>
game == <<level, layout, fruits, place>>
keys == <<key_state, key_dir>>
signals == <<button, pressed, flag>>
outcome == <<quit_flag, winner>>
vars == <<rtc, keyboard, tux, ticks, game, keys, next_dir, signals, outcome>>

NoButton == "released"       \* 0xFF: the buttons are active low
OtherButtons == "other"      \* any byte that is not one direction
Buttons == ButtonDirs \cup {NoButton, OtherButtons}

RtcHoldsConMtx == rtc \in {"press", "signal"}
TuxHoldsConMtx == tux \in {"test", "sleep"}
ConMtxFree_ignored == TRUE                                           \* faulty
ConMtxFree == ~RtcHoldsConMtx /\ ~TuxHoldsConMtx
MtxFree == tux # "clear"

Init ==
    /\ rtc = "next" /\ keyboard = "loop" /\ tux = "loop"
    /\ level = 1 /\ ticks = 0
    /\ layout \in Mazes /\ fruits = {}         \* made when a level starts
    /\ x = 0 /\ y = 0 /\ map_x = 0 /\ map_y = 0
    /\ dir = "up" /\ move_cnt = 0
    /\ key_state = 0 /\ key_dir = "up"
    /\ next_dir = "stop"            \* 65, no direction: a level sets it first
    /\ button = OtherButtons /\ pressed = FALSE /\ flag = FALSE
    /\ quit_flag = FALSE /\ winner = FALSE

-----------------------------------------------------------------------------
(* rtc_thread *)

InLevel == rtc \in {"wait", "poll", "flag", "press", "signal", "move"}
Square == <<x \div BLOCK, y \div BLOCK>>

(* Start of the loop over levels: a new maze, the player at (1,1).         *)
(* unveil_around_player() eats a fruit there; that it may be the exit with *)
(* no fruit left is ignored.                                               *)
FirstDir == "stop"

prepare_maze_level ==
    /\ layout' \in Mazes
    /\ map_x' = SHOW_MIN /\ map_y' = SHOW_MIN

check_for_fruit(left, square) == left \ {square}

StartLevel ==
    /\ rtc = "next" /\ level <= MAX_LEVEL /\ ~quit_flag
    /\ prepare_maze_level
    /\ fruits' = check_for_fruit(layout'.fruits, <<1, 1>>)
    /\ x' = BLOCK /\ y' = BLOCK
    /\ dir' = FirstDir /\ next_dir' = "stop" /\ move_cnt' = 0
    /\ rtc' = "wait"
    /\ UNCHANGED <<keyboard, tux, level, ticks, keys, signals, outcome>>

(* read() of the timer returns the ticks since the last read. *)
ReadTimer_deaf == rtc = "wait"                                       \* faulty
ReadTimer == rtc = "wait" /\ ~quit_flag

WaitTick ==
    /\ ReadTimer
    /\ ticks' \in 1 .. MaxTicks
    /\ rtc' = "poll"
    /\ UNCHANGED <<keyboard, tux, game, keys, next_dir, signals, outcome>>

LeaveLevel ==
    /\ rtc = "wait" /\ ~ReadTimer
    /\ rtc' = "next" /\ level' = level + 1
    /\ UNCHANGED <<keyboard, tux, ticks, layout, fruits, place, keys, next_dir,
                   signals, outcome>>

(* The test of while (ticks--), then the ioctl: no mutex is held. *)
PollButton ==
    /\ rtc = "poll" /\ ticks > 0
    /\ ticks' = ticks - 1
    /\ button' \in Buttons
    /\ rtc' = "flag"
    /\ UNCHANGED <<keyboard, tux, game, keys, next_dir, pressed, flag, outcome>>

TicksServed ==
    /\ rtc = "poll" /\ ticks = 0
    /\ rtc' = "wait"
    /\ UNCHANGED <<keyboard, tux, ticks, game, keys, next_dir, signals, outcome>>

LowerFlag ==
    /\ rtc = "flag" /\ ConMtxFree
    /\ flag' = FALSE
    /\ rtc' = "press"
    /\ UNCHANGED <<keyboard, tux, ticks, game, keys, next_dir, button, pressed,
                   outcome>>

AnyPressed_active_high == button = NoButton                          \* faulty
AnyPressed == button # NoButton

Press ==
    /\ rtc = "press"
    /\ IF AnyPressed THEN pressed' = TRUE /\ flag' = TRUE
                     ELSE UNCHANGED <<pressed, flag>>
    /\ rtc' = "signal"
    /\ UNCHANGED <<keyboard, tux, ticks, game, keys, next_dir, button, outcome>>

Woken == IF tux = "asleep" THEN "woken" ELSE tux

Signal ==
    /\ rtc = "signal"
    /\ tux' = IF pressed THEN Woken ELSE tux
    /\ rtc' = "move"
    /\ UNCHANGED <<keyboard, ticks, game, keys, next_dir, signals, outcome>>

(* The player turns back at once, also between two squares: the pixels     *)
(* left to the square ahead become those left to the square behind.        *)
TurnsBack == Reverses(dir, next_dir)
Facing == IF TurnsBack THEN next_dir ELSE dir
PixelsLeft_forward == move_cnt                                       \* faulty
PixelsLeft == IF TurnsBack /\ move_cnt > 0 THEN BLOCK - move_cnt ELSE move_cnt

IsOpen(d) == <<Square[1] + DX[d], Square[2] + DY[d]>> \in layout.open

(* On a new square next_dir is taken if it is open, and a wall ahead stops *)
(* the player.  open[] has no entry for DIR_STOP: reading it may give      *)
(* anything.                                                               *)
Turned == IF next_dir = "stop" THEN {Facing, "stop"}
          ELSE IF IsOpen(next_dir) THEN {next_dir} ELSE {Facing}
Headings == {IF d # "stop" /\ IsOpen(d) THEN d ELSE "stop" : d \in Turned}

(* Panning by one pixel, after a move to pixel p towards lower or higher   *)
(* coordinates, of a view that starts at pixel m.                          *)
PanBack_late(p, m) ==                                                \* faulty
    IF p < m /\ m > SHOW_MIN THEN m - 1 ELSE m
PanBack(p, m) ==
    IF p < m + BLOCK * PAN_BORDER /\ m > SHOW_MIN THEN m - 1 ELSE m
PanForward(p, m, scroll, n) ==
    IF /\ p > m + scroll - BLOCK * (PAN_BORDER + 1)
       /\ m + scroll < Limit(n)
    THEN m + 1 ELSE m

CountDown(d, n) == IF d = "stop" THEN 0 ELSE n - 1

(* move_up() ... move_left(), n pixels before the next square. *)
MoveOn(d, n) ==
    /\ dir' = d
    /\ move_cnt' = CountDown(d, n)
    /\ x' = x + DX[d] /\ y' = y + DY[d]
    /\ map_x' = IF d = "left" THEN PanBack(x', map_x)
                ELSE IF d = "right"
                     THEN PanForward(x', map_x, SCROLL_X_DIM, layout.x_dim)
                     ELSE map_x
    /\ map_y' = IF d = "up" THEN PanBack(y', map_y)
                ELSE IF d = "down"
                     THEN PanForward(y', map_y, SCROLL_Y_DIM, layout.y_dim)
                     ELSE map_y

(* The section under mtx reads next_dir; the move after it uses only what  *)
(* belongs to rtc_thread.                                                  *)
BetweenSquares ==
    /\ rtc = "move" /\ MtxFree /\ PixelsLeft > 0
    /\ MoveOn(Facing, PixelsLeft)
    /\ rtc' = "poll"
    /\ UNCHANGED <<keyboard, tux, level, ticks, layout, fruits, keys, next_dir,
                   signals, outcome>>

Wins == check_for_fruit(fruits, Square) = {} /\ Square = layout.exit

NewSquare ==
    /\ rtc = "move" /\ MtxFree /\ PixelsLeft = 0 /\ ~Wins
    /\ fruits' = check_for_fruit(fruits, Square)
    /\ \E d \in Headings : MoveOn(d, BLOCK)
    /\ rtc' = "poll"
    /\ UNCHANGED <<keyboard, tux, level, ticks, layout, keys, next_dir, signals,
                   outcome>>

WinLevel ==
    /\ rtc = "move" /\ MtxFree /\ PixelsLeft = 0 /\ Wins
    /\ fruits' = {}
    /\ dir' = Facing
    /\ level' = level + 1
    /\ rtc' = "next"
    /\ UNCHANGED <<keyboard, tux, ticks, layout, x, y, map_x, map_y, move_cnt,
                   keys, next_dir, signals, outcome>>

LeaveLevels ==
    /\ rtc = "next" /\ (level > MAX_LEVEL \/ quit_flag)
    /\ rtc' = "last_signal"
    /\ UNCHANGED <<keyboard, tux, ticks, game, keys, next_dir, signals, outcome>>

(* pthread_cond_signal() after the levels, without con_mtx. *)
LastSignal ==
    /\ rtc = "last_signal"
    /\ tux' = Woken
    /\ rtc' = "outcome"
    /\ UNCHANGED <<keyboard, ticks, game, keys, next_dir, signals, outcome>>

SetWinner ==
    /\ rtc = "outcome"
    /\ winner' = IF quit_flag THEN winner ELSE TRUE
    /\ rtc' = "done"
    /\ UNCHANGED <<keyboard, tux, ticks, game, keys, next_dir, signals,
                   quit_flag>>

RtcStep ==
    \/ StartLevel \/ WaitTick \/ LeaveLevel \/ PollButton \/ TicksServed
    \/ LowerFlag \/ Press \/ Signal
    \/ BetweenSquares \/ NewSquare \/ WinLevel
    \/ LeaveLevels \/ LastSignal \/ SetWinner

-----------------------------------------------------------------------------
(* keyboard_thread *)

KeyboardLoop ==
    /\ keyboard = "loop"
    /\ keyboard' = IF winner THEN "done" ELSE "getc"
    /\ UNCHANGED <<rtc, tux, ticks, game, keys, next_dir, signals, outcome>>

KeyStep(next_pc) ==
    /\ keyboard = "getc"
    /\ keyboard' = next_pc
    /\ UNCHANGED <<rtc, tux, ticks, game, next_dir, signals, winner>>

QuitKey ==
    /\ KeyStep("done")
    /\ quit_flag' = TRUE
    /\ UNCHANGED keys

(* The two bytes before the letter of an arrow key. *)
EscapeKey ==
    /\ KeyStep("loop")
    /\ key_state' = 1
    /\ UNCHANGED <<key_dir, quit_flag>>

BracketKey ==
    /\ KeyStep("loop") /\ key_state = 1
    /\ key_state' = 2
    /\ UNCHANGED <<key_dir, quit_flag>>

(* The letter of an arrow; without the two bytes before it, or while a     *)
(* button is down, it is as good as any other key.                         *)
ArrowKey ==
    /\ key_state = 2 /\ ~flag
    /\ KeyStep("store")
    /\ key_dir' \in KeyDirs
    /\ UNCHANGED <<key_state, quit_flag>>

(* Also what getc() returns when there is no key.  A key is dropped and    *)
(* key_state kept while a button is down.                                  *)
OtherKey ==
    /\ KeyStep("loop")
    /\ key_state' = IF flag THEN key_state ELSE 0
    /\ UNCHANGED <<key_dir, quit_flag>>

StoreDir ==
    /\ keyboard = "store" /\ MtxFree
    /\ next_dir' = key_dir
    /\ key_state' = 0
    /\ keyboard' = "loop"
    /\ UNCHANGED <<rtc, tux, ticks, game, key_dir, signals, outcome>>

KeyboardStep == \/ KeyboardLoop \/ QuitKey \/ EscapeKey \/ BracketKey
                \/ ArrowKey \/ OtherKey \/ StoreDir

-----------------------------------------------------------------------------
(* tux_thread *)

GameOver == quit_flag \/ winner

TuxUnchanged == UNCHANGED <<rtc, keyboard, ticks, game, keys, button, flag,
                            outcome>>
TuxGoto(from, to) ==
    /\ tux = from /\ tux' = to
    /\ UNCHANGED <<next_dir, pressed>>
    /\ TuxUnchanged

TuxLoop == TuxGoto("loop", IF GameOver THEN "done" ELSE "lock")

(* pthread_mutex_lock, and the mutex pthread_cond_wait takes again. *)
LockCon == ConMtxFree /\ (TuxGoto("lock", "test") \/ TuxGoto("woken", "test"))

TestPressed == TuxGoto("test", IF pressed \/ GameOver THEN "steer" ELSE "sleep")

(* pthread_cond_wait releases con_mtx and waits. *)
CondWait == TuxGoto("sleep", "asleep")
SpuriousWakeup == TuxGoto("asleep", "woken")

Steer ==
    /\ tux = "steer"
    /\ next_dir' = IF button \in ButtonDirs THEN button ELSE next_dir
    /\ tux' = "clear"
    /\ UNCHANGED pressed /\ TuxUnchanged

ClearPressed ==
    /\ tux = "clear"
    /\ pressed' = FALSE
    /\ tux' = "loop"
    /\ UNCHANGED next_dir /\ TuxUnchanged

TuxStep == \/ TuxLoop \/ LockCon \/ TestPressed \/ CondWait
           \/ Steer \/ ClearPressed

-----------------------------------------------------------------------------
Next == RtcStep \/ KeyboardStep \/ TuxStep \/ SpuriousWakeup

Spec == Init /\ [][Next]_vars

(* The timer ticks for ever; a thread that can go on again and again gets  *)
(* the processor, and the mutex others hold for a few instructions.        *)
FairSpec == /\ Spec
            /\ SF_vars(RtcStep) /\ SF_vars(TuxStep) /\ SF_vars(KeyboardStep)

-----------------------------------------------------------------------------
TypeOK ==
    /\ rtc \in {"next", "wait", "poll", "flag", "press", "signal", "move",
                "last_signal", "outcome", "done"}
    /\ keyboard \in {"loop", "getc", "store", "done"}
    /\ tux \in {"loop", "lock", "test", "sleep", "asleep", "woken", "steer",
                "clear", "done"}
    /\ level \in 1 .. MAX_LEVEL + 1 /\ ticks \in 0 .. MaxTicks
    /\ layout \in Mazes /\ fruits \subseteq layout.open
    /\ x \in Int /\ y \in Int /\ map_x \in Int /\ map_y \in Int
    /\ dir \in AllDirs /\ move_cnt \in 0 .. BLOCK - 1
    /\ key_state \in 0 .. 2 /\ key_dir \in Moves
    /\ next_dir \in AllDirs /\ button \in Buttons
    /\ {pressed, flag, quit_flag, winner} \subseteq BOOLEAN

(* However turns and reversals fall between the pixels, the player is on   *)
(* the way from one open square to the next: move_cnt pixels before it.    *)
PlayerInCorridor == InLevel =>
    \E s \in layout.open :
        /\ x + move_cnt * DX[dir] = BLOCK * s[1]
        /\ y + move_cnt * DY[dir] = BLOCK * s[2]
        /\ move_cnt > 0 => <<s[1] - DX[dir], s[2] - DY[dir]>> \in layout.open

(* On each axis the view shows PAN_BORDER squares around the player, or    *)
(* ends at the last pixels of the maze that may be shown.                  *)
InView(p, m, scroll, n) ==
    /\ SHOW_MIN <= m /\ m + scroll <= Limit(n)
    /\ m = SHOW_MIN \/ p >= m + BLOCK * PAN_BORDER
    /\ m + scroll = Limit(n) \/ p <= m + scroll - BLOCK * (PAN_BORDER + 1)
PlayerInView == InLevel =>
    /\ InView(x, map_x, SCROLL_X_DIM, layout.x_dim)
    /\ InView(y, map_y, SCROLL_Y_DIM, layout.y_dim)

(* The read of open[DIR_STOP] is harmless: a player without a next_dir     *)
(* stands still, whatever the other threads store meanwhile.               *)
StrayReadIsHarmless == InLevel /\ next_dir = "stop" => dir = "stop"

(* No button press is slept through: if pressed is set while tux_thread    *)
(* waits, rtc_thread has not reached its signal yet.                       *)
PressWakesTux == tux = "asleep" /\ pressed => RtcHoldsConMtx

(* The keyboard thread and the timer thread see the end of the game,       *)
(* whichever of them brings it about.                                      *)
ThreadsStop == GameOver ~> (rtc = "done" /\ keyboard = "done")

(* A button that is held steers the player again and again, although       *)
(* tux_thread clears pressed under another mutex than the one it is set    *)
(* under.                                                                  *)
HeldButtonSteers ==
    \A b \in ButtonDirs : <>[](button = b /\ InLevel) => []<>(next_dir = b)
=============================================================================
