------------------------------ MODULE Display ------------------------------
(* The scrolling display of the maze game: the view window and the build    *)
(* buffer of empee2/modex.c, what empee2/maze.c draws into it, and the      *)
(* drawing of rtc_thread in empee2/mazegame.c, which alone uses them.       *)
(* A pixel is the block it belongs to and its place in the block.           *)
EXTENDS MazeMap, FiniteSets

CONSTANTS
    Mazes,          \* records: x_dim, y_dim, open squares, exit, fruits
    BLOCK,          \* BLOCK_X_DIM and BLOCK_Y_DIM
    SCROLL_X_DIM, SCROLL_Y_DIM,
    EXTRA,          \* 20000: what the build buffer has beyond one screen
    SHOW_MIN, PAN_BORDER,
    Opaque,         \* the pixels of the player's image that its mask draws
    MaxTicks        \* 8: moves between two redraws

ASSUME DisplayAssumption ==
    /\ BLOCK \in Nat \ {0}
    /\ SCROLL_X_DIM \in Nat /\ SCROLL_X_DIM % 4 = 0
    /\ SCROLL_Y_DIM \in Nat
    /\ EXTRA \in Nat /\ MaxTicks \in Nat \ {0}
    /\ Opaque \subseteq 0 .. (BLOCK * BLOCK - 1)

(* The view starts inside the boundary of the maze, and has room for both   *)
(* borders.                                                                 *)
ASSUME ViewAssumption ==
    /\ SHOW_MIN \in Nat /\ SHOW_MIN <= BLOCK
    /\ PAN_BORDER \in Nat \ {0}
    /\ SCROLL_X_DIM >= BLOCK * (2 * PAN_BORDER + 1)
    /\ SCROLL_Y_DIM >= BLOCK * (2 * PAN_BORDER + 1)

(* MAZE_MIN_X_DIM and MAZE_MIN_Y_DIM: a maze fills the window. No window    *)
(* shows the left boundary and the right one, which share cells: 320 pixels *)
(* fit between those of the smallest maze, which are 324 apart. The squares *)
(* are those of a maze that make_maze has built.                            *)
ASSUME MazesAssumption ==
    \A l \in Mazes :
        /\ l.x_dim \in Nat /\ l.x_dim >= (SCROLL_X_DIM + BLOCK - 1 + 2 * SHOW_MIN) \div (2 * BLOCK)
        /\ l.y_dim \in Nat /\ l.y_dim >= (SCROLL_Y_DIM + BLOCK - 1 + 2 * SHOW_MIN) \div (2 * BLOCK)
        /\ SCROLL_X_DIM <= BLOCK * (2 * l.x_dim - 1)
        /\ l.open \subseteq (1 .. 2 * l.x_dim - 1) \X (1 .. 2 * l.y_dim - 1)
        /\ <<1, 1>> \in l.open /\ l.exit \in l.open /\ l.fruits \subseteq l.open

VARIABLES
    phase,      \* "prepare", "play" or "won"
    level,      \* the maze being played
    maze, n_fruits,
    view,       \* show_x, show_y, img3_off, the build buffer and its fence
    player,     \* X_after and Y_after, in pixels
    block_mask, \* what the player covers
    screen,     \* the page displayed
    need_redraw,
    ticks       \* moves since the last read of the clock
vars == <<phase, level, maze, n_fruits, view, player, block_mask, screen, need_redraw, ticks>>

SCROLL_X_WIDTH == SCROLL_X_DIM \div 4
SCROLL_SIZE == SCROLL_X_WIDTH * SCROLL_Y_DIM
SCREEN_SIZE == SCROLL_SIZE * 4 + 1
BUILD_BUF_SIZE == SCREEN_SIZE + EXTRA
BUILD_BASE_INIT == (BUILD_BUF_SIZE - SCREEN_SIZE) \div 2

Larger(a, b) == IF a > b THEN a ELSE b
Smaller(a, b) == IF a < b THEN a ELSE b

-----------------------------------------------------------------------------
(* The build buffer. Addresses are relative to its first byte; a write      *)
(* outside breaks the memory fence.                                         *)

Buffer == 0 .. (BUILD_BUF_SIZE - 1)
Unset == <<"unset">>
Byte(v, i) == IF i \in Buffer THEN v.build[i] ELSE Unset

(* Plane 3 comes first, so the plane of a pixel counts down.                *)
AddressIn(off, p) ==
    off + (p[1] \div 4) + (p[2] * SCROLL_X_WIDTH) + ((3 - (p[1] % 4)) * SCROLL_SIZE)
Address(v, p) == AddressIn(v.off, p)

(* The pixels of the window, by column and row in it and in the map.        *)
Places == (0 .. (SCROLL_X_DIM - 1)) \X (0 .. (SCROLL_Y_DIM - 1))
InMap(v, q) == <<v.x + q[1], v.y + q[2]>>
Window(v) == {InMap(v, q) : q \in Places}

(* Write the pixels of a picture: a function from pixels of the map.        *)
Paint(v, picture) ==
    LET written == {Address(v, p) : p \in DOMAIN picture}
    IN  [v EXCEPT
           !.build = [i \in Buffer |->
                        IF i \in written
                          THEN picture[CHOOSE p \in DOMAIN picture : Address(v, p) = i]
                          ELSE v.build[i]],
           !.fence = @ /\ written \subseteq Buffer]

(* The image of the block that a pixel of the map falls in.                 *)
BlockOf(p) == <<p[1] \div BLOCK, p[2] \div BLOCK>>
Image(l, m, n, p) ==
    <<find_block(m, l.x_dim, n, BlockOf(p)), p[1] % BLOCK, p[2] % BLOCK>>

(* A line from (x, y) on, by the place in the line: the rest of the first   *)
(* block, then block after block.                                           *)
fill_horiz_buffer(l, m, n, x, y) ==
    LET sub_x == x % BLOCK
        block(idx) == <<(x \div BLOCK) + ((sub_x + idx) \div BLOCK), y \div BLOCK>>
    IN  [idx \in 0 .. (SCROLL_X_DIM - 1) |->
            <<find_block(m, l.x_dim, n, block(idx)), (sub_x + idx) % BLOCK, y % BLOCK>>]
fill_vert_buffer(l, m, n, x, y) ==
    LET sub_y == y % BLOCK
        block(idx) == <<x \div BLOCK, (y \div BLOCK) + ((sub_y + idx) \div BLOCK)>>
    IN  [idx \in 0 .. (SCROLL_Y_DIM - 1) |->
            <<find_block(m, l.x_dim, n, block(idx)), x % BLOCK, (sub_y + idx) % BLOCK>>]

draw_horiz_line(v, l, m, n, r) ==
    LET buf == fill_horiz_buffer(l, m, n, v.x, v.y + r)
    IN  Paint(v, [p \in {InMap(v, <<c, r>>) : c \in DOMAIN buf} |-> buf[p[1] - v.x]])
draw_vert_line(v, l, m, n, c) ==
    LET buf == fill_vert_buffer(l, m, n, v.x + c, v.y)
    IN  Paint(v, [p \in {InMap(v, <<c, r>>) : r \in DOMAIN buf} |-> buf[p[2] - v.y]])

(* draw_full_block for the blocks at some lattice points, clipped to the    *)
(* window.                                                                  *)
DrawBlocks(v, l, m, n, points) ==
    Paint(v, [p \in {w \in Window(v) : BlockOf(w) \in points} |-> Image(l, m, n, p)])

-----------------------------------------------------------------------------
(* set_view_window.                                                         *)

Fits_onePlane(off, x, y) ==                                             \* faulty
    /\ off + (x \div 4) + (y * SCROLL_X_WIDTH) >= 0
    /\ off + ((x + SCROLL_X_DIM - 1) \div 4)
           + ((y + SCROLL_Y_DIM - 1) * SCROLL_X_WIDTH) < BUILD_BUF_SIZE
Fits(off, x, y) ==
    /\ off + (x \div 4) + (y * SCROLL_X_WIDTH) >= 0
    /\ off + (3 * SCROLL_SIZE) + ((x + SCROLL_X_DIM - 1) \div 4)
           + ((y + SCROLL_Y_DIM - 1) * SCROLL_X_WIDTH) < BUILD_BUF_SIZE

Overlaps(v, x, y) ==
    /\ x > v.x - SCROLL_X_DIM /\ x < v.x + SCROLL_X_DIM
    /\ y > v.y - SCROLL_Y_DIM /\ y < v.y + SCROLL_Y_DIM

CopiesDown_swapped(source, target) == source >= target                  \* faulty
CopiesDown(source, target) == source < target

(* The copy loops, byte by byte: an index that an earlier turn of the loop  *)
(* has written is read with its new value.                                  *)
Copied(v, source, target, length) ==
    LET Ascending[i \in 0 .. (length - 1)] ==
            LET j == source + i - target
            IN  IF j >= 0 /\ j < i THEN Ascending[j] ELSE Byte(v, source + i)
        Descending[i \in 0 .. (length - 1)] ==
            LET j == source + i - target
            IN  IF j > i /\ j < length THEN Descending[j] ELSE Byte(v, source + i)
    IN  IF CopiesDown(source, target) THEN Descending ELSE Ascending

set_view_window(v, x, y) ==
    LET moved == [v EXCEPT !.x = x, !.y = y]
        off == BUILD_BASE_INIT - (x \div 4) - (y * SCROLL_X_WIDTH)
        start_x == Larger(x, v.x)
        start_y == Larger(y, v.y)
        end_x == Smaller(x, v.x) + SCROLL_X_DIM - 1
        end_y == Smaller(y, v.y) + SCROLL_Y_DIM - 1
        start_off == (start_x \div 4) + (start_y * SCROLL_X_WIDTH)
        length == (end_x \div 4) + (end_y * SCROLL_X_WIDTH) + 1 - start_off + (3 * SCROLL_SIZE)
        target == off + start_off
        copy == Copied(v, v.off + start_off, target, length)
    IN  IF Fits(v.off, x, y) THEN moved
        ELSE IF ~Overlaps(v, x, y) THEN [moved EXCEPT !.off = off]
        ELSE [moved EXCEPT
                !.off = off,
                !.build = [i \in Buffer |-> IF i - target \in 0 .. (length - 1)
                                              THEN copy[i - target] ELSE v.build[i]],
                !.fence = @ /\ target >= 0 /\ target + length <= BUILD_BUF_SIZE]

-----------------------------------------------------------------------------
(* The player: mask saves what it is about to cover, show_screen copies the *)
(* window into the four planes of a page, draw_full_block takes the player  *)
(* away again.                                                              *)

Sprite == (0 .. (BLOCK - 1)) \X (0 .. (BLOCK - 1))
Beside(p, s) == <<p[1] + s[1], p[2] + s[2]>>
Seen(v, p) == {s \in Sprite : Beside(p, s) \in Window(v)}
BlkIndex(s) == s[2] * BLOCK + s[1]

(* mask skips clipped rows and columns of the image, not of the mask and of *)
(* the background.                                                          *)
Clip(v, p) == <<Larger(v.x - p[1], 0), Larger(v.y - p[2], 0)>>
MaskIndex(v, p, s) == BlkIndex(<<s[1] - Clip(v, p)[1], s[2] - Clip(v, p)[2]>>)

Covered(v, p, background) ==
    [k \in DOMAIN background |->
        IF \E s \in Seen(v, p) : MaskIndex(v, p, s) = k
          THEN Byte(v, Address(v, Beside(p, CHOOSE s \in Seen(v, p) : MaskIndex(v, p, s) = k)))
          ELSE background[k]]

mask(v, p) ==
    Paint(v, [w \in {Beside(p, s) : s \in {t \in Seen(v, p) : MaskIndex(v, p, t) \in Opaque}}
                |-> <<<<"player">>, w[1] - p[1], w[2] - p[2]>>])

Uncover(v, p, background) ==
    Paint(v, [w \in {Beside(p, s) : s \in Seen(v, p)}
                |-> background[BlkIndex(<<w[1] - p[1], w[2] - p[2]>>)]])

Shift(p_off, i) == IF p_off < i THEN 1 ELSE 0

show_screen(v) ==
    LET p_off == 3 - (v.x % 4)
        addr == v.off + (v.x \div 4) + (v.y * SCROLL_X_WIDTH)
        plane(i) == ((p_off - i + 4) % 4) * SCROLL_SIZE + Shift(p_off, i)
    IN  [q \in Places |->
            Byte(v, addr + plane(q[1] % 4) + (q[1] \div 4) + (q[2] * SCROLL_X_WIDTH))]

(* The three calls, as rtc_thread makes them.                               *)
Redraw(v, p) ==
    LET saved == Covered(v, p, block_mask)
        drawn == mask(v, p)
    IN  /\ screen' = show_screen(drawn)
        /\ block_mask' = saved
        /\ view' = Uncover(drawn, p, saved)

-----------------------------------------------------------------------------
(* unveil_around_player: eat the fruit here, then show the squares around.  *)

Nearby(p) == {<<p[1] + i, p[2] + j>> : i, j \in -1 .. 1} \cup {Toward(p, d, 2) : d \in Dirs}

Rest(m, c) == [m EXCEPT ![c] = @ \ {"fruit"}]

(* unveil_space at the lattice points of a set: those in the maze that have *)
(* not been seen are seen from now on, and drawn.                           *)
unveil_space(l, m, n, v, points) ==
    LET at(q) == MAZE_INDEX(l.x_dim, q[1], q[2])
        hidden == {q \in points :
                     /\ q[1] \in 0 .. (2 * l.x_dim) /\ q[2] \in 0 .. (2 * l.y_dim)
                     /\ "reach" \notin m[at(q)]}
        cells == {at(q) : q \in hidden}
        seen == [c \in DOMAIN m |-> IF c \in cells THEN m[c] \cup {"reach"} ELSE m[c]]
    IN  [maze |-> seen, n_fruits |-> n, view |-> DrawBlocks(v, l, seen, n, hidden)]

(* check_for_fruit redraws the place, and the exit with the last fruit.     *)
unveil_around_player(l, m, n, v, p) ==
    LET at == MAZE_INDEX(l.x_dim, p[1], p[2])
        eaten == "fruit" \in m[at]
        left == IF eaten THEN n - 1 ELSE n
        rest == Rest(m, at)
        redrawn == IF ~eaten THEN {} ELSE IF left = 0 THEN {p, l.exit} ELSE {p}
    IN  unveil_space(l, rest, left, DrawBlocks(v, l, rest, left, redrawn), Nearby(p))

check_for_win(l, m, n, p) == n = 0 /\ "exit" \in m[MAZE_INDEX(l.x_dim, p[1], p[2])]

-----------------------------------------------------------------------------
(* The actions of rtc_thread.                                               *)

MazeOf(l) ==
    [c \in CellsOf(l.x_dim, l.y_dim) |->
        LET at(S) == c \in {MAZE_INDEX(l.x_dim, q[1], q[2]) : q \in S}
        IN  (IF at(l.open) THEN {} ELSE WALL)
              \cup (IF at(l.fruits) THEN {"fruit"} ELSE {})
              \cup (IF at({l.exit}) THEN {"exit"} ELSE {})]

Init ==
    /\ phase = "prepare"
    /\ level \in Mazes
    /\ maze = MazeOf(level)
    /\ n_fruits = Cardinality(level.fruits)
    /\ view = [x |-> 0, y |-> 0, off |-> BUILD_BASE_INIT,
               build |-> [i \in Buffer |-> Unset], fence |-> TRUE]
    /\ player = <<BLOCK, BLOCK>>
    /\ block_mask = [k \in 0 .. (BLOCK * BLOCK - 1) |-> Unset]
    /\ screen = [q \in Places |-> Unset]
    /\ need_redraw = FALSE
    /\ ticks = 0

(* prepare_maze_level draws every line of the window; then the player is    *)
(* shown at (1, 1).                                                         *)
StartLevel ==
    /\ phase = "prepare"
    /\ LET v == set_view_window(view, SHOW_MIN, SHOW_MIN)
           drawn == Paint(v, [w \in Window(v) |-> Image(level, maze, n_fruits, w)])
           u == unveil_around_player(level, maze, n_fruits, drawn, <<1, 1>>)
       IN  /\ maze' = u.maze
           /\ n_fruits' = u.n_fruits
           /\ Redraw(u.view, player)
    /\ phase' = "play"
    /\ UNCHANGED <<level, player, need_redraw, ticks>>

OnSquare == player[1] % BLOCK = 0 /\ player[2] % BLOCK = 0
Square == BlockOf(player)

(* The direction is the player's choice where it may turn; between squares  *)
(* it goes on or back.                                                      *)
MayMove(m, d) ==
    IF OnSquare
      THEN LET q == Toward(Square, d, 1)
           IN  "wall" \notin m[MAZE_INDEX(level.x_dim, q[1], q[2])]
      ELSE (d \in {Left, Right}) = (player[1] % BLOCK # 0)

(* move_up, move_right, move_down and move_left: where the view goes when   *)
(* the player has come to p.                                                *)
Pans(v, d, p) ==
    CASE d = Up    -> p[2] < v.y + BLOCK * PAN_BORDER /\ v.y > SHOW_MIN
      [] d = Right -> /\ p[1] > v.x + SCROLL_X_DIM - BLOCK * (PAN_BORDER + 1)
                      /\ v.x + SCROLL_X_DIM < (2 * level.x_dim + 1) * BLOCK - SHOW_MIN
      [] d = Down  -> /\ p[2] > v.y + SCROLL_Y_DIM - BLOCK * (PAN_BORDER + 1)
                      /\ v.y + SCROLL_Y_DIM < (2 * level.y_dim + 1) * BLOCK - SHOW_MIN
      [] d = Left  -> p[1] < v.x + BLOCK * PAN_BORDER /\ v.x > SHOW_MIN

Pan(v, d, m, n) ==
    LET to == Toward(<<v.x, v.y>>, d, 1)
        moved == set_view_window(v, to[1], to[2])
    IN  CASE d = Up    -> draw_horiz_line(moved, level, m, n, 0)
          [] d = Right -> draw_vert_line(moved, level, m, n, SCROLL_X_DIM - 1)
          [] d = Down  -> draw_horiz_line(moved, level, m, n, SCROLL_Y_DIM - 1)
          [] d = Left  -> draw_vert_line(moved, level, m, n, 0)

Move(d, v, m, n) ==
    /\ MayMove(m, d)
    /\ player' = Toward(player, d, 1)
    /\ view' = IF Pans(v, d, player') THEN Pan(v, d, m, n) ELSE v
    /\ need_redraw' = TRUE

Stay(v) ==
    /\ view' = v
    /\ UNCHANGED <<player, need_redraw>>

(* One turn of the loop over the ticks.                                     *)
Iterate ==
    /\ phase = "play" /\ ticks < MaxTicks
    /\ LET u == IF OnSquare THEN unveil_around_player(level, maze, n_fruits, view, Square)
                ELSE [maze |-> maze, n_fruits |-> n_fruits, view |-> view]
       IN  /\ maze' = u.maze
           /\ n_fruits' = u.n_fruits
           /\ IF OnSquare /\ check_for_win(level, u.maze, u.n_fruits, Square)
                THEN phase' = "won" /\ Stay(u.view)
                ELSE /\ phase' = "play"
                     /\ \/ \E d \in Dirs : Move(d, u.view, u.maze, u.n_fruits)
                        \/ OnSquare /\ Stay(u.view)
    /\ ticks' = ticks + 1
    /\ UNCHANGED <<level, block_mask, screen>>

(* After the last tick read, or the win.                                    *)
ShowMoves ==
    /\ (phase = "play" /\ ticks > 0) \/ phase = "won"
    /\ IF need_redraw THEN Redraw(view, player) ELSE UNCHANGED <<view, block_mask, screen>>
    /\ ticks' = 0
    /\ IF phase = "won"
         THEN /\ phase' = "prepare"
              /\ level' \in Mazes
              /\ maze' = MazeOf(level')
              /\ n_fruits' = Cardinality(level'.fruits)
              /\ player' = <<BLOCK, BLOCK>>
         ELSE UNCHANGED <<phase, level, maze, n_fruits, player>>
    /\ UNCHANGED need_redraw

Next == StartLevel \/ Iterate \/ ShowMoves

Spec == Init /\ [][Next]_vars

-----------------------------------------------------------------------------
(* Properties.                                                              *)

Pixel == {Unset} \cup {<<<<"player">>, s[1], s[2]>> : s \in Sprite}
            \cup {<<b, s[1], s[2]>> : b \in ({<<i>> : i \in {"exit", "fruit", "fruit shadow", "shadow", "empty"}}
                                              \cup {<<"wall", D>> : D \in SUBSET Dirs}), s \in Sprite}

(* The variables have their types, and the window stays in the maze.        *)
TypeOK ==
    /\ phase \in {"prepare", "play", "won"}
    /\ level \in Mazes
    /\ maze \in [CellsOf(level.x_dim, level.y_dim) -> SUBSET Bits]
    /\ n_fruits \in 0 .. Cardinality(level.fruits)
    /\ view.x \in Nat /\ view.y \in Nat /\ view.off \in Int
    /\ view.build \in [Buffer -> Pixel]
    /\ player \in Nat \X Nat
    /\ block_mask \in [0 .. (BLOCK * BLOCK - 1) -> Pixel]
    /\ screen \in [Places -> Pixel]
    /\ ticks \in 0 .. MaxTicks

(* modex.c: scrolling slides the window through the build buffer and        *)
(* set_view_window moves it back before an edge: nothing is ever written    *)
(* outside the buffer (what clear_mode_X checks when the game ends, and     *)
(* only within 256 bytes), and no pixel of the window lies outside it.      *)
FenceHolds ==
    /\ view.fence
    /\ \A w \in Window(view) : Address(view, w) \in Buffer

(* modex.c and maze.c: whatever was scrolled, copied, unveiled and eaten    *)
(* since the level was drawn, the build buffer holds in the window exactly  *)
(* what drawing every line again would put there, and no trace of the       *)
(* player.                                                                  *)
BuildHoldsView ==
    phase # "prepare" =>
        \A w \in Window(view) :
            Byte(view, Address(view, w)) = Image(level, maze, n_fruits, w)

(* mazegame.c: the player never leaves the window, so that mask never clips *)
(* (where it would take the wrong pixels of the mask).                      *)
PlayerIsOnScreen ==
    phase # "prepare" => \A s \in Sprite : Beside(player, s) \in Window(view)

(* mask, show_screen: what the screen shows after it is redrawn is the      *)
(* window of the maze with the player on it, each pixel in the plane and    *)
(* the place the video hardware shows it from.                              *)
ScreenIsPicture ==
    phase = "play" /\ ticks = 0 =>
        screen = [q \in Places |->
                    LET w == InMap(view, q)
                        s == <<w[1] - player[1], w[2] - player[2]>>
                    IN  IF s \in Sprite /\ BlkIndex(s) \in Opaque
                          THEN <<<<"player">>, s[1], s[2]>>
                          ELSE Image(level, maze, n_fruits, w)]

(* However the game is played, nothing is drawn outside the buffer, nor the *)
(* player outside the window.                                               *)
WindowHolds == TypeOK /\ FenceHolds /\ PlayerIsOnScreen

(* What was drawn once and scrolled is what drawing it now would give, in   *)
(* the build buffer always, and on the screen with the player on it.        *)
PictureIsTrue == BuildHoldsView /\ ScreenIsPicture
=============================================================================
