--------------------------- MODULE Display_proofs ---------------------------
(***************************************************************************)
(* The display of empee2, for every size of block, window and buffer.      *)
(*                                                                         *)
(* Addresses first: the four planes, one after the other, hold the pixels  *)
(* of a window without overlap, and what set_view_window tests is that the *)
(* window lies in the buffer. Then what each call does to the pixels of    *)
(* the window: Paint, set_view_window (whose copy loops run in the order   *)
(* that reads no byte after it was written), the lines, the blocks, the    *)
(* three calls of a redraw. Then the maze that is drawn, and the player    *)
(* whom the view follows. The invariant puts them together.                *)
(***************************************************************************)
EXTENDS Display, FiniteSetTheorems, FunctionTheorems, TLAPS

(* Products with one factor in common, which the provers do not compare.    *)
LEMMA TimesMonotone ==
  ASSUME NEW b \in Nat, NEW i \in Int, NEW j \in Int, i <= j
  PROVE  b * i <= b * j
  <1>1. b * (j - i) >= 0
    OBVIOUS
  <1>2. b * (j - i) = b * j - b * i
    OBVIOUS
  <1>3. QED
    BY <1>1, <1>2

(* Two columns less than a row apart are one if they are rows apart.        *)
LEMMA SameRow ==
  ASSUME NEW w \in Nat, NEW k \in Int, NEW e \in Int, w * k = e, -w < e, e < w
  PROVE  k = 0
  <1>1. ~(k >= 1)
    BY TimesMonotone, w * 1 = w
  <1>2. ~(k <= -1)
    BY TimesMonotone, w * (-1) = -w
  <1>3. QED
    BY <1>1, <1>2

(* Quotient and remainder of b * q + r.                                     *)
LEMMA DivMod ==
  ASSUME NEW b \in Nat \ {0}, NEW q \in Int, NEW r \in 0 .. (b - 1)
  PROVE  (b * q + r) \div b = q /\ (b * q + r) % b = r
  <1>1. (b * q + r) \div b = q
    OBVIOUS
  <1>2. (b * q + r) % b = r
    OBVIOUS
  <1>3. QED
    BY <1>1, <1>2

(* A number is its quotient times b and its remainder.                      *)
LEMMA Parts ==
  ASSUME NEW b \in Nat \ {0}, NEW a \in Int
  PROVE  /\ a = b * (a \div b) + (a % b)
         /\ a % b \in 0 .. (b - 1)
         /\ a \div b \in Int
         /\ a >= 0 => a \div b >= 0
  <1>1. a = b * (a \div b) + (a % b) /\ a % b \in 0 .. (b - 1) /\ a \div b \in Int
    OBVIOUS
  <1>2. ASSUME a >= 0, a \div b < 0 PROVE FALSE
    <2>1. b * (a \div b) <= b * (-1)
      BY <1>1, <1>2, TimesMonotone
    <2>2. QED
      BY <1>1, <1>2, <2>1
  <1>3. QED
    BY <1>1, <1>2

(* A place in a line: the block it falls in, and the place in the block.    *)
LEMMA LineParts ==
  ASSUME NEW b \in Nat \ {0}, NEW a \in Int, NEW i \in Int
  PROVE  /\ (a + i) \div b = (a \div b) + (((a % b) + i) \div b)
         /\ (a + i) % b = ((a % b) + i) % b
  <1> DEFINE k == (a % b) + i
  <1>1. a = b * (a \div b) + (a % b) /\ a \div b \in Int /\ a % b \in Int
    BY Parts
  <1>2. k \in Int /\ a + i = b * (a \div b) + k
    BY <1>1
  <1> HIDE DEF k
  <1>3. k = b * (k \div b) + (k % b) /\ k \div b \in Int /\ k % b \in 0 .. (b - 1)
    BY <1>2, Parts
  <1> DEFINE n == (a \div b) + (k \div b)
             m == k % b
  <1>4. n \in Int /\ a + i = b * n + m /\ m \in 0 .. (b - 1)
    BY <1>1, <1>2, <1>3
  <1> HIDE DEF n, m
  <1>5. (a + i) \div b = n /\ (a + i) % b = m
    BY <1>4, DivMod
  <1>6. QED
    BY <1>5 DEF k, n, m

-----------------------------------------------------------------------------
(* The planes of the build buffer.                                          *)

(* What the constants of modex.c amount to.                                 *)
LEMMA Sizes ==
  /\ SCROLL_X_WIDTH \in Nat /\ SCROLL_X_WIDTH > 0 /\ SCROLL_X_DIM = 4 * SCROLL_X_WIDTH
  /\ SCROLL_Y_DIM \in Nat /\ SCROLL_Y_DIM > 0 /\ SCROLL_X_DIM \in Nat /\ SCROLL_X_DIM > 0
  /\ SCROLL_SIZE \in Nat /\ SCROLL_SIZE = SCROLL_X_WIDTH * SCROLL_Y_DIM
  /\ SCROLL_SIZE >= SCROLL_X_WIDTH
  /\ BUILD_BUF_SIZE = 4 * SCROLL_SIZE + 1 + EXTRA
  /\ BUILD_BASE_INIT \in Nat /\ BUILD_BASE_INIT <= EXTRA
  /\ EXTRA \in Nat /\ BUILD_BUF_SIZE \in Nat
  /\ Buffer = 0 .. (BUILD_BUF_SIZE - 1)
  <1>1. SCROLL_X_WIDTH \in Nat /\ SCROLL_X_DIM = 4 * SCROLL_X_WIDTH
    BY DisplayAssumption DEF SCROLL_X_WIDTH
  <1>2. SCROLL_X_DIM >= 3 * 1 /\ SCROLL_Y_DIM >= 3 * 1
    <2>1. 2 * PAN_BORDER + 1 >= 3 /\ 2 * PAN_BORDER + 1 \in Nat /\ BLOCK \in Nat /\ BLOCK >= 1
      BY DisplayAssumption, ViewAssumption
    <2>2. BLOCK * 3 <= BLOCK * (2 * PAN_BORDER + 1)
      BY <2>1, TimesMonotone
    <2>3. BLOCK * (2 * PAN_BORDER + 1) \in Int
      BY <2>1
    <2>4. QED
      BY <2>1, <2>2, <2>3, DisplayAssumption, ViewAssumption
  <1>3. SCROLL_X_WIDTH > 0 /\ SCROLL_Y_DIM \in Nat /\ SCROLL_Y_DIM > 0
    BY <1>1, <1>2, DisplayAssumption
  <1>4. SCROLL_SIZE = SCROLL_X_WIDTH * SCROLL_Y_DIM /\ SCROLL_SIZE \in Nat
    BY <1>1, <1>3 DEF SCROLL_SIZE
  <1>5. SCROLL_X_WIDTH * 1 <= SCROLL_X_WIDTH * SCROLL_Y_DIM
    BY <1>1, <1>3, TimesMonotone
  <1>6. BUILD_BUF_SIZE = 4 * SCROLL_SIZE + 1 + EXTRA
    BY <1>4, DisplayAssumption DEF BUILD_BUF_SIZE, SCREEN_SIZE
  <1>7. BUILD_BASE_INIT = EXTRA \div 2
    BY <1>4, DisplayAssumption DEF BUILD_BASE_INIT, BUILD_BUF_SIZE, SCREEN_SIZE
  <1>8. QED
    BY <1>1, <1>3, <1>4, <1>5, <1>6, <1>7, DisplayAssumption DEF Buffer

(* Of the window alone.                                                     *)
LEMMA WindowSizes ==
  /\ SCROLL_X_DIM \in Nat /\ SCROLL_X_DIM > 0
  /\ SCROLL_Y_DIM \in Nat /\ SCROLL_Y_DIM > 0
  BY Sizes

(* A place in a stretch of n.                                               *)
LEMMA Within ==
  ASSUME NEW a \in Int, NEW w \in Int, NEW n \in Nat, a <= w, w < a + n
  PROVE  w - a \in 0 .. (n - 1) /\ a + (w - a) = w
  OBVIOUS

(* Two stretches of n that share a place begin less than n apart.           *)
LEMMA Near ==
  ASSUME NEW a \in Int, NEW b \in Int, NEW w \in Int, NEW n \in Nat,
         a <= w, w < a + n, b <= w, w < b + n
  PROVE  a > b - n /\ a < b + n
  OBVIOUS

(* Up to three planes.                                                      *)
LEMMA UpToThree ==
  ASSUME NEW s \in Nat, NEW k \in 0 .. 3
  PROVE  k * s \in Int /\ 0 <= k * s /\ k * s <= 3 * s
  <1>1. k = 0 \/ k = 1 \/ k = 2 \/ k = 3
    OBVIOUS
  <1>2. QED
    BY <1>1

(* The address of the first pixel of a window in plane 3, and the place of  *)
(* a pixel of the window behind it, as show_screen finds it: planes are     *)
(* counted from that of the first column, and one that has been passed      *)
(* starts a byte later.                                                     *)
Base(off, x, y) == off + (x \div 4) + (y * SCROLL_X_WIDTH)
Plane(r, i) == ((3 - r) - i + 4) % 4
Place(r, q) ==
    Plane(r, q[1] % 4) * SCROLL_SIZE + Shift(3 - r, q[1] % 4)
      + (q[1] \div 4) + (q[2] * SCROLL_X_WIDTH)
Late(r) == IF r = 0 THEN 0 ELSE 1

(* The shift is one where the plane is past that of the first column.       *)
LEMMA PlaneIs ==
  ASSUME NEW r \in 0 .. 3, NEW i \in 0 .. 3
  PROVE  /\ Plane(r, i) \in 0 .. 3
         /\ r + i < 4 => Plane(r, i) = 3 - r - i /\ Shift(3 - r, i) = 0
         /\ r + i >= 4 => Plane(r, i) = 7 - r - i /\ Shift(3 - r, i) = 1
         /\ Shift(3 - r, i) = IF Plane(r, i) > 3 - r THEN 1 ELSE 0
  BY DEF Plane, Shift

(* The address of a pixel by its place in the window, for the plane         *)
(* formulas of draw_full_block and of show_screen.                          *)
LEMMA AddressOfPlace ==
  ASSUME NEW off \in Int, NEW x \in Nat, NEW y \in Nat, NEW c \in Nat, NEW r \in Nat
  PROVE  AddressIn(off, <<x + c, y + r>>) = Base(off, x, y) + Place(x % 4, <<c, r>>)
  <1> DEFINE k == x % 4
             i == c % 4
             w == SCROLL_X_WIDTH
             S == SCROLL_SIZE
             X == x \div 4
             C == c \div 4
  <1>1. /\ x = 4 * X + k /\ X \in Nat /\ k \in 0 .. 3
        /\ c = 4 * C + i /\ C \in Nat /\ i \in 0 .. 3
    OBVIOUS
  <1>2. (y + r) * w = y * w + r * w /\ y * w \in Int /\ r * w \in Int /\ S \in Nat
    BY Sizes
  <1>3. AddressIn(off, <<x + c, y + r>>)
           = off + ((x + c) \div 4) + ((y + r) * w) + ((3 - ((x + c) % 4)) * S)
    BY DEF AddressIn
  <1>4. Base(off, x, y) + Place(k, <<c, r>>)
           = off + X + (y * w) + (Plane(k, i) * S + Shift(3 - k, i) + C + (r * w))
    BY DEF Base, Place
  <1>5. /\ k + i < 4 => (x + c) \div 4 = X + C /\ (x + c) % 4 = k + i
        /\ k + i >= 4 => (x + c) \div 4 = X + C + 1 /\ (x + c) % 4 = k + i - 4
    BY <1>1
  <1> DEFINE yw == y * w
             rw == r * w
  <1> HIDE DEF k, i, X, C, S, w
  <1>6. ASSUME k + i < 4
        PROVE  AddressIn(off, <<x + c, y + r>>) = Base(off, x, y) + Place(k, <<c, r>>)
    <2>1. Plane(k, i) = 3 - (k + i) /\ Shift(3 - k, i) = 0
      BY <1>1, <1>6, PlaneIs
    <2> DEFINE P == (3 - (k + i)) * S
    <2>2. P \in Int /\ yw \in Int /\ rw \in Int
      BY <1>1, <1>2
    <2>3. AddressIn(off, <<x + c, y + r>>) = off + (X + C) + (yw + rw) + P
      BY <1>2, <1>3, <1>5, <1>6
    <2>4. Base(off, x, y) + Place(k, <<c, r>>) = off + X + yw + (P + 0 + C + rw)
      BY <1>4, <2>1
    <2> HIDE DEF P, yw, rw
    <2>5. QED
      BY <1>1, <2>2, <2>3, <2>4
  <1>7. ASSUME k + i >= 4
        PROVE  AddressIn(off, <<x + c, y + r>>) = Base(off, x, y) + Place(k, <<c, r>>)
    <2>1. Plane(k, i) = 3 - (k + i - 4) /\ Shift(3 - k, i) = 1
      BY <1>1, <1>7, PlaneIs
    <2> DEFINE P == (3 - (k + i - 4)) * S
    <2>2. P \in Int /\ yw \in Int /\ rw \in Int
      BY <1>1, <1>2
    <2>3. AddressIn(off, <<x + c, y + r>>) = off + (X + C + 1) + (yw + rw) + P
      BY <1>2, <1>3, <1>5, <1>7
    <2>4. Base(off, x, y) + Place(k, <<c, r>>) = off + X + yw + (P + 1 + C + rw)
      BY <1>4, <2>1
    <2> HIDE DEF P, yw, rw
    <2>5. QED
      BY <1>1, <2>2, <2>3, <2>4
  <1>8. QED
    BY <1>1, <1>6, <1>7 DEF k

(* The place in its plane.                                                  *)
LEMMA InPlaneOf ==
  ASSUME NEW c \in 0 .. (SCROLL_X_DIM - 1), NEW r \in 0 .. (SCROLL_Y_DIM - 1)
  PROVE  /\ c \div 4 \in 0 .. (SCROLL_X_WIDTH - 1)
         /\ r * SCROLL_X_WIDTH \in Int
         /\ (c \div 4) + (r * SCROLL_X_WIDTH) \in 0 .. (SCROLL_SIZE - 1)
         /\ c % 4 \in 0 .. 3 /\ c = 4 * (c \div 4) + (c % 4)
         /\ c \in Nat /\ r \in Nat
  <1>1. c \in Nat /\ r \in Nat
    BY Sizes
  <1>2. /\ c \div 4 \in 0 .. (SCROLL_X_WIDTH - 1) /\ c % 4 \in 0 .. 3
        /\ c = 4 * (c \div 4) + (c % 4)
    BY <1>1, Sizes
  <1>3. SCROLL_X_WIDTH * 0 <= SCROLL_X_WIDTH * r
    BY <1>1, Sizes, TimesMonotone
  <1>4. SCROLL_X_WIDTH * r <= SCROLL_X_WIDTH * (SCROLL_Y_DIM - 1)
    <2>1. SCROLL_Y_DIM - 1 \in Int /\ r <= SCROLL_Y_DIM - 1
      BY <1>1, Sizes
    <2>2. QED
      BY <1>1, <2>1, Sizes, TimesMonotone
  <1>5. SCROLL_X_WIDTH * (SCROLL_Y_DIM - 1) = SCROLL_SIZE - SCROLL_X_WIDTH
    BY Sizes
  <1>6. r * SCROLL_X_WIDTH = SCROLL_X_WIDTH * r /\ r * SCROLL_X_WIDTH \in Int
        /\ SCROLL_X_WIDTH * 0 = 0
    BY <1>1, Sizes
  <1>7. QED
    BY <1>1, <1>2, <1>3, <1>4, <1>5, <1>6, Sizes

(* The same for a place of the window.                                      *)
LEMMA InPlane ==
  ASSUME NEW q \in Places
  PROVE  /\ q[1] \div 4 \in 0 .. (SCROLL_X_WIDTH - 1)
         /\ q[2] * SCROLL_X_WIDTH \in Int
         /\ (q[1] \div 4) + (q[2] * SCROLL_X_WIDTH) \in 0 .. (SCROLL_SIZE - 1)
         /\ q[1] % 4 \in 0 .. 3 /\ q[1] = 4 * (q[1] \div 4) + (q[1] % 4)
         /\ q[1] \in Nat /\ q[2] \in Nat /\ q = <<q[1], q[2]>>
  <1>1. q[1] \in 0 .. (SCROLL_X_DIM - 1) /\ q[2] \in 0 .. (SCROLL_Y_DIM - 1) /\ q = <<q[1], q[2]>>
    BY DEF Places
  <1>2. QED
    BY <1>1, InPlaneOf

(* A place by its plane and what is before it in the plane.                 *)
LEMMA PlaceIs ==
  ASSUME NEW r \in 0 .. 3, NEW q \in Places
  PROVE  \E k \in 0 .. 3, e \in 0 .. (SCROLL_SIZE - 1) :
            /\ k = Plane(r, q[1] % 4)
            /\ e = (q[1] \div 4) + (q[2] * SCROLL_X_WIDTH)
            /\ Place(r, q) = k * SCROLL_SIZE + (IF k > 3 - r THEN 1 ELSE 0) + e
  <1> DEFINE k == Plane(r, q[1] % 4)
             e == (q[1] \div 4) + (q[2] * SCROLL_X_WIDTH)
  <1>1. e \in 0 .. (SCROLL_SIZE - 1) /\ q[1] % 4 \in 0 .. 3
    BY InPlane
  <1>2. k \in 0 .. 3 /\ Shift(3 - r, q[1] % 4) = IF k > 3 - r THEN 1 ELSE 0
    BY <1>1, PlaneIs
  <1>3. k * SCROLL_SIZE \in Int
    BY <1>2, Sizes
  <1>4. q[1] \div 4 \in Int /\ q[2] * SCROLL_X_WIDTH \in Int
    BY InPlane
  <1>5. Place(r, q) = k * SCROLL_SIZE + (IF k > 3 - r THEN 1 ELSE 0) + e
    <2> DEFINE s == Shift(3 - r, q[1] % 4)
    <2>1. Place(r, q) = k * SCROLL_SIZE + s + (q[1] \div 4) + (q[2] * SCROLL_X_WIDTH)
      BY DEF Place
    <2>2. s \in Int
      BY <1>2
    <2> HIDE DEF k, s
    <2>3. Place(r, q) = k * SCROLL_SIZE + s + e
      BY <2>1, <2>2, <1>3, <1>4
    <2>4. QED
      BY <1>2, <2>3 DEF s
  <1> HIDE DEF k, e
  <1>6. QED
    BY <1>1, <1>2, <1>5 DEF k, e

(* The places lie in the four planes, and one byte further where x is not a *)
(* multiple of 4.                                                           *)
LEMMA PlaceBounds ==
  ASSUME NEW r \in 0 .. 3, NEW q \in Places
  PROVE  Place(r, q) \in 0 .. (4 * SCROLL_SIZE - 1 + Late(r))
  <1>1. PICK k \in 0 .. 3, e \in 0 .. (SCROLL_SIZE - 1) :
            Place(r, q) = k * SCROLL_SIZE + (IF k > 3 - r THEN 1 ELSE 0) + e
    BY PlaceIs
  <1>2. k = 0 \/ k = 1 \/ k = 2 \/ k = 3
    OBVIOUS
  <1>3. QED
    BY <1>1, <1>2, Sizes DEF Late

(* No two pixels of a window share a byte.                                  *)
LEMMA PlaceUnique ==
  ASSUME NEW r \in 0 .. 3, NEW p \in Places, NEW q \in Places, Place(r, p) = Place(r, q)
  PROVE  p = q
  <1>1. PICK k \in 0 .. 3, e \in 0 .. (SCROLL_SIZE - 1) :
            /\ k = Plane(r, p[1] % 4)
            /\ e = (p[1] \div 4) + (p[2] * SCROLL_X_WIDTH)
            /\ Place(r, p) = k * SCROLL_SIZE + (IF k > 3 - r THEN 1 ELSE 0) + e
    BY PlaceIs
  <1>2. PICK l \in 0 .. 3, f \in 0 .. (SCROLL_SIZE - 1) :
            /\ l = Plane(r, q[1] % 4)
            /\ f = (q[1] \div 4) + (q[2] * SCROLL_X_WIDTH)
            /\ Place(r, q) = l * SCROLL_SIZE + (IF l > 3 - r THEN 1 ELSE 0) + f
    BY PlaceIs
  <1>3. k = l /\ e = f
    <2>1. (k = 0 \/ k = 1 \/ k = 2 \/ k = 3) /\ (l = 0 \/ l = 1 \/ l = 2 \/ l = 3)
      OBVIOUS
    <2>2. k * SCROLL_SIZE + (IF k > 3 - r THEN 1 ELSE 0) + e
             = l * SCROLL_SIZE + (IF l > 3 - r THEN 1 ELSE 0) + f
      BY <1>1, <1>2
    <2>3. QED
      BY <2>1, <2>2, Sizes
  <1>4. p[1] % 4 = q[1] % 4
    <2>1. p[1] % 4 \in 0 .. 3 /\ q[1] % 4 \in 0 .. 3
      BY InPlane
    <2>2. \A i, j \in 0 .. 3 : Plane(r, i) = Plane(r, j) => i = j
      BY DEF Plane
    <2>3. QED
      BY <1>1, <1>2, <1>3, <2>1, <2>2
  <1>5. p[2] = q[2] /\ p[1] \div 4 = q[1] \div 4
    <2> DEFINE w == SCROLL_X_WIDTH
               a == p[1] \div 4
               b == q[1] \div 4
               i == p[2]
               j == q[2]
    <2>1. /\ a \in 0 .. (w - 1) /\ b \in 0 .. (w - 1) /\ w \in Nat
          /\ i \in Nat /\ j \in Nat /\ a + (i * w) = b + (j * w)
      BY <1>1, <1>2, <1>3, InPlane, Sizes
    <2> HIDE DEF w, a, b, i, j
    <2>2. i * w \in Int /\ j * w \in Int /\ w * (i - j) = (i * w) - (j * w)
      BY <2>1
    <2>3. w * (i - j) = b - a /\ i - j \in Int /\ b - a \in Int /\ -w < b - a /\ b - a < w
      BY <2>1, <2>2
    <2>4. i - j = 0
      BY <2>1, <2>3, SameRow
    <2>5. i = j /\ a = b
      BY <2>1, <2>2, <2>3, <2>4
    <2>6. QED
      BY <2>5 DEF a, b, i, j
  <1>6. QED
    BY <1>4, <1>5, InPlane

(* The base is a number.                                                    *)
LEMMA BaseIs ==
  ASSUME NEW off \in Int, NEW x \in Nat, NEW y \in Nat
  PROVE  Base(off, x, y) \in Int /\ y * SCROLL_X_WIDTH \in Nat /\ x \div 4 \in Nat
  <1>1. y * SCROLL_X_WIDTH \in Nat /\ x \div 4 \in Nat
    BY Sizes
  <1>2. QED
    BY <1>1 DEF Base

(* What set_view_window tests is that the whole window lies in the buffer.  *)
LEMMA FitsIs ==
  ASSUME NEW off \in Int, NEW x \in Nat, NEW y \in Nat
  PROVE  Fits(off, x, y) <=>
           /\ Base(off, x, y) >= 0
           /\ Base(off, x, y) + (4 * SCROLL_SIZE - 1 + Late(x % 4)) < BUILD_BUF_SIZE
  <1> DEFINE w == SCROLL_X_WIDTH
  <1>1. (x + SCROLL_X_DIM - 1) \div 4 = (x \div 4) + w - 1 + Late(x % 4)
    BY Sizes DEF Late
  <1>2. (y + SCROLL_Y_DIM - 1) * w = (y * w) + (SCROLL_SIZE - w) /\ y * w \in Int /\ x \div 4 \in Int
    BY Sizes
  <1>3. Late(x % 4) \in Int
    BY DEF Late
  <1> HIDE DEF w
  <1>4. QED
    BY <1>1, <1>2, <1>3, Sizes DEF Fits, Base, w

(* The offset that set_view_window chooses for a new place of the window    *)
(* puts it in the middle of the buffer, where it fits.                      *)
LEMMA Recentred ==
  ASSUME NEW x \in Nat, NEW y \in Nat,
         NEW off, off = BUILD_BASE_INIT - (x \div 4) - (y * SCROLL_X_WIDTH)
  PROVE  off \in Int /\ Base(off, x, y) = BUILD_BASE_INIT /\ Fits(off, x, y)
  <1>1. off \in Int /\ Base(off, x, y) = BUILD_BASE_INIT
    BY BaseIs, Sizes DEF Base
  <1>2. Late(x % 4) \in {0, 1}
    BY DEF Late
  <1>3. QED
    BY <1>1, <1>2, FitsIs, Sizes

-----------------------------------------------------------------------------
(* Views, and what is painted into one.                                     *)

Views == [x : Nat, y : Nat, off : Int, build : [Buffer -> Pixel], fence : BOOLEAN]

(* A view whose window lies in the buffer.                                  *)
Sound(v) == v \in Views /\ v.fence /\ Fits(v.off, v.x, v.y)
At(v, w) == v.build[Address(v, w)]
SameFrame(u, v) == u.x = v.x /\ u.y = v.y /\ u.off = v.off

(* Which pixels of the map the window has.                                  *)
LEMMA WindowIs ==
  ASSUME NEW v, v \in Views, NEW w
  PROVE  /\ w \in Window(v) <=>
              /\ w \in Int \X Int
              /\ v.x <= w[1] /\ w[1] < v.x + SCROLL_X_DIM
              /\ v.y <= w[2] /\ w[2] < v.y + SCROLL_Y_DIM
         /\ w \in Window(v) => /\ <<w[1] - v.x, w[2] - v.y>> \in Places
                               /\ InMap(v, <<w[1] - v.x, w[2] - v.y>>) = w
                               /\ w \in Nat \X Nat
  <1>1. v.x \in Nat /\ v.y \in Nat
    BY DEF Views
  <1>2. ASSUME w \in Window(v)
        PROVE  /\ w \in Nat \X Nat
               /\ v.x <= w[1] /\ w[1] < v.x + SCROLL_X_DIM
               /\ v.y <= w[2] /\ w[2] < v.y + SCROLL_Y_DIM
    <2>1. PICK c \in 0 .. (SCROLL_X_DIM - 1), r \in 0 .. (SCROLL_Y_DIM - 1) :
             w = <<v.x + c, v.y + r>>
      BY <1>2 DEF Window, InMap, Places
    <2>2. w[1] = v.x + c /\ w[2] = v.y + r
      BY <2>1
    <2>3. c \in Nat /\ c < SCROLL_X_DIM /\ r \in Nat /\ r < SCROLL_Y_DIM
      BY WindowSizes
    <2>4. v.x + c \in Nat /\ v.y + r \in Nat
      BY <1>1, <2>3
    <2>5. w \in Nat \X Nat
      BY <2>1, <2>4
    <2>6. v.x <= v.x + c /\ v.x + c < v.x + SCROLL_X_DIM
      BY <1>1, <2>3, WindowSizes
    <2>7. v.y <= v.y + r /\ v.y + r < v.y + SCROLL_Y_DIM
      BY <1>1, <2>3, WindowSizes
    <2>8. QED
      BY <2>2, <2>5, <2>6, <2>7
  <1>3. ASSUME w \in Int \X Int,
               v.x <= w[1], w[1] < v.x + SCROLL_X_DIM,
               v.y <= w[2], w[2] < v.y + SCROLL_Y_DIM
        PROVE  /\ <<w[1] - v.x, w[2] - v.y>> \in Places
               /\ InMap(v, <<w[1] - v.x, w[2] - v.y>>) = w
    <2>1. w = <<w[1], w[2]>> /\ w[1] \in Int /\ w[2] \in Int
      BY <1>3
    <2>2. <<w[1] - v.x, w[2] - v.y>> \in Places
      <3>1. w[1] - v.x \in 0 .. (SCROLL_X_DIM - 1)
        BY <1>1, <1>3, <2>1, WindowSizes, Within
      <3>2. w[2] - v.y \in 0 .. (SCROLL_Y_DIM - 1)
        BY <1>1, <1>3, <2>1, WindowSizes, Within
      <3>3. QED
        BY <3>1, <3>2 DEF Places
    <2>3. v.x + (w[1] - v.x) = w[1] /\ v.y + (w[2] - v.y) = w[2]
      BY <1>1, <2>1
    <2>4. QED
      BY <2>1, <2>2, <2>3 DEF InMap
  <1>4. (\E q \in Places : w = InMap(v, q)) => w \in Window(v)
    BY DEF Window
  <1>5. QED
    BY <1>2, <1>3, <1>4

(* A place of the window as a pixel of the map.                             *)
LEMMA InMapIs ==
  ASSUME NEW v, v \in Views, NEW q \in Places
  PROVE  /\ InMap(v, q) \in Window(v)
         /\ InMap(v, q)[1] = v.x + q[1] /\ InMap(v, q)[2] = v.y + q[2]
  BY DEF InMap, Window

(* A pixel of the window is as far behind the first one as its place in the *)
(* window says.                                                             *)
LEMMA AddressIs ==
  ASSUME NEW v, v \in Views, NEW q \in Places
  PROVE  Address(v, InMap(v, q)) = Base(v.off, v.x, v.y) + Place(v.x % 4, q)
  <1>1. q[1] \in Nat /\ q[2] \in Nat /\ q = <<q[1], q[2]>>
    BY InPlane
  <1>2. v.x \in Nat /\ v.y \in Nat /\ v.off \in Int
    BY DEF Views
  <1>3. AddressIn(v.off, <<v.x + q[1], v.y + q[2]>>)
           = Base(v.off, v.x, v.y) + Place(v.x % 4, <<q[1], q[2]>>)
    BY <1>1, <1>2, AddressOfPlace
  <1>4. QED
    BY <1>1, <1>3 DEF Address, InMap

(* No pixel of a sound view's window lies outside the buffer.               *)
LEMMA WindowInBuffer ==
  ASSUME NEW v, Sound(v), NEW w \in Window(v)
  PROVE  Address(v, w) \in Buffer
  <1>1. PICK q \in Places : w = InMap(v, q)
    BY DEF Window
  <1>2. v \in Views /\ v.x \in Nat /\ v.y \in Nat /\ v.off \in Int /\ v.x % 4 \in 0 .. 3
    BY DEF Sound, Views
  <1> DEFINE b == Base(v.off, v.x, v.y)
             p == Place(v.x % 4, q)
             l == Late(v.x % 4)
  <1>3. Address(v, w) = b + p
    BY <1>1, <1>2, AddressIs
  <1>4. b \in Int /\ b >= 0 /\ b + (4 * SCROLL_SIZE - 1 + l) < BUILD_BUF_SIZE
    BY <1>2, FitsIs, BaseIs DEF Sound
  <1>5. l \in Int
    BY DEF Late
  <1>6. p \in 0 .. (4 * SCROLL_SIZE - 1 + l)
    BY <1>2, PlaceBounds
  <1> HIDE DEF b, p, l
  <1>7. QED
    BY <1>3, <1>4, <1>5, <1>6, Sizes

(* A view writes two pixels of its window to two addresses.                 *)
LEMMA AddressUnique ==
  ASSUME NEW v, v \in Views, NEW w \in Window(v), NEW u \in Window(v), Address(v, w) = Address(v, u)
  PROVE  w = u
  <1>1. PICK p \in Places : w = InMap(v, p)
    BY DEF Window
  <1>2. PICK q \in Places : u = InMap(v, q)
    BY DEF Window
  <1>3. v.x \in Nat /\ v.y \in Nat /\ v.off \in Int /\ v.x % 4 \in 0 .. 3
    BY DEF Views
  <1> DEFINE b == Base(v.off, v.x, v.y)
             m == Place(v.x % 4, p)
             n == Place(v.x % 4, q)
  <1>4. b + m = b + n
    BY <1>1, <1>2, AddressIs
  <1>5. b \in Int /\ m \in Int /\ n \in Int
    <2>1. Late(v.x % 4) \in Int
      BY DEF Late
    <2>2. m \in 0 .. (4 * SCROLL_SIZE - 1 + Late(v.x % 4)) /\ n \in 0 .. (4 * SCROLL_SIZE - 1 + Late(v.x % 4))
      BY <1>3, PlaceBounds
    <2>3. b \in Int
      BY <1>3, BaseIs
    <2> HIDE DEF b, m, n
    <2>4. QED
      BY <2>1, <2>2, <2>3
  <1> HIDE DEF b, m, n
  <1>6. m = n
    BY <1>4, <1>5
  <1>7. p = q
    BY <1>3, <1>6, PlaceUnique DEF m, n
  <1>8. QED
    BY <1>1, <1>2, <1>7

(* In the window, reading the buffer needs no test of its limits.           *)
LEMMA ByteAt ==
  ASSUME NEW v, Sound(v), NEW w \in Window(v)
  PROVE  Byte(v, Address(v, w)) = At(v, w) /\ At(v, w) \in Pixel
  BY WindowInBuffer DEF Byte, At, Sound, Views

(* The frame decides the window and its addresses.                          *)
LEMMA SameWindow ==
  ASSUME NEW u, NEW v, SameFrame(u, v)
  PROVE  /\ Window(u) = Window(v)
         /\ \A w : Address(u, w) = Address(v, w)
         /\ \A q : InMap(u, q) = InMap(v, q)
  BY DEF SameFrame, Window, InMap, Address

(* What is painted is what is then there, and the rest is left.             *)
LEMMA PaintIs ==
  ASSUME NEW v, Sound(v), NEW picture, DOMAIN picture \subseteq Window(v),
         \A p \in DOMAIN picture : picture[p] \in Pixel
  PROVE  /\ Sound(Paint(v, picture)) /\ SameFrame(Paint(v, picture), v)
         /\ \A w \in Window(v) :
               At(Paint(v, picture), w) = IF w \in DOMAIN picture THEN picture[w] ELSE At(v, w)
  <1> DEFINE written == {Address(v, p) : p \in DOMAIN picture}
             of(i) == CHOOSE p \in DOMAIN picture : Address(v, p) = i
             f == [i \in Buffer |-> IF i \in written THEN picture[of(i)] ELSE v.build[i]]
             u == [v EXCEPT !.build = f, !.fence = @ /\ written \subseteq Buffer]
  <1>1. Paint(v, picture) = u
    BY DEF Paint
  <1>2. written \subseteq Buffer
    BY WindowInBuffer
  <1>3. \A i \in written : of(i) \in DOMAIN picture /\ Address(v, of(i)) = i
    OBVIOUS
  <1>4. v \in Views /\ v.build \in [Buffer -> Pixel] /\ v.fence \in BOOLEAN /\ v.fence
        /\ v.x \in Nat /\ v.y \in Nat /\ v.off \in Int /\ Fits(v.off, v.x, v.y)
    BY DEF Sound, Views
  <1> HIDE DEF of
  <1>5. f \in [Buffer -> Pixel]
    BY <1>3, <1>4
  <1>6. ASSUME NEW w \in Window(v)
        PROVE  f[Address(v, w)] = IF w \in DOMAIN picture THEN picture[w] ELSE At(v, w)
    <2>1. Address(v, w) \in Buffer
      BY WindowInBuffer
    <2>2. CASE w \in DOMAIN picture
      <3>1. Address(v, w) \in written
        BY <2>2
      <3>2. of(Address(v, w)) = w
        BY <1>3, <1>4, <3>1, AddressUnique
      <3>3. QED
        BY <2>1, <2>2, <3>1, <3>2
    <2>3. CASE w \notin DOMAIN picture
      <3>1. Address(v, w) \notin written
        BY <1>4, <2>3, AddressUnique
      <3>2. QED
        BY <2>1, <2>3, <3>1 DEF At
    <2>4. QED
      BY <2>2, <2>3
  <1> HIDE DEF f, written
  <1>7. u \in Views /\ u.build = f /\ u.fence /\ u.x = v.x /\ u.y = v.y /\ u.off = v.off
    BY <1>2, <1>4, <1>5 DEF Views
  <1>8. \A w : Address(u, w) = Address(v, w)
    BY <1>7 DEF Address
  <1> HIDE DEF u
  <1>9. Sound(u) /\ SameFrame(u, v)
    BY <1>4, <1>7 DEF Sound, SameFrame
  <1>10. ASSUME NEW w \in Window(v)
         PROVE  At(u, w) = IF w \in DOMAIN picture THEN picture[w] ELSE At(v, w)
    <2>1. At(u, w) = f[Address(v, w)]
      BY <1>7, <1>8 DEF At
    <2>2. QED
      BY <1>6, <2>1, Zenon
  <1>11. QED
    BY <1>1, <1>9, <1>10

(* Painting no pixel changes nothing.                                       *)
LEMMA PaintNothing ==
  ASSUME NEW v, Sound(v), NEW picture, DOMAIN picture = {}
  PROVE  Paint(v, picture) = v
  <1>1. v \in Views
    BY DEF Sound
  <1>2. v.build = [i \in Buffer |-> v.build[i]]
    BY <1>1 DEF Views
  <1>3. Paint(v, picture) = [v EXCEPT !.build = [i \in Buffer |-> v.build[i]], !.fence = @ /\ {} \subseteq Buffer]
    BY DEF Paint
  <1>4. v.fence \in BOOLEAN
    BY <1>1 DEF Views
  <1>5. (v.fence /\ {} \subseteq Buffer) = v.fence
    BY <1>4
  <1>6. [v EXCEPT !.build = v.build, !.fence = v.fence] = v
    BY <1>1 DEF Views
  <1>7. QED
    BY <1>2, <1>3, <1>5, <1>6

-----------------------------------------------------------------------------
(* set_view_window.                                                         *)

(* The order of the loops is the one in which no byte is read after it was  *)
(* written.                                                                 *)
LEMMA CopiedIs ==
  ASSUME NEW v, NEW source \in Int, NEW target \in Int, NEW length \in Int
  PROVE  Copied(v, source, target, length) = [i \in 0 .. (length - 1) |-> Byte(v, source + i)]
  <1> DEFINE D == 0 .. (length - 1)
             h == [i \in D |-> Byte(v, source + i)]
             TurnUp(g, i) == LET j == source + i - target
                          IN  IF j >= 0 /\ j < i THEN g[j] ELSE Byte(v, source + i)
             TurnDown(g, i) == LET j == source + i - target
                            IN  IF j > i /\ j < length THEN g[j] ELSE Byte(v, source + i)
             Ascending == CHOOSE g : g = [i \in D |-> TurnUp(g, i)]
             Descending == CHOOSE g : g = [i \in D |-> TurnDown(g, i)]
  <1>1. Copied(v, source, target, length)
           = IF CopiesDown(source, target) THEN Descending ELSE Ascending
    BY DEF Copied
  <1>2. ASSUME CopiesDown(source, target) PROVE Descending = h
    <2>1. \A g, i : i \in D => TurnDown(g, i) = Byte(v, source + i)
      <3>1. \A i \in D : ~(source + i - target > i)
        BY <1>2 DEF CopiesDown
      <3>2. QED
        BY <3>1
    <2> HIDE DEF TurnDown
    <2>2. \A g : [i \in D |-> TurnDown(g, i)] = h
      BY <2>1
    <2> HIDE DEF h
    <2>3. \E g : g = [i \in D |-> TurnDown(g, i)]
      BY <2>2
    <2>4. Descending = [i \in D |-> TurnDown(Descending, i)]
      BY <2>3
    <2>5. QED
      BY <2>2, <2>4
  <1>3. ASSUME ~CopiesDown(source, target) PROVE Ascending = h
    <2>1. \A g, i : i \in D => TurnUp(g, i) = Byte(v, source + i)
      <3>1. \A i \in D : ~(source + i - target < i)
        BY <1>3 DEF CopiesDown
      <3>2. QED
        BY <3>1
    <2> HIDE DEF TurnUp
    <2>2. \A g : [i \in D |-> TurnUp(g, i)] = h
      BY <2>1
    <2> HIDE DEF h
    <2>3. \E g : g = [i \in D |-> TurnUp(g, i)]
      BY <2>2
    <2>4. Ascending = [i \in D |-> TurnUp(Ascending, i)]
      BY <2>3
    <2>5. QED
      BY <2>2, <2>4
  <1> HIDE DEF Ascending, Descending
  <1>4. QED
    BY <1>1, <1>2, <1>3

(* Where a pixel is, from the offset on.                                    *)
Rel(w) == (w[1] \div 4) + (w[2] * SCROLL_X_WIDTH) + ((3 - (w[1] % 4)) * SCROLL_SIZE)

(* The address is the offset and the rest.                                  *)
LEMMA RelIs ==
  ASSUME NEW w \in Nat \X Nat, NEW off \in Int
  PROVE  Rel(w) \in Int /\ AddressIn(off, w) = off + Rel(w)
  <1> DEFINE a == w[1] \div 4
             b == w[2] * SCROLL_X_WIDTH
             c == (3 - (w[1] % 4)) * SCROLL_SIZE
  <1>1. w[1] \in Nat /\ w[2] \in Nat
    OBVIOUS
  <1>2. a \in Int /\ b \in Int /\ c \in Int
    <2>1. a \in Int /\ 3 - (w[1] % 4) \in Int
      BY <1>1
    <2>2. SCROLL_X_WIDTH \in Int /\ SCROLL_SIZE \in Int
      BY Sizes
    <2>3. \A i, j \in Int : i * j \in Int
      OBVIOUS
    <2>4. QED
      BY <1>1, <2>1, <2>2, <2>3
  <1>3. Rel(w) = a + b + c /\ AddressIn(off, w) = off + a + b + c
    BY DEF Rel, AddressIn
  <1> HIDE DEF a, b, c
  <1>4. QED
    BY <1>2, <1>3

(* The bytes from the first pixel of a rectangle in plane 3 to its last in  *)
(* plane 0 hold all of it.                                                  *)
LEMMA RelBetween ==
  ASSUME NEW a \in Nat, NEW b \in Nat, NEW c \in Nat, NEW d \in Nat,
         NEW w \in Nat \X Nat, a <= w[1], w[1] <= c, b <= w[2], w[2] <= d
  PROVE  /\ (a \div 4) + (b * SCROLL_X_WIDTH) <= Rel(w)
         /\ Rel(w) <= (c \div 4) + (d * SCROLL_X_WIDTH) + 3 * SCROLL_SIZE
  <1> DEFINE p == w[1]
             q == w[2]
             P == (3 - (p % 4)) * SCROLL_SIZE
             W == SCROLL_X_WIDTH
  <1>1. p \in Nat /\ q \in Nat /\ W \in Nat
    BY Sizes
  <1>2. a \div 4 <= p \div 4 /\ p \div 4 <= c \div 4 /\ a \div 4 \in Int /\ p \div 4 \in Int /\ c \div 4 \in Int
    OBVIOUS
  <1>3. P \in Int /\ 0 <= P /\ P <= 3 * SCROLL_SIZE
    <2>1. 3 - (p % 4) \in 0 .. 3
      OBVIOUS
    <2>2. QED
      BY <2>1, UpToThree, Sizes
  <1>4. W * b <= W * q /\ W * q <= W * d
    BY <1>1, TimesMonotone
  <1>5. b * W = W * b /\ q * W = W * q /\ d * W = W * d /\ W * b \in Int /\ W * q \in Int /\ W * d \in Int
    BY <1>1
  <1>6. Rel(w) = (p \div 4) + q * W + P
    BY DEF Rel
  <1> DEFINE A == a \div 4
             M == p \div 4
             C == c \div 4
             bw == b * W
             qw == q * W
             dw == d * W
             S == SCROLL_SIZE
  <1>7. /\ A \in Int /\ M \in Int /\ C \in Int /\ A <= M /\ M <= C
        /\ bw \in Int /\ qw \in Int /\ dw \in Int /\ bw <= qw /\ qw <= dw
        /\ S \in Nat /\ P <= 3 * S /\ Rel(w) = M + qw + P
    BY <1>1, <1>2, <1>3, <1>4, <1>5, <1>6, Sizes
  <1>8. A + bw <= M + qw + P /\ M + qw + P <= C + dw + 3 * S
    <2> HIDE DEF A, M, C, bw, qw, dw, S, P
    <2>1. QED
      BY <1>3, <1>7
  <1>9. QED
    BY <1>7, <1>8

(* WindowIs for a pixel that the window has.                                *)
LEMMA InWindow ==
  ASSUME NEW v, v \in Views, NEW w \in Window(v)
  PROVE  /\ w \in Nat \X Nat /\ w[1] \in Nat /\ w[2] \in Nat /\ w = <<w[1], w[2]>>
         /\ v.x <= w[1] /\ w[1] < v.x + SCROLL_X_DIM
         /\ v.y <= w[2] /\ w[2] < v.y + SCROLL_Y_DIM
  <1>1. /\ w \in Nat \X Nat
        /\ v.x <= w[1] /\ w[1] < v.x + SCROLL_X_DIM
        /\ v.y <= w[2] /\ w[2] < v.y + SCROLL_Y_DIM
    BY WindowIs
  <1>2. QED
    BY <1>1

(* The part of two overlapping stretches of n that both have.               *)
LEMMA SharedStretch ==
  ASSUME NEW a \in Nat, NEW b \in Nat, NEW n \in Nat, a > b - n, a < b + n
  PROVE  /\ Larger(a, b) \in Nat /\ Smaller(a, b) + n - 1 \in Nat
         /\ a <= Larger(a, b) /\ Smaller(a, b) + n - 1 <= a + n - 1
         /\ \A i \in Nat : b <= i /\ a <= i => Larger(a, b) <= i
         /\ \A i \in Nat : i < b + n /\ i < a + n => i <= Smaller(a, b) + n - 1
  BY DEF Larger, Smaller

(* A byte never written is a pixel.                                         *)
LEMMA UnsetIsPixel == Unset \in Pixel
  BY DEF Pixel

(* The view moves, and what both windows show stays.                        *)
LEMMA SetViewIs ==
  ASSUME NEW v, Sound(v), NEW x \in Nat, NEW y \in Nat, NEW u, u = set_view_window(v, x, y)
  PROVE  /\ Sound(u) /\ u.x = x /\ u.y = y
         /\ \A w \in Window(v) \cap Window(u) : At(u, w) = At(v, w)
  <1> DEFINE moved == [v EXCEPT !.x = x, !.y = y]
             off == BUILD_BASE_INIT - (x \div 4) - (y * SCROLL_X_WIDTH)
             start_x == Larger(x, v.x)
             start_y == Larger(y, v.y)
             end_x == Smaller(x, v.x) + SCROLL_X_DIM - 1
             end_y == Smaller(y, v.y) + SCROLL_Y_DIM - 1
             start_off == (start_x \div 4) + (start_y * SCROLL_X_WIDTH)
             length == (end_x \div 4) + (end_y * SCROLL_X_WIDTH) + 1 - start_off + (3 * SCROLL_SIZE)
             target == off + start_off
             copy == Copied(v, v.off + start_off, target, length)
             f == [i \in Buffer |-> IF i - target \in 0 .. (length - 1)
                                       THEN copy[i - target] ELSE v.build[i]]
             safe == target >= 0 /\ target + length <= BUILD_BUF_SIZE
  <1>1. /\ v \in Views /\ v.build \in [Buffer -> Pixel] /\ v.fence \in BOOLEAN /\ v.fence
        /\ v.x \in Nat /\ v.y \in Nat /\ v.off \in Int /\ Fits(v.off, v.x, v.y)
    BY DEF Sound, Views
  <1>2. u = IF Fits(v.off, x, y) THEN moved
            ELSE IF ~Overlaps(v, x, y) THEN [moved EXCEPT !.off = off]
            ELSE [moved EXCEPT !.off = off, !.build = f, !.fence = @ /\ safe]
    BY DEF set_view_window
  <1>3. off \in Int /\ Fits(off, x, y) /\ Base(off, x, y) = BUILD_BASE_INIT
    BY Recentred
  <1>4. CASE Fits(v.off, x, y)
    <2>1. u = moved
      BY <1>2, <1>4
    <2>2. u \in Views /\ u.fence /\ u.x = x /\ u.y = y /\ u.off = v.off /\ u.build = v.build
      BY <1>1, <2>1 DEF Views
    <2>3. QED
      BY <1>4, <2>2 DEF Sound, At, Address
  <1>5. CASE ~Fits(v.off, x, y) /\ ~Overlaps(v, x, y)
    <2> HIDE DEF off
    <2>1. u = [moved EXCEPT !.off = off]
      BY <1>2, <1>5
    <2>2. u \in Views /\ u.fence /\ u.x = x /\ u.y = y /\ u.off = off
      BY <1>1, <1>3, <2>1 DEF Views
    <2>3. ASSUME NEW w \in Window(v), w \in Window(u) PROVE FALSE
      <3>1. /\ w[1] \in Int /\ w[2] \in Int
            /\ v.x <= w[1] /\ w[1] < v.x + SCROLL_X_DIM
            /\ v.y <= w[2] /\ w[2] < v.y + SCROLL_Y_DIM
            /\ x <= w[1] /\ w[1] < x + SCROLL_X_DIM
            /\ y <= w[2] /\ w[2] < y + SCROLL_Y_DIM
        BY <1>1, <2>2, <2>3, InWindow
      <3>2. x > v.x - SCROLL_X_DIM /\ x < v.x + SCROLL_X_DIM
        BY <1>1, <3>1, WindowSizes, Near
      <3>3. y > v.y - SCROLL_Y_DIM /\ y < v.y + SCROLL_Y_DIM
        BY <1>1, <3>1, WindowSizes, Near
      <3>4. QED
        BY <1>5, <3>2, <3>3 DEF Overlaps
    <2>4. QED
      BY <1>3, <2>2, <2>3 DEF Sound
  <1>6. CASE ~Fits(v.off, x, y) /\ Overlaps(v, x, y)
    <2>1. /\ start_x \in Nat /\ start_y \in Nat /\ end_x \in Nat /\ end_y \in Nat
          /\ x <= start_x /\ y <= start_y
          /\ end_x <= x + SCROLL_X_DIM - 1 /\ end_y <= y + SCROLL_Y_DIM - 1
          /\ \A i \in Nat : v.x <= i /\ x <= i => start_x <= i
          /\ \A i \in Nat : v.y <= i /\ y <= i => start_y <= i
          /\ \A i \in Nat : i < v.x + SCROLL_X_DIM /\ i < x + SCROLL_X_DIM => i <= end_x
          /\ \A i \in Nat : i < v.y + SCROLL_Y_DIM /\ i < y + SCROLL_Y_DIM => i <= end_y
      <3>1. /\ x > v.x - SCROLL_X_DIM /\ x < v.x + SCROLL_X_DIM
            /\ y > v.y - SCROLL_Y_DIM /\ y < v.y + SCROLL_Y_DIM
        BY <1>6 DEF Overlaps
      <3>2. /\ start_x \in Nat /\ end_x \in Nat /\ x <= start_x /\ end_x <= x + SCROLL_X_DIM - 1
            /\ \A i \in Nat : v.x <= i /\ x <= i => start_x <= i
            /\ \A i \in Nat : i < v.x + SCROLL_X_DIM /\ i < x + SCROLL_X_DIM => i <= end_x
        <4> DEFINE a == v.x
                   n == SCROLL_X_DIM
        <4>1. a \in Nat /\ n \in Nat /\ x > a - n /\ x < a + n
          BY <1>1, <3>1, Sizes
        <4> HIDE DEF a, n
        <4>2. /\ Larger(x, a) \in Nat /\ Smaller(x, a) + n - 1 \in Nat
              /\ x <= Larger(x, a) /\ Smaller(x, a) + n - 1 <= x + n - 1
              /\ \A i \in Nat : a <= i /\ x <= i => Larger(x, a) <= i
              /\ \A i \in Nat : i < a + n /\ i < x + n => i <= Smaller(x, a) + n - 1
          BY <4>1, SharedStretch
        <4>3. QED
          BY <4>2 DEF a, n
      <3>3. /\ start_y \in Nat /\ end_y \in Nat /\ y <= start_y /\ end_y <= y + SCROLL_Y_DIM - 1
            /\ \A i \in Nat : v.y <= i /\ y <= i => start_y <= i
            /\ \A i \in Nat : i < v.y + SCROLL_Y_DIM /\ i < y + SCROLL_Y_DIM => i <= end_y
        <4> DEFINE a == v.y
                   n == SCROLL_Y_DIM
        <4>1. a \in Nat /\ n \in Nat /\ y > a - n /\ y < a + n
          BY <1>1, <3>1, Sizes
        <4> HIDE DEF a, n
        <4>2. /\ Larger(y, a) \in Nat /\ Smaller(y, a) + n - 1 \in Nat
              /\ y <= Larger(y, a) /\ Smaller(y, a) + n - 1 <= y + n - 1
              /\ \A i \in Nat : a <= i /\ y <= i => Larger(y, a) <= i
              /\ \A i \in Nat : i < a + n /\ i < y + n => i <= Smaller(y, a) + n - 1
          BY <4>1, SharedStretch
        <4>3. QED
          BY <4>2 DEF a, n
      <3> HIDE DEF start_x, start_y, end_x, end_y
      <3>4. QED
        BY <3>2, <3>3
    <2> HIDE DEF start_x, start_y, end_x, end_y
    <2> DEFINE last == (end_x \div 4) + (end_y * SCROLL_X_WIDTH)
               first == (x \div 4) + (y * SCROLL_X_WIDTH)
               final == ((x + SCROLL_X_DIM - 1) \div 4) + ((y + SCROLL_Y_DIM - 1) * SCROLL_X_WIDTH)
    <2>2. start_off \in Int /\ last \in Int /\ first \in Int /\ final \in Int
      BY <2>1, Sizes
    <2>3. first <= start_off /\ last <= final
      <3>1. /\ x \div 4 <= start_x \div 4 /\ end_x \div 4 <= (x + SCROLL_X_DIM - 1) \div 4
            /\ x \div 4 \in Int /\ start_x \div 4 \in Int
            /\ end_x \div 4 \in Int /\ (x + SCROLL_X_DIM - 1) \div 4 \in Int
        BY <2>1, Sizes
      <3> DEFINE W == SCROLL_X_WIDTH
                 e == y + SCROLL_Y_DIM - 1
      <3>2. W \in Nat /\ e \in Int /\ end_y <= e
        BY <2>1, Sizes
      <3> HIDE DEF e
      <3>3. W * y <= W * start_y /\ W * end_y <= W * e
        BY <2>1, <3>2, TimesMonotone
      <3>4. /\ y * W = W * y /\ start_y * W = W * start_y /\ end_y * W = W * end_y /\ e * W = W * e
            /\ W * y \in Int /\ W * start_y \in Int /\ W * end_y \in Int /\ W * e \in Int
        BY <2>1, <3>2
      <3>5. (x \div 4) + (y * W) <= (start_x \div 4) + (start_y * W)
        BY <3>1, <3>3, <3>4
      <3>6. (end_x \div 4) + (end_y * W) <= ((x + SCROLL_X_DIM - 1) \div 4) + (e * W)
        BY <3>1, <3>3, <3>4
      <3>7. QED
        BY <3>5, <3>6 DEF e
    <2>4. off + first = BUILD_BASE_INIT /\ off + 3 * SCROLL_SIZE + final < BUILD_BUF_SIZE
      <3>1. x \div 4 \in Int /\ y * SCROLL_X_WIDTH \in Int
        BY Sizes
      <3>2. off + 3 * SCROLL_SIZE + ((x + SCROLL_X_DIM - 1) \div 4)
               + ((y + SCROLL_Y_DIM - 1) * SCROLL_X_WIDTH) < BUILD_BUF_SIZE
        BY <1>3 DEF Fits
      <3>3. /\ (x + SCROLL_X_DIM - 1) \div 4 \in Int
            /\ (y + SCROLL_Y_DIM - 1) * SCROLL_X_WIDTH \in Int
        BY Sizes
      <3>4. off + first = BUILD_BASE_INIT
        BY <3>1, Sizes
      <3> DEFINE A == (x + SCROLL_X_DIM - 1) \div 4
                 B == (y + SCROLL_Y_DIM - 1) * SCROLL_X_WIDTH
      <3>5. final = A + B
        OBVIOUS
      <3>6. off + 3 * SCROLL_SIZE \in Int
        BY <1>3, Sizes
      <3> HIDE DEF off, first, final
      <3>7. off + 3 * SCROLL_SIZE + final = off + 3 * SCROLL_SIZE + A + B
        <4> DEFINE o == off + 3 * SCROLL_SIZE
        <4>1. A \in Int /\ B \in Int /\ o \in Int
          BY <3>3, <3>6
        <4> HIDE DEF A, B, o
        <4>2. o + final = o + A + B
          BY <3>5, <4>1
        <4>3. QED
          BY <4>2 DEF o
      <3>8. QED
        BY <3>2, <3>4, <3>7
    <2>5. length = last + 1 - start_off + 3 * SCROLL_SIZE
      OBVIOUS
    <2> HIDE DEF off, start_off, last, first, final, length
    <2>6. target \in Int /\ length \in Int /\ safe
      <3> DEFINE z == 3 * SCROLL_SIZE
      <3>1. z \in Int /\ off \in Int /\ BUILD_BASE_INIT >= 0 /\ BUILD_BASE_INIT \in Int
            /\ BUILD_BUF_SIZE \in Int
        BY <1>3, Sizes
      <3>2. off + first = BUILD_BASE_INIT /\ off + z + final < BUILD_BUF_SIZE
            /\ length = last + 1 - start_off + z /\ target = off + start_off
        BY <2>4, <2>5
      <3> HIDE DEF z, target
      <3>3. target \in Int /\ length \in Int
        BY <2>2, <3>1, <3>2
      <3>4. target >= 0
        BY <2>2, <2>3, <3>1, <3>2
      <3>5. target + length <= BUILD_BUF_SIZE
        BY <2>2, <2>3, <3>1, <3>2
      <3>6. QED
        BY <3>3, <3>4, <3>5
    <2> DEFINE source == v.off + start_off
    <2>7. source \in Int /\ copy = [i \in 0 .. (length - 1) |-> Byte(v, source + i)]
      <3>1. source \in Int
        BY <1>1, <2>2
      <3>2. copy = Copied(v, source, target, length)
        OBVIOUS
      <3> HIDE DEF copy, source, target
      <3>3. QED
        BY <2>6, <3>1, <3>2, CopiedIs
    <2> HIDE DEF copy, target
    <2>8. \A i : Byte(v, i) \in Pixel
      BY <1>1, UnsetIsPixel DEF Byte
    <2>9. f \in [Buffer -> Pixel]
      BY <1>1, <2>6, <2>7, <2>8
    <2>10. u = [moved EXCEPT !.off = off, !.build = f, !.fence = @ /\ safe]
      BY <1>2, <1>6
    <2> HIDE DEF f, safe
    <2>11. u \in Views /\ u.fence /\ u.x = x /\ u.y = y /\ u.off = off /\ u.build = f
      BY <1>1, <1>3, <2>6, <2>9, <2>10 DEF Views
    <2>12. Sound(u)
      BY <1>3, <2>11 DEF Sound
    <2>13. ASSUME NEW w \in Window(v), w \in Window(u) PROVE At(u, w) = At(v, w)
      <3>1. /\ w \in Nat \X Nat /\ w[1] \in Nat /\ w[2] \in Nat
            /\ v.x <= w[1] /\ w[1] < v.x + SCROLL_X_DIM
            /\ v.y <= w[2] /\ w[2] < v.y + SCROLL_Y_DIM
            /\ x <= w[1] /\ w[1] < x + SCROLL_X_DIM
            /\ y <= w[2] /\ w[2] < y + SCROLL_Y_DIM
        BY <1>1, <2>11, <2>13, InWindow
      <3>2. start_x <= w[1] /\ w[1] <= end_x /\ start_y <= w[2] /\ w[2] <= end_y
        BY <2>1, <3>1
      <3>3. start_off <= Rel(w) /\ Rel(w) <= last + 3 * SCROLL_SIZE
        <4>1. /\ start_x \in Nat /\ start_y \in Nat /\ end_x \in Nat /\ end_y \in Nat
          BY <2>1
        <4>2. /\ (start_x \div 4) + (start_y * SCROLL_X_WIDTH) <= Rel(w)
              /\ Rel(w) <= (end_x \div 4) + (end_y * SCROLL_X_WIDTH) + 3 * SCROLL_SIZE
          <5> HIDE DEF start_x, start_y, end_x, end_y
          <5>1. QED
            BY <3>1, <3>2, <4>1, RelBetween
        <4>3. QED
          BY <4>2 DEF start_off, last
      <3>4. Rel(w) \in Int /\ Address(u, w) = off + Rel(w) /\ Address(v, w) = v.off + Rel(w)
        BY <1>1, <1>3, <2>11, <3>1, RelIs DEF Address
      <3> DEFINE i == Rel(w) - start_off
      <3>5. i \in 0 .. (length - 1) /\ Address(u, w) - target = i /\ source + i = Address(v, w)
        <4> DEFINE z == 3 * SCROLL_SIZE
                   R == Rel(w)
                   o == v.off
        <4>1. z \in Int /\ R \in Int /\ o \in Int /\ off \in Int
              /\ start_off \in Int /\ last \in Int
          BY <1>1, <1>3, <2>2, <3>4, Sizes
        <4>2. length = last + 1 - start_off + z /\ start_off <= R /\ R <= last + z
          BY <2>5, <3>3
        <4>3. target = off + start_off
          BY DEF target
        <4>4. Address(u, w) = off + R /\ Address(v, w) = o + R
          BY <3>4
        <4>8. i = R - start_off /\ source = o + start_off
          OBVIOUS
        <4> HIDE DEF z, R, o, i, source
        <4>5. R - start_off \in 0 .. (length - 1)
          BY <4>1, <4>2
        <4>6. off + R - (off + start_off) = R - start_off /\ o + start_off + (R - start_off) = o + R
          BY <4>1
        <4>7. i \in 0 .. (length - 1)
          BY <4>5, <4>8
        <4>9. Address(u, w) - target = i
          BY <4>1, <4>3, <4>4, <4>6, <4>8
        <4>10. source + i = Address(v, w)
          BY <4>1, <4>4, <4>6, <4>8
        <4>11. QED
          BY <4>7, <4>9, <4>10
      <3> HIDE DEF i, source
      <3>6. Address(u, w) \in Buffer
        BY <2>12, <2>13, WindowInBuffer
      <3>7. f[Address(u, w)] = copy[i]
        BY <3>5, <3>6 DEF f
      <3>8. copy[i] = Byte(v, Address(v, w))
        BY <2>7, <3>5
      <3>9. QED
        BY <2>11, <3>7, <3>8, ByteAt DEF At
    <2>14. QED
      BY <2>11, <2>12, <2>13
  <1>7. QED
    BY <1>4, <1>5, <1>6

-----------------------------------------------------------------------------
(* The maze, and what the blocks show of it.                                *)

Lim(n) == (2 * n + 1) * BLOCK - SHOW_MIN
Lattice(l) == (0 .. 2 * l.x_dim) \X (0 .. 2 * l.y_dim)
Inner(l) == (1 .. 2 * l.x_dim - 1) \X (1 .. 2 * l.y_dim - 1)
Cell(l, q) == MAZE_INDEX(l.x_dim, q[1], q[2])
Cells(l) == CellsOf(l.x_dim, l.y_dim)
Boards(l) == [Cells(l) -> SUBSET Bits]

(* What is assumed of the blocks and of the view, in the form the proofs    *)
(* use.                                                                     *)
LEMMA BlockSizes ==
  /\ BLOCK \in Nat \ {0} /\ BLOCK \in Nat /\ BLOCK >= 1
  /\ SHOW_MIN \in Nat /\ SHOW_MIN <= BLOCK
  /\ BLOCK * PAN_BORDER \in Nat /\ BLOCK * PAN_BORDER >= BLOCK
  /\ BLOCK * (PAN_BORDER + 1) = BLOCK * PAN_BORDER + BLOCK
  /\ SCROLL_X_DIM >= 2 * (BLOCK * PAN_BORDER) + BLOCK
  /\ SCROLL_Y_DIM >= 2 * (BLOCK * PAN_BORDER) + BLOCK
  <1>1. BLOCK \in Nat \ {0} /\ PAN_BORDER \in Nat /\ PAN_BORDER >= 1
    BY DisplayAssumption, ViewAssumption
  <1>2. BLOCK * 1 <= BLOCK * PAN_BORDER
    BY <1>1, TimesMonotone
  <1>3. BLOCK * (2 * PAN_BORDER + 1) = 2 * (BLOCK * PAN_BORDER) + BLOCK
    BY <1>1
  <1>4. QED
    BY <1>1, <1>2, <1>3, ViewAssumption

(* The smallest maze fills the window.                                      *)
LEMMA LongEnough ==
  ASSUME NEW n \in Nat, NEW s \in Nat, s >= BLOCK + 2 * BLOCK,
         n >= (s + BLOCK - 1 + 2 * SHOW_MIN) \div (2 * BLOCK)
  PROVE  n >= 1 /\ Lim(n) \in Int /\ SHOW_MIN + s <= Lim(n)
  <1> DEFINE a == s + BLOCK - 1 + 2 * SHOW_MIN
             b == 2 * BLOCK
             q == a \div b
             t == b * q
             nB == b * n
  <1>1. b \in Nat \ {0} /\ a \in Int
    BY BlockSizes
  <1>2. a = t + (a % b) /\ a % b \in 0 .. (b - 1) /\ q \in Int /\ t \in Int
    <2> HIDE DEF a, b
    <2>1. QED
      BY <1>1, Parts
  <1>3. n >= q
    OBVIOUS
  <1>4. t <= nB /\ nB \in Int
    <2> HIDE DEF q, b
    <2>1. QED
      BY <1>1, <1>2, <1>3, TimesMonotone
  <1>5. Lim(n) = nB + BLOCK - SHOW_MIN
    BY BlockSizes DEF Lim
  <1>6. n # 0
    <2>1. nB = 0 => FALSE
      <3> HIDE DEF t, nB
      <3>1. QED
        BY <1>1, <1>2, <1>4, BlockSizes
    <2>2. QED
      BY <2>1, BlockSizes
  <1> HIDE DEF t, nB
  <1>7. QED
    BY <1>2, <1>4, <1>5, <1>6, BlockSizes

(* What is assumed of a maze.                                               *)
LEMMA MazeIs ==
  ASSUME NEW l \in Mazes
  PROVE  /\ l.x_dim \in Nat /\ l.x_dim >= 1 /\ l.y_dim \in Nat /\ l.y_dim >= 1
         /\ Lim(l.x_dim) \in Int /\ SHOW_MIN + SCROLL_X_DIM <= Lim(l.x_dim)
         /\ Lim(l.y_dim) \in Int /\ SHOW_MIN + SCROLL_Y_DIM <= Lim(l.y_dim)
         /\ SCROLL_X_DIM <= BLOCK * (2 * l.x_dim - 1)
         /\ l.open \subseteq Inner(l) /\ <<1, 1>> \in l.open
         /\ l.exit \in l.open /\ l.fruits \subseteq l.open
         /\ Inner(l) \subseteq Lattice(l)
  <1>1. /\ l.x_dim \in Nat /\ l.x_dim >= (SCROLL_X_DIM + BLOCK - 1 + 2 * SHOW_MIN) \div (2 * BLOCK)
        /\ l.y_dim \in Nat /\ l.y_dim >= (SCROLL_Y_DIM + BLOCK - 1 + 2 * SHOW_MIN) \div (2 * BLOCK)
        /\ SCROLL_X_DIM <= BLOCK * (2 * l.x_dim - 1)
        /\ l.open \subseteq (1 .. 2 * l.x_dim - 1) \X (1 .. 2 * l.y_dim - 1)
        /\ <<1, 1>> \in l.open /\ l.exit \in l.open /\ l.fruits \subseteq l.open
    BY MazesAssumption
  <1>2. SCROLL_X_DIM \in Nat /\ SCROLL_X_DIM >= BLOCK + 2 * BLOCK
    BY BlockSizes, Sizes
  <1>3. SCROLL_Y_DIM \in Nat /\ SCROLL_Y_DIM >= BLOCK + 2 * BLOCK
    BY BlockSizes, Sizes
  <1>4. l.x_dim >= 1 /\ Lim(l.x_dim) \in Int /\ SHOW_MIN + SCROLL_X_DIM <= Lim(l.x_dim)
    BY <1>1, <1>2, LongEnough
  <1>5. l.y_dim >= 1 /\ Lim(l.y_dim) \in Int /\ SHOW_MIN + SCROLL_Y_DIM <= Lim(l.y_dim)
    BY <1>1, <1>3, LongEnough
  <1>6. Inner(l) \subseteq Lattice(l)
    BY <1>1 DEF Inner, Lattice
  <1>7. QED
    BY <1>1, <1>4, <1>5, <1>6 DEF Inner

(* MAZE_INDEX in the form the proofs use.                                   *)
LEMMA CellIs ==
  ASSUME NEW l \in Mazes, NEW i \in Int, NEW j \in Int
  PROVE  Cell(l, <<i, j>>) = i + 2 * l.x_dim * (j + 1) /\ Cell(l, <<i, j>>) \in Int
  <1>1. l.x_dim \in Nat
    BY MazeIs
  <1>2. QED
    BY <1>1 DEF Cell, MAZE_INDEX

(* Whatever find_block looks at lies in the array.                          *)
LEMMA CellInArray ==
  ASSUME NEW l \in Mazes, NEW q \in Int \X Int,
         \/ q \in (-1 .. 2 * l.x_dim + 1) \X (0 .. 2 * l.y_dim)
         \/ q \in (0 .. 2 * l.x_dim) \X (-1 .. 2 * l.y_dim + 1)
  PROVE  Cell(l, q) \in Cells(l)
  <1> DEFINE W == 2 * l.x_dim
             h == 2 * l.y_dim
             i == q[1]
             j == q[2]
  <1>1. W \in Nat /\ W >= 2 /\ h \in Nat /\ i \in Int /\ j \in Int /\ q = <<i, j>>
    BY MazeIs
  <1>2. Cell(l, q) = i + W * (j + 1)
    BY <1>1, CellIs
  <1>3. Cells(l) = 0 .. (W * (h + 3))
    BY DEF Cells, CellsOf
  <1>4. \/ i \in -1 .. W + 1 /\ j \in 0 .. h
        \/ i \in 0 .. W /\ j \in -1 .. h + 1
    BY <1>1
  <1> HIDE DEF W, h, i, j
  <1>5. /\ W * (h + 3) = W * (h + 1) + W + W /\ W * (h + 2) = W * (h + 1) + W
        /\ W * 1 = W /\ W * 0 = 0 /\ W * (h + 1) \in Int /\ W * (j + 1) \in Int /\ W * (h + 3) \in Int
    BY <1>1
  <1>6. CASE i \in -1 .. W + 1 /\ j \in 0 .. h
    <2>1. W * 1 <= W * (j + 1) /\ W * (j + 1) <= W * (h + 1)
      BY <1>1, <1>6, TimesMonotone
    <2> DEFINE a == W * (j + 1)
               b == W * (h + 1)
    <2> HIDE DEF a, b
    <2>2. i + a >= 0 /\ i + a <= b + W + W /\ i + a \in Int
      BY <1>1, <1>5, <1>6, <2>1 DEF a, b
    <2>3. QED
      BY <1>2, <1>3, <1>5, <2>2 DEF a, b
  <1>7. CASE i \in 0 .. W /\ j \in -1 .. h + 1
    <2>1. W * 0 <= W * (j + 1) /\ W * (j + 1) <= W * (h + 2)
      BY <1>1, <1>7, TimesMonotone
    <2> DEFINE a == W * (j + 1)
               b == W * (h + 1)
    <2> HIDE DEF a, b
    <2>2. i + a >= 0 /\ i + a <= b + W + W /\ i + a \in Int
      BY <1>1, <1>5, <1>7, <2>1 DEF a, b
    <2>3. QED
      BY <1>2, <1>3, <1>5, <2>2 DEF a, b
  <1>8. QED
    BY <1>4, <1>6, <1>7

(* Two points with one cell are one point, or lie on the left and on the    *)
(* right boundary.                                                          *)
LEMMA CellShared ==
  ASSUME NEW l \in Mazes, NEW p \in Lattice(l), NEW q \in Lattice(l), Cell(l, p) = Cell(l, q)
  PROVE  p = q \/ (p[1] = 0 /\ q[1] = 2 * l.x_dim) \/ (p[1] = 2 * l.x_dim /\ q[1] = 0)
  <1> DEFINE W == 2 * l.x_dim
             a == p[1]
             b == q[1]
             i == p[2]
             j == q[2]
  <1>1. W \in Nat /\ a \in 0 .. W /\ b \in 0 .. W /\ i \in Int /\ j \in Int /\ p = <<a, i>> /\ q = <<b, j>>
    BY MazeIs DEF Lattice
  <1>2. a + W * (i + 1) = b + W * (j + 1)
    BY <1>1, CellIs
  <1> HIDE DEF W, a, b, i, j
  <1>3. W * (i - j) = b - a
    <2>1. W * (i + 1) = W * i + W /\ W * (j + 1) = W * j + W /\ W * (i - j) = W * i - W * j
          /\ W * i \in Int /\ W * j \in Int
      BY <1>1
    <2>2. QED
      BY <1>1, <1>2, <2>1
  <1>4. CASE b - a = W \/ b - a = -W
    BY <1>1, <1>4 DEF a, b, W
  <1>5. CASE -W < b - a /\ b - a < W
    <2>1. i - j = 0
      BY <1>1, <1>3, <1>5, SameRow
    <2>2. i = j /\ a = b
      BY <1>1, <1>3, <2>1
    <2>3. QED
      BY <1>1, <2>2
  <1>6. QED
    BY <1>1, <1>4, <1>5

(* An inner point has its cell for itself.                                  *)
LEMMA CellUnique ==
  ASSUME NEW l \in Mazes, NEW p \in Inner(l), NEW q \in Lattice(l), Cell(l, p) = Cell(l, q)
  PROVE  p = q
  <1>1. p \in Lattice(l) /\ p[1] # 0 /\ p[1] # 2 * l.x_dim
    BY MazeIs DEF Inner
  <1>2. QED
    BY <1>1, CellShared

(* The image of a block by the bits of its cell.                            *)
Kinds == {<<i>> : i \in {"exit", "fruit", "fruit shadow", "shadow", "empty"}}
           \cup {<<"wall", D>> : D \in SUBSET Dirs}
Kind(found, bits, walls) ==
  IF found THEN <<"exit">>
  ELSE IF "reach" \notin bits
         THEN IF "fruit" \in bits THEN <<"fruit shadow">> ELSE <<"shadow">>
       ELSE IF "fruit" \in bits THEN <<"fruit">>
       ELSE IF "wall" \notin bits THEN <<"empty">>
       ELSE <<"wall", walls>>
WallsAround(l, m, q) == {d \in Dirs : "wall" \in m[Cell(l, Toward(q, d, 1))]}

(* find_block looks at the bits of the cell and at the walls around it.     *)
LEMMA FindBlockIs ==
  ASSUME NEW l, NEW m, NEW n, NEW q
  PROVE  find_block(m, l.x_dim, n, q)
            = Kind(n = 0 /\ "exit" \in m[Cell(l, q)], m[Cell(l, q)], WallsAround(l, m, q))
  <1>1. CASE n = 0 /\ "exit" \in m[Cell(l, q)]
    BY <1>1 DEF find_block, Kind, WallsAround, Cell
  <1>2. CASE ~(n = 0 /\ "exit" \in m[Cell(l, q)]) /\ "reach" \notin m[Cell(l, q)]
    BY <1>2 DEF find_block, Kind, WallsAround, Cell
  <1>3. CASE ~(n = 0 /\ "exit" \in m[Cell(l, q)]) /\ ~("reach" \notin m[Cell(l, q)])
    BY <1>3 DEF find_block, Kind, WallsAround, Cell
  <1>4. QED
    BY <1>1, <1>2, <1>3

(* Every outcome of find_block is a kind of block.                          *)
LEMMA KindIs ==
  ASSUME NEW found, NEW bits, NEW walls \in SUBSET Dirs
  PROVE  Kind(found, bits, walls) \in Kinds
  BY DEF Kind, Kinds

(* The pixels of the blocks are among those of the display.                 *)
LEMMA PixelsOfBlocks ==
  \A e \in {<<b, s[1], s[2]>> : b \in Kinds, s \in Sprite} : e \in Pixel
  <1> DEFINE U == {Unset} \cup {<<<<"player">>, s[1], s[2]>> : s \in Sprite}
             T == {<<b, s[1], s[2]>> : b \in Kinds, s \in Sprite}
  <1>1. Pixel = U \cup T
    BY DEF Pixel, Kinds
  <1> HIDE DEF U, T
  <1>2. \A e \in T : e \in Pixel
    BY <1>1
  <1>3. QED
    BY <1>2 DEF T

(* What is drawn of a maze are pixels.                                      *)
LEMMA ImageIs ==
  ASSUME NEW l, NEW m, NEW n, NEW w \in Int \X Int
  PROVE  Image(l, m, n, w) \in Pixel
  <1>1. find_block(m, l.x_dim, n, BlockOf(w)) \in Kinds
    <2> DEFINE q == BlockOf(w)
               D == WallsAround(l, m, q)
               found == n = 0 /\ "exit" \in m[Cell(l, q)]
    <2>1. D \in SUBSET Dirs
      BY DEF WallsAround
    <2>2. find_block(m, l.x_dim, n, q) = Kind(found, m[Cell(l, q)], D)
      BY FindBlockIs
    <2> HIDE DEF D, found
    <2>3. Kind(found, m[Cell(l, q)], D) \in Kinds
      BY <2>1, KindIs
    <2>4. QED
      BY <2>2, <2>3
  <1>2. w[1] % BLOCK \in 0 .. (BLOCK - 1) /\ w[2] % BLOCK \in 0 .. (BLOCK - 1)
    BY BlockSizes, Parts
  <1>3. \A b \in Kinds, c, r \in 0 .. (BLOCK - 1) : <<b, c, r>> \in Pixel
    <2>1. TAKE b \in Kinds, c, r \in 0 .. (BLOCK - 1)
    <2>2. <<c, r>> \in Sprite /\ <<c, r>>[1] = c /\ <<c, r>>[2] = r
      BY DEF Sprite
    <2> DEFINE s == <<c, r>>
    <2>4. s \in Sprite /\ s[1] = c /\ s[2] = r
      BY <2>2
    <2> HIDE DEF s
    <2>5. <<b, s[1], s[2]>> \in {<<e, t[1], t[2]>> : e \in Kinds, t \in Sprite}
      BY <2>4
    <2>6. QED
      BY <2>4, <2>5, PixelsOfBlocks
  <1>4. QED
    BY <1>1, <1>2, <1>3 DEF Image

(* Where the walls are the same, a block changes with the bits of its cell  *)
(* only, and with the last fruit if it is the exit.                         *)
SameWalls(l, m, k) == \A c \in Cells(l) : "wall" \in m[c] <=> "wall" \in k[c]

(* find_block never reads outside the array.                                *)
LEMMA NeighboursAreInArray ==
  ASSUME NEW l \in Mazes, NEW q \in Lattice(l), NEW d \in Dirs
  PROVE  Cell(l, Toward(q, d, 1)) \in Cells(l) /\ Cell(l, q) \in Cells(l)
  <1>1. /\ q[1] \in 0 .. 2 * l.x_dim /\ q[2] \in 0 .. 2 * l.y_dim /\ q = <<q[1], q[2]>>
        /\ l.x_dim \in Nat /\ l.y_dim \in Nat
    BY MazeIs DEF Lattice
  <1>2. Toward(q, d, 1) \in {<<q[1], q[2] - 1>>, <<q[1] + 1, q[2]>>, <<q[1], q[2] + 1>>, <<q[1] - 1, q[2]>>}
    BY DEF Toward, Dirs, Up, Down, Left, Right
  <1>3. \A p \in Int \X Int :
           (\/ p \in (-1 .. 2 * l.x_dim + 1) \X (0 .. 2 * l.y_dim)
            \/ p \in (0 .. 2 * l.x_dim) \X (-1 .. 2 * l.y_dim + 1)) => Cell(l, p) \in Cells(l)
    BY CellInArray
  <1>4. Cell(l, q) \in Cells(l)
    BY <1>1, <1>3
  <1>5. \A p \in {<<q[1], q[2] - 1>>, <<q[1] + 1, q[2]>>, <<q[1], q[2] + 1>>, <<q[1] - 1, q[2]>>} :
           /\ p \in Int \X Int
           /\ \/ p \in (-1 .. 2 * l.x_dim + 1) \X (0 .. 2 * l.y_dim)
              \/ p \in (0 .. 2 * l.x_dim) \X (-1 .. 2 * l.y_dim + 1)
    BY <1>1
  <1>6. QED
    BY <1>2, <1>3, <1>4, <1>5

(* find_block sees the same walls.                                          *)
LEMMA SameWallsAround ==
  ASSUME NEW l \in Mazes, NEW q \in Lattice(l), NEW m, NEW k, SameWalls(l, m, k)
  PROVE  WallsAround(l, m, q) = WallsAround(l, k, q)
  BY NeighboursAreInArray DEF SameWalls, WallsAround

-----------------------------------------------------------------------------
(* The maze of a level while it is played.                                  *)

FruitCells(l, m) == {c \in Cells(l) : "fruit" \in m[c]}
MazeOk(l, m, n) ==
  /\ m \in Boards(l)
  /\ SameWalls(l, m, MazeOf(l))
  /\ \A c \in Cells(l) : "exit" \in m[c] <=> c = Cell(l, l.exit)
  /\ n = Cardinality(FruitCells(l, m))
  /\ n \in 0 .. Cardinality(l.fruits)

(* The array, and the fruits in it, are finite.                             *)
LEMMA CellsAreFinite ==
  ASSUME NEW l \in Mazes
  PROVE  IsFiniteSet(Cells(l)) /\ \A m : IsFiniteSet(FruitCells(l, m))
  <1> DEFINE n == 2 * l.x_dim * (2 * l.y_dim + 3)
  <1>1. n \in Int
    BY MazeIs
  <1>2. Cells(l) = 0 .. n
    BY DEF Cells, CellsOf
  <1> HIDE DEF n
  <1>3. IsFiniteSet(Cells(l))
    BY <1>1, <1>2, FS_Interval
  <1>4. QED
    BY <1>3, FS_Subset DEF FruitCells

(* An open square has a cell of the array.                                  *)
LEMMA InnerCell ==
  ASSUME NEW l \in Mazes, NEW q \in l.open
  PROVE  q \in Inner(l) /\ q \in Lattice(l) /\ Cell(l, q) \in Cells(l) /\ q \in Nat \X Nat
  <1>1. q \in Inner(l) /\ q \in Lattice(l)
    BY MazeIs
  <1>2. q \in Nat \X Nat /\ Toward(q, Up, 1) \in Int \X Int
    BY <1>1, MazeIs DEF Lattice, Toward, Up
  <1>3. Cell(l, q) \in Cells(l)
    BY <1>1, NeighboursAreInArray DEF Dirs
  <1>4. QED
    BY <1>1, <1>2, <1>3

(* The bits of a new level.                                                 *)
LEMMA MazeOfIs ==
  ASSUME NEW l \in Mazes
  PROVE  /\ MazeOf(l) \in Boards(l)
         /\ \A c \in Cells(l) :
               /\ "wall" \in MazeOf(l)[c] <=> \A q \in l.open : c # Cell(l, q)
               /\ "exit" \in MazeOf(l)[c] <=> c = Cell(l, l.exit)
               /\ "fruit" \in MazeOf(l)[c] <=> \E q \in l.fruits : c = Cell(l, q)
  <1> DEFINE at(c, S) == c \in {MAZE_INDEX(l.x_dim, q[1], q[2]) : q \in S}
             bits(c) == (IF at(c, l.open) THEN {} ELSE WALL)
                          \cup (IF at(c, l.fruits) THEN {"fruit"} ELSE {})
                          \cup (IF at(c, {l.exit}) THEN {"exit"} ELSE {})
  <1>1. MazeOf(l) = [c \in Cells(l) |-> bits(c)]
    BY DEF MazeOf, Cells
  <1>2. \A c, S : at(c, S) <=> \E q \in S : c = Cell(l, q)
    BY DEF Cell
  <1> HIDE DEF at
  <1>3. \A c : /\ bits(c) \in SUBSET Bits
               /\ "wall" \in bits(c) <=> ~at(c, l.open)
               /\ "fruit" \in bits(c) <=> at(c, l.fruits)
               /\ "exit" \in bits(c) <=> at(c, {l.exit})
    BY DEF Bits, WALL
  <1> HIDE DEF bits
  <1>4. MazeOf(l) \in Boards(l)
    BY <1>1, <1>3 DEF Boards
  <1>5. ASSUME NEW c \in Cells(l)
        PROVE  /\ "wall" \in MazeOf(l)[c] <=> \A q \in l.open : c # Cell(l, q)
               /\ "exit" \in MazeOf(l)[c] <=> c = Cell(l, l.exit)
               /\ "fruit" \in MazeOf(l)[c] <=> \E q \in l.fruits : c = Cell(l, q)
    <2>1. MazeOf(l)[c] = bits(c)
      BY <1>1
    <2>2. at(c, {l.exit}) <=> c = Cell(l, l.exit)
      BY <1>2
    <2>3. QED
      BY <1>2, <1>3, <2>1, <2>2
  <1>6. QED
    BY <1>4, <1>5

(* Where there is no wall is an open square.                                *)
LEMMA OpenCell ==
  ASSUME NEW l \in Mazes, NEW m, NEW n, MazeOk(l, m, n), NEW q \in Lattice(l), "wall" \notin m[Cell(l, q)]
  PROVE  q \in l.open
  <1>1. Cell(l, q) \in Cells(l)
    BY NeighboursAreInArray DEF Dirs
  <1>2. PICK o \in l.open : Cell(l, q) = Cell(l, o)
    BY <1>1, MazeOfIs DEF MazeOk, SameWalls
  <1>3. o = q
    BY <1>2, MazeIs, CellUnique
  <1>4. QED
    BY <1>3

(* A new level counts its fruits.                                           *)
LEMMA NewMazeIsOk ==
  ASSUME NEW l \in Mazes
  PROVE  MazeOk(l, MazeOf(l), Cardinality(l.fruits)) /\ Cardinality(l.fruits) \in Nat
  <1> DEFINE F == FruitCells(l, MazeOf(l))
             f == [q \in l.fruits |-> Cell(l, q)]
  <1>1. IsFiniteSet(F)
    BY CellsAreFinite
  <1>2. \A q \in l.fruits : q \in l.open /\ Cell(l, q) \in Cells(l)
    BY MazeIs, InnerCell
  <1>3. f \in [l.fruits -> F]
    BY <1>2, MazeOfIs DEF FruitCells
  <1>4. \A p, q \in l.fruits : f[p] = f[q] => p = q
    BY <1>2, InnerCell, CellUnique
  <1>5. \A c \in F : \E q \in l.fruits : f[q] = c
    BY MazeOfIs DEF FruitCells
  <1> HIDE DEF F, f
  <1>6. f \in Injection(l.fruits, F) /\ f \in Surjection(l.fruits, F)
    BY <1>3, <1>4, <1>5 DEF Injection, Surjection, IsInjective
  <1>7. IsFiniteSet(l.fruits) /\ Cardinality(l.fruits) = Cardinality(F)
    BY <1>1, <1>6, FS_Injection
  <1>8. Cardinality(l.fruits) \in Nat
    BY <1>7, FS_CardinalityType
  <1>9. \A n \in Nat : n \in 0 .. n
    OBVIOUS
  <1>10. QED
    BY <1>7, <1>8, <1>9, MazeOfIs DEF MazeOk, SameWalls, F

(* A fruit is eaten.                                                        *)
LEMMA EatKeepsMaze ==
  ASSUME NEW l \in Mazes, NEW m, NEW n, MazeOk(l, m, n), NEW at \in Cells(l),
         NEW left, left = IF "fruit" \in m[at] THEN n - 1 ELSE n
  PROVE  /\ MazeOk(l, Rest(m, at), left)
         /\ SameWalls(l, m, Rest(m, at))
         /\ \A c \in Cells(l) : c # at => Rest(m, at)[c] = m[c]
         /\ "fruit" \notin Rest(m, at)[at]
         /\ "fruit" \in m[at] => n > 0 /\ left \in Nat
         /\ "fruit" \notin m[at] => Rest(m, at) = m
  <1> DEFINE k == Rest(m, at)
  <1>1. m \in Boards(l) /\ m \in [Cells(l) -> SUBSET Bits]
    BY DEF MazeOk, Boards
  <1>2. k = [c \in Cells(l) |-> IF c = at THEN m[at] \ {"fruit"} ELSE m[c]]
    BY <1>1 DEF Rest
  <1> HIDE DEF k
  <1>3. k \in Boards(l)
    BY <1>1, <1>2 DEF Boards
  <1>4. /\ \A c \in Cells(l) : c # at => k[c] = m[c]
        /\ k[at] = m[at] \ {"fruit"}
    BY <1>2
  <1>5. \A c \in Cells(l) : /\ "wall" \in k[c] <=> "wall" \in m[c]
                            /\ "exit" \in k[c] <=> "exit" \in m[c]
    BY <1>4
  <1>6. FruitCells(l, k) = FruitCells(l, m) \ {at}
    BY <1>4 DEF FruitCells
  <1> DEFINE F == FruitCells(l, m)
  <1>7. IsFiniteSet(F) /\ Cardinality(F) \in Nat
    BY CellsAreFinite, FS_CardinalityType
  <1>8. Cardinality(F \ {at}) = IF at \in F THEN Cardinality(F) - 1 ELSE Cardinality(F)
    BY <1>7, FS_RemoveElement
  <1>9. at \in F <=> "fruit" \in m[at]
    BY DEF FruitCells
  <1>10. n = Cardinality(F) /\ n \in 0 .. Cardinality(l.fruits)
    BY DEF MazeOk
  <1>11. at \in F => n # 0
    BY <1>7, <1>10, FS_EmptySet
  <1> HIDE DEF F
  <1>12. left = Cardinality(F \ {at})
    BY <1>8, <1>9, <1>10
  <1>13. left \in 0 .. Cardinality(l.fruits)
    <2>1. Cardinality(l.fruits) \in Nat
      BY NewMazeIsOk
    <2>2. n \in Nat
      BY <1>7, <1>10
    <2>3. CASE at \notin F
      BY <1>9, <1>10, <2>3
    <2>4. CASE at \in F
      BY <1>9, <1>10, <1>11, <2>1, <2>2, <2>4
    <2>5. QED
      BY <2>3, <2>4
  <1>14. MazeOk(l, k, left)
    BY <1>3, <1>5, <1>6, <1>12, <1>13 DEF MazeOk, SameWalls, F
  <1>15. "fruit" \notin m[at] => k = m
    BY <1>1, <1>2
  <1>16. "fruit" \in m[at] => n > 0 /\ left \in Nat
    BY <1>7, <1>9, <1>10, <1>11
  <1>17. QED
    BY <1>4, <1>5, <1>14, <1>15, <1>16 DEF k, SameWalls

(* Squares are seen.                                                        *)
SeenIn(m, cells) == [c \in DOMAIN m |-> IF c \in cells THEN m[c] \cup {"reach"} ELSE m[c]]

LEMMA SeeKeepsMaze ==
  ASSUME NEW l \in Mazes, NEW m, NEW n, MazeOk(l, m, n), NEW cells, NEW k, k = SeenIn(m, cells)
  PROVE  /\ MazeOk(l, k, n)
         /\ SameWalls(l, m, k)
         /\ \A c \in Cells(l) : /\ c \notin cells => k[c] = m[c]
                                /\ c \in cells => "reach" \in k[c]
                                /\ "reach" \in m[c] => "reach" \in k[c]
                                /\ "fruit" \in k[c] <=> "fruit" \in m[c]
         /\ cells = {} => k = m
  <1>1. m \in Boards(l) /\ m \in [Cells(l) -> SUBSET Bits] /\ DOMAIN m = Cells(l)
    BY DEF MazeOk, Boards
  <1>2. k = [c \in Cells(l) |-> IF c \in cells THEN m[c] \cup {"reach"} ELSE m[c]]
    BY <1>1, Zenon DEF SeenIn
  <1>3. k \in Boards(l)
    <2>1. "reach" \in Bits
      BY DEF Bits
    <2>2. QED
      BY <1>1, <1>2, <2>1 DEF Boards
  <1>4. \A c \in Cells(l) : /\ c \notin cells => k[c] = m[c]
                            /\ c \in cells => k[c] = m[c] \cup {"reach"}
    BY <1>2
  <1>5. \A c \in Cells(l) : \A b \in {"wall", "exit", "fruit"} : b \in k[c] <=> b \in m[c]
    <2>1. TAKE c \in Cells(l)
    <2>2. TAKE b \in {"wall", "exit", "fruit"}
    <2>3. b # "reach"
      BY <2>2
    <2>4. QED
      BY <1>4, <2>3
  <1>6. FruitCells(l, k) = FruitCells(l, m)
    BY <1>5 DEF FruitCells
  <1>7. MazeOk(l, k, n) /\ SameWalls(l, m, k)
    BY <1>3, <1>5, <1>6 DEF MazeOk, SameWalls
  <1>8. cells = {} => k = m
    BY <1>1, <1>2
  <1>9. QED
    BY <1>4, <1>5, <1>7, <1>8

-----------------------------------------------------------------------------
(* What is drawn of the maze.                                               *)

Picture(l, m, n, v) == \A w \in Window(v) : At(v, w) = Image(l, m, n, w)
InLevel(l, v) ==
  /\ SHOW_MIN <= v.x /\ v.x + SCROLL_X_DIM <= Lim(l.x_dim)
  /\ SHOW_MIN <= v.y /\ v.y + SCROLL_Y_DIM <= Lim(l.y_dim)

(* The block of a pixel before the right boundary's end.                    *)
LEMMA BlockBelow ==
  ASSUME NEW n \in Nat, NEW a \in Nat, a < (2 * n + 1) * BLOCK
  PROVE  a \div BLOCK \in 0 .. 2 * n
  <1> DEFINE q == a \div BLOCK
             t == BLOCK * q
  <1>1. q \in Int /\ q >= 0 /\ t \in Int /\ t <= a
    <2>1. a = BLOCK * q + (a % BLOCK) /\ a % BLOCK \in 0 .. (BLOCK - 1) /\ q \in Int /\ q >= 0
      <3>1. a \in Int /\ a >= 0 /\ BLOCK \in Nat \ {0}
        BY BlockSizes
      <3>2. /\ a = BLOCK * (a \div BLOCK) + (a % BLOCK) /\ a % BLOCK \in 0 .. (BLOCK - 1)
            /\ a \div BLOCK \in Int /\ (a >= 0 => a \div BLOCK >= 0)
        BY <3>1, Parts
      <3>3. QED
        BY <3>1, <3>2
    <2>2. t \in Int
      <3> HIDE DEF q
      <3>1. QED
        BY <2>1, BlockSizes
    <2> DEFINE r == a % BLOCK
    <2>3. a = t + r /\ r \in Nat
      BY <2>1, BlockSizes
    <2> HIDE DEF t, r, q
    <2>4. QED
      BY <2>1, <2>2, <2>3
  <1>2. ASSUME q >= 2 * n + 1 PROVE FALSE
    <2>1. BLOCK * (2 * n + 1) <= t
      <3> HIDE DEF q
      <3>1. QED
        BY <1>1, <1>2, BlockSizes, TimesMonotone
    <2>2. BLOCK * (2 * n + 1) = (2 * n + 1) * BLOCK /\ BLOCK * (2 * n + 1) \in Int
      BY BlockSizes
    <2> HIDE DEF t
    <2>3. QED
      BY <1>1, <2>1, <2>2
  <1> HIDE DEF q, t
  <1>3. QED
    BY <1>1, <1>2 DEF q

(* The window shows blocks of the maze only.                                *)
LEMMA WindowInLattice ==
  ASSUME NEW l \in Mazes, NEW v \in Views, InLevel(l, v), NEW w \in Window(v)
  PROVE  BlockOf(w) \in Lattice(l)
  <1>1. /\ w[1] \in Nat /\ w[1] < v.x + SCROLL_X_DIM /\ v.x \in Nat
        /\ w[2] \in Nat /\ w[2] < v.y + SCROLL_Y_DIM /\ v.y \in Nat
    BY InWindow DEF Views
  <1>2. /\ v.x + SCROLL_X_DIM <= Lim(l.x_dim) /\ Lim(l.x_dim) \in Int /\ l.x_dim \in Nat
        /\ v.y + SCROLL_Y_DIM <= Lim(l.y_dim) /\ Lim(l.y_dim) \in Int /\ l.y_dim \in Nat
    BY MazeIs DEF InLevel
  <1>3. w[1] < Lim(l.x_dim) /\ w[2] < Lim(l.y_dim)
    <2> DEFINE a == Lim(l.x_dim)
               b == Lim(l.y_dim)
               r == v.x + SCROLL_X_DIM
               t == v.y + SCROLL_Y_DIM
    <2>1. r \in Int /\ t \in Int
      BY <1>1, WindowSizes
    <2>2. w[1] < r /\ r <= a /\ a \in Int /\ w[2] < t /\ t <= b /\ b \in Int
      BY <1>1, <1>2
    <2> HIDE DEF a, b, r, t
    <2>3. w[1] < a /\ w[2] < b
      BY <1>1, <2>1, <2>2
    <2>4. QED
      BY <2>3 DEF a, b
  <1>4. \A n \in Nat : /\ Lim(n) = (2 * n + 1) * BLOCK - SHOW_MIN
                       /\ (2 * n + 1) * BLOCK \in Int
    BY BlockSizes DEF Lim
  <1>5. w[1] < (2 * l.x_dim + 1) * BLOCK /\ w[2] < (2 * l.y_dim + 1) * BLOCK
    <2> DEFINE a == (2 * l.x_dim + 1) * BLOCK
               b == (2 * l.y_dim + 1) * BLOCK
    <2>1. a \in Int /\ b \in Int /\ Lim(l.x_dim) = a - SHOW_MIN /\ Lim(l.y_dim) = b - SHOW_MIN
      BY <1>2, <1>4
    <2> HIDE DEF a, b
    <2>2. w[1] < a /\ w[2] < b
      BY <1>1, <1>3, <2>1, BlockSizes
    <2>3. QED
      BY <2>2 DEF a, b
  <1>6. QED
    BY <1>1, <1>2, <1>5, BlockBelow DEF BlockOf, Lattice

(* Drawing some blocks changes these and nothing else, and drawing none     *)
(* nothing at all.                                                          *)
LEMMA DrawBlocksIs ==
  ASSUME NEW v, Sound(v), NEW l, NEW m, NEW n, NEW points,
         NEW u, u = DrawBlocks(v, l, m, n, points)
  PROVE  /\ Sound(u) /\ SameFrame(u, v)
         /\ \A w \in Window(v) :
               At(u, w) = IF BlockOf(w) \in points THEN Image(l, m, n, w) ELSE At(v, w)
         /\ points = {} => u = v
  <1> DEFINE shown == {w \in Window(v) : BlockOf(w) \in points}
             picture == [p \in shown |-> Image(l, m, n, p)]
  <1>1. u = Paint(v, picture)
    BY DEF DrawBlocks
  <1>2. \A w \in Window(v) : w \in Int \X Int
    BY InWindow DEF Sound
  <1>3. DOMAIN picture = shown /\ DOMAIN picture \subseteq Window(v)
        /\ \A p \in DOMAIN picture : picture[p] = Image(l, m, n, p) /\ picture[p] \in Pixel
    BY <1>2, ImageIs
  <1> HIDE DEF picture
  <1>4. /\ Sound(Paint(v, picture)) /\ SameFrame(Paint(v, picture), v)
        /\ \A w \in Window(v) :
              At(Paint(v, picture), w) = IF w \in DOMAIN picture THEN picture[w] ELSE At(v, w)
    BY <1>3, PaintIs
  <1>5. ASSUME points = {} PROVE u = v
    <2>1. DOMAIN picture = {}
      BY <1>3, <1>5
    <2>2. QED
      BY <1>1, <2>1, PaintNothing
  <1>6. \A w \in Window(v) : w \in DOMAIN picture <=> BlockOf(w) \in points
    BY <1>3
  <1>7. QED
    BY <1>1, <1>3, <1>4, <1>5, <1>6

(* What has been seen and eaten around a square stays so.                   *)
Settled(l, m, p) ==
  /\ "fruit" \notin m[Cell(l, p)]
  /\ \A q \in Nearby(p) : q \in Lattice(l) => "reach" \in m[Cell(l, q)]

(* No block of the window shares its cell with another block near p.        *)
OwnCells(l, v, p) ==
  \A q \in Nearby(p), w \in Window(v) :
     q \in Lattice(l) /\ Cell(l, q) = Cell(l, BlockOf(w)) => q = BlockOf(w)

(* unveil_around_player draws every block of the window that it changes:    *)
(* the square whose fruit is eaten, the exit if that was the last fruit,    *)
(* and the squares seen for the first time.                                 *)
LEMMA UnveilIs ==
  ASSUME NEW l \in Mazes, NEW m, NEW n, MazeOk(l, m, n),
         NEW v, Sound(v), InLevel(l, v), Picture(l, m, n, v),
         NEW p \in l.open, OwnCells(l, v, p),
         NEW u, u = unveil_around_player(l, m, n, v, p)
  PROVE  /\ Sound(u.view) /\ SameFrame(u.view, v)
         /\ MazeOk(l, u.maze, u.n_fruits)
         /\ Picture(l, u.maze, u.n_fruits, u.view)
         /\ Settled(l, u.maze, p)
  <1> DEFINE at == Cell(l, p)
             eaten == "fruit" \in m[at]
             left == IF eaten THEN n - 1 ELSE n
             rest == Rest(m, at)
             redrawn == IF ~eaten THEN {} ELSE IF left = 0 THEN {p, l.exit} ELSE {p}
             v1 == DrawBlocks(v, l, rest, left, redrawn)
             hidden == {q \in Nearby(p) :
                          /\ q[1] \in 0 .. (2 * l.x_dim) /\ q[2] \in 0 .. (2 * l.y_dim)
                          /\ "reach" \notin rest[Cell(l, q)]}
             cells == {Cell(l, q) : q \in hidden}
             seen == [c \in DOMAIN rest |-> IF c \in cells THEN rest[c] \cup {"reach"} ELSE rest[c]]
             v2 == DrawBlocks(v1, l, seen, left, hidden)
  <1>1. u = [maze |-> seen, n_fruits |-> left, view |-> v2]
    BY DEF unveil_around_player, unveil_space, Cell
  <1>2. p \in Inner(l) /\ p \in Lattice(l) /\ at \in Cells(l) /\ p \in Nat \X Nat
    BY InnerCell
  <1>3. l.exit \in Inner(l) /\ l.exit \in Lattice(l)
    BY InnerCell, MazeIs
  <1>4. /\ MazeOk(l, rest, left) /\ SameWalls(l, m, rest)
        /\ \A c \in Cells(l) : c # at => rest[c] = m[c]
        /\ "fruit" \notin rest[at]
        /\ eaten => n > 0 /\ left \in Nat
        /\ ~eaten => rest = m
    BY <1>2, EatKeepsMaze
  <1> HIDE DEF rest, eaten, left, cells
  <1>5. /\ MazeOk(l, seen, left) /\ SameWalls(l, rest, seen)
        /\ \A c \in Cells(l) : /\ c \notin cells => seen[c] = rest[c]
                               /\ c \in cells => "reach" \in seen[c]
                               /\ "reach" \in rest[c] => "reach" \in seen[c]
                               /\ "fruit" \in seen[c] <=> "fruit" \in rest[c]
    <2>1. seen = SeenIn(rest, cells)
      BY DEF SeenIn
    <2> HIDE DEF seen
    <2>2. QED
      <3>1. MazeOk(l, rest, left)
        BY <1>4
      <3>2. QED
        BY <2>1, <3>1, SeeKeepsMaze
  <1>6. \A q \in Nearby(p) : q \in Int \X Int
    BY <1>2 DEF Nearby, Toward, Dirs, Up, Down, Left, Right
  <1>7. \A q \in Nearby(p) : q \in hidden <=> q \in Lattice(l) /\ "reach" \notin rest[Cell(l, q)]
    BY <1>6 DEF Lattice
  <1>8. hidden \subseteq Nearby(p)
    OBVIOUS
  <1> HIDE DEF hidden, seen, redrawn
  <1>9. /\ Sound(v1) /\ SameFrame(v1, v)
        /\ \A w \in Window(v) :
              At(v1, w) = IF BlockOf(w) \in redrawn THEN Image(l, rest, left, w) ELSE At(v, w)
    BY DrawBlocksIs
  <1> HIDE DEF v1
  <1>10. /\ Sound(v2) /\ SameFrame(v2, v1)
         /\ \A w \in Window(v1) :
               At(v2, w) = IF BlockOf(w) \in hidden THEN Image(l, seen, left, w) ELSE At(v1, w)
    BY <1>9, DrawBlocksIs
  <1> HIDE DEF v2
  <1>11. SameFrame(v2, v)
    BY <1>9, <1>10 DEF SameFrame
  <1>12. Window(v1) = Window(v) /\ Window(v2) = Window(v)
    BY <1>9, <1>11, SameWindow
  <1>13. ASSUME NEW w \in Window(v) PROVE At(v2, w) = Image(l, seen, left, w)
    <2> DEFINE b == BlockOf(w)
    <2>1. b \in Lattice(l)
      BY WindowInLattice DEF Sound
    <2>2. Cell(l, b) \in Cells(l)
      BY <2>1, NeighboursAreInArray DEF Dirs
    <2>3. CASE b \in hidden
      BY <1>10, <1>12, <2>3
    <2>4. CASE b \notin hidden
      <3>1. Cell(l, b) \notin cells
        <4>1. SUFFICES ASSUME NEW q \in hidden, Cell(l, q) = Cell(l, b) PROVE FALSE
          BY DEF cells
        <4>2. q \in Nearby(p) /\ q \in Lattice(l)
          BY <1>7, <1>8
        <4>3. q = b
          BY <4>1, <4>2 DEF OwnCells
        <4>4. QED
          BY <2>4, <4>3
      <3>2. find_block(seen, l.x_dim, left, b) = find_block(rest, l.x_dim, left, b)
        <4>1. SameWalls(l, seen, rest)
          BY <1>5 DEF SameWalls
        <4>2. seen[Cell(l, b)] = rest[Cell(l, b)]
          BY <1>5, <2>2, <3>1
        <4> HIDE DEF b
        <4>3. WallsAround(l, seen, b) = WallsAround(l, rest, b)
          BY <2>1, <4>1, SameWallsAround
        <4>4. QED
          BY <4>2, <4>3, FindBlockIs
      <3>3. Image(l, seen, left, w) = Image(l, rest, left, w)
        BY <3>2 DEF Image
      <3>4. At(v2, w) = At(v1, w)
        BY <1>10, <1>12, <2>4
      <3>5. CASE b \in redrawn
        BY <1>9, <3>3, <3>4, <3>5
      <3>6. CASE b \notin redrawn
        <4>1. At(v2, w) = Image(l, m, n, w)
          BY <1>9, <3>4, <3>6 DEF Picture
        <4>2. CASE ~eaten
          BY <1>4, <3>3, <4>1, <4>2 DEF left
        <4>3. CASE eaten
          <5>1. b # p /\ (left = 0 => b # l.exit)
            BY <3>6, <4>3 DEF redrawn
          <5>2. Cell(l, b) # at
            BY <1>2, <2>1, <5>1, CellUnique
          <5>3. rest[Cell(l, b)] = m[Cell(l, b)]
            BY <1>4, <2>2, <5>2
          <5>4. "exit" \in rest[Cell(l, b)] => b = l.exit
            <6>1. "exit" \in rest[Cell(l, b)] => Cell(l, b) = Cell(l, l.exit)
              BY <1>4, <2>2 DEF MazeOk
            <6>2. QED
              BY <1>3, <2>1, <6>1, CellUnique
          <5>5. "exit" \in rest[Cell(l, b)] => (left = 0 <=> n = 0)
            BY <1>4, <4>3, <5>1, <5>4
          <5>6. SameWalls(l, rest, m)
            BY <1>4 DEF SameWalls
          <5> HIDE DEF b
          <5>7. find_block(rest, l.x_dim, left, b) = find_block(m, l.x_dim, n, b)
            <6>1. WallsAround(l, rest, b) = WallsAround(l, m, b)
              BY <2>1, <5>6, SameWallsAround
            <6> DEFINE far == left = 0 /\ "exit" \in rest[Cell(l, b)]
                       near == n = 0 /\ "exit" \in m[Cell(l, b)]
            <6>2. far = near
              BY <5>3, <5>5
            <6>3. /\ find_block(rest, l.x_dim, left, b) = Kind(far, rest[Cell(l, b)], WallsAround(l, rest, b))
                  /\ find_block(m, l.x_dim, n, b) = Kind(near, m[Cell(l, b)], WallsAround(l, m, b))
              BY FindBlockIs
            <6> HIDE DEF far, near
            <6>4. QED
              BY <5>3, <6>1, <6>2, <6>3
          <5>8. Image(l, rest, left, w) = Image(l, m, n, w)
            BY <5>7 DEF Image, b
          <5>9. QED
            BY <3>3, <4>1, <5>8
        <4>4. QED
          BY <4>2, <4>3
      <3>7. QED
        BY <3>5, <3>6
    <2>5. QED
      BY <2>3, <2>4
  <1>14. Picture(l, seen, left, v2)
    BY <1>12, <1>13 DEF Picture
  <1>15. Settled(l, seen, p)
    <2>1. "fruit" \notin seen[at]
      BY <1>2, <1>4, <1>5
    <2>2. ASSUME NEW q \in Nearby(p), q \in Lattice(l) PROVE "reach" \in seen[Cell(l, q)]
      <3>1. Cell(l, q) \in Cells(l)
        BY <2>2, NeighboursAreInArray DEF Dirs
      <3>2. q \in hidden => Cell(l, q) \in cells
        BY DEF cells
      <3>3. QED
        BY <1>5, <1>7, <2>2, <3>1, <3>2
    <2>3. QED
      BY <2>1, <2>2 DEF Settled
  <1>16. u.view = v2 /\ u.maze = seen /\ u.n_fruits = left
    BY <1>1
  <1>17. QED
    BY <1>5, <1>10, <1>11, <1>14, <1>15, <1>16

(* On a square that has been looked at from before nothing changes.         *)
LEMMA UnveilAgain ==
  ASSUME NEW l \in Mazes, NEW m, NEW n, MazeOk(l, m, n), NEW v, Sound(v),
         NEW p \in l.open, Settled(l, m, p)
  PROVE  unveil_around_player(l, m, n, v, p) = [maze |-> m, n_fruits |-> n, view |-> v]
  <1> DEFINE at == Cell(l, p)
             eaten == "fruit" \in m[at]
             left == IF eaten THEN n - 1 ELSE n
             rest == Rest(m, at)
             redrawn == IF ~eaten THEN {} ELSE IF left = 0 THEN {p, l.exit} ELSE {p}
             v1 == DrawBlocks(v, l, rest, left, redrawn)
             hidden == {q \in Nearby(p) :
                          /\ q[1] \in 0 .. (2 * l.x_dim) /\ q[2] \in 0 .. (2 * l.y_dim)
                          /\ "reach" \notin rest[Cell(l, q)]}
             cells == {Cell(l, q) : q \in hidden}
             seen == [c \in DOMAIN rest |-> IF c \in cells THEN rest[c] \cup {"reach"} ELSE rest[c]]
             v2 == DrawBlocks(v1, l, seen, left, hidden)
  <1>1. unveil_around_player(l, m, n, v, p) = [maze |-> seen, n_fruits |-> left, view |-> v2]
    BY DEF unveil_around_player, unveil_space, Cell
  <1>2. at \in Cells(l) /\ p \in Nat \X Nat
    BY InnerCell
  <1>3. ~eaten /\ left = n /\ redrawn = {}
    BY DEF Settled
  <1>4. rest = m
    BY <1>2, <1>3, EatKeepsMaze
  <1> HIDE DEF rest, left, redrawn
  <1>5. v1 = v
    BY <1>3, DrawBlocksIs
  <1>6. \A q \in Nearby(p) : q \in Int \X Int
    BY <1>2 DEF Nearby, Toward, Dirs, Up, Down, Left, Right
  <1>7. hidden = {}
    BY <1>4, <1>6 DEF Settled, Lattice
  <1>8. cells = {}
    BY <1>7
  <1> HIDE DEF hidden, cells
  <1>9. seen = m
    <2>1. seen = SeenIn(m, cells)
      BY <1>4, Zenon DEF SeenIn
    <2> HIDE DEF seen
    <2>2. QED
      BY <1>8, <2>1, SeeKeepsMaze
  <1> HIDE DEF v1, seen
  <1>10. v2 = v
    BY <1>5, <1>7, DrawBlocksIs
  <1>11. QED
    BY <1>1, <1>3, <1>9, <1>10

-----------------------------------------------------------------------------
(* Scrolling by one pixel.                                                  *)

(* The fill loops give the pixels that the blocks have there.               *)
LEMMA FillHorizIs ==
  ASSUME NEW l, NEW m, NEW n, NEW x, NEW y, NEW i, x \in Nat, i \in 0 .. (SCROLL_X_DIM - 1)
  PROVE  fill_horiz_buffer(l, m, n, x, y)[i] = Image(l, m, n, <<x + i, y>>)
  <1>1. BLOCK \in Nat \ {0} /\ x \in Int /\ i \in Int
    BY BlockSizes
  <1>2. /\ (x + i) \div BLOCK = (x \div BLOCK) + (((x % BLOCK) + i) \div BLOCK)
        /\ (x + i) % BLOCK = ((x % BLOCK) + i) % BLOCK
    BY <1>1, LineParts
  <1>3. fill_horiz_buffer(l, m, n, x, y)[i]
           = <<find_block(m, l.x_dim, n, <<(x \div BLOCK) + (((x % BLOCK) + i) \div BLOCK), y \div BLOCK>>),
               ((x % BLOCK) + i) % BLOCK, y % BLOCK>>
    BY DEF fill_horiz_buffer
  <1>4. Image(l, m, n, <<x + i, y>>)
           = <<find_block(m, l.x_dim, n, <<(x + i) \div BLOCK, y \div BLOCK>>),
               (x + i) % BLOCK, y % BLOCK>>
    BY DEF Image, BlockOf
  <1>5. QED
    BY <1>2, <1>3, <1>4

(* The same for a column.                                                   *)
LEMMA FillVertIs ==
  ASSUME NEW l, NEW m, NEW n, NEW x, NEW y, NEW i, y \in Nat, i \in 0 .. (SCROLL_Y_DIM - 1)
  PROVE  fill_vert_buffer(l, m, n, x, y)[i] = Image(l, m, n, <<x, y + i>>)
  <1>1. BLOCK \in Nat \ {0} /\ y \in Int /\ i \in Int
    BY BlockSizes
  <1>2. /\ (y + i) \div BLOCK = (y \div BLOCK) + (((y % BLOCK) + i) \div BLOCK)
        /\ (y + i) % BLOCK = ((y % BLOCK) + i) % BLOCK
    BY <1>1, LineParts
  <1>3. fill_vert_buffer(l, m, n, x, y)[i]
           = <<find_block(m, l.x_dim, n, <<x \div BLOCK, (y \div BLOCK) + (((y % BLOCK) + i) \div BLOCK)>>),
               x % BLOCK, ((y % BLOCK) + i) % BLOCK>>
    BY DEF fill_vert_buffer
  <1>4. Image(l, m, n, <<x, y + i>>)
           = <<find_block(m, l.x_dim, n, <<x \div BLOCK, (y + i) \div BLOCK>>),
               x % BLOCK, (y + i) % BLOCK>>
    BY DEF Image, BlockOf
  <1>5. QED
    BY <1>2, <1>3, <1>4

(* draw_horiz_line draws one row of the window as the blocks have it.       *)
LEMMA HorizLineIs ==
  ASSUME NEW v, Sound(v), NEW r \in 0 .. (SCROLL_Y_DIM - 1), NEW l, NEW m, NEW n,
         NEW u, u = draw_horiz_line(v, l, m, n, r)
  PROVE  /\ Sound(u) /\ SameFrame(u, v)
         /\ \A w \in Window(v) :
               At(u, w) = IF w[2] = v.y + r THEN Image(l, m, n, w) ELSE At(v, w)
  <1> DEFINE buf == fill_horiz_buffer(l, m, n, v.x, v.y + r)
             line == {InMap(v, <<c, r>>) : c \in DOMAIN buf}
             picture == [p \in line |-> buf[p[1] - v.x]]
  <1>1. u = Paint(v, picture)
    BY DEF draw_horiz_line
  <1>2. v \in Views /\ v.x \in Nat /\ v.y \in Nat /\ r \in Nat /\ v.y + r \in Nat
    BY Sizes DEF Sound, Views
  <1>3. DOMAIN buf = 0 .. (SCROLL_X_DIM - 1)
    BY DEF fill_horiz_buffer
  <1>4. \A i \in 0 .. (SCROLL_X_DIM - 1) : buf[i] = Image(l, m, n, <<v.x + i, v.y + r>>)
    <2> DEFINE x == v.x
               y == v.y + r
    <2>1. x \in Nat /\ y \in Nat
      BY <1>2
    <2> HIDE DEF x, y
    <2>2. \A i \in 0 .. (SCROLL_X_DIM - 1) :
             fill_horiz_buffer(l, m, n, x, y)[i] = Image(l, m, n, <<x + i, y>>)
      BY <2>1, FillHorizIs
    <2>3. QED
      BY <2>2 DEF x, y
  <1> HIDE DEF buf
  <1>5. line \subseteq Window(v)
    BY <1>3, Sizes DEF Window, Places
  <1>6. ASSUME NEW w \in line PROVE buf[w[1] - v.x] = Image(l, m, n, w) /\ w[2] = v.y + r
    <2>1. PICK c \in 0 .. (SCROLL_X_DIM - 1) : w = <<v.x + c, v.y + r>>
      BY <1>3 DEF InMap
    <2>2. c \in Nat /\ c < SCROLL_X_DIM /\ w[1] - v.x = c
      BY <1>2, <2>1, Sizes
    <2>3. QED
      BY <1>4, <2>1, <2>2
  <1>7. ASSUME NEW w \in Window(v), w[2] = v.y + r PROVE w \in line
    <2>1. /\ w = <<w[1], w[2]>> /\ w[1] \in Nat
          /\ v.x <= w[1] /\ w[1] < v.x + SCROLL_X_DIM
      BY <1>2, InWindow
    <2> DEFINE c == w[1] - v.x
               a == w[1]
               b == v.x
    <2>2. c \in 0 .. (SCROLL_X_DIM - 1) /\ w[1] = v.x + c
      <3>1. /\ a \in Nat /\ b \in Nat /\ b <= a /\ a < b + SCROLL_X_DIM /\ SCROLL_X_DIM \in Nat
            /\ c = a - b
        BY <1>2, <2>1, Sizes
      <3> HIDE DEF c, a, b
      <3>2. c \in 0 .. (SCROLL_X_DIM - 1) /\ a = b + c
        BY <3>1
      <3>3. QED
        BY <3>2 DEF a, b
    <2>3. w = InMap(v, <<c, r>>)
      BY <1>7, <2>1, <2>2 DEF InMap
    <2> HIDE DEF c
    <2>4. QED
      BY <1>3, <2>2, <2>3
  <1> HIDE DEF line
  <1>8. /\ DOMAIN picture \subseteq Window(v)
        /\ \A p \in DOMAIN picture : picture[p] = Image(l, m, n, p) /\ picture[p] \in Pixel
        /\ DOMAIN picture = line
    <2>1. \A w \in Window(v) : w \in Int \X Int
      BY <1>2, InWindow
    <2>2. QED
      BY <1>5, <1>6, <2>1, ImageIs
  <1> HIDE DEF picture
  <1>9. QED
    BY <1>1, <1>6, <1>7, <1>8, PaintIs

(* draw_vert_line draws one column of the window as the blocks have it.     *)
LEMMA VertLineIs ==
  ASSUME NEW v, Sound(v), NEW c \in 0 .. (SCROLL_X_DIM - 1), NEW l, NEW m, NEW n,
         NEW u, u = draw_vert_line(v, l, m, n, c)
  PROVE  /\ Sound(u) /\ SameFrame(u, v)
         /\ \A w \in Window(v) :
               At(u, w) = IF w[1] = v.x + c THEN Image(l, m, n, w) ELSE At(v, w)
  <1> DEFINE buf == fill_vert_buffer(l, m, n, v.x + c, v.y)
             line == {InMap(v, <<c, r>>) : r \in DOMAIN buf}
             picture == [p \in line |-> buf[p[2] - v.y]]
  <1>1. u = Paint(v, picture)
    BY DEF draw_vert_line
  <1>2. v \in Views /\ v.x \in Nat /\ v.y \in Nat /\ c \in Nat /\ v.x + c \in Nat
    BY Sizes DEF Sound, Views
  <1>3. DOMAIN buf = 0 .. (SCROLL_Y_DIM - 1)
    BY DEF fill_vert_buffer
  <1>4. \A i \in 0 .. (SCROLL_Y_DIM - 1) : buf[i] = Image(l, m, n, <<v.x + c, v.y + i>>)
    <2> DEFINE x == v.x + c
               y == v.y
    <2>1. x \in Nat /\ y \in Nat
      BY <1>2
    <2> HIDE DEF x, y
    <2>2. \A i \in 0 .. (SCROLL_Y_DIM - 1) :
             fill_vert_buffer(l, m, n, x, y)[i] = Image(l, m, n, <<x, y + i>>)
      BY <2>1, FillVertIs
    <2>3. QED
      BY <2>2 DEF x, y
  <1> HIDE DEF buf
  <1>5. line \subseteq Window(v)
    BY <1>3, Sizes DEF Window, Places
  <1>6. ASSUME NEW w \in line PROVE buf[w[2] - v.y] = Image(l, m, n, w) /\ w[1] = v.x + c
    <2>1. PICK r \in 0 .. (SCROLL_Y_DIM - 1) : w = <<v.x + c, v.y + r>>
      BY <1>3 DEF InMap
    <2>2. r \in Nat /\ r < SCROLL_Y_DIM /\ w[2] - v.y = r
      BY <1>2, <2>1, Sizes
    <2>3. QED
      BY <1>4, <2>1, <2>2
  <1>7. ASSUME NEW w \in Window(v), w[1] = v.x + c PROVE w \in line
    <2>1. /\ w = <<w[1], w[2]>> /\ w[2] \in Nat
          /\ v.y <= w[2] /\ w[2] < v.y + SCROLL_Y_DIM
      BY <1>2, InWindow
    <2> DEFINE r == w[2] - v.y
               a == w[2]
               b == v.y
    <2>2. r \in 0 .. (SCROLL_Y_DIM - 1) /\ w[2] = v.y + r
      <3>1. /\ a \in Nat /\ b \in Nat /\ b <= a /\ a < b + SCROLL_Y_DIM /\ SCROLL_Y_DIM \in Nat
            /\ r = a - b
        BY <1>2, <2>1, Sizes
      <3> HIDE DEF r, a, b
      <3>2. r \in 0 .. (SCROLL_Y_DIM - 1) /\ a = b + r
        BY <3>1
      <3>3. QED
        BY <3>2 DEF a, b
    <2>3. w = InMap(v, <<c, r>>)
      BY <1>7, <2>1, <2>2 DEF InMap
    <2> HIDE DEF r
    <2>4. QED
      BY <1>3, <2>2, <2>3
  <1> HIDE DEF line
  <1>8. /\ DOMAIN picture \subseteq Window(v)
        /\ \A p \in DOMAIN picture : picture[p] = Image(l, m, n, p) /\ picture[p] \in Pixel
        /\ DOMAIN picture = line
    <2>1. \A w \in Window(v) : w \in Int \X Int
      BY <1>2, InWindow
    <2>2. QED
      BY <1>5, <1>6, <2>1, ImageIs
  <1> HIDE DEF picture
  <1>9. QED
    BY <1>1, <1>6, <1>7, <1>8, PaintIs

(* The pixels that a scrolled window does not share with the window before  *)
(* are those of the line that is drawn.                                     *)
LEMMA PanIs ==
  ASSUME NEW v, Sound(v), NEW m, NEW n, Picture(level, m, n, v), NEW d \in Dirs,
         d = Up => v.y > 0, d = Left => v.x > 0,
         NEW u, u = Pan(v, d, m, n)
  PROVE  /\ Sound(u) /\ Picture(level, m, n, u)
         /\ <<u.x, u.y>> = Toward(<<v.x, v.y>>, d, 1)
  <1> DEFINE to == Toward(<<v.x, v.y>>, d, 1)
             moved == set_view_window(v, to[1], to[2])
             X == SCROLL_X_DIM
             Y == SCROLL_Y_DIM
  <1>1. v \in Views /\ v.x \in Nat /\ v.y \in Nat
    BY DEF Sound, Views
  <1>2. /\ d = Up => to = <<v.x, v.y - 1>>
        /\ d = Right => to = <<v.x + 1, v.y>>
        /\ d = Down => to = <<v.x, v.y + 1>>
        /\ d = Left => to = <<v.x - 1, v.y>>
    BY DEF Toward, Up, Right, Down, Left
  <1>3. d = Up \/ d = Right \/ d = Down \/ d = Left
    BY DEF Dirs
  <1>4. to = <<to[1], to[2]>> /\ to[1] \in Nat /\ to[2] \in Nat
    BY <1>1, <1>2, <1>3
  <1>5. /\ d = Up => u = draw_horiz_line(moved, level, m, n, 0)
        /\ d = Right => u = draw_vert_line(moved, level, m, n, X - 1)
        /\ d = Down => u = draw_horiz_line(moved, level, m, n, Y - 1)
        /\ d = Left => u = draw_vert_line(moved, level, m, n, 0)
    BY DEF Pan, Up, Right, Down, Left
  <1> HIDE DEF to
  <1>6. /\ Sound(moved) /\ moved.x = to[1] /\ moved.y = to[2]
        /\ \A w \in Window(v) \cap Window(moved) : At(moved, w) = At(v, w)
    <2> DEFINE x == to[1]
               y == to[2]
    <2>1. moved = set_view_window(v, x, y) /\ x \in Nat /\ y \in Nat
      BY <1>4
    <2> HIDE DEF x, y, moved
    <2>2. /\ Sound(moved) /\ moved.x = x /\ moved.y = y
          /\ \A w \in Window(v) \cap Window(moved) : At(moved, w) = At(v, w)
      BY <2>1, SetViewIs
    <2>3. QED
      BY <2>2 DEF x, y
  <1> HIDE DEF moved
  <1>7. /\ 0 \in 0 .. (X - 1) /\ X - 1 \in 0 .. (X - 1) /\ X \in Nat
        /\ 0 \in 0 .. (Y - 1) /\ Y - 1 \in 0 .. (Y - 1) /\ Y \in Nat
    BY Sizes
  <1>8. ASSUME NEW w \in Window(moved), w \notin Window(v)
        PROVE  /\ d = Up => w[2] = moved.y + 0
               /\ d = Right => w[1] = moved.x + (X - 1)
               /\ d = Down => w[2] = moved.y + (Y - 1)
               /\ d = Left => w[1] = moved.x + 0
    <2>1. moved \in Views
      BY <1>6 DEF Sound
    <2>2. /\ w \in Nat \X Nat /\ w[1] \in Nat /\ w[2] \in Nat
          /\ moved.x <= w[1] /\ w[1] < moved.x + X
          /\ moved.y <= w[2] /\ w[2] < moved.y + Y
      BY <2>1, InWindow
    <2>3. ~(/\ v.x <= w[1] /\ w[1] < v.x + X
            /\ v.y <= w[2] /\ w[2] < v.y + Y)
      <3>1. w \in Int \X Int
        BY <2>2
      <3>2. QED
        BY <1>1, <1>8, <3>1, WindowIs
    <2> DEFINE a == w[1]
               b == w[2]
               x == v.x
               y == v.y
               i == moved.x
               j == moved.y
    <2>4. /\ a \in Nat /\ b \in Nat /\ x \in Nat /\ y \in Nat /\ X \in Nat /\ Y \in Nat
          /\ i <= a /\ a < i + X /\ j <= b /\ b < j + Y
          /\ ~(x <= a /\ a < x + X /\ y <= b /\ b < y + Y)
          /\ d = Up => i = x /\ j = y - 1
          /\ d = Right => i = x + 1 /\ j = y
          /\ d = Down => i = x /\ j = y + 1
          /\ d = Left => i = x - 1 /\ j = y
      BY <1>1, <1>2, <1>6, <1>7, <2>2, <2>3
    <2> HIDE DEF a, b, x, y, i, j, X, Y
    <2>5. /\ d = Up => b = j + 0
          /\ d = Right => a = i + (X - 1)
          /\ d = Down => b = j + (Y - 1)
          /\ d = Left => a = i + 0
      BY <1>3, <2>4
    <2>6. QED
      BY <2>5 DEF a, b, i, j
  <1>9. /\ Sound(u) /\ SameFrame(u, moved)
        /\ \A w \in Window(moved) :
              At(u, w) = IF \/ d = Up /\ w[2] = moved.y + 0
                            \/ d = Right /\ w[1] = moved.x + (X - 1)
                            \/ d = Down /\ w[2] = moved.y + (Y - 1)
                            \/ d = Left /\ w[1] = moved.x + 0
                           THEN Image(level, m, n, w) ELSE At(moved, w)
    <2>1. /\ Up # Right /\ Up # Down /\ Up # Left /\ Right # Down /\ Right # Left /\ Down # Left
      BY DEF Up, Right, Down, Left
    <2> HIDE DEF X, Y
    <2>2. CASE d = Up
      BY <1>5, <1>6, <1>7, <2>1, <2>2, HorizLineIs DEF X, Y
    <2>3. CASE d = Right
      BY <1>5, <1>6, <1>7, <2>1, <2>3, VertLineIs DEF X, Y
    <2>4. CASE d = Down
      BY <1>5, <1>6, <1>7, <2>1, <2>4, HorizLineIs DEF X, Y
    <2>5. CASE d = Left
      BY <1>5, <1>6, <1>7, <2>1, <2>5, VertLineIs DEF X, Y
    <2>6. QED
      BY <1>3, <2>2, <2>3, <2>4, <2>5
  <1>10. Window(u) = Window(moved)
    BY <1>9, SameWindow
  <1>11. ASSUME NEW w \in Window(moved) PROVE At(u, w) = Image(level, m, n, w)
    <2>1. CASE w \in Window(v)
      BY <1>6, <1>9, <2>1 DEF Picture
    <2>2. CASE w \notin Window(v)
      BY <1>3, <1>8, <1>9, <2>2
    <2>3. QED
      BY <2>1, <2>2
  <1>12. <<u.x, u.y>> = to
    BY <1>4, <1>6, <1>9 DEF SameFrame
  <1>13. QED
    BY <1>9, <1>10, <1>11, <1>12 DEF Picture, to

-----------------------------------------------------------------------------
(* The player is drawn, shown and taken away again.                         *)

Background == [0 .. (BLOCK * BLOCK - 1) -> Pixel]
OnScreen(v, p) == p \in Nat \X Nat /\ \A s \in Sprite : Beside(p, s) \in Window(v)
Where(p, w) == <<w[1] - p[1], w[2] - p[2]>>
PlayerIs(p, w) == Where(p, w) \in Sprite /\ BlkIndex(Where(p, w)) \in Opaque
PlayerPixel(p, w) == <<<<"player">>, w[1] - p[1], w[2] - p[2]>>

(* The places in the image of the player.                                   *)
LEMMA SpriteIs ==
  ASSUME NEW s \in Sprite
  PROVE  /\ s = <<s[1], s[2]>> /\ s[1] \in 0 .. (BLOCK - 1) /\ s[2] \in 0 .. (BLOCK - 1)
         /\ s[1] \in Nat /\ s[2] \in Nat
  BY BlockSizes DEF Sprite

(* Every place in a block has an index of its own in block_mask.            *)
LEMMA BlkIndexIs ==
  ASSUME NEW s \in Sprite
  PROVE  /\ BlkIndex(s) \in 0 .. (BLOCK * BLOCK - 1)
         /\ \A t \in Sprite : BlkIndex(t) = BlkIndex(s) => t = s
  <1>1. \A t \in Sprite : /\ t = <<t[1], t[2]>>
                          /\ t[1] \in 0 .. (BLOCK - 1) /\ t[2] \in 0 .. (BLOCK - 1)
                          /\ t[1] \in Nat /\ t[2] \in Nat
    BY SpriteIs
  <1>2. \A t \in Sprite : BlkIndex(t) = BLOCK * t[2] + t[1] /\ BLOCK * t[2] \in Int
    BY <1>1, BlockSizes DEF BlkIndex
  <1>3. BlkIndex(s) \in 0 .. (BLOCK * BLOCK - 1)
    <2> DEFINE a == s[1]
               b == s[2]
               c == BLOCK - 1
    <2>1. a \in Nat /\ b \in Nat /\ a <= c /\ b <= c /\ c \in Int
      BY <1>1, BlockSizes
    <2>2. BlkIndex(s) = BLOCK * b + a
      BY <1>2
    <2> HIDE DEF a, b
    <2>3. BLOCK * 0 <= BLOCK * b /\ BLOCK * b <= BLOCK * c
      BY <2>1, BlockSizes, TimesMonotone
    <2>4. BLOCK * c = BLOCK * BLOCK - BLOCK /\ BLOCK * BLOCK \in Int /\ BLOCK * 0 = 0 /\ BLOCK * b \in Int
      BY <2>1, BlockSizes
    <2> DEFINE e == BLOCK * b
               f == BLOCK * BLOCK
    <2>5. e \in Int /\ f \in Int /\ 0 <= e /\ e <= f - BLOCK /\ BlkIndex(s) = e + a
      BY <2>2, <2>3, <2>4
    <2> HIDE DEF e, f
    <2>6. BlkIndex(s) \in 0 .. (f - 1)
      BY <2>1, <2>5, BlockSizes
    <2>7. QED
      BY <2>6 DEF f
  <1>4. ASSUME NEW t \in Sprite, BlkIndex(t) = BlkIndex(s) PROVE t = s
    <2>1. /\ s[2] \in Int /\ t[2] \in Int /\ s[1] \in 0 .. (BLOCK - 1) /\ t[1] \in 0 .. (BLOCK - 1)
      BY <1>1
    <2>2. (BLOCK * s[2] + s[1]) \div BLOCK = s[2] /\ (BLOCK * s[2] + s[1]) % BLOCK = s[1]
      BY <2>1, BlockSizes, DivMod
    <2>3. (BLOCK * t[2] + t[1]) \div BLOCK = t[2] /\ (BLOCK * t[2] + t[1]) % BLOCK = t[1]
      BY <2>1, BlockSizes, DivMod
    <2>4. BLOCK * t[2] + t[1] = BLOCK * s[2] + s[1]
      BY <1>2, <1>4
    <2>5. s[1] = t[1] /\ s[2] = t[2]
      BY <2>2, <2>3, <2>4
    <2>6. QED
      BY <1>1, <2>5
  <1>5. QED
    BY <1>3, <1>4

(* From the place in the image to the pixel and back.                       *)
LEMMA BesideIs ==
  ASSUME NEW p \in Nat \X Nat, NEW s \in Sprite
  PROVE  Where(p, Beside(p, s)) = s
  <1>1. s = <<s[1], s[2]>> /\ s[1] \in Nat /\ s[2] \in Nat /\ p[1] \in Nat /\ p[2] \in Nat
    BY SpriteIs
  <1>2. Beside(p, s)[1] - p[1] = s[1] /\ Beside(p, s)[2] - p[2] = s[2]
    BY <1>1 DEF Beside
  <1>3. QED
    BY <1>1, <1>2 DEF Where

(* From the pixel to the place in the image and back.                       *)
LEMMA WhereIs ==
  ASSUME NEW p \in Nat \X Nat, NEW w \in Nat \X Nat, Where(p, w) \in Sprite
  PROVE  Beside(p, Where(p, w)) = w
  <1>1. w = <<w[1], w[2]>> /\ w[1] \in Nat /\ w[2] \in Nat /\ p[1] \in Nat /\ p[2] \in Nat
    OBVIOUS
  <1>2. p[1] + (w[1] - p[1]) = w[1] /\ p[2] + (w[2] - p[2]) = w[2]
    BY <1>1
  <1>3. QED
    BY <1>1, <1>2 DEF Beside, Where

(* Nothing is clipped.                                                      *)
LEMMA NoClip ==
  ASSUME NEW v, v \in Views, NEW p, OnScreen(v, p)
  PROVE  /\ Seen(v, p) = Sprite
         /\ \A s \in Sprite : MaskIndex(v, p, s) = BlkIndex(s)
  <1>1. Seen(v, p) = Sprite
    BY DEF Seen, OnScreen
  <1>2. <<0, 0>> \in Sprite
    BY BlockSizes DEF Sprite
  <1>3. p \in Nat \X Nat /\ p[1] \in Nat /\ p[2] \in Nat /\ p = <<p[1], p[2]>>
    BY DEF OnScreen
  <1>4. Beside(p, <<0, 0>>) = p
    BY <1>3 DEF Beside
  <1>5. v.x <= p[1] /\ v.y <= p[2] /\ v.x \in Nat /\ v.y \in Nat
    <2>1. p \in Window(v)
      BY <1>2, <1>4 DEF OnScreen
    <2>2. QED
      BY <2>1, InWindow DEF Views
  <1>6. Clip(v, p) = <<0, 0>>
    <2>1. Larger(v.x - p[1], 0) = 0 /\ Larger(v.y - p[2], 0) = 0
      BY <1>3, <1>5 DEF Larger
    <2>2. QED
      BY <2>1 DEF Clip
  <1>7. ASSUME NEW s \in Sprite PROVE MaskIndex(v, p, s) = BlkIndex(s)
    <2>1. s[1] - 0 = s[1] /\ s[2] - 0 = s[2] /\ s = <<s[1], s[2]>>
      BY SpriteIs
    <2>2. Clip(v, p)[1] = 0 /\ Clip(v, p)[2] = 0
      BY <1>6
    <2>3. QED
      BY <2>1, <2>2 DEF MaskIndex
  <1>8. QED
    BY <1>1, <1>7

(* mask saves what it covers.                                               *)
LEMMA CoveredIs ==
  ASSUME NEW v, Sound(v), NEW p, OnScreen(v, p), NEW background \in Background
  PROVE  /\ Covered(v, p, background) \in Background
         /\ \A s \in Sprite : Covered(v, p, background)[BlkIndex(s)] = At(v, Beside(p, s))
  <1> DEFINE K == 0 .. (BLOCK * BLOCK - 1)
             of(k) == CHOOSE s \in Seen(v, p) : MaskIndex(v, p, s) = k
             some(k) == \E s \in Seen(v, p) : MaskIndex(v, p, s) = k
             saved == [k \in K |-> IF some(k) THEN Byte(v, Address(v, Beside(p, of(k)))) ELSE background[k]]
  <1>1. v \in Views
    BY DEF Sound
  <1>2. DOMAIN background = K /\ background \in [K -> Pixel]
    BY DEF Background
  <1>3. Covered(v, p, background) = saved
    BY <1>2 DEF Covered
  <1>4. Seen(v, p) = Sprite /\ \A s \in Sprite : MaskIndex(v, p, s) = BlkIndex(s)
    BY <1>1, NoClip
  <1>5. \A k : some(k) => of(k) \in Sprite /\ BlkIndex(of(k)) = k
    BY <1>4
  <1>6. \A s \in Sprite : some(BlkIndex(s))
    BY <1>4
  <1> HIDE DEF of, some
  <1>7. \A s \in Sprite : Byte(v, Address(v, Beside(p, s))) = At(v, Beside(p, s))
                          /\ At(v, Beside(p, s)) \in Pixel
    BY ByteAt DEF OnScreen
  <1> HIDE DEF K
  <1>8. saved \in [K -> Pixel]
    <2>1. ASSUME NEW k \in K PROVE saved[k] \in Pixel
      <3>1. CASE some(k)
        BY <1>5, <1>7, <3>1
      <3>2. CASE ~some(k)
        BY <1>2, <3>2
      <3>3. QED
        BY <3>1, <3>2
    <2>2. QED
      BY <2>1
  <1>9. ASSUME NEW s \in Sprite PROVE saved[BlkIndex(s)] = At(v, Beside(p, s))
    <2>1. BlkIndex(s) \in K
      BY BlkIndexIs DEF K
    <2>2. of(BlkIndex(s)) = s
      BY <1>5, <1>6, BlkIndexIs
    <2>3. QED
      BY <1>6, <1>7, <2>1, <2>2
  <1>10. QED
    BY <1>3, <1>8, <1>9 DEF Background, K

(* mask draws the opaque pixels of the player and leaves all others.        *)
LEMMA MaskIs ==
  ASSUME NEW v, Sound(v), NEW p, OnScreen(v, p), NEW u, u = mask(v, p)
  PROVE  /\ Sound(u) /\ SameFrame(u, v)
         /\ \A w \in Window(v) :
               At(u, w) = IF PlayerIs(p, w) THEN PlayerPixel(p, w) ELSE At(v, w)
  <1> DEFINE drawn == {Beside(p, s) : s \in {t \in Seen(v, p) : MaskIndex(v, p, t) \in Opaque}}
             picture == [w \in drawn |-> PlayerPixel(p, w)]
  <1>1. u = Paint(v, picture)
    BY DEF mask, PlayerPixel
  <1>2. v \in Views /\ p \in Nat \X Nat
    BY DEF Sound, OnScreen
  <1>3. Seen(v, p) = Sprite /\ \A s \in Sprite : MaskIndex(v, p, s) = BlkIndex(s)
    BY <1>2, NoClip
  <1>4. \A w : w \in drawn <=> \E s \in Sprite : BlkIndex(s) \in Opaque /\ w = Beside(p, s)
    BY <1>3
  <1> HIDE DEF drawn
  <1>5. drawn \subseteq Window(v)
    BY <1>4 DEF OnScreen
  <1>6. \A w \in Window(v) : w \in drawn <=> PlayerIs(p, w)
    <2>1. ASSUME NEW w \in Window(v), w \in drawn PROVE PlayerIs(p, w)
      BY <1>2, <1>4, <2>1, BesideIs DEF PlayerIs
    <2>2. ASSUME NEW w \in Window(v), PlayerIs(p, w) PROVE w \in drawn
      <3>1. w \in Nat \X Nat
        BY <1>2, InWindow
      <3>2. Beside(p, Where(p, w)) = w
        BY <1>2, <2>2, <3>1, WhereIs DEF PlayerIs
      <3>3. QED
        BY <1>4, <2>2, <3>2 DEF PlayerIs
    <2>3. QED
      BY <2>1, <2>2
  <1>7. \A w \in drawn : PlayerPixel(p, w) \in Pixel
    <2>1. SUFFICES ASSUME NEW w \in drawn PROVE PlayerPixel(p, w) \in Pixel
      OBVIOUS
    <2> DEFINE z == Where(p, w)
    <2>2. z \in Sprite
      BY <1>5, <1>6 DEF PlayerIs
    <2>3. PlayerPixel(p, w) = <<<<"player">>, z[1], z[2]>>
      BY DEF PlayerPixel, Where
    <2> HIDE DEF z
    <2> DEFINE ofPlayer == {<<<<"player">>, s[1], s[2]>> : s \in Sprite}
               others == {<<b, s[1], s[2]>> : b \in Kinds, s \in Sprite}
    <2>4. PlayerPixel(p, w) \in ofPlayer
      BY <2>2, <2>3
    <2>5. Pixel = {Unset} \cup ofPlayer \cup others
      BY DEF Pixel, Kinds
    <2> HIDE DEF ofPlayer, others
    <2>6. QED
      BY <2>4, <2>5
  <1>8. /\ DOMAIN picture = drawn
        /\ \A w \in DOMAIN picture : picture[w] = PlayerPixel(p, w) /\ picture[w] \in Pixel
    BY <1>7
  <1> HIDE DEF picture
  <1>9. QED
    BY <1>1, <1>5, <1>6, <1>8, PaintIs

(* Every pixel of the window is as it was before mask.                      *)
LEMMA UncoverIs ==
  ASSUME NEW v, Sound(v), NEW p, OnScreen(v, p), NEW background \in Background,
         NEW u, u = Uncover(mask(v, p), p, Covered(v, p, background))
  PROVE  Sound(u) /\ SameFrame(u, v) /\ \A w \in Window(v) : At(u, w) = At(v, w)
  <1> DEFINE drawn == mask(v, p)
             saved == Covered(v, p, background)
             spot == {Beside(p, s) : s \in Seen(drawn, p)}
             picture == [w \in spot |-> saved[BlkIndex(<<w[1] - p[1], w[2] - p[2]>>)]]
  <1>1. u = Paint(drawn, picture)
    BY DEF Uncover
  <1>2. v \in Views /\ p \in Nat \X Nat
    BY DEF Sound, OnScreen
  <1>3. /\ Sound(drawn) /\ SameFrame(drawn, v)
        /\ \A w \in Window(v) :
              At(drawn, w) = IF PlayerIs(p, w) THEN PlayerPixel(p, w) ELSE At(v, w)
    BY MaskIs
  <1>4. /\ saved \in Background
        /\ \A s \in Sprite : saved[BlkIndex(s)] = At(v, Beside(p, s))
    BY CoveredIs
  <1> HIDE DEF drawn, saved
  <1>5. Window(drawn) = Window(v)
    BY <1>3, SameWindow
  <1>6. Seen(drawn, p) = Sprite
    BY <1>5 DEF OnScreen, Seen
  <1>7. \A w : w \in spot <=> \E s \in Sprite : w = Beside(p, s)
    BY <1>6
  <1> HIDE DEF spot
  <1>8. spot \subseteq Window(v)
    BY <1>7 DEF OnScreen
  <1>9. ASSUME NEW w \in spot
        PROVE  saved[BlkIndex(<<w[1] - p[1], w[2] - p[2]>>)] = At(v, w)
    <2>1. PICK s \in Sprite : w = Beside(p, s)
      BY <1>7
    <2>2. <<w[1] - p[1], w[2] - p[2]>> = s
      BY <1>2, <2>1, BesideIs DEF Where
    <2>3. QED
      BY <1>4, <2>1, <2>2
  <1>10. \A w \in Window(v) : At(v, w) \in Pixel
    BY ByteAt
  <1>11. /\ DOMAIN picture = spot
         /\ \A w \in DOMAIN picture : picture[w] = At(v, w) /\ picture[w] \in Pixel
    BY <1>8, <1>9, <1>10
  <1> HIDE DEF picture
  <1>12. /\ Sound(u) /\ SameFrame(u, drawn)
         /\ \A w \in Window(v) : At(u, w) = IF w \in spot THEN At(v, w) ELSE At(drawn, w)
    BY <1>1, <1>3, <1>5, <1>8, <1>11, PaintIs
  <1>13. SameFrame(u, v)
    BY <1>3, <1>12 DEF SameFrame
  <1>14. ASSUME NEW w \in Window(v), PlayerIs(p, w) PROVE w \in spot
    <2>1. w \in Nat \X Nat
      BY <1>2, InWindow
    <2>2. QED
      BY <1>2, <1>7, <1>14, <2>1, WhereIs DEF PlayerIs
  <1>15. QED
    BY <1>3, <1>12, <1>13, <1>14

(* show_screen reads every pixel from where it was written.                 *)
LEMMA ShowIs ==
  ASSUME NEW v, Sound(v)
  PROVE  show_screen(v) = [q \in Places |-> At(v, InMap(v, q))]
  <1> DEFINE p_off == 3 - (v.x % 4)
             addr == v.off + (v.x \div 4) + (v.y * SCROLL_X_WIDTH)
             plane(i) == ((p_off - i + 4) % 4) * SCROLL_SIZE + Shift(p_off, i)
             a(q) == addr + plane(q[1] % 4) + (q[1] \div 4) + (q[2] * SCROLL_X_WIDTH)
  <1>1. show_screen(v) = [q \in Places |-> Byte(v, a(q))]
    BY DEF show_screen
  <1>2. v \in Views /\ v.x \in Nat /\ v.y \in Nat /\ v.off \in Int /\ v.x % 4 \in 0 .. 3
    BY DEF Sound, Views
  <1>3. ASSUME NEW q \in Places PROVE Byte(v, a(q)) = At(v, InMap(v, q))
    <2> DEFINE i == q[1] % 4
               c == q[1] \div 4
               r == q[2] * SCROLL_X_WIDTH
               P == Plane(v.x % 4, i)
               S == Shift(3 - (v.x % 4), i)
               PS == P * SCROLL_SIZE
    <2>1. i \in 0 .. 3 /\ c \in Int /\ r \in Int
      BY InPlane
    <2>2. P \in 0 .. 3 /\ S \in Int
      <3>1. P \in 0 .. 3
        BY <1>2, <2>1, PlaneIs
      <3>2. S \in Int
        BY DEF Shift
      <3>3. QED
        BY <3>1, <3>2
    <2>3. a(q) = addr + (PS + S) + c + r
      BY DEF Plane
    <2>4. Place(v.x % 4, q) = PS + S + c + r
      BY DEF Place
    <2>5. addr = Base(v.off, v.x, v.y) /\ addr \in Int
      BY <1>2, BaseIs DEF Base
    <2>6. PS \in Int
      <3> HIDE DEF P
      <3>1. QED
        BY <2>2, Sizes
    <2> HIDE DEF PS, S, c, r, addr
    <2>7. addr + (PS + S) + c + r = addr + (PS + S + c + r)
      BY <2>1, <2>2, <2>5, <2>6
    <2>8. a(q) = Address(v, InMap(v, q))
      <3>1. Address(v, InMap(v, q)) = addr + (PS + S + c + r)
        BY <1>2, <2>4, <2>5, AddressIs
      <3> HIDE DEF a
      <3>2. QED
        BY <2>3, <2>7, <3>1
    <2> HIDE DEF a
    <2>9. InMap(v, q) \in Window(v)
      BY <1>2, InMapIs
    <2>10. QED
      BY <2>8, <2>9, ByteAt
  <1> HIDE DEF a
  <1>4. QED
    BY <1>1, <1>3

Shown(l, m, n, v, p) ==
  [q \in Places |-> LET w == InMap(v, q)
                    IN  IF PlayerIs(p, w) THEN PlayerPixel(p, w) ELSE Image(l, m, n, w)]

(* The three calls leave the build buffer as it was, and the screen shows   *)
(* it with the player on it.                                                *)
LEMMA RedrawIs ==
  ASSUME NEW l, NEW m, NEW n, NEW v, Sound(v), Picture(l, m, n, v),
         NEW p, OnScreen(v, p), block_mask \in Background, Redraw(v, p)
  PROVE  /\ Sound(view') /\ SameFrame(view', v) /\ Picture(l, m, n, view')
         /\ block_mask' \in Background
         /\ screen' = Shown(l, m, n, v, p)
         /\ screen' \in [Places -> Pixel]
  <1> DEFINE drawn == mask(v, p)
             saved == Covered(v, p, block_mask)
  <1>1. screen' = show_screen(drawn) /\ block_mask' = saved /\ view' = Uncover(drawn, p, saved)
    BY DEF Redraw
  <1>2. Sound(view') /\ SameFrame(view', v) /\ \A w \in Window(v) : At(view', w) = At(v, w)
    BY <1>1, UncoverIs
  <1>3. Picture(l, m, n, view')
    <2>1. Window(view') = Window(v)
      BY <1>2, SameWindow
    <2>2. QED
      BY <1>2, <2>1 DEF Picture
  <1>4. block_mask' \in Background
    BY <1>1, CoveredIs
  <1>5. /\ Sound(drawn) /\ SameFrame(drawn, v)
        /\ \A w \in Window(v) :
              At(drawn, w) = IF PlayerIs(p, w) THEN PlayerPixel(p, w) ELSE At(v, w)
    BY MaskIs
  <1> HIDE DEF drawn
  <1>6. /\ screen' = [q \in Places |-> At(drawn, InMap(drawn, q))]
        /\ \A q \in Places : InMap(drawn, q) = InMap(v, q) /\ InMap(v, q) \in Window(v)
        /\ Window(drawn) = Window(v)
    <2>1. v \in Views
      BY DEF Sound
    <2>2. QED
      BY <1>1, <1>5, <2>1, ShowIs, SameWindow, InMapIs
  <1>7. screen' = Shown(l, m, n, v, p)
    BY <1>5, <1>6 DEF Shown, Picture
  <1>8. \A w \in Window(v) : At(drawn, w) \in Pixel
    BY <1>5, <1>6, ByteAt
  <1>9. screen' \in [Places -> Pixel]
    BY <1>6, <1>8
  <1>10. QED
    BY <1>1, <1>2, <1>3, <1>4, <1>7, <1>9

-----------------------------------------------------------------------------
(* Where the player is, and how the view follows.                           *)

(* On an open square, or between two of them.                               *)
Corridor(l, p) ==
  /\ p \in Nat \X Nat
  /\ BlockOf(p) \in l.open
  /\ p[1] % BLOCK # 0 => p[2] % BLOCK = 0 /\ Toward(BlockOf(p), Right, 1) \in l.open
  /\ p[2] % BLOCK # 0 => p[1] % BLOCK = 0 /\ Toward(BlockOf(p), Down, 1) \in l.open

(* On each axis the player has the border before it and behind it, unless   *)
(* the view has come to its end.                                            *)
InView(p, v, size, lim) ==
  /\ SHOW_MIN <= v /\ v + size <= lim
  /\ p >= v + BLOCK * PAN_BORDER \/ v = SHOW_MIN
  /\ p <= v + size - BLOCK * (PAN_BORDER + 1) \/ v + size = lim
Follows(l, v, p) ==
  /\ InView(p[1], v.x, SCROLL_X_DIM, Lim(l.x_dim))
  /\ InView(p[2], v.y, SCROLL_Y_DIM, Lim(l.y_dim))

(* The four neighbours.                                                     *)
LEMMA TowardIs ==
  ASSUME NEW i, NEW j
  PROVE  /\ Toward(<<i, j>>, Up, 1) = <<i, j - 1>> /\ Toward(<<i, j>>, Right, 1) = <<i + 1, j>>
         /\ Toward(<<i, j>>, Down, 1) = <<i, j + 1>> /\ Toward(<<i, j>>, Left, 1) = <<i - 1, j>>
  BY DEF Toward, Up, Right, Down, Left

(* Block and place in the block, one pixel further and one pixel back.      *)
LEMMA OneFurther ==
  ASSUME NEW a \in Nat
  PROVE  /\ a \div BLOCK \in Nat /\ a % BLOCK \in 0 .. (BLOCK - 1)
         /\ a % BLOCK = BLOCK - 1 => (a + 1) \div BLOCK = (a \div BLOCK) + 1 /\ (a + 1) % BLOCK = 0
         /\ a % BLOCK # BLOCK - 1 => (a + 1) \div BLOCK = a \div BLOCK /\ (a + 1) % BLOCK = (a % BLOCK) + 1
         /\ a % BLOCK = 0 => (a - 1) \div BLOCK = (a \div BLOCK) - 1 /\ (a - 1) % BLOCK = BLOCK - 1
         /\ a % BLOCK # 0 => (a - 1) \div BLOCK = a \div BLOCK /\ (a - 1) % BLOCK = (a % BLOCK) - 1
  <1> DEFINE k == a \div BLOCK
             r == a % BLOCK
             t == BLOCK * k
  <1>1. BLOCK \in Nat \ {0} /\ a \in Int /\ a >= 0
    BY BlockSizes
  <1>2. a = BLOCK * k + r /\ r \in 0 .. (BLOCK - 1) /\ k \in Int /\ k >= 0
    BY <1>1, Parts
  <1> HIDE DEF k, r
  <1>3. /\ t \in Int /\ a = t + r /\ BLOCK * (k + 1) = t + BLOCK /\ BLOCK * (k - 1) = t - BLOCK
        /\ k + 1 \in Int /\ k - 1 \in Int
    BY <1>1, <1>2
  <1>4. \A q \in Int, s \in 0 .. (BLOCK - 1) :
           (BLOCK * q + s) \div BLOCK = q /\ (BLOCK * q + s) % BLOCK = s
    BY <1>1, DivMod
  <1>5. ASSUME r = BLOCK - 1 PROVE (a + 1) \div BLOCK = k + 1 /\ (a + 1) % BLOCK = 0
    <2>1. a + 1 = BLOCK * (k + 1) + 0 /\ 0 \in 0 .. (BLOCK - 1)
      <3> HIDE DEF t
      <3>1. a + 1 = (t + BLOCK) + 0 /\ 0 \in 0 .. (BLOCK - 1)
        BY <1>1, <1>2, <1>3, <1>5
      <3>2. QED
        BY <1>3, <3>1
    <2>2. QED
      BY <1>3, <1>4, <2>1
  <1>6. ASSUME r # BLOCK - 1 PROVE (a + 1) \div BLOCK = k /\ (a + 1) % BLOCK = r + 1
    <2>1. a + 1 = BLOCK * k + (r + 1) /\ r + 1 \in 0 .. (BLOCK - 1)
      <3>1. a + 1 = t + (r + 1) /\ r + 1 \in 0 .. (BLOCK - 1)
        <4> HIDE DEF t
        <4>1. QED
          BY <1>1, <1>2, <1>3, <1>6
      <3>2. QED
        BY <3>1
    <2>2. QED
      BY <1>2, <1>4, <2>1
  <1>7. ASSUME r = 0 PROVE (a - 1) \div BLOCK = k - 1 /\ (a - 1) % BLOCK = BLOCK - 1
    <2>1. a - 1 = BLOCK * (k - 1) + (BLOCK - 1) /\ BLOCK - 1 \in 0 .. (BLOCK - 1)
      <3> HIDE DEF t
      <3>1. a - 1 = (t - BLOCK) + (BLOCK - 1) /\ BLOCK - 1 \in 0 .. (BLOCK - 1)
        BY <1>1, <1>2, <1>3, <1>7
      <3>2. QED
        BY <1>3, <3>1
    <2>2. QED
      BY <1>3, <1>4, <2>1
  <1>8. ASSUME r # 0 PROVE (a - 1) \div BLOCK = k /\ (a - 1) % BLOCK = r - 1
    <2>1. a - 1 = BLOCK * k + (r - 1) /\ r - 1 \in 0 .. (BLOCK - 1)
      <3>1. a - 1 = t + (r - 1) /\ r - 1 \in 0 .. (BLOCK - 1)
        <4> HIDE DEF t
        <4>1. QED
          BY <1>1, <1>2, <1>3, <1>8
      <3>2. QED
        BY <3>1
    <2>2. QED
      BY <1>2, <1>4, <2>1
  <1>9. k \in Nat
    BY <1>2
  <1>10. QED
    BY <1>2, <1>5, <1>6, <1>7, <1>8, <1>9 DEF k, r

(* The player stays within the boundary.                                    *)
LEMMA CorridorBounds ==
  ASSUME NEW l \in Mazes, NEW p, Corridor(l, p)
  PROVE  /\ p \in Nat \X Nat /\ p[1] \in Nat /\ p[2] \in Nat /\ p = <<p[1], p[2]>>
         /\ BLOCK <= p[1] /\ p[1] <= BLOCK * (2 * l.x_dim - 1)
         /\ BLOCK <= p[2] /\ p[2] <= BLOCK * (2 * l.y_dim - 1)
  <1>1. p \in Nat \X Nat /\ p[1] \in Nat /\ p[2] \in Nat /\ p = <<p[1], p[2]>>
    BY DEF Corridor
  <1>2. \A a \in Nat, n \in Nat :
           /\ a \div BLOCK \in 1 .. (2 * n - 1)
           /\ a % BLOCK # 0 => (a \div BLOCK) + 1 \in 1 .. (2 * n - 1)
           => BLOCK <= a /\ a <= BLOCK * (2 * n - 1)
    <2>1. SUFFICES ASSUME NEW a \in Nat, NEW n \in Nat,
                          a \div BLOCK \in 1 .. (2 * n - 1),
                          a % BLOCK # 0 => (a \div BLOCK) + 1 \in 1 .. (2 * n - 1)
                   PROVE  BLOCK <= a /\ a <= BLOCK * (2 * n - 1)
      OBVIOUS
    <2> DEFINE k == a \div BLOCK
               r == a % BLOCK
               t == BLOCK * k
               e == BLOCK * (2 * n - 1)
    <2>2. BLOCK \in Nat \ {0} /\ a \in Int
      BY BlockSizes
    <2>3. a = BLOCK * k + r /\ r \in 0 .. (BLOCK - 1) /\ k \in Int
      BY <2>2, Parts
    <2>4. k >= 1 /\ k <= 2 * n - 1 /\ (r # 0 => k + 1 <= 2 * n - 1) /\ 2 * n - 1 \in Int
      BY <2>1, <2>3
    <2> HIDE DEF k, r
    <2>5. BLOCK * 1 <= t /\ t <= e /\ (r # 0 => BLOCK * (k + 1) <= e)
      BY <2>2, <2>3, <2>4, TimesMonotone
    <2>6. BLOCK * (k + 1) = t + BLOCK /\ t \in Int /\ e \in Int /\ BLOCK * 1 = BLOCK
      BY <2>2, <2>3
    <2> HIDE DEF t, e
    <2>7. BLOCK <= a /\ a <= e
      <3>1. a = t + r
        BY <2>3 DEF t
      <3>2. QED
        BY <2>2, <2>3, <2>5, <2>6, <3>1
    <2>8. QED
      BY <2>7 DEF e
  <1> DEFINE i == p[1] \div BLOCK
             j == p[2] \div BLOCK
  <1>3. /\ i \in 1 .. (2 * l.x_dim - 1) /\ j \in 1 .. (2 * l.y_dim - 1)
        /\ l.x_dim \in Nat /\ l.y_dim \in Nat
    <2>1. <<i, j>> \in Inner(l)
      BY MazeIs DEF Corridor, BlockOf
    <2>2. QED
      BY <2>1, MazeIs DEF Inner
  <1>4. ASSUME p[1] % BLOCK # 0 PROVE i + 1 \in 1 .. (2 * l.x_dim - 1)
    <2>1. <<i + 1, j>> \in Inner(l)
      <3>1. Toward(BlockOf(p), Right, 1) \in l.open
        BY <1>4 DEF Corridor
      <3>2. BlockOf(p) = <<i, j>>
        BY DEF BlockOf
      <3> HIDE DEF i, j
      <3>3. QED
        <4>1. Toward(<<i, j>>, Right, 1) = <<i + 1, j>>
          BY TowardIs
        <4>2. l.open \subseteq Inner(l)
          BY MazeIs
        <4>3. QED
          BY <3>1, <3>2, <4>1, <4>2
    <2>2. QED
      BY <2>1 DEF Inner
  <1>5. ASSUME p[2] % BLOCK # 0 PROVE j + 1 \in 1 .. (2 * l.y_dim - 1)
    <2>1. <<i, j + 1>> \in Inner(l)
      <3>1. Toward(BlockOf(p), Down, 1) \in l.open
        BY <1>5 DEF Corridor
      <3>2. BlockOf(p) = <<i, j>>
        BY DEF BlockOf
      <3> HIDE DEF i, j
      <3>3. QED
        <4>1. Toward(<<i, j>>, Down, 1) = <<i, j + 1>>
          BY TowardIs
        <4>2. l.open \subseteq Inner(l)
          BY MazeIs
        <4>3. QED
          BY <3>1, <3>2, <4>1, <4>2
    <2>2. QED
      BY <2>1 DEF Inner
  <1>6. QED
    BY <1>1, <1>2, <1>3, <1>4, <1>5

(* One axis: a view that follows the player shows all of it.                *)
LEMMA InViewShows ==
  ASSUME NEW n \in Nat, NEW p \in Nat, BLOCK <= p, p <= BLOCK * (2 * n - 1),
         NEW v \in Nat, NEW size \in Nat, InView(p, v, size, Lim(n))
  PROVE  v <= p /\ p + BLOCK <= v + size
  <1> DEFINE b == BLOCK * PAN_BORDER
             lim == Lim(n)
             t == BLOCK * n
  <1>1. /\ SHOW_MIN <= v /\ v + size <= lim
        /\ p >= v + b \/ v = SHOW_MIN
        /\ p <= v + size - (b + BLOCK) \/ v + size = lim
    BY BlockSizes DEF InView
  <1>2. b \in Nat /\ b >= BLOCK /\ BLOCK \in Nat /\ SHOW_MIN \in Nat /\ SHOW_MIN <= BLOCK
    BY BlockSizes
  <1>3. t \in Int /\ lim = 2 * t + BLOCK - SHOW_MIN /\ BLOCK * (2 * n - 1) = 2 * t - BLOCK
    BY BlockSizes DEF Lim
  <1>4. p <= 2 * t - BLOCK
    BY <1>3
  <1> HIDE DEF b, lim, t
  <1>5. QED
    BY <1>1, <1>2, <1>3, <1>4

(* A view that follows the player shows all of it, and of the map only      *)
(* blocks of the maze.                                                      *)
LEMMA FollowsShows ==
  ASSUME NEW l \in Mazes, NEW p, Corridor(l, p), NEW v, v \in Views, Follows(l, v, p)
  PROVE  OnScreen(v, p) /\ InLevel(l, v)
  <1>1. /\ p \in Nat \X Nat /\ p[1] \in Nat /\ p[2] \in Nat
        /\ v.x <= p[1] /\ p[1] + BLOCK <= v.x + SCROLL_X_DIM
        /\ v.y <= p[2] /\ p[2] + BLOCK <= v.y + SCROLL_Y_DIM
        /\ v.x \in Nat /\ v.y \in Nat
    <2>1. v.x \in Nat /\ v.y \in Nat /\ SCROLL_X_DIM \in Nat /\ SCROLL_Y_DIM \in Nat
      BY Sizes DEF Views
    <2>2. v.x <= p[1] /\ p[1] + BLOCK <= v.x + SCROLL_X_DIM
      BY <2>1, CorridorBounds, InViewShows, MazeIs DEF Follows
    <2>3. v.y <= p[2] /\ p[2] + BLOCK <= v.y + SCROLL_Y_DIM
      BY <2>1, CorridorBounds, InViewShows, MazeIs DEF Follows
    <2>4. QED
      BY <2>1, <2>2, <2>3, CorridorBounds
  <1>2. ASSUME NEW s \in Sprite PROVE Beside(p, s) \in Window(v)
    <2>1. s[1] \in 0 .. (BLOCK - 1) /\ s[2] \in 0 .. (BLOCK - 1) /\ s[1] \in Nat /\ s[2] \in Nat
      BY SpriteIs
    <2>2. /\ Beside(p, s) \in Int \X Int
          /\ Beside(p, s)[1] = p[1] + s[1] /\ Beside(p, s)[2] = p[2] + s[2]
      BY <1>1, <2>1 DEF Beside
    <2> DEFINE w == Beside(p, s)
    <2>3. /\ v.x <= w[1] /\ w[1] < v.x + SCROLL_X_DIM
          /\ v.y <= w[2] /\ w[2] < v.y + SCROLL_Y_DIM
      <3> DEFINE a == p[1]
                 b == p[2]
                 c == s[1]
                 d == s[2]
                 x == v.x
                 y == v.y
                 X == SCROLL_X_DIM
                 Y == SCROLL_Y_DIM
      <3>1. /\ a \in Nat /\ b \in Nat /\ c \in 0 .. (BLOCK - 1) /\ d \in 0 .. (BLOCK - 1)
            /\ x <= a /\ a + BLOCK <= x + X /\ y <= b /\ b + BLOCK <= y + Y
            /\ x \in Nat /\ y \in Nat /\ X \in Nat /\ Y \in Nat /\ BLOCK \in Nat
            /\ w[1] = a + c /\ w[2] = b + d
        BY <1>1, <2>1, <2>2, BlockSizes, Sizes
      <3> HIDE DEF a, b, c, d, x, y, w, X, Y
      <3>2. x <= w[1] /\ w[1] < x + X /\ y <= w[2] /\ w[2] < y + Y
        BY <3>1
      <3>3. QED
        BY <3>2 DEF x, y, X, Y
    <2> HIDE DEF w
    <2>4. w \in Window(v)
      BY <2>2, <2>3, WindowIs DEF w
    <2>5. QED
      BY <2>4 DEF w
  <1>3. InLevel(l, v)
    BY DEF Follows, InView, InLevel
  <1>4. QED
    BY <1>1, <1>2, <1>3 DEF OnScreen

-----------------------------------------------------------------------------
(* The player moves.                                                        *)

(* Corridor by columns and rows.                                            *)
LEMMA CorridorIs ==
  ASSUME NEW l, NEW a, NEW b, NEW i, NEW j, NEW r, NEW s,
         a \in Nat, b \in Nat,
         i = a \div BLOCK, j = b \div BLOCK, r = a % BLOCK, s = b % BLOCK
  PROVE  Corridor(l, <<a, b>>) <=>
            /\ <<i, j>> \in l.open
            /\ r # 0 => s = 0 /\ <<i + 1, j>> \in l.open
            /\ s # 0 => r = 0 /\ <<i, j + 1>> \in l.open
  <1>1. BlockOf(<<a, b>>) = <<i, j>>
    BY DEF BlockOf
  <1>2. Toward(<<i, j>>, Right, 1) = <<i + 1, j>> /\ Toward(<<i, j>>, Down, 1) = <<i, j + 1>>
    BY TowardIs
  <1>3. QED
    BY <1>1, <1>2 DEF Corridor

(* No move that rtc_thread allows leaves the corridors.                     *)
LEMMA StepInCorridor ==
  ASSUME level \in Mazes, NEW m, NEW n, MazeOk(level, m, n),
         Corridor(level, player), NEW d \in Dirs, MayMove(m, d)
  PROVE  Corridor(level, Toward(player, d, 1))
  <1> DEFINE a == player[1]
             b == player[2]
             i == a \div BLOCK
             j == b \div BLOCK
             r == a % BLOCK
             s == b % BLOCK
             open == level.open
  <1>1. a \in Nat /\ b \in Nat /\ player = <<a, b>> /\ a - 1 \in Nat /\ b - 1 \in Nat
    BY CorridorBounds, BlockSizes
  <1>2. /\ <<i, j>> \in open
        /\ r # 0 => s = 0 /\ <<i + 1, j>> \in open
        /\ s # 0 => r = 0 /\ <<i, j + 1>> \in open
    <2> HIDE DEF open
    <2>1. Corridor(level, <<a, b>>)
      BY <1>1
    <2> HIDE DEF a, b
    <2>2. QED
      BY <1>1, <2>1, CorridorIs DEF open
  <1>3. /\ i \in Nat /\ r \in 0 .. (BLOCK - 1)
        /\ r = BLOCK - 1 => (a + 1) \div BLOCK = i + 1 /\ (a + 1) % BLOCK = 0
        /\ r # BLOCK - 1 => (a + 1) \div BLOCK = i /\ (a + 1) % BLOCK = r + 1
        /\ r = 0 => (a - 1) \div BLOCK = i - 1 /\ (a - 1) % BLOCK = BLOCK - 1
        /\ r # 0 => (a - 1) \div BLOCK = i /\ (a - 1) % BLOCK = r - 1
    BY <1>1, OneFurther
  <1>4. /\ j \in Nat /\ s \in 0 .. (BLOCK - 1)
        /\ s = BLOCK - 1 => (b + 1) \div BLOCK = j + 1 /\ (b + 1) % BLOCK = 0
        /\ s # BLOCK - 1 => (b + 1) \div BLOCK = j /\ (b + 1) % BLOCK = s + 1
        /\ s = 0 => (b - 1) \div BLOCK = j - 1 /\ (b - 1) % BLOCK = BLOCK - 1
        /\ s # 0 => (b - 1) \div BLOCK = j /\ (b - 1) % BLOCK = s - 1
    BY <1>1, OneFurther
  <1>5. /\ OnSquare <=> r = 0 /\ s = 0
        /\ Square = <<i, j>>
    BY DEF OnSquare, Square, BlockOf
  <1> HIDE DEF a, b, i, j, r, s, open
  <1>6. \A q \in Lattice(level) : "wall" \notin m[Cell(level, q)] => q \in open
    BY OpenCell DEF open
  <1>7. /\ Toward(<<i, j>>, Up, 1) = <<i, j - 1>> /\ Toward(<<i, j>>, Right, 1) = <<i + 1, j>>
        /\ Toward(<<i, j>>, Down, 1) = <<i, j + 1>> /\ Toward(<<i, j>>, Left, 1) = <<i - 1, j>>
        /\ Toward(player, Up, 1) = <<a, b - 1>> /\ Toward(player, Right, 1) = <<a + 1, b>>
        /\ Toward(player, Down, 1) = <<a, b + 1>> /\ Toward(player, Left, 1) = <<a - 1, b>>
    BY <1>1, TowardIs
  <1>8. d = Up \/ d = Right \/ d = Down \/ d = Left
    BY DEF Dirs
  <1>9. ASSUME r = 0, s = 0 PROVE Toward(<<i, j>>, d, 1) \in open
    <2>1. "wall" \notin m[Cell(level, Toward(<<i, j>>, d, 1))]
      BY <1>5, <1>9 DEF MayMove, Cell
    <2>2. i \in 1 .. (2 * level.x_dim - 1) /\ j \in 1 .. (2 * level.y_dim - 1)
      BY <1>2, MazeIs DEF Inner, open
    <2>3. level.x_dim \in Nat /\ level.y_dim \in Nat
      BY MazeIs
    <2>4. /\ <<i, j - 1>> \in Lattice(level) /\ <<i + 1, j>> \in Lattice(level)
          /\ <<i, j + 1>> \in Lattice(level) /\ <<i - 1, j>> \in Lattice(level)
      BY <2>2, <2>3 DEF Lattice
    <2>5. Toward(<<i, j>>, d, 1) \in Lattice(level)
      BY <1>7, <1>8, <2>4
    <2>6. QED
      BY <1>6, <2>1, <2>5
  <1>10. ASSUME ~(r = 0 /\ s = 0) PROVE d \in {Left, Right} <=> r # 0
    BY <1>5, <1>10 DEF MayMove, r, a
  <1>11. \A k, h, e, f : \A x \in Nat, y \in Nat :
            /\ k = x \div BLOCK /\ h = y \div BLOCK /\ e = x % BLOCK /\ f = y % BLOCK
            /\ <<k, h>> \in open
            /\ e # 0 => f = 0 /\ <<k + 1, h>> \in open
            /\ f # 0 => e = 0 /\ <<k, h + 1>> \in open
            => Corridor(level, <<x, y>>)
    BY CorridorIs DEF open
  <1>12. i = a \div BLOCK /\ j = b \div BLOCK /\ r = a % BLOCK /\ s = b % BLOCK
    BY DEF i, j, r, s
  <1>13. /\ Up # Left /\ Up # Right /\ Down # Left /\ Down # Right
    BY DEF Up, Down, Left, Right
  <1>14. a + 1 \in Nat /\ b + 1 \in Nat
    BY <1>1
  <1>15. CASE d = Right
    <2>1. s = 0 /\ <<i + 1, j>> \in open
      BY <1>2, <1>7, <1>9, <1>10, <1>15
    <2>2. CASE r = BLOCK - 1
      <3>1. Corridor(level, <<a + 1, b>>)
        BY <1>1, <1>3, <1>11, <1>12, <1>14, <2>1, <2>2
      <3>2. QED
        BY <1>7, <1>15, <3>1
    <2>3. CASE r # BLOCK - 1
      <3>1. Corridor(level, <<a + 1, b>>)
        BY <1>1, <1>2, <1>3, <1>11, <1>12, <1>14, <2>1, <2>3
      <3>2. QED
        BY <1>7, <1>15, <3>1
    <2>4. QED
      BY <2>2, <2>3
  <1>16. CASE d = Down
    <2>1. r = 0 /\ <<i, j + 1>> \in open
      BY <1>2, <1>7, <1>9, <1>10, <1>13, <1>16
    <2>2. CASE s = BLOCK - 1
      <3>1. Corridor(level, <<a, b + 1>>)
        BY <1>1, <1>4, <1>11, <1>12, <1>14, <2>1, <2>2
      <3>2. QED
        BY <1>7, <1>16, <3>1
    <2>3. CASE s # BLOCK - 1
      <3>1. Corridor(level, <<a, b + 1>>)
        BY <1>1, <1>2, <1>4, <1>11, <1>12, <1>14, <2>1, <2>3
      <3>2. QED
        BY <1>7, <1>16, <3>1
    <2>4. QED
      BY <2>2, <2>3
  <1>17. CASE d = Left
    <2>1. s = 0 /\ (r = 0 => <<i - 1, j>> \in open) /\ (r # 0 => <<i + 1, j>> \in open)
      BY <1>2, <1>7, <1>9, <1>10, <1>17
    <2>2. (i - 1) + 1 = i
      BY <1>3
    <2>3. CASE r = 0
      <3>1. Corridor(level, <<a - 1, b>>)
        BY <1>1, <1>2, <1>3, <1>11, <1>12, <2>1, <2>2, <2>3
      <3>2. QED
        BY <1>7, <1>17, <3>1
    <2>4. CASE r # 0
      <3>1. Corridor(level, <<a - 1, b>>)
        BY <1>1, <1>2, <1>3, <1>11, <1>12, <2>1, <2>4
      <3>2. QED
        BY <1>7, <1>17, <3>1
    <2>5. QED
      BY <2>3, <2>4
  <1>18. CASE d = Up
    <2>1. r = 0 /\ (s = 0 => <<i, j - 1>> \in open) /\ (s # 0 => <<i, j + 1>> \in open)
      BY <1>2, <1>7, <1>9, <1>10, <1>13, <1>18
    <2>2. (j - 1) + 1 = j
      BY <1>4
    <2>3. CASE s = 0
      <3>1. Corridor(level, <<a, b - 1>>)
        BY <1>1, <1>2, <1>4, <1>11, <1>12, <2>1, <2>2, <2>3
      <3>2. QED
        BY <1>7, <1>18, <3>1
    <2>4. CASE s # 0
      <3>1. Corridor(level, <<a, b - 1>>)
        BY <1>1, <1>2, <1>4, <1>11, <1>12, <2>1, <2>4
      <3>2. QED
        BY <1>7, <1>18, <3>1
    <2>5. QED
      BY <2>3, <2>4
  <1>19. QED
    BY <1>8, <1>15, <1>16, <1>17, <1>18

(* One axis: the player moves by one, and the view with it when the player  *)
(* comes into the border.                                                   *)
LEMMA AxisFollows ==
  ASSUME NEW p \in Nat, NEW v \in Nat, NEW size \in Nat, NEW lim \in Int,
         size >= 2 * (BLOCK * PAN_BORDER) + BLOCK, InView(p, v, size, lim)
  PROVE  /\ p + 1 > v + size - BLOCK * (PAN_BORDER + 1) /\ v + size < lim => InView(p + 1, v + 1, size, lim)
         /\ ~(p + 1 > v + size - BLOCK * (PAN_BORDER + 1) /\ v + size < lim) => InView(p + 1, v, size, lim)
         /\ p - 1 < v + BLOCK * PAN_BORDER /\ v > SHOW_MIN => InView(p - 1, v - 1, size, lim)
         /\ ~(p - 1 < v + BLOCK * PAN_BORDER /\ v > SHOW_MIN) => InView(p - 1, v, size, lim)
  <1> DEFINE b == BLOCK * PAN_BORDER
  <1>1. b \in Nat /\ BLOCK \in Nat /\ SHOW_MIN \in Nat /\ BLOCK * (PAN_BORDER + 1) = b + BLOCK
    BY BlockSizes
  <1>2. \A q, u : InView(q, u, size, lim) <=>
           /\ SHOW_MIN <= u /\ u + size <= lim
           /\ q >= u + b \/ u = SHOW_MIN
           /\ q <= u + size - (b + BLOCK) \/ u + size = lim
    BY <1>1 DEF InView
  <1>3. size >= 2 * b + BLOCK
    OBVIOUS
  <1>4. BLOCK * (PAN_BORDER + 1) = b + BLOCK
    BY <1>1
  <1> HIDE DEF b
  <1>5. p + 1 > v + size - (b + BLOCK) /\ v + size < lim => InView(p + 1, v + 1, size, lim)
    BY <1>1, <1>2, <1>3
  <1>6. ~(p + 1 > v + size - (b + BLOCK) /\ v + size < lim) => InView(p + 1, v, size, lim)
    BY <1>1, <1>2, <1>3
  <1>7. p - 1 < v + b /\ v > SHOW_MIN => InView(p - 1, v - 1, size, lim)
    BY <1>1, <1>2, <1>3
  <1>8. ~(p - 1 < v + b /\ v > SHOW_MIN) => InView(p - 1, v, size, lim)
    BY <1>1, <1>2, <1>3
  <1>9. QED
    BY <1>4, <1>5, <1>6, <1>7, <1>8 DEF b

-----------------------------------------------------------------------------

(* When the view moves, with the ends of the view as the proofs name them.  *)
LEMMA PansIs ==
  ASSUME NEW v, NEW p
  PROVE  /\ Pans(v, Up, p) <=> p[2] < v.y + BLOCK * PAN_BORDER /\ v.y > SHOW_MIN
         /\ Pans(v, Right, p) <=> /\ p[1] > v.x + SCROLL_X_DIM - BLOCK * (PAN_BORDER + 1)
                                  /\ v.x + SCROLL_X_DIM < Lim(level.x_dim)
         /\ Pans(v, Down, p) <=> /\ p[2] > v.y + SCROLL_Y_DIM - BLOCK * (PAN_BORDER + 1)
                                 /\ v.y + SCROLL_Y_DIM < Lim(level.y_dim)
         /\ Pans(v, Left, p) <=> p[1] < v.x + BLOCK * PAN_BORDER /\ v.x > SHOW_MIN
  BY DEF Pans, Lim, Up, Right, Down, Left

(* The view still follows when the player has moved and the view has moved  *)
(* if it must.                                                              *)
LEMMA ViewFollows ==
  ASSUME level \in Mazes, NEW v, v \in Views, player \in Nat \X Nat, Follows(level, v, player),
         NEW d \in Dirs, NEW p, p = Toward(player, d, 1), NEW u,
         Pans(v, d, p) => <<u.x, u.y>> = Toward(<<v.x, v.y>>, d, 1),
         ~Pans(v, d, p) => u = v
  PROVE  Follows(level, u, p)
  <1> DEFINE a == player[1]
             b == player[2]
             x == v.x
             y == v.y
             X == SCROLL_X_DIM
             Y == SCROLL_Y_DIM
             M == Lim(level.x_dim)
             N == Lim(level.y_dim)
  <1>1. /\ a \in Nat /\ b \in Nat /\ player = <<a, b>> /\ x \in Nat /\ y \in Nat
        /\ X \in Nat /\ Y \in Nat /\ M \in Int /\ N \in Int
    BY Sizes, MazeIs DEF Views
  <1>2. InView(a, x, X, M) /\ InView(b, y, Y, N)
    BY DEF Follows
  <1>3. /\ Toward(<<x, y>>, Up, 1) = <<x, y - 1>> /\ Toward(<<x, y>>, Right, 1) = <<x + 1, y>>
        /\ Toward(<<x, y>>, Down, 1) = <<x, y + 1>> /\ Toward(<<x, y>>, Left, 1) = <<x - 1, y>>
        /\ Toward(player, Up, 1) = <<a, b - 1>> /\ Toward(player, Right, 1) = <<a + 1, b>>
        /\ Toward(player, Down, 1) = <<a, b + 1>> /\ Toward(player, Left, 1) = <<a - 1, b>>
    <2>1. player = <<a, b>>
      BY <1>1
    <2> HIDE DEF a, b, x, y
    <2>2. QED
      BY <2>1, TowardIs
  <1>4. /\ Pans(v, Up, p) <=> p[2] < y + BLOCK * PAN_BORDER /\ y > SHOW_MIN
        /\ Pans(v, Right, p) <=> p[1] > x + X - BLOCK * (PAN_BORDER + 1) /\ x + X < M
        /\ Pans(v, Down, p) <=> p[2] > y + Y - BLOCK * (PAN_BORDER + 1) /\ y + Y < N
        /\ Pans(v, Left, p) <=> p[1] < x + BLOCK * PAN_BORDER /\ x > SHOW_MIN
    BY PansIs
  <1>5. /\ a + 1 > x + X - BLOCK * (PAN_BORDER + 1) /\ x + X < M => InView(a + 1, x + 1, X, M)
        /\ ~(a + 1 > x + X - BLOCK * (PAN_BORDER + 1) /\ x + X < M) => InView(a + 1, x, X, M)
        /\ a - 1 < x + BLOCK * PAN_BORDER /\ x > SHOW_MIN => InView(a - 1, x - 1, X, M)
        /\ ~(a - 1 < x + BLOCK * PAN_BORDER /\ x > SHOW_MIN) => InView(a - 1, x, X, M)
    <2>1. X >= 2 * (BLOCK * PAN_BORDER) + BLOCK
      BY BlockSizes
    <2> HIDE DEF a, x, X, M
    <2>2. QED
      BY <1>1, <1>2, <2>1, AxisFollows
  <1>6. /\ b + 1 > y + Y - BLOCK * (PAN_BORDER + 1) /\ y + Y < N => InView(b + 1, y + 1, Y, N)
        /\ ~(b + 1 > y + Y - BLOCK * (PAN_BORDER + 1) /\ y + Y < N) => InView(b + 1, y, Y, N)
        /\ b - 1 < y + BLOCK * PAN_BORDER /\ y > SHOW_MIN => InView(b - 1, y - 1, Y, N)
        /\ ~(b - 1 < y + BLOCK * PAN_BORDER /\ y > SHOW_MIN) => InView(b - 1, y, Y, N)
    <2>1. Y >= 2 * (BLOCK * PAN_BORDER) + BLOCK
      BY BlockSizes
    <2> HIDE DEF b, y, Y, N
    <2>2. QED
      BY <1>1, <1>2, <2>1, AxisFollows
  <1>7. ~Pans(v, d, p) => u.x = x /\ u.y = y
    OBVIOUS
  <1>8. /\ Follows(level, u, p) <=> InView(p[1], u.x, X, M) /\ InView(p[2], u.y, Y, N)
    BY DEF Follows
  <1>9. Pans(v, d, p) => <<u.x, u.y>> = Toward(<<x, y>>, d, 1)
    OBVIOUS
  <1> HIDE DEF a, b, x, y, X, Y, M, N
  <1>10. d = Up \/ d = Right \/ d = Down \/ d = Left
    BY DEF Dirs
  <1>11. CASE d = Up
    <2>1. p = <<a, b - 1>> /\ p[1] = a /\ p[2] = b - 1
      BY <1>3, <1>11
    <2>2. CASE Pans(v, Up, p)
      BY <1>2, <1>3, <1>4, <1>6, <1>8, <1>9, <1>11, <2>1, <2>2
    <2>3. CASE ~Pans(v, Up, p)
      BY <1>2, <1>4, <1>6, <1>7, <1>8, <1>11, <2>1, <2>3
    <2>4. QED
      BY <2>2, <2>3
  <1>12. CASE d = Down
    <2>1. p = <<a, b + 1>> /\ p[1] = a /\ p[2] = b + 1
      BY <1>3, <1>12
    <2>2. CASE Pans(v, Down, p)
      BY <1>2, <1>3, <1>4, <1>6, <1>8, <1>9, <1>12, <2>1, <2>2
    <2>3. CASE ~Pans(v, Down, p)
      BY <1>2, <1>4, <1>6, <1>7, <1>8, <1>12, <2>1, <2>3
    <2>4. QED
      BY <2>2, <2>3
  <1>13. CASE d = Left
    <2>1. p = <<a - 1, b>> /\ p[1] = a - 1 /\ p[2] = b
      BY <1>3, <1>13
    <2>2. CASE Pans(v, Left, p)
      BY <1>2, <1>3, <1>4, <1>5, <1>8, <1>9, <1>13, <2>1, <2>2
    <2>3. CASE ~Pans(v, Left, p)
      BY <1>2, <1>4, <1>5, <1>7, <1>8, <1>13, <2>1, <2>3
    <2>4. QED
      BY <2>2, <2>3
  <1>14. CASE d = Right
    <2>1. p = <<a + 1, b>> /\ p[1] = a + 1 /\ p[2] = b
      BY <1>3, <1>14
    <2>2. CASE Pans(v, Right, p)
      BY <1>2, <1>3, <1>4, <1>5, <1>8, <1>9, <1>14, <2>1, <2>2
    <2>3. CASE ~Pans(v, Right, p)
      BY <1>2, <1>4, <1>5, <1>7, <1>8, <1>14, <2>1, <2>3
    <2>4. QED
      BY <2>2, <2>3
  <1>15. QED
    BY <1>10, <1>11, <1>12, <1>13, <1>14

(* A window that shows the left boundary when the player is next to the     *)
(* right one, or the other way round, would be too wide.                    *)
LEMMA OwnCellsHere ==
  ASSUME NEW l \in Mazes, NEW v, v \in Views, NEW s \in l.open,
         Follows(l, v, <<BLOCK * s[1], BLOCK * s[2]>>), InLevel(l, v)
  PROVE  OwnCells(l, v, s)
  <1> DEFINE n == l.x_dim
             i == s[1]
             t == BLOCK * n
             b == BLOCK * PAN_BORDER
             a == BLOCK * i
             x == v.x
             X == SCROLL_X_DIM
             lim == Lim(n)
  <1>1. s \in Inner(l) /\ s \in Nat \X Nat
    BY InnerCell
  <1>2. n \in Nat /\ n >= 1 /\ i \in Nat /\ x \in Nat /\ X \in Nat /\ BLOCK \in Nat /\ SHOW_MIN \in Nat
        /\ SHOW_MIN <= BLOCK /\ BLOCK >= 1 /\ BLOCK \in Nat \ {0}
    BY <1>1, MazeIs, BlockSizes, Sizes DEF Views
  <1>3. InView(a, x, X, lim)
    BY DEF Follows
  <1>4. /\ SHOW_MIN <= x /\ x + X <= lim
        /\ a >= x + b \/ x = SHOW_MIN
        /\ a <= x + X - (b + BLOCK) \/ x + X = lim
        /\ b \in Nat /\ b >= BLOCK
    BY <1>3, BlockSizes DEF InView
  <1>5. /\ t \in Int /\ a \in Int /\ lim = 2 * t + BLOCK - SHOW_MIN
        /\ X <= 2 * t - BLOCK
        /\ BLOCK * (2 * n) = 2 * t /\ BLOCK * (2 * n - 2) = 2 * t - 2 * BLOCK
        /\ BLOCK * 2 = 2 * BLOCK
    <2>1. BLOCK * (2 * n - 1) = 2 * t - BLOCK /\ X <= BLOCK * (2 * n - 1)
      BY <1>2, MazeIs
    <2>2. (2 * n + 1) * BLOCK = 2 * t + BLOCK /\ t \in Int /\ a \in Int
          /\ BLOCK * (2 * n) = 2 * t /\ BLOCK * (2 * n - 2) = 2 * t - 2 * BLOCK
          /\ BLOCK * 2 = 2 * BLOCK
      BY <1>2
    <2>3. lim = (2 * n + 1) * BLOCK - SHOW_MIN
      BY DEF Lim
    <2>4. lim = 2 * t + BLOCK - SHOW_MIN
      <3> DEFINE e == (2 * n + 1) * BLOCK
      <3>1. e = 2 * t + BLOCK /\ lim = e - SHOW_MIN /\ t \in Int
        BY <2>2, <2>3
      <3> HIDE DEF e, t, lim
      <3>2. QED
        BY <1>2, <3>1
    <2>5. X <= 2 * t - BLOCK
      <3> HIDE DEF a, t, n, lim, X
      <3>1. QED
        BY <2>1
    <2>6. QED
      BY <2>2, <2>4, <2>5
  <1>6. ASSUME NEW w1 \in Nat, x <= w1, w1 < x + X
        PROVE  /\ i <= 2 => w1 \div BLOCK # 2 * n
               /\ i >= 2 * n - 2 => w1 \div BLOCK # 0
    <2> DEFINE k == w1 \div BLOCK
               r == w1 % BLOCK
    <2>1. w1 = BLOCK * k + r /\ r \in 0 .. (BLOCK - 1) /\ k \in Int
      <3>1. w1 \in Int
        OBVIOUS
      <3>2. QED
        BY <1>2, <3>1, Parts
    <2> HIDE DEF k, r, x, X, b, lim
    <2>2. ASSUME i <= 2, k = 2 * n PROVE FALSE
      <3>1. w1 = 2 * t + r
        BY <1>5, <2>1, <2>2
      <3>2. a <= 2 * BLOCK
        <4> HIDE DEF i
        <4>1. QED
          BY <1>2, <1>5, <2>2, TimesMonotone
      <3> HIDE DEF a, t
      <3>3. QED
        BY <1>2, <1>4, <1>5, <1>6, <2>1, <3>1, <3>2
    <2>3. ASSUME i >= 2 * n - 2, k = 0 PROVE FALSE
      <3>1. w1 = r
        BY <1>2, <2>1, <2>3
      <3>2. 2 * t - 2 * BLOCK <= a
        <4>1. 2 * n - 2 \in Int /\ 2 * n - 2 <= i
          BY <1>2, <2>3
        <4> DEFINE h == 2 * n - 2
        <4> HIDE DEF i, h
        <4>2. BLOCK * h <= BLOCK * i
          BY <1>2, <4>1, TimesMonotone DEF h
        <4>3. QED
          BY <1>5, <4>2 DEF h
      <3> HIDE DEF a, t
      <3>3. QED
        BY <1>2, <1>4, <1>5, <1>6, <2>1, <3>1, <3>2
    <2>4. QED
      BY <2>2, <2>3 DEF k
  <1>7. ASSUME NEW q \in Nearby(s), NEW w \in Window(v), q \in Lattice(l), Cell(l, q) = Cell(l, BlockOf(w))
        PROVE  q = BlockOf(w)
    <2>1. BlockOf(w) \in Lattice(l)
      BY WindowInLattice
    <2>2. \/ q = BlockOf(w)
          \/ q[1] = 0 /\ BlockOf(w)[1] = 2 * n
          \/ q[1] = 2 * n /\ BlockOf(w)[1] = 0
      BY <1>7, <2>1, CellShared
    <2>3. w[1] \in Nat /\ x <= w[1] /\ w[1] < x + X /\ BlockOf(w)[1] = w[1] \div BLOCK
      BY InWindow DEF BlockOf
    <2>4. i - 2 <= q[1] /\ q[1] <= i + 2 /\ q[1] \in Int
      BY <1>1 DEF Nearby, Toward, Dirs, Up, Down, Left, Right
    <2>5. ASSUME q[1] = 0, BlockOf(w)[1] = 2 * n PROVE FALSE
      <3>1. i <= 2
        BY <1>2, <2>4, <2>5
      <3>2. QED
        BY <1>6, <2>3, <2>5, <3>1
    <2>6. ASSUME q[1] = 2 * n, BlockOf(w)[1] = 0 PROVE FALSE
      <3>1. i >= 2 * n - 2
        BY <1>2, <2>4, <2>6
      <3>2. QED
        BY <1>6, <2>3, <2>6, <3>1
    <2>7. QED
      BY <2>2, <2>5, <2>6
  <1>8. QED
    BY <1>7 DEF OwnCells

(* The first window shows the player.                                       *)
LEMMA StartFollows ==
  ASSUME NEW l \in Mazes, NEW v, v.x = SHOW_MIN, v.y = SHOW_MIN
  PROVE  Corridor(l, <<BLOCK, BLOCK>>) /\ Follows(l, v, <<BLOCK, BLOCK>>)
         /\ BlockOf(<<BLOCK, BLOCK>>) = <<1, 1>>
  <1>1. BLOCK \in Nat /\ BLOCK \div BLOCK = 1 /\ BLOCK % BLOCK = 0
    <2>1. BLOCK \in Nat \ {0} /\ 1 \in Int /\ 0 \in 0 .. (BLOCK - 1) /\ BLOCK * 1 + 0 = BLOCK
      BY BlockSizes
    <2>2. (BLOCK * 1 + 0) \div BLOCK = 1 /\ (BLOCK * 1 + 0) % BLOCK = 0
      BY <2>1, DivMod
    <2>3. QED
      BY <2>1, <2>2
  <1>2. BlockOf(<<BLOCK, BLOCK>>) = <<1, 1>>
    BY <1>1 DEF BlockOf
  <1>3. Corridor(l, <<BLOCK, BLOCK>>)
    BY <1>1, <1>2, MazeIs DEF Corridor
  <1>4. ASSUME NEW size \in Nat, NEW lim \in Int, size >= 2 * (BLOCK * PAN_BORDER) + BLOCK,
               SHOW_MIN + size <= lim
        PROVE  InView(BLOCK, SHOW_MIN, size, lim)
    <2> DEFINE b == BLOCK * PAN_BORDER
    <2>1. b \in Nat /\ b >= BLOCK /\ BLOCK \in Nat /\ SHOW_MIN \in Nat /\ SHOW_MIN <= BLOCK
          /\ BLOCK * (PAN_BORDER + 1) = b + BLOCK /\ size >= 2 * b + BLOCK
      BY <1>4, BlockSizes
    <2> HIDE DEF b
    <2>2. BLOCK <= SHOW_MIN + size - (b + BLOCK)
      BY <2>1
    <2>3. QED
      BY <1>4, <2>1, <2>2 DEF InView
  <1>5. InView(BLOCK, SHOW_MIN, SCROLL_X_DIM, Lim(l.x_dim))
    BY <1>4, BlockSizes, Sizes, MazeIs
  <1>6. InView(BLOCK, SHOW_MIN, SCROLL_Y_DIM, Lim(l.y_dim))
    BY <1>4, BlockSizes, Sizes, MazeIs
  <1>7. QED
    BY <1>2, <1>3, <1>5, <1>6 DEF Follows

-----------------------------------------------------------------------------
(* The inductive invariant. Until the player has moved nothing has changed  *)
(* since the level was drawn; that is why rtc_thread may leave the screen   *)
(* as it is.                                                                *)
DisplayInv ==
  /\ phase \in {"prepare", "play", "won"} /\ need_redraw \in BOOLEAN /\ ticks \in 0 .. MaxTicks
  /\ level \in Mazes /\ MazeOk(level, maze, n_fruits)
  /\ Sound(view)
  /\ Corridor(level, player)
  /\ block_mask \in Background /\ screen \in [Places -> Pixel]
  /\ phase = "prepare" => player = <<BLOCK, BLOCK>>
  /\ phase # "prepare" => Follows(level, view, player) /\ Picture(level, maze, n_fruits, view)
  /\ phase = "play" /\ ~need_redraw => player = <<BLOCK, BLOCK>> /\ Settled(level, maze, <<1, 1>>)
  /\ phase = "play" /\ (ticks = 0 \/ ~need_redraw) => screen = Shown(level, maze, n_fruits, view, player)

(* The frame decides what follows, and what is shown.                       *)
LEMMA SameFollows ==
  ASSUME NEW u, NEW v, SameFrame(u, v)
  PROVE  /\ \A l, p : Follows(l, u, p) <=> Follows(l, v, p)
         /\ \A l, m, n, p : Shown(l, m, n, u, p) = Shown(l, m, n, v, p)
  BY DEF SameFrame, Follows, Shown, InMap

(* Before the first level.                                                  *)
LEMMA InitHolds == Init => DisplayInv
  <1> SUFFICES ASSUME Init PROVE DisplayInv
    OBVIOUS
  <1>1. level \in Mazes /\ MazeOk(level, maze, n_fruits)
    BY NewMazeIsOk DEF Init
  <1>2. Sound(view)
    <2>1. BUILD_BASE_INIT = BUILD_BASE_INIT - (0 \div 4) - (0 * SCROLL_X_WIDTH)
      BY Sizes
    <2>2. Fits(BUILD_BASE_INIT, 0, 0)
      BY <2>1, Recentred
    <2>3. view = [x |-> 0, y |-> 0, off |-> BUILD_BASE_INIT,
                  build |-> [i \in Buffer |-> Unset], fence |-> TRUE]
      BY DEF Init
    <2>4. [i \in Buffer |-> Unset] \in [Buffer -> Pixel] /\ BUILD_BASE_INIT \in Int
      BY UnsetIsPixel, Sizes
    <2>5. view \in Views /\ view.fence /\ view.off = BUILD_BASE_INIT /\ view.x = 0 /\ view.y = 0
      BY <2>3, <2>4 DEF Views
    <2>6. QED
      BY <2>2, <2>5 DEF Sound
  <1>3. player = <<BLOCK, BLOCK>> /\ Corridor(level, player)
    <2>1. [x |-> SHOW_MIN, y |-> SHOW_MIN].x = SHOW_MIN /\ [x |-> SHOW_MIN, y |-> SHOW_MIN].y = SHOW_MIN
      OBVIOUS
    <2>2. QED
      BY <1>1, <2>1, StartFollows DEF Init
  <1>4. block_mask \in Background /\ screen \in [Places -> Pixel]
    BY UnsetIsPixel DEF Init, Background
  <1>5. ticks \in 0 .. MaxTicks
    BY DisplayAssumption DEF Init
  <1>6. QED
    BY <1>1, <1>2, <1>3, <1>4, <1>5 DEF Init, DisplayInv

(* prepare_maze_level draws the whole window, then the player is shown.     *)
LEMMA StartLevelHolds ==
  ASSUME DisplayInv, StartLevel
  PROVE  DisplayInv'
  <1> DEFINE v == set_view_window(view, SHOW_MIN, SHOW_MIN)
             picture == [w \in Window(v) |-> Image(level, maze, n_fruits, w)]
             drawn == Paint(v, picture)
             u == unveil_around_player(level, maze, n_fruits, drawn, <<1, 1>>)
             start == <<BLOCK, BLOCK>>
  <1>1. /\ maze' = u.maze /\ n_fruits' = u.n_fruits
        /\ Redraw(u.view, player)
        /\ phase' = "play" /\ level' = level /\ player' = player
        /\ need_redraw' = need_redraw /\ ticks' = ticks
    BY DEF StartLevel
  <1>2. /\ level \in Mazes /\ MazeOk(level, maze, n_fruits) /\ Sound(view)
        /\ block_mask \in Background /\ player = start
        /\ Corridor(level, player)
        /\ need_redraw \in BOOLEAN /\ ticks \in 0 .. MaxTicks
    BY DEF DisplayInv, StartLevel
  <1>3. Sound(v) /\ v.x = SHOW_MIN /\ v.y = SHOW_MIN
    <2>1. SHOW_MIN \in Nat
      BY BlockSizes
    <2>2. Sound(view)
      BY <1>2
    <2>3. v = set_view_window(view, SHOW_MIN, SHOW_MIN)
      OBVIOUS
    <2> HIDE DEF v
    <2>4. QED
      BY <2>1, <2>2, <2>3, SetViewIs
  <1> HIDE DEF v
  <1>4. /\ DOMAIN picture = Window(v)
        /\ \A w \in DOMAIN picture : picture[w] = Image(level, maze, n_fruits, w) /\ picture[w] \in Pixel
    <2>1. \A w \in Window(v) : w \in Int \X Int
      BY <1>3, InWindow DEF Sound
    <2>2. QED
      BY <2>1, ImageIs
  <1> HIDE DEF picture
  <1>5. /\ Sound(drawn) /\ SameFrame(drawn, v)
        /\ \A w \in Window(v) : At(drawn, w) = Image(level, maze, n_fruits, w)
    BY <1>3, <1>4, PaintIs
  <1> HIDE DEF drawn
  <1>6. Window(drawn) = Window(v)
    BY <1>5, SameWindow
  <1>7. Picture(level, maze, n_fruits, drawn)
    BY <1>5, <1>6 DEF Picture
  <1>8. /\ Follows(level, v, start) /\ Follows(level, drawn, start)
    BY <1>2, <1>3, <1>5, StartFollows, SameFollows
  <1>9. InLevel(level, drawn)
    BY <1>2, <1>5, <1>8, FollowsShows DEF Sound
  <1>10. <<1, 1>> \in level.open
    BY <1>2, MazeIs
  <1>11. OwnCells(level, drawn, <<1, 1>>)
    <2> DEFINE s == <<1, 1>>
    <2>1. <<BLOCK * s[1], BLOCK * s[2]>> = start
      BY BlockSizes
    <2> HIDE DEF s, start
    <2>2. s \in level.open
      BY <1>10 DEF s
    <2>3. OwnCells(level, drawn, s)
      BY <1>2, <1>5, <1>8, <1>9, <2>1, <2>2, OwnCellsHere DEF Sound
    <2>4. QED
      BY <2>3 DEF s
  <1>12. /\ Sound(u.view) /\ SameFrame(u.view, drawn)
         /\ MazeOk(level, u.maze, u.n_fruits)
         /\ Picture(level, u.maze, u.n_fruits, u.view)
         /\ Settled(level, u.maze, <<1, 1>>)
    BY <1>2, <1>5, <1>7, <1>9, <1>10, <1>11, UnveilIs
  <1> HIDE DEF u, start
  <1>13. Follows(level, u.view, start)
    BY <1>8, <1>12, SameFollows
  <1>14. OnScreen(u.view, player)
    BY <1>2, <1>12, <1>13, FollowsShows DEF Sound
  <1>15. /\ Sound(view') /\ SameFrame(view', u.view) /\ Picture(level, u.maze, u.n_fruits, view')
         /\ block_mask' \in Background
         /\ screen' = Shown(level, u.maze, u.n_fruits, u.view, player)
         /\ screen' \in [Places -> Pixel]
    BY <1>1, <1>2, <1>12, <1>14, RedrawIs
  <1>16. Follows(level, view', player)
         /\ Shown(level, u.maze, u.n_fruits, view', player) = Shown(level, u.maze, u.n_fruits, u.view, player)
    BY <1>2, <1>13, <1>15, SameFollows
  <1>17. QED
    BY <1>1, <1>2, <1>12, <1>15, <1>16 DEF DisplayInv, start

(* What a turn of the loop does before the player moves.                    *)
LEMMA UnveilHolds ==
  ASSUME DisplayInv, phase = "play",
         NEW u, u = IF OnSquare THEN unveil_around_player(level, maze, n_fruits, view, Square)
                    ELSE [maze |-> maze, n_fruits |-> n_fruits, view |-> view]
  PROVE  /\ Sound(u.view) /\ SameFrame(u.view, view)
         /\ MazeOk(level, u.maze, u.n_fruits)
         /\ Picture(level, u.maze, u.n_fruits, u.view)
         /\ Follows(level, u.view, player)
         /\ ~need_redraw => u.maze = maze /\ u.n_fruits = n_fruits /\ u.view = view
  <1>1. /\ level \in Mazes /\ MazeOk(level, maze, n_fruits) /\ Sound(view)
        /\ Corridor(level, player)
        /\ Follows(level, view, player) /\ Picture(level, maze, n_fruits, view)
    BY DEF DisplayInv
  <1>2. CASE ~OnSquare
    <2>1. u.maze = maze /\ u.n_fruits = n_fruits /\ u.view = view
      BY <1>2
    <2>2. QED
      BY <1>1, <2>1 DEF SameFrame
  <1>3. CASE OnSquare
    <2>1. u = unveil_around_player(level, maze, n_fruits, view, Square)
      BY <1>3
    <2>2. Square \in level.open
      BY <1>1 DEF Corridor, Square
    <2>3. player = <<BLOCK * Square[1], BLOCK * Square[2]>>
      <3>1. player[1] \in Int /\ player[2] \in Int /\ player = <<player[1], player[2]>> /\ BLOCK \in Nat \ {0}
        BY <1>1, CorridorBounds, BlockSizes
      <3>2. player[1] % BLOCK = 0 /\ player[2] % BLOCK = 0
        BY <1>3 DEF OnSquare
      <3>3. /\ player[1] = BLOCK * (player[1] \div BLOCK) + (player[1] % BLOCK)
            /\ player[1] \div BLOCK \in Int
        BY <3>1, Parts
      <3>4. /\ player[2] = BLOCK * (player[2] \div BLOCK) + (player[2] % BLOCK)
            /\ player[2] \div BLOCK \in Int
        BY <3>1, Parts
      <3> DEFINE i == player[1] \div BLOCK
                 j == player[2] \div BLOCK
                 a == player[1]
                 b == player[2]
      <3>5. a = BLOCK * i /\ b = BLOCK * j
        <4>1. a = BLOCK * i + 0 /\ b = BLOCK * j + 0 /\ i \in Int /\ j \in Int /\ BLOCK \in Int
          BY <3>1, <3>2, <3>3, <3>4
        <4> HIDE DEF a, b, i, j
        <4>2. QED
          BY <4>1
      <3>6. Square = <<i, j>>
        BY DEF Square, BlockOf
      <3> HIDE DEF i, j
      <3>7. Square[1] = i /\ Square[2] = j
        BY <3>6
      <3>8. QED
        BY <3>1, <3>5, <3>7
    <2>4. InLevel(level, view)
      BY <1>1, FollowsShows DEF Sound
    <2>5. OwnCells(level, view, Square)
      BY <1>1, <2>2, <2>3, <2>4, OwnCellsHere DEF Sound
    <2>6. /\ Sound(u.view) /\ SameFrame(u.view, view)
          /\ MazeOk(level, u.maze, u.n_fruits)
          /\ Picture(level, u.maze, u.n_fruits, u.view)
      BY <1>1, <2>1, <2>2, <2>4, <2>5, UnveilIs
    <2>7. Follows(level, u.view, player)
      BY <1>1, <2>6, SameFollows
    <2>8. ASSUME ~need_redraw
          PROVE  u.maze = maze /\ u.n_fruits = n_fruits /\ u.view = view
      <3>1. player = <<BLOCK, BLOCK>> /\ Settled(level, maze, <<1, 1>>)
        BY <2>8 DEF DisplayInv
      <3>2. Square = <<1, 1>>
        <4>1. [x |-> SHOW_MIN, y |-> SHOW_MIN].x = SHOW_MIN /\ [x |-> SHOW_MIN, y |-> SHOW_MIN].y = SHOW_MIN
          OBVIOUS
        <4>2. QED
          BY <1>1, <3>1, <4>1, StartFollows DEF Square
      <3>3. u = [maze |-> maze, n_fruits |-> n_fruits, view |-> view]
        BY <1>1, <2>1, <2>2, <3>1, <3>2, UnveilAgain
      <3>4. QED
        BY <3>3
    <2>9. QED
      BY <2>6, <2>7, <2>8
  <1>4. QED
    BY <1>2, <1>3

(* A move keeps the picture and the player in the view.                     *)
LEMMA MoveHolds ==
  ASSUME level \in Mazes, NEW m, NEW n, NEW v, MazeOk(level, m, n), Sound(v),
         Picture(level, m, n, v), Follows(level, v, player), Corridor(level, player),
         NEW d \in Dirs, Move(d, v, m, n)
  PROVE  /\ Sound(view') /\ Picture(level, m, n, view')
         /\ Corridor(level, player') /\ Follows(level, view', player')
         /\ need_redraw' = TRUE
  <1>1. /\ MayMove(m, d) /\ player' = Toward(player, d, 1) /\ need_redraw' = TRUE
        /\ view' = IF Pans(v, d, player') THEN Pan(v, d, m, n) ELSE v
    BY DEF Move
  <1>2. Corridor(level, player')
    BY <1>1, StepInCorridor
  <1>3. v \in Views /\ player \in Nat \X Nat /\ v.x \in Nat /\ v.y \in Nat /\ SHOW_MIN \in Nat
    BY BlockSizes DEF Sound, Views, Corridor
  <1>4. CASE Pans(v, d, player')
    <2>1. d = Up => v.y > 0
      <3>1. d = Up => v.y > SHOW_MIN
        BY <1>4, PansIs
      <3>2. QED
        BY <1>3, <3>1
    <2>2. d = Left => v.x > 0
      <3>1. d = Left => v.x > SHOW_MIN
        BY <1>4, PansIs
      <3>2. QED
        BY <1>3, <3>1
    <2>3. view' = Pan(v, d, m, n)
      BY <1>1, <1>4
    <2>4. /\ Sound(view') /\ Picture(level, m, n, view')
          /\ <<view'.x, view'.y>> = Toward(<<v.x, v.y>>, d, 1)
      BY <2>1, <2>2, <2>3, PanIs
    <2>5. Follows(level, view', player')
      BY <1>1, <1>3, <1>4, <2>4, ViewFollows
    <2>6. QED
      BY <1>1, <1>2, <2>4, <2>5
  <1>5. CASE ~Pans(v, d, player')
    <2>1. view' = v
      BY <1>1, <1>5
    <2>2. Follows(level, view', player')
      BY <1>1, <1>3, <1>5, <2>1, ViewFollows
    <2>3. QED
      BY <1>1, <1>2, <2>1, <2>2
  <1>6. QED
    BY <1>4, <1>5

(* A turn of the loop: the squares around, then a move or none.             *)
LEMMA IterateHolds ==
  ASSUME DisplayInv, Iterate
  PROVE  DisplayInv'
  <1> DEFINE u == IF OnSquare THEN unveil_around_player(level, maze, n_fruits, view, Square)
                  ELSE [maze |-> maze, n_fruits |-> n_fruits, view |-> view]
             moves == \E d \in Dirs : Move(d, u.view, u.maze, u.n_fruits)
  <1>1. /\ phase = "play" /\ ticks < MaxTicks
        /\ maze' = u.maze /\ n_fruits' = u.n_fruits
        /\ \/ phase' = "won" /\ Stay(u.view)
           \/ phase' = "play" /\ moves
           \/ phase' = "play" /\ Stay(u.view)
        /\ ticks' = ticks + 1
        /\ level' = level /\ block_mask' = block_mask /\ screen' = screen
    BY DEF Iterate
  <1>2. /\ level \in Mazes /\ Corridor(level, player)
        /\ block_mask \in Background /\ screen \in [Places -> Pixel]
        /\ need_redraw \in BOOLEAN /\ ticks \in 0 .. MaxTicks
        /\ ~need_redraw => /\ player = <<BLOCK, BLOCK>> /\ Settled(level, maze, <<1, 1>>)
                           /\ screen = Shown(level, maze, n_fruits, view, player)
    BY <1>1 DEF DisplayInv
  <1>3. /\ Sound(u.view) /\ SameFrame(u.view, view)
        /\ MazeOk(level, u.maze, u.n_fruits)
        /\ Picture(level, u.maze, u.n_fruits, u.view)
        /\ Follows(level, u.view, player)
        /\ ~need_redraw => u.maze = maze /\ u.n_fruits = n_fruits /\ u.view = view
    BY <1>1, UnveilHolds
  <1>4. ticks' \in 0 .. MaxTicks /\ ticks' # 0
    <2>1. MaxTicks \in Nat
      BY DisplayAssumption
    <2>2. QED
      BY <1>1, <1>2, <2>1
  <1> HIDE DEF u
  <1>5. CASE Stay(u.view)
    <2>1. view' = u.view /\ player' = player /\ need_redraw' = need_redraw
      BY <1>5 DEF Stay
    <2>2. phase' \in {"play", "won"}
      BY <1>1
    <2>3. QED
      BY <1>1, <1>2, <1>3, <1>4, <2>1, <2>2 DEF DisplayInv
  <1>6. CASE phase' = "play" /\ moves
    <2>1. PICK d \in Dirs : Move(d, u.view, u.maze, u.n_fruits)
      BY <1>6
    <2>2. /\ Sound(view') /\ Picture(level, u.maze, u.n_fruits, view')
          /\ Corridor(level, player') /\ Follows(level, view', player')
          /\ need_redraw' = TRUE
      BY <1>2, <1>3, <2>1, MoveHolds
    <2>3. QED
      BY <1>1, <1>2, <1>3, <1>4, <1>6, <2>2 DEF DisplayInv
  <1>7. QED
    BY <1>1, <1>5, <1>6

(* The redraw after the moves, and the next level after a win.              *)
LEMMA ShowMovesHolds ==
  ASSUME DisplayInv, ShowMoves
  PROVE  DisplayInv'
  <1>1. /\ (phase = "play" /\ ticks > 0) \/ phase = "won"
        /\ IF need_redraw THEN Redraw(view, player) ELSE UNCHANGED <<view, block_mask, screen>>
        /\ ticks' = 0 /\ need_redraw' = need_redraw
    BY DEF ShowMoves
  <1>2. /\ level \in Mazes /\ MazeOk(level, maze, n_fruits) /\ Sound(view)
        /\ Corridor(level, player) /\ Follows(level, view, player)
        /\ Picture(level, maze, n_fruits, view)
        /\ block_mask \in Background /\ screen \in [Places -> Pixel]
        /\ need_redraw \in BOOLEAN
    BY <1>1 DEF DisplayInv
  <1>3. OnScreen(view, player)
    BY <1>2, FollowsShows DEF Sound
  <1>4. /\ Sound(view') /\ SameFrame(view', view) /\ Picture(level, maze, n_fruits, view')
        /\ block_mask' \in Background /\ screen' \in [Places -> Pixel]
        /\ phase = "play" => screen' = Shown(level, maze, n_fruits, view, player)
    <2>1. CASE need_redraw
      BY <1>1, <1>2, <1>3, <2>1, RedrawIs
    <2>2. CASE ~need_redraw
      <3>1. view' = view /\ block_mask' = block_mask /\ screen' = screen
        BY <1>1, <2>2
      <3>2. phase = "play" => screen = Shown(level, maze, n_fruits, view, player)
        BY <2>2 DEF DisplayInv
      <3>3. QED
        BY <1>2, <3>1, <3>2 DEF SameFrame
    <2>3. QED
      BY <2>1, <2>2
  <1>5. ticks' \in 0 .. MaxTicks
    BY <1>1, DisplayAssumption
  <1>6. CASE phase = "won"
    <2>1. /\ phase' = "prepare" /\ level' \in Mazes /\ maze' = MazeOf(level')
          /\ n_fruits' = Cardinality(level'.fruits) /\ player' = <<BLOCK, BLOCK>>
      BY <1>6 DEF ShowMoves
    <2>2. MazeOk(level', maze', n_fruits')
      BY <2>1, NewMazeIsOk
    <2>3. Corridor(level', player')
      <3>1. [x |-> SHOW_MIN, y |-> SHOW_MIN].x = SHOW_MIN /\ [x |-> SHOW_MIN, y |-> SHOW_MIN].y = SHOW_MIN
        OBVIOUS
      <3>2. QED
        BY <2>1, <3>1, StartFollows
    <2>4. QED
      BY <1>1, <1>2, <1>4, <1>5, <2>1, <2>2, <2>3 DEF DisplayInv
  <1>7. CASE phase # "won"
    <2>1. /\ phase = "play" /\ phase' = phase /\ level' = level /\ maze' = maze
          /\ n_fruits' = n_fruits /\ player' = player
      BY <1>1, <1>7 DEF ShowMoves
    <2>2. Follows(level, view', player)
          /\ Shown(level, maze, n_fruits, view', player) = Shown(level, maze, n_fruits, view, player)
      BY <1>2, <1>4, SameFollows
    <2>3. ~need_redraw => player = <<BLOCK, BLOCK>> /\ Settled(level, maze, <<1, 1>>)
      BY <2>1 DEF DisplayInv
    <2>4. QED
      BY <1>1, <1>2, <1>4, <1>5, <2>1, <2>2, <2>3 DEF DisplayInv
  <1>8. QED
    BY <1>6, <1>7

(* The invariant holds for every size of block, window, buffer and border   *)
(* and for all mazes that the assumptions admit.                            *)
THEOREM DisplayInvariant == Spec => []DisplayInv
  <1>1. Init => DisplayInv
    BY InitHolds
  <1>2. DisplayInv /\ [Next]_vars => DisplayInv'
    <2> SUFFICES ASSUME DisplayInv, [Next]_vars PROVE DisplayInv'
      OBVIOUS
    <2>1. CASE StartLevel
      BY <2>1, StartLevelHolds
    <2>2. CASE Iterate
      BY <2>2, IterateHolds
    <2>3. CASE ShowMoves
      BY <2>3, ShowMovesHolds
    <2>4. CASE UNCHANGED vars
      BY <2>4 DEF vars, DisplayInv, Corridor, Follows, Picture, Settled
    <2>5. QED
      BY <2>1, <2>2, <2>3, <2>4 DEF Next
  <1>3. QED
    BY <1>1, <1>2, PTL DEF Spec

(* modex.c: set_view_window, the drawing calls and mask never write outside *)
(* the build buffer, however far the game scrolls; no pixel of the window   *)
(* lies outside it; and the player never leaves the window, so that mask    *)
(* never clips.                                                             *)
THEOREM WindowIsRight == Spec => []WindowHolds
  <1>1. DisplayInv => WindowHolds
    <2> SUFFICES ASSUME DisplayInv PROVE WindowHolds
      OBVIOUS
    <2>1. TypeOK
      <3>1. maze \in [CellsOf(level.x_dim, level.y_dim) -> SUBSET Bits]
            /\ n_fruits \in 0 .. Cardinality(level.fruits)
        BY DEF DisplayInv, MazeOk, Boards, Cells
      <3>2. view.x \in Nat /\ view.y \in Nat /\ view.off \in Int /\ view.build \in [Buffer -> Pixel]
        BY DEF DisplayInv, Sound, Views
      <3>3. QED
        BY <3>1, <3>2 DEF DisplayInv, Corridor, Background, TypeOK
    <2>2. FenceHolds
      <3>1. Sound(view)
        BY DEF DisplayInv
      <3>2. QED
        BY <3>1, WindowInBuffer DEF FenceHolds, Sound
    <2>3. PlayerIsOnScreen
      BY FollowsShows DEF DisplayInv, PlayerIsOnScreen, OnScreen, Sound
    <2>4. QED
      BY <2>1, <2>2, <2>3 DEF WindowHolds
  <1>2. QED
    BY <1>1, DisplayInvariant, PTL

(* modex.c, maze.c and rtc_thread: what was drawn once, scrolled, moved in  *)
(* the buffer and partly redrawn is pixel by pixel what drawing the window  *)
(* now would give, in the build buffer always and on the screen, with the   *)
(* player on it, whenever the moves have been shown.                        *)
THEOREM PictureIsRight == Spec => []PictureIsTrue
  <1>1. DisplayInv => PictureIsTrue
    <2> SUFFICES ASSUME DisplayInv PROVE PictureIsTrue
      OBVIOUS
    <2>1. BuildHoldsView
      <3>1. Sound(view) /\ (phase # "prepare" => Picture(level, maze, n_fruits, view))
        BY DEF DisplayInv
      <3>2. QED
        BY <3>1, ByteAt DEF BuildHoldsView, Picture
    <2>2. ScreenIsPicture
      <3>1. phase = "play" /\ ticks = 0 => screen = Shown(level, maze, n_fruits, view, player)
        BY DEF DisplayInv
      <3>2. QED
        BY <3>1 DEF ScreenIsPicture, Shown, PlayerIs, PlayerPixel, Where
    <2>3. QED
      BY <2>1, <2>2 DEF PictureIsTrue
  <1>2. QED
    BY <1>1, DisplayInvariant, PTL
=============================================================================
