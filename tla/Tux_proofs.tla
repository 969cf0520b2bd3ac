----------------------------- MODULE Tux_proofs -----------------------------
(***************************************************************************)
(* The Tux controller's driver. First LineDiscipline: what goes to the     *)
(* controller is sent once and as whole commands, and what comes from it is*)
(* handled once and in order, for every size of ring, of packet, of        *)
(* command, of interrupt and of the room the driver offers. Then           *)
(* TuxProtocol: its safety with packets handled at any point of an ioctl,  *)
(* for all LED values and any number of resets and commands.               *)
(***************************************************************************)
EXTENDS LineDiscipline, TuxProtocol, SequenceTheorems, FiniteSetTheorems,
        WellFoundedInduction, TLAPS


(* A set of naturals with a member has a least one. *)
LEMMA LeastNat ==
  ASSUME NEW T \in SUBSET Nat, T # {}
  PROVE  \E m \in T : \A k \in T : m <= k
  <1> DEFINE R == {p \in Nat \X Nat : p[1] < p[2]}
  <1>1. IsWellFoundedOn(R, Nat)
    BY NatLessThanWellFounded DEF OpToRel
  <1> HIDE DEF R
  <1>2. \E x \in T : \A y \in T : ~ (<<y, x>> \in R)
    BY <1>1, WFMin
  <1>3. ASSUME NEW x \in T, NEW y \in T, ~ (<<y, x>> \in R) PROVE x <= y
    <2>1. x \in Nat /\ y \in Nat /\ ~(y < x)
      BY <1>3 DEF R
    <2>2. QED
      BY <2>1
  <1>4. QED
    BY <1>2, <1>3

(* Quotients and remainders. *)
LEMMA DivMod ==
  ASSUME NEW a \in Nat, NEW b \in Nat \ {0}
  PROVE  /\ a \div b \in Nat /\ a % b \in 0 .. b - 1
         /\ a = b * (a \div b) + (a % b)
  OBVIOUS

LEMMA TimesMonotone ==
  ASSUME NEW b \in Nat, NEW x \in Int, NEW y \in Int, x <= y
  PROVE  b * x <= b * y
  <1>1. b * (y - x) >= 0
    OBVIOUS
  <1>2. b * (y - x) = b * y - b * x
    OBVIOUS
  <1>3. QED
    BY <1>1, <1>2

LEMMA DivUnique ==
  ASSUME NEW a \in Nat, NEW b \in Nat \ {0}, NEW q \in Nat, NEW r \in 0 .. b - 1,
         a = b * q + r
  PROVE  a \div b = q /\ a % b = r
  <1> DEFINE d == a \div b
             m == a % b
  <1>1. d \in Nat /\ m \in 0 .. b - 1 /\ a = b * d + m
    BY DivMod
  <1> HIDE DEF d, m
  <1>2. b * d \in Int /\ b * q \in Int
    BY <1>1
  <1>3. ~(d >= q + 1)
    <2> SUFFICES ASSUME d >= q + 1 PROVE FALSE
      OBVIOUS
    <2>1. b * (q + 1) <= b * d
      BY TimesMonotone, <1>1
    <2>2. b * (q + 1) = b * q + b
      OBVIOUS
    <2>3. QED
      BY <1>1, <1>2, <2>1, <2>2
  <1>4. ~(q >= d + 1)
    <2> SUFFICES ASSUME q >= d + 1 PROVE FALSE
      OBVIOUS
    <2>1. b * (d + 1) <= b * q
      BY TimesMonotone, <1>1
    <2>2. b * (d + 1) = b * d + b
      BY <1>1
    <2>3. QED
      BY <1>1, <1>2, <2>1, <2>2
  <1>5. d = q
    BY <1>1, <1>3, <1>4
  <1>6. m = r
    BY <1>1, <1>2, <1>5
  <1>7. QED
    BY <1>5, <1>6 DEF d, m

LEMMA DivSmall ==
  ASSUME NEW b \in Nat \ {0}, NEW a \in 0 .. b - 1
  PROVE  a \div b = 0 /\ a % b = a
  <1>1. a \in Nat /\ a = b * 0 + a
    OBVIOUS
  <1>2. QED
    BY <1>1, DivUnique

-----------------------------------------------------------------------------
(* The rings. *)
Bytes == Nat \X Nat
B == TUXCTL_BUFSIZE

LEMMA Ring == B \in Nat /\ B > 1 /\ Slots = 0 .. (B - 1)
  BY LineDisciplineAssumption DEF B, Slots

LEMMA Wrap ==
  ASSUME NEW a \in Nat, a < 2 * B
  PROVE  a % B = IF a < B THEN a ELSE a - B
  <1>0. B \in Nat \ {0}
    BY Ring
  <1>1. CASE a < B
    BY <1>0, <1>1, DivSmall
  <1>2. CASE a >= B
    <2> DEFINE r == a - B
    <2>1. a = B * 1 + r /\ r \in 0 .. B - 1
      BY <1>0, <1>2
    <2> HIDE DEF r
    <2>2. a % B = r
      BY <1>0, <2>1, DivUnique
    <2>3. QED
      BY <1>0, <1>2, <2>2 DEF r
  <1>3. QED
    BY <1>0, <1>1, <1>2

(* Which place of the ring's contents a slot is, and how many there are. *)
LEMMA Used ==
  ASSUME NEW r \in Rings
  PROVE  /\ r.start \in 0 .. (B - 1) /\ r.end \in 0 .. (B - 1)
         /\ buf_used(r) \in 0 .. (B - 1)
         /\ buf_used(r) = IF r.start <= r.end THEN r.end - r.start ELSE B + r.end - r.start
         /\ buf_room(r) = B - buf_used(r) - 1
         /\ r.buf \in [0 .. (B - 1) -> Bytes]
  <1>1. r.start \in 0 .. (B - 1) /\ r.end \in 0 .. (B - 1) /\ r.buf \in [0 .. (B - 1) -> Bytes]
    BY Ring DEF Rings, Bytes
  <1>2. buf_used(r) = IF r.start <= r.end THEN r.end - r.start ELSE B + r.end - r.start
    BY DEF buf_used, B
  <1>3. QED
    BY <1>1, <1>2, Ring DEF buf_room, B

SlotAt(r, j) == (r.start + j - 1) % B

LEMMA SlotPlace ==
  ASSUME NEW r \in Rings, NEW j \in 1 .. B
  PROVE  /\ SlotAt(r, j) \in 0 .. (B - 1)
         /\ (SlotAt(r, j) + B - r.end) % B =
              IF j > buf_used(r) THEN j - 1 - buf_used(r) ELSE B + j - 1 - buf_used(r)
  <1> DEFINE s == r.start
             e == r.end
             u == buf_used(r)
             a == s + j - 1
             i == SlotAt(r, j)
             d == i + B - e
  <1>1. /\ B \in Nat /\ B > 1 /\ s \in 0 .. (B - 1) /\ e \in 0 .. (B - 1) /\ u \in 0 .. (B - 1)
        /\ u = IF s <= e THEN e - s ELSE B + e - s
    BY Used, Ring
  <1>2. a \in Nat /\ a < 2 * B
    BY <1>1
  <1>3. i = IF a < B THEN a ELSE a - B
    BY <1>2, Wrap DEF SlotAt
  <1>4. i \in 0 .. (B - 1)
    BY <1>1, <1>2, <1>3
  <1> HIDE DEF i, s, e, u
  <1>5. d \in Nat /\ d < 2 * B
    BY <1>1, <1>4
  <1>6. d % B = IF d < B THEN d ELSE d - B
    <2> HIDE DEF d
    <2>1. QED
      BY <1>5, Wrap
  <1>7. (IF d < B THEN d ELSE d - B) = IF j > u THEN j - 1 - u ELSE B + j - 1 - u
    BY <1>1, <1>3, <1>4
  <1>8. QED
    BY <1>4, <1>6, <1>7 DEF i, s, e, u

LEMMA PlacesDiffer ==
  ASSUME NEW r \in Rings, NEW n \in 0 .. buf_used(r)
  PROVE  LET q == Rest(r, n)
         IN  /\ q \in Rings /\ buf_used(q) = buf_used(r) - n
             /\ \A j \in 1 .. (buf_used(r) - n) : SlotAt(q, j) = SlotAt(r, n + j)
  <1> DEFINE q == Rest(r, n)
             s == r.start
             e == r.end
             u == buf_used(r)
             a == s + n
  <1>1. /\ B \in Nat /\ B > 1 /\ s \in 0 .. (B - 1) /\ e \in 0 .. (B - 1) /\ u \in 0 .. (B - 1)
        /\ u = (IF s <= e THEN e - s ELSE B + e - s) /\ n \in 0 .. u
    BY Used, Ring
  <1>2. a \in Nat /\ a < 2 * B
    BY <1>1
  <1>3. a % B = IF a < B THEN a ELSE a - B
    <2> HIDE DEF a
    <2>1. QED
      BY <1>2, Wrap
  <1>4. a % B \in 0 .. (B - 1)
    BY <1>1, <1>2, <1>3
  <1>5. q = [r EXCEPT !.start = a % B]
    <2>1. Smaller(n, u) = n
      BY <1>1 DEF Smaller
    <2>2. QED
      BY <2>1 DEF Rest, B
  <1>6. q \in Rings /\ q.start = a % B /\ q.end = e
    BY <1>4, <1>5, Ring DEF Rings
  <1> HIDE DEF q
  <1>7. buf_used(q) = u - n
    <2>1. buf_used(q) = IF q.start <= q.end THEN q.end - q.start ELSE B + q.end - q.start
      BY <1>6, Used
    <2> HIDE DEF s, e, u
    <2>2. QED
      BY <1>1, <1>2, <1>3, <1>6, <2>1
  <1>8. ASSUME NEW j \in 1 .. (u - n) PROVE SlotAt(q, j) = SlotAt(r, n + j)
    <2> DEFINE x == q.start + j - 1
               y == s + (n + j) - 1
    <2> HIDE DEF s, u, e
    <2>1. x \in Nat /\ x < 2 * B /\ y \in Nat /\ y < 2 * B /\ (x = y \/ x + B = y)
      BY <1>1, <1>2, <1>3, <1>6
    <2>2. x = y \/ (x + B = y /\ x < B)
      BY <1>1, <2>1
    <2> HIDE DEF x, y
    <2>3. x % B = y % B
      BY <1>1, <2>1, <2>2, Wrap
    <2>4. QED
      BY <2>3 DEF SlotAt, x, y, s
  <1>9. QED
    BY <1>6, <1>7, <1>8 DEF q

LEMMA ContentsAt ==
  ASSUME NEW r \in Rings
  PROVE  /\ Contents(r) = [j \in 1 .. buf_used(r) |-> r.buf[SlotAt(r, j)]]
         /\ Contents(r) \in Seq(Bytes) /\ Len(Contents(r)) = buf_used(r)
         /\ \A j \in 1 .. buf_used(r) : r.buf[SlotAt(r, j)] \in Bytes
  <1> DEFINE u == buf_used(r)
             c == [j \in 1 .. u |-> r.buf[SlotAt(r, j)]]
  <1>1. u \in Nat /\ u < B /\ B \in Nat
    BY Used, Ring
  <1>2. Contents(r) = c
    <2>1. Smaller(u, u) = u
      BY <1>1 DEF Smaller
    <2>2. QED
      BY <2>1 DEF Contents, First, SlotAt, B
  <1>3. ASSUME NEW j \in 1 .. u PROVE r.buf[SlotAt(r, j)] \in Bytes
    <2>1. j \in 1 .. B
      BY <1>1
    <2>2. SlotAt(r, j) \in 0 .. (B - 1)
      BY <2>1, SlotPlace
    <2>3. QED
      BY <2>2, Used
  <1> HIDE DEF u
  <1>4. c \in Seq(Bytes) /\ Len(c) = u
    BY <1>1, <1>3
  <1>5. QED
    BY <1>2, <1>3, <1>4 DEF u

LEMMA TakeFrom ==
  ASSUME NEW r \in Rings, NEW n \in Nat
  PROVE  /\ Rest(r, n) \in Rings
         /\ First(r, n) \in Seq(Bytes)
         /\ Contents(Rest(r, n)) \in Seq(Bytes)
         /\ Contents(r) = First(r, n) \o Contents(Rest(r, n))
         /\ Len(First(r, n)) = Smaller(n, Len(Contents(r)))
  <1> DEFINE u == buf_used(r)
             m == Smaller(n, u)
             q == Rest(r, n)
             f == First(r, n)
             g == Contents(q)
             c == Contents(r)
  <1>1. u \in Nat /\ m \in 0 .. u
    BY Used, Ring DEF Smaller
  <1>2. q = Rest(r, m)
    <2>1. Smaller(m, u) = m
      BY <1>1 DEF Smaller
    <2>2. QED
      BY <2>1 DEF Rest
  <1>3. /\ q \in Rings /\ buf_used(q) = u - m
        /\ \A j \in 1 .. (u - m) : SlotAt(q, j) = SlotAt(r, m + j)
    <2> HIDE DEF m, q
    <2>1. QED
      BY <1>1, <1>2, PlacesDiffer
  <1>4. /\ c = [j \in 1 .. u |-> r.buf[SlotAt(r, j)]] /\ Len(c) = u
        /\ \A j \in 1 .. u : r.buf[SlotAt(r, j)] \in Bytes
        /\ c \in Seq(Bytes)
    BY ContentsAt
  <1>5. f = [j \in 1 .. m |-> r.buf[SlotAt(r, j)]]
    BY DEF First, SlotAt, B
  <1>6. q.buf = r.buf
    BY DEF Rest, Rings
  <1> HIDE DEF q
  <1>7. /\ g = [j \in 1 .. (u - m) |-> q.buf[SlotAt(q, j)]] /\ Len(g) = u - m
        /\ g \in Seq(Bytes)
    BY <1>3, ContentsAt
  <1> HIDE DEF u, m, f, g, c
  <1>8. f \in Seq(Bytes) /\ Len(f) = m
    BY <1>1, <1>4, <1>5
  <1>9. c = f \o g
    <2>1. f \o g \in Seq(Bytes) /\ Len(f \o g) = u
      BY <1>1, <1>7, <1>8
    <2>2. ASSUME NEW j \in 1 .. u PROVE c[j] = (f \o g)[j]
      <3>1. CASE j <= m
        <4>1. j \in 1 .. m
          BY <1>1, <3>1
        <4>2. (f \o g)[j] = f[j]
          BY <1>7, <1>8, <4>1
        <4>3. f[j] = r.buf[SlotAt(r, j)]
          BY <1>5, <4>1
        <4>4. c[j] = r.buf[SlotAt(r, j)]
          BY <1>4
        <4>5. QED
          BY <4>2, <4>3, <4>4
      <3>2. CASE j > m
        <4> DEFINE k == j - m
        <4>1. k \in 1 .. (u - m) /\ j = m + k
          BY <1>1, <3>2
        <4>2. (f \o g)[j] = g[k]
          BY <1>1, <1>7, <1>8, <3>2
        <4> HIDE DEF k
        <4>3. g[k] = r.buf[SlotAt(r, m + k)]
          BY <1>3, <1>6, <1>7, <4>1
        <4>4. QED
          BY <1>4, <4>1, <4>2, <4>3
      <3>3. j <= m \/ j > m
        BY <1>1
      <3>4. QED
        BY <3>1, <3>2, <3>3
    <2>3. QED
      BY <1>1, <1>4, <2>1, <2>2, SeqEqual
  <1>10. QED
    BY <1>3, <1>4, <1>7, <1>8, <1>9 DEF q, f, g, c, m, u

LEMMA PutBytes ==
  ASSUME NEW r \in Rings, NEW bytes \in Seq(Bytes)
  PROVE  /\ PutInto(r, bytes) \in Rings
         /\ Accepted(r, bytes) \in 0 .. Len(bytes)
         /\ Contents(PutInto(r, bytes))
              = Contents(r) \o SubSeq(bytes, 1, Accepted(r, bytes))
  <1> DEFINE s == r.start
             e == r.end
             u == buf_used(r)
             k == Accepted(r, bytes)
             q == PutInto(r, bytes)
             a == e + k
             t == SubSeq(bytes, 1, k)
             c == Contents(r)
             d == Contents(q)
  <1>1. /\ B \in Nat /\ B > 1 /\ s \in 0 .. (B - 1) /\ e \in 0 .. (B - 1) /\ u \in 0 .. (B - 1)
        /\ u = IF s <= e THEN e - s ELSE B + e - s
    BY Used, Ring
  <1>2. k \in 0 .. Len(bytes) /\ k <= B - u - 1 /\ k \in Nat
    <2>1. buf_room(r) = B - u - 1 /\ buf_room(r) \in Nat
      BY <1>1, Used
    <2>2. Len(bytes) \in Nat
      OBVIOUS
    <2>3. k = IF Len(bytes) < buf_room(r) THEN Len(bytes) ELSE buf_room(r)
      BY DEF Accepted, Smaller
    <2> HIDE DEF s, e, u, k
    <2>4. QED
      BY <2>1, <2>2, <2>3
  <1>3. /\ q.start = s /\ q.end = a % B
        /\ q = [buf |-> q.buf, start |-> q.start, end |-> q.end]
        /\ q.buf = [i \in 0 .. (B - 1) |->
                     IF (i + B - e) % B < k THEN bytes[((i + B - e) % B) + 1] ELSE r.buf[i]]
    <2> DEFINE f == [i \in Slots |->
                      IF (i + B - e) % B < k THEN bytes[((i + B - e) % B) + 1] ELSE r.buf[i]]
    <2>1. q = [buf |-> f, start |-> s, end |-> a % B]
      BY Zenon DEF PutInto, B
    <2>2. f = [i \in 0 .. (B - 1) |->
                 IF (i + B - e) % B < k THEN bytes[((i + B - e) % B) + 1] ELSE r.buf[i]]
      BY Ring, Zenon
    <2> HIDE DEF f, q, s, e, a, k
    <2>3. q.start = s /\ q.end = a % B /\ q.buf = f
      BY <2>1
    <2>4. QED
      BY <2>1, <2>2, <2>3, Zenon
  <1>4. a \in Nat /\ a < 2 * B
    <2>1. e \in 0 .. (B - 1) /\ B \in Nat /\ k \in Nat /\ k < B
      BY <1>1, <1>2
    <2> HIDE DEF e, k
    <2>2. QED
      BY <2>1
  <1>5. a % B = IF a < B THEN a ELSE a - B
    <2> HIDE DEF a
    <2>1. QED
      BY <1>4, Wrap
  <1>6. a % B \in 0 .. (B - 1)
    BY <1>1, <1>4, <1>5
  <1>7. q \in Rings
    <2>1. ASSUME NEW i \in 0 .. (B - 1)
          PROVE  (IF (i + B - e) % B < k THEN bytes[((i + B - e) % B) + 1] ELSE r.buf[i]) \in Bytes
      <3> DEFINE x == (i + B - e) % B
      <3>1. x \in Nat
        BY <1>1
      <3>2. r.buf[i] \in Bytes
        BY Used
      <3> HIDE DEF x, k
      <3>3. x < k => bytes[x + 1] \in Bytes
        BY <1>2, <3>1
      <3>4. QED
        BY <3>2, <3>3 DEF x
    <2>2. q.buf \in [0 .. (B - 1) -> Bytes]
      BY <1>3, <2>1
    <2> HIDE DEF q, k, e, s
    <2>3. QED
      BY <1>1, <1>3, <1>6, <2>2, Ring DEF Rings, Bytes
  <1> HIDE DEF q, k
  <1>8. buf_used(q) = u + k
    <2>1. buf_used(q) = IF q.start <= q.end THEN q.end - q.start ELSE B + q.end - q.start
      BY <1>7, Used
    <2>2. q.end = IF a < B THEN a ELSE a - B
      BY <1>3, <1>5, Zenon
    <2> HIDE DEF s, e, u
    <2>3. buf_used(q) = IF s <= q.end THEN q.end - s ELSE B + q.end - s
      BY <1>3, <2>1
    <2>4. k \in Nat /\ k <= B - u - 1
      BY <1>2
    <2>5. CASE e + k < B
      BY <1>1, <2>2, <2>3, <2>4, <2>5
    <2>6. CASE ~(e + k < B)
      BY <1>1, <2>2, <2>3, <2>4, <2>6
    <2>7. QED
      BY <2>5, <2>6
  <1>9. /\ c = [j \in 1 .. u |-> r.buf[SlotAt(r, j)]] /\ Len(c) = u /\ c \in Seq(Bytes)
    BY ContentsAt
  <1>10. /\ d = [j \in 1 .. (u + k) |-> q.buf[SlotAt(q, j)]] /\ Len(d) = u + k
         /\ d \in Seq(Bytes)
    BY <1>7, <1>8, ContentsAt
  <1>11. t \in Seq(Bytes) /\ Len(t) = k /\ \A j \in 1 .. k : t[j] = bytes[j]
    <2>1. 1 \in 1 .. Len(bytes) + 1
      BY <1>2
    <2>2. QED
      BY <1>2, <2>1
  <1>12. d = c \o t
    <2>1. c \o t \in Seq(Bytes) /\ Len(c \o t) = u + k
      <3>1. /\ c \in Seq(Bytes) /\ Len(c) = u /\ u \in Nat
            /\ t \in Seq(Bytes) /\ Len(t) = k /\ k \in Nat
        BY <1>1, <1>2, <1>9, <1>11
      <3> HIDE DEF c, t, u
      <3>2. QED
        BY <3>1
    <2>2. ASSUME NEW j \in 1 .. (u + k) PROVE d[j] = (c \o t)[j]
      <3>1. j \in 1 .. B
        BY <1>1, <1>2
      <3> DEFINE i == SlotAt(r, j)
                 x == (i + B - e) % B
      <3>2. /\ i \in 0 .. (B - 1)
            /\ x = IF j > u THEN j - 1 - u ELSE B + j - 1 - u
        BY <3>1, SlotPlace
      <3>3. SlotAt(q, j) = i
        BY <1>3 DEF SlotAt
      <3> HIDE DEF i
      <3>4. d[j] = IF x < k THEN bytes[x + 1] ELSE r.buf[i]
        <4>1. d[j] = q.buf[i]
          BY <1>10, <3>3
        <4>2. QED
          BY <1>3, <3>2, <4>1
      <3> HIDE DEF x, u, e, d, c, t
      <3>5. CASE j > u
        <4> DEFINE y == j - u
        <4>1. x = j - 1 - u
          BY <3>2, <3>5
        <4>2. u \in Nat /\ k \in Nat /\ j \in 1 .. (u + k)
          BY <1>1, <1>2
        <4>3. x = y - 1 /\ x < k /\ y \in 1 .. k /\ x + 1 = y /\ j = u + y
          BY <3>5, <4>1, <4>2
        <4> HIDE DEF y
        <4>4. (c \o t)[j] = t[y]
          BY <1>9, <1>11, <4>2, <4>3
        <4>5. QED
          BY <1>11, <3>4, <4>3, <4>4
      <3>6. CASE ~(j > u)
        <4>0. /\ u \in Nat /\ k \in Nat /\ j \in 1 .. (u + k) /\ k <= B - u - 1
              /\ B \in Nat /\ x = B + j - 1 - u
          BY <1>1, <1>2, <3>2, <3>6
        <4>1. ~(x < k) /\ j \in 1 .. u
          BY <3>6, <4>0
        <4>2. (c \o t)[j] = c[j]
          BY <1>1, <1>9, <1>11, <4>1
        <4>3. QED
          BY <1>9, <3>4, <4>1, <4>2 DEF i
      <3>7. QED
        BY <3>5, <3>6
    <2> DEFINE both == c \o t
    <2>3. /\ d \in Seq(Bytes) /\ both \in Seq(Bytes) /\ Len(d) = u + k /\ Len(d) = Len(both)
          /\ \A j \in 1 .. (u + k) : d[j] = both[j]
      <3> HIDE DEF d, u
      <3>1. QED
        BY <1>10, <2>1, <2>2
    <2> HIDE DEF c, t, d, u, both
    <2>4. d = both
      BY <2>3, SeqEqual
    <2>5. QED
      BY <2>4 DEF both
  <1>13. QED
    BY <1>2, <1>7, <1>12 DEF q, k

-----------------------------------------------------------------------------
(* Bytes in order. *)
LEMMA Joined ==
  ASSUME NEW s \in Seq(Bytes), NEW t \in Seq(Bytes)
  PROVE  /\ s \o t \in Seq(Bytes)
         /\ ToSet(s \o t) = ToSet(s) \cup ToSet(t)
         /\ IsInjective(s \o t) <=>
              IsInjective(s) /\ IsInjective(t) /\ ToSet(s) \cap ToSet(t) = {}
  <1> DEFINE u == s \o t
             m == Len(s)
             n == Len(t)
  <1>1. /\ m \in Nat /\ n \in Nat /\ DOMAIN s = 1 .. m /\ DOMAIN t = 1 .. n
        /\ u \in Seq(Bytes) /\ Len(u) = m + n /\ DOMAIN u = 1 .. (m + n)
    BY LenProperties, ConcatProperties
  <1>2. \A i \in 1 .. m : i \in 1 .. (m + n) /\ u[i] = s[i]
    BY <1>1, ConcatProperties
  <1>3. \A i \in 1 .. n : m + i \in 1 .. (m + n) /\ u[m + i] = t[i]
    <2> SUFFICES ASSUME NEW i \in 1 .. n
                 PROVE  m + i \in 1 .. (m + n) /\ u[m + i] = t[i]
      OBVIOUS
    <2> DEFINE k == m + i
    <2>1. k \in 1 .. (m + n) /\ ~(k <= m) /\ k - m = i
      BY <1>1
    <2> HIDE DEF k
    <2>2. u[k] = t[k - m]
      BY <2>1, ConcatProperties
    <2>3. QED
      BY <2>1, <2>2 DEF k
  <1>4. \A k \in 1 .. (m + n) : k \in 1 .. m \/ \E i \in 1 .. n : k = m + i
    <2> SUFFICES ASSUME NEW k \in 1 .. (m + n), k \notin 1 .. m
                 PROVE  \E i \in 1 .. n : k = m + i
      OBVIOUS
    <2>1. k - m \in 1 .. n /\ k = m + (k - m)
      BY <1>1
    <2>2. QED
      BY <2>1
  <1> HIDE DEF u, m, n
  <1>5. ToSet(u) = ToSet(s) \cup ToSet(t)
    <2>1. ASSUME NEW x \in ToSet(u) PROVE x \in ToSet(s) \cup ToSet(t)
      <3>1. PICK k \in 1 .. (m + n) : x = u[k]
        BY <1>1 DEF ToSet
      <3>2. CASE k \in 1 .. m
        BY <1>1, <1>2, <3>1, <3>2 DEF ToSet
      <3>3. CASE k \notin 1 .. m
        <4>1. PICK i \in 1 .. n : k = m + i
          BY <1>4, <3>3
        <4>2. x = t[i]
          BY <1>3, <3>1, <4>1
        <4>3. QED
          BY <1>1, <4>2 DEF ToSet
      <3>4. QED
        BY <3>2, <3>3
    <2>2. ASSUME NEW x \in ToSet(s) PROVE x \in ToSet(u)
      BY <1>1, <1>2 DEF ToSet
    <2>3. ASSUME NEW x \in ToSet(t) PROVE x \in ToSet(u)
      <3>1. PICK i \in 1 .. n : x = t[i]
        BY <1>1 DEF ToSet
      <3>2. x = u[m + i] /\ m + i \in 1 .. (m + n)
        BY <1>3, <3>1
      <3>3. QED
        BY <1>1, <3>2 DEF ToSet
    <2>4. QED
      BY <2>1, <2>2, <2>3
  <1>6. ASSUME IsInjective(u)
        PROVE  IsInjective(s) /\ IsInjective(t) /\ ToSet(s) \cap ToSet(t) = {}
    <2>1. IsInjective(s)
      BY <1>1, <1>2, <1>6 DEF IsInjective
    <2>2. IsInjective(t)
      <3> SUFFICES ASSUME NEW a \in 1 .. n, NEW b \in 1 .. n, t[a] = t[b]
                   PROVE  a = b
        BY <1>1 DEF IsInjective
      <3>1. m + a = m + b
        BY <1>1, <1>3, <1>6 DEF IsInjective
      <3>2. QED
        BY <1>1, <3>1
    <2>3. ToSet(s) \cap ToSet(t) = {}
      <3> SUFFICES ASSUME NEW a \in 1 .. m, NEW b \in 1 .. n, s[a] = t[b]
                   PROVE  FALSE
        BY <1>1 DEF ToSet
      <3>1. a = m + b
        BY <1>1, <1>2, <1>3, <1>6 DEF IsInjective
      <3>2. QED
        BY <1>1, <3>1
    <2>4. QED
      BY <2>1, <2>2, <2>3
  <1>7. ASSUME IsInjective(s), IsInjective(t), ToSet(s) \cap ToSet(t) = {}
        PROVE  IsInjective(u)
    <2> SUFFICES ASSUME NEW a \in 1 .. (m + n), NEW b \in 1 .. (m + n), u[a] = u[b]
                 PROVE  a = b
      BY <1>1 DEF IsInjective
    <2>1. CASE a \in 1 .. m /\ b \in 1 .. m
      BY <1>1, <1>2, <1>7, <2>1 DEF IsInjective
    <2>2. CASE a \notin 1 .. m /\ b \notin 1 .. m
      <3>1. PICK i \in 1 .. n, j \in 1 .. n : a = m + i /\ b = m + j
        BY <1>4, <2>2
      <3>2. t[i] = t[j]
        BY <1>3, <3>1
      <3>3. QED
        BY <1>1, <1>7, <3>1, <3>2 DEF IsInjective
    <2>3. CASE a \in 1 .. m /\ b \notin 1 .. m
      <3>1. PICK j \in 1 .. n : b = m + j
        BY <1>4, <2>3
      <3>2. s[a] = t[j]
        BY <1>2, <1>3, <2>3, <3>1
      <3>3. QED
        BY <1>1, <1>7, <2>3, <3>2 DEF ToSet
    <2>4. CASE a \notin 1 .. m /\ b \in 1 .. m
      <3>1. PICK i \in 1 .. n : a = m + i
        BY <1>4, <2>4
      <3>2. s[b] = t[i]
        BY <1>2, <1>3, <2>4, <3>1
      <3>3. QED
        BY <1>1, <1>7, <2>4, <3>2 DEF ToSet
    <2>5. QED
      BY <2>1, <2>2, <2>3, <2>4
  <1>8. QED
    BY <1>1, <1>5, <1>6, <1>7 DEF u

LEMMA NoBytes ==
  /\ <<>> \in Seq(Bytes) /\ ToSet(<<>>) = {} /\ IsInjective(<<>>) /\ Len(<<>>) = 0
  /\ \A s \in Seq(Bytes) : /\ s \o <<>> = s /\ <<>> \o s = s
                           /\ ToSet(s) = {} => s = <<>>
                           /\ Len(s) = 0 => s = <<>>
  <1>1. ASSUME NEW s \in Seq(Bytes) PROVE s \o <<>> = s /\ <<>> \o s = s
    BY ConcatEmptySeq
  <1>2. ASSUME NEW s \in Seq(Bytes), Len(s) = 0 PROVE s = <<>>
    BY <1>2, EmptySeq
  <1>3. ASSUME NEW s \in Seq(Bytes), ToSet(s) = {} PROVE s = <<>>
    <2>1. Len(s) \in Nat /\ DOMAIN s = 1 .. Len(s)
      BY LenProperties
    <2>2. ~(Len(s) > 0)
      <3>1. 1 \in 1 .. Len(s) => s[1] \in ToSet(s)
        BY <2>1 DEF ToSet
      <3>2. QED
        BY <1>3, <2>1, <3>1
    <2>3. QED
      BY <1>2, <2>1, <2>2
  <1>4. <<>> \in Seq(Bytes) /\ Len(<<>>) = 0 /\ DOMAIN <<>> = {}
    BY EmptySeq
  <1>5. ToSet(<<>>) = {} /\ IsInjective(<<>>)
    BY <1>4 DEF ToSet, IsInjective
  <1>6. QED
    BY <1>1, <1>2, <1>3, <1>4, <1>5

(* A sequence cut after n bytes. *)
LEMMA CutAt ==
  ASSUME NEW s \in Seq(Bytes), NEW n \in Nat
  PROVE  LET p == SubSeq(s, 1, Smaller(Len(s), n))
             q == SubSeq(s, n + 1, Len(s))
         IN  /\ p \in Seq(Bytes) /\ q \in Seq(Bytes) /\ s = p \o q
             /\ Len(p) = Smaller(Len(s), n)
             /\ Len(s) <= n => q = <<>> /\ p = s
             /\ q = <<>> => Len(s) <= n
  <1> DEFINE L == Len(s)
             m == Smaller(L, n)
             p == SubSeq(s, 1, m)
             q == SubSeq(s, n + 1, L)
  <1>1. L \in Nat /\ m \in 0 .. L /\ m = IF L < n THEN L ELSE n
    BY LenProperties DEF Smaller
  <1>2. \A i \in 1 .. L : s[i] \in Bytes
    BY ElementOfSeq
  <1> HIDE DEF L, m
  <1>3. p \in Seq(Bytes) /\ Len(p) = m
    BY <1>1, <1>2, SubSeqProperties
  <1>4. q \in Seq(Bytes) /\ (n + 1 <= L => Len(q) = L - n) /\ (n >= L => q = <<>>)
    <2>1. \A i \in (n + 1) .. L : s[i] \in Bytes
      BY <1>1, <1>2
    <2>2. n + 1 \in Int /\ L \in Int
      BY <1>1
    <2>3. q \in Seq(Bytes) /\ Len(q) = IF n + 1 <= L THEN L - (n + 1) + 1 ELSE 0
      <3> DEFINE k == n + 1
      <3> HIDE DEF k
      <3>1. QED
        BY <2>1, <2>2, SubSeqProperties DEF k
    <2>4. n >= L => q = <<>>
      BY <1>1, SubSeqEmpty
    <2>5. QED
      BY <1>1, <2>3, <2>4
  <1>5. s = p \o q
    <2>1. CASE L < n
      <3>1. p = s
        BY <1>1, <2>1, SubSeqFull DEF L
      <3>2. QED
        BY <1>1, <1>4, <2>1, <3>1, NoBytes
    <2>2. CASE ~(L < n)
      <3>1. /\ m = n /\ 1 \in 1 .. L + 1 /\ m \in (1 - 1) .. L /\ L \in m .. L
        BY <1>1, <2>2
      <3>2. SubSeq(s, 1, m) \o SubSeq(s, m + 1, L) = SubSeq(s, 1, L)
        BY <1>1, <3>1, ConcatAdjacentSubSeq DEF L
      <3>3. QED
        BY <3>1, <3>2, SubSeqFull DEF L
    <2>3. QED
      BY <2>1, <2>2
  <1> HIDE DEF p, q
  <1>6. L <= n => q = <<>> /\ p = s
    BY <1>1, <1>3, <1>4, <1>5, NoBytes
  <1>7. q = <<>> => L <= n
    BY <1>1, <1>4, NoBytes
  <1>8. QED
    BY <1>3, <1>4, <1>5, <1>6, <1>7 DEF p, q, m, L

-----------------------------------------------------------------------------
(* Three places and the refused bytes have no byte in common. *)
Apart(c, h, w, x) ==
  /\ c \in Seq(Bytes) /\ h \in Seq(Bytes) /\ w \in Seq(Bytes)
  /\ IsInjective(c) /\ IsInjective(h) /\ IsInjective(w)
  /\ ToSet(c) \cap ToSet(h) = {} /\ ToSet(c) \cap ToSet(w) = {} /\ ToSet(h) \cap ToSet(w) = {}
  /\ x \cap (ToSet(c) \cup ToSet(h) \cup ToSet(w)) = {}

LEMMA ApartIsOnce ==
  ASSUME NEW c \in Seq(Bytes), NEW h \in Seq(Bytes), NEW w \in Seq(Bytes), NEW x
  PROVE  /\ ToSet(c \o h \o w) = ToSet(c) \cup ToSet(h) \cup ToSet(w)
         /\ Apart(c, h, w, x) <=>
              IsInjective(c \o h \o w) /\ x \cap ToSet(c \o h \o w) = {}
  <1>1. /\ c \o h \in Seq(Bytes) /\ ToSet(c \o h) = ToSet(c) \cup ToSet(h)
        /\ IsInjective(c \o h) <=>
             IsInjective(c) /\ IsInjective(h) /\ ToSet(c) \cap ToSet(h) = {}
    BY Joined
  <1> DEFINE ch == c \o h
  <1> HIDE DEF ch
  <1>2. /\ ToSet(ch \o w) = ToSet(ch) \cup ToSet(w)
        /\ IsInjective(ch \o w) <=>
             IsInjective(ch) /\ IsInjective(w) /\ ToSet(ch) \cap ToSet(w) = {}
    BY <1>1, Joined DEF ch
  <1>3. QED
    BY <1>1, <1>2 DEF ch, Apart

LEMMA ApartSwapped ==
  ASSUME NEW c, NEW h, NEW w, NEW x, Apart(c, h, w, x)
  PROVE  Apart(h, c, w, x)
  BY DEF Apart

(* The first bytes of one place are written, or refused. *)
LEMMA ApartSent ==
  ASSUME NEW p \in Seq(Bytes), NEW q \in Seq(Bytes), NEW d \in Seq(Bytes),
         NEW h, NEW w, NEW x, Apart((p \o q) \o d, h, w, x)
  PROVE  Apart(d, h, w \o p, x \cup ToSet(q))
  <1>1. /\ p \o q \in Seq(Bytes) /\ ToSet(p \o q) = ToSet(p) \cup ToSet(q)
        /\ IsInjective(p \o q) <=>
             IsInjective(p) /\ IsInjective(q) /\ ToSet(p) \cap ToSet(q) = {}
    BY Joined
  <1> DEFINE a == p \o q
  <1> HIDE DEF a
  <1>2. /\ ToSet(a \o d) = ToSet(a) \cup ToSet(d)
        /\ IsInjective(a \o d) <=>
             IsInjective(a) /\ IsInjective(d) /\ ToSet(a) \cap ToSet(d) = {}
    BY <1>1, Joined DEF a
  <1>3. Apart(a \o d, h, w, x)
    BY DEF a
  <1>4. /\ w \o p \in Seq(Bytes) /\ ToSet(w \o p) = ToSet(w) \cup ToSet(p)
        /\ IsInjective(w \o p) <=>
             IsInjective(w) /\ IsInjective(p) /\ ToSet(w) \cap ToSet(p) = {}
    BY <1>3, Joined DEF Apart
  <1>5. QED
    BY <1>1, <1>2, <1>3, <1>4 DEF Apart, a

(* The process takes the first bytes. *)
LEMMA ApartTaken ==
  ASSUME NEW a \in Seq(Bytes), NEW d \in Seq(Bytes), NEW w, NEW x,
         Apart(a \o d, <<>>, w, x)
  PROVE  Apart(d, a, w, x)
  BY Joined, NoBytes DEF Apart

LEMMA ApartMore ==
  ASSUME NEW c, NEW h, NEW w, NEW x, Apart(c, h, w, x),
         NEW s \in Seq(Bytes), IsInjective(s),
         ToSet(s) \cap (ToSet(c) \cup ToSet(h) \cup ToSet(w) \cup x) = {}
  PROVE  Apart(c \o s, h, w, x)
  BY Joined DEF Apart

-----------------------------------------------------------------------------
(* Commands. *)
LEMMA WholeJoined ==
  ASSUME NEW s \in Seq(Bytes), NEW t \in Seq(Bytes), Whole(s), Whole(t)
  PROVE  Whole(s \o t)
  <1> DEFINE u == s \o t
             m == Len(s)
             n == Len(t)
  <1>1. /\ m \in Nat /\ n \in Nat /\ DOMAIN s = 1 .. m /\ DOMAIN t = 1 .. n
        /\ u \in Seq(Bytes) /\ Len(u) = m + n /\ DOMAIN u = 1 .. (m + n)
    BY LenProperties, ConcatProperties
  <1>2. \A k \in 1 .. (m + n) : u[k] = IF k <= m THEN s[k] ELSE t[k - m]
    BY ConcatProperties
  <1> SUFFICES ASSUME NEW k \in 1 .. (m + n)
               PROVE  /\ u[k][2] > 1 => k > 1 /\ u[k - 1] = <<u[k][1], u[k][2] - 1>>
                      /\ u[k][2] < COMMAND =>
                           k < Len(u) /\ u[k + 1] = <<u[k][1], u[k][2] + 1>>
    BY <1>1 DEF Whole
  <1> HIDE DEF u, m, n
  <1>3. CASE k <= m
    <2>1. k \in 1 .. m /\ u[k] = s[k]
      BY <1>1, <1>2, <1>3
    <2>2. /\ s[k][2] > 1 => k > 1 /\ s[k - 1] = <<s[k][1], s[k][2] - 1>>
          /\ s[k][2] < COMMAND => k < m /\ s[k + 1] = <<s[k][1], s[k][2] + 1>>
      <3>1. k \in DOMAIN s
        BY <1>1, <2>1
      <3>2. QED
        BY <3>1, Zenon DEF Whole, m
    <2>3. k > 1 => k - 1 \in 1 .. (m + n) /\ u[k - 1] = s[k - 1]
      BY <1>1, <1>2, <1>3
    <2>4. k < m => k + 1 \in 1 .. (m + n) /\ u[k + 1] = s[k + 1]
      BY <1>1, <1>2, <1>3
    <2>5. QED
      BY <1>1, <2>1, <2>2, <2>3, <2>4
  <1>4. CASE ~(k <= m)
    <2> DEFINE j == k - m
    <2>1. j \in 1 .. n /\ u[k] = t[j] /\ k = m + j
      BY <1>1, <1>2, <1>4
    <2> HIDE DEF j
    <2>2. /\ t[j][2] > 1 => j > 1 /\ t[j - 1] = <<t[j][1], t[j][2] - 1>>
          /\ t[j][2] < COMMAND => j < n /\ t[j + 1] = <<t[j][1], t[j][2] + 1>>
      <3>1. j \in DOMAIN t
        BY <1>1, <2>1
      <3>2. QED
        BY <3>1, Zenon DEF Whole, n
    <2>3. j > 1 => k > 1 /\ u[k - 1] = t[j - 1]
      <3>1. j > 1 => k - 1 \in 1 .. (m + n) /\ ~(k - 1 <= m) /\ (k - 1) - m = j - 1
        BY <1>1, <2>1
      <3>2. QED
        BY <1>1, <1>2, <3>1
    <2>4. j < n => k < m + n /\ u[k + 1] = t[j + 1]
      <3>1. j < n => k + 1 \in 1 .. (m + n) /\ ~(k + 1 <= m) /\ (k + 1) - m = j + 1
        BY <1>1, <2>1
      <3>2. QED
        BY <1>1, <1>2, <3>1
    <2>5. QED
      BY <1>1, <2>1, <2>2, <2>3, <2>4
  <1>5. QED
    BY <1>3, <1>4

LEMMA CommandFacts ==
  ASSUME NEW c \in Nat
  PROVE  /\ Command(c) \in Seq(Bytes) /\ Len(Command(c)) = COMMAND
         /\ ToSet(Command(c)) = {c} \X (1 .. COMMAND)
         /\ IsInjective(Command(c))
         /\ Whole(Command(c))
  <1> DEFINE s == Command(c)
  <1>1. COMMAND \in Nat
    BY LineDisciplineAssumption
  <1>2. s = [k \in 1 .. COMMAND |-> <<c, k>>]
    BY DEF Command
  <1>3. s \in Seq(Bytes) /\ Len(s) = COMMAND /\ DOMAIN s = 1 .. COMMAND
    BY <1>1, <1>2 DEF Bytes
  <1>4. \A k \in 1 .. COMMAND : s[k] = <<c, k>> /\ s[k][1] = c /\ s[k][2] = k
    BY <1>2
  <1> HIDE DEF s
  <1>5. ToSet(s) = {c} \X (1 .. COMMAND)
    <2>1. ToSet(s) = {s[k] : k \in 1 .. COMMAND}
      BY <1>3 DEF ToSet
    <2>2. ASSUME NEW k \in 1 .. COMMAND PROVE s[k] \in {c} \X (1 .. COMMAND)
      BY <1>4
    <2>3. ASSUME NEW x \in {c} \X (1 .. COMMAND) PROVE \E k \in 1 .. COMMAND : x = s[k]
      <3>1. x[2] \in 1 .. COMMAND /\ x = <<c, x[2]>>
        OBVIOUS
      <3>2. QED
        BY <1>4, <3>1
    <2>4. QED
      BY <2>1, <2>2, <2>3
  <1>6. IsInjective(s)
    BY <1>3, <1>4 DEF IsInjective
  <1>7. Whole(s)
    <2> SUFFICES ASSUME NEW k \in 1 .. COMMAND
                 PROVE  /\ s[k][2] > 1 => k > 1 /\ s[k - 1] = <<s[k][1], s[k][2] - 1>>
                        /\ s[k][2] < COMMAND =>
                             k < Len(s) /\ s[k + 1] = <<s[k][1], s[k][2] + 1>>
      BY <1>3 DEF Whole
    <2>1. k > 1 => k - 1 \in 1 .. COMMAND
      BY <1>1
    <2>2. k < COMMAND => k + 1 \in 1 .. COMMAND
      BY <1>1
    <2>3. QED
      BY <1>3, <1>4, <2>1, <2>2
  <1>8. QED
    BY <1>3, <1>5, <1>6, <1>7 DEF s

LEMMA WholeNothing == Whole(<<>>)
  BY DEF Whole

-----------------------------------------------------------------------------
(* The account of the bytes of n commands: in the ring, in hand, written,   *)
(* refused or without room, and whole as long as none is lost.              *)
Accounts(c, h, w, x, k, n, doomed) ==
  /\ Apart(c, h, w, x)
  /\ ToSet(c) \cup ToSet(h) \cup ToSet(w) \cup x \cup k = (1 .. n) \X (1 .. COMMAND)
  /\ x \cup doomed \cup k = {} => Whole(c) /\ Whole(h) /\ Whole(w)

LEMMA CommandIsNew ==
  ASSUME NEW n \in Nat
  PROVE  /\ ToSet(Command(n + 1)) \cap ((1 .. n) \X (1 .. COMMAND)) = {}
         /\ ((1 .. n) \X (1 .. COMMAND)) \cup ToSet(Command(n + 1))
              = (1 .. (n + 1)) \X (1 .. COMMAND)
  <1> DEFINE m == n + 1
  <1>1. m \in Nat /\ m \notin 1 .. n /\ (1 .. n) \cup {m} = 1 .. m
    OBVIOUS
  <1> HIDE DEF m
  <1>2. ToSet(Command(m)) = {m} \X (1 .. COMMAND)
    BY <1>1, CommandFacts
  <1>3. ({m} \X (1 .. COMMAND)) \cap ((1 .. n) \X (1 .. COMMAND)) = {}
    BY <1>1
  <1>4. ((1 .. n) \X (1 .. COMMAND)) \cup ({m} \X (1 .. COMMAND)) = (1 .. m) \X (1 .. COMMAND)
    BY <1>1
  <1>5. QED
    BY <1>2, <1>3, <1>4 DEF m

(* tuxctl_ldisc_put of a command. *)
LEMMA AccountPut ==
  ASSUME NEW r \in Rings, NEW h, NEW w, NEW x, NEW k, NEW n \in Nat, NEW doomed,
         Accounts(Contents(r), h, w, x, k, n, doomed)
  PROVE  LET new == Command(n + 1)
         IN  Accounts(Contents(PutInto(r, new)), h, w, x, k \cup Refused(r, new), n + 1, doomed)
  <1> DEFINE new == Command(n + 1)
             a == Accepted(r, new)
             s == SubSeq(new, 1, a)
             t == SubSeq(new, a + 1, Len(new))
             c == Contents(r)
             d == Contents(PutInto(r, new))
             all == (1 .. n) \X (1 .. COMMAND)
  <1>1. new \in Seq(Bytes) /\ IsInjective(new) /\ Whole(new)
    BY CommandFacts
  <1>2. /\ ToSet(new) \cap all = {}
        /\ all \cup ToSet(new) = (1 .. (n + 1)) \X (1 .. COMMAND)
    BY CommandIsNew
  <1> HIDE DEF new
  <1>3. a \in 0 .. Len(new) /\ d = c \o s
    BY <1>1, PutBytes
  <1>4. a \in Nat /\ Smaller(Len(new), a) = a
    BY <1>1, <1>3, LenProperties DEF Smaller
  <1> HIDE DEF a
  <1>5. /\ s \in Seq(Bytes) /\ t \in Seq(Bytes) /\ new = s \o t
        /\ t = <<>> => s = new
    <2>1. /\ s \in Seq(Bytes) /\ t \in Seq(Bytes) /\ new = s \o t
      BY <1>1, <1>4, CutAt
    <2>2. QED
      BY <2>1, NoBytes
  <1>6. Refused(r, new) = ToSet(t)
    BY DEF Refused, a
  <1> HIDE DEF s, t, c, d, all
  <1>7. /\ IsInjective(s) /\ ToSet(new) = ToSet(s) \cup ToSet(t)
    BY <1>1, <1>5, Joined
  <1>8. /\ Apart(c, h, w, x) /\ c \in Seq(Bytes)
        /\ ToSet(c) \cup ToSet(h) \cup ToSet(w) \cup x \cup k = all
        /\ x \cup doomed \cup k = {} => Whole(c) /\ Whole(h) /\ Whole(w)
    BY DEF Accounts, Apart, c, all
  <1>9. Apart(d, h, w, x)
    BY <1>2, <1>3, <1>5, <1>7, <1>8, ApartMore
  <1>10. ToSet(d) = ToSet(c) \cup ToSet(s)
    BY <1>3, <1>5, <1>8, Joined
  <1>11. ToSet(d) \cup ToSet(h) \cup ToSet(w) \cup x \cup (k \cup ToSet(t))
           = (1 .. (n + 1)) \X (1 .. COMMAND)
    BY <1>2, <1>7, <1>8, <1>10
  <1>12. ASSUME x \cup doomed \cup (k \cup ToSet(t)) = {}
         PROVE  Whole(d) /\ Whole(h) /\ Whole(w)
    <2>1. t = <<>> /\ s = new
      BY <1>5, <1>12, NoBytes
    <2>2. Whole(c) /\ Whole(h) /\ Whole(w)
      BY <1>8, <1>12
    <2>3. QED
      BY <1>1, <1>3, <1>8, <2>1, <2>2, WholeJoined
  <1>13. QED
    BY <1>6, <1>9, <1>11, <1>12 DEF Accounts, d, new

(* The loop of tuxctl_ldisc_write_wakeup takes the whole ring, or more than *)
(* the driver has room for.                                                 *)
LEMMA DrainedOrDoomed ==
  ASSUME NEW r \in Rings, NEW room \in Nat
  PROVE  LET a == First(r, Drained(room))
             d == Contents(Rest(r, Drained(room)))
             p == SubSeq(a, 1, Smaller(Len(a), room))
             q == SubSeq(a, room + 1, Len(a))
         IN  /\ a \in Seq(Bytes) /\ d \in Seq(Bytes) /\ p \in Seq(Bytes) /\ q \in Seq(Bytes)
             /\ Contents(r) = a \o d /\ a = p \o q
             /\ q = <<>> => d = <<>> /\ p = a /\ a = Contents(r)
  <1> DEFINE n == Drained(room)
             a == First(r, n)
             d == Contents(Rest(r, n))
             p == SubSeq(a, 1, Smaller(Len(a), room))
             q == SubSeq(a, room + 1, Len(a))
             c == Contents(r)
  <1>1. n \in Nat /\ n = room + 1
    BY DEF Drained
  <1> HIDE DEF n
  <1>2. /\ a \in Seq(Bytes) /\ d \in Seq(Bytes) /\ c = a \o d
        /\ Len(a) = Smaller(n, Len(c)) /\ c \in Seq(Bytes)
    BY <1>1, TakeFrom, ContentsAt
  <1> HIDE DEF a, d, c
  <1>3. /\ p \in Seq(Bytes) /\ q \in Seq(Bytes) /\ a = p \o q
        /\ Len(a) <= room => q = <<>> /\ p = a
        /\ q = <<>> => Len(a) <= room
    BY <1>2, CutAt
  <1> HIDE DEF p, q
  <1>4. ASSUME q = <<>> PROVE d = <<>> /\ p = a /\ a = c
    <2>1. Len(a) <= room /\ p = a
      BY <1>3, <1>4
    <2>2. Len(c) \in Nat /\ Len(a) \in Nat /\ Len(d) \in Nat /\ Len(c) = Len(a) + Len(d)
      BY <1>2, LenProperties, ConcatProperties
    <2>3. Len(d) = 0
      BY <1>1, <1>2, <2>1, <2>2 DEF Smaller
    <2>4. QED
      BY <1>2, <2>1, <2>3, NoBytes
  <1>5. QED
    BY <1>2, <1>3, <1>4 DEF n, a, d, c, p, q

LEMMA AccountDrain ==
  ASSUME NEW r \in Rings, NEW room \in Nat,
         NEW h, NEW w, NEW x, NEW k, NEW n, NEW doomed,
         Accounts(Contents(r), h, w, x, k, n, doomed)
  PROVE  LET a == First(r, Drained(room))
         IN  Accounts(Contents(Rest(r, Drained(room))), h,
                      w \o SubSeq(a, 1, Smaller(Len(a), room)),
                      x \cup ToSet(SubSeq(a, room + 1, Len(a))), k, n, doomed)
  <1> DEFINE a == First(r, Drained(room))
             d == Contents(Rest(r, Drained(room)))
             p == SubSeq(a, 1, Smaller(Len(a), room))
             q == SubSeq(a, room + 1, Len(a))
             c == Contents(r)
  <1>1. /\ a \in Seq(Bytes) /\ d \in Seq(Bytes) /\ p \in Seq(Bytes) /\ q \in Seq(Bytes)
        /\ c = a \o d /\ a = p \o q
        /\ q = <<>> => d = <<>> /\ p = a /\ a = c
    BY DrainedOrDoomed
  <1>2. /\ Apart(c, h, w, x) /\ w \in Seq(Bytes)
        /\ ToSet(c) \cup ToSet(h) \cup ToSet(w) \cup x \cup k = (1 .. n) \X (1 .. COMMAND)
        /\ x \cup doomed \cup k = {} => Whole(c) /\ Whole(h) /\ Whole(w)
    BY DEF Accounts, Apart
  <1> HIDE DEF a, d, p, q, c
  <1>3. Apart(d, h, w \o p, x \cup ToSet(q))
    <2>1. Apart((p \o q) \o d, h, w, x)
      BY <1>1, <1>2
    <2>2. QED
      BY <1>1, <2>1, ApartSent
  <1>4. /\ ToSet(c) = ToSet(p) \cup ToSet(q) \cup ToSet(d)
        /\ ToSet(w \o p) = ToSet(w) \cup ToSet(p)
    <2>1. ToSet(c) = ToSet(a) \cup ToSet(d)
      BY <1>1, Joined
    <2>2. ToSet(a) = ToSet(p) \cup ToSet(q)
      BY <1>1, Joined
    <2>3. ToSet(w \o p) = ToSet(w) \cup ToSet(p)
      BY <1>1, <1>2, Joined
    <2>4. QED
      BY <2>1, <2>2, <2>3
  <1>5. ToSet(d) \cup ToSet(h) \cup ToSet(w \o p) \cup (x \cup ToSet(q)) \cup k
          = (1 .. n) \X (1 .. COMMAND)
    BY <1>2, <1>4
  <1>6. ASSUME (x \cup ToSet(q)) \cup doomed \cup k = {}
        PROVE  Whole(d) /\ Whole(h) /\ Whole(w \o p)
    <2>1. q = <<>>
      BY <1>1, <1>6, NoBytes
    <2>2. Whole(c) /\ Whole(h) /\ Whole(w) /\ d = <<>> /\ p = c
      BY <1>1, <1>2, <1>6, <2>1
    <2>3. QED
      BY <1>1, <1>2, <2>2, WholeJoined, WholeNothing
  <1>7. QED
    BY <1>3, <1>5, <1>6 DEF Accounts, a, d, p, q

(* The process takes the bytes ... *)
LEMMA AccountTake ==
  ASSUME NEW r \in Rings, NEW room \in Nat, NEW w, NEW x, NEW k, NEW n,
         Accounts(Contents(r), <<>>, w, x, k, n, {})
  PROVE  LET a == First(r, Drained(room))
         IN  Accounts(Contents(Rest(r, Drained(room))), a, w, x, k, n,
                      ToSet(SubSeq(a, room + 1, Len(a))))
  <1> DEFINE a == First(r, Drained(room))
             d == Contents(Rest(r, Drained(room)))
             p == SubSeq(a, 1, Smaller(Len(a), room))
             q == SubSeq(a, room + 1, Len(a))
             c == Contents(r)
  <1>1. /\ a \in Seq(Bytes) /\ d \in Seq(Bytes) /\ p \in Seq(Bytes) /\ q \in Seq(Bytes)
        /\ c = a \o d
        /\ q = <<>> => d = <<>> /\ a = c
    BY DrainedOrDoomed
  <1>2. /\ Apart(c, <<>>, w, x)
        /\ ToSet(c) \cup ToSet(<<>>) \cup ToSet(w) \cup x \cup k = (1 .. n) \X (1 .. COMMAND)
        /\ x \cup {} \cup k = {} => Whole(c) /\ Whole(w)
    BY DEF Accounts
  <1> HIDE DEF a, d, p, q, c
  <1>3. Apart(d, a, w, x)
    BY <1>1, <1>2, ApartTaken
  <1>4. ToSet(c) = ToSet(a) \cup ToSet(d)
    BY <1>1, Joined
  <1>5. ToSet(d) \cup ToSet(a) \cup ToSet(w) \cup x \cup k = (1 .. n) \X (1 .. COMMAND)
    BY <1>2, <1>4, NoBytes
  <1>6. ASSUME x \cup ToSet(q) \cup k = {} PROVE Whole(d) /\ Whole(a) /\ Whole(w)
    <2>1. q = <<>>
      BY <1>1, <1>6, NoBytes
    <2>2. Whole(c) /\ Whole(w) /\ d = <<>> /\ a = c
      BY <1>1, <1>2, <1>6, <2>1
    <2>3. QED
      BY <2>2, WholeNothing
  <1>7. QED
    BY <1>3, <1>5, <1>6 DEF Accounts, a, d, q

(* ... and writes them, whatever the ring holds by now. *)
LEMMA AccountWrite ==
  ASSUME NEW h \in Seq(Bytes), NEW room \in Nat,
         NEW c, NEW w, NEW x, NEW k, NEW n,
         Accounts(c, h, w, x, k, n, ToSet(SubSeq(h, room + 1, Len(h))))
  PROVE  Accounts(c, <<>>, w \o SubSeq(h, 1, Smaller(Len(h), room)),
                  x \cup ToSet(SubSeq(h, room + 1, Len(h))), k, n, {})
  <1> DEFINE p == SubSeq(h, 1, Smaller(Len(h), room))
             q == SubSeq(h, room + 1, Len(h))
  <1>1. /\ p \in Seq(Bytes) /\ q \in Seq(Bytes) /\ h = p \o q
    BY CutAt
  <1>2. /\ Apart(c, h, w, x) /\ w \in Seq(Bytes)
        /\ ToSet(c) \cup ToSet(h) \cup ToSet(w) \cup x \cup k = (1 .. n) \X (1 .. COMMAND)
        /\ x \cup ToSet(q) \cup k = {} => Whole(c) /\ Whole(h) /\ Whole(w)
    BY DEF Accounts, Apart
  <1> HIDE DEF p, q
  <1>3. Apart(c, <<>>, w \o p, x \cup ToSet(q))
    <2>1. Apart(h, c, w, x)
      BY <1>2, ApartSwapped
    <2>2. (p \o q) \o <<>> = h /\ <<>> \in Seq(Bytes)
      BY <1>1, NoBytes
    <2>3. Apart((p \o q) \o <<>>, c, w, x)
      BY <2>1, <2>2
    <2>4. Apart(<<>>, c, w \o p, x \cup ToSet(q))
      BY <1>1, <2>2, <2>3, ApartSent
    <2>5. QED
      BY <2>4, ApartSwapped
  <1>4. ToSet(h) = ToSet(p) \cup ToSet(q) /\ ToSet(w \o p) = ToSet(w) \cup ToSet(p)
    BY <1>1, <1>2, Joined
  <1>5. ToSet(c) \cup ToSet(<<>>) \cup ToSet(w \o p) \cup (x \cup ToSet(q)) \cup k
          = (1 .. n) \X (1 .. COMMAND)
    BY <1>2, <1>4, NoBytes
  <1>6. ASSUME (x \cup ToSet(q)) \cup {} \cup k = {}
        PROVE  Whole(c) /\ Whole(<<>>) /\ Whole(w \o p)
    <2>1. q = <<>> /\ p = h
      BY <1>1, <1>6, NoBytes
    <2>2. Whole(c) /\ Whole(h) /\ Whole(w)
      BY <1>2, <1>6
    <2>3. QED
      BY <1>1, <1>2, <2>1, <2>2, WholeJoined, WholeNothing
  <1>7. QED
    BY <1>3, <1>5, <1>6 DEF Accounts, p, q

-----------------------------------------------------------------------------
(* The scan of the callback, byte by byte. *)
ScanStart == [i |-> 1, found |-> <<>>]
ScanStep(bytes, s, n) ==
  IF n # s.i \/ n > Len(bytes) - 2 THEN s
  ELSE IF Framed(bytes, n)
         THEN [i |-> n + 3, found |-> Append(s.found, SubSeq(bytes, n, n + 2))]
         ELSE [s EXCEPT !.i = n + 1]

LEMMA ScanByBytes ==
  ASSUME NEW bytes \in Seq(Bytes)
  PROVE  \E after : /\ after[0] = ScanStart
                    /\ \A n \in 1 .. Len(bytes) : after[n] = ScanStep(bytes, after[n - 1], n)
                    /\ Scan(bytes) = after[Len(bytes)]
  <1> DEFINE L == Len(bytes)
             Base == ScanStart
             Step(s, n) == ScanStep(bytes, s, n)
             Goes(a, m) == a = [n \in 0 .. m |-> IF n = 0 THEN Base ELSE Step(a[n - 1], n)]
  <1>0. L \in Nat
    BY LenProperties
  <1>1. Scan(bytes) = LET after == CHOOSE a : Goes(a, L) IN after[L]
    BY DEF Scan, ScanStart, ScanStep
  <1> HIDE DEF L, Base, Step
  <1>4. \A m \in 0 .. L : \E a : Goes(a, m)
    <2> DEFINE Bad == {k \in 0 .. L : ~ \E a : Goes(a, k)}
    <2> SUFFICES ASSUME Bad # {} PROVE FALSE
      OBVIOUS
    <2>1. PICK m \in Bad : \A k \in Bad : m <= k
      <3>1. Bad \in SUBSET Nat
        BY <1>0
      <3> HIDE DEF Bad
      <3>2. QED
        BY <3>1, LeastNat
    <2>2. m \in 0 .. L /\ m \in Nat
      BY <1>0, <2>1
    <2>3. CASE m = 0
      <3> DEFINE a == [n \in 0 .. 0 |-> Base]
      <3>1. Goes(a, 0)
        BY \A n \in 0 .. 0 : n = 0
      <3>2. QED
        BY <2>1, <2>3, <3>1
    <2>4. CASE m # 0
      <3>1. m - 1 \in 0 .. L /\ m - 1 \notin Bad
        <4>1. m - 1 \in 0 .. L /\ ~(m <= m - 1)
          BY <1>0, <2>2, <2>4
        <4> HIDE DEF Bad
        <4>2. QED
          BY <2>1, <4>1
      <3>2. PICK b : Goes(b, m - 1)
        BY <3>1
      <3> DEFINE a == [n \in 0 .. m |-> IF n = m THEN Step(b[m - 1], m) ELSE b[n]]
      <3>3. ASSUME NEW n \in 0 .. m
            PROVE  a[n] = IF n = 0 THEN Base ELSE Step(a[n - 1], n)
        <4>1. CASE n = m
          <5>1. a[n] = Step(b[m - 1], m) /\ m - 1 \in 0 .. m /\ m - 1 # m
            BY <2>2, <2>4, <4>1
          <5>2. a[m - 1] = b[m - 1]
            BY <5>1
          <5>3. QED
            BY <2>4, <4>1, <5>1, <5>2
        <4>2. CASE n # m /\ n = 0
          <5>1. a[n] = b[n] /\ n \in 0 .. (m - 1)
            BY <2>2, <2>4, <4>2
          <5>2. b[n] = Base
            BY <3>2, <4>2, <5>1
          <5>3. QED
            BY <4>2, <5>1, <5>2
        <4>3. CASE n # m /\ n # 0
          <5>1. /\ a[n] = b[n] /\ n \in 0 .. (m - 1)
                /\ n - 1 \in 0 .. m /\ n - 1 # m
            BY <2>2, <2>4, <4>3
          <5>2. b[n] = Step(b[n - 1], n)
            BY <3>2, <4>3, <5>1
          <5>3. a[n - 1] = b[n - 1]
            BY <5>1
          <5>4. QED
            BY <4>3, <5>1, <5>2, <5>3
        <4>4. QED
          BY <4>1, <4>2, <4>3
      <3>4. Goes(a, m)
        <4>1. a = [n \in 0 .. m |-> a[n]]
          OBVIOUS
        <4> HIDE DEF a
        <4>2. QED
          BY <3>3, <4>1
      <3>5. QED
        BY <2>1, <3>4
    <2>5. QED
      BY <2>3, <2>4
  <1> DEFINE after == CHOOSE a : Goes(a, L)
  <1>5. Goes(after, L)
    <2>1. L \in 0 .. L
      BY <1>0
    <2>2. QED
      BY <1>4, <2>1
  <1>6. Scan(bytes) = after[L]
    BY <1>1
  <1> HIDE DEF after
  <1>7. /\ after[0] = Base
        /\ \A n \in 1 .. L : after[n] = Step(after[n - 1], n)
    BY <1>0, <1>5
  <1>8. QED
    BY <1>6, <1>7 DEF L, Base, Step

(* It stops at most two bytes from the end, so the callback keeps at most   *)
(* two.                                                                     *)
LEMMA ScanStops ==
  ASSUME NEW bytes \in Seq(Bytes)
  PROVE  /\ Scan(bytes).i \in Nat /\ Scan(bytes).i >= 1
         /\ Scan(bytes).i >= Len(bytes) - 1 /\ Scan(bytes).i <= Len(bytes) + 1
         /\ Scan(bytes).found \in Seq(Seq(Bytes))
  <1> DEFINE L == Len(bytes)
             Step(s, n) == ScanStep(bytes, s, n)
             Base == ScanStart
             At(s, n) == s \in [i : Nat, found : Seq(Seq(Bytes))]
                         /\ s.i >= 1 /\ s.i <= L + 1 /\ (s.i > n \/ s.i > L - 2)
  <1>0. L \in Nat /\ DOMAIN bytes = 1 .. L
    BY LenProperties
  <1>1. PICK after : /\ after[0] = Base
                     /\ \A n \in 1 .. L : after[n] = Step(after[n - 1], n)
                     /\ Scan(bytes) = after[L]
    BY ScanByBytes
  <1>2. ASSUME NEW n \in 1 .. L, NEW s, At(s, n - 1) PROVE At(Step(s, n), n)
    <2>1. CASE n # s.i \/ n > L - 2
      BY <1>0, <1>2, <2>1 DEF ScanStep
    <2>2. CASE n = s.i /\ n <= L - 2 /\ Framed(bytes, n)
      <3>1. Step(s, n) = [i |-> n + 3, found |-> Append(s.found, SubSeq(bytes, n, n + 2))]
        BY <1>0, <2>2 DEF ScanStep
      <3>2. SubSeq(bytes, n, n + 2) \in Seq(Bytes)
        BY <1>0, <2>2
      <3>3. Step(s, n) \in [i : Nat, found : Seq(Seq(Bytes))] /\ Step(s, n).i = n + 3
        BY <1>2, <3>1, <3>2
      <3>4. QED
        BY <1>0, <2>2, <3>3
    <2>3. CASE n = s.i /\ n <= L - 2 /\ ~Framed(bytes, n)
      <3>1. Step(s, n) = [s EXCEPT !.i = n + 1]
        BY <1>0, <2>3 DEF ScanStep
      <3>2. s \in [i : Nat, found : Seq(Seq(Bytes))] /\ n + 1 \in Nat
        BY <1>2
      <3> HIDE DEF Step, At
      <3>3. Step(s, n) \in [i : Nat, found : Seq(Seq(Bytes))] /\ Step(s, n).i = n + 1
        BY <3>1, <3>2
      <3>4. QED
        BY <1>0, <2>3, <3>3 DEF At
    <2>4. QED
      BY <1>0, <1>2, <2>1, <2>2, <2>3
  <1>3. At(Base, 0)
    BY <1>0 DEF ScanStart
  <1> HIDE DEF L, Base, Step, At
  <1>8. \A k \in 0 .. L : At(after[k], k)
    <2> DEFINE Wrong == {k \in 0 .. L : ~At(after[k], k)}
    <2> SUFFICES ASSUME Wrong # {} PROVE FALSE
      OBVIOUS
    <2>1. PICK m \in Wrong : \A k \in Wrong : m <= k
      <3>1. Wrong \in SUBSET Nat
        BY <1>0
      <3> HIDE DEF Wrong
      <3>2. QED
        BY <3>1, LeastNat
    <2>2. m \in 0 .. L /\ m \in Nat /\ ~At(after[m], m)
      BY <1>0, <2>1
    <2>3. m # 0
      BY <1>1, <1>3, <2>2
    <2>4. m - 1 \in 0 .. L /\ ~(m <= m - 1) /\ m \in 1 .. L
      BY <1>0, <2>2, <2>3
    <2>5. At(after[m - 1], m - 1)
      <3> HIDE DEF Wrong
      <3>1. m - 1 \notin Wrong
        BY <2>1, <2>4
      <3>2. QED
        BY <2>4, <3>1 DEF Wrong
    <2>6. QED
      BY <1>1, <1>2, <2>2, <2>4, <2>5
  <1>9. At(after[L], L)
    BY <1>0, <1>8
  <1>10. QED
    BY <1>0, <1>1, <1>9 DEF At, L

LEMMA LeftoverIsShort ==
  ASSUME NEW bytes \in Seq(Bytes)
  PROVE  Leftover(bytes) \in Seq(Bytes) /\ Len(Leftover(bytes)) <= 2
  <1> DEFINE i == Scan(bytes).i
             L == Len(bytes)
  <1>1. i \in Nat /\ i >= 1 /\ i >= L - 1 /\ i <= L + 1 /\ L \in Nat
    BY ScanStops, LenProperties
  <1> HIDE DEF i
  <1>2. Leftover(bytes) = SubSeq(bytes, i, L)
    BY DEF Leftover, i
  <1>3. SubSeq(bytes, i, L) \in Seq(Bytes) /\ Len(SubSeq(bytes, i, L)) <= 2
    BY <1>1
  <1>4. QED
    BY <1>2, <1>3

-----------------------------------------------------------------------------
(* The steps. *)
SendInv ==
  /\ TypeOK /\ saved \in Seq(Bytes)
  /\ ioctl.at \in {"take", "write"} => ioctl.room \in Nat
  /\ ioctl.at = "write" => ioctl.buf \in Seq(Bytes)
  /\ Accounts(Contents(tx), InHand, wire, refused, cut, issued, Doomed)

LEMMA Numbers ==
  /\ PACKET \in Nat /\ PACKET >= 3 /\ COMMAND \in Nat \ {0} /\ Packets \in Nat
  /\ MaxCommands \in Nat /\ MaxChunk \in Nat /\ Rooms \subseteq Nat
  BY LineDisciplineAssumption

LEMMA PutNothing ==
  ASSUME NEW r \in Rings
  PROVE  /\ PutInto(r, <<>>) \in Rings /\ Contents(PutInto(r, <<>>)) = Contents(r)
         /\ Refused(r, <<>>) = {}
  <1> DEFINE a == Accepted(r, <<>>)
  <1>1. <<>> \in Seq(Bytes) /\ Len(<<>>) = 0 /\ ToSet(<<>>) = {}
    BY NoBytes
  <1>2. a = 0
    <2>1. a \in 0 .. Len(<<>>)
      BY <1>1, PutBytes
    <2> HIDE DEF a
    <2>2. QED
      BY <1>1, <2>1
  <1>3. SubSeq(<<>>, 1, a) = <<>> /\ SubSeq(<<>>, a + 1, Len(<<>>)) = <<>>
    BY <1>1, <1>2
  <1>4. /\ PutInto(r, <<>>) \in Rings
        /\ Contents(PutInto(r, <<>>)) = Contents(r) \o SubSeq(<<>>, 1, a)
    BY <1>1, PutBytes
  <1>5. Contents(r) \in Seq(Bytes)
    BY ContentsAt
  <1>6. Contents(r) \o <<>> = Contents(r)
    BY <1>5, NoBytes
  <1>7. Refused(r, <<>>) = {}
    BY <1>1, <1>3 DEF Refused
  <1>8. QED
    BY <1>3, <1>4, <1>6, <1>7

(* A command and the wakeup in one piece; and the wakeup alone. *)
LEMMA CommandAccounted ==
  ASSUME SendInv, NEW room \in Nat, PutAndWake(tx, Command(issued + 1), room)
  PROVE  /\ tx' \in Rings
         /\ Accounts(Contents(tx'), InHand, wire', refused', cut', issued + 1, Doomed)
  <1> DEFINE new == Command(issued + 1)
             filled == PutInto(tx, new)
             k == cut \cup Refused(tx, new)
             n == issued + 1
  <1>1. tx \in Rings /\ issued \in Nat
    BY Numbers DEF SendInv, TypeOK
  <1>2. new \in Seq(Bytes)
    BY <1>1, CommandFacts
  <1>3. Accounts(Contents(filled), InHand, wire, refused, k, n, Doomed)
    BY <1>1, AccountPut DEF SendInv
  <1>4. filled \in Rings
    BY <1>1, <1>2, PutBytes
  <1>5. /\ tx' = Rest(filled, Drained(room)) /\ cut' = k
        /\ Writes(First(filled, Drained(room)), room)
    BY DEF PutAndWake
  <1> HIDE DEF new, filled, k, n
  <1>6. LET a == First(filled, Drained(room))
        IN  Accounts(Contents(Rest(filled, Drained(room))), InHand,
                     wire \o SubSeq(a, 1, Smaller(Len(a), room)),
                     refused \cup ToSet(SubSeq(a, room + 1, Len(a))), k, n, Doomed)
    BY <1>3, <1>4, AccountDrain
  <1>7. Drained(room) \in Nat
    BY DEF Drained
  <1>8. Rest(filled, Drained(room)) \in Rings
    BY <1>4, <1>7, TakeFrom
  <1>9. QED
    BY <1>5, <1>6, <1>8 DEF Writes, n

LEMMA WakeupAccounted ==
  ASSUME SendInv, NEW room \in Nat, PutAndWake(tx, <<>>, room)
  PROVE  /\ tx' \in Rings
         /\ Accounts(Contents(tx'), InHand, wire', refused', cut', issued, Doomed)
  <1> DEFINE filled == PutInto(tx, <<>>)
  <1>1. tx \in Rings
    BY DEF SendInv, TypeOK
  <1>2. filled \in Rings /\ Contents(filled) = Contents(tx) /\ Refused(tx, <<>>) = {}
    BY <1>1, PutNothing
  <1>3. Accounts(Contents(filled), InHand, wire, refused, cut, issued, Doomed)
    BY <1>2 DEF SendInv
  <1>4. /\ tx' = Rest(filled, Drained(room)) /\ cut' = cut
        /\ Writes(First(filled, Drained(room)), room)
    BY <1>2 DEF PutAndWake
  <1> HIDE DEF filled
  <1>5. LET a == First(filled, Drained(room))
        IN  Accounts(Contents(Rest(filled, Drained(room))), InHand,
                     wire \o SubSeq(a, 1, Smaller(Len(a), room)),
                     refused \cup ToSet(SubSeq(a, room + 1, Len(a))), cut, issued, Doomed)
    BY <1>2, <1>3, AccountDrain
  <1>6. Drained(room) \in Nat
    BY DEF Drained
  <1>7. Rest(filled, Drained(room)) \in Rings
    BY <1>2, <1>6, TakeFrom
  <1>8. QED
    BY <1>4, <1>5, <1>7 DEF Writes

(* No byte of a command is an unset one. *)
LEMMA CommandsAreSet ==
  ASSUME NEW c, NEW h, NEW w, NEW x, NEW k, NEW n, NEW doomed,
         Accounts(c, h, w, x, k, n, doomed)
  PROVE  Unset \notin ToSet(c)
  <1>1. ToSet(c) \subseteq (1 .. n) \X (1 .. COMMAND)
    BY DEF Accounts
  <1>2. <<0, 0>> \notin (1 .. n) \X (1 .. COMMAND)
    BY Numbers
  <1>3. QED
    BY <1>1, <1>2 DEF Unset

(* What the interrupt leaves in the rx ring and in the callback's hands. *)
LEMMA Received ==
  ASSUME SendInv, NEW count \in Nat, NEW room, rcv_buf(count, room)
  PROVE  /\ rx' \in Rings /\ Unset \notin ToSet(Contents(rx'))
         /\ saved' \in Seq(Bytes) /\ Len(saved') <= 2
         /\ arrived' \in 0 .. (3 * Packets)
  <1> DEFINE bytes == [j \in 1 .. count |-> Sent(arrived + j)]
             filled == PutInto(rx, bytes)
             n == PACKET - Len(saved)
             packet == saved \o First(filled, n)
             s == SubSeq(bytes, 1, Accepted(rx, bytes))
  <1>1. /\ rx \in Rings /\ Unset \notin ToSet(Contents(rx))
        /\ saved \in Seq(Bytes) /\ Len(saved) <= 2
        /\ arrived \in Nat /\ arrived' = arrived + count /\ arrived' <= 3 * Packets
        /\ rx' = Rest(filled, n) /\ saved' = Leftover(packet)
    BY Numbers DEF SendInv, TypeOK, rcv_buf
  <1>2. \A m \in Nat \ {0} : Sent(m) \in Bytes /\ Sent(m) # Unset
    <2> SUFFICES ASSUME NEW m \in Nat \ {0} PROVE Sent(m) \in Bytes /\ Sent(m) # Unset
      OBVIOUS
    <2>1. /\ m - 1 \in Nat /\ 3 \in Nat \ {0}
      OBVIOUS
    <2>2. (m - 1) \div 3 \in Nat /\ (m - 1) % 3 \in 0 .. 3 - 1
      BY <2>1, DivMod
    <2>3. QED
      BY <2>2 DEF Sent, Bytes, Unset
  <1>3. \A j \in 1 .. count : arrived + j \in Nat \ {0}
    BY <1>1
  <1>4. bytes \in Seq(Bytes) /\ Unset \notin ToSet(bytes) /\ Len(bytes) = count
    <2>1. bytes \in [1 .. count -> Bytes]
      BY <1>2, <1>3
    <2>2. bytes \in Seq(Bytes) /\ Len(bytes) = count /\ DOMAIN bytes = 1 .. count
      BY <2>1
    <2>3. \A j \in 1 .. count : bytes[j] # Unset
      BY <1>2, <1>3
    <2> HIDE DEF bytes
    <2>4. QED
      BY <2>2, <2>3 DEF ToSet
  <1> HIDE DEF bytes
  <1>5. filled \in Rings /\ Contents(filled) = Contents(rx) \o s /\ Accepted(rx, bytes) \in 0 .. Len(bytes)
    BY <1>1, <1>4, PutBytes
  <1>6. s \in Seq(Bytes) /\ Unset \notin ToSet(s)
    <2> DEFINE a == Accepted(rx, bytes)
               t == SubSeq(bytes, a + 1, Len(bytes))
    <2>1. a \in Nat /\ Smaller(Len(bytes), a) = a
      BY <1>4, <1>5 DEF Smaller
    <2>2. s = SubSeq(bytes, 1, a)
      OBVIOUS
    <2> DEFINE b == SubSeq(bytes, 1, Smaller(Len(bytes), a))
    <2>3. b \in Seq(Bytes) /\ t \in Seq(Bytes) /\ bytes = b \o t
      <3> HIDE DEF a
      <3>1. QED
        BY <1>4, <2>1, CutAt, Zenon
    <2> HIDE DEF a, s, t
    <2>4. s = b
      BY <2>1, <2>2, Zenon
    <2> HIDE DEF b
    <2>5. s \in Seq(Bytes) /\ t \in Seq(Bytes) /\ bytes = s \o t
      BY <2>3, <2>4, Zenon
    <2>6. ToSet(bytes) = ToSet(s) \cup ToSet(t)
      BY <2>5, Joined
    <2>7. QED
      BY <1>4, <2>5, <2>6
  <1>7. Unset \notin ToSet(Contents(filled))
    <2>1. Contents(rx) \in Seq(Bytes)
      BY <1>1, ContentsAt
    <2> HIDE DEF filled, s
    <2>2. ToSet(Contents(filled)) = ToSet(Contents(rx)) \cup ToSet(s)
      BY <1>5, <1>6, <2>1, Joined
    <2>3. QED
      BY <1>1, <1>6, <2>2
  <1> HIDE DEF filled, s
  <1>8. n \in Nat
    BY <1>1, LenProperties, Numbers
  <1> HIDE DEF n
  <1>9. /\ Rest(filled, n) \in Rings /\ First(filled, n) \in Seq(Bytes)
        /\ Contents(Rest(filled, n)) \in Seq(Bytes)
        /\ Contents(filled) = First(filled, n) \o Contents(Rest(filled, n))
    BY <1>5, <1>8, TakeFrom
  <1>10. ToSet(Contents(filled)) = ToSet(First(filled, n)) \cup ToSet(Contents(Rest(filled, n)))
    BY <1>9, Joined
  <1>11. packet \in Seq(Bytes)
    BY <1>1, <1>9, Joined
  <1> HIDE DEF packet
  <1>12. Leftover(packet) \in Seq(Bytes) /\ Len(Leftover(packet)) <= 2
    BY <1>11, LeftoverIsShort
  <1>13. arrived' \in 0 .. (3 * Packets)
    BY <1>1, Numbers
  <1>14. QED
    BY <1>1, <1>7, <1>9, <1>10, <1>12, <1>13

LEMMA SendInit == Init => SendInv
  <1> SUFFICES ASSUME Init PROVE SendInv
    OBVIOUS
  <1>1. EmptyRing \in Rings
    <2>1. 0 \in Slots /\ <<0, 0>> \in Nat \X Nat
      BY Ring
    <2>2. QED
      BY <2>1 DEF EmptyRing, Rings, Unset
  <1>2. Contents(EmptyRing) = <<>>
    <2>1. EmptyRing.start = 0 /\ EmptyRing.end = 0
      BY DEF EmptyRing
    <2>2. buf_used(EmptyRing) = 0
      BY <1>1, <2>1, Used
    <2>3. Contents(EmptyRing) \in Seq(Bytes) /\ Len(Contents(EmptyRing)) = 0
      BY <1>1, <2>2, ContentsAt
    <2>4. QED
      BY <2>3, NoBytes
  <1>3. rx = EmptyRing /\ tx = EmptyRing /\ saved = <<>> /\ ioctl = Idle /\ issued = 0
        /\ arrived = 0 /\ wire = <<>> /\ refused = {} /\ cut = {}
    BY DEF Init
  <1>4. InHand = <<>> /\ Doomed = {} /\ ioctl.at = "idle"
    BY <1>3 DEF Idle, InHand, Doomed
  <1>5. Apart(<<>>, <<>>, <<>>, {})
    BY NoBytes DEF Apart
  <1>6. (1 .. 0) \X (1 .. COMMAND) = {}
    OBVIOUS
  <1>7. Accounts(<<>>, <<>>, <<>>, {}, {}, 0, {})
    BY <1>5, <1>6, NoBytes, WholeNothing DEF Accounts
  <1>8. TypeOK
    BY <1>1, <1>2, <1>3, NoBytes, Numbers DEF TypeOK
  <1>9. QED
    BY <1>2, <1>3, <1>4, <1>7, <1>8, NoBytes DEF SendInv

LEMMA SendNext == SendInv /\ [Next]_vars => SendInv'
  <1> SUFFICES ASSUME SendInv, [Next]_vars PROVE SendInv'
    OBVIOUS
  <1>a. /\ rx \in Rings /\ tx \in Rings
        /\ Unset \notin ToSet(Contents(rx)) /\ Unset \notin ToSet(Contents(tx))
        /\ saved \in Seq(Bytes) /\ Len(saved) <= 2
        /\ issued \in 0 .. MaxCommands /\ arrived \in 0 .. (3 * Packets)
        /\ ioctl.at \in {"take", "write"} => ioctl.room \in Nat
        /\ ioctl.at = "write" => ioctl.buf \in Seq(Bytes)
        /\ Accounts(Contents(tx), InHand, wire, refused, cut, issued, Doomed)
    BY DEF SendInv, TypeOK
  <1>b. ioctl' = ioctl => InHand' = InHand /\ Doomed' = Doomed
    BY DEF InHand, Doomed
  <1>1. ASSUME UNCHANGED vars PROVE SendInv'
    BY <1>1, <1>a, <1>b DEF vars, SendInv, TypeOK
  <1>2. ASSUME LoseByte PROVE SendInv'
    <2>1. /\ arrived' \in 0 .. (3 * Packets)
          /\ UNCHANGED <<rx, tx, saved, ioctl, issued, wire, refused, cut>>
      BY <1>2, <1>a, Numbers DEF LoseByte
    <2>2. QED
      BY <2>1, <1>a, <1>b DEF SendInv, TypeOK
  <1>3. ASSUME NEW count \in 1 .. MaxChunk, NEW room \in Rooms, rcv_buf(count, room)
        PROVE  SendInv'
    <2>1. count \in Nat /\ room \in Nat /\ issued \in Nat
      BY <1>a, Numbers
    <2>2. /\ rx' \in Rings /\ Unset \notin ToSet(Contents(rx'))
          /\ saved' \in Seq(Bytes) /\ Len(saved') <= 2
          /\ arrived' \in 0 .. (3 * Packets)
      BY <1>3, <2>1, Received
    <2>3. /\ ioctl' = ioctl
          /\ \/ UNCHANGED <<tx, issued, wire, refused, cut>>
             \/ /\ issued < MaxCommands /\ issued' = issued + 1
                /\ PutAndWake(tx, Command(issued'), room)
      BY <1>3 DEF rcv_buf
    <2>4. /\ tx' \in Rings /\ issued' \in 0 .. MaxCommands
          /\ Accounts(Contents(tx'), InHand', wire', refused', cut', issued', Doomed')
      <3>1. CASE UNCHANGED <<tx, issued, wire, refused, cut>>
        BY <1>a, <1>b, <2>3, <3>1
      <3>2. CASE /\ issued < MaxCommands /\ issued' = issued + 1
                 /\ PutAndWake(tx, Command(issued'), room)
        <4>1. PutAndWake(tx, Command(issued + 1), room)
          BY <3>2
        <4>2. /\ tx' \in Rings
              /\ Accounts(Contents(tx'), InHand, wire', refused', cut', issued + 1, Doomed)
          BY <2>1, <4>1, CommandAccounted
        <4>3. issued' \in 0 .. MaxCommands
          BY <2>1, <3>2, Numbers
        <4>4. QED
          BY <1>b, <2>3, <3>2, <4>2, <4>3
      <3>3. QED
        BY <2>3, <3>1, <3>2
    <2>5. Unset \notin ToSet(Contents(tx'))
      BY <2>4, CommandsAreSet
    <2>6. QED
      BY <1>a, <2>2, <2>3, <2>4, <2>5 DEF SendInv, TypeOK
  <1>4. ASSUME NEW room \in Rooms, write_wakeup(room) PROVE SendInv'
    <2>1. room \in Nat
      BY Numbers
    <2>2. PutAndWake(tx, <<>>, room) /\ UNCHANGED <<rx, saved, ioctl, issued, arrived>>
      BY <1>4 DEF write_wakeup
    <2>3. /\ tx' \in Rings
          /\ Accounts(Contents(tx'), InHand, wire', refused', cut', issued, Doomed)
      BY <2>1, <2>2, WakeupAccounted
    <2>4. Unset \notin ToSet(Contents(tx'))
      BY <2>3, CommandsAreSet
    <2>5. QED
      BY <1>a, <1>b, <2>2, <2>3, <2>4 DEF SendInv, TypeOK
  <1>5. ASSUME PutCommand PROVE SendInv'
    <2> DEFINE new == Command(issued + 1)
    <2>1. /\ ioctl = Idle /\ issued' = issued + 1 /\ issued' \in 0 .. MaxCommands
          /\ cut' = cut \cup Refused(tx, new) /\ tx' = PutInto(tx, new)
          /\ ioctl' = [at |-> "room"]
          /\ UNCHANGED <<rx, saved, arrived, wire, refused>> /\ issued \in Nat
      BY <1>5, <1>a, Numbers DEF PutCommand, ioctlUnchanged
    <2>2. InHand = <<>> /\ Doomed = {} /\ InHand' = <<>> /\ Doomed' = {} /\ ioctl'.at = "room"
      BY <2>1 DEF InHand, Doomed, Idle
    <2>3. new \in Seq(Bytes)
      BY <2>1, CommandFacts
    <2>4. tx' \in Rings
      BY <1>a, <2>1, <2>3, PutBytes
    <2>5. Accounts(Contents(tx'), InHand, wire, refused, cut', issued', Doomed)
      BY <1>a, <2>1, AccountPut
    <2>6. Accounts(Contents(tx'), InHand', wire', refused', cut', issued', Doomed')
      BY <2>1, <2>2, <2>5
    <2>7. Unset \notin ToSet(Contents(tx'))
      BY <2>6, CommandsAreSet
    <2> HIDE DEF new
    <2>8. QED
      BY <1>a, <2>1, <2>2, <2>4, <2>6, <2>7 DEF SendInv, TypeOK
  <1>6. ASSUME NEW room \in Rooms, AskRoom(room) PROVE SendInv'
    <2>1. /\ ioctl.at = "room" /\ ioctl' = [at |-> "take", room |-> room]
          /\ UNCHANGED <<rx, tx, saved, arrived, issued, wire, refused, cut>>
      BY <1>6 DEF AskRoom, ioctlUnchanged
    <2>2. /\ InHand = <<>> /\ Doomed = {} /\ InHand' = <<>> /\ Doomed' = {}
          /\ ioctl'.at = "take" /\ ioctl'.room \in Nat
      BY <2>1, Numbers DEF InHand, Doomed
    <2>3. QED
      BY <1>a, <2>1, <2>2 DEF SendInv, TypeOK
  <1>7. ASSUME TakeBytes PROVE SendInv'
    <2> DEFINE room == ioctl.room
               a == First(tx, Drained(room))
               q == Rest(tx, Drained(room))
    <2>1. /\ ioctl.at = "take"
          /\ ioctl' = [at |-> "write", room |-> room, buf |-> a]
          /\ tx' = q
          /\ UNCHANGED <<rx, saved, arrived, issued, wire, refused, cut>>
      BY <1>7 DEF TakeBytes, ioctlUnchanged
    <2>2. room \in Nat /\ Drained(room) \in Nat
      BY <1>a, <2>1 DEF Drained
    <2> HIDE DEF room
    <2>3. a \in Seq(Bytes) /\ q \in Rings
      BY <1>a, <2>2, TakeFrom
    <2>4. InHand = <<>> /\ Doomed = {}
      BY <2>1 DEF InHand, Doomed
    <2>5. Accounts(Contents(q), a, wire, refused, cut, issued,
                   ToSet(SubSeq(a, room + 1, Len(a))))
      BY <1>a, <2>2, <2>4, AccountTake
    <2> HIDE DEF a, q
    <2>6. /\ ioctl'.at = "write" /\ ioctl'.room = room /\ ioctl'.buf = a
          /\ InHand' = a /\ Doomed' = ToSet(SubSeq(a, room + 1, Len(a)))
      BY <2>1 DEF InHand, Doomed
    <2>7. Unset \notin ToSet(Contents(tx'))
      BY <2>1, <2>5, CommandsAreSet
    <2>8. QED
      BY <1>a, <2>1, <2>2, <2>3, <2>5, <2>6, <2>7 DEF SendInv, TypeOK
  <1>8. ASSUME WriteBytes PROVE SendInv'
    <2> DEFINE room == ioctl.room
               h == ioctl.buf
    <2>1. /\ ioctl.at = "write" /\ ioctl' = Idle
          /\ wire' = wire \o SubSeq(h, 1, Smaller(Len(h), room))
          /\ refused' = refused \cup ToSet(SubSeq(h, room + 1, Len(h)))
          /\ UNCHANGED <<rx, tx, saved, arrived, issued, cut>>
      BY <1>8 DEF WriteBytes, Writes, ioctlUnchanged
    <2>2. room \in Nat /\ h \in Seq(Bytes)
      BY <1>a, <2>1
    <2>3. InHand = h /\ Doomed = ToSet(SubSeq(h, room + 1, Len(h)))
      BY <2>1 DEF InHand, Doomed
    <2> HIDE DEF room, h
    <2>4. Accounts(Contents(tx), <<>>, wire', refused', cut, issued, {})
      BY <1>a, <2>1, <2>2, <2>3, AccountWrite
    <2>5. InHand' = <<>> /\ Doomed' = {} /\ ioctl'.at = "idle"
      BY <2>1 DEF InHand, Doomed, Idle
    <2>6. QED
      BY <1>a, <2>1, <2>4, <2>5 DEF SendInv, TypeOK
  <1>9. ASSUME ButtonsFirst \/ ButtonsReturn \/ CopyToUser PROVE SendInv'
    <2>1. /\ ioctl.at \in {"idle", "second", "copy"} /\ ioctl'.at \in {"idle", "second", "copy"}
          /\ UNCHANGED <<rx, tx, saved, arrived, issued, wire, refused, cut>>
      BY <1>9 DEF ButtonsFirst, ButtonsReturn, CopyToUser, ioctlUnchanged, Idle
    <2>2. InHand = <<>> /\ Doomed = {} /\ InHand' = <<>> /\ Doomed' = {}
      BY <2>1 DEF InHand, Doomed
    <2>3. QED
      BY <1>a, <2>1, <2>2 DEF SendInv, TypeOK
  <1>10. QED
    BY <1>1, <1>2, <1>3, <1>4, <1>5, <1>6, <1>7, <1>8, <1>9 DEF Next

(* Every byte of a command is in one place and is sent at most once, and    *)
(* the controller gets whole commands as long as no byte is refused or cut: *)
(* tuxctl_ldisc_put, tuxctl_ldisc_write_wakeup and the process in between.  *)
THEOREM SendsAreInOrder == Spec => []SendsInOrder
  <1>1. SendInv => SendsInOrder
    <2> SUFFICES ASSUME SendInv PROVE SendsInOrder
      OBVIOUS
    <2> DEFINE c == Contents(tx)
               h == InHand
    <2>1. /\ Apart(c, h, wire, refused)
          /\ ToSet(c) \cup ToSet(h) \cup ToSet(wire) \cup refused \cup cut
               = (1 .. issued) \X (1 .. COMMAND)
          /\ refused \cup Doomed \cup cut = {} => Whole(wire)
      BY DEF SendInv, Accounts
    <2> HIDE DEF c, h
    <2>2. c \in Seq(Bytes) /\ h \in Seq(Bytes) /\ wire \in Seq(Bytes)
      BY <2>1 DEF Apart
    <2>3. /\ IsInjective(c \o h \o wire) /\ refused \cap ToSet(c \o h \o wire) = {}
          /\ ToSet(c \o h \o wire) = ToSet(c) \cup ToSet(h) \cup ToSet(wire)
      BY <2>1, <2>2, ApartIsOnce
    <2>4. EachByteOnce
      BY <2>1, <2>3 DEF EachByteOnce, c, h
    <2>5. CommandsStayWhole
      BY <2>1 DEF CommandsStayWhole
    <2>6. TypeOK
      BY DEF SendInv
    <2>7. QED
      BY <2>4, <2>5, <2>6 DEF SendsInOrder
  <1>2. QED
    BY SendInit, SendNext, <1>1, PTL DEF Spec

-----------------------------------------------------------------------------
(* What the controller sends, numbered from 1.                              *)
Sound == (Nat \ {0}) \X (1 .. 3)
Place(b) == 3 * (b[1] - 1) + b[2]

LEMMA SentPlace ==
  /\ \A n \in Nat \ {0} : Sent(n) \in Sound /\ Place(Sent(n)) = n
  /\ \A b \in Sound : Place(b) \in Nat \ {0} /\ Sent(Place(b)) = b
  <1>1. ASSUME NEW n \in Nat \ {0} PROVE Sent(n) \in Sound /\ Place(Sent(n)) = n
    <2> DEFINE d == (n - 1) \div 3
               m == (n - 1) % 3
    <2>1. n - 1 \in Nat /\ 3 \in Nat \ {0}
      OBVIOUS
    <2>2. d \in Nat /\ m \in 0 .. 3 - 1 /\ n - 1 = 3 * d + m
      BY <2>1, DivMod
    <2>3. Sent(n) = <<d + 1, m + 1>>
      BY DEF Sent
    <2> HIDE DEF d, m
    <2>4. QED
      BY <2>2, <2>3 DEF Sound, Place
  <1>2. ASSUME NEW b \in Sound PROVE Place(b) \in Nat \ {0} /\ Sent(Place(b)) = b
    <2> DEFINE q == b[1] - 1
               r == b[2] - 1
               n == Place(b)
    <2>1. /\ b[1] \in Nat \ {0} /\ b[2] \in 1 .. 3 /\ b = <<b[1], b[2]>>
          /\ q \in Nat /\ r \in 0 .. 3 - 1
      BY DEF Sound
    <2>2. n = 3 * q + (r + 1) /\ n \in Nat \ {0} /\ n - 1 \in Nat /\ n - 1 = 3 * q + r
      BY <2>1 DEF Place
    <2> HIDE DEF q, r, n
    <2>3. (n - 1) \div 3 = q /\ (n - 1) % 3 = r
      <3>1. 3 \in Nat \ {0}
        OBVIOUS
      <3>2. QED
        BY <2>1, <2>2, <3>1, DivUnique
    <2>4. Sent(n) = <<q + 1, r + 1>>
      BY <2>3 DEF Sent
    <2>5. QED
      BY <2>1, <2>2, <2>4 DEF q, r, n
  <1>3. QED
    BY <1>1, <1>2

(* The bytes of a packet have consecutive numbers.                          *)
LEMMA PacketPlaces ==
  ASSUME NEW p \in Nat \ {0}
  PROVE  LET n == 3 * (p - 1) + 1
         IN  /\ n \in Nat \ {0}
             /\ Sent(n) = <<p, 1>> /\ Sent(n + 1) = <<p, 2>> /\ Sent(n + 2) = <<p, 3>>
             /\ Sent(n + 3) = <<p + 1, 1>>
  <1> DEFINE n == 3 * (p - 1) + 1
  <1>1. /\ <<p, 1>> \in Sound /\ <<p, 2>> \in Sound /\ <<p, 3>> \in Sound
        /\ <<p + 1, 1>> \in Sound
    BY DEF Sound
  <1>2. /\ Place(<<p, 1>>) = n /\ Place(<<p, 2>>) = n + 1 /\ Place(<<p, 3>>) = n + 2
        /\ Place(<<p + 1, 1>>) = n + 3
    BY DEF Place
  <1>3. n \in Nat \ {0}
    OBVIOUS
  <1> HIDE DEF n
  <1>4. QED
    BY <1>1, <1>2, <1>3, SentPlace DEF n

(* w, from i on, is what is left to scan: all the bytes behind number F, in *)
(* order, except those lost (x), of the a bytes sent.                       *)
OneLost(x) == \A b, c \in x : b = c
Rising(w) == \A j, k \in 1 .. Len(w) : j < k => Place(w[j]) < Place(w[k])
Within(w, i, F, a) == \A j \in i .. Len(w) : Place(w[j]) \in (F + 1) .. a
Kept(w, i, F, x, a) ==
  \A n \in (F + 1) .. a : Sent(n) \in x \/ \E j \in i .. Len(w) : w[j] = Sent(n)
Stream(F, w, i, x, a) ==
  /\ a \in Nat /\ F \in 0 .. a /\ w \in Seq(Sound) /\ i \in 1 .. (Len(w) + 1)
  /\ Within(w, i, F, a) /\ Rising(w) /\ Kept(w, i, F, x, a)
  /\ x \subseteq {Sent(n) : n \in 1 .. a}

(* h is the packets handled of what is up to number F: none twice, in order,*)
(* none that is whole left out, none mixed unless two bytes were lost.      *)
Good(p, F, x) ==
  /\ p \in Seq(Sound) /\ Len(p) = 3 /\ p[1][2] = 1
  /\ Place(p[1]) < Place(p[2]) /\ Place(p[2]) < Place(p[3]) /\ Place(p[3]) <= F
  /\ OneLost(x) => p = [k \in 1 .. 3 |-> <<Id(p), k>>]
Ordered(h) == \A j, k \in 1 .. Len(h) : j < k => Place(h[j][3]) < Place(h[k][1])
Complete(h, F, x) ==
  \A p \in Nat \ {0} :
    3 * (p - 1) + 1 <= F /\ (\A k \in 1 .. 3 : <<p, k>> \notin x)
      => \E j \in 1 .. Len(h) : Id(h[j]) = p
Past(h, F, x) ==
  /\ h \in Seq(Seq(Sound)) /\ (\A j \in 1 .. Len(h) : Good(h[j], F, x))
  /\ Ordered(h) /\ Complete(h, F, x)

LEMMA StreamPlaces ==
  ASSUME NEW F, NEW w, NEW i, NEW x, NEW a, Stream(F, w, i, x, a)
  PROVE  /\ a \in Nat /\ F \in 0 .. a /\ Len(w) \in Nat /\ i \in 1 .. (Len(w) + 1)
         /\ i \in Nat \ {0} /\ w \in Seq(Sound)
         /\ \A j \in 1 .. Len(w) : w[j] \in Sound /\ Place(w[j]) \in Nat \ {0}
         /\ \A j \in i .. Len(w) : Place(w[j]) > F /\ Place(w[j]) <= a
         /\ \A j, k \in 1 .. Len(w) : j < k => Place(w[j]) < Place(w[k])
  <1>1. a \in Nat /\ F \in 0 .. a /\ w \in Seq(Sound) /\ i \in 1 .. (Len(w) + 1)
    BY DEF Stream
  <1>2. Len(w) \in Nat /\ \A j \in 1 .. Len(w) : w[j] \in Sound
    BY <1>1, LenProperties, ElementOfSeq
  <1>3. \A j \in 1 .. Len(w) : Place(w[j]) \in Nat \ {0}
    BY <1>2, SentPlace
  <1>4. ASSUME NEW j \in i .. Len(w) PROVE Place(w[j]) > F /\ Place(w[j]) <= a
    <2>1. Place(w[j]) \in (F + 1) .. a
      BY DEF Stream, Within
    <2>2. QED
      BY <1>1, <2>1
  <1>5. \A j, k \in 1 .. Len(w) : j < k => Place(w[j]) < Place(w[k])
    BY DEF Stream, Rising
  <1>6. QED
    BY <1>1, <1>2, <1>3, <1>4, <1>5

(* A byte that is not lost follows the last one before it.                  *)
LEMMA Follows ==
  ASSUME NEW F, NEW w, NEW i, NEW x, NEW a, Stream(F, w, i, x, a),
         NEW k \in i .. Len(w), NEW m \in Nat,
         Place(w[k]) < m, m <= a, Sent(m) \notin x,
         k + 1 <= Len(w) => m <= Place(w[k + 1])
  PROVE  k + 1 <= Len(w) /\ w[k + 1] = Sent(m)
  <1>1. /\ a \in Nat /\ F \in 0 .. a /\ Len(w) \in Nat /\ i \in 1 .. (Len(w) + 1)
        /\ \A j \in 1 .. Len(w) : Place(w[j]) \in Nat \ {0}
        /\ Place(w[k]) > F
        /\ \A j, l \in 1 .. Len(w) : j < l => Place(w[j]) < Place(w[l])
    BY StreamPlaces
  <1>2. k \in 1 .. Len(w) /\ k \in Nat
    BY <1>1
  <1>3. Place(w[k]) \in Nat
    BY <1>1, <1>2
  <1>4. m \in (F + 1) .. a /\ m \in Nat \ {0}
    BY <1>1, <1>3
  <1>5. PICK j \in i .. Len(w) : w[j] = Sent(m)
    BY <1>4 DEF Stream, Kept
  <1>6. Place(w[j]) = m /\ j \in 1 .. Len(w)
    BY <1>1, <1>4, <1>5, SentPlace
  <1>7. ~(j < k) /\ j # k
    <2>1. j < k => Place(w[j]) < Place(w[k])
      BY <1>1, <1>2, <1>6
    <2>2. QED
      BY <1>3, <1>6, <2>1
  <1>8. k + 1 \in 1 .. Len(w) /\ k + 1 <= j
    BY <1>1, <1>2, <1>6, <1>7
  <1>9. ~(k + 1 < j)
    <2>1. k + 1 < j => Place(w[k + 1]) < Place(w[j])
      BY <1>1, <1>6, <1>8
    <2>2. Place(w[k + 1]) \in Nat
      BY <1>1, <1>8
    <2>3. m <= Place(w[k + 1])
      BY <1>1, <1>8
    <2>4. QED
      BY <1>6, <2>1, <2>2, <2>3
  <1>10. j = k + 1
    BY <1>6, <1>8, <1>9
  <1>11. QED
    BY <1>5, <1>8, <1>10

(* A packet that nothing was lost of stands together.                       *)
LEMMA WholeIsFramed ==
  ASSUME NEW F, NEW w, NEW i, NEW x, NEW a, Stream(F, w, i, x, a),
         NEW k \in i .. Len(w), k + 2 <= Len(w), NEW p \in Nat \ {0}, w[k] = <<p, 1>>,
         \A l \in 1 .. 3 : <<p, l>> \notin x
  PROVE  Framed(w, k)
  <1> DEFINE n == 3 * (p - 1) + 1
  <1>1. /\ n \in Nat \ {0} /\ Sent(n) = <<p, 1>>
        /\ Sent(n + 1) = <<p, 2>> /\ Sent(n + 2) = <<p, 3>>
    BY PacketPlaces
  <1>2. Place(w[k]) = n
    BY DEF Place
  <1> HIDE DEF n
  <1>3. /\ a \in Nat /\ Len(w) \in Nat /\ i \in Nat \ {0}
        /\ \A j \in 1 .. Len(w) : Place(w[j]) \in Nat \ {0}
        /\ \A j \in i .. Len(w) : Place(w[j]) <= a
        /\ \A j, l \in 1 .. Len(w) : j < l => Place(w[j]) < Place(w[l])
    BY StreamPlaces, Zenon
  <1>4. /\ k \in Nat /\ k + 1 \in i .. Len(w) /\ k + 2 \in i .. Len(w)
        /\ k \in 1 .. Len(w) /\ k + 1 \in 1 .. Len(w) /\ k + 2 \in 1 .. Len(w)
        /\ k < k + 1 /\ k + 1 < k + 2
    BY <1>3
  <1>5. /\ Place(w[k + 1]) \in Nat /\ Place(w[k + 2]) \in Nat
        /\ n < Place(w[k + 1]) /\ Place(w[k + 1]) < Place(w[k + 2]) /\ Place(w[k + 2]) <= a
    <2>1. /\ Place(w[k + 1]) \in Nat \ {0} /\ Place(w[k + 2]) \in Nat \ {0}
          /\ Place(w[k]) < Place(w[k + 1]) /\ Place(w[k + 1]) < Place(w[k + 2])
          /\ Place(w[k + 2]) <= a
      BY <1>3, <1>4, Zenon
    <2>2. QED
      BY <1>2, <2>1
  <1>6. n + 1 \in Nat /\ n + 1 <= a /\ n + 1 <= Place(w[k + 1]) /\ n < n + 1
    <2>1. n \in Nat /\ a \in Nat
      BY <1>1, <1>3
    <2>2. QED
      BY <1>5, <2>1
  <1>7. w[k + 1] = Sent(n + 1)
    <2>1. Sent(n + 1) \notin x
      BY <1>1
    <2>2. Place(w[k]) < n + 1
      BY <1>2, <1>6
    <2>3. QED
      BY <1>6, <2>1, <2>2, Follows
  <1>8. Place(w[k + 1]) = n + 1
    BY <1>1, <1>7, SentPlace
  <1>9. n + 2 \in Nat /\ n + 2 <= a /\ n + 2 <= Place(w[k + 2]) /\ n + 1 < n + 2
    BY <1>1, <1>3, <1>5, <1>8
  <1>10. w[k + 2] = Sent(n + 2)
    <2>1. Sent(n + 2) \notin x
      BY <1>1
    <2>2. (k + 1) + 1 = k + 2
      BY <1>4
    <2>3. QED
      BY <1>4, <1>8, <1>9, <2>1, <2>2, Follows
  <1>11. w[k + 1][2] = 2 /\ w[k + 2][2] = 3 /\ w[k][2] = 1
    BY <1>1, <1>7, <1>10
  <1>12. QED
    BY <1>11 DEF Framed

(* With one byte lost at most, what is framed is a packet.                  *)
LEMMA FramedIsWhole ==
  ASSUME NEW F, NEW w, NEW i, NEW x, NEW a, Stream(F, w, i, x, a),
         NEW k \in i .. Len(w), k + 2 <= Len(w), Framed(w, k), OneLost(x)
  PROVE  w[k + 1] = <<w[k][1], 2>> /\ w[k + 2] = <<w[k][1], 3>>
  <1> DEFINE p == w[k][1]
             n == 3 * (p - 1) + 1
             u == Place(w[k + 1])
             v == Place(w[k + 2])
  <1>1. /\ a \in Nat /\ Len(w) \in Nat /\ i \in Nat \ {0}
        /\ \A j \in 1 .. Len(w) : w[j] \in Sound /\ Place(w[j]) \in Nat \ {0}
        /\ \A j \in i .. Len(w) : Place(w[j]) <= a
        /\ \A j, l \in 1 .. Len(w) : j < l => Place(w[j]) < Place(w[l])
    BY StreamPlaces, Zenon
  <1>2. /\ k \in Nat /\ k + 1 \in i .. Len(w) /\ k + 2 \in i .. Len(w)
        /\ k \in 1 .. Len(w) /\ k + 1 \in 1 .. Len(w) /\ k + 2 \in 1 .. Len(w)
        /\ k < k + 1 /\ k + 1 < k + 2 /\ (k + 1) + 1 = k + 2
    BY <1>1
  <1>3. p \in Nat \ {0} /\ w[k] = <<p, 1>> /\ w[k + 1][2] # 1 /\ w[k + 2][2] # 1
    <2>1. w[k] \in Sound /\ w[k][2] = 1 /\ w[k + 1][2] # 1 /\ w[k + 2][2] # 1
      BY <1>1, <1>2 DEF Framed
    <2>2. QED
      BY <2>1 DEF Sound
  <1>4. /\ n \in Nat \ {0} /\ Sent(n) = <<p, 1>>
        /\ Sent(n + 1) = <<p, 2>> /\ Sent(n + 2) = <<p, 3>> /\ Sent(n + 3) = <<p + 1, 1>>
    BY <1>3, PacketPlaces
  <1>5. Place(w[k]) = n
    BY <1>3 DEF Place
  <1>6. u \in Nat /\ v \in Nat /\ n < u /\ u < v /\ u <= a /\ v <= a
    BY <1>1, <1>2, <1>5
  <1>7. /\ w[k + 1] = Sent(u) /\ w[k + 2] = Sent(v)
    BY <1>1, <1>2, SentPlace
  <1> HIDE DEF n, u, v, p
  <1>8. u # n + 3 /\ v # n + 3
    <2>1. Sent(n + 3)[2] = 1
      BY <1>4
    <2>2. Sent(u)[2] # 1 /\ Sent(v)[2] # 1
      BY <1>3, <1>7, Zenon
    <2>3. QED
      BY <2>1, <2>2
  <1>9. /\ Sent(n + 1) # Sent(n + 2) /\ Sent(n + 1) # Sent(n + 3) /\ Sent(n + 2) # Sent(n + 3)
    BY <1>3, <1>4
  <1>10. \A m \in Nat : n < m /\ m <= u /\ Sent(m) \notin x => m = u
    <2> SUFFICES ASSUME NEW m \in Nat, n < m, m <= u, Sent(m) \notin x PROVE m = u
      OBVIOUS
    <2>1. w[k + 1] = Sent(m)
      <3>1. m <= a /\ m <= Place(w[k + 1])
        BY <1>1, <1>6 DEF u
      <3>2. QED
        BY <1>5, <3>1, Follows
    <2>2. QED
      BY <1>4, <2>1, SentPlace DEF u
  <1>11. \A m \in Nat : u < m /\ m <= v /\ Sent(m) \notin x => m = v
    <2> SUFFICES ASSUME NEW m \in Nat, u < m, m <= v, Sent(m) \notin x PROVE m = v
      OBVIOUS
    <2>1. w[k + 2] = Sent(m)
      <3>1. m <= a /\ m <= Place(w[(k + 1) + 1]) /\ Place(w[k + 1]) < m
        BY <1>1, <1>2, <1>6 DEF u, v
      <3>2. w[(k + 1) + 1] = Sent(m)
        BY <1>2, <3>1, Follows
      <3>3. QED
        BY <1>2, <3>2
    <2>2. m \in Nat \ {0}
      BY <1>6
    <2>3. QED
      BY <2>1, <2>2, SentPlace DEF v
  <1>12. n + 1 \in Nat /\ n + 2 \in Nat /\ n + 3 \in Nat /\ n \in Nat
    BY <1>4
  <1>13. u = n + 1
    <2> SUFFICES ASSUME u # n + 1 PROVE FALSE
      OBVIOUS
    <2>1. Sent(n + 1) \in x
      BY <1>6, <1>10, <1>12
    <2>2. Sent(n + 2) \notin x /\ Sent(n + 3) \notin x
      BY <1>9, <2>1 DEF OneLost
    <2>3. u = n + 2
      BY <1>6, <1>10, <1>12, <2>2
    <2>4. v = n + 3
      BY <1>6, <1>11, <1>12, <2>2, <2>3
    <2>5. QED
      BY <1>8, <2>4
  <1>14. v = n + 2
    <2> SUFFICES ASSUME v # n + 2 PROVE FALSE
      OBVIOUS
    <2>1. Sent(n + 2) \in x
      BY <1>6, <1>11, <1>12, <1>13
    <2>2. Sent(n + 3) \notin x
      BY <1>9, <2>1 DEF OneLost
    <2>3. v = n + 3
      BY <1>6, <1>11, <1>12, <1>13, <2>2
    <2>4. QED
      BY <1>8, <2>3
  <1>15. QED
    BY <1>4, <1>7, <1>13, <1>14 DEF p

-----------------------------------------------------------------------------
(* The frontier moves up to a byte of the stream. *)
LEMMA StreamOn ==
  ASSUME NEW F, NEW w, NEW i, NEW x, NEW a, Stream(F, w, i, x, a), NEW k \in i .. Len(w)
  PROVE  Stream(Place(w[k]), w, k + 1, x, a)
  <1> DEFINE G == Place(w[k])
  <1>1. /\ a \in Nat /\ F \in 0 .. a /\ Len(w) \in Nat /\ i \in Nat \ {0}
        /\ \A j \in 1 .. Len(w) : Place(w[j]) \in Nat \ {0}
        /\ \A j \in i .. Len(w) : Place(w[j]) > F /\ Place(w[j]) <= a
        /\ \A j, l \in 1 .. Len(w) : j < l => Place(w[j]) < Place(w[l])
    BY StreamPlaces
  <1>2. k \in Nat /\ k \in 1 .. Len(w) /\ G \in Nat /\ G > F /\ G <= a
    BY <1>1
  <1>3. Within(w, k + 1, G, a)
    <2> SUFFICES ASSUME NEW j \in (k + 1) .. Len(w) PROVE Place(w[j]) \in (G + 1) .. a
      BY DEF Within
    <2>1. j \in 1 .. Len(w) /\ j \in i .. Len(w) /\ k < j
      BY <1>1, <1>2
    <2>2. G < Place(w[j]) /\ Place(w[j]) <= a /\ Place(w[j]) \in Nat
      BY <1>1, <1>2, <2>1
    <2>3. QED
      BY <1>1, <1>2, <2>2
  <1>4. Kept(w, k + 1, G, x, a)
    <2> SUFFICES ASSUME NEW n \in (G + 1) .. a, Sent(n) \notin x
                 PROVE  \E j \in (k + 1) .. Len(w) : w[j] = Sent(n)
      BY DEF Kept
    <2>1. n \in (F + 1) .. a /\ n \in Nat \ {0}
      BY <1>1, <1>2
    <2>2. PICK j \in i .. Len(w) : w[j] = Sent(n)
      BY <2>1 DEF Stream, Kept
    <2>3. Place(w[j]) = n /\ j \in 1 .. Len(w)
      BY <1>1, <2>1, <2>2, SentPlace
    <2>4. j # k /\ ~(j < k)
      <3>1. j < k => Place(w[j]) < G
        BY <1>1, <1>2, <2>3
      <3>2. G < n
        BY <1>1, <1>2
      <3>3. QED
        BY <1>2, <2>1, <2>3, <3>1, <3>2
    <2>5. j \in (k + 1) .. Len(w)
      BY <1>1, <1>2, <2>3, <2>4
    <2>6. QED
      BY <2>2, <2>5
  <1>5. k + 1 \in 1 .. (Len(w) + 1) /\ G \in 0 .. a
    BY <1>1, <1>2
  <1> HIDE DEF G
  <1>6. QED
    BY <1>3, <1>4, <1>5 DEF Stream, G

LEMMA GoodStays ==
  ASSUME NEW p, NEW F \in Int, NEW G \in Int, F <= G, NEW x, NEW y, x \subseteq y,
         Good(p, F, x)
  PROVE  Good(p, G, y)
  <1>1. p[3] \in Sound
    BY ElementOfSeq DEF Good
  <1>2. Place(p[3]) \in Nat
    BY <1>1, SentPlace
  <1>3. Place(p[3]) <= G
    BY <1>2 DEF Good
  <1>4. OneLost(y) => OneLost(x)
    BY DEF OneLost
  <1>5. QED
    BY <1>3, <1>4 DEF Good

(* The scan passes a byte that begins no packet ... *)
LEMMA SkipStep ==
  ASSUME NEW F, NEW w, NEW i, NEW x, NEW a, NEW h,
         Stream(F, w, i, x, a), Past(h, F, x), i + 2 <= Len(w), ~Framed(w, i)
  PROVE  \E G : Stream(G, w, i + 1, x, a) /\ Past(h, G, x)
  <1> DEFINE G == Place(w[i])
  <1>1. /\ a \in Nat /\ F \in 0 .. a /\ Len(w) \in Nat /\ i \in Nat \ {0}
        /\ \A j \in 1 .. Len(w) : w[j] \in Sound /\ Place(w[j]) \in Nat \ {0}
        /\ \A j \in i .. Len(w) : Place(w[j]) > F /\ Place(w[j]) <= a
        /\ \A j, l \in 1 .. Len(w) : j < l => Place(w[j]) < Place(w[l])
    BY StreamPlaces
  <1>2. i \in i .. Len(w) /\ i \in 1 .. Len(w) /\ G \in Nat /\ G > F /\ G <= a
    BY <1>1
  <1>3. Stream(G, w, i + 1, x, a)
    BY <1>2, StreamOn
  <1>4. h \in Seq(Seq(Sound)) /\ (\A j \in 1 .. Len(h) : Good(h[j], G, x)) /\ Ordered(h)
    BY <1>1, <1>2, GoodStays DEF Past
  <1>5. Complete(h, G, x)
    <2> SUFFICES ASSUME NEW p \in Nat \ {0}, 3 * (p - 1) + 1 <= G,
                        \A k \in 1 .. 3 : <<p, k>> \notin x
                 PROVE  \E j \in 1 .. Len(h) : Id(h[j]) = p
      BY DEF Complete
    <2> DEFINE n == 3 * (p - 1) + 1
    <2>1. CASE n <= F
      BY <2>1 DEF Past, Complete
    <2>2. CASE ~(n <= F)
      <3>1. n \in Nat \ {0} /\ Sent(n) = <<p, 1>>
        BY PacketPlaces
      <3> HIDE DEF n
      <3>2. n \in (F + 1) .. a /\ n <= G
        BY <1>1, <1>2, <2>2, <3>1 DEF n
      <3>3. Sent(n) \notin x
        BY <3>1
      <3>4. PICK j \in i .. Len(w) : w[j] = Sent(n)
        BY <3>2, <3>3 DEF Stream, Kept
      <3>5. Place(w[j]) = n /\ j \in 1 .. Len(w)
        <4>1. Place(Sent(n)) = n
          BY <3>1, SentPlace
        <4>2. j \in 1 .. Len(w)
          BY <1>1
        <4>3. QED
          BY <3>4, <4>1, <4>2
      <3>6. ~(i < j)
        <4>1. i < j => G < Place(w[j])
          BY <1>1, <1>2, <3>5
        <4>2. QED
          BY <1>2, <3>1, <3>2, <3>5, <4>1
      <3>7. j = i
        BY <1>1, <3>6
      <3>8. w[i] = <<p, 1>>
        BY <3>1, <3>4, <3>7
      <3>9. Framed(w, i)
        BY <1>2, <3>8, WholeIsFramed
      <3>10. QED
        BY <3>9
    <2>3. QED
      BY <2>1, <2>2
  <1>6. Past(h, G, x)
    BY <1>4, <1>5 DEF Past
  <1>7. QED
    BY <1>3, <1>6

(* ... and takes the three bytes of one. *)
LEMMA TakeStep ==
  ASSUME NEW F, NEW w, NEW i, NEW x, NEW a, NEW h,
         Stream(F, w, i, x, a), Past(h, F, x), i + 2 <= Len(w), Framed(w, i)
  PROVE  \E G : Stream(G, w, i + 3, x, a) /\ Past(Append(h, SubSeq(w, i, i + 2)), G, x)
  <1> DEFINE G == Place(w[i + 2])
             p == SubSeq(w, i, i + 2)
             g == Append(h, p)
  <1>1. /\ a \in Nat /\ F \in 0 .. a /\ Len(w) \in Nat /\ i \in Nat \ {0}
        /\ \A j \in 1 .. Len(w) : w[j] \in Sound /\ Place(w[j]) \in Nat \ {0}
        /\ \A j \in i .. Len(w) : Place(w[j]) > F /\ Place(w[j]) <= a
        /\ \A j, l \in 1 .. Len(w) : j < l => Place(w[j]) < Place(w[l])
        /\ w \in Seq(Sound)
    BY StreamPlaces, Zenon
  <1>2. /\ i \in i .. Len(w) /\ i + 1 \in i .. Len(w) /\ i + 2 \in i .. Len(w)
        /\ i \in 1 .. Len(w) /\ i + 1 \in 1 .. Len(w) /\ i + 2 \in 1 .. Len(w)
        /\ i < i + 1 /\ i + 1 < i + 2 /\ (i + 2) + 1 = i + 3
    BY <1>1
  <1>3. /\ Place(w[i]) \in Nat /\ Place(w[i + 1]) \in Nat /\ G \in Nat
        /\ Place(w[i]) < Place(w[i + 1]) /\ Place(w[i + 1]) < G
        /\ Place(w[i]) > F /\ G <= a
    BY <1>1, <1>2
  <1>4. Stream(G, w, i + 3, x, a)
    BY <1>2, StreamOn
  <1>5. /\ p \in Seq(Sound) /\ Len(p) = 3
        /\ p[1] = w[i] /\ p[2] = w[i + 1] /\ p[3] = w[i + 2]
    BY <1>1, <1>2
  <1> HIDE DEF p, G
  <1>6. Good(p, G, x)
    <2>1. p[1][2] = 1
      BY <1>5 DEF Framed
    <2>2. ASSUME OneLost(x) PROVE p = [k \in 1 .. 3 |-> <<Id(p), k>>]
      <3>1. w[i + 1] = <<w[i][1], 2>> /\ w[i + 2] = <<w[i][1], 3>>
        BY <1>2, <2>2, FramedIsWhole
      <3>2. w[i] = <<w[i][1], 1>>
        <4>1. w[i] \in Sound /\ w[i][2] = 1
          BY <1>1, <1>2, <1>5, <2>1
        <4>2. QED
          BY <4>1 DEF Sound
      <3>3. p[1] = <<Id(p), 1>> /\ p[2] = <<Id(p), 2>> /\ p[3] = <<Id(p), 3>>
        BY <1>5, <3>1, <3>2 DEF Id
      <3>4. \A k \in 1 .. 3 : p[k] = <<Id(p), k>>
        <4>1. \A k \in 1 .. 3 : k = 1 \/ k = 2 \/ k = 3
          OBVIOUS
        <4>2. QED
          BY <3>3, <4>1
      <3>5. p = [k \in 1 .. 3 |-> p[k]]
        <4>1. p \in [1 .. Len(p) -> Sound]
          BY <1>5, LenProperties
        <4>2. QED
          BY <1>5, <4>1
      <3>6. QED
        BY <3>4, <3>5
    <2>3. Place(p[1]) < Place(p[2]) /\ Place(p[2]) < Place(p[3]) /\ Place(p[3]) <= G
      BY <1>3, <1>5 DEF G
    <2>4. QED
      BY <1>5, <2>1, <2>2, <2>3 DEF Good
  <1>7. /\ h \in Seq(Seq(Sound)) /\ Len(h) \in Nat
        /\ g \in Seq(Seq(Sound)) /\ Len(g) = Len(h) + 1 /\ g[Len(h) + 1] = p
        /\ \A j \in 1 .. Len(h) : g[j] = h[j]
    <2>1. h \in Seq(Seq(Sound))
      BY DEF Past
    <2>2. QED
      BY <1>5, <2>1, AppendProperties, LenProperties
  <1> HIDE DEF g
  <1>8. \A j \in 1 .. Len(h) : Good(h[j], F, x)
    BY DEF Past
  <1>9. \A j \in 1 .. Len(g) : Good(g[j], G, x)
    <2> SUFFICES ASSUME NEW j \in 1 .. Len(g) PROVE Good(g[j], G, x)
      OBVIOUS
    <2>1. CASE j \in 1 .. Len(h)
      <3>1. F \in Int /\ G \in Int /\ F <= G
        BY <1>1, <1>3
      <3>2. QED
        BY <1>7, <1>8, <2>1, <3>1, GoodStays
    <2>2. CASE j = Len(h) + 1
      BY <1>6, <1>7, <2>2
    <2>3. QED
      BY <1>7, <2>1, <2>2
  <1>10. Ordered(g)
    <2> SUFFICES ASSUME NEW j \in 1 .. Len(g), NEW k \in 1 .. Len(g), j < k
                 PROVE  Place(g[j][3]) < Place(g[k][1])
      BY DEF Ordered
    <2>0. Len(h) \in Nat /\ Len(g) = Len(h) + 1
      BY <1>7
    <2>1. j \in 1 .. Len(h) /\ (k \in 1 .. Len(h) \/ k = Len(h) + 1)
      BY <2>0
    <2>2. CASE k \in 1 .. Len(h)
      BY <1>7, <2>1, <2>2 DEF Past, Ordered
    <2>3. CASE k = Len(h) + 1
      <3>1. Good(h[j], F, x)
        BY <1>8, <2>1
      <3>2. h[j][3] \in Sound /\ Place(h[j][3]) <= F
        BY <3>1, ElementOfSeq DEF Good
      <3>3. Place(h[j][3]) \in Nat
        BY <3>2, SentPlace
      <3>4. Place(g[k][1]) = Place(w[i])
        BY <1>5, <1>7, <2>3
      <3>5. Place(h[j][3]) < Place(w[i])
        BY <1>1, <1>3, <3>2, <3>3
      <3>6. g[j] = h[j]
        BY <1>7, <2>1
      <3>7. QED
        BY <3>4, <3>5, <3>6
    <2>4. QED
      BY <2>1, <2>2, <2>3
  <1>11. Complete(g, G, x)
    <2> SUFFICES ASSUME NEW q \in Nat \ {0}, 3 * (q - 1) + 1 <= G,
                        \A k \in 1 .. 3 : <<q, k>> \notin x
                 PROVE  \E j \in 1 .. Len(g) : Id(g[j]) = q
      BY DEF Complete
    <2> DEFINE n == 3 * (q - 1) + 1
    <2>1. CASE n <= F
      <3>1. PICK j \in 1 .. Len(h) : Id(h[j]) = q
        BY <2>1 DEF Past, Complete
      <3>2. j \in 1 .. Len(g) /\ g[j] = h[j]
        BY <1>7
      <3>3. QED
        BY <3>1, <3>2
    <2>2. CASE ~(n <= F)
      <3>1. n \in Nat \ {0} /\ Sent(n) = <<q, 1>>
        BY PacketPlaces
      <3> HIDE DEF n
      <3>2. n \in (F + 1) .. a /\ n <= G
        BY <1>1, <1>3, <2>2, <3>1 DEF n
      <3>3. Sent(n) \notin x
        BY <3>1
      <3>4. PICK j \in i .. Len(w) : w[j] = Sent(n)
        BY <3>2, <3>3 DEF Stream, Kept
      <3>5. Place(w[j]) = n /\ j \in 1 .. Len(w)
        <4>1. Place(Sent(n)) = n
          BY <3>1, SentPlace
        <4>2. j \in 1 .. Len(w)
          BY <1>1
        <4>3. QED
          BY <3>4, <4>1, <4>2
      <3>6. ~(i + 2 < j)
        <4>1. i + 2 < j => G < Place(w[j])
          BY <1>1, <1>2, <3>5 DEF G
        <4>2. QED
          BY <1>3, <3>1, <3>2, <3>5, <4>1
      <3>7. w[j][2] = 1
        BY <3>1, <3>4
      <3>8. j # i + 1 /\ j # i + 2
        BY <3>7 DEF Framed
      <3>9. j = i
        BY <1>1, <3>6, <3>8
      <3>10. Id(p) = q
        BY <1>5, <3>1, <3>4, <3>9 DEF Id
      <3>11. Len(h) + 1 \in 1 .. Len(g)
        BY <1>7
      <3>12. QED
        BY <1>7, <3>10, <3>11
    <2>3. QED
      BY <2>1, <2>2
  <1>12. Past(g, G, x)
    BY <1>7, <1>9, <1>10, <1>11 DEF Past
  <1>13. QED
    BY <1>4, <1>12 DEF g, p

LEMMA SoundIsBytes == \A s \in Seq(Sound) : s \in Seq(Bytes)
  <1> SUFFICES ASSUME NEW s \in Seq(Sound) PROVE s \in Seq(Bytes)
    OBVIOUS
  <1>1. Len(s) \in Nat /\ s \in [1 .. Len(s) -> Sound]
    BY LenProperties
  <1>2. Sound \subseteq Bytes
    BY DEF Sound, Bytes
  <1>3. s \in [1 .. Len(s) -> Bytes]
    BY <1>1, <1>2
  <1>4. QED
    BY <1>1, <1>3

(* The first part of a sequence. *)
LEMMA Prefix ==
  ASSUME NEW S, NEW b \in Seq(S), NEW z \in Seq(S), NEW w, w = b \o z,
         NEW k \in 1 .. Len(b), k + 2 <= Len(b)
  PROVE  /\ w[k] = b[k] /\ w[k + 1] = b[k + 1] /\ w[k + 2] = b[k + 2]
         /\ SubSeq(w, k, k + 2) = SubSeq(b, k, k + 2)
         /\ SubSeq(b, k, k + 2) \in Seq(S)
  <1>1. Len(b) \in Nat /\ Len(z) \in Nat
    BY LenProperties
  <1>2. k + 1 \in 1 .. Len(b) /\ k + 2 \in 1 .. Len(b)
    BY <1>1
  <1>3. SubSeq(b \o z, k, k + 2) = SubSeq(b, k, k + 2)
    BY <1>2, SubSeqOfConcat1
  <1>4. SubSeq(b, k, k + 2) \in Seq(S)
    <2>1. \A i \in k .. (k + 2) : b[i] \in S
      <3>1. \A i \in k .. (k + 2) : i \in 1 .. Len(b)
        BY <1>1
      <3>2. QED
        BY <3>1, ElementOfSeq
    <2>2. k \in Int /\ k + 2 \in Int
      OBVIOUS
    <2>3. QED
      BY <2>1, <2>2, SubSeqProperties
  <1>5. QED
    BY <1>1, <1>2, <1>3, <1>4, ConcatProperties

LEMMA AppendLater ==
  ASSUME NEW T, NEW h \in Seq(T), NEW f \in Seq(T), NEW p \in T
  PROVE  Append(f, p) \in Seq(T) /\ h \o Append(f, p) = Append(h \o f, p)
  <1>1. <<p>> \in Seq(T) /\ h \o f \in Seq(T)
    BY ConcatProperties
  <1>2. Append(f, p) = f \o <<p>> /\ Append(f, p) \in Seq(T)
    BY AppendIsConcat, AppendProperties
  <1>3. Append(h \o f, p) = (h \o f) \o <<p>>
    BY <1>1, AppendIsConcat
  <1>4. (h \o f) \o <<p>> = h \o (f \o <<p>>)
    BY <1>1, ConcatAssociative
  <1>5. QED
    BY <1>2, <1>3, <1>4

(* The callback's scan of the front of the stream. *)
LEMMA ScanStream ==
  ASSUME NEW bytes \in Seq(Sound), NEW z \in Seq(Sound), NEW w, w = bytes \o z,
         NEW F, NEW x, NEW a, NEW h, Stream(F, w, 1, x, a), Past(h, F, x)
  PROVE  /\ Scan(bytes).found \in Seq(Seq(Sound))
         /\ \E G : /\ Stream(G, w, Scan(bytes).i, x, a)
                   /\ Past(h \o Scan(bytes).found, G, x)
  <1> DEFINE L == Len(bytes)
             At(s) == /\ s \in [i : Nat, found : Seq(Seq(Sound))]
                      /\ s.i <= L + 1
                      /\ \E G : Stream(G, w, s.i, x, a) /\ Past(h \o s.found, G, x)
  <1>0. /\ L \in Nat /\ Len(w) \in Nat /\ Len(w) >= L /\ h \in Seq(Seq(Sound))
        /\ bytes \in Seq(Bytes)
    BY LenProperties, ConcatProperties, SoundIsBytes DEF Past
  <1>1. PICK after : /\ after[0] = ScanStart
                     /\ \A n \in 1 .. L : after[n] = ScanStep(bytes, after[n - 1], n)
                     /\ Scan(bytes) = after[L]
    BY <1>0, ScanByBytes
  <1>2. ASSUME NEW n \in 1 .. L, NEW s, At(s) PROVE At(ScanStep(bytes, s, n))
    <2>1. CASE n # s.i \/ n > L - 2
      <3>1. ScanStep(bytes, s, n) = s
        BY <2>1 DEF ScanStep
      <3> HIDE DEF At
      <3>2. QED
        BY <1>2, <3>1
    <2>2. CASE n = s.i /\ ~(n > L - 2)
      <3>0. n \in 1 .. L /\ n + 2 <= L /\ n + 2 <= Len(w)
        BY <1>0, <2>2
      <3>1. /\ w[n] = bytes[n] /\ w[n + 1] = bytes[n + 1] /\ w[n + 2] = bytes[n + 2]
            /\ SubSeq(w, n, n + 2) = SubSeq(bytes, n, n + 2)
            /\ SubSeq(bytes, n, n + 2) \in Seq(Sound)
        BY <3>0, Prefix
      <3>2. Framed(w, n) <=> Framed(bytes, n)
        BY <3>1 DEF Framed
      <3> HIDE DEF L
      <3>3. PICK G : Stream(G, w, n, x, a) /\ Past(h \o s.found, G, x)
        BY <1>2, <2>2
      <3>4. s.i \in Nat /\ s.found \in Seq(Seq(Sound)) /\ s \in [i : Nat, found : Seq(Seq(Sound))]
        BY <1>2
      <3>5. CASE Framed(bytes, n)
        <4> DEFINE p == SubSeq(bytes, n, n + 2)
        <4>1. ScanStep(bytes, s, n) = [i |-> n + 3, found |-> Append(s.found, p)]
          BY <2>2, <3>5 DEF ScanStep, L
        <4>2. PICK H : Stream(H, w, n + 3, x, a) /\ Past(Append(h \o s.found, p), H, x)
          BY <3>0, <3>1, <3>2, <3>3, <3>5, TakeStep
        <4> HIDE DEF p
        <4>3. /\ Append(s.found, p) \in Seq(Seq(Sound))
              /\ h \o Append(s.found, p) = Append(h \o s.found, p)
          <5>1. p \in Seq(Sound)
            BY <3>1 DEF p
          <5> DEFINE T == Seq(Sound)
          <5>2. h \in Seq(T) /\ s.found \in Seq(T) /\ p \in T
            BY <1>0, <3>4, <5>1
          <5> DEFINE f == s.found
          <5> HIDE DEF T, f
          <5>3. f \in Seq(T)
            BY <5>2 DEF f
          <5>4. Append(f, p) \in Seq(T) /\ h \o Append(f, p) = Append(h \o f, p)
            BY <5>2, <5>3, AppendLater
          <5>5. QED
            BY <5>4 DEF T, f
        <4> DEFINE t == [i |-> n + 3, found |-> Append(s.found, p)]
        <4>4. /\ t.i = n + 3 /\ t.found = Append(s.found, p)
              /\ t \in [i : Nat, found : Seq(Seq(Sound))]
          BY <4>3
        <4>5. n + 3 <= L + 1
          BY <1>0, <3>0
        <4>6. At(t)
          <5> HIDE DEF t
          <5>1. Stream(H, w, t.i, x, a) /\ Past(h \o t.found, H, x) /\ t.i <= L + 1
            BY <4>2, <4>3, <4>4, <4>5
          <5>2. QED
            BY <4>4, <5>1
        <4>7. QED
          BY <4>1, <4>6
      <3>6. CASE ~Framed(bytes, n)
        <4> DEFINE t == [s EXCEPT !.i = n + 1]
        <4>1. ScanStep(bytes, s, n) = t
          BY <2>2, <3>6 DEF ScanStep, L
        <4>2. PICK H : Stream(H, w, n + 1, x, a) /\ Past(h \o s.found, H, x)
          BY <3>0, <3>2, <3>3, <3>6, SkipStep
        <4>3. n + 1 \in Nat
          BY <1>0
        <4>4. t.i = n + 1 /\ t.found = s.found /\ t \in [i : Nat, found : Seq(Seq(Sound))]
          BY <3>4, <4>3
        <4>5. n + 1 <= L + 1
          BY <1>0, <3>0
        <4>6. At(t)
          <5> HIDE DEF t
          <5>1. Stream(H, w, t.i, x, a) /\ Past(h \o t.found, H, x) /\ t.i <= L + 1
            BY <4>2, <4>4, <4>5
          <5>2. QED
            BY <4>4, <5>1
        <4>7. QED
          BY <4>1, <4>6
      <3>7. QED
        BY <3>5, <3>6
    <2>3. QED
      BY <2>1, <2>2
  <1>3. At(ScanStart)
    <2> DEFINE t == ScanStart
    <2>1. t.i = 1 /\ t.found = <<>> /\ t \in [i : Nat, found : Seq(Seq(Sound))]
      BY DEF ScanStart
    <2>2. h \o <<>> = h
      BY <1>0, ConcatEmptySeq
    <2>3. Stream(F, w, 1, x, a) /\ Past(h \o <<>>, F, x) /\ 1 <= L + 1
      BY <1>0, <2>2
    <2> HIDE DEF t, L
    <2>4. Stream(F, w, t.i, x, a) /\ Past(h \o t.found, F, x) /\ t.i <= L + 1
      BY <2>1, <2>2, <2>3
    <2>5. At(t)
      BY <2>1, <2>4
    <2>6. QED
      BY <2>5 DEF t
  <1> HIDE DEF L, At
  <1>4. \A k \in 0 .. L : At(after[k])
    <2> DEFINE Wrong == {k \in 0 .. L : ~At(after[k])}
    <2> SUFFICES ASSUME Wrong # {} PROVE FALSE
      OBVIOUS
    <2>1. PICK m \in Wrong : \A k \in Wrong : m <= k
      <3>1. Wrong \in SUBSET Nat
        BY <1>0
      <3> HIDE DEF Wrong
      <3>2. QED
        BY <3>1, LeastNat
    <2>2. m \in 0 .. L /\ m \in Nat /\ ~At(after[m])
      BY <1>0, <2>1
    <2>3. m # 0
      BY <1>1, <1>3, <2>2
    <2>4. m - 1 \in 0 .. L /\ ~(m <= m - 1) /\ m \in 1 .. L
      BY <1>0, <2>2, <2>3
    <2>5. At(after[m - 1])
      <3> HIDE DEF Wrong
      <3>1. m - 1 \notin Wrong
        BY <2>1, <2>4
      <3>2. QED
        BY <2>4, <3>1 DEF Wrong
    <2>6. QED
      BY <1>1, <1>2, <2>2, <2>4, <2>5
  <1>5. At(Scan(bytes))
    BY <1>0, <1>1, <1>4
  <1>6. QED
    BY <1>5 DEF At

(* The callback keeps what the scan left, in front of the rest. *)
LEMMA Rebased ==
  ASSUME NEW bytes \in Seq(Sound), NEW z \in Seq(Sound), NEW i \in 1 .. (Len(bytes) + 1),
         NEW G, NEW x, NEW a, Stream(G, bytes \o z, i, x, a)
  PROVE  Stream(G, SubSeq(bytes, i, Len(bytes)) \o z, 1, x, a)
  <1> DEFINE w == bytes \o z
             L == Len(bytes)
             M == Len(z)
             b == SubSeq(bytes, i, L)
             v == b \o z
  <1>1. L \in Nat /\ M \in Nat /\ i \in Nat /\ i <= L + 1 /\ i >= 1
    BY LenProperties
  <1>2. /\ Len(w) = L + M
        /\ \A j \in 1 .. (L + M) : w[j] = IF j <= L THEN bytes[j] ELSE z[j - L]
    BY ConcatProperties
  <1>3. /\ b \in Seq(Sound) /\ Len(b) = L - i + 1
        /\ \A j \in 1 .. (L - i + 1) : b[j] = bytes[i + j - 1]
    <2>1. \A j \in i .. L : bytes[j] \in Sound
      BY <1>1, ElementOfSeq
    <2>2. i \in Int /\ L \in Int
      BY <1>1
    <2>3. /\ b \in Seq(Sound) /\ Len(b) = (IF i <= L THEN L - i + 1 ELSE 0)
          /\ \A j \in 1 .. (L - i + 1) : b[j] = bytes[i + j - 1]
      BY <2>1, <2>2, SubSeqProperties
    <2>4. QED
      BY <1>1, <2>3
  <1> HIDE DEF b
  <1>4. /\ v \in Seq(Sound) /\ Len(v) = Len(b) + M
        /\ \A j \in 1 .. (Len(b) + M) : v[j] = IF j <= Len(b) THEN b[j] ELSE z[j - Len(b)]
    BY <1>3, ConcatProperties
  <1> HIDE DEF v, w, M, L
  <1> DEFINE N == Len(v)
  <1>5. N \in Nat /\ N = L + M - i + 1
    BY <1>1, <1>3, <1>4
  <1> HIDE DEF N
  <1>6. \A j \in 1 .. N : v[j] = w[i + j - 1] /\ i + j - 1 \in i .. (L + M)
    <2> SUFFICES ASSUME NEW j \in 1 .. N PROVE v[j] = w[i + j - 1] /\ i + j - 1 \in i .. (L + M)
      OBVIOUS
    <2>1. i + j - 1 \in i .. (L + M) /\ i + j - 1 \in 1 .. (L + M) /\ j \in 1 .. (Len(b) + M)
      BY <1>1, <1>3, <1>5
    <2>2. CASE j <= Len(b)
      <3>1. j \in 1 .. (L - i + 1) /\ i + j - 1 <= L
        BY <1>1, <1>3, <2>2
      <3>2. QED
        BY <1>2, <1>3, <1>4, <2>1, <2>2, <3>1
    <2>3. CASE ~(j <= Len(b))
      <3>1. ~(i + j - 1 <= L) /\ (i + j - 1) - L = j - Len(b)
        BY <1>1, <1>3, <2>3
      <3>2. QED
        BY <1>2, <1>4, <2>1, <2>3, <3>1
    <2>4. QED
      BY <2>2, <2>3
  <1>7. Stream(G, w, i, x, a)
    BY DEF w
  <1>8. Within(v, 1, G, a)
    BY <1>2, <1>6, <1>7 DEF Stream, Within, N
  <1>9. Rising(v)
    <2> SUFFICES ASSUME NEW j \in 1 .. N, NEW k \in 1 .. N, j < k
                 PROVE  Place(v[j]) < Place(v[k])
      BY DEF Rising, N
    <2>1. i + j - 1 \in 1 .. (L + M) /\ i + k - 1 \in 1 .. (L + M) /\ i + j - 1 < i + k - 1
      BY <1>1, <1>5
    <2>2. QED
      BY <1>2, <1>6, <1>7, <2>1 DEF Stream, Rising
  <1>10. Kept(v, 1, G, x, a)
    <2> SUFFICES ASSUME NEW n \in (G + 1) .. a, Sent(n) \notin x
                 PROVE  \E j \in 1 .. N : v[j] = Sent(n)
      BY DEF Kept, N
    <2>1. PICK k \in i .. (L + M) : w[k] = Sent(n)
      BY <1>2, <1>7 DEF Stream, Kept
    <2> DEFINE j == k - i + 1
    <2>2. j \in 1 .. N /\ i + j - 1 = k
      BY <1>1, <1>5
    <2> HIDE DEF j
    <2>3. QED
      BY <1>6, <2>1, <2>2
  <1>11. 1 \in 1 .. (N + 1)
    BY <1>5
  <1>12. QED
    BY <1>4, <1>7, <1>8, <1>9, <1>10, <1>11 DEF Stream, N, v, b, L

(* More bytes: the ring has room for the first ones only. *)
LEMMA MoreBytes ==
  ASSUME NEW F, NEW w, NEW x, NEW a, Stream(F, w, 1, x, a),
         NEW count \in Nat, NEW k \in 0 .. count, NEW s \in Seq(Sound), Len(s) = k,
         \A j \in 1 .. k : s[j] = Sent(a + j),
         NEW y, y = {Sent(a + j) : j \in (k + 1) .. count}
  PROVE  Stream(F, w \o s, 1, x \cup y, a + count)
  <1> DEFINE v == w \o s
             L == Len(w)
             e == a + count
  <1>1. /\ a \in Nat /\ F \in 0 .. a /\ L \in Nat /\ w \in Seq(Sound)
        /\ \A j \in 1 .. L : Place(w[j]) \in Nat /\ Place(w[j]) > F /\ Place(w[j]) <= a
        /\ \A j, l \in 1 .. L : j < l => Place(w[j]) < Place(w[l])
    BY StreamPlaces DEF Stream
  <1>2. /\ v \in Seq(Sound) /\ Len(v) = L + k
        /\ \A j \in 1 .. (L + k) : v[j] = IF j <= L THEN w[j] ELSE s[j - L]
    BY <1>1, ConcatProperties
  <1> HIDE DEF v, L
  <1>3. ASSUME NEW j \in 1 .. (L + k)
        PROVE  \/ j <= L /\ v[j] = w[j] /\ Place(v[j]) <= a
               \/ j > L /\ v[j] = Sent(a + (j - L)) /\ Place(v[j]) = a + (j - L)
    <2>1. CASE j <= L
      BY <1>1, <1>2, <2>1
    <2>2. CASE ~(j <= L)
      <3> DEFINE l == j - L
      <3>1. l \in 1 .. k /\ j > L /\ a + l \in Nat \ {0}
        BY <1>1, <2>2
      <3>2. v[j] = s[l]
        BY <1>2, <2>2
      <3> HIDE DEF l
      <3>3. v[j] = Sent(a + l) /\ Place(Sent(a + l)) = a + l
        BY <3>1, <3>2, SentPlace
      <3>4. QED
        BY <3>1, <3>3 DEF l
    <2>3. QED
      BY <2>1, <2>2
  <1>4. Within(v, 1, F, e)
    <2> SUFFICES ASSUME NEW j \in 1 .. (L + k) PROVE Place(v[j]) \in (F + 1) .. e
      BY <1>2 DEF Within
    <2>1. CASE j <= L /\ v[j] = w[j] /\ Place(v[j]) <= a
      <3>1. Place(w[j]) \in Nat /\ Place(w[j]) > F /\ Place(w[j]) <= a
        BY <1>1, <2>1
      <3>2. QED
        BY <1>1, <2>1, <3>1
    <2>2. CASE j > L /\ v[j] = Sent(a + (j - L)) /\ Place(v[j]) = a + (j - L)
      <3> DEFINE l == j - L
      <3>1. l \in 1 .. k /\ a \in Nat /\ F \in 0 .. a /\ count \in Nat /\ k \in 0 .. count
        BY <1>1, <2>2
      <3>2. Place(v[j]) = a + l
        BY <2>2
      <3> HIDE DEF l
      <3>3. a + l \in (F + 1) .. e
        BY <3>1
      <3>4. QED
        BY <3>2, <3>3
    <2>3. QED
      BY <1>3, <2>1, <2>2
  <1>5. Rising(v)
    <2> SUFFICES ASSUME NEW j \in 1 .. (L + k), NEW l \in 1 .. (L + k), j < l
                 PROVE  Place(v[j]) < Place(v[l])
      BY <1>2 DEF Rising
    <2>1. CASE l <= L
      <3>1. j \in 1 .. L /\ l \in 1 .. L /\ j <= L
        BY <1>1, <2>1
      <3>2. v[j] = w[j] /\ v[l] = w[l]
        BY <1>2, <2>1, <3>1
      <3>3. QED
        BY <1>1, <3>1, <3>2
    <2>2. CASE l > L
      <3>1. Place(v[l]) = a + (l - L)
        BY <1>1, <1>3, <2>2
      <3>2. CASE j <= L
        <4>1. Place(v[j]) <= a /\ v[j] = w[j] /\ Place(w[j]) \in Nat
          BY <1>1, <1>3, <3>2
        <4>2. QED
          BY <1>1, <2>2, <3>1, <4>1
      <3>3. CASE j > L
        <4>1. Place(v[j]) = a + (j - L)
          BY <1>1, <1>3, <3>3
        <4>2. QED
          BY <1>1, <3>1, <4>1
      <3>4. QED
        BY <1>1, <3>2, <3>3
    <2>3. QED
      BY <1>1, <2>1, <2>2
  <1>6. Kept(v, 1, F, x \cup y, e)
    <2> SUFFICES ASSUME NEW n \in (F + 1) .. e, Sent(n) \notin x \cup y
                 PROVE  \E j \in 1 .. (L + k) : v[j] = Sent(n)
      BY <1>2 DEF Kept
    <2>1. CASE n <= a
      <3>1. n \in (F + 1) .. a
        BY <1>1, <2>1
      <3>2. PICK j \in 1 .. L : w[j] = Sent(n)
        BY <3>1 DEF Stream, Kept, L
      <3>3. j \in 1 .. (L + k) /\ j <= L
        BY <1>1
      <3>4. v[j] = w[j]
        BY <1>2, <3>3
      <3>5. QED
        BY <3>2, <3>3, <3>4
    <2>2. CASE ~(n <= a)
      <3> DEFINE l == n - a
      <3>1. l \in 1 .. count /\ n = a + l
        BY <1>1, <2>2
      <3> HIDE DEF l
      <3>2. l \notin (k + 1) .. count
        BY <3>1
      <3>3. l \in 1 .. k /\ L + l \in 1 .. (L + k) /\ ~(L + l <= L) /\ (L + l) - L = l
        <4>1. l \in 1 .. k
          BY <3>1, <3>2
        <4>2. L \in Nat /\ k \in Nat /\ l \in Nat /\ 1 <= l /\ l <= k
          BY <1>1, <4>1
        <4>3. QED
          BY <4>1, <4>2
      <3>4. v[L + l] = Sent(n)
        BY <1>2, <3>1, <3>3
      <3>5. QED
        BY <3>3, <3>4
    <2>3. QED
      BY <2>1, <2>2
  <1>7. x \cup y \subseteq {Sent(n) : n \in 1 .. e}
    <2>1. \A n \in 1 .. a : n \in 1 .. e
      BY <1>1
    <2>2. \A j \in (k + 1) .. count : a + j \in 1 .. e
      BY <1>1
    <2> HIDE DEF e
    <2>3. x \subseteq {Sent(n) : n \in 1 .. a}
      BY DEF Stream
    <2>4. QED
      BY <2>1, <2>2, <2>3
  <1>8. e \in Nat /\ F \in 0 .. e /\ 1 \in 1 .. (Len(v) + 1)
    BY <1>1, <1>2
  <1> HIDE DEF e
  <1>9. QED
    BY <1>2, <1>4, <1>5, <1>6, <1>7, <1>8 DEF Stream, v, e

LEMMA PastStays ==
  ASSUME NEW h, NEW F \in Int, NEW x, NEW y, x \subseteq y, Past(h, F, x)
  PROVE  Past(h, F, y)
  <1>1. \A j \in 1 .. Len(h) : Good(h[j], F, y)
    BY GoodStays DEF Past
  <1>2. Complete(h, F, y)
    BY DEF Past, Complete
  <1>3. QED
    BY <1>1, <1>2 DEF Past

-----------------------------------------------------------------------------
(* Three facts about sequences that the steps need.                         *)
LEMMA ConcatParts ==
  ASSUME NEW f \in Seq(Bytes), NEW z \in Seq(Bytes), f \o z \in Seq(Sound)
  PROVE  f \in Seq(Sound) /\ z \in Seq(Sound)
  <1> DEFINE u == f \o z
             m == Len(f)
             n == Len(z)
  <1>1. /\ m \in Nat /\ n \in Nat /\ Len(u) = m + n
        /\ f \in [1 .. m -> Bytes] /\ z \in [1 .. n -> Bytes]
        /\ \A j \in 1 .. (m + n) : u[j] = IF j <= m THEN f[j] ELSE z[j - m]
    BY LenProperties, ConcatProperties
  <1>2. \A j \in 1 .. (m + n) : u[j] \in Sound
    <2>1. \A j \in 1 .. Len(u) : u[j] \in Sound
      BY ElementOfSeq
    <2>2. QED
      BY <1>1, <2>1
  <1> HIDE DEF u, m, n
  <1>3. \A j \in 1 .. m : f[j] \in Sound
    <2> SUFFICES ASSUME NEW j \in 1 .. m PROVE f[j] \in Sound
      OBVIOUS
    <2>1. j \in 1 .. (m + n) /\ j <= m
      BY <1>1
    <2>2. QED
      BY <1>1, <1>2, <2>1
  <1>4. \A j \in 1 .. n : z[j] \in Sound
    <2> SUFFICES ASSUME NEW j \in 1 .. n PROVE z[j] \in Sound
      OBVIOUS
    <2>1. m + j \in 1 .. (m + n) /\ ~(m + j <= m) /\ (m + j) - m = j
      BY <1>1
    <2>2. QED
      BY <1>1, <1>2, <2>1
  <1>5. f \in [1 .. m -> Sound] /\ z \in [1 .. n -> Sound]
    BY <1>1, <1>3, <1>4
  <1>6. QED
    BY <1>1, <1>5

(* The bytes of an interrupt: the first ones have room, the others do not.  *)
LEMMA Arriving ==
  ASSUME NEW a \in Nat, NEW count \in Nat, NEW k \in 0 .. count,
         NEW bytes \in Seq(Sound), Len(bytes) = count,
         \A j \in 1 .. count : bytes[j] = Sent(a + j)
  PROVE  /\ SubSeq(bytes, 1, k) \in Seq(Sound) /\ Len(SubSeq(bytes, 1, k)) = k
         /\ \A j \in 1 .. k : SubSeq(bytes, 1, k)[j] = Sent(a + j)
         /\ ToSet(SubSeq(bytes, k + 1, count)) = {Sent(a + j) : j \in (k + 1) .. count}
  <1> DEFINE s == SubSeq(bytes, 1, k)
             t == SubSeq(bytes, k + 1, count)
  <1>2. \A j \in 1 .. count : bytes[j] \in Sound
    BY ElementOfSeq
  <1>4. /\ s \in Seq(Sound) /\ Len(s) = k
        /\ \A j \in 1 .. k : s[j] = bytes[j]
    <2>1. \A j \in 1 .. k : bytes[j] \in Sound
      BY <1>2
    <2>2. 1 \in Int /\ k \in Int
      OBVIOUS
    <2>3. /\ s \in Seq(Sound) /\ Len(s) = IF 1 <= k THEN k - 1 + 1 ELSE 0
          /\ \A j \in 1 .. (k - 1 + 1) : s[j] = bytes[1 + j - 1]
      BY <2>1, <2>2, SubSeqProperties
    <2> HIDE DEF s
    <2>4. \A j \in 1 .. k : s[j] = bytes[j]
      BY <2>3
    <2>5. Len(s) = k
      BY <2>3
    <2>6. QED
      BY <2>3, <2>4, <2>5
  <1>5. \A j \in 1 .. k : s[j] = Sent(a + j)
    BY <1>4
  <1>6. /\ t \in Seq(Sound) /\ Len(t) = count - k
        /\ \A j \in 1 .. (count - k) : t[j] = bytes[(k + 1) + j - 1]
    <2>1. \A j \in (k + 1) .. count : bytes[j] \in Sound
      BY <1>2
    <2>2. k + 1 \in Int /\ count \in Int
      OBVIOUS
    <2>3. /\ t \in Seq(Sound) /\ Len(t) = IF k + 1 <= count THEN count - (k + 1) + 1 ELSE 0
          /\ \A j \in 1 .. (count - (k + 1) + 1) : t[j] = bytes[(k + 1) + j - 1]
      BY <2>1, <2>2, SubSeqProperties
    <2>4. count - (k + 1) + 1 = count - k
      OBVIOUS
    <2> HIDE DEF t
    <2>5. Len(t) = count - k
      BY <2>3
    <2>6. QED
      BY <2>3, <2>4, <2>5
  <1> HIDE DEF s, t
  <1>7. ToSet(t) = {t[j] : j \in 1 .. (count - k)}
    <2>1. DOMAIN t = 1 .. (count - k)
      BY <1>6, LenProperties
    <2>2. QED
      BY <2>1 DEF ToSet
  <1>8. ASSUME NEW j \in 1 .. (count - k)
        PROVE  k + j \in (k + 1) .. count /\ t[j] = Sent(a + (k + j))
    <2>1. k + j \in (k + 1) .. count /\ k + j \in 1 .. count /\ (k + 1) + j - 1 = k + j
      OBVIOUS
    <2>2. QED
      BY <1>6, <2>1
  <1>9. ASSUME NEW j \in (k + 1) .. count
        PROVE  j - k \in 1 .. (count - k) /\ k + (j - k) = j
    OBVIOUS
  <1>10. ToSet(t) = {Sent(a + j) : j \in (k + 1) .. count}
    <2>1. ASSUME NEW b \in ToSet(t) PROVE \E j \in (k + 1) .. count : b = Sent(a + j)
      <3>1. PICK j \in 1 .. (count - k) : b = t[j]
        BY <1>7
      <3>2. QED
        BY <1>8, <3>1
    <2>2. ASSUME NEW j \in (k + 1) .. count PROVE Sent(a + j) \in ToSet(t)
      <3>1. t[j - k] = Sent(a + (k + (j - k)))
        BY <1>8, <1>9
      <3>2. t[j - k] = Sent(a + j)
        BY <1>9, <3>1
      <3>3. QED
        BY <1>7, <1>9, <3>2
    <2>3. QED
      BY <2>1, <2>2
  <1>11. QED
    BY <1>4, <1>5, <1>10 DEF s, t

(* The histories that lose at most one byte.                                *)
LEMMA FewLost ==
  ASSUME NEW a \in Nat, NEW x, x \subseteq {Sent(n) : n \in 1 .. a}, Cardinality(x) <= 1
  PROVE  OneLost(x)
  <1>1. x \subseteq (1 .. a) \X (1 .. 3)
    <2> SUFFICES ASSUME NEW n \in 1 .. a PROVE Sent(n) \in (1 .. a) \X (1 .. 3)
      OBVIOUS
    <2>1. Sent(n) \in Sound /\ Place(Sent(n)) = n
      BY SentPlace
    <2>2. PICK p \in Nat \ {0}, k \in 1 .. 3 : Sent(n) = <<p, k>>
      BY <2>1 DEF Sound
    <2>3. n = 3 * (p - 1) + k
      BY <2>1, <2>2 DEF Place
    <2>4. p \in 1 .. a
      BY <2>3
    <2>5. QED
      BY <2>2, <2>4
  <1>2. IsFiniteSet(x)
    <2>1. IsFiniteSet(1 .. a) /\ IsFiniteSet(1 .. 3)
      <3>1. a \in Int /\ 1 \in Int /\ 3 \in Int
        OBVIOUS
      <3>2. QED
        BY <3>1, FS_Interval
    <2>2. IsFiniteSet((1 .. a) \X (1 .. 3))
      BY <2>1, FS_Product
    <2>3. QED
      BY <1>1, <2>2, FS_Subset
  <1>3. ASSUME NEW b \in x, NEW c \in x, b # c PROVE FALSE
    <2>1. IsFiniteSet({b}) /\ Cardinality({b}) = 1
      BY FS_Singleton
    <2>2. Cardinality({b} \cup {c}) = 2
      BY <1>3, <2>1, FS_AddElement
    <2>3. {b} \cup {c} \in SUBSET x
      OBVIOUS
    <2>4. Cardinality({b} \cup {c}) <= Cardinality(x) /\ Cardinality(x) \in Nat
      BY <1>2, <2>3, FS_Subset, FS_CardinalityType
    <2>5. QED
      BY <2>2, <2>4
  <1>4. QED
    BY <1>3 DEF OneLost

-----------------------------------------------------------------------------
(* Events and the bytes of the buttons.                                     *)
Latest(h) == IF Events(h) = {} THEN 0 ELSE Id(h[Max(Events(h))])

LEMMA MaxEvent ==
  ASSUME NEW T, NEW h \in Seq(T), Events(h) # {}
  PROVE  /\ Max(Events(h)) \in Events(h) /\ Max(Events(h)) \in 1 .. Len(h)
         /\ \A y \in Events(h) : Max(Events(h)) >= y
  <1> DEFINE S == Events(h)
             L == Len(h)
             D == {m \in 0 .. L : L - m \in S}
  <1>1. L \in Nat /\ S \subseteq 1 .. L
    BY LenProperties DEF Events
  <1> HIDE DEF S, L
  <1>2. D \in SUBSET Nat /\ D # {}
    <2>1. PICK y \in S : TRUE
      BY DEF S
    <2>2. L - y \in 0 .. L /\ L - (L - y) = y
      BY <1>1
    <2>3. L - y \in D
      BY <2>2
    <2>4. 0 .. L \subseteq Nat
      BY <1>1
    <2>5. D \subseteq 0 .. L
      OBVIOUS
    <2> HIDE DEF D
    <2>6. QED
      BY <2>3, <2>4, <2>5
  <1> HIDE DEF D
  <1>3. PICK m \in D : \A k \in D : m <= k
    BY <1>2, LeastNat
  <1>4. m \in 0 .. L /\ L - m \in S
    BY <1>3 DEF D
  <1>5. \A y \in S : L - m >= y
    <2> SUFFICES ASSUME NEW y \in S PROVE L - m >= y
      OBVIOUS
    <2>1. y \in 1 .. L /\ L - y \in 0 .. L /\ L - (L - y) = y
      BY <1>1
    <2>2. L - y \in D
      BY <2>1 DEF D
    <2>3. m <= L - y
      BY <1>3, <2>2
    <2>4. QED
      BY <1>1, <1>4, <2>1, <2>3
  <1>6. Max(S) \in S /\ \A y \in S : Max(S) >= y
    BY <1>4, <1>5 DEF Max
  <1>7. QED
    BY <1>1, <1>6 DEF S, L

LEMMA LastOfConcat ==
  ASSUME NEW T, NEW h \in Seq(T), NEW f \in Seq(T)
  PROVE  Latest(h \o f) = IF Events(f) = {} THEN Latest(h) ELSE Id(f[Max(Events(f))])
  <1> DEFINE g == h \o f
             m == Len(h)
             n == Len(f)
  <1>1. /\ m \in Nat /\ n \in Nat /\ g \in Seq(T) /\ Len(g) = m + n
        /\ DOMAIN g = 1 .. (m + n) /\ DOMAIN h = 1 .. m /\ DOMAIN f = 1 .. n
        /\ \A j \in 1 .. (m + n) : g[j] = IF j <= m THEN h[j] ELSE f[j - m]
    BY LenProperties, ConcatProperties
  <1> HIDE DEF g, m, n
  <1>2. \A j \in 1 .. m : j \in 1 .. (m + n) /\ g[j] = h[j]
    BY <1>1
  <1>3. \A j \in 1 .. n : m + j \in 1 .. (m + n) /\ g[m + j] = f[j]
    <2> SUFFICES ASSUME NEW j \in 1 .. n PROVE m + j \in 1 .. (m + n) /\ g[m + j] = f[j]
      OBVIOUS
    <2>1. m + j \in 1 .. (m + n) /\ ~(m + j <= m) /\ (m + j) - m = j
      BY <1>1
    <2>2. QED
      BY <1>1, <2>1
  <1>4. \A j \in 1 .. (m + n) : j \in 1 .. m \/ (j - m \in 1 .. n /\ m + (j - m) = j)
    BY <1>1
  <1>5. CASE Events(f) = {}
    <2>1. Events(g) = Events(h)
      <3>1. \A j \in 1 .. n : Id(f[j]) \in Answered
        BY <1>1, <1>5 DEF Events
      <3>2. QED
        BY <1>1, <1>2, <1>3, <1>4, <3>1 DEF Events
    <2>2. CASE Events(h) = {}
      BY <1>5, <2>1, <2>2 DEF Latest, g
    <2>3. CASE Events(h) # {}
      <3>1. Max(Events(h)) \in 1 .. m
        BY <2>3, MaxEvent DEF m
      <3>2. g[Max(Events(h))] = h[Max(Events(h))]
        BY <1>2, <3>1
      <3>3. QED
        BY <1>5, <2>1, <2>3, <3>2 DEF Latest, g
    <2>4. QED
      BY <2>2, <2>3
  <1>6. CASE Events(f) # {}
    <2> DEFINE t == Max(Events(f))
    <2>1. t \in Events(f) /\ t \in 1 .. n /\ \A y \in Events(f) : t >= y
      BY <1>6, MaxEvent DEF n
    <2> HIDE DEF t
    <2>2. m + t \in Events(g)
      BY <1>1, <1>3, <2>1 DEF Events
    <2>3. \A y \in Events(g) : m + t >= y
      <3> SUFFICES ASSUME NEW y \in Events(g) PROVE m + t >= y
        OBVIOUS
      <3>1. y \in 1 .. (m + n) /\ Id(g[y]) \notin Answered
        BY <1>1 DEF Events
      <3>2. CASE y \in 1 .. m
        BY <1>1, <2>1, <3>2
      <3>3. CASE y - m \in 1 .. n /\ m + (y - m) = y
        <4>1. g[y] = f[y - m]
          BY <1>3, <3>3
        <4>2. y - m \in Events(f)
          BY <1>1, <3>1, <3>3, <4>1 DEF Events
        <4>3. t >= y - m
          BY <2>1, <4>2
        <4>4. QED
          BY <1>1, <2>1, <3>1, <4>3
      <3>4. QED
        BY <1>4, <3>1, <3>2, <3>3
    <2>4. Max(Events(g)) = m + t
      <3>1. /\ Max(Events(g)) \in Events(g) /\ Max(Events(g)) \in 1 .. (m + n)
            /\ \A y \in Events(g) : Max(Events(g)) >= y
        BY <1>1, <2>2, MaxEvent
      <3> DEFINE q == Max(Events(g))
      <3>2. q >= m + t /\ m + t >= q /\ q \in Int /\ m + t \in Int
        BY <1>1, <2>1, <2>2, <2>3, <3>1
      <3> HIDE DEF q
      <3>3. q = m + t
        BY <3>2
      <3>4. QED
        BY <3>3 DEF q
    <2>5. Events(g) # {} /\ g[m + t] = f[t]
      BY <1>3, <2>1, <2>2
    <2>6. Latest(g) = Id(f[t])
      BY <2>4, <2>5 DEF Latest
    <2>7. QED
      BY <1>6, <2>6 DEF g, t
  <1>7. QED
    BY <1>5, <1>6

(* In a packet, and from one to the next, the numbers do not go down.       *)
LEMMA ByPlace ==
  /\ \A b, c \in Sound : Place(b) < Place(c) => b[1] <= c[1]
  /\ \A b, c \in Sound : Place(b) < Place(c) /\ c[2] = 1 => b[1] < c[1]
  <1> SUFFICES ASSUME NEW b \in Sound, NEW c \in Sound, Place(b) < Place(c)
               PROVE  b[1] <= c[1] /\ (c[2] = 1 => b[1] < c[1])
    OBVIOUS
  <1>1. PICK p \in Nat \ {0}, k \in 1 .. 3 : b = <<p, k>>
    BY DEF Sound
  <1>2. PICK q \in Nat \ {0}, l \in 1 .. 3 : c = <<q, l>>
    BY DEF Sound
  <1>3. 3 * (p - 1) + k < 3 * (q - 1) + l
    BY <1>1, <1>2 DEF Place
  <1>4. p <= q /\ (l = 1 => p < q)
    BY <1>3
  <1>5. QED
    BY <1>1, <1>2, <1>4

LEMMA PacketNumbers ==
  ASSUME NEW p, NEW F, NEW x, Good(p, F, x)
  PROVE  /\ Id(p) \in Nat \ {0} /\ p[2][1] \in Nat /\ p[3][1] \in Nat
         /\ Id(p) <= p[2][1] /\ Id(p) <= p[3][1]
         /\ p[1] \in Sound /\ p[3] \in Sound /\ p[1][2] = 1
  <1>1. /\ p[1] \in Sound /\ p[2] \in Sound /\ p[3] \in Sound /\ p[1][2] = 1
        /\ Place(p[1]) < Place(p[2]) /\ Place(p[2]) < Place(p[3])
    <2>1. /\ p \in Seq(Sound) /\ Len(p) = 3 /\ p[1][2] = 1
          /\ Place(p[1]) < Place(p[2]) /\ Place(p[2]) < Place(p[3])
      BY DEF Good
    <2>2. \A k \in 1 .. 3 : p[k] \in Sound
      BY <2>1, ElementOfSeq
    <2>3. QED
      BY <2>1, <2>2
  <1>2. p[1][1] \in Nat \ {0} /\ p[2][1] \in Nat /\ p[3][1] \in Nat
    BY <1>1 DEF Sound
  <1>3. p[1][1] <= p[2][1] /\ p[2][1] <= p[3][1]
    BY <1>1, ByPlace
  <1>4. p[1][1] <= p[3][1]
    BY <1>2, <1>3
  <1>5. QED
    BY <1>1, <1>2, <1>3, <1>4 DEF Id

LEMMA PacketsRise ==
  ASSUME NEW h, NEW F, NEW x, Past(h, F, x),
         NEW j \in 1 .. Len(h), NEW k \in 1 .. Len(h), j < k
  PROVE  Id(h[j]) < Id(h[k])
  <1>1. Good(h[j], F, x) /\ Good(h[k], F, x) /\ Place(h[j][3]) < Place(h[k][1])
    BY DEF Past, Ordered
  <1> DEFINE p == h[j]
             q == h[k]
  <1>2. /\ Id(p) \in Nat /\ p[3][1] \in Nat /\ Id(p) <= p[3][1]
        /\ p[3] \in Sound /\ q[1] \in Sound /\ q[1][2] = 1 /\ Id(q) \in Nat
    BY <1>1, PacketNumbers
  <1>3. p[3][1] < q[1][1]
    BY <1>1, <1>2, ByPlace
  <1>4. q[1][1] = Id(q)
    BY DEF Id
  <1>5. QED
    BY <1>2, <1>3, <1>4

(* The last event, and what the handling of more packets does to it and to  *)
(* the two bytes.                                                           *)
LEMMA LastIsNat ==
  ASSUME NEW h, NEW F, NEW x, Past(h, F, x)
  PROVE  Latest(h) \in Nat
  <1>1. h \in Seq(Seq(Sound))
    BY DEF Past
  <1>2. CASE Events(h) = {}
    BY <1>2 DEF Latest
  <1>3. CASE Events(h) # {}
    <2>1. Max(Events(h)) \in 1 .. Len(h)
      BY <1>1, <1>3, MaxEvent
    <2>2. Good(h[Max(Events(h))], F, x)
      BY <2>1 DEF Past
    <2>3. QED
      BY <1>3, <2>2, PacketNumbers DEF Latest
  <1>4. QED
    BY <1>2, <1>3

LEMMA NewerEvent ==
  ASSUME NEW h \in Seq(Seq(Sound)), NEW f \in Seq(Seq(Sound)), NEW F, NEW x,
         Past(h \o f, F, x), Events(f) # {}
  PROVE  LET p == f[Max(Events(f))]
         IN  /\ Latest(h \o f) = Id(p) /\ Latest(h) <= Id(p)
             /\ Id(p) \in Nat /\ p[2][1] \in Nat /\ p[3][1] \in Nat
             /\ Id(p) <= p[2][1] /\ Id(p) <= p[3][1]
  <1> DEFINE g == h \o f
             m == Len(h)
             n == Len(f)
             t == Max(Events(f))
             p == f[t]
  <1>1. /\ m \in Nat /\ n \in Nat /\ Len(g) = m + n
        /\ \A j \in 1 .. (m + n) : g[j] = IF j <= m THEN h[j] ELSE f[j - m]
    BY LenProperties, ConcatProperties
  <1>2. t \in 1 .. n
    BY MaxEvent
  <1>3. Latest(g) = Id(p)
    BY LastOfConcat
  <1> HIDE DEF g, m, n, t
  <1>4. m + t \in 1 .. (m + n) /\ ~(m + t <= m) /\ (m + t) - m = t
    BY <1>1, <1>2
  <1>5. g[m + t] = p /\ m + t \in 1 .. Len(g)
    BY <1>1, <1>4
  <1>6. Past(g, F, x)
    BY DEF g
  <1>7. Good(p, F, x)
    BY <1>5, <1>6 DEF Past
  <1> HIDE DEF p
  <1>8. /\ Id(p) \in Nat /\ p[2][1] \in Nat /\ p[3][1] \in Nat
        /\ Id(p) <= p[2][1] /\ Id(p) <= p[3][1]
    BY <1>7, PacketNumbers
  <1>9. Latest(h) <= Id(p)
    <2>1. CASE Events(h) = {}
      BY <1>8, <2>1 DEF Latest
    <2>2. CASE Events(h) # {}
      <3> DEFINE l == Max(Events(h))
      <3>1. l \in 1 .. m
        BY <2>2, MaxEvent DEF m
      <3>2. Latest(h) = Id(h[l])
        BY <2>2 DEF Latest
      <3> HIDE DEF l
      <3>3. l \in 1 .. Len(g) /\ l < m + t /\ g[l] = h[l]
        BY <1>1, <1>2, <3>1
      <3>4. Id(g[l]) < Id(g[m + t])
        BY <1>5, <1>6, <3>3, PacketsRise
      <3>5. Id(g[l]) \in Nat
        <4>1. Good(g[l], F, x)
          BY <1>6, <3>3 DEF Past
        <4>2. QED
          BY <4>1, PacketNumbers
      <3>6. QED
        BY <1>5, <1>8, <3>2, <3>3, <3>4, <3>5
    <2>3. QED
      BY <2>1, <2>2
  <1>10. QED
    BY <1>3, <1>8, <1>9 DEF g, p, t

-----------------------------------------------------------------------------
(* What is received: the stream that the callback and the rx ring hold, the *)
(* packets handled up to it, and the bytes of the buttons.                  *)
Fresh ==
  /\ arr[1] \in Nat /\ arr[2] \in Nat
  /\ Latest(handled) <= arr[1] /\ Latest(handled) <= arr[2]
  /\ ioctl.at = "second" => /\ ioctl.since \in Nat /\ ioctl.first \in Nat
                            /\ ioctl.since <= Latest(handled) /\ ioctl.since <= ioctl.first
  /\ ButtonsAreFresh
Streams ==
  /\ saved \in Seq(Sound) /\ Contents(rx) \in Seq(Sound)
  /\ \E F : Stream(F, saved \o Contents(rx), 1, lost, arrived) /\ Past(handled, F, lost)
RecvInv == SendInv /\ Streams /\ Fresh

LEMMA StreamLoses ==
  ASSUME SendInv, Streams, LoseByte
  PROVE  Streams'
  <1>1. /\ UNCHANGED <<rx, saved, handled>> /\ arrived' = arrived + 1
        /\ lost' = lost \cup {Sent(arrived + 1)}
    BY DEF LoseByte
  <1>2. PICK F : Stream(F, saved \o Contents(rx), 1, lost, arrived) /\ Past(handled, F, lost)
    BY DEF Streams
  <1> DEFINE w == saved \o Contents(rx)
  <1>3. w \in Seq(Sound)
    BY ConcatProperties DEF Streams
  <1>4. Contents(rx') = Contents(rx) /\ w' = w
    BY <1>1
  <1> HIDE DEF w
  <1>5. Stream(F, w \o <<>>, 1, lost \cup {Sent(arrived + 1)}, arrived + 1)
    <2>1. <<>> \in Seq(Sound) /\ Len(<<>>) = 0 /\ 0 \in 0 .. 1 /\ 1 \in Nat
      OBVIOUS
    <2>2. \A j \in 1 .. 0 : <<>>[j] = Sent(arrived + j)
      OBVIOUS
    <2>3. {Sent(arrived + 1)} = {Sent(arrived + j) : j \in (0 + 1) .. 1}
      <3>1. (0 + 1) .. 1 = {1}
        OBVIOUS
      <3>2. QED
        BY <3>1
    <2>4. Stream(F, w, 1, lost, arrived)
      BY <1>2 DEF w
    <2> DEFINE one == {Sent(arrived + j) : j \in (0 + 1) .. 1}
               none == <<>>
    <2> HIDE DEF none
    <2>5. Stream(F, w \o none, 1, lost \cup one, arrived + 1)
      BY <2>1, <2>2, <2>4, MoreBytes DEF none
    <2>6. QED
      BY <2>3, <2>5 DEF none
  <1>6. w \o <<>> = w
    BY <1>3, ConcatEmptySeq
  <1>7. Past(handled, F, lost')
    <2>1. F \in Int
      BY <1>2 DEF Stream
    <2>2. lost \subseteq lost'
      BY <1>1
    <2>3. QED
      BY <1>2, <2>1, <2>2, PastStays
  <1>8. Stream(F, w', 1, lost', arrived')
    BY <1>1, <1>4, <1>5, <1>6
  <1>9. saved' \in Seq(Sound) /\ Contents(rx') \in Seq(Sound) /\ handled' = handled
    BY <1>1, <1>4 DEF Streams
  <1>10. QED
    BY <1>7, <1>8, <1>9 DEF Streams, w

LEMMA StreamReceives ==
  ASSUME SendInv, Streams, NEW count \in Nat, NEW room, rcv_buf(count, room)
  PROVE  /\ Streams'
         /\ \E found \in Seq(Seq(Sound)) :
              /\ handled' = handled \o found /\ arr' = Pressed(found)
              /\ \E F : Past(handled \o found, F, lost')
  <1> DEFINE bytes == [j \in 1 .. count |-> Sent(arrived + j)]
             k == Accepted(rx, bytes)
             s == SubSeq(bytes, 1, k)
             y == {Sent(arrived + j) : j \in (k + 1) .. count}
             filled == PutInto(rx, bytes)
             n == PACKET - Len(saved)
             f == First(filled, n)
             z == Contents(Rest(filled, n))
             packet == saved \o f
             found == Scan(packet).found
             C == Contents(rx)
  <1>1. /\ rx \in Rings /\ arrived \in Nat
        /\ saved \in Seq(Bytes) /\ Len(saved) <= 2
        /\ saved \in Seq(Sound) /\ C \in Seq(Sound)
    BY Numbers DEF SendInv, TypeOK, Streams
  <1>2. /\ arrived' = arrived + count /\ lost' = lost \cup Refused(rx, bytes)
        /\ rx' = Rest(filled, n) /\ saved' = Leftover(packet)
        /\ handled' = handled \o found /\ arr' = Pressed(found)
    BY DEF rcv_buf
  <1>3. /\ bytes \in Seq(Sound) /\ Len(bytes) = count
        /\ \A j \in 1 .. count : bytes[j] = Sent(arrived + j)
    <2>1. \A j \in 1 .. count : arrived + j \in Nat \ {0}
      BY <1>1
    <2>2. \A j \in 1 .. count : Sent(arrived + j) \in Sound
      BY <2>1, SentPlace
    <2>3. /\ bytes \in [1 .. count -> Sound]
          /\ \A j \in 1 .. count : bytes[j] = Sent(arrived + j)
      BY <2>2
    <2> HIDE DEF bytes
    <2>4. QED
      BY <2>3
  <1> HIDE DEF bytes
  <1>4. bytes \in Seq(Bytes)
    BY <1>3, SoundIsBytes
  <1>5. /\ filled \in Rings /\ k \in 0 .. count /\ Contents(filled) = C \o s
    BY <1>1, <1>3, <1>4, PutBytes
  <1>6. /\ s \in Seq(Sound) /\ Len(s) = k /\ \A j \in 1 .. k : s[j] = Sent(arrived + j)
        /\ Refused(rx, bytes) = y
    <2>1. Refused(rx, bytes) = ToSet(SubSeq(bytes, k + 1, count))
      BY <1>3 DEF Refused
    <2>2. k \in 0 .. count
      BY <1>5
    <2> HIDE DEF k
    <2>3. /\ s \in Seq(Sound) /\ Len(s) = k
          /\ \A j \in 1 .. k : s[j] = Sent(arrived + j)
      BY <1>1, <1>3, <2>2, Arriving
    <2>5. ToSet(SubSeq(bytes, k + 1, count)) = y
      BY <1>1, <1>3, <2>2, Arriving
    <2> HIDE DEF s
    <2> HIDE DEF y
    <2>4. QED
      BY <2>1, <2>3, <2>5
  <1>7. n \in Nat
    BY <1>1, LenProperties, Numbers
  <1>8. f \in Seq(Bytes) /\ z \in Seq(Bytes) /\ Contents(filled) = f \o z
    <2> HIDE DEF filled, n
    <2>1. QED
      BY <1>5, <1>7, TakeFrom
  <1> HIDE DEF k, s, y, filled, n, f, z, C
  <1>9. C \o s \in Seq(Sound) /\ C \o s = f \o z
    BY <1>1, <1>5, <1>6, <1>8, ConcatProperties
  <1>10. f \in Seq(Sound) /\ z \in Seq(Sound)
    BY <1>8, <1>9, ConcatParts
  <1>11. PICK F : Stream(F, saved \o C, 1, lost, arrived) /\ Past(handled, F, lost)
    BY DEF Streams, C
  <1>12. packet \in Seq(Sound)
    BY <1>1, <1>10, ConcatProperties
  <1>13. (saved \o C) \o s = packet \o z
    <2> HIDE DEF packet
    <2>0. \A u, v, t \in Seq(Sound) : (u \o v) \o t = u \o (v \o t)
      BY ConcatAssociative
    <2>1. (saved \o C) \o s = saved \o (C \o s)
      <3>1. saved \in Seq(Sound) /\ C \in Seq(Sound) /\ s \in Seq(Sound)
        BY <1>1, <1>6, Zenon
      <3>2. QED
        BY <2>0, <3>1, Zenon
    <2>2. (saved \o f) \o z = saved \o (f \o z)
      <3>1. saved \in Seq(Sound) /\ f \in Seq(Sound) /\ z \in Seq(Sound)
        BY <1>1, <1>10, Zenon
      <3>2. QED
        BY <2>0, <3>1, Zenon
    <2>3. (saved \o f) \o z = saved \o (C \o s)
      BY <1>9, <2>2
    <2>4. QED
      BY <2>1, <2>3 DEF packet
  <1> DEFINE w == packet \o z
  <1>14. Stream(F, w, 1, lost', arrived')
    <2>1. Stream(F, (saved \o C) \o s, 1, lost \cup y, arrived + count)
      BY <1>5, <1>6, <1>11, MoreBytes DEF y
    <2>2. QED
      BY <1>2, <1>6, <1>13, <2>1
  <1>15. Past(handled, F, lost')
    <2>1. F \in Int
      BY <1>11 DEF Stream
    <2>2. lost \subseteq lost'
      BY <1>2
    <2>3. QED
      BY <1>11, <2>1, <2>2, PastStays
  <1> HIDE DEF packet, w
  <1>16. /\ found \in Seq(Seq(Sound))
         /\ \E G : Stream(G, w, Scan(packet).i, lost', arrived') /\ Past(handled \o found, G, lost')
    BY <1>10, <1>12, <1>14, <1>15, ScanStream DEF w
  <1>17. PICK G : Stream(G, w, Scan(packet).i, lost', arrived') /\ Past(handled \o found, G, lost')
    BY <1>16
  <1>18. packet \in Seq(Bytes)
    BY <1>12, SoundIsBytes
  <1> DEFINE i == Scan(packet).i
  <1>19. i \in 1 .. (Len(packet) + 1)
    <2>1. i \in Nat /\ i >= 1 /\ i <= Len(packet) + 1 /\ Len(packet) \in Nat
      BY <1>18, ScanStops, LenProperties
    <2> HIDE DEF i
    <2>2. QED
      BY <2>1
  <1>20. Stream(G, SubSeq(packet, i, Len(packet)) \o z, 1, lost', arrived')
    <2>1. Stream(G, packet \o z, i, lost', arrived')
      BY <1>17 DEF w
    <2> HIDE DEF i
    <2>2. QED
      BY <1>10, <1>12, <1>19, <2>1, Rebased
  <1>21. SubSeq(packet, i, Len(packet)) = Leftover(packet)
    BY DEF Leftover
  <1> HIDE DEF i, found
  <1>22. saved' \in Seq(Sound)
    <2>1. Leftover(packet) \in Seq(Bytes) /\ z \in Seq(Bytes)
      BY <1>8, <1>18, LeftoverIsShort
    <2>2. Leftover(packet) \o z \in Seq(Sound)
      BY <1>20, <1>21 DEF Stream
    <2>3. QED
      BY <1>2, <2>1, <2>2, ConcatParts
  <1>23. Contents(rx') = z
    BY <1>2 DEF z
  <1>24. Stream(G, saved' \o Contents(rx'), 1, lost', arrived')
    BY <1>2, <1>20, <1>21, <1>23
  <1>25. Contents(rx') \in Seq(Sound) /\ Past(handled', G, lost')
    BY <1>2, <1>10, <1>17, <1>23
  <1>26. Streams'
    BY <1>22, <1>24, <1>25 DEF Streams
  <1>27. QED
    BY <1>2, <1>16, <1>17, <1>26

LEMMA RecvInit == Init => RecvInv
  <1> SUFFICES ASSUME Init PROVE RecvInv
    OBVIOUS
  <1>1. SendInv
    BY SendInit
  <1>2. /\ rx = EmptyRing /\ saved = <<>> /\ arr = <<0, 0>> /\ ioctl = Idle
        /\ arrived = 0 /\ lost = {} /\ handled = <<>>
    BY DEF Init
  <1>3. Contents(rx) = <<>>
    <2>1. rx \in Rings
      BY <1>1 DEF SendInv, TypeOK
    <2>2. rx.start = 0 /\ rx.end = 0
      BY <1>2 DEF EmptyRing
    <2>3. buf_used(rx) = 0
      BY <2>1, <2>2, Used
    <2>4. Contents(rx) \in Seq(Bytes) /\ Len(Contents(rx)) = 0
      BY <2>1, <2>3, ContentsAt
    <2>5. QED
      BY <2>4, NoBytes
  <1>4. Stream(0, <<>>, 1, {}, 0)
    <2>1. <<>> \in Seq(Sound) /\ Len(<<>>) = 0 /\ 1 \in 1 .. (0 + 1) /\ 0 \in Nat /\ 0 \in 0 .. 0
      OBVIOUS
    <2>2. Within(<<>>, 1, 0, 0) /\ Rising(<<>>) /\ Kept(<<>>, 1, 0, {}, 0)
      BY DEF Within, Rising, Kept
    <2>3. QED
      BY <2>1, <2>2 DEF Stream
  <1>5. Past(<<>>, 0, {})
    <2>1. <<>> \in Seq(Seq(Sound)) /\ Len(<<>>) = 0
      OBVIOUS
    <2>2. Ordered(<<>>)
      BY DEF Ordered
    <2>3. Complete(<<>>, 0, {})
      BY DEF Complete
    <2>4. QED
      BY <2>1, <2>2, <2>3 DEF Past
  <1>6. <<>> \o <<>> = <<>> /\ <<>> \in Seq(Sound)
    OBVIOUS
  <1>7. Streams
    BY <1>2, <1>3, <1>4, <1>5, <1>6 DEF Streams
  <1>8. Latest(handled) = 0
    BY <1>2 DEF Latest, Events
  <1>9. Fresh
    BY <1>2, <1>8 DEF Fresh, ButtonsAreFresh, Idle
  <1>10. QED
    BY <1>1, <1>7, <1>9 DEF RecvInv

LEMMA HandledSo ==
  ASSUME Streams
  PROVE  handled \in Seq(Seq(Sound)) /\ Latest(handled) \in Nat
  <1>1. PICK F : Past(handled, F, lost)
    BY DEF Streams
  <1>2. QED
    BY <1>1, LastIsNat DEF Past

(* The bytes of the buttons after an interrupt.                             *)
LEMMA FreshReceives ==
  ASSUME Streams, Fresh, NEW found \in Seq(Seq(Sound)), NEW F,
         Past(handled \o found, F, lost'),
         handled' = handled \o found, arr' = Pressed(found), ioctl' = ioctl
  PROVE  Fresh'
  <1> DEFINE l == Latest(handled)
             m == Latest(handled \o found)
  <1>1. handled \in Seq(Seq(Sound)) /\ l \in Nat
    BY HandledSo
  <1>2. /\ arr[1] \in Nat /\ arr[2] \in Nat /\ l <= arr[1] /\ l <= arr[2]
        /\ ioctl.at = "second" => /\ ioctl.since \in Nat /\ ioctl.first \in Nat
                                  /\ ioctl.since <= l /\ ioctl.since <= ioctl.first
        /\ ButtonsAreFresh
    BY DEF Fresh
  <1>3. /\ m \in Nat /\ l <= m
        /\ arr'[1] \in Nat /\ arr'[2] \in Nat /\ m <= arr'[1] /\ m <= arr'[2]
    <2>1. CASE Events(found) = {}
      <3>1. m = l
        BY <1>1, <2>1, LastOfConcat
      <3>2. arr' = arr
        BY <2>1 DEF Pressed
      <3> HIDE DEF l, m
      <3>3. QED
        BY <1>1, <1>2, <3>1, <3>2
    <2>2. CASE Events(found) # {}
      <3> DEFINE p == found[Max(Events(found))]
      <3>1. /\ m = Id(p) /\ l <= Id(p)
            /\ Id(p) \in Nat /\ p[2][1] \in Nat /\ p[3][1] \in Nat
            /\ Id(p) <= p[2][1] /\ Id(p) <= p[3][1]
        BY <1>1, <2>2, NewerEvent
      <3>2. arr' = <<p[2][1], p[3][1]>>
        BY <2>2 DEF Pressed
      <3> HIDE DEF l, m, p
      <3>3. QED
        BY <1>1, <3>1, <3>2
    <2>3. QED
      BY <2>1, <2>2
  <1>4. Latest(handled') = m
    OBVIOUS
  <1> HIDE DEF l, m
  <1>5. ioctl'.at = "second" => /\ ioctl'.since \in Nat /\ ioctl'.first \in Nat
                                /\ ioctl'.since <= m /\ ioctl'.since <= ioctl'.first
    <2> SUFFICES ASSUME ioctl.at = "second"
                 PROVE  /\ ioctl.since \in Nat /\ ioctl.first \in Nat
                        /\ ioctl.since <= m /\ ioctl.since <= ioctl.first
      OBVIOUS
    <2>1. /\ ioctl.since \in Nat /\ ioctl.first \in Nat
          /\ ioctl.since <= l /\ ioctl.since <= ioctl.first
      BY <1>2
    <2>2. QED
      BY <1>1, <1>3, <2>1
  <1>6. ButtonsAreFresh'
    BY <1>2 DEF ButtonsAreFresh
  <1>7. QED
    BY <1>3, <1>4, <1>5, <1>6 DEF Fresh

LEMMA RecvNext == RecvInv /\ [Next]_vars => RecvInv'
  <1> SUFFICES ASSUME RecvInv, [Next]_vars PROVE RecvInv'
    OBVIOUS
  <1>0. SendInv /\ Streams /\ Fresh
    BY DEF RecvInv
  <1>1. SendInv'
    BY <1>0, SendNext
  <1>2. ASSUME UNCHANGED <<rx, saved, handled, lost, arrived>> PROVE Streams'
    BY <1>0, <1>2 DEF Streams, Contents, First, buf_used
  <1>3. ASSUME UNCHANGED <<arr, handled>>, ioctl' = ioctl \/ ioctl'.at \notin {"second", "copy"}
        PROVE  Fresh'
    BY <1>0, <1>3 DEF Fresh, ButtonsAreFresh
  <1>4. ASSUME UNCHANGED vars PROVE RecvInv'
    BY <1>1, <1>2, <1>3, <1>4 DEF RecvInv, vars
  <1>5. ASSUME LoseByte PROVE RecvInv'
    <2>1. Streams'
      BY <1>0, <1>5, StreamLoses
    <2>2. Fresh'
      BY <1>3, <1>5 DEF LoseByte
    <2>3. QED
      BY <1>1, <2>1, <2>2 DEF RecvInv
  <1>6. ASSUME NEW count \in 1 .. MaxChunk, NEW room \in Rooms, rcv_buf(count, room)
        PROVE  RecvInv'
    <2>1. count \in Nat
      BY Numbers
    <2>2. /\ Streams'
          /\ \E found \in Seq(Seq(Sound)) :
               /\ handled' = handled \o found /\ arr' = Pressed(found)
               /\ \E F : Past(handled \o found, F, lost')
      BY <1>0, <1>6, <2>1, StreamReceives
    <2>3. ioctl' = ioctl
      BY <1>6 DEF rcv_buf
    <2>4. Fresh'
      BY <1>0, <2>2, <2>3, FreshReceives
    <2>5. QED
      BY <1>1, <2>2, <2>4 DEF RecvInv
  <1>7. ASSUME NEW room \in Rooms, write_wakeup(room) PROVE RecvInv'
    <2>1. UNCHANGED <<rx, saved, arr, ioctl, arrived, lost, handled>>
      BY <1>7 DEF write_wakeup
    <2>2. QED
      BY <1>1, <1>2, <1>3, <2>1 DEF RecvInv
  <1>8. ASSUME \/ PutCommand \/ (\E room \in Rooms : AskRoom(room)) \/ TakeBytes \/ WriteBytes
               \/ CopyToUser
        PROVE  RecvInv'
    <2>1. /\ UNCHANGED <<rx, saved, arr, arrived, lost, handled>>
          /\ ioctl'.at \notin {"second", "copy"}
      BY <1>8 DEF PutCommand, AskRoom, TakeBytes, WriteBytes, CopyToUser, ioctlUnchanged, Idle
    <2>2. QED
      BY <1>1, <1>2, <1>3, <2>1 DEF RecvInv
  <1>9. ASSUME ButtonsFirst PROVE RecvInv'
    <2>1. /\ UNCHANGED <<rx, saved, arr, arrived, lost, handled>>
          /\ ioctl' = [at |-> "second", since |-> Latest(handled), first |-> arr[1]]
      BY <1>9 DEF ButtonsFirst, ioctlUnchanged, LastEvent, Latest
    <2>2. /\ ioctl'.at = "second" /\ ioctl'.since = Latest(handled) /\ ioctl'.first = arr[1]
      BY <2>1
    <2>3. Latest(handled) \in Nat
      BY <1>0, HandledSo
    <2>4. Fresh'
      BY <1>0, <2>1, <2>2, <2>3 DEF Fresh, ButtonsAreFresh
    <2>5. QED
      BY <1>1, <1>2, <2>1, <2>4 DEF RecvInv
  <1>10. ASSUME ButtonsReturn PROVE RecvInv'
    <2>1. /\ UNCHANGED <<rx, saved, arr, arrived, lost, handled>> /\ ioctl.at = "second"
          /\ ioctl' = [at |-> "copy", since |-> ioctl.since, buttons |-> <<ioctl.first, arr[2]>>]
      BY <1>10 DEF ButtonsReturn, ioctlUnchanged
    <2>2. /\ ioctl'.at = "copy" /\ ioctl'.since = ioctl.since
          /\ ioctl'.buttons[1] = ioctl.first /\ ioctl'.buttons[2] = arr[2]
      BY <2>1
    <2>3. /\ ioctl.since \in Nat /\ ioctl.first \in Nat /\ Latest(handled) \in Nat /\ arr[2] \in Nat
          /\ ioctl.since <= Latest(handled) /\ ioctl.since <= ioctl.first /\ Latest(handled) <= arr[2]
      BY <1>0, <2>1, HandledSo DEF Fresh
    <2>4. ioctl'.buttons[1] >= ioctl'.since /\ ioctl'.buttons[2] >= ioctl'.since
      BY <2>2, <2>3
    <2>5. ButtonsAreFresh'
      <3>1. \A k \in 1 .. 2 : k = 1 \/ k = 2
        OBVIOUS
      <3>2. QED
        BY <2>4, <3>1 DEF ButtonsAreFresh
    <2>6. Fresh'
      BY <1>0, <2>1, <2>2, <2>5 DEF Fresh
    <2>7. QED
      BY <1>1, <1>2, <2>1, <2>6 DEF RecvInv
  <1>11. QED
    BY <1>4, <1>5, <1>6, <1>7, <1>8, <1>9, <1>10 DEF Next

LEMMA RecvLosesOnePacket ==
  ASSUME SendInv, Streams
  PROVE  OneLossOnePacket
  <1> DEFINE C == Contents(rx)
             w == saved \o C
  <1>1. /\ saved \in Seq(Bytes) /\ C \in Seq(Bytes) /\ arrived \in Nat /\ Packets \in Nat
    <2>1. rx \in Rings /\ saved \in Seq(Bytes) /\ arrived \in 0 .. (3 * Packets)
      BY DEF SendInv, TypeOK
    <2>2. QED
      BY <2>1, ContentsAt, Numbers
  <1>2. PICK F : Stream(F, w, 1, lost, arrived) /\ Past(handled, F, lost)
    BY DEF Streams
  <1>3. Waiting = ToSet(w)
    BY <1>1, Joined DEF Waiting
  <1> HIDE DEF w, C
  <1>4. F \in 0 .. arrived /\ w \in Seq(Sound) /\ lost \subseteq {Sent(n) : n \in 1 .. arrived}
    BY <1>2 DEF Stream
  <1>5. handled \in Seq(Seq(Sound)) /\ Len(handled) \in Nat /\ DOMAIN handled = 1 .. Len(handled)
    BY <1>2, LenProperties DEF Past
  <1> SUFFICES ASSUME Cardinality(lost) <= 1
               PROVE  /\ \A j \in DOMAIN handled :
                           handled[j] = [k \in 1 .. 3 |-> <<Id(handled[j]), k>>]
                      /\ \A j \in 2 .. Len(handled) : Id(handled[j - 1]) < Id(handled[j])
                      /\ \A i \in 1 .. (arrived \div 3) :
                           (\A k \in 1 .. 3 : <<i, k>> \notin lost \cup Waiting)
                             => \E j \in DOMAIN handled : Id(handled[j]) = i
    BY DEF OneLossOnePacket
  <1>6. OneLost(lost)
    BY <1>1, <1>4, FewLost
  <1>7. \A j \in DOMAIN handled : handled[j] = [k \in 1 .. 3 |-> <<Id(handled[j]), k>>]
    BY <1>2, <1>5, <1>6 DEF Past, Good
  <1>8. \A j \in 2 .. Len(handled) : Id(handled[j - 1]) < Id(handled[j])
    <2> SUFFICES ASSUME NEW j \in 2 .. Len(handled) PROVE Id(handled[j - 1]) < Id(handled[j])
      OBVIOUS
    <2>1. j - 1 \in 1 .. Len(handled) /\ j \in 1 .. Len(handled) /\ j - 1 < j
      BY <1>5
    <2>2. QED
      BY <1>2, <2>1, PacketsRise
  <1>9. ASSUME NEW i \in 1 .. (arrived \div 3), \A k \in 1 .. 3 : <<i, k>> \notin lost \cup Waiting
        PROVE  \E j \in DOMAIN handled : Id(handled[j]) = i
    <2> DEFINE d == arrived \div 3
               n == 3 * (i - 1) + 1
    <2>1. d \in Nat /\ 3 * d <= arrived
      <3>1. 3 \in Nat \ {0}
        OBVIOUS
      <3>2. d \in Nat /\ arrived % 3 \in 0 .. 3 - 1 /\ arrived = 3 * d + (arrived % 3)
        BY <1>1, <3>1, DivMod
      <3> HIDE DEF d
      <3>3. QED
        BY <1>1, <3>2
    <2>2. i \in 1 .. d
      OBVIOUS
    <2> HIDE DEF d
    <2>3. i \in Nat \ {0} /\ n <= arrived
      BY <1>1, <2>1, <2>2
    <2>4. n \in Nat \ {0} /\ Sent(n) = <<i, 1>>
      BY <2>3, PacketPlaces
    <2>5. n <= F
      <3> HIDE DEF n
      <3> SUFFICES ASSUME ~(n <= F) PROVE FALSE
        OBVIOUS
      <3>1. n \in (F + 1) .. arrived
        BY <1>1, <1>4, <2>3, <2>4
      <3>2. Sent(n) \notin lost /\ Sent(n) \notin Waiting
        BY <1>9, <2>4
      <3>3. PICK j \in 1 .. Len(w) : w[j] = Sent(n)
        BY <1>2, <3>1, <3>2 DEF Stream, Kept
      <3>4. Sent(n) \in ToSet(w)
        BY <1>4, <3>3, LenProperties DEF ToSet
      <3>5. QED
        BY <1>3, <3>2, <3>4
    <2>6. Complete(handled, F, lost)
      BY <1>2 DEF Past
    <2>7. \A k \in 1 .. 3 : <<i, k>> \notin lost
      BY <1>9
    <2>8. QED
      BY <1>5, <2>3, <2>5, <2>6, <2>7 DEF Complete
  <1>10. QED
    BY <1>7, <1>8, <1>9

(* However the bytes of the controller are cut into interrupts, every whole *)
(* packet that has left the ring is handled once and in order, at most one  *)
(* packet is lost with a byte, and the two bytes that TUX_BUTTONS returns   *)
(* are no older than the last event before the call: tuxctl_ldisc_rcv_buf,  *)
(* tuxctl_ldisc_data_callback and tuxctl_handle_packet.                     *)
THEOREM ReceivesAreInOrder == Spec => []ReceivesInOrder
  <1>1. RecvInv => ReceivesInOrder
    BY RecvLosesOnePacket DEF RecvInv, Fresh, ReceivesInOrder
  <1>2. QED
    BY RecvInit, RecvNext, <1>1, PTL DEF Spec

-----------------------------------------------------------------------------
(* The protocol of the acknowledgements and resets (TuxProtocol).          *)

Pending == Len(to_tux) + Len(to_host)

(* The acknowledgements counted, at each point of an ioctl, are at most    *)
(* the commands and packets on their way, unless a reset will set ack or a *)
(* packet took away what the ioctl is about to count.                      *)
CountInv ==
    ~ResetOnItsWay /\ ~miscounted =>
        ack <= CASE tuxIoctl.pc = "put_init" -> Pending + 2
                 [] tuxIoctl.pc \in {"record", "count"} -> Pending - 1
                 [] OTHER -> Pending

(* The value the LEDs are to show: that of the last ioctl that sent one.   *)
Wanted == IF tuxIoctl.pc = "record" THEN tuxIoctl.arg ELSE reset

IsLedSet(c) == c.cmd = "MTCP_LED_SET"
EndsWith(q, shown, v) ==   \* what q leaves on LEDs that now show "shown"
    \/ shown = v /\ \A i \in 1 .. Len(q) : ~IsLedSet(q[i])
    \/ \E i \in 1 .. Len(q) :
         q[i] = LedSet(v) /\ \A j \in i + 1 .. Len(q) : ~IsLedSet(q[j])
LedInv == \/ resend \/ ResetOnItsWay \/ outdated
          \/ EndsWith(to_tux, leds, Wanted)

(* Once opened, the controller is in user mode or will be. *)
ModeInv ==
    opened => \/ user_mode \/ ResetOnItsWay \/ tuxIoctl.pc = "put_init"
              \/ \E i \in 1 .. Len(to_tux) : to_tux[i] = LedUsr

IInv == ProtocolTypeOK /\ CountInv /\ ResendHasACause /\ LedInv /\ ModeInv

-----------------------------------------------------------------------------
(* The two queues. *)
LEMMA CommandTypes ==
    /\ BiocOn \in Commands /\ LedUsr \in Commands
    /\ \A v \in Values \cup {Dark} :
          LedSet(v) \in Commands /\ IsLedSet(LedSet(v)) /\ LedSet(v).value = v
    /\ ~IsLedSet(BiocOn) /\ ~IsLedSet(LedUsr)
    /\ \A c \in Commands : IsLedSet(c) => c.value \in Values \cup {Dark}
<1>1. BiocOn \in Commands /\ LedUsr \in Commands
  BY DEF Commands
<1>2. \A v \in Values \cup {Dark} : LedSet(v) \in Commands
  BY DEF Commands
<1>3. \A v : IsLedSet(LedSet(v)) /\ LedSet(v).value = v
  BY DEF LedSet, IsLedSet
<1>4. ~IsLedSet(BiocOn) /\ ~IsLedSet(LedUsr)
  BY DEF BiocOn, LedUsr, IsLedSet
<1>5. \A c \in Commands :
         c \in {BiocOn, LedUsr} \/ \E v \in Values \cup {Dark} : c = LedSet(v)
  BY DEF Commands
<1> QED
  BY <1>1, <1>2, <1>3, <1>4, <1>5

LEMMA InitCommandsType ==
    /\ InitCommands \in Seq(Commands) /\ Len(InitCommands) = 2
    /\ InitCommands[1] = BiocOn /\ InitCommands[2] = LedUsr
BY CommandTypes DEF InitCommands

(* Sending the two commands of tuxctl_init() to the controller. *)
LEMMA PutTwo ==
    ASSUME NEW q \in Seq(Commands)
    PROVE  /\ q \o InitCommands \in Seq(Commands)
           /\ Len(q \o InitCommands) = Len(q) + 2
           /\ \A i \in 1 .. Len(q) : (q \o InitCommands)[i] = q[i]
           /\ (q \o InitCommands)[Len(q) + 1] = BiocOn
           /\ (q \o InitCommands)[Len(q) + 2] = LedUsr
<1>1. Len(q) \in Nat
  BY LenProperties
<1>2. /\ q \o InitCommands \in Seq(Commands)
      /\ Len(q \o InitCommands) = Len(q) + Len(InitCommands)
      /\ \A i \in 1 .. Len(q) + Len(InitCommands) : (q \o InitCommands)[i] =
             IF i <= Len(q) THEN q[i] ELSE InitCommands[i - Len(q)]
  BY InitCommandsType, ConcatProperties
<1> QED
  BY <1>1, <1>2, InitCommandsType

(* A packet taken off the line leaves a reset on its way or was one. *)
LEMMA TailKeepsReset ==
    ASSUME NEW q \in Seq(PacketKinds), q # <<>>
    PROVE  /\ Tail(q) \in Seq(PacketKinds) /\ Len(Tail(q)) = Len(q) - 1 /\ Len(q) \in Nat \ {0}
           /\ (\E i \in 1 .. Len(q) : q[i] = "MTCP_RESET") /\ Head(q) = "MTCP_ACK"
                => \E i \in 1 .. Len(Tail(q)) : Tail(q)[i] = "MTCP_RESET"
<1>1. /\ Tail(q) \in Seq(PacketKinds) /\ Len(Tail(q)) = Len(q) - 1
      /\ \A i \in 1 .. Len(Tail(q)) : Tail(q)[i] = q[i + 1]
  BY HeadTailProperties
<1>2. Len(q) \in Nat \ {0} /\ Head(q) = q[1]
  BY EmptySeq, LenProperties
<1>3. ASSUME NEW i \in 1 .. Len(q), q[i] = "MTCP_RESET", q[1] = "MTCP_ACK"
      PROVE  \E k \in 1 .. Len(Tail(q)) : Tail(q)[k] = "MTCP_RESET"
  <2>1. i # 1
    BY <1>3
  <2>2. i - 1 \in 1 .. Len(Tail(q)) /\ Tail(q)[i - 1] = q[i]
    BY <1>1, <1>2, <2>1
  <2> QED
    BY <1>3, <2>2
<1> QED
  BY <1>1, <1>2, <1>3

LEMMA AppendKeepsReset ==
    ASSUME NEW q \in Seq(PacketKinds), NEW p \in PacketKinds
    PROVE  /\ Append(q, p) \in Seq(PacketKinds) /\ Len(Append(q, p)) = Len(q) + 1
           /\ Len(q) \in Nat
           /\ (\E i \in 1 .. Len(q) : q[i] = "MTCP_RESET") \/ p = "MTCP_RESET"
                => \E i \in 1 .. Len(Append(q, p)) : Append(q, p)[i] = "MTCP_RESET"
BY AppendProperties, LenProperties


(* One more command that is not for the LEDs changes nothing they show.    *)
LEMMA AppendCommand ==
    ASSUME NEW q \in Seq(Commands), NEW c \in Commands
    PROVE  /\ Append(q, c) \in Seq(Commands) /\ Len(Append(q, c)) = Len(q) + 1
           /\ Len(q) \in Nat
           /\ \A i \in 1 .. Len(q) : Append(q, c)[i] = q[i]
           /\ Append(q, c)[Len(q) + 1] = c
BY AppendProperties, LenProperties

LEMMA TailOfCommands ==
    ASSUME NEW q \in Seq(Commands), q # <<>>
    PROVE  /\ Tail(q) \in Seq(Commands) /\ Len(Tail(q)) = Len(q) - 1
           /\ Len(q) \in Nat \ {0}
           /\ Head(q) = q[1] /\ q[1] \in Commands
           /\ \A i \in 1 .. Len(q) - 1 : Tail(q)[i] = q[i + 1]
<1>1. Len(q) \in Nat \ {0} /\ Head(q) = q[1]
  BY EmptySeq, LenProperties
<1> QED
  BY <1>1, HeadTailProperties, ElementOfSeq

-----------------------------------------------------------------------------
(* Types. *)
LEMMA IoctlType ==
    ASSUME tuxIoctl \in Ioctls
    PROVE  /\ tuxIoctl.pc \in {"idle", "put_init", "record", "count"}
           /\ tuxIoctl.arg \in Values \cup {Dark}
           /\ \A s \in {"idle", "put_init", "record", "count"} :
                 /\ [tuxIoctl EXCEPT !.pc = s] \in Ioctls
                 /\ [tuxIoctl EXCEPT !.pc = s].pc = s
                 /\ [tuxIoctl EXCEPT !.pc = s].arg = tuxIoctl.arg
BY DEF Ioctls

LEMMA IdleType == NoIoctl \in Ioctls /\ NoIoctl.pc = "idle"
BY DEF Ioctls, NoIoctl

LEMMA TypeInit == ProtocolInit => ProtocolTypeOK
<1> SUFFICES ASSUME ProtocolInit PROVE ProtocolTypeOK
  OBVIOUS
<1>1. to_tux \in Seq(Commands) /\ to_host \in Seq(PacketKinds)
  BY EmptySeq DEF ProtocolInit
<1>2. tuxIoctl \in Ioctls
  BY IdleType DEF ProtocolInit
<1>3. ack \in Nat /\ resets \in 0 .. MaxResets
  BY TuxProtocolAssumption DEF ProtocolInit
<1> QED
  BY <1>1, <1>2, <1>3 DEF ProtocolInit, ProtocolTypeOK

LEMMA TypeStep ==
    ASSUME ProtocolTypeOK, [ProtocolNext]_protocolVars
    PROVE  ProtocolTypeOK'
<1> USE DEF ProtocolTypeOK
<1>1. CASE BeginInit
  BY <1>1, IoctlType DEF BeginInit, tux, crossed
<1>2. CASE PutInit
  BY <1>2, IdleType, PutTwo DEF PutInit, tux, crossed, driver
<1>3. ASSUME NEW v \in Values, BeginSetLed(v) PROVE ProtocolTypeOK'
  <2>1. LedSet(v) \in Commands
    BY CommandTypes
  <2>2. to_tux' \in Seq(Commands)
    BY <1>3, <2>1, AppendCommand DEF BeginSetLed
  <2>3. tuxIoctl' \in Ioctls
    BY <1>3 DEF BeginSetLed, Ioctls
  <2> QED
    BY <1>3, <2>2, <2>3 DEF BeginSetLed, tux, crossed, driver
<1>4. CASE RecordReset
  BY <1>4, IoctlType DEF RecordReset, RecordValue, tux, crossed
<1>5. CASE CountAck
  BY <1>5, IdleType DEF CountAck, tux, crossed
<1>6. CASE HandleAck
  <2>1. to_host' \in Seq(PacketKinds)
    BY <1>6, TailKeepsReset DEF HandleAck, MayHandle
  <2>2. ack' \in Nat
    BY <1>6 DEF HandleAck, AcksLeft
  <2>3. to_tux' \in Seq(Commands) /\ resend' \in BOOLEAN
    BY <1>6, CommandTypes, AppendCommand DEF HandleAck
  <2> QED
    BY <1>6, <2>1, <2>2, <2>3 DEF HandleAck, tux, crossed
<1>7. CASE HandleReset
  <2>1. to_host' \in Seq(PacketKinds)
    BY <1>7, TailKeepsReset DEF HandleReset, MayHandle
  <2>2. miscounted' \in BOOLEAN /\ outdated' \in BOOLEAN
    BY <1>7 DEF HandleReset, InSetLed
  <2>3. ack' \in Nat /\ resend' \in BOOLEAN
    BY <1>7 DEF HandleReset, AcksOfInit
  <2>4. to_tux' \in Seq(Commands)
    BY <1>7, PutTwo DEF HandleReset
  <2> QED
    BY <1>7, <2>1, <2>2, <2>3, <2>4 DEF HandleReset, tux
<1>8. CASE ExecuteCommand
  <2>1. to_tux' \in Seq(Commands) /\ Head(to_tux) \in Commands
    BY <1>8, TailOfCommands DEF ExecuteCommand
  <2>2. leds' \in Values \cup {Dark}
    BY <1>8, <2>1, CommandTypes DEF ExecuteCommand, IsLedSet
  <2>3. to_host' \in Seq(PacketKinds)
    BY <1>8, AppendKeepsReset DEF ExecuteCommand, PacketKinds
  <2>4. user_mode' \in BOOLEAN
    BY <1>8 DEF ExecuteCommand
  <2> QED
    BY <1>8, <2>1, <2>2, <2>3, <2>4 DEF ExecuteCommand, driver, crossed
<1>9. CASE ResetTux
  <2>1. to_host' \in Seq(PacketKinds)
    BY <1>9, AppendKeepsReset DEF ResetTux, PacketKinds
  <2>2. to_tux' \in Seq(Commands)
    <3>1. PICK reached \in 0 .. Len(to_tux) :
             to_tux' = SubSeq(to_tux, reached + 1, Len(to_tux))
      BY <1>9 DEF ResetTux
    <3>2. Len(to_tux) \in Nat /\ \A i \in reached + 1 .. Len(to_tux) : to_tux[i] \in Commands
      BY LenProperties, ElementOfSeq
    <3> QED
      BY <3>1, <3>2, SubSeqProperties
  <2>3. resets' \in 0 .. MaxResets
    BY <1>9, TuxProtocolAssumption DEF ResetTux
  <2> QED
    BY <1>9, <2>1, <2>2, <2>3 DEF ResetTux, driver, crossed
<1>10. CASE UNCHANGED protocolVars
  BY <1>10 DEF protocolVars, driver, crossed, tux
<1> QED
  BY <1>1, <1>2, <1>3, <1>4, <1>5, <1>6, <1>7, <1>8, <1>9, <1>10 DEF ProtocolNext

(* Every variable keeps its type, interrupts at any point included; ack is *)
(* never negative.                                                         *)
THEOREM TuxTypes == ProtocolSpec => []ProtocolTypeOK
<1>1. ProtocolTypeOK /\ [ProtocolNext]_protocolVars => ProtocolTypeOK'
  BY TypeStep
<1> QED
  BY TypeInit, <1>1, PTL DEF ProtocolSpec

-----------------------------------------------------------------------------
(* The acknowledgements to come. *)

(* A reset stays on its way until it is handled, and nothing else removes  *)
(* a command or a packet but to replace one by the other.                  *)
LEMMA Traffic ==
    ASSUME ProtocolTypeOK
    PROVE  /\ Len(to_tux) \in Nat /\ Len(to_host) \in Nat
           /\ HandleAck => /\ ResetOnItsWay => ResetOnItsWay'
                           /\ Pending' \in Nat /\ Pending' >= Pending - 1
           /\ HandleReset => Pending' \in Nat /\ Pending' >= 2
           /\ ExecuteCommand => /\ ResetOnItsWay => ResetOnItsWay'
                                /\ Pending' = Pending
           /\ ResetTux => ResetOnItsWay'
<1>1. Len(to_tux) \in Nat /\ Len(to_host) \in Nat
  BY LenProperties DEF ProtocolTypeOK
<1>2. ASSUME HandleAck
      PROVE  /\ ResetOnItsWay => ResetOnItsWay'
             /\ Pending' \in Nat /\ Pending' >= Pending - 1
  <2>1. to_host # <<>> /\ Head(to_host) = "MTCP_ACK" /\ to_host' = Tail(to_host)
    BY <1>2 DEF HandleAck, MayHandle
  <2>2. Len(to_host') = Len(to_host) - 1 /\ Len(to_host) \in Nat \ {0}
    BY <2>1, TailKeepsReset DEF ProtocolTypeOK
  <2>3. ResetOnItsWay => ResetOnItsWay'
    BY <2>1, TailKeepsReset DEF ProtocolTypeOK, ResetOnItsWay
  <2>4. Len(to_tux') \in {Len(to_tux), Len(to_tux) + 1}
    BY <1>2, CommandTypes, AppendCommand DEF HandleAck, ProtocolTypeOK
  <2> QED
    BY <1>1, <2>2, <2>3, <2>4 DEF Pending
<1>3. ASSUME HandleReset PROVE Pending' \in Nat /\ Pending' >= 2
  <2>1. Len(to_host') = Len(to_host) - 1 /\ Len(to_host) \in Nat \ {0}
    BY <1>3, TailKeepsReset DEF ProtocolTypeOK, HandleReset, MayHandle
  <2>2. Len(to_tux') = Len(to_tux) + 2
    BY <1>3, PutTwo DEF ProtocolTypeOK, HandleReset
  <2> QED
    BY <1>1, <2>1, <2>2 DEF Pending
<1>4. ASSUME ExecuteCommand
      PROVE  (ResetOnItsWay => ResetOnItsWay') /\ Pending' = Pending
  <2>1. Len(to_tux') = Len(to_tux) - 1
    BY <1>4, TailOfCommands DEF ExecuteCommand, ProtocolTypeOK
  <2>2. "MTCP_ACK" \in PacketKinds /\ to_host' = Append(to_host, "MTCP_ACK")
    BY <1>4 DEF ExecuteCommand, PacketKinds
  <2>3. Len(to_host') = Len(to_host) + 1
    BY <2>2, AppendKeepsReset DEF ProtocolTypeOK
  <2>4. ResetOnItsWay => ResetOnItsWay'
    BY <2>2, AppendKeepsReset DEF ProtocolTypeOK, ResetOnItsWay
  <2> QED
    BY <1>1, <2>1, <2>3, <2>4 DEF Pending
<1>5. ASSUME ResetTux PROVE ResetOnItsWay'
  <2>1. "MTCP_RESET" \in PacketKinds /\ to_host' = Append(to_host, "MTCP_RESET")
    BY <1>5 DEF ResetTux, PacketKinds
  <2> QED
    BY <2>1, AppendKeepsReset DEF ProtocolTypeOK, ResetOnItsWay
<1> QED
  BY <1>1, <1>2, <1>3, <1>4, <1>5

LEMMA CountStep ==
    ASSUME ProtocolTypeOK, CountInv, [ProtocolNext]_protocolVars
    PROVE  CountInv'
<1> USE DEF CountInv
<1>0. /\ Len(to_tux) \in Nat /\ Len(to_host) \in Nat /\ ack \in Nat
      /\ Pending \in Nat /\ NoIoctl.pc = "idle"
      /\ tuxIoctl.pc \in {"idle", "put_init", "record", "count"}
  BY Traffic, IoctlType, IdleType DEF ProtocolTypeOK, Pending
<1>1. CASE BeginInit
  <2>1. tuxIoctl'.pc = "put_init" /\ ack' = 2 /\ Pending' = Pending
    BY <1>1, IoctlType DEF BeginInit, Pending, ProtocolTypeOK
  <2> QED
    BY <1>0, <2>1
<1>2. CASE PutInit
  <2>1. tuxIoctl'.pc = "idle" /\ ack' = ack /\ tuxIoctl.pc = "put_init"
    BY <1>0, <1>2 DEF PutInit, driver, crossed
  <2>2. Len(to_tux') = Len(to_tux) + 2 /\ to_host' = to_host
    BY <1>2, PutTwo DEF PutInit, ProtocolTypeOK
  <2>3. Pending' = Pending + 2 /\ (ResetOnItsWay' <=> ResetOnItsWay)
    BY <1>0, <2>2 DEF Pending, ResetOnItsWay
  <2>4. ~miscounted' => ~miscounted
    BY <1>2 DEF PutInit, crossed
  <2> QED
    BY <1>0, <2>1, <2>3, <2>4
<1>3. ASSUME NEW v \in Values, BeginSetLed(v) PROVE CountInv'
  <2>1. tuxIoctl'.pc = "record" /\ ack' = ack /\ tuxIoctl.pc = "idle"
    BY <1>0, <1>3 DEF BeginSetLed, MayCall, driver, crossed
  <2>2. LedSet(v) \in Commands /\ to_tux' = Append(to_tux, LedSet(v)) /\ to_host' = to_host
    BY <1>3, CommandTypes DEF BeginSetLed
  <2>3. Pending' = Pending + 1 /\ (ResetOnItsWay' <=> ResetOnItsWay)
    BY <1>0, <2>2, AppendCommand DEF Pending, ResetOnItsWay, ProtocolTypeOK
  <2>4. ~miscounted' => ~miscounted
    BY <1>3 DEF BeginSetLed
  <2> QED
    BY <1>0, <2>1, <2>3, <2>4
<1>4. CASE RecordReset
  <2>1. tuxIoctl'.pc = "count" /\ tuxIoctl.pc = "record" /\ ack' = ack
    BY <1>4, IoctlType DEF RecordReset, ProtocolTypeOK
  <2>2. Pending' = Pending /\ (ResetOnItsWay' <=> ResetOnItsWay)
    BY <1>4 DEF RecordReset, Pending, ResetOnItsWay
  <2>3. ~miscounted' => ~miscounted
    BY <1>4 DEF RecordReset, crossed
  <2> QED
    BY <1>0, <2>1, <2>2, <2>3
<1>5. CASE CountAck
  <2>1. tuxIoctl'.pc = "idle" /\ tuxIoctl.pc = "count" /\ ack' = ack + 1
    BY <1>0, <1>5 DEF CountAck
  <2>2. Pending' = Pending /\ (ResetOnItsWay' <=> ResetOnItsWay)
    BY <1>5 DEF CountAck, Pending, ResetOnItsWay
  <2>3. ~miscounted' => ~miscounted
    BY <1>5 DEF CountAck, crossed
  <2> QED
    BY <1>0, <2>1, <2>2, <2>3
<1>6. CASE HandleAck
  <2>1. /\ tuxIoctl' = tuxIoctl
        /\ tuxIoctl.pc \in {"idle", "put_init", "record", "count"}
        /\ ~miscounted' => ~miscounted /\ (tuxIoctl.pc \in {"record", "count"} => ack # 0)
    BY <1>6, IoctlType DEF HandleAck, InSetLed, ProtocolTypeOK
  <2>2. ack' = IF ack > 0 THEN ack - 1 ELSE 0
    BY <1>6 DEF HandleAck, AcksLeft
  <2>3. (ResetOnItsWay => ResetOnItsWay') /\ Pending' \in Nat /\ Pending' >= Pending - 1
    BY <1>6, Traffic
  <2> QED
    BY <1>0, <2>1, <2>2, <2>3
<1>7. CASE HandleReset
  <2>1. /\ tuxIoctl' = tuxIoctl /\ ack' = 2
        /\ tuxIoctl.pc \in {"idle", "put_init", "record", "count"}
        /\ ~miscounted' => tuxIoctl.pc \notin {"record", "count"}
    BY <1>7, IoctlType DEF HandleReset, InSetLed, AcksOfInit, ProtocolTypeOK
  <2>2. Pending' \in Nat /\ Pending' >= 2
    BY <1>7, Traffic
  <2> QED
    BY <2>1, <2>2
<1>8. CASE ExecuteCommand
  <2>1. tuxIoctl' = tuxIoctl /\ ack' = ack
    BY <1>8 DEF ExecuteCommand, driver, crossed
  <2>2. (ResetOnItsWay => ResetOnItsWay') /\ Pending' = Pending
    BY <1>8, Traffic
  <2>3. ~miscounted' => ~miscounted
    BY <1>8 DEF ExecuteCommand, crossed
  <2> QED
    BY <2>1, <2>2, <2>3
<1>9. CASE ResetTux
  BY <1>9, Traffic
<1>10. CASE UNCHANGED protocolVars
  BY <1>10 DEF protocolVars, driver, crossed, tux, Pending, ResetOnItsWay
<1> QED
  BY <1>1, <1>2, <1>3, <1>4, <1>5, <1>6, <1>7, <1>8, <1>9, <1>10 DEF ProtocolNext

LEMMA ResendStep ==
    ASSUME ProtocolTypeOK, ResendHasACause, [ProtocolNext]_protocolVars
    PROVE  ResendHasACause'
<1> USE DEF ResendHasACause
<1>1. CASE BeginInit
  BY <1>1 DEF BeginInit, ResetOnItsWay
<1>2. CASE PutInit
  BY <1>2 DEF PutInit, ResetOnItsWay, driver, crossed
<1>3. ASSUME NEW v \in Values, BeginSetLed(v) PROVE ResendHasACause'
  BY <1>3 DEF BeginSetLed, ResetOnItsWay, driver, crossed
<1>4. CASE RecordReset
  BY <1>4 DEF RecordReset, ResetOnItsWay
<1>5. CASE CountAck
  BY <1>5 DEF CountAck, ResetOnItsWay, ProtocolTypeOK
<1>6. CASE HandleAck
  <2>1. ack' = AcksLeft /\ AcksLeft \in Nat
    BY <1>6 DEF HandleAck, AcksLeft, ProtocolTypeOK
  <2>2. CASE resend /\ AcksLeft = 0
    BY <1>6, <2>2 DEF HandleAck, MustResend
  <2>3. CASE ~resend
    BY <1>6, <2>3 DEF HandleAck, MustResend
  <2>4. CASE AcksLeft # 0
    BY <2>1, <2>4
  <2> QED
    BY <2>2, <2>3, <2>4
<1>7. CASE HandleReset
  BY <1>7 DEF HandleReset, AcksOfInit
<1>8. CASE ExecuteCommand
  <2>1. ResetOnItsWay => ResetOnItsWay'
    BY <1>8, Traffic
  <2> QED
    BY <1>8, <2>1 DEF ExecuteCommand, driver, crossed
<1>9. CASE ResetTux
  BY <1>9, Traffic
<1>10. CASE UNCHANGED protocolVars
  BY <1>10 DEF protocolVars, driver, crossed, tux, ResetOnItsWay
<1> QED
  BY <1>1, <1>2, <1>3, <1>4, <1>5, <1>6, <1>7, <1>8, <1>9, <1>10 DEF ProtocolNext

-----------------------------------------------------------------------------
(* What the LEDs will show. *)
LEMMA EndsWithAppended ==
    ASSUME NEW q \in Seq(Commands), NEW shown, NEW v \in Values \cup {Dark}
    PROVE  EndsWith(Append(q, LedSet(v)), shown, v)
<1>1. LedSet(v) \in Commands
  BY CommandTypes
<1>2. /\ Len(Append(q, LedSet(v))) = Len(q) + 1 /\ Len(q) \in Nat
      /\ Append(q, LedSet(v))[Len(q) + 1] = LedSet(v)
  BY <1>1, AppendCommand
<1> QED
  BY <1>2 DEF EndsWith

LEMMA EndsWithInit ==
    ASSUME NEW q \in Seq(Commands), NEW shown, NEW v, EndsWith(q, shown, v)
    PROVE  EndsWith(q \o InitCommands, shown, v)
<1> DEFINE r == q \o InitCommands
<1>1. /\ Len(q) \in Nat /\ Len(r) = Len(q) + 2
      /\ \A i \in 1 .. Len(q) : r[i] = q[i]
      /\ r[Len(q) + 1] = BiocOn /\ r[Len(q) + 2] = LedUsr
  BY PutTwo, LenProperties
<1>2. ~IsLedSet(r[Len(q) + 1]) /\ ~IsLedSet(r[Len(q) + 2])
  BY <1>1, CommandTypes
<1>3. \A i \in Len(q) + 1 .. Len(r) : ~IsLedSet(r[i])
  BY <1>1, <1>2
<1> HIDE DEF r
<1>4. ASSUME shown = v, \A i \in 1 .. Len(q) : ~IsLedSet(q[i])
      PROVE  EndsWith(r, shown, v)
  BY <1>1, <1>3, <1>4 DEF EndsWith
<1>5. ASSUME NEW i \in 1 .. Len(q), q[i] = LedSet(v),
             \A j \in i + 1 .. Len(q) : ~IsLedSet(q[j])
      PROVE  EndsWith(r, shown, v)
  <2>1. i \in 1 .. Len(r) /\ r[i] = LedSet(v)
    BY <1>1, <1>5
  <2>2. \A j \in i + 1 .. Len(r) : ~IsLedSet(r[j])
    BY <1>1, <1>3, <1>5
  <2> QED
    BY <2>1, <2>2 DEF EndsWith
<1>6. EndsWith(r, shown, v)
  BY <1>4, <1>5 DEF EndsWith
<1> QED
  BY <1>6 DEF r

(* Executing the first command leaves what the rest will show. *)
LEMMA EndsWithTail ==
    ASSUME NEW q \in Seq(Commands), q # <<>>, NEW shown,
           NEW v \in Values \cup {Dark}, EndsWith(q, shown, v)
    PROVE  EndsWith(Tail(q), IF IsLedSet(Head(q)) THEN Head(q).value ELSE shown, v)
<1> DEFINE now == IF IsLedSet(Head(q)) THEN Head(q).value ELSE shown
<1>1. /\ Len(q) \in Nat \ {0} /\ Len(Tail(q)) = Len(q) - 1 /\ Head(q) = q[1]
      /\ \A i \in 1 .. Len(q) - 1 : Tail(q)[i] = q[i + 1]
  BY TailOfCommands
<1>2. CASE shown = v /\ \A i \in 1 .. Len(q) : ~IsLedSet(q[i])
  <2>1. now = v
    BY <1>1, <1>2
  <2>2. \A i \in 1 .. Len(Tail(q)) : ~IsLedSet(Tail(q)[i])
    BY <1>1, <1>2
  <2> QED
    BY <2>1, <2>2 DEF EndsWith
<1>3. ASSUME NEW i \in 1 .. Len(q), q[i] = LedSet(v),
             \A j \in i + 1 .. Len(q) : ~IsLedSet(q[j])
      PROVE  EndsWith(Tail(q), now, v)
  <2>1. \A j \in i .. Len(Tail(q)) : ~IsLedSet(Tail(q)[j])
    BY <1>1, <1>3
  <2>2. CASE i = 1
    <3>1. now = v
      BY <1>1, <1>3, <2>2, CommandTypes
    <3> QED
      BY <2>1, <2>2, <3>1 DEF EndsWith
  <2>3. CASE i # 1
    <3>1. i - 1 \in 1 .. Len(Tail(q)) /\ Tail(q)[i - 1] = LedSet(v)
      BY <1>1, <1>3, <2>3
    <3>2. \A j \in (i - 1) + 1 .. Len(Tail(q)) : ~IsLedSet(Tail(q)[j])
      BY <1>1, <2>1
    <3> QED
      BY <3>1, <3>2 DEF EndsWith
  <2> QED
    BY <2>2, <2>3
<1> QED
  BY <1>2, <1>3 DEF EndsWith

LEMMA LedStep ==
    ASSUME ProtocolTypeOK, LedInv, [ProtocolNext]_protocolVars
    PROVE  LedInv'
<1> USE DEF LedInv
<1>0. /\ reset \in Values \cup {Dark} /\ tuxIoctl.arg \in Values \cup {Dark}
      /\ Wanted \in Values \cup {Dark} /\ NoIoctl.pc = "idle"
      /\ to_tux \in Seq(Commands)
  BY IoctlType, IdleType DEF ProtocolTypeOK, Wanted
<1>1. CASE BeginInit
  <2>1. Wanted' = Wanted
    BY <1>1, <1>0, IoctlType DEF BeginInit, MayCall, Wanted, ProtocolTypeOK
  <2> QED
    BY <1>1, <2>1 DEF BeginInit, ResetOnItsWay, tux, crossed
<1>2. CASE PutInit
  <2>1. Wanted' = Wanted
    BY <1>2, <1>0 DEF PutInit, Wanted, driver, crossed
  <2>2. EndsWith(to_tux, leds, Wanted) => EndsWith(to_tux', leds', Wanted')
    BY <1>0, <1>2, <2>1, EndsWithInit DEF PutInit, tux, crossed
  <2>3. (ResetOnItsWay' <=> ResetOnItsWay) /\ resend' = resend /\ outdated' = outdated
    BY <1>2 DEF PutInit, ResetOnItsWay, driver, crossed
  <2> QED
    BY <2>2, <2>3
<1>3. ASSUME NEW v \in Values, BeginSetLed(v) PROVE LedInv'
  <2>1. Wanted' = v /\ to_tux' = Append(to_tux, LedSet(v))
    BY <1>3 DEF BeginSetLed, Wanted
  <2> QED
    BY <1>0, <2>1, EndsWithAppended
<1>4. CASE RecordReset
  <2>1. Wanted' = Wanted
    BY <1>4, IoctlType DEF RecordReset, RecordValue, Wanted, ProtocolTypeOK
  <2> QED
    BY <1>4, <2>1 DEF RecordReset, ResetOnItsWay, tux, crossed
<1>5. CASE CountAck
  <2>1. Wanted' = Wanted
    BY <1>5, <1>0 DEF CountAck, Wanted
  <2> QED
    BY <1>5, <2>1 DEF CountAck, ResetOnItsWay, tux, crossed
<1>6. CASE HandleAck
  <2>1. Wanted' = Wanted /\ leds' = leds /\ (outdated => outdated')
    BY <1>6 DEF HandleAck, Wanted, tux, crossed
  <2>2. CASE MustResend
    <3>1. to_tux' = Append(to_tux, LedSet(reset))
      BY <1>6, <2>2 DEF HandleAck
    <3>2. CASE tuxIoctl.pc = "record"
      BY <1>6, <2>2, <3>2 DEF HandleAck
    <3>3. CASE tuxIoctl.pc # "record"
      <4>1. Wanted' = reset
        BY <2>1, <3>3 DEF Wanted
      <4>2. EndsWith(to_tux', leds', Wanted')
        BY <1>0, <3>1, <4>1, EndsWithAppended
      <4> QED
        BY <4>2
    <3> QED
      BY <3>2, <3>3
  <2>3. CASE ~MustResend
    <3>1. to_tux' = to_tux /\ resend' = resend
      BY <1>6, <2>3 DEF HandleAck
    <3>2. ResetOnItsWay => ResetOnItsWay'
      BY <1>6, Traffic
    <3> QED
      BY <2>1, <3>1, <3>2
  <2> QED
    BY <2>2, <2>3
<1>7. CASE HandleReset
  BY <1>7 DEF HandleReset
<1>8. CASE ExecuteCommand
  <2>1. /\ Wanted' = Wanted /\ resend' = resend /\ outdated' = outdated
        /\ to_tux # <<>> /\ to_tux' = Tail(to_tux)
    BY <1>8 DEF ExecuteCommand, Wanted, driver, crossed
  <2>2. leds' = IF IsLedSet(Head(to_tux)) THEN Head(to_tux).value ELSE leds
    BY <1>8 DEF ExecuteCommand, IsLedSet
  <2>3. EndsWith(to_tux, leds, Wanted) => EndsWith(to_tux', leds', Wanted')
    BY <1>0, <2>1, <2>2, EndsWithTail
  <2>4. ResetOnItsWay => ResetOnItsWay'
    BY <1>8, Traffic
  <2> QED
    BY <2>1, <2>3, <2>4
<1>9. CASE ResetTux
  BY <1>9, Traffic
<1>10. CASE UNCHANGED protocolVars
  BY <1>10 DEF protocolVars, driver, crossed, tux, ResetOnItsWay, Wanted
<1> QED
  BY <1>1, <1>2, <1>3, <1>4, <1>5, <1>6, <1>7, <1>8, <1>9, <1>10 DEF ProtocolNext

-----------------------------------------------------------------------------
(* The mode of the controller. *)
LEMMA ModeStep ==
    ASSUME ProtocolTypeOK, ModeInv, [ProtocolNext]_protocolVars
    PROVE  ModeInv'
<1> DEFINE InQueue(q) == \E i \in 1 .. Len(q) : q[i] = LedUsr
<1>0. /\ NoIoctl.pc = "idle" /\ to_tux \in Seq(Commands) /\ Len(to_tux) \in Nat
      /\ \A s \in {"idle", "put_init", "record", "count"} : [tuxIoctl EXCEPT !.pc = s].pc = s
  BY IoctlType, IdleType, LenProperties DEF ProtocolTypeOK
<1>1. CASE BeginInit
  BY <1>0, <1>1 DEF BeginInit, ModeInv
<1>2. CASE PutInit
  <2>1. InQueue(to_tux')
    BY <1>0, <1>2, PutTwo DEF PutInit
  <2> QED
    BY <2>1 DEF ModeInv
<1>3. ASSUME NEW v \in Values, BeginSetLed(v) PROVE ModeInv'
  <2>1. LedSet(v) \in Commands /\ to_tux' = Append(to_tux, LedSet(v))
    BY <1>3, CommandTypes DEF BeginSetLed
  <2>2. InQueue(to_tux) => InQueue(to_tux')
    BY <1>0, <2>1, AppendCommand
  <2>3. tuxIoctl.pc = "idle" /\ UNCHANGED <<to_host, user_mode, opened>>
    BY <1>0, <1>3 DEF BeginSetLed, MayCall, tux, crossed
  <2> QED
    BY <2>2, <2>3 DEF ModeInv, ResetOnItsWay
<1>4. CASE RecordReset
  BY <1>0, <1>4 DEF RecordReset, ModeInv, ResetOnItsWay, tux, crossed
<1>5. CASE CountAck
  BY <1>0, <1>5 DEF CountAck, ModeInv, ResetOnItsWay, tux, crossed
<1>6. CASE HandleAck
  <2>1. ResetOnItsWay => ResetOnItsWay'
    BY <1>6, Traffic
  <2>2. InQueue(to_tux) => InQueue(to_tux')
    BY <1>0, <1>6, CommandTypes, AppendCommand DEF HandleAck, ProtocolTypeOK
  <2> QED
    BY <1>6, <2>1, <2>2 DEF HandleAck, ModeInv, tux, crossed
<1>7. CASE HandleReset
  <2>1. InQueue(to_tux')
    <3> DEFINE q == to_tux \o InitCommands
    <3>1. to_tux' = q /\ q[Len(to_tux) + 2] = LedUsr /\ Len(q) = Len(to_tux) + 2
      BY <1>0, <1>7, PutTwo, Zenon DEF HandleReset
    <3>2. Len(to_tux) + 2 \in 1 .. Len(q)
      BY <1>0, <3>1
    <3> HIDE DEF q
    <3>3. QED
      BY <3>1, <3>2, Zenon
  <2> QED
    BY <2>1 DEF ModeInv
<1>8. CASE ExecuteCommand
  <2>1. ResetOnItsWay => ResetOnItsWay'
    BY <1>8, Traffic
  <2>2. to_tux # <<>> /\ to_tux' = Tail(to_tux)
        /\ user_mode' = (user_mode \/ Head(to_tux) = LedUsr)
    BY <1>8 DEF ExecuteCommand
  <2>3. ASSUME NEW i \in 1 .. Len(to_tux), to_tux[i] = LedUsr
        PROVE  Head(to_tux) = LedUsr \/ InQueue(to_tux')
    <3>1. /\ Len(Tail(to_tux)) = Len(to_tux) - 1 /\ Head(to_tux) = to_tux[1]
          /\ \A k \in 1 .. Len(to_tux) - 1 : Tail(to_tux)[k] = to_tux[k + 1]
      BY <1>0, <2>2, TailOfCommands
    <3>2. CASE i = 1
      BY <2>3, <3>1, <3>2
    <3>3. CASE i # 1
      <4>1. i - 1 \in 1 .. Len(Tail(to_tux)) /\ Tail(to_tux)[i - 1] = LedUsr
        BY <1>0, <2>3, <3>1, <3>3
      <4> QED
        BY <2>2, <4>1
    <3> QED
      BY <3>2, <3>3
  <2>4. UNCHANGED <<tuxIoctl, opened>>
    BY <1>8 DEF ExecuteCommand
  <2> QED
    BY <2>1, <2>2, <2>3, <2>4 DEF ModeInv
<1>9. CASE ResetTux
  BY <1>9, Traffic DEF ModeInv
<1>10. CASE UNCHANGED protocolVars
  BY <1>10 DEF protocolVars, driver, crossed, tux, ModeInv, ResetOnItsWay
<1> QED
  BY <1>1, <1>2, <1>3, <1>4, <1>5, <1>6, <1>7, <1>8, <1>9, <1>10 DEF ProtocolNext

-----------------------------------------------------------------------------
(* The invariant is inductive wherever the interrupts come: what is        *)
(* counted comes, so ack reaches 0, and a resend that is due is sent,      *)
(* unless a packet crossed an ioctl.                                       *)
THEOREM TuxInvariant == ProtocolSpec => []IInv
<1>1. ProtocolInit => IInv
  <2> SUFFICES ASSUME ProtocolInit PROVE IInv
    OBVIOUS
  <2>1. /\ NoIoctl.pc = "idle" /\ tuxIoctl = NoIoctl /\ ack = 0 /\ ~resend /\ ~opened
        /\ leds = reset /\ to_tux = <<>> /\ to_host = <<>>
    BY IdleType DEF ProtocolInit
  <2>2. ProtocolTypeOK
    BY TypeInit
  <2>3. CountInv /\ ResendHasACause /\ ModeInv
    BY <2>1 DEF CountInv, Pending, ResendHasACause, ModeInv
  <2>4. LedInv
    BY <2>1 DEF LedInv, EndsWith, Wanted
  <2> QED
    BY <2>2, <2>3, <2>4 DEF IInv
<1>2. IInv /\ [ProtocolNext]_protocolVars => IInv'
  BY TypeStep, CountStep, ResendStep, LedStep, ModeStep DEF IInv
<1> QED
  BY <1>1, <1>2, PTL DEF ProtocolSpec

(* ack never counts an acknowledgement that is not to come, but for an     *)
(* ioctl's ack++ that follows the acknowledgement or a reset.              *)
THEOREM AcksCome == ProtocolSpec => []AcksWillCome
<1>1. IInv => AcksWillCome
  BY IdleType DEF IInv, CountInv, AcksWillCome, Pending
<1> QED
  BY TuxInvariant, <1>1, PTL

(* A resend that is due has an acknowledgement to wait for. *)
THEOREM ResendIsCaused == ProtocolSpec => []ResendHasACause
<1>1. ProtocolInit => ProtocolTypeOK /\ ResendHasACause
  BY TypeInit DEF ProtocolInit, ResendHasACause
<1>2. ProtocolTypeOK /\ ResendHasACause /\ [ProtocolNext]_protocolVars => (ProtocolTypeOK /\ ResendHasACause)'
  BY TypeStep, ResendStep
<1> QED
  BY <1>1, <1>2, PTL DEF ProtocolSpec

(* When nothing is on its way, the LEDs show what was last asked for,      *)
(* whatever resets there were, and an opened controller is in user mode;   *)
(* a packet inside an ioctl alone can leave a resend undone (miscounted)   *)
(* or the value before on the LEDs (outdated).                             *)
THEOREM LedsCurrent == ProtocolSpec => []LedsAreCurrent
<1>1. IInv => LedsAreCurrent
  <2> SUFFICES ASSUME IInv, Quiet
               PROVE  /\ resend => miscounted
                      /\ resend \/ outdated \/ leds = reset
                      /\ opened => user_mode
    BY DEF LedsAreCurrent
  <2>1. /\ tuxIoctl.pc = "idle" /\ Len(to_tux) = 0 /\ Len(to_host) = 0
        /\ ~ResetOnItsWay /\ Wanted = reset
    BY IdleType DEF Quiet, ResetOnItsWay, Wanted
  <2>2. ~miscounted => ack = 0
    BY <2>1 DEF IInv, ProtocolTypeOK, CountInv, Pending
  <2>3. resend => miscounted
    BY <2>1, <2>2 DEF IInv, ResendHasACause
  <2>4. resend \/ outdated \/ leds = reset
    BY <2>1 DEF IInv, LedInv, EndsWith
  <2>5. opened => user_mode
    BY <2>1 DEF IInv, ModeInv
  <2> QED
    BY <2>3, <2>4, <2>5
<1> QED
  BY TuxInvariant, <1>1, PTL
=============================================================================
