---------------------------- MODULE Fish_proofs ----------------------------
(***************************************************************************)
(* The list of Fish, for every size of array and screen, every width of a  *)
(* word and every pair of files: the pointers always form one list of the  *)
(* entries in use, so that Order is that list and what the calls do to the *)
(* pointers is what Blinks does to a sequence.                             *)
(***************************************************************************)
EXTENDS Fish, FiniteSetTheorems, SequenceTheorems, TLAPS

(* A set of naturals with a member has a least one. *)
LEMMA LeastNat ==
  ASSUME NEW T \in SUBSET Nat, T # {}
  PROVE  \E m \in T : \A k \in T : m <= k
  <1> DEFINE R == {p \in Nat \X Nat : p[1] < p[2]}
  <1>1. IsWellFoundedOn(R, Nat)
    BY NatLessThanWellFounded DEF OpToRel
  <1> HIDE DEF R
  <1>2. \E x \in T : \A y \in T : ~ (<<y, x>> \in R)
    BY <1>1, WFMin
  <1>3. ASSUME NEW x \in T, NEW y \in T, ~ (<<y, x>> \in R) PROVE x <= y
    <2>1. x \in Nat /\ y \in Nat /\ ~(y < x)
      BY <1>3 DEF R
    <2>2. QED
      BY <2>1
  <1>4. QED
    BY <1>2, <1>3

(* Min and Max of the numbers up to n that a set has. *)
LEMMA MinIs ==
  ASSUME NEW T \in SUBSET Nat, T # {}
  PROVE  Min(T) \in T /\ \A k \in T : Min(T) <= k
  BY LeastNat DEF Min

LEMMA MaxIs ==
  ASSUME NEW n \in Nat, NEW T \in SUBSET (0 .. n), T # {}
  PROVE  Max(T) \in T /\ \A k \in T : Max(T) >= k
  <1> DEFINE U == {m \in 0 .. n : n - m \in T}
  <1>1. U \in SUBSET Nat /\ U # {}
    <2>1. PICK k \in T : TRUE
      OBVIOUS
    <2>2. k \in 0 .. n
      OBVIOUS
    <2>3. n - k \in 0 .. n /\ n - (n - k) = k
      BY <2>2
    <2>4. n - k \in U
      BY <2>3
    <2>5. U \subseteq 0 .. n
      OBVIOUS
    <2> HIDE DEF U
    <2>6. QED
      BY <2>4, <2>5
  <1>2. PICK m \in U : \A k \in U : m <= k
    <2> HIDE DEF U
    <2>1. QED
      BY <1>1, LeastNat
  <1>3. n - m \in T
    OBVIOUS
  <1>4. ASSUME NEW k \in T PROVE n - m >= k
    <2>1. k \in 0 .. n
      OBVIOUS
    <2>2. n - k \in 0 .. n /\ n - (n - k) = k
      BY <2>1
    <2>3. n - k \in U
      BY <2>2
    <2>4. m <= n - k /\ m \in 0 .. n
      BY <1>2, <2>3
    <2>5. QED
      BY <2>1, <2>4
  <1>5. QED
    BY <1>3, <1>4 DEF Max

-----------------------------------------------------------------------------
(* The pointers form a list of the entries in use: s, in this order. *)
IsList(arr, head, s) ==
  /\ s \in Seq(Nodes)
  /\ \A i, j \in 1 .. Len(s) : s[i] = s[j] => i = j
  /\ head = IF Len(s) = 0 THEN NULL ELSE s[1]
  /\ \A k \in 1 .. Len(s) : arr[s[k]].next = IF k = Len(s) THEN NULL ELSE s[k + 1]
  /\ \A n \in Nodes : arr[n].location # 0 <=> \E k \in 1 .. Len(s) : s[k] = n

FreeAreZeroed(arr) == \A n \in Nodes : arr[n].location = 0 => arr[n] = Zeroed

(* The walk of Order, in any state. *)
WalkOf(arr, w) ==
  w = [n \in 0 .. ArraySize |->
        [i \in Nodes \cup {NULL} |->
            IF n = 0 \/ i = NULL THEN <<>> ELSE <<i>> \o w[n - 1][arr[i].next]]]
OrderOf(arr, head) == (CHOOSE w : WalkOf(arr, w))[ArraySize][head]

LEMMA OrderIsWalk == Order = OrderOf(blink_array, mp1_list_head)
  BY DEF Order, OrderOf, WalkOf

LEMMA Sizes ==
  /\ ArraySize \in Nat /\ ArraySize >= 1 /\ ROWS \in Nat \ {0} /\ COLS \in Nat \ {0}
  /\ OFFSET \in Nat \ {0} /\ WORD \in Nat \ {0}
  /\ SCREEN_SIZE \in Nat
  /\ NULL \notin Nodes /\ Nodes \subseteq Nat /\ IsFiniteSet(Nodes) /\ Cardinality(Nodes) = ArraySize
  <1>1. /\ ArraySize \in Nat \ {0} /\ ROWS \in Nat \ {0} /\ COLS \in Nat \ {0}
        /\ OFFSET \in Nat \ {0} /\ WORD \in Nat \ {0}
    BY FishAssumption
  <1>2. IsFiniteSet(Nodes) /\ Cardinality(Nodes) = ArraySize
    BY <1>1, FS_Interval DEF Nodes
  <1>3. SCREEN_SIZE \in Nat
    BY <1>1 DEF SCREEN_SIZE
  <1>4. QED
    BY <1>1, <1>2, <1>3 DEF Nodes, NULL

(* A list goes through no node twice, so it is no longer than the array. *)
LEMMA ListLength ==
  ASSUME NEW arr, NEW head, NEW s, IsList(arr, head, s)
  PROVE  /\ Len(s) \in Nat /\ Len(s) <= ArraySize /\ DOMAIN s = 1 .. Len(s)
         /\ \A k \in 1 .. Len(s) : s[k] \in Nodes
         /\ IsFiniteSet({s[k] : k \in DOMAIN s}) /\ Cardinality({s[k] : k \in DOMAIN s}) = Len(s)
  <1>1. Len(s) \in Nat /\ DOMAIN s = 1 .. Len(s) /\ s \in [1 .. Len(s) -> Nodes]
    BY LenProperties DEF IsList
  <1> DEFINE n == Len(s)
             T == {s[k] : k \in DOMAIN s}
  <1>2. IsFiniteSet(1 .. n) /\ Cardinality(1 .. n) = n
    <2>1. n \in Nat
      BY <1>1
    <2> HIDE DEF n
    <2>2. 1 \in Int /\ n \in Int /\ (IF 1 > n THEN 0 ELSE n - 1 + 1) = n
      BY <2>1
    <2>3. QED
      BY <2>2, FS_Interval
  <1>3. T \subseteq Nodes /\ s \in [1 .. n -> T] /\ \A x \in T : \E k \in 1 .. n : s[k] = x
    BY <1>1
  <1>4. s \in Bijection(1 .. n, T)
    <2>1. \A i, j \in 1 .. n : s[i] = s[j] => i = j
      BY DEF IsList
    <2> HIDE DEF n, T
    <2>2. QED
      BY <1>3, <2>1 DEF Bijection, Injection, Surjection, IsInjective
  <1>5. IsFiniteSet(T) /\ Cardinality(T) = n
    <2> HIDE DEF n, T
    <2>1. ExistsBijection(1 .. n, T)
      BY <1>4 DEF ExistsBijection
    <2>2. QED
      BY <1>2, <2>1, FS_Bijection
  <1>6. n <= ArraySize
    <2> HIDE DEF n, T
    <2>1. Cardinality(T) <= Cardinality(Nodes)
      BY <1>3, Sizes, FS_Subset
    <2>2. QED
      BY <1>5, <2>1, Sizes
  <1>7. QED
    BY <1>1, <1>5, <1>6

(* Order finds the list. *)
LEMMA OrderFinds ==
  ASSUME NEW arr, NEW head, NEW s, IsList(arr, head, s), FreeAreZeroed(arr)
  PROVE  OrderOf(arr, head) = s
  <1> DEFINE L == Len(s)
             place(i) == CHOOSE k \in 1 .. L : s[k] = i
             end(n, k) == IF n <= L + 1 - k THEN k + n - 1 ELSE L
             part(n, k) == SubSeq(s, k, end(n, k))
             val(n, i) == IF n = 0 \/ i = NULL THEN <<>>
                          ELSE IF \E k \in 1 .. L : s[k] = i THEN part(n, place(i)) ELSE <<i>>
             g == [n \in 0 .. ArraySize |-> [i \in Nodes \cup {NULL} |-> val(n, i)]]
  <1>1. L \in Nat /\ L <= ArraySize /\ DOMAIN s = 1 .. L /\ \A k \in 1 .. L : s[k] \in Nodes
    BY ListLength
  <1>2. \A i, j \in 1 .. L : s[i] = s[j] => i = j
    BY DEF IsList
  <1>3. \A k \in 1 .. L : place(s[k]) = k
    BY <1>2
  <1>5. ASSUME NEW n \in 1 .. ArraySize, NEW i \in Nodes
        PROVE  arr[i].next \in Nodes \cup {NULL} /\ val(n, i) = <<i>> \o val(n - 1, arr[i].next)
    <2>1. CASE \E k \in 1 .. L : s[k] = i
      <3>1. PICK k \in 1 .. L : s[k] = i
        BY <2>1
      <3>2. val(n, i) = part(n, k)
        <4>1. place(i) = k /\ n # 0 /\ i # NULL
          BY <1>3, <3>1, Sizes
        <4> HIDE DEF place, part
        <4>2. QED
          BY <2>1, <4>1
      <3>3. end(n, k) \in k .. L /\ k \in 1 .. L /\ n \in Nat /\ n >= 1
        BY <1>1, Sizes
      <3>4. part(n, k) = <<i>> \o SubSeq(s, k + 1, end(n, k))
        <4> HIDE DEF end
        <4>1. s \in Seq(Nodes)
          BY DEF IsList
        <4>2. QED
          BY <3>1, <3>3, <4>1, SubSeqRecursiveFirst
      <3>5. CASE k = L
        <4>1. arr[i].next = NULL /\ val(n - 1, NULL) = <<>>
          BY <3>1, <3>5 DEF IsList
        <4>2. end(n, k) = L
          BY <1>1, <3>3, <3>5
        <4>3. SubSeq(s, k + 1, L) = <<>>
          BY <1>1, <3>5, SubSeqEmpty
        <4> HIDE DEF val, end
        <4>4. QED
          BY <3>2, <3>4, <3>5, <4>1, <4>2, <4>3
      <3>6. CASE k # L
        <4>0. k + 1 \in 1 .. L
          <5>1. L \in Nat
            BY <1>1
          <5> HIDE DEF L
          <5>2. QED
            BY <3>6, <5>1
        <4>1. k + 1 \in 1 .. L /\ arr[i].next = s[k + 1] /\ s[k + 1] \in Nodes
          <5>1. arr[s[k]].next = s[k + 1]
            BY <3>6 DEF IsList
          <5> HIDE DEF L
          <5>2. QED
            BY <1>1, <3>1, <4>0, <5>1
        <4>2. val(n - 1, s[k + 1]) = SubSeq(s, k + 1, end(n, k))
          <5>1. CASE n = 1
            <6>1. end(n, k) = k /\ k < k + 1 /\ k \in Int
              BY <1>1, <3>3, <5>1
            <6>2. SubSeq(s, k + 1, k) = <<>>
              BY <6>1, SubSeqEmpty
            <6>3. val(n - 1, s[k + 1]) = <<>>
              BY <5>1
            <6>4. QED
              BY <6>1, <6>2, <6>3
          <5>2. CASE n # 1
            <6>1. val(n - 1, s[k + 1]) = part(n - 1, k + 1)
              <7>1. place(s[k + 1]) = k + 1 /\ n - 1 # 0 /\ s[k + 1] # NULL
                BY <1>3, <3>3, <4>1, <5>2, Sizes
              <7> HIDE DEF place, part
              <7>2. QED
                BY <4>1, <7>1
            <6>2. end(n - 1, k + 1) = end(n, k)
              BY <1>1, <3>3
            <6>3. QED
              BY <6>1, <6>2
          <5>3. QED
            BY <5>1, <5>2
        <4>3. QED
          BY <3>2, <3>4, <4>1, <4>2
      <3>7. QED
        BY <3>5, <3>6
    <2>2. CASE ~ \E k \in 1 .. L : s[k] = i
      <3>1. arr[i].next = NULL
        <4>1. arr[i].location = 0
          BY <2>2 DEF IsList
        <4>2. arr[i] = Zeroed
          BY <4>1 DEF FreeAreZeroed
        <4>3. QED
          BY <4>2 DEF Zeroed
      <3>2. i # NULL /\ n # 0 /\ val(n, i) = <<i>> /\ val(n - 1, NULL) = <<>>
        BY <2>2, Sizes
      <3>4. <<i>> \o <<>> = <<i>>
        <4> DEFINE u == <<i>>
        <4>1. u \in Seq(Nodes)
          OBVIOUS
        <4> HIDE DEF u
        <4>2. u \o <<>> = u
          BY <4>1, ConcatEmptySeq, Zenon
        <4>3. QED
          BY <4>2 DEF u
      <3>5. QED
        BY <3>1, <3>2, <3>4
    <2>3. QED
      BY <2>1, <2>2
  <1>6. WalkOf(arr, g)
    <2> DEFINE body(n, i) == IF n = 0 \/ i = NULL THEN <<>> ELSE <<i>> \o g[n - 1][arr[i].next]
    <2>1. ASSUME NEW n \in 0 .. ArraySize, NEW i \in Nodes \cup {NULL}
          PROVE  val(n, i) = body(n, i)
      <3>1. CASE n = 0 \/ i = NULL
        BY <3>1
      <3>2. CASE ~(n = 0 \/ i = NULL)
        <4>1. n \in 1 .. ArraySize /\ i \in Nodes /\ n - 1 \in 0 .. ArraySize
          BY <3>2, Sizes
        <4>2. arr[i].next \in Nodes \cup {NULL} /\ val(n, i) = <<i>> \o val(n - 1, arr[i].next)
          BY <1>5, <4>1
        <4>3. g[n - 1][arr[i].next] = val(n - 1, arr[i].next)
          <5> HIDE DEF val
          <5>1. QED
            BY <4>1, <4>2
        <4> HIDE DEF val
        <4>4. QED
          BY <3>2, <4>2, <4>3, Zenon
      <3>3. QED
        BY <3>1, <3>2, Zenon
    <2>2. g = [n \in 0 .. ArraySize |-> [i \in Nodes \cup {NULL} |-> body(n, i)]]
      <3> HIDE DEF val, body
      <3>1. QED
        BY <2>1, Zenon
    <2> HIDE DEF g
    <2>3. QED
      BY <2>2 DEF WalkOf
  <1>7. ASSUME NEW w, WalkOf(arr, w), NEW n \in 0 .. ArraySize PROVE w[n] = g[n]
    <2> HIDE DEF g
    <2> DEFINE Bad == {m \in 0 .. ArraySize : w[m] # g[m]}
    <2>1. SUFFICES ASSUME Bad # {} PROVE FALSE
      OBVIOUS
    <2>2. PICK m \in Bad : \A k \in Bad : m <= k
      <3>1. Bad \in SUBSET Nat
        <4>1. 0 .. ArraySize \subseteq Nat
          BY Sizes
        <4>2. QED
          BY <4>1
      <3> HIDE DEF Bad
      <3>2. QED
        BY <2>1, <3>1, LeastNat
    <2>3. ASSUME NEW v, WalkOf(arr, v)
          PROVE  v[m] = [i \in Nodes \cup {NULL} |->
                           IF m = 0 \/ i = NULL THEN <<>> ELSE <<i>> \o v[m - 1][arr[i].next]]
      BY <2>3, Zenon DEF WalkOf
    <2>4. m = 0 \/ w[m - 1] = g[m - 1]
      <3>1. m \in 0 .. ArraySize
        OBVIOUS
      <3>2. SUFFICES ASSUME m # 0, w[m - 1] # g[m - 1] PROVE FALSE
        OBVIOUS
      <3>3. m - 1 \in Bad
        BY <3>1, <3>2, Sizes
      <3>4. m <= m - 1
        BY <2>2, <3>3
      <3>5. QED
        BY <3>1, <3>4, Sizes
    <2>7. w[m] = [i \in Nodes \cup {NULL} |->
                     IF m = 0 \/ i = NULL THEN <<>> ELSE <<i>> \o w[m - 1][arr[i].next]]
      BY <1>7, <2>3
    <2>8. g[m] = [i \in Nodes \cup {NULL} |->
                     IF m = 0 \/ i = NULL THEN <<>> ELSE <<i>> \o g[m - 1][arr[i].next]]
      BY <1>6, <2>3
    <2>5. w[m] = g[m]
      BY <2>4, <2>7, <2>8
    <2>6. QED
      BY <2>5
  <1>8. OrderOf(arr, head) = g[ArraySize][head]
    <2>1. PICK w : WalkOf(arr, w) /\ OrderOf(arr, head) = w[ArraySize][head]
      <3> HIDE DEF g
      <3>1. QED
        BY <1>6 DEF OrderOf
    <2>2. QED
      <3> HIDE DEF g
      <3>1. QED
        BY <1>7, <2>1, Sizes
  <1>9. head \in Nodes \cup {NULL} /\ val(ArraySize, head) = s
    <2>1. CASE L = 0
      <3>1. head = NULL /\ s = <<>>
        BY <2>1, EmptySeq DEF IsList
      <3>2. QED
        BY <3>1, Zenon
    <2>2. CASE L # 0
      <3>0. 1 \in 1 .. L
        BY <1>1, <2>2
      <3>1. head = s[1] /\ s[1] \in Nodes
        <4> HIDE DEF val, place, part, end, g
        <4>1. QED
          BY <1>1, <2>2, <3>0, Zenon DEF IsList
      <3>2. val(ArraySize, head) = part(ArraySize, 1)
        <4>1. place(s[1]) = 1
          BY <1>3, <3>0
        <4>0. ArraySize # 0 /\ s[1] # NULL
          BY <3>1, Sizes
        <4> HIDE DEF place, part
        <4>2. QED
          BY <3>0, <3>1, <4>0, <4>1
      <3>3. end(ArraySize, 1) = L
        <4>1. L \in Nat /\ L <= ArraySize /\ ArraySize \in Nat
          BY <1>1, Sizes
        <4> HIDE DEF L
        <4>2. QED
          BY <4>1
      <3>4. SubSeq(s, 1, L) = s
        BY SubSeqFull DEF IsList
      <3>5. QED
        BY <3>1, <3>2, <3>3, <3>4
    <2>3. QED
      BY <2>1, <2>2
  <1>10. QED
    <2> HIDE DEF val
    <2>1. QED
      BY <1>8, <1>9, Sizes

-----------------------------------------------------------------------------
(* What the calls do to the list. *)

Without(s, k) == SubSeq(s, 1, k - 1) \o SubSeq(s, k + 1, Len(s))

LEMMA WithoutIs ==
  ASSUME NEW S, NEW s \in Seq(S), NEW k \in 1 .. Len(s)
  PROVE  /\ Without(s, k) \in Seq(S)
         /\ Len(Without(s, k)) = Len(s) - 1
         /\ \A j \in 1 .. (Len(s) - 1) : Without(s, k)[j] = IF j < k THEN s[j] ELSE s[j + 1]
  <1> DEFINE L == Len(s)
             a == SubSeq(s, 1, k - 1)
             b == SubSeq(s, k + 1, L)
  <1>1. L \in Nat /\ k \in 1 .. L /\ \A j \in 1 .. L : s[j] \in S
    BY LenProperties, ElementOfSeq
  <1> HIDE DEF L
  <1>2. a \in Seq(S) /\ Len(a) = k - 1 /\ \A j \in 1 .. (k - 1) : a[j] = s[j]
    <2>1. \A i \in 1 .. k - 1 : s[i] \in S
      BY <1>1
    <2>2. 1 \in Int /\ k - 1 \in Int
      BY <1>1
    <2>3. /\ a \in Seq(S)
          /\ Len(a) = IF 1 <= k - 1 THEN k - 1 - 1 + 1 ELSE 0
          /\ \A i \in 1 .. k - 1 - 1 + 1 : a[i] = s[1 + i - 1]
      BY <2>1, <2>2, SubSeqProperties
    <2> HIDE DEF a
    <2>4. QED
      BY <1>1, <2>3
  <1>3. b \in Seq(S) /\ Len(b) = L - k /\ \A j \in 1 .. (L - k) : b[j] = s[k + j]
    <2>1. \A i \in k + 1 .. L : s[i] \in S
      BY <1>1
    <2>2. k + 1 \in Int /\ L \in Int
      BY <1>1
    <2>3. /\ b \in Seq(S)
          /\ Len(b) = IF k + 1 <= L THEN L - (k + 1) + 1 ELSE 0
          /\ \A i \in 1 .. L - (k + 1) + 1 : b[i] = s[k + 1 + i - 1]
      BY <2>1, <2>2, SubSeqProperties
    <2> HIDE DEF b
    <2>4. Len(b) = L - k
      BY <1>1, <2>3
    <2>5. ASSUME NEW j \in 1 .. (L - k) PROVE b[j] = s[k + j]
      <3>1. j \in 1 .. L - (k + 1) + 1 /\ k + 1 + j - 1 = k + j
        BY <1>1
      <3>2. QED
        BY <2>3, <3>1
    <2>6. QED
      BY <2>3, <2>4, <2>5
  <1>4. /\ a \o b \in Seq(S)
        /\ Len(a \o b) = Len(a) + Len(b)
        /\ \A j \in 1 .. Len(a) + Len(b) : (a \o b)[j] = IF j <= Len(a) THEN a[j] ELSE b[j - Len(a)]
    <2> HIDE DEF a, b
    <2>1. QED
      BY <1>2, <1>3, ConcatProperties
  <1>5. Without(s, k) = a \o b
    BY DEF Without, L
  <1>6. ASSUME NEW j \in 1 .. (L - 1) PROVE (a \o b)[j] = IF j < k THEN s[j] ELSE s[j + 1]
    <2> HIDE DEF a, b
    <2>1. j \in 1 .. Len(a) + Len(b)
      BY <1>1, <1>2, <1>3
    <2>2. CASE j < k
      <3>1. j <= Len(a) /\ j \in 1 .. (k - 1)
        BY <1>1, <1>2, <2>2
      <3>2. QED
        BY <1>2, <1>4, <2>1, <2>2, <3>1
    <2>3. CASE ~(j < k)
      <3>1. ~(j <= Len(a)) /\ j - Len(a) = j - k + 1 /\ j - k + 1 \in 1 .. (L - k) /\ k + (j - k + 1) = j + 1
        BY <1>1, <1>2, <2>3
      <3>2. QED
        BY <1>2, <1>3, <1>4, <2>1, <2>3, <3>1
    <2>4. QED
      BY <2>2, <2>3
  <1>7. Len(a \o b) = L - 1
    <2> HIDE DEF a, b
    <2>1. QED
      BY <1>1, <1>2, <1>3, <1>4
  <1>8. QED
    <2> HIDE DEF a, b
    <2>1. QED
      BY <1>4, <1>5, <1>6, <1>7 DEF L

LEMMA FrontIs ==
  ASSUME NEW S, NEW s \in Seq(S), NEW n \in S
  PROVE  /\ <<n>> \o s \in Seq(S)
         /\ Len(<<n>> \o s) = Len(s) + 1
         /\ (<<n>> \o s)[1] = n
         /\ \A j \in 2 .. Len(s) + 1 : (<<n>> \o s)[j] = s[j - 1]
  <1>1. <<n>> \in Seq(S) /\ Len(<<n>>) = 1 /\ <<n>>[1] = n
    OBVIOUS
  <1>2. Len(s) \in Nat
    BY LenProperties
  <1>3. /\ <<n>> \o s \in Seq(S)
        /\ Len(<<n>> \o s) = Len(<<n>>) + Len(s)
        /\ \A j \in 1 .. Len(<<n>>) + Len(s) :
              (<<n>> \o s)[j] = IF j <= Len(<<n>>) THEN <<n>>[j] ELSE s[j - Len(<<n>>)]
    BY <1>1, ConcatProperties
  <1> DEFINE L == Len(s)
             t == <<n>> \o s
  <1>4. \A j \in 1 .. 1 + L : t[j] = IF j <= 1 THEN <<n>>[j] ELSE s[j - 1]
    <2> HIDE DEF t
    <2>1. QED
      BY <1>1, <1>3 DEF t
  <1>5. 1 \in 1 .. 1 + L /\ Len(t) = L + 1
    BY <1>1, <1>2, <1>3
  <1>6. t[1] = n
    <2> HIDE DEF t, L
    <2>1. QED
      BY <1>1, <1>4, <1>5
  <1>7. ASSUME NEW j \in 2 .. L + 1 PROVE t[j] = s[j - 1]
    <2>1. L \in Nat
      BY <1>2
    <2> HIDE DEF t, L
    <2>2. j \in 1 .. 1 + L /\ ~(j <= 1)
      BY <2>1
    <2>3. QED
      BY <1>4, <2>2
  <1>8. QED
    BY <1>3, <1>5, <1>6, <1>7

(* A new entry goes in front of the list. *)
LEMMA AddList ==
  ASSUME NEW arr, NEW head, NEW s, IsList(arr, head, s),
         NEW arr2, NEW n \in Nodes, arr[n].location = 0,
         arr2[n].location # 0, arr2[n].next = head, \A m \in Nodes : m # n => arr2[m] = arr[m]
  PROVE  IsList(arr2, n, <<n>> \o s)
  <1> DEFINE t == <<n>> \o s
             L == Len(s)
  <1>1. s \in Seq(Nodes) /\ L \in Nat /\ \A k \in 1 .. L : s[k] \in Nodes /\ s[k] # n
    BY ListLength DEF IsList
  <1>2. /\ t \in Seq(Nodes) /\ Len(t) = L + 1 /\ t[1] = n
        /\ \A j \in 2 .. L + 1 : t[j] = s[j - 1]
    BY <1>1, FrontIs
  <1>3. /\ \A i, j \in 1 .. L : s[i] = s[j] => i = j
        /\ head = IF L = 0 THEN NULL ELSE s[1]
        /\ \A k \in 1 .. L : arr[s[k]].next = IF k = L THEN NULL ELSE s[k + 1]
        /\ \A m \in Nodes : arr[m].location # 0 <=> \E k \in 1 .. L : s[k] = m
    BY DEF IsList
  <1> HIDE DEF t, L
  <1>4. ASSUME NEW i \in 1 .. L + 1, NEW j \in 1 .. L + 1, t[i] = t[j] PROVE i = j
    <2>1. \A a \in 2 .. L + 1 : a - 1 \in 1 .. L /\ t[a] = s[a - 1] /\ t[a] # n
      BY <1>1, <1>2
    <2>2. CASE i = 1 \/ j = 1
      BY <1>1, <1>2, <1>4, <2>1, <2>2
    <2>3. CASE i # 1 /\ j # 1
      <3>1. i \in 2 .. L + 1 /\ j \in 2 .. L + 1
        BY <1>1, <2>3
      <3>2. s[i - 1] = s[j - 1] /\ i - 1 \in 1 .. L /\ j - 1 \in 1 .. L
        BY <1>4, <2>1, <3>1
      <3>3. i - 1 = j - 1
        BY <1>3, <3>2
      <3>4. QED
        BY <3>1, <3>3
    <2>4. QED
      BY <2>2, <2>3
  <1>5. ASSUME NEW k \in 1 .. L + 1 PROVE arr2[t[k]].next = IF k = L + 1 THEN NULL ELSE t[k + 1]
    <2>1. CASE k = 1
      <3>1. arr2[t[k]].next = head
        BY <1>2, <2>1
      <3>2. L # 0 => t[2] = s[1]
        <4>1. L # 0 => 2 \in 2 .. L + 1 /\ 2 - 1 = 1
          BY <1>1
        <4>2. QED
          BY <1>2, <4>1
      <3>3. QED
        BY <1>1, <1>3, <2>1, <3>1, <3>2
    <2>2. CASE k # 1
      <3>1. k \in 2 .. L + 1 /\ k - 1 \in 1 .. L /\ (k - 1 = L <=> k = L + 1) /\ k - 1 + 1 = k
        BY <1>1, <2>2
      <3>2. t[k] = s[k - 1] /\ s[k - 1] # n /\ s[k - 1] \in Nodes
        BY <1>1, <1>2, <3>1
      <3>3. arr2[t[k]].next = IF k = L + 1 THEN NULL ELSE s[k]
        BY <1>3, <3>1, <3>2
      <3>4. k # L + 1 => t[k + 1] = s[k]
        <4>1. k # L + 1 => k + 1 \in 2 .. L + 1 /\ k + 1 - 1 = k
          BY <1>1, <3>1
        <4>2. QED
          BY <1>2, <4>1
      <3>5. QED
        BY <3>3, <3>4
    <2>3. QED
      BY <2>1, <2>2
  <1>6. ASSUME NEW m \in Nodes PROVE arr2[m].location # 0 <=> \E k \in 1 .. L + 1 : t[k] = m
    <2>1. CASE m = n
      <3>1. 1 \in 1 .. L + 1
        BY <1>1
      <3>2. QED
        BY <1>2, <2>1, <3>1
    <2>2. CASE m # n
      <3>1. arr2[m].location # 0 <=> \E k \in 1 .. L : s[k] = m
        BY <1>3, <2>2
      <3>2. ASSUME NEW k \in 1 .. L, s[k] = m PROVE \E j \in 1 .. L + 1 : t[j] = m
        <4>1. k + 1 \in 2 .. L + 1 /\ k + 1 - 1 = k /\ k + 1 \in 1 .. L + 1
          BY <1>1
        <4>2. QED
          BY <1>2, <3>2, <4>1
      <3>3. ASSUME NEW k \in 1 .. L + 1, t[k] = m PROVE \E j \in 1 .. L : s[j] = m
        <4>1. k # 1
          BY <1>2, <2>2, <3>3
        <4>2. k \in 2 .. L + 1 /\ k - 1 \in 1 .. L
          BY <1>1, <4>1
        <4>3. QED
          BY <1>2, <3>3, <4>2
      <3>4. QED
        BY <3>1, <3>2, <3>3
    <2>3. QED
      BY <2>1, <2>2
  <1>7. n = IF L + 1 = 0 THEN NULL ELSE t[1]
    BY <1>1, <1>2
  <1>8. IsList(arr2, n, t)
    BY <1>2, <1>4, <1>5, <1>6, <1>7 DEF IsList
  <1>9. QED
    BY <1>8 DEF t

(* An entry is cut out of the list: the pointer that led to it leads on. *)
LEMMA RemoveList ==
  ASSUME NEW arr, NEW head, NEW s, IsList(arr, head, s),
         NEW arr2, NEW head2, NEW k \in 1 .. Len(s),
         arr2[s[k]].location = 0,
         \A m \in Nodes : m # s[k] =>
            /\ arr2[m].location = arr[m].location
            /\ arr[m].location # 0 =>
                 arr2[m].next = IF arr[m].next = s[k] THEN arr[s[k]].next ELSE arr[m].next,
         head2 = IF head = s[k] THEN arr[s[k]].next ELSE head
  PROVE  IsList(arr2, head2, Without(s, k))
  <1> DEFINE t == Without(s, k)
             L == Len(s)
             ix(j) == IF j < k THEN j ELSE j + 1
  <1>1. s \in Seq(Nodes) /\ L \in Nat /\ \A j \in 1 .. L : s[j] \in Nodes
    BY ListLength DEF IsList
  <1>2. /\ t \in Seq(Nodes) /\ Len(t) = L - 1
        /\ \A j \in 1 .. (L - 1) : t[j] = IF j < k THEN s[j] ELSE s[j + 1]
    BY <1>1, WithoutIs
  <1>3. /\ \A i, j \in 1 .. L : s[i] = s[j] => i = j
        /\ head = IF L = 0 THEN NULL ELSE s[1]
        /\ \A j \in 1 .. L : arr[s[j]].next = IF j = L THEN NULL ELSE s[j + 1]
        /\ \A m \in Nodes : arr[m].location # 0 <=> \E j \in 1 .. L : s[j] = m
    BY DEF IsList
  <1>4. k \in 1 .. L /\ s[k] \in Nodes
    BY <1>1
  <1> HIDE DEF t, L
  <1>5. ASSUME NEW j \in 1 .. (L - 1)
        PROVE  ix(j) \in 1 .. L /\ ix(j) # k /\ t[j] = s[ix(j)] /\ s[ix(j)] # s[k]
    <2>1. ix(j) \in 1 .. L /\ ix(j) # k
      BY <1>1, <1>4
    <2>2. t[j] = s[ix(j)]
      BY <1>2
    <2> HIDE DEF ix
    <2>3. QED
      BY <1>3, <1>4, <2>1, <2>2
  <1>6. ASSUME NEW i \in 1 .. (L - 1), NEW j \in 1 .. (L - 1), t[i] = t[j] PROVE i = j
    <2>1. ix(i) = ix(j)
      <3> HIDE DEF ix
      <3>1. QED
        BY <1>3, <1>5, <1>6
    <2>2. QED
      BY <1>1, <1>4, <2>1
  <1>7. ASSUME NEW j \in 1 .. (L - 1) PROVE arr2[t[j]].next = IF j = L - 1 THEN NULL ELSE t[j + 1]
    <2> DEFINE x == ix(j)
    <2>1. x \in 1 .. L /\ x # k /\ t[j] = s[x] /\ s[x] # s[k] /\ s[x] \in Nodes
      BY <1>1, <1>5
    <2>2. x = IF j < k THEN j ELSE j + 1
      OBVIOUS
    <2> HIDE DEF x, ix
    <2>3. arr[s[x]].next = IF x = L THEN NULL ELSE s[x + 1]
      BY <1>3, <2>1
    <2>4. arr[s[k]].next = IF k = L THEN NULL ELSE s[k + 1]
      BY <1>3, <1>4
    <2>5. arr[s[x]].location # 0
      BY <1>3, <2>1
    <2>6. arr2[t[j]].next = IF arr[s[x]].next = s[k] THEN arr[s[k]].next ELSE arr[s[x]].next
      BY <2>1, <2>5
    <2>7. arr[s[x]].next = s[k] <=> x + 1 = k
      <3>1. CASE x = L
        <4>1. arr[s[x]].next = NULL /\ s[k] # NULL /\ x + 1 # k
          BY <1>1, <1>4, <2>3, <3>1, Sizes
        <4>2. QED
          BY <4>1
      <3>2. CASE x # L
        <4>1. x + 1 \in 1 .. L /\ arr[s[x]].next = s[x + 1]
          BY <1>1, <2>1, <2>3, <3>2
        <4>2. QED
          BY <1>3, <1>4, <4>1
      <3>3. QED
        BY <3>1, <3>2
    <2>8. CASE x + 1 = k
      <3>1. j = x /\ j < k /\ (j = L - 1 <=> k = L)
        BY <1>1, <1>4, <2>1, <2>2, <2>8
      <3>2. arr2[t[j]].next = IF k = L THEN NULL ELSE s[k + 1]
        BY <2>4, <2>6, <2>7, <2>8
      <3>3. k # L => j + 1 \in 1 .. (L - 1) /\ ~(j + 1 < k) /\ j + 1 + 1 = k + 1
        BY <1>1, <1>4, <2>8, <3>1
      <3>4. k # L => t[j + 1] = s[k + 1]
        BY <1>2, <3>3
      <3>5. QED
        BY <3>1, <3>2, <3>4
    <2>9. CASE x + 1 # k
      <3>1. x = L <=> j = L - 1
        BY <1>1, <1>4, <2>1, <2>2, <2>9
      <3>2. arr2[t[j]].next = IF x = L THEN NULL ELSE s[x + 1]
        BY <2>3, <2>6, <2>7, <2>9
      <3>3. x # L => j + 1 \in 1 .. (L - 1) /\ (IF j + 1 < k THEN j + 1 ELSE j + 1 + 1) = x + 1
        BY <1>1, <1>4, <2>1, <2>2, <2>9
      <3>4. x # L => t[j + 1] = s[x + 1]
        BY <1>2, <3>3
      <3>5. QED
        BY <3>1, <3>2, <3>4
    <2>10. QED
      BY <2>8, <2>9
  <1>8. ASSUME NEW m \in Nodes PROVE arr2[m].location # 0 <=> \E j \in 1 .. (L - 1) : t[j] = m
    <2>1. CASE m = s[k]
      <3>1. \A j \in 1 .. (L - 1) : t[j] # m
        <4> HIDE DEF ix
        <4>1. QED
          BY <1>5, <2>1
      <3>2. QED
        BY <2>1, <3>1
    <2>2. CASE m # s[k]
      <3>1. arr2[m].location # 0 <=> \E j \in 1 .. L : s[j] = m
        BY <1>3, <2>2
      <3>2. ASSUME NEW i \in 1 .. L, s[i] = m PROVE \E j \in 1 .. (L - 1) : t[j] = m
        <4>1. i # k
          BY <2>2, <3>2
        <4>2. CASE i < k
          <5>1. i \in 1 .. (L - 1)
            BY <1>1, <1>4, <4>2
          <5>2. QED
            BY <1>2, <3>2, <4>2, <5>1
        <4>3. CASE i > k
          <5>1. i - 1 \in 1 .. (L - 1) /\ ~(i - 1 < k) /\ i - 1 + 1 = i
            BY <1>1, <1>4, <4>3
          <5>2. QED
            BY <1>2, <3>2, <5>1
        <4>4. QED
          BY <1>1, <1>4, <4>1, <4>2, <4>3
      <3>3. ASSUME NEW j \in 1 .. (L - 1), t[j] = m PROVE \E i \in 1 .. L : s[i] = m
        <4> HIDE DEF ix
        <4>1. QED
          BY <1>5, <3>3
      <3>4. QED
        BY <3>1, <3>2, <3>3
    <2>3. QED
      BY <2>1, <2>2
  <1>9. head2 = IF L - 1 = 0 THEN NULL ELSE t[1]
    <2>1. head = s[1] /\ 1 \in 1 .. L
      BY <1>1, <1>3, <1>4
    <2>2. head = s[k] <=> k = 1
      BY <1>3, <1>4, <2>1
    <2>3. CASE k = 1
      <3>1. head2 = IF L = 1 THEN NULL ELSE s[2]
        BY <1>3, <1>4, <2>2, <2>3
      <3>2. L # 1 => 1 \in 1 .. (L - 1) /\ ~(1 < k)
        BY <1>1, <1>4, <2>3
      <3>3. L # 1 => t[1] = s[2]
        BY <1>2, <3>2
      <3>4. QED
        BY <1>1, <3>1, <3>3
    <2>4. CASE k # 1
      <3>1. 1 \in 1 .. (L - 1) /\ 1 < k
        BY <1>1, <1>4, <2>4
      <3>2. t[1] = s[1]
        BY <1>2, <3>1
      <3>3. QED
        BY <1>1, <2>1, <2>2, <2>4, <3>1, <3>2
    <2>5. QED
      BY <2>3, <2>4
  <1>10. QED
    <2>1. IsList(arr2, head2, t)
      <3> HIDE DEF ix
      <3>1. QED
        BY <1>2, <1>6, <1>7, <1>8, <1>9 DEF IsList
    <2>2. QED
      BY <2>1 DEF t

(* A list stays as it is when no pointer and no location changes. *)
LEMMA KeepList ==
  ASSUME NEW arr, NEW head, NEW s, IsList(arr, head, s),
         NEW arr2, \A m \in Nodes : arr2[m].location = arr[m].location /\ arr2[m].next = arr[m].next
  PROVE  IsList(arr2, head, s)
  <1>1. \A k \in 1 .. Len(s) : s[k] \in Nodes
    BY ListLength
  <1>2. QED
    BY <1>1 DEF IsList

-----------------------------------------------------------------------------
(* The inductive invariant of the calls: the pointers are the list that     *)
(* Order walks, freed entries are clear, and where two blinks share a place *)
(* it counts as doubtful until the one that stays has drawn again.          *)
SharedAreDoubtful ==
  \A m, n \in Linked :
     m # n /\ blink_array[m].location = blink_array[n].location => blink_array[m].location \in doubtful

FishInv ==
  /\ TypeOK
  /\ IsList(blink_array, mp1_list_head, Order)
  /\ FreeAreZeroed(blink_array)
  /\ SharedAreDoubtful
  /\ ScreenShowsBlinks

Entries ==
  [location : Locations, on_char : Shades, off_char : Shades, on_length : Words,
   off_length : Words, countdown : Words, status : {0, 1}, next : Nodes \cup {NULL}]

UsedIn(arr) == {n \in Nodes : arr[n].location # 0}

LEMMA WordsAre ==
  /\ WORD \in Nat /\ WORD > 0 /\ 0 \in Words /\ Words \subseteq Nat /\ FRAME_LENGTH \in Words
  /\ WORD \div 2 \in Nat /\ WORD = 2 * (WORD \div 2) /\ 0 \in Locations
  <1>1. WORD \in Nat \ {0} /\ WORD % 2 = 0 /\ FRAME_LENGTH \in Words
    BY FishAssumption
  <1>2. SCREEN_SIZE \in Nat \ {0}
    <2>1. \A a, b \in Nat \ {0} : a * b \in Nat \ {0}
      OBVIOUS
    <2>2. QED
      BY <2>1, Sizes DEF SCREEN_SIZE
  <1>3. WORD \div 2 \in Nat /\ WORD = 2 * (WORD \div 2)
    BY <1>1
  <1>4. QED
    BY <1>1, <1>2, <1>3 DEF Words, Locations

LEMMA ZeroedIsEntry == Zeroed \in Entries
  BY WordsAre DEF Zeroed, Entries, Shades

(* What the walk finds, now and after a step. *)
LEMMA ListIs ==
  ASSUME FishInv
  PROVE  /\ Order \in Seq(Nodes) /\ Len(Order) \in Nat /\ Len(Order) <= ArraySize
         /\ DOMAIN Order = 1 .. Len(Order)
         /\ \A k \in 1 .. Len(Order) : Order[k] \in Nodes /\ Order[k] \in Linked
         /\ \A i, j \in 1 .. Len(Order) : Order[i] = Order[j] => i = j
         /\ Linked = UsedIn(blink_array) /\ \A n \in Linked : \E k \in 1 .. Len(Order) : Order[k] = n
         /\ blink_array \in [Nodes -> Entries]
  <1>1. IsList(blink_array, mp1_list_head, Order)
    BY DEF FishInv
  <1>2. Len(Order) \in Nat /\ Len(Order) <= ArraySize /\ DOMAIN Order = 1 .. Len(Order)
        /\ \A k \in 1 .. Len(Order) : Order[k] \in Nodes
    BY <1>1, ListLength
  <1>3. Linked = {Order[k] : k \in DOMAIN Order}
    BY DEF Linked
  <1>4. Linked = UsedIn(blink_array)
    <2>1. \A n \in Nodes : blink_array[n].location # 0 <=> \E k \in 1 .. Len(Order) : Order[k] = n
      BY <1>1 DEF IsList
    <2>2. QED
      BY <1>2, <1>3, <2>1 DEF UsedIn
  <1>5. Order \in Seq(Nodes) /\ \A i, j \in 1 .. Len(Order) : Order[i] = Order[j] => i = j
    BY <1>1 DEF IsList
  <1>6. blink_array \in [Nodes -> Entries]
    BY DEF FishInv, TypeOK, Entries
  <1>7. /\ \A k \in 1 .. Len(Order) : Order[k] \in Linked
        /\ \A n \in Linked : \E k \in 1 .. Len(Order) : Order[k] = n
    BY <1>2, <1>3
  <1>8. QED
    BY <1>2, <1>4, <1>5, <1>6, <1>7

(* The types that the calls start from, with the list as the walk finds it. *)
LEMMA ListParts ==
  ASSUME FishInv
  PROVE  /\ Order \in Seq(Nodes) /\ Linked = UsedIn(blink_array)
         /\ blink_array \in [Nodes -> Entries] /\ mp1_list_head \in Nodes \cup {NULL}
         /\ video \in [Locations -> Shades \cup {"old"}] /\ doubtful \subseteq Locations
         /\ IsList(blink_array, mp1_list_head, Order) /\ FreeAreZeroed(blink_array)
  <1>1. TypeOK /\ IsList(blink_array, mp1_list_head, Order) /\ FreeAreZeroed(blink_array)
    BY DEF FishInv
  <1>2. /\ mp1_list_head \in Nodes \cup {NULL}
        /\ video \in [Locations -> Shades \cup {"old"}] /\ doubtful \subseteq Locations
    BY <1>1, Zenon DEF TypeOK
  <1>3. Order \in Seq(Nodes) /\ Linked = UsedIn(blink_array) /\ blink_array \in [Nodes -> Entries]
    BY ListIs, Zenon
  <1>4. QED
    BY <1>1, <1>2, <1>3, Zenon

LEMMA NextListIs ==
  ASSUME NEW s, IsList(blink_array', mp1_list_head', s), FreeAreZeroed(blink_array')
  PROVE  /\ Order' = s /\ Linked' = UsedIn(blink_array')
         /\ IsList(blink_array', mp1_list_head', Order')
  <1>1. Order' = OrderOf(blink_array', mp1_list_head')
    BY DEF Order, OrderOf, WalkOf
  <1>2. Order' = s
    BY <1>1, OrderFinds
  <1>3. Linked' = {s[k] : k \in DOMAIN s}
    BY <1>2 DEF Linked
  <1>4. DOMAIN s = 1 .. Len(s) /\ \A k \in 1 .. Len(s) : s[k] \in Nodes
    BY ListLength
  <1>5. Linked' = UsedIn(blink_array')
    <2>1. \A n \in Nodes : blink_array'[n].location # 0 <=> \E k \in 1 .. Len(s) : s[k] = n
      BY DEF IsList
    <2>2. QED
      BY <1>3, <1>4, <2>1 DEF UsedIn
  <1>6. QED
    BY <1>2, <1>5

(* The invariant after a step, from the array and the list after it. *)
LEMMA NextInv ==
  ASSUME NEW s, IsList(blink_array', mp1_list_head', s), FreeAreZeroed(blink_array'),
         blink_array' \in [Nodes -> Entries], video' \in [Locations -> Shades \cup {"old"}],
         doubtful' \subseteq Locations, mp1_list_head' \in Nodes \cup {NULL},
         \A m, n \in UsedIn(blink_array') :
            m # n /\ blink_array'[m].location = blink_array'[n].location
               => blink_array'[m].location \in doubtful',
         \A n \in UsedIn(blink_array') :
            /\ \A m \in UsedIn(blink_array') \ {n} : blink_array'[m].location # blink_array'[n].location
            /\ blink_array'[n].location \notin doubtful'
            => video'[blink_array'[n].location] =
                  IF blink_array'[n].status = 1 THEN blink_array'[n].on_char
                                                ELSE blink_array'[n].off_char
  PROVE  FishInv' /\ Order' = s /\ Linked' = UsedIn(blink_array')
  <1>1. /\ Order' = s /\ Linked' = UsedIn(blink_array')
        /\ IsList(blink_array', mp1_list_head', Order')
    BY NextListIs
  <1>2. TypeOK'
    BY DEF TypeOK, Entries
  <1>3. SharedAreDoubtful'
    BY <1>1 DEF SharedAreDoubtful
  <1>4. ScreenShowsBlinks'
    BY <1>1 DEF ScreenShowsBlinks, Alone
  <1>5. QED
    BY <1>1, <1>2, <1>3, <1>4 DEF FishInv

(* Before the first call, and a step that leaves the list alone. *)
LEMMA InitList == Init => FishInv /\ Order = <<>> /\ Linked = {}
  <1> SUFFICES ASSUME Init PROVE FishInv /\ Order = <<>> /\ Linked = {}
    OBVIOUS
  <1>1. /\ blink_array = [n \in Nodes |-> Zeroed] /\ mp1_list_head = NULL
        /\ video = [l \in Locations |-> "old"] /\ doubtful = {}
    BY DEF Init
  <1>2. <<>> \in Seq(Nodes) /\ Len(<<>>) = 0
    BY EmptySeq
  <1>3. FreeAreZeroed(blink_array) /\ \A n \in Nodes : blink_array[n].location = 0
    BY <1>1 DEF FreeAreZeroed, Zeroed
  <1>4. IsList(blink_array, mp1_list_head, <<>>)
    BY <1>1, <1>2, <1>3 DEF IsList
  <1>5. Order = <<>>
    BY <1>3, <1>4, OrderFinds, OrderIsWalk
  <1>6. Linked = {}
    BY <1>2, <1>5 DEF Linked
  <1>7. TypeOK
    BY <1>1, ZeroedIsEntry DEF TypeOK, Entries, NULL
  <1>8. QED
    BY <1>3, <1>4, <1>5, <1>6, <1>7 DEF FishInv, SharedAreDoubtful, ScreenShowsBlinks

LEMMA SameList ==
  ASSUME FishInv, UNCHANGED listVars
  PROVE  FishInv' /\ Order' = Order /\ Linked' = Linked
  <1>1. Order' = Order
    BY DEF Order, listVars
  <1>2. Linked' = Linked
    BY <1>1 DEF Linked
  <1>3. QED
    BY <1>1, <1>2 DEF FishInv, TypeOK, SharedAreDoubtful, ScreenShowsBlinks, Alone, listVars

-----------------------------------------------------------------------------
(* What the calls look up. *)

(* The first entry of a location, if there is one. *)
Names(k, l) ==
  /\ blink_array[Order[k]].location = l
  /\ k = Min({j \in DOMAIN Order : blink_array[Order[j]].location = l})

(* What a name of a location says.                                         *)
LEMMA NamesIs ==
  ASSUME NEW k, NEW l, Names(k, l)
  PROVE  /\ blink_array[Order[k]].location = l
         /\ k = Min({j \in DOMAIN Order : blink_array[Order[j]].location = l})
  BY Zenon DEF Names

LEMMA FindIs ==
  ASSUME FishInv, NEW l
  PROVE  \/ mp1_find_helper(l) = NULL /\ \A n \in Linked : blink_array[n].location # l
         \/ \E k \in 1 .. Len(Order) :
               /\ mp1_find_helper(l) = Order[k] /\ Order[k] \in Nodes /\ Order[k] \in Linked
               /\ Names(k, l)
  <1> DEFINE hits == {j \in DOMAIN Order : blink_array[Order[j]].location = l}
  <1>1. mp1_find_helper(l) = IF hits = {} THEN NULL ELSE Order[Min(hits)]
    BY DEF mp1_find_helper
  <1>2. CASE hits = {}
    <2>1. \A n \in Linked : blink_array[n].location # l
      BY <1>2, ListIs
    <2>2. QED
      BY <1>1, <1>2, <2>1
  <1>3. CASE hits # {}
    <2>1. hits \in SUBSET Nat
      BY ListIs
    <2>2. Min(hits) \in hits
      <3> HIDE DEF hits
      <3>1. QED
        BY <1>3, <2>1, MinIs
    <2>3. Min(hits) \in 1 .. Len(Order) /\ blink_array[Order[Min(hits)]].location = l
      BY <2>2, ListIs
    <2>4. QED
      BY <1>1, <1>3, <2>3, ListIs DEF Names
  <1>4. QED
    BY <1>2, <1>3

LEMMA MallocIs ==
  \/ mp1_malloc = NULL /\ FreeNodes = {}
  \/ mp1_malloc \in FreeNodes /\ mp1_malloc \in Nodes /\ blink_array[mp1_malloc].location = 0
  <1>1. FreeNodes \in SUBSET Nat /\ FreeNodes \subseteq Nodes
    BY Sizes DEF FreeNodes
  <1>2. FreeNodes # {} => Min(FreeNodes) \in FreeNodes
    BY <1>1, MinIs
  <1>3. FreeNodes = {} \/ mp1_malloc \in FreeNodes
    BY <1>2 DEF mp1_malloc
  <1>4. \A n \in FreeNodes : blink_array[n].location = 0
    BY DEF FreeNodes
  <1>5. QED
    BY <1>1, <1>3, <1>4 DEF mp1_malloc

-----------------------------------------------------------------------------
(* One lemma for each call: it keeps the invariant, and what it makes of    *)
(* the list.                                                                *)

(* A request that fish.c makes. *)
IsRequest(r) ==
  /\ r.location \in Nat \ {0} /\ r.on_char \in Shades /\ r.off_char \in Shades
  /\ r.on_length \in Words /\ r.off_length \in Words

LEMMA AddKeeps ==
  ASSUME FishInv, NEW r, IsRequest(r), mp1_ioctl_add(r)
  PROVE  /\ FishInv'
         /\ \/ UNCHANGED listVars /\ Order' = Order /\ Linked' = Linked /\ (~OnScreen(r) \/ FreeNodes = {})
            \/ /\ OnScreen(r)
               /\ \E n \in Nodes \ Linked :
                     blink_array' = Added(r, n) /\ Order' = <<n>> \o Order /\ Linked' = Linked \cup {n}
  <1> DEFINE n == mp1_malloc
             loc == r.location
  <1>1. CASE ~OnScreen(r) \/ n = NULL
    <2>1. UNCHANGED listVars
      BY <1>1 DEF mp1_ioctl_add
    <2>2. ~OnScreen(r) \/ FreeNodes = {}
      BY <1>1, MallocIs, Sizes
    <2>3. QED
      BY <2>1, <2>2, SameList
  <1>2. CASE OnScreen(r) /\ n # NULL
    <2>1. n \in Nodes /\ blink_array[n].location = 0
      BY <1>2, MallocIs
    <2> HIDE DEF n
    <2>2. /\ blink_array' = Added(r, n)
          /\ mp1_list_head' = n
          /\ video' = [video EXCEPT ![loc] = r.on_char]
          /\ doubtful' = IF mp1_find_helper(loc) = NULL THEN doubtful \ {loc} ELSE doubtful \cup {loc}
      BY <1>2 DEF mp1_ioctl_add, n
    <2>3. loc \in Locations /\ loc # 0
      BY <1>2, Sizes DEF IsRequest, OnScreen, Locations
    <2>4. /\ Order \in Seq(Nodes) /\ Linked = UsedIn(blink_array)
          /\ blink_array \in [Nodes -> Entries] /\ mp1_list_head \in Nodes \cup {NULL}
          /\ video \in [Locations -> Shades \cup {"old"}] /\ doubtful \subseteq Locations
          /\ IsList(blink_array, mp1_list_head, Order) /\ FreeAreZeroed(blink_array)
      BY ListParts, Zenon
    <2> DEFINE new == [location |-> loc, on_char |-> r.on_char, off_char |-> r.off_char,
                       on_length |-> r.on_length, off_length |-> r.off_length,
                       countdown |-> r.on_length, status |-> 1, next |-> mp1_list_head]
               a == blink_array'
    <2>5. new \in Entries
      BY <2>3, <2>4 DEF IsRequest, Entries
    <2>6. a = [blink_array EXCEPT ![n] = new]
      BY <2>2 DEF Added
    <2>7. a \in [Nodes -> Entries] /\ a[n] = new /\ \A m \in Nodes : m # n => a[m] = blink_array[m]
      <3> HIDE DEF new
      <3>1. QED
        BY <2>1, <2>4, <2>5, <2>6
    <2>8. /\ a[n].location = loc /\ a[n].next = mp1_list_head /\ a[n].status = 1
          /\ a[n].on_char = r.on_char
      BY <2>7
    <2> HIDE DEF new, a
    <2>9. IsList(a, mp1_list_head', <<n>> \o Order)
      BY <2>1, <2>2, <2>3, <2>4, <2>7, <2>8, AddList
    <2>10. FreeAreZeroed(a)
      BY <2>3, <2>4, <2>7, <2>8 DEF FreeAreZeroed
    <2>11. UsedIn(a) = UsedIn(blink_array) \cup {n} /\ n \notin UsedIn(blink_array)
      BY <2>1, <2>3, <2>7, <2>8 DEF UsedIn
    <2>12. \/ mp1_find_helper(loc) = NULL /\ \A m \in UsedIn(blink_array) : blink_array[m].location # loc
           \/ mp1_find_helper(loc) # NULL
      <3>1. \/ mp1_find_helper(loc) = NULL /\ \A m \in Linked : blink_array[m].location # loc
            \/ \E k \in 1 .. Len(Order) : mp1_find_helper(loc) = Order[k] /\ Order[k] \in Nodes
        BY FindIs
      <3>2. QED
        BY <2>4, <3>1, Sizes
    <2>13. /\ video' \in [Locations -> Shades \cup {"old"}] /\ doubtful' \subseteq Locations
           /\ mp1_list_head' \in Nodes \cup {NULL}
           /\ video'[loc] = r.on_char
           /\ \A x \in Locations : x # loc => video'[x] = video[x]
           /\ \A x \in Locations : x # loc => (x \in doubtful' <=> x \in doubtful)
           /\ mp1_find_helper(loc) # NULL => loc \in doubtful'
      BY <2>1, <2>2, <2>3, <2>4 DEF IsRequest
    <2>14. \A m \in UsedIn(blink_array) : m \in Nodes /\ m # n /\ a[m] = blink_array[m]
                                          /\ a[m].location \in Locations
      BY <2>4, <2>7, <2>11 DEF UsedIn, Entries
    <2>15. ASSUME NEW m1 \in UsedIn(a), NEW m2 \in UsedIn(a), m1 # m2, a[m1].location = a[m2].location
           PROVE  a[m1].location \in doubtful'
      <3>1. CASE a[m1].location = loc
        <4>1. \E m \in UsedIn(blink_array) : blink_array[m].location = loc
          BY <2>11, <2>14, <2>15, <3>1
        <4>2. QED
          BY <2>12, <2>13, <3>1, <4>1
      <3>2. CASE a[m1].location # loc
        <4>1. m1 \in UsedIn(blink_array) /\ m2 \in UsedIn(blink_array)
          BY <2>8, <2>11, <2>15, <3>2
        <4>2. blink_array[m1].location \in doubtful
          BY <2>4, <2>14, <2>15, <4>1 DEF FishInv, SharedAreDoubtful
        <4>3. QED
          BY <2>13, <2>14, <3>2, <4>1, <4>2
      <3>3. QED
        BY <3>1, <3>2
    <2>16. ASSUME NEW m \in UsedIn(a), \A x \in UsedIn(a) \ {m} : a[x].location # a[m].location,
                  a[m].location \notin doubtful'
           PROVE  video'[a[m].location] = IF a[m].status = 1 THEN a[m].on_char ELSE a[m].off_char
      <3>1. CASE m = n
        BY <2>8, <2>13, <3>1
      <3>2. CASE m # n
        <4>1. m \in UsedIn(blink_array) /\ a[m] = blink_array[m] /\ a[m].location \in Locations
          BY <2>11, <2>14, <3>2
        <4>2. a[m].location # loc
          BY <2>8, <2>11, <2>16, <3>2
        <4>3. \A x \in UsedIn(blink_array) \ {m} : blink_array[x].location # blink_array[m].location
          BY <2>11, <2>14, <2>16, <4>1
        <4>4. video[blink_array[m].location] =
                 IF blink_array[m].status = 1 THEN blink_array[m].on_char ELSE blink_array[m].off_char
          BY <2>4, <2>13, <2>16, <4>1, <4>2, <4>3 DEF FishInv, ScreenShowsBlinks, Alone
        <4>5. QED
          BY <2>13, <4>1, <4>2, <4>4
      <3>3. QED
        BY <3>1, <3>2
    <2>17. FishInv' /\ Order' = <<n>> \o Order /\ Linked' = UsedIn(a)
      BY <2>7, <2>9, <2>10, <2>13, <2>15, <2>16, NextInv DEF a
    <2>18. QED
      BY <1>2, <2>1, <2>2, <2>4, <2>11, <2>17
  <1>3. QED
    BY <1>1, <1>2

(* Only the pointer changes. *)
NextMoves(old, new) == \E p : new = [old EXCEPT !.next = p]

LEMMA RemoveKeeps ==
  ASSUME FishInv, NEW l, mp1_ioctl_remove(l)
  PROVE  /\ FishInv'
         /\ \/ UNCHANGED listVars /\ Order' = Order
            \/ \E k \in 1 .. Len(Order) :
                  /\ Names(k, l)
                  /\ Order' = Without(Order, k)
                  /\ \A m \in Nodes : m # Order[k] => NextMoves(blink_array[m], blink_array'[m])
  <1> DEFINE n == mp1_find_helper(l)
             a == blink_array'
  <1>1. CASE n = NULL
    <2>1. UNCHANGED listVars
      BY <1>1 DEF mp1_ioctl_remove
    <2>2. QED
      BY <2>1, SameList
  <1>2. CASE n # NULL
    <2>1. PICK k \in 1 .. Len(Order) :
               /\ n = Order[k] /\ n \in Nodes /\ n \in Linked
               /\ Names(k, l)
      <3>1. \E k \in 1 .. Len(Order) :
               /\ n = Order[k] /\ Order[k] \in Nodes /\ Order[k] \in Linked
               /\ Names(k, l)
        BY <1>2, FindIs
      <3> HIDE DEF n
      <3>2. QED
        BY <3>1
    <2>2. /\ a = Unlinked(n)
          /\ mp1_list_head' = IF mp1_list_head = n THEN blink_array[n].next ELSE mp1_list_head
          /\ video' = video /\ doubtful' = doubtful
      BY <1>2 DEF mp1_ioctl_remove
    <2> HIDE DEF n
    <2>3. /\ Order \in Seq(Nodes) /\ Linked = UsedIn(blink_array)
          /\ blink_array \in [Nodes -> Entries] /\ mp1_list_head \in Nodes \cup {NULL}
          /\ video \in [Locations -> Shades \cup {"old"}] /\ doubtful \subseteq Locations
          /\ IsList(blink_array, mp1_list_head, Order) /\ FreeAreZeroed(blink_array)
      BY ListParts, Zenon
    <2> DEFINE before == {m \in Linked : blink_array[m].next = n}
               on == blink_array[n].next
    <2>4. on \in Nodes \cup {NULL}
      BY <2>1, <2>3 DEF Entries
    <2>5. a = [m \in Nodes |-> IF m = n THEN Zeroed
                               ELSE IF m \in before THEN [blink_array[m] EXCEPT !.next = on]
                               ELSE blink_array[m]]
      BY <2>2 DEF Unlinked
    <2> HIDE DEF a, on
    <2>6. ASSUME NEW m \in Nodes, m # n
          PROVE  /\ a[m].location = blink_array[m].location /\ a[m].status = blink_array[m].status
                 /\ a[m].on_char = blink_array[m].on_char /\ a[m].off_char = blink_array[m].off_char
                 /\ a[m].next = IF m \in before THEN on ELSE blink_array[m].next
                 /\ a[m] \in Entries /\ (m \notin before => a[m] = blink_array[m])
                 /\ \E p : a[m] = [blink_array[m] EXCEPT !.next = p]
      <3>1. a[m] = IF m \in before THEN [blink_array[m] EXCEPT !.next = on] ELSE blink_array[m]
        BY <2>5, <2>6
      <3>2. blink_array[m] \in Entries /\ blink_array[m] = [blink_array[m] EXCEPT !.next = blink_array[m].next]
        BY <2>3 DEF Entries
      <3> DEFINE b == blink_array[m]
      <3>3. b \in Entries
        BY <3>2
      <3>4. \A p \in Nodes \cup {NULL} :
               LET c == [b EXCEPT !.next = p]
               IN  /\ c \in Entries /\ c.next = p /\ c.location = b.location /\ c.status = b.status
                   /\ c.on_char = b.on_char /\ c.off_char = b.off_char
        <4> HIDE DEF b
        <4>1. QED
          BY <3>3 DEF Entries
      <3>5. CASE m \in before
        <4> HIDE DEF before
        <4>1. a[m] = [b EXCEPT !.next = on]
          BY <3>1, <3>5
        <4> HIDE DEF b
        <4>2. QED
          BY <2>4, <3>4, <3>5, <4>1 DEF b
      <3>6. CASE m \notin before
        <4> HIDE DEF before
        <4>1. a[m] = b /\ b.next = blink_array[m].next /\ b = [b EXCEPT !.next = blink_array[m].next]
          BY <3>1, <3>2, <3>6
        <4>2. QED
          BY <3>3, <3>6, <4>1
      <3>7. QED
        BY <3>5, <3>6
    <2>7. a[n] = Zeroed /\ a[n].location = 0
      BY <2>1, <2>5 DEF Zeroed
    <2>8. a \in [Nodes -> Entries]
      <3>1. a = [m \in Nodes |-> a[m]]
        BY <2>5
      <3>2. \A m \in Nodes : a[m] \in Entries
        BY <2>6, <2>7, ZeroedIsEntry
      <3>3. QED
        BY <3>1, <3>2
    <2>9. IsList(a, mp1_list_head', Without(Order, k))
      <3>1. \A m \in Nodes : m # Order[k] =>
               /\ a[m].location = blink_array[m].location
               /\ blink_array[m].location # 0 =>
                    a[m].next = IF blink_array[m].next = Order[k] THEN blink_array[Order[k]].next
                                ELSE blink_array[m].next
        BY <2>1, <2>3, <2>6 DEF UsedIn, on
      <3>2. /\ a[Order[k]].location = 0
            /\ mp1_list_head' = IF mp1_list_head = Order[k] THEN blink_array[Order[k]].next
                                ELSE mp1_list_head
        BY <2>1, <2>2, <2>7
      <3> HIDE DEF before
      <3>3. IsList(blink_array, mp1_list_head, Order)
        BY <2>3
      <3> DEFINE head2 == mp1_list_head'
      <3> HIDE DEF head2
      <3>4. head2 = IF mp1_list_head = Order[k] THEN blink_array[Order[k]].next ELSE mp1_list_head
        BY <3>2 DEF head2
      <3>5. IsList(a, head2, Without(Order, k))
        BY <3>1, <3>2, <3>3, <3>4, RemoveList
      <3>6. QED
        BY <3>5 DEF head2
    <2>10. FreeAreZeroed(a)
      <3>1. ASSUME NEW m \in Nodes, a[m].location = 0, m # n PROVE a[m] = Zeroed
        <4>1. m \notin before
          BY <2>3, <2>6, <3>1 DEF UsedIn
        <4>2. QED
          BY <2>3, <2>6, <3>1, <4>1 DEF FreeAreZeroed
      <3>2. QED
        BY <2>7, <3>1 DEF FreeAreZeroed
    <2>11. \A m \in UsedIn(a) : m \in Nodes /\ m # n /\ m \in UsedIn(blink_array)
      BY <2>6, <2>7 DEF UsedIn
    <2>12. \A m1, m2 \in UsedIn(a) : m1 # m2 /\ a[m1].location = a[m2].location
               => a[m1].location \in doubtful'
      <3>1. \A m1, m2 \in UsedIn(blink_array) : m1 # m2 /\ blink_array[m1].location = blink_array[m2].location
               => blink_array[m1].location \in doubtful
        BY <2>3 DEF FishInv, SharedAreDoubtful
      <3>2. QED
        BY <2>2, <2>6, <2>11, <3>1
    <2>13. ASSUME NEW m \in UsedIn(a), \A x \in UsedIn(a) \ {m} : a[x].location # a[m].location,
                  a[m].location \notin doubtful'
           PROVE  video'[a[m].location] = IF a[m].status = 1 THEN a[m].on_char ELSE a[m].off_char
      <3>1. m \in Nodes /\ m # n /\ m \in UsedIn(blink_array)
        BY <2>11
      <3>2. ASSUME NEW x \in UsedIn(blink_array) \ {m}
            PROVE  blink_array[x].location # blink_array[m].location
        <4>1. CASE x = n
          BY <2>2, <2>3, <2>6, <2>13, <3>1, <4>1 DEF FishInv, SharedAreDoubtful
        <4>2. CASE x # n
          <5>1. x \in UsedIn(a) \ {m}
            BY <2>6, <4>2 DEF UsedIn
          <5>2. QED
            BY <2>6, <2>13, <3>1, <4>2, <5>1 DEF UsedIn
        <4>3. QED
          BY <4>1, <4>2
      <3>3. video[blink_array[m].location] =
              IF blink_array[m].status = 1 THEN blink_array[m].on_char ELSE blink_array[m].off_char
        BY <2>2, <2>3, <2>6, <2>13, <3>1, <3>2 DEF FishInv, ScreenShowsBlinks, Alone
      <3>4. QED
        BY <2>2, <2>6, <3>1, <3>3
    <2>14. mp1_list_head' \in Nodes \cup {NULL}
      BY <2>2, <2>3, <2>4 DEF on
    <2>15. FishInv' /\ Order' = Without(Order, k)
      BY <2>2, <2>3, <2>8, <2>9, <2>10, <2>12, <2>13, <2>14, NextInv DEF a
    <2>16. \A m \in Nodes : m # Order[k] => NextMoves(blink_array[m], blink_array'[m])
      BY <2>1, <2>6 DEF a, NextMoves
    <2>17. QED
      BY <2>1, <2>15, <2>16
  <1>3. QED
    BY <1>1, <1>2

LEMMA SyncKeeps ==
  ASSUME FishInv, NEW first, NEW second, mp1_ioctl_sync(first, second)
  PROVE  /\ FishInv'
         /\ \/ UNCHANGED listVars /\ Order' = Order
            \/ \E i, j \in 1 .. Len(Order) :
                  /\ Names(i, first) /\ Names(j, second)
                  /\ blink_array' = Synced(Order[i], Order[j])
                  /\ Order' = Order
  <1> DEFINE n == mp1_find_helper(first)
             m == mp1_find_helper(second)
             a == blink_array'
  <1>1. CASE n = NULL \/ m = NULL
    <2>1. UNCHANGED listVars
      BY <1>1 DEF mp1_ioctl_sync
    <2>2. QED
      BY <2>1, SameList
  <1>2. CASE n # NULL /\ m # NULL
    <2>1. PICK i \in 1 .. Len(Order) :
               /\ n = Order[i] /\ Order[i] \in Nodes /\ Order[i] \in Linked
               /\ Names(i, first)
      BY <1>2, FindIs
    <2>2. PICK j \in 1 .. Len(Order) :
               /\ m = Order[j] /\ Order[j] \in Nodes /\ Order[j] \in Linked
               /\ Names(j, second)
      BY <1>2, FindIs
    <2>3. /\ a = Synced(n, m)
          /\ video' = [video EXCEPT ![second] = blink_array[m].off_char]
          /\ doubtful' = doubtful \cup {second} /\ mp1_list_head' = mp1_list_head
      BY <1>2 DEF mp1_ioctl_sync
    <2> HIDE DEF n, m
    <2>4. /\ Order \in Seq(Nodes) /\ Linked = UsedIn(blink_array)
          /\ blink_array \in [Nodes -> Entries] /\ mp1_list_head \in Nodes \cup {NULL}
          /\ video \in [Locations -> Shades \cup {"old"}] /\ doubtful \subseteq Locations
          /\ IsList(blink_array, mp1_list_head, Order) /\ FreeAreZeroed(blink_array)
      BY ListParts, Zenon
    <2>5. n \in Nodes /\ m \in Nodes /\ m \in UsedIn(blink_array) /\ blink_array[m].location = second
          /\ blink_array[n] \in Entries /\ blink_array[m] \in Entries /\ second \in Locations
      <3>1. n \in Nodes /\ m \in Nodes /\ m \in UsedIn(blink_array)
        BY <2>1, <2>2, <2>4, Zenon
      <3>2. blink_array[m].location = second
        BY <2>2, NamesIs, Zenon
      <3>3. blink_array[n] \in Entries /\ blink_array[m] \in Entries
        BY <2>4, <3>1
      <3>4. \A e \in Entries : e.location \in Locations
        BY DEF Entries
      <3>5. QED
        BY <3>1, <3>2, <3>3, <3>4, Zenon
    <2> DEFINE new == [blink_array[m] EXCEPT !.on_length = blink_array[n].on_length,
                                             !.off_length = blink_array[n].off_length,
                                             !.countdown = blink_array[n].countdown,
                                             !.status = blink_array[n].status]
    <2>6. new \in Entries /\ new.location = blink_array[m].location /\ new.next = blink_array[m].next
      BY <2>5 DEF Entries
    <2>7. a = [blink_array EXCEPT ![m] = new]
      BY <2>3, Zenon DEF Synced, new
    <2>8. a \in [Nodes -> Entries] /\ a[m] = new /\ \A x \in Nodes : x # m => a[x] = blink_array[x]
      <3> HIDE DEF new
      <3>1. QED
        BY <2>4, <2>5, <2>6, <2>7
    <2> HIDE DEF new, a
    <2>9. \A x \in Nodes : a[x].location = blink_array[x].location /\ a[x].next = blink_array[x].next
      BY <2>6, <2>8
    <2>10. IsList(a, mp1_list_head', Order) /\ UsedIn(a) = UsedIn(blink_array)
      BY <2>3, <2>4, <2>9, KeepList DEF UsedIn
    <2>11. FreeAreZeroed(a)
      BY <2>4, <2>5, <2>8, <2>9 DEF FreeAreZeroed, UsedIn
    <2>12. /\ video' \in [Locations -> Shades \cup {"old"}] /\ doubtful' \subseteq Locations
           /\ \A x \in Locations : x # second => video'[x] = video[x]
      BY <2>3, <2>4, <2>5 DEF Entries
    <2>13. \A x, y \in UsedIn(a) : x # y /\ a[x].location = a[y].location => a[x].location \in doubtful'
      <3>1. \A x, y \in UsedIn(blink_array) : x # y /\ blink_array[x].location = blink_array[y].location
               => blink_array[x].location \in doubtful
        BY <2>4 DEF FishInv, SharedAreDoubtful
      <3>2. QED
        BY <2>3, <2>9, <2>10, <3>1 DEF UsedIn
    <2>14. ASSUME NEW x \in UsedIn(a), \A y \in UsedIn(a) \ {x} : a[y].location # a[x].location,
                  a[x].location \notin doubtful'
           PROVE  video'[a[x].location] = IF a[x].status = 1 THEN a[x].on_char ELSE a[x].off_char
      <3>1. x \in Nodes /\ x \in UsedIn(blink_array) /\ a[x].location # second /\ x # m
        BY <2>3, <2>5, <2>9, <2>10, <2>14 DEF UsedIn
      <3>2. \A y \in UsedIn(blink_array) \ {x} : blink_array[y].location # blink_array[x].location
        BY <2>9, <2>10, <2>14, <3>1 DEF UsedIn
      <3>3. video[blink_array[x].location] =
              IF blink_array[x].status = 1 THEN blink_array[x].on_char ELSE blink_array[x].off_char
        BY <2>3, <2>4, <2>9, <2>14, <3>1, <3>2 DEF FishInv, ScreenShowsBlinks, Alone
      <3>4. a[x] = blink_array[x] /\ a[x].location \in Locations
        BY <2>4, <2>8, <3>1 DEF Entries
      <3>5. QED
        BY <2>12, <3>1, <3>3, <3>4
    <2>15. FishInv' /\ Order' = Order
      BY <2>3, <2>4, <2>8, <2>10, <2>11, <2>12, <2>13, <2>14, NextInv DEF a
    <2>16. QED
      BY <2>1, <2>2, <2>3, <2>15 DEF a
  <1>3. QED
    BY <1>1, <1>2

(* Division by a positive number. *)
LEMMA DivMod ==
  ASSUME NEW b \in Nat \ {0}, NEW q \in Int, NEW r \in 0 .. (b - 1)
  PROVE  (b * q + r) % b = r
  OBVIOUS

(* Counting down in words. *)
LEMMA DecrementedIs ==
  ASSUME NEW w \in Words
  PROVE  Decremented(w) \in Words /\ Decremented(w) = IF w = 0 THEN WORD - 1 ELSE w - 1
  <1>1. WORD \in Nat \ {0} /\ w \in 0 .. (WORD - 1)
    BY WordsAre DEF Words
  <1>2. CASE w = 0
    <2>1. WORD - 1 \in 0 .. (WORD - 1) /\ w - 1 = WORD * (-1) + (WORD - 1) /\ -1 \in Int
      BY <1>1, <1>2
    <2>2. (w - 1) % WORD = WORD - 1
      BY <1>1, <2>1, DivMod
    <2>3. QED
      BY <1>2, <2>1, <2>2 DEF Decremented, Words
  <1>3. CASE w # 0
    <2>1. w - 1 \in 0 .. (WORD - 1) /\ w - 1 = WORD * 0 + (w - 1) /\ 0 \in Int
      BY <1>1, <1>3
    <2>2. (w - 1) % WORD = w - 1
      BY <1>1, <2>1, DivMod
    <2>3. QED
      BY <1>3, <2>1, <2>2 DEF Decremented, Words
  <1>4. QED
    BY <1>2, <1>3

LEMMA TickKeeps ==
  ASSUME FishInv, mp1_rtc_tasklet
  PROVE  /\ FishInv' /\ Order' = Order
         /\ \A n \in Linked : blink_array'[n] =
               IF Expires(blink_array[n]) THEN Toggled(blink_array[n])
               ELSE [blink_array[n] EXCEPT !.countdown = Decremented(@)]
  <1> DEFINE a == blink_array'
             due == {k \in DOMAIN Order : Expires(blink_array[Order[k]])}
             at(l) == {k \in due : blink_array[Order[k]].location = l}
  <1>1. /\ Order \in Seq(Nodes) /\ Linked = UsedIn(blink_array)
        /\ blink_array \in [Nodes -> Entries] /\ mp1_list_head \in Nodes \cup {NULL}
        /\ video \in [Locations -> Shades \cup {"old"}] /\ doubtful \subseteq Locations
        /\ IsList(blink_array, mp1_list_head, Order) /\ FreeAreZeroed(blink_array)
    BY ListParts, Zenon
  <1>2. /\ a = [n \in Nodes |->
                  IF n \notin Linked THEN blink_array[n]
                  ELSE IF Expires(blink_array[n]) THEN Toggled(blink_array[n])
                  ELSE [blink_array[n] EXCEPT !.countdown = Decremented(@)]]
        /\ video' = [l \in Locations |-> IF at(l) = {} THEN video[l]
                                         ELSE CharOf(blink_array[Order[Max(at(l))]])]
        /\ doubtful' = doubtful \ {l \in Locations : \E k \in at(l) : Alone(Order[k])}
        /\ mp1_list_head' = mp1_list_head
    BY DEF mp1_rtc_tasklet
  <1> HIDE DEF a
  <1>3. ASSUME NEW n \in Nodes
        PROVE  /\ a[n] \in Entries /\ a[n].location = blink_array[n].location
               /\ a[n].next = blink_array[n].next
               /\ a[n].on_char = blink_array[n].on_char /\ a[n].off_char = blink_array[n].off_char
               /\ n \notin Linked => a[n] = blink_array[n]
               /\ n \in Linked /\ ~Expires(blink_array[n]) => a[n].status = blink_array[n].status
               /\ n \in Linked /\ Expires(blink_array[n]) => a[n].status = 1 - blink_array[n].status
    <2> DEFINE b == blink_array[n]
    <2>1. b \in Entries /\ Decremented(b.countdown) \in Words
      BY <1>1, DecrementedIs DEF Entries
    <2>2. a[n] = IF n \notin Linked THEN b ELSE IF Expires(b) THEN Toggled(b)
                 ELSE [b EXCEPT !.countdown = Decremented(b.countdown)]
      <3> HIDE DEF b
      <3>1. b = blink_array[n]
        BY DEF b
      <3>2. [b EXCEPT !.countdown = Decremented(@)] = [b EXCEPT !.countdown = Decremented(b.countdown)]
        OBVIOUS
      <3>3. QED
        BY <1>2, <3>1, <3>2
    <2> HIDE DEF b
    <2>3. Toggled(b) \in Entries /\ Toggled(b).location = b.location /\ Toggled(b).next = b.next
          /\ Toggled(b).on_char = b.on_char /\ Toggled(b).off_char = b.off_char
          /\ Toggled(b).status = 1 - b.status
      <3> DEFINE left == IF b.status = 1 THEN b.off_length ELSE b.on_length
      <3>1. left \in Words /\ b.status \in {0, 1}
        BY <2>1 DEF Entries
      <3>2. 1 - b.status \in {0, 1}
        BY <3>1
      <3>3. Toggled(b) = [b EXCEPT !.status = 1 - b.status, !.countdown = left]
        BY <2>1 DEF Toggled, Entries
      <3> HIDE DEF left
      <3>4. QED
        BY <2>1, <3>1, <3>2, <3>3 DEF Entries
    <2>4. QED
      BY <2>1, <2>2, <2>3 DEF Entries, b
  <1>4. a \in [Nodes -> Entries]
    <2>1. a = [n \in Nodes |-> a[n]]
      BY <1>2
    <2>2. QED
      BY <1>3, <2>1
  <1>5. IsList(a, mp1_list_head', Order) /\ UsedIn(a) = UsedIn(blink_array) /\ FreeAreZeroed(a)
    <2>1. FreeAreZeroed(a)
      BY <1>1, <1>3 DEF FreeAreZeroed, UsedIn
    <2>2. IsList(a, mp1_list_head, Order)
      BY <1>1, <1>3, KeepList
    <2>3. QED
      BY <1>2, <1>3, <2>1, <2>2 DEF UsedIn
  <1>6. ASSUME NEW l PROVE at(l) # {} => Max(at(l)) \in at(l)
    <2>1. at(l) \in SUBSET (0 .. Len(Order)) /\ Len(Order) \in Nat
      BY ListIs
    <2> HIDE DEF at
    <2>2. QED
      BY <2>1, MaxIs
  <1>7. ASSUME NEW l \in Locations PROVE video'[l] \in Shades \cup {"old"}
    <2>1. CASE at(l) = {}
      <3> HIDE DEF at
      <3>1. QED
        BY <1>1, <1>2, <2>1
    <2>2. CASE at(l) # {}
      <3> DEFINE k == Max(at(l))
      <3>1. Order[k] \in Nodes
        <4>1. k \in at(l)
          <5> HIDE DEF at
          <5>1. QED
            BY <1>6, <2>2
        <4>2. k \in DOMAIN Order
          BY <4>1
        <4> HIDE DEF k
        <4>3. QED
          BY <4>2, ListIs
      <3>2. video'[l] = CharOf(blink_array[Order[k]])
        <4> HIDE DEF at
        <4>1. QED
          BY <1>2, <2>2
      <3> HIDE DEF k
      <3>3. CharOf(blink_array[Order[k]]) \in Shades
        BY <1>1, <3>1 DEF CharOf, Entries
      <3>4. QED
        BY <3>2, <3>3
    <2>3. QED
      BY <2>1, <2>2
  <1>8. video' \in [Locations -> Shades \cup {"old"}] /\ doubtful' \subseteq Locations
        /\ doubtful' \subseteq doubtful
    <2>1. video' = [l \in Locations |-> video'[l]]
      <3> HIDE DEF at
      <3>1. QED
        BY <1>2
    <2>2. doubtful' \subseteq doubtful
      <3> HIDE DEF at
      <3>1. QED
        BY <1>2
    <2>3. QED
      BY <1>1, <1>7, <2>1, <2>2
  <1>9. ASSUME NEW m \in UsedIn(a), NEW n \in UsedIn(a), m # n, a[m].location = a[n].location
        PROVE  a[m].location \in doubtful'
    <2> DEFINE l == a[m].location
    <2>1. m \in Nodes /\ n \in Nodes /\ m \in Linked /\ n \in Linked
          /\ blink_array[m].location = l /\ blink_array[n].location = l
      BY <1>1, <1>3, <1>5, <1>9 DEF UsedIn
    <2>2. l \in doubtful
      BY <1>9, <2>1 DEF FishInv, SharedAreDoubtful
    <2>3. ASSUME NEW k \in at(l), Alone(Order[k]) PROVE FALSE
      BY <1>9, <2>1, <2>3 DEF Alone
    <2>4. QED
      <3> HIDE DEF at, l
      <3>1. doubtful' = doubtful \ {x \in Locations : \E k \in at(x) : Alone(Order[k])}
        BY <1>2
      <3>2. ~(\E k \in at(l) : Alone(Order[k]))
        BY <2>3
      <3>3. l \in doubtful'
        BY <2>2, <3>1, <3>2
      <3>4. QED
        BY <3>3 DEF l
  <1>10. ASSUME NEW n \in UsedIn(a), \A m \in UsedIn(a) \ {n} : a[m].location # a[n].location,
                a[n].location \notin doubtful'
         PROVE  video'[a[n].location] = IF a[n].status = 1 THEN a[n].on_char ELSE a[n].off_char
    <2> DEFINE l == a[n].location
    <2>1. n \in Nodes /\ n \in Linked /\ blink_array[n].location = l /\ l \in Locations
      BY <1>1, <1>3, <1>5 DEF UsedIn, Entries
    <2>2. \A m \in Linked \ {n} : blink_array[m].location # blink_array[n].location
      BY <1>1, <1>3, <1>5, <1>10, <2>1 DEF UsedIn
    <2>3. \A k \in at(l) : Order[k] = n /\ Expires(blink_array[n])
      BY <2>1, <2>2, ListIs
    <2>4. CASE Expires(blink_array[n])
      <3>1. at(l) # {}
        <4>1. PICK k \in 1 .. Len(Order) : Order[k] = n
          BY <2>1, ListIs
        <4>2. k \in at(l)
          BY <2>1, <2>4, <4>1, ListIs
        <4>3. QED
          BY <4>2
      <3>2. Order[Max(at(l))] = n
        <4> HIDE DEF at
        <4>1. QED
          BY <1>6, <2>3, <3>1
      <3>3. video'[l] = CharOf(blink_array[n])
        <4> HIDE DEF at
        <4>1. QED
          BY <1>2, <2>1, <3>1, <3>2
      <3>4. a[n].status = 1 - blink_array[n].status /\ blink_array[n].status \in {0, 1}
            /\ a[n].on_char = blink_array[n].on_char /\ a[n].off_char = blink_array[n].off_char
        BY <1>1, <1>3, <2>1, <2>4 DEF Entries
      <3>5. QED
        BY <3>3, <3>4 DEF CharOf
    <2>5. CASE ~Expires(blink_array[n])
      <3>1. at(l) = {}
        BY <2>3, <2>5
      <3>2. video'[l] = video[l] /\ l \notin doubtful
        <4> HIDE DEF at
        <4>1. QED
          BY <1>2, <1>10, <2>1, <3>1
      <3>3. video[l] = IF blink_array[n].status = 1 THEN blink_array[n].on_char ELSE blink_array[n].off_char
        <4>1. ScreenShowsBlinks
          BY DEF FishInv
        <4>2. Alone(n)
          BY <2>2, Zenon DEF Alone
        <4> HIDE DEF l
        <4>3. n \in Linked /\ blink_array[n].location = l /\ l \notin doubtful
          BY <2>1, <3>2, Zenon
        <4>4. QED
          BY <4>1, <4>2, <4>3, Zenon DEF ScreenShowsBlinks
      <3>4. QED
        BY <1>3, <2>1, <2>5, <3>2, <3>3
    <2>6. QED
      BY <2>4, <2>5
  <1>11. FishInv' /\ Order' = Order
    BY <1>1, <1>2, <1>4, <1>5, <1>8, <1>9, <1>10, NextInv, Zenon DEF a
  <1>12. ASSUME NEW n \in Linked
         PROVE  a[n] = IF Expires(blink_array[n]) THEN Toggled(blink_array[n])
                       ELSE [blink_array[n] EXCEPT !.countdown = Decremented(@)]
    <2>1. n \in Nodes
      BY <1>1 DEF UsedIn
    <2>2. QED
      BY <1>2, <2>1
  <1>13. QED
    BY <1>11, <1>12 DEF a

-----------------------------------------------------------------------------
(* The refinement: what the list is, as blinks. *)

BlinkOf(arr, n) ==
  [request |-> RequestOf(arr[n]), lit |-> arr[n].status = 1, left |-> Duration(arr[n].countdown)]
BlinksOf(arr, s) == [k \in DOMAIN s |-> BlinkOf(arr, s[k])]
Bs == BlinksOf(blink_array, Order)

(* A function on the first numbers is a sequence.                           *)
LEMMA FunctionIsSeq ==
  ASSUME NEW S, NEW n \in Nat, NEW f \in [1 .. n -> S]
  PROVE  f \in Seq(S)
  BY SeqDef

BlinkType == [request : AllRequests, lit : BOOLEAN, left : Nat]

(* A blink was asked for.                                                  *)
LEMMA BlinkHasRequest == \A s \in BlinkType : s.request \in AllRequests
  BY DEF BlinkType

LEMMA DurationIs ==
  ASSUME NEW w \in Words
  PROVE  /\ Duration(w) \in Nat \ {0}
         /\ Duration(w) = 1 <=> ~Positive(Decremented(w))
         /\ Positive(Decremented(w)) => Duration(Decremented(w)) = Duration(w) - 1
  <1> DEFINE half == WORD \div 2
  <1>1. half \in Nat /\ WORD = 2 * half /\ WORD > 0 /\ w \in 0 .. (WORD - 1)
    BY WordsAre DEF Words
  <1>2. Duration(w) = (IF w \in 1 .. half THEN w ELSE 1)
    BY DEF Duration
  <1>3. Positive(Decremented(w)) <=> Decremented(w) \in 1 .. (half - 1)
    BY DEF Positive
  <1>4. Duration(Decremented(w)) = (IF Decremented(w) \in 1 .. half THEN Decremented(w) ELSE 1)
    BY DEF Duration
  <1>5. Decremented(w) = (IF w = 0 THEN WORD - 1 ELSE w - 1)
    BY DecrementedIs
  <1> HIDE DEF half
  <1>6. QED
    BY <1>1, <1>2, <1>3, <1>4, <1>5

LEMMA BlinkTyped ==
  ASSUME NEW arr \in [Nodes -> Entries], NEW n \in Nodes
  PROVE  BlinkOf(arr, n) \in BlinkType
  <1>1. arr[n] \in Entries
    OBVIOUS
  <1>2. RequestOf(arr[n]) \in AllRequests
    BY <1>1 DEF RequestOf, AllRequests, Entries
  <1>3. Duration(arr[n].countdown) \in Nat
    BY <1>1, DurationIs DEF Entries
  <1>4. QED
    BY <1>2, <1>3 DEF BlinkOf, BlinkType

LEMMA BlinksAre ==
  ASSUME NEW arr \in [Nodes -> Entries], NEW s \in Seq(Nodes)
  PROVE  /\ BlinksOf(arr, s) \in Seq(BlinkType)
         /\ Len(BlinksOf(arr, s)) = Len(s) /\ DOMAIN BlinksOf(arr, s) = 1 .. Len(s)
         /\ \A k \in 1 .. Len(s) : BlinksOf(arr, s)[k] = BlinkOf(arr, s[k])
  <1> DEFINE bs == BlinksOf(arr, s)
  <1>1. Len(s) \in Nat /\ DOMAIN s = 1 .. Len(s) /\ \A k \in 1 .. Len(s) : s[k] \in Nodes
    BY LenProperties, ElementOfSeq
  <1>2. bs = [k \in 1 .. Len(s) |-> BlinkOf(arr, s[k])]
    BY <1>1 DEF BlinksOf
  <1> HIDE DEF bs
  <1>3. bs \in [1 .. Len(s) -> BlinkType]
    BY <1>1, <1>2, BlinkTyped
  <1>4. bs \in Seq(BlinkType)
    BY <1>1, <1>3, FunctionIsSeq
  <1>5. Len(bs) = Len(s)
    BY <1>1, <1>3, <1>4, LenProperties
  <1>6. QED
    BY <1>2, <1>3, <1>4, <1>5 DEF bs

LEMMA AddRefines ==
  ASSUME FishInv, FishInv', NEW r, IsRequest(r), OnScreen(r), NEW n \in Nodes,
         blink_array' = Added(r, n), Order' = <<n>> \o Order, n \notin Linked
  PROVE  B!AddBlink
  <1> DEFINE c == Bs'
  <1>1. /\ Order \in Seq(Nodes) /\ Order' \in Seq(Nodes) /\ Len(Order) \in Nat
        /\ blink_array \in [Nodes -> Entries] /\ blink_array' \in [Nodes -> Entries]
        /\ \A k \in 1 .. Len(Order) : Order[k] \in Nodes /\ Order[k] # n
    <2>1. /\ Order' \in Seq(Nodes) /\ blink_array' \in [Nodes -> Entries]
      BY DEF FishInv, IsList, TypeOK, Entries
    <2>2. QED
      BY <2>1, ListIs
  <1>2. /\ Bs \in Seq(BlinkType) /\ Len(Bs) = Len(Order)
        /\ \A k \in 1 .. Len(Order) : Bs[k] = BlinkOf(blink_array, Order[k])
    BY <1>1, BlinksAre DEF Bs
  <1>3. /\ c \in Seq(BlinkType) /\ Len(c) = Len(Order')
        /\ \A k \in 1 .. Len(Order') : c[k] = BlinkOf(blink_array', Order'[k])
    BY <1>1, BlinksAre DEF Bs
  <1> HIDE DEF c
  <1>4. /\ Len(Order') = Len(Order) + 1 /\ Order'[1] = n
        /\ \A k \in 2 .. Len(Order) + 1 : Order'[k] = Order[k - 1]
    BY <1>1, FrontIs
  <1> DEFINE e == [location |-> r.location, on_char |-> r.on_char, off_char |-> r.off_char,
                   on_length |-> r.on_length, off_length |-> r.off_length,
                   countdown |-> r.on_length, status |-> 1, next |-> mp1_list_head]
             q == RequestOf(e)
             st == [request |-> q, lit |-> TRUE, left |-> Duration(q.on_length)]
  <1>5. blink_array'[n] = e /\ \A m \in Nodes : m # n => blink_array'[m] = blink_array[m]
    BY <1>1 DEF Added
  <1>6. c[1] = st
    <2>1. c[1] = BlinkOf(blink_array', n)
      BY <1>1, <1>3, <1>4
    <2>2. RequestOf(blink_array'[n]) = q /\ blink_array'[n].status = 1 /\ q.on_length = r.on_length
          /\ blink_array'[n].countdown = r.on_length
      BY <1>5 DEF RequestOf
    <2> HIDE DEF e, q
    <2>3. QED
      BY <2>1, <2>2 DEF BlinkOf
  <1>7. st \in BlinkType /\ st = B!Started(q) /\ q = st.request
    <2>1. 1 \in 1 .. Len(Order')
      BY <1>1, <1>4
    <2>2. c[1] \in BlinkType
      BY <1>3, <2>1, ElementOfSeq
    <2> HIDE DEF q
    <2>3. QED
      BY <1>6, <2>2 DEF B!Started
  <1> HIDE DEF st, q, e
  <1>8. c = <<st>> \o Bs
    <2> DEFINE d == <<st>> \o Bs
    <2>1. /\ d \in Seq(BlinkType) /\ Len(d) = Len(Bs) + 1
          /\ d[1] = st /\ \A k \in 2 .. Len(Bs) + 1 : d[k] = Bs[k - 1]
      BY <1>2, <1>7, FrontIs
    <2> HIDE DEF d
    <2>2. ASSUME NEW k \in 2 .. Len(Order) + 1 PROVE c[k] = Bs[k - 1]
      <3>1. k \in 1 .. Len(Order') /\ k - 1 \in 1 .. Len(Order)
        BY <1>1, <1>4
      <3>2. c[k] = BlinkOf(blink_array', Order[k - 1]) /\ Bs[k - 1] = BlinkOf(blink_array, Order[k - 1])
        BY <1>2, <1>3, <1>4, <3>1
      <3>3. blink_array'[Order[k - 1]] = blink_array[Order[k - 1]]
        BY <1>1, <1>5, <3>1
      <3>4. QED
        BY <3>2, <3>3 DEF BlinkOf
    <2>3. Len(c) = Len(d) /\ Len(c) = Len(Order) + 1
      BY <1>1, <1>2, <1>3, <1>4, <2>1
    <2>4. ASSUME NEW k \in 1 .. Len(c) PROVE c[k] = d[k]
      <3>1. CASE k = 1
        BY <1>6, <2>1, <3>1
      <3>2. CASE k # 1
        <4>1. k \in 2 .. Len(Order) + 1
          BY <1>1, <2>3, <3>2
        <4>2. QED
          BY <1>2, <2>1, <2>2, <4>1
      <3>3. QED
        BY <3>1, <3>2
    <2>5. c = d
      BY <1>3, <2>1, <2>3, <2>4, SeqEqual
    <2>6. QED
      BY <2>5 DEF d
  <1>9. Len(c) = Len(Bs) + 1 /\ Head(c) = st
    <2>1. c # <<>>
      BY <1>1, <1>3, <1>4, EmptySeq
    <2>2. Head(c) = c[1]
      BY <1>3, <2>1, HeadTailProperties
    <2>3. QED
      BY <1>2, <1>3, <1>4, <1>6, <2>2
  <1>10. q \in AllRequests
    BY <1>7, BlinkHasRequest, Zenon
  <1>11. QED
    BY <1>7, <1>8, <1>9, <1>10, Zenon DEF B!AddBlink, c, Bs, BlinksOf, BlinkOf

LEMMA RemoveRefines ==
  ASSUME FishInv, FishInv', NEW k \in 1 .. Len(Order), NEW l,
         Names(k, l),
         Order' = Without(Order, k),
         \A m \in Nodes : m # Order[k] => NextMoves(blink_array[m], blink_array'[m])
  PROVE  B!RemoveBlink
  <1> DEFINE c == Bs'
             d == Without(Bs, k)
  <1>1. /\ Order \in Seq(Nodes) /\ Order' \in Seq(Nodes) /\ Len(Order) \in Nat
        /\ DOMAIN Order = 1 .. Len(Order)
        /\ blink_array \in [Nodes -> Entries] /\ blink_array' \in [Nodes -> Entries]
        /\ \A i \in 1 .. Len(Order) : Order[i] \in Nodes
        /\ \A i, j \in 1 .. Len(Order) : Order[i] = Order[j] => i = j
    <2>1. /\ Order' \in Seq(Nodes) /\ blink_array' \in [Nodes -> Entries]
      BY DEF FishInv, IsList, TypeOK, Entries
    <2>2. QED
      BY <2>1, ListIs
  <1>2. /\ Bs \in Seq(BlinkType) /\ Len(Bs) = Len(Order) /\ DOMAIN Bs = 1 .. Len(Order)
        /\ \A i \in 1 .. Len(Order) : Bs[i] = BlinkOf(blink_array, Order[i])
    BY <1>1, BlinksAre DEF Bs
  <1>3. /\ c \in Seq(BlinkType) /\ Len(c) = Len(Order')
        /\ \A i \in 1 .. Len(Order') : c[i] = BlinkOf(blink_array', Order'[i])
    <2>1. c = BlinksOf(blink_array', Order')
      BY DEF Bs
    <2> HIDE DEF c
    <2>2. QED
      BY <1>1, <2>1, BlinksAre, Zenon
  <1> HIDE DEF c
  <1>4. /\ Len(Order') = Len(Order) - 1
        /\ \A j \in 1 .. (Len(Order) - 1) : Order'[j] = IF j < k THEN Order[j] ELSE Order[j + 1]
    <2>1. /\ Len(Without(Order, k)) = Len(Order) - 1
          /\ \A j \in 1 .. (Len(Order) - 1) :
                Without(Order, k)[j] = IF j < k THEN Order[j] ELSE Order[j + 1]
      <3>1. k \in 1 .. Len(Order) /\ Order \in Seq(Nodes)
        BY <1>1
      <3>2. QED
        BY <3>1, WithoutIs
    <2>2. QED
      BY <2>1, Zenon
  <1>5. /\ d \in Seq(BlinkType) /\ Len(d) = Len(Order) - 1
        /\ \A j \in 1 .. (Len(Order) - 1) : d[j] = IF j < k THEN Bs[j] ELSE Bs[j + 1]
    <2>1. k \in 1 .. Len(Bs) /\ Bs \in Seq(BlinkType)
      BY <1>2
    <2>2. /\ d \in Seq(BlinkType) /\ Len(d) = Len(Bs) - 1
          /\ \A j \in 1 .. (Len(Bs) - 1) : d[j] = IF j < k THEN Bs[j] ELSE Bs[j + 1]
      BY <2>1, WithoutIs, Zenon
    <2> HIDE DEF d
    <2>3. QED
      BY <1>2, <2>2
  <1> HIDE DEF d
  <1>6. ASSUME NEW i \in 1 .. Len(Order), i # k
        PROVE  BlinkOf(blink_array', Order[i]) = Bs[i]
    <2>1. PICK p : blink_array'[Order[i]] = [blink_array[Order[i]] EXCEPT !.next = p]
      BY <1>1, <1>6 DEF NextMoves
    <2>2. blink_array[Order[i]] \in Entries
      BY <1>1
    <2> DEFINE b == blink_array[Order[i]]
               b2 == [b EXCEPT !.next = p]
    <2>3. RequestOf(b2) = RequestOf(b) /\ b2.status = b.status /\ b2.countdown = b.countdown
      BY <2>2 DEF RequestOf, Entries
    <2>4. QED
      BY <1>2, <2>1, <2>3 DEF BlinkOf
  <1>7. c = d
    <2>1. ASSUME NEW j \in 1 .. Len(c) PROVE c[j] = d[j]
      <3>1. j \in 1 .. (Len(Order) - 1) /\ j \in 1 .. Len(Order) /\ j + 1 \in 1 .. Len(Order)
            /\ j \in 1 .. Len(Order')
        BY <1>1, <1>3, <1>4
      <3>2. CASE j < k
        <4>1. c[j] = BlinkOf(blink_array', Order[j]) /\ d[j] = Bs[j] /\ j # k
          BY <1>3, <1>4, <1>5, <3>1, <3>2
        <4>2. QED
          BY <1>6, <3>1, <4>1
      <3>3. CASE ~(j < k)
        <4>1. c[j] = BlinkOf(blink_array', Order[j + 1]) /\ d[j] = Bs[j + 1] /\ j + 1 # k
          BY <1>3, <1>4, <1>5, <3>1, <3>3
        <4>2. QED
          BY <1>6, <3>1, <4>1
      <3>4. QED
        BY <3>2, <3>3
    <2>2. Len(c) = Len(d)
      BY <1>3, <1>4, <1>5
    <2>3. QED
      BY <1>3, <1>5, <2>1, <2>2, SeqEqual
  <1>8. \A i \in 1 .. Len(Order) : Bs[i].request.location = blink_array[Order[i]].location
    BY <1>2 DEF BlinkOf, RequestOf
  <1>9. B!Newest(Bs, l) = k
    <2>1. {i \in DOMAIN Bs : Bs[i].request.location = l}
            = {j \in DOMAIN Order : blink_array[Order[j]].location = l}
      BY <1>1, <1>2, <1>8
    <2>2. B!Newest(Bs, l) = Min({i \in DOMAIN Bs : Bs[i].request.location = l})
      BY DEF B!Newest, B!Min, Min
    <2>3. k = Min({j \in DOMAIN Order : blink_array[Order[j]].location = l})
      BY Zenon DEF Names
    <2>4. QED
      BY <2>1, <2>2, <2>3, Zenon
  <1>10. l \in B!Locations(Bs)
    <2>1. k \in DOMAIN Bs /\ Bs[k].request.location = l
      BY <1>2, <1>8, NamesIs, Zenon
    <2>2. QED
      BY <2>1, Zenon DEF B!Locations, B!ToSet
  <1>11. c = B!RemoveAt(Bs, B!Newest(Bs, l)) /\ Len(c) = Len(Bs) - 1
    BY <1>2, <1>3, <1>4, <1>7, <1>9, Zenon DEF B!RemoveAt, d, Without
  <1>12. QED
    BY <1>10, <1>11, Zenon DEF B!RemoveBlink, c, Bs, BlinksOf, BlinkOf

(* Records of the same fields. *)
LEMMA SameRequest ==
  ASSUME NEW q \in AllRequests, NEW r \in AllRequests,
         q.location = r.location, q.on_char = r.on_char, q.off_char = r.off_char,
         q.on_length = r.on_length, q.off_length = r.off_length
  PROVE  q = r
  BY DEF AllRequests

LEMMA SameBlink ==
  ASSUME NEW x \in BlinkType, NEW y \in BlinkType,
         x.request = y.request, x.lit = y.lit, x.left = y.left
  PROVE  x = y
  BY DEF BlinkType

LEMMA SyncedToIs ==
  ASSUME NEW y \in BlinkType, NEW x \in BlinkType, NEW z, z = B!SyncedTo(y, x)
  PROVE  /\ z \in BlinkType /\ z.request.location = y.request.location
         /\ z.request.on_char = y.request.on_char /\ z.request.off_char = y.request.off_char
         /\ z.request.on_length = x.request.on_length /\ z.request.off_length = x.request.off_length
         /\ z.lit = x.lit /\ z.left = x.left
  <1> DEFINE o == x.request.on_length
             p == x.request.off_length
             s == x.lit
             d == x.left
  <1>1. o \in Words /\ p \in Words /\ s \in BOOLEAN /\ d \in Nat
    BY DEF BlinkType, AllRequests
  <1> DEFINE w == [y EXCEPT !.request.on_length = o, !.request.off_length = p, !.lit = s, !.left = d]
  <1>2. z = w
    BY DEF B!SyncedTo
  <1> HIDE DEF o, p, s, d
  <1>3. /\ w \in BlinkType /\ w.request.location = y.request.location
        /\ w.request.on_char = y.request.on_char /\ w.request.off_char = y.request.off_char
        /\ w.request.on_length = o /\ w.request.off_length = p /\ w.lit = s /\ w.left = d
    BY <1>1 DEF AllRequests, BlinkType
  <1> HIDE DEF w
  <1>4. QED
    BY <1>2, <1>3 DEF o, p, s, d

LEMMA SyncRefines ==
  ASSUME FishInv, FishInv', NEW first, NEW second, NEW i \in 1 .. Len(Order), NEW j \in 1 .. Len(Order),
         Names(i, first), Names(j, second),
         blink_array' = Synced(Order[i], Order[j]),
         Order' = Order
  PROVE  B!SyncBlinks
  <1> DEFINE c == Bs'
  <1>1. /\ Order \in Seq(Nodes) /\ Len(Order) \in Nat /\ DOMAIN Order = 1 .. Len(Order)
        /\ blink_array \in [Nodes -> Entries] /\ blink_array' \in [Nodes -> Entries]
        /\ \A k \in 1 .. Len(Order) : Order[k] \in Nodes
        /\ \A k, h \in 1 .. Len(Order) : Order[k] = Order[h] => k = h
    <2>1. blink_array' \in [Nodes -> Entries]
      BY DEF FishInv, TypeOK, Entries
    <2>2. QED
      BY <2>1, ListIs
  <1>2. /\ Bs \in Seq(BlinkType) /\ Len(Bs) = Len(Order) /\ DOMAIN Bs = 1 .. Len(Order)
        /\ \A k \in 1 .. Len(Order) : Bs[k] = BlinkOf(blink_array, Order[k])
    BY <1>1, BlinksAre DEF Bs
  <1>3. /\ c \in Seq(BlinkType) /\ Len(c) = Len(Order) /\ DOMAIN c = 1 .. Len(Order)
        /\ \A k \in 1 .. Len(Order) : c[k] = BlinkOf(blink_array', Order[k])
    <2>1. c = BlinksOf(blink_array', Order)
      BY DEF Bs
    <2> HIDE DEF c
    <2>2. QED
      BY <1>1, <2>1, BlinksAre
  <1> HIDE DEF c
  <1> DEFINE a == blink_array[Order[i]]
             b == blink_array[Order[j]]
             e == [b EXCEPT !.on_length = a.on_length, !.off_length = a.off_length,
                            !.countdown = a.countdown, !.status = a.status]
             x == Bs[i]
             y == Bs[j]
  <1>4. blink_array'[Order[j]] = e /\ \A m \in Nodes : m # Order[j] => blink_array'[m] = blink_array[m]
    <2>1. blink_array' = [blink_array EXCEPT ![Order[j]] = e]
      BY Zenon DEF Synced, e
    <2>2. Order[j] \in Nodes
      BY <1>1
    <2> HIDE DEF e
    <2>3. \A m \in Nodes : blink_array'[m] = IF m = Order[j] THEN e ELSE blink_array[m]
      BY <1>1, <2>1
    <2> DEFINE o == Order[j]
               after == blink_array'
    <2>4. o \in Nodes /\ \A m \in Nodes : after[m] = IF m = o THEN e ELSE blink_array[m]
      BY <2>2, <2>3, Zenon
    <2> HIDE DEF o, after
    <2>5. after[o] = e /\ \A m \in Nodes : m # o => after[m] = blink_array[m]
      BY <2>4
    <2>6. QED
      BY <2>5, Zenon DEF o, after
  <1>5. a \in Entries /\ b \in Entries
    BY <1>1
  <1>6. x = BlinkOf(blink_array, Order[i]) /\ y = BlinkOf(blink_array, Order[j])
    BY <1>2
  <1>7. c[j] = B!SyncedTo(y, x)
    <2>1. c[j] = BlinkOf(blink_array', Order[j])
      BY <1>3
    <2>2. c[j] = [request |-> RequestOf(e), lit |-> e.status = 1, left |-> Duration(e.countdown)]
      BY <1>4, <2>1 DEF BlinkOf
    <2>3. /\ y = [request |-> RequestOf(b), lit |-> b.status = 1, left |-> Duration(b.countdown)]
          /\ x = [request |-> RequestOf(a), lit |-> a.status = 1, left |-> Duration(a.countdown)]
      BY <1>6 DEF BlinkOf
    <2> DEFINE mix == [location |-> b.location, on_char |-> b.on_char, off_char |-> b.off_char,
                       on_length |-> a.on_length, off_length |-> a.off_length]
    <2> HIDE DEF a, b, x, y
    <2>4. e.status = a.status /\ e.countdown = a.countdown /\ RequestOf(e) = mix
      <3>1. /\ e.location = b.location /\ e.on_char = b.on_char /\ e.off_char = b.off_char
            /\ e.on_length = a.on_length /\ e.off_length = a.off_length
            /\ e.status = a.status /\ e.countdown = a.countdown
        BY <1>5 DEF Entries
      <3> HIDE DEF e
      <3>2. QED
        BY <3>1 DEF RequestOf
    <2> HIDE DEF e
    <2>5. c[j] = [request |-> mix, lit |-> a.status = 1, left |-> Duration(a.countdown)]
      BY <2>2, <2>4
    <2>6. /\ x.request.on_length = a.on_length /\ x.request.off_length = a.off_length
          /\ x.lit = (a.status = 1) /\ x.left = Duration(a.countdown)
      BY <2>3 DEF RequestOf
    <2> DEFINE z == B!SyncedTo(y, x)
               w == [request |-> mix, lit |-> a.status = 1, left |-> Duration(a.countdown)]
    <2>7. x \in BlinkType /\ y \in BlinkType /\ w \in BlinkType
      <3>1. x \in BlinkType /\ y \in BlinkType /\ c[j] \in BlinkType
        BY <1>2, <1>3, ElementOfSeq DEF x, y
      <3>2. QED
        BY <2>5, <3>1
    <2>8. /\ z \in BlinkType /\ z.request.location = y.request.location
          /\ z.request.on_char = y.request.on_char /\ z.request.off_char = y.request.off_char
          /\ z.request.on_length = x.request.on_length /\ z.request.off_length = x.request.off_length
          /\ z.lit = x.lit /\ z.left = x.left
      BY <2>7, SyncedToIs
    <2>9. /\ y.request.location = b.location /\ y.request.on_char = b.on_char
          /\ y.request.off_char = b.off_char
      BY <2>3 DEF RequestOf
    <2>10. /\ mix.location = b.location /\ mix.on_char = b.on_char /\ mix.off_char = b.off_char
           /\ mix.on_length = a.on_length /\ mix.off_length = a.off_length
           /\ w.request = mix /\ w.lit = (a.status = 1) /\ w.left = Duration(a.countdown)
      OBVIOUS
    <2> HIDE DEF z, w, mix
    <2>11. z.request = mix
      <3>1. z.request \in AllRequests /\ mix \in AllRequests
        BY <2>7, <2>8, <2>10 DEF BlinkType
      <3>2. QED
        BY <2>6, <2>8, <2>9, <2>10, <3>1, SameRequest
    <2>12. z = w
      BY <2>6, <2>7, <2>8, <2>10, <2>11, SameBlink
    <2>13. QED
      BY <2>5, <2>12 DEF z, w
  <1>8. \A k \in 1 .. Len(Order) : k # j => c[k] = Bs[k]
    <2>1. ASSUME NEW k \in 1 .. Len(Order), k # j PROVE c[k] = Bs[k]
      <3>1. Order[k] # Order[j] /\ Order[k] \in Nodes
        BY <1>1, <2>1
      <3>2. blink_array'[Order[k]] = blink_array[Order[k]]
        BY <1>4, <3>1
      <3>3. c[k] = BlinkOf(blink_array', Order[k]) /\ Bs[k] = BlinkOf(blink_array, Order[k])
        BY <1>2, <1>3
      <3>4. QED
        BY <3>2, <3>3 DEF BlinkOf
    <2>2. QED
      BY <2>1
  <1> HIDE DEF a, b, e, x, y
  <1>9. c = [Bs EXCEPT ![j] = B!SyncedTo(@, Bs[i])]
    <2> DEFINE z == B!SyncedTo(y, x)
               d == [Bs EXCEPT ![j] = z]
    <2>1. c[j] = z
      BY <1>7
    <2> HIDE DEF z
    <2>2. z \in BlinkType
      BY <1>3, <2>1, ElementOfSeq
    <2>3. d \in Seq(BlinkType) /\ Len(d) = Len(Bs) /\ \A k \in 1 .. Len(Bs) : d[k] = IF k = j THEN z ELSE Bs[k]
      BY <1>2, <2>2, ExceptSeq
    <2> HIDE DEF d
    <2>4. c = d
      BY <1>2, <1>3, <1>8, <2>1, <2>3, SeqEqual
    <2>5. d = [Bs EXCEPT ![j] = B!SyncedTo(@, Bs[i])]
      BY DEF d, z, x, y
    <2>6. QED
      BY <2>4, <2>5
  <1>10. \A k \in 1 .. Len(Order) : Bs[k].request.location = blink_array[Order[k]].location
    BY <1>2 DEF BlinkOf, RequestOf
  <1>11. B!Newest(Bs, first) = i /\ B!Newest(Bs, second) = j
    <2>1. /\ {k \in DOMAIN Bs : Bs[k].request.location = first}
               = {k \in DOMAIN Order : blink_array[Order[k]].location = first}
          /\ {k \in DOMAIN Bs : Bs[k].request.location = second}
               = {k \in DOMAIN Order : blink_array[Order[k]].location = second}
      BY <1>1, <1>2, <1>10
    <2>2. /\ B!Newest(Bs, first) = Min({k \in DOMAIN Bs : Bs[k].request.location = first})
          /\ B!Newest(Bs, second) = Min({k \in DOMAIN Bs : Bs[k].request.location = second})
      BY DEF B!Newest, B!Min, Min
    <2>3. /\ i = Min({k \in DOMAIN Order : blink_array[Order[k]].location = first})
          /\ j = Min({k \in DOMAIN Order : blink_array[Order[k]].location = second})
      BY Zenon DEF Names
    <2>4. i = B!Newest(Bs, first)
      BY <2>1, <2>2, <2>3
    <2>5. j = B!Newest(Bs, second)
      BY <2>1, <2>2, <2>3
    <2>6. QED
      BY <2>4, <2>5
  <1>12. first \in B!Locations(Bs) /\ second \in B!Locations(Bs)
    <2>1. /\ i \in DOMAIN Bs /\ Bs[i].request.location = first
          /\ j \in DOMAIN Bs /\ Bs[j].request.location = second
      BY <1>1, <1>2, <1>10, NamesIs, Zenon
    <2>2. QED
      BY <2>1, Zenon DEF B!Locations, B!ToSet
  <1>13. c = B!Synced(Bs, first, second)
    BY <1>9, <1>11 DEF B!Synced
  <1>14. QED
    BY <1>12, <1>13 DEF B!SyncBlinks, c, Bs, BlinksOf, BlinkOf

LEMMA TickRefines ==
  ASSUME FishInv, FishInv', Order' = Order,
         \A n \in Linked : blink_array'[n] =
            IF Expires(blink_array[n]) THEN Toggled(blink_array[n])
            ELSE [blink_array[n] EXCEPT !.countdown = Decremented(@)]
  PROVE  B!Tick
  <1> DEFINE c == Bs'
  <1>1. /\ Order \in Seq(Nodes) /\ Len(Order) \in Nat
        /\ blink_array \in [Nodes -> Entries] /\ blink_array' \in [Nodes -> Entries]
        /\ \A k \in 1 .. Len(Order) : Order[k] \in Nodes /\ Order[k] \in Linked
    <2>1. blink_array' \in [Nodes -> Entries]
      BY DEF FishInv, TypeOK, Entries
    <2>2. QED
      BY <2>1, ListIs
  <1>2. /\ Bs \in Seq(BlinkType) /\ Len(Bs) = Len(Order) /\ DOMAIN Bs = 1 .. Len(Order)
        /\ \A k \in 1 .. Len(Order) : Bs[k] = BlinkOf(blink_array, Order[k])
    BY <1>1, BlinksAre DEF Bs
  <1>3. /\ c \in Seq(BlinkType) /\ Len(c) = Len(Order) /\ DOMAIN c = 1 .. Len(Order)
        /\ \A k \in 1 .. Len(Order) : c[k] = BlinkOf(blink_array', Order[k])
    <2>1. c = BlinksOf(blink_array', Order)
      BY DEF Bs
    <2> HIDE DEF c
    <2>2. QED
      BY <1>1, <2>1, BlinksAre
  <1> HIDE DEF c
  <1>4. ASSUME NEW k \in 1 .. Len(Order)
        PROVE  c[k] = IF Bs[k].left = 1 THEN B!Turned(Bs[k]) ELSE [Bs[k] EXCEPT !.left = @ - 1]
    <2> DEFINE b == blink_array[Order[k]]
               e == blink_array'[Order[k]]
               x == Bs[k]
    <2>1. b \in Entries /\ b.countdown \in Words /\ b.status \in {0, 1}
      BY <1>1 DEF Entries
    <2>2. x = [request |-> RequestOf(b), lit |-> b.status = 1, left |-> Duration(b.countdown)]
          /\ c[k] = [request |-> RequestOf(e), lit |-> e.status = 1, left |-> Duration(e.countdown)]
      BY <1>2, <1>3 DEF BlinkOf
    <2>3. x.left = 1 <=> Expires(b)
      BY <2>1, <2>2, DurationIs DEF Expires
    <2>4. CASE Expires(b)
      <3> DEFINE left == IF b.status = 1 THEN b.off_length ELSE b.on_length
      <3>1. e = [b EXCEPT !.status = 1 - b.status, !.countdown = left]
        <4>1. e = Toggled(b)
          BY <1>1, <2>4
        <4> HIDE DEF e, b
        <4>2. QED
          BY <2>1, <4>1 DEF Toggled, Entries
      <3> HIDE DEF b, e
      <3>2. e.status = 1 - b.status /\ e.countdown = left /\ RequestOf(e) = RequestOf(b)
        <4> HIDE DEF left
        <4>1. QED
          BY <2>1, <3>1 DEF Entries, RequestOf
      <3>3. e.status = 1 <=> ~(b.status = 1)
        BY <2>1, <3>2
      <3>4. RequestOf(b).off_length = b.off_length /\ RequestOf(b).on_length = b.on_length
        BY DEF RequestOf
      <3> DEFINE dur == Duration(left)
      <3>5. B!Turned(x) = [request |-> RequestOf(b), lit |-> ~(b.status = 1), left |-> dur]
        <4>1. Duration(IF x.lit THEN x.request.off_length ELSE x.request.on_length) = dur
          <5> HIDE DEF x
          <5>1. QED
            BY <2>2, <3>4
        <4> HIDE DEF dur, x
        <4>2. B!Turned(x) = [x EXCEPT !.lit = ~(x.lit), !.left = dur]
          BY <4>1 DEF B!Turned
        <4>3. QED
          BY <2>2, <4>2
      <3>6. c[k] = [request |-> RequestOf(b), lit |-> ~(b.status = 1), left |-> dur]
        <4>1. c[k] = [request |-> RequestOf(b), lit |-> e.status = 1, left |-> dur]
          BY <2>2, <3>2
        <4>2. (e.status = 1) = ~(b.status = 1)
          BY <3>3
        <4>3. QED
          BY <4>1, <4>2
      <3>7. QED
        BY <2>3, <2>4, <3>5, <3>6
    <2>5. CASE ~Expires(b)
      <3> DEFINE dec == Decremented(b.countdown)
      <3>1. e = [b EXCEPT !.countdown = dec]
        <4>1. e = [b EXCEPT !.countdown = Decremented(@)]
          BY <1>1, <2>5
        <4> HIDE DEF e, b
        <4>2. QED
          BY <4>1
      <3>2. Duration(dec) = Duration(b.countdown) - 1
        BY <2>1, <2>5, DurationIs DEF Expires
      <3> HIDE DEF b, e, dec
      <3>3. e.status = b.status /\ e.countdown = dec /\ RequestOf(e) = RequestOf(b)
        BY <2>1, <3>1 DEF Entries, RequestOf
      <3>4. c[k] = [request |-> RequestOf(b), lit |-> b.status = 1, left |-> Duration(b.countdown) - 1]
        BY <2>2, <3>2, <3>3
      <3> HIDE DEF x
      <3>5. [x EXCEPT !.left = @ - 1] =
              [request |-> RequestOf(b), lit |-> b.status = 1, left |-> Duration(b.countdown) - 1]
        BY <2>2
      <3>6. QED
        BY <2>3, <2>5, <3>4, <3>5 DEF x
    <2>6. QED
      BY <2>4, <2>5
  <1>5. c = B!Ticked(Bs)
    <2> DEFINE f(k) == IF Bs[k].left = 1 THEN B!Turned(Bs[k]) ELSE [Bs[k] EXCEPT !.left = @ - 1]
    <2>1. c = [k \in 1 .. Len(Order) |-> c[k]]
      <3>1. c \in [1 .. Len(c) -> BlinkType]
        BY <1>3, LenProperties
      <3>2. QED
        BY <1>3, <3>1
    <2>2. c = [k \in 1 .. Len(Order) |-> f(k)]
      <3>1. \A k \in 1 .. Len(Order) : c[k] = f(k)
        BY <1>4
      <3> HIDE DEF f
      <3>2. QED
        BY <2>1, <3>1
    <2>3. B!Ticked(Bs) = [k \in 1 .. Len(Order) |-> f(k)]
      BY <1>2 DEF B!Ticked
    <2>4. QED
      BY <2>2, <2>3
  <1>6. QED
    BY <1>5 DEF B!Tick, c, Bs, BlinksOf, BlinkOf

-----------------------------------------------------------------------------
(* The reading loop. *)

Texts == Chars \cup {SPACE, NEWLINE}
ReaderType ==
  [c0 : Texts \cup {"0"}, c1 : Texts \cup {"0"}, read0 : Nat, read1 : Nat,
   eof0 : BOOLEAN, eof1 : BOOLEAN, row : Nat, col : Nat, done : BOOLEAN]
ReaderOK ==
  /\ frame0 \in Seq(Texts) /\ frame1 \in Seq(Texts) /\ reader \in ReaderType
  /\ reader.read0 <= Len(frame0) /\ reader.read1 <= Len(frame1)

(* What a column reads of a file, and how far it then is. *)
LEMMA NextCharIs ==
  ASSUME NEW f \in Seq(Texts), NEW c, NEW read \in Nat, read <= Len(f)
  PROVE  /\ NextChar(f, c, read) \in Texts /\ Shown(NextChar(f, c, read)) \in Shades
         /\ Min({read + 1, Len(f)}) = IF read = Len(f) THEN read ELSE read + 1
         /\ Len(f) \in Nat
  <1>1. Len(f) \in Nat /\ \A i \in 1 .. Len(f) : f[i] \in Texts
    BY LenProperties, ElementOfSeq
  <1>2. NextChar(f, c, read) \in Texts
    <2>1. CASE c = NEWLINE \/ read = Len(f)
      BY <2>1 DEF NextChar, Texts
    <2>2. CASE ~(c = NEWLINE \/ read = Len(f))
      <3>1. read + 1 \in 1 .. Len(f)
        BY <1>1, <2>2
      <3>2. QED
        BY <1>1, <2>2, <3>1 DEF NextChar
    <2>3. QED
      BY <2>1, <2>2
  <1>3. Shown(NextChar(f, c, read)) \in Shades
    BY <1>2 DEF Shown, Texts, Shades
  <1>4. Min({read + 1, Len(f)}) = IF read = Len(f) THEN read ELSE read + 1
    <2> DEFINE T == {read + 1, Len(f)}
    <2>1. T \in SUBSET Nat /\ T # {}
      BY <1>1
    <2>2. Min(T) \in T /\ \A k \in T : Min(T) <= k
      <3> HIDE DEF T
      <3>1. QED
        BY <2>1, MinIs
    <2>3. QED
      BY <1>1, <2>2
  <1>5. QED
    BY <1>1, <1>2, <1>3, <1>4

(* The places of the characters of a file. *)

Ended(f, i) == {j \in 1 .. (i - 1) : f[j] = NEWLINE}
LastEnd(f, i) == Max({0} \cup Ended(f, i))
Before(r, k, row, col) == r < row \/ (r = row /\ k < col)

LEMMA EndedIs ==
  ASSUME NEW f, NEW i \in Nat \ {0}
  PROVE  /\ IsFiniteSet(Ended(f, i)) /\ Cardinality(Ended(f, i)) \in 0 .. (i - 1)
         /\ RowOf(f, i) = Cardinality(Ended(f, i)) /\ ColOf(f, i) = i - 1 - LastEnd(f, i)
         /\ RowOf(f, i) \in 0 .. (i - 1) /\ ColOf(f, i) \in 0 .. (i - 1)
         /\ LastEnd(f, i) \in 0 .. (i - 1) /\ LastEnd(f, i) \in {0} \cup Ended(f, i)
         /\ \A j \in Ended(f, i) : j <= LastEnd(f, i)
  <1> DEFINE T == Ended(f, i)
             U == {0} \cup T
             n == i - 1
             m == LastEnd(f, i)
  <1>1. n \in Nat /\ IsFiniteSet(1 .. n) /\ Cardinality(1 .. n) = n
    <2>1. 1 \in Int /\ n \in Int /\ n \in Nat
      OBVIOUS
    <2> HIDE DEF n
    <2>2. Cardinality(1 .. n) = IF 1 > n THEN 0 ELSE n - 1 + 1
      BY <2>1, FS_Interval
    <2>3. QED
      BY <2>1, <2>2, FS_Interval
  <1>2. T \subseteq 1 .. n
    BY DEF Ended
  <1>3. RowOf(f, i) = Cardinality(T) /\ ColOf(f, i) = n - Max(U) /\ m = Max(U)
    BY DEF RowOf, ColOf, Ended, LastEnd
  <1> HIDE DEF T, m, n
  <1>4. IsFiniteSet(T) /\ Cardinality(T) \in Nat /\ Cardinality(T) <= n
    BY <1>1, <1>2, FS_Subset, FS_CardinalityType
  <1>5. Max(U) \in U /\ \A j \in U : Max(U) >= j
    <2>1. U \subseteq 0 .. n /\ U # {}
      BY <1>1, <1>2
    <2> HIDE DEF U
    <2>2. QED
      BY <1>1, <2>1, MaxIs
  <1>6. m \in U /\ \A j \in U : m >= j
    BY <1>3, <1>5
  <1>7. m \in 0 .. n /\ \A j \in T : j <= m
    BY <1>1, <1>2, <1>6
  <1>8. ColOf(f, i) = n - m
    BY <1>3
  <1> HIDE DEF U
  <1>9. Cardinality(T) \in 0 .. n /\ n - m \in 0 .. n
    BY <1>1, <1>4, <1>7
  <1>10. QED
    BY <1>3, <1>4, <1>6, <1>7, <1>8, <1>9 DEF T, U, m, n

LEMMA FirstPlace ==
  ASSUME NEW f
  PROVE  RowOf(f, 1) = 0 /\ ColOf(f, 1) = 0
  <1>1. RowOf(f, 1) \in 0 .. (1 - 1) /\ ColOf(f, 1) \in 0 .. (1 - 1)
    BY EndedIs
  <1>2. QED
    BY <1>1

LEMMA NextPlace ==
  ASSUME NEW f, NEW i \in Nat \ {0}
  PROVE  /\ f[i] = NEWLINE => RowOf(f, i + 1) = RowOf(f, i) + 1 /\ ColOf(f, i + 1) = 0
         /\ f[i] # NEWLINE => RowOf(f, i + 1) = RowOf(f, i) /\ ColOf(f, i + 1) = ColOf(f, i) + 1
  <1> DEFINE T == Ended(f, i)
             U == Ended(f, i + 1)
  <1>1. i + 1 \in Nat \ {0} /\ i + 1 - 1 = i
    OBVIOUS
  <1>2. CASE f[i] = NEWLINE
    <2>1. U = T \cup {i} /\ i \notin T
      BY <1>1, <1>2 DEF Ended
    <2>2. Cardinality(U) = Cardinality(T) + 1
      <3>1. IsFiniteSet(T)
        BY EndedIs
      <3> HIDE DEF T, U
      <3>2. QED
        BY <2>1, <3>1, FS_AddElement
    <2>3. LastEnd(f, i + 1) = i
      <3>1. i <= LastEnd(f, i + 1) /\ LastEnd(f, i + 1) \in 0 .. i
        BY <1>1, <2>1, EndedIs
      <3>2. QED
        BY <3>1
    <2>4. RowOf(f, i + 1) = Cardinality(U) /\ ColOf(f, i + 1) = i - LastEnd(f, i + 1)
          /\ RowOf(f, i) = Cardinality(T)
      BY <1>1, EndedIs
    <2> HIDE DEF T, U
    <2>5. QED
      BY <1>2, <2>2, <2>3, <2>4
  <1>3. CASE f[i] # NEWLINE
    <2>1. U = T
      BY <1>1, <1>3 DEF Ended
    <2>2. LastEnd(f, i + 1) = LastEnd(f, i)
      BY <2>1 DEF LastEnd
    <2>3. /\ RowOf(f, i + 1) = Cardinality(U) /\ ColOf(f, i + 1) = i - LastEnd(f, i + 1)
          /\ RowOf(f, i) = Cardinality(T) /\ ColOf(f, i) = i - 1 - LastEnd(f, i)
          /\ LastEnd(f, i) \in 0 .. (i - 1)
      BY <1>1, EndedIs
    <2> HIDE DEF T, U
    <2>4. QED
      BY <1>3, <2>1, <2>2, <2>3
  <1>4. QED
    BY <1>2, <1>3

(* A later character is at a later place. *)
LEMMA PlacesGrow ==
  ASSUME NEW f, NEW i \in Nat \ {0}, NEW j \in Nat \ {0}, i < j
  PROVE  Before(RowOf(f, i), ColOf(f, i), RowOf(f, j), ColOf(f, j))
  <1> DEFINE T == Ended(f, i)
             U == Ended(f, j)
  <1>1. T \subseteq U
    BY DEF Ended
  <1>2. /\ IsFiniteSet(U) /\ Cardinality(U) \in Nat /\ Cardinality(T) \in Nat
        /\ RowOf(f, i) = Cardinality(T) /\ RowOf(f, j) = Cardinality(U)
        /\ ColOf(f, i) = i - 1 - LastEnd(f, i) /\ ColOf(f, j) = j - 1 - LastEnd(f, j)
        /\ LastEnd(f, i) \in Int
    BY EndedIs
  <1>3. T = U => LastEnd(f, i) = LastEnd(f, j)
    BY DEF LastEnd
  <1> HIDE DEF T, U
  <1>4. Cardinality(T) <= Cardinality(U) /\ (Cardinality(T) = Cardinality(U) => T = U)
    BY <1>1, <1>2, FS_Subset
  <1>5. CASE Cardinality(T) = Cardinality(U)
    BY <1>2, <1>3, <1>4, <1>5 DEF Before
  <1>6. CASE Cardinality(T) # Cardinality(U)
    BY <1>2, <1>4, <1>6 DEF Before
  <1>7. QED
    BY <1>5, <1>6

LEMMA OnePlace ==
  ASSUME NEW f, NEW i \in Nat \ {0}, NEW j \in Nat \ {0},
         RowOf(f, i) = RowOf(f, j), ColOf(f, i) = ColOf(f, j)
  PROVE  i = j
  <1>1. RowOf(f, i) \in Int /\ ColOf(f, i) \in Int
    BY EndedIs
  <1>2. i < j => FALSE
    <2>1. i < j => Before(RowOf(f, i), ColOf(f, i), RowOf(f, j), ColOf(f, j))
      BY PlacesGrow
    <2>2. QED
      BY <1>1, <2>1 DEF Before
  <1>3. j < i => FALSE
    <2>1. j < i => Before(RowOf(f, j), ColOf(f, j), RowOf(f, i), ColOf(f, i))
      BY PlacesGrow
    <2>2. QED
      BY <1>1, <2>1 DEF Before
  <1>4. QED
    BY <1>2, <1>3

LEMMA CharAtIs ==
  ASSUME NEW f \in Seq(Texts), NEW row, NEW col
  PROVE  \/ /\ CharAt(f, row, col) = SPACE
            /\ \A i \in 1 .. Len(f) : f[i] # NEWLINE => ~(RowOf(f, i) = row /\ ColOf(f, i) = col)
         \/ \E i \in 1 .. Len(f) :
               /\ f[i] # NEWLINE /\ RowOf(f, i) = row /\ ColOf(f, i) = col
               /\ CharAt(f, row, col) = f[i]
  <1> DEFINE here == {i \in DOMAIN f : f[i] # NEWLINE /\ RowOf(f, i) = row /\ ColOf(f, i) = col}
  <1>1. DOMAIN f = 1 .. Len(f)
    BY LenProperties
  <1>2. CharAt(f, row, col) = IF here = {} THEN SPACE ELSE f[CHOOSE i \in here : TRUE]
    BY DEF CharAt
  <1>3. CASE here = {}
    BY <1>1, <1>2, <1>3
  <1>4. CASE here # {}
    <2> DEFINE i == CHOOSE i \in here : TRUE
    <2>1. i \in here /\ CharAt(f, row, col) = f[i]
      <3> HIDE DEF here
      <3>1. QED
        BY <1>2, <1>4
    <2> HIDE DEF i
    <2>2. QED
      BY <1>1, <2>1
  <1>5. QED
    BY <1>3, <1>4

(* Where the reading loop is in a file: everything before it is read. *)
AtPlace(f, c, read, eof, row, col) ==
  /\ read \in 0 .. Len(f) /\ eof \in BOOLEAN
  /\ \A i \in 1 .. read : Before(RowOf(f, i), ColOf(f, i), row, col)
  /\ c # NEWLINE => ~eof /\ RowOf(f, read + 1) = row /\ ColOf(f, read + 1) = col
  /\ c = NEWLINE /\ ~eof => RowOf(f, read + 1) = row + 1 /\ ColOf(f, read + 1) = 0
  /\ eof => c = NEWLINE /\ read = Len(f)

EofOf(f, c, read, eof) == eof \/ (c # NEWLINE /\ read = Len(f))
ReadOf(f, c, read) == IF c # NEWLINE /\ read # Len(f) THEN read + 1 ELSE read

(* A line that has ended has no character left. *)
LEMMA LineEnds ==
  ASSUME NEW f \in Seq(Texts), NEW c, NEW read, NEW eof, NEW row \in Nat, NEW col \in Nat,
         AtPlace(f, c, read, eof, row, col), NextChar(f, c, read) = NEWLINE,
         NEW i \in 1 .. Len(f), f[i] # NEWLINE
  PROVE  Before(RowOf(f, i), ColOf(f, i), row, col) \/ RowOf(f, i) > row
  <1>1. Len(f) \in Nat /\ read \in 0 .. Len(f) /\ i \in Nat \ {0} /\ RowOf(f, i) \in Int
    BY LenProperties, EndedIs DEF AtPlace
  <1>2. CASE i <= read
    BY <1>1, <1>2 DEF AtPlace
  <1>3. CASE i > read
    <2>1. ~eof /\ read # Len(f) /\ read + 1 \in Nat \ {0} /\ read + 1 <= Len(f)
      BY <1>1, <1>3 DEF AtPlace
    <2>2. CASE c = NEWLINE
      <3>1. RowOf(f, read + 1) = row + 1
        BY <2>1, <2>2 DEF AtPlace
      <3>2. i = read + 1 \/ Before(RowOf(f, read + 1), ColOf(f, read + 1), RowOf(f, i), ColOf(f, i))
        BY <1>1, <1>3, <2>1, PlacesGrow
      <3>3. QED
        BY <1>1, <3>1, <3>2 DEF Before
    <2>3. CASE c # NEWLINE
      <3>1. f[read + 1] = NEWLINE /\ RowOf(f, read + 1) = row
        BY <2>1, <2>3 DEF AtPlace, NextChar
      <3>2. i > read + 1 /\ read + 1 + 1 \in Nat \ {0} /\ RowOf(f, read + 1 + 1) = row + 1
        BY <1>1, <1>3, <2>1, <3>1, NextPlace
      <3>3. i = read + 1 + 1
            \/ Before(RowOf(f, read + 1 + 1), ColOf(f, read + 1 + 1), RowOf(f, i), ColOf(f, i))
        BY <1>1, <3>2, PlacesGrow
      <3>4. QED
        BY <1>1, <3>2, <3>3 DEF Before
    <2>4. QED
      BY <2>2, <2>3
  <1>4. QED
    BY <1>1, <1>2, <1>3

(* What the loop reads is the character of the place it is at. *)
LEMMA CharHere ==
  ASSUME NEW f \in Seq(Texts), NEW c, NEW read, NEW eof, NEW row \in Nat, NEW col \in Nat,
         AtPlace(f, c, read, eof, row, col)
  PROVE  /\ CharAt(f, row, col) = Shown(NextChar(f, c, read))
         /\ Draws(NextChar(f, c, read)) => row <= Len(f) /\ col <= Len(f)
  <1> DEFINE n == NextChar(f, c, read)
  <1>1. Len(f) \in Nat /\ read \in 0 .. Len(f)
    BY LenProperties DEF AtPlace
  <1>2. CASE n = NEWLINE
    <2>1. ASSUME NEW i \in 1 .. Len(f), f[i] # NEWLINE
          PROVE  ~(RowOf(f, i) = row /\ ColOf(f, i) = col)
      <3>1. Before(RowOf(f, i), ColOf(f, i), row, col) \/ RowOf(f, i) > row
        BY <1>2, <2>1, LineEnds
      <3>2. RowOf(f, i) \in Int /\ ColOf(f, i) \in Int
        BY <1>1, EndedIs
      <3>3. QED
        BY <3>1, <3>2 DEF Before
    <2>2. CharAt(f, row, col) = SPACE
      BY <2>1, CharAtIs
    <2>3. QED
      BY <1>2, <2>2 DEF Shown, Draws
  <1>3. CASE n # NEWLINE
    <2>1. c # NEWLINE /\ read # Len(f) /\ n = f[read + 1]
      BY <1>3 DEF NextChar
    <2>2. /\ read + 1 \in 1 .. Len(f) /\ read + 1 \in Nat \ {0}
          /\ RowOf(f, read + 1) = row /\ ColOf(f, read + 1) = col
      BY <1>1, <2>1 DEF AtPlace
    <2>3. PICK i \in 1 .. Len(f) : /\ f[i] # NEWLINE /\ RowOf(f, i) = row /\ ColOf(f, i) = col
                                   /\ CharAt(f, row, col) = f[i]
      BY <1>3, <2>1, <2>2, CharAtIs
    <2>4. i = read + 1
      <3>1. i \in Nat \ {0}
        BY <1>1
      <3>2. QED
        BY <2>2, <2>3, <3>1, OnePlace
    <2>5. row <= Len(f) /\ col <= Len(f)
      <3>1. i \in Nat \ {0} /\ i <= Len(f)
        BY <1>1
      <3>2. RowOf(f, i) \in 0 .. (i - 1) /\ ColOf(f, i) \in 0 .. (i - 1)
        BY <3>1, EndedIs
      <3>3. QED
        BY <1>1, <2>3, <3>1, <3>2
    <2>6. QED
      BY <1>3, <2>1, <2>3, <2>4, <2>5 DEF Shown
  <1>4. QED
    BY <1>2, <1>3

(* A column further, and a row further. *)
LEMMA NextColumn ==
  ASSUME NEW f \in Seq(Texts), NEW c, NEW read, NEW eof, NEW row \in Nat, NEW col \in Nat,
         AtPlace(f, c, read, eof, row, col)
  PROVE  AtPlace(f, NextChar(f, c, read), ReadOf(f, c, read), EofOf(f, c, read, eof), row, col + 1)
  <1> DEFINE n == NextChar(f, c, read)
             read2 == ReadOf(f, c, read)
             eof2 == EofOf(f, c, read, eof)
  <1>1. /\ Len(f) \in Nat /\ read \in 0 .. Len(f) /\ eof \in BOOLEAN /\ read + 1 \in Nat \ {0}
        /\ \A i \in 1 .. read : Before(RowOf(f, i), ColOf(f, i), row, col)
        /\ \A i \in Nat \ {0} : RowOf(f, i) \in Int /\ ColOf(f, i) \in Int
    BY LenProperties, EndedIs DEF AtPlace
  <1>2. ASSUME NEW i \in 1 .. read PROVE Before(RowOf(f, i), ColOf(f, i), row, col + 1)
    <2>1. RowOf(f, i) \in Int /\ ColOf(f, i) \in Int /\ Before(RowOf(f, i), ColOf(f, i), row, col)
      BY <1>1
    <2>2. QED
      BY <2>1 DEF Before
  <1>3. CASE c = NEWLINE \/ read = Len(f)
    <2>1. n = NEWLINE /\ read2 = read /\ eof2 \in BOOLEAN
      BY <1>1, <1>3 DEF NextChar, ReadOf, EofOf
    <2>2. eof2 => read = Len(f)
      BY DEF EofOf, AtPlace
    <2>3. ~eof2 => c = NEWLINE /\ ~eof
      BY <1>3 DEF EofOf
    <2> HIDE DEF n, read2, eof2
    <2>4. AtPlace(f, n, read2, eof2, row, col + 1)
      BY <1>1, <1>2, <2>1, <2>2, <2>3 DEF AtPlace
    <2>5. QED
      BY <2>4 DEF n, read2, eof2
  <1>4. CASE ~(c = NEWLINE \/ read = Len(f))
    <2>1. n = f[read + 1] /\ read2 = read + 1 /\ ~eof /\ ~eof2
      BY <1>4 DEF NextChar, ReadOf, EofOf, AtPlace
    <2>2. RowOf(f, read + 1) = row /\ ColOf(f, read + 1) = col /\ read + 1 \in 0 .. Len(f)
      BY <1>1, <1>4 DEF AtPlace
    <2>3. \A i \in 1 .. (read + 1) : Before(RowOf(f, i), ColOf(f, i), row, col + 1)
      <3>1. \A i \in 1 .. (read + 1) : i \in 1 .. read \/ i = read + 1
        BY <1>1
      <3>2. Before(row, col, row, col + 1)
        BY DEF Before
      <3>3. QED
        BY <1>2, <2>2, <3>1, <3>2
    <2>4. /\ f[read + 1] = NEWLINE => RowOf(f, read + 1 + 1) = row + 1 /\ ColOf(f, read + 1 + 1) = 0
          /\ f[read + 1] # NEWLINE => RowOf(f, read + 1 + 1) = row /\ ColOf(f, read + 1 + 1) = col + 1
      BY <1>1, <2>2, NextPlace
    <2>5. eof2 \in BOOLEAN
      BY <2>1 DEF EofOf
    <2> HIDE DEF n, read2, eof2
    <2>6. AtPlace(f, n, read2, eof2, row, col + 1)
      BY <2>1, <2>2, <2>3, <2>4, <2>5 DEF AtPlace
    <2>7. QED
      BY <2>6 DEF n, read2, eof2
  <1>5. QED
    BY <1>3, <1>4

LEMMA NextRow ==
  ASSUME NEW f \in Seq(Texts), NEW read, NEW eof, NEW row \in Nat, NEW col,
         AtPlace(f, NEWLINE, read, eof, row, col)
  PROVE  AtPlace(f, Restarted(eof), read, eof, row + 1, 0)
  <1>1. \A i \in 1 .. read : RowOf(f, i) \in Int
    <2>1. Len(f) \in Nat /\ read \in 0 .. Len(f)
      BY LenProperties DEF AtPlace
    <2>2. QED
      BY <2>1, EndedIs
  <1>2. \A i \in 1 .. read : Before(RowOf(f, i), ColOf(f, i), row + 1, 0)
    BY <1>1 DEF AtPlace, Before
  <1>3. Restarted(eof) = IF eof THEN NEWLINE ELSE "0"
    BY DEF Restarted
  <1>4. NEWLINE # "0"
    BY DEF NEWLINE
  <1>5. QED
    BY <1>2, <1>3, <1>4 DEF AtPlace

-----------------------------------------------------------------------------
(* What a turn of the loop does, its reads and its add taken apart. *)
Now0 == NextChar(frame0, reader.c0, reader.read0)
Now1 == NextChar(frame1, reader.c1, reader.read1)
Eof0 == reader.eof0 \/ (reader.c0 # NEWLINE /\ reader.read0 = Len(frame0))
Eof1 == reader.eof1 \/ (reader.c1 # NEWLINE /\ reader.read1 = Len(frame1))
Read0 == IF reader.c0 # NEWLINE /\ reader.read0 # Len(frame0) THEN reader.read0 + 1 ELSE reader.read0
Read1 == IF reader.c1 # NEWLINE /\ reader.read1 # Len(frame1) THEN reader.read1 + 1 ELSE reader.read1
Request(r, k) ==
  [location |-> LocationOf(r, k), on_char |-> Shown(Now0), off_char |-> Shown(Now1),
   on_length |-> FRAME_LENGTH, off_length |-> FRAME_LENGTH]

Ends == /\ Now0 = NEWLINE /\ Now1 = NEWLINE /\ Eof0 /\ Eof1
        /\ reader' = Closed /\ frame0' = <<>> /\ frame1' = <<>> /\ UNCHANGED listVars
Wraps == /\ Now0 = NEWLINE /\ Now1 = NEWLINE /\ ~(Eof0 /\ Eof1)
         /\ reader' = [reader EXCEPT !.eof0 = Eof0, !.eof1 = Eof1, !.read0 = Read0, !.read1 = Read1,
                                     !.c0 = Restarted(Eof0), !.c1 = Restarted(Eof1),
                                     !.row = @ + 1, !.col = 0]
         /\ UNCHANGED <<frame0, frame1>> /\ UNCHANGED listVars
Passes == /\ ~(Now0 = NEWLINE /\ Now1 = NEWLINE)
          /\ reader' = [reader EXCEPT !.eof0 = Eof0, !.eof1 = Eof1, !.read0 = Read0, !.read1 = Read1,
                                      !.c0 = Now0, !.c1 = Now1, !.col = @ + 1]
          /\ UNCHANGED <<frame0, frame1>>
          /\ \/ (Draws(Now0) \/ Draws(Now1)) /\ mp1_ioctl_add(Request(reader.row, reader.col))
             \/ ~(Draws(Now0) \/ Draws(Now1)) /\ UNCHANGED listVars

LEMMA ColumnIs ==
  ASSUME ReaderOK, ReadColumn
  PROVE  ~reader.done /\ (Ends \/ Wraps \/ Passes)
  <1>1. /\ Min({reader.read0 + 1, Len(frame0)}) =
             IF reader.read0 = Len(frame0) THEN reader.read0 ELSE reader.read0 + 1
        /\ Min({reader.read1 + 1, Len(frame1)}) =
             IF reader.read1 = Len(frame1) THEN reader.read1 ELSE reader.read1 + 1
    BY NextCharIs DEF ReaderOK, ReaderType
  <1> DEFINE moved == [reader EXCEPT !.eof0 = Eof0, !.eof1 = Eof1, !.read0 = Read0, !.read1 = Read1]
  <1>2. moved = [reader EXCEPT
                    !.eof0 = Eof0, !.eof1 = Eof1,
                    !.read0 = IF reader.c0 # NEWLINE THEN Min({@ + 1, Len(frame0)}) ELSE @,
                    !.read1 = IF reader.c1 # NEWLINE THEN Min({@ + 1, Len(frame1)}) ELSE @]
    BY <1>1 DEF Read0, Read1
  <1> HIDE DEF moved
  <1>3. /\ ~reader.done
        /\ IF Now0 = NEWLINE /\ Now1 = NEWLINE
           THEN /\ \/ /\ Eof0 /\ Eof1
                      /\ reader' = Closed /\ frame0' = <<>> /\ frame1' = <<>>
                   \/ /\ ~(Eof0 /\ Eof1)
                      /\ reader' = [moved EXCEPT !.c0 = Restarted(Eof0), !.c1 = Restarted(Eof1),
                                                 !.row = @ + 1, !.col = 0]
                      /\ UNCHANGED <<frame0, frame1>>
                /\ UNCHANGED listVars
           ELSE /\ reader' = [moved EXCEPT !.c0 = Now0, !.c1 = Now1, !.col = @ + 1]
                /\ IF Draws(Now0) \/ Draws(Now1)
                   THEN mp1_ioctl_add(Request(reader.row, reader.col))
                   ELSE UNCHANGED listVars
                /\ UNCHANGED <<frame0, frame1>>
    BY <1>2 DEF ReadColumn, Now0, Now1, Eof0, Eof1, Request
  <1>4. QED
    BY <1>3 DEF Ends, Wraps, Passes, moved

LEMMA ReaderKeeps ==
  ASSUME ReaderOK, ReadColumn
  PROVE  ReaderOK'
  <1>1. /\ Len(frame0) \in Nat /\ Len(frame1) \in Nat
        /\ Now0 \in Texts /\ Now1 \in Texts /\ Shown(Now0) \in Shades /\ Shown(Now1) \in Shades
    BY NextCharIs DEF ReaderOK, ReaderType, Now0, Now1
  <1>2. /\ Read0 \in Nat /\ Read0 <= Len(frame0) /\ Read1 \in Nat /\ Read1 <= Len(frame1)
        /\ Eof0 \in BOOLEAN /\ Eof1 \in BOOLEAN
        /\ Restarted(Eof0) \in Texts \cup {"0"} /\ Restarted(Eof1) \in Texts \cup {"0"}
    BY <1>1 DEF ReaderOK, ReaderType, Read0, Read1, Eof0, Eof1, Restarted, Texts
  <1>3. ~reader.done /\ (Ends \/ Wraps \/ Passes)
    BY ColumnIs
  <1>4. ASSUME Ends PROVE ReaderOK'
    <2>1. frame0' \in Seq(Texts) /\ frame1' \in Seq(Texts) /\ Len(frame0') = 0 /\ Len(frame1') = 0
      BY <1>4, EmptySeq DEF Ends
    <2>2. reader' = [c0 |-> "0", c1 |-> "0", read0 |-> 0, read1 |-> 0, eof0 |-> FALSE,
                     eof1 |-> FALSE, row |-> 0, col |-> 0, done |-> TRUE]
      BY <1>4 DEF Ends, Closed, Opened
    <2>3. reader' \in ReaderType /\ reader'.read0 = 0 /\ reader'.read1 = 0
      BY <2>2 DEF ReaderType
    <2>4. QED
      BY <2>1, <2>3 DEF ReaderOK
  <1>5. ASSUME Wraps PROVE ReaderOK'
    <2> DEFINE r == reader.row + 1
               k == 0
    <2>1. reader' = [reader EXCEPT !.eof0 = Eof0, !.eof1 = Eof1, !.read0 = Read0, !.read1 = Read1,
                                   !.c0 = Restarted(Eof0), !.c1 = Restarted(Eof1), !.row = r, !.col = k]
      BY <1>5 DEF Wraps
    <2>2. r \in Nat /\ k \in Nat /\ reader \in ReaderType
      BY DEF ReaderOK, ReaderType
    <2> HIDE DEF r, k
    <2>3. reader' \in ReaderType /\ reader'.read0 = Read0 /\ reader'.read1 = Read1
      <3> DEFINE n0 == Read0
                 n1 == Read1
                 d0 == Restarted(Eof0)
                 d1 == Restarted(Eof1)
                 u == [reader EXCEPT !.eof0 = Eof0, !.eof1 = Eof1]
                 s == [u EXCEPT !.read0 = n0, !.read1 = n1, !.c0 = d0, !.c1 = d1, !.col = k]
      <3>1. n0 \in Nat /\ n1 \in Nat /\ d0 \in Texts \cup {"0"} /\ d1 \in Texts \cup {"0"}
        BY <1>2
      <3>2. u \in ReaderType
        BY <1>2, <2>2 DEF ReaderType
      <3>3. reader' = [s EXCEPT !.row = r]
        BY <2>1, <2>2 DEF ReaderType
      <3> HIDE DEF n0, n1, d0, d1, u
      <3>4. s \in ReaderType /\ s.read0 = n0 /\ s.read1 = n1
        BY <2>2, <3>1, <3>2 DEF ReaderType
      <3> HIDE DEF s
      <3>5. QED
        BY <2>2, <3>3, <3>4 DEF n0, n1, ReaderType
    <2>4. QED
      BY <1>2, <1>5, <2>3 DEF ReaderOK, Wraps
  <1>6. ASSUME Passes PROVE ReaderOK'
    <2> DEFINE k == reader.col + 1
    <2>1. reader' = [reader EXCEPT !.eof0 = Eof0, !.eof1 = Eof1, !.read0 = Read0, !.read1 = Read1,
                                   !.c0 = Now0, !.c1 = Now1, !.col = k]
      BY <1>6 DEF Passes
    <2>2. k \in Nat /\ reader \in ReaderType
      BY DEF ReaderOK, ReaderType
    <2> HIDE DEF k
    <2>3. reader' \in ReaderType /\ reader'.read0 = Read0 /\ reader'.read1 = Read1
      <3> DEFINE n0 == Read0
                 n1 == Read1
                 d0 == Now0
                 d1 == Now1
                 u == [reader EXCEPT !.eof0 = Eof0, !.eof1 = Eof1]
                 s == [u EXCEPT !.read0 = n0, !.read1 = n1, !.c0 = d0, !.c1 = d1, !.col = k]
      <3>1. n0 \in Nat /\ n1 \in Nat /\ d0 \in Texts \cup {"0"} /\ d1 \in Texts \cup {"0"}
        BY <1>1, <1>2
      <3>2. u \in ReaderType
        BY <1>2, <2>2 DEF ReaderType
      <3>3. reader' = s
        BY <2>1, <2>2 DEF ReaderType
      <3> HIDE DEF n0, n1, d0, d1, u
      <3>4. s \in ReaderType /\ s.read0 = n0 /\ s.read1 = n1
        BY <2>2, <3>1, <3>2 DEF ReaderType
      <3> HIDE DEF s
      <3>5. QED
        BY <2>2, <3>3, <3>4 DEF n0, n1
    <2>4. QED
      BY <1>2, <1>6, <2>3 DEF ReaderOK, Passes
  <1>7. QED
    BY <1>3, <1>4, <1>5, <1>6

(* Where the loop is, in files whose characters have a location. *)
InPlace ==
  /\ AtPlace(frame0, reader.c0, reader.read0, reader.eof0, reader.row, reader.col)
  /\ AtPlace(frame1, reader.c1, reader.read1, reader.eof1, reader.row, reader.col)
ReadInv == ~reader.done => frame0 \in Frames /\ frame1 \in Frames /\ InPlace

LEMMA ReadInit == Init => ReadInv
  <1> SUFFICES ASSUME Init PROVE ReadInv
    OBVIOUS
  <1>1. reader.c0 = "0" /\ reader.c1 = "0" /\ reader.read0 = 0 /\ reader.read1 = 0
        /\ reader.eof0 = FALSE /\ reader.eof1 = FALSE /\ reader.row = 0 /\ reader.col = 0
    BY DEF Init, Opened
  <1>2. ASSUME NEW f \in Seq(Texts) PROVE AtPlace(f, "0", 0, FALSE, 0, 0)
    <2>1. Len(f) \in Nat /\ RowOf(f, 1) = 0 /\ ColOf(f, 1) = 0 /\ "0" # NEWLINE
      BY LenProperties, FirstPlace DEF NEWLINE
    <2>2. QED
      BY <2>1 DEF AtPlace
  <1>3. frame0 \in Frames /\ frame1 \in Frames /\ frame0 \in Seq(Texts) /\ frame1 \in Seq(Texts)
    BY FishAssumption DEF Init, Texts
  <1>4. QED
    BY <1>1, <1>2, <1>3 DEF ReadInv, InPlace

LEMMA ReadKeeps ==
  ASSUME ReaderOK, ReadInv, ReadColumn
  PROVE  ReadInv'
  <1> DEFINE row == reader.row
             col == reader.col
  <1>1. /\ InPlace /\ row \in Nat /\ col \in Nat /\ frame0 \in Frames /\ frame1 \in Frames
        /\ frame0 \in Seq(Texts) /\ frame1 \in Seq(Texts) /\ reader \in ReaderType
    BY DEF ReadInv, ReadColumn, ReaderOK, ReaderType
  <1>2. /\ AtPlace(frame0, Now0, Read0, Eof0, row, col + 1)
        /\ AtPlace(frame1, Now1, Read1, Eof1, row, col + 1)
    <2>1. /\ Read0 = ReadOf(frame0, reader.c0, reader.read0)
          /\ Read1 = ReadOf(frame1, reader.c1, reader.read1)
          /\ Eof0 = EofOf(frame0, reader.c0, reader.read0, reader.eof0)
          /\ Eof1 = EofOf(frame1, reader.c1, reader.read1, reader.eof1)
      BY DEF Read0, Read1, Eof0, Eof1, ReadOf, EofOf
    <2>2. QED
      BY <1>1, <2>1, NextColumn DEF InPlace, Now0, Now1
  <1>3. CASE Ends
    <2>1. reader'.done
      BY <1>3 DEF Ends, Closed, Opened
    <2>2. QED
      BY <2>1 DEF ReadInv
  <1>4. CASE Wraps
    <2>1. /\ reader'.c0 = Restarted(Eof0) /\ reader'.c1 = Restarted(Eof1)
          /\ reader'.read0 = Read0 /\ reader'.read1 = Read1
          /\ reader'.eof0 = Eof0 /\ reader'.eof1 = Eof1
          /\ reader'.row = row + 1 /\ reader'.col = 0
      BY <1>1, <1>4 DEF Wraps, ReaderType
    <2>2. /\ AtPlace(frame0, Restarted(Eof0), Read0, Eof0, row + 1, 0)
          /\ AtPlace(frame1, Restarted(Eof1), Read1, Eof1, row + 1, 0)
      BY <1>1, <1>2, <1>4, NextRow DEF Wraps
    <2> HIDE DEF row
    <2>3. InPlace'
      BY <1>4, <2>1, <2>2 DEF InPlace, Wraps
    <2>4. QED
      BY <1>1, <1>4, <2>3 DEF ReadInv, Wraps
  <1>5. CASE Passes
    <2>1. /\ reader'.c0 = Now0 /\ reader'.c1 = Now1
          /\ reader'.read0 = Read0 /\ reader'.read1 = Read1
          /\ reader'.eof0 = Eof0 /\ reader'.eof1 = Eof1
          /\ reader'.row = row /\ reader'.col = col + 1
      BY <1>1, <1>5 DEF Passes, ReaderType
    <2>2. InPlace'
      BY <1>2, <1>5, <2>1 DEF InPlace, Passes
    <2>3. QED
      BY <1>1, <1>5, <2>2 DEF ReadInv, Passes
  <1>6. QED
    BY <1>3, <1>4, <1>5, ColumnIs

(* What the loop asks for is a request. *)
LEMMA LocationIs ==
  ASSUME NEW row \in Nat, NEW col \in Nat
  PROVE  LocationOf(row, col) \in Words
  <1> DEFINE n == row * COLS + col + OFFSET
  <1>1. n \in Int
    <2>1. COLS \in Nat /\ OFFSET \in Nat
      BY Sizes
    <2>2. row * COLS \in Int
      BY <2>1
    <2>3. QED
      BY <2>1, <2>2
  <1> HIDE DEF n
  <1>2. WORD \in Nat /\ WORD > 0 /\ LocationOf(row, col) = n % WORD
    BY WordsAre DEF LocationOf, n
  <1>3. QED
    BY <1>1, <1>2 DEF Words

LEMMA CharHasLocation ==
  ASSUME NEW f \in Frames, NEW c, NEW read, NEW eof, NEW row, NEW col,
         AtPlace(f, c, read, eof, row, col), Draws(NextChar(f, c, read))
  PROVE  LocationOf(row, col) # 0
  <1>1. f \in Seq(Texts)
    BY FishAssumption DEF Texts
  <1>2. Len(f) \in Nat /\ DOMAIN f = 1 .. Len(f) /\ \A i \in 1 .. Len(f) : f[i] \in Texts
    BY <1>1, LenProperties, ElementOfSeq
  <1>3. c # NEWLINE /\ read # Len(f) /\ f[read + 1] \notin {SPACE, NEWLINE}
    BY DEF Draws, NextChar
  <1>4. read \in 0 .. Len(f) /\ RowOf(f, read + 1) = row /\ ColOf(f, read + 1) = col
    BY <1>3 DEF AtPlace
  <1>5. read + 1 \in 1 .. Len(f)
    <2>1. Len(f) \in Nat /\ read \in 0 .. Len(f) /\ read # Len(f)
      BY <1>2, <1>3, <1>4, Zenon
    <2>2. QED
      BY <2>1
  <1>6. f[read + 1] \in Chars
    BY <1>2, <1>3, <1>5 DEF Texts
  <1>7. read + 1 \in DOMAIN f
    BY <1>2, <1>5
  <1>8. QED
    BY <1>4, <1>6, <1>7, LocationAssumption, Zenon

LEMMA ColumnRequests ==
  ASSUME ReaderOK, ReadInv, ~reader.done, Draws(Now0) \/ Draws(Now1)
  PROVE  IsRequest(Request(reader.row, reader.col))
  <1> DEFINE l == LocationOf(reader.row, reader.col)
  <1>1. Shown(Now0) \in Shades /\ Shown(Now1) \in Shades
    BY NextCharIs DEF ReaderOK, ReaderType, Now0, Now1
  <1>2. l \in Nat
    <2>1. reader.row \in Nat /\ reader.col \in Nat
      BY DEF ReaderOK, ReaderType
    <2>2. QED
      BY <2>1, LocationIs, WordsAre
  <1>3. l # 0
    BY CharHasLocation DEF ReadInv, InPlace, Now0, Now1
  <1> HIDE DEF l
  <1>4. QED
    BY <1>1, <1>2, <1>3, WordsAre DEF IsRequest, Request, l

ListInv == ReaderOK /\ ReadInv /\ FishInv

LEMMA InitInv == Init => ListInv /\ B!Init
  <1> SUFFICES ASSUME Init PROVE ListInv /\ B!Init
    OBVIOUS
  <1>1. FishInv /\ Order = <<>>
    BY InitList
  <1>2. ReaderOK
    <2>1. frame0 \in Seq(Texts) /\ frame1 \in Seq(Texts)
      BY FishAssumption DEF Init, Texts
    <2>2. Len(frame0) \in Nat /\ Len(frame1) \in Nat
      BY <2>1, LenProperties
    <2>3. QED
      BY <2>1, <2>2 DEF Init, ReaderOK, ReaderType, Opened
  <1>3. B!Init
    <2>1. Bs = <<>>
      BY <1>1 DEF Bs, BlinksOf
    <2>2. QED
      BY <2>1 DEF B!Init, Bs, BlinksOf, BlinkOf
  <1>4. QED
    BY <1>1, <1>2, <1>3, ReadInit DEF ListInv

(* One call of the list, whoever makes it. *)
Calls ==
  \/ \E r : IsRequest(r) /\ mp1_ioctl_add(r)
  \/ \E l : mp1_ioctl_remove(l)
  \/ \E first, second : mp1_ioctl_sync(first, second)
  \/ mp1_rtc_tasklet

LEMMA CallsRefine ==
  ASSUME FishInv, Calls \/ UNCHANGED listVars
  PROVE  FishInv' /\ (B!Next \/ UNCHANGED Bs)
  <1> DEFINE same == UNCHANGED listVars /\ Order' = Order
  <1>1. same => UNCHANGED Bs
    BY DEF listVars, Bs, BlinksOf, BlinkOf
  <1>2. CASE UNCHANGED listVars
    BY <1>1, <1>2, SameList
  <1>3. ASSUME NEW r, IsRequest(r), mp1_ioctl_add(r) PROVE FishInv' /\ (B!Next \/ UNCHANGED Bs)
    <2>1. /\ FishInv'
          /\ \/ same
             \/ /\ OnScreen(r)
                /\ \E n \in Nodes \ Linked : blink_array' = Added(r, n) /\ Order' = <<n>> \o Order
      BY <1>3, AddKeeps
    <2> HIDE DEF same
    <2>2. QED
      BY <1>1, <1>3, <2>1, AddRefines DEF B!Next
  <1>4. ASSUME NEW l, mp1_ioctl_remove(l) PROVE FishInv' /\ (B!Next \/ UNCHANGED Bs)
    <2>1. /\ FishInv'
          /\ \/ UNCHANGED listVars /\ Order' = Order
             \/ \E k \in 1 .. Len(Order) :
                   /\ Names(k, l)
                   /\ Order' = Without(Order, k)
                   /\ \A m \in Nodes : m # Order[k] => NextMoves(blink_array[m], blink_array'[m])
      BY <1>4, RemoveKeeps
    <2>2. CASE ~same
      <3>1. PICK k \in 1 .. Len(Order) :
                   /\ Names(k, l)
                   /\ Order' = Without(Order, k)
                   /\ \A m \in Nodes : m # Order[k] => NextMoves(blink_array[m], blink_array'[m])
        BY <2>1, <2>2
      <3>2. B!RemoveBlink
        BY <2>1, <3>1, RemoveRefines
      <3>3. QED
        BY <2>1, <3>2 DEF B!Next
    <2> HIDE DEF same
    <2>3. QED
      BY <1>1, <2>1, <2>2
  <1>5. ASSUME NEW first, NEW second, mp1_ioctl_sync(first, second)
        PROVE  FishInv' /\ (B!Next \/ UNCHANGED Bs)
    <2>1. /\ FishInv'
          /\ \/ UNCHANGED listVars /\ Order' = Order
             \/ \E i, j \in 1 .. Len(Order) :
                   /\ Names(i, first) /\ Names(j, second)
                   /\ blink_array' = Synced(Order[i], Order[j])
                   /\ Order' = Order
      BY <1>5, SyncKeeps
    <2>2. CASE ~same
      <3>1. PICK i, j \in 1 .. Len(Order) :
                   /\ Names(i, first) /\ Names(j, second)
                   /\ blink_array' = Synced(Order[i], Order[j])
                   /\ Order' = Order
        BY <2>1, <2>2
      <3>2. B!SyncBlinks
        BY <2>1, <3>1, SyncRefines
      <3>3. QED
        BY <2>1, <3>2 DEF B!Next
    <2> HIDE DEF same
    <2>3. QED
      BY <1>1, <2>1, <2>2
  <1>6. CASE mp1_rtc_tasklet
    BY <1>6, TickKeeps, TickRefines DEF B!Next
  <1>7. QED
    BY <1>2, <1>3, <1>4, <1>5, <1>6 DEF Calls

LEMMA StepKeeps ==
  ASSUME ListInv, [Next]_vars
  PROVE  ListInv' /\ [B!Next]_Bs
  <1>0. ReaderOK /\ ReadInv /\ FishInv
    BY DEF ListInv
  <1>1. CASE ReadColumn
    <2>1. ReaderOK' /\ ReadInv'
      BY <1>0, <1>1, ReaderKeeps, ReadKeeps
    <2>2. ~reader.done /\ (Ends \/ Wraps \/ Passes)
      BY <1>0, <1>1, ColumnIs
    <2>3. Passes => Calls \/ UNCHANGED listVars
      BY <1>0, <2>2, ColumnRequests DEF Passes, Calls
    <2>4. Calls \/ UNCHANGED listVars
      BY <2>2, <2>3 DEF Ends, Wraps
    <2>5. QED
      BY <1>0, <2>1, <2>4, CallsRefine DEF ListInv
  <1>2. CASE Call
    <2>1. Calls
      <3>1. \A r \in Requests : IsRequest(r)
        BY FishAssumption, LocationAssumption, WordsAre DEF IsRequest, Shades
      <3>2. QED
        BY <1>2, <3>1 DEF Call, Calls
    <2>2. ReaderOK' /\ ReadInv'
      BY <1>0, <1>2 DEF Call, ReaderOK, ReadInv
    <2>3. QED
      BY <1>0, <2>1, <2>2, CallsRefine DEF ListInv
  <1>3. CASE UNCHANGED vars
    <2>1. ReaderOK' /\ ReadInv' /\ UNCHANGED listVars
      BY <1>0, <1>3 DEF vars, listVars, ReaderOK, ReadInv, InPlace
    <2>2. QED
      BY <1>0, <2>1, CallsRefine DEF ListInv
  <1>4. QED
    BY <1>1, <1>2, <1>3 DEF Next

(* The list of blink.S is never broken: its pointers pass each entry in use *)
(* once and come to an end.                                                 *)
THEOREM ListInvariant == Spec => []ListInv
  <1>1. Init => ListInv
    BY InitInv
  <1>2. ListInv /\ [Next]_vars => ListInv'
    BY StepKeeps
  <1>3. QED
    BY <1>1, <1>2, PTL DEF Spec

LEMMA InvIsWhole == ListInv => TypeOK /\ ListIsWhole /\ ScreenShowsBlinks
  <1> SUFFICES ASSUME ListInv PROVE TypeOK /\ ListIsWhole /\ ScreenShowsBlinks
    OBVIOUS
  <1>1. FishInv /\ IsList(blink_array, mp1_list_head, Order)
    BY DEF ListInv, FishInv
  <1>2. Linked = Nodes \ FreeNodes
    BY <1>1, ListIs DEF UsedIn, FreeNodes
  <1>3. Len(Order) = Cardinality(Linked)
    BY <1>1, ListLength DEF Linked
  <1>4. Order # <<>> => blink_array[Order[Len(Order)]].next = NULL
    <2>1. Order # <<>> => Len(Order) \in 1 .. Len(Order)
      BY <1>1, ListIs, EmptySeq
    <2>2. QED
      BY <1>1, <2>1 DEF IsList
  <1>5. QED
    BY <1>1, <1>2, <1>3, <1>4 DEF FishInv, ListIsWhole

(* The screen shows the phase of each blink, as ScreenShowsBlinks says      *)
(* (mp1_rtc_tasklet, mp1_ioctl_add, mp1_ioctl_remove, mp1_ioctl_sync).      *)
THEOREM ScreenIsRight == Spec => []ScreenShowsBlinks
  BY ListInvariant, InvIsWhole, PTL

(* For every size of the array, of the screen and of the words: the list in *)
(* the array, with its countdowns, is the sequence of blinks of Blinks.     *)
THEOREM ListImplementsBlinks == Spec => ImplementsBlinks
  <1>1. Init => B!Init
    BY InitInv
  <1>2. ListInv /\ [Next]_vars => [B!Next]_Bs
    BY StepKeeps
  <1>3. ListInv => TypeOK /\ ListIsWhole
    BY InvIsWhole
  <1>4. QED
    BY <1>1, <1>2, <1>3, ListInvariant, PTL DEF Spec, ImplementsBlinks, B!Spec, Bs, BlinksOf, BlinkOf

-----------------------------------------------------------------------------
(* What the reading loop has drawn: the places before the one it is at. *)

Done(places, row, col) == {p \in places : Before(p[1], p[2], row, col)}
Drawn == {RequestOf(blink_array[n]) : n \in Linked}
BlinkAt(f0, f1, row, col) ==
  [location |-> LocationOf(row, col),
   on_char |-> CharAt(f0, row, col), off_char |-> CharAt(f1, row, col),
   on_length |-> FRAME_LENGTH, off_length |-> FRAME_LENGTH]
Due(f0, f1, places) == {BlinkAt(f0, f1, p[1], p[2]) : p \in places}

DrawInv ==
  ~reader.done /\ Cardinality(Places) <= ArraySize =>
    /\ Drawn = Due(frame0, frame1, Done(Places, reader.row, reader.col))
    /\ Cardinality(Linked) = Cardinality(Done(Places, reader.row, reader.col))

LEMMA PlacesAre ==
  ASSUME ReaderOK
  PROVE  /\ IsFiniteSet(Places) /\ Cardinality(Places) \in Nat
         /\ Places \subseteq Nat \X Nat
         /\ \A row, col \in Nat : <<row, col>> \in Places <=>
              /\ (row <= Len(frame0) \/ row <= Len(frame1)) /\ (col <= Len(frame0) \/ col <= Len(frame1))
              /\ LocationOf(row, col) < SCREEN_SIZE
              /\ CharAt(frame0, row, col) # SPACE \/ CharAt(frame1, row, col) # SPACE
  <1> DEFINE size == Max({Len(frame0), Len(frame1)})
             ok(p) == /\ LocationOf(p[1], p[2]) < SCREEN_SIZE
                      /\ \/ CharAt(frame0, p[1], p[2]) # SPACE
                         \/ CharAt(frame1, p[1], p[2]) # SPACE
  <1>1. Len(frame0) \in Nat /\ Len(frame1) \in Nat
    BY LenProperties DEF ReaderOK
  <1>2. size \in Nat /\ \A n \in Nat : n <= size <=> n <= Len(frame0) \/ n <= Len(frame1)
    <2> DEFINE T == {Len(frame0), Len(frame1)}
    <2>1. T \subseteq 0 .. (Len(frame0) + Len(frame1)) /\ T # {} /\ Len(frame0) + Len(frame1) \in Nat
      BY <1>1
    <2>2. Max(T) \in T /\ \A k \in T : Max(T) >= k
      <3> HIDE DEF T
      <3>1. QED
        BY <2>1, MaxIs
    <2>3. size = Max(T)
      OBVIOUS
    <2> HIDE DEF size
    <2>4. size \in T /\ \A k \in T : size >= k
      BY <2>2, <2>3
    <2>5. QED
      BY <1>1, <2>4
  <1>3. Places = {p \in (0 .. size) \X (0 .. size) : ok(p)}
    BY DEF Places
  <1> HIDE DEF size
  <1>4. IsFiniteSet((0 .. size) \X (0 .. size))
    <2>1. IsFiniteSet(0 .. size)
      BY <1>2, FS_Interval
    <2>2. QED
      BY <2>1, FS_Product
  <1>5. Places \subseteq (0 .. size) \X (0 .. size)
    <2> HIDE DEF ok
    <2>1. QED
      BY <1>3
  <1>6. IsFiniteSet(Places) /\ Cardinality(Places) \in Nat
    BY <1>4, <1>5, FS_Subset, FS_CardinalityType
  <1>7. ASSUME NEW row \in Nat, NEW col \in Nat
        PROVE  <<row, col>> \in Places <=> row <= size /\ col <= size /\ ok(<<row, col>>)
    <2>1. <<row, col>> \in (0 .. size) \X (0 .. size) <=> row <= size /\ col <= size
      BY <1>2
    <2> HIDE DEF ok
    <2>2. QED
      BY <1>3, <2>1
  <1>8. Places \subseteq Nat \X Nat
    BY <1>5
  <1>9. QED
    BY <1>2, <1>6, <1>7, <1>8

LEMMA DoneIs ==
  ASSUME ReaderOK, NEW row, NEW col
  PROVE  /\ IsFiniteSet(Done(Places, row, col)) /\ Cardinality(Done(Places, row, col)) \in Nat
         /\ Done(Places, row, col) \subseteq Places /\ Cardinality(Done(Places, row, col)) <= Cardinality(Places)
  <1>1. Done(Places, row, col) \subseteq Places
    BY DEF Done
  <1>2. QED
    BY <1>1, PlacesAre, FS_Subset, FS_CardinalityType

(* The place the loop is at, and what it adds there. *)
LEMMA HereIs ==
  ASSUME ReaderOK, InPlace
  PROVE  /\ <<reader.row, reader.col>> \in Places <=>
              (Draws(Now0) \/ Draws(Now1)) /\ OnScreen(Request(reader.row, reader.col))
         /\ BlinkAt(frame0, frame1, reader.row, reader.col) = Request(reader.row, reader.col)
  <1> DEFINE row == reader.row
             col == reader.col
  <1>1. row \in Nat /\ col \in Nat /\ frame0 \in Seq(Texts) /\ frame1 \in Seq(Texts)
    BY DEF ReaderOK, ReaderType
  <1>2. /\ CharAt(frame0, row, col) = Shown(Now0) /\ CharAt(frame1, row, col) = Shown(Now1)
        /\ Draws(Now0) => row <= Len(frame0) /\ col <= Len(frame0)
        /\ Draws(Now1) => row <= Len(frame1) /\ col <= Len(frame1)
    BY <1>1, CharHere DEF InPlace, Now0, Now1
  <1>3. (Shown(Now0) # SPACE <=> Draws(Now0)) /\ (Shown(Now1) # SPACE <=> Draws(Now1))
    BY DEF Shown, Draws
  <1>4. OnScreen(Request(row, col)) <=> LocationOf(row, col) < SCREEN_SIZE
    BY DEF OnScreen, Request
  <1>5. BlinkAt(frame0, frame1, row, col) = Request(row, col)
    BY <1>2 DEF BlinkAt, Request
  <1> HIDE DEF row, col
  <1>6. <<row, col>> \in Places <=> (Draws(Now0) \/ Draws(Now1)) /\ OnScreen(Request(row, col))
    BY <1>1, <1>2, <1>3, <1>4, PlacesAre
  <1>7. QED
    BY <1>5, <1>6 DEF row, col

(* A place of the frames is the place of a character of one of them. *)
LEMMA PlaceOfChar ==
  ASSUME ReaderOK, NEW p \in Places
  PROVE  /\ p[1] \in Nat /\ p[2] \in Nat
         /\ \/ \E i \in 1 .. Len(frame0) : /\ frame0[i] # NEWLINE
                                           /\ RowOf(frame0, i) = p[1] /\ ColOf(frame0, i) = p[2]
            \/ \E i \in 1 .. Len(frame1) : /\ frame1[i] # NEWLINE
                                           /\ RowOf(frame1, i) = p[1] /\ ColOf(frame1, i) = p[2]
  <1>1. PICK row, col \in Nat : p = <<row, col>>
    BY PlacesAre
  <1>2. CharAt(frame0, row, col) # SPACE \/ CharAt(frame1, row, col) # SPACE
    BY <1>1, PlacesAre
  <1>3. frame0 \in Seq(Texts) /\ frame1 \in Seq(Texts)
    BY DEF ReaderOK
  <1>4. CharAt(frame0, row, col) # SPACE =>
          \E i \in 1 .. Len(frame0) : /\ frame0[i] # NEWLINE
                                      /\ RowOf(frame0, i) = row /\ ColOf(frame0, i) = col
    BY <1>3, CharAtIs
  <1>5. CharAt(frame1, row, col) # SPACE =>
          \E i \in 1 .. Len(frame1) : /\ frame1[i] # NEWLINE
                                      /\ RowOf(frame1, i) = row /\ ColOf(frame1, i) = col
    BY <1>3, CharAtIs
  <1>6. QED
    BY <1>1, <1>2, <1>4, <1>5

(* At the end of both lines the row is done, at the end of both files all. *)
LEMMA RowIsDone ==
  ASSUME ReaderOK, InPlace, Now0 = NEWLINE, Now1 = NEWLINE
  PROVE  Done(Places, reader.row + 1, 0) = Done(Places, reader.row, reader.col)
  <1> DEFINE row == reader.row
             col == reader.col
  <1>1. row \in Nat /\ col \in Nat /\ frame0 \in Seq(Texts) /\ frame1 \in Seq(Texts)
    BY DEF ReaderOK, ReaderType
  <1>2. \A i \in 1 .. Len(frame0) : frame0[i] # NEWLINE =>
          Before(RowOf(frame0, i), ColOf(frame0, i), row, col) \/ RowOf(frame0, i) > row
    BY <1>1, LineEnds DEF InPlace, Now0
  <1>3. \A i \in 1 .. Len(frame1) : frame1[i] # NEWLINE =>
          Before(RowOf(frame1, i), ColOf(frame1, i), row, col) \/ RowOf(frame1, i) > row
    BY <1>1, LineEnds DEF InPlace, Now1
  <1> HIDE DEF row, col
  <1>4. ASSUME NEW p \in Places PROVE Before(p[1], p[2], row + 1, 0) <=> Before(p[1], p[2], row, col)
    <2>1. p[1] \in Nat /\ p[2] \in Nat /\ (Before(p[1], p[2], row, col) \/ p[1] > row)
      BY <1>2, <1>3, PlaceOfChar
    <2>2. QED
      BY <1>1, <2>1 DEF Before
  <1>5. QED
    BY <1>4 DEF Done, row, col

LEMMA AllIsDone ==
  ASSUME ReaderOK, InPlace, Eof0, Eof1
  PROVE  Done(Places, reader.row, reader.col) = Places
  <1>1. reader.read0 = Len(frame0) /\ reader.read1 = Len(frame1)
    BY DEF InPlace, AtPlace, Eof0, Eof1
  <1>2. /\ \A i \in 1 .. Len(frame0) :
              Before(RowOf(frame0, i), ColOf(frame0, i), reader.row, reader.col)
        /\ \A i \in 1 .. Len(frame1) :
              Before(RowOf(frame1, i), ColOf(frame1, i), reader.row, reader.col)
    BY <1>1 DEF InPlace, AtPlace
  <1>3. \A p \in Places : Before(p[1], p[2], reader.row, reader.col)
    BY <1>2, PlaceOfChar
  <1>4. QED
    BY <1>3 DEF Done

(* A column further. *)
LEMMA ColumnIsDone ==
  ASSUME ReaderOK, NEW row \in Nat, NEW col \in Nat
  PROVE  /\ <<row, col>> \notin Done(Places, row, col)
         /\ Done(Places, row, col + 1) = Done(Places, row, col) \cup ({<<row, col>>} \cap Places)
  <1>1. ASSUME NEW p \in Places
        PROVE  Before(p[1], p[2], row, col + 1) <=> Before(p[1], p[2], row, col) \/ p = <<row, col>>
    <2>1. PICK r, k \in Nat : p = <<r, k>>
      BY PlacesAre
    <2>2. Before(r, k, row, col + 1) <=> Before(r, k, row, col) \/ (r = row /\ k = col)
      BY DEF Before
    <2>3. QED
      BY <2>1, <2>2
  <1>2. ~Before(row, col, row, col)
    BY DEF Before
  <1>3. QED
    BY <1>1, <1>2 DEF Done

LEMMA FramesInit == Init => DrawInv
  <1> SUFFICES ASSUME Init PROVE DrawInv
    OBVIOUS
  <1>1. ReaderOK /\ Linked = {}
    BY InitInv, InitList DEF ListInv
  <1>2. reader.row = 0 /\ reader.col = 0
    BY DEF Init, Opened
  <1>3. Done(Places, 0, 0) = {}
    <2>1. ASSUME NEW p \in Places PROVE ~Before(p[1], p[2], 0, 0)
      <3>1. p[1] \in Nat /\ p[2] \in Nat
        BY <1>1, PlacesAre
      <3>2. QED
        BY <3>1 DEF Before
    <2>2. QED
      BY <2>1 DEF Done
  <1>4. Drawn = {} /\ Due(frame0, frame1, Done(Places, 0, 0)) = {}
    BY <1>1, <1>3 DEF Drawn, Due
  <1>5. QED
    BY <1>1, <1>2, <1>3, <1>4 DEF DrawInv

LEMMA SamePlaces ==
  ASSUME UNCHANGED <<frame0, frame1>>
  PROVE  Places' = Places
  BY DEF Places

LEMMA DueMore ==
  ASSUME NEW f0, NEW f1, NEW T, NEW p
  PROVE  Due(f0, f1, T \cup {p}) = Due(f0, f1, T) \cup {BlinkAt(f0, f1, p[1], p[2])}
  <1> DEFINE b(q) == BlinkAt(f0, f1, q[1], q[2])
  <1>1. Due(f0, f1, T \cup {p}) = {b(q) : q \in T \cup {p}} /\ Due(f0, f1, T) = {b(q) : q \in T}
    BY DEF Due
  <1>2. b(p) = BlinkAt(f0, f1, p[1], p[2])
    OBVIOUS
  <1> HIDE DEF b
  <1>3. QED
    BY <1>1, <1>2

(* The list after an add. *)
LEMMA AddDraws ==
  ASSUME FishInv, FishInv', NEW r, NEW n \in Nodes \ Linked,
         blink_array' = Added(r, n), Linked' = Linked \cup {n}
  PROVE  /\ Drawn' = Drawn \cup {RequestOf(r)}
         /\ Cardinality(Linked') = Cardinality(Linked) + 1
  <1>1. blink_array \in [Nodes -> Entries] /\ Linked \subseteq Nodes /\ IsFiniteSet(Linked)
    <2>1. Linked \subseteq Nodes /\ blink_array \in [Nodes -> Entries]
      BY ListIs DEF UsedIn
    <2>2. QED
      BY <2>1, Sizes, FS_Subset
  <1>2. Cardinality(Linked') = Cardinality(Linked) + 1
    BY <1>1, FS_AddElement
  <1>3. RequestOf(blink_array'[n]) = RequestOf(r)
    <2> DEFINE e == [location |-> r.location, on_char |-> r.on_char, off_char |-> r.off_char,
                     on_length |-> r.on_length, off_length |-> r.off_length,
                     countdown |-> r.on_length, status |-> 1, next |-> mp1_list_head]
    <2>1. blink_array'[n] = e
      BY <1>1 DEF Added
    <2>2. RequestOf(e) = RequestOf(r)
      BY DEF RequestOf
    <2> HIDE DEF e
    <2>3. QED
      BY <2>1, <2>2
  <1>4. \A m \in Linked : blink_array'[m] = blink_array[m]
    BY <1>1 DEF Added
  <1>5. Drawn' = {RequestOf(blink_array'[m]) : m \in Linked \cup {n}}
    BY DEF Drawn
  <1>6. Drawn = {RequestOf(blink_array'[m]) : m \in Linked}
    BY <1>4 DEF Drawn
  <1>7. QED
    BY <1>2, <1>3, <1>5, <1>6

LEMMA ColumnDraws ==
  ASSUME ReaderOK, ReadInv, FishInv, FishInv', DrawInv, ReadColumn
  PROVE  DrawInv'
  <1> DEFINE row == reader.row
             col == reader.col
  <1>1. /\ InPlace /\ row \in Nat /\ col \in Nat /\ reader \in ReaderType /\ ~reader.done
    BY DEF ReadInv, ReadColumn, ReaderOK, ReaderType
  <1>2. Ends \/ Wraps \/ Passes
    BY ColumnIs
  <1>3. CASE Ends
    <2>1. reader'.done
      BY <1>3 DEF Ends, Closed, Opened
    <2>2. QED
      BY <2>1 DEF DrawInv
  <1>4. CASE Wraps
    <2>1. reader'.row = row + 1 /\ reader'.col = 0 /\ reader'.done = reader.done
      BY <1>1, <1>4 DEF Wraps, ReaderType
    <2>2. Done(Places, row + 1, 0) = Done(Places, row, col)
      BY <1>1, <1>4, RowIsDone DEF Wraps
    <2>3. UNCHANGED <<frame0, frame1>> /\ UNCHANGED listVars
      BY <1>4 DEF Wraps
    <2>4. Drawn' = Drawn /\ Linked' = Linked
      BY <2>3, SameList DEF Drawn, listVars
    <2>5. Places' = Places
      BY <2>3, SamePlaces
    <2>6. QED
      BY <1>1, <2>1, <2>2, <2>3, <2>4, <2>5 DEF DrawInv
  <1>5. CASE Passes
    <2>1. reader'.row = row /\ reader'.col = col + 1 /\ reader'.done = reader.done
      BY <1>1, <1>5 DEF Passes, ReaderType
    <2>2. ASSUME Cardinality(Places) <= ArraySize
          PROVE  /\ Drawn' = Due(frame0, frame1, Done(Places, row, col + 1))
                 /\ Cardinality(Linked') = Cardinality(Done(Places, row, col + 1))
      <3>1. /\ Drawn = Due(frame0, frame1, Done(Places, row, col))
            /\ Cardinality(Linked) = Cardinality(Done(Places, row, col))
        BY <1>1, <2>2 DEF DrawInv
      <3>2. /\ <<row, col>> \notin Done(Places, row, col)
            /\ Done(Places, row, col + 1) = Done(Places, row, col) \cup ({<<row, col>>} \cap Places)
        BY <1>1, ColumnIsDone
      <3>3. /\ <<row, col>> \in Places <=> (Draws(Now0) \/ Draws(Now1)) /\ OnScreen(Request(row, col))
            /\ BlinkAt(frame0, frame1, row, col) = Request(row, col)
        BY <1>1, HereIs
      <3>4. CASE <<row, col>> \notin Places
        <4>1. Done(Places, row, col + 1) = Done(Places, row, col)
          BY <3>2, <3>4
        <4>2. UNCHANGED listVars
          BY <1>5, <3>3, <3>4 DEF Passes, mp1_ioctl_add
        <4>3. Drawn' = Drawn /\ Linked' = Linked
          BY <4>2, SameList DEF Drawn, listVars
        <4>4. QED
          BY <3>1, <4>1, <4>3
      <3>5. CASE <<row, col>> \in Places
        <4>1. Done(Places, row, col + 1) = Done(Places, row, col) \cup {<<row, col>>}
          BY <3>2, <3>5
        <4>2. Due(frame0, frame1, Done(Places, row, col + 1)) =
                Due(frame0, frame1, Done(Places, row, col)) \cup {BlinkAt(frame0, frame1, row, col)}
          <5> DEFINE T == Done(Places, row, col)
                     p == <<row, col>>
          <5>1. p[1] = row /\ p[2] = col /\ Done(Places, row, col + 1) = T \cup {p}
            BY <4>1
          <5> HIDE DEF T, p
          <5>2. Due(frame0, frame1, T \cup {p}) =
                  Due(frame0, frame1, T) \cup {BlinkAt(frame0, frame1, p[1], p[2])}
            BY DueMore
          <5>3. QED
            BY <5>1, <5>2 DEF T
        <4>3. /\ IsFiniteSet(Done(Places, row, col)) /\ Cardinality(Done(Places, row, col)) \in Nat
              /\ Cardinality(Done(Places, row, col + 1)) <= Cardinality(Places) /\ Cardinality(Places) \in Nat
          BY DoneIs, PlacesAre
        <4>4. Cardinality(Done(Places, row, col + 1)) = Cardinality(Done(Places, row, col)) + 1
          BY <3>2, <4>1, <4>3, FS_AddElement
        <4>5. FreeNodes # {}
          <5>1. Linked = Nodes \ FreeNodes
            BY ListIs DEF UsedIn, FreeNodes
          <5>2. Cardinality(Linked) < ArraySize
            BY <2>2, <3>1, <4>3, <4>4, Sizes
          <5>3. QED
            BY <5>1, <5>2, Sizes
        <4>6. mp1_ioctl_add(Request(row, col)) /\ IsRequest(Request(row, col))
              /\ OnScreen(Request(row, col))
          BY <1>1, <1>5, <3>3, <3>5, ColumnRequests DEF Passes
        <4>7. PICK n \in Nodes \ Linked : /\ blink_array' = Added(Request(row, col), n)
                                          /\ Linked' = Linked \cup {n}
          BY <4>5, <4>6, AddKeeps
        <4>8. /\ Drawn' = Drawn \cup {RequestOf(Request(row, col))}
              /\ Cardinality(Linked') = Cardinality(Linked) + 1
          BY <4>7, AddDraws
        <4>9. RequestOf(Request(row, col)) = Request(row, col)
          BY DEF RequestOf, Request
        <4>10. QED
          BY <3>1, <3>3, <4>2, <4>4, <4>8, <4>9
      <3>6. QED
        BY <3>4, <3>5
    <2>3. Places' = Places /\ UNCHANGED <<frame0, frame1>>
      BY <1>5, SamePlaces DEF Passes
    <2>4. QED
      BY <2>1, <2>2, <2>3 DEF DrawInv
  <1>6. QED
    BY <1>2, <1>3, <1>4, <1>5

LEMMA FramesStep ==
  ASSUME ListInv, ListInv', DrawInv, [Next]_vars
  PROVE  DrawInv'
  <1>0. ReaderOK /\ ReadInv /\ FishInv /\ FishInv'
    BY DEF ListInv
  <1>1. CASE ReadColumn
    BY <1>0, <1>1, ColumnDraws
  <1>2. CASE Call
    BY <1>2 DEF Call, DrawInv
  <1>3. CASE UNCHANGED vars
    <2>1. UNCHANGED <<frame0, frame1>> /\ UNCHANGED listVars /\ reader' = reader
      BY <1>3 DEF vars, listVars
    <2>2. Drawn' = Drawn /\ Linked' = Linked
      BY <1>0, <2>1, SameList DEF Drawn, listVars
    <2>3. Places' = Places
      BY <2>1, SamePlaces
    <2>4. QED
      BY <2>1, <2>2, <2>3 DEF DrawInv
  <1>4. QED
    BY <1>1, <1>2, <1>3 DEF Next

LEMMA FramesEnd ==
  ASSUME ListInv, DrawInv, ReadColumn, reader'.done, Cardinality(Places) <= ArraySize
  PROVE  Drawn = {FrameBlink(p[1], p[2]) : p \in Places} /\ Cardinality(Linked) = Cardinality(Places)
  <1>1. ReaderOK /\ ~reader.done /\ InPlace
    BY DEF ListInv, ReadInv, ReadColumn
  <1>2. Ends \/ Wraps \/ Passes
    BY <1>1, ColumnIs
  <1>3. Ends
    <2>1. reader \in ReaderType
      BY <1>1 DEF ReaderOK
    <2>2. Wraps \/ Passes => reader'.done = reader.done
      BY <2>1 DEF Wraps, Passes, ReaderType
    <2>3. QED
      BY <1>1, <1>2, <2>2
  <1>4. Done(Places, reader.row, reader.col) = Places
    BY <1>1, <1>3, AllIsDone DEF Ends
  <1>5. QED
    BY <1>1, <1>4 DEF DrawInv, Due, BlinkAt, FrameBlink

(* Both files are drawn: for all files, screens and words, the blinks there *)
(* are when the reading loop ends are those of the places where a file has  *)
(* a character and whose location, as a word, is on the screen, one for     *)
(* each (add_frames).                                                       *)
THEOREM FramesAreRight == Spec => FramesAreDrawn
  <1>1. Init => DrawInv
    BY FramesInit
  <1>2. ListInv /\ ListInv' /\ DrawInv /\ [Next]_vars => DrawInv'
    BY FramesStep
  <1>3. ListInv /\ DrawInv =>
          [ReadColumn /\ reader'.done /\ Cardinality(Places) <= ArraySize =>
             /\ {RequestOf(blink_array[n]) : n \in Linked} = {FrameBlink(p[1], p[2]) : p \in Places}
             /\ Cardinality(Linked) = Cardinality(Places)]_vars
    BY FramesEnd DEF Drawn
  <1>4. QED
    BY <1>1, <1>2, <1>3, ListInvariant, PTL DEF Spec, FramesAreDrawn
=============================================================================
