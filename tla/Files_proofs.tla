---------------------------- MODULE Files_proofs ----------------------------
(***************************************************************************)
(* On every well-formed disk the descriptors deliver their files and the   *)
(* directory as streams, and a program is loaded whole: for every size of  *)
(* block, file and descriptor table. And the library that the kernel       *)
(* stands on does what its callers count on: for every size of memory,     *)
(* word, screen and name.                                                  *)
(***************************************************************************)
EXTENDS Files, Library, SequenceTheorems, WellFoundedInduction, TLAPS

(* A set of naturals with a member has a least one. *)
LEMMA LeastNat ==
  ASSUME NEW T \in SUBSET Nat, T # {}
  PROVE  \E m \in T : \A k \in T : m <= k
  <1> DEFINE R == {p \in Nat \X Nat : p[1] < p[2]}
  <1>1. IsWellFoundedOn(R, Nat)
    BY NatLessThanWellFounded DEF OpToRel
  <1> HIDE DEF R
  <1>2. \E x \in T : \A y \in T : ~ (<<y, x>> \in R)
    BY <1>1, WFMin
  <1>3. ASSUME NEW x \in T, NEW y \in T, ~ (<<y, x>> \in R) PROVE x <= y
    <2>1. x \in Nat /\ y \in Nat /\ ~(y < x)
      BY <1>3 DEF R
    <2>2. QED
      BY <2>1
  <1>4. QED
    BY <1>2, <1>3

(* Quotients and remainders. *)
LEMMA DivMod ==
  ASSUME NEW a \in Nat, NEW b \in Nat \ {0}
  PROVE  /\ a \div b \in Nat /\ a % b \in 0 .. b - 1
         /\ a = b * (a \div b) + (a % b)
  OBVIOUS

LEMMA TimesMonotone ==
  ASSUME NEW b \in Nat, NEW x \in Int, NEW y \in Int, x <= y
  PROVE  b * x <= b * y
  <1>1. b * (y - x) >= 0
    OBVIOUS
  <1>2. b * (y - x) = b * y - b * x
    OBVIOUS
  <1>3. QED
    BY <1>1, <1>2

LEMMA DivUnique ==
  ASSUME NEW a \in Nat, NEW b \in Nat \ {0}, NEW q \in Nat, NEW r \in 0 .. b - 1,
         a = b * q + r
  PROVE  a \div b = q /\ a % b = r
  <1> DEFINE d == a \div b
             m == a % b
  <1>1. d \in Nat /\ m \in 0 .. b - 1 /\ a = b * d + m
    BY DivMod
  <1> HIDE DEF d, m
  <1>2. b * d \in Int /\ b * q \in Int
    BY <1>1
  <1>3. ~(d >= q + 1)
    <2> SUFFICES ASSUME d >= q + 1 PROVE FALSE
      OBVIOUS
    <2>1. b * (q + 1) <= b * d
      BY TimesMonotone, <1>1
    <2>2. b * (q + 1) = b * q + b
      OBVIOUS
    <2>3. QED
      BY <1>1, <1>2, <2>1, <2>2
  <1>4. ~(q >= d + 1)
    <2> SUFFICES ASSUME q >= d + 1 PROVE FALSE
      OBVIOUS
    <2>1. b * (d + 1) <= b * q
      BY TimesMonotone, <1>1
    <2>2. b * (d + 1) = b * d + b
      BY <1>1
    <2>3. QED
      BY <1>1, <1>2, <2>1, <2>2
  <1>5. d = q
    BY <1>1, <1>3, <1>4
  <1>6. m = r
    BY <1>1, <1>2, <1>5
  <1>7. QED
    BY <1>5, <1>6 DEF d, m

LEMMA DivSmall ==
  ASSUME NEW b \in Nat \ {0}, NEW a \in 0 .. b - 1
  PROVE  a \div b = 0 /\ a % b = a
  <1>1. a \in Nat /\ a = b * 0 + a
    OBVIOUS
  <1>2. QED
    BY <1>1, DivUnique

-----------------------------------------------------------------------------
(* read_data. *)
LEMMA InodeFacts ==
  ASSUME NEW i \in InodeNums
  PROVE  /\ BLOCK_SIZE \in Nat \ {0} /\ MAX_FILE_SIZE \in Nat
         /\ Length(i) \in Nat /\ Length(i) <= MAX_FILE_SIZE
         /\ DataCount \in Nat
         /\ Inodes[i].blocks \in Seq(0 .. (DataCount - 1))
         /\ Len(Inodes[i].blocks) = (Length(i) + BLOCK_SIZE - 1) \div BLOCK_SIZE
  BY SizesAssumption, DiskAssumption DEF NumberOfBlocks

(* Every place before the end of a file lies in one of its blocks. *)
LEMMA BlockInFile ==
  ASSUME NEW i \in InodeNums, NEW x \in Nat, x < Length(i)
  PROVE  /\ x \div BLOCK_SIZE \in Nat
         /\ x \div BLOCK_SIZE < Len(Inodes[i].blocks)
         /\ Inodes[i].blocks[(x \div BLOCK_SIZE) + 1] \in 0 .. (DataCount - 1)
  <1> DEFINE B == BLOCK_SIZE
             L == Length(i)
             d == x \div B
             N == (L + B - 1) \div B
  <1>1. /\ B \in Nat \ {0} /\ L \in Nat
        /\ Len(Inodes[i].blocks) = N /\ Inodes[i].blocks \in Seq(0 .. (DataCount - 1))
    BY InodeFacts
  <1>2. /\ d \in Nat /\ x % B \in 0 .. B - 1
        /\ x = B * d + (x % B)
    BY <1>1, DivMod
  <1>3. /\ N \in Nat /\ (L + B - 1) % B \in 0 .. B - 1
        /\ L + B - 1 = B * N + ((L + B - 1) % B)
    <2>1. L + B - 1 \in Nat
      BY <1>1
    <2>2. QED
      BY <1>1, <2>1, DivMod
  <1> HIDE DEF B, L, d, N
  <1>4. ~(N <= d)
    <2> SUFFICES ASSUME N <= d PROVE FALSE
      OBVIOUS
    <2>1. B * N <= B * d
      BY <1>1, <1>2, <1>3, TimesMonotone
    <2>2. B * N \in Int /\ B * d \in Int
      BY <1>1, <1>2, <1>3
    <2>3. x < L
      BY DEF L
    <2>4. B * N >= L
      BY <1>1, <1>3, <2>2
    <2>5. x >= B * d
      BY <1>2, <2>2
    <2>6. QED
      BY <1>1, <2>1, <2>2, <2>3, <2>4, <2>5
  <1>5. d \in Nat /\ d < Len(Inodes[i].blocks) /\ d + 1 \in 1 .. Len(Inodes[i].blocks)
    BY <1>1, <1>2, <1>3, <1>4
  <1>6. Inodes[i].blocks[d + 1] \in 0 .. (DataCount - 1)
    BY <1>1, <1>5, ElementOfSeq
  <1>7. QED
    BY <1>5, <1>6 DEF d, B

(* The byte the loop of read_data puts at place k is the byte of the file  *)
(* k places behind the offset, when the read starts in the first block or  *)
(* ends in the one it starts in.                                           *)
LEMMA ReadByte ==
  ASSUME NEW i \in InodeNums, NEW offset \in Nat, NEW n \in Nat,
         offset + n <= Length(i),
         offset < BLOCK_SIZE \/ (offset % BLOCK_SIZE) + n <= BLOCK_SIZE,
         NEW k \in 0 .. n - 1
  PROVE  ByteRead(i, offset, FirstCopy(offset, n), k) = Contents(i)[offset + k + 1]
  <1> DEFINE B == BLOCK_SIZE
             x == offset + k
             first == FirstCopy(offset, n)
             o == offset % B
             q == offset \div B
  <1>1. /\ B \in Nat \ {0} /\ Length(i) \in Nat /\ MAX_FILE_SIZE \in Nat
        /\ Length(i) <= MAX_FILE_SIZE /\ x \in Nat /\ x < Length(i) /\ k \in Nat
    BY InodeFacts
  <1>2. Contents(i)[x + 1] = <<Inodes[i].blocks[(x \div B) + 1], x % B>>
    <2>1. x + 1 \in 1 .. Length(i) /\ (x + 1) - 1 = x
      BY <1>1
    <2> HIDE DEF x
    <2>2. QED
      BY <2>1 DEF Contents
  <1>3. /\ q \in Nat /\ o \in 0 .. B - 1 /\ offset = B * q + o
    BY <1>1, DivMod
  <1>4. x \div B \in Nat /\ x \div B < Len(Inodes[i].blocks)
    BY <1>1, BlockInFile
  <1>5. offset < B => q = 0 /\ o = offset
    BY <1>1, DivSmall
  <1>6. CASE k < first
    <2>1. o + k < B
      <3>1. CASE offset < B
        BY <1>1, <1>5, <1>6, <3>1 DEF FirstCopy, Smaller
      <3>2. CASE ~(offset < B)
        BY <1>1, <1>3, <3>2
      <3>3. QED
        BY <3>1, <3>2
    <2>2. o + k \in Nat /\ o + k \in 0 .. B - 1
      BY <1>1, <1>3, <2>1
    <2>3. x = B * q + (o + k)
      <3>1. B * q \in Int
        BY <1>1, <1>3
      <3>2. QED
        BY <1>1, <1>3, <3>1
    <2>4. x \div B = q /\ x % B = o + k
      BY <1>1, <1>3, <2>2, <2>3, DivUnique
    <2>5. (o + k) \div B = 0 /\ (o + k) % B = o + k
      BY <1>1, <2>2, DivSmall
    <2>6. DataBlock(i, q) = Inodes[i].blocks[q + 1] /\ Inodes[i].blocks[q + 1] \in Nat
      <3>1. Inodes[i].blocks[(x \div B) + 1] \in 0 .. (DataCount - 1)
        BY <1>1, BlockInFile
      <3>2. QED
        BY <1>4, <2>4, <3>1, InodeFacts DEF DataBlock
    <2>7. ByteRead(i, offset, first, k) = Contiguous(DataBlock(i, q), o + k)
      BY <1>6 DEF ByteRead
    <2>8. Contiguous(DataBlock(i, q), o + k) = <<Inodes[i].blocks[q + 1], o + k>>
      BY <2>5, <2>6 DEF Contiguous
    <2>9. QED
      BY <1>2, <2>4, <2>7, <2>8
  <1>7. CASE ~(k < first)
    <2> DEFINE b == (k - first) \div B
               r == (k - first) % B
    <2>1. offset < B /\ first = B - offset
      BY <1>1, <1>7 DEF FirstCopy, Smaller
    <2>2. k - first \in Nat /\ k - first = x - B /\ q = 0
      BY <1>1, <1>5, <1>7, <2>1
    <2>3. b \in Nat /\ r \in 0 .. B - 1 /\ k - first = B * b + r
      BY <1>1, <2>2, DivMod
    <2> HIDE DEF b, r, first
    <2>4. B * b \in Int /\ b * B = B * b /\ B * (b + 1) = B * b + B
      BY <1>1, <2>3
    <2>5. x = B * (b + 1) + r
      BY <1>1, <2>1, <2>2, <2>3, <2>4
    <2>6. x \div B = b + 1 /\ x % B = r
      <3> DEFINE c == b + 1
      <3>1. x \in Nat /\ B \in Nat \ {0} /\ c \in Nat /\ r \in 0 .. B - 1 /\ x = B * c + r
        BY <1>1, <2>3, <2>5
      <3> HIDE DEF x, B, c
      <3>2. x \div B = c /\ x % B = r
        BY <3>1, DivUnique
      <3>3. QED
        BY <3>2 DEF c
    <2>7. first + b * B <= MAX_FILE_SIZE
      BY <1>1, <2>1, <2>2, <2>3, <2>4
    <2>8. DataBlock(i, q + 1 + b) = Inodes[i].blocks[b + 2]
      <3> DEFINE blocks == Inodes[i].blocks
                 at == q + 1 + b
      <3>1. DataBlock(i, at) = IF at < Len(blocks) THEN blocks[at + 1] ELSE 0
        BY Zenon DEF DataBlock
      <3> HIDE DEF blocks
      <3>2. at < Len(blocks) /\ at + 1 = b + 2
        BY <1>4, <2>2, <2>3, <2>6 DEF blocks
      <3> HIDE DEF at
      <3>3. DataBlock(i, at) = blocks[b + 2]
        BY <3>1, <3>2, Zenon
      <3>4. QED
        BY <3>3 DEF blocks, at
    <2>9. ByteRead(i, offset, first, k) = <<DataBlock(i, q + 1 + b), r>>
      BY <1>7, <2>7 DEF ByteRead, b, r
    <2>10. b + 1 + 1 = b + 2
      BY <2>3
    <2>11. ByteRead(i, offset, first, k) = Contents(i)[x + 1]
      BY <1>2, <2>6, <2>8, <2>9, <2>10
    <2>12. QED
      BY <2>11 DEF first
  <1>8. QED
    BY <1>6, <1>7

Byte == (0 .. (DataCount - 1)) \X (0 .. (BLOCK_SIZE - 1))

LEMMA ContentsType ==
  ASSUME NEW i \in InodeNums
  PROVE  Contents(i) \in Seq(Byte) /\ Len(Contents(i)) = Length(i)
  <1>1. Length(i) \in Nat /\ BLOCK_SIZE \in Nat \ {0}
    BY InodeFacts
  <1>2. ASSUME NEW k \in 1 .. Length(i)
        PROVE  <<Inodes[i].blocks[((k - 1) \div BLOCK_SIZE) + 1], (k - 1) % BLOCK_SIZE>> \in Byte
    <2>1. k - 1 \in Nat /\ k - 1 < Length(i)
      BY <1>1
    <2>2. Inodes[i].blocks[((k - 1) \div BLOCK_SIZE) + 1] \in 0 .. (DataCount - 1)
      BY <2>1, BlockInFile
    <2>3. (k - 1) % BLOCK_SIZE \in 0 .. (BLOCK_SIZE - 1)
      BY <1>1, <2>1, DivMod
    <2>4. QED
      BY <2>2, <2>3 DEF Byte
  <1>3. Contents(i) \in [1 .. Length(i) -> Byte]
    BY <1>2 DEF Contents
  <1>4. Contents(i) \in Seq(Byte)
    BY <1>1, <1>3, SeqDef
  <1>5. DOMAIN Contents(i) = 1 .. Length(i)
    BY <1>3
  <1>6. QED
    BY <1>1, <1>4, <1>5, LenProperties

(* A sequence given by its places. *)
LEMMA SeqByPlaces ==
  ASSUME NEW S, NEW s \in Seq(S)
  PROVE  s = [k \in 1 .. Len(s) |-> s[k]]
  BY LenProperties

(* So what read_data delivers is a stretch of the file. *)
LEMMA ReadDataIsContents ==
  ASSUME NEW i \in InodeNums, NEW offset \in Nat, NEW length, NEW n \in Nat \ {0},
         n = ToTheEnd(i, offset, length), offset + n <= Length(i),
         offset < BLOCK_SIZE \/ (offset % BLOCK_SIZE) + n <= BLOCK_SIZE
  PROVE  read_data(i, offset, length)
           = [value |-> n, data |-> SubSeq(Contents(i), offset + 1, offset + n)]
  <1> DEFINE first == FirstCopy(offset, n)
             part == SubSeq(Contents(i), offset + 1, offset + n)
  <1>1. Length(i) \in Nat /\ offset < Length(i) /\ BLOCK_SIZE \in Nat \ {0} /\ DataCount \in Nat
    BY InodeFacts
  <1>2. Contents(i) \in Seq(Byte) /\ Len(Contents(i)) = Length(i)
    BY ContentsType
  <1>3. /\ part \in Seq(Byte) /\ Len(part) = n
        /\ \A j \in 1 .. n : part[j] = Contents(i)[offset + j]
    <2>1. /\ \A j \in offset + 1 .. offset + n : Contents(i)[j] \in Byte
          /\ offset + 1 \in Int /\ offset + n \in Int /\ offset + 1 <= offset + n
          /\ (offset + n) - (offset + 1) + 1 = n
      BY <1>1, <1>2, ElementOfSeq
    <2>2. /\ part \in Seq(Byte) /\ Len(part) = n
          /\ \A j \in 1 .. n : part[j] = Contents(i)[(offset + 1) + j - 1]
      BY <2>1, SubSeqProperties
    <2>3. \A j \in 1 .. n : (offset + 1) + j - 1 = offset + j
      OBVIOUS
    <2>4. QED
      BY <2>2, <2>3
  <1> HIDE DEF part
  <1>4. part = [k \in 1 .. n |-> ByteRead(i, offset, first, k - 1)]
    <2>1. part = [k \in 1 .. n |-> part[k]]
      BY <1>3, SeqByPlaces
    <2>2. ASSUME NEW k \in 1 .. n
          PROVE  part[k] = ByteRead(i, offset, first, k - 1)
      <3>1. k - 1 \in 0 .. n - 1 /\ offset + (k - 1) + 1 = offset + k
        OBVIOUS
      <3>2. ByteRead(i, offset, FirstCopy(offset, n), k - 1) = Contents(i)[offset + (k - 1) + 1]
        BY <3>1, ReadByte
      <3>3. QED
        BY <1>3, <3>1, <3>2
    <2>3. QED
      BY <2>1, <2>2
  <1>5. ~(DataBlock(i, offset \div BLOCK_SIZE) > DataCount)
    <2>1. /\ offset \div BLOCK_SIZE < Len(Inodes[i].blocks)
          /\ Inodes[i].blocks[(offset \div BLOCK_SIZE) + 1] \in 0 .. (DataCount - 1)
      BY <1>1, BlockInFile
    <2> DEFINE x == offset \div BLOCK_SIZE
    <2>2. DataBlock(i, x) = Inodes[i].blocks[x + 1]
      BY <2>1, Zenon DEF DataBlock
    <2> HIDE DEF x
    <2>3. DataBlock(i, x) \in 0 .. (DataCount - 1)
      BY <2>1, <2>2, Zenon DEF x
    <2>4. ~(DataBlock(i, x) > DataCount)
      BY <1>1, <2>3
    <2>5. QED
      BY <2>4 DEF x
  <1>6. ~(offset >= Length(i))
    BY <1>1
  <1>7. QED
    BY <1>4, <1>5, <1>6 DEF read_data, part

(* program_load: the read from 0 of the whole file starts in the first     *)
(* block, so the loop it takes reads every block of the file in its place. *)
LEMMA LoadIsWhole ==
  ASSUME NEW i \in InodeNums
  PROVE  read_data(i, 0, Length(i)).data = Contents(i)
  <1>1. Length(i) \in Nat /\ BLOCK_SIZE \in Nat \ {0}
    BY InodeFacts
  <1>2. Contents(i) \in Seq(Byte) /\ Len(Contents(i)) = Length(i)
    BY ContentsType
  <1>3. CASE Length(i) = 0
    <2>1. Contents(i) = <<>>
      BY <1>2, <1>3, EmptySeq
    <2>2. read_data(i, 0, Length(i)) = Refused
      BY <1>3 DEF read_data
    <2>3. QED
      BY <2>1, <2>2 DEF Refused
  <1>4. CASE Length(i) # 0
    <2> DEFINE n == Length(i)
    <2>1. n \in Nat \ {0} /\ n = ToTheEnd(i, 0, n) /\ 0 + n <= Length(i) /\ 0 < BLOCK_SIZE
      BY <1>1, <1>4 DEF ToTheEnd, Smaller
    <2>2. read_data(i, 0, n) = [value |-> n, data |-> SubSeq(Contents(i), 0 + 1, 0 + n)]
      BY <2>1, ReadDataIsContents
    <2>3. SubSeq(Contents(i), 1, n) = Contents(i)
      BY <1>2, SubSeqFull
    <2>4. QED
      BY <2>1, <2>2, <2>3
  <1>5. QED
    BY <1>3, <1>4

(* The directory has one entry of a name. *)
LEMMA EntryFacts ==
  ASSUME NEW name, Found(name) # {}
  PROVE  /\ \E k \in Found(name) : Entry(name) = Dentries[k]
         /\ Entry(name).inode_num \in InodeNums
         /\ Entry(name).filetype \in {RTC_FILE, DIR_FILE, REG_FILE}
  <1>1. PICK m \in Found(name) : \A j \in Found(name) : m = j
    BY NamesAssumption DEF Found
  <1>2. m \in DOMAIN Dentries /\ m \in Nat
    BY DiskAssumption, LenProperties DEF Found
  <1>3. \E k \in Found(name) : \A j \in Found(name) : k <= j
    BY <1>1, <1>2
  <1> DEFINE c == CHOOSE k \in Found(name) : \A j \in Found(name) : k <= j
  <1>4. c \in Found(name)
    BY <1>3
  <1>5. Entry(name) = Dentries[c]
    BY DEF Entry
  <1> HIDE DEF c
  <1>6. Dentries[c] \in [name : Names, filetype : {RTC_FILE, DIR_FILE, REG_FILE}, inode_num : InodeNums]
    <2>1. c \in DOMAIN Dentries
      BY <1>4 DEF Found
    <2>2. c \in 1 .. Len(Dentries)
      BY <2>1, DiskAssumption, LenProperties
    <2>3. QED
      BY <2>2, DiskAssumption, ElementOfSeq
  <1>7. QED
    BY <1>4, <1>5, <1>6

(* What is loaded is the whole program: on every disk, for every block     *)
(* size, wherever its blocks lie.                                          *)
THEOREM ProgramsLoadWhole == Spec => []LoadedProgramIsWhole
  <1>1. Init => LoadedProgramIsWhole
    BY DEF Init, LoadedProgramIsWhole
  <1>2. ASSUME LoadedProgramIsWhole, [Next]_vars PROVE LoadedProgramIsWhole'
    <2>1. ASSUME NEW name \in Names, Load(name) PROVE LoadedProgramIsWhole'
      <3>1. Found(name) # {}
        BY <2>1 DEF Load, isExe
      <3>2. Entry(name).inode_num \in InodeNums
        BY <3>1, EntryFacts
      <3>3. /\ image'.inode = Entry(name).inode_num
            /\ image'.data = read_data(Entry(name).inode_num, 0, Length(Entry(name).inode_num)).data
        BY <2>1 DEF Load
      <3>4. image'.data = Contents(image'.inode)
        BY <3>2, <3>3, LoadIsWhole
      <3>5. QED
        BY <3>4 DEF LoadedProgramIsWhole
    <2>2. CASE UNCHANGED image
      BY <1>2, <2>2 DEF LoadedProgramIsWhole, Contents
    <2>3. QED
      BY <1>2, <2>1, <2>2 DEF Next, vars, LoadRefused
  <1>3. QED
    BY <1>1, <1>2, PTL DEF Spec

-----------------------------------------------------------------------------
(* The descriptors.                                                        *)

(* What a slot holds whatever was opened in it before. *)
Slot == [fops : Ops, inode_num : InodeNums, fpos : Nat, flags : {USED, NOT_USED}]

GoodSlot(f) ==
    /\ f \in Slot
    /\ f.fops = "file_fops" => f.fpos <= Length(f.inode_num)
    /\ f.fops = "dir_fops" => f.fpos <= Len(Dentries)
    /\ f.flags = NOT_USED => f.fpos = 0
    /\ f.flags = USED => f.fops # NoOps

SlotsInv ==
    /\ fd_arr \in [Fds -> Slot]
    /\ \A fd \in Fds : GoodSlot(fd_arr[fd])
    /\ answer.value \in Int

(* What Files stands for in FileStreams. *)
OpenFds == {fd \in Fds : fd_arr[fd].flags = USED}
DeviceFds == {fd \in Fds : fd_arr[fd].flags = USED /\ IsDevice(fd)}
Rests == [fd \in Fds |-> RestOf(fd_arr[fd])]
StreamsOnDisk == [name \in NamesOf({REG_FILE, DIR_FILE}) |-> StreamOf(Entry(name))]

(* A stream from place p on, and what is left of it when n more are read.  *)
LEMMA RestOfRest ==
  ASSUME NEW S, NEW s \in Seq(S), NEW p \in Nat, p < Len(s), NEW n \in 1 .. Len(s) - p,
         NEW r, r = SubSeq(s, p + 1, Len(s))
  PROVE  /\ Len(r) = Len(s) - p
         /\ SubSeq(r, 1, n) = SubSeq(s, p + 1, p + n)
         /\ SubSeq(r, n + 1, Len(r)) = SubSeq(s, p + n + 1, Len(s))
  <1> DEFINE L == Len(s)
  <1>1. /\ L \in Nat /\ p + 1 \in 1 .. L /\ L \in 1 .. L /\ L - (p + 1) + 1 = L - p
        /\ n \in 1 .. L - p
    BY LenProperties
  <1>2. r \in Seq(S) /\ Len(r) = L - p
    <2>1. \A j \in p + 1 .. L : s[j] \in S
      BY <1>1, ElementOfSeq
    <2>2. r \in Seq(S) /\ Len(r) = L - (p + 1) + 1
      BY <1>1, <2>1, SubSeqProperties
    <2>3. QED
      BY <1>1, <2>2
  <1> HIDE DEF L
  <1>3. SubSeq(r, 1, n) = SubSeq(s, p + 1, p + n)
    <2>1. 1 \in 1 .. L - (p + 1) + 1 /\ n \in 1 .. L - (p + 1) + 1
      BY <1>1 DEF L
    <2>2. SubSeq(SubSeq(s, p + 1, L), 1, n) = SubSeq(s, (p + 1) + 1 - 1, (p + 1) + n - 1)
      BY <1>1, <2>1, SubSeqOfSubSeq
    <2>3. (p + 1) + 1 - 1 = p + 1 /\ (p + 1) + n - 1 = p + n
      OBVIOUS
    <2>4. QED
      BY <2>2, <2>3 DEF L
  <1>4. SubSeq(r, n + 1, L - p) = SubSeq(s, p + n + 1, L)
    <2>1. CASE n = L - p
      <3>1. L - p < n + 1 /\ L < p + n + 1
        BY <1>1, <2>1
      <3>2. SubSeq(r, n + 1, L - p) = <<>> /\ SubSeq(s, p + n + 1, L) = <<>>
        BY <1>1, <3>1, SubSeqEmpty
      <3>3. QED
        BY <3>2
    <2>2. CASE n # L - p
      <3>1. n + 1 \in 1 .. L - (p + 1) + 1 /\ L - p \in 1 .. L - (p + 1) + 1
        BY <1>1, <2>2
      <3>2. SubSeq(SubSeq(s, p + 1, L), n + 1, L - p)
              = SubSeq(s, (p + 1) + (n + 1) - 1, (p + 1) + (L - p) - 1)
        BY <1>1, <3>1, SubSeqOfSubSeq
      <3>3. (p + 1) + (n + 1) - 1 = p + n + 1 /\ (p + 1) + (L - p) - 1 = L
        BY <1>1
      <3>4. QED
        BY <3>2, <3>3 DEF L
    <2>3. QED
      BY <2>1, <2>2
  <1>5. QED
    BY <1>2, <1>3, <1>4 DEF L

LEMMA ListingType ==
  Listing \in Seq(Names) /\ Len(Listing) = Len(Dentries) /\ Len(Dentries) \in Nat
  <1>1. Dentries \in Seq([name : Names, filetype : {RTC_FILE, DIR_FILE, REG_FILE},
                          inode_num : InodeNums])
    BY DiskAssumption
  <1>2. Len(Dentries) \in Nat /\ DOMAIN Dentries = 1 .. Len(Dentries)
    BY <1>1, LenProperties
  <1>3. Listing \in [1 .. Len(Dentries) -> Names]
    <2>1. ASSUME NEW k \in 1 .. Len(Dentries) PROVE Dentries[k].name \in Names
      <3>1. Dentries[k] \in [name : Names, filetype : {RTC_FILE, DIR_FILE, REG_FILE},
                              inode_num : InodeNums]
        BY <1>1, ElementOfSeq
      <3>2. QED
        BY <3>1
    <2>2. QED
      BY <1>2, <2>1 DEF Listing
  <1>4. Listing \in Seq(Names)
    BY <1>2, <1>3, SeqDef
  <1>5. DOMAIN Listing = 1 .. Len(Dentries)
    BY <1>3
  <1>6. QED
    BY <1>2, <1>4, <1>5, LenProperties

(* A call changes one slot, and the rest of the stream in that slot. *)
LEMMA OneSlot ==
  ASSUME SlotsInv, NEW fd \in Fds, NEW g, GoodSlot(g),
         fd_arr' = [fd_arr EXCEPT ![fd] = g], answer'.value \in Int
  PROVE  /\ SlotsInv'
         /\ g.flags = USED => OpenFds' = OpenFds \cup {fd}
         /\ g.flags = NOT_USED => OpenFds' = OpenFds \ {fd} /\ DeviceFds' = DeviceFds \ {fd}
         /\ g.flags = USED /\ g.fops \in {"rtc_fops", "terminal_fops"} =>
                DeviceFds' = DeviceFds \cup {fd}
         /\ g.fops \notin {"rtc_fops", "terminal_fops"} => DeviceFds' = DeviceFds \ {fd}
         /\ Rests' = [Rests EXCEPT ![fd] = RestOf(g)]
  <1>1. /\ fd_arr' \in [Fds -> Slot] /\ fd_arr'[fd] = g
        /\ \A e \in Fds : e # fd => fd_arr'[e] = fd_arr[e]
    BY DEF SlotsInv, GoodSlot
  <1>2. SlotsInv'
    BY <1>1 DEF SlotsInv
  <1>3. g.flags = USED => OpenFds' = OpenFds \cup {fd}
    BY <1>1 DEF OpenFds
  <1>4. g.flags = NOT_USED => OpenFds' = OpenFds \ {fd} /\ DeviceFds' = DeviceFds \ {fd}
    BY <1>1 DEF OpenFds, DeviceFds, IsDevice, USED, NOT_USED
  <1>5. g.flags = USED /\ g.fops \in {"rtc_fops", "terminal_fops"} =>
            DeviceFds' = DeviceFds \cup {fd}
    BY <1>1 DEF DeviceFds, IsDevice
  <1>6. g.fops \notin {"rtc_fops", "terminal_fops"} => DeviceFds' = DeviceFds \ {fd}
    BY <1>1 DEF DeviceFds, IsDevice
  <1>7. Rests' = [Rests EXCEPT ![fd] = RestOf(g)]
    <2>1. Rests' = [e \in Fds |-> RestOf(fd_arr'[e])]
      BY DEF Rests, RestOf, Contents, Listing
    <2>2. [Rests EXCEPT ![fd] = RestOf(g)] = [e \in Fds |-> IF e = fd THEN RestOf(g) ELSE RestOf(fd_arr[e])]
      BY DEF Rests
    <2>3. QED
      BY <1>1, <2>1, <2>2
  <1>8. QED
    BY <1>2, <1>3, <1>4, <1>5, <1>6, <1>7

(* Calls that leave the descriptors alone. *)
LEMMA SameSlots ==
  ASSUME SlotsInv, UNCHANGED fd_arr
  PROVE  /\ OpenFds' = OpenFds /\ DeviceFds' = DeviceFds /\ Rests' = Rests
         /\ answer'.value \in Int => SlotsInv'
  <1>1. OpenFds' = OpenFds /\ DeviceFds' = DeviceFds
    BY DEF OpenFds, DeviceFds, IsDevice
  <1>2. Rests' = Rests
    BY DEF Rests, RestOf, Contents, Listing
  <1>3. answer'.value \in Int => SlotsInv'
    BY DEF SlotsInv
  <1>4. QED
    BY <1>1, <1>2, <1>3

(* The actions of FileStreams, in those terms. *)
LEMMA PromisedOpen ==
  ASSUME NEW fd \in Fds \ OpenFds, OpenFds' = OpenFds \cup {fd},
         answer' = [fd |-> fd, value |-> fd, data |-> <<>>],
         \/ /\ DeviceFds' = DeviceFds
            /\ \E name \in NamesOf({REG_FILE, DIR_FILE}) :
                 Rests' = [Rests EXCEPT ![fd] = StreamOf(Entry(name))]
         \/ /\ NamesOf({RTC_FILE}) # {}
            /\ DeviceFds' = DeviceFds \cup {fd} /\ Rests' = Rests
  PROVE  Promised!Open
  <1>1. DOMAIN StreamsOnDisk = NamesOf({REG_FILE, DIR_FILE})
    BY DEF StreamsOnDisk
  <1>2. \A name \in NamesOf({REG_FILE, DIR_FILE}) : StreamsOnDisk[name] = StreamOf(Entry(name))
    BY DEF StreamsOnDisk
  <1>3. \/ \E name \in DOMAIN StreamsOnDisk :
             Rests' = [Rests EXCEPT ![fd] = StreamsOnDisk[name]] /\ DeviceFds' = DeviceFds
        \/ NamesOf({RTC_FILE}) # {} /\ DeviceFds' = DeviceFds \cup {fd} /\ Rests' = Rests
    BY <1>1, <1>2
  <1>4. QED
    BY <1>3 DEF Promised!Open, Promised!Answers, OpenFds, DeviceFds, Rests, StreamsOnDisk

LEMMA PromisedRefuse ==
  ASSUME OpenFds' = OpenFds, DeviceFds' = DeviceFds, Rests' = Rests,
         answer'.value = -1, answer'.data = <<>>
  PROVE  Promised!Next
  BY DEF Promised!Next, Promised!Refuse, OpenFds, DeviceFds, Rests

LEMMA PromisedRead ==
  ASSUME NEW fd \in OpenFds, NEW k \in 1 .. Len(Rests[fd]),
         Rests' = [Rests EXCEPT ![fd] = SubSeq(@, k + 1, Len(@))],
         answer'.fd = fd, answer'.value > 0, answer'.data = SubSeq(Rests[fd], 1, k),
         OpenFds' = OpenFds, DeviceFds' = DeviceFds
  PROVE  Promised!Next
  BY DEF Promised!Next, Promised!Read, OpenFds, DeviceFds, Rests

LEMMA PromisedAtEnd ==
  ASSUME NEW fd \in OpenFds \ DeviceFds, Rests[fd] = <<>>,
         answer' = [fd |-> fd, value |-> 0, data |-> <<>>],
         OpenFds' = OpenFds, DeviceFds' = DeviceFds, Rests' = Rests
  PROVE  Promised!Next
  BY DEF Promised!Next, Promised!AtEnd, Promised!Answers, OpenFds, DeviceFds, Rests

LEMMA OpenStep ==
  ASSUME SlotsInv, NEW name \in Names, Open(name)
  PROVE  SlotsInv' /\ Promised!Next
  <1>1. CASE Found(name) = {} \/ FreeSlots = {}
    <2>1. answer'.value = -1 /\ answer'.data = <<>> /\ UNCHANGED fd_arr
      BY <1>1 DEF Open, Answers
    <2>2. -1 \in Int
      OBVIOUS
    <2>3. QED
      BY <2>1, <2>2, SameSlots, PromisedRefuse
  <1>2. CASE Found(name) # {} /\ FreeSlots # {}
    <2> DEFINE fd == CHOOSE s \in FreeSlots : \A t \in FreeSlots : s <= t
               e == Entry(name)
               g == OpenedAt(fd_arr[fd], e)
    <2>1. fd_arr' = [fd_arr EXCEPT ![fd] = g] /\ answer' = [fd |-> fd, value |-> fd, data |-> <<>>]
      BY <1>2 DEF Open, Answers
    <2>2. fd \in FreeSlots
      <3>1. FreeSlots \in SUBSET Nat /\ FreeSlots # {}
        BY <1>2, SizesAssumption DEF FreeSlots
      <3>2. \E s \in FreeSlots : \A t \in FreeSlots : s <= t
        BY <3>1, LeastNat
      <3>3. QED
        BY <3>2
    <2> HIDE DEF fd
    <2>3. /\ fd \in Fds /\ fd \in Int /\ fd \notin OpenFds /\ fd \notin DeviceFds
          /\ fd_arr[fd] \in Slot /\ fd_arr[fd].flags = NOT_USED /\ fd_arr[fd].fpos = 0
      BY <2>2, SizesAssumption DEF FreeSlots, Fds, OpenFds, DeviceFds, USED, NOT_USED, SlotsInv, GoodSlot
    <2>4. /\ e.inode_num \in InodeNums /\ e.filetype \in {RTC_FILE, DIR_FILE, REG_FILE}
          /\ name \in NamesOf({e.filetype})
      BY <1>2, EntryFacts DEF NamesOf
    <2> HIDE DEF e
    <2>5. /\ g.fops = FopsOf(e.filetype) /\ g.flags = USED /\ g.fpos = 0
          /\ g.inode_num = IF e.filetype = REG_FILE THEN e.inode_num ELSE 0
          /\ g \in Slot
      <3>1. FopsOf(e.filetype) \in Ops
        BY <2>4 DEF FopsOf, Ops, RTC_FILE, DIR_FILE, REG_FILE
      <3>2. QED
        BY <2>3, <2>4, <3>1, DiskAssumption DEF OpenedAt, Slot
    <2>6. /\ e.filetype = RTC_FILE => g.fops = "rtc_fops"
          /\ e.filetype = DIR_FILE => g.fops = "dir_fops"
          /\ e.filetype = REG_FILE => g.fops = "file_fops"
      BY <2>5 DEF FopsOf, RTC_FILE, DIR_FILE, REG_FILE
    <2> HIDE DEF g
    <2>7. GoodSlot(g)
      <3>1. Length(g.inode_num) \in Nat /\ Len(Dentries) \in Nat
        BY <2>5, InodeFacts, ListingType DEF Slot
      <3>2. g.fops # NoOps
        BY <2>4, <2>6 DEF NoOps
      <3>3. QED
        BY <2>5, <3>1, <3>2 DEF GoodSlot, USED, NOT_USED
    <2>8. answer'.value \in Int
      BY <2>1, <2>3
    <2>9. /\ SlotsInv' /\ OpenFds' = OpenFds \cup {fd}
          /\ e.filetype = RTC_FILE => DeviceFds' = DeviceFds \cup {fd}
          /\ e.filetype # RTC_FILE => DeviceFds' = DeviceFds
          /\ Rests' = [Rests EXCEPT ![fd] = RestOf(g)]
      <3>1. e.filetype # RTC_FILE => g.fops \notin {"rtc_fops", "terminal_fops"}
        BY <2>4, <2>6
      <3>2. DeviceFds \ {fd} = DeviceFds
        BY <2>3
      <3>3. QED
        BY <2>1, <2>3, <2>5, <2>6, <2>7, <2>8, <3>1, <3>2, OneSlot
    <2>10. CASE e.filetype = RTC_FILE
      <3>1. RestOf(g) = <<>> /\ Rests[fd] = <<>>
        BY <2>3, <2>5, <2>6, <2>10 DEF RestOf, Rests, USED, NOT_USED
      <3>2. Rests' = Rests
        BY <2>9, <3>1 DEF Rests
      <3>3. Promised!Open
        BY <2>1, <2>3, <2>4, <2>9, <2>10, <3>2, PromisedOpen
      <3>4. QED
        BY <2>9, <3>3 DEF Promised!Next
    <2>11. CASE e.filetype # RTC_FILE
      <3>1. RestOf(g) = StreamOf(e)
        <4>1. CASE e.filetype = REG_FILE
          <5>1. RestOf(g) = SubSeq(Contents(e.inode_num), 1, Length(e.inode_num))
            <6>1. /\ g.flags # NOT_USED /\ g.fops = "file_fops" /\ g.inode_num = e.inode_num
                  /\ g.fpos + 1 = 1
              BY <2>5, <2>6, <4>1 DEF USED, NOT_USED
            <6>2. QED
              BY <6>1 DEF RestOf
          <5>2. QED
            BY <2>4, <4>1, <5>1, ContentsType, SubSeqFull DEF StreamOf
        <4>2. CASE e.filetype = DIR_FILE
          <5>1. RestOf(g) = SubSeq(Listing, 1, Len(Listing))
            BY <2>5, <2>6, <4>2 DEF RestOf, USED, NOT_USED
          <5>2. QED
            BY <4>2, <5>1, ListingType, SubSeqFull DEF StreamOf, DIR_FILE, REG_FILE
        <4>3. QED
          BY <2>4, <2>11, <4>1, <4>2
      <3>2. name \in NamesOf({REG_FILE, DIR_FILE})
        BY <2>4, <2>11 DEF NamesOf
      <3>3. Rests' = [Rests EXCEPT ![fd] = StreamOf(Entry(name))]
        BY <2>9, <3>1 DEF e
      <3>4. Promised!Open
        BY <2>1, <2>3, <2>9, <2>11, <3>2, <3>3, PromisedOpen
      <3>5. QED
        BY <2>9, <3>4 DEF Promised!Next
    <2>12. QED
      BY <2>10, <2>11
  <1>3. QED
    BY <1>1, <1>2

LEMMA CloseStep ==
  ASSUME SlotsInv, NEW fd \in -1 .. (MAX_OPEN_FILES - 1), Close(fd)
  PROVE  SlotsInv' /\ Promised!Next
  <1>1. CASE fd < 2 \/ fd_arr[fd].flags = NOT_USED
    <2>1. answer'.value = -1 /\ answer'.data = <<>> /\ UNCHANGED fd_arr
      BY <1>1 DEF Close, Answers
    <2>2. -1 \in Int
      OBVIOUS
    <2>3. QED
      BY <2>1, <2>2, SameSlots, PromisedRefuse
  <1>2. CASE ~(fd < 2 \/ fd_arr[fd].flags = NOT_USED)
    <2> DEFINE g == Closed(fd_arr[fd])
    <2>1. /\ fd_arr' = [fd_arr EXCEPT ![fd] = g]
          /\ answer' = [fd |-> fd, value |-> 0, data |-> <<>>]
      BY <1>2 DEF Close, Answers
    <2>2. fd \in Fds /\ fd \notin {0, 1} /\ fd_arr[fd] \in Slot
      BY <1>2, SizesAssumption DEF Fds, SlotsInv
    <2>3. fd \in OpenFds
      BY <1>2, <2>2 DEF OpenFds, Slot
    <2>4. g \in Slot /\ g.flags = NOT_USED /\ g.fpos = 0 /\ g.inode_num = 0
      BY <2>2, DiskAssumption DEF Closed, Slot
    <2> HIDE DEF g
    <2>5. GoodSlot(g) /\ RestOf(g) = <<>>
      <3>1. Length(g.inode_num) \in Nat /\ Len(Dentries) \in Nat
        BY <2>4, InodeFacts, ListingType DEF Slot
      <3>2. QED
        BY <2>4, <3>1 DEF GoodSlot, RestOf, USED, NOT_USED
    <2>6. answer'.value \in Int
      BY <2>1
    <2>7. /\ SlotsInv' /\ OpenFds' = OpenFds \ {fd} /\ DeviceFds' = DeviceFds \ {fd}
          /\ Rests' = [Rests EXCEPT ![fd] = <<>>]
      BY <2>1, <2>2, <2>4, <2>5, <2>6, OneSlot
    <2>8. fd \in OpenFds \ {0, 1}
      BY <2>2, <2>3
    <2>9. Promised!Close
      BY <2>1, <2>7, <2>8 DEF Promised!Close, Promised!Answers, OpenFds, DeviceFds, Rests
    <2>10. QED
      BY <2>7, <2>9 DEF Promised!Next
  <1>3. QED
    BY <1>1, <1>2

LEMMA ReadFileStep ==
  ASSUME SlotsInv, ~Crossing, NEW fd \in -1 .. (MAX_OPEN_FILES - 1), NEW nbytes \in Counts,
         ReadFile(fd, nbytes)
  PROVE  SlotsInv' /\ Promised!Next
  <1> DEFINE f == fd_arr[fd]
             i == f.inode_num
             got == file_read(f, nbytes)
             g == [f EXCEPT !.fpos = @ + got.value]
  <1>1. /\ f.flags # NOT_USED /\ f.fops = "file_fops" /\ StaysInBlock(f, nbytes)
        /\ nbytes \in Nat \ {0} /\ fd \in Fds
        /\ answer' = [fd |-> fd, value |-> got.value, data |-> got.data]
        /\ fd_arr' = [fd_arr EXCEPT ![fd] = g]
    <2>1. nbytes \in Nat
      BY SizesAssumption
    <2>2. QED
      BY <2>1, SizesAssumption DEF ReadFile, Usable, Fds
  <1>2. f \in Slot /\ GoodSlot(f)
    BY <1>1 DEF SlotsInv
  <1>3. /\ i \in InodeNums /\ f.flags = USED /\ f.fpos \in Nat /\ f.fpos <= Length(i)
        /\ Length(i) \in Nat /\ BLOCK_SIZE \in Nat \ {0}
    BY <1>1, <1>2, InodeFacts DEF Slot, GoodSlot
  <1>4. fd \in OpenFds /\ fd \notin DeviceFds
    BY <1>1, <1>3 DEF OpenFds, DeviceFds, IsDevice
  <1>5. Contents(i) \in Seq(Byte) /\ Len(Contents(i)) = Length(i)
    BY <1>3, ContentsType
  <1>6. Rests[fd] = SubSeq(Contents(i), f.fpos + 1, Length(i))
    BY <1>1 DEF Rests, RestOf
  <1>7. CASE f.fpos >= Length(i)
    <2>1. got = [value |-> 0, data |-> <<>>]
      BY <1>7 DEF file_read
    <2>2. fd_arr' = fd_arr
      <3>1. g.fpos = f.fpos + 0
        BY <1>2, <2>1 DEF Slot
      <3>2. g = f
        BY <1>2, <1>3, <3>1 DEF Slot
      <3>3. QED
        BY <1>1, <3>2 DEF SlotsInv
    <2>3. answer' = [fd |-> fd, value |-> 0, data |-> <<>>] /\ answer'.value \in Int
      BY <1>1, <2>1
    <2>4. Rests[fd] = <<>>
      <3>1. Length(i) < f.fpos + 1
        BY <1>3, <1>7
      <3>2. QED
        BY <1>3, <1>6, <3>1, SubSeqEmpty
    <2>5. QED
      BY <1>4, <2>2, <2>3, <2>4, SameSlots, PromisedAtEnd
  <1>8. CASE ~(f.fpos >= Length(i))
    <2> DEFINE length == ReadUntil(i, nbytes)
               n == ToTheEnd(i, f.fpos, length)
    <2>1. /\ n \in Nat \ {0} /\ f.fpos + n <= Length(i) /\ f.fpos < Length(i)
          /\ n = Smaller(nbytes, Length(i) - f.fpos)
      BY <1>1, <1>3, <1>8 DEF ReadUntil, ToTheEnd, Smaller
    <2>2. f.fpos < BLOCK_SIZE \/ (f.fpos % BLOCK_SIZE) + n <= BLOCK_SIZE
      BY <1>1, <2>1 DEF StaysInBlock
    <2>3. got = [value |-> n, data |-> SubSeq(Contents(i), f.fpos + 1, f.fpos + n)]
      <3>1. got = read_data(i, f.fpos, length)
        BY <1>8 DEF file_read
      <3>2. QED
        BY <1>3, <2>1, <2>2, <3>1, ReadDataIsContents
    <2> HIDE DEF n, got
    <2>4. got.value = n /\ got.data = SubSeq(Contents(i), f.fpos + 1, f.fpos + n)
      BY <2>3
    <2>5. /\ g \in Slot /\ g.fpos = f.fpos + n /\ g.inode_num = i /\ g.fops = "file_fops"
          /\ g.flags = USED
      <3>1. g = [f EXCEPT !.fpos = f.fpos + n] /\ f.fpos + n \in Nat
        BY <1>3, <2>1, <2>4
      <3>2. QED
        BY <1>1, <1>2, <1>3, <3>1 DEF Slot
    <2> HIDE DEF g
    <2>6. GoodSlot(g)
      BY <2>1, <2>5 DEF GoodSlot, USED, NOT_USED, NoOps
    <2>7. answer'.value \in Int /\ answer'.value = n /\ answer'.fd = fd
          /\ answer'.data = SubSeq(Contents(i), f.fpos + 1, f.fpos + n)
      <3>1. answer'.value = got.value /\ answer'.fd = fd /\ answer'.data = got.data
        BY <1>1
      <3>2. QED
        BY <2>1, <2>4, <3>1
    <2>8. RestOf(g) = SubSeq(Contents(i), f.fpos + n + 1, Length(i))
      BY <2>5 DEF RestOf, USED, NOT_USED
    <2>9. /\ n \in 1 .. Len(Rests[fd])
          /\ SubSeq(Rests[fd], 1, n) = SubSeq(Contents(i), f.fpos + 1, f.fpos + n)
          /\ SubSeq(Rests[fd], n + 1, Len(Rests[fd])) = RestOf(g)
      <3>1. n \in 1 .. Len(Contents(i)) - f.fpos
        BY <1>3, <1>5, <2>1
      <3> DEFINE r == Rests[fd]
                 s == Contents(i)
                 p == f.fpos
      <3>2. /\ s \in Seq(Byte) /\ p \in Nat /\ p < Len(s) /\ n \in 1 .. Len(s) - p
            /\ r = SubSeq(s, p + 1, Len(s))
        BY <1>3, <1>5, <1>6, <2>1, <3>1
      <3> HIDE DEF r, s, p
      <3>3. /\ Len(r) = Len(s) - p
            /\ SubSeq(r, 1, n) = SubSeq(s, p + 1, p + n)
            /\ SubSeq(r, n + 1, Len(r)) = SubSeq(s, p + n + 1, Len(s))
        BY <3>2, RestOfRest
      <3>4. QED
        BY <1>5, <2>8, <3>2, <3>3 DEF r, s, p
    <2>10. /\ SlotsInv' /\ OpenFds' = OpenFds \cup {fd} /\ DeviceFds' = DeviceFds \ {fd}
          /\ Rests' = [Rests EXCEPT ![fd] = RestOf(g)]
      BY <1>1, <2>5, <2>6, <2>7, OneSlot
    <2>11. OpenFds' = OpenFds /\ DeviceFds' = DeviceFds
      BY <1>4, <2>10
    <2>12. Rests' = [Rests EXCEPT ![fd] = SubSeq(@, n + 1, Len(@))]
      BY <1>1, <2>9, <2>10
    <2>13. answer'.value > 0
      BY <2>1, <2>7
    <2>14. Promised!Next
      BY <1>4, <2>7, <2>9, <2>11, <2>12, <2>13, PromisedRead
    <2>15. QED
      BY <2>10, <2>14
  <1>9. QED
    BY <1>7, <1>8

LEMMA ReadDirectoryStep ==
  ASSUME SlotsInv, NEW fd \in -1 .. (MAX_OPEN_FILES - 1), NEW nbytes, ReadDirectory(fd, nbytes)
  PROVE  SlotsInv' /\ Promised!Next
  <1> DEFINE f == fd_arr[fd]
             g == [f EXCEPT !.fpos = @ + 1]
  <1>1. fd \in Fds /\ f.flags # NOT_USED /\ f.fops = "dir_fops"
    BY SizesAssumption DEF ReadDirectory, Usable, Fds
  <1>2. /\ f \in Slot /\ f.flags = USED /\ f.fpos \in Nat /\ f.fpos <= Len(Listing)
        /\ Len(Listing) \in Nat /\ Len(Listing) = Len(Dentries) /\ Listing \in Seq(Names)
    BY <1>1, ListingType DEF SlotsInv, GoodSlot, Slot
  <1>3. fd \in OpenFds /\ fd \notin DeviceFds
    BY <1>1, <1>2 DEF OpenFds, DeviceFds, IsDevice
  <1>4. Rests[fd] = SubSeq(Listing, f.fpos + 1, Len(Listing))
    BY <1>1 DEF Rests, RestOf
  <1>5. CASE f.fpos >= Len(Dentries)
    <2>1. answer' = [fd |-> fd, value |-> 0, data |-> <<>>] /\ UNCHANGED fd_arr
      BY <1>5 DEF ReadDirectory, Answers
    <2>2. Rests[fd] = <<>>
      <3>1. Len(Listing) < f.fpos + 1
        BY <1>2, <1>5
      <3>2. QED
        BY <1>2, <1>4, <3>1, SubSeqEmpty
    <2>3. answer'.value \in Int
      BY <2>1
    <2>4. QED
      BY <1>3, <2>1, <2>2, <2>3, SameSlots, PromisedAtEnd
  <1>6. CASE ~(f.fpos >= Len(Dentries))
    <2>1. /\ answer' = [fd |-> fd, value |-> 1, data |-> <<Dentries[f.fpos + 1].name>>]
          /\ fd_arr' = [fd_arr EXCEPT ![fd] = g]
      BY <1>6 DEF ReadDirectory
    <2>2. /\ g \in Slot /\ g.fpos = f.fpos + 1 /\ g.fops = "dir_fops" /\ g.flags = USED
      BY <1>1, <1>2 DEF Slot
    <2> HIDE DEF g
    <2>3. GoodSlot(g)
      BY <1>2, <1>6, <2>2 DEF GoodSlot, USED, NOT_USED, NoOps
    <2>4. RestOf(g) = SubSeq(Listing, f.fpos + 1 + 1, Len(Listing))
      BY <2>2 DEF RestOf, USED, NOT_USED
    <2>5. 1 \in 1 .. Len(Listing) - f.fpos /\ f.fpos < Len(Listing)
      BY <1>2, <1>6
    <2>6. /\ Len(Rests[fd]) = Len(Listing) - f.fpos
          /\ SubSeq(Rests[fd], 1, 1) = SubSeq(Listing, f.fpos + 1, f.fpos + 1)
          /\ SubSeq(Rests[fd], 1 + 1, Len(Rests[fd])) = RestOf(g)
      <3> DEFINE r == Rests[fd]
                 s == Listing
                 p == f.fpos
      <3>1. /\ s \in Seq(Names) /\ p \in Nat /\ p < Len(s) /\ 1 \in 1 .. Len(s) - p
            /\ r = SubSeq(s, p + 1, Len(s))
        BY <1>2, <1>4, <2>5
      <3> HIDE DEF r, s, p
      <3>2. /\ Len(r) = Len(s) - p
            /\ SubSeq(r, 1, 1) = SubSeq(s, p + 1, p + 1)
            /\ SubSeq(r, 1 + 1, Len(r)) = SubSeq(s, p + 1 + 1, Len(s))
        BY <3>1, RestOfRest
      <3>3. QED
        BY <2>4, <3>2 DEF r, s, p
    <2>7. SubSeq(Listing, f.fpos + 1, f.fpos + 1) = <<Dentries[f.fpos + 1].name>>
      <3> DEFINE p == f.fpos + 1
      <3>1. p \in 1 .. Len(Listing) /\ p \in Int
        BY <1>2, <2>5
      <3> HIDE DEF p
      <3>2. Listing[p] = Dentries[p].name /\ Listing[p] \in Names
        <4>1. DOMAIN Dentries = 1 .. Len(Dentries)
          BY DiskAssumption, LenProperties
        <4>2. QED
          BY <1>2, <3>1, <4>1, ElementOfSeq DEF Listing
      <3> DEFINE one == SubSeq(Listing, p, p)
      <3>3. one \in Seq(Names) /\ Len(one) = 1 /\ one[1] = Listing[p]
        <4>1. \A j \in p .. p : Listing[j] \in Names
          BY <3>1, <3>2
        <4>2. /\ one \in Seq(Names) /\ Len(one) = IF p <= p THEN p - p + 1 ELSE 0
              /\ \A j \in 1 .. p - p + 1 : one[j] = Listing[p + j - 1]
          BY <3>1, <4>1, SubSeqProperties
        <4>3. p - p + 1 = 1 /\ p + 1 - 1 = p /\ p <= p
          BY <3>1
        <4>4. QED
          BY <4>2, <4>3
      <3> HIDE DEF one
      <3>4. one = <<Listing[p]>>
        BY <3>2, <3>3, SeqEqual
      <3>5. QED
        BY <3>2, <3>4 DEF one, p
    <2>8. answer'.value \in Int /\ answer'.value > 0 /\ answer'.fd = fd
          /\ answer'.data = SubSeq(Rests[fd], 1, 1)
      <3>1. answer'.value = 1 /\ answer'.fd = fd /\ answer'.data = <<Dentries[f.fpos + 1].name>>
        BY <2>1
      <3>2. SubSeq(Rests[fd], 1, 1) = <<Dentries[f.fpos + 1].name>>
        BY <2>6, <2>7
      <3>3. answer'.data = SubSeq(Rests[fd], 1, 1)
        BY <3>1, <3>2, Zenon
      <3>4. answer'.value \in Int /\ answer'.value > 0
        BY <3>1
      <3>5. QED
        BY <3>1, <3>3, <3>4, Zenon
    <2>9. /\ SlotsInv' /\ OpenFds' = OpenFds \cup {fd} /\ DeviceFds' = DeviceFds \ {fd}
          /\ Rests' = [Rests EXCEPT ![fd] = RestOf(g)]
      BY <1>1, <2>1, <2>2, <2>3, <2>8, OneSlot
    <2>10. OpenFds' = OpenFds /\ DeviceFds' = DeviceFds
      BY <1>3, <2>9
    <2>11. Rests' = [Rests EXCEPT ![fd] = SubSeq(@, 1 + 1, Len(@))]
      BY <1>1, <2>6, <2>9
    <2>12. Promised!Next
      BY <1>2, <1>3, <2>5, <2>6, <2>8, <2>10, <2>11, PromisedRead
    <2>13. QED
      BY <2>9, <2>12
  <1>7. QED
    BY <1>5, <1>6

LEMMA DeviceStep ==
  ASSUME SlotsInv, NEW fd \in -1 .. (MAX_OPEN_FILES - 1), NEW nbytes \in Counts,
         CallDevice(fd, nbytes)
  PROVE  SlotsInv' /\ Promised!Next
  <1>1. fd \in DeviceFds
    <2>1. fd \in Fds
      BY SizesAssumption DEF CallDevice, Usable, Fds
    <2>2. fd_arr[fd].flags = USED
      BY <2>1 DEF CallDevice, Usable, SlotsInv, Slot
    <2>3. QED
      BY <2>1, <2>2 DEF CallDevice, DeviceFds
  <1>2. /\ answer'.fd = fd /\ answer'.data = <<>> /\ answer'.value \in Int
        /\ UNCHANGED fd_arr
    BY SizesAssumption DEF CallDevice, Answers
  <1>3. SlotsInv' /\ OpenFds' = OpenFds /\ DeviceFds' = DeviceFds /\ Rests' = Rests
    BY <1>2, SameSlots
  <1>4. Promised!DeviceCall
    BY <1>1, <1>2, <1>3 DEF Promised!DeviceCall, OpenFds, DeviceFds, Rests
  <1>5. QED
    BY <1>3, <1>4 DEF Promised!Next

(* A refused call answers -1, and nothing else. *)
LEMMA RefusedStep ==
  ASSUME SlotsInv, NEW fd, Answers(fd, -1), UNCHANGED fd_arr
  PROVE  SlotsInv' /\ Promised!Next
  <1>1. answer'.value = -1 /\ answer'.data = <<>> /\ answer'.value \in Int
    BY DEF Answers
  <1>2. QED
    BY <1>1, SameSlots, PromisedRefuse

LEMMA StreamsStep ==
  ASSUME SlotsInv, ~Crossing, [Next]_vars
  PROVE  SlotsInv' /\ [Promised!Next]_(Promised!vars)
  <1>1. ASSUME UNCHANGED <<fd_arr, answer>>
        PROVE  SlotsInv' /\ UNCHANGED Promised!vars
    <2>1. SlotsInv' /\ OpenFds' = OpenFds /\ DeviceFds' = DeviceFds /\ Rests' = Rests
      BY <1>1, SameSlots DEF SlotsInv
    <2>2. QED
      BY <1>1, <2>1 DEF Promised!vars, OpenFds, DeviceFds, Rests
  <1>2. CASE UNCHANGED vars
    BY <1>1, <1>2 DEF vars
  <1>3. ASSUME NEW name \in Names, Open(name) PROVE SlotsInv' /\ Promised!Next
    BY <1>3, OpenStep
  <1>4. ASSUME NEW fd \in -1 .. (MAX_OPEN_FILES - 1), Close(fd)
        PROVE  SlotsInv' /\ Promised!Next
    BY <1>4, CloseStep
  <1>5. ASSUME NEW fd \in -1 .. (MAX_OPEN_FILES - 1), NEW n \in Counts, Read(fd, n)
        PROVE  SlotsInv' /\ Promised!Next
    BY <1>5, ReadFileStep, ReadDirectoryStep, DeviceStep, RefusedStep DEF Read, ReadRefused
  <1>6. ASSUME NEW fd \in -1 .. (MAX_OPEN_FILES - 1), NEW n \in Counts, Write(fd, n)
        PROVE  SlotsInv' /\ Promised!Next
    BY <1>6, DeviceStep, RefusedStep DEF Write, WriteRefused
  <1>7. ASSUME NEW name \in Names, LoadRefused(name) PROVE SlotsInv' /\ Promised!Next
    BY <1>7, RefusedStep DEF LoadRefused
  <1>8. QED
    BY <1>1, <1>2, <1>3, <1>4, <1>5, <1>6, <1>7 DEF Next

LEMMA StreamsInit ==
  ASSUME Init
  PROVE  SlotsInv /\ Promised!Init
  <1>1. /\ 0 \in Fds /\ 1 \in Fds /\ 0 \in InodeNums /\ \A fd \in Fds : fd \in Nat
        /\ \A fd \in Fds : fd < 2 <=> fd \in {0, 1}
    BY SizesAssumption, DiskAssumption DEF Fds
  <1>2. \A fd \in Fds :
          /\ fd_arr[fd].fops = IF fd < 2 THEN "terminal_fops" ELSE NoOps
          /\ fd_arr[fd].flags = IF fd < 2 THEN USED ELSE NOT_USED
          /\ fd_arr[fd] \in Slot /\ GoodSlot(fd_arr[fd])
    BY <1>1 DEF Init, Slot, GoodSlot, Ops, NoOps, USED, NOT_USED
  <1>3. SlotsInv
    BY <1>2 DEF Init, SlotsInv
  <1>4. OpenFds = {0, 1} /\ DeviceFds = {0, 1}
    <2>1. ASSUME NEW fd \in Fds
          PROVE  /\ fd_arr[fd].flags = USED <=> fd \in {0, 1}
                 /\ fd \in {0, 1} => fd_arr[fd].fops = "terminal_fops"
      <3>1. /\ fd_arr[fd].flags = IF fd < 2 THEN USED ELSE NOT_USED
            /\ fd_arr[fd].fops = IF fd < 2 THEN "terminal_fops" ELSE NoOps
        BY <1>2
      <3>2. QED
        BY <1>1, <3>1 DEF USED, NOT_USED
    <2>2. QED
      BY <1>1, <2>1 DEF OpenFds, DeviceFds, IsDevice
  <1>5. Rests = [fd \in Fds |-> <<>>]
    <2>1. ASSUME NEW fd \in Fds PROVE fd_arr[fd].fops \in {"terminal_fops", "unset"}
      <3>1. fd_arr[fd].fops = IF fd < 2 THEN "terminal_fops" ELSE NoOps
        BY <1>2
      <3>2. QED
        BY <3>1 DEF NoOps
    <2>2. \A fd \in Fds : RestOf(fd_arr[fd]) = <<>>
      BY <2>1 DEF RestOf
    <2>3. QED
      BY <2>2 DEF Rests
  <1>6. Promised!Init
    BY <1>4, <1>5 DEF Init, Promised!Init, OpenFds, DeviceFds, Rests
  <1>7. QED
    BY <1>3, <1>6

(* Every sequence of calls: the descriptors of a process are the streams   *)
(* FileStreams describes, and no slot remembers what it held, on every     *)
(* disk and for every size of block, table and read, as long as a read     *)
(* that starts behind the first block ends in the block it starts in.      *)
THEOREM DescriptorsAreStreams == ~Crossing => (Spec => ImplementsStreams)
  <1> SUFFICES ASSUME ~Crossing PROVE Spec => ImplementsStreams
    OBVIOUS
  <1>1. Init => SlotsInv /\ Promised!Init
    BY StreamsInit
  <1>2. SlotsInv /\ [Next]_vars => SlotsInv' /\ [Promised!Next]_(Promised!vars)
    BY StreamsStep
  <1>3. SlotsInv => TypeOK /\ SlotsAreClean
    BY DEF SlotsInv, GoodSlot, Slot, TypeOK, SlotsAreClean
  <1>4. QED
    BY <1>1, <1>2, <1>3, PTL DEF Spec, ImplementsStreams, Promised!Spec

-----------------------------------------------------------------------------
(* The library. *)

(* So what begins at 0 and goes on holds up to L. *)
LEMMA GoesOn ==
  ASSUME NEW L \in Nat, NEW G, 0 \in G, \A n \in 1 .. L : n - 1 \in G => n \in G
  PROVE  \A n \in 0 .. L : n \in G
  <1> DEFINE Bad == {n \in 0 .. L : n \notin G}
  <1> SUFFICES ASSUME Bad # {} PROVE FALSE
    OBVIOUS
  <1>1. Bad \in SUBSET Nat
    OBVIOUS
  <1>2. PICK m \in Bad : \A k \in Bad : m <= k
    <2> HIDE DEF Bad
    <2>1. QED
      BY <1>1, LeastNat
  <1>3. m \in 1 .. L /\ m \notin G
    OBVIOUS
  <1>4. m - 1 \in 0 .. L /\ ~(m <= m - 1)
    BY <1>3
  <1>5. m - 1 \in G
    BY <1>2, <1>4
  <1>6. QED
    BY <1>3, <1>5

-----------------------------------------------------------------------------
(* Loops. *)

(* A loop of L turns, each a function from states to states, runs.          *)
Turns(S, L) == [1 .. L -> [S -> S]]
LoopOf(f, S, m, T, k) == f \in [0 .. k -> S] /\ f[0] = m /\ \A n \in 1 .. k : f[n] = T[n][f[n - 1]]

(* A loop runs to its end, whatever its turns do.                           *)
LEMMA LoopRuns ==
  ASSUME NEW S, NEW m \in S, NEW L \in Nat, NEW T \in Turns(S, L)
  PROVE  \E f : LoopOf(f, S, m, T, L)
  <1> DEFINE Runs(f, k) == f \in [0 .. k -> S] /\ f[0] = m /\ \A n \in 1 .. k : f[n] = T[n][f[n - 1]]
             Some == {k \in 0 .. L : \E f : Runs(f, k)}
  <1>0. T \in [1 .. L -> [S -> S]]
    BY DEF Turns
  <1>1. 0 \in Some
    <2> DEFINE f == [n \in 0 .. 0 |-> m]
    <2>1. Runs(f, 0)
      OBVIOUS
    <2> HIDE DEF f, Runs
    <2>2. QED
      BY <2>1
  <1>2. ASSUME NEW k \in 1 .. L, k - 1 \in Some PROVE k \in Some
    <2>1. PICK b : Runs(b, k - 1)
      BY <1>2
    <2> DEFINE a == [n \in 0 .. k |-> IF n = k THEN T[k][b[k - 1]] ELSE b[n]]
    <2>2. a \in [0 .. k -> S]
      <3>1. T[k][b[k - 1]] \in S
        BY <1>0, <2>1
      <3>2. \A n \in 0 .. k : n # k => b[n] \in S
        BY <2>1
      <3>3. QED
        BY <3>1, <3>2
    <2>3. a[0] = m
      BY <2>1
    <2>4. ASSUME NEW n \in 1 .. k PROVE a[n] = T[n][a[n - 1]]
      <3>1. a[n - 1] = b[n - 1]
        OBVIOUS
      <3>2. CASE n = k
        BY <3>1, <3>2
      <3>3. CASE n # k
        <4>1. n \in 1 .. (k - 1) /\ a[n] = b[n]
          BY <3>3
        <4> HIDE DEF a
        <4>2. QED
          BY <2>1, <3>1, <4>1
      <3>4. QED
        BY <3>2, <3>3
    <2>5. Runs(a, k)
      BY <2>2, <2>3, <2>4
    <2> HIDE DEF a, Runs
    <2>6. QED
      BY <2>5
  <1>3. \A k \in 0 .. L : k \in Some
    <2> HIDE DEF Some
    <2>1. QED
      BY <1>1, <1>2, GoesOn
  <1>4. L \in Some
    <2>1. L \in 0 .. L
      OBVIOUS
    <2> HIDE DEF Some
    <2>2. QED
      BY <1>3, <2>1
  <1>5. QED
    BY <1>4 DEF LoopOf

(* What starts in S and stays there is a function into S.                   *)
Stays(f, S, L) ==
  f = [n \in 0 .. L |-> f[n]] /\ f[0] \in S /\ \A n \in 1 .. L : f[n - 1] \in S => f[n] \in S

(* And it stays in the set that every turn keeps to.                        *)
LEMMA LoopStays ==
  ASSUME NEW S, NEW L \in Nat, NEW f, Stays(f, S, L)
  PROVE  f \in [0 .. L -> S]
  <1> DEFINE Typed == {n \in 0 .. L : f[n] \in S}
  <1>1. \A n \in 0 .. L : n \in Typed
    <2>1. 0 \in Typed /\ \A n \in 1 .. L : n - 1 \in Typed => n \in Typed
      BY DEF Stays
    <2> HIDE DEF Typed
    <2>2. QED
      BY <2>1, GoesOn
  <1>2. \A n \in 0 .. L : f[n] \in S
    BY <1>1
  <1>3. QED
    BY <1>2 DEF Stays

-----------------------------------------------------------------------------
(* Memory. *)

Mem == [Memory -> Int]
Chunk == [at : Int, width : Nat]
ReadsMemory(d, s, cs) ==
  \A k \in 1 .. Len(cs) : \A a \in Memory : a \in Bytes(d, cs[k]) => s + a - d \in Memory

(* Copying chunk after chunk.                                               *)
LEMMA CopyLoop ==
  ASSUME NEW m \in Mem, NEW d \in Int, NEW s \in Int, NEW cs \in Seq(Chunk),
         ReadsMemory(d, s, cs)
  PROVE  \E f \in [0 .. Len(cs) -> Mem] :
           /\ f[0] = m
           /\ \A n \in 1 .. Len(cs) : f[n] = CopyChunk(f[n - 1], d, s, cs[n])
           /\ Copied(m, d, s, cs) = f[Len(cs)]
  <1> DEFINE L == Len(cs)
             Turn(p, n) == CopyChunk(p, d, s, cs[n])
             Goes(f) == f = [n \in 0 .. L |-> IF n = 0 THEN m ELSE Turn(f[n - 1], n)]
             loop == CHOOSE f : Goes(f)
  <1>1. Copied(m, d, s, cs) = loop[L]
    BY DEF Copied
  <1>2. L \in Nat /\ m \in Mem
    BY LenProperties
  <1> HIDE DEF L
  <1>3. \A p \in Mem, n \in 1 .. L : Turn(p, n) \in Mem
    BY DEF CopyChunk, Mem, L, ReadsMemory
  <1> HIDE DEF Turn
  <1>4. \E f : Goes(f)
    <2> DEFINE T == [n \in 1 .. L |-> [p \in Mem |-> Turn(p, n)]]
    <2>1. T \in Turns(Mem, L)
      BY <1>3 DEF Turns
    <2> HIDE DEF T
    <2>2. PICK f : LoopOf(f, Mem, m, T, L)
      BY <1>2, <2>1, LoopRuns
    <2> USE DEF T
    <2>3. ASSUME NEW n \in 0 .. L PROVE f[n] = IF n = 0 THEN m ELSE Turn(f[n - 1], n)
      <3>1. f \in [0 .. L -> Mem] /\ f[0] = m
        BY <2>2 DEF LoopOf
      <3>2. CASE n # 0
        <4>1. n \in 1 .. L /\ n - 1 \in 0 .. L
          BY <1>2, <3>2
        <4> HIDE DEF T
        <4>2. f[n] = T[n][f[n - 1]]
          BY <2>2, <4>1 DEF LoopOf
        <4> USE DEF T
        <4>3. f[n - 1] \in Mem
          BY <3>1, <4>1
        <4> HIDE DEF Goes
        <4>4. QED
          BY <3>2, <4>1, <4>2, <4>3
      <3>3. QED
        BY <3>1, <3>2
    <2>4. f = [n \in 0 .. L |-> f[n]]
      BY <2>2 DEF LoopOf
    <2> HIDE DEF T
    <2>5. QED
      BY <2>3, <2>4
  <1>5. Goes(loop)
    <2> HIDE DEF Goes
    <2>1. QED
      BY <1>4
  <1> HIDE DEF loop
  <1>6. loop[0] = m /\ \A n \in 1 .. L : loop[n] = Turn(loop[n - 1], n)
    BY <1>2, <1>5
  <1>7. loop = [n \in 0 .. L |-> loop[n]]
    BY <1>5
  <1> HIDE DEF Goes
  <1>8. loop \in [0 .. L -> Mem]
    <2>1. Stays(loop, Mem, L)
      BY <1>2, <1>3, <1>6, <1>7 DEF Stays
    <2>2. QED
      BY <1>2, <2>1, LoopStays
  <1>9. QED
    BY <1>1, <1>6, <1>8 DEF L, Turn

FillChunk(m, s, w, c) ==
  [a \in Memory |-> IF a \in Bytes(s, c) THEN Fill + ((a - s) % w) ELSE m[a]]

(* Filling chunk after chunk.                                               *)
LEMMA FillLoop ==
  ASSUME NEW m \in Mem, NEW s \in Int, NEW w \in Nat \ {0}, NEW cs \in Seq(Chunk)
  PROVE  \E f \in [0 .. Len(cs) -> Mem] :
           /\ f[0] = m
           /\ \A n \in 1 .. Len(cs) : f[n] = FillChunk(f[n - 1], s, w, cs[n])
           /\ Filled(m, s, w, cs) = f[Len(cs)]
  <1> DEFINE L == Len(cs)
             Turn(p, n) == FillChunk(p, s, w, cs[n])
             Goes(f) == f = [n \in 0 .. L |-> IF n = 0 THEN m ELSE Turn(f[n - 1], n)]
             loop == CHOOSE f : Goes(f)
  <1>1. Filled(m, s, w, cs) = loop[L]
    BY DEF Filled, FillChunk
  <1>2. L \in Nat /\ m \in Mem
    BY LenProperties
  <1> HIDE DEF L
  <1>3. \A p \in Mem, n \in 1 .. L : Turn(p, n) \in Mem
    BY StringsAssumption DEF FillChunk, Mem, L, Fill
  <1> HIDE DEF Turn
  <1>4. \E f : Goes(f)
    <2> DEFINE T == [n \in 1 .. L |-> [p \in Mem |-> Turn(p, n)]]
    <2>1. T \in Turns(Mem, L)
      BY <1>3 DEF Turns
    <2> HIDE DEF T
    <2>2. PICK f : LoopOf(f, Mem, m, T, L)
      BY <1>2, <2>1, LoopRuns
    <2> USE DEF T
    <2>3. ASSUME NEW n \in 0 .. L PROVE f[n] = IF n = 0 THEN m ELSE Turn(f[n - 1], n)
      <3>1. f \in [0 .. L -> Mem] /\ f[0] = m
        BY <2>2 DEF LoopOf
      <3>2. CASE n # 0
        <4>1. n \in 1 .. L /\ n - 1 \in 0 .. L
          BY <1>2, <3>2
        <4> HIDE DEF T
        <4>2. f[n] = T[n][f[n - 1]]
          BY <2>2, <4>1 DEF LoopOf
        <4> USE DEF T
        <4>3. f[n - 1] \in Mem
          BY <3>1, <4>1
        <4> HIDE DEF Goes
        <4>4. QED
          BY <3>2, <4>1, <4>2, <4>3
      <3>3. QED
        BY <3>1, <3>2
    <2>4. f = [n \in 0 .. L |-> f[n]]
      BY <2>2 DEF LoopOf
    <2> HIDE DEF T
    <2>5. QED
      BY <2>3, <2>4
  <1>5. Goes(loop)
    <2> HIDE DEF Goes
    <2>1. QED
      BY <1>4
  <1> HIDE DEF loop
  <1>6. loop[0] = m /\ \A n \in 1 .. L : loop[n] = Turn(loop[n - 1], n)
    BY <1>2, <1>5
  <1>7. loop = [n \in 0 .. L |-> loop[n]]
    BY <1>5
  <1> HIDE DEF Goes
  <1>8. loop \in [0 .. L -> Mem]
    <2>1. Stays(loop, Mem, L)
      BY <1>2, <1>3, <1>6, <1>7 DEF Stays
    <2>2. QED
      BY <1>2, <2>1, LoopStays
  <1>9. QED
    BY <1>1, <1>6, <1>8 DEF L, Turn

(* Chunks that follow each other from 0 to n. *)
End(cs, k) == IF k = 0 THEN 0 ELSE cs[k].at + cs[k].width
Upwards(cs, n) ==
  /\ cs \in Seq(Chunk)
  /\ \A k \in 1 .. Len(cs) : cs[k].at = End(cs, k - 1) /\ End(cs, k) <= n
  /\ End(cs, Len(cs)) = n

(* Chunks that go upwards end where the bytes that were asked for end.      *)
LEMMA EndsAre ==
  ASSUME NEW n \in Nat, NEW cs, Upwards(cs, n)
  PROVE  /\ Len(cs) \in Nat
         /\ \A k \in 1 .. Len(cs) : cs[k].at \in Int /\ cs[k].width \in Nat
         /\ \A k \in 0 .. Len(cs) : End(cs, k) \in Int /\ End(cs, k) <= n
         /\ \A k \in 1 .. Len(cs) : k - 1 \in 0 .. Len(cs) /\ End(cs, k) >= End(cs, k - 1)
                                    /\ End(cs, k - 1) >= 0
         /\ \A k \in 1 .. Len(cs) : cs[k].at = End(cs, k - 1) /\ End(cs, k) = cs[k].at + cs[k].width
         /\ cs \in Seq(Chunk) /\ End(cs, Len(cs)) = n
  <1>1. cs \in Seq(Chunk) /\ Len(cs) \in Nat
    BY DEF Upwards
  <1>2. \A k \in 1 .. Len(cs) : cs[k] \in Chunk
    BY <1>1, ElementOfSeq
  <1>3. \A k \in 1 .. Len(cs) : cs[k].at \in Int /\ cs[k].width \in Nat
    BY <1>2 DEF Chunk
  <1>4. \A k \in 0 .. Len(cs) : End(cs, k) \in Int
    BY <1>1, <1>3 DEF End
  <1>5. \A k \in 0 .. Len(cs) : End(cs, k) <= n
    <2>1. End(cs, 0) = 0
      BY DEF End
    <2>2. QED
      BY <1>1, <2>1 DEF Upwards
  <1>6. \A k \in 1 .. Len(cs) : k - 1 \in 0 .. Len(cs) /\ End(cs, k) >= End(cs, k - 1)
    <2> SUFFICES ASSUME NEW k \in 1 .. Len(cs)
                 PROVE  k - 1 \in 0 .. Len(cs) /\ End(cs, k) >= End(cs, k - 1)
      OBVIOUS
    <2>1. cs[k].at = End(cs, k - 1) /\ End(cs, k) = cs[k].at + cs[k].width
      BY DEF Upwards, End
    <2>2. k - 1 \in 0 .. Len(cs)
      BY <1>1
    <2>3. QED
      BY <1>3, <1>4, <2>1, <2>2
  <1> DEFINE G == {k \in 0 .. Len(cs) : End(cs, k) >= 0}
  <1>7. \A k \in 0 .. Len(cs) : k \in G
    <2>1. 0 \in G
      BY <1>1 DEF End
    <2>2. ASSUME NEW k \in 1 .. Len(cs), k - 1 \in G PROVE k \in G
      BY <1>1, <1>4, <1>6, <2>2
    <2> HIDE DEF G
    <2>3. QED
      BY <1>1, <2>1, <2>2, GoesOn
  <1>8. \A k \in 1 .. Len(cs) : cs[k].at = End(cs, k - 1) /\ End(cs, k) = cs[k].at + cs[k].width
    BY DEF Upwards, End
  <1>9. End(cs, Len(cs)) = n
    BY DEF Upwards
  <1>10. QED
    BY <1>1, <1>3, <1>4, <1>5, <1>6, <1>7, <1>8, <1>9

(* Moving upwards what does not begin inside the source: a chunk is read    *)
(* before it is overwritten.                                                *)
LEMMA CopyUp ==
  ASSUME NEW n \in Nat, NEW cs, Upwards(cs, n), NEW d \in Nat, NEW s \in Nat,
         s .. (s + n - 1) \subseteq Memory, d <= s \/ d >= s + n
  PROVE  Copied(Fresh, d, s, cs)
           = [a \in Memory |-> IF a \in d .. (d + n - 1) THEN s + a - d ELSE a]
  <1> DEFINE L == Len(cs)
             Moved(e) == [a \in Memory |-> IF a \in d .. (d + e - 1) THEN s + a - d ELSE a]
  <1>1. /\ L \in Nat /\ cs \in Seq(Chunk) /\ Memory \subseteq Int
        /\ \A k \in 1 .. L : cs[k].at \in Int /\ cs[k].width \in Nat
        /\ \A k \in 0 .. L : End(cs, k) \in Int /\ End(cs, k) <= n
        /\ \A k \in 1 .. L : k - 1 \in 0 .. L /\ End(cs, k) >= End(cs, k - 1) /\ End(cs, k - 1) >= 0
        /\ \A k \in 1 .. L : cs[k].at = End(cs, k - 1) /\ End(cs, k) = cs[k].at + cs[k].width
    BY EndsAre, StringsAssumption
  <1>2. Fresh \in Mem
    BY <1>1 DEF Fresh, Mem
  <1>3. \A k \in 1 .. L : \A a \in Memory : a \in Bytes(d, cs[k]) => s + a - d \in Memory
    <2> SUFFICES ASSUME NEW k \in 1 .. L, NEW a \in Memory, a \in Bytes(d, cs[k])
                 PROVE  s + a - d \in Memory
      OBVIOUS
    <2>1. a \in (d + End(cs, k - 1)) .. (d + End(cs, k) - 1)
      <3>1. /\ cs[k].at = End(cs, k - 1) /\ End(cs, k) = cs[k].at + cs[k].width
            /\ cs[k].at \in Int /\ cs[k].width \in Nat
            /\ a \in (d + cs[k].at) .. (d + cs[k].at + cs[k].width - 1)
        BY <1>1 DEF Bytes
      <3>2. d + cs[k].at + cs[k].width - 1 = d + End(cs, k) - 1
        BY <3>1
      <3>3. QED
        BY <3>1, <3>2
    <2>2. s + a - d \in s .. (s + n - 1)
      <3>1. End(cs, k) \in Int /\ End(cs, k) <= n /\ End(cs, k - 1) \in Int /\ End(cs, k - 1) >= 0
        BY <1>1
      <3>2. QED
        BY <2>1, <3>1
    <2>3. QED
      BY <2>2
  <1>4. PICK f \in [0 .. L -> Mem] :
          /\ f[0] = Fresh
          /\ \A k \in 1 .. L : f[k] = CopyChunk(f[k - 1], d, s, cs[k])
          /\ Copied(Fresh, d, s, cs) = f[L]
    <2>1. ReadsMemory(d, s, cs)
      BY <1>3 DEF ReadsMemory
    <2>2. cs \in Seq(Chunk) /\ d \in Int /\ s \in Int
      BY <1>1
    <2>3. QED
      BY <1>2, <2>1, <2>2, CopyLoop
  <1> DEFINE G == {k \in 0 .. L : f[k] = Moved(End(cs, k))}
  <1>5. 0 \in G
    <2>1. End(cs, 0) = 0 /\ 0 \in 0 .. L
      BY <1>1 DEF End
    <2>2. Moved(0) = Fresh
      BY <1>1 DEF Fresh
    <2>3. QED
      BY <1>4, <2>1, <2>2
  <1>6. ASSUME NEW k \in 1 .. L, k - 1 \in G PROVE k \in G
    <2> DEFINE p == End(cs, k - 1)
               e == End(cs, k)
    <2>1. /\ p \in Int /\ e \in Int /\ 0 <= p /\ p <= e /\ e <= n
          /\ Bytes(d, cs[k]) = (d + p) .. (d + e - 1)
      <3>1. /\ cs[k].at = p /\ e = cs[k].at + cs[k].width
            /\ cs[k].at \in Int /\ cs[k].width \in Nat
            /\ p \in Int /\ e \in Int /\ 0 <= p /\ p <= e /\ e <= n
        BY <1>1
      <3> HIDE DEF p, e
      <3>2. Bytes(d, cs[k]) = (d + p) .. (d + p + cs[k].width - 1)
        BY <3>1 DEF Bytes
      <3> DEFINE width == cs[k].width
      <3>3. width \in Nat /\ p \in Int /\ e = p + width
        BY <3>1
      <3> HIDE DEF width
      <3>4. d + p + width - 1 = d + e - 1
        BY <3>3
      <3>5. QED
        BY <3>1, <3>2, <3>4 DEF width
    <2>2. f[k - 1] = Moved(p)
      BY <1>6
    <2> HIDE DEF p, e
    <2>3. ASSUME NEW a \in Memory
          PROVE  (IF a \in (d + p) .. (d + e - 1) THEN Moved(p)[s + a - d] ELSE Moved(p)[a])
                   = IF a \in d .. (d + e - 1) THEN s + a - d ELSE a
      <3>1. a \in Int
        BY <1>1
      <3>2. CASE a \in (d + p) .. (d + e - 1)
        <4>1. s + a - d \in s .. (s + n - 1)
          BY <2>1, <3>1, <3>2
        <4>2. s + a - d \in Memory /\ ~(s + a - d \in d .. (d + p - 1))
          BY <2>1, <3>1, <3>2, <4>1
        <4>3. Moved(p)[s + a - d] = s + a - d
          BY <4>2
        <4> HIDE DEF Moved
        <4>4. QED
          BY <2>1, <3>1, <3>2, <4>3
      <3>3. CASE a \notin (d + p) .. (d + e - 1)
        <4>1. a \in d .. (d + p - 1) <=> a \in d .. (d + e - 1)
          BY <2>1, <3>1, <3>3
        <4>2. QED
          BY <3>3, <4>1
      <3>4. QED
        BY <3>2, <3>3
    <2>4. CopyChunk(Moved(p), d, s, cs[k]) = Moved(e)
      <3>1. CopyChunk(Moved(p), d, s, cs[k])
              = [a \in Memory |-> IF a \in (d + p) .. (d + e - 1) THEN Moved(p)[s + a - d]
                                                                  ELSE Moved(p)[a]]
        BY <2>1 DEF CopyChunk
      <3>2. QED
        BY <2>3, <3>1
    <2>5. f[k] = Moved(e) /\ k \in 0 .. L
      BY <1>1, <1>4, <2>2, <2>4
    <2>6. QED
      BY <2>5 DEF e
  <1>7. L \in G
    <2> HIDE DEF G
    <2>1. \A k \in 0 .. L : k \in G
      BY <1>1, <1>5, <1>6, GoesOn
    <2>2. QED
      BY <1>1, <2>1
  <1>8. f[L] = Moved(n)
    <2>1. End(cs, L) = n
      BY DEF Upwards
    <2>2. QED
      BY <1>7, <2>1
  <1>9. QED
    BY <1>4, <1>8

(* Moving downwards, byte by byte from the last, what does not begin before *)
(* the source.                                                              *)
LEMMA CopyDown ==
  ASSUME NEW n \in Nat, NEW d \in Nat, NEW s \in Nat, s .. (s + n - 1) \subseteq Memory, s < d
  PROVE  Copied(Fresh, d, s, [k \in 1 .. n |-> [at |-> n - k, width |-> 1]])
           = [a \in Memory |-> IF a \in d .. (d + n - 1) THEN s + a - d ELSE a]
  <1> DEFINE cs == [k \in 1 .. n |-> [at |-> n - k, width |-> 1]]
             Moved(p) == [a \in Memory |-> IF a \in (d + p) .. (d + n - 1) THEN s + a - d ELSE a]
  <1>1. /\ cs \in Seq(Chunk) /\ Len(cs) = n /\ Memory \subseteq Int
        /\ \A k \in 1 .. n : Bytes(d, cs[k]) = (d + n - k) .. (d + n - k)
    <2>1. \A k \in 1 .. n : [at |-> n - k, width |-> 1] \in Chunk
      BY DEF Chunk
    <2>2. cs \in Seq(Chunk) /\ Len(cs) = n
      BY <2>1
    <2>3. ASSUME NEW k \in 1 .. n PROVE Bytes(d, cs[k]) = (d + n - k) .. (d + n - k)
      <3>1. cs[k].at = n - k /\ cs[k].width = 1
        OBVIOUS
      <3> HIDE DEF cs
      <3>2. d + cs[k].at = d + n - k /\ d + cs[k].at + cs[k].width - 1 = d + n - k
        BY <3>1
      <3>3. QED
        BY <3>2 DEF Bytes
    <2> HIDE DEF cs
    <2>4. QED
      BY <2>2, <2>3, StringsAssumption
  <1> HIDE DEF cs
  <1>2. Fresh \in Mem
    BY <1>1 DEF Fresh, Mem
  <1>3. ReadsMemory(d, s, cs)
    <2> SUFFICES ASSUME NEW k \in 1 .. n, NEW a \in Memory, a \in Bytes(d, cs[k])
                 PROVE  s + a - d \in Memory
      BY <1>1 DEF ReadsMemory
    <2>1. s + a - d \in s .. (s + n - 1)
      BY <1>1
    <2>2. QED
      BY <2>1
  <1>4. PICK f \in [0 .. n -> Mem] :
          /\ f[0] = Fresh
          /\ \A k \in 1 .. n : f[k] = CopyChunk(f[k - 1], d, s, cs[k])
          /\ Copied(Fresh, d, s, cs) = f[n]
    <2>1. \E f \in [0 .. Len(cs) -> Mem] :
            /\ f[0] = Fresh
            /\ \A k \in 1 .. Len(cs) : f[k] = CopyChunk(f[k - 1], d, s, cs[k])
            /\ Copied(Fresh, d, s, cs) = f[Len(cs)]
      <3>1. d \in Int /\ s \in Int
        OBVIOUS
      <3>2. cs \in Seq(Chunk)
        BY <1>1
      <3>3. QED
        BY <1>2, <1>3, <3>1, <3>2, CopyLoop
    <2>2. QED
      BY <1>1, <2>1
  <1> DEFINE G == {k \in 0 .. n : f[k] = Moved(n - k)}
  <1>5. 0 \in G
    <2>1. Moved(n - 0) = Fresh
      BY <1>1 DEF Fresh
    <2> HIDE DEF Moved
    <2>2. QED
      BY <1>4, <2>1
  <1>6. ASSUME NEW k \in 1 .. n, k - 1 \in G PROVE k \in G
    <2>1. f[k - 1] = Moved(n - (k - 1)) /\ n - (k - 1) = n - k + 1
      BY <1>6
    <2>2. ASSUME NEW a \in Memory
          PROVE  (IF a \in (d + n - k) .. (d + n - k)
                    THEN Moved(n - k + 1)[s + a - d] ELSE Moved(n - k + 1)[a])
                   = IF a \in (d + (n - k)) .. (d + n - 1) THEN s + a - d ELSE a
      <3>1. a \in Int
        BY <1>1
      <3>2. CASE a \in (d + n - k) .. (d + n - k)
        <4>1. s + a - d \in s .. (s + n - 1)
          BY <3>1, <3>2
        <4>2. s + a - d \in Memory /\ ~(s + a - d \in (d + (n - k + 1)) .. (d + n - 1))
          BY <3>1, <3>2, <4>1
        <4>3. Moved(n - k + 1)[s + a - d] = s + a - d
          BY <4>2
        <4> HIDE DEF Moved
        <4>4. QED
          BY <3>1, <3>2, <4>3
      <3>3. CASE a \notin (d + n - k) .. (d + n - k)
        <4>1. a \in (d + (n - k + 1)) .. (d + n - 1) <=> a \in (d + (n - k)) .. (d + n - 1)
          BY <3>1, <3>3
        <4>2. QED
          BY <3>3, <4>1
      <3>4. QED
        BY <3>2, <3>3
    <2>3. CopyChunk(Moved(n - k + 1), d, s, cs[k]) = Moved(n - k)
      <3>1. CopyChunk(Moved(n - k + 1), d, s, cs[k])
              = [a \in Memory |-> IF a \in (d + n - k) .. (d + n - k)
                                    THEN Moved(n - k + 1)[s + a - d] ELSE Moved(n - k + 1)[a]]
        BY <1>1 DEF CopyChunk
      <3>2. QED
        BY <2>2, <3>1
    <2> HIDE DEF Moved
    <2>4. f[k] = Moved(n - k) /\ k \in 0 .. n
      BY <1>4, <2>1, <2>3
    <2>5. QED
      BY <2>4
  <1>7. n \in G
    <2> HIDE DEF G
    <2>1. \A k \in 0 .. n : k \in G
      BY <1>5, <1>6, GoesOn
    <2>2. QED
      BY <2>1
  <1>8. f[n] = Moved(0)
    <2>1. n - n = 0
      OBVIOUS
    <2> HIDE DEF Moved
    <2>2. QED
      BY <1>7, <2>1
  <1>9. QED
    BY <1>4, <1>8 DEF cs

(* Filling chunk after chunk upwards.                                       *)
LEMMA FillUp ==
  ASSUME NEW n \in Nat, NEW cs, Upwards(cs, n), NEW s \in Nat, NEW w \in Nat \ {0}
  PROVE  Filled(Fresh, s, w, cs)
           = [a \in Memory |-> IF a \in s .. (s + n - 1) THEN Fill + ((a - s) % w) ELSE a]
  <1> DEFINE L == Len(cs)
             Done(e) == [a \in Memory |-> IF a \in s .. (s + e - 1) THEN Fill + ((a - s) % w) ELSE a]
  <1>1. /\ L \in Nat /\ cs \in Seq(Chunk) /\ Memory \subseteq Int
        /\ \A k \in 1 .. L : cs[k].at \in Int /\ cs[k].width \in Nat
        /\ \A k \in 0 .. L : End(cs, k) \in Int /\ End(cs, k) <= n
        /\ \A k \in 1 .. L : k - 1 \in 0 .. L /\ End(cs, k) >= End(cs, k - 1) /\ End(cs, k - 1) >= 0
        /\ \A k \in 1 .. L : cs[k].at = End(cs, k - 1) /\ End(cs, k) = cs[k].at + cs[k].width
    BY EndsAre, StringsAssumption
  <1>2. Fresh \in Mem
    BY <1>1 DEF Fresh, Mem
  <1>3. PICK f \in [0 .. L -> Mem] :
          /\ f[0] = Fresh
          /\ \A k \in 1 .. L : f[k] = FillChunk(f[k - 1], s, w, cs[k])
          /\ Filled(Fresh, s, w, cs) = f[L]
    <2>1. s \in Int /\ cs \in Seq(Chunk)
      BY <1>1
    <2>2. QED
      BY <1>2, <2>1, FillLoop
  <1> DEFINE G == {k \in 0 .. L : f[k] = Done(End(cs, k))}
  <1>4. 0 \in G
    <2>1. End(cs, 0) = 0 /\ 0 \in 0 .. L
      BY <1>1 DEF End
    <2>2. Done(0) = Fresh
      BY <1>1 DEF Fresh
    <2>3. QED
      BY <1>3, <2>1, <2>2
  <1>5. ASSUME NEW k \in 1 .. L, k - 1 \in G PROVE k \in G
    <2> DEFINE p == End(cs, k - 1)
               e == End(cs, k)
    <2>1. /\ p \in Int /\ e \in Int /\ 0 <= p /\ p <= e /\ e <= n
          /\ Bytes(s, cs[k]) = (s + p) .. (s + e - 1)
      <3>1. /\ cs[k].at = p /\ e = cs[k].at + cs[k].width
            /\ cs[k].at \in Int /\ cs[k].width \in Nat
            /\ p \in Int /\ e \in Int /\ 0 <= p /\ p <= e /\ e <= n
        BY <1>1
      <3> HIDE DEF p, e, G
      <3>2. Bytes(s, cs[k]) = (s + p) .. (s + p + cs[k].width - 1)
        BY <3>1 DEF Bytes
      <3> DEFINE width == cs[k].width
      <3>3. width \in Nat /\ p \in Int /\ e = p + width
        BY <3>1
      <3> HIDE DEF width
      <3>4. s + p + width - 1 = s + e - 1
        BY <3>3
      <3>5. QED
        BY <3>1, <3>2, <3>4 DEF width
    <2>2. f[k - 1] = Done(p)
      BY <1>5
    <2> HIDE DEF p, e
    <2>3. \A a \in Memory :
            /\ a \in Int
            /\ a \in s .. (s + e - 1) <=> a \in (s + p) .. (s + e - 1) \/ a \in s .. (s + p - 1)
      BY <1>1, <2>1
    <2>4. FillChunk(Done(p), s, w, cs[k]) = Done(e)
      <3>1. FillChunk(Done(p), s, w, cs[k])
              = [a \in Memory |-> IF a \in (s + p) .. (s + e - 1) THEN Fill + ((a - s) % w)
                                                                  ELSE Done(p)[a]]
        BY <2>1 DEF FillChunk
      <3>2. \A a \in Memory :
              (IF a \in (s + p) .. (s + e - 1) THEN Fill + ((a - s) % w) ELSE Done(p)[a])
                = IF a \in s .. (s + e - 1) THEN Fill + ((a - s) % w) ELSE a
        BY <2>3
      <3>3. QED
        BY <3>1, <3>2
    <2>5. f[k] = Done(e) /\ k \in 0 .. L
      BY <1>1, <1>3, <2>2, <2>4
    <2>6. QED
      BY <2>5 DEF e
  <1>6. L \in G
    <2> HIDE DEF G
    <2>1. \A k \in 0 .. L : k \in G
      BY <1>1, <1>4, <1>5, GoesOn
    <2>2. QED
      BY <1>1, <2>1
  <1>7. f[L] = Done(n)
    <2>1. End(cs, L) = n
      BY DEF Upwards
    <2>2. QED
      BY <1>6, <2>1
  <1>8. QED
    BY <1>3, <1>7

(* The units of the fills follow each other.                                *)
LEMMA UnitsGoUp ==
  ASSUME NEW n \in Nat, NEW w \in {1, 2, 4}, NEW cs,
         cs = [k \in 1 .. n |-> [at |-> w * (k - 1), width |-> w]]
  PROVE  Upwards(cs, w * n)
  <1>1. \A k \in 1 .. n : [at |-> w * (k - 1), width |-> w] \in Chunk
    <2>1. \A k \in 1 .. n : w * (k - 1) \in Int /\ w \in Nat
      BY \A k \in 1 .. n : 1 * (k - 1) \in Int /\ 2 * (k - 1) \in Int /\ 4 * (k - 1) \in Int
    <2>2. QED
      BY <2>1 DEF Chunk
  <1>2. cs \in Seq(Chunk) /\ Len(cs) = n
    <2> DEFINE at(k) == [at |-> w * (k - 1), width |-> w]
    <2>1. \A k \in 1 .. n : at(k) \in Chunk
      BY <1>1
    <2> HIDE DEF at
    <2>2. [k \in 1 .. n |-> at(k)] \in Seq(Chunk) /\ Len([k \in 1 .. n |-> at(k)]) = n
      BY <2>1
    <2>3. QED
      BY <2>2 DEF at
  <1>3. \A k \in 1 .. n : cs[k].at = w * (k - 1) /\ cs[k].width = w
    OBVIOUS
  <1>4. \A k \in 0 .. n : w * k \in Int /\ w * k <= w * n
                          /\ (k # 0 => w * (k - 1) + w = w * k) /\ (k = 0 => w * k = 0)
    <2>1. \A k \in 0 .. n : k \in Int /\ k <= n
      OBVIOUS
    <2>2. CASE w = 1
      BY <2>1, <2>2
    <2>3. CASE w = 2
      BY <2>1, <2>3
    <2>4. CASE w = 4
      BY <2>1, <2>4
    <2>5. QED
      BY <2>2, <2>3, <2>4
  <1>5. \A k \in 0 .. n : End(cs, k) = w * k
    BY <1>3, <1>4 DEF End
  <1>6. \A k \in 1 .. n : cs[k].at = End(cs, k - 1) /\ End(cs, k) <= w * n
    <2> SUFFICES ASSUME NEW k \in 1 .. n PROVE cs[k].at = End(cs, k - 1) /\ End(cs, k) <= w * n
      OBVIOUS
    <2>1. k - 1 \in 0 .. n /\ k \in 0 .. n
      OBVIOUS
    <2>2. cs[k].at = w * (k - 1) /\ End(cs, k - 1) = w * (k - 1) /\ End(cs, k) = w * k
      BY <1>3, <1>5, <2>1
    <2>3. QED
      BY <1>4, <2>1, <2>2
  <1>7. End(cs, Len(cs)) = w * n
    BY <1>2, <1>5
  <1>8. QED
    BY <1>2, <1>6, <1>7 DEF Upwards

(* memcpy and memset: bytes up to an aligned address, double words, bytes.  *)
LEMMA ChunksGoUp ==
  ASSUME NEW d \in Nat, NEW n \in Nat, NEW flag
  PROVE  Upwards(Chunks(d, n, flag), n)
  <1> DEFINE h == Unaligned(d, n)
             q == DoubleWords(d, n)
             r == Rest(d, n)
             s1 == [k \in 1 .. h |-> [at |-> k - 1, width |-> 1]]
             s2 == [k \in 1 .. q |-> [at |-> h + 4 * (k - 1), width |-> 4]]
             s3 == [k \in 1 .. r |-> [at |-> (h + 4 * q) + k - 1, width |-> 1]]
             cs == (s1 \o s2) \o s3
  <1>1. h \in Nat /\ q \in Nat /\ r \in Nat /\ n = h + 4 * q + r
    <2>1. (-d) % 4 \in 0 .. 3
      OBVIOUS
    <2>2. h \in Nat /\ h <= n
      BY <2>1 DEF Unaligned, Lesser
    <2> HIDE DEF h
    <2>3. q = (n - h) \div 4 /\ r = (n - h) % 4
      BY DEF DoubleWords, Rest, h
    <2>4. n - h \in Nat /\ 4 \in Nat \ {0}
      BY <2>2
    <2>5. q \in Nat /\ r \in 0 .. 3 /\ n - h = 4 * q + r
      BY <2>3, <2>4
    <2> HIDE DEF q, r
    <2>6. QED
      BY <2>2, <2>5
  <1>2. Chunks(d, n, flag) = cs
    BY DEF Chunks, cld
  <1> HIDE DEF h, q, r
  <1>3. s1 \in Seq(Chunk) /\ Len(s1) = h
    <2>1. \A k \in 1 .. h : [at |-> k - 1, width |-> 1] \in Chunk
      BY <1>1 DEF Chunk
    <2>2. QED
      BY <1>1, <2>1
  <1>4. s2 \in Seq(Chunk) /\ Len(s2) = q
    <2>1. \A k \in 1 .. q : [at |-> h + 4 * (k - 1), width |-> 4] \in Chunk
      BY <1>1 DEF Chunk
    <2>2. QED
      BY <1>1, <2>1
  <1>5. s3 \in Seq(Chunk) /\ Len(s3) = r
    <2> DEFINE at(k) == [at |-> (h + 4 * q) + k - 1, width |-> 1]
    <2>1. \A k \in 1 .. r : at(k) \in Chunk
      BY <1>1 DEF Chunk
    <2> HIDE DEF at
    <2>2. [k \in 1 .. r |-> at(k)] \in Seq(Chunk) /\ Len([k \in 1 .. r |-> at(k)]) = r
      BY <1>1, <2>1
    <2>3. QED
      BY <2>2 DEF at
  <1>6. /\ \A k \in 1 .. h : s1[k].at = k - 1 /\ s1[k].width = 1
        /\ \A k \in 1 .. q : s2[k].at = h + 4 * (k - 1) /\ s2[k].width = 4
        /\ \A k \in 1 .. r : s3[k].at = (h + 4 * q) + k - 1 /\ s3[k].width = 1
    OBVIOUS
  <1> HIDE DEF s1, s2, s3
  <1>7. /\ cs \in Seq(Chunk) /\ Len(cs) = h + q + r
        /\ \A k \in 1 .. (h + q + r) : cs[k] = IF k <= h THEN s1[k]
                                               ELSE IF k <= h + q THEN s2[k - h]
                                               ELSE s3[k - (h + q)]
    <2> DEFINE s12 == s1 \o s2
    <2>1. /\ s12 \in Seq(Chunk) /\ Len(s12) = h + q
          /\ \A k \in 1 .. (h + q) : s12[k] = IF k <= h THEN s1[k] ELSE s2[k - h]
      BY <1>3, <1>4, ConcatProperties
    <2> HIDE DEF s12
    <2>2. /\ s12 \o s3 \in Seq(Chunk) /\ Len(s12 \o s3) = h + q + r
          /\ \A k \in 1 .. (h + q + r) : (s12 \o s3)[k] = IF k <= h + q THEN s12[k] ELSE s3[k - (h + q)]
      <3>1. Len(s12 \o s3) = Len(s12) + Len(s3) /\ s12 \o s3 \in Seq(Chunk)
        BY <1>5, <2>1, ConcatProperties
      <3>2. \A k \in 1 .. (Len(s12) + Len(s3)) :
              (s12 \o s3)[k] = IF k <= Len(s12) THEN s12[k] ELSE s3[k - Len(s12)]
        BY <1>5, <2>1, ConcatProperties
      <3>3. Len(s12) = h + q /\ Len(s3) = r
        BY <1>5, <2>1
      <3>4. QED
        BY <3>1, <3>2, <3>3
    <2>3. ASSUME NEW k \in 1 .. (h + q + r)
          PROVE  (s12 \o s3)[k] = IF k <= h THEN s1[k] ELSE IF k <= h + q THEN s2[k - h]
                                  ELSE s3[k - (h + q)]
      <3>1. CASE k <= h + q
        <4>1. k \in 1 .. (h + q)
          BY <1>1, <3>1
        <4>2. QED
          BY <2>1, <2>2, <3>1, <4>1
      <3>2. CASE ~(k <= h + q)
        <4>1. ~(k <= h)
          BY <1>1, <3>2
        <4>2. QED
          BY <2>2, <3>2, <4>1
      <3>3. QED
        BY <3>1, <3>2
    <2>4. cs = s12 \o s3
      BY DEF s12
    <2>5. QED
      BY <2>2, <2>3, <2>4
  <1> HIDE DEF cs
  <1> DEFINE Place(k) == IF k <= h THEN k ELSE IF k <= h + q THEN h + 4 * (k - h)
                         ELSE h + 4 * q + (k - (h + q))
  <1>8. ASSUME NEW k \in 1 .. (h + q + r)
        PROVE  cs[k].at = Place(k - 1) /\ cs[k].at + cs[k].width = Place(k)
    <2>1. CASE k <= h
      <3>1. cs[k] = s1[k] /\ k \in 1 .. h
        BY <1>1, <1>7, <2>1
      <3>2. QED
        BY <1>1, <1>6, <2>1, <3>1
    <2>2. CASE ~(k <= h) /\ k <= h + q
      <3>1. cs[k] = s2[k - h] /\ k - h \in 1 .. q
        BY <1>1, <1>7, <2>2
      <3>2. cs[k].at = h + 4 * (k - h - 1) /\ cs[k].width = 4
        BY <1>1, <1>6, <3>1
      <3>3. Place(k - 1) = h + 4 * (k - h - 1)
        <4>1. CASE k - 1 <= h
          <5>1. k - h - 1 = 0 /\ k - 1 = h
            BY <1>1, <2>2, <4>1
          <5>2. Place(k - 1) = k - 1
            BY <4>1
          <5>3. QED
            BY <1>1, <5>1, <5>2
        <4>2. CASE ~(k - 1 <= h)
          <5>1. k - 1 <= h + q /\ k - 1 - h = k - h - 1
            BY <1>1, <2>2
          <5>2. QED
            BY <4>2, <5>1
        <4>3. QED
          BY <4>1, <4>2
      <3>4. Place(k) = h + 4 * (k - h)
        BY <2>2
      <3> HIDE DEF Place
      <3>5. QED
        BY <1>1, <3>2, <3>3, <3>4
    <2>3. CASE ~(k <= h + q)
      <3>1. cs[k] = s3[k - (h + q)] /\ k - (h + q) \in 1 .. r
        <4>1. ~(k <= h)
          BY <1>1, <2>3
        <4>2. cs[k] = s3[k - (h + q)]
          BY <1>7, <2>3, <4>1
        <4>3. QED
          BY <1>1, <2>3, <4>2
      <3>2. cs[k].at = (h + 4 * q) + (k - (h + q)) - 1 /\ cs[k].width = 1
        BY <1>1, <1>6, <3>1
      <3>3. Place(k - 1) = (h + 4 * q) + (k - (h + q)) - 1
        <4>1. CASE k - 1 <= h
          <5>1. k - 1 = h /\ q = 0
            BY <1>1, <2>3, <4>1
          <5>2. Place(k - 1) = k - 1
            BY <4>1
          <5>3. QED
            BY <1>1, <5>1, <5>2
        <4>2. CASE ~(k - 1 <= h) /\ k - 1 <= h + q
          <5>1. k - 1 = h + q /\ k - 1 - h = q
            BY <1>1, <2>3, <4>2
          <5>2. Place(k - 1) = h + 4 * (k - 1 - h)
            BY <4>2
          <5> HIDE DEF Place
          <5>3. Place(k - 1) = h + 4 * q
            BY <5>1, <5>2
          <5>4. QED
            BY <1>1, <5>1, <5>3
        <4>3. CASE ~(k - 1 <= h + q)
          <5>1. ~(k - 1 <= h)
            BY <1>1, <4>3
          <5>2. Place(k - 1) = h + 4 * q + (k - 1 - (h + q))
            BY <4>3, <5>1
          <5> HIDE DEF Place
          <5>3. QED
            BY <1>1, <5>2
        <4>4. QED
          BY <4>1, <4>2, <4>3
      <3>4. Place(k) = h + 4 * q + (k - (h + q))
        <4>1. ~(k <= h)
          BY <1>1, <2>3
        <4>2. QED
          BY <2>3, <4>1
      <3> HIDE DEF Place
      <3>5. QED
        BY <1>1, <3>2, <3>3, <3>4
    <2>4. QED
      BY <2>1, <2>2, <2>3
  <1>9. ASSUME NEW k \in 0 .. (h + q + r) PROVE Place(k) \in Nat /\ Place(k) <= n
    <2>1. CASE k <= h
      BY <1>1, <2>1
    <2>2. CASE ~(k <= h) /\ k <= h + q
      <3>1. k - h \in Nat /\ k - h <= q
        BY <1>1, <2>2
      <3>2. QED
        BY <1>1, <2>2, <3>1
    <2>3. CASE ~(k <= h + q)
      <3>1. k - (h + q) \in Nat /\ k - (h + q) <= r /\ ~(k <= h)
        BY <1>1, <2>3
      <3>2. QED
        BY <1>1, <2>3, <3>1
    <2>4. QED
      BY <2>1, <2>2, <2>3
  <1>10. Place(0) = 0 /\ Place(h + q + r) = n
    <2>1. Place(0) = 0
      BY <1>1
    <2>2. CASE r # 0
      <3>1. ~(h + q + r <= h) /\ ~(h + q + r <= h + q) /\ h + q + r - (h + q) = r
        BY <1>1, <2>2
      <3>2. QED
        BY <1>1, <2>1, <3>1
    <2>3. CASE r = 0 /\ q # 0
      <3>1. ~(h + q + r <= h) /\ h + q + r <= h + q /\ h + q + r - h = q
        BY <1>1, <2>3
      <3>2. QED
        BY <1>1, <2>1, <2>3, <3>1
    <2>4. CASE r = 0 /\ q = 0
      BY <1>1, <2>1, <2>4
    <2>5. QED
      BY <2>2, <2>3, <2>4
  <1> HIDE DEF Place
  <1>11. \A k \in 0 .. (h + q + r) : End(cs, k) = Place(k)
    BY <1>1, <1>8, <1>10 DEF End
  <1>12. ASSUME NEW k \in 1 .. (h + q + r) PROVE cs[k].at = End(cs, k - 1) /\ End(cs, k) <= n
    <2>1. k - 1 \in 0 .. (h + q + r) /\ k \in 0 .. (h + q + r)
      BY <1>1
    <2>2. QED
      BY <1>8, <1>9, <1>11, <2>1
  <1>13. End(cs, h + q + r) = n
    <2>1. h + q + r \in 0 .. (h + q + r)
      BY <1>1
    <2>2. QED
      BY <1>10, <1>11, <2>1
  <1>14. QED
    BY <1>2, <1>7, <1>12, <1>13 DEF Upwards

(* What the functions of memory leave.                                      *)
MovedTo(d, s, n) == [a \in Memory |-> IF a \in d .. (d + n - 1) THEN s + a - d ELSE a]
FilledTo(s, n, w) == [a \in Memory |-> IF a \in s .. (s + n - 1) THEN Fill + ((a - s) % w) ELSE a]

(* memcpy and memmove move the bytes from where they were.                  *)
LEMMA MovesAre ==
  ASSUME NEW d \in Places, NEW s \in Places, NEW n \in Lengths, NEW flag
  PROVE  /\ memmove(Fresh, d, s, n) = MovedTo(d, s, n)
         /\ d \notin (s + 1) .. (s + n - 1) => memcpy(Fresh, d, s, n, flag) = MovedTo(d, s, n)
  <1>1. d \in Nat /\ s \in Nat /\ n \in Nat /\ s .. (s + n - 1) \subseteq Memory
    BY StringsAssumption
  <1>2. ASSUME s < d PROVE memmove(Fresh, d, s, n) = MovedTo(d, s, n)
    <2>1. Down(d, s)
      BY <1>2 DEF Down
    <2>2. memmove(Fresh, d, s, n) = Copied(Fresh, d, s, [k \in 1 .. n |-> [at |-> n - k, width |-> 1]])
      BY <2>1 DEF memmove
    <2>3. Copied(Fresh, d, s, [k \in 1 .. n |-> [at |-> n - k, width |-> 1]])
            = [a \in Memory |-> IF a \in d .. (d + n - 1) THEN s + a - d ELSE a]
      BY <1>1, <1>2, CopyDown
    <2>4. QED
      BY <2>2, <2>3 DEF MovedTo
  <1>3. ASSUME ~(s < d) PROVE memmove(Fresh, d, s, n) = MovedTo(d, s, n)
    <2> DEFINE cs == [k \in 1 .. n |-> [at |-> k - 1, width |-> 1]]
    <2>1. memmove(Fresh, d, s, n) = Copied(Fresh, d, s, cs)
      <3>1. ~Down(d, s)
        BY <1>3 DEF Down
      <3>2. QED
        BY <3>1 DEF memmove
    <2>2. cs = [k \in 1 .. n |-> [at |-> 1 * (k - 1), width |-> 1]]
      BY \A k \in 1 .. n : 1 * (k - 1) = k - 1
    <2> HIDE DEF cs
    <2>3. Upwards(cs, 1 * n)
      BY <1>1, <2>2, UnitsGoUp
    <2>4. 1 * n = n /\ d <= s
      BY <1>1, <1>3
    <2>5. Upwards(cs, n)
      BY <2>3, <2>4
    <2>6. Copied(Fresh, d, s, cs) = [a \in Memory |-> IF a \in d .. (d + n - 1) THEN s + a - d ELSE a]
      BY <1>1, <2>4, <2>5, CopyUp
    <2>7. QED
      BY <2>1, <2>6 DEF MovedTo
  <1>4. ASSUME d \notin (s + 1) .. (s + n - 1) PROVE memcpy(Fresh, d, s, n, flag) = MovedTo(d, s, n)
    <2> DEFINE cs == Chunks(d, n, flag)
    <2>1. memcpy(Fresh, d, s, n, flag) = Copied(Fresh, d, s, cs)
      BY DEF memcpy
    <2>2. Upwards(cs, n)
      BY <1>1, ChunksGoUp
    <2> HIDE DEF cs
    <2>3. d <= s \/ d >= s + n
      BY <1>1, <1>4
    <2>4. QED
      BY <1>1, <2>1, <2>2, <2>3, CopyUp DEF MovedTo
  <1>5. QED
    BY <1>2, <1>3, <1>4

(* memset and its word and double word forms fill what was asked for.       *)
LEMMA FillsAre ==
  ASSUME NEW s \in Places, NEW n \in Lengths, NEW flag
  PROVE  /\ memset(Fresh, s, n, flag) = FilledTo(s, n, 1)
         /\ \A w \in {2, 4} : memset_units(Fresh, s, n, w, flag) = FilledTo(s, w * n, w)
  <1>1. s \in Nat /\ n \in Nat
    BY StringsAssumption
  <1>2. memset(Fresh, s, n, flag) = FilledTo(s, n, 1)
    <2> DEFINE cs == Chunks(s, n, flag)
    <2>1. memset(Fresh, s, n, flag) = Filled(Fresh, s, 1, cs)
      BY DEF memset
    <2>2. Upwards(cs, n)
      BY <1>1, ChunksGoUp
    <2> HIDE DEF cs
    <2>3. 1 \in Nat \ {0}
      OBVIOUS
    <2>4. QED
      BY <1>1, <2>1, <2>2, <2>3, FillUp DEF FilledTo
  <1>3. ASSUME NEW w \in {2, 4} PROVE memset_units(Fresh, s, n, w, flag) = FilledTo(s, w * n, w)
    <2> DEFINE cs == [k \in 1 .. n |-> [at |-> w * (k - 1), width |-> w]]
    <2>1. memset_units(Fresh, s, n, w, flag) = Filled(Fresh, s, w, cs)
      BY DEF memset_units, cld
    <2>2. Upwards(cs, w * n)
      <3>1. w \in {1, 2, 4}
        OBVIOUS
      <3> HIDE DEF cs
      <3>2. cs = [k \in 1 .. n |-> [at |-> w * (k - 1), width |-> w]]
        BY DEF cs
      <3>3. QED
        BY <1>1, <3>1, <3>2, UnitsGoUp
    <2> HIDE DEF cs
    <2>3. w \in Nat \ {0} /\ w * n \in Nat
      BY <1>1, 2 * n \in Nat, 4 * n \in Nat
    <2>4. QED
      BY <1>1, <2>1, <2>2, <2>3, FillUp DEF FilledTo
  <1>4. QED
    BY <1>2, <1>3

MemoryInv == df \in {0, 1} /\ MovesAreExact /\ FillsAreExact

(* A call that is none of memory's says nothing of memory.                  *)
LEMMA OtherCalls ==
  ASSUME call'.fn \notin {"memmove", "memcpy", "memset"}
  PROVE  MovesAreExact' /\ FillsAreExact'
  BY DEF MovesAreExact, FillsAreExact

(* A fill is exact and leaves a legal direction flag.                       *)
LEMMA FillKeepsMemory ==
  ASSUME MemoryInv, NEW s \in Places, NEW n \in Lengths, FillMemory(s, n)
  PROVE  MemoryInv'
  <1>1. n \in Nat /\ df \in {0, 1}
    BY StringsAssumption DEF MemoryInv
  <1>2. CASE Returned("memset", s, 0, n, memset(Fresh, s, n, df)) /\ df' = FlagAfter(s, n, df)
    <2>1. /\ call'.fn = "memset" /\ call'.dest = s /\ call'.src = 0 /\ call'.n = n
          /\ call'.memory = FilledTo(s, n, 1)
      BY <1>2, FillsAre DEF Returned
    <2>2. Greater(0, 1) = 1 /\ 1 * n = n
      BY <1>1 DEF Greater
    <2>3. FillsAreExact'
      BY <2>1, <2>2 DEF FillsAreExact, FilledTo
    <2>4. MovesAreExact'
      BY <2>1 DEF MovesAreExact
    <2>5. df' \in {0, 1}
      BY <1>1, <1>2 DEF FlagAfter, cld
    <2>6. QED
      BY <2>3, <2>4, <2>5 DEF MemoryInv
  <1>3. ASSUME NEW w \in {2, 4}, Returned("memset", s, w, n, memset_units(Fresh, s, n, w, df)),
               df' = cld(df)
        PROVE  MemoryInv'
    <2>1. /\ call'.fn = "memset" /\ call'.dest = s /\ call'.src = w /\ call'.n = n
          /\ call'.memory = FilledTo(s, w * n, w)
      BY <1>3, FillsAre DEF Returned
    <2>2. Greater(w, 1) = w
      BY DEF Greater
    <2>3. FillsAreExact'
      BY <2>1, <2>2 DEF FillsAreExact, FilledTo
    <2>4. MovesAreExact'
      BY <2>1 DEF MovesAreExact
    <2>5. QED
      BY <1>3, <2>3, <2>4 DEF MemoryInv, cld
  <1>4. QED
    BY <1>2, <1>3 DEF FillMemory

(* So does a copy.                                                          *)
LEMMA CopyKeepsMemory ==
  ASSUME MemoryInv, NEW d \in Places, NEW s \in Places, NEW n \in Lengths, CopyMemory(d, s, n)
  PROVE  MemoryInv'
  <1>1. CASE Returned("memcpy", d, s, n, memcpy(Fresh, d, s, n, df)) /\ df' = FlagAfter(d, n, df)
    <2>1. /\ call'.fn = "memcpy" /\ call'.dest = d /\ call'.src = s /\ call'.n = n
          /\ d \notin (s + 1) .. (s + n - 1) => call'.memory = MovedTo(d, s, n)
      BY <1>1, MovesAre DEF Returned
    <2>2. MovesAreExact'
      BY <2>1 DEF MovesAreExact, MovedTo
    <2>3. FillsAreExact'
      BY <2>1 DEF FillsAreExact
    <2>4. df' \in {0, 1}
      BY <1>1 DEF MemoryInv, FlagAfter, cld
    <2>5. QED
      BY <2>2, <2>3, <2>4 DEF MemoryInv
  <1>2. CASE Returned("memmove", d, s, n, memmove(Fresh, d, s, n)) /\ df' = IF Down(d, s) THEN 1 ELSE 0
    <2>1. /\ call'.fn = "memmove" /\ call'.dest = d /\ call'.src = s /\ call'.n = n
          /\ call'.memory = MovedTo(d, s, n)
      BY <1>2, MovesAre DEF Returned
    <2>2. MovesAreExact'
      BY <2>1 DEF MovesAreExact, MovedTo
    <2>3. FillsAreExact'
      BY <2>1 DEF FillsAreExact
    <2>4. df' \in {0, 1}
      BY <1>2
    <2>5. QED
      BY <2>2, <2>3, <2>4 DEF MemoryInv
  <1>3. QED
    BY <1>1, <1>2 DEF CopyMemory

(* Every call keeps the invariant of memory.                                *)
LEMMA NextKeepsMemory == MemoryInv /\ [LibraryNext]_libraryVars => MemoryInv'
  <1> SUFFICES ASSUME MemoryInv, [LibraryNext]_libraryVars PROVE MemoryInv'
    OBVIOUS
  <1>1. ASSUME call'.fn \notin {"memmove", "memcpy", "memset"}, df' = df PROVE MemoryInv'
    <2>1. MovesAreExact' /\ FillsAreExact'
      BY <1>1, OtherCalls
    <2>2. QED
      BY <1>1, <2>1 DEF MemoryInv
  <1>2. CASE UNCHANGED libraryVars
    BY <1>2 DEF libraryVars, MemoryInv, MovesAreExact, FillsAreExact
  <1>3. CASE call' = NoCall /\ UNCHANGED <<df, screen, typed, buffCopyArg>>
    BY <1>1, <1>3 DEF NoCall
  <1>4. CASE Call
    <2>1. ASSUME NEW s \in Places, NEW n \in Lengths, FillMemory(s, n) PROVE MemoryInv'
      BY <2>1, FillKeepsMemory
    <2>2. ASSUME NEW s \in Places, NEW n \in Lengths, NEW d \in Places, CopyMemory(d, s, n)
          PROVE  MemoryInv'
      BY <2>2, CopyKeepsMemory
    <2>3. ASSUME NEW pieces, PrintFormat(pieces) PROVE MemoryInv'
      BY <1>1, <2>3 DEF PrintFormat, Printed
    <2>4. CASE Backspace
      BY <1>1, <2>4 DEF Backspace, Printed
    <2>5. ASSUME NEW text, PutText(text) PROVE MemoryInv'
      BY <1>1, <2>5 DEF PutText, Printed
    <2>6. ASSUME NEW line, Execute(line) PROVE MemoryInv'
      BY <1>1, <2>6 DEF Execute
    <2>7. ASSUME NEW n, do_getargs(n) PROVE MemoryInv'
      BY <1>1, <2>7 DEF do_getargs
    <2>8. ASSUME NEW name, Find(name) PROVE MemoryInv'
      BY <1>1, <2>8 DEF Find
    <2>9. ASSUME NEW k, NEW n, dir_read(k, n) PROVE MemoryInv'
      BY <1>1, <2>9 DEF dir_read
    <2>10. QED
      BY <1>4, <2>1, <2>2, <2>3, <2>4, <2>5, <2>6, <2>7, <2>8, <2>9 DEF Call
  <1>5. QED
    BY <1>2, <1>3, <1>4 DEF LibraryNext

(* And it holds at first.                                                   *)
LEMMA InitIsMemory == LibraryInit => MemoryInv
  BY DEF LibraryInit, MemoryInv, MovesAreExact, FillsAreExact, NoCall
-----------------------------------------------------------------------------
(* Strings. *)

Nothing == <<>>

(* Joining sequence after sequence.                                        *)
LEMMA JoinLoop ==
  ASSUME NEW X, NEW parts \in Seq(Seq(X))
  PROVE  \E f \in [0 .. Len(parts) -> Seq(X)] :
           /\ f[0] = Nothing
           /\ \A n \in 1 .. Len(parts) : f[n] = f[n - 1] \o parts[n]
           /\ Joined(parts) = f[Len(parts)]
  <1> DEFINE L == Len(parts)
             St == Seq(X)
             m == Nothing
             Turn(p, n) == p \o parts[n]
             Goes(f) == f = [n \in 0 .. L |-> IF n = 0 THEN m ELSE Turn(f[n - 1], n)]
             loop == CHOOSE f : Goes(f)
  <1>1. Joined(parts) = loop[L]
    BY DEF Joined, Nothing
  <1>2. L \in Nat /\ m \in St
    BY LenProperties, EmptySeq DEF Nothing
  <1>3. \A p \in St, n \in 1 .. L : Turn(p, n) \in St
    <2> SUFFICES ASSUME NEW p \in Seq(X), NEW n \in 1 .. Len(parts) PROVE p \o parts[n] \in Seq(X)
      OBVIOUS
    <2>1. parts[n] \in Seq(X)
      BY ElementOfSeq
    <2>2. QED
      BY <2>1, ConcatProperties
  <1> HIDE DEF L, St, m, Turn
  <1>4. \E f : Goes(f)
    <2> DEFINE T == [n \in 1 .. L |-> [p \in St |-> Turn(p, n)]]
    <2>1. T \in Turns(St, L)
      BY <1>3 DEF Turns
    <2> HIDE DEF T
    <2>2. PICK f : LoopOf(f, St, m, T, L)
      BY <1>2, <2>1, LoopRuns
    <2> USE DEF T
    <2>3. ASSUME NEW n \in 0 .. L PROVE f[n] = IF n = 0 THEN m ELSE Turn(f[n - 1], n)
      <3>1. f \in [0 .. L -> St] /\ f[0] = m
        BY <2>2 DEF LoopOf
      <3>2. CASE n # 0
        <4>1. n \in 1 .. L /\ n - 1 \in 0 .. L
          BY <1>2, <3>2
        <4> HIDE DEF T
        <4>2. f[n] = T[n][f[n - 1]]
          BY <2>2, <4>1 DEF LoopOf
        <4> USE DEF T
        <4>3. f[n - 1] \in St
          BY <3>1, <4>1
        <4> HIDE DEF Goes
        <4>4. QED
          BY <3>2, <4>1, <4>2, <4>3
      <3>3. QED
        BY <3>1, <3>2
    <2>4. f = [n \in 0 .. L |-> f[n]]
      BY <2>2 DEF LoopOf
    <2> HIDE DEF T
    <2>5. QED
      BY <2>3, <2>4
  <1>5. Goes(loop)
    <2> HIDE DEF Goes
    <2>1. QED
      BY <1>4
  <1> HIDE DEF loop
  <1>6. loop[0] = m /\ \A n \in 1 .. L : loop[n] = Turn(loop[n - 1], n)
    BY <1>2, <1>5
  <1>7. loop = [n \in 0 .. L |-> loop[n]]
    BY <1>5
  <1> HIDE DEF Goes
  <1>8. loop \in [0 .. L -> St]
    <2>1. Stays(loop, St, L)
      BY <1>2, <1>3, <1>6, <1>7 DEF Stays
    <2>2. QED
      BY <1>2, <2>1, LoopStays
  <1>9. QED
    BY <1>1, <1>6, <1>8 DEF L, St, m, Turn

(* Joined sequences are a sequence.                                         *)
LEMMA JoinedIsSeq ==
  ASSUME NEW X, NEW parts \in Seq(Seq(X))
  PROVE  Joined(parts) \in Seq(X)
  <1>1. Len(parts) \in Nat
    BY LenProperties
  <1>2. PICK f \in [0 .. Len(parts) -> Seq(X)] : Joined(parts) = f[Len(parts)]
    BY JoinLoop
  <1>3. QED
    BY <1>1, <1>2

(* Parts of one member at most are joined to no more than there are parts.  *)
LEMMA JoinedIsShort ==
  ASSUME NEW X, NEW parts \in Seq(Seq(X)), \A k \in 1 .. Len(parts) : Len(parts[k]) <= 1
  PROVE  Len(Joined(parts)) \in Nat /\ Len(Joined(parts)) <= Len(parts)
  <1> DEFINE L == Len(parts)
  <1>1. L \in Nat
    BY LenProperties
  <1>2. PICK f \in [0 .. L -> Seq(X)] :
          /\ f[0] = Nothing
          /\ \A n \in 1 .. L : f[n] = f[n - 1] \o parts[n]
          /\ Joined(parts) = f[L]
    BY JoinLoop
  <1>7. \A k \in 1 .. L : parts[k] \in Seq(X) /\ Len(parts[k]) \in Nat /\ Len(parts[k]) <= 1
    BY ElementOfSeq, LenProperties
  <1> HIDE DEF L
  <1> DEFINE G == {n \in 0 .. L : Len(f[n]) \in Nat /\ Len(f[n]) <= n}
  <1>3. 0 \in G
    BY <1>1, <1>2 DEF Nothing
  <1>4. ASSUME NEW n \in 1 .. L, n - 1 \in G PROVE n \in G
    <2>1. n - 1 \in 0 .. L /\ n \in 0 .. L
      BY <1>1
    <2>6. f[n - 1] \in Seq(X)
      BY <2>1
    <2>2. parts[n] \in Seq(X) /\ Len(parts[n]) \in Nat /\ Len(parts[n]) <= 1
      BY <1>7
    <2>3. Len(f[n]) = Len(f[n - 1]) + Len(parts[n])
      <3>1. Len(f[n - 1] \o parts[n]) = Len(f[n - 1]) + Len(parts[n])
        BY <2>6, <2>2, ConcatProperties
      <3>2. QED
        BY <1>2, <3>1
    <2>4. Len(f[n - 1]) \in Nat /\ Len(f[n - 1]) <= n - 1
      BY <1>4
    <2>5. Len(f[n]) \in Nat /\ Len(f[n]) <= n
      <3>1. ASSUME NEW x \in Nat, NEW y \in Nat, NEW z, x <= n - 1, y <= 1, z = x + y
            PROVE  z \in Nat /\ z <= n
        BY <2>1, <3>1
      <3>2. Len(f[n - 1]) \in Nat /\ Len(parts[n]) \in Nat
        BY <2>2, <2>4
      <3>3. QED
        BY <2>2, <2>3, <2>4, <3>1, <3>2
    <2> QED
      BY <2>1, <2>5
  <1>5. L \in G
    <2> HIDE DEF G
    <2>1. \A n \in 0 .. L : n \in G
      BY <1>1, <1>3, <1>4, GoesOn
    <2>2. QED
      BY <1>1, <2>1
  <1>6. QED
    BY <1>2, <1>5 DEF L

EmptyUpTo(B, c) == \A k \in 1 .. c : B[k] = <<>>

(* Places behind the parts in front.                                        *)
LEMMA PlaceBehind ==
  ASSUME NEW c \in Nat, NEW L \in Nat, NEW n \in 1 .. L
  PROVE  c + n \in 1 .. (c + L) /\ c + n - 1 = c + (n - 1) /\ n \in 0 .. L
  OBVIOUS

(* Empty parts in front change nothing.                                     *)
LEMMA JoinedSkips ==
  ASSUME NEW X, NEW A \in Seq(Seq(X)), NEW B \in Seq(Seq(X)), NEW c \in Nat,
         Len(B) = c + Len(A),
         EmptyUpTo(B, c),
         \A k \in 1 .. Len(A) : B[c + k] = A[k]
  PROVE  Joined(B) = Joined(A)
  <1> DEFINE L == Len(A)
  <1>1. L \in Nat /\ Len(B) = c + L
    BY LenProperties
  <1>2. PICK f \in [0 .. L -> Seq(X)] :
          /\ f[0] = Nothing
          /\ \A n \in 1 .. L : f[n] = f[n - 1] \o A[n]
          /\ Joined(A) = f[L]
    BY JoinLoop
  <1>3. PICK g \in [0 .. Len(B) -> Seq(X)] :
          /\ g[0] = Nothing
          /\ \A n \in 1 .. Len(B) : g[n] = g[n - 1] \o B[n]
          /\ Joined(B) = g[Len(B)]
    BY JoinLoop
  <1> DEFINE Skipped == {n \in 0 .. c : g[n] = Nothing}
             Back == {n \in 0 .. L : g[c + n] = f[n]}
  <1>4. \A n \in 0 .. c : n \in Skipped
    <2>1. 0 \in Skipped
      BY <1>3
    <2>2. ASSUME NEW n \in 1 .. c, n - 1 \in Skipped PROVE n \in Skipped
      <3>1. n \in 1 .. Len(B) /\ g[n - 1] = Nothing /\ B[n] = Nothing
        <4>1. n \in 1 .. Len(B)
          <5> HIDE DEF Skipped, L
          <5>1. QED
            BY <1>1
        <4>2. g[n - 1] = Nothing
          BY <2>2
        <4>3. B[n] = Nothing
          BY Zenon DEF EmptyUpTo, Nothing
        <4>4. QED
          BY <4>1, <4>2, <4>3
      <3>2. g[n] = g[n - 1] \o B[n]
        BY <1>3, <3>1
      <3>3. g[n] = Nothing
        BY <3>1, <3>2 DEF Nothing
      <3>4. QED
        BY <3>3
    <2> HIDE DEF Skipped
    <2>3. QED
      BY <2>1, <2>2, GoesOn
  <1>5. \A n \in 0 .. L : n \in Back
    <2>1. 0 \in Back
      <3>1. c \in Skipped /\ c + 0 = c
        BY <1>4
      <3>2. QED
        BY <1>1, <1>2, <3>1
    <2>2. ASSUME NEW n \in 1 .. L, n - 1 \in Back PROVE n \in Back
      <3>1. c + n \in 1 .. Len(B) /\ c + n - 1 = c + (n - 1) /\ n \in 0 .. L
        <4> HIDE DEF Back, L
        <4>1. c + n \in 1 .. (c + L) /\ c + n - 1 = c + (n - 1) /\ n \in 0 .. L
          BY <1>1, PlaceBehind
        <4>2. QED
          BY <1>1, <4>1
      <3>2. g[c + n - 1] = f[n - 1]
        BY <2>2, <3>1
      <3>3. ASSUME NEW i \in 1 .. Len(B), i = c + n PROVE g[i] = f[n]
        <4>1. i - 1 = c + (n - 1)
          BY <3>3
        <4>2. g[i] = g[i - 1] \o B[i]
          BY <1>3
        <4>3. g[i - 1] = f[n - 1]
          BY <3>1, <3>2, <4>1
        <4>4. B[i] = A[n]
          BY <3>3
        <4>5. f[n] = f[n - 1] \o A[n]
          BY <1>2
        <4>6. QED
          BY <4>2, <4>3, <4>4, <4>5
      <3>5. g[c + n] = f[n]
        BY <3>1, <3>3
      <3>6. QED
        BY <3>1, <3>5
    <2> HIDE DEF Back, L
    <2>3. QED
      BY <1>1, <2>1, <2>2, GoesOn
  <1>6. L \in Back
    BY <1>1, <1>5
  <1>7. QED
    BY <1>1, <1>2, <1>3, <1>6

(* Offsets into a string.                                                   *)
LEMMA StringFacts ==
  /\ BUFFER_SIZE \in Nat /\ FILENAME_LEN \in Nat \ {0} /\ FILENAME_LEN + 2 < BUFFER_SIZE
  /\ Offsets = 0 .. (BUFFER_SIZE - 1)
  /\ 0 \in Offsets /\ \A i \in Offsets : i \in Nat /\ i < BUFFER_SIZE
  BY StringsAssumption DEF Offsets

(* strlen finds the only NUL that has none before it.                       *)
LEMMA StrlenIs ==
  ASSUME NEW s, NEW n \in Offsets, s[n] = NUL, \A i \in 0 .. (n - 1) : s[i] # NUL
  PROVE  strlen(s) = n
  <1> DEFINE Ends(k) == s[k] = NUL /\ \A i \in 0 .. (k - 1) : s[i] # NUL
             e == CHOOSE k \in Offsets : Ends(k)
  <1>1. strlen(s) = e
    BY DEF strlen
  <1>2. e \in Offsets /\ Ends(e)
    <2>1. Ends(n)
      OBVIOUS
    <2> HIDE DEF Ends
    <2>2. QED
      BY <2>1
  <1> HIDE DEF e
  <1>3. n \in Nat /\ e \in Nat
    BY <1>2, StringFacts
  <1>4. ~(e < n) /\ ~(n < e)
    BY <1>2, <1>3
  <1>5. QED
    BY <1>1, <1>3, <1>4

(* strncpy copies up to the NUL or to n, and fills up with NULs.            *)
LEMMA StrncpyIs ==
  ASSUME NEW dest, NEW src, NEW n \in Nat, NEW k \in 0 .. n,
         \A i \in 0 .. (k - 1) : src[i] # NUL, k = n \/ src[k] = NUL
  PROVE  strncpy(dest, src, n)
           = [i \in Offsets |-> IF i < k THEN src[i] ELSE IF i <= n THEN NUL ELSE dest[i]]
  <1> DEFINE Upto(c) == (\A i \in 0 .. (c - 1) : src[i] # NUL) /\ (c = n \/ src[c] = NUL)
             copied == CHOOSE c \in 0 .. n : Upto(c)
  <1>1. strncpy(dest, src, n)
          = [i \in Offsets |-> IF i < copied THEN src[i] ELSE IF i < n THEN NUL
                               ELSE IF i = n THEN NUL ELSE dest[i]]
    BY DEF strncpy, Terminator
  <1>2. copied \in 0 .. n /\ Upto(copied)
    <2>1. Upto(k)
      OBVIOUS
    <2> HIDE DEF Upto
    <2>2. QED
      BY <2>1
  <1> HIDE DEF copied
  <1>3. copied = k
    <2>1. ~(copied < k) /\ ~(k < copied)
      BY <1>2
    <2>2. QED
      BY <1>2, <2>1
  <1>4. \A i \in Offsets : (IF i < k THEN src[i] ELSE IF i < n THEN NUL ELSE IF i = n THEN NUL ELSE dest[i])
                             = IF i < k THEN src[i] ELSE IF i <= n THEN NUL ELSE dest[i]
    BY StringFacts
  <1>5. QED
    BY <1>1, <1>3, <1>4

(* There always is a place where strncpy stops.                             *)
LEMMA StopsSomewhere ==
  ASSUME NEW src, NEW n \in Nat
  PROVE  \E k \in 0 .. n : (\A i \in 0 .. (k - 1) : src[i] # NUL) /\ (k = n \/ src[k] = NUL)
  <1> DEFINE Ends == {k \in 0 .. n : k = n \/ src[k] = NUL}
  <1>1. Ends \in SUBSET Nat /\ Ends # {}
    BY n \in Ends
  <1>2. PICK k \in Ends : \A j \in Ends : k <= j
    <2> HIDE DEF Ends
    <2>1. QED
      BY <1>1, LeastNat
  <1>3. ASSUME NEW i \in 0 .. (k - 1) PROVE src[i] # NUL
    <2>1. i \in 0 .. n /\ ~(k <= i)
      OBVIOUS
    <2>2. QED
      BY <1>2, <2>1
  <1>4. QED
    BY <1>3

(* strncmp is 0 exactly for strings that are equal up to n or to their NUL. *)
LEMMA StrncmpIs ==
  ASSUME NEW s, NEW t, NEW n \in Nat, \A i \in 0 .. (n - 1) : s[i] \in Nat /\ t[i] \in Nat
  PROVE  strncmp(s, t, n) = 0 <=>
           \/ \A i \in 0 .. (n - 1) : s[i] = t[i] /\ s[i] # NUL
           \/ \E j \in 0 .. (n - 1) : s[j] = NUL /\ \A i \in 0 .. j : s[i] = t[i]
  <1> DEFINE stops == {i \in 0 .. (n - 1) : s[i] # t[i] \/ s[i] = NUL}
             least == CHOOSE i \in stops : \A j \in stops : i <= j
  <1>1. strncmp(s, t, n) = IF stops = {} THEN 0 ELSE s[least] - t[least]
    BY DEF strncmp
  <1>2. CASE stops = {}
    BY <1>1, <1>2
  <1>3. CASE stops # {}
    <2>1. least \in stops /\ \A j \in stops : least <= j
      <3>1. stops \in SUBSET Nat
        OBVIOUS
      <3>2. \E i \in stops : \A j \in stops : i <= j
        <4> HIDE DEF stops
        <4>1. QED
          BY <1>3, <3>1, LeastNat
      <3> HIDE DEF stops
      <3>3. QED
        BY <3>2
    <2> HIDE DEF least
    <2>2. least \in 0 .. (n - 1) /\ (s[least] # t[least] \/ s[least] = NUL)
      BY <2>1
    <2>3. \A i \in 0 .. (least - 1) : s[i] = t[i] /\ s[i] # NUL
      <3> SUFFICES ASSUME NEW i \in 0 .. (least - 1) PROVE s[i] = t[i] /\ s[i] # NUL
        OBVIOUS
      <3>1. i \in 0 .. (n - 1) /\ ~(least <= i)
        BY <2>2
      <3>2. QED
        BY <2>1, <3>1
    <2>4. strncmp(s, t, n) = 0 <=> s[least] = t[least]
      BY <1>1, <1>3, <2>2
    <2>5. CASE s[least] = t[least]
      <3>1. s[least] = NUL /\ \A i \in 0 .. least : s[i] = t[i]
        BY <2>2, <2>3, <2>5
      <3>2. QED
        BY <2>2, <2>4, <2>5, <3>1
    <2>6. CASE s[least] # t[least]
      <3>1. ASSUME NEW j \in 0 .. (n - 1), s[j] = NUL, \A i \in 0 .. j : s[i] = t[i] PROVE FALSE
        <4>1. ~(least <= j)
          BY <2>2, <2>6, <3>1
        <4>2. j \in 0 .. (least - 1)
          BY <2>2, <4>1
        <4>3. QED
          BY <2>3, <3>1, <4>2
      <3>2. QED
        BY <2>2, <2>4, <2>6, <3>1
    <2>7. QED
      BY <2>5, <2>6
  <1>4. QED
    BY <1>2, <1>3

(* A text in its buffer.                                                    *)
IsText(text) == text \in Seq(Character) /\ Len(text) < BUFFER_SIZE

(* The string of a text has its characters, then a NUL, and its length.     *)
LEMMA TextFacts ==
  ASSUME NEW text, IsText(text)
  PROVE  /\ Len(text) \in Offsets /\ Len(text) \in Nat
         /\ \A i \in 0 .. (Len(text) - 1) :
              /\ i \in Offsets /\ AsString(text)[i] = text[i + 1]
              /\ text[i + 1] \in Nat /\ text[i + 1] # NUL
         /\ AsString(text)[Len(text)] = NUL
         /\ strlen(AsString(text)) = Len(text)
         /\ AsString(text) \in [Offsets -> Nat]
         /\ \A i \in Offsets : AsString(text)[i] = IF i < Len(text) THEN text[i + 1] ELSE NUL
  <1> DEFINE n == Len(text)
             s == AsString(text)
  <1>1. n \in Nat /\ n < BUFFER_SIZE /\ BUFFER_SIZE \in Nat
    BY StringFacts, LenProperties DEF IsText
  <1>2. n \in Offsets
    BY <1>1 DEF Offsets
  <1>3. ASSUME NEW i \in 0 .. (n - 1) PROVE i \in Offsets /\ text[i + 1] \in Nat /\ text[i + 1] # NUL
    <2>1. i + 1 \in 1 .. n /\ i \in Offsets
      BY <1>1 DEF Offsets
    <2>2. text[i + 1] \in Character
      BY <2>1, ElementOfSeq DEF IsText
    <2>3. QED
      BY <2>1, <2>2 DEF Character, NUL
  <1>4. \A i \in Offsets : s[i] = IF i < n THEN text[i + 1] ELSE NUL
    BY DEF AsString
  <1>5. s \in [Offsets -> Nat]
    <2>1. \A i \in Offsets : (IF i < n THEN text[i + 1] ELSE NUL) \in Nat
      <3> SUFFICES ASSUME NEW i \in Offsets PROVE (IF i < n THEN text[i + 1] ELSE NUL) \in Nat
        OBVIOUS
      <3>1. CASE i < n
        <4>1. i \in 0 .. (n - 1)
          BY <1>1, <3>1 DEF Offsets
        <4>2. QED
          BY <1>3, <3>1, <4>1
      <3>2. QED
        BY <3>1 DEF NUL
    <2>2. QED
      BY <2>1 DEF AsString
  <1> HIDE DEF s
  <1>6. \A i \in 0 .. (n - 1) : s[i] = text[i + 1]
    BY <1>1, <1>3, <1>4
  <1>7. s[n] = NUL
    BY <1>1, <1>2, <1>4
  <1>8. strlen(s) = n
    <2>1. \A i \in 0 .. (n - 1) : s[i] # NUL
      BY <1>3, <1>6
    <2> HIDE DEF n
    <2>2. QED
      BY <1>2, <1>7, <2>1, StrlenIs
  <1>9. QED
    BY <1>1, <1>2, <1>3, <1>4, <1>5, <1>6, <1>7, <1>8 DEF s

(* What stands behind the first space of a line, without any space.         *)
Behind(line) == {k \in DOMAIN line : \E j \in 1 .. (k - 1) : line[j] = SPACE}
GivenPart(line, k) == IF k \in Behind(line) /\ line[k] # SPACE THEN <<line[k]>> ELSE <<>>
GivenParts(line) == [k \in DOMAIN line |-> GivenPart(line, k)]
Given(line) == Joined(GivenParts(line))
KeptPart(c) == IF IsArgument(c) THEN <<c>> ELSE <<>>

(* The parts that are joined to the arguments are short sequences.          *)
LEMMA PartTypes ==
  ASSUME NEW c \in Character
  PROVE  /\ <<c>> \in Seq(Character) /\ <<>> \in Seq(Character)
         /\ Len(<<c>>) = 1 /\ Len(<<>>) = 0
  OBVIOUS

(* So is what parse_args keeps of a character.                              *)
LEMMA KeptPartType ==
  ASSUME NEW c \in Character
  PROVE  KeptPart(c) \in Seq(Character)
  BY PartTypes DEF KeptPart

(* So is what is given of a place of the line.                              *)
LEMMA GivenPartType ==
  ASSUME NEW line \in Seq(Character), NEW k \in 1 .. Len(line)
  PROVE  GivenPart(line, k) \in Seq(Character) /\ Len(GivenPart(line, k)) <= 1
  <1>1. line[k] \in Character
    BY ElementOfSeq
  <1>2. QED
    BY <1>1, PartTypes DEF GivenPart

(* The given arguments are a text, and no longer than the line.             *)
LEMMA GivenIs ==
  ASSUME NEW line, IsText(line)
  PROVE  /\ IsText(Given(line))
         /\ GivenParts(line) \in Seq(Seq(Character)) /\ Len(GivenParts(line)) = Len(line)
         /\ \A k \in 1 .. Len(line) : GivenParts(line)[k] = GivenPart(line, k)
  <1> DEFINE n == Len(line)
             P == GivenParts(line)
  <1>1. line \in Seq(Character) /\ n \in Nat /\ n < BUFFER_SIZE /\ BUFFER_SIZE \in Nat
    BY StringFacts, LenProperties DEF IsText
  <1>2. DOMAIN line = 1 .. n
    BY <1>1, LenProperties
  <1> DEFINE at(k) == GivenPart(line, k)
  <1>3. \A k \in 1 .. n : at(k) \in Seq(Character) /\ Len(at(k)) <= 1
    BY <1>1, GivenPartType
  <1>4. P = [k \in 1 .. n |-> at(k)]
    BY <1>2 DEF GivenParts
  <1> HIDE DEF at, P, n
  <1>5. P \in Seq(Seq(Character)) /\ Len(P) = n /\ \A k \in 1 .. n : P[k] = at(k)
    <2>1. \A k \in 1 .. n : at(k) \in Seq(Character)
      BY <1>3
    <2>2. [k \in 1 .. n |-> at(k)] \in Seq(Seq(Character))
      BY <1>1, <2>1
    <2>3. Len([k \in 1 .. n |-> at(k)]) = n
      BY <1>1
    <2>4. QED
      BY <1>4, <2>2, <2>3
  <1>6. Joined(P) \in Seq(Character)
    BY <1>5, JoinedIsSeq
  <1>7. Len(Joined(P)) \in Nat /\ Len(Joined(P)) <= n
    <2>1. \A k \in 1 .. Len(P) : Len(P[k]) <= 1
      BY <1>3, <1>5
    <2>2. QED
      BY <1>5, <2>1, JoinedIsShort
  <1>8. IsText(Joined(P))
    BY <1>1, <1>6, <1>7 DEF IsText
  <1>9. QED
    BY <1>5, <1>8 DEF P, n, at, Given

(* parse_args finds the place where the arguments begin and keeps what the  *)
(* properties call given.                                                   *)
LEMMA ParseArgs ==
  ASSUME NEW line, IsText(line)
  PROVE  parse_args(AsString(line)).args = AsString(Given(line))
  <1> DEFINE n == Len(line)
             str == AsString(line)
             Starts(k) == (\A i \in 0 .. (k - 1) : str[i] # SPACE) /\ (k = strlen(str) \/ str[k] = SPACE)
             c == CHOOSE k \in 0 .. strlen(str) : Starts(k)
             rest == [k \in 1 .. (strlen(str) - c) |-> str[c + k - 1]]
             A == [k \in DOMAIN rest |-> KeptPart(rest[k])]
  <1>1. parse_args(str).args = AsString(Joined(A))
    BY DEF parse_args, Kept, KeptPart
  <1>2. /\ n \in Nat /\ strlen(str) = n /\ line \in Seq(Character)
        /\ \A i \in 0 .. (n - 1) : str[i] = line[i + 1]
    BY TextFacts DEF IsText
  <1>3. c \in 0 .. n /\ Starts(c)
    <2> DEFINE At == {k \in 0 .. n : k = n \/ str[k] = SPACE}
    <2>1. At \in SUBSET Nat /\ At # {}
      BY <1>2, n \in At
    <2>2. PICK k \in At : \A j \in At : k <= j
      <3> HIDE DEF At
      <3>1. QED
        BY <2>1, LeastNat
    <2>3. Starts(k)
      <3>1. ASSUME NEW i \in 0 .. (k - 1) PROVE str[i] # SPACE
        <4>1. i \in 0 .. n /\ ~(k <= i)
          BY <1>2
        <4>2. QED
          BY <2>2, <4>1
      <3>2. QED
        BY <1>2, <3>1
    <2> HIDE DEF Starts
    <2>4. \E j \in 0 .. strlen(str) : Starts(j)
      BY <1>2, <2>3
    <2>5. QED
      BY <1>2, <2>4
  <1> HIDE DEF c
  <1>4. c \in 0 .. n /\ (\A i \in 0 .. (c - 1) : str[i] # SPACE) /\ (c = n \/ str[c] = SPACE)
    BY <1>2, <1>3
  <1> DEFINE L == n - c
  <1>5. L \in Nat /\ n = c + L
    BY <1>2, <1>4
  <1>6. rest = [k \in 1 .. L |-> line[c + k]]
    <2>1. ASSUME NEW k \in 1 .. L PROVE str[c + k - 1] = line[c + k]
      <3>1. c + k - 1 \in 0 .. (n - 1) /\ c + k - 1 + 1 = c + k
        BY <1>2, <1>4
      <3>2. QED
        BY <1>2, <3>1
    <2>2. rest = [k \in 1 .. L |-> str[c + k - 1]]
      BY <1>2
    <2> HIDE DEF rest, L
    <2>3. QED
      BY <2>1, <2>2
  <1> HIDE DEF rest, str
  <1> DEFINE at(k) == KeptPart(line[c + k])
  <1>7. A = [k \in 1 .. L |-> at(k)]
    BY <1>6
  <1> HIDE DEF L, A
  <1>8. \A k \in 1 .. L : line[c + k] \in Character
    BY <1>2, <1>4, <1>5, ElementOfSeq DEF L
  <1>9. A \in Seq(Seq(Character)) /\ Len(A) = L /\ \A k \in 1 .. L : A[k] = at(k)
    <2>1. \A k \in 1 .. L : at(k) \in Seq(Character)
      BY <1>8, KeptPartType
    <2> HIDE DEF at
    <2>2. [k \in 1 .. L |-> at(k)] \in Seq(Seq(Character)) /\ Len([k \in 1 .. L |-> at(k)]) = L
      BY <1>5, <2>1
    <2>3. QED
      BY <1>7, <2>2
  <1>10. Joined(GivenParts(line)) = Joined(A)
    <2> DEFINE B == GivenParts(line)
    <2>1. B \in Seq(Seq(Character)) /\ Len(B) = n /\ \A k \in 1 .. n : B[k] = GivenPart(line, k)
      BY GivenIs
    <2>2. \A k \in 1 .. c : line[k] # SPACE
      <3> SUFFICES ASSUME NEW k \in 1 .. c PROVE line[k] # SPACE
        OBVIOUS
      <3>1. k - 1 \in 0 .. (c - 1) /\ k - 1 \in 0 .. (n - 1) /\ k - 1 + 1 = k
        BY <1>2, <1>4
      <3>2. QED
        BY <1>2, <1>4, <3>1
    <2>3. EmptyUpTo(B, c)
      <3> SUFFICES ASSUME NEW k \in 1 .. c PROVE B[k] = <<>>
        BY DEF EmptyUpTo
      <3>1. k \in 1 .. n /\ \A j \in 1 .. (k - 1) : j \in 1 .. c
        BY <1>4
      <3>2. k \notin Behind(line)
        BY <2>2, <3>1 DEF Behind
      <3>3. QED
        BY <2>1, <3>1, <3>2 DEF GivenPart
    <2>4. ASSUME NEW k \in 1 .. L PROVE B[c + k] = A[k]
      <3>1. c + k \in 1 .. n /\ c + k \in DOMAIN line
        BY <1>2, <1>4, <1>5, LenProperties
      <3>2. str[c] = SPACE /\ c \in 0 .. (n - 1)
        BY <1>2, <1>4, <1>5
      <3>3. line[c + 1] = SPACE
        BY <1>2, <3>2
      <3>4. CASE k = 1
        <4>1. B[c + k] = <<>>
          BY <2>1, <3>1, <3>3, <3>4 DEF GivenPart
        <4>2. A[k] = <<>>
          BY <1>9, <3>3, <3>4 DEF KeptPart, IsArgument
        <4>3. QED
          BY <4>1, <4>2
      <3>5. CASE k # 1
        <4>1. c + 1 \in 1 .. (c + k - 1)
          BY <1>4, <3>5
        <4>2. c + k \in Behind(line)
          <5>1. ASSUME NEW i \in DOMAIN line, i = c + k PROVE i \in Behind(line)
            <6>1. c + 1 \in 1 .. (i - 1)
              BY <1>4, <1>5, <3>5, <5>1
            <6>2. QED
              BY <3>3, <6>1 DEF Behind
          <5>2. QED
            BY <3>1, <5>1
        <4>3. B[c + k] = IF line[c + k] # SPACE THEN <<line[c + k]>> ELSE <<>>
          BY <2>1, <3>1, <4>2 DEF GivenPart
        <4>4. A[k] = IF line[c + k] # SPACE THEN <<line[c + k]>> ELSE <<>>
          BY <1>9 DEF KeptPart, IsArgument
        <4>5. QED
          BY <4>3, <4>4
      <3>6. QED
        BY <3>4, <3>5
    <2> HIDE DEF B
    <2>5. Len(B) = c + Len(A) /\ c \in Nat /\ \A k \in 1 .. Len(A) : B[c + k] = A[k]
      BY <1>4, <1>5, <1>9, <2>1, <2>4
    <2>6. Joined(B) = Joined(A)
      BY <1>9, <2>1, <2>3, <2>5, JoinedSkips
    <2>7. QED
      BY <2>6 DEF B
  <1>11. QED
    BY <1>1, <1>10 DEF Given, str

(* Run together, a text is kept character by character.                     *)
LEMMA RunIs ==
  ASSUME NEW text \in Seq(Character)
  PROVE  \E A \in Seq(Seq(Character)) :
           /\ RunTogether(text) = Joined(A) /\ Len(A) = Len(text)
           /\ \A k \in 1 .. Len(text) : A[k] = KeptPart(text[k])
  <1> DEFINE n == Len(text)
             at(k) == KeptPart(text[k])
             A == [k \in 1 .. n |-> at(k)]
  <1>1. n \in Nat /\ DOMAIN text = 1 .. n
    BY LenProperties
  <1>2. RunTogether(text) = Joined(A)
    BY <1>1 DEF RunTogether, KeptPart, IsArgument
  <1>3. \A k \in 1 .. n : at(k) \in Seq(Character)
    BY ElementOfSeq, KeptPartType
  <1> HIDE DEF at, n
  <1>4. A \in Seq(Seq(Character)) /\ Len(A) = n /\ \A k \in 1 .. n : A[k] = at(k)
    BY <1>1, <1>3
  <1> HIDE DEF A
  <1>5. QED
    BY <1>2, <1>4 DEF n, at

(* What is kept of the promised arguments is what was given.                *)
LEMMA KeptOfArguments ==
  ASSUME NEW line, IsText(line), NEW c \in 0 .. Len(line), NEW text \in Seq(Character),
         Len(text) = Len(line) - c, \A k \in 1 .. Len(text) : text[k] = line[c + k],
         \A k \in 1 .. c : k \in Behind(line) => line[k] = SPACE,
         \A k \in (c + 1) .. Len(line) : k \in Behind(line)
  PROVE  RunTogether(text) = Given(line)
  <1> DEFINE n == Len(line)
             L == Len(text)
             B == GivenParts(line)
  <1>1. n \in Nat /\ c \in Nat /\ L \in Nat /\ n = c + L
    BY LenProperties DEF IsText
  <1>2. B \in Seq(Seq(Character)) /\ Len(B) = n /\ \A k \in 1 .. n : B[k] = GivenPart(line, k)
    BY GivenIs
  <1>3. PICK A \in Seq(Seq(Character)) :
          /\ RunTogether(text) = Joined(A) /\ Len(A) = L
          /\ \A k \in 1 .. L : A[k] = KeptPart(text[k])
    BY RunIs
  <1>4. EmptyUpTo(B, c)
    <2> SUFFICES ASSUME NEW k \in 1 .. c PROVE B[k] = <<>>
      BY DEF EmptyUpTo
    <2>1. k \in 1 .. n
      BY <1>1
    <2>2. QED
      BY <1>2, <2>1 DEF GivenPart
  <1>5. ASSUME NEW k \in 1 .. L PROVE B[c + k] = A[k]
    <2>1. c + k \in 1 .. n /\ c + k \in (c + 1) .. n
      BY <1>1
    <2>2. B[c + k] = IF line[c + k] # SPACE THEN <<line[c + k]>> ELSE <<>>
      BY <1>2, <2>1 DEF GivenPart
    <2>3. A[k] = IF line[c + k] # SPACE THEN <<line[c + k]>> ELSE <<>>
      BY <1>3 DEF KeptPart, IsArgument
    <2>4. QED
      BY <2>2, <2>3
  <1> HIDE DEF B, n, L
  <1>6. Joined(B) = Joined(A)
    BY <1>1, <1>2, <1>3, <1>4, <1>5, JoinedSkips
  <1>7. QED
    BY <1>3, <1>6 DEF Given, B

LEMMA ArgumentsAre ==
  ASSUME NEW line, IsText(line)
  PROVE  RunTogether(Arguments(line)) = Given(line)
  <1> DEFINE n == Len(line)
             words == {k \in DOMAIN line : line[k] # SPACE /\ \E j \in 1 .. (k - 1) : line[j] = SPACE}
             m == Min(words)
  <1>1. line \in Seq(Character) /\ n \in Nat /\ DOMAIN line = 1 .. n
    BY LenProperties DEF IsText
  <1>2. \A k \in 1 .. n : k \in words <=> k \in Behind(line) /\ line[k] # SPACE
    BY <1>1 DEF Behind
  <1>3. CASE words = {}
    <2>1. Arguments(line) = <<>>
      BY <1>3 DEF Arguments
    <2>2. <<>> \in Seq(Character) /\ Len(<<>>) = 0 /\ n \in 0 .. n
      BY <1>1
    <2> HIDE DEF words
    <2>3. \A k \in 1 .. n : k \in Behind(line) => line[k] = SPACE
      BY <1>2, <1>3
    <2> DEFINE text == <<>>
    <2>4. /\ text \in Seq(Character) /\ Len(text) = Len(line) - n /\ n \in 0 .. Len(line)
          /\ \A k \in 1 .. Len(text) : text[k] = line[n + k]
          /\ \A k \in (n + 1) .. Len(line) : k \in Behind(line)
      BY <1>1, <2>2
    <2> HIDE DEF text
    <2>5. RunTogether(text) = Given(line)
      <3> HIDE DEF n
      <3>1. QED
        BY <2>3, <2>4, KeptOfArguments
    <2>6. QED
      BY <2>1, <2>5 DEF text
  <1>4. CASE words # {}
    <2>1. words \in SUBSET Nat
      BY <1>1
    <2>2. m \in words /\ \A k \in words : m <= k
      <3> HIDE DEF words
      <3>1. PICK k \in words : \A j \in words : k <= j
        BY <1>4, <2>1, LeastNat
      <3>2. QED
        BY <3>1 DEF Min
    <2>3. Arguments(line) = SubSeq(line, m, n)
      BY <1>4 DEF Arguments
    <2> HIDE DEF m
    <2>4. m \in 1 .. n /\ line[m] # SPACE /\ \E j \in 1 .. (m - 1) : line[j] = SPACE
      BY <1>1, <2>2
    <2> HIDE DEF words
    <2> DEFINE c == m - 1
               text == SubSeq(line, m, n)
    <2>5. c \in 0 .. n /\ m = c + 1 /\ m \in Nat
      BY <1>1, <2>4
    <2>6. text \in Seq(Character) /\ Len(text) = n - c /\ \A k \in 1 .. Len(text) : text[k] = line[c + k]
      <3>1. \A k \in m .. n : line[k] \in Character
        BY <1>1, <2>4, ElementOfSeq
      <3> HIDE DEF n
      <3>2. QED
        BY <1>1, <2>4, <2>5, <3>1, SubSeqProperties
    <2>7. \A k \in 1 .. c : k \in Behind(line) => line[k] = SPACE
      <3> SUFFICES ASSUME NEW k \in 1 .. c, k \in Behind(line), line[k] # SPACE PROVE FALSE
        OBVIOUS
      <3>1. k \in 1 .. n /\ ~(m <= k)
        BY <1>1, <2>5
      <3>2. QED
        BY <1>2, <2>2, <3>1
    <2>8. \A k \in (c + 1) .. n : k \in Behind(line)
      <3> SUFFICES ASSUME NEW k \in (c + 1) .. n PROVE k \in Behind(line)
        OBVIOUS
      <3>1. PICK j \in 1 .. (m - 1) : line[j] = SPACE
        BY <2>4
      <3>2. k \in 1 .. n /\ j \in 1 .. (k - 1)
        BY <1>1, <2>5
      <3>3. QED
        BY <1>1, <3>1, <3>2 DEF Behind
    <2> HIDE DEF c, text
    <2>9. RunTogether(text) = Given(line)
      BY <2>5, <2>6, <2>7, <2>8, KeptOfArguments
    <2>10. QED
      BY <2>3, <2>9 DEF text
  <1>5. QED
    BY <1>3, <1>4

(* The buffer of the PCB holds what was given.                              *)
ArgumentsHeld ==
  /\ typed \in Lines \cup {<<>>}
  /\ buffCopyArg \in [Offsets -> Nat]
  /\ \A i \in 0 .. Len(Given(typed)) : buffCopyArg[i] = AsString(Given(typed))[i]

NamesInv == ArgumentsHeld /\ ArgumentsArrive /\ NamesFindTheirFile /\ NamesAreListed

(* Lines, wanted names and names of dentries are texts.                     *)
LEMMA LinesAreTexts ==
  /\ \A line \in Lines \cup Wanted \cup {<<>>} : IsText(line)
  /\ \A k \in DOMAIN Directory :
       IsText(Directory[k].name) /\ Len(Directory[k].name) \in 1 .. FILENAME_LEN
         /\ Directory[k].filetype \in Nat
  <1>1. \A line \in Lines \cup Wanted : IsText(line)
    BY StringsAssumption DEF IsText
  <1>2. IsText(<<>>)
    BY StringFacts DEF IsText
  <1>3. ASSUME NEW k \in DOMAIN Directory
        PROVE  IsText(Directory[k].name) /\ Len(Directory[k].name) \in 1 .. FILENAME_LEN
                 /\ Directory[k].filetype \in Nat
    <2>1. k \in 1 .. Len(Directory) /\ Directory \in Seq([name : Seq(Character), filetype : Nat])
      BY <1>3, StringsAssumption, LenProperties
    <2>2. Directory[k] \in [name : Seq(Character), filetype : Nat]
      BY <2>1, ElementOfSeq
    <2>3. Len(Directory[k].name) \in 1 .. FILENAME_LEN
      BY StringsAssumption
    <2>4. QED
      BY <2>2, <2>3, StringFacts DEF IsText
  <1>4. QED
    BY <1>1, <1>2, <1>3

(* What a buffer holds that agrees with a text up to its NUL.               *)
LEMMA HeldText ==
  ASSUME NEW text, IsText(text), NEW s,
         \A i \in 0 .. Len(text) : s[i] = AsString(text)[i]
  PROVE  /\ \A i \in 0 .. (Len(text) - 1) : s[i] = text[i + 1] /\ s[i] # NUL
         /\ s[Len(text)] = NUL /\ strlen(s) = Len(text)
         /\ s[0] = NUL <=> Len(text) = 0
  <1> DEFINE n == Len(text)
  <1>1. /\ n \in Offsets /\ n \in Nat /\ AsString(text)[n] = NUL
        /\ \A i \in 0 .. (n - 1) : AsString(text)[i] = text[i + 1] /\ text[i + 1] # NUL
    BY TextFacts
  <1>2. \A i \in 0 .. (n - 1) : s[i] = text[i + 1] /\ s[i] # NUL
    BY <1>1
  <1>3. s[n] = NUL
    BY <1>1
  <1>4. strlen(s) = n
    <2> HIDE DEF n
    <2>1. QED
      BY <1>1, <1>2, <1>3, StrlenIs
  <1>5. s[0] = NUL <=> n = 0
    BY <1>1, <1>2, <1>3
  <1>6. QED
    BY <1>2, <1>3, <1>4, <1>5

(* Copying a text with strncpy or strcpy.                                   *)
LEMMA CopiedText ==
  ASSUME NEW text, IsText(text), NEW s, NEW dest,
         \A i \in 0 .. Len(text) : s[i] = AsString(text)[i]
  PROVE  /\ strncpy(dest, s, strlen(s))
              = [i \in Offsets |-> IF i <= Len(text) THEN AsString(text)[i] ELSE dest[i]]
         /\ strcpy(dest, s)
              = [i \in Offsets |-> IF i <= Len(text) THEN AsString(text)[i] ELSE dest[i]]
  <1> DEFINE n == Len(text)
  <1>1. /\ n \in Offsets /\ n \in Nat /\ strlen(s) = n /\ AsString(text)[n] = NUL
        /\ \A i \in 0 .. (n - 1) : s[i] # NUL
    BY TextFacts, HeldText
  <1>2. \A i \in Offsets : i \in Nat
    BY StringFacts
  <1>3. strncpy(dest, s, n)
          = [i \in Offsets |-> IF i < n THEN s[i] ELSE IF i <= n THEN NUL ELSE dest[i]]
    <2> HIDE DEF n
    <2>1. n \in Nat /\ n \in 0 .. n
      BY <1>1
    <2>2. \A i \in 0 .. (n - 1) : s[i] # NUL
      BY <1>1
    <2>3. QED
      BY <2>1, <2>2, StrncpyIs
  <1>4. \A i \in Offsets : (IF i < n THEN s[i] ELSE IF i <= n THEN NUL ELSE dest[i])
                             = IF i <= n THEN AsString(text)[i] ELSE dest[i]
    <2> SUFFICES ASSUME NEW i \in Offsets
                 PROVE  (IF i < n THEN s[i] ELSE IF i <= n THEN NUL ELSE dest[i])
                          = IF i <= n THEN AsString(text)[i] ELSE dest[i]
      OBVIOUS
    <2>1. i \in Nat
      BY <1>2
    <2>2. CASE i <= n
      <3>1. s[i] = AsString(text)[i]
        BY <1>1, <2>1, <2>2
      <3>2. ~(i < n) => i = n
        BY <1>1, <2>1, <2>2
      <3>3. QED
        BY <1>1, <2>2, <3>1, <3>2
    <2>3. CASE ~(i <= n)
      <3>1. ~(i < n)
        BY <1>1, <2>1, <2>3
      <3>2. QED
        BY <2>3, <3>1
    <2>4. QED
      BY <2>2, <2>3
  <1>5. strcpy(dest, s) = [i \in Offsets |-> IF i <= n THEN s[i] ELSE dest[i]]
    BY <1>1 DEF strcpy
  <1>6. \A i \in Offsets : i <= n => s[i] = AsString(text)[i]
    BY <1>1, <1>2
  <1> HIDE DEF n
  <1>7. strcpy(dest, s) = [i \in Offsets |-> IF i <= n THEN AsString(text)[i] ELSE dest[i]]
    BY <1>5, <1>6
  <1>8. QED
    BY <1>1, <1>3, <1>4, <1>7 DEF n

(* Whatever a buffer held before, it held characters.                       *)
LEMMA StaleType ==
  ASSUME NEW stale \in Stale
  PROVE  stale \in [Offsets -> Nat]
  BY DEF Stale, AllOf, NUL, LetterX

(* do_execute leaves the arguments of its line in the PCB.                  *)
LEMMA ExecuteHolds ==
  ASSUME NEW line \in Lines, Execute(line)
  PROVE  ArgumentsHeld'
  <1> DEFINE g == Given(line)
             args == parse_args(AsString(line)).args
  <1>1. IsText(line) /\ IsText(g)
    BY LinesAreTexts, GivenIs
  <1>2. args = AsString(g)
    BY <1>1, ParseArgs
  <1>3. PICK stale \in Stale : buffCopyArg' = strncpy(stale, args, strlen(args))
    BY DEF Execute
  <1>4. typed' = line
    BY DEF Execute
  <1> HIDE DEF args, g
  <1>5. buffCopyArg' = [i \in Offsets |-> IF i <= Len(g) THEN AsString(g)[i] ELSE stale[i]]
    BY <1>1, <1>2, <1>3, CopiedText
  <1>6. /\ Len(g) \in Offsets /\ Len(g) \in Nat /\ AsString(g) \in [Offsets -> Nat]
        /\ \A i \in 0 .. Len(g) : i \in Offsets
    <2>1. Len(g) \in Offsets /\ Len(g) \in Nat /\ AsString(g) \in [Offsets -> Nat]
      BY <1>1, TextFacts
    <2>2. QED
      BY <2>1, StringFacts DEF Offsets
  <1>7. buffCopyArg' \in [Offsets -> Nat]
    BY <1>5, <1>6, StaleType
  <1>8. \A i \in 0 .. Len(g) : buffCopyArg'[i] = AsString(g)[i]
    BY <1>5, <1>6
  <1>9. Given(typed') = g
    BY <1>4 DEF g
  <1>10. QED
    BY <1>4, <1>7, <1>8, <1>9 DEF ArgumentsHeld, Given, GivenParts, GivenPart, Behind

(* A name in its dentry.                                                    *)
LEMMA NameInDentry ==
  ASSUME NEW k \in DOMAIN Directory
  PROVE  /\ \A i \in Offsets : FilenameAt(Directory[k])[i] \in Nat
         /\ \A i \in 0 .. (Len(Directory[k].name) - 1) :
              FilenameAt(Directory[k])[i] = Directory[k].name[i + 1] /\ Directory[k].name[i + 1] # NUL
         /\ Len(Directory[k].name) < FILENAME_LEN => FilenameAt(Directory[k])[Len(Directory[k].name)] = NUL
         /\ strlen(FilenameAt(Directory[k])) \in Nat
         /\ Len(Directory[k].name) = FILENAME_LEN => strlen(FilenameAt(Directory[k])) >= FILENAME_LEN
         /\ Len(Directory[k].name) < FILENAME_LEN
              => strlen(FilenameAt(Directory[k])) = Len(Directory[k].name)
         /\ Len(Directory[k].name) \in 1 .. FILENAME_LEN
  <1> DEFINE name == Directory[k].name
             n == Len(name)
             type == Directory[k].filetype
             s == FilenameAt(Directory[k])
  <1>1. IsText(name) /\ n \in 1 .. FILENAME_LEN /\ type \in Nat
    BY LinesAreTexts
  <1>2. \A i \in Offsets : s[i] = IF i < n THEN name[i + 1] ELSE IF i = FILENAME_LEN THEN type ELSE NUL
    BY DEF FilenameAt
  <1> HIDE DEF name, type, s
  <1>3. n \in Nat /\ \A i \in 0 .. (n - 1) : i \in Offsets /\ name[i + 1] \in Nat /\ name[i + 1] # NUL
    BY <1>1, TextFacts
  <1> HIDE DEF n
  <1>4. \A i \in 0 .. (n - 1) : s[i] = name[i + 1] /\ name[i + 1] # NUL
    BY <1>2, <1>3
  <1>5. \A i \in Offsets : s[i] \in Nat
    <2> SUFFICES ASSUME NEW i \in Offsets PROVE s[i] \in Nat
      OBVIOUS
    <2>1. i \in Nat
      BY StringFacts
    <2>2. CASE i < n
      BY <1>2, <1>3, <2>1, <2>2
    <2>3. CASE ~(i < n)
      BY <1>1, <1>2, <2>3 DEF NUL
    <2>4. QED
      BY <2>2, <2>3
  <1>6. FILENAME_LEN \in Offsets /\ FILENAME_LEN + 1 \in Offsets /\ n \in Offsets /\ FILENAME_LEN \in Nat
    BY <1>1, StringFacts
  <1>7. n < FILENAME_LEN => s[n] = NUL
    BY <1>1, <1>2, <1>3, <1>6
  <1>8. n < FILENAME_LEN => strlen(s) = n
    BY <1>4, <1>6, <1>7, StrlenIs
  <1>9. ASSUME n = FILENAME_LEN PROVE strlen(s) \in Nat /\ strlen(s) >= FILENAME_LEN
    <2>1. CASE type = NUL
      <3>1. s[n] = NUL
        BY <1>2, <1>3, <1>6, <1>9, <2>1
      <3>2. strlen(s) = n
        BY <1>4, <1>6, <3>1, StrlenIs
      <3>3. QED
        BY <1>6, <1>9, <3>2
    <2>2. CASE type # NUL
      <3> DEFINE m == FILENAME_LEN + 1
      <3>1. s[m] = NUL
        BY <1>2, <1>6, <1>9
      <3>2. \A i \in 0 .. (m - 1) : s[i] # NUL
        <4> SUFFICES ASSUME NEW i \in 0 .. (m - 1) PROVE s[i] # NUL
          OBVIOUS
        <4>1. CASE i = FILENAME_LEN
          <5>1. s[i] = type
            BY <1>2, <1>6, <1>9, <4>1
          <5>2. QED
            BY <2>2, <5>1
        <4>2. CASE i # FILENAME_LEN
          <5>1. i \in 0 .. (n - 1)
            BY <1>6, <1>9, <4>2
          <5>2. QED
            BY <1>4, <5>1
        <4>3. QED
          BY <4>1, <4>2
      <3>3. m \in Offsets
        BY <1>6
      <3> HIDE DEF m
      <3>4. strlen(s) = m
        BY <3>1, <3>2, <3>3, StrlenIs
      <3>5. QED
        BY <1>6, <3>4 DEF m
    <2>3. QED
      BY <2>1, <2>2
  <1>10. strlen(s) \in Nat
    BY <1>1, <1>3, <1>8, <1>9, <1>6
  <1>11. QED
    BY <1>1, <1>4, <1>5, <1>7, <1>8, <1>9, <1>10 DEF name, n, s

(* The comparison of read_dentry_by_name says whether the names are equal.  *)
LEMMA NamesCompare ==
  ASSUME NEW text, IsText(text), Len(text) <= FILENAME_LEN, NEW k \in DOMAIN Directory
  PROVE  strncmp(AsString(text), FilenameAt(Directory[k]),
                 CompareSize(AsString(text), FilenameAt(Directory[k]))) = 0
           <=> text = Directory[k].name
  <1> DEFINE name == Directory[k].name
             n == Len(text)
             m == Len(name)
             s == AsString(text)
             t == FilenameAt(Directory[k])
             size == CompareSize(s, t)
  <1>1. /\ n \in Nat /\ n <= FILENAME_LEN /\ strlen(s) = n /\ s \in [Offsets -> Nat]
        /\ \A i \in 0 .. (n - 1) : s[i] = text[i + 1] /\ text[i + 1] # NUL
        /\ s[n] = NUL /\ FILENAME_LEN \in Nat
    BY TextFacts, StringFacts
  <1>2. /\ m \in 1 .. FILENAME_LEN /\ strlen(t) \in Nat
        /\ \A i \in 0 .. (m - 1) : t[i] = name[i + 1] /\ name[i + 1] # NUL
        /\ m < FILENAME_LEN => t[m] = NUL /\ strlen(t) = m
        /\ m = FILENAME_LEN => strlen(t) >= FILENAME_LEN
        /\ \A i \in Offsets : t[i] \in Nat
    BY NameInDentry
  <1>3. text \in Seq(Character) /\ name \in Seq(Character)
    BY LinesAreTexts DEF IsText
  <1> HIDE DEF s, t, name
  <1>4. size = IF n > m THEN n ELSE m
    <2>1. CASE m < FILENAME_LEN
      <3>1. strlen(t) = m
        BY <1>2, <2>1
      <3>2. QED
        BY <1>1, <1>2, <3>1 DEF CompareSize, Lesser, Greater
    <2>2. CASE m = FILENAME_LEN
      <3>1. strlen(t) >= FILENAME_LEN
        BY <1>2, <2>2
      <3>2. size = FILENAME_LEN
        BY <1>1, <1>2, <3>1 DEF CompareSize, Lesser, Greater
      <3>3. QED
        BY <1>1, <2>2, <3>2
    <2>3. QED
      BY <1>1, <1>2, <2>1, <2>2
  <1> HIDE DEF size, n, m
  <1>5. size \in Nat /\ n <= size /\ m <= size /\ size <= FILENAME_LEN /\ (size = n \/ size = m)
    BY <1>1, <1>2, <1>4
  <1>6. \A i \in 0 .. (size - 1) : s[i] \in Nat /\ t[i] \in Nat
    <2>1. \A i \in 0 .. (size - 1) : i \in Offsets
      BY <1>1, <1>5, StringFacts
    <2>2. QED
      BY <1>1, <1>2, <2>1
  <1> DEFINE Same == \A i \in 0 .. (size - 1) : s[i] = t[i] /\ s[i] # NUL
             SameTo(j) == s[j] = NUL /\ \A i \in 0 .. j : s[i] = t[i]
  <1>7. strncmp(s, t, size) = 0 <=> Same \/ \E j \in 0 .. (size - 1) : SameTo(j)
    BY <1>5, <1>6, StrncmpIs
  <1>8. ASSUME text = name PROVE Same
    <2>1. n = m /\ size = n
      BY <1>5, <1>8 DEF n, m
    <2>2. \A i \in 0 .. (size - 1) : s[i] = text[i + 1] /\ t[i] = text[i + 1] /\ text[i + 1] # NUL
      BY <1>1, <1>2, <1>8, <2>1
    <2>3. QED
      BY <2>2
  <1>9. ASSUME n = m, \A i \in 0 .. (n - 1) : s[i] = t[i] PROVE text = name
    <2>1. \A i \in 1 .. n : text[i] = name[i]
      <3> SUFFICES ASSUME NEW i \in 1 .. n PROVE text[i] = name[i]
        OBVIOUS
      <3>1. i - 1 \in 0 .. (n - 1) /\ i - 1 + 1 = i
        BY <1>1
      <3>2. s[i - 1] = text[i] /\ t[i - 1] = name[i]
        BY <1>1, <1>2, <1>9, <3>1
      <3>3. QED
        BY <1>9, <3>1, <3>2
    <2>2. Len(text) = n /\ Len(name) = n
      BY <1>9 DEF n, m
    <2>3. QED
      BY <1>3, <2>1, <2>2, SeqEqual
  <1>10. ASSUME Same PROVE text = name
    <2>1. ~(n < size)
      BY <1>1, <1>5, <1>10
    <2>2. ~(m < size)
      <3> SUFFICES ASSUME m < size PROVE FALSE
        OBVIOUS
      <3>1. t[m] = NUL /\ m \in 0 .. (size - 1)
        BY <1>1, <1>2, <1>5
      <3>2. QED
        BY <1>10, <3>1
    <2>3. n = m /\ n = size
      BY <1>1, <1>2, <1>5, <2>1, <2>2
    <2>4. \A i \in 0 .. (n - 1) : s[i] = t[i]
      BY <1>10, <2>3
    <2> HIDE DEF Same
    <2>5. QED
      BY <1>9, <2>3, <2>4
  <1>11. ASSUME NEW j \in 0 .. (size - 1), SameTo(j) PROVE text = name
    <2>1. j = n
      <3>1. ~(j < n)
        BY <1>1, <1>11
      <3>2. ~(n < j)
        <4> SUFFICES ASSUME n < j PROVE FALSE
          OBVIOUS
        <4>1. n < size /\ size = m
          BY <1>1, <1>5
        <4>2. n \in 0 .. j /\ n \in 0 .. (m - 1)
          BY <1>1, <1>5, <4>1
        <4>3. t[n] # NUL /\ s[n] = t[n]
          BY <1>2, <1>11, <4>2
        <4>4. QED
          BY <1>1, <4>3
      <3>3. QED
        BY <1>1, <1>5, <3>1, <3>2
    <2>2. n = m
      <3>1. ~(n < m)
        <4> SUFFICES ASSUME n < m PROVE FALSE
          OBVIOUS
        <4>1. n \in 0 .. j /\ n \in 0 .. (m - 1)
          BY <1>1, <1>2, <2>1
        <4>2. t[n] # NUL /\ s[n] = t[n]
          BY <1>2, <1>11, <4>1
        <4>3. QED
          BY <1>1, <4>2
      <3>2. j < size
        BY <1>5
      <3>3. QED
        BY <1>1, <1>2, <1>5, <2>1, <3>1, <3>2
    <2>3. \A i \in 0 .. (n - 1) : s[i] = t[i]
      <3>1. \A i \in 0 .. (n - 1) : i \in 0 .. j
        BY <1>1, <2>1
      <3>2. QED
        BY <1>11, <3>1
    <2>4. QED
      BY <1>9, <2>2, <2>3
  <1> HIDE DEF Same, SameTo
  <1>12. QED
    BY <1>7, <1>8, <1>10, <1>11 DEF s, t, name, size

(* read_dentry_by_name finds the file of the name and no other.             *)
LEMMA FindsTheFile ==
  ASSUME NEW name \in Wanted, Find(name)
  PROVE  NamesFindTheirFile'
  <1> DEFINE s == AsString(name)
             matches == {k \in DOMAIN Directory :
                           strncmp(s, FilenameAt(Directory[k]), CompareSize(s, FilenameAt(Directory[k]))) = 0}
             least == CHOOSE k \in matches : \A j \in matches : k <= j
  <1>1. read_dentry_by_name(s) = IF strlen(s) > FILENAME_LEN \/ matches = {} THEN -1 ELSE least
    BY DEF read_dentry_by_name
  <1>2. IsText(name) /\ strlen(s) = Len(name) /\ Len(name) \in Nat /\ FILENAME_LEN \in Nat
    BY LinesAreTexts, TextFacts, StringFacts
  <1>3. call'.fn = "find" /\ call'.name = name /\ call'.value = read_dentry_by_name(s)
    BY DEF Find
  <1>4. CASE Len(name) > FILENAME_LEN
    <2>1. call'.value = -1
      BY <1>1, <1>2, <1>3, <1>4
    <2>2. \A k \in DOMAIN Directory : Directory[k].name # name
      BY <1>2, <1>4, LinesAreTexts
    <2>3. QED
      BY <1>3, <2>1, <2>2 DEF NamesFindTheirFile
  <1>5. CASE ~(Len(name) > FILENAME_LEN)
    <2>1. \A k \in DOMAIN Directory : k \in matches <=> name = Directory[k].name
      BY <1>2, <1>5, NamesCompare
    <2>2. CASE matches = {}
      <3>1. call'.value = -1
        BY <1>1, <1>3, <2>2
      <3>2. \A k \in DOMAIN Directory : Directory[k].name # name
        BY <2>1, <2>2
      <3>3. QED
        BY <1>3, <3>1, <3>2 DEF NamesFindTheirFile
    <2>3. CASE matches # {}
      <3>1. matches \in SUBSET Nat
        <4>1. DOMAIN Directory = 1 .. Len(Directory)
          BY StringsAssumption, LenProperties
        <4>2. QED
          BY <4>1
      <3> HIDE DEF matches
      <3>2. \E k \in matches : \A j \in matches : k <= j
        BY <2>3, <3>1, LeastNat
      <3>3. least \in matches
        BY <3>2
      <3> HIDE DEF least
      <3>4. call'.value = least
        BY <1>1, <1>2, <1>3, <1>5, <2>3
      <3>5. least \in Nat /\ least \in DOMAIN Directory
        BY <3>1, <3>3 DEF matches
      <3>6. name = Directory[least].name
        BY <2>1, <3>3, <3>5
      <3>7. call'.value # -1
        BY <3>4, <3>5
      <3>8. QED
        BY <1>3, <3>4, <3>6, <3>7 DEF NamesFindTheirFile
    <2>4. QED
      BY <2>2, <2>3
  <1>6. QED
    BY <1>4, <1>5

(* dir_read lists as much of the name as was asked for.                     *)
LEMMA ListsTheName ==
  ASSUME NEW k \in DOMAIN Directory, NEW nbytes \in 1 .. FILENAME_LEN, dir_read(k, nbytes)
  PROVE  NamesAreListed'
  <1> DEFINE name == Directory[k].name
             n == Len(name)
             t == FilenameAt(Directory[k])
             c == Lesser(n, nbytes)
  <1>1. PICK stale \in Stale :
          call' = [fn |-> "list", entry |-> k, nbytes |-> nbytes,
                   value |-> strlen([strncpy(stale, strncpy(stale, t, nbytes), FILENAME_LEN + 1)
                                        EXCEPT ![FILENAME_LEN] = NUL]),
                   buf |-> strncpy(stale, t, nbytes)]
    BY DEF dir_read
  <1> DEFINE buf == strncpy(stale, t, nbytes)
             copy == strncpy(stale, buf, FILENAME_LEN + 1)
             tmp == [copy EXCEPT ![FILENAME_LEN] = NUL]
  <1>2. call'.fn = "list" /\ call'.entry = k /\ call'.nbytes = nbytes
        /\ call'.value = strlen(tmp) /\ call'.buf = buf
    BY <1>1
  <1>3. /\ n \in 1 .. FILENAME_LEN /\ FILENAME_LEN \in Nat /\ nbytes \in Nat
        /\ \A i \in 0 .. (n - 1) : t[i] = name[i + 1] /\ name[i + 1] # NUL
        /\ n < FILENAME_LEN => t[n] = NUL
    <2>1. FILENAME_LEN \in Nat /\ nbytes \in Nat
      BY StringFacts
    <2>2. \A i \in 0 .. (n - 1) : t[i] = name[i + 1] /\ name[i + 1] # NUL
      BY NameInDentry
    <2>3. n \in 1 .. FILENAME_LEN /\ (n < FILENAME_LEN => t[n] = NUL)
      BY NameInDentry
    <2>4. QED
      BY <2>1, <2>2, <2>3
  <1>4. \A i \in Offsets : i \in Nat
    BY StringFacts
  <1>5. \A i \in 0 .. FILENAME_LEN : i \in Offsets
    BY StringFacts
  <1> HIDE DEF t, name, n, buf, copy, tmp
  <1>6. c \in 0 .. nbytes /\ c <= n /\ c <= FILENAME_LEN /\ c \in Nat /\ (c = nbytes \/ c = n)
    BY <1>3 DEF Lesser
  <1>7. \A i \in 0 .. (c - 1) : t[i] = name[i + 1] /\ t[i] # NUL
    BY <1>3, <1>6
  <1>8. c = nbytes \/ t[c] = NUL
    BY <1>3, <1>6
  <1> HIDE DEF c
  <1>9. buf = [i \in Offsets |-> IF i < c THEN t[i] ELSE IF i <= nbytes THEN NUL ELSE stale[i]]
    <2>1. \A i \in 0 .. (c - 1) : t[i] # NUL
      BY <1>7
    <2>2. QED
      BY <1>3, <1>6, <1>8, <2>1, StrncpyIs DEF buf
  <1>10. (\A i \in 0 .. (c - 1) : buf[i] = name[i + 1] /\ buf[i] # NUL) /\ buf[c] = NUL
    <2>1. ASSUME NEW i \in 0 .. (c - 1) PROVE buf[i] = name[i + 1] /\ buf[i] # NUL
      <3>1. i \in Offsets /\ i < c
        BY <1>3, <1>5, <1>6
      <3>2. QED
        BY <1>7, <1>9, <3>1
    <2>2. c \in Offsets /\ ~(c < c) /\ c <= nbytes
      BY <1>5, <1>6
    <2>3. QED
      BY <1>9, <2>1, <2>2
  <1>11. copy = [i \in Offsets |-> IF i < c THEN buf[i] ELSE IF i <= FILENAME_LEN + 1 THEN NUL
                                   ELSE stale[i]]
    <2>1. FILENAME_LEN + 1 \in Nat /\ c \in 0 .. (FILENAME_LEN + 1)
      BY <1>3, <1>6
    <2>2. \A i \in 0 .. (c - 1) : buf[i] # NUL
      BY <1>10
    <2> DEFINE m == FILENAME_LEN + 1
    <2> HIDE DEF m
    <2>3. m \in Nat /\ c \in 0 .. m
      BY <2>1 DEF m
    <2>4. strncpy(stale, buf, m)
            = [i \in Offsets |-> IF i < c THEN buf[i] ELSE IF i <= m THEN NUL ELSE stale[i]]
      BY <1>10, <2>2, <2>3, StrncpyIs
    <2>5. QED
      BY <2>4 DEF m, copy
  <1>12. strlen(tmp) = c
    <2>1. c \in Offsets /\ tmp[c] = NUL
      <3>1. c \in Offsets /\ ~(c < c) /\ c <= FILENAME_LEN + 1
        BY <1>3, <1>5, <1>6
      <3>2. copy[c] = NUL
        BY <1>11, <3>1
      <3>3. QED
        BY <1>11, <3>1, <3>2 DEF tmp
    <2>2. \A i \in 0 .. (c - 1) : tmp[i] # NUL
      <3> SUFFICES ASSUME NEW i \in 0 .. (c - 1) PROVE tmp[i] # NUL
        OBVIOUS
      <3>1. i \in Offsets /\ i < c /\ i # FILENAME_LEN
        BY <1>3, <1>5, <1>6
      <3>2. copy[i] = buf[i] /\ buf[i] # NUL
        BY <1>10, <1>11, <3>1
      <3>3. QED
        BY <1>11, <3>1, <3>2 DEF tmp
    <2>3. QED
      BY <2>1, <2>2, StrlenIs
  <1>13. \A i \in 1 .. c : buf[i - 1] = name[i]
    <2> SUFFICES ASSUME NEW i \in 1 .. c PROVE buf[i - 1] = name[i]
      OBVIOUS
    <2>1. i - 1 \in 0 .. (c - 1) /\ i - 1 + 1 = i
      BY <1>6
    <2>2. QED
      BY <1>10, <2>1
  <1>14. call'.value = Lesser(Len(Directory[k].name), nbytes)
    BY <1>2, <1>12 DEF c, n, name
  <1>15. \A i \in 1 .. call'.value : call'.buf[i - 1] = Directory[k].name[i]
    BY <1>2, <1>12, <1>13 DEF name
  <1>16. QED
    BY <1>2, <1>14, <1>15 DEF NamesAreListed

(* And it holds at first.                                                   *)
LEMMA InitIsNames == LibraryInit => NamesInv
  <1> SUFFICES ASSUME LibraryInit PROVE NamesInv
    OBVIOUS
  <1>1. ArgumentsArrive /\ NamesFindTheirFile /\ NamesAreListed
    BY DEF LibraryInit, NoCall, ArgumentsArrive, NamesFindTheirFile, NamesAreListed
  <1>2. typed = <<>> /\ buffCopyArg = AllOf(NUL)
    BY DEF LibraryInit
  <1>3. IsText(<<>>) /\ IsText(Given(<<>>))
    BY LinesAreTexts, GivenIs
  <1>4. Len(Given(<<>>)) = 0
    <2>1. GivenParts(<<>>) \in Seq(Seq(Character)) /\ Len(GivenParts(<<>>)) = 0
      BY <1>3, GivenIs
    <2>2. \A i \in 1 .. Len(GivenParts(<<>>)) : Len(GivenParts(<<>>)[i]) <= 1
      BY <2>1
    <2> DEFINE P == GivenParts(<<>>)
    <2> HIDE DEF P
    <2>3. P \in Seq(Seq(Character)) /\ Len(P) = 0 /\ \A i \in 1 .. Len(P) : Len(P[i]) <= 1
      BY <2>1, <2>2 DEF P
    <2>4. Len(Joined(P)) \in Nat /\ Len(Joined(P)) <= 0
      BY <2>3, JoinedIsShort
    <2>5. QED
      BY <2>4 DEF Given, P
  <1>5. AsString(Given(<<>>))[0] = NUL /\ AllOf(NUL)[0] = NUL
    <2>1. AsString(Given(<<>>))[0] = NUL
      BY <1>3, <1>4, TextFacts
    <2>2. QED
      BY <2>1, StringFacts DEF AllOf
  <1>6. \A i \in 0 .. Len(Given(typed)) : buffCopyArg[i] = AsString(Given(typed))[i]
    BY <1>2, <1>4, <1>5
  <1>7. buffCopyArg \in [Offsets -> Nat]
    BY <1>2 DEF AllOf, NUL
  <1>8. QED
    BY <1>1, <1>2, <1>6, <1>7 DEF NamesInv, ArgumentsHeld
-----------------------------------------------------------------------------
(* Numbers. *)

(* A quotient is smaller than what is divided.                              *)
LEMMA QuotientIs ==
  ASSUME NEW v \in Nat, NEW r \in Nat, r > 1
  PROVE  /\ v \div r \in Nat /\ v % r \in 0 .. (r - 1) /\ v = r * (v \div r) + (v % r)
         /\ v # 0 => v \div r < v
         /\ v \div r = 0 => v % r = v
         /\ \A p \in Nat : v < r * p => v \div r < p
  <1> DEFINE q == v \div r
             m == v % r
  <1>1. q \in Nat /\ m \in 0 .. (r - 1) /\ v = r * q + m
    <2>1. r \in Nat \ {0}
      OBVIOUS
    <2>2. QED
      BY <2>1, DivMod
  <1> HIDE DEF q, m
  <1>2. r * q \in Nat
    BY <1>1
  <1>3. q # 0 => q < v
    <2> SUFFICES ASSUME q # 0 PROVE q < v
      OBVIOUS
    <2>1. q * 2 <= q * r
      BY <1>1, TimesMonotone
    <2>2. q * r = r * q /\ q * 2 = q + q
      BY <1>1
    <2>3. QED
      BY <1>1, <1>2, <2>1, <2>2
  <1>4. q = 0 => m = v
    <2>1. r * 0 = 0
      OBVIOUS
    <2>2. QED
      BY <1>1, <2>1
  <1>5. ASSUME NEW p \in Nat, v < r * p PROVE q < p
    <2> SUFFICES ASSUME ~(q < p) PROVE FALSE
      OBVIOUS
    <2>1. r * p <= r * q
      BY <1>1, TimesMonotone
    <2>2. r * p \in Nat
      OBVIOUS
    <2>3. QED
      BY <1>1, <1>2, <1>5, <2>1, <2>2
  <1>6. v # 0 => q < v
    BY <1>1, <1>3
  <1>7. QED
    BY <1>1, <1>4, <1>5, <1>6 DEF q, m

(* A digit is a character and has its value again.                          *)
LEMMA DigitIs ==
  ASSUME NEW d \in Nat
  PROVE  Digit(d) \in Nat /\ DigitValue(Digit(d)) = d /\ (d # 0 => Digit(d) # Digit(0))
  BY DEF Digit, DigitValue

(* The digits of a number from the lowest on.                               *)
PlaceTurn(f, v, r) == <<Digit(v % r)>> \o f[v \div r]

(* The recursion over the quotients of a number has its values.             *)
LEMMA PlacesRun ==
  ASSUME NEW value \in Nat, NEW r \in Nat, r > 1
  PROVE  \E f \in [0 .. value -> Seq(Nat)] :
           /\ f[0] = Nothing
           /\ \A v \in 1 .. value : f[v] = PlaceTurn(f, v, r)
           /\ PlaceValues(value, r) = f[value]
  <1> DEFINE Turn(f, v) == PlaceTurn(f, v, r)
             Goes(f, k) == f = [v \in 0 .. k |-> IF v = 0 THEN Nothing ELSE Turn(f, v)]
             from == CHOOSE f : Goes(f, value)
             Some == {k \in 0 .. value : \E f : Goes(f, k)}
  <1>1. PlaceValues(value, r) = from[value]
    BY DEF PlaceValues, Nothing, PlaceTurn
  <1>2. \A v \in 1 .. value : v \div r \in 0 .. (v - 1)
    <2> SUFFICES ASSUME NEW v \in 1 .. value PROVE v \div r \in 0 .. (v - 1)
      OBVIOUS
    <2>1. v \in Nat /\ v # 0
      OBVIOUS
    <2>2. v \div r \in Nat /\ v \div r < v
      BY <2>1, QuotientIs
    <2>3. QED
      BY <2>2
  <1>3. \A v \in 1 .. value : \A f, g : f[v \div r] = g[v \div r] => Turn(f, v) = Turn(g, v)
    BY DEF PlaceTurn
  <1>4. \A v \in 1 .. value : \A f : f[v \div r] \in Seq(Nat) => Turn(f, v) \in Seq(Nat)
    <2> SUFFICES ASSUME NEW v \in 1 .. value, NEW f, f[v \div r] \in Seq(Nat)
                 PROVE  Turn(f, v) \in Seq(Nat)
      OBVIOUS
    <2>1. v \in Nat /\ v % r \in Nat
      BY QuotientIs
    <2>2. <<Digit(v % r)>> \in Seq(Nat)
      BY <2>1, DigitIs
    <2>3. QED
      BY <2>2, ConcatProperties DEF PlaceTurn
  <1> HIDE DEF Turn
  <1>5. 0 \in Some
    <2> DEFINE f == [v \in 0 .. 0 |-> Nothing]
    <2>1. Goes(f, 0)
      BY \A v \in 0 .. 0 : v = 0
    <2> HIDE DEF f, Goes
    <2>2. QED
      BY <2>1
  <1>6. ASSUME NEW k \in 1 .. value, k - 1 \in Some PROVE k \in Some
    <2>1. PICK b : Goes(b, k - 1)
      BY <1>6
    <2> DEFINE a == [v \in 0 .. k |-> IF v = k THEN Turn(b, k) ELSE b[v]]
    <2>2. ASSUME NEW v \in 0 .. k PROVE a[v] = IF v = 0 THEN Nothing ELSE Turn(a, v)
      <3>1. \A u \in 0 .. (k - 1) : a[u] = b[u]
        OBVIOUS
      <3>2. v # 0 => v \div r \in 0 .. (v - 1)
        BY <1>2
      <3>3. v # 0 => v \div r \in 0 .. (k - 1)
        BY <3>2
      <3>4. v # 0 => Turn(a, v) = Turn(b, v)
        <4> HIDE DEF a
        <4>1. QED
          BY <1>3, <3>1, <3>3
      <3>5. CASE v = k
        BY <3>4, <3>5
      <3>6. CASE v # k
        <4>1. v \in 0 .. (k - 1)
          BY <3>6
        <4>2. b[v] = IF v = 0 THEN Nothing ELSE Turn(b, v)
          BY <2>1, <4>1
        <4>3. a[v] = b[v]
          BY <3>1, <4>1
        <4> HIDE DEF a
        <4>4. QED
          BY <3>4, <4>2, <4>3
      <3>7. QED
        BY <3>5, <3>6
    <2>3. Goes(a, k)
      <3>1. a = [v \in 0 .. k |-> a[v]]
        OBVIOUS
      <3> HIDE DEF a
      <3>2. QED
        BY <2>2, <3>1
    <2> HIDE DEF a, Goes
    <2>4. QED
      BY <2>3
  <1>7. \A k \in 0 .. value : k \in Some
    <2> HIDE DEF Some
    <2>1. QED
      BY <1>5, <1>6, GoesOn
  <1>8. Goes(from, value)
    <2>1. value \in Some
      BY <1>7
    <2> HIDE DEF Goes
    <2>2. QED
      BY <2>1
  <1> HIDE DEF from, Some
  <1>9. from[0] = Nothing /\ \A v \in 1 .. value : from[v] = Turn(from, v)
    BY <1>8
  <1>10. from = [v \in 0 .. value |-> from[v]]
    BY <1>8
  <1> HIDE DEF Goes
  <1> DEFINE Typed == {k \in 0 .. value : \A v \in 0 .. k : from[v] \in Seq(Nat)}
  <1>11. \A k \in 0 .. value : k \in Typed
    <2>1. 0 \in Typed
      <3>1. \A v \in 0 .. 0 : v = 0
        OBVIOUS
      <3>2. from[0] \in Seq(Nat)
        BY <1>9, EmptySeq DEF Nothing
      <3>3. QED
        BY <3>1, <3>2
    <2>2. ASSUME NEW k \in 1 .. value, k - 1 \in Typed PROVE k \in Typed
      <3>1. k \div r \in 0 .. (k - 1)
        BY <1>2
      <3>2. from[k \div r] \in Seq(Nat)
        BY <2>2, <3>1
      <3>3. from[k] \in Seq(Nat)
        BY <1>4, <1>9, <3>2
      <3>4. \A v \in 0 .. k : v = k \/ v \in 0 .. (k - 1)
        OBVIOUS
      <3>5. QED
        BY <2>2, <3>3, <3>4
    <2> HIDE DEF Typed
    <2>3. QED
      BY <2>1, <2>2, GoesOn
  <1>12. from \in [0 .. value -> Seq(Nat)]
    <2>1. \A v \in 0 .. value : from[v] \in Seq(Nat)
      BY <1>11
    <2>2. QED
      BY <1>10, <2>1
  <1>13. QED
    BY <1>1, <1>9, <1>12 DEF Turn

(* strrev: pairs are swapped from both ends.                                *)
LEMMA SwapLoop ==
  ASSUME NEW s \in Seq(Nat)
  PROVE  \E f \in [0 .. Swaps(s) -> [1 .. Len(s) -> Nat]] :
           /\ f[0] = s
           /\ \A n \in 1 .. Swaps(s) : f[n] = Swapped(f[n - 1], n, Len(s) + 1 - n)
           /\ strrev(s) = f[Swaps(s)]
  <1> DEFINE L == Swaps(s)
             St == [1 .. Len(s) -> Nat]
             m == s
             Turn(p, n) == Swapped(p, n, Len(s) + 1 - n)
             Goes(f) == f = [n \in 0 .. L |-> IF n = 0 THEN m ELSE Turn(f[n - 1], n)]
             loop == CHOOSE f : Goes(f)
  <1>1. strrev(s) = loop[L]
    BY DEF strrev
  <1>2. L \in Nat /\ m \in St
    BY LenProperties DEF Swaps
  <1>3. \A p \in St, n \in 1 .. L : Turn(p, n) \in St
    <2> SUFFICES ASSUME NEW p \in [1 .. Len(s) -> Nat], NEW n \in 1 .. Swaps(s)
                 PROVE  Swapped(p, n, Len(s) + 1 - n) \in [1 .. Len(s) -> Nat]
      OBVIOUS
    <2>1. Len(s) \in Nat
      BY LenProperties
    <2>2. n \in 1 .. Len(s) /\ Len(s) + 1 - n \in 1 .. Len(s)
      BY <2>1 DEF Swaps
    <2>3. QED
      BY <2>2 DEF Swapped
  <1> HIDE DEF L, St, m, Turn
  <1>4. \E f : Goes(f)
    <2> DEFINE T == [n \in 1 .. L |-> [p \in St |-> Turn(p, n)]]
    <2>1. T \in Turns(St, L)
      BY <1>3 DEF Turns
    <2> HIDE DEF T
    <2>2. PICK f : LoopOf(f, St, m, T, L)
      BY <1>2, <2>1, LoopRuns
    <2> USE DEF T
    <2>3. ASSUME NEW n \in 0 .. L PROVE f[n] = IF n = 0 THEN m ELSE Turn(f[n - 1], n)
      <3>1. f \in [0 .. L -> St] /\ f[0] = m
        BY <2>2 DEF LoopOf
      <3>2. CASE n # 0
        <4>1. n \in 1 .. L /\ n - 1 \in 0 .. L
          BY <1>2, <3>2
        <4> HIDE DEF T
        <4>2. f[n] = T[n][f[n - 1]]
          BY <2>2, <4>1 DEF LoopOf
        <4> USE DEF T
        <4>3. f[n - 1] \in St
          BY <3>1, <4>1
        <4> HIDE DEF Goes
        <4>4. QED
          BY <3>2, <4>1, <4>2, <4>3
      <3>3. QED
        BY <3>1, <3>2
    <2>4. f = [n \in 0 .. L |-> f[n]]
      BY <2>2 DEF LoopOf
    <2> HIDE DEF T
    <2>5. QED
      BY <2>3, <2>4
  <1>5. Goes(loop)
    <2> HIDE DEF Goes
    <2>1. QED
      BY <1>4
  <1> HIDE DEF loop
  <1>6. loop[0] = m /\ \A n \in 1 .. L : loop[n] = Turn(loop[n - 1], n)
    BY <1>2, <1>5
  <1>7. loop = [n \in 0 .. L |-> loop[n]]
    BY <1>5
  <1> HIDE DEF Goes
  <1>8. loop \in [0 .. L -> St]
    <2>1. Stays(loop, St, L)
      BY <1>2, <1>3, <1>6, <1>7 DEF Stays
    <2>2. QED
      BY <1>2, <2>1, LoopStays
  <1>9. QED
    BY <1>1, <1>6, <1>8 DEF L, St, m, Turn

(* The value of a numeral, digit by digit.                                  *)
LEMMA ValueLoop ==
  ASSUME NEW s \in Seq(Nat), NEW r \in Nat
  PROVE  \E f \in [0 .. Len(s) -> Int] :
           /\ f[0] = 0
           /\ \A n \in 1 .. Len(s) : f[n] = f[n - 1] * r + DigitValue(s[n])
           /\ ValueOf(s, r) = f[Len(s)]
  <1> DEFINE L == Len(s)
             St == Int
             m == 0
             Turn(p, n) == p * r + DigitValue(s[n])
             Goes(f) == f = [n \in 0 .. L |-> IF n = 0 THEN m ELSE Turn(f[n - 1], n)]
             loop == CHOOSE f : Goes(f)
  <1>1. ValueOf(s, r) = loop[L]
    BY DEF ValueOf
  <1>2. L \in Nat /\ m \in St
    BY LenProperties
  <1>3. \A p \in St, n \in 1 .. L : Turn(p, n) \in St
    <2> SUFFICES ASSUME NEW p \in Int, NEW n \in 1 .. Len(s) PROVE p * r + DigitValue(s[n]) \in Int
      OBVIOUS
    <2>1. s[n] \in Nat
      BY ElementOfSeq
    <2>2. DigitValue(s[n]) \in Int
      BY <2>1 DEF DigitValue
    <2>3. p * r \in Int
      OBVIOUS
    <2>4. QED
      BY <2>2, <2>3
  <1> HIDE DEF L, St, m, Turn
  <1>4. \E f : Goes(f)
    <2> DEFINE T == [n \in 1 .. L |-> [p \in St |-> Turn(p, n)]]
    <2>1. T \in Turns(St, L)
      BY <1>3 DEF Turns
    <2> HIDE DEF T
    <2>2. PICK f : LoopOf(f, St, m, T, L)
      BY <1>2, <2>1, LoopRuns
    <2> USE DEF T
    <2>3. ASSUME NEW n \in 0 .. L PROVE f[n] = IF n = 0 THEN m ELSE Turn(f[n - 1], n)
      <3>1. f \in [0 .. L -> St] /\ f[0] = m
        BY <2>2 DEF LoopOf
      <3>2. CASE n # 0
        <4>1. n \in 1 .. L /\ n - 1 \in 0 .. L
          BY <1>2, <3>2
        <4> HIDE DEF T
        <4>2. f[n] = T[n][f[n - 1]]
          BY <2>2, <4>1 DEF LoopOf
        <4> USE DEF T
        <4>3. f[n - 1] \in St
          BY <3>1, <4>1
        <4> HIDE DEF Goes
        <4>4. QED
          BY <3>2, <4>1, <4>2, <4>3
      <3>3. QED
        BY <3>1, <3>2
    <2>4. f = [n \in 0 .. L |-> f[n]]
      BY <2>2 DEF LoopOf
    <2> HIDE DEF T
    <2>5. QED
      BY <2>3, <2>4
  <1>5. Goes(loop)
    <2> HIDE DEF Goes
    <2>1. QED
      BY <1>4
  <1> HIDE DEF loop
  <1>6. loop[0] = m /\ \A n \in 1 .. L : loop[n] = Turn(loop[n - 1], n)
    BY <1>2, <1>5
  <1>7. loop = [n \in 0 .. L |-> loop[n]]
    BY <1>5
  <1> HIDE DEF Goes
  <1>8. loop \in [0 .. L -> St]
    <2>1. Stays(loop, St, L)
      BY <1>2, <1>3, <1>6, <1>7 DEF Stays
    <2>2. QED
      BY <1>2, <2>1, LoopStays
  <1>9. QED
    BY <1>1, <1>6, <1>8 DEF L, St, m, Turn

Rev(s) == [i \in 1 .. Len(s) |-> s[Len(s) + 1 - i]]

(* strrev reverses.                                                         *)
LEMMA StrrevIs ==
  ASSUME NEW s \in Seq(Nat)
  PROVE  strrev(s) = Rev(s) /\ Rev(s) \in Seq(Nat) /\ Len(Rev(s)) = Len(s)
  <1> DEFINE n == Len(s)
             h == Swaps(s)
  <1>1. n \in Nat /\ h = n \div 2 /\ \A i \in 1 .. n : s[i] \in Nat
    BY LenProperties, ElementOfSeq DEF Swaps
  <1>2. PICK f \in [0 .. h -> [1 .. n -> Nat]] :
          /\ f[0] = s
          /\ \A b \in 1 .. h : f[b] = Swapped(f[b - 1], b, n + 1 - b)
          /\ strrev(s) = f[h]
    BY SwapLoop
  <1> HIDE DEF n, h
  <1>3. h \in Nat /\ (n = h + h \/ n = h + h + 1)
    BY <1>1
  <1> DEFINE Done(b, i) == IF i <= b \/ i >= n + 1 - b THEN s[n + 1 - i] ELSE s[i]
             G == {b \in 0 .. h : \A i \in 1 .. n : f[b][i] = Done(b, i)}
  <1>4. \A b \in 0 .. h : b \in G
    <2>1. 0 \in G
      <3>1. \A i \in 1 .. n : Done(0, i) = s[i]
        BY <1>1
      <3>2. QED
        BY <1>2, <1>3, <3>1
    <2>2. ASSUME NEW b \in 1 .. h, b - 1 \in G PROVE b \in G
      <3> DEFINE e == n + 1 - b
      <3>1. b \in Nat /\ b \in 1 .. n /\ e \in 1 .. n /\ b < e /\ b - 1 \in 0 .. h /\ b \in 0 .. h
        BY <1>1, <1>3
      <3>2. \A i \in 1 .. n : f[b - 1][i] = Done(b - 1, i)
        BY <2>2
      <3>3. f[b] = Swapped(f[b - 1], b, e) /\ f[b - 1] \in [1 .. n -> Nat]
        BY <1>2, <3>1
      <3> HIDE DEF Done, G
      <3>4. ASSUME NEW i \in 1 .. n PROVE f[b][i] = Done(b, i)
        <4>1. f[b][i] = IF i = e THEN f[b - 1][b] ELSE IF i = b THEN f[b - 1][e] ELSE f[b - 1][i]
          BY <3>1, <3>3 DEF Swapped
        <4>2. f[b - 1][b] = Done(b - 1, b) /\ f[b - 1][e] = Done(b - 1, e) /\ f[b - 1][i] = Done(b - 1, i)
          BY <3>1, <3>2
        <4>3. Done(b - 1, b) = s[b] /\ Done(b - 1, e) = s[e]
          BY <1>1, <3>1 DEF Done
        <4>4. CASE i = e
          <5>1. n + 1 - i = b
            BY <1>1, <3>1, <4>4
          <5>2. Done(b, i) = s[b]
            BY <1>1, <3>1, <4>4, <5>1 DEF Done
          <5>3. QED
            BY <4>1, <4>2, <4>3, <4>4, <5>2
        <4>5. CASE i = b
          <5>1. Done(b, i) = s[e] /\ i # e
            BY <1>1, <3>1, <4>5 DEF Done
          <5>2. QED
            BY <4>1, <4>2, <4>3, <4>5, <5>1
        <4>6. CASE i # b /\ i # e
          <5>1. Done(b, i) = Done(b - 1, i)
            <6>1. (i <= b \/ i >= n + 1 - b) <=> (i <= b - 1 \/ i >= n + 1 - (b - 1))
              BY <1>1, <3>1, <4>6
            <6>2. QED
              BY <6>1 DEF Done
          <5>2. QED
            BY <4>1, <4>2, <4>6, <5>1
        <4>7. QED
          BY <4>4, <4>5, <4>6
      <3>5. QED
        BY <3>1, <3>4 DEF G
    <2> HIDE DEF G
    <2>3. QED
      BY <1>3, <2>1, <2>2, GoesOn
  <1>5. \A i \in 1 .. n : f[h][i] = s[n + 1 - i]
    <2> SUFFICES ASSUME NEW i \in 1 .. n PROVE f[h][i] = s[n + 1 - i]
      OBVIOUS
    <2>1. f[h][i] = Done(h, i)
      BY <1>3, <1>4
    <2>2. CASE i <= h \/ i >= n + 1 - h
      BY <2>1, <2>2
    <2>3. CASE ~(i <= h \/ i >= n + 1 - h)
      <3>1. i = n + 1 - i
        BY <1>1, <1>3, <2>3
      <3>2. f[h][i] = s[i]
        BY <2>1, <2>3
      <3>3. QED
        BY <3>1, <3>2
    <2>4. QED
      BY <2>2, <2>3
  <1>6. f[h] \in [1 .. n -> Nat]
    BY <1>3
  <1>7. f[h] = Rev(s)
    BY <1>5, <1>6 DEF Rev, n
  <1>8. Rev(s) \in Seq(Nat) /\ Len(Rev(s)) = n
    BY <1>1, <1>6, <1>7
  <1>9. QED
    BY <1>2, <1>7, <1>8 DEF n

(* Two texts one after the other.                                           *)
LEMMA Concatenated ==
  ASSUME NEW a \in Seq(Nat), NEW b \in Seq(Nat)
  PROVE  /\ a \o b \in Seq(Nat)
         /\ Len(a \o b) = Len(a) + Len(b)
         /\ \A i \in 1 .. Len(a) + Len(b) :
               (a \o b)[i] = IF i <= Len(a) THEN a[i] ELSE b[i - Len(a)]
  BY ConcatProperties

(* One character in front of a text.                                        *)
LEMMA InFront ==
  ASSUME NEW d \in Nat, NEW s \in Seq(Nat)
  PROVE  /\ <<d>> \o s \in Seq(Nat)
         /\ Len(s) \in Nat
         /\ Len(<<d>> \o s) = 1 + Len(s)
         /\ \A i \in 1 .. 1 + Len(s) :
               (<<d>> \o s)[i] = IF i <= 1 THEN d ELSE s[i - 1]
  <1> DEFINE u == <<d>>
  <1>1. u \in Seq(Nat) /\ Len(u) = 1 /\ u[1] = d
    OBVIOUS
  <1>2. Len(s) \in Nat
    BY LenProperties
  <1> HIDE DEF u
  <1>3. /\ u \o s \in Seq(Nat)
        /\ Len(u \o s) = Len(u) + Len(s)
        /\ \A i \in 1 .. Len(u) + Len(s) :
              (u \o s)[i] = IF i <= Len(u) THEN u[i] ELSE s[i - Len(u)]
    BY <1>1, Concatenated, Zenon
  <1>4. ASSUME NEW i \in 1 .. 1 + Len(s)
        PROVE  (u \o s)[i] = IF i <= 1 THEN d ELSE s[i - 1]
    <2>1. (u \o s)[i] = IF i <= 1 THEN u[i] ELSE s[i - 1]
      BY <1>1, <1>3
    <2>2. i <= 1 => i = 1
      BY <1>2
    <2>3. QED
      BY <1>1, <2>1, <2>2
  <1>5. QED
    BY <1>1, <1>2, <1>3, <1>4 DEF u

(* What was in front is at the end when it is reversed.                     *)
LEMMA RevOfCons ==
  ASSUME NEW d \in Nat, NEW s \in Seq(Nat)
  PROVE  Rev(<<d>> \o s) = Append(Rev(s), d)
  <1> DEFINE t == <<d>> \o s
             n == Len(s)
  <1>2. n \in Nat
    BY LenProperties
  <1>3. /\ t \in Seq(Nat) /\ Len(t) = 1 + n
        /\ \A i \in 1 .. (1 + n) : t[i] = IF i <= 1 THEN d ELSE s[i - 1]
    BY InFront
  <1> HIDE DEF t
  <1>4. Rev(s) \in Seq(Nat) /\ Len(Rev(s)) = n /\ Rev(t) \in Seq(Nat) /\ Len(Rev(t)) = 1 + n
    BY <1>3, StrrevIs
  <1>5. /\ Append(Rev(s), d) \in Seq(Nat) /\ Len(Append(Rev(s), d)) = n + 1
        /\ Append(Rev(s), d)[n + 1] = d
        /\ \A i \in 1 .. n : Append(Rev(s), d)[i] = Rev(s)[i]
    BY <1>4, AppendProperties
  <1>6. ASSUME NEW i \in 1 .. (1 + n) PROVE Rev(t)[i] = Append(Rev(s), d)[i]
    <2>1. Rev(t)[i] = t[1 + n + 1 - i]
      BY <1>3 DEF Rev
    <2>2. 1 + n + 1 - i \in 1 .. (1 + n)
      BY <1>2
    <2>3. t[1 + n + 1 - i] = IF 1 + n + 1 - i <= 1 THEN d ELSE s[1 + n + 1 - i - 1]
      <3>1. ASSUME NEW j \in 1 .. (1 + n) PROVE t[j] = IF j <= 1 THEN d ELSE s[j - 1]
        BY <1>3
      <3>2. QED
        BY <2>2, <3>1
    <2>4. CASE i = n + 1
      <3>1. 1 + n + 1 - i <= 1
        BY <1>2, <2>4
      <3>2. QED
        BY <1>5, <2>1, <2>3, <2>4, <3>1
    <2>5. CASE i # n + 1
      <3>1. ~(1 + n + 1 - i <= 1) /\ 1 + n + 1 - i - 1 = n + 1 - i /\ i \in 1 .. n
        BY <1>2, <2>5
      <3>2. Rev(s)[i] = s[n + 1 - i]
        BY <3>1 DEF Rev
      <3>3. QED
        BY <1>5, <2>1, <2>3, <3>1, <3>2
    <2>6. QED
      BY <2>4, <2>5
  <1>7. Rev(t) = Append(Rev(s), d)
    <2>1. Len(Rev(t)) = 1 + n /\ Len(Append(Rev(s), d)) = 1 + n
      BY <1>2, <1>4, <1>5
    <2>2. QED
      BY <1>4, <1>5, <1>6, <2>1, SeqEqual
  <1>8. QED
    BY <1>7 DEF t

(* A further digit multiplies the value by the radix.                       *)
LEMMA ValueOfAppend ==
  ASSUME NEW s \in Seq(Nat), NEW d \in Nat, NEW r \in Nat
  PROVE  ValueOf(Append(s, d), r) = ValueOf(s, r) * r + DigitValue(d)
  <1> DEFINE n == Len(s)
             t == Append(s, d)
  <1>1. /\ n \in Nat /\ t \in Seq(Nat) /\ Len(t) = n + 1 /\ t[n + 1] = d
        /\ \A i \in 1 .. n : t[i] = s[i]
    BY LenProperties, AppendProperties
  <1>2. PICK g \in [0 .. Len(t) -> Int] :
          /\ g[0] = 0
          /\ \A i \in 1 .. Len(t) : g[i] = g[i - 1] * r + DigitValue(t[i])
          /\ ValueOf(t, r) = g[Len(t)]
    <2> HIDE DEF t
    <2>1. QED
      BY <1>1, ValueLoop
  <1>3. PICK f \in [0 .. n -> Int] :
          /\ f[0] = 0
          /\ \A i \in 1 .. n : f[i] = f[i - 1] * r + DigitValue(s[i])
          /\ ValueOf(s, r) = f[n]
    BY ValueLoop
  <1> HIDE DEF n, t
  <1> DEFINE G == {i \in 0 .. n : g[i] = f[i]}
  <1>4. 0 \in G
    BY <1>1, <1>2, <1>3
  <1>5. ASSUME NEW i \in 1 .. n, i - 1 \in G PROVE i \in G
    <2>1. g[i - 1] = f[i - 1] /\ i \in 1 .. Len(t) /\ t[i] = s[i] /\ i \in 0 .. n
      <3>1. g[i - 1] = f[i - 1]
        BY <1>5
      <3>2. t[i] = s[i] /\ i \in 0 .. n
        BY <1>1
      <3>3. i \in 1 .. Len(t)
        BY <1>1
      <3>4. QED
        BY <3>1, <3>2, <3>3
    <2>2. g[i] = g[i - 1] * r + DigitValue(t[i])
      BY <1>2, <2>1
    <2>3. f[i] = f[i - 1] * r + DigitValue(s[i])
      BY <1>3
    <2>4. g[i] = f[i]
      BY <2>1, <2>2, <2>3
    <2>5. QED
      BY <2>1, <2>4
  <1>6. n \in G
    <2> HIDE DEF G
    <2>1. \A i \in 0 .. n : i \in G
      BY <1>1, <1>4, <1>5, GoesOn
    <2>2. QED
      BY <1>1, <2>1
  <1>7. g[n + 1] = g[n] * r + DigitValue(d)
    <2> DEFINE m == n + 1
    <2>1. m \in 1 .. Len(t) /\ m - 1 = n /\ t[m] = d
      BY <1>1
    <2> HIDE DEF m
    <2>2. g[m] = g[m - 1] * r + DigitValue(t[m])
      BY <1>2, <2>1
    <2>3. g[m] = g[n] * r + DigitValue(d)
      BY <2>1, <2>2
    <2>4. QED
      BY <2>3 DEF m
  <1>8. ValueOf(t, r) = g[n + 1] /\ ValueOf(s, r) = g[n]
    BY <1>1, <1>2, <1>3, <1>6
  <1>9. QED
    BY <1>7, <1>8 DEF t

(* Zeros in front change no value.                                          *)
Zeros(z) == [k \in 1 .. z |-> Digit(0)]

(* Zeros in front are a sequence of digits.                                 *)
LEMMA ZerosAre ==
  ASSUME NEW z \in Nat, NEW s \in Seq(Nat)
  PROVE  /\ Zeros(z) \o s \in Seq(Nat) /\ Len(Zeros(z) \o s) = z + Len(s)
         /\ \A i \in 1 .. z : (Zeros(z) \o s)[i] = Digit(0)
         /\ \A i \in 1 .. Len(s) : (Zeros(z) \o s)[z + i] = s[i]
  <1> DEFINE o == Zeros(z)
             n == Len(s)
  <1>1. o \in Seq(Nat) /\ Len(o) = z /\ \A i \in 1 .. z : o[i] = Digit(0)
    BY DigitIs DEF Zeros
  <1>2. n \in Nat
    BY LenProperties
  <1> HIDE DEF o
  <1>3. o \o s \in Seq(Nat) /\ Len(o \o s) = z + n
    BY <1>1, ConcatProperties
  <1>4. \A i \in 1 .. (Len(o) + Len(s)) : (o \o s)[i] = IF i <= Len(o) THEN o[i] ELSE s[i - Len(o)]
    BY <1>1, ConcatProperties
  <1>5. ASSUME NEW i \in 1 .. z PROVE (o \o s)[i] = Digit(0)
    <2>1. i \in 1 .. (Len(o) + Len(s)) /\ i <= Len(o)
      BY <1>1, <1>2
    <2>2. QED
      BY <1>1, <1>4, <2>1
  <1>6. ASSUME NEW i \in 1 .. n PROVE (o \o s)[z + i] = s[i]
    <2> DEFINE j == z + i
    <2>1. j \in 1 .. (Len(o) + Len(s)) /\ ~(j <= Len(o)) /\ j - Len(o) = i
      BY <1>1, <1>2
    <2> HIDE DEF j
    <2>2. (o \o s)[j] = s[i]
      BY <1>4, <2>1
    <2>3. QED
      BY <2>2 DEF j
  <1>7. QED
    BY <1>3, <1>5, <1>6 DEF o

(* And they do not change the value.                                        *)
LEMMA ValueOfZeros ==
  ASSUME NEW z \in Nat, NEW s \in Seq(Nat), NEW r \in Nat
  PROVE  ValueOf(Zeros(z) \o s, r) = ValueOf(s, r)
  <1> DEFINE n == Len(s)
             t == Zeros(z) \o s
  <1>1. /\ n \in Nat /\ t \in Seq(Nat) /\ Len(t) = z + n
        /\ \A i \in 1 .. z : t[i] = Digit(0)
        /\ \A i \in 1 .. n : t[z + i] = s[i]
    BY ZerosAre, LenProperties
  <1> HIDE DEF t
  <1>2. PICK g \in [0 .. Len(t) -> Int] :
          /\ g[0] = 0
          /\ \A i \in 1 .. Len(t) : g[i] = g[i - 1] * r + DigitValue(t[i])
          /\ ValueOf(t, r) = g[Len(t)]
    BY <1>1, ValueLoop
  <1>3. PICK f \in [0 .. n -> Int] :
          /\ f[0] = 0
          /\ \A i \in 1 .. n : f[i] = f[i - 1] * r + DigitValue(s[i])
          /\ ValueOf(s, r) = f[n]
    BY ValueLoop
  <1> HIDE DEF n
  <1> DEFINE Skipped == {i \in 0 .. z : g[i] = 0}
             Back == {i \in 0 .. n : g[z + i] = f[i]}
  <1>4. \A i \in 0 .. z : i \in Skipped
    <2>1. 0 \in Skipped
      BY <1>2
    <2>2. ASSUME NEW i \in 1 .. z, i - 1 \in Skipped PROVE i \in Skipped
      <3>1. i \in 1 .. Len(t) /\ g[i - 1] = 0 /\ t[i] = Digit(0)
        BY <1>1, <2>2
      <3>2. g[i] = 0 * r + 0
        <4>1. g[i] = g[i - 1] * r + DigitValue(t[i])
          BY <1>2, <3>1
        <4>2. DigitValue(Digit(0)) = 0
          BY DigitIs
        <4>3. QED
          BY <3>1, <4>1, <4>2
      <3>3. 0 * r + 0 = 0
        OBVIOUS
      <3>4. QED
        BY <3>2, <3>3
    <2> HIDE DEF Skipped
    <2>3. QED
      BY <2>1, <2>2, GoesOn
  <1>5. \A i \in 0 .. n : i \in Back
    <2>1. 0 \in Back
      <3>1. z \in Skipped /\ z + 0 = z
        BY <1>4
      <3>2. QED
        BY <1>1, <1>3, <3>1
    <2>2. ASSUME NEW i \in 1 .. n, i - 1 \in Back PROVE i \in Back
      <3>1. g[z + (i - 1)] = f[i - 1] /\ i \in 0 .. n
        BY <1>1, <2>2
      <3>2. f[i] = f[i - 1] * r + DigitValue(s[i])
        BY <1>3
      <3>3. ASSUME NEW j \in 1 .. Len(t), j = z + i PROVE g[j] = f[i]
        <4>1. j - 1 = z + (i - 1) /\ t[j] = s[i]
          <5>1. j - 1 = z + (i - 1)
            BY <1>1, <3>3
          <5>2. t[z + i] = s[i]
            BY <1>1
          <5>3. QED
            BY <3>3, <5>1, <5>2
        <4>2. g[j] = g[j - 1] * r + DigitValue(t[j])
          BY <1>2
        <4>3. g[j - 1] = f[i - 1]
          BY <3>1, <4>1
        <4>4. QED
          BY <3>2, <4>1, <4>2, <4>3
      <3>4. z + i \in 1 .. Len(t)
        <4> DEFINE M == Len(t)
        <4>1. n \in Nat /\ M = z + n
          BY <1>1
        <4> HIDE DEF M
        <4>2. z + i \in 1 .. M
          BY <4>1
        <4>3. QED
          BY <4>2 DEF M
      <3>5. QED
        BY <3>1, <3>3, <3>4
    <2> HIDE DEF Back
    <2>3. QED
      BY <1>1, <2>1, <2>2, GoesOn
  <1>6. n \in Back
    BY <1>1, <1>5
  <1>7. ValueOf(t, r) = ValueOf(s, r)
    BY <1>1, <1>2, <1>3, <1>6
  <1>8. QED
    BY <1>7 DEF t

(* The numeral that itoa makes of a number that is not zero.                *)
IsPlaces(s, v, r) ==
  /\ s \in Seq(Nat)
  /\ ValueOf(Rev(s), r) = v
  /\ v = 0 <=> Len(s) = 0
  /\ v # 0 => s[Len(s)] # Digit(0)

(* The number 0 has no places.                                              *)
LEMMA NoPlaces ==
  ASSUME NEW r \in Nat
  PROVE  IsPlaces(Nothing, 0, r)
  <1> DEFINE s == Nothing
  <1>1. s \in Seq(Nat) /\ Len(s) = 0
    BY EmptySeq DEF Nothing
  <1> HIDE DEF s
  <1>2. Rev(s) \in Seq(Nat) /\ Len(Rev(s)) = 0
    BY <1>1, StrrevIs
  <1>3. ValueOf(Rev(s), r) = 0
    <2> DEFINE t == Rev(s)
    <2> HIDE DEF t
    <2>1. t \in Seq(Nat) /\ Len(t) = 0
      BY <1>2 DEF t
    <2>2. PICK f \in [0 .. Len(t) -> Int] : f[0] = 0 /\ ValueOf(t, r) = f[Len(t)]
      BY <2>1, ValueLoop
    <2>3. QED
      BY <2>1, <2>2 DEF t
  <1>4. QED
    BY <1>1, <1>3 DEF IsPlaces, s

(* A number has one place more than its quotient.                           *)
LEMMA MorePlaces ==
  ASSUME NEW r \in Nat, r > 1, NEW v \in Nat \ {0}, NEW s, IsPlaces(s, v \div r, r)
  PROVE  IsPlaces(<<Digit(v % r)>> \o s, v, r)
  <1> DEFINE q == v \div r
             m == v % r
             d == Digit(m)
             t == <<d>> \o s
  <1>1. q \in Nat /\ m \in 0 .. (r - 1) /\ v = r * q + m /\ (q = 0 => m = v)
    BY QuotientIs
  <1>2. s \in Seq(Nat) /\ ValueOf(Rev(s), r) = q /\ (q = 0 <=> Len(s) = 0) /\ (q # 0 => s[Len(s)] # Digit(0))
    BY DEF IsPlaces
  <1> HIDE DEF q, m
  <1>3. m \in Nat /\ d \in Nat /\ DigitValue(d) = m /\ (m # 0 => d # Digit(0))
    BY <1>1, DigitIs
  <1> HIDE DEF d
  <1>4. Rev(t) = Append(Rev(s), d)
    BY <1>2, <1>3, RevOfCons
  <1>5. ValueOf(Rev(t), r) = v
    <2>1. Rev(s) \in Seq(Nat)
      BY <1>2, StrrevIs
    <2>2. ValueOf(Rev(t), r) = q * r + m
      BY <1>2, <1>3, <1>4, <2>1, ValueOfAppend
    <2>3. q * r = r * q
      BY <1>1
    <2>4. QED
      BY <1>1, <2>2, <2>3
  <1>6. /\ t \in Seq(Nat) /\ Len(t) = 1 + Len(s) /\ Len(s) \in Nat
        /\ t[1] = d /\ (Len(s) # 0 => t[Len(t)] = s[Len(s)])
    <2> DEFINE u == <<d>>
    <2>1. u \in Seq(Nat) /\ Len(u) = 1 /\ u[1] = d
      BY <1>3
    <2> HIDE DEF u
    <2>2. Len(s) \in Nat
      BY <1>2, LenProperties
    <2>3. u \o s \in Seq(Nat) /\ Len(u \o s) = 1 + Len(s)
      <3>1. u \o s \in Seq(Nat) /\ Len(u \o s) = Len(u) + Len(s)
        BY <1>2, <2>1, ConcatProperties
      <3>2. QED
        BY <2>1, <3>1
    <2>4. \A i \in 1 .. (Len(u) + Len(s)) : (u \o s)[i] = IF i <= Len(u) THEN u[i] ELSE s[i - Len(u)]
      BY <1>2, <2>1, ConcatProperties
    <2>5. (u \o s)[1] = d
      <3>1. 1 \in 1 .. (Len(u) + Len(s)) /\ 1 <= Len(u)
        BY <2>1, <2>2
      <3>2. QED
        BY <2>1, <2>4, <3>1
    <2>6. ASSUME Len(s) # 0, NEW i, i = 1 + Len(s) PROVE (u \o s)[i] = s[Len(s)]
      <3>1. i \in 1 .. (Len(u) + Len(s)) /\ ~(i <= Len(u)) /\ i - Len(u) = Len(s)
        BY <2>1, <2>2, <2>6
      <3>2. QED
        BY <2>4, <3>1
    <2>7. t = u \o s
      BY DEF u
    <2> HIDE DEF t
    <2>8. QED
      BY <2>2, <2>3, <2>5, <2>6, <2>7
  <1> HIDE DEF t
  <1>7. Len(t) # 0 /\ t[Len(t)] # Digit(0)
    <2>1. CASE Len(s) = 0
      <3>1. q = 0 /\ m # 0
        BY <1>1, <1>2, <2>1
      <3>2. Len(t) = 1 /\ t[1] # Digit(0)
        BY <1>3, <1>6, <2>1, <3>1
      <3>3. QED
        BY <3>2
    <2>2. CASE Len(s) # 0
      <3>1. q # 0
        BY <1>2, <2>2
      <3>2. QED
        BY <1>2, <1>6, <2>2, <3>1
    <2>3. QED
      BY <2>1, <2>2
  <1>8. QED
    BY <1>5, <1>6, <1>7 DEF IsPlaces, t, d, m

(* itoa writes a numeral of its value.                                      *)
LEMMA ItoaIs ==
  ASSUME NEW value \in Nat, NEW r \in Nat, r > 1
  PROVE  itoa(value, r) \in Seq(Nat) /\ IsNumeral(itoa(value, r), value, r)
  <1>1. PICK f \in [0 .. value -> Seq(Nat)] :
          /\ f[0] = Nothing
          /\ \A v \in 1 .. value : f[v] = PlaceTurn(f, v, r)
          /\ PlaceValues(value, r) = f[value]
    BY PlacesRun
  <1> DEFINE Bad == {v \in 0 .. value : ~IsPlaces(f[v], v, r)}
  <1>2. Bad = {}
    <2> SUFFICES ASSUME Bad # {} PROVE FALSE
      OBVIOUS
    <2>1. Bad \in SUBSET Nat
      OBVIOUS
    <2>2. PICK v \in Bad : \A u \in Bad : v <= u
      <3> HIDE DEF Bad
      <3>1. QED
        BY <2>1, LeastNat
    <2>3. v \in 0 .. value /\ ~IsPlaces(f[v], v, r)
      OBVIOUS
    <2>4. v # 0
      BY <1>1, <2>3, NoPlaces
    <2>5. v \in 1 .. value /\ v \in Nat \ {0}
      BY <2>3, <2>4
    <2>6. v \div r \in 0 .. value /\ v \div r < v
      <3>1. v \div r \in Nat /\ v \div r < v
        BY <2>5, QuotientIs
      <3>2. QED
        BY <2>5, <3>1
    <2>7. IsPlaces(f[v \div r], v \div r, r)
      <3>1. ~(v <= v \div r)
        BY <2>5, <2>6
      <3>2. QED
        BY <2>2, <2>6, <3>1
    <2>8. IsPlaces(PlaceTurn(f, v, r), v, r)
      BY <2>5, <2>7, MorePlaces DEF PlaceTurn
    <2>9. QED
      BY <1>1, <2>3, <2>5, <2>8
  <1>3. IsPlaces(PlaceValues(value, r), value, r)
    <2>1. value \in 0 .. value
      OBVIOUS
    <2>2. IsPlaces(f[value], value, r)
      BY <1>2, <2>1
    <2>3. QED
      BY <1>1, <2>2
  <1>4. CASE value = 0
    <2> DEFINE z == <<Digit(0)>>
    <2>1. z \in Seq(Nat) /\ Len(z) = 1 /\ z[1] = Digit(0) /\ z # <<>>
      BY DigitIs
    <2>2. itoa(value, r) = z
      BY <1>4 DEF itoa
    <2>3. ValueOf(z, r) = 0
      <3> HIDE DEF z
      <3>1. PICK h \in [0 .. Len(z) -> Int] :
              /\ h[0] = 0
              /\ \A i \in 1 .. Len(z) : h[i] = h[i - 1] * r + DigitValue(z[i])
              /\ ValueOf(z, r) = h[Len(z)]
        BY <2>1, ValueLoop
      <3>2. h[1] = 0 * r + 0
        <4>1. 1 \in 1 .. Len(z) /\ 1 - 1 = 0
          BY <2>1
        <4>2. h[1] = h[1 - 1] * r + DigitValue(z[1])
          BY <3>1, <4>1
        <4>3. QED
          BY <2>1, <3>1, <4>1, <4>2, DigitIs
      <3>3. 0 * r + 0 = 0
        OBVIOUS
      <3>4. QED
        BY <2>1, <3>1, <3>2, <3>3
    <2>4. QED
      BY <1>4, <2>1, <2>2, <2>3 DEF IsNumeral
  <1>5. CASE value # 0
    <2> DEFINE s == PlaceValues(value, r)
               t == Rev(s)
    <2>1. s \in Seq(Nat) /\ ValueOf(t, r) = value /\ Len(s) # 0 /\ s[Len(s)] # Digit(0)
      BY <1>3, <1>5 DEF IsPlaces
    <2>2. itoa(value, r) = strrev(s)
      BY <1>5 DEF itoa
    <2> HIDE DEF s
    <2>3. strrev(s) = t /\ t \in Seq(Nat) /\ Len(t) = Len(s) /\ Len(s) \in Nat
      BY <2>1, StrrevIs, LenProperties
    <2>4. t[1] = s[Len(s)]
      <3>1. 1 \in 1 .. Len(s) /\ Len(s) + 1 - 1 = Len(s)
        BY <2>1, <2>3
      <3>2. t[1] = s[Len(s) + 1 - 1]
        BY <3>1 DEF Rev
      <3>3. QED
        BY <3>1, <3>2
    <2> HIDE DEF t
    <2>5. t # <<>> /\ Head(t) = t[1]
      BY <2>1, <2>3, EmptySeq
    <2>6. Head(t) # Digit(0)
      BY <2>1, <2>4, <2>5
    <2>7. QED
      BY <2>1, <2>2, <2>3, <2>5, <2>6 DEF IsNumeral
  <1>6. QED
    BY <1>4, <1>5

(* The powers of HEX.                                                        *)
LEMMA PowerLoop ==
  \E f \in [0 .. HEX_DIGITS -> Nat] :
    /\ f[0] = 1
    /\ \A n \in 1 .. HEX_DIGITS : f[n] = HEX * f[n - 1]
    /\ WORD = f[HEX_DIGITS]
  <1> DEFINE L == HEX_DIGITS
             St == Nat
             m == 1
             Turn(p, n) == HEX * p
             Goes(f) == f = [n \in 0 .. L |-> IF n = 0 THEN m ELSE Turn(f[n - 1], n)]
             loop == CHOOSE f : Goes(f)
  <1>1. WORD = loop[L]
    BY DEF WORD
  <1>2. L \in Nat /\ m \in St
    BY ConsoleAssumption
  <1>3. \A p \in St, n \in 1 .. L : Turn(p, n) \in St
    <2>1. HEX \in Nat
      BY ConsoleAssumption
    <2>2. QED
      BY <2>1
  <1> HIDE DEF L, St, m, Turn
  <1>4. \E f : Goes(f)
    <2> DEFINE T == [n \in 1 .. L |-> [p \in St |-> Turn(p, n)]]
    <2>1. T \in Turns(St, L)
      BY <1>3 DEF Turns
    <2> HIDE DEF T
    <2>2. PICK f : LoopOf(f, St, m, T, L)
      BY <1>2, <2>1, LoopRuns
    <2> USE DEF T
    <2>3. ASSUME NEW n \in 0 .. L PROVE f[n] = IF n = 0 THEN m ELSE Turn(f[n - 1], n)
      <3>1. f \in [0 .. L -> St] /\ f[0] = m
        BY <2>2 DEF LoopOf
      <3>2. CASE n # 0
        <4>1. n \in 1 .. L /\ n - 1 \in 0 .. L
          BY <1>2, <3>2
        <4> HIDE DEF T
        <4>2. f[n] = T[n][f[n - 1]]
          BY <2>2, <4>1 DEF LoopOf
        <4> USE DEF T
        <4>3. f[n - 1] \in St
          BY <3>1, <4>1
        <4> HIDE DEF Goes
        <4>4. QED
          BY <3>2, <4>1, <4>2, <4>3
      <3>3. QED
        BY <3>1, <3>2
    <2>4. f = [n \in 0 .. L |-> f[n]]
      BY <2>2 DEF LoopOf
    <2> HIDE DEF T
    <2>5. QED
      BY <2>3, <2>4
  <1>5. Goes(loop)
    <2> HIDE DEF Goes
    <2>1. QED
      BY <1>4
  <1> HIDE DEF loop
  <1>6. loop[0] = m /\ \A n \in 1 .. L : loop[n] = Turn(loop[n - 1], n)
    BY <1>2, <1>5
  <1>7. loop = [n \in 0 .. L |-> loop[n]]
    BY <1>5
  <1> HIDE DEF Goes
  <1>8. loop \in [0 .. L -> St]
    <2>1. Stays(loop, St, L)
      BY <1>2, <1>3, <1>6, <1>7 DEF Stays
    <2>2. QED
      BY <1>2, <2>1, LoopStays
  <1>9. QED
    BY <1>1, <1>6, <1>8 DEF L, St, m, Turn

(* A numeral of a number below a power of the radix has so few digits.      *)
LEMMA NumeralFits ==
  ASSUME NEW value \in Nat, NEW r \in Nat, r > 1, NEW d \in Nat \ {0}, NEW f \in [0 .. d -> Nat],
         f[0] = 1, \A n \in 1 .. d : f[n] = r * f[n - 1], value < f[d]
  PROVE  Len(itoa(value, r)) \in Nat /\ Len(itoa(value, r)) <= d
  <1>1. PICK g \in [0 .. value -> Seq(Nat)] :
          /\ g[0] = Nothing
          /\ \A v \in 1 .. value : g[v] = PlaceTurn(g, v, r)
          /\ PlaceValues(value, r) = g[value]
    BY PlacesRun
  <1> DEFINE G == {n \in 0 .. d : \A v \in 0 .. value : v < f[n] => Len(g[v]) <= n}
  <1>2. Len(g[0]) = 0
    BY <1>1 DEF Nothing
  <1>3. 0 \in G
    <2>1. \A v \in 0 .. value : v < f[0] => v = 0
      OBVIOUS
    <2>2. QED
      BY <1>2, <2>1
  <1>4. ASSUME NEW n \in 1 .. d, n - 1 \in G PROVE n \in G
    <2>1. ASSUME NEW v \in 0 .. value, v < f[n] PROVE Len(g[v]) <= n
      <3>1. CASE v = 0
        BY <1>2, <3>1
      <3>2. CASE v # 0
        <4> DEFINE q == v \div r
                   p == f[n - 1]
                   c == Digit(v % r)
        <4>1. p \in Nat /\ f[n] = r * p
          OBVIOUS
        <4> HIDE DEF p
        <4>2. v \in Nat /\ v < r * p
          BY <2>1, <4>1
        <4>3. q \in Nat /\ q < p /\ q < v /\ v % r \in Nat
          <5>1. q \in Nat /\ v % r \in 0 .. (r - 1) /\ (v # 0 => q < v)
            BY <4>2, QuotientIs
          <5>2. \A x \in Nat : v < r * x => q < x
            BY <4>2, QuotientIs
          <5> HIDE DEF q
          <5>3. q < p
            BY <4>1, <4>2, <5>2
          <5>4. v % r \in Nat
            BY <5>1
          <5>5. QED
            BY <3>2, <5>1, <5>3, <5>4
        <4>4. c \in Nat
          BY <4>3, DigitIs
        <4>5. g[v] = PlaceTurn(g, v, r)
          BY <1>1, <3>2
        <4> HIDE DEF q, c
        <4>6. q \in 0 .. value
          BY <4>2, <4>3
        <4>7. Len(g[q]) <= n - 1 /\ g[q] \in Seq(Nat)
          BY <1>4, <4>3, <4>6 DEF p
        <4>8. Len(<<c>> \o g[q]) = 1 + Len(g[q]) /\ Len(g[q]) \in Nat
          BY <4>4, <4>7, InFront, Zenon
        <4>9. g[v] = <<c>> \o g[q]
          BY <4>5 DEF PlaceTurn, c, q
        <4>10. Len(g[v]) = 1 + Len(g[q])
          BY <4>8, <4>9
        <4>11. QED
          BY <4>7, <4>8, <4>10
      <3>3. QED
        BY <3>1, <3>2
    <2>2. QED
      BY <2>1
  <1>5. \A n \in 0 .. d : n \in G
    <2> HIDE DEF G
    <2>1. QED
      BY <1>3, <1>4, GoesOn
  <1>6. Len(g[value]) <= d
    <2>1. d \in G /\ value \in 0 .. value
      BY <1>5
    <2>2. QED
      BY <2>1
  <1>7. CASE value = 0
    <2>1. Len(itoa(value, r)) = 1
      BY <1>7 DEF itoa
    <2>2. QED
      BY <2>1
  <1>8. CASE value # 0
    <2> DEFINE s == PlaceValues(value, r)
    <2>1. s \in Seq(Nat) /\ Len(s) <= d
      BY <1>1, <1>6
    <2>2. itoa(value, r) = strrev(s)
      BY <1>8 DEF itoa
    <2> HIDE DEF s
    <2>3. strrev(s) = Rev(s) /\ Len(Rev(s)) = Len(s) /\ Len(s) \in Nat
      BY <2>1, StrrevIs, LenProperties
    <2>4. QED
      BY <2>1, <2>2, <2>3
  <1>9. QED
    BY <1>7, <1>8

(* Every word has HEX_DIGITS digits at most.                                *)
LEMMA WordIs ==
  /\ WORD \in Nat /\ WORD >= 2
  /\ \A w \in Words : Len(itoa(w, HEX)) \in Nat /\ Len(itoa(w, HEX)) <= HEX_DIGITS
  <1>1. HEX \in Nat /\ HEX > 1 /\ HEX_DIGITS \in Nat \ {0}
    BY ConsoleAssumption
  <1>2. PICK f \in [0 .. HEX_DIGITS -> Nat] :
          f[0] = 1 /\ (\A n \in 1 .. HEX_DIGITS : f[n] = HEX * f[n - 1]) /\ WORD = f[HEX_DIGITS]
    BY PowerLoop
  <1> DEFINE G == {n \in 0 .. HEX_DIGITS : f[n] >= 1 /\ (n # 0 => f[n] >= 2)}
  <1>3. 0 \in G
    BY <1>1, <1>2
  <1>4. ASSUME NEW n \in 1 .. HEX_DIGITS, n - 1 \in G PROVE n \in G
    <2> DEFINE p == f[n - 1]
    <2>1. p \in Nat /\ p >= 1 /\ f[n] = HEX * p /\ n \in 0 .. HEX_DIGITS
      BY <1>1, <1>2, <1>4
    <2> HIDE DEF p
    <2>2. HEX * 1 <= HEX * p
      BY <1>1, <2>1, TimesMonotone
    <2>3. HEX * 1 = HEX /\ HEX * p \in Nat
      BY <1>1, <2>1
    <2>4. f[n] >= 2
      BY <1>1, <2>1, <2>2, <2>3
    <2>5. QED
      BY <2>1, <2>4
  <1>5. \A n \in 0 .. HEX_DIGITS : n \in G
    <2> HIDE DEF G
    <2>1. QED
      BY <1>1, <1>3, <1>4, GoesOn
  <1>6. WORD \in Nat /\ WORD >= 2
    <2>1. HEX_DIGITS \in G
      BY <1>1, <1>5
    <2>2. QED
      BY <1>1, <1>2, <2>1
  <1>7. ASSUME NEW w \in Words PROVE Len(itoa(w, HEX)) \in Nat /\ Len(itoa(w, HEX)) <= HEX_DIGITS
    <2>1. w \in Nat /\ w < f[HEX_DIGITS]
      BY <1>2, <1>6 DEF Words
    <2>2. QED
      BY <1>1, <1>2, <2>1, NumeralFits
  <1>8. QED
    BY <1>6, <1>7

(* %#x fills every word up to the same length without changing it.          *)
LEMMA PaddedIs ==
  ASSUME NEW w \in Words
  PROVE  /\ Padded(itoa(w, HEX)) \in Seq(Nat) /\ Len(Padded(itoa(w, HEX))) = HEX_DIGITS
         /\ ValueOf(Padded(itoa(w, HEX)), HEX) = w
  <1> DEFINE s == itoa(w, HEX)
             z == HEX_DIGITS - Len(s)
  <1>1. HEX \in Nat /\ HEX > 1 /\ HEX_DIGITS \in Nat /\ w \in Nat
    BY ConsoleAssumption, WordIs DEF Words
  <1>2. s \in Seq(Nat) /\ ValueOf(s, HEX) = w
    BY <1>1, ItoaIs DEF IsNumeral
  <1>3. Len(s) \in Nat /\ Len(s) <= HEX_DIGITS
    BY WordIs
  <1>4. Padded(s) = Zeros(z) \o s
    BY DEF Padded, Zeros
  <1> HIDE DEF s
  <1>5. z \in Nat /\ z + Len(s) = HEX_DIGITS
    BY <1>1, <1>3
  <1> HIDE DEF z
  <1>6. Zeros(z) \o s \in Seq(Nat) /\ Len(Zeros(z) \o s) = HEX_DIGITS
    BY <1>2, <1>5, ZerosAre
  <1>7. ValueOf(Zeros(z) \o s, HEX) = w
    BY <1>1, <1>2, <1>5, ValueOfZeros
  <1>8. QED
    BY <1>4, <1>6, <1>7 DEF s
-----------------------------------------------------------------------------
(* printf. *)

State == [converting : BOOLEAN, alternate : BOOLEAN, esp : Seq(Nat), text : Seq(Nat)]
Ready(s) == s \in State /\ s.converting = FALSE
Converting(s) == s \in State /\ s.converting = TRUE

(* printf reads a character that is printed.                                *)
LEMMA ReadPlain ==
  ASSUME NEW s, Ready(s), NEW c \in Character, c # PERCENT
  PROVE  /\ Ready(ReadFormat(s, c)) /\ ReadFormat(s, c).esp = s.esp
         /\ ReadFormat(s, c).text = Append(s.text, c)
  <1>1. ReadFormat(s, c) = [s EXCEPT !.text = Append(@, c)]
    BY DEF ReadFormat, Ready
  <1>2. s.text \in Seq(Nat) /\ c \in Nat
    BY DEF Ready, State, Character
  <1>3. Append(s.text, c) \in Seq(Nat)
    BY <1>2, AppendProperties
  <1>4. QED
    BY <1>1, <1>3 DEF Ready, State

(* It reads the percent sign that begins a conversion.                      *)
LEMMA ReadPercent ==
  ASSUME NEW s, Ready(s)
  PROVE  /\ Converting(ReadFormat(s, PERCENT)) /\ ReadFormat(s, PERCENT).alternate = FALSE
         /\ ReadFormat(s, PERCENT).esp = s.esp /\ ReadFormat(s, PERCENT).text = s.text
  BY DEF ReadFormat, Ready, Converting, State

(* It reads the flag of the alternate form.                                 *)
LEMMA ReadHash ==
  ASSUME NEW s, Converting(s)
  PROVE  /\ Converting(ReadFormat(s, HASH)) /\ ReadFormat(s, HASH).alternate = TRUE
         /\ ReadFormat(s, HASH).esp = s.esp /\ ReadFormat(s, HASH).text = s.text
  BY DEF ReadFormat, Converting, State

(* It reads the second of two percent signs.                                *)
LEMMA ReadAgain ==
  ASSUME NEW s, Converting(s)
  PROVE  /\ Ready(ReadFormat(s, PERCENT)) /\ ReadFormat(s, PERCENT).esp = s.esp
         /\ ReadFormat(s, PERCENT).text = Append(s.text, PERCENT)
  <1>1. ReadFormat(s, PERCENT) = [s EXCEPT !.converting = FALSE, !.text = Append(@, PERCENT)]
    BY DEF ReadFormat, Converting, PERCENT, HASH
  <1>2. s.text \in Seq(Nat) /\ PERCENT \in Nat
    BY DEF Converting, State, PERCENT
  <1>3. Append(s.text, PERCENT) \in Seq(Nat)
    BY <1>2, AppendProperties
  <1>4. QED
    BY <1>1, <1>3 DEF Ready, Converting, State

(* It reads a conversion that it does not know.                             *)
LEMMA ReadUnknown ==
  ASSUME NEW s, Converting(s)
  PROVE  /\ Ready(ReadFormat(s, SPACE)) /\ ReadFormat(s, SPACE).esp = s.esp
         /\ ReadFormat(s, SPACE).text = s.text
  <1>1. SPACE # HASH /\ SPACE # PERCENT /\ SPACE \notin Conversions
    BY DEF SPACE, HASH, PERCENT, Conversions, LetterX, LetterU, LetterD, LetterC, LetterS
  <1>2. ReadFormat(s, SPACE) = [s EXCEPT !.converting = FALSE]
    BY <1>1 DEF ReadFormat, Converting
  <1>3. QED
    BY <1>2 DEF Ready, Converting, State

(* The next word of those that the caller has pushed.                       *)
Pushed(s, w) == s.esp # <<>> /\ Head(s.esp) = w

(* It reads a conversion and takes the next word for it.                    *)
LEMMA ReadConversion ==
  ASSUME NEW s, Converting(s), NEW c \in Conversions, NEW w, Pushed(s, w),
         Converted(c, s.alternate, w) \in Seq(Nat)
  PROVE  /\ Ready(ReadFormat(s, c)) /\ ReadFormat(s, c).esp = Tail(s.esp)
         /\ ReadFormat(s, c).text = s.text \o Converted(c, s.alternate, w)
  <1> DEFINE out == Converted(c, s.alternate, w)
  <1>1. c # HASH /\ c # PERCENT
    BY DEF HASH, PERCENT, Conversions, LetterX, LetterU, LetterD, LetterC, LetterS
  <1>2. ReadFormat(s, c) = [s EXCEPT !.converting = FALSE, !.esp = Tail(@), !.text = @ \o out]
    BY <1>1 DEF ReadFormat, Converting, Pushed
  <1>3. out \in Seq(Nat)
    OBVIOUS
  <1> HIDE DEF out
  <1>4. s.text \in Seq(Nat) /\ s.esp \in Seq(Nat)
    BY DEF Converting, State
  <1>5. s.text \o out \in Seq(Nat) /\ Tail(s.esp) \in Seq(Nat)
    BY <1>3, <1>4, ConcatProperties, HeadTailProperties DEF Pushed
  <1>6. QED
    BY <1>2, <1>5 DEF Ready, Converting, State, out

(* The same with a name for what is printed.                                *)
LEMMA ReadInto ==
  ASSUME NEW s, Converting(s), NEW c \in Conversions, NEW w, Pushed(s, w),
         NEW out \in Seq(Nat), Converted(c, s.alternate, w) = out
  PROVE  Ready(ReadFormat(s, c)) /\ ReadFormat(s, c).esp = Tail(s.esp)
         /\ ReadFormat(s, c).text = s.text \o out
  BY ReadConversion

(* What a piece prints.                                                     *)
Alternate(p) == Len(p.spelling) = 3
Out(p) ==
  IF p.arguments = <<>>
    THEN IF Len(p.spelling) = 1 THEN p.spelling
         ELSE IF p.spelling = <<PERCENT, PERCENT>> THEN <<PERCENT>> ELSE <<>>
    ELSE Converted(p.spelling[Len(p.spelling)], Alternate(p), p.arguments[1])

(* The spellings differ in their length or in their last character.         *)
Two(c) == <<PERCENT, c>>
Three == <<PERCENT, HASH, LetterX>>
(* Their lengths and characters.                                            *)
LEMMA SpellingsAre ==
  /\ \A c : Len(Two(c)) = 2 /\ Two(c)[1] = PERCENT /\ Two(c)[2] = c
  /\ Len(Three) = 3 /\ Three[1] = PERCENT /\ Three[2] = HASH /\ Three[3] = LetterX
  BY DEF Two, Three

(* What a text has to be, spelling by spelling.                             *)
LEMMA MeansIs ==
  ASSUME NEW text, NEW p
  PROVE  /\ Len(p.spelling) = 1 => (Means(text, p) <=> text = p.spelling)
         /\ p.spelling = Two(PERCENT) => (Means(text, p) <=> text = <<PERCENT>>)
         /\ p.spelling = Two(SPACE) => (Means(text, p) <=> text = <<>>)
         /\ p.spelling = Three =>
              (Means(text, p) <=> Len(text) = HEX_DIGITS /\ ValueOf(text, HEX) = p.arguments[1])
         /\ p.spelling = Two(LetterX) => (Means(text, p) <=> IsNumeral(text, p.arguments[1], HEX))
         /\ p.spelling = Two(LetterU) => (Means(text, p) <=> IsNumeral(text, p.arguments[1], DEC))
         /\ p.spelling = Two(LetterD) =>
              (Means(text, p) <=>
                 IF Negative(p.arguments[1])
                   THEN text # <<>> /\ Head(text) = MINUS /\ IsNumeral(Tail(text), WORD - p.arguments[1], DEC)
                   ELSE IsNumeral(text, p.arguments[1], DEC))
         /\ p.spelling = Two(LetterC) => (Means(text, p) <=> text = <<p.arguments[1]>>)
         /\ p.spelling = Two(LetterS) => (Means(text, p) <=> text = Texts[p.arguments[1]])
  <1> DEFINE q == p.spelling
             w == p.arguments[1]
  <1>1. Means(text, p) <=>
          CASE Len(q) = 1 -> text = q
            [] q = Two(PERCENT) -> text = <<PERCENT>>
            [] q = Two(SPACE) -> text = <<>>
            [] q = Three -> Len(text) = HEX_DIGITS /\ ValueOf(text, HEX) = w
            [] q = Two(LetterX) -> IsNumeral(text, w, HEX)
            [] q = Two(LetterU) -> IsNumeral(text, w, DEC)
            [] q = Two(LetterD) ->
                  IF Negative(w)
                    THEN text # <<>> /\ Head(text) = MINUS /\ IsNumeral(Tail(text), WORD - w, DEC)
                  ELSE IsNumeral(text, w, DEC)
            [] q = Two(LetterC) -> text = <<w>>
            [] q = Two(LetterS) -> text = Texts[w]
    BY DEF Means, Two, Three
  <1> HIDE DEF q, w
  <1>2. \A c, d : c # d => Two(c) # Two(d)
    BY SpellingsAre
  <1>3. \A c : Len(Two(c)) # 1 /\ Two(c) # Three /\ Len(Three) # 1
    BY SpellingsAre
  <1>4. /\ PERCENT # SPACE /\ PERCENT # LetterX /\ PERCENT # LetterU /\ PERCENT # LetterD
        /\ PERCENT # LetterC /\ PERCENT # LetterS /\ SPACE # LetterX /\ SPACE # LetterU
        /\ SPACE # LetterD /\ SPACE # LetterC /\ SPACE # LetterS /\ LetterX # LetterU
        /\ LetterX # LetterD /\ LetterX # LetterC /\ LetterX # LetterS /\ LetterU # LetterD
        /\ LetterU # LetterC /\ LetterU # LetterS /\ LetterD # LetterC /\ LetterD # LetterS
        /\ LetterC # LetterS
    BY DEF PERCENT, SPACE, LetterX, LetterU, LetterD, LetterC, LetterS
  <1>5. Len(q) = 1 => (Means(text, p) <=> text = q)
    BY <1>1, <1>3
  <1>6. QED
    BY <1>1, <1>2, <1>3, <1>4 DEF q, w

(* The conversions of printf.                                               *)
LEMMA ConvertedIs ==
  ASSUME NEW alternate, NEW w
  PROVE  /\ Converted(LetterX, alternate, w) = IF alternate THEN Padded(itoa(w, HEX)) ELSE itoa(w, HEX)
         /\ Converted(LetterU, alternate, w) = itoa(w, DEC)
         /\ Converted(LetterD, alternate, w) = IF Negative(w) THEN <<MINUS>> \o itoa(Negated(w), DEC)
                                               ELSE itoa(w, DEC)
         /\ Converted(LetterC, alternate, w) = <<w>>
         /\ Converted(LetterS, alternate, w) = Texts[w]
  BY DEF Converted, LetterX, LetterU, LetterD, LetterC, LetterS

(* The word of a negative number is negated without overflow.               *)
LEMMA NegativesAre ==
  ASSUME NEW w \in Words, Negative(w)
  PROVE  Negated(w) = WORD - w /\ WORD - w \in Nat
  <1>1. WORD \in Nat /\ WORD >= 2 /\ w \in 0 .. (WORD - 1) /\ w >= WORD \div 2
    BY WordIs DEF Words, Negative
  <1>2. WORD \div 2 >= 1
    BY <1>1
  <1>3. WORD - w \in 0 .. (WORD - 1) /\ WORD \in Nat \ {0}
    BY <1>1, <1>2
  <1>4. (WORD - w) % WORD = WORD - w
    BY <1>3, DivSmall
  <1>5. QED
    BY <1>1, <1>3, <1>4 DEF Negated

(* What stands behind a minus sign.                                         *)
LEMMA MinusInFront ==
  ASSUME NEW s \in Seq(Nat)
  PROVE  /\ <<MINUS>> \o s \in Seq(Nat) /\ <<MINUS>> \o s # <<>>
         /\ Head(<<MINUS>> \o s) = MINUS /\ Tail(<<MINUS>> \o s) = s
  <1>1. MINUS \in Nat
    BY DEF MINUS
  <1> HIDE DEF MINUS
  <1> DEFINE m == MINUS
  <1>2. QED
    BY <1>1

(* The signed conversion.                                                   *)
LEMMA SignedIs ==
  ASSUME NEW w \in Words, NEW alternate, NEW out, out = Converted(LetterD, alternate, w)
  PROVE  /\ out \in Seq(Nat)
         /\ IF Negative(w) THEN out # <<>> /\ Head(out) = MINUS /\ IsNumeral(Tail(out), WORD - w, DEC)
            ELSE IsNumeral(out, w, DEC)
  <1>1. DEC \in Nat /\ DEC > 1 /\ w \in Nat
    BY ConsoleAssumption, WordIs DEF Words
  <1>2. CASE Negative(w)
    <2> DEFINE s == itoa(WORD - w, DEC)
    <2>1. Negated(w) = WORD - w /\ WORD - w \in Nat
      BY <1>2, NegativesAre
    <2>2. s \in Seq(Nat) /\ IsNumeral(s, WORD - w, DEC)
      BY <1>1, <2>1, ItoaIs
    <2>3. out = <<MINUS>> \o s
      BY <1>2, <2>1, ConvertedIs
    <2> HIDE DEF s
    <2>4. out \in Seq(Nat) /\ out # <<>> /\ Head(out) = MINUS /\ Tail(out) = s
      BY <2>2, <2>3, MinusInFront
    <2>5. QED
      BY <1>2, <2>2, <2>4
  <1>3. CASE ~Negative(w)
    BY <1>1, <1>3, ItoaIs, ConvertedIs
  <1>4. QED
    BY <1>2, <1>3

(* Sequences of characters are sequences of numbers.                        *)
LEMMA CharactersAre == Seq(Character) \subseteq Seq(Nat)
  <1> SUFFICES ASSUME NEW s \in Seq(Character) PROVE s \in Seq(Nat)
    OBVIOUS
  <1>1. Len(s) \in Nat /\ \A i \in 1 .. Len(s) : s[i] \in Character
    BY LenProperties, ElementOfSeq
  <1>2. s = [i \in 1 .. Len(s) |-> s[i]]
    BY LenProperties
  <1>3. \A i \in 1 .. Len(s) : s[i] \in Nat
    BY <1>1 DEF Character
  <1>4. s \in [1 .. Len(s) -> Nat]
    BY <1>2, <1>3
  <1>5. QED
    BY <1>1, <1>4

(* What a piece prints is what it means.                                    *)
Plain(p) == p.arguments = <<>> /\ p.spelling \in Seq(Character) /\ Len(p.spelling) = 1
              /\ p.spelling[1] # PERCENT
Silent(p) == p.arguments = <<>> /\ p.spelling \in {Two(PERCENT), Two(SPACE)}
Word(p) == p.arguments \in Seq(Nat) /\ Len(p.arguments) = 1 /\ p.arguments[1] \in Words
             /\ p.spelling \in {Three, Two(LetterX), Two(LetterU), Two(LetterD)}
Char(p) == p.arguments \in Seq(Nat) /\ Len(p.arguments) = 1 /\ p.arguments[1] \in Character
             /\ p.spelling = Two(LetterC)
Str(p) == p.arguments \in Seq(Nat) /\ Len(p.arguments) = 1 /\ p.arguments[1] \in DOMAIN Texts
             /\ p.spelling = Two(LetterS)

(* Every piece is of one of these five kinds.                               *)
LEMMA PieceIs ==
  ASSUME NEW p, IsPiece(p)
  PROVE  Plain(p) \/ Silent(p) \/ Word(p) \/ Char(p) \/ Str(p)
  <1>1. ASSUME p.spelling \in Seq(Character), Len(p.spelling) = 1, p.spelling # <<PERCENT>>
        PROVE  p.spelling[1] # PERCENT
    <2> SUFFICES ASSUME p.spelling[1] = PERCENT PROVE FALSE
      OBVIOUS
    <2> DEFINE q == p.spelling
               u == <<PERCENT>>
    <2>1. u \in Seq(Nat) /\ Len(u) = 1 /\ u[1] = PERCENT
      BY DEF PERCENT
    <2>2. q \in Seq(Nat) /\ Len(q) = 1 /\ q[1] = PERCENT
      BY <1>1, CharactersAre
    <2>3. q # u
      BY <1>1
    <2> HIDE DEF q, u
    <2>4. \A i \in 1 .. 1 : q[i] = u[i]
      BY <2>1, <2>2
    <2>5. q = u
      BY <2>1, <2>2, <2>4, SeqEqual
    <2>6. QED
      BY <2>3, <2>5
  <1>2. CASE p.arguments = <<>>
    BY <1>1, <1>2 DEF IsPiece, Plain, Silent, Two
  <1>3. CASE p.arguments # <<>>
    BY <1>3 DEF IsPiece, Word, Char, Str, Two, Three
  <1>4. QED
    BY <1>2, <1>3

(* And so what every piece prints is what it means.                         *)
LEMMA OutIs ==
  ASSUME NEW p, IsPiece(p)
  PROVE  Out(p) \in Seq(Nat) /\ Means(Out(p), p)
  <1>1. CASE Plain(p)
    BY <1>1, MeansIs, CharactersAre DEF Plain, Out
  <1>2. CASE Silent(p)
    <2>1. Len(p.spelling) # 1 /\ PERCENT # SPACE
      BY <1>2, SpellingsAre DEF Silent, PERCENT, SPACE
    <2>2. CASE p.spelling = Two(PERCENT)
      <3>1. Out(p) = <<PERCENT>>
        BY <1>2, <2>1, <2>2 DEF Out, Silent, Two
      <3>2. <<PERCENT>> \in Seq(Nat)
        BY DEF PERCENT
      <3>3. QED
        BY <2>2, <3>1, <3>2, MeansIs
    <2>3. CASE p.spelling = Two(SPACE)
      <3>1. Two(SPACE) # Two(PERCENT)
        BY <2>1, SpellingsAre
      <3>2. Out(p) = <<>>
        BY <1>2, <2>1, <2>3, <3>1 DEF Out, Silent, Two
      <3>3. <<>> \in Seq(Nat)
        BY EmptySeq
      <3>4. QED
        BY <2>3, <3>2, <3>3, MeansIs
    <2>4. QED
      BY <1>2, <2>2, <2>3 DEF Silent
  <1>3. ASSUME p.arguments \in Seq(Nat), Len(p.arguments) = 1
        PROVE  Out(p) = Converted(p.spelling[Len(p.spelling)], Alternate(p), p.arguments[1])
    <2>1. p.arguments # <<>>
      <3> SUFFICES ASSUME p.arguments = <<>> PROVE FALSE
        OBVIOUS
      <3>1. Len(p.arguments) = 0
        OBVIOUS
      <3>2. QED
        BY <1>3, <3>1
    <2>2. QED
      BY <2>1 DEF Out
  <1> DEFINE w == p.arguments[1]
  <1>4. CASE Word(p)
    <2>1. /\ w \in Words /\ w \in Nat /\ HEX \in Nat /\ HEX > 1 /\ DEC \in Nat /\ DEC > 1
      BY <1>4, ConsoleAssumption, WordIs DEF Word, Words
    <2>2. Out(p) = Converted(p.spelling[Len(p.spelling)], Alternate(p), w)
      BY <1>3, <1>4 DEF Word
    <2> HIDE DEF w
    <2>3. CASE p.spelling = Three
      <3>1. Out(p) = Converted(LetterX, Alternate(p), w) /\ Alternate(p)
        BY <2>2, <2>3, SpellingsAre DEF Alternate
      <3>2. Out(p) = Padded(itoa(w, HEX))
        BY <3>1, ConvertedIs
      <3>3. Out(p) \in Seq(Nat) /\ Len(Out(p)) = HEX_DIGITS /\ ValueOf(Out(p), HEX) = w
        BY <2>1, <3>2, PaddedIs
      <3>4. QED
        BY <2>3, <3>3, MeansIs DEF w
    <2>4. CASE p.spelling = Two(LetterX)
      <3>1. Out(p) = Converted(LetterX, Alternate(p), w) /\ ~Alternate(p)
        BY <2>2, <2>4, SpellingsAre DEF Alternate
      <3>2. Out(p) = itoa(w, HEX)
        BY <3>1, ConvertedIs
      <3>3. Out(p) \in Seq(Nat) /\ IsNumeral(Out(p), w, HEX)
        BY <2>1, <3>2, ItoaIs
      <3>4. QED
        BY <2>4, <3>3, MeansIs DEF w
    <2>5. CASE p.spelling = Two(LetterU)
      <3>1. Out(p) = Converted(LetterU, Alternate(p), w)
        BY <2>2, <2>5, SpellingsAre
      <3>2. Out(p) = itoa(w, DEC)
        BY <3>1, ConvertedIs
      <3>3. Out(p) \in Seq(Nat) /\ IsNumeral(Out(p), w, DEC)
        BY <2>1, <3>2, ItoaIs
      <3>4. QED
        BY <2>5, <3>3, MeansIs DEF w
    <2>6. CASE p.spelling = Two(LetterD)
      <3>1. Out(p) = Converted(LetterD, Alternate(p), w)
        BY <2>2, <2>6, SpellingsAre
      <3>2. /\ Out(p) \in Seq(Nat)
            /\ IF Negative(w) THEN Out(p) # <<>> /\ Head(Out(p)) = MINUS
                                     /\ IsNumeral(Tail(Out(p)), WORD - w, DEC)
               ELSE IsNumeral(Out(p), w, DEC)
        BY <2>1, <3>1, SignedIs
      <3>3. QED
        BY <2>6, <3>2, MeansIs DEF w
    <2>7. QED
      BY <1>4, <2>3, <2>4, <2>5, <2>6 DEF Word
  <1>5. CASE Char(p)
    <2>1. Out(p) = Converted(LetterC, Alternate(p), w)
      BY <1>3, <1>5, SpellingsAre DEF Char
    <2>2. Out(p) = <<w>> /\ w \in Nat
      BY <1>5, <2>1, ConvertedIs DEF Char, Character
    <2>3. Out(p) \in Seq(Nat)
      BY <2>2
    <2>4. QED
      BY <1>5, <2>2, <2>3, MeansIs DEF Char
  <1>6. CASE Str(p)
    <2>1. Out(p) = Converted(LetterS, Alternate(p), w)
      BY <1>3, <1>6, SpellingsAre DEF Str
    <2>2. Out(p) = Texts[w] /\ w \in DOMAIN Texts
      BY <1>6, <2>1, ConvertedIs DEF Str
    <2>3. Texts[w] \in Seq(Character)
      <3>1. w \in 1 .. Len(Texts) /\ Texts \in Seq(Seq(Character))
        BY <2>2, ConsoleAssumption, LenProperties
      <3>2. QED
        BY <3>1, ElementOfSeq
    <2>4. Out(p) \in Seq(Nat)
      BY <2>2, <2>3, CharactersAre
    <2>5. QED
      BY <1>6, <2>2, <2>4, MeansIs DEF Str
  <1>7. QED
    BY <1>1, <1>2, <1>4, <1>5, <1>6, PieceIs

(* printf is its loop.                                                      *)
Start(arguments) == [converting |-> FALSE, alternate |-> FALSE, esp |-> arguments, text |-> <<>>]

(* Its states, one for each character of the format.                        *)
LEMMA PrintfRuns ==
  ASSUME NEW format \in Seq(Nat), NEW arguments
  PROVE  \E f :
           /\ f[0] = Start(arguments)
           /\ \A n \in 1 .. Len(format) : f[n] = ReadFormat(f[n - 1], format[n])
           /\ printf(format, arguments) = f[Len(format)]
  <1> DEFINE L == Len(format)
             m == Start(arguments)
             Turn(p, n) == ReadFormat(p, format[n])
             Goes(f, k) == f = [n \in 0 .. k |-> IF n = 0 THEN m ELSE Turn(f[n - 1], n)]
             loop == CHOOSE f : Goes(f, L)
             Some == {k \in 0 .. L : \E f : Goes(f, k)}
  <1>1. printf(format, arguments) = loop[L]
    BY DEF printf, Start
  <1>2. L \in Nat
    BY LenProperties
  <1> HIDE DEF L, m, Turn
  <1>3. 0 \in Some
    <2> DEFINE f == [n \in 0 .. 0 |-> m]
    <2>1. Goes(f, 0)
      BY \A n \in 0 .. 0 : n = 0
    <2> HIDE DEF f, Goes
    <2>2. QED
      BY <1>2, <2>1
  <1>4. ASSUME NEW k \in 1 .. L, k - 1 \in Some PROVE k \in Some
    <2>1. PICK b : Goes(b, k - 1)
      BY <1>4
    <2> DEFINE a == [n \in 0 .. k |-> IF n = k THEN Turn(b[k - 1], k) ELSE b[n]]
    <2>2. ASSUME NEW n \in 0 .. k PROVE a[n] = IF n = 0 THEN m ELSE Turn(a[n - 1], n)
      <3>1. CASE n = k
        <4>1. a[n] = Turn(b[k - 1], k) /\ a[k - 1] = b[k - 1] /\ n # 0
          BY <1>2, <1>4, <3>1
        <4>2. QED
          BY <3>1, <4>1
      <3>2. CASE n # k /\ n = 0
        <4>1. a[n] = b[n] /\ n \in 0 .. (k - 1)
          BY <1>2, <1>4, <3>2
        <4>2. QED
          BY <2>1, <3>2, <4>1
      <3>3. CASE n # k /\ n # 0
        <4>1. a[n] = b[n] /\ n \in 0 .. (k - 1) /\ a[n - 1] = b[n - 1]
          BY <1>2, <1>4, <3>3
        <4>2. b[n] = Turn(b[n - 1], n)
          BY <2>1, <3>3, <4>1
        <4>3. QED
          BY <3>3, <4>1, <4>2
      <3>4. QED
        BY <3>1, <3>2, <3>3
    <2>3. Goes(a, k)
      <3>1. a = [n \in 0 .. k |-> a[n]]
        OBVIOUS
      <3> HIDE DEF a
      <3>2. QED
        BY <2>2, <3>1
    <2> HIDE DEF a, Goes
    <2>4. k \in 0 .. L /\ \E f : Goes(f, k)
      BY <1>2, <2>3
    <2>5. QED
      BY <2>4
  <1>5. \A k \in 0 .. L : k \in Some
    <2> HIDE DEF Some
    <2>1. QED
      BY <1>2, <1>3, <1>4, GoesOn
  <1>6. Goes(loop, L)
    <2>1. L \in 0 .. L
      BY <1>2
    <2> HIDE DEF Goes, Some
    <2>2. L \in Some
      BY <1>5, <2>1
    <2>3. QED
      BY <2>2 DEF Some
  <1> HIDE DEF loop, Some
  <1>7. loop[0] = m /\ \A n \in 1 .. L : loop[n] = Turn(loop[n - 1], n)
    BY <1>2, <1>6
  <1>8. QED
    BY <1>1, <1>7 DEF L, m, Turn

(* The pieces of what is joined stand in it one behind the other.           *)
Joining(f, X, parts) ==
  /\ f \in [0 .. Len(parts) -> Seq(X)]
  /\ f[0] = Nothing
  /\ \A n \in 1 .. Len(parts) : f[n] = f[n - 1] \o parts[n]

Lands(f, parts) ==
  /\ \A n \in 0 .. Len(parts) : Len(f[n]) \in Nat /\ Len(f[n]) <= Len(f[Len(parts)])
  /\ Len(f[0]) = 0
  /\ \A n \in 1 .. Len(parts) :
       /\ Len(f[n]) = Len(f[n - 1]) + Len(parts[n])
       /\ \A i \in 1 .. Len(parts[n]) : f[Len(parts)][Len(f[n - 1]) + i] = parts[n][i]

(* In what is joined, each part begins where the one before it ends.        *)
LEMMA JoinedAt ==
  ASSUME NEW X, NEW parts \in Seq(Seq(X)), NEW f, Joining(f, X, parts)
  PROVE  Lands(f, parts)
  <1> USE DEF Joining
  <1> DEFINE L == Len(parts)
             Prefix(n, k) == Len(f[k]) <= Len(f[n]) /\ \A i \in 1 .. Len(f[k]) : f[n][i] = f[k][i]
             G == {n \in 0 .. L : \A k \in 0 .. n : Prefix(n, k)}
  <1>1. /\ L \in Nat /\ \A n \in 1 .. L : parts[n] \in Seq(X) /\ Len(parts[n]) \in Nat
        /\ \A n \in 0 .. L : f[n] \in Seq(X) /\ Len(f[n]) \in Nat
    <2>1. L \in Nat /\ \A n \in 1 .. L : parts[n] \in Seq(X)
      BY LenProperties, ElementOfSeq
    <2>2. \A n \in 0 .. L : f[n] \in Seq(X)
      OBVIOUS
    <2>3. QED
      BY <2>1, <2>2, LenProperties
  <1>2. ASSUME NEW n \in 1 .. L
        PROVE  /\ Len(f[n]) = Len(f[n - 1]) + Len(parts[n])
               /\ \A i \in 1 .. Len(f[n - 1]) : f[n][i] = f[n - 1][i]
               /\ \A i \in 1 .. Len(parts[n]) : f[n][Len(f[n - 1]) + i] = parts[n][i]
    <2> DEFINE s == f[n - 1]
               t == parts[n]
    <2>1. s \in Seq(X) /\ t \in Seq(X) /\ Len(s) \in Nat /\ Len(t) \in Nat /\ f[n] = s \o t
      <3>1. n - 1 \in 0 .. L
        BY <1>1
      <3>2. QED
        BY <1>1, <3>1
    <2> HIDE DEF s, t
    <2>2. Len(s \o t) = Len(s) + Len(t)
      BY <2>1, ConcatProperties
    <2>3. \A i \in 1 .. (Len(s) + Len(t)) : (s \o t)[i] = IF i <= Len(s) THEN s[i] ELSE t[i - Len(s)]
      BY <2>1, ConcatProperties
    <2>4. ASSUME NEW i \in 1 .. Len(s) PROVE (s \o t)[i] = s[i]
      <3>1. i \in 1 .. (Len(s) + Len(t)) /\ i <= Len(s)
        BY <2>1
      <3>2. QED
        BY <2>3, <3>1
    <2>5. ASSUME NEW i \in 1 .. Len(t) PROVE (s \o t)[Len(s) + i] = t[i]
      <3>1. ASSUME NEW j, j = Len(s) + i PROVE (s \o t)[j] = t[i]
        <4>1. j \in 1 .. (Len(s) + Len(t)) /\ ~(j <= Len(s)) /\ j - Len(s) = i
          BY <2>1, <3>1
        <4>2. QED
          BY <2>3, <4>1
      <3>2. QED
        BY <3>1
    <2>6. QED
      BY <2>1, <2>2, <2>4, <2>5 DEF s, t
  <1> HIDE DEF Joining
  <1> HIDE DEF L
  <1>3. \A n \in 0 .. L : n \in G
    <2>1. 0 \in G
      <3>1. \A k \in 0 .. 0 : k = 0
        OBVIOUS
      <3>2. Prefix(0, 0)
        BY <1>1
      <3> HIDE DEF Prefix
      <3>3. QED
        BY <1>1, <3>1, <3>2
    <2>2. ASSUME NEW n \in 1 .. L, n - 1 \in G PROVE n \in G
      <3>1. n - 1 \in 0 .. L /\ n \in 0 .. L
        BY <1>1
      <3>2. ASSUME NEW k \in 0 .. n PROVE Prefix(n, k)
        <4>1. CASE k = n
          BY <1>1, <3>1, <4>1
        <4>2. CASE k # n
          <5>1. k \in 0 .. (n - 1) /\ k \in 0 .. L
            BY <1>1, <3>1, <4>2
          <5>2. Prefix(n - 1, k)
            BY <2>2, <5>1
          <5>3. Len(f[n - 1]) <= Len(f[n])
            <6>1. Len(f[n]) = Len(f[n - 1]) + Len(parts[n])
              BY <1>2
            <6>2. Len(f[n - 1]) \in Nat /\ Len(parts[n]) \in Nat
              BY <1>1, <3>1
            <6> DEFINE x == Len(f[n])
                       y == Len(f[n - 1])
                       z == Len(parts[n])
            <6> HIDE DEF x, y, z
            <6>3. x = y + z /\ y \in Nat /\ z \in Nat
              BY <6>1, <6>2 DEF x, y, z
            <6>4. y <= x
              BY <6>3
            <6>5. QED
              BY <6>4 DEF x, y
          <5>4. Len(f[k]) <= Len(f[n])
            <6> DEFINE x == Len(f[n])
                       y == Len(f[n - 1])
                       z == Len(f[k])
            <6>1. x \in Nat /\ y \in Nat /\ z \in Nat /\ z <= y /\ y <= x
              BY <1>1, <3>1, <5>1, <5>2, <5>3
            <6> HIDE DEF x, y, z
            <6>2. z <= x
              BY <6>1
            <6>3. QED
              BY <6>2 DEF x, z
          <5>5. ASSUME NEW i \in 1 .. Len(f[k]) PROVE f[n][i] = f[k][i]
            <6>1. f[n - 1][i] = f[k][i] /\ Len(f[k]) <= Len(f[n - 1])
              BY <5>2
            <6>2. i \in 1 .. Len(f[n - 1])
              <7> DEFINE y == Len(f[n - 1])
                         z == Len(f[k])
              <7>1. y \in Nat /\ z \in Nat /\ z <= y /\ i \in 1 .. z
                BY <1>1, <3>1, <5>1, <6>1
              <7> HIDE DEF y, z
              <7>2. i \in 1 .. y
                BY <7>1
              <7>3. QED
                BY <7>2 DEF y
            <6>3. f[n][i] = f[n - 1][i]
              BY <1>2, <6>2
            <6>4. QED
              BY <6>1, <6>3
          <5>6. QED
            BY <5>4, <5>5
        <4>3. QED
          BY <4>1, <4>2
      <3> HIDE DEF Prefix
      <3>3. QED
        BY <3>1, <3>2
    <2> HIDE DEF G
    <2>3. QED
      BY <1>1, <2>1, <2>2, GoesOn
  <1>4. \A k \in 0 .. L : Prefix(L, k)
    <2>1. L \in G
      <3>1. L \in 0 .. L
        BY <1>1
      <3> HIDE DEF G
      <3>2. QED
        BY <1>3, <3>1
    <2>2. QED
      BY <2>1
  <1>5. Len(f[0]) = 0
    BY DEF Nothing, Joining
  <1>6. ASSUME NEW n \in 1 .. L, NEW i \in 1 .. Len(parts[n])
        PROVE  f[L][Len(f[n - 1]) + i] = parts[n][i]
    <2>1. f[n][Len(f[n - 1]) + i] = parts[n][i] /\ Len(f[n]) = Len(f[n - 1]) + Len(parts[n])
      BY <1>2
    <2>2. n \in 0 .. L /\ n - 1 \in 0 .. L
      BY <1>1
    <2>3. Len(f[n - 1]) + i \in 1 .. Len(f[n])
      <3> DEFINE x == Len(f[n])
                 y == Len(f[n - 1])
                 z == Len(parts[n])
      <3>1. x = y + z /\ y \in Nat /\ z \in Nat /\ i \in 1 .. z
        BY <1>1, <2>1, <2>2
      <3> HIDE DEF x, y, z
      <3>2. y + i \in 1 .. x
        BY <3>1
      <3>3. QED
        BY <3>2 DEF x, y
    <2>4. \A j \in 1 .. Len(f[n]) : f[L][j] = f[n][j]
      BY <1>4, <2>2
    <2>5. QED
      BY <2>1, <2>3, <2>4
  <1>7. \A n \in 0 .. L : Len(f[n]) \in Nat /\ Len(f[n]) <= Len(f[L])
    BY <1>1, <1>4
  <1>8. QED
    BY <1>2, <1>5, <1>6, <1>7 DEF L, Lands

(* A piece of a format is read: what it prints is behind the text, and the  *)
(* word that it takes is gone.                                              *)
Takes(p) == p.arguments # <<>>

(* A sequence of one member is appended.                                    *)
LEMMA OneMore ==
  ASSUME NEW s \in Seq(Nat), NEW q \in Seq(Nat), Len(q) = 1
  PROVE  Append(s, q[1]) = s \o q
  <1> DEFINE a == Append(s, q[1])
             b == s \o q
             L == Len(s)
             c == q[1]
  <1>1. L \in Nat /\ c \in Nat
    <2>1. 1 \in 1 .. Len(q)
      OBVIOUS
    <2>2. c \in Nat
      BY <2>1, ElementOfSeq
    <2>3. QED
      BY <2>2, LenProperties
  <1>2. /\ b \in Seq(Nat) /\ Len(b) = L + Len(q)
        /\ \A i \in 1 .. (L + Len(q)) : b[i] = IF i <= L THEN s[i] ELSE q[i - L]
    BY ConcatProperties
  <1>3. /\ a \in Seq(Nat) /\ Len(a) = L + 1 /\ a[L + 1] = c
        /\ \A i \in 1 .. L : a[i] = s[i]
    BY <1>1, AppendProperties
  <1>4. q[1] = c
    OBVIOUS
  <1> HIDE DEF a, b, L, c
  <1>5. Len(b) = L + 1 /\ \A i \in 1 .. (L + 1) : b[i] = IF i <= L THEN s[i] ELSE q[i - L]
    BY <1>2
  <1>6. ASSUME NEW i \in 1 .. (L + 1) PROVE a[i] = b[i]
    <2>1. CASE i <= L
      <3>1. i \in 1 .. L
        BY <1>1, <2>1
      <3>2. QED
        BY <1>3, <1>5, <2>1, <3>1
    <2>2. CASE i = L + 1
      <3>1. i - L = 1 /\ ~(i <= L)
        BY <1>1, <2>2
      <3>2. b[i] = c
        BY <1>4, <1>5, <3>1
      <3>3. QED
        BY <1>3, <2>2, <3>2
    <2>3. QED
      BY <1>1, <2>1, <2>2
  <1>7. a = b
    BY <1>2, <1>3, <1>5, <1>6, SeqEqual
  <1>8. QED
    BY <1>7 DEF a, b, c

(* Only %x has an alternate form.                                           *)
LEMMA OtherConversions ==
  ASSUME NEW c \in Conversions, c # LetterX, NEW a, NEW b, NEW w
  PROVE  Converted(c, a, w) = Converted(c, b, w)
  BY ConvertedIs DEF Conversions

Reads(g, s, q) == g[0] = s /\ \A i \in 1 .. Len(q) : g[i] = ReadFormat(g[i - 1], q[i])

(* The state behind a piece.                                                *)
After(t, s, out, esp) == Ready(t) /\ t.text = s.text \o out /\ t.esp = esp

(* A piece that takes a word is read.                                       *)
LEMMA ConversionRead ==
  ASSUME NEW p, IsPiece(p), Takes(p), NEW s, Ready(s), Pushed(s, p.arguments[1]),
         NEW g, Reads(g, s, p.spelling), NEW t, t = g[Len(p.spelling)]
  PROVE  After(t, s, Out(p), Tail(s.esp))
  <1> SUFFICES Ready(t) /\ t.text = s.text \o Out(p) /\ t.esp = Tail(s.esp)
    BY DEF After
  <1> DEFINE q == p.spelling
             w == p.arguments[1]
             c == q[Len(q)]
  <1>1. Out(p) \in Seq(Nat) /\ Out(p) = Converted(c, Alternate(p), w)
    BY OutIs DEF Out, Takes
  <1>2. q \in {Three, Two(LetterX), Two(LetterU), Two(LetterD), Two(LetterC), Two(LetterS)}
    BY PieceIs DEF Takes, Plain, Silent, Word, Char, Str
  <1>3. g[0] = s /\ \A i \in 1 .. Len(q) : g[i] = ReadFormat(g[i - 1], q[i])
    BY DEF Reads
  <1>4. Alternate(p) <=> Len(q) = 3
    BY DEF Alternate
  <1>5. \A r : r.esp = s.esp => Pushed(r, w)
    BY DEF Pushed
  <1> HIDE DEF q, w
  <1>6. CASE q = Three
    <2>1. Len(q) = 3 /\ q[1] = PERCENT /\ q[2] = HASH /\ q[3] = LetterX
      BY <1>6, SpellingsAre
    <2>2. g[1] = ReadFormat(s, PERCENT) /\ g[2] = ReadFormat(g[1], HASH) /\ g[3] = ReadFormat(g[2], LetterX)
      <3>1. /\ g[1] = ReadFormat(g[1 - 1], q[1]) /\ g[2] = ReadFormat(g[2 - 1], q[2])
            /\ g[3] = ReadFormat(g[3 - 1], q[3])
        BY <1>3, <2>1
      <3>2. 1 - 1 = 0 /\ 2 - 1 = 1 /\ 3 - 1 = 2
        OBVIOUS
      <3>3. QED
        BY <1>3, <2>1, <3>1, <3>2
    <2>3. Converting(g[1]) /\ g[1].esp = s.esp /\ g[1].text = s.text
      BY <2>2, ReadPercent
    <2>4. Converting(g[2]) /\ g[2].alternate = TRUE /\ g[2].esp = s.esp /\ g[2].text = s.text
      BY <2>2, <2>3, ReadHash
    <2>5. LetterX \in Conversions /\ Converted(LetterX, g[2].alternate, w) = Out(p)
      <3>1. Converted(LetterX, g[2].alternate, w) = Padded(itoa(w, HEX))
        BY <2>4, ConvertedIs
      <3>2. Converted(LetterX, Alternate(p), w) = Padded(itoa(w, HEX))
        BY <1>4, <2>1, ConvertedIs
      <3>3. QED
        BY <1>1, <2>1, <3>1, <3>2 DEF Conversions
    <2>6. Ready(g[3]) /\ g[3].esp = Tail(g[2].esp) /\ g[3].text = g[2].text \o Out(p)
      <3>1. Pushed(g[2], w) /\ Converting(g[2]) /\ LetterX \in Conversions
        BY <1>5, <2>4, <2>5
      <3> DEFINE o == Out(p)
      <3>2. o \in Seq(Nat) /\ Converted(LetterX, g[2].alternate, w) = o
        BY <1>1, <2>5
      <3> HIDE DEF o
      <3>3. /\ Ready(ReadFormat(g[2], LetterX)) /\ ReadFormat(g[2], LetterX).esp = Tail(g[2].esp)
            /\ ReadFormat(g[2], LetterX).text = g[2].text \o o
        BY <3>1, <3>2, ReadInto
      <3>4. QED
        BY <2>2, <3>3 DEF o
    <2>7. QED
      BY <2>1, <2>4, <2>6 DEF q
  <1>7. ASSUME NEW d \in Conversions, q = Two(d)
        PROVE  Ready(t) /\ t.text = s.text \o Out(p) /\ t.esp = Tail(s.esp)
    <2>1. Len(q) = 2 /\ q[1] = PERCENT /\ q[2] = d
      BY <1>7, SpellingsAre
    <2>2. g[1] = ReadFormat(s, PERCENT) /\ g[2] = ReadFormat(g[1], d)
      <3>1. g[1] = ReadFormat(g[1 - 1], q[1]) /\ g[2] = ReadFormat(g[2 - 1], q[2])
        BY <1>3, <2>1
      <3>2. 1 - 1 = 0 /\ 2 - 1 = 1
        OBVIOUS
      <3>3. QED
        BY <1>3, <2>1, <3>1, <3>2
    <2>3. Converting(g[1]) /\ g[1].alternate = FALSE /\ g[1].esp = s.esp /\ g[1].text = s.text
      BY <2>2, ReadPercent
    <2>4. Converted(d, g[1].alternate, w) = Out(p)
      <3>1. Converted(d, Alternate(p), w) = Out(p)
        BY <1>1, <2>1
      <3>2. ~Alternate(p)
        BY <1>4, <2>1
      <3>3. CASE d = LetterX
        BY <2>3, <3>1, <3>2, <3>3, ConvertedIs
      <3>4. CASE d # LetterX
        BY <3>1, <3>4, OtherConversions
      <3>5. QED
        BY <3>3, <3>4
    <2>5. Ready(g[2]) /\ g[2].esp = Tail(g[1].esp) /\ g[2].text = g[1].text \o Out(p)
      <3>1. Pushed(g[1], w) /\ Converting(g[1])
        BY <1>5, <2>3
      <3> DEFINE o == Out(p)
      <3>2. o \in Seq(Nat) /\ Converted(d, g[1].alternate, w) = o
        BY <1>1, <2>4
      <3> HIDE DEF o
      <3>3. /\ Ready(ReadFormat(g[1], d)) /\ ReadFormat(g[1], d).esp = Tail(g[1].esp)
            /\ ReadFormat(g[1], d).text = g[1].text \o o
        BY <3>1, <3>2, ReadInto
      <3>4. QED
        BY <2>2, <3>3 DEF o
    <2>6. QED
      BY <2>1, <2>3, <2>5 DEF q
  <1>8. LetterX \in Conversions /\ LetterU \in Conversions /\ LetterD \in Conversions
        /\ LetterC \in Conversions /\ LetterS \in Conversions
    BY DEF Conversions
  <1>9. QED
    BY <1>2, <1>6, <1>7, <1>8

(* A piece that takes none is read.                                         *)
LEMMA SilenceRead ==
  ASSUME NEW p, IsPiece(p), ~Takes(p), NEW s, Ready(s),
         NEW g, Reads(g, s, p.spelling), NEW t, t = g[Len(p.spelling)]
  PROVE  After(t, s, Out(p), s.esp)
  <1> SUFFICES Ready(t) /\ t.text = s.text \o Out(p) /\ t.esp = s.esp
    BY DEF After
  <1> DEFINE q == p.spelling
  <1>1. g[0] = s /\ \A i \in 1 .. Len(q) : g[i] = ReadFormat(g[i - 1], q[i])
    BY DEF Reads
  <1>2. s.text \in Seq(Nat) /\ Out(p) \in Seq(Nat)
    BY OutIs DEF Ready, State
  <1>3. CASE Plain(p)
    <2>1. Len(q) = 1 /\ q \in Seq(Character) /\ q \in Seq(Nat) /\ q[1] # PERCENT /\ q[1] \in Character
      <3>1. Len(q) = 1 /\ q \in Seq(Character) /\ q[1] # PERCENT
        BY <1>3 DEF Plain
      <3>2. q[1] \in Character
        BY <3>1, ElementOfSeq
      <3>3. QED
        BY <3>1, <3>2, CharactersAre
    <2>2. Out(p) = q
      BY <1>3 DEF Out, Plain
    <2> HIDE DEF q
    <2>3. g[1] = ReadFormat(s, q[1])
      <3>1. g[1] = ReadFormat(g[1 - 1], q[1]) /\ 1 - 1 = 0
        BY <1>1, <2>1
      <3>2. QED
        BY <1>1, <3>1
    <2>4. Ready(g[1]) /\ g[1].esp = s.esp /\ g[1].text = Append(s.text, q[1])
      BY <2>1, <2>3, ReadPlain
    <2>5. Append(s.text, q[1]) = s.text \o q
      BY <1>2, <2>1, OneMore
    <2>6. QED
      BY <2>1, <2>2, <2>4, <2>5 DEF q
  <1>4. CASE Silent(p)
    <2>1. q \in {Two(PERCENT), Two(SPACE)}
      BY <1>4 DEF Silent
    <2>2. Len(q) = 2 /\ q[1] = PERCENT /\ PERCENT # SPACE
      BY <2>1, SpellingsAre DEF PERCENT, SPACE
    <2> HIDE DEF q
    <2>3. g[1] = ReadFormat(s, PERCENT) /\ g[2] = ReadFormat(g[1], q[2])
      <3>1. g[1] = ReadFormat(g[1 - 1], q[1]) /\ g[2] = ReadFormat(g[2 - 1], q[2])
        BY <1>1, <2>2
      <3>2. 1 - 1 = 0 /\ 2 - 1 = 1
        OBVIOUS
      <3>3. QED
        BY <1>1, <2>2, <3>1, <3>2
    <2>4. Converting(g[1]) /\ g[1].esp = s.esp /\ g[1].text = s.text
      BY <2>3, ReadPercent
    <2>5. CASE q = Two(PERCENT)
      <3>1. q[2] = PERCENT
        BY <2>5, SpellingsAre
      <3>2. Ready(g[2]) /\ g[2].esp = s.esp /\ g[2].text = Append(s.text, PERCENT)
        BY <2>3, <2>4, <3>1, ReadAgain
      <3> DEFINE u == <<PERCENT>>
      <3>3. Out(p) = u
        BY <1>4, <2>2, <2>5 DEF Out, Silent, Two, q
      <3>4. u \in Seq(Nat) /\ Len(u) = 1 /\ u[1] = PERCENT
        BY DEF PERCENT
      <3> HIDE DEF u
      <3>5. Append(s.text, PERCENT) = s.text \o u
        BY <1>2, <3>4, OneMore
      <3>6. QED
        BY <2>2, <3>2, <3>3, <3>5 DEF q
    <2>6. CASE q = Two(SPACE)
      <3>1. q[2] = SPACE
        BY <2>6, SpellingsAre
      <3>2. Ready(g[2]) /\ g[2].esp = s.esp /\ g[2].text = s.text
        BY <2>3, <2>4, <3>1, ReadUnknown
      <3>3. Two(SPACE) # Two(PERCENT)
        BY <2>2, SpellingsAre
      <3>4. Out(p) = <<>>
        BY <1>4, <2>2, <2>6, <3>3 DEF Out, Silent, Two, q
      <3>5. s.text \o <<>> = s.text
        BY <1>2, ConcatEmptySeq
      <3>6. QED
        BY <2>2, <3>2, <3>4, <3>5 DEF q
    <2>7. QED
      BY <2>1, <2>5, <2>6
  <1>5. Plain(p) \/ Silent(p)
    <2>1. ~(p.arguments # <<>>)
      BY DEF Takes
    <2>2. \A e : Len(e) = 1 => e # <<>>
      <3>1. Len(<<>>) = 0
        OBVIOUS
      <3>2. QED
        BY <3>1
    <2>3. QED
      BY <2>1, <2>2, PieceIs DEF Word, Char, Str
  <1>6. QED
    BY <1>3, <1>4, <1>5

(* What is left of the words that the caller has pushed.                    *)
LeftOf(arguments, n) == SubSeq(arguments, n + 1, Len(arguments))

(* The first of the words that are left is the next one.                    *)
LEMMA RestIs ==
  ASSUME NEW a \in Seq(Nat)
  PROVE  /\ LeftOf(a, 0) = a
         /\ LeftOf(a, Len(a)) = Nothing
         /\ \A n \in Nat : n < Len(a) =>
              Pushed([esp |-> LeftOf(a, n)], a[n + 1]) /\ Tail(LeftOf(a, n)) = LeftOf(a, n + 1)
  <1> DEFINE L == Len(a)
  <1>1. L \in Nat
    BY LenProperties
  <1>2. LeftOf(a, 0) = a
    <2>1. SubSeq(a, 1, Len(a)) = a
      BY SubSeqFull
    <2>2. 0 + 1 = 1
      OBVIOUS
    <2>3. QED
      BY <2>1, <2>2 DEF LeftOf
  <1>3. LeftOf(a, L) = Nothing
    <2>1. L + 1 \in Int /\ L \in Int /\ L < L + 1
      BY <1>1
    <2> HIDE DEF L
    <2>2. SubSeq(a, L + 1, L) = <<>>
      BY <2>1, SubSeqEmpty
    <2>3. QED
      BY <2>2 DEF LeftOf, Nothing, L
  <1>4. ASSUME NEW n \in Nat, n < L
        PROVE  Pushed([esp |-> LeftOf(a, n)], a[n + 1]) /\ Tail(LeftOf(a, n)) = LeftOf(a, n + 1)
    <2>1. n + 1 \in 1 .. L /\ L \in (n + 1) .. L
      BY <1>1, <1>4
    <2>2. Head(SubSeq(a, n + 1, L)) = a[n + 1] /\ Tail(SubSeq(a, n + 1, L)) = SubSeq(a, (n + 1) + 1, L)
      BY <2>1, HeadTailOfSubSeq
    <2>3. SubSeq(a, n + 1, L) # <<>>
      <3> DEFINE r == SubSeq(a, n + 1, L)
      <3>1. \A i \in (n + 1) .. L : a[i] \in Nat
        <4>1. ASSUME NEW i \in (n + 1) .. L PROVE i \in 1 .. L
          BY <1>1
        <4>2. QED
          BY <4>1, ElementOfSeq
      <3>2. n + 1 \in Int /\ L \in Int /\ n + 1 <= L
        BY <1>1, <1>4
      <3>3. Len(r) = L - (n + 1) + 1
        BY <3>1, <3>2, SubSeqProperties
      <3> HIDE DEF r
      <3>4. Len(r) # 0
        BY <1>1, <3>2, <3>3
      <3>5. r # Nothing
        <4>1. Len(Nothing) = 0
          BY DEF Nothing
        <4>2. QED
          BY <3>4, <4>1
      <3>6. QED
        BY <3>5 DEF r, Nothing
    <2>4. QED
      BY <2>2, <2>3 DEF LeftOf, Pushed
  <1>5. QED
    BY <1>2, <1>3, <1>4

(* Spellings and arguments are sequences, of one argument at most.          *)
LEMMA PieceTyped ==
  ASSUME NEW p, IsPiece(p)
  PROVE  /\ p.spelling \in Seq(Nat) /\ p.arguments \in Seq(Nat)
         /\ Takes(p) => Len(p.arguments) = 1
         /\ ~Takes(p) => Len(p.arguments) = 0
  <1>1. \A c \in Nat : Two(c) \in Seq(Nat)
    BY DEF Two, PERCENT
  <1>2. Three \in Seq(Nat)
    BY DEF Three, PERCENT, HASH, LetterX
  <1>3. p.spelling \in Seq(Nat)
    <2>1. /\ PERCENT \in Nat /\ SPACE \in Nat /\ LetterX \in Nat /\ LetterU \in Nat /\ LetterD \in Nat
          /\ LetterC \in Nat /\ LetterS \in Nat
      BY DEF PERCENT, SPACE, LetterX, LetterU, LetterD, LetterC, LetterS
    <2>2. CASE Plain(p)
      BY <2>2, CharactersAre DEF Plain
    <2>3. CASE ~Plain(p)
      <3>1. p.spelling \in {Two(PERCENT), Two(SPACE), Three, Two(LetterX), Two(LetterU), Two(LetterD),
                            Two(LetterC), Two(LetterS)}
        BY <2>3, PieceIs DEF Silent, Word, Char, Str
      <3>2. QED
        BY <1>1, <1>2, <2>1, <3>1
    <2>4. QED
      BY <2>2, <2>3
  <1>4. p.arguments \in Seq(Nat) /\ (Takes(p) => Len(p.arguments) = 1)
    <2>1. CASE Plain(p) \/ Silent(p)
      <3>1. p.arguments = <<>>
        BY <2>1 DEF Plain, Silent
      <3>2. <<>> \in Seq(Nat)
        BY EmptySeq
      <3>3. QED
        BY <3>1, <3>2 DEF Takes
    <2>2. CASE Word(p) \/ Char(p) \/ Str(p)
      BY <2>2 DEF Word, Char, Str
    <2>3. QED
      BY <2>1, <2>2, PieceIs
  <1>5. ~Takes(p) => Len(p.arguments) = 0
    <2>1. Len(Nothing) = 0
      BY DEF Nothing
    <2>2. ~Takes(p) => p.arguments = Nothing
      BY DEF Takes, Nothing
    <2>3. QED
      BY <2>1, <2>2
  <1>6. QED
    BY <1>3, <1>4, <1>5

(* Where the parts of what is joined begin.                                 *)
Begins(at, K, whole, parts) ==
  /\ at \in [0 .. K -> 0 .. Len(whole)]
  /\ at[0] = 0 /\ at[K] = Len(whole)
  /\ \A k \in 1 .. K :
       /\ at[k] = at[k - 1] + Len(parts[k])
       /\ \A i \in 1 .. Len(parts[k]) : whole[at[k - 1] + i] = parts[k][i]

(* There are such beginnings.                                               *)
LEMMA PartsAt ==
  ASSUME NEW X, NEW parts \in Seq(Seq(X)), NEW K \in Nat, Len(parts) = K
  PROVE  \E at : Begins(at, K, Joined(parts), parts)
  <1>1. PICK f \in [0 .. Len(parts) -> Seq(X)] :
          /\ f[0] = Nothing /\ \A n \in 1 .. Len(parts) : f[n] = f[n - 1] \o parts[n]
          /\ Joined(parts) = f[Len(parts)]
    BY JoinLoop
  <1>2. Lands(f, parts)
    <2>1. Joining(f, X, parts)
      BY <1>1 DEF Joining
    <2>2. QED
      BY <2>1, JoinedAt
  <1> DEFINE at == [k \in 0 .. K |-> Len(f[k])]
             J == Joined(parts)
  <1>3. /\ \A k \in 0 .. K : at[k] = Len(f[k])
        /\ \A k \in 1 .. K : k \in 0 .. K /\ k - 1 \in 0 .. K
        /\ 0 \in 0 .. K /\ K \in 0 .. K
    OBVIOUS
  <1>4. J = f[K]
    BY <1>1
  <1>5. /\ \A n \in 0 .. K : Len(f[n]) \in Nat /\ Len(f[n]) <= Len(J)
        /\ \A n \in 1 .. K :
             /\ Len(f[n]) = Len(f[n - 1]) + Len(parts[n])
             /\ \A i \in 1 .. Len(parts[n]) : J[Len(f[n - 1]) + i] = parts[n][i]
    BY <1>2, <1>4 DEF Lands
  <1>6. at \in [0 .. K -> 0 .. Len(J)]
    <2>1. Len(J) \in Nat
      BY <1>3, <1>4, <1>5
    <2>2. \A k \in 0 .. K : Len(f[k]) \in 0 .. Len(J)
      BY <1>5, <2>1
    <2>3. QED
      BY <2>2
  <1> HIDE DEF at, J
  <1>7. at[0] = 0 /\ at[K] = Len(J)
    BY <1>2, <1>3, <1>4 DEF Lands
  <1>8. ASSUME NEW k \in 1 .. K
        PROVE  /\ at[k] = at[k - 1] + Len(parts[k])
               /\ \A i \in 1 .. Len(parts[k]) : J[at[k - 1] + i] = parts[k][i]
    <2>1. at[k] = Len(f[k]) /\ at[k - 1] = Len(f[k - 1])
      BY <1>3
    <2>2. /\ Len(f[k]) = Len(f[k - 1]) + Len(parts[k])
          /\ \A i \in 1 .. Len(parts[k]) : J[Len(f[k - 1]) + i] = parts[k][i]
      BY <1>5
    <2>3. QED
      BY <2>1, <2>2, Zenon
  <1>9. Begins(at, K, J, parts)
    BY <1>6, <1>7, <1>8 DEF Begins
  <1>10. QED
    BY <1>9 DEF J

(* printf prints piece after piece and has then used up its arguments.      *)
Composed(pieces, K, S, A, o) ==
  /\ Len(S) = K /\ Len(A) = K
  /\ o \in [0 .. K -> Seq(Nat)] /\ o[0] = Nothing
  /\ \A k \in 1 .. K : /\ IsPiece(pieces[k]) /\ S[k] = pieces[k].spelling
                       /\ A[k] = pieces[k].arguments
                       /\ o[k] = o[k - 1] \o Out(pieces[k])

(* By induction over the pieces.                                            *)
LEMMA PiecesPrint ==
  ASSUME NEW K \in Nat, NEW pieces, NEW S \in Seq(Seq(Nat)), NEW A \in Seq(Seq(Nat)), NEW o,
         Composed(pieces, K, S, A, o), NEW t, t = printf(Joined(S), Joined(A))
  PROVE  t.text = o[K] /\ t.esp = Nothing
  <1> USE DEF Composed
  <1> DEFINE format == Joined(S)
             arguments == Joined(A)
             N == Len(arguments)
  <1>1. format \in Seq(Nat) /\ arguments \in Seq(Nat) /\ N \in Nat
    BY JoinedIsSeq, LenProperties
  <1>2. PICK at : Begins(at, K, format, S)
    BY PartsAt
  <1>3. PICK used : Begins(used, K, arguments, A)
    BY PartsAt
  <1>4. \A k \in 0 .. K : at[k] \in Nat /\ at[k] <= Len(format)
    <2>1. Len(format) \in Nat
      BY <1>1, LenProperties
    <2>2. \A k \in 0 .. K : at[k] \in 0 .. Len(format)
      BY <1>2 DEF Begins
    <2> HIDE DEF format
    <2>3. QED
      BY <2>1, <2>2
  <1>5. \A k \in 0 .. K : used[k] \in Nat /\ used[k] <= N
    <2>1. \A k \in 0 .. K : used[k] \in 0 .. N
      BY <1>3 DEF Begins
    <2> HIDE DEF N
    <2>2. QED
      BY <1>1, <2>1
  <1>6. PICK f : /\ f[0] = Start(arguments)
                 /\ \A n \in 1 .. Len(format) : f[n] = ReadFormat(f[n - 1], format[n])
                 /\ printf(format, arguments) = f[Len(format)]
    BY <1>1, PrintfRuns
  <1>7. Len(format) \in Nat
    BY <1>1, LenProperties
  <1> HIDE DEF format, arguments, N
  <1> DEFINE ReadUpTo(k) == /\ Ready(f[at[k]]) /\ f[at[k]].text = o[k]
                        /\ f[at[k]].esp = LeftOf(arguments, used[k])
             G == {k \in 0 .. K : ReadUpTo(k)}
  <1>8. 0 \in G
    <2>1. Start(arguments).text = Nothing /\ Start(arguments).esp = arguments /\ Ready(Start(arguments))
      <3>1. Nothing \in Seq(Nat)
        BY EmptySeq DEF Nothing
      <3>2. Start(arguments) = [converting |-> FALSE, alternate |-> FALSE, esp |-> arguments,
                                text |-> Nothing]
        BY DEF Start, Nothing
      <3>3. QED
        BY <1>1, <3>1, <3>2 DEF Ready, State
    <2>2. LeftOf(arguments, 0) = arguments
      BY <1>1, RestIs
    <2>3. QED
      BY <1>2, <1>3, <1>6, <2>1, <2>2 DEF Begins
  <1>9. ASSUME NEW k \in 1 .. K, k - 1 \in G PROVE k \in G
    <2> DEFINE p == pieces[k]
               b == at[k - 1]
               u == used[k - 1]
               r == f[b]
               sp == p.spelling
               M == Len(sp)
               g == [i \in 0 .. M |-> f[b + i]]
    <2>1. k \in 0 .. K /\ k - 1 \in 0 .. K
      OBVIOUS
    <2>2. IsPiece(p) /\ S[k] = sp /\ A[k] = p.arguments /\ o[k] = o[k - 1] \o Out(p)
      OBVIOUS
    <2>3. Ready(r) /\ r.text = o[k - 1] /\ r.esp = LeftOf(arguments, u)
      BY <1>9
    <2>4. M \in Nat /\ b \in Nat /\ at[k] = b + M /\ b + M <= Len(format)
          /\ \A i \in 1 .. M : format[b + i] = sp[i]
      <3>1. M \in Nat
        BY <2>2, PieceTyped, LenProperties
      <3>2. QED
        <4>1. /\ b \in Nat /\ at[k] \in Nat /\ at[k] <= Len(format)
          BY <1>4, <2>1
        <4>2. at[k] = at[k - 1] + Len(S[k])
              /\ \A i \in 1 .. Len(S[k]) : format[at[k - 1] + i] = S[k][i]
          BY <1>2 DEF Begins
        <4>3. S[k] = sp
          BY <2>2
        <4>4. at[k] = b + M /\ \A i \in 1 .. M : format[b + i] = sp[i]
          BY <4>2, <4>3
        <4> HIDE DEF b, M
        <4>5. QED
          BY <3>1, <4>1, <4>4
    <2>5. u \in Nat /\ used[k] \in Nat /\ used[k] <= N /\ used[k] = u + Len(p.arguments)
          /\ \A i \in 1 .. Len(p.arguments) : arguments[u + i] = p.arguments[i]
      <3>1. u \in Nat /\ used[k] \in Nat /\ used[k] <= N
        BY <1>5, <2>1
      <3>2. used[k] = used[k - 1] + Len(A[k])
            /\ \A i \in 1 .. Len(A[k]) : arguments[used[k - 1] + i] = A[k][i]
        BY <1>3 DEF Begins
      <3>3. A[k] = p.arguments
        BY <2>2
      <3>4. QED
        BY <3>1, <3>2, <3>3
    <2> HIDE DEF p, b, u, sp, M
    <2>6. g[0] = r /\ g[M] = f[at[k]]
      <3>1. b + 0 = b /\ 0 \in 0 .. M /\ M \in 0 .. M
        <4>1. M \in Nat /\ b \in Nat
          BY <2>4
        <4>2. QED
          BY <4>1
      <3>2. at[k] = b + M
        BY <2>4
      <3>3. QED
        BY <3>1, <3>2 DEF r
    <2>7. ASSUME NEW i \in 1 .. M PROVE g[i] = ReadFormat(g[i - 1], sp[i])
      <3>1. ASSUME NEW j, j = b + i PROVE g[i] = ReadFormat(g[i - 1], sp[i])
        <4> DEFINE F == Len(format)
        <4>0. F \in Nat /\ M \in Nat /\ b \in Nat /\ b + M <= F
          BY <1>7, <2>4
        <4> HIDE DEF F
        <4>1. j \in 1 .. F /\ j - 1 = b + (i - 1) /\ i \in 0 .. M /\ i - 1 \in 0 .. M
          BY <3>1, <4>0
        <4>2. f[j] = ReadFormat(f[j - 1], format[j]) /\ format[j] = sp[i]
          BY <1>6, <2>4, <3>1, <4>1 DEF F
        <4>3. g[i] = f[j] /\ g[i - 1] = f[j - 1]
          BY <3>1, <4>1
        <4> HIDE DEF g
        <4>4. QED
          BY <4>2, <4>3
      <3>2. QED
        BY <3>1
    <2> HIDE DEF g, r, Composed, ReadUpTo, G
    <2>8. CASE Takes(p)
      <3>1. Len(p.arguments) = 1
        BY <2>2, <2>8, PieceTyped
      <3>2. u < N /\ arguments[u + 1] = p.arguments[1] /\ used[k] = u + 1
        <4>1. 1 \in 1 .. Len(p.arguments)
          BY <3>1
        <4>2. N \in Nat
          BY <1>1 DEF N
        <4>3. QED
          BY <2>5, <3>1, <4>1, <4>2
      <3>3. /\ Pushed([esp |-> LeftOf(arguments, u)], p.arguments[1])
            /\ Tail(LeftOf(arguments, u)) = LeftOf(arguments, u + 1)
        BY <1>1, <2>5, <3>2, RestIs DEF N
      <3>4. Pushed(r, p.arguments[1])
        BY <2>3, <3>3 DEF Pushed
      <3>5. Ready(g[M]) /\ g[M].text = r.text \o Out(p) /\ g[M].esp = Tail(r.esp)
        <4>1. Reads(g, r, p.spelling)
          BY <2>6, <2>7 DEF M, sp, Reads
        <4>2. IsPiece(p) /\ Ready(r)
          BY <2>2, <2>3
        <4> DEFINE z == g[M]
        <4>3. z = g[Len(p.spelling)]
          BY DEF M, sp
        <4> HIDE DEF z
        <4>4. After(z, r, Out(p), Tail(r.esp))
          BY <2>8, <3>4, <4>1, <4>2, <4>3, ConversionRead
        <4>5. QED
          BY <4>4 DEF After, z
      <3>6. QED
        BY <2>1, <2>2, <2>3, <2>6, <3>2, <3>3, <3>5 DEF G, ReadUpTo
    <2>9. CASE ~Takes(p)
      <3>1. used[k] = u
        <4>1. Len(p.arguments) = 0
          BY <2>2, <2>9, PieceTyped
        <4>2. used[k] = u + Len(p.arguments) /\ u \in Nat
          BY <2>5
        <4>3. QED
          BY <4>1, <4>2
      <3>2. Ready(g[M]) /\ g[M].text = r.text \o Out(p) /\ g[M].esp = r.esp
        <4>1. Reads(g, r, p.spelling)
          BY <2>6, <2>7 DEF M, sp, Reads
        <4>2. IsPiece(p) /\ Ready(r)
          BY <2>2, <2>3
        <4> DEFINE z == g[M]
        <4>3. z = g[Len(p.spelling)]
          BY DEF M, sp
        <4> HIDE DEF z
        <4>4. After(z, r, Out(p), r.esp)
          BY <2>9, <4>1, <4>2, <4>3, SilenceRead
        <4>5. QED
          BY <4>4 DEF After, z
      <3>3. QED
        BY <2>1, <2>2, <2>3, <2>6, <3>1, <3>2 DEF G, ReadUpTo
    <2>10. QED
      BY <2>8, <2>9
  <1>10. K \in G
    <2> HIDE DEF G
    <2>1. \A k \in 0 .. K : k \in G
      BY <1>8, <1>9, GoesOn
    <2>2. QED
      BY <2>1
  <1>11. ReadUpTo(K)
    BY <1>10
  <1>12. LeftOf(arguments, N) = Nothing
    BY <1>1, RestIs DEF N
  <1>13. QED
    BY <1>2, <1>3, <1>6, <1>11, <1>12 DEF format, arguments, Begins, N

(* printf: each piece has its own part of the text.                         *)
LEMMA PrintfMeans ==
  ASSUME NEW pieces \in Formats, NEW t, t = printf(SpellingOf(pieces), ArgumentsOf(pieces))
  PROVE  /\ t.text \in Seq(Nat) /\ t.esp = <<>>
         /\ \E cut \in [0 .. Len(pieces) -> 0 .. Len(t.text)] :
              /\ cut[0] = 0 /\ cut[Len(pieces)] = Len(t.text)
              /\ \A k \in DOMAIN pieces :
                    /\ cut[k - 1] <= cut[k]
                    /\ Means(SubSeq(t.text, cut[k - 1] + 1, cut[k]), pieces[k])
  <1>1. PICK K \in 1 .. MaxPieces : pieces \in [1 .. K -> Pieces]
    BY DEF Formats
  <1>2. K \in Nat /\ Len(pieces) = K /\ DOMAIN pieces = 1 .. K
    <2>1. MaxPieces \in Nat
      BY ConsoleAssumption
    <2>2. K \in Nat
      BY <2>1
    <2>3. pieces \in Seq(Pieces)
      BY <1>1, <2>2
    <2>4. Len(pieces) = K
      <3>1. Len(pieces) \in Nat /\ DOMAIN pieces = 1 .. Len(pieces) /\ DOMAIN pieces = 1 .. K
        BY <1>1, <2>3, LenProperties
      <3>2. QED
        BY <1>1, <2>2, <2>3
    <2>5. QED
      BY <1>1, <2>2, <2>4
  <1>3. \A k \in 1 .. K : IsPiece(pieces[k])
    BY <1>1, ConsoleAssumption
  <1> DEFINE S == [k \in 1 .. K |-> pieces[k].spelling]
             A == [k \in 1 .. K |-> pieces[k].arguments]
             O == [k \in 1 .. K |-> Out(pieces[k])]
             X == Seq(Nat)
  <1>4. S \in Seq(Seq(Nat)) /\ A \in Seq(Seq(Nat)) /\ O \in Seq(Seq(Nat))
    <2>1. \A k \in 1 .. K : pieces[k].spelling \in X /\ pieces[k].arguments \in X /\ Out(pieces[k]) \in X
      BY <1>3, PieceTyped, OutIs
    <2> HIDE DEF X
    <2>2. S \in [1 .. K -> X] /\ A \in [1 .. K -> X] /\ O \in [1 .. K -> X]
      BY <2>1
    <2> HIDE DEF S, A, O
    <2>3. S \in Seq(X) /\ A \in Seq(X) /\ O \in Seq(X)
      BY <1>2, <2>2
    <2>4. QED
      BY <2>3 DEF X
  <1>5. Len(S) = K /\ Len(A) = K /\ Len(O) = K
    BY <1>2
  <1>6. SpellingOf(pieces) = Joined(S) /\ ArgumentsOf(pieces) = Joined(A)
    BY <1>2 DEF SpellingOf, ArgumentsOf
  <1>7. \A k \in 1 .. K : S[k] = pieces[k].spelling /\ A[k] = pieces[k].arguments /\ O[k] = Out(pieces[k])
    OBVIOUS
  <1> HIDE DEF S, A, O
  <1>8. PICK o \in [0 .. K -> Seq(Nat)] :
          /\ o[0] = Nothing /\ \A n \in 1 .. K : o[n] = o[n - 1] \o O[n]
          /\ Joined(O) = o[K]
    <2>1. PICK o \in [0 .. Len(O) -> Seq(Nat)] :
            /\ o[0] = Nothing /\ \A n \in 1 .. Len(O) : o[n] = o[n - 1] \o O[n]
            /\ Joined(O) = o[Len(O)]
      BY <1>4, JoinLoop
    <2>2. QED
      BY <1>5, <2>1
  <1>9. t.text = Joined(O) /\ t.esp = Nothing
    <2>1. Composed(pieces, K, S, A, o)
      BY <1>3, <1>5, <1>7, <1>8 DEF Composed
    <2>2. t = printf(Joined(S), Joined(A))
      BY <1>6
    <2>3. t.text = o[K] /\ t.esp = Nothing
      BY <1>2, <1>4, <2>1, <2>2, PiecesPrint
    <2>4. QED
      BY <1>8, <2>3
  <1> DEFINE J == Joined(O)
  <1>10. J \in Seq(Nat) /\ Len(J) \in Nat
    BY <1>4, JoinedIsSeq, LenProperties
  <1>11. PICK cut : Begins(cut, K, J, O)
    BY <1>2, <1>4, <1>5, PartsAt
  <1> HIDE DEF J
  <1>12. ASSUME NEW k \in 1 .. K
         PROVE  cut[k - 1] <= cut[k] /\ Means(SubSeq(J, cut[k - 1] + 1, cut[k]), pieces[k])
    <2> DEFINE w == O[k]
               L == Len(w)
               c == cut[k - 1]
               d == cut[k]
               q == SubSeq(J, c + 1, d)
    <2>1. w \in Seq(Nat) /\ L \in Nat
      <3>1. w \in Seq(Nat)
        BY <1>3, <1>7, OutIs
      <3>2. QED
        BY <3>1, LenProperties
    <2>2. c \in 0 .. Len(J) /\ d \in 0 .. Len(J)
      <3>1. k - 1 \in 0 .. K /\ k \in 0 .. K
        BY <1>2
      <3>2. QED
        BY <1>11, <3>1 DEF Begins
    <2>3. d = c + L /\ \A i \in 1 .. L : J[c + i] = w[i]
      BY <1>11 DEF Begins
    <2> HIDE DEF w, L, c, d
    <2>4. c \in Nat /\ d \in Nat /\ c <= d /\ d <= Len(J)
      BY <1>10, <2>1, <2>2, <2>3
    <2>5. /\ q \in Seq(Nat) /\ Len(q) = IF c + 1 <= d THEN d - (c + 1) + 1 ELSE 0
          /\ \A i \in 1 .. (d - (c + 1) + 1) : q[i] = J[(c + 1) + i - 1]
      <3>1. \A i \in (c + 1) .. d : J[i] \in Nat
        <4>1. ASSUME NEW i \in (c + 1) .. d PROVE i \in 1 .. Len(J)
          BY <1>10, <2>4
        <4>2. QED
          BY <1>10, <4>1, ElementOfSeq
      <3>2. c + 1 \in Int /\ d \in Int
        BY <2>4
      <3> DEFINE m == c + 1
      <3>3. m \in Int /\ \A i \in m .. d : J[i] \in Nat
        BY <3>1, <3>2
      <3> HIDE DEF m
      <3>4. /\ SubSeq(J, m, d) \in Seq(Nat) /\ Len(SubSeq(J, m, d)) = IF m <= d THEN d - m + 1 ELSE 0
            /\ \A i \in 1 .. d - m + 1 : SubSeq(J, m, d)[i] = J[m + i - 1]
        BY <3>2, <3>3, SubSeqProperties
      <3>5. QED
        BY <3>4 DEF m
    <2> HIDE DEF q
    <2>6. Len(q) = L
      BY <2>1, <2>3, <2>4, <2>5
    <2>7. ASSUME NEW i \in 1 .. L PROVE q[i] = w[i]
      <3>1. i \in 1 .. (d - (c + 1) + 1) /\ (c + 1) + i - 1 = c + i
        BY <2>1, <2>3, <2>4
      <3>2. q[i] = J[c + i]
        BY <2>5, <3>1
      <3>3. QED
        BY <2>3, <3>2
    <2>8. q = w
      BY <2>1, <2>5, <2>6, <2>7, SeqEqual DEF L
    <2>9. Means(w, pieces[k])
      BY <1>3, <1>7, OutIs DEF w
    <2>10. QED
      BY <2>4, <2>8, <2>9 DEF q, c, d
  <1>13. cut \in [0 .. Len(pieces) -> 0 .. Len(t.text)] /\ cut[Len(pieces)] = Len(t.text)
    BY <1>2, <1>9, <1>11 DEF J, Begins
  <1>14. \A k \in DOMAIN pieces :
            /\ cut[k - 1] <= cut[k]
            /\ Means(SubSeq(t.text, cut[k - 1] + 1, cut[k]), pieces[k])
    BY <1>2, <1>9, <1>12 DEF J
  <1>15. t.text \in Seq(Nat) /\ t.esp = <<>>
    BY <1>9, <1>10 DEF J, Nothing
  <1>16. QED
    BY <1>11, <1>13, <1>14, <1>15 DEF Begins
-----------------------------------------------------------------------------
(* The console. *)

Cursors == [x : 0 .. (NUM_COLS - 1), y : Nat]

(* A character leaves the cursor in a column of the screen and, unless it   *)
(* is a newline, on the screen.                                             *)
LEMMA PutcIs ==
  ASSUME NEW cursor \in Cursors, NEW c
  PROVE  putc(cursor, c) \in Cursors /\ (c # NEWLINE => putc(cursor, c).y < NUM_ROWS)
  <1>1. NUM_ROWS \in Nat \ {0} /\ NUM_COLS \in Nat \ {0}
    BY ConsoleAssumption
  <1>2. CASE c = NEWLINE
    <2>1. putc(cursor, c) = [cursor EXCEPT !.y = @ + 1, !.x = 0]
      BY <1>2 DEF putc
    <2>2. cursor.y + 1 \in Nat /\ 0 \in 0 .. (NUM_COLS - 1)
      BY <1>1 DEF Cursors
    <2>3. QED
      BY <1>2, <2>1, <2>2 DEF Cursors
  <1>3. CASE c # NEWLINE
    <2> DEFINE x == (cursor.x + 1) % NUM_COLS
               y == Rows(cursor.y + (x \div NUM_COLS))
    <2>1. putc(cursor, c) = [x |-> x, y |-> y]
      BY <1>3 DEF putc
    <2>2. x \in 0 .. (NUM_COLS - 1)
      BY <1>1 DEF Cursors
    <2>3. y \in 0 .. (NUM_ROWS - 1)
      <3> HIDE DEF x
      <3>1. x \in Nat /\ x < NUM_COLS /\ cursor.y \in Nat
        BY <1>1, <2>2 DEF Cursors
      <3>2. x \div NUM_COLS = 0
        BY <1>1, <3>1, DivSmall
      <3>3. cursor.y + (x \div NUM_COLS) \in Nat
        BY <3>1, <3>2
      <3>4. QED
        BY <1>1, <3>3 DEF Rows
    <2> HIDE DEF x, y
    <2>4. y \in Nat /\ y < NUM_ROWS
      BY <1>1, <2>3
    <2>5. QED
      BY <2>1, <2>2, <2>4 DEF Cursors
  <1>4. QED
    BY <1>2, <1>3

(* Printing character after character.                                      *)
LEMMA PutsLoop ==
  ASSUME NEW cursor \in Cursors, NEW text \in Seq(Nat)
  PROVE  \E f \in [0 .. Len(text) -> Cursors] :
           /\ f[0] = cursor
           /\ \A n \in 1 .. Len(text) : f[n] = putc(f[n - 1], text[n])
           /\ puts(cursor, text) = f[Len(text)]
  <1> DEFINE L == Len(text)
             St == Cursors
             m == cursor
             Turn(p, n) == putc(p, text[n])
             Goes(f) == f = [n \in 0 .. L |-> IF n = 0 THEN m ELSE Turn(f[n - 1], n)]
             loop == CHOOSE f : Goes(f)
  <1>1. puts(cursor, text) = loop[L]
    BY DEF puts
  <1>2. L \in Nat /\ m \in St
    BY LenProperties
  <1>3. \A p \in St, n \in 1 .. L : Turn(p, n) \in St
    BY PutcIs
  <1> HIDE DEF L, St, m, Turn
  <1>4. \E f : Goes(f)
    <2> DEFINE T == [n \in 1 .. L |-> [p \in St |-> Turn(p, n)]]
    <2>1. T \in Turns(St, L)
      BY <1>3 DEF Turns
    <2> HIDE DEF T
    <2>2. PICK f : LoopOf(f, St, m, T, L)
      BY <1>2, <2>1, LoopRuns
    <2> USE DEF T
    <2>3. ASSUME NEW n \in 0 .. L PROVE f[n] = IF n = 0 THEN m ELSE Turn(f[n - 1], n)
      <3>1. f \in [0 .. L -> St] /\ f[0] = m
        BY <2>2 DEF LoopOf
      <3>2. CASE n # 0
        <4>1. n \in 1 .. L /\ n - 1 \in 0 .. L
          BY <1>2, <3>2
        <4> HIDE DEF T
        <4>2. f[n] = T[n][f[n - 1]]
          BY <2>2, <4>1 DEF LoopOf
        <4> USE DEF T
        <4>3. f[n - 1] \in St
          BY <3>1, <4>1
        <4> HIDE DEF Goes
        <4>4. QED
          BY <3>2, <4>1, <4>2, <4>3
      <3>3. QED
        BY <3>1, <3>2
    <2>4. f = [n \in 0 .. L |-> f[n]]
      BY <2>2 DEF LoopOf
    <2> HIDE DEF T
    <2>5. QED
      BY <2>3, <2>4
  <1>5. Goes(loop)
    <2> HIDE DEF Goes
    <2>1. QED
      BY <1>4
  <1> HIDE DEF loop
  <1>6. loop[0] = m /\ \A n \in 1 .. L : loop[n] = Turn(loop[n - 1], n)
    BY <1>2, <1>5
  <1>7. loop = [n \in 0 .. L |-> loop[n]]
    BY <1>5
  <1> HIDE DEF Goes
  <1>8. loop \in [0 .. L -> St]
    <2>1. Stays(loop, St, L)
      BY <1>2, <1>3, <1>6, <1>7 DEF Stays
    <2>2. QED
      BY <1>2, <2>1, LoopStays
  <1>9. QED
    BY <1>1, <1>6, <1>8 DEF L, St, m, Turn

(* So does a text, when it ends in no newline.                              *)
LEMMA PutsIs ==
  ASSUME NEW cursor \in Cursors, NEW text \in Seq(Nat)
  PROVE  /\ puts(cursor, text) \in Cursors
         /\ text # <<>> /\ Last(text) # NEWLINE => puts(cursor, text).y < NUM_ROWS
  <1> DEFINE L == Len(text)
  <1>1. L \in Nat
    BY LenProperties
  <1>2. PICK f \in [0 .. L -> Cursors] :
          /\ f[0] = cursor /\ \A n \in 1 .. L : f[n] = putc(f[n - 1], text[n])
          /\ puts(cursor, text) = f[L]
    BY PutsLoop
  <1>3. text # <<>> => L # 0
    BY EmptySeq
  <1>4. Last(text) = text[L]
    BY DEF Last
  <1> HIDE DEF L
  <1>5. puts(cursor, text) \in Cursors
    BY <1>1, <1>2
  <1>6. ASSUME L # 0, text[L] # NEWLINE PROVE puts(cursor, text).y < NUM_ROWS
    <2>1. L \in 1 .. L /\ L - 1 \in 0 .. L
      BY <1>1, <1>6
    <2>2. f[L] = putc(f[L - 1], text[L]) /\ f[L - 1] \in Cursors
      BY <1>2, <2>1
    <2>3. QED
      BY <1>2, <1>6, <2>2, PutcIs
  <1>7. QED
    BY <1>3, <1>4, <1>5, <1>6

(* backspace leaves the cursor in a column of the screen.                   *)
LEMMA BackspaceIs ==
  ASSUME NEW cursor \in Cursors
  PROVE  backspace(cursor) \in Cursors
  <1>1. NUM_ROWS \in Nat \ {0} /\ NUM_COLS \in Nat \ {0}
    BY ConsoleAssumption
  <1>2. CASE cursor.x = 0
    BY <1>2 DEF backspace
  <1>3. CASE cursor.x # 0
    <2> DEFINE back == [cursor EXCEPT !.x = @ - 1]
               blanked == putc(back, SPACE)
    <2>1. backspace(cursor) = [blanked EXCEPT !.x = @ - 1]
      BY <1>3 DEF backspace
    <2>2. cursor.x \in 1 .. (NUM_COLS - 1)
      BY <1>1, <1>3 DEF Cursors
    <2>3. back \in Cursors /\ back.x = cursor.x - 1
      BY <1>1, <2>2 DEF Cursors
    <2>4. blanked.x = cursor.x
      <3> HIDE DEF back
      <3>1. SPACE # NEWLINE
        BY DEF SPACE, NEWLINE
      <3>2. blanked.x = (back.x + 1) % NUM_COLS
        BY <3>1 DEF putc
      <3>3. back.x + 1 = cursor.x /\ cursor.x \in Nat /\ cursor.x < NUM_COLS
        BY <1>1, <2>2, <2>3
      <3>4. cursor.x % NUM_COLS = cursor.x
        BY <1>1, <3>3, DivSmall
      <3>5. QED
        BY <3>2, <3>3, <3>4
    <2>5. blanked \in Cursors
      BY <2>3, PutcIs
    <2> HIDE DEF blanked
    <2>6. blanked.x - 1 \in 0 .. (NUM_COLS - 1)
      BY <1>1, <2>2, <2>4
    <2>7. QED
      BY <2>1, <2>5, <2>6 DEF Cursors
  <1>4. QED
    BY <1>2, <1>3

(* The texts that are printed.                                              *)
LEMMA TextsAre ==
  ASSUME NEW k \in DOMAIN Texts
  PROVE  Texts[k] \in Seq(Nat)
  <1>1. k \in 1 .. Len(Texts) /\ Texts \in Seq(Seq(Character))
    BY ConsoleAssumption, LenProperties
  <1>2. Texts[k] \in Seq(Character)
    BY <1>1, ElementOfSeq
  <1>3. QED
    BY <1>2, CharactersAre

(* The cursor stays on or below the screen, and what printf prints means    *)
(* its arguments.                                                           *)
ConsoleInv == screen \in Cursors /\ PrintfPrintsMeaning /\ CursorReturns

(* printf keeps the invariant of the console.                               *)
LEMMA PrintKeepsConsole ==
  ASSUME ConsoleInv, NEW pieces \in Formats, PrintFormat(pieces)
  PROVE  ConsoleInv'
  <1> DEFINE t == printf(SpellingOf(pieces), ArgumentsOf(pieces))
  <1>1. /\ call'.fn = "printf" /\ call'.pieces = pieces /\ call'.text = t.text /\ call'.left = t.esp
        /\ screen' = puts(screen, t.text)
    BY DEF PrintFormat, Printed
  <1> HIDE DEF t
  <1>2. /\ t.text \in Seq(Nat) /\ t.esp = <<>>
        /\ \E cut \in [0 .. Len(pieces) -> 0 .. Len(t.text)] :
              /\ cut[0] = 0 /\ cut[Len(pieces)] = Len(t.text)
              /\ \A k \in DOMAIN pieces :
                    /\ cut[k - 1] <= cut[k]
                    /\ Means(SubSeq(t.text, cut[k - 1] + 1, cut[k]), pieces[k])
    BY PrintfMeans DEF t
  <1>3. /\ screen' \in Cursors
        /\ t.text # <<>> /\ Last(t.text) # NEWLINE => screen'.y < NUM_ROWS
    BY <1>1, <1>2, PutsIs DEF ConsoleInv
  <1>4. PrintfPrintsMeaning'
    BY <1>1, <1>2 DEF PrintfPrintsMeaning
  <1>5. CursorReturns'
    BY <1>1, <1>3 DEF CursorReturns
  <1>6. QED
    BY <1>3, <1>4, <1>5 DEF ConsoleInv

(* So does puts.                                                            *)
LEMMA PutKeepsConsole ==
  ASSUME ConsoleInv, NEW text \in Seq(Nat), PutText(text)
  PROVE  ConsoleInv'
  <1>1. call'.fn = "puts" /\ call'.text = text /\ screen' = puts(screen, text)
    BY DEF PutText, Printed
  <1>2. screen' \in Cursors /\ (text # <<>> /\ Last(text) # NEWLINE => screen'.y < NUM_ROWS)
    BY <1>1, PutsIs DEF ConsoleInv
  <1>3. QED
    BY <1>1, <1>2 DEF ConsoleInv, PrintfPrintsMeaning, CursorReturns

(* Every call keeps the invariant of the console.                           *)
LEMMA NextKeepsConsole == ConsoleInv /\ [LibraryNext]_libraryVars => ConsoleInv'
  <1> SUFFICES ASSUME ConsoleInv, [LibraryNext]_libraryVars PROVE ConsoleInv'
    OBVIOUS
  <1>1. ASSUME screen' \in Cursors, call'.fn \notin {"printf", "puts"} PROVE ConsoleInv'
    BY <1>1 DEF ConsoleInv, PrintfPrintsMeaning, CursorReturns
  <1>2. ASSUME screen' = screen, call'.fn \notin {"printf", "puts"} PROVE ConsoleInv'
    BY <1>1, <1>2 DEF ConsoleInv
  <1>3. CASE UNCHANGED libraryVars
    BY <1>3 DEF libraryVars, ConsoleInv, PrintfPrintsMeaning, CursorReturns
  <1>4. CASE call' = NoCall /\ UNCHANGED <<df, screen, typed, buffCopyArg>>
    BY <1>2, <1>4 DEF NoCall
  <1>5. CASE Call
    <2>1. ASSUME NEW s \in Places, NEW n \in Lengths, FillMemory(s, n) PROVE ConsoleInv'
      BY <1>2, <2>1 DEF FillMemory, Returned
    <2>2. ASSUME NEW s \in Places, NEW n \in Lengths, NEW d \in Places, CopyMemory(d, s, n)
          PROVE  ConsoleInv'
      BY <1>2, <2>2 DEF CopyMemory, Returned
    <2>3. ASSUME NEW pieces \in Formats, PrintFormat(pieces) PROVE ConsoleInv'
      BY <2>3, PrintKeepsConsole
    <2>4. CASE Backspace
      <3>1. screen' \in Cursors /\ call'.fn = "backspace"
        BY <2>4, BackspaceIs DEF Backspace, Printed, ConsoleInv
      <3>2. QED
        BY <1>1, <3>1
    <2>5. ASSUME NEW k \in DOMAIN Texts, PutText(Texts[k]) PROVE ConsoleInv'
      BY <2>5, TextsAre, PutKeepsConsole
    <2>6. ASSUME NEW line \in Lines, Execute(line) PROVE ConsoleInv'
      BY <1>2, <2>6 DEF Execute
    <2>7. ASSUME NEW n \in Sizes, do_getargs(n) PROVE ConsoleInv'
      BY <1>2, <2>7 DEF do_getargs
    <2>8. ASSUME NEW name \in Wanted, Find(name) PROVE ConsoleInv'
      BY <1>2, <2>8 DEF Find
    <2>9. ASSUME NEW k \in DOMAIN Directory, NEW n \in 1 .. FILENAME_LEN, dir_read(k, n)
          PROVE  ConsoleInv'
      BY <1>2, <2>9 DEF dir_read
    <2>10. QED
      BY <1>5, <2>1, <2>2, <2>3, <2>4, <2>5, <2>6, <2>7, <2>8, <2>9 DEF Call
  <1>6. QED
    BY <1>3, <1>4, <1>5 DEF LibraryNext

(* And it holds at first.                                                   *)
LEMMA InitIsConsole == LibraryInit => ConsoleInv
  <1> SUFFICES ASSUME LibraryInit PROVE ConsoleInv
    OBVIOUS
  <1>1. 0 \in 0 .. (NUM_COLS - 1)
    BY ConsoleAssumption
  <1>2. screen \in Cursors
    BY <1>1 DEF LibraryInit, Cursors
  <1>3. QED
    BY <1>2 DEF LibraryInit, NoCall, ConsoleInv, PrintfPrintsMeaning, CursorReturns
-----------------------------------------------------------------------------
(* Arguments handed out. *)

(* A size that is negative becomes larger than any buffer.                  *)
LEMMA SizeFacts ==
  /\ WORD \in Nat /\ BUFFER_SIZE \in Nat
  /\ \A n \in Sizes : /\ n \in Int
                      /\ Unsigned(n) = IF n < 0 THEN n + WORD ELSE n
                      /\ n < 0 => BUFFER_SIZE <= n + WORD
  <1> DEFINE W == WORD
  <1>1. W \in Nat \ {0} /\ BUFFER_SIZE \in Nat /\ 2 * BUFFER_SIZE <= W
    BY WordIs, StringsAssumption
  <1>2. ASSUME NEW n \in Sizes
        PROVE  n \in Int /\ -W <= 2 * n /\ 2 * n < W
    BY StringsAssumption
  <1>3. ASSUME NEW n \in Sizes
        PROVE  n % W = IF n < 0 THEN n + W ELSE n
    <2> HIDE DEF W
    <2>1. n \in Int /\ n < W /\ -W <= n
      BY <1>1, <1>2
    <2>2. CASE n < 0
      <3>1. n = W * (-1) + (n + W) /\ n + W \in 0 .. (W - 1)
        BY <1>1, <2>1, <2>2
      <3>2. QED
        BY <1>1, <2>1, <2>2, <3>1
    <2>3. CASE ~(n < 0)
      BY <1>1, <2>1, <2>3
    <2>4. QED
      BY <2>2, <2>3
  <1>4. \A n \in Sizes : n < 0 => BUFFER_SIZE <= n + W
    <2> HIDE DEF W
    <2>1. QED
      BY <1>1, <1>2
  <1>5. QED
    BY <1>1, <1>2, <1>3, <1>4 DEF Unsigned

(* do_getargs hands out what the PCB holds, or refuses.                     *)
LEMMA GetargsArrives ==
  ASSUME ArgumentsHeld, NEW nbytes \in Sizes, do_getargs(nbytes)
  PROVE  ArgumentsArrive'
  <1> DEFINE g == Given(typed)
             n == Len(g)
             refused == nbytes = 0 \/ buffCopyArg[0] = NUL \/ Unsigned(nbytes) < strlen(buffCopyArg)
  <1>0. IsText(typed)
    BY LinesAreTexts DEF ArgumentsHeld
  <1>1. IsText(g) /\ n < BUFFER_SIZE
    BY <1>0, GivenIs DEF IsText
  <1>2. \A i \in 0 .. n : buffCopyArg[i] = AsString(g)[i]
    BY DEF ArgumentsHeld
  <1>3. PICK buf \in Stale :
          call' = [fn |-> "getargs", nbytes |-> nbytes, before |-> buf,
                   value |-> IF refused THEN -1 ELSE 0,
                   buf |-> IF refused THEN buf ELSE strcpy(buf, buffCopyArg)]
    BY DEF do_getargs
  <1>4. typed' = typed
    BY DEF do_getargs
  <1> HIDE DEF g
  <1>5. n \in Nat /\ strlen(buffCopyArg) = n /\ (buffCopyArg[0] = NUL <=> n = 0)
    BY <1>1, <1>2, HeldText, TextFacts
  <1>6. ~refused <=> n # 0 /\ (nbytes < 0 \/ n <= nbytes)
    <2> HIDE DEF n
    <2>1. Unsigned(nbytes) = IF nbytes < 0 THEN nbytes + WORD ELSE nbytes
      BY SizeFacts
    <2>2. nbytes < 0 => ~(nbytes + WORD < n)
      BY <1>1, <1>5, SizeFacts
    <2>3. nbytes \in Int /\ WORD \in Nat
      BY SizeFacts
    <2>4. refused <=> nbytes = 0 \/ n = 0 \/ Unsigned(nbytes) < n
      BY <1>5
    <2> HIDE DEF refused
    <2>5. QED
      BY <1>5, <2>1, <2>2, <2>3, <2>4
  <1>7. strcpy(buf, buffCopyArg) = [i \in Offsets |-> IF i <= n THEN AsString(g)[i] ELSE buf[i]]
    BY <1>1, <1>2, CopiedText
  <1>8. \A i \in Offsets : (IF i <= n THEN AsString(g)[i] ELSE buf[i])
                             = IF i < n THEN g[i + 1] ELSE IF i = n THEN NUL ELSE buf[i]
    <2>1. \A i \in Offsets : i \in Nat /\ AsString(g)[i] = IF i < n THEN g[i + 1] ELSE NUL
      BY <1>1, TextFacts, StringFacts
    <2>2. QED
      BY <1>5, <2>1
  <1>9. g \in Seq(Character) /\ (n # 0 <=> g # <<>>)
    BY <1>1, EmptySeq DEF IsText
  <1> HIDE DEF refused
  <1>10. /\ call'.fn = "getargs" /\ call'.nbytes = nbytes /\ call'.before = buf
         /\ call'.value = (IF refused THEN -1 ELSE 0)
         /\ call'.buf = (IF refused THEN buf ELSE strcpy(buf, buffCopyArg))
    BY <1>3
  <1>11. call'.value = 0 <=> g # <<>> /\ (call'.nbytes < 0 \/ n <= call'.nbytes)
    BY <1>6, <1>9, <1>10
  <1>12. call'.buf = IF call'.value = 0
                       THEN [i \in Offsets |-> IF i < n THEN g[i + 1] ELSE IF i = n THEN NUL
                                               ELSE call'.before[i]]
                       ELSE call'.before
    <2>1. CASE refused
      BY <1>10, <2>1
    <2>2. CASE ~refused
      <3>1. call'.value = 0 /\ call'.before = buf
        BY <1>10, <2>2
      <3>2. call'.buf = [i \in Offsets |-> IF i <= n THEN AsString(g)[i] ELSE buf[i]]
        BY <1>7, <1>10, <2>2
      <3> HIDE DEF n
      <3>3. QED
        BY <1>8, <3>1, <3>2
    <2>3. QED
      BY <2>1, <2>2
  <1>13. RunTogether(Arguments(typed)) = g
    BY <1>0, ArgumentsAre DEF g
  <1>14. RunTogether(Arguments(typed')) = g
    BY <1>4, <1>13
  <1>15. QED
    BY <1>11, <1>12, <1>14 DEF ArgumentsArrive

(* Every call keeps the invariant of names and arguments.                   *)
LEMMA NextKeepsNames == NamesInv /\ [LibraryNext]_libraryVars => NamesInv'
  <1> SUFFICES ASSUME NamesInv, [LibraryNext]_libraryVars PROVE NamesInv'
    OBVIOUS
  <1>1. ASSUME typed' = typed, buffCopyArg' = buffCopyArg PROVE ArgumentsHeld'
    <2>1. Given(typed') = Given(typed)
      BY <1>1
    <2>2. QED
      BY <1>1, <2>1 DEF NamesInv, ArgumentsHeld, Given, GivenParts, GivenPart, Behind
  <1>2. ASSUME ArgumentsHeld', call'.fn \notin {"getargs", "find", "list"} PROVE NamesInv'
    BY <1>2 DEF NamesInv, ArgumentsArrive, NamesFindTheirFile, NamesAreListed
  <1>3. CASE UNCHANGED libraryVars
    BY <1>1, <1>3 DEF libraryVars, NamesInv, ArgumentsArrive, NamesFindTheirFile, NamesAreListed
  <1>4. CASE call' = NoCall /\ UNCHANGED <<df, screen, typed, buffCopyArg>>
    BY <1>1, <1>2, <1>4 DEF NoCall
  <1>5. CASE Call
    <2>1. ASSUME NEW s \in Places, NEW n \in Lengths, FillMemory(s, n) PROVE NamesInv'
      BY <1>1, <1>2, <2>1 DEF FillMemory, Returned
    <2>2. ASSUME NEW s \in Places, NEW n \in Lengths, NEW d \in Places, CopyMemory(d, s, n)
          PROVE  NamesInv'
      BY <1>1, <1>2, <2>2 DEF CopyMemory, Returned
    <2>3. ASSUME NEW pieces, PrintFormat(pieces) PROVE NamesInv'
      BY <1>1, <1>2, <2>3 DEF PrintFormat, Printed
    <2>4. CASE Backspace
      BY <1>1, <1>2, <2>4 DEF Backspace, Printed
    <2>5. ASSUME NEW text, PutText(text) PROVE NamesInv'
      BY <1>1, <1>2, <2>5 DEF PutText, Printed
    <2>6. ASSUME NEW line \in Lines, Execute(line) PROVE NamesInv'
      <3>1. call'.fn = "execute"
        BY <2>6 DEF Execute
      <3>2. QED
        BY <1>2, <2>6, <3>1, ExecuteHolds
    <2>7. ASSUME NEW n \in Sizes, do_getargs(n) PROVE NamesInv'
      <3>1. call'.fn = "getargs" /\ typed' = typed /\ buffCopyArg' = buffCopyArg
        BY <2>7 DEF do_getargs
      <3>2. ArgumentsArrive'
        BY <2>7, GetargsArrives DEF NamesInv
      <3>3. QED
        BY <1>1, <3>1, <3>2 DEF NamesInv, NamesFindTheirFile, NamesAreListed
    <2>8. ASSUME NEW name \in Wanted, Find(name) PROVE NamesInv'
      <3>1. call'.fn = "find" /\ typed' = typed /\ buffCopyArg' = buffCopyArg
        BY <2>8 DEF Find
      <3>2. NamesFindTheirFile'
        BY <2>8, FindsTheFile
      <3>3. QED
        BY <1>1, <3>1, <3>2 DEF NamesInv, ArgumentsArrive, NamesAreListed
    <2>9. ASSUME NEW k \in DOMAIN Directory, NEW n \in 1 .. FILENAME_LEN, dir_read(k, n) PROVE NamesInv'
      <3>1. call'.fn = "list" /\ typed' = typed /\ buffCopyArg' = buffCopyArg
        BY <2>9 DEF dir_read
      <3>2. NamesAreListed'
        BY <2>9, ListsTheName
      <3>3. QED
        BY <1>1, <3>1, <3>2 DEF NamesInv, ArgumentsArrive, NamesFindTheirFile
    <2>10. QED
      BY <1>5, <2>1, <2>2, <2>3, <2>4, <2>5, <2>6, <2>7, <2>8, <2>9 DEF Call
  <1>6. QED
    BY <1>3, <1>4, <1>5 DEF LibraryNext

-----------------------------------------------------------------------------
(* The theorems. *)

(* What the library keeps from call to call. Only the direction flag, the   *)
(* cursor and the arguments in the PCB go from one call to the next.        *)
LibraryInv == MemoryInv /\ ConsoleInv /\ NamesInv

(* The flag is 0 or 1, the cursor is in a column of the screen, the PCB     *)
(* holds the arguments of the line that was executed last, and each call    *)
(* has left what it promises.                                               *)
THEOREM LibraryInvariant == LibrarySpec => []LibraryInv
  <1>1. LibraryInit => LibraryInv
    BY InitIsMemory, InitIsConsole, InitIsNames DEF LibraryInv
  <1>2. LibraryInv /\ [LibraryNext]_libraryVars => LibraryInv'
    BY NextKeepsMemory, NextKeepsConsole, NextKeepsNames DEF LibraryInv
  <1>3. QED
    BY <1>1, <1>2, PTL DEF LibrarySpec

(* memset, memcpy and memmove of lib.c write every byte they are told to    *)
(* write and no other, for every length, alignment and overlap and for      *)
(* either direction that an earlier call has left in the flag.              *)
THEOREM MemoryMoves == LibrarySpec => []MemoryIsExact
  <1>1. LibraryInv => MemoryIsExact
    <2> SUFFICES ASSUME LibraryInv PROVE MemoryIsExact
      OBVIOUS
    <2>1. screen.x \in 0 .. (NUM_COLS - 1) /\ screen.y \in Nat
      BY DEF LibraryInv, ConsoleInv, Cursors
    <2>2. typed \in Lines \cup {<<>>} /\ buffCopyArg \in [Offsets -> Nat]
      BY DEF LibraryInv, NamesInv, ArgumentsHeld
    <2>3. QED
      BY <2>1, <2>2 DEF LibraryInv, MemoryInv, MemoryIsExact, LibraryTypeOK
  <1>2. QED
    BY <1>1, LibraryInvariant, PTL

(* printf of lib.c: every format, however many pieces it has, prints what   *)
(* its arguments mean, with numbers of any size of word in any two radices, *)
(* and uses all of them up; and after the text putc has the cursor on the   *)
(* screen again.                                                            *)
THEOREM ConsolePrints == LibrarySpec => []ConsoleIsRight
  <1>1. LibraryInv => ConsoleIsRight
    BY DEF LibraryInv, ConsoleInv, ConsoleIsRight
  <1>2. QED
    BY <1>1, LibraryInvariant, PTL

(* parse_args, do_execute and do_getargs hand the arguments of every line   *)
(* over, whole if they are one word and run together if they are several,   *)
(* to every buffer they fit without their NUL or whose size is negative,    *)
(* read_dentry_by_name finds every file by its name and by no other, and    *)
(* dir_read lists as much of a name as was asked for.                       *)
THEOREM NamesGoWhole == LibrarySpec => []NamesArrive
  <1>1. LibraryInv => NamesArrive
    BY DEF LibraryInv, NamesInv, NamesArrive
  <1>2. QED
    BY <1>1, LibraryInvariant, PTL
=============================================================================
