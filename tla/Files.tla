------------------------------- MODULE Files -------------------------------
(* The file descriptors of one process and the read-only file system:       *)
(* do_open, do_close, do_read and do_write of syscalls.c, the operations    *)
(* they dispatch to in filesys.c, and the loading of a program by           *)
(* do_execute. A process reaches its own descriptors only, and the disk     *)
(* does not change, so that calls of other processes do not matter here.    *)
(* A byte of the disk is <<data block, place in the block>>; a name stands  *)
(* for itself.                                                              *)
EXTENDS Integers, Sequences

CONSTANTS
    Dentries,       \* the directory: a sequence of [name, filetype, inode_num]
    Inodes,         \* by number: [length, blocks], blocks a sequence
    DataCount,
    Executables,    \* inodes that start with the magic number
    BLOCK_SIZE, MAX_FILE_SIZE, MAX_OPEN_FILES,
    Names,          \* what programs try to open, the names of the disk or not
    Counts,         \* the nbytes that programs pass
    Crossing        \* whether reads cross a block's end behind the first block

RTC_FILE == 0
DIR_FILE == 1
REG_FILE == 2

InodeNums == DOMAIN Inodes
Length(i) == Inodes[i].length
NumberOfBlocks(i) == (Length(i) + BLOCK_SIZE - 1) \div BLOCK_SIZE

(* The disk is well-formed: the inodes exist, have as many data blocks as   *)
(* their length needs, and the blocks exist.                                *)
ASSUME SizesAssumption ==
    /\ BLOCK_SIZE \in Nat \ {0} /\ MAX_FILE_SIZE \in Nat /\ DataCount \in Nat
    /\ MAX_OPEN_FILES \in Nat /\ MAX_OPEN_FILES > 2
    /\ Counts \subseteq Nat /\ Crossing \in BOOLEAN
ASSUME DiskAssumption ==
    /\ Dentries \in Seq([name : Names, filetype : {RTC_FILE, DIR_FILE, REG_FILE}, inode_num : InodeNums])
    /\ 0 \in InodeNums
    /\ \A i \in InodeNums :
          /\ Length(i) \in 0 .. MAX_FILE_SIZE
          /\ Inodes[i].blocks \in Seq(0 .. (DataCount - 1))
          /\ Len(Inodes[i].blocks) = NumberOfBlocks(i)
ASSUME NamesAssumption ==
    \A j, k \in DOMAIN Dentries : Dentries[j].name = Dentries[k].name => j = k

VARIABLES
    fd_arr,     \* the descriptors of the PCB
    answer,     \* the last call: descriptor, value, and what it put in the buffer
    image       \* the program loaded last, and what is at its place in memory
vars == <<fd_arr, answer, image>>

Fds == 0 .. (MAX_OPEN_FILES - 1)
NOT_USED == 0
USED == 1
NoOps == "unset"
Ops == {"terminal_fops", "rtc_fops", "file_fops", "dir_fops", NoOps}

Smaller(a, b) == IF a < b THEN a ELSE b

-----------------------------------------------------------------------------
(* filesys.c.                                                               *)

(* read_dentry_by_name: the indices of the entries of that name.  A name    *)
(* here stands for the characters Library compares (NamesFindTheirFile).    *)
Found(name) == {k \in DOMAIN Dentries : Dentries[k].name = name}
Entry(name) == Dentries[CHOOSE k \in Found(name) : \A j \in Found(name) : k <= j]

(* memcpy within the data blocks goes on into the block that follows.       *)
Contiguous(block, at) == <<block + (at \div BLOCK_SIZE), at % BLOCK_SIZE>>

(* data_block_num past the blocks of the file is 0.                         *)
DataBlock(i, k) == IF k < Len(Inodes[i].blocks) THEN Inodes[i].blocks[k + 1] ELSE 0

(* The length of the first memcpy: BLOCK_SIZE - offset, where an offset in  *)
(* the second block or later gives 0 or, compared as unsigned, more than    *)
(* any length, and then all is copied at once.                              *)
FirstCopy_block(offset, length) == Smaller(length, BLOCK_SIZE)            \* faulty
FirstCopy(offset, length) ==
    IF offset < BLOCK_SIZE THEN Smaller(BLOCK_SIZE - offset, length) ELSE length

(* The loop copies block after block behind the first memcpy, and gives up  *)
(* when it is further than MAX_FILE_SIZE in the buffer.                     *)
ByteRead_sameBlock(i, offset, first, k) ==                                \* faulty
    IF k < first
      THEN Contiguous(DataBlock(i, offset \div BLOCK_SIZE), (offset % BLOCK_SIZE) + k)
      ELSE <<DataBlock(i, offset \div BLOCK_SIZE), (k - first) % BLOCK_SIZE>>
ByteRead(i, offset, first, k) ==
    LET block == (k - first) \div BLOCK_SIZE
    IN  IF k < first
          THEN Contiguous(DataBlock(i, offset \div BLOCK_SIZE), (offset % BLOCK_SIZE) + k)
        ELSE IF first + block * BLOCK_SIZE <= MAX_FILE_SIZE
          THEN <<DataBlock(i, (offset \div BLOCK_SIZE) + 1 + block), (k - first) % BLOCK_SIZE>>
        ELSE <<"stale">>

Refused == [value |-> -1, data |-> <<>>]

ToTheEnd(i, offset, length) == Smaller(length, Length(i) - offset)

read_data(i, offset, length) ==
    LET n == ToTheEnd(i, offset, length)
        first == FirstCopy(offset, n)
    IN  IF \/ i \notin InodeNums
           \/ offset >= Length(i)
           \/ DataBlock(i, offset \div BLOCK_SIZE) > DataCount
          THEN Refused
          ELSE [value |-> n, data |-> [k \in 1 .. n |-> ByteRead(i, offset, first, k - 1)]]

(* file_read: at most the rest of the file, from the position.              *)
ReadUntil(i, nbytes) == Smaller(nbytes, Length(i))

file_read(f, nbytes) ==
    IF f.fpos >= Length(f.inode_num)
      THEN [value |-> 0, data |-> <<>>]
      ELSE read_data(f.inode_num, f.fpos, ReadUntil(f.inode_num, nbytes))

-----------------------------------------------------------------------------
(* syscalls.c.                                                              *)

(* init_pcb leaves fops and inode_num as they are in an uninitialised       *)
(* structure; they are not read while the slot is not in use.               *)
Init ==
    /\ fd_arr = [fd \in Fds |->
                   [fops |-> IF fd < 2 THEN "terminal_fops" ELSE NoOps,
                    inode_num |-> 0, fpos |-> 0,
                    flags |-> IF fd < 2 THEN USED ELSE NOT_USED]]
    /\ answer = [fd |-> -1, value |-> 0, data |-> <<>>]
    /\ image = [inode |-> 0, data |-> <<>>]

FreeSlots == {fd \in 2 .. (MAX_OPEN_FILES - 1) : fd_arr[fd].flags = NOT_USED}

FopsOf(filetype) == CASE filetype = RTC_FILE -> "rtc_fops"
                      [] filetype = DIR_FILE -> "dir_fops"
                      [] filetype = REG_FILE -> "file_fops"

(* file_open starts at position 0; dir_open and RTC_open leave the position *)
(* as the slot has it.                                                      *)
OpenedAt(f, entry) ==
    [f EXCEPT !.fops = FopsOf(entry.filetype),
              !.flags = USED,
              !.inode_num = IF entry.filetype = REG_FILE THEN entry.inode_num ELSE 0,
              !.fpos = IF entry.filetype = REG_FILE THEN 0 ELSE @]

Answers(fd, value) == answer' = [fd |-> fd, value |-> value, data |-> <<>>]

(* do_open: the first free slot; no name, or no slot, is refused.           *)
Open(name) ==
    IF Found(name) = {} \/ FreeSlots = {}
      THEN Answers(-1, -1) /\ UNCHANGED fd_arr
      ELSE LET fd == CHOOSE s \in FreeSlots : \A t \in FreeSlots : s <= t
           IN  /\ fd_arr' = [fd_arr EXCEPT ![fd] = OpenedAt(@, Entry(name))]
               /\ Answers(fd, fd)

Closed(f) == [f EXCEPT !.flags = NOT_USED, !.fpos = 0, !.inode_num = 0]

(* do_close.                                                                *)
Close(fd) ==
    IF fd < 2 \/ fd_arr[fd].flags = NOT_USED
      THEN Answers(fd, -1) /\ UNCHANGED fd_arr
      ELSE fd_arr' = [fd_arr EXCEPT ![fd] = Closed(@)] /\ Answers(fd, 0)

(* What programs keep to unless Crossing: a read that starts behind the     *)
(* first block ends in the block it starts in.                              *)
StaysInBlock(f, nbytes) ==
    \/ Crossing
    \/ f.fpos < BLOCK_SIZE
    \/ (f.fpos % BLOCK_SIZE) + Smaller(nbytes, Length(f.inode_num) - f.fpos) <= BLOCK_SIZE

Usable(fd) == fd >= 0 /\ fd_arr[fd].flags # NOT_USED

ReadFile(fd, nbytes) ==
    /\ Usable(fd) /\ nbytes # 0 /\ fd_arr[fd].fops = "file_fops"
    /\ StaysInBlock(fd_arr[fd], nbytes)
    /\ LET got == file_read(fd_arr[fd], nbytes)
       IN  /\ answer' = [fd |-> fd, value |-> got.value, data |-> got.data]
           /\ fd_arr' = [fd_arr EXCEPT ![fd].fpos = @ + got.value]

(* dir_read: one name; the value is the length of the string then in the    *)
(* buffer.                                                                  *)
ReadDirectory(fd, nbytes) ==
    /\ Usable(fd) /\ nbytes # 0 /\ fd_arr[fd].fops = "dir_fops"
    /\ IF fd_arr[fd].fpos >= Len(Dentries)
         THEN Answers(fd, 0) /\ UNCHANGED fd_arr
         ELSE /\ answer' = [fd |-> fd, value |-> 1, data |-> <<Dentries[fd_arr[fd].fpos + 1].name>>]
              /\ fd_arr' = [fd_arr EXCEPT ![fd].fpos = @ + 1]

(* The RTC's and the terminal's read and write answer 0, -1 or a count.     *)
IsDevice(fd) == fd_arr[fd].fops \in {"rtc_fops", "terminal_fops"}

CallDevice(fd, nbytes) ==
    /\ Usable(fd) /\ nbytes # 0 /\ IsDevice(fd)
    /\ \E value \in {-1, 0, nbytes} : Answers(fd, value)
    /\ UNCHANGED fd_arr

ReadRefused(fd, nbytes) ==
    /\ ~Usable(fd) \/ nbytes = 0
    /\ Answers(fd, -1)
    /\ UNCHANGED fd_arr

Read(fd, nbytes) ==
    \/ ReadFile(fd, nbytes) \/ ReadDirectory(fd, nbytes) \/ CallDevice(fd, nbytes)
    \/ ReadRefused(fd, nbytes)

(* Files and directories cannot be written.                                 *)
WriteRefused(fd, nbytes) ==
    /\ Usable(fd) /\ nbytes # 0 => fd_arr[fd].fops \in {"file_fops", "dir_fops"}
    /\ Answers(fd, -1)
    /\ UNCHANGED fd_arr

Write(fd, nbytes) == CallDevice(fd, nbytes) \/ WriteRefused(fd, nbytes)

(* isExe and program_load, as do_execute calls them: the whole file goes to *)
(* the place of the program.                                                *)
isExe(name) == \E k \in Found(name) : Dentries[k].inode_num \in Executables

Load(name) ==
    /\ isExe(name)
    /\ LET i == Entry(name).inode_num
       IN  image' = [inode |-> i, data |-> read_data(i, 0, Length(i)).data]

LoadRefused(name) ==
    /\ ~isExe(name)
    /\ Answers(-1, -1)
    /\ UNCHANGED <<fd_arr, image>>

Next ==
    \/ /\ \/ \E name \in Names : Open(name)
          \/ \E fd \in -1 .. (MAX_OPEN_FILES - 1) : Close(fd) \/ \E n \in Counts : Read(fd, n) \/ Write(fd, n)
       /\ UNCHANGED image
    \/ \E name \in Names : Load(name) /\ UNCHANGED <<fd_arr, answer>>
    \/ \E name \in Names : LoadRefused(name)

Spec == Init /\ [][Next]_vars

-----------------------------------------------------------------------------
(* Properties.                                                              *)

(* The bytes of a file: the first Length(i) bytes of its data blocks.       *)
Contents(i) ==
    [k \in 1 .. Length(i) |->
        <<Inodes[i].blocks[((k - 1) \div BLOCK_SIZE) + 1], (k - 1) % BLOCK_SIZE>>]

Listing == [k \in DOMAIN Dentries |-> Dentries[k].name]

(* The descriptors have their types, and no position passes the end of what *)
(* is read.                                                                 *)
TypeOK ==
    /\ \A fd \in Fds :
          /\ fd_arr[fd].fops \in Ops
          /\ fd_arr[fd].inode_num \in InodeNums
          /\ fd_arr[fd].flags \in {USED, NOT_USED}
          /\ fd_arr[fd].fpos \in Nat
          /\ fd_arr[fd].fops = "file_fops" => fd_arr[fd].fpos <= Length(fd_arr[fd].inode_num)
          /\ fd_arr[fd].fops = "dir_fops" => fd_arr[fd].fpos <= Len(Dentries)
    /\ answer.value \in Int

(* dir_open and RTC_open do not set the position, and do_read calls through *)
(* fops: whatever was opened in a slot before, a slot not in use is at      *)
(* position 0, and one in use has operations.                               *)
SlotsAreClean ==
    \A fd \in Fds :
        /\ fd_arr[fd].flags = NOT_USED => fd_arr[fd].fpos = 0
        /\ fd_arr[fd].flags = USED => fd_arr[fd].fops # NoOps

(* program_load: what is loaded is the whole program, block for block.      *)
LoadedProgramIsWhole == image.data # <<>> => image.data = Contents(image.inode)

StreamOf(entry) == IF entry.filetype = REG_FILE THEN Contents(entry.inode_num) ELSE Listing
RestOf(f) ==
    IF f.flags = NOT_USED THEN <<>>
    ELSE IF f.fops = "file_fops" THEN
            SubSeq(Contents(f.inode_num), f.fpos + 1, Length(f.inode_num))
    ELSE IF f.fops = "dir_fops" THEN SubSeq(Listing, f.fpos + 1, Len(Listing))
    ELSE <<>>
NamesOf(filetypes) == {n \in Names : Found(n) # {} /\ Entry(n).filetype \in filetypes}

Promised == INSTANCE FileStreams WITH
    Slots <- Fds, Standard <- {0, 1},
    Streams <- [name \in NamesOf({REG_FILE, DIR_FILE}) |-> StreamOf(Entry(name))],
    Devices <- NamesOf({RTC_FILE}),
    open <- {fd \in Fds : fd_arr[fd].flags = USED},
    device <- {fd \in Fds : fd_arr[fd].flags = USED /\ IsDevice(fd)},
    rest <- [fd \in Fds |-> RestOf(fd_arr[fd])]

(* do_read, file_read, read_data and dir_read: through any sequence of      *)
(* calls, on any descriptors, each descriptor delivers the bytes of its     *)
(* file, or the names of the directory, from the first to the last, each    *)
(* once; open hands out only slots that are not in use, and the terminal    *)
(* stays where it is; what a slot held before does not show.                *)
ImplementsStreams == Promised!Spec /\ [](TypeOK /\ SlotsAreClean)
=============================================================================
