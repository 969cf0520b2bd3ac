-------------------------------- MODULE Fish --------------------------------
(* The fish program of empee3: blink.S, a linked list of blinking           *)
(* characters in the array that fish.c allocates them from, and add_frames, *)
(* which fills it from two files.  The program is sequential: each call and *)
(* each turn of the reading loop is a step.                                 *)
EXTENDS Integers, Sequences, FiniteSetsExt

CONSTANTS
    ArraySize,      \* 80*25: the length of blink_array
    ROWS, COLS,     \* 25 and 80
    OFFSET,         \* 40: the column of the frames' first character
    WORD,           \* 2^16: the values of a countdown and of a location
    FRAME_LENGTH,   \* 15: the lengths of the blinks of the frames
    Chars,          \* the characters of the files that show
    Frames,         \* the files, as sequences of Chars, SPACE and NEWLINE
    Requests,       \* what the rest of the program adds
    Wanted          \* the locations it removes, finds and synchronises

SPACE == "space"
NEWLINE == "newline"
Shades == Chars \cup {SPACE}          \* what a blink can look like
Words == 0 .. (WORD - 1)

(* A place of a text on the screen, kept in an unsigned short: the rows of  *)
(* a long file begin again at the top.                                      *)
LocationOf(row, col) == (row * COLS + col + OFFSET) % WORD

(* The place of a character of a file, as a reader of the file sees it.     *)
RowOf(f, i) == Cardinality({j \in 1 .. (i - 1) : f[j] = NEWLINE})
ColOf(f, i) == i - 1 - Max({0} \cup {j \in 1 .. (i - 1) : f[j] = NEWLINE})

ASSUME FishAssumption ==
    /\ {ArraySize, ROWS, COLS, OFFSET, WORD} \subseteq Nat \ {0} /\ WORD % 2 = 0
    /\ FRAME_LENGTH \in Words
    /\ SPACE \notin Chars /\ NEWLINE \notin Chars
    /\ Frames \subseteq Seq(Chars \cup {SPACE, NEWLINE})
    /\ \A r \in Requests :
         /\ r.on_char \in Chars /\ r.off_char \in Chars
         /\ r.location \in Words
         /\ r.on_length \in Words /\ r.off_length \in Words

(* Location 0 marks a free entry of the array: a blink that is linked there *)
(* is handed out again.  No caller asks for it, and no file has a character *)
(* where the words begin again.                                             *)
ASSUME LocationAssumption ==
    /\ \A r \in Requests : r.location # 0
    /\ \A f \in Frames : \A i \in DOMAIN f :
         f[i] \in Chars => LocationOf(RowOf(f, i), ColOf(f, i)) # 0

VARIABLES
    frame0, frame1,     \* the two files, what of them is still to be read,
    reader,             \* and the local variables of add_frames
    blink_array, mp1_list_head,
    video,              \* the character at each location, or "old"
    doubtful            \* locations where another blink or a sync wrote last
vars == <<frame0, frame1, reader, blink_array, mp1_list_head, video, doubtful>>
listVars == <<blink_array, mp1_list_head, video, doubtful>>

Nodes == 1 .. ArraySize
NULL == 0
SCREEN_SIZE == ROWS * COLS
Locations == 0 .. (SCREEN_SIZE - 1)

Zeroed == [location |-> 0, on_char |-> SPACE, off_char |-> SPACE, on_length |-> 0,
           off_length |-> 0, countdown |-> 0, status |-> 0, next |-> NULL]

(* Any character but a newline begins a line.                              *)
Opened == [c0 |-> "0", c1 |-> "0", read0 |-> 0, read1 |-> 0, eof0 |-> FALSE, eof1 |-> FALSE,
           row |-> 0, col |-> 0, done |-> FALSE]
Closed == [Opened EXCEPT !.done = TRUE]

Init ==
    /\ frame0 \in Frames /\ frame1 \in Frames
    /\ reader = Opened
    /\ blink_array = [n \in Nodes |-> Zeroed]
    /\ mp1_list_head = NULL
    /\ video = [l \in Locations |-> "old"]
    /\ doubtful = {}

-----------------------------------------------------------------------------
(* The list.                                                                *)

(* The nodes in the order of the list.  A loop over the list ends because   *)
(* ListIsWhole: here, it is cut after as many nodes as there are.           *)
Order ==
    LET walk[n \in 0 .. ArraySize] ==
            [i \in Nodes \cup {NULL} |->
                IF n = 0 \/ i = NULL THEN <<>> ELSE <<i>> \o walk[n - 1][blink_array[i].next]]
    IN  walk[ArraySize][mp1_list_head]
Linked == LET order == Order IN {order[k] : k \in DOMAIN order}

mp1_find_helper(l) ==
    LET order == Order
        hits == {k \in DOMAIN order : blink_array[order[k]].location = l}
    IN  IF hits = {} THEN NULL ELSE order[Min(hits)]

FreeNodes == {n \in Nodes : blink_array[n].location = 0}
mp1_malloc == IF FreeNodes = {} THEN NULL ELSE Min(FreeNodes)

Alone(n) == \A m \in Linked \ {n} : blink_array[m].location # blink_array[n].location

(* mp1_ioctl_add: lit, in front, and drawn; or refused.                     *)
Added(r, n) ==
    [blink_array EXCEPT ![n] =
        [location |-> r.location, on_char |-> r.on_char, off_char |-> r.off_char,
         on_length |-> r.on_length, off_length |-> r.off_length,
         countdown |-> r.on_length, status |-> 1, next |-> mp1_list_head]]

OnScreen(r) == r.location < SCREEN_SIZE

mp1_ioctl_add(r) ==
    LET n == mp1_malloc IN
    IF ~OnScreen(r) \/ n = NULL THEN UNCHANGED listVars
    ELSE /\ blink_array' = Added(r, n)
         /\ mp1_list_head' = n
         /\ video' = [video EXCEPT ![r.location] = r.on_char]
         /\ doubtful' = IF mp1_find_helper(r.location) = NULL THEN doubtful \ {r.location}
                        ELSE doubtful \cup {r.location}

(* The pointer that leads to a node is the head or the next of another.     *)
Unlinked(n) ==
    LET before == {m \in Linked : blink_array[m].next = n}
    IN  [m \in Nodes |->
            IF m = n THEN Zeroed
            ELSE IF m \in before THEN [blink_array[m] EXCEPT !.next = blink_array[n].next]
            ELSE blink_array[m]]

mp1_ioctl_remove(l) ==
    LET n == mp1_find_helper(l) IN
    IF n = NULL THEN UNCHANGED listVars
    ELSE /\ blink_array' = Unlinked(n)
         /\ mp1_list_head' = IF mp1_list_head = n THEN blink_array[n].next ELSE mp1_list_head
         /\ UNCHANGED <<video, doubtful>>

(* mp1_ioctl_sync.  After testb, cmovl never moves: the character drawn is  *)
(* the off_char.                                                            *)
Synced(n, m) ==
    [blink_array EXCEPT ![m] = [@ EXCEPT !.on_length = blink_array[n].on_length,
                                         !.off_length = blink_array[n].off_length,
                                         !.countdown = blink_array[n].countdown,
                                         !.status = blink_array[n].status]]

mp1_ioctl_sync(first, second) ==
    LET n == mp1_find_helper(first)
        m == mp1_find_helper(second)
    IN  IF n = NULL \/ m = NULL THEN UNCHANGED listVars
        ELSE /\ blink_array' = Synced(n, m)
             /\ video' = [video EXCEPT ![second] = blink_array[m].off_char]
             /\ doubtful' = doubtful \cup {second}
             /\ UNCHANGED mp1_list_head

-----------------------------------------------------------------------------
(* mp1_rtc_tasklet: decw, and jg on the signed word.                        *)

Decremented(w) == (w - 1) % WORD
Positive(w) == w \in 1 .. ((WORD \div 2) - 1)
Expires(b) == ~Positive(Decremented(b.countdown))

Toggled_sameLength(b) ==                                                  \* faulty
    [b EXCEPT !.status = 1 - @, !.countdown = IF b.status = 1 THEN b.on_length ELSE b.off_length]
Toggled(b) ==
    [b EXCEPT !.status = 1 - @, !.countdown = IF b.status = 1 THEN b.off_length ELSE b.on_length]

CharOf_now(b) == IF b.status = 1 THEN b.on_char ELSE b.off_char           \* faulty
CharOf(b) == IF b.status = 1 THEN b.off_char ELSE b.on_char

mp1_rtc_tasklet ==
    LET order == Order
        linked == Linked
        due == {k \in DOMAIN order : Expires(blink_array[order[k]])}
        at(l) == {k \in due : blink_array[order[k]].location = l}
    IN  /\ blink_array' =
             [n \in Nodes |->
                IF n \notin linked THEN blink_array[n]
                ELSE IF Expires(blink_array[n]) THEN Toggled(blink_array[n])
                ELSE [blink_array[n] EXCEPT !.countdown = Decremented(@)]]
        /\ video' = [l \in Locations |-> IF at(l) = {} THEN video[l]
                                         ELSE CharOf(blink_array[order[Max(at(l))]])]
        /\ doubtful' = doubtful \ {l \in Locations : \E k \in at(l) : Alone(order[k])}
        /\ UNCHANGED mp1_list_head

-----------------------------------------------------------------------------
(* add_frames: both files a line at a time, side by side.                   *)

(* The next character of a file, unless its line has ended.                 *)
NextChar_runsOn(f, c, read) ==                                            \* faulty
    IF read = Len(f) THEN NEWLINE ELSE f[read + 1]
NextChar(f, c, read) ==
    IF c = NEWLINE \/ read = Len(f) THEN NEWLINE ELSE f[read + 1]
Draws(c) == c \notin {SPACE, NEWLINE}
Shown(c) == IF c = NEWLINE THEN SPACE ELSE c

(* At the end of a file its line stays ended.                               *)
Restarted(eof) == IF eof THEN NEWLINE ELSE "0"

ReadColumn ==
    LET c0 == NextChar(frame0, reader.c0, reader.read0)
        c1 == NextChar(frame1, reader.c1, reader.read1)
        reads0 == reader.c0 # NEWLINE
        reads1 == reader.c1 # NEWLINE
        eof0 == reader.eof0 \/ (reads0 /\ reader.read0 = Len(frame0))
        eof1 == reader.eof1 \/ (reads1 /\ reader.read1 = Len(frame1))
        moved == [reader EXCEPT
                    !.eof0 = eof0, !.eof1 = eof1,
                    !.read0 = IF reads0 THEN Min({@ + 1, Len(frame0)}) ELSE @,
                    !.read1 = IF reads1 THEN Min({@ + 1, Len(frame1)}) ELSE @]
    IN  /\ ~reader.done
        /\ IF c0 = NEWLINE /\ c1 = NEWLINE
           THEN /\ \/ /\ eof0 /\ eof1
                      /\ reader' = Closed /\ frame0' = <<>> /\ frame1' = <<>>
                   \/ /\ ~(eof0 /\ eof1)
                      /\ reader' = [moved EXCEPT !.c0 = Restarted(eof0), !.c1 = Restarted(eof1),
                                                 !.row = @ + 1, !.col = 0]
                      /\ UNCHANGED <<frame0, frame1>>
                /\ UNCHANGED listVars
           ELSE /\ reader' = [moved EXCEPT !.c0 = c0, !.c1 = c1, !.col = @ + 1]
                /\ IF Draws(c0) \/ Draws(c1)
                   THEN mp1_ioctl_add([location |-> LocationOf(reader.row, reader.col),
                                       on_char |-> Shown(c0), off_char |-> Shown(c1),
                                       on_length |-> FRAME_LENGTH, off_length |-> FRAME_LENGTH])
                   ELSE UNCHANGED listVars
                /\ UNCHANGED <<frame0, frame1>>

-----------------------------------------------------------------------------
(* What the program does with the list when it is filled.                   *)
Call ==
    /\ reader.done
    /\ \/ \E r \in Requests : mp1_ioctl_add(r)
       \/ \E l \in Wanted : mp1_ioctl_remove(l)
       \/ \E first, second \in Wanted : mp1_ioctl_sync(first, second)
       \/ mp1_rtc_tasklet
    /\ UNCHANGED <<frame0, frame1, reader>>

Next == ReadColumn \/ Call

Spec == Init /\ [][Next]_vars

-----------------------------------------------------------------------------
(* Properties.                                                              *)

(* The array, the list and the reading loop have their types.               *)
TypeOK ==
    /\ blink_array \in [Nodes ->
         [location : Locations, on_char : Shades, off_char : Shades, on_length : Words,
          off_length : Words, countdown : Words, status : {0, 1}, next : Nodes \cup {NULL}]]
    /\ mp1_list_head \in Nodes \cup {NULL}
    /\ video \in [Locations -> Shades \cup {"old"}]
    /\ doubtful \subseteq Locations

(* The list ends, goes through no node twice, and has exactly the entries   *)
(* of the array that are in use: nothing freed is linked, nothing is lost   *)
(* (mp1_malloc, mp1_ioctl_remove).                                          *)
ListIsWhole ==
    /\ Linked = Nodes \ FreeNodes
    /\ Len(Order) = Cardinality(Linked)
    /\ Order # <<>> => blink_array[Order[Len(Order)]].next = NULL

(* The screen shows the character of the phase a blink is in, unless        *)
(* another blink of the place, or a sync, has drawn there since it changed. *)
ScreenShowsBlinks ==
    \A n \in Linked :
        Alone(n) /\ blink_array[n].location \notin doubtful
          => video[blink_array[n].location] =
                IF blink_array[n].status = 1 THEN blink_array[n].on_char
                                             ELSE blink_array[n].off_char

(* The ticks that a length lasts: a word is signed when it is counted down. *)
Duration(w) == IF w \in 1 .. (WORD \div 2) THEN w ELSE 1

RequestOf(b) == [location |-> b.location, on_char |-> b.on_char, off_char |-> b.off_char,
                 on_length |-> b.on_length, off_length |-> b.off_length]

AllRequests ==
    [location : Locations, on_char : Shades, off_char : Shades, on_length : Words,
     off_length : Words]

B == INSTANCE Blinks WITH
    Requests <- AllRequests,
    blinks <- LET order == Order IN
              [k \in DOMAIN order |->
                 LET b == blink_array[order[k]] IN
                 [request |-> RequestOf(b), lit |-> b.status = 1, left |-> Duration(b.countdown)]]

(* The pointers, the counted words and the array that is reused come to a   *)
(* sequence of blinks, each lit and dark for its own number of ticks; no    *)
(* entry of the array is lost to it.                                        *)
ImplementsBlinks == B!Spec /\ [](TypeOK /\ ListIsWhole)

(* The character that a file has at a place. *)
CharAt(f, row, col) ==
    LET here == {i \in DOMAIN f : f[i] # NEWLINE /\ RowOf(f, i) = row /\ ColOf(f, i) = col}
    IN  IF here = {} THEN SPACE ELSE f[CHOOSE i \in here : TRUE]

Places ==
    LET size == Max({Len(frame0), Len(frame1)})
    IN  {place \in (0 .. size) \X (0 .. size) :
            /\ LocationOf(place[1], place[2]) < SCREEN_SIZE
            /\ \/ CharAt(frame0, place[1], place[2]) # SPACE
               \/ CharAt(frame1, place[1], place[2]) # SPACE}
FrameBlink(row, col) ==
    [location |-> LocationOf(row, col),
     on_char |-> CharAt(frame0, row, col), off_char |-> CharAt(frame1, row, col),
     on_length |-> FRAME_LENGTH, off_length |-> FRAME_LENGTH]

(* When the frames are read there is one blink for each place where one of  *)
(* them has a character and whose location, as a word, is on the screen,    *)
(* with the characters of both, whatever the lengths of their lines and     *)
(* however they end; two places of a long file may share a location         *)
(* (add_frames, the check of mp1_ioctl_add).                                *)
FramesAreDrawn ==
    [][ReadColumn /\ reader'.done /\ Cardinality(Places) <= ArraySize =>
         /\ {RequestOf(blink_array[n]) : n \in Linked} = {FrameBlink(p[1], p[2]) : p \in Places}
         /\ Cardinality(Linked) = Cardinality(Places)]_vars
=============================================================================
