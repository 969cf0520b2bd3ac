------------------------------ MODULE Library ------------------------------
(* The kernel's own library, lib.c, with its copy of putc in terminal.c:    *)
(* moving and filling memory, strings, printf on the console; and the code  *)
(* that leans on the corners of the string functions: parse_args and        *)
(* do_getargs of syscalls.c, names in filesys.c.                            *)
(* Characters are numbers. A string is a function from the offsets of its   *)
(* buffer to characters and ends at the first NUL.                          *)
EXTENDS Integers, Sequences, SequencesExt

CONSTANTS
    Memory,             \* the addresses there are
    Places, Lengths,    \* addresses and sizes that callers pass
    HEX_DIGITS,         \* 8: hexadecimal digits of a machine word
    HEX, DEC,           \* 16 and 10: the radices of printf
    Texts,              \* the strings printed: a sequence of them
    Pieces, MaxPieces,  \* what a format consists of: [spelling, arguments]
    NUM_ROWS, NUM_COLS, MaxBelow,
    BUFFER_SIZE, Lines, \* what is executed: sequences of characters
    Sizes,              \* of the buffers for the arguments: int32_t
    FILENAME_LEN,
    Directory,          \* the dentries: a sequence of [name, filetype]
    Wanted              \* the names looked for

NUL == 0
NEWLINE == 10
SPACE == 32
HASH == 35
PERCENT == 37
MINUS == 45
Digit(d) == IF d < 10 THEN 48 + d ELSE 55 + d
LetterC == 99
LetterD == 100
LetterS == 115
LetterU == 117
LetterX == 120

WORD ==
    LET power[n \in 0 .. HEX_DIGITS] == IF n = 0 THEN 1 ELSE HEX * power[n - 1]
    IN  power[HEX_DIGITS]

Character == Nat \ {NUL}
Words == 0 .. (WORD - 1)

(* What a format is put together from: a character that is printed, two     *)
(* percent signs, a conversion that nobody knows, and the five of printf.   *)
IsPiece(p) ==
    \/ /\ p.arguments = <<>>
       /\ \/ p.spelling \in {<<PERCENT, PERCENT>>, <<PERCENT, SPACE>>}
          \/ p.spelling \in Seq(Character) /\ Len(p.spelling) = 1 /\ p.spelling # <<PERCENT>>
    \/ /\ p.arguments \in Seq(Nat) /\ Len(p.arguments) = 1
       /\ \/ /\ p.spelling \in {<<PERCENT, HASH, LetterX>>, <<PERCENT, LetterX>>,
                                <<PERCENT, LetterU>>, <<PERCENT, LetterD>>}
             /\ p.arguments[1] \in Words
          \/ p.spelling = <<PERCENT, LetterC>> /\ p.arguments[1] \in Character
          \/ p.spelling = <<PERCENT, LetterS>> /\ p.arguments[1] \in DOMAIN Texts

(* Formats end in a whole conversion: printf runs past the NUL of one that  *)
(* ends in a percent sign. Names fit the dentry, and none is empty.         *)
ASSUME ConsoleAssumption ==
    /\ HEX \in Nat /\ DEC \in Nat /\ HEX > 1 /\ DEC > 1 /\ HEX_DIGITS \in Nat \ {0}
    /\ Texts \in Seq(Seq(Character)) /\ (\A p \in Pieces : IsPiece(p)) /\ MaxPieces \in Nat
    /\ NUM_ROWS \in Nat \ {0} /\ NUM_COLS \in Nat \ {0} /\ MaxBelow \in Nat
ASSUME StringsAssumption ==
    /\ Lengths \subseteq Nat /\ Places \subseteq Nat /\ Memory \subseteq Int
    /\ \A s \in Places, n \in Lengths : s .. (s + n - 1) \subseteq Memory
    /\ BUFFER_SIZE \in Nat /\ FILENAME_LEN \in Nat \ {0} /\ FILENAME_LEN + 2 < BUFFER_SIZE
    /\ 2 * BUFFER_SIZE <= WORD
    /\ Sizes \subseteq Int /\ \A n \in Sizes : -WORD <= 2 * n /\ 2 * n < WORD
    /\ Lines \subseteq Seq(Character) /\ Wanted \subseteq Seq(Character)
    /\ \A l \in Lines \cup Wanted : Len(l) < BUFFER_SIZE
    /\ Directory \in Seq([name : Seq(Character), filetype : Nat])
    /\ \A k \in DOMAIN Directory :
          /\ Len(Directory[k].name) \in 1 .. FILENAME_LEN
          /\ \A j \in DOMAIN Directory : Directory[j].name = Directory[k].name => j = k

(* The functions share no state across these families, so that a behaviour  *)
(* calls those of one family.                                               *)
Families == {"memory", "console of lib.c", "console of terminal.c", "arguments", "names"}

VARIABLES
    family,     \* which functions are called
    df,         \* the processor's direction flag
    screen,     \* screen_x and screen_y
    typed,      \* the line executed last
    buffCopyArg,\* the arguments in the PCB
    call        \* the last call and what it left

NoCall == [fn |-> "none"]
libraryVars == <<family, df, screen, typed, buffCopyArg, call>>

(* Loops are functions of the turns they have made.                         *)
Joined(parts) ==
    LET done[n \in 0 .. Len(parts)] == IF n = 0 THEN <<>> ELSE done[n - 1] \o parts[n]
    IN  done[Len(parts)]

Lesser(a, b) == IF a < b THEN a ELSE b
Greater(a, b) == IF a > b THEN a ELSE b

-----------------------------------------------------------------------------
(* Memory. No function looks at the bytes, so every byte is its address.    *)

Fresh == [a \in Memory |-> a]
Fill == 1000

cld_none(flag) == flag                                                  \* faulty
cld(flag) == 0

(* memset and memcpy work byte by byte up to an aligned address, then in    *)
(* double words, which the direction flag would order, then by bytes.       *)
Unaligned(d, n) == Lesser(n, (-d) % 4)
DoubleWords(d, n) == (n - Unaligned(d, n)) \div 4
Rest(d, n) == (n - Unaligned(d, n)) % 4

Chunks(d, n, flag) ==
    LET head == Unaligned(d, n)
        step == IF cld(flag) = 0 THEN 4 ELSE -4
        tail == head + step * DoubleWords(d, n)
    IN  [k \in 1 .. head |-> [at |-> k - 1, width |-> 1]]
        \o [k \in 1 .. DoubleWords(d, n) |-> [at |-> head + step * (k - 1), width |-> 4]]
        \o [k \in 1 .. Rest(d, n) |-> [at |-> tail + k - 1, width |-> 1]]

FlagAfter(d, n, flag) == IF n = Unaligned(d, n) THEN flag ELSE cld(flag)

Bytes(a, c) == (a + c.at) .. (a + c.at + c.width - 1)
CopyChunk(m, d, s, c) == [a \in Memory |-> IF a \in Bytes(d, c) THEN m[s + a - d] ELSE m[a]]

Copied(m, d, s, chunks) ==
    LET done[k \in 0 .. Len(chunks)] ==
            IF k = 0 THEN m ELSE CopyChunk(done[k - 1], d, s, chunks[k])
    IN  done[Len(chunks)]

(* What is filled goes on over all units: its bytes come again with each.   *)
Filled(m, s, width, chunks) ==
    LET done[k \in 0 .. Len(chunks)] ==
            IF k = 0 THEN m
            ELSE [a \in Memory |-> IF a \in Bytes(s, chunks[k]) THEN Fill + ((a - s) % width)
                                   ELSE done[k - 1][a]]
    IN  done[Len(chunks)]

memset(m, s, n, flag) == Filled(m, s, 1, Chunks(s, n, flag))
memcpy(m, d, s, n, flag) == Copied(m, d, s, Chunks(d, n, flag))

(* memset_word and memset_dword: n units of the given width.                *)
memset_units(m, s, n, width, flag) ==
    LET step == IF cld(flag) = 0 THEN width ELSE -width
    IN  Filled(m, s, width, [k \in 1 .. n |-> [at |-> step * (k - 1), width |-> width]])

(* memmove goes up, or down from the last byte and leaves the flag set.     *)
Down(d, s) == s < d
memmove(m, d, s, n) ==
    Copied(m, d, s,
           [k \in 1 .. n |-> [at |-> IF Down(d, s) THEN n - k ELSE k - 1, width |-> 1]])

Returned(fn, d, s, n, m) == call' = [fn |-> fn, dest |-> d, src |-> s, n |-> n, memory |-> m]

FillMemory(s, n) ==
    /\ \/ /\ Returned("memset", s, 0, n, memset(Fresh, s, n, df))
          /\ df' = FlagAfter(s, n, df)
       \/ /\ \E width \in {2, 4} : Returned("memset", s, width, n, memset_units(Fresh, s, n, width, df))
          /\ df' = cld(df)
    /\ UNCHANGED <<screen, typed, buffCopyArg>>

CopyMemory(d, s, n) ==
    /\ \/ /\ Returned("memcpy", d, s, n, memcpy(Fresh, d, s, n, df))
          /\ df' = FlagAfter(d, n, df)
       \/ /\ Returned("memmove", d, s, n, memmove(Fresh, d, s, n))
          /\ df' = IF Down(d, s) THEN 1 ELSE 0
    /\ UNCHANGED <<screen, typed, buffCopyArg>>

-----------------------------------------------------------------------------
(* Numbers and formats.                                                     *)

(* itoa writes the digits from the lowest place value up and reverses them. *)
PlaceValues(value, radix) ==
    LET from[v \in 0 .. value] ==
            IF v = 0 THEN <<>> ELSE <<Digit(v % radix)>> \o from[v \div radix]
    IN  from[value]

Swaps_short(s) == (Len(s) - 1) \div 2                                   \* faulty
Swaps(s) == Len(s) \div 2
Swapped(s, beg, end) == [s EXCEPT ![beg] = s[end], ![end] = s[beg]]
strrev(s) ==
    LET done[beg \in 0 .. Swaps(s)] ==
            IF beg = 0 THEN s ELSE Swapped(done[beg - 1], beg, Len(s) + 1 - beg)
    IN  done[Swaps(s)]

itoa(value, radix) ==
    IF value = 0 THEN <<Digit(0)>> ELSE strrev(PlaceValues(value, radix))

Negative(word) == word >= WORD \div 2
Negated(word) == (WORD - word) % WORD

(* %#x: zeros from the place of the shorter numeral on.                     *)
Padded(s) == [k \in 1 .. (HEX_DIGITS - Len(s)) |-> Digit(0)] \o s

Conversions == {LetterX, LetterU, LetterD, LetterC, LetterS}
Converted(c, alternate, word) ==
    CASE c = LetterX -> IF alternate THEN Padded(itoa(word, HEX)) ELSE itoa(word, HEX)
      [] c = LetterU -> itoa(word, DEC)
      [] c = LetterD -> IF Negative(word) THEN <<MINUS>> \o itoa(Negated(word), DEC)
                        ELSE itoa(word, DEC)
      [] c = LetterC -> <<word>>
      [] c = LetterS -> Texts[word]

(* The loop over the format; an unknown conversion prints nothing and takes *)
(* no argument.                                                             *)
ReadFormat(s, c) ==
    IF ~s.converting
      THEN IF c = PERCENT THEN [s EXCEPT !.converting = TRUE, !.alternate = FALSE]
           ELSE [s EXCEPT !.text = Append(@, c)]
    ELSE IF c = HASH THEN [s EXCEPT !.alternate = TRUE]
    ELSE IF c = PERCENT THEN [s EXCEPT !.converting = FALSE, !.text = Append(@, PERCENT)]
    ELSE IF c \in Conversions
      THEN [s EXCEPT !.converting = FALSE, !.esp = Tail(@),
                     !.text = @ \o Converted(c, s.alternate, Head(s.esp))]
    ELSE [s EXCEPT !.converting = FALSE]

printf(format, arguments) ==
    LET done[n \in 0 .. Len(format)] ==
            IF n = 0 THEN [converting |-> FALSE, alternate |-> FALSE, esp |-> arguments, text |-> <<>>]
            ELSE ReadFormat(done[n - 1], format[n])
    IN  done[Len(format)]

-----------------------------------------------------------------------------
(* The console: putc of lib.c and lib_putc of terminal.c do the same, each  *)
(* with a cursor of its own.                                                *)

Rows(y) == y % NUM_ROWS

(* A column is wrapped before it is divided: no text comes to the next row. *)
putc(cursor, c) ==
    IF c = NEWLINE
      THEN [cursor EXCEPT !.y = @ + 1, !.x = 0]
      ELSE LET x == (cursor.x + 1) % NUM_COLS
           IN  [x |-> x, y |-> Rows(cursor.y + (x \div NUM_COLS))]
puts(cursor, text) ==
    LET done[n \in 0 .. Len(text)] == IF n = 0 THEN cursor ELSE putc(done[n - 1], text[n])
    IN  done[Len(text)]

(* A format is put together from pieces.                                    *)
Formats == UNION {[1 .. k -> Pieces] : k \in 1 .. MaxPieces}
SpellingOf(pieces) == Joined([k \in DOMAIN pieces |-> pieces[k].spelling])
ArgumentsOf(pieces) == Joined([k \in DOMAIN pieces |-> pieces[k].arguments])

Printed(fn, pieces, text, left) ==
    call' = [fn |-> fn, pieces |-> pieces, text |-> text, left |-> left]

PrintFormat(pieces) ==
    LET s == printf(SpellingOf(pieces), ArgumentsOf(pieces))
    IN  /\ Printed("printf", pieces, s.text, s.esp)
        /\ screen' = puts(screen, s.text)
        /\ screen'.y <= NUM_ROWS + MaxBelow
        /\ UNCHANGED <<df, typed, buffCopyArg>>

PutText(text) ==
    /\ Printed("puts", <<>>, text, <<>>)
    /\ screen' = puts(screen, text)
    /\ screen'.y <= NUM_ROWS + MaxBelow
    /\ UNCHANGED <<df, typed, buffCopyArg>>

backspace(cursor) ==
    IF cursor.x = 0 THEN cursor
    ELSE LET blanked == putc([cursor EXCEPT !.x = @ - 1], SPACE)
         IN  [blanked EXCEPT !.x = @ - 1]

Backspace ==
    /\ Printed("backspace", <<>>, <<>>, <<>>)
    /\ screen' = backspace(screen)
    /\ UNCHANGED <<df, typed, buffCopyArg>>

-----------------------------------------------------------------------------
(* Strings.                                                                 *)

Offsets == 0 .. (BUFFER_SIZE - 1)
AsString(text) == [i \in Offsets |-> IF i < Len(text) THEN text[i + 1] ELSE NUL]
AllOf(c) == [i \in Offsets |-> c]
Stale == {AllOf(NUL), AllOf(LetterX)}

strlen(s) == CHOOSE n \in Offsets : s[n] = NUL /\ \A i \in 0 .. (n - 1) : s[i] # NUL

(* strcpy ends with the NUL; strncpy fills up to and with the byte at n.    *)
strcpy(dest, src) == [i \in Offsets |-> IF i <= strlen(src) THEN src[i] ELSE dest[i]]

Terminator(dest, n) == NUL
strncpy(dest, src, n) ==
    LET copied == CHOOSE k \in 0 .. n :
                    /\ \A i \in 0 .. (k - 1) : src[i] # NUL
                    /\ k = n \/ src[k] = NUL
    IN  [i \in Offsets |->
            IF i < copied THEN src[i]
            ELSE IF i < n THEN NUL
            ELSE IF i = n THEN Terminator(dest, n)
            ELSE dest[i]]

(* strncmp: the first place where the strings differ or end.                *)
strncmp(s, t, n) ==
    LET stops == {i \in 0 .. (n - 1) : s[i] # t[i] \/ s[i] = NUL}
    IN  IF stops = {} THEN 0
        ELSE LET i == CHOOSE i \in stops : \A j \in stops : i <= j IN s[i] - t[i]

IsArgument_any(c) == TRUE                                               \* faulty
IsArgument(c) == c # SPACE

Kept(chars) == Joined([k \in DOMAIN chars |-> IF IsArgument(chars[k]) THEN <<chars[k]>> ELSE <<>>])

(* do_execute: the command is what stands before the first space, the       *)
(* arguments are all that follows without any space in it.                  *)
parse_args(str) ==
    LET arg_start == CHOOSE k \in 0 .. strlen(str) :
                        /\ \A i \in 0 .. (k - 1) : str[i] # SPACE
                        /\ k = strlen(str) \/ str[k] = SPACE
        rest == [k \in 1 .. (strlen(str) - arg_start) |-> str[arg_start + k - 1]]
    IN  [cmd |-> [strncpy(AllOf(NUL), str, arg_start) EXCEPT ![arg_start] = NUL],
         args |-> AsString(Kept(rest))]

(* The PCB is copied from a structure whose arguments nobody has set.       *)
Execute(line) ==
    LET args == parse_args(AsString(line)).args
    IN  /\ typed' = line
        /\ \E stale \in Stale : buffCopyArg' = strncpy(stale, args, strlen(args))
        /\ call' = [fn |-> "execute", cmd |-> parse_args(AsString(line)).cmd]
        /\ UNCHANGED <<df, screen>>

(* strlen() is unsigned, so that the signed size is compared as unsigned.  *)
Unsigned(n) == n % WORD

do_getargs(nbytes) ==
    LET refused == \/ nbytes = 0 \/ buffCopyArg[0] = NUL
                   \/ Unsigned(nbytes) < strlen(buffCopyArg)
    IN  /\ \E buf \in Stale :
             call' = [fn |-> "getargs", nbytes |-> nbytes, before |-> buf,
                      value |-> IF refused THEN -1 ELSE 0,
                      buf |-> IF refused THEN buf ELSE strcpy(buf, buffCopyArg)]
        /\ UNCHANGED <<df, screen, typed, buffCopyArg>>

(* A dentry in memory: the name, without a NUL when it is full, and behind  *)
(* it the file type and the rest.                                           *)
FilenameAt(entry) ==
    [i \in Offsets |-> IF i < Len(entry.name) THEN entry.name[i + 1]
                       ELSE IF i = FILENAME_LEN THEN entry.filetype ELSE NUL]

CompareSize(s, t) == Lesser(Greater(strlen(s), strlen(t)), FILENAME_LEN)

read_dentry_by_name(fname) ==
    LET matches == {k \in DOMAIN Directory :
                      LET filename == FilenameAt(Directory[k])
                      IN  strncmp(fname, filename, CompareSize(fname, filename)) = 0}
    IN  IF strlen(fname) > FILENAME_LEN \/ matches = {} THEN -1
        ELSE CHOOSE k \in matches : \A j \in matches : k <= j

Find(name) ==
    /\ call' = [fn |-> "find", name |-> name, value |-> read_dentry_by_name(AsString(name))]
    /\ UNCHANGED <<df, screen, typed, buffCopyArg>>

(* dir_read: the length is taken of a copy, one byte too long, of what the  *)
(* caller's buffer now holds.                                               *)
dir_read(k, nbytes) ==
    /\ \E stale \in Stale :
         LET buf == strncpy(stale, FilenameAt(Directory[k]), nbytes)
             tmp == [strncpy(stale, buf, FILENAME_LEN + 1) EXCEPT ![FILENAME_LEN] = NUL]
         IN  call' = [fn |-> "list", entry |-> k, nbytes |-> nbytes, value |-> strlen(tmp), buf |-> buf]
    /\ UNCHANGED <<df, screen, typed, buffCopyArg>>

-----------------------------------------------------------------------------

LibraryInit ==
    /\ df = 0
    /\ family \in Families
    /\ screen = [x |-> 0, y |-> 0]
    /\ typed = <<>>
    /\ buffCopyArg = AllOf(NUL)
    /\ call = NoCall

Call ==
    \/ /\ family = "memory"
       /\ \E s \in Places, n \in Lengths : FillMemory(s, n) \/ \E d \in Places : CopyMemory(d, s, n)
    \/ /\ family = "console of terminal.c"
       /\ \E pieces \in Formats : PrintFormat(pieces)
    \/ /\ family = "console of lib.c"
       /\ Backspace \/ \E k \in DOMAIN Texts : PutText(Texts[k])
    \/ /\ family = "arguments"
       /\ (\E line \in Lines : Execute(line)) \/ \E n \in Sizes : do_getargs(n)
    \/ /\ family = "names"
       /\ \/ \E name \in Wanted : Find(name)
          \/ \E k \in DOMAIN Directory, n \in 1 .. FILENAME_LEN : dir_read(k, n)

(* A call, then the caller has its result and goes on.                      *)
LibraryNext ==
    /\ IF call = NoCall THEN Call
       ELSE call' = NoCall /\ UNCHANGED <<df, screen, typed, buffCopyArg>>
    /\ UNCHANGED family

LibrarySpec == LibraryInit /\ [][LibraryNext]_libraryVars

-----------------------------------------------------------------------------
(* Properties.                                                              *)

(* The variables have their types; a cursor is in a column of the screen.   *)
LibraryTypeOK ==
    /\ df \in {0, 1}
    /\ screen.x \in 0 .. (NUM_COLS - 1) /\ screen.y \in Nat
    /\ typed \in Lines \cup {<<>>}
    /\ buffCopyArg \in [Offsets -> Nat]

(* memcpy and memmove copy what was at the source, wherever source and      *)
(* destination start, whatever the length, whichever way the flag points    *)
(* after an earlier call; memmove when they overlap in any way, memcpy when *)
(* the destination does not begin inside the source.                        *)
MovesAreExact ==
    \/ call.fn = "memmove"
    \/ call.fn = "memcpy" /\ call.dest \notin (call.src + 1) .. (call.src + call.n - 1)
    => call.memory = [a \in Memory |-> IF a \in call.dest .. (call.dest + call.n - 1)
                                         THEN call.src + a - call.dest ELSE a]

(* memset and its word and double word forms write what they are told to    *)
(* write, nothing before it and nothing behind it.                          *)
FillsAreExact ==
    call.fn = "memset" =>
        LET width == Greater(call.src, 1)
        IN  call.memory = [a \in Memory |->
                IF a \in call.dest .. (call.dest + width * call.n - 1)
                  THEN Fill + ((a - call.dest) % width) ELSE a]

(* What a numeral means, from its most significant digit.                   *)
DigitValue(c) == IF c < 58 THEN c - 48 ELSE c - 55
ValueOf(numeral, radix) ==
    LET done[n \in 0 .. Len(numeral)] ==
            IF n = 0 THEN 0 ELSE done[n - 1] * radix + DigitValue(numeral[n])
    IN  done[Len(numeral)]
IsNumeral(s, value, radix) ==
    /\ s # <<>> /\ (Head(s) = Digit(0) => s = <<Digit(0)>>)
    /\ ValueOf(s, radix) = value

Means(text, piece) ==
    LET w == piece.arguments[1]
    IN  CASE Len(piece.spelling) = 1 -> text = piece.spelling
          [] piece.spelling = <<PERCENT, PERCENT>> -> text = <<PERCENT>>
          [] piece.spelling = <<PERCENT, SPACE>> -> text = <<>>
          [] piece.spelling = <<PERCENT, HASH, LetterX>> ->
                Len(text) = HEX_DIGITS /\ ValueOf(text, HEX) = w
          [] piece.spelling = <<PERCENT, LetterX>> -> IsNumeral(text, w, HEX)
          [] piece.spelling = <<PERCENT, LetterU>> -> IsNumeral(text, w, DEC)
          [] piece.spelling = <<PERCENT, LetterD>> ->
                IF Negative(w) THEN text # <<>> /\ Head(text) = MINUS /\ IsNumeral(Tail(text), WORD - w, DEC)
                ELSE IsNumeral(text, w, DEC)
          [] piece.spelling = <<PERCENT, LetterC>> -> text = <<w>>
          [] piece.spelling = <<PERCENT, LetterS>> -> text = Texts[w]

(* printf: the text is cut into one part for each piece of the format, each *)
(* part means the piece's own argument, and no argument is left: a          *)
(* conversion takes one word or none, as the caller has pushed it.          *)
PrintfPrintsMeaning ==
    call.fn = "printf" =>
        /\ call.left = <<>>
        /\ \E cut \in [0 .. Len(call.pieces) -> 0 .. Len(call.text)] :
              /\ cut[0] = 0 /\ cut[Len(call.pieces)] = Len(call.text)
              /\ \A k \in DOMAIN call.pieces :
                    /\ cut[k - 1] <= cut[k]
                    /\ Means(SubSeq(call.text, cut[k - 1] + 1, cut[k]), call.pieces[k])

(* putc: only a newline takes the cursor below the screen (and then the     *)
(* next character is written there): after any other character it is on it. *)
CursorReturns ==
    call.fn \in {"printf", "puts"} /\ call.text # <<>> /\ Last(call.text) # NEWLINE =>
        screen.y < NUM_ROWS

(* What the comment in parse_args promises a program (syscalls.c:240): what *)
(* is typed behind the first space, without the spaces that lead it.        *)
Arguments(line) ==
    LET words == {k \in DOMAIN line :
                    line[k] # SPACE /\ \E j \in 1 .. (k - 1) : line[j] = SPACE}
    IN  IF words = {} THEN <<>> ELSE SubSeq(line, Min(words), Len(line))

RunTogether(text) ==
    Joined([k \in DOMAIN text |-> IF text[k] # SPACE THEN <<text[k]>> ELSE <<>>])

(* parse_args, do_execute and do_getargs: a program gets the arguments that *)
(* were promised, whatever its PCB held before, if they are one word; of    *)
(* several words it gets the characters, run together. It gets them if they *)
(* fit without their NUL, or if the size is negative, and never a part of   *)
(* them. A buffer that is refused stays as it is, and beyond the NUL (which *)
(* may be the byte behind the buffer) nothing is written.                   *)
ArgumentsArrive ==
    call.fn = "getargs" =>
        LET given == RunTogether(Arguments(typed))
        IN  /\ call.value = 0 <=>
                 given # <<>> /\ (call.nbytes < 0 \/ Len(given) <= call.nbytes)
            /\ call.buf = IF call.value = 0
                            THEN [i \in Offsets |-> IF i < Len(given) THEN given[i + 1]
                                                    ELSE IF i = Len(given) THEN NUL
                                                    ELSE call.before[i]]
                            ELSE call.before

(* What the comment in parse_args says ("strip leading spaces",             *)
(* syscalls.c:240) of every line: a program gets the other spaces too. The  *)
(* code does not keep this, so no run has it.                               *)
OnlyLeadingSpacesGo ==
    call.fn = "getargs" /\ call.value = 0 =>
        \A i \in DOMAIN Arguments(typed) : call.buf[i - 1] = Arguments(typed)[i]

(* What the comment in do_getargs says of its check ("make sure the         *)
(* argument buffer is not smaller than what we are copying",                *)
(* syscalls.c:415), the NUL not counted. The code does not keep this        *)
(* either.                                                                  *)
BufferIsNotSmaller ==
    call.fn = "getargs" /\ call.value = 0 => strlen(buffCopyArg) <= call.nbytes

(* read_dentry_by_name: a file is found by its name and by no other, also   *)
(* when the name fills the dentry and the file type follows without a NUL.  *)
NamesFindTheirFile ==
    call.fn = "find" =>
        IF call.value = -1
          THEN \A k \in DOMAIN Directory : Directory[k].name # call.name
          ELSE Directory[call.value].name = call.name

(* dir_read: the buffer holds as much of the name as was asked for, and the *)
(* value is that length, whatever was in the buffer before.                 *)
NamesAreListed ==
    call.fn = "list" =>
        LET name == Directory[call.entry].name
        IN  /\ call.value = Lesser(Len(name), call.nbytes)
            /\ \A i \in 1 .. call.value : call.buf[i - 1] = name[i]

(* The memory functions of lib.c write what they promise, and only that.    *)
MemoryIsExact == LibraryTypeOK /\ MovesAreExact /\ FillsAreExact

(* The console shows what was printed, at a place that is on it.            *)
ConsoleIsRight == PrintfPrintsMeaning /\ CursorReturns

(* Arguments come from the keyboard to the program, and names from the disk *)
(* to the listing, with or without room for their NUL.                      *)
NamesArrive == ArgumentsArrive /\ NamesFindTheirFile /\ NamesAreListed
=============================================================================
