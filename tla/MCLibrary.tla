----------------------------- MODULE MCLibrary -----------------------------
(* Library with words of four binary digits and names of three characters. *)
EXTENDS Library

SomeMemory == (-16) .. 31

SomeTexts == <<<<97>>, <<97, NEWLINE, 98>>, <<NEWLINE, NEWLINE>>, <<97, 98, 97, 98, 97>>>>
SomeWords == {0, 1, 5, 7, 8, 11, 15}
SomePieces ==
    {[spelling |-> <<c>>, arguments |-> <<>>] : c \in {LetterX, SPACE, NEWLINE}}
        \cup {[spelling |-> <<PERCENT, c>>, arguments |-> <<>>] : c \in {PERCENT, SPACE}}
        \cup {[spelling |-> s, arguments |-> <<w>>] : w \in SomeWords,
                s \in {<<PERCENT, c>> : c \in {LetterX, LetterU, LetterD}} \cup {<<PERCENT, HASH, LetterX>>}}
        \cup {[spelling |-> <<PERCENT, LetterC>>, arguments |-> <<LetterU>>]}
        \cup {[spelling |-> <<PERCENT, LetterS>>, arguments |-> <<k>>] : k \in DOMAIN SomeTexts}

(* Lines that begin with the name of a program.                            *)
SomeLines == {<<97>> \o rest : rest \in UNION {[1 .. k -> {97, SPACE, 98}] : k \in 0 .. 4}}
SomeSizes == {-8, -1} \cup (0 .. 7)
Entry(chars, type) == [name |-> chars, filetype |-> type]

(* Names that begin alike, one as long as the dentry allows, of each type.  *)
SomeFiles == <<Entry(<<46>>, 1), Entry(<<97, 98, 99>>, 2), Entry(<<97, 98>>, 2),
               Entry(<<97, 97, 97>>, 0), Entry(<<97>>, 2)>>
SomeNames == UNION {[1 .. k -> {46, 97, 98, 99}] : k \in 0 .. 4}
=============================================================================
