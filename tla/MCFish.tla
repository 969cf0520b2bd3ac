------------------------------- MODULE MCFish -------------------------------
(* Fish on a screen of two rows of three, with words of three bits: every   *)
(* pair of short files, or with one that reaches so far below the screen    *)
(* that its location is on it again; then calls that reuse the array.       *)
EXTENDS Fish

SomeFrames ==
    UNION {[1 .. k -> {"a", SPACE, NEWLINE}] : k \in 0 .. 3}
      \cup {<<NEWLINE, NEWLINE, SPACE, SPACE, "a">>}
Request(l, on, off) ==
    [location |-> l, on_char |-> "a", off_char |-> "b", on_length |-> on, off_length |-> off]
SomeRequests == {Request(2, 2, 1), Request(5, 1, 5), Request(6, 1, 1)}
=============================================================================
