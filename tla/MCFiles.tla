------------------------------ MODULE MCFiles ------------------------------
(* Files with blocks of four bytes: a program of two and a half blocks that *)
(* lie apart on the disk, a file of one byte, the directory and the RTC.    *)
EXTENDS Files, TLC

Entry3(n, t, i) == [name |-> n, filetype |-> t, inode_num |-> i]
TheDentries == <<Entry3("dot", DIR_FILE, 0), Entry3("prog", REG_FILE, 1),
                 Entry3("rtc", RTC_FILE, 0), Entry3("text", REG_FILE, 2)>>
TheInodes == 0 :> [length |-> 0, blocks |-> <<>>]
             @@ 1 :> [length |-> 10, blocks |-> <<3, 0, 2>>]
             @@ 2 :> [length |-> 1, blocks |-> <<1>>]
=============================================================================
