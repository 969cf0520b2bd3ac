------------------------------- MODULE Blinks -------------------------------
(* What blink.S promises: blinks that turn on and off, each for its own     *)
(* number of ticks.  A location names its newest blink.                     *)
EXTENDS Integers, FiniteSetsExt, SequencesExt

CONSTANTS Requests,     \* what a blink is made of: location, chars, lengths
          Duration(_)   \* the ticks that a length lasts

VARIABLE blinks         \* the newest first: its request, lit, and ticks left

-----------------------------------------------------------------------------
(* What becomes of a sequence of blinks.                                    *)

Locations(bs) == {b.request.location : b \in ToSet(bs)}
Newest(bs, l) == Min({i \in DOMAIN bs : bs[i].request.location = l})

Started(r) == [request |-> r, lit |-> TRUE, left |-> Duration(r.on_length)]

(* From now on b as a does.                                                 *)
SyncedTo(b, a) ==
    [b EXCEPT !.request.on_length = a.request.on_length,
              !.request.off_length = a.request.off_length, !.lit = a.lit, !.left = a.left]
Synced(bs, first, second) ==
    [bs EXCEPT ![Newest(bs, second)] = SyncedTo(@, bs[Newest(bs, first)])]

Turned(b) ==
    [b EXCEPT !.lit = ~@,
              !.left = Duration(IF b.lit THEN b.request.off_length ELSE b.request.on_length)]
Ticked(bs) ==
    [i \in DOMAIN bs |-> IF bs[i].left = 1 THEN Turned(bs[i]) ELSE [bs[i] EXCEPT !.left = @ - 1]]

-----------------------------------------------------------------------------
Init == blinks = <<>>

AddBlink ==
    /\ Len(blinks') = Len(blinks) + 1
    /\ LET r == Head(blinks').request IN r \in Requests /\ blinks' = <<Started(r)>> \o blinks

RemoveBlink ==
    /\ Len(blinks') = Len(blinks) - 1
    /\ \E l \in Locations(blinks) : blinks' = RemoveAt(blinks, Newest(blinks, l))

SyncBlinks ==
    \E first, second \in Locations(blinks) : blinks' = Synced(blinks, first, second)

Tick == blinks' = Ticked(blinks)

Next == AddBlink \/ RemoveBlink \/ Tick \/ SyncBlinks

Spec == Init /\ [][Next]_blinks
=============================================================================
