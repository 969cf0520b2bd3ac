--------------------------- MODULE LineDiscipline ---------------------------
(* The Tux controller's line discipline, empee2/module/tuxctl-ld.c: the two *)
(* rings between the serial driver and tuxctl-ioctl.c, the framing of the   *)
(* packets, and the two bytes of the buttons.  An ioctl runs in a process,  *)
(* with the lock only where it is held; what the serial driver calls is an  *)
(* interrupt, which runs to its end.                                        *)
(* A byte is <<packet or command, its place in it>>.                        *)
EXTENDS Integers, Sequences, SequencesExt, FiniteSets

CONSTANTS
    TUXCTL_BUFSIZE, \* 64
    PACKET,         \* 12: the bytes the callback looks at
    COMMAND,        \* the bytes of a command, 6 for MTCP_LED_SET
    Packets,        \* the controller sends 1 .. Packets
    Answered,       \* ... those whose handling sends a command
    MaxCommands,    \* bound: commands
    MaxChunk,       \* bound: bytes per interrupt
    MaxLost,        \* bound: bytes the serial line loses
    Rooms           \* what write_room may answer

ASSUME LineDisciplineAssumption ==
    /\ TUXCTL_BUFSIZE \in Nat \ {0, 1}
    /\ PACKET \in Nat /\ PACKET >= 3
    /\ COMMAND \in Nat \ {0}
    /\ Packets \in Nat /\ Answered \subseteq 1 .. Packets
    /\ MaxCommands \in Nat /\ MaxChunk \in Nat /\ MaxLost \in Nat
    /\ Rooms \subseteq Nat

VARIABLES
    rx, tx,         \* the rings
    saved,          \* the callback's bytes for next time
    arr,            \* the packets of the two button bytes
    ioctl,          \* where the process is, its local variables
    issued,         \* commands so far
    arrived,        \* bytes the controller has sent
    lost,           \* history: those that did not reach the rx ring
    handled,        \* history: the packets handled
    wire,           \* history: the bytes the serial driver took
    refused, cut    \* history: bytes it did not, and bytes of no room in tx
vars == <<rx, tx, saved, arr, ioctl, issued, arrived, lost, handled, wire, refused, cut>>

-----------------------------------------------------------------------------
(* The rings.                                                               *)

Unset == <<0, 0>>
Slots == 0 .. (TUXCTL_BUFSIZE - 1)
EmptyRing == [buf |-> [i \in Slots |-> Unset], start |-> 0, end |-> 0]
Smaller(a, b) == IF a < b THEN a ELSE b

buf_used(r) ==
    IF r.start <= r.end THEN r.end - r.start ELSE TUXCTL_BUFSIZE + r.end - r.start
buf_room(r) == TUXCTL_BUFSIZE - buf_used(r) - 1

(* Put bytes until the ring is full; take at most n.                        *)
Accepted(r, bytes) == Smaller(Len(bytes), buf_room(r))
PutInto(r, bytes) ==
    LET k == Accepted(r, bytes)
    IN  [buf |-> [i \in Slots |->
                    LET j == (i + TUXCTL_BUFSIZE - r.end) % TUXCTL_BUFSIZE
                    IN  IF j < k THEN bytes[j + 1] ELSE r.buf[i]],
         start |-> r.start,
         end |-> (r.end + k) % TUXCTL_BUFSIZE]

First(r, n) ==
    [j \in 1 .. Smaller(n, buf_used(r)) |-> r.buf[(r.start + j - 1) % TUXCTL_BUFSIZE]]
Rest_all(r, n) == [r EXCEPT !.start = @]                                 \* faulty
Rest(r, n) ==
    [r EXCEPT !.start = (@ + Smaller(n, buf_used(r))) % TUXCTL_BUFSIZE]
Contents(r) == First(r, buf_used(r))

Refused(r, bytes) == ToSet(SubSeq(bytes, Accepted(r, bytes) + 1, Len(bytes)))

-----------------------------------------------------------------------------
(* tuxctl_ldisc_data_callback.  Only the first byte of a packet has bit 7   *)
(* clear.                                                                   *)

Framed_loose(bytes, i) == bytes[i][2] = 1                                \* faulty
Framed(bytes, i) == bytes[i][2] = 1 /\ bytes[i + 1][2] # 1 /\ bytes[i + 2][2] # 1

(* i is the code's index plus one; after[k] is where the scan is when it has *)
(* looked at the first k bytes.                                             *)
Scan(bytes) ==
    LET after[k \in 0 .. Len(bytes)] ==
          IF k = 0 THEN [i |-> 1, found |-> <<>>]
          ELSE LET s == after[k - 1]
               IN  IF k # s.i \/ k > Len(bytes) - 2 THEN s
                   ELSE IF Framed(bytes, k)
                          THEN [i |-> k + 3, found |-> Append(s.found, SubSeq(bytes, k, k + 2))]
                          ELSE [s EXCEPT !.i = k + 1]
    IN  after[Len(bytes)]

Leftover(bytes) == SubSeq(bytes, Scan(bytes).i, Len(bytes))

-----------------------------------------------------------------------------
Idle == [at |-> "idle"]

Init ==
    /\ rx = EmptyRing /\ tx = EmptyRing
    /\ saved = <<>> /\ arr = <<0, 0>>
    /\ ioctl = Idle /\ issued = 0
    /\ arrived = 0 /\ lost = {}
    /\ handled = <<>> /\ wire = <<>> /\ refused = {} /\ cut = {}

Command(c) == [k \in 1 .. COMMAND |-> <<c, k>>]

(* tuxctl_ldisc_write_wakeup: the loop goes on while n <= room.             *)
Drained(room) == room + 1
Writes(bytes, room) ==
    /\ wire' = wire \o SubSeq(bytes, 1, Smaller(Len(bytes), room))
    /\ refused' = refused \cup ToSet(SubSeq(bytes, room + 1, Len(bytes)))

(* Commands put by the handling of a packet, and the wakeup, in one piece.  *)
PutAndWake(r, bytes, room) ==
    LET filled == PutInto(r, bytes)
    IN  /\ cut' = cut \cup Refused(r, bytes)
        /\ Writes(First(filled, Drained(room)), room)
        /\ tx' = Rest(filled, Drained(room))

-----------------------------------------------------------------------------
(* The interrupts.                                                          *)

Sent(n) == <<((n - 1) \div 3) + 1, ((n - 1) % 3) + 1>>

LoseByte ==
    /\ arrived < 3 * Packets /\ Cardinality(lost) < MaxLost
    /\ arrived' = arrived + 1
    /\ lost' = lost \cup {Sent(arrived')}
    /\ UNCHANGED <<rx, tx, saved, arr, ioctl, issued, handled, wire, refused, cut>>

(* tuxctl_handle_packet: an MTCP_BIOC_EVENT leaves its two bytes in arr.    *)
Id(p) == p[1][1]
Events(found) == {j \in DOMAIN found : Id(found[j]) \notin Answered}
Pressed(found) ==
    IF Events(found) = {} THEN arr
    ELSE LET p == found[Max(Events(found))] IN <<p[2][1], p[3][1]>>

(* tuxctl_ldisc_rcv_buf, the callback, and tuxctl_handle_packet of what it  *)
(* finds: at most one packet per interrupt is answered.                     *)
rcv_buf(count, room) ==
    LET bytes == [j \in 1 .. count |-> Sent(arrived + j)]
        filled == PutInto(rx, bytes)
        packet == saved \o First(filled, PACKET - Len(saved))
        found == Scan(packet).found
        answers == DOMAIN found \ Events(found)
    IN  /\ arrived' = arrived + count
        /\ arrived' <= 3 * Packets
        /\ lost' = lost \cup Refused(rx, bytes)
        /\ rx' = Rest(filled, PACKET - Len(saved))
        /\ saved' = Leftover(packet)
        /\ handled' = handled \o found
        /\ arr' = Pressed(found)
        /\ IF answers = {} THEN UNCHANGED <<tx, issued, wire, refused, cut>>
           ELSE /\ issued < MaxCommands
                /\ issued' = issued + 1
                /\ PutAndWake(tx, Command(issued'), room)
        /\ UNCHANGED ioctl

(* The driver can accept more.                                              *)
write_wakeup(room) ==
    /\ buf_used(tx) > 0
    /\ PutAndWake(tx, <<>>, room)
    /\ UNCHANGED <<rx, saved, arr, ioctl, issued, arrived, lost, handled>>

-----------------------------------------------------------------------------
(* The process.  tuxctl_ldisc_put, and then write_wakeup: room is asked for *)
(* without the lock, and the bytes are written without it.                  *)

ioctlUnchanged == UNCHANGED <<rx, saved, arr, arrived, lost, handled>>

PutCommand ==
    /\ ioctl = Idle /\ issued < MaxCommands
    /\ issued' = issued + 1
    /\ cut' = cut \cup Refused(tx, Command(issued'))
    /\ tx' = PutInto(tx, Command(issued'))
    /\ ioctl' = [at |-> "room"]
    /\ ioctlUnchanged /\ UNCHANGED <<wire, refused>>

AskRoom(room) ==
    /\ ioctl.at = "room"
    /\ ioctl' = [at |-> "take", room |-> room]
    /\ ioctlUnchanged /\ UNCHANGED <<tx, issued, wire, refused, cut>>

TakeBytes ==
    /\ ioctl.at = "take"
    /\ ioctl' = [at |-> "write", room |-> ioctl.room, buf |-> First(tx, Drained(ioctl.room))]
    /\ tx' = Rest(tx, Drained(ioctl.room))
    /\ ioctlUnchanged /\ UNCHANGED <<issued, wire, refused, cut>>

WriteBytes ==
    /\ ioctl.at = "write"
    /\ Writes(ioctl.buf, ioctl.room)
    /\ ioctl' = Idle
    /\ ioctlUnchanged /\ UNCHANGED <<tx, issued, cut>>

(* tuxctl_buttons reads the two bytes one after the other.                  *)
LastEvent == IF Events(handled) = {} THEN 0 ELSE Id(handled[Max(Events(handled))])
ButtonsFirst ==
    /\ ioctl = Idle
    /\ ioctl' = [at |-> "second", since |-> LastEvent, first |-> arr[1]]
    /\ ioctlUnchanged /\ UNCHANGED <<tx, issued, wire, refused, cut>>

ButtonsReturn ==
    /\ ioctl.at = "second"
    /\ ioctl' = [at |-> "copy", since |-> ioctl.since, buttons |-> <<ioctl.first, arr[2]>>]
    /\ ioctlUnchanged /\ UNCHANGED <<tx, issued, wire, refused, cut>>

CopyToUser ==
    /\ ioctl.at = "copy"
    /\ ioctl' = Idle
    /\ ioctlUnchanged /\ UNCHANGED <<tx, issued, wire, refused, cut>>

Next ==
    \/ LoseByte
    \/ \E count \in 1 .. MaxChunk, room \in Rooms : rcv_buf(count, room)
    \/ \E room \in Rooms : write_wakeup(room)
    \/ PutCommand \/ (\E room \in Rooms : AskRoom(room)) \/ TakeBytes \/ WriteBytes
    \/ ButtonsFirst \/ ButtonsReturn \/ CopyToUser

Spec == Init /\ [][Next]_vars

-----------------------------------------------------------------------------
Rings == [buf : [Slots -> Nat \X Nat], start : Slots, end : Slots]
InHand == IF ioctl.at = "write" THEN ioctl.buf ELSE <<>>

(* The rings are rings, never read past what was put in, and the callback   *)
(* keeps at most the two bytes it has room for.                             *)
TypeOK ==
    /\ rx \in Rings /\ tx \in Rings
    /\ Unset \notin ToSet(Contents(rx)) \cup ToSet(Contents(tx))
    /\ Len(saved) <= 2
    /\ issued \in 0 .. MaxCommands /\ arrived \in 0 .. (3 * Packets)

(* One lost byte costs one packet: no packet is handled with bytes of two,  *)
(* none twice, all others are handled, in order, however the bytes are cut  *)
(* into interrupts (the framing of the callback and its saved bytes).       *)
Waiting == ToSet(Contents(rx)) \cup ToSet(saved)
OneLossOnePacket ==
    Cardinality(lost) <= 1 =>
        /\ \A j \in DOMAIN handled : handled[j] = [k \in 1 .. 3 |-> <<Id(handled[j]), k>>]
        /\ \A j \in 2 .. Len(handled) : Id(handled[j - 1]) < Id(handled[j])
        /\ \A i \in 1 .. (arrived \div 3) :
             (\A k \in 1 .. 3 : <<i, k>> \notin lost \cup Waiting)
               => \E j \in DOMAIN handled : Id(handled[j]) = i

(* A byte put in the tx ring is in one place: still there, in the hands of  *)
(* the process, written, or refused by the driver; none is sent twice by    *)
(* an ioctl and an interrupt that drain the ring together.                  *)
EachByteOnce ==
    LET queued == Contents(tx) \o InHand \o wire
    IN  /\ IsInjective(queued)
        /\ refused \cap ToSet(queued) = {}
        /\ ToSet(queued) \cup refused \cup cut = (1 .. issued) \X (1 .. COMMAND)

(* The controller gets whole commands, unless the driver refuses a byte, or *)
(* is about to refuse one in the hands of the process, or the ring is full: *)
(* write_wakeup and tuxctl_ldisc_put.                                       *)
Whole(bytes) ==
    \A j \in DOMAIN bytes :
        /\ bytes[j][2] > 1 => j > 1 /\ bytes[j - 1] = <<bytes[j][1], bytes[j][2] - 1>>
        /\ bytes[j][2] < COMMAND =>
             j < Len(bytes) /\ bytes[j + 1] = <<bytes[j][1], bytes[j][2] + 1>>
Doomed ==
    IF ioctl.at = "write" THEN ToSet(SubSeq(ioctl.buf, ioctl.room + 1, Len(ioctl.buf))) ELSE {}
CommandsStayWhole == refused \cup Doomed \cup cut = {} => Whole(wire)

(* TUX_BUTTONS may join the halves of two events, but neither is older than *)
(* the last event before the call.                                          *)
ButtonsAreFresh ==
    ioctl.at = "copy" => \A k \in 1 .. 2 : ioctl.buttons[k] >= ioctl.since

(* What comes from the controller is handled once, in order, and read fresh.*)
ReceivesInOrder == OneLossOnePacket /\ ButtonsAreFresh

(* What goes to the controller is sent once, and as whole commands.         *)
SendsInOrder == TypeOK /\ EachByteOnce /\ CommandsStayWhole
=============================================================================
