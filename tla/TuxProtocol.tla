---------------------------- MODULE TuxProtocol ----------------------------
(***************************************************************************)
(* The protocol state of the Tux controller's driver, empee2/module/       *)
(* tuxctl-ioctl.c: ack counts the acknowledgements to come, resend says    *)
(* that the LEDs must be sent again after a reset of the controller, reset *)
(* holds their value.  TUX_SET_LED and TUX_INIT run in a process; packets  *)
(* of the controller are handled in interrupts, between any two statements *)
(* of an ioctl: the lock that would exclude it is commented out.           *)
(*                                                                         *)
(* The serial lines deliver commands and packets in order.  flag, the      *)
(* "spam flag", is left out: it is 1 only inside the handler of a button   *)
(* event, so no ioctl sees it.  Button events change nothing of this state *)
(* and are left out too.                                                   *)
(*                                                                         *)
(* Operators marked "faulty" are what a slip in the code would make of the *)
(* operator defined after them; no action uses them.                       *)
(***************************************************************************)
EXTENDS Integers, Sequences

CONSTANTS Values,          \* arguments of TUX_SET_LED
          Dark,            \* what the LEDs show after a reset, and reset = 0
          MaxResets,       \* bound: resets of the controller
          MaxInFlight      \* bound: no ioctl while so many are on their way

ASSUME TuxProtocolAssumption ==
    /\ Dark \notin Values
    /\ MaxResets \in Nat /\ MaxInFlight \in Nat

VARIABLES
    ack, resend, reset,    \* globals of the driver
    tuxIoctl,                 \* where the ioctl in progress is, and its argument
    to_tux,                \* commands sent and not executed
    to_host,               \* packets sent and not handled
    leds, user_mode,       \* of the controller
    opened, resets,        \* history: TUX_INIT was called; resets so far
    miscounted,            \* history: ack counts what an interrupt took away
    outdated               \* history: a resend went out behind a newer value

driver == <<ack, resend, reset>>
tux == <<leds, user_mode, resets>>
crossed == <<miscounted, outdated>>
protocolVars == <<driver, tuxIoctl, to_tux, to_host, tux, opened, crossed>>

BiocOn == [cmd |-> "MTCP_BIOC_ON"]
LedUsr == [cmd |-> "MTCP_LED_USR"]
LedSet(v) == [cmd |-> "MTCP_LED_SET", value |-> v]
Commands == {BiocOn, LedUsr} \cup {LedSet(v) : v \in Values \cup {Dark}}
PacketKinds == {"MTCP_ACK", "MTCP_RESET"}

NoIoctl == [pc |-> "idle", arg |-> Dark]
Ioctls == [pc : {"idle", "put_init", "record", "count"}, arg : Values \cup {Dark}]

ProtocolInit ==
    /\ ack = 0 /\ resend = FALSE /\ reset = Dark
    /\ tuxIoctl = NoIoctl
    /\ to_tux = <<>> /\ to_host = <<>>
    /\ leds = Dark /\ user_mode = FALSE
    /\ opened = FALSE /\ resets = 0
    /\ miscounted = FALSE /\ outdated = FALSE

-----------------------------------------------------------------------------
(* The ioctls *)

MayCall == tuxIoctl = NoIoctl /\ Len(to_tux) + Len(to_host) < MaxInFlight

InitCommands == <<BiocOn, LedUsr>>

BeginInit ==
    /\ MayCall
    /\ ack' = 2
    /\ tuxIoctl' = [tuxIoctl EXCEPT !.pc = "put_init"]
    /\ opened' = TRUE
    /\ miscounted' = FALSE
    /\ UNCHANGED <<resend, reset, to_tux, to_host, tux, outdated>>

PutInit ==
    /\ tuxIoctl.pc = "put_init"
    /\ to_tux' = to_tux \o InitCommands
    /\ tuxIoctl' = NoIoctl
    /\ UNCHANGED <<driver, to_host, tux, opened, crossed>>

(* tuxctl_set_led() on behalf of an ioctl: the put, then reset = arg ...   *)
BeginSetLed(v) ==
    /\ MayCall
    /\ to_tux' = Append(to_tux, LedSet(v))
    /\ tuxIoctl' = [pc |-> "record", arg |-> v]
    /\ outdated' = FALSE
    /\ UNCHANGED <<driver, to_host, tux, opened, miscounted>>

RecordValue_kept == reset                                            \* faulty
RecordValue == tuxIoctl.arg

RecordReset ==
    /\ tuxIoctl.pc = "record"
    /\ reset' = RecordValue
    /\ tuxIoctl' = [tuxIoctl EXCEPT !.pc = "count"]
    /\ UNCHANGED <<ack, resend, to_tux, to_host, tux, opened, crossed>>

(* ... and then ack++ of the ioctl. *)
CountAck ==
    /\ tuxIoctl.pc = "count"
    /\ ack' = ack + 1
    /\ tuxIoctl' = NoIoctl
    /\ UNCHANGED <<resend, reset, to_tux, to_host, tux, opened, crossed>>

-----------------------------------------------------------------------------
(* tuxctl_handle_packet(), in an interrupt *)

MayHandle(p) == to_host # <<>> /\ Head(to_host) = p

(* Inside an ioctl, between the put of an LED command and its ack++.       *)
InSetLed == tuxIoctl.pc = "record" \/ tuxIoctl.pc = "count"

AcksLeft == IF ack > 0 THEN ack - 1 ELSE 0

(* The last acknowledgement that was counted ends the initialisation. *)
MustResend == resend /\ AcksLeft = 0

HandleAck ==
    /\ MayHandle("MTCP_ACK")
    /\ to_host' = Tail(to_host)
    /\ ack' = AcksLeft
    /\ IF MustResend
       THEN resend' = FALSE /\ to_tux' = Append(to_tux, LedSet(reset))
       ELSE UNCHANGED <<resend, to_tux>>
    /\ miscounted' = (miscounted \/ (InSetLed /\ ack = 0))
    /\ outdated' = (outdated \/ (tuxIoctl.pc = "record" /\ MustResend))
    /\ UNCHANGED <<reset, tuxIoctl, tux, opened>>

AcksOfInit_added == ack + 2                                          \* faulty
AcksOfInit == 2

HandleReset ==
    /\ MayHandle("MTCP_RESET")
    /\ to_host' = Tail(to_host)
    /\ ack' = AcksOfInit
    /\ to_tux' = to_tux \o InitCommands
    /\ resend' = TRUE
    /\ miscounted' = InSetLed
    /\ outdated' = FALSE
    /\ UNCHANGED <<reset, tuxIoctl, tux, opened>>

-----------------------------------------------------------------------------
(* The controller, from mtcp.h: it acknowledges each command it executes.  *)

ExecuteCommand ==
    /\ to_tux # <<>>
    /\ leds' = IF Head(to_tux).cmd = "MTCP_LED_SET" THEN Head(to_tux).value
               ELSE leds
    /\ user_mode' = (user_mode \/ Head(to_tux) = LedUsr)
    /\ to_tux' = Tail(to_tux)
    /\ to_host' = Append(to_host, "MTCP_ACK")
    /\ UNCHANGED <<driver, tuxIoctl, opened, resets, crossed>>

(* A reset loses the commands that have reached the controller.            *)
ResetTux ==
    /\ resets < MaxResets
    /\ leds' = Dark /\ user_mode' = FALSE
    /\ \E reached \in 0 .. Len(to_tux) :
          to_tux' = SubSeq(to_tux, reached + 1, Len(to_tux))
    /\ to_host' = Append(to_host, "MTCP_RESET")
    /\ resets' = resets + 1
    /\ UNCHANGED <<driver, tuxIoctl, opened, crossed>>

ProtocolNext ==
    \/ BeginInit \/ PutInit
    \/ \E v \in Values : BeginSetLed(v)
    \/ RecordReset \/ CountAck
    \/ HandleAck \/ HandleReset
    \/ ExecuteCommand \/ ResetTux

ProtocolSpec == ProtocolInit /\ [][ProtocolNext]_protocolVars

-----------------------------------------------------------------------------
ProtocolTypeOK ==
    /\ ack \in Nat /\ resend \in BOOLEAN /\ reset \in Values \cup {Dark}
    /\ tuxIoctl \in Ioctls
    /\ to_tux \in Seq(Commands) /\ to_host \in Seq(PacketKinds)
    /\ leds \in Values \cup {Dark} /\ user_mode \in BOOLEAN
    /\ opened \in BOOLEAN /\ resets \in 0 .. MaxResets
    /\ miscounted \in BOOLEAN /\ outdated \in BOOLEAN

ResetOnItsWay == \E i \in 1 .. Len(to_host) : to_host[i] = "MTCP_RESET"

(* ack never counts an acknowledgement that is not to come, or the resend  *)
(* after a reset would wait for it for ever.  The exception is an ioctl    *)
(* that a packet crossed: its ack++ comes too late if the packet was the   *)
(* last acknowledgement or a reset, until the next init sets ack anew.     *)
AcksWillCome ==
    tuxIoctl = NoIoctl /\ ~ResetOnItsWay /\ ~miscounted =>
        ack <= Len(to_tux) + Len(to_host)

(* A reset is followed by a resend, or is still waiting for it with an     *)
(* acknowledgement to come.                                                *)
ResendHasACause == resend /\ ~ResetOnItsWay => ack > 0

(* When nothing is on its way, the LEDs show the last value an ioctl gave, *)
(* whatever resets came at whatever time, and the controller is in user    *)
(* mode once it was opened.  Only a packet that crossed an ioctl can leave *)
(* a resend undone, or the value before on the LEDs until the next ioctl.  *)
Quiet == tuxIoctl = NoIoctl /\ to_tux = <<>> /\ to_host = <<>>
LedsAreCurrent ==
    Quiet => /\ resend => miscounted
             /\ resend \/ outdated \/ leds = reset
             /\ opened => user_mode

(* What the comments of tuxctl_handle_packet() say of every reset          *)
(* ("reinitialized & reset leds", "resend flag set to 1 to resend leds",   *)
(* tuxctl-ioctl.c:94-95): the LEDs are sent again, and show the value.     *)
(* The code does not keep this, so no run has it.                          *)
ResetResendsLeds == Quiet => ~resend /\ leds = reset
=============================================================================
