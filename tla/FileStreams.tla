---------------------------- MODULE FileStreams ----------------------------
(* What the descriptors of a process promise: a stream for each open slot,  *)
(* the bytes of a file or the names of a directory, read from the front and *)
(* never twice, until it is empty; or a device, which answers as it likes.  *)
EXTENDS Integers, Sequences

CONSTANTS
    Slots,      \* the descriptors
    Standard,   \* those that are the terminal from the start, and stay so
    Streams,    \* by name: the content of what can be opened
    Devices     \* the names that are devices
VARIABLES
    open,       \* the slots in use
    device,     \* those that are devices
    rest,       \* by slot: what is still to come
    answer      \* the last call: its slot, value, and what it put in the buffer
vars == <<open, device, rest, answer>>

Answers(fd, value, data) == answer' = [fd |-> fd, value |-> value, data |-> data]

Init ==
    /\ open = Standard /\ device = Standard
    /\ rest = [s \in Slots |-> <<>>]
    /\ answer = [fd |-> -1, value |-> 0, data |-> <<>>]

Open ==
    \E s \in Slots \ open :
        /\ open' = open \cup {s}
        /\ \/ \E name \in DOMAIN Streams :
                 rest' = [rest EXCEPT ![s] = Streams[name]] /\ UNCHANGED device
           \/ Devices # {} /\ device' = device \cup {s} /\ UNCHANGED rest
        /\ Answers(s, s, <<>>)

Close ==
    \E s \in open \ Standard :
        /\ open' = open \ {s}
        /\ device' = device \ {s}
        /\ rest' = [rest EXCEPT ![s] = <<>>]
        /\ Answers(s, 0, <<>>)

(* While something is to come, something is read, and the value says so.    *)
Read ==
    \E s \in open : \E k \in 1 .. Len(rest[s]) :
        /\ rest' = [rest EXCEPT ![s] = SubSeq(@, k + 1, Len(@))]
        /\ answer'.fd = s /\ answer'.value > 0 /\ answer'.data = SubSeq(rest[s], 1, k)
        /\ UNCHANGED <<open, device>>

AtEnd ==
    /\ \E s \in open \ device : rest[s] = <<>> /\ Answers(s, 0, <<>>)
    /\ UNCHANGED <<open, device, rest>>

DeviceCall ==
    /\ answer'.fd \in device /\ answer'.value \in Int /\ answer'.data = <<>>
    /\ UNCHANGED <<open, device, rest>>

Refuse ==
    /\ answer'.value = -1 /\ answer'.data = <<>>
    /\ UNCHANGED <<open, device, rest>>

Next == Open \/ Close \/ Read \/ AtEnd \/ DeviceCall \/ Refuse
Spec == Init /\ [][Next]_vars
=============================================================================
