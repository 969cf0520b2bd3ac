----------------------------- MODULE Interrupts -----------------------------
(* The two 8259 controllers (i8259.c), the real-time clock (rtc.c), and the *)
(* interrupt handlers of the kernel in empee3, among the processes of the   *)
(* terminals that the PIT switches between.  Code that runs with interrupts *)
(* off is one step; a handler that turns them on again is cut there.        *)
EXTENDS Integers, FiniteSets

CONSTANTS
    MAX_TERMS,      \* 3
    Readers,        \* the processes that read the RTC
    Writers,        \* ... that open it and set its frequency
    Frequencies     \* the frequencies they ask for

ASSUME InterruptsAssumption ==
    /\ MAX_TERMS \in Nat \ {0}
    /\ Readers \subseteq 0 .. (MAX_TERMS - 1)
    /\ Writers \subseteq 0 .. (MAX_TERMS - 1)
    /\ Frequencies \subseteq Nat

VARIABLES
    pic,        \* irr, isr, imr and the masks the kernel keeps, soft
    rtc,        \* index, pie, rate, clocked, and the interrupt flag of C
    interrupt_happening,
    key,        \* the scancode waiting in the keyboard controller
    cpu,        \* the process that runs
    ran,        \* it has run since it was switched to
    call,       \* what each process is doing
    tail,       \* what its interrupted keyboard handler has left to do
    heard,      \* for a reader: an RTC interrupt came since its call
    cut         \* for a writer: its selection of register A was undone
vars == <<pic, rtc, interrupt_happening, key, cpu, ran, call, tail, heard, cut>>
procVars == <<cpu, ran, call, tail>>

Procs == 0 .. (MAX_TERMS - 1)
IRQ_PIT == 0
PS2_IRQ_LINE == 1
Cascade == 2
RTC_IRQ_LINE == 8
Lines == {IRQ_PIT, PS2_IRQ_LINE, Cascade, RTC_IRQ_LINE}

-----------------------------------------------------------------------------
(* The 8259s.                                                               *)

OnSlave(l) == l >= 8
SameChip(l) == {m \in Lines : OnSlave(m) <=> OnSlave(l)}

(* outb(master_mask) or outb(slave_mask).                                   *)
OutMask(p, l) == [p EXCEPT !.imr = (@ \ SameChip(l)) \cup (p.soft \cap SameChip(l))]

enable_irq(p, l) == OutMask([p EXCEPT !.soft = @ \ {l}], l)

disable_irq(p, l) == OutMask([p EXCEPT !.soft = @ \cup {l}], l)

send_eoi_slaveOnly(p, l) == [p EXCEPT !.isr = @ \ {l}]                   \* faulty
send_eoi(p, l) == [p EXCEPT !.isr = @ \ (IF OnSlave(l) THEN {l, Cascade} ELSE {l})]

(* i8259_init masks everything but the cascade.                             *)
i8259_init == enable_irq([irr |-> {}, isr |-> {}, imr |-> Lines, soft |-> Lines], Cascade)

(* The priority of the line at the master, and what it may interrupt.       *)
Level(l) == IF OnSlave(l) THEN Cascade ELSE l
Pending(p) ==
    {l \in p.irr \ p.imr :
        /\ OnSlave(l) => Cascade \notin p.imr
        /\ \A s \in p.isr : Level(l) < Level(s)}
Delivers(p, l) == l \in Pending(p) /\ \A m \in Pending(p) : Level(l) <= Level(m)
Accept(p, l) ==
    [p EXCEPT !.irr = @ \ {l},
              !.isr = @ \cup (IF OnSlave(l) THEN {l, Cascade} ELSE {l})]
Raise(p, l) == [p EXCEPT !.irr = @ \cup {l}]

-----------------------------------------------------------------------------
(* The RTC.  An access to the data port resets the index to register D.     *)

Select(r, reg) == [r EXCEPT !.index = reg]
Accessed(r) == [r EXCEPT !.index = "D"]

(* What inb() brings for the bits of A that clock the RTC.                  *)
ClockBits(r) == r.index = "A" /\ r.clocked
WriteA(r, clocked, rate) ==
    IF r.index = "A" THEN [r EXCEPT !.clocked = clocked, !.rate = rate, !.index = "D"]
                     ELSE Accessed(r)

ReadC_skipped(r) == Accessed(Select(r, "C"))                             \* faulty
ReadC(r) == [Accessed(Select(r, "C")) EXCEPT !.flag = FALSE]

INITIAL_RATE_OF_FREQUENCY == 15

(* The rates 6 .. 15 of RTC_write: no other frequency has one.              *)
RatesOf(f) == {r \in 6 .. 15 : 2^(16 - r) = f}

-----------------------------------------------------------------------------
(* The boot ends with the keyboard and the PIT enabled.  The rate is the    *)
(* one the firmware leaves, 1024 Hz.                                        *)
Init ==
    /\ pic = enable_irq(enable_irq(i8259_init, PS2_IRQ_LINE), IRQ_PIT)
    /\ rtc = [index |-> "D", pie |-> FALSE, rate |-> 6, clocked |-> TRUE, flag |-> FALSE]
    /\ interrupt_happening = FALSE
    /\ key = "none"
    /\ cpu = 0
    /\ ran = FALSE
    /\ call = [p \in Procs |-> [at |-> "user"]]
    /\ tail = [p \in Procs |-> "none"]
    /\ heard = [p \in Procs |-> FALSE]
    /\ cut = [p \in Procs |-> FALSE]

(* A write in a place where it relies on the index.                         *)
Selected(c) == c.at \in {"prev", "put"}
CutBy(q) == [p \in Procs |-> cut[p] \/ (p # q /\ Selected(call[p]))]
Nobody == MAX_TERMS

-----------------------------------------------------------------------------
(* The devices.  The PIT and the user are slow: the process, and not only   *)
(* the handlers, runs between two ticks, and before a key is pressed.       *)

PitTick ==
    /\ ran /\ IRQ_PIT \notin pic.irr
    /\ pic' = Raise(pic, IRQ_PIT)
    /\ UNCHANGED <<rtc, interrupt_happening, key, procVars, heard, cut>>

(* The flag of register C must be read before the RTC interrupts again.     *)
RtcTick ==
    /\ rtc.pie /\ ~rtc.flag
    /\ rtc' = [rtc EXCEPT !.flag = TRUE]
    /\ pic' = Raise(pic, RTC_IRQ_LINE)
    /\ UNCHANGED <<interrupt_happening, key, procVars, heard, cut>>

(* Enter and Alt+F1..F3 turn interrupts on inside the handler.              *)
PressKey ==
    /\ ran /\ key = "none"
    /\ key' \in {"plain", "enter"}
    /\ pic' = Raise(pic, PS2_IRQ_LINE)
    /\ UNCHANGED <<rtc, interrupt_happening, procVars, heard, cut>>

-----------------------------------------------------------------------------
(* The handlers.                                                            *)

(* pit_handler: schedule() goes to the process of the next terminal.        *)
TakeTick ==
    /\ Delivers(pic, IRQ_PIT)
    /\ pic' = send_eoi(Accept(pic, IRQ_PIT), IRQ_PIT)
    /\ cpu' = (cpu + 1) % MAX_TERMS
    /\ ran' = FALSE
    /\ UNCHANGED <<rtc, interrupt_happening, key, call, tail, heard, cut>>

Guarded(p, l) == enable_irq(send_eoi(disable_irq(Accept(p, l), l), l), l)

RTC_handler ==
    /\ Delivers(pic, RTC_IRQ_LINE)
    /\ interrupt_happening' = TRUE
    /\ pic' = Guarded(pic, RTC_IRQ_LINE)
    /\ rtc' = ReadC(rtc)
    /\ heard' = [p \in Procs |-> TRUE]
    /\ cut' = CutBy(Nobody)
    /\ UNCHANGED <<key, procVars>>

(* terminal_newline and switch_terminal end with sti(): the line is still   *)
(* masked and in service.                                                   *)
keyboard_handler ==
    /\ Delivers(pic, PS2_IRQ_LINE)
    /\ key' = "none"
    /\ \/ /\ key = "plain"
          /\ pic' = Guarded(pic, PS2_IRQ_LINE)
          /\ UNCHANGED tail
       \/ /\ key = "enter"
          /\ pic' = disable_irq(Accept(pic, PS2_IRQ_LINE), PS2_IRQ_LINE)
          /\ tail' = [tail EXCEPT ![cpu] = "send_eoi"]
    /\ UNCHANGED <<rtc, interrupt_happening, cpu, ran, call, heard, cut>>

-----------------------------------------------------------------------------
(* The running process, when no interrupt is due.                           *)

Executes(p) == cpu = p /\ Pending(pic) = {} /\ UNCHANGED <<cpu, key>>

(* The rest of the keyboard handler; enable_irq writes memory, then the     *)
(* port.                                                                    *)
After_masked == [send_eoi |-> "outb", unmask |-> "outb", outb |-> "none"] \* faulty
After == [send_eoi |-> "unmask", unmask |-> "outb", outb |-> "none"]
EndKeyboard(p) ==
    /\ Executes(p) /\ tail[p] # "none"
    /\ pic' = CASE tail[p] = "send_eoi" -> send_eoi(pic, PS2_IRQ_LINE)
                [] tail[p] = "unmask" -> [pic EXCEPT !.soft = @ \ {PS2_IRQ_LINE}]
                [] tail[p] = "outb" -> OutMask(pic, PS2_IRQ_LINE)
    /\ tail' = [tail EXCEPT ![p] = After[@]]
    /\ UNCHANGED <<rtc, interrupt_happening, ran, call, heard, cut>>

Continues(p, at) ==
    Executes(p) /\ tail[p] = "none" /\ call[p].at = at /\ ran' = TRUE

Compute(p) ==
    /\ Continues(p, "user")
    /\ UNCHANGED <<pic, rtc, interrupt_happening, call, tail, heard, cut>>

(* RTC_open and RTC_init: do_open() turned interrupts off.                  *)
RTC_open(p) ==
    /\ p \in Readers \cup Writers /\ Continues(p, "user")
    /\ rtc' = [rtc EXCEPT !.pie = TRUE, !.rate = INITIAL_RATE_OF_FREQUENCY, !.index = "D"]
    /\ pic' = enable_irq(pic, RTC_IRQ_LINE)
    /\ cut' = CutBy(p)
    /\ UNCHANGED <<interrupt_happening, call, tail, heard>>

(* RTC_read: reset the flag, poll it, reset it.                             *)
FlagAtRead_kept == interrupt_happening                                   \* faulty
FlagAtRead == FALSE
RTC_read(p) ==
    /\ p \in Readers /\ rtc.pie /\ Continues(p, "user")
    /\ interrupt_happening' = FlagAtRead
    /\ call' = [call EXCEPT ![p] = [at |-> "poll"]]
    /\ heard' = [heard EXCEPT ![p] = FALSE]
    /\ UNCHANGED <<pic, rtc, tail, cut>>

Spin(p) ==
    /\ Continues(p, "poll") /\ ~interrupt_happening
    /\ UNCHANGED <<pic, rtc, interrupt_happening, call, tail, heard, cut>>

LeavePoll(p) ==
    /\ Continues(p, "poll") /\ interrupt_happening
    /\ call' = [call EXCEPT ![p] = [at |-> "reset"]]
    /\ UNCHANGED <<pic, rtc, interrupt_happening, tail, heard, cut>>

ReadReturns(p) ==
    /\ Continues(p, "reset")
    /\ interrupt_happening' = FALSE
    /\ call' = [call EXCEPT ![p] = [at |-> "user"]]
    /\ UNCHANGED <<pic, rtc, tail, heard, cut>>

(* RTC_write, with interrupts on: a stray inb() and four port accesses.     *)
RTC_write(p) ==
    /\ p \in Writers /\ rtc.pie /\ Continues(p, "user")
    /\ \E f \in Frequencies : \E r \in RatesOf(f) :
         call' = [call EXCEPT ![p] = [at |-> "select", rate |-> r]]
    /\ rtc' = Accessed(rtc)
    /\ cut' = [CutBy(p) EXCEPT ![p] = FALSE]
    /\ UNCHANGED <<pic, interrupt_happening, tail, heard>>

(* A frequency that has no rate: return -1.                                 *)
WriteFails(p) ==
    /\ p \in Writers /\ rtc.pie /\ Continues(p, "user")
    /\ \E f \in Frequencies : RatesOf(f) = {}
    /\ UNCHANGED <<pic, rtc, interrupt_happening, call, tail, heard, cut>>

WriteSelects(p) ==
    /\ Continues(p, "select")
    /\ rtc' = Select(rtc, "A")
    /\ call' = [call EXCEPT ![p] = [@ EXCEPT !.at = "prev"]]
    /\ cut' = CutBy(p)
    /\ UNCHANGED <<pic, interrupt_happening, tail, heard>>

WriteReadsA(p) ==
    /\ Continues(p, "prev")
    /\ call' = [call EXCEPT ![p] = [at |-> "again", rate |-> @.rate, clocked |-> ClockBits(rtc)]]
    /\ rtc' = Accessed(rtc)
    /\ cut' = CutBy(p)
    /\ UNCHANGED <<pic, interrupt_happening, tail, heard>>

Reselected_not == rtc                                                    \* faulty
Reselected == Select(rtc, "A")
WriteSelectsAgain(p) ==
    /\ Continues(p, "again")
    /\ rtc' = Reselected
    /\ call' = [call EXCEPT ![p] = [@ EXCEPT !.at = "put"]]
    /\ cut' = CutBy(p)
    /\ UNCHANGED <<pic, interrupt_happening, tail, heard>>

WriteReturns(p) ==
    /\ Continues(p, "put")
    /\ rtc' = WriteA(rtc, call[p].clocked, call[p].rate)
    /\ call' = [call EXCEPT ![p] = [at |-> "user"]]
    /\ cut' = CutBy(p)
    /\ UNCHANGED <<pic, interrupt_happening, tail, heard>>

Step(p) ==
    \/ EndKeyboard(p) \/ Compute(p) \/ RTC_open(p)
    \/ RTC_read(p) \/ Spin(p) \/ LeavePoll(p) \/ ReadReturns(p)
    \/ RTC_write(p) \/ WriteFails(p) \/ WriteSelects(p) \/ WriteReadsA(p)
    \/ WriteSelectsAgain(p) \/ WriteReturns(p)

Next ==
    \/ PitTick \/ RtcTick \/ PressKey
    \/ TakeTick \/ RTC_handler \/ keyboard_handler
    \/ \E p \in Procs : Step(p)

Spec == Init /\ [][Next]_vars

(* Interrupts that are due are taken, the running process runs between      *)
(* them, the PIT never stops, and the RTC neither while it is clocked.      *)
Fairness ==
    /\ WF_vars(PitTick) /\ WF_vars(TakeTick)
    /\ WF_vars(rtc.clocked /\ RtcTick)
    /\ WF_vars(keyboard_handler) /\ SF_vars(RTC_handler)
    /\ SF_vars(\E p \in Procs : Step(p))
FairSpec == Spec /\ Fairness

-----------------------------------------------------------------------------
CallTypes ==
    [at : {"user", "poll", "reset"}]
      \cup [at : {"select", "prev"}, rate : 6 .. 15]
      \cup [at : {"again", "put"}, rate : 6 .. 15, clocked : BOOLEAN]

(* The program counters, the registers and the controllers have their type. *)
TypeOK ==
    /\ pic \in [irr : SUBSET Lines, isr : SUBSET Lines, imr : SUBSET Lines, soft : SUBSET Lines]
    /\ rtc \in [index : {"A", "D"}, pie : BOOLEAN, rate : 6 .. 15, clocked : BOOLEAN, flag : BOOLEAN]
    /\ interrupt_happening \in BOOLEAN
    /\ key \in {"none", "plain", "enter"}
    /\ cpu \in Procs /\ ran \in BOOLEAN
    /\ call \in [Procs -> CallTypes]
    /\ tail \in [Procs -> {"none", "send_eoi", "unmask", "outb"}]
    /\ heard \in [Procs -> BOOLEAN] /\ cut \in [Procs -> BOOLEAN]

(* The keyboard line is masked or in service only on behalf of a handler    *)
(* that was switched away from, there is at most one of those, and no other *)
(* line is left in service: what keyboard_handler does after its sti().     *)
MaskedByItsHandler ==
    /\ \A p, q \in Procs : tail[p] # "none" /\ tail[q] # "none" => p = q
    /\ PS2_IRQ_LINE \in pic.imr <=> \E p \in Procs : tail[p] # "none"
    /\ pic.isr = {l \in {PS2_IRQ_LINE} : \E p \in Procs : tail[p] = "send_eoi"}
    /\ pic.imr = pic.soft \/ \E p \in Procs : tail[p] = "outb"

(* Once the RTC holds its line up, the interrupt that will read register C  *)
(* is still to come: or it would never interrupt again (RTC_handler).       *)
AcknowledgeWillCome == rtc.flag => RTC_IRQ_LINE \in pic.irr /\ RTC_IRQ_LINE \notin pic.imr

(* An RTC_read does not end on an interrupt from before it was called, even *)
(* if other readers reset the flag under it.                                *)
ReadsAwaitAnInterrupt ==
    \A p \in Readers : call[p].at = "reset" \/ (call[p].at = "poll" /\ interrupt_happening)
                         => heard[p]

(* An RTC_write whose selection of A nobody undid reads the bits that clock *)
(* the RTC as they are, and sets its rate with the bits it read.            *)
UncutWritesCount ==
    [][\A p \in Writers : ~cut[p] =>
          /\ WriteReadsA(p) => call'[p].clocked = rtc.clocked
          /\ WriteReturns(p) => rtc'.rate = call[p].rate /\ rtc'.clocked = call[p].clocked]_vars

(* An Enter or a switch of terminals delays the keyboard, but the handler   *)
(* is resumed and unmasks it.                                               *)
KeyboardComesBack == []<>(PS2_IRQ_LINE \notin pic.imr /\ pic.isr = {})

(* Readers share the flag and may take each other's interrupts, but some    *)
(* read returns while the RTC stays clocked.                                *)
SomeReadReturns ==
    \/ []<><<\E p \in Readers : ReadReturns(p)>>_vars
    \/ []<>(\A p \in Readers : call[p].at # "poll")
    \/ []<>~rtc.clocked
=============================================================================
