------------------------- MODULE Interrupts_proofs --------------------------
(* For any number of processes, readers and writers: the controllers and    *)
(* the RTC are never left deaf, and a read of the RTC waits for an          *)
(* interrupt of its own time.                                               *)
EXTENDS Interrupts, TLAPS

Pics == [irr : SUBSET Lines, isr : SUBSET Lines, imr : SUBSET Lines, soft : SUBSET Lines]
Clocks == [index : {"A", "D"}, pie : BOOLEAN, rate : 6 .. 15, clocked : BOOLEAN, flag : BOOLEAN]

LEMMA LinesAre ==
    /\ Lines = {0, 1, 2, 8}
    /\ \A l \in Lines : SameChip(l) = IF l = 8 THEN {8} ELSE {0, 1, 2}
BY DEF Lines, IRQ_PIT, PS2_IRQ_LINE, Cascade, RTC_IRQ_LINE, SameChip, OnSlave

(* What each operation makes of the registers.                              *)
LEMMA Registers ==
    ASSUME NEW p \in Pics, NEW l \in Lines
    PROVE /\ Raise(p, l) \in Pics
          /\ Raise(p, l) = [p EXCEPT !.irr = @ \cup {l}]
          /\ Accept(p, l) \in Pics
          /\ send_eoi(p, l) \in Pics
          /\ OutMask(p, l) \in Pics
          /\ enable_irq(p, l) \in Pics
          /\ disable_irq(p, l) \in Pics
<1>1. Cascade \in Lines /\ SameChip(l) \subseteq Lines
  BY DEF Lines, SameChip
<1>2. OutMask(p, l) \in Pics
  BY <1>1 DEF OutMask, Pics
<1>3. [p EXCEPT !.soft = @ \ {l}] \in Pics /\ [p EXCEPT !.soft = @ \cup {l}] \in Pics
  BY DEF Pics
<1>4. enable_irq(p, l) \in Pics /\ disable_irq(p, l) \in Pics
  BY <1>1, <1>3 DEF enable_irq, disable_irq, OutMask, Pics
<1>5. Accept(p, l) \in Pics
  BY <1>1 DEF Accept, Pics
<1>6. send_eoi(p, l) \in Pics
  BY <1>1 DEF send_eoi, Pics
<1> QED
  BY <1>2, <1>4, <1>5, <1>6 DEF Raise, Pics

(* The handler that guards its line with the mask leaves it unmasked and    *)
(* nothing of its own in service.                                           *)
LEMMA GuardedRegisters ==
    ASSUME NEW p \in Pics, NEW l \in {PS2_IRQ_LINE, RTC_IRQ_LINE}
    PROVE /\ Guarded(p, l) \in Pics
          /\ Guarded(p, l).irr = p.irr \ {l}
          /\ Guarded(p, l).soft = p.soft \ {l}
          /\ Guarded(p, l).imr = (p.imr \ SameChip(l)) \cup ((p.soft \ {l}) \cap SameChip(l))
          /\ Guarded(p, l).isr = p.isr \ (IF OnSlave(l) THEN {l, Cascade} ELSE {l})
<1>1. l \in Lines
  BY DEF Lines
<1> DEFINE a == Accept(p, l)
           d == disable_irq(a, l)
           s == send_eoi(d, l)
<1>2. a \in Pics /\ d \in Pics /\ s \in Pics /\ Guarded(p, l) \in Pics
  BY <1>1, Registers DEF Guarded
<1>3. /\ a.irr = p.irr \ {l} /\ a.imr = p.imr /\ a.soft = p.soft
      /\ a.isr = p.isr \cup (IF OnSlave(l) THEN {l, Cascade} ELSE {l})
  BY DEF Accept, Pics
<1>4. /\ d.irr = a.irr /\ d.isr = a.isr /\ d.soft = a.soft \cup {l}
      /\ d.imr = (a.imr \ SameChip(l)) \cup ((a.soft \cup {l}) \cap SameChip(l))
  BY <1>2 DEF disable_irq, OutMask, Pics
<1>5. /\ s.irr = d.irr /\ s.imr = d.imr /\ s.soft = d.soft
      /\ s.isr = d.isr \ (IF OnSlave(l) THEN {l, Cascade} ELSE {l})
  BY <1>2 DEF send_eoi, Pics
<1>6. /\ Guarded(p, l).irr = s.irr /\ Guarded(p, l).isr = s.isr
      /\ Guarded(p, l).soft = s.soft \ {l}
      /\ Guarded(p, l).imr = (s.imr \ SameChip(l)) \cup ((s.soft \ {l}) \cap SameChip(l))
  BY <1>2 DEF Guarded, enable_irq, OutMask, Pics
<1> QED
  BY <1>2, <1>3, <1>4, <1>5, <1>6

LEMMA ClockRegisters ==
    ASSUME NEW r \in Clocks
    PROVE /\ Select(r, "A") \in Clocks /\ Accessed(r) \in Clocks
          /\ ReadC(r) \in Clocks /\ ReadC(r).flag = FALSE /\ ReadC(r).pie = r.pie
          /\ \A q \in {Select(r, "A"), Accessed(r)} : q.pie = r.pie /\ q.flag = r.flag
          /\ ClockBits(r) \in BOOLEAN
BY DEF Select, Accessed, ReadC, ClockBits, Clocks

LEMMA ClockWritten ==
    ASSUME NEW r \in Clocks, NEW c \in BOOLEAN, NEW n \in 6 .. 15
    PROVE /\ WriteA(r, c, n) \in Clocks
          /\ WriteA(r, c, n).pie = r.pie /\ WriteA(r, c, n).flag = r.flag
BY DEF Accessed, WriteA, Clocks

LEMMA ClockOpened ==
    ASSUME NEW r \in Clocks
    PROVE [r EXCEPT !.pie = TRUE, !.rate = INITIAL_RATE_OF_FREQUENCY, !.index = "D"] \in Clocks
<1>1. INITIAL_RATE_OF_FREQUENCY \in 6 .. 15
  BY DEF INITIAL_RATE_OF_FREQUENCY
<1> QED
  BY <1>1 DEF Clocks

-----------------------------------------------------------------------------
(* Types *)

(* The steps of a call that leave the controllers and the handlers alone.   *)
CallStep(p) ==
    \/ Compute(p) \/ RTC_read(p) \/ Spin(p) \/ LeavePoll(p) \/ ReadReturns(p)
    \/ RTC_write(p) \/ WriteFails(p) \/ WriteSelects(p) \/ WriteReadsA(p)
    \/ WriteSelectsAgain(p) \/ WriteReturns(p)

LEMMA TypesAre == TypeOK => pic \in Pics /\ rtc \in Clocks
BY DEF TypeOK, Pics, Clocks

LEMMA Cuts ==
    ASSUME cut \in [Procs -> BOOLEAN], NEW q PROVE CutBy(q) \in [Procs -> BOOLEAN]
BY DEF CutBy

LEMMA CallStepTypes ==
    ASSUME TypeOK, NEW p \in Procs, CallStep(p) PROVE TypeOK'
<1> USE DEF TypeOK
<1>1. /\ UNCHANGED <<pic, tail, cpu, key>> /\ ran' = TRUE
  BY DEF CallStep, Continues, Executes, Compute, RTC_read, Spin, LeavePoll, ReadReturns,
         RTC_write, WriteFails, WriteSelects, WriteReadsA, WriteSelectsAgain, WriteReturns
<1>2. /\ cut' \in [Procs -> BOOLEAN] /\ heard' \in [Procs -> BOOLEAN]
      /\ interrupt_happening' \in BOOLEAN
  <2>0. CutBy(p) \in [Procs -> BOOLEAN]
    BY Cuts
  <2>1. CASE Compute(p) \/ Spin(p) \/ WriteFails(p) \/ LeavePoll(p) \/ ReadReturns(p)
    BY <2>1 DEF Compute, Spin, WriteFails, LeavePoll, ReadReturns
  <2>2. CASE RTC_read(p)
    BY <2>2 DEF RTC_read, FlagAtRead
  <2>3. CASE RTC_write(p)
    <3>1. [CutBy(p) EXCEPT ![p] = FALSE] \in [Procs -> BOOLEAN]
      BY <2>0
    <3> QED
      BY <2>3, <3>1 DEF RTC_write
  <2>4. CASE WriteSelects(p) \/ WriteReadsA(p) \/ WriteSelectsAgain(p) \/ WriteReturns(p)
    BY <2>0, <2>4 DEF WriteSelects, WriteReadsA, WriteSelectsAgain, WriteReturns
  <2> QED
    BY <2>1, <2>2, <2>3, <2>4 DEF CallStep
<1>3. call[p] \in CallTypes
  OBVIOUS
<1>4. rtc \in Clocks
  BY TypesAre
<1>5. /\ call[p].at \in {"select", "prev"} => call[p].rate \in 6 .. 15
      /\ call[p].at \in {"again", "put"} => call[p].rate \in 6 .. 15 /\ call[p].clocked \in BOOLEAN
  BY <1>3 DEF CallTypes
<1>6. rtc' \in Clocks /\ call' \in [Procs -> CallTypes]
  <2>1. CASE Compute(p) \/ Spin(p) \/ WriteFails(p)
    BY <1>4, <2>1 DEF Compute, Spin, WriteFails
  <2>2. CASE RTC_read(p) \/ LeavePoll(p) \/ ReadReturns(p)
    BY <1>4, <2>2 DEF RTC_read, LeavePoll, ReadReturns, CallTypes
  <2>3. CASE RTC_write(p)
    <3>1. rtc' \in Clocks
      BY <1>4, <2>3 DEF RTC_write, Accessed, Clocks
    <3>2. PICK r \in 6 .. 15 : call' = [call EXCEPT ![p] = [at |-> "select", rate |-> r]]
      BY <2>3 DEF RTC_write, RatesOf
    <3>3. [at |-> "select", rate |-> r] \in CallTypes
      BY DEF CallTypes
    <3> QED
      BY <3>1, <3>2, <3>3
  <2>4. CASE WriteSelects(p)
    <3>1. [call[p] EXCEPT !.at = "prev"] \in CallTypes
      BY <1>3, <2>4 DEF WriteSelects, Continues, CallTypes
    <3> QED
      BY <1>4, <2>4, <3>1, ClockRegisters DEF WriteSelects
  <2>5. CASE WriteReadsA(p)
    <3>1. call[p].rate \in 6 .. 15 /\ ClockBits(rtc) \in BOOLEAN
      BY <1>4, <1>5, <2>5, ClockRegisters DEF WriteReadsA, Continues
    <3>2. [at |-> "again", rate |-> call[p].rate, clocked |-> ClockBits(rtc)] \in CallTypes
      BY <3>1 DEF CallTypes
    <3> QED
      BY <1>4, <2>5, <3>2, ClockRegisters DEF WriteReadsA
  <2>6. CASE WriteSelectsAgain(p)
    <3>1. [call[p] EXCEPT !.at = "put"] \in CallTypes
      BY <1>3, <2>6 DEF WriteSelectsAgain, Continues, CallTypes
    <3> QED
      BY <1>4, <2>6, <3>1, ClockRegisters
      DEF WriteSelectsAgain, Reselected
  <2>7. CASE WriteReturns(p)
    <3>1. call[p].rate \in 6 .. 15 /\ call[p].clocked \in BOOLEAN
      BY <1>5, <2>7 DEF WriteReturns, Continues
    <3> QED
      BY <1>4, <2>7, <3>1, ClockWritten DEF WriteReturns, CallTypes
  <2> QED
    BY <2>1, <2>2, <2>3, <2>4, <2>5, <2>6, <2>7 DEF CallStep
<1> QED
  BY <1>1, <1>2, <1>6 DEF Clocks

LEMMA TypeStep == ASSUME TypeOK, [Next]_vars PROVE TypeOK'
<1>1. pic \in Pics /\ rtc \in Clocks
  BY TypesAre
<1>2. {IRQ_PIT, PS2_IRQ_LINE, RTC_IRQ_LINE} \subseteq Lines
  BY DEF Lines
<1>3. CASE PitTick \/ RtcTick \/ PressKey
  <2>1. pic' \in Pics
    BY <1>1, <1>2, <1>3, Registers DEF PitTick, RtcTick, PressKey
  <2> QED
    BY <1>3, <2>1 DEF TypeOK, PitTick, RtcTick, PressKey, procVars, Pics
<1>4. CASE TakeTick
  <2>1. pic' \in Pics
    BY <1>1, <1>2, <1>4, Registers DEF TakeTick
  <2>2. cpu' \in Procs
    BY <1>4, InterruptsAssumption DEF TypeOK, TakeTick, Procs
  <2> QED
    BY <1>4, <2>1, <2>2 DEF TypeOK, TakeTick, Pics
<1>5. CASE RTC_handler
  <2>1. pic' \in Pics /\ rtc' \in Clocks
    BY <1>1, <1>5, GuardedRegisters, ClockRegisters DEF RTC_handler
  <2>2. cut' \in [Procs -> BOOLEAN]
    BY <1>5, Cuts DEF TypeOK, RTC_handler
  <2> QED
    BY <1>5, <2>1, <2>2 DEF TypeOK, RTC_handler, procVars, Pics, Clocks
<1>6. CASE keyboard_handler
  <2>1. pic' \in Pics
    <3>1. Guarded(pic, PS2_IRQ_LINE) \in Pics
      BY <1>1, GuardedRegisters
    <3>2. PS2_IRQ_LINE \in Lines /\ Accept(pic, PS2_IRQ_LINE) \in Pics
      BY <1>1, <1>2, Registers
    <3>3. disable_irq(Accept(pic, PS2_IRQ_LINE), PS2_IRQ_LINE) \in Pics
      BY <3>2, Registers
    <3> QED
      BY <1>6, <3>1, <3>3 DEF keyboard_handler
  <2>2. tail' \in [Procs -> {"none", "send_eoi", "unmask", "outb"}]
    BY <1>6 DEF TypeOK, keyboard_handler
  <2> QED
    BY <1>6, <2>1, <2>2 DEF TypeOK, keyboard_handler, Pics
<1>7. ASSUME NEW p \in Procs, EndKeyboard(p) PROVE TypeOK'
  <2>1. tail[p] \in {"send_eoi", "unmask", "outb"}
    BY <1>7 DEF TypeOK, EndKeyboard
  <2>2. pic' \in Pics
    <3>1. send_eoi(pic, PS2_IRQ_LINE) \in Pics /\ OutMask(pic, PS2_IRQ_LINE) \in Pics
      BY <1>1, <1>2, Registers
    <3>2. [pic EXCEPT !.soft = @ \ {PS2_IRQ_LINE}] \in Pics
      BY <1>1 DEF Pics
    <3> QED
      BY <1>7, <2>1, <3>1, <3>2 DEF EndKeyboard
  <2>3. tail' \in [Procs -> {"none", "send_eoi", "unmask", "outb"}]
    BY <1>7, <2>1 DEF TypeOK, EndKeyboard, After
  <2> QED
    BY <1>7, <2>2, <2>3 DEF TypeOK, EndKeyboard, Executes, Pics
<1>8. ASSUME NEW p \in Procs, RTC_open(p) PROVE TypeOK'
  <2>1. pic' \in Pics /\ cut' \in [Procs -> BOOLEAN]
    BY <1>1, <1>2, <1>8, Registers, Cuts DEF TypeOK, RTC_open
  <2>2. rtc' \in Clocks
    BY <1>1, <1>8, ClockOpened DEF RTC_open
  <2> QED
    BY <1>8, <2>1, <2>2 DEF TypeOK, RTC_open, Continues, Executes, Pics, Clocks
<1>9. CASE UNCHANGED vars
  BY <1>9 DEF TypeOK, vars
<1> QED
  BY <1>3, <1>4, <1>5, <1>6, <1>7, <1>8, <1>9, CallStepTypes DEF Next, Step, CallStep

LEMMA InitTypes == Init => TypeOK
<1> SUFFICES ASSUME Init PROVE TypeOK
  OBVIOUS
<1>1. [irr |-> {}, isr |-> {}, imr |-> Lines, soft |-> Lines] \in Pics
  BY DEF Pics
<1>2. pic \in Pics
  BY <1>1, Registers DEF Init, i8259_init, Lines
<1>3. 0 \in Procs
  BY InterruptsAssumption DEF Procs
<1>4. call \in [Procs -> CallTypes]
  <2>1. [at |-> "user"] \in CallTypes
    BY DEF CallTypes
  <2> QED
    BY <2>1 DEF Init
<1>5. rtc \in Clocks
  BY DEF Init, Clocks
<1>6. /\ tail \in [Procs -> {"none", "send_eoi", "unmask", "outb"}]
      /\ heard \in [Procs -> BOOLEAN] /\ cut \in [Procs -> BOOLEAN]
  BY DEF Init
<1> QED
  BY <1>2, <1>3, <1>4, <1>5, <1>6 DEF Init, TypeOK, Pics, Clocks

(* The controllers and the RTC keep their types, and a call in progress has *)
(* the values its next step needs.                                          *)
THEOREM InterruptsTypes == Spec => []TypeOK
BY InitTypes, TypeStep, PTL DEF Spec

-----------------------------------------------------------------------------
(* The masks                                                                *)

(* What every step relies on to keep MaskedByItsHandler: a mask and the     *)
(* kernel's copy of it differ in the keyboard's line at most, and a handler *)
(* about to write the port has already cleared its bit in the copy.         *)
Masks ==
    /\ MaskedByItsHandler
    /\ pic.imr \ {PS2_IRQ_LINE} = pic.soft \ {PS2_IRQ_LINE}
    /\ \A p \in Procs : tail[p] = "outb" => PS2_IRQ_LINE \notin pic.soft

(* Only the requests of the controllers change.                             *)
LEMMA MasksKept ==
    ASSUME Masks, UNCHANGED tail,
           pic'.isr = pic.isr, pic'.imr = pic.imr, pic'.soft = pic.soft
    PROVE Masks'
BY DEF Masks, MaskedByItsHandler

LEMMA NoHandlerUnfinished ==
    ASSUME TypeOK, Masks, PS2_IRQ_LINE \notin pic.imr
    PROVE /\ \A p \in Procs : tail[p] = "none"
          /\ pic.isr = {} /\ pic.imr = pic.soft
BY DEF Masks, MaskedByItsHandler, TypeOK

LEMMA KeyboardMasks == ASSUME TypeOK, Masks, keyboard_handler PROVE Masks'
<1>1. pic \in Pics /\ PS2_IRQ_LINE \in Lines /\ PS2_IRQ_LINE \notin pic.imr
  BY TypesAre, LinesAre DEF keyboard_handler, Delivers, Pending, PS2_IRQ_LINE
<1>2. /\ \A p \in Procs : tail[p] = "none"
      /\ pic.isr = {} /\ pic.imr = pic.soft
  BY <1>1, NoHandlerUnfinished
<1>3. ~OnSlave(PS2_IRQ_LINE) /\ SameChip(PS2_IRQ_LINE) = {0, 1, 2}
  BY <1>1, LinesAre DEF OnSlave, PS2_IRQ_LINE
<1>4. CASE pic' = Guarded(pic, PS2_IRQ_LINE) /\ UNCHANGED tail
  <2>1. /\ pic'.soft = pic.soft \ {PS2_IRQ_LINE}
        /\ pic'.imr = (pic.imr \ {0, 1, 2}) \cup ((pic.soft \ {PS2_IRQ_LINE}) \cap {0, 1, 2})
        /\ pic'.isr = pic.isr \ {PS2_IRQ_LINE}
    BY <1>1, <1>3, <1>4, GuardedRegisters
  <2>2. pic'.soft = pic.soft /\ pic'.imr = pic.imr /\ pic'.isr = pic.isr
    BY <1>1, <1>2, <2>1
  <2> QED
    BY <1>4, <2>2, MasksKept
<1>5. CASE /\ pic' = disable_irq(Accept(pic, PS2_IRQ_LINE), PS2_IRQ_LINE)
           /\ tail' = [tail EXCEPT ![cpu] = "send_eoi"]
  <2>1. /\ pic'.isr = {PS2_IRQ_LINE}
        /\ pic'.soft = pic.soft \cup {PS2_IRQ_LINE}
        /\ pic'.imr = (pic.imr \ {0, 1, 2}) \cup ((pic.soft \cup {PS2_IRQ_LINE}) \cap {0, 1, 2})
    BY <1>1, <1>2, <1>3, <1>5 DEF disable_irq, OutMask, Accept, Pics
  <2>2. pic'.imr = pic'.soft /\ PS2_IRQ_LINE \in pic'.imr
    BY <1>2, <2>1 DEF PS2_IRQ_LINE
  <2>3. /\ tail'[cpu] = "send_eoi" /\ cpu \in Procs
        /\ \A p \in Procs : p # cpu => tail'[p] = "none"
    BY <1>2, <1>5 DEF TypeOK
  <2> QED
    BY <2>1, <2>2, <2>3 DEF Masks, MaskedByItsHandler
<1> QED
  BY <1>4, <1>5 DEF keyboard_handler

LEMMA EndKeyboardMasks ==
    ASSUME TypeOK, Masks, NEW p \in Procs, EndKeyboard(p) PROVE Masks'
<1>1. pic \in Pics /\ tail[p] \in {"send_eoi", "unmask", "outb"}
  BY TypesAre DEF TypeOK, EndKeyboard
<1>2. /\ \A q \in Procs : q # p => tail[q] = "none" /\ tail'[q] = "none"
      /\ tail'[p] = After[tail[p]]
  BY <1>1 DEF Masks, MaskedByItsHandler, EndKeyboard, TypeOK
<1>3. PS2_IRQ_LINE \in pic.imr
  BY <1>1 DEF Masks, MaskedByItsHandler
<1>4. CASE tail[p] = "send_eoi"
  <2>1. tail'[p] = "unmask" /\ pic.imr = pic.soft
    BY <1>2, <1>4 DEF After, Masks, MaskedByItsHandler
  <2>2. pic'.isr = {} /\ pic'.imr = pic.imr /\ pic'.soft = pic.soft
    BY <1>1, <1>4 DEF EndKeyboard, send_eoi, OnSlave, PS2_IRQ_LINE, Pics, Masks, MaskedByItsHandler
  <2> QED
    BY <1>2, <1>3, <2>1, <2>2 DEF Masks, MaskedByItsHandler
<1>5. CASE tail[p] = "unmask"
  <2>1. tail'[p] = "outb" /\ pic.isr = {}
    BY <1>2, <1>5 DEF After, Masks, MaskedByItsHandler
  <2>2. pic'.isr = {} /\ pic'.imr = pic.imr /\ pic'.soft = pic.soft \ {PS2_IRQ_LINE}
    BY <1>1, <1>5, <2>1 DEF EndKeyboard, Pics
  <2> QED
    BY <1>2, <1>3, <2>1, <2>2 DEF Masks, MaskedByItsHandler
<1>6. CASE tail[p] = "outb"
  <2>1. tail'[p] = "none" /\ pic.isr = {} /\ PS2_IRQ_LINE \notin pic.soft
    BY <1>2, <1>6 DEF After, Masks, MaskedByItsHandler
  <2>2. SameChip(PS2_IRQ_LINE) = {0, 1, 2}
    BY LinesAre DEF PS2_IRQ_LINE
  <2>3. /\ pic'.isr = {} /\ pic'.soft = pic.soft
        /\ pic'.imr = (pic.imr \ {0, 1, 2}) \cup (pic.soft \cap {0, 1, 2})
    BY <1>1, <1>6, <2>1, <2>2 DEF EndKeyboard, OutMask, Pics
  <2>4. pic.imr \ {PS2_IRQ_LINE} = pic.soft \ {PS2_IRQ_LINE}
    BY DEF Masks
  <2>5. pic'.imr = pic.soft
    BY <2>1, <2>3, <2>4 DEF PS2_IRQ_LINE
  <2> QED
    BY <1>2, <2>1, <2>3, <2>5 DEF Masks, MaskedByItsHandler
<1> QED
  BY <1>1, <1>4, <1>5, <1>6

LEMMA MasksStep == ASSUME TypeOK, Masks, [Next]_vars PROVE Masks'
<1>1. pic \in Pics /\ {IRQ_PIT, PS2_IRQ_LINE, RTC_IRQ_LINE} \subseteq Lines
  BY TypesAre DEF Lines
<1>2. pic.isr \subseteq {PS2_IRQ_LINE}
  BY DEF Masks, MaskedByItsHandler
<1>3. CASE PitTick \/ RtcTick \/ PressKey
  <2>1. PICK l \in Lines : pic' = Raise(pic, l)
    BY <1>1, <1>3 DEF PitTick, RtcTick, PressKey
  <2>2. pic'.isr = pic.isr /\ pic'.imr = pic.imr /\ pic'.soft = pic.soft
    BY <1>1, <2>1 DEF Raise, Pics
  <2>3. UNCHANGED tail
    BY <1>3 DEF PitTick, RtcTick, PressKey, procVars
  <2> QED
    BY <2>2, <2>3, MasksKept
<1>4. CASE TakeTick
  <2>1. pic'.imr = pic.imr /\ pic'.soft = pic.soft /\ pic'.isr = (pic.isr \cup {IRQ_PIT}) \ {IRQ_PIT}
    BY <1>1, <1>4 DEF TakeTick, send_eoi, Accept, OnSlave, IRQ_PIT, Pics
  <2>2. pic'.isr = pic.isr
    BY <1>2, <2>1 DEF IRQ_PIT, PS2_IRQ_LINE
  <2> QED
    BY <1>4, <2>1, <2>2, MasksKept DEF TakeTick
<1>5. CASE RTC_handler
  <2>1. RTC_IRQ_LINE \notin pic.imr /\ RTC_IRQ_LINE \notin pic.soft
    BY <1>5 DEF RTC_handler, Delivers, Pending, Masks, RTC_IRQ_LINE, PS2_IRQ_LINE
  <2>2. OnSlave(RTC_IRQ_LINE) /\ SameChip(RTC_IRQ_LINE) = {RTC_IRQ_LINE}
    BY <1>1, LinesAre DEF OnSlave, RTC_IRQ_LINE
  <2>3. /\ pic'.soft = pic.soft \ {RTC_IRQ_LINE}
        /\ pic'.imr = (pic.imr \ {RTC_IRQ_LINE})
                        \cup ((pic.soft \ {RTC_IRQ_LINE}) \cap {RTC_IRQ_LINE})
        /\ pic'.isr = pic.isr \ {RTC_IRQ_LINE, Cascade}
    BY <1>1, <1>5, <2>2, GuardedRegisters DEF RTC_handler
  <2>4. pic'.soft = pic.soft /\ pic'.imr = pic.imr
    BY <2>1, <2>3
  <2>5. pic'.isr = pic.isr
    BY <1>2, <2>3 DEF RTC_IRQ_LINE, PS2_IRQ_LINE, Cascade
  <2> QED
    BY <1>5, <2>4, <2>5, MasksKept DEF RTC_handler, procVars
<1>6. CASE keyboard_handler
  BY <1>6, KeyboardMasks
<1>7. ASSUME NEW p \in Procs, EndKeyboard(p) PROVE Masks'
  BY <1>7, EndKeyboardMasks
<1>8. ASSUME NEW p \in Procs, RTC_open(p) PROVE Masks'
  <2>1. SameChip(RTC_IRQ_LINE) = {RTC_IRQ_LINE}
    BY <1>1, LinesAre DEF RTC_IRQ_LINE
  <2>2. /\ pic'.isr = pic.isr /\ pic'.soft = pic.soft \ {RTC_IRQ_LINE} /\ UNCHANGED tail
        /\ pic'.imr = (pic.imr \ {RTC_IRQ_LINE})
                        \cup ((pic.soft \ {RTC_IRQ_LINE}) \cap {RTC_IRQ_LINE})
    BY <1>1, <1>8, <2>1 DEF RTC_open, enable_irq, OutMask, Pics
  <2>3. pic'.imr = pic.imr \ {RTC_IRQ_LINE}
    BY <2>2
  <2>4. RTC_IRQ_LINE # PS2_IRQ_LINE
    BY DEF RTC_IRQ_LINE, PS2_IRQ_LINE
  <2> QED
    BY <2>2, <2>3, <2>4 DEF Masks, MaskedByItsHandler
<1>9. ASSUME NEW p \in Procs, CallStep(p) PROVE Masks'
  BY <1>9, MasksKept
  DEF CallStep, Compute, RTC_read, Spin, LeavePoll, ReadReturns, RTC_write, WriteFails,
      WriteSelects, WriteReadsA, WriteSelectsAgain, WriteReturns
<1>10. CASE UNCHANGED vars
  BY <1>10, MasksKept DEF vars
<1> QED
  BY <1>3, <1>4, <1>5, <1>6, <1>7, <1>8, <1>9, <1>10 DEF Next, Step, CallStep

LEMMA InitMasks == Init => Masks
<1> SUFFICES ASSUME Init PROVE Masks
  OBVIOUS
<1>1. /\ pic.isr = {} /\ pic.imr = {RTC_IRQ_LINE} /\ pic.soft = {RTC_IRQ_LINE}
  BY LinesAre DEF Init, i8259_init, enable_irq, OutMask, Lines,
                  IRQ_PIT, PS2_IRQ_LINE, Cascade, RTC_IRQ_LINE
<1>2. PS2_IRQ_LINE # RTC_IRQ_LINE /\ \A p \in Procs : tail[p] = "none"
  BY DEF Init, PS2_IRQ_LINE, RTC_IRQ_LINE
<1> QED
  BY <1>1, <1>2 DEF Masks, MaskedByItsHandler

(* Whatever interrupts what, the keyboard is masked or in service only for  *)
(* the one handler that was switched away from in its sti(), and no other   *)
(* line stays in service.                                                   *)
THEOREM MasksAreRestored == Spec => []MaskedByItsHandler
<1>1. Masks => MaskedByItsHandler
  BY DEF Masks
<1> QED
  BY <1>1, InitMasks, MasksStep, InterruptsTypes, PTL DEF Spec

-----------------------------------------------------------------------------
(* The interrupt of the RTC                                                 *)

(* The line is unmasked from the first open on, and only an RTC that is     *)
(* enabled holds it up.                                                     *)
ClockIsHeard ==
    /\ AcknowledgeWillCome
    /\ rtc.flag => rtc.pie
    /\ rtc.pie => RTC_IRQ_LINE \notin pic.imr

(* No other handler touches the request of the RTC, nor its mask.           *)
LEMMA ClockKept ==
    ASSUME ClockIsHeard,
           rtc'.flag = rtc.flag, rtc'.pie = rtc.pie,
           RTC_IRQ_LINE \in pic.irr => RTC_IRQ_LINE \in pic'.irr,
           RTC_IRQ_LINE \notin pic.imr => RTC_IRQ_LINE \notin pic'.imr
    PROVE ClockIsHeard'
BY DEF ClockIsHeard, AcknowledgeWillCome

LEMMA KeyboardLeavesTheClock ==
    ASSUME TypeOK, Masks, keyboard_handler \/ \E p \in Procs : EndKeyboard(p)
    PROVE /\ UNCHANGED rtc
          /\ RTC_IRQ_LINE \in pic.irr => RTC_IRQ_LINE \in pic'.irr
          /\ RTC_IRQ_LINE \notin pic.imr => RTC_IRQ_LINE \notin pic'.imr
<1>1. pic \in Pics /\ PS2_IRQ_LINE \in Lines /\ RTC_IRQ_LINE = 8 /\ PS2_IRQ_LINE = 1
  BY TypesAre, LinesAre DEF PS2_IRQ_LINE, RTC_IRQ_LINE
<1>2. SameChip(PS2_IRQ_LINE) = {0, 1, 2} /\ ~OnSlave(PS2_IRQ_LINE)
  BY <1>1, LinesAre DEF OnSlave
<1>3. CASE pic' = Guarded(pic, PS2_IRQ_LINE) /\ keyboard_handler
  <2>1. /\ pic'.irr = pic.irr \ {PS2_IRQ_LINE}
        /\ pic'.imr = (pic.imr \ {0, 1, 2}) \cup ((pic.soft \ {PS2_IRQ_LINE}) \cap {0, 1, 2})
    BY <1>1, <1>2, <1>3, GuardedRegisters
  <2> QED
    BY <1>1, <1>3, <2>1 DEF keyboard_handler
<1>4. CASE pic' = disable_irq(Accept(pic, PS2_IRQ_LINE), PS2_IRQ_LINE) /\ keyboard_handler
  <2>1. /\ pic'.irr = pic.irr \ {PS2_IRQ_LINE}
        /\ pic'.imr = (pic.imr \ {0, 1, 2}) \cup ((pic.soft \cup {PS2_IRQ_LINE}) \cap {0, 1, 2})
    BY <1>1, <1>2, <1>4 DEF disable_irq, OutMask, Accept, Pics
  <2> QED
    BY <1>1, <1>4, <2>1 DEF keyboard_handler
<1>5. ASSUME NEW p \in Procs, EndKeyboard(p)
      PROVE /\ UNCHANGED rtc
            /\ RTC_IRQ_LINE \in pic.irr => RTC_IRQ_LINE \in pic'.irr
            /\ RTC_IRQ_LINE \notin pic.imr => RTC_IRQ_LINE \notin pic'.imr
  <2>1. tail[p] \in {"send_eoi", "unmask", "outb"}
    BY <1>5 DEF TypeOK, EndKeyboard
  <2>2. pic' = CASE tail[p] = "send_eoi" -> send_eoi(pic, PS2_IRQ_LINE)
                 [] tail[p] = "unmask" -> [pic EXCEPT !.soft = @ \ {PS2_IRQ_LINE}]
                 [] tail[p] = "outb" -> OutMask(pic, PS2_IRQ_LINE)
    BY <1>5 DEF EndKeyboard
  <2>3. /\ pic'.irr = pic.irr
        /\ pic'.imr = pic.imr \/ pic'.imr = (pic.imr \ {0, 1, 2}) \cup (pic.soft \cap {0, 1, 2})
    BY <1>1, <1>2, <2>1, <2>2 DEF send_eoi, OutMask, Pics
  <2>4. UNCHANGED rtc
    BY <1>5 DEF EndKeyboard
  <2>5. 8 \notin pic.imr => 8 \notin pic'.imr
    BY <2>3
  <2> QED
    BY <1>1, <2>3, <2>4, <2>5
<1> QED
  BY <1>3, <1>4, <1>5 DEF keyboard_handler

LEMMA ClockStep ==
    ASSUME TypeOK, Masks, ClockIsHeard, [Next]_vars PROVE ClockIsHeard'
<1>1. pic \in Pics /\ rtc \in Clocks /\ {IRQ_PIT, PS2_IRQ_LINE, RTC_IRQ_LINE} \subseteq Lines
  BY TypesAre DEF Lines
<1>2. CASE PitTick \/ PressKey
  <2>1. PICK l \in Lines : pic' = Raise(pic, l)
    BY <1>1, <1>2 DEF PitTick, PressKey
  <2>2. pic'.imr = pic.imr /\ pic'.irr = pic.irr \cup {l}
    BY <1>1, <2>1 DEF Raise, Pics
  <2> QED
    BY <1>2, <2>2, ClockKept DEF PitTick, PressKey
<1>3. CASE RtcTick
  <2>1. pic'.imr = pic.imr /\ RTC_IRQ_LINE \in pic'.irr
    BY <1>1, <1>3 DEF RtcTick, Raise, Pics
  <2>2. rtc.pie /\ rtc'.pie = rtc.pie
    BY <1>1, <1>3 DEF RtcTick, Clocks
  <2> QED
    BY <2>1, <2>2 DEF ClockIsHeard, AcknowledgeWillCome
<1>4. CASE TakeTick
  <2>1. pic'.imr = pic.imr /\ pic'.irr = pic.irr \ {IRQ_PIT}
    BY <1>1, <1>4 DEF TakeTick, send_eoi, Accept, Pics
  <2>2. RTC_IRQ_LINE # IRQ_PIT
    BY DEF RTC_IRQ_LINE, IRQ_PIT
  <2> QED
    BY <1>4, <2>1, <2>2, ClockKept DEF TakeTick
<1>5. CASE RTC_handler
  <2>1. rtc'.flag = FALSE /\ rtc'.pie = rtc.pie
    BY <1>1, <1>5, ClockRegisters DEF RTC_handler
  <2>2. SameChip(RTC_IRQ_LINE) = {RTC_IRQ_LINE}
    BY <1>1, LinesAre DEF RTC_IRQ_LINE
  <2>3. pic'.imr = (pic.imr \ {RTC_IRQ_LINE})
                     \cup ((pic.soft \ {RTC_IRQ_LINE}) \cap {RTC_IRQ_LINE})
    BY <1>1, <1>5, <2>2, GuardedRegisters DEF RTC_handler
  <2> QED
    BY <2>1, <2>3 DEF ClockIsHeard, AcknowledgeWillCome
<1>6. CASE keyboard_handler \/ \E p \in Procs : EndKeyboard(p)
  BY <1>6, KeyboardLeavesTheClock, ClockKept
<1>7. ASSUME NEW p \in Procs, RTC_open(p) PROVE ClockIsHeard'
  <2>1. SameChip(RTC_IRQ_LINE) = {RTC_IRQ_LINE}
    BY <1>1, LinesAre DEF RTC_IRQ_LINE
  <2>2. /\ pic'.irr = pic.irr
        /\ pic'.imr = (pic.imr \ {RTC_IRQ_LINE})
                        \cup ((pic.soft \ {RTC_IRQ_LINE}) \cap {RTC_IRQ_LINE})
    BY <1>1, <1>7, <2>1 DEF RTC_open, enable_irq, OutMask, Pics
  <2>3. rtc'.flag = rtc.flag /\ rtc'.pie = TRUE
    BY <1>1, <1>7 DEF RTC_open, Clocks
  <2> QED
    BY <2>2, <2>3 DEF ClockIsHeard, AcknowledgeWillCome
<1>8. ASSUME NEW p \in Procs, CallStep(p) PROVE ClockIsHeard'
  <2>1. UNCHANGED pic
    BY <1>8
    DEF CallStep, Compute, RTC_read, Spin, LeavePoll, ReadReturns, RTC_write, WriteFails,
        WriteSelects, WriteReadsA, WriteSelectsAgain, WriteReturns
  <2>2. rtc'.flag = rtc.flag /\ rtc'.pie = rtc.pie
    <3>1. CASE UNCHANGED rtc
      BY <3>1
    <3>2. CASE rtc' \in {Select(rtc, "A"), Accessed(rtc)}
      BY <1>1, <3>2, ClockRegisters
    <3>3. CASE WriteReturns(p)
      <4>1. call[p] \in CallTypes /\ call[p].at = "put"
        BY <3>3 DEF TypeOK, WriteReturns, Continues
      <4>2. call[p].rate \in 6 .. 15 /\ call[p].clocked \in BOOLEAN
        BY <4>1 DEF CallTypes
      <4> QED
        BY <1>1, <3>3, <4>2, ClockWritten DEF WriteReturns
    <3> QED
      BY <1>8, <3>1, <3>2, <3>3
      DEF CallStep, Compute, RTC_read, Spin, LeavePoll, ReadReturns, RTC_write, WriteFails,
          WriteSelects, WriteReadsA, WriteSelectsAgain, Reselected
  <2> QED
    BY <2>1, <2>2, ClockKept
<1>9. CASE UNCHANGED vars
  BY <1>9, ClockKept DEF vars
<1> QED
  BY <1>2, <1>3, <1>4, <1>5, <1>6, <1>7, <1>8, <1>9 DEF Next, Step, CallStep

(* The RTC is never left holding its line up with nobody to read register C *)
(* any more, however the handlers and the calls interleave.                 *)
THEOREM ClockIsAcknowledged == Spec => []AcknowledgeWillCome
<1>1. Init => ClockIsHeard
  BY DEF Init, ClockIsHeard, AcknowledgeWillCome
<1>2. ClockIsHeard => AcknowledgeWillCome
  BY DEF ClockIsHeard
<1>3. Spec => []Masks
  BY InitMasks, MasksStep, InterruptsTypes, PTL DEF Spec
<1> QED
  BY <1>1, <1>2, <1>3, ClockStep, InterruptsTypes, PTL DEF Spec

-----------------------------------------------------------------------------
(* Reads                                                                    *)

LEMMA ReadsStep ==
    ASSUME TypeOK, ReadsAwaitAnInterrupt, [Next]_vars PROVE ReadsAwaitAnInterrupt'
<1>0. Readers \subseteq Procs
  BY InterruptsAssumption DEF Procs
<1>1. CASE RTC_handler
  <2>1. \A p \in Readers : heard'[p]
    BY <1>0, <1>1 DEF RTC_handler
  <2> QED
    BY <2>1 DEF ReadsAwaitAnInterrupt
<1>2. CASE UNCHANGED <<interrupt_happening, call, heard>>
  BY <1>2 DEF ReadsAwaitAnInterrupt
<1>3. ASSUME NEW p \in Procs, CallStep(p) PROVE ReadsAwaitAnInterrupt'
  <2>1. CASE RTC_read(p)
    BY <2>1 DEF RTC_read, FlagAtRead, ReadsAwaitAnInterrupt, TypeOK, CallTypes
  <2>2. CASE LeavePoll(p)
    BY <2>2 DEF LeavePoll, Continues, ReadsAwaitAnInterrupt, TypeOK
  <2>3. CASE ReadReturns(p)
    BY <2>3 DEF ReadReturns, Continues, ReadsAwaitAnInterrupt, TypeOK
  <2>4. CASE Compute(p) \/ Spin(p) \/ WriteFails(p)
    BY <1>2, <2>4 DEF Compute, Spin, WriteFails
  <2>5. CASE \/ RTC_write(p) \/ WriteSelects(p) \/ WriteReadsA(p)
             \/ WriteSelectsAgain(p) \/ WriteReturns(p)
    <3>1. call'[p].at \notin {"poll", "reset"}
      <4>1. CASE RTC_write(p)
        BY <4>1 DEF RTC_write, TypeOK
      <4>2. CASE WriteSelects(p) \/ WriteSelectsAgain(p)
        <5>1. call[p] \in CallTypes /\ call[p].at \in {"select", "again"}
          BY <4>2 DEF WriteSelects, WriteSelectsAgain, Continues, TypeOK
        <5>2. \A s \in {"prev", "put"} : [call[p] EXCEPT !.at = s].at = s
          BY <5>1 DEF CallTypes
        <5> QED
          BY <4>2, <5>2 DEF WriteSelects, WriteSelectsAgain, TypeOK
      <4>3. CASE WriteReadsA(p) \/ WriteReturns(p)
        BY <4>3 DEF WriteReadsA, WriteReturns, TypeOK
      <4> QED
        BY <2>5, <4>1, <4>2, <4>3
    <3>2. UNCHANGED <<interrupt_happening, heard>> /\ \A q \in Procs : q # p => call'[q] = call[q]
      BY <2>5 DEF RTC_write, WriteSelects, WriteReadsA, WriteSelectsAgain, WriteReturns, TypeOK
    <3> QED
      BY <1>0, <3>1, <3>2 DEF ReadsAwaitAnInterrupt
  <2> QED
    BY <1>3, <2>1, <2>2, <2>3, <2>4, <2>5 DEF CallStep
<1> QED
  BY <1>1, <1>2, <1>3
  DEF Next, Step, CallStep, vars, PitTick, RtcTick, PressKey, TakeTick, keyboard_handler,
      EndKeyboard, RTC_open, procVars

(* A read of the RTC ends on an interrupt that came after the call, with    *)
(* any number of readers resetting the one flag under each other.           *)
THEOREM ReadsAreNotStale == Spec => []ReadsAwaitAnInterrupt
<1>1. Init => ReadsAwaitAnInterrupt
  BY InterruptsAssumption DEF Init, ReadsAwaitAnInterrupt, Procs
<1> QED
  BY <1>1, ReadsStep, InterruptsTypes, PTL DEF Spec

-----------------------------------------------------------------------------
(* Writes                                                                   *)

(* A write that relies on the index has A selected, unless it was cut.      *)
UncutIsSelected ==
    \A p \in Procs : Selected(call[p]) /\ ~cut[p] => rtc.index = "A"

(* Whoever else uses the RTC marks the writes that rely on the index.       *)
LEMMA OthersAreCut ==
    ASSUME TypeOK, NEW q \in Procs \cup {Nobody}, NEW p \in Procs, p # q,
           call'[p] = call[p], cut'[p] = CutBy(q)[p]
    PROVE ~(Selected(call'[p]) /\ ~cut'[p])
BY DEF CutBy, TypeOK

(* The process that makes a step of its own either is not there or has just *)
(* selected A.                                                              *)
LEMMA OwnSelection ==
    ASSUME TypeOK, NEW p \in Procs,
           \/ RTC_write(p) \/ WriteSelects(p) \/ WriteReadsA(p)
           \/ WriteSelectsAgain(p) \/ WriteReturns(p)
    PROVE Selected(call'[p]) => rtc'.index = "A"
<1> USE DEF Selected
<1>1. call[p] \in CallTypes /\ rtc \in Clocks
  BY TypesAre DEF TypeOK
<1>2. CASE RTC_write(p)
  BY <1>2 DEF RTC_write, TypeOK
<1>3. CASE WriteReadsA(p) \/ WriteReturns(p)
  BY <1>3 DEF WriteReadsA, WriteReturns, TypeOK
<1>4. CASE WriteSelects(p) \/ WriteSelectsAgain(p)
  BY <1>1, <1>4 DEF WriteSelects, WriteSelectsAgain, Reselected, Select, Clocks
<1> QED
  BY <1>2, <1>3, <1>4

LEMMA UncutStep == ASSUME TypeOK, UncutIsSelected, [Next]_vars PROVE UncutIsSelected'
<1> USE DEF UncutIsSelected
<1>1. CASE UNCHANGED <<call, cut>> /\ rtc'.index = rtc.index
  BY <1>1
<1>2. CASE RTC_handler
  <2>1. Nobody \notin Procs
    BY InterruptsAssumption DEF Nobody, Procs
  <2> QED
    BY <1>2, <2>1, OthersAreCut DEF RTC_handler, procVars
<1>3. CASE RtcTick
  <2>1. rtc'.index = rtc.index
    BY <1>3, TypesAre DEF RtcTick, Clocks
  <2> QED
    BY <1>1, <1>3, <2>1 DEF RtcTick, procVars
<1>4. ASSUME NEW p \in Procs, RTC_open(p) PROVE UncutIsSelected'
  <2>1. ~Selected(call'[p])
    BY <1>4 DEF RTC_open, Continues, Selected
  <2> QED
    BY <1>4, <2>1, OthersAreCut DEF RTC_open
<1>5. ASSUME NEW p \in Procs,
             \/ RTC_write(p) \/ WriteSelects(p) \/ WriteReadsA(p)
             \/ WriteSelectsAgain(p) \/ WriteReturns(p)
      PROVE UncutIsSelected'
  <2>1. \A q \in Procs \ {p} : call'[q] = call[q] /\ cut'[q] = CutBy(p)[q]
    BY <1>5, Cuts DEF RTC_write, WriteSelects, WriteReadsA, WriteSelectsAgain, WriteReturns, TypeOK
  <2>2. \A q \in Procs \ {p} : ~(Selected(call'[q]) /\ ~cut'[q])
    BY <2>1, OthersAreCut
  <2> QED
    BY <1>5, <2>2, OwnSelection
<1>6. ASSUME NEW p \in Procs, RTC_read(p) \/ LeavePoll(p) \/ ReadReturns(p)
      PROVE UncutIsSelected'
  <2>1. UNCHANGED <<rtc, cut>> /\ ~Selected(call'[p])
    BY <1>6 DEF RTC_read, LeavePoll, ReadReturns, Selected, TypeOK
  <2>2. \A q \in Procs \ {p} : call'[q] = call[q]
    BY <1>6 DEF RTC_read, LeavePoll, ReadReturns, TypeOK
  <2> QED
    BY <2>1, <2>2
<1> QED
  BY <1>1, <1>2, <1>3, <1>4, <1>5, <1>6
  DEF Next, Step, vars, PitTick, PressKey, TakeTick, keyboard_handler,
      EndKeyboard, Compute, Spin, WriteFails, procVars

LEMMA UncutInv == Spec => []UncutIsSelected
<1>1. Init => UncutIsSelected
  BY DEF Init, UncutIsSelected, Selected
<1> QED
  BY <1>1, UncutStep, InterruptsTypes, PTL DEF Spec

(* However many processes set the frequency and whatever interrupts them, a *)
(* write whose selection of A stood reads the clock bits of the RTC and     *)
(* sets the rate it was asked for.                                          *)
THEOREM UncutWrites == Spec => UncutWritesCount
<1> DEFINE Counts == \A p \in Writers : ~cut[p] =>
             /\ WriteReadsA(p) => call'[p].clocked = rtc.clocked
             /\ WriteReturns(p) => rtc'.rate = call[p].rate /\ rtc'.clocked = call[p].clocked
<1>1. ASSUME TypeOK, UncutIsSelected, NEW p \in Writers, ~cut[p]
      PROVE /\ WriteReadsA(p) => call'[p].clocked = rtc.clocked
            /\ WriteReturns(p) => rtc'.rate = call[p].rate /\ rtc'.clocked = call[p].clocked
  <2>1. p \in Procs
    BY InterruptsAssumption DEF Procs
  <2>2. rtc \in Clocks /\ call[p] \in CallTypes
    BY <1>1, <2>1, TypesAre DEF TypeOK
  <2>3. ASSUME WriteReadsA(p) PROVE call'[p].clocked = rtc.clocked
    <3>1. rtc.index = "A"
      BY <1>1, <2>1, <2>3 DEF WriteReadsA, Continues, UncutIsSelected, Selected
    <3> QED
      BY <1>1, <2>1, <2>2, <2>3, <3>1 DEF WriteReadsA, ClockBits, TypeOK, Clocks
  <2>4. ASSUME WriteReturns(p)
        PROVE rtc'.rate = call[p].rate /\ rtc'.clocked = call[p].clocked
    <3>1. rtc.index = "A"
      BY <1>1, <2>1, <2>4 DEF WriteReturns, Continues, UncutIsSelected, Selected
    <3> QED
      BY <2>2, <2>4, <3>1 DEF WriteReturns, WriteA, Clocks
  <2> QED
    BY <2>3, <2>4
<1>2. TypeOK /\ UncutIsSelected => Counts
  BY <1>1
<1>3. TypeOK /\ UncutIsSelected /\ [Next]_vars => [Counts]_vars
  BY <1>2
<1> QED
  BY <1>3, UncutInv, InterruptsTypes, PTL DEF Spec, UncutWritesCount
=============================================================================
