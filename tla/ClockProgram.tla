---------------------------- MODULE ClockProgram ----------------------------
(***************************************************************************)
(* The clock program of c09/c09_1.asm (jauzzz/interrupt/interrupt.asm is   *)
(* the same program retyped): in real mode it puts its own handler into    *)
(* the interrupt vector of the real-time clock, has the clock interrupt at *)
(* the end of every update, and shows the time from the handler.           *)
(*                                                                         *)
(* The clock (Bochs, iodev/cmos.cc) runs beside it: once a second it sets  *)
(* UIP and 244 microseconds later changes the time in its registers, which *)
(* the handler reads one port access at a time.  How fast the processor is *)
(* is bounded from below only: `age` counts its steps since the clock's    *)
(* last action, up to UipSteps.                                            *)
(***************************************************************************)
EXTENDS Pic8259, Sequences

CONSTANTS
    Hours, Minutes, Seconds     \* 24, 60 and 60 in the clock

UnitsAssumption ==
    /\ Hours \in 1 .. 24
    /\ Minutes \in 1 .. 60
    /\ Seconds \in 1 .. 60

VARIABLES
    time,       \* what the registers of the clock stand for
    uip,        \* bit 7 of register A: an update is in progress
    age,        \* steps of the processor since the clock last acted
    enabled,    \* bit 4 of register B: interrupt at the end of an update
    flag,       \* register C: an update has ended
    pic,        \* the interrupt controllers
    vector,     \* the halves of vector 0x70 that are the program's own
    intsOpen,   \* the processor's IF flag
    pc,         \* where the processor is
    stack,      \* what the handler has pushed of the time
    shown,      \* the digits on the screen
    held        \* the times the clock held since the handler began

clockVars == <<time, uip, enabled, flag>>
handlerVars == <<stack, shown, held>>
vars == <<clockVars, age, pic, vector, intsOpen, pc, handlerVars>>

Time == [hour : 0 .. Hours - 1, minute : 0 .. Minutes - 1,
         second : 0 .. Seconds - 1]

(* The handler reads three registers in fewer steps than this; the clock   *)
(* needs more for its 244 microseconds.                                    *)
UipSteps == 4

ClockLine == 0
Registers == {"second", "minute", "hour"}

(* The registers hold two decimal digits; bcd_to_ascii takes them apart.   *)
Bcd(n) == ((n \div 10) * 16) + (n % 10)
AsciiDigits(bcd) == <<48 + (bcd \div 16), 48 + (bcd % 16)>>

Tick(t) ==
    LET second == (t.second + 1) % Seconds
        minute == IF second = 0 THEN (t.minute + 1) % Minutes ELSE t.minute
        hour == IF second = 0 /\ minute = 0 THEN (t.hour + 1) % Hours ELSE t.hour
    IN  [hour |-> hour, minute |-> minute, second |-> second]

FirmwareChip(mask, base) ==
    [lines |-> {}, irr |-> {}, isr |-> {}, imr |-> mask, int |-> FALSE,
     irq |-> 0, base |-> base]

(* The firmware has set up the controllers, and the program is loaded; the *)
(* firmware's own handlers are in the vectors.                             *)
Init ==
    /\ time \in Time
    /\ uip = FALSE /\ age = UipSteps
    /\ enabled = FALSE /\ flag = FALSE
    /\ pic = [master |-> FirmwareChip({3, 4, 5, 7}, 8),
              slave |-> FirmwareChip({0, 1, 2, 3, 7}, 112)]
    /\ vector = {}
    /\ intsOpen = TRUE
    /\ pc = "cli"
    /\ stack = <<>> /\ shown = <<>> /\ held = {}

-----------------------------------------------------------------------------
(* The clock.                                                              *)

(* A second is longer than a turn of the handler's loop.                   *)
OneSecond ==
    /\ ~uip /\ age > 0
    /\ uip' = TRUE /\ age' = 0
    /\ UNCHANGED <<time, enabled, flag, pic, vector, intsOpen, pc, handlerVars>>

UpdateEnds ==
    /\ uip /\ age = UipSteps
    /\ time' = Tick(time)
    /\ uip' = FALSE /\ age' = 0
    /\ flag' = (flag \/ enabled)
    /\ pic' = IF enabled THEN RaiseSlave(pic, ClockLine) ELSE pic
    /\ held' = IF pc \in {"cli", "idle"} THEN held ELSE held \cup {time'}
    /\ UNCHANGED <<enabled, vector, intsOpen, pc, stack, shown>>

-----------------------------------------------------------------------------
(* The processor.                                                          *)

Step(from, to) ==
    /\ pc = from /\ pc' = to
    /\ age' = IF age < UipSteps THEN age + 1 ELSE age

ReadC ==
    /\ flag' = FALSE
    /\ pic' = LowerSlave(pic, ClockLine)

(* The order of start.                                                     *)
Start == <<"cli", "offset", "segment", "rtc_b", "read_c", "unmask", "sti",
           "idle">>

Goes(from) ==
    \E i \in 1 .. Len(Start) - 1 : Start[i] = from /\ Step(from, Start[i + 1])

CloseInterrupts ==
    /\ Goes("cli")
    /\ intsOpen' = FALSE
    /\ UNCHANGED <<clockVars, pic, vector, handlerVars>>

(* Offset and segment of the vector are two stores.                        *)
InstallVector ==
    /\ Goes("offset") \/ Goes("segment")
    /\ vector' = vector \cup {pc}
    /\ UNCHANGED <<clockVars, pic, intsOpen, handlerVars>>

EnableUpdates ==
    /\ Goes("rtc_b")
    /\ enabled' = TRUE
    /\ UNCHANGED <<time, uip, flag, pic, vector, intsOpen, handlerVars>>

DiscardPending ==
    /\ Goes("read_c")
    /\ ReadC
    /\ UNCHANGED <<time, uip, enabled, vector, intsOpen, handlerVars>>

UnmaskClock ==
    /\ Goes("unmask")
    /\ pic' = MaskSlave(pic, pic.slave.imr \ {ClockLine})
    /\ UNCHANGED <<clockVars, vector, intsOpen, handlerVars>>

OpenInterrupts ==
    /\ Goes("sti")
    /\ intsOpen' = TRUE
    /\ UNCHANGED <<clockVars, pic, vector, handlerVars>>

(* The loop: halt, and turn the colours of the @ around.                   *)
Idle ==
    /\ intsOpen /\ ~pic.master.int
    /\ Step("idle", "idle")
    /\ UNCHANGED <<clockVars, pic, vector, intsOpen, handlerVars>>

(* An interrupt is taken before the next instruction, through both halves  *)
(* of its vector.                                                          *)
TakeInterrupt ==
    /\ intsOpen /\ pic.master.int
    /\ LET answer == Acknowledge(pic)
       IN  /\ pic' = answer.pic
           /\ Step(pc, IF answer.vector = 112 /\ vector = {"offset", "segment"}
                       THEN "wait" ELSE "elsewhere")
    /\ intsOpen' = FALSE
    /\ stack' = <<>> /\ held' = {time}
    /\ UNCHANGED <<clockVars, vector, shown>>

-----------------------------------------------------------------------------
(* new_int_0x70                                                            *)

(* As it would be without the loop.                                        *)
SkipWait ==
    /\ Step("wait", "second")
    /\ UNCHANGED <<clockVars, pic, vector, intsOpen, handlerVars>>

WaitForUpdate ==
    /\ Step("wait", IF uip THEN "wait" ELSE "second")
    /\ UNCHANGED <<clockVars, pic, vector, intsOpen, handlerVars>>

ReadTime ==
    /\ \/ Step("second", "minute")
       \/ Step("minute", "hour")
       \/ Step("hour", "handler_read_c")
    /\ stack' = <<Bcd(time[pc])>> \o stack
    /\ UNCHANGED <<clockVars, pic, vector, intsOpen, shown, held>>

(* As it would be without it: "or there will be only one interrupt".       *)
SkipReadC ==
    /\ Step("handler_read_c", "show")
    /\ UNCHANGED <<clockVars, pic, vector, intsOpen, handlerVars>>

HandlerReadC ==
    /\ Step("handler_read_c", "show")
    /\ ReadC
    /\ UNCHANGED <<time, uip, enabled, vector, intsOpen, handlerVars>>

(* The top of the stack is shown first.                                    *)
Show ==
    /\ Step("show", "eoi_slave")
    /\ shown' = [i \in 1 .. 3 |-> AsciiDigits(stack[i])]
    /\ stack' = <<>>
    /\ UNCHANGED <<clockVars, pic, vector, intsOpen, held>>

EndSlave ==
    /\ Step("eoi_slave", "eoi_master")
    /\ pic' = EoiSlave(pic)
    /\ UNCHANGED <<clockVars, vector, intsOpen, handlerVars>>

EndMaster ==
    /\ Step("eoi_master", "iret")
    /\ pic' = EoiMaster(pic)
    /\ UNCHANGED <<clockVars, vector, intsOpen, handlerVars>>

Return ==
    /\ Step("iret", "idle")
    /\ intsOpen' = TRUE
    /\ held' = {}
    /\ UNCHANGED <<clockVars, pic, vector, stack, shown>>

-----------------------------------------------------------------------------
Clock == OneSecond \/ UpdateEnds

StartSteps == \/ CloseInterrupts \/ InstallVector \/ EnableUpdates
              \/ DiscardPending \/ UnmaskClock \/ OpenInterrupts

Handler == \/ TakeInterrupt \/ WaitForUpdate \/ ReadTime \/ HandlerReadC
           \/ Show \/ EndSlave \/ EndMaster \/ Return

Processor == StartSteps \/ Handler \/ Idle

Next == Clock \/ Processor

(* The clock runs, and the processor executes.                             *)
Fairness == WF_vars(OneSecond) /\ WF_vars(UpdateEnds) /\ WF_vars(Processor)

Spec == Init /\ [][Next]_vars /\ Fairness

-----------------------------------------------------------------------------
(* Properties.                                                             *)

TypeOK ==
    /\ time \in Time
    /\ uip \in BOOLEAN /\ enabled \in BOOLEAN /\ flag \in BOOLEAN
    /\ age \in 0 .. UipSteps
    /\ pic \in Pic
    /\ vector \subseteq {"offset", "segment"}
    /\ intsOpen \in BOOLEAN
    /\ pc \in {Start[i] : i \in 1 .. Len(Start)} \cup Registers \cup
              {"wait", "handler_read_c", "show", "eoi_slave", "eoi_master",
               "iret", "elsewhere"}
    /\ Len(stack) <= 3
    /\ held \subseteq Time

Digits(n) == <<48 + (n \div 10), 48 + (n % 10)>>

(* The handler never shows a time the clock did not have: not a minute     *)
(* already advanced beside an hour that is not, however late the handler   *)
(* comes and wherever the next update falls.  (c09_1.asm:40-41 calls the   *)
(* loop on UIP unnecessary after an update-ended interrupt: it is, as long *)
(* as the handler is not a second late.)                                   *)
ShowsATimeThatWas ==
    pc \in {"eoi_slave", "eoi_master", "iret"} =>
        \E t \in held :
            shown = <<Digits(t.hour), Digits(t.minute), Digits(t.second)>>

(* When the first interrupt is taken the vector is the program's, and the  *)
(* clock's is the only one that is taken: until both halves are stored its *)
(* line is masked in the slave and its interrupt off in register B.        *)
OnlyTheNewHandler == pc # "elsewhere"

(* When the program is in its loop, an update the clock has flagged is on  *)
(* its way to the processor, and nothing is left in service by the handler *)
(* that would keep the next one out.                                       *)
UpdateIsSignalled ==
    pc = "idle" =>
        /\ flag => pic.master.int
        /\ pic.master.isr = {} /\ pic.slave.isr = {}

(* The screen is being brought up to date.                                 *)
Showing == pc = "show"
=============================================================================
