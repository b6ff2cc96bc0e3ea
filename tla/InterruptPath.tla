---------------------------- MODULE InterruptPath ----------------------------
(***************************************************************************)
(* How the clock interrupt reaches the scheduler of c17/c17_core.asm: the  *)
(* real-time clock, the disk and the timer raise and lower their lines,    *)
(* the kernel sets up the two interrupt controllers and the clock chip     *)
(* while they do, and afterwards runs, reads disk sectors with interrupts  *)
(* closed, and serves interrupts.  Every port access is a step; a device   *)
(* may act between any two of them.                                        *)
(*                                                                         *)
(* The devices are those of the machine the kernels run on (Bochs).  What  *)
(* the clock handler does between its port accesses and its return is      *)
(* TaskScheduler; here it is the step from "rtc_read_c" to "rtc_return".   *)
(***************************************************************************)
EXTENDS Pic8259

VARIABLES
    pic,        \* the two interrupt controllers
    intsOpen,   \* the processor's IF flag
    pc,         \* where the processor is
    enabled,    \* register B of the clock: update-ended interrupts
    flag,       \* register C of the clock: an update has ended
    timerOut,   \* the output of timer channel 0
    timerDue    \* the kernel has run since the timer last rose

vars == <<pic, intsOpen, pc, enabled, flag, timerOut, timerDue>>
clockVars == <<enabled, flag>>
timerVars == <<timerOut, timerDue>>

(* Inputs of the controllers, and the vectors the kernel sets them up for. *)
TimerLine  == 0     \* of the master
ClockLine  == 0     \* of the slave
DiskLine   == 6     \* of the slave
FirmwareBase == 8
MasterBase == 32    \* 0x20
SlaveBase  == 112   \* 0x70

(* What the machine's firmware leaves: vectors at 8 and 0x70, a few lines  *)
(* unmasked, nothing requested.                                            *)
FirmwareChip(mask, base) ==
    [lines |-> {}, irr |-> {}, isr |-> {}, imr |-> mask, int |-> FALSE,
     irq |-> 0, base |-> base]

Init ==
    /\ pic = [master |-> FirmwareChip({3, 4, 5, 7}, FirmwareBase),
              slave |-> FirmwareChip({0, 1, 2, 3, 7}, SlaveBase)]
    /\ intsOpen = FALSE
    /\ pc = "loader"
    /\ enabled = FALSE
    /\ flag = FALSE
    /\ timerOut = FALSE
    /\ timerDue = TRUE

-----------------------------------------------------------------------------
(* The devices.                                                            *)

(* Once a second the clock chip ends an update.                            *)
ClockUpdate ==
    /\ enabled
    /\ flag' = TRUE
    /\ pic' = RaiseSlave(pic, ClockLine)
    /\ UNCHANGED <<intsOpen, pc, enabled, timerVars>>

(* The timer's period is longer than serving the interrupts that are       *)
(* pending: it rises at most once before the kernel executes something     *)
(* else, a stretch with interrupts closed or an instruction with them open.*)
Serving == {"rtc_eoi_slave", "rtc_eoi_master", "rtc_read_c",
            "eoi_slave", "eoi_master", "return"}

TimerRise ==
    /\ ~timerOut
    /\ timerDue \/ (~intsOpen /\ pc \notin Serving)
    /\ timerOut' = TRUE
    /\ timerDue' = FALSE
    /\ pic' = RaiseMaster(pic, TimerLine)
    /\ UNCHANGED <<intsOpen, pc, clockVars>>

TimerFall ==
    /\ timerOut
    /\ timerOut' = FALSE
    /\ pic' = LowerMaster(pic, TimerLine)
    /\ UNCHANGED <<intsOpen, pc, clockVars, timerDue>>

-----------------------------------------------------------------------------
(* The processor.  An interrupt that is signalled is taken before the next *)
(* instruction when IF is set.                                             *)

Free == pc = "run" /\ intsOpen /\ ~pic.master.int

Step(from, to) == pc = from /\ pc' = to

(* The boot sector reads the kernel with interrupts closed.                *)
LoaderCommand ==
    /\ Step("loader", "loader_status")
    /\ pic' = RaiseSlave(pic, DiskLine)
    /\ UNCHANGED <<intsOpen, clockVars, timerVars>>

LoaderStatus ==
    /\ Step("loader_status", "loader")
    /\ pic' = LowerSlave(pic, DiskLine)
    /\ UNCHANGED <<intsOpen, clockVars, timerVars>>

EnterKernel ==
    /\ Step("loader", "icw_master")
    /\ UNCHANGED <<pic, intsOpen, clockVars, timerVars>>

InitMaster ==
    /\ Step("icw_master", "icw_slave")
    /\ pic' = InitialiseMaster(pic, MasterBase)
    /\ UNCHANGED <<intsOpen, clockVars, timerVars>>

InitSlave ==
    /\ Step("icw_slave", "rtc_b")
    /\ pic' = InitialiseSlave(pic, SlaveBase)
    /\ UNCHANGED <<intsOpen, clockVars, timerVars>>

EnableClock ==
    /\ Step("rtc_b", "unmask")
    /\ enabled' = TRUE
    /\ UNCHANGED <<pic, intsOpen, flag, timerVars>>

UnmaskClock ==
    /\ Step("unmask", "read_c")
    /\ pic' = MaskSlave(pic, pic.slave.imr \ {ClockLine})
    /\ UNCHANGED <<intsOpen, clockVars, timerVars>>

(* Reading register C clears it and lowers the line.                       *)
ReadC ==
    /\ flag' = FALSE
    /\ pic' = LowerSlave(pic, ClockLine)
    /\ UNCHANGED enabled

DiscardPending ==
    /\ Step("read_c", "sti")
    /\ ReadC
    /\ UNCHANGED <<intsOpen, timerVars>>

OpenInterrupts ==
    /\ Step("sti", "run")
    /\ intsOpen' = TRUE
    /\ UNCHANGED <<pic, clockVars, timerVars>>

(* Anything that leaves interrupts open.                                   *)
Execute ==
    /\ Free
    /\ timerDue' = TRUE
    /\ UNCHANGED <<pic, intsOpen, pc, clockVars, timerOut>>

(* read_hard_disk_0: cli and the command, the status, the data and sti.    *)
DiskCommand ==
    /\ Free
    /\ Step("run", "disk_status")
    /\ intsOpen' = FALSE
    /\ pic' = RaiseSlave(pic, DiskLine)
    /\ UNCHANGED <<clockVars, timerVars>>

DiskStatus ==
    /\ Step("disk_status", "disk_data")
    /\ pic' = LowerSlave(pic, DiskLine)
    /\ UNCHANGED <<intsOpen, clockVars, timerVars>>

DiskData ==
    /\ Step("disk_data", "run")
    /\ intsOpen' = TRUE
    /\ UNCHANGED <<pic, clockVars, timerVars>>

(* As it would be with the clock's gate installed for every slave vector.  *)
HandlerFrom112(vector) ==
    IF vector >= 112 THEN "rtc_eoi_slave"
    ELSE IF vector > 19 THEN "eoi_slave" ELSE "exception"

(* The gates the kernel installs in the interrupt descriptor table.        *)
Handler(vector) ==
    IF vector = 112 THEN "rtc_eoi_slave"
    ELSE IF vector > 19 THEN "eoi_slave" ELSE "exception"

(* The processor acknowledges; the gate closes interrupts.                 *)
TakeInterrupt ==
    /\ pc = "run" /\ intsOpen /\ pic.master.int
    /\ LET answer == Acknowledge(pic)
       IN  pic' = answer.pic /\ pc' = Handler(answer.vector)
    /\ intsOpen' = FALSE
    /\ UNCHANGED <<clockVars, timerVars>>

(* rtm_0x70_interrupt_handle.  The task it switches to returns from its    *)
(* own interrupt, or starts with IF set.                                   *)
ClockEoiSlave ==
    /\ Step("rtc_eoi_slave", "rtc_eoi_master")
    /\ pic' = EoiSlave(pic)
    /\ UNCHANGED <<intsOpen, clockVars, timerVars>>

ClockEoiMaster ==
    /\ Step("rtc_eoi_master", "rtc_read_c")
    /\ pic' = EoiMaster(pic)
    /\ UNCHANGED <<intsOpen, clockVars, timerVars>>

(* As it would be without the read of register C.                          *)
ClockSkipReadC ==
    /\ Step("rtc_read_c", "return")
    /\ UNCHANGED <<pic, intsOpen, clockVars, timerVars>>

ClockReadC ==
    /\ Step("rtc_read_c", "return")
    /\ ReadC
    /\ UNCHANGED <<intsOpen, timerVars>>

(* As it would be if only the master were told of the end.                 *)
OtherSkipEoiSlave ==
    /\ Step("eoi_slave", "eoi_master")
    /\ UNCHANGED <<pic, intsOpen, clockVars, timerVars>>

(* general_interrupt_handler, for every other vector above 19.             *)
OtherEoiSlave ==
    /\ Step("eoi_slave", "eoi_master")
    /\ pic' = EoiSlave(pic)
    /\ UNCHANGED <<intsOpen, clockVars, timerVars>>

OtherEoiMaster ==
    /\ Step("eoi_master", "return")
    /\ pic' = EoiMaster(pic)
    /\ UNCHANGED <<intsOpen, clockVars, timerVars>>

Return ==
    /\ Step("return", "run")
    /\ intsOpen' = TRUE
    /\ UNCHANGED <<pic, clockVars, timerVars>>

-----------------------------------------------------------------------------
Device == ClockUpdate \/ TimerRise \/ TimerFall

Loader == LoaderCommand \/ LoaderStatus

Boot == \/ EnterKernel \/ InitMaster \/ InitSlave \/ EnableClock \/ UnmaskClock
        \/ DiscardPending \/ OpenInterrupts

Serve == \/ TakeInterrupt \/ ClockEoiSlave \/ ClockEoiMaster \/ ClockReadC
         \/ OtherEoiSlave \/ OtherEoiMaster \/ Return

Disk == DiskStatus \/ DiskData

Next == Device \/ Loader \/ Boot \/ Serve \/ Execute \/ DiskCommand \/ Disk

Spec == Init /\ [][Next]_vars

(* The clock goes on ticking, and the processor executes: it finishes the  *)
(* boot code, every disk read it begins and every handler, and takes an    *)
(* interrupt it may take.  Whether it ever reads the disk is left open.    *)
Fairness ==
    /\ WF_vars(ClockUpdate)
    /\ WF_vars(LoaderStatus)
    /\ SF_vars(EnterKernel)
    /\ WF_vars(Boot)
    /\ WF_vars(Serve)
    /\ WF_vars(Disk)

FairSpec == Spec /\ Fairness

-----------------------------------------------------------------------------
(* Properties.                                                             *)

(* Every register has its width; no hardware interrupt arrives at one of   *)
(* the twenty vectors the kernel reserves for exceptions.                  *)
TypeOK ==
    /\ pic \in Pic
    /\ intsOpen \in BOOLEAN
    /\ pc \in {"loader", "loader_status", "icw_master", "icw_slave", "rtc_b",
               "unmask", "read_c", "sti", "run", "disk_status", "disk_data",
               "rtc_eoi_slave", "rtc_eoi_master", "rtc_read_c",
               "eoi_slave", "eoi_master", "return"}
    /\ enabled \in BOOLEAN /\ flag \in BOOLEAN
    /\ timerOut \in BOOLEAN /\ timerDue \in BOOLEAN

(* Outside the handlers nothing is in service, so nothing is locked out:   *)
(* the two commands of each handler undo exactly what the acknowledge did, *)
(* for a real interrupt, for one that was withdrawn before it was taken    *)
(* and for one acknowledged in place of another.                           *)
InServiceOnlyInHandlers ==
    pc \notin {"rtc_eoi_slave", "rtc_eoi_master", "eoi_slave", "eoi_master"} =>
        pic.master.isr = {} /\ pic.slave.isr = {}

(* While the kernel runs, an update the clock has flagged is requested and *)
(* signalled: no tick is left behind by the order of the end-of-interrupt  *)
(* commands and the read of register C.  From the moment both controllers  *)
(* are set up, what the slave signals the master knows: it never waits for *)
(* an acknowledge that cannot come.                                        *)
FlagIsSignalled ==
    /\ pc = "run" /\ flag =>
          ClockLine \in pic.slave.irr /\ pic.slave.int /\ pic.master.int
    /\ pc \notin {"loader", "loader_status", "icw_master", "icw_slave"}
          /\ pic.slave.int => Cascade \in pic.master.irr

(* The scheduler is never entered without an update of the clock: no disk  *)
(* or timer interrupt, and none that was withdrawn, arrives at its vector. *)
TickHasCause == pc = "rtc_eoi_slave" => flag

(* "read register C of the RTC, or there will be only one interrupt"       *)
(* (c17_core.asm:439-440): with it the clock interrupts for ever.          *)
ClockInterruptsForever == []<>(pc = "rtc_eoi_slave")
=============================================================================
