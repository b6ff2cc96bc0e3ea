------------------------------- MODULE Pic8259 -------------------------------
(***************************************************************************)
(* The pair of interrupt controllers of the machine the kernels run on, as *)
(* functions of their state (Bochs, iodev/pic.cc): cascaded, edge          *)
(* triggered, fixed priority (the kernels use no rotation, no special mask *)
(* and no automatic end of interrupt).                                     *)
(*                                                                         *)
(* A state is a record of the master and the slave chip.  Each chip has    *)
(* the level of its input lines, its request, in-service and mask          *)
(* registers as sets of inputs, the latch of an interrupt it signals (int) *)
(* with the input it was raised for (irq), and the first vector (base).    *)
(***************************************************************************)
EXTENDS Integers

Input == 0 .. 7
Cascade == 2            \* the master's input the slave is wired to

Chip == [lines : SUBSET Input, irr : SUBSET Input, isr : SUBSET Input,
         imr : SUBSET Input, int : BOOLEAN, irq : Input, base : 0 .. 255]

Pic == [master : Chip, slave : Chip]

(* The smallest number has the highest priority.                           *)
Highest(S) == CHOOSE i \in S : \A j \in S : i <= j

(* The requests that are not masked and outrank everything in service.     *)
Open(chip) == { i \in chip.irr \ chip.imr : \A j \in chip.isr : i < j }

Quiet(chip) == chip.int \/ Open(chip) = {}

Signal(chip) == [chip EXCEPT !.int = TRUE, !.irq = Highest(Open(chip))]

Assert(chip, i) == [chip EXCEPT !.lines = @ \cup {i}, !.irr = @ \cup {i}]

(* A chip looks for the next interrupt to signal unless its last one is    *)
(* not acknowledged yet.  The slave signals on the master's cascade input. *)
ServiceMaster(p) ==
    IF Quiet(p.master) THEN p ELSE [p EXCEPT !.master = Signal(@)]

RaiseMaster(p, i) ==
    IF i \in p.master.lines THEN p
    ELSE ServiceMaster([p EXCEPT !.master = Assert(@, i)])

ServiceSlave(p) ==
    IF Quiet(p.slave) THEN p
    ELSE RaiseMaster([p EXCEPT !.slave = Signal(@)], Cascade)

RaiseSlave(p, i) ==
    IF i \in p.slave.lines THEN p
    ELSE ServiceSlave([p EXCEPT !.slave = Assert(@, i)])

Release(chip, i) ==
    IF i \in chip.lines THEN [chip EXCEPT !.lines = @ \ {i}, !.irr = @ \ {i}]
    ELSE chip

(* A device takes its line back; an interrupt already signalled for it     *)
(* stays latched.                                                          *)
LowerMaster(p, i) == [p EXCEPT !.master = Release(@, i)]
LowerSlave(p, i) == [p EXCEPT !.slave = Release(@, i)]

(* Non-specific end of interrupt.                                          *)
EndHighest(chip) ==
    IF chip.isr = {} THEN chip ELSE [chip EXCEPT !.isr = @ \ {Highest(@)}]

EoiMaster(p) == ServiceMaster([p EXCEPT !.master = EndHighest(@)])
EoiSlave(p) == ServiceSlave([p EXCEPT !.slave = EndHighest(@)])

(* Writing the mask register.                                              *)
MaskSlave(p, mask) == ServiceSlave([p EXCEPT !.slave.imr = mask])

(* The initialisation command words; the levels of the lines stay, but the *)
(* slave gives up its request to the master.                               *)
Restart(chip, base) ==
    [chip EXCEPT !.imr = {}, !.isr = {}, !.irr = {}, !.int = FALSE, !.base = base]

InitialiseMaster(p, base) == [p EXCEPT !.master = Restart(@, base)]

InitialiseSlave(p, base) ==
    [p EXCEPT !.slave = Restart(@, base), !.master.lines = @ \ {Cascade}]

(* The acknowledge cycle of one chip: the input the interrupt was latched  *)
(* for goes into service, even if its request has been withdrawn since.    *)
Accept(chip) ==
    [chip EXCEPT !.irr = @ \ {chip.irq}, !.isr = @ \cup {chip.irq}]

(* What the processor's acknowledge does: the vector it gets and the state *)
(* the controllers are in afterwards.  A chip left without any request     *)
(* answers with the vector of its input 7 and has nothing in service for   *)
(* it; if that chip is the slave, the master's cascade input still is.     *)
AcknowledgeSlave(p) ==
    LET q == [p EXCEPT !.slave.int = FALSE, !.master.lines = @ \ {Cascade}]
    IN  IF q.slave.irr = {}
        THEN [vector |-> q.slave.base + 7, pic |-> q]
        ELSE [vector |-> q.slave.base + q.slave.irq,
              pic |-> ServiceMaster(ServiceSlave([q EXCEPT !.slave = Accept(@)]))]

Acknowledge(p) ==
    LET q == [p EXCEPT !.master.int = FALSE]
        r == [q EXCEPT !.master = Accept(@)]
    IN  IF q.master.irr = {}
        THEN [vector |-> q.master.base + 7, pic |-> q]
        ELSE IF q.master.irq = Cascade
        THEN AcknowledgeSlave(r)
        ELSE [vector |-> q.master.base + q.master.irq, pic |-> ServiceMaster(r)]
=============================================================================
