------------------------------- MODULE AtaDisk -------------------------------
(***************************************************************************)
(* The disk and the two programs that read it: read_hard_disk_0 of the     *)
(* kernels (one sector, no look at errors) and the data command of the     *)
(* firmware behind int 13h (many sectors, reads and writes, errors         *)
(* reported), against the controller of the machine (Bochs,                *)
(* iodev/harddrv.cc).                                                      *)
(*                                                                         *)
(* A byte has Base values and the head register's field HeadBase: 256 and  *)
(* 16 in the controller.  The data of a sector passes in one step.         *)
(***************************************************************************)
EXTENDS Integers, Sequences

CONSTANTS
    Base, HeadBase,     \* values of a byte and of the head field
    Capacity,           \* sectors of the disk
    Cylinders, Heads, Spt,  \* its geometry
    Requests,           \* what programs ask: [by, lba, count]
    BadSets,            \* the sectors that may be unreadable
    MaxRequests         \* bound of a run

By == {"kernel", "bios_read", "bios_write", "bios_read_chs", "bios_write_chs"}
Writing == {"bios_write", "bios_write_chs"}
Chs == {"bios_read_chs", "bios_write_chs"}

Base24 == Base * Base * Base
Base28 == HeadBase * Base24

(* A request has an address and a count its command can express.  The      *)
(* kernel reads single sectors; int 13h looks only at where a request      *)
(* starts, and a count of Base and more ends with an error.                *)
Expressible(r) ==
    /\ r.count \in 1 .. Base - 1
    /\ r.by = "kernel" => r.count = 1 /\ r.lba < Base28
    /\ r.by \in {"bios_read", "bios_write"} => r.lba + r.count <= Base24 * Base24
    /\ r.by \in Chs => r.lba + r.count <= Cylinders * Heads * Spt

SizesAssumption ==
    /\ Base \in Nat \ {0} /\ HeadBase \in Nat \ {0}
    /\ Capacity \in Nat
    /\ Cylinders \in 1 .. Base * Base /\ Heads \in 1 .. HeadBase
    /\ Spt \in 1 .. Base - 1
    /\ Requests \subseteq [by : By, lba : Nat, count : Nat]
    /\ \A r \in Requests : Expressible(r)

VARIABLES
    image,      \* the content of each sector
    bad,        \* the sectors that cannot be read or written
    ctl,        \* the controller
    pc,         \* where the program is
    request,    \* what it was asked
    memory,     \* the sectors it has in memory
    current,    \* the sectors it counts as transferred (8 bits)
    count,      \* the sectors it counts as left (16 bits)
    result,     \* what it returns
    before,     \* the image when it was asked
    requests    \* requests made

jobVars == <<request, before, requests>>
vars == <<image, bad, ctl, pc, memory, current, count, result, jobVars>>

Sector == 0 .. Capacity - 1

-----------------------------------------------------------------------------
(* The controller.  A byte register remembers what it held before the last *)
(* write: the high half of a 48-bit address.                               *)

Put(register, byte) == <<byte, register[1]>>
SetLow(register, byte) == <<byte, register[2]>>
SetHigh(register, byte) == <<register[1], byte>>

Join(high, low) == (high * Base) + low
Cylinder(c) == Join(c.ch[1], c.cl[1])
Low24(c) == Join(Cylinder(c), c.sn[1])
High24(c) == Join(Join(c.ch[2], c.cl[2]), c.sn[2])

Address(c) ==
    IF ~c.lba THEN (((Cylinder(c) * Heads) + c.head) * Spt) + c.sn[1] - 1
    ELSE IF c.ext THEN (High24(c) * Base24) + Low24(c)
    ELSE (c.head * Base24) + Low24(c)

Byte0(n) == n % Base
Byte1(n) == (n \div Base) % Base
Byte2(n) == (n \div (Base * Base)) % Base

SetLow24(c, n) ==
    [c EXCEPT !.sn = SetLow(@, Byte0(n)), !.cl = SetLow(@, Byte1(n)),
              !.ch = SetLow(@, Byte2(n))]

SetHigh24(c, n) ==
    [c EXCEPT !.sn = SetHigh(@, Byte0(n)), !.cl = SetHigh(@, Byte1(n)),
              !.ch = SetHigh(@, Byte2(n))]

(* The sector after, on the next track or in the next cylinder when the    *)
(* track or the cylinder is at its end; past the last cylinder, the start  *)
(* of the last one.                                                        *)
NextChs(c) ==
    IF c.sn[1] < Spt THEN [c EXCEPT !.sn = SetLow(@, @[1] + 1)]
    ELSE IF c.head + 1 < Heads
    THEN [c EXCEPT !.sn = SetLow(@, 1), !.head = @ + 1]
    ELSE LET cylinder == IF Cylinder(c) + 1 < Cylinders THEN Cylinder(c) + 1
                         ELSE Cylinders - 1
         IN  [c EXCEPT !.sn = SetLow(@, 1), !.head = 0,
                       !.cl = SetLow(@, Byte0(cylinder)),
                       !.ch = SetLow(@, Byte1(cylinder))]

(* As it would be if the head kept more than its four bits.                *)
NextLbaUnmasked(c) ==
    LET n == Address(c) + 1
    IN  IF c.ext THEN SetHigh24(SetLow24(c, n), (n \div Base24) % Base24)
        ELSE [SetLow24(c, n) EXCEPT !.head = n \div Base24]

NextLba(c) ==
    LET n == Address(c) + 1
    IN  IF c.ext THEN SetHigh24(SetLow24(c, n), (n \div Base24) % Base24)
        ELSE [SetLow24(c, n) EXCEPT !.head = (n \div Base24) % HeadBase]

IncrementAddress(c) ==
    LET d == IF c.lba THEN NextLba(c) ELSE NextChs(c)
    IN  [d EXCEPT !.left = @ - 1, !.sc = SetLow(@, (@[1] - 1) % Base)]

Reachable(c) == Address(c) \in Sector \ bad

Abort(c) == [c EXCEPT !.drq = FALSE, !.err = TRUE]

(* As it would be if a sector that cannot be read left the old data ready. *)
LoadAnyway(c) ==
    IF Reachable(c)
    THEN IncrementAddress([c EXCEPT !.drq = TRUE, !.err = FALSE,
                                    !.buffer = image[Address(c)]])
    ELSE [c EXCEPT !.drq = TRUE, !.err = TRUE]

(* ide_read_sector and what follows it.                                    *)
Load(c) ==
    IF Reachable(c)
    THEN IncrementAddress([c EXCEPT !.drq = TRUE, !.err = FALSE,
                                    !.buffer = image[Address(c)]])
    ELSE Abort(c)

(* A count of nothing is the largest count.                                *)
Sectors(c, ext) ==
    LET low == c.sc[1]
        high == c.sc[2]
    IN  IF ext
        THEN IF low = 0 /\ high = 0 THEN Base * Base ELSE Join(high, low)
        ELSE IF low = 0 THEN Base ELSE low

Transform(c, ext) == [c EXCEPT !.ext = ext, !.left = Sectors(c, ext)]

ReadCommand(c, ext) == Load(Transform([c EXCEPT !.err = FALSE], ext))

WriteCommand(c, ext) ==
    Transform([c EXCEPT !.err = FALSE, !.drq = TRUE], ext)

(* The last word of a sector has been read.                                *)
AfterRead(c) ==
    IF c.left = 0 THEN [c EXCEPT !.drq = FALSE, !.err = FALSE] ELSE Load(c)

(* The last word of a sector has been written.                             *)
AfterWrite(c) ==
    IF ~Reachable(c) THEN Abort(c)
    ELSE LET d == IncrementAddress(c)
         IN  [d EXCEPT !.drq = d.left # 0, !.err = FALSE]

-----------------------------------------------------------------------------
(* The programs.                                                           *)

PutCountAndAddress(c, sectors, n) ==
    [c EXCEPT !.sc = Put(@, sectors), !.sn = Put(@, Byte0(n)),
              !.cl = Put(@, Byte1(n)), !.ch = Put(@, Byte2(n))]

SetHead(c, head, lba) == [c EXCEPT !.head = head, !.lba = lba]

(* read_hard_disk_0: ports 0x1f2 to 0x1f6.                                 *)
KernelRegisters(lba) ==
    SetHead(PutCountAndAddress(ctl, 1, lba), lba \div Base24, TRUE)

(* As it would be with the limit of the address one sector higher.         *)
ExtendedLater(n, lba) == n >= Base \/ lba > Base28

(* ata_cmd_data_io takes the 48-bit command for a long count or for an     *)
(* address near the end of 28 bits.                                        *)
Extended(n, lba) == n >= Base \/ lba >= Base28 - n

BiosRegisters(n, lba) ==
    LET high == PutCountAndAddress(ctl, n \div Base, lba \div Base24)
        c == IF Extended(n, lba) THEN high ELSE ctl
    IN  SetHead(PutCountAndAddress(c, n % Base, lba % Base24),
                IF Extended(n, lba) THEN 0 ELSE (lba \div Base24) % HeadBase, TRUE)

ChsRegisters(n, lba) ==
    LET track == lba \div Spt
        cylinder == track \div Heads
    IN  SetHead([ctl EXCEPT !.sc = Put(@, n), !.sn = Put(@, (lba % Spt) + 1),
                            !.cl = Put(@, Byte0(cylinder)),
                            !.ch = Put(@, Byte1(cylinder))],
                track % Heads, FALSE)

Ask(r) ==
    /\ pc = "idle" /\ requests < MaxRequests
    /\ request' = r /\ requests' = requests + 1
    /\ before' = image
    /\ memory' = <<>> /\ current' = 0 /\ result' = 0
    /\ UNCHANGED <<image, bad>>

KernelCommand ==
    \E r \in Requests :
        /\ r.by = "kernel"
        /\ Ask(r)
        /\ ctl' = ReadCommand(KernelRegisters(r.lba), FALSE)
        /\ pc' = "kernel_wait"
        /\ count' = 1

(* A program that has to wait for DRQ looks again.                         *)
KernelWait ==
    /\ pc = "kernel_wait"
    /\ pc' = IF ctl.drq THEN "kernel_data" ELSE "kernel_wait"
    /\ UNCHANGED <<image, bad, ctl, memory, current, count, result, jobVars>>

KernelData ==
    /\ pc = "kernel_data" /\ pc' = "idle"
    /\ memory' = Append(memory, ctl.buffer)
    /\ ctl' = AfterRead(ctl)
    /\ UNCHANGED <<image, bad, current, count, result, jobVars>>

(* BSY, tested first (rombios.c:2943), is never set between two commands.  *)
(* The count the loop runs down is the low byte when the command is the    *)
(* 48-bit one.                                                             *)
BiosCommand ==
    \E r \in Requests :
        LET ext == r.by \notin Chs /\ Extended(r.count, r.lba)
            c == IF r.by \in Chs THEN ChsRegisters(r.count, r.lba)
                 ELSE BiosRegisters(r.count, r.lba)
        IN  /\ r.by # "kernel"
            /\ Ask(r)
            /\ ctl' = IF r.by \in Writing THEN WriteCommand(c, ext)
                      ELSE ReadCommand(c, ext)
            /\ count' = IF ext THEN r.count % Base ELSE r.count
            /\ pc' = "bios_wait"

Returns(code) == pc' = "idle" /\ result' = code

(* await_ide returns when the data or an error is there.                   *)
BiosWait ==
    /\ pc = "bios_wait"
    /\ IF ctl.err THEN Returns(2)
       ELSE IF ~ctl.drq THEN Returns(3)
       ELSE pc' = "bios_data" /\ UNCHANGED result
    /\ UNCHANGED <<image, bad, ctl, memory, current, count, jobVars>>

Counted ==
    /\ current' = (current + 1) % Base
    /\ count' = (count - 1) % (Base * Base)
    /\ pc' = "bios_status"
    /\ UNCHANGED <<bad, result, jobVars>>

BiosRead ==
    /\ pc = "bios_data" /\ request.by \notin Writing
    /\ memory' = Append(memory, ctl.buffer)
    /\ ctl' = AfterRead(ctl)
    /\ Counted
    /\ UNCHANGED image

(* The k-th sector a program writes has the content -k.                    *)
BiosWrite ==
    /\ pc = "bios_data" /\ request.by \in Writing
    /\ memory' = Append(memory, -(Len(memory) + 1))
    /\ image' = IF Reachable(ctl)
                THEN [image EXCEPT ![Address(ctl)] = -(Len(memory) + 1)]
                ELSE image
    /\ ctl' = AfterWrite(ctl)
    /\ Counted

(* 4 and 6: the last sector is through and the disk is not at rest; 5 and  *)
(* 7: there are more and the disk is not ready for them.                   *)
BiosStatus ==
    /\ pc = "bios_status"
    /\ LET code == IF request.by \in Writing THEN 6 ELSE 4
       IN  IF count = 0
           THEN IF ctl.drq \/ ctl.err THEN Returns(code) ELSE Returns(0)
           ELSE IF ctl.drq /\ ~ctl.err
           THEN pc' = "bios_data" /\ UNCHANGED result
           ELSE Returns(code + 1)
    /\ UNCHANGED <<image, bad, ctl, memory, current, count, jobVars>>

-----------------------------------------------------------------------------
Init ==
    /\ image = [s \in Sector |-> s]
    /\ bad \in BadSets
    /\ ctl = [sc |-> <<1, 0>>, sn |-> <<1, 0>>, cl |-> <<0, 0>>,
              ch |-> <<0, 0>>, head |-> 0, lba |-> FALSE, ext |-> FALSE, left |-> 0,
              drq |-> FALSE, err |-> FALSE, buffer |-> 0]
    /\ pc = "idle"
    /\ request \in {r \in Requests : r.by = "kernel"}
    /\ memory = <<>> /\ current = 0 /\ count = 0 /\ result = 0
    /\ before = image
    /\ requests = 0

Kernel == KernelWait \/ KernelData
Bios == BiosWait \/ BiosRead \/ BiosWrite \/ BiosStatus

Next == KernelCommand \/ BiosCommand \/ Kernel \/ Bios

(* A program that has been asked goes on; whether it is asked is open.     *)
Spec == Init /\ [][Next]_vars /\ WF_vars(Kernel) /\ WF_vars(Bios)

-----------------------------------------------------------------------------
(* Properties.                                                             *)

ByteValues == 0 .. Base - 1
Pair == ByteValues \X ByteValues

Controller ==
    [sc : Pair, sn : Pair, cl : Pair, ch : Pair, head : 0 .. HeadBase - 1,
     lba : BOOLEAN, ext : BOOLEAN, left : 0 .. Base * Base,
     drq : BOOLEAN, err : BOOLEAN, buffer : Int]

TypeOK ==
    /\ DOMAIN image = Sector
    /\ ctl \in Controller
    /\ current \in ByteValues
    /\ count \in 0 .. (Base * Base) - 1
    /\ result \in {0, 2, 3, 4, 5, 6, 7}

Asked(i) == request.lba + i - 1

(* What a read puts into memory are the sectors asked for, in order,       *)
(* whatever the registers still held of earlier commands, across every     *)
(* carry of the address, and whichever command the firmware chose.         *)
ReadsWhatWasAsked ==
    request.by \notin Writing =>
        /\ image = before
        /\ \A i \in 1 .. Len(memory) : memory[i] = before[Asked(i)]

(* A write changes the sectors asked for, from the first on without a gap, *)
(* and no other, even if one of them fails.                                *)
WritesWhatWasAsked ==
    request.by \in Writing =>
        \A s \in Sector :
            image[s] # before[s] =>
                \E i \in 1 .. Len(memory) : s = Asked(i) /\ image[s] = memory[i]

(* The firmware says that it succeeded exactly when every sector asked for *)
(* exists and went through.                                                *)
Good(s) == s \in Sector \ bad

ResultIsTrue ==
    pc = "idle" /\ requests > 0 /\ request.by # "kernel" =>
        (result = 0) = \A i \in 1 .. request.count : Good(Asked(i))

(* Success leaves the disk at rest with all its counts run down: the next  *)
(* command starts from nothing.                                            *)
AtRest ==
    pc = "idle" /\ requests > 0 /\ result = 0 =>
        ~ctl.drq /\ ctl.left = 0 /\ ctl.sc[1] = 0

(* The kernel is in its loop on the status, for a sector that can be read  *)
(* or for one that cannot.                                                 *)
Waits == pc = "kernel_wait"
WaitsForGood == Waits /\ Good(request.lba)
WaitsForBad  == Waits /\ ~Good(request.lba)
=============================================================================
