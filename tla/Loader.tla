------------------------------- MODULE Loader --------------------------------
(***************************************************************************)
(* load_relocate_program of c15/c15_core.asm and the allocator below it:   *)
(* a program is read from the disk sector by sector into memory taken from *)
(* a bump pointer, its segments get descriptors in its LDT, its symbols    *)
(* are bound to the kernel's call gates, and stacks for every privilege    *)
(* level, LDT and TSS are made known.  The program manager loads one       *)
(* program after the other; nothing is ever freed.                         *)
(*                                                                         *)
(* Sizes are scaled: 512 bytes of a sector to Sector, 4096 bytes of a      *)
(* stack unit to Unit, 2^20 limits of a descriptor to Fields.  Descriptors *)
(* are records: Descriptors shows that packing them loses nothing.         *)
(***************************************************************************)
EXTENDS Integers, Sequences, SequencesExt, FiniteSets

CONSTANTS
    Program,    \* the programs, each loaded once
    Headers,    \* what their headers may say
    CoreSizes,  \* how long the kernel may be
    CSalt,      \* the kernel's symbols: a sequence of [name, gate]
    Sector, Unit, Fields,
    TcbBytes, LdtBytes, TssBytes,
    Start       \* ram_alloc when the first TCB is allocated

Space == Unit * Fields          \* the linear addresses, 2^32

Number == Nat \ {0}
Symbols == [name : STRING, gate : Nat, rpl : Nat]

(* What loading a program takes at most, alignment included: the image     *)
(* grows by less than a sector, and six times up to three bytes are lost.  *)
Demand(h) ==
    (TcbBytes + 3) + (LdtBytes + 3) + (h.size + Sector + 3) +
    (h.stack_len * Unit + 3) + (3 * Unit + 3) + (TssBytes + 3)

(* Seven descriptors fit in an LDT, a size names a program, its segments   *)
(* lie within it, and the memory is enough for all: allocate_memory does   *)
(* not look (c15_core.asm:244).                                            *)
LoaderAssumption ==
    /\ Sector \in Number /\ Unit \in Number /\ Fields \in Number
    /\ Sector % 4 = 0 /\ Unit % 4 = 0 /\ Start \in Nat /\ Start % 4 = 0
    /\ TcbBytes \in Number /\ TssBytes \in Number /\ LdtBytes \in Nat /\ LdtBytes >= 56
    /\ CoreSizes \subseteq Number
    /\ CSalt \in Seq([name : STRING, gate : Nat])
    /\ \A c \in ToSet(CSalt) : c.name # ""
    /\ Headers \subseteq
          [size : Number, head_len : Number, code_seg : Nat, code_len : Number,
           data_seg : Nat, data_len : Number, stack_len : Number, stack_seg : Nat,
           prgentry : Nat, usalt : Seq(Symbols)]
    /\ \A h, k \in Headers : h.size = k.size => h = k
    /\ \A h \in Headers : /\ h.usalt # << >>
                          /\ h.head_len <= h.size
                          /\ h.code_seg + h.code_len <= h.size
                          /\ h.data_seg + h.data_len <= h.size
    /\ IsFiniteSet(Program)
    /\ \E most \in 0 .. Space :
          /\ \A h \in Headers : Demand(h) <= most
          /\ Start + Cardinality(Program) * most <= Space

VARIABLES
    core,       \* the kernel's size, its sectors read so far, and ECX
    at,         \* how far load_relocate_program is, and with which program
    ram_alloc,  \* the allocator's pointer
    block,      \* the blocks it has handed out: what each is for
    mem,        \* the bytes read from the disk, by address
    read,       \* EAX, EBX and ECX of the sector loop
    header,     \* the header of each program in memory: fields are
                \* overwritten by selectors, symbols by gates
    ldt,        \* the descriptors in each program's LDT
    gdt,        \* those the loader has added to the GDT
    tcb, tss    \* what it has recorded for each program

vars == <<core, at, ram_alloc, block, mem, read, header, ldt, gdt, tcb, tss>>

Idle == [pc |-> "idle"]
AtPc(pc, p) == at = [pc |-> pc, p |-> p]

(* The boot sector reads the kernel's first sector, which tells the size;  *)
(* so many sectors remain.                                                 *)
Rest(size) == IF size % Sector = 0 THEN size \div Sector - 1 ELSE size \div Sector

Init ==
    /\ core \in { [size |-> n, got |-> 1, ecx |-> Rest(n)] : n \in CoreSizes }
    /\ at = Idle
    /\ ram_alloc = Start
    /\ block = << >> /\ mem = << >> /\ gdt = << >>
    /\ read = [eax |-> 0, ebx |-> 0, ecx |-> 0]
    /\ header \in [Program -> Headers]
    /\ ldt = [p \in Program |-> << >>]
    /\ tcb = [p \in Program |-> << >>]
    /\ tss = [p \in Program |-> << >>]

-----------------------------------------------------------------------------
(* @2 of the boot sector; loop ends with ECX = 0, and a kernel of one      *)
(* sector skips it.                                                        *)
ReadCore ==
    /\ core.ecx # 0
    /\ core' = [core EXCEPT !.got = @ + 1, !.ecx = @ - 1]
    /\ UNCHANGED <<at, ram_alloc, block, mem, read, header, ldt, gdt, tcb, tss>>

(* allocate_memory.                                                        *)

Aligned(a) == IF a % 4 = 0 THEN a ELSE (a \div 4) * 4 + 4

After(a, bytes) == Aligned(a + bytes)

Block(p, what, bytes, base) == [p |-> p, what |-> what, base |-> base, bytes |-> bytes]

(* The memory a program was given for one purpose.                         *)
Given(p, what) ==
    LET b == CHOOSE x \in ToSet(block) : x.p = p /\ x.what = what
    IN  b.base .. b.base + b.bytes - 1

BaseOf(p, what) == (CHOOSE x \in ToSet(block) : x.p = p /\ x.what = what).base

Rounded(size) ==
    IF size % Sector = 0 THEN size ELSE (size \div Sector) * Sector + Sector

(* A program with a TCB.                                                   *)
Begun(p) == \E b \in ToSet(block) : b.p = p

(* The manager allocates a TCB, the loader LDT and image; LDT limit 0xffff *)
(* stands for an empty LDT.                                                *)
Begin(p) ==
    /\ core.ecx = 0 /\ at = Idle /\ ~Begun(p)
    /\ LET ldtBase == After(ram_alloc, TcbBytes)
           image == After(ldtBase, LdtBytes)
           bytes == Rounded(header[p].size)
       IN  /\ block' = block \o <<Block(p, "tcb", TcbBytes, ram_alloc),
                                  Block(p, "ldt", LdtBytes, ldtBase),
                                  Block(p, "image", bytes, image)>>
           /\ ram_alloc' = After(image, bytes)
           /\ tcb' = [tcb EXCEPT ![p] = [ldt |-> ldtBase, image |-> image]]
           /\ read' = [eax |-> 0, ebx |-> image, ecx |-> bytes \div Sector]
    /\ at' = [pc |-> "read", p |-> p]
    /\ UNCHANGED <<mem, header, ldt, gdt, tss>>

(* read_hard_disk_0 leaves EBX behind the sector; inc eax, loop .b1.       *)
ReadSector(p) ==
    /\ AtPc("read", p)
    /\ LET here == read.ebx .. read.ebx + Sector - 1
       IN  mem' = [a \in DOMAIN mem \cup here |->
                      IF a \in here
                      THEN [p |-> p, byte |-> read.eax * Sector + a - read.ebx]
                      ELSE mem[a]]
    /\ read' = [eax |-> read.eax + 1, ebx |-> read.ebx + Sector, ecx |-> read.ecx - 1]
    /\ at' = IF read.ecx = 1 THEN [at EXCEPT !.pc = "segments"] ELSE at
    /\ UNCHANGED <<ram_alloc, block, header, ldt, gdt, tcb, tss>>

-----------------------------------------------------------------------------
(* Segments.  `down' is a segment that expands downwards.                  *)

DownUnits(n) == (Fields - 1) - n

Segment(base, limit, g, down, dpl) ==
    [base |-> base, limit |-> limit, g |-> g, down |-> down, dpl |-> dpl]

Selector(index, rpl) == [index |-> index, rpl |-> rpl]

(* As it would be if the low end of a stack were its base.                 *)
LowBase(base, bytes) == base

StackBase(base, bytes) == base + bytes

(* The four segments of privilege 3.  The header's fields are read before  *)
(* the selectors are stored over them.                                     *)
MakeSegments(p) ==
    LET h == header[p]
        image == tcb[p].image
        stack == h.stack_len * Unit
        n == Len(ldt[p])
    IN  /\ AtPc("segments", p)
        /\ ldt' = [ldt EXCEPT ![p] = @ \o
              <<Segment(image, h.head_len - 1, FALSE, FALSE, 3),
                Segment(image + h.code_seg, h.code_len - 1, FALSE, FALSE, 3),
                Segment(image + h.data_seg, h.data_len - 1, FALSE, FALSE, 3),
                Segment(StackBase(ram_alloc, stack) % Space, DownUnits(h.stack_len),
                        TRUE, TRUE, 3)>>]
        /\ header' = [header EXCEPT ![p] =
              [@ EXCEPT !.head_len = Selector(n, 3), !.code_seg = Selector(n + 1, 3),
                        !.data_seg = Selector(n + 2, 3),
                        !.stack_seg = Selector(n + 3, 3)]]
        /\ block' = Append(block, Block(p, "stack3", stack, ram_alloc))
        /\ ram_alloc' = After(ram_alloc, stack)
        /\ at' = [at EXCEPT !.pc = "salt"]
        /\ UNCHANGED <<mem, read, gdt, tcb, tss>>

(* Gate and RPL 3 are stored over the name.                                *)
Bound(c) == [name |-> "", gate |-> c.gate, rpl |-> 3]

(* The inner loop: every symbol of the kernel is compared with the entry.  *)
Bind(entry) ==
    LET bound[i \in 0 .. Len(CSalt)] ==
            IF i = 0 THEN entry
            ELSE IF bound[i - 1].name = CSalt[i].name THEN Bound(CSalt[i]) ELSE bound[i - 1]
    IN  bound[Len(CSalt)]

RelocateSalt(p) ==
    /\ AtPc("salt", p)
    /\ header' = [header EXCEPT ![p].usalt =
                      [i \in DOMAIN @ |-> Bind(@[i])]]
    /\ at' = [at EXCEPT !.pc = "stacks"]
    /\ UNCHANGED <<ram_alloc, block, mem, read, ldt, gdt, tcb, tss>>

(* The stacks of the levels 0 to 2, of one unit each.  What the TCB gets   *)
(* as base is EAX, the high end, for 0 and 1, but ECX, the low end, for 2. *)
MakeStacks(p) ==
    LET low == [i \in 0 .. 2 |-> ram_alloc + i * Unit]
        name == <<"stack0", "stack1", "stack2">>
        n == Len(ldt[p])
    IN  /\ AtPc("stacks", p)
        /\ block' = block \o [i \in 1 .. 3 |-> Block(p, name[i], Unit, low[i - 1])]
        /\ ram_alloc' = After(low[2], Unit)
        /\ ldt' = [ldt EXCEPT ![p] = @ \o [i \in 1 .. 3 |->
              Segment(StackBase(low[i - 1], Unit) % Space, DownUnits(1), TRUE, TRUE, i - 1)]]
        /\ tcb' = [tcb EXCEPT ![p] =
              [ldt |-> @.ldt, image |-> @.image,
               stack |-> [i \in 0 .. 2 |-> Selector(n + i, i)],
               base |-> [i \in 0 .. 2 |-> IF i = 2 THEN low[i] ELSE low[i] + Unit]]]
        /\ at' = [at EXCEPT !.pc = "register"]
        /\ UNCHANGED <<mem, read, header, gdt, tss>>

(* LDT and TSS: the TSS's fields come from the TCB and from the header as  *)
(* it is by now.                                                           *)
Register(p) ==
    LET h == header[p]
    IN  /\ AtPc("register", p)
        /\ gdt' = gdt \o <<[kind |-> "ldt", p |-> p, base |-> tcb[p].ldt,
                            limit |-> 8 * Len(ldt[p]) - 1],
                           [kind |-> "tss", p |-> p, base |-> ram_alloc,
                            limit |-> TssBytes - 1]>>
        /\ tss' = [tss EXCEPT ![p] =
              [ss0 |-> tcb[p].stack[0], ss1 |-> tcb[p].stack[1],
               ss2 |-> tcb[p].stack[2], esp |-> 0, eip |-> h.prgentry,
               cs |-> h.code_seg, ss |-> h.stack_seg, ds |-> h.head_len]]
        /\ block' = Append(block, Block(p, "tss", TssBytes, ram_alloc))
        /\ ram_alloc' = After(ram_alloc, TssBytes)
        /\ at' = Idle
        /\ UNCHANGED <<mem, read, header, ldt, tcb>>

Load(p) == \/ Begin(p) \/ ReadSector(p) \/ MakeSegments(p)
           \/ RelocateSalt(p) \/ MakeStacks(p) \/ Register(p)

Next == ReadCore \/ \E p \in Program : Load(p) /\ UNCHANGED core

Spec == Init /\ [][Next]_vars

-----------------------------------------------------------------------------
(* Properties.                                                             *)

TypeOK ==
    /\ at = Idle \/ at.p \in Program
    /\ ram_alloc \in Start .. Space
    /\ read.ecx \in 0 .. Space
    /\ \A b \in ToSet(block) : b.base \in Start .. Space /\ b.bytes \in 1 .. Space
    /\ \A p \in Program : Len(ldt[p]) \in {0, 4, 7}

(* The addresses a segment gives access to (the emulator's                 *)
(* write_virtual_checks and execute_virtual_checks).                       *)
Scaled(s) == IF s.g THEN s.limit * Unit + Unit - 1 ELSE s.limit

Reach(s) ==
    IF s.down THEN { (s.base + o) % Space : o \in Scaled(s) + 1 .. Space - 1 }
    ELSE { (s.base + o) % Space : o \in 0 .. Scaled(s) }

At(p, sel) == ldt[p][sel.index + 1]

Loaded(p) == \E d \in ToSet(gdt) : d.p = p /\ d.kind = "tss"

(* What the program's header said before it was overwritten.               *)
Said(p) == CHOOSE h \in Headers : h.size = header[p].size

(* Every segment of a loaded program, found through the selectors of its   *)
(* TSS and header, gives access to exactly the memory it was made for: the *)
(* stacks to their blocks, the others to their part of the program's       *)
(* image; and privilege and RPL agree, as a switch of stacks demands.      *)
SegmentsCoverTheirMemory ==
    \A p \in Program : Loaded(p) =>
        LET image == BaseOf(p, "image")
            Part(from, bytes) == image + from .. image + from + bytes - 1
            h == Said(p)
        IN  /\ Reach(At(p, tss[p].ss)) = Given(p, "stack3")
            /\ Reach(At(p, tss[p].ss0)) = Given(p, "stack0")
            /\ Reach(At(p, tss[p].ss1)) = Given(p, "stack1")
            /\ Reach(At(p, tss[p].ss2)) = Given(p, "stack2")
            /\ Reach(At(p, tss[p].ds)) = Part(0, h.head_len)
            /\ Reach(At(p, tss[p].cs)) = Part(h.code_seg, h.code_len)
            /\ Reach(At(p, header[p].data_seg)) = Part(h.data_seg, h.data_len)
            /\ \A sel \in {tss[p].ss, tss[p].ss0, tss[p].ss1, tss[p].ss2, tss[p].cs} :
                  At(p, sel).dpl = sel.rpl

(* No byte is handed out twice, not even the padding of a program's last   *)
(* sector, whatever was loaded before; and the tables the GDT points to    *)
(* fill no more than their blocks.                                         *)
BlocksAreDisjoint ==
    /\ \A i, j \in DOMAIN block : i < j =>
          block[i].base + block[i].bytes <= block[j].base
    /\ \A d \in ToSet(gdt) : d.base .. d.base + d.limit \subseteq Given(d.p, d.kind)

(* Behind the last sector read, a program lies in memory as on the disk    *)
(* and stays so when others are loaded; exactly the sectors that hold it   *)
(* were read, none of them into memory that is not the program's.          *)
ImageIsLoaded ==
    \A p \in Program :
        Begun(p) /\ ~AtPc("read", p) =>
            LET base == BaseOf(p, "image")
                size == header[p].size
            IN  /\ \A i \in 0 .. size - 1 : mem[base + i] = [p |-> p, byte |-> i]
                /\ Given(p, "image") = { a \in DOMAIN mem : mem[a].p = p }
                /\ Cardinality(Given(p, "image")) < size + Sector

(* The kernel starts with every one of its sectors in memory, and none of  *)
(* what follows it on the disk.                                            *)
CoreIsLoaded ==
    core.ecx = 0 => /\ core.got * Sector >= core.size
                    /\ (core.got - 1) * Sector < core.size

(* Every symbol the kernel knows is bound to the gate of that name, with   *)
(* the program's own privilege; the others are left as they were.          *)
SaltIsBound ==
    \A p \in Program : Loaded(p) =>
        \A i \in DOMAIN header[p].usalt :
            LET asked == Said(p).usalt[i]
                known == { c \in ToSet(CSalt) : c.name = asked.name }
            IN  header[p].usalt[i] \in IF known = {} THEN {asked}
                                      ELSE { Bound(c) : c \in known }
=============================================================================
