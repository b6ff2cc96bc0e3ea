----------------------------- MODULE Descriptors -----------------------------
(***************************************************************************)
(* The descriptor tables of c17/c17_core.asm: the routines that pack a     *)
(* descriptor (make_seg_descriptor, make_gate_descriptor), the two that    *)
(* install one (set_up_gdt_descriptor, fill_descriptor_in_ldt), and the    *)
(* processor that unpacks it again (parse_descriptor and                   *)
(* fetch_raw_descriptor of the emulator's cpu/segment_ctrl_pro.cc).        *)
(*                                                                         *)
(* A 32-bit register is the set of its one bits; byte offsets into the     *)
(* tables are numbers below TableBytes, which is 65536 in the code.        *)
(***************************************************************************)
EXTENDS Integers, Sequences, FiniteSets

CONSTANTS
    Program,    \* the programs to be loaded
    Gates,      \* the entry points of the kernel's services (sets of bits)
    Bases,      \* the addresses tables are allocated at (sets of bits)
    Segments,   \* how many segments a program gets
    TableBytes  \* 2^16: what a 16-bit limit counts up to

None == "none"

(* Every entry point and two descriptors of every program fit into the     *)
(* GDT, and an LDT has room for one more than its program needs.           *)
TableAssumption ==
    /\ TableBytes \in Nat /\ TableBytes % 8 = 0 /\ TableBytes <= 65536
    /\ Gates \subseteq SUBSET (0 .. 31) /\ Bases \subseteq SUBSET (0 .. 31)
    /\ Segments \in Nat /\ 8 * Segments < TableBytes
    /\ IsFiniteSet(Gates) /\ IsFiniteSet(Program) /\ None \notin Program
    /\ 8 * (3 + Cardinality(Gates) + 2 * Cardinality(Program)) <= TableBytes

Bit   == 0 .. 31
Dword == SUBSET Bit
Descriptor == [lo : Dword, hi : Dword]

-----------------------------------------------------------------------------
(* Instructions on registers.                                              *)

Shl(r, k) == { i \in Bit : i - k \in r }
Shr(r, k) == { i \in Bit : i + k \in r }
Rol(r, k) == { i \in Bit : ((i - k) % 32) \in r }
Bswap(r)  == { i \in Bit : (8 * (3 - (i \div 8)) + (i % 8)) \in r }

Low  == 0 .. 15
High == 16 .. 31

(* EAX = base, EBX = limit, ECX = attributes.                              *)
make_seg_descriptor(base, limit, attr) ==
    [lo |-> Shl(base, 16) \cup (limit \cap Low),
     hi |-> Bswap(Rol(base \cap High, 8)) \cup (limit \ Low) \cup attr]

(* EAX = offset, BX = selector, CX = attributes.                           *)
make_gate_descriptor(offset, selector, attr) ==
    [lo |-> (offset \cap Low) \cup Shl(selector, 16),
     hi |-> (offset \cap High) \cup attr]

(* What the processor makes of them.  AR holds the bits of the access      *)
(* byte: 7 present, 6 and 5 dpl, 4 segment, 3 to 0 type.                   *)
AR(d) == { i \in 0 .. 7 : i + 8 \in d.hi }

LimitField(d) == (d.lo \cap Low) \cup (d.hi \cap 16 .. 19)

parse_segment(d) ==
    [base  |-> Shr(d.lo, 16) \cup Shl(d.hi \cap 0 .. 7, 16)
                             \cup (d.hi \cap 24 .. 31),
     limit_scaled |-> IF 23 \in d.hi THEN Shl(LimitField(d), 12) \cup 0 .. 11
                      ELSE LimitField(d),
     ar    |-> AR(d),
     flags |-> d.hi \cap 20 .. 23]

parse_gate(d) ==
    [dest_selector |-> Shr(d.lo, 16),
     dest_offset   |-> (d.hi \cap High) \cup (d.lo \cap Low),
     param_count   |-> d.hi \cap 0 .. 4,
     ar            |-> AR(d)]

-----------------------------------------------------------------------------
(* Attribute constants of the code.                                        *)

CallGate3   == {15, 14, 13, 11, 10}             \* 1_11_0_1100_000_00000B
Code0       == {23, 22, 15, 12, 11}             \* 0x00c09800
Data0       == {23, 22, 15, 12, 9}              \* 0x00c09200
Code3       == {23, 22, 15, 14, 13, 12, 11}     \* 0x00c0f800
Ldt         == {22, 15, 9}                      \* 0x00408200
Tss         == {22, 15, 11, 8}                  \* 0x00408900
Flat        == 0 .. 19                          \* 0x000fffff
CodeSel     == {3, 4, 5}                        \* flat_4gb_code_seg_sel

(* Numbers as registers and back.                                          *)
Power == <<1, 2, 4, 8, 16, 32, 64, 128, 256, 512, 1024, 2048, 4096, 8192,
           16384, 32768, 65536, 131072, 262144, 524288>>
Bits(n) == { i \in Low : (n \div Power[i + 1]) % 2 = 1 }
Number(r) ==
    LET b(i) == IF i \in r THEN Power[i + 1] ELSE 0
        nibble(i) == b(i) + b(i + 1) + b(i + 2) + b(i + 3)
    IN  nibble(0) + nibble(4) + nibble(8) + nibble(12) + nibble(16)

Blank == [lo |-> {}, hi |-> {}]
Offset == 0 .. TableBytes       \* the last one only if 16 bits overflowed

VARIABLES
    gdt,        \* the descriptors at the offsets of the GDT
    pgdt,       \* its limit, as in GDTR
    ldt,        \* the same of each program's LDT
    tcb,        \* of each program: the LDT's limit in its TCB, the LDT's
                \* address, and the GDT selectors of LDT and TSS (0: none)
    ldtr,       \* the LDT in use: whose, and the limit in LDTR's cache
    asked       \* what each selector was returned for

vars == <<gdt, pgdt, ldt, tcb, ldtr, asked>>

(* fetch_raw_descriptor                                                    *)
Fetchable(sel, limit) == (sel \div 8) * 8 + 7 <= limit

-----------------------------------------------------------------------------
(* set_up_gdt_descriptor returns the selector in CX.  BX and the word pgdt *)
(* are incremented with 16 bits.                                           *)

NextOffset(limit) == (limit + 1) % TableBytes
NewLimit(limit)   == (limit + 8) % TableBytes

Installed(table, limit, d) == [table EXCEPT ![NextOffset(limit)] = d]

SelectorOf(limit) == (limit \div 8) * 8

(* As it would be with inc ecx.                                            *)
LdtOffsetWide(limit) == limit + 1

LdtOffset(limit) == (limit + 1) % TableBytes

(* gdt and pgdt with d added, which was asked for as `want'.               *)
SetUpGdt(d, want) ==
    LET sel == SelectorOf(NewLimit(pgdt))
    IN  /\ gdt' = Installed(gdt, pgdt, d)
        /\ pgdt' = NewLimit(pgdt)
        /\ asked' = asked \cup {[in |-> None, sel |-> sel, want |-> want]}

(* The boot sector has put two descriptors behind the null one, written    *)
(* out as dwords.  New TCBs hold the limit 0xffff.                         *)
Init ==
    /\ gdt = [o \in Offset |->
                CASE o = 8  -> [lo |-> 0 .. 15, hi |-> {11, 12, 15, 22, 23} \cup 16 .. 19]
                  [] o = 16 -> [lo |-> 0 .. 15, hi |-> {9, 12, 15, 22, 23} \cup 16 .. 19]
                  [] OTHER  -> Blank]
    /\ pgdt = 23
    /\ ldt = [p \in Program |-> [o \in Offset |-> Blank]]
    /\ tcb = [p \in Program |-> [limit |-> TableBytes - 1, base |-> {},
                                 ldt |-> 0, tss |-> 0]]
    /\ ldtr = [of |-> None, limit |-> 0]
    /\ asked = {[in |-> None, sel |-> sel,
                 want |-> [gate |-> FALSE, base |-> {}, limit |-> Flat,
                           attr |-> IF sel = 8 THEN Code0 ELSE Data0]] : sel \in {8, 16}}

(* The boot code's loop over the C-SALT, before any program is loaded.     *)
MountGate(entry) ==
    /\ \A p \in Program : tcb[p].limit = TableBytes - 1
    /\ \A a \in asked : a.want.base # entry
    /\ SetUpGdt(make_gate_descriptor(entry, CodeSel, CallGate3),
                [gate |-> TRUE, base |-> entry, limit |-> {}, attr |-> CallGate3])
    /\ UNCHANGED <<ldt, tcb, ldtr>>

(* fill_descriptor_in_ldt, called by load_relocate_program for every       *)
(* segment of the program.                                                 *)
FillLdt(p, base) ==
    LET limit == tcb[p].limit
        new == (((LdtOffset(limit) + 8) % TableBytes) - 1) % TableBytes
    IN  /\ tcb[p].ldt = 0
        /\ (limit + 1) % TableBytes < 8 * Segments
        /\ ldt' = [ldt EXCEPT ![p][LdtOffset(limit)] =
                        make_seg_descriptor(base, Flat, Code3)]
        /\ tcb' = [tcb EXCEPT ![p].limit = new]
        /\ asked' = asked \cup {[in |-> p, sel |-> SelectorOf(new) + 4,
                     want |-> [gate |-> FALSE, base |-> base, limit |-> Flat,
                               attr |-> Code3]]}
        /\ UNCHANGED <<gdt, pgdt, ldtr>>

(* The end of load_relocate_program: LDT and TSS become known to the GDT.  *)
RegisterLdt(p, base) ==
    /\ tcb[p].ldt = 0 /\ tcb[p].limit = 8 * Segments - 1
    /\ SetUpGdt(make_seg_descriptor(base, Bits(tcb[p].limit), Ldt),
                [gate |-> FALSE, base |-> base, limit |-> Bits(tcb[p].limit),
                 attr |-> Ldt])
    /\ tcb' = [tcb EXCEPT ![p].base = base,
                          ![p].ldt = SelectorOf(NewLimit(pgdt))]
    /\ UNCHANGED <<ldt, ldtr>>

RegisterTss(p, base) ==
    /\ tcb[p].ldt # 0 /\ tcb[p].tss = 0
    /\ SetUpGdt(make_seg_descriptor(base, Bits(103), Tss),
                [gate |-> FALSE, base |-> base, limit |-> Bits(103), attr |-> Tss])
    /\ tcb' = [tcb EXCEPT ![p].tss = SelectorOf(NewLimit(pgdt))]
    /\ UNCHANGED <<ldt, ldtr>>

(* A switch to the program's task loads LDTR from the GDT, and marks the   *)
(* TSS busy: bit 9 of the descriptor.                                      *)
SwitchTo(p) ==
    /\ tcb[p].tss # 0 /\ ldtr.of # p
    /\ Fetchable(tcb[p].ldt, pgdt)
    /\ ldtr' = [of |-> p,
                limit |-> Number(parse_segment(gdt[tcb[p].ldt]).limit_scaled)]
    /\ gdt' = [o \in Offset |->
                  IF o = tcb[p].tss
                  THEN [gdt[o] EXCEPT !.hi = @ \cup {9}]
                  ELSE IF ldtr.of # None /\ o = tcb[ldtr.of].tss
                  THEN [gdt[o] EXCEPT !.hi = @ \ {9}]
                  ELSE gdt[o]]
    /\ UNCHANGED <<pgdt, ldt, tcb, asked>>

(* touch_segment: loading a segment register sets the accessed bit.        *)
LoadSegment(sel) ==
    /\ ldtr.of # None
    /\ Fetchable(sel, ldtr.limit)
    /\ ldt' = [ldt EXCEPT ![ldtr.of][(sel \div 8) * 8].hi = @ \cup {8}]
    /\ UNCHANGED <<gdt, pgdt, tcb, ldtr, asked>>

Next ==
    \/ \E entry \in Gates : MountGate(entry)
    \/ \E p \in Program, base \in Bases :
          FillLdt(p, base) \/ RegisterLdt(p, base) \/ RegisterTss(p, base)
    \/ \E p \in Program : SwitchTo(p)
    \/ \E i \in 0 .. Segments - 1 : LoadSegment(8 * i + 4)

Spec == Init /\ [][Next]_vars

-----------------------------------------------------------------------------
(* Properties.                                                             *)

TypeOK ==
    /\ gdt \in [Offset -> Descriptor]
    /\ pgdt \in 0 .. TableBytes - 1
    /\ ldt \in [Program -> [Offset -> Descriptor]]
    /\ \A p \in Program : /\ tcb[p].limit \in 0 .. TableBytes - 1
                          /\ tcb[p].ldt \in 0 .. TableBytes - 1
                          /\ tcb[p].tss \in 0 .. TableBytes - 1
    /\ ldtr.of \in Program \cup {None}

(* d means what was wanted; the processor itself sets the accessed bit of  *)
(* a segment (8) and the busy bit of a TSS (9).                            *)
Means(d, want) ==
    IF want.gate
    THEN parse_gate(d) = [dest_selector |-> CodeSel, dest_offset |-> want.base,
                          param_count |-> {}, ar |-> {7, 6, 5, 3, 2}]
    ELSE LET s == parse_segment(d)
             own == IF want.attr = Tss THEN {1} ELSE {0}
         IN  /\ s.base = want.base
             /\ s.limit_scaled = IF 23 \in want.attr
                                 THEN Shl(want.limit, 12) \cup 0 .. 11
                                 ELSE want.limit
             /\ s.ar \ own = { i \in 0 .. 7 : i + 8 \in want.attr } \ own
             /\ s.flags = want.attr \cap 20 .. 23

(* However many descriptors are installed, up to a full table, every       *)
(* selector ever returned still finds its own descriptor in the GDT, and   *)
(* it means to the processor what the caller asked for.                    *)
GdtSelectorsDecode ==
    \A a \in asked : a.in = None =>
        Fetchable(a.sel, pgdt) /\ a.sel # 0 /\ Means(gdt[a.sel], a.want)

(* A running program's selectors all lie within the limit LDTR was loaded  *)
(* with, and mean what its loader asked for.                               *)
LdtSelectorsDecode ==
    \A a \in asked : a.in # None /\ a.in = ldtr.of =>
        Fetchable(a.sel, ldtr.limit) /\ Means(ldt[a.in][(a.sel \div 8) * 8], a.want)

=============================================================================
