----------------------------- MODULE RealLoader ------------------------------
(***************************************************************************)
(* The real-mode loader of c08/c08_mbr.asm: it reads the sectors of a      *)
(* program to consecutive addresses, moving the segment register instead   *)
(* of the 16-bit offset, and replaces the addresses of the program's       *)
(* sections in its header by segments.  jauzzz/loader/loader.asm loads in  *)
(* the same way, relocates nothing, and shows a message instead: at        *)
(* "direct" a behaviour goes on as one or as the other.                    *)
(*                                                                         *)
(* Words are scaled to Word values and a paragraph to Para bytes, so that  *)
(* a linear address has Word * Para values (2^20 in the code); a sector is *)
(* SectorParas paragraphs (0x20).                                          *)
(***************************************************************************)
EXTENDS Integers, Sequences, FiniteSets

CONSTANTS
    Word, Para, SectorParas,
    PhyBase,    \* phy_base: where the program goes
    Headers     \* [size, the address of the entry's section, and of the others]

Sector == SectorParas * Para

RealLoaderAssumption ==
    /\ Word \in Nat \ {0} /\ Para \in Nat \ {0} /\ SectorParas \in Nat \ {0}
    /\ Word % Para = 0
    /\ PhyBase \in Nat /\ PhyBase % Para = 0
    /\ Headers \subseteq [size : Nat \ {0}, entry : Nat, table : Seq(Nat)]
    /\ \A h \in Headers :
          /\ PhyBase + h.size + Sector <= Word * Para
          /\ Len(h.table) \in 1 .. Word - 1
          /\ h.entry < h.size /\ h.entry % Para = 0
          /\ \A i \in DOMAIN h.table : h.table[i] < h.size /\ h.table[i] % Para = 0

VARIABLES
    pc,
    said,       \* the header on the disk
    ds, si, cx, \* the registers of the sector loop
    saved,      \* DS on the stack
    mem,        \* by linear address: which byte of the disk it holds
    segments,   \* the fields of the header that have been relocated
    shown       \* the addresses of the texts put_string has shown

vars == <<pc, said, ds, si, cx, saved, mem, segments, shown>>

Linear(seg, offset) == (seg * Para + offset) % (Word * Para)

Init ==
    /\ pc = "first" /\ said \in Headers
    /\ ds = PhyBase \div Para /\ si = 0 /\ cx = 0
    /\ saved = << >> /\ mem = << >> /\ segments = << >>
    /\ shown = << >>

(* read_hard_disk_0 with BX = 0.                                           *)
Read(seg, lba) ==
    LET here == { Linear(seg, o) : o \in 0 .. Sector - 1 }
    IN  mem' = [a \in DOMAIN mem \cup here |->
                   IF a \in here
                   THEN lba * Sector + (CHOOSE o \in 0 .. Sector - 1 : Linear(seg, o) = a)
                   ELSE mem[a]]

(* As it would be if the sector already read were never subtracted.        *)
RestRounded(size) == size \div Sector

(* AX after the division: the sectors that remain.                         *)
Rest(size) == IF size % Sector # 0 THEN size \div Sector ELSE size \div Sector - 1

(* The first sector holds the program's size.  If it is the only one, DS   *)
(* is not saved.                                                           *)
ReadFirst ==
    /\ pc = "first"
    /\ Read(ds, si)
    /\ cx' = Rest(said.size)
    /\ IF cx' = 0 THEN pc' = "direct" /\ saved' = saved
       ELSE pc' = "rest" /\ saved' = Append(saved, ds)
    /\ UNCHANGED <<said, ds, si, segments, shown>>

(* @2: the next segment, offset 0.                                         *)
ReadRest ==
    /\ pc = "rest"
    /\ si' = si + 1 /\ cx' = cx - 1
    /\ Read((ds + SectorParas) % Word, si')
    /\ IF cx' = 0 THEN ds' = saved[1] /\ saved' = << >> /\ pc' = "direct"
       ELSE ds' = (ds + SectorParas) % Word /\ UNCHANGED <<saved, pc>>
    /\ UNCHANGED <<said, segments, shown>>

(* add ax, adc dx                                                          *)
Sum(address) ==
    LET low == (address % Word) + (PhyBase % Word)
    IN  [ax |-> low % Word,
         dx |-> (address \div Word + PhyBase \div Word + low \div Word) % Word]

(* calc_segment_base: shr ax,4; ror dx,4; and dx,0xf000; or ax,dx          *)
calc_segment_base(address) ==
    (Sum(address).ax \div Para) + (Sum(address).dx % Para) * (Word \div Para)

(* The entry's section.                                                    *)
Direct ==
    /\ pc = "direct"
    /\ segments' = <<calc_segment_base(said.entry)>>
    /\ cx' = Len(said.table)
    /\ pc' = "realloc"
    /\ UNCHANGED <<said, ds, si, saved, mem, shown>>

Realloc ==
    /\ pc = "realloc"
    /\ segments' = Append(segments, calc_segment_base(said.table[Len(segments)]))
    /\ cx' = cx - 1
    /\ pc' = IF cx' = 0 THEN "program" ELSE pc
    /\ UNCHANGED <<said, ds, si, saved, mem, shown>>

(* print_read_debug_msg has no ret: behind its call of put_string it runs  *)
(* into put_string, with the BX it has restored.  What lies there is not   *)
(* the loader's: it may be a text or a zero byte.                          *)
Message ==
    /\ pc = "direct"
    /\ shown' = <<"read_msg">>
    /\ pc' = "message"
    /\ UNCHANGED <<said, ds, si, cx, saved, mem, segments>>

FallThrough ==
    /\ pc = "message"
    /\ shown' \in {shown, Append(shown, "cs:bx")}
    /\ pc' = "program"
    /\ UNCHANGED <<said, ds, si, cx, saved, mem, segments>>

Next == ReadFirst \/ ReadRest \/ Direct \/ Realloc \/ Message \/ FallThrough

Spec == Init /\ [][Next]_vars

-----------------------------------------------------------------------------
(* Properties.                                                             *)

TypeOK ==
    /\ pc \in {"first", "rest", "direct", "realloc", "message", "program"}
    /\ ds \in 0 .. Word - 1 /\ cx \in 0 .. Word - 1
    /\ \A i \in DOMAIN segments : segments[i] \in 0 .. Word - 1

(* When relocation begins the whole program lies at phy_base, byte for     *)
(* byte and also beyond the first 64 KB, with no sector too many, and DS   *)
(* is back at its beginning.                                               *)
ProgramIsLoaded ==
    pc \notin {"first", "rest"} =>
        /\ \A i \in 0 .. said.size - 1 : mem[PhyBase + i] = i
        /\ Cardinality(DOMAIN mem) < said.size + Sector
        /\ ds = PhyBase \div Para

(* Each segment put into the header begins with the first byte of the      *)
(* section it stands for.                                                  *)
SegmentsFindSections ==
    \A i \in DOMAIN segments :
        LET a == Linear(segments[i], 0)
        IN  a \in DOMAIN mem /\ mem[a] = IF i = 1 THEN said.entry ELSE said.table[i - 1]
=============================================================================
