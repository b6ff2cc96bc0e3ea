-------------------------- MODULE KernelPartsProofs --------------------------
(***************************************************************************)
(* What holds of a part on its own holds of it here: the parts share no    *)
(* state, and a step of one leaves the others alone.                       *)
(* The loader's proof is here, the others' are in modules of their own.    *)
(***************************************************************************)
EXTENDS KernelParts, TLAPS, FiniteSetTheorems

(* The invariant of the descriptor tables, while they are looked at.       *)
TablesInv == part = "tables" => Tables!IInv

LEMMA TablesStart ==
    ASSUME Init
    PROVE  TablesInv
<1>1. CASE part = "tables"
  <2>1. Tables!Init
    BY <1>1 DEF Init, DiskInit, LoaderInit, TablesInit, ListInit
  <2> QED BY <2>1, PartsAssumption, Tables!InitInvariant DEF TablesInv
<1> QED BY <1>1 DEF TablesInv

LEMMA TablesKeep ==
    ASSUME TablesInv, [Next]_v
    PROVE  TablesInv'
<1> SUFFICES ASSUME part' = "tables"
             PROVE  Tables!IInv'
  BY DEF TablesInv
<1>1. CASE TablesStep
  <2>1. Tables!IInv /\ [Tables!Next]_(Tables!vars)
    BY <1>1 DEF TablesStep, TablesInv
  <2> QED BY <2>1, PartsAssumption, Tables!StepKeeps
<1>2. CASE DiskStep \/ LoaderStep \/ ListStep
  BY <1>2 DEF DiskStep, LoaderStep, ListStep
<1>3. CASE UNCHANGED v
  <2>1. Tables!IInv /\ [Tables!Next]_(Tables!vars)
    BY <1>3 DEF v, Tables!vars, TablesInv
  <2> QED BY <2>1, PartsAssumption, Tables!StepKeeps
<1> QED BY <1>1, <1>2, <1>3 DEF Next

(* Of any number of services and programs, as many as the tables hold.     *)
THEOREM SelectorsAlwaysDecode == Spec => []SelectorsDecode
<1>1. Init => TablesInv
  BY TablesStart
<1>2. TablesInv /\ [Next]_v => TablesInv'
  BY TablesKeep
<1>3. TablesInv => SelectorsDecode
  BY PartsAssumption, Tables!InvariantDecodes DEF TablesInv, SelectorsDecode
<1> QED BY <1>1, <1>2, <1>3, PTL DEF Spec

-----------------------------------------------------------------------------
(* The invariant of the disk and its drivers, while they are looked at.    *)
DiskInv == part = "disk" => Disk!IInv

LEMMA DiskStart ==
    ASSUME Init
    PROVE  DiskInv
<1>1. CASE part = "disk"
  <2>1. Disk!Init
    BY <1>1 DEF Init, DiskInit, LoaderInit, TablesInit, ListInit
  <2> QED BY <2>1, PartsAssumption, Disk!InitInvariant DEF DiskInv
<1> QED BY <1>1 DEF DiskInv

LEMMA DiskKeep ==
    ASSUME DiskInv, [Next]_v
    PROVE  DiskInv'
<1> SUFFICES ASSUME part' = "disk"
             PROVE  Disk!IInv'
  BY DEF DiskInv
<1>1. CASE DiskStep
  <2>1. Disk!IInv /\ [Disk!Next]_(Disk!vars)
    BY <1>1 DEF DiskStep, DiskInv
  <2> QED BY <2>1, PartsAssumption, Disk!StepKeeps
<1>2. CASE TablesStep \/ LoaderStep \/ ListStep
  BY <1>2 DEF TablesStep, LoaderStep, ListStep
<1>3. CASE UNCHANGED v
  <2>1. Disk!IInv /\ [Disk!Next]_(Disk!vars)
    BY <1>3 DEF v, Disk!vars, Disk!jobVars, DiskInv
  <2> QED BY <2>1, PartsAssumption, Disk!StepKeeps
<1> QED BY <1>1, <1>2, <1>3 DEF Next

(* A sequence of requests of any length, of the kernel and of the firmware *)
(* in any order, reads and writes what it asks for and is told the truth.  *)
THEOREM RequestsAlwaysServed == Spec => []RequestsAreServed
<1>1. Init => DiskInv
  BY DiskStart
<1>2. DiskInv /\ [Next]_v => DiskInv'
  BY DiskKeep
<1>3. DiskInv => RequestsAreServed
  BY DEF DiskInv, RequestsAreServed, Disk!IInv
<1> QED BY <1>1, <1>2, <1>3, PTL DEF Spec

(* The kernel never leaves its loop for an unreadable sector, whatever was *)
(* asked of the disk before (c17_core.asm:182).                            *)
THEOREM ErrorsAreNeverData == Spec => [][ErrorIsNeverData]_v
<1>1. Init => DiskInv
  BY DiskStart
<1>2. DiskInv /\ [Next]_v => DiskInv'
  BY DiskKeep
<1>3. DiskInv /\ [Next]_v => [ErrorIsNeverData]_v
  <2>1. SUFFICES ASSUME DiskInv, Next, part = "disk", Disk!WaitsForBad
                 PROVE  Disk!Waits'
    BY DEF ErrorIsNeverData
  <2>2. Disk!IInv /\ [Disk!Next]_(Disk!vars)
    BY <2>1 DEF DiskInv, Next, DiskStep, LoaderStep, TablesStep, ListStep
  <2> QED BY <2>1, <2>2, PartsAssumption, Disk!BadSectorWaits
<1> QED BY <1>1, <1>2, <1>3, PTL DEF Spec

-----------------------------------------------------------------------------
(* The invariant of the TCB list, while it is looked at.                   *)
ListInv == part = "list" => List!IInv

LEMMA ListBegins ==
    ASSUME Init
    PROVE  ListInv /\ RR!Init
<1>1. CASE part = "list"
  <2>1. List!Init
    BY <1>1 DEF Init, DiskInit, LoaderInit, TablesInit, ListInit
  <2>2. List!IInv /\ List!RR!Init
    BY <2>1, PartsAssumption, List!Begins
  <2> QED BY <1>1, <2>2 DEF ListInv, List!RR!Init, RR!Init
<1>2. CASE part # "list"
  BY <1>2 DEF ListInv, RR!Init
<1> QED BY <1>1, <1>2

LEMMA ListKeeps ==
    ASSUME ListInv, [Next]_v
    PROVE  ListInv' /\ [RR!Next]_(RR!vars)
<1>1. CASE part = "list"
  <2>1. List!IInv /\ [List!Next]_(List!vars) /\ part' = "list"
    BY <1>1 DEF Next, DiskStep, LoaderStep, TablesStep, ListStep, v, List!vars, ListInv
  <2>2. List!IInv' /\ List!Turn
    BY <2>1, PartsAssumption, List!StepKeeps
  <2>3. [RR!Next]_(RR!vars)
    BY <1>1, <2>1, <2>2
    DEF List!Turn, List!RR!Next, List!RR!Admit, List!RR!Preempt, List!RR!Exit, List!RR!vars,
        List!RR!Waiting, RR!Next, RR!Admit, RR!Preempt, RR!Exit, RR!vars, RR!Waiting
  <2> QED BY <2>2, <2>3 DEF ListInv
<1>2. CASE part # "list"
  <2>1. part' = part
    BY <1>2 DEF Next, DiskStep, LoaderStep, TablesStep, ListStep, v
  <2> QED BY <1>2, <2>1 DEF ListInv, RR!vars
<1> QED BY <1>1, <1>2

(* The list in memory is closed and complete whenever the clock may        *)
(* interrupt, and the handler finds the task it runs in                    *)
(* (c17_core.asm:441), for any number of programs.                         *)
THEOREM TheListIsSound == Spec => []ListIsSound
<1>1. Init => ListInv
  BY ListBegins
<1>2. ListInv /\ [Next]_v => ListInv'
  BY ListKeeps
<1>3. ListInv => ListIsSound
  BY PartsAssumption, List!InvariantIsSound DEF ListInv, ListIsSound
<1> QED BY <1>1, <1>2, <1>3, PTL DEF Spec

(* Every step on the pointers is a step of the round robin or nothing to   *)
(* it; that it goes on for ever is left to the runs.                       *)
THEOREM PointersTurn == Spec => RR!Spec
<1>1. Init => ListInv /\ RR!Init
  BY ListBegins
<1>2. ListInv /\ [Next]_v => ListInv' /\ [RR!Next]_(RR!vars)
  BY ListKeeps
<1> QED BY <1>1, <1>2, PTL DEF Spec, RR!Spec

-----------------------------------------------------------------------------
(* The program loader.  Its variables by their own names.                  *)
core == v1
at == v2
ram_alloc == v3
block == v4
mem == v5
read == v6
header == v7
ldt == v8
gdt == v9
tcb == v10
tss == v11

USE DEF core, at, ram_alloc, block, mem, read, header, ldt, gdt, tcb, tss

-----------------------------------------------------------------------------
(* The inductive invariant.                                                *)

Whats == {"tcb", "ldt", "image", "stack3", "stack0", "stack1", "stack2", "tss"}
Blocks == [p : Applications, what : Whats, base : Nat, bytes : Load!Number]

(* Blocks lie one behind the other up to `high', one for each purpose.     *)
Laid(s, high) ==
    /\ s \in Seq(Blocks)
    /\ \A i \in 1 .. Len(s) : Start <= s[i].base /\ s[i].base + s[i].bytes <= high
    /\ \A i, j \in 1 .. Len(s) : i < j => s[i].base + s[i].bytes <= s[j].base

Once(B) == \A b, c \in B : b.p = c.p /\ b.what = c.what => b = c

Kinds(B, p) == { b.what : b \in { c \in B : c.p = p } }

Places == {"read", "segments", "salt", "stacks", "register"}

(* How far a program has come, and the blocks it has by then.              *)
Stage(p) ==
    IF ~Load!Begun(p) THEN "none"
    ELSE IF at = Load!Idle \/ at.p # p THEN "ready"
    ELSE at.pc

BlocksAt(stage) ==
    (IF stage = "none" THEN {} ELSE {"tcb", "ldt", "image"}) \cup
    (IF stage \in {"none", "read", "segments"} THEN {} ELSE {"stack3"}) \cup
    (IF stage \in {"register", "ready"} THEN {"stack0", "stack1", "stack2"} ELSE {}) \cup
    (IF stage = "ready" THEN {"tss"} ELSE {})

(* What the header said, and what it says now.                             *)
Original(h) == CHOOSE o \in Headers : o.size = h.size

HeaderAt(stage, h, o) ==
    /\ o \in Headers /\ h.size = o.size /\ DOMAIN h = DOMAIN o
    /\ stage \in {"none", "read", "segments"} => h = o
    /\ stage \notin {"none", "read", "segments"} =>
          /\ h.head_len = Load!Selector(0, 3) /\ h.code_seg = Load!Selector(1, 3)
          /\ h.data_seg = Load!Selector(2, 3) /\ h.stack_seg = Load!Selector(3, 3)
    /\ stage = "salt" => h.usalt = o.usalt
    /\ stage \in {"stacks", "register", "ready"} =>
          h.usalt = [i \in DOMAIN o.usalt |-> Load!Bind(o.usalt[i])]

BlockFits(b, t, o) ==
    /\ b.what = "ldt" => b.bytes = LdtBytes /\ b.base = t.ldt
    /\ b.what = "image" => b.bytes = Load!Rounded(o.size) /\ b.base = t.image
    /\ b.what = "tss" => b.bytes = TssBytes

StackOver(d, b, n, level) ==
    /\ b.bytes = n * Unit
    /\ d = Load!Segment(Load!StackBase(b.base, b.bytes) % Load!Space, Load!DownUnits(n), TRUE, TRUE, level)

IsStack(d, B, p, what, n, level) ==
    \E b \in B : b.p = p /\ b.what = what /\ StackOver(d, b, n, level)

LdtEntries == [base : Int, limit : Int, g : BOOLEAN, down : BOOLEAN, dpl : Nat]

LdtAt(stage, l, B, p, t, o) ==
    /\ l \in Seq(LdtEntries)
    /\ Len(l) = IF stage \in {"none", "read", "segments"} THEN 0
                ELSE IF stage \in {"register", "ready"} THEN 7 ELSE 4
    /\ stage \notin {"none", "read", "segments"} =>
          /\ l[1] = Load!Segment(t.image, o.head_len - 1, FALSE, FALSE, 3)
          /\ l[2] = Load!Segment(t.image + o.code_seg, o.code_len - 1, FALSE, FALSE, 3)
          /\ l[3] = Load!Segment(t.image + o.data_seg, o.data_len - 1, FALSE, FALSE, 3)
          /\ IsStack(l[4], B, p, "stack3", o.stack_len, 3)
    /\ stage \in {"register", "ready"} =>
          /\ IsStack(l[5], B, p, "stack0", 1, 0)
          /\ IsStack(l[6], B, p, "stack1", 1, 1)
          /\ IsStack(l[7], B, p, "stack2", 1, 2)

TcbAt(stage, t) ==
    stage \in {"register", "ready"} => t.stack = [i \in 0 .. 2 |-> Load!Selector(4 + i, i)]

TssAt(stage, s) ==
    stage = "ready" =>
        /\ s.ss0 = Load!Selector(4, 0) /\ s.ss1 = Load!Selector(5, 1) /\ s.ss2 = Load!Selector(6, 2)
        /\ s.ss = Load!Selector(3, 3) /\ s.cs = Load!Selector(1, 3) /\ s.ds = Load!Selector(0, 3)

Made(stage, p, h, l, t, s, B) ==
    /\ Kinds(B, p) = BlocksAt(stage)
    /\ HeaderAt(stage, h, Original(h))
    /\ \A b \in B : b.p = p => BlockFits(b, t, Original(h))
    /\ LdtAt(stage, l, B, p, t, Original(h))
    /\ TcbAt(stage, t)
    /\ TssAt(stage, s)

(* The GDT: an entry lies over its block.                                  *)
Registered(d, B) ==
    \E b \in B : b.p = d.p /\ b.what = d.kind /\ b.base = d.base /\ d.limit < b.bytes

(* The memory: sectors lie in the program's own block, in order.           *)
InImage(a, m, B) ==
    \E b \in B : b.what = "image" /\ b.p = m[a].p /\ a \in b.base .. b.base + b.bytes - 1

Filled(m, p, base, n) ==
    \A i \in 0 .. n - 1 : base + i \in DOMAIN m /\ m[base + i] = [p |-> p, byte |-> i]

(* So many bytes of it have been read.                                     *)
Got(stage, t, o) ==
    IF stage = "read" THEN read.ebx - t.image ELSE Load!Rounded(o.size)

(* What the program being loaded will still take.                          *)
Left(pc, o) ==
    (IF pc \in {"read", "segments"} THEN o.stack_len * Unit + 3 ELSE 0) +
    (IF pc \in {"read", "segments", "salt", "stacks"} THEN 3 * Unit + 3 ELSE 0) +
    (IF pc = "idle" THEN 0 ELSE TssBytes + 3)

Most == CHOOSE most \in 0 .. Load!Space :
          /\ \A h \in Headers : Load!Demand(h) <= most
          /\ Start + Cardinality(Applications) * most <= Load!Space

BegunOnes == { p \in Applications : Load!Begun(p) }

Position ==
    /\ at = Load!Idle \/ \E pc \in Places, p \in Applications : Load!AtPc(pc, p) /\ Load!Begun(p)
    /\ at # Load!Idle => core.ecx = 0

KernelRead ==
    /\ core.size \in CoreSizes /\ core.got \in Nat /\ core.ecx \in Nat
    /\ core.got + core.ecx = 1 + Load!Rest(core.size)

Reading ==
    /\ read.eax \in Nat /\ read.ebx \in Nat /\ read.ecx \in Nat
    /\ at.pc # "read" => read.ecx = 0
    /\ at.pc = "read" =>
          /\ read.ecx > 0
          /\ read.ebx = tcb[at.p].image + read.eax * SectorBytes
          /\ (read.eax + read.ecx) * SectorBytes = Load!Rounded(header[at.p].size)

Budget ==
    /\ ram_alloc \in Nat /\ ram_alloc >= Start
    /\ ram_alloc + (IF at = Load!Idle THEN 0 ELSE Left(at.pc, Original(header[at.p])))
         <= Start + Cardinality(BegunOnes) * Most

Domains ==
    /\ DOMAIN header = Applications /\ DOMAIN ldt = Applications
    /\ DOMAIN tcb = Applications /\ DOMAIN tss = Applications

Row == Laid(block, ram_alloc) /\ Once(Load!ToSet(block))

AllMade ==
    \A p \in Applications :
        Made(Stage(p), p, header[p], ldt[p], tcb[p], tss[p], Load!ToSet(block))

GdtEntries ==
    /\ gdt \in Seq([kind : {"ldt", "tss"}, p : Applications, base : Nat, limit : Nat])
    /\ \A d \in Load!ToSet(gdt) : Registered(d, Load!ToSet(block)) /\ Stage(d.p) = "ready"

Sectors == \A a \in DOMAIN mem : a \in Nat /\ InImage(a, mem, Load!ToSet(block))

Contents ==
    \A p \in Applications : Stage(p) # "none" =>
        Filled(mem, p, tcb[p].image, Got(Stage(p), tcb[p], Original(header[p])))

LoaderIInv ==
    /\ Position /\ KernelRead /\ Reading /\ Budget /\ Domains
    /\ Row /\ AllMade /\ GdtEntries /\ Sectors /\ Contents
-----------------------------------------------------------------------------
(* Numbers.                                                                *)

(* The loader's sets are counted as all sets are.                          *)
LEMMA SameFinite == \A S : Load!IsFiniteSet(S) <=> IsFiniteSet(S)
BY DEF Load!IsFiniteSet, IsFiniteSet

LEMMA SameCardinality == \A S : Load!Cardinality(S) = Cardinality(S)
BY DEF Load!Cardinality, Cardinality

LEMMA Sizes ==
    ASSUME Load!LoaderAssumption
    PROVE  /\ SectorBytes \in Nat /\ SectorBytes > 0 /\ Unit \in Nat /\ Unit > 0
           /\ Fields \in Nat /\ Fields > 0 /\ Load!Space \in Nat /\ Load!Space > 0 /\ Start \in Nat
           /\ TcbBytes \in Nat /\ TcbBytes > 0 /\ LdtBytes \in Nat /\ LdtBytes >= 56
           /\ TssBytes \in Nat /\ TssBytes > 0
<1>1. /\ SectorBytes \in Nat /\ SectorBytes > 0 /\ Unit \in Nat /\ Unit > 0 /\ Fields \in Nat /\ Fields > 0
      /\ TcbBytes \in Nat /\ TcbBytes > 0 /\ LdtBytes \in Nat /\ LdtBytes >= 56
      /\ TssBytes \in Nat /\ TssBytes > 0 /\ Start \in Nat
  <2>1. /\ SectorBytes \in Load!Number /\ Unit \in Load!Number /\ Fields \in Load!Number
        /\ TcbBytes \in Load!Number /\ TssBytes \in Load!Number
        /\ LdtBytes \in Nat /\ LdtBytes >= 56 /\ Start \in Nat
    BY Zenon DEF Load!LoaderAssumption
  <2> QED BY <2>1 DEF Load!Number
<1>2. PICK u \in Nat, f \in Nat : u = Unit /\ f = Fields /\ u > 0 /\ f > 0
  BY <1>1
<1>3. u * f \in Nat /\ u * f > 0
  BY <1>2
<1> QED BY <1>1, <1>2, <1>3 DEF Load!Space

LEMMA Alignment ==
    ASSUME NEW a \in Nat
    PROVE  Load!Aligned(a) \in Nat /\ a <= Load!Aligned(a) /\ Load!Aligned(a) <= a + 3
BY DEF Load!Aligned

LEMMA Multiple ==
    ASSUME NEW q \in Nat, NEW d \in Nat, d > 0
    PROVE  (q * d) \div d = q /\ (q * d) % d = 0
<1>1. 0 \in Nat /\ 0 < d /\ q * d \in Nat /\ (q * d) + 0 = q * d
  OBVIOUS
<1>2. ((q * d) + 0) \div d = q /\ ((q * d) + 0) % d = 0
  BY <1>1, Disk!Unique
<1> QED BY <1>1, <1>2

(* A program fills a whole number of sectors, the last of them in part.    *)
LEMMA Rounding ==
    ASSUME Load!LoaderAssumption, NEW size \in Load!Number
    PROVE  \E q \in Nat :
             /\ q > 0 /\ Load!Rounded(size) = q * SectorBytes /\ Load!Rounded(size) \div SectorBytes = q
             /\ Load!Rounded(size) \in Nat /\ Load!Rounded(size) > 0
             /\ size <= Load!Rounded(size) /\ Load!Rounded(size) < size + SectorBytes
<1>1. PICK d \in Nat : d = SectorBytes /\ d > 0
  BY Sizes
<1>2. size \in Nat /\ size > 0
  BY DEF Load!Number
<1>3. PICK k \in Nat, r \in Nat : /\ k = size \div d /\ r = size % d /\ r < d
                                  /\ size = (k * d) + r
  BY <1>1, <1>2, Disk!Divide
<1>4. PICK m \in Nat : m = k * d
  BY <1>1
<1>5. CASE r = 0
  <2>1. Load!Rounded(size) = m /\ size = m
    BY <1>1, <1>2, <1>3, <1>4, <1>5 DEF Load!Rounded
  <2>2. k > 0
    BY <1>1, <1>2, <1>4, <2>1
  <2>3. m \div d = k
    BY <1>1, <1>4, Multiple
  <2> QED BY <1>1, <1>2, <1>4, <2>1, <2>2, <2>3
<1>6. CASE r > 0
  <2>1. Load!Rounded(size) = m + d
    BY <1>1, <1>2, <1>3, <1>4, <1>6 DEF Load!Rounded
  <2>2. (k + 1) * d = m + d /\ k + 1 \in Nat /\ k + 1 > 0
    BY <1>1, <1>4
  <2>3. (m + d) \div d = k + 1
    BY <1>1, <2>2, Multiple
  <2>4. size = m + r
    BY <1>3, <1>4
  <2> QED BY <1>1, <1>3, <1>6, <2>1, <2>2, <2>3, <2>4
<1> QED BY <1>3, <1>5, <1>6

-----------------------------------------------------------------------------
(* The allocator's blocks.                                                 *)

LEMMA ThreeMore ==
    ASSUME NEW S, NEW s \in Seq(S), NEW a \in S, NEW b \in S, NEW c \in S
    PROVE  s \o <<a, b, c>> = Append(Append(Append(s, a), b), c)
OBVIOUS

LEMMA Members ==
    ASSUME NEW S, NEW s \in Seq(S), NEW x \in S
    PROVE  /\ Load!ToSet(Append(s, x)) = Load!ToSet(s) \cup {x}
           /\ Append(s, x) \in Seq(S) /\ Len(Append(s, x)) = Len(s) + 1
           /\ \A i \in 1 .. Len(s) : Append(s, x)[i] = s[i]
           /\ Append(s, x)[Len(s) + 1] = x
           /\ Load!ToSet(s) \subseteq S
<1>1. /\ Append(s, x) \in Seq(S) /\ Len(Append(s, x)) = Len(s) + 1 /\ Len(s) \in Nat
      /\ DOMAIN s = 1 .. Len(s) /\ DOMAIN Append(s, x) = 1 .. Len(s) + 1
      /\ \A i \in 1 .. Len(s) : Append(s, x)[i] = s[i]
      /\ Append(s, x)[Len(s) + 1] = x
  OBVIOUS
<1>2. 1 .. Len(s) + 1 = (1 .. Len(s)) \cup {Len(s) + 1}
  BY <1>1
<1>3. Load!ToSet(Append(s, x)) = Load!ToSet(s) \cup {x}
  BY <1>1, <1>2 DEF Load!ToSet
<1>4. Load!ToSet(s) \subseteq S
  BY DEF Load!ToSet
<1> QED BY <1>1, <1>3, <1>4

LEMMA BlockNumbers ==
    /\ \A b \in Blocks : b.base \in Nat /\ b.bytes \in Nat /\ b.bytes > 0
    /\ \A s \in Seq(Blocks) : \A i \in 1 .. Len(s) : s[i] \in Blocks /\
           s[i].base \in Nat /\ s[i].bytes \in Nat /\ s[i].bytes > 0
<1>1. ASSUME NEW b \in Blocks
      PROVE  b.base \in Nat /\ b.bytes \in Nat /\ b.bytes > 0
  BY DEF Blocks, Load!Number
<1>2. ASSUME NEW s \in Seq(Blocks), NEW i \in 1 .. Len(s)
      PROVE  s[i] \in Blocks
  OBVIOUS
<1> QED BY <1>1, <1>2

LEMMA LaidNext ==
    ASSUME NEW s, NEW high \in Nat, Laid(s, high), Start \in Nat, Start <= high,
           NEW b \in Blocks, high <= b.base, NEW top \in Nat, b.base + b.bytes <= top
    PROVE  Laid(Append(s, b), top) /\ Load!ToSet(Append(s, b)) = Load!ToSet(s) \cup {b}
<1> DEFINE n == Len(s)
           t == Append(s, b)
<1>1. s \in Seq(Blocks) /\ n \in Nat
  BY DEF Laid
<1>2. /\ Load!ToSet(t) = Load!ToSet(s) \cup {b} /\ t \in Seq(Blocks) /\ Len(t) = n + 1
      /\ \A i \in 1 .. n : t[i] = s[i]
      /\ t[n + 1] = b
  BY <1>1, Members
<1>3. \A i \in 1 .. n : s[i].base \in Nat /\ s[i].bytes \in Nat
  BY <1>1, BlockNumbers DEF n
<1>4. b.base \in Nat /\ b.bytes \in Nat
  BY BlockNumbers
<1> HIDE DEF n, t
<1>5. high <= top
  BY <1>4
<1>6. ASSUME NEW i \in 1 .. n + 1
      PROVE  Start <= t[i].base /\ t[i].base + t[i].bytes <= top
  <2>1. CASE i \in 1 .. n
    <3>1. Start <= s[i].base /\ s[i].base + s[i].bytes <= high
      BY <2>1 DEF Laid, n
    <3>2. t[i] = s[i] /\ s[i].base \in Nat /\ s[i].bytes \in Nat
      BY <1>2, <1>3, <2>1
    <3> QED BY <1>5, <3>1, <3>2
  <2>2. CASE i = n + 1
    BY <1>2, <1>4, <2>2
  <2> QED BY <1>1, <2>1, <2>2
<1>7. ASSUME NEW i \in 1 .. n + 1, NEW j \in 1 .. n + 1, i < j
      PROVE  t[i].base + t[i].bytes <= t[j].base
  <2>1. i \in 1 .. n
    BY <1>1, <1>7
  <2>2. CASE j \in 1 .. n
    BY <1>2, <1>7, <2>1, <2>2 DEF Laid, n
  <2>3. CASE j = n + 1
    <3>1. s[i].base + s[i].bytes <= high
      BY <2>1 DEF Laid, n
    <3> QED BY <1>2, <1>3, <1>4, <2>1, <2>3, <3>1
  <2> QED BY <1>1, <2>2, <2>3
<1> QED BY <1>2, <1>6, <1>7 DEF Laid, t

(* Only the allocator's pointer went on.                                   *)
LEMMA LaidHigher ==
    ASSUME NEW s, NEW high \in Nat, Laid(s, high), NEW top \in Nat, high <= top
    PROVE  Laid(s, top)
<1>1. s \in Seq(Blocks)
  BY DEF Laid
<1>2. ASSUME NEW i \in 1 .. Len(s)
      PROVE  s[i].base + s[i].bytes <= top
  <2>1. s[i].base \in Nat /\ s[i].bytes \in Nat
    BY <1>1, BlockNumbers
  <2>2. s[i].base + s[i].bytes <= high
    BY DEF Laid
  <2> QED BY <2>1, <2>2
<1> QED BY <1>2 DEF Laid

(* Two of the blocks have no byte in common.                               *)
LEMMA Apart ==
    ASSUME NEW s, NEW high, Laid(s, high), NEW b \in Load!ToSet(s), NEW c \in Load!ToSet(s), b # c
    PROVE  b.base + b.bytes <= c.base \/ c.base + c.bytes <= b.base
<1>1. DOMAIN s = 1 .. Len(s)
  BY DEF Laid
<1>2. PICK i \in 1 .. Len(s), j \in 1 .. Len(s) : b = s[i] /\ c = s[j]
  BY <1>1 DEF Load!ToSet
<1>3. i < j \/ j < i
  BY <1>2
<1> QED BY <1>2, <1>3 DEF Laid

LEMMA OnceMore ==
    ASSUME NEW B, Once(B), NEW b, \A c \in B : ~(c.p = b.p /\ c.what = b.what)
    PROVE  Once(B \cup {b})
BY DEF Once

(* The block a program has for a purpose.                                  *)
LEMMA TheBlock ==
    ASSUME Once(Load!ToSet(block)), NEW b \in Load!ToSet(block)
    PROVE  /\ Load!Given(b.p, b.what) = b.base .. b.base + b.bytes - 1
           /\ Load!BaseOf(b.p, b.what) = b.base
<1>1. (CHOOSE x \in Load!ToSet(block) : x.p = b.p /\ x.what = b.what) = b
  BY DEF Once
<1> QED BY <1>1 DEF Load!Given, Load!BaseOf

-----------------------------------------------------------------------------
(* Headers and segments.                                                   *)

LEMMA HeaderFacts ==
    ASSUME Load!LoaderAssumption, NEW o \in Headers
    PROVE  /\ o.size \in Nat /\ o.size > 0 /\ o.size \in Load!Number
           /\ o.head_len \in Nat /\ o.head_len > 0 /\ o.head_len <= o.size
           /\ o.code_seg \in Nat /\ o.code_len \in Nat /\ o.code_len > 0
           /\ o.code_seg + o.code_len <= o.size
           /\ o.data_seg \in Nat /\ o.data_len \in Nat /\ o.data_len > 0
           /\ o.data_seg + o.data_len <= o.size
           /\ o.stack_len \in Nat /\ o.stack_len > 0
           /\ o.usalt \in Seq(Load!Symbols)
           /\ o.stack_len * Unit \in Nat /\ o.stack_len * Unit > 0
<1>1. o \in [size : Load!Number, head_len : Load!Number, code_seg : Nat, code_len : Load!Number,
             data_seg : Nat, data_len : Load!Number, stack_len : Load!Number, stack_seg : Nat,
             prgentry : Nat, usalt : Seq(Load!Symbols)]
  BY DEF Load!LoaderAssumption
<1>2. /\ o.head_len <= o.size /\ o.code_seg + o.code_len <= o.size
      /\ o.data_seg + o.data_len <= o.size
  BY DEF Load!LoaderAssumption
<1>3. /\ o.size \in Load!Number /\ o.head_len \in Load!Number /\ o.code_seg \in Nat
      /\ o.code_len \in Load!Number /\ o.data_seg \in Nat /\ o.data_len \in Load!Number
      /\ o.stack_len \in Load!Number /\ o.usalt \in Seq(Load!Symbols)
  BY <1>1
<1>4. PICK u \in Nat, n \in Nat : u = Unit /\ n = o.stack_len /\ u > 0 /\ n > 0
  BY <1>3, Sizes DEF Load!Number
<1>5. n * u \in Nat /\ n * u > 0
  BY <1>4
<1> QED BY <1>2, <1>3, <1>4, <1>5 DEF Load!Number

(* A program is known by its size.                                         *)
LEMMA KnownBySize ==
    ASSUME Load!LoaderAssumption, NEW h, NEW o \in Headers, h.size = o.size
    PROVE  Original(h) = o
<1>1. \A k \in Headers : k.size = o.size => k = o
  BY DEF Load!LoaderAssumption
<1> QED BY <1>1 DEF Original

LEMMA SaidOriginal ==
    ASSUME NEW p
    PROVE  Load!Said(p) = Original(header[p])
BY DEF Load!Said, Original

LEMMA HeaderOriginal ==
    ASSUME Load!LoaderAssumption, NEW stage, NEW h, HeaderAt(stage, h, Original(h))
    PROVE  /\ Original(h) \in Headers /\ Original(h).size = h.size
           /\ stage \in {"none", "read", "segments"} => Original(h) = h
BY DEF HeaderAt

(* x plus Space, or less than Space.                                       *)
LEMMA Wraps ==
    ASSUME Load!LoaderAssumption, NEW x \in Nat, x < Load!Space
    PROVE  x % Load!Space = x /\ (x + Load!Space) % Load!Space = x
<1>1. PICK s \in Nat : s = Load!Space /\ s > 0 /\ x < s
  BY Sizes
<1>2. (0 * s) + x = x /\ (1 * s) + x = x + s /\ 0 \in Nat /\ 1 \in Nat
  BY <1>1
<1>3. ((0 * s) + x) % s = x /\ ((1 * s) + x) % s = x
  BY <1>1, <1>2, Disk!Unique
<1> QED BY <1>1, <1>2, <1>3

(* A segment that expands upwards.                                         *)
LEMMA ReachUp ==
    ASSUME Load!LoaderAssumption, NEW base \in Nat, NEW bytes \in Nat, bytes > 0,
           base + bytes <= Load!Space, NEW level
    PROVE  Load!Reach(Load!Segment(base, bytes - 1, FALSE, FALSE, level)) = base .. base + bytes - 1
<1> DEFINE s == Load!Segment(base, bytes - 1, FALSE, FALSE, level)
<1>1. s.base = base /\ s.limit = bytes - 1 /\ ~s.g /\ ~s.down
  BY DEF Load!Segment
<1>2. PICK space \in Nat : space = Load!Space /\ space > 0
  BY Sizes
<1>3. Load!Reach(s) = { (base + o) % space : o \in 0 .. bytes - 1 }
  BY <1>1, <1>2 DEF Load!Reach, Load!Scaled
<1>4. ASSUME NEW o \in 0 .. bytes - 1
      PROVE  (base + o) % space = base + o
  <2>1. base + o \in Nat /\ base + o < Load!Space
    BY <1>2
  <2> QED BY <1>2, <2>1, Wraps
<1>5. Load!Reach(s) = { base + o : o \in 0 .. bytes - 1 }
  BY <1>3, <1>4
<1>6. ASSUME NEW a \in base .. base + bytes - 1
      PROVE  \E o \in 0 .. bytes - 1 : a = base + o
  <2>1. a - base \in 0 .. bytes - 1 /\ a = base + (a - base)
    OBVIOUS
  <2> QED BY <2>1
<1>7. ASSUME NEW o \in 0 .. bytes - 1
      PROVE  base + o \in base .. base + bytes - 1
  OBVIOUS
<1> QED BY <1>5, <1>6, <1>7

(* A stack: its base is its high end, its limit the complement of its      *)
(* length in units, and what is above the limit wraps around to the block. *)
LEMMA ReachDown ==
    ASSUME Load!LoaderAssumption, NEW b, b.base \in Nat, b.bytes \in Nat, b.base + b.bytes <= Load!Space,
           NEW n \in Nat, n > 0, NEW level, NEW s, StackOver(s, b, n, level)
    PROVE  Load!Reach(s) = b.base .. b.base + b.bytes - 1
<1>1. PICK low \in Nat, bytes \in Nat :
         low = b.base /\ bytes = b.bytes /\ bytes = n * Unit /\ low + bytes <= Load!Space
  BY DEF StackOver
<1>2. s = Load!Segment(Load!StackBase(low, bytes) % Load!Space, Load!DownUnits(n), TRUE, TRUE, level)
  BY <1>1 DEF StackOver
<1>3. PICK space \in Nat, u \in Nat, f \in Nat :
        /\ space = Load!Space /\ u = Unit /\ f = Fields /\ space > 0 /\ u > 0 /\ f > 0
        /\ space = u * f
  BY Sizes DEF Load!Space
<1>4. bytes > 0
  BY <1>3, <1>1
<1>5. PICK high \in Nat : high = (low + bytes) % space
  BY <1>3, <1>1
<1>6. s.base = high /\ s.limit = (f - 1) - n /\ s.g /\ s.down
  BY <1>3, <1>1, <1>5, <1>2 DEF Load!Segment, Load!StackBase, Load!DownUnits
<1>7. ((f - 1) - n) * u = (space - u) - bytes
  BY <1>3, <1>1
<1>8. Load!Scaled(s) = (space - bytes) - 1
  <2>1. PICK k \in Int : k = (f - 1) - n
    BY <1>3, <1>1
  <2>2. s.limit = k /\ Unit = u
    BY <1>3, <1>1, <1>6, <2>1
  <2>3. Load!Scaled(s) = k * u + u - 1
    BY <1>6, <2>2, Zenon DEF Load!Scaled
  <2>4. PICK m \in Int : m = k * u
    BY <1>3, <1>1
  <2>5. m = (space - u) - bytes
    BY <1>7, <2>1, <2>4
  <2>6. PICK z \in Int : z = m + u - 1
    BY <1>3, <1>1
  <2>7. Load!Scaled(s) = z
    BY <2>3, <2>4, <2>6, Zenon
  <2>8. z = (space - bytes) - 1
    BY <1>3, <1>1, <2>5, <2>6
  <2> QED BY <2>7, <2>8, Zenon
<1>9. Load!Reach(s) = { (high + o) % space : o \in space - bytes .. space - 1 }
  <2>1. Load!Scaled(s) + 1 = space - bytes
    BY <1>3, <1>1, <1>8
  <2> QED BY <1>3, <1>1, <1>6, <2>1 DEF Load!Reach
<1>10. ASSUME NEW o \in space - bytes .. space - 1
      PROVE  (high + o) % space = low + (o - (space - bytes))
  <2>1. PICK j \in Nat : o = (space - bytes) + j /\ j < bytes
    <3>1. o - (space - bytes) \in Nat /\ o - (space - bytes) < bytes
      BY <1>3, <1>1
    <3>2. o = (space - bytes) + (o - (space - bytes))
      BY <1>3, <1>1
    <3> QED BY <3>1, <3>2
  <2>2. low + j \in Nat /\ low + j < Load!Space
    BY <1>3, <1>1, <2>1
  <2>3. CASE low + bytes < space
    <3>1. high = low + bytes
      BY <1>3, <1>1, <1>5, <2>3, Wraps
    <3>2. high + o = (low + j) + space
      BY <1>3, <1>1, <2>1, <3>1
    <3> QED BY <1>3, <1>1, <2>1, <2>2, <3>2, Wraps
  <2>4. CASE low + bytes = space
    <3>1. 0 \in Nat /\ 0 < Load!Space /\ 0 + Load!Space = low + bytes
      BY <1>3, <1>1, <2>4
    <3>2. high = 0
      BY <1>3, <1>1, <1>5, <3>1, Wraps
    <3>3. high + o = low + j
      BY <1>3, <1>1, <2>1, <2>4, <3>2
    <3> QED BY <1>3, <1>1, <2>1, <2>2, <3>3, Wraps
  <2> QED BY <1>3, <1>1, <2>3, <2>4
<1>11. ASSUME NEW a \in low .. low + bytes - 1
      PROVE  \E o \in space - bytes .. space - 1 : a = low + (o - (space - bytes))
  <2>1. PICK o \in Int : o = (a - low) + (space - bytes)
    BY <1>3, <1>1
  <2>2. o \in space - bytes .. space - 1 /\ a = low + (o - (space - bytes))
    BY <1>3, <1>1, <2>1
  <2> QED BY <2>2
<1>12. ASSUME NEW o \in space - bytes .. space - 1
       PROVE  low + (o - (space - bytes)) \in low .. low + bytes - 1
  BY <1>3, <1>1
<1>13. Load!Reach(s) = { low + (o - (space - bytes)) : o \in space - bytes .. space - 1 }
  BY <1>9, <1>10
<1>14. Load!Reach(s) = low .. low + bytes - 1
  BY <1>11, <1>12, <1>13
<1> QED BY <1>14, <1>1, Zenon

-----------------------------------------------------------------------------
(* One block more, of a kind the program does not have yet.                *)

LEMMA Allocates ==
    ASSUME NEW s, NEW high \in Nat, Laid(s, high), Once(Load!ToSet(s)), Start \in Nat, Start <= high,
           NEW b \in Blocks, high <= b.base, NEW top \in Nat, b.base + b.bytes <= top,
           b.what \notin Kinds(Load!ToSet(s), b.p)
    PROVE  /\ Laid(Append(s, b), top) /\ Once(Load!ToSet(Append(s, b)))
           /\ Load!ToSet(Append(s, b)) = Load!ToSet(s) \cup {b}
           /\ Kinds(Load!ToSet(Append(s, b)), b.p) = Kinds(Load!ToSet(s), b.p) \cup {b.what}
<1>1. Laid(Append(s, b), top) /\ Load!ToSet(Append(s, b)) = Load!ToSet(s) \cup {b}
  BY LaidNext
<1>2. \A c \in Load!ToSet(s) : ~(c.p = b.p /\ c.what = b.what)
  BY DEF Kinds
<1>3. Once(Load!ToSet(s) \cup {b})
  BY <1>2, OnceMore
<1>4. Kinds(Load!ToSet(s) \cup {b}, b.p) = Kinds(Load!ToSet(s), b.p) \cup {b.what}
  BY DEF Kinds
<1> QED BY <1>1, <1>3, <1>4

LEMMA HasKind ==
    ASSUME NEW B, NEW p, NEW what \in Kinds(B, p)
    PROVE  \E b \in B : b.p = p /\ b.what = what
BY DEF Kinds

-----------------------------------------------------------------------------
(* A step concerns one program, p, and N are the blocks it takes.          *)

Whose(p) == at = Load!Idle \/ \E pc \in Places : Load!AtPc(pc, p)

Concerns(p, N) ==
    /\ Whose(p) /\ Whose(p)'
    /\ Load!ToSet(block') = Load!ToSet(block) \cup N /\ \A b \in N : b.p = p
    /\ \A q \in Applications \ {p} : /\ header'[q] = header[q] /\ ldt'[q] = ldt[q]
                                     /\ tcb'[q] = tcb[q] /\ tss'[q] = tss[q]

LEMMA IdleOrNot ==
    ASSUME NEW p, NEW pc, pc # "idle", Load!AtPc(pc, p)
    PROVE  at # Load!Idle /\ at.pc = pc /\ at.p = p
BY DEF Load!AtPc, Load!Idle

LEMMA StageOf ==
    ASSUME Position, NEW p
    PROVE  /\ ~Load!Begun(p) <=> Stage(p) = "none"
           /\ Load!Begun(p) /\ at = Load!Idle => Stage(p) = "ready"
           /\ \A pc \in Places : Load!AtPc(pc, p) => Load!Begun(p) /\ Stage(p) = pc
<1>1. ASSUME NEW pc \in Places, Load!AtPc(pc, p)
      PROVE  Load!Begun(p) /\ Stage(p) = pc
  <2>1. pc # "idle"
    BY DEF Places
  <2>2. at # Load!Idle /\ at.pc = pc /\ at.p = p
    BY <1>1, <2>1, IdleOrNot
  <2>3. PICK pd \in Places, q \in Applications : Load!AtPc(pd, q) /\ Load!Begun(q)
    BY <2>2 DEF Position
  <2>4. q = p
    BY <2>2, <2>3 DEF Load!AtPc
  <2> QED BY <2>2, <2>3, <2>4 DEF Stage
<1>2. ~Load!Begun(p) => Stage(p) = "none"
  BY DEF Stage
<1>3. Load!Begun(p) /\ at = Load!Idle => Stage(p) = "ready"
  BY DEF Stage
<1>4. ASSUME Load!Begun(p)
      PROVE  Stage(p) # "none"
  <2>1. CASE \E pc \in Places, q \in Applications : Load!AtPc(pc, q) /\ Load!Begun(q)
    <3>1. PICK pc \in Places, q \in Applications : Load!AtPc(pc, q)
      BY <2>1
    <3>2. at.pc = pc /\ pc # "none"
      BY <3>1 DEF Load!AtPc, Places
    <3> QED BY <1>4, <3>2 DEF Stage
  <2> QED BY <1>3, <1>4, <2>1 DEF Position
<1> QED BY <1>1, <1>2, <1>3, <1>4

LEMMA OtherStages ==
    ASSUME NEW p, NEW N, Concerns(p, N), NEW q, q # p
    PROVE  Stage(q) \in {"none", "ready"} /\ Stage(q)' = Stage(q)
<1>1. (at = Load!Idle \/ at.p # q) /\ (at' = Load!Idle \/ at'.p # q)
  BY DEF Concerns, Whose, Load!AtPc
<1>2. Load!Begun(q)' <=> Load!Begun(q)
  BY DEF Concerns, Load!Begun
<1> QED BY <1>1, <1>2 DEF Stage

LEMMA MadeMore ==
    ASSUME NEW B, NEW C, B \subseteq C, NEW q, \A c \in C : c \in B \/ c.p # q,
           NEW stage, NEW h, NEW l, NEW t, NEW s, Made(stage, q, h, l, t, s, B)
    PROVE  Made(stage, q, h, l, t, s, C)
<1>1. Kinds(C, q) = Kinds(B, q)
  BY DEF Kinds
<1>2. \A b \in C : b.p = q => b \in B
  OBVIOUS
<1>3. \A d, what, n, level : IsStack(d, B, q, what, n, level) => IsStack(d, C, q, what, n, level)
  BY DEF IsStack
<1>4. LdtAt(stage, l, C, q, t, Original(h))
  BY <1>3 DEF Made, LdtAt
<1> QED BY <1>1, <1>2, <1>4 DEF Made

LEMMA OthersMade ==
    ASSUME AllMade, NEW p \in Applications, NEW N, Concerns(p, N),
           Made(Stage(p), p, header[p], ldt[p], tcb[p], tss[p], Load!ToSet(block))'
    PROVE  AllMade'
<1> SUFFICES ASSUME NEW q \in Applications, q # p
             PROVE  Made(Stage(q), q, header[q], ldt[q], tcb[q], tss[q], Load!ToSet(block))'
  BY DEF AllMade
<1>1. Stage(q)' = Stage(q)
  BY OtherStages
<1>2. /\ header'[q] = header[q] /\ ldt'[q] = ldt[q] /\ tcb'[q] = tcb[q] /\ tss'[q] = tss[q]
      /\ Load!ToSet(block') = Load!ToSet(block) \cup N /\ \A b \in N : b.p # q
  BY DEF Concerns
<1>3. Made(Stage(q), q, header[q], ldt[q], tcb[q], tss[q], Load!ToSet(block))
  BY DEF AllMade
<1>4. Made(Stage(q), q, header[q], ldt[q], tcb[q], tss[q], Load!ToSet(block'))
  BY <1>2, <1>3, MadeMore
<1> QED BY <1>1, <1>2, <1>4

LEMMA OtherEntries ==
    ASSUME GdtEntries, NEW p \in Applications, NEW N, Concerns(p, N), Stage(p) # "ready",
           NEW d \in Load!ToSet(gdt)
    PROVE  Registered(d, Load!ToSet(block')) /\ Stage(d.p)' = "ready" /\ d.p # p
<1>1. Registered(d, Load!ToSet(block)) /\ Stage(d.p) = "ready"
  BY DEF GdtEntries
<1>2. Registered(d, Load!ToSet(block'))
  BY <1>1 DEF Registered, Concerns
<1>3. Stage(d.p)' = "ready"
  BY <1>1, OtherStages
<1> QED BY <1>1, <1>2, <1>3

LEMMA SameEntries ==
    ASSUME GdtEntries, NEW p \in Applications, NEW N, Concerns(p, N), Stage(p) # "ready", gdt' = gdt
    PROVE  GdtEntries'
BY OtherEntries DEF GdtEntries

LEMMA SameMemory ==
    ASSUME Sectors, Contents, NEW p \in Applications, NEW N, Concerns(p, N), mem' = mem,
           Stage(p)' # "none" =>
               Filled(mem, p, tcb'[p].image, Got(Stage(p), tcb[p], Original(header[p]))')
    PROVE  Sectors' /\ Contents'
<1>1. Sectors'
  BY DEF Sectors, InImage, Concerns
<1>2. ASSUME NEW q \in Applications, q # p, Stage(q)' # "none"
      PROVE  Filled(mem, q, tcb[q].image, Got(Stage(q), tcb[q], Original(header[q])))'
  <2>1. Stage(q) = "ready" /\ Stage(q)' = "ready"
    BY <1>2, OtherStages
  <2>2. header'[q] = header[q] /\ tcb'[q] = tcb[q]
    BY <1>2 DEF Concerns
  <2>3. Filled(mem, q, tcb[q].image, Load!Rounded(Original(header[q]).size))
    BY <2>1 DEF Contents, Got
  <2> QED BY <2>1, <2>2, <2>3 DEF Got
<1>3. Contents'
  BY <1>2 DEF Contents
<1> QED BY <1>1, <1>3

-----------------------------------------------------------------------------
(* Nothing but the kernel's own sectors.                                   *)

LoaderKeeps == UNCHANGED <<at, ram_alloc, block, mem, read, header, ldt, gdt, tcb, tss>>

LEMMA Untouched ==
    ASSUME LoaderIInv, LoaderKeeps
    PROVE  /\ Reading' /\ Budget' /\ Domains' /\ Row' /\ AllMade' /\ GdtEntries' /\ Sectors'
           /\ Contents'
           /\ at = Load!Idle \/ \E pc \in Places, p \in Applications : Load!AtPc(pc, p) /\ Load!Begun(p)'
<1>1. /\ at' = at /\ ram_alloc' = ram_alloc /\ block' = block /\ mem' = mem /\ read' = read
      /\ header' = header /\ ldt' = ldt /\ gdt' = gdt /\ tcb' = tcb /\ tss' = tss
  BY DEF LoaderKeeps
<1>2. \A p : Load!Begun(p)' = Load!Begun(p) /\ Stage(p)' = Stage(p)
  BY <1>1 DEF Load!Begun, Stage
<1>3. Reading' /\ Domains' /\ Row'
  BY <1>1 DEF LoaderIInv, Reading, Domains, Row
<1>4. Budget'
  <2>1. BegunOnes' = BegunOnes
    BY <1>2 DEF BegunOnes
  <2> QED BY <1>1, <2>1 DEF LoaderIInv, Budget
<1>5. AllMade'
  BY <1>1, <1>2 DEF LoaderIInv, AllMade
<1>6. GdtEntries' /\ Sectors'
  BY <1>1, <1>2 DEF LoaderIInv, GdtEntries, Sectors
<1>7. Contents'
  BY <1>1, <1>2 DEF LoaderIInv, Contents, Got
<1>8. at = Load!Idle \/ \E pc \in Places, p \in Applications : Load!AtPc(pc, p) /\ Load!Begun(p)'
  BY <1>2 DEF LoaderIInv, Position
<1> QED BY <1>3, <1>4, <1>5, <1>6, <1>7, <1>8

LEMMA RestIsNat ==
    ASSUME Load!LoaderAssumption, NEW n \in CoreSizes
    PROVE  Load!Rest(n) \in Nat /\ (1 + Load!Rest(n)) * SectorBytes >= n /\ Load!Rest(n) * SectorBytes < n
<1>1. PICK d \in Nat : d = SectorBytes /\ d > 0
  BY Sizes
<1>2. n \in Nat /\ n > 0
  <2>1. n \in Load!Number
    BY Zenon DEF Load!LoaderAssumption
  <2> QED BY <2>1 DEF Load!Number
<1>3. PICK k \in Nat, r \in Nat : /\ k = n \div d /\ r = n % d /\ r < d /\ n = (k * d) + r
  BY <1>1, <1>2, Disk!Divide
<1>4. PICK m \in Nat : m = k * d
  BY <1>1
<1>5. CASE r = 0
  <2>1. k > 0
    BY <1>2, <1>3, <1>5
  <2>2. Load!Rest(n) = k - 1
    BY <1>1, <1>3, <1>5 DEF Load!Rest
  <2>3. (k - 1) * d = m - d
    BY <1>1, <1>4
  <2> QED BY <1>1, <1>3, <1>4, <1>5, <2>1, <2>2, <2>3
<1>6. CASE r > 0
  <2>1. Load!Rest(n) = k
    BY <1>1, <1>3, <1>6 DEF Load!Rest
  <2>2. (1 + k) * d = m + d
    BY <1>1, <1>4
  <2> QED BY <1>1, <1>3, <1>4, <1>6, <2>1, <2>2
<1> QED BY <1>3, <1>5, <1>6

LEMMA ReadCoreKeeps ==
    ASSUME Load!LoaderAssumption, LoaderIInv, Load!ReadCore
    PROVE  LoaderIInv'
<1>1. LoaderKeeps
  BY DEF Load!ReadCore, LoaderKeeps
<1>2. KernelRead'
  <2>1. core.got \in Nat /\ core.ecx \in Nat /\ core.ecx # 0 /\ core.size \in CoreSizes
        /\ core.got + core.ecx = 1 + Load!Rest(core.size)
    BY DEF LoaderIInv, KernelRead, Load!ReadCore
  <2>2. Load!Rest(core.size) \in Nat
    BY <2>1, RestIsNat
  <2>3. core'.size = core.size /\ core'.got = core.got + 1 /\ core'.ecx = core.ecx - 1
    BY DEF Load!ReadCore
  <2> QED BY <2>1, <2>2, <2>3 DEF KernelRead
<1>3. at = Load!Idle /\ at' = Load!Idle
  BY DEF LoaderIInv, Position, Load!ReadCore
<1>4. Position'
  BY <1>3 DEF Position
<1> QED BY <1>1, <1>2, <1>4, Untouched DEF LoaderIInv

-----------------------------------------------------------------------------
(* Memory for everybody.                                                   *)

LEMMA Enough ==
    ASSUME Load!LoaderAssumption
    PROVE  /\ Most \in Nat /\ \A h \in Headers : Load!Demand(h) <= Most
           /\ Cardinality(Applications) \in Nat
           /\ Start + (Cardinality(Applications) * Most) <= Load!Space
<1>1. \E most \in 0 .. Load!Space :
        /\ \A h \in Headers : Load!Demand(h) <= most
        /\ Start + Cardinality(Applications) * most <= Load!Space
  BY SameCardinality DEF Load!LoaderAssumption
<1>2. /\ Most \in 0 .. Load!Space
      /\ \A h \in Headers : Load!Demand(h) <= Most
      /\ Start + Cardinality(Applications) * Most <= Load!Space
  BY <1>1 DEF Most
<1>3. Cardinality(Applications) \in Nat
  BY FS_CardinalityType, SameFinite DEF Load!LoaderAssumption
<1> QED BY <1>2, <1>3, Sizes

LEMMA BegunCount ==
    ASSUME Load!LoaderAssumption
    PROVE  /\ IsFiniteSet(BegunOnes) /\ Cardinality(BegunOnes) \in Nat
           /\ Start + (Cardinality(BegunOnes) * Most) <= Load!Space
<1>1. IsFiniteSet(Applications)
  BY SameFinite DEF Load!LoaderAssumption
<1>2. BegunOnes \subseteq Applications
  BY DEF BegunOnes
<1>3. /\ IsFiniteSet(BegunOnes) /\ Cardinality(BegunOnes) \in Nat
      /\ Cardinality(BegunOnes) <= Cardinality(Applications)
  BY <1>1, <1>2, FS_Subset, FS_CardinalityType
<1>4. PICK a \in Nat, b \in Nat, m \in Nat : /\ a = Cardinality(BegunOnes) /\ b = Cardinality(Applications)
                                            /\ m = Most /\ a <= b
  BY <1>3, Enough
<1>5. a * m <= b * m /\ a * m \in Nat /\ b * m \in Nat
  BY <1>4
<1>6. Start + (b * m) <= Load!Space /\ Start \in Nat /\ Load!Space \in Nat
  BY <1>4, Enough, Sizes
<1>7. Start + (a * m) <= Load!Space
  BY <1>5, <1>6
<1> QED BY <1>3, <1>4, <1>7

LEMMA LeftIsNat ==
    ASSUME Load!LoaderAssumption, NEW o \in Headers, NEW pc
    PROVE  Left(pc, o) \in Nat
<1>1. PICK m \in Nat, u \in Nat, b \in Nat : m = o.stack_len * Unit /\ u = Unit /\ b = TssBytes
  BY HeaderFacts, Sizes
<1>2. m + 3 \in Nat /\ 3 * u + 3 \in Nat /\ b + 3 \in Nat
  OBVIOUS
<1> QED BY <1>1, <1>2 DEF Left

(* The pointer never passes the end of the linear space.                   *)
LEMMA RamFits ==
    ASSUME Load!LoaderAssumption, LoaderIInv
    PROVE  ram_alloc \in Nat /\ ram_alloc <= Load!Space /\ Start <= ram_alloc /\ Start \in Nat
<1>1. ram_alloc \in Nat /\ Start \in Nat /\ Load!Space \in Nat /\ Start <= ram_alloc
  BY Sizes DEF LoaderIInv, Budget
<1>2. PICK c \in Nat : c = Cardinality(BegunOnes) * Most
  BY BegunCount, Enough
<1>3. Start + c <= Load!Space
  BY <1>2, BegunCount
<1>4. PICK left : left = IF at = Load!Idle THEN 0 ELSE Left(at.pc, Original(header[at.p]))
  OBVIOUS
<1>5. ram_alloc + left <= Start + c
  BY <1>2, <1>4 DEF LoaderIInv, Budget
<1>6. left \in Nat
  <2>1. CASE at = Load!Idle
    BY <1>4, <2>1
  <2>2. CASE at # Load!Idle
    <3>1. PICK pc \in Places, p \in Applications : Load!AtPc(pc, p) /\ Load!Begun(p)
      BY <2>2 DEF LoaderIInv, Position
    <3>2. at.pc = pc /\ at.p = p
      BY <3>1 DEF Load!AtPc
    <3>3. Made(Stage(p), p, header[p], ldt[p], tcb[p], tss[p], Load!ToSet(block))
      BY DEF LoaderIInv, AllMade
    <3>4. Original(header[p]) \in Headers
      BY <3>3 DEF Made, HeaderAt
    <3>5. Left(pc, Original(header[p])) \in Nat
      BY <3>4, LeftIsNat
    <3> QED BY <1>4, <2>2, <3>2, <3>5
  <2> QED BY <2>1, <2>2
<1> QED BY <1>1, <1>3, <1>5, <1>6

-----------------------------------------------------------------------------
(* A program is begun.                                                     *)

LEMMA AfterNumbers ==
    ASSUME NEW a \in Nat, NEW n \in Nat
    PROVE  Load!After(a, n) \in Nat /\ a + n <= Load!After(a, n) /\ Load!After(a, n) <= a + n + 3
BY Alignment DEF Load!After

(* What an untouched header says.                                          *)
LEMMA StillOriginal ==
    ASSUME Load!LoaderAssumption, AllMade, NEW p \in Applications, Stage(p) \in {"none", "read", "segments"}
    PROVE  header[p] \in Headers /\ Original(header[p]) = header[p]
           /\ ldt[p] \in Seq(LdtEntries) /\ Len(ldt[p]) = 0
<1>1. Made(Stage(p), p, header[p], ldt[p], tcb[p], tss[p], Load!ToSet(block))
  BY DEF AllMade
<1> QED BY <1>1 DEF Made, HeaderAt, LdtAt

LEMMA BeginKeeps ==
    ASSUME Load!LoaderAssumption, LoaderIInv, NEW p \in Applications, Load!Begin(p), core' = core
    PROVE  LoaderIInv'
<1> DEFINE o == header[p]
           x == Load!After(ram_alloc, TcbBytes)
           y == Load!After(x, LdtBytes)
           n == Load!Rounded(o.size)
           top == Load!After(y, n)
           bt == Load!Block(p, "tcb", TcbBytes, ram_alloc)
           bl == Load!Block(p, "ldt", LdtBytes, x)
           bi == Load!Block(p, "image", n, y)
           s1 == Append(block, bt)
           s2 == Append(s1, bl)
           s3 == Append(s2, bi)
<1>1. at = Load!Idle /\ Stage(p) = "none" /\ ~Load!Begun(p) /\ core.ecx = 0
  BY DEF Load!Begin, Stage
<1>2. o \in Headers /\ Original(o) = o /\ ldt[p] \in Seq(LdtEntries) /\ Len(ldt[p]) = 0
  BY <1>1, StillOriginal DEF LoaderIInv
<1>3. o.size \in Load!Number /\ o.size \in Nat
  BY <1>2, HeaderFacts
<1>4. PICK q \in Nat : /\ q > 0 /\ n = q * SectorBytes /\ n \div SectorBytes = q /\ n \in Nat /\ n > 0
                       /\ o.size <= n /\ n < o.size + SectorBytes
  BY <1>3, Rounding
<1>5. /\ ram_alloc \in Nat /\ Start \in Nat /\ Start <= ram_alloc
      /\ TcbBytes \in Nat /\ TcbBytes > 0 /\ LdtBytes \in Nat /\ LdtBytes > 0
  BY RamFits, Sizes
<1> HIDE DEF n
<1>6. x \in Nat /\ ram_alloc + TcbBytes <= x /\ x <= ram_alloc + TcbBytes + 3
  BY <1>5, AfterNumbers
<1>7. y \in Nat /\ x + LdtBytes <= y /\ y <= x + LdtBytes + 3
  BY <1>5, <1>6, AfterNumbers
<1>8. top \in Nat /\ y + n <= top /\ top <= y + n + 3
  BY <1>4, <1>7, AfterNumbers
<1>9. block \in Seq(Blocks) /\ Laid(block, ram_alloc) /\ Once(Load!ToSet(block))
  BY DEF LoaderIInv, Row, Laid
<1>10. Kinds(Load!ToSet(block), p) = {}
  BY <1>1 DEF Kinds, Load!Begun
<1> HIDE DEF x, y, top
<1>11. bt \in Blocks /\ bl \in Blocks /\ bi \in Blocks
  BY <1>4, <1>5, <1>6, <1>7 DEF Blocks, Whats, Load!Number, Load!Block
<1>12. /\ bt.p = p /\ bt.what = "tcb" /\ bt.base = ram_alloc /\ bt.bytes = TcbBytes
       /\ bl.p = p /\ bl.what = "ldt" /\ bl.base = x /\ bl.bytes = LdtBytes
       /\ bi.p = p /\ bi.what = "image" /\ bi.base = y /\ bi.bytes = n
  BY DEF Load!Block
<1>13. block' = s3 /\ ram_alloc' = top
  <2>1. block' = block \o <<bt, bl, bi>> /\ ram_alloc' = top
    BY DEF Load!Begin, x, y, top, n
  <2> QED BY <1>9, <1>11, <2>1, ThreeMore
<1> HIDE DEF bt, bl, bi
<1>14. /\ Laid(s1, x) /\ Once(Load!ToSet(s1)) /\ Load!ToSet(s1) = Load!ToSet(block) \cup {bt}
       /\ Kinds(Load!ToSet(s1), p) = {"tcb"}
  <2>1. bt.what \notin Kinds(Load!ToSet(block), bt.p) /\ bt.base + bt.bytes <= x /\ ram_alloc <= bt.base
    BY <1>5, <1>6, <1>10, <1>12
  <2>2. /\ Laid(Append(block, bt), x) /\ Once(Load!ToSet(Append(block, bt)))
        /\ Load!ToSet(Append(block, bt)) = Load!ToSet(block) \cup {bt}
        /\ Kinds(Load!ToSet(Append(block, bt)), bt.p) = Kinds(Load!ToSet(block), bt.p) \cup {bt.what}
    BY <1>5, <1>6, <1>9, <1>11, <2>1, Allocates
  <2> QED BY <1>10, <1>12, <2>2
<1> HIDE DEF s1
<1>15. /\ Laid(s2, y) /\ Once(Load!ToSet(s2)) /\ Load!ToSet(s2) = Load!ToSet(s1) \cup {bl}
       /\ Kinds(Load!ToSet(s2), p) = {"tcb", "ldt"}
  <2>1. bl.what \notin Kinds(Load!ToSet(s1), bl.p) /\ bl.base + bl.bytes <= y /\ x <= bl.base
        /\ Start <= x
    BY <1>5, <1>6, <1>7, <1>12, <1>14
  <2>2. /\ Laid(Append(s1, bl), y) /\ Once(Load!ToSet(Append(s1, bl)))
        /\ Load!ToSet(Append(s1, bl)) = Load!ToSet(s1) \cup {bl}
        /\ Kinds(Load!ToSet(Append(s1, bl)), bl.p) = Kinds(Load!ToSet(s1), bl.p) \cup {bl.what}
    BY <1>5, <1>6, <1>7, <1>11, <1>14, <2>1, Allocates
  <2> QED BY <1>12, <1>14, <2>2
<1> HIDE DEF s2
<1>16. /\ Laid(s3, top) /\ Once(Load!ToSet(s3)) /\ Load!ToSet(s3) = Load!ToSet(s2) \cup {bi}
       /\ Kinds(Load!ToSet(s3), p) = {"tcb", "ldt", "image"}
  <2>1. bi.what \notin Kinds(Load!ToSet(s2), bi.p) /\ bi.base + bi.bytes <= top /\ y <= bi.base
        /\ Start <= y
    BY <1>5, <1>6, <1>7, <1>8, <1>12, <1>15
  <2>2. /\ Laid(Append(s2, bi), top) /\ Once(Load!ToSet(Append(s2, bi)))
        /\ Load!ToSet(Append(s2, bi)) = Load!ToSet(s2) \cup {bi}
        /\ Kinds(Load!ToSet(Append(s2, bi)), bi.p) = Kinds(Load!ToSet(s2), bi.p) \cup {bi.what}
    BY <1>5, <1>7, <1>8, <1>11, <1>15, <2>1, Allocates
  <2> QED BY <1>12, <1>15, <2>2
<1> HIDE DEF s3
<1>17. Load!ToSet(block') = Load!ToSet(block) \cup {bt, bl, bi}
  BY <1>13, <1>14, <1>15, <1>16
<1>18. at' = [pc |-> "read", p |-> p]
  BY DEF Load!Begin
<1>19. /\ header' = header /\ ldt' = ldt /\ tss' = tss /\ mem' = mem /\ gdt' = gdt
       /\ tcb' = [tcb EXCEPT ![p] = [ldt |-> x, image |-> y]]
       /\ read' = [eax |-> 0, ebx |-> y, ecx |-> q]
  BY <1>4 DEF Load!Begin, x, y, n
<1>20. /\ DOMAIN tcb = Applications /\ DOMAIN header = Applications /\ DOMAIN ldt = Applications
       /\ DOMAIN tss = Applications
  BY DEF LoaderIInv, Domains
<1>21. tcb'[p] = [ldt |-> x, image |-> y] /\ \A r \in Applications \ {p} : tcb'[r] = tcb[r]
  BY <1>19, <1>20
<1>22. Concerns(p, {bt, bl, bi})
  <2>1. Whose(p) /\ Whose(p)'
    BY <1>1, <1>18 DEF Whose, Load!AtPc, Places
  <2> QED BY <1>12, <1>17, <1>19, <1>21, <2>1 DEF Concerns
<1>23. Load!Begun(p)' /\ Stage(p)' = "read"
  <2>1. Load!Begun(p)'
    BY <1>12, <1>17 DEF Load!Begun
  <2>2. at' # Load!Idle' /\ at'.p = p /\ at'.pc = "read"
    BY <1>18 DEF Load!Idle
  <2> QED BY <2>1, <2>2 DEF Stage
<1>24. Made("read", p, o, ldt[p], tcb'[p], tss[p], Load!ToSet(block'))
  <2>1. Kinds(Load!ToSet(block'), p) = BlocksAt("read")
    BY <1>13, <1>16 DEF BlocksAt
  <2>2. HeaderAt("read", o, Original(o))
    BY <1>2 DEF HeaderAt
  <2>3. \A b \in Load!ToSet(block') : b.p = p => BlockFits(b, tcb'[p], Original(o))
    <3> SUFFICES ASSUME NEW b \in Load!ToSet(block'), b.p = p
                 PROVE  BlockFits(b, tcb'[p], o)
      BY <1>2
    <3>1. b \in {bt, bl, bi}
      BY <1>1, <1>17 DEF Load!Begun
    <3> QED BY <1>12, <1>21, <3>1 DEF BlockFits, n
  <2>4. LdtAt("read", ldt[p], Load!ToSet(block'), p, tcb'[p], Original(o))
    BY <1>2 DEF LdtAt
  <2> QED BY <2>1, <2>2, <2>3, <2>4 DEF Made, TcbAt, TssAt
<1>25. AllMade'
  BY <1>19, <1>22, <1>23, <1>24, OthersMade DEF LoaderIInv
<1>26. GdtEntries'
  BY <1>1, <1>19, <1>22, SameEntries DEF LoaderIInv
<1>27. Sectors' /\ Contents'
  <2>1. Got("read", tcb[p], Original(header[p]))' = 0
    BY <1>7, <1>19, <1>21 DEF Got
  <2>2. Filled(mem, p, tcb'[p].image, 0)
    BY DEF Filled
  <2> QED BY <1>19, <1>22, <1>23, <2>1, <2>2, SameMemory DEF LoaderIInv
<1>28. Position'
  BY <1>1, <1>18, <1>23 DEF Position, Load!AtPc, Places
<1>29. Reading'
  <2>1. tcb'[p].image = y /\ header'[p].size = o.size /\ at'.pc = "read" /\ at'.p = p
    BY <1>18, <1>19, <1>21
  <2>2. read'.eax = 0 /\ read'.ebx = y /\ read'.ecx = q
    BY <1>19
  <2>3. 0 * SectorBytes = 0 /\ (0 + q) * SectorBytes = n
    BY <1>4, Sizes
  <2> QED BY <1>4, <1>7, <2>1, <2>2, <2>3 DEF Reading, n
<1>30. Budget'
  <2>1. BegunOnes' = BegunOnes \cup {p}
    BY <1>12, <1>17, <1>23 DEF BegunOnes, Load!Begun
  <2>2. p \notin BegunOnes
    BY <1>1 DEF BegunOnes
  <2>3. PICK c \in Nat : c = Cardinality(BegunOnes)
    BY BegunCount
  <2>4. Cardinality(BegunOnes') = c + 1
    BY <2>1, <2>2, <2>3, BegunCount, FS_AddElement
  <2>5. PICK m \in Nat : m = Most
    BY Enough
  <2>6. (c + 1) * m = (c * m) + m /\ c * m \in Nat
    OBVIOUS
  <2>7. ram_alloc <= Start + (c * m)
    BY <1>1, <2>3, <2>5, <1>5 DEF LoaderIInv, Budget
  <2>8. Load!Demand(o) <= m
    BY <1>2, <2>5, Enough
  <2>9. PICK k \in Nat, u \in Nat, z \in Nat, d \in Nat :
          /\ k = o.stack_len * Unit /\ u = Unit /\ z = TssBytes /\ d = SectorBytes
    BY <1>2, HeaderFacts, Sizes
  <2>10. Left("read", o) = (k + 3) + (3 * u + 3) + (z + 3)
    BY <2>9 DEF Left
  <2>11. Load!Demand(o) = (TcbBytes + 3) + (LdtBytes + 3) + (o.size + d + 3) + (k + 3) + (3 * u + 3) + (z + 3)
    BY <2>9 DEF Load!Demand
  <2>12. top <= (ram_alloc + TcbBytes + 3) + (LdtBytes + 3) + (o.size + d + 3)
    BY <1>3, <1>4, <1>5, <1>6, <1>7, <1>8, <2>9
  <2>13. top + Left("read", o) <= Start + ((c + 1) * m)
    BY <1>3, <1>5, <1>8, <2>6, <2>7, <2>8, <2>10, <2>11, <2>12
  <2>14. top >= Start
    BY <1>4, <1>5, <1>6, <1>7, <1>8
  <2>15. Original(header'[at'.p]) = o /\ at' # Load!Idle /\ at'.pc = "read"
    BY <1>2, <1>18, <1>19 DEF Load!Idle
  <2> QED BY <1>8, <1>13, <2>4, <2>5, <2>13, <2>14, <2>15 DEF Budget
<1>31. Domains'
  BY <1>19, <1>20 DEF Domains
<1>32. Row' /\ KernelRead'
  BY <1>13, <1>16 DEF LoaderIInv, Row, KernelRead
<1> QED BY <1>25, <1>26, <1>27, <1>28, <1>29, <1>30, <1>31, <1>32 DEF LoaderIInv

-----------------------------------------------------------------------------
(* A program goes on.                                                      *)

LEMMA MovesTo ==
    ASSUME LoaderIInv, NEW p \in Applications, NEW N, Concerns(p, N), Load!Begun(p), at # Load!Idle, core' = core,
           NEW pc \in Places, at' = [pc |-> pc, p |-> p]
    PROVE  /\ Stage(p)' = pc /\ Position' /\ BegunOnes' = BegunOnes
           /\ at' # Load!Idle' /\ at'.pc = pc /\ at'.p = p
<1>1. Load!Begun(p)' /\ BegunOnes' = BegunOnes
  BY DEF Concerns, Load!Begun, BegunOnes
<1>2. at' # Load!Idle' /\ at'.pc = pc /\ at'.p = p
  BY DEF Load!Idle, Places
<1>3. Stage(p)' = pc
  BY <1>1, <1>2 DEF Stage
<1>4. core.ecx = 0
  BY DEF LoaderIInv, Position
<1>5. Position'
  BY <1>1, <1>4 DEF Position, Load!AtPc
<1> QED BY <1>1, <1>2, <1>3, <1>5

(* Where the loader is with p.                                             *)
LEMMA Now ==
    ASSUME LoaderIInv, NEW p \in Applications, NEW pc \in Places, Load!AtPc(pc, p)
    PROVE  /\ Stage(p) = pc /\ Load!Begun(p) /\ at # Load!Idle /\ at.pc = pc /\ at.p = p
           /\ Made(pc, p, header[p], ldt[p], tcb[p], tss[p], Load!ToSet(block))
<1>1. Stage(p) = pc /\ Load!Begun(p)
  BY StageOf DEF LoaderIInv
<1>2. at # Load!Idle /\ at.pc = pc /\ at.p = p
  BY IdleOrNot DEF Places
<1>3. Made(Stage(p), p, header[p], ldt[p], tcb[p], tss[p], Load!ToSet(block))
  BY DEF LoaderIInv, AllMade
<1> QED BY <1>1, <1>2, <1>3

LEMMA BlockOf ==
    ASSUME Load!LoaderAssumption, LoaderIInv, NEW p \in Applications, NEW what \in BlocksAt(Stage(p))
    PROVE  \E b \in Load!ToSet(block) :
             /\ b.p = p /\ b.what = what /\ BlockFits(b, tcb[p], Original(header[p]))
             /\ b.base \in Nat /\ b.bytes \in Nat /\ b.bytes > 0
             /\ b.base + b.bytes <= ram_alloc /\ Start <= b.base
<1>1. Made(Stage(p), p, header[p], ldt[p], tcb[p], tss[p], Load!ToSet(block))
  BY DEF LoaderIInv, AllMade
<1>2. what \in Kinds(Load!ToSet(block), p)
  BY <1>1 DEF Made
<1>3. PICK b \in Load!ToSet(block) : b.p = p /\ b.what = what
  BY <1>2, HasKind
<1>4. BlockFits(b, tcb[p], Original(header[p]))
  BY <1>1, <1>3 DEF Made
<1>5. Laid(block, ram_alloc) /\ block \in Seq(Blocks)
  BY DEF LoaderIInv, Row, Laid
<1>6. PICK i \in 1 .. Len(block) : b = block[i]
  BY <1>5 DEF Load!ToSet
<1>7. b.base \in Nat /\ b.bytes \in Nat /\ b.bytes > 0
  BY <1>5, <1>6, BlockNumbers
<1>8. b.base + b.bytes <= ram_alloc /\ Start <= b.base
  BY <1>5, <1>6 DEF Laid
<1> QED BY <1>3, <1>4, <1>7, <1>8

LEMMA Identity ==
    ASSUME Load!LoaderAssumption, LoaderIInv, NEW p \in Applications
    PROVE  /\ Original(header[p]) \in Headers /\ header[p].size = Original(header[p]).size
           /\ header[p].size \in Load!Number /\ header[p].size \in Nat
<1>1. Made(Stage(p), p, header[p], ldt[p], tcb[p], tss[p], Load!ToSet(block))
  BY DEF LoaderIInv, AllMade
<1>2. Original(header[p]) \in Headers /\ header[p].size = Original(header[p]).size
  BY <1>1 DEF Made, HeaderAt
<1> QED BY <1>2, HeaderFacts

(* The program's image.                                                    *)
LEMMA ImageBlock ==
    ASSUME Load!LoaderAssumption, LoaderIInv, NEW p \in Applications, Stage(p) # "none"
    PROVE  \E b \in Load!ToSet(block) :
             /\ b.p = p /\ b.what = "image" /\ b.base = tcb[p].image
             /\ b.bytes = Load!Rounded(header[p].size)
             /\ b.base \in Nat /\ b.bytes \in Nat /\ b.bytes > 0
<1>1. "image" \in BlocksAt(Stage(p))
  BY DEF BlocksAt
<1> QED BY <1>1, BlockOf, Identity DEF BlockFits

LEMMA ReadSectorKeeps ==
    ASSUME Load!LoaderAssumption, LoaderIInv, NEW p \in Applications, Load!ReadSector(p), core' = core
    PROVE  LoaderIInv'
<1> DEFINE here == read.ebx .. read.ebx + SectorBytes - 1
<1>1. /\ Stage(p) = "read" /\ Load!Begun(p) /\ at # Load!Idle /\ at.pc = "read" /\ at.p = p
      /\ Made("read", p, header[p], ldt[p], tcb[p], tss[p], Load!ToSet(block))
  BY Now DEF Load!ReadSector, Places
<1>2. /\ ram_alloc' = ram_alloc /\ block' = block /\ header' = header /\ ldt' = ldt
      /\ gdt' = gdt /\ tcb' = tcb /\ tss' = tss
  BY DEF Load!ReadSector
<1>3. PICK b \in Load!ToSet(block) :
        /\ b.p = p /\ b.what = "image" /\ b.base = tcb[p].image
        /\ b.bytes = Load!Rounded(header[p].size)
        /\ b.base \in Nat /\ b.bytes \in Nat /\ b.bytes > 0
  BY <1>1, ImageBlock
<1>4. PICK eax \in Nat, ecx \in Nat, d \in Nat, base \in Nat, n \in Nat :
        /\ eax = read.eax /\ ecx = read.ecx /\ d = SectorBytes /\ base = tcb[p].image
        /\ n = Load!Rounded(header[p].size) /\ ecx > 0 /\ d > 0
        /\ (eax + ecx) * d = n
        /\ b.base = base /\ b.bytes = n
        /\ read.ebx = base + eax * d
  BY <1>1, <1>3, Sizes DEF LoaderIInv, Reading
<1>5. PICK e \in Nat : e = eax * d
  BY <1>4
<1>6. /\ (eax + 1) * d = e + d /\ e + d <= n
      /\ ((eax + 1) + (ecx - 1)) * d = n
      /\ ecx = 1 => e + d = n
  <2>1. PICK k \in Nat : ecx = 1 + k
    <3>1. ecx > 0
      BY <1>4
    <3>2. ecx - 1 \in Nat /\ ecx = 1 + (ecx - 1)
      BY <3>1
    <3> QED BY <3>2
  <2>2. (eax + ecx) * d = e + d + (k * d) /\ k * d \in Nat
    BY <1>5, <2>1
  <2>3. ecx = 1 => k * d = 0
    BY <2>1
  <2>4. (eax + 1) * d = e + d
    BY <1>5
  <2>5. (eax + 1) + (ecx - 1) = eax + ecx
    BY <1>4
  <2> QED BY <1>4, <2>2, <2>3, <2>4, <2>5
<1>7. read.ebx = base + e /\ here = base + e .. base + e + d - 1
  BY <1>4, <1>5
<1>8. /\ DOMAIN mem' = DOMAIN mem \cup here
      /\ \A a \in here : mem'[a] = [p |-> p, byte |-> e + a - (base + e)]
      /\ \A a \in DOMAIN mem : a \notin here => mem'[a] = mem[a]
  BY <1>4, <1>5, <1>7 DEF Load!ReadSector
<1>9. read' = [eax |-> eax + 1, ebx |-> base + e + d, ecx |-> ecx - 1]
  BY <1>4, <1>7 DEF Load!ReadSector
<1> HIDE DEF here
<1>10. e + d <= n /\ d > 0 /\ b.base = base /\ b.bytes = n
  BY <1>4, <1>6
<1>11. PICK pc \in Places : /\ at' = [pc |-> pc, p |-> p]
                            /\ pc = IF ecx = 1 THEN "segments" ELSE "read"
  <2>1. at = [pc |-> "read", p |-> p]
    BY DEF Load!ReadSector, Load!AtPc
  <2>2. at' = IF ecx = 1 THEN [at EXCEPT !.pc = "segments"] ELSE at
    BY <1>4 DEF Load!ReadSector
  <2> QED BY <2>1, <2>2 DEF Places
<1>12. Concerns(p, {})
  <2>1. Whose(p) /\ Whose(p)'
    BY <1>11 DEF Whose, Load!AtPc, Load!ReadSector, Places
  <2> QED BY <1>2, <2>1 DEF Concerns
<1>13. /\ Stage(p)' = pc /\ Position' /\ BegunOnes' = BegunOnes
       /\ at' # Load!Idle' /\ at'.pc = pc /\ at'.p = p
  BY <1>1, <1>11, <1>12, MovesTo
<1>14. AllMade'
  <2>1. Made(pc, p, header[p], ldt[p], tcb[p], tss[p], Load!ToSet(block))
    BY <1>1, <1>11 DEF Made, BlocksAt, HeaderAt, LdtAt, TcbAt, TssAt
  <2> QED BY <1>2, <1>12, <1>13, <2>1, OthersMade DEF LoaderIInv
<1>15. GdtEntries'
  BY <1>1, <1>2, <1>12, SameEntries DEF LoaderIInv
<1>16. Sectors'
  <2> SUFFICES ASSUME NEW a \in DOMAIN mem'
               PROVE  a \in Nat /\ InImage(a, mem', Load!ToSet(block))
    BY <1>2 DEF Sectors
  <2>1. CASE a \in here
    <3>1. a \in Nat /\ a \in b.base .. b.base + b.bytes - 1
      BY <1>7, <1>10, <2>1
    <3>2. mem'[a].p = p
      BY <1>8, <2>1
    <3> QED BY <1>3, <3>1, <3>2 DEF InImage
  <2>2. CASE a \notin here
    <3>1. a \in DOMAIN mem /\ mem'[a] = mem[a]
      BY <1>8, <2>2
    <3> QED BY <3>1 DEF LoaderIInv, Sectors, InImage
  <2> QED BY <2>1, <2>2
<1>17. Filled(mem', p, base, e + d)
  <2>1. Filled(mem, p, base, e)
    <3>1. Got("read", tcb[p], Original(header[p])) = e
      BY <1>4, <1>7 DEF Got
    <3> QED BY <1>1, <1>4, <3>1 DEF LoaderIInv, Contents
  <2> SUFFICES ASSUME NEW i \in 0 .. (e + d) - 1
               PROVE  base + i \in DOMAIN mem' /\ mem'[base + i] = [p |-> p, byte |-> i]
    BY DEF Filled
  <2>2. CASE i < e
    <3>1. i \in 0 .. e - 1 /\ base + i \notin here
      BY <1>7, <2>2
    <3> QED BY <1>8, <2>1, <3>1 DEF Filled
  <2>3. CASE i >= e
    <3>1. base + i \in here /\ e + (base + i) - (base + e) = i
      BY <1>7, <1>10, <2>3
    <3> QED BY <1>8, <3>1
  <2> QED BY <2>2, <2>3
<1>18. ASSUME NEW q \in Applications, q # p, Stage(q)' # "none"
       PROVE  Filled(mem, q, tcb[q].image, Got(Stage(q), tcb[q], Original(header[q])))'
  <2>1. Stage(q) = "ready" /\ Stage(q)' = "ready"
    BY <1>12, <1>18, OtherStages
  <2>2. PICK c \in Load!ToSet(block) :
          /\ c.p = q /\ c.what = "image" /\ c.base = tcb[q].image
          /\ c.bytes = Load!Rounded(header[q].size)
          /\ c.base \in Nat /\ c.bytes \in Nat /\ c.bytes > 0
    BY <2>1, ImageBlock
  <2>3. Filled(mem, q, c.base, c.bytes)
    BY <2>1, <2>2, Identity DEF LoaderIInv, Contents, Got
  <2>4. b.base + b.bytes <= c.base \/ c.base + c.bytes <= b.base
    BY <1>3, <1>18, <2>2, Apart DEF LoaderIInv, Row
  <2>5. ASSUME NEW i \in 0 .. c.bytes - 1
        PROVE  c.base + i \notin here
    BY <1>7, <1>10, <2>2, <2>4
  <2>6. Filled(mem', q, c.base, c.bytes)
    BY <1>8, <2>3, <2>5 DEF Filled
  <2>7. Got(Stage(q), tcb[q], Original(header[q]))' = c.bytes /\ tcb'[q].image = c.base
    BY <1>2, <2>1, <2>2, Identity DEF Got
  <2> QED BY <2>6, <2>7
<1>19. Filled(mem, p, tcb[p].image, Got(Stage(p), tcb[p], Original(header[p])))'
  <2>1. Got(Stage(p), tcb[p], Original(header[p]))' = e + d
    <3>1. CASE ecx = 1
      BY <1>2, <1>4, <1>6, <1>11, <1>13, <3>1, Identity DEF Got
    <3>2. CASE ecx # 1
      BY <1>2, <1>4, <1>9, <1>11, <1>13, <3>2 DEF Got
    <3> QED BY <3>1, <3>2
  <2> QED BY <1>2, <1>4, <1>17, <2>1
<1>20. Contents'
  BY <1>18, <1>19 DEF Contents
<1>21. Reading'
  <2>1. /\ read'.eax = eax + 1 /\ read'.ebx = base + (e + d) /\ read'.ecx = ecx - 1
        /\ tcb'[p].image = base /\ Load!Rounded(header'[p].size) = n
    BY <1>2, <1>4, <1>9
  <2>2. (read'.eax + read'.ecx) * SectorBytes = n /\ read'.ebx = base + read'.eax * SectorBytes
    BY <1>4, <1>6, <2>1
  <2>3. ecx - 1 \in Nat /\ base + (e + d) \in Nat
    BY <1>4
  <2> QED BY <1>2, <1>4, <1>11, <1>13, <2>1, <2>2, <2>3 DEF Reading
<1>22. Budget'
  <2>1. Left(pc, Original(header[p])) = Left("read", Original(header[p]))
    BY <1>11 DEF Left
  <2> QED BY <1>1, <1>2, <1>13, <2>1 DEF LoaderIInv, Budget
<1>23. Domains' /\ Row' /\ KernelRead'
  BY <1>2 DEF LoaderIInv, Domains, Row, KernelRead
<1> QED BY <1>13, <1>14, <1>15, <1>16, <1>20, <1>21, <1>22, <1>23 DEF LoaderIInv

-----------------------------------------------------------------------------
(* Segments.                                                               *)

LEMMA FourMore ==
    ASSUME NEW S, NEW s \in Seq(S), NEW a \in S, NEW b \in S, NEW c \in S, NEW d \in S,
           Len(s) = 0
    PROVE  /\ s \o <<a, b, c, d>> \in Seq(S) /\ Len(s \o <<a, b, c, d>>) = 4
           /\ (s \o <<a, b, c, d>>)[1] = a /\ (s \o <<a, b, c, d>>)[2] = b
           /\ (s \o <<a, b, c, d>>)[3] = c /\ (s \o <<a, b, c, d>>)[4] = d
<1>1. s = << >>
  OBVIOUS
<1>2. s \o <<a, b, c, d>> = <<a, b, c, d>>
  BY <1>1
<1> QED BY <1>2

LEMMA OneMore ==
    ASSUME NEW S, NEW s \in Seq(S), NEW x \in S, NEW t, t = Append(s, x),
           NEW n \in Nat, n = Len(s)
    PROVE  t \in Seq(S) /\ Len(t) = n + 1 /\ t[n + 1] = x /\ \A i \in 1 .. n : t[i] = s[i]
OBVIOUS

LEMMA ThreeMoreAt ==
    ASSUME NEW S, NEW s \in Seq(S), NEW a \in S, NEW b \in S, NEW c \in S, Len(s) = 4
    PROVE  /\ s \o <<a, b, c>> \in Seq(S) /\ Len(s \o <<a, b, c>>) = 7
           /\ \A i \in 1 .. 4 : (s \o <<a, b, c>>)[i] = s[i]
           /\ (s \o <<a, b, c>>)[5] = a /\ (s \o <<a, b, c>>)[6] = b
           /\ (s \o <<a, b, c>>)[7] = c
<1>1. PICK r, q, t : r = Append(s, a) /\ q = Append(r, b) /\ t = Append(q, c)
  OBVIOUS
<1>2. t = s \o <<a, b, c>>
  BY <1>1, ThreeMore
<1>3. r \in Seq(S) /\ Len(r) = 5 /\ r[5] = a /\ \A i \in 1 .. 4 : r[i] = s[i]
  <2>1. /\ r \in Seq(S) /\ Len(r) = 4 + 1 /\ r[4 + 1] = a
        /\ \A i \in 1 .. 4 : r[i] = s[i]
    <3>1. r = Append(s, a) /\ 4 \in Nat /\ 4 = Len(s)
      BY <1>1
    <3> QED BY <3>1, OneMore
  <2> QED BY <2>1
<1>4. q \in Seq(S) /\ Len(q) = 6 /\ q[6] = b /\ \A i \in 1 .. 5 : q[i] = r[i]
  <2>1. /\ q \in Seq(S) /\ Len(q) = 5 + 1 /\ q[5 + 1] = b
        /\ \A i \in 1 .. 5 : q[i] = r[i]
    BY <1>1, <1>3, OneMore
  <2> QED BY <2>1
<1>5. t \in Seq(S) /\ Len(t) = 7 /\ t[7] = c /\ \A i \in 1 .. 6 : t[i] = q[i]
  <2>1. /\ t \in Seq(S) /\ Len(t) = 6 + 1 /\ t[6 + 1] = c
        /\ \A i \in 1 .. 6 : t[i] = q[i]
    BY <1>1, <1>4, OneMore
  <2> QED BY <2>1
<1>6. t[5] = a /\ t[6] = b /\ \A i \in 1 .. 4 : t[i] = s[i]
  BY <1>3, <1>4, <1>5
<1> QED BY <1>2, <1>5, <1>6

LEMMA SegmentType ==
    ASSUME NEW base \in Int, NEW limit \in Int, NEW g \in BOOLEAN, NEW down \in BOOLEAN,
           NEW dpl \in Nat
    PROVE  Load!Segment(base, limit, g, down, dpl) \in LdtEntries
BY DEF Load!Segment, LdtEntries

LEMMA StackType ==
    ASSUME Load!LoaderAssumption, NEW low \in Nat, NEW n \in Nat, NEW bytes \in Nat, NEW level \in Nat
    PROVE  Load!Segment(Load!StackBase(low, bytes) % Load!Space, Load!DownUnits(n), TRUE, TRUE, level) \in LdtEntries
<1>1. PICK space \in Nat, f \in Nat : space = Load!Space /\ space > 0 /\ f = Fields
  BY Sizes
<1>2. (low + bytes) % space \in Int /\ (f - 1) - n \in Int
  BY <1>1
<1> QED BY <1>1, <1>2, SegmentType DEF Load!StackBase, Load!DownUnits

LEMMA MakeSegmentsKeeps ==
    ASSUME Load!LoaderAssumption, LoaderIInv, NEW p \in Applications, Load!MakeSegments(p), core' = core
    PROVE  LoaderIInv'
<1> DEFINE o == header[p]
           t == tcb[p]
           k == o.stack_len * Unit
           b == Load!Block(p, "stack3", k, ram_alloc)
           top == Load!After(ram_alloc, k)
           d1 == Load!Segment(t.image, o.head_len - 1, FALSE, FALSE, 3)
           d2 == Load!Segment(t.image + o.code_seg, o.code_len - 1, FALSE, FALSE, 3)
           d3 == Load!Segment(t.image + o.data_seg, o.data_len - 1, FALSE, FALSE, 3)
           d4 == Load!Segment(Load!StackBase(ram_alloc, k) % Load!Space, Load!DownUnits(o.stack_len), TRUE, TRUE, 3)
           l == ldt'[p]
           h == header'[p]
<1>1. /\ Stage(p) = "segments" /\ Load!Begun(p) /\ at # Load!Idle /\ at.pc = "segments" /\ at.p = p
      /\ Made("segments", p, o, ldt[p], t, tss[p], Load!ToSet(block))
  BY Now DEF Load!MakeSegments, Places
<1>2. o \in Headers /\ Original(o) = o /\ ldt[p] \in Seq(LdtEntries) /\ Len(ldt[p]) = 0
  BY <1>1, StillOriginal DEF LoaderIInv
<1>3. /\ DOMAIN tcb = Applications /\ DOMAIN header = Applications /\ DOMAIN ldt = Applications
      /\ DOMAIN tss = Applications
  BY DEF LoaderIInv, Domains
<1>4. /\ ldt' = [ldt EXCEPT ![p] = @ \o <<d1, d2, d3, d4>>]
      /\ header' = [header EXCEPT ![p] =
            [@ EXCEPT !.head_len = Load!Selector(0, 3), !.code_seg = Load!Selector(1, 3),
                      !.data_seg = Load!Selector(2, 3), !.stack_seg = Load!Selector(3, 3)]]
      /\ block' = Append(block, b) /\ ram_alloc' = top
      /\ at' = [at EXCEPT !.pc = "salt"] /\ at = [pc |-> "segments", p |-> p]
      /\ mem' = mem /\ read' = read /\ gdt' = gdt /\ tcb' = tcb /\ tss' = tss
  BY <1>2 DEF Load!MakeSegments, Load!AtPc
<1>5. /\ o.stack_len \in Nat /\ k \in Nat /\ k > 0 /\ o.head_len \in Nat /\ o.code_seg \in Nat
      /\ o.code_len \in Nat /\ o.data_seg \in Nat /\ o.data_len \in Nat
  BY <1>2, HeaderFacts
<1>6. t.image \in Nat
  BY <1>1, ImageBlock
<1>7. ram_alloc \in Nat /\ Start \in Nat /\ Start <= ram_alloc
  BY RamFits
<1> HIDE DEF k
<1>8. top \in Nat /\ ram_alloc + k <= top /\ top <= ram_alloc + k + 3
  BY <1>5, <1>7, AfterNumbers
<1> HIDE DEF top
<1>9. b \in Blocks /\ b.p = p /\ b.what = "stack3" /\ b.base = ram_alloc /\ b.bytes = k
  BY <1>5, <1>7 DEF Load!Block, Blocks, Whats, Load!Number
<1> HIDE DEF b
<1>10. /\ Laid(block', top) /\ Once(Load!ToSet(block')) /\ Load!ToSet(block') = Load!ToSet(block) \cup {b}
       /\ Kinds(Load!ToSet(block'), p) = {"tcb", "ldt", "image", "stack3"}
  <2>1. Kinds(Load!ToSet(block), p) = {"tcb", "ldt", "image"}
    BY <1>1 DEF Made, BlocksAt
  <2>2. b.what \notin Kinds(Load!ToSet(block), b.p) /\ b.base + b.bytes <= top /\ ram_alloc <= b.base
    BY <1>7, <1>8, <1>9, <2>1
  <2>3. Laid(block, ram_alloc) /\ Once(Load!ToSet(block))
    BY DEF LoaderIInv, Row
  <2>4. /\ Laid(Append(block, b), top) /\ Once(Load!ToSet(Append(block, b)))
        /\ Load!ToSet(Append(block, b)) = Load!ToSet(block) \cup {b}
        /\ Kinds(Load!ToSet(Append(block, b)), b.p) = Kinds(Load!ToSet(block), b.p) \cup {b.what}
    BY <1>7, <1>8, <1>9, <2>2, <2>3, Allocates
  <2> QED BY <1>4, <1>9, <2>1, <2>4
<1>11. at' = [pc |-> "salt", p |-> p] /\ "salt" \in Places
  BY <1>4 DEF Places
<1>12. \A q \in Applications \ {p} : header'[q] = header[q] /\ ldt'[q] = ldt[q]
  BY <1>3, <1>4
<1>13. Concerns(p, {b})
  <2>1. Whose(p) /\ Whose(p)'
    BY <1>11 DEF Whose, Load!AtPc, Load!MakeSegments, Places
  <2> QED BY <1>4, <1>9, <1>10, <1>12, <2>1 DEF Concerns
<1>14. /\ Stage(p)' = "salt" /\ Position' /\ BegunOnes' = BegunOnes
       /\ at' # Load!Idle' /\ at'.pc = "salt" /\ at'.p = p
  BY <1>1, <1>11, <1>13, MovesTo
<1>15. /\ l \in Seq(LdtEntries) /\ Len(l) = 4
       /\ l[1] = d1 /\ l[2] = d2 /\ l[3] = d3 /\ l[4] = d4
  <2>1. l = ldt[p] \o <<d1, d2, d3, d4>>
    BY <1>3, <1>4
  <2>2. d1 \in LdtEntries /\ d2 \in LdtEntries /\ d3 \in LdtEntries
    <3>1. /\ o.head_len - 1 \in Int /\ o.code_len - 1 \in Int /\ o.data_len - 1 \in Int
          /\ t.image \in Int /\ t.image + o.code_seg \in Int /\ t.image + o.data_seg \in Int
          /\ 3 \in Nat
      BY <1>5, <1>6
    <3> QED BY <3>1, SegmentType
  <2>3. d4 \in LdtEntries
    BY <1>5, <1>7, StackType
  <2> HIDE DEF d1, d2, d3, d4, l
  <2> QED BY <1>2, <2>1, <2>2, <2>3, FourMore
<1>16. HeaderAt("salt", h, o) /\ Original(h) = o
  <2>1. h = [o EXCEPT !.head_len = Load!Selector(0, 3), !.code_seg = Load!Selector(1, 3),
                      !.data_seg = Load!Selector(2, 3), !.stack_seg = Load!Selector(3, 3)]
    BY <1>3, <1>4
  <2>2. o \in [size : Load!Number, head_len : Load!Number, code_seg : Nat, code_len : Load!Number,
               data_seg : Nat, data_len : Load!Number, stack_len : Load!Number, stack_seg : Nat,
               prgentry : Nat, usalt : Seq(Load!Symbols)]
    BY <1>2 DEF Load!LoaderAssumption
  <2> HIDE DEF h, o
  <2>3. /\ h.size = o.size /\ h.usalt = o.usalt /\ DOMAIN h = DOMAIN o
        /\ h.head_len = Load!Selector(0, 3) /\ h.code_seg = Load!Selector(1, 3)
        /\ h.data_seg = Load!Selector(2, 3) /\ h.stack_seg = Load!Selector(3, 3)
    BY <2>1, <2>2
  <2>4. Original(h) = o
    BY <1>2, <2>3, KnownBySize
  <2> QED BY <1>2, <2>3, <2>4 DEF HeaderAt
<1>17. Made("salt", p, h, l, t, tss[p], Load!ToSet(block'))
  <2>1. Kinds(Load!ToSet(block'), p) = BlocksAt("salt")
    BY <1>10 DEF BlocksAt
  <2>2. ASSUME NEW c \in Load!ToSet(block'), c.p = p
        PROVE  BlockFits(c, t, o)
    <3>1. CASE c = b
      BY <1>9, <3>1 DEF BlockFits
    <3>2. CASE c \in Load!ToSet(block)
      BY <1>1, <1>2, <2>2, <3>2 DEF Made
    <3> QED BY <1>10, <3>1, <3>2
  <2>3. IsStack(l[4], Load!ToSet(block'), p, "stack3", o.stack_len, 3)
    BY <1>9, <1>10, <1>15 DEF IsStack, StackOver, k
  <2>4. LdtAt("salt", l, Load!ToSet(block'), p, t, o)
    BY <1>15, <2>3 DEF LdtAt
  <2> QED BY <1>16, <2>1, <2>2, <2>4 DEF Made, TcbAt, TssAt
<1>18. AllMade'
  BY <1>4, <1>13, <1>14, <1>17, OthersMade DEF LoaderIInv
<1>19. GdtEntries'
  BY <1>1, <1>4, <1>13, SameEntries DEF LoaderIInv
<1>20. Sectors' /\ Contents'
  <2>1. Filled(mem, p, t.image, Load!Rounded(o.size))
    BY <1>1, <1>2 DEF LoaderIInv, Contents, Got
  <2>2. Got("salt", tcb[p], Original(header[p]))' = Load!Rounded(o.size)
    BY <1>16 DEF Got
  <2> QED BY <1>4, <1>13, <1>14, <2>1, <2>2, SameMemory DEF LoaderIInv
<1>21. Reading'
  BY <1>1, <1>4, <1>14 DEF LoaderIInv, Reading
<1>22. Budget'
  <2>1. PICK u \in Nat, z \in Nat, c \in Nat :
          u = Unit /\ z = TssBytes /\ c = Cardinality(BegunOnes) * Most
    BY Sizes, BegunCount, Enough
  <2>2. Left("segments", o) = (k + 3) + (3 * u + 3) + (z + 3)
    BY <2>1 DEF Left, k
  <2>3. Left("salt", o) = (3 * u + 3) + (z + 3)
    BY <2>1 DEF Left
  <2>4. ram_alloc + Left("segments", o) <= Start + c
    BY <1>1, <1>2, <2>1 DEF LoaderIInv, Budget
  <2>5. top + Left("salt", o) <= Start + c /\ top >= Start
    BY <1>5, <1>7, <1>8, <2>2, <2>3, <2>4
  <2>6. Original(header'[at'.p]) = o
    BY <1>14, <1>16
  <2> QED BY <1>4, <1>8, <1>14, <2>1, <2>5, <2>6 DEF Budget
<1>23. Domains'
  BY <1>3, <1>4 DEF Domains
<1>24. Row' /\ KernelRead'
  BY <1>4, <1>10 DEF LoaderIInv, Row, KernelRead
<1> QED BY <1>14, <1>18, <1>19, <1>20, <1>21, <1>22, <1>23, <1>24 DEF LoaderIInv

-----------------------------------------------------------------------------
(* Symbols.                                                                *)

LEMMA RelocateSaltKeeps ==
    ASSUME Load!LoaderAssumption, LoaderIInv, NEW p \in Applications, Load!RelocateSalt(p), core' = core
    PROVE  LoaderIInv'
<1> DEFINE o == Original(header[p])
           t == tcb[p]
           h == header'[p]
<1>1. /\ Stage(p) = "salt" /\ Load!Begun(p) /\ at # Load!Idle /\ at.pc = "salt" /\ at.p = p
      /\ Made("salt", p, header[p], ldt[p], t, tss[p], Load!ToSet(block))
  BY Now DEF Load!RelocateSalt, Places
<1>2. HeaderAt("salt", header[p], o) /\ o \in Headers
  BY <1>1 DEF Made, HeaderAt
<1>3. DOMAIN header = Applications
  BY DEF LoaderIInv, Domains
<1>4. /\ header' = [header EXCEPT ![p].usalt = [i \in DOMAIN @ |-> Load!Bind(@[i])]]
      /\ at' = [at EXCEPT !.pc = "stacks"] /\ at = [pc |-> "salt", p |-> p]
      /\ ram_alloc' = ram_alloc /\ block' = block /\ ldt' = ldt
      /\ mem' = mem /\ read' = read /\ gdt' = gdt /\ tcb' = tcb /\ tss' = tss
  BY DEF Load!RelocateSalt, Load!AtPc
<1>5. at' = [pc |-> "stacks", p |-> p] /\ "stacks" \in Places
  BY <1>4 DEF Places
<1>6. \A q \in Applications \ {p} : header'[q] = header[q]
  BY <1>3, <1>4
<1>7. Concerns(p, {})
  <2>1. Whose(p) /\ Whose(p)'
    BY <1>5 DEF Whose, Load!AtPc, Load!RelocateSalt, Places
  <2> QED BY <1>4, <1>6, <2>1 DEF Concerns
<1>8. /\ Stage(p)' = "stacks" /\ Position' /\ BegunOnes' = BegunOnes
      /\ at' # Load!Idle' /\ at'.pc = "stacks" /\ at'.p = p
  BY <1>1, <1>5, <1>7, MovesTo
<1>9. HeaderAt("stacks", h, o) /\ Original(h) = o
  <2>1. h = [header[p] EXCEPT !.usalt = [i \in DOMAIN header[p].usalt |->
                                              Load!Bind(header[p].usalt[i])]]
    BY <1>3, <1>4
  <2>2. o \in [size : Load!Number, head_len : Load!Number, code_seg : Nat, code_len : Load!Number,
               data_seg : Nat, data_len : Load!Number, stack_len : Load!Number, stack_seg : Nat,
               prgentry : Nat, usalt : Seq(Load!Symbols)]
    BY <1>2 DEF Load!LoaderAssumption
  <2>3. DOMAIN header[p] = {"size", "head_len", "code_seg", "code_len", "data_seg", "data_len",
                            "stack_len", "stack_seg", "prgentry", "usalt"}
    BY <1>2, <2>2 DEF HeaderAt
  <2> HIDE DEF h, o
  <2>4. PICK g : g = header[p]
    OBVIOUS
  <2>5. /\ g.usalt = o.usalt /\ g.size = o.size
        /\ g.head_len = Load!Selector(0, 3) /\ g.code_seg = Load!Selector(1, 3)
        /\ g.data_seg = Load!Selector(2, 3) /\ g.stack_seg = Load!Selector(3, 3)
        /\ DOMAIN g = DOMAIN o
    BY <1>2, <2>4 DEF HeaderAt
  <2>6. PICK salt : salt = [i \in DOMAIN o.usalt |-> Load!Bind(o.usalt[i])]
    OBVIOUS
  <2>7. h = [g EXCEPT !.usalt = salt]
    BY <2>1, <2>4, <2>5, <2>6, Zenon
  <2>8. /\ h.usalt = salt /\ h.size = g.size /\ h.head_len = g.head_len
        /\ h.code_seg = g.code_seg /\ h.data_seg = g.data_seg /\ h.stack_seg = g.stack_seg
        /\ DOMAIN h = DOMAIN g
    BY <2>3, <2>4, <2>7
  <2>9. Original(h) = o
    BY <1>2, <2>5, <2>8, KnownBySize
  <2> QED BY <1>2, <2>5, <2>6, <2>8, <2>9 DEF HeaderAt
<1>10. Made("stacks", p, h, ldt[p], t, tss[p], Load!ToSet(block))
  <2>1. Kinds(Load!ToSet(block), p) = BlocksAt("stacks")
    BY <1>1 DEF Made, BlocksAt
  <2>2. \A c \in Load!ToSet(block) : c.p = p => BlockFits(c, t, o)
    BY <1>1 DEF Made
  <2>3. LdtAt("stacks", ldt[p], Load!ToSet(block), p, t, o)
    BY <1>1 DEF Made, LdtAt
  <2> HIDE DEF h, o
  <2> QED BY <1>9, <2>1, <2>2, <2>3 DEF Made, TcbAt, TssAt
<1>11. AllMade'
  BY <1>4, <1>7, <1>8, <1>10, OthersMade DEF LoaderIInv
<1>12. GdtEntries'
  BY <1>1, <1>4, <1>7, SameEntries DEF LoaderIInv
<1>13. Sectors' /\ Contents'
  <2>1. Filled(mem, p, t.image, Load!Rounded(o.size))
    BY <1>1 DEF LoaderIInv, Contents, Got
  <2>2. Got("stacks", tcb[p], Original(header[p]))' = Load!Rounded(o.size)
    BY <1>9 DEF Got
  <2> QED BY <1>4, <1>7, <1>8, <2>1, <2>2, SameMemory DEF LoaderIInv
<1>14. Reading'
  BY <1>1, <1>4, <1>8 DEF LoaderIInv, Reading
<1>15. Budget'
  <2>1. Left("stacks", o) = Left("salt", o)
    BY DEF Left
  <2>2. Original(header'[at'.p]) = o
    BY <1>8, <1>9
  <2> QED BY <1>1, <1>4, <1>8, <2>1, <2>2 DEF LoaderIInv, Budget
<1>16. Domains'
  BY <1>3, <1>4 DEF LoaderIInv, Domains
<1>17. Row' /\ KernelRead'
  BY <1>4 DEF LoaderIInv, Row, KernelRead
<1> QED BY <1>8, <1>11, <1>12, <1>13, <1>14, <1>15, <1>16, <1>17 DEF LoaderIInv

-----------------------------------------------------------------------------
(* Stacks for the other levels.                                            *)

LEMMA Triple ==
    ASSUME NEW a, NEW b, NEW c, NEW f \in [1 .. 3 -> {a, b, c}],
           f[1] = a, f[2] = b, f[3] = c
    PROVE  f = <<a, b, c>>
OBVIOUS

LEMMA MakeStacksKeeps ==
    ASSUME Load!LoaderAssumption, LoaderIInv, NEW p \in Applications, Load!MakeStacks(p), core' = core
    PROVE  LoaderIInv'
<1> DEFINE o == Original(header[p])
           t == tcb[p]
           r == ram_alloc
           x == r + Unit
           y == r + 2 * Unit
           top == Load!After(y, Unit)
           b0 == Load!Block(p, "stack0", Unit, r)
           b1 == Load!Block(p, "stack1", Unit, x)
           b2 == Load!Block(p, "stack2", Unit, y)
           s1 == Append(block, b0)
           s2 == Append(s1, b1)
           s3 == Append(s2, b2)
           d0 == Load!Segment(Load!StackBase(r, Unit) % Load!Space, Load!DownUnits(1), TRUE, TRUE, 0)
           d1 == Load!Segment(Load!StackBase(x, Unit) % Load!Space, Load!DownUnits(1), TRUE, TRUE, 1)
           d2 == Load!Segment(Load!StackBase(y, Unit) % Load!Space, Load!DownUnits(1), TRUE, TRUE, 2)
           low == [i \in 0 .. 2 |-> ram_alloc + i * Unit]
           name == <<"stack0", "stack1", "stack2">>
           l == ldt'[p]
<1>1. /\ Stage(p) = "stacks" /\ Load!Begun(p) /\ at # Load!Idle /\ at.pc = "stacks" /\ at.p = p
      /\ Made("stacks", p, header[p], ldt[p], t, tss[p], Load!ToSet(block))
  BY Now DEF Load!MakeStacks, Places
<1>2. HeaderAt("stacks", header[p], o) /\ o \in Headers
  BY <1>1 DEF Made, HeaderAt
<1>3. /\ DOMAIN tcb = Applications /\ DOMAIN header = Applications /\ DOMAIN ldt = Applications
      /\ DOMAIN tss = Applications
  BY DEF LoaderIInv, Domains
<1>4. ldt[p] \in Seq(LdtEntries) /\ Len(ldt[p]) = 4
  BY <1>1 DEF Made, LdtAt
<1>5. r \in Nat /\ Start \in Nat /\ Start <= r /\ Unit \in Nat /\ Unit > 0
  BY RamFits, Sizes
<1>6. low[0] = r /\ low[1] = x /\ low[2] = y
  BY <1>5
<1>7. /\ block' = block \o [i \in 1 .. 3 |-> Load!Block(p, name[i], Unit, low[i - 1])]
      /\ ldt' = [ldt EXCEPT ![p] = @ \o [i \in 1 .. 3 |->
              Load!Segment(Load!StackBase(low[i - 1], Unit) % Load!Space, Load!DownUnits(1), TRUE, TRUE, i - 1)]]
      /\ ram_alloc' = Load!After(low[2], Unit)
      /\ tcb' = [tcb EXCEPT ![p] =
              [ldt |-> @.ldt, image |-> @.image,
               stack |-> [i \in 0 .. 2 |-> Load!Selector(4 + i, i)],
               base |-> [i \in 0 .. 2 |-> IF i = 2 THEN low[i] ELSE low[i] + Unit]]]
      /\ at' = [at EXCEPT !.pc = "register"] /\ at = [pc |-> "stacks", p |-> p]
      /\ mem' = mem /\ read' = read /\ gdt' = gdt /\ header' = header /\ tss' = tss
  BY <1>4 DEF Load!MakeStacks, Load!AtPc
<1>8. [i \in 1 .. 3 |-> Load!Block(p, name[i], Unit, low[i - 1])] = <<b0, b1, b2>>
  <2> DEFINE f == [i \in 1 .. 3 |-> Load!Block(p, name[i], Unit, low[i - 1])]
  <2>2. f[1] = b0 /\ f[2] = b1 /\ f[3] = b2
    <3>1. name[1] = "stack0" /\ name[2] = "stack1" /\ name[3] = "stack2"
      OBVIOUS
    <3>2. 1 - 1 = 0 /\ 2 - 1 = 1 /\ 3 - 1 = 2 /\ 1 \in 1 .. 3 /\ 2 \in 1 .. 3 /\ 3 \in 1 .. 3
      OBVIOUS
    <3> HIDE DEF name, low, x, y, r
    <3>3. f[1] = Load!Block(p, name[1], Unit, low[1 - 1]) /\ f[2] = Load!Block(p, name[2], Unit, low[2 - 1])
          /\ f[3] = Load!Block(p, name[3], Unit, low[3 - 1])
      BY <3>2, Zenon
    <3> QED BY <1>6, <3>1, <3>2, <3>3, Zenon
  <2> HIDE DEF b0, b1, b2, low, name, x, y, r
  <2>3. \A i \in 1 .. 3 : f[i] \in {b0, b1, b2}
    <3>1. \A i \in 1 .. 3 : i = 1 \/ i = 2 \/ i = 3
      OBVIOUS
    <3> QED BY <2>2, <3>1, Zenon
  <2>4. f \in [1 .. 3 -> {b0, b1, b2}]
    BY <2>3, Zenon
  <2> HIDE DEF f
  <2>5. f = <<b0, b1, b2>>
    BY <2>2, <2>4, Triple
  <2> QED BY <2>5 DEF f
<1>9. [i \in 1 .. 3 |->
          Load!Segment(Load!StackBase(low[i - 1], Unit) % Load!Space, Load!DownUnits(1), TRUE, TRUE, i - 1)]
        = <<d0, d1, d2>>
  <2> DEFINE f == [i \in 1 .. 3 |->
                Load!Segment(Load!StackBase(low[i - 1], Unit) % Load!Space, Load!DownUnits(1), TRUE, TRUE, i - 1)]
  <2>2. f[1] = d0 /\ f[2] = d1 /\ f[3] = d2
    <3>1. 1 - 1 = 0 /\ 2 - 1 = 1 /\ 3 - 1 = 2 /\ 1 \in 1 .. 3 /\ 2 \in 1 .. 3 /\ 3 \in 1 .. 3
      OBVIOUS
    <3> HIDE DEF low, x, y, r
    <3>2. /\ f[1] = Load!Segment(Load!StackBase(low[1 - 1], Unit) % Load!Space, Load!DownUnits(1), TRUE, TRUE, 1 - 1)
          /\ f[2] = Load!Segment(Load!StackBase(low[2 - 1], Unit) % Load!Space, Load!DownUnits(1), TRUE, TRUE, 2 - 1)
          /\ f[3] = Load!Segment(Load!StackBase(low[3 - 1], Unit) % Load!Space, Load!DownUnits(1), TRUE, TRUE, 3 - 1)
      BY <3>1, Zenon
    <3> QED BY <1>6, <3>1, <3>2, Zenon
  <2> HIDE DEF d0, d1, d2, low, name, x, y, r
  <2>3. \A i \in 1 .. 3 : f[i] \in {d0, d1, d2}
    <3>1. \A i \in 1 .. 3 : i = 1 \/ i = 2 \/ i = 3
      OBVIOUS
    <3> QED BY <2>2, <3>1, Zenon
  <2>4. f \in [1 .. 3 -> {d0, d1, d2}]
    BY <2>3, Zenon
  <2> HIDE DEF f
  <2>5. f = <<d0, d1, d2>>
    BY <2>2, <2>4, Triple
  <2> QED BY <2>5 DEF f
<1>10. /\ x \in Nat /\ y \in Nat /\ r + Unit <= x /\ x + Unit <= y /\ Start <= x /\ Start <= y
       /\ y = r + Unit + Unit
  BY <1>5
<1>11. block' = block \o <<b0, b1, b2>> /\ ram_alloc' = top
       /\ ldt'[p] = ldt[p] \o <<d0, d1, d2>>
  <2>1. ldt'[p] = ldt[p] \o [i \in 1 .. 3 |->
          Load!Segment(Load!StackBase(low[i - 1], Unit) % Load!Space, Load!DownUnits(1), TRUE, TRUE, i - 1)]
    BY <1>3, <1>7
  <2> HIDE DEF low, name, b0, b1, b2, d0, d1, d2
  <2>2. block' = block \o <<b0, b1, b2>>
    BY <1>7, <1>8, Zenon
  <2>3. ldt'[p] = ldt[p] \o <<d0, d1, d2>>
    BY <2>1, <1>9, Zenon
  <2>4. ram_alloc' = top
    BY <1>6, <1>7, Zenon
  <2> QED BY <2>2, <2>3, <2>4
<1> HIDE DEF low, name
<1>12. top \in Nat /\ y + Unit <= top /\ top <= y + Unit + 3
  BY <1>5, <1>10, AfterNumbers
<1> HIDE DEF top, x, y, r
<1>13. /\ b0 \in Blocks /\ b0.p = p /\ b0.what = "stack0" /\ b0.base = r /\ b0.bytes = Unit
       /\ b1 \in Blocks /\ b1.p = p /\ b1.what = "stack1" /\ b1.base = x /\ b1.bytes = Unit
       /\ b2 \in Blocks /\ b2.p = p /\ b2.what = "stack2" /\ b2.base = y /\ b2.bytes = Unit
  BY <1>5, <1>10 DEF Load!Block, Blocks, Whats, Load!Number
<1> HIDE DEF b0, b1, b2
<1>14. Kinds(Load!ToSet(block), p) = {"tcb", "ldt", "image", "stack3"}
  BY <1>1 DEF Made, BlocksAt
<1>15. Laid(block, r) /\ Once(Load!ToSet(block)) /\ block \in Seq(Blocks)
  BY DEF LoaderIInv, Row, Laid, r
<1>16. /\ Laid(s1, x) /\ Once(Load!ToSet(s1)) /\ Load!ToSet(s1) = Load!ToSet(block) \cup {b0}
       /\ Kinds(Load!ToSet(s1), p) = {"tcb", "ldt", "image", "stack3", "stack0"}
  <2>1. b0.what \notin Kinds(Load!ToSet(block), b0.p)
    BY <1>13, <1>14, Zenon
  <2>3. /\ b0.base + b0.bytes <= x /\ r <= b0.base /\ r \in Nat /\ x \in Nat
        /\ Start \in Nat /\ Start <= r /\ b0 \in Blocks
    BY <1>5, <1>10, <1>13
  <2>2. /\ Laid(Append(block, b0), x) /\ Once(Load!ToSet(Append(block, b0)))
        /\ Load!ToSet(Append(block, b0)) = Load!ToSet(block) \cup {b0}
        /\ Kinds(Load!ToSet(Append(block, b0)), b0.p) = Kinds(Load!ToSet(block), b0.p) \cup {b0.what}
    BY <1>15, <2>1, <2>3, Allocates
  <2> QED BY <1>13, <1>14, <2>2
<1>17. block' = s3
  BY <1>11, <1>13, <1>15, ThreeMore
<1> HIDE DEF s1
<1>18. /\ Laid(s2, y) /\ Once(Load!ToSet(s2)) /\ Load!ToSet(s2) = Load!ToSet(s1) \cup {b1}
       /\ Kinds(Load!ToSet(s2), p) = {"tcb", "ldt", "image", "stack3", "stack0", "stack1"}
  <2>1. b1.what \notin Kinds(Load!ToSet(s1), b1.p)
    BY <1>13, <1>16, Zenon
  <2>3. /\ b1.base + b1.bytes <= y /\ x <= b1.base /\ y \in Nat /\ x \in Nat
        /\ Start \in Nat /\ Start <= x /\ b1 \in Blocks
    BY <1>5, <1>10, <1>13
  <2>2. /\ Laid(Append(s1, b1), y) /\ Once(Load!ToSet(Append(s1, b1)))
        /\ Load!ToSet(Append(s1, b1)) = Load!ToSet(s1) \cup {b1}
        /\ Kinds(Load!ToSet(Append(s1, b1)), b1.p) = Kinds(Load!ToSet(s1), b1.p) \cup {b1.what}
    BY <1>16, <2>1, <2>3, Allocates
  <2> QED BY <1>13, <1>16, <2>2
<1> HIDE DEF s2
<1>19. /\ Laid(s3, top) /\ Once(Load!ToSet(s3)) /\ Load!ToSet(s3) = Load!ToSet(s2) \cup {b2}
       /\ Kinds(Load!ToSet(s3), p) =
            {"tcb", "ldt", "image", "stack3", "stack0", "stack1", "stack2"}
  <2>1. b2.what \notin Kinds(Load!ToSet(s2), b2.p)
    BY <1>13, <1>18, Zenon
  <2>3. /\ b2.base + b2.bytes <= top /\ y <= b2.base /\ y \in Nat /\ top \in Nat
        /\ Start \in Nat /\ Start <= y /\ b2 \in Blocks
    BY <1>5, <1>10, <1>12, <1>13
  <2>2. /\ Laid(Append(s2, b2), top) /\ Once(Load!ToSet(Append(s2, b2)))
        /\ Load!ToSet(Append(s2, b2)) = Load!ToSet(s2) \cup {b2}
        /\ Kinds(Load!ToSet(Append(s2, b2)), b2.p) = Kinds(Load!ToSet(s2), b2.p) \cup {b2.what}
    BY <1>18, <2>1, <2>3, Allocates
  <2> QED BY <1>13, <1>18, <2>2
<1> HIDE DEF s3
<1>20. Load!ToSet(block') = Load!ToSet(block) \cup {b0, b1, b2}
  BY <1>16, <1>17, <1>18, <1>19
<1>21. /\ l \in Seq(LdtEntries) /\ Len(l) = 7
       /\ \A i \in 1 .. 4 : l[i] = ldt[p][i]
       /\ l[5] = d0 /\ l[6] = d1 /\ l[7] = d2
  <2>1. d0 \in LdtEntries /\ d1 \in LdtEntries /\ d2 \in LdtEntries
    BY <1>5, <1>10, StackType DEF r
  <2> HIDE DEF d0, d1, d2, l
  <2> QED BY <1>4, <1>11, <2>1, ThreeMoreAt DEF l
<1>22. at' = [pc |-> "register", p |-> p] /\ "register" \in Places
  BY <1>7 DEF Places
<1>23. /\ \A q \in Applications \ {p} : tcb'[q] = tcb[q] /\ ldt'[q] = ldt[q]
       /\ tcb'[p].ldt = t.ldt /\ tcb'[p].image = t.image
       /\ tcb'[p].stack = [i \in 0 .. 2 |-> Load!Selector(4 + i, i)]
  BY <1>3, <1>7
<1>24. Concerns(p, {b0, b1, b2})
  <2>1. Whose(p) /\ Whose(p)'
    BY <1>22 DEF Whose, Load!AtPc, Load!MakeStacks, Places
  <2> QED BY <1>7, <1>13, <1>20, <1>23, <2>1 DEF Concerns
<1>25. /\ Stage(p)' = "register" /\ Position' /\ BegunOnes' = BegunOnes
       /\ at' # Load!Idle' /\ at'.pc = "register" /\ at'.p = p
  BY <1>1, <1>22, <1>24, MovesTo
<1>26. Made("register", p, header[p], l, tcb'[p], tss[p], Load!ToSet(block'))
  <2>1. Kinds(Load!ToSet(block'), p) = BlocksAt("register")
    BY <1>17, <1>19 DEF BlocksAt
  <2>2. HeaderAt("register", header[p], o)
    BY <1>2 DEF HeaderAt
  <2>3. ASSUME NEW c \in Load!ToSet(block'), c.p = p
        PROVE  BlockFits(c, tcb'[p], o)
    <3>1. CASE c \in {b0, b1, b2}
      BY <1>13, <3>1 DEF BlockFits
    <3>2. CASE c \in Load!ToSet(block)
      BY <1>1, <1>23, <2>3, <3>2 DEF Made, BlockFits
    <3> QED BY <1>20, <3>1, <3>2
  <2>4. /\ IsStack(l[5], Load!ToSet(block'), p, "stack0", 1, 0)
        /\ IsStack(l[6], Load!ToSet(block'), p, "stack1", 1, 1)
        /\ IsStack(l[7], Load!ToSet(block'), p, "stack2", 1, 2)
    <3>1. 1 * Unit = Unit
      BY <1>5
    <3>2. StackOver(l[5], b0, 1, 0) /\ StackOver(l[6], b1, 1, 1) /\ StackOver(l[7], b2, 1, 2)
      BY <1>13, <1>21, <3>1 DEF StackOver
    <3> QED BY <1>13, <1>20, <3>2 DEF IsStack
  <2>5. LdtAt("register", l, Load!ToSet(block'), p, tcb'[p], o)
    <3>1. IsStack(ldt[p][4], Load!ToSet(block'), p, "stack3", o.stack_len, 3)
      BY <1>1, <1>20 DEF Made, LdtAt, IsStack
    <3>2. /\ ldt[p][1] = Load!Segment(t.image, o.head_len - 1, FALSE, FALSE, 3)
          /\ ldt[p][2] = Load!Segment(t.image + o.code_seg, o.code_len - 1, FALSE, FALSE, 3)
          /\ ldt[p][3] = Load!Segment(t.image + o.data_seg, o.data_len - 1, FALSE, FALSE, 3)
      BY <1>1 DEF Made, LdtAt
    <3>3. l[1] = ldt[p][1] /\ l[2] = ldt[p][2] /\ l[3] = ldt[p][3] /\ l[4] = ldt[p][4]
      BY <1>21
    <3> HIDE DEF l, o
    <3> QED BY <1>21, <1>23, <2>4, <3>1, <3>2, <3>3 DEF LdtAt
  <2>6. TcbAt("register", tcb'[p])
    BY <1>23 DEF TcbAt
  <2> HIDE DEF l, o
  <2> QED BY <2>1, <2>2, <2>3, <2>5, <2>6 DEF Made, TssAt, o
<1>27. AllMade'
  BY <1>7, <1>24, <1>25, <1>26, OthersMade DEF LoaderIInv
<1>28. GdtEntries'
  BY <1>1, <1>7, <1>24, SameEntries DEF LoaderIInv
<1>29. Sectors' /\ Contents'
  <2>1. Filled(mem, p, t.image, Load!Rounded(o.size))
    BY <1>1 DEF LoaderIInv, Contents, Got
  <2>2. Got("register", tcb[p], Original(header[p]))' = Load!Rounded(o.size)
    BY <1>7 DEF Got
  <2> QED BY <1>7, <1>23, <1>24, <1>25, <2>1, <2>2, SameMemory DEF LoaderIInv
<1>30. Reading'
  BY <1>1, <1>7, <1>25 DEF LoaderIInv, Reading
<1>31. Budget'
  <2>1. PICK u \in Nat, z \in Nat, c \in Nat :
          u = Unit /\ z = TssBytes /\ c = Cardinality(BegunOnes) * Most
    BY Sizes, BegunCount, Enough
  <2>2. Left("stacks", o) = (3 * u + 3) + (z + 3)
    BY <2>1 DEF Left
  <2>3. Left("register", o) = z + 3
    BY <2>1 DEF Left
  <2>4. r + Left("stacks", o) <= Start + c
    BY <1>1, <2>1 DEF LoaderIInv, Budget, r
  <2>5. top + Left("register", o) <= Start + c /\ top >= Start
    BY <1>5, <1>10, <1>12, <2>1, <2>2, <2>3, <2>4
  <2> QED BY <1>7, <1>11, <1>12, <1>25, <2>1, <2>5 DEF Budget
<1>32. Domains'
  BY <1>3, <1>7 DEF Domains
<1>33. Row' /\ KernelRead'
  BY <1>11, <1>17, <1>19 DEF LoaderIInv, Row, KernelRead
<1> QED BY <1>25, <1>27, <1>28, <1>29, <1>30, <1>31, <1>32, <1>33 DEF LoaderIInv


-----------------------------------------------------------------------------
(* LDT and TSS are made known.                                             *)

LEMMA TwoMore ==
    ASSUME NEW S, NEW s \in Seq(S), NEW a \in S, NEW b \in S
    PROVE  s \o <<a, b>> \in Seq(S) /\ Load!ToSet(s \o <<a, b>>) = Load!ToSet(s) \cup {a, b}
<1>1. PICK r : r = Append(s, a)
  OBVIOUS
<1>2. s \o <<a, b>> = Append(r, b)
  BY <1>1
<1>3. Load!ToSet(r) = Load!ToSet(s) \cup {a} /\ r \in Seq(S)
  BY <1>1, Members
<1>4. Load!ToSet(Append(r, b)) = Load!ToSet(r) \cup {b} /\ Append(r, b) \in Seq(S)
  BY <1>3, Members
<1> QED BY <1>2, <1>3, <1>4, Zenon

LEMMA RegisterKeeps ==
    ASSUME Load!LoaderAssumption, LoaderIInv, NEW p \in Applications, Load!Register(p), core' = core
    PROVE  LoaderIInv'
<1> DEFINE h == header[p]
           o == Original(h)
           t == tcb[p]
           r == ram_alloc
           top == Load!After(r, TssBytes)
           b == Load!Block(p, "tss", TssBytes, r)
           e1 == [kind |-> "ldt", p |-> p, base |-> t.ldt, limit |-> 55]
           e2 == [kind |-> "tss", p |-> p, base |-> r, limit |-> TssBytes - 1]
           s == tss'[p]
<1>1. /\ Stage(p) = "register" /\ Load!Begun(p) /\ at # Load!Idle /\ at.pc = "register" /\ at.p = p
      /\ Made("register", p, h, ldt[p], t, tss[p], Load!ToSet(block))
  BY Now DEF Load!Register, Places
<1>2. HeaderAt("register", h, o) /\ o \in Headers
  BY <1>1 DEF Made, HeaderAt
<1>3. /\ DOMAIN tcb = Applications /\ DOMAIN header = Applications /\ DOMAIN ldt = Applications
      /\ DOMAIN tss = Applications
  BY DEF LoaderIInv, Domains
<1>4. Len(ldt[p]) = 7
  BY <1>1 DEF Made, LdtAt
<1>5. /\ r \in Nat /\ Start \in Nat /\ Start <= r /\ TssBytes \in Nat /\ TssBytes > 0
      /\ LdtBytes \in Nat /\ LdtBytes >= 56
  BY RamFits, Sizes
<1>6. /\ gdt' = gdt \o <<e1, e2>>
      /\ tss' = [tss EXCEPT ![p] =
              [ss0 |-> t.stack[0], ss1 |-> t.stack[1], ss2 |-> t.stack[2], esp |-> 0,
               eip |-> h.prgentry, cs |-> h.code_seg, ss |-> h.stack_seg, ds |-> h.head_len]]
      /\ block' = Append(block, b) /\ ram_alloc' = top /\ at' = Load!Idle
      /\ mem' = mem /\ read' = read /\ header' = header /\ ldt' = ldt /\ tcb' = tcb
  <2>1. 8 * Len(ldt[p]) - 1 = 55
    BY <1>4
  <2> QED BY <2>1 DEF Load!Register
<1>7. top \in Nat /\ r + TssBytes <= top /\ top <= r + TssBytes + 3
  BY <1>5, AfterNumbers
<1> HIDE DEF top
<1>8. b \in Blocks /\ b.p = p /\ b.what = "tss" /\ b.base = r /\ b.bytes = TssBytes
  BY <1>5 DEF Load!Block, Blocks, Whats, Load!Number
<1> HIDE DEF b
<1>9. /\ Laid(block', top) /\ Once(Load!ToSet(block')) /\ Load!ToSet(block') = Load!ToSet(block) \cup {b}
      /\ Kinds(Load!ToSet(block'), p) = {"tcb", "ldt", "image", "stack3", "stack0", "stack1",
                                    "stack2", "tss"}
  <2>1. Kinds(Load!ToSet(block), p) = {"tcb", "ldt", "image", "stack3", "stack0", "stack1", "stack2"}
    BY <1>1 DEF Made, BlocksAt
  <2>2. b.what \notin Kinds(Load!ToSet(block), b.p)
    BY <1>8, <2>1, Zenon
  <2>3. /\ b.base + b.bytes <= top /\ r <= b.base /\ r \in Nat /\ top \in Nat
        /\ Start \in Nat /\ Start <= r /\ b \in Blocks
    BY <1>5, <1>7, <1>8
  <2>4. Laid(block, r) /\ Once(Load!ToSet(block))
    BY DEF LoaderIInv, Row
  <2>5. /\ Laid(Append(block, b), top) /\ Once(Load!ToSet(Append(block, b)))
        /\ Load!ToSet(Append(block, b)) = Load!ToSet(block) \cup {b}
        /\ Kinds(Load!ToSet(Append(block, b)), b.p) = Kinds(Load!ToSet(block), b.p) \cup {b.what}
    BY <2>2, <2>3, <2>4, Allocates
  <2> QED BY <1>6, <1>8, <2>1, <2>5
<1>10. \A q \in Applications \ {p} : tss'[q] = tss[q]
  BY <1>3, <1>6
<1>11. Concerns(p, {b})
  <2>1. Whose(p) /\ Whose(p)'
    BY <1>6 DEF Whose, Load!Register, Places
  <2> QED BY <1>6, <1>8, <1>9, <1>10, <2>1 DEF Concerns
<1>12. Load!Begun(p)' /\ BegunOnes' = BegunOnes
  BY <1>1, <1>8, <1>9 DEF Load!Begun, BegunOnes
<1>13. Stage(p)' = "ready" /\ Position'
  <2>1. core.ecx = 0
    BY <1>1 DEF LoaderIInv, Position
  <2> QED BY <1>6, <1>12, <2>1 DEF Stage, Position
<1>14. Made("ready", p, h, ldt[p], t, s, Load!ToSet(block'))
  <2>1. Kinds(Load!ToSet(block'), p) = BlocksAt("ready")
    BY <1>9 DEF BlocksAt
  <2>2. HeaderAt("ready", h, o)
    BY <1>2 DEF HeaderAt
  <2>3. ASSUME NEW c \in Load!ToSet(block'), c.p = p
        PROVE  BlockFits(c, t, o)
    <3>1. CASE c = b
      BY <1>8, <3>1 DEF BlockFits
    <3>2. CASE c \in Load!ToSet(block)
      BY <1>1, <2>3, <3>2 DEF Made
    <3> QED BY <1>9, <3>1, <3>2
  <2>4. LdtAt("ready", ldt[p], Load!ToSet(block'), p, t, o)
    <3>1. \A d, what, n, level : IsStack(d, Load!ToSet(block), p, what, n, level)
                                   => IsStack(d, Load!ToSet(block'), p, what, n, level)
      BY <1>9 DEF IsStack
    <3> HIDE DEF o
    <3> QED BY <1>1, <3>1 DEF Made, LdtAt, o
  <2>5. t.stack = [i \in 0 .. 2 |-> Load!Selector(4 + i, i)]
    BY <1>1 DEF Made, TcbAt
  <2>6. TcbAt("ready", t)
    BY <2>5 DEF TcbAt
  <2>7. TssAt("ready", s)
    <3>1. s = [ss0 |-> t.stack[0], ss1 |-> t.stack[1], ss2 |-> t.stack[2], esp |-> 0,
               eip |-> h.prgentry, cs |-> h.code_seg, ss |-> h.stack_seg, ds |-> h.head_len]
      BY <1>3, <1>6
    <3>2. /\ h.head_len = Load!Selector(0, 3) /\ h.code_seg = Load!Selector(1, 3)
          /\ h.stack_seg = Load!Selector(3, 3)
      BY <1>2 DEF HeaderAt
    <3>3. /\ t.stack[0] = Load!Selector(4, 0) /\ t.stack[1] = Load!Selector(5, 1)
          /\ t.stack[2] = Load!Selector(6, 2)
      BY <2>5
    <3> HIDE DEF s
    <3> QED BY <3>1, <3>2, <3>3 DEF TssAt
  <2> HIDE DEF h, s, o
  <2> QED BY <2>1, <2>2, <2>3, <2>4, <2>6, <2>7 DEF Made, o
<1>15. AllMade'
  BY <1>6, <1>11, <1>13, <1>14, OthersMade DEF LoaderIInv
<1>16. GdtEntries'
  <2> DEFINE Entry == [kind : {"ldt", "tss"}, p : Applications, base : Nat, limit : Nat]
  <2>1. gdt \in Seq(Entry)
    BY DEF LoaderIInv, GdtEntries
  <2>2. PICK bl \in Load!ToSet(block) :
          /\ bl.p = p /\ bl.what = "ldt" /\ BlockFits(bl, t, o) /\ bl.base \in Nat
    <3>1. "ldt" \in BlocksAt(Stage(p))
      BY <1>1 DEF BlocksAt
    <3> QED BY <3>1, BlockOf
  <2>3. bl.base = t.ldt /\ bl.bytes = LdtBytes
    BY <2>2 DEF BlockFits
  <2>4. e1 \in Entry /\ e2 \in Entry
    BY <1>5, <2>2, <2>3
  <2>5. Registered(e1, Load!ToSet(block')) /\ e1.p = p
    BY <1>5, <1>9, <2>2, <2>3 DEF Registered
  <2>6. Registered(e2, Load!ToSet(block')) /\ e2.p = p
    BY <1>5, <1>8, <1>9 DEF Registered
  <2> HIDE DEF e1, e2, Entry
  <2>7. /\ gdt' \in Seq(Entry)
        /\ Load!ToSet(gdt') = Load!ToSet(gdt) \cup {e1, e2}
    <3>1. gdt \o <<e1, e2>> \in Seq(Entry) /\ Load!ToSet(gdt \o <<e1, e2>>) = Load!ToSet(gdt) \cup {e1, e2}
      BY <2>1, <2>4, TwoMore
    <3>2. gdt' = gdt \o <<e1, e2>>
      BY <1>6 DEF e1, e2
    <3> QED BY <3>1, <3>2, Zenon
  <2>8. ASSUME NEW d \in Load!ToSet(gdt')
        PROVE  Registered(d, Load!ToSet(block')) /\ Stage(d.p)' = "ready"
    <3>1. CASE d \in {e1, e2}
      BY <1>13, <2>5, <2>6, <3>1
    <3>2. CASE d \in Load!ToSet(gdt)
      BY <1>1, <1>11, <3>2, OtherEntries DEF LoaderIInv
    <3> QED BY <2>7, <3>1, <3>2
  <2> QED BY <2>7, <2>8 DEF GdtEntries, Entry
<1>17. Sectors' /\ Contents'
  <2>1. Filled(mem, p, t.image, Load!Rounded(o.size))
    BY <1>1 DEF LoaderIInv, Contents, Got
  <2>2. Got("ready", tcb[p], Original(header[p]))' = Load!Rounded(o.size)
    BY <1>6 DEF Got
  <2> QED BY <1>6, <1>11, <1>13, <2>1, <2>2, SameMemory DEF LoaderIInv
<1>18. Reading'
  <2>1. read.ecx = 0 /\ read.eax \in Nat /\ read.ebx \in Nat
    BY <1>1 DEF LoaderIInv, Reading
  <2>2. at'.pc # "read"
    BY <1>6 DEF Load!Idle
  <2> QED BY <1>6, <2>1, <2>2 DEF Reading
<1>19. Budget'
  <2>1. PICK z \in Nat, c \in Nat : z = TssBytes /\ c = Cardinality(BegunOnes) * Most
    BY Sizes, BegunCount, Enough
  <2>2. Left("register", o) = z + 3
    BY <2>1 DEF Left
  <2>3. r + Left("register", o) <= Start + c
    BY <1>1, <2>1 DEF LoaderIInv, Budget
  <2>4. top <= Start + c /\ top >= Start
    BY <1>5, <1>7, <2>1, <2>2, <2>3
  <2>5. top + 0 = top
    BY <1>7
  <2> QED BY <1>6, <1>7, <1>12, <2>1, <2>4, <2>5 DEF Budget
<1>20. Domains'
  BY <1>3, <1>6 DEF Domains
<1>21. Row' /\ KernelRead'
  BY <1>6, <1>9 DEF LoaderIInv, Row, KernelRead
<1> QED BY <1>13, <1>15, <1>16, <1>17, <1>18, <1>19, <1>20, <1>21 DEF LoaderIInv

-----------------------------------------------------------------------------
(* Every step.                                                             *)

LEMMA LoaderInitInvariant ==
    ASSUME Load!LoaderAssumption, Load!Init
    PROVE  LoaderIInv
<1>1. /\ at = Load!Idle /\ ram_alloc = Start /\ block = << >> /\ mem = << >> /\ gdt = << >>
      /\ read = [eax |-> 0, ebx |-> 0, ecx |-> 0] /\ header \in [Applications -> Headers]
      /\ ldt = [p \in Applications |-> << >>] /\ tcb = [p \in Applications |-> << >>]
      /\ tss = [p \in Applications |-> << >>]
  BY DEF Load!Init
<1>2. Load!ToSet(block) = {} /\ Load!ToSet(gdt) = {} /\ DOMAIN mem = {}
  BY <1>1 DEF Load!ToSet
<1>3. \A p : ~Load!Begun(p) /\ Stage(p) = "none"
  BY <1>2 DEF Load!Begun, Stage
<1>4. Position /\ Domains
  BY <1>1 DEF Position, Domains
<1>5. KernelRead
  <2>1. PICK n \in CoreSizes : core = [size |-> n, got |-> 1, ecx |-> Load!Rest(n)]
    BY DEF Load!Init
  <2>2. Load!Rest(n) \in Nat
    BY RestIsNat
  <2> QED BY <2>1, <2>2 DEF KernelRead
<1>6. Reading
  BY <1>1 DEF Reading, Load!Idle
<1>7. Budget
  <2>1. BegunOnes = {}
    BY <1>3 DEF BegunOnes
  <2>2. PICK m \in Nat : m = Most
    BY Enough
  <2>3. Cardinality(BegunOnes) * Most = 0
    BY <2>1, <2>2, FS_EmptySet
  <2> QED BY <1>1, <2>3, Sizes DEF Budget
<1>8. Row
  <2>1. block \in Seq(Blocks) /\ Len(block) = 0
    BY <1>1
  <2> QED BY <1>2, <2>1 DEF Row, Laid, Once
<1>9. AllMade
  <2> SUFFICES ASSUME NEW p \in Applications
               PROVE  Made("none", p, header[p], ldt[p], tcb[p], tss[p], Load!ToSet(block))
    BY <1>3 DEF AllMade
  <2>1. header[p] \in Headers /\ ldt[p] = << >>
    BY <1>1
  <2>2. Original(header[p]) = header[p]
    BY <2>1, KnownBySize
  <2>3. Kinds(Load!ToSet(block), p) = BlocksAt("none")
    BY <1>2 DEF Kinds, BlocksAt
  <2>4. HeaderAt("none", header[p], Original(header[p]))
    BY <2>1, <2>2 DEF HeaderAt
  <2>5. LdtAt("none", ldt[p], Load!ToSet(block), p, tcb[p], Original(header[p]))
    BY <2>1 DEF LdtAt
  <2> QED BY <1>2, <2>3, <2>4, <2>5 DEF Made, TcbAt, TssAt
<1>10. GdtEntries /\ Sectors /\ Contents
  BY <1>1, <1>2, <1>3 DEF GdtEntries, Sectors, Contents
<1> QED BY <1>4, <1>5, <1>6, <1>7, <1>8, <1>9, <1>10 DEF LoaderIInv

LEMMA LoaderStepKeeps ==
    ASSUME Load!LoaderAssumption, LoaderIInv, [Load!Next]_(Load!vars)
    PROVE  LoaderIInv'
<1>1. CASE Load!ReadCore
  BY <1>1, ReadCoreKeeps
<1>2. CASE \E p \in Applications : Load!Load(p) /\ UNCHANGED core
  <2>1. PICK p \in Applications : Load!Load(p) /\ core' = core
    BY <1>2
  <2> QED BY <2>1, BeginKeeps, ReadSectorKeeps, MakeSegmentsKeeps, RelocateSaltKeeps,
             MakeStacksKeeps, RegisterKeeps DEF Load!Load
<1>3. CASE UNCHANGED Load!vars
  <2>1. LoaderKeeps /\ core' = core /\ at' = at
    BY <1>3 DEF Load!vars, LoaderKeeps
  <2>2. Position'
    <3>1. at = Load!Idle \/ \E pc \in Places, p \in Applications : Load!AtPc(pc, p) /\ Load!Begun(p)'
      BY <2>1, Untouched
    <3> QED BY <2>1, <3>1 DEF LoaderIInv, Position, Load!AtPc
  <2>3. KernelRead'
    BY <2>1 DEF LoaderIInv, KernelRead
  <2> QED BY <2>1, <2>2, <2>3, Untouched DEF LoaderIInv
<1> QED BY <1>1, <1>2, <1>3 DEF Load!Next

-----------------------------------------------------------------------------
(* What the invariant says of the blocks.                                  *)

LEMMA BlockFacts ==
    ASSUME Load!LoaderAssumption, LoaderIInv, NEW b \in Load!ToSet(block)
    PROVE  /\ b.base \in Nat /\ b.bytes \in Nat /\ b.bytes > 0
           /\ Start <= b.base /\ b.base + b.bytes <= ram_alloc
           /\ b.base + b.bytes <= Load!Space
           /\ Load!Given(b.p, b.what) = b.base .. b.base + b.bytes - 1
           /\ Load!BaseOf(b.p, b.what) = b.base
<1>1. Laid(block, ram_alloc) /\ block \in Seq(Blocks) /\ Once(Load!ToSet(block))
  BY DEF LoaderIInv, Row, Laid
<1>2. PICK i \in 1 .. Len(block) : b = block[i]
  BY <1>1 DEF Load!ToSet
<1>3. b.base \in Nat /\ b.bytes \in Nat /\ b.bytes > 0
  BY <1>1, <1>2, BlockNumbers
<1>4. Start <= b.base /\ b.base + b.bytes <= ram_alloc
  BY <1>1, <1>2 DEF Laid
<1>5. b.base + b.bytes <= Load!Space
  <2>1. ram_alloc \in Nat /\ ram_alloc <= Load!Space /\ Load!Space \in Nat
    BY RamFits, Sizes
  <2> QED BY <1>3, <1>4, <2>1
<1>6. /\ Load!Given(b.p, b.what) = b.base .. b.base + b.bytes - 1
      /\ Load!BaseOf(b.p, b.what) = b.base
  BY <1>1, TheBlock
<1> QED BY <1>3, <1>4, <1>5, <1>6

LEMMA DisjointHolds ==
    ASSUME Load!LoaderAssumption, LoaderIInv
    PROVE  Load!BlocksAreDisjoint
<1>1. \A i, j \in DOMAIN block : i < j => block[i].base + block[i].bytes <= block[j].base
  BY DEF LoaderIInv, Row, Laid
<1>2. ASSUME NEW d \in Load!ToSet(gdt)
      PROVE  d.base .. d.base + d.limit \subseteq Load!Given(d.p, d.kind)
  <2>1. PICK b \in Load!ToSet(block) :
          b.p = d.p /\ b.what = d.kind /\ b.base = d.base /\ d.limit < b.bytes
    BY DEF LoaderIInv, GdtEntries, Registered
  <2>2. Load!Given(d.p, d.kind) = b.base .. b.base + b.bytes - 1
    BY <2>1, BlockFacts
  <2>3. d.limit \in Nat
    <3> DEFINE Entry == [kind : {"ldt", "tss"}, p : Applications, base : Nat, limit : Nat]
    <3>1. gdt \in Seq(Entry)
      BY DEF LoaderIInv, GdtEntries
    <3> HIDE DEF Entry
    <3>2. PICK i \in 1 .. Len(gdt) : d = gdt[i]
      BY <3>1 DEF Load!ToSet
    <3>3. d \in Entry
      BY <3>1, <3>2
    <3> QED BY <3>3 DEF Entry
  <2>4. b.base \in Nat /\ b.bytes \in Nat
    BY BlockFacts
  <2> QED BY <2>1, <2>2, <2>3, <2>4
<1> QED BY <1>1, <1>2 DEF Load!BlocksAreDisjoint

LEMMA ImageHolds ==
    ASSUME Load!LoaderAssumption, LoaderIInv
    PROVE  Load!ImageIsLoaded
<1> SUFFICES ASSUME NEW p \in Applications, Load!Begun(p), ~Load!AtPc("read", p)
             PROVE  LET base == Load!BaseOf(p, "image")
                        size == header[p].size
                    IN  /\ \A i \in 0 .. size - 1 : mem[base + i] = [p |-> p, byte |-> i]
                        /\ Load!Given(p, "image") = { a \in DOMAIN mem : mem[a].p = p }
                        /\ Cardinality(Load!Given(p, "image")) < size + SectorBytes
  BY SameCardinality DEF Load!ImageIsLoaded
<1>1. Stage(p) # "none"
  BY StageOf DEF LoaderIInv
<1>2. Stage(p) # "read"
  <2>1. SUFFICES ASSUME Stage(p) = "read" PROVE FALSE
    OBVIOUS
  <2>2. at # Load!Idle /\ at.p = p /\ at.pc = "read"
    BY <2>1 DEF Stage
  <2>3. PICK pc \in Places, q \in Applications : Load!AtPc(pc, q)
    BY <2>2 DEF LoaderIInv, Position
  <2> QED BY <2>2, <2>3 DEF Load!AtPc
<1>3. PICK b \in Load!ToSet(block) :
        /\ b.p = p /\ b.what = "image" /\ b.base = tcb[p].image
        /\ b.bytes = Load!Rounded(header[p].size)
        /\ b.base \in Nat /\ b.bytes \in Nat /\ b.bytes > 0
  BY <1>1, ImageBlock
<1>4. PICK base \in Nat, n \in Nat, size \in Nat, d \in Nat :
        /\ base = b.base /\ n = b.bytes /\ size = header[p].size /\ d = SectorBytes
        /\ n > 0 /\ size <= n /\ n < size + d
  <2>1. header[p].size \in Nat /\ header[p].size \in Load!Number
    BY Identity
  <2> QED BY <1>3, <2>1, Rounding, Sizes
<1>5. Load!BaseOf(p, "image") = base /\ Load!Given(p, "image") = base .. base + n - 1
  BY <1>3, <1>4, BlockFacts
<1>6. Filled(mem, p, base, n)
  BY <1>1, <1>2, <1>3, <1>4, Identity DEF LoaderIInv, Contents, Got
<1>7. \A i \in 0 .. size - 1 : mem[base + i] = [p |-> p, byte |-> i]
  BY <1>4, <1>6 DEF Filled
<1>8. ASSUME NEW a \in base .. base + n - 1
      PROVE  a \in DOMAIN mem /\ mem[a].p = p
  <2>1. a - base \in 0 .. n - 1 /\ base + (a - base) = a
    OBVIOUS
  <2>2. a \in DOMAIN mem /\ mem[a] = [p |-> p, byte |-> a - base]
    BY <1>6, <2>1 DEF Filled
  <2> QED BY <2>2
<1>9. ASSUME NEW a \in DOMAIN mem, mem[a].p = p
      PROVE  a \in base .. base + n - 1
  <2>1. PICK c \in Load!ToSet(block) :
          c.what = "image" /\ c.p = mem[a].p /\ a \in c.base .. c.base + c.bytes - 1
    BY DEF LoaderIInv, Sectors, InImage
  <2>2. c = b
    BY <1>3, <1>9, <2>1 DEF LoaderIInv, Row, Once
  <2> QED BY <1>4, <2>1, <2>2
<1>10. Cardinality(base .. base + n - 1) = n
  <2>1. Cardinality(base .. base + n - 1) =
          IF base > base + n - 1 THEN 0 ELSE ((base + n - 1) - base) + 1
    BY FS_Interval
  <2> QED BY <1>4, <2>1
<1> QED BY <1>4, <1>5, <1>7, <1>8, <1>9, <1>10

LEMMA CoreHolds ==
    ASSUME Load!LoaderAssumption, LoaderIInv
    PROVE  Load!CoreIsLoaded
<1> SUFFICES ASSUME core.ecx = 0
             PROVE  core.got * SectorBytes >= core.size /\ (core.got - 1) * SectorBytes < core.size
  BY DEF Load!CoreIsLoaded
<1>1. core.size \in CoreSizes /\ core.got \in Nat /\ core.got + core.ecx = 1 + Load!Rest(core.size)
  BY DEF LoaderIInv, KernelRead
<1>2. /\ Load!Rest(core.size) \in Nat /\ (1 + Load!Rest(core.size)) * SectorBytes >= core.size
      /\ Load!Rest(core.size) * SectorBytes < core.size
  BY <1>1, RestIsNat
<1>3. core.got = 1 + Load!Rest(core.size) /\ core.got - 1 = Load!Rest(core.size)
  BY <1>1, <1>2
<1> QED BY <1>2, <1>3

-----------------------------------------------------------------------------
(* Segments of a loaded program.                                           *)

LEMMA LoadedIsReady ==
    ASSUME LoaderIInv, NEW p \in Applications, Load!Loaded(p)
    PROVE  Stage(p) = "ready"
BY DEF LoaderIInv, GdtEntries, Load!Loaded

LEMMA StackReach ==
    ASSUME Load!LoaderAssumption, LoaderIInv, NEW p \in Applications, NEW what, NEW n \in Nat, n > 0,
           NEW level, NEW d, IsStack(d, Load!ToSet(block), p, what, n, level)
    PROVE  Load!Reach(d) = Load!Given(p, what) /\ d.dpl = level
<1>1. PICK b \in Load!ToSet(block) : b.p = p /\ b.what = what /\ StackOver(d, b, n, level)
  BY DEF IsStack
<1>2. /\ b.base \in Nat /\ b.bytes \in Nat /\ b.base + b.bytes <= Load!Space
      /\ Load!Given(p, what) = b.base .. b.base + b.bytes - 1
  BY <1>1, BlockFacts
<1>3. Load!Reach(d) = b.base .. b.base + b.bytes - 1
  BY <1>1, <1>2, ReachDown
<1>4. d.dpl = level
  BY <1>1 DEF StackOver, Load!Segment
<1> QED BY <1>2, <1>3, <1>4

LEMMA SegmentsHold ==
    ASSUME Load!LoaderAssumption, LoaderIInv
    PROVE  Load!SegmentsCoverTheirMemory
<1> SUFFICES ASSUME NEW p \in Applications, Load!Loaded(p)
             PROVE  LET image == Load!BaseOf(p, "image")
                        Part(from, bytes) == image + from .. image + from + bytes - 1
                        h == Load!Said(p)
                    IN  /\ Load!Reach(Load!At(p, tss[p].ss)) = Load!Given(p, "stack3")
                        /\ Load!Reach(Load!At(p, tss[p].ss0)) = Load!Given(p, "stack0")
                        /\ Load!Reach(Load!At(p, tss[p].ss1)) = Load!Given(p, "stack1")
                        /\ Load!Reach(Load!At(p, tss[p].ss2)) = Load!Given(p, "stack2")
                        /\ Load!Reach(Load!At(p, tss[p].ds)) = Part(0, h.head_len)
                        /\ Load!Reach(Load!At(p, tss[p].cs)) = Part(h.code_seg, h.code_len)
                        /\ Load!Reach(Load!At(p, header[p].data_seg)) = Part(h.data_seg, h.data_len)
                        /\ \A sel \in {tss[p].ss, tss[p].ss0, tss[p].ss1, tss[p].ss2, tss[p].cs} :
                              Load!At(p, sel).dpl = sel.rpl
  BY DEF Load!SegmentsCoverTheirMemory
<1> DEFINE o == Original(header[p])
           l == ldt[p]
           s == tss[p]
<1>1. Stage(p) = "ready"
  BY LoadedIsReady
<1>2. Made("ready", p, header[p], l, tcb[p], s, Load!ToSet(block))
  BY <1>1 DEF LoaderIInv, AllMade
<1>3. /\ s.ss0 = Load!Selector(4, 0) /\ s.ss1 = Load!Selector(5, 1) /\ s.ss2 = Load!Selector(6, 2)
      /\ s.ss = Load!Selector(3, 3) /\ s.cs = Load!Selector(1, 3) /\ s.ds = Load!Selector(0, 3)
      /\ header[p].data_seg = Load!Selector(2, 3)
  BY <1>2 DEF Made, TssAt, HeaderAt
<1>4. /\ Load!At(p, s.ss0) = l[5] /\ Load!At(p, s.ss1) = l[6] /\ Load!At(p, s.ss2) = l[7]
      /\ Load!At(p, s.ss) = l[4] /\ Load!At(p, s.cs) = l[2] /\ Load!At(p, s.ds) = l[1]
      /\ Load!At(p, header[p].data_seg) = l[3]
      /\ s.ss0.rpl = 0 /\ s.ss1.rpl = 1 /\ s.ss2.rpl = 2 /\ s.ss.rpl = 3 /\ s.cs.rpl = 3
  <2>1. 0 + 1 = 1 /\ 1 + 1 = 2 /\ 2 + 1 = 3 /\ 3 + 1 = 4 /\ 4 + 1 = 5 /\ 5 + 1 = 6 /\ 6 + 1 = 7
    OBVIOUS
  <2>2. \A i, r : Load!At(p, Load!Selector(i, r)) = l[i + 1] /\ Load!Selector(i, r).rpl = r
    BY Zenon DEF Load!At, Load!Selector
  <2>3. /\ Load!At(p, Load!Selector(4, 0)) = l[5] /\ Load!At(p, Load!Selector(5, 1)) = l[6]
        /\ Load!At(p, Load!Selector(6, 2)) = l[7] /\ Load!At(p, Load!Selector(3, 3)) = l[4]
        /\ Load!At(p, Load!Selector(1, 3)) = l[2] /\ Load!At(p, Load!Selector(0, 3)) = l[1]
        /\ Load!At(p, Load!Selector(2, 3)) = l[3]
    BY <2>2
  <2>4. /\ Load!Selector(4, 0).rpl = 0 /\ Load!Selector(5, 1).rpl = 1 /\ Load!Selector(6, 2).rpl = 2
        /\ Load!Selector(3, 3).rpl = 3 /\ Load!Selector(1, 3).rpl = 3
    BY <2>2, Zenon
  <2> HIDE DEF l, s
  <2> QED BY <1>3, <2>3, <2>4, Zenon
<1>5. /\ l[1] = Load!Segment(tcb[p].image, o.head_len - 1, FALSE, FALSE, 3)
      /\ l[2] = Load!Segment(tcb[p].image + o.code_seg, o.code_len - 1, FALSE, FALSE, 3)
      /\ l[3] = Load!Segment(tcb[p].image + o.data_seg, o.data_len - 1, FALSE, FALSE, 3)
      /\ IsStack(l[4], Load!ToSet(block), p, "stack3", o.stack_len, 3)
      /\ IsStack(l[5], Load!ToSet(block), p, "stack0", 1, 0)
      /\ IsStack(l[6], Load!ToSet(block), p, "stack1", 1, 1)
      /\ IsStack(l[7], Load!ToSet(block), p, "stack2", 1, 2)
  <2>1. LdtAt("ready", l, Load!ToSet(block), p, tcb[p], o)
    BY <1>2 DEF Made
  <2> HIDE DEF l, o
  <2> QED BY <2>1 DEF LdtAt
<1>6. PICK base \in Nat, n \in Nat, space \in Nat :
        /\ base = tcb[p].image /\ n = Load!Rounded(header[p].size) /\ space = Load!Space
        /\ base + n <= space /\ Load!BaseOf(p, "image") = base
  <2>1. PICK b \in Load!ToSet(block) :
          /\ b.p = p /\ b.what = "image" /\ b.base = tcb[p].image
          /\ b.bytes = Load!Rounded(header[p].size)
    BY <1>1, ImageBlock
  <2> QED BY <2>1, BlockFacts, Sizes
<1>7. Load!Said(p) = o /\ o \in Headers /\ o.size \in Nat /\ o.size <= n
  <2>1. o \in Headers /\ header[p].size = o.size /\ header[p].size \in Load!Number
    BY Identity
  <2> QED BY <1>6, <2>1, SaidOriginal, Rounding, HeaderFacts
<1>8. /\ o.head_len \in Nat /\ o.head_len > 0 /\ o.head_len <= o.size
      /\ o.code_seg \in Nat /\ o.code_len \in Nat /\ o.code_len > 0
      /\ o.code_seg + o.code_len <= o.size
      /\ o.data_seg \in Nat /\ o.data_len \in Nat /\ o.data_len > 0
      /\ o.data_seg + o.data_len <= o.size
      /\ o.stack_len \in Nat /\ o.stack_len > 0
  BY <1>7, HeaderFacts
<1> HIDE DEF o, l, s
<1>9. /\ base + o.head_len <= Load!Space /\ base + 0 = base
      /\ (base + o.code_seg) + o.code_len <= Load!Space /\ base + o.code_seg \in Nat
      /\ (base + o.data_seg) + o.data_len <= Load!Space /\ base + o.data_seg \in Nat
  BY <1>6, <1>7, <1>8
<1>10. /\ Load!Reach(l[1]) = base .. base + o.head_len - 1
       /\ Load!Reach(l[2]) = base + o.code_seg .. base + o.code_seg + o.code_len - 1
       /\ Load!Reach(l[3]) = base + o.data_seg .. base + o.data_seg + o.data_len - 1
       /\ l[2].dpl = 3
  <2>1. Load!Reach(Load!Segment(base, o.head_len - 1, FALSE, FALSE, 3)) = base .. base + o.head_len - 1
    BY <1>8, <1>9, ReachUp
  <2>2. Load!Reach(Load!Segment(base + o.code_seg, o.code_len - 1, FALSE, FALSE, 3))
          = base + o.code_seg .. (base + o.code_seg) + o.code_len - 1
    BY <1>8, <1>9, ReachUp
  <2>3. Load!Reach(Load!Segment(base + o.data_seg, o.data_len - 1, FALSE, FALSE, 3))
          = base + o.data_seg .. (base + o.data_seg) + o.data_len - 1
    BY <1>8, <1>9, ReachUp
  <2>4. l[2].dpl = 3
    BY <1>5 DEF Load!Segment
  <2> QED BY <1>5, <1>6, <2>1, <2>2, <2>3, <2>4, Zenon
<1>11. /\ Load!Reach(l[4]) = Load!Given(p, "stack3") /\ l[4].dpl = 3
       /\ Load!Reach(l[5]) = Load!Given(p, "stack0") /\ l[5].dpl = 0
       /\ Load!Reach(l[6]) = Load!Given(p, "stack1") /\ l[6].dpl = 1
       /\ Load!Reach(l[7]) = Load!Given(p, "stack2") /\ l[7].dpl = 2
  <2>1. 1 \in Nat /\ 1 > 0
    OBVIOUS
  <2>2. PICK k \in Nat : k = o.stack_len /\ k > 0
    BY <1>8
  <2>3. /\ IsStack(l[4], Load!ToSet(block), p, "stack3", k, 3)
        /\ IsStack(l[5], Load!ToSet(block), p, "stack0", 1, 0)
        /\ IsStack(l[6], Load!ToSet(block), p, "stack1", 1, 1)
        /\ IsStack(l[7], Load!ToSet(block), p, "stack2", 1, 2)
    BY <1>5, <2>2
  <2>4. Load!Reach(l[4]) = Load!Given(p, "stack3") /\ l[4].dpl = 3
    <3>1. k > 0 /\ IsStack(l[4], Load!ToSet(block), p, "stack3", k, 3)
      BY <2>2, <2>3
    <3> QED BY <3>1, StackReach
  <2>5. Load!Reach(l[5]) = Load!Given(p, "stack0") /\ l[5].dpl = 0
    BY <2>1, <2>3, StackReach
  <2>6. Load!Reach(l[6]) = Load!Given(p, "stack1") /\ l[6].dpl = 1
    BY <2>1, <2>3, StackReach
  <2>7. Load!Reach(l[7]) = Load!Given(p, "stack2") /\ l[7].dpl = 2
    BY <2>1, <2>3, StackReach
  <2> QED BY <2>4, <2>5, <2>6, <2>7
<1>12. Load!BaseOf(p, "image") + 0 .. Load!BaseOf(p, "image") + 0 + o.head_len - 1
         = base .. base + o.head_len - 1
  BY <1>6, <1>9
<1>13. \A sel \in {tss[p].ss, tss[p].ss0, tss[p].ss1, tss[p].ss2, tss[p].cs} :
          Load!At(p, sel).dpl = sel.rpl
  BY <1>4, <1>10, <1>11, Zenon DEF s
<1> QED BY <1>4, <1>6, <1>7, <1>10, <1>11, <1>12, <1>13, Zenon DEF s

-----------------------------------------------------------------------------
(* The symbols.                                                            *)

Known(entry) == { c \in Load!ToSet(CSalt) : c.name = entry.name }

(* The loop over the kernel's symbols, step by step.                       *)
LEMMA BindSteps ==
    ASSUME Load!LoaderAssumption, NEW entry
    PROVE  \E f :
             /\ Load!Bind(entry) = f[Len(CSalt)] /\ f[0] = entry
             /\ \A i \in 1 .. Len(CSalt) :
                   f[i] = IF f[i - 1].name = CSalt[i].name THEN Load!Bound(CSalt[i]) ELSE f[i - 1]
<1> DEFINE top == Len(CSalt)
           E(g, i) == IF i = 0 THEN entry
                      ELSE IF g[i - 1].name = CSalt[i].name THEN Load!Bound(CSalt[i]) ELSE g[i - 1]
           D(g) == [i \in 0 .. top |-> E(g, i)]
           C == CHOOSE g : g = D(g)
           Good(g, n) == \A i \in 0 .. n : g[i] = E(g, i)
           S == { n \in Nat : n <= top => \E g : Good(g, n) }
<1>1. Load!Bind(entry) = C[top]
  BY DEF Load!Bind
<1>2. top \in Nat
  <2>1. CSalt \in Seq([name : STRING, gate : Nat])
    BY Zenon DEF Load!LoaderAssumption
  <2> QED BY <2>1
<1> HIDE DEF top
<1>3. S = Nat
  <2>1. 0 \in S
    <3>1. PICK g : g = [i \in {0} |-> entry]
      OBVIOUS
    <3>2. g[0] = entry /\ \A i \in 0 .. 0 : i = 0
      BY <3>1
    <3>3. Good(g, 0)
      BY <3>2
    <3> QED BY <3>3
  <2>2. ASSUME NEW n \in S
        PROVE  n + 1 \in S
    <3>1. CASE n + 1 <= top
      <4>1. n <= top /\ n \in Nat
        BY <1>2, <3>1
      <4>2. PICK g : Good(g, n)
        BY <4>1
      <4>3. PICK h : h = [i \in 0 .. n + 1 |-> IF i = n + 1 THEN E(g, n + 1) ELSE g[i]]
        OBVIOUS
      <4>4. h[n + 1] = E(g, n + 1) /\ \A i \in 0 .. n : h[i] = g[i]
        <5> HIDE DEF E
        <5> QED BY <4>1, <4>3
      <4>5. ASSUME NEW i \in 0 .. n + 1
            PROVE  h[i] = E(h, i)
        <5>1. E(h, i) = E(g, i)
          <6>1. CASE i = 0
            BY <6>1
          <6>2. CASE i # 0
            <7>1. i - 1 \in 0 .. n
              BY <4>1, <6>2
            <7>2. h[i - 1] = g[i - 1]
              BY <4>4, <7>1
            <7> QED BY <7>2
          <6> QED BY <6>1, <6>2
        <5>2. CASE i = n + 1
          BY <4>4, <5>1, <5>2
        <5>3. CASE i # n + 1
          <6>1. i \in 0 .. n
            BY <4>1, <5>3
          <6>2. g[i] = E(g, i)
            BY <4>2, <6>1
          <6> QED BY <4>4, <5>1, <6>1, <6>2
        <5> QED BY <5>2, <5>3
      <4>6. Good(h, n + 1)
        BY <4>5
      <4> HIDE DEF Good
      <4> QED BY <4>1, <4>6
    <3>2. CASE ~(n + 1 <= top)
      BY <3>2
    <3> QED BY <3>1, <3>2
  <2> HIDE DEF S
  <2>3. S \in SUBSET Nat
    BY DEF S
  <2> QED BY <2>1, <2>2, <2>3, List!SetInduction
<1>4. PICK g : Good(g, top)
  <2>1. top \in S
    BY <1>2, <1>3
  <2> QED BY <1>2, <2>1
<1>5. PICK h : h = D(g) /\ \A i \in 0 .. top : h[i] = g[i]
  <2>1. \A i \in 0 .. top : D(g)[i] = E(g, i)
    OBVIOUS
  <2> QED BY <1>4, <2>1
<1>6. \A i \in 0 .. top : E(h, i) = E(g, i)
  <2> TAKE i \in 0 .. top
  <2>1. CASE i = 0
    BY <2>1
  <2>2. CASE i # 0
    <3>1. i - 1 \in 0 .. top
      BY <1>2, <2>2
    <3>2. h[i - 1] = g[i - 1]
      BY <1>5, <3>1
    <3> QED BY <3>2
  <2> QED BY <2>1, <2>2
<1>7. D(h) = h
  BY <1>5, <1>6 DEF D
<1>8. C = D(C)
  BY <1>7
<1>9. ASSUME NEW i \in 0 .. top
      PROVE  C[i] = E(C, i)
  <2>1. D(C)[i] = E(C, i)
    OBVIOUS
  <2> HIDE DEF C, D, E
  <2> QED BY <1>8, <2>1
<1> HIDE DEF C
<1>10. C[0] = entry
  <2>1. 0 \in 0 .. top
    BY <1>2
  <2> QED BY <1>9, <2>1
<1>11. ASSUME NEW i \in 1 .. top
       PROVE  C[i] = IF C[i - 1].name = CSalt[i].name THEN Load!Bound(CSalt[i]) ELSE C[i - 1]
  <2>1. i \in 0 .. top /\ i # 0
    BY <1>2
  <2>2. C[i] = E(C, i)
    BY <1>9, <2>1
  <2> QED BY <2>1, <2>2, Zenon
<1> QED BY <1>1, <1>10, <1>11 DEF top

LEMMA BindFinds ==
    ASSUME Load!LoaderAssumption, NEW entry
    PROVE  Load!Bind(entry) \in IF Known(entry) = {} THEN {entry}
                           ELSE { Load!Bound(c) : c \in Known(entry) }
<1> DEFINE top == Len(CSalt)
<1>1. PICK f :
        /\ Load!Bind(entry) = f[top] /\ f[0] = entry
        /\ \A i \in 1 .. top :
              f[i] = IF f[i - 1].name = CSalt[i].name THEN Load!Bound(CSalt[i]) ELSE f[i - 1]
  BY BindSteps
<1>2. CSalt \in Seq([name : STRING, gate : Nat]) /\ \A c \in Load!ToSet(CSalt) : c.name # ""
  BY Zenon DEF Load!LoaderAssumption
<1>3. top \in Nat /\ DOMAIN CSalt = 1 .. top
  <2> DEFINE T == [name : STRING, gate : Nat]
  <2>1. CSalt \in Seq(T)
    BY <1>2
  <2> HIDE DEF T
  <2> QED BY <2>1
<1> HIDE DEF top
<1>4. \A i \in 1 .. top : CSalt[i] \in Load!ToSet(CSalt) /\ CSalt[i].name # ""
  BY <1>2, <1>3 DEF Load!ToSet
<1> DEFINE Unbound(i) == f[i] = entry /\ \A j \in 1 .. i : CSalt[j].name # entry.name
           Done(i) == \E c \in Known(entry) : f[i] = Load!Bound(c)
           S == { n \in Nat : n <= top => Unbound(n) \/ Done(n) }
<1>5. 0 \in S
  BY <1>1
<1>6. ASSUME NEW n \in S
      PROVE  n + 1 \in S
  <2>1. CASE n + 1 <= top
    <3>1. n \in Nat /\ n <= top /\ n + 1 \in 1 .. top
      BY <1>3, <2>1
    <3>2. f[n + 1] = IF f[n].name = CSalt[n + 1].name THEN Load!Bound(CSalt[n + 1]) ELSE f[n]
      <4>1. (n + 1) - 1 = n
        BY <3>1
      <4>2. f[n + 1] = IF f[(n + 1) - 1].name = CSalt[n + 1].name THEN Load!Bound(CSalt[n + 1])
                       ELSE f[(n + 1) - 1]
        BY <1>1, <3>1
      <4> QED BY <4>1, <4>2, Zenon
    <3>3. CSalt[n + 1] \in Load!ToSet(CSalt) /\ CSalt[n + 1].name # ""
      BY <1>4, <3>1
    <3>4. CASE Done(n)
      <4>1. PICK c \in Known(entry) : f[n] = Load!Bound(c)
        BY <3>4
      <4>2. f[n].name = ""
        <5>1. Load!Bound(c).name = ""
          BY DEF Load!Bound
        <5> QED BY <4>1, <5>1, Zenon
      <4>3. f[n + 1] = f[n]
        BY <3>2, <3>3, <4>2, Zenon
      <4>4. Done(n + 1)
        BY <4>1, <4>3
      <4> HIDE DEF Unbound, Done
      <4> QED BY <3>1, <4>4
    <3>5. CASE Unbound(n)
      <4>1. CASE entry.name = CSalt[n + 1].name
        <5>1. f[n + 1] = Load!Bound(CSalt[n + 1]) /\ CSalt[n + 1] \in Known(entry)
          BY <3>2, <3>3, <3>5, <4>1 DEF Known
        <5>2. Done(n + 1)
          BY <5>1
        <5> HIDE DEF Unbound, Done
        <5> QED BY <3>1, <5>2
      <4>2. CASE entry.name # CSalt[n + 1].name
        <5>1. f[n + 1] = entry
          BY <3>2, <3>5, <4>2
        <5>2. \A j \in 1 .. n + 1 : CSalt[j].name # entry.name
          <6> TAKE j \in 1 .. n + 1
          <6>1. j = n + 1 \/ j \in 1 .. n
            BY <3>1
          <6> QED BY <3>5, <4>2, <6>1
        <5>3. Unbound(n + 1)
          BY <5>1, <5>2
        <5> HIDE DEF Unbound, Done
        <5> QED BY <3>1, <5>3
      <4> QED BY <4>1, <4>2
    <3>6. Unbound(n) \/ Done(n)
      BY <3>1
    <3> QED BY <3>4, <3>5, <3>6
  <2>2. CASE ~(n + 1 <= top)
    BY <2>2
  <2> QED BY <2>1, <2>2
<1>7. S = Nat
  <2> HIDE DEF S
  <2>1. S \in SUBSET Nat
    BY DEF S
  <2> QED BY <1>5, <1>6, <2>1, List!SetInduction
<1>8. Unbound(top) \/ Done(top)
  <2>1. top \in S
    BY <1>3, <1>7
  <2> QED BY <1>3, <2>1
<1>9. CASE Done(top)
  BY <1>1, <1>9
<1>10. CASE Unbound(top)
  <2>1. Known(entry) = {}
    <3>1. ASSUME NEW c \in Known(entry)
          PROVE  FALSE
      <4>1. PICK i \in 1 .. top : c = CSalt[i]
        BY <1>3 DEF Known, Load!ToSet
      <4> QED BY <1>10, <4>1 DEF Known
    <3> QED BY <3>1
  <2> QED BY <1>1, <1>10, <2>1
<1> QED BY <1>8, <1>9, <1>10

LEMMA SaltHolds ==
    ASSUME Load!LoaderAssumption, LoaderIInv
    PROVE  Load!SaltIsBound
<1> SUFFICES ASSUME NEW p \in Applications, Load!Loaded(p), NEW i \in DOMAIN header[p].usalt
             PROVE  LET asked == Load!Said(p).usalt[i]
                        known == { c \in Load!ToSet(CSalt) : c.name = asked.name }
                    IN  header[p].usalt[i] \in IF known = {} THEN {asked}
                                              ELSE { Load!Bound(c) : c \in known }
  BY DEF Load!SaltIsBound
<1> DEFINE o == Original(header[p])
<1>1. Made("ready", p, header[p], ldt[p], tcb[p], tss[p], Load!ToSet(block))
  BY LoadedIsReady DEF LoaderIInv, AllMade
<1>2. header[p].usalt = [j \in DOMAIN o.usalt |-> Load!Bind(o.usalt[j])]
  BY <1>1 DEF Made, HeaderAt
<1>3. header[p].usalt[i] = Load!Bind(o.usalt[i])
  BY <1>2
<1>4. Load!Said(p) = o
  BY SaidOriginal
<1> HIDE DEF o
<1>5. Load!Bind(o.usalt[i]) \in IF Known(o.usalt[i]) = {} THEN {o.usalt[i]}
                           ELSE { Load!Bound(c) : c \in Known(o.usalt[i]) }
  BY BindFinds
<1> QED BY <1>3, <1>4, <1>5, Zenon DEF Known

-----------------------------------------------------------------------------
(* Types.                                                                  *)

LEMMA TypeHolds ==
    ASSUME Load!LoaderAssumption, LoaderIInv
    PROVE  Load!TypeOK
<1>1. at = Load!Idle \/ at.p \in Applications
  BY DEF LoaderIInv, Position, Load!AtPc
<1>2. ram_alloc \in Start .. Load!Space
  BY RamFits, Sizes
<1>3. read.ecx \in 0 .. Load!Space
  <2>1. CASE at.pc # "read"
    BY <2>1, Sizes DEF LoaderIInv, Reading
  <2>2. CASE at.pc = "read"
    <3>1. at # Load!Idle
      BY <2>2 DEF Load!Idle
    <3>2. PICK p \in Applications : at.p = p /\ Load!Begun(p) /\ Stage(p) = "read"
      <4>1. PICK pc \in Places, p \in Applications : Load!AtPc(pc, p) /\ Load!Begun(p)
        BY <3>1 DEF LoaderIInv, Position
      <4>2. at.p = p
        BY <4>1 DEF Load!AtPc
      <4>3. Stage(p) = "read"
        BY <2>2, <3>1, <4>1, <4>2 DEF Stage
      <4> QED BY <4>1, <4>2, <4>3
    <3>3. PICK b \in Load!ToSet(block) : b.p = p /\ b.what = "image" /\ b.bytes = Load!Rounded(header[p].size)
      BY <3>2, ImageBlock
    <3>4. PICK eax \in Nat, ecx \in Nat, d \in Nat, n \in Nat, space \in Nat :
            /\ eax = read.eax /\ ecx = read.ecx /\ d = SectorBytes /\ d > 0 /\ n = b.bytes
            /\ space = Load!Space /\ n <= space /\ (eax + ecx) * d = n
      <4>1. b.bytes \in Nat /\ b.base \in Nat /\ b.base + b.bytes <= Load!Space
        BY BlockFacts
      <4>2. /\ read.eax \in Nat /\ read.ecx \in Nat
            /\ (read.eax + read.ecx) * SectorBytes = Load!Rounded(header[p].size)
        BY <2>2, <3>2 DEF LoaderIInv, Reading
      <4>3. SectorBytes \in Nat /\ SectorBytes > 0 /\ Load!Space \in Nat
        BY Sizes
      <4>4. b.bytes <= Load!Space
        BY <4>1, <4>3
      <4> QED BY <3>3, <4>1, <4>2, <4>3, <4>4
    <3>5. ecx <= (eax + ecx) * d
      <4>1. PICK k \in Nat : d = 1 + k
        BY <3>4
      <4>2. (eax + ecx) * d = (eax + ecx) + ((eax + ecx) * k) /\ (eax + ecx) * k \in Nat
        BY <4>1
      <4> QED BY <4>2
    <3> QED BY <3>4, <3>5
  <2> QED BY <2>1, <2>2
<1>4. ASSUME NEW b \in Load!ToSet(block)
      PROVE  b.base \in Start .. Load!Space /\ b.bytes \in 1 .. Load!Space
  BY BlockFacts, Sizes
<1>5. ASSUME NEW p \in Applications
      PROVE  Len(ldt[p]) \in {0, 4, 7}
  BY DEF LoaderIInv, AllMade, Made, LdtAt
<1> QED BY <1>1, <1>2, <1>3, <1>4, <1>5 DEF Load!TypeOK

-----------------------------------------------------------------------------
(* The invariant of the loader, while it is looked at.                     *)
LoaderInv == part = "loader" => LoaderIInv

LEMMA LoaderStart ==
    ASSUME Init
    PROVE  LoaderInv
<1>1. CASE part = "loader"
  <2>1. Load!Init
    BY <1>1 DEF Init, DiskInit, LoaderInit, TablesInit, ListInit
  <2> QED BY <2>1, PartsAssumption, LoaderInitInvariant DEF LoaderInv
<1> QED BY <1>1 DEF LoaderInv

LEMMA LoaderKeep ==
    ASSUME LoaderInv, [Next]_v
    PROVE  LoaderInv'
<1> SUFFICES ASSUME part' = "loader"
             PROVE  LoaderIInv'
  BY DEF LoaderInv
<1>1. CASE LoaderStep
  <2>1. LoaderIInv /\ [Load!Next]_(Load!vars)
    BY <1>1 DEF LoaderStep, LoaderInv
  <2> QED BY <2>1, PartsAssumption, LoaderStepKeeps
<1>2. CASE DiskStep \/ TablesStep \/ ListStep
  BY <1>2 DEF DiskStep, TablesStep, ListStep
<1>3. CASE UNCHANGED v
  <2>1. LoaderIInv /\ [Load!Next]_(Load!vars)
    BY <1>3 DEF v, Load!vars, LoaderInv
  <2> QED BY <2>1, PartsAssumption, LoaderStepKeeps
<1> QED BY <1>1, <1>2, <1>3 DEF Next

(* However many programs are loaded, with whatever headers: each lies in   *)
(* memory as on the disk, its segments reach what they were made for, its  *)
(* symbols are bound to the gates of those names, and no block overlaps    *)
(* another (c15_core.asm:403).                                             *)
THEOREM ProgramsAlwaysWhole == Spec => []ProgramsAreWhole
<1>1. Init => LoaderInv
  BY LoaderStart
<1>2. LoaderInv /\ [Next]_v => LoaderInv'
  BY LoaderKeep
<1>3. LoaderInv => ProgramsAreWhole
  BY PartsAssumption, SegmentsHold, DisjointHolds, ImageHolds, CoreHolds, SaltHolds
  DEF LoaderInv, ProgramsAreWhole
<1> QED BY <1>1, <1>2, <1>3, PTL DEF Spec

-----------------------------------------------------------------------------
(* The invariants of all parts together.                                   *)
PartIsKnown == part \in {"disk", "loader", "tables", "list"}

(* Each part keeps its types, whichever it is that is looked at.           *)
THEOREM TypeCorrect == Spec => []TypeOK
<1>1. Init => PartIsKnown /\ DiskInv /\ LoaderInv /\ TablesInv /\ ListInv
  <2>1. Init => PartIsKnown
    BY DEF Init, DiskInit, LoaderInit, TablesInit, ListInit, PartIsKnown
  <2> QED BY <2>1, DiskStart, LoaderStart, TablesStart, ListBegins
<1>2. PartIsKnown /\ [Next]_v => PartIsKnown'
  BY DEF Next, DiskStep, LoaderStep, TablesStep, ListStep, v, PartIsKnown
<1>3. DiskInv /\ [Next]_v => DiskInv'
  BY DiskKeep
<1>4. LoaderInv /\ [Next]_v => LoaderInv'
  BY LoaderKeep
<1>5. TablesInv /\ [Next]_v => TablesInv'
  BY TablesKeep
<1>6. ListInv /\ [Next]_v => ListInv'
  BY ListKeeps
<1>7. PartIsKnown /\ DiskInv /\ LoaderInv /\ TablesInv /\ ListInv => TypeOK
  <2>1. part = "disk" /\ DiskInv => Disk!TypeOK
    BY PartsAssumption, Disk!InvariantTypes DEF DiskInv
  <2>2. part = "loader" /\ LoaderInv => Load!TypeOK
    BY PartsAssumption, TypeHolds DEF LoaderInv
  <2>3. part = "tables" /\ TablesInv => Tables!TypeOK
    BY PartsAssumption, Tables!InvariantTyped DEF TablesInv
  <2>4. part = "list" /\ ListInv => List!TypeOK
    BY PartsAssumption, List!InvariantTypes DEF ListInv
  <2> QED BY <2>1, <2>2, <2>3, <2>4 DEF PartIsKnown, TypeOK
<1> QED BY <1>1, <1>2, <1>3, <1>4, <1>5, <1>6, <1>7, PTL DEF Spec
=============================================================================
