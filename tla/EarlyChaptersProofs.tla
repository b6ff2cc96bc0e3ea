------------------------ MODULE EarlyChaptersProofs -------------------------
(***************************************************************************)
(* Proofs about the programs of the early chapters, for every value of the *)
(* constants: the loaders, the clock and the keys of real mode, and the    *)
(* task switches of the first kernel with a program manager.  What the     *)
(* runs check of them is not inductive; each part begins with what has to  *)
(* be added.                                                               *)
(***************************************************************************)
EXTENDS RealMode, TaskSwitch, TLAPS, FiniteSetTheorems, SequenceTheorems

-----------------------------------------------------------------------------
(* The task switches, for every number of programs and every choice of     *)
(* CALL and JMP: that a switch is legal depends on the flags the manager's *)
(* TSS image holds while it does not run, and on what the copy of NT in    *)
(* EDX was taken from.                                                     *)

(* Before ltr nothing has happened.                                        *)
Boot ==
    tr = NoTask =>
        /\ pc[Manager] = "ltr"
        /\ busy = {}
        /\ made = 0
        /\ ~nt

(* The manager is never nested; what it starts is loaded and not nested.   *)
ManagerRuns ==
    tr = Manager =>
        /\ ~nt
        /\ pc[Manager] \in {"load", "start"}
        /\ pc[Manager] = "start" =>
            made \in User /\ ~flag[made] /\ pc[made] = "user"

(* While a program runs the manager waits after its start, with NT clear   *)
(* in its image; NT says how the program was started.                      *)
ProgramRuns ==
    tr \in User =>
        /\ tr = made
        /\ pc[Manager] = "load"
        /\ ~flag[Manager]
        /\ nt => how[tr] = "call" /\ link[tr] = Manager
        /\ ~nt => how[tr] = "jmp"
        /\ pc[tr] \in {"user", "test", "jmp", "iretd"}
        /\ pc[tr] = "test" => edx = nt
        /\ pc[tr] = "jmp" => ~nt
        /\ pc[tr] = "iretd" => nt

SwitchIInv == TypeOK /\ Boot /\ BusyIsChain /\ ManagerRuns /\ ProgramRuns

-----------------------------------------------------------------------------
LEMMA SwitchInitInv == Init => SwitchIInv
<1> SUFFICES ASSUME Init PROVE SwitchIInv
    OBVIOUS
<1> USE ProgramsAssumption DEF Init, Task, User, Manager, NoTask
<1>1. TypeOK
    <2>1. flag \in [Task -> BOOLEAN] /\ nt \in BOOLEAN /\ edx \in BOOLEAN
        BY Zenon
    <2>2. pc[Manager] = "ltr"
        OBVIOUS
    <2> QED BY <2>1, <2>2 DEF TypeOK
<1>2. Boot /\ BusyIsChain /\ ManagerRuns /\ ProgramRuns
    BY DEF Boot, BusyIsChain, ManagerRuns, ProgramRuns
<1> QED BY <1>1, <1>2 DEF SwitchIInv

LEMMA SwitchStepInv == SwitchIInv /\ [Next]_vars => SwitchIInv'
<1> SUFFICES ASSUME SwitchIInv, [Next]_vars PROVE SwitchIInv'
    OBVIOUS
<1> USE ProgramsAssumption
    DEF SwitchIInv, TypeOK, Boot, BusyIsChain, ManagerRuns, ProgramRuns,
        Task, User, Manager, NoTask
<1>1. CASE Ltr
    <2>1. tr = NoTask
        BY <1>1 DEF Ltr
    <2>2. TypeOK'
        BY <1>1 DEF Ltr
    <2>3. (Boot /\ ManagerRuns /\ ProgramRuns)'
        BY <1>1, <2>1 DEF Ltr
    <2>4. BusyIsChain'
        <3>1. busy' = {tr'} /\ ~nt'
            BY <1>1, <2>1 DEF Ltr
        <3> QED BY <3>1, Zenon
    <2> QED BY <2>2, <2>3, <2>4
<1>2. CASE Load
    BY <1>2 DEF Load, InheritedFlags
<1>3. CASE StartTask
    <2>1. PICK source \in {"call", "jmp"} :
            CallOrJmp(source, made) /\ how' = [how EXCEPT ![made] = source]
        BY <1>3 DEF StartTask
    <2>2. tr = Manager /\ pc[Manager] = "start" /\ made \in User
        BY <1>3 DEF StartTask
    <2>3. CASE source = "call"
        <3>1. /\ busy' = busy \cup {made}
              /\ link' = [link EXCEPT ![made] = tr]
              /\ flag' = [flag EXCEPT ![tr] = nt /\ made \notin busy]
              /\ nt' = TRUE
              /\ tr' = made
            BY <2>1, <2>3 DEF CallOrJmp, Switch, Released, Linked, Saved
        <3>2. TypeOK'
            BY <1>3, <2>1, <2>2, <3>1 DEF StartTask
        <3>3. (Boot /\ BusyIsChain /\ ManagerRuns)'
            BY <1>3, <2>2, <3>1 DEF StartTask
        <3>4. ProgramRuns'
            BY <1>3, <2>1, <2>2, <2>3, <3>1 DEF StartTask
        <3> QED BY <3>2, <3>3, <3>4
    <2>4. CASE source = "jmp"
        BY <1>3, <2>1, <2>2, <2>4
            DEF StartTask, CallOrJmp, Switch, Released, Linked, Saved
    <2> QED BY <2>1, <2>3, <2>4
<1>4. ASSUME NEW u \in User, CallTerminate(u) PROVE SwitchIInv'
    BY <1>4 DEF CallTerminate
<1>5. ASSUME NEW u \in User, TestNt(u) PROVE SwitchIInv'
    BY <1>5 DEF TestNt
<1>6. ASSUME NEW u \in User, JmpManager(u) PROVE SwitchIInv'
    BY <1>6 DEF JmpManager, CallOrJmp, Switch, Released, Linked, Saved
<1>7. ASSUME NEW u \in User, IretdNested(u) PROVE SwitchIInv'
    BY <1>7 DEF IretdNested, Iret, Switch, Released, Linked, Saved
<1>8. CASE UNCHANGED vars
    BY <1>8 DEF vars
<1> QED BY <1>1, <1>2, <1>3, <1>4, <1>5, <1>6, <1>7, <1>8 DEF Next, Terminate

(* The strengthened invariant holds for every number of programs.         *)
THEOREM SwitchInductive == Spec => []SwitchIInv
<1> QED BY SwitchInitInv, SwitchStepInv, PTL DEF Spec

(* The registers and TSS fields keep their types.                          *)
THEOREM SwitchTypes == Spec => []TypeOK
<1>1. SwitchIInv => TypeOK
    BY DEF SwitchIInv
<1> QED BY <1>1, SwitchInductive, PTL

(* No CALL or JMP goes to a busy task and no IRETD to one that is not: the *)
(* processor never faults in a task switch.                                *)
THEOREM SwitchesLegal == Spec => []SwitchIsLegal
<1>1. SwitchIInv => SwitchIsLegal
    <2> SUFFICES ASSUME SwitchIInv PROVE SwitchIsLegal
        OBVIOUS
    <2> USE DEF SwitchIInv, BusyIsChain, ManagerRuns, ProgramRuns, User, Manager, NoTask
    <2>1. ASSUME tr = Manager, pc[Manager] = "start" PROVE made \notin busy
        <3>1. tr # NoTask /\ ~nt /\ made \in User
            BY <2>1
        <3>2. busy = {tr}
            BY <3>1, Zenon
        <3> QED BY <2>1, <3>1, <3>2, ProgramsAssumption
    <2>2. ASSUME tr \in User, pc[tr] = "jmp" PROVE Manager \notin busy
        <3>1. tr # NoTask /\ ~nt
            BY <2>2, ProgramsAssumption
        <3>2. busy = {tr}
            BY <3>1, Zenon
        <3> QED BY <2>2, <3>2, ProgramsAssumption
    <2>3. ASSUME tr \in User, pc[tr] = "iretd" PROVE nt /\ link[tr] \in busy
        BY <2>3, ProgramsAssumption
    <2> QED BY <2>1, <2>2, <2>3 DEF SwitchIsLegal
<1> QED BY <1>1, SwitchInductive, PTL

(* The busy descriptors are those of the running task and of the one it is *)
(* nested in.                                                              *)
THEOREM BusyChain == Spec => []BusyIsChain
<1>1. SwitchIInv => BusyIsChain
    BY DEF SwitchIInv
<1> QED BY <1>1, SwitchInductive, PTL

(* A program leaves by the counterpart of the instruction that started it. *)
THEOREM AsStarted == Spec => []EndsAsStarted
<1>1. SwitchIInv => EndsAsStarted
    BY DEF SwitchIInv, ProgramRuns, EndsAsStarted
<1> QED BY <1>1, SwitchInductive, PTL

-----------------------------------------------------------------------------
LEMMA TurnsInit == Init => Turns!Init
<1> SUFFICES ASSUME Init PROVE Turns!Init
    OBVIOUS
<1>1. tr = NoTask /\ tr \notin User /\ pc[Manager] = "ltr" /\ made = 0
    BY ProgramsAssumption DEF Init, NoTask, User, Manager, Task
<1> QED BY <1>1 DEF Turns!Init, Turns!Manager, Manager

LEMMA TurnsStep == SwitchIInv /\ SwitchIInv' /\ [Next]_vars => [Turns!Next]_Turns!vars
<1> SUFFICES ASSUME SwitchIInv, SwitchIInv', [Next]_vars PROVE [Turns!Next]_Turns!vars
    OBVIOUS
<1> USE ProgramsAssumption
    DEF SwitchIInv, TypeOK, Boot, ManagerRuns, ProgramRuns, User, Task, Manager,
        NoTask, Turns!Manager
<1>1. CASE Ltr
    BY <1>1 DEF Ltr, Turns!vars
<1>2. CASE Load
    BY <1>2 DEF Load, Turns!vars
<1>3. CASE StartTask
    <2>1. /\ tr = Manager /\ pc[Manager] = "start" /\ made \in User
          /\ tr' = made /\ made' = made /\ pc'[Manager] = "load"
        BY <1>3 DEF StartTask, CallOrJmp, Switch
    <2> QED BY <2>1 DEF Turns!Next, Turns!Start
<1>4. ASSUME NEW u \in User, CallTerminate(u) PROVE UNCHANGED Turns!vars
    BY <1>4 DEF CallTerminate, Turns!vars
<1>5. ASSUME NEW u \in User, TestNt(u) PROVE UNCHANGED Turns!vars
    BY <1>5 DEF TestNt, Turns!vars
<1>6. ASSUME NEW u \in User, JmpManager(u) PROVE Turns!Next
    <2>1. /\ tr = u /\ tr = made /\ made' = made /\ tr' = Manager
          /\ pc[Manager] = "load" /\ pc'[Manager] = "load"
        BY <1>6 DEF JmpManager, CallOrJmp, Switch
    <2> QED BY <2>1 DEF Turns!Next, Turns!End
<1>7. ASSUME NEW u \in User, IretdNested(u) PROVE Turns!Next
    <2>1. /\ tr = u /\ tr = made /\ made' = made /\ tr' = Manager
          /\ pc[Manager] = "load" /\ pc'[Manager] = "load"
        BY <1>7 DEF IretdNested, Iret, Switch
    <2> QED BY <2>1 DEF Turns!Next, Turns!End
<1>8. CASE UNCHANGED vars
    BY <1>8 DEF vars, Turns!vars
<1> QED BY <1>1, <1>2, <1>3, <1>4, <1>5, <1>6, <1>7, <1>8 DEF Next, Terminate

(* The manager and the programs take turns: the processor's task switches  *)
(* implement the coroutines (the safety part; that every program ends is   *)
(* checked with TLC).                                                      *)
THEOREM SwitchTakesTurns == Spec => Turns!Spec
<1> QED BY SwitchInductive, TurnsInit, TurnsStep, PTL DEF Spec, Turns!Spec

-----------------------------------------------------------------------------
(* The loaders.  Their variables by their own names.                       *)
bootPc == v1
said == v2
ds == v3
si == v4
cx == v5
saved == v6
mem == v7
segments == v8
texts == v9

USE DEF bootPc, said, ds, si, cx, saved, mem, segments, texts

LEMMA LoaderAssumed == Loader!RealLoaderAssumption
BY RealModeAssumption

(* The first n sectors lie in memory.                                      *)
Holds(n) == mem = [a \in PhyBase .. PhyBase + n * Loader!Sector - 1 |-> a - PhyBase]

SegmentFinds(s, address) ==
    s \in 0 .. Word - 1 /\ s * Para = PhyBase + address

Address(i) == IF i = 1 THEN said.entry ELSE said.table[i - 1]

LoaderIInv ==
    /\ said \in Headers
    /\ bootPc \in {"first", "rest", "direct", "realloc", "message", "program"}
    /\ bootPc = "first" => ds * Para = PhyBase /\ si = 0 /\ cx = 0 /\ saved = << >> /\ mem = << >>
    /\ bootPc = "rest" => /\ si \in Nat /\ cx \in Nat \ {0} /\ si + cx = Loader!Rest(said.size)
                          /\ ds * Para = PhyBase + si * Loader!Sector
                          /\ saved = <<PhyBase \div Para>>
                          /\ Holds(si + 1)
    /\ bootPc \notin {"first", "rest"} => ds = PhyBase \div Para /\ Holds(Loader!Rest(said.size) + 1)
    /\ ds \in Nat
    /\ bootPc \notin {"realloc", "program"} => segments = << >>
    /\ bootPc \in {"direct", "message"} => cx = 0
    /\ bootPc = "realloc" => cx \in Nat \ {0} /\ cx + Len(segments) = Len(said.table) + 1
    /\ bootPc = "realloc" => Len(segments) >= 1
    /\ bootPc = "program" => cx = 0
    /\ segments \in Seq(0 .. Word - 1)
    /\ Len(segments) <= Len(said.table) + 1
    /\ \A i \in DOMAIN segments : segments[i] * Para = PhyBase + Address(i)

-----------------------------------------------------------------------------
(* Arithmetic.                                                             *)

(* The loader's sets are counted as all sets are.                          *)
LEMMA SameFinite == \A S : Loader!IsFiniteSet(S) <=> IsFiniteSet(S)
BY DEF Loader!IsFiniteSet, IsFiniteSet

LEMMA SameCardinality == \A S : Loader!Cardinality(S) = Cardinality(S)
BY DEF Loader!Cardinality, Cardinality

LEMMA DivMod ==
    ASSUME NEW a \in Int, NEW d \in Nat \ {0}
    PROVE  a = d * (a \div d) + (a % d) /\ a % d \in 0 .. d - 1 /\ a \div d \in Int
OBVIOUS

LEMMA Multiple ==
    ASSUME NEW a \in Nat, NEW d \in Nat \ {0}, a % d = 0
    PROVE  a \div d \in Nat /\ (a \div d) * d = a
OBVIOUS

LEMMA Quotient ==
    ASSUME NEW q \in Nat, NEW r \in Nat, NEW d \in Nat \ {0}, r < d
    PROVE  (q * d + r) \div d = q /\ (q * d + r) % d = r
<1>1. q * d \in Nat
  OBVIOUS
<1>2. PICK x \in Int : x = q * d + r
  BY <1>1
<1>3. PICK k, m : k = x \div d /\ m = x % d
  OBVIOUS
<1>4. q * d + r = d * k + m /\ m \in 0 .. d - 1 /\ k \in Int
  <2>1. x = d * (x \div d) + (x % d) /\ x % d \in 0 .. d - 1 /\ x \div d \in Int
    BY DivMod
  <2> QED BY <1>2, <1>3, <2>1
<1>5. k = q
  <2>1. d * (k - q) = r - m
    BY <1>4
  <2>2. ASSUME k - q >= 1 PROVE FALSE
    <3>1. d * (k - q) >= d
      BY <1>4, <2>2
    <3> QED BY <1>4, <2>1, <3>1
  <2>3. ASSUME k - q <= -1 PROVE FALSE
    <3>1. d * (k - q) <= -d
      BY <1>4, <2>3
    <3> QED BY <1>4, <2>1, <3>1
  <2> QED BY <1>4, <2>2, <2>3
<1>6. m = r
  BY <1>4, <1>5
<1> QED BY <1>2, <1>3, <1>5, <1>6

LEMMA Cancel ==
    ASSUME NEW a \in Nat, NEW b \in Nat, NEW d \in Nat \ {0}
    PROVE  /\ a * d = b * d => a = b
           /\ a * d < b * d <=> a < b
           /\ a * d <= b * d <=> a <= b
<1>1. CASE a < b
  <2>1. (b - a) * d >= d
    BY <1>1
  <2> QED BY <1>1, <2>1
<1>2. CASE a > b
  <2>1. (a - b) * d >= d
    BY <1>2
  <2> QED BY <1>2, <2>1
<1>3. CASE a = b
  BY <1>3
<1> QED BY <1>1, <1>2, <1>3

LEMMA Grows ==
    ASSUME NEW n \in Nat, NEW s \in Nat
    PROVE  (n + 1) * s = n * s + s /\ n * s \in Nat
OBVIOUS

(* What is known of the constants.                                         *)
LEMMA Sizes ==
    ASSUME Loader!RealLoaderAssumption
    PROVE  /\ Word \in Nat \ {0} /\ Para \in Nat \ {0} /\ SectorParas \in Nat \ {0}
           /\ Loader!Sector \in Nat \ {0} /\ Loader!Sector = SectorParas * Para
           /\ PhyBase \in Nat
           /\ PhyBase \div Para \in Nat /\ (PhyBase \div Para) * Para = PhyBase
           /\ Word \div Para \in Nat /\ (Word \div Para) * Para = Word
           /\ Word * Para \in Nat
<1>1. /\ Word \in Nat \ {0} /\ Para \in Nat \ {0} /\ SectorParas \in Nat \ {0}
      /\ Word % Para = 0 /\ PhyBase \in Nat /\ PhyBase % Para = 0
  BY Zenon DEF Loader!RealLoaderAssumption
<1>2. Loader!Sector \in Nat \ {0} /\ Loader!Sector = SectorParas * Para
  <2>1. SectorParas * Para \in Nat /\ SectorParas * Para # 0
    BY <1>1
  <2> QED BY <2>1 DEF Loader!Sector
<1>3. Word * Para \in Nat
  BY <1>1
<1> QED BY <1>1, <1>2, <1>3, Multiple

LEMMA HeaderFacts ==
    ASSUME Loader!RealLoaderAssumption, NEW h \in Headers
    PROVE  /\ h.size \in Nat \ {0} /\ h.entry \in Nat /\ h.table \in Seq(Nat)
           /\ PhyBase + h.size + Loader!Sector <= Word * Para
           /\ Len(h.table) \in 1 .. Word - 1
           /\ h.entry < h.size /\ h.entry % Para = 0
           /\ \A i \in 1 .. Len(h.table) :
                 h.table[i] \in Nat /\ h.table[i] < h.size /\ h.table[i] % Para = 0
<1>1. h \in [size : Nat \ {0}, entry : Nat, table : Seq(Nat)]
  BY Zenon DEF Loader!RealLoaderAssumption
<1>2. h.size \in Nat \ {0} /\ h.entry \in Nat /\ h.table \in Seq(Nat)
  BY <1>1
<1>3. /\ PhyBase + h.size + Loader!Sector <= Word * Para
      /\ Len(h.table) \in 1 .. Word - 1
      /\ h.entry < h.size /\ h.entry % Para = 0
      /\ \A i \in DOMAIN h.table : h.table[i] < h.size /\ h.table[i] % Para = 0
  BY Zenon DEF Loader!RealLoaderAssumption
<1>4. DOMAIN h.table = 1 .. Len(h.table) /\ \A i \in 1 .. Len(h.table) : h.table[i] \in Nat
  BY <1>2
<1> QED BY <1>2, <1>3, <1>4

LEMMA RestIs ==
    ASSUME Loader!RealLoaderAssumption, NEW h \in Headers
    PROVE  /\ Loader!Rest(h.size) \in Nat /\ Loader!Rest(h.size) < Word
           /\ h.size <= (Loader!Rest(h.size) + 1) * Loader!Sector
           /\ (Loader!Rest(h.size) + 1) * Loader!Sector < h.size + Loader!Sector
<1>1. PICK n, s, k, m : n = h.size /\ s = Loader!Sector /\ k = n \div s /\ m = n % s
  OBVIOUS
<1>2. /\ n \in Nat \ {0} /\ s \in Nat \ {0}
      /\ PhyBase + n + s <= Word * Para
  BY <1>1, HeaderFacts, Sizes
<1>3. n = s * k + m /\ m \in 0 .. s - 1 /\ k \in Int
  <2>1. n = s * (n \div s) + (n % s) /\ n % s \in 0 .. s - 1 /\ n \div s \in Int
    BY <1>2, DivMod
  <2> QED BY <1>1, <2>1
<1>4. k >= 0
  <2>1. ASSUME k <= -1 PROVE FALSE
    <3>1. s * k <= -s
      BY <1>2, <1>3, <2>1
    <3> QED BY <1>2, <1>3, <3>1
  <2> QED BY <1>3, <2>1
<1>5. PICK r : r = IF m # 0 THEN k ELSE k - 1
  OBVIOUS
<1>6. r = Loader!Rest(h.size)
  BY <1>1, <1>5 DEF Loader!Rest
<1>7. r \in Nat /\ n <= (r + 1) * s /\ (r + 1) * s < n + s
  <2>1. CASE m # 0
    <3>1. r = k /\ (r + 1) * s = s * k + s
      BY <1>2, <1>3, <1>5, <2>1
    <3> QED BY <1>2, <1>3, <1>4, <2>1, <3>1
  <2>2. CASE m = 0
    <3>1. r = k - 1 /\ (r + 1) * s = s * k
      BY <1>2, <1>3, <1>5, <2>2
    <3>2. k # 0
      BY <1>2, <1>3, <2>2
    <3> QED BY <1>2, <1>3, <1>4, <2>2, <3>1, <3>2
  <2> QED BY <2>1, <2>2
<1>8. r < Word
  <2>1. (r + 1) * s <= Word * Para
    BY <1>2, <1>7, Sizes
  <2>2. s >= Para
    <3>1. (SectorParas - 1) * Para >= 0
      BY Sizes
    <3> QED BY <1>1, <3>1, Sizes
  <2>3. (r + 1) * Para <= (r + 1) * s
    <3>1. (r + 1) * (s - Para) >= 0
      BY <1>2, <1>7, <2>2, Sizes
    <3> QED BY <1>2, <1>7, <3>1, Sizes
  <2>4. (r + 1) * Para <= Word * Para
    BY <1>2, <1>7, <2>1, <2>3, Sizes
  <2>5. r + 1 <= Word
    BY <1>7, <2>4, Sizes, Cancel
  <2> QED BY <1>7, <2>5, Sizes
<1> QED BY <1>1, <1>6, <1>7, <1>8

(* The sum of two dwords, added as words with a carry, and the four bits   *)
(* moved between them.                                                     *)
LEMMA SegmentIs ==
    ASSUME Loader!RealLoaderAssumption, NEW a \in Nat, a % Para = 0, PhyBase + a < Word * Para
    PROVE  SegmentFinds(Loader!calc_segment_base(a), a)
<1>1. PICK w, p : w = Word /\ p = Para
  OBVIOUS
<1>2. w \in Nat \ {0} /\ p \in Nat \ {0} /\ PhyBase \in Nat /\ PhyBase + a < w * p
  BY <1>1, Sizes
<1>3. PICK k \in Nat : w = k * p
  BY <1>1, Sizes
<1>4. PICK b \in Nat : PhyBase = b * p
  BY <1>1, Sizes
<1>5. PICK c \in Nat : a = c * p
  BY <1>1, <1>2, Multiple
<1>6. PICK ah, al, bh, bl : /\ ah = a \div w /\ al = a % w
                            /\ bh = PhyBase \div w /\ bl = PhyBase % w
  OBVIOUS
<1>7. a = w * ah + al /\ al \in 0 .. w - 1 /\ ah \in Int
  <2>1. a = w * (a \div w) + (a % w) /\ a % w \in 0 .. w - 1 /\ a \div w \in Int
    BY <1>2, DivMod
  <2> QED BY <1>6, <2>1
<1>8. PhyBase = w * bh + bl /\ bl \in 0 .. w - 1 /\ bh \in Int
  <2>1. /\ PhyBase = w * (PhyBase \div w) + (PhyBase % w)
        /\ PhyBase % w \in 0 .. w - 1 /\ PhyBase \div w \in Int
    BY <1>2, DivMod
  <2> QED BY <1>6, <2>1
<1>9. PICK lh, ll : lh = (al + bl) \div w /\ ll = (al + bl) % w
  OBVIOUS
<1>10. al + bl = w * lh + ll /\ ll \in 0 .. w - 1 /\ lh \in Int
  <2>1. PICK x \in Int : x = al + bl
    BY <1>7, <1>8
  <2>2. x = w * (x \div w) + (x % w) /\ x % w \in 0 .. w - 1 /\ x \div w \in Int
    BY <1>2, DivMod
  <2> QED BY <1>9, <2>1, <2>2
<1>11. PICK dx : dx = ah + bh + lh
  OBVIOUS
<1>12. dx \in Int /\ a + PhyBase = w * dx + ll
  <2>1. w * dx = w * ah + w * bh + w * lh
    BY <1>2, <1>7, <1>8, <1>10, <1>11
  <2>2. w * dx \in Int /\ w * ah \in Int /\ w * bh \in Int /\ w * lh \in Int
    BY <1>2, <1>7, <1>8, <1>10, <1>11
  <2> QED BY <1>2, <1>7, <1>8, <1>10, <1>11, <2>1, <2>2
<1>13. dx >= 0 /\ dx < p
  <2>1. ASSUME dx <= -1 PROVE FALSE
    <3>1. w * dx <= -w
      BY <1>2, <1>12, <2>1
    <3> QED BY <1>2, <1>10, <1>12, <3>1
  <2>2. ASSUME dx >= p PROVE FALSE
    <3>1. w * (dx - p) >= 0
      BY <1>2, <1>12, <2>2
    <3>2. w * dx >= w * p
      BY <1>2, <1>12, <3>1
    <3> QED BY <1>2, <1>10, <1>12, <3>2
  <2> QED BY <1>2, <1>12, <2>1, <2>2
<1>14. p <= w
  <2>1. k # 0
    BY <1>2, <1>3
  <2>2. (k - 1) * p >= 0
    BY <1>2, <2>1
  <2> QED BY <1>2, <1>3, <2>2
<1>15. Loader!Sum(a) = [ax |-> ll, dx |-> dx % w]
  BY <1>1, <1>6, <1>9, <1>11 DEF Loader!Sum
<1>16. dx \in Nat /\ dx % w = dx /\ dx % p = dx
  <2>1. dx \in Nat /\ dx < w
    BY <1>2, <1>12, <1>13, <1>14
  <2> QED BY <1>2, <1>13, <2>1
<1>17. PICK q, r : q = ll \div p /\ r = ll % p
  OBVIOUS
<1>18. ll = p * q + r /\ r \in 0 .. p - 1 /\ q \in Int
  <2>1. ll = p * (ll \div p) + (ll % p) /\ ll % p \in 0 .. p - 1 /\ ll \div p \in Int
    BY <1>2, <1>10, DivMod
  <2> QED BY <1>17, <2>1
<1>19. PICK s : s = q + dx * k
  OBVIOUS
<1>20. s = Loader!calc_segment_base(a)
  <2>1. Word \div Para = k
    <3>1. PICK x \in Nat : x = Word \div Para
      BY Sizes
    <3>2. x * p = k * p
      BY <1>1, <1>3, <3>1, Sizes
    <3> QED BY <1>2, <3>1, <3>2, Cancel
  <2>2. Loader!Sum(a).ax = ll /\ Loader!Sum(a).dx = dx
    BY <1>15, <1>16
  <2> QED BY <1>1, <1>16, <1>17, <1>19, <2>1, <2>2 DEF Loader!calc_segment_base
<1>21. s \in Int /\ s * p + r = PhyBase + a
  <2>1. dx * k \in Int /\ s \in Int
    BY <1>16, <1>18, <1>19
  <2>2. (dx * k) * p = w * dx
    BY <1>2, <1>3, <1>16
  <2>3. s * p = p * q + (dx * k) * p
    BY <1>2, <1>18, <1>19, <2>1
  <2>4. p * q \in Int /\ s * p \in Int /\ w * dx \in Int
    BY <1>2, <1>16, <1>18, <2>1
  <2> QED BY <1>2, <1>10, <1>12, <1>18, <2>1, <2>2, <2>3, <2>4
<1>22. r = 0
  <2>1. PICK e \in Int : e = b + c - s
    BY <1>21
  <2>2. e * p = r
    <3>1. e * p = b * p + c * p - s * p
      BY <1>2, <1>21, <2>1
    <3>2. b * p \in Int /\ c * p \in Int /\ s * p \in Int
      BY <1>2, <1>21
    <3> QED BY <1>2, <1>4, <1>5, <1>18, <1>21, <3>1, <3>2
  <2>3. CASE e = 0
    BY <1>2, <2>2, <2>3
  <2>4. CASE e >= 1
    <3>1. (e - 1) * p >= 0
      BY <1>2, <2>4
    <3> QED BY <1>2, <1>18, <2>2, <3>1
  <2>5. CASE e <= -1
    <3>1. (-1 - e) * p >= 0
      BY <1>2, <2>5
    <3>2. e * p <= -p
      BY <1>2, <3>1
    <3> QED BY <1>2, <1>18, <2>2, <3>2
  <2> QED BY <2>3, <2>4, <2>5
<1>23. s * p = PhyBase + a
  <2>1. s * p \in Int
    BY <1>2, <1>21
  <2> QED BY <1>2, <1>21, <1>22, <2>1
<1>24. s >= 0 /\ s < w
  <2>1. ASSUME s <= -1 PROVE FALSE
    <3>1. (-1 - s) * p >= 0
      BY <1>2, <1>21, <2>1
    <3>2. s * p <= -p
      BY <1>2, <1>21, <3>1
    <3> QED BY <1>2, <1>23, <3>2
  <2>2. ASSUME s >= w PROVE FALSE
    <3>1. (s - w) * p >= 0
      BY <1>2, <1>21, <2>2
    <3>2. s * p >= w * p
      BY <1>2, <1>21, <3>1
    <3> QED BY <1>2, <1>23, <3>2
  <2> QED BY <1>2, <1>21, <2>1, <2>2
<1> QED BY <1>1, <1>2, <1>20, <1>21, <1>23, <1>24 DEF SegmentFinds

-----------------------------------------------------------------------------
(* A sector read to a segment that begins where the last sector ended.     *)
LEMMA ReadHolds ==
    ASSUME Loader!RealLoaderAssumption, NEW n \in Nat, NEW seg \in Nat,
           seg * Para = PhyBase + n * Loader!Sector,
           PhyBase + (n + 1) * Loader!Sector <= Word * Para,
           n = 0 => mem = << >>, n # 0 => Holds(n), Loader!Read(seg, n)
    PROVE  Holds(n + 1)'
<1>1. PICK b, s, k, top : b = PhyBase /\ s = Loader!Sector /\ k = n * s /\ top = Word * Para
  OBVIOUS
<1>2. /\ b \in Nat /\ s \in Nat \ {0} /\ k \in Nat /\ top \in Nat
      /\ (n + 1) * s = k + s /\ b + k + s <= top /\ seg * Para = b + k
  <2>1. b \in Nat /\ s \in Nat \ {0} /\ top \in Nat
    BY <1>1, Sizes
  <2>2. k \in Nat /\ (n + 1) * s = k + s
    BY <1>1, <2>1
  <2> QED BY <1>1, <2>1, <2>2
<1>3. \A o \in 0 .. s - 1 : Loader!Linear(seg, o) = b + k + o
  <2> TAKE o \in 0 .. s - 1
  <2>1. b + k + o \in 0 .. top - 1
    BY <1>2
  <2>2. (b + k + o) % top = b + k + o
    BY <1>2, <2>1
  <2> QED BY <1>1, <1>2, <2>2 DEF Loader!Linear
<1>4. PICK here : here = { Loader!Linear(seg, o) : o \in 0 .. s - 1 }
  OBVIOUS
<1>5. here = b + k .. b + k + s - 1
  <2>1. ASSUME NEW a \in here PROVE a \in b + k .. b + k + s - 1
    <3>1. PICK o \in 0 .. s - 1 : a = Loader!Linear(seg, o)
      BY <1>4
    <3> QED BY <1>2, <1>3, <3>1
  <2>2. ASSUME NEW a \in b + k .. b + k + s - 1 PROVE a \in here
    <3>1. PICK o \in 0 .. s - 1 : a = b + k + o
      <4>1. a - b - k \in 0 .. s - 1 /\ a = b + k + (a - b - k)
        BY <1>2
      <4> QED BY <4>1
    <3> QED BY <1>3, <1>4, <3>1
  <2> QED BY <2>1, <2>2
<1>6. PICK old : old = DOMAIN mem
  OBVIOUS
<1>7. old = b .. b + k - 1 /\ \A a \in old : mem[a] = a - b
  <2>1. CASE n = 0
    <3>1. mem = << >> /\ k = 0
      BY <1>1, <1>2, <2>1
    <3>2. old = {}
      BY <1>6, <3>1
    <3> QED BY <1>2, <3>1, <3>2
  <2>2. CASE n # 0
    <3>1. mem = [a \in b .. b + k - 1 |-> a - b]
      BY <1>1, <2>2 DEF Holds
    <3> QED BY <1>6, <3>1
  <2> QED BY <2>1, <2>2
<1>8. \A a \in here : k + (CHOOSE o \in 0 .. s - 1 : Loader!Linear(seg, o) = a) = a - b
  <2> TAKE a \in here
  <2>1. \E o \in 0 .. s - 1 : Loader!Linear(seg, o) = a
    BY <1>4
  <2>2. PICK o : o = CHOOSE oo \in 0 .. s - 1 : Loader!Linear(seg, oo) = a
    OBVIOUS
  <2>3. o \in 0 .. s - 1 /\ Loader!Linear(seg, o) = a
    BY <2>1, <2>2, Zenon
  <2>4. a = b + k + o
    BY <1>3, <2>3
  <2>5. k + o = a - b
    BY <1>2, <2>3, <2>4
  <2> QED BY <2>2, <2>5
<1>9. mem' = [a \in old \cup here |->
                 IF a \in here THEN k + (CHOOSE o \in 0 .. s - 1 : Loader!Linear(seg, o) = a)
                 ELSE mem[a]]
  BY <1>1, <1>4, <1>6 DEF Loader!Read
<1>10. mem' = [a \in old \cup here |-> a - b]
  <2>1. \A a \in old \cup here :
           (IF a \in here THEN k + (CHOOSE o \in 0 .. s - 1 : Loader!Linear(seg, o) = a)
                           ELSE mem[a]) = a - b
    BY <1>7, <1>8, Zenon
  <2> QED BY <1>9, <2>1, Zenon
<1>11. old \cup here = b .. b + k + s - 1
  BY <1>2, <1>5, <1>7
<1>12. mem' = [a \in b .. b + (n + 1) * s - 1 |-> a - b]
  BY <1>2, <1>10, <1>11
<1> QED BY <1>1, <1>12 DEF Holds

(* Every sector lies within the linear addresses.                          *)
LEMMA SectorFits ==
    ASSUME Loader!RealLoaderAssumption, NEW h \in Headers, NEW n \in Nat, n <= Loader!Rest(h.size)
    PROVE  PhyBase + (n + 1) * Loader!Sector <= Word * Para
<1>1. PICK r, s : r = Loader!Rest(h.size) /\ s = Loader!Sector
  OBVIOUS
<1>2. r \in Nat /\ s \in Nat \ {0} /\ (r + 1) * s < h.size + s
  BY <1>1, RestIs, Sizes
<1>3. (r - n) * s >= 0
  BY <1>1, <1>2
<1>4. (n + 1) * s <= (r + 1) * s /\ (n + 1) * s \in Nat /\ (r + 1) * s \in Nat
  BY <1>1, <1>2, <1>3
<1>5. PhyBase + h.size + s <= Word * Para /\ h.size \in Nat
  BY <1>1, HeaderFacts
<1> QED BY <1>1, <1>2, <1>4, <1>5, Sizes

(* A segment register that points into the addresses is a word.            *)
LEMMA DsIsWord ==
    ASSUME Loader!RealLoaderAssumption, NEW h \in Headers, NEW n \in Nat, n <= Loader!Rest(h.size),
           NEW d \in Nat, d * Para = PhyBase + n * Loader!Sector
    PROVE  d < Word
<1>1. PhyBase + (n + 1) * Loader!Sector <= Word * Para
  BY SectorFits
<1>2. (n + 1) * Loader!Sector = n * Loader!Sector + Loader!Sector /\ n * Loader!Sector \in Nat
  BY Sizes
<1>3. d * Para < Word * Para
  BY <1>1, <1>2, Sizes
<1> QED BY <1>3, Sizes, Cancel

LEMMA LoaderInitInvariant ==
    ASSUME Loader!RealLoaderAssumption, Loader!Init
    PROVE  LoaderIInv
<1>1. ds * Para = PhyBase /\ ds \in Nat
  BY Sizes DEF Loader!Init
<1>2. segments \in Seq(0 .. Word - 1) /\ DOMAIN segments = {} /\ Len(segments) = 0
  BY DEF Loader!Init
<1>3. Len(said.table) \in Nat
  BY HeaderFacts DEF Loader!Init
<1> QED BY <1>1, <1>2, <1>3 DEF Loader!Init, LoaderIInv

LEMMA ReadFirstKeeps ==
    ASSUME Loader!RealLoaderAssumption, LoaderIInv, Loader!ReadFirst
    PROVE  LoaderIInv'
<1>1. /\ bootPc = "first" /\ Loader!Read(ds, si) /\ cx' = Loader!Rest(said.size)
      /\ IF cx' = 0 THEN bootPc' = "direct" /\ saved' = saved
         ELSE bootPc' = "rest" /\ saved' = Append(saved, ds)
      /\ UNCHANGED <<said, ds, si, segments, texts>>
  BY DEF Loader!ReadFirst
<1>2. /\ said \in Headers /\ ds \in Nat /\ ds * Para = PhyBase /\ si = 0
      /\ mem = << >> /\ saved = << >> /\ segments = << >>
      /\ segments \in Seq(0 .. Word - 1) /\ Len(segments) <= Len(said.table) + 1
  BY <1>1 DEF LoaderIInv
<1>3. Loader!Rest(said.size) \in Nat
  BY <1>2, RestIs
<1>4. Holds(1)'
  <2>1. ds * Para = PhyBase + 0 * Loader!Sector
    BY <1>2, Sizes
  <2>2. PhyBase + (0 + 1) * Loader!Sector <= Word * Para
    BY <1>2, <1>3, SectorFits
  <2>3. Loader!Read(ds, 0)
    BY <1>1, <1>2
  <2>4. Holds(0 + 1)'
    BY <1>2, <2>1, <2>2, <2>3, ReadHolds
  <2> QED BY <2>4
<1>5. ds = PhyBase \div Para
  <2>1. PICK b \in Nat : b = PhyBase \div Para
    BY Sizes
  <2>2. ds * Para = b * Para
    BY <1>2, <2>1, Sizes
  <2> QED BY <1>2, <2>1, <2>2, Sizes, Cancel
<1>6. CASE cx' = 0
  <2>1. Holds(Loader!Rest(said.size) + 1)'
    BY <1>1, <1>4, <1>6
  <2> QED BY <1>1, <1>2, <1>5, <1>6, <2>1 DEF LoaderIInv, Address
<1>7. CASE cx' # 0
  <2>1. saved' = <<PhyBase \div Para>>
    BY <1>1, <1>2, <1>5, <1>7
  <2>2. Holds(si + 1)'
    BY <1>1, <1>2, <1>4
  <2>3. ds * Para = PhyBase + si * Loader!Sector
    BY <1>2, Sizes
  <2>4. cx' \in Nat \ {0} /\ si + cx' = Loader!Rest(said.size) /\ si \in Nat
    BY <1>1, <1>2, <1>3, <1>7
  <2> QED BY <1>1, <1>2, <1>7, <2>1, <2>2, <2>3, <2>4 DEF LoaderIInv, Address
<1> QED BY <1>6, <1>7

LEMMA ReadRestKeeps ==
    ASSUME Loader!RealLoaderAssumption, LoaderIInv, Loader!ReadRest
    PROVE  LoaderIInv'
<1>1. /\ bootPc = "rest" /\ si' = si + 1 /\ cx' = cx - 1
      /\ Loader!Read((ds + SectorParas) % Word, si')
      /\ IF cx' = 0 THEN ds' = saved[1] /\ saved' = << >> /\ bootPc' = "direct"
         ELSE ds' = (ds + SectorParas) % Word /\ UNCHANGED <<saved, bootPc>>
      /\ UNCHANGED <<said, segments, texts>>
  BY DEF Loader!ReadRest
<1>2. /\ said \in Headers /\ ds \in Nat /\ ds * Para = PhyBase + si * Loader!Sector
      /\ si \in Nat /\ cx \in Nat \ {0} /\ si + cx = Loader!Rest(said.size)
      /\ saved = <<PhyBase \div Para>> /\ Holds(si + 1) /\ segments = << >>
      /\ segments \in Seq(0 .. Word - 1) /\ Len(segments) <= Len(said.table) + 1
  BY <1>1 DEF LoaderIInv
<1>3. PICK d : d = ds + SectorParas
  OBVIOUS
<1>4. d \in Nat /\ d * Para = PhyBase + (si + 1) * Loader!Sector
  <2>1. PICK x, y, p : x = ds /\ y = SectorParas /\ p = Para
    OBVIOUS
  <2>2. x \in Nat /\ y \in Nat /\ p \in Nat
    BY <1>2, <2>1, Sizes
  <2>3. (x + y) * p = x * p + y * p /\ x * p \in Nat /\ y * p \in Nat
    BY <2>2
  <2>4. (si + 1) * Loader!Sector = si * Loader!Sector + Loader!Sector /\ si * Loader!Sector \in Nat
    BY <1>2, Sizes, Grows
  <2>5. x * p = PhyBase + si * Loader!Sector /\ y * p = Loader!Sector /\ PhyBase \in Nat /\ Loader!Sector \in Nat
    BY <1>2, <2>1, Sizes
  <2>6. (x + y) * p = PhyBase + (si + 1) * Loader!Sector
    BY <2>3, <2>4, <2>5
  <2> QED BY <1>3, <2>1, <2>2, <2>6
<1>5. si + 1 <= Loader!Rest(said.size) /\ si + 1 \in Nat
  BY <1>2, RestIs
<1>6. d < Word
  BY <1>2, <1>4, <1>5, DsIsWord
<1>7. (ds + SectorParas) % Word = d
  BY <1>3, <1>4, <1>6, Sizes
<1>8. mem' = [a \in PhyBase .. PhyBase + (si + 2) * Loader!Sector - 1 |-> a - PhyBase]
  <2>1. PhyBase + ((si + 1) + 1) * Loader!Sector <= Word * Para
    BY <1>2, <1>5, SectorFits
  <2>2. Loader!Read(d, si + 1)
    BY <1>1, <1>7
  <2>3. PICK n \in Nat : n = si + 1
    BY <1>2
  <2>4. n # 0 /\ d * Para = PhyBase + n * Loader!Sector /\ Holds(n) /\ Loader!Read(d, n)
        /\ PhyBase + (n + 1) * Loader!Sector <= Word * Para
    BY <1>2, <1>4, <2>1, <2>2, <2>3
  <2>5. Holds(n + 1)'
    BY <1>4, <2>4, ReadHolds
  <2>6. n + 1 = si + 2
    BY <1>2, <2>3
  <2>7. mem' = [a \in PhyBase .. PhyBase + (n + 1) * Loader!Sector - 1 |-> a - PhyBase]
    BY <2>5 DEF Holds
  <2> QED BY <2>6, <2>7
<1>9. CASE cx' = 0
  <2>1. ds' = PhyBase \div Para /\ ds' \in Nat
    BY <1>1, <1>2, <1>9, Sizes
  <2>2. si + 2 = Loader!Rest(said.size) + 1
    BY <1>1, <1>2, <1>9
  <2>3. Holds(Loader!Rest(said.size) + 1)'
    <3> QED BY <1>1, <1>8, <2>2 DEF Holds
  <2> QED BY <1>1, <1>2, <1>9, <2>1, <2>3 DEF LoaderIInv, Address
<1>10. CASE cx' # 0
  <2>1. ds' = d /\ UNCHANGED <<saved, bootPc>>
    BY <1>1, <1>7, <1>10
  <2>2. ds' * Para = PhyBase + si' * Loader!Sector /\ ds' \in Nat
    BY <1>1, <1>4, <2>1
  <2>3. si' \in Nat /\ cx' \in Nat \ {0} /\ si' + cx' = Loader!Rest(said.size)
    BY <1>1, <1>2, <1>10
  <2>4. Holds(si + 1)'
    <3>1. si + 2 = si' + 1
      BY <1>1, <1>2
    <3> QED BY <1>8, <3>1 DEF Holds
  <2> QED BY <1>1, <1>2, <2>1, <2>2, <2>3, <2>4 DEF LoaderIInv, Address
<1> QED BY <1>9, <1>10

(* One more section's address has become a segment.                        *)
LEMMA OneMore ==
    ASSUME Loader!RealLoaderAssumption, LoaderIInv, UNCHANGED <<said, mem, ds>>,
           NEW a, Len(segments) <= Len(said.table),
           a = IF Len(segments) = 0 THEN said.entry ELSE said.table[Len(segments)],
           segments' = Append(segments, Loader!calc_segment_base(a))
    PROVE  /\ segments' \in Seq(0 .. Word - 1)
           /\ Len(segments') = Len(segments) + 1
           /\ Len(segments') <= Len(said'.table) + 1
           /\ \A i \in DOMAIN segments' : segments'[i] * Para = PhyBase + Address(i)'
<1>1. said \in Headers /\ segments \in Seq(0 .. Word - 1)
  BY DEF LoaderIInv
<1>2. PICK n \in Nat : n = Len(segments)
  BY <1>1
<1>3. /\ a \in Nat /\ a % Para = 0 /\ a < said.size
      /\ said.size \in Nat /\ PhyBase + said.size + Loader!Sector <= Word * Para
      /\ Len(said.table) \in Nat
  <2>1. CASE n = 0
    BY <1>1, <1>2, <2>1, HeaderFacts
  <2>2. CASE n # 0
    <3>1. n \in 1 .. Len(said.table)
      BY <1>1, <1>2, <2>2, HeaderFacts
    <3> QED BY <1>1, <1>2, <2>2, <3>1, HeaderFacts
  <2> QED BY <2>1, <2>2
<1>4. PhyBase + a < Word * Para
  <2>1. PICK b, z, top : b = PhyBase /\ z = Loader!Sector /\ top = Word * Para
    OBVIOUS
  <2>2. b \in Nat /\ z \in Nat /\ top \in Nat
    BY <2>1, Sizes
  <2>3. b + said.size + z <= top
    BY <1>3, <2>1
  <2> QED BY <1>3, <2>1, <2>2, <2>3
<1>5. PICK s \in 0 .. Word - 1 : s = Loader!calc_segment_base(a) /\ s * Para = PhyBase + a
  BY <1>3, <1>4, SegmentIs DEF SegmentFinds
<1>6. PICK t : t = segments'
  OBVIOUS
<1>7. t = Append(segments, s)
  BY <1>5, <1>6
<1>8. /\ t \in Seq(0 .. Word - 1) /\ Len(t) = n + 1
      /\ \A i \in 1 .. n : t[i] = segments[i]
      /\ t[n + 1] = s
  BY <1>1, <1>2, <1>7
<1>9. \A i \in 1 .. n : segments[i] * Para = PhyBase + Address(i)
  BY <1>1, <1>2 DEF LoaderIInv
<1>10. Address(n + 1) = a
  <2>1. CASE n = 0
    BY <1>2, <2>1 DEF Address
  <2>2. CASE n # 0
    <3>1. n + 1 # 1 /\ n + 1 - 1 = n
      BY <2>2
    <3> QED BY <1>2, <2>2, <3>1 DEF Address
  <2> QED BY <2>1, <2>2
<1>11. \A i : Address(i)' = Address(i)
  BY DEF Address
<1>12. \A i \in 1 .. n + 1 : t[i] * Para = PhyBase + Address(i)
  <2> TAKE i \in 1 .. n + 1
  <2>1. CASE i \in 1 .. n
    BY <1>8, <1>9, <2>1
  <2>2. CASE i = n + 1
    BY <1>5, <1>8, <1>10, <2>2
  <2> QED BY <2>1, <2>2
<1>13. DOMAIN t = 1 .. n + 1
  BY <1>8
<1> QED BY <1>2, <1>3, <1>6, <1>8, <1>11, <1>12, <1>13

LEMMA DirectKeeps ==
    ASSUME Loader!RealLoaderAssumption, LoaderIInv, Loader!Direct
    PROVE  LoaderIInv'
<1>1. /\ bootPc = "direct" /\ segments' = <<Loader!calc_segment_base(said.entry)>>
      /\ cx' = Len(said.table) /\ bootPc' = "realloc"
      /\ UNCHANGED <<said, ds, si, saved, mem, texts>>
  BY DEF Loader!Direct
<1>2. /\ said \in Headers /\ segments = << >> /\ ds = PhyBase \div Para
      /\ Holds(Loader!Rest(said.size) + 1) /\ ds \in Nat
  BY <1>1 DEF LoaderIInv
<1>3. Len(said.table) \in Nat \ {0} /\ Len(segments) = 0
  BY <1>2, HeaderFacts
<1>4. segments' = Append(segments, Loader!calc_segment_base(said.entry))
  BY <1>1, <1>2
<1>5. /\ segments' \in Seq(0 .. Word - 1)
      /\ Len(segments') = Len(segments) + 1
      /\ Len(segments') <= Len(said'.table) + 1
      /\ \A i \in DOMAIN segments' : segments'[i] * Para = PhyBase + Address(i)'
  BY <1>1, <1>3, <1>4, OneMore
<1>6. Holds(Loader!Rest(said.size) + 1)'
  BY <1>1, <1>2 DEF Holds
<1> QED BY <1>1, <1>2, <1>3, <1>5, <1>6 DEF LoaderIInv

LEMMA ReallocKeeps ==
    ASSUME Loader!RealLoaderAssumption, LoaderIInv, Loader!Realloc
    PROVE  LoaderIInv'
<1>1. /\ bootPc = "realloc"
      /\ segments' = Append(segments, Loader!calc_segment_base(said.table[Len(segments)]))
      /\ cx' = cx - 1 /\ bootPc' = IF cx' = 0 THEN "program" ELSE bootPc
      /\ UNCHANGED <<said, ds, si, saved, mem, texts>>
  BY DEF Loader!Realloc
<1>2. /\ said \in Headers /\ segments \in Seq(0 .. Word - 1) /\ ds = PhyBase \div Para
      /\ Holds(Loader!Rest(said.size) + 1) /\ ds \in Nat
      /\ cx \in Nat \ {0} /\ cx + Len(segments) = Len(said.table) + 1
      /\ Len(segments) >= 1
  BY <1>1 DEF LoaderIInv
<1>3. Len(said.table) \in Nat /\ Len(segments) \in Nat /\ Len(segments) <= Len(said.table)
  BY <1>2, HeaderFacts
<1>4. PICK a : a = said.table[Len(segments)]
  OBVIOUS
<1>5. /\ segments' \in Seq(0 .. Word - 1)
      /\ Len(segments') = Len(segments) + 1
      /\ Len(segments') <= Len(said'.table) + 1
      /\ \A i \in DOMAIN segments' : segments'[i] * Para = PhyBase + Address(i)'
  <2>1. a = IF Len(segments) = 0 THEN said.entry ELSE said.table[Len(segments)]
    BY <1>2, <1>4
  <2> QED BY <1>1, <1>3, <1>4, <2>1, OneMore
<1>6. Holds(Loader!Rest(said.size) + 1)'
  BY <1>1, <1>2 DEF Holds
<1> QED BY <1>1, <1>2, <1>3, <1>5, <1>6 DEF LoaderIInv

LEMMA MessageKeeps ==
    ASSUME Loader!RealLoaderAssumption, LoaderIInv, Loader!Message \/ Loader!FallThrough
    PROVE  LoaderIInv'
<1>1. /\ \/ bootPc = "direct" /\ bootPc' = "message"
         \/ bootPc = "message" /\ bootPc' = "program"
      /\ UNCHANGED <<said, ds, si, cx, saved, mem, segments>>
  BY DEF Loader!Message, Loader!FallThrough
<1> QED BY <1>1 DEF LoaderIInv, Holds, Address

LEMMA LoaderStepKeeps ==
    ASSUME Loader!RealLoaderAssumption, LoaderIInv, [Loader!Next]_(Loader!vars)
    PROVE  LoaderIInv'
<1>1. CASE UNCHANGED Loader!vars
  BY <1>1 DEF Loader!vars, LoaderIInv, Holds, Address
<1> QED BY <1>1, ReadFirstKeeps, ReadRestKeeps, DirectKeeps, ReallocKeeps,
           MessageKeeps DEF Loader!Next

LEMMA TypeHolds ==
    ASSUME Loader!RealLoaderAssumption, LoaderIInv
    PROVE  Loader!TypeOK
<1>1. said \in Headers /\ segments \in Seq(0 .. Word - 1)
  BY DEF LoaderIInv
<1>2. /\ Loader!Rest(said.size) \in Nat /\ Loader!Rest(said.size) < Word
      /\ Len(said.table) \in 1 .. Word - 1
  BY <1>1, RestIs, HeaderFacts
<1>3. bootPc \in {"first", "rest", "direct", "realloc", "message", "program"}
  BY DEF LoaderIInv
<1>4. cx \in 0 .. Word - 1
  <2>1. CASE bootPc = "rest"
    <3>1. si \in Nat /\ cx \in Nat /\ si + cx = Loader!Rest(said.size)
      BY <2>1 DEF LoaderIInv
    <3> QED BY <1>2, <3>1, Sizes
  <2>2. CASE bootPc = "realloc"
    <3>1. cx \in Nat /\ cx + Len(segments) = Len(said.table) + 1 /\ Len(segments) >= 1
      BY <2>2 DEF LoaderIInv
    <3>2. Len(segments) \in Nat
      BY <1>1
    <3>3. cx <= Len(said.table) /\ Len(said.table) \in Nat
      BY <1>2, <3>1, <3>2
    <3>4. PICK n, w : n = Len(said.table) /\ w = Word
      OBVIOUS
    <3>5. n \in 1 .. w - 1 /\ w \in Nat /\ cx \in Nat /\ cx <= n
      BY <1>2, <3>1, <3>3, <3>4, Sizes
    <3>6. cx \in 0 .. w - 1
      BY <3>5
    <3> QED BY <3>4, <3>6
  <2>3. CASE bootPc \notin {"rest", "realloc"}
    <3>1. cx = 0
      BY <1>3, <2>3 DEF LoaderIInv
    <3> QED BY <3>1, Sizes
  <2> QED BY <2>1, <2>2, <2>3
<1>5. ds \in 0 .. Word - 1
  <2>1. PICK n \in Nat : n <= Loader!Rest(said.size) /\ ds * Para = PhyBase + n * Loader!Sector
    <3>1. CASE bootPc = "rest"
      <4>1. si \in Nat /\ si <= Loader!Rest(said.size) /\ ds * Para = PhyBase + si * Loader!Sector
        BY <1>2, <3>1 DEF LoaderIInv
      <4> QED BY <4>1
    <3>2. CASE bootPc # "rest"
      <4>1. ds * Para = PhyBase
        BY <1>3, <3>2, Sizes DEF LoaderIInv
      <4>2. ds * Para = PhyBase + 0 * Loader!Sector
        BY <4>1, Sizes
      <4> QED BY <1>2, <4>2
    <3> QED BY <3>1, <3>2
  <2>2. ds \in Nat
    BY DEF LoaderIInv
  <2>3. ds < Word
    BY <1>1, <2>1, <2>2, DsIsWord
  <2> QED BY <2>2, <2>3, Sizes
<1>6. \A i \in DOMAIN segments : segments[i] \in 0 .. Word - 1
  <2>1. PICK S : S = 0 .. Word - 1
    OBVIOUS
  <2>2. segments \in Seq(S)
    BY <1>1, <2>1
  <2>3. \A i \in DOMAIN segments : segments[i] \in S
    BY <2>2
  <2> QED BY <2>1, <2>3
<1> QED BY <1>3, <1>4, <1>5, <1>6 DEF Loader!TypeOK

LEMMA LoadedHolds ==
    ASSUME Loader!RealLoaderAssumption, LoaderIInv
    PROVE  Loader!ProgramIsLoaded
<1> SUFFICES ASSUME bootPc \notin {"first", "rest"}
             PROVE  /\ \A i \in 0 .. said.size - 1 : mem[PhyBase + i] = i
                    /\ Loader!Cardinality(DOMAIN mem) < said.size + Loader!Sector
                    /\ ds = PhyBase \div Para
  BY DEF Loader!ProgramIsLoaded
<1>1. said \in Headers /\ ds = PhyBase \div Para /\ Holds(Loader!Rest(said.size) + 1)
  BY DEF LoaderIInv
<1>2. PICK b, k, n, s : b = PhyBase /\ k = (Loader!Rest(said.size) + 1) * Loader!Sector
                         /\ n = said.size /\ s = Loader!Sector
  OBVIOUS
<1>3. b \in Nat /\ k \in Nat /\ n \in Nat /\ s \in Nat /\ n <= k /\ k < n + s
  <2>1. PICK x \in Nat : x = Loader!Rest(said.size)
    BY <1>1, RestIs
  <2>2. s \in Nat /\ k = (x + 1) * s
    BY <1>2, <2>1, Sizes
  <2>3. k \in Nat
    BY <2>1, <2>2
  <2>4. n <= k /\ k < n + s
    BY <1>1, <1>2, RestIs
  <2> QED BY <1>1, <1>2, <2>2, <2>3, <2>4, HeaderFacts, Sizes
<1>4. mem = [a \in b .. b + k - 1 |-> a - b]
  BY <1>1, <1>2 DEF Holds
<1>5. \A i \in 0 .. n - 1 : mem[b + i] = i
  <2> TAKE i \in 0 .. n - 1
  <2>1. PICK x : x = b + i
    OBVIOUS
  <2>2. x \in b .. b + k - 1 /\ x - b = i
    BY <1>3, <2>1
  <2>3. mem[x] = x - b
    BY <1>4, <2>2
  <2> QED BY <2>1, <2>2, <2>3
<1>6. Loader!Cardinality(DOMAIN mem) = k
  <2>1. PICK t \in Int : t = b + k - 1
    BY <1>3
  <2>2. DOMAIN mem = b .. t
    BY <1>4, <2>1
  <2>3. b \in Int
    BY <1>3
  <2>4. Loader!Cardinality(b .. t) = IF b > t THEN 0 ELSE t - b + 1
    BY <2>3, FS_Interval, SameCardinality
  <2> QED BY <1>3, <2>1, <2>2, <2>4
<1> QED BY <1>1, <1>2, <1>3, <1>5, <1>6

LEMMA SegmentsHold ==
    ASSUME Loader!RealLoaderAssumption, LoaderIInv
    PROVE  Loader!SegmentsFindSections
<1> SUFFICES ASSUME NEW i \in DOMAIN segments
             PROVE  /\ Loader!Linear(segments[i], 0) \in DOMAIN mem
                    /\ mem[Loader!Linear(segments[i], 0)] = Address(i)
  BY DEF Loader!SegmentsFindSections, Address
<1>1. /\ said \in Headers /\ segments \in Seq(0 .. Word - 1)
      /\ segments[i] * Para = PhyBase + Address(i)
      /\ Len(segments) <= Len(said.table) + 1
  BY DEF LoaderIInv
<1>2. Holds(Loader!Rest(said.size) + 1)
  <2>1. segments # << >>
    BY <1>1
  <2> QED BY <2>1 DEF LoaderIInv
<1>3. i \in 1 .. Len(said.table) + 1 /\ i \in Nat /\ segments[i] \in Nat
  <2>1. Len(said.table) \in Nat
    BY <1>1, HeaderFacts
  <2>2. PICK S : S = 0 .. Word - 1
    OBVIOUS
  <2>3. segments \in Seq(S) /\ Len(segments) <= Len(said.table) + 1
    BY <1>1, <2>2
  <2>4. i \in 1 .. Len(segments) /\ Len(segments) \in Nat /\ segments[i] \in S
    BY <2>3
  <2> QED BY <2>1, <2>2, <2>3, <2>4
<1>4. Address(i) \in Nat /\ Address(i) < said.size
  <2>1. CASE i = 1
    BY <1>1, <2>1, HeaderFacts DEF Address
  <2>2. CASE i # 1
    <3>1. i - 1 \in 1 .. Len(said.table)
      <4>1. Len(said.table) \in Nat
        BY <1>1, HeaderFacts
      <4> QED BY <1>3, <2>2, <4>1
    <3> QED BY <1>1, <2>2, <3>1, HeaderFacts DEF Address
  <2> QED BY <2>1, <2>2
<1>5. PICK b, k, n, a, top : /\ b = PhyBase /\ k = (Loader!Rest(said.size) + 1) * Loader!Sector
                             /\ n = said.size /\ a = Address(i) /\ top = Word * Para
  OBVIOUS
<1>6. /\ b \in Nat /\ k \in Nat /\ n \in Nat /\ n <= k /\ a \in Nat /\ a < n
      /\ top \in Nat /\ b + n + Loader!Sector <= top /\ Loader!Sector \in Nat
  <2>1. PICK x \in Nat : x = Loader!Rest(said.size)
    BY <1>1, RestIs
  <2>2. PICK s \in Nat : s = Loader!Sector
    BY Sizes
  <2>3. k = (x + 1) * s
    BY <1>5, <2>1, <2>2
  <2>4. k \in Nat
    BY <2>1, <2>2, <2>3
  <2>5. n <= k
    BY <1>1, <1>5, RestIs
  <2> QED BY <1>1, <1>4, <1>5, <2>4, <2>5, HeaderFacts, Sizes
<1>7. mem = [x \in b .. b + k - 1 |-> x - b]
  BY <1>2, <1>5 DEF Holds
<1>8. Loader!Linear(segments[i], 0) = b + a
  <2>1. segments[i] * Para + 0 = b + a
    BY <1>1, <1>5, <1>6
  <2>2. (b + a) % top = b + a
    BY <1>6
  <2> QED BY <1>5, <2>1, <2>2 DEF Loader!Linear
<1>9. PICK x : x = b + a
  OBVIOUS
<1>10. x \in b .. b + k - 1 /\ x - b = a
  BY <1>6, <1>9
<1>11. x \in DOMAIN mem /\ mem[x] = x - b
  BY <1>7, <1>10
<1> QED BY <1>5, <1>8, <1>9, <1>10, <1>11

-----------------------------------------------------------------------------
(* The loader's invariant, while it is looked at.                          *)
LoaderInv == part = "loader" => LoaderIInv

LEMMA LoaderStart == ASSUME RealInit PROVE LoaderInv
<1>1. CASE part = "loader"
  <2>1. Loader!Init
    BY <1>1 DEF RealInit, LoaderInit, ClockInit, KeysInit
  <2> QED BY <2>1, LoaderAssumed, LoaderInitInvariant DEF LoaderInv
<1> QED BY <1>1 DEF LoaderInv

LEMMA LoaderKeep == ASSUME LoaderInv, [RealNext]_v PROVE LoaderInv'
<1> SUFFICES ASSUME part' = "loader"
             PROVE  LoaderIInv'
  BY DEF LoaderInv
<1>1. CASE LoaderStep
  <2>1. LoaderIInv /\ [Loader!Next]_(Loader!vars)
    BY <1>1 DEF LoaderStep, LoaderInv
  <2> QED BY <2>1, LoaderAssumed, LoaderStepKeeps
<1>2. CASE ClockStep \/ KeysStep
  BY <1>2 DEF ClockStep, KeysStep
<1>3. CASE UNCHANGED v
  <2>1. LoaderIInv /\ [Loader!Next]_(Loader!vars)
    BY <1>3 DEF v, Loader!vars, LoaderInv
  <2> QED BY <2>1, LoaderAssumed, LoaderStepKeeps
<1> QED BY <1>1, <1>2, <1>3 DEF RealNext

(* Whatever program is loaded: when the loader is through it lies in       *)
(* memory as on the disk, also beyond the first 64 KB, and every segment   *)
(* put into its header begins with the section it stands for               *)
(* (c08_mbr.asm:30).                                                       *)
THEOREM ProgramAlwaysLoaded == RealSpec => []ProgramIsLoaded
<1>1. RealInit => LoaderInv
  BY LoaderStart
<1>2. LoaderInv /\ [RealNext]_v => LoaderInv'
  BY LoaderKeep
<1>3. LoaderInv => ProgramIsLoaded
  BY LoaderAssumed, LoadedHolds, SegmentsHold DEF LoaderInv, ProgramIsLoaded
<1> QED BY <1>1, <1>2, <1>3, PTL DEF RealSpec

HIDE DEF bootPc, said, ds, si, cx, saved, mem, segments, texts

-----------------------------------------------------------------------------
(* The clock program.  Its variables by their own names.                   *)
time == v1
uip == v2
age == v3
enabled == v4
ended == v5
pics == v6
vector == v7
intsOpen == v8
clockPc == v9
stack == v10
digits == v11
held == v12

USE DEF time, uip, age, enabled, ended, pics, vector, intsOpen, clockPc, stack, digits, held

LEMMA UnitsHold == Clock!UnitsAssumption
BY RealModeAssumption

-----------------------------------------------------------------------------
(* Short sequences put together.                                           *)
LEMMA OneAndOne == \A a, b : <<a>> \o <<b>> = <<a, b>>
<1> TAKE a, b
<1>1. PICK S : S = {a, b}
  OBVIOUS
<1>2. PICK s, t, w : s = <<a>> /\ t = <<b>> /\ w = <<a, b>>
  OBVIOUS
<1>3. s \in Seq(S) /\ t \in Seq(S) /\ w \in Seq(S)
  BY <1>1, <1>2
<1>4. Len(s) = 1 /\ Len(t) = 1 /\ Len(w) = 2 /\ s[1] = a /\ t[1] = b /\ w[1] = a /\ w[2] = b
  BY <1>2
<1>5. PICK r : r = s \o t
  OBVIOUS
<1>6. r \in Seq(S) /\ Len(r) = 2 /\ \A i \in 1 .. 2 : r[i] = IF i <= 1 THEN s[i] ELSE t[i - 1]
  BY <1>4, <1>5, <1>3, ConcatProperties
<1>7. \A i \in 1 .. 2 : r[i] = w[i]
  BY <1>4, <1>6
<1>8. r = w
  BY <1>4, <1>6, <1>7, <1>3, SeqEqual
<1> QED BY <1>2, <1>5, <1>8

LEMMA OneAndTwo == \A a, b, c : <<a>> \o <<b, c>> = <<a, b, c>>
<1> TAKE a, b, c
<1>1. PICK S : S = {a, b, c}
  OBVIOUS
<1>2. PICK s, t, w : s = <<a>> /\ t = <<b, c>> /\ w = <<a, b, c>>
  OBVIOUS
<1>3. s \in Seq(S) /\ t \in Seq(S) /\ w \in Seq(S)
  BY <1>1, <1>2
<1>4. /\ Len(s) = 1 /\ Len(t) = 2 /\ Len(w) = 3 /\ s[1] = a /\ t[1] = b /\ t[2] = c
      /\ w[1] = a /\ w[2] = b /\ w[3] = c
  BY <1>2
<1>5. PICK r : r = s \o t
  OBVIOUS
<1>6. r \in Seq(S) /\ Len(r) = 3 /\ \A i \in 1 .. 3 : r[i] = IF i <= 1 THEN s[i] ELSE t[i - 1]
  <2>1. /\ s \o t \in Seq(S) /\ Len(s \o t) = Len(s) + Len(t)
        /\ \A i \in 1 .. Len(s) + Len(t) : (s \o t)[i] = IF i <= Len(s) THEN s[i] ELSE t[i - Len(s)]
    BY <1>3, ConcatProperties
  <2>2. Len(s) = 1 /\ Len(s) + Len(t) = 3
    BY <1>4
  <2> QED BY <1>5, <2>1, <2>2
<1>7. \A i \in 1 .. 3 : r[i] = w[i]
  BY <1>4, <1>6
<1>8. r = w
  BY <1>4, <1>6, <1>7, <1>3, SeqEqual
<1> QED BY <1>2, <1>5, <1>8

-----------------------------------------------------------------------------
(* What the operations do to the fields of a chip, and of the pair.        *)
LEMMA HighestIs == \A i \in Nat : Clock!Highest({i}) = i
<1> TAKE i \in Nat
<1>1. \A j \in {i} : i <= j
  OBVIOUS
<1>2. Clock!Highest({i}) \in {i}
  BY <1>1 DEF Clock!Highest
<1> QED BY <1>2

LEMMA MasterSet ==
    ASSUME NEW p \in Clock!Pic, NEW x \in Clock!Chip, NEW q, q = [p EXCEPT !.master = x]
    PROVE  q \in Clock!Pic /\ q.master = x /\ q.slave = p.slave
BY DEF Clock!Pic

LEMMA SlaveSet ==
    ASSUME NEW p \in Clock!Pic, NEW x \in Clock!Chip, NEW q, q = [p EXCEPT !.slave = x]
    PROVE  q \in Clock!Pic /\ q.slave = x /\ q.master = p.master
BY DEF Clock!Pic

LEMMA LinesSet ==
    ASSUME NEW c \in Clock!Chip, NEW x \in SUBSET Clock!Input, NEW d, d = [c EXCEPT !.lines = x]
    PROVE  /\ d \in Clock!Chip /\ d.lines = x /\ d.irr = c.irr /\ d.isr = c.isr
           /\ d.imr = c.imr /\ d.int = c.int /\ d.irq = c.irq /\ d.base = c.base
BY DEF Clock!Chip

LEMMA IrrSet ==
    ASSUME NEW c \in Clock!Chip, NEW x \in SUBSET Clock!Input, NEW d, d = [c EXCEPT !.irr = x]
    PROVE  /\ d \in Clock!Chip /\ d.lines = c.lines /\ d.irr = x /\ d.isr = c.isr
           /\ d.imr = c.imr /\ d.int = c.int /\ d.irq = c.irq /\ d.base = c.base
BY DEF Clock!Chip

LEMMA IsrSet ==
    ASSUME NEW c \in Clock!Chip, NEW x \in SUBSET Clock!Input, NEW d, d = [c EXCEPT !.isr = x]
    PROVE  /\ d \in Clock!Chip /\ d.lines = c.lines /\ d.irr = c.irr /\ d.isr = x
           /\ d.imr = c.imr /\ d.int = c.int /\ d.irq = c.irq /\ d.base = c.base
BY DEF Clock!Chip

LEMMA ImrSet ==
    ASSUME NEW c \in Clock!Chip, NEW x \in SUBSET Clock!Input, NEW d, d = [c EXCEPT !.imr = x]
    PROVE  /\ d \in Clock!Chip /\ d.lines = c.lines /\ d.irr = c.irr /\ d.isr = c.isr
           /\ d.imr = x /\ d.int = c.int /\ d.irq = c.irq /\ d.base = c.base
BY DEF Clock!Chip

LEMMA IntSet ==
    ASSUME NEW c \in Clock!Chip, NEW x \in BOOLEAN, NEW d, d = [c EXCEPT !.int = x]
    PROVE  /\ d \in Clock!Chip /\ d.lines = c.lines /\ d.irr = c.irr /\ d.isr = c.isr
           /\ d.imr = c.imr /\ d.int = x /\ d.irq = c.irq /\ d.base = c.base
BY Zenon DEF Clock!Chip

LEMMA InputSet ==
    ASSUME NEW c \in Clock!Chip, NEW x \in Clock!Input, NEW d, d = [c EXCEPT !.irq = x]
    PROVE  /\ d \in Clock!Chip /\ d.lines = c.lines /\ d.irr = c.irr /\ d.isr = c.isr
           /\ d.imr = c.imr /\ d.int = c.int /\ d.irq = x /\ d.base = c.base
BY DEF Clock!Chip

LEMMA Fields ==
    \A c \in Clock!Chip : /\ c.lines \in SUBSET Clock!Input /\ c.irr \in SUBSET Clock!Input
                          /\ c.isr \in SUBSET Clock!Input /\ c.imr \in SUBSET Clock!Input
                          /\ c.int \in BOOLEAN /\ c.irq \in Clock!Input
BY DEF Clock!Chip

LEMMA Asserted ==
    ASSUME NEW c \in Clock!Chip, NEW i \in Clock!Input, NEW d, d = Clock!Assert(c, i)
    PROVE  /\ d \in Clock!Chip /\ d.lines = c.lines \cup {i} /\ d.irr = c.irr \cup {i}
           /\ d.isr = c.isr /\ d.imr = c.imr /\ d.int = c.int /\ d.irq = c.irq
           /\ d.base = c.base
<1>1. PICK e : e = [c EXCEPT !.lines = c.lines \cup {i}]
  OBVIOUS
<1>2. d = [e EXCEPT !.irr = c.irr \cup {i}]
  BY <1>1 DEF Clock!Assert
<1>3. c.lines \cup {i} \in SUBSET Clock!Input /\ c.irr \cup {i} \in SUBSET Clock!Input
  BY Fields
<1>4. PICK x \in SUBSET Clock!Input : x = c.lines \cup {i}
  BY <1>3
<1>5. e = [c EXCEPT !.lines = x]
  BY <1>1, <1>4
<1>6. /\ e \in Clock!Chip /\ e.lines = x /\ e.irr = c.irr /\ e.isr = c.isr
      /\ e.imr = c.imr /\ e.int = c.int /\ e.irq = c.irq /\ e.base = c.base
  BY <1>5, LinesSet
<1> QED BY <1>2, <1>3, <1>4, <1>6, IrrSet

LEMMA ReleasedIs ==
    ASSUME NEW c \in Clock!Chip, NEW i \in Clock!Input, NEW d, d = Clock!Release(c, i), i \in c.lines
    PROVE  /\ d \in Clock!Chip /\ d.lines = c.lines \ {i} /\ d.irr = c.irr \ {i}
           /\ d.isr = c.isr /\ d.imr = c.imr /\ d.int = c.int /\ d.irq = c.irq
           /\ d.base = c.base
<1>1. PICK e : e = [c EXCEPT !.lines = c.lines \ {i}]
  OBVIOUS
<1>2. d = [e EXCEPT !.irr = c.irr \ {i}]
  BY <1>1 DEF Clock!Release
<1>3. c.lines \ {i} \in SUBSET Clock!Input /\ c.irr \ {i} \in SUBSET Clock!Input
  BY Fields
<1>4. PICK x \in SUBSET Clock!Input : x = c.lines \ {i}
  BY <1>3
<1>5. e = [c EXCEPT !.lines = x]
  BY <1>1, <1>4
<1>6. /\ e \in Clock!Chip /\ e.lines = x /\ e.irr = c.irr /\ e.isr = c.isr
      /\ e.imr = c.imr /\ e.int = c.int /\ e.irq = c.irq /\ e.base = c.base
  BY <1>5, LinesSet
<1> QED BY <1>2, <1>3, <1>4, <1>6, IrrSet

LEMMA Signalled ==
    ASSUME NEW c \in Clock!Chip, NEW i \in Clock!Input, Clock!Open(c) = {i}, NEW d, d = Clock!Signal(c)
    PROVE  /\ d \in Clock!Chip /\ d.lines = c.lines /\ d.irr = c.irr
           /\ d.isr = c.isr /\ d.imr = c.imr /\ d.int /\ d.irq = i
           /\ d.base = c.base
<1>1. Clock!Highest(Clock!Open(c)) = i
  BY HighestIs DEF Clock!Input
<1>2. PICK y \in BOOLEAN : y = TRUE
  OBVIOUS
<1>3. PICK e : e = [c EXCEPT !.int = y]
  OBVIOUS
<1>4. d = [e EXCEPT !.irq = i]
  BY <1>1, <1>2, <1>3, Zenon DEF Clock!Signal
<1>5. /\ e \in Clock!Chip /\ e.lines = c.lines /\ e.irr = c.irr /\ e.isr = c.isr
      /\ e.imr = c.imr /\ e.irq = c.irq /\ e.base = c.base
  BY <1>3, IntSet
<1>6. e.int = y
  BY <1>3, IntSet
<1>7. /\ d \in Clock!Chip /\ d.lines = e.lines /\ d.irr = e.irr /\ d.isr = e.isr
      /\ d.imr = e.imr /\ d.int = e.int /\ d.irq = i /\ d.base = e.base
  BY <1>4, <1>5, InputSet
<1>8. d.int
  BY <1>2, <1>6, <1>7
<1> QED BY <1>5, <1>7, <1>8

LEMMA Accepted ==
    ASSUME NEW c \in Clock!Chip, NEW i, c.irq = i, NEW d, d = Clock!Accept(c)
    PROVE  /\ d \in Clock!Chip /\ d.lines = c.lines /\ d.irr = c.irr \ {i}
           /\ d.isr = c.isr \cup {i} /\ d.imr = c.imr /\ d.int = c.int /\ d.irq = i
           /\ d.base = c.base
<1>1. PICK e : e = [c EXCEPT !.irr = c.irr \ {i}]
  OBVIOUS
<1>2. d = [e EXCEPT !.isr = c.isr \cup {i}]
  BY <1>1 DEF Clock!Accept
<1>3. c.irr \ {i} \in SUBSET Clock!Input /\ c.isr \cup {i} \in SUBSET Clock!Input
  BY Fields
<1>4. PICK x \in SUBSET Clock!Input : x = c.irr \ {i}
  BY <1>3
<1>5. e = [c EXCEPT !.irr = x]
  BY <1>1, <1>4
<1>6. /\ e \in Clock!Chip /\ e.lines = c.lines /\ e.irr = x /\ e.isr = c.isr
      /\ e.imr = c.imr /\ e.int = c.int /\ e.irq = c.irq /\ e.base = c.base
  BY <1>5, IrrSet
<1> QED BY <1>2, <1>3, <1>4, <1>6, IsrSet

LEMMA HighestEnded ==
    ASSUME NEW c \in Clock!Chip, NEW i \in Clock!Input, c.isr = {i}, NEW d, d = Clock!EndHighest(c)
    PROVE  /\ d \in Clock!Chip /\ d.lines = c.lines /\ d.irr = c.irr
           /\ d.isr = {} /\ d.imr = c.imr /\ d.int = c.int /\ d.irq = c.irq
           /\ d.base = c.base
<1>1. d = [c EXCEPT !.isr = c.isr \ {Clock!Highest(c.isr)}]
  BY DEF Clock!EndHighest
<1>2. c.isr \ {Clock!Highest(c.isr)} = {}
  BY HighestIs DEF Clock!Input
<1>3. {} \in SUBSET Clock!Input
  OBVIOUS
<1>4. d = [c EXCEPT !.isr = {}]
  BY <1>1, <1>2
<1> QED BY <1>3, <1>4, IsrSet

(* What a chip asks for.                                                   *)
LEMMA OpenIs ==
    ASSUME NEW c, NEW i, c.irr = {i}, c.isr = {}, i \notin c.imr
    PROVE  Clock!Open(c) = {i}
BY DEF Clock!Open

LEMMA OpenNot ==
    ASSUME NEW c, c.irr = {} \/ c.irr \subseteq c.imr
    PROVE  Clock!Open(c) = {}
BY DEF Clock!Open

LEMMA OpenServing ==
    ASSUME NEW c, NEW i \in Clock!Input, c.irr \subseteq {i}, c.isr = {i}
    PROVE  Clock!Open(c) = {}
BY DEF Clock!Open, Clock!Input

-----------------------------------------------------------------------------
(* The controllers at each stage: f says whether the clock signals an      *)
(* update.                                                                 *)
OldMask == {0, 1, 2, 3, 7}
NewMask == {1, 2, 3, 7}

MasterIs(c, line, serving, int) ==
    /\ c \in Clock!Chip /\ c.imr = {3, 4, 5, 7}
    /\ c.lines = (IF line THEN {2} ELSE {}) /\ c.irr = (IF line THEN {2} ELSE {})
    /\ c.isr = (IF serving THEN {2} ELSE {})
    /\ c.int <=> int
    /\ int => c.irq = 2

SlaveIs(c, line, asking, serving, int) ==
    /\ c \in Clock!Chip /\ c.irq = 0 /\ c.base = 112
    /\ c.lines = (IF line THEN {0} ELSE {}) /\ c.irr = (IF asking THEN {0} ELSE {})
    /\ c.isr = (IF serving THEN {0} ELSE {})
    /\ c.int <=> int

Masked(p, f) == /\ p \in Clock!Pic /\ p.slave.imr = OldMask
                /\ MasterIs(p.master, FALSE, FALSE, FALSE) /\ SlaveIs(p.slave, f, f, FALSE, FALSE)

Waiting(p, f) == /\ p \in Clock!Pic /\ p.slave.imr = NewMask
                 /\ MasterIs(p.master, f, FALSE, f) /\ SlaveIs(p.slave, f, f, FALSE, f)

Answered(p) == /\ p \in Clock!Pic /\ p.slave.imr = NewMask
               /\ MasterIs(p.master, FALSE, TRUE, FALSE) /\ SlaveIs(p.slave, TRUE, FALSE, TRUE, FALSE)

Served(p, f) == /\ p \in Clock!Pic /\ p.slave.imr = NewMask
                /\ MasterIs(p.master, FALSE, TRUE, FALSE) /\ SlaveIs(p.slave, f, f, TRUE, FALSE)

Ended(p, f) == /\ p \in Clock!Pic /\ p.slave.imr = NewMask
               /\ MasterIs(p.master, f, TRUE, FALSE) /\ SlaveIs(p.slave, f, f, FALSE, f)

LEMMA Chips == \A p \in Clock!Pic : p.master \in Clock!Chip /\ p.slave \in Clock!Chip
BY DEF Clock!Pic

LEMMA MasterStays ==
    ASSUME NEW p \in Clock!Pic, NEW line \in BOOLEAN, NEW s \in BOOLEAN, NEW n \in BOOLEAN,
           MasterIs(p.master, line, s, n), n \/ ~line \/ s
    PROVE  Clock!ServiceMaster(p) = p
<1>1. CASE n
  <2>1. Clock!Quiet(p.master)
    BY <1>1 DEF Clock!Quiet, MasterIs
  <2> QED BY <2>1 DEF Clock!ServiceMaster
<1>2. CASE ~line
  <2>1. Clock!Open(p.master) = {}
    BY <1>2, OpenNot DEF MasterIs
  <2> QED BY <2>1 DEF Clock!ServiceMaster, Clock!Quiet
<1>3. CASE line /\ s
  <2>1. p.master.irr = {2} /\ p.master.isr = {2} /\ 2 \in Clock!Input
    BY <1>3 DEF MasterIs, Clock!Input
  <2>2. Clock!Open(p.master) = {}
    BY <2>1, OpenServing
  <2> QED BY <2>2 DEF Clock!ServiceMaster, Clock!Quiet
<1> QED BY <1>1, <1>2, <1>3

LEMMA MasterSignals ==
    ASSUME NEW p \in Clock!Pic, MasterIs(p.master, TRUE, FALSE, FALSE), NEW q, q = Clock!ServiceMaster(p)
    PROVE  q \in Clock!Pic /\ MasterIs(q.master, TRUE, FALSE, TRUE) /\ q.slave = p.slave
<1>1. PICK c \in Clock!Chip : c = p.master
  BY Chips
<1>2. c.irr = {2} /\ c.isr = {} /\ 2 \notin c.imr /\ ~c.int /\ c.int \in BOOLEAN
  BY <1>1, Fields DEF MasterIs
<1>3. Clock!Open(c) = {2}
  BY <1>2, OpenIs
<1>4. ~Clock!Quiet(c)
  BY <1>2, <1>3 DEF Clock!Quiet
<1>5. PICK d : d = Clock!Signal(c)
  OBVIOUS
<1>6. 2 \in Clock!Input
  BY DEF Clock!Input
<1>7. /\ d \in Clock!Chip /\ d.lines = c.lines /\ d.irr = c.irr
      /\ d.isr = c.isr /\ d.imr = c.imr /\ d.int /\ d.irq = 2
  BY <1>3, <1>5, <1>6, Signalled
<1>8. q = [p EXCEPT !.master = d]
  BY <1>1, <1>4, <1>5 DEF Clock!ServiceMaster
<1>9. q \in Clock!Pic /\ q.master = d /\ q.slave = p.slave
  BY <1>7, <1>8, MasterSet
<1> QED BY <1>1, <1>7, <1>9 DEF MasterIs

LEMMA SlaveStays ==
    ASSUME NEW p \in Clock!Pic, NEW line \in BOOLEAN, NEW a \in BOOLEAN, NEW s \in BOOLEAN,
           NEW n \in BOOLEAN, SlaveIs(p.slave, line, a, s, n),
           n \/ ~a \/ s \/ p.slave.imr = OldMask
    PROVE  Clock!ServiceSlave(p) = p
<1>1. CASE n
  <2>1. Clock!Quiet(p.slave)
    BY <1>1 DEF Clock!Quiet, SlaveIs
  <2> QED BY <2>1 DEF Clock!ServiceSlave
<1>2. CASE ~a \/ p.slave.imr = OldMask
  <2>1. p.slave.irr = {} \/ p.slave.irr \subseteq p.slave.imr
    BY <1>2 DEF SlaveIs, OldMask
  <2>2. Clock!Open(p.slave) = {}
    BY <2>1, OpenNot
  <2> QED BY <2>2 DEF Clock!ServiceSlave, Clock!Quiet
<1>3. CASE a /\ s
  <2>1. p.slave.irr = {0} /\ p.slave.isr = {0} /\ 0 \in Clock!Input
    BY <1>3 DEF SlaveIs, Clock!Input
  <2>2. Clock!Open(p.slave) = {}
    BY <2>1, OpenServing
  <2> QED BY <2>2 DEF Clock!ServiceSlave, Clock!Quiet
<1> QED BY <1>1, <1>2, <1>3

(* The slave signals to the master, which is told at once unless the last  *)
(* interrupt has not ended there.                                          *)
LEMMA SlaveSignals ==
    ASSUME NEW p \in Clock!Pic, p.slave.imr = NewMask, SlaveIs(p.slave, TRUE, TRUE, FALSE, FALSE),
           NEW s \in BOOLEAN, MasterIs(p.master, FALSE, s, FALSE), NEW q, q = Clock!ServiceSlave(p)
    PROVE  IF s THEN Ended(q, TRUE) ELSE Waiting(q, TRUE)
<1>1. PICK c \in Clock!Chip, m \in Clock!Chip : c = p.slave /\ m = p.master
  BY Chips
<1>2. c.irr = {0} /\ c.isr = {} /\ 0 \notin c.imr /\ ~c.int /\ c.int \in BOOLEAN
  BY <1>1, Fields DEF SlaveIs, NewMask
<1>3. Clock!Open(c) = {0}
  BY <1>2, OpenIs
<1>4. ~Clock!Quiet(c)
  BY <1>2, <1>3 DEF Clock!Quiet
<1>5. PICK d : d = Clock!Signal(c)
  OBVIOUS
<1>6. 0 \in Clock!Input /\ 2 \in Clock!Input
  BY DEF Clock!Input
<1>7. /\ d \in Clock!Chip /\ d.lines = c.lines /\ d.irr = c.irr
      /\ d.isr = c.isr /\ d.imr = c.imr /\ d.int /\ d.irq = 0 /\ d.base = c.base
  BY <1>3, <1>5, <1>6, Signalled
<1>8. SlaveIs(d, TRUE, TRUE, FALSE, TRUE) /\ d.imr = NewMask
  BY <1>1, <1>7 DEF SlaveIs
<1>9. PICK r : r = [p EXCEPT !.slave = d]
  OBVIOUS
<1>10. r \in Clock!Pic /\ r.master = m /\ r.slave = d
  BY <1>1, <1>7, <1>9, SlaveSet
<1>11. q = Clock!RaiseMaster(r, 2)
  BY <1>1, <1>4, <1>5, <1>9 DEF Clock!ServiceSlave, Clock!Cascade
<1>12. 2 \notin r.master.lines
  BY <1>1, <1>10 DEF MasterIs
<1>13. PICK a, t : a = Clock!Assert(m, 2) /\ t = [r EXCEPT !.master = a]
  OBVIOUS
<1>14. q = Clock!ServiceMaster(t)
  BY <1>10, <1>11, <1>12, <1>13 DEF Clock!RaiseMaster
<1>15. /\ a \in Clock!Chip /\ a.lines = m.lines \cup {2} /\ a.irr = m.irr \cup {2}
       /\ a.isr = m.isr /\ a.imr = m.imr /\ a.int = m.int
  BY <1>6, <1>13, Asserted
<1>16. MasterIs(a, TRUE, s, FALSE)
  BY <1>1, <1>15 DEF MasterIs
<1>17. t \in Clock!Pic /\ t.master = a /\ t.slave = d
  BY <1>10, <1>13, <1>15, MasterSet
<1>18. CASE s
  <2>1. q = t
    BY <1>14, <1>16, <1>17, <1>18, MasterStays
  <2> QED BY <1>8, <1>16, <1>17, <1>18, <2>1 DEF Ended
<1>19. CASE ~s
  <2>1. MasterIs(t.master, TRUE, FALSE, FALSE)
    BY <1>16, <1>17, <1>19
  <2>2. q \in Clock!Pic /\ MasterIs(q.master, TRUE, FALSE, TRUE) /\ q.slave = t.slave
    BY <1>14, <1>17, <2>1, MasterSignals
  <2> QED BY <1>8, <1>17, <1>19, <2>2 DEF Waiting
<1> QED BY <1>18, <1>19

LEMMA LineUp ==
    ASSUME NEW p \in Clock!Pic, NEW a \in BOOLEAN, NEW s \in BOOLEAN, NEW n \in BOOLEAN,
           SlaveIs(p.slave, TRUE, a, s, n)
    PROVE  Clock!RaiseSlave(p, 0) = p
BY DEF SlaveIs, Clock!RaiseSlave

LEMMA LineRises ==
    ASSUME NEW p \in Clock!Pic, NEW s \in BOOLEAN, SlaveIs(p.slave, FALSE, FALSE, s, FALSE)
    PROVE  \E t \in Clock!Pic : /\ Clock!RaiseSlave(p, 0) = Clock!ServiceSlave(t) /\ t.master = p.master
                                /\ SlaveIs(t.slave, TRUE, TRUE, s, FALSE)
                                /\ t.slave.imr = p.slave.imr
<1>1. PICK c \in Clock!Chip : c = p.slave
  BY Chips
<1>2. 0 \notin c.lines /\ c.lines = {} /\ c.irr = {}
  BY <1>1 DEF SlaveIs
<1>3. PICK d, t : d = Clock!Assert(c, 0) /\ t = [p EXCEPT !.slave = d]
  OBVIOUS
<1>4. /\ d \in Clock!Chip /\ d.lines = {0} /\ d.irr = {0} /\ d.isr = c.isr
      /\ d.imr = c.imr /\ d.int = c.int /\ d.irq = c.irq /\ d.base = c.base
  <2>1. 0 \in Clock!Input
    BY DEF Clock!Input
  <2> QED BY <1>2, <1>3, <2>1, Asserted
<1>5. t \in Clock!Pic /\ t.slave = d /\ t.master = p.master
  BY <1>3, <1>4, SlaveSet
<1>6. Clock!RaiseSlave(p, 0) = Clock!ServiceSlave(t)
  BY <1>1, <1>2, <1>3 DEF Clock!RaiseSlave
<1>7. SlaveIs(d, TRUE, TRUE, s, FALSE)
  BY <1>1, <1>4 DEF SlaveIs
<1> QED BY <1>1, <1>4, <1>5, <1>6, <1>7

(* The clock raises its line.                                              *)
LEMMA ClockRaises ==
    ASSUME NEW p, NEW f \in BOOLEAN, NEW q, q = Clock!RaiseSlave(p, 0)
    PROVE  /\ Masked(p, f) => Masked(q, TRUE)
           /\ Waiting(p, f) => Waiting(q, TRUE)
           /\ Answered(p) => Answered(q)
           /\ Served(p, f) => Served(q, TRUE)
           /\ Ended(p, f) => Ended(q, TRUE)
<1>1. CASE Answered(p) \/ (f /\ (Masked(p, f) \/ Waiting(p, f) \/ Served(p, f) \/ Ended(p, f)))
  <2>1. p \in Clock!Pic /\ 0 \in p.slave.lines
    BY <1>1 DEF Answered, Masked, Waiting, Served, Ended, SlaveIs
  <2>2. q = p
    BY <2>1 DEF Clock!RaiseSlave
  <2>3. f = TRUE \/ Answered(p)
    BY <1>1
  <2>4. CASE Answered(p)
    <3>1. ~Masked(p, f) /\ ~Waiting(p, f) /\ ~Ended(p, f) /\ ~Served(p, f)
      BY <2>4 DEF Answered, Masked, Waiting, Served, Ended, SlaveIs
    <3> QED BY <2>2, <2>4, <3>1
  <2>5. CASE f = TRUE
    BY <2>2, <2>5
  <2> QED BY <2>3, <2>4, <2>5
<1>2. ASSUME f = FALSE, Masked(p, f) PROVE Masked(q, TRUE)
  <2>1. p \in Clock!Pic /\ SlaveIs(p.slave, FALSE, FALSE, FALSE, FALSE)
    BY <1>2 DEF Masked
  <2>2. PICK t \in Clock!Pic : /\ q = Clock!ServiceSlave(t) /\ t.master = p.master
                               /\ SlaveIs(t.slave, TRUE, TRUE, FALSE, FALSE)
                               /\ t.slave.imr = p.slave.imr
    BY <2>1, LineRises
  <2>3. q = t
    BY <1>2, <2>2, SlaveStays DEF Masked
  <2> QED BY <1>2, <2>2, <2>3 DEF Masked
<1>3. ASSUME f = FALSE, Served(p, f) PROVE Served(q, TRUE)
  <2>1. p \in Clock!Pic /\ SlaveIs(p.slave, FALSE, FALSE, TRUE, FALSE)
    BY <1>3 DEF Served
  <2>2. PICK t \in Clock!Pic : /\ q = Clock!ServiceSlave(t) /\ t.master = p.master
                               /\ SlaveIs(t.slave, TRUE, TRUE, TRUE, FALSE)
                               /\ t.slave.imr = p.slave.imr
    BY <2>1, LineRises
  <2>3. q = t
    BY <2>2, SlaveStays
  <2> QED BY <1>3, <2>2, <2>3 DEF Served
<1>4. ASSUME f = FALSE, Waiting(p, f) PROVE Waiting(q, TRUE)
  <2>1. p \in Clock!Pic /\ SlaveIs(p.slave, FALSE, FALSE, FALSE, FALSE)
    BY <1>4 DEF Waiting
  <2>2. PICK t \in Clock!Pic : /\ q = Clock!ServiceSlave(t) /\ t.master = p.master
                               /\ SlaveIs(t.slave, TRUE, TRUE, FALSE, FALSE)
                               /\ t.slave.imr = p.slave.imr
    BY <2>1, LineRises
  <2>3. MasterIs(t.master, FALSE, FALSE, FALSE) /\ t.slave.imr = NewMask
    BY <1>4, <2>2 DEF Waiting
  <2> QED BY <2>2, <2>3, SlaveSignals
<1>5. ASSUME f = FALSE, Ended(p, f) PROVE Ended(q, TRUE)
  <2>1. p \in Clock!Pic /\ SlaveIs(p.slave, FALSE, FALSE, FALSE, FALSE)
    BY <1>5 DEF Ended
  <2>2. PICK t \in Clock!Pic : /\ q = Clock!ServiceSlave(t) /\ t.master = p.master
                               /\ SlaveIs(t.slave, TRUE, TRUE, FALSE, FALSE)
                               /\ t.slave.imr = p.slave.imr
    BY <2>1, LineRises
  <2>3. MasterIs(t.master, FALSE, TRUE, FALSE) /\ t.slave.imr = NewMask
    BY <1>5, <2>2 DEF Ended
  <2> QED BY <2>2, <2>3, SlaveSignals
<1> QED BY <1>1, <1>2, <1>3, <1>4, <1>5


(* The program's own operations.                                           *)
LEMMA LineFalls ==
    ASSUME NEW p \in Clock!Pic, NEW f \in BOOLEAN, NEW a \in BOOLEAN, NEW s \in BOOLEAN,
           a => f, SlaveIs(p.slave, f, a, s, FALSE), NEW q, q = Clock!LowerSlave(p, 0)
    PROVE  /\ q \in Clock!Pic /\ q.master = p.master /\ q.slave.imr = p.slave.imr
           /\ SlaveIs(q.slave, FALSE, FALSE, s, FALSE)
<1>1. PICK c \in Clock!Chip : c = p.slave
  BY Chips
<1>2. PICK d : c = p.slave /\ d = Clock!Release(c, 0)
  BY <1>1
<1>3. q = [p EXCEPT !.slave = d]
  BY <1>2 DEF Clock!LowerSlave
<1>4. d \in Clock!Chip /\ SlaveIs(d, FALSE, FALSE, s, FALSE) /\ d.imr = c.imr
  <2>1. CASE f
    <3>1. 0 \in Clock!Input /\ 0 \in c.lines
      BY <1>2, <2>1 DEF SlaveIs, Clock!Input
    <3>2. /\ d \in Clock!Chip /\ d.lines = c.lines \ {0} /\ d.irr = c.irr \ {0}
          /\ d.isr = c.isr /\ d.imr = c.imr /\ d.int = c.int /\ d.irq = c.irq
          /\ d.base = c.base
      BY <1>2, <3>1, ReleasedIs
    <3> QED BY <1>2, <2>1, <3>2 DEF SlaveIs
  <2>2. CASE ~f
    <3>1. 0 \notin c.lines
      BY <1>2, <2>2 DEF SlaveIs
    <3>2. d = c
      BY <1>2, <3>1 DEF Clock!Release
    <3> QED BY <1>2, <2>2, <3>2 DEF SlaveIs
  <2> QED BY <2>1, <2>2
<1>5. q \in Clock!Pic /\ q.slave = d /\ q.master = p.master
  BY <1>3, <1>4, SlaveSet
<1> QED BY <1>2, <1>4, <1>5

LEMMA RegisterCRead ==
    ASSUME NEW p, NEW f \in BOOLEAN, NEW q, q = Clock!LowerSlave(p, 0)
    PROVE  /\ Masked(p, f) => Masked(q, FALSE)
           /\ Answered(p) => Served(q, FALSE)
<1>1. ASSUME Masked(p, f) PROVE Masked(q, FALSE)
  <2>1. p \in Clock!Pic /\ SlaveIs(p.slave, f, f, FALSE, FALSE)
    BY <1>1 DEF Masked
  <2>2. /\ q \in Clock!Pic /\ q.master = p.master /\ q.slave.imr = p.slave.imr
        /\ SlaveIs(q.slave, FALSE, FALSE, FALSE, FALSE)
    BY <2>1, LineFalls
  <2> QED BY <1>1, <2>2 DEF Masked
<1>2. ASSUME Answered(p) PROVE Served(q, FALSE)
  <2>1. p \in Clock!Pic /\ SlaveIs(p.slave, TRUE, FALSE, TRUE, FALSE)
    BY <1>2 DEF Answered
  <2>2. /\ q \in Clock!Pic /\ q.master = p.master /\ q.slave.imr = p.slave.imr
        /\ SlaveIs(q.slave, FALSE, FALSE, TRUE, FALSE)
    BY <2>1, LineFalls
  <2> QED BY <1>2, <2>2 DEF Answered, Served
<1> QED BY <1>1, <1>2

LEMMA SlaveEnds ==
    ASSUME NEW p, NEW f \in BOOLEAN, Served(p, f), NEW q, q = Clock!EoiSlave(p)
    PROVE  Ended(q, f)
<1>1. p \in Clock!Pic
  BY DEF Served
<1>2. PICK c \in Clock!Chip : c = p.slave
  BY <1>1, Chips
<1>3. PICK d, t : c = p.slave /\ d = Clock!EndHighest(c) /\ t = [p EXCEPT !.slave = d]
  BY <1>2
<1>4. c.isr = {0} /\ 0 \in Clock!Input
  BY <1>3 DEF Served, SlaveIs, Clock!Input
<1>5. /\ d \in Clock!Chip /\ d.lines = c.lines /\ d.irr = c.irr
      /\ d.isr = {} /\ d.imr = c.imr /\ d.int = c.int /\ d.irq = c.irq
      /\ d.base = c.base
  BY <1>3, <1>4, HighestEnded
<1>6. SlaveIs(d, f, f, FALSE, FALSE) /\ d.imr = NewMask
  BY <1>3, <1>5 DEF Served, SlaveIs
<1>7. t \in Clock!Pic /\ t.slave = d /\ t.master = p.master
  BY <1>1, <1>3, <1>5, SlaveSet
<1>8. q = Clock!ServiceSlave(t)
  BY <1>3 DEF Clock!EoiSlave
<1>9. MasterIs(t.master, FALSE, TRUE, FALSE)
  BY <1>7 DEF Served
<1>10. CASE f = TRUE
  <2>1. SlaveIs(t.slave, TRUE, TRUE, FALSE, FALSE) /\ t.slave.imr = NewMask
    BY <1>6, <1>7, <1>10
  <2> QED BY <1>7, <1>8, <1>9, <1>10, <2>1, SlaveSignals
<1>11. CASE f = FALSE
  <2>1. SlaveIs(t.slave, FALSE, FALSE, FALSE, FALSE)
    BY <1>6, <1>7, <1>11
  <2>2. q = t
    BY <1>7, <1>8, <2>1, SlaveStays
  <2> QED BY <1>6, <1>7, <1>9, <1>11, <2>2 DEF Ended
<1> QED BY <1>10, <1>11

LEMMA MasterEnds ==
    ASSUME NEW p, NEW f \in BOOLEAN, Ended(p, f), NEW q, q = Clock!EoiMaster(p)
    PROVE  Waiting(q, f)
<1>1. p \in Clock!Pic
  BY DEF Ended
<1>2. PICK c \in Clock!Chip : c = p.master
  BY <1>1, Chips
<1>3. PICK d, t : c = p.master /\ d = Clock!EndHighest(c) /\ t = [p EXCEPT !.master = d]
  BY <1>2
<1>4. c.isr = {2} /\ 2 \in Clock!Input
  BY <1>3 DEF Ended, MasterIs, Clock!Input
<1>5. /\ d \in Clock!Chip /\ d.lines = c.lines /\ d.irr = c.irr
      /\ d.isr = {} /\ d.imr = c.imr /\ d.int = c.int /\ d.irq = c.irq
      /\ d.base = c.base
  BY <1>3, <1>4, HighestEnded
<1>6. MasterIs(d, f, FALSE, FALSE)
  BY <1>3, <1>5 DEF Ended, MasterIs
<1>7. t \in Clock!Pic /\ t.master = d /\ t.slave = p.slave
  BY <1>1, <1>3, <1>5, MasterSet
<1>8. q = Clock!ServiceMaster(t)
  BY <1>3 DEF Clock!EoiMaster
<1>9. SlaveIs(t.slave, f, f, FALSE, f) /\ t.slave.imr = NewMask
  BY <1>7 DEF Ended
<1>10. CASE f = TRUE
  <2>1. MasterIs(t.master, TRUE, FALSE, FALSE)
    BY <1>6, <1>7, <1>10
  <2>2. q \in Clock!Pic /\ MasterIs(q.master, TRUE, FALSE, TRUE) /\ q.slave = t.slave
    BY <1>7, <1>8, <2>1, MasterSignals
  <2> QED BY <1>9, <1>10, <2>2 DEF Waiting
<1>11. CASE f = FALSE
  <2>1. MasterIs(t.master, FALSE, FALSE, FALSE)
    BY <1>6, <1>7, <1>11
  <2>2. q = t
    BY <1>7, <1>8, <2>1, MasterStays
  <2> QED BY <1>7, <1>9, <1>11, <2>1, <2>2 DEF Waiting
<1> QED BY <1>10, <1>11

LEMMA Unmasked ==
    ASSUME NEW p, NEW f \in BOOLEAN, Masked(p, f), NEW q, q = Clock!MaskSlave(p, p.slave.imr \ {0})
    PROVE  Waiting(q, f)
<1>1. p \in Clock!Pic /\ p.slave.imr \ {0} = NewMask
  BY DEF Masked, OldMask, NewMask
<1>2. PICK c \in Clock!Chip : c = p.slave
  BY <1>1, Chips
<1>3. PICK d, t : /\ c = p.slave /\ d = [c EXCEPT !.imr = NewMask]
                  /\ t = [p EXCEPT !.slave = d]
  BY <1>2
<1>4. t = [p EXCEPT !.slave.imr = NewMask]
  BY <1>3
<1>5. NewMask \in SUBSET Clock!Input
  BY DEF NewMask, Clock!Input
<1>6. /\ d \in Clock!Chip /\ d.lines = c.lines /\ d.irr = c.irr /\ d.isr = c.isr
      /\ d.imr = NewMask /\ d.int = c.int /\ d.irq = c.irq /\ d.base = c.base
  BY <1>3, <1>5, ImrSet
<1>7. t \in Clock!Pic /\ t.slave = d /\ t.master = p.master
  BY <1>1, <1>3, <1>6, SlaveSet
<1>8. q = Clock!ServiceSlave(t)
  BY <1>1, <1>4 DEF Clock!MaskSlave
<1>9. SlaveIs(d, f, f, FALSE, FALSE) /\ MasterIs(t.master, FALSE, FALSE, FALSE)
  BY <1>3, <1>6, <1>7 DEF Masked, SlaveIs
<1>10. CASE f = TRUE
  <2>1. SlaveIs(t.slave, TRUE, TRUE, FALSE, FALSE) /\ t.slave.imr = NewMask
    BY <1>6, <1>7, <1>9, <1>10
  <2> QED BY <1>7, <1>8, <1>9, <1>10, <2>1, SlaveSignals
<1>11. CASE f = FALSE
  <2>1. SlaveIs(t.slave, FALSE, FALSE, FALSE, FALSE)
    BY <1>7, <1>9, <1>11
  <2>2. q = t
    BY <1>7, <1>8, <2>1, SlaveStays
  <2> QED BY <1>6, <1>7, <1>9, <1>11, <2>2 DEF Waiting
<1> QED BY <1>10, <1>11

LEMMA Acknowledged ==
    ASSUME NEW p, Waiting(p, TRUE)
    PROVE  Clock!Acknowledge(p).vector = 112 /\ Answered(Clock!Acknowledge(p).pic)
<1>1. p \in Clock!Pic /\ 0 \in Clock!Input /\ 2 \in Clock!Input /\ FALSE \in BOOLEAN
  BY DEF Waiting, Clock!Input
<1>2. PICK m \in Clock!Chip, s \in Clock!Chip : m = p.master /\ s = p.slave
  BY <1>1, Chips
<1>3. PICK no \in BOOLEAN : no = FALSE
  OBVIOUS
<1>4. PICK m1, q : m1 = [m EXCEPT !.int = no] /\ q = [p EXCEPT !.master = m1]
  OBVIOUS
<1>5. q = [p EXCEPT !.master.int = FALSE]
  BY <1>2, <1>3, <1>4
<1>6. /\ m1 \in Clock!Chip /\ m1.lines = m.lines /\ m1.irr = m.irr /\ m1.isr = m.isr
      /\ m1.imr = m.imr /\ m1.irq = m.irq /\ m1.int = no
  BY <1>4, IntSet
<1>7. q \in Clock!Pic /\ q.master = m1 /\ q.slave = s
  BY <1>1, <1>2, <1>4, <1>6, MasterSet
<1>8. m1.irr = {2} /\ m1.irq = 2 /\ m1.lines = {2} /\ m1.isr = {}
  BY <1>2, <1>6 DEF Waiting, MasterIs
<1>9. PICK m2, r : m2 = Clock!Accept(m1) /\ r = [q EXCEPT !.master = m2]
  OBVIOUS
<1>10. /\ m2 \in Clock!Chip /\ m2.lines = m1.lines /\ m2.irr = m1.irr \ {2}
       /\ m2.isr = m1.isr \cup {2} /\ m2.imr = m1.imr /\ m2.int = m1.int
  BY <1>6, <1>8, <1>9, Accepted
<1>11. r \in Clock!Pic /\ r.master = m2 /\ r.slave = s
  BY <1>7, <1>9, <1>10, MasterSet
<1>12. r = [q EXCEPT !.master = Clock!Accept(@)]
  BY <1>7, <1>9
<1>13. Clock!Acknowledge(p) = Clock!AcknowledgeSlave(r)
  <2>1. q.master.irr # {} /\ q.master.irq = Clock!Cascade
    BY <1>7, <1>8 DEF Clock!Cascade
  <2> QED BY <1>5, <1>12, <2>1 DEF Clock!Acknowledge
<1>14. PICK s1, r1, m3, t : /\ s1 = [s EXCEPT !.int = no] /\ r1 = [r EXCEPT !.slave = s1]
                            /\ m3 = [m2 EXCEPT !.lines = {}] /\ t = [r1 EXCEPT !.master = m3]
  OBVIOUS
<1>15. /\ s1 \in Clock!Chip /\ s1.lines = s.lines /\ s1.irr = s.irr /\ s1.isr = s.isr
       /\ s1.imr = s.imr /\ s1.irq = s.irq /\ s1.base = s.base /\ s1.int = no
  BY <1>14, IntSet
<1>16. r1 \in Clock!Pic /\ r1.slave = s1 /\ r1.master = m2
  BY <1>11, <1>14, <1>15, SlaveSet
<1>17. /\ m3 \in Clock!Chip /\ m3.lines = {} /\ m3.irr = m2.irr /\ m3.isr = m2.isr
       /\ m3.imr = m2.imr /\ m3.int = m2.int
  <2>1. PICK x \in SUBSET Clock!Input : x = {}
    OBVIOUS
  <2>2. m3 = [m2 EXCEPT !.lines = x] /\ m2 \in Clock!Chip
    BY <1>10, <1>14, <2>1
  <2>3. /\ m3 \in Clock!Chip /\ m3.lines = x /\ m3.irr = m2.irr /\ m3.isr = m2.isr
        /\ m3.imr = m2.imr /\ m3.int = m2.int
    BY <2>2, LinesSet
  <2> QED BY <2>1, <2>3
<1>18. t \in Clock!Pic /\ t.master = m3 /\ t.slave = s1
  <2>1. t = [r1 EXCEPT !.master = m3] /\ r1 \in Clock!Pic /\ m3 \in Clock!Chip
    BY <1>14, <1>16, <1>17
  <2>2. t \in Clock!Pic /\ t.master = m3 /\ t.slave = r1.slave
    BY <2>1, MasterSet
  <2> QED BY <1>16, <2>2
<1>19. t = [r EXCEPT !.slave.int = FALSE, !.master.lines = @ \ {Clock!Cascade}]
  <2>1. r1 = [r EXCEPT !.slave.int = FALSE]
    BY <1>3, <1>11, <1>14
  <2>2. m2.lines \ {2} = {}
    BY <1>8, <1>10
  <2>3. t = [r1 EXCEPT !.master.lines = @ \ {2}]
    BY <1>14, <1>16, <2>2
  <2> QED BY <2>1, <2>3 DEF Clock!Cascade
<1>20. s1.irr = {0} /\ s1.irq = 0 /\ s1.base = 112 /\ s1.lines = {0} /\ s1.isr = {}
  BY <1>2, <1>15 DEF Waiting, SlaveIs
<1>21. PICK s2, u : s2 = Clock!Accept(s1) /\ u = [t EXCEPT !.slave = s2]
  OBVIOUS
<1>22. /\ s2 \in Clock!Chip /\ s2.lines = s1.lines /\ s2.irr = s1.irr \ {0}
       /\ s2.isr = s1.isr \cup {0} /\ s2.imr = s1.imr /\ s2.int = s1.int /\ s2.irq = 0
       /\ s2.base = s1.base
  BY <1>15, <1>20, <1>21, Accepted
<1>23. u \in Clock!Pic /\ u.slave = s2 /\ u.master = m3
  BY <1>18, <1>21, <1>22, SlaveSet
<1>24. SlaveIs(u.slave, TRUE, FALSE, TRUE, FALSE)
  BY <1>3, <1>15, <1>20, <1>22, <1>23 DEF SlaveIs
<1>25. MasterIs(u.master, FALSE, TRUE, FALSE)
  <2>1. m.imr = {3, 4, 5, 7}
    BY <1>2 DEF Waiting, MasterIs
  <2> QED BY <1>3, <1>6, <1>8, <1>10, <1>17, <1>23, <2>1 DEF MasterIs
<1>26. Clock!ServiceMaster(Clock!ServiceSlave(u)) = u
  <2>1. Clock!ServiceSlave(u) = u
    BY <1>23, <1>24, SlaveStays
  <2>2. Clock!ServiceMaster(u) = u
    BY <1>23, <1>25, MasterStays
  <2> QED BY <2>1, <2>2
<1>27. u = [t EXCEPT !.slave = Clock!Accept(@)]
  BY <1>18, <1>21
<1>28. Clock!AcknowledgeSlave(r) = [vector |-> 112, pic |-> u]
  <2>1. t.slave.irr # {} /\ t.slave.base + t.slave.irq = 112
    BY <1>18, <1>20
  <2> QED BY <1>19, <1>26, <1>27, <2>1, Zenon DEF Clock!AcknowledgeSlave
<1>29. Answered(u)
  <2>1. u.slave.imr = NewMask
    BY <1>2, <1>15, <1>22, <1>23 DEF Waiting
  <2> QED BY <1>23, <1>24, <1>25, <2>1 DEF Answered
<1> QED BY <1>13, <1>28, <1>29

-----------------------------------------------------------------------------
(* The clock program: what the checked properties rest on.                 *)
(* What a handler has read of t.                                           *)
Read1(t) == <<Clock!Bcd(t.second)>>
Read2(t) == <<Clock!Bcd(t.minute), Clock!Bcd(t.second)>>
Read3(t) == <<Clock!Bcd(t.hour), Clock!Bcd(t.minute), Clock!Bcd(t.second)>>

Unready == {"cli", "offset", "segment", "rtc_b", "read_c", "unmask"}
Starting == {"cli", "offset", "segment", "rtc_b", "read_c", "unmask", "sti"}
Outside == {"sti", "idle", "iret"}
Waits == {"wait", "second", "minute", "hour", "handler_read_c"}
InHandler == {"wait", "second", "minute", "hour", "handler_read_c", "show",
              "eoi_slave", "eoi_master", "iret"}

ClockPlaces == {"cli", "offset", "segment", "rtc_b", "read_c", "unmask", "sti", "idle",
           "wait", "second", "minute", "hour", "handler_read_c", "show",
           "eoi_slave", "eoi_master", "iret"}

Types ==
    /\ time \in Clock!Time /\ uip \in BOOLEAN /\ enabled \in BOOLEAN /\ ended \in BOOLEAN
    /\ age \in 0 .. 4
    /\ vector \subseteq {"offset", "segment"}
    /\ intsOpen \in BOOLEAN
    /\ clockPc \in ClockPlaces
    /\ held \subseteq Clock!Time

Controllers ==
    /\ clockPc \in Unready => Masked(pics, ended)
    /\ clockPc \in Outside => Waiting(pics, ended)
    /\ clockPc \in Waits => ended = TRUE /\ Answered(pics)
    /\ clockPc \in {"show", "eoi_slave"} => Served(pics, ended)
    /\ clockPc = "eoi_master" => Ended(pics, ended)

Vectors ==
    /\ clockPc = "segment" => "offset" \in vector
    /\ clockPc \notin {"cli", "offset", "segment"} => vector = {"offset", "segment"}

Closed == clockPc \notin {"cli", "idle"} => intsOpen = FALSE

(* An update that has begun since the handler looked does not end before   *)
(* it has read everything.                                                 *)
InTime ==
    uip => /\ clockPc = "second" => age <= 0
           /\ clockPc = "minute" => age <= 1
           /\ clockPc = "hour" => age <= 2
           /\ clockPc = "handler_read_c" => age <= 3

Reading ==
    /\ clockPc \in InHandler => time \in held
    /\ clockPc = "minute" => stack = Read1(time)
    /\ clockPc = "hour" => stack = Read2(time)
    /\ clockPc = "handler_read_c" => stack = Read3(time)
    /\ clockPc = "show" => \E t \in held : stack = Read3(t)
    /\ clockPc \notin {"minute", "hour", "handler_read_c", "show"} => stack = << >>

ClockIInv == Types /\ Controllers /\ Vectors /\ Closed /\ InTime /\ Reading /\ Clock!ShowsATimeThatWas

-----------------------------------------------------------------------------
LEMMA PlaceSplit ==
    \A x \in ClockPlaces : \/ x \in Unready \/ x \in Outside \/ x \in Waits
                           \/ x = "show" \/ x = "eoi_slave" \/ x = "eoi_master"
BY DEF ClockPlaces, Unready, Outside, Waits

LEMMA TimeFields ==
    \A t \in Clock!Time : /\ t.hour \in 0 .. 59 /\ t.minute \in 0 .. 59 /\ t.second \in 0 .. 59
<1>1. Hours \in 1 .. 24 /\ Minutes \in 1 .. 60 /\ Seconds \in 1 .. 60
  BY UnitsHold, Zenon DEF Clock!UnitsAssumption
<1> QED BY <1>1 DEF Clock!Time

LEMMA Ticks ==
    \A t \in Clock!Time : Clock!Tick(t) \in Clock!Time
<1> TAKE t \in Clock!Time
<1>1. Hours \in 1 .. 24 /\ Minutes \in 1 .. 60 /\ Seconds \in 1 .. 60
  BY UnitsHold, Zenon DEF Clock!UnitsAssumption
<1>2. PICK h \in 0 .. Hours - 1, m \in 0 .. Minutes - 1, s \in 0 .. Seconds - 1 :
         t.hour = h /\ t.minute = m /\ t.second = s
  BY DEF Clock!Time
<1>3. (s + 1) % Seconds \in 0 .. Seconds - 1
  BY <1>1
<1>4. (m + 1) % Minutes \in 0 .. Minutes - 1
  BY <1>1
<1>5. (h + 1) % Hours \in 0 .. Hours - 1
  BY <1>1
<1>6. PICK x, y, z : x = (s + 1) % Seconds /\ y = (m + 1) % Minutes /\ z = (h + 1) % Hours
  OBVIOUS
<1>7. Clock!Tick(t) = [hour |-> IF x = 0 /\ (IF x = 0 THEN y ELSE m) = 0 THEN z ELSE h,
                 minute |-> IF x = 0 THEN y ELSE m, second |-> x]
  BY <1>2, <1>6, Zenon DEF Clock!Tick
<1>8. x \in 0 .. Seconds - 1 /\ y \in 0 .. Minutes - 1 /\ z \in 0 .. Hours - 1
  BY <1>3, <1>4, <1>5, <1>6
<1> QED BY <1>2, <1>7, <1>8 DEF Clock!Time

(* bcd_to_ascii undoes what the clock's registers encode.                  *)
LEMMA DigitsOfBcd ==
    \A n \in 0 .. 59 : Clock!AsciiDigits(Clock!Bcd(n)) = Clock!Digits(n)
<1> TAKE n \in 0 .. 59
<1>1. PICK a \in 0 .. 5, b \in 0 .. 9 : n \div 10 = a /\ n % 10 = b
  OBVIOUS
<1>2. (a * 16 + b) \div 16 = a /\ (a * 16 + b) % 16 = b
  BY <1>1
<1>3. Clock!AsciiDigits(a * 16 + b) = <<48 + a, 48 + b>>
  BY <1>2, Zenon DEF Clock!AsciiDigits
<1> QED BY <1>1, <1>3, Zenon DEF Clock!Bcd, Clock!Digits

LEMMA StartGoes ==
    ASSUME NEW from, Clock!Goes(from)
    PROVE  \/ from = "cli" /\ Clock!Step(from, "offset")
           \/ from = "offset" /\ Clock!Step(from, "segment")
           \/ from = "segment" /\ Clock!Step(from, "rtc_b")
           \/ from = "rtc_b" /\ Clock!Step(from, "read_c")
           \/ from = "read_c" /\ Clock!Step(from, "unmask")
           \/ from = "unmask" /\ Clock!Step(from, "sti")
           \/ from = "sti" /\ Clock!Step(from, "idle")
<1>1. Len(Clock!Start) - 1 = 7
  BY DEF Clock!Start
<1>2. PICK i \in 1 .. 7 : Clock!Start[i] = from /\ Clock!Step(from, Clock!Start[i + 1])
  BY <1>1 DEF Clock!Goes
<1>3. /\ Clock!Start[1] = "cli" /\ Clock!Start[2] = "offset" /\ Clock!Start[3] = "segment" /\ Clock!Start[4] = "rtc_b"
      /\ Clock!Start[5] = "read_c" /\ Clock!Start[6] = "unmask" /\ Clock!Start[7] = "sti" /\ Clock!Start[8] = "idle"
  BY DEF Clock!Start
<1>4. i = 1 \/ i = 2 \/ i = 3 \/ i = 4 \/ i = 5 \/ i = 6 \/ i = 7
  OBVIOUS
<1>5. 1 + 1 = 2 /\ 2 + 1 = 3 /\ 3 + 1 = 4 /\ 4 + 1 = 5 /\ 5 + 1 = 6 /\ 6 + 1 = 7 /\ 7 + 1 = 8
  OBVIOUS
<1> QED BY <1>2, <1>3, <1>4, <1>5, Zenon

LEMMA AgeSteps ==
    ASSUME NEW from, NEW to, Clock!Step(from, to), age \in 0 .. 4
    PROVE  age' \in 0 .. 4 /\ age' <= age + 1 /\ clockPc = from /\ clockPc' = to
BY DEF Clock!Step, Clock!UipSteps

LEMMA ClockInitInvariant == Clock!Init => ClockIInv
<1> SUFFICES ASSUME Clock!Init PROVE ClockIInv
  OBVIOUS
<1>1. Types
  <2>1. age \in 0 .. 4
    BY DEF Clock!Init, Clock!UipSteps
  <2>2. clockPc \in ClockPlaces
    BY DEF Clock!Init, ClockPlaces
  <2> QED BY <2>1, <2>2, Zenon DEF Clock!Init, Types
<1>2. Masked(pics, ended)
  <2>1. PICK m, s : m = Clock!FirmwareChip({3, 4, 5, 7}, 8) /\ s = Clock!FirmwareChip(OldMask, 112)
    OBVIOUS
  <2>2. m \in Clock!Chip /\ s \in Clock!Chip
    BY <2>1 DEF Clock!FirmwareChip, Clock!Chip, Clock!Input, OldMask
  <2>3. pics = [master |-> m, slave |-> s]
    BY <2>1 DEF Clock!Init, OldMask
  <2>4. pics \in Clock!Pic /\ pics.master = m /\ pics.slave = s
    BY <2>2, <2>3 DEF Clock!Pic
  <2>5. MasterIs(m, FALSE, FALSE, FALSE)
    BY <2>1, <2>2 DEF Clock!FirmwareChip, MasterIs
  <2>6. SlaveIs(s, FALSE, FALSE, FALSE, FALSE)
    BY <2>1, <2>2 DEF Clock!FirmwareChip, SlaveIs
  <2>7. s.imr = OldMask /\ ended = FALSE
    BY <2>1 DEF Clock!FirmwareChip, Clock!Init
  <2> QED BY <2>4, <2>5, <2>6, <2>7 DEF Masked
<1>3. Controllers
  BY <1>2 DEF Clock!Init, Controllers, Outside, Waits
<1> QED BY <1>1, <1>3 DEF Clock!Init, ClockIInv, Vectors, Closed, InTime, Reading,
           Clock!ShowsATimeThatWas, InHandler

-----------------------------------------------------------------------------
(* The clock's own steps.                                                  *)
LEMMA SecondKeeps ==
    ASSUME ClockIInv, Clock!OneSecond
    PROVE  ClockIInv'
<1>1. Types'
  BY DEF ClockIInv, Types, Clock!OneSecond, Clock!clockVars, Clock!handlerVars
<1>2. Controllers' /\ Vectors' /\ Closed' /\ Reading' /\ Clock!ShowsATimeThatWas'
  BY DEF ClockIInv, Clock!OneSecond, Controllers, Vectors, Closed, Reading,
     Clock!ShowsATimeThatWas, Clock!handlerVars
<1>3. InTime'
  BY DEF Clock!OneSecond, InTime
<1> QED BY <1>1, <1>2, <1>3 DEF ClockIInv

LEMMA UpdateKeeps ==
    ASSUME ClockIInv, Clock!UpdateEnds
    PROVE  ClockIInv'
<1>1. /\ uip /\ age = 4 /\ time' = Clock!Tick(time) /\ uip' = FALSE /\ age' = 0
      /\ ended' = (ended \/ enabled)
      /\ pics' = IF enabled THEN Clock!RaiseSlave(pics, Clock!ClockLine) ELSE pics
      /\ held' = IF clockPc \in {"cli", "idle"} THEN held ELSE held \cup {time'}
      /\ enabled' = enabled /\ vector' = vector /\ intsOpen' = intsOpen /\ clockPc' = clockPc
      /\ stack' = stack /\ digits' = digits
  BY DEF Clock!UpdateEnds, Clock!UipSteps
<1>2. Types /\ Controllers /\ Vectors /\ Closed /\ InTime /\ Reading /\ Clock!ShowsATimeThatWas
  BY DEF ClockIInv
<1>3. time' \in Clock!Time
  BY <1>1, <1>2, Ticks DEF Types
<1>4. Types'
  <2>1. held' \subseteq Clock!Time
    BY <1>1, <1>2, <1>3 DEF Types
  <2>2. ended' \in BOOLEAN
    BY <1>1, <1>2 DEF Types
  <2>3. age' \in 0 .. 4
    BY <1>1
  <2>4. /\ time \in Clock!Time /\ uip \in BOOLEAN /\ enabled \in BOOLEAN
        /\ vector \subseteq {"offset", "segment"} /\ intsOpen \in BOOLEAN /\ clockPc \in ClockPlaces
    BY <1>2 DEF Types
  <2>5. uip' \in BOOLEAN
    BY <1>1
  <2> QED BY <1>1, <1>3, <2>1, <2>2, <2>3, <2>4, <2>5, Zenon DEF Types
<1>5. Controllers'
  <2>1. CASE enabled
    <3>1. ended' = TRUE /\ pics' = Clock!RaiseSlave(pics, 0)
      BY <1>1, <2>1 DEF Clock!ClockLine
    <3>2. ended \in BOOLEAN /\ clockPc \in ClockPlaces
      BY <1>2 DEF Types
    <3>3. /\ Masked(pics, ended) => Masked(pics', TRUE)
          /\ Waiting(pics, ended) => Waiting(pics', TRUE)
          /\ Answered(pics) => Answered(pics')
          /\ Served(pics, ended) => Served(pics', TRUE)
          /\ Ended(pics, ended) => Ended(pics', TRUE)
      BY <3>1, <3>2, ClockRaises
    <3> QED BY <1>1, <1>2, <3>1, <3>3 DEF Controllers
  <2>2. CASE ~enabled
    <3>1. ended' = ended /\ pics' = pics
      BY <1>1, <1>2, <2>2 DEF Types
    <3> QED BY <1>1, <1>2, <3>1 DEF Controllers
  <2> QED BY <2>1, <2>2
<1>6. Vectors' /\ Closed'
  BY <1>1, <1>2 DEF Vectors, Closed
<1>7. InTime'
  BY <1>1 DEF InTime
<1>8. clockPc \notin {"second", "minute", "hour", "handler_read_c"}
  BY <1>1, <1>2 DEF InTime
<1>9. held \subseteq held'
  BY <1>1
<1>10. Reading'
  <2>1. clockPc' \in InHandler => time' \in held'
    BY <1>1 DEF InHandler
  <2> QED BY <1>1, <1>2, <1>8, <1>9, <2>1 DEF Reading
<1>11. Clock!ShowsATimeThatWas'
  BY <1>1, <1>2, <1>9 DEF Clock!ShowsATimeThatWas
<1> QED BY <1>4, <1>5, <1>6, <1>7, <1>10, <1>11 DEF ClockIInv


-----------------------------------------------------------------------------
(* The steps of start.                                                     *)
LEMMA StartKeeps ==
    ASSUME ClockIInv, Clock!StartSteps
    PROVE  ClockIInv'
<1>1. Types /\ Controllers /\ Vectors /\ Closed /\ InTime /\ Reading /\ Clock!ShowsATimeThatWas
  BY DEF ClockIInv
<1>2. PICK from \in Starting : Clock!Goes(from)
  BY DEF Clock!StartSteps, Clock!CloseInterrupts, Clock!InstallVector,
     Clock!EnableUpdates, Clock!DiscardPending,
         Clock!UnmaskClock, Clock!OpenInterrupts, Starting
<1>3. /\ age' \in 0 .. 4 /\ clockPc = from
      /\ clockPc' \in {"offset", "segment", "rtc_b", "read_c", "unmask", "sti", "idle"}
      /\ clockPc = "cli" => clockPc' = "offset"
      /\ clockPc = "offset" => clockPc' = "segment"
      /\ clockPc = "segment" => clockPc' = "rtc_b"
      /\ clockPc = "rtc_b" => clockPc' = "read_c"
      /\ clockPc = "read_c" => clockPc' = "unmask"
      /\ clockPc = "unmask" => clockPc' = "sti"
      /\ clockPc = "sti" => clockPc' = "idle"
  BY <1>1, <1>2, StartGoes, AgeSteps DEF Types, Starting
<1>4. clockPc \in Starting /\ clockPc' \in ClockPlaces
  BY <1>2, <1>3 DEF ClockPlaces
<1>5. \A x : Clock!Goes(x) => clockPc = x
  BY DEF Clock!Goes, Clock!Step
<1>6. /\ clockPc = "cli" => Clock!CloseInterrupts
      /\ clockPc \in {"offset", "segment"} => Clock!InstallVector
      /\ clockPc = "rtc_b" => Clock!EnableUpdates
      /\ clockPc = "read_c" => Clock!DiscardPending
      /\ clockPc = "unmask" => Clock!UnmaskClock
      /\ clockPc = "sti" => Clock!OpenInterrupts
  BY <1>5 DEF Clock!StartSteps, Clock!CloseInterrupts, Clock!InstallVector,
     Clock!EnableUpdates, Clock!DiscardPending,
         Clock!UnmaskClock, Clock!OpenInterrupts
<1>7. /\ time' = time /\ uip' = uip /\ stack' = stack /\ digits' = digits /\ held' = held
      /\ clockPc # "cli" /\ clockPc # "sti" => intsOpen' = intsOpen
      /\ clockPc = "cli" => intsOpen' = FALSE
      /\ clockPc = "sti" => intsOpen' = TRUE
      /\ clockPc \notin {"offset", "segment"} => vector' = vector
      /\ clockPc \in {"offset", "segment"} => vector' = vector \cup {clockPc}
      /\ clockPc # "rtc_b" => enabled' = enabled
      /\ clockPc = "rtc_b" => enabled' = TRUE
      /\ clockPc # "read_c" => ended' = ended
      /\ clockPc = "read_c" => ended' = FALSE /\ pics' = Clock!LowerSlave(pics, 0)
      /\ clockPc = "unmask" => pics' = Clock!MaskSlave(pics, pics.slave.imr \ {0})
      /\ clockPc \notin {"read_c", "unmask"} => pics' = pics
  BY <1>4, <1>6, Zenon DEF Starting, Clock!CloseInterrupts, Clock!InstallVector,
     Clock!EnableUpdates, Clock!DiscardPending,
     Clock!UnmaskClock, Clock!OpenInterrupts, Clock!clockVars, Clock!handlerVars, Clock!ReadC, Clock!ClockLine
<1>8. Types'
  <2>1. vector' \subseteq {"offset", "segment"}
    BY <1>1, <1>7 DEF Types
  <2>2. intsOpen' \in BOOLEAN /\ enabled' \in BOOLEAN /\ ended' \in BOOLEAN
    BY <1>1, <1>7, Zenon DEF Types
  <2> QED BY <1>1, <1>3, <1>4, <1>7, <2>1, <2>2, Zenon DEF Types
<1>9. Controllers'
  <2>1. ended \in BOOLEAN
    BY <1>1 DEF Types
  <2>2. CASE clockPc \in {"cli", "offset", "segment", "rtc_b"}
    <3>1. Masked(pics', ended') /\ clockPc' \in {"offset", "segment", "rtc_b", "read_c"}
      BY <1>1, <1>3, <1>7, <2>2 DEF Controllers, Unready
    <3> QED BY <3>1 DEF Controllers, Outside, Waits
  <2>3. CASE clockPc = "read_c"
    <3>1. Masked(pics, ended)
      BY <1>1, <2>3 DEF Controllers, Unready
    <3>2. Masked(pics', FALSE)
      BY <1>7, <2>1, <2>3, <3>1, RegisterCRead
    <3> QED BY <1>3, <1>7, <2>3, <3>2 DEF Controllers, Outside, Waits
  <2>4. CASE clockPc = "unmask"
    <3>1. Masked(pics, ended)
      BY <1>1, <2>4 DEF Controllers, Unready
    <3>2. Waiting(pics', ended)
      BY <1>7, <2>1, <2>4, <3>1, Unmasked
    <3> QED BY <1>3, <1>7, <2>4, <3>2 DEF Controllers, Unready, Waits
  <2>5. CASE clockPc = "sti"
    <3>1. Waiting(pics', ended')
      BY <1>1, <1>7, <2>5 DEF Controllers, Outside
    <3> QED BY <1>3, <2>5, <3>1 DEF Controllers, Unready, Waits
  <2> QED BY <1>4, <2>2, <2>3, <2>4, <2>5 DEF Starting
<1>10. Vectors'
  <2>1. CASE clockPc = "cli"
    BY <1>3, <2>1 DEF Vectors
  <2>2. CASE clockPc = "offset"
    BY <1>1, <1>3, <1>7, <2>2 DEF Vectors, Types
  <2>3. CASE clockPc = "segment"
    BY <1>1, <1>3, <1>7, <2>3 DEF Vectors, Types
  <2>4. CASE clockPc \notin {"cli", "offset", "segment"}
    BY <1>1, <1>3, <1>4, <1>7, <2>4 DEF Vectors, Starting
  <2> QED BY <2>1, <2>2, <2>3, <2>4
<1>11. Closed'
  BY <1>1, <1>3, <1>4, <1>7, Zenon DEF Closed, Starting
<1>12. InTime'
  BY <1>3 DEF InTime
<1>13. Reading'
  <2>1. stack' = << >>
    BY <1>1, <1>4, <1>7 DEF Reading, Starting
  <2> QED BY <1>3, <2>1 DEF Reading, InHandler
<1>14. Clock!ShowsATimeThatWas'
  BY <1>3 DEF Clock!ShowsATimeThatWas
<1> QED BY <1>8, <1>9, <1>10, <1>11, <1>12, <1>13, <1>14 DEF ClockIInv

LEMMA IdleKeeps ==
    ASSUME ClockIInv, Clock!Idle
    PROVE  ClockIInv'
<1>1. /\ age' \in 0 .. 4 /\ clockPc = "idle" /\ clockPc' = "idle"
  BY AgeSteps DEF Clock!Idle, ClockIInv, Types
<1>2. UNCHANGED <<Clock!clockVars, pics, vector, intsOpen, Clock!handlerVars>>
  BY DEF Clock!Idle
<1>3. Types' /\ Controllers' /\ Vectors' /\ Closed' /\ Reading' /\ Clock!ShowsATimeThatWas'
  BY <1>1, <1>2, Zenon DEF ClockIInv, Types, Controllers, Vectors, Closed, Reading,
     Clock!ShowsATimeThatWas,
     Clock!clockVars, Clock!handlerVars
<1>4. InTime'
  BY <1>1 DEF InTime
<1> QED BY <1>3, <1>4 DEF ClockIInv

LEMMA InterruptKeeps ==
    ASSUME ClockIInv, Clock!TakeInterrupt
    PROVE  ClockIInv'
<1>1. Types /\ Controllers /\ Vectors /\ Closed /\ InTime /\ Reading /\ Clock!ShowsATimeThatWas
  BY DEF ClockIInv
<1>2. clockPc \in {"cli", "idle"} /\ pics.master.int
  BY <1>1 DEF Clock!TakeInterrupt, Closed
<1>3. ended \in BOOLEAN
  BY <1>1 DEF Types
<1>4. clockPc = "idle" /\ ended = TRUE /\ Waiting(pics, TRUE)
  <2>1. CASE clockPc = "cli"
    <3>1. Masked(pics, ended)
      BY <1>1, <2>1 DEF Controllers, Unready
    <3> QED BY <1>2, <3>1 DEF Masked, MasterIs
  <2>2. CASE clockPc = "idle"
    <3>1. Waiting(pics, ended)
      BY <1>1, <2>2 DEF Controllers, Outside
    <3>2. ended = TRUE
      BY <1>2, <1>3, <3>1 DEF Waiting, MasterIs
    <3> QED BY <2>2, <3>1, <3>2
  <2> QED BY <1>2, <2>1, <2>2
<1>5. Clock!Acknowledge(pics).vector = 112 /\ Answered(Clock!Acknowledge(pics).pic)
  BY <1>4, Acknowledged
<1>6. vector = {"offset", "segment"}
  BY <1>1, <1>4 DEF Vectors
<1>7. /\ pics' = Clock!Acknowledge(pics).pic /\ Clock!Step(clockPc, "wait")
  BY <1>5, <1>6, Zenon DEF Clock!TakeInterrupt
<1>8. age' \in 0 .. 4 /\ clockPc' = "wait"
  BY <1>1, <1>7, AgeSteps DEF Types
<1>9. /\ intsOpen' = FALSE /\ stack' = << >> /\ held' = {time} /\ time' = time /\ uip' = uip
      /\ enabled' = enabled /\ ended' = ended /\ vector' = vector /\ digits' = digits
  BY DEF Clock!TakeInterrupt, Clock!clockVars
<1>10. Types'
  <2>1. held' \subseteq Clock!Time /\ clockPc' \in ClockPlaces /\ intsOpen' \in BOOLEAN
    BY <1>1, <1>8, <1>9 DEF Types, ClockPlaces
  <2> QED BY <1>1, <1>8, <1>9, <2>1, Zenon DEF Types
<1>11. Controllers'
  BY <1>4, <1>5, <1>7, <1>8, <1>9 DEF Controllers, Unready, Outside
<1>12. Vectors' /\ Closed' /\ InTime' /\ Reading' /\ Clock!ShowsATimeThatWas'
  BY <1>6, <1>8, <1>9 DEF Vectors, Closed, InTime, Reading, Clock!ShowsATimeThatWas,
     InHandler
<1> QED BY <1>10, <1>11, <1>12 DEF ClockIInv


-----------------------------------------------------------------------------
(* The handler.                                                            *)
LEMMA WaitKeeps ==
    ASSUME ClockIInv, Clock!WaitForUpdate
    PROVE  ClockIInv'
<1>1. Types /\ Controllers /\ Vectors /\ Closed /\ InTime /\ Reading /\ Clock!ShowsATimeThatWas
  BY DEF ClockIInv
<1>2. UNCHANGED <<Clock!clockVars, pics, vector, intsOpen, Clock!handlerVars>>
  BY DEF Clock!WaitForUpdate
<1>3. age' \in 0 .. 4 /\ clockPc = "wait" /\ clockPc' = IF uip THEN "wait" ELSE "second"
  BY <1>1, AgeSteps DEF Clock!WaitForUpdate, Types
<1>4. clockPc' \in {"wait", "second"} /\ (clockPc' = "second" => ~uip)
  BY <1>3
<1>5. Types'
  BY <1>1, <1>2, <1>3, <1>4 DEF Types, ClockPlaces, Clock!clockVars, Clock!handlerVars
<1>6. Controllers'
  BY <1>1, <1>2, <1>3, <1>4 DEF Controllers, Unready, Outside, Waits, Clock!clockVars
<1>7. Vectors' /\ Closed' /\ InTime'
  BY <1>1, <1>2, <1>3, <1>4 DEF Vectors, Closed, InTime, Clock!clockVars
<1>8. Reading' /\ Clock!ShowsATimeThatWas'
  BY <1>1, <1>2, <1>3, <1>4 DEF Reading, InHandler, Clock!ShowsATimeThatWas,
     Clock!clockVars, Clock!handlerVars
<1> QED BY <1>5, <1>6, <1>7, <1>8 DEF ClockIInv

LEMMA ReadTimeKeeps ==
    ASSUME ClockIInv, Clock!ReadTime
    PROVE  ClockIInv'
<1>1. Types /\ Controllers /\ Vectors /\ Closed /\ InTime /\ Reading /\ Clock!ShowsATimeThatWas
  BY DEF ClockIInv
<1>2. UNCHANGED <<Clock!clockVars, pics, vector, intsOpen, digits, held>>
  BY DEF Clock!ReadTime
<1>3. /\ age' \in 0 .. 4 /\ age' <= age + 1
      /\ \/ clockPc = "second" /\ clockPc' = "minute"
         \/ clockPc = "minute" /\ clockPc' = "hour"
         \/ clockPc = "hour" /\ clockPc' = "handler_read_c"
  BY <1>1, AgeSteps DEF Clock!ReadTime, Types
<1>4. age \in 0 .. 4
  BY <1>1 DEF Types
<1>5. Types'
  <2>1. clockPc' \in ClockPlaces
    BY <1>3 DEF ClockPlaces
  <2> QED BY <1>1, <1>2, <1>3, <2>1, Zenon DEF Types, Clock!clockVars,
             Clock!handlerVars
<1>6. Controllers'
  BY <1>1, <1>2, <1>3 DEF Controllers, Unready, Outside, Waits, Clock!clockVars
<1>7. Vectors' /\ Closed'
  BY <1>1, <1>2, <1>3 DEF Vectors, Closed
<1>8. InTime'
  <2>1. uip' = uip
    BY <1>2 DEF Clock!clockVars
  <2> QED BY <1>1, <1>3, <1>4, <2>1 DEF InTime
<1>9. Reading'
  <2>1. stack' = <<Clock!Bcd(time[clockPc])>> \o stack /\ time' = time /\ held' = held
    BY <1>2 DEF Clock!ReadTime, Clock!clockVars
  <2>2. CASE clockPc = "second"
    <3>1. stack = << >> /\ time["second"] = time.second
      BY <1>1, <2>2 DEF Reading
    <3>2. stack' = Read1(time')
      BY <2>1, <2>2, <3>1 DEF Read1
    <3> QED BY <1>1, <1>3, <2>1, <2>2, <3>2 DEF Reading, InHandler
  <2>3. CASE clockPc = "minute"
    <3>1. stack = <<Clock!Bcd(time.second)>> /\ time["minute"] = time.minute
      BY <1>1, <2>3 DEF Reading, Read1
    <3>2. stack' = Read2(time')
      <4>1. PICK a, b : a = Clock!Bcd(time.minute) /\ b = Clock!Bcd(time.second)
        OBVIOUS
      <4>2. <<a>> \o <<b>> = <<a, b>>
        BY OneAndOne
      <4> QED BY <2>1, <2>3, <3>1, <4>1, <4>2, Zenon DEF Read2
    <3> QED BY <1>1, <1>3, <2>1, <2>3, <3>2 DEF Reading, InHandler
  <2>4. CASE clockPc = "hour"
    <3>1. stack = <<Clock!Bcd(time.minute), Clock!Bcd(time.second)>> /\ time["hour"] = time.hour
      BY <1>1, <2>4 DEF Reading, Read2
    <3>2. stack' = Read3(time')
      <4>1. PICK a, b, c : a = Clock!Bcd(time.hour) /\ b = Clock!Bcd(time.minute) /\ c = Clock!Bcd(time.second)
        OBVIOUS
      <4>2. <<a>> \o <<b, c>> = <<a, b, c>>
        BY OneAndTwo
      <4> QED BY <2>1, <2>4, <3>1, <4>1, <4>2, Zenon DEF Read3
    <3> QED BY <1>1, <1>3, <2>1, <2>4, <3>2 DEF Reading, InHandler
  <2> QED BY <1>3, <2>2, <2>3, <2>4
<1>10. Clock!ShowsATimeThatWas'
  BY <1>3 DEF Clock!ShowsATimeThatWas
<1> QED BY <1>5, <1>6, <1>7, <1>8, <1>9, <1>10 DEF ClockIInv

LEMMA HandlerReadCKeeps ==
    ASSUME ClockIInv, Clock!HandlerReadC
    PROVE  ClockIInv'
<1>1. Types /\ Controllers /\ Vectors /\ Closed /\ InTime /\ Reading /\ Clock!ShowsATimeThatWas
  BY DEF ClockIInv
<1>2. UNCHANGED <<time, uip, enabled, vector, intsOpen, Clock!handlerVars>>
  BY DEF Clock!HandlerReadC
<1>3. age' \in 0 .. 4 /\ clockPc = "handler_read_c" /\ clockPc' = "show"
  BY <1>1, AgeSteps DEF Clock!HandlerReadC, Types
<1>4. ended' = FALSE /\ pics' = Clock!LowerSlave(pics, 0)
  BY DEF Clock!HandlerReadC, Clock!ReadC, Clock!ClockLine
<1>5. Types'
  <2>1. ended' \in BOOLEAN /\ clockPc' \in ClockPlaces
    BY <1>3, <1>4 DEF ClockPlaces
  <2> QED BY <1>1, <1>2, <1>3, <2>1, Zenon DEF Types, Clock!handlerVars
<1>6. Controllers'
  <2>1. Served(pics', FALSE)
    BY <1>1, <1>3, <1>4, RegisterCRead DEF Controllers, Waits
  <2> QED BY <1>3, <1>4, <2>1 DEF Controllers, Unready, Outside, Waits
<1>7. Vectors' /\ Closed' /\ InTime'
  BY <1>1, <1>2, <1>3 DEF Vectors, Closed, InTime
<1>8. Reading' /\ Clock!ShowsATimeThatWas'
  <2>1. time \in held /\ stack = Read3(time)
    BY <1>1, <1>3 DEF Reading, InHandler
  <2> QED BY <1>2, <1>3, <2>1 DEF Reading, InHandler, Clock!ShowsATimeThatWas,
             Clock!handlerVars
<1> QED BY <1>5, <1>6, <1>7, <1>8 DEF ClockIInv

LEMMA DigitsKeep ==
    ASSUME ClockIInv, Clock!Show
    PROVE  ClockIInv'
<1>1. Types /\ Controllers /\ Vectors /\ Closed /\ InTime /\ Reading /\ Clock!ShowsATimeThatWas
  BY DEF ClockIInv
<1>2. UNCHANGED <<Clock!clockVars, pics, vector, intsOpen, held>>
  BY DEF Clock!Show
<1>3. age' \in 0 .. 4 /\ clockPc = "show" /\ clockPc' = "eoi_slave"
  BY <1>1, AgeSteps DEF Clock!Show, Types
<1>4. digits' = [i \in 1 .. 3 |-> Clock!AsciiDigits(stack[i])] /\ stack' = << >>
  BY DEF Clock!Show
<1>5. Types'
  <2>1. clockPc' \in ClockPlaces
    BY <1>3 DEF ClockPlaces
  <2> QED BY <1>1, <1>2, <1>3, <2>1, Zenon DEF Types, Clock!clockVars
<1>6. Controllers'
  BY <1>1, <1>2, <1>3 DEF Controllers, Unready, Outside, Waits, Clock!clockVars
<1>7. Vectors' /\ Closed' /\ InTime'
  BY <1>1, <1>2, <1>3 DEF Vectors, Closed, InTime
<1>8. Reading'
  BY <1>1, <1>2, <1>3, <1>4 DEF Reading, InHandler, Clock!clockVars
<1>9. Clock!ShowsATimeThatWas'
  <2>1. PICK t \in held : stack = Read3(t)
    BY <1>1, <1>3 DEF Reading
  <2>2. stack[1] = Clock!Bcd(t.hour) /\ stack[2] = Clock!Bcd(t.minute) /\ stack[3] = Clock!Bcd(t.second)
    BY <2>1 DEF Read3
  <2>3. t.hour \in 0 .. 59 /\ t.minute \in 0 .. 59 /\ t.second \in 0 .. 59
    BY <1>1, TimeFields DEF Types
  <2>4. /\ Clock!AsciiDigits(Clock!Bcd(t.hour)) = Clock!Digits(t.hour)
        /\ Clock!AsciiDigits(Clock!Bcd(t.minute)) = Clock!Digits(t.minute)
        /\ Clock!AsciiDigits(Clock!Bcd(t.second)) = Clock!Digits(t.second)
    BY <2>3, DigitsOfBcd
  <2>5. /\ digits'[1] = Clock!Digits(t.hour) /\ digits'[2] = Clock!Digits(t.minute)
        /\ digits'[3] = Clock!Digits(t.second) /\ DOMAIN digits' = 1 .. 3
    BY <1>4, <2>2, <2>4
  <2>6. digits' = <<Clock!Digits(t.hour), Clock!Digits(t.minute), Clock!Digits(t.second)>>
    <3>1. digits' = [i \in 1 .. 3 |-> digits'[i]]
      BY <1>4
    <3>2. PICK a, b, c : a = Clock!Digits(t.hour) /\ b = Clock!Digits(t.minute) /\ c = Clock!Digits(t.second)
      OBVIOUS
    <3>3. digits'[1] = a /\ digits'[2] = b /\ digits'[3] = c
      BY <2>5, <3>2
    <3>4. digits' = <<a, b, c>>
      BY <3>1, <3>3
    <3> QED BY <3>2, <3>4
  <2> QED BY <1>2, <2>1, <2>6 DEF Clock!ShowsATimeThatWas
<1> QED BY <1>5, <1>6, <1>7, <1>8, <1>9 DEF ClockIInv

LEMMA EndSlaveKeeps ==
    ASSUME ClockIInv, Clock!EndSlave
    PROVE  ClockIInv'
<1>1. Types /\ Controllers /\ Vectors /\ Closed /\ InTime /\ Reading /\ Clock!ShowsATimeThatWas
  BY DEF ClockIInv
<1>2. UNCHANGED <<Clock!clockVars, vector, intsOpen, Clock!handlerVars>> /\ pics' = Clock!EoiSlave(pics)
  BY DEF Clock!EndSlave
<1>3. age' \in 0 .. 4 /\ clockPc = "eoi_slave" /\ clockPc' = "eoi_master"
  BY <1>1, AgeSteps DEF Clock!EndSlave, Types
<1>4. Types'
  <2>1. clockPc' \in ClockPlaces
    BY <1>3 DEF ClockPlaces
  <2> QED BY <1>1, <1>2, <1>3, <2>1, Zenon DEF Types, Clock!clockVars,
             Clock!handlerVars
<1>5. Controllers'
  <2>1. Served(pics, ended) /\ ended \in BOOLEAN
    BY <1>1, <1>3 DEF Controllers, Types
  <2>2. Ended(pics', ended)
    BY <1>2, <2>1, SlaveEnds
  <2> QED BY <1>2, <1>3, <2>2 DEF Controllers, Unready, Outside, Waits,
             Clock!clockVars
<1>6. Vectors' /\ Closed' /\ InTime'
  BY <1>1, <1>2, <1>3 DEF Vectors, Closed, InTime
<1>7. Reading' /\ Clock!ShowsATimeThatWas'
  BY <1>1, <1>2, <1>3 DEF Reading, InHandler, Clock!ShowsATimeThatWas,
     Clock!clockVars, Clock!handlerVars
<1> QED BY <1>4, <1>5, <1>6, <1>7 DEF ClockIInv

LEMMA EndMasterKeeps ==
    ASSUME ClockIInv, Clock!EndMaster
    PROVE  ClockIInv'
<1>1. Types /\ Controllers /\ Vectors /\ Closed /\ InTime /\ Reading /\ Clock!ShowsATimeThatWas
  BY DEF ClockIInv
<1>2. UNCHANGED <<Clock!clockVars, vector, intsOpen, Clock!handlerVars>> /\ pics' = Clock!EoiMaster(pics)
  BY DEF Clock!EndMaster
<1>3. age' \in 0 .. 4 /\ clockPc = "eoi_master" /\ clockPc' = "iret"
  BY <1>1, AgeSteps DEF Clock!EndMaster, Types
<1>4. Types'
  <2>1. clockPc' \in ClockPlaces
    BY <1>3 DEF ClockPlaces
  <2> QED BY <1>1, <1>2, <1>3, <2>1, Zenon DEF Types, Clock!clockVars,
             Clock!handlerVars
<1>5. Controllers'
  <2>1. Ended(pics, ended) /\ ended \in BOOLEAN
    BY <1>1, <1>3 DEF Controllers, Types
  <2>2. Waiting(pics', ended)
    BY <1>2, <2>1, MasterEnds
  <2> QED BY <1>2, <1>3, <2>2 DEF Controllers, Unready, Outside, Waits,
             Clock!clockVars
<1>6. Vectors' /\ Closed' /\ InTime'
  BY <1>1, <1>2, <1>3 DEF Vectors, Closed, InTime
<1>7. Reading' /\ Clock!ShowsATimeThatWas'
  BY <1>1, <1>2, <1>3 DEF Reading, InHandler, Clock!ShowsATimeThatWas,
     Clock!clockVars, Clock!handlerVars
<1> QED BY <1>4, <1>5, <1>6, <1>7 DEF ClockIInv

LEMMA ReturnKeeps ==
    ASSUME ClockIInv, Clock!Return
    PROVE  ClockIInv'
<1>1. Types /\ Controllers /\ Vectors /\ Closed /\ InTime /\ Reading /\ Clock!ShowsATimeThatWas
  BY DEF ClockIInv
<1>2. UNCHANGED <<Clock!clockVars, pics, vector, stack, digits>> /\ intsOpen' = TRUE /\ held' = {}
  BY DEF Clock!Return
<1>3. age' \in 0 .. 4 /\ clockPc = "iret" /\ clockPc' = "idle"
  BY <1>1, AgeSteps DEF Clock!Return, Types
<1>4. Types'
  <2>1. clockPc' \in ClockPlaces /\ intsOpen' \in BOOLEAN /\ held' \subseteq Clock!Time
    BY <1>2, <1>3 DEF ClockPlaces
  <2> QED BY <1>1, <1>2, <1>3, <2>1, Zenon DEF Types, Clock!clockVars
<1>5. Controllers'
  BY <1>1, <1>2, <1>3 DEF Controllers, Unready, Outside, Waits, Clock!clockVars
<1>6. Vectors' /\ Closed' /\ InTime'
  BY <1>1, <1>2, <1>3 DEF Vectors, Closed, InTime
<1>7. Reading' /\ Clock!ShowsATimeThatWas'
  BY <1>1, <1>2, <1>3 DEF Reading, InHandler, Clock!ShowsATimeThatWas
<1> QED BY <1>4, <1>5, <1>6, <1>7 DEF ClockIInv

LEMMA ClockStepKeeps ==
    ASSUME ClockIInv, Clock!Next
    PROVE  ClockIInv'
BY SecondKeeps, UpdateKeeps, StartKeeps, IdleKeeps, InterruptKeeps, WaitKeeps,
   ReadTimeKeeps,
   HandlerReadCKeeps, DigitsKeep, EndSlaveKeeps, EndMasterKeeps, ReturnKeeps
   DEF Clock!Next, Clock!Clock, Clock!Processor, Clock!Handler

LEMMA StaysKeeps ==
    ASSUME ClockIInv, UNCHANGED Clock!vars
    PROVE  ClockIInv'
BY DEF ClockIInv, Clock!vars, Clock!clockVars, Clock!handlerVars, Types, Controllers,
   Vectors, Closed, InTime, Reading,
   Clock!ShowsATimeThatWas

-----------------------------------------------------------------------------
(* What follows from it.                                                   *)
LEMMA TypesHold == ClockIInv => Clock!TypeOK
<1> SUFFICES ASSUME ClockIInv PROVE Clock!TypeOK
  OBVIOUS
<1>1. Types /\ Controllers /\ Reading
  BY DEF ClockIInv
<1>2. pics \in Clock!Pic
  <2>1. clockPc \in ClockPlaces
    BY <1>1 DEF Types
  <2> QED BY <1>1, <2>1, PlaceSplit DEF Controllers, Masked, Waiting, Answered,
             Served, Ended
<1>3. clockPc \in {Clock!Start[i] : i \in 1 .. Len(Clock!Start)} \cup Clock!Registers \cup
              {"wait", "handler_read_c", "show", "eoi_slave", "eoi_master",
               "iret", "elsewhere"}
  <2>1. 1 .. Len(Clock!Start) = 1 .. 8
    BY DEF Clock!Start
  <2>2. \A i \in 1 .. 8 : Clock!Start[i] \in {Clock!Start[j] : j \in 1 .. Len(Clock!Start)}
    BY <2>1
  <2>3. /\ Clock!Start[1] = "cli" /\ Clock!Start[2] = "offset" /\ Clock!Start[3] = "segment" /\ Clock!Start[4] = "rtc_b"
        /\ Clock!Start[5] = "read_c" /\ Clock!Start[6] = "unmask" /\ Clock!Start[7] = "sti" /\ Clock!Start[8] = "idle"
    BY DEF Clock!Start
  <2>4. /\ 1 \in 1 .. 8 /\ 2 \in 1 .. 8 /\ 3 \in 1 .. 8 /\ 4 \in 1 .. 8 /\ 5 \in 1 .. 8
        /\ 6 \in 1 .. 8 /\ 7 \in 1 .. 8 /\ 8 \in 1 .. 8
    OBVIOUS
  <2>5. {"cli", "offset", "segment", "rtc_b", "read_c", "unmask", "sti", "idle"}
           \subseteq {Clock!Start[j] : j \in 1 .. Len(Clock!Start)}
    BY <2>2, <2>3, <2>4
  <2> QED BY <1>1, <2>5 DEF Types, ClockPlaces, Clock!Registers
<1>4. Len(stack) <= 3
  <2>1. \/ stack = << >> \/ stack = Read1(time) \/ stack = Read2(time) \/ \E t : stack = Read3(t)
    BY <1>1 DEF Reading
  <2>2. CASE stack = << >>
    BY <2>2
  <2>3. CASE stack = Read1(time)
    BY <2>3 DEF Read1
  <2>4. CASE stack = Read2(time)
    BY <2>4 DEF Read2
  <2>5. CASE \E t : stack = Read3(t)
    BY <2>5 DEF Read3
  <2> QED BY <2>1, <2>2, <2>3, <2>4, <2>5
<1> QED BY <1>1, <1>2, <1>3, <1>4, Zenon DEF Types, Clock!TypeOK, Clock!UipSteps

LEMMA HandlerHolds == ClockIInv => Clock!OnlyTheNewHandler
BY DEF ClockIInv, Types, ClockPlaces, Clock!OnlyTheNewHandler

LEMMA SignalHolds == ClockIInv => Clock!UpdateIsSignalled
<1> SUFFICES ASSUME ClockIInv, clockPc = "idle"
             PROVE  (ended => pics.master.int) /\ pics.master.isr = {} /\ pics.slave.isr = {}
  BY DEF Clock!UpdateIsSignalled
<1>1. Waiting(pics, ended)
  BY DEF ClockIInv, Controllers, Outside
<1> QED BY <1>1 DEF Waiting, MasterIs, SlaveIs

-----------------------------------------------------------------------------
(* The clock's invariant, while it is looked at.                           *)
ClockInv == part = "clock" => ClockIInv

LEMMA ClockStart == ASSUME RealInit PROVE ClockInv
<1>1. CASE part = "clock"
  <2>1. Clock!Init
    BY <1>1 DEF RealInit, LoaderInit, ClockInit, KeysInit
  <2> QED BY <2>1, ClockInitInvariant DEF ClockInv
<1> QED BY <1>1 DEF ClockInv

LEMMA ClockKeep == ASSUME ClockInv, [RealNext]_v PROVE ClockInv'
<1> SUFFICES ASSUME part' = "clock"
             PROVE  ClockIInv'
  BY DEF ClockInv
<1>1. CASE ClockStep
  <2>1. ClockIInv /\ Clock!Next
    BY <1>1 DEF ClockStep, ClockInv
  <2> QED BY <2>1, ClockStepKeeps
<1>2. CASE LoaderStep \/ KeysStep
  BY <1>2 DEF LoaderStep, KeysStep
<1>3. CASE UNCHANGED v
  <2>1. ClockIInv /\ UNCHANGED Clock!vars
    BY <1>3 DEF v, Clock!vars, Clock!clockVars, Clock!handlerVars, ClockInv
  <2> QED BY <2>1, StaysKeeps
<1> QED BY <1>1, <1>2, <1>3 DEF RealNext

(* Whenever the clock ticks and however late its interrupt is taken: the   *)
(* time on the screen is one the clock held since the handler began, no    *)
(* handler but the program's is entered, and an update that ended is       *)
(* signalled to the processor as soon as the program waits for it          *)
(* (c09_1.asm:34).                                                         *)
THEOREM TimeAlwaysThatWas == RealSpec => []ShowsATimeThatWas
<1>1. RealInit => ClockInv
  BY ClockStart
<1>2. ClockInv /\ [RealNext]_v => ClockInv'
  BY ClockKeep
<1>3. ClockInv => ShowsATimeThatWas
  <2>1. ClockIInv => Clock!ShowsATimeThatWas
    BY DEF ClockIInv
  <2> QED BY <2>1, HandlerHolds, SignalHolds DEF ClockInv, ShowsATimeThatWas
<1> QED BY <1>1, <1>2, <1>3, PTL DEF RealSpec

HIDE DEF time, uip, age, enabled, ended, pics, vector, intsOpen, clockPc, stack, digits, held

-----------------------------------------------------------------------------
(* The keys.  Their variables by their own names.                          *)
hand == v1
typed == v2
kbd == v3
irq1 == v4
flags == v5
ring == v6
handler == v7
codeRead == v8
keysPc == v9
open == v10
taken == v11
screen == v12
lost == v13
stopped == v14

USE DEF hand, typed, kbd, irq1, flags, ring, handler, codeRead, keysPc, open, taken, screen, lost, stopped

LEMMA KeysHold == Keys!KeyboardAssumption
BY RealModeAssumption

(* The keys: what the checked properties rest on.                          *)
KeysPlaces == {"wait", "command", "answer", "lights", "answered", "take", "show"}
LightsPlaces == {"command", "answer", "lights", "answered"}
KeyPlaces == {"command", "answer", "lights", "answered", "take"}
HandlerPlaces == {"none", "read", "process", "eoi", "enable"}

KbdType == [buf : Seq(Keys!Code), out : Seq(Keys!Code), irq : BOOLEAN, timer : BOOLEAN,
            clock : BOOLEAN, led : BOOLEAN]

HandType == [down : SUBSET {"letter", "shift", "caps"}, caps : BOOLEAN,
             events : 0 .. MaxEvents, patient : BOOLEAN]
FlagsType == [shift : BOOLEAN, caps : BOOLEAN, led : BOOLEAN]
PicType == [line : BOOLEAN, irr : BOOLEAN, isr : BOOLEAN]

HandTypes ==
    /\ hand \in HandType
    /\ typed \in Seq(Keys!Keys)
    /\ lost \subseteq 1 .. hand.events
    /\ stopped \in BOOLEAN

KbdTypes ==
    /\ kbd \in KbdType /\ Len(kbd.buf) <= Elements /\ Len(kbd.out) <= 1
    /\ irq1 \in PicType

CpuTypes ==
    /\ flags \in FlagsType
    /\ ring \in Seq(Keys!Keys) /\ Len(ring) <= Words - 1
    /\ taken \in Seq(Keys!Keys) /\ Len(taken) <= 1
    /\ screen \in Seq(Keys!Keys)
    /\ codeRead \in Seq(Keys!Code) /\ Len(codeRead) <= 1 /\ (handler = "process" <=> codeRead # << >>)
    /\ handler \in HandlerPlaces /\ keysPc \in KeysPlaces /\ open \in BOOLEAN

(* An interrupt is asked for only while a code waits to be read.           *)
Signals ==
    /\ irq1.irr => irq1.line /\ kbd.out # << >>
    /\ kbd.irq => kbd.out # << >>
    /\ handler = "read" => kbd.out # << >>
    /\ kbd.clock <=> handler = "none"

Conversation ==
    /\ keysPc \in LightsPlaces => ~open /\ handler = "none"
    /\ keysPc \in KeyPlaces => ring # << >>
    /\ keysPc # "show" => taken = << >>
    /\ keysPc = "show" => taken # << >>
    /\ keysPc = "answered" => kbd.led = flags.caps
    /\ Keys!AnswerIsRead /\ Keys!LightsAreKnown

(* The codes on their way, those of events among them, and the keys read   *)
(* so far.                                                                 *)
AllCodes == Keys!ToSet(codeRead) \cup Keys!ToSet(kbd.out) \cup Keys!ToSet(kbd.buf)
Pending == { c \in AllCodes : c.n # 0 }
Line == screen \o taken \o ring

Before(S, T) == \A c \in S, d \in T : c.n # 0 /\ d.n # 0 => c.n < d.n

Ordered(s) ==
    \A i, j \in DOMAIN s : i < j /\ s[i].n # 0 /\ s[j].n # 0 => s[i].n < s[j].n

CodesOrder ==
    /\ Before(Keys!ToSet(codeRead), Keys!ToSet(kbd.out)) /\ Before(Keys!ToSet(codeRead), Keys!ToSet(kbd.buf))
    /\ Before(Keys!ToSet(kbd.out), Keys!ToSet(kbd.buf)) /\ Ordered(kbd.buf)
    /\ \A c \in AllCodes : c.key = "ack" <=> c.n = 0

KeysOrder == Ordered(ring) /\ Before(Keys!ToSet(taken), Keys!ToSet(ring))

LineOrder ==
    /\ \A c \in Pending : c.n <= hand.events
    /\ \A k \in Keys!ToSet(Line) : k.n <= hand.events /\ \A c \in Pending : k.n < c.n

TypedOrder == Ordered(typed) /\ \A i \in DOMAIN typed : typed[i].n <= hand.events

(* A patient typist has one event on its way at a time.                    *)
Alone ==
    hand.patient =>
        /\ lost = {}
        /\ ring # << >> => Pending = {}
        /\ \A c, d \in Pending : c.n = d.n

(* What the flags are after every event, h, and the last event the         *)
(* firmware has seen, p.                                                   *)
Lamps == [shift : BOOLEAN, caps : BOOLEAN]

After(f, c) ==
    [shift |-> IF c.key = "shift" THEN ~c.up ELSE f.shift,
     caps |-> IF c.key = "caps" /\ ~c.up THEN ~f.caps ELSE f.caps]

IsPress(c) == c.key = "letter" /\ ~c.up

KeyOf(h, c) == [n |-> c.n, capital |-> h[c.n - 1].shift # h[c.n - 1].caps]

StoryIs(h, p) ==
    /\ h[hand.events] = [shift |-> "shift" \in hand.down, caps |-> hand.caps]
    /\ h[p] = [shift |-> flags.shift, caps |-> flags.caps]
    /\ { c.n : c \in Pending } = (p + 1) .. hand.events
    /\ \A c \in Pending : /\ h[c.n] = After(h[c.n - 1], c)
                          /\ IsPress(c) => KeyOf(h, c) \in Keys!ToSet(typed)
    /\ \A i \in DOMAIN typed : typed[i].n > p =>
          \E c \in Pending : c.n = typed[i].n /\ IsPress(c)
    /\ Len(Line) <= Len(typed)
    /\ \A i \in DOMAIN typed : IF i <= Len(Line) THEN typed[i] = Line[i] /\ typed[i].n <= p
                               ELSE typed[i].n > p

Story == lost = {} => \E h \in [Nat -> Lamps], p \in 0 .. hand.events : StoryIs(h, p)

KeysIInv ==
    /\ HandTypes /\ KbdTypes /\ CpuTypes /\ Signals /\ Conversation
    /\ CodesOrder /\ KeysOrder /\ LineOrder /\ TypedOrder /\ Alone /\ Story

-----------------------------------------------------------------------------
(* Sequences: the way a code goes is a change of three of them.            *)
LEMMA ToSetNone == Keys!ToSet(<< >>) = {}
BY DEF Keys!ToSet

LEMMA ToSetOne == \A x : Keys!ToSet(<<x>>) = {x}
BY DEF Keys!ToSet

LEMMA ToSetMember ==
    \A s, x : x \in Keys!ToSet(s) <=> \E i \in DOMAIN s : x = s[i]
BY DEF Keys!ToSet

LEMMA SeqDomain ==
    \A S : \A s \in Seq(S) : /\ DOMAIN s = 1 .. Len(s) /\ Len(s) \in Nat
                             /\ \A i \in 1 .. Len(s) : s[i] \in S
                             /\ Keys!ToSet(s) \subseteq S
                             /\ s = << >> <=> Len(s) = 0
                             /\ s = << >> <=> Keys!ToSet(s) = {}
<1> TAKE S
<1> TAKE s \in Seq(S)
<1>1. DOMAIN s = 1 .. Len(s) /\ Len(s) \in Nat /\ \A i \in 1 .. Len(s) : s[i] \in S
  OBVIOUS
<1>2. Keys!ToSet(s) \subseteq S
  BY <1>1 DEF Keys!ToSet
<1>3. s = << >> <=> Len(s) = 0
  BY EmptySeq
<1>4. s = << >> <=> Keys!ToSet(s) = {}
  <2>1. ASSUME s # << >> PROVE Keys!ToSet(s) # {}
    <3>1. 1 \in DOMAIN s
      BY <1>1, <1>3, <2>1
    <3> QED BY <3>1 DEF Keys!ToSet
  <2> QED BY <2>1, ToSetNone
<1> QED BY <1>1, <1>2, <1>3, <1>4

LEMMA Single ==
    ASSUME NEW S, NEW s \in Seq(S), Len(s) <= 1, s # << >>
    PROVE  /\ s = <<Head(s)>> /\ Head(s) = s[1] /\ Head(s) \in S
           /\ Keys!ToSet(s) = {Head(s)} /\ Tail(s) = << >> /\ Len(s) = 1
<1>1. Len(s) = 1 /\ DOMAIN s = 1 .. 1
  <2>1. DOMAIN s = 1 .. Len(s) /\ Len(s) \in Nat /\ Len(s) # 0
    BY SeqDomain
  <2> QED BY <2>1
<1>2. PICK x : x = s[1]
  OBVIOUS
<1>3. Head(s) = x /\ x \in S
  BY <1>1, <1>2, SeqDomain
<1>4. s = <<x>>
  <2>1. <<x>> \in Seq(S) /\ Len(<<x>>) = 1
    BY <1>3
  <2>2. \A i \in 1 .. Len(s) : s[i] = <<x>>[i]
    BY <1>1, <1>2
  <2> QED BY <1>1, <2>1, <2>2, SeqEqual
<1>5. Keys!ToSet(s) = {x}
  BY <1>4, ToSetOne
<1>6. Tail(s) = << >>
  <2>1. Tail(s) \in Seq(S) /\ Len(Tail(s)) = Len(s) - 1
    BY HeadTailProperties
  <2> QED BY <1>1, <2>1, SeqDomain
<1> QED BY <1>1, <1>2, <1>3, <1>4, <1>5, <1>6

LEMMA AppendedSet ==
    \A S : \A s \in Seq(S), x \in S : Keys!ToSet(Append(s, x)) = Keys!ToSet(s) \cup {x}
<1> TAKE S
<1> TAKE s \in Seq(S), x \in S
<1>1. PICK t : t = Append(s, x)
  OBVIOUS
<1>2. t \in Seq(S) /\ Len(t) = Len(s) + 1 /\ t[Len(s) + 1] = x /\ \A i \in 1 .. Len(s) : t[i] = s[i]
  BY <1>1, AppendProperties
<1>3. DOMAIN s = 1 .. Len(s) /\ DOMAIN t = 1 .. Len(s) + 1 /\ Len(s) \in Nat
  BY <1>2, SeqDomain
<1>4. Keys!ToSet(t) = Keys!ToSet(s) \cup {x}
  <2>1. ASSUME NEW y \in Keys!ToSet(t) PROVE y \in Keys!ToSet(s) \cup {x}
    <3>1. PICK i \in DOMAIN t : y = t[i]
      BY <2>1, ToSetMember
    <3>2. CASE i = Len(s) + 1
      BY <1>2, <3>1, <3>2
    <3>3. CASE i # Len(s) + 1
      <4>1. i \in DOMAIN s /\ y = s[i]
        BY <1>2, <1>3, <3>1, <3>3
      <4> QED BY <4>1, ToSetMember
    <3> QED BY <3>2, <3>3
  <2>2. ASSUME NEW y \in Keys!ToSet(s) PROVE y \in Keys!ToSet(t)
    <3>1. PICK i \in DOMAIN s : y = s[i]
      BY <2>2, ToSetMember
    <3>2. i \in DOMAIN t /\ y = t[i]
      BY <1>2, <1>3, <3>1
    <3> QED BY <3>2, ToSetMember
  <2>3. x \in Keys!ToSet(t)
    <3>1. Len(s) + 1 \in DOMAIN t
      BY <1>3
    <3> QED BY <1>2, <3>1, ToSetMember
  <2> QED BY <2>1, <2>2, <2>3
<1> QED BY <1>1, <1>4

LEMMA Appended ==
    ASSUME NEW S, NEW s \in Seq(S), NEW x \in S, NEW t, t = Append(s, x)
    PROVE  /\ t \in Seq(S) /\ Len(t) = Len(s) + 1 /\ t # << >>
           /\ Keys!ToSet(t) = Keys!ToSet(s) \cup {x}
           /\ t[Len(t)] = x /\ \A i \in 1 .. Len(s) : t[i] = s[i]
<1>1. t \in Seq(S) /\ Len(t) = Len(s) + 1 /\ t[Len(s) + 1] = x /\ \A i \in 1 .. Len(s) : t[i] = s[i]
  BY AppendProperties
<1>2. DOMAIN s = 1 .. Len(s) /\ DOMAIN t = 1 .. Len(s) + 1 /\ Len(s) \in Nat
  BY <1>1, SeqDomain
<1>3. t # << >>
  BY <1>1, <1>2, SeqDomain
<1>4. Keys!ToSet(t) = Keys!ToSet(s) \cup {x}
  BY AppendedSet
<1> QED BY <1>1, <1>3, <1>4

LEMMA Beheaded ==
    ASSUME NEW S, NEW s \in Seq(S), s # << >>, NEW t, t = Tail(s)
    PROVE  /\ t \in Seq(S) /\ Len(t) = Len(s) - 1 /\ Head(s) \in S /\ Head(s) = s[1]
           /\ Keys!ToSet(s) = {Head(s)} \cup Keys!ToSet(t)
           /\ \A i \in 1 .. Len(t) : t[i] = s[i + 1]
<1>1. t \in Seq(S) /\ Len(t) = Len(s) - 1 /\ \A i \in 1 .. Len(t) : t[i] = s[i + 1]
  BY HeadTailProperties
<1>2. DOMAIN s = 1 .. Len(s) /\ DOMAIN t = 1 .. Len(t) /\ Len(s) \in Nat /\ Len(s) # 0
  BY <1>1, SeqDomain
<1>3. Head(s) = s[1] /\ s[1] \in S
  BY <1>2, SeqDomain
<1>4. Keys!ToSet(s) = {s[1]} \cup Keys!ToSet(t)
  <2>1. ASSUME NEW y \in Keys!ToSet(s) PROVE y \in {s[1]} \cup Keys!ToSet(t)
    <3>1. PICK i \in 1 .. Len(s) : y = s[i]
      BY <1>2, <2>1, ToSetMember
    <3>2. CASE i = 1
      BY <3>1, <3>2
    <3>3. CASE i # 1
      <4>1. i - 1 \in DOMAIN t /\ t[i - 1] = s[(i - 1) + 1] /\ (i - 1) + 1 = i
        BY <1>1, <1>2, <3>1, <3>3
      <4> QED BY <3>1, <4>1, ToSetMember
    <3> QED BY <3>2, <3>3
  <2>2. ASSUME NEW y \in Keys!ToSet(t) PROVE y \in Keys!ToSet(s)
    <3>1. PICK i \in 1 .. Len(t) : y = t[i]
      BY <1>2, <2>2, ToSetMember
    <3>2. i + 1 \in DOMAIN s /\ y = s[i + 1]
      BY <1>1, <1>2, <3>1
    <3> QED BY <3>2, ToSetMember
  <2>3. s[1] \in Keys!ToSet(s)
    <3>1. 1 \in DOMAIN s
      BY <1>2
    <3> QED BY <3>1, ToSetMember
  <2> QED BY <2>1, <2>2, <2>3
<1> QED BY <1>1, <1>3, <1>4

LEMMA OrderedTail ==
    ASSUME NEW S, NEW s \in Seq(S), s # << >>, Ordered(s), \A x \in S : x.n \in Nat
    PROVE  Ordered(Tail(s)) /\ Before({Head(s)}, Keys!ToSet(Tail(s)))
<1>1. PICK t : t = Tail(s)
  OBVIOUS
<1>2. /\ t \in Seq(S) /\ Len(t) = Len(s) - 1 /\ Head(s) = s[1]
      /\ \A i \in 1 .. Len(t) : t[i] = s[i + 1]
  BY <1>1, Beheaded
<1>3. DOMAIN s = 1 .. Len(s) /\ DOMAIN t = 1 .. Len(t) /\ Len(s) \in Nat
  BY <1>2, SeqDomain
<1>4. \A i, j \in 1 .. Len(s) : i < j /\ s[i].n # 0 /\ s[j].n # 0 => s[i].n < s[j].n
  BY <1>3 DEF Ordered
<1>5. Ordered(t)
  <2>1. ASSUME NEW i \in 1 .. Len(t), NEW j \in 1 .. Len(t), i < j, t[i].n # 0, t[j].n # 0
        PROVE  t[i].n < t[j].n
    <3>1. i + 1 \in 1 .. Len(s) /\ j + 1 \in 1 .. Len(s) /\ i + 1 < j + 1
      BY <1>2, <1>3, <2>1
    <3>2. t[i] = s[i + 1] /\ t[j] = s[j + 1]
      BY <1>2, <2>1
    <3> QED BY <1>4, <2>1, <3>1, <3>2
  <2> QED BY <1>3, <2>1 DEF Ordered
<1>6. Before({s[1]}, Keys!ToSet(t))
  <2>1. ASSUME NEW d \in Keys!ToSet(t), s[1].n # 0, d.n # 0 PROVE s[1].n < d.n
    <3>1. PICK i \in 1 .. Len(t) : d = t[i]
      BY <1>3, <2>1, ToSetMember
    <3>2. 1 \in 1 .. Len(s) /\ i + 1 \in 1 .. Len(s) /\ 1 < i + 1 /\ d = s[i + 1]
      BY <1>2, <1>3, <3>1
    <3> QED BY <1>4, <2>1, <3>2
  <2> QED BY <2>1 DEF Before
<1> QED BY <1>1, <1>2, <1>5, <1>6

LEMMA OrderedAppend ==
    ASSUME NEW S, NEW s \in Seq(S), NEW x \in S, Ordered(s), Before(Keys!ToSet(s), {x})
    PROVE  Ordered(Append(s, x))
<1>1. PICK t : t = Append(s, x)
  OBVIOUS
<1>2. /\ t \in Seq(S) /\ Len(t) = Len(s) + 1 /\ t[Len(t)] = x
      /\ \A i \in 1 .. Len(s) : t[i] = s[i]
  BY <1>1, Appended
<1>3. DOMAIN s = 1 .. Len(s) /\ DOMAIN t = 1 .. Len(t) /\ Len(s) \in Nat
  BY <1>2, SeqDomain
<1>4. ASSUME NEW i \in 1 .. Len(t), NEW j \in 1 .. Len(t), i < j, t[i].n # 0, t[j].n # 0
      PROVE  t[i].n < t[j].n
  <2>1. i \in 1 .. Len(s) /\ t[i] = s[i]
    BY <1>2, <1>3, <1>4
  <2>2. CASE j = Len(t)
    <3>1. s[i] \in Keys!ToSet(s)
      BY <1>3, <2>1, ToSetMember
    <3> QED BY <1>2, <1>4, <2>1, <2>2, <3>1 DEF Before
  <2>3. CASE j # Len(t)
    <3>1. j \in 1 .. Len(s) /\ t[j] = s[j]
      BY <1>2, <1>3, <2>3
    <3> QED BY <1>3, <1>4, <2>1, <3>1 DEF Ordered
  <2> QED BY <2>2, <2>3
<1> QED BY <1>1, <1>3, <1>4 DEF Ordered


-----------------------------------------------------------------------------
(* The keyboard's operations, field by field.                              *)
LEMMA KbdFields ==
    \A k \in KbdType : /\ k.buf \in Seq(Keys!Code) /\ k.out \in Seq(Keys!Code) /\ k.irq \in BOOLEAN
                       /\ k.timer \in BOOLEAN /\ k.clock \in BOOLEAN /\ k.led \in BOOLEAN
BY DEF KbdType

LEMMA BufSet ==
    ASSUME NEW k \in KbdType, NEW x \in Seq(Keys!Code), NEW d, d = [k EXCEPT !.buf = x]
    PROVE  /\ d \in KbdType /\ d.buf = x /\ d.out = k.out /\ d.irq = k.irq
           /\ d.timer = k.timer /\ d.clock = k.clock /\ d.led = k.led
BY DEF KbdType

LEMMA OutSet ==
    ASSUME NEW k \in KbdType, NEW x \in Seq(Keys!Code), NEW d, d = [k EXCEPT !.out = x]
    PROVE  /\ d \in KbdType /\ d.buf = k.buf /\ d.out = x /\ d.irq = k.irq
           /\ d.timer = k.timer /\ d.clock = k.clock /\ d.led = k.led
BY DEF KbdType

LEMMA IrqSet ==
    ASSUME NEW k \in KbdType, NEW x \in BOOLEAN, NEW d, d = [k EXCEPT !.irq = x]
    PROVE  /\ d \in KbdType /\ d.buf = k.buf /\ d.out = k.out /\ d.irq = x
           /\ d.timer = k.timer /\ d.clock = k.clock /\ d.led = k.led
BY Zenon DEF KbdType

LEMMA TimerSet ==
    ASSUME NEW k \in KbdType, NEW x \in BOOLEAN, NEW d, d = [k EXCEPT !.timer = x]
    PROVE  /\ d \in KbdType /\ d.buf = k.buf /\ d.out = k.out /\ d.irq = k.irq
           /\ d.timer = x /\ d.clock = k.clock /\ d.led = k.led
BY Zenon DEF KbdType

LEMMA ClockSet ==
    ASSUME NEW k \in KbdType, NEW x \in BOOLEAN, NEW d, d = [k EXCEPT !.clock = x]
    PROVE  /\ d \in KbdType /\ d.buf = k.buf /\ d.out = k.out /\ d.irq = k.irq
           /\ d.timer = k.timer /\ d.clock = x /\ d.led = k.led
BY Zenon DEF KbdType

LEMMA LedSet ==
    ASSUME NEW k \in KbdType, NEW x \in BOOLEAN, NEW d, d = [k EXCEPT !.led = x]
    PROVE  /\ d \in KbdType /\ d.buf = k.buf /\ d.out = k.out /\ d.irq = k.irq
           /\ d.timer = k.timer /\ d.clock = k.clock /\ d.led = x
BY Zenon DEF KbdType

(* A code is put behind those in the buffer.                               *)
LEMMA Queued ==
    ASSUME NEW k \in KbdType, NEW c \in Keys!Code, ~Keys!Full(k), NEW d, d = Keys!EnQ(k, c)
    PROVE  /\ d \in KbdType /\ d.buf = Append(k.buf, c) /\ d.out = k.out
           /\ d.irq = k.irq /\ d.clock = k.clock /\ d.led = k.led
<1>1. PICK x, y : x = Append(k.buf, c) /\ y = (k.timer \/ (k.out = << >> /\ k.clock))
  OBVIOUS
<1>2. PICK e : e = [k EXCEPT !.buf = x]
  OBVIOUS
<1>3. x \in Seq(Keys!Code) /\ y \in BOOLEAN
  <2>1. k.buf \in Seq(Keys!Code)
    BY KbdFields
  <2> QED BY <1>1, <2>1
<1>4. /\ e \in KbdType /\ e.buf = x /\ e.out = k.out /\ e.irq = k.irq
      /\ e.timer = k.timer /\ e.clock = k.clock /\ e.led = k.led
  BY <1>2, <1>3, BufSet
<1>5. d = [e EXCEPT !.timer = y]
  BY <1>1, <1>2, Zenon DEF Keys!EnQ
<1>6. /\ d \in KbdType /\ d.buf = e.buf /\ d.out = e.out /\ d.irq = e.irq
      /\ d.clock = e.clock /\ d.led = e.led
  BY <1>3, <1>4, <1>5, TimerSet
<1> QED BY <1>1, <1>4, <1>6

LEMMA EnabledIs ==
    ASSUME NEW k \in KbdType, NEW d, d = Keys!Enabled(k)
    PROVE  /\ d \in KbdType /\ d.buf = k.buf /\ d.out = k.out
           /\ d.irq = k.irq /\ d.clock = TRUE /\ d.led = k.led
<1>1. PICK x, y : x = TRUE /\ y = (k.timer \/ (~k.clock /\ k.out = << >>))
  OBVIOUS
<1>2. PICK e : e = [k EXCEPT !.clock = x]
  OBVIOUS
<1>3. x \in BOOLEAN /\ y \in BOOLEAN
  BY <1>1
<1>4. /\ e \in KbdType /\ e.buf = k.buf /\ e.out = k.out /\ e.irq = k.irq
      /\ e.timer = k.timer /\ e.clock = x /\ e.led = k.led
  BY <1>2, <1>3, ClockSet
<1>5. d = [e EXCEPT !.timer = y]
  BY <1>1, <1>2, Zenon DEF Keys!Enabled
<1>6. /\ d \in KbdType /\ d.buf = e.buf /\ d.out = e.out /\ d.irq = e.irq
      /\ d.clock = e.clock /\ d.led = e.led
  BY <1>3, <1>4, <1>5, TimerSet
<1> QED BY <1>1, <1>4, <1>6

LEMMA Overwritten ==
    ASSUME NEW k \in KbdType, NEW c \in Keys!Code, NEW d, d = Keys!EnQImm(k, c)
    PROVE  /\ d \in KbdType /\ d.buf = k.buf /\ d.out = <<c>>
           /\ d.irq = TRUE /\ d.clock = k.clock /\ d.led = k.led
<1>1. PICK x, y : x = <<c>> /\ y = TRUE
  OBVIOUS
<1>2. PICK e : e = [k EXCEPT !.out = x]
  OBVIOUS
<1>3. x \in Seq(Keys!Code) /\ y \in BOOLEAN
  BY <1>1
<1>4. /\ e \in KbdType /\ e.buf = k.buf /\ e.out = x /\ e.irq = k.irq
      /\ e.timer = k.timer /\ e.clock = k.clock /\ e.led = k.led
  BY <1>2, <1>3, OutSet
<1>5. d = [e EXCEPT !.irq = y]
  BY <1>1, <1>2, Zenon DEF Keys!EnQImm
<1>6. /\ d \in KbdType /\ d.buf = e.buf /\ d.out = e.out /\ d.irq = y
      /\ d.clock = e.clock /\ d.led = e.led
  BY <1>3, <1>4, <1>5, IrqSet
<1> QED BY <1>1, <1>4, <1>6

LEMMA ReadIs ==
    ASSUME NEW k \in KbdType, k.irq => k.out # << >>, NEW d, d = Keys!Read(k)
    PROVE  /\ d \in KbdType /\ d.buf = k.buf /\ d.out = << >>
           /\ d.irq = FALSE /\ d.clock = k.clock /\ d.led = k.led
<1>1. CASE k.out = << >>
  <2>1. d = k /\ k.irq \in BOOLEAN
    BY <1>1, KbdFields DEF Keys!Read
  <2>2. k.irq = FALSE
    BY <1>1, <2>1
  <2> QED BY <1>1, <2>1, <2>2
<1>2. CASE k.out # << >>
  <2>1. PICK x, y, z : x = << >> /\ y = FALSE /\ z = TRUE
    OBVIOUS
  <2>2. PICK e, f : e = [k EXCEPT !.out = x] /\ f = [e EXCEPT !.irq = y]
    OBVIOUS
  <2>3. x \in Seq(Keys!Code)
    BY <2>1
  <2>4. y \in BOOLEAN /\ z \in BOOLEAN
    BY <2>1
  <2>5. /\ e \in KbdType /\ e.buf = k.buf /\ e.out = x
        /\ e.clock = k.clock /\ e.led = k.led
    BY <2>2, <2>3, OutSet
  <2>6. e \in KbdType /\ y \in BOOLEAN /\ f = [e EXCEPT !.irq = y]
    BY <2>2, <2>5, <2>4
  <2>7. /\ f \in KbdType /\ f.buf = e.buf /\ f.out = e.out /\ f.irq = y
        /\ f.clock = e.clock /\ f.led = e.led
    BY <2>6, IrqSet
  <2>8. d = [f EXCEPT !.timer = z]
    BY <1>2, <2>1, <2>2, Zenon DEF Keys!Read
  <2>9. /\ d \in KbdType /\ d.buf = f.buf /\ d.out = f.out /\ d.irq = f.irq
        /\ d.clock = f.clock /\ d.led = f.led
    BY <2>7, <2>8, <2>4, TimerSet
  <2> QED BY <2>1, <2>5, <2>7, <2>9
<1> QED BY <1>1, <1>2

LEMMA LoweredIs ==
    ASSUME NEW p \in PicType, p.irr => p.line, NEW q, q = Keys!Lowered(p)
    PROVE  q \in PicType /\ q.irr = FALSE /\ q.isr = p.isr
<1>1. p.irr \in BOOLEAN
  BY DEF PicType
<1>2. CASE ~p.line
  <2>1. q = p /\ p.irr = FALSE
    BY <1>1, <1>2 DEF Keys!Lowered
  <2> QED BY <2>1
<1>3. CASE p.line
  <2>1. PICK n \in BOOLEAN : n = FALSE
    OBVIOUS
  <2>2. q = [[p EXCEPT !.line = n] EXCEPT !.irr = n]
    BY <1>3, <2>1, Zenon DEF Keys!Lowered
  <2>3. q \in PicType /\ q.irr = n /\ q.isr = p.isr
    BY <2>2, Zenon DEF PicType
  <2> QED BY <2>1, <2>3
<1> QED BY <1>2, <1>3

LEMMA RaiseIs ==
    ASSUME NEW p \in PicType, NEW asked \in BOOLEAN, p.irr => p.line, NEW q, q = Keys!Raise(p, asked)
    PROVE  q \in PicType /\ (q.irr => q.line /\ (p.irr \/ asked)) /\ q.isr = p.isr
<1>1. p.irr \in BOOLEAN
  BY DEF PicType
<1>2. CASE ~(asked /\ ~p.line)
  <2>1. q = p
    BY <1>2 DEF Keys!Raise
  <2> QED BY <2>1
<1>3. CASE asked /\ ~p.line
  <2>1. PICK y \in BOOLEAN : y = TRUE
    OBVIOUS
  <2>2. q = [[p EXCEPT !.line = y] EXCEPT !.irr = y]
    BY <1>3, <2>1, Zenon DEF Keys!Raise
  <2>3. q \in PicType /\ q.irr = y /\ q.line = y /\ q.isr = p.isr
    BY <2>2, Zenon DEF PicType
  <2> QED BY <1>3, <2>1, <2>3
<1> QED BY <1>2, <1>3


-----------------------------------------------------------------------------
(* Steps that leave everything on its way where it is.                     *)
LEMMA Retold ==
    ASSUME Story, Pending' = Pending, Line' = Line, hand' = hand, typed' = typed,
           lost' = {} => lost = {},
           flags'.shift = flags.shift, flags'.caps = flags.caps
    PROVE  Story'
<1> SUFFICES ASSUME lost' = {} PROVE \E h \in [Nat -> Lamps], p \in 0 .. hand'.events : StoryIs(h, p)'
  BY DEF Story
<1>1. PICK h \in [Nat -> Lamps], p \in 0 .. hand.events : StoryIs(h, p)
  BY DEF Story
<1>2. StoryIs(h, p)'
  BY <1>1, Zenon DEF StoryIs
<1> QED BY <1>1, <1>2

LEMMA CodesStay ==
    ASSUME CodesOrder, codeRead' = codeRead, kbd'.out = kbd.out, kbd'.buf = kbd.buf
    PROVE  CodesOrder' /\ AllCodes' = AllCodes /\ Pending' = Pending
BY Zenon DEF CodesOrder, AllCodes, Pending

LEMMA KeysStay ==
    ASSUME KeysOrder, UNCHANGED <<screen, taken, ring>>
    PROVE  KeysOrder' /\ Line' = Line
BY Zenon DEF KeysOrder, Line

LEMMA LineStays ==
    ASSUME LineOrder, TypedOrder, hand' = hand, typed' = typed, Line' = Line, Pending' \subseteq Pending
    PROVE  LineOrder' /\ TypedOrder'
BY Zenon DEF LineOrder, TypedOrder

LEMMA AloneStays ==
    ASSUME Alone, hand' = hand, lost' = lost, Pending' \subseteq Pending, ring' # << >> => ring # << >>
    PROVE  Alone'
BY Zenon DEF Alone

LEMMA Standing ==
    ASSUME KeysIInv, UNCHANGED <<hand, typed, lost, codeRead, ring, taken, screen, flags>>,
           kbd'.out = kbd.out, kbd'.buf = kbd.buf
    PROVE  CodesOrder' /\ KeysOrder' /\ LineOrder' /\ TypedOrder' /\ Alone' /\ Story'
<1>1. CodesOrder' /\ Pending' = Pending
  BY CodesStay DEF KeysIInv
<1>2. KeysOrder' /\ Line' = Line
  BY KeysStay DEF KeysIInv
<1>3. LineOrder' /\ TypedOrder'
  BY <1>1, <1>2, LineStays DEF KeysIInv
<1>4. Alone'
  BY <1>1, AloneStays DEF KeysIInv
<1>5. Story'
  BY <1>1, <1>2, Retold DEF KeysIInv
<1> QED BY <1>1, <1>2, <1>3, <1>4, <1>5

LEMMA EnterKeeps ==
    ASSUME KeysIInv, Keys!Enter
    PROVE  KeysIInv'
<1>1. HandTypes /\ KbdTypes /\ CpuTypes /\ Signals /\ Conversation
  BY DEF KeysIInv
<1>2. /\ open /\ irq1.irr /\ handler = "none" /\ handler' = "read"
      /\ irq1' = [irq1 EXCEPT !.irr = FALSE, !.isr = TRUE]
      /\ kbd' = [kbd EXCEPT !.clock = FALSE]
      /\ UNCHANGED <<hand, typed, flags, ring, codeRead, keysPc, open, taken, screen, lost, stopped>>
  BY DEF Keys!Enter, Keys!Goes
<1>3. PICK no, yes : no = FALSE /\ yes = TRUE
  OBVIOUS
<1>4. no \in BOOLEAN /\ yes \in BOOLEAN
  BY <1>3
<1>5. /\ kbd' \in KbdType /\ kbd'.buf = kbd.buf /\ kbd'.out = kbd.out /\ kbd'.irq = kbd.irq
      /\ kbd'.clock = no /\ kbd'.led = kbd.led
  BY <1>1, <1>2, <1>3, <1>4, ClockSet DEF KbdTypes
<1>6. irq1' \in PicType /\ irq1'.irr = no
  <2>1. irq1' = [[irq1 EXCEPT !.irr = no] EXCEPT !.isr = yes]
    BY <1>2, <1>3, Zenon
  <2>2. irq1 \in PicType
    BY <1>1 DEF KbdTypes
  <2> QED BY <1>4, <2>1, <2>2, Zenon DEF PicType
<1>7. HandTypes' /\ KbdTypes'
  BY <1>1, <1>2, <1>5, <1>6, Zenon DEF HandTypes, KbdTypes
<1>8. CpuTypes'
  BY <1>1, <1>2 DEF CpuTypes, HandlerPlaces
<1>9. Signals'
  BY <1>1, <1>2, <1>3, <1>5, <1>6 DEF Signals
<1>10. Conversation'
  BY <1>1, <1>2, <1>5, Zenon DEF Conversation, Keys!AnswerIsRead, Keys!LightsAreKnown
<1>11. CodesOrder' /\ KeysOrder' /\ LineOrder' /\ TypedOrder' /\ Alone' /\ Story'
  BY <1>2, <1>5, Standing
<1> QED BY <1>7, <1>8, <1>9, <1>10, <1>11 DEF KeysIInv

LEMMA EoiKeeps ==
    ASSUME KeysIInv, Keys!Eoi
    PROVE  KeysIInv'
<1>1. HandTypes /\ KbdTypes /\ CpuTypes /\ Signals /\ Conversation
  BY DEF KeysIInv
<1>2. /\ handler = "eoi" /\ handler' = "enable" /\ irq1' = [irq1 EXCEPT !.isr = FALSE]
      /\ UNCHANGED <<hand, typed, kbd, flags, ring, codeRead, keysPc, open, taken, screen, lost, stopped>>
  BY DEF Keys!Eoi, Keys!Goes
<1>3. PICK no \in BOOLEAN : no = FALSE
  OBVIOUS
<1>4. irq1' \in PicType /\ irq1'.irr = irq1.irr /\ irq1'.line = irq1.line
  <2>1. irq1 \in PicType /\ irq1' = [irq1 EXCEPT !.isr = no]
    BY <1>1, <1>2, <1>3 DEF KbdTypes
  <2> QED BY <1>3, <2>1, Zenon DEF PicType
<1>5. HandTypes' /\ KbdTypes'
  BY <1>1, <1>2, <1>4, Zenon DEF HandTypes, KbdTypes
<1>6. CpuTypes'
  BY <1>1, <1>2 DEF CpuTypes, HandlerPlaces
<1>7. Signals'
  BY <1>1, <1>2, <1>4 DEF Signals
<1>8. Conversation'
  <2>1. keysPc \notin LightsPlaces
    BY <1>1, <1>2 DEF Conversation
  <2> QED BY <1>1, <1>2, <2>1, Zenon DEF Conversation, Keys!AnswerIsRead,
             Keys!LightsAreKnown
<1>9. CodesOrder' /\ KeysOrder' /\ LineOrder' /\ TypedOrder' /\ Alone' /\ Story'
  BY <1>2, Standing
<1> QED BY <1>5, <1>6, <1>7, <1>8, <1>9 DEF KeysIInv

LEMMA LeaveKeeps ==
    ASSUME KeysIInv, Keys!Leave
    PROVE  KeysIInv'
<1>1. HandTypes /\ KbdTypes /\ CpuTypes /\ Signals /\ Conversation
  BY DEF KeysIInv
<1>2. /\ handler = "enable" /\ handler' = "none" /\ kbd' = Keys!Enabled(kbd)
      /\ UNCHANGED <<hand, typed, irq1, flags, ring, codeRead, keysPc, open, taken, screen, lost, stopped>>
  BY DEF Keys!Leave, Keys!Goes
<1>3. /\ kbd' \in KbdType /\ kbd'.buf = kbd.buf /\ kbd'.out = kbd.out /\ kbd'.irq = kbd.irq
      /\ kbd'.clock = TRUE /\ kbd'.led = kbd.led
  BY <1>1, <1>2, EnabledIs DEF KbdTypes
<1>4. HandTypes' /\ KbdTypes'
  BY <1>1, <1>2, <1>3, Zenon DEF HandTypes, KbdTypes
<1>5. CpuTypes'
  BY <1>1, <1>2 DEF CpuTypes, HandlerPlaces
<1>6. Signals'
  BY <1>1, <1>2, <1>3 DEF Signals
<1>7. Conversation'
  BY <1>1, <1>2, <1>3, Zenon DEF Conversation, Keys!AnswerIsRead, Keys!LightsAreKnown
<1>8. CodesOrder' /\ KeysOrder' /\ LineOrder' /\ TypedOrder' /\ Alone' /\ Story'
  BY <1>2, <1>3, Standing
<1> QED BY <1>4, <1>5, <1>6, <1>7, <1>8 DEF KeysIInv

LEMMA KeyFoundKeeps ==
    ASSUME KeysIInv, Keys!KeyFound
    PROVE  KeysIInv'
<1>1. HandTypes /\ KbdTypes /\ CpuTypes /\ Signals /\ Conversation
  BY DEF KeysIInv
<1>2. /\ handler = "none" /\ keysPc = "wait" /\ keysPc' \in {"command", "take"}
      /\ ring # << >> /\ open' = FALSE
      /\ UNCHANGED <<hand, typed, kbd, irq1, flags, ring, handler, codeRead, taken, screen,
                     lost, stopped>>
  BY DEF Keys!KeyFound, Keys!Step
<1>3. HandTypes' /\ KbdTypes'
  BY <1>1, <1>2, Zenon DEF HandTypes, KbdTypes
<1>4. CpuTypes'
  <2>1. keysPc' \in KeysPlaces /\ open' \in BOOLEAN
    BY <1>2 DEF KeysPlaces
  <2> QED BY <1>1, <1>2, <2>1, Zenon DEF CpuTypes
<1>5. Signals'
  BY <1>1, <1>2, Zenon DEF Signals
<1>6. Conversation'
  BY <1>1, <1>2 DEF Conversation, Keys!AnswerIsRead, Keys!LightsAreKnown
<1>7. CodesOrder' /\ KeysOrder' /\ LineOrder' /\ TypedOrder' /\ Alone' /\ Story'
  BY <1>2, Standing
<1> QED BY <1>3, <1>4, <1>5, <1>6, <1>7 DEF KeysIInv


-----------------------------------------------------------------------------
(* Steps that move something on its way.                                   *)
LEMMA CodeNumbers == \A c \in Keys!Code : c.n \in Nat
<1>1. MaxEvents \in Nat
  BY KeysHold, Zenon DEF Keys!KeyboardAssumption
<1> QED BY <1>1 DEF Keys!Code

LEMMA KeyNumbers == \A k \in Keys!Keys : k.n \in Nat /\ k.n # 0
<1>1. MaxEvents \in Nat
  BY KeysHold, Zenon DEF Keys!KeyboardAssumption
<1> QED BY <1>1 DEF Keys!Keys

LEMMA BeforeParts ==
    \A S, T, U : (T \subseteq U /\ Before(S, U) => Before(S, T))
                 /\ (T \subseteq U /\ Before(U, S) => Before(T, S))
                 /\ Before(S, {}) /\ Before({}, S)
BY DEF Before

LEMMA PeriodicKeeps ==
    ASSUME KeysIInv, Keys!Periodic
    PROVE  KeysIInv'
<1>1. /\ HandTypes /\ KbdTypes /\ CpuTypes /\ Signals /\ Conversation
      /\ CodesOrder /\ KeysOrder /\ LineOrder /\ TypedOrder /\ Alone /\ Story
  BY DEF KeysIInv
<1>2. irq1' = Keys!Raise(irq1, kbd.irq) /\ UNCHANGED <<hand, typed, Keys!cpu, lost, stopped>>
  BY DEF Keys!Periodic
<1>3. UNCHANGED <<hand, typed, flags, ring, handler, codeRead, keysPc, open, taken, screen, lost, stopped>>
  BY <1>2 DEF Keys!cpu
<1>4. kbd \in KbdType /\ irq1 \in PicType /\ kbd.irq \in BOOLEAN
  BY <1>1, KbdFields DEF KbdTypes
<1>5. irq1' \in PicType /\ (irq1'.irr => irq1'.line /\ (irq1.irr \/ kbd.irq))
  <2>1. irq1.irr => irq1.line
    BY <1>1 DEF Signals
  <2>2. PICK p \in PicType, asked \in BOOLEAN : p = irq1 /\ asked = kbd.irq
    BY <1>4
  <2>3. PICK q : p = irq1 /\ asked = kbd.irq /\ q = Keys!Raise(p, asked)
    BY <2>2
  <2>4. p.irr => p.line
    BY <2>1, <2>3
  <2>5. q \in PicType /\ (q.irr => q.line /\ (p.irr \/ asked))
    BY <2>3, <2>4, RaiseIs
  <2> QED BY <1>2, <2>3, <2>5, Zenon
<1>6. PICK no, yes : no = FALSE /\ yes = TRUE
  OBVIOUS
<1>7. no \in BOOLEAN /\ yes \in BOOLEAN
  BY <1>6
<1>8. HandTypes' /\ CpuTypes'
  BY <1>1, <1>3, Zenon DEF HandTypes, CpuTypes
<1>9. CASE ~(kbd.timer /\ kbd.out = << >> /\ kbd.buf # << >> /\ kbd.clock)
  <2>1. PICK e : e = [kbd EXCEPT !.timer = no]
    OBVIOUS
  <2>2. kbd' = [e EXCEPT !.irq = no]
    BY <1>6, <1>9, <2>1, Zenon DEF Keys!Periodic
  <2>3. /\ e \in KbdType /\ e.buf = kbd.buf /\ e.out = kbd.out
        /\ e.clock = kbd.clock /\ e.led = kbd.led
    BY <1>4, <1>7, <2>1, TimerSet
  <2>4. /\ kbd' \in KbdType /\ kbd'.buf = e.buf /\ kbd'.out = e.out /\ kbd'.irq = no
        /\ kbd'.clock = e.clock /\ kbd'.led = e.led
    BY <1>7, <2>2, <2>3, IrqSet
  <2>5. /\ kbd'.buf = kbd.buf /\ kbd'.out = kbd.out /\ kbd'.irq = FALSE
        /\ kbd'.clock = kbd.clock /\ kbd'.led = kbd.led
    BY <1>6, <2>3, <2>4
  <2>6. KbdTypes'
    BY <1>1, <1>5, <2>4, <2>5, Zenon DEF KbdTypes
  <2>7. Signals'
    BY <1>1, <1>3, <1>5, <2>5 DEF Signals
  <2>8. Conversation'
    BY <1>1, <1>3, <2>5, Zenon DEF Conversation, Keys!AnswerIsRead,
       Keys!LightsAreKnown
  <2>9. CodesOrder' /\ KeysOrder' /\ LineOrder' /\ TypedOrder' /\ Alone' /\ Story'
    BY <1>3, <2>5, Standing
  <2> QED BY <1>8, <2>6, <2>7, <2>8, <2>9 DEF KeysIInv
<1>10. CASE kbd.timer /\ kbd.out = << >> /\ kbd.buf # << >> /\ kbd.clock
  <2>1. PICK x, y : x = <<Head(kbd.buf)>> /\ y = Tail(kbd.buf)
    OBVIOUS
  <2>2. PICK e, f, g : /\ e = [kbd EXCEPT !.timer = no] /\ f = [e EXCEPT !.irq = yes]
                       /\ g = [f EXCEPT !.out = x]
    OBVIOUS
  <2>3. kbd' = [g EXCEPT !.buf = y]
    BY <1>6, <1>10, <2>1, <2>2, Zenon DEF Keys!Periodic
  <2>4. /\ y \in Seq(Keys!Code) /\ Len(y) = Len(kbd.buf) - 1 /\ Head(kbd.buf) \in Keys!Code
        /\ Keys!ToSet(kbd.buf) = {Head(kbd.buf)} \cup Keys!ToSet(y)
    <3>1. PICK b \in Seq(Keys!Code) : b = kbd.buf
      BY <1>4, KbdFields
    <3>2. b # << >> /\ y = Tail(b)
      BY <1>10, <2>1, <3>1
    <3>3. y \in Seq(Keys!Code) /\ Len(y) = Len(b) - 1 /\ Head(b) \in Keys!Code
      BY <3>2, Beheaded
    <3>4. Keys!ToSet(b) = {Head(b)} \cup Keys!ToSet(y)
      BY <3>2, Beheaded
    <3> QED BY <3>1, <3>3, <3>4
  <2>5. x \in Seq(Keys!Code) /\ Len(x) = 1 /\ Len(x) <= 1 /\ x # << >> /\ Keys!ToSet(x) = {Head(kbd.buf)}
    BY <2>1, <2>4, ToSetOne
  <2>6. /\ e \in KbdType /\ e.buf = kbd.buf /\ e.out = kbd.out
        /\ e.clock = kbd.clock /\ e.led = kbd.led
    BY <1>4, <1>7, <2>2, TimerSet
  <2>7. f = [e EXCEPT !.irq = yes]
    BY <2>2
  <2>8. /\ f \in KbdType /\ f.buf = e.buf /\ f.out = e.out /\ f.irq = yes
        /\ f.clock = e.clock /\ f.led = e.led
    BY <1>7, <2>6, <2>7, IrqSet
  <2>9. g = [f EXCEPT !.out = x]
    BY <2>2
  <2>10. /\ g \in KbdType /\ g.buf = f.buf /\ g.out = x /\ g.irq = f.irq
         /\ g.clock = f.clock /\ g.led = f.led
    BY <2>5, <2>8, <2>9, OutSet
  <2>11. /\ kbd' \in KbdType /\ kbd'.buf = y /\ kbd'.out = g.out /\ kbd'.irq = g.irq
         /\ kbd'.clock = g.clock /\ kbd'.led = g.led
    BY <2>3, <2>4, <2>10, BufSet
  <2>12. kbd'.out = x /\ kbd'.clock = kbd.clock /\ kbd'.led = kbd.led
    BY <2>6, <2>8, <2>10, <2>11
  <2>13. KbdTypes'
    <3>1. Len(kbd.buf) <= Elements /\ Elements \in Nat /\ Len(kbd.buf) \in Nat
      <4>1. Elements \in Nat
        BY KeysHold, Zenon DEF Keys!KeyboardAssumption
      <4> QED BY <1>1, <1>4, <4>1, KbdFields, SeqDomain DEF KbdTypes
    <3>2. Len(kbd'.buf) <= Elements
      BY <2>4, <2>11, <3>1
    <3>3. Len(kbd'.out) <= 1
      BY <2>5, <2>12, Zenon
    <3> QED BY <1>5, <2>11, <3>2, <3>3, Zenon DEF KbdTypes
  <2>14. Signals'
    BY <1>1, <1>3, <1>5, <2>5, <2>12 DEF Signals
  <2>15. Conversation'
    <3>1. keysPc = "answer" => stopped
      BY <1>1, <1>10 DEF Conversation, Keys!AnswerIsRead
    <3> QED BY <1>1, <1>3, <2>12, <3>1, Zenon DEF Conversation, Keys!AnswerIsRead,
               Keys!LightsAreKnown
  <2>16. Keys!ToSet(kbd.out) = {} /\ Keys!ToSet(kbd'.out) = {Head(kbd.buf)} /\ codeRead' = codeRead
    BY <1>3, <1>10, <2>5, <2>12, ToSetNone
  <2>17. AllCodes' = AllCodes
    BY <2>4, <2>11, <2>16 DEF AllCodes
  <2>18. Pending' = Pending
    BY <2>17, Zenon DEF Pending
  <2>19. CodesOrder'
    <3>1. kbd.buf \in Seq(Keys!Code) /\ kbd.buf # << >>
      BY <1>4, <1>10, KbdFields
    <3>2. Ordered(y) /\ Before({Head(kbd.buf)}, Keys!ToSet(y))
      BY <1>1, <2>1, <3>1, OrderedTail, CodeNumbers DEF CodesOrder
    <3>3. Before(Keys!ToSet(codeRead), {Head(kbd.buf)}) /\ Before(Keys!ToSet(codeRead), Keys!ToSet(y))
      BY <1>1, <2>4, BeforeParts DEF CodesOrder
    <3>4. \A c \in AllCodes' : c.key = "ack" <=> c.n = 0
      BY <1>1, <2>17 DEF CodesOrder
    <3> QED BY <2>11, <2>16, <3>2, <3>3, <3>4 DEF CodesOrder
  <2>20. KeysOrder' /\ Line' = Line
    BY <1>1, <1>3, KeysStay
  <2>21. LineOrder' /\ TypedOrder'
    BY <1>1, <1>3, <2>18, <2>20, LineStays
  <2>22. Alone'
    BY <1>1, <1>3, <2>18, AloneStays
  <2>23. Story'
    BY <1>1, <1>3, <2>18, <2>20, Retold
  <2> QED BY <1>8, <2>13, <2>14, <2>15, <2>19, <2>20, <2>21, <2>22, <2>23 DEF KeysIInv
<1> QED BY <1>9, <1>10

LEMMA ReadCodeKeeps ==
    ASSUME KeysIInv, Keys!ReadCode
    PROVE  KeysIInv'
<1>1. /\ HandTypes /\ KbdTypes /\ CpuTypes /\ Signals /\ Conversation
      /\ CodesOrder /\ KeysOrder /\ LineOrder /\ TypedOrder /\ Alone /\ Story
  BY DEF KeysIInv
<1>2. /\ handler = "read" /\ handler' = "process" /\ codeRead' = kbd.out
      /\ kbd' = Keys!Read(kbd) /\ irq1' = Keys!Lowered(irq1)
      /\ UNCHANGED <<hand, typed, flags, ring, keysPc, open, taken, screen, lost, stopped>>
  BY DEF Keys!ReadCode, Keys!Goes
<1>3. kbd.out # << >> /\ codeRead = << >> /\ (kbd.irq => kbd.out # << >>) /\ (irq1.irr => irq1.line)
  BY <1>1, <1>2 DEF Signals, CpuTypes
<1>4. /\ kbd' \in KbdType /\ kbd'.buf = kbd.buf /\ kbd'.out = << >> /\ kbd'.irq = FALSE
      /\ kbd'.clock = kbd.clock /\ kbd'.led = kbd.led
  BY <1>1, <1>2, <1>3, ReadIs DEF KbdTypes
<1>5. irq1' \in PicType /\ irq1'.irr = FALSE
  BY <1>1, <1>2, <1>3, LoweredIs DEF KbdTypes
<1>6. HandTypes'
  BY <1>1, <1>2, Zenon DEF HandTypes
<1>7. KbdTypes'
  <2>1. Len(kbd'.out) <= 1
    <3>1. Len(<< >>) <= 1
      OBVIOUS
    <3> QED BY <1>4, <3>1
  <2> QED BY <1>1, <1>4, <1>5, <2>1 DEF KbdTypes
<1>8. CpuTypes'
  <2>1. codeRead' \in Seq(Keys!Code) /\ Len(codeRead') <= 1
    BY <1>1, <1>2, KbdFields DEF KbdTypes
  <2> QED BY <1>1, <1>2, <1>3, <2>1 DEF CpuTypes, HandlerPlaces
<1>9. Signals'
  BY <1>1, <1>2, <1>4, <1>5 DEF Signals
<1>10. Conversation'
  <2>1. keysPc \notin LightsPlaces
    BY <1>1, <1>2 DEF Conversation
  <2> QED BY <1>1, <1>2, <1>4, <2>1 DEF Conversation, Keys!AnswerIsRead,
             Keys!LightsAreKnown, LightsPlaces
<1>11. Keys!ToSet(codeRead) = {} /\ Keys!ToSet(codeRead') = Keys!ToSet(kbd.out) /\ Keys!ToSet(kbd'.out) = {}
  BY <1>2, <1>3, <1>4, ToSetNone
<1>12. AllCodes' = AllCodes
  BY <1>4, <1>11 DEF AllCodes
<1>13. Pending' = Pending
  BY <1>12, Zenon DEF Pending
<1>14. CodesOrder'
  BY <1>1, <1>4, <1>11, <1>12, BeforeParts DEF CodesOrder
<1>15. KeysOrder' /\ Line' = Line
  BY <1>1, <1>2, KeysStay
<1>16. LineOrder' /\ TypedOrder'
  BY <1>1, <1>2, <1>13, <1>15, LineStays
<1>17. Alone'
  BY <1>1, <1>2, <1>13, AloneStays
<1>18. Story'
  BY <1>1, <1>2, <1>13, <1>15, Retold
<1> QED BY <1>6, <1>7, <1>8, <1>9, <1>10, <1>14, <1>15, <1>16, <1>17, <1>18
           DEF KeysIInv

LEMMA TakeKeeps ==
    ASSUME KeysIInv, Keys!Take
    PROVE  KeysIInv'
<1>1. /\ HandTypes /\ KbdTypes /\ CpuTypes /\ Signals /\ Conversation
      /\ CodesOrder /\ KeysOrder /\ LineOrder /\ TypedOrder /\ Alone /\ Story
  BY DEF KeysIInv
<1>2. /\ handler = "none" /\ keysPc = "take" /\ keysPc' = "show" /\ taken' = <<Head(ring)>>
      /\ ring' = Tail(ring) /\ open' = TRUE
      /\ UNCHANGED <<hand, typed, kbd, irq1, flags, handler, codeRead, screen, lost, stopped>>
  BY DEF Keys!Take, Keys!Step, Keys!Dequeued
<1>3. ring # << >> /\ taken = << >> /\ ring \in Seq(Keys!Keys) /\ Len(ring) <= Words - 1
      /\ screen \in Seq(Keys!Keys)
  BY <1>1, <1>2 DEF Conversation, CpuTypes, KeyPlaces
<1>4. /\ ring' \in Seq(Keys!Keys) /\ Len(ring') = Len(ring) - 1 /\ Head(ring) \in Keys!Keys
      /\ Keys!ToSet(ring) = {Head(ring)} \cup Keys!ToSet(ring')
  <2>1. PICK r \in Seq(Keys!Keys) : r = ring
    BY <1>3
  <2>2. PICK t : r = ring /\ t = Tail(r)
    BY <2>1
  <2>3. r # << >>
    BY <1>3, <2>2
  <2>4. t \in Seq(Keys!Keys) /\ Len(t) = Len(r) - 1 /\ Head(r) \in Keys!Keys
    BY <2>2, <2>3, Beheaded
  <2>5. Keys!ToSet(r) = {Head(r)} \cup Keys!ToSet(t)
    <3>1. r \in Seq(Keys!Keys) /\ r # << >> /\ t = Tail(r)
      BY <2>2, <2>3
    <3> QED BY <3>1, Beheaded
  <2> QED BY <1>2, <2>2, <2>4, <2>5
<1>5. taken' \in Seq(Keys!Keys) /\ Len(taken') = 1 /\ taken' # << >>
  BY <1>2, <1>4
<1>6. HandTypes' /\ KbdTypes'
  BY <1>1, <1>2, Zenon DEF HandTypes, KbdTypes
<1>7. CpuTypes'
  <2>1. Len(ring') <= Words - 1
    <3>1. Words \in Nat
      BY KeysHold, Zenon DEF Keys!KeyboardAssumption
    <3>2. Len(ring) \in Nat
      BY <1>3, SeqDomain
    <3> QED BY <1>3, <1>4, <3>1, <3>2
  <2>2. keysPc' \in KeysPlaces /\ open' \in BOOLEAN /\ Len(taken') <= 1
    BY <1>2, <1>5 DEF KeysPlaces
  <2> QED BY <1>1, <1>2, <1>4, <1>5, <2>1, <2>2, Zenon DEF CpuTypes
<1>8. Signals'
  BY <1>1, <1>2, Zenon DEF Signals
<1>9. Conversation'
  BY <1>1, <1>2, <1>5 DEF Conversation, Keys!AnswerIsRead, Keys!LightsAreKnown,
     LightsPlaces, KeyPlaces
<1>10. CodesOrder' /\ Pending' = Pending
  BY <1>1, <1>2, CodesStay
<1>11. KeysOrder'
  <2>1. Ordered(ring') /\ Before({Head(ring)}, Keys!ToSet(ring'))
    BY <1>1, <1>2, <1>3, OrderedTail, KeyNumbers DEF KeysOrder
  <2> QED BY <1>2, <2>1, ToSetOne DEF KeysOrder
<1>12. Line' = Line
  <2>1. PICK x \in Keys!Keys : x = Head(ring)
    BY <1>4
  <2>2. <<x>> \o Tail(ring) = ring
    <3>1. PICK t : t = Tail(ring)
      OBVIOUS
    <3>2. /\ t \in Seq(Keys!Keys) /\ Len(t) = Len(ring) - 1 /\ Head(ring) = ring[1]
          /\ \A i \in 1 .. Len(t) : t[i] = ring[i + 1]
      BY <1>3, <3>1, Beheaded
    <3>3. PICK s : s = <<x>>
      OBVIOUS
    <3>4. s \in Seq(Keys!Keys) /\ Len(s) = 1 /\ s[1] = x
      BY <3>3
    <3>5. Len(ring) \in Nat
      BY <1>3, SeqDomain
    <3>6. /\ s \o t \in Seq(Keys!Keys) /\ Len(s \o t) = Len(s) + Len(t)
          /\ \A i \in 1 .. Len(s) + Len(t) : (s \o t)[i] = IF i <= Len(s) THEN s[i] ELSE t[i - Len(s)]
      <4>1. s \in Seq(Keys!Keys) /\ t \in Seq(Keys!Keys)
        BY <3>2, <3>4
      <4> QED BY <4>1, ConcatProperties
    <3>7. PICK r : r = s \o t
      OBVIOUS
    <3>8. r \in Seq(Keys!Keys) /\ Len(r) = Len(ring)
          /\ \A i \in 1 .. Len(ring) : r[i] = IF i <= 1 THEN s[i] ELSE t[i - 1]
      BY <3>2, <3>4, <3>5, <3>6, <3>7
    <3>9. \A i \in 1 .. Len(ring) : r[i] = ring[i]
      <4>1. ASSUME NEW i \in 1 .. Len(ring) PROVE r[i] = ring[i]
        <5>1. CASE i = 1
          BY <2>1, <3>2, <3>4, <3>5, <3>8, <5>1
        <5>2. CASE i # 1
          <6>1. i - 1 \in 1 .. Len(t) /\ (i - 1) + 1 = i
            BY <3>2, <3>5, <4>1, <5>2
          <6>2. r[i] = t[i - 1]
            BY <3>5, <3>8, <4>1, <5>2
          <6>3. t[i - 1] = ring[(i - 1) + 1]
            BY <3>2, <6>1
          <6> QED BY <6>1, <6>2, <6>3
        <5> QED BY <5>1, <5>2
      <4> QED BY <4>1
    <3>10. r = ring
      BY <1>3, <3>8, <3>9, SeqEqual
    <3> QED BY <3>1, <3>3, <3>7, <3>10
  <2>3. << >> \in Seq(Keys!Keys) /\ <<x>> \in Seq(Keys!Keys)
    OBVIOUS
  <2>4. screen \o << >> = screen
    BY <1>3, ConcatEmptySeq
  <2>5. (screen \o <<x>>) \o Tail(ring) = screen \o (<<x>> \o Tail(ring))
    BY <1>2, <1>3, <1>4, <2>3, ConcatAssociative
  <2> QED BY <1>2, <1>3, <2>1, <2>2, <2>4, <2>5 DEF Line
<1>13. LineOrder' /\ TypedOrder'
  BY <1>1, <1>2, <1>10, <1>12, LineStays
<1>14. Alone'
  BY <1>1, <1>2, <1>3, <1>10, AloneStays
<1>15. Story'
  BY <1>1, <1>2, <1>10, <1>12, Retold
<1> QED BY <1>6, <1>7, <1>8, <1>9, <1>10, <1>11, <1>13, <1>14, <1>15 DEF KeysIInv

LEMMA ShowKeeps ==
    ASSUME KeysIInv, Keys!Show
    PROVE  KeysIInv'
<1>1. /\ HandTypes /\ KbdTypes /\ CpuTypes /\ Signals /\ Conversation
      /\ CodesOrder /\ KeysOrder /\ LineOrder /\ TypedOrder /\ Alone /\ Story
  BY DEF KeysIInv
<1>2. /\ handler = "none" /\ keysPc = "show" /\ keysPc' = "wait" /\ taken' = << >>
      /\ screen' = screen \o taken
      /\ UNCHANGED <<hand, typed, kbd, irq1, flags, ring, handler, codeRead, open, lost, stopped>>
  BY DEF Keys!Show, Keys!Step
<1>3. taken \in Seq(Keys!Keys) /\ screen \in Seq(Keys!Keys)
  BY <1>1 DEF CpuTypes
<1>4. screen' \in Seq(Keys!Keys) /\ screen' \o << >> = screen'
  <2>1. screen' \in Seq(Keys!Keys)
    BY <1>2, <1>3, ConcatProperties
  <2> QED BY <2>1, ConcatEmptySeq
<1>5. HandTypes' /\ KbdTypes'
  BY <1>1, <1>2, Zenon DEF HandTypes, KbdTypes
<1>6. CpuTypes'
  <2>1. keysPc' \in KeysPlaces /\ taken' \in Seq(Keys!Keys) /\ Len(taken') <= 1
    BY <1>2 DEF KeysPlaces
  <2> QED BY <1>1, <1>2, <1>4, <2>1, Zenon DEF CpuTypes
<1>7. Signals'
  BY <1>1, <1>2, Zenon DEF Signals
<1>8. Conversation'
  BY <1>1, <1>2 DEF Conversation, Keys!AnswerIsRead, Keys!LightsAreKnown,
     LightsPlaces, KeyPlaces
<1>9. CodesOrder' /\ Pending' = Pending
  BY <1>1, <1>2, CodesStay
<1>10. KeysOrder'
  BY <1>1, <1>2, ToSetNone, BeforeParts DEF KeysOrder
<1>11. Line' = Line
  BY <1>2, <1>4, Zenon DEF Line
<1>12. LineOrder' /\ TypedOrder'
  BY <1>1, <1>2, <1>9, <1>11, LineStays
<1>13. Alone'
  BY <1>1, <1>2, <1>9, AloneStays
<1>14. Story'
  BY <1>1, <1>2, <1>9, <1>11, Retold
<1> QED BY <1>5, <1>6, <1>7, <1>8, <1>9, <1>10, <1>12, <1>13, <1>14 DEF KeysIInv


-----------------------------------------------------------------------------
(* int 16h and the lights.                                                 *)
LEMMA AckIsCode == Keys!Ack \in Keys!Code /\ Keys!Ack.n = 0 /\ Keys!Ack.key = "ack"
<1>1. MaxEvents \in Nat
  BY KeysHold, Zenon DEF Keys!KeyboardAssumption
<1>2. 0 \in 0 .. MaxEvents
  BY <1>1
<1> QED BY <1>2 DEF Keys!Ack, Keys!Code

LEMMA NumbersAre == \A codes, x : x \in Keys!Numbers(codes) <=> \E c \in Keys!ToSet(codes) : c.n = x /\ x # 0
<1> TAKE codes, x
<1>1. ASSUME x \in Keys!Numbers(codes) PROVE \E c \in Keys!ToSet(codes) : c.n = x /\ x # 0
  <2>1. PICK i \in DOMAIN codes : x = codes[i].n /\ x # 0
    BY <1>1 DEF Keys!Numbers
  <2> QED BY <2>1, ToSetMember
<1>2. ASSUME NEW c \in Keys!ToSet(codes), c.n = x, x # 0 PROVE x \in Keys!Numbers(codes)
  <2>1. PICK i \in DOMAIN codes : c = codes[i]
    BY <1>2, ToSetMember
  <2> QED BY <1>2, <2>1 DEF Keys!Numbers
<1> QED BY <1>1, <1>2

(* A byte that is overwritten or thrown away counts as lost.               *)
LEMMA Dropped ==
    ASSUME KeysIInv, ring # << >>, UNCHANGED <<hand, typed, codeRead, ring, taken, screen>>,
           flags'.shift = flags.shift, flags'.caps = flags.caps,
           lost' = lost \cup Keys!Numbers(kbd.out), kbd'.buf = kbd.buf,
           Keys!ToSet(kbd'.out) \subseteq {Keys!Ack}, stopped' \in BOOLEAN
    PROVE  CodesOrder' /\ KeysOrder' /\ LineOrder' /\ TypedOrder' /\ Alone' /\ Story' /\ HandTypes'
<1>1. /\ HandTypes /\ KbdTypes /\ CpuTypes
      /\ CodesOrder /\ KeysOrder /\ LineOrder /\ TypedOrder /\ Alone /\ Story
  BY DEF KeysIInv
<1>2. AllCodes' = Keys!ToSet(codeRead) \cup Keys!ToSet(kbd'.out) \cup Keys!ToSet(kbd.buf)
  BY DEF AllCodes
<1>3. Pending' \subseteq Pending
  BY <1>2, AckIsCode DEF Pending, AllCodes
<1>4. \A c \in Pending : c \in Pending' \/ c.n \in Keys!Numbers(kbd.out)
  <2>1. TAKE c \in Pending
  <2>2. c \in AllCodes /\ c.n # 0
    BY DEF Pending
  <2>3. CASE c \in Keys!ToSet(kbd.out)
    BY <2>2, <2>3, NumbersAre
  <2>4. CASE c \notin Keys!ToSet(kbd.out)
    <3>1. c \in AllCodes'
      BY <1>2, <2>2, <2>4 DEF AllCodes
    <3> QED BY <2>2, <3>1, Zenon DEF Pending
  <2> QED BY <2>3, <2>4
<1>5. Keys!Numbers(kbd.out) \subseteq { c.n : c \in Pending }
  <2>1. ASSUME NEW x \in Keys!Numbers(kbd.out) PROVE \E c \in Pending : x = c.n
    <3>1. PICK c \in Keys!ToSet(kbd.out) : c.n = x /\ x # 0
      BY <2>1, NumbersAre
    <3> QED BY <3>1 DEF Pending, AllCodes
  <2> QED BY <2>1
<1>6. CodesOrder'
  <2>1. \A S : Before(S, Keys!ToSet(kbd'.out)) /\ Before(Keys!ToSet(kbd'.out), S)
    BY AckIsCode DEF Before
  <2>2. \A c \in AllCodes' : c.key = "ack" <=> c.n = 0
    BY <1>1, <1>2, AckIsCode DEF CodesOrder, AllCodes
  <2>3. codeRead' = codeRead /\ kbd'.buf = kbd.buf
    OBVIOUS
  <2> QED BY <1>1, <2>1, <2>2, <2>3 DEF CodesOrder
<1>7. KeysOrder' /\ Line' = Line
  BY <1>1, KeysStay
<1>8. LineOrder' /\ TypedOrder'
  BY <1>1, <1>3, <1>7, LineStays
<1>9. Alone'
  <2>1. ASSUME hand.patient PROVE lost' = {} /\ Pending' = {}
    <3>1. lost = {} /\ Pending = {}
      BY <1>1, <2>1 DEF Alone
    <3>2. Keys!Numbers(kbd.out) = {}
      BY <1>5, <3>1
    <3> QED BY <1>3, <3>1, <3>2
  <2>2. hand' = hand
    OBVIOUS
  <2> QED BY <2>1, <2>2 DEF Alone
<1>10. Story'
  <2>1. CASE lost' # {}
    BY <2>1, Zenon DEF Story
  <2>2. CASE lost' = {}
    <3>1. Keys!Numbers(kbd.out) = {} /\ lost = {}
      BY <2>2
    <3>2. Pending' = Pending
      BY <1>3, <1>4, <3>1
    <3> QED BY <1>1, <1>7, <3>1, <3>2, Retold
  <2> QED BY <2>1, <2>2
<1>11. HandTypes'
  <2>1. \A c \in Pending : c.n \in Nat /\ c.n # 0 /\ c.n <= hand.events
    <3>1. TAKE c \in Pending
    <3>2. c.n # 0 /\ c.n <= hand.events /\ c \in AllCodes
      BY <1>1 DEF Pending, LineOrder
    <3>3. AllCodes \subseteq Keys!Code
      <4>1. kbd.buf \in Seq(Keys!Code) /\ kbd.out \in Seq(Keys!Code) /\ codeRead \in Seq(Keys!Code)
        BY <1>1, KbdFields DEF KbdTypes, CpuTypes
      <4> QED BY <4>1, SeqDomain DEF AllCodes
    <3> QED BY <3>2, <3>3, CodeNumbers
  <2>2. hand.events \in Nat
    <3>1. MaxEvents \in Nat
      BY KeysHold, Zenon DEF Keys!KeyboardAssumption
    <3> QED BY <1>1, <3>1 DEF HandTypes, HandType
  <2>3. \A c \in Pending : c.n \in 1 .. hand.events
    BY <2>1, <2>2
  <2>4. lost' \subseteq 1 .. hand.events
    BY <1>1, <1>5, <2>3 DEF HandTypes
  <2> QED BY <1>1, <2>4, Zenon DEF HandTypes
<1> QED BY <1>6, <1>7, <1>8, <1>9, <1>10, <1>11

LEMMA SetLightsKeeps ==
    ASSUME KeysIInv, Keys!SetLights
    PROVE  KeysIInv'
<1>1. /\ HandTypes /\ KbdTypes /\ CpuTypes /\ Signals /\ Conversation
      /\ CodesOrder /\ KeysOrder /\ LineOrder /\ TypedOrder /\ Alone /\ Story
  BY DEF KeysIInv
<1>2. /\ handler = "none" /\ keysPc = "command" /\ keysPc' = "answer" /\ stopped' = Keys!Full(kbd)
      /\ UNCHANGED <<hand, typed, irq1, flags, ring, handler, codeRead, open, taken, screen>>
  BY DEF Keys!SetLights, Keys!Step
<1>3. ring # << >> /\ ~open
  BY <1>1, <1>2 DEF Conversation, LightsPlaces, KeyPlaces
<1>4. stopped' \in BOOLEAN
  BY <1>2 DEF Keys!Full
<1>5. CpuTypes'
  <2>1. keysPc' \in KeysPlaces
    BY <1>2 DEF KeysPlaces
  <2> QED BY <1>1, <1>2, <2>1, Zenon DEF CpuTypes
<1>6. CASE Keys!Full(kbd)
  <2>1. UNCHANGED <<kbd, lost>> /\ stopped'
    BY <1>2, <1>6 DEF Keys!SetLights
  <2>2. HandTypes' /\ KbdTypes'
    BY <1>1, <1>2, <1>4, <2>1, Zenon DEF HandTypes, KbdTypes
  <2>3. Signals'
    BY <1>1, <1>2, <2>1, Zenon DEF Signals
  <2>4. Conversation'
    BY <1>1, <1>2, <1>3, <2>1 DEF Conversation, Keys!AnswerIsRead, Keys!LightsAreKnown
  <2>5. CodesOrder' /\ KeysOrder' /\ LineOrder' /\ TypedOrder' /\ Alone' /\ Story'
    BY <1>2, <2>1, Standing
  <2> QED BY <1>5, <2>2, <2>3, <2>4, <2>5 DEF KeysIInv
<1>7. CASE ~Keys!Full(kbd)
  <2>1. kbd' = Keys!EnQImm(Keys!Enabled(kbd), Keys!Ack) /\ lost' = lost \cup Keys!Numbers(kbd.out)
    BY <1>7 DEF Keys!SetLights
  <2>2. PICK e : e = Keys!Enabled(kbd)
    OBVIOUS
  <2>3. /\ e \in KbdType /\ e.buf = kbd.buf /\ e.out = kbd.out
        /\ e.irq = kbd.irq /\ e.clock = TRUE /\ e.led = kbd.led
    BY <1>1, <2>2, EnabledIs DEF KbdTypes
  <2>4. /\ kbd' \in KbdType /\ kbd'.buf = e.buf /\ kbd'.out = <<Keys!Ack>>
        /\ kbd'.irq = TRUE /\ kbd'.clock = e.clock /\ kbd'.led = e.led
    BY <2>1, <2>2, <2>3, AckIsCode, Overwritten
  <2>5. kbd'.buf = kbd.buf /\ kbd'.clock /\ kbd'.led = kbd.led
    BY <2>3, <2>4
  <2>6. <<Keys!Ack>> # << >> /\ Len(<<Keys!Ack>>) = 1
    OBVIOUS
  <2>7. KbdTypes'
    BY <1>1, <1>2, <2>4, <2>5, <2>6 DEF KbdTypes
  <2>8. Signals'
    BY <1>1, <1>2, <2>4, <2>5, <2>6 DEF Signals
  <2>9. Conversation'
    BY <1>1, <1>2, <1>3, <2>4, <2>5 DEF Conversation, Keys!AnswerIsRead,
       Keys!LightsAreKnown
  <2>10. /\ CodesOrder' /\ KeysOrder' /\ LineOrder' /\ TypedOrder' /\ Alone' /\ Story'
         /\ HandTypes'
    <3>1. Keys!ToSet(kbd'.out) \subseteq {Keys!Ack}
      BY <2>4, ToSetOne
    <3>2. UNCHANGED <<hand, typed, codeRead, ring, taken, screen>>
      BY <1>2
    <3>3. flags'.shift = flags.shift /\ flags'.caps = flags.caps
      BY <1>2
    <3> QED BY <1>3, <1>4, <2>1, <2>5, <3>1, <3>2, <3>3, Dropped
  <2> QED BY <1>5, <2>7, <2>8, <2>9, <2>10 DEF KeysIInv
<1> QED BY <1>6, <1>7

LEMMA AnswerKeeps ==
    ASSUME KeysIInv, Keys!Answer
    PROVE  KeysIInv'
<1>1. /\ HandTypes /\ KbdTypes /\ CpuTypes /\ Signals /\ Conversation
  BY DEF KeysIInv
<1>2. /\ handler = "none" /\ keysPc = "answer" /\ kbd.out # << >>
      /\ keysPc' \in {"lights", "take"} /\ (keysPc' = "lights" => Head(kbd.out) = Keys!Ack)
      /\ open' = (Head(kbd.out) # Keys!Ack) /\ kbd' = Keys!Read(kbd) /\ irq1' = Keys!Lowered(irq1)
      /\ lost' = lost \cup Keys!Numbers(kbd.out)
      /\ UNCHANGED <<hand, typed, flags, ring, handler, codeRead, taken, screen, stopped>>
  BY DEF Keys!Answer, Keys!Step
<1>3. ring # << >> /\ (kbd.irq => kbd.out # << >>) /\ (irq1.irr => irq1.line)
  BY <1>1, <1>2 DEF Conversation, LightsPlaces, KeyPlaces, Signals
<1>4. /\ kbd' \in KbdType /\ kbd'.buf = kbd.buf /\ kbd'.out = << >> /\ kbd'.irq = FALSE
      /\ kbd'.clock = kbd.clock /\ kbd'.led = kbd.led
  BY <1>1, <1>2, <1>3, ReadIs DEF KbdTypes
<1>5. irq1' \in PicType /\ irq1'.irr = FALSE
  BY <1>1, <1>2, <1>3, LoweredIs DEF KbdTypes
<1>6. KbdTypes'
  <2>1. Len(<< >>) <= 1
    OBVIOUS
  <2> QED BY <1>1, <1>4, <1>5, <2>1 DEF KbdTypes
<1>7. CpuTypes'
  <2>1. keysPc' \in KeysPlaces /\ open' \in BOOLEAN
    BY <1>2 DEF KeysPlaces
  <2> QED BY <1>1, <1>2, <2>1, Zenon DEF CpuTypes
<1>8. Signals'
  BY <1>1, <1>2, <1>4, <1>5 DEF Signals
<1>9. Conversation'
  <2>1. keysPc' = "lights" => ~open'
    BY <1>2
  <2> QED BY <1>1, <1>2, <1>3, <1>4, <2>1
      DEF Conversation, Keys!AnswerIsRead, Keys!LightsAreKnown, LightsPlaces, KeyPlaces
<1>10. /\ CodesOrder' /\ KeysOrder' /\ LineOrder' /\ TypedOrder' /\ Alone' /\ Story'
       /\ HandTypes'
  <2>1. Keys!ToSet(kbd'.out) \subseteq {Keys!Ack}
    BY <1>4, ToSetNone
  <2>2. UNCHANGED <<hand, typed, codeRead, ring, taken, screen>> /\ stopped' \in BOOLEAN
    BY <1>1, <1>2 DEF HandTypes
  <2>3. flags'.shift = flags.shift /\ flags'.caps = flags.caps
    BY <1>2
  <2>4. lost' = lost \cup Keys!Numbers(kbd.out)
    BY <1>2
  <2> QED BY <1>3, <1>4, <2>1, <2>2, <2>3, <2>4, Dropped
<1> QED BY <1>6, <1>7, <1>8, <1>9, <1>10 DEF KeysIInv

LEMMA AnsweredKeeps ==
    ASSUME KeysIInv, Keys!Answered
    PROVE  KeysIInv'
<1>1. /\ HandTypes /\ KbdTypes /\ CpuTypes /\ Signals /\ Conversation
  BY DEF KeysIInv
<1>2. /\ handler = "none" /\ keysPc = "answered" /\ keysPc' = "take" /\ kbd.out # << >>
      /\ open' = TRUE /\ kbd' = Keys!Read(kbd) /\ irq1' = Keys!Lowered(irq1)
      /\ flags' = [flags EXCEPT !.led = flags.caps]
      /\ lost' = lost \cup Keys!Numbers(kbd.out)
      /\ UNCHANGED <<hand, typed, ring, handler, codeRead, taken, screen, stopped>>
  BY DEF Keys!Answered, Keys!Step, Keys!LightsWritten
<1>3. ring # << >> /\ (kbd.irq => kbd.out # << >>) /\ (irq1.irr => irq1.line)
  BY <1>1, <1>2 DEF Conversation, LightsPlaces, KeyPlaces, Signals
<1>4. /\ kbd' \in KbdType /\ kbd'.buf = kbd.buf /\ kbd'.out = << >> /\ kbd'.irq = FALSE
      /\ kbd'.clock = kbd.clock /\ kbd'.led = kbd.led
  BY <1>1, <1>2, <1>3, ReadIs DEF KbdTypes
<1>5. irq1' \in PicType /\ irq1'.irr = FALSE
  BY <1>1, <1>2, <1>3, LoweredIs DEF KbdTypes
<1>6. KbdTypes'
  <2>1. Len(<< >>) <= 1
    OBVIOUS
  <2> QED BY <1>1, <1>4, <1>5, <2>1 DEF KbdTypes
<1>7. /\ flags' \in FlagsType /\ flags'.shift = flags.shift /\ flags'.caps = flags.caps
      /\ flags'.led = flags.caps
  <2>1. flags \in FlagsType
    BY <1>1 DEF CpuTypes
  <2>2. PICK l \in BOOLEAN : l = flags.caps
    BY <2>1 DEF FlagsType
  <2> QED BY <1>2, <2>1, <2>2, Zenon DEF FlagsType
<1>8. CpuTypes'
  <2>1. keysPc' \in KeysPlaces /\ open' \in BOOLEAN
    BY <1>2 DEF KeysPlaces
  <2> QED BY <1>1, <1>2, <1>7, <2>1, Zenon DEF CpuTypes
<1>9. Signals'
  BY <1>1, <1>2, <1>4, <1>5 DEF Signals
<1>10. Conversation'
  <2>1. kbd'.led = flags'.led
    BY <1>1, <1>2, <1>4, <1>7 DEF Conversation
  <2> QED BY <1>1, <1>2, <1>3, <2>1
      DEF Conversation, Keys!AnswerIsRead, Keys!LightsAreKnown, LightsPlaces, KeyPlaces
<1>11. /\ CodesOrder' /\ KeysOrder' /\ LineOrder' /\ TypedOrder' /\ Alone' /\ Story'
       /\ HandTypes'
  <2>1. Keys!ToSet(kbd'.out) \subseteq {Keys!Ack}
    BY <1>4, ToSetNone
  <2>2. UNCHANGED <<hand, typed, codeRead, ring, taken, screen>> /\ stopped' \in BOOLEAN
    BY <1>1, <1>2 DEF HandTypes
  <2>3. flags'.shift = flags.shift /\ flags'.caps = flags.caps
    BY <1>7
  <2>4. lost' = lost \cup Keys!Numbers(kbd.out)
    BY <1>2
  <2> QED BY <1>3, <1>4, <2>1, <2>2, <2>3, <2>4, Dropped
<1> QED BY <1>6, <1>8, <1>9, <1>10, <1>11 DEF KeysIInv

LEMMA LightsKeeps ==
    ASSUME KeysIInv, Keys!Lights
    PROVE  KeysIInv'
<1>1. /\ HandTypes /\ KbdTypes /\ CpuTypes /\ Signals /\ Conversation
      /\ CodesOrder /\ KeysOrder /\ LineOrder /\ TypedOrder /\ Alone /\ Story
  BY DEF KeysIInv
<1>2. /\ handler = "none" /\ keysPc = "lights" /\ keysPc' = "answered"
      /\ kbd' = Keys!EnQ([Keys!Enabled(kbd) EXCEPT !.led = flags.caps], Keys!Ack)
      /\ UNCHANGED <<hand, typed, irq1, flags, ring, handler, codeRead, open, taken, screen,
                     lost, stopped>>
  BY DEF Keys!Lights, Keys!Step
<1>3. ring # << >> /\ ~open
  BY <1>1, <1>2 DEF Conversation, LightsPlaces, KeyPlaces
<1>4. PICK l \in BOOLEAN : l = flags.caps
  BY <1>1 DEF CpuTypes, FlagsType
<1>5. PICK d, e : d = Keys!Enabled(kbd) /\ e = [d EXCEPT !.led = l]
  OBVIOUS
<1>6. /\ d \in KbdType /\ d.buf = kbd.buf /\ d.out = kbd.out
      /\ d.irq = kbd.irq /\ d.clock = TRUE /\ d.led = kbd.led
  BY <1>1, <1>5, EnabledIs DEF KbdTypes
<1>7. /\ e \in KbdType /\ e.buf = d.buf /\ e.out = d.out
      /\ e.irq = d.irq /\ e.clock = d.clock /\ e.led = l
  BY <1>5, <1>6, LedSet
<1>8. kbd' = Keys!EnQ(e, Keys!Ack)
  BY <1>2, <1>4, <1>5
<1>9. Keys!Full(e) <=> Len(kbd.buf) >= Elements
  BY <1>6, <1>7 DEF Keys!Full
<1>10. /\ kbd' \in KbdType /\ kbd'.out = e.out /\ kbd'.irq = e.irq /\ kbd'.clock = e.clock
       /\ kbd'.led = e.led
       /\ kbd'.buf = e.buf \/ (Len(kbd.buf) < Elements /\ kbd'.buf = Append(e.buf, Keys!Ack))
  <2>1. CASE Keys!Full(e)
    <3>1. kbd' = e
      BY <1>8, <2>1 DEF Keys!EnQ
    <3> QED BY <1>7, <3>1
  <2>2. CASE ~Keys!Full(e)
    <3>1. /\ kbd' \in KbdType /\ kbd'.buf = Append(e.buf, Keys!Ack) /\ kbd'.out = e.out
          /\ kbd'.irq = e.irq /\ kbd'.clock = e.clock /\ kbd'.led = e.led
      BY <1>7, <1>8, <2>2, AckIsCode, Queued
    <3>2. Len(kbd.buf) \in Nat /\ Elements \in Nat
      <4>1. Elements \in Nat
        BY KeysHold, Zenon DEF Keys!KeyboardAssumption
      <4> QED BY <1>1, <4>1, KbdFields, SeqDomain DEF KbdTypes
    <3>3. Len(kbd.buf) < Elements
      BY <1>9, <2>2, <3>2
    <3> QED BY <3>1, <3>3
  <2> QED BY <2>1, <2>2
<1>11. /\ kbd'.out = kbd.out /\ kbd'.irq = kbd.irq /\ kbd'.clock /\ kbd'.led = flags.caps
       /\ kbd'.buf = kbd.buf \/ (Len(kbd.buf) < Elements /\ kbd'.buf = Append(kbd.buf, Keys!Ack))
  BY <1>4, <1>6, <1>7, <1>10
<1>12. /\ kbd'.buf \in Seq(Keys!Code) /\ Len(kbd'.buf) <= Elements
       /\ Keys!ToSet(kbd.buf) \subseteq Keys!ToSet(kbd'.buf) /\ Keys!ToSet(kbd'.buf) \subseteq Keys!ToSet(kbd.buf) \cup {Keys!Ack}
       /\ Ordered(kbd'.buf)
  <2>1. kbd.buf \in Seq(Keys!Code) /\ Len(kbd.buf) <= Elements /\ Ordered(kbd.buf)
    BY <1>1, KbdFields DEF KbdTypes, CodesOrder
  <2>2. CASE kbd'.buf = kbd.buf
    BY <2>1, <2>2
  <2>3. CASE Len(kbd.buf) < Elements /\ kbd'.buf = Append(kbd.buf, Keys!Ack)
    <3>1. PICK b \in Seq(Keys!Code), a \in Keys!Code : b = kbd.buf /\ a = Keys!Ack
      BY <2>1, AckIsCode
    <3>2. PICK t : b = kbd.buf /\ a = Keys!Ack /\ t = Append(b, a)
      BY <3>1
    <3>3. t \in Seq(Keys!Code) /\ Len(t) = Len(b) + 1
      BY <3>2, Appended
    <3>4. Keys!ToSet(t) = Keys!ToSet(b) \cup {a}
      BY <3>2, AppendedSet
    <3>5. Ordered(t)
      <4>1. Before(Keys!ToSet(b), {a})
        BY <3>2, AckIsCode DEF Before
      <4> QED BY <2>1, <3>2, <4>1, OrderedAppend
    <3>6. Len(b) \in Nat /\ Elements \in Nat
      <4>1. Elements \in Nat
        BY KeysHold, Zenon DEF Keys!KeyboardAssumption
      <4> QED BY <4>1, SeqDomain
    <3>7. Len(t) <= Elements
      BY <2>3, <3>2, <3>3, <3>6
    <3>8. kbd'.buf = t
      BY <2>3, <3>2
    <3> QED BY <3>2, <3>3, <3>4, <3>5, <3>7, <3>8
  <2> QED BY <1>11, <2>2, <2>3
<1>13. HandTypes' /\ KbdTypes'
  BY <1>1, <1>2, <1>10, <1>11, <1>12, Zenon DEF HandTypes, KbdTypes
<1>14. CpuTypes'
  <2>1. keysPc' \in KeysPlaces
    BY <1>2 DEF KeysPlaces
  <2> QED BY <1>1, <1>2, <2>1, Zenon DEF CpuTypes
<1>15. Signals'
  BY <1>1, <1>2, <1>11 DEF Signals
<1>16. Conversation'
  BY <1>1, <1>2, <1>3, <1>11 DEF Conversation, Keys!AnswerIsRead, Keys!LightsAreKnown
<1>17. AllCodes \subseteq AllCodes' /\ AllCodes' \subseteq AllCodes \cup {Keys!Ack}
  BY <1>2, <1>11, <1>12 DEF AllCodes
<1>18. Pending' = Pending
  BY <1>17, AckIsCode DEF Pending
<1>19. CodesOrder'
  <2>1. \A S : Before(S, Keys!ToSet(kbd.buf)) => Before(S, Keys!ToSet(kbd'.buf))
    BY <1>12, AckIsCode DEF Before
  <2>2. \A c \in AllCodes' : c.key = "ack" <=> c.n = 0
    BY <1>1, <1>17, AckIsCode DEF CodesOrder
  <2>3. codeRead' = codeRead /\ kbd'.out = kbd.out
    BY <1>2, <1>11
  <2> QED BY <1>1, <1>12, <2>1, <2>2, <2>3 DEF CodesOrder
<1>20. KeysOrder' /\ Line' = Line
  BY <1>1, <1>2, KeysStay
<1>21. LineOrder' /\ TypedOrder'
  BY <1>1, <1>2, <1>18, <1>20, LineStays
<1>22. Alone'
  BY <1>1, <1>2, <1>18, AloneStays
<1>23. Story'
  BY <1>1, <1>2, <1>18, <1>20, Retold
<1> QED BY <1>13, <1>14, <1>15, <1>16, <1>19, <1>20, <1>21, <1>22, <1>23 DEF KeysIInv


-----------------------------------------------------------------------------
(* int 09h takes the next event of the story.                              *)
LEMMA Lengths == MaxEvents \in Nat /\ Words \in Nat /\ Words >= 2 /\ Elements \in Nat /\ Elements >= 1
<1>1. Elements \in Nat \ {0} /\ Words \in Nat \ {0, 1} /\ MaxEvents \in Nat
  BY KeysHold, Zenon DEF Keys!KeyboardAssumption
<1> QED BY <1>1

LEMMA CodesAre ==
    ASSUME KbdTypes, CpuTypes
    PROVE  /\ AllCodes \subseteq Keys!Code /\ Pending \subseteq Keys!Code
           /\ \A c \in Pending : c.n \in Nat /\ c.n # 0
<1>1. kbd.buf \in Seq(Keys!Code) /\ kbd.out \in Seq(Keys!Code) /\ codeRead \in Seq(Keys!Code)
  BY KbdFields DEF KbdTypes, CpuTypes
<1>2. AllCodes \subseteq Keys!Code
  BY <1>1, SeqDomain DEF AllCodes
<1> QED BY <1>2, CodeNumbers DEF Pending

LEMMA LineIs == ASSUME CpuTypes PROVE Line \in Seq(Keys!Keys)
<1>1. screen \in Seq(Keys!Keys) /\ taken \in Seq(Keys!Keys) /\ ring \in Seq(Keys!Keys)
  BY DEF CpuTypes
<1>2. screen \o taken \in Seq(Keys!Keys)
  BY <1>1, ConcatProperties
<1> QED BY <1>1, <1>2, ConcatProperties DEF Line

LEMMA ReadOn ==
    ASSUME KbdTypes, CpuTypes, HandTypes, TypedOrder, Story, UNCHANGED <<hand, typed>>,
           lost = {}, lost' = {},
           NEW c \in Pending, \A d \in Pending : d = c \/ c.n < d.n,
           Pending' = { d \in Pending : c.n < d.n },
           flags'.shift = After(flags, c).shift, flags'.caps = After(flags, c).caps,
           IsPress(c) => Line' = Append(Line, [n |-> c.n, capital |-> flags.shift # flags.caps]),
           ~IsPress(c) => Line' = Line
    PROVE  Story'
<1>1. PICK h \in [Nat -> Lamps], p \in 0 .. hand.events : StoryIs(h, p)
  BY DEF Story
<1>2. hand.events \in Nat /\ p \in Nat /\ p <= hand.events
  BY Lengths DEF HandTypes, HandType
<1>3. /\ h[p] = [shift |-> flags.shift, caps |-> flags.caps]
      /\ { d.n : d \in Pending } = (p + 1) .. hand.events
  BY <1>1, Zenon DEF StoryIs
<1>4. /\ \A d \in Pending : h[d.n] = After(h[d.n - 1], d)
      /\ \A d \in Pending : IsPress(d) => KeyOf(h, d) \in Keys!ToSet(typed)
      /\ \A i \in DOMAIN typed : typed[i].n > p =>
            \E d \in Pending : d.n = typed[i].n /\ IsPress(d)
  BY <1>1, Zenon DEF StoryIs
<1>5. /\ Len(Line) <= Len(typed)
      /\ \A i \in DOMAIN typed : IF i <= Len(Line) THEN typed[i] = Line[i] /\ typed[i].n <= p
                                 ELSE typed[i].n > p
  BY <1>1, Zenon DEF StoryIs
<1>6. typed \in Seq(Keys!Keys) /\ Line \in Seq(Keys!Keys) /\ DOMAIN typed = 1 .. Len(typed)
      /\ Len(typed) \in Nat /\ Len(Line) \in Nat
      /\ \A i \in 1 .. Len(typed) : typed[i].n \in Nat /\ typed[i].n # 0
  <2>1. typed \in Seq(Keys!Keys) /\ Line \in Seq(Keys!Keys)
    BY LineIs DEF HandTypes
  <2> QED BY <2>1, SeqDomain, KeyNumbers
<1>7. \A d \in Pending : d.n \in (p + 1) .. hand.events
  BY <1>3
<1>8. c.n = p + 1 /\ p + 1 <= hand.events
  <2>1. c.n \in (p + 1) .. hand.events
    BY <1>7
  <2>2. p + 1 \in (p + 1) .. hand.events
    BY <1>2, <2>1
  <2>3. PICK d \in Pending : d.n = p + 1
    BY <1>3, <2>2
  <2> QED BY <1>2, <2>1, <2>3
<1>9. h[p + 1] = [shift |-> flags'.shift, caps |-> flags'.caps]
  <2>1. h[c.n] = After(h[c.n - 1], c) /\ c.n - 1 = p
    BY <1>2, <1>4, <1>8
  <2>2. h[p + 1] = After(h[p], c)
    BY <1>8, <2>1
  <2>3. After(h[p], c) = After(flags, c)
    BY <1>3 DEF After
  <2>4. After(flags, c) = [shift |-> After(flags, c).shift, caps |-> After(flags, c).caps]
    BY DEF After
  <2> QED BY <2>2, <2>3, <2>4, Zenon
<1>10. { d.n : d \in Pending' } = ((p + 1) + 1) .. hand.events
  <2>1. \A d \in Pending' : d.n \in ((p + 1) + 1) .. hand.events
    BY <1>2, <1>7, <1>8
  <2>2. ASSUME NEW x \in ((p + 1) + 1) .. hand.events PROVE \E d \in Pending' : d.n = x
    <3>1. x \in (p + 1) .. hand.events /\ x # p + 1
      BY <1>2, <2>2
    <3>2. PICK d \in Pending : d.n = x
      BY <1>3, <3>1
    <3>3. d # c
      BY <1>8, <3>1, <3>2
    <3> QED BY <3>2, <3>3
  <2> QED BY <2>1, <2>2
<1>11. \A i \in DOMAIN typed : typed[i].n > p + 1 =>
          \E d \in Pending' : d.n = typed[i].n /\ IsPress(d)
  <2> SUFFICES ASSUME NEW i \in DOMAIN typed, typed[i].n > p + 1
               PROVE  \E d \in Pending' : d.n = typed[i].n /\ IsPress(d)
    OBVIOUS
  <2>1. typed[i].n > p /\ typed[i].n \in Nat
    BY <1>2, <1>6
  <2>2. PICK d \in Pending : d.n = typed[i].n /\ IsPress(d)
    BY <1>4, <2>1
  <2>3. d # c
    BY <1>2, <1>8, <2>1, <2>2
  <2> QED BY <2>2, <2>3
<1>12. /\ Len(Line') <= Len(typed)
       /\ \A i \in DOMAIN typed : IF i <= Len(Line') THEN typed[i] = Line'[i] /\ typed[i].n <= p + 1
                                  ELSE typed[i].n > p + 1
  <2>1. CASE ~IsPress(c)
    <3>1. \A i \in DOMAIN typed : typed[i].n # p + 1
      <4>1. SUFFICES ASSUME NEW i \in DOMAIN typed, typed[i].n = p + 1 PROVE FALSE
        OBVIOUS
      <4>2. PICK d \in Pending : d.n = typed[i].n /\ IsPress(d)
        <5>1. typed[i].n > p
          BY <1>2, <4>1
        <5> QED BY <1>4, <5>1
      <4>3. d # c
        BY <2>1, <4>2
      <4> QED BY <1>2, <1>8, <4>1, <4>2, <4>3
    <3>2. Line' = Line
      BY <2>1
    <3>3. ASSUME NEW i \in DOMAIN typed
          PROVE  IF i <= Len(Line) THEN typed[i] = Line[i] /\ typed[i].n <= p + 1
                 ELSE typed[i].n > p + 1
      <4>1. typed[i].n \in Nat /\ typed[i].n # p + 1
        BY <1>6, <3>1
      <4>2. IF i <= Len(Line) THEN typed[i] = Line[i] /\ typed[i].n <= p ELSE typed[i].n > p
        BY <1>5
      <4> QED BY <1>2, <4>1, <4>2
    <3> QED BY <1>5, <3>2, <3>3
  <2>2. CASE IsPress(c)
    <3>1. PICK k : k = [n |-> c.n, capital |-> flags.shift # flags.caps]
      OBVIOUS
    <3>2. KeyOf(h, c) = k
      <4>1. c.n - 1 = p
        BY <1>2, <1>8
      <4> QED BY <1>3, <3>1, <4>1 DEF KeyOf
    <3>3. PICK j \in 1 .. Len(typed) : typed[j] = k
      <4>1. k \in Keys!ToSet(typed)
        BY <1>4, <2>2, <3>2
      <4>2. PICK j \in DOMAIN typed : k = typed[j]
        BY <4>1, ToSetMember
      <4> QED BY <1>6, <4>2
    <3>4. k \in Keys!Keys /\ k.n = p + 1
      BY <1>6, <1>8, <3>1, <3>3, SeqDomain
    <3>5. j > Len(Line)
      <4>1. SUFFICES ASSUME j <= Len(Line) PROVE FALSE
        BY <1>6
      <4>2. typed[j].n <= p
        BY <1>5, <1>6, <4>1
      <4> QED BY <1>2, <3>3, <3>4, <4>2
    <3>6. \A i \in 1 .. Len(typed) : (i < j => typed[i].n < p + 1) /\ (i > j => typed[i].n > p + 1)
      <4>1. TAKE i \in 1 .. Len(typed)
      <4>2. typed[i].n # 0 /\ typed[j].n # 0 /\ typed[j].n = p + 1
        BY <1>6, <3>3, <3>4
      <4> QED BY <1>6, <4>2 DEF TypedOrder, Ordered
    <3>7. j = Len(Line) + 1
      <4>1. SUFFICES ASSUME j > Len(Line) + 1 PROVE FALSE
        BY <1>6, <3>5
      <4>2. PICK i : i = Len(Line) + 1
        OBVIOUS
      <4>3. i \in 1 .. Len(typed) /\ i < j /\ ~(i <= Len(Line))
        BY <1>6, <3>3, <4>1, <4>2
      <4>4. typed[i].n > p /\ typed[i].n < p + 1 /\ typed[i].n \in Nat
        BY <1>5, <1>6, <3>6, <4>3
      <4> QED BY <1>2, <4>4
    <3>8. PICK l : l = Line'
      OBVIOUS
    <3>9. l = Append(Line, k)
      BY <2>2, <3>1, <3>8
    <3>10. Len(l) = Len(Line) + 1 /\ l[Len(l)] = k /\ \A i \in 1 .. Len(Line) : l[i] = Line[i]
      BY <1>6, <3>4, <3>9, Appended
    <3>11. ASSUME NEW i \in 1 .. Len(typed)
           PROVE  IF i <= Len(l) THEN typed[i] = l[i] /\ typed[i].n <= p + 1
                  ELSE typed[i].n > p + 1
      <4>1. CASE i <= Len(Line)
        <5>1. typed[i] = Line[i] /\ typed[i].n <= p /\ typed[i].n \in Nat
          BY <1>5, <1>6, <4>1
        <5>2. i \in 1 .. Len(Line)
          BY <1>6, <4>1
        <5>3. i <= Len(l) /\ l[i] = Line[i]
          BY <1>6, <3>10, <4>1, <5>2
        <5>4. typed[i].n <= p + 1
          BY <1>2, <5>1
        <5> QED BY <5>1, <5>3, <5>4
      <4>2. CASE i = Len(Line) + 1
        <5>1. i <= Len(l) /\ l[i] = k
          BY <1>6, <3>10, <4>2
        <5>2. typed[i] = k /\ typed[i].n <= p + 1
          BY <1>2, <3>3, <3>4, <3>7, <4>2
        <5> QED BY <5>1, <5>2
      <4>3. CASE i > Len(Line) + 1
        <5>1. ~(i <= Len(l)) /\ typed[i].n > p + 1
          BY <1>6, <3>6, <3>7, <3>10, <4>3
        <5> QED BY <5>1
      <4> QED BY <1>6, <4>1, <4>2, <4>3
    <3>12. Len(l) <= Len(typed)
      BY <1>6, <3>3, <3>7, <3>10
    <3> QED BY <1>6, <3>8, <3>11, <3>12
  <2> QED BY <2>1, <2>2
<1>13. PICK q \in Nat : q = p + 1
  BY <1>2
<1>14. StoryIs(h, q)'
  <2>1. h[hand'.events] = [shift |-> "shift" \in hand'.down, caps |-> hand'.caps]
    BY <1>1, Zenon DEF StoryIs
  <2>2. h[q] = [shift |-> flags'.shift, caps |-> flags'.caps]
    BY <1>9, <1>13
  <2>3. { d.n : d \in Pending' } = (q + 1) .. hand'.events
    BY <1>10, <1>13
  <2>4. \A d \in Pending' : /\ h[d.n] = After(h[d.n - 1], d)
                            /\ IsPress(d) => KeyOf(h, d) \in Keys!ToSet(typed')
    BY <1>4
  <2>5. \A i \in DOMAIN typed' : typed'[i].n > q =>
            \E d \in Pending' : d.n = typed'[i].n /\ IsPress(d)
    BY <1>11, <1>13
  <2>6. /\ Len(Line') <= Len(typed')
        /\ \A i \in DOMAIN typed' : IF i <= Len(Line') THEN typed'[i] = Line'[i] /\ typed'[i].n <= q
                                    ELSE typed'[i].n > q
    BY <1>12, <1>13
  <2> QED BY <2>1, <2>2, <2>3, <2>4, <2>5, <2>6, Zenon DEF StoryIs
<1>15. q \in 0 .. hand'.events
  BY <1>2, <1>8, <1>13
<1> QED BY <1>14, <1>15, Zenon DEF Story


LEMMA ConcatSet ==
    \A S : \A s, t \in Seq(S) : Keys!ToSet(s \o t) = Keys!ToSet(s) \cup Keys!ToSet(t)
<1> TAKE S
<1> TAKE s, t \in Seq(S)
<1>1. PICK r : r = s \o t
  OBVIOUS
<1>2. /\ r \in Seq(S) /\ Len(r) = Len(s) + Len(t)
      /\ \A i \in 1 .. Len(s) + Len(t) : r[i] = IF i <= Len(s) THEN s[i] ELSE t[i - Len(s)]
  BY <1>1, ConcatProperties
<1>3. /\ DOMAIN s = 1 .. Len(s) /\ DOMAIN t = 1 .. Len(t) /\ DOMAIN r = 1 .. Len(s) + Len(t)
      /\ Len(s) \in Nat /\ Len(t) \in Nat
  BY <1>2, SeqDomain
<1>4. ASSUME NEW y \in Keys!ToSet(r) PROVE y \in Keys!ToSet(s) \cup Keys!ToSet(t)
  <2>1. PICK i \in 1 .. Len(s) + Len(t) : y = r[i]
    BY <1>3, <1>4, ToSetMember
  <2>2. CASE i <= Len(s)
    <3>1. i \in DOMAIN s /\ y = s[i]
      BY <1>2, <1>3, <2>1, <2>2
    <3> QED BY <3>1, ToSetMember
  <2>3. CASE ~(i <= Len(s))
    <3>1. i - Len(s) \in DOMAIN t /\ y = t[i - Len(s)]
      BY <1>2, <1>3, <2>1, <2>3
    <3> QED BY <3>1, ToSetMember
  <2> QED BY <2>2, <2>3
<1>5. ASSUME NEW y \in Keys!ToSet(s) PROVE y \in Keys!ToSet(r)
  <2>1. PICK i \in DOMAIN s : y = s[i]
    BY <1>5, ToSetMember
  <2>2. i \in DOMAIN r /\ y = r[i]
    BY <1>2, <1>3, <2>1
  <2> QED BY <2>2, ToSetMember
<1>6. ASSUME NEW y \in Keys!ToSet(t) PROVE y \in Keys!ToSet(r)
  <2>1. PICK i \in 1 .. Len(t) : y = t[i]
    BY <1>3, <1>6, ToSetMember
  <2>2. PICK j : j = i + Len(s)
    OBVIOUS
  <2>3. j \in 1 .. Len(s) + Len(t) /\ ~(j <= Len(s)) /\ j - Len(s) = i
    BY <1>3, <2>2
  <2>4. y = r[j]
    BY <1>2, <2>1, <2>3
  <2> QED BY <1>3, <2>3, <2>4, ToSetMember
<1> QED BY <1>1, <1>4, <1>5, <1>6

LEMMA LineHas ==
    ASSUME CpuTypes
    PROVE  Keys!ToSet(Line) = Keys!ToSet(screen) \cup Keys!ToSet(taken) \cup Keys!ToSet(ring)
<1>1. screen \in Seq(Keys!Keys) /\ taken \in Seq(Keys!Keys) /\ ring \in Seq(Keys!Keys)
  BY DEF CpuTypes
<1>2. PICK s \in Seq(Keys!Keys) : s = screen \o taken
  BY <1>1, ConcatProperties
<1>3. Keys!ToSet(s) = Keys!ToSet(screen) \cup Keys!ToSet(taken)
  BY <1>1, <1>2, ConcatSet
<1>4. Keys!ToSet(s \o ring) = Keys!ToSet(s) \cup Keys!ToSet(ring)
  BY <1>1, ConcatSet
<1> QED BY <1>2, <1>3, <1>4 DEF Line


LEMMA ProcessKeeps ==
    ASSUME KeysIInv, Keys!Process
    PROVE  KeysIInv'
<1>1. /\ HandTypes /\ KbdTypes /\ CpuTypes /\ Signals /\ Conversation
      /\ CodesOrder /\ KeysOrder /\ LineOrder /\ TypedOrder /\ Alone /\ Story
  BY DEF KeysIInv
<1>2. /\ handler = "process" /\ handler' = "eoi" /\ codeRead' = << >>
      /\ UNCHANGED <<hand, typed, kbd, irq1, keysPc, open, taken, screen, stopped>>
  BY DEF Keys!Process, Keys!Goes
<1>3. PICK c : c = Head(codeRead)
  OBVIOUS
<1>4. c \in Keys!Code /\ Keys!ToSet(codeRead) = {c}
  <2>1. codeRead \in Seq(Keys!Code) /\ Len(codeRead) <= 1 /\ codeRead # << >>
    BY <1>1, <1>2 DEF CpuTypes
  <2> QED BY <1>3, <2>1, Single
<1>5. c.n \in Nat /\ c.up \in BOOLEAN /\ (c.key = "ack" <=> c.n = 0)
      /\ c.key \in {"letter", "shift", "caps", "ack"}
  <2>1. c \in AllCodes
    BY <1>4 DEF AllCodes
  <2> QED BY <1>1, <1>4, <2>1, CodeNumbers DEF CodesOrder, Keys!Code
<1>6. PICK k : k = [n |-> c.n, capital |-> flags.shift # flags.caps]
  OBVIOUS
<1>7. /\ flags' = Keys!FlagsAfter(c)
      /\ ring' = IF IsPress(c) /\ ~Keys!RingFull THEN Append(ring, k) ELSE ring
      /\ lost' = IF IsPress(c) /\ Keys!RingFull THEN lost \cup {c.n} ELSE lost
  BY <1>3, <1>6 DEF Keys!Process, Keys!Capital, IsPress
<1>8. /\ flags' \in FlagsType /\ flags'.led = flags.led
      /\ flags'.shift = After(flags, c).shift /\ flags'.caps = After(flags, c).caps
  <2>1. flags \in FlagsType
    BY <1>1 DEF CpuTypes
  <2>2. PICK s, t : s = ~c.up /\ t = ~flags.caps
    OBVIOUS
  <2>3. s \in BOOLEAN /\ t \in BOOLEAN
    BY <2>2
  <2>4. CASE c.key = "shift"
    <3>1. flags' = [flags EXCEPT !.shift = s]
      BY <1>7, <2>2, <2>4, Zenon DEF Keys!FlagsAfter
    <3>2. flags' \in FlagsType /\ flags'.led = flags.led /\ flags'.shift = s /\ flags'.caps = flags.caps
      BY <2>1, <2>3, <3>1, Zenon DEF FlagsType
    <3>3. After(flags, c).shift = s /\ After(flags, c).caps = flags.caps
      BY <2>2, <2>4 DEF After
    <3> QED BY <3>2, <3>3
  <2>5. CASE c.key = "caps" /\ ~c.up
    <3>1. flags' = [flags EXCEPT !.caps = t]
      BY <1>7, <2>2, <2>5 DEF Keys!FlagsAfter
    <3>2. flags' \in FlagsType /\ flags'.led = flags.led /\ flags'.shift = flags.shift /\ flags'.caps = t
      BY <2>1, <2>3, <3>1, Zenon DEF FlagsType
    <3>3. After(flags, c).shift = flags.shift /\ After(flags, c).caps = t
      BY <2>2, <2>5 DEF After
    <3> QED BY <3>2, <3>3
  <2>6. CASE c.key # "shift" /\ ~(c.key = "caps" /\ ~c.up)
    <3>1. flags' = flags
      BY <1>7, <2>6 DEF Keys!FlagsAfter
    <3>2. After(flags, c).shift = flags.shift /\ After(flags, c).caps = flags.caps
      BY <2>6 DEF After
    <3> QED BY <2>1, <3>1, <3>2
  <2> QED BY <2>4, <2>5, <2>6
<1>9. IsPress(c) => /\ c.n # 0 /\ c \in Pending /\ c.n \in 1 .. hand.events
                    /\ c.n \in 1 .. MaxEvents /\ k \in Keys!Keys
  <2>1. SUFFICES ASSUME IsPress(c)
                 PROVE  /\ c.n # 0 /\ c \in Pending /\ c.n \in 1 .. hand.events
                        /\ c.n \in 1 .. MaxEvents /\ k \in Keys!Keys
    OBVIOUS
  <2>2. c.n # 0 /\ c \in Pending
    BY <1>4, <1>5, <2>1 DEF IsPress, Pending, AllCodes
  <2>3. c.n <= hand.events /\ hand.events \in 0 .. MaxEvents
    BY <1>1, <2>2 DEF LineOrder, HandTypes, HandType
  <2>4. c.n \in 1 .. hand.events /\ c.n \in 1 .. MaxEvents
    BY <1>5, <2>2, <2>3, Lengths
  <2>5. (flags.shift # flags.caps) \in BOOLEAN
    OBVIOUS
  <2> QED BY <1>6, <2>2, <2>4, <2>5 DEF Keys!Keys
<1>10. HandTypes'
  BY <1>1, <1>2, <1>7, <1>9 DEF HandTypes
<1>11. KbdTypes'
  BY <1>1, <1>2, Zenon DEF KbdTypes
<1>12. ring' \in Seq(Keys!Keys) /\ Len(ring') <= Words - 1 /\ (ring # << >> => ring' # << >>)
       /\ Keys!ToSet(ring') \subseteq Keys!ToSet(ring) \cup {k}
  <2>1. ring \in Seq(Keys!Keys) /\ Len(ring) <= Words - 1 /\ Len(ring) \in Nat
    BY <1>1, SeqDomain DEF CpuTypes
  <2>2. CASE IsPress(c) /\ ~Keys!RingFull
    <3>1. PICK t : t = Append(ring, k)
      OBVIOUS
    <3>2. t \in Seq(Keys!Keys) /\ Len(t) = Len(ring) + 1 /\ t # << >>
      BY <1>9, <2>1, <2>2, <3>1, Appended
    <3>3. Keys!ToSet(t) = Keys!ToSet(ring) \cup {k}
      BY <1>9, <2>1, <2>2, <3>1, AppendedSet
    <3>4. Len(t) <= Words - 1
      BY <2>1, <2>2, <3>2, Lengths DEF Keys!RingFull
    <3> QED BY <1>7, <2>2, <3>1, <3>2, <3>3, <3>4
  <2>3. CASE ~(IsPress(c) /\ ~Keys!RingFull)
    BY <1>7, <2>1, <2>3
  <2> QED BY <2>2, <2>3
<1>13. CpuTypes'
  <2>1. codeRead' \in Seq(Keys!Code) /\ Len(codeRead') <= 1 /\ handler' \in HandlerPlaces /\ handler' # "process" /\ codeRead' = << >>
    BY <1>2 DEF HandlerPlaces
  <2> QED BY <1>1, <1>2, <1>8, <1>12, <2>1, Zenon DEF CpuTypes
<1>14. Signals'
  BY <1>1, <1>2 DEF Signals
<1>15. Conversation'
  <2>1. keysPc \notin LightsPlaces
    BY <1>1, <1>2 DEF Conversation
  <2> QED BY <1>1, <1>2, <1>8, <1>12, <2>1
      DEF Conversation, Keys!AnswerIsRead, Keys!LightsAreKnown, LightsPlaces, KeyPlaces
<1>16. /\ AllCodes = {c} \cup AllCodes'
       /\ \A d \in AllCodes' : c.n # 0 /\ d.n # 0 => c.n < d.n
  <2>1. Keys!ToSet(codeRead') = {} /\ kbd' = kbd
    BY <1>2, ToSetNone
  <2>2. AllCodes' = Keys!ToSet(kbd.out) \cup Keys!ToSet(kbd.buf)
    BY <2>1 DEF AllCodes
  <2>3. Before({c}, Keys!ToSet(kbd.out)) /\ Before({c}, Keys!ToSet(kbd.buf))
    BY <1>1, <1>4 DEF CodesOrder
  <2> QED BY <1>4, <2>2, <2>3 DEF AllCodes, Before
<1>17. /\ Pending' \subseteq Pending
       /\ c.n = 0 => Pending' = Pending
       /\ c.n # 0 => Pending' = { d \in Pending : c.n < d.n } /\ c \in Pending
                     /\ \A d \in Pending : d = c \/ c.n < d.n
  BY <1>5, <1>16 DEF Pending
<1>18. CodesOrder'
  <2>1. Keys!ToSet(codeRead') = {} /\ kbd' = kbd
    BY <1>2, ToSetNone
  <2>2. \A d \in AllCodes' : d.key = "ack" <=> d.n = 0
    BY <1>1, <1>16 DEF CodesOrder
  <2> QED BY <1>1, <2>1, <2>2, BeforeParts DEF CodesOrder
<1>19. Line \in Seq(Keys!Keys) /\ Line' = IF IsPress(c) /\ ~Keys!RingFull THEN Append(Line, k) ELSE Line
  <2>1. Line \in Seq(Keys!Keys)
    BY <1>1, LineIs
  <2>2. screen \o taken \in Seq(Keys!Keys) /\ ring \in Seq(Keys!Keys)
    BY <1>1, ConcatProperties DEF CpuTypes
  <2>3. CASE IsPress(c) /\ ~Keys!RingFull
    <3>1. k \in Keys!Keys
      BY <1>9, <2>3
    <3>2. PICK s \in Seq(Keys!Keys), r \in Seq(Keys!Keys) : s = screen \o taken /\ r = ring
      BY <2>2
    <3>3. s \o Append(r, k) = Append(s \o r, k)
      BY <3>1
    <3> QED BY <1>2, <1>7, <2>1, <2>3, <3>2, <3>3 DEF Line
  <2>4. CASE ~(IsPress(c) /\ ~Keys!RingFull)
    BY <1>2, <1>7, <2>1, <2>4 DEF Line
  <2> QED BY <2>3, <2>4
<1>20. Keys!ToSet(Line') \subseteq Keys!ToSet(Line) \cup {k}
  <2>1. CASE IsPress(c) /\ ~Keys!RingFull
    <3>1. Keys!ToSet(Append(Line, k)) = Keys!ToSet(Line) \cup {k}
      BY <1>9, <1>19, <2>1, AppendedSet
    <3> QED BY <1>19, <2>1, <3>1
  <2>2. CASE ~(IsPress(c) /\ ~Keys!RingFull)
    BY <1>19, <2>2
  <2> QED BY <2>1, <2>2
<1>21. LineOrder' /\ TypedOrder'
  <2>1. \A d \in Pending' : d.n <= hand.events
    BY <1>1, <1>17 DEF LineOrder
  <2>2. ASSUME NEW j \in Keys!ToSet(Line') PROVE j.n <= hand.events /\ \A d \in Pending' : j.n < d.n
    <3>1. CASE j \in Keys!ToSet(Line)
      BY <1>1, <1>17, <3>1 DEF LineOrder
    <3>2. CASE j \notin Keys!ToSet(Line)
      <4>1. IsPress(c) /\ j = k
        BY <1>19, <1>20, <2>2, <3>2
      <4>2. j.n = c.n /\ c.n # 0 /\ c \in Pending
        BY <1>6, <1>9, <4>1
      <4>3. \A d \in Pending' : c.n < d.n
        BY <1>17, <4>2
      <4>4. c.n <= hand.events
        BY <1>1, <4>2 DEF LineOrder
      <4> QED BY <4>2, <4>3, <4>4
    <3> QED BY <3>1, <3>2
  <2>3. TypedOrder'
    BY <1>1, <1>2, Zenon DEF TypedOrder
  <2> QED BY <1>2, <2>1, <2>2, <2>3 DEF LineOrder
<1>22. KeysOrder'
  <2>1. ring \in Seq(Keys!Keys) /\ screen \in Seq(Keys!Keys) /\ taken \in Seq(Keys!Keys)
    BY <1>1 DEF CpuTypes
  <2>2. CASE IsPress(c) /\ ~Keys!RingFull
    <3>1. c \in Pending /\ k.n = c.n /\ k \in Keys!Keys
      BY <1>6, <1>9, <2>2
    <3>2. Keys!ToSet(ring) \subseteq Keys!ToSet(Line) /\ Keys!ToSet(taken) \subseteq Keys!ToSet(Line)
      BY <1>1, LineHas
    <3>3. \A j \in Keys!ToSet(Line) : j.n < k.n
      BY <1>1, <3>1 DEF LineOrder
    <3>4. Before(Keys!ToSet(ring), {k}) /\ Before(Keys!ToSet(taken), {k})
      BY <3>2, <3>3 DEF Before
    <3>5. Ordered(ring')
      BY <1>1, <1>7, <2>1, <2>2, <3>1, <3>4, OrderedAppend DEF KeysOrder
    <3>6. Before(Keys!ToSet(taken), Keys!ToSet(ring'))
      BY <1>1, <1>12, <3>4 DEF KeysOrder, Before
    <3> QED BY <1>2, <3>5, <3>6 DEF KeysOrder
  <2>3. CASE ~(IsPress(c) /\ ~Keys!RingFull)
    <3>1. UNCHANGED <<screen, taken, ring>>
      BY <1>2, <1>7, <2>3
    <3> QED BY <1>1, <3>1, KeysStay
  <2> QED BY <2>2, <2>3
<1>23. Alone'
  <2>1. SUFFICES ASSUME hand.patient
                 PROVE  /\ lost' = {} /\ (ring' # << >> => Pending' = {})
                        /\ \A d, e \in Pending' : d.n = e.n
    BY <1>2 DEF Alone
  <2>2. lost = {} /\ (ring # << >> => Pending = {}) /\ \A d, e \in Pending : d.n = e.n
    BY <1>1, <2>1 DEF Alone
  <2>3. c.n # 0 => Pending' = {}
    <3>1. SUFFICES ASSUME c.n # 0, NEW d \in Pending' PROVE FALSE
      OBVIOUS
    <3>2. d \in Pending /\ c \in Pending /\ c.n < d.n
      BY <1>17, <3>1
    <3>3. d.n = c.n
      BY <2>2, <3>2
    <3> QED BY <1>5, <3>2, <3>3
  <2>4. lost' = {}
    <3>1. SUFFICES ASSUME IsPress(c), Keys!RingFull PROVE FALSE
      BY <1>7, <2>2
    <3>2. Len(ring) # 0 /\ ring \in Seq(Keys!Keys)
      BY <1>1, <3>1, Lengths DEF Keys!RingFull, CpuTypes
    <3>3. ring # << >>
      BY <3>2, SeqDomain
    <3> QED BY <1>9, <2>2, <3>1, <3>3
  <2>5. ring' # << >> => Pending' = {}
    <3>1. CASE IsPress(c)
      BY <1>9, <2>3, <3>1
    <3>2. CASE ~IsPress(c)
      BY <1>7, <1>17, <2>2, <3>2
    <3> QED BY <3>1, <3>2
  <2> QED BY <1>17, <2>2, <2>4, <2>5
<1>24. Story'
  <2>1. CASE lost' # {}
    BY <2>1, Zenon DEF Story
  <2>2. CASE lost' = {}
    <3>1. lost = {} /\ ~(IsPress(c) /\ Keys!RingFull)
      BY <1>7, <2>2
    <3>2. CASE c.n = 0
      <4>1. ~IsPress(c) /\ c.key = "ack"
        BY <1>9, <1>5, <3>2
      <4>2. flags' = flags
        BY <1>7, <4>1 DEF Keys!FlagsAfter
      <4>3. Pending' = Pending /\ Line' = Line
        BY <1>17, <1>19, <3>2, <4>1
      <4> QED BY <1>1, <1>2, <3>1, <4>2, <4>3, Retold
    <3>3. CASE c.n # 0
      <4>1. /\ c \in Pending /\ \A d \in Pending : d = c \/ c.n < d.n
            /\ Pending' = { d \in Pending : c.n < d.n }
        BY <1>17, <3>3
      <4>2. IsPress(c) => Line' = Append(Line, [n |-> c.n, capital |-> flags.shift # flags.caps])
        BY <1>6, <1>19, <3>1, Zenon
      <4>3. ~IsPress(c) => Line' = Line
        BY <1>19
      <4>4. UNCHANGED <<hand, typed>>
        BY <1>2
      <4> QED BY <1>1, <1>8, <2>2, <3>1, <4>1, <4>2, <4>3, <4>4, ReadOn
    <3> QED BY <3>2, <3>3
  <2> QED BY <2>1, <2>2
<1> QED BY <1>10, <1>11, <1>13, <1>14, <1>15, <1>18, <1>21, <1>22, <1>23, <1>24
           DEF KeysIInv


-----------------------------------------------------------------------------
(* The typist.                                                             *)
LEMMA HandIs ==
    ASSUME HandTypes
    PROVE  /\ hand.events \in Nat /\ hand.events <= MaxEvents /\ hand.caps \in BOOLEAN
           /\ hand.patient \in BOOLEAN /\ hand.down \subseteq {"letter", "shift", "caps"}
           /\ typed \in Seq(Keys!Keys)
BY Lengths DEF HandTypes, HandType

(* What an event does to the hands, and the story told on.                 *)
LEMMA ToldOn ==
    ASSUME KbdTypes, CpuTypes, HandTypes, LineOrder, Story, lost = {},
           UNCHANGED <<flags, screen, taken, ring>>,
           NEW code \in Keys!Code, code.n = hand.events + 1,
           code.key \in {"letter", "shift", "caps"}, code.up \in BOOLEAN,
           hand'.events = code.n,
           hand'.down = IF code.up THEN hand.down \ {code.key} ELSE hand.down \cup {code.key},
           hand'.caps = (hand.caps # (code.key = "caps" /\ ~code.up)),
           typed' = IF IsPress(code)
                    THEN Append(typed, [n |-> code.n, capital |-> hand.caps # ("shift" \in hand.down)])
                    ELSE typed,
           Pending' = Pending \cup {code}
    PROVE  Story'
<1>1. PICK h \in [Nat -> Lamps], p \in 0 .. hand.events : StoryIs(h, p)
  BY DEF Story
<1>2. /\ hand.events \in Nat /\ p \in Nat /\ p <= hand.events /\ hand.caps \in BOOLEAN
      /\ typed \in Seq(Keys!Keys) /\ DOMAIN typed = 1 .. Len(typed) /\ Len(typed) \in Nat
  BY HandIs, SeqDomain
<1>3. PICK n \in Nat : n = hand.events + 1
  BY <1>2
<1>4. /\ h[hand.events] = [shift |-> "shift" \in hand.down, caps |-> hand.caps]
      /\ h[p] = [shift |-> flags.shift, caps |-> flags.caps]
      /\ { c.n : c \in Pending } = (p + 1) .. hand.events
      /\ \A c \in Pending : h[c.n] = After(h[c.n - 1], c)
      /\ \A c \in Pending : IsPress(c) => KeyOf(h, c) \in Keys!ToSet(typed)
      /\ \A i \in DOMAIN typed : typed[i].n > p =>
            \E c \in Pending : c.n = typed[i].n /\ IsPress(c)
  BY <1>1, Zenon DEF StoryIs
<1>5. /\ Len(Line) <= Len(typed)
      /\ \A i \in DOMAIN typed : IF i <= Len(Line) THEN typed[i] = Line[i] /\ typed[i].n <= p
                                 ELSE typed[i].n > p
  BY <1>1, Zenon DEF StoryIs
<1>6. PICK a : a = After(h[hand.events], code)
  OBVIOUS
<1>7. PICK g : g = [h EXCEPT ![n] = a]
  OBVIOUS
<1>8. a = [shift |-> "shift" \in hand'.down, caps |-> hand'.caps]
  <2>1. /\ h[hand.events].shift = ("shift" \in hand.down) /\ h[hand.events].caps = hand.caps
    BY <1>4
  <2>2. (IF code.key = "shift" THEN ~code.up ELSE h[hand.events].shift) = ("shift" \in hand'.down)
    BY <2>1
  <2>3. (IF code.key = "caps" /\ ~code.up THEN ~h[hand.events].caps ELSE h[hand.events].caps) = hand'.caps
    BY <1>2, <2>1
  <2> QED BY <1>6, <2>2, <2>3, Zenon DEF After
<1>9. a \in Lamps /\ g \in [Nat -> Lamps]
  <2>1. ("shift" \in hand'.down) \in BOOLEAN /\ hand'.caps \in BOOLEAN
    OBVIOUS
  <2>2. a \in Lamps
    BY <1>8, <2>1, Zenon DEF Lamps
  <2> QED BY <1>7, <2>2
<1>10. g[n] = a /\ \A m \in Nat : m # n => g[m] = h[m]
  BY <1>3, <1>7
<1>11. g[hand.events] = h[hand.events] /\ g[p] = h[p]
  BY <1>2, <1>3, <1>10
<1>12. \A c \in Pending : /\ c.n \in 1 .. hand.events /\ g[c.n] = h[c.n]
                          /\ g[c.n - 1] = h[c.n - 1] /\ KeyOf(g, c) = KeyOf(h, c)
  <2>1. TAKE c \in Pending
  <2>2. c.n \in Nat /\ c.n # 0 /\ c.n <= hand.events
    BY CodesAre DEF LineOrder
  <2>3. c.n \in 1 .. hand.events /\ c.n \in Nat /\ c.n - 1 \in Nat /\ c.n # n /\ c.n - 1 # n
    BY <1>2, <1>3, <2>2
  <2>4. g[c.n] = h[c.n] /\ g[c.n - 1] = h[c.n - 1]
    BY <1>10, <2>3
  <2> QED BY <2>3, <2>4 DEF KeyOf
<1>13. PICK k : k = [n |-> code.n, capital |-> hand.caps # ("shift" \in hand.down)]
  OBVIOUS
<1>14. code.n = n /\ n - 1 = hand.events /\ n <= MaxEvents
  <2>1. code.n \in 0 .. MaxEvents
    BY DEF Keys!Code
  <2> QED BY <1>2, <1>3, <2>1, Lengths
<1>15. k \in Keys!Keys /\ k.n = n
  <2>1. code.n \in 1 .. MaxEvents
    BY <1>2, <1>3, <1>14, Lengths
  <2>2. (hand.caps # ("shift" \in hand.down)) \in BOOLEAN
    OBVIOUS
  <2> QED BY <1>13, <1>14, <2>1, <2>2 DEF Keys!Keys
<1>16. PICK t : t = typed'
  OBVIOUS
<1>17. /\ t \in Seq(Keys!Keys) /\ Len(t) >= Len(typed) /\ DOMAIN t = 1 .. Len(t)
       /\ \A i \in 1 .. Len(typed) : t[i] = typed[i]
       /\ Keys!ToSet(typed) \subseteq Keys!ToSet(t)
       /\ \A i \in 1 .. Len(t) : i > Len(typed) => t[i] = k /\ IsPress(code)
       /\ IsPress(code) => k \in Keys!ToSet(t)
  <2>1. CASE IsPress(code)
    <3>1. t = Append(typed, k)
      BY <1>13, <1>16, <2>1
    <3>2. /\ t \in Seq(Keys!Keys) /\ Len(t) = Len(typed) + 1 /\ t[Len(t)] = k
          /\ \A i \in 1 .. Len(typed) : t[i] = typed[i]
      BY <1>2, <1>15, <3>1, Appended
    <3>3. Keys!ToSet(t) = Keys!ToSet(typed) \cup {k}
      BY <1>2, <1>15, <3>1, AppendedSet
    <3> QED BY <1>2, <2>1, <3>2, <3>3, SeqDomain
  <2>2. CASE ~IsPress(code)
    <3>1. t = typed
      BY <1>16, <2>2
    <3> QED BY <1>2, <2>2, <3>1
  <2> QED BY <2>1, <2>2
<1>18. StoryIs(g, p)'
  <2>1. g[hand'.events] = [shift |-> "shift" \in hand'.down, caps |-> hand'.caps]
    BY <1>8, <1>10, <1>14
  <2>2. g[p] = [shift |-> flags'.shift, caps |-> flags'.caps]
    BY <1>4, <1>11
  <2>3. { c.n : c \in Pending' } = (p + 1) .. hand'.events
    <3>1. { c.n : c \in Pending' } = { c.n : c \in Pending } \cup {n}
      BY <1>14
    <3>2. (p + 1) .. n = ((p + 1) .. hand.events) \cup {n}
      BY <1>2, <1>3
    <3> QED BY <1>4, <1>14, <3>1, <3>2
  <2>4. ASSUME NEW c \in Pending'
        PROVE  g[c.n] = After(g[c.n - 1], c) /\ (IsPress(c) => KeyOf(g, c) \in Keys!ToSet(t))
    <3>1. CASE c \in Pending
      BY <1>4, <1>12, <1>17, <3>1
    <3>2. CASE c = code
      <4>1. c.n = n /\ c.n - 1 = hand.events
        BY <1>14, <3>2
      <4>2. g[c.n] = After(g[c.n - 1], c)
        BY <1>6, <1>10, <1>11, <3>2, <4>1
      <4>3. KeyOf(g, c) = k
        <5>1. (g[c.n - 1].shift # g[c.n - 1].caps) = (hand.caps # ("shift" \in hand.down))
          <6>1. g[c.n - 1].shift = ("shift" \in hand.down) /\ g[c.n - 1].caps = hand.caps
            BY <1>4, <1>11, <4>1
          <6> QED BY <1>2, <6>1
        <5>2. c.n = code.n
          BY <3>2
        <5> QED BY <1>13, <5>1, <5>2, Zenon DEF KeyOf
      <4> QED BY <1>17, <3>2, <4>2, <4>3
    <3> QED BY <2>4, <3>1, <3>2
  <2>5. ASSUME NEW i \in DOMAIN t, t[i].n > p
        PROVE  \E c \in Pending' : c.n = t[i].n /\ IsPress(c)
    <3>1. CASE i \in 1 .. Len(typed)
      <4>1. t[i] = typed[i] /\ i \in DOMAIN typed
        BY <1>2, <1>17, <3>1
      <4>2. PICK c \in Pending : c.n = typed[i].n /\ IsPress(c)
        BY <1>4, <2>5, <4>1
      <4> QED BY <4>1, <4>2
    <3>2. CASE i \notin 1 .. Len(typed)
      <4>1. t[i] = k /\ IsPress(code)
        BY <1>2, <1>17, <2>5, <3>2
      <4>2. code.n = t[i].n
        BY <1>14, <1>15, <4>1
      <4> QED BY <4>1, <4>2
    <3> QED BY <3>1, <3>2
  <2>6. Line' = Line /\ Len(Line) \in Nat
    <3>1. Line \in Seq(Keys!Keys)
      BY LineIs
    <3> QED BY <3>1, SeqDomain DEF Line
  <2>7. Len(Line) <= Len(t)
    BY <1>2, <1>5, <1>17, <2>6
  <2>8. ASSUME NEW i \in DOMAIN t
        PROVE  IF i <= Len(Line) THEN t[i] = Line[i] /\ t[i].n <= p ELSE t[i].n > p
    <3>1. CASE i \in 1 .. Len(typed)
      BY <1>2, <1>5, <1>17, <3>1
    <3>2. CASE i \notin 1 .. Len(typed)
      <4>1. t[i] = k /\ i > Len(typed)
        BY <1>2, <1>17, <2>8, <3>2
      <4>2. ~(i <= Len(Line)) /\ t[i].n > p
        BY <1>2, <1>3, <1>5, <1>15, <1>17, <2>6, <2>8, <4>1
      <4> QED BY <4>2
    <3> QED BY <3>1, <3>2
  <2>9. \A c \in Pending' : /\ g[c.n] = After(g[c.n - 1], c)
                            /\ IsPress(c) => KeyOf(g, c) \in Keys!ToSet(typed')
    BY <1>16, <2>4
  <2>10. \A i \in DOMAIN typed' : typed'[i].n > p =>
            \E c \in Pending' : c.n = typed'[i].n /\ IsPress(c)
    BY <1>16, <2>5
  <2>11. /\ Len(Line') <= Len(typed')
         /\ \A i \in DOMAIN typed' : IF i <= Len(Line') THEN typed'[i] = Line'[i] /\ typed'[i].n <= p
                                     ELSE typed'[i].n > p
    BY <1>16, <2>6, <2>7, <2>8
  <2> QED BY <2>1, <2>2, <2>3, <2>9, <2>10, <2>11, Zenon DEF StoryIs
<1>19. p \in 0 .. hand'.events
  BY <1>2, <1>3, <1>14
<1> QED BY <1>9, <1>18, <1>19, Zenon DEF Story


LEMMA EventKeeps ==
    ASSUME KeysIInv, NEW key \in {"letter", "shift", "caps"}, NEW up \in BOOLEAN,
           Keys!Event(key, up)
    PROVE  KeysIInv'
<1>1. /\ HandTypes /\ KbdTypes /\ CpuTypes /\ Signals /\ Conversation
      /\ CodesOrder /\ KeysOrder /\ LineOrder /\ TypedOrder /\ Alone /\ Story
  BY DEF KeysIInv
<1>2. /\ hand.events < MaxEvents /\ (hand.patient => Keys!Quiet) /\ UNCHANGED <<irq1, Keys!cpu, stopped>>
      /\ lost' = IF kbd.clock /\ ~Keys!Full(kbd) THEN lost ELSE lost \cup {hand.events + 1}
  BY DEF Keys!Event
<1>3. UNCHANGED <<irq1, flags, ring, handler, codeRead, keysPc, open, taken, screen, stopped>>
  BY <1>2 DEF Keys!cpu
<1>4. /\ hand.events \in Nat /\ hand.events <= MaxEvents /\ hand.caps \in BOOLEAN
      /\ hand.patient \in BOOLEAN /\ hand.down \subseteq {"letter", "shift", "caps"}
      /\ typed \in Seq(Keys!Keys)
  BY <1>1, HandIs
<1>5. PICK n \in Nat : n = hand.events + 1
  BY <1>4
<1>6. n \in 1 .. MaxEvents /\ n \in 0 .. MaxEvents /\ n # 0
  BY <1>2, <1>4, <1>5, Lengths
<1>7. PICK code : code = [n |-> n, key |-> key, up |-> up]
  OBVIOUS
<1>8. /\ code \in Keys!Code /\ code.n = n /\ code.key = key /\ code.up = up /\ up \in BOOLEAN
      /\ (IsPress(code) <=> key = "letter" /\ ~up)
  BY <1>6, <1>7 DEF Keys!Code, IsPress
<1>9. PICK down, caps : /\ down = (IF up THEN hand.down \ {key} ELSE hand.down \cup {key})
                         /\ caps = (hand.caps # (key = "caps" /\ ~up))
  OBVIOUS
<1>10. /\ hand' \in HandType /\ hand'.down = down /\ hand'.caps = caps /\ hand'.events = n
       /\ hand'.patient = hand.patient
  <2>1. PICK d, e : d = [hand EXCEPT !.down = down] /\ e = [d EXCEPT !.events = n]
    OBVIOUS
  <2>2. hand' = [e EXCEPT !.caps = caps]
    <3>1. hand' = [hand EXCEPT !.down = down, !.events = n, !.caps = caps]
      BY <1>5, <1>9, Zenon DEF Keys!Event
    <3> QED BY <2>1, <3>1, Zenon
  <2>3. caps \in BOOLEAN /\ down \subseteq {"letter", "shift", "caps"} /\ hand \in HandType
    BY <1>1, <1>4, <1>9 DEF HandTypes
  <2>4. d \in HandType /\ d.down = down /\ d.patient = hand.patient
    BY <2>1, <2>3 DEF HandType
  <2>5. e \in HandType /\ e.down = down /\ e.events = n /\ e.patient = hand.patient
    BY <1>6, <2>1, <2>4 DEF HandType
  <2> QED BY <2>2, <2>3, <2>5, Zenon DEF HandType
<1>11. PICK k : k = [n |-> n, capital |-> hand.caps # ("shift" \in hand.down)]
  OBVIOUS
<1>12. k \in Keys!Keys /\ k.n = n
  <2>1. (hand.caps # ("shift" \in hand.down)) \in BOOLEAN
    OBVIOUS
  <2> QED BY <1>6, <1>11, <2>1 DEF Keys!Keys
<1>13. typed' = IF IsPress(code) THEN Append(typed, k) ELSE typed
  BY <1>5, <1>8, <1>11 DEF Keys!Event
<1>14. typed' \in Seq(Keys!Keys) /\ TypedOrder'
  <2>1. typed \in Seq(Keys!Keys) /\ Ordered(typed)
        /\ \A i \in DOMAIN typed : typed[i].n \in Nat /\ typed[i].n <= hand.events
    BY <1>1, <1>4, SeqDomain, KeyNumbers DEF TypedOrder
  <2>2. CASE IsPress(code)
    <3>1. PICK t : t = Append(typed, k)
      OBVIOUS
    <3>2. /\ t \in Seq(Keys!Keys) /\ Len(t) = Len(typed) + 1 /\ t[Len(t)] = k
          /\ \A i \in 1 .. Len(typed) : t[i] = typed[i]
      BY <1>12, <2>1, <3>1, Appended
    <3>3. Before(Keys!ToSet(typed), {k})
      <4>1. ASSUME NEW c \in Keys!ToSet(typed) PROVE c.n < k.n
        <5>1. PICK i \in DOMAIN typed : c = typed[i]
          BY <4>1, ToSetMember
        <5> QED BY <1>4, <1>5, <1>12, <2>1, <5>1
      <4> QED BY <4>1 DEF Before
    <3>4. Ordered(t)
      BY <1>12, <2>1, <3>1, <3>3, OrderedAppend
    <3>5. \A i \in DOMAIN t : t[i].n <= n
      <4>1. TAKE i \in DOMAIN t
      <4>2. i \in 1 .. Len(typed) + 1 /\ Len(typed) \in Nat /\ DOMAIN typed = 1 .. Len(typed)
        BY <2>1, <3>2, SeqDomain
      <4>3. CASE i = Len(typed) + 1
        BY <1>12, <3>2, <4>3
      <4>4. CASE i # Len(typed) + 1
        <5>1. i \in DOMAIN typed /\ t[i] = typed[i]
          BY <3>2, <4>2, <4>4
        <5> QED BY <1>4, <1>5, <2>1, <5>1
      <4> QED BY <4>3, <4>4
    <3> QED BY <1>10, <1>13, <2>2, <3>1, <3>2, <3>4, <3>5, Zenon DEF TypedOrder
  <2>3. CASE ~IsPress(code)
    <3>1. typed' = typed
      BY <1>13, <2>3
    <3>2. \A i \in DOMAIN typed : typed[i].n <= n
      BY <1>4, <1>5, <2>1
    <3> QED BY <1>10, <2>1, <3>1, <3>2, Zenon DEF TypedOrder
  <2> QED BY <2>2, <2>3
<1>15. HandTypes'
  <2>1. lost' \subseteq 1 .. n
    <3>1. lost \subseteq 1 .. hand.events
      BY <1>1 DEF HandTypes
    <3>2. lost' \subseteq lost \cup {n}
      BY <1>2, <1>5
    <3> QED BY <1>4, <1>5, <3>1, <3>2
  <2>2. stopped' \in BOOLEAN
    BY <1>1, <1>3 DEF HandTypes
  <2> QED BY <1>10, <1>14, <2>1, <2>2 DEF HandTypes
<1>16. CpuTypes'
  BY <1>1, <1>3, Zenon DEF CpuTypes
<1>17. kbd' = IF kbd.clock THEN Keys!EnQ(kbd, code) ELSE kbd
  BY <1>5, <1>7, Zenon DEF Keys!Event
<1>18. Len(kbd.buf) \in Nat /\ Len(kbd.buf) <= Elements /\ kbd.buf \in Seq(Keys!Code) /\ kbd \in KbdType
  BY <1>1, KbdFields, SeqDomain DEF KbdTypes
<1>19. Pending \subseteq Keys!Code /\ \A c \in Pending : c.n \in Nat /\ c.n # 0 /\ c.n <= hand.events /\ c.n < n
  <2>1. Pending \subseteq Keys!Code /\ \A c \in Pending : c.n \in Nat /\ c.n # 0
    BY <1>1, CodesAre
  <2> QED BY <1>1, <1>4, <1>5, <2>1 DEF LineOrder
<1>20. \A j \in Keys!ToSet(Line) : j.n \in Nat /\ j.n <= hand.events /\ j.n < n
  <2>1. Line \in Seq(Keys!Keys)
    BY <1>1, LineIs
  <2>2. \A j \in Keys!ToSet(Line) : j.n \in Nat
    BY <2>1, SeqDomain, KeyNumbers
  <2> QED BY <1>1, <1>4, <1>5, <2>2 DEF LineOrder
<1>21. Line' = Line /\ KeysOrder'
  BY <1>1, <1>3, KeysStay
<1>22. hand.patient => /\ Pending = {} /\ ring = << >> /\ kbd.clock /\ ~Keys!Full(kbd)
  <2>1. SUFFICES ASSUME hand.patient PROVE Pending = {} /\ ring = << >> /\ kbd.clock /\ ~Keys!Full(kbd)
    OBVIOUS
  <2>2. kbd.buf = << >> /\ kbd.out = << >> /\ handler = "none" /\ ring = << >>
    BY <1>2, <2>1 DEF Keys!Quiet
  <2>3. kbd.clock /\ codeRead = << >>
    BY <1>1, <2>2 DEF Signals, CpuTypes
  <2>4. AllCodes = {}
    BY <2>2, <2>3, ToSetNone DEF AllCodes
  <2>5. ~Keys!Full(kbd)
    <3>1. Len(kbd.buf) = 0
      BY <2>2
    <3> QED BY <3>1, Lengths DEF Keys!Full
  <2> QED BY <2>2, <2>3, <2>4, <2>5 DEF Pending
<1>23. CASE ~(kbd.clock /\ ~Keys!Full(kbd))
  <2>1. kbd' = kbd
    BY <1>17, <1>23 DEF Keys!EnQ
  <2>2. lost' # {}
    BY <1>2, <1>23
  <2>3. KbdTypes'
    BY <1>1, <1>3, <2>1, Zenon DEF KbdTypes
  <2>4. Signals' /\ Conversation'
    BY <1>1, <1>3, <2>1, Zenon DEF Signals, Conversation, Keys!AnswerIsRead,
       Keys!LightsAreKnown
  <2>5. CodesOrder' /\ Pending' = Pending
    BY <1>1, <1>3, <2>1, CodesStay
  <2>6. LineOrder'
    <3>1. \A c \in Pending : c.n <= n
      BY <1>19, <1>4, <1>5
    <3>2. \A j \in Keys!ToSet(Line) : j.n <= n /\ \A c \in Pending : j.n < c.n
      BY <1>1, <1>4, <1>5, <1>20 DEF LineOrder
    <3> QED BY <1>10, <1>21, <2>5, <3>1, <3>2, Zenon DEF LineOrder
  <2>7. Alone'
    <3>1. ~hand'.patient
      BY <1>10, <1>22, <1>23
    <3> QED BY <3>1, Zenon DEF Alone
  <2>8. Story'
    BY <2>2, Zenon DEF Story
  <2> QED BY <1>14, <1>15, <1>16, <1>21, <2>3, <2>4, <2>5, <2>6, <2>7, <2>8
             DEF KeysIInv
<1>24. CASE kbd.clock /\ ~Keys!Full(kbd)
  <2>1. /\ kbd' \in KbdType /\ kbd'.buf = Append(kbd.buf, code) /\ kbd'.out = kbd.out
        /\ kbd'.irq = kbd.irq /\ kbd'.clock = kbd.clock /\ kbd'.led = kbd.led
    BY <1>8, <1>17, <1>18, <1>24, Queued
  <2>2. lost' = lost
    BY <1>2, <1>24
  <2>3. Len(Append(kbd.buf, code)) <= Elements
    <3>1. Len(kbd.buf) < Elements
      BY <1>18, <1>24, Lengths DEF Keys!Full
    <3>2. Len(Append(kbd.buf, code)) = Len(kbd.buf) + 1
      BY <1>8, <1>18
    <3> QED BY <1>18, <3>1, <3>2, Lengths
  <2>4. KbdTypes'
    <3>1. Len(kbd'.out) <= 1 /\ irq1' \in PicType
      BY <1>1, <1>3, <2>1 DEF KbdTypes
    <3>2. Len(kbd'.buf) <= Elements
      BY <2>1, <2>3
    <3> QED BY <2>1, <3>1, <3>2 DEF KbdTypes
  <2>5. Signals'
    BY <1>1, <1>3, <2>1 DEF Signals
  <2>6. Conversation'
    BY <1>1, <1>3, <2>1, Zenon DEF Conversation, Keys!AnswerIsRead,
       Keys!LightsAreKnown
  <2>7. Keys!ToSet(kbd'.buf) = Keys!ToSet(kbd.buf) \cup {code}
    BY <1>8, <1>18, <2>1, AppendedSet
  <2>8. AllCodes' = AllCodes \cup {code}
    BY <1>3, <2>1, <2>7 DEF AllCodes
  <2>9. Pending' = Pending \cup {code}
    BY <1>6, <1>8, <2>8 DEF Pending
  <2>10. \A S : S \subseteq AllCodes => Before(S, {code})
    BY <1>8, <1>19 DEF Before, Pending
  <2>11. CodesOrder'
    <3>1. /\ Before(Keys!ToSet(kbd.buf), {code}) /\ Before(Keys!ToSet(codeRead), {code})
          /\ Before(Keys!ToSet(kbd.out), {code})
      BY <2>10 DEF AllCodes
    <3>2. Ordered(kbd'.buf)
      <4>1. Ordered(kbd.buf)
        BY <1>1 DEF CodesOrder
      <4>2. Ordered(Append(kbd.buf, code))
        BY <1>8, <1>18, <3>1, <4>1, OrderedAppend
      <4> QED BY <2>1, <4>2
    <3>3. \A c \in AllCodes' : c.key = "ack" <=> c.n = 0
      BY <1>1, <1>6, <1>8, <2>8 DEF CodesOrder
    <3>4. \A S : Before(S, Keys!ToSet(kbd.buf)) /\ Before(S, {code}) => Before(S, Keys!ToSet(kbd'.buf))
      BY <2>7 DEF Before
    <3> QED BY <1>1, <1>3, <2>1, <3>1, <3>2, <3>3, <3>4 DEF CodesOrder
  <2>12. LineOrder'
    <3>1. \A c \in Pending' : c.n <= n
      BY <1>4, <1>5, <1>8, <1>19, <2>9
    <3>2. \A j \in Keys!ToSet(Line) : j.n <= n /\ \A c \in Pending' : j.n < c.n
      BY <1>1, <1>4, <1>5, <1>8, <1>20, <2>9 DEF LineOrder
    <3> QED BY <1>10, <1>21, <3>1, <3>2, Zenon DEF LineOrder
  <2>13. Alone'
    <3>1. SUFFICES ASSUME hand'.patient
                   PROVE  /\ lost' = {} /\ (ring' # << >> => Pending' = {})
                          /\ \A c, d \in Pending' : c.n = d.n
      BY DEF Alone
    <3>2. lost = {} /\ Pending = {} /\ ring = << >>
      BY <1>1, <1>10, <1>22, <3>1 DEF Alone
    <3> QED BY <1>3, <2>2, <2>9, <3>2
  <2>14. Story'
    <3>1. CASE lost # {}
      BY <2>2, <3>1, Zenon DEF Story
    <3>2. CASE lost = {}
      <4>1. code.n = hand.events + 1 /\ code.key \in {"letter", "shift", "caps"}
            /\ code.up \in BOOLEAN
        BY <1>5, <1>8
      <4>2. /\ hand'.events = code.n
            /\ hand'.down = IF code.up THEN hand.down \ {code.key} ELSE hand.down \cup {code.key}
        BY <1>8, <1>9, <1>10
      <4>3. hand'.caps = (hand.caps # (code.key = "caps" /\ ~code.up))
        BY <1>8, <1>9, <1>10
      <4>4. typed' = IF IsPress(code)
                     THEN Append(typed, [n |-> code.n, capital |-> hand.caps # ("shift" \in hand.down)])
                     ELSE typed
        BY <1>8, <1>11, <1>13, Zenon
      <4>5. UNCHANGED <<flags, screen, taken, ring>>
        BY <1>3
      <4> QED BY <1>1, <1>8, <2>9, <3>2, <4>1, <4>2, <4>3, <4>4, <4>5, ToldOn
    <3> QED BY <3>1, <3>2
  <2> QED BY <1>14, <1>15, <1>16, <1>21, <2>4, <2>5, <2>6, <2>11, <2>12, <2>13,
             <2>14 DEF KeysIInv
<1> QED BY <1>23, <1>24

LEMMA KeysInitInvariant == ASSUME Keys!Init PROVE KeysIInv
<1>1. /\ hand \in [down : {{}}, caps : {FALSE}, events : {0}, patient : BOOLEAN]
      /\ kbd = [buf |-> << >>, out |-> << >>, irq |-> FALSE, timer |-> FALSE,
                clock |-> TRUE, led |-> FALSE]
      /\ irq1 = [line |-> FALSE, irr |-> FALSE, isr |-> FALSE]
      /\ flags = [shift |-> FALSE, caps |-> FALSE, led |-> FALSE]
      /\ typed = << >> /\ ring = << >> /\ taken = << >> /\ screen = << >>
      /\ handler = "none" /\ codeRead = << >> /\ keysPc = "wait" /\ open = TRUE
      /\ lost = {} /\ stopped = FALSE
  BY DEF Keys!Init
<1>2. PICK none : none = << >>
  OBVIOUS
<1>3. none \in Seq(Keys!Code) /\ none \in Seq(Keys!Keys) /\ Len(none) = 0 /\ Keys!ToSet(none) = {} /\ DOMAIN none = {}
  BY <1>2, ToSetNone
<1>4. /\ hand.down = {} /\ hand.caps = FALSE /\ hand.events = 0 /\ hand.patient \in BOOLEAN
      /\ hand = [down |-> {}, caps |-> FALSE, events |-> 0, patient |-> hand.patient]
  BY <1>1
<1>5. HandTypes
  <2>1. hand \in HandType
    <3>1. 0 \in 0 .. MaxEvents
      BY Lengths
    <3> QED BY <1>4, <3>1 DEF HandType
  <2> QED BY <1>1, <1>2, <1>3, <2>1 DEF HandTypes
<1>6. KbdTypes
  <2>1. kbd \in KbdType /\ kbd.buf = none /\ kbd.out = none
    BY <1>1, <1>2, <1>3 DEF KbdType
  <2>2. irq1 \in PicType
    BY <1>1 DEF PicType
  <2> QED BY <1>3, <2>1, <2>2, Lengths DEF KbdTypes
<1>7. CpuTypes
  <2>1. flags \in FlagsType
    BY <1>1 DEF FlagsType
  <2> QED BY <1>1, <1>2, <1>3, <2>1, Lengths DEF CpuTypes, HandlerPlaces, KeysPlaces
<1>8. Signals /\ Conversation
  BY <1>1 DEF Signals, Conversation, Keys!AnswerIsRead, Keys!LightsAreKnown,
     LightsPlaces, KeyPlaces
<1>9. AllCodes = {} /\ Pending = {} /\ Line = none
  <2>1. AllCodes = {}
    BY <1>1, ToSetNone DEF AllCodes
  <2>2. none \o none = none
    BY <1>3, ConcatEmptySeq, <1>2
  <2> QED BY <1>1, <1>2, <2>1, <2>2 DEF Pending, Line
<1>10. Ordered(none)
  BY <1>3 DEF Ordered
<1>11. CodesOrder /\ KeysOrder
  BY <1>1, <1>2, <1>3, <1>9, <1>10, BeforeParts DEF CodesOrder, KeysOrder
<1>12. LineOrder /\ TypedOrder /\ Alone
  BY <1>1, <1>2, <1>3, <1>9, <1>10 DEF LineOrder, TypedOrder, Alone
<1>13. Story
  <2>1. PICK f : f = [shift |-> FALSE, caps |-> FALSE]
    OBVIOUS
  <2>2. PICK h : h = [m \in Nat |-> f]
    OBVIOUS
  <2>3. h \in [Nat -> Lamps] /\ h[0] = f
    BY <2>1, <2>2 DEF Lamps
  <2>4. StoryIs(h, 0)
    <3>1. h[hand.events] = [shift |-> "shift" \in hand.down, caps |-> hand.caps]
      <4>1. ("shift" \in hand.down) = FALSE
        BY <1>4
      <4> QED BY <1>4, <2>1, <2>3, <4>1, Zenon
    <3>2. h[0] = [shift |-> flags.shift, caps |-> flags.caps]
      BY <1>1, <2>1, <2>3
    <3>3. { c.n : c \in Pending } = (0 + 1) .. hand.events
      BY <1>4, <1>9
    <3>4. Len(Line) <= Len(typed) /\ DOMAIN typed = {}
      BY <1>1, <1>2, <1>3, <1>9
    <3> QED BY <1>9, <3>1, <3>2, <3>3, <3>4 DEF StoryIs
  <2>5. 0 \in 0 .. hand.events
    BY <1>4
  <2> QED BY <2>3, <2>4, <2>5 DEF Story
<1> QED BY <1>5, <1>6, <1>7, <1>8, <1>11, <1>12, <1>13 DEF KeysIInv

LEMMA KeysStepKeeps ==
    ASSUME KeysIInv, Keys!Next
    PROVE  KeysIInv'
<1>1. CASE Keys!Typist
  BY <1>1, EventKeeps DEF Keys!Typist
<1>2. CASE Keys!Periodic
  BY <1>2, PeriodicKeeps
<1>3. CASE Keys!Enter
  BY <1>3, EnterKeeps
<1>4. CASE Keys!Handler
  BY <1>4, ReadCodeKeeps, ProcessKeeps, EoiKeeps, LeaveKeeps DEF Keys!Handler
<1>5. CASE Keys!Program
  BY <1>5, KeyFoundKeeps, SetLightsKeeps, AnswerKeeps, LightsKeeps, AnsweredKeeps,
     TakeKeeps, ShowKeeps DEF Keys!Program
<1> QED BY <1>1, <1>2, <1>3, <1>4, <1>5 DEF Keys!Next, Keys!Processor

LEMMA KeysStayKeeps ==
    ASSUME KeysIInv, UNCHANGED Keys!vars
    PROVE  KeysIInv'
<1>1. UNCHANGED <<hand, typed, kbd, irq1, flags, ring, handler, codeRead, keysPc, open, taken, screen,
                  lost, stopped>>
  BY DEF Keys!vars, Keys!cpu
<1>2. /\ HandTypes /\ KbdTypes /\ CpuTypes /\ Signals /\ Conversation
  BY DEF KeysIInv
<1>3. HandTypes' /\ KbdTypes' /\ CpuTypes' /\ Signals'
  BY <1>1, <1>2, Zenon DEF HandTypes, KbdTypes, CpuTypes, Signals
<1>4. Conversation'
  BY <1>1, <1>2, Zenon DEF Conversation, Keys!AnswerIsRead, Keys!LightsAreKnown
<1>5. CodesOrder' /\ KeysOrder' /\ LineOrder' /\ TypedOrder' /\ Alone' /\ Story'
  BY <1>1, Standing
<1> QED BY <1>3, <1>4, <1>5 DEF KeysIInv


-----------------------------------------------------------------------------
(* A patient typist leaves room: while he waits nothing but the key's last *)
(* code and the answers to the commands are in the keyboard, and between   *)
(* two conversations no answer is left.                                    *)
Spare ==
    hand.patient =>
        /\ ~stopped
        /\ keysPc \notin {"answer", "answered"} => AllCodes = Pending
        /\ keysPc = "answer" => kbd.buf = << >>
        /\ keysPc = "answered" => Len(kbd.buf) + Len(kbd.out) <= 1

(* The codes move, or stay, but none comes or goes.                        *)
LEMMA SameCodes ==
    ASSUME KeysIInv,
           \/ Keys!Periodic \/ Keys!Enter \/ Keys!ReadCode \/ Keys!Eoi \/ Keys!Leave
           \/ Keys!KeyFound \/ Keys!Take \/ Keys!Show
    PROVE  AllCodes' = AllCodes
<1>1. KbdTypes /\ CpuTypes /\ Signals /\ kbd \in KbdType
  BY DEF KeysIInv, KbdTypes
<1>2. CASE Keys!Periodic
  <2>1. codeRead' = codeRead
    BY <1>2 DEF Keys!Periodic, Keys!cpu
  <2>2. CASE ~(kbd.timer /\ kbd.out = << >> /\ kbd.buf # << >> /\ kbd.clock)
    <3>1. kbd' = [kbd EXCEPT !.timer = FALSE, !.irq = FALSE]
      BY <1>2, <2>2 DEF Keys!Periodic
    <3>2. kbd'.buf = kbd.buf /\ kbd'.out = kbd.out
      BY <1>1, <3>1, Zenon DEF KbdType
    <3> QED BY <2>1, <3>2 DEF AllCodes
  <2>3. CASE kbd.timer /\ kbd.out = << >> /\ kbd.buf # << >> /\ kbd.clock
    <3>1. PICK b \in Seq(Keys!Code) : b = kbd.buf
      BY <1>1, KbdFields
    <3>2. kbd'.buf = Tail(b) /\ kbd'.out = <<Head(b)>>
      BY <1>1, <1>2, <2>3, <3>1, Zenon DEF Keys!Periodic, KbdType
    <3>3. b # << >>
      BY <2>3, <3>1
    <3>4. Keys!ToSet(b) = {Head(b)} \cup Keys!ToSet(Tail(b))
      BY <3>3, Beheaded
    <3>5. Keys!ToSet(kbd.out) = {} /\ Keys!ToSet(kbd'.out) = {Head(b)}
      BY <2>3, <3>2, ToSetNone, ToSetOne
    <3> QED BY <2>1, <3>1, <3>2, <3>4, <3>5 DEF AllCodes
  <2> QED BY <2>2, <2>3
<1>3. CASE Keys!ReadCode
  <2>1. handler = "read" /\ codeRead' = kbd.out /\ kbd' = Keys!Read(kbd)
    BY <1>3 DEF Keys!ReadCode, Keys!Goes
  <2>2. kbd'.buf = kbd.buf /\ kbd'.out = << >>
    BY <1>1, <2>1, ReadIs DEF Signals
  <2>3. codeRead = << >>
    BY <1>1, <2>1 DEF CpuTypes
  <2> QED BY <2>1, <2>2, <2>3, ToSetNone DEF AllCodes
<1>4. CASE Keys!Enter
  <2>1. PICK no \in BOOLEAN : no = FALSE
    OBVIOUS
  <2>2. kbd' = [kbd EXCEPT !.clock = no] /\ codeRead' = codeRead
    BY <1>4, <2>1 DEF Keys!Enter
  <2>3. kbd'.buf = kbd.buf /\ kbd'.out = kbd.out
    BY <1>1, <2>2, ClockSet
  <2> QED BY <2>2, <2>3, Zenon DEF AllCodes
<1>5. CASE Keys!Leave
  <2>1. kbd' = Keys!Enabled(kbd) /\ codeRead' = codeRead
    BY <1>5 DEF Keys!Leave
  <2>2. kbd'.buf = kbd.buf /\ kbd'.out = kbd.out
    BY <1>1, <2>1, EnabledIs
  <2> QED BY <2>1, <2>2, Zenon DEF AllCodes
<1>6. CASE Keys!Eoi \/ Keys!KeyFound \/ Keys!Take \/ Keys!Show
  <2>1. kbd' = kbd /\ codeRead' = codeRead
    BY <1>6 DEF Keys!Eoi, Keys!KeyFound, Keys!Take, Keys!Show
  <2> QED BY <2>1, Zenon DEF AllCodes
<1> QED BY <1>2, <1>3, <1>4, <1>5, <1>6

(* Outside the conversations about the lights no answer comes.             *)
LEMMA StaysSpare ==
    ASSUME Spare, hand'.patient = hand.patient, stopped' = stopped,
           keysPc \notin {"answer", "answered"}, keysPc' \notin {"answer", "answered"},
           \A c \in AllCodes' : c \in AllCodes \/ c.n # 0
    PROVE  Spare'
<1> SUFFICES ASSUME hand'.patient
             PROVE  ~stopped' /\ AllCodes' = Pending'
  BY DEF Spare
<1>1. ~stopped /\ AllCodes = Pending
  BY DEF Spare
<1>2. \A c \in AllCodes' : c.n # 0
  BY <1>1 DEF Pending
<1> QED BY <1>1, <1>2 DEF Pending

LEMMA EventSpare ==
    ASSUME KeysIInv, Spare, NEW key \in {"letter", "shift", "caps"}, NEW up \in BOOLEAN,
           Keys!Event(key, up)
    PROVE  Spare'
<1>1. KbdTypes /\ HandTypes
  BY DEF KeysIInv
<1>2. UNCHANGED <<codeRead, keysPc, stopped>> /\ (hand.patient => Keys!Quiet)
  BY DEF Keys!Event, Keys!cpu
<1>3. hand.events \in Nat /\ hand.events < MaxEvents
  BY <1>1, HandIs DEF Keys!Event
<1>4. PICK code : code = [n |-> hand.events + 1, key |-> key, up |-> up]
  OBVIOUS
<1>5. code \in Keys!Code /\ code.n # 0
  <2>1. hand.events + 1 \in 0 .. MaxEvents /\ hand.events + 1 # 0
    BY <1>3, Lengths
  <2> QED BY <1>4, <2>1 DEF Keys!Code
<1>6. kbd' = IF kbd.clock THEN Keys!EnQ(kbd, code) ELSE kbd
  BY <1>4, Zenon DEF Keys!Event
<1>7. \A c \in AllCodes' : c \in AllCodes \/ c.n # 0
  <2>1. CASE kbd' = kbd
    BY <1>2, <2>1 DEF AllCodes
  <2>2. CASE kbd' # kbd
    <3>1. ~Keys!Full(kbd) /\ kbd' = Keys!EnQ(kbd, code)
      BY <1>6, <2>2 DEF Keys!EnQ
    <3>2. kbd \in KbdType /\ kbd.buf \in Seq(Keys!Code)
      BY <1>1, KbdFields DEF KbdTypes
    <3>3. kbd'.buf = Append(kbd.buf, code) /\ kbd'.out = kbd.out
      BY <1>5, <3>1, <3>2, Queued
    <3>4. Keys!ToSet(kbd'.buf) = Keys!ToSet(kbd.buf) \cup {code}
      BY <1>5, <3>2, <3>3, AppendedSet
    <3> QED BY <1>2, <1>5, <3>3, <3>4 DEF AllCodes
  <2> QED BY <2>1, <2>2
<1>8. hand'.patient = hand.patient
  BY <1>1, Zenon DEF Keys!Event, HandTypes, HandType
<1>9. SUFFICES ASSUME hand.patient PROVE Spare'
  BY <1>8 DEF Spare
<1>10. keysPc = "wait"
  BY <1>2, <1>9 DEF Keys!Quiet
<1> QED BY <1>2, <1>7, <1>8, <1>10, StaysSpare

(* The timer.                                                              *)
LEMMA PeriodicSpare ==
    ASSUME KeysIInv, Spare, Keys!Periodic
    PROVE  Spare'
<1>1. KbdTypes /\ kbd \in KbdType
  BY DEF KeysIInv, KbdTypes
<1>2. UNCHANGED <<hand, keysPc, stopped>>
  BY DEF Keys!Periodic, Keys!cpu
<1>3. AllCodes' = AllCodes
  BY SameCodes
<1>4. kbd.buf \in Seq(Keys!Code) /\ Len(kbd.buf) \in Nat
  BY <1>1, KbdFields, SeqDomain
<1>5. /\ kbd.buf = << >> => kbd'.buf = << >>
      /\ Len(kbd'.buf) + Len(kbd'.out) = Len(kbd.buf) + Len(kbd.out)
  <2>1. CASE ~(kbd.timer /\ kbd.out = << >> /\ kbd.buf # << >> /\ kbd.clock)
    <3>1. kbd' = [kbd EXCEPT !.timer = FALSE, !.irq = FALSE]
      BY <2>1 DEF Keys!Periodic
    <3>2. kbd'.buf = kbd.buf /\ kbd'.out = kbd.out
      BY <1>1, <3>1, Zenon DEF KbdType
    <3> QED BY <3>2
  <2>2. CASE kbd.timer /\ kbd.out = << >> /\ kbd.buf # << >> /\ kbd.clock
    <3>1. PICK b \in Seq(Keys!Code) : b = kbd.buf
      BY <1>4
    <3>2. kbd'.buf = Tail(b) /\ kbd'.out = <<Head(b)>>
      BY <1>1, <2>2, <3>1, Zenon DEF Keys!Periodic, KbdType
    <3>3. b # << >> /\ Len(b) \in Nat
      BY <1>4, <2>2, <3>1
    <3>4. Len(Tail(b)) = Len(b) - 1
      BY <3>3, Beheaded
    <3>5. Len(kbd'.buf) = Len(b) - 1 /\ Len(kbd'.out) = 1 /\ Len(kbd.out) = 0
      BY <2>2, <3>2, <3>4
    <3> QED BY <2>2, <3>1, <3>3, <3>5
  <2> QED BY <2>1, <2>2
<1>6. CASE keysPc \notin {"answer", "answered"}
  BY <1>2, <1>3, <1>6, StaysSpare
<1>7. CASE keysPc \in {"answer", "answered"}
  <2> SUFFICES ASSUME hand.patient
               PROVE  ~stopped /\ (keysPc = "answer" => kbd'.buf = << >>)
                      /\ (keysPc = "answered" => Len(kbd'.buf) + Len(kbd'.out) <= 1)
    BY <1>2, <1>7 DEF Spare
  <2> QED BY <1>5 DEF Spare
<1> QED BY <1>6, <1>7

(* The command and the answers, when a patient typist waits.               *)
LEMMA NothingWaits ==
    ASSUME KeysIInv, Spare, hand.patient, keysPc \in {"command", "lights"}
    PROVE  kbd.buf = << >> /\ kbd.out = << >> /\ codeRead = << >>
<1>1. KbdTypes /\ CpuTypes /\ Conversation /\ Alone
  BY DEF KeysIInv
<1>2. ring # << >>
  BY <1>1 DEF Conversation, KeyPlaces
<1>3. AllCodes = {}
  BY <1>1, <1>2 DEF Alone, Spare
<1>4. kbd.buf \in Seq(Keys!Code) /\ kbd.out \in Seq(Keys!Code) /\ codeRead \in Seq(Keys!Code)
  BY <1>1, KbdFields DEF KbdTypes, CpuTypes
<1>5. \A s \in Seq(Keys!Code) : Keys!ToSet(s) = {} => s = << >>
  <2>1. TAKE s \in Seq(Keys!Code)
  <2>2. SUFFICES ASSUME s # << >> PROVE Keys!ToSet(s) # {}
    OBVIOUS
  <2>3. PICK t : t = Tail(s)
    OBVIOUS
  <2>4. Keys!ToSet(s) = {Head(s)} \cup Keys!ToSet(t)
    BY <2>2, <2>3, Beheaded
  <2> QED BY <2>4
<1> QED BY <1>3, <1>4, <1>5 DEF AllCodes

LEMMA SetLightsSpare ==
    ASSUME KeysIInv, Spare, Keys!SetLights
    PROVE  Spare'
<1>1. keysPc = "command" /\ keysPc' = "answer" /\ hand' = hand /\ stopped' = Keys!Full(kbd)
  BY DEF Keys!SetLights, Keys!Step
<1> SUFFICES ASSUME hand.patient
             PROVE  ~stopped' /\ kbd'.buf = << >>
  BY <1>1 DEF Spare
<1>2. kbd.buf = << >> /\ kbd \in KbdType
  BY <1>1, NothingWaits DEF KeysIInv, KbdTypes
<1>3. ~Keys!Full(kbd)
  <2>1. Len(kbd.buf) = 0
    BY <1>2
  <2> QED BY <2>1, Lengths DEF Keys!Full
<1>4. PICK e : e = Keys!Enabled(kbd)
  OBVIOUS
<1>5. e \in KbdType /\ e.buf = kbd.buf
  BY <1>2, <1>4, EnabledIs
<1>6. kbd' = Keys!EnQImm(e, Keys!Ack)
  BY <1>3, <1>4 DEF Keys!SetLights
<1>7. kbd'.buf = e.buf
  BY <1>5, <1>6, AckIsCode, Overwritten
<1> QED BY <1>1, <1>2, <1>3, <1>5, <1>7

LEMMA AnswersSpare ==
    ASSUME KeysIInv, Spare, Keys!Answer \/ Keys!Answered
    PROVE  Spare'
<1>1. /\ handler = "none" /\ keysPc \in {"answer", "answered"}
      /\ keysPc' \in {"lights", "take"} /\ kbd.out # << >>
      /\ kbd' = Keys!Read(kbd) /\ UNCHANGED <<hand, codeRead, stopped>>
  BY DEF Keys!Answer, Keys!Answered, Keys!Step
<1> SUFFICES ASSUME hand.patient
             PROVE  ~stopped /\ AllCodes' = Pending'
  BY <1>1 DEF Spare
<1>2. /\ kbd \in KbdType /\ CpuTypes /\ (kbd.irq => kbd.out # << >>)
      /\ kbd.buf \in Seq(Keys!Code) /\ kbd.out \in Seq(Keys!Code)
  BY KbdFields DEF KeysIInv, KbdTypes, Signals
<1>3. kbd'.buf = kbd.buf /\ kbd'.out = << >>
  BY <1>1, <1>2, ReadIs
<1>4. codeRead' = << >>
  BY <1>1, <1>2 DEF CpuTypes
<1>5. kbd.buf = << >>
  <2>1. CASE keysPc = "answer"
    BY <2>1 DEF Spare
  <2>2. CASE keysPc = "answered"
    <3>1. Len(kbd.buf) + Len(kbd.out) <= 1
      BY <2>2 DEF Spare
    <3>2. Len(kbd.out) \in Nat /\ Len(kbd.out) # 0 /\ Len(kbd.buf) \in Nat
      BY <1>1, <1>2, SeqDomain
    <3>3. PICK a \in Nat, b \in Nat : a = Len(kbd.buf) /\ b = Len(kbd.out)
      BY <3>2
    <3>4. a + b <= 1
      BY <3>1, <3>3, Zenon
    <3>5. b # 0
      BY <3>2, <3>3, Zenon
    <3>6. a = 0
      BY <3>4, <3>5
    <3> QED BY <1>2, <3>3, <3>6, SeqDomain
  <2> QED BY <1>1, <2>1, <2>2
<1>6. AllCodes' = {}
  BY <1>3, <1>4, <1>5, ToSetNone DEF AllCodes
<1> QED BY <1>6 DEF Spare, Pending

LEMMA LightsSpare ==
    ASSUME KeysIInv, Spare, Keys!Lights
    PROVE  Spare'
<1>1. /\ keysPc = "lights" /\ keysPc' = "answered" /\ UNCHANGED <<hand, stopped>>
      /\ kbd' = Keys!EnQ([Keys!Enabled(kbd) EXCEPT !.led = flags.caps], Keys!Ack)
  BY DEF Keys!Lights, Keys!Step
<1> SUFFICES ASSUME hand.patient
             PROVE  ~stopped /\ Len(kbd'.buf) + Len(kbd'.out) <= 1
  BY <1>1 DEF Spare
<1>2. kbd.buf = << >> /\ kbd.out = << >> /\ kbd \in KbdType /\ flags \in FlagsType
  BY <1>1, NothingWaits DEF KeysIInv, KbdTypes, CpuTypes
<1>3. PICK l \in BOOLEAN : l = flags.caps
  BY <1>2 DEF FlagsType
<1>4. PICK d, e : d = Keys!Enabled(kbd) /\ e = [d EXCEPT !.led = l]
  OBVIOUS
<1>5. d \in KbdType /\ d.buf = << >> /\ d.out = << >>
  BY <1>2, <1>4, EnabledIs
<1>6. e \in KbdType /\ e.buf = << >> /\ e.out = << >>
  BY <1>4, <1>5, LedSet
<1>7. kbd' = Keys!EnQ(e, Keys!Ack)
  BY <1>1, <1>3, <1>4
<1>8. ~Keys!Full(e)
  <2>1. Len(e.buf) = 0
    BY <1>6
  <2> QED BY <2>1, Lengths DEF Keys!Full
<1>9. kbd'.buf = Append(e.buf, Keys!Ack) /\ kbd'.out = e.out
  BY <1>6, <1>7, <1>8, AckIsCode, Queued
<1>10. Len(kbd'.buf) = 1 /\ Len(kbd'.out) = 0
  BY <1>6, <1>9
<1>11. PICK a \in Nat, b \in Nat : a = Len(kbd'.buf) /\ b = Len(kbd'.out)
  BY <1>10
<1>12. a + b <= 1
  BY <1>10, <1>11
<1>13. ~stopped
  BY DEF Spare
<1> QED BY <1>11, <1>12, <1>13

LEMMA SpareKeeps ==
    ASSUME KeysIInv, Spare, Keys!Next
    PROVE  Spare'
<1>1. CASE Keys!Typist
  BY <1>1, EventSpare DEF Keys!Typist
<1>2. CASE Keys!Periodic
  BY <1>2, PeriodicSpare
<1>3. CASE Keys!Enter \/ Keys!Handler
  <2>1. UNCHANGED <<hand, keysPc, stopped>>
    BY <1>3 DEF Keys!Enter, Keys!Handler, Keys!ReadCode, Keys!Process, Keys!Eoi, Keys!Leave
  <2>2. keysPc \notin {"answer", "answered"}
    <3>1. Conversation
      BY DEF KeysIInv
    <3>2. handler # "none" \/ open
      BY <1>3 DEF Keys!Enter, Keys!Handler, Keys!ReadCode, Keys!Process, Keys!Eoi,
                  Keys!Leave, Keys!Goes
    <3> QED BY <3>1, <3>2 DEF Conversation, LightsPlaces
  <2>3. AllCodes' \subseteq AllCodes
    <3>1. CASE Keys!Process
      <4>1. kbd' = kbd /\ codeRead' = << >>
        BY <3>1 DEF Keys!Process
      <4> QED BY <4>1, ToSetNone DEF AllCodes
    <3>2. CASE ~Keys!Process
      BY <1>3, <3>2, SameCodes DEF Keys!Handler
    <3> QED BY <3>1, <3>2
  <2> QED BY <2>1, <2>2, <2>3, StaysSpare
<1>4. CASE Keys!KeyFound \/ Keys!Take \/ Keys!Show
  <2>1. /\ keysPc \notin {"answer", "answered"} /\ keysPc' \notin {"answer", "answered"}
        /\ UNCHANGED <<hand, stopped>>
    BY <1>4 DEF Keys!KeyFound, Keys!Take, Keys!Show, Keys!Step
  <2>2. AllCodes' = AllCodes
    BY <1>4, SameCodes
  <2> QED BY <2>1, <2>2, StaysSpare
<1>5. CASE Keys!SetLights \/ Keys!Answer \/ Keys!Lights \/ Keys!Answered
  BY <1>5, SetLightsSpare, AnswersSpare, LightsSpare
<1> QED BY <1>1, <1>2, <1>3, <1>4, <1>5 DEF Keys!Next, Keys!Processor, Keys!Program

LEMMA SpareStarts == ASSUME Keys!Init PROVE Spare
<1>1. /\ kbd.buf = << >> /\ kbd.out = << >> /\ codeRead = << >> /\ keysPc = "wait" /\ stopped = FALSE
  BY DEF Keys!Init
<1>2. AllCodes = {}
  BY <1>1, ToSetNone DEF AllCodes
<1> QED BY <1>1, <1>2 DEF Spare, Pending

LEMMA SpareStays == ASSUME Spare, UNCHANGED Keys!vars PROVE Spare'
<1>1. UNCHANGED <<hand, kbd, codeRead, keysPc, stopped>>
  BY DEF Keys!vars, Keys!cpu
<1>2. UNCHANGED <<AllCodes, Pending>>
  BY <1>1, Zenon DEF AllCodes, Pending
<1> QED BY <1>1, <1>2, Zenon DEF Spare


-----------------------------------------------------------------------------
(* What follows for the keys.                                              *)
LEMMA Bounded ==
    \A S : \A m \in Nat : \A s \in Seq(S) : Len(s) <= m => s \in Keys!BoundedSeq(S, m)
<1> TAKE S
<1> TAKE m \in Nat
<1> TAKE s \in Seq(S)
<1>1. Len(s) \in Nat /\ s \in [1 .. Len(s) -> S]
  OBVIOUS
<1>2. ASSUME Len(s) <= m PROVE Len(s) \in 0 .. m
  BY <1>1, <1>2
<1> QED BY <1>1, <1>2 DEF Keys!BoundedSeq, Keys!SeqOf

LEMMA KeysTypesHold == ASSUME KeysIInv PROVE Keys!TypeOK
<1>1. HandTypes /\ KbdTypes /\ CpuTypes
  BY DEF KeysIInv
<1>2. kbd.buf \in Keys!BoundedSeq(Keys!Code, Elements) /\ kbd.out \in Keys!BoundedSeq(Keys!Code, 1)
  <2>1. kbd.buf \in Seq(Keys!Code) /\ kbd.out \in Seq(Keys!Code) /\ Len(kbd.buf) <= Elements /\ Len(kbd.out) <= 1
    BY <1>1, KbdFields DEF KbdTypes
  <2> QED BY <2>1, Bounded, Lengths
<1>3. /\ codeRead \in Keys!BoundedSeq(Keys!Code, 1) /\ ring \in Keys!BoundedSeq(Keys!Keys, Words - 1)
      /\ taken \in Keys!BoundedSeq(Keys!Keys, 1)
  <2>1. /\ codeRead \in Seq(Keys!Code) /\ Len(codeRead) <= 1 /\ ring \in Seq(Keys!Keys) /\ Len(ring) <= Words - 1
        /\ taken \in Seq(Keys!Keys) /\ Len(taken) <= 1
    BY <1>1 DEF CpuTypes
  <2>2. Words - 1 \in Nat
    BY Lengths
  <2> QED BY <2>1, <2>2, Bounded
<1>4. (handler = "process" <=> codeRead # << >>) /\ lost \subseteq 1 .. hand.events
  BY <1>1 DEF CpuTypes, HandTypes
<1>5. hand \in [down : SUBSET {"letter", "shift", "caps"}, caps : BOOLEAN,
                events : 0 .. MaxEvents, patient : BOOLEAN]
  BY <1>1 DEF HandTypes, HandType
<1> QED BY <1>2, <1>3, <1>4, <1>5 DEF Keys!TypeOK

LEMMA CaseHolds == ASSUME KeysIInv PROVE Keys!CaseAsTyped
<1> SUFFICES ASSUME lost = {} PROVE Keys!IsPrefix(Line, typed)
  BY DEF Keys!CaseAsTyped, Line
<1>1. HandTypes /\ CpuTypes /\ Story
  BY DEF KeysIInv
<1>2. PICK h \in [Nat -> Lamps], p \in 0 .. hand.events : StoryIs(h, p)
  BY <1>1 DEF Story
<1>3. /\ Len(Line) <= Len(typed)
      /\ \A i \in DOMAIN typed : IF i <= Len(Line) THEN typed[i] = Line[i] /\ typed[i].n <= p
                                 ELSE typed[i].n > p
  BY <1>2, Zenon DEF StoryIs
<1>4. /\ typed \in Seq(Keys!Keys) /\ Line \in Seq(Keys!Keys) /\ DOMAIN typed = 1 .. Len(typed)
      /\ Len(typed) \in Nat /\ Len(Line) \in Nat
  BY <1>1, HandIs, LineIs, SeqDomain
<1>5. \A i \in 1 .. Len(Line) : typed[i] = Line[i]
  BY <1>3, <1>4
<1>6. SubSeq(Line, 1, Len(Line)) = SubSeq(typed, 1, Len(Line))
  BY <1>3, <1>4, <1>5
<1> QED BY <1>3, <1>6 DEF Keys!IsPrefix

(* Nothing on its way: the firmware has seen every event.                  *)
LEMMA AllSeen ==
    ASSUME KeysIInv, lost = {}, Pending = {}
    PROVE  /\ flags.shift = ("shift" \in hand.down) /\ flags.caps = hand.caps
           /\ Line = typed
<1>1. HandTypes /\ CpuTypes /\ Story /\ TypedOrder
  BY DEF KeysIInv
<1>2. PICK h \in [Nat -> Lamps], p \in 0 .. hand.events : StoryIs(h, p)
  BY <1>1 DEF Story
<1>3. /\ h[hand.events] = [shift |-> "shift" \in hand.down, caps |-> hand.caps]
      /\ h[p] = [shift |-> flags.shift, caps |-> flags.caps]
      /\ { c.n : c \in Pending } = (p + 1) .. hand.events
  BY <1>2, Zenon DEF StoryIs
<1>4. /\ Len(Line) <= Len(typed)
      /\ \A i \in DOMAIN typed : IF i <= Len(Line) THEN typed[i] = Line[i] /\ typed[i].n <= p
                                 ELSE typed[i].n > p
  BY <1>2, Zenon DEF StoryIs
<1>5. /\ typed \in Seq(Keys!Keys) /\ Line \in Seq(Keys!Keys) /\ DOMAIN typed = 1 .. Len(typed)
      /\ Len(typed) \in Nat /\ Len(Line) \in Nat /\ hand.events \in Nat
  BY <1>1, HandIs, LineIs, SeqDomain
<1>6. p = hand.events
  <2>1. SUFFICES ASSUME p + 1 <= hand.events PROVE FALSE
    BY <1>5
  <2>2. hand.events \in (p + 1) .. hand.events
    BY <1>5, <2>1
  <2> QED BY <1>3, <2>2
<1>7. flags.shift = ("shift" \in hand.down) /\ flags.caps = hand.caps
  <2>1. h[p].shift = flags.shift /\ h[p].caps = flags.caps
    BY <1>3
  <2>2. h[hand.events].shift = ("shift" \in hand.down) /\ h[hand.events].caps = hand.caps
    BY <1>3
  <2> QED BY <1>6, <2>1, <2>2, Zenon
<1>8. Len(typed) = Len(Line)
  <2>1. SUFFICES ASSUME Len(typed) > Len(Line) PROVE FALSE
    BY <1>4, <1>5
  <2>2. Len(typed) \in DOMAIN typed /\ ~(Len(typed) <= Len(Line))
    BY <1>5, <2>1
  <2>3. typed[Len(typed)].n > p /\ typed[Len(typed)].n <= hand.events /\ typed[Len(typed)].n \in Nat
    BY <1>1, <1>4, <1>5, <2>2, KeyNumbers DEF TypedOrder
  <2> QED BY <1>5, <1>6, <2>3
<1>9. \A i \in 1 .. Len(Line) : Line[i] = typed[i]
  BY <1>4, <1>5, <1>8
<1> QED BY <1>5, <1>7, <1>8, <1>9, SeqEqual

LEMMA FlagsHold == ASSUME KeysIInv PROVE Keys!FlagsFollowHands
<1> SUFFICES ASSUME lost = {}, kbd.buf = << >>, kbd.out = << >>, codeRead = << >>
             PROVE  flags.shift = ("shift" \in hand.down) /\ flags.caps = hand.caps
  BY DEF Keys!FlagsFollowHands
<1>1. Pending = {}
  BY ToSetNone DEF Pending, AllCodes
<1> QED BY <1>1, AllSeen

LEMMA PatientHolds == ASSUME KeysIInv, Spare PROVE Keys!PatientLosesNothing
<1> SUFFICES ASSUME hand.patient, Keys!Quiet PROVE screen = typed
  BY DEF Keys!PatientLosesNothing, Spare
<1>1. Alone /\ CpuTypes /\ Conversation
  BY DEF KeysIInv
<1>2. /\ lost = {} /\ kbd.buf = << >> /\ kbd.out = << >> /\ codeRead = << >>
      /\ ring = << >> /\ taken = << >>
  BY <1>1 DEF Keys!Quiet, Alone, CpuTypes, Conversation
<1>3. Pending = {}
  BY <1>2, ToSetNone DEF Pending, AllCodes
<1>4. Line = screen
  <2>1. screen \in Seq(Keys!Keys) /\ screen \o << >> = screen
    BY <1>1, ConcatEmptySeq DEF CpuTypes
  <2> QED BY <1>2, <2>1 DEF Line
<1> QED BY <1>2, <1>3, <1>4, AllSeen

LEMMA KeysComeHolds ==
    ASSUME KeysIInv, Spare
    PROVE  /\ Keys!CaseAsTyped /\ Keys!FlagsFollowHands /\ Keys!AnswerIsRead /\ Keys!LightsAreKnown
           /\ Keys!PatientLosesNothing
BY CaseHolds, FlagsHold, PatientHolds DEF KeysIInv, Conversation


-----------------------------------------------------------------------------
(* The way of the keys is a lossy queue: every step puts a number on it,   *)
(* takes one away, shows the first or leaves it as it is.                  *)
Put ==
    \E n \in 1 .. MaxEvents :
        /\ \A m \in Keys!OnTheWay \cup Keys!ToSet(Keys!OnTheScreen) : m < n
        /\ Keys!OnTheWay' = Keys!OnTheWay \cup {n} /\ UNCHANGED Keys!OnTheScreen

Lose == \E n \in Keys!OnTheWay : Keys!OnTheWay' = Keys!OnTheWay \ {n} /\ UNCHANGED Keys!OnTheScreen

Shown ==
    \E n \in Keys!OnTheWay :
        /\ \A m \in Keys!OnTheWay : n <= m
        /\ Keys!OnTheWay' = Keys!OnTheWay \ {n} /\ Keys!OnTheScreen' = Append(Keys!OnTheScreen, n)

Passes == Put \/ Lose \/ Shown \/ UNCHANGED <<Keys!OnTheWay, Keys!OnTheScreen>>

Presses0(S) == { c.n : c \in { d \in S : IsPress(d) } }

Underway == { k.n : k \in Keys!ToSet(taken) \cup Keys!ToSet(ring) } \cup Presses0(AllCodes)

LEMMA ThreeSets ==
    \A S : \A a, o, b \in Seq(S) :
        Keys!ToSet(a \o o \o b) = Keys!ToSet(a) \cup Keys!ToSet(o) \cup Keys!ToSet(b)
<1> TAKE S
<1> TAKE a, o, b \in Seq(S)
<1>1. PICK s \in Seq(S) : s = a \o o
  BY ConcatProperties
<1>2. Keys!ToSet(s) = Keys!ToSet(a) \cup Keys!ToSet(o)
  BY <1>1, ConcatSet
<1>3. Keys!ToSet(s \o b) = Keys!ToSet(s) \cup Keys!ToSet(b)
  BY ConcatSet
<1> QED BY <1>1, <1>2, <1>3

LEMMA WayIs == ASSUME KbdTypes, CpuTypes PROVE Keys!OnTheWay = Underway
<1>1. /\ taken \in Seq(Keys!Keys) /\ ring \in Seq(Keys!Keys) /\ codeRead \in Seq(Keys!Code)
      /\ kbd.out \in Seq(Keys!Code) /\ kbd.buf \in Seq(Keys!Code)
  BY KbdFields DEF KbdTypes, CpuTypes
<1>2. Keys!ToSet(taken \o ring) = Keys!ToSet(taken) \cup Keys!ToSet(ring)
  BY <1>1, ConcatSet
<1>3. Keys!ToSet(codeRead \o kbd.out \o kbd.buf) = AllCodes
  BY <1>1, ThreeSets DEF AllCodes
<1> QED BY <1>2, <1>3, Zenon DEF Keys!OnTheWay, Underway, Keys!Presses, Presses0,
           IsPress

LEMMA WayWillBe == ASSUME KbdTypes', CpuTypes' PROVE Keys!OnTheWay' = Underway'
<1>1. /\ taken' \in Seq(Keys!Keys) /\ ring' \in Seq(Keys!Keys) /\ codeRead' \in Seq(Keys!Code)
      /\ kbd'.out \in Seq(Keys!Code) /\ kbd'.buf \in Seq(Keys!Code)
  BY KbdFields DEF KbdTypes, CpuTypes
<1>2. Keys!ToSet(taken' \o ring') = Keys!ToSet(taken') \cup Keys!ToSet(ring')
  BY <1>1, ConcatSet
<1>3. Keys!ToSet(codeRead' \o kbd'.out \o kbd'.buf) = AllCodes'
  BY <1>1, ThreeSets DEF AllCodes
<1> QED BY <1>2, <1>3, Zenon DEF Keys!OnTheWay, Underway, Keys!Presses, Presses0,
           IsPress

LEMMA InWay ==
    \A x : x \in Underway <=> \/ \E k \in Keys!ToSet(taken) \cup Keys!ToSet(ring) : k.n = x
                              \/ \E c \in AllCodes : IsPress(c) /\ c.n = x
BY DEF Underway, Presses0

LEMMA WillBeInWay ==
    \A x : x \in Underway' <=> \/ \E k \in Keys!ToSet(taken') \cup Keys!ToSet(ring') : k.n = x
                               \/ \E c \in AllCodes' : IsPress(c) /\ c.n = x
BY DEF Underway, Presses0

LEMMA ScreenStays == ASSUME screen' = screen PROVE UNCHANGED Keys!OnTheScreen
BY DEF Keys!OnTheScreen

LEMMA PressesPending ==
    ASSUME KeysIInv
    PROVE  \A c \in AllCodes : IsPress(c) => c \in Pending
BY DEF KeysIInv, CodesOrder, Pending, IsPress

LEMMA Distinct ==
    ASSUME KeysIInv, NEW c \in Pending, NEW d \in Pending, c # d
    PROVE  c.n # d.n
<1>1. CodesOrder /\ KbdTypes /\ CpuTypes
  BY DEF KeysIInv
<1>2. /\ \A e \in Pending : e.n \in Nat /\ e.n # 0
      /\ c \in AllCodes /\ d \in AllCodes
  BY <1>1, CodesAre DEF Pending
<1>3. /\ kbd.buf \in Seq(Keys!Code) /\ DOMAIN kbd.buf = 1 .. Len(kbd.buf) /\ Len(kbd.buf) \in Nat
      /\ codeRead \in Seq(Keys!Code) /\ Len(codeRead) <= 1 /\ kbd.out \in Seq(Keys!Code) /\ Len(kbd.out) <= 1
  BY <1>1, KbdFields, SeqDomain DEF KbdTypes, CpuTypes
<1>4. CASE c \in Keys!ToSet(kbd.buf) /\ d \in Keys!ToSet(kbd.buf)
  <2>1. PICK i \in 1 .. Len(kbd.buf) : c = kbd.buf[i]
    BY <1>3, <1>4, ToSetMember
  <2>2. PICK j \in 1 .. Len(kbd.buf) : d = kbd.buf[j]
    BY <1>3, <1>4, ToSetMember
  <2>3. i < j \/ j < i
    BY <1>3, <2>1, <2>2
  <2>4. \A x, y \in 1 .. Len(kbd.buf) :
            x < y /\ kbd.buf[x].n # 0 /\ kbd.buf[y].n # 0 => kbd.buf[x].n < kbd.buf[y].n
    BY <1>1, <1>3 DEF CodesOrder, Ordered
  <2>5. kbd.buf[i].n \in Nat \ {0} /\ kbd.buf[j].n \in Nat \ {0}
    BY <1>2, <2>1, <2>2
  <2>6. kbd.buf[i].n < kbd.buf[j].n \/ kbd.buf[j].n < kbd.buf[i].n
    BY <2>3, <2>4, <2>5
  <2> QED BY <2>1, <2>2, <2>5, <2>6
<1>5. CASE c \in Keys!ToSet(codeRead) /\ d \in Keys!ToSet(codeRead)
  <2>1. codeRead # << >>
    BY <1>5, ToSetNone
  <2>2. Keys!ToSet(codeRead) = {Head(codeRead)}
    BY <1>3, <2>1, Single
  <2> QED BY <1>5, <2>2
<1>6. CASE c \in Keys!ToSet(kbd.out) /\ d \in Keys!ToSet(kbd.out)
  <2>1. kbd.out # << >>
    BY <1>6, ToSetNone
  <2>2. Keys!ToSet(kbd.out) = {Head(kbd.out)}
    BY <1>3, <2>1, Single
  <2> QED BY <1>6, <2>2
<1>7. /\ Before(Keys!ToSet(codeRead), Keys!ToSet(kbd.out)) /\ Before(Keys!ToSet(codeRead), Keys!ToSet(kbd.buf))
      /\ Before(Keys!ToSet(kbd.out), Keys!ToSet(kbd.buf))
  BY <1>1 DEF CodesOrder
<1> QED BY <1>2, <1>4, <1>5, <1>6, <1>7 DEF AllCodes, Before

(* The same presses, the same keys.                                        *)
LEMMA WayStays ==
    ASSUME KeysIInv, KeysIInv', screen' = screen,
           Keys!ToSet(taken') \cup Keys!ToSet(ring') = Keys!ToSet(taken) \cup Keys!ToSet(ring),
           \A c : IsPress(c) => (c \in AllCodes' <=> c \in AllCodes)
    PROVE  UNCHANGED <<Keys!OnTheWay, Keys!OnTheScreen>>
<1>1. \A x : x \in Underway' <=> x \in Underway
  BY InWay, WillBeInWay
<1>2. Underway' = Underway
  BY <1>1
<1>3. Keys!OnTheWay = Underway /\ Keys!OnTheWay' = Underway'
  BY WayIs, WayWillBe DEF KeysIInv
<1> QED BY <1>2, <1>3, ScreenStays

(* One press less.                                                         *)
LEMMA WayLoses ==
    ASSUME KeysIInv, KeysIInv', UNCHANGED <<screen, taken, ring>>, NEW x \in AllCodes, IsPress(x),
           \A c : IsPress(c) => (c \in AllCodes' <=> c \in AllCodes /\ c # x)
    PROVE  Lose
<1>1. x \in Pending
  BY PressesPending
<1>2. \A c \in AllCodes : IsPress(c) /\ c # x => c.n # x.n
  BY <1>1, PressesPending, Distinct
<1>3. \A k \in Keys!ToSet(taken) \cup Keys!ToSet(ring) : k.n # x.n
  <2>1. \A k \in Keys!ToSet(Line) : k.n < x.n
    BY <1>1 DEF KeysIInv, LineOrder
  <2>2. Keys!ToSet(taken) \cup Keys!ToSet(ring) \subseteq Keys!ToSet(Line)
    BY LineHas DEF KeysIInv
  <2>3. x.n \in Nat
    BY <1>1, CodesAre DEF KeysIInv
  <2>4. \A k \in Keys!ToSet(Line) : k.n \in Nat
    BY LineIs, SeqDomain, KeyNumbers DEF KeysIInv
  <2> QED BY <2>1, <2>2, <2>3, <2>4
<1>4. Underway' = Underway \ {x.n}
  <2>1. ASSUME NEW y \in Underway' PROVE y \in Underway \ {x.n}
    BY <1>2, <1>3, <2>1, InWay, WillBeInWay
  <2>2. ASSUME NEW y \in Underway, y # x.n PROVE y \in Underway'
    BY <2>2, InWay, WillBeInWay
  <2> QED BY <2>1, <2>2
<1>5. x.n \in Underway
  BY InWay
<1>6. Keys!OnTheWay = Underway /\ Keys!OnTheWay' = Underway'
  BY WayIs, WayWillBe DEF KeysIInv
<1>7. UNCHANGED Keys!OnTheScreen
  BY ScreenStays
<1> QED BY <1>4, <1>5, <1>6, <1>7 DEF Lose


LEMMA QuietPass ==
    ASSUME KeysIInv, KeysIInv', UNCHANGED <<screen, taken, ring>>, AllCodes' = AllCodes
    PROVE  UNCHANGED <<Keys!OnTheWay, Keys!OnTheScreen>>
BY WayStays

LEMMA EventPasses ==
    ASSUME KeysIInv, KeysIInv', NEW key \in {"letter", "shift", "caps"}, NEW up \in BOOLEAN,
           Keys!Event(key, up)
    PROVE  Passes
<1>1. HandTypes /\ KbdTypes /\ CpuTypes /\ LineOrder
  BY DEF KeysIInv
<1>2. /\ hand.events < MaxEvents
      /\ UNCHANGED <<flags, ring, handler, codeRead, keysPc, open, taken, screen>>
  BY DEF Keys!Event, Keys!cpu
<1>3. hand.events \in Nat
  BY <1>1, HandIs
<1>4. PICK n \in Nat : n = hand.events + 1
  BY <1>3
<1>5. n \in 1 .. MaxEvents /\ n \in 0 .. MaxEvents
  BY <1>2, <1>3, <1>4, Lengths
<1>6. PICK code : code = [n |-> n, key |-> key, up |-> up]
  OBVIOUS
<1>7. code \in Keys!Code /\ code.n = n
  BY <1>5, <1>6 DEF Keys!Code
<1>8. kbd' = IF kbd.clock THEN Keys!EnQ(kbd, code) ELSE kbd
  BY <1>4, <1>6, Zenon DEF Keys!Event
<1>9. CASE kbd' = kbd
  <2>1. AllCodes' = AllCodes
    BY <1>2, <1>9 DEF AllCodes
  <2> QED BY <1>2, <2>1, QuietPass DEF Passes
<1>10. CASE kbd' # kbd
  <2>1. ~Keys!Full(kbd) /\ kbd' = Keys!EnQ(kbd, code)
    BY <1>8, <1>10 DEF Keys!EnQ
  <2>2. kbd \in KbdType /\ kbd.buf \in Seq(Keys!Code)
    BY <1>1, KbdFields DEF KbdTypes
  <2>3. kbd'.buf = Append(kbd.buf, code) /\ kbd'.out = kbd.out
    BY <1>7, <2>1, <2>2, Queued
  <2>4. Keys!ToSet(kbd'.buf) = Keys!ToSet(kbd.buf) \cup {code}
    BY <1>7, <2>2, <2>3, AppendedSet
  <2>5. AllCodes' = AllCodes \cup {code}
    BY <1>2, <2>3, <2>4 DEF AllCodes
  <2>6. CASE ~IsPress(code)
    <3>1. \A c : IsPress(c) => (c \in AllCodes' <=> c \in AllCodes)
      BY <2>5, <2>6
    <3>2. UNCHANGED <<screen, taken, ring>>
      BY <1>2
    <3> QED BY <3>1, <3>2, WayStays DEF Passes
  <2>7. CASE IsPress(code)
    <3>1. Underway' = Underway \cup {n}
      <4>1. UNCHANGED <<taken, ring>>
        BY <1>2
      <4>2. \A x : x \in Underway' <=> x \in Underway \/ x = n
        BY <1>7, <2>5, <2>7, <4>1, InWay, WillBeInWay
      <4> QED BY <4>2
    <3>2. Keys!OnTheWay = Underway /\ Keys!OnTheWay' = Underway'
      BY WayIs, WayWillBe DEF KeysIInv
    <3>3. UNCHANGED Keys!OnTheScreen
      BY <1>2, ScreenStays
    <3>4. \A k \in Keys!ToSet(Line) : k.n < n
      <4>1. Line \in Seq(Keys!Keys)
        BY <1>1, LineIs
      <4>2. \A k \in Keys!ToSet(Line) : k.n \in Nat
        BY <4>1, SeqDomain, KeyNumbers
      <4> QED BY <1>1, <1>3, <1>4, <4>2 DEF LineOrder
    <3>5. Keys!ToSet(Line) = Keys!ToSet(screen) \cup Keys!ToSet(taken) \cup Keys!ToSet(ring)
      BY <1>1, LineHas
    <3>6. \A m \in Underway : m < n
      <4>1. TAKE m \in Underway
      <4>2. CASE \E k \in Keys!ToSet(taken) \cup Keys!ToSet(ring) : k.n = m
        BY <3>4, <3>5, <4>2
      <4>3. CASE \E c \in AllCodes : IsPress(c) /\ c.n = m
        <5>1. PICK c \in Pending : c.n = m
          BY <4>3, PressesPending
        <5>2. c.n \in Nat /\ c.n <= hand.events
          BY <1>1, CodesAre DEF LineOrder
        <5> QED BY <1>3, <1>4, <5>1, <5>2
      <4> QED BY <4>2, <4>3, InWay
    <3>7. \A m \in Keys!ToSet(Keys!OnTheScreen) : m < n
      <4>1. TAKE m \in Keys!ToSet(Keys!OnTheScreen)
      <4>2. PICK i \in DOMAIN Keys!OnTheScreen : m = Keys!OnTheScreen[i]
        BY ToSetMember
      <4>3. i \in DOMAIN screen /\ m = screen[i].n
        BY <4>2 DEF Keys!OnTheScreen
      <4>4. screen[i] \in Keys!ToSet(screen)
        BY <4>3, ToSetMember
      <4> QED BY <3>4, <3>5, <4>3, <4>4
    <3> QED BY <1>5, <3>1, <3>2, <3>3, <3>6, <3>7 DEF Passes, Put
  <2> QED BY <2>6, <2>7
<1> QED BY <1>9, <1>10

LEMMA PeriodicPasses ==
    ASSUME KeysIInv, KeysIInv', Keys!Periodic
    PROVE  Passes
<1>1. UNCHANGED <<screen, taken, ring>>
  BY DEF Keys!Periodic, Keys!cpu
<1> QED BY <1>1, SameCodes, QuietPass DEF Passes

(* The handler.                                                            *)
LEMMA ProcessPasses ==
    ASSUME KeysIInv, KeysIInv', Keys!Process
    PROVE  Passes
<1>1. /\ HandTypes /\ KbdTypes /\ CpuTypes /\ CodesOrder /\ LineOrder
  BY DEF KeysIInv
<1>2. /\ handler = "process" /\ codeRead' = << >>
      /\ UNCHANGED <<hand, typed, kbd, irq1, keysPc, open, taken, screen, stopped>>
  BY DEF Keys!Process, Keys!Goes
<1>3. PICK c : c = Head(codeRead)
  OBVIOUS
<1>4. c \in Keys!Code /\ Keys!ToSet(codeRead) = {c}
  <2>1. codeRead \in Seq(Keys!Code) /\ Len(codeRead) <= 1 /\ codeRead # << >>
    BY <1>1, <1>2 DEF CpuTypes
  <2> QED BY <1>3, <2>1, Single
<1>5. PICK k : k = [n |-> c.n, capital |-> flags.shift # flags.caps]
  OBVIOUS
<1>6. ring' = IF IsPress(c) /\ ~Keys!RingFull THEN Append(ring, k) ELSE ring
  BY <1>3, <1>5 DEF Keys!Process, Keys!Capital, IsPress
<1>7. AllCodes = {c} \cup AllCodes' /\ AllCodes' = Keys!ToSet(kbd.out) \cup Keys!ToSet(kbd.buf)
  <2>1. Keys!ToSet(codeRead') = {} /\ kbd' = kbd
    BY <1>2, ToSetNone
  <2> QED BY <1>4, <2>1 DEF AllCodes
<1>8. IsPress(c) => c \in Pending /\ c.n \in Nat /\ c.n # 0 /\ c \notin AllCodes'
  <2>1. SUFFICES ASSUME IsPress(c) PROVE c \in Pending /\ c.n \in Nat /\ c.n # 0 /\ c \notin AllCodes'
    OBVIOUS
  <2>2. c \in Pending
    BY <1>7, <2>1, PressesPending
  <2>3. c.n \in Nat /\ c.n # 0
    BY <1>1, <2>2, CodesAre
  <2>4. Before({c}, Keys!ToSet(kbd.out)) /\ Before({c}, Keys!ToSet(kbd.buf))
    BY <1>1, <1>4 DEF CodesOrder
  <2>5. c \notin AllCodes'
    BY <1>7, <2>3, <2>4 DEF Before
  <2> QED BY <2>2, <2>3, <2>5
<1>9. CASE ~IsPress(c)
  <2>1. UNCHANGED <<screen, taken, ring>>
    BY <1>2, <1>6, <1>9
  <2>2. \A d : IsPress(d) => (d \in AllCodes' <=> d \in AllCodes)
    BY <1>7, <1>9
  <2> QED BY <2>1, <2>2, WayStays DEF Passes
<1>10. CASE IsPress(c) /\ Keys!RingFull
  <2>1. UNCHANGED <<screen, taken, ring>>
    BY <1>2, <1>6, <1>10
  <2>2. \A d : IsPress(d) => (d \in AllCodes' <=> d \in AllCodes /\ d # c)
    BY <1>7, <1>8, <1>10
  <2>3. c \in AllCodes
    BY <1>7
  <2> QED BY <1>10, <2>1, <2>2, <2>3, WayLoses DEF Passes
<1>11. CASE IsPress(c) /\ ~Keys!RingFull
  <2>1. k \in Keys!Keys /\ k.n = c.n
    <3>1. c.n <= hand.events /\ hand.events \in Nat /\ hand.events <= MaxEvents
      BY <1>1, <1>8, <1>11, HandIs DEF LineOrder
    <3>2. c.n \in 1 .. MaxEvents
      BY <1>8, <1>11, <3>1, Lengths
    <3>3. (flags.shift # flags.caps) \in BOOLEAN
      OBVIOUS
    <3> QED BY <1>5, <3>2, <3>3 DEF Keys!Keys
  <2>2. ring \in Seq(Keys!Keys)
    BY <1>1 DEF CpuTypes
  <2>3. Keys!ToSet(Append(ring, k)) = Keys!ToSet(ring) \cup {k}
    BY <2>1, <2>2, AppendedSet
  <2>4. Keys!ToSet(taken') \cup Keys!ToSet(ring') = Keys!ToSet(taken) \cup Keys!ToSet(ring) \cup {k}
    BY <1>2, <1>6, <1>11, <2>3
  <2>5. \A x : x \in Underway' <=> x \in Underway
    <3>1. TAKE x
    <3>2. ASSUME x \in Underway' PROVE x \in Underway
      <4>1. CASE \E j \in Keys!ToSet(taken') \cup Keys!ToSet(ring') : j.n = x
        <5>1. PICK j \in Keys!ToSet(taken) \cup Keys!ToSet(ring) \cup {k} : j.n = x
          BY <2>4, <4>1
        <5>2. CASE j = k
          <6>1. c \in AllCodes /\ IsPress(c) /\ c.n = x
            BY <1>7, <1>11, <2>1, <5>1, <5>2
          <6> QED BY <6>1, InWay
        <5>3. CASE j # k
          BY <5>1, <5>3, InWay
        <5> QED BY <5>2, <5>3
      <4>2. CASE \E d \in AllCodes' : IsPress(d) /\ d.n = x
        BY <1>7, <4>2, InWay
      <4> QED BY <3>2, <4>1, <4>2, WillBeInWay
    <3>3. ASSUME x \in Underway PROVE x \in Underway'
      <4>1. CASE \E j \in Keys!ToSet(taken) \cup Keys!ToSet(ring) : j.n = x
        BY <2>4, <4>1, WillBeInWay
      <4>2. CASE \E d \in AllCodes : IsPress(d) /\ d.n = x
        <5>1. PICK d \in AllCodes : IsPress(d) /\ d.n = x
          BY <4>2
        <5>2. CASE d = c
          <6>1. k \in Keys!ToSet(taken') \cup Keys!ToSet(ring') /\ k.n = x
            BY <2>1, <2>4, <5>1, <5>2
          <6> QED BY <6>1, WillBeInWay
        <5>3. CASE d # c
          <6>1. d \in AllCodes'
            BY <1>7, <5>1, <5>3
          <6> QED BY <5>1, <6>1, WillBeInWay
        <5> QED BY <5>2, <5>3
      <4> QED BY <3>3, <4>1, <4>2, InWay
    <3> QED BY <3>2, <3>3
  <2>6. Keys!OnTheWay = Underway /\ Keys!OnTheWay' = Underway'
    BY WayIs, WayWillBe DEF KeysIInv
  <2>7. UNCHANGED Keys!OnTheScreen
    BY <1>2, ScreenStays
  <2>8. Underway' = Underway
    BY <2>5
  <2> QED BY <2>6, <2>7, <2>8 DEF Passes
<1> QED BY <1>9, <1>10, <1>11

LEMMA ReadCodePasses ==
    ASSUME KeysIInv, KeysIInv', Keys!ReadCode
    PROVE  Passes
<1>1. UNCHANGED <<screen, taken, ring>>
  BY DEF Keys!ReadCode
<1> QED BY <1>1, SameCodes, QuietPass DEF Passes

(* The program.                                                            *)
LEMMA DroppedPasses ==
    ASSUME KeysIInv, KeysIInv', UNCHANGED <<codeRead, ring, taken, screen>>, kbd'.buf = kbd.buf,
           Keys!ToSet(kbd'.out) \subseteq {Keys!Ack}
    PROVE  Passes
<1>1. KbdTypes /\ CpuTypes /\ CodesOrder
  BY DEF KeysIInv
<1>2. ~IsPress(Keys!Ack)
  BY AckIsCode DEF IsPress
<1>3. \A d : IsPress(d) => (d \in AllCodes' <=> d \in Keys!ToSet(codeRead) \cup Keys!ToSet(kbd.buf))
  BY <1>2 DEF AllCodes
<1>4. kbd.out \in Seq(Keys!Code) /\ Len(kbd.out) <= 1
  BY <1>1, KbdFields DEF KbdTypes
<1>5. CASE \E x \in Keys!ToSet(kbd.out) : IsPress(x)
  <2>1. PICK x \in Keys!ToSet(kbd.out) : IsPress(x)
    BY <1>5
  <2>2. Keys!ToSet(kbd.out) = {x}
    <3>1. kbd.out # << >>
      BY <2>1, ToSetNone
    <3>2. Keys!ToSet(kbd.out) = {Head(kbd.out)}
      BY <1>4, <3>1, Single
    <3> QED BY <2>1, <3>2
  <2>3. x \in AllCodes
    BY <2>2 DEF AllCodes
  <2>4. x.n \in Nat /\ x.n # 0
    BY <1>1, <2>1, <2>3, PressesPending, CodesAre
  <2>5. Before(Keys!ToSet(codeRead), {x}) /\ Before({x}, Keys!ToSet(kbd.buf))
    BY <1>1, <2>2 DEF CodesOrder
  <2>6. x \notin Keys!ToSet(codeRead) /\ x \notin Keys!ToSet(kbd.buf)
    BY <2>4, <2>5 DEF Before
  <2>7. \A d : IsPress(d) => (d \in AllCodes' <=> d \in AllCodes /\ d # x)
    BY <1>3, <2>2, <2>6 DEF AllCodes
  <2>8. UNCHANGED <<screen, taken, ring>>
    OBVIOUS
  <2> QED BY <2>1, <2>3, <2>7, <2>8, WayLoses DEF Passes
<1>6. CASE ~\E x \in Keys!ToSet(kbd.out) : IsPress(x)
  <2>1. \A d : IsPress(d) => (d \in AllCodes' <=> d \in AllCodes)
    BY <1>3, <1>6 DEF AllCodes
  <2>2. UNCHANGED <<screen, taken, ring>>
    OBVIOUS
  <2> QED BY <2>1, <2>2, WayStays DEF Passes
<1> QED BY <1>5, <1>6


LEMMA LightsPass ==
    ASSUME KeysIInv, KeysIInv', Keys!Lights
    PROVE  Passes
<1>1. KbdTypes /\ KbdTypes' /\ flags \in FlagsType
  BY DEF KeysIInv, CpuTypes
<1>2. /\ kbd' = Keys!EnQ([Keys!Enabled(kbd) EXCEPT !.led = flags.caps], Keys!Ack)
      /\ UNCHANGED <<codeRead, screen, taken, ring>>
  BY DEF Keys!Lights
<1>3. PICK l \in BOOLEAN : l = flags.caps
  BY <1>1 DEF FlagsType
<1>4. PICK d, e : d = Keys!Enabled(kbd) /\ e = [d EXCEPT !.led = l]
  OBVIOUS
<1>5. d \in KbdType /\ d.buf = kbd.buf /\ d.out = kbd.out
  BY <1>1, <1>4, EnabledIs DEF KbdTypes
<1>6. e \in KbdType /\ e.buf = d.buf /\ e.out = d.out
  BY <1>4, <1>5, LedSet
<1>7. kbd' = Keys!EnQ(e, Keys!Ack)
  BY <1>2, <1>3, <1>4
<1>8. kbd'.out = kbd.out /\ Keys!ToSet(kbd.buf) \subseteq Keys!ToSet(kbd'.buf)
      /\ Keys!ToSet(kbd'.buf) \subseteq Keys!ToSet(kbd.buf) \cup {Keys!Ack}
  <2>1. CASE Keys!Full(e)
    <3>1. kbd' = e
      BY <1>7, <2>1 DEF Keys!EnQ
    <3> QED BY <1>5, <1>6, <3>1
  <2>2. CASE ~Keys!Full(e)
    <3>1. kbd'.buf = Append(e.buf, Keys!Ack) /\ kbd'.out = e.out
      BY <1>6, <1>7, <2>2, AckIsCode, Queued
    <3>2. e.buf \in Seq(Keys!Code)
      BY <1>6, KbdFields
    <3>3. Keys!ToSet(Append(e.buf, Keys!Ack)) = Keys!ToSet(e.buf) \cup {Keys!Ack}
      BY <3>2, AckIsCode, AppendedSet
    <3> QED BY <1>5, <1>6, <3>1, <3>3
  <2> QED BY <2>1, <2>2
<1>9. ~IsPress(Keys!Ack)
  BY AckIsCode DEF IsPress
<1>10. \A c : IsPress(c) => (c \in AllCodes' <=> c \in AllCodes)
  BY <1>2, <1>8, <1>9 DEF AllCodes
<1> QED BY <1>2, <1>10, WayStays DEF Passes

LEMMA TakePasses ==
    ASSUME KeysIInv, KeysIInv', Keys!Take
    PROVE  Passes
<1>1. CpuTypes /\ Conversation
  BY DEF KeysIInv
<1>2. /\ keysPc = "take" /\ taken' = <<Head(ring)>> /\ ring' = Tail(ring)
      /\ UNCHANGED <<kbd, codeRead, screen>>
  BY DEF Keys!Take, Keys!Step, Keys!Dequeued
<1>3. PICK r \in Seq(Keys!Keys) : r = ring
  BY <1>1 DEF CpuTypes
<1>4. r # << >> /\ taken = << >>
  BY <1>1, <1>2, <1>3 DEF Conversation, KeyPlaces
<1>5. Keys!ToSet(r) = {Head(r)} \cup Keys!ToSet(Tail(r))
  BY <1>4, Beheaded
<1>6. Keys!ToSet(taken) = {} /\ Keys!ToSet(taken') = {Head(r)}
  BY <1>2, <1>3, <1>4, ToSetNone, ToSetOne
<1>7. Keys!ToSet(taken') \cup Keys!ToSet(ring') = Keys!ToSet(taken) \cup Keys!ToSet(ring)
  BY <1>2, <1>3, <1>5, <1>6
<1>8. AllCodes' = AllCodes
  BY <1>2, Zenon DEF AllCodes
<1> QED BY <1>2, <1>7, <1>8, WayStays DEF Passes

LEMMA ShowPasses ==
    ASSUME KeysIInv, KeysIInv', Keys!Show
    PROVE  Passes
<1>1. KbdTypes /\ CpuTypes /\ Conversation /\ KeysOrder /\ LineOrder
  BY DEF KeysIInv
<1>2. /\ keysPc = "show" /\ taken' = << >> /\ screen' = screen \o taken
      /\ UNCHANGED <<kbd, codeRead, ring>>
  BY DEF Keys!Show, Keys!Step
<1>3. PICK k \in Keys!Keys : taken = <<k>> /\ Keys!ToSet(taken) = {k}
  <2>1. taken \in Seq(Keys!Keys) /\ Len(taken) <= 1 /\ taken # << >>
    BY <1>1, <1>2 DEF CpuTypes, Conversation
  <2>2. taken = <<Head(taken)>> /\ Head(taken) \in Keys!Keys /\ Keys!ToSet(taken) = {Head(taken)}
    BY <2>1, Single
  <2> QED BY <2>2
<1>4. k.n \in Nat /\ k.n # 0
  BY KeyNumbers
<1>5. Keys!ToSet(taken') = {} /\ AllCodes' = AllCodes
  BY <1>2, ToSetNone DEF AllCodes
<1>6. \A j \in Keys!ToSet(ring) : k.n < j.n
  <2>1. ring \in Seq(Keys!Keys)
    BY <1>1 DEF CpuTypes
  <2>2. \A j \in Keys!ToSet(ring) : j.n # 0
    BY <2>1, SeqDomain, KeyNumbers
  <2>3. Before({k}, Keys!ToSet(ring))
    BY <1>1, <1>3 DEF KeysOrder
  <2> QED BY <1>4, <2>2, <2>3 DEF Before
<1>7. \A c \in AllCodes : IsPress(c) => k.n < c.n
  <2>1. k \in Keys!ToSet(Line)
    BY <1>1, <1>3, LineHas
  <2> QED BY <1>1, <2>1, PressesPending DEF LineOrder
<1>8. \A x : x \in Underway => x = k.n \/ k.n < x
  <2>1. TAKE x
  <2>2. CASE \E j \in Keys!ToSet(taken) \cup Keys!ToSet(ring) : j.n = x
    BY <1>3, <1>6, <2>2
  <2>3. CASE \E c \in AllCodes : IsPress(c) /\ c.n = x
    BY <1>7, <2>3
  <2> QED BY <2>2, <2>3, InWay
<1>9. \A x : x \in Underway' => k.n < x /\ x \in Underway
  <2>1. TAKE x
  <2>2. ring' = ring
    BY <1>2
  <2>3. CASE \E j \in Keys!ToSet(taken') \cup Keys!ToSet(ring') : j.n = x
    BY <1>5, <1>6, <2>2, <2>3, InWay
  <2>4. CASE \E c \in AllCodes' : IsPress(c) /\ c.n = x
    BY <1>5, <1>7, <2>4, InWay
  <2> QED BY <2>3, <2>4, WillBeInWay
<1>10. \A x \in Underway : x # k.n => x \in Underway'
  <2>1. TAKE x \in Underway
  <2>2. ring' = ring
    BY <1>2
  <2>3. CASE \E j \in Keys!ToSet(taken) \cup Keys!ToSet(ring) : j.n = x
    BY <1>3, <1>5, <2>2, <2>3, WillBeInWay
  <2>4. CASE \E c \in AllCodes : IsPress(c) /\ c.n = x
    BY <1>5, <2>4, WillBeInWay
  <2> QED BY <2>3, <2>4, InWay
<1>11. k.n \in Underway
  BY <1>3, InWay
<1>12. Underway' = Underway \ {k.n}
  <2>1. \A x \in Underway' : x \in Underway \ {k.n}
    BY <1>4, <1>9
  <2> QED BY <1>10, <2>1
<1>13. Keys!OnTheScreen' = Append(Keys!OnTheScreen, k.n)
  <2>1. PICK s \in Seq(Keys!Keys) : s = screen
    BY <1>1 DEF CpuTypes
  <2>2. PICK t : t = screen'
    OBVIOUS
  <2>3. t = Append(s, k)
    <3>1. t = s \o <<k>>
      BY <1>2, <1>3, <2>1, <2>2
    <3> QED BY <3>1, AppendIsConcat
  <2>4. /\ t \in Seq(Keys!Keys) /\ Len(t) = Len(s) + 1 /\ t[Len(t)] = k
        /\ \A i \in 1 .. Len(s) : t[i] = s[i]
    BY <2>3, Appended
  <2>5. DOMAIN s = 1 .. Len(s) /\ DOMAIN t = 1 .. Len(s) + 1 /\ Len(s) \in Nat
    BY <2>4, SeqDomain
  <2>6. PICK a, b : a = [i \in DOMAIN s |-> s[i].n] /\ b = [i \in DOMAIN t |-> t[i].n]
    OBVIOUS
  <2>7. /\ a \in Seq(Nat) /\ Len(a) = Len(s) /\ \A i \in 1 .. Len(s) : a[i] = s[i].n
    <3>1. a = [i \in 1 .. Len(s) |-> s[i].n]
      BY <2>5, <2>6
    <3>2. \A i \in 1 .. Len(s) : s[i].n \in Nat
      BY SeqDomain, KeyNumbers
    <3> QED BY <2>5, <3>1, <3>2
  <2>8. /\ b \in Seq(Nat) /\ Len(b) = Len(s) + 1 /\ \A i \in 1 .. Len(s) + 1 : b[i] = t[i].n
    <3>1. b = [i \in 1 .. Len(s) + 1 |-> t[i].n]
      BY <2>5, <2>6
    <3>2. \A i \in 1 .. Len(t) : t[i].n \in Nat
      BY <2>4, SeqDomain, KeyNumbers
    <3> QED BY <2>4, <2>5, <3>1, <3>2
  <2>9. PICK d : d = Append(a, k.n)
    OBVIOUS
  <2>10. /\ d \in Seq(Nat) /\ Len(d) = Len(a) + 1 /\ d[Len(d)] = k.n
         /\ \A i \in 1 .. Len(a) : d[i] = a[i]
    BY <1>4, <2>7, <2>9, Appended
  <2>11. \A i \in 1 .. Len(b) : b[i] = d[i]
    <3>1. TAKE i \in 1 .. Len(b)
    <3>2. CASE i = Len(s) + 1
      BY <2>4, <2>5, <2>7, <2>8, <2>10, <3>2
    <3>3. CASE i # Len(s) + 1
      <4>1. i \in 1 .. Len(s)
        BY <2>5, <2>8, <3>3
      <4>2. b[i] = t[i].n /\ t[i] = s[i] /\ a[i] = s[i].n /\ d[i] = a[i]
        BY <2>4, <2>5, <2>7, <2>8, <2>10, <4>1
      <4> QED BY <4>2
    <3> QED BY <3>2, <3>3
  <2>12. b = d
    BY <2>7, <2>8, <2>10, <2>11, SeqEqual
  <2> QED BY <2>1, <2>2, <2>6, <2>9, <2>12 DEF Keys!OnTheScreen
<1>14. Keys!OnTheWay = Underway /\ Keys!OnTheWay' = Underway'
  BY WayIs, WayWillBe DEF KeysIInv
<1>15. \A m \in Underway : k.n <= m
  <2>1. TAKE m \in Underway
  <2>2. m \in Nat
    <3>1. CASE \E j \in Keys!ToSet(taken) \cup Keys!ToSet(ring) : j.n = m
      <4>1. taken \in Seq(Keys!Keys) /\ ring \in Seq(Keys!Keys)
        BY <1>1 DEF CpuTypes
      <4> QED BY <3>1, <4>1, SeqDomain, KeyNumbers
    <3>2. CASE \E c \in AllCodes : IsPress(c) /\ c.n = m
      BY <1>1, <3>2, CodesAre, PressesPending
    <3> QED BY <3>1, <3>2, InWay
  <2>3. m = k.n \/ k.n < m
    BY <1>8
  <2> QED BY <1>4, <2>2, <2>3
<1> QED BY <1>11, <1>12, <1>13, <1>14, <1>15 DEF Passes, Shown

LEMMA StepPasses ==
    ASSUME KeysIInv, KeysIInv', Keys!Next
    PROVE  Passes
<1>1. CASE Keys!Typist
  BY <1>1, EventPasses DEF Keys!Typist
<1>2. CASE Keys!Periodic
  BY <1>2, PeriodicPasses
<1>3. CASE Keys!Enter \/ Keys!Eoi \/ Keys!Leave \/ Keys!KeyFound
  <2>1. UNCHANGED <<screen, taken, ring>>
    BY <1>3 DEF Keys!Enter, Keys!Eoi, Keys!Leave, Keys!KeyFound
  <2> QED BY <1>3, <2>1, SameCodes, QuietPass DEF Passes
<1>4. CASE Keys!ReadCode \/ Keys!Process
  BY <1>4, ReadCodePasses, ProcessPasses
<1>5. CASE Keys!SetLights
  <2>1. UNCHANGED <<codeRead, screen, taken, ring>> /\ kbd \in KbdType
    BY <1>5 DEF Keys!SetLights, KeysIInv, KbdTypes
  <2>2. CASE Keys!Full(kbd)
    <3>1. kbd' = kbd
      BY <1>5, <2>2 DEF Keys!SetLights
    <3>2. AllCodes' = AllCodes
      BY <2>1, <3>1 DEF AllCodes
    <3> QED BY <2>1, <3>2, QuietPass DEF Passes
  <2>3. CASE ~Keys!Full(kbd)
    <3>1. PICK e : e = Keys!Enabled(kbd)
      OBVIOUS
    <3>2. e \in KbdType /\ e.buf = kbd.buf
      BY <2>1, <3>1, EnabledIs
    <3>3. kbd' = Keys!EnQImm(e, Keys!Ack)
      BY <1>5, <2>3, <3>1 DEF Keys!SetLights
    <3>4. kbd'.buf = kbd.buf /\ kbd'.out = <<Keys!Ack>>
      BY <3>2, <3>3, AckIsCode, Overwritten
    <3> QED BY <2>1, <3>4, ToSetOne, DroppedPasses
  <2> QED BY <2>2, <2>3
<1>6. CASE Keys!Answer \/ Keys!Answered
  <2>1. UNCHANGED <<codeRead, screen, taken, ring>> /\ kbd' = Keys!Read(kbd)
    BY <1>6 DEF Keys!Answer, Keys!Answered
  <2>2. kbd \in KbdType /\ (kbd.irq => kbd.out # << >>)
    BY DEF KeysIInv, KbdTypes, Signals
  <2>3. kbd'.buf = kbd.buf /\ kbd'.out = << >>
    BY <2>1, <2>2, ReadIs
  <2> QED BY <2>1, <2>3, ToSetNone, DroppedPasses
<1>7. CASE Keys!Lights
  BY <1>7, LightsPass
<1>8. CASE Keys!Take \/ Keys!Show
  BY <1>8, TakePasses, ShowPasses
<1> QED BY <1>1, <1>2, <1>3, <1>4, <1>5, <1>6, <1>7, <1>8 DEF Keys!Next,
           Keys!Processor, Keys!Handler, Keys!Program

LEMMA StayPasses == ASSUME UNCHANGED Keys!vars PROVE UNCHANGED <<Keys!OnTheWay, Keys!OnTheScreen>>
<1>1. UNCHANGED <<taken, ring, codeRead, kbd, screen>>
  BY DEF Keys!vars, Keys!cpu
<1> QED BY <1>1, Zenon DEF Keys!OnTheWay, Keys!OnTheScreen

LEMMA NothingYet == ASSUME Keys!Init PROVE Keys!OnTheWay = {} /\ Keys!OnTheScreen = << >>
<1>1. KeysIInv
  BY KeysInitInvariant
<1>2. /\ taken = << >> /\ ring = << >> /\ codeRead = << >> /\ screen = << >>
      /\ kbd.out = << >> /\ kbd.buf = << >>
  BY DEF Keys!Init
<1>3. Keys!ToSet(taken) = {} /\ Keys!ToSet(ring) = {} /\ AllCodes = {}
  BY <1>2, ToSetNone DEF AllCodes
<1>4. Underway = {}
  BY <1>3, InWay
<1>5. Keys!OnTheWay = Underway
  BY <1>1, WayIs DEF KeysIInv
<1>6. Keys!OnTheScreen = << >>
  <2>1. DOMAIN screen = {}
    BY <1>2
  <2>2. Keys!OnTheScreen = [i \in {} |-> screen[i].n]
    BY <2>1 DEF Keys!OnTheScreen
  <2>3. PICK s : s = [i \in {} |-> screen[i].n]
    OBVIOUS
  <2>4. s = [i \in 1 .. 0 |-> screen[i].n]
    <3>1. 1 .. 0 = {}
      OBVIOUS
    <3> QED BY <2>3, <3>1
  <2>5. s \in Seq(Nat) /\ Len(s) = 0
    BY <2>4
  <2>6. s = << >>
    BY <2>5, SeqDomain
  <2> QED BY <2>2, <2>3, <2>6
<1> QED BY <1>4, <1>5, <1>6

-----------------------------------------------------------------------------
(* The invariant of the keys, while they are looked at.                    *)
KeysInv == part = "keys" => KeysIInv /\ Spare

LEMMA KeysBegin == ASSUME RealInit PROVE KeysInv
<1>1. CASE part = "keys"
  <2>1. Keys!Init
    BY <1>1 DEF RealInit, LoaderInit, ClockInit, KeysInit
  <2> QED BY <2>1, KeysInitInvariant, SpareStarts DEF KeysInv
<1> QED BY <1>1 DEF KeysInv

LEMMA KeysKeep == ASSUME KeysInv, [RealNext]_v PROVE KeysInv'
<1> SUFFICES ASSUME part' = "keys"
             PROVE  KeysIInv' /\ Spare'
  BY DEF KeysInv
<1>1. CASE KeysStep
  <2>1. KeysIInv /\ Spare /\ Keys!Next
    BY <1>1 DEF KeysStep, KeysInv
  <2> QED BY <2>1, KeysStepKeeps, SpareKeeps
<1>2. CASE LoaderStep \/ ClockStep
  BY <1>2 DEF LoaderStep, ClockStep
<1>3. CASE UNCHANGED v
  <2>1. KeysIInv /\ Spare /\ UNCHANGED Keys!vars
    BY <1>3 DEF v, Keys!vars, Keys!cpu, KeysInv
  <2> QED BY <2>1, KeysStayKeeps, SpareStays
<1> QED BY <1>1, <1>2, <1>3 DEF RealNext

(* Whatever is typed and however slowly it is read: as long as no code is  *)
(* lost the letters come out in their case and the firmware's flags follow *)
(* the hands; int 16h reads the keyboard's own answer and knows its        *)
(* lights; and a patient typist loses nothing and never finds the buffer   *)
(* too full for an answer (rombios.c:4784 and 5061, keyboard.cc:929).      *)
THEOREM KeysAlwaysAsTyped == RealSpec => []KeysComeAsTyped
<1>1. RealInit => KeysInv
  BY KeysBegin
<1>2. KeysInv /\ [RealNext]_v => KeysInv'
  BY KeysKeep
<1>3. KeysInv => KeysComeAsTyped
  BY KeysComeHolds DEF KeysInv, KeysComeAsTyped
<1> QED BY <1>1, <1>2, <1>3, PTL DEF RealSpec

LEMMA SameToSet == \A s : Way!ToSet(s) = Keys!ToSet(s)
BY DEF Way!ToSet, Keys!ToSet

LEMMA WayBegins == ASSUME RealInit PROVE Way!Init
<1>1. CASE part = "keys"
  <2>1. Keys!Init
    BY <1>1 DEF RealInit, LoaderInit, ClockInit, KeysInit
  <2>2. Keys!OnTheWay = {} /\ Keys!OnTheScreen = << >>
    BY <2>1, NothingYet
  <2> QED BY <1>1, <2>2, Zenon DEF Way!Init
<1>2. CASE part # "keys"
  BY <1>2, Zenon DEF Way!Init
<1> QED BY <1>1, <1>2

LEMMA WayGoes ==
    ASSUME KeysInv, KeysInv', [RealNext]_v
    PROVE  [Way!Next]_(Way!vars)
<1>1. CASE KeysStep
  <2>1. part = "keys" /\ part' = "keys" /\ Keys!Next
    BY <1>1 DEF KeysStep
  <2>2. Passes
    BY <2>1, StepPasses DEF KeysInv
  <2>3. CASE Put
    <3>1. PICK n \in 1 .. MaxEvents :
              /\ \A m \in Keys!OnTheWay \cup Keys!ToSet(Keys!OnTheScreen) : m < n
              /\ Keys!OnTheWay' = Keys!OnTheWay \cup {n} /\ UNCHANGED Keys!OnTheScreen
      BY <2>3 DEF Put
    <3>2. \A m \in Keys!OnTheWay \cup Way!ToSet(Keys!OnTheScreen) : m < n
      BY <3>1, SameToSet
    <3> QED BY <2>1, <3>1, <3>2, Zenon DEF Way!Next, Way!Put
  <2>4. CASE Lose
    BY <2>1, <2>4, Zenon DEF Lose, Way!Next, Way!Lose
  <2>5. CASE Shown
    BY <2>1, <2>5, Zenon DEF Shown, Way!Next, Way!Show
  <2>6. CASE UNCHANGED <<Keys!OnTheWay, Keys!OnTheScreen>>
    BY <2>1, <2>6, Zenon DEF Way!vars
  <2> QED BY <2>2, <2>3, <2>4, <2>5, <2>6 DEF Passes
<1>2. CASE LoaderStep \/ ClockStep
  <2>1. part # "keys" /\ part' # "keys"
    BY <1>2 DEF LoaderStep, ClockStep
  <2> QED BY <2>1, Zenon DEF Way!vars
<1>3. CASE UNCHANGED v
  <2>1. part' = part /\ UNCHANGED Keys!vars
    BY <1>3 DEF v, Keys!vars, Keys!cpu
  <2>2. UNCHANGED <<Keys!OnTheWay, Keys!OnTheScreen>>
    BY <2>1, StayPasses
  <2> QED BY <2>1, <2>2, Zenon DEF Way!vars
<1> QED BY <1>1, <1>2, <1>3 DEF RealNext

(* From the key to the screen: what was typed is shown in the order in     *)
(* which it was typed and at most once, whatever is lost in the keyboard,  *)
(* its controller, the firmware's buffer or to int 16h (keyboard.cc:945,   *)
(* rombios.c:5192).  The keys implement the lossy queue.                   *)
THEOREM AlwaysShownInOrder == RealSpec => ShownInOrder
<1>1. RealInit => KeysInv /\ Way!Init
  BY KeysBegin, WayBegins
<1>2. KeysInv /\ [RealNext]_v => KeysInv' /\ [Way!Next]_(Way!vars)
  BY KeysKeep, WayGoes
<1> QED BY <1>1, <1>2, PTL DEF RealSpec, ShownInOrder, Way!Spec

HIDE DEF hand, typed, kbd, irq1, flags, ring, handler, codeRead, keysPc, open, taken, screen, lost, stopped

-----------------------------------------------------------------------------
(* The three programs together.                                            *)
PartIsKnown == part \in {"loader", "clock", "keys"}

(* Whichever program runs, its variables keep their types: no register of  *)
(* the loader leaves 16 bits, the handler pushes no more than three        *)
(* values, no buffer of the keyboard or the firmware overflows.            *)
THEOREM RealTypesHold == RealSpec => []RealTypeOK
<1>1. RealInit => PartIsKnown /\ LoaderInv /\ ClockInv /\ KeysInv
  <2>1. RealInit => PartIsKnown
    BY DEF RealInit, LoaderInit, ClockInit, KeysInit, PartIsKnown
  <2> QED BY <2>1, LoaderStart, ClockStart, KeysBegin
<1>2. PartIsKnown /\ [RealNext]_v => PartIsKnown'
  BY DEF RealNext, LoaderStep, ClockStep, KeysStep, v, PartIsKnown
<1>3. LoaderInv /\ [RealNext]_v => LoaderInv'
  BY LoaderKeep
<1>4. ClockInv /\ [RealNext]_v => ClockInv'
  BY ClockKeep
<1>5. KeysInv /\ [RealNext]_v => KeysInv'
  BY KeysKeep
<1>6. PartIsKnown /\ LoaderInv /\ ClockInv /\ KeysInv => RealTypeOK
  <2>1. part = "loader" /\ LoaderInv => Loader!TypeOK
    BY LoaderAssumed, TypeHolds DEF LoaderInv
  <2>2. part = "clock" /\ ClockInv => Clock!TypeOK
    BY TypesHold DEF ClockInv
  <2>3. part = "keys" /\ KeysInv => Keys!TypeOK
    BY KeysTypesHold DEF KeysInv
  <2> QED BY <2>1, <2>2, <2>3 DEF PartIsKnown, RealTypeOK
<1> QED BY <1>1, <1>2, <1>3, <1>4, <1>5, <1>6, PTL DEF RealSpec
=============================================================================
