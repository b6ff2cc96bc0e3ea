---------------------------- MODULE PagingProofs ----------------------------
(***************************************************************************)
(* In the kernels that reload CR3 (c17, c18), for any number of frames and *)
(* programs: until the frames run out every access of the loader goes to   *)
(* one frame, no frame belongs to two programs, loading one disturbs no    *)
(* other, and every program finds its own pages and all the TSSs.  That    *)
(* the registers, fields and frames have their types holds for all kernels *)
(* and comes first: for the linear addresses it takes counting, CoreCounts *)
(* and UserCounts say how many pages each half has handed out when the     *)
(* loader is where it is.                                                  *)
(*                                                                         *)
(* The argument gives every frame an owner: the slot of the one table it   *)
(* is entered in.  Owners are not in the code, so IInv says only that      *)
(* there is such a function.  It has one value for each frame, and that is *)
(* why what two programs hold is disjoint.                                 *)
(***************************************************************************)
EXTENDS Paging, FiniteSetTheorems, TLAPS

(* Quotient and remainder.                                                 *)
LEMMA Divide ==
    ASSUME NEW n \in Nat, NEW d \in Nat, d > 0
    PROVE  /\ n \div d \in Nat
           /\ n % d \in Nat
           /\ n % d < d
           /\ n = ((n \div d) * d) + (n % d)
<1>1. n \div d \in Nat
  BY SMT
<1>2. n % d \in Nat /\ n % d < d
  BY SMT
<1>3. n = ((n \div d) * d) + (n % d)
  BY SMT
<1> QED BY <1>1, <1>2, <1>3

(* There is only one quotient, and one remainder.                          *)
LEMMA Unique ==
    ASSUME NEW d \in Nat, d > 0, NEW q \in Nat, NEW r \in Nat, r < d
    PROVE  /\ ((q * d) + r) \div d = q
           /\ ((q * d) + r) % d = r
<1> DEFINE n == (q * d) + r
           p == n \div d
           s == n % d
<1>1. n \in Nat
  BY SMT
<1>2. p \in Nat /\ s \in Nat /\ s < d /\ n = (p * d) + s
  BY <1>1, Divide
<1>3. (p * d) + s = (q * d) + r
  BY <1>2
<1> HIDE DEF n, p, s
<1>4. ASSUME p < q PROVE FALSE
  <2>1. PICK k \in Nat : q = p + 1 + k
    <3>1. q - p - 1 \in Nat /\ q = p + 1 + (q - p - 1)
      BY <1>2, <1>4
    <3> QED BY <3>1
  <2>2. q * d = (p * d) + d + (k * d)
    BY <1>2, <2>1, SMT
  <2>3. k * d \in Nat /\ p * d \in Nat
    BY <1>2, SMT
  <2> QED BY <1>2, <1>3, <2>2, <2>3
<1>5. ASSUME q < p PROVE FALSE
  <2>1. PICK k \in Nat : p = q + 1 + k
    <3>1. p - q - 1 \in Nat /\ p = q + 1 + (p - q - 1)
      BY <1>2, <1>5
    <3> QED BY <3>1
  <2>2. p * d = (q * d) + d + (k * d)
    BY <1>2, <2>1, SMT
  <2>3. k * d \in Nat /\ q * d \in Nat
    BY <1>2, SMT
  <2> QED BY <1>2, <1>3, <2>2, <2>3
<1>6. p = q
  BY <1>2, <1>4, <1>5
<1>7. q * d \in Nat
  BY SMT
<1>8. s = r
  BY <1>2, <1>3, <1>6, <1>7
<1> QED BY <1>6, <1>8 DEF n, p, s

(* The numbers below a * d have quotients below a.                         *)
LEMMA QuotientBelow ==
    ASSUME NEW d \in Nat, d > 0, NEW a \in Nat, NEW n \in Nat, n < a * d
    PROVE  n \div d < a
<1> DEFINE q == n \div d
<1>1. q \in Nat /\ n % d \in Nat /\ n = (q * d) + (n % d)
  BY Divide
<1> HIDE DEF q
<1>2. ASSUME q >= a PROVE FALSE
  <2>1. PICK k \in Nat : q = a + k
    <3>1. q - a \in Nat /\ q = a + (q - a)
      BY <1>1, <1>2
    <3> QED BY <3>1
  <2>2. q * d = (a * d) + (k * d)
    BY <2>1, SMT
  <2>3. k * d \in Nat /\ a * d \in Nat
    BY SMT
  <2> QED BY <1>1, <2>2, <2>3
<1>3. q < a
  BY <1>1, <1>2
<1> QED BY <1>3 DEF q

Mid == {"test", "table", "set table", "page", "set page", "use"}

(* The page being installed, or what the loader does otherwise.            *)
Kind == IF pc \in Mid THEN purpose ELSE pc

Content == {"tss", "tcb", "image", "ldt"}

Entry == {Unwritten, NotPresent} \cup { ToFrame(f) : f \in Phys }
             \cup { <<what, u>> : what \in Content, u \in 0 .. Programs }

Registers ==
    /\ mem \in [Phys -> [Index -> Entry]]
    /\ used \in SUBSET (0 .. (PageMapLen - 1))
    /\ tlb \in SUBSET ((Index \X Index) \X Phys)
    /\ coreNext \in Nat
    /\ userNext \in 0 .. (Entries * Half)
    /\ prog \in Nat \ {0}
    /\ pc # "done" => prog \in Program
    /\ prog <= Programs + 1
    /\ left \in Nat
    /\ size \in [Program -> ImageSizes \cup {0}]
    /\ tssAt \in [Program \cup {0} -> Index \X Index]
    /\ cr3 \in [Program -> Phys]
    /\ ebx \in Index \X Index
    /\ eax \in Phys
    /\ halt \in {"never", "halted", "woken"}
    /\ halt = "halted" => pc \in {"table", "page", "pdir"}
    /\ purpose \in {"core tss", "tcb", "image", "tss", "ldt", "stack"}
    /\ pc \in Mid \cup {"core tss", "tcb", "image", "tss", "ldt", "stack", "clear",
                        "reload", "header", "relocate", "pdir", "set pdir",
                        "copy", "done"}

(* Pages of the kernel's half: one for its own TSS, two for every program. *)
CoreCounts ==
    /\ Kind = "core tss" => prog = 1
    /\ pc = "core tss" => coreNext = BootFrames
    /\ Kind = "core tss" /\ pc \in Mid => coreNext = BootFrames + 1
    /\ pc = "tcb" => coreNext = BootFrames + 2 * prog - 1
    /\ Kind = "tcb" /\ pc \in Mid => coreNext = BootFrames + 2 * prog
    /\ Kind \in {"clear", "reload", "header", "image"} \/ pc = "tss"
         => coreNext = BootFrames + 2 * prog
    /\ Kind = "tss" /\ pc \in Mid => coreNext = BootFrames + 2 * prog + 1
    /\ Kind \in {"ldt", "stack", "relocate", "pdir", "set pdir", "copy"}
         => coreNext = BootFrames + 2 * prog + 1
    /\ pc = "done" => coreNext = BootFrames + 2 * Programs + 1

(* Pages of a program: its image, its LDT, its stacks.                     *)
UserCounts ==
    /\ Kind \in {"image", "tss", "ldt", "stack", "relocate", "pdir", "set pdir", "copy"}
         => size[prog] \in ImageSizes
    /\ Kind \in {"clear", "reload", "header"} => userNext = 0
    /\ Kind = "image" => left \in 1 .. size[prog]
    /\ pc = "image" => userNext = size[prog] - left
    /\ Kind = "image" /\ pc \in Mid => userNext = size[prog] - left + 1
    /\ Kind = "tss" \/ pc = "ldt" => userNext = size[prog]
    /\ Kind = "ldt" /\ pc \in Mid => userNext = size[prog] + 1
    /\ Kind = "stack" => left \in 1 .. StackPages
    /\ pc = "stack" => userNext = size[prog] + 1 + StackPages - left
    /\ Kind = "stack" /\ pc \in Mid => userNext = size[prog] + 2 + StackPages - left
    /\ Kind \in {"relocate", "pdir", "set pdir", "copy"}
         => userNext = size[prog] + 1 + StackPages

(* The page being installed is the one handed out last.                    *)
LastPage ==
    pc \in Mid =>
        ebx = IF purpose \in CorePurpose THEN CorePage(coreNext - 1)
                                         ELSE UserPage(userNext - 1)

Typed == Registers /\ CoreCounts /\ UserCounts /\ LastPage

-----------------------------------------------------------------------------
LEMMA Sizes ==
    /\ Entries \in Nat /\ Entries >= 6
    /\ PageMapLen \in Nat
    /\ BootFrames \in Nat /\ BootFrames >= 3 /\ BootFrames <= PageMapLen
    /\ Half \in Nat /\ Half >= 3 /\ 2 * Half <= Entries
    /\ Programs \in Nat /\ Programs > 0
    /\ StackPages \in Nat /\ StackPages > 0
    /\ BootFrames + 1 + 2 * Programs <= Entries
    /\ ReloadsCr3 \in BOOLEAN
<1>1. /\ Entries \in Nat /\ Entries >= 6 /\ PageMapLen \in Nat
      /\ BootFrames \in 3 .. PageMapLen
      /\ Programs \in Nat \ {0} /\ StackPages \in Nat \ {0}
      /\ ImageSizes \subseteq Nat \ {0}
      /\ BootFrames + 1 + 2 * Programs <= Entries
      /\ ReloadsCr3 \in BOOLEAN
  BY PagingAssumption
<1>2. Half \in Nat /\ Half >= 3 /\ 2 * Half <= Entries
  BY <1>1, SMT DEF Half
<1> QED BY <1>1, <1>2

LEMMA UserSizes ==
    /\ Entries * Half \in Nat /\ Entries * Half >= 18
    /\ \A n \in ImageSizes :
          n \in Nat /\ n > 0 /\ n + 1 + StackPages <= Entries * Half
<1>1. Entries * Half \in Nat /\ 6 * 3 <= Entries * Half
  BY Sizes, SMT
<1>2. \A n \in ImageSizes : n \in Nat /\ n > 0
  BY PagingAssumption
<1>3. \A n \in ImageSizes : n + 1 + StackPages <= Entries * Half
  BY PagingAssumption DEF Half
<1> QED BY <1>1, <1>2, <1>3

(* Frames with a name.                                                     *)
LEMMA Frames ==
    /\ CorePdt \in Phys /\ CorePt \in Phys /\ LowFrame \in Phys /\ PageMapLen \in Phys
    /\ \A f \in 0 .. (PageMapLen - 1) : f \in Phys
    /\ \A i \in Nat : i < BootFrames => i \in Phys
    /\ Self \in Index /\ Copy \in Index /\ Half \in Index
    /\ Half < Copy /\ Copy < Self
BY Sizes DEF CorePdt, CorePt, LowFrame, Phys, Self, Copy, Index

(* The pages of the two halves: the kernel's are all in one table.         *)
LEMMA CorePageIs ==
    ASSUME NEW k \in Nat, k < Entries
    PROVE  CorePage(k) = <<Half, k>> /\ CorePage(k) \in Index \X Index
<1>1. ((0 * Entries) + k) \div Entries = 0 /\ ((0 * Entries) + k) % Entries = k
  BY Sizes, Unique
<1>2. (0 * Entries) + k = k
  BY Sizes
<1>3. k \div Entries = 0 /\ k % Entries = k
  BY <1>1, <1>2
<1> QED BY <1>3, Sizes DEF CorePage, Index

LEMMA UserPageIs ==
    ASSUME NEW k \in Nat, k < Entries * Half
    PROVE  /\ UserPage(k) \in Index \X Index
           /\ UserPage(k) = <<UserPage(k)[1], UserPage(k)[2]>>
           /\ UserPage(k)[1] \in Nat /\ UserPage(k)[1] < Half
           /\ UserPage(k)[2] \in Index
<1>1. /\ k \div Entries \in Nat
      /\ k % Entries \in Nat /\ k % Entries < Entries
  BY Sizes, Divide
<1>2. Entries * Half = Half * Entries
  BY Sizes
<1>3. k \div Entries < Half
  BY <1>2, Sizes, QuotientBelow
<1> QED BY <1>1, <1>3, Sizes DEF UserPage, Index

(* Different numbers, different pages.                                     *)
LEMMA UserPageInjective ==
    ASSUME NEW k \in Nat, NEW l \in Nat, UserPage(k) = UserPage(l)
    PROVE  k = l
<1>1. k \div Entries = l \div Entries /\ k % Entries = l % Entries
  BY DEF UserPage
<1>2. /\ k = ((k \div Entries) * Entries) + (k % Entries)
      /\ l = ((l \div Entries) * Entries) + (l % Entries)
  BY Sizes, Divide
<1> QED BY <1>1, <1>2

(* What tables lead to is a frame.                                         *)
LEMMA TargetIs ==
    ASSUME Registers, NEW f \in Phys, NEW i \in Index
    PROVE  /\ Target(f, i) \subseteq Phys
           /\ \A g \in Target(f, i) : Target(f, i) = {g} /\ mem[f][i] = ToFrame(g)
<1>1. mem[f][i] \in Entry
  BY DEF Registers
<1> QED BY <1>1 DEF Entry, Target, ToFrame, Unwritten, NotPresent, Content

LEMMA WalkIs ==
    ASSUME Registers, NEW d \in Phys, NEW p \in Index \X Index
    PROVE  Walk(d, p) \subseteq Phys
<1>1. p[1] \in Index /\ p[2] \in Index
  OBVIOUS
<1>2. \A t \in Target(d, p[1]) : t \in Phys
  BY <1>1, TargetIs
<1>3. \A t \in Target(d, p[1]) : Target(t, p[2]) \subseteq Phys
  BY <1>1, <1>2, TargetIs
<1> QED BY <1>3 DEF Walk

LEMMA ReachedIs ==
    ASSUME Registers, NEW p \in Index \X Index
    PROVE  Reached(p) \subseteq Phys
<1>1. Walk(CorePdt, p) \subseteq Phys
  BY Frames, WalkIs
<1>2. \A e \in tlb : e[2] \in Phys
  BY DEF Registers
<1> QED BY <1>1, <1>2 DEF Reached

LEMMA AccessIs ==
    ASSUME Registers, NEW p \in Index \X Index, NEW f, Access(p, f)
    PROVE  f \in Phys /\ tlb' \in SUBSET ((Index \X Index) \X Phys)
<1>1. f \in Phys
  BY ReachedIs DEF Access
<1>2. <<p, f>> \in (Index \X Index) \X Phys
  BY <1>1
<1>3. tlb \in SUBSET ((Index \X Index) \X Phys)
  BY DEF Registers
<1> QED BY <1>1, <1>2, <1>3 DEF Access

(* A frame that is filled, and one entry that is set.                      *)
LEMMA FillIs ==
    ASSUME Registers, NEW what \in Content, NEW u \in 0 .. Programs, Fill(what, u)
    PROVE  /\ mem' \in [Phys -> [Index -> Entry]]
           /\ tlb' \in SUBSET ((Index \X Index) \X Phys)
<1>1. PICK f \in Reached(ebx) : Access(ebx, f) /\ mem' = [mem EXCEPT ![f] = Filled(what, u)]
  BY DEF Fill
<1>2. ebx \in Index \X Index
  BY DEF Registers
<1>3. f \in Phys /\ tlb' \in SUBSET ((Index \X Index) \X Phys)
  BY <1>1, <1>2, AccessIs
<1>4. Filled(what, u) \in [Index -> Entry]
  BY DEF Filled, Entry
<1> QED BY <1>1, <1>3, <1>4 DEF Registers

LEMMA SetIs ==
    ASSUME Registers, NEW f \in Phys, NEW i \in Index,
           mem' = [mem EXCEPT ![f][i] = ToFrame(eax)]
    PROVE  mem' \in [Phys -> [Index -> Entry]]
<1>1. ToFrame(eax) \in Entry
  <2>1. eax \in Phys
    BY DEF Registers
  <2> QED BY <2>1 DEF Entry
<1>2. mem \in [Phys -> [Index -> Entry]]
  BY DEF Registers
<1>3. [mem[f] EXCEPT ![i] = ToFrame(eax)] \in [Index -> Entry]
  BY <1>1, <1>2
<1>4. mem' = [mem EXCEPT ![f] = [mem[f] EXCEPT ![i] = ToFrame(eax)]]
  OBVIOUS
<1> QED BY <1>2, <1>3, <1>4

LEMMA DirectoryIs ==
    /\ Directory \in Index \X Index /\ NewDirectory \in Index \X Index
    /\ \A i \in Index : TableOf(i) \in Index \X Index
BY Frames DEF Directory, NewDirectory, TableOf

LEMMA Numbers ==
    ASSUME Registers
    PROVE  coreNext \in Nat /\ userNext \in Nat /\ prog \in Nat /\ left \in Nat
<1>1. userNext \in 0 .. (Entries * Half)
  BY DEF Registers
<1>2. userNext \in Nat
  BY <1>1, UserSizes
<1> QED BY <1>2 DEF Registers

-----------------------------------------------------------------------------
LEMMA TypedInit == Init => Typed
<1> SUFFICES ASSUME Init PROVE Typed
  OBVIOUS
<1>1. mem \in [Phys -> [Index -> Entry]]
  <2>1. BootDirectory \in [Index -> Entry]
    BY Frames DEF BootDirectory, Entry
  <2>2. BootTable \in [Index -> Entry]
    BY Sizes, Frames DEF BootTable, Entry, Index
  <2>3. [i \in Index |-> Unwritten] \in [Index -> Entry]
    BY DEF Entry
  <2> QED BY <2>1, <2>2, <2>3 DEF Init
<1>2. used \in SUBSET (0 .. (PageMapLen - 1))
  BY PagingAssumption DEF Init
<1>3. tlb \in SUBSET ((Index \X Index) \X Phys)
  <2>1. LowFrame < Entries * Half /\ LowFrame \in Nat
    BY UserSizes DEF LowFrame
  <2>2. UserPage(LowFrame) \in Index \X Index
    BY <2>1, UserPageIs
  <2>3. <<UserPage(LowFrame), LowFrame>> \in (Index \X Index) \X Phys
    BY <2>2, Frames
  <2> QED BY <2>3 DEF Init
<1>4. Registers
  <2>1. 0 \in Phys /\ 1 \in Program
    BY Sizes DEF Phys, Program
  <2>2. 0 \in 0 .. (Entries * Half) /\ BootFrames \in Nat /\ 1 <= Programs + 1
    BY Sizes, UserSizes
  <2>3. tssAt \in [Program \cup {0} -> Index \X Index] /\ ebx \in Index \X Index
    BY DirectoryIs DEF Init
  <2>4. size \in [Program -> ImageSizes \cup {0}] /\ cr3 \in [Program -> Phys]
    BY <2>1 DEF Init
  <2>5. /\ coreNext \in Nat /\ userNext \in 0 .. (Entries * Half)
        /\ prog \in Nat \ {0} /\ prog \in Program /\ prog <= Programs + 1
        /\ left \in Nat /\ eax \in Phys
    <3>1. coreNext = BootFrames /\ userNext = 0 /\ prog = 1 /\ left = 0 /\ eax = 0
      BY DEF Init
    <3> QED BY <2>1, <2>2, <3>1
  <2>6. pc = "core tss" /\ purpose = "core tss" /\ halt = "never"
    BY DEF Init
  <2> QED BY <1>1, <1>2, <1>3, <2>3, <2>4, <2>5, <2>6 DEF Registers, Mid
<1>5. CoreCounts /\ UserCounts /\ LastPage
  BY DEF Init, CoreCounts, UserCounts, LastPage, Kind, Mid
<1> QED BY <1>4, <1>5 DEF Typed

LEMMA AllocateTyped ==
    ASSUME Typed, Allocate \/ NoMorePages \/ WokenFromHalt
    PROVE  Typed'
<1>1. /\ \/ pc = "table" /\ pc' = "set table"
         \/ pc = "page" /\ pc' = "set page"
         \/ pc = "pdir" /\ pc' = "set pdir"
         \/ pc' = pc /\ pc \in {"table", "page", "pdir"}
      /\ UNCHANGED <<mem, tlb, coreNext, userNext, prog, left, size, tssAt, cr3, purpose, ebx>>
      /\ \/ halt' = "halted" /\ pc' = pc
         \/ halt' # "halted" /\ halt' \in {"never", "woken"}
  BY DEF Allocate, NoMorePages, WokenFromHalt, CallerOf, space, loading, Typed, Registers
<1>2. used' \in SUBSET (0 .. (PageMapLen - 1)) /\ eax' \in Phys
  <2>1. CASE Allocate
    BY <2>1, Frames DEF Allocate, Mark, FreeFrame, Typed, Registers
  <2>2. CASE NoMorePages \/ WokenFromHalt
    BY <2>2, Frames DEF NoMorePages, WokenFromHalt, Typed, Registers
  <2> QED BY <2>1, <2>2
<1>3. Registers'
  BY <1>1, <1>2 DEF Typed, Registers, Mid
<1>4. Kind' = Kind \/ (Kind = "pdir" /\ Kind' = "set pdir" /\ pc' = "set pdir" /\ pc = "pdir")
  BY <1>1 DEF Kind, Mid
<1>5. CoreCounts'
  BY <1>1, <1>4 DEF Typed, CoreCounts, Mid
<1>6. UserCounts'
  BY <1>1, <1>4 DEF Typed, UserCounts, Mid
<1>7. LastPage'
  BY <1>1 DEF Typed, LastPage, Mid
<1> QED BY <1>3, <1>5, <1>6, <1>7 DEF Typed

LEMMA CoreLinearTyped ==
    ASSUME Typed, AllocCoreLinear
    PROVE  Typed'
<1>1. /\ pc \in {"core tss", "tcb", "tss"} /\ pc' = "test" /\ purpose' = pc
      /\ coreNext' = coreNext + 1
      /\ UNCHANGED <<mem, used, tlb, userNext, prog, left, size, tssAt, cr3, eax, halt>>
  BY DEF AllocCoreLinear, CorePurpose
<1>a. ebx' = CorePage(coreNext)
  BY DEF AllocCoreLinear
<1>2. Kind = pc /\ Kind' = pc
  BY <1>1 DEF Kind, Mid
<1>3. prog \in Nat /\ prog <= Programs /\ prog >= 1
  <2>1. prog \in 1 .. Programs
    BY <1>1 DEF Typed, Registers, Program
  <2> QED BY <2>1, Sizes
<1>4. /\ pc = "core tss" => coreNext = BootFrames /\ prog = 1
      /\ pc = "tcb" => coreNext = BootFrames + 2 * prog - 1
      /\ pc = "tss" => coreNext = BootFrames + 2 * prog
  BY <1>2 DEF Typed, CoreCounts
<1>5. coreNext \in Nat /\ coreNext < Entries
  <2>1. CASE pc = "core tss"
    <3>1. coreNext = BootFrames
      BY <2>1, <1>4
    <3> QED BY <3>1, Sizes
  <2>2. CASE pc = "tcb"
    BY <2>2, <1>3, <1>4, Sizes
  <2>3. CASE pc = "tss"
    BY <2>3, <1>3, <1>4, Sizes
  <2> QED BY <1>1, <2>1, <2>2, <2>3
<1>6. Registers'
  <2>1. ebx' \in Index \X Index
    BY <1>a, <1>5, CorePageIs
  <2>2. coreNext' \in Nat
    <3>1. coreNext' = coreNext + 1
      BY <1>1
    <3> QED BY <1>5, <3>1
  <2> QED BY <1>1, <2>1, <2>2 DEF Typed, Registers, Mid
<1>7. CoreCounts'
  <2>1. pc = "core tss" => coreNext' = BootFrames + 1
    BY <1>1, <1>4
  <2>2. pc = "tcb" => coreNext' = BootFrames + 2 * prog
    BY <1>1, <1>3, <1>4, Sizes
  <2>3. pc = "tss" => coreNext' = BootFrames + 2 * prog + 1
    BY <1>1, <1>4
  <2> QED BY <1>1, <1>2, <1>4, <2>1, <2>2, <2>3 DEF CoreCounts, Mid
<1>8. UserCounts'
  BY <1>1, <1>2 DEF Typed, UserCounts, Mid
<1>9. LastPage'
  <2>1. (coreNext + 1) - 1 = coreNext
    BY <1>5
  <2> QED BY <1>1, <1>a, <2>1 DEF LastPage, CorePurpose
<1> QED BY <1>6, <1>7, <1>8, <1>9 DEF Typed

LEMMA UserLinearTyped ==
    ASSUME Typed, AllocUserLinear
    PROVE  Typed'
<1>1. /\ pc \in {"image", "ldt", "stack"} /\ pc' = "test" /\ purpose' = pc
      /\ userNext' = userNext + 1 /\ ebx' = UserPage(userNext)
      /\ UNCHANGED <<mem, used, tlb, coreNext, prog, left, size, tssAt, cr3, eax, halt>>
  BY DEF AllocUserLinear, CorePurpose
<1>2. Kind = pc /\ Kind' = pc
  BY <1>1 DEF Kind, Mid
<1>3. /\ size[prog] \in ImageSizes
      /\ size[prog] \in Nat /\ size[prog] + 1 + StackPages <= Entries * Half
  BY <1>1, <1>2, Sizes, UserSizes DEF Typed, UserCounts
<1>4. /\ pc = "image" => left \in 1 .. size[prog] /\ userNext = size[prog] - left
      /\ pc = "ldt" => userNext = size[prog]
      /\ pc = "stack" => left \in 1 .. StackPages /\ userNext = size[prog] + 1 + StackPages - left
  BY <1>2 DEF Typed, UserCounts
<1>5. userNext \in Nat /\ userNext < Entries * Half
  BY <1>1, <1>3, <1>4, Sizes, UserSizes
<1>6. Registers'
  <2>1. ebx' \in Index \X Index
    BY <1>1, <1>5, UserPageIs
  <2>2. userNext' \in 0 .. (Entries * Half)
    BY <1>1, <1>5, Sizes, UserSizes
  <2> QED BY <1>1, <2>1, <2>2 DEF Typed, Registers, Mid
<1>7. CoreCounts'
  BY <1>1, <1>2 DEF Typed, CoreCounts, Mid
<1>8. UserCounts'
  <2>1. /\ pc = "image" => userNext' = size[prog] - left + 1
        /\ pc = "ldt" => userNext' = size[prog] + 1
        /\ pc = "stack" => userNext' = size[prog] + 2 + StackPages - left
    BY <1>1, <1>3, <1>4, Sizes, UserSizes
  <2> QED BY <1>1, <1>2, <1>3, <1>4, <2>1 DEF UserCounts, Mid
<1>9. LastPage'
  <2>1. (userNext + 1) - 1 = userNext
    BY <1>5
  <2> QED BY <1>1, <2>1 DEF LastPage, CorePurpose
<1> QED BY <1>6, <1>7, <1>8, <1>9 DEF Typed

LEMMA InstallTyped ==
    ASSUME Typed, TestTable \/ SetTable \/ SetPage
    PROVE  Typed'
<1>0. Registers /\ ebx \in Index \X Index /\ ebx[1] \in Index /\ ebx[2] \in Index
  BY DEF Typed, Registers
<1>1. /\ mem' \in [Phys -> [Index -> Entry]]
      /\ tlb' \in SUBSET ((Index \X Index) \X Phys)
  <2>1. CASE TestTable
    <3>1. PICK f \in Reached(Directory) : Access(Directory, f)
      BY <2>1 DEF TestTable
    <3> QED BY <1>0, <2>1, <3>1, AccessIs, DirectoryIs DEF TestTable, Registers
  <2>2. CASE SetTable
    <3>1. PICK f \in Reached(Directory) :
             Access(Directory, f) /\ mem' = [mem EXCEPT ![f][ebx[1]] = ToFrame(eax)]
      BY <2>2 DEF SetTable
    <3> QED BY <1>0, <3>1, AccessIs, SetIs, DirectoryIs
  <2>3. CASE SetPage
    <3>1. PICK f \in Reached(TableOf(ebx[1])) :
             Access(TableOf(ebx[1]), f) /\ mem' = [mem EXCEPT ![f][ebx[2]] = ToFrame(eax)]
      BY <2>3 DEF SetPage
    <3>2. TableOf(ebx[1]) \in Index \X Index
      BY <1>0, DirectoryIs
    <3> QED BY <1>0, <3>1, <3>2, AccessIs, SetIs
  <2> QED BY <2>1, <2>2, <2>3
<1>2. /\ \/ pc = "test" /\ pc' \in {"page", "table"}
         \/ pc = "set table" /\ pc' = "page"
         \/ pc = "set page" /\ pc' = "use"
      /\ UNCHANGED <<used, eax, halt, space, loading>>
  BY DEF TestTable, SetTable, SetPage
<1>3. Registers'
  BY <1>1, <1>2 DEF Typed, Registers, space, loading, Mid
<1>4. pc \in Mid /\ pc' \in Mid
  BY <1>2 DEF Mid
<1>5. Kind' = Kind /\ UNCHANGED <<prog, purpose, coreNext, userNext, size, left, ebx>>
  BY <1>2, <1>4 DEF Kind, space, loading
<1>6. Mid \cap {"core tss", "tcb", "tss", "image", "ldt", "stack", "done"} = {}
  BY DEF Mid
<1>7. CoreCounts'
  BY <1>4, <1>5, <1>6 DEF Typed, CoreCounts
<1>8. UserCounts'
  BY <1>4, <1>5, <1>6 DEF Typed, UserCounts
<1>9. LastPage'
  BY <1>4, <1>5 DEF Typed, LastPage
<1> QED BY <1>3, <1>7, <1>8, <1>9 DEF Typed

(* A page of the kernel's half is filled: its own TSS, and a TCB.          *)
LEMMA CorePagesTyped ==
    ASSUME Typed, FillCoreTss \/ CreateTcb
    PROVE  Typed'
<1>0. Registers
  BY DEF Typed
<1>1. /\ mem' \in [Phys -> [Index -> Entry]]
      /\ tlb' \in SUBSET ((Index \X Index) \X Phys)
  <2>1. CASE FillCoreTss
    <3>1. "tss" \in Content /\ 0 \in 0 .. Programs
      BY Sizes DEF Content
    <3> QED BY <1>0, <2>1, <3>1, FillIs DEF FillCoreTss
  <2>2. CASE CreateTcb
    <3>1. pc # "done"
      BY <2>2 DEF CreateTcb, Using
    <3>2. prog \in 1 .. Programs
      BY <1>0, <3>1 DEF Registers, Program
    <3>3. "tcb" \in Content /\ prog \in 0 .. Programs
      BY <3>2, Sizes DEF Content
    <3> QED BY <1>0, <2>2, <3>3, FillIs DEF CreateTcb
  <2> QED BY <2>1, <2>2
<1>2. CASE FillCoreTss
  <2>1. /\ pc = "use" /\ purpose = "core tss" /\ pc' = "tcb"
        /\ tssAt' = [tssAt EXCEPT ![0] = ebx]
        /\ UNCHANGED <<used, coreNext, userNext, prog, left, size, cr3, purpose, ebx, eax, halt>>
    BY <1>2 DEF FillCoreTss, Using, space
  <2>2. Kind = "core tss" /\ Kind' = "tcb"
    BY <2>1 DEF Kind, Mid
  <2>3. tssAt' \in [Program \cup {0} -> Index \X Index]
    BY <1>0, <2>1 DEF Registers
  <2>4. Registers'
    BY <1>0, <1>1, <2>1, <2>3 DEF Registers, Mid
  <2>5. CoreCounts'
    <3>1. coreNext = BootFrames + 1 /\ prog = 1
      BY <2>1, <2>2 DEF Typed, CoreCounts, Mid
    <3>2. coreNext' = BootFrames + 2 * prog' - 1
      <4>1. coreNext' = coreNext /\ prog' = 1
        BY <2>1, <3>1
      <4> QED BY <3>1, <4>1, Sizes
    <3> QED BY <2>1, <2>2, <3>2 DEF CoreCounts, Mid
  <2>6. UserCounts' /\ LastPage'
    BY <2>1, <2>2 DEF UserCounts, LastPage, Mid
  <2> QED BY <2>4, <2>5, <2>6 DEF Typed
<1>3. CASE CreateTcb
  <2>1. /\ pc = "use" /\ purpose = "tcb" /\ pc' = "clear" /\ userNext' = 0
        /\ UNCHANGED <<used, coreNext, prog, left, size, tssAt, cr3, purpose, ebx, eax, halt>>
    BY <1>3 DEF CreateTcb, Using, loading
  <2>2. Kind = "tcb" /\ Kind' = "clear"
    BY <2>1 DEF Kind, Mid
  <2>3. Registers'
    <3>1. userNext' \in 0 .. (Entries * Half)
      BY <2>1, UserSizes
    <3> QED BY <1>0, <1>1, <2>1, <3>1 DEF Registers, Mid
  <2>4. CoreCounts' /\ UserCounts' /\ LastPage'
    BY <2>1, <2>2 DEF Typed, CoreCounts, UserCounts, LastPage, Mid
  <2> QED BY <2>3, <2>4 DEF Typed
<1> QED BY <1>2, <1>3

(* A page of the program is filled, its TSS, and a stack is noted.         *)
LEMMA ProgramPagesTyped ==
    ASSUME Typed, LoadImagePage \/ CreateTss \/ CreateLdt \/ CreateStack
    PROVE  Typed'
<1>0. Registers /\ pc = "use" /\ prog \in Program
  BY DEF Typed, Registers, LoadImagePage, CreateTss, CreateLdt, CreateStack, Using
<1>1. /\ mem' \in [Phys -> [Index -> Entry]]
      /\ tlb' \in SUBSET ((Index \X Index) \X Phys)
  <2>1. prog \in 0 .. Programs
    <3>1. prog \in 1 .. Programs
      BY <1>0 DEF Program
    <3> QED BY <3>1, Sizes
  <2>2. "image" \in Content /\ "tss" \in Content /\ "ldt" \in Content
    BY DEF Content
  <2>3. CASE LoadImagePage
    BY <1>0, <2>1, <2>2, <2>3, FillIs DEF LoadImagePage
  <2>4. CASE CreateTss
    BY <1>0, <2>1, <2>2, <2>4, FillIs DEF CreateTss
  <2>5. CASE CreateLdt
    BY <1>0, <2>1, <2>2, <2>5, FillIs DEF CreateLdt
  <2>6. CASE CreateStack
    BY <1>0, <2>6 DEF CreateStack, Registers
  <2> QED BY <2>3, <2>4, <2>5, <2>6
<1>2. CASE LoadImagePage
  <2>1. /\ purpose = "image" /\ left' = left - 1
        /\ pc' = IF left = 1 THEN "tss" ELSE "image"
        /\ UNCHANGED <<used, coreNext, userNext, prog, size, tssAt, cr3, purpose, ebx, eax, halt>>
    BY <1>2 DEF LoadImagePage, Using, space
  <2>2. Kind = "image" /\ Kind' = pc'
    BY <1>0, <2>1 DEF Kind, Mid
  <2>3. /\ size[prog] \in ImageSizes /\ size[prog] \in Nat
        /\ left \in 1 .. size[prog] /\ userNext = size[prog] - left + 1
    BY <1>0, <2>2, UserSizes DEF Typed, UserCounts, Mid
  <2>4. left' \in Nat
    BY <2>1, <2>3
  <2>5. Registers'
    BY <1>0, <1>1, <2>1, <2>4 DEF Registers, Mid
  <2>6. CoreCounts'
    <3>1. coreNext = BootFrames + 2 * prog
      BY <1>0, <2>2, Numbers, Sizes DEF Typed, CoreCounts
    <3>2. coreNext' = BootFrames + 2 * prog'
      BY <2>1, <3>1
    <3>3. pc' \in {"tss", "image"} /\ pc' \notin Mid
      BY <2>1 DEF Mid
    <3> QED BY <2>2, <3>2, <3>3 DEF CoreCounts
  <2>7. UserCounts'
    <3>1. CASE left = 1
      <4>1. userNext' = size[prog]
        BY <2>1, <2>3, <3>1
      <4> QED BY <2>1, <2>2, <2>3, <3>1, <4>1 DEF UserCounts, Mid
    <3>2. CASE left # 1
      <4>1. left' \in 1 .. size[prog] /\ userNext' = size[prog] - left'
        BY <2>1, <2>3, <3>2
      <4> QED BY <2>1, <2>2, <2>3, <3>2, <4>1 DEF UserCounts, Mid
    <3> QED BY <3>1, <3>2
  <2>8. LastPage'
    BY <2>1 DEF LastPage, Mid
  <2> QED BY <2>5, <2>6, <2>7, <2>8 DEF Typed
<1>3. CASE CreateTss
  <2>1. /\ purpose = "tss" /\ pc' = "ldt" /\ tssAt' = [tssAt EXCEPT ![prog] = ebx]
        /\ UNCHANGED <<used, coreNext, userNext, prog, left, size, cr3, purpose, ebx, eax, halt>>
    BY <1>3 DEF CreateTss, Using, space
  <2>2. Kind = "tss" /\ Kind' = "ldt"
    BY <1>0, <2>1 DEF Kind, Mid
  <2>3. tssAt' \in [Program \cup {0} -> Index \X Index]
    BY <1>0, <2>1 DEF Registers
  <2>4. Registers'
    BY <1>0, <1>1, <2>1, <2>3 DEF Registers, Mid
  <2>5. CoreCounts'
    <3>1. coreNext = BootFrames + 2 * prog + 1
      BY <1>0, <2>2, Numbers, Sizes DEF Typed, CoreCounts, Mid
    <3>2. coreNext' = BootFrames + 2 * prog' + 1
      BY <2>1, <3>1
    <3> QED BY <2>1, <2>2, <3>2 DEF CoreCounts, Mid
  <2>6. UserCounts'
    BY <1>0, <2>1, <2>2 DEF Typed, UserCounts, Mid
  <2>7. LastPage'
    BY <2>1 DEF LastPage, Mid
  <2> QED BY <2>4, <2>5, <2>6, <2>7 DEF Typed
<1>4. CASE CreateLdt
  <2>1. /\ purpose = "ldt" /\ pc' = "stack" /\ left' = StackPages
        /\ UNCHANGED <<used, coreNext, userNext, prog, size, tssAt, cr3, purpose, ebx, eax, halt>>
    BY <1>4 DEF CreateLdt, Using, space
  <2>2. Kind = "ldt" /\ Kind' = "stack"
    BY <1>0, <2>1 DEF Kind, Mid
  <2>3. Registers'
    <3>1. left' \in Nat
      BY <2>1, Sizes
    <3> QED BY <1>0, <1>1, <2>1, <3>1 DEF Registers, Mid
  <2>4. CoreCounts'
    BY <1>0, <2>1, <2>2 DEF Typed, CoreCounts, Mid
  <2>5. UserCounts'
    <3>1. /\ size[prog] \in ImageSizes /\ size[prog] \in Nat
          /\ userNext = size[prog] + 1
      BY <1>0, <2>2, UserSizes DEF Typed, UserCounts, Mid
    <3>2. left' \in 1 .. StackPages
      BY <2>1, Sizes
    <3>3. userNext' = size[prog] + 1 + StackPages - left'
      BY <2>1, <3>1, Sizes
    <3> QED BY <2>1, <2>2, <3>1, <3>2, <3>3 DEF UserCounts, Mid
  <2>6. LastPage'
    BY <2>1 DEF LastPage, Mid
  <2> QED BY <2>3, <2>4, <2>5, <2>6 DEF Typed
<1>5. CASE CreateStack
  <2>1. /\ purpose = "stack" /\ left' = left - 1
        /\ pc' = IF left = 1 THEN "relocate" ELSE "stack"
        /\ UNCHANGED <<used, coreNext, userNext, prog, size, tssAt, cr3, purpose, ebx, eax, halt>>
    BY <1>5 DEF CreateStack, Using, space
  <2>2. Kind = "stack" /\ Kind' = pc'
    BY <1>0, <2>1 DEF Kind, Mid
  <2>3. /\ size[prog] \in ImageSizes /\ size[prog] \in Nat
        /\ left \in 1 .. StackPages /\ userNext = size[prog] + 2 + StackPages - left
    BY <1>0, <2>2, UserSizes DEF Typed, UserCounts, Mid
  <2>4. left' \in Nat
    BY <2>1, <2>3, Sizes
  <2>5. Registers'
    BY <1>0, <1>1, <2>1, <2>4 DEF Registers, Mid
  <2>6. CoreCounts'
    BY <1>0, <2>1, <2>2 DEF Typed, CoreCounts, Mid
  <2>7. UserCounts'
    <3>1. CASE left = 1
      <4>1. userNext' = size[prog] + 1 + StackPages
        BY <2>1, <2>3, <3>1, Sizes
      <4> QED BY <2>1, <2>2, <2>3, <3>1, <4>1 DEF UserCounts, Mid
    <3>2. CASE left # 1
      <4>1. /\ left' \in 1 .. StackPages
            /\ userNext' = size[prog] + 1 + StackPages - left'
        BY <2>1, <2>3, <3>2, Sizes
      <4> QED BY <2>1, <2>2, <2>3, <3>2, <4>1 DEF UserCounts, Mid
    <3> QED BY <3>1, <3>2
  <2>8. LastPage'
    BY <2>1 DEF LastPage, Mid
  <2> QED BY <2>5, <2>6, <2>7, <2>8 DEF Typed
<1> QED BY <1>2, <1>3, <1>4, <1>5

LEMMA ClearTyped ==
    ASSUME Typed, ClearLowHalf \/ ReloadCr3 \/ ReadHeader
    PROVE  Typed'
<1>0. Registers /\ pc # "done"
  BY DEF Typed, ClearLowHalf, ReloadCr3, ReadHeader
<1>a. prog \in Program
  BY <1>0 DEF Registers
<1>1. CASE ClearLowHalf
  <2>1. /\ pc = "clear" /\ pc' = "reload"
        /\ UNCHANGED <<used, coreNext, userNext, prog, left, size, tssAt, cr3, purpose, ebx, eax, halt>>
    BY <1>1 DEF ClearLowHalf, space, loading
  <2>2. PICK f \in Reached(Directory) :
            /\ Access(Directory, f)
            /\ mem' = [mem EXCEPT ![f] =
                        [i \in Index |-> IF i \in LowEntries THEN NotPresent ELSE @[i]]]
    BY <1>1 DEF ClearLowHalf
  <2>3. f \in Phys /\ tlb' \in SUBSET ((Index \X Index) \X Phys)
    BY <1>0, <2>2, AccessIs, DirectoryIs
  <2>4. mem' \in [Phys -> [Index -> Entry]]
    <3>1. mem \in [Phys -> [Index -> Entry]]
      BY <1>0 DEF Registers
    <3>2. [i \in Index |-> IF i \in LowEntries THEN NotPresent ELSE mem[f][i]] \in [Index -> Entry]
      BY <2>3, <3>1 DEF Entry
    <3> QED BY <2>2, <2>3, <3>1, <3>2
  <2>5. Registers'
    BY <1>0, <1>a, <2>1, <2>3, <2>4 DEF Registers, Mid
  <2>6. Kind = "clear" /\ Kind' = "reload"
    BY <2>1 DEF Kind, Mid
  <2>7. CoreCounts' /\ UserCounts' /\ LastPage'
    BY <2>1, <2>6 DEF Typed, CoreCounts, UserCounts, LastPage, Mid
  <2> QED BY <2>5, <2>7 DEF Typed
<1>2. CASE ReloadCr3
  <2>1. /\ pc = "reload" /\ pc' = "header" /\ tlb' \subseteq tlb
        /\ UNCHANGED <<mem, used, coreNext, userNext, prog, left, size, tssAt, cr3, purpose, ebx, eax, halt>>
    BY <1>2 DEF ReloadCr3, AfterReload, space, loading
  <2>2. Kind = "reload" /\ Kind' = "header"
    BY <2>1 DEF Kind, Mid
  <2>3. Registers'
    BY <1>0, <1>a, <2>1 DEF Registers, Mid
  <2>4. CoreCounts' /\ UserCounts' /\ LastPage'
    BY <2>1, <2>2 DEF Typed, CoreCounts, UserCounts, LastPage, Mid
  <2> QED BY <2>3, <2>4 DEF Typed
<1>3. CASE ReadHeader
  <2>1. PICK n \in ImageSizes : left' = n /\ size' = [size EXCEPT ![prog] = n]
    BY <1>3 DEF ReadHeader
  <2>2. /\ pc = "header" /\ pc' = "image"
        /\ UNCHANGED <<mem, used, tlb, coreNext, userNext, prog, tssAt, cr3, purpose, ebx, eax, halt>>
    BY <1>3 DEF ReadHeader, space
  <2>3. Kind = "header" /\ Kind' = "image"
    BY <2>2 DEF Kind, Mid
  <2>4. n \in Nat /\ n > 0
    BY UserSizes
  <2>5. /\ size' \in [Program -> ImageSizes \cup {0}]
        /\ size'[prog] = n
    BY <1>0, <1>a, <2>1 DEF Registers
  <2>6. Registers'
    <3>1. left' \in Nat
      BY <2>1, <2>4
    <3> QED BY <1>0, <1>a, <2>2, <2>5, <3>1 DEF Registers, Mid
  <2>7. CoreCounts'
    BY <2>2, <2>3 DEF Typed, CoreCounts, Mid
  <2>8. UserCounts'
    <3>1. userNext = 0
      BY <2>3 DEF Typed, UserCounts
    <3>2. /\ size'[prog'] = n /\ left' \in 1 .. n /\ userNext' = n - left'
      BY <2>1, <2>2, <2>4, <2>5, <3>1
    <3> QED BY <2>2, <2>3, <3>2 DEF UserCounts, Mid
  <2>9. LastPage'
    BY <2>2 DEF LastPage, Mid
  <2> QED BY <2>6, <2>7, <2>8, <2>9 DEF Typed
<1> QED BY <1>1, <1>2, <1>3

LEMMA FinishTyped ==
    ASSUME Typed, Relocate \/ SetNewDirectory \/ CopyDirectory
    PROVE  Typed'
<1>0. Registers /\ pc # "done"
  BY DEF Typed, Relocate, SetNewDirectory, CopyDirectory
<1>a. prog \in Program /\ prog \in Nat /\ prog >= 1 /\ prog <= Programs
  <2>1. prog \in 1 .. Programs
    BY <1>0 DEF Registers, Program
  <2> QED BY <2>1, Sizes DEF Program
<1>b. mem \in [Phys -> [Index -> Entry]] /\ tlb \in SUBSET ((Index \X Index) \X Phys)
  BY <1>0 DEF Registers
<1>1. CASE Relocate
  <2>1. /\ pc = "relocate" /\ pc' = "pdir"
        /\ UNCHANGED <<used, coreNext, userNext, prog, left, size, tssAt, cr3, purpose, ebx, eax, halt>>
    BY <1>1 DEF Relocate, space, loading
  <2>2. PICK f \in Reached(UserPage(0)) :
            Access(UserPage(0), f) /\ mem' = [mem EXCEPT ![f] = Filled("image", prog)]
    BY <1>1 DEF Relocate
  <2>3. f \in Phys /\ tlb' \in SUBSET ((Index \X Index) \X Phys)
    <3>1. UserPage(0) \in Index \X Index
      BY UserSizes, UserPageIs
    <3> QED BY <1>0, <2>2, <3>1, AccessIs
  <2>4. mem' \in [Phys -> [Index -> Entry]]
    <3>1. prog \in 0 .. Programs
      BY <1>a, Sizes
    <3>2. Filled("image", prog) \in [Index -> Entry]
      BY <3>1 DEF Filled, Entry, Content
    <3> QED BY <1>b, <2>2, <2>3, <3>2
  <2>5. Registers'
    BY <1>0, <1>a, <2>1, <2>3, <2>4 DEF Registers, Mid
  <2>6. Kind = "relocate" /\ Kind' = "pdir"
    BY <2>1 DEF Kind, Mid
  <2>7. CoreCounts' /\ UserCounts' /\ LastPage'
    BY <2>1, <2>6 DEF Typed, CoreCounts, UserCounts, LastPage, Mid
  <2> QED BY <2>5, <2>7 DEF Typed
<1>2. CASE SetNewDirectory
  <2>1. /\ pc = "set pdir" /\ pc' = "copy"
        /\ UNCHANGED <<used, coreNext, userNext, prog, left, size, tssAt, cr3, purpose, ebx, eax, halt>>
    BY <1>2 DEF SetNewDirectory, space, loading
  <2>2. PICK f \in Reached(Directory) :
            /\ mem' = [mem EXCEPT ![f][Copy] = ToFrame(eax)]
            /\ tlb' = IF ReloadsCr3 THEN { c \in tlb : c[1] # Directory }
                      ELSE tlb \cup {<<Directory, f>>}
    BY <1>2 DEF SetNewDirectory
  <2>3. f \in Phys
    BY <1>0, ReachedIs, DirectoryIs
  <2>4. tlb' \in SUBSET ((Index \X Index) \X Phys)
    BY <1>b, <2>2, <2>3, DirectoryIs
  <2>5. mem' \in [Phys -> [Index -> Entry]]
    BY <1>0, <2>2, <2>3, SetIs, Frames
  <2>6. Registers'
    BY <1>0, <1>a, <2>1, <2>4, <2>5 DEF Registers, Mid
  <2>7. Kind = "set pdir" /\ Kind' = "copy"
    BY <2>1 DEF Kind, Mid
  <2>8. CoreCounts' /\ UserCounts' /\ LastPage'
    BY <2>1, <2>7 DEF Typed, CoreCounts, UserCounts, LastPage, Mid
  <2> QED BY <2>6, <2>8 DEF Typed
<1>3. CASE CopyDirectory
  <2>1. /\ pc = "copy" /\ pc' = IF prog < Programs THEN "tcb" ELSE "done"
        /\ prog' = prog + 1 /\ cr3' = [cr3 EXCEPT ![prog] = eax]
        /\ UNCHANGED <<used, coreNext, userNext, left, size, tssAt, purpose, ebx, eax, halt>>
    BY <1>3 DEF CopyDirectory, space
  <2>2. PICK f \in Reached(Directory), g \in Reached(NewDirectory) :
            /\ tlb' = tlb \cup {<<Directory, f>>, <<NewDirectory, g>>}
            /\ mem' = [mem EXCEPT ![g] = mem[f]]
    BY <1>3 DEF CopyDirectory
  <2>3. f \in Phys /\ g \in Phys
    BY <1>0, ReachedIs, DirectoryIs
  <2>4. tlb' \in SUBSET ((Index \X Index) \X Phys)
    BY <1>b, <2>2, <2>3, DirectoryIs
  <2>5. mem' \in [Phys -> [Index -> Entry]]
    BY <1>b, <2>2, <2>3
  <2>6. cr3' \in [Program -> Phys]
    BY <1>0, <2>1 DEF Registers
  <2>7. /\ prog' \in Nat \ {0} /\ prog' <= Programs + 1
        /\ pc' # "done" => prog' \in Program
        /\ pc' = "done" => prog = Programs
    BY <1>a, <2>1, Sizes DEF Program
  <2>8. Registers'
    <3>1. pc' \in {"tcb", "done"}
      BY <2>1
    <3> QED BY <1>0, <2>1, <2>4, <2>5, <2>6, <2>7, <3>1 DEF Registers, Mid
  <2>9. Kind = "copy" /\ Kind' = pc'
    BY <2>1 DEF Kind, Mid
  <2>10. CoreCounts'
    <3>1. coreNext = BootFrames + 2 * prog + 1
      BY <2>9 DEF Typed, CoreCounts
    <3>2. coreNext' = BootFrames + 2 * prog' - 1
      BY <1>a, <2>1, <3>1, Sizes
    <3>3. pc' = "done" => coreNext' = BootFrames + 2 * Programs + 1
      BY <2>1, <2>7, <3>1
    <3>4. pc' \in {"tcb", "done"}
      BY <2>1
    <3> QED BY <2>9, <3>2, <3>3, <3>4 DEF CoreCounts, Mid
  <2>11. UserCounts' /\ LastPage'
    <3>1. pc' \in {"tcb", "done"}
      BY <2>1
    <3> QED BY <2>9, <3>1 DEF UserCounts, LastPage, Mid
  <2> QED BY <2>8, <2>10, <2>11 DEF Typed
<1> QED BY <1>1, <1>2, <1>3

LEMMA TypedStep == Typed /\ [Next]_vars => Typed'
<1> SUFFICES ASSUME Typed, [Next]_vars PROVE Typed'
  OBVIOUS
<1>1. CASE Allocate \/ NoMorePages \/ WokenFromHalt
  BY <1>1, AllocateTyped
<1>2. CASE AllocInstAPage
  BY <1>2, CoreLinearTyped, UserLinearTyped, InstallTyped DEF AllocInstAPage
<1>3. CASE UsePage
  BY <1>3, CorePagesTyped, ProgramPagesTyped DEF UsePage
<1>4. CASE Load
  BY <1>4, ClearTyped, FinishTyped DEF Load
<1>5. CASE Preempted
  <2>1. /\ tlb' = {}
        /\ UNCHANGED <<mem, used, coreNext, userNext, prog, left, size, tssAt, cr3,
                       pc, purpose, ebx, eax, halt>>
    BY <1>5 DEF Preempted, space, loading
  <2>2. Registers'
    BY <2>1 DEF Typed, Registers
  <2>3. Kind' = Kind
    BY <2>1 DEF Kind
  <2>4. CoreCounts'
    BY <2>1, <2>3 DEF Typed, CoreCounts
  <2>5. UserCounts'
    BY <2>1, <2>3 DEF Typed, UserCounts
  <2>6. LastPage'
    BY <2>1 DEF Typed, LastPage
  <2> QED BY <2>2, <2>4, <2>5, <2>6 DEF Typed
<1>6. CASE UNCHANGED vars
  <2>1. UNCHANGED <<mem, used, tlb, coreNext, userNext, prog, left, size, tssAt, cr3,
                    pc, purpose, ebx, eax, halt>>
    BY <1>6 DEF vars
  <2>2. Registers'
    BY <2>1 DEF Typed, Registers
  <2>3. Kind' = Kind
    BY <2>1 DEF Kind
  <2>4. CoreCounts'
    BY <2>1, <2>3 DEF Typed, CoreCounts
  <2>5. UserCounts'
    BY <2>1, <2>3 DEF Typed, UserCounts
  <2>6. LastPage'
    BY <2>1 DEF Typed, LastPage
  <2> QED BY <2>2, <2>4, <2>5, <2>6 DEF Typed
<1> QED BY <1>1, <1>2, <1>3, <1>4, <1>5, <1>6 DEF Next

(* What the counts are for: the bounds of the linear addresses.            *)
LEMMA TypedMeans == Typed => TypeOK
<1> SUFFICES ASSUME Typed PROVE TypeOK
  OBVIOUS
<1>1. Registers
  BY DEF Typed
<1>2. DOMAIN mem = Phys /\ \A f \in Phys : DOMAIN mem[f] = Index
  BY <1>1 DEF Registers
<1>3. \A f \in Phys, i \in Index : Target(f, i) \subseteq Phys
  BY <1>1, TargetIs
<1>4. coreNext \in 0 .. Entries
  <2>1. coreNext \in Nat /\ prog \in Nat
    BY <1>1, Numbers
  <2>2. pc # "done" => prog <= Programs
    <3>1. pc # "done" => prog \in 1 .. Programs
      BY <1>1 DEF Registers, Program
    <3> QED BY <3>1, Sizes
  <2>3. CASE Kind = "core tss"
    <3>1. coreNext = BootFrames \/ coreNext = BootFrames + 1
      BY <2>3 DEF Typed, CoreCounts, Kind
    <3> QED BY <2>1, <3>1, Sizes
  <2>4. CASE Kind \in {"tcb", "clear", "reload", "header", "image", "tss",
                       "ldt", "stack", "relocate", "pdir", "set pdir", "copy"}
    <3>1. pc # "done"
      BY <2>4 DEF Kind, Mid
    <3>2. coreNext <= BootFrames + 2 * prog + 1
      <4>1. \/ coreNext = BootFrames + 2 * prog - 1
            \/ coreNext = BootFrames + 2 * prog
            \/ coreNext = BootFrames + 2 * prog + 1
        BY <2>4 DEF Typed, CoreCounts, Kind
      <4> QED BY <2>1, <4>1, Sizes
    <3> QED BY <2>1, <2>2, <3>1, <3>2, Sizes
  <2>5. CASE pc = "done"
    <3>1. coreNext = BootFrames + 2 * Programs + 1
      BY <2>5 DEF Typed, CoreCounts
    <3> QED BY <2>1, <3>1, Sizes
  <2>6. Kind \in {"core tss", "tcb", "clear", "reload", "header", "image", "tss",
                  "ldt", "stack", "relocate", "pdir", "set pdir", "copy"} \/ pc = "done"
    BY <1>1 DEF Registers, Kind, Mid
  <2> QED BY <2>3, <2>4, <2>5, <2>6
<1>5. prog \in 1 .. (Programs + 1)
  <2>1. prog \in Nat \ {0} /\ prog <= Programs + 1
    BY <1>1 DEF Registers
  <2> QED BY <2>1, Sizes
<1> QED BY <1>1, <1>2, <1>3, <1>4, <1>5 DEF Registers, TypeOK, Mid

(* The registers and fields keep their types, the counters of the linear   *)
(* addresses stay in their halves, and entries lead to frames there are.   *)
THEOREM TypeCorrect == Spec => []TypeOK
BY TypedInit, TypedStep, TypedMeans, PTL DEF Spec

-----------------------------------------------------------------------------
(* Frames and their owners.                                                *)

LowIndex == 0 .. (Half - 1)
CoreIndex == BootFrames .. (Entries - 1)

(* The low half of the directory still is that of the program before.      *)
Before == Kind \in {"core tss", "tcb", "clear", "done"}

(* The processor may still hold what it led to.                            *)
Stale == Before \/ pc = "reload"

(* The page tables of program u, the one being loaded included.            *)
LowTable(u, i) ==
    IF cr3[u] # 0 THEN Target(cr3[u], i)
    ELSE IF u = prog /\ ~Before THEN Target(CorePdt, i)
    ELSE {}

-----------------------------------------------------------------------------
(* Who owns a frame.                                                       *)
Free == <<"free", 0, 0, 0>>
Kernel == <<"kernel", 0, 0, 0>>
Pending == <<"pending", 0, 0, 0>>
CoreSlot(k) == <<"core", k, 0, 0>>
DirectoryOf(u) == <<"directory", u, 0, 0>>
TableSlot(u, i) == <<"table", u, i, 0>>
PageSlot(u, i, j) == <<"page", u, i, j>>

KindOf(o) == o[1]
ProgramOf(o) == o[2]

Owner == {"free", "kernel", "pending", "core", "directory", "table", "page"}
             \X Nat \X Nat \X Nat

(* What is not entered in a table: free frames, the kernel's own, and the  *)
(* one just allocated.                                                     *)
Reserved(own) ==
    /\ own \in [Phys -> Owner]
    /\ own[CorePdt] = Kernel /\ own[CorePt] = Kernel
    /\ \A f \in Phys : f \notin used => own[f] = Free
    /\ \A f \in Phys : own[f] \in {Free, Pending} => mem[f] = [i \in Index |-> Unwritten]
    /\ pc \in {"set table", "set page", "set pdir", "copy"} => own[eax] = Pending

Slots(own) ==
    /\ \A k \in CoreIndex : \A f \in Target(CorePt, k) : own[f] = CoreSlot(k)
    /\ \A u \in Program, i \in LowIndex : \A t \in LowTable(u, i) :
          /\ own[t] = TableSlot(u, i)
          /\ \A j \in Index : \A f \in Target(t, j) : own[f] = PageSlot(u, i, j)
    /\ \A u \in Program : cr3[u] # 0 => own[cr3[u]] = DirectoryOf(u)

Owned(own) == Reserved(own) /\ Slots(own)

(* The entries by which the directory is reached, and the kernel's table.  *)
Root ==
    /\ \A u \in Program : cr3[u] # 0 <=> u < prog
    /\ mem[CorePdt][Self] = ToFrame(CorePdt)
    /\ mem[CorePdt][Half] = ToFrame(CorePt)
    /\ ~Before => \A i \in LowIndex : \/ mem[CorePdt][i] = NotPresent
                                      \/ mem[CorePdt][i][1] = "frame"
    /\ pc = "copy" => mem[CorePdt][Copy] = ToFrame(eax)
    /\ \A u \in Program : cr3[u] # 0 => mem[cr3[u]][Half] = ToFrame(CorePt)

(* Pages for which a translation the processor kept is still right.        *)
CoreSide == {Directory, TableOf(Half)} \cup { <<Half, k>> : k \in CoreIndex }
LowSide == { TableOf(i) : i \in LowIndex } \cup (LowIndex \X Index)

Kept ==
    /\ \A c \in tlb : c[1] \in CoreSide => Walk(CorePdt, c[1]) = {c[2]}
    /\ ~Stale => \A c \in tlb : /\ c[1] \in LowSide => Walk(CorePdt, c[1]) = {c[2]}
                                /\ c[1] # NewDirectory

(* Pages that have not been installed are not mapped.                      *)
Installing == pc \in Mid \ {"use"}
CoreBound == IF Installing /\ purpose \in CorePurpose THEN coreNext - 1 ELSE coreNext
UserBound == IF Installing /\ purpose \notin CorePurpose THEN userNext - 1 ELSE userNext

Fresh ==
    /\ \A k \in CoreIndex : k >= CoreBound => Target(CorePt, k) = {}
    /\ ~Before => \A k \in 0 .. (Entries * Half - 1) :
          k >= UserBound => Walk(CorePdt, UserPage(k)) = {}

(* How far the installation is.                                            *)
Ready ==
    /\ pc \in {"table", "set table"} =>
          purpose \notin CorePurpose /\ mem[CorePdt][ebx[1]] = NotPresent
    /\ pc \in {"page", "set page", "use"} => Target(CorePdt, ebx[1]) # {}
    /\ pc = "use" => Walk(CorePdt, ebx) # {}

-----------------------------------------------------------------------------
(* What the pages hold.                                                    *)
HoldsLow(u, k, what) ==
    \E t \in LowTable(u, UserPage(k)[1]) : \E f \in Target(t, UserPage(k)[2]) :
        mem[f] = Filled(what, u)

ImageDone ==
    IF Kind \in {"reload", "header"} THEN 0
    ELSE IF Kind = "image" THEN size[prog] - left
    ELSE size[prog]

HasLdt == Kind \in {"stack", "relocate", "pdir", "set pdir", "copy"}

LoadedImages ==
    \A u \in Program : cr3[u] # 0 =>
        /\ size[u] \in ImageSizes
        /\ \A k \in 0 .. (size[u] - 1) : HoldsLow(u, k, "image")
        /\ HoldsLow(u, size[u], "ldt")

Images ==
    /\ LoadedImages
    /\ ~Before => \A k \in 0 .. (ImageDone - 1) : HoldsLow(prog, k, "image")
    /\ HasLdt => HoldsLow(prog, size[prog], "ldt")

CoreDone == IF pc \in Mid /\ purpose \in CorePurpose THEN coreNext - 1 ELSE coreNext

HasTss(v) ==
    \/ v = 0 /\ Kind # "core tss"
    \/ v \in Program /\ v < prog
    \/ v \in Program /\ v = prog /\ (Kind = "ldt" \/ HasLdt)

TssAt(v) ==
    \E k \in CoreIndex :
        /\ k < CoreDone
        /\ tssAt[v] = <<Half, k>>
        /\ \E f \in Target(CorePt, k) : mem[f] = Filled("tss", v)

Tsss == \A v \in Program \cup {0} : HasTss(v) => TssAt(v)

Mapped == Root /\ Kept /\ Fresh /\ Ready /\ Images /\ Tsss

IInv == PagesSuffice => Mapped /\ \E own : Owned(own)

(* How the tables change in a step: what is mapped stays, or nothing is    *)
(* mapped that was not, or both.                                           *)
Grows ==
    /\ \A k \in CoreIndex : Target(CorePt, k) \subseteq Target(CorePt, k)'
    /\ \A u \in Program, i \in LowIndex : \A t \in LowTable(u, i) :
          /\ t \in LowTable(u, i)'
          /\ \A j \in Index : Target(t, j) \subseteq Target(t, j)'

Shrinks ==
    /\ \A k \in CoreIndex : Target(CorePt, k)' \subseteq Target(CorePt, k)
    /\ \A u \in Program, i \in LowIndex : \A t \in LowTable(u, i)' :
          /\ t \in LowTable(u, i)
          /\ \A j \in Index : Target(t, j)' \subseteq Target(t, j)

(* The frames of program u's pages hold what they held.                    *)
PagesStay(u) ==
    \A i \in LowIndex : \A t \in LowTable(u, i) :
        \A j \in Index : \A f \in Target(t, j) : mem'[f] = mem[f]

-----------------------------------------------------------------------------
LEMMA Indices ==
    /\ LowIndex \subseteq Index /\ CoreIndex \subseteq Index
    /\ Half \notin LowIndex /\ Copy \notin LowIndex /\ Self \notin LowIndex
    /\ Copy # Half /\ Copy # Self /\ Half # Self
    /\ \A i \in LowIndex : i \in Nat
    /\ \A k \in CoreIndex : k \in Nat
BY Sizes DEF LowIndex, CoreIndex, Index, Copy, Self

LEMMA OneTarget == \A f, i : \A g \in Target(f, i) : Target(f, i) = {g}
BY DEF Target

LEMMA OneTargetNext == (\A f, i : \A g \in Target(f, i) : Target(f, i) = {g})'
BY OneTarget, PTL

(* Tables that agree lead to the same frames.                              *)
LEMMA SameTarget ==
    ASSUME NEW f, NEW i, mem'[f][i] = mem[f][i]
    PROVE  Target(f, i)' = Target(f, i)
BY DEF Target

LEMMA ToFrameTarget ==
    \A f, i, g : mem[f][i] = ToFrame(g) => Target(f, i) = {g}
BY DEF Target, ToFrame

(* Two tables lead to a page.                                              *)
LEMMA WalkOne ==
    \A d, p, t : Target(d, p[1]) = {t} => Walk(d, p) = Target(t, p[2])
BY DEF Walk

LEMMA WalkOneNext ==
    (\A d, p, t : Target(d, p[1]) = {t} => Walk(d, p) = Target(t, p[2]))'
BY WalkOne, PTL

LEMMA WalkNone ==
    \A d, p : Target(d, p[1]) = {} => Walk(d, p) = {}
BY DEF Walk

LEMMA WalkNoneNext ==
    (\A d, p : Target(d, p[1]) = {} => Walk(d, p) = {})'
BY WalkNone, PTL

(* A page that is mapped is mapped through one table to one frame.         *)
LEMMA WalkSome ==
    ASSUME NEW d, NEW p, Walk(d, p) # {}
    PROVE  \E t, f : Target(d, p[1]) = {t} /\ Target(t, p[2]) = {f} /\ Walk(d, p) = {f}
<1>1. PICK t : t \in Target(d, p[1])
  <2>1. Target(d, p[1]) # {}
    BY WalkNone
  <2> QED BY <2>1
<1>2. Target(d, p[1]) = {t}
  BY <1>1, OneTarget
<1>3. Walk(d, p) = Target(t, p[2])
  BY <1>2, WalkOne
<1>4. PICK f : f \in Target(t, p[2])
  BY <1>3
<1>5. Target(t, p[2]) = {f}
  BY <1>4, OneTarget
<1> QED BY <1>2, <1>3, <1>5

(* The directory is reached through itself, the kernel's pages through     *)
(* the table the boot sector made.                                         *)
LEMMA Paths ==
    Root => /\ Walk(CorePdt, Directory) = {CorePdt}
            /\ \A i \in Index : Walk(CorePdt, TableOf(i)) = Target(CorePdt, i)
            /\ \A k \in Index : Walk(CorePdt, <<Half, k>>) = Target(CorePt, k)
            /\ Target(CorePdt, Half) = {CorePt}
<1> SUFFICES ASSUME Root
             PROVE  /\ Walk(CorePdt, Directory) = {CorePdt}
                    /\ \A i \in Index : Walk(CorePdt, TableOf(i)) = Target(CorePdt, i)
                    /\ \A k \in Index : Walk(CorePdt, <<Half, k>>) = Target(CorePt, k)
                    /\ Target(CorePdt, Half) = {CorePt}
  OBVIOUS
<1>1. Target(CorePdt, Self) = {CorePdt} /\ Target(CorePdt, Half) = {CorePt}
  BY ToFrameTarget DEF Root
<1>2. ASSUME NEW i \in Index PROVE Walk(CorePdt, TableOf(i)) = Target(CorePdt, i)
  <2>1. TableOf(i)[1] = Self /\ TableOf(i)[2] = i
    BY DEF TableOf
  <2> QED BY <1>1, <2>1, WalkOne
<1>3. ASSUME NEW k \in Index PROVE Walk(CorePdt, <<Half, k>>) = Target(CorePt, k)
  <2>1. <<Half, k>>[1] = Half /\ <<Half, k>>[2] = k
    OBVIOUS
  <2> QED BY <1>1, <2>1, WalkOne
<1>4. Walk(CorePdt, Directory) = {CorePdt}
  <2>1. Directory = TableOf(Self) /\ Self \in Index
    BY Frames DEF Directory, TableOf
  <2> QED BY <1>1, <1>2, <2>1
<1> QED BY <1>1, <1>2, <1>3, <1>4

LEMMA PathsNext ==
    Root' => (/\ Walk(CorePdt, Directory) = {CorePdt}
              /\ \A i \in Index : Walk(CorePdt, TableOf(i)) = Target(CorePdt, i)
              /\ \A k \in Index : Walk(CorePdt, <<Half, k>>) = Target(CorePt, k)
              /\ Target(CorePdt, Half) = {CorePt})'
BY Paths, PTL

(* The tables of the program being loaded are in the kernel's directory.   *)
LEMMA LowOfLoading ==
    Registers /\ Root /\ ~Before =>
        prog \in Program /\ cr3[prog] = 0 /\ \A i : LowTable(prog, i) = Target(CorePdt, i)
<1> SUFFICES ASSUME Registers, Root, ~Before
             PROVE  prog \in Program /\ cr3[prog] = 0
                      /\ \A i : LowTable(prog, i) = Target(CorePdt, i)
  OBVIOUS
<1>1. pc # "done"
  BY DEF Before, Kind, Mid
<1>2. prog \in Program /\ prog \in Nat
  BY <1>1 DEF Registers
<1>3. ~(prog < prog)
  BY <1>2
<1>4. cr3[prog] = 0
  BY <1>2, <1>3 DEF Root
<1> QED BY <1>2, <1>4 DEF LowTable

LEMMA LowOfLoadingNext ==
    Registers' /\ Root' /\ ~Before' =>
        (prog \in Program /\ cr3[prog] = 0 /\ \A i : LowTable(prog, i) = Target(CorePdt, i))'
BY LowOfLoading, PTL

-----------------------------------------------------------------------------
(* A translation that was right stays right when the tables only grow.     *)
LEMMA WalkGrows ==
    ASSUME Registers, Registers', Root, Root', Grows, NEW p, NEW f,
           Walk(CorePdt, p) = {f},
           p \in CoreSide \/ (p \in LowSide /\ ~Before /\ ~Before' /\ prog' = prog)
    PROVE  Walk(CorePdt, p)' = {f}
<1>1. CASE p = Directory
  BY <1>1, Paths, PathsNext
<1>2. CASE p = TableOf(Half)
  BY <1>2, Paths, PathsNext, Frames
<1>3. ASSUME NEW k \in CoreIndex, p = <<Half, k>> PROVE Walk(CorePdt, p)' = {f}
  <2>1. k \in Index
    BY Indices
  <2>2. f \in Target(CorePt, k)
    BY <1>3, <2>1, Paths
  <2>3. f \in Target(CorePt, k)'
    BY <2>2 DEF Grows
  <2>4. Target(CorePt, k)' = {f}
    BY <2>3, OneTargetNext
  <2>5. Walk(CorePdt, <<Half, k>>)' = Target(CorePt, k)'
    BY <2>1, PathsNext
  <2> QED BY <1>3, <2>4, <2>5
<1>4. ASSUME ~Before, ~Before', prog' = prog, NEW i \in LowIndex, NEW t \in Target(CorePdt, i)
      PROVE  /\ Target(CorePdt, i)' = {t}
             /\ \A j \in Index : Target(t, j) \subseteq Target(t, j)'
  <2>1. prog \in Program /\ t \in LowTable(prog, i)
    BY <1>4, LowOfLoading
  <2>2. t \in LowTable(prog, i)' /\ \A j \in Index : Target(t, j) \subseteq Target(t, j)'
    <3>1. \A u \in Program : t \in LowTable(u, i) =>
            t \in LowTable(u, i)' /\ \A j \in Index : Target(t, j) \subseteq Target(t, j)'
      BY DEF Grows
    <3> QED BY <1>4, <2>1, <3>1 DEF LowTable
  <2>3. t \in Target(CorePdt, i)'
    BY <1>4, <2>2, LowOfLoadingNext
  <2> QED BY <2>2, <2>3, OneTargetNext
<1>5. ASSUME ~Before, ~Before', prog' = prog, NEW i \in LowIndex, p = TableOf(i)
      PROVE  Walk(CorePdt, p)' = {f}
  <2>1. i \in Index
    BY Indices
  <2>2. f \in Target(CorePdt, i)
    BY <1>5, <2>1, Paths
  <2>3. Target(CorePdt, i)' = {f}
    BY <1>4, <1>5, <2>2
  <2>4. Walk(CorePdt, TableOf(i))' = Target(CorePdt, i)'
    BY <2>1, PathsNext
  <2> QED BY <1>5, <2>3, <2>4
<1>6. ASSUME ~Before, ~Before', prog' = prog, p \in LowIndex \X Index
      PROVE  Walk(CorePdt, p)' = {f}
  <2>1. p[1] \in LowIndex /\ p[2] \in Index
    BY <1>6
  <2>2. PICK t : Target(CorePdt, p[1]) = {t} /\ Target(t, p[2]) = {f}
    <3>1. PICK t, g : Target(CorePdt, p[1]) = {t} /\ Target(t, p[2]) = {g} /\ Walk(CorePdt, p) = {g}
      BY WalkSome
    <3> QED BY <3>1
  <2>3. Target(CorePdt, p[1])' = {t} /\ Target(t, p[2]) \subseteq Target(t, p[2])'
    BY <1>4, <1>6, <2>1, <2>2
  <2>4. Target(t, p[2])' = {f}
    BY <2>2, <2>3, OneTargetNext
  <2>5. Target(CorePdt, p[1])' = {t} => Walk(CorePdt, p)' = Target(t, p[2])'
    BY WalkOneNext
  <2> QED BY <2>3, <2>4, <2>5
<1> QED BY <1>1, <1>2, <1>3, <1>5, <1>6 DEF CoreSide, LowSide

(* The new directory's page is none of those kept.                         *)
LEMMA Sides == NewDirectory \notin CoreSide \cup LowSide
BY Indices DEF NewDirectory, CoreSide, LowSide, Directory, TableOf

(* The translation of page p to frame f is used and may be kept.           *)
LEMMA KeptStep ==
    ASSUME Registers, Registers', Root, Root', Kept, Grows,
           NEW p, NEW f, Walk(CorePdt, p) = {f},
           p \in CoreSide \/ (p \in LowSide /\ ~Before /\ ~Before' /\ prog' = prog),
           tlb' \subseteq tlb \cup {<<p, f>>},
           Stale' \/ (~Stale /\ prog' = prog)
    PROVE  Kept'
<1>1. \A c \in tlb' : c \in tlb \/ (c[1] = p /\ c[2] = f)
  OBVIOUS
<1>2. Walk(CorePdt, p)' = {f} /\ p # NewDirectory
  BY WalkGrows, Sides
<1>3. ASSUME NEW c \in tlb', c[1] \in CoreSide
      PROVE  Walk(CorePdt, c[1])' = {c[2]}
  <2>1. CASE c \in tlb
    <3>1. Walk(CorePdt, c[1]) = {c[2]}
      BY <1>3, <2>1 DEF Kept
    <3> QED BY <1>3, <3>1, WalkGrows
  <2>2. CASE c[1] = p /\ c[2] = f
    BY <1>2, <2>2
  <2> QED BY <1>1, <2>1, <2>2
<1>4. ASSUME ~Stale', NEW c \in tlb', c[1] \in LowSide
      PROVE  Walk(CorePdt, c[1])' = {c[2]}
  <2>1. ~Stale /\ prog' = prog /\ ~Before /\ ~Before'
    BY <1>4 DEF Stale
  <2>2. CASE c \in tlb
    <3>1. Walk(CorePdt, c[1]) = {c[2]}
      BY <1>4, <2>1, <2>2 DEF Kept
    <3> QED BY <1>4, <2>1, <3>1, WalkGrows
  <2>3. CASE c[1] = p /\ c[2] = f
    BY <1>2, <2>3
  <2> QED BY <1>1, <2>2, <2>3
<1>5. ASSUME ~Stale', NEW c \in tlb' PROVE c[1] # NewDirectory
  <2>1. ~Stale
    BY <1>5
  <2> QED BY <1>1, <1>2, <2>1 DEF Kept
<1> QED BY <1>3, <1>4, <1>5 DEF Kept

(* Nothing is mapped beyond the pages handed out.                          *)
LEMMA FreshStep ==
    ASSUME Registers, Registers', Root, Root', Fresh, Shrinks,
           CoreBound \in Int, CoreBound' \in Int, CoreBound' >= CoreBound,
           Before' \/ (/\ ~Before /\ prog' = prog
                       /\ UserBound \in Int /\ UserBound' \in Int /\ UserBound' >= UserBound)
    PROVE  Fresh'
<1>1. ASSUME NEW k \in CoreIndex, k >= CoreBound' PROVE Target(CorePt, k)' = {}
  <2>1. k \in Nat
    BY Indices
  <2>2. k >= CoreBound
    BY <1>1, <2>1
  <2>3. Target(CorePt, k) = {}
    BY <2>2 DEF Fresh
  <2> QED BY <2>3 DEF Shrinks
<1>2. ASSUME ~Before', NEW k \in 0 .. (Entries * Half - 1), k >= UserBound'
      PROVE  Walk(CorePdt, UserPage(k))' = {}
  <2>1. ~Before /\ prog' = prog /\ k >= UserBound
    <3>1. k \in Nat
      BY UserSizes
    <3> QED BY <1>2, <3>1
  <2>2. Walk(CorePdt, UserPage(k)) = {}
    BY <2>1 DEF Fresh
  <2>3. UserPage(k)[1] \in LowIndex /\ UserPage(k)[2] \in Index
    BY UserSizes, Sizes, UserPageIs DEF LowIndex
  <2> DEFINE i == UserPage(k)[1]
             j == UserPage(k)[2]
  <2>4. prog \in Program
          /\ Target(CorePdt, i) = LowTable(prog, i) /\ Target(CorePdt, i)' = LowTable(prog, i)'
    BY <1>2, <2>1, LowOfLoading, LowOfLoadingNext
  <2>5. \A t \in Target(CorePdt, i)' : t \in Target(CorePdt, i) /\ Target(t, j)' \subseteq Target(t, j)
    <3>1. \A u \in Program : \A t \in LowTable(u, i)' :
             t \in LowTable(u, i) /\ Target(t, j)' \subseteq Target(t, j)
      BY <2>3 DEF Shrinks
    <3>2. \A t \in LowTable(prog, i)' :
             t \in LowTable(prog, i) /\ Target(t, j)' \subseteq Target(t, j)
      BY <2>1, <2>4, <3>1 DEF LowTable
    <3> QED BY <2>4, <3>2
  <2> QED BY <2>2, <2>5 DEF Walk
<1> QED BY <1>1, <1>2 DEF Fresh

(* A page keeps what it holds unless its frame is written to.              *)
LEMMA HoldsStays ==
    ASSUME Grows, NEW u \in Program, NEW k, NEW what, HoldsLow(u, k, what),
           UserPage(k)[1] \in LowIndex, UserPage(k)[2] \in Index,
           \A t \in LowTable(u, UserPage(k)[1]) : \A f \in Target(t, UserPage(k)[2]) :
               mem[f] = Filled(what, u) => mem'[f] = Filled(what, u)
    PROVE  HoldsLow(u, k, what)'
<1> DEFINE i == UserPage(k)[1]
           j == UserPage(k)[2]
<1>1. PICK t \in LowTable(u, i) : \E f \in Target(t, j) : mem[f] = Filled(what, u)
  BY DEF HoldsLow
<1>2. PICK f \in Target(t, j) : mem[f] = Filled(what, u)
  BY <1>1
<1>3. t \in LowTable(u, i)' /\ f \in Target(t, j)'
  BY <1>1, <1>2 DEF Grows
<1>4. mem'[f] = Filled(what, u)
  BY <1>1, <1>2
<1> QED BY <1>3, <1>4 DEF HoldsLow

LEMMA TssStays ==
    ASSUME Grows, NEW v, TssAt(v), tssAt'[v] = tssAt[v],
           CoreDone \in Int, CoreDone' \in Int, CoreDone' >= CoreDone,
           \A k \in CoreIndex : k < CoreDone => \A f \in Target(CorePt, k) :
               mem'[f] = mem[f]
    PROVE  TssAt(v)'
<1>1. PICK k \in CoreIndex :
          /\ k < CoreDone
          /\ tssAt[v] = <<Half, k>>
          /\ \E f \in Target(CorePt, k) : mem[f] = Filled("tss", v)
  BY DEF TssAt
<1>2. PICK f \in Target(CorePt, k) : mem[f] = Filled("tss", v)
  BY <1>1
<1>3. k \in Nat
  BY Indices
<1>4. k < CoreDone'
  BY <1>1, <1>3
<1>5. f \in Target(CorePt, k)' /\ mem'[f] = Filled("tss", v)
  BY <1>1, <1>2 DEF Grows
<1> QED BY <1>1, <1>4, <1>5 DEF TssAt

(* Owners of different kinds differ.                                       *)
LEMMA OwnerKinds ==
    /\ KindOf(Free) = "free" /\ KindOf(Kernel) = "kernel" /\ KindOf(Pending) = "pending"
    /\ \A k : KindOf(CoreSlot(k)) = "core"
    /\ \A u : KindOf(DirectoryOf(u)) = "directory"
    /\ \A u, i : KindOf(TableSlot(u, i)) = "table"
    /\ \A u, i, j : KindOf(PageSlot(u, i, j)) = "page" /\ ProgramOf(PageSlot(u, i, j)) = u
BY DEF KindOf, ProgramOf, Free, Kernel, Pending, CoreSlot, DirectoryOf, TableSlot, PageSlot

LEMMA TableOwner == \A u, i : ProgramOf(TableSlot(u, i)) = u
BY DEF ProgramOf, TableSlot

(* The slots are as different as what they are slots of.                   *)
LEMMA OwnerSlots ==
    /\ \A k, l : CoreSlot(k) = CoreSlot(l) => k = l
    /\ \A u, v : DirectoryOf(u) = DirectoryOf(v) => u = v
    /\ \A u, i, v, k : TableSlot(u, i) = TableSlot(v, k) => u = v /\ i = k
    /\ \A u, i, j, v, k, l :
          PageSlot(u, i, j) = PageSlot(v, k, l) => u = v /\ i = k /\ j = l
BY DEF CoreSlot, DirectoryOf, TableSlot, PageSlot
-----------------------------------------------------------------------------
(* Where the loader is.                                                    *)
LEMMA UserPageLow ==
    ASSUME NEW k \in Nat, k < Entries * Half
    PROVE  UserPage(k)[1] \in LowIndex /\ UserPage(k)[2] \in Index
<1>1. UserPage(k)[1] \in Nat /\ UserPage(k)[1] < Half /\ UserPage(k)[2] \in Index
  BY UserPageIs
<1> QED BY <1>1, Sizes DEF LowIndex

LEMMA CoreRoom ==
    /\ BootFrames + 2 * Programs + 1 > BootFrames
    /\ BootFrames + 2 * Programs + 1 <= Entries
    /\ \A n \in 1 .. Programs :
          /\ BootFrames + 1 > BootFrames /\ BootFrames + 1 <= Entries
          /\ BootFrames + 2 * n - 1 > BootFrames /\ BootFrames + 2 * n - 1 <= Entries
          /\ BootFrames + 2 * n > BootFrames /\ BootFrames + 2 * n <= Entries
          /\ BootFrames + 2 * n + 1 > BootFrames /\ BootFrames + 2 * n + 1 <= Entries
BY Sizes

LEMMA CoreCount ==
    ASSUME Typed, pc # "core tss"
    PROVE  coreNext \in Nat /\ coreNext > BootFrames /\ coreNext <= Entries
<1>0. Registers /\ CoreCounts
  BY DEF Typed
<1>1. coreNext \in Nat /\ prog \in Nat
  BY <1>0 DEF Registers
<1>3. Kind = pc \/ (pc \in Mid /\ Kind = purpose)
  BY DEF Kind
<1>4. CASE pc = "done"
  <2>1. coreNext = BootFrames + 2 * Programs + 1
    BY <1>0, <1>4 DEF CoreCounts
  <2> QED BY <1>1, <2>1, CoreRoom
<1>5. CASE pc # "done"
  <2>1. pc \in Mid => purpose \in {"core tss", "tcb", "image", "tss", "ldt", "stack"}
    BY <1>0 DEF Registers
  <2>2. pc \notin Mid => pc \in {"tcb", "image", "tss", "ldt", "stack", "clear",
                        "reload", "header", "relocate", "pdir", "set pdir", "copy"}
    BY <1>0, <1>5 DEF Registers
  <2>3. \/ coreNext = BootFrames + 1
        \/ coreNext = BootFrames + 2 * prog - 1
        \/ coreNext = BootFrames + 2 * prog
        \/ coreNext = BootFrames + 2 * prog + 1
    <3>1. CASE pc \in Mid
      <4>1. Kind = purpose
        BY <3>1 DEF Kind
      <4> QED BY <1>0, <2>1, <3>1, <4>1 DEF CoreCounts
    <3>2. CASE pc \notin Mid
      <4>1. Kind = pc
        BY <3>2 DEF Kind
      <4> QED BY <1>0, <2>2, <3>2, <4>1 DEF CoreCounts
    <3> QED BY <3>1, <3>2
  <2>4. prog \in 1 .. Programs
    BY <1>0, <1>5 DEF Registers, Program
  <2> QED BY <1>1, <2>3, <2>4, CoreRoom
<1> QED BY <1>4, <1>5

LEMMA AtCorePage ==
    ASSUME Typed, pc \in Mid, purpose \in CorePurpose
    PROVE  /\ coreNext \in Nat /\ coreNext - 1 \in CoreIndex
           /\ ebx = <<Half, coreNext - 1>> /\ ebx[1] = Half /\ ebx[2] = coreNext - 1
<1>1. pc # "core tss"
  BY DEF Mid
<1>2. coreNext \in Nat /\ coreNext > BootFrames /\ coreNext <= Entries
  BY <1>1, CoreCount
<1>3. coreNext - 1 \in Nat /\ coreNext - 1 < Entries /\ coreNext - 1 \in CoreIndex
  BY <1>2, Sizes DEF CoreIndex
<1>4. ebx = CorePage(coreNext - 1)
  BY DEF Typed, LastPage
<1>5. CorePage(coreNext - 1) = <<Half, coreNext - 1>>
  BY <1>3, CorePageIs
<1> QED BY <1>2, <1>3, <1>4, <1>5

LEMMA AtUserPage ==
    ASSUME Typed, pc \in Mid, purpose \notin CorePurpose
    PROVE  /\ userNext \in Nat /\ userNext - 1 \in Nat /\ userNext - 1 < Entries * Half
           /\ ebx = UserPage(userNext - 1)
           /\ ebx[1] \in LowIndex /\ ebx[2] \in Index
           /\ ~Before /\ ~Stale /\ prog \in Program
<1>1. Kind = purpose /\ purpose \in {"image", "ldt", "stack"}
  BY DEF Typed, Registers, Kind, CorePurpose
<1>2. /\ size[prog] \in Nat /\ size[prog] > 0 /\ size[prog] + 1 + StackPages <= Entries * Half
  <2>1. size[prog] \in ImageSizes
    BY <1>1 DEF Typed, UserCounts
  <2> QED BY <2>1, UserSizes
<1>3. /\ purpose = "image" => left \in 1 .. size[prog] /\ userNext = size[prog] - left + 1
      /\ purpose = "ldt" => userNext = size[prog] + 1
      /\ purpose = "stack" => left \in 1 .. StackPages /\ userNext = size[prog] + 2 + StackPages - left
  BY <1>1 DEF Typed, UserCounts
<1>4. userNext \in Nat /\ userNext - 1 \in Nat /\ userNext - 1 < Entries * Half
  BY <1>1, <1>2, <1>3, Sizes, UserSizes
<1>5. ebx = UserPage(userNext - 1)
  BY DEF Typed, LastPage
<1>6. UserPage(userNext - 1)[1] \in LowIndex /\ UserPage(userNext - 1)[2] \in Index
  BY <1>4, UserPageLow
<1>7. ~Before /\ ~Stale
  BY <1>1 DEF Before, Stale, Mid
<1>8. prog \in Program
  <2>1. pc # "done"
    BY DEF Mid
  <2> QED BY <2>1 DEF Typed, Registers
<1> QED BY <1>4, <1>5, <1>6, <1>7, <1>8

LEMMA Bounds ==
    Typed => CoreBound \in Int /\ UserBound \in Int /\ CoreDone \in Int
<1> SUFFICES ASSUME Typed PROVE CoreBound \in Int /\ UserBound \in Int /\ CoreDone \in Int
  OBVIOUS
<1>1. coreNext \in Nat /\ userNext \in Nat
  BY Numbers DEF Typed
<1>2. coreNext \in Int /\ coreNext - 1 \in Int /\ userNext \in Int /\ userNext - 1 \in Int
  BY <1>1
<1> QED BY <1>2 DEF CoreBound, UserBound, CoreDone

LEMMA BoundsNext ==
    Typed' => (CoreBound \in Int /\ UserBound \in Int /\ CoreDone \in Int)'
BY Bounds, PTL

(* An access to a page of which only one translation can have been kept.   *)
LEMMA ReachedKept ==
    ASSUME Kept, NEW p, NEW f, Walk(CorePdt, p) = {f},
           p \in CoreSide \/ (p \in LowSide /\ ~Stale)
    PROVE  Reached(p) = {f}
<1>1. \A c \in tlb : c[1] = p => Walk(CorePdt, c[1]) = {c[2]}
  BY DEF Kept
<1> QED BY <1>1 DEF Reached

LEMMA ReachedDirectory ==
    ASSUME Root, Kept
    PROVE  Reached(Directory) = {CorePdt} /\ Walk(CorePdt, Directory) = {CorePdt}
             /\ Directory \in CoreSide
<1>1. Directory \in CoreSide
  BY DEF CoreSide
<1> QED BY <1>1, Paths, ReachedKept

(* The table through which the page is installed.                          *)
LEMMA ReachedTable ==
    ASSUME Typed, Mapped, NEW own, Owned(own), pc = "set page"
    PROVE  \E t \in Phys :
              /\ Reached(TableOf(ebx[1])) = {t} /\ Walk(CorePdt, TableOf(ebx[1])) = {t}
              /\ Target(CorePdt, ebx[1]) = {t}
              /\ IF purpose \in CorePurpose
                 THEN t = CorePt /\ TableOf(ebx[1]) \in CoreSide
                 ELSE /\ t \in LowTable(prog, ebx[1]) /\ own[t] = TableSlot(prog, ebx[1])
                      /\ TableOf(ebx[1]) \in LowSide
<1>1. pc \in Mid /\ Registers /\ Root /\ Kept
  BY DEF Typed, Mapped, Mid
<1>2. CASE purpose \in CorePurpose
  <2>1. ebx[1] = Half
    BY <1>1, <1>2, AtCorePage
  <2>2. TableOf(Half) \in CoreSide
    BY DEF CoreSide
  <2>3. Target(CorePdt, Half) = {CorePt} /\ Walk(CorePdt, TableOf(Half)) = {CorePt}
    BY <1>1, Paths, Frames
  <2>4. Reached(TableOf(Half)) = {CorePt}
    BY <1>1, <2>2, <2>3, ReachedKept
  <2> QED BY <1>2, <2>1, <2>2, <2>3, <2>4, Frames
<1>3. CASE purpose \notin CorePurpose
  <2>1. ebx[1] \in LowIndex /\ ~Before /\ ~Stale /\ ebx[1] \in Index
    BY <1>1, <1>3, AtUserPage, Indices
  <2>2. PICK t : t \in Target(CorePdt, ebx[1])
    BY DEF Mapped, Ready
  <2>3. Target(CorePdt, ebx[1]) = {t} /\ t \in Phys
    BY <1>1, <2>1, <2>2, TargetIs, Frames
  <2>4. Walk(CorePdt, TableOf(ebx[1])) = {t}
    BY <1>1, <2>1, <2>3, Paths
  <2>5. TableOf(ebx[1]) \in LowSide
    BY <2>1 DEF LowSide
  <2>6. Reached(TableOf(ebx[1])) = {t}
    BY <1>1, <2>1, <2>4, <2>5, ReachedKept
  <2>7. prog \in Program /\ t \in LowTable(prog, ebx[1])
    BY <1>1, <2>1, <2>2, LowOfLoading
  <2>8. own[t] = TableSlot(prog, ebx[1])
    BY <2>1, <2>7 DEF Owned, Slots
  <2> QED BY <1>3, <2>3, <2>4, <2>5, <2>6, <2>7, <2>8
<1> QED BY <1>2, <1>3

(* The page just installed.                                                *)
LEMMA ReachedPage ==
    ASSUME Typed, Mapped, NEW own, Owned(own), pc = "use"
    PROVE  \E g \in Phys :
              /\ Reached(ebx) = {g} /\ Walk(CorePdt, ebx) = {g}
              /\ IF purpose \in CorePurpose
                 THEN /\ ebx \in CoreSide
                      /\ g \in Target(CorePt, coreNext - 1)
                      /\ own[g] = CoreSlot(coreNext - 1)
                 ELSE /\ ebx \in LowSide
                      /\ \E t \in LowTable(prog, ebx[1]) : g \in Target(t, ebx[2])
                      /\ own[g] = PageSlot(prog, ebx[1], ebx[2])
<1>1. pc \in Mid /\ Registers /\ Root /\ Kept
  BY DEF Typed, Mapped, Mid
<1>2. ebx \in Index \X Index /\ Walk(CorePdt, ebx) # {}
  BY DEF Typed, Registers, Mapped, Ready
<1>3. PICK t, g : Target(CorePdt, ebx[1]) = {t} /\ Target(t, ebx[2]) = {g} /\ Walk(CorePdt, ebx) = {g}
  BY <1>2, WalkSome
<1>4. g \in Phys
  <2>1. Walk(CorePdt, ebx) \subseteq Phys
    BY <1>1, <1>2, Frames, WalkIs
  <2> QED BY <1>3, <2>1
<1>5. CASE purpose \in CorePurpose
  <2>1. ebx[1] = Half /\ ebx[2] = coreNext - 1 /\ ebx = <<Half, coreNext - 1>> /\ coreNext - 1 \in CoreIndex
    BY <1>1, <1>5, AtCorePage
  <2>2. ebx \in CoreSide
    BY <2>1 DEF CoreSide
  <2>3. t = CorePt
    BY <1>1, <1>3, <2>1, Paths
  <2>4. own[g] = CoreSlot(coreNext - 1)
    BY <1>3, <2>1, <2>3 DEF Owned, Slots
  <2>5. Reached(ebx) = {g}
    BY <1>1, <1>3, <2>2, ReachedKept
  <2> QED BY <1>3, <1>4, <1>5, <2>1, <2>2, <2>3, <2>4, <2>5
<1>6. CASE purpose \notin CorePurpose
  <2>1. ebx[1] \in LowIndex /\ ebx[2] \in Index /\ ~Before /\ ~Stale
    BY <1>1, <1>6, AtUserPage
  <2>2. ebx \in LowSide
    BY <1>2, <2>1 DEF LowSide
  <2>3. prog \in Program /\ t \in LowTable(prog, ebx[1])
    BY <1>1, <1>3, <2>1, LowOfLoading
  <2>4. own[g] = PageSlot(prog, ebx[1], ebx[2])
    BY <1>3, <2>1, <2>3 DEF Owned, Slots
  <2>5. Reached(ebx) = {g}
    BY <1>1, <1>3, <2>1, <2>2, ReachedKept
  <2> QED BY <1>3, <1>4, <1>6, <2>2, <2>3, <2>4, <2>5
<1> QED BY <1>5, <1>6

-----------------------------------------------------------------------------
(* Steps that leave every table as it was.                                 *)
LEMMA SameTables ==
    ASSUME Registers, Root,
           cr3' = cr3, prog' = prog, Before' <=> Before,
           pc' = "copy" => pc = "copy" /\ eax' = eax,
           mem'[CorePdt] = mem[CorePdt], mem'[CorePt] = mem[CorePt],
           \A u \in Program : cr3[u] # 0 => mem'[cr3[u]] = mem[cr3[u]],
           \A u \in Program, i \in LowIndex : \A t \in LowTable(u, i) : mem'[t] = mem[t]
    PROVE  Root' /\ Grows /\ Shrinks
<1>1. Root'
  BY DEF Root
<1>2. \A i : Target(CorePdt, i)' = Target(CorePdt, i) /\ Target(CorePt, i)' = Target(CorePt, i)
  BY DEF Target
<1>3. ASSUME NEW u \in Program, NEW i \in LowIndex PROVE LowTable(u, i)' = LowTable(u, i)
  <2>1. cr3[u] # 0 => Target(cr3[u], i)' = Target(cr3[u], i)
    BY DEF Target
  <2> QED BY <1>2, <2>1 DEF LowTable
<1>4. ASSUME NEW u \in Program, NEW i \in LowIndex, NEW t \in LowTable(u, i), NEW j
      PROVE  Target(t, j)' = Target(t, j)
  BY <1>4 DEF Target
<1> QED BY <1>1, <1>2, <1>3, <1>4 DEF Grows, Shrinks

(* No page is written to.                                                  *)
LEMMA NoWrite ==
    ASSUME Registers, Root, mem' = mem, cr3' = cr3, prog' = prog, Before' <=> Before,
           pc' = "copy" => pc = "copy" /\ eax' = eax
    PROVE  Root' /\ Grows /\ Shrinks /\ \A u : PagesStay(u)
<1>1. Root' /\ Grows /\ Shrinks
  BY SameTables
<1> QED BY <1>1 DEF PagesStay

LEMMA TablesAreFrames ==
    ASSUME Registers, NEW u \in Program, NEW i \in LowIndex, NEW t \in LowTable(u, i)
    PROVE  t \in Phys /\ \A j \in Index : Target(t, j) \subseteq Phys
<1>1. i \in Index /\ cr3[u] \in Phys
  BY Indices DEF Registers
<1>2. t \in Target(cr3[u], i) \/ t \in Target(CorePdt, i)
  BY DEF LowTable
<1>3. t \in Phys
  BY <1>1, <1>2, TargetIs, Frames
<1> QED BY <1>3, TargetIs

(* Frames in tables keep their owners, and those entered get theirs.       *)
LEMMA SlotsGrow ==
    ASSUME Registers, NEW own, NEW now, Slots(own),
           \A f \in Phys : KindOf(own[f]) \in {"core", "table", "page", "directory"} => now[f] = own[f],
           \A k \in CoreIndex : \A f \in Target(CorePt, k)' :
              f \in Target(CorePt, k) \/ now[f] = CoreSlot(k),
           \A u \in Program, i \in LowIndex : \A t \in LowTable(u, i)' :
              /\ t \in LowTable(u, i) \/ now[t] = TableSlot(u, i)
              /\ \A j \in Index : \A f \in Target(t, j)' :
                    (t \in LowTable(u, i) /\ f \in Target(t, j)) \/ now[f] = PageSlot(u, i, j),
           \A u \in Program : cr3'[u] # 0 => now[cr3'[u]] = DirectoryOf(u)
    PROVE  Slots(now)'
<1>1. ASSUME NEW k \in CoreIndex, NEW f \in Target(CorePt, k)' PROVE now[f] = CoreSlot(k)
  <2>1. CASE f \in Target(CorePt, k)
    <3>1. own[f] = CoreSlot(k) /\ f \in Phys
      BY <2>1, Frames, Indices, TargetIs DEF Slots
    <3>2. KindOf(own[f]) = "core"
      BY <3>1, OwnerKinds
    <3> QED BY <3>1, <3>2
  <2> QED BY <1>1, <2>1
<1>2. ASSUME NEW u \in Program, NEW i \in LowIndex, NEW t \in LowTable(u, i)
      PROVE  /\ now[t] = TableSlot(u, i)
             /\ \A j \in Index : \A f \in Target(t, j) : now[f] = PageSlot(u, i, j)
  <2>1. /\ own[t] = TableSlot(u, i)
        /\ \A j \in Index : \A f \in Target(t, j) : own[f] = PageSlot(u, i, j)
    BY <1>2 DEF Slots
  <2>2. KindOf(own[t]) = "table"
    BY <2>1, OwnerKinds
  <2>3. t \in Phys /\ \A j \in Index : Target(t, j) \subseteq Phys
    BY <1>2, TablesAreFrames
  <2>4. ASSUME NEW j \in Index, NEW f \in Target(t, j) PROVE now[f] = PageSlot(u, i, j)
    <3>1. own[f] = PageSlot(u, i, j)
      BY <2>1, <2>4
    <3>2. KindOf(own[f]) = "page"
      BY <3>1, OwnerKinds
    <3> QED BY <2>3, <2>4, <3>1, <3>2
  <2> QED BY <2>1, <2>2, <2>3, <2>4
<1>3. ASSUME NEW u \in Program, NEW i \in LowIndex, NEW t \in LowTable(u, i)'
      PROVE  /\ now[t] = TableSlot(u, i)
             /\ \A j \in Index : \A f \in Target(t, j)' : now[f] = PageSlot(u, i, j)
  <2>1. /\ t \in LowTable(u, i) \/ now[t] = TableSlot(u, i)
        /\ \A j \in Index : \A f \in Target(t, j)' :
              (t \in LowTable(u, i) /\ f \in Target(t, j)) \/ now[f] = PageSlot(u, i, j)
    BY <1>3
  <2>2. \A e \in LowTable(u, i) :
           /\ now[e] = TableSlot(u, i)
           /\ \A j \in Index : \A f \in Target(e, j) : now[f] = PageSlot(u, i, j)
    BY <1>2
  <2> QED BY <2>1, <2>2
<1> QED BY <1>1, <1>3 DEF Slots

LEMMA SlotsStay ==
    ASSUME Registers, NEW own, NEW now, Slots(own), Shrinks,
           \A f \in Phys : KindOf(own[f]) \in {"core", "table", "page", "directory"} => now[f] = own[f],
           \A u \in Program : cr3'[u] # 0 => now[cr3'[u]] = DirectoryOf(u)
    PROVE  Slots(now)'
<1>1. \A k \in CoreIndex : \A f \in Target(CorePt, k)' : f \in Target(CorePt, k)
  BY DEF Shrinks
<1>2. ASSUME NEW u \in Program, NEW i \in LowIndex, NEW t \in LowTable(u, i)'
      PROVE  /\ t \in LowTable(u, i)
             /\ \A j \in Index : \A f \in Target(t, j)' : f \in Target(t, j)
  BY <1>2 DEF Shrinks
<1> QED BY <1>1, <1>2, SlotsGrow

(* A page is filled.                                                       *)
LEMMA PageWrite ==
    ASSUME Registers, Root, NEW own, Owned(own),
           NEW g \in Phys, KindOf(own[g]) \in {"core", "page"},
           NEW x, mem' = [mem EXCEPT ![g] = x],
           cr3' = cr3, prog' = prog, used' = used, Before' <=> Before,
           pc' \notin {"set table", "set page", "set pdir", "copy"}
    PROVE  /\ Root' /\ Grows /\ Shrinks /\ Owned(own)'
           /\ \A f \in Phys : f # g => mem'[f] = mem[f]
           /\ mem'[g] = x
           /\ \A u \in Program : KindOf(own[g]) = "core" \/ ProgramOf(own[g]) # u => PagesStay(u)
<1>1. /\ \A f \in Phys : f # g => mem'[f] = mem[f]
      /\ mem'[g] = x
  BY DEF Registers
<1>2. CorePdt # g /\ CorePt # g
  <2>1. KindOf(own[CorePdt]) = "kernel" /\ KindOf(own[CorePt]) = "kernel"
    BY OwnerKinds DEF Owned, Reserved
  <2> QED BY <2>1
<1>3. ASSUME NEW u \in Program, cr3[u] # 0 PROVE mem'[cr3[u]] = mem[cr3[u]]
  <2>1. cr3[u] \in Phys
    BY DEF Registers
  <2>2. KindOf(own[cr3[u]]) = "directory"
    BY <1>3, OwnerKinds DEF Owned, Slots
  <2> QED BY <1>1, <2>1, <2>2
<1>4. ASSUME NEW u \in Program, NEW i \in LowIndex, NEW t \in LowTable(u, i)
      PROVE  mem'[t] = mem[t]
  <2>1. own[t] = TableSlot(u, i)
    BY <1>4 DEF Owned, Slots
  <2>2. KindOf(own[t]) = "table"
    BY <2>1, OwnerKinds
  <2> QED BY <1>1, <1>4, <2>2, TablesAreFrames
<1>5. Root' /\ Grows /\ Shrinks
  BY <1>1, <1>2, <1>3, <1>4, Frames, SameTables
<1>6. ASSUME NEW u \in Program, KindOf(own[g]) = "core" \/ ProgramOf(own[g]) # u PROVE PagesStay(u)
  <2>1. ASSUME NEW i \in LowIndex, NEW t \in LowTable(u, i), NEW j \in Index, NEW f \in Target(t, j)
        PROVE  mem'[f] = mem[f]
    <3>1. Slots(own)
      BY DEF Owned
    <3>2. \A b \in Index : \A e \in Target(t, b) : own[e] = PageSlot(u, i, b)
      BY <2>1, <3>1 DEF Slots
    <3>3. own[f] = PageSlot(u, i, j)
      BY <2>1, <3>2
    <3>4. KindOf(own[f]) = "page" /\ ProgramOf(own[f]) = u
      BY <3>3, OwnerKinds
    <3>5. f # g
      BY <1>6, <3>4
    <3>6. f \in Phys
      BY <2>1, TablesAreFrames
    <3> QED BY <1>1, <3>5, <3>6
  <2> QED BY <2>1 DEF PagesStay
<1>7. Reserved(own)'
  <2>1. ASSUME NEW f \in Phys, own[f] \in {Free, Pending}
        PROVE  mem'[f] = [i \in Index |-> Unwritten]
    <3>1. f # g
      <4>1. KindOf(own[f]) \in {"free", "pending"}
        BY <2>1, OwnerKinds
      <4> QED BY <4>1
    <3>2. mem[f] = [i \in Index |-> Unwritten]
      BY <2>1 DEF Owned, Reserved
    <3> QED BY <1>1, <3>1, <3>2
  <2> QED BY <2>1 DEF Owned, Reserved
<1>8. Slots(own)'
  <2>1. \A u \in Program : cr3'[u] # 0 => own[cr3'[u]] = DirectoryOf(u)
    BY DEF Owned, Slots
  <2> QED BY <1>5, <2>1, SlotsStay DEF Owned
<1> QED BY <1>1, <1>5, <1>6, <1>7, <1>8 DEF Owned

(* Programs loaded before keep what they have.                             *)
LEMMA LoadedStay ==
    ASSUME LoadedImages, Grows, cr3' = cr3,
           \A u \in Program : cr3[u] # 0 => size'[u] = size[u] /\ PagesStay(u)
    PROVE  LoadedImages'
<1> SUFFICES ASSUME NEW u \in Program, cr3[u] # 0
             PROVE  /\ size[u] \in ImageSizes
                    /\ \A k \in 0 .. (size[u] - 1) : HoldsLow(u, k, "image")'
                    /\ HoldsLow(u, size[u], "ldt")'
  <2>1. \A u \in Program : cr3'[u] = cr3[u] /\ (cr3[u] # 0 => size'[u] = size[u])
    OBVIOUS
  <2> QED BY <2>1 DEF LoadedImages
<1>1. size[u] \in ImageSizes /\ size[u] \in Nat /\ size[u] < Entries * Half
  <2>1. size[u] \in ImageSizes
    BY DEF LoadedImages
  <2>2. size[u] \in Nat /\ size[u] + 1 + StackPages <= Entries * Half
    BY <2>1, UserSizes
  <2> QED BY <2>1, <2>2, Sizes, UserSizes
<1>2. ASSUME NEW k \in Nat, k < Entries * Half, NEW what, HoldsLow(u, k, what)
      PROVE  HoldsLow(u, k, what)'
  <2>1. UserPage(k)[1] \in LowIndex /\ UserPage(k)[2] \in Index
    BY <1>2, UserPageLow
  <2>2. \A t \in LowTable(u, UserPage(k)[1]) : \A f \in Target(t, UserPage(k)[2]) :
               mem'[f] = mem[f]
    BY <2>1 DEF PagesStay
  <2> QED BY <1>2, <2>1, <2>2, HoldsStays
<1>3. ASSUME NEW k \in 0 .. (size[u] - 1) PROVE HoldsLow(u, k, "image")'
  <2>1. k \in Nat /\ k < Entries * Half
    BY <1>1, UserSizes
  <2>2. HoldsLow(u, k, "image")
    BY DEF LoadedImages
  <2> QED BY <1>2, <2>1, <2>2
<1>4. HoldsLow(u, size[u], "ldt")'
  <2>1. HoldsLow(u, size[u], "ldt")
    BY DEF LoadedImages
  <2>2. PICK n : n = size[u]
    OBVIOUS
  <2>3. HoldsLow(u, n, "ldt")'
    BY <1>1, <1>2, <2>1, <2>2
  <2>4. size'[u] = n
    BY <2>2
  <2> QED BY <2>3, <2>4
<1> QED BY <1>1, <1>3, <1>4

-----------------------------------------------------------------------------
LEMMA LoadingSize ==
    ASSUME Typed, ~Before, Kind \notin {"reload", "header"}
    PROVE  size[prog] \in ImageSizes /\ size[prog] \in Nat /\ size[prog] > 0
             /\ size[prog] < Entries * Half
             /\ (Kind = "image" => left \in Nat /\ left >= 1 /\ left <= size[prog])
<1>1. Kind \in {"image", "tss", "ldt", "stack", "relocate", "pdir", "set pdir", "copy"}
  BY DEF Typed, Registers, Before, Kind, Mid
<1>2. size[prog] \in ImageSizes
  BY <1>1 DEF Typed, UserCounts
<1>3. size[prog] \in Nat /\ size[prog] > 0 /\ size[prog] + 1 + StackPages <= Entries * Half
  BY <1>2, UserSizes
<1>4. size[prog] < Entries * Half
  BY <1>3, Sizes, UserSizes
<1>5. Kind = "image" => left \in 1 .. size[prog]
  BY DEF Typed, UserCounts
<1>6. left \in 1 .. size[prog] => left \in Nat /\ left >= 1 /\ left <= size[prog]
  BY <1>3
<1> QED BY <1>2, <1>3, <1>4, <1>5, <1>6

LEMMA ImageRange ==
    Typed /\ ~Before => /\ ImageDone \in Int
                        /\ \A k \in 0 .. (ImageDone - 1) : k \in Nat /\ k < Entries * Half
<1> SUFFICES ASSUME Typed, ~Before
             PROVE  /\ ImageDone \in Int
                    /\ \A k \in 0 .. (ImageDone - 1) : k \in Nat /\ k < Entries * Half
  OBVIOUS
<1>1. CASE Kind \in {"reload", "header"}
  <2>1. ImageDone = 0
    BY <1>1 DEF ImageDone
  <2> QED BY <2>1
<1>2. CASE Kind \notin {"reload", "header"}
  <2>1. PICK n, l : n = size[prog] /\ l = left
    OBVIOUS
  <2>2. n \in Nat /\ n < Entries * Half /\ (Kind = "image" => l \in Nat /\ l >= 1 /\ l <= n)
    BY <1>2, <2>1, LoadingSize
  <2>3. ImageDone = n \/ (Kind = "image" /\ ImageDone = n - l)
    BY <1>2, <2>1 DEF ImageDone
  <2>4. CASE ImageDone = n
    BY <2>2, <2>4, UserSizes
  <2>5. CASE Kind = "image" /\ ImageDone = n - l
    <3>1. n \in Nat /\ l \in Nat /\ l >= 1 /\ l <= n /\ n < Entries * Half
      BY <2>2, <2>5
    <3>2. n - l \in Nat /\ n - l < Entries * Half
      BY <3>1, UserSizes
    <3> QED BY <2>5, <3>2, UserSizes
  <2> QED BY <2>3, <2>4, <2>5
<1> QED BY <1>1, <1>2

LEMMA ImageRangeNext ==
    Typed' /\ ~Before' => (/\ ImageDone \in Int
                           /\ \A k \in 0 .. (ImageDone - 1) : k \in Nat /\ k < Entries * Half)'
BY ImageRange, PTL

(* The pages of a program that have been read stay as they are.            *)
LEMMA PageHeld ==
    ASSUME Grows, NEW u \in Program, PagesStay(u), NEW k \in Nat, k < Entries * Half,
           NEW what, HoldsLow(u, k, what)
    PROVE  HoldsLow(u, k, what)'
<1>1. UserPage(k)[1] \in LowIndex /\ UserPage(k)[2] \in Index
  BY UserPageLow
<1>2. \A t \in LowTable(u, UserPage(k)[1]) : \A f \in Target(t, UserPage(k)[2]) :
           mem'[f] = mem[f]
  BY <1>1 DEF PagesStay
<1> QED BY <1>1, <1>2, HoldsStays

LEMMA ImagesStay ==
    ASSUME Typed, Typed', Registers, Root, Images, Grows, cr3' = cr3, prog' = prog,
           \A u \in Program : cr3[u] # 0 => size'[u] = size[u],
           \A u \in Program : PagesStay(u),
           Before' \/ (~Before /\ ImageDone' <= ImageDone),
           HasLdt' => HasLdt /\ size' = size
    PROVE  Images'
<1>1. LoadedImages'
  BY LoadedStay DEF Images
<1>2. PICK u : u = prog
  OBVIOUS
<1>3. ASSUME ~Before, NEW k \in Nat, k < Entries * Half, NEW what, HoldsLow(prog, k, what)
      PROVE  HoldsLow(prog, k, what)'
  <2>1. u \in Program /\ HoldsLow(u, k, what)
    BY <1>2, <1>3, LowOfLoading
  <2>2. HoldsLow(u, k, what)'
    BY <1>3, <2>1, PageHeld
  <2> QED BY <1>2, <2>2
<1>4. ASSUME ~Before', NEW k \in 0 .. (ImageDone' - 1) PROVE HoldsLow(prog, k, "image")'
  <2>1. ~Before /\ ImageDone' <= ImageDone /\ ImageDone \in Int /\ ImageDone' \in Int
    BY <1>4, ImageRange, ImageRangeNext
  <2>2. k \in 0 .. (ImageDone - 1)
    <3>1. \A a \in Int, b \in Int : b <= a => 0 .. (b - 1) \subseteq 0 .. (a - 1)
      OBVIOUS
    <3> QED BY <1>4, <2>1, <3>1
  <2>3. k \in Nat /\ k < Entries * Half
    BY <2>1, <2>2, ImageRange
  <2>4. HoldsLow(prog, k, "image")
    BY <2>1, <2>2 DEF Images
  <2> QED BY <1>3, <2>1, <2>3, <2>4
<1>5. ASSUME HasLdt' PROVE HoldsLow(prog, size[prog], "ldt")'
  <2>1. HasLdt /\ size' = size /\ HoldsLow(prog, size[prog], "ldt")
    BY <1>5 DEF Images
  <2>2. ~Before /\ Kind \notin {"reload", "header"}
    BY <2>1 DEF HasLdt, Before
  <2>3. PICK n : n = size[prog]
    OBVIOUS
  <2>4. n \in Nat /\ n < Entries * Half
    BY <2>2, <2>3, LoadingSize
  <2>5. HoldsLow(prog, n, "ldt")'
    BY <1>3, <2>1, <2>2, <2>3, <2>4
  <2>6. size'[prog'] = n
    BY <2>1, <2>3
  <2> QED BY <2>5, <2>6
<1> QED BY <1>1, <1>4, <1>5 DEF Images

LEMMA TsssStay ==
    ASSUME Typed, Typed', Tsss, Grows, tssAt' = tssAt, CoreDone' >= CoreDone,
           \A k \in CoreIndex : k < CoreDone => \A f \in Target(CorePt, k) : mem'[f] = mem[f],
           \A v \in Program \cup {0} : HasTss(v)' => HasTss(v)
    PROVE  Tsss'
<1>1. CoreDone \in Int /\ CoreDone' \in Int
  BY Bounds, BoundsNext
<1>2. ASSUME NEW v \in Program \cup {0}, HasTss(v)' PROVE TssAt(v)'
  <2>1. TssAt(v)
    BY <1>2 DEF Tsss
  <2> QED BY <1>1, <2>1, TssStays
<1> QED BY <1>2 DEF Tsss

(* Everything but what the step is about, when nothing is written.         *)
LEMMA Quiet ==
    ASSUME Typed, Typed', Mapped, mem' = mem, cr3' = cr3, prog' = prog, tssAt' = tssAt,
           \A u \in Program : cr3[u] # 0 => size'[u] = size[u],
           Before' <=> Before,
           pc' = "copy" => pc = "copy" /\ eax' = eax,
           CoreBound' >= CoreBound, CoreDone' >= CoreDone,
           Before' \/ (UserBound' >= UserBound /\ ImageDone' <= ImageDone),
           HasLdt' => HasLdt /\ size' = size,
           \A v \in Program \cup {0} : HasTss(v)' => HasTss(v)
    PROVE  Root' /\ Grows /\ Shrinks /\ Fresh' /\ Images' /\ Tsss'
<1>1. Registers /\ Registers' /\ Root /\ Fresh /\ Images /\ Tsss
  BY DEF Typed, Mapped
<1>2. Root' /\ Grows /\ Shrinks /\ \A u : PagesStay(u)
  BY <1>1, NoWrite
<1>3. CoreBound \in Int /\ CoreBound' \in Int /\ UserBound \in Int /\ UserBound' \in Int
  BY Bounds, BoundsNext
<1>4. Fresh'
  BY <1>1, <1>2, <1>3, FreshStep
<1>5. Images'
  BY <1>1, <1>2, ImagesStay
<1>6. Tsss'
  BY <1>1, <1>2, TsssStay
<1> QED BY <1>2, <1>4, <1>5, <1>6

-----------------------------------------------------------------------------
(* Translations that were kept and are dropped, or stay.                   *)
LEMMA NoAccess ==
    ASSUME Registers, Registers', Root, Root', Kept, Grows, tlb' \subseteq tlb,
           Stale' \/ (~Stale /\ prog' = prog)
    PROVE  Kept'
<1>1. Walk(CorePdt, Directory) = {CorePdt} /\ Directory \in CoreSide
  BY ReachedDirectory
<1> QED BY <1>1, KeptStep

(* A step allocates nothing and stores nothing.                            *)
LEMMA NothingAllocated ==
    ASSUME Typed, NEW own, Owned(own), Shrinks, mem' = mem, used' = used, cr3' = cr3,
           pc' \in {"set table", "set page", "set pdir", "copy"} =>
               pc \in {"set table", "set page", "set pdir", "copy"} /\ eax' = eax
    PROVE  Owned(own)'
<1>1. Reserved(own) /\ Slots(own)
  BY DEF Owned
<1>2. Reserved(own)'
  BY <1>1 DEF Reserved
<1>3. \A u \in Program : cr3'[u] # 0 => own[cr3'[u]] = DirectoryOf(u)
  BY <1>1 DEF Slots
<1>4. Slots(own)'
  BY <1>1, <1>3, SlotsStay DEF Typed
<1> QED BY <1>2, <1>4 DEF Owned

LEMMA AtLeast == \A a \in Int : \A b : b = a => b >= a
OBVIOUS

LEMMA BackOne == \A a \in Nat : a \in Int /\ a >= a - 1
OBVIOUS

LEMMA AtMost == \A a \in Int : \A b : b = a => b <= a
OBVIOUS

(* The loader goes on with the page it is installing, or with the next     *)
(* instruction of create_copy_cur_pdir.                                    *)
LEMMA QuietSame ==
    ASSUME Typed, Typed', Mapped, mem' = mem, loading' = loading, space' = space,
           Kind' = Kind \/ (Kind = "pdir" /\ Kind' = "set pdir"),
           pc' \in Mid <=> pc \in Mid, pc = "use" <=> pc' = "use",
           pc' = "copy" => pc = "copy" /\ eax' = eax
    PROVE  /\ Root' /\ Grows /\ Shrinks /\ Fresh' /\ Images' /\ Tsss'
           /\ Before' <=> Before
<1>1. UNCHANGED <<coreNext, userNext, prog, left, size, tssAt, cr3, purpose, ebx>>
  BY DEF space, loading
<1>2. Before' <=> Before
  BY DEF Before
<1>3. HasLdt' => HasLdt
  BY DEF HasLdt
<1>4. \A v \in Program \cup {0} : HasTss(v)' => HasTss(v)
  BY <1>1 DEF HasTss, HasLdt
<1>5. ImageDone' = ImageDone
  BY <1>1 DEF ImageDone
<1>6. CoreBound' = CoreBound /\ UserBound' = UserBound /\ CoreDone' = CoreDone
  BY <1>1 DEF CoreBound, UserBound, CoreDone, Installing
<1>7. CoreBound \in Int /\ UserBound \in Int /\ CoreDone \in Int
  BY Bounds
<1>8. CoreBound' >= CoreBound /\ CoreDone' >= CoreDone /\ UserBound' >= UserBound
  BY <1>6, <1>7, AtLeast
<1>9. Before' \/ ImageDone' <= ImageDone
  <2>1. ~Before => ImageDone \in Int
    BY ImageRange
  <2>2. ~Before => ImageDone' <= ImageDone
    BY <1>5, <2>1, AtMost
  <2> QED BY <1>2, <2>2
<1> QED BY <1>1, <1>2, <1>3, <1>4, <1>8, <1>9, Quiet

LEMMA PreemptedMapped ==
    ASSUME Typed, Typed', Mapped, NEW own, Owned(own), Preempted
    PROVE  Mapped' /\ Owned(own)'
<1>1. tlb' = {} /\ UNCHANGED <<mem, used, space, loading, pc, eax, halt>>
  BY DEF Preempted
<1>2. UNCHANGED <<coreNext, userNext, prog, left, size, tssAt, cr3, purpose, ebx>>
  BY <1>1 DEF space, loading
<1>3. Kind' = Kind
  BY <1>1, <1>2 DEF Kind
<1>4. Root' /\ Grows /\ Shrinks /\ Fresh' /\ Images' /\ Tsss'
  BY <1>1, <1>3, QuietSame
<1>5. Kept'
  BY <1>1 DEF Kept
<1>6. Ready'
  <2>1. Ready
    BY DEF Mapped
  <2> QED BY <1>1, <1>2, <2>1 DEF Ready, Walk, Target
<1>7. Owned(own)'
  BY <1>1, <1>2, <1>4, NothingAllocated
<1> QED BY <1>4, <1>5, <1>6, <1>7 DEF Mapped

LEMMA Presents ==
    /\ \A f : PresentBit(ToFrame(f)) = {TRUE}
    /\ PresentBit(NotPresent) = {FALSE}
    /\ \A e : e[1] = "frame" => PresentBit(e) = {TRUE}
<1>1. \A f : ToFrame(f)[1] = "frame"
  BY DEF ToFrame
<1>2. NotPresent[1] = "none"
  BY DEF NotPresent
<1>3. ASSUME NEW e, e[1] = "frame" PROVE PresentBit(e) = {TRUE}
  <2>1. e # NotPresent
    BY <1>3, <1>2
  <2> QED BY <1>3, <2>1 DEF PresentBit
<1>4. PresentBit(NotPresent) = {FALSE}
  <2>1. NotPresent[1] # "frame"
    BY <1>2
  <2> QED BY <2>1 DEF PresentBit
<1> QED BY <1>3, <1>1, <1>4

LEMMA TestTableMapped ==
    ASSUME Typed, Typed', Mapped, NEW own, Owned(own), TestTable
    PROVE  Mapped' /\ Owned(own)'
<1>0. Registers /\ Registers' /\ Root /\ Kept
  BY DEF Typed, Mapped
<1>1. pc = "test" /\ pc' \in {"page", "table"} /\ UNCHANGED <<used, eax, halt, space, loading, mem>>
  BY DEF TestTable
<1>2. UNCHANGED <<coreNext, userNext, prog, left, size, tssAt, cr3, purpose, ebx>>
  BY <1>1 DEF space, loading
<1>3. Kind' = Kind /\ pc \in Mid /\ pc' \in Mid
  BY <1>1, <1>2 DEF Kind, Mid
<1>4. Root' /\ Grows /\ Shrinks /\ Fresh' /\ Images' /\ Tsss' /\ (Before' <=> Before)
  BY <1>1, <1>3, QuietSame
<1>5. Reached(Directory) = {CorePdt} /\ Walk(CorePdt, Directory) = {CorePdt} /\ Directory \in CoreSide
  BY <1>0, ReachedDirectory
<1>6. /\ tlb' = tlb \cup {<<Directory, CorePdt>>}
      /\ \E present \in PresentBit(mem[CorePdt][ebx[1]]) :
            pc' = IF present THEN "page" ELSE "table"
  <2>1. PICK f \in Reached(Directory) :
          /\ Access(Directory, f)
          /\ \E present \in PresentBit(mem[f][ebx[1]]) :
                pc' = IF present THEN "page" ELSE "table"
    BY DEF TestTable
  <2>2. f = CorePdt
    BY <1>5
  <2> QED BY <2>1, <2>2 DEF Access
<1>7. Kept'
  <2>1. Stale' <=> Stale
    BY <1>1, <1>4 DEF Stale
  <2> QED BY <1>0, <1>2, <1>4, <1>5, <1>6, <2>1, KeptStep
<1>8. ASSUME purpose \in CorePurpose PROVE Ready'
  <2>1. ebx[1] = Half
    BY <1>3, <1>8, AtCorePage
  <2>2. Target(CorePdt, ebx[1]) = {CorePt} /\ mem[CorePdt][ebx[1]] = ToFrame(CorePt)
    BY <1>0, <2>1, Paths DEF Root
  <2>3. PresentBit(mem[CorePdt][ebx[1]]) = {TRUE}
    BY <2>2, Presents
  <2>4. pc' = "page"
    BY <1>6, <2>3
  <2>5. Target(CorePdt, ebx[1])' # {}
    BY <1>1, <1>2, <2>2 DEF Target
  <2> QED BY <2>4, <2>5 DEF Ready
<1>9. ASSUME purpose \notin CorePurpose PROVE Ready'
  <2>1. ebx[1] \in LowIndex /\ ~Before
    BY <1>3, <1>9, AtUserPage
  <2>2. mem[CorePdt][ebx[1]] = NotPresent \/ mem[CorePdt][ebx[1]][1] = "frame"
    BY <1>0, <2>1 DEF Root
  <2>3. CASE mem[CorePdt][ebx[1]] = NotPresent
    <3>1. PresentBit(mem[CorePdt][ebx[1]]) = {FALSE}
      BY <2>3, Presents
    <3>2. pc' = "table"
      BY <1>6, <3>1
    <3> QED BY <1>1, <1>2, <1>9, <2>3, <3>2 DEF Ready
  <2>4. CASE mem[CorePdt][ebx[1]][1] = "frame"
    <3>1. PresentBit(mem[CorePdt][ebx[1]]) = {TRUE}
      BY <2>4, Presents
    <3>2. pc' = "page"
      BY <1>6, <3>1
    <3>3. Target(CorePdt, ebx[1])' # {}
      BY <1>1, <1>2, <2>4 DEF Target
    <3> QED BY <3>2, <3>3 DEF Ready
  <2> QED BY <2>2, <2>3, <2>4
<1>10. Owned(own)'
  BY <1>1, <1>2, <1>4, NothingAllocated
<1> QED BY <1>4, <1>7, <1>8, <1>9, <1>10 DEF Mapped

(* The frame found becomes the one to be entered.                          *)
LEMMA AllocateMapped ==
    ASSUME Typed, Typed', Mapped, NEW own, Owned(own), Allocate
    PROVE  Mapped' /\ \E now : Owned(now)'
<1>0. Registers /\ Registers' /\ Root /\ Kept /\ Ready
  BY DEF Typed, Mapped
<1>1. /\ \/ pc = "table" /\ pc' = "set table"
         \/ pc = "page" /\ pc' = "set page"
         \/ pc = "pdir" /\ pc' = "set pdir"
      /\ UNCHANGED <<mem, tlb, halt, space, loading>>
  BY DEF Allocate, CallerOf
<1>2. UNCHANGED <<coreNext, userNext, prog, left, size, tssAt, cr3, purpose, ebx>>
  BY <1>1 DEF space, loading
<1>3. /\ Kind' = Kind \/ (Kind = "pdir" /\ Kind' = "set pdir")
      /\ pc' \in Mid <=> pc \in Mid
  BY <1>1, <1>2 DEF Kind, Mid
<1>4. Root' /\ Grows /\ Shrinks /\ Fresh' /\ Images' /\ Tsss' /\ (Before' <=> Before)
  BY <1>1, <1>3, QuietSame
<1>5. Kept'
  <2>1. Stale' <=> Stale
    BY <1>1, <1>4 DEF Stale
  <2> QED BY <1>0, <1>1, <1>2, <1>4, <2>1, NoAccess
<1>6. Ready'
  BY <1>0, <1>1, <1>2 DEF Ready, Target
<1>7. PICK f \in FreeFrame : used' = used \cup {f} /\ eax' = f
  BY DEF Allocate, Mark
<1>8. f \in Phys /\ f \notin used
  BY <1>7, Frames DEF FreeFrame
<1> DEFINE now == [own EXCEPT ![f] = Pending]
<1>9. Owned(now)'
  <2>1. Reserved(own) /\ Slots(own) /\ own \in [Phys -> Owner]
    BY DEF Owned, Reserved
  <2>2. own[f] = Free /\ KindOf(own[f]) = "free"
    BY <1>8, <2>1, OwnerKinds DEF Reserved
  <2>3. now[f] = Pending /\ \A e \in Phys : e # f => now[e] = own[e]
    BY <1>8, <2>1
  <2>4. now \in [Phys -> Owner]
    BY <2>1 DEF Owner, Pending
  <2> HIDE DEF now
  <2>5. \A e \in Phys : KindOf(own[e]) \in {"core", "table", "page", "directory"} => now[e] = own[e]
    BY <2>2, <2>3
  <2>6. \A u \in Program : cr3'[u] # 0 => now[cr3'[u]] = DirectoryOf(u)
    <3>1. ASSUME NEW u \in Program, cr3[u] # 0 PROVE now[cr3[u]] = DirectoryOf(u)
      <4>1. own[cr3[u]] = DirectoryOf(u)
        BY <2>1, <3>1 DEF Slots
      <4>2. KindOf(own[cr3[u]]) = "directory"
        BY <4>1, OwnerKinds
      <4>3. cr3[u] \in Phys
        BY <1>0 DEF Registers
      <4> QED BY <2>5, <4>1, <4>2, <4>3
    <3> QED BY <1>2, <3>1
  <2>7. Slots(now)'
    BY <1>0, <1>4, <2>1, <2>5, <2>6, SlotsStay
  <2>8. now[CorePdt] = Kernel /\ now[CorePt] = Kernel
    <3>1. own[CorePdt] = Kernel /\ own[CorePt] = Kernel /\ KindOf(Kernel) = "kernel"
      BY <2>1, OwnerKinds DEF Reserved
    <3>2. CorePdt # f /\ CorePt # f
      BY <2>2, <3>1
    <3> QED BY <2>3, <3>1, <3>2, Frames
  <2>9. \A e \in Phys : e \notin used' => now[e] = Free
    BY <1>7, <2>1, <2>3 DEF Reserved
  <2>10. \A e \in Phys : now[e] \in {Free, Pending} => mem[e] = [i \in Index |-> Unwritten]
    BY <2>1, <2>2, <2>3 DEF Reserved
  <2>11. Reserved(now)'
    BY <1>1, <1>7, <2>3, <2>4, <2>8, <2>9, <2>10 DEF Reserved
  <2> QED BY <2>7, <2>11 DEF Owned
<1> QED BY <1>4, <1>5, <1>6, <1>9 DEF Mapped

-----------------------------------------------------------------------------
(* Quiet steps that move the bounds.                                       *)
LEMMA CoreLinearMapped ==
    ASSUME Typed, Typed', Mapped, NEW own, Owned(own), AllocCoreLinear
    PROVE  Mapped' /\ Owned(own)'
<1>0. Registers /\ Registers' /\ Root /\ Kept
  BY DEF Typed, Mapped
<1>1. /\ pc \in {"core tss", "tcb", "tss"} /\ pc' = "test" /\ purpose' = pc
      /\ UNCHANGED <<mem, used, tlb, userNext, prog, left, size, tssAt, cr3, eax, halt>>
  BY DEF AllocCoreLinear, CorePurpose
<1>2. coreNext' = coreNext + 1 /\ coreNext \in Nat
  BY Numbers DEF AllocCoreLinear, Typed
<1>3. Kind = pc /\ Kind' = pc
  BY <1>1 DEF Kind, Mid
<1>4. CoreBound = coreNext /\ CoreBound' = coreNext' - 1 /\ CoreDone = coreNext /\ CoreDone' = coreNext' - 1
  BY <1>1 DEF CoreBound, CoreDone, Installing, Mid, CorePurpose
<1>5. CoreBound' >= CoreBound /\ CoreDone' >= CoreDone
  BY <1>2, <1>4
<1>6. UserBound' = UserBound
  BY <1>1 DEF UserBound, Installing, Mid, CorePurpose
<1>7. UserBound' >= UserBound
  BY <1>6, AtLeast, Bounds
<1>8. (Before' <=> Before) /\ (HasLdt' => HasLdt) /\ ImageDone' = ImageDone
  BY <1>1, <1>3 DEF Before, HasLdt, ImageDone
<1>9. \A v \in Program \cup {0} : HasTss(v)' => HasTss(v)
  BY <1>1, <1>3 DEF HasTss, HasLdt
<1>10. Before' \/ ImageDone' <= ImageDone
  BY <1>8, ImageRange, AtMost
<1>11. Root' /\ Grows /\ Shrinks /\ Fresh' /\ Images' /\ Tsss'
  BY <1>1, <1>5, <1>7, <1>8, <1>9, <1>10, Quiet
<1>12. Kept'
  <2>1. Stale' <=> Stale
    BY <1>1, <1>8 DEF Stale
  <2> QED BY <1>0, <1>1, <1>11, <2>1, NoAccess
<1>13. Ready'
  BY <1>1 DEF Ready
<1>14. Owned(own)'
  BY <1>1, <1>11, NothingAllocated
<1> QED BY <1>11, <1>12, <1>13, <1>14 DEF Mapped

LEMMA UserLinearMapped ==
    ASSUME Typed, Typed', Mapped, NEW own, Owned(own), AllocUserLinear
    PROVE  Mapped' /\ Owned(own)'
<1>0. Registers /\ Registers' /\ Root /\ Kept
  BY DEF Typed, Mapped
<1>1. /\ pc \in {"image", "ldt", "stack"} /\ pc' = "test" /\ purpose' = pc
      /\ UNCHANGED <<mem, used, tlb, coreNext, prog, left, size, tssAt, cr3, eax, halt>>
  BY DEF AllocUserLinear, CorePurpose
<1>2. userNext' = userNext + 1 /\ userNext \in Nat
  BY Numbers DEF AllocUserLinear, Typed
<1>3. Kind = pc /\ Kind' = pc
  BY <1>1 DEF Kind, Mid
<1>4. UserBound = userNext /\ UserBound' = userNext' - 1
  BY <1>1 DEF UserBound, Installing, Mid, CorePurpose
<1>5. UserBound' >= UserBound
  BY <1>2, <1>4
<1>6. CoreBound' = CoreBound /\ CoreDone' = CoreDone
  BY <1>1 DEF CoreBound, CoreDone, Installing, Mid, CorePurpose
<1>7. CoreBound' >= CoreBound /\ CoreDone' >= CoreDone
  BY <1>6, AtLeast, Bounds
<1>8. (Before' <=> Before) /\ (HasLdt' => HasLdt) /\ ImageDone' = ImageDone
  BY <1>1, <1>3 DEF Before, HasLdt, ImageDone
<1>9. \A v \in Program \cup {0} : HasTss(v)' => HasTss(v)
  BY <1>1, <1>3 DEF HasTss, HasLdt
<1>10. Before' \/ ImageDone' <= ImageDone
  BY <1>8, ImageRange, AtMost
<1>11. Root' /\ Grows /\ Shrinks /\ Fresh' /\ Images' /\ Tsss'
  BY <1>1, <1>5, <1>7, <1>8, <1>9, <1>10, Quiet
<1>12. Kept'
  <2>1. Stale' <=> Stale
    BY <1>1, <1>8 DEF Stale
  <2> QED BY <1>0, <1>1, <1>11, <2>1, NoAccess
<1>13. Ready'
  BY <1>1 DEF Ready
<1>14. Owned(own)'
  BY <1>1, <1>11, NothingAllocated
<1> QED BY <1>11, <1>12, <1>13, <1>14 DEF Mapped

LEMMA ReloadMapped ==
    ASSUME ReloadsCr3, Typed, Typed', Mapped, NEW own, Owned(own), ReloadCr3
    PROVE  Mapped' /\ Owned(own)'
<1>1. /\ pc = "reload" /\ pc' = "header" /\ tlb' = {}
      /\ UNCHANGED <<mem, used, coreNext, userNext, prog, left, size, tssAt, cr3, purpose, ebx, eax, halt>>
  BY DEF ReloadCr3, AfterReload, space, loading
<1>2. Kind = "reload" /\ Kind' = "header"
  BY <1>1 DEF Kind, Mid
<1>3. CoreBound' = CoreBound /\ CoreDone' = CoreDone /\ UserBound' = UserBound
  BY <1>1 DEF CoreBound, CoreDone, UserBound, Installing, Mid
<1>4. CoreBound' >= CoreBound /\ CoreDone' >= CoreDone /\ UserBound' >= UserBound
  BY <1>3, AtLeast, Bounds
<1>5. (Before' <=> Before) /\ (HasLdt' => HasLdt) /\ ImageDone' = ImageDone
  BY <1>1, <1>2 DEF Before, HasLdt, ImageDone
<1>6. \A v \in Program \cup {0} : HasTss(v)' => HasTss(v)
  BY <1>1, <1>2 DEF HasTss, HasLdt
<1>7. Before' \/ ImageDone' <= ImageDone
  BY <1>5, ImageRange, AtMost
<1>8. Root' /\ Grows /\ Shrinks /\ Fresh' /\ Images' /\ Tsss'
  BY <1>1, <1>4, <1>5, <1>6, <1>7, Quiet
<1>9. Kept'
  BY <1>1 DEF Kept
<1>10. Ready'
  BY <1>1 DEF Ready
<1>11. Owned(own)'
  BY <1>1, <1>8, NothingAllocated
<1> QED BY <1>8, <1>9, <1>10, <1>11 DEF Mapped

LEMMA HeaderMapped ==
    ASSUME Typed, Typed', Mapped, NEW own, Owned(own), ReadHeader
    PROVE  Mapped' /\ Owned(own)'
<1>0. Registers /\ Registers' /\ Root /\ Kept
  BY DEF Typed, Mapped
<1>1. /\ pc = "header" /\ pc' = "image"
      /\ UNCHANGED <<mem, used, tlb, coreNext, userNext, prog, tssAt, cr3, purpose, ebx, eax, halt>>
  BY DEF ReadHeader, space
<1>2. PICK n \in ImageSizes : left' = n /\ size' = [size EXCEPT ![prog] = n]
  BY DEF ReadHeader
<1>3. Kind = "header" /\ Kind' = "image"
  BY <1>1 DEF Kind, Mid
<1>4. CoreBound' = CoreBound /\ CoreDone' = CoreDone /\ UserBound' = UserBound
  BY <1>1 DEF CoreBound, CoreDone, UserBound, Installing, Mid
<1>5. CoreBound' >= CoreBound /\ CoreDone' >= CoreDone /\ UserBound' >= UserBound
  BY <1>4, AtLeast, Bounds
<1>6. ~Before /\ ~Before' /\ ~HasLdt'
  BY <1>1, <1>3 DEF Before, HasLdt
<1>7. \A v \in Program \cup {0} : HasTss(v)' => HasTss(v)
  BY <1>1, <1>3 DEF HasTss, HasLdt
<1>8. prog \in Program /\ cr3[prog] = 0
  BY <1>0, <1>6, LowOfLoading
<1>9. \A u \in Program : cr3[u] # 0 => size'[u] = size[u]
  BY <1>0, <1>2, <1>8 DEF Registers
<1>10. ImageDone' <= ImageDone
  <2>1. size'[prog] = n
    BY <1>0, <1>2, <1>8 DEF Registers
  <2>2. ImageDone = 0 /\ ImageDone' = n - n
    BY <1>1, <1>2, <1>3, <2>1 DEF ImageDone
  <2>3. n \in Nat
    BY UserSizes
  <2> QED BY <2>2, <2>3
<1>11. Root' /\ Grows /\ Shrinks /\ Fresh' /\ Images' /\ Tsss'
  BY <1>1, <1>5, <1>6, <1>7, <1>9, <1>10, Quiet
<1>12. Kept'
  <2>1. Stale' <=> Stale
    BY <1>1, <1>6 DEF Stale
  <2> QED BY <1>0, <1>1, <1>11, <2>1, NoAccess
<1>13. Ready'
  BY <1>1 DEF Ready
<1>14. Owned(own)'
  BY <1>1, <1>11, NothingAllocated
<1> QED BY <1>11, <1>12, <1>13, <1>14 DEF Mapped

LEMMA StackMapped ==
    ASSUME Typed, Typed', Mapped, NEW own, Owned(own), CreateStack
    PROVE  Mapped' /\ Owned(own)'
<1>0. Registers /\ Registers' /\ Root /\ Kept
  BY DEF Typed, Mapped
<1>1. /\ pc = "use" /\ purpose = "stack" /\ pc' \in {"stack", "relocate"}
      /\ UNCHANGED <<mem, used, tlb, coreNext, userNext, prog, size, tssAt, cr3, purpose, ebx, eax, halt>>
  BY DEF CreateStack, Using, space
<1>2. Kind = "stack" /\ Kind' \in {"stack", "relocate"}
  BY <1>1 DEF Kind, Mid
<1>3. CoreBound' = CoreBound /\ CoreDone' = CoreDone /\ UserBound' = UserBound
  BY <1>1 DEF CoreBound, CoreDone, UserBound, Installing, Mid, CorePurpose
<1>4. CoreBound' >= CoreBound /\ CoreDone' >= CoreDone /\ UserBound' >= UserBound
  BY <1>3, AtLeast, Bounds
<1>5. ~Before /\ ~Before' /\ HasLdt
  BY <1>1, <1>2 DEF Before, HasLdt
<1>6. \A v \in Program \cup {0} : HasTss(v)' => HasTss(v)
  BY <1>1, <1>2 DEF HasTss, HasLdt
<1>7. ImageDone' = ImageDone
  BY <1>1, <1>2 DEF ImageDone
<1>8. ImageDone' <= ImageDone
  BY <1>5, <1>7, ImageRange, AtMost
<1>9. Root' /\ Grows /\ Shrinks /\ Fresh' /\ Images' /\ Tsss'
  BY <1>1, <1>4, <1>5, <1>6, <1>8, Quiet
<1>10. Kept'
  <2>1. Stale' <=> Stale
    BY <1>1, <1>5 DEF Stale
  <2> QED BY <1>0, <1>1, <1>9, <2>1, NoAccess
<1>11. Ready'
  BY <1>1 DEF Ready
<1>12. Owned(own)'
  BY <1>1, <1>9, NothingAllocated
<1> QED BY <1>9, <1>10, <1>11, <1>12 DEF Mapped

-----------------------------------------------------------------------------
(* The page just installed is filled: what all these steps have in common. *)
LEMMA FillStep ==
    ASSUME Typed, Typed', Mapped, NEW own, Owned(own), pc = "use",
           NEW what, NEW c, Fill(what, c),
           cr3' = cr3, prog' = prog, used' = used, coreNext' = coreNext,
           Before' <=> Before, Before' \/ userNext' = userNext,
           pc' \notin Mid \cup {"set pdir", "copy", "reload"}
    PROVE  /\ Root' /\ Grows /\ Shrinks /\ Kept' /\ Fresh' /\ Ready' /\ Owned(own)'
           /\ CoreDone' >= CoreDone /\ CoreDone' = coreNext
           /\ \E g \in Phys :
                /\ mem'[g] = Filled(what, c)
                /\ \A f \in Phys : f # g => mem'[f] = mem[f]
                /\ IF purpose \in CorePurpose
                   THEN /\ g \in Target(CorePt, coreNext - 1)
                        /\ own[g] = CoreSlot(coreNext - 1)
                        /\ \A u \in Program : PagesStay(u)
                   ELSE /\ \E t \in LowTable(prog, ebx[1]) : g \in Target(t, ebx[2])
                        /\ own[g] = PageSlot(prog, ebx[1], ebx[2])
                        /\ \A u \in Program : u # prog => PagesStay(u)
<1>0. Registers /\ Registers' /\ Root /\ Kept /\ Fresh /\ pc \in Mid
  BY DEF Typed, Mapped, Mid
<1>1. PICK g \in Phys :
        /\ Reached(ebx) = {g} /\ Walk(CorePdt, ebx) = {g}
        /\ IF purpose \in CorePurpose
           THEN /\ ebx \in CoreSide
                /\ g \in Target(CorePt, coreNext - 1)
                /\ own[g] = CoreSlot(coreNext - 1)
           ELSE /\ ebx \in LowSide
                /\ \E t \in LowTable(prog, ebx[1]) : g \in Target(t, ebx[2])
                /\ own[g] = PageSlot(prog, ebx[1], ebx[2])
  BY ReachedPage
<1>2. mem' = [mem EXCEPT ![g] = Filled(what, c)] /\ tlb' = tlb \cup {<<ebx, g>>}
  <2>1. PICK f \in Reached(ebx) : Access(ebx, f) /\ mem' = [mem EXCEPT ![f] = Filled(what, c)]
    BY DEF Fill
  <2>2. f = g
    BY <1>1, <2>1
  <2> QED BY <2>1, <2>2 DEF Access
<1>3. /\ purpose \in CorePurpose => KindOf(own[g]) = "core"
      /\ purpose \notin CorePurpose => KindOf(own[g]) = "page" /\ ProgramOf(own[g]) = prog
  <2>1. ASSUME purpose \in CorePurpose PROVE KindOf(own[g]) = "core"
    <3>1. own[g] = CoreSlot(coreNext - 1)
      BY <1>1, <2>1
    <3> QED BY <3>1, OwnerKinds
  <2>2. ASSUME purpose \notin CorePurpose
        PROVE  KindOf(own[g]) = "page" /\ ProgramOf(own[g]) = prog
    <3>1. own[g] = PageSlot(prog, ebx[1], ebx[2])
      BY <1>1, <2>2
    <3> QED BY <3>1, OwnerKinds
  <2> QED BY <2>1, <2>2
<1>4. pc' \notin {"set table", "set page", "set pdir", "copy"}
  BY DEF Mid
<1>5. /\ Root' /\ Grows /\ Shrinks /\ Owned(own)'
      /\ \A f \in Phys : f # g => mem'[f] = mem[f]
      /\ mem'[g] = Filled(what, c)
      /\ \A u \in Program : KindOf(own[g]) = "core" \/ ProgramOf(own[g]) # u => PagesStay(u)
  <2>1. KindOf(own[g]) \in {"core", "page"}
    BY <1>3
  <2> QED BY <1>0, <1>2, <1>4, <2>1, PageWrite
<1>6. Kept'
  <2>1. Stale' \/ ~Stale
    BY DEF Stale
  <2>2. CASE purpose \in CorePurpose
    <3>1. ebx \in CoreSide
      BY <1>1, <2>2
    <3> QED BY <1>0, <1>1, <1>2, <1>5, <2>1, <3>1, KeptStep
  <2>3. CASE purpose \notin CorePurpose
    <3>1. ebx \in LowSide /\ ~Before /\ ~Before'
      BY <1>0, <1>1, <2>3, AtUserPage
    <3> QED BY <1>0, <1>1, <1>2, <1>5, <2>1, <3>1, KeptStep
  <2> QED BY <2>2, <2>3
<1>7. CoreBound = coreNext /\ CoreBound' = coreNext /\ CoreDone' = coreNext
  BY <1>4 DEF CoreBound, CoreDone, Installing
<1>8. UserBound = userNext /\ UserBound' = userNext'
  BY <1>4 DEF UserBound, Installing
<1>9. coreNext \in Nat /\ userNext \in Nat
  BY <1>0, Numbers
<1>10. Fresh'
  <2>1. CoreBound \in Int /\ CoreBound' \in Int /\ CoreBound' >= CoreBound
    BY <1>7, <1>9, AtLeast, Bounds
  <2>2. Before' \/ (~Before /\ UserBound \in Int /\ UserBound' \in Int /\ UserBound' >= UserBound)
    BY <1>8, <1>9, AtLeast, Bounds
  <2> QED BY <1>0, <1>5, <2>1, <2>2, FreshStep
<1>11. Ready'
  BY DEF Ready, Mid
<1>12. CoreDone' >= CoreDone
  <2>1. CoreDone = coreNext \/ CoreDone = coreNext - 1
    BY DEF CoreDone
  <2>2. coreNext >= coreNext /\ coreNext >= coreNext - 1
    BY <1>9, AtLeast, BackOne
  <2> QED BY <1>7, <2>1, <2>2
<1> QED BY <1>1, <1>3, <1>5, <1>6, <1>7, <1>10, <1>11, <1>12

(* Frames of the kernel's other pages.                                     *)
LEMMA CoreFramesStay ==
    ASSUME Registers, NEW own, Owned(own), NEW g, NEW c,
           \A f \in Phys : f # g => mem'[f] = mem[f],
           KindOf(own[g]) = "page" \/ own[g] = CoreSlot(c)
    PROVE  \A k \in CoreIndex : k # c \/ KindOf(own[g]) = "page" =>
              \A f \in Target(CorePt, k) : mem'[f] = mem[f]
<1> SUFFICES ASSUME NEW k \in CoreIndex, k # c \/ KindOf(own[g]) = "page",
                    NEW f \in Target(CorePt, k)
             PROVE  mem'[f] = mem[f]
  OBVIOUS
<1>1. own[f] = CoreSlot(k) /\ KindOf(own[f]) = "core"
  BY OwnerKinds DEF Owned, Slots
<1>2. f # g
  BY <1>1, OwnerSlots
<1>3. f \in Phys
  BY Frames, Indices, TargetIs
<1> QED BY <1>2, <1>3

(* A page of the program is filled.                                        *)
LEMMA OtherPagesStay ==
    ASSUME Registers, NEW own, Owned(own), Grows, NEW u \in Program,
           NEW n \in Nat, n < Entries * Half, NEW g,
           own[g] = PageSlot(u, UserPage(n)[1], UserPage(n)[2]),
           \A f \in Phys : f # g => mem'[f] = mem[f],
           NEW k \in Nat, k < Entries * Half, k # n,
           NEW what, HoldsLow(u, k, what)
    PROVE  HoldsLow(u, k, what)'
<1>1. UserPage(k)[1] \in LowIndex /\ UserPage(k)[2] \in Index
  BY UserPageLow
<1>2. ASSUME NEW t \in LowTable(u, UserPage(k)[1]), NEW f \in Target(t, UserPage(k)[2])
      PROVE  mem'[f] = mem[f]
  <2>1. own[f] = PageSlot(u, UserPage(k)[1], UserPage(k)[2])
    BY <1>1, <1>2 DEF Owned, Slots
  <2>2. f # g
    <3>1. SUFFICES ASSUME f = g PROVE FALSE
      OBVIOUS
    <3>2. UserPage(k)[1] = UserPage(n)[1] /\ UserPage(k)[2] = UserPage(n)[2]
      BY <2>1, <3>1, OwnerSlots
    <3>3. UserPage(k) = UserPage(n)
      BY <3>2, UserPageIs
    <3> QED BY <3>3, UserPageInjective
  <2>3. f \in Phys
    BY <1>1, <1>2, TablesAreFrames
  <2> QED BY <2>2, <2>3
<1> QED BY <1>1, <1>2, HoldsStays

LEMMA PageFilled ==
    ASSUME Grows, NEW u \in Program, NEW n \in Nat, n < Entries * Half, NEW what,
           NEW t \in LowTable(u, UserPage(n)[1]), NEW g \in Target(t, UserPage(n)[2]),
           mem'[g] = Filled(what, u)
    PROVE  HoldsLow(u, n, what)'
<1>1. UserPage(n)[1] \in LowIndex /\ UserPage(n)[2] \in Index
  BY UserPageLow
<1>2. t \in LowTable(u, UserPage(n)[1])' /\ g \in Target(t, UserPage(n)[2])'
  BY <1>1 DEF Grows
<1> QED BY <1>2 DEF HoldsLow

(* A TSS is where it is noted.                                             *)
LEMMA TssFilled ==
    ASSUME Typed, Mapped, Grows, NEW v \in Program \cup {0}, pc = "use", purpose \in CorePurpose,
           tssAt' = [tssAt EXCEPT ![v] = ebx],
           CoreDone' = coreNext,
           NEW g \in Target(CorePt, coreNext - 1), mem'[g] = Filled("tss", v)
    PROVE  TssAt(v)'
<1>1. /\ coreNext \in Nat /\ coreNext - 1 \in CoreIndex
      /\ ebx = <<Half, coreNext - 1>>
  BY AtCorePage DEF Mid
<1>2. tssAt'[v] = ebx
  BY DEF Typed, Registers
<1>3. PICK k : k = coreNext - 1
  OBVIOUS
<1>4. k \in CoreIndex /\ tssAt'[v] = <<Half, k>>
  BY <1>1, <1>2, <1>3
<1>5. k < CoreDone'
  BY <1>1, <1>3
<1>6. g \in Target(CorePt, k)'
  BY <1>3, <1>4 DEF Grows
<1> QED BY <1>4, <1>5, <1>6 DEF TssAt

-----------------------------------------------------------------------------
LEMMA CoreTssMapped ==
    ASSUME Typed, Typed', Mapped, NEW own, Owned(own), FillCoreTss \/ CreateTss
    PROVE  Mapped' /\ Owned(own)'
<1> DEFINE w == IF purpose = "tss" THEN prog ELSE 0
<1>0. Registers /\ Registers' /\ Root /\ Images /\ Tsss
  BY DEF Typed, Mapped
<1>1. /\ pc = "use" /\ purpose \in {"core tss", "tss"} /\ purpose \in CorePurpose
      /\ pc' = IF purpose = "tss" THEN "ldt" ELSE "tcb"
      /\ Fill("tss", w)
      /\ tssAt' = [tssAt EXCEPT ![w] = ebx]
      /\ UNCHANGED <<used, coreNext, userNext, prog, left, size, cr3, purpose, ebx, eax, halt>>
  BY DEF FillCoreTss, CreateTss, Using, space, CorePurpose
<1>2. w \in Program \cup {0} /\ 0 \notin Program /\ prog \in Program
  <2>1. prog \in Program
    BY <1>0, <1>1 DEF Registers
  <2>2. 0 \notin Program
    BY Sizes DEF Program
  <2> QED BY <2>1, <2>2
<1>3. Kind = purpose /\ Kind' = pc'
  BY <1>1 DEF Kind, Mid
<1>4. Before' <=> Before
  BY <1>1, <1>3 DEF Before
<1>5. pc' \notin Mid \cup {"set pdir", "copy", "reload"}
  BY <1>1 DEF Mid
<1> HIDE DEF w
<1>6. /\ Root' /\ Grows /\ Shrinks /\ Kept' /\ Fresh' /\ Ready' /\ Owned(own)'
      /\ CoreDone' >= CoreDone /\ CoreDone' = coreNext
      /\ \E g \in Phys :
           /\ mem'[g] = Filled("tss", w)
           /\ \A f \in Phys : f # g => mem'[f] = mem[f]
           /\ g \in Target(CorePt, coreNext - 1)
           /\ own[g] = CoreSlot(coreNext - 1)
           /\ \A u \in Program : PagesStay(u)
  BY <1>1, <1>4, <1>5, FillStep
<1>7. PICK g \in Phys :
           /\ mem'[g] = Filled("tss", w)
           /\ \A f \in Phys : f # g => mem'[f] = mem[f]
           /\ g \in Target(CorePt, coreNext - 1)
           /\ own[g] = CoreSlot(coreNext - 1)
           /\ \A u \in Program : PagesStay(u)
  BY <1>6
<1>8. Images'
  <2>1. HasLdt' => HasLdt
    BY <1>1, <1>3 DEF HasLdt
  <2>2. Before' \/ ImageDone' <= ImageDone
    <3>1. ImageDone' = ImageDone
      BY <1>1, <1>3 DEF ImageDone
    <3> QED BY <1>4, <3>1, ImageRange, AtMost
  <2> QED BY <1>0, <1>1, <1>4, <1>6, <1>7, <2>1, <2>2, ImagesStay
<1>9. Tsss'
  <2>1. TssAt(w)'
    <3>1. PICK v : v = w
      OBVIOUS
    <3>2. w' = w
      BY <1>1 DEF w
    <3>3. TssAt(v)'
      BY <1>1, <1>2, <1>6, <1>7, <3>1, TssFilled
    <3> QED BY <3>1, <3>2, <3>3
  <2>2. ASSUME NEW v \in Program \cup {0}, HasTss(v)', v # w PROVE TssAt(v)'
    <3>1. HasTss(v)
      BY <1>1, <1>2, <1>3, <2>2 DEF HasTss, HasLdt, w
    <3>2. TssAt(v) /\ tssAt'[v] = tssAt[v]
      BY <1>0, <1>1, <2>2, <3>1 DEF Tsss, Registers
    <3>3. \A k \in CoreIndex : k < CoreDone => \A f \in Target(CorePt, k) : mem'[f] = mem[f]
      <4>1. CoreDone = coreNext - 1
        BY <1>1 DEF CoreDone, Mid
      <4>2. \A k \in CoreIndex : k < CoreDone => k # coreNext - 1
        BY <4>1, Indices, Numbers, <1>0
      <4> QED BY <1>0, <1>7, <4>2, CoreFramesStay
    <3> QED BY <1>6, <3>2, <3>3, TssStays, Bounds, BoundsNext
  <2>3. ASSUME NEW v \in Program \cup {0}, HasTss(v)' PROVE TssAt(v)'
    <3>1. w' = w
      BY <1>1 DEF w
    <3>2. CASE v = w
      BY <2>1, <3>1, <3>2
    <3> QED BY <2>2, <2>3, <3>2
  <2> QED BY <2>3 DEF Tsss
<1> QED BY <1>6, <1>8, <1>9 DEF Mapped

LEMMA TcbMapped ==
    ASSUME Typed, Typed', Mapped, NEW own, Owned(own), CreateTcb
    PROVE  Mapped' /\ Owned(own)'
<1>0. Registers /\ Registers' /\ Root /\ Images /\ Tsss
  BY DEF Typed, Mapped
<1>1. /\ pc = "use" /\ purpose = "tcb" /\ pc' = "clear" /\ Fill("tcb", prog)
      /\ UNCHANGED <<used, coreNext, prog, left, size, tssAt, cr3, purpose, ebx, eax, halt>>
  BY DEF CreateTcb, Using, loading
<1>2. Kind = "tcb" /\ Kind' = "clear" /\ purpose \in CorePurpose
  BY <1>1 DEF Kind, Mid, CorePurpose
<1>3. Before /\ Before' /\ ~HasLdt'
  BY <1>2 DEF Before, HasLdt
<1>4. pc' \notin Mid \cup {"set pdir", "copy", "reload"}
  BY <1>1 DEF Mid
<1>5. PICK c : c = prog
  OBVIOUS
<1>6. /\ Root' /\ Grows /\ Shrinks /\ Kept' /\ Fresh' /\ Ready' /\ Owned(own)'
      /\ CoreDone' >= CoreDone
      /\ \E g \in Phys :
           /\ \A f \in Phys : f # g => mem'[f] = mem[f]
           /\ own[g] = CoreSlot(coreNext - 1)
           /\ \A u \in Program : PagesStay(u)
  BY <1>1, <1>2, <1>3, <1>4, <1>5, FillStep
<1>7. PICK g \in Phys :
           /\ \A f \in Phys : f # g => mem'[f] = mem[f]
           /\ own[g] = CoreSlot(coreNext - 1)
           /\ \A u \in Program : PagesStay(u)
  BY <1>6
<1>8. Images'
  BY <1>0, <1>1, <1>3, <1>6, <1>7, ImagesStay
<1>9. Tsss'
  <2>1. \A v \in Program \cup {0} : HasTss(v)' => HasTss(v)
    BY <1>1, <1>2 DEF HasTss, HasLdt
  <2>2. CoreDone = coreNext - 1
    BY <1>1, <1>2 DEF CoreDone, Mid
  <2>3. \A k \in CoreIndex : k < CoreDone => k # coreNext - 1
    BY <2>2, Indices, Numbers, <1>0
  <2>4. \A k \in CoreIndex : k < CoreDone => \A f \in Target(CorePt, k) : mem'[f] = mem[f]
    BY <1>0, <1>7, <2>3, CoreFramesStay
  <2> QED BY <1>0, <1>1, <1>6, <2>1, <2>4, TsssStay
<1> QED BY <1>6, <1>8, <1>9 DEF Mapped

(* A page of the image, or the LDT.                                        *)
LEMMA UserPageMapped ==
    ASSUME Typed, Typed', Mapped, NEW own, Owned(own), LoadImagePage \/ CreateLdt
    PROVE  Mapped' /\ Owned(own)'
<1>0. Registers /\ Registers' /\ Root /\ Images /\ Tsss
  BY DEF Typed, Mapped
<1>1. /\ pc = "use" /\ purpose \in {"image", "ldt"}
      /\ Fill(purpose, prog)
      /\ \/ purpose = "image" /\ left' = left - 1 /\ pc' = IF left = 1 THEN "tss" ELSE "image"
         \/ purpose = "ldt" /\ pc' = "stack"
      /\ UNCHANGED <<used, coreNext, userNext, prog, size, tssAt, cr3, purpose, ebx, eax, halt>>
  BY DEF LoadImagePage, CreateLdt, Using, space
<1>2. Kind = purpose /\ Kind' = pc' /\ purpose \notin CorePurpose
  BY <1>1 DEF Kind, Mid, CorePurpose
<1>3. ~Before /\ ~Before'
  BY <1>1, <1>2 DEF Before
<1>4. pc' \notin Mid \cup {"set pdir", "copy", "reload"}
  BY <1>1 DEF Mid
<1>5. PICK u, what, n, s, l :
         u = prog /\ what = purpose /\ n = userNext - 1 /\ s = size[prog] /\ l = left
  OBVIOUS
<1>6. /\ Root' /\ Grows /\ Shrinks /\ Kept' /\ Fresh' /\ Ready' /\ Owned(own)'
      /\ CoreDone' >= CoreDone
      /\ \E g \in Phys :
           /\ mem'[g] = Filled(what, u)
           /\ \A f \in Phys : f # g => mem'[f] = mem[f]
           /\ \E t \in LowTable(u, ebx[1]) : g \in Target(t, ebx[2])
           /\ own[g] = PageSlot(u, ebx[1], ebx[2])
           /\ \A v \in Program : v # u => PagesStay(v)
  BY <1>1, <1>2, <1>3, <1>4, <1>5, FillStep
<1>7. PICK g \in Phys :
           /\ mem'[g] = Filled(what, u)
           /\ \A f \in Phys : f # g => mem'[f] = mem[f]
           /\ \E t \in LowTable(u, ebx[1]) : g \in Target(t, ebx[2])
           /\ own[g] = PageSlot(u, ebx[1], ebx[2])
           /\ \A v \in Program : v # u => PagesStay(v)
  BY <1>6
<1>8. n \in Nat /\ n < Entries * Half /\ ebx = UserPage(n) /\ u \in Program
  BY <1>1, <1>2, <1>5, AtUserPage DEF Mid
<1>9. /\ s \in Nat /\ s > 0 /\ s < Entries * Half
      /\ what = "image" => l \in Nat /\ l >= 1 /\ l <= s /\ n = s - l
      /\ what = "ldt" => n = s
  <2>1. s \in Nat /\ s > 0 /\ s < Entries * Half /\ (what = "image" => l \in Nat /\ l >= 1 /\ l <= s)
    BY <1>1, <1>2, <1>3, <1>5, LoadingSize
  <2>2. /\ what = "image" => userNext = s - l + 1
        /\ what = "ldt" => userNext = s + 1
    BY <1>1, <1>2, <1>5 DEF Typed, UserCounts, Mid
  <2>3. what = "image" => n = s - l
    <3>1. \A a, b \in Nat : (a - b + 1) - 1 = a - b
      OBVIOUS
    <3> QED BY <1>5, <2>1, <2>2, <3>1
  <2>4. what = "ldt" => n = s
    <3>1. \A a \in Nat : (a + 1) - 1 = a
      OBVIOUS
    <3> QED BY <1>5, <2>1, <2>2, <3>1
  <2> QED BY <2>1, <2>3, <2>4
<1>10. HoldsLow(u, n, what)'
  BY <1>6, <1>7, <1>8, PageFilled
<1>11. \A k \in Nat : k < Entries * Half /\ k # n /\ HoldsLow(u, k, "image") => HoldsLow(u, k, "image")'
  BY <1>0, <1>6, <1>7, <1>8, OtherPagesStay
<1>12. Images'
  <2>1. LoadedImages'
    <3>1. u \in Program /\ cr3[u] = 0
      BY <1>0, <1>3, <1>5, LowOfLoading
    <3>2. \A v \in Program : cr3[v] # 0 => size'[v] = size[v] /\ PagesStay(v)
      BY <1>1, <1>7, <3>1
    <3> QED BY <1>0, <1>1, <1>6, <3>2, LoadedStay DEF Images
  <2>2. ASSUME NEW k \in 0 .. (ImageDone' - 1) PROVE HoldsLow(u, k, "image")'
    <3>1. k \in Nat /\ k < Entries * Half
      BY <1>3, ImageRangeNext
    <3>2. CASE what = "image"
      <4>1. ImageDone = s - l
        BY <1>1, <1>2, <1>5, <3>2 DEF ImageDone
      <4>2. ImageDone' = s - l + 1
        <5>1. size'[prog'] = s /\ left' = l - 1
          BY <1>1, <1>5, <3>2
        <5>2. CASE l = 1
          <6>1. ImageDone' = s
            BY <1>1, <1>2, <1>5, <3>2, <5>1, <5>2 DEF ImageDone
          <6>2. s = s - 1 + 1
            BY <1>9
          <6> QED BY <5>2, <6>1, <6>2
        <5>3. CASE l # 1
          <6>1. ImageDone' = s - (l - 1)
            BY <1>1, <1>2, <1>5, <3>2, <5>1, <5>3 DEF ImageDone
          <6>2. s - (l - 1) = s - l + 1
            BY <1>9, <3>2
          <6> QED BY <6>1, <6>2
        <5> QED BY <5>2, <5>3
      <4>3. k = n \/ k \in 0 .. (s - l - 1)
        <5>1. \A a, b \in Nat : \A x \in 0 .. ((a - b + 1) - 1) : x = a - b \/ x \in 0 .. (a - b - 1)
          OBVIOUS
        <5> QED BY <1>9, <2>2, <3>2, <4>2, <5>1
      <4>4. CASE k = n
        BY <1>10, <3>2, <4>4
      <4>5. CASE k # n
        <5>1. k \in 0 .. (ImageDone - 1)
          BY <4>1, <4>3, <4>5
        <5>2. HoldsLow(u, k, "image")
          BY <1>0, <1>3, <1>5, <5>1 DEF Images
        <5> QED BY <1>11, <3>1, <4>5, <5>2
      <4> QED BY <4>4, <4>5
    <3>3. CASE what = "ldt"
      <4>1. ImageDone = s
        BY <1>1, <1>2, <1>5, <3>3 DEF ImageDone
      <4>2. ImageDone' = s
        <5>1. size'[prog'] = s
          BY <1>1, <1>5, <3>3
        <5> QED BY <1>1, <1>2, <1>5, <3>3, <5>1 DEF ImageDone
      <4>3. k # n
        <5>1. \A a \in Nat : \A x \in 0 .. (a - 1) : x # a
          OBVIOUS
        <5> QED BY <1>9, <2>2, <3>3, <4>2, <5>1
      <4>4. k \in 0 .. (ImageDone - 1)
        BY <2>2, <4>1, <4>2
      <4>5. HoldsLow(u, k, "image")
        BY <1>0, <1>3, <1>5, <4>4 DEF Images
      <4> QED BY <1>11, <3>1, <4>3, <4>5
    <3> QED BY <1>1, <1>5, <3>2, <3>3
  <2>3. ASSUME HasLdt' PROVE HoldsLow(u, s, "ldt")'
    <3>1. what = "ldt"
      BY <1>1, <1>2, <1>5, <2>3 DEF HasLdt
    <3> QED BY <1>9, <1>10, <3>1
  <2>4. prog' = u /\ size'[prog'] = s
    BY <1>1, <1>5
  <2> QED BY <2>1, <2>2, <2>3, <2>4 DEF Images
<1>13. Tsss'
  <2>1. \A v \in Program \cup {0} : HasTss(v)' => HasTss(v)
    BY <1>1, <1>2 DEF HasTss, HasLdt
  <2>2. KindOf(own[g]) = "page"
    BY <1>7, OwnerKinds
  <2>3. \A k \in CoreIndex : \A f \in Target(CorePt, k) : mem'[f] = mem[f]
    BY <1>0, <1>7, <2>2, CoreFramesStay
  <2> QED BY <1>0, <1>1, <1>6, <2>1, <2>3, TsssStay
<1> QED BY <1>6, <1>12, <1>13 DEF Mapped

-----------------------------------------------------------------------------
(* The first page of the program is the one its image was read into.       *)
LEMMA FirstPage ==
    ASSUME Typed, Mapped, NEW own, Owned(own), pc = "relocate"
    PROVE  /\ UserPage(0) \in LowSide
           /\ \E g \in Phys :
                /\ Reached(UserPage(0)) = {g} /\ Walk(CorePdt, UserPage(0)) = {g}
                /\ mem[g] = Filled("image", prog)
                /\ \E t \in LowTable(prog, UserPage(0)[1]) : g \in Target(t, UserPage(0)[2])
                /\ own[g] = PageSlot(prog, UserPage(0)[1], UserPage(0)[2])
<1>0. Registers /\ Root /\ Kept /\ Images
  BY DEF Typed, Mapped
<1>1. Kind = "relocate"
  BY DEF Kind, Mid
<1>2. ~Before /\ ~Stale
  BY <1>1 DEF Before, Stale
<1>3. PICK u, s : u = prog /\ s = size[prog]
  OBVIOUS
<1>4. u \in Program /\ \A i : LowTable(u, i) = Target(CorePdt, i)
  BY <1>0, <1>2, <1>3, LowOfLoading
<1>5. s \in Nat /\ s > 0
  BY <1>1, <1>2, <1>3, LoadingSize
<1>6. ImageDone = s
  BY <1>1, <1>3 DEF ImageDone
<1>7. \A k \in 0 .. (s - 1) : HoldsLow(u, k, "image")
  BY <1>0, <1>2, <1>3, <1>6 DEF Images
<1>8. 0 \in 0 .. (s - 1) /\ 0 < Entries * Half
  BY <1>5, UserSizes
<1> DEFINE p == UserPage(0)
<1>9. p[1] \in LowIndex /\ p[2] \in Index /\ p \in LowSide
  <2>1. p[1] \in LowIndex /\ p[2] \in Index
    BY <1>8, UserPageLow
  <2>2. p = <<p[1], p[2]>>
    BY <1>8, UserPageIs
  <2> QED BY <2>1, <2>2 DEF LowSide
<1> HIDE DEF p
<1>10. PICK t \in LowTable(u, p[1]) : \E f \in Target(t, p[2]) : mem[f] = Filled("image", u)
  BY <1>7, <1>8 DEF HoldsLow, p
<1>11. PICK g \in Target(t, p[2]) : mem[g] = Filled("image", u)
  BY <1>10
<1>12. Walk(CorePdt, p) = {g}
  <2>1. Target(CorePdt, p[1]) = {t} /\ Target(t, p[2]) = {g}
    BY <1>4, <1>10, <1>11, OneTarget
  <2> QED BY <2>1, WalkOne
<1>13. Reached(p) = {g}
  BY <1>0, <1>2, <1>9, <1>12, ReachedKept
<1>14. g \in Phys
  BY <1>0, <1>4, <1>9, <1>10, <1>11, TablesAreFrames
<1>15. own[g] = PageSlot(u, p[1], p[2])
  BY <1>4, <1>9, <1>10, <1>11 DEF Owned, Slots
<1> QED BY <1>3, <1>9, <1>10, <1>11, <1>12, <1>13, <1>14, <1>15 DEF p

(* The services' addresses are written into the program's first page.      *)
LEMMA RelocateMapped ==
    ASSUME Typed, Typed', Mapped, NEW own, Owned(own), Relocate
    PROVE  Mapped' /\ Owned(own)'
<1>0. Registers /\ Registers' /\ Root /\ Kept /\ Fresh /\ Images /\ Tsss
  BY DEF Typed, Mapped
<1>1. /\ pc = "relocate" /\ pc' = "pdir"
      /\ UNCHANGED <<used, coreNext, userNext, prog, left, size, tssAt, cr3, purpose, ebx, eax, halt>>
  BY DEF Relocate, space, loading
<1>2. Kind = "relocate" /\ Kind' = "pdir"
  BY <1>1 DEF Kind, Mid
<1>3. ~Before /\ ~Before' /\ ~Stale /\ ~Stale' /\ HasLdt
  BY <1>1, <1>2 DEF Before, Stale, HasLdt
<1>4. PICK u, s : u = prog /\ s = size[prog]
  OBVIOUS
<1>5. u \in Program /\ cr3[u] = 0 /\ \A i : LowTable(u, i) = Target(CorePdt, i)
  BY <1>0, <1>3, <1>4, LowOfLoading
<1>6. s \in Nat /\ s > 0 /\ s < Entries * Half
  BY <1>2, <1>3, <1>4, LoadingSize
<1>7. ImageDone = s /\ ImageDone' = s
  BY <1>1, <1>2, <1>4 DEF ImageDone
<1>8. \A k \in 0 .. (s - 1) : HoldsLow(u, k, "image")
  BY <1>0, <1>3, <1>4, <1>7 DEF Images
<1>9. 0 < Entries * Half
  BY UserSizes
<1> DEFINE p == UserPage(0)
<1> HIDE DEF p
<1>10. PICK g \in Phys :
          /\ p \in LowSide
          /\ Reached(p) = {g} /\ Walk(CorePdt, p) = {g}
          /\ mem[g] = Filled("image", u)
          /\ \E t \in LowTable(u, p[1]) : g \in Target(t, p[2])
          /\ own[g] = PageSlot(u, p[1], p[2])
  BY <1>1, <1>4, FirstPage DEF p
<1>11. KindOf(own[g]) = "page" /\ ProgramOf(own[g]) = u
  BY <1>10, OwnerKinds
<1>12. mem' = [mem EXCEPT ![g] = Filled("image", u)] /\ tlb' = tlb \cup {<<p, g>>}
  <2>1. PICK f \in Reached(p) : Access(p, f) /\ mem' = [mem EXCEPT ![f] = Filled("image", prog)]
    BY DEF Relocate, p
  <2>2. f = g
    BY <1>10, <2>1
  <2> QED BY <1>4, <2>1, <2>2 DEF Access
<1>13. /\ Root' /\ Grows /\ Shrinks /\ Owned(own)'
       /\ \A f \in Phys : f # g => mem'[f] = mem[f]
       /\ mem'[g] = Filled("image", u)
       /\ \A v \in Program : v # u => PagesStay(v)
  <2>1. pc' \notin {"set table", "set page", "set pdir", "copy"}
    BY <1>1
  <2>2. Before' <=> Before
    BY <1>3
  <2>3. KindOf(own[g]) \in {"core", "page"}
    BY <1>11
  <2>4. /\ Root' /\ Grows /\ Shrinks /\ Owned(own)'
        /\ \A f \in Phys : f # g => mem'[f] = mem[f]
        /\ mem'[g] = Filled("image", u)
        /\ \A v \in Program : KindOf(own[g]) = "core" \/ ProgramOf(own[g]) # v => PagesStay(v)
    BY <1>0, <1>1, <1>10, <1>12, <2>1, <2>2, <2>3, PageWrite
  <2> QED BY <1>11, <2>4
<1>14. Kept'
  BY <1>0, <1>1, <1>3, <1>10, <1>12, <1>13, KeptStep
<1>15. CoreBound' = CoreBound /\ CoreDone' = CoreDone /\ UserBound' = UserBound
  BY <1>1 DEF CoreBound, CoreDone, UserBound, Installing, Mid
<1>16. /\ CoreBound' >= CoreBound /\ CoreDone' >= CoreDone /\ UserBound' >= UserBound
       /\ CoreBound \in Int /\ CoreBound' \in Int /\ UserBound \in Int /\ UserBound' \in Int
  BY <1>15, AtLeast, Bounds, BoundsNext
<1>17. Fresh'
  BY <1>0, <1>1, <1>3, <1>13, <1>16, FreshStep
<1>18. Ready'
  BY <1>1 DEF Ready
<1>19. ASSUME NEW k \in Nat, k < Entries * Half, NEW what, HoldsLow(u, k, what), k # 0
       PROVE  HoldsLow(u, k, what)'
  <2>1. own[g] = PageSlot(u, UserPage(0)[1], UserPage(0)[2])
    BY <1>10 DEF p
  <2> QED BY <1>0, <1>5, <1>9, <1>13, <1>19, <2>1, OtherPagesStay
<1>20. HoldsLow(u, 0, "image")'
  BY <1>5, <1>9, <1>10, <1>13, PageFilled DEF p
<1>21. Images'
  <2>1. LoadedImages'
    <3>1. \A v \in Program : cr3[v] # 0 => size'[v] = size[v] /\ PagesStay(v)
      BY <1>1, <1>5, <1>13
    <3> QED BY <1>0, <1>1, <1>13, <3>1, LoadedStay DEF Images
  <2>2. ASSUME NEW k \in 0 .. (s - 1) PROVE HoldsLow(u, k, "image")'
    <3>1. k \in Nat /\ k < Entries * Half
      BY <1>6, UserSizes
    <3> QED BY <1>8, <1>19, <1>20, <3>1
  <2>3. HoldsLow(u, s, "ldt")'
    <3>1. HoldsLow(u, s, "ldt")
      BY <1>0, <1>3, <1>4 DEF Images
    <3>2. s # 0
      BY <1>6
    <3> QED BY <1>6, <1>19, <3>1, <3>2
  <2>4. prog' = u /\ size'[prog'] = s
    BY <1>1, <1>4
  <2> QED BY <1>7, <2>1, <2>2, <2>3, <2>4 DEF Images
<1>22. Tsss'
  <2>1. \A v \in Program \cup {0} : HasTss(v)' => HasTss(v)
    BY <1>1, <1>2 DEF HasTss, HasLdt
  <2>2. \A k \in CoreIndex : \A f \in Target(CorePt, k) : mem'[f] = mem[f]
    BY <1>0, <1>11, <1>13, CoreFramesStay
  <2> QED BY <1>0, <1>1, <1>13, <1>16, <2>1, <2>2, TsssStay
<1> QED BY <1>13, <1>14, <1>17, <1>18, <1>21, <1>22 DEF Mapped

-----------------------------------------------------------------------------
(* Steps that enter a frame in a table, and those on the directory.        *)

(* Owners after the frame in EAX has been entered.                         *)
LEMMA NewOwner ==
    ASSUME Registers, NEW own, Owned(own), own[eax] = Pending,
           NEW slot \in Owner, KindOf(slot) \in {"core", "table", "page", "directory"},
           NEW now \in [Phys -> Owner], now[eax] = slot,
           \A f \in Phys : f # eax => now[f] = own[f],
           used' = used, pc' \notin {"set table", "set page", "set pdir", "copy"},
           \A f \in Phys : own[f] \in {Free, Pending} /\ f # eax => mem'[f] = mem[f]
    PROVE  /\ Reserved(now)'
           /\ \A f \in Phys : KindOf(own[f]) \in {"core", "table", "page", "directory"} =>
                 f # eax /\ now[f] = own[f]
<1>1. Reserved(own)
  BY DEF Owned
<1>2. now[eax] = slot /\ \A f \in Phys : f # eax => now[f] = own[f]
  OBVIOUS
<1>3. KindOf(own[eax]) = "pending"
  BY OwnerKinds
<1>4. \A f \in Phys : KindOf(own[f]) \in {"core", "table", "page", "directory"} =>
                 f # eax /\ now[f] = own[f]
  BY <1>2, <1>3
<1>5. now[CorePdt] = Kernel /\ now[CorePt] = Kernel
  <2>1. own[CorePdt] = Kernel /\ own[CorePt] = Kernel /\ KindOf(Kernel) = "kernel"
    BY <1>1, OwnerKinds DEF Reserved
  <2>2. CorePdt # eax /\ CorePt # eax
    BY <1>3, <2>1
  <2> QED BY <1>2, <2>1, <2>2, Frames
<1>6. \A f \in Phys : f \notin used => now[f] = Free
  <2>1. \A f \in Phys : f \notin used => own[f] = Free
    BY <1>1 DEF Reserved
  <2>2. KindOf(Free) = "free"
    BY OwnerKinds
  <2>3. \A f \in Phys : f \notin used => f # eax
    BY <1>3, <2>1, <2>2
  <2> QED BY <1>2, <2>1, <2>3
<1>7. ASSUME NEW f \in Phys, now[f] \in {Free, Pending}
      PROVE  mem'[f] = [i \in Index |-> Unwritten]
  <2>1. KindOf(now[f]) \in {"free", "pending"}
    BY <1>7, OwnerKinds
  <2>2. f # eax
    BY <1>2, <2>1
  <2>3. own[f] \in {Free, Pending}
    BY <1>2, <1>7, <2>2
  <2> QED BY <1>1, <2>2, <2>3 DEF Reserved
<1>8. Reserved(now)'
  BY <1>5, <1>6, <1>7 DEF Reserved
<1> QED BY <1>2, <1>4, <1>8

(* Frames that are not eax hold an address nobody has entered yet.         *)
LEMMA PendingIsNew ==
    ASSUME Registers, NEW own, Owned(own), own[eax] = Pending
    PROVE  /\ eax \in Phys /\ eax # CorePdt /\ eax # CorePt
           /\ mem[eax] = [i \in Index |-> Unwritten]
           /\ \A j \in Index : Target(eax, j) = {}
           /\ \A u \in Program : cr3[u] # 0 => cr3[u] # eax
           /\ \A u \in Program, i \in LowIndex : eax \notin LowTable(u, i)
<1>1. Reserved(own) /\ Slots(own) /\ eax \in Phys
  BY DEF Owned, Registers
<1>2. KindOf(own[eax]) = "pending"
  BY OwnerKinds
<1>3. eax # CorePdt /\ eax # CorePt
  BY <1>1, <1>2, OwnerKinds DEF Reserved
<1>4. mem[eax] = [i \in Index |-> Unwritten]
  BY <1>1 DEF Reserved
<1>5. \A j \in Index : Target(eax, j) = {}
  <2>1. Unwritten[1] # "frame"
    BY DEF Unwritten
  <2>2. \A j \in Index : mem[eax][j] = Unwritten
    BY <1>4
  <2> QED BY <2>1, <2>2 DEF Target
<1>6. \A u \in Program : cr3[u] # 0 => cr3[u] # eax
  BY <1>1, <1>2, OwnerKinds DEF Slots
<1>7. \A u \in Program, i \in LowIndex : eax \notin LowTable(u, i)
  BY <1>1, <1>2, OwnerKinds DEF Slots
<1> QED BY <1>1, <1>3, <1>4, <1>5, <1>6, <1>7

(* The directory is written to, the kernel's two entries are not.          *)
LEMMA DirectoryWrite ==
    ASSUME Registers, Root, NEW own, Owned(own),
           \A f \in Phys : f # CorePdt => mem'[f] = mem[f],
           mem'[CorePdt][Self] = mem[CorePdt][Self],
           mem'[CorePdt][Half] = mem[CorePdt][Half],
           cr3' = cr3, prog' = prog,
           ~Before' => \A i \in LowIndex : \/ mem'[CorePdt][i] = NotPresent
                                           \/ mem'[CorePdt][i][1] = "frame",
           pc' = "copy" => mem'[CorePdt][Copy] = ToFrame(eax')
    PROVE  /\ Root'
           /\ \A i : Target(CorePt, i)' = Target(CorePt, i)
           /\ \A u \in Program, i \in LowIndex :
                 /\ cr3[u] # 0 => LowTable(u, i)' = LowTable(u, i)
                 /\ \A t \in LowTable(u, i) : t # CorePdt /\ \A j : Target(t, j)' = Target(t, j)
           /\ \A u \in Program : PagesStay(u)
           /\ \A k \in CoreIndex : \A f \in Target(CorePt, k) : mem'[f] = mem[f]
           /\ \A f \in Phys : own[f] \in {Free, Pending} => mem'[f] = mem[f]
<1>1. Reserved(own) /\ Slots(own)
  BY DEF Owned
<1>2. own[CorePdt] = Kernel /\ KindOf(Kernel) = "kernel" /\ KindOf(own[CorePdt]) = "kernel"
  BY <1>1, OwnerKinds DEF Reserved
<1>3. CorePt # CorePdt /\ CorePt \in Phys
  BY Frames DEF CorePt, CorePdt
<1>4. ASSUME NEW u \in Program, cr3[u] # 0
      PROVE  cr3[u] \in Phys /\ mem'[cr3[u]] = mem[cr3[u]]
  <2>1. own[cr3[u]] = DirectoryOf(u)
    BY <1>1, <1>4 DEF Slots
  <2>2. cr3[u] # CorePdt
    BY <1>2, <2>1, OwnerKinds
  <2>3. cr3[u] \in Phys
    BY DEF Registers
  <2> QED BY <2>2, <2>3
<1>5. Root'
  BY <1>4 DEF Root
<1>6. \A i : Target(CorePt, i)' = Target(CorePt, i)
  BY <1>3, SameTarget
<1>7. ASSUME NEW u \in Program, NEW i \in LowIndex, NEW t \in LowTable(u, i)
      PROVE  t # CorePdt /\ \A j : Target(t, j)' = Target(t, j)
  <2>1. own[t] = TableSlot(u, i)
    BY <1>1, <1>7 DEF Slots
  <2>2. t # CorePdt
    BY <1>2, <2>1, OwnerKinds
  <2>3. mem'[t] = mem[t]
    BY <1>7, <2>2, TablesAreFrames
  <2> QED BY <2>2, <2>3, SameTarget
<1>8. ASSUME NEW u \in Program, NEW i \in LowIndex, cr3[u] # 0
      PROVE  LowTable(u, i)' = LowTable(u, i)
  <2>1. Target(cr3[u], i)' = Target(cr3[u], i)
    BY <1>4, <1>8 DEF Target
  <2> QED BY <1>8, <2>1 DEF LowTable
<1>9. ASSUME NEW u \in Program, NEW i \in LowIndex, NEW t \in LowTable(u, i),
             NEW j \in Index, NEW f \in Target(t, j)
      PROVE  mem'[f] = mem[f]
  <2>1. \A b \in Index : \A e \in Target(t, b) : own[e] = PageSlot(u, i, b)
    BY <1>1, <1>9 DEF Slots
  <2>2. own[f] = PageSlot(u, i, j)
    BY <1>9, <2>1
  <2>3. f # CorePdt
    BY <1>2, <2>2, OwnerKinds
  <2>4. f \in Phys
    BY <1>9, TablesAreFrames
  <2> QED BY <2>3, <2>4
<1>10. ASSUME NEW k \in CoreIndex, NEW f \in Target(CorePt, k) PROVE mem'[f] = mem[f]
  <2>1. own[f] = CoreSlot(k)
    BY <1>1 DEF Slots
  <2>2. f # CorePdt
    BY <1>2, <2>1, OwnerKinds
  <2>3. f \in Phys
    BY Frames, Indices, TargetIs
  <2> QED BY <2>2, <2>3
<1>11. ASSUME NEW f \in Phys, own[f] \in {Free, Pending} PROVE mem'[f] = mem[f]
  <2>1. f # CorePdt
    BY <1>2, <1>11, OwnerKinds
  <2> QED BY <2>1
<1> QED BY <1>5, <1>6, <1>7, <1>8, <1>9, <1>10, <1>11 DEF PagesStay

LEMMA ClearMapped ==
    ASSUME Typed, Typed', Mapped, NEW own, Owned(own), ClearLowHalf
    PROVE  Mapped' /\ Owned(own)'
<1>0. Registers /\ Registers' /\ Root /\ Kept /\ Fresh /\ Images /\ Tsss
  BY DEF Typed, Mapped
<1>1. /\ pc = "clear" /\ pc' = "reload"
      /\ UNCHANGED <<used, coreNext, userNext, prog, left, size, tssAt, cr3, purpose, ebx, eax, halt>>
  BY DEF ClearLowHalf, space, loading
<1>2. Kind = "clear" /\ Kind' = "reload"
  BY <1>1 DEF Kind, Mid
<1>3. Before /\ ~Before' /\ Stale' /\ ~HasLdt'
  BY <1>1, <1>2 DEF Before, Stale, HasLdt
<1>4. Reached(Directory) = {CorePdt} /\ Walk(CorePdt, Directory) = {CorePdt} /\ Directory \in CoreSide
  BY <1>0, ReachedDirectory
<1>5. /\ mem' = [mem EXCEPT ![CorePdt] =
                    [i \in Index |-> IF i \in LowEntries THEN NotPresent ELSE mem[CorePdt][i]]]
      /\ tlb' = tlb \cup {<<Directory, CorePdt>>}
  <2>1. PICK f \in Reached(Directory) :
          /\ Access(Directory, f)
          /\ mem' = [mem EXCEPT ![f] =
                    [i \in Index |-> IF i \in LowEntries THEN NotPresent ELSE mem[f][i]]]
    BY DEF ClearLowHalf
  <2>2. f = CorePdt
    BY <1>4
  <2> QED BY <2>1, <2>2 DEF Access
<1>6. /\ \A f \in Phys : f # CorePdt => mem'[f] = mem[f]
      /\ mem'[CorePdt] = [i \in Index |-> IF i \in LowEntries THEN NotPresent ELSE mem[CorePdt][i]]
  <2> DEFINE row == [i \in Index |-> IF i \in LowEntries THEN NotPresent ELSE mem[CorePdt][i]]
  <2>1. CorePdt \in Phys /\ mem \in [Phys -> [Index -> Entry]]
    BY <1>0, Frames DEF Registers
  <2>2. mem' = [mem EXCEPT ![CorePdt] = row]
    BY <1>5
  <2> HIDE DEF row
  <2>3. mem'[CorePdt] = row /\ \A f \in Phys : f # CorePdt => mem'[f] = mem[f]
    BY <2>1, <2>2
  <2> QED BY <2>3 DEF row
<1>7. /\ mem'[CorePdt][Self] = mem[CorePdt][Self] /\ mem'[CorePdt][Half] = mem[CorePdt][Half]
      /\ \A i \in LowIndex : mem'[CorePdt][i] = NotPresent
  BY <1>6, Frames, Indices DEF LowIndex, LowEntries
<1>8. /\ Root'
      /\ \A i : Target(CorePt, i)' = Target(CorePt, i)
      /\ \A u \in Program, i \in LowIndex :
            /\ cr3[u] # 0 => LowTable(u, i)' = LowTable(u, i)
            /\ \A t \in LowTable(u, i) : t # CorePdt /\ \A j : Target(t, j)' = Target(t, j)
      /\ \A u \in Program : PagesStay(u)
      /\ \A k \in CoreIndex : \A f \in Target(CorePt, k) : mem'[f] = mem[f]
      /\ \A f \in Phys : own[f] \in {Free, Pending} => mem'[f] = mem[f]
  BY <1>0, <1>1, <1>6, <1>7, DirectoryWrite
<1>9. \A i \in LowIndex : Target(CorePdt, i)' = {}
  <2>1. NotPresent[1] # "frame"
    BY DEF NotPresent
  <2> QED BY <1>7, <2>1 DEF Target
<1>10. \A u \in Program, i \in LowIndex : cr3[u] = 0 => LowTable(u, i) = {} /\ LowTable(u, i)' = {}
  BY <1>1, <1>3, <1>9 DEF LowTable
<1>11. Grows /\ Shrinks
  BY <1>8, <1>10 DEF Grows, Shrinks
<1>12. Kept'
  BY <1>0, <1>1, <1>3, <1>4, <1>5, <1>8, <1>11, KeptStep
<1>13. Fresh'
  <2>1. CoreBound' = CoreBound /\ CoreBound \in Int
    BY <1>1, Bounds DEF CoreBound, Installing, Mid
  <2>2. \A k \in CoreIndex : k >= CoreBound' => Target(CorePt, k)' = {}
    BY <1>0, <1>8, <2>1 DEF Fresh
  <2>3. ASSUME NEW k \in 0 .. (Entries * Half - 1) PROVE Walk(CorePdt, UserPage(k))' = {}
    <3>1. k \in Nat /\ k < Entries * Half
      BY UserSizes
    <3>2. UserPage(k)[1] \in LowIndex
      BY <3>1, UserPageLow
    <3>3. Target(CorePdt, UserPage(k)[1])' = {}
      BY <1>9, <3>2
    <3> QED BY <3>3, WalkNoneNext
  <2> QED BY <2>2, <2>3 DEF Fresh
<1>14. Ready'
  BY <1>1 DEF Ready
<1>15. Images'
  <2>1. LoadedImages'
    BY <1>0, <1>1, <1>8, <1>11, LoadedStay DEF Images
  <2>2. ImageDone' = 0
    BY <1>2 DEF ImageDone
  <2>3. 0 .. (ImageDone' - 1) = {}
    BY <2>2
  <2> QED BY <1>3, <2>1, <2>3 DEF Images
<1>16. Tsss'
  <2>1. \A v \in Program \cup {0} : HasTss(v)' => HasTss(v)
    BY <1>1, <1>2 DEF HasTss, HasLdt
  <2>2. CoreDone' >= CoreDone
    <3>1. CoreDone' = CoreDone
      BY <1>1 DEF CoreDone, Mid
    <3> QED BY <3>1, AtLeast, Bounds
  <2> QED BY <1>0, <1>1, <1>8, <1>11, <2>1, <2>2, TsssStay
<1>17. Owned(own)'
  <2>1. Reserved(own)'
    BY <1>1, <1>8 DEF Owned, Reserved
  <2>2. \A u \in Program : cr3'[u] # 0 => own[cr3'[u]] = DirectoryOf(u)
    BY <1>1 DEF Owned, Slots
  <2> QED BY <1>0, <1>11, <2>1, <2>2, SlotsStay DEF Owned
<1> QED BY <1>8, <1>12, <1>13, <1>14, <1>15, <1>16, <1>17 DEF Mapped


(* The frame in EAX is entered in the directory as a page table.           *)
LEMMA SetTableMapped ==
    ASSUME Typed, Typed', Mapped, NEW own, Owned(own), SetTable
    PROVE  Mapped' /\ \E now : Owned(now)'
<1>0. Registers /\ Registers' /\ Root /\ Kept /\ Fresh /\ Ready /\ Images /\ Tsss
  BY DEF Typed, Mapped
<1>1. /\ pc = "set table" /\ pc' = "page" /\ pc \in Mid /\ pc' \in Mid
      /\ UNCHANGED <<used, coreNext, userNext, prog, left, size, tssAt, cr3, purpose, ebx, eax, halt>>
  BY DEF SetTable, space, loading, Mid
<1>2. purpose \notin CorePurpose /\ mem[CorePdt][ebx[1]] = NotPresent /\ own[eax] = Pending
  BY <1>0, <1>1 DEF Ready, Owned, Reserved
<1>3. PICK u, i0, e : u = prog /\ i0 = ebx[1] /\ e = eax
  OBVIOUS
<1>4. i0 \in LowIndex /\ i0 \in Index /\ u \in Program /\ ~Before /\ ~Stale
  BY <1>1, <1>2, <1>3, AtUserPage, Indices
<1>5. Kind' = Kind /\ ~Before' /\ ~Stale'
  <2>1. Kind' = Kind
    BY <1>1 DEF Kind
  <2> QED BY <1>1, <1>4, <2>1 DEF Before, Stale
<1>6. Reached(Directory) = {CorePdt} /\ Walk(CorePdt, Directory) = {CorePdt} /\ Directory \in CoreSide
  BY <1>0, ReachedDirectory
<1>7. mem' = [mem EXCEPT ![CorePdt][i0] = ToFrame(e)] /\ tlb' = tlb \cup {<<Directory, CorePdt>>}
  <2>1. PICK f \in Reached(Directory) :
          Access(Directory, f) /\ mem' = [mem EXCEPT ![f][ebx[1]] = ToFrame(eax)]
    BY DEF SetTable
  <2>2. f = CorePdt
    BY <1>6
  <2> QED BY <1>3, <2>1, <2>2 DEF Access
<1>8. /\ \A f \in Phys : f # CorePdt => mem'[f] = mem[f]
      /\ mem'[CorePdt][i0] = ToFrame(e)
      /\ \A i \in Index : i # i0 => mem'[CorePdt][i] = mem[CorePdt][i]
  <2>1. CorePdt \in Phys /\ mem \in [Phys -> [Index -> Entry]]
    BY <1>0, Frames DEF Registers
  <2>2. mem[CorePdt] \in [Index -> Entry]
    BY <2>1
  <2> QED BY <1>4, <1>7, <2>1, <2>2
<1>9. /\ mem'[CorePdt][Self] = mem[CorePdt][Self] /\ mem'[CorePdt][Half] = mem[CorePdt][Half]
      /\ \A i \in LowIndex : mem'[CorePdt][i] = NotPresent \/ mem'[CorePdt][i][1] = "frame"
  <2>1. Self # i0 /\ Half # i0
    BY <1>4, Indices
  <2>2. ToFrame(e)[1] = "frame"
    BY DEF ToFrame
  <2>3. \A i \in LowIndex : mem[CorePdt][i] = NotPresent \/ mem[CorePdt][i][1] = "frame"
    BY <1>0, <1>4 DEF Root
  <2> QED BY <1>8, <2>1, <2>2, <2>3, Frames, Indices
<1>10. /\ Root'
       /\ \A i : Target(CorePt, i)' = Target(CorePt, i)
       /\ \A v \in Program, i \in LowIndex :
             /\ cr3[v] # 0 => LowTable(v, i)' = LowTable(v, i)
             /\ \A t \in LowTable(v, i) : t # CorePdt /\ \A j : Target(t, j)' = Target(t, j)
       /\ \A v \in Program : PagesStay(v)
       /\ \A k \in CoreIndex : \A f \in Target(CorePt, k) : mem'[f] = mem[f]
       /\ \A f \in Phys : own[f] \in {Free, Pending} => mem'[f] = mem[f]
  BY <1>0, <1>1, <1>8, <1>9, DirectoryWrite
<1>11. /\ e \in Phys /\ e # CorePdt
       /\ \A j \in Index : Target(e, j) = {}
  BY <1>0, <1>2, <1>3, PendingIsNew
<1>12. \A j \in Index : Target(e, j)' = {}
  <2>1. mem'[e] = mem[e]
    BY <1>8, <1>11
  <2>2. \A j : Target(e, j)' = Target(e, j)
    BY <2>1, SameTarget
  <2> QED BY <1>11, <2>2
<1>13. /\ Target(CorePdt, i0) = {} /\ Target(CorePdt, i0)' = {e}
       /\ \A i \in LowIndex : i # i0 => Target(CorePdt, i)' = Target(CorePdt, i)
  <2>1. NotPresent[1] # "frame"
    BY DEF NotPresent
  <2>2. Target(CorePdt, i0) = {}
    BY <1>2, <1>3, <2>1 DEF Target
  <2>3. Target(CorePdt, i0)' = {e}
    BY <1>8 DEF Target, ToFrame
  <2> QED BY <1>8, <2>2, <2>3, Indices, SameTarget
<1>14. \A i : LowTable(u, i) = Target(CorePdt, i) /\ LowTable(u, i)' = Target(CorePdt, i)'
  <2>1. \A i : LowTable(u, i) = Target(CorePdt, i)
    BY <1>0, <1>3, <1>4, LowOfLoading
  <2>2. \A i : LowTable(prog, i)' = Target(CorePdt, i)' 
    BY <1>0, <1>5, <1>10, LowOfLoadingNext
  <2>3. prog' = u
    BY <1>1, <1>3
  <2> QED BY <2>1, <2>2, <2>3 DEF LowTable
<1>15. ASSUME NEW v \in Program, NEW i \in LowIndex, v # u \/ i # i0
       PROVE  LowTable(v, i)' = LowTable(v, i)
  <2>1. CASE v = u
    BY <1>13, <1>14, <1>15, <2>1
  <2>2. CASE v # u /\ cr3[v] = 0
    BY <1>1, <1>3, <2>2 DEF LowTable
  <2> QED BY <1>10, <2>1, <2>2
<1>16. Grows
  <2>1. \A v \in Program, i \in LowIndex : \A t \in LowTable(v, i) : t \in LowTable(v, i)'
    BY <1>13, <1>14, <1>15
  <2> QED BY <1>10, <2>1 DEF Grows
<1>17. Kept'
  <2>1. Root' /\ ~Stale /\ prog' = prog
    BY <1>1, <1>4, <1>10
  <2> QED BY <1>0, <1>6, <1>7, <1>16, <2>1, KeptStep
<1>18. CoreBound' = CoreBound /\ CoreDone' = CoreDone /\ UserBound' = UserBound
  BY <1>1 DEF CoreBound, CoreDone, UserBound, Installing
<1>19. Fresh'
  <2>1. \A k \in CoreIndex : k >= CoreBound' => Target(CorePt, k)' = {}
    BY <1>0, <1>10, <1>18 DEF Fresh
  <2>2. ASSUME NEW k \in 0 .. (Entries * Half - 1), k >= UserBound'
        PROVE  Walk(CorePdt, UserPage(k))' = {}
    <3>1. Walk(CorePdt, UserPage(k)) = {}
      BY <1>0, <1>4, <1>18, <2>2 DEF Fresh
    <3>2. k \in Nat /\ k < Entries * Half
      BY UserSizes
    <3> DEFINE i == UserPage(k)[1]
               j == UserPage(k)[2]
    <3>3. i \in LowIndex /\ j \in Index
      BY <3>2, UserPageLow
    <3>4. CASE i = i0
      <4>1. Walk(CorePdt, UserPage(k))' = Target(e, j)'
        BY <1>13, <3>4, WalkOneNext
      <4> QED BY <1>12, <3>3, <4>1
    <3>5. CASE i # i0
      <4>1. Target(CorePdt, i)' = Target(CorePdt, i)
        BY <1>13, <3>3, <3>5
      <4>2. \A t \in Target(CorePdt, i) : Target(t, j)' = Target(t, j)
        BY <1>4, <1>10, <1>14, <3>3
      <4> QED BY <3>1, <4>1, <4>2 DEF Walk
    <3> QED BY <3>4, <3>5
  <2> QED BY <2>1, <2>2 DEF Fresh
<1>20. Ready'
  <2>1. Target(CorePdt, ebx[1])' # {}
    BY <1>1, <1>3, <1>13
  <2> QED BY <1>1, <2>1 DEF Ready
<1>21. Images'
  <2>1. ImageDone' = ImageDone
    BY <1>1, <1>5 DEF ImageDone
  <2>2. ImageDone' <= ImageDone
    BY <1>4, <2>1, ImageRange, AtMost
  <2>3. HasLdt' => HasLdt
    BY <1>5 DEF HasLdt
  <2> QED BY <1>0, <1>1, <1>4, <1>10, <1>16, <2>2, <2>3, ImagesStay
<1>22. Tsss'
  <2>1. \A v \in Program \cup {0} : HasTss(v)' => HasTss(v)
    BY <1>1, <1>5 DEF HasTss, HasLdt
  <2>2. CoreDone' >= CoreDone
    BY <1>18, AtLeast, Bounds
  <2> QED BY <1>0, <1>1, <1>10, <1>16, <2>1, <2>2, TsssStay
<1>23. PICK slot, now : slot = TableSlot(u, i0) /\ now = [own EXCEPT ![e] = slot]
  OBVIOUS
<1>24. Owned(now)'
  <2>1. slot \in Owner /\ KindOf(slot) = "table"
    <3>1. u \in Nat /\ i0 \in Nat
      BY <1>4, Indices, Sizes DEF Program
    <3>2. slot \in Owner
      BY <1>23, <3>1 DEF TableSlot, Owner
    <3> QED BY <1>23, <3>2, OwnerKinds
  <2>2. /\ Reserved(now)' /\ now[e] = slot
        /\ \A f \in Phys : KindOf(own[f]) \in {"core", "table", "page", "directory"} =>
              f # e /\ now[f] = own[f]
    <3>1. pc' \notin {"set table", "set page", "set pdir", "copy"}
      BY <1>1
    <3>2. KindOf(slot) \in {"core", "table", "page", "directory"}
      BY <2>1
    <3>3. \A f \in Phys : own[f] \in {Free, Pending} /\ f # eax => mem'[f] = mem[f]
      BY <1>10
    <3>4. used' = used /\ own[eax] = Pending /\ slot \in Owner /\ Registers /\ e = eax
      BY <1>0, <1>1, <1>2, <1>3, <2>1
    <3>5. now \in [Phys -> Owner] /\ now[eax] = slot /\ \A f \in Phys : f # eax => now[f] = own[f]
      <4>1. own \in [Phys -> Owner] /\ e \in Phys
        BY <1>11 DEF Owned, Reserved
      <4> QED BY <1>23, <3>4, <4>1
    <3>6. /\ Reserved(now)'
          /\ \A f \in Phys : KindOf(own[f]) \in {"core", "table", "page", "directory"} =>
                f # eax /\ now[f] = own[f]
      BY <3>1, <3>2, <3>3, <3>4, <3>5, NewOwner
    <3> QED BY <3>4, <3>5, <3>6
  <2>3. ASSUME NEW v \in Program, NEW i \in LowIndex, NEW t \in LowTable(v, i)'
        PROVE  /\ t \in LowTable(v, i) \/ now[t] = TableSlot(v, i)
               /\ \A j \in Index : \A f \in Target(t, j)' :
                     (t \in LowTable(v, i) /\ f \in Target(t, j)) \/ now[f] = PageSlot(v, i, j)
    <3>1. CASE v = u /\ i = i0
      <4>1. t = e
        BY <1>13, <1>14, <2>3, <3>1
      <4> QED BY <1>12, <1>23, <2>2, <3>1, <4>1
    <3>2. CASE v # u \/ i # i0
      <4>1. t \in LowTable(v, i)
        BY <1>15, <2>3, <3>2
      <4> QED BY <1>10, <4>1
    <3> QED BY <3>1, <3>2
  <2>4. \A v \in Program : cr3'[v] # 0 => now[cr3'[v]] = DirectoryOf(v)
    <3>1. ASSUME NEW v \in Program, cr3[v] # 0 PROVE now[cr3[v]] = DirectoryOf(v)
      <4>1. own[cr3[v]] = DirectoryOf(v) /\ cr3[v] \in Phys
        BY <1>0, <3>1 DEF Owned, Slots, Registers
      <4>2. KindOf(own[cr3[v]]) = "directory"
        BY <4>1, OwnerKinds
      <4> QED BY <2>2, <4>1, <4>2
    <3> QED BY <1>1, <3>1
  <2>5. Slots(own)
    BY DEF Owned
  <2>6. \A k \in CoreIndex : \A f \in Target(CorePt, k)' : f \in Target(CorePt, k)
    BY <1>10
  <2>7. Slots(now)'
    BY <1>0, <2>2, <2>3, <2>4, <2>5, <2>6, SlotsGrow
  <2> QED BY <2>2, <2>7 DEF Owned
<1> QED BY <1>10, <1>17, <1>19, <1>20, <1>21, <1>22, <1>24 DEF Mapped

(* Programs' directories keep their owners.                                *)
LEMMA DirectoriesStay ==
    ASSUME Registers, NEW own, NEW now, Slots(own), cr3' = cr3,
           \A f \in Phys : KindOf(own[f]) \in {"core", "table", "page", "directory"} => now[f] = own[f]
    PROVE  \A u \in Program : cr3'[u] # 0 => now[cr3'[u]] = DirectoryOf(u)
<1>1. ASSUME NEW u \in Program, cr3[u] # 0 PROVE now[cr3[u]] = DirectoryOf(u)
  <2>1. own[cr3[u]] = DirectoryOf(u) /\ cr3[u] \in Phys
    BY <1>1 DEF Slots, Registers
  <2>2. KindOf(own[cr3[u]]) = "directory"
    BY <2>1, OwnerKinds
  <2> QED BY <2>1, <2>2
<1> QED BY <1>1

(* The frame in EAX is entered in a page table.                            *)
LEMMA SetPageMapped ==
    ASSUME Typed, Typed', Mapped, NEW own, Owned(own), SetPage
    PROVE  Mapped' /\ \E now : Owned(now)'
<1>0. Registers /\ Registers' /\ Root /\ Kept /\ Fresh /\ Images /\ Tsss
  BY DEF Typed, Mapped
<1>1. /\ pc = "set page" /\ pc' = "use" /\ pc \in Mid /\ pc' \in Mid
      /\ UNCHANGED <<used, coreNext, userNext, prog, left, size, tssAt, cr3, purpose, ebx, eax, halt>>
  BY DEF SetPage, space, loading, Mid
<1>2. PICK u, i0, j0, e : u = prog /\ i0 = ebx[1] /\ j0 = ebx[2] /\ e = eax
  OBVIOUS
<1>3. own[e] = Pending /\ Slots(own) /\ Reserved(own)
  BY <1>1, <1>2 DEF Owned, Reserved
<1>4. /\ e \in Phys /\ e # CorePdt /\ e # CorePt
      /\ \A v \in Program, i \in LowIndex : e \notin LowTable(v, i)
  BY <1>0, <1>2, <1>3, PendingIsNew
<1>5. PICK t \in Phys :
        /\ Reached(TableOf(i0)) = {t} /\ Walk(CorePdt, TableOf(i0)) = {t}
        /\ Target(CorePdt, i0) = {t}
        /\ IF purpose \in CorePurpose
           THEN t = CorePt /\ TableOf(i0) \in CoreSide
           ELSE /\ t \in LowTable(u, i0) /\ own[t] = TableSlot(u, i0)
                /\ TableOf(i0) \in LowSide
  BY <1>1, <1>2, ReachedTable
<1>6. i0 \in Index /\ j0 \in Index
  BY <1>0, <1>2 DEF Registers
<1>7. mem' = [mem EXCEPT ![t][j0] = ToFrame(e)] /\ tlb' = tlb \cup {<<TableOf(i0), t>>}
  <2>1. PICK f \in Reached(TableOf(ebx[1])) :
          Access(TableOf(ebx[1]), f) /\ mem' = [mem EXCEPT ![f][ebx[2]] = ToFrame(eax)]
    BY DEF SetPage
  <2>2. f = t
    BY <1>2, <1>5
  <2> QED BY <1>2, <2>1, <2>2 DEF Access
<1>8. /\ \A f \in Phys : f # t => mem'[f] = mem[f]
      /\ mem'[t][j0] = ToFrame(e)
      /\ \A j \in Index : j # j0 => mem'[t][j] = mem[t][j]
  <2>1. mem \in [Phys -> [Index -> Entry]] /\ mem[t] \in [Index -> Entry]
    BY <1>0 DEF Registers
  <2> QED BY <1>6, <1>7, <2>1
<1>9. KindOf(own[t]) \in {"kernel", "table"} /\ t # CorePdt
  <2>1. own[CorePdt] = Kernel /\ own[CorePt] = Kernel
    BY <1>3 DEF Reserved
  <2>2. own[t] = Kernel \/ own[t] = TableSlot(u, i0)
    BY <1>5, <2>1
  <2>3. CorePdt # CorePt
    BY DEF CorePdt, CorePt
  <2>4. CASE purpose \in CorePurpose
    BY <1>5, <2>1, <2>3, <2>4, OwnerKinds
  <2>5. CASE purpose \notin CorePurpose
    <3>1. KindOf(own[t]) = "table" /\ KindOf(own[CorePdt]) = "kernel"
      BY <1>5, <2>1, <2>5, OwnerKinds
    <3> QED BY <3>1
  <2> QED BY <2>4, <2>5
<1>10. Kind' = Kind /\ (Before' <=> Before) /\ (Stale' <=> Stale)
  <2>1. Kind' = Kind
    BY <1>1 DEF Kind
  <2> QED BY <1>1, <2>1 DEF Before, Stale
<1>11. /\ Target(t, j0)' = {e}
       /\ \A j \in Index : j # j0 => Target(t, j)' = Target(t, j)
       /\ \A f \in Phys : f # t => \A j : Target(f, j)' = Target(f, j)
  BY <1>8 DEF Target, ToFrame
<1>12. ASSUME NEW v \in Program, cr3[v] # 0 PROVE cr3[v] \in Phys /\ cr3[v] # t
  <2>1. KindOf(own[cr3[v]]) = "directory"
    BY <1>3, <1>12, OwnerKinds DEF Slots
  <2> QED BY <1>0, <1>9, <2>1 DEF Registers
<1>13. Root'
  <2>1. mem'[CorePdt] = mem[CorePdt]
    BY <1>8, <1>9, Frames
  <2>2. \A v \in Program : cr3[v] # 0 => mem'[cr3[v]] = mem[cr3[v]]
    BY <1>8, <1>12
  <2> QED BY <1>0, <1>1, <1>10, <2>1, <2>2 DEF Root
<1>14. \A i : Target(CorePdt, i)' = Target(CorePdt, i)
  BY <1>9, <1>11, Frames
<1>15. ASSUME NEW v \in Program, NEW i \in LowIndex PROVE LowTable(v, i)' = LowTable(v, i)
  <2>1. cr3[v] # 0 => Target(cr3[v], i)' = Target(cr3[v], i)
    <3>1. cr3'[v] = cr3[v]
      BY <1>1
    <3>2. cr3[v] # 0 => mem'[cr3[v]] = mem[cr3[v]]
      BY <1>8, <1>12
    <3> QED BY <3>1, <3>2 DEF Target
  <2> QED BY <1>1, <1>10, <1>14, <2>1 DEF LowTable
<1>16. ASSUME NEW v \in Program, NEW i \in LowIndex, t \in LowTable(v, i)
       PROVE  purpose \notin CorePurpose /\ v = u /\ i = i0
  <2>1. own[t] = TableSlot(v, i) /\ KindOf(own[t]) = "table"
    BY <1>3, <1>16, OwnerKinds DEF Slots
  <2>2. purpose \in CorePurpose => KindOf(own[t]) = "kernel"
    BY <1>3, <1>5, OwnerKinds DEF Reserved
  <2> QED BY <1>5, <2>1, <2>2, OwnerSlots
<1>17. /\ purpose \in CorePurpose =>
            t = CorePt /\ coreNext \in Nat /\ j0 \in CoreIndex /\ j0 = coreNext - 1
       /\ purpose \notin CorePurpose =>
            /\ userNext \in Nat /\ userNext - 1 \in Nat /\ userNext - 1 < Entries * Half
            /\ UserPage(userNext - 1) = <<i0, j0>> /\ ebx = <<i0, j0>> /\ u \in Program /\ ~Before
  <2>1. ebx = <<i0, j0>>
    <3>1. ebx \in Index \X Index
      BY <1>0 DEF Registers
    <3> QED BY <1>2, <3>1
  <2> QED BY <1>1, <1>2, <1>5, <2>1, AtCorePage, AtUserPage
<1>18. /\ CoreBound = (IF purpose \in CorePurpose THEN coreNext - 1 ELSE coreNext)
       /\ UserBound = (IF purpose \in CorePurpose THEN userNext ELSE userNext - 1)
       /\ CoreBound' = coreNext /\ UserBound' = userNext /\ CoreDone' = CoreDone
  BY <1>1 DEF CoreBound, UserBound, CoreDone, Installing
<1>19. Target(t, j0) = {}
  <2>1. CASE purpose \in CorePurpose
    <3>1. j0 = CoreBound /\ j0 \in Int
      BY <1>17, <1>18, <2>1
    <3>2. j0 >= CoreBound
      BY <3>1, AtLeast
    <3> QED BY <1>0, <1>17, <2>1, <3>2 DEF Fresh
  <2>2. CASE purpose \notin CorePurpose
    <3>1. userNext - 1 = UserBound /\ userNext - 1 \in 0 .. (Entries * Half - 1)
      BY <1>17, <1>18, <2>2, UserSizes
    <3>2. userNext - 1 >= UserBound
      BY <3>1, AtLeast, UserSizes
    <3>3. Walk(CorePdt, <<i0, j0>>) = {}
      BY <1>0, <1>17, <2>2, <3>1, <3>2 DEF Fresh
    <3>4. Walk(CorePdt, <<i0, j0>>) = Target(t, j0)
      BY <1>5, WalkOne
    <3> QED BY <3>3, <3>4
  <2> QED BY <2>1, <2>2
<1>20. \A f \in Phys, j \in Index : Target(f, j) \subseteq Target(f, j)'
  BY <1>11, <1>19
<1>21. Grows
  <2>1. \A k \in CoreIndex : Target(CorePt, k) \subseteq Target(CorePt, k)'
    BY <1>20, Frames, Indices
  <2>2. ASSUME NEW v \in Program, NEW i \in LowIndex, NEW s \in LowTable(v, i)
        PROVE  s \in LowTable(v, i)' /\ \A j \in Index : Target(s, j) \subseteq Target(s, j)'
    BY <1>0, <1>15, <1>20, <2>2, TablesAreFrames
  <2> QED BY <2>1, <2>2 DEF Grows
<1>22. ASSUME NEW k \in CoreIndex, NEW f \in Target(CorePt, k)'
       PROVE  f \in Target(CorePt, k) \/ (purpose \in CorePurpose /\ k = j0 /\ f = e)
  <2>1. CASE t = CorePt /\ k = j0
    <3>1. purpose \in CorePurpose
      <4>1. purpose \notin CorePurpose => KindOf(own[CorePt]) = "table"
        BY <1>5, <2>1, OwnerKinds
      <4>2. KindOf(own[CorePt]) = "kernel"
        BY <1>3, OwnerKinds DEF Reserved
      <4> QED BY <4>1, <4>2
    <3> QED BY <1>11, <1>22, <2>1, <3>1
  <2>2. CASE t # CorePt \/ k # j0
    BY <1>11, <1>22, <2>2, Frames, Indices
  <2> QED BY <2>1, <2>2
<1>23. ASSUME NEW v \in Program, NEW i \in LowIndex, NEW s \in LowTable(v, i),
              NEW j \in Index, NEW f \in Target(s, j)'
       PROVE  \/ f \in Target(s, j)
              \/ purpose \notin CorePurpose /\ v = u /\ i = i0 /\ j = j0 /\ f = e
  <2>1. s \in Phys
    BY <1>0, <1>23, TablesAreFrames
  <2>2. CASE s = t /\ j = j0
    <3>1. f = e
      BY <1>11, <1>23, <2>2
    <3>2. purpose \notin CorePurpose /\ v = u /\ i = i0
      BY <1>16, <1>23, <2>2
    <3> QED BY <2>2, <3>1, <3>2
  <2>3. CASE s # t \/ j # j0
    BY <1>11, <1>23, <2>1, <2>3
  <2> QED BY <2>2, <2>3
<1>24. /\ \A v \in Program : PagesStay(v)
       /\ \A k \in CoreIndex : \A f \in Target(CorePt, k) : mem'[f] = mem[f]
       /\ \A f \in Phys : own[f] \in {Free, Pending} => mem'[f] = mem[f]
  <2>1. ASSUME NEW f \in Phys, KindOf(own[f]) \in {"core", "page", "free", "pending"}
        PROVE  mem'[f] = mem[f]
    BY <1>8, <1>9, <2>1
  <2>2. ASSUME NEW v \in Program, NEW i \in LowIndex, NEW s \in LowTable(v, i),
               NEW j \in Index, NEW f \in Target(s, j)
        PROVE  mem'[f] = mem[f]
    <3>1. \A b \in Index : \A g \in Target(s, b) : own[g] = PageSlot(v, i, b)
      BY <1>3, <2>2 DEF Slots
    <3>2. KindOf(own[f]) = "page"
      BY <2>2, <3>1, OwnerKinds
    <3> QED BY <1>0, <2>1, <2>2, <3>2, TablesAreFrames
  <2>3. ASSUME NEW k \in CoreIndex, NEW f \in Target(CorePt, k) PROVE mem'[f] = mem[f]
    <3>1. KindOf(own[f]) = "core"
      BY <1>3, <2>3, OwnerKinds DEF Slots
    <3>2. f \in Phys
      BY <1>0, <2>3, Frames, Indices, TargetIs
    <3> QED BY <2>1, <3>1, <3>2
  <2>4. \A f \in Phys : own[f] \in {Free, Pending} => mem'[f] = mem[f]
    BY <2>1, OwnerKinds
  <2> QED BY <2>2, <2>3, <2>4 DEF PagesStay
<1>25. Kept'
  <2>1. Stale' \/ (~Stale /\ prog' = prog)
    BY <1>1, <1>10
  <2>2. TableOf(i0) \in CoreSide \/ (TableOf(i0) \in LowSide /\ ~Before /\ ~Before' /\ prog' = prog)
    BY <1>1, <1>5, <1>10, <1>17
  <2> QED BY <1>0, <1>5, <1>7, <1>13, <1>21, <2>1, <2>2, KeptStep
<1>26. Fresh'
  <2>1. ASSUME NEW k \in CoreIndex, k >= CoreBound' PROVE Target(CorePt, k)' = {}
    <3>1. k \in Nat
      BY Indices
    <3>2. k >= CoreBound /\ (purpose \in CorePurpose => k # j0)
      <4>1. coreNext \in Nat
        BY <1>0, Numbers
      <4> QED BY <1>17, <1>18, <2>1, <3>1, <4>1
    <3>3. Target(CorePt, k) = {}
      BY <1>0, <3>2 DEF Fresh
    <3> QED BY <1>22, <3>2, <3>3
  <2>2. ASSUME ~Before', NEW k \in 0 .. (Entries * Half - 1), k >= UserBound'
        PROVE  Walk(CorePdt, UserPage(k))' = {}
    <3>1. k \in Nat /\ k < Entries * Half
      BY UserSizes
    <3>2. k >= UserBound /\ (purpose \notin CorePurpose => k # userNext - 1)
      <4>1. userNext \in Nat
        BY <1>0, Numbers
      <4> QED BY <1>18, <2>2, <3>1, <4>1
    <3>3. ~Before /\ Walk(CorePdt, UserPage(k)) = {}
      BY <1>0, <1>10, <2>2, <3>2 DEF Fresh
    <3> DEFINE i == UserPage(k)[1]
               j == UserPage(k)[2]
    <3>4. i \in LowIndex /\ j \in Index /\ UserPage(k) = <<i, j>>
      BY <3>1, UserPageLow, UserPageIs
    <3>5. u \in Program /\ \A b : LowTable(u, b) = Target(CorePdt, b)
      BY <1>0, <1>2, <3>3, LowOfLoading
    <3>6. purpose \notin CorePurpose => i # i0 \/ j # j0
      <4>1. SUFFICES ASSUME purpose \notin CorePurpose, i = i0, j = j0 PROVE FALSE
        OBVIOUS
      <4>2. UserPage(k) = UserPage(userNext - 1) /\ userNext - 1 \in Nat
        BY <1>17, <3>4, <4>1
      <4>3. k = userNext - 1
        BY <3>1, <4>2, UserPageInjective
      <4> QED BY <3>2, <4>1, <4>3
    <3>7. ASSUME NEW s \in Target(CorePdt, i), NEW f \in Target(s, j)' PROVE f \in Target(s, j)
      <4>1. s \in LowTable(u, i)
        BY <3>5, <3>7
      <4> QED BY <1>23, <3>4, <3>5, <3>6, <3>7, <4>1
    <3> QED BY <1>14, <3>3, <3>7 DEF Walk
  <2> QED BY <2>1, <2>2 DEF Fresh
<1>27. Ready'
  <2>1. Target(CorePdt, i0)' = {t} /\ Target(t, j0)' = {e}
    BY <1>5, <1>11, <1>14
  <2>2. ebx' = <<i0, j0>>
    <3>1. ebx \in Index \X Index
      BY <1>0 DEF Registers
    <3>2. ebx = <<i0, j0>>
      BY <1>2, <3>1
    <3> QED BY <1>1, <3>2
  <2>3. Walk(CorePdt, <<i0, j0>>)' = {e}
    <3>1. <<i0, j0>>[1] = i0 /\ <<i0, j0>>[2] = j0
      OBVIOUS
    <3> QED BY <2>1, <3>1, WalkOneNext
  <2>4. Walk(CorePdt, ebx)' # {} /\ Target(CorePdt, ebx[1])' # {}
    BY <2>1, <2>2, <2>3 DEF Walk
  <2> QED BY <1>1, <2>4 DEF Ready
<1>28. Images'
  <2>1. ImageDone' = ImageDone
    BY <1>1, <1>10 DEF ImageDone
  <2>2. Before' \/ (~Before /\ ImageDone' <= ImageDone)
    BY <1>10, <2>1, ImageRange, AtMost
  <2>3. HasLdt' => HasLdt
    BY <1>10 DEF HasLdt
  <2> QED BY <1>0, <1>1, <1>21, <1>24, <2>2, <2>3, ImagesStay
<1>29. Tsss'
  <2>1. \A v \in Program \cup {0} : HasTss(v)' => HasTss(v)
    BY <1>1, <1>10 DEF HasTss, HasLdt
  <2>2. CoreDone' >= CoreDone
    BY <1>18, AtLeast, Bounds
  <2> QED BY <1>0, <1>1, <1>21, <1>24, <2>1, <2>2, TsssStay
<1>30. PICK slot, now :
         /\ slot = IF purpose \in CorePurpose THEN CoreSlot(j0) ELSE PageSlot(u, i0, j0)
         /\ now = [own EXCEPT ![e] = slot]
  OBVIOUS
<1>31. Owned(now)'
  <2>1. slot \in Owner /\ KindOf(slot) \in {"core", "table", "page", "directory"}
    <3>1. i0 \in Nat /\ j0 \in Nat /\ (purpose \notin CorePurpose => u \in Nat)
      BY <1>6, <1>17, Sizes DEF Program, Index
    <3>2. slot \in Owner
      BY <1>30, <3>1 DEF PageSlot, CoreSlot, Owner
    <3> QED BY <1>30, <3>2, OwnerKinds
  <2>2. now \in [Phys -> Owner] /\ now[eax] = slot /\ \A f \in Phys : f # eax => now[f] = own[f]
    <3>1. own \in [Phys -> Owner]
      BY <1>3 DEF Reserved
    <3> QED BY <1>2, <1>4, <1>30, <2>1, <3>1
  <2>3. /\ Reserved(now)'
        /\ \A f \in Phys : KindOf(own[f]) \in {"core", "table", "page", "directory"} => now[f] = own[f]
    <3>1. pc' \notin {"set table", "set page", "set pdir", "copy"} /\ used' = used /\ own[eax] = Pending
      BY <1>1, <1>2, <1>3
    <3>2. \A f \in Phys : own[f] \in {Free, Pending} /\ f # eax => mem'[f] = mem[f]
      BY <1>24
    <3> QED BY <1>0, <2>1, <2>2, <3>1, <3>2, NewOwner
  <2>4. \A v \in Program : cr3'[v] # 0 => now[cr3'[v]] = DirectoryOf(v)
    BY <1>0, <1>1, <1>3, <2>3, DirectoriesStay
  <2>5. \A k \in CoreIndex : \A f \in Target(CorePt, k)' : f \in Target(CorePt, k) \/ now[f] = CoreSlot(k)
    BY <1>2, <1>22, <1>30, <2>2
  <2>6. ASSUME NEW v \in Program, NEW i \in LowIndex, NEW s \in LowTable(v, i)'
        PROVE  /\ s \in LowTable(v, i)
               /\ \A j \in Index : \A f \in Target(s, j)' :
                     f \in Target(s, j) \/ now[f] = PageSlot(v, i, j)
    <3>1. s \in LowTable(v, i)
      BY <1>15, <2>6
    <3> QED BY <1>2, <1>23, <1>30, <2>2, <3>1
  <2>7. Slots(now)'
    BY <1>0, <1>3, <2>3, <2>4, <2>5, <2>6, SlotsGrow
  <2> QED BY <2>3, <2>7 DEF Owned
<1> QED BY <1>13, <1>25, <1>26, <1>27, <1>28, <1>29, <1>31 DEF Mapped

(* create_copy_cur_pdir enters the new directory in the one it copies.     *)
LEMMA NewDirectoryMapped ==
    ASSUME ReloadsCr3, Typed, Typed', Mapped, NEW own, Owned(own), SetNewDirectory
    PROVE  Mapped' /\ Owned(own)'
<1>0. Registers /\ Registers' /\ Root /\ Kept /\ Fresh /\ Images /\ Tsss
  BY DEF Typed, Mapped
<1>1. /\ pc = "set pdir" /\ pc' = "copy"
      /\ UNCHANGED <<used, coreNext, userNext, prog, left, size, tssAt, cr3, purpose, ebx, eax, halt>>
  BY DEF SetNewDirectory, space, loading
<1>2. Kind = "set pdir" /\ Kind' = "copy"
  BY <1>1 DEF Kind, Mid
<1>3. ~Before /\ ~Before' /\ ~Stale /\ ~Stale'
  BY <1>1, <1>2 DEF Before, Stale
<1>4. Reached(Directory) = {CorePdt} /\ Walk(CorePdt, Directory) = {CorePdt} /\ Directory \in CoreSide
  BY <1>0, ReachedDirectory
<1>5. mem' = [mem EXCEPT ![CorePdt][Copy] = ToFrame(eax)] /\ tlb' \subseteq tlb
  <2>1. PICK f \in Reached(Directory) :
            /\ mem' = [mem EXCEPT ![f][Copy] = ToFrame(eax)]
            /\ tlb' = { c \in tlb : c[1] # Directory }
    BY DEF SetNewDirectory
  <2>2. f = CorePdt
    BY <1>4
  <2> QED BY <2>1, <2>2
<1>6. /\ \A f \in Phys : f # CorePdt => mem'[f] = mem[f]
      /\ mem'[CorePdt][Copy] = ToFrame(eax)
      /\ \A i \in Index : i # Copy => mem'[CorePdt][i] = mem[CorePdt][i]
  <2>1. CorePdt \in Phys /\ mem \in [Phys -> [Index -> Entry]] /\ mem[CorePdt] \in [Index -> Entry]
    BY <1>0, Frames DEF Registers
  <2> QED BY <1>5, <2>1, Frames
<1>7. /\ mem'[CorePdt][Self] = mem[CorePdt][Self] /\ mem'[CorePdt][Half] = mem[CorePdt][Half]
      /\ \A i \in LowIndex : mem'[CorePdt][i] = mem[CorePdt][i]
  BY <1>6, Frames, Indices
<1>8. /\ Root'
      /\ \A i : Target(CorePt, i)' = Target(CorePt, i)
      /\ \A u \in Program, i \in LowIndex :
            /\ cr3[u] # 0 => LowTable(u, i)' = LowTable(u, i)
            /\ \A t \in LowTable(u, i) : t # CorePdt /\ \A j : Target(t, j)' = Target(t, j)
      /\ \A u \in Program : PagesStay(u)
      /\ \A k \in CoreIndex : \A f \in Target(CorePt, k) : mem'[f] = mem[f]
      /\ \A f \in Phys : own[f] \in {Free, Pending} => mem'[f] = mem[f]
  <2>1. \A i \in LowIndex : mem'[CorePdt][i] = NotPresent \/ mem'[CorePdt][i][1] = "frame"
    BY <1>0, <1>3, <1>7 DEF Root
  <2>2. mem'[CorePdt][Copy] = ToFrame(eax')
    BY <1>1, <1>6
  <2> QED BY <1>0, <1>1, <1>6, <1>7, <2>1, <2>2, DirectoryWrite
<1>9. \A i \in LowIndex : Target(CorePdt, i)' = Target(CorePdt, i)
  BY <1>7, SameTarget
<1>10. ASSUME NEW u \in Program, NEW i \in LowIndex PROVE LowTable(u, i)' = LowTable(u, i)
  <2>1. CASE cr3[u] # 0
    BY <1>8, <2>1
  <2>2. CASE cr3[u] = 0
    BY <1>1, <1>3, <1>9, <2>2 DEF LowTable
  <2> QED BY <2>1, <2>2
<1>11. Grows /\ Shrinks
  BY <1>8, <1>10 DEF Grows, Shrinks
<1>12. Kept'
  <2>1. Stale' \/ (~Stale /\ prog' = prog)
    BY <1>1, <1>3
  <2> QED BY <1>0, <1>5, <1>8, <1>11, <2>1, NoAccess
<1>13. CoreBound' = CoreBound /\ CoreDone' = CoreDone /\ UserBound' = UserBound
  BY <1>1 DEF CoreBound, CoreDone, UserBound, Installing, Mid
<1>14. /\ CoreBound' >= CoreBound /\ CoreDone' >= CoreDone /\ UserBound' >= UserBound
       /\ CoreBound \in Int /\ CoreBound' \in Int /\ UserBound \in Int /\ UserBound' \in Int
  BY <1>13, AtLeast, Bounds, BoundsNext
<1>15. Fresh'
  BY <1>0, <1>1, <1>3, <1>8, <1>11, <1>14, FreshStep
<1>16. Ready'
  BY <1>1 DEF Ready
<1>17. Images'
  <2>1. ImageDone' = ImageDone
    BY <1>1, <1>2 DEF ImageDone
  <2>2. ImageDone' <= ImageDone
    BY <1>3, <2>1, ImageRange, AtMost
  <2>3. HasLdt
    BY <1>2 DEF HasLdt
  <2> QED BY <1>0, <1>1, <1>3, <1>8, <1>11, <2>2, <2>3, ImagesStay
<1>18. Tsss'
  <2>1. \A v \in Program \cup {0} : HasTss(v)' => HasTss(v)
    BY <1>1, <1>2 DEF HasTss, HasLdt
  <2> QED BY <1>0, <1>1, <1>8, <1>11, <1>14, <2>1, TsssStay
<1>19. Owned(own)'
  <2>1. Reserved(own)'
    BY <1>1, <1>8 DEF Owned, Reserved
  <2>2. \A u \in Program : cr3'[u] # 0 => own[cr3'[u]] = DirectoryOf(u)
    BY <1>1 DEF Owned, Slots
  <2> QED BY <1>0, <1>11, <2>1, <2>2, SlotsStay DEF Owned
<1> QED BY <1>8, <1>12, <1>15, <1>16, <1>17, <1>18, <1>19 DEF Mapped

(* The directory being made is reached through the entry just set.         *)
LEMMA ReachedCopy ==
    ASSUME Typed, Mapped, pc = "copy"
    PROVE  Reached(NewDirectory) = {eax}
<1>1. mem[CorePdt][Copy] = ToFrame(eax)
  BY DEF Mapped, Root
<1>2. Target(CorePdt, Copy) = {eax}
  BY <1>1, ToFrameTarget
<1>3. Walk(CorePdt, NewDirectory) = {eax}
  <2>1. NewDirectory = TableOf(Copy) /\ Copy \in Index
    BY Frames DEF NewDirectory, TableOf
  <2> QED BY <1>2, <2>1, Paths DEF Mapped
<1>4. \A c \in tlb : c[1] # NewDirectory
  <2>1. ~Stale
    BY DEF Stale, Before, Kind, Mid
  <2> QED BY <2>1 DEF Mapped, Kept
<1> QED BY <1>3, <1>4 DEF Reached

(* The directory is copied: its low half becomes the program's own.        *)
LEMMA CopyMapped ==
    ASSUME Typed, Typed', Mapped, NEW own, Owned(own), CopyDirectory
    PROVE  Mapped' /\ \E now : Owned(now)'
<1>0. Registers /\ Registers' /\ Root /\ Kept /\ Fresh /\ Images /\ Tsss
  BY DEF Typed, Mapped
<1>1. /\ pc = "copy" /\ pc' \in {"tcb", "done"} /\ pc \notin Mid /\ pc' \notin Mid
      /\ prog' = prog + 1 /\ cr3' = [cr3 EXCEPT ![prog] = eax]
      /\ UNCHANGED <<used, coreNext, userNext, left, size, tssAt, purpose, ebx, eax, halt>>
  BY DEF CopyDirectory, space, Mid
<1>2. Kind = "copy" /\ Kind' \in {"tcb", "done"}
  BY <1>1 DEF Kind
<1>3. ~Before /\ Before' /\ ~Stale /\ Stale' /\ HasLdt /\ ~HasLdt'
  BY <1>1, <1>2 DEF Before, Stale, HasLdt
<1>4. PICK u, e : u = prog /\ e = eax
  OBVIOUS
<1>5. u \in Program /\ u \in Nat /\ cr3[u] = 0 /\ \A i : LowTable(u, i) = Target(CorePdt, i)
  <2>1. prog \in Nat
    BY <1>0, Numbers
  <2> QED BY <1>0, <1>3, <1>4, <2>1, LowOfLoading
<1>6. own[e] = Pending /\ Slots(own) /\ Reserved(own)
  BY <1>1, <1>4 DEF Owned, Reserved
<1>7. /\ e \in Phys /\ e # CorePdt /\ e # CorePt /\ e # 0
      /\ \A v \in Program : cr3[v] # 0 => cr3[v] # e
      /\ \A v \in Program, i \in LowIndex : e \notin LowTable(v, i)
  <2>1. /\ e \in Phys /\ e # CorePdt /\ e # CorePt
        /\ \A v \in Program : cr3[v] # 0 => cr3[v] # e
        /\ \A v \in Program, i \in LowIndex : e \notin LowTable(v, i)
    BY <1>0, <1>4, <1>6, PendingIsNew
  <2> QED BY <2>1 DEF CorePdt
<1>8. Reached(Directory) = {CorePdt} /\ Walk(CorePdt, Directory) = {CorePdt}
  BY <1>0, ReachedDirectory
<1>9. Reached(NewDirectory) = {e}
  BY <1>1, <1>4, ReachedCopy
<1>10. mem' = [mem EXCEPT ![e] = mem[CorePdt]] /\ tlb' = tlb \cup {<<Directory, CorePdt>>, <<NewDirectory, e>>}
  <2>1. PICK f \in Reached(Directory), g \in Reached(NewDirectory) :
            /\ tlb' = tlb \cup {<<Directory, f>>, <<NewDirectory, g>>}
            /\ mem' = [mem EXCEPT ![g] = mem[f]]
    BY DEF CopyDirectory
  <2>2. f = CorePdt /\ g = e
    BY <1>8, <1>9, <2>1
  <2> QED BY <2>1, <2>2
<1>11. /\ \A f \in Phys : f # e => mem'[f] = mem[f]
       /\ mem'[e] = mem[CorePdt]
       /\ cr3'[u] = e /\ \A v \in Program : v # u => cr3'[v] = cr3[v]
  <2>1. /\ \A f \in Phys : f # e => mem'[f] = mem[f]
        /\ mem'[e] = mem[CorePdt]
    <3>1. mem \in [Phys -> [Index -> Entry]]
      BY <1>0 DEF Registers
    <3> QED BY <1>7, <1>10, <3>1
  <2>2. cr3'[u] = e /\ \A v \in Program : v # u => cr3'[v] = cr3[v]
    <3>1. cr3 \in [Program -> Phys] /\ cr3' = [cr3 EXCEPT ![u] = e]
      BY <1>0, <1>1, <1>4 DEF Registers
    <3> QED BY <1>5, <3>1
  <2> QED BY <2>1, <2>2
<1>12. ASSUME NEW v \in Program, cr3[v] # 0 PROVE v # u /\ cr3[v] \in Phys /\ cr3[v] # e /\ cr3'[v] = cr3[v]
  <2>1. cr3[v] \in Phys /\ v # u
    BY <1>0, <1>5, <1>12 DEF Registers
  <2> QED BY <1>7, <1>11, <1>12, <2>1
<1>13. Root'
  <2>1. ASSUME NEW v \in Program PROVE cr3'[v] # 0 <=> v < prog'
    <3>1. v \in Nat
      BY Sizes DEF Program
    <3>2. cr3[v] # 0 <=> v < u
      BY <1>0, <1>4 DEF Root
    <3>3. v = u => v < u + 1
      BY <1>5
    <3>4. v # u => (v < u <=> v < u + 1)
      BY <1>5, <3>1
    <3> QED BY <1>1, <1>4, <1>7, <1>11, <3>2, <3>3, <3>4
  <2>2. mem'[CorePdt] = mem[CorePdt]
    BY <1>7, <1>11, Frames
  <2>3. ASSUME NEW v \in Program, cr3'[v] # 0 PROVE mem'[cr3'[v]][Half] = ToFrame(CorePt)
    <3>1. CASE v = u
      BY <1>0, <1>11, <3>1 DEF Root
    <3>2. CASE v # u
      <4>1. cr3'[v] = cr3[v] /\ cr3[v] # 0
        BY <1>11, <2>3, <3>2
      <4>2. mem'[cr3[v]] = mem[cr3[v]]
        BY <1>11, <1>12, <4>1
      <4> QED BY <1>0, <4>1, <4>2 DEF Root
    <3> QED BY <3>1, <3>2
  <2>4. mem'[CorePdt][Self] = ToFrame(CorePdt) /\ mem'[CorePdt][Half] = ToFrame(CorePt)
    BY <1>0, <2>2 DEF Root
  <2> QED BY <1>1, <1>3, <2>1, <2>3, <2>4 DEF Root
<1>14. ASSUME NEW v \in Program, NEW i \in LowIndex PROVE LowTable(v, i)' = LowTable(v, i)
  <2>1. CASE v = u
    <3>1. cr3'[v] = e
      BY <1>11, <2>1
    <3>2. LowTable(v, i)' = Target(e, i)'
      BY <1>7, <3>1 DEF LowTable, Target
    <3>3. Target(e, i)' = Target(CorePdt, i)
      BY <1>11 DEF Target
    <3> QED BY <1>5, <2>1, <3>2, <3>3
  <2>2. CASE v # u /\ cr3[v] # 0
    <3>1. cr3'[v] = cr3[v] /\ mem'[cr3[v]] = mem[cr3[v]]
      BY <1>11, <1>12, <2>2
    <3>2. Target(cr3[v], i)' = Target(cr3[v], i)
      BY <3>1 DEF Target
    <3> QED BY <2>2, <3>1, <3>2 DEF LowTable
  <2>3. CASE v # u /\ cr3[v] = 0
    <3>1. cr3'[v] = 0
      BY <1>11, <2>3
    <3> QED BY <1>3, <1>4, <2>3, <3>1 DEF LowTable
  <2> QED BY <2>1, <2>2, <2>3
<1>15. ASSUME NEW v \in Program, NEW i \in LowIndex, NEW t \in LowTable(v, i), NEW j
       PROVE  Target(t, j)' = Target(t, j)
  <2>1. t \in Phys /\ t # e
    BY <1>0, <1>7, <1>15, TablesAreFrames
  <2>2. mem'[t] = mem[t]
    BY <1>11, <2>1
  <2> QED BY <2>2, SameTarget
<1>16. \A k : Target(CorePt, k)' = Target(CorePt, k)
  <2>1. mem'[CorePt] = mem[CorePt]
    BY <1>7, <1>11, Frames
  <2> QED BY <2>1, SameTarget
<1>17. Grows /\ Shrinks
  BY <1>14, <1>15, <1>16 DEF Grows, Shrinks
<1>18. /\ \A v \in Program : PagesStay(v)
       /\ \A k \in CoreIndex : \A f \in Target(CorePt, k) : mem'[f] = mem[f]
  <2>1. ASSUME NEW f \in Phys, KindOf(own[f]) \in {"core", "page"} PROVE mem'[f] = mem[f]
    <3>1. KindOf(own[e]) = "pending"
      BY <1>6, OwnerKinds
    <3>2. f # e
      BY <2>1, <3>1
    <3> QED BY <1>11, <3>2
  <2>2. ASSUME NEW v \in Program, NEW i \in LowIndex, NEW s \in LowTable(v, i),
               NEW j \in Index, NEW f \in Target(s, j)
        PROVE  mem'[f] = mem[f]
    <3>1. \A b \in Index : \A g \in Target(s, b) : own[g] = PageSlot(v, i, b)
      BY <1>6, <2>2 DEF Slots
    <3>2. KindOf(own[f]) = "page"
      BY <2>2, <3>1, OwnerKinds
    <3> QED BY <1>0, <2>1, <2>2, <3>2, TablesAreFrames
  <2>3. ASSUME NEW k \in CoreIndex, NEW f \in Target(CorePt, k) PROVE mem'[f] = mem[f]
    <3>1. KindOf(own[f]) = "core"
      BY <1>6, <2>3, OwnerKinds DEF Slots
    <3>2. f \in Phys
      BY <1>0, <2>3, Frames, Indices, TargetIs
    <3> QED BY <2>1, <3>1, <3>2
  <2> QED BY <2>2, <2>3 DEF PagesStay
<1>19. Kept'
  <2>1. ASSUME NEW c \in tlb', c[1] \in CoreSide PROVE Walk(CorePdt, c[1])' = {c[2]}
    <3>1. c \in tlb \/ (c[1] = Directory /\ c[2] = CorePdt) \/ c[1] = NewDirectory
      BY <1>10, <2>1
    <3>2. CASE c \in tlb
      <4>1. Walk(CorePdt, c[1]) = {c[2]}
        BY <1>0, <2>1, <3>2 DEF Kept
      <4> QED BY <1>0, <1>13, <1>17, <2>1, <4>1, WalkGrows
    <3>3. CASE c[1] = Directory /\ c[2] = CorePdt
      BY <1>13, <3>3, PathsNext
    <3>4. c[1] # NewDirectory
      BY <2>1, Sides
    <3> QED BY <3>1, <3>2, <3>3, <3>4
  <2> QED BY <1>3, <2>1 DEF Kept
<1>20. CoreBound' = CoreBound /\ CoreDone' = CoreDone
  BY <1>1 DEF CoreBound, CoreDone, Installing
<1>21. CoreBound' >= CoreBound /\ CoreDone' >= CoreDone /\ CoreBound \in Int /\ CoreBound' \in Int
  BY <1>20, AtLeast, Bounds, BoundsNext
<1>22. Fresh'
  BY <1>0, <1>3, <1>13, <1>17, <1>21, FreshStep
<1>23. Ready'
  BY <1>1 DEF Ready, Mid
<1>24. Images'
  <2>1. ASSUME NEW v \in Program, cr3'[v] # 0
        PROVE  /\ size[v] \in ImageSizes
               /\ \A k \in 0 .. (size[v] - 1) : HoldsLow(v, k, "image")
               /\ HoldsLow(v, size[v], "ldt")
    <3>1. CASE v = u
      <4>1. size[prog] \in ImageSizes
        BY <1>2 DEF Typed, UserCounts
      <4>2. ImageDone = size[prog]
        BY <1>2 DEF ImageDone
      <4> QED BY <1>0, <1>3, <1>4, <3>1, <4>1, <4>2 DEF Images
    <3>2. CASE v # u
      <4>1. cr3[v] # 0
        BY <1>11, <2>1, <3>2
      <4> QED BY <1>0, <4>1 DEF Images, LoadedImages
    <3> QED BY <3>1, <3>2
  <2>2. ASSUME NEW v \in Program, cr3'[v] # 0
        PROVE  /\ size[v] \in ImageSizes
               /\ \A k \in 0 .. (size[v] - 1) : HoldsLow(v, k, "image")'
               /\ HoldsLow(v, size[v], "ldt")'
    <3>1. PICK n : n = size[v]
      OBVIOUS
    <3>2. n \in Nat /\ n + 1 + StackPages <= Entries * Half
      BY <2>1, <2>2, <3>1, UserSizes
    <3>3. n < Entries * Half
      BY <3>2, Sizes, UserSizes
    <3>4. \A k \in 0 .. (n - 1) : k \in Nat /\ k < Entries * Half
      BY <3>2, <3>3, UserSizes
    <3>5. PagesStay(v)
      BY <1>18
    <3>6. ASSUME NEW k \in 0 .. (n - 1) PROVE HoldsLow(v, k, "image")'
      <4>1. HoldsLow(v, k, "image")
        BY <2>1, <2>2, <3>1
      <4> QED BY <1>17, <3>4, <3>5, <4>1, PageHeld
    <3>7. HoldsLow(v, n, "ldt")'
      <4>1. HoldsLow(v, n, "ldt")
        BY <2>1, <2>2, <3>1
      <4> QED BY <1>17, <3>2, <3>3, <3>5, <4>1, PageHeld
    <3>8. size'[v] = n
      BY <1>1, <3>1
    <3> QED BY <2>1, <2>2, <3>1, <3>6, <3>7, <3>8
  <2>3. LoadedImages'
    BY <1>1, <2>2 DEF LoadedImages
  <2> QED BY <1>3, <2>3 DEF Images
<1>25. Tsss'
  <2>1. ASSUME NEW v \in Program \cup {0}, HasTss(v)' PROVE HasTss(v)
    <3>1. CASE v = 0
      BY <1>2, <3>1 DEF HasTss
    <3>2. CASE v \in Program
      <4>1. v < prog' \/ v = 0
        BY <1>2, <1>3, <2>1 DEF HasTss
      <4>2. v \in Nat /\ (v < u + 1 => v < u \/ v = u)
        BY <1>5, <3>2, Sizes DEF Program
      <4> QED BY <1>1, <1>2, <1>3, <1>4, <3>2, <4>1, <4>2 DEF HasTss
    <3> QED BY <3>1, <3>2
  <2> QED BY <1>0, <1>1, <1>17, <1>18, <1>21, <2>1, TsssStay
<1>26. PICK slot, now : slot = DirectoryOf(u) /\ now = [own EXCEPT ![e] = slot]
  OBVIOUS
<1>27. Owned(now)'
  <2>1. slot \in Owner /\ KindOf(slot) \in {"core", "table", "page", "directory"}
    <3>1. slot \in Owner
      BY <1>5, <1>26 DEF DirectoryOf, Owner
    <3> QED BY <1>26, <3>1, OwnerKinds
  <2>2. now \in [Phys -> Owner] /\ now[eax] = slot /\ \A f \in Phys : f # eax => now[f] = own[f]
    <3>1. own \in [Phys -> Owner]
      BY <1>6 DEF Reserved
    <3> QED BY <1>4, <1>7, <1>26, <2>1, <3>1
  <2>3. /\ Reserved(now)'
        /\ \A f \in Phys : KindOf(own[f]) \in {"core", "table", "page", "directory"} => now[f] = own[f]
    <3>1. pc' \notin {"set table", "set page", "set pdir", "copy"} /\ used' = used /\ own[eax] = Pending
      BY <1>1, <1>4, <1>6
    <3>2. \A f \in Phys : own[f] \in {Free, Pending} /\ f # eax => mem'[f] = mem[f]
      BY <1>4, <1>11
    <3> QED BY <1>0, <2>1, <2>2, <3>1, <3>2, NewOwner
  <2>4. ASSUME NEW v \in Program, cr3'[v] # 0 PROVE now[cr3'[v]] = DirectoryOf(v)
    <3>1. CASE v = u
      BY <1>4, <1>11, <1>26, <2>2, <3>1
    <3>2. CASE v # u
      <4>1. cr3'[v] = cr3[v] /\ cr3[v] # 0 /\ cr3[v] \in Phys
        BY <1>11, <1>12, <2>4, <3>2
      <4>2. own[cr3[v]] = DirectoryOf(v)
        BY <1>6, <4>1 DEF Slots
      <4>3. KindOf(own[cr3[v]]) = "directory"
        BY <4>2, OwnerKinds
      <4> QED BY <2>3, <4>1, <4>2, <4>3
    <3> QED BY <3>1, <3>2
  <2>5. Slots(now)'
    BY <1>0, <1>6, <1>17, <2>3, <2>4, SlotsStay
  <2> QED BY <2>3, <2>5 DEF Owned
<1> QED BY <1>13, <1>19, <1>22, <1>23, <1>24, <1>25, <1>27 DEF Mapped

-----------------------------------------------------------------------------
(* The kernel's own frames are two; every other one that is in use belongs *)
(* to nobody yet.                                                          *)
LEMMA MappedInit == Init => Mapped /\ \E own : Owned(own)
<1> SUFFICES ASSUME Init PROVE Mapped /\ \E own : Owned(own)
  OBVIOUS
<1>1. /\ mem = [f \in Phys |-> CASE f = CorePdt -> BootDirectory
                                 [] f = CorePt -> BootTable
                                 [] OTHER -> [i \in Index |-> Unwritten]]
      /\ used = InUse /\ tlb = {<<UserPage(LowFrame), LowFrame>>}
      /\ coreNext = BootFrames /\ prog = 1 /\ pc = "core tss"
      /\ cr3 = [u \in Program |-> 0]
  BY DEF Init
<1>2. Kind = "core tss" /\ Before /\ Stale /\ ~HasLdt
  BY <1>1 DEF Kind, Mid, Before, Stale, HasLdt
<1>3. /\ mem[CorePdt] = BootDirectory /\ mem[CorePt] = BootTable /\ CorePdt # CorePt
      /\ \A f \in Phys : f # CorePdt /\ f # CorePt => mem[f] = [i \in Index |-> Unwritten]
  <2>1. CorePdt # CorePt
    BY DEF CorePdt, CorePt
  <2>2. mem = [f \in Phys |-> CASE f = CorePdt -> BootDirectory
                               [] f = CorePt -> BootTable
                               [] OTHER -> [i \in Index |-> Unwritten]]
    BY <1>1
  <2>3. \A f \in Phys : mem[f] = CASE f = CorePdt -> BootDirectory
                                  [] f = CorePt -> BootTable
                                  [] OTHER -> [i \in Index |-> Unwritten]
    BY <2>2
  <2>4. mem[CorePdt] = BootDirectory /\ mem[CorePt] = BootTable
    BY <2>1, <2>3, Frames
  <2> QED BY <2>1, <2>3, <2>4
<1>4. \A u \in Program : cr3[u] = 0 /\ ~(u < prog)
  <2>1. \A u \in Program : ~(u < 1)
    BY Sizes DEF Program
  <2> QED BY <1>1, <2>1
<1>5. Root
  <2>1. mem[CorePdt][Self] = ToFrame(CorePdt) /\ mem[CorePdt][Half] = ToFrame(CorePt)
    <3>1. Self \notin {0, Half}
      BY Sizes DEF Self
    <3> QED BY <1>3, <3>1, Frames DEF BootDirectory
  <2> QED BY <1>1, <1>2, <1>4, <2>1 DEF Root
<1>6. Kept
  <2>1. ASSUME NEW c \in tlb, c[1] \in CoreSide PROVE FALSE
    <3>1. LowFrame \in Nat /\ LowFrame < Entries * Half
      BY UserSizes DEF LowFrame
    <3>2. UserPage(LowFrame)[1] \in LowIndex
      BY <3>1, UserPageLow
    <3>3. c[1] = UserPage(LowFrame)
      <4>1. tlb = {<<UserPage(LowFrame), LowFrame>>}
        BY <1>1
      <4> QED BY <2>1, <4>1
    <3>4. UserPage(LowFrame)[1] \in {Self, Half}
      BY <2>1, <3>3 DEF CoreSide, Directory, TableOf
    <3> QED BY <3>2, <3>4, Indices
  <2> QED BY <1>2, <2>1 DEF Kept
<1>7. \A k \in CoreIndex : Target(CorePt, k) = {}
  <2>1. ASSUME NEW k \in CoreIndex PROVE mem[CorePt][k] = Unwritten
    <3>1. k \in Index /\ ~(k < BootFrames)
      BY Sizes, Indices DEF CoreIndex
    <3> QED BY <1>3, <3>1 DEF BootTable
  <2>2. Unwritten[1] # "frame"
    BY DEF Unwritten
  <2> QED BY <2>1, <2>2 DEF Target
<1>8. Fresh
  BY <1>2, <1>7 DEF Fresh
<1>9. Ready
  BY <1>1 DEF Ready
<1>10. Images
  BY <1>2, <1>4 DEF Images, LoadedImages
<1>11. Tsss
  <2>1. ASSUME NEW v \in Program \cup {0}, HasTss(v) PROVE FALSE
    BY <1>2, <1>4, <2>1 DEF HasTss
  <2> QED BY <2>1 DEF Tsss
<1>12. PICK own : own = [f \in Phys |-> IF f \in {CorePdt, CorePt} THEN Kernel
                                       ELSE IF f \in used THEN Pending ELSE Free]
  OBVIOUS
<1>13. Reserved(own)
  <2>1. own \in [Phys -> Owner]
    <3>1. Kernel \in Owner /\ Pending \in Owner /\ Free \in Owner
      BY DEF Owner, Kernel, Pending, Free
    <3> QED BY <1>12, <3>1
  <2>2. own[CorePdt] = Kernel /\ own[CorePt] = Kernel
    BY <1>12, Frames
  <2>3. \A f \in Phys : f \notin used => own[f] = Free
    <3>1. CorePdt \in used /\ CorePt \in used
      BY <1>1, PagingAssumption
    <3> QED BY <1>12, <3>1
  <2>4. ASSUME NEW f \in Phys, own[f] \in {Free, Pending}
        PROVE  mem[f] = [i \in Index |-> Unwritten]
    <3>1. KindOf(own[f]) # "kernel"
      BY <2>4, OwnerKinds
    <3>2. f # CorePdt /\ f # CorePt
      BY <2>2, <3>1, OwnerKinds
    <3> QED BY <1>3, <3>2
  <2> QED BY <1>1, <2>1, <2>2, <2>3, <2>4 DEF Reserved
<1>14. Slots(own)
  BY <1>2, <1>4, <1>7 DEF Slots, LowTable
<1> QED BY <1>5, <1>6, <1>8, <1>9, <1>10, <1>11, <1>13, <1>14 DEF Mapped, Owned

(* A frame is never given back, and the halt is never forgotten.           *)
LEMMA SufficedBefore == [Next]_vars /\ PagesSuffice' => PagesSuffice
<1> SUFFICES ASSUME [Next]_vars, halt' = "never" PROVE halt = "never"
  BY DEF PagesSuffice
<1>1. NoMorePages => halt' = "halted"
  BY DEF NoMorePages
<1>2. WokenFromHalt => halt' = "woken"
  BY DEF WokenFromHalt
<1>3. AllocInstAPage => halt' = halt
  BY DEF AllocInstAPage, AllocCoreLinear, AllocUserLinear, TestTable, SetTable, SetPage
<1>4. UsePage => halt' = halt
  BY DEF UsePage, FillCoreTss, CreateTcb, LoadImagePage, CreateTss, CreateLdt, CreateStack
<1>5. Load => halt' = halt
  BY DEF Load, ClearLowHalf, ReloadCr3, ReadHeader, Relocate, SetNewDirectory, CopyDirectory
<1>6. Allocate \/ Preempted \/ UNCHANGED vars => halt' = halt
  BY DEF Allocate, Preempted, vars
<1> QED BY <1>1, <1>2, <1>3, <1>4, <1>5, <1>6 DEF Next

LEMMA QuietMapped ==
    ASSUME Typed, Typed', Mapped, NEW own, Owned(own), UNCHANGED vars
    PROVE  Mapped' /\ Owned(own)'
<1>1. UNCHANGED <<mem, used, tlb, coreNext, userNext, prog, left, size, tssAt, cr3,
                  pc, purpose, ebx, eax, halt>>
  BY DEF vars
<1>2. loading' = loading /\ space' = space /\ Kind' = Kind
  BY <1>1 DEF loading, space, Kind
<1>3. Registers /\ Registers' /\ Root /\ Kept /\ Ready
  BY DEF Typed, Mapped
<1>4. Root' /\ Grows /\ Shrinks /\ Fresh' /\ Images' /\ Tsss'
  BY <1>1, <1>2, QuietSame
<1>5. Kept'
  <2>1. Stale' <=> Stale
    BY <1>1, <1>2 DEF Stale, Before
  <2> QED BY <1>1, <1>3, <1>4, <2>1, NoAccess
<1>6. Ready'
  BY <1>1, <1>3 DEF Ready, Walk, Target
<1>7. Owned(own)'
  BY <1>1, <1>4, NothingAllocated
<1> QED BY <1>4, <1>5, <1>6, <1>7 DEF Mapped

LEMMA MappedStep ==
    ASSUME ReloadsCr3, Typed, Typed', Mapped, NEW own, Owned(own), [Next]_vars, PagesSuffice'
    PROVE  Mapped' /\ \E now : Owned(now)'
<1>1. CASE Allocate
  BY <1>1, AllocateMapped
<1>2. CASE NoMorePages \/ WokenFromHalt
  BY <1>2 DEF NoMorePages, WokenFromHalt, PagesSuffice
<1>3. CASE AllocInstAPage
  BY <1>3, CoreLinearMapped, UserLinearMapped, TestTableMapped, SetTableMapped, SetPageMapped
     DEF AllocInstAPage
<1>4. CASE UsePage
  BY <1>4, CoreTssMapped, TcbMapped, UserPageMapped, StackMapped DEF UsePage
<1>5. CASE Load
  BY <1>5, ClearMapped, ReloadMapped, HeaderMapped, RelocateMapped, NewDirectoryMapped, CopyMapped
     DEF Load
<1>6. CASE Preempted
  BY <1>6, PreemptedMapped
<1>7. CASE UNCHANGED vars
  BY <1>7, QuietMapped
<1> QED BY <1>1, <1>2, <1>3, <1>4, <1>5, <1>6, <1>7 DEF Next

LEMMA Inductive == ASSUME ReloadsCr3 PROVE Spec => [](Typed /\ IInv)
<1>1. Init => Typed /\ IInv
  BY TypedInit, MappedInit DEF IInv
<1>2. Typed /\ IInv /\ [Next]_vars => (Typed /\ IInv)'
  <2> SUFFICES ASSUME Typed, IInv, [Next]_vars PROVE (Typed /\ IInv)'
    OBVIOUS
  <2>1. Typed'
    BY TypedStep
  <2>2. ASSUME PagesSuffice' PROVE Mapped' /\ \E now : Owned(now)'
    <3>1. Mapped /\ \E own : Owned(own)
      BY <2>2, SufficedBefore DEF IInv
    <3>2. PICK own : Owned(own)
      BY <3>1
    <3> QED BY <2>1, <2>2, <3>1, <3>2, MappedStep
  <2>3. IInv'
    BY <2>2 DEF IInv
  <2> QED BY <2>1, <2>3
<1> QED BY <1>1, <1>2, PTL DEF Spec

-----------------------------------------------------------------------------
(* What the invariant is for.                                              *)

(* The frames of a program are owned by slots of that program.             *)
LEMMA PrivateOwned ==
    ASSUME Registers, NEW own, Slots(own), NEW u \in Program, cr3[u] # 0,
           NEW f \in PrivateFrames(cr3[u])
    PROVE  f \in Phys /\ KindOf(own[f]) \in {"table", "page"} /\ ProgramOf(own[f]) = u
<1>1. \A i \in LowIndex : Target(cr3[u], i) = LowTable(u, i)
  BY DEF LowTable
<1>2. ASSUME NEW t \in Tables(cr3[u]) PROVE \E i \in LowIndex : t \in LowTable(u, i)
  BY <1>1, <1>2 DEF Tables, LowIndex
<1>3. CASE f \in Tables(cr3[u])
  <2>1. PICK i \in LowIndex : f \in LowTable(u, i)
    BY <1>2, <1>3
  <2>2. own[f] = TableSlot(u, i)
    BY <2>1 DEF Slots
  <2> QED BY <2>1, <2>2, OwnerKinds, TableOwner, TablesAreFrames
<1>4. CASE \E t \in Tables(cr3[u]), j \in Index : f \in Target(t, j)
  <2>1. PICK t \in Tables(cr3[u]), j \in Index : f \in Target(t, j)
    BY <1>4
  <2>2. PICK i \in LowIndex : t \in LowTable(u, i)
    BY <1>2
  <2>3. \A b \in Index : \A g \in Target(t, b) : own[g] = PageSlot(u, i, b)
    BY <2>2 DEF Slots
  <2>4. own[f] = PageSlot(u, i, j)
    BY <2>1, <2>3
  <2> QED BY <2>1, <2>2, <2>4, OwnerKinds, TablesAreFrames
<1> QED BY <1>3, <1>4 DEF PrivateFrames

LEMMA Disjoint == Typed /\ IInv => ProgramsAreDisjoint
<1> SUFFICES ASSUME Typed, IInv, PagesSuffice, NEW u \in Loaded, NEW v \in Loaded
             PROVE  /\ u # v => PrivateFrames(cr3[u]) \cap PrivateFrames(cr3[v]) = {}
                    /\ cr3[u] \notin PrivateFrames(cr3[v]) \cup {CorePdt, CorePt}
                    /\ u # v => cr3[u] # cr3[v]
  BY DEF ProgramsAreDisjoint
<1>1. PICK own : Owned(own)
  BY DEF IInv
<1>2. Registers /\ Slots(own) /\ own[CorePdt] = Kernel /\ own[CorePt] = Kernel
  BY <1>1 DEF Typed, Owned, Reserved
<1>3. u \in Program /\ cr3[u] # 0 /\ v \in Program /\ cr3[v] # 0
  BY DEF Loaded
<1>4. /\ \A f \in PrivateFrames(cr3[u]) : ProgramOf(own[f]) = u
      /\ \A f \in PrivateFrames(cr3[v]) :
            KindOf(own[f]) \in {"table", "page"} /\ ProgramOf(own[f]) = v
  BY <1>2, <1>3, PrivateOwned
<1>5. own[cr3[u]] = DirectoryOf(u) /\ own[cr3[v]] = DirectoryOf(v)
  BY <1>2, <1>3 DEF Slots
<1>6. KindOf(own[cr3[u]]) = "directory" /\ KindOf(Kernel) = "kernel"
  BY <1>5, OwnerKinds
<1>7. cr3[u] \notin PrivateFrames(cr3[v]) /\ cr3[u] # CorePdt /\ cr3[u] # CorePt
  BY <1>2, <1>4, <1>6
<1>8. u # v => cr3[u] # cr3[v]
  BY <1>5, OwnerSlots
<1> QED BY <1>4, <1>7, <1>8

(* No frame is in the low half of two programs, and none of a program's    *)
(* frames is a directory: whatever load_relocate_program installs.         *)
THEOREM Disjointness == ASSUME ReloadsCr3 PROVE Spec => []ProgramsAreDisjoint
BY Inductive, Disjoint, PTL

LEMMA OwnPages == Typed /\ IInv => ProgramsKeepTheirPages
<1> SUFFICES ASSUME Typed, IInv, PagesSuffice, NEW u \in Loaded
             PROVE  /\ \A k \in 0 .. (size[u] - 1) : Holds(cr3[u], UserPage(k), "image", u)
                    /\ Holds(cr3[u], UserPage(size[u]), "ldt", u)
  BY DEF ProgramsKeepTheirPages
<1>1. Registers /\ LoadedImages /\ u \in Program /\ cr3[u] # 0
  BY DEF Typed, IInv, Mapped, Images, Loaded
<1>2. ASSUME NEW k \in Nat, k < Entries * Half, NEW what, HoldsLow(u, k, what)
      PROVE  Holds(cr3[u], UserPage(k), what, u)
  <2> DEFINE i == UserPage(k)[1]
             j == UserPage(k)[2]
  <2>1. i \in LowIndex /\ j \in Index
    BY <1>2, UserPageLow
  <2>2. PICK t \in LowTable(u, i) : \E f \in Target(t, j) : mem[f] = Filled(what, u)
    BY <1>2 DEF HoldsLow
  <2>3. PICK f \in Target(t, j) : mem[f] = Filled(what, u)
    BY <2>2
  <2>4. Target(cr3[u], i) = {t} /\ Target(t, j) = {f}
    BY <1>1, <2>2, <2>3, OneTarget DEF LowTable
  <2>5. Walk(cr3[u], UserPage(k)) = {f}
    BY <2>4, WalkOne
  <2>6. f \in Phys
    BY <1>1, <2>1, <2>2, <2>3, TablesAreFrames
  <2> QED BY <2>3, <2>5, <2>6 DEF Holds
<1>3. PICK n : n = size[u]
  OBVIOUS
<1>4. n \in Nat /\ n + 1 + StackPages <= Entries * Half
  BY <1>1, <1>3, UserSizes DEF LoadedImages
<1>5. n < Entries * Half
  BY <1>4, Sizes, UserSizes
<1>6. \A k \in 0 .. (n - 1) : k \in Nat /\ k < Entries * Half
  BY <1>4, <1>5, UserSizes
<1>7. HoldsLow(u, n, "ldt") /\ \A k \in 0 .. (n - 1) : HoldsLow(u, k, "image")
  BY <1>1, <1>3 DEF LoadedImages
<1> QED BY <1>2, <1>3, <1>4, <1>5, <1>6, <1>7

(* Every program finds its own image and its own LDT through its own       *)
(* directory, however many were loaded at the same addresses after it.     *)
THEOREM PagesKept == ASSUME ReloadsCr3 PROVE Spec => []ProgramsKeepTheirPages
BY Inductive, OwnPages, PTL

LEMMA AllTsss == Typed /\ IInv => TssVisibleEverywhere
<1> SUFFICES ASSUME Typed, IInv, PagesSuffice, NEW u \in Loaded, NEW v \in Loaded \cup {0}
             PROVE  Holds(cr3[u], tssAt[v], "tss", v)
  BY DEF TssVisibleEverywhere
<1>1. Registers /\ Root /\ Tsss /\ u \in Program /\ cr3[u] # 0
  BY DEF Typed, IInv, Mapped, Loaded
<1>2. v \in Program \cup {0} /\ HasTss(v)
  <2>1. CASE v \in Loaded
    <3>1. v \in Program /\ v < prog
      BY <1>1, <2>1 DEF Loaded, Root
    <3> QED BY <3>1 DEF HasTss
  <2>2. CASE v = 0
    <3>1. u < prog
      BY <1>1 DEF Root
    <3>2. prog # 1
      <4>1. u \in Nat /\ u >= 1
        BY <1>1, Sizes DEF Program
      <4> QED BY <3>1, <4>1
    <3>3. Kind # "core tss"
      BY <3>2 DEF Typed, CoreCounts
    <3> QED BY <2>2, <3>3 DEF HasTss
  <2> QED BY <2>1, <2>2
<1>3. PICK k \in CoreIndex :
         tssAt[v] = <<Half, k>> /\ \E f \in Target(CorePt, k) : mem[f] = Filled("tss", v)
  BY <1>1, <1>2 DEF Tsss, TssAt
<1>4. PICK f \in Target(CorePt, k) : mem[f] = Filled("tss", v)
  BY <1>3
<1>5. f \in Phys /\ Target(CorePt, k) = {f}
  BY <1>1, Frames, Indices, TargetIs
<1>6. Target(cr3[u], Half) = {CorePt}
  BY <1>1, ToFrameTarget DEF Root
<1>7. <<Half, k>>[1] = Half /\ <<Half, k>>[2] = k
  OBVIOUS
<1>8. Walk(cr3[u], <<Half, k>>) = {f}
  BY <1>5, <1>6, <1>7, WalkOne
<1> QED BY <1>3, <1>4, <1>5, <1>8 DEF Holds

(* Whichever program runs, its directory shows the TSS of every other one, *)
(* as the switch by CALL needs it.                                         *)
THEOREM TssVisible == ASSUME ReloadsCr3 PROVE Spec => []TssVisibleEverywhere
BY Inductive, AllTsss, PTL

LEMMA OneFrame == Typed /\ IInv => OneFrameReached
<1> SUFFICES ASSUME Typed, IInv, PagesSuffice, NEW p \in NextPages
             PROVE  Cardinality(Reached(p)) = 1
  BY DEF OneFrameReached
<1>1. Mapped /\ Root /\ Kept /\ Registers
  BY DEF Typed, IInv, Mapped
<1>2. PICK own : Owned(own)
  BY DEF IInv
<1>3. Reached(Directory) = {CorePdt}
  BY <1>1, ReachedDirectory
<1>4. \E f : Reached(p) = {f}
  <2>1. CASE pc \in {"test", "set table", "set pdir", "clear"}
    <3>1. p = Directory
      BY <2>1 DEF NextPages
    <3> QED BY <1>3, <3>1
  <2>2. CASE pc = "set page"
    <3>1. p = TableOf(ebx[1])
      BY <2>2 DEF NextPages
    <3> QED BY <1>1, <1>2, <2>2, <3>1, ReachedTable
  <2>3. CASE pc = "use"
    <3>1. p = ebx
      BY <2>3 DEF NextPages
    <3> QED BY <1>1, <1>2, <2>3, <3>1, ReachedPage
  <2>4. CASE pc = "relocate"
    <3>1. p = UserPage(0)
      BY <2>4 DEF NextPages
    <3> QED BY <1>1, <1>2, <2>4, <3>1, FirstPage
  <2>5. CASE pc = "copy"
    <3>1. p = Directory \/ p = NewDirectory
      BY <2>5 DEF NextPages
    <3> QED BY <1>1, <1>3, <2>5, <3>1, ReachedCopy
  <2>6. CASE pc \notin {"test", "set table", "set pdir", "clear", "set page", "use", "relocate", "copy"}
    BY <2>6 DEF NextPages
  <2> QED BY <2>1, <2>2, <2>3, <2>4, <2>5, <2>6
<1> QED BY <1>4, FS_Singleton

(* Every page the loader touches is mapped, and what the processor has     *)
(* kept for it is not stale.                                               *)
THEOREM OneFrameEverywhere == ASSUME ReloadsCr3 PROVE Spec => []OneFrameReached
BY Inductive, OneFrame, PTL

-----------------------------------------------------------------------------
(* Frames the loader may write to: the kernel's, the one just allocated,   *)
(* and those of the program it loads.                                      *)
LoadersOwn(o) ==
    \/ KindOf(o) \in {"kernel", "core", "pending"}
    \/ KindOf(o) \in {"table", "page"} /\ ProgramOf(o) = prog

(* The frame a step may write to.                                          *)
WrittenOnly(g) == \A f \in Phys : f # g => mem'[f] = mem[f]

(* One access of the loader writes to one frame.                           *)
LEMMA DirectoryWritten ==
    ASSUME Typed, Mapped, NEW own, Owned(own),
           SetTable \/ ClearLowHalf \/ SetNewDirectory
    PROVE  \E g \in Phys : LoadersOwn(own[g]) /\ WrittenOnly(g)
<1>1. Registers /\ Reached(Directory) = {CorePdt} /\ CorePdt \in Phys
  BY ReachedDirectory, Frames DEF Typed, Mapped
<1>2. WrittenOnly(CorePdt)
  <2>1. CASE SetTable
    <3>1. PICK f \in Reached(Directory) : mem' = [mem EXCEPT ![f][ebx[1]] = ToFrame(eax)]
      BY <2>1 DEF SetTable
    <3> QED BY <1>1, <3>1 DEF WrittenOnly, Registers
  <2>2. CASE ClearLowHalf
    <3>1. PICK f \in Reached(Directory) :
             mem' = [mem EXCEPT ![f] =
                        [i \in Index |-> IF i \in LowEntries THEN NotPresent ELSE @[i]]]
      BY <2>2 DEF ClearLowHalf
    <3> QED BY <1>1, <3>1 DEF WrittenOnly, Registers
  <2>3. CASE SetNewDirectory
    <3>1. PICK f \in Reached(Directory) : mem' = [mem EXCEPT ![f][Copy] = ToFrame(eax)]
      BY <2>3 DEF SetNewDirectory
    <3> QED BY <1>1, <3>1 DEF WrittenOnly, Registers
  <2> QED BY <2>1, <2>2, <2>3
<1>3. LoadersOwn(own[CorePdt])
  BY OwnerKinds DEF LoadersOwn, Owned, Reserved
<1> QED BY <1>1, <1>2, <1>3

LEMMA TableWritten ==
    ASSUME Typed, Mapped, NEW own, Owned(own), SetPage
    PROVE  \E g \in Phys : LoadersOwn(own[g]) /\ WrittenOnly(g)
<1>1. pc = "set page" /\ Registers
  BY DEF SetPage, Typed
<1>2. PICK t \in Phys :
        /\ Reached(TableOf(ebx[1])) = {t}
        /\ t = CorePt \/ own[t] = TableSlot(prog, ebx[1])
  BY <1>1, ReachedTable
<1>3. PICK f \in Reached(TableOf(ebx[1])) : mem' = [mem EXCEPT ![f][ebx[2]] = ToFrame(eax)]
  BY DEF SetPage
<1>4. WrittenOnly(t)
  BY <1>1, <1>2, <1>3 DEF WrittenOnly, Registers
<1>5. LoadersOwn(own[t])
  <2>1. CASE t = CorePt
    BY <2>1, OwnerKinds DEF LoadersOwn, Owned, Reserved
  <2>2. CASE own[t] = TableSlot(prog, ebx[1])
    <3>1. KindOf(own[t]) = "table" /\ ProgramOf(own[t]) = prog
      BY <2>2, OwnerKinds, TableOwner
    <3> QED BY <3>1 DEF LoadersOwn
  <2> QED BY <1>2, <2>1, <2>2
<1> QED BY <1>4, <1>5

LEMMA PageWritten ==
    ASSUME Typed, Mapped, NEW own, Owned(own), pc = "use", NEW what, NEW u, Fill(what, u)
    PROVE  \E g \in Phys : LoadersOwn(own[g]) /\ WrittenOnly(g)
<1>1. PICK g \in Phys :
        /\ Reached(ebx) = {g}
        /\ own[g] = CoreSlot(coreNext - 1) \/ own[g] = PageSlot(prog, ebx[1], ebx[2])
  BY ReachedPage
<1>2. PICK f \in Reached(ebx) : mem' = [mem EXCEPT ![f] = Filled(what, u)]
  BY DEF Fill
<1>3. WrittenOnly(g)
  BY <1>1, <1>2 DEF WrittenOnly, Typed, Registers
<1>4. LoadersOwn(own[g])
  <2>1. KindOf(own[g]) = "core" \/ (KindOf(own[g]) = "page" /\ ProgramOf(own[g]) = prog)
    BY <1>1, OwnerKinds
  <2> QED BY <2>1 DEF LoadersOwn
<1> QED BY <1>3, <1>4

LEMMA FirstPageWritten ==
    ASSUME Typed, Mapped, NEW own, Owned(own), Relocate
    PROVE  \E g \in Phys : LoadersOwn(own[g]) /\ WrittenOnly(g)
<1>1. PICK g :
        /\ g \in Phys /\ Reached(UserPage(0)) = {g}
        /\ own[g] = PageSlot(prog, UserPage(0)[1], UserPage(0)[2])
  BY FirstPage DEF Relocate
<1>2. PICK f \in Reached(UserPage(0)) : mem' = [mem EXCEPT ![f] = Filled("image", prog)]
  BY DEF Relocate
<1>3. WrittenOnly(g)
  BY <1>1, <1>2 DEF WrittenOnly, Typed, Registers
<1>4. LoadersOwn(own[g])
  <2>1. KindOf(own[g]) = "page" /\ ProgramOf(own[g]) = prog
    BY <1>1, OwnerKinds
  <2> QED BY <2>1 DEF LoadersOwn
<1> QED BY <1>1, <1>3, <1>4

LEMMA CopyWritten ==
    ASSUME Typed, Mapped, NEW own, Owned(own), CopyDirectory
    PROVE  \E g \in Phys : LoadersOwn(own[g]) /\ WrittenOnly(g)
<1>1. pc = "copy" /\ Registers
  BY DEF CopyDirectory, Typed
<1>2. Reached(NewDirectory) = {eax} /\ eax \in Phys
  BY <1>1, ReachedCopy DEF Registers
<1>3. PICK f \in Reached(Directory), g \in Reached(NewDirectory) :
         mem' = [mem EXCEPT ![g] = mem[f]]
  BY DEF CopyDirectory
<1>4. WrittenOnly(eax)
  BY <1>1, <1>2, <1>3 DEF WrittenOnly, Registers
<1>5. own[eax] = Pending
  BY <1>1 DEF Owned, Reserved
<1>6. LoadersOwn(own[eax])
  BY <1>5, OwnerKinds DEF LoadersOwn
<1> QED BY <1>2, <1>4, <1>6

LEMMA OnlyLoadersOwn ==
    ASSUME Typed, Mapped, NEW own, Owned(own), [Next]_vars
    PROVE  mem' = mem \/ \E g \in Phys : LoadersOwn(own[g]) /\ WrittenOnly(g)
<1>1. CASE Allocate \/ NoMorePages \/ WokenFromHalt \/ Preempted \/ UNCHANGED vars
  BY <1>1 DEF Allocate, NoMorePages, WokenFromHalt, Preempted, vars
<1>2. CASE AllocInstAPage
  BY <1>2, DirectoryWritten, TableWritten
     DEF AllocInstAPage, AllocCoreLinear, AllocUserLinear, TestTable
<1>3. CASE UsePage
  <2>1. CASE FillCoreTss \/ CreateTcb \/ LoadImagePage \/ CreateTss \/ CreateLdt
    <3>1. pc = "use" /\ \E what, u : Fill(what, u)
      BY <2>1 DEF FillCoreTss, CreateTcb, LoadImagePage, CreateTss, CreateLdt, Using
    <3> QED BY <3>1, PageWritten
  <2>2. CASE CreateStack
    BY <2>2 DEF CreateStack
  <2> QED BY <1>3, <2>1, <2>2 DEF UsePage
<1>4. CASE Load
  BY <1>4, DirectoryWritten, FirstPageWritten, CopyWritten DEF Load, ReloadCr3, ReadHeader
<1> QED BY <1>1, <1>2, <1>3, <1>4 DEF Next

LEMMA Undisturbed ==
    ASSUME Typed, IInv, [Next]_vars, PagesSuffice, NEW u \in Loaded,
           NEW f \in PrivateFrames(cr3[u]) \cup {cr3[u]}
    PROVE  mem'[f] = mem[f]
<1>1. Mapped /\ Registers /\ Root
  BY DEF Typed, IInv, Mapped
<1>2. PICK own : Owned(own)
  BY DEF IInv
<1>3. u \in Program /\ cr3[u] # 0 /\ Slots(own)
  BY <1>2 DEF Loaded, Owned
<1>4. u # prog
  <2>1. u < prog
    BY <1>1, <1>3 DEF Root
  <2>2. u \in Nat
    BY <1>3 DEF Program
  <2> QED BY <2>1, <2>2
<1>5. f \in Phys /\ ~LoadersOwn(own[f])
  <2>1. CASE f \in PrivateFrames(cr3[u])
    <3>1. f \in Phys /\ KindOf(own[f]) \in {"table", "page"} /\ ProgramOf(own[f]) = u
      BY <1>1, <1>3, <2>1, PrivateOwned
    <3> QED BY <1>4, <3>1 DEF LoadersOwn
  <2>2. CASE f = cr3[u]
    <3>1. own[f] = DirectoryOf(u) /\ f \in Phys
      BY <1>1, <1>3, <2>2 DEF Slots, Registers
    <3>2. KindOf(own[f]) = "directory"
      BY <3>1, OwnerKinds
    <3> QED BY <3>1, <3>2 DEF LoadersOwn
  <2> QED BY <2>1, <2>2
<1>6. mem' = mem \/ \E g \in Phys : LoadersOwn(own[g]) /\ WrittenOnly(g)
  BY <1>1, <1>2, OnlyLoadersOwn
<1> QED BY <1>5, <1>6 DEF WrittenOnly

(* Loading a program changes neither the directory nor the page tables nor *)
(* the pages of one that load_relocate_program has finished with.          *)
THEOREM NobodyDisturbed == ASSUME ReloadsCr3 PROVE Spec => LoadingDisturbsNobody
<1>1. Typed /\ IInv /\ [Next]_vars
        => [PagesSuffice =>
              \A u \in Loaded : \A f \in PrivateFrames(cr3[u]) \cup {cr3[u]} :
                  mem'[f] = mem[f]]_vars
  BY Undisturbed
<1> QED BY <1>1, Inductive, PTL DEF Spec, LoadingDisturbsNobody
=============================================================================
