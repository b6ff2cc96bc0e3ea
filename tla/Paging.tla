------------------------------- MODULE Paging -------------------------------
(***************************************************************************)
(* Paging in the kernels of chapters 16 to 18: the page bitmap, the page   *)
(* directory that maps itself through its last entry, the temporary entry  *)
(* before it through which a new directory is reached, and the loading of  *)
(* programs one after the other into the low half of the one directory the *)
(* kernel runs on, which is then copied for the program.                   *)
(*                                                                         *)
(* A frame holds as many entries as a directory or page table has, so any  *)
(* frame can be walked as either, as the self-map does.  The processor may *)
(* keep every translation it has used until CR3 is loaded or the page is   *)
(* invalidated, and may drop any at any time: an access goes either to a   *)
(* frame cached for the page or to where the tables now lead.              *)
(***************************************************************************)
EXTENDS Integers, Sequences, FiniteSets

CONSTANTS
    Entries,        \* entries of a directory or page table (1024)
    PageMapLen,     \* frames the bitmap covers (page_map_len * 8 = 512)
    InUse,          \* the frames marked in the bitmap as assembled
    BootFrames,     \* frames mapped one to one before the kernel runs (256)
    Programs,       \* programs the kernel loads
    ImageSizes,     \* sizes a program on the disk may have, in pages
    StackPages,     \* stacks of a program (4: privilege levels 3, 0, 1, 2)
    ReloadsCr3      \* c17 and c18: CR3 is loaded again once the low half is
                    \* empty, and interrupts are open; c16: neither

(* The kernel's directory (0x20000), its page table (0x21000) and the      *)
(* frame of the boot sector, the GDT and the first stack (0x7000).         *)
CorePdt == 0
CorePt  == 1
LowFrame == 2

ASSUME PagingAssumption ==
    /\ Entries \in Nat /\ Entries >= 6
    /\ PageMapLen \in Nat
    /\ BootFrames \in 3 .. PageMapLen
    /\ InUse \subseteq 0 .. (PageMapLen - 1)
    /\ {CorePdt, CorePt, LowFrame} \subseteq InUse
    /\ Programs \in Nat \ {0}
    /\ ImageSizes \subseteq Nat \ {0}
    /\ StackPages \in Nat \ {0}
    /\ BootFrames + 1 + 2 * Programs <= Entries
    /\ \A n \in ImageSizes :
        n + 1 + StackPages <= Entries * (Entries \div 2)
    /\ ReloadsCr3 \in BOOLEAN

Index == 0 .. (Entries - 1)
Half  == Entries \div 2         \* the entry of linear address 0x80000000
Copy  == Entries - 2            \* [0xfffffff8]: the directory being made
Self  == Entries - 1            \* [0xfffffffc]: the directory itself

(* The frame number PageMapLen is what the allocator computes when no bit  *)
(* was clear.                                                              *)
Phys == 0 .. PageMapLen

Program == 1 .. Programs

(* What a frame holds, entry by entry.                                     *)
Unwritten   == <<"unwritten">>
NotPresent  == <<"none">>
ToFrame(f)  == <<"frame", f>>
Filled(what, u) == [i \in Index |-> <<what, u>>]

(* A linear page: its index in the directory and in the page table.        *)
UserPage(k) == <<k \div Entries, k % Entries>>
CorePage(k) == <<Half + k \div Entries, k % Entries>>

VARIABLES
    mem,        \* the contents of the frames
    used,       \* page_bit_map
    tlb,        \* the translations the processor may have kept
    coreNext,   \* core_tcb+0x06: next linear page of the kernel
    userNext,   \* TCB+0x06: next linear page of the program being loaded
    prog,       \* the program being loaded
    left,       \* ECX: pages still to load, or stacks still to allocate
    size,       \* the pages of each program's image
    tssAt,      \* TCB+0x14: the linear page of each program's TSS
    cr3,        \* CR3 in each program's TSS, once it is written
    pc, purpose,\* where the loader is, and what it is allocating
    ebx, eax,   \* the page to map, and the frame allocated for it
    halt        \* the allocator has found no page: it waits, or was woken

vars == <<mem, used, tlb, coreNext, userNext, prog, left, size, tssAt, cr3,
          pc, purpose, ebx, eax, halt>>
space == <<coreNext, userNext>>
loading == <<prog, left, size, tssAt, cr3, purpose, ebx>>

Loaded == { u \in Program : cr3[u] # 0 }

-----------------------------------------------------------------------------
(* Translation.                                                            *)

Target(f, i) == IF mem[f][i][1] = "frame" THEN {mem[f][i][2]} ELSE {}

(* Where directory d leads for linear page p: one frame, or none.          *)
Walk(d, p) == UNION { Target(t, p[2]) : t \in Target(d, p[1]) }

(* The frames an access of the kernel to page p may go to.                 *)
Reached(p) == Walk(CorePdt, p) \cup { e[2] : e \in { c \in tlb : c[1] = p } }

(* An access to page p goes to frame f, and the processor may keep that.   *)
Access(p, f) ==
    /\ f \in Reached(p)
    /\ tlb' = tlb \cup {<<p, f>>}

(* The pages at 0xfffff000, at 0xffc00000 + 4096 * i, and at 0xffffe000.   *)
Directory == <<Self, Self>>
TableOf(i) == <<Self, i>>
NewDirectory == <<Self, Copy>>

-----------------------------------------------------------------------------
(* What the boot sector has set up: entries it does not write are left as  *)
(* they were, and code, stack and descriptors were last used at their low  *)
(* addresses.                                                              *)
BootDirectory ==
    [i \in Index |-> IF i \in {0, Half} THEN ToFrame(CorePt)
                     ELSE IF i = Self THEN ToFrame(CorePdt)
                     ELSE Unwritten]

BootTable == [i \in Index |-> IF i < BootFrames THEN ToFrame(i) ELSE Unwritten]

Init ==
    /\ mem = [f \in Phys |-> CASE f = CorePdt -> BootDirectory
                               [] f = CorePt -> BootTable
                               [] OTHER -> [i \in Index |-> Unwritten]]
    /\ used = InUse
    /\ tlb = {<<UserPage(LowFrame), LowFrame>>}
    /\ coreNext = BootFrames
    /\ userNext = 0
    /\ prog = 1
    /\ left = 0
    /\ size = [u \in Program |-> 0]
    /\ tssAt = [u \in Program \cup {0} |-> Directory]
    /\ cr3 = [u \in Program |-> 0]
    /\ pc = "core tss"
    /\ purpose = "core tss"
    /\ ebx = Directory
    /\ eax = 0
    /\ halt = "never"

-----------------------------------------------------------------------------
(* allocate_a_4k_page.                                                     *)

(* As it would be with bt in place of bts.                                 *)
LeaveClear(f) == UNCHANGED used

(* bts marks the frame as used.                                            *)
Mark(f) == used' = used \cup {f}

(* As it would be with jle at the end of the search.                       *)
OneFrameTooMany == (0 .. PageMapLen) \ used

FreeFrame == (0 .. (PageMapLen - 1)) \ used

(* Where each caller stores the address it gets.                           *)
CallerOf(label) ==
    CASE label = "table" -> "set table"
      [] label = "page"  -> "set page"
      [] label = "pdir"  -> "set pdir"

Allocate ==
    /\ pc \in {"table", "page", "pdir"}
    /\ halt # "halted"
    /\ \E f \in FreeFrame :
        /\ \A g \in FreeFrame : f <= g
        /\ Mark(f)
        /\ eax' = f
    /\ pc' = CallerOf(pc)
    /\ UNCHANGED <<mem, tlb, halt, space, loading>>

(* No bit is clear: the message, then hlt.                                 *)
NoMorePages ==
    /\ pc \in {"table", "page", "pdir"}
    /\ halt # "halted"
    /\ FreeFrame = {}
    /\ halt' = "halted"
    /\ UNCHANGED <<mem, used, tlb, pc, eax, space, loading>>

(* put_string has opened interrupts: the next one ends the hlt, and the    *)
(* routine goes on with the index past the bitmap in EAX.                  *)
WokenFromHalt ==
    /\ ReloadsCr3
    /\ halt = "halted"
    /\ halt' = "woken"
    /\ eax' = PageMapLen
    /\ pc' = CallerOf(pc)
    /\ UNCHANGED <<mem, used, tlb, space, loading>>

-----------------------------------------------------------------------------
(* alloc_inst_a_page, after one of the two macros has taken the page.      *)

(* As it would be with a program's TSS in its own half.                    *)
CoreOwnOnly == {"core tss", "tcb"}

(* What is allocated in the kernel's half.                                 *)
CorePurpose == {"core tss", "tcb", "tss"}

AllocCoreLinear ==
    /\ pc \in CorePurpose
    /\ ebx' = CorePage(coreNext)
    /\ coreNext' = coreNext + 1
    /\ purpose' = pc
    /\ pc' = "test"
    /\ UNCHANGED <<mem, used, tlb, userNext, prog, left, size, tssAt, cr3, eax, halt>>

AllocUserLinear ==
    /\ pc \in {"image", "tss", "ldt", "stack"} \ CorePurpose
    /\ ebx' = UserPage(userNext)
    /\ userNext' = userNext + 1
    /\ purpose' = pc
    /\ pc' = "test"
    /\ UNCHANGED <<mem, used, tlb, coreNext, prog, left, size, tssAt, cr3, eax, halt>>

(* As it would be without the test.                                        *)
AlwaysPresent(entry) == {TRUE}

(* The P bit of an entry: anything may be where no entry was written.      *)
PresentBit(entry) ==
    CASE entry[1] = "frame" -> {TRUE}
      [] entry = NotPresent -> {FALSE}
      [] OTHER -> BOOLEAN

TestTable ==
    /\ pc = "test"
    /\ \E f \in Reached(Directory) :
        /\ Access(Directory, f)
        /\ \E present \in PresentBit(mem[f][ebx[1]]) :
            pc' = IF present THEN "page" ELSE "table"
    /\ UNCHANGED <<mem, used, eax, halt, space, loading>>

SetTable ==
    /\ pc = "set table"
    /\ \E f \in Reached(Directory) :
        /\ Access(Directory, f)
        /\ mem' = [mem EXCEPT ![f][ebx[1]] = ToFrame(eax)]
    /\ pc' = "page"
    /\ UNCHANGED <<used, eax, halt, space, loading>>

SetPage ==
    /\ pc = "set page"
    /\ \E f \in Reached(TableOf(ebx[1])) :
        /\ Access(TableOf(ebx[1]), f)
        /\ mem' = [mem EXCEPT ![f][ebx[2]] = ToFrame(eax)]
    /\ pc' = "use"
    /\ UNCHANGED <<used, eax, halt, space, loading>>

-----------------------------------------------------------------------------
(* What the page just installed is used for.                               *)

(* The kernel fills page ebx.                                              *)
Fill(what, u) ==
    \E f \in Reached(ebx) :
        /\ Access(ebx, f)
        /\ mem' = [mem EXCEPT ![f] = Filled(what, u)]

Using(what) == pc = "use" /\ purpose = what

FillCoreTss ==
    /\ Using("core tss")
    /\ Fill("tss", 0)
    /\ tssAt' = [tssAt EXCEPT ![0] = ebx]
    /\ pc' = "tcb"
    /\ UNCHANGED <<used, space, prog, left, size, cr3, purpose, ebx, eax, halt>>

CreateTcb ==
    /\ Using("tcb")
    /\ Fill("tcb", prog)
    /\ userNext' = 0
    /\ pc' = "clear"
    /\ UNCHANGED <<used, coreNext, loading, eax, halt>>

(* Eight sectors of the program.                                           *)
LoadImagePage ==
    /\ Using("image")
    /\ Fill("image", prog)
    /\ left' = left - 1
    /\ pc' = IF left = 1 THEN "tss" ELSE "image"
    /\ UNCHANGED <<used, space, prog, size, tssAt, cr3, purpose, ebx, eax, halt>>

CreateTss ==
    /\ Using("tss")
    /\ Fill("tss", prog)
    /\ tssAt' = [tssAt EXCEPT ![prog] = ebx]
    /\ pc' = "ldt"
    /\ UNCHANGED <<used, space, prog, left, size, cr3, purpose, ebx, eax, halt>>

CreateLdt ==
    /\ Using("ldt")
    /\ Fill("ldt", prog)
    /\ left' = StackPages
    /\ pc' = "stack"
    /\ UNCHANGED <<used, space, prog, size, tssAt, cr3, purpose, ebx, eax, halt>>

(* A stack is not touched before the program runs.                         *)
CreateStack ==
    /\ Using("stack")
    /\ left' = left - 1
    /\ pc' = IF left = 1 THEN "relocate" ELSE "stack"
    /\ UNCHANGED <<mem, used, tlb, space, prog, size, tssAt, cr3, purpose, ebx, eax, halt>>

-----------------------------------------------------------------------------
(* The rest of load_relocate_program.                                      *)

(* As it would be without the loop.                                        *)
NoEntries == {}

(* The entries the loader empties.                                         *)
LowEntries == 0 .. (Half - 1)

ClearLowHalf ==
    /\ pc = "clear"
    /\ \E f \in Reached(Directory) :
        /\ Access(Directory, f)
        /\ mem' = [mem EXCEPT ![f] =
                    [i \in Index |-> IF i \in LowEntries THEN NotPresent ELSE @[i]]]
    /\ pc' = "reload"
    /\ UNCHANGED <<used, space, loading, eax, halt>>

(* As it would be without the two instructions in c17 either.              *)
KeepTranslations == tlb

(* "mov eax,cr3 / mov cr3,eax", which c16 does not have.                   *)
AfterReload == IF ReloadsCr3 THEN {} ELSE tlb

ReloadCr3 ==
    /\ pc = "reload"
    /\ tlb' = AfterReload
    /\ pc' = "header"
    /\ UNCHANGED <<mem, used, space, loading, eax, halt>>

ReadHeader ==
    /\ pc = "header"
    /\ \E n \in ImageSizes :
        /\ left' = n
        /\ size' = [size EXCEPT ![prog] = n]
    /\ pc' = "image"
    /\ UNCHANGED <<mem, used, tlb, space, prog, tssAt, cr3, purpose, ebx, eax, halt>>

(* The addresses of the kernel's services are written into the program,    *)
(* at its linear addresses.                                                *)
Relocate ==
    /\ pc = "relocate"
    /\ \E f \in Reached(UserPage(0)) :
        /\ Access(UserPage(0), f)
        /\ mem' = [mem EXCEPT ![f] = Filled("image", prog)]
    /\ pc' = "pdir"
    /\ UNCHANGED <<used, space, loading, eax, halt>>

(* create_copy_cur_pdir.  c17 then invalidates the page of 0xfffffff8, the *)
(* directory, and not that of 0xffffe000, the new one.                     *)
SetNewDirectory ==
    /\ pc = "set pdir"
    /\ \E f \in Reached(Directory) :
        /\ mem' = [mem EXCEPT ![f][Copy] = ToFrame(eax)]
        /\ tlb' = IF ReloadsCr3 THEN { c \in tlb : c[1] # Directory }
                  ELSE tlb \cup {<<Directory, f>>}
    /\ pc' = "copy"
    /\ UNCHANGED <<used, space, loading, eax, halt>>

(* rep movsd, and the address of the copy into the program's TSS.          *)
CopyDirectory ==
    /\ pc = "copy"
    /\ \E f \in Reached(Directory), g \in Reached(NewDirectory) :
        /\ tlb' = tlb \cup {<<Directory, f>>, <<NewDirectory, g>>}
        /\ mem' = [mem EXCEPT ![g] = mem[f]]
    /\ cr3' = [cr3 EXCEPT ![prog] = eax]
    /\ prog' = prog + 1
    /\ pc' = IF prog < Programs THEN "tcb" ELSE "done"
    /\ UNCHANGED <<used, space, left, size, tssAt, purpose, ebx, eax, halt>>

(* The clock interrupt gives the processor to a loaded program and later   *)
(* back: both switches load CR3.                                           *)
Preempted ==
    /\ ReloadsCr3
    /\ Loaded # {}
    /\ tlb' = {}
    /\ UNCHANGED <<mem, used, space, loading, pc, eax, halt>>

-----------------------------------------------------------------------------
AllocInstAPage ==
    \/ AllocCoreLinear \/ AllocUserLinear \/ TestTable \/ SetTable \/ SetPage

UsePage ==
    \/ FillCoreTss \/ CreateTcb \/ LoadImagePage
    \/ CreateTss \/ CreateLdt \/ CreateStack

Load ==
    \/ ClearLowHalf \/ ReloadCr3 \/ ReadHeader
    \/ Relocate \/ SetNewDirectory \/ CopyDirectory

Next ==
    \/ Allocate \/ NoMorePages \/ WokenFromHalt
    \/ AllocInstAPage \/ UsePage \/ Load
    \/ Preempted

Spec == Init /\ [][Next]_vars

-----------------------------------------------------------------------------
(* Properties.  Once the bitmap is exhausted nothing is promised but what  *)
(* the allocator's comment says.                                           *)

PagesSuffice == halt = "never"

(* What a directory maps in its low half: page tables and frames.          *)
Tables(d) == UNION { Target(d, i) : i \in 0 .. (Half - 1) }

PrivateFrames(d) ==
    Tables(d) \cup UNION { Target(t, j) : t \in Tables(d), j \in Index }

(* Page p of directory d leads to a frame that holds this and nothing else.*)
Holds(d, p, what, u) ==
    \E f \in Phys : Walk(d, p) = {f} /\ mem[f] = Filled(what, u)

(* The variables have the types of the registers and fields they stand for.*)
TypeOK ==
    /\ DOMAIN mem = Phys
    /\ \A f \in Phys : DOMAIN mem[f] = Index
    /\ \A f \in Phys, i \in Index :
        Target(f, i) \subseteq Phys
    /\ used \in SUBSET (0 .. (PageMapLen - 1))
    /\ tlb \in SUBSET ((Index \X Index) \X Phys)
    /\ coreNext \in 0 .. Entries
    /\ userNext \in 0 .. (Entries * Half)
    /\ prog \in 1 .. (Programs + 1)
    /\ left \in Nat
    /\ size \in [Program -> ImageSizes \cup {0}]
    /\ tssAt \in [Program \cup {0} -> Index \X Index]
    /\ cr3 \in [Program -> Phys]
    /\ ebx \in Index \X Index
    /\ eax \in Phys
    /\ halt \in {"never", "halted", "woken"}
    /\ purpose \in {"core tss", "tcb", "image", "tss", "ldt", "stack"}
    /\ pc \in {"core tss", "tcb", "image", "tss", "ldt", "stack", "test",
               "table", "set table", "page", "set page", "use", "clear",
               "reload", "header", "relocate", "pdir", "set pdir", "copy", "done"}

(* Every program finds, through its own directory, the image that was read *)
(* from the disk for it and its own LDT, however many programs were loaded *)
(* through the same low addresses after it.                                *)
ProgramsKeepTheirPages ==
    PagesSuffice =>
        \A u \in Loaded :
            /\ \A k \in 0 .. (size[u] - 1) : Holds(cr3[u], UserPage(k), "image", u)
            /\ Holds(cr3[u], UserPage(size[u]), "ldt", u)

(* The processor switches from u to v while u's directory is in force, and *)
(* reads v's TSS by its linear address: each loaded program's directory    *)
(* has to show the TSS of every other, those loaded later included.        *)
TssVisibleEverywhere ==
    PagesSuffice =>
        \A u \in Loaded, v \in Loaded \cup {0} :
            Holds(cr3[u], tssAt[v], "tss", v)

(* No frame is in the low half of two programs, and none of a program's    *)
(* frames is its own or another one's directory.                           *)
ProgramsAreDisjoint ==
    PagesSuffice =>
        \A u, v \in Loaded :
            /\ u # v => PrivateFrames(cr3[u]) \cap PrivateFrames(cr3[v]) = {}
            /\ cr3[u] \notin PrivateFrames(cr3[v]) \cup {CorePdt, CorePt}
            /\ u # v => cr3[u] # cr3[v]

(* The linear pages the loader's next step touches.                        *)
NextPages ==
    CASE pc \in {"test", "set table", "set pdir", "clear"} -> {Directory}
      [] pc = "set page" -> {TableOf(ebx[1])}
      [] pc = "use" /\ purpose # "stack" -> {ebx}
      [] pc = "relocate" -> {UserPage(0)}
      [] pc = "copy" -> {Directory, NewDirectory}
      [] OTHER -> {}

(* Every page the loader touches is mapped, through entries that somebody  *)
(* has written, and the processor can have kept only one frame for it.     *)
OneFrameReached ==
    PagesSuffice => \A p \in NextPages : Cardinality(Reached(p)) = 1

(* Loading a program changes neither the directory nor the page tables nor *)
(* the pages of one already loaded.                                        *)
LoadingDisturbsNobody ==
    [][PagesSuffice =>
        \A u \in Loaded : \A f \in PrivateFrames(cr3[u]) \cup {cr3[u]} :
            mem'[f] = mem[f]]_vars

(* "there is no page to allocate, halt" (c17_core.asm:326): once the       *)
(* allocator has found none, nothing is installed any more.                *)
ExhaustionHalts ==
    [][~PagesSuffice => UNCHANGED mem]_vars
=============================================================================
