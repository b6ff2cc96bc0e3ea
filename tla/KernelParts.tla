----------------------------- MODULE KernelParts -----------------------------
(***************************************************************************)
(* Four parts of the kernels that share no state, one in each behaviour:   *)
(* the disk with its drivers, the program loader, the descriptor tables    *)
(* and the TCB list in memory.  v1 to v11 stand for the variables of the   *)
(* part that is looked at.  A part that is proved about comes with its     *)
(* theorems.                                                               *)
(***************************************************************************)
EXTENDS Integers, Sequences

CONSTANTS
    \* of the disk
    Base, HeadBase, Capacity, Cylinders, Heads, Spt, Requests, BadSets, MaxRequests,
    \* of the loader: the programs, each loaded once, their headers, scales
    Applications, Headers, CoreSizes, CSalt, SectorBytes, Unit, Fields,
    TcbBytes, LdtBytes, TssBytes, Start,
    \* of the descriptor tables
    Program, Gates, Bases, Segments, TableBytes,
    \* of the TCB list
    Core, User, Nil, TcbChain

VARIABLES part, v1, v2, v3, v4, v5, v6, v7, v8, v9, v10, v11

Behind5 == <<v6, v7, v8, v9, v10, v11>>
Behind6 == <<v7, v8, v9, v10, v11>>
v == <<part, v1, v2, v3, v4, v5, v6, v7, v8, v9, v10, v11>>

None == "none"
NoneBehind5 == v6 = None /\ v7 = None /\ v8 = None /\ v9 = None /\ v10 = None
               /\ v11 = None

Disk == INSTANCE AtaDiskProofs WITH
    image <- v1, bad <- v2, ctl <- v3, pc <- v4, request <- v5, memory <- v6,
    current <- v7, count <- v8, result <- v9, before <- v10, requests <- v11

Load == INSTANCE Loader WITH
    Program <- Applications, Sector <- SectorBytes,
    core <- v1, at <- v2, ram_alloc <- v3, block <- v4, mem <- v5, read <- v6,
    header <- v7, ldt <- v8, gdt <- v9, tcb <- v10, tss <- v11

Tables == INSTANCE DescriptorsProofs WITH
    gdt <- v1, pgdt <- v2, ldt <- v3, tcb <- v4, ldtr <- v5, asked <- v6

(* No task raises an exception.                                            *)
List == INSTANCE TcbListProofs WITH
    Faulty <- {},
    link <- v1, status <- v2, tr <- v3, frames <- v4, loaded <- v5

ASSUME PartsAssumption ==
    Disk!SizesAssumption /\ Load!LoaderAssumption
    /\ Tables!TableAssumption /\ List!TcbAssumption

-----------------------------------------------------------------------------
DiskInit == part = "disk" /\ Disk!Init
LoaderInit == part = "loader" /\ Load!Init
TablesInit == /\ part = "tables" /\ Tables!Init
              /\ v7 = None /\ v8 = None /\ v9 = None /\ v10 = None /\ v11 = None
ListInit == part = "list" /\ List!Init /\ NoneBehind5

Init == DiskInit \/ LoaderInit \/ TablesInit \/ ListInit

DiskStep == part = "disk" /\ Disk!Next /\ UNCHANGED part
LoaderStep == part = "loader" /\ Load!Next /\ UNCHANGED part
TablesStep == part = "tables" /\ Tables!Next /\ UNCHANGED <<part, Behind6>>
ListStep == part = "list" /\ List!Next /\ UNCHANGED <<part, Behind5>>

Next == DiskStep \/ LoaderStep \/ TablesStep \/ ListStep

Spec ==
    /\ Init /\ [][Next]_v
    /\ WF_v(part = "disk" /\ Disk!Kernel /\ UNCHANGED part)
    /\ WF_v(part = "disk" /\ Disk!Bios /\ UNCHANGED part)
    /\ WF_v(part = "list" /\ List!ClockInterrupt /\ UNCHANGED <<part, Behind5>>)
    /\ WF_v(part = "list" /\ List!Handle /\ UNCHANGED <<part, Behind5>>)
    /\ WF_v(part = "list" /\ List!AppendTcb /\ UNCHANGED <<part, Behind5>>)

-----------------------------------------------------------------------------
(* Properties.                                                             *)

(* Each part keeps its types.                                              *)
TypeOK ==
    CASE part = "disk"   -> Disk!TypeOK
      [] part = "loader" -> Load!TypeOK
      [] part = "tables" -> Tables!TypeOK
      [] part = "list"   -> List!TypeOK

(* Whatever was asked of the disk before: the sectors asked for are read   *)
(* or written and no other, success is reported exactly when each of them  *)
(* went through, and then the disk is at rest.                             *)
RequestsAreServed ==
    part = "disk" => /\ Disk!ReadsWhatWasAsked /\ Disk!WritesWhatWasAsked
                     /\ Disk!ResultIsTrue /\ Disk!AtRest

(* A step that waits for a sector that cannot be read waits on: an error   *)
(* is never taken for data.                                                *)
ErrorIsNeverData == part = "disk" /\ Disk!WaitsForBad => Disk!Waits'

(* The kernel's loop on the disk's status ends for every sector that can   *)
(* be read, and for those alone: otherwise the kernel stays in its loop    *)
(* with interrupts closed (c17_core.asm:182-186).                          *)
KernelReadsOnlyGoodSectors ==
    /\ (part = "disk" /\ Disk!WaitsForGood) ~> (part = "disk" /\ ~Disk!Waits)
    /\ [][ErrorIsNeverData]_v

(* load_relocate_program: a loaded program lies in memory as on the disk,  *)
(* its segments reach exactly what they were made for, no block overlaps   *)
(* another, its symbols are bound to the gates of those names; and the     *)
(* kernel itself was loaded whole.                                         *)
ProgramsAreWhole ==
    part = "loader" => /\ Load!ImageIsLoaded /\ Load!SegmentsCoverTheirMemory
                       /\ Load!BlocksAreDisjoint /\ Load!SaltIsBound
                       /\ Load!CoreIsLoaded

(* Every selector ever handed out finds its own descriptor, up to a full   *)
(* table, and it means to the processor what was asked for.                *)
SelectorsDecode ==
    part = "tables" => Tables!GdtSelectorsDecode /\ Tables!LdtSelectorsDecode

(* Whenever a clock interrupt may come the list is closed and complete,    *)
(* and the handler unlinks the task it runs in.                            *)
ListIsSound == part = "list" => List!ListIsWhole /\ List!CurrentIsFound

(* And the pointers implement the queue of the abstract round robin: its   *)
(* head runs next, again and again.                                        *)
RR == INSTANCE RoundRobin WITH
    running <- IF part = "list" THEN v3 ELSE Core,
    queue <- IF part = "list" THEN List!Queue ELSE << >>,
    frozen <- FALSE

PointersImplementRoundRobin == []ListIsSound /\ RR!FairSpec
=============================================================================
