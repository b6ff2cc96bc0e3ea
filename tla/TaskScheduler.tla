---------------------------- MODULE TaskScheduler ----------------------------
(***************************************************************************)
(* The preemptive task switching of c17/c17_core.asm (c18_core.asm is the  *)
(* same program): the list of task control blocks (TCBs) hanging off       *)
(* tcb_chain, the real-time-clock interrupt that rotates it, the boot code *)
(* that creates the tasks one by one with interrupts already open, and     *)
(* terminate_current_task, which walks the same list with interrupts open. *)
(*                                                                         *)
(* The clock handler and append_to_tcb_link run with IF = 0 (interrupt     *)
(* gate 0x8e00; cli ... sti), so each is one step.  The handler may come   *)
(* between any two steps of everything else.                               *)
(***************************************************************************)
EXTENDS Integers, Sequences, FiniteSets

CONSTANTS
    Core,       \* the program manager (core_tcb)
    User,       \* the user programs the boot code loads
    Nil,        \* the null pointer, and "no task" in TR
    TcbChain    \* the address of the dword tcb_chain

ASSUME TaskAssumption ==
    /\ Core \notin User
    /\ Nil \notin User \cup {Core}
    /\ TcbChain \notin User \cup {Core, Nil}

Task == User \cup {Core}

(* The status word at TCB+0x04.                                            *)
Busy   == 65535     \* 0xffff: the current task
Ready  == 0         \* 0x0000: may be switched to
Exited == 13107     \* 0x3333: has called TerminateProgram

(* As it would be with neg in place of not.                                *)
NegWord(w) == (65536 - w) % 65536

(* The instruction "not word [TCB+0x04]".                                  *)
NotWord(w) == 65535 - w

VARIABLES
    chain,      \* the TCBs in list order, from tcb_chain on
    status,     \* the status word of every TCB
    installed,  \* what the TSS of a task already holds
    tr,         \* the task register: the task the processor thinks it runs
    tssBusy,    \* the tasks whose TSS descriptor has the busy bit
    new,        \* the program the boot code is loading (its EBX)
    pc,         \* where each task is
    eax, ebx    \* the registers of a user task in terminate_current_task

vars == <<chain, status, installed, tr, tssBusy, new, pc, eax, ebx>>
bootVars == <<installed, new>>
walkVars == <<eax, ebx>>

(* The parts of a TSS a switch to it needs: the selector in TCB+0x18 of a  *)
(* filled TSS, and the page directory in its CR3 field.                    *)
TssPart == {"selector", "cr3"}

Linked == { chain[i] : i \in DOMAIN chain }

SomeExited == \E t \in Task : status[t] = Exited

(* Before ltr the boot code runs without being a task; it becomes Core.    *)
Runner == IF tr = Nil THEN Core ELSE tr

-----------------------------------------------------------------------------
(* The list operations.                                                    *)

(* Node i of list s is the first one whose status word is w.               *)
IsFirst(s, i, w) ==
    /\ i \in DOMAIN s
    /\ status[s[i]] = w
    /\ \A j \in 1 .. (i - 1) : status[s[j]] # w

Has(s, w) == \E i \in DOMAIN s : status[s[i]] = w

(* As it would be without the unlinking at .b1: the node's own link is     *)
(* cleared while it still is in its place, which cuts off what follows.    *)
MoveWithoutUnlink(s, i) == [j \in 1 .. i |-> s[j]]

(* As it would be if the list were left as it is,                          *)
MoveNothing(s, i) == s

(* or the search for the tail stopped after one node.                      *)
MoveBehindNext(s, i) ==
    IF i < Len(s) THEN [s EXCEPT ![i] = s[i + 1], ![i + 1] = s[i]] ELSE s

(* Unlink node i and link it again behind the last node.                   *)
MoveToTail(s, i) ==
    [j \in 1 .. Len(s) |-> IF j < i THEN s[j]
                           ELSE IF j < Len(s) THEN s[j + 1] ELSE s[i]]

(* The dword at p, p being tcb_chain or a TCB: the address of the next TCB.*)
LinkOf(p) ==
    LET k == IF p = TcbChain THEN 0
             ELSE CHOOSE i \in DOMAIN chain : chain[i] = p
    IN  IF k < Len(chain) THEN chain[k + 1] ELSE Nil

-----------------------------------------------------------------------------
Init ==
    /\ chain = << >>
    /\ status = [t \in Task |-> Ready]
    /\ installed = [t \in Task |-> {}]
    /\ tr = Nil
    /\ tssBusy = {}
    /\ new = Nil
    /\ pc = [t \in Task |-> IF t = Core THEN "mark" ELSE "user"]
    /\ eax = [u \in User |-> Nil]
    /\ ebx = [u \in User |-> Nil]

-----------------------------------------------------------------------------
(* The boot code, from the creation of the program manager's TCB on.       *)

CoreAt(label) == Runner = Core /\ pc[Core] = label

CoreMarkBusy ==
    /\ CoreAt("mark")
    /\ status' = [status EXCEPT ![Core] = Busy]
    /\ pc' = [pc EXCEPT ![Core] = "append"]
    /\ UNCHANGED <<chain, tr, tssBusy, bootVars, walkVars>>

CoreAppend ==
    /\ CoreAt("append")
    /\ chain' = Append(chain, Core)
    /\ pc' = [pc EXCEPT ![Core] = "install"]
    /\ UNCHANGED <<status, tr, tssBusy, bootVars, walkVars>>

CoreInstallTss ==
    /\ CoreAt("install")
    /\ installed' = [installed EXCEPT ![Core] = TssPart]
    /\ pc' = [pc EXCEPT ![Core] = "ltr"]
    /\ UNCHANGED <<chain, status, tr, tssBusy, new, walkVars>>

(* ltr marks the descriptor busy.                                          *)
CoreLtr ==
    /\ CoreAt("ltr")
    /\ tr' = Core
    /\ tssBusy' = tssBusy \cup {Core}
    /\ pc' = [pc EXCEPT ![Core] = "create"]
    /\ UNCHANGED <<chain, status, bootVars, walkVars>>

(* As it would be if the TCB were linked before the program is loaded, the *)
(* order in which c16_core.asm:1061-1067 has it.                           *)
CreateTcbLinked(u) ==
    /\ CoreAt("create")
    /\ u \notin Linked
    /\ status' = [status EXCEPT ![u] = Ready]
    /\ new' = u
    /\ chain' = Append(chain, u)
    /\ pc' = [pc EXCEPT ![Core] = "build"]
    /\ UNCHANGED <<installed, tr, tssBusy, walkVars>>

CreateTcb(u) ==
    /\ CoreAt("create")
    /\ u \notin Linked
    /\ status' = [status EXCEPT ![u] = Ready]
    /\ new' = u
    /\ pc' = [pc EXCEPT ![Core] = "build"]
    /\ UNCHANGED <<chain, installed, tr, tssBusy, walkVars>>

(* load_relocate_program up to the TSS selector in the TCB ...             *)
LoadBuildTss ==
    /\ CoreAt("build")
    /\ installed' = [installed EXCEPT ![new] = @ \cup {"selector"}]
    /\ pc' = [pc EXCEPT ![Core] = "copy"]
    /\ UNCHANGED <<chain, status, tr, tssBusy, new, walkVars>>

(* ... and its end: the page directory the task will own.                  *)
LoadCopyDirectory ==
    /\ CoreAt("copy")
    /\ installed' = [installed EXCEPT ![new] = @ \cup {"cr3"}]
    /\ pc' = [pc EXCEPT ![Core] = "link"]
    /\ UNCHANGED <<chain, status, tr, tssBusy, new, walkVars>>

AppendTcb ==
    /\ CoreAt("link")
    /\ chain' = Append(chain, new)
    /\ new' = Nil
    /\ pc' = [pc EXCEPT ![Core] =
                IF User \subseteq Linked \cup {new} THEN "core" ELSE "create"]
    /\ UNCHANGED <<status, installed, tr, tssBusy, walkVars>>

-----------------------------------------------------------------------------
(* A user program in TerminateProgram, instruction by instruction where    *)
(* shared state is read or written.  Nothing here closes interrupts.       *)

UserAt(u, label) == tr = u /\ pc[u] = label

CallTerminate(u) ==
    /\ UserAt(u, "user")
    /\ eax' = [eax EXCEPT ![u] = TcbChain]
    /\ pc' = [pc EXCEPT ![u] = "load"]
    /\ UNCHANGED <<chain, status, tr, tssBusy, bootVars, ebx>>

WalkLoad(u) ==
    /\ UserAt(u, "load")
    /\ ebx' = [ebx EXCEPT ![u] = LinkOf(eax[u])]
    /\ pc' = [pc EXCEPT ![u] = "test"]
    /\ UNCHANGED <<chain, status, tr, tssBusy, bootVars, eax>>

(* The test for the busy word; the loop has no test for the null pointer.  *)
WalkTest(u) ==
    /\ UserAt(u, "test")
    /\ IF ebx[u] \in Task /\ status[ebx[u]] = Busy
       THEN pc' = [pc EXCEPT ![u] = "mark"] /\ UNCHANGED eax
       ELSE pc' = [pc EXCEPT ![u] = "load"] /\ eax' = [eax EXCEPT ![u] = ebx[u]]
    /\ UNCHANGED <<chain, status, tr, tssBusy, bootVars, ebx>>

MarkExited(u) ==
    /\ UserAt(u, "mark")
    /\ status' = [status EXCEPT ![ebx[u]] = Exited]
    /\ pc' = [pc EXCEPT ![u] = "hlt"]
    /\ UNCHANGED <<chain, tr, tssBusy, bootVars, walkVars>>

-----------------------------------------------------------------------------
(* The real-time-clock interrupt, once a second.                           *)

(* No node of the list is busy: return from the interrupt.                 *)
TickNoCurrent ==
    /\ ~ Has(chain, Busy)
    /\ UNCHANGED vars

(* The busy node goes to the tail; no node is ready: return.               *)
TickNoOther ==
    \E i \in DOMAIN chain :
        /\ IsFirst(chain, i, Busy)
        /\ ~ Has(MoveToTail(chain, i), Ready)
        /\ chain' = MoveToTail(chain, i)
        /\ UNCHANGED <<status, tr, tssBusy, pc, bootVars, walkVars>>

(* As it would be with call in place of jmp.                               *)
CallTss(t) ==
    /\ tssBusy' = tssBusy \cup {t}
    /\ tr' = t

(* "jmp far [eax+0x14]" to the TSS of t: the old descriptor loses its busy *)
(* bit, the new one gets it, TR is loaded.                                 *)
JmpTss(t) ==
    /\ tssBusy' = (tssBusy \ {tr}) \cup {t}
    /\ tr' = t

(* As it would be if the old task's status word were left alone.           *)
SwitchLeavingBusy ==
    \E i \in DOMAIN chain :
        LET moved == MoveToTail(chain, i)
        IN  /\ IsFirst(chain, i, Busy)
            /\ chain' = moved
            /\ \E k \in DOMAIN moved :
                /\ IsFirst(moved, k, Ready)
                /\ status' = [status EXCEPT ![moved[k]] = NotWord(@)]
                /\ JmpTss(moved[k])
            /\ UNCHANGED <<pc, bootVars, walkVars>>

(* The busy node goes to the tail, the first ready node becomes busy, both *)
(* status words are complemented and the processor switches tasks.         *)
TickSwitch ==
    \E i \in DOMAIN chain :
        LET moved == MoveToTail(chain, i)
        IN  /\ IsFirst(chain, i, Busy)
            /\ chain' = moved
            /\ \E k \in DOMAIN moved :
                /\ IsFirst(moved, k, Ready)
                /\ status' = [status EXCEPT ![moved[k]] = NotWord(@),
                                            ![chain[i]] = NotWord(@)]
                /\ JmpTss(moved[k])
            /\ UNCHANGED <<pc, bootVars, walkVars>>

Tick == TickNoCurrent \/ TickNoOther \/ TickSwitch

-----------------------------------------------------------------------------
Boot ==
    \/ CoreMarkBusy \/ CoreAppend \/ CoreInstallTss \/ CoreLtr
    \/ \E u \in User : CreateTcb(u)
    \/ LoadBuildTss \/ LoadCopyDirectory \/ AppendTcb

Terminate(u) == WalkLoad(u) \/ WalkTest(u) \/ MarkExited(u)

Next ==
    \/ Boot
    \/ \E u \in User : CallTerminate(u) \/ Terminate(u)
    \/ Tick

Spec == Init /\ [][Next]_vars

(* The clock interrupts once a second whatever runs, hence weak fairness   *)
(* of the switch.  A task that runs again and again executes instructions  *)
(* for a second each time, hence strong fairness of its own steps.  A      *)
(* program need not ever call TerminateProgram.                            *)
Fairness ==
    /\ WF_vars(TickSwitch)
    /\ SF_vars(Boot)
    /\ \A u \in User : SF_vars(Terminate(u))

FairSpec == Spec /\ Fairness

-----------------------------------------------------------------------------
(* Properties.                                                             *)

(* The state variables have the types of the fields they stand for.        *)
TypeOK ==
    /\ chain \in Seq(Task)
    /\ status \in [Task -> {Busy, Ready, Exited}]
    /\ installed \in [Task -> SUBSET TssPart]
    /\ tr \in Task \cup {Nil}
    /\ tssBusy \in SUBSET Task
    /\ new \in User \cup {Nil}
    /\ pc \in [Task -> {"mark", "append", "install", "ltr", "create", "build",
                        "copy", "link", "core", "user", "load", "test", "hlt"}]
    /\ eax \in [User -> Task \cup {Nil, TcbChain}]
    /\ ebx \in [User -> Task \cup {Nil}]

(* The list the clock handler rebuilds never loses a TCB and never holds   *)
(* one twice: whoever has passed append_to_tcb_link is linked for ever,    *)
(* whatever interrupts come between the calls.                             *)
EveryTaskLinkedOnce ==
    /\ \A i, j \in DOMAIN chain : i # j => chain[i] # chain[j]
    /\ \A t \in Task :
        t \in Linked <=> IF t = Core THEN pc[Core] \notin {"mark", "append"}
                         ELSE t # new /\ installed[t] = TssPart

(* The software's idea of the current task (the busy word the handler      *)
(* looks for) and the processor's (TR and the descriptor's busy bit) are   *)
(* the same task, and it is the head of the list.                          *)
CurrentAgrees ==
    /\ chain # << >> => chain[1] = Runner
    /\ \A t \in Linked : status[t] = Busy => t = Runner
    /\ chain # << >> /\ ~SomeExited => status[Runner] = Busy
    /\ tr # Nil => tssBusy = {tr}

(* Whatever task the next clock interrupt may jump to has a complete TSS   *)
(* that is not busy, and there is a TSS to save the old state in: the far  *)
(* jump in the handler cannot fault.                                       *)
SwitchCannotFault ==
    \A t \in Linked :
        status[t] = Ready =>
            /\ tr # Nil
            /\ installed[t] = TssPart
            /\ t \notin tssBusy

(* The walk in terminate_current_task has no end-of-list test and runs     *)
(* with interrupts open; the node in EBX is the caller's own TCB at the    *)
(* test and at the store, however often the list was rotated in between.   *)
WalkFindsItself ==
    \A u \in User : pc[u] \in {"test", "mark"} => ebx[u] = u

(* The kernel's switching is the round robin of RoundRobin: the tail of    *)
(* the list is the queue, its head has the processor.                      *)
RR == INSTANCE RoundRobin WITH
        running <- Runner,
        queue <- IF chain = << >> THEN << >> ELSE Tail(chain),
        frozen <- SomeExited

ImplementsRoundRobin == RR!Spec

(* The boot code, preempted as often as the clock likes, links every       *)
(* program, and a linked task gets the processor again and again, unless   *)
(* a program has called TerminateProgram.                                  *)
NoStarvation ==
    /\ <>(User \subseteq Linked \/ SomeExited)
    /\ \A t \in Task : (t \in Linked) ~> (tr = t \/ SomeExited)

(* "halt, waiting for the program manager to resume and reclaim it"        *)
(* (c17_core.asm:505-506): a task that has exited gives the processor back *)
(* to the program manager.                                                 *)
ExitReturnsToCore ==
    \A u \in User : (status[u] = Exited) ~> (tr = Core)
=============================================================================
