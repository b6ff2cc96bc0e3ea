----------------------------- MODULE TaskSwitch -----------------------------
(***************************************************************************)
(* Cooperative task switching by the processor, as the kernels of chapters *)
(* 15, 15_1 and 16 use it: the program manager makes itself a task, loads  *)
(* programs as tasks and starts each with a far CALL or a far JMP to its   *)
(* TSS; a program that ends calls terminate_current_task, which looks at   *)
(* the NT flag to choose between IRETD and a JMP to the manager.           *)
(* Interrupts stay closed.  c15 starts two programs, by CALL and by JMP,   *)
(* c16 one by CALL; here every start may be either.                        *)
(***************************************************************************)
EXTENDS Integers

CONSTANT Programs       \* how many programs the manager loads and starts

ASSUME ProgramsAssumption == Programs \in Nat

(* A task is named by its place in the GDT; no task: the null selector.    *)
NoTask == -1
Manager == 0
User == 1 .. Programs
Task == 0 .. Programs

VARIABLES
    tr,         \* the task register
    nt,         \* the NT flag of EFLAGS
    busy,       \* the tasks whose TSS descriptor has the busy bit
    link,       \* the back link in each TSS
    flag,       \* the NT bit of the EFLAGS image in each TSS
    pc,         \* where each task is, or where its EIP image points
    edx,        \* the copy of NT terminate_current_task tests
    made,       \* the programs loaded so far
    how         \* the instruction that started each task

vars == <<tr, nt, busy, link, flag, pc, edx, made, how>>

Init ==
    /\ tr = NoTask
    /\ nt = FALSE
    /\ busy = {}
    /\ link = [t \in Task |-> NoTask]
    /\ flag = [t \in Task |-> FALSE]
    /\ pc = [t \in Task |-> IF t = Manager THEN "ltr" ELSE "none"]
    /\ edx = FALSE
    /\ made = 0
    /\ how = [t \in Task |-> "none"]

-----------------------------------------------------------------------------
(* BX_CPU_C::task_switch.                                                  *)

(* As it would be with the busy bit of the task that is left kept,         *)
KeepBusy(source) == busy

(* JMP and IRET release the task that is left, CALL nests in it.           *)
Released(source) == IF source = "call" THEN busy ELSE busy \ {tr}

(* and without the back link.                                              *)
LinkNever(source, task) == link

(* A CALL leaves a link to the task it nests in.                           *)
Linked(source, task) ==
    IF source = "call" THEN [link EXCEPT ![task] = tr] ELSE link

(* The flags saved: NT is cleared when the switch goes to a busy task.     *)
Saved(task) == [flag EXCEPT ![tr] = nt /\ task \notin busy]

Switch(source, task) ==
    /\ busy' = Released(source) \cup {task}
    /\ flag' = Saved(task)
    /\ link' = Linked(source, task)
    /\ nt' = (source = "call" \/ flag'[task])
    /\ tr' = task

(* CALL and JMP want an available TSS, IRET one that is busy.              *)
CallOrJmp(source, task) == task \in Task \ busy /\ Switch(source, task)
Iret(task) == task \in busy /\ Switch("iret", task)

-----------------------------------------------------------------------------
(* The program manager.                                                    *)

(* The manager has a TSS, and is a task from here on.                      *)
Ltr ==
    /\ pc[Manager] = "ltr"
    /\ tr' = Manager
    /\ busy' = busy \cup {Manager}
    /\ pc' = [pc EXCEPT ![Manager] = "load"]
    /\ UNCHANGED <<nt, link, flag, edx, made, how>>

(* As it would be with a program's image started nested.                   *)
NestedFlags == TRUE

(* pushfd in load_relocate_program: a program inherits the manager's flags.*)
InheritedFlags == nt

(* As it would be without the hlt after the last program.                  *)
LoadWithoutEnd ==
    /\ tr = Manager
    /\ pc[Manager] = "load"
    /\ made' = made + 1
    /\ link' = [link EXCEPT ![made + 1] = NoTask]
    /\ flag' = [flag EXCEPT ![made + 1] = InheritedFlags]
    /\ pc' = [pc EXCEPT ![Manager] = "start", ![made + 1] = "user"]
    /\ UNCHANGED <<tr, nt, busy, edx, how>>

(* Allocate a TCB, append it, load the program and fill its TSS.           *)
Load ==
    /\ tr = Manager
    /\ pc[Manager] = "load"
    /\ made < Programs
    /\ made' = made + 1
    /\ link' = [link EXCEPT ![made + 1] = NoTask]
    /\ flag' = [flag EXCEPT ![made + 1] = InheritedFlags]
    /\ pc' = [pc EXCEPT ![Manager] = "start", ![made + 1] = "user"]
    /\ UNCHANGED <<tr, nt, busy, edx, how>>

(* After this the manager goes on with the next program, or halts.         *)
StartTask ==
    /\ tr = Manager
    /\ pc[Manager] = "start"
    /\ \E source \in {"call", "jmp"} :
        /\ CallOrJmp(source, made)
        /\ how' = [how EXCEPT ![made] = source]
    /\ pc' = [pc EXCEPT ![Manager] = "load"]
    /\ UNCHANGED <<edx, made>>

-----------------------------------------------------------------------------
(* terminate_current_task.                                                 *)

CallTerminate(u) ==
    /\ tr = u
    /\ pc[u] = "user"
    /\ edx' = nt
    /\ pc' = [pc EXCEPT ![u] = "test"]
    /\ UNCHANGED <<tr, nt, busy, link, flag, made, how>>

TestNt(u) ==
    /\ tr = u
    /\ pc[u] = "test"
    /\ pc' = [pc EXCEPT ![u] = IF edx THEN "iretd" ELSE "jmp"]
    /\ UNCHANGED <<tr, nt, busy, link, flag, edx, made, how>>

JmpManager(u) ==
    /\ tr = u
    /\ pc[u] = "jmp"
    /\ CallOrJmp("jmp", Manager)
    /\ pc' = [pc EXCEPT ![u] = "ended"]
    /\ UNCHANGED <<edx, made, how>>

(* With NT clear IRETD would pop a frame nobody has pushed.                *)
IretdNested(u) ==
    /\ tr = u
    /\ pc[u] = "iretd"
    /\ nt
    /\ Iret(link[u])
    /\ pc' = [pc EXCEPT ![u] = "ended"]
    /\ UNCHANGED <<edx, made, how>>

Terminate(u) ==
    CallTerminate(u) \/ TestNt(u) \/ JmpManager(u) \/ IretdNested(u)

Next == Ltr \/ Load \/ StartTask \/ \E u \in User : Terminate(u)

Spec == Init /\ [][Next]_vars

(* Nothing interrupts the processor, and it does not stop by itself.       *)
FairSpec == Spec /\ WF_vars(Next)

-----------------------------------------------------------------------------
(* Properties.                                                             *)

(* The variables have the types of the registers and fields they stand for.*)
TypeOK ==
    /\ tr \in Task \cup {NoTask}
    /\ nt \in BOOLEAN
    /\ busy \in SUBSET Task
    /\ link \in [Task -> Task \cup {NoTask}]
    /\ flag \in [Task -> BOOLEAN]
    /\ pc[Manager] \in {"ltr", "load", "start"}
    /\ pc \in [Task -> {"ltr", "load", "start", "none", "user", "test",
                        "jmp", "iretd", "ended"}]
    /\ edx \in BOOLEAN
    /\ made \in 0 .. Programs
    /\ how \in [Task -> {"none", "call", "jmp"}]

(* The task switch an instruction is about to make is one the processor    *)
(* accepts: the target of CALL and JMP is not busy, that of IRETD, found   *)
(* through the back link, is, and NT is set.                               *)
SwitchIsLegal ==
    /\ tr = Manager /\ pc[Manager] = "start" => made \notin busy
    /\ tr \in User /\ pc[tr] = "jmp" => Manager \notin busy
    /\ tr \in User /\ pc[tr] = "iretd" => nt /\ link[tr] \in busy

(* The busy tasks are the running one and, if it is nested (NT), the one   *)
(* its back link names: nobody stays busy who could not be resumed.        *)
BusyIsChain ==
    tr # NoTask => busy = {tr} \cup (IF nt THEN {link[tr]} ELSE {})

(* A program started with CALL ends with IRETD, one started with JMP with  *)
(* JMP, as the messages of terminate_current_task say, although the choice *)
(* goes by a flag that has passed through three TSS images.                *)
EndsAsStarted ==
    tr \in User =>
        /\ pc[tr] = "iretd" => how[tr] = "call"
        /\ pc[tr] = "jmp" => how[tr] = "jmp"

(* The manager and the programs take turns, in order, and every program    *)
(* that is started gives the processor back.                               *)
Turns == INSTANCE Coroutines WITH
    running <- IF tr = NoTask THEN Manager ELSE tr,
    ended <- IF tr \in User THEN made - 1
             ELSE IF pc[Manager] = "start" THEN made - 1 ELSE made

ImplementsCoroutines == Turns!FairSpec
=============================================================================
