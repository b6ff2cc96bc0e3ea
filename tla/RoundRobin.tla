----------------------------- MODULE RoundRobin -----------------------------
(***************************************************************************)
(* What the task switching of the c17/c18 kernel promises to the programs  *)
(* it runs: one task has the processor, the others wait in a first-in      *)
(* first-out queue, and every preemption hands the processor to the task   *)
(* that has waited longest.  Once a task has exited the processor is never *)
(* handed over again: the kernel has no other way to leave a task than the *)
(* clock interrupt, and that interrupt only preempts a task marked busy.   *)
(***************************************************************************)
EXTENDS Integers, Sequences

CONSTANTS
    Core,       \* the program manager: the task the kernel boots as
    User        \* the programs it loads

VARIABLES
    running,    \* the task that has the processor
    queue,      \* the tasks that wait for it, the longest waiting first
    frozen      \* a task has exited

vars == <<running, queue, frozen>>

Task == User \cup {Core}

Waiting == { queue[i] : i \in DOMAIN queue }

Init ==
    /\ running = Core
    /\ queue = << >>
    /\ frozen = FALSE

(* The program manager, while it runs, adds a program it has loaded.       *)
Admit(u) ==
    /\ ~frozen
    /\ running = Core
    /\ u \notin Waiting
    /\ queue' = Append(queue, u)
    /\ UNCHANGED <<running, frozen>>

(* The clock interrupt hands the processor to the longest waiting task.    *)
Preempt ==
    /\ ~frozen
    /\ queue # << >>
    /\ running' = Head(queue)
    /\ queue' = Append(Tail(queue), running)
    /\ UNCHANGED frozen

(* The running program exits; its processor is not taken away.             *)
Exit ==
    /\ ~frozen
    /\ running # Core
    /\ frozen' = TRUE
    /\ UNCHANGED <<running, queue>>

Next ==
    \/ \E u \in User : Admit(u)
    \/ Preempt
    \/ Exit

Spec == Init /\ [][Next]_vars

FairSpec == Spec /\ WF_vars(Preempt)
=============================================================================
