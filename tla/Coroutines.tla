----------------------------- MODULE Coroutines -----------------------------
(***************************************************************************)
(* What the program managers of chapters 15 and 16 promise: they and the   *)
(* programs take turns.  The manager starts the programs one after the     *)
(* other, and each returns the processor to it when it ends.               *)
(***************************************************************************)
EXTENDS Naturals

CONSTANT Programs       \* how many programs the manager starts

Manager == 0

VARIABLES
    running,    \* who has the processor
    ended       \* the programs that have ended

vars == <<running, ended>>

Init == running = Manager /\ ended = 0

Start ==
    /\ running = Manager
    /\ ended < Programs
    /\ running' = ended + 1
    /\ UNCHANGED ended

End ==
    /\ running # Manager
    /\ ended' = running
    /\ running' = Manager

Next == Start \/ End

Spec == Init /\ [][Next]_vars

FairSpec == Spec /\ WF_vars(Next)
=============================================================================
