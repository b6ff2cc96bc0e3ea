------------------------------- MODULE TcbList -------------------------------
(***************************************************************************)
(* The list of task control blocks of c17/c17_core.asm as it lies in       *)
(* memory: one link and one status word per TCB, changed instruction by    *)
(* instruction by append_to_tcb_link, by the clock handler and, because    *)
(* the exception handler runs on into it, by a task that raised an         *)
(* exception.  TaskScheduler takes the same list as a sequence and the     *)
(* handler as one step; here the pointers implement RoundRobin.            *)
(*                                                                         *)
(* Every task has a stack of frames: its program, and on top of it the     *)
(* handlers it is in.  A frame keeps the registers the handlers use and    *)
(* whether interrupts are open.                                            *)
(***************************************************************************)
EXTENDS Integers, Sequences, SequencesExt

CONSTANTS
    Core,       \* the program manager
    User,       \* the user programs
    Faulty,     \* those of them that may raise an exception
    Nil,        \* the null pointer
    TcbChain    \* the address of the list head

TcbAssumption ==
    /\ Core \notin User
    /\ Faulty \subseteq User
    /\ IsFiniteSet(User)
    /\ {Nil, TcbChain} \cap (User \cup {Core}) = {}
    /\ Nil # TcbChain

Task == User \cup {Core}
Node == Task \cup {TcbChain}

Busy  == 65535
Ready == 0

NotWord(w) == 65535 - w

VARIABLES
    link,       \* the dword at a TCB and at tcb_chain
    status,     \* the word at TCB+0x04
    tr,         \* the running task
    frames,     \* the stack of each task
    loaded      \* the programs the boot code has created TCBs for

vars == <<link, status, tr, frames, loaded>>

Frame(label, open) ==
    [at |-> label, eax |-> TcbChain, ebx |-> Nil, ecx |-> Nil, open |-> open]

(* The frame the processor executes in.                                    *)
Now == Last(frames[tr])

At(label) == Now.at = label

Become(frame) == frames' = [frames EXCEPT ![tr] = Append(Front(@), frame)]
Goto(label) == Become([Now EXCEPT !.at = label])
Push(below, frame) ==
    frames' = [frames EXCEPT ![tr] = Front(@) \o <<below, frame>>]

(* The TCBs from the list head on, up to the null pointer or a repetition. *)
ListOf(next) ==
    LET Walk[seen \in Seq(Task)] ==
            LET t == next[IF seen = << >> THEN TcbChain ELSE Last(seen)]
            IN  IF t = Nil \/ t \in ToSet(seen) THEN seen ELSE Walk[Append(seen, t)]
    IN  Walk[<< >>]

List == ListOf(link)

(* The memory of a TCB is a page nobody has cleared: its link may hold     *)
(* anything.  The program manager is about to link its own TCB.            *)
Init ==
    /\ link \in [Node -> Task \cup {Nil}] /\ link[TcbChain] = Nil
    /\ status = [t \in Task |-> IF t = Core THEN Busy ELSE Ready]
    /\ tr = Core
    /\ frames = [t \in Task |->
                    <<IF t = Core
                      THEN [Frame("append", FALSE) EXCEPT !.ecx = Core]
                      ELSE Frame("run", TRUE)>>]
    /\ loaded = {Core}

-----------------------------------------------------------------------------
(* append_to_tcb_link, with interrupts closed; ECX is the new TCB.         *)

LoadProgram(u) ==
    /\ tr = Core /\ At("run")
    /\ u \notin loaded
    /\ loaded' = loaded \cup {u}
    /\ Become([Frame("append", FALSE) EXCEPT !.ecx = u])
    /\ UNCHANGED <<link, status, tr>>

AppendWalk ==
    /\ At("append")
    /\ IF link[Now.eax] = Nil THEN Goto("append_link")
       ELSE Become([Now EXCEPT !.eax = link[Now.eax]])
    /\ UNCHANGED <<link, status, tr, loaded>>

AppendLink ==
    /\ At("append_link")
    /\ link' = [link EXCEPT ![Now.eax] = Now.ecx]
    /\ Goto("append_end")
    /\ UNCHANGED <<status, tr, loaded>>

AppendEnd ==
    /\ At("append_end")
    /\ link' = [link EXCEPT ![Now.ecx] = Nil]
    /\ Become(Frame("run", TRUE))
    /\ UNCHANGED <<status, tr, loaded>>

-----------------------------------------------------------------------------
(* The clock interrupt and its handler.  hlt ends with the interrupt.      *)

AfterHlt(frame) ==
    IF frame.at = "hlt" THEN [frame EXCEPT !.at = "find"] ELSE frame

ClockInterrupt ==
    /\ Now.open
    /\ Push(AfterHlt(Now), Frame("find", FALSE))
    /\ UNCHANGED <<link, status, tr, loaded>>

(* .b0: the link at EAX; a null link ends the search.                      *)
Find ==
    /\ At("find")
    /\ Become([Now EXCEPT !.ebx = link[Now.eax],
                          !.at = IF link[Now.eax] = Nil THEN "return" ELSE "test"])
    /\ UNCHANGED <<link, status, tr, loaded>>

(* cmp word [ebx+0x04],0xffff                                              *)
TestBusy ==
    /\ At("test")
    /\ IF status[Now.ebx] = Busy THEN Goto("take")
       ELSE Become([Now EXCEPT !.eax = Now.ebx, !.at = "find"])
    /\ UNCHANGED <<link, status, tr, loaded>>

(* .b1: what follows the busy TCB ...                                      *)
TakeNext ==
    /\ At("take")
    /\ Become([Now EXCEPT !.ecx = link[Now.ebx], !.at = "unlink"])
    /\ UNCHANGED <<link, status, tr, loaded>>

(* ... takes its place.                                                    *)
Unlink ==
    /\ At("unlink")
    /\ link' = [link EXCEPT ![Now.eax] = Now.ecx]
    /\ Goto("tail")
    /\ UNCHANGED <<status, tr, loaded>>

(* .b2: on to the last TCB.                                                *)
FindTail ==
    /\ At("tail")
    /\ IF link[Now.eax] = Nil THEN Goto("relink")
       ELSE Become([Now EXCEPT !.eax = link[Now.eax]])
    /\ UNCHANGED <<link, status, tr, loaded>>

(* .b3                                                                     *)
Relink ==
    /\ At("relink")
    /\ link' = [link EXCEPT ![Now.eax] = Now.ebx]
    /\ Goto("mark_tail")
    /\ UNCHANGED <<status, tr, loaded>>

(* As it would be if the second search began where the first one ended.    *)
MarkTailOnly ==
    /\ At("mark_tail")
    /\ link' = [link EXCEPT ![Now.ebx] = Nil]
    /\ Goto("next")
    /\ UNCHANGED <<status, tr, loaded>>

MarkTail ==
    /\ At("mark_tail")
    /\ link' = [link EXCEPT ![Now.ebx] = Nil]
    /\ Become([Now EXCEPT !.eax = TcbChain, !.at = "next"])
    /\ UNCHANGED <<status, tr, loaded>>

(* .b4: the first TCB that is ready.                                       *)
FindReady ==
    /\ At("next")
    /\ Become([Now EXCEPT !.eax = link[Now.eax],
                          !.at = IF link[Now.eax] = Nil THEN "return"
                                 ELSE "test_ready"])
    /\ UNCHANGED <<link, status, tr, loaded>>

TestReady ==
    /\ At("test_ready")
    /\ Goto(IF status[Now.eax] = Ready THEN "not_next" ELSE "next")
    /\ UNCHANGED <<link, status, tr, loaded>>

NotNext ==
    /\ At("not_next")
    /\ status' = [status EXCEPT ![Now.eax] = NotWord(@)]
    /\ Goto("not_current")
    /\ UNCHANGED <<link, tr, loaded>>

NotCurrent ==
    /\ At("not_current")
    /\ status' = [status EXCEPT ![Now.ebx] = NotWord(@)]
    /\ Goto("jmp")
    /\ UNCHANGED <<link, tr, loaded>>

(* jmp far [eax+0x14]; the task left continues behind it one day.          *)
JmpTask ==
    /\ At("jmp")
    /\ tr' = Now.eax
    /\ Goto("return")
    /\ UNCHANGED <<link, status, loaded>>

(* popad, iretd                                                            *)
Return ==
    /\ At("return")
    /\ frames' = [frames EXCEPT ![tr] = Front(@)]
    /\ UNCHANGED <<link, status, tr, loaded>>

-----------------------------------------------------------------------------
(* general_exception_handler: its message ends with interrupts open, and   *)
(* behind its hlt comes the clock handler.                                 *)

Fault ==
    /\ tr \in Faulty /\ At("run")
    /\ Push(Now, Frame("message", FALSE))
    /\ UNCHANGED <<link, status, tr, loaded>>

Message ==
    /\ At("message")
    /\ Become(Frame("hlt", TRUE))
    /\ UNCHANGED <<link, status, tr, loaded>>

(* Any other interrupt ends the hlt as well.                               *)
OtherInterrupt ==
    /\ At("hlt")
    /\ Become(AfterHlt(Now))
    /\ UNCHANGED <<link, status, tr, loaded>>

-----------------------------------------------------------------------------
Handle == \/ Find \/ TestBusy \/ TakeNext \/ Unlink \/ FindTail \/ Relink
          \/ MarkTail \/ FindReady \/ TestReady \/ NotNext \/ NotCurrent
          \/ JmpTask \/ Return

AppendTcb == AppendWalk \/ AppendLink \/ AppendEnd

Next == \/ \E u \in User : LoadProgram(u)
        \/ AppendTcb \/ ClockInterrupt \/ Handle

Spec == Init /\ [][Next]_vars

(* The clock interrupts again and again, and code once begun goes on.      *)
FairSpec == Spec /\ WF_vars(ClockInterrupt) /\ WF_vars(Handle) /\ WF_vars(AppendTcb)

FaultSpec == Init /\ [][Next \/ Fault \/ Message \/ OtherInterrupt]_vars

-----------------------------------------------------------------------------
(* Properties.                                                             *)

(* Links, status words and frames have the types of what they stand for;   *)
(* without exceptions no handler is interrupted.                           *)
TypeOK ==
    /\ link \in [Node -> Task \cup {Nil}]
    /\ status \in [Task -> {Busy, Ready}]
    /\ tr \in Task
    /\ \A t \in Task : Len(frames[t]) \in 1 .. 2
    /\ loaded \subseteq Task

(* "find the place of the current task (the one whose status is busy) in   *)
(* the list" (c17_core.asm:441): the TCB the handler unlinks is that of    *)
(* the task it runs in.                                                    *)
CurrentIsFound ==
    \A t \in Task : \A i \in DOMAIN frames[t] :
        frames[t][i].at \in {"take", "unlink"} => frames[t][i].ebx = tr

(* Whenever a handler may start, the list is closed and complete: it ends, *)
(* and it holds every TCB that was ever appended, whatever garbage their   *)
(* memory held.                                                            *)
ListIsWhole ==
    Now.open =>
        /\ ToSet(List) = { t \in loaded : t # Core \/ link[TcbChain] # Nil }
        /\ link[IF List = << >> THEN TcbChain ELSE Last(List)] = Nil

(* The list as it is once the TCB just linked is marked as its end.        *)
Ended ==
    ListOf(IF At("append_end") THEN [link EXCEPT ![Now.ecx] = Nil]
           ELSE IF At("mark_tail") THEN [link EXCEPT ![Now.ebx] = Nil]
           ELSE link)

(* A sequence without its first t.                                         *)
Without(s, t) ==
    IF t \in ToSet(s) THEN RemoveAt(s, CHOOSE i \in DOMAIN s : s[i] = t) ELSE s

(* What stands for the queue of the abstract round robin: the list without *)
(* the task that runs.                                                     *)
Queue == Without(Ended, tr)
=============================================================================
