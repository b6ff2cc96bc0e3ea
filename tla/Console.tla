------------------------------ MODULE Console ------------------------------
(***************************************************************************)
(* The console of the preemptive kernels: put_string and put_hex_dword,    *)
(* which every program may call, and put_char, which they share.  put_char *)
(* reads the cursor from the CRT controller through an index register,     *)
(* byte by byte, and writes it back the same way; put_string keeps the     *)
(* clock out while it works, put_hex_dword does not.                       *)
(***************************************************************************)
EXTENDS Integers, Sequences, FiniteSets

CONSTANTS
    Rows, Columns,  \* of the screen (25, 80)
    Byte,           \* values of a register of the CRT controller (256)
    Task,           \* the tasks that call the console
    Messages,       \* strings passed to put_string, without the final zero
                    \* (all line feeds of the kernel's follow a CR; on the
                    \* last line a lone one would return the carriage too)
    Numbers,        \* digits put_hex_dword shows, eight of them
    HexTasks        \* tasks that call put_hex_dword once the clock interrupts

Blank == "blank"
CR == "cr"
LF == "lf"

Characters == UNION { { m[i] : i \in 1 .. Len(m) } : m \in Messages \cup Numbers }
Printed == Characters \ {CR, LF}

ASSUME ConsoleAssumption ==
    /\ Messages \cup Numbers \subseteq Seq(Characters)
    /\ Rows \in Nat \ {0, 1} /\ Columns \in Nat \ {0} /\ Byte \in Nat \ {0}
    /\ (Rows + 1) * Columns < Byte * Byte
    /\ HexTasks \subseteq Task

INSTANCE Terminal

Cells == Rows * Columns
LastRow == (Rows - 1) * Columns

(* Scrolling copies twice as many cells as the rows that stay ("mov        *)
(* ecx,1920 / rep movsd" moves double words), from behind the screen too.  *)
Scrolled == 0 .. (2 * LastRow - 1)
Video == 0 .. (2 * LastRow + Columns - 1)

VARIABLES
    video,      \* the text memory, the part behind the screen included
    crtc,       \* the cursor's bytes, registers 0x0e and 0x0f
    index,      \* the CRT controller's index register
    open,       \* IF of the running task; all others were preempted with 1
    running,    \* the task that has the processor
    pc,         \* where each task is in put_char
    rest,       \* the characters each task has still to show, after CL
    cl, bx,     \* registers of each task
    hex,        \* the tasks inside put_hex_dword
    screen      \* the terminal all characters shown so far make

vars == <<video, crtc, index, open, running, pc, rest, cl, bx, hex, screen>>
device == <<video, crtc, index>>
caller == <<rest, cl, hex>>

Cursor == crtc["high"] * Byte + crtc["low"]

Line(r) == [c \in 1 .. Columns |-> video[(r - 1) * Columns + (c - 1)]]

(* The screen as one sees it.                                              *)
Shown ==
    [lines |-> [r \in 1 .. Rows |-> Line(r)],
     row |-> Cursor \div Columns + 1,
     col |-> (Cursor % Columns) + 1]

(* The kernel starts with interrupts closed, alone, wherever the firmware  *)
(* left the cursor.                                                        *)
Init ==
    /\ video = [p \in Video |-> IF p < Cells THEN Blank ELSE "hidden"]
    /\ \E p \in 0 .. (Cells - 1) :
        crtc = [high |-> p \div Byte, low |-> p % Byte]
    /\ index \in {"high", "low"}
    /\ open = FALSE
    /\ running \in Task
    /\ pc = [t \in Task |-> "idle"]
    /\ rest = [t \in Task |-> <<>>]
    /\ cl = [t \in Task |-> Blank]
    /\ bx = [t \in Task |-> 0]
    /\ hex = {}
    /\ screen = Shown

-----------------------------------------------------------------------------
Goto(t, label) == pc' = [pc EXCEPT ![t] = label]

(* As it would be without the cli.                                         *)
LeaveOpen == open

(* cli at the start of put_string.                                         *)
CloseInterrupts == FALSE

PutString(t) ==
    /\ pc[t] = "idle"
    /\ \E message \in Messages : rest' = [rest EXCEPT ![t] = message]
    /\ open' = CloseInterrupts
    /\ Goto(t, "next")
    /\ UNCHANGED <<device, running, cl, bx, hex, screen>>

PutHexDword(t) ==
    /\ pc[t] = "idle"
    /\ open => t \in HexTasks
    /\ \E number \in Numbers : rest' = [rest EXCEPT ![t] = number]
    /\ hex' = hex \cup {t}
    /\ Goto(t, "next")
    /\ UNCHANGED <<device, open, running, cl, bx, screen>>

NextCharacter(t) ==
    /\ pc[t] = "next"
    /\ rest[t] # <<>>
    /\ cl' = [cl EXCEPT ![t] = Head(rest[t])]
    /\ rest' = [rest EXCEPT ![t] = Tail(@)]
    /\ Goto(t, "select high")
    /\ UNCHANGED <<device, open, running, bx, hex, screen>>

(* The string ends with sti, the number without.                           *)
Return(t) ==
    /\ pc[t] = "next"
    /\ rest[t] = <<>>
    /\ open' = (t \in hex => open)
    /\ hex' = hex \ {t}
    /\ Goto(t, "idle")
    /\ UNCHANGED <<device, running, rest, cl, bx, screen>>

-----------------------------------------------------------------------------
(* put_char.                                                               *)

(* As it would be with the two indices swapped.                            *)
SelectsSwapped ==
    [l \in {"select high", "select low", "reselect high", "reselect low"} |->
        IF l \in {"select high", "reselect low"} THEN "high" ELSE "low"]

(* Which register each "out 0x3d4" names.                                  *)
Selects ==
    [l \in {"select high", "select low", "reselect high", "reselect low"} |->
        IF l \in {"select high", "reselect high"} THEN "high" ELSE "low"]

(* The access of port 0x3d5 that follows it.                               *)
DataAccess ==
    [l \in DOMAIN Selects |->
        CASE l = "select high" -> "read high"
          [] l = "select low" -> "read low"
          [] l = "reselect high" -> "write high"
          [] l = "reselect low" -> "write low"]

SelectRegister(t) ==
    /\ pc[t] \in DOMAIN Selects
    /\ index' = Selects[pc[t]]
    /\ Goto(t, DataAccess[pc[t]])
    /\ UNCHANGED <<video, crtc, open, running, caller, bx, screen>>

ReadHigh(t) ==
    /\ pc[t] = "read high"
    /\ bx' = [bx EXCEPT ![t] = crtc[index] * Byte]
    /\ Goto(t, "select low")
    /\ UNCHANGED <<device, open, running, caller, screen>>

ReadLow(t) ==
    /\ pc[t] = "read low"
    /\ bx' = [bx EXCEPT ![t] = @ + crtc[index]]
    /\ Goto(t, "put")
    /\ UNCHANGED <<device, open, running, caller, screen>>

(* As it would be with jle in place of jl.                                 *)
RollLate(p) == IF p <= Cells THEN "reselect high" ELSE "scroll"

(* "cmp bx,2000": is the cursor past the screen?                           *)
Roll(p) == IF p < Cells THEN "reselect high" ELSE "scroll"

CarriageReturn(t) ==
    /\ pc[t] = "put"
    /\ cl[t] = CR
    /\ bx' = [bx EXCEPT ![t] = (@ \div Columns) * Columns]
    /\ Goto(t, "reselect high")
    /\ UNCHANGED <<device, open, running, caller, screen>>

LineFeed(t) ==
    /\ pc[t] = "put"
    /\ cl[t] = LF
    /\ bx' = [bx EXCEPT ![t] = @ + Columns]
    /\ Goto(t, Roll(bx[t] + Columns))
    /\ UNCHANGED <<device, open, running, caller, screen>>

PutOther(t) ==
    /\ pc[t] = "put"
    /\ cl[t] \notin {CR, LF}
    /\ video' = [p \in Video |-> IF p = bx[t] THEN cl[t] ELSE video[p]]
    /\ bx' = [bx EXCEPT ![t] = @ + 1]
    /\ Goto(t, Roll(bx[t] + 1))
    /\ UNCHANGED <<crtc, index, open, running, caller, screen>>

Scroll(t) ==
    /\ pc[t] = "scroll"
    /\ video' = [p \in Video |-> IF p \in Scrolled THEN video[p + Columns] ELSE video[p]]
    /\ Goto(t, "clear")
    /\ UNCHANGED <<crtc, index, open, running, caller, bx, screen>>

(* As it would be without the loop.                                        *)
NothingCleared == {}

(* The cells the loop at .cls clears.                                      *)
Cleared == LastRow .. (Cells - 1)

ClearBottom(t) ==
    /\ pc[t] = "clear"
    /\ video' = [p \in Video |-> IF p \in Cleared THEN Blank ELSE video[p]]
    /\ bx' = [bx EXCEPT ![t] = LastRow]
    /\ Goto(t, "reselect high")
    /\ UNCHANGED <<crtc, index, open, running, caller, screen>>

WriteHigh(t) ==
    /\ pc[t] = "write high"
    /\ crtc' = [crtc EXCEPT ![index] = bx[t] \div Byte]
    /\ Goto(t, "reselect low")
    /\ UNCHANGED <<video, index, open, running, caller, bx, screen>>

(* The last access: the character is shown and the cursor is behind it.    *)
WriteLow(t) ==
    /\ pc[t] = "write low"
    /\ crtc' = [crtc EXCEPT ![index] = bx[t] % Byte]
    /\ screen' = Type(screen, cl[t])
    /\ Goto(t, "next")
    /\ UNCHANGED <<video, index, open, running, caller, bx>>

-----------------------------------------------------------------------------
PutChar(t) ==
    \/ SelectRegister(t) \/ ReadHigh(t) \/ ReadLow(t)
    \/ CarriageReturn(t) \/ LineFeed(t) \/ PutOther(t)
    \/ Scroll(t) \/ ClearBottom(t)
    \/ WriteHigh(t) \/ WriteLow(t)

(* The clock interrupt switches to another task.                           *)
Preempt ==
    /\ open
    /\ running' \in Task
    /\ UNCHANGED <<device, open, pc, caller, bx, screen>>

Next ==
    \/ \E t \in Task :
        /\ t = running
        /\ PutString(t) \/ PutHexDword(t) \/ NextCharacter(t) \/ Return(t) \/ PutChar(t)
    \/ Preempt

Spec == Init /\ [][Next]_vars

-----------------------------------------------------------------------------
(* Properties.                                                             *)

(* The variables have the types of the registers they stand for; the       *)
(* cursor read from the controller is never past the screen.               *)
TypeOK ==
    /\ video \in [Video -> Printed \cup {Blank, "hidden"}]
    /\ crtc \in [{"high", "low"} -> 0 .. (Byte - 1)]
    /\ index \in {"high", "low"}
    /\ open \in BOOLEAN
    /\ running \in Task
    /\ hex \in SUBSET Task
    /\ \A t \in Task :
        /\ cl[t] \in Characters \cup {Blank}
        /\ bx[t] \in 0 .. (Cells + Columns - 1)
        /\ pc[t] \in DOMAIN Selects
                \cup {"idle", "next", "read high", "read low", "put", "scroll",
                      "clear", "write high", "write low"}

(* Whenever no task is inside put_char, the visible part of the memory and *)
(* the cursor are those of a terminal on which the characters were typed:  *)
(* put_char shows a character at the cursor and advances the cursor.       *)
ScreenAsTyped ==
    (\A t \in Task : pc[t] \in {"idle", "next"}) => Shown = screen

(* No other task shows a character while one is inside a string.           *)
MessagesAreWhole ==
    \A t, u \in Task :
        t # u /\ pc[t] # "idle" => pc[u] = "idle"

(* What was printed is never overwritten: it stays where it is or goes up  *)
(* with everything else.  The strings end their lines with CR and LF, so a *)
(* new line always begins on a blank one.                                  *)
PrintedTextStays ==
    [][\/ \A p \in 0 .. (Cells - 1) : video[p] \in Printed => video'[p] = video[p]
       \/ \A p \in 0 .. (LastRow - 1) : video'[p] = video[p + Columns]]_vars
=============================================================================
