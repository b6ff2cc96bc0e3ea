--------------------------- MODULE ConsoleProofs ---------------------------
(***************************************************************************)
(* While only put_string runs with the clock on (HexTasks empty), for a    *)
(* screen of any size and any number of tasks: what one sees is what was   *)
(* typed on the terminal, a message is shown as a whole, the registers     *)
(* keep their ranges and, if lines end with CR and LF, what was printed    *)
(* stays.                                                                  *)
(*                                                                         *)
(* IInv says what the one task inside put_char has already in its          *)
(* registers and in the controller's; Drawn, where the screen stands       *)
(* between the old terminal and the new one.  The Draw lemmas compare the  *)
(* flat memory with the terminal's lines, one for each way through         *)
(* put_char.  Ahead says behind which cell nothing is written yet.         *)
(***************************************************************************)
EXTENDS Console, TLAPS

(* Quotient and remainder.                                                 *)
LEMMA Divide ==
    ASSUME NEW n \in Nat, NEW d \in Nat, d > 0
    PROVE  /\ n \div d \in Nat
           /\ n % d \in Nat
           /\ n % d < d
           /\ n = ((n \div d) * d) + (n % d)
<1>1. n \div d \in Nat
  BY SMT
<1>2. n % d \in Nat /\ n % d < d
  BY SMT
<1>3. n = ((n \div d) * d) + (n % d)
  BY SMT
<1> QED BY <1>1, <1>2, <1>3

(* There is only one quotient, and one remainder.                          *)
LEMMA Unique ==
    ASSUME NEW d \in Nat, d > 0, NEW q \in Nat, NEW r \in Nat, r < d
    PROVE  /\ ((q * d) + r) \div d = q
           /\ ((q * d) + r) % d = r
<1> DEFINE n == (q * d) + r
           p == n \div d
           s == n % d
<1>1. n \in Nat
  BY SMT
<1>2. p \in Nat /\ s \in Nat /\ s < d /\ n = (p * d) + s
  BY <1>1, Divide
<1>3. (p * d) + s = (q * d) + r
  BY <1>2
<1> HIDE DEF n, p, s
<1>4. ASSUME p < q PROVE FALSE
  <2>1. PICK k \in Nat : q = p + 1 + k
    <3>1. q - p - 1 \in Nat /\ q = p + 1 + (q - p - 1)
      BY <1>2, <1>4
    <3> QED BY <3>1
  <2>2. q * d = (p * d) + d + (k * d)
    BY <1>2, <2>1, SMT
  <2>3. k * d \in Nat /\ p * d \in Nat
    BY <1>2, SMT
  <2> QED BY <1>2, <1>3, <2>2, <2>3
<1>5. ASSUME q < p PROVE FALSE
  <2>1. PICK k \in Nat : p = q + 1 + k
    <3>1. p - q - 1 \in Nat /\ p = q + 1 + (p - q - 1)
      BY <1>2, <1>5
    <3> QED BY <3>1
  <2>2. p * d = (q * d) + d + (k * d)
    BY <1>2, <2>1, SMT
  <2>3. k * d \in Nat /\ q * d \in Nat
    BY <1>2, SMT
  <2> QED BY <1>2, <1>3, <2>2, <2>3
<1>6. p = q
  BY <1>2, <1>4, <1>5
<1>7. q * d \in Nat
  BY SMT
<1>8. s = r
  BY <1>2, <1>3, <1>6, <1>7
<1> QED BY <1>6, <1>8 DEF n, p, s

(* The numbers below a * d have quotients below a.                         *)
LEMMA QuotientBelow ==
    ASSUME NEW d \in Nat, d > 0, NEW a \in Nat, NEW n \in Nat, n < a * d
    PROVE  n \div d < a
<1> DEFINE q == n \div d
<1>1. q \in Nat /\ n % d \in Nat /\ n = (q * d) + (n % d)
  BY Divide
<1> HIDE DEF q
<1>2. ASSUME q >= a PROVE FALSE
  <2>1. PICK k \in Nat : q = a + k
    <3>1. q - a \in Nat /\ q = a + (q - a)
      BY <1>1, <1>2
    <3> QED BY <3>1
  <2>2. q * d = (a * d) + (k * d)
    BY <2>1, SMT
  <2>3. k * d \in Nat /\ a * d \in Nat
    BY SMT
  <2> QED BY <1>1, <2>2, <2>3
<1>3. q < a
  BY <1>1, <1>2
<1> QED BY <1>3 DEF q

HalfWay == DOMAIN Selects
               \cup {"read high", "read low", "put", "scroll", "clear",
                     "write high", "write low"}

(* A task that is not idle has the processor, with interrupts closed.      *)
Alone == \A t \in Task : pc[t] # "idle" => t = running /\ ~open

(* The registers of the tasks, with the domains that TypeOK leaves out.    *)
Tasks ==
    /\ pc \in [Task -> HalfWay \cup {"idle", "next"}]
    /\ rest \in [Task -> Seq(Characters)]
    /\ cl \in [Task -> Characters \cup {Blank}]
    /\ bx \in [Task -> 0 .. (Cells + Columns - 1)]

Devices ==
    /\ video \in [Video -> Printed \cup {Blank, "hidden"}]
    /\ crtc \in [{"high", "low"} -> 0 .. (Byte - 1)]
    /\ index \in {"high", "low"}
    /\ open \in BOOLEAN
    /\ running \in Task
    /\ hex \in SUBSET Task

(* What task t knows of the cursor, when it has the processor.             *)
Position(t) ==
    /\ pc[t] \in {"idle", "next", "select high", "read high", "select low",
                  "read low", "put"} => Cursor < Cells
    /\ pc[t] \in {"read high", "write high"} => index = "high"
    /\ pc[t] \in {"read low", "write low"} => index = "low"
    /\ pc[t] \in {"select low", "read low"} => bx[t] = crtc["high"] * Byte
    /\ pc[t] = "put" => bx[t] = Cursor
    /\ pc[t] \in {"reselect high", "write high", "reselect low", "write low"}
         => bx[t] < Cells
    /\ pc[t] \in {"reselect low", "write low"} => crtc["high"] = bx[t] \div Byte

IInv == Alone /\ Tasks /\ Devices /\ Position(running)

-----------------------------------------------------------------------------
(* Arithmetic of the screen.                                               *)

LEMMA Sizes ==
    /\ Rows \in Nat /\ Rows > 1 /\ Columns \in Nat /\ Columns > 0
    /\ Byte \in Nat /\ Byte > 0
    /\ Cells \in Nat /\ LastRow \in Nat
    /\ Cells = LastRow + Columns
    /\ Columns <= LastRow
    /\ Cells + Columns < Byte * Byte
<1>1. Rows \in Nat /\ Rows > 1 /\ Columns \in Nat /\ Columns > 0
      /\ Byte \in Nat /\ Byte > 0
  BY ConsoleAssumption
<1>2. PICK k \in Nat : Rows = k + 2
  <2>1. Rows - 2 \in Nat /\ Rows = (Rows - 2) + 2
    BY <1>1
  <2> QED BY <2>1
<1>3. /\ Rows * Columns = (k * Columns) + Columns + Columns
      /\ (Rows - 1) * Columns = (k * Columns) + Columns
      /\ (Rows + 1) * Columns = (k * Columns) + Columns + Columns + Columns
  BY <1>1, <1>2, SMT
<1>4. k * Columns \in Nat
  BY <1>1, SMT
<1>5. (Rows + 1) * Columns < Byte * Byte
  BY ConsoleAssumption
<1> QED BY <1>1, <1>3, <1>4, <1>5 DEF Cells, LastRow

(* A number below Byte * Byte has a first byte.                            *)
LEMMA HighByte ==
    ASSUME NEW n \in Nat, n < Byte * Byte
    PROVE  n \div Byte \in 0 .. (Byte - 1)
<1>1. n \div Byte \in Nat
  BY Sizes, Divide
<1>2. n \div Byte < Byte
  BY Sizes, QuotientBelow
<1> QED BY <1>1, <1>2, Sizes

-----------------------------------------------------------------------------
(* The invariant.                                                          *)

LEMMA TypeInit == Init => IInv
<1> SUFFICES ASSUME Init PROVE IInv
  OBVIOUS
<1>1. Alone
  BY DEF Init, Alone
<1>2. Tasks
  <2>1. << >> \in Seq(Characters)
    OBVIOUS
  <2>2. 0 \in 0 .. (Cells + Columns - 1)
    BY Sizes
  <2> QED BY <2>1, <2>2 DEF Init, Tasks
<1>3. PICK p \in 0 .. (Cells - 1) : crtc = [high |-> p \div Byte, low |-> p % Byte]
  BY DEF Init
<1>4. /\ p \in Nat /\ p < Cells
      /\ p \div Byte \in 0 .. (Byte - 1)
      /\ p % Byte \in 0 .. (Byte - 1)
      /\ p = ((p \div Byte) * Byte) + (p % Byte)
  <2>1. p \in Nat /\ p < Cells
    BY Sizes
  <2>2. p < Byte * Byte
    <3>1. Byte * Byte \in Nat
      BY Sizes, SMT
    <3> QED BY <2>1, <3>1, Sizes
  <2>3. p \div Byte \in 0 .. (Byte - 1)
    BY <2>1, <2>2, HighByte
  <2>4. p % Byte \in Nat /\ p % Byte < Byte
        /\ p = ((p \div Byte) * Byte) + (p % Byte)
    BY <2>1, Divide, Sizes
  <2>5. p % Byte \in 0 .. (Byte - 1)
    BY <2>4, Sizes
  <2> QED BY <2>1, <2>3, <2>4, <2>5
<1>5. Devices
  <2>1. crtc \in [{"high", "low"} -> 0 .. (Byte - 1)]
    BY <1>3, <1>4
  <2>2. video \in [Video -> Printed \cup {Blank, "hidden"}]
    BY DEF Init
  <2> QED BY <2>1, <2>2 DEF Init, Devices
<1>6. Position(running)
  <2>1. Cursor = p
    BY <1>3, <1>4 DEF Cursor
  <2> QED BY <2>1, <1>4 DEF Init, Position
<1> QED BY <1>1, <1>2, <1>5, <1>6 DEF IInv

(* The task that moves keeps the others idle.                              *)
LEMMA AloneStep ==
    ASSUME IInv, NEW t \in Task, t = running, NEW label,
           Goto(t, label), running' = running,
           label = "idle" \/ ~open'
    PROVE  Alone'
BY DEF IInv, Alone, Tasks, Goto

(* The second byte completes the cursor.                                   *)
LEMMA CursorWritten ==
    ASSUME IInv, NEW t \in Task, t = running, WriteLow(t)
    PROVE  /\ crtc' = [crtc EXCEPT !["low"] = bx[t] % Byte]
           /\ bx[t] % Byte \in 0 .. (Byte - 1)
           /\ bx[t] < Cells
           /\ Cursor' = bx[t]
<1>1. crtc' = [crtc EXCEPT !["low"] = bx[t] % Byte]
  BY DEF WriteLow, IInv, Position
<1>2. bx[t] \in Nat
  <2>1. bx[t] \in 0 .. (Cells + Columns - 1)
    BY DEF IInv, Tasks
  <2> QED BY <2>1, Sizes
<1>3. bx[t] < Cells /\ crtc["high"] = bx[t] \div Byte
  BY DEF WriteLow, IInv, Position
<1>4. /\ bx[t] % Byte \in Nat /\ bx[t] % Byte < Byte
      /\ bx[t] = ((bx[t] \div Byte) * Byte) + (bx[t] % Byte)
  BY <1>2, Divide, Sizes
<1>5. bx[t] % Byte \in 0 .. (Byte - 1)
  BY <1>4, Sizes
<1>6. Cursor' = bx[t]
  <2>1. Cursor' = (crtc'["high"] * Byte) + crtc'["low"]
    BY DEF Cursor
  <2>2. crtc'["high"] = bx[t] \div Byte /\ crtc'["low"] = bx[t] % Byte
    BY <1>1, <1>3 DEF IInv, Devices
  <2> QED BY <2>1, <2>2, <1>4
<1> QED BY <1>1, <1>3, <1>5, <1>6

LEMMA TypeStep ==
    ASSUME HexTasks = {}
    PROVE  IInv /\ [Next]_vars => IInv'
<1> SUFFICES ASSUME IInv, [Next]_vars PROVE IInv'
  OBVIOUS
<1> DEFINE t == running
<1>0. t \in Task /\ t = running
  BY DEF IInv, Devices
<1> HIDE DEF t
<1>a. pc[t] # "idle" => ~open
  BY <1>0 DEF IInv, Alone
<1>1. CASE PutString(t)
  <2>1. Alone'
    BY <1>0, <1>1, AloneStep DEF PutString, CloseInterrupts
  <2>2. Tasks'
    <3>1. \A message \in Messages : message \in Seq(Characters)
      BY ConsoleAssumption
    <3> QED BY <1>0, <1>1, <3>1 DEF PutString, IInv, Tasks, Goto
  <2>3. Devices'
    BY <1>0, <1>1 DEF PutString, CloseInterrupts, IInv, Devices, device
  <2>4. Position(running)'
    BY <1>0, <1>1 DEF PutString, IInv, Tasks, Position, Goto, Cursor, device
  <2> QED BY <2>1, <2>2, <2>3, <2>4 DEF IInv
<1>2. CASE PutHexDword(t)
  <2>1. Alone'
    BY <1>0, <1>2, AloneStep DEF PutHexDword
  <2>2. Tasks'
    <3>1. \A number \in Numbers : number \in Seq(Characters)
      BY ConsoleAssumption
    <3> QED BY <1>0, <1>2, <3>1 DEF PutHexDword, IInv, Tasks, Goto
  <2>3. Devices'
    BY <1>0, <1>2 DEF PutHexDword, IInv, Devices, device
  <2>4. Position(running)'
    BY <1>0, <1>2 DEF PutHexDword, IInv, Tasks, Position, Goto, Cursor, device
  <2> QED BY <2>1, <2>2, <2>3, <2>4 DEF IInv
<1>3. CASE NextCharacter(t)
  <2>1. Alone'
    BY <1>0, <1>a, <1>3, AloneStep DEF NextCharacter
  <2>2. Tasks'
    <3>1. rest[t] \in Seq(Characters) /\ rest[t] # << >>
      BY <1>0, <1>3 DEF NextCharacter, IInv, Tasks
    <3>2. Head(rest[t]) \in Characters /\ Tail(rest[t]) \in Seq(Characters)
      BY <3>1
    <3> QED BY <1>0, <1>3, <3>2 DEF NextCharacter, IInv, Tasks, Goto, HalfWay, Selects
  <2>3. Devices'
    BY <1>0, <1>3 DEF NextCharacter, IInv, Devices, device
  <2>4. Position(running)'
    BY <1>0, <1>3 DEF NextCharacter, IInv, Tasks, Position, Goto, Cursor, device
  <2> QED BY <2>1, <2>2, <2>3, <2>4 DEF IInv
<1>4. CASE Return(t)
  <2>1. Alone'
    BY <1>0, <1>4, AloneStep DEF Return
  <2>2. Tasks'
    BY <1>0, <1>4 DEF Return, IInv, Tasks, Goto
  <2>3. Devices'
    BY <1>0, <1>4 DEF Return, IInv, Devices, device
  <2>4. Position(running)'
    BY <1>0, <1>4 DEF Return, IInv, Tasks, Position, Goto, Cursor, device
  <2> QED BY <2>1, <2>2, <2>3, <2>4 DEF IInv
<1>5. CASE SelectRegister(t)
  <2>1. Alone'
    BY <1>0, <1>a, <1>5, AloneStep DEF SelectRegister, Selects
  <2>2. Tasks'
    BY <1>0, <1>5 DEF SelectRegister, caller, IInv, Tasks, Goto, HalfWay, Selects, DataAccess
  <2>3. Devices'
    BY <1>0, <1>5 DEF SelectRegister, caller, IInv, Devices, Selects
  <2>4. Position(running)'
    BY <1>0, <1>5 DEF SelectRegister, caller, IInv, Tasks, Position, Goto, Cursor, Selects, DataAccess
  <2> QED BY <2>1, <2>2, <2>3, <2>4 DEF IInv
<1>b. /\ crtc["high"] \in Nat /\ crtc["low"] \in Nat
      /\ crtc["high"] < Byte /\ crtc["low"] < Byte
      /\ crtc["high"] * Byte \in Nat
      /\ Cursor = (crtc["high"] * Byte) + crtc["low"]
  <2>1. crtc["high"] \in Nat /\ crtc["low"] \in Nat
        /\ crtc["high"] < Byte /\ crtc["low"] < Byte
    BY Sizes DEF IInv, Devices
  <2>2. crtc["high"] * Byte \in Nat
    BY <2>1, Sizes, SMT
  <2> QED BY <2>1, <2>2 DEF Cursor
<1>6. CASE ReadHigh(t)
  <2>1. Alone'
    BY <1>0, <1>a, <1>6, AloneStep DEF ReadHigh
  <2>2. crtc["high"] * Byte < Cells
    <3>1. Cursor < Cells
      BY <1>0, <1>6 DEF ReadHigh, IInv, Position
    <3> QED BY <3>1, <1>b, Sizes
  <2>3. bx' = [bx EXCEPT ![t] = crtc["high"] * Byte]
    BY <1>0, <1>6 DEF ReadHigh, IInv, Position
  <2>4. Tasks'
    <3>1. crtc["high"] * Byte \in 0 .. (Cells + Columns - 1)
      BY <2>2, <1>b, Sizes
    <3> QED BY <1>0, <1>6, <2>3, <3>1 DEF ReadHigh, caller, IInv, Tasks, Goto, HalfWay, Selects
  <2>5. Devices'
    BY <1>0, <1>6 DEF ReadHigh, caller, IInv, Devices, device
  <2>6. Position(running)'
    BY <1>0, <1>6, <2>3 DEF ReadHigh, caller, IInv, Tasks, Position, Goto, Cursor, device
  <2> QED BY <2>1, <2>4, <2>5, <2>6 DEF IInv
<1>7. CASE ReadLow(t)
  <2>1. Alone'
    BY <1>0, <1>a, <1>7, AloneStep DEF ReadLow
  <2>2. Cursor < Cells /\ bx[t] + crtc["low"] = Cursor
    BY <1>0, <1>7, <1>b DEF ReadLow, IInv, Position
  <2>3. bx' = [bx EXCEPT ![t] = Cursor]
    BY <1>0, <1>7, <2>2 DEF ReadLow, IInv, Position
  <2>4. Tasks'
    <3>1. Cursor \in 0 .. (Cells + Columns - 1)
      BY <2>2, <1>b, Sizes
    <3> QED BY <1>0, <1>7, <2>3, <3>1 DEF ReadLow, caller, IInv, Tasks, Goto, HalfWay
  <2>5. Devices'
    BY <1>0, <1>7 DEF ReadLow, caller, IInv, Devices, device
  <2>6. Position(running)'
    BY <1>0, <1>7, <2>2, <2>3 DEF ReadLow, caller, IInv, Tasks, Position, Goto, Cursor, device
  <2> QED BY <2>1, <2>4, <2>5, <2>6 DEF IInv
<1>c. pc[t] = "put" => bx[t] \in Nat /\ bx[t] < Cells
  BY <1>0, <1>b, Sizes DEF IInv, Position
<1>8. CASE CarriageReturn(t)
  <2>1. Alone'
    BY <1>0, <1>a, <1>8, AloneStep DEF CarriageReturn
  <2> DEFINE p == (bx[t] \div Columns) * Columns
  <2>2. p \in Nat /\ p < Cells
    <3>1. bx[t] \in Nat /\ bx[t] < Cells
      BY <1>8, <1>c DEF CarriageReturn
    <3>2. bx[t] \div Columns \in Nat /\ bx[t] % Columns \in Nat
          /\ bx[t] = p + (bx[t] % Columns)
      BY <3>1, Divide, Sizes
    <3>3. p \in Nat
      BY <3>2, Sizes, SMT
    <3> HIDE DEF p
    <3> QED BY <3>1, <3>2, <3>3, Sizes
  <2>3. bx' = [bx EXCEPT ![t] = p]
    BY <1>8 DEF CarriageReturn
  <2> HIDE DEF p
  <2>4. Tasks'
    <3>1. p \in 0 .. (Cells + Columns - 1)
      BY <2>2, Sizes
    <3> QED BY <1>0, <1>8, <2>3, <3>1 DEF CarriageReturn, caller, IInv, Tasks, Goto, HalfWay, Selects
  <2>5. Devices'
    BY <1>0, <1>8 DEF CarriageReturn, caller, IInv, Devices, device
  <2>6. Position(running)'
    BY <1>0, <1>8, <2>2, <2>3 DEF CarriageReturn, caller, IInv, Tasks, Position, Goto, Cursor, device
  <2> QED BY <2>1, <2>4, <2>5, <2>6 DEF IInv
<1>9. CASE LineFeed(t)
  <2>1. Alone'
    BY <1>0, <1>a, <1>9, AloneStep DEF LineFeed
  <2>2. bx[t] \in Nat /\ bx[t] < Cells
    BY <1>9, <1>c DEF LineFeed
  <2>3. Tasks'
    <3>1. bx[t] + Columns \in 0 .. (Cells + Columns - 1)
      BY <2>2, Sizes
    <3> QED BY <1>0, <1>9, <3>1 DEF LineFeed, Roll, caller, IInv, Tasks, Goto, HalfWay, Selects
  <2>4. Devices'
    BY <1>0, <1>9 DEF LineFeed, caller, IInv, Devices, device
  <2>5. Position(running)'
    BY <1>0, <1>9, <2>2 DEF LineFeed, Roll, caller, IInv, Tasks, Position, Goto, Cursor, device
  <2> QED BY <2>1, <2>3, <2>4, <2>5 DEF IInv
<1>10. CASE PutOther(t)
  <2>1. Alone'
    BY <1>0, <1>a, <1>10, AloneStep DEF PutOther
  <2>2. bx[t] \in Nat /\ bx[t] < Cells
    BY <1>10, <1>c DEF PutOther
  <2>3. Tasks'
    <3>1. bx[t] + 1 \in 0 .. (Cells + Columns - 1)
      BY <2>2, Sizes
    <3> QED BY <1>0, <1>10, <3>1 DEF PutOther, Roll, caller, IInv, Tasks, Goto, HalfWay, Selects
  <2>4. Devices'
    <3>1. cl[t] \in Printed \cup {Blank}
      BY <1>0, <1>10 DEF PutOther, IInv, Tasks, Printed
    <3>2. video' \in [Video -> Printed \cup {Blank, "hidden"}]
      BY <1>10, <3>1 DEF PutOther, IInv, Devices
    <3> QED BY <1>0, <1>10, <3>2 DEF PutOther, caller, IInv, Devices
  <2>5. Position(running)'
    BY <1>0, <1>10, <2>2 DEF PutOther, Roll, caller, IInv, Tasks, Position, Goto, Cursor
  <2> QED BY <2>1, <2>3, <2>4, <2>5 DEF IInv
<1>11. CASE Scroll(t)
  <2>1. Alone'
    BY <1>0, <1>a, <1>11, AloneStep DEF Scroll
  <2>2. Tasks'
    BY <1>0, <1>11 DEF Scroll, caller, IInv, Tasks, Goto, HalfWay
  <2>3. Devices'
    <3>1. \A p \in Scrolled : p + Columns \in Video
      BY Sizes DEF Scrolled, Video
    <3>2. video' \in [Video -> Printed \cup {Blank, "hidden"}]
      BY <1>11, <3>1 DEF Scroll, IInv, Devices
    <3> QED BY <1>0, <1>11, <3>2 DEF Scroll, caller, IInv, Devices
  <2>4. Position(running)'
    BY <1>0, <1>11 DEF Scroll, caller, IInv, Tasks, Position, Goto, Cursor
  <2> QED BY <2>1, <2>2, <2>3, <2>4 DEF IInv
<1>12. CASE ClearBottom(t)
  <2>1. Alone'
    BY <1>0, <1>a, <1>12, AloneStep DEF ClearBottom
  <2>2. LastRow < Cells /\ LastRow \in 0 .. (Cells + Columns - 1)
    BY Sizes
  <2>3. Tasks'
    BY <1>0, <1>12, <2>2 DEF ClearBottom, caller, IInv, Tasks, Goto, HalfWay, Selects
  <2>4. Devices'
    <3>1. video' \in [Video -> Printed \cup {Blank, "hidden"}]
      BY <1>12 DEF ClearBottom, IInv, Devices
    <3> QED BY <1>0, <1>12, <3>1 DEF ClearBottom, caller, IInv, Devices
  <2>5. Position(running)'
    BY <1>0, <1>12, <2>2 DEF ClearBottom, caller, IInv, Tasks, Position, Goto, Cursor
  <2> QED BY <2>1, <2>3, <2>4, <2>5 DEF IInv
<1>d. bx[t] \in Nat
  <2>1. bx[t] \in 0 .. (Cells + Columns - 1)
    BY <1>0 DEF IInv, Tasks
  <2> QED BY <2>1, Sizes
<1>13. CASE WriteHigh(t)
  <2>1. Alone'
    BY <1>0, <1>a, <1>13, AloneStep DEF WriteHigh
  <2>2. Tasks'
    BY <1>0, <1>13 DEF WriteHigh, caller, IInv, Tasks, Goto, HalfWay, Selects
  <2>3. crtc' = [crtc EXCEPT !["high"] = bx[t] \div Byte]
    BY <1>0, <1>13 DEF WriteHigh, IInv, Position
  <2>4. Devices'
    <3>1. bx[t] \in Nat /\ bx[t] < Cells
      BY <1>0, <1>d, <1>13 DEF WriteHigh, IInv, Position
    <3>2. bx[t] < Byte * Byte
      <4>1. Byte * Byte \in Nat
        BY Sizes, SMT
      <4> QED BY <3>1, <4>1, Sizes
    <3>3. bx[t] \div Byte \in 0 .. (Byte - 1)
      BY <3>1, <3>2, HighByte
    <3> QED BY <1>0, <1>13, <2>3, <3>3 DEF WriteHigh, caller, IInv, Devices
  <2>5. Position(running)'
    BY <1>0, <1>13, <2>3 DEF WriteHigh, caller, IInv, Tasks, Devices, Position, Goto
  <2> QED BY <2>1, <2>2, <2>4, <2>5 DEF IInv
<1>14. CASE WriteLow(t)
  <2>1. Alone'
    BY <1>0, <1>a, <1>14, AloneStep DEF WriteLow
  <2>2. Tasks'
    BY <1>0, <1>14 DEF WriteLow, caller, IInv, Tasks, Goto
  <2>3. /\ crtc' = [crtc EXCEPT !["low"] = bx[t] % Byte]
        /\ bx[t] % Byte \in 0 .. (Byte - 1)
        /\ bx[t] < Cells
        /\ Cursor' = bx[t]
    BY <1>0, <1>14, CursorWritten
  <2>4. Devices'
    BY <1>0, <1>14, <2>3 DEF WriteLow, caller, IInv, Devices
  <2>5. Position(running)'
    BY <1>0, <1>14, <2>3 DEF WriteLow, caller, IInv, Tasks, Position, Goto
  <2> QED BY <2>1, <2>2, <2>4, <2>5 DEF IInv
<1>15. CASE Preempt
  <2>1. \A u \in Task : pc[u] = "idle"
    BY <1>15 DEF Preempt, IInv, Alone
  <2>2. pc' = pc /\ running' \in Task
    BY <1>15 DEF Preempt
  <2>3. Alone'
    BY <2>1, <2>2 DEF Alone
  <2>4. Tasks' /\ Devices'
    BY <1>15 DEF Preempt, device, caller, IInv, Tasks, Devices
  <2>5. Position(running)'
    BY <1>0, <1>15, <2>1 DEF Preempt, device, caller, IInv, Position, Cursor
  <2> QED BY <2>3, <2>4, <2>5 DEF IInv
<1>16. CASE UNCHANGED vars
  BY <1>16 DEF vars, IInv, Alone, Tasks, Devices, Position, Cursor
<1> QED
  BY <1>0, <1>1, <1>2, <1>3, <1>4, <1>5, <1>6, <1>7, <1>8, <1>9, <1>10,
     <1>11, <1>12, <1>13, <1>14, <1>15, <1>16 DEF Next, PutChar

(* The registers keep their ranges: the cursor read from the controller is *)
(* on the screen, wherever put_char is.                                    *)
THEOREM TypeCorrect ==
    ASSUME HexTasks = {}
    PROVE  Spec => []TypeOK
<1>1. Init => IInv
  BY TypeInit
<1>2. IInv /\ [Next]_vars => IInv'
  BY TypeStep
<1>3. IInv => TypeOK
  <2> SUFFICES ASSUME IInv PROVE TypeOK
    OBVIOUS
  <2>1. \A t \in Task : pc[t] \in HalfWay \cup {"idle", "next"}
    BY DEF IInv, Tasks
  <2> QED BY <2>1 DEF IInv, Tasks, Devices, TypeOK, HalfWay
<1> QED BY <1>1, <1>2, <1>3, PTL DEF Spec

(* A string passed to put_string is shown as a whole: no other task is     *)
(* inside put_string or put_hex_dword meanwhile.                           *)
THEOREM Whole ==
    ASSUME HexTasks = {}
    PROVE  Spec => []MessagesAreWhole
<1>1. Init => IInv
  BY TypeInit
<1>2. IInv /\ [Next]_vars => IInv'
  BY TypeStep
<1>3. IInv => MessagesAreWhole
  BY DEF IInv, Alone, MessagesAreWhole
<1> QED BY <1>1, <1>2, <1>3, PTL DEF Spec

-----------------------------------------------------------------------------
(* What is seen of a text memory v with the cursor at p.                   *)
Lines(v) == [r \in 1 .. Rows |->
                [c \in 1 .. Columns |-> v[(r - 1) * Columns + (c - 1)]]]

Seen(v, p) == [lines |-> Lines(v),
               row |-> p \div Columns + 1,
               col |-> (p % Columns) + 1]

AfterScroll(v) == [p \in Video |-> IF p \in Scrolled THEN v[p + Columns] ELSE v[p]]
AfterClear(v) == [p \in Video |-> IF p \in Cleared THEN Blank ELSE v[p]]

(* The screen while task t puts a character on it, and what it will be.    *)
Drawn(t) ==
    /\ pc[t] \in {"idle", "next", "select high", "read high", "select low",
                  "read low", "put"} => Seen(video, Cursor) = screen
    /\ pc[t] = "scroll" =>
         Seen(AfterClear(AfterScroll(video)), LastRow) = Type(screen, cl[t])
    /\ pc[t] = "clear" =>
         Seen(AfterClear(video), LastRow) = Type(screen, cl[t])
    /\ pc[t] \in {"reselect high", "write high", "reselect low", "write low"}
         => Seen(video, bx[t]) = Type(screen, cl[t])

LEMMA ShownIsSeen == Shown = Seen(video, Cursor)
BY DEF Shown, Seen, Lines, Line

(* The row and the column of a cell of the screen.                         *)
LEMMA Place ==
    ASSUME NEW p \in Nat, p < Cells
    PROVE  /\ p \div Columns \in Nat /\ p \div Columns < Rows
           /\ p % Columns \in Nat /\ p % Columns < Columns
           /\ p = ((p \div Columns) * Columns) + (p % Columns)
<1>1. /\ p \div Columns \in Nat
      /\ p % Columns \in Nat /\ p % Columns < Columns
      /\ p = ((p \div Columns) * Columns) + (p % Columns)
  BY Sizes, Divide
<1>2. p \div Columns < Rows
  BY Sizes, QuotientBelow DEF Cells
<1> QED BY <1>1, <1>2

(* The index of the cell in row q and column s, counted from 0.            *)
LEMMA CellIndex ==
    ASSUME NEW q \in Nat, q < Rows, NEW s \in Nat, s < Columns
    PROVE  /\ (q * Columns) + s \in Nat
           /\ (q * Columns) + s < Cells
           /\ q + 1 < Rows => (q * Columns) + s < LastRow
           /\ q + 1 = Rows => (q * Columns) + s >= LastRow
           /\ ((q * Columns) + s) + Columns = ((q + 1) * Columns) + s
<1>1. PICK k \in Nat : Rows = q + 1 + k
  <2>1. Rows - q - 1 \in Nat /\ Rows = q + 1 + (Rows - q - 1)
    BY Sizes
  <2> QED BY <2>1
<1>2. /\ Cells = (q * Columns) + Columns + (k * Columns)
      /\ LastRow = (q * Columns) + (k * Columns)
      /\ (q + 1) * Columns = (q * Columns) + Columns
  <2>1. Rows - 1 = q + k
    BY <1>1
  <2>2. Cells = (q + 1 + k) * Columns /\ LastRow = (q + k) * Columns
    BY <1>1, <2>1 DEF Cells, LastRow
  <2> QED BY <2>2, Sizes, SMT
<1>3. q * Columns \in Nat /\ k * Columns \in Nat
  BY Sizes, SMT
<1>4. q + 1 < Rows => k * Columns >= Columns
  <2> SUFFICES ASSUME q + 1 < Rows PROVE k * Columns >= Columns
    OBVIOUS
  <2>1. k - 1 \in Nat
    BY <1>1
  <2>2. k * Columns = ((k - 1) * Columns) + Columns /\ (k - 1) * Columns \in Nat
    BY <2>1, Sizes, SMT
  <2> QED BY <2>2, Sizes
<1>5. q + 1 = Rows => k = 0
  BY <1>1, Sizes
<1>6. k = 0 => k * Columns = 0
  BY Sizes
<1> QED BY <1>2, <1>3, <1>4, <1>5, <1>6, Sizes

-----------------------------------------------------------------------------
(* Each way through put_char does what the terminal does.                  *)

LEMMA TypeReturn ==
    ASSUME NEW t
    PROVE  Type(t, CR) = [t EXCEPT !.col = 1]
BY DEF Type, CR, LF

LEMMA TypeFeed ==
    ASSUME NEW t
    PROVE  Type(t, LF) = NextLine(t, t.col)
BY DEF Type, CR, LF

LEMMA TypeOther ==
    ASSUME NEW t, NEW char, char # CR, char # LF
    PROVE  Type(t, char) = IF t.col < Columns
                           THEN [Written(t, char) EXCEPT !.col = @ + 1]
                           ELSE NextLine(Written(t, char), 1)
BY DEF Type, CR, LF

LEMMA DrawReturn ==
    ASSUME NEW v, NEW p \in Nat, p < Cells
    PROVE  Seen(v, (p \div Columns) * Columns) = Type(Seen(v, p), CR)
<1> DEFINE q == p \div Columns
<1>1. q \in Nat
  BY Place
<1>2. q * Columns \in Nat
  BY <1>1, Sizes, SMT
<1>3. ((q * Columns) + 0) \div Columns = q /\ ((q * Columns) + 0) % Columns = 0
  BY <1>1, Unique, Sizes
<1>4. (q * Columns) \div Columns = q /\ (q * Columns) % Columns = 0
  BY <1>2, <1>3
<1>5. Type(Seen(v, p), CR) = [Seen(v, p) EXCEPT !.col = 1]
  BY TypeReturn
<1> HIDE DEF q
<1>6. Seen(v, q * Columns) = [lines |-> Lines(v), row |-> q + 1, col |-> 1]
  BY <1>4 DEF Seen
<1>7. Seen(v, p) = [lines |-> Lines(v), row |-> q + 1, col |-> (p % Columns) + 1]
  BY DEF Seen, q
<1>8. Seen(v, q * Columns) = Type(Seen(v, p), CR)
  BY <1>5, <1>6, <1>7
<1> QED BY <1>8 DEF q

(* The terminal's next line, above the last line and on it.                *)
LEMMA DrawNext ==
    ASSUME NEW L, NEW q \in Nat, q + 1 < Rows, NEW col, NEW to
    PROVE  NextLine([lines |-> L, row |-> q + 1, col |-> col], to)
             = [lines |-> L, row |-> q + 2, col |-> to]
<1> DEFINE t == [lines |-> L, row |-> q + 1, col |-> col]
<1>1. t.row < Rows
  BY Sizes
<1>2. NextLine(t, to) = [t EXCEPT !.row = @ + 1, !.col = to]
  BY <1>1 DEF NextLine
<1>3. (q + 1) + 1 = q + 2
  OBVIOUS
<1> QED BY <1>2, <1>3

LEMMA DrawLast ==
    ASSUME NEW L, NEW col, NEW to
    PROVE  NextLine([lines |-> L, row |-> Rows, col |-> col], to)
             = [lines |-> Append(Tail(L), BlankLine), row |-> Rows, col |-> 1]
<1>1. ~(Rows < Rows)
  BY Sizes
<1> QED BY <1>1 DEF NextLine

(* Scrolling drops the first line and leaves a blank one below.            *)
LEMMA DrawScroll ==
    ASSUME NEW v, DOMAIN v = Video
    PROVE  Seen(AfterClear(AfterScroll(v)), LastRow)
             = [lines |-> Append(Tail(Lines(v)), BlankLine),
                row |-> Rows, col |-> 1]
<1> DEFINE w == AfterClear(AfterScroll(v))
           L == Lines(v)
<1>1. LastRow \div Columns = Rows - 1 /\ LastRow % Columns = 0
  <2>1. Rows - 1 \in Nat
    BY Sizes
  <2>2. /\ (((Rows - 1) * Columns) + 0) \div Columns = Rows - 1
        /\ (((Rows - 1) * Columns) + 0) % Columns = 0
    BY <2>1, Unique, Sizes
  <2>3. ((Rows - 1) * Columns) + 0 = LastRow
    BY Sizes DEF LastRow
  <2> QED BY <2>2, <2>3
<1>2. Lines(w) = Append(Tail(L), BlankLine)
  <2> DEFINE A == Append(Tail(L), BlankLine)
             S == {BlankLine} \cup { L[r] : r \in 1 .. Rows }
  <2>1. L \in Seq(S) /\ Len(L) = Rows
    <3>1. L \in [1 .. Rows -> S]
      BY DEF Lines
    <3> HIDE DEF L, S
    <3> QED BY <3>1, Sizes
  <2>2. /\ A \in Seq(S) /\ Len(A) = Rows
        /\ \A r \in 1 .. Rows : A[r] = IF r = Rows THEN BlankLine ELSE L[r + 1]
    <3>1. BlankLine \in S
      OBVIOUS
    <3> HIDE DEF L, S
    <3>2. L # << >>
      BY <2>1, Sizes
    <3>3. /\ Tail(L) \in Seq(S) /\ Len(Tail(L)) = Rows - 1
          /\ \A r \in 1 .. (Rows - 1) : Tail(L)[r] = L[r + 1]
      BY <2>1, <3>2, Sizes
    <3>4. A \in Seq(S) /\ Len(A) = Rows
      BY <3>1, <3>3, Sizes
    <3>5. ASSUME NEW r \in 1 .. Rows
          PROVE  A[r] = IF r = Rows THEN BlankLine ELSE L[r + 1]
      <4>1. CASE r = Rows
        BY <4>1, <3>3, <3>1, Sizes
      <4>2. CASE r # Rows
        <5>1. r \in 1 .. (Rows - 1)
          BY <4>2, Sizes
        <5>2. A[r] = Tail(L)[r]
          BY <5>1, <3>3, <3>1, Sizes
        <5> QED BY <4>2, <5>1, <5>2, <3>3
      <4> QED BY <4>1, <4>2
    <3> QED BY <3>4, <3>5
  <2>3. ASSUME NEW r \in 1 .. Rows
        PROVE  Lines(w)[r] = IF r = Rows THEN BlankLine ELSE L[r + 1]
    <3>1. Lines(w)[r] = [c \in 1 .. Columns |-> w[(r - 1) * Columns + (c - 1)]]
      BY DEF Lines
    <3>2. r - 1 \in Nat /\ r - 1 < Rows /\ (r - 1) + 1 = r
      BY Sizes
    <3>3. CASE r = Rows
      <4>1. ASSUME NEW c \in 1 .. Columns
            PROVE  w[(r - 1) * Columns + (c - 1)] = Blank
        <5> DEFINE i == (r - 1) * Columns + (c - 1)
        <5>1. c - 1 \in Nat /\ c - 1 < Columns
          BY Sizes
        <5>2. i \in Nat /\ i < Cells /\ i >= LastRow
          BY <3>2, <3>3, <5>1, CellIndex
        <5> HIDE DEF i
        <5>3. i \in Cleared /\ i \in Video
          BY <5>2, Sizes DEF Cleared, Video
        <5>4. w[i] = Blank
          BY <5>3 DEF AfterClear
        <5> QED BY <5>4 DEF i
      <4> HIDE DEF w
      <4> QED BY <3>1, <3>3, <4>1 DEF BlankLine
    <3>4. CASE r # Rows
      <4>1. ASSUME NEW c \in 1 .. Columns
            PROVE  w[(r - 1) * Columns + (c - 1)] = v[((r + 1) - 1) * Columns + (c - 1)]
        <5> DEFINE i == (r - 1) * Columns + (c - 1)
        <5>1. c - 1 \in Nat /\ c - 1 < Columns /\ r < Rows
          BY <3>4, Sizes
        <5>2. /\ i \in Nat /\ i < LastRow
              /\ i + Columns = (((r - 1) + 1) * Columns) + (c - 1)
          BY <3>2, <5>1, CellIndex
        <5>3. (r - 1) + 1 = (r + 1) - 1
          OBVIOUS
        <5>4. i + Columns = ((r + 1) - 1) * Columns + (c - 1)
          BY <5>2, <5>3
        <5> HIDE DEF i
        <5>5. i \notin Cleared /\ i \in Scrolled /\ i \in Video
          BY <5>2, Sizes DEF Cleared, Scrolled, Video
        <5>6. w[i] = v[i + Columns]
          BY <5>5 DEF AfterClear, AfterScroll
        <5> QED BY <5>4, <5>6 DEF i
      <4>2. r + 1 \in 1 .. Rows
        BY <3>4, Sizes
      <4>3. L[r + 1] = [c \in 1 .. Columns |-> v[((r + 1) - 1) * Columns + (c - 1)]]
        BY <4>2 DEF Lines
      <4> HIDE DEF w, L
      <4> QED BY <3>1, <3>4, <4>1, <4>3
    <3> QED BY <3>3, <3>4
  <2>4. Lines(w) = [r \in 1 .. Rows |-> Lines(w)[r]]
    BY DEF Lines
  <2>5. A = [r \in 1 .. Rows |-> A[r]]
    <3> HIDE DEF A, S
    <3> QED BY <2>2, Sizes
  <2> DEFINE W == Lines(w)
  <2>6. \A r \in 1 .. Rows : W[r] = A[r]
    <3> HIDE DEF A, w, L, S
    <3> QED BY <2>2, <2>3
  <2>7. W = [r \in 1 .. Rows |-> W[r]]
    BY <2>4
  <2> HIDE DEF A, W
  <2>8. W = A
    BY <2>5, <2>6, <2>7
  <2> QED BY <2>8 DEF A, W
<1>3. (Rows - 1) + 1 = Rows /\ 0 + 1 = 1
  BY Sizes
<1> HIDE DEF w, L
<1>4. Seen(w, LastRow) = [lines |-> Lines(w), row |-> Rows, col |-> 1]
  BY <1>1, <1>3 DEF Seen
<1> QED BY <1>2, <1>4 DEF w, L

(* A character in the cell at p.                                           *)
LEMMA DrawCharacter ==
    ASSUME NEW v, DOMAIN v = Video, NEW p \in Nat, p < Cells, NEW char
    PROVE  [lines |-> Lines([i \in Video |-> IF i = p THEN char ELSE v[i]]),
            row |-> p \div Columns + 1, col |-> (p % Columns) + 1]
             = Written(Seen(v, p), char)
<1> DEFINE w == [i \in Video |-> IF i = p THEN char ELSE v[i]]
           q == p \div Columns
           s == p % Columns
           L == Lines(v)
           M == [L EXCEPT ![q + 1] = [@ EXCEPT ![s + 1] = char]]
<1>1. /\ q \in Nat /\ q < Rows /\ s \in Nat /\ s < Columns
      /\ p = (q * Columns) + s
  BY Place
<1>2. ASSUME NEW r \in 1 .. Rows, NEW c \in 1 .. Columns
      PROVE  w[(r - 1) * Columns + (c - 1)] = M[r][c]
  <2> DEFINE i == (r - 1) * Columns + (c - 1)
  <2>1. /\ r - 1 \in Nat /\ r - 1 < Rows
        /\ c - 1 \in Nat /\ c - 1 < Columns
    BY Sizes
  <2>2. i \in Nat /\ i < Cells
    BY <2>1, CellIndex
  <2>3. i \div Columns = r - 1 /\ i % Columns = c - 1
    BY <2>1, Unique, Sizes
  <2>4. L[r][c] = v[i]
    BY DEF Lines
  <2>5. i \in Video
    <3> HIDE DEF i
    <3> QED BY <2>2, Sizes DEF Video
  <2>6. w[i] = IF i = p THEN char ELSE v[i]
    <3> HIDE DEF i
    <3> QED BY <2>5
  <2>7. i = p <=> r = q + 1 /\ c = s + 1
    <3>1. i = p => r - 1 = q /\ c - 1 = s
      BY <2>3
    <3>2. r - 1 = q /\ c - 1 = s => i = p
      BY <1>1
    <3>3. (r - 1 = q <=> r = q + 1) /\ (c - 1 = s <=> c = s + 1)
      <4> HIDE DEF q, s
      <4> QED BY <1>1
    <3> QED BY <3>1, <3>2, <3>3
  <2>8. M[r][c] = IF r = q + 1 /\ c = s + 1 THEN char ELSE L[r][c]
    <3>1. DOMAIN L = 1 .. Rows /\ DOMAIN L[r] = 1 .. Columns
      BY DEF Lines
    <3> HIDE DEF L, q, s
    <3> QED BY <3>1
  <2> HIDE DEF i, w, M, L, q, s
  <2>9. w[i] = M[r][c]
    BY <2>4, <2>6, <2>7, <2>8
  <2> QED BY <2>9 DEF i
<1>3. Lines(w) = M
  <2>1. /\ DOMAIN L = 1 .. Rows
        /\ \A r \in 1 .. Rows : L[r] = [c \in 1 .. Columns |-> L[r][c]]
    BY DEF Lines
  <2>2. /\ M = [r \in 1 .. Rows |-> M[r]]
        /\ \A r \in 1 .. Rows : M[r] = [c \in 1 .. Columns |-> M[r][c]]
    <3> HIDE DEF L, q, s
    <3> QED BY <2>1
  <2>3. ASSUME NEW r \in 1 .. Rows
        PROVE  Lines(w)[r] = M[r]
    <3>1. Lines(w)[r] = [c \in 1 .. Columns |-> w[(r - 1) * Columns + (c - 1)]]
      BY DEF Lines
    <3> HIDE DEF w, M
    <3> QED BY <1>2, <2>2, <3>1
  <2> DEFINE W == Lines(w)
  <2>4. W = [r \in 1 .. Rows |-> W[r]]
    BY DEF Lines
  <2> HIDE DEF M
  <2>5. \A r \in 1 .. Rows : W[r] = M[r]
    BY <2>3
  <2> HIDE DEF W
  <2>6. W = M
    BY <2>2, <2>4, <2>5
  <2> QED BY <2>6 DEF W
<1>4. Written(Seen(v, p), char) = [lines |-> M, row |-> q + 1, col |-> s + 1]
  <2>1. Seen(v, p) = [lines |-> L, row |-> q + 1, col |-> s + 1]
    BY DEF Seen
  <2> HIDE DEF L, q, s
  <2> QED BY <2>1 DEF Written
<1> HIDE DEF w, M, q, s
<1>5. [lines |-> Lines(w), row |-> q + 1, col |-> s + 1] = Written(Seen(v, p), char)
  BY <1>3, <1>4
<1> QED BY <1>5 DEF w, q, s

LEMMA DrawFeed ==
    ASSUME NEW v, DOMAIN v = Video, NEW p \in Nat, p < Cells
    PROVE  /\ p + Columns < Cells =>
                Seen(v, p + Columns) = Type(Seen(v, p), LF)
           /\ ~(p + Columns < Cells) =>
                Seen(AfterClear(AfterScroll(v)), LastRow) = Type(Seen(v, p), LF)
<1> DEFINE q == p \div Columns
           s == p % Columns
           t == [lines |-> Lines(v), row |-> q + 1, col |-> s + 1]
<1>1. /\ q \in Nat /\ q < Rows /\ s \in Nat /\ s < Columns
      /\ p = (q * Columns) + s
  BY Place
<1>2. Seen(v, p) = t
  BY DEF Seen
<1> HIDE DEF q, s
<1>3. Type(t, LF) = NextLine(t, s + 1)
  BY TypeFeed
<1>4. p + Columns = ((q + 1) * Columns) + s
  BY <1>1, CellIndex
<1>5. /\ (p + Columns) \div Columns = q + 1
      /\ (p + Columns) % Columns = s
  BY <1>1, <1>4, Unique, Sizes
<1>6. CASE p + Columns < Cells
  <2>1. q + 1 < Rows
    <3>1. p + Columns \in Nat
      BY Sizes
    <3>2. (p + Columns) \div Columns < Rows
      BY <1>6, <3>1, Place
    <3> QED BY <1>5, <3>2
  <2>2. NextLine(t, s + 1) = [lines |-> Lines(v), row |-> q + 2, col |-> s + 1]
    BY <1>1, <2>1, DrawNext
  <2>3. Seen(v, p + Columns) = [lines |-> Lines(v), row |-> (q + 1) + 1, col |-> s + 1]
    BY <1>5 DEF Seen
  <2>4. (q + 1) + 1 = q + 2
    BY <1>1
  <2> QED BY <1>2, <1>3, <1>6, <2>2, <2>3, <2>4
<1>7. CASE ~(p + Columns < Cells)
  <2>1. q + 1 = Rows
    <3>1. q + 1 < Rows => p < LastRow
      BY <1>1, CellIndex
    <3>2. ~(p < LastRow)
      BY <1>7, Sizes
    <3> QED BY <1>1, <3>1, <3>2, Sizes
  <2>2. NextLine(t, s + 1) = [lines |-> Append(Tail(Lines(v)), BlankLine),
                              row |-> Rows, col |-> 1]
    BY <2>1, DrawLast
  <2> QED BY <1>2, <1>3, <1>7, <2>2, DrawScroll
<1> QED BY <1>6, <1>7

LEMMA DrawOther ==
    ASSUME NEW v, DOMAIN v = Video, NEW p \in Nat, p < Cells,
           NEW char, char # CR, char # LF,
           NEW w, w = [i \in Video |-> IF i = p THEN char ELSE v[i]]
    PROVE  /\ p + 1 < Cells => Seen(w, p + 1) = Type(Seen(v, p), char)
           /\ ~(p + 1 < Cells) =>
                Seen(AfterClear(AfterScroll(w)), LastRow) = Type(Seen(v, p), char)
<1> DEFINE q == p \div Columns
           s == p % Columns
           W == Lines(w)
           t == [lines |-> W, row |-> q + 1, col |-> s + 1]
<1>1. /\ q \in Nat /\ q < Rows /\ s \in Nat /\ s < Columns
      /\ p = (q * Columns) + s
  BY Place
<1>2. Written(Seen(v, p), char) = t
  BY DrawCharacter
<1>3. Seen(v, p).col = s + 1
  BY DEF Seen
<1> HIDE DEF q, s, W
<1>4. Type(Seen(v, p), char) = IF s + 1 < Columns
                               THEN [t EXCEPT !.col = @ + 1]
                               ELSE NextLine(t, 1)
  BY <1>2, <1>3, TypeOther
<1>5. DOMAIN w = Video
  OBVIOUS
<1>6. CASE s + 1 < Columns
  <2>1. p + 1 = (q * Columns) + (s + 1) /\ s + 1 \in Nat
    <3>1. q * Columns \in Nat
      BY <1>1, Sizes, SMT
    <3> QED BY <1>1, <3>1
  <2>2. (p + 1) \div Columns = q /\ (p + 1) % Columns = s + 1
    BY <1>1, <1>6, <2>1, Unique, Sizes
  <2>3. p + 1 < Cells
    BY <1>1, <1>6, <2>1, CellIndex
  <2>4. [t EXCEPT !.col = @ + 1] = [lines |-> W, row |-> q + 1, col |-> (s + 1) + 1]
    OBVIOUS
  <2>5. Seen(w, p + 1) = [lines |-> W, row |-> q + 1, col |-> (s + 1) + 1]
    BY <2>2 DEF Seen, W
  <2> QED BY <1>4, <1>6, <2>3, <2>4, <2>5
<1>7. CASE ~(s + 1 < Columns)
  <2>1. p + 1 = ((q + 1) * Columns) + 0
    <3>1. s + 1 = Columns
      BY <1>1, <1>7, Sizes
    <3>2. (q + 1) * Columns = (q * Columns) + Columns /\ q * Columns \in Nat
      BY <1>1, Sizes, SMT
    <3> QED BY <1>1, <3>1, <3>2
  <2>2. (p + 1) \div Columns = q + 1 /\ (p + 1) % Columns = 0
    BY <1>1, <2>1, Unique, Sizes
  <2>3. CASE p + 1 < Cells
    <3>1. q + 1 < Rows
      <4>1. (p + 1) \div Columns < Rows
        BY <2>3, Place
      <4> QED BY <2>2, <4>1
    <3>2. NextLine(t, 1) = [lines |-> W, row |-> q + 2, col |-> 1]
      BY <1>1, <3>1, DrawNext
    <3>3. Seen(w, p + 1) = [lines |-> W, row |-> (q + 1) + 1, col |-> 0 + 1]
      BY <2>2 DEF Seen, W
    <3>4. (q + 1) + 1 = q + 2 /\ 0 + 1 = 1
      BY <1>1
    <3> QED BY <1>4, <1>7, <2>3, <3>2, <3>3, <3>4
  <2>4. CASE ~(p + 1 < Cells)
    <3>1. q + 1 = Rows
      <4>1. q + 1 < Rows => p < LastRow
        BY <1>1, CellIndex
      <4>2. ~(p < LastRow)
        BY <2>4, Sizes
      <4> QED BY <1>1, <4>1, <4>2, Sizes
    <3>2. NextLine(t, 1) = [lines |-> Append(Tail(W), BlankLine),
                            row |-> Rows, col |-> 1]
      BY <3>1, DrawLast
    <3> QED BY <1>4, <1>5, <1>7, <2>4, <3>2, DrawScroll DEF W
  <2> QED BY <2>3, <2>4
<1> QED BY <1>6, <1>7

-----------------------------------------------------------------------------
LEMMA DrawnInit == Init => Drawn(running)
BY ShownIsSeen DEF Init, Drawn

LEMMA DrawnStep ==
    ASSUME HexTasks = {}
    PROVE  IInv /\ Drawn(running) /\ [Next]_vars => Drawn(running)'
<1> SUFFICES ASSUME IInv, Drawn(running), [Next]_vars PROVE Drawn(running)'
  OBVIOUS
<1> DEFINE t == running
<1>0. t \in Task /\ t = running
  BY DEF IInv, Devices
<1> HIDE DEF t
<1>a. DOMAIN video = Video
  BY DEF IInv, Devices
<1>b. ASSUME pc[t] = "put"
      PROVE  /\ bx[t] \in Nat /\ bx[t] < Cells
             /\ Seen(video, bx[t]) = screen
  <2>1. bx[t] = Cursor /\ Cursor < Cells /\ Seen(video, Cursor) = screen
    BY <1>0, <1>b DEF IInv, Position, Drawn
  <2>2. bx[t] \in 0 .. (Cells + Columns - 1)
    BY <1>0 DEF IInv, Tasks
  <2> QED BY <2>1, <2>2, Sizes
<1>1. CASE PutString(t) \/ PutHexDword(t) \/ NextCharacter(t) \/ Return(t)
  BY <1>0, <1>1 DEF PutString, PutHexDword, NextCharacter, Return, device,
                    IInv, Tasks, Drawn, Goto, Cursor, Seen
<1>2. CASE SelectRegister(t)
  BY <1>0, <1>2 DEF SelectRegister, caller, IInv, Tasks, Drawn, Goto, Cursor,
                    Selects, DataAccess
<1>3. CASE ReadHigh(t) \/ ReadLow(t)
  BY <1>0, <1>3 DEF ReadHigh, ReadLow, caller, device, IInv, Tasks, Drawn, Goto, Cursor
<1>4. CASE CarriageReturn(t)
  <2>1. /\ pc[t] = "put" /\ cl[t] = CR
        /\ pc' = [pc EXCEPT ![t] = "reselect high"]
        /\ bx' = [bx EXCEPT ![t] = (@ \div Columns) * Columns]
        /\ UNCHANGED <<video, running, cl, screen>>
    BY <1>4 DEF CarriageReturn, Goto, device, caller
  <2>2. Seen(video, (bx[t] \div Columns) * Columns) = Type(screen, CR)
    BY <1>b, <2>1, DrawReturn
  <2>3. /\ running' = t /\ pc'[t] = "reselect high" /\ cl'[t] = CR
        /\ bx'[t] = (bx[t] \div Columns) * Columns
    BY <1>0, <2>1 DEF IInv, Tasks
  <2> QED BY <2>1, <2>2, <2>3 DEF Drawn
<1>5. CASE LineFeed(t)
  <2>1. /\ pc[t] = "put" /\ cl[t] = LF
        /\ pc' = [pc EXCEPT ![t] = Roll(bx[t] + Columns)]
        /\ bx' = [bx EXCEPT ![t] = @ + Columns]
        /\ UNCHANGED <<video, running, cl, screen>>
    BY <1>5 DEF LineFeed, Goto, device, caller
  <2>2. /\ running' = t /\ pc'[t] = Roll(bx[t] + Columns) /\ cl'[t] = LF
        /\ bx'[t] = bx[t] + Columns
    BY <1>0, <2>1 DEF IInv, Tasks
  <2>3. CASE bx[t] + Columns < Cells
    <3>1. Seen(video, bx[t] + Columns) = Type(screen, LF)
      BY <1>a, <1>b, <2>1, <2>3, DrawFeed
    <3>2. pc'[t] = "reselect high"
      BY <2>2, <2>3 DEF Roll
    <3> QED BY <2>1, <2>2, <3>1, <3>2 DEF Drawn
  <2>4. CASE ~(bx[t] + Columns < Cells)
    <3>1. Seen(AfterClear(AfterScroll(video)), LastRow) = Type(screen, LF)
      BY <1>a, <1>b, <2>1, <2>4, DrawFeed
    <3>2. pc'[t] = "scroll"
      BY <2>2, <2>4 DEF Roll
    <3> QED BY <2>1, <2>2, <3>1, <3>2 DEF Drawn
  <2> QED BY <2>3, <2>4
<1>6. CASE PutOther(t)
  <2>1. /\ pc[t] = "put" /\ cl[t] # CR /\ cl[t] # LF
        /\ video' = [p \in Video |-> IF p = bx[t] THEN cl[t] ELSE video[p]]
        /\ pc' = [pc EXCEPT ![t] = Roll(bx[t] + 1)]
        /\ bx' = [bx EXCEPT ![t] = @ + 1]
        /\ UNCHANGED <<running, cl, screen>>
    BY <1>6 DEF PutOther, Goto, caller
  <2>2. /\ running' = t /\ pc'[t] = Roll(bx[t] + 1) /\ cl'[t] = cl[t]
        /\ bx'[t] = bx[t] + 1
    BY <1>0, <2>1 DEF IInv, Tasks
  <2>3. CASE bx[t] + 1 < Cells
    <3>1. Seen(video', bx[t] + 1) = Type(screen, cl[t])
      BY <1>a, <1>b, <2>1, <2>3, DrawOther
    <3>2. pc'[t] = "reselect high"
      BY <2>2, <2>3 DEF Roll
    <3> QED BY <2>1, <2>2, <3>1, <3>2 DEF Drawn
  <2>4. CASE ~(bx[t] + 1 < Cells)
    <3>1. Seen(AfterClear(AfterScroll(video')), LastRow) = Type(screen, cl[t])
      BY <1>a, <1>b, <2>1, <2>4, DrawOther
    <3>2. pc'[t] = "scroll"
      BY <2>2, <2>4 DEF Roll
    <3> QED BY <2>1, <2>2, <3>1, <3>2 DEF Drawn
  <2> QED BY <2>3, <2>4
<1>7. CASE Scroll(t)
  <2>1. /\ pc[t] = "scroll" /\ video' = AfterScroll(video)
        /\ pc' = [pc EXCEPT ![t] = "clear"]
        /\ UNCHANGED <<running, cl, screen>>
    BY <1>7 DEF Scroll, AfterScroll, Goto, caller
  <2>2. running' = t /\ pc'[t] = "clear" /\ cl'[t] = cl[t]
    BY <1>0, <2>1 DEF IInv, Tasks
  <2> QED BY <1>0, <2>1, <2>2 DEF Drawn
<1>8. CASE ClearBottom(t)
  <2>1. /\ pc[t] = "clear" /\ video' = AfterClear(video)
        /\ pc' = [pc EXCEPT ![t] = "reselect high"]
        /\ bx' = [bx EXCEPT ![t] = LastRow]
        /\ UNCHANGED <<running, cl, screen>>
    BY <1>8 DEF ClearBottom, AfterClear, Goto, caller
  <2>2. /\ running' = t /\ pc'[t] = "reselect high" /\ cl'[t] = cl[t]
        /\ bx'[t] = LastRow
    BY <1>0, <2>1 DEF IInv, Tasks
  <2> QED BY <1>0, <2>1, <2>2 DEF Drawn
<1>9. CASE WriteHigh(t)
  BY <1>0, <1>9 DEF WriteHigh, caller, IInv, Tasks, Drawn, Goto
<1>10. CASE WriteLow(t)
  <2>1. /\ pc[t] = "write low" /\ pc' = [pc EXCEPT ![t] = "next"]
        /\ screen' = Type(screen, cl[t])
        /\ UNCHANGED <<video, running>>
        /\ Seen(video, bx[t]) = Type(screen, cl[t])
    BY <1>0, <1>10 DEF WriteLow, Goto, Drawn
  <2>2. running' = t /\ pc'[t] = "next"
    BY <1>0, <2>1 DEF IInv, Tasks
  <2>3. Cursor' = bx[t]
    BY <1>0, <1>10, CursorWritten
  <2> QED BY <2>1, <2>2, <2>3 DEF Drawn
<1>11. CASE Preempt
  <2>1. \A u \in Task : pc[u] = "idle"
    BY <1>11 DEF Preempt, IInv, Alone
  <2> QED BY <1>0, <1>11, <2>1 DEF Preempt, device, caller, Drawn, Cursor
<1>12. CASE UNCHANGED vars
  BY <1>12 DEF vars, Drawn, Cursor
<1> QED
  BY <1>0, <1>1, <1>2, <1>3, <1>4, <1>5, <1>6, <1>7, <1>8, <1>9, <1>10,
     <1>11, <1>12 DEF Next, PutChar

(* What one sees is what was typed: whenever no task is inside put_char,   *)
(* the visible memory and the cursor are those of the terminal.            *)
THEOREM Faithful ==
    ASSUME HexTasks = {}
    PROVE  Spec => []ScreenAsTyped
<1> DEFINE Inv == IInv /\ Drawn(running)
<1>1. Init => Inv
  BY TypeInit, DrawnInit
<1>2. Inv /\ [Next]_vars => Inv'
  BY TypeStep, DrawnStep
<1>3. Inv => ScreenAsTyped
  BY ShownIsSeen DEF IInv, Devices, Drawn, ScreenAsTyped
<1> HIDE DEF Inv
<1> QED BY <1>1, <1>2, <1>3, PTL DEF Spec

-----------------------------------------------------------------------------
(* What was printed stays.                                                 *)

(* Every return of the carriage is followed by a line feed, as in all the  *)
(* strings of the kernel and of the programs; what they show is told apart *)
(* from cells nobody has written.                                          *)
LinesEnd(s) == \A i \in 1 .. Len(s) : s[i] = CR => i < Len(s) /\ s[i + 1] = LF

TextAssumption ==
    /\ \A s \in Messages \cup Numbers : LinesEnd(s)
    /\ Blank \notin Characters /\ "hidden" \notin Characters

(* In memory v nothing is written from cell p on, nor behind the screen.   *)
Bare(v, p) == \A q \in Video : q >= p => v[q] \notin Printed

LineEnd(p) == (p \div Columns) * Columns + Columns

FeedFollows(s) == s # << >> /\ Head(s) = LF

(* Text ends at the cursor, also while put_char moves it; only after a     *)
(* return of the carriage, with the line feed still to come, it ends with  *)
(* the line.                                                               *)
Ahead(t) ==
    /\ Bare(video, Cells)
    /\ pc[t] # "idle" => LinesEnd(rest[t])
    /\ pc[t] \in HalfWay /\ cl[t] = CR => FeedFollows(rest[t])
    /\ pc[t] = "idle" => Bare(video, Cursor)
    /\ pc[t] = "next" => \/ Bare(video, Cursor)
                         \/ FeedFollows(rest[t]) /\ Bare(video, LineEnd(Cursor))
    /\ pc[t] \in {"select high", "read high", "select low", "read low", "put"} =>
         Bare(video, IF cl[t] = LF THEN LineEnd(Cursor) ELSE Cursor)
    /\ pc[t] = "clear" => Bare(video, LastRow)
    /\ pc[t] \in {"reselect high", "write high", "reselect low", "write low"} =>
         Bare(video, IF cl[t] = CR THEN LineEnd(bx[t]) ELSE bx[t])

LEMMA BareFurther ==
    ASSUME NEW v, NEW p \in Nat, NEW q \in Nat, p <= q, Bare(v, p)
    PROVE  Bare(v, q)
<1>1. \A r \in Video : r \in Nat \/ r \in Int
  BY Sizes DEF Video
<1> QED BY <1>1, Sizes DEF Bare, Video

LEMMA LineEndIs ==
    ASSUME NEW p \in Nat
    PROVE  /\ LineEnd(p) \in Nat /\ p <= LineEnd(p) /\ LineEnd(p) <= p + Columns
           /\ (p \div Columns) * Columns \in Nat
           /\ LineEnd((p \div Columns) * Columns) = LineEnd(p)
<1>1. PICK q \in Nat, r \in Nat : q = p \div Columns /\ r < Columns /\ p = q * Columns + r
  BY Sizes, Divide
<1>2. PICK m \in Nat : m = q * Columns
  BY <1>1, Sizes
<1>3. LineEnd(p) = m + Columns /\ p = m + r
  BY <1>1, <1>2 DEF LineEnd
<1>4. (q * Columns + 0) \div Columns = q
  BY <1>1, Sizes, Unique
<1>5. m \div Columns = q
  BY <1>2, <1>4
<1>6. LineEnd(m) = m + Columns
  BY <1>2, <1>5 DEF LineEnd
<1> QED BY <1>1, <1>2, <1>3, <1>6, Sizes

LEMMA TailEnds ==
    ASSUME NEW s \in Seq(Characters), s # << >>, LinesEnd(s)
    PROVE  LinesEnd(Tail(s)) /\ (Head(s) = CR => FeedFollows(Tail(s)))
<1> DEFINE n == Len(s)
           t == Tail(s)
<1>1. /\ n \in Nat /\ n >= 1 /\ t \in Seq(Characters) /\ Len(t) = n - 1
      /\ Head(s) = s[1] /\ \A i \in 1 .. n - 1 : t[i] = s[i + 1]
  OBVIOUS
<1>2. \A i \in 1 .. n : s[i] = CR => i < n /\ s[i + 1] = LF
  BY DEF LinesEnd
<1>3. t \in Seq(Characters) /\ Len(t) = n - 1
  BY <1>1
<1> HIDE DEF n, t
<1>4. n > 1 => t # << >> /\ Head(t) = t[1]
  BY <1>1, <1>3
<1>5. ASSUME NEW i \in 1 .. Len(t), t[i] = CR
      PROVE  i < Len(t) /\ t[i + 1] = LF
  <2>1. i \in Nat /\ i + 1 \in 1 .. n /\ s[i + 1] = CR
    BY <1>1, <1>5
  <2>2. i + 1 < n /\ s[(i + 1) + 1] = LF
    BY <1>2, <2>1
  <2>3. i + 1 \in 1 .. n - 1
    BY <1>1, <2>1, <2>2
  <2> QED BY <1>1, <2>1, <2>2, <2>3
<1>6. LinesEnd(t)
  BY <1>5 DEF LinesEnd
<1>7. ASSUME Head(s) = CR PROVE FeedFollows(t)
  <2>1. 1 < n /\ s[1 + 1] = LF
    BY <1>1, <1>2, <1>7
  <2>2. 1 \in 1 .. n - 1
    BY <1>1, <2>1
  <2> QED BY <1>1, <1>4, <2>1, <2>2 DEF FeedFollows
<1> QED BY <1>6, <1>7 DEF t

LEMMA AheadInit ==
    ASSUME TextAssumption, Init
    PROVE  Ahead(running)
<1>1. /\ video = [p \in Video |-> IF p < Cells THEN Blank ELSE "hidden"]
      /\ pc[running] = "idle"
  BY DEF Init
<1>2. Blank \notin Printed /\ "hidden" \notin Printed
  BY DEF TextAssumption, Printed
<1>3. \A p : Bare(video, p)
  BY <1>1, <1>2 DEF Bare
<1> QED BY <1>1, <1>3 DEF Ahead, HalfWay, Selects

(* What has to be shown of a step of the task that goes on with label.     *)
LEMMA AheadTo ==
    ASSUME NEW t, NEW label, running' = t, pc'[t] = label,
           Bare(video', Cells),
           label # "idle" => LinesEnd(rest'[t]),
           label \in HalfWay /\ cl'[t] = CR => FeedFollows(rest'[t]),
           label = "idle" => Bare(video', Cursor'),
           label = "next" => \/ Bare(video', Cursor')
                             \/ FeedFollows(rest'[t]) /\ Bare(video', LineEnd(Cursor')),
           label \in {"select high", "read high", "select low", "read low", "put"} =>
               Bare(video', IF cl'[t] = LF THEN LineEnd(Cursor') ELSE Cursor'),
           label = "clear" => Bare(video', LastRow),
           label \in {"reselect high", "write high", "reselect low", "write low"} =>
               Bare(video', IF cl'[t] = CR THEN LineEnd(bx'[t]) ELSE bx'[t])
    PROVE  Ahead(running)'
BY DEF Ahead

(* What a step may do to the screen.                                       *)
Leaves(v, w) ==
    \/ \A p \in 0 .. (Cells - 1) : v[p] \in Printed => w[p] = v[p]
    \/ \A p \in 0 .. (LastRow - 1) : w[p] = v[p + Columns]

LEMMA AheadStep ==
    ASSUME HexTasks = {}, TextAssumption
    PROVE  IInv /\ Ahead(running) /\ [Next]_vars =>
               Ahead(running)' /\ Leaves(video, video')
<1> SUFFICES ASSUME IInv, Ahead(running), [Next]_vars
             PROVE  Ahead(running)' /\ Leaves(video, video')
  OBVIOUS
<1> DEFINE t == running
<1>0. t \in Task /\ t = running
  BY DEF IInv, Devices
<1> HIDE DEF t
<1>a. /\ video \in [Video -> Printed \cup {Blank, "hidden"}]
      /\ pc \in [Task -> HalfWay \cup {"idle", "next"}]
      /\ rest \in [Task -> Seq(Characters)]
      /\ cl \in [Task -> Characters \cup {Blank}]
      /\ bx \in [Task -> 0 .. (Cells + Columns - 1)]
  BY DEF IInv, Devices, Tasks
<1>b. Cursor \in Nat
  <2>1. crtc["high"] \in Nat /\ crtc["low"] \in Nat
    BY Sizes DEF IInv, Devices
  <2>2. crtc["high"] * Byte \in Nat
    BY <2>1, Sizes, SMT
  <2> QED BY <2>1, <2>2 DEF Cursor
<1>c. bx[t] \in Nat
  <2>1. bx[t] \in 0 .. (Cells + Columns - 1)
    BY <1>0, <1>a
  <2> QED BY <2>1, Sizes
<1>d. pc[t] = "put" => bx[t] = Cursor /\ Cursor < Cells
  BY <1>0 DEF IInv, Position
<1>e. Bare(video, Cells)
  BY DEF Ahead
<1>f. video' = video => Leaves(video, video')
  BY DEF Leaves
<1>g. pc[t] # "idle" => LinesEnd(rest[t])
  BY <1>0 DEF Ahead
<1>h. pc[t] \in HalfWay /\ cl[t] = CR => FeedFollows(rest[t])
  BY <1>0 DEF Ahead
<1>1. CASE PutString(t) \/ PutHexDword(t)
  <2>1. PICK s \in Messages \cup Numbers :
            /\ rest' = [rest EXCEPT ![t] = s]
            /\ pc[t] = "idle" /\ pc' = [pc EXCEPT ![t] = "next"]
            /\ UNCHANGED <<video, crtc, running>>
    BY <1>1 DEF PutString, PutHexDword, device, Goto
  <2>2. running' = t /\ pc'[t] = "next" /\ rest'[t] = s /\ Cursor' = Cursor
    BY <1>0, <1>a, <2>1 DEF Cursor
  <2>3. LinesEnd(s)
    BY DEF TextAssumption
  <2>4. Bare(video, Cursor)
    BY <1>0, <2>1 DEF Ahead
  <2>5. "next" \notin HalfWay
    BY DEF HalfWay, Selects
  <2>6. Ahead(running)'
    BY <1>e, <2>1, <2>2, <2>3, <2>4, <2>5, AheadTo
  <2> QED BY <1>f, <2>1, <2>6
<1>2. CASE NextCharacter(t)
  <2>1. /\ pc[t] = "next" /\ rest[t] # << >>
        /\ cl' = [cl EXCEPT ![t] = Head(rest[t])]
        /\ rest' = [rest EXCEPT ![t] = Tail(@)]
        /\ pc' = [pc EXCEPT ![t] = "select high"]
        /\ UNCHANGED <<video, crtc, running>>
    BY <1>2 DEF NextCharacter, device, Goto
  <2>2. /\ running' = t /\ pc'[t] = "select high" /\ rest'[t] = Tail(rest[t])
        /\ cl'[t] = Head(rest[t]) /\ Cursor' = Cursor
    BY <1>0, <1>a, <2>1 DEF Cursor
  <2>3. rest[t] \in Seq(Characters)
    BY <1>0, <1>a
  <2>4. LinesEnd(Tail(rest[t])) /\ (Head(rest[t]) = CR => FeedFollows(Tail(rest[t])))
    BY <1>g, <2>1, <2>3, TailEnds
  <2>5. \/ Bare(video, Cursor)
        \/ FeedFollows(rest[t]) /\ Bare(video, LineEnd(Cursor))
    BY <1>0, <2>1 DEF Ahead
  <2>6. Bare(video, Cursor) => Bare(video, LineEnd(Cursor))
    BY <1>b, LineEndIs, BareFurther
  <2>7. Bare(video, IF Head(rest[t]) = LF THEN LineEnd(Cursor) ELSE Cursor)
    BY <2>5, <2>6 DEF FeedFollows
  <2>8. Ahead(running)'
    BY <1>e, <2>1, <2>2, <2>4, <2>7, AheadTo
  <2> QED BY <1>f, <2>1, <2>8
<1>3. CASE Return(t)
  <2>1. /\ pc[t] = "next" /\ rest[t] = << >>
        /\ pc' = [pc EXCEPT ![t] = "idle"]
        /\ UNCHANGED <<video, crtc, running>>
    BY <1>3 DEF Return, device, Goto
  <2>2. running' = t /\ pc'[t] = "idle" /\ Cursor' = Cursor
    BY <1>0, <1>a, <2>1 DEF Cursor
  <2>3. Bare(video, Cursor)
    BY <1>0, <2>1 DEF Ahead, FeedFollows
  <2>4. "idle" \notin HalfWay
    BY DEF HalfWay, Selects
  <2>5. Ahead(running)'
    BY <1>e, <2>1, <2>2, <2>3, <2>4, AheadTo
  <2> QED BY <1>f, <2>1, <2>5
<1>4. CASE SelectRegister(t) \/ ReadHigh(t) \/ ReadLow(t) \/ WriteHigh(t)
  <2> DEFINE G == {"select high", "read high", "select low", "read low", "put"}
             H == {"reselect high", "write high", "reselect low", "write low"}
  <2>1. PICK label \in G \cup H :
            /\ pc[t] \in G \cup H /\ pc' = [pc EXCEPT ![t] = label]
            /\ pc[t] \in G => label \in G
            /\ pc[t] \in H => label \in H /\ UNCHANGED bx
            /\ UNCHANGED <<video, running, rest, cl>>
            /\ pc[t] \in G => UNCHANGED crtc
    <3>1. CASE SelectRegister(t)
      BY <3>1 DEF SelectRegister, Selects, DataAccess, Goto, caller
    <3>2. CASE ReadHigh(t)
      BY <3>2 DEF ReadHigh, Goto, caller, device
    <3>3. CASE ReadLow(t)
      BY <3>3 DEF ReadLow, Goto, caller, device
    <3>4. CASE WriteHigh(t)
      BY <3>4 DEF WriteHigh, Goto, caller
    <3> QED BY <1>4, <3>1, <3>2, <3>3, <3>4
  <2>2. running' = t /\ pc'[t] = label /\ UNCHANGED <<rest, cl>>
    BY <1>0, <1>a, <2>1
  <2>3. G \cup H \subseteq HalfWay /\ "idle" \notin HalfWay /\ "next" \notin HalfWay
        /\ "clear" \notin G \cup H /\ G \cap H = {} /\ label \notin {"idle", "next", "clear"}
    BY DEF HalfWay, Selects
  <2>4. LinesEnd(rest[t]) /\ (cl[t] = CR => FeedFollows(rest[t]))
    BY <1>g, <1>h, <2>1, <2>3
  <2>5. label \in G => Bare(video, IF cl'[t] = LF THEN LineEnd(Cursor') ELSE Cursor')
    <3>1. SUFFICES ASSUME label \in G
                   PROVE  Bare(video, IF cl[t] = LF THEN LineEnd(Cursor) ELSE Cursor)
                          /\ cl' = cl /\ Cursor' = Cursor
      BY Zenon
    <3>2. pc[t] \in G
      BY <2>1, <2>3, <3>1
    <3> QED BY <1>0, <2>1, <3>2 DEF Ahead, Cursor
  <2>6. label \in H => Bare(video, IF cl'[t] = CR THEN LineEnd(bx'[t]) ELSE bx'[t])
    <3>1. SUFFICES ASSUME label \in H
                   PROVE  Bare(video, IF cl[t] = CR THEN LineEnd(bx[t]) ELSE bx[t])
                          /\ cl' = cl /\ bx' = bx
      BY Zenon
    <3>2. pc[t] \in H
      BY <2>1, <2>3, <3>1
    <3> QED BY <1>0, <2>1, <3>2 DEF Ahead
  <2>7. Ahead(running)'
    BY <1>e, <2>1, <2>2, <2>3, <2>4, <2>5, <2>6, AheadTo
  <2> QED BY <1>f, <2>1, <2>7
<1>5. CASE CarriageReturn(t)
  <2> DEFINE p == (bx[t] \div Columns) * Columns
  <2>1. /\ pc[t] = "put" /\ cl[t] = CR
        /\ bx' = [bx EXCEPT ![t] = p]
        /\ pc' = [pc EXCEPT ![t] = "reselect high"]
        /\ UNCHANGED <<video, crtc, running, rest, cl>>
    BY <1>5 DEF CarriageReturn, device, caller, Goto
  <2>2. running' = t /\ pc'[t] = "reselect high" /\ bx'[t] = p
        /\ rest' = rest /\ cl' = cl
    BY <1>0, <1>a, <2>1
  <2>3. Bare(video, Cursor) /\ bx[t] = Cursor
    BY <1>0, <1>d, <2>1 DEF Ahead, CR, LF
  <2>4. Bare(video, LineEnd(p))
    <3>1. Bare(video, LineEnd(Cursor)) /\ LineEnd(p) = LineEnd(Cursor)
      BY <1>b, <2>3, LineEndIs, BareFurther
    <3> QED BY <3>1
  <2> HIDE DEF p
  <2>5. "put" \in HalfWay
    BY DEF HalfWay
  <2>6. LinesEnd(rest[t]) /\ FeedFollows(rest[t])
    BY <1>g, <1>h, <2>1, <2>5
  <2>7. Ahead(running)'
    BY <1>e, <2>1, <2>2, <2>4, <2>6, AheadTo
  <2> QED BY <1>f, <2>1, <2>7
<1>6. CASE LineFeed(t)
  <2>1. /\ pc[t] = "put" /\ cl[t] = LF
        /\ bx' = [bx EXCEPT ![t] = @ + Columns]
        /\ pc' = [pc EXCEPT ![t] = Roll(bx[t] + Columns)]
        /\ UNCHANGED <<video, crtc, running, rest, cl>>
    BY <1>6 DEF LineFeed, device, caller, Goto
  <2>2. running' = t /\ pc'[t] = Roll(bx[t] + Columns) /\ bx'[t] = bx[t] + Columns
        /\ rest' = rest /\ cl' = cl
    BY <1>0, <1>a, <2>1
  <2>3. Bare(video, LineEnd(Cursor)) /\ bx[t] = Cursor
    BY <1>0, <1>d, <2>1 DEF Ahead
  <2>4. Bare(video, bx[t] + Columns)
    <3>1. LineEnd(Cursor) \in Nat /\ LineEnd(Cursor) <= Cursor + Columns
          /\ Cursor + Columns \in Nat
      BY <1>b, LineEndIs, Sizes
    <3> QED BY <2>3, <3>1, BareFurther
  <2>5. LinesEnd(rest[t]) /\ cl[t] # CR
    BY <1>g, <2>1 DEF CR, LF
  <2>6. Roll(bx[t] + Columns) \in {"reselect high", "scroll"}
    BY DEF Roll
  <2>7. Ahead(running)'
    BY <1>e, <2>1, <2>2, <2>4, <2>5, <2>6, AheadTo
  <2> QED BY <1>f, <2>1, <2>7
<1>7. CASE PutOther(t)
  <2>1. /\ pc[t] = "put" /\ cl[t] # CR /\ cl[t] # LF
        /\ video' = [p \in Video |-> IF p = bx[t] THEN cl[t] ELSE video[p]]
        /\ bx' = [bx EXCEPT ![t] = @ + 1]
        /\ pc' = [pc EXCEPT ![t] = Roll(bx[t] + 1)]
        /\ UNCHANGED <<running, rest, cl>>
    BY <1>7 DEF PutOther, caller, Goto
  <2>2. running' = t /\ pc'[t] = Roll(bx[t] + 1) /\ bx'[t] = bx[t] + 1
        /\ rest' = rest /\ cl' = cl
    BY <1>0, <1>a, <2>1
  <2>3. Bare(video, Cursor) /\ bx[t] = Cursor /\ Cursor < Cells
    BY <1>0, <1>d, <2>1 DEF Ahead
  <2>4. \A q \in Video : q # bx[t] => video'[q] = video[q]
    BY <2>1
  <2>5. \A q \in Video : q >= bx[t] + 1 => video'[q] \notin Printed
    <3>1. \A q \in Video : q \in Int
      BY Sizes DEF Video
    <3>2. \A q \in Video : q >= bx[t] + 1 => q >= bx[t] /\ q # bx[t]
      BY <1>c, <3>1
    <3>3. \A q \in Video : q >= bx[t] => video[q] \notin Printed
      BY <2>3 DEF Bare
    <3> QED BY <2>4, <3>2, <3>3
  <2>6. Bare(video', bx[t] + 1)
    BY <2>5 DEF Bare
  <2>7. Bare(video', Cells)
    BY <1>c, <2>3, <2>6, BareFurther, Sizes
  <2>8. LinesEnd(rest[t])
    BY <1>g, <2>1
  <2>9. Roll(bx[t] + 1) \in {"reselect high", "scroll"}
    BY DEF Roll
  <2>10. Ahead(running)'
    BY <2>1, <2>2, <2>6, <2>7, <2>8, <2>9, AheadTo
  <2>11. Leaves(video, video')
    <3>1. ASSUME NEW p \in 0 .. (Cells - 1), video[p] \in Printed
          PROVE  video'[p] = video[p]
      <4>1. p \in Video /\ p \in Int
        BY Sizes DEF Video
      <4>2. p # bx[t]
        BY <1>c, <2>3, <3>1, <4>1 DEF Bare
      <4> QED BY <2>4, <4>1, <4>2
    <3> QED BY <3>1 DEF Leaves
  <2> QED BY <2>10, <2>11
<1>8. CASE Scroll(t)
  <2>1. /\ pc[t] = "scroll"
        /\ video' = [p \in Video |-> IF p \in Scrolled THEN video[p + Columns] ELSE video[p]]
        /\ pc' = [pc EXCEPT ![t] = "clear"]
        /\ UNCHANGED <<running, rest, cl>>
    BY <1>8 DEF Scroll, caller, Goto
  <2>2. running' = t /\ pc'[t] = "clear" /\ rest' = rest /\ cl' = cl
    BY <1>0, <1>a, <2>1
  <2>3. ASSUME NEW q \in Video, q >= LastRow
        PROVE  video'[q] \notin Printed
    <3>1. q \in Int
      BY Sizes DEF Video
    <3>2. CASE q \in Scrolled
      <4>1. q + Columns \in Video /\ q + Columns >= Cells
        BY <2>3, <3>1, <3>2, Sizes DEF Video, Scrolled
      <4>2. video[q + Columns] \notin Printed
        BY <1>e, <4>1 DEF Bare
      <4> QED BY <2>1, <3>2, <4>2
    <3>3. CASE q \notin Scrolled
      <4>1. q >= Cells
        BY <2>3, <3>1, <3>3, Sizes DEF Video, Scrolled
      <4>2. video[q] \notin Printed
        BY <1>e, <4>1 DEF Bare
      <4> QED BY <2>1, <3>3, <4>2
    <3> QED BY <3>2, <3>3
  <2>4. Bare(video', LastRow)
    BY <2>3 DEF Bare
  <2>5. Bare(video', Cells)
    BY <2>4, BareFurther, Sizes
  <2>6. "scroll" \in HalfWay /\ pc[t] # "idle"
    BY <2>1 DEF HalfWay
  <2>7. LinesEnd(rest[t]) /\ (cl[t] = CR => FeedFollows(rest[t]))
    BY <1>g, <1>h, <2>1, <2>6
  <2>8. Ahead(running)'
    BY <2>1, <2>2, <2>4, <2>5, <2>7, AheadTo
  <2>9. \A p \in 0 .. (LastRow - 1) : p \in Video /\ p \in Scrolled
    BY Sizes DEF Video, Scrolled
  <2>10. Leaves(video, video')
    BY <2>1, <2>9 DEF Leaves
  <2> QED BY <2>8, <2>10
<1>9. CASE ClearBottom(t)
  <2>1. /\ pc[t] = "clear"
        /\ video' = [p \in Video |-> IF p \in Cleared THEN Blank ELSE video[p]]
        /\ bx' = [bx EXCEPT ![t] = LastRow]
        /\ pc' = [pc EXCEPT ![t] = "reselect high"]
        /\ UNCHANGED <<running, rest, cl>>
    BY <1>9 DEF ClearBottom, caller, Goto
  <2>2. running' = t /\ pc'[t] = "reselect high" /\ bx'[t] = LastRow
        /\ rest' = rest /\ cl' = cl
    BY <1>0, <1>a, <2>1
  <2>3. Bare(video, LastRow)
    BY <1>0, <2>1 DEF Ahead
  <2>4. Blank \notin Printed
    BY DEF TextAssumption, Printed
  <2>5. Bare(video', LastRow)
    BY <2>1, <2>3, <2>4 DEF Bare
  <2>6. Bare(video', Cells) /\ Bare(video', LineEnd(LastRow))
    BY <2>5, BareFurther, LineEndIs, Sizes
  <2>7. LinesEnd(rest[t]) /\ (cl[t] = CR => FeedFollows(rest[t]))
    BY <1>g, <1>h, <2>1 DEF HalfWay
  <2>8. Ahead(running)'
    BY <2>1, <2>2, <2>5, <2>6, <2>7, AheadTo
  <2>9. ASSUME NEW p \in 0 .. (Cells - 1), video[p] \in Printed
        PROVE  video'[p] = video[p]
    <3>1. p \in Video /\ p \in Int
      BY Sizes DEF Video
    <3>2. p \notin Cleared
      BY <2>3, <2>9, <3>1, Sizes DEF Bare, Cleared
    <3> QED BY <2>1, <3>1, <3>2
  <2>10. Leaves(video, video')
    BY <2>9 DEF Leaves
  <2> QED BY <2>8, <2>10
<1>10. CASE WriteLow(t)
  <2>1. /\ pc[t] = "write low" /\ pc' = [pc EXCEPT ![t] = "next"]
        /\ UNCHANGED <<video, running, rest, cl>>
    BY <1>10 DEF WriteLow, caller, Goto
  <2>2. running' = t /\ pc'[t] = "next" /\ rest' = rest
    BY <1>0, <1>a, <2>1
  <2>3. Cursor' = bx[t]
    BY <1>0, <1>10, CursorWritten
  <2>4. Bare(video, IF cl[t] = CR THEN LineEnd(bx[t]) ELSE bx[t])
    BY <1>0, <2>1 DEF Ahead
  <2>5. LinesEnd(rest[t]) /\ (cl[t] = CR => FeedFollows(rest[t]))
    BY <1>g, <1>h, <2>1 DEF HalfWay
  <2>6. "next" \notin HalfWay
    BY DEF HalfWay, Selects
  <2>7. \/ Bare(video, bx[t])
        \/ FeedFollows(rest[t]) /\ Bare(video, LineEnd(bx[t]))
    BY <2>4, <2>5
  <2>8. Ahead(running)'
    BY <1>e, <2>1, <2>2, <2>3, <2>5, <2>6, <2>7, AheadTo
  <2> QED BY <1>f, <2>1, <2>8
<1>11. CASE Preempt
  <2>1. \A u \in Task : pc[u] = "idle"
    BY <1>11 DEF Preempt, IInv, Alone
  <2>2. running' \in Task /\ UNCHANGED <<video, crtc, pc>>
    BY <1>11 DEF Preempt, device
  <2>3. pc'[running'] = "idle" /\ Cursor' = Cursor
    BY <2>1, <2>2 DEF Cursor
  <2>4. Bare(video, Cursor)
    BY <1>0, <2>1 DEF Ahead
  <2>5. "idle" \notin HalfWay
    BY DEF HalfWay, Selects
  <2>6. Ahead(running)'
    BY <1>e, <2>2, <2>3, <2>4, <2>5, AheadTo
  <2> QED BY <1>f, <2>2, <2>6
<1>12. CASE UNCHANGED vars
  <2>1. UNCHANGED <<video, crtc, running, pc, rest, cl, bx>>
    BY <1>12 DEF vars
  <2> QED BY <1>f, <2>1 DEF Ahead, Cursor
<1> QED
  BY <1>0, <1>1, <1>2, <1>3, <1>4, <1>5, <1>6, <1>7, <1>8, <1>9, <1>10,
     <1>11, <1>12 DEF Next, PutChar

(* What was printed is never overwritten, where every return of the        *)
(* carriage is followed by a line feed: it stays where it is or goes up    *)
(* with everything else.                                                   *)
THEOREM PrintedStays ==
    ASSUME HexTasks = {}, TextAssumption
    PROVE  Spec => PrintedTextStays
<1> DEFINE Inv == IInv /\ Ahead(running)
<1>1. Init => Inv
  BY TypeInit, AheadInit
<1>2. Inv /\ [Next]_vars => Inv'
  BY TypeStep, AheadStep
<1>3. Inv /\ [Next]_vars =>
        [\/ \A p \in 0 .. (Cells - 1) : video[p] \in Printed => video'[p] = video[p]
         \/ \A p \in 0 .. (LastRow - 1) : video'[p] = video[p + Columns]]_vars
  BY AheadStep DEF Leaves
<1> HIDE DEF Inv
<1> QED BY <1>1, <1>2, <1>3, PTL DEF Spec, PrintedTextStays
=============================================================================
