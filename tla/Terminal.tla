------------------------------ MODULE Terminal ------------------------------
(***************************************************************************)
(* What the kernel's text screen promises: a terminal of Rows lines, on    *)
(* which characters are typed one after the other.  The console, which     *)
(* works on a flat video memory and a cursor kept in two bytes of the CRT  *)
(* controller, is compared with it.                                        *)
(***************************************************************************)
EXTENDS Naturals, Sequences

CONSTANTS Rows, Columns, Blank, CR, LF

BlankLine == [c \in 1 .. Columns |-> Blank]

(* The cursor goes to the next line; on the last one everything moves up.  *)
NextLine(t, col) ==
    IF t.row < Rows
    THEN [t EXCEPT !.row = @ + 1, !.col = col]
    ELSE [lines |-> Append(Tail(t.lines), BlankLine), row |-> Rows, col |-> 1]

Written(t, char) == [t EXCEPT !.lines[t.row][t.col] = char]

Type(t, char) ==
    CASE char = CR -> [t EXCEPT !.col = 1]
      [] char = LF -> NextLine(t, t.col)
      [] OTHER -> IF t.col < Columns
                  THEN [Written(t, char) EXCEPT !.col = @ + 1]
                  ELSE NextLine(Written(t, char), 1)
=============================================================================
