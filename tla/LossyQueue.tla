----------------------------- MODULE LossyQueue -----------------------------
(***************************************************************************)
(* What the way from the keyboard to the screen promises: what was typed   *)
(* is shown in the order in which it was typed and at most once; anything  *)
(* on the way may be lost.  Everything typed has a number of its own.      *)
(***************************************************************************)
EXTENDS Naturals, Sequences, SequencesExt

CONSTANT Number

VARIABLES
    queue,      \* what is on its way: the smaller number goes first
    shown

vars == <<queue, shown>>

Init == queue = {} /\ shown = << >>

Put == \E n \in Number :
          /\ \A m \in queue \cup ToSet(shown) : m < n
          /\ queue' = queue \cup {n}
          /\ UNCHANGED shown

Lose == \E n \in queue : queue' = queue \ {n} /\ UNCHANGED shown

Show == \E n \in queue :
          /\ \A m \in queue : n <= m
          /\ queue' = queue \ {n}
          /\ shown' = Append(shown, n)

Next == Put \/ Lose \/ Show

Spec == Init /\ [][Next]_vars
=============================================================================
