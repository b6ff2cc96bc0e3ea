---------------------------- MODULE TcbListProofs ----------------------------
(***************************************************************************)
(* The pointers of the TCB list implement the round robin, for any number  *)
(* of programs and whatever the memory of their TCBs held.                 *)
(*                                                                         *)
(* The inductive invariant names the list: the sequence that ListOf finds  *)
(* once the TCB just linked is marked as the end.  It says of every        *)
(* instruction of append_to_tcb_link and of the clock handler which tasks  *)
(* are in it, which one is first or last, and which registers point where; *)
(* and that all tasks but the running one are in their programs or about   *)
(* to return to them.  Each of the three instructions that write a link    *)
(* then takes one list to the next.                                        *)
(***************************************************************************)
EXTENDS TcbList, FiniteSetTheorems, WellFoundedInduction, NaturalsInduction, TLAPS

LEMMA Least ==
    ASSUME NEW T \in SUBSET Nat, T # {}
    PROVE  \E m \in T : \A k \in T : m <= k
<1>1. PICK x \in T : \A y \in T : ~(<<y, x>> \in OpToRel(<, Nat))
  BY NatLessThanWellFounded, WFMin
<1>2. \A y \in T : <<y, x>> \in OpToRel(<, Nat) <=> y < x
  BY DEF OpToRel
<1>3. \A y \in T : ~(y < x)
  BY <1>1, <1>2, Zenon
<1>4. \A y \in T : x <= y
  <2> TAKE y \in T
  <2>1. ~(y < x) /\ y \in Int /\ x \in Int
    BY <1>3
  <2> QED BY <2>1
<1> QED BY <1>4

(* A set of numbers that has 0, and with every number the next, has all.   *)
LEMMA SetInduction ==
    ASSUME NEW S \in SUBSET Nat, 0 \in S, \A n \in S : n + 1 \in S
    PROVE  S = Nat
<1>1. CASE Nat \ S # {}
  <2>1. PICK m \in Nat \ S : \A k \in Nat \ S : m <= k
    BY <1>1, Least
  <2>2. m - 1 \in Nat \ S
    BY <2>1
  <2> QED BY <2>1, <2>2
<1> QED BY <1>1

-----------------------------------------------------------------------------
(* The list.                                                               *)

LEMMA TaskFinite ==
    ASSUME TcbAssumption
    PROVE  IsFiniteSet(Task)
BY FS_AddElement DEF TcbAssumption, Task

EndOf(s) == IF s = << >> THEN TcbChain ELSE s[Len(s)]

LEMMA EndIsNode == \A s \in Seq(Task) : EndOf(s) \in Node
BY DEF EndOf, Node

(* The recursion of ListOf ends: there are only so many tasks to see.      *)
LEMMA WalkExists ==
    ASSUME TcbAssumption, NEW next \in [Node -> Task \cup {Nil}]
    PROVE  \E g :
              /\ \A s \in Seq(Task) :
                    g[s] = IF next[EndOf(s)] = Nil \/ next[EndOf(s)] \in ToSet(s) THEN s
                           ELSE g[Append(s, next[EndOf(s)])]
              /\ ListOf(next) = g[<< >>]
<1> DEFINE t(s) == next[IF s = << >> THEN TcbChain ELSE Last(s)]
           E(g, s) == IF t(s) = Nil \/ t(s) \in ToSet(s) THEN s ELSE g[Append(s, t(s))]
           D(g) == [s \in Seq(Task) |-> E(g, s)]
           C == CHOOSE g : g = D(g)
           left(s) == Cardinality(Task \ ToSet(s))
           Good(g, n) == \A s \in Seq(Task) : left(s) < n => g[s] = E(g, s)
           S == { n \in Nat : \E g : Good(g, n) }
<1>1. ListOf(next) = C[<< >>]
  BY DEF ListOf
<1>2. \A s \in Seq(Task) : left(s) \in Nat
  BY TaskFinite, FS_Difference, FS_CardinalityType
<1>3. \A s \in Seq(Task) : t(s) = next[EndOf(s)] /\ t(s) \in Task \cup {Nil}
  BY EndIsNode DEF EndOf, Last
<1>4. ASSUME NEW s \in Seq(Task), t(s) # Nil, t(s) \notin ToSet(s)
      PROVE  Append(s, t(s)) \in Seq(Task) /\ left(Append(s, t(s))) = left(s) - 1
  <2>1. PICK q \in Task : q = t(s)
    BY <1>3, <1>4
  <2>2. ToSet(Append(s, q)) = ToSet(s) \cup {q}
    <3>1. Len(Append(s, q)) = Len(s) + 1 /\ DOMAIN Append(s, q) = 1 .. (Len(s) + 1)
      OBVIOUS
    <3>2. \A i \in 1 .. Len(s) : Append(s, q)[i] = s[i]
      OBVIOUS
    <3>3. Append(s, q)[Len(s) + 1] = q
      OBVIOUS
    <3> QED BY <3>1, <3>2, <3>3 DEF ToSet
  <2>3. IsFiniteSet(Task \ ToSet(s))
    BY TaskFinite, FS_Difference
  <2>4. Cardinality((Task \ ToSet(s)) \ {q}) = left(s) - 1
    BY <1>4, <2>1, <2>3, FS_RemoveElement
  <2>5. Task \ ToSet(Append(s, q)) = (Task \ ToSet(s)) \ {q}
    BY <2>2
  <2>6. left(Append(s, q)) = left(s) - 1
    BY <2>4, <2>5, Zenon
  <2> HIDE DEF t, left
  <2>7. Append(s, q) \in Seq(Task)
    OBVIOUS
  <2> QED BY <2>1, <2>6, <2>7
<1>5. \A g : \A s \in Seq(Task) : D(g)[s] = E(g, s)
  OBVIOUS
<1>6. ASSUME NEW g, NEW h, NEW s \in Seq(Task),
             t(s) # Nil /\ t(s) \notin ToSet(s) => g[Append(s, t(s))] = h[Append(s, t(s))]
      PROVE  E(g, s) = E(h, s)
  BY <1>6
<1> HIDE DEF E, D, left, t
<1>7. 0 \in S
  <2>1. \A g : Good(g, 0)
    BY <1>2
  <2> QED BY <2>1
<1>8. ASSUME NEW n \in S
      PROVE  n + 1 \in S
  <2>1. PICK g : Good(g, n)
    OBVIOUS
  <2>2. PICK h : h = D(g)
    OBVIOUS
  <2>3. ASSUME NEW s \in Seq(Task), left(s) < n + 1
        PROVE  h[s] = E(h, s)
    <3>1. h[s] = E(g, s)
      BY <1>5, <2>2
    <3>2. ASSUME t(s) # Nil, t(s) \notin ToSet(s)
          PROVE  g[Append(s, t(s))] = h[Append(s, t(s))]
      <4>1. PICK r \in Seq(Task) : r = Append(s, t(s)) /\ left(r) = left(s) - 1
        BY <1>4, <3>2
      <4>2. left(r) < n
        BY <1>2, <2>3, <4>1
      <4>3. g[r] = E(g, r) /\ h[r] = E(g, r)
        BY <1>5, <2>1, <2>2, <4>2
      <4> QED BY <4>1, <4>3
    <3>3. E(g, s) = E(h, s)
      BY <1>6, <3>2
    <3> QED BY <3>1, <3>3
  <2>4. Good(h, n + 1)
    BY <2>3
  <2> HIDE DEF Good
  <2> QED BY <2>4
<1>9. S = Nat
  <2>1. S \in SUBSET Nat
    OBVIOUS
  <2> HIDE DEF S
  <2> QED BY <1>7, <1>8, <2>1, SetInduction
<1>10. PICK n \in Nat : \A s \in Seq(Task) : left(s) < n
  <2>1. PICK m \in Nat : m = Cardinality(Task)
    BY TaskFinite, FS_CardinalityType
  <2>2. ASSUME NEW s \in Seq(Task)
        PROVE  left(s) < m + 1
    <3>1. left(s) <= m
      BY <2>1, TaskFinite, FS_Subset DEF left
    <3> QED BY <1>2, <3>1
  <2> QED BY <2>2
<1>11. PICK g : \A s \in Seq(Task) : g[s] = E(g, s)
  <2>1. PICK g : Good(g, n)
    BY <1>9
  <2> QED BY <1>10, <2>1
<1>12. PICK h : h = D(g) /\ \A s \in Seq(Task) : h[s] = g[s]
  BY <1>5, <1>11
<1>13. \A s \in Seq(Task) : E(h, s) = E(g, s)
  <2> TAKE s \in Seq(Task)
  <2>1. ASSUME t(s) # Nil, t(s) \notin ToSet(s)
        PROVE  h[Append(s, t(s))] = g[Append(s, t(s))]
    BY <1>4, <1>12, <2>1
  <2> QED BY <1>6, <2>1
<1>14. D(h) = h
  BY <1>12, <1>13 DEF D
<1>15. C = D(C)
  BY <1>14
<1>16. \A s \in Seq(Task) : C[s] = E(C, s)
  BY <1>5, <1>15
<1> HIDE DEF C
<1> QED BY <1>1, <1>3, <1>16 DEF E

(* s is the list: from the head on every link leads to the next task, the  *)
(* last one is null, and no task is in it twice.                           *)
BeforeIn(s, i) == IF i = 1 THEN TcbChain ELSE s[i - 1]

IsList(next, s) ==
    /\ s \in Seq(Task)
    /\ \A i \in 1 .. Len(s) : next[BeforeIn(s, i)] = s[i]
    /\ next[EndOf(s)] = Nil
    /\ \A i, j \in 1 .. Len(s) : s[i] = s[j] => i = j

(* Then ListOf finds it.                                                   *)
LEMMA ListFound ==
    ASSUME TcbAssumption, NEW next \in [Node -> Task \cup {Nil}], NEW s, IsList(next, s)
    PROVE  ListOf(next) = s
<1>1. PICK g :
         /\ \A r \in Seq(Task) :
               g[r] = IF next[EndOf(r)] = Nil \/ next[EndOf(r)] \in ToSet(r) THEN r
                      ELSE g[Append(r, next[EndOf(r)])]
         /\ ListOf(next) = g[<< >>]
  BY WalkExists
<1>2. s \in Seq(Task) /\ Len(s) \in Nat
  BY DEF IsList
<1> DEFINE first(n) == SubSeq(s, 1, n)
           S == { n \in Nat : n <= Len(s) => g[first(n)] = g[<< >>] }
<1>3. \A n \in Nat : n <= Len(s) =>
         /\ first(n) \in Seq(Task) /\ Len(first(n)) = n
         /\ \A i \in 1 .. n : first(n)[i] = s[i]
  BY <1>2
<1>4. first(0) = << >> /\ first(Len(s)) = s
  BY <1>2
<1> HIDE DEF first
<1>5. 0 \in S
  BY <1>4
<1>6. ASSUME NEW n \in S
      PROVE  n + 1 \in S
  <2> SUFFICES ASSUME n + 1 <= Len(s)
               PROVE  g[first(n + 1)] = g[<< >>]
    OBVIOUS
  <2>1. n \in Nat /\ g[first(n)] = g[<< >>]
    BY <1>2
  <2>2. PICK r \in Seq(Task) : r = first(n) /\ Len(r) = n /\ \A i \in 1 .. n : r[i] = s[i]
    BY <1>2, <1>3, <2>1
  <2>3. EndOf(r) = BeforeIn(s, n + 1)
    BY <2>1, <2>2 DEF EndOf, BeforeIn
  <2>4. next[EndOf(r)] = s[n + 1] /\ s[n + 1] \in Task
    BY <1>2, <2>1, <2>3 DEF IsList
  <2>5. s[n + 1] # Nil
    BY <2>4 DEF TcbAssumption, Task
  <2>6. s[n + 1] \notin ToSet(r)
    <3>1. \A i \in 1 .. n : s[i] # s[n + 1]
      BY <1>2, <2>1 DEF IsList
    <3> QED BY <2>2, <3>1 DEF ToSet
  <2>7. Append(r, s[n + 1]) = first(n + 1)
    <3>1. first(n + 1) \in Seq(Task) /\ Len(first(n + 1)) = n + 1
          /\ \A i \in 1 .. (n + 1) : first(n + 1)[i] = s[i]
      BY <1>2, <1>3, <2>1
    <3> QED BY <2>1, <2>2, <2>4, <3>1
  <2> QED BY <1>1, <2>1, <2>2, <2>4, <2>5, <2>6, <2>7
<1>7. S = Nat
  <2>1. S \in SUBSET Nat
    OBVIOUS
  <2> HIDE DEF S
  <2> QED BY <1>5, <1>6, <2>1, SetInduction
<1>8. g[s] = g[<< >>]
  BY <1>2, <1>4, <1>7
<1>9. g[s] = s
  BY <1>1, <1>2 DEF IsList
<1> QED BY <1>1, <1>8, <1>9

-----------------------------------------------------------------------------
(* Sequences.                                                              *)

LEMMA AppendFacts ==
    ASSUME NEW S, NEW s \in Seq(S), NEW x \in S
    PROVE  /\ Append(s, x) \in Seq(S) /\ Len(Append(s, x)) = Len(s) + 1
           /\ Append(s, x)[Len(s) + 1] = x
           /\ \A i \in 1 .. Len(s) : Append(s, x)[i] = s[i]
<1>1. Append(s, x) \in Seq(S) /\ Len(Append(s, x)) = Len(s) + 1
  OBVIOUS
<1>2. Append(s, x)[Len(s) + 1] = x
  OBVIOUS
<1>3. \A i \in 1 .. Len(s) : Append(s, x)[i] = s[i]
  OBVIOUS
<1> QED BY <1>1, <1>2, <1>3

LEMMA SameSequence ==
    ASSUME NEW S, NEW s \in Seq(S), NEW t \in Seq(S), Len(s) = Len(t),
           \A i \in 1 .. Len(s) : s[i] = t[i]
    PROVE  s = t
OBVIOUS

LEMMA FrontFacts ==
    ASSUME NEW S, NEW s \in Seq(S), Len(s) > 0
    PROVE  /\ SubSeq(s, 1, Len(s) - 1) \in Seq(S)
           /\ Len(SubSeq(s, 1, Len(s) - 1)) = Len(s) - 1
           /\ \A i \in 1 .. (Len(s) - 1) : SubSeq(s, 1, Len(s) - 1)[i] = s[i]
<1>1. PICK l \in Nat : l = Len(s) /\ l > 0
  OBVIOUS
<1>2. SubSeq(s, 1, l - 1) \in Seq(S) /\ Len(SubSeq(s, 1, l - 1)) = l - 1
  BY <1>1
<1>3. \A i \in 1 .. (l - 1) : SubSeq(s, 1, l - 1)[i] = s[i]
  BY <1>1
<1> QED BY <1>1, <1>2, <1>3

LEMMA TailFacts ==
    ASSUME NEW S, NEW s \in Seq(S), Len(s) > 0
    PROVE  /\ Tail(s) \in Seq(S) /\ Len(Tail(s)) = Len(s) - 1
           /\ \A i \in 1 .. (Len(s) - 1) : Tail(s)[i] = s[i + 1]
<1>1. s # << >>
  OBVIOUS
<1>2. Tail(s) \in Seq(S) /\ Len(Tail(s)) = Len(s) - 1
  BY <1>1
<1>3. \A i \in 1 .. (Len(s) - 1) : Tail(s)[i] = s[i + 1]
  BY <1>1
<1> QED BY <1>2, <1>3

LEMMA Single ==
    ASSUME NEW S, NEW s \in Seq(S), Len(s) = 1
    PROVE  s = <<s[1]>>
OBVIOUS

(* The first taken out of all but the last, and the last put behind.       *)
LEMMA Rotation ==
    ASSUME NEW S, NEW s \in Seq(S), Len(s) > 1
    PROVE  LET f == SubSeq(s, 1, Len(s) - 1)
           IN  f # << >> /\ Head(f) = s[1] /\ Append(Tail(f), s[Len(s)]) = Tail(s)
<1>1. Len(s) \in Nat
  OBVIOUS
<1>2. PICK f \in Seq(S) :
         /\ f = SubSeq(s, 1, Len(s) - 1) /\ Len(f) = Len(s) - 1
         /\ \A i \in 1 .. (Len(s) - 1) : f[i] = s[i]
  <2>1. Len(s) > 0
    BY <1>1
  <2> QED BY <2>1, FrontFacts
<1>3. f # << >> /\ Head(f) = s[1]
  <2>1. Len(f) > 0
    BY <1>1, <1>2
  <2>2. f # << >> /\ Head(f) = f[1]
    BY <2>1
  <2>3. 1 \in 1 .. (Len(s) - 1)
    BY <1>1
  <2> QED BY <1>2, <2>2, <2>3
<1>4. PICK u \in Seq(S) :
         /\ u = Tail(f) /\ Len(u) = Len(f) - 1
         /\ \A i \in 1 .. (Len(f) - 1) : u[i] = f[i + 1]
  <2>1. Len(f) > 0
    BY <1>1, <1>2
  <2> QED BY <2>1, TailFacts
<1>5. PICK v \in Seq(S) :
         /\ v = Tail(s) /\ Len(v) = Len(s) - 1
         /\ \A i \in 1 .. (Len(s) - 1) : v[i] = s[i + 1]
  <2>1. Len(s) > 0
    BY <1>1
  <2> QED BY <2>1, TailFacts
<1>6. s[Len(s)] \in S
  BY <1>1
<1>7. PICK w \in Seq(S) :
         /\ w = Append(u, s[Len(s)]) /\ Len(w) = Len(u) + 1 /\ w[Len(u) + 1] = s[Len(s)]
         /\ \A i \in 1 .. Len(u) : w[i] = u[i]
  <2>1. PICK x \in S : x = s[Len(s)]
    BY <1>6
  <2>2. /\ Append(u, x) \in Seq(S) /\ Len(Append(u, x)) = Len(u) + 1
        /\ Append(u, x)[Len(u) + 1] = x
        /\ \A i \in 1 .. Len(u) : Append(u, x)[i] = u[i]
    BY AppendFacts
  <2> QED BY <2>1, <2>2
<1>8. Len(u) = Len(s) - 2 /\ Len(w) = Len(s) - 1 /\ Len(v) = Len(s) - 1
  <2>1. Len(f) = Len(s) - 1 /\ Len(u) = Len(f) - 1 /\ Len(w) = Len(u) + 1
        /\ Len(v) = Len(s) - 1
    BY <1>2, <1>4, <1>5, <1>7
  <2> QED BY <1>1, <2>1
<1>9. \A i \in 1 .. (Len(s) - 2) : w[i] = v[i]
  <2> TAKE i \in 1 .. (Len(s) - 2)
  <2>1. i \in 1 .. Len(u) /\ i \in 1 .. (Len(f) - 1) /\ i + 1 \in 1 .. (Len(s) - 1)
        /\ i \in 1 .. (Len(s) - 1)
    BY <1>1, <1>2, <1>8
  <2>2. w[i] = s[i + 1]
    BY <1>2, <1>4, <1>7, <2>1
  <2> QED BY <1>5, <2>1, <2>2
<1>10. w[Len(s) - 1] = v[Len(s) - 1]
  <2>1. Len(s) - 1 = Len(u) + 1 /\ Len(s) - 1 \in 1 .. (Len(s) - 1) /\ (Len(s) - 1) + 1 = Len(s)
    BY <1>1, <1>8
  <2> QED BY <1>5, <1>7, <2>1
<1>11. \A i \in 1 .. Len(w) : w[i] = v[i]
  <2>1. \A i \in 1 .. (Len(s) - 1) : i \in 1 .. (Len(s) - 2) \/ i = Len(s) - 1
    BY <1>1
  <2> QED BY <1>8, <1>9, <1>10, <2>1
<1>12. w = v
  <2>1. Len(w) = Len(v)
    BY <1>8
  <2> QED BY <1>11, <2>1, SameSequence
<1> QED BY <1>2, <1>3, <1>4, <1>5, <1>7, <1>12

-----------------------------------------------------------------------------
(* What the three instructions that write links do to the list.            *)

LEMMA ListEnd ==
    ASSUME NEW next, NEW s, IsList(next, s), NEW p \in ToSet(s) \cup {TcbChain}
    PROVE  /\ next[p] = Nil \/ next[p] \in ToSet(s)
           /\ TcbAssumption /\ next[p] = Nil => p = EndOf(s)
           /\ s # << >> => next[TcbChain] = s[1]
<1>1. s \in Seq(Task) /\ Len(s) \in Nat
  BY DEF IsList
<1>2. PICK i \in 1 .. (Len(s) + 1) : p = BeforeIn(s, i)
  <2>1. CASE p = TcbChain
    BY <1>1, <2>1 DEF BeforeIn
  <2>2. CASE p \in ToSet(s)
    <3>1. PICK j \in 1 .. Len(s) : p = s[j]
      BY <1>1, <2>2 DEF ToSet
    <3>2. j + 1 \in 1 .. (Len(s) + 1) /\ BeforeIn(s, j + 1) = p
      BY <1>1, <3>1 DEF BeforeIn
    <3> QED BY <3>2
  <2> QED BY <2>1, <2>2
<1>3. CASE i <= Len(s)
  <2>1. next[p] = s[i] /\ s[i] \in ToSet(s) /\ s[i] \in Task
    BY <1>1, <1>2, <1>3 DEF IsList, ToSet
  <2>2. TcbAssumption => s[i] # Nil
    BY <2>1 DEF TcbAssumption, Task
  <2>3. s # << >> => next[TcbChain] = s[1]
    BY <1>1 DEF IsList, BeforeIn
  <2> QED BY <2>1, <2>2, <2>3
<1>4. CASE i = Len(s) + 1
  <2>1. p = EndOf(s)
    BY <1>1, <1>2, <1>4 DEF EndOf, BeforeIn
  <2>2. s # << >> => next[TcbChain] = s[1]
    BY <1>1 DEF IsList, BeforeIn
  <2> QED BY <2>1, <2>2 DEF IsList
<1> QED BY <1>1, <1>2, <1>3, <1>4

(* A task linked behind the last one, and marked as the end.               *)
LEMMA ListAppend ==
    ASSUME TcbAssumption, NEW next \in [Node -> Task \cup {Nil}], NEW s, IsList(next, s),
           NEW t \in Task, t \notin ToSet(s)
    PROVE  /\ IsList([[next EXCEPT ![EndOf(s)] = t] EXCEPT ![t] = Nil], Append(s, t))
           /\ ToSet(Append(s, t)) = ToSet(s) \cup {t}
<1>1. s \in Seq(Task) /\ Len(s) \in Nat /\ t \in Node /\ TcbChain \notin Task
  BY DEF IsList, Node, TcbAssumption, Task
<1>2. PICK r \in Seq(Task) :
         /\ r = Append(s, t) /\ Len(r) = Len(s) + 1 /\ r[Len(s) + 1] = t
         /\ \A i \in 1 .. Len(s) : r[i] = s[i]
  <2>1. /\ Append(s, t) \in Seq(Task) /\ Len(Append(s, t)) = Len(s) + 1
        /\ Append(s, t)[Len(s) + 1] = t
        /\ \A i \in 1 .. Len(s) : Append(s, t)[i] = s[i]
    BY <1>1, AppendFacts
  <2> QED BY <2>1
<1>3. PICK m : m = [[next EXCEPT ![EndOf(s)] = t] EXCEPT ![t] = Nil]
  OBVIOUS
<1>4. EndOf(s) \in Node /\ EndOf(s) # t
  <2>1. EndOf(s) \in ToSet(s) \cup {TcbChain}
    BY <1>1 DEF EndOf, ToSet
  <2> QED BY <1>1, <2>1, EndIsNode
<1>5. /\ m[EndOf(s)] = t /\ m[t] = Nil
      /\ \A p \in Node : p # t /\ p # EndOf(s) => m[p] = next[p]
  BY <1>1, <1>3, <1>4
<1>6. \A i \in 1 .. Len(r) : m[BeforeIn(r, i)] = r[i]
  <2> TAKE i \in 1 .. Len(r)
  <2>1. CASE i = Len(s) + 1
    <3>1. BeforeIn(r, i) = EndOf(s)
      BY <1>1, <1>2, <2>1 DEF BeforeIn, EndOf
    <3> QED BY <1>2, <1>5, <2>1, <3>1
  <2>2. CASE i \in 1 .. Len(s)
    <3>1. BeforeIn(r, i) = BeforeIn(s, i)
      BY <1>1, <1>2, <2>2 DEF BeforeIn
    <3>2. BeforeIn(s, i) \in Node /\ BeforeIn(s, i) # t
      BY <1>1, <2>2 DEF BeforeIn, ToSet, Node
    <3>3. BeforeIn(s, i) # EndOf(s)
      BY <1>1, <2>2 DEF BeforeIn, EndOf, IsList
    <3>4. next[BeforeIn(s, i)] = s[i]
      BY <2>2 DEF IsList
    <3> QED BY <1>2, <1>5, <2>2, <3>1, <3>2, <3>3, <3>4
  <2> QED BY <1>1, <1>2, <2>1, <2>2
<1>7. \A i, j \in 1 .. Len(r) : r[i] = r[j] => i = j
  <2>1. \A i \in 1 .. Len(s) : s[i] # t
    BY <1>1 DEF ToSet
  <2> QED BY <1>1, <1>2, <2>1 DEF IsList
<1>8. m[EndOf(r)] = Nil
  BY <1>1, <1>2, <1>5 DEF EndOf
<1>9. ToSet(r) = ToSet(s) \cup {t}
  <2>1. DOMAIN r = 1 .. (Len(s) + 1) /\ DOMAIN s = 1 .. Len(s)
    BY <1>1, <1>2
  <2>2. \A i \in 1 .. (Len(s) + 1) : i \in 1 .. Len(s) \/ i = Len(s) + 1
    BY <1>1
  <2>3. Len(s) + 1 \in 1 .. (Len(s) + 1) /\ 1 .. Len(s) \subseteq 1 .. (Len(s) + 1)
    BY <1>1
  <2> QED BY <1>2, <2>1, <2>2, <2>3 DEF ToSet
<1> QED BY <1>2, <1>3, <1>6, <1>7, <1>8, <1>9 DEF IsList

(* The first task taken out.                                               *)
LEMMA ListTail ==
    ASSUME TcbAssumption, NEW next \in [Node -> Task \cup {Nil}], NEW s, IsList(next, s),
           s # << >>
    PROVE  /\ IsList([next EXCEPT ![TcbChain] = next[s[1]]], Tail(s))
           /\ ToSet(Tail(s)) = ToSet(s) \ {s[1]}
<1>1. s \in Seq(Task) /\ Len(s) \in Nat /\ Len(s) > 0 /\ TcbChain \notin Task
  BY DEF IsList, TcbAssumption, Task
<1>2. PICK r \in Seq(Task) : /\ r = Tail(s) /\ Len(r) = Len(s) - 1
                            /\ \A i \in 1 .. (Len(s) - 1) : r[i] = s[i + 1]
  <2>1. s \in Seq(Task) /\ s # << >>
    BY <1>1
  <2>2. Tail(s) \in Seq(Task) /\ Len(Tail(s)) = Len(s) - 1
    BY <2>1
  <2>3. \A i \in 1 .. (Len(s) - 1) : Tail(s)[i] = s[i + 1]
    BY <2>1
  <2> QED BY <2>2, <2>3
<1>3. PICK m : m = [next EXCEPT ![TcbChain] = next[s[1]]]
  OBVIOUS
<1>4. m[TcbChain] = next[s[1]] /\ \A p \in Task : m[p] = next[p]
  BY <1>1, <1>3 DEF Node
<1>5. \A i \in 1 .. Len(s) : s[i] \in Task
  BY <1>1
<1>6. \A i \in 1 .. Len(r) : m[BeforeIn(r, i)] = r[i]
  <2> TAKE i \in 1 .. Len(r)
  <2>1. i + 1 \in 1 .. Len(s) /\ r[i] = s[i + 1] /\ next[BeforeIn(s, i + 1)] = s[i + 1]
    BY <1>1, <1>2 DEF IsList
  <2>2. BeforeIn(s, i + 1) = s[i]
    BY <1>1, <1>2 DEF BeforeIn
  <2>3. CASE i = 1
    <3>1. m[BeforeIn(r, i)] = next[s[1]]
      BY <1>4, <2>3 DEF BeforeIn
    <3> QED BY <2>1, <2>2, <2>3, <3>1
  <2>4. CASE i # 1
    <3>1. i - 1 \in 1 .. (Len(s) - 1) /\ i \in 1 .. Len(s) /\ (i - 1) + 1 = i
      BY <1>1, <1>2, <2>4
    <3>2. BeforeIn(r, i) = s[i]
      BY <1>2, <2>4, <3>1 DEF BeforeIn
    <3> QED BY <1>4, <1>5, <2>1, <2>2, <3>1, <3>2
  <2> QED BY <2>3, <2>4
<1>7. m[EndOf(r)] = Nil
  <2>1. next[s[Len(s)]] = Nil
    BY <1>1 DEF IsList, EndOf
  <2>2. CASE Len(s) = 1
    <3>1. r = << >>
      BY <1>2, <2>2
    <3>2. EndOf(r) = TcbChain
      BY <3>1 DEF EndOf
    <3>3. m[TcbChain] = Nil
      BY <1>4, <2>1, <2>2
    <3> QED BY <3>2, <3>3
  <2>3. CASE Len(s) > 1
    <3>1. EndOf(r) = s[Len(s)]
      <4>1. Len(r) = Len(s) - 1 /\ Len(r) \in 1 .. (Len(s) - 1) /\ Len(r) + 1 = Len(s)
        BY <1>1, <1>2, <2>3
      <4>2. r # << >>
        BY <4>1
      <4>3. r[Len(r)] = s[Len(s)]
        BY <1>2, <4>1
      <4> QED BY <4>2, <4>3 DEF EndOf
    <3>2. s[Len(s)] \in Task
      BY <1>1, <1>5
    <3>3. m[s[Len(s)]] = next[s[Len(s)]]
      BY <1>4, <3>2
    <3> QED BY <2>1, <3>1, <3>3
  <2>4. Len(s) = 1 \/ Len(s) > 1
    <3>1. PICK l \in Nat : l = Len(s) /\ l > 0
      BY <1>1
    <3> QED BY <3>1
  <2> QED BY <2>2, <2>3, <2>4
<1>8. \A i, j \in 1 .. Len(r) : r[i] = r[j] => i = j
  BY <1>1, <1>2 DEF IsList
<1>9. ToSet(r) = ToSet(s) \ {s[1]}
  <2>1. DOMAIN r = 1 .. (Len(s) - 1) /\ DOMAIN s = 1 .. Len(s)
    BY <1>1, <1>2
  <2>2. \A i \in 1 .. (Len(s) - 1) : i + 1 \in 1 .. Len(s) /\ s[i + 1] # s[1]
    BY <1>1 DEF IsList
  <2>3. \A i \in 1 .. Len(s) : s[i] # s[1] => i - 1 \in 1 .. (Len(s) - 1) /\ r[i - 1] = s[i]
    BY <1>1, <1>2
  <2>4. ASSUME NEW x \in ToSet(r)
        PROVE  x \in ToSet(s) \ {s[1]}
    <3>1. PICK i \in 1 .. (Len(s) - 1) : x = s[i + 1]
      BY <1>2, <2>1, <2>4 DEF ToSet
    <3> QED BY <2>1, <2>2, <3>1 DEF ToSet
  <2>5. ASSUME NEW x \in ToSet(s), x # s[1]
        PROVE  x \in ToSet(r)
    <3>1. PICK i \in 1 .. Len(s) : x = s[i]
      BY <2>1, <2>5 DEF ToSet
    <3> QED BY <2>1, <2>3, <2>5, <3>1 DEF ToSet
  <2> QED BY <2>4, <2>5
<1> QED BY <1>2, <1>3, <1>6, <1>7, <1>8, <1>9 DEF IsList

-----------------------------------------------------------------------------
(* A list without one of its tasks.                                        *)

Distinct(s) == \A i, j \in 1 .. Len(s) : s[i] = s[j] => i = j

LEMMA WithoutNone ==
    \A s, t : t \notin ToSet(s) => Without(s, t) = s
BY DEF Without

LEMMA WithoutFirst ==
    ASSUME NEW s \in Seq(Task), Distinct(s), s # << >>
    PROVE  Without(s, s[1]) = Tail(s)
<1>1. Len(s) \in Nat /\ Len(s) > 0 /\ DOMAIN s = 1 .. Len(s)
  OBVIOUS
<1>2. (CHOOSE i \in DOMAIN s : s[i] = s[1]) = 1
  BY <1>1 DEF Distinct
<1>3. s[1] \in ToSet(s)
  BY <1>1 DEF ToSet
<1>4. Without(s, s[1]) = RemoveAt(s, 1)
  BY <1>2, <1>3 DEF Without
<1>5. RemoveAt(s, 1) = Tail(s)
  BY <1>1 DEF RemoveAt
<1> QED BY <1>4, <1>5

LEMMA WithoutLast ==
    ASSUME NEW s \in Seq(Task), Distinct(s), s # << >>
    PROVE  Without(s, s[Len(s)]) = SubSeq(s, 1, Len(s) - 1)
<1>1. Len(s) \in Nat /\ Len(s) > 0 /\ DOMAIN s = 1 .. Len(s)
  OBVIOUS
<1>2. (CHOOSE i \in DOMAIN s : s[i] = s[Len(s)]) = Len(s)
  BY <1>1 DEF Distinct
<1>3. s[Len(s)] \in ToSet(s)
  BY <1>1 DEF ToSet
<1>4. Without(s, s[Len(s)]) = RemoveAt(s, Len(s))
  BY <1>2, <1>3 DEF Without
<1>5. RemoveAt(s, Len(s)) = SubSeq(s, 1, Len(s) - 1)
  BY <1>1 DEF RemoveAt
<1> QED BY <1>4, <1>5

LEMMA WithoutAdded ==
    ASSUME NEW s \in Seq(Task), NEW t \in Task, t \notin ToSet(s), Distinct(Append(s, t))
    PROVE  Without(Append(s, t), t) = s
<1>1. PICK q \in Seq(Task) :
         /\ q = Append(s, t) /\ Len(q) = Len(s) + 1 /\ q[Len(s) + 1] = t
         /\ \A i \in 1 .. Len(s) : q[i] = s[i]
  <2>1. /\ Append(s, t) \in Seq(Task) /\ Len(Append(s, t)) = Len(s) + 1
        /\ Append(s, t)[Len(s) + 1] = t
        /\ \A i \in 1 .. Len(s) : Append(s, t)[i] = s[i]
    BY AppendFacts
  <2> QED BY <2>1
<1>2. q # << >> /\ q[Len(q)] = t
  BY <1>1
<1>3. Without(q, t) = SubSeq(q, 1, Len(q) - 1)
  BY <1>1, <1>2, WithoutLast
<1>4. SubSeq(q, 1, Len(q) - 1) = s
  BY <1>1
<1> QED BY <1>1, <1>3, <1>4

-----------------------------------------------------------------------------
(* The inductive invariant.  The stacks: a program, alone or interrupted   *)
(* by one handler; only the running task is in the middle of something.    *)

Appending == {"append", "append_link", "append_end"}
Handling  == {"find", "test", "take", "unlink", "tail", "relink", "mark_tail", "next",
              "test_ready", "not_next", "not_current", "jmp", "return"}

FrameSet ==
    [at : Appending \cup Handling \cup {"run"}, eax : Node \cup {Nil},
     ebx : Task \cup {Nil}, ecx : Task \cup {Nil}, open : BOOLEAN]

IsStack(s) ==
    /\ s \in Seq(FrameSet)
    /\ \/ Len(s) = 1 /\ s[1].at \in Appending \cup {"run"}
       \/ Len(s) = 2 /\ s[2].at \in Handling /\ s[1].at = "run" /\ s[1].open
    /\ Last(s).open <=> Last(s).at = "run"

StacksOf(fr, r) ==
    /\ fr \in [Task -> Seq(FrameSet)]
    /\ \A t \in Task : IsStack(fr[t])
    /\ \A t \in Task \ {r} : Last(fr[t]).at \in {"run", "return"}
    /\ r \in Task /\ (Last(fr[r]).at \in Appending => r = Core)

(* The status words: the running task is marked busy, but for the two      *)
(* instructions that hand the mark on.                                     *)
StatusOf(n, st, r) ==
    /\ st \in [Task -> {Busy, Ready}]
    /\ \A t \in Task : st[t] = Busy <=> \/ t = r /\ n.at # "jmp"
                                        \/ t = n.eax /\ n.at \in {"not_current", "jmp"}

(* The links, and the registers of the code that changes them: c is the    *)
(* list, r the running task, ld the tasks loaded.                          *)
EndedOf(n, lk) ==
    IF n.at = "append_end" THEN [lk EXCEPT ![n.ecx] = Nil]
    ELSE IF n.at = "mark_tail" THEN [lk EXCEPT ![n.ebx] = Nil]
    ELSE lk

Turning == {"mark_tail", "next", "test_ready", "not_next", "not_current", "jmp"}

ListsAll(n, r, ld, c) ==
    /\ n.at \in {"append", "append_link"} => ToSet(c) = ld \ {n.ecx}
    /\ n.at \in {"tail", "relink"} => ToSet(c) = ld \ {r}
    /\ n.at \notin {"append", "append_link", "tail", "relink"} => ToSet(c) = ld

FirstIs(n, r, c) ==
    /\ n.at \in {"append", "append_link"} /\ n.ecx # Core => c # << >> /\ c[1] = Core
    /\ n.at \in {"append", "append_link"} /\ n.ecx = Core => c = << >>
    /\ n.at \in {"run", "append_end", "find", "test", "take", "unlink", "return"} => c[1] = r
    /\ n.at \in {"not_next", "not_current", "jmp"} => c[1] # r
    /\ n.at \in Turning => c[Len(c)] = r

Registers(n, lk, r, ld, c) ==
    /\ n.at \in Appending => n.ecx \in ld
    /\ n.at \in {"append", "append_link", "tail", "relink"} => n.eax \in ToSet(c) \cup {TcbChain}
    /\ n.at \in {"append_link", "relink"} => lk[n.eax] = Nil
    /\ n.at \in {"find", "test", "take", "unlink"} => n.eax = TcbChain
    /\ n.at \in {"test", "take", "unlink", "tail", "relink"} \cup Turning => n.ebx = r
    /\ n.at = "unlink" => n.ecx = lk[r]
    /\ n.at = "next" => n.eax = TcbChain \/ (n.eax = r /\ c = <<r>>)
    /\ n.at \in {"test_ready", "not_next", "not_current", "jmp"} => n.eax = c[1]

ShapeOf(n, lk, r, ld, c) ==
    /\ lk \in [Node -> Task \cup {Nil}]
    /\ r \in ld /\ ld \subseteq Task
    /\ IsList(EndedOf(n, lk), c)
    /\ ListsAll(n, r, ld, c)
    /\ FirstIs(n, r, c)
    /\ Registers(n, lk, r, ld, c)

Stacks   == StacksOf(frames, tr)
Statuses == StatusOf(Now, status, tr)
Shape    == ShapeOf(Now, link, tr, loaded, Ended)

IInv == Stacks /\ Statuses /\ Shape

-----------------------------------------------------------------------------
(* What every step needs: the frame executed, and the list by name.        *)

LEMMA NodeFacts ==
    ASSUME TcbAssumption
    PROVE  /\ Nil \notin Node /\ TcbChain \notin Task /\ TcbChain # Nil
           /\ Core \in Task /\ Core \notin User /\ Node = Task \cup {TcbChain}
           /\ User \subseteq Task
BY DEF TcbAssumption, Task, Node

LEMMA EndedType ==
    ASSUME TcbAssumption, NEW n \in FrameSet, NEW lk \in [Node -> Task \cup {Nil}]
    PROVE  EndedOf(n, lk) \in [Node -> Task \cup {Nil}]
BY DEF EndedOf

(* The list found in memory is the c of the shape.                         *)
LEMMA EndedIs ==
    ASSUME TcbAssumption, NEW n \in FrameSet, NEW c, ShapeOf(n, link, tr, loaded, c), Now = n
    PROVE  Ended = c
<1>1. Ended = ListOf(EndedOf(n, link))
  BY DEF Ended, EndedOf, At
<1>2. link \in [Node -> Task \cup {Nil}] /\ IsList(EndedOf(n, link), c)
  BY DEF ShapeOf
<1>3. EndedOf(n, link) \in [Node -> Task \cup {Nil}]
  BY <1>2, EndedType
<1> HIDE DEF EndedOf
<1> QED BY <1>1, <1>2, <1>3, ListFound

LEMMA NowIs ==
    ASSUME Stacks
    PROVE  /\ Now \in FrameSet /\ tr \in Task
           /\ Now.open <=> Now.at = "run"
           /\ Now.at \in Appending => tr = Core
           /\ frames[tr] \in Seq(FrameSet)
           /\ Now.at \in Handling => Len(frames[tr]) = 2
           /\ Now.at \notin Handling => Len(frames[tr]) = 1
<1>1. tr \in Task /\ IsStack(frames[tr])
  BY DEF Stacks, StacksOf
<1>2. frames[tr] \in Seq(FrameSet) /\ Len(frames[tr]) \in {1, 2}
  BY <1>1 DEF IsStack
<1>3. Now = frames[tr][Len(frames[tr])]
  BY DEF Now, Last
<1>4. Now \in FrameSet
  BY <1>2, <1>3
<1>5. Now.open <=> Now.at = "run"
  BY <1>1 DEF IsStack, Now
<1>6. Now.at \in Appending => tr = Core
  BY DEF Stacks, StacksOf, Now
<1>7. /\ Now.at \in Handling => Len(frames[tr]) = 2
      /\ Now.at \notin Handling => Len(frames[tr]) = 1
  <2>1. CASE Len(frames[tr]) = 1 /\ frames[tr][1].at \in Appending \cup {"run"}
    BY <1>3, <2>1 DEF Appending, Handling
  <2>2. CASE Len(frames[tr]) = 2 /\ frames[tr][2].at \in Handling
    BY <1>3, <2>2
  <2> QED BY <1>1, <2>1, <2>2 DEF IsStack
<1> QED BY <1>1, <1>2, <1>4, <1>5, <1>6, <1>7

(* A frame that may take the place of n.                                   *)
Follows(f, n) ==
    /\ f \in FrameSet
    /\ f.at \in Handling <=> n.at \in Handling
    /\ f.open <=> f.at = "run"

LEMMA FrontBack ==
    ASSUME NEW S, NEW s \in Seq(S), NEW x \in S, Len(s) > 0
    PROVE  /\ Append(Front(s), x) \in Seq(S)
           /\ Len(Append(Front(s), x)) = Len(s)
           /\ Append(Front(s), x)[Len(s)] = x
           /\ \A i \in 1 .. (Len(s) - 1) : Append(Front(s), x)[i] = s[i]
<1>1. Len(s) \in Nat
  OBVIOUS
<1>2. Front(s) = SubSeq(s, 1, Len(s) - 1)
  BY DEF Front
<1>3. PICK q \in Seq(S) : q = Front(s) /\ Len(q) = Len(s) - 1
                          /\ \A i \in 1 .. (Len(s) - 1) : q[i] = s[i]
  BY <1>1, <1>2
<1>4. Append(q, x) \in Seq(S) /\ Len(Append(q, x)) = Len(q) + 1
  OBVIOUS
<1>5. Append(q, x)[Len(q) + 1] = x
  OBVIOUS
<1>6. \A i \in 1 .. Len(q) : Append(q, x)[i] = q[i]
  OBVIOUS
<1> QED BY <1>1, <1>3, <1>4, <1>5, <1>6

LEMMA BecomeKeeps ==
    ASSUME Stacks, NEW f, Follows(f, Now), Become(f), f.at \in Appending => tr = Core
    PROVE  /\ StacksOf(frames', tr) /\ Last(frames'[tr]) = f
           /\ \A t \in Task \ {tr} : frames'[t] = frames[t]
<1>1. frames \in [Task -> Seq(FrameSet)] /\ tr \in Task
  BY DEF Stacks, StacksOf
<1>2. PICK s, u : s = frames[tr] /\ u = Append(Front(s), f)
  OBVIOUS
<1>3. IsStack(s) /\ s \in Seq(FrameSet) /\ Len(s) \in {1, 2} /\ f \in FrameSet
  BY <1>1, <1>2 DEF Stacks, StacksOf, IsStack, Follows
<1>4. /\ u \in Seq(FrameSet) /\ Len(u) = Len(s) /\ u[Len(s)] = f
      /\ \A i \in 1 .. (Len(s) - 1) : u[i] = s[i]
  <2>1. Len(s) > 0
    BY <1>3
  <2> QED BY <1>2, <1>3, <2>1, FrontBack
<1>5. frames' = [frames EXCEPT ![tr] = u]
  BY <1>2 DEF Become
<1>6. frames' \in [Task -> Seq(FrameSet)] /\ frames'[tr] = u
      /\ \A t \in Task \ {tr} : frames'[t] = frames[t]
  BY <1>1, <1>4, <1>5
<1>7. Last(u) = f
  BY <1>4 DEF Last
<1>8. IsStack(u)
  <2>1. CASE Len(s) = 1
    <3>1. f.at \in Appending \cup {"run"}
      <4>1. Now.at \notin Handling
        BY <1>2, <2>1, NowIs
      <4> QED BY <1>3, <4>1 DEF Follows, FrameSet
    <3> QED BY <1>4, <1>7, <2>1, <3>1 DEF IsStack, Follows
  <2>2. CASE Len(s) = 2
    <3>1. f.at \in Handling
      <4>1. Now.at \in Handling
        BY <1>2, <2>2, NowIs
      <4> QED BY <4>1 DEF Follows
    <3>2. u[1] = s[1] /\ s[1].at = "run" /\ s[1].open
      BY <1>3, <1>4, <2>2 DEF IsStack
    <3> QED BY <1>4, <1>7, <2>2, <3>1, <3>2 DEF IsStack, Follows
  <2> QED BY <1>3, <2>1, <2>2
<1>9. \A t \in Task \ {tr} : IsStack(frames'[t]) /\ Last(frames'[t]).at \in {"run", "return"}
  BY <1>6 DEF Stacks, StacksOf
<1> QED BY <1>1, <1>6, <1>7, <1>8, <1>9 DEF StacksOf

(* The three parts of the next state, the list by name.                    *)
LEMMA Changed ==
    ASSUME TcbAssumption, Stacks', NEW f \in FrameSet, Now' = f,
           StatusOf(f, status', tr'),
           NEW d, ShapeOf(f, link', tr', loaded', d)
    PROVE  IInv' /\ Ended' = d
<1>1. PICK k : k = EndedOf(f, link')
  OBVIOUS
<1>2. Ended' = ListOf(k)
  BY <1>1 DEF Ended, EndedOf, At
<1>3. link' \in [Node -> Task \cup {Nil}] /\ IsList(k, d)
  BY <1>1 DEF ShapeOf
<1>4. k \in [Node -> Task \cup {Nil}]
  BY <1>1, <1>3, EndedType
<1>5. Ended' = d
  BY <1>2, <1>3, <1>4, ListFound
<1>6. Shape'
  BY <1>5 DEF Shape
<1>7. Statuses'
  BY DEF Statuses
<1> QED BY <1>5, <1>6, <1>7 DEF IInv

(* The step of the running task that stays within its top frame.           *)
LEMMA Kept ==
    ASSUME TcbAssumption, Stacks, NEW f, Follows(f, Now), Become(f), tr' = tr,
           f.at \in Appending => tr = Core,
           StatusOf(f, status', tr),
           NEW d, ShapeOf(f, link', tr, loaded', d)
    PROVE  IInv' /\ Ended' = d
<1>1. StacksOf(frames', tr) /\ Last(frames'[tr]) = f
  BY BecomeKeeps
<1>2. Stacks' /\ Now' = f
  BY <1>1 DEF Stacks, Now
<1>3. f \in FrameSet
  BY DEF Follows
<1> QED BY <1>2, <1>3, Changed

-----------------------------------------------------------------------------
(* What the round robin sees of a step.                                    *)

RR == INSTANCE RoundRobin WITH running <- tr, queue <- Queue, frozen <- FALSE

Turn == RR!Next \/ UNCHANGED RR!vars

LEMMA SameQueue ==
    ASSUME tr' = tr, Without(Ended', tr) = Without(Ended, tr)
    PROVE  Turn
BY DEF Turn, Queue, RR!vars

(* The facts of a state by constants: n is the frame, c the list.          *)
LEMMA Named ==
    ASSUME TcbAssumption, IInv
    PROVE  /\ Stacks /\ StatusOf(Now, status, tr)
           /\ ShapeOf(Now, link, tr, loaded, Ended)
           /\ Ended \in Seq(Task)
           /\ link \in [Node -> Task \cup {Nil}]
           /\ \A p \in ToSet(Ended) \cup {TcbChain} : p \in Node
<1>1. Stacks /\ StatusOf(Now, status, tr) /\ ShapeOf(Now, link, tr, loaded, Ended)
  BY DEF IInv, Statuses, Shape
<1>2. Ended \in Seq(Task) /\ link \in [Node -> Task \cup {Nil}]
  BY <1>1 DEF ShapeOf, IsList
<1>3. \A p \in ToSet(Ended) \cup {TcbChain} : p \in Node
  BY <1>2, NodeFacts DEF ToSet
<1> QED BY <1>1, <1>2, <1>3

(* A step to f that changes no word in memory and leaves the list alone.   *)
LEMMA Reads ==
    ASSUME TcbAssumption, IInv, NEW f, Follows(f, Now), Become(f),
           UNCHANGED <<link, status, tr, loaded>>,
           f.at \in Appending => tr = Core,
           StatusOf(f, status, tr),
           ShapeOf(f, link, tr, loaded, Ended)
    PROVE  IInv' /\ Turn
<1>1. PICK d : d = Ended
  OBVIOUS
<1>2. ShapeOf(f, link', tr, loaded', d) /\ StatusOf(f, status', tr) /\ tr' = tr
  BY <1>1
<1>3. IInv' /\ Ended' = d
  BY <1>2, Kept DEF IInv
<1> QED BY <1>1, <1>2, <1>3, SameQueue

-----------------------------------------------------------------------------
(* append_to_tcb_link.                                                     *)

LEMMA AppendWalkKeeps ==
    ASSUME TcbAssumption, IInv, AppendWalk
    PROVE  IInv' /\ Turn
<1>1. PICK n, c, r, k : n = Now /\ c = Ended /\ r = tr /\ k = link
  OBVIOUS
<1>2. n \in FrameSet /\ n.at = "append" /\ ~n.open /\ (n.at \in Appending => r = Core)
  BY <1>1, Named, NowIs DEF AppendWalk, At
<1>3. ShapeOf(n, k, r, loaded, c) /\ StatusOf(n, status, r)
  BY <1>1, Named
<1>4. PICK f : f = IF k[n.eax] = Nil THEN [n EXCEPT !.at = "append_link"]
                   ELSE [n EXCEPT !.eax = k[n.eax]]
  OBVIOUS
<1>5. Become(f) /\ UNCHANGED <<link, status, tr, loaded>>
  BY <1>1, <1>4 DEF AppendWalk, Goto
<1>6. n.eax \in ToSet(c) \cup {TcbChain} /\ IsList(k, c)
  BY <1>2, <1>3 DEF ShapeOf, Registers, EndedOf
<1>7. k[n.eax] = Nil \/ k[n.eax] \in ToSet(c)
  BY <1>6, ListEnd
<1>8. \A p \in ToSet(c) : p \in Node /\ p # Nil
  BY <1>1, Named, NodeFacts
<1>9. CASE k[n.eax] = Nil
  <2>1. f = [n EXCEPT !.at = "append_link"]
    BY <1>4, <1>9
  <2>2. f \in FrameSet /\ f.at = "append_link" /\ f.eax = n.eax /\ f.ebx = n.ebx
        /\ f.ecx = n.ecx /\ ~f.open
    BY <1>2, <2>1 DEF FrameSet, Appending
  <2>3. ShapeOf(f, k, r, loaded, c)
    BY <1>2, <1>3, <1>9, <2>2
    DEF ShapeOf, ListsAll, FirstIs, Registers, EndedOf, Appending, Turning
  <2>4. StatusOf(f, status, r)
    BY <1>2, <1>3, <2>2 DEF StatusOf
  <2>5. Follows(f, n)
    BY <1>2, <2>2 DEF Follows, Handling
  <2> QED BY <1>1, <1>2, <1>5, <2>2, <2>3, <2>4, <2>5, Reads DEF Appending
<1>10. CASE k[n.eax] # Nil
  <2>1. f = [n EXCEPT !.eax = k[n.eax]]
    BY <1>4, <1>10
  <2>2. f \in FrameSet /\ f.at = "append" /\ f.eax = k[n.eax] /\ f.ebx = n.ebx
        /\ f.ecx = n.ecx /\ ~f.open
    BY <1>2, <1>7, <1>8, <1>10, <2>1 DEF FrameSet, Appending
  <2>3. ShapeOf(f, k, r, loaded, c)
    BY <1>2, <1>3, <1>7, <1>10, <2>2
    DEF ShapeOf, ListsAll, FirstIs, Registers, EndedOf, Appending, Turning
  <2>4. StatusOf(f, status, r)
    BY <1>2, <1>3, <2>2 DEF StatusOf
  <2>5. Follows(f, n)
    BY <1>2, <2>2 DEF Follows, Handling
  <2> QED BY <1>1, <1>2, <1>5, <2>2, <2>3, <2>4, <2>5, Reads DEF Appending
<1> QED BY <1>9, <1>10

LEMMA LoadProgramKeeps ==
    ASSUME TcbAssumption, IInv, NEW u \in User, LoadProgram(u)
    PROVE  IInv' /\ Turn
<1>1. PICK n, c, r, k : n = Now /\ c = Ended /\ r = tr /\ k = link
  OBVIOUS
<1>2. n \in FrameSet /\ n.at = "run" /\ r = Core
  BY <1>1, Named, NowIs DEF LoadProgram, At
<1>3. ShapeOf(n, k, r, loaded, c) /\ StatusOf(n, status, r)
  BY <1>1, Named
<1>4. k \in [Node -> Task \cup {Nil}] /\ r \in Task /\ c \in Seq(Task)
  BY <1>3 DEF ShapeOf, IsList
<1>5. PICK f : f = [Frame("append", FALSE) EXCEPT !.ecx = u]
  OBVIOUS
<1>6. Become(f) /\ UNCHANGED <<link, status, tr>> /\ loaded' = loaded \cup {u} /\ u \notin loaded
  BY <1>5 DEF LoadProgram
<1>7. /\ u \in Task /\ u # Core
      /\ f \in FrameSet /\ f.at = "append" /\ f.eax = TcbChain /\ f.ecx = u /\ ~f.open
  BY <1>5, NodeFacts DEF Frame, FrameSet, Appending
<1>8. IsList(k, c) /\ ToSet(c) = loaded /\ c[1] = r /\ loaded \subseteq Task /\ r \in loaded
  BY <1>2, <1>3 DEF ShapeOf, ListsAll, FirstIs, EndedOf
<1>9. c # << >>
  BY <1>8 DEF ToSet
<1>10. ToSet(c) = (loaded \cup {u}) \ {u}
  BY <1>6, <1>8
<1>11. ShapeOf(f, k, r, loaded \cup {u}, c)
  BY <1>2, <1>4, <1>7, <1>8, <1>9, <1>10
  DEF ShapeOf, ListsAll, FirstIs, Registers, EndedOf, Turning
<1>12. StatusOf(f, status, r)
  BY <1>2, <1>3, <1>7 DEF StatusOf
<1>13. Follows(f, n)
  BY <1>2, <1>7 DEF Follows, Handling
<1>14. /\ StatusOf(f, status', tr) /\ ShapeOf(f, link', tr, loaded', c) /\ tr' = tr
       /\ Follows(f, Now) /\ Stacks /\ (f.at \in Appending => tr = Core)
  BY <1>1, <1>2, <1>6, <1>11, <1>12, <1>13 DEF IInv
<1>15. IInv' /\ Ended' = c
  BY <1>6, <1>14, Kept
<1> QED BY <1>1, <1>14, <1>15, SameQueue

LEMMA AppendLinkKeeps ==
    ASSUME TcbAssumption, IInv, AppendLink
    PROVE  IInv' /\ Turn
<1>1. PICK n, c, r, k : n = Now /\ c = Ended /\ r = tr /\ k = link
  OBVIOUS
<1>2. n \in FrameSet /\ n.at = "append_link" /\ ~n.open /\ (n.at \in Appending => r = Core)
  BY <1>1, Named, NowIs DEF AppendLink, At
<1>3. ShapeOf(n, k, r, loaded, c) /\ StatusOf(n, status, r)
  BY <1>1, Named
<1>4. k \in [Node -> Task \cup {Nil}] /\ r \in Task /\ c \in Seq(Task)
  BY <1>3 DEF ShapeOf, IsList
<1>5. PICK f : f = [n EXCEPT !.at = "append_end"]
  OBVIOUS
<1>6. PICK u : u = n.ecx
  OBVIOUS
<1>7. Become(f) /\ UNCHANGED <<status, tr, loaded>> /\ link' = [k EXCEPT ![n.eax] = u]
  BY <1>1, <1>5, <1>6 DEF AppendLink, Goto
<1>8. f \in FrameSet /\ f.at = "append_end" /\ f.ecx = u /\ ~f.open
  BY <1>2, <1>5, <1>6 DEF FrameSet, Appending
<1>9. u \in loaded /\ u \in Task /\ u \notin ToSet(c)
  BY <1>2, <1>3, <1>6 DEF ShapeOf, ListsAll, Registers, Appending
<1>10. IsList(k, c) /\ n.eax \in ToSet(c) \cup {TcbChain} /\ k[n.eax] = Nil
  BY <1>2, <1>3 DEF ShapeOf, Registers, EndedOf
<1>11. n.eax = EndOf(c)
  BY <1>10, ListEnd
<1>12. link' \in [Node -> Task \cup {Nil}]
  BY <1>4, <1>7, <1>9
<1>13. PICK d : d = Append(c, u)
  OBVIOUS
<1>14. IsList([[k EXCEPT ![EndOf(c)] = u] EXCEPT ![u] = Nil], d) /\ ToSet(d) = ToSet(c) \cup {u}
  <2>1. IsList(k, c) /\ k \in [Node -> Task \cup {Nil}] /\ u \in Task /\ u \notin ToSet(c)
    BY <1>4, <1>9, <1>10
  <2>2. /\ IsList([[k EXCEPT ![EndOf(c)] = u] EXCEPT ![u] = Nil], Append(c, u))
        /\ ToSet(Append(c, u)) = ToSet(c) \cup {u}
    BY <2>1, ListAppend, Zenon
  <2> QED BY <1>13, <2>2, Zenon
<1>15. IsList(EndedOf(f, link'), d)
  BY <1>7, <1>8, <1>11, <1>14 DEF EndedOf
<1>16. ToSet(d) = loaded
  BY <1>2, <1>3, <1>6, <1>9, <1>14 DEF ShapeOf, ListsAll
<1>17. d[1] = r
  <2>1. CASE u = Core
    <3>1. c = << >>
      BY <1>2, <1>3, <1>6, <2>1 DEF ShapeOf, FirstIs
    <3> QED BY <1>2, <1>13, <2>1, <3>1 DEF Appending
  <2>2. CASE u # Core
    <3>1. c # << >> /\ c[1] = Core /\ r = Core
      BY <1>2, <1>3, <1>6, <2>2 DEF ShapeOf, FirstIs, Appending
    <3> QED BY <1>4, <1>9, <1>13, <3>1
  <2> QED BY <2>1, <2>2
<1>18. ShapeOf(f, link', r, loaded, d)
  BY <1>3, <1>8, <1>9, <1>12, <1>15, <1>16, <1>17
  DEF ShapeOf, ListsAll, FirstIs, Registers, Turning
<1>19. StatusOf(f, status, r)
  BY <1>2, <1>3, <1>8 DEF StatusOf
<1>20. Follows(f, n)
  BY <1>2, <1>8 DEF Follows, Handling
<1>21. /\ StatusOf(f, status', tr) /\ ShapeOf(f, link', tr, loaded', d) /\ tr' = tr
       /\ Follows(f, Now) /\ Stacks /\ (f.at \in Appending => tr = Core)
  BY <1>1, <1>2, <1>7, <1>18, <1>19, <1>20 DEF Appending, IInv
<1>22. IInv' /\ Ended' = d
  BY <1>7, <1>21, Kept
<1>23. Without(d, r) = Tail(d)
  <2>1. d \in Seq(Task) /\ Distinct(d)
    BY <1>15 DEF IsList, Distinct
  <2>2. d # << >>
    BY <1>4, <1>9, <1>13
  <2> QED BY <1>17, <2>1, <2>2, WithoutFirst
<1>24. CASE u = Core
  <2>1. c = << >>
    BY <1>2, <1>3, <1>6, <1>24 DEF ShapeOf, FirstIs
  <2>2. Without(c, r) = << >>
    BY <2>1, WithoutNone DEF ToSet
  <2>3. Tail(d) = << >>
    BY <1>13, <2>1
  <2> QED BY <1>1, <1>21, <1>22, <1>23, <2>2, <2>3, SameQueue
<1>25. CASE u # Core
  <2>1. c # << >> /\ c[1] = r /\ r = Core
    BY <1>2, <1>3, <1>6, <1>25 DEF ShapeOf, FirstIs, Appending
  <2>2. Without(c, r) = Tail(c)
    <3>1. Distinct(c)
      BY <1>10 DEF IsList, Distinct
    <3> QED BY <1>4, <2>1, <3>1, WithoutFirst
  <2>3. Tail(d) = Append(Tail(c), u)
    BY <1>4, <1>9, <1>13, <2>1
  <2>4. u \notin { Tail(c)[i] : i \in DOMAIN Tail(c) }
    <3>1. ToSet(Tail(c)) \subseteq ToSet(c)
      BY <1>4, <1>10, <2>1, ListTail
    <3> QED BY <1>9, <3>1 DEF ToSet
  <2>5. u \in User
    BY <1>9, <1>25 DEF Task
  <2>6. Queue = Tail(c) /\ Queue' = Append(Tail(c), u)
    BY <1>1, <1>21, <1>22, <1>23, <2>2, <2>3 DEF Queue
  <2>7. RR!Admit(u)
    BY <1>1, <1>21, <2>1, <2>4, <2>6 DEF RR!Admit, RR!Waiting
  <2> QED BY <1>22, <2>5, <2>7 DEF Turn, RR!Next
<1> QED BY <1>24, <1>25

LEMMA AppendEndKeeps ==
    ASSUME TcbAssumption, IInv, AppendEnd
    PROVE  IInv' /\ Turn
<1>1. PICK n, c, r, k : n = Now /\ c = Ended /\ r = tr /\ k = link
  OBVIOUS
<1>2. n \in FrameSet /\ n.at = "append_end" /\ ~n.open /\ (n.at \in Appending => r = Core)
  BY <1>1, Named, NowIs DEF AppendEnd, At
<1>3. ShapeOf(n, k, r, loaded, c) /\ StatusOf(n, status, r)
  BY <1>1, Named
<1>4. k \in [Node -> Task \cup {Nil}] /\ r \in Task /\ c \in Seq(Task)
  BY <1>3 DEF ShapeOf, IsList
<1>5. PICK f : f = Frame("run", TRUE)
  OBVIOUS
<1>6. Become(f) /\ UNCHANGED <<status, tr, loaded>> /\ link' = [k EXCEPT ![n.ecx] = Nil]
  BY <1>1, <1>5 DEF AppendEnd
<1>7. f \in FrameSet /\ f.at = "run" /\ f.open
  BY <1>5, NodeFacts DEF Frame, FrameSet
<1>8. link' \in [Node -> Task \cup {Nil}] /\ IsList(link', c)
  BY <1>2, <1>3, <1>4, <1>6 DEF ShapeOf, EndedOf
<1>9. ShapeOf(f, link', r, loaded, c)
  BY <1>2, <1>3, <1>7, <1>8
  DEF ShapeOf, ListsAll, FirstIs, Registers, EndedOf, Appending, Turning
<1>10. StatusOf(f, status, r)
  BY <1>2, <1>3, <1>7 DEF StatusOf
<1>11. Follows(f, n)
  BY <1>2, <1>7 DEF Follows, Handling
<1>12. /\ StatusOf(f, status', tr) /\ ShapeOf(f, link', tr, loaded', c) /\ tr' = tr
       /\ Follows(f, Now) /\ Stacks /\ (f.at \in Appending => tr = Core)
  BY <1>1, <1>6, <1>7, <1>9, <1>10, <1>11 DEF Appending, IInv
<1>13. IInv' /\ Ended' = c
  BY <1>6, <1>12, Kept
<1> QED BY <1>1, <1>12, <1>13, SameQueue

-----------------------------------------------------------------------------
(* The clock handler.                                                      *)

LEMMA FindKeeps ==
    ASSUME TcbAssumption, IInv, Find
    PROVE  IInv' /\ Turn
<1>1. PICK n, c, r, k : n = Now /\ c = Ended /\ r = tr /\ k = link
  OBVIOUS
<1>2. n \in FrameSet /\ n.at = "find" /\ ~n.open
  BY <1>1, Named, NowIs DEF Find, At
<1>3. ShapeOf(n, k, r, loaded, c) /\ StatusOf(n, status, r)
  BY <1>1, Named
<1>4. k \in [Node -> Task \cup {Nil}] /\ r \in Task /\ c \in Seq(Task)
  BY <1>3 DEF ShapeOf, IsList
<1>5. n.eax = TcbChain /\ IsList(k, c) /\ c[1] = r /\ ToSet(c) = loaded /\ r \in loaded
  BY <1>2, <1>3 DEF ShapeOf, ListsAll, FirstIs, Registers, EndedOf
<1>6. c # << >> /\ TcbChain \in ToSet(c) \cup {TcbChain}
  BY <1>5 DEF ToSet
<1>7. k[TcbChain] = r
  BY <1>5, <1>6, ListEnd
<1>8. r # Nil
  BY <1>4, NodeFacts
<1>9. PICK f : f = [n EXCEPT !.ebx = r, !.at = "test"]
  OBVIOUS
<1>10. Become(f) /\ UNCHANGED <<link, status, tr, loaded>>
  BY <1>1, <1>5, <1>7, <1>8, <1>9 DEF Find
<1>11. f \in FrameSet /\ f.at = "test" /\ f.eax = n.eax /\ f.ebx = r /\ f.ecx = n.ecx /\ ~f.open
  BY <1>2, <1>4, <1>5, <1>7, <1>9, NodeFacts DEF FrameSet, Handling
<1>12. ShapeOf(f, k, r, loaded, c)
  BY <1>2, <1>3, <1>5, <1>7, <1>11
  DEF ShapeOf, ListsAll, FirstIs, Registers, EndedOf, Appending, Turning
<1>13. StatusOf(f, status, r)
  BY <1>2, <1>3, <1>11 DEF StatusOf
<1>14. Follows(f, n)
  BY <1>2, <1>11 DEF Follows, Handling
<1> QED BY <1>1, <1>10, <1>11, <1>12, <1>13, <1>14, Reads DEF Appending

LEMMA TestBusyKeeps ==
    ASSUME TcbAssumption, IInv, TestBusy
    PROVE  IInv' /\ Turn
<1>1. PICK n, c, r, k : n = Now /\ c = Ended /\ r = tr /\ k = link
  OBVIOUS
<1>2. n \in FrameSet /\ n.at = "test" /\ ~n.open
  BY <1>1, Named, NowIs DEF TestBusy, At
<1>3. ShapeOf(n, k, r, loaded, c) /\ StatusOf(n, status, r)
  BY <1>1, Named
<1>4. k \in [Node -> Task \cup {Nil}] /\ r \in Task /\ c \in Seq(Task)
  BY <1>3 DEF ShapeOf, IsList
<1>5. status[n.ebx] = Busy
  BY <1>2, <1>3, <1>4 DEF ShapeOf, Registers, StatusOf
<1>6. PICK f : f = [n EXCEPT !.at = "take"]
  OBVIOUS
<1>7. Become(f) /\ UNCHANGED <<link, status, tr, loaded>>
  BY <1>1, <1>5, <1>6 DEF TestBusy, Goto
<1>8. f \in FrameSet /\ f.at = "take" /\ f.eax = n.eax /\ f.ebx = n.ebx /\ f.ecx = n.ecx /\ ~f.open
  BY <1>2, <1>4, <1>6, NodeFacts DEF FrameSet, Handling
<1>9. ShapeOf(f, k, r, loaded, c)
  BY <1>2, <1>3, <1>8
  DEF ShapeOf, ListsAll, FirstIs, Registers, EndedOf, Appending, Turning
<1>10. StatusOf(f, status, r)
  BY <1>2, <1>3, <1>8 DEF StatusOf
<1>11. Follows(f, n)
  BY <1>2, <1>8 DEF Follows, Handling
<1> QED BY <1>1, <1>7, <1>8, <1>9, <1>10, <1>11, Reads DEF Appending

LEMMA TakeNextKeeps ==
    ASSUME TcbAssumption, IInv, TakeNext
    PROVE  IInv' /\ Turn
<1>1. PICK n, c, r, k : n = Now /\ c = Ended /\ r = tr /\ k = link
  OBVIOUS
<1>2. n \in FrameSet /\ n.at = "take" /\ ~n.open
  BY <1>1, Named, NowIs DEF TakeNext, At
<1>3. ShapeOf(n, k, r, loaded, c) /\ StatusOf(n, status, r)
  BY <1>1, Named
<1>4. k \in [Node -> Task \cup {Nil}] /\ r \in Task /\ c \in Seq(Task)
  BY <1>3 DEF ShapeOf, IsList
<1>5. n.ebx = r
  BY <1>2, <1>3 DEF ShapeOf, Registers
<1>6. k[r] \in Task \cup {Nil}
  BY <1>4 DEF Node
<1>7. PICK f : f = [n EXCEPT !.ecx = k[r], !.at = "unlink"]
  OBVIOUS
<1>8. Become(f) /\ UNCHANGED <<link, status, tr, loaded>>
  BY <1>1, <1>5, <1>7 DEF TakeNext
<1>9. f \in FrameSet /\ f.at = "unlink" /\ f.eax = n.eax /\ f.ebx = n.ebx /\ f.ecx = k[r] /\ ~f.open
  BY <1>2, <1>4, <1>5, <1>6, <1>7, NodeFacts DEF FrameSet, Handling
<1>10. ShapeOf(f, k, r, loaded, c)
  BY <1>2, <1>3, <1>5, <1>6, <1>9
  DEF ShapeOf, ListsAll, FirstIs, Registers, EndedOf, Appending, Turning
<1>11. StatusOf(f, status, r)
  BY <1>2, <1>3, <1>9 DEF StatusOf
<1>12. Follows(f, n)
  BY <1>2, <1>9 DEF Follows, Handling
<1> QED BY <1>1, <1>8, <1>9, <1>10, <1>11, <1>12, Reads DEF Appending

LEMMA UnlinkKeeps ==
    ASSUME TcbAssumption, IInv, Unlink
    PROVE  IInv' /\ Turn
<1>1. PICK n, c, r, k : n = Now /\ c = Ended /\ r = tr /\ k = link
  OBVIOUS
<1>2. n \in FrameSet /\ n.at = "unlink" /\ ~n.open
  BY <1>1, Named, NowIs DEF Unlink, At
<1>3. ShapeOf(n, k, r, loaded, c) /\ StatusOf(n, status, r)
  BY <1>1, Named
<1>4. k \in [Node -> Task \cup {Nil}] /\ r \in Task /\ c \in Seq(Task)
  BY <1>3 DEF ShapeOf, IsList
<1>5. PICK f : f = [n EXCEPT !.at = "tail"]
  OBVIOUS
<1>6. Become(f) /\ UNCHANGED <<status, tr, loaded>> /\ link' = [k EXCEPT ![n.eax] = n.ecx]
  BY <1>1, <1>5 DEF Unlink, Goto
<1>7. f \in FrameSet /\ f.at = "tail" /\ f.eax = n.eax /\ f.ebx = n.ebx /\ f.ecx = n.ecx /\ ~f.open
  BY <1>2, <1>5 DEF FrameSet, Handling
<1>8. /\ n.eax = TcbChain /\ n.ebx = r /\ n.ecx = k[r] /\ IsList(k, c) /\ c[1] = r
      /\ ToSet(c) = loaded /\ r \in loaded
  BY <1>2, <1>3 DEF ShapeOf, ListsAll, FirstIs, Registers, EndedOf
<1>9. c # << >>
  BY <1>8 DEF ToSet
<1>10. PICK d : d = Tail(c)
  OBVIOUS
<1>11. IsList([k EXCEPT ![TcbChain] = k[c[1]]], d) /\ ToSet(d) = ToSet(c) \ {c[1]}
  BY <1>4, <1>8, <1>9, <1>10, ListTail
<1>12. link' = [k EXCEPT ![TcbChain] = k[c[1]]]
  BY <1>6, <1>8
<1>13. link' \in [Node -> Task \cup {Nil}]
  <2>1. k[r] \in Task \cup {Nil}
    BY <1>4 DEF Node
  <2> QED BY <1>4, <1>6, <1>8, <2>1
<1>14. ShapeOf(f, link', r, loaded, d)
  BY <1>2, <1>3, <1>7, <1>8, <1>11, <1>12, <1>13
  DEF ShapeOf, ListsAll, FirstIs, Registers, EndedOf, Appending, Turning
<1>15. StatusOf(f, status, r)
  BY <1>2, <1>3, <1>7 DEF StatusOf
<1>16. Follows(f, n)
  BY <1>2, <1>7 DEF Follows, Handling
<1>17. /\ StatusOf(f, status', tr) /\ ShapeOf(f, link', tr, loaded', d) /\ tr' = tr
       /\ Follows(f, Now) /\ Stacks /\ (f.at \in Appending => tr = Core)
  BY <1>1, <1>6, <1>7, <1>14, <1>15, <1>16 DEF Appending, IInv
<1>18. IInv' /\ Ended' = d
  BY <1>6, <1>17, Kept
<1>19. Without(c, r) = d
  <2>1. Distinct(c)
    BY <1>8 DEF IsList, Distinct
  <2> QED BY <1>4, <1>8, <1>9, <1>10, <2>1, WithoutFirst
<1>20. Without(d, r) = d
  BY <1>8, <1>11, WithoutNone
<1> QED BY <1>1, <1>17, <1>18, <1>19, <1>20, SameQueue

LEMMA FindTailKeeps ==
    ASSUME TcbAssumption, IInv, FindTail
    PROVE  IInv' /\ Turn
<1>1. PICK n, c, r, k : n = Now /\ c = Ended /\ r = tr /\ k = link
  OBVIOUS
<1>2. n \in FrameSet /\ n.at = "tail" /\ ~n.open
  BY <1>1, Named, NowIs DEF FindTail, At
<1>3. ShapeOf(n, k, r, loaded, c) /\ StatusOf(n, status, r)
  BY <1>1, Named
<1>4. k \in [Node -> Task \cup {Nil}] /\ r \in Task /\ c \in Seq(Task)
  BY <1>3 DEF ShapeOf, IsList
<1>5. PICK f : f = IF k[n.eax] = Nil THEN [n EXCEPT !.at = "relink"]
                   ELSE [n EXCEPT !.eax = k[n.eax]]
  OBVIOUS
<1>6. Become(f) /\ UNCHANGED <<link, status, tr, loaded>>
  BY <1>1, <1>5 DEF FindTail, Goto
<1>7. n.eax \in ToSet(c) \cup {TcbChain} /\ IsList(k, c)
  BY <1>2, <1>3 DEF ShapeOf, Registers, EndedOf
<1>8. k[n.eax] = Nil \/ k[n.eax] \in ToSet(c)
  BY <1>7, ListEnd
<1>9. \A p \in ToSet(c) : p \in Node /\ p # Nil
  BY <1>1, Named, NodeFacts
<1>10. CASE k[n.eax] = Nil
  <2>1. f = [n EXCEPT !.at = "relink"]
    BY <1>5, <1>10
  <2>2. f \in FrameSet /\ f.at = "relink" /\ f.eax = n.eax /\ f.ebx = n.ebx /\ f.ecx = n.ecx /\ ~f.open
    BY <1>2, <1>8, <1>9, <1>10, <2>1 DEF FrameSet, Handling
  <2>3. ShapeOf(f, k, r, loaded, c)
    BY <1>2, <1>3, <1>8, <1>10, <2>2
    DEF ShapeOf, ListsAll, FirstIs, Registers, EndedOf, Appending, Turning
  <2>4. StatusOf(f, status, r)
    BY <1>2, <1>3, <2>2 DEF StatusOf
  <2>5. Follows(f, n)
    BY <1>2, <2>2 DEF Follows, Handling
  <2> QED BY <1>1, <1>6, <2>2, <2>3, <2>4, <2>5, Reads DEF Appending
<1>11. CASE k[n.eax] # Nil
  <2>1. f = [n EXCEPT !.eax = k[n.eax]]
    BY <1>5, <1>11
  <2>2. f \in FrameSet /\ f.at = "tail" /\ f.eax = k[n.eax] /\ f.ebx = n.ebx /\ f.ecx = n.ecx /\ ~f.open
    BY <1>2, <1>8, <1>9, <1>11, <2>1 DEF FrameSet, Handling
  <2>3. ShapeOf(f, k, r, loaded, c)
    BY <1>2, <1>3, <1>8, <1>11, <2>2
    DEF ShapeOf, ListsAll, FirstIs, Registers, EndedOf, Appending, Turning
  <2>4. StatusOf(f, status, r)
    BY <1>2, <1>3, <2>2 DEF StatusOf
  <2>5. Follows(f, n)
    BY <1>2, <2>2 DEF Follows, Handling
  <2> QED BY <1>1, <1>6, <2>2, <2>3, <2>4, <2>5, Reads DEF Appending
<1> QED BY <1>10, <1>11

LEMMA RelinkKeeps ==
    ASSUME TcbAssumption, IInv, Relink
    PROVE  IInv' /\ Turn
<1>1. PICK n, c, r, k : n = Now /\ c = Ended /\ r = tr /\ k = link
  OBVIOUS
<1>2. n \in FrameSet /\ n.at = "relink" /\ ~n.open
  BY <1>1, Named, NowIs DEF Relink, At
<1>3. ShapeOf(n, k, r, loaded, c) /\ StatusOf(n, status, r)
  BY <1>1, Named
<1>4. k \in [Node -> Task \cup {Nil}] /\ r \in Task /\ c \in Seq(Task)
  BY <1>3 DEF ShapeOf, IsList
<1>5. PICK f : f = [n EXCEPT !.at = "mark_tail"]
  OBVIOUS
<1>6. Become(f) /\ UNCHANGED <<status, tr, loaded>> /\ link' = [k EXCEPT ![n.eax] = n.ebx]
  BY <1>1, <1>5 DEF Relink, Goto
<1>7. f \in FrameSet /\ f.at = "mark_tail" /\ f.eax = n.eax /\ f.ebx = n.ebx /\ f.ecx = n.ecx /\ ~f.open
  BY <1>2, <1>5 DEF FrameSet, Handling
<1>8. /\ n.eax \in ToSet(c) \cup {TcbChain} /\ k[n.eax] = Nil /\ n.ebx = r /\ IsList(k, c)
      /\ ToSet(c) = loaded \ {r} /\ r \in loaded /\ r \notin ToSet(c)
  BY <1>2, <1>3 DEF ShapeOf, ListsAll, Registers, EndedOf
<1>9. n.eax = EndOf(c)
  BY <1>8, ListEnd
<1>10. PICK d : d = Append(c, r)
  OBVIOUS
<1>11. IsList([[k EXCEPT ![EndOf(c)] = r] EXCEPT ![r] = Nil], d) /\ ToSet(d) = ToSet(c) \cup {r}
  <2>1. IsList(k, c) /\ k \in [Node -> Task \cup {Nil}] /\ r \in Task /\ r \notin ToSet(c)
    BY <1>4, <1>8
  <2>2. /\ IsList([[k EXCEPT ![EndOf(c)] = r] EXCEPT ![r] = Nil], Append(c, r))
        /\ ToSet(Append(c, r)) = ToSet(c) \cup {r}
    BY <2>1, ListAppend, Zenon
  <2> QED BY <1>10, <2>2, Zenon
<1>12. link' \in [Node -> Task \cup {Nil}]
  BY <1>4, <1>6, <1>8
<1>13. IsList(EndedOf(f, link'), d)
  BY <1>6, <1>7, <1>8, <1>9, <1>11 DEF EndedOf
<1>14. ToSet(d) = loaded
  BY <1>8, <1>11
<1>15. d[Len(d)] = r
  BY <1>4, <1>10
<1>16. ShapeOf(f, link', r, loaded, d)
  BY <1>3, <1>7, <1>8, <1>12, <1>13, <1>14, <1>15
  DEF ShapeOf, ListsAll, FirstIs, Registers, Appending, Turning
<1>17. StatusOf(f, status, r)
  BY <1>2, <1>3, <1>7 DEF StatusOf
<1>18. Follows(f, n)
  BY <1>2, <1>7 DEF Follows, Handling
<1>19. /\ StatusOf(f, status', tr) /\ ShapeOf(f, link', tr, loaded', d) /\ tr' = tr
       /\ Follows(f, Now) /\ Stacks /\ (f.at \in Appending => tr = Core)
  BY <1>1, <1>6, <1>7, <1>16, <1>17, <1>18 DEF Appending, IInv
<1>20. IInv' /\ Ended' = d
  BY <1>6, <1>19, Kept
<1>21. Without(c, r) = c
  BY <1>8, WithoutNone
<1>22. Without(d, r) = c
  <2>1. Distinct(d)
    BY <1>13 DEF IsList, Distinct
  <2> QED BY <1>4, <1>8, <1>10, <2>1, WithoutAdded
<1> QED BY <1>1, <1>19, <1>20, <1>21, <1>22, SameQueue

LEMMA MarkTailKeeps ==
    ASSUME TcbAssumption, IInv, MarkTail
    PROVE  IInv' /\ Turn
<1>1. PICK n, c, r, k : n = Now /\ c = Ended /\ r = tr /\ k = link
  OBVIOUS
<1>2. n \in FrameSet /\ n.at = "mark_tail" /\ ~n.open
  BY <1>1, Named, NowIs DEF MarkTail, At
<1>3. ShapeOf(n, k, r, loaded, c) /\ StatusOf(n, status, r)
  BY <1>1, Named
<1>4. k \in [Node -> Task \cup {Nil}] /\ r \in Task /\ c \in Seq(Task)
  BY <1>3 DEF ShapeOf, IsList
<1>5. PICK f : f = [n EXCEPT !.eax = TcbChain, !.at = "next"]
  OBVIOUS
<1>6. Become(f) /\ UNCHANGED <<status, tr, loaded>> /\ link' = [k EXCEPT ![n.ebx] = Nil]
  BY <1>1, <1>5 DEF MarkTail
<1>7. f \in FrameSet /\ f.at = "next" /\ f.eax = TcbChain /\ f.ebx = n.ebx /\ f.ecx = n.ecx /\ ~f.open
  BY <1>2, <1>5, NodeFacts DEF FrameSet, Handling
<1>8. link' \in [Node -> Task \cup {Nil}] /\ IsList(link', c)
  BY <1>2, <1>3, <1>4, <1>6 DEF ShapeOf, EndedOf
<1>9. ShapeOf(f, link', r, loaded, c)
  BY <1>2, <1>3, <1>7, <1>8
  DEF ShapeOf, ListsAll, FirstIs, Registers, EndedOf, Appending, Turning
<1>10. StatusOf(f, status, r)
  BY <1>2, <1>3, <1>7 DEF StatusOf
<1>11. Follows(f, n)
  BY <1>2, <1>7 DEF Follows, Handling
<1>12. /\ StatusOf(f, status', tr) /\ ShapeOf(f, link', tr, loaded', c) /\ tr' = tr
       /\ Follows(f, Now) /\ Stacks /\ (f.at \in Appending => tr = Core)
  BY <1>1, <1>6, <1>7, <1>9, <1>10, <1>11 DEF Appending, IInv
<1>13. IInv' /\ Ended' = c
  BY <1>6, <1>12, Kept
<1> QED BY <1>1, <1>12, <1>13, SameQueue

LEMMA FindReadyKeeps ==
    ASSUME TcbAssumption, IInv, FindReady
    PROVE  IInv' /\ Turn
<1>1. PICK n, c, r, k : n = Now /\ c = Ended /\ r = tr /\ k = link
  OBVIOUS
<1>2. n \in FrameSet /\ n.at = "next" /\ ~n.open
  BY <1>1, Named, NowIs DEF FindReady, At
<1>3. ShapeOf(n, k, r, loaded, c) /\ StatusOf(n, status, r)
  BY <1>1, Named
<1>4. k \in [Node -> Task \cup {Nil}] /\ r \in Task /\ c \in Seq(Task)
  BY <1>3 DEF ShapeOf, IsList
<1>5. PICK f : f = [n EXCEPT !.eax = k[n.eax],
                             !.at = IF k[n.eax] = Nil THEN "return" ELSE "test_ready"]
  OBVIOUS
<1>6. Become(f) /\ UNCHANGED <<link, status, tr, loaded>>
  BY <1>1, <1>5 DEF FindReady
<1>7. /\ IsList(k, c) /\ ToSet(c) = loaded /\ r \in loaded /\ n.ebx = r
      /\ n.eax = TcbChain \/ (n.eax = r /\ c = <<r>>)
  BY <1>2, <1>3 DEF ShapeOf, ListsAll, Registers, EndedOf, Turning
<1>8. c # << >> /\ c[1] \in Task /\ c[1] # Nil /\ c[1] \in Node /\ k[TcbChain] = c[1]
  <2>1. c # << >>
    BY <1>7 DEF ToSet
  <2>2. k[TcbChain] = c[1]
    BY <1>7, <2>1, ListEnd
  <2>3. c[1] \in Task
    BY <1>4, <2>1
  <2> QED BY <2>1, <2>2, <2>3, NodeFacts
<1>9. CASE n.eax = TcbChain
  <2>1. f = [n EXCEPT !.eax = c[1], !.at = "test_ready"]
    BY <1>5, <1>8, <1>9
  <2>2. f \in FrameSet /\ f.at = "test_ready" /\ f.eax = c[1] /\ f.ebx = n.ebx /\ f.ecx = n.ecx /\ ~f.open
    BY <1>2, <1>8, <1>9, <2>1 DEF FrameSet, Handling
  <2>3. ShapeOf(f, k, r, loaded, c)
    BY <1>2, <1>3, <1>8, <1>9, <2>2
    DEF ShapeOf, ListsAll, FirstIs, Registers, EndedOf, Appending, Turning
  <2>4. StatusOf(f, status, r)
    BY <1>2, <1>3, <2>2 DEF StatusOf
  <2>5. Follows(f, n)
    BY <1>2, <2>2 DEF Follows, Handling
  <2> QED BY <1>1, <1>6, <2>2, <2>3, <2>4, <2>5, Reads DEF Appending
<1>10. CASE n.eax = r /\ c = <<r>>
  <2>1. k[r] = Nil
    <3>1. EndOf(c) = r
      BY <1>10 DEF EndOf
    <3> QED BY <1>7, <3>1 DEF IsList
  <2>2. f = [n EXCEPT !.eax = Nil, !.at = "return"]
    BY <1>5, <1>10, <2>1
  <2>3. f \in FrameSet /\ f.at = "return" /\ ~f.open
    BY <1>2, <2>2 DEF FrameSet, Handling
  <2>4. ShapeOf(f, k, r, loaded, c)
    BY <1>2, <1>3, <1>10, <2>3
    DEF ShapeOf, ListsAll, FirstIs, Registers, EndedOf, Appending, Turning
  <2>5. StatusOf(f, status, r)
    BY <1>2, <1>3, <2>3 DEF StatusOf
  <2>6. Follows(f, n)
    BY <1>2, <2>3 DEF Follows, Handling
  <2> QED BY <1>1, <1>6, <2>3, <2>4, <2>5, <2>6, Reads DEF Appending
<1> QED BY <1>7, <1>9, <1>10

LEMMA TestReadyKeeps ==
    ASSUME TcbAssumption, IInv, TestReady
    PROVE  IInv' /\ Turn
<1>1. PICK n, c, r, k : n = Now /\ c = Ended /\ r = tr /\ k = link
  OBVIOUS
<1>2. n \in FrameSet /\ n.at = "test_ready" /\ ~n.open
  BY <1>1, Named, NowIs DEF TestReady, At
<1>3. ShapeOf(n, k, r, loaded, c) /\ StatusOf(n, status, r)
  BY <1>1, Named
<1>4. k \in [Node -> Task \cup {Nil}] /\ r \in Task /\ c \in Seq(Task)
  BY <1>3 DEF ShapeOf, IsList
<1>5. PICK f : f = [n EXCEPT !.at = IF status[n.eax] = Ready THEN "not_next" ELSE "next"]
  OBVIOUS
<1>6. Become(f) /\ UNCHANGED <<link, status, tr, loaded>>
  BY <1>1, <1>5 DEF TestReady, Goto
<1>7. /\ IsList(k, c) /\ ToSet(c) = loaded /\ r \in loaded /\ n.ebx = r
      /\ n.eax = c[1] /\ c[Len(c)] = r
  BY <1>2, <1>3 DEF ShapeOf, ListsAll, FirstIs, Registers, EndedOf, Turning
<1>8. c # << >> /\ c[1] \in Task
  BY <1>4, <1>7 DEF ToSet
<1>9. status[c[1]] = Ready <=> c[1] # r
  BY <1>2, <1>3, <1>8 DEF StatusOf, Busy, Ready
<1>10. CASE c[1] # r
  <2>1. f = [n EXCEPT !.at = "not_next"]
    BY <1>5, <1>7, <1>9, <1>10
  <2>2. f \in FrameSet /\ f.at = "not_next" /\ f.eax = n.eax /\ f.ebx = n.ebx /\ f.ecx = n.ecx /\ ~f.open
    BY <1>2, <1>7, <1>9, <1>10, <2>1 DEF FrameSet, Handling
  <2>3. ShapeOf(f, k, r, loaded, c)
    BY <1>2, <1>3, <1>7, <1>9, <1>10, <2>2
    DEF ShapeOf, ListsAll, FirstIs, Registers, EndedOf, Appending, Turning
  <2>4. StatusOf(f, status, r)
    BY <1>2, <1>3, <2>2 DEF StatusOf
  <2>5. Follows(f, n)
    BY <1>2, <2>2 DEF Follows, Handling
  <2> QED BY <1>1, <1>6, <2>2, <2>3, <2>4, <2>5, Reads DEF Appending
<1>11. CASE c[1] = r
  <2>1. f = [n EXCEPT !.at = "next"]
    BY <1>5, <1>7, <1>9, <1>11
  <2>2. c = <<r>>
    <3>1. PICK l \in Nat : l = Len(c) /\ l > 0
      BY <1>4, <1>8
    <3>2. l = 1
      BY <1>7, <1>11, <3>1 DEF IsList
    <3> QED BY <1>4, <1>11, <3>1, <3>2, Single, Zenon
  <2>3. f \in FrameSet /\ f.at = "next" /\ f.eax = n.eax /\ f.ebx = n.ebx /\ ~f.open
    BY <1>2, <2>1 DEF FrameSet, Handling
  <2>4. ShapeOf(f, k, r, loaded, c)
    BY <1>2, <1>3, <1>7, <1>11, <2>2, <2>3
    DEF ShapeOf, ListsAll, FirstIs, Registers, EndedOf, Appending, Turning
  <2>5. StatusOf(f, status, r)
    BY <1>2, <1>3, <2>3 DEF StatusOf
  <2>6. Follows(f, n)
    BY <1>2, <2>3 DEF Follows, Handling
  <2> QED BY <1>1, <1>6, <2>3, <2>4, <2>5, <2>6, Reads DEF Appending
<1> QED BY <1>10, <1>11

LEMMA NotNextKeeps ==
    ASSUME TcbAssumption, IInv, NotNext
    PROVE  IInv' /\ Turn
<1>1. PICK n, c, r, k : n = Now /\ c = Ended /\ r = tr /\ k = link
  OBVIOUS
<1>2. n \in FrameSet /\ n.at = "not_next" /\ ~n.open
  BY <1>1, Named, NowIs DEF NotNext, At
<1>3. ShapeOf(n, k, r, loaded, c) /\ StatusOf(n, status, r)
  BY <1>1, Named
<1>4. k \in [Node -> Task \cup {Nil}] /\ r \in Task /\ c \in Seq(Task)
  BY <1>3 DEF ShapeOf, IsList
<1>5. PICK f : f = [n EXCEPT !.at = "not_current"]
  OBVIOUS
<1>6. /\ Become(f) /\ UNCHANGED <<link, tr, loaded>>
      /\ status' = [status EXCEPT ![n.eax] = NotWord(status[n.eax])]
  BY <1>1, <1>5 DEF NotNext, Goto
<1>7. f \in FrameSet /\ f.at = "not_current" /\ f.eax = n.eax /\ f.ebx = n.ebx /\ f.ecx = n.ecx /\ ~f.open
  BY <1>2, <1>5 DEF FrameSet, Handling
<1>8. /\ n.ebx = r /\ n.eax = c[1] /\ c[1] # r /\ ToSet(c) = loaded /\ r \in loaded
  BY <1>2, <1>3 DEF ShapeOf, ListsAll, FirstIs, Registers, Turning
<1>9. c[1] \in Task
  <2>1. c # << >>
    BY <1>8 DEF ToSet
  <2> QED BY <1>4, <2>1
<1>10. ShapeOf(f, k, r, loaded, c)
  BY <1>2, <1>3, <1>7
  DEF ShapeOf, ListsAll, FirstIs, Registers, EndedOf, Appending, Turning
<1>11. StatusOf(f, status', r)
  <2>1. PICK st : st = status
    OBVIOUS
  <2>2. st \in [Task -> {Busy, Ready}]
    BY <1>3, <2>1 DEF StatusOf
  <2>3. /\ status' \in [Task -> {Busy, Ready}]
        /\ status'[n.eax] = NotWord(st[n.eax])
        /\ \A t \in Task \ {n.eax} : status'[t] = st[t]
    BY <1>4, <1>6, <1>8, <1>9, <2>1, <2>2 DEF NotWord, Busy, Ready
  <2> QED BY <1>2, <1>3, <1>4, <1>7, <1>8, <1>9, <2>1, <2>3 DEF StatusOf, NotWord, Busy, Ready
<1>12. Follows(f, n)
  BY <1>2, <1>7 DEF Follows, Handling
<1>13. /\ StatusOf(f, status', tr) /\ ShapeOf(f, link', tr, loaded', c) /\ tr' = tr
       /\ Follows(f, Now) /\ Stacks /\ (f.at \in Appending => tr = Core)
  BY <1>1, <1>6, <1>7, <1>10, <1>11, <1>12 DEF Appending, IInv
<1>14. IInv' /\ Ended' = c
  BY <1>6, <1>13, Kept
<1> QED BY <1>1, <1>13, <1>14, SameQueue

LEMMA NotCurrentKeeps ==
    ASSUME TcbAssumption, IInv, NotCurrent
    PROVE  IInv' /\ Turn
<1>1. PICK n, c, r, k : n = Now /\ c = Ended /\ r = tr /\ k = link
  OBVIOUS
<1>2. n \in FrameSet /\ n.at = "not_current" /\ ~n.open
  BY <1>1, Named, NowIs DEF NotCurrent, At
<1>3. ShapeOf(n, k, r, loaded, c) /\ StatusOf(n, status, r)
  BY <1>1, Named
<1>4. k \in [Node -> Task \cup {Nil}] /\ r \in Task /\ c \in Seq(Task)
  BY <1>3 DEF ShapeOf, IsList
<1>5. PICK f : f = [n EXCEPT !.at = "jmp"]
  OBVIOUS
<1>6. /\ Become(f) /\ UNCHANGED <<link, tr, loaded>>
      /\ status' = [status EXCEPT ![n.ebx] = NotWord(status[n.ebx])]
  BY <1>1, <1>5 DEF NotCurrent, Goto
<1>7. f \in FrameSet /\ f.at = "jmp" /\ f.eax = n.eax /\ f.ebx = n.ebx /\ f.ecx = n.ecx /\ ~f.open
  BY <1>2, <1>5 DEF FrameSet, Handling
<1>8. /\ n.ebx = r /\ n.eax = c[1] /\ c[1] # r /\ ToSet(c) = loaded /\ r \in loaded
  BY <1>2, <1>3 DEF ShapeOf, ListsAll, FirstIs, Registers, Turning
<1>9. c[1] \in Task
  <2>1. c # << >>
    BY <1>8 DEF ToSet
  <2> QED BY <1>4, <2>1
<1>10. ShapeOf(f, k, r, loaded, c)
  BY <1>2, <1>3, <1>7
  DEF ShapeOf, ListsAll, FirstIs, Registers, EndedOf, Appending, Turning
<1>11. StatusOf(f, status', r)
  <2>1. PICK st : st = status
    OBVIOUS
  <2>2. st \in [Task -> {Busy, Ready}]
    BY <1>3, <2>1 DEF StatusOf
  <2>3. /\ status' \in [Task -> {Busy, Ready}]
        /\ status'[n.ebx] = NotWord(st[n.ebx])
        /\ \A t \in Task \ {n.ebx} : status'[t] = st[t]
    BY <1>4, <1>6, <1>8, <1>9, <2>1, <2>2 DEF NotWord, Busy, Ready
  <2> QED BY <1>2, <1>3, <1>4, <1>7, <1>8, <1>9, <2>1, <2>3 DEF StatusOf, NotWord, Busy, Ready
<1>12. Follows(f, n)
  BY <1>2, <1>7 DEF Follows, Handling
<1>13. /\ StatusOf(f, status', tr) /\ ShapeOf(f, link', tr, loaded', c) /\ tr' = tr
       /\ Follows(f, Now) /\ Stacks /\ (f.at \in Appending => tr = Core)
  BY <1>1, <1>6, <1>7, <1>10, <1>11, <1>12 DEF Appending, IInv
<1>14. IInv' /\ Ended' = c
  BY <1>6, <1>13, Kept
<1> QED BY <1>1, <1>13, <1>14, SameQueue

LEMMA JmpTaskKeeps ==
    ASSUME TcbAssumption, IInv, JmpTask
    PROVE  IInv' /\ Turn
<1>1. PICK n, c, r, k : n = Now /\ c = Ended /\ r = tr /\ k = link
  OBVIOUS
<1>2. n \in FrameSet /\ n.at = "jmp" /\ ~n.open
  BY <1>1, Named, NowIs DEF JmpTask, At
<1>3. ShapeOf(n, k, r, loaded, c) /\ StatusOf(n, status, r)
  BY <1>1, Named
<1>4. k \in [Node -> Task \cup {Nil}] /\ r \in Task /\ c \in Seq(Task)
  BY <1>3 DEF ShapeOf, IsList
<1>5. PICK f : f = [n EXCEPT !.at = "return"]
  OBVIOUS
<1>6. Become(f) /\ UNCHANGED <<link, status, loaded>> /\ tr' = n.eax
  BY <1>1, <1>5 DEF JmpTask, Goto
<1>7. f \in FrameSet /\ f.at = "return" /\ ~f.open
  BY <1>2, <1>5 DEF FrameSet, Handling
<1>8. /\ IsList(k, c) /\ ToSet(c) = loaded /\ r \in loaded /\ loaded \subseteq Task
      /\ n.eax = c[1] /\ c[1] # r /\ c[Len(c)] = r
  BY <1>2, <1>3 DEF ShapeOf, ListsAll, FirstIs, Registers, EndedOf, Turning
<1>9. c # << >>
  BY <1>8 DEF ToSet
<1>10. PICK q : q = c[1] /\ q \in Task /\ q \in loaded /\ q # r
  <2>1. c[1] \in ToSet(c)
    BY <1>4, <1>9 DEF ToSet
  <2> QED BY <1>8, <2>1
<1>11. tr' = q
  BY <1>6, <1>8, <1>10
<1>12. Follows(f, n)
  BY <1>2, <1>7 DEF Follows, Handling
<1>13. /\ StacksOf(frames', r) /\ Last(frames'[r]) = f
       /\ \A t \in Task \ {r} : frames'[t] = frames[t]
  BY <1>1, <1>6, <1>7, <1>12, BecomeKeeps DEF Appending, IInv
<1>14. PICK g : g = Last(frames'[q])
  OBVIOUS
<1>15. g.at \in {"run", "return"} /\ g \in FrameSet
  <2>1. IsStack(frames'[q])
    BY <1>10, <1>13 DEF StacksOf
  <2>2. g.at \in {"run", "return"}
    BY <1>10, <1>13, <1>14 DEF StacksOf
  <2>3. PICK s : s = frames'[q]
    OBVIOUS
  <2>4. s \in Seq(FrameSet) /\ Len(s) \in {1, 2} /\ g = s[Len(s)]
    BY <1>14, <2>1, <2>3 DEF IsStack, Last
  <2>5. g \in FrameSet
    BY <2>4
  <2> QED BY <2>2, <2>5
<1>16. StacksOf(frames', q)
  <2>1. frames' \in [Task -> Seq(FrameSet)] /\ \A t \in Task : IsStack(frames'[t])
    BY <1>13 DEF StacksOf
  <2>2. \A t \in Task : Last(frames'[t]).at \in {"run", "return"}
    <3>1. Last(frames'[r]).at = "return"
      BY <1>7, <1>13
    <3>2. \A t \in Task \ {r} : Last(frames'[t]).at \in {"run", "return"}
      BY <1>13 DEF StacksOf
    <3> QED BY <3>1, <3>2
  <2> QED BY <1>10, <2>1, <2>2 DEF StacksOf, Appending
<1>17. Stacks' /\ Now' = g
  BY <1>11, <1>14, <1>16 DEF Stacks, Now
<1>18. StatusOf(g, status, q)
  BY <1>2, <1>3, <1>8, <1>10, <1>15 DEF StatusOf
<1>19. ShapeOf(g, k, q, loaded, c)
  BY <1>4, <1>8, <1>10, <1>15
  DEF ShapeOf, ListsAll, FirstIs, Registers, EndedOf, Appending, Turning
<1>20. IInv' /\ Ended' = c
  <2>1. StatusOf(g, status', tr') /\ ShapeOf(g, link', tr', loaded', c)
    BY <1>1, <1>6, <1>11, <1>18, <1>19
  <2> QED BY <1>15, <1>17, <2>1, Changed
<1>21. Distinct(c)
  BY <1>8 DEF IsList, Distinct
<1>22. Queue = SubSeq(c, 1, Len(c) - 1)
  <2>1. Without(c, r) = SubSeq(c, 1, Len(c) - 1)
    BY <1>4, <1>8, <1>9, <1>21, WithoutLast
  <2> QED BY <1>1, <2>1 DEF Queue
<1>23. Queue' = Tail(c)
  <2>1. Without(c, q) = Tail(c)
    BY <1>4, <1>9, <1>10, <1>21, WithoutFirst
  <2> QED BY <1>11, <1>20, <2>1 DEF Queue
<1>24. Len(c) \in Nat /\ Len(c) > 1
  <2>1. PICK l \in Nat : l = Len(c) /\ l > 0
    BY <1>4, <1>9
  <2>2. l # 1
    BY <1>8, <2>1
  <2> QED BY <2>1, <2>2
<1>25. PICK s : s = SubSeq(c, 1, Len(c) - 1)
  OBVIOUS
<1>26. s # << >> /\ Head(s) = q /\ Append(Tail(s), r) = Tail(c)
  BY <1>4, <1>8, <1>10, <1>24, <1>25, Rotation
<1>27. RR!Preempt
  BY <1>1, <1>11, <1>22, <1>23, <1>25, <1>26 DEF RR!Preempt
<1> QED BY <1>20, <1>27 DEF Turn, RR!Next

(* A step that replaces the stack of the running task.                     *)
LEMMA StackChange ==
    ASSUME Stacks, NEW u, IsStack(u), Last(u).at \notin Appending,
           frames' = [frames EXCEPT ![tr] = u], tr' = tr
    PROVE  Stacks' /\ Now' = Last(u) /\ Last(u) \in FrameSet
<1>1. frames \in [Task -> Seq(FrameSet)] /\ tr \in Task /\ u \in Seq(FrameSet)
  BY DEF Stacks, StacksOf, IsStack
<1>2. frames' \in [Task -> Seq(FrameSet)] /\ frames'[tr] = u
      /\ \A t \in Task \ {tr} : frames'[t] = frames[t]
  BY <1>1
<1>3. \A t \in Task \ {tr} : IsStack(frames'[t]) /\ Last(frames'[t]).at \in {"run", "return"}
  BY <1>2 DEF Stacks, StacksOf
<1>4. \A t \in Task : IsStack(frames'[t])
  BY <1>2, <1>3
<1>5. StacksOf(frames', tr)
  BY <1>1, <1>2, <1>3, <1>4 DEF StacksOf
<1>6. Len(u) \in {1, 2}
  BY DEF IsStack
<1>7. Last(u) \in FrameSet
  <2>1. PICK l \in {1, 2} : l = Len(u)
    BY <1>6
  <2>2. u[l] \in FrameSet
    BY <1>1, <2>1
  <2> QED BY <2>1, <2>2 DEF Last
<1> QED BY <1>2, <1>5, <1>7 DEF Stacks, Now

LEMMA ReturnKeeps ==
    ASSUME TcbAssumption, IInv, Return
    PROVE  IInv' /\ Turn
<1>1. PICK n, c, r, k : n = Now /\ c = Ended /\ r = tr /\ k = link
  OBVIOUS
<1>2. n \in FrameSet /\ n.at = "return" /\ ~n.open
  BY <1>1, Named, NowIs DEF Return, At
<1>3. ShapeOf(n, k, r, loaded, c) /\ StatusOf(n, status, r)
  BY <1>1, Named
<1>4. k \in [Node -> Task \cup {Nil}] /\ r \in Task /\ c \in Seq(Task)
  BY <1>3 DEF ShapeOf, IsList
<1>5. PICK s : s = frames[tr]
  OBVIOUS
<1>6. /\ s \in Seq(FrameSet) /\ Len(s) = 2 /\ IsStack(s) /\ Stacks
      /\ s[1].at = "run" /\ s[1].open /\ s[1] \in FrameSet
  <2>1. s \in Seq(FrameSet) /\ Len(s) = 2 /\ Stacks
    BY <1>1, <1>2, <1>5, Named, NowIs DEF Handling
  <2>2. IsStack(s)
    BY <1>1, <1>4, <1>5, <2>1 DEF Stacks, StacksOf
  <2>3. s[1].at = "run" /\ s[1].open
    BY <2>1, <2>2 DEF IsStack
  <2>4. s[1] \in FrameSet
    BY <2>1
  <2> QED BY <2>1, <2>2, <2>3, <2>4
<1>7. PICK f, u : f = s[1] /\ u = Front(s)
  OBVIOUS
<1>8. u \in Seq(FrameSet) /\ Len(u) = 1 /\ u[1] = f
  <2>1. u = SubSeq(s, 1, 1)
    BY <1>6, <1>7 DEF Front
  <2> QED BY <1>6, <1>7, <2>1
<1>9. Last(u) = f
  BY <1>8 DEF Last
<1>10. IsStack(u)
  BY <1>6, <1>7, <1>8, <1>9 DEF IsStack
<1>11. frames' = [frames EXCEPT ![tr] = u] /\ UNCHANGED <<link, status, tr, loaded>>
  BY <1>5, <1>7 DEF Return
<1>12. f \in FrameSet /\ f.at = "run"
  BY <1>6, <1>7
<1>13. Stacks' /\ Now' = f
  BY <1>6, <1>9, <1>10, <1>11, <1>12, StackChange DEF Appending
<1>14. ShapeOf(f, k, r, loaded, c)
  BY <1>2, <1>3, <1>12
  DEF ShapeOf, ListsAll, FirstIs, Registers, EndedOf, Appending, Turning
<1>15. StatusOf(f, status, r)
  BY <1>2, <1>3, <1>12 DEF StatusOf
<1>16. StatusOf(f, status', tr') /\ ShapeOf(f, link', tr', loaded', c) /\ tr' = tr
  BY <1>1, <1>11, <1>14, <1>15
<1>17. IInv' /\ Ended' = c
  BY <1>12, <1>13, <1>16, Changed
<1> QED BY <1>1, <1>16, <1>17, SameQueue

LEMMA ClockInterruptKeeps ==
    ASSUME TcbAssumption, IInv, ClockInterrupt
    PROVE  IInv' /\ Turn
<1>1. PICK n, c, r, k : n = Now /\ c = Ended /\ r = tr /\ k = link
  OBVIOUS
<1>2. n \in FrameSet /\ n.at = "run" /\ n.open
  BY <1>1, Named, NowIs DEF ClockInterrupt
<1>3. ShapeOf(n, k, r, loaded, c) /\ StatusOf(n, status, r)
  BY <1>1, Named
<1>4. k \in [Node -> Task \cup {Nil}] /\ r \in Task /\ c \in Seq(Task)
  BY <1>3 DEF ShapeOf, IsList
<1>5. PICK s : s = frames[tr]
  OBVIOUS
<1>6. s \in Seq(FrameSet) /\ Len(s) = 1 /\ Stacks
  BY <1>1, <1>2, <1>5, Named, NowIs DEF Handling
<1>7. PICK f, u : f = Frame("find", FALSE) /\ u = Front(s) \o <<n, f>>
  OBVIOUS
<1>8. f \in FrameSet /\ f.at = "find" /\ f.eax = TcbChain /\ ~f.open
  BY <1>7, NodeFacts DEF Frame, FrameSet, Handling
<1>9. u = <<n, f>>
  <2>1. Front(s) = << >>
    BY <1>6 DEF Front
  <2> QED BY <1>7, <2>1
<1>10. u \in Seq(FrameSet) /\ Len(u) = 2 /\ u[1] = n /\ u[2] = f
  BY <1>2, <1>8, <1>9
<1>11. Last(u) = f
  BY <1>10 DEF Last
<1>12. IsStack(u)
  BY <1>2, <1>8, <1>10, <1>11 DEF IsStack, Handling
<1>13. frames' = [frames EXCEPT ![tr] = u] /\ UNCHANGED <<link, status, tr, loaded>>
  BY <1>1, <1>2, <1>5, <1>7 DEF ClockInterrupt, Push, AfterHlt
<1>14. Stacks' /\ Now' = f
  BY <1>6, <1>8, <1>11, <1>12, <1>13, StackChange DEF Appending
<1>15. ShapeOf(f, k, r, loaded, c)
  BY <1>2, <1>3, <1>8
  DEF ShapeOf, ListsAll, FirstIs, Registers, EndedOf, Appending, Turning
<1>16. StatusOf(f, status, r)
  BY <1>2, <1>3, <1>8 DEF StatusOf
<1>17. StatusOf(f, status', tr') /\ ShapeOf(f, link', tr', loaded', c) /\ tr' = tr
  BY <1>1, <1>13, <1>15, <1>16
<1>18. IInv' /\ Ended' = c
  BY <1>8, <1>14, <1>17, Changed
<1> QED BY <1>1, <1>17, <1>18, SameQueue

-----------------------------------------------------------------------------
(* The theorems.                                                           *)

LEMMA Begins ==
    ASSUME TcbAssumption, Init
    PROVE  IInv /\ RR!Init
<1>1. PICK f, g : /\ f = [Frame("append", FALSE) EXCEPT !.ecx = Core]
                 /\ g = Frame("run", TRUE)
  OBVIOUS
<1>2. /\ f \in FrameSet /\ f.at = "append" /\ f.eax = TcbChain /\ f.ecx = Core /\ ~f.open
      /\ g \in FrameSet /\ g.at = "run" /\ g.open
  BY <1>1, NodeFacts DEF Frame, FrameSet, Appending
<1>3. frames = [t \in Task |-> IF t = Core THEN <<f>> ELSE <<g>>] /\ tr = Core /\ loaded = {Core}
  BY <1>1 DEF Init
<1>4. \A t \in Task : /\ frames[t] \in Seq(FrameSet) /\ Len(frames[t]) = 1
                     /\ frames[t][1] = IF t = Core THEN f ELSE g
  BY <1>2, <1>3
<1>5. \A t \in Task : Last(frames[t]) = IF t = Core THEN f ELSE g
  BY <1>4 DEF Last
<1>6. StacksOf(frames, tr)
  <2>1. \A t \in Task : IsStack(frames[t])
    BY <1>2, <1>4, <1>5 DEF IsStack, Appending
  <2>2. frames \in [Task -> Seq(FrameSet)]
    BY <1>3, <1>4
  <2> QED BY <1>2, <1>3, <1>5, <2>1, <2>2, NodeFacts DEF StacksOf
<1>7. Now = f
  BY <1>3, <1>5, NodeFacts DEF Now
<1>8. StatusOf(f, status, tr)
  BY <1>2, <1>3 DEF Init, StatusOf, Busy, Ready
<1>9. link \in [Node -> Task \cup {Nil}] /\ link[TcbChain] = Nil
  BY DEF Init
<1>10. IsList(link, << >>) /\ ToSet(<< >>) = {}
  BY <1>9 DEF IsList, EndOf, ToSet
<1>11. ShapeOf(f, link, tr, loaded, << >>)
  BY <1>2, <1>3, <1>9, <1>10, NodeFacts
  DEF ShapeOf, ListsAll, FirstIs, Registers, EndedOf, Turning
<1>12. Ended = << >>
  BY <1>2, <1>7, <1>11, EndedIs
<1>13. IInv
  BY <1>6, <1>7, <1>8, <1>11, <1>12 DEF IInv, Stacks, Statuses, Shape
<1>14. Queue = << >>
  BY <1>12, WithoutNone DEF Queue, ToSet
<1> QED BY <1>3, <1>13, <1>14 DEF RR!Init

(* Every step of the tasks keeps the invariant, and is a step of the round *)
(* robin or nothing to it.                                                 *)
LEMMA StepKeeps ==
    ASSUME TcbAssumption, IInv, [Next]_vars
    PROVE  IInv' /\ Turn
<1>1. CASE \E u \in User : LoadProgram(u)
  BY <1>1, LoadProgramKeeps
<1>2. CASE AppendTcb
  BY <1>2, AppendWalkKeeps, AppendLinkKeeps, AppendEndKeeps DEF AppendTcb
<1>3. CASE ClockInterrupt
  BY <1>3, ClockInterruptKeeps
<1>4. CASE Handle
  BY <1>4, FindKeeps, TestBusyKeeps, TakeNextKeeps, UnlinkKeeps, FindTailKeeps, RelinkKeeps,
     MarkTailKeeps, FindReadyKeeps, TestReadyKeeps, NotNextKeeps, NotCurrentKeeps,
     JmpTaskKeeps, ReturnKeeps
  DEF Handle
<1>5. CASE UNCHANGED vars
  <2>1. Now' = Now /\ Ended' = Ended /\ Queue' = Queue
    BY <1>5 DEF vars, Now, Queue, Ended, At
  <2>2. IInv'
    BY <1>5, <2>1 DEF vars, IInv, Stacks, Statuses, Shape
  <2>3. Turn
    BY <1>5, <2>1 DEF vars, Turn, RR!vars
  <2> QED BY <2>2, <2>3
<1> QED BY <1>1, <1>2, <1>3, <1>4, <1>5 DEF Next

LEMMA Invariance ==
    ASSUME TcbAssumption
    PROVE  Spec => []IInv
<1>1. Init => IInv
  BY Begins
<1>2. IInv /\ [Next]_vars => IInv'
  BY StepKeeps
<1> QED BY <1>1, <1>2, PTL DEF Spec

LEMMA InvariantTypes ==
    ASSUME IInv
    PROVE  TypeOK
<1>1. link \in [Node -> Task \cup {Nil}] /\ loaded \subseteq Task
  BY DEF IInv, Shape, ShapeOf
<1>2. status \in [Task -> {Busy, Ready}]
  BY DEF IInv, Statuses, StatusOf
<1>3. tr \in Task /\ \A t \in Task : Len(frames[t]) \in 1 .. 2
  <2>1. tr \in Task /\ \A t \in Task : IsStack(frames[t])
    BY DEF IInv, Stacks, StacksOf
  <2>2. \A t \in Task : Len(frames[t]) = 1 \/ Len(frames[t]) = 2
    BY <2>1 DEF IsStack
  <2> QED BY <2>1, <2>2
<1> QED BY <1>1, <1>2, <1>3 DEF TypeOK

LEMMA InvariantFinds ==
    ASSUME IInv
    PROVE  CurrentIsFound
<1> SUFFICES ASSUME NEW t \in Task, NEW i \in DOMAIN frames[t],
                    frames[t][i].at \in {"take", "unlink"}
             PROVE  frames[t][i].ebx = tr
  BY DEF CurrentIsFound
<1>1. Stacks /\ IsStack(frames[t]) /\ ShapeOf(Now, link, tr, loaded, Ended)
  BY DEF IInv, Stacks, StacksOf, Shape
<1>2. PICK s : s = frames[t]
  OBVIOUS
<1>3. s \in Seq(FrameSet) /\ i \in 1 .. Len(s) /\ s[i].at \in {"take", "unlink"}
  BY <1>1, <1>2 DEF IsStack
<1>4. i = Len(s)
  <2>1. CASE Len(s) = 1
    BY <1>3, <2>1
  <2>2. CASE Len(s) = 2 /\ s[1].at = "run"
    BY <1>3, <2>2
  <2> QED BY <1>1, <1>2, <2>1, <2>2 DEF IsStack
<1>5. Last(frames[t]) = s[i]
  BY <1>2, <1>4 DEF Last
<1>6. t = tr
  BY <1>1, <1>3, <1>5 DEF Stacks, StacksOf
<1>7. Now = s[i]
  BY <1>5, <1>6 DEF Now
<1>8. Now.ebx = tr
  BY <1>1, <1>3, <1>7 DEF ShapeOf, Registers
<1> QED BY <1>2, <1>7, <1>8

LEMMA InvariantIsWhole ==
    ASSUME TcbAssumption, IInv
    PROVE  ListIsWhole
<1> SUFFICES ASSUME Now.open
             PROVE  /\ ToSet(List) = { t \in loaded : t # Core \/ link[TcbChain] # Nil }
                    /\ link[IF List = << >> THEN TcbChain ELSE Last(List)] = Nil
  BY DEF ListIsWhole
<1>1. PICK n, c : n = Now /\ c = Ended
  OBVIOUS
<1>2. Stacks /\ ShapeOf(n, link, tr, loaded, c) /\ n.at = "run"
  BY <1>1, Named, NowIs
<1>3. List = c
  BY <1>1, <1>2 DEF List, Ended, At
<1>4. IsList(link, c) /\ ToSet(c) = loaded /\ tr \in loaded /\ c \in Seq(Task)
  BY <1>2 DEF ShapeOf, ListsAll, EndedOf, IsList
<1>5. c # << >>
  BY <1>4 DEF ToSet
<1>6. link[TcbChain] # Nil
  <2>1. link[TcbChain] = c[1] /\ c[1] \in Task
    BY <1>4, <1>5, ListEnd
  <2> QED BY <2>1, NodeFacts
<1>7. link[Last(c)] = Nil
  BY <1>4, <1>5 DEF IsList, EndOf, Last
<1> QED BY <1>3, <1>4, <1>5, <1>6, <1>7

LEMMA InvariantIsSound ==
    ASSUME TcbAssumption, IInv
    PROVE  ListIsWhole /\ CurrentIsFound
BY InvariantIsWhole, InvariantFinds

(* Links, status words and frames keep the types of what they stand for,   *)
(* and no handler is interrupted (the clock handler of c17_core.asm:429).  *)
THEOREM TypeCorrect ==
    ASSUME TcbAssumption
    PROVE  Spec => []TypeOK
BY InvariantTypes, Invariance, PTL

(* The busy TCB the clock handler finds and unlinks (c17_core.asm:441) is  *)
(* that of the task it interrupted, as long as no task raises an exception.*)
THEOREM TheCurrentIsFound ==
    ASSUME TcbAssumption
    PROVE  Spec => []CurrentIsFound
BY InvariantFinds, Invariance, PTL

(* Whenever the clock may interrupt, the list in memory ends and holds     *)
(* every TCB that was ever appended (c17_core.asm:845, :454 to :466).      *)
THEOREM TheListIsWhole ==
    ASSUME TcbAssumption
    PROVE  Spec => []ListIsWhole
<1>1. IInv => ListIsWhole
  BY InvariantIsWhole
<1> QED BY <1>1, Invariance, PTL

(* The pointers implement the round robin: appending a TCB admits its task *)
(* (c17_core.asm:860), and of all the instructions of the clock handler    *)
(* one hands the processor over (:480), to the task that has waited        *)
(* longest.                                                                *)
THEOREM ImplementsRoundRobin ==
    ASSUME TcbAssumption
    PROVE  Spec => RR!Spec
<1>1. Init => IInv /\ RR!Init
  BY Begins
<1>2. IInv /\ [Next]_vars => IInv' /\ [RR!Next]_(RR!vars)
  BY StepKeeps DEF Turn
<1> QED BY <1>1, <1>2, PTL DEF Spec, RR!Spec
=============================================================================
