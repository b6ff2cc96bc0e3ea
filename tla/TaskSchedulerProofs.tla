------------------------- MODULE TaskSchedulerProofs -------------------------
(***************************************************************************)
(* The safety properties of TaskScheduler hold for any set of user         *)
(* programs, and its specification implements RoundRobin.                  *)
(*                                                                         *)
(* The invariants are not inductive one by one: the handler picks "the     *)
(* first busy node" and "the first ready node" of a list of any length,    *)
(* and only because the head of the list is the one task that is not ready *)
(* are these the first and the second node.  Order, Loading and Walking    *)
(* say so, together with where the boot code and the terminating programs  *)
(* are; IInv is their conjunction with TypeOK.                             *)
(***************************************************************************)
EXTENDS TaskScheduler, SequenceTheorems, TLAPS

NoDuplicates == \A i, j \in DOMAIN chain : i # j => chain[i] # chain[j]

(* Who is linked, who runs, and which status words follow.                 *)
Order ==
    /\ NoDuplicates
    /\ pc[Core] \in {"mark", "append"} =>
         chain = << >> /\ tr = Nil /\ \A u \in User : status[u] = Ready
    /\ pc[Core] = "mark" => status[Core] = Ready
    /\ pc[Core] = "append" => status[Core] = Busy
    /\ pc[Core] \in {"install", "ltr"} => chain = <<Core>> /\ tr = Nil
    /\ pc[Core] \notin {"mark", "append"} => chain # << >> /\ chain[1] = Runner
    /\ pc[Core] \notin {"mark", "append", "install", "ltr"} => tr # Nil
    /\ tssBusy = IF tr = Nil THEN {} ELSE {tr}
    /\ \A t \in Task : t # Runner => status[t] = Ready
    /\ \A t \in Task : status[t] = Exited => t # Core /\ pc[t] = "hlt"
    /\ pc[Core] \notin {"mark", "append"} => status[Runner] # Ready

(* How far the boot code is with the program it loads.                     *)
Loading ==
    /\ pc[Core] \in {"build", "copy", "link"} <=> new # Nil
    /\ pc[Core] \in {"mark", "append", "install", "ltr", "create", "build",
                     "copy", "link", "core"}
    /\ new # Nil => new \notin Linked
    /\ \A u \in User : u # new => IF u \in Linked THEN installed[u] = TssPart
                                  ELSE installed[u] = {}
    /\ pc[Core] = "build" => installed[new] = {}
    /\ pc[Core] = "copy" => installed[new] = {"selector"}
    /\ pc[Core] = "link" => installed[new] = TssPart
    /\ pc[Core] \notin {"mark", "append"} => Core \in Linked
    /\ pc[Core] \notin {"mark", "append", "install"} => installed[Core] = TssPart

(* What a program in terminate_current_task holds in EAX and EBX.          *)
Walking ==
    \A u \in User :
        /\ pc[u] \in {"user", "load", "test", "mark", "hlt"}
        /\ pc[u] \in {"load", "test", "mark"} => eax[u] = TcbChain
        /\ pc[u] \in {"test", "mark"} => ebx[u] = u
        /\ pc[u] = "hlt" => status[u] = Exited

IInv == TypeOK /\ Order /\ Loading /\ Walking

-----------------------------------------------------------------------------
(* The list operations.                                                    *)

(* Moving the head of a list to its tail (.b1 to .b3 of the handler, when  *)
(* the busy node is the first) is a rotation.                              *)
LEMMA MoveHead ==
    ASSUME NEW S, NEW s \in Seq(S), s # << >>
    PROVE  /\ MoveToTail(s, 1) \in Seq(S)
           /\ Len(MoveToTail(s, 1)) = Len(s)
           /\ \A j \in 1 .. Len(s) :
                MoveToTail(s, 1)[j] = IF j < Len(s) THEN s[j + 1] ELSE s[1]
           /\ MoveToTail(s, 1) = Append(Tail(s), s[1])
<1> DEFINE m == MoveToTail(s, 1)
           a == Append(Tail(s), s[1])
<1>1. Len(s) \in Nat /\ Len(s) > 0
  BY EmptySeq, LenProperties
<1>2. m = [j \in 1 .. Len(s) |-> IF j < Len(s) THEN s[j + 1] ELSE s[1]]
  BY <1>1 DEF MoveToTail
<1>3. \A j \in 1 .. Len(s) : m[j] \in S
  BY <1>1, <1>2, ElementOfSeq
<1>4. m \in Seq(S) /\ Len(m) = Len(s)
  <2>1. m \in [1 .. Len(s) -> S]
    BY <1>2, <1>3
  <2> QED
    BY <2>1, <1>1, SeqDef, LenProperties
<1>5. a \in Seq(S) /\ Len(a) = Len(s) /\ \A j \in 1 .. Len(s) : a[j] = m[j]
  <2>1. /\ Tail(s) \in Seq(S)
        /\ Len(Tail(s)) = Len(s) - 1
        /\ \A j \in 1 .. (Len(s) - 1) : Tail(s)[j] = s[j + 1]
    BY HeadTailProperties
  <2>2. s[1] \in S
    BY <1>1, ElementOfSeq
  <2>3. /\ a \in Seq(S)
        /\ Len(a) = Len(s)
        /\ \A j \in 1 .. (Len(s) - 1) : a[j] = Tail(s)[j]
        /\ a[Len(s)] = s[1]
    BY <2>1, <2>2, <1>1, AppendProperties
  <2>4. ASSUME NEW j \in 1 .. Len(s)
        PROVE  a[j] = m[j]
    <3>1. CASE j = Len(s)
      BY <3>1, <2>3, <1>2, <1>1
    <3>2. CASE j # Len(s)
      <4>1. j \in 1 .. (Len(s) - 1) /\ j < Len(s)
        BY <3>2, <1>1
      <4>2. a[j] = s[j + 1]
        BY <4>1, <2>1, <2>3
      <4>3. m[j] = s[j + 1]
        BY <4>1, <1>2
      <4> QED
        BY <4>2, <4>3
    <3> QED
      BY <3>1, <3>2
  <2> QED
    BY <2>3, <2>4
<1>6. m = a
  BY <1>4, <1>5, SeqEqual
<1> QED
  BY <1>2, <1>4, <1>6, <1>1

(* The busy node the handler finds is the head of the list.                *)
LEMMA BusyIsHead ==
    ASSUME TypeOK, Order, NEW i \in DOMAIN chain, IsFirst(chain, i, Busy)
    PROVE  i = 1 /\ chain # << >> /\ chain[1] = Runner /\ status[Runner] = Busy
<1>1. chain \in Seq(Task) /\ Len(chain) \in Nat /\ DOMAIN chain = 1 .. Len(chain)
  BY LenProperties DEF TypeOK
<1>2. chain # << >> /\ 1 \in DOMAIN chain
  BY <1>1, EmptySeq
<1>3. chain[1] = Runner
  BY <1>2 DEF Order
<1>4. chain[i] \in Task /\ status[chain[i]] # Ready
  BY <1>1, ElementOfSeq DEF IsFirst, Busy, Ready
<1>5. chain[i] = Runner
  BY <1>4 DEF Order
<1>6. i = 1
  BY <1>2, <1>3, <1>5 DEF Order, NoDuplicates
<1> QED
  BY <1>2, <1>3, <1>6 DEF IsFirst

(* What the handler leaves behind when it switches: the list rotated by    *)
(* one, its new head busy and current, its old head ready.                 *)
LEMMA SwitchRotates ==
    ASSUME TypeOK, Order, TickSwitch
    PROVE  /\ Len(chain) > 1 /\ status[Runner] = Busy /\ chain[1] = Runner
           /\ chain' = MoveToTail(chain, 1)
           /\ chain[2] \in Task /\ chain[2] # Runner
           /\ status' = [status EXCEPT ![chain[2]] = Busy, ![Runner] = Ready]
           /\ tr' = chain[2]
           /\ tssBusy' = (tssBusy \ {tr}) \cup {chain[2]}
<1>1. PICK i \in DOMAIN chain :
        /\ IsFirst(chain, i, Busy)
        /\ chain' = MoveToTail(chain, i)
        /\ \E k \in DOMAIN MoveToTail(chain, i) :
            /\ IsFirst(MoveToTail(chain, i), k, Ready)
            /\ status' = [status EXCEPT
                    ![MoveToTail(chain, i)[k]] = NotWord(@),
                    ![chain[i]] = NotWord(@)]
            /\ JmpTss(MoveToTail(chain, i)[k])
  BY DEF TickSwitch
<1>2. i = 1 /\ chain # << >> /\ chain[1] = Runner /\ status[Runner] = Busy
  BY <1>1, BusyIsHead
<1> DEFINE moved == MoveToTail(chain, 1)
<1>3. chain \in Seq(Task) /\ Len(chain) \in Nat \ {0}
  BY <1>2, EmptySeq, LenProperties DEF TypeOK
<1>4. /\ moved \in Seq(Task) /\ Len(moved) = Len(chain)
      /\ \A j \in 1 .. Len(chain) :
            moved[j] = IF j < Len(chain) THEN chain[j + 1] ELSE chain[1]
  BY <1>2, <1>3, MoveHead
<1>5. DOMAIN moved = 1 .. Len(chain)
  BY <1>4, LenProperties
<1>6. PICK k \in 1 .. Len(chain) :
            /\ IsFirst(moved, k, Ready)
            /\ status' = [status EXCEPT ![moved[k]] = NotWord(@),
                                        ![Runner] = NotWord(@)]
            /\ JmpTss(moved[k])
  BY <1>1, <1>2, <1>5
<1>7. k < Len(chain)
  <2>1. SUFFICES ASSUME k = Len(chain)
                 PROVE  FALSE
    BY <1>3
  <2>2. moved[k] = Runner
    BY <2>1, <1>2, <1>4, <1>3
  <2> QED
    BY <2>2, <1>2, <1>6 DEF IsFirst, Busy, Ready
<1>8. Len(chain) > 1 /\ moved[1] = chain[2] /\ 2 \in 1 .. Len(chain)
  BY <1>7, <1>3, <1>4
<1>9. chain[2] \in Task /\ chain[2] # Runner
  <2>1. chain[2] \in Task
    BY <1>8, <1>3, ElementOfSeq
  <2>2. 1 \in DOMAIN chain /\ 2 \in DOMAIN chain
    BY <1>3, <1>8, LenProperties
  <2> QED
    BY <2>1, <2>2, <1>2 DEF Order, NoDuplicates
<1>10. status[chain[2]] = Ready
  BY <1>9 DEF Order
<1>11. k = 1
  BY <1>6, <1>8, <1>10, <1>3 DEF IsFirst
<1>12. status' = [status EXCEPT ![chain[2]] = NotWord(Ready),
                                ![Runner] = NotWord(Busy)]
  <2>1. status' = [status EXCEPT ![chain[2]] = NotWord(@), ![Runner] = NotWord(@)]
    BY <1>6, <1>8, <1>11
  <2>2. status \in [Task -> {Busy, Ready, Exited}] /\ Runner \in Task
    BY DEF TypeOK, Runner, Task
  <2> QED
    BY <2>1, <2>2, <1>2, <1>9, <1>10
<1>13. NotWord(Ready) = Busy /\ NotWord(Busy) = Ready
  BY DEF NotWord, Ready, Busy
<1>14. tr' = chain[2] /\ tssBusy' = (tssBusy \ {tr}) \cup {chain[2]}
  BY <1>6, <1>8, <1>11 DEF JmpTss
<1> QED
  BY <1>1, <1>2, <1>8, <1>9, <1>12, <1>13, <1>14

(* append_to_tcb_link keeps the head of the list and what is linked, and   *)
(* links the new TCB.                                                      *)
LEMMA AppendLinks ==
    ASSUME TypeOK, NoDuplicates, NEW x \in Task, x \notin Linked,
           chain' = Append(chain, x)
    PROVE  /\ chain' \in Seq(Task) /\ chain' # << >>
           /\ Linked' = Linked \cup {x}
           /\ NoDuplicates'
           /\ chain'[1] = IF chain = << >> THEN x ELSE chain[1]
<1>1. chain \in Seq(Task) /\ Len(chain) \in Nat /\ DOMAIN chain = 1 .. Len(chain)
  BY LenProperties DEF TypeOK
<1>2. /\ chain' \in Seq(Task) /\ chain' # << >>
      /\ Len(chain') = Len(chain) + 1
      /\ \A i \in 1 .. Len(chain) : chain'[i] = chain[i]
      /\ chain'[Len(chain) + 1] = x
  BY <1>1, AppendProperties
<1>3. DOMAIN chain' = 1 .. (Len(chain) + 1)
  BY <1>2, LenProperties
<1>4. Linked' = Linked \cup {x}
  <2>1. ASSUME NEW t \in Linked'
        PROVE  t \in Linked \cup {x}
    <3>1. PICK i \in 1 .. (Len(chain) + 1) : t = chain'[i]
      BY <2>1, <1>3 DEF Linked
    <3>2. CASE i = Len(chain) + 1
      BY <3>1, <3>2, <1>2
    <3>3. CASE i # Len(chain) + 1
      <4>1. i \in 1 .. Len(chain)
        BY <3>3, <1>1
      <4> QED
        BY <4>1, <3>1, <1>1, <1>2 DEF Linked
    <3> QED
      BY <3>2, <3>3
  <2>2. ASSUME NEW t \in Linked
        PROVE  t \in Linked'
    <3>1. PICK i \in 1 .. Len(chain) : t = chain[i]
      BY <1>1 DEF Linked
    <3>2. i \in DOMAIN chain' /\ t = chain'[i]
      BY <3>1, <1>1, <1>2, <1>3
    <3> QED
      BY <3>2 DEF Linked
  <2>3. x \in Linked'
    <3>1. Len(chain) + 1 \in DOMAIN chain'
      BY <1>1, <1>3
    <3> QED
      BY <3>1, <1>2 DEF Linked
  <2> QED
    BY <2>1, <2>2, <2>3
<1>5. NoDuplicates'
  <2>1. ASSUME NEW i \in 1 .. (Len(chain) + 1), NEW j \in 1 .. (Len(chain) + 1),
               i # j, chain'[i] = chain'[j]
        PROVE  FALSE
    <3>1. \A n \in 1 .. Len(chain) : chain[n] # x
      BY <1>1 DEF Linked
    <3>2. i \in 1 .. Len(chain) /\ j \in 1 .. Len(chain)
      BY <2>1, <3>1, <1>1, <1>2
    <3>3. chain[i] = chain[j]
      BY <3>2, <2>1, <1>2
    <3> QED
      BY <3>2, <3>3, <2>1, <1>1 DEF NoDuplicates
  <2> QED
    BY <2>1, <1>3 DEF NoDuplicates
<1>6. chain'[1] = IF chain = << >> THEN x ELSE chain[1]
  <2>1. CASE chain = << >>
    BY <2>1, <1>2, EmptySeq
  <2>2. CASE chain # << >>
    <3>1. Len(chain) \in Nat \ {0}
      BY <2>2, <1>1, EmptySeq
    <3> QED
      BY <3>1, <1>2, <2>2
  <2> QED
    BY <2>1, <2>2
<1> QED
  BY <1>2, <1>4, <1>5, <1>6

(* Rotating the list keeps what is linked; the second node becomes first.  *)
LEMMA RotateLinks ==
    ASSUME TypeOK, NoDuplicates, Len(chain) > 1, chain' = MoveToTail(chain, 1)
    PROVE  /\ chain' \in Seq(Task) /\ chain' # << >>
           /\ Linked' = Linked
           /\ NoDuplicates'
           /\ chain'[1] = chain[2]
<1>1. /\ chain \in Seq(Task) /\ Len(chain) \in Nat /\ DOMAIN chain = 1 .. Len(chain)
      /\ chain # << >>
  BY EmptySeq, LenProperties DEF TypeOK
<1>2. /\ chain' \in Seq(Task) /\ Len(chain') = Len(chain)
      /\ \A j \in 1 .. Len(chain) :
            chain'[j] = IF j < Len(chain) THEN chain[j + 1] ELSE chain[1]
  BY <1>1, MoveHead
<1>3. DOMAIN chain' = 1 .. Len(chain)
  BY <1>2, LenProperties
<1>4. chain' # << >> /\ chain'[1] = chain[2]
  BY <1>1, <1>2, EmptySeq
<1>5. Linked' = Linked
  <2>1. ASSUME NEW i \in 1 .. Len(chain)
        PROVE  \E j \in 1 .. Len(chain) : chain'[i] = chain[j]
    <3>1. CASE i < Len(chain)
      <4>1. i + 1 \in 1 .. Len(chain)
        BY <3>1, <1>1
      <4> QED
        BY <4>1, <3>1, <1>2
    <3>2. CASE ~(i < Len(chain))
      <4>1. 1 \in 1 .. Len(chain)
        BY <1>1
      <4> QED
        BY <4>1, <3>2, <1>2
    <3> QED
      BY <3>1, <3>2
  <2>2. ASSUME NEW j \in 1 .. Len(chain)
        PROVE  \E i \in 1 .. Len(chain) : chain[j] = chain'[i]
    <3>1. CASE j = 1
      <4>1. Len(chain) \in 1 .. Len(chain) /\ ~(Len(chain) < Len(chain))
        BY <1>1
      <4> QED
        BY <4>1, <3>1, <1>2
    <3>2. CASE j # 1
      <4>1. j - 1 \in 1 .. Len(chain) /\ j - 1 < Len(chain) /\ (j - 1) + 1 = j
        BY <3>2, <1>1
      <4> QED
        BY <4>1, <1>2
    <3> QED
      BY <3>1, <3>2
  <2>3. Linked' = { chain'[i] : i \in 1 .. Len(chain) }
    BY <1>3 DEF Linked
  <2>4. Linked = { chain[i] : i \in 1 .. Len(chain) }
    BY <1>1 DEF Linked
  <2>5. ASSUME NEW t \in Linked'
        PROVE  t \in Linked
    <3>1. PICK i \in 1 .. Len(chain) : t = chain'[i]
      BY <2>3
    <3> QED
      BY <3>1, <2>1, <2>4
  <2>6. ASSUME NEW t \in Linked
        PROVE  t \in Linked'
    <3>1. PICK j \in 1 .. Len(chain) : t = chain[j]
      BY <2>4
    <3> QED
      BY <3>1, <2>2, <2>3
  <2> QED
    BY <2>5, <2>6
<1>6. NoDuplicates'
  <2>1. ASSUME NEW i \in 1 .. Len(chain), NEW j \in 1 .. Len(chain), i < j
        PROVE  chain'[i] # chain'[j]
    <3>1. /\ i < Len(chain) /\ i + 1 \in DOMAIN chain /\ i + 1 # 1
          /\ chain'[i] = chain[i + 1]
      BY <2>1, <1>1, <1>2
    <3>2. CASE j < Len(chain)
      <4>1. j + 1 \in DOMAIN chain /\ chain'[j] = chain[j + 1] /\ i + 1 # j + 1
        BY <3>2, <2>1, <1>1, <1>2
      <4> QED
        BY <3>1, <4>1 DEF NoDuplicates
    <3>3. CASE ~(j < Len(chain))
      <4>1. 1 \in DOMAIN chain /\ chain'[j] = chain[1]
        BY <3>3, <1>1, <1>2
      <4> QED
        BY <3>1, <4>1 DEF NoDuplicates
    <3> QED
      BY <3>2, <3>3
  <2>2. \A i, j \in 1 .. Len(chain) : i # j => i < j \/ j < i
    BY <1>1
  <2> QED
    BY <2>1, <2>2, <1>3 DEF NoDuplicates
<1> QED
  BY <1>2, <1>4, <1>5, <1>6

(* When the handler finds no ready task, the list is the busy one alone.   *)
LEMMA NoOtherIsAlone ==
    ASSUME TypeOK, Order, TickNoOther
    PROVE  Len(chain) = 1 /\ chain' = chain
<1>1. PICK i \in DOMAIN chain :
        /\ IsFirst(chain, i, Busy)
        /\ ~ Has(MoveToTail(chain, i), Ready)
        /\ chain' = MoveToTail(chain, i)
  BY DEF TickNoOther
<1>2. i = 1 /\ chain # << >> /\ chain[1] = Runner /\ chain \in Seq(Task)
  BY <1>1, BusyIsHead DEF TypeOK
<1>3. Len(chain) \in Nat \ {0} /\ DOMAIN chain = 1 .. Len(chain)
  BY <1>2, EmptySeq, LenProperties
<1>4. /\ chain' \in Seq(Task) /\ Len(chain') = Len(chain)
      /\ \A j \in 1 .. Len(chain) :
            chain'[j] = IF j < Len(chain) THEN chain[j + 1] ELSE chain[1]
  BY <1>1, <1>2, MoveHead
<1>5. Len(chain) = 1
  <2>1. SUFFICES ASSUME Len(chain) > 1
                 PROVE  FALSE
    BY <1>3
  <2>2. 1 \in DOMAIN chain /\ 2 \in DOMAIN chain /\ chain[2] \in Task
    BY <2>1, <1>2, <1>3, ElementOfSeq
  <2>3. status[chain[2]] = Ready
    BY <2>2, <1>2 DEF Order, NoDuplicates
  <2>4. 1 \in DOMAIN chain' /\ chain'[1] = chain[2]
    BY <2>1, <1>3, <1>4, LenProperties
  <2> QED
    BY <2>3, <2>4, <1>1 DEF Has
<1>6. chain' = chain
  BY <1>2, <1>3, <1>4, <1>5, SeqEqual
<1> QED
  BY <1>5, <1>6

-----------------------------------------------------------------------------
(* The invariant.                                                          *)

LEMMA InitHolds == Init => IInv
<1> SUFFICES ASSUME Init
             PROVE  IInv
  OBVIOUS
<1>1. chain = << >> /\ DOMAIN chain = {} /\ Linked = {}
  <2>1. chain = << >>
    BY DEF Init
  <2>2. DOMAIN chain = {}
    BY <2>1
  <2> QED
    BY <2>1, <2>2 DEF Linked
<1>2. TypeOK
  BY <1>1, EmptySeq, TaskAssumption DEF Init, TypeOK, Task, Ready
<1>3. Order
  BY <1>1, TaskAssumption
     DEF Init, Order, NoDuplicates, Runner, Task, Ready, Busy, Exited
<1>4. Loading
  BY <1>1, TaskAssumption DEF Init, Loading, Task
<1>5. Walking
  BY TaskAssumption DEF Init, Walking, Task
<1> QED
  BY <1>2, <1>3, <1>4, <1>5 DEF IInv

LEMMA CoreMarkBusyKeeps == IInv /\ CoreMarkBusy => IInv'
<1> SUFFICES ASSUME IInv, CoreMarkBusy
             PROVE  IInv'
  OBVIOUS
<1> USE DEF IInv, CoreMarkBusy, CoreAt, bootVars, walkVars
<1>1. Core \in Task /\ Linked' = Linked /\ Runner' = Runner
  BY DEF Task, Linked, Runner
<1>2. TypeOK'
  BY <1>1 DEF TypeOK
<1>3. Order'
  BY <1>1, TaskAssumption DEF TypeOK, Order, NoDuplicates, Task, Ready, Busy, Exited
<1>4. Loading'
  BY <1>1 DEF TypeOK, Loading
<1>5. Walking'
  BY <1>1, TaskAssumption DEF TypeOK, Walking, Task
<1> QED
  BY <1>2, <1>3, <1>4, <1>5

LEMMA CoreAppendKeeps == IInv /\ CoreAppend => IInv'
<1> SUFFICES ASSUME IInv, CoreAppend
             PROVE  IInv'
  OBVIOUS
<1> USE DEF IInv, CoreAppend, CoreAt, bootVars, walkVars
<1>1. Core \in Task /\ Runner = Core /\ Runner' = Core /\ chain = << >> /\ tr = Nil
  BY DEF Task, Runner, Order
<1>2. Linked = {}
  <2>1. DOMAIN chain = {}
    BY <1>1
  <2> QED
    BY <2>1 DEF Linked
<1>3. chain' = <<Core>>
  BY <1>1
<1>4. /\ chain' \in Seq(Task) /\ chain' # << >> /\ NoDuplicates' /\ chain'[1] = Core
      /\ Linked' = {Core}
  BY <1>1, <1>2, AppendLinks DEF Order
<1>5. TypeOK'
  BY <1>1, <1>4 DEF TypeOK
<1>6. Order'
  BY <1>1, <1>3, <1>4 DEF TypeOK, Order, Task, Ready, Busy, Exited
<1>7. Loading'
  BY <1>1, <1>2, <1>4, TaskAssumption DEF TypeOK, Loading
<1>8. Walking'
  BY <1>1, TaskAssumption DEF TypeOK, Walking, Task
<1> QED
  BY <1>5, <1>6, <1>7, <1>8

LEMMA CoreInstallTssKeeps == IInv /\ CoreInstallTss => IInv'
<1> SUFFICES ASSUME IInv, CoreInstallTss
             PROVE  IInv'
  OBVIOUS
<1> USE DEF IInv, CoreInstallTss, CoreAt, walkVars
<1>1. Core \in Task /\ Linked' = Linked /\ Runner' = Runner
  BY DEF Task, Linked, Runner
<1>2. TypeOK'
  BY <1>1 DEF TypeOK, TssPart
<1>3. Order'
  BY <1>1, TaskAssumption DEF TypeOK, Order, NoDuplicates, Task
<1>4. Loading'
  BY <1>1, TaskAssumption DEF TypeOK, Loading, Task
<1>5. Walking'
  BY <1>1, TaskAssumption DEF TypeOK, Walking, Task
<1> QED
  BY <1>2, <1>3, <1>4, <1>5

LEMMA CoreLtrKeeps == IInv /\ CoreLtr => IInv'
<1> SUFFICES ASSUME IInv, CoreLtr
             PROVE  IInv'
  OBVIOUS
<1> USE DEF IInv, CoreLtr, CoreAt, bootVars, walkVars
<1>1. /\ Core \in Task /\ Linked' = Linked
      /\ Runner = Core /\ Runner' = Core /\ tr = Nil /\ tr' # Nil
  BY TaskAssumption DEF Task, Linked, Runner, Order
<1>2. TypeOK'
  BY <1>1 DEF TypeOK
<1>3. Order'
  BY <1>1, TaskAssumption DEF TypeOK, Order, NoDuplicates, Task
<1>4. Loading'
  BY <1>1, TaskAssumption DEF TypeOK, Loading, Task
<1>5. Walking'
  BY <1>1, TaskAssumption DEF TypeOK, Walking, Task
<1> QED
  BY <1>2, <1>3, <1>4, <1>5

LEMMA CreateTcbKeeps ==
    ASSUME IInv, NEW u \in User, CreateTcb(u)
    PROVE  IInv'
<1> USE DEF IInv, CreateTcb, CoreAt, walkVars
<1>1. /\ u \in Task /\ u # Core /\ u # Nil /\ u # Runner
      /\ Linked' = Linked /\ Runner' = Runner /\ status[u] = Ready
  BY TaskAssumption DEF Task, Linked, Runner, Order
<1>2. status' = status
  BY <1>1 DEF TypeOK
<1>3. TypeOK'
  BY <1>1, <1>2 DEF TypeOK
<1>4. Order'
  BY <1>1, <1>2, TaskAssumption DEF TypeOK, Order, NoDuplicates, Task
<1>5. Loading'
  BY <1>1, TaskAssumption DEF TypeOK, Loading, Task
<1>6. Walking'
  BY <1>1, <1>2, TaskAssumption DEF TypeOK, Walking, Task
<1> QED
  BY <1>3, <1>4, <1>5, <1>6

LEMMA LoadBuildTssKeeps == IInv /\ LoadBuildTss => IInv'
<1> SUFFICES ASSUME IInv, LoadBuildTss
             PROVE  IInv'
  OBVIOUS
<1> USE DEF IInv, LoadBuildTss, CoreAt, walkVars
<1>1. Core \in Task /\ new \in User /\ new # Core /\ Linked' = Linked /\ Runner' = Runner
  BY TaskAssumption DEF Task, Linked, Runner, Loading, TypeOK
<1>2. TypeOK'
  BY <1>1 DEF TypeOK, TssPart, Task
<1>3. Order'
  BY <1>1, TaskAssumption DEF TypeOK, Order, NoDuplicates, Task
<1>4. Loading'
  BY <1>1, TaskAssumption DEF TypeOK, Loading, Task
<1>5. Walking'
  BY <1>1, TaskAssumption DEF TypeOK, Walking, Task
<1> QED
  BY <1>2, <1>3, <1>4, <1>5

LEMMA LoadCopyDirectoryKeeps == IInv /\ LoadCopyDirectory => IInv'
<1> SUFFICES ASSUME IInv, LoadCopyDirectory
             PROVE  IInv'
  OBVIOUS
<1> USE DEF IInv, LoadCopyDirectory, CoreAt, walkVars
<1>1. Core \in Task /\ new \in User /\ new # Core /\ Linked' = Linked /\ Runner' = Runner
  BY TaskAssumption DEF Task, Linked, Runner, Loading, TypeOK
<1>2. TypeOK'
  BY <1>1 DEF TypeOK, TssPart, Task
<1>3. Order'
  BY <1>1, TaskAssumption DEF TypeOK, Order, NoDuplicates, Task
<1>4. Loading'
  BY <1>1, TaskAssumption DEF TypeOK, Loading, Task, TssPart
<1>5. Walking'
  BY <1>1, TaskAssumption DEF TypeOK, Walking, Task
<1> QED
  BY <1>2, <1>3, <1>4, <1>5

LEMMA AppendTcbKeeps == IInv /\ AppendTcb => IInv'
<1> SUFFICES ASSUME IInv, AppendTcb
             PROVE  IInv'
  OBVIOUS
<1> USE DEF IInv, AppendTcb, CoreAt, walkVars
<1>1. /\ Core \in Task /\ new \in User /\ new \in Task /\ new # Core /\ new \notin Linked
      /\ Runner' = Runner /\ chain # << >> /\ chain[1] = Runner /\ tr # Nil
  BY TaskAssumption DEF Task, Runner, Loading, Order, TypeOK
<1>2. /\ chain' \in Seq(Task) /\ chain' # << >> /\ NoDuplicates' /\ chain'[1] = Runner
      /\ Linked' = Linked \cup {new}
  BY <1>1, AppendLinks DEF Order
<1>3. pc'[Core] \in {"core", "create"} /\ \A u \in User : pc'[u] = pc[u]
  BY <1>1, TaskAssumption DEF TypeOK, Task
<1>4. TypeOK'
  BY <1>1, <1>2 DEF TypeOK
<1>5. Order'
  BY <1>1, <1>2, <1>3, TaskAssumption DEF TypeOK, Order, Task
<1>6. Loading'
  BY <1>1, <1>2, <1>3, TaskAssumption DEF TypeOK, Loading, Task
<1>7. Walking'
  BY <1>1, <1>3, TaskAssumption DEF TypeOK, Walking, Task
<1> QED
  BY <1>4, <1>5, <1>6, <1>7

LEMMA CallTerminateKeeps ==
    ASSUME IInv, NEW u \in User, CallTerminate(u)
    PROVE  IInv'
<1> USE DEF IInv, CallTerminate, UserAt, bootVars
<1>1. /\ u \in Task /\ u # Core /\ Linked' = Linked /\ Runner' = Runner
      /\ pc'[Core] = pc[Core]
  BY TaskAssumption DEF Task, Linked, Runner, TypeOK
<1>2. TypeOK'
  BY <1>1 DEF TypeOK
<1>3. Order'
  BY <1>1, TaskAssumption DEF TypeOK, Order, NoDuplicates, Task
<1>4. Loading'
  BY <1>1, TaskAssumption DEF TypeOK, Loading, Task
<1>5. Walking'
  BY <1>1, TaskAssumption DEF TypeOK, Walking, Task
<1> QED
  BY <1>2, <1>3, <1>4, <1>5

(* A program that runs is the head of the list.                            *)
LEMMA RunningUserIsHead ==
    ASSUME IInv, NEW u \in User, tr = u
    PROVE  /\ u \in Task /\ u # Core /\ u # Nil /\ u # TcbChain
           /\ Runner = u /\ chain # << >> /\ chain[1] = u
           /\ LinkOf(TcbChain) = u
           /\ status[u] # Ready
<1>1. u \in Task /\ u # Core /\ u # Nil /\ u # TcbChain /\ Runner = u
  BY TaskAssumption DEF Task, Runner
<1>2. pc[Core] \notin {"mark", "append", "install", "ltr"}
  BY <1>1 DEF IInv, Order
<1>3. chain # << >> /\ chain[1] = u /\ status[u] # Ready
  BY <1>1, <1>2 DEF IInv, Order
<1>4. Len(chain) \in Nat \ {0}
  BY <1>3, EmptySeq DEF IInv, TypeOK
<1>5. LinkOf(TcbChain) = u
  BY <1>3, <1>4 DEF LinkOf
<1> QED
  BY <1>1, <1>3, <1>5

LEMMA WalkLoadKeeps ==
    ASSUME IInv, NEW u \in User, WalkLoad(u)
    PROVE  IInv'
<1> USE DEF IInv, WalkLoad, UserAt, bootVars
<1>1. /\ u \in Task /\ u # Core /\ Linked' = Linked /\ Runner' = Runner
      /\ pc'[Core] = pc[Core]
  BY TaskAssumption DEF Task, Linked, Runner, TypeOK
<1>2. LinkOf(eax[u]) = u
  BY RunningUserIsHead DEF Walking
<1>3. TypeOK'
  BY <1>1, <1>2 DEF TypeOK
<1>4. Order'
  BY <1>1, TaskAssumption DEF TypeOK, Order, NoDuplicates, Task
<1>5. Loading'
  BY <1>1, TaskAssumption DEF TypeOK, Loading, Task
<1>6. Walking'
  BY <1>1, <1>2, TaskAssumption DEF TypeOK, Walking, Task
<1> QED
  BY <1>3, <1>4, <1>5, <1>6

LEMMA WalkTestKeeps ==
    ASSUME IInv, NEW u \in User, WalkTest(u)
    PROVE  IInv' /\ pc'[u] = "mark"
<1> USE DEF IInv, WalkTest, UserAt, bootVars
<1>1. /\ u \in Task /\ u # Core /\ Linked' = Linked /\ Runner' = Runner
      /\ status[u] # Ready
  BY RunningUserIsHead DEF Linked, Runner
<1>2. ebx[u] = u /\ status[u] = Busy
  BY <1>1 DEF TypeOK, Walking, Order
<1>3. pc' = [pc EXCEPT ![u] = "mark"] /\ eax' = eax
  BY <1>1, <1>2
<1>4. TypeOK'
  BY <1>1, <1>3 DEF TypeOK
<1>5. Order'
  BY <1>1, <1>3, TaskAssumption DEF TypeOK, Order, NoDuplicates, Task
<1>6. Loading'
  BY <1>1, <1>3, TaskAssumption DEF TypeOK, Loading, Task
<1>7. Walking'
  BY <1>1, <1>2, <1>3, TaskAssumption DEF TypeOK, Walking, Task
<1> QED
  BY <1>1, <1>3, <1>4, <1>5, <1>6, <1>7 DEF TypeOK

LEMMA MarkExitedKeeps ==
    ASSUME IInv, NEW u \in User, MarkExited(u)
    PROVE  IInv' /\ status' = [status EXCEPT ![u] = Exited]
<1> USE DEF IInv, MarkExited, UserAt, bootVars, walkVars
<1>1. /\ u \in Task /\ u # Core /\ Linked' = Linked /\ Runner' = Runner /\ Runner = u
      /\ pc[Core] \notin {"mark", "append"} /\ pc'[Core] = pc[Core]
  BY RunningUserIsHead DEF Linked, Runner, Order, TypeOK
<1>2. status' = [status EXCEPT ![u] = Exited]
  BY DEF Walking
<1>3. TypeOK'
  BY <1>1, <1>2 DEF TypeOK
<1>4. Order'
  BY <1>1, <1>2, TaskAssumption
     DEF TypeOK, Order, NoDuplicates, Task, Ready, Busy, Exited
<1>5. Loading'
  BY <1>1, TaskAssumption DEF TypeOK, Loading, Task
<1>6. Walking'
  BY <1>1, <1>2, TaskAssumption DEF TypeOK, Walking, Task
<1> QED
  BY <1>2, <1>3, <1>4, <1>5, <1>6

LEMMA TickKeeps == IInv /\ Tick => IInv'
<1> SUFFICES ASSUME IInv, Tick
             PROVE  IInv'
  OBVIOUS
<1> USE DEF IInv
<1>1. CASE TickNoCurrent
  BY <1>1 DEF TickNoCurrent, vars, TypeOK, Order, Loading, Walking, NoDuplicates,
              Runner, Linked
<1>2. CASE TickNoOther
  <2>1. UNCHANGED vars
    BY <1>2, NoOtherIsAlone DEF TickNoOther, vars, bootVars, walkVars
  <2> QED
    BY <2>1 DEF vars, TypeOK, Order, Loading, Walking, NoDuplicates, Runner, Linked
<1>3. CASE TickSwitch
  <2>1. /\ Len(chain) > 1 /\ status[Runner] = Busy /\ chain[1] = Runner
        /\ chain' = MoveToTail(chain, 1)
        /\ chain[2] \in Task /\ chain[2] # Runner
        /\ status' = [status EXCEPT ![chain[2]] = Busy, ![Runner] = Ready]
        /\ tr' = chain[2]
        /\ tssBusy' = (tssBusy \ {tr}) \cup {chain[2]}
    BY <1>3, SwitchRotates
  <2>2. /\ chain' \in Seq(Task) /\ chain' # << >>
        /\ Linked' = Linked /\ NoDuplicates' /\ chain'[1] = chain[2]
    BY <2>1, RotateLinks DEF Order
  <2>3. UNCHANGED <<pc, installed, new, eax, ebx>>
    BY <1>3 DEF TickSwitch, bootVars, walkVars
  <2>4. Runner \in Task /\ Runner' = chain[2] /\ chain[2] # Nil
    BY <2>1, TaskAssumption DEF Runner, Task, TypeOK
  <2>5. pc[Core] \notin {"mark", "append", "install", "ltr"} /\ tr # Nil /\ Runner = tr
    <3>1. chain # << >> /\ chain # <<Core>>
      BY <2>1
    <3> QED
      BY <3>1 DEF Order, Runner
  <2>6. /\ status'[chain[2]] = Busy /\ status'[Runner] = Ready
        /\ \A t \in Task : t # chain[2] /\ t # Runner => status'[t] = status[t]
    BY <2>1, <2>4 DEF TypeOK
  <2>7. TypeOK'
    BY <2>1, <2>2, <2>3, <2>4 DEF TypeOK
  <2>8. Order'
    <3>1. \A t \in Task : t # Runner' => status'[t] = Ready
      BY <2>4, <2>6 DEF Order
    <3>2. \A t \in Task : status'[t] = Exited => t # Core /\ pc'[t] = "hlt"
      BY <2>3, <2>6 DEF Order, Busy, Ready, Exited
    <3>3. tssBusy' = {tr'} /\ tr' # Nil
      BY <2>1, <2>4, <2>5 DEF Order
    <3>4. status'[Runner'] # Ready
      BY <2>4, <2>6 DEF Busy, Ready
    <3>5. pc'[Core] = pc[Core]
      BY <2>3
    <3> QED
      BY <2>2, <2>4, <2>5, <3>1, <3>2, <3>3, <3>4, <3>5 DEF Order
  <2>9. Loading'
    BY <2>2, <2>3 DEF Loading
  <2>10. Walking'
    <3>1. \A u \in User : pc[u] # "hlt" \/ (u # Runner /\ u # chain[2])
      BY <2>1, TaskAssumption DEF Walking, Order, Task, Busy, Exited, Ready
    <3> QED
      BY <2>3, <2>6, <3>1 DEF Walking, Task
  <2> QED
    BY <2>7, <2>8, <2>9, <2>10
<1> QED
  BY <1>1, <1>2, <1>3 DEF Tick

(* The conjunction of the four parts is an inductive invariant.            *)
THEOREM Inductive == Spec => []IInv
<1>1. Init => IInv
  BY InitHolds
<1>2. IInv /\ [Next]_vars => IInv'
  <2> SUFFICES ASSUME IInv, [Next]_vars
               PROVE  IInv'
    OBVIOUS
  <2>1. CASE Boot
    BY <2>1, CoreMarkBusyKeeps, CoreAppendKeeps, CoreInstallTssKeeps, CoreLtrKeeps,
       CreateTcbKeeps, LoadBuildTssKeeps, LoadCopyDirectoryKeeps, AppendTcbKeeps DEF Boot
  <2>2. ASSUME NEW u \in User, CallTerminate(u) \/ Terminate(u)
        PROVE  IInv'
    BY <2>2, CallTerminateKeeps, WalkLoadKeeps, WalkTestKeeps, MarkExitedKeeps
       DEF Terminate
  <2>3. CASE Tick
    BY <2>3, TickKeeps
  <2>4. CASE UNCHANGED vars
    BY <2>4 DEF vars, IInv, TypeOK, Order, Loading, Walking, NoDuplicates, Runner, Linked
  <2> QED
    BY <2>1, <2>2, <2>3, <2>4 DEF Next
<1> QED
  BY <1>1, <1>2, PTL DEF Spec

-----------------------------------------------------------------------------
(* The safety properties the runs check.                                   *)

(* Every field keeps its type: a status word is only ever one of the three *)
(* values the code compares with.                                          *)
THEOREM TypeCorrect == Spec => []TypeOK
<1>1. IInv => TypeOK
  BY DEF IInv
<1> QED
  BY <1>1, Inductive, PTL

LEMMA EmptyLinked == chain = << >> => Linked = {}
<1> SUFFICES ASSUME chain = << >>
             PROVE  Linked = {}
  OBVIOUS
<1>1. DOMAIN chain = {}
  OBVIOUS
<1> QED
  BY <1>1 DEF Linked

(* The list never loses a TCB and never holds one twice.                   *)
THEOREM LinkedOnce == Spec => []EveryTaskLinkedOnce
<1>1. IInv => EveryTaskLinkedOnce
  <2> SUFFICES ASSUME IInv
               PROVE  EveryTaskLinkedOnce
    OBVIOUS
  <2>1. Core \in Linked <=> pc[Core] \notin {"mark", "append"}
    BY EmptyLinked DEF IInv, Order, Loading
  <2>2. ASSUME NEW u \in User
        PROVE  u \in Linked <=> u # new /\ installed[u] = TssPart
    <3>1. u \in Linked => u # new
      BY TaskAssumption DEF IInv, Loading
    <3>2. u # new => (u \in Linked <=> installed[u] = TssPart)
      BY DEF IInv, Loading, TssPart
    <3> QED
      BY <3>1, <3>2
  <2> QED
    BY <2>1, <2>2, TaskAssumption
       DEF EveryTaskLinkedOnce, IInv, Order, NoDuplicates, Task
<1> QED
  BY <1>1, Inductive, PTL

(* The task marked busy, the head of the list, TR and the busy descriptor  *)
(* name one task.                                                          *)
THEOREM Agreement == Spec => []CurrentAgrees
<1>1. IInv => CurrentAgrees
  <2> SUFFICES ASSUME IInv
               PROVE  CurrentAgrees
    OBVIOUS
  <2>1. Linked \subseteq Task /\ Runner \in Task
    BY LenProperties, ElementOfSeq DEF IInv, TypeOK, Linked, Runner, Task
  <2>2. chain # << >> => pc[Core] \notin {"mark", "append"}
    BY DEF IInv, Order
  <2> QED
    BY <2>1, <2>2 DEF IInv, TypeOK, Order, CurrentAgrees, SomeExited, Busy, Ready
<1> QED
  BY <1>1, Inductive, PTL

(* The far jump of the handler always has a complete TSS to go to and one  *)
(* to leave.                                                               *)
THEOREM NoFault == Spec => []SwitchCannotFault
<1>1. IInv => SwitchCannotFault
  <2> SUFFICES ASSUME IInv, NEW t \in Linked, status[t] = Ready
               PROVE  tr # Nil /\ installed[t] = TssPart /\ t \notin tssBusy
    BY DEF SwitchCannotFault
  <2>1. t \in Task
    BY LenProperties, ElementOfSeq DEF IInv, TypeOK, Linked
  <2>2. pc[Core] \notin {"mark", "append"}
    BY EmptyLinked DEF IInv, Order
  <2>3. t # Runner
    BY <2>2 DEF IInv, Order
  <2>4. pc[Core] \notin {"install", "ltr"}
    <3>1. SUFFICES ASSUME pc[Core] \in {"install", "ltr"}
                   PROVE  FALSE
      OBVIOUS
    <3>2. chain = <<Core>> /\ Runner = Core
      BY <3>1 DEF IInv, Order, Runner
    <3>3. Linked = {Core}
      BY <3>2 DEF Linked
    <3> QED
      BY <3>2, <3>3, <2>3
  <2>5. tr # Nil /\ tssBusy = {Runner}
    BY <2>2, <2>4 DEF IInv, Order, Runner
  <2>6. installed[t] = TssPart
    BY <2>1, <2>2, <2>4, TaskAssumption DEF IInv, Loading, Task
  <2> QED
    BY <2>3, <2>5, <2>6
<1> QED
  BY <1>1, Inductive, PTL

(* The unguarded walk of terminate_current_task stops at its first node.   *)
THEOREM WalkStops == Spec => []WalkFindsItself
<1>1. IInv => WalkFindsItself
  BY DEF IInv, Walking, WalkFindsItself
<1> QED
  BY <1>1, Inductive, PTL

-----------------------------------------------------------------------------
(* The implementation of RoundRobin.                                       *)

waiting == IF chain = << >> THEN << >> ELSE Tail(chain)

(* Linking a TCB adds it to the end of the queue.                          *)
LEMMA AppendEnqueues ==
    ASSUME TypeOK, chain # << >>, NEW x \in Task, chain' = Append(chain, x)
    PROVE  Tail(chain') = Append(Tail(chain), x) /\ chain' # << >>
<1>1. chain \in Seq(Task) /\ Len(chain) \in Nat \ {0}
  BY EmptySeq DEF TypeOK
<1>2. /\ chain' \in Seq(Task) /\ chain' # << >> /\ Len(chain') = Len(chain) + 1
      /\ \A i \in 1 .. Len(chain) : chain'[i] = chain[i]
      /\ chain'[Len(chain) + 1] = x
  BY <1>1, AppendProperties
<1>3. /\ Tail(chain) \in Seq(Task) /\ Len(Tail(chain)) = Len(chain) - 1
      /\ \A i \in 1 .. (Len(chain) - 1) : Tail(chain)[i] = chain[i + 1]
  BY <1>1, HeadTailProperties
<1>4. /\ Tail(chain') \in Seq(Task) /\ Len(Tail(chain')) = Len(chain)
      /\ \A i \in 1 .. Len(chain) : Tail(chain')[i] = chain'[i + 1]
  BY <1>1, <1>2, HeadTailProperties
<1> DEFINE q == Append(Tail(chain), x)
<1>5. /\ q \in Seq(Task) /\ Len(q) = Len(chain)
      /\ \A i \in 1 .. (Len(chain) - 1) : q[i] = chain[i + 1]
      /\ q[Len(chain)] = x
  BY <1>1, <1>3, AppendProperties
<1>6. ASSUME NEW i \in 1 .. Len(chain)
      PROVE  Tail(chain')[i] = q[i]
  <2>1. CASE i = Len(chain)
    BY <2>1, <1>1, <1>2, <1>4, <1>5
  <2>2. CASE i # Len(chain)
    <3>1. i \in 1 .. (Len(chain) - 1) /\ i + 1 \in 1 .. Len(chain)
      BY <2>2, <1>1
    <3> QED
      BY <3>1, <1>2, <1>4, <1>5
  <2> QED
    BY <2>1, <2>2
<1>7. Tail(chain') = q
  BY <1>4, <1>5, <1>6, SeqEqual
<1> QED
  BY <1>2, <1>7

(* A rotation of the list takes the head of the queue off and puts the old *)
(* head of the list at its end.                                            *)
LEMMA RotateServes ==
    ASSUME TypeOK, Len(chain) > 1, chain' = MoveToTail(chain, 1)
    PROVE  /\ Tail(chain) # << >> /\ Head(Tail(chain)) = chain[2]
           /\ Tail(chain') = Append(Tail(Tail(chain)), chain[1])
           /\ chain # << >> /\ chain' # << >>
<1>1. chain \in Seq(Task) /\ Len(chain) \in Nat /\ chain # << >>
  BY EmptySeq DEF TypeOK
<1> DEFINE t == Tail(chain)
<1>2. /\ t \in Seq(Task) /\ Len(t) = Len(chain) - 1
      /\ \A i \in 1 .. (Len(chain) - 1) : t[i] = chain[i + 1]
  BY <1>1, HeadTailProperties
<1>3. t # << >> /\ Head(t) = chain[2]
  <2>1. Len(t) > 0 /\ 1 \in 1 .. (Len(chain) - 1)
    BY <1>1, <1>2
  <2>2. t # << >>
    <3>1. Len(<< >>) = 0
      BY EmptySeq
    <3> HIDE DEF t
    <3> QED
      BY <1>1, <1>2, <2>1, <3>1
  <2>3. Head(t) = t[1]
    BY <2>2
  <2> QED
    BY <2>1, <2>2, <2>3, <1>2
<1>4. chain[1] \in Task
  BY <1>1, ElementOfSeq
<1>5. chain' = Append(t, chain[1])
  BY <1>1, MoveHead
<1> HIDE DEF t
<1> DEFINE tt == Tail(t)
<1>6. /\ tt \in Seq(Task) /\ Len(tt) = Len(t) - 1
      /\ \A i \in 1 .. (Len(t) - 1) : tt[i] = t[i + 1]
  BY <1>2, <1>3, HeadTailProperties
<1>7. /\ chain' \in Seq(Task) /\ chain' # << >> /\ Len(chain') = Len(t) + 1
      /\ \A i \in 1 .. Len(t) : chain'[i] = t[i]
      /\ chain'[Len(t) + 1] = chain[1]
  BY <1>2, <1>4, <1>5, AppendProperties
<1>8. /\ Tail(chain') \in Seq(Task) /\ Len(Tail(chain')) = Len(t)
      /\ \A i \in 1 .. Len(t) : Tail(chain')[i] = chain'[i + 1]
  BY <1>1, <1>2, <1>7, HeadTailProperties
<1> HIDE DEF tt
<1> DEFINE q == Append(tt, chain[1])
<1>9. /\ q \in Seq(Task) /\ Len(q) = Len(t)
      /\ \A i \in 1 .. (Len(t) - 1) : q[i] = tt[i]
      /\ q[Len(t)] = chain[1]
  BY <1>1, <1>2, <1>4, <1>6, AppendProperties
<1> HIDE DEF q
<1>10. ASSUME NEW i \in 1 .. Len(t)
       PROVE  Tail(chain')[i] = q[i]
  <2>1. CASE i = Len(t)
    BY <2>1, <1>1, <1>2, <1>7, <1>8, <1>9
  <2>2. CASE i # Len(t)
    <3>1. i \in 1 .. (Len(t) - 1) /\ i + 1 \in 1 .. Len(t)
      BY <2>2, <1>1, <1>2
    <3>2. Tail(chain')[i] = t[i + 1]
      BY <3>1, <1>7, <1>8
    <3>3. q[i] = t[i + 1]
      BY <3>1, <1>6, <1>9
    <3> QED
      BY <3>2, <3>3
  <2> QED
    BY <2>1, <2>2
<1>11. Tail(chain') = q
  BY <1>8, <1>9, <1>10, SeqEqual
<1> QED
  BY <1>1, <1>3, <1>7, <1>11 DEF t, tt, q

(* Whoever has exited is the task that runs.                               *)
LEMMA ExitedRuns ==
    ASSUME IInv
    PROVE  SomeExited <=> pc[Core] \notin {"mark", "append"} /\ status[Runner] = Exited
<1>1. Runner \in Task
  BY DEF IInv, TypeOK, Runner, Task
<1> QED
  BY <1>1, TaskAssumption DEF IInv, Order, SomeExited, Ready, Busy, Exited, Runner, Task

LEMMA ImplInit == Init => RR!Init
<1> SUFFICES ASSUME Init
             PROVE  RR!Init
  OBVIOUS
<1>1. chain = << >> /\ Runner = Core /\ ~SomeExited
  BY DEF Init, Runner, SomeExited, Ready, Exited
<1> QED
  BY <1>1 DEF RR!Init

(* The steps that neither link, switch nor exit are not seen.              *)
LEMMA ImplStutter ==
    ASSUME TypeOK,
           chain' = chain, Runner' = Runner, SomeExited' = SomeExited
    PROVE  UNCHANGED RR!vars
BY DEF RR!vars

LEMMA ImplAppendTcb == IInv /\ AppendTcb => RR!Admit(new) /\ new \in User
<1> SUFFICES ASSUME IInv, AppendTcb
             PROVE  RR!Admit(new) /\ new \in User
  OBVIOUS
<1>1. /\ pc[Core] = "link" /\ Runner = Core /\ new \in User /\ new \in Task
      /\ new \notin Linked /\ chain # << >> /\ chain' = Append(chain, new)
  BY DEF AppendTcb, CoreAt, IInv, Order, Loading, TypeOK, Task
<1>2. Runner' = Runner /\ SomeExited' = SomeExited /\ ~SomeExited
  <2>1. ~SomeExited
    BY <1>1, ExitedRuns DEF IInv, Order, Task
  <2> QED
    BY <2>1 DEF AppendTcb, Runner, SomeExited
<1>3. Tail(chain') = Append(Tail(chain), new) /\ chain' # << >>
  BY <1>1, AppendEnqueues DEF IInv
<1>4. new \notin { Tail(chain)[i] : i \in DOMAIN Tail(chain) }
  <2>1. chain \in Seq(Task) /\ DOMAIN chain = 1 .. Len(chain) /\ Len(chain) \in Nat
    BY LenProperties DEF IInv, TypeOK
  <2>2. /\ DOMAIN Tail(chain) = 1 .. (Len(chain) - 1)
        /\ \A i \in 1 .. (Len(chain) - 1) : Tail(chain)[i] = chain[i + 1]
    BY <1>1, <2>1, HeadTailProperties, LenProperties
  <2>3. \A i \in 1 .. (Len(chain) - 1) : i + 1 \in DOMAIN chain
    BY <2>1
  <2> QED
    BY <1>1, <2>2, <2>3 DEF Linked
<1> QED
  BY <1>1, <1>2, <1>3, <1>4 DEF RR!Admit, RR!Waiting

LEMMA ImplTickSwitch == IInv /\ TickSwitch => RR!Preempt
<1> SUFFICES ASSUME IInv, TickSwitch
             PROVE  RR!Preempt
  OBVIOUS
<1>1. /\ Len(chain) > 1 /\ status[Runner] = Busy /\ chain[1] = Runner
      /\ chain' = MoveToTail(chain, 1)
      /\ chain[2] \in Task /\ chain[2] # Runner
      /\ status' = [status EXCEPT ![chain[2]] = Busy, ![Runner] = Ready]
      /\ tr' = chain[2]
  BY SwitchRotates DEF IInv
<1>2. /\ Tail(chain) # << >> /\ Head(Tail(chain)) = chain[2]
      /\ Tail(chain') = Append(Tail(Tail(chain)), chain[1])
      /\ chain # << >> /\ chain' # << >>
  BY <1>1, RotateServes DEF IInv
<1>3. Runner' = chain[2]
  BY <1>1, TaskAssumption DEF Runner, Task
<1>4. ~SomeExited
  BY <1>1, ExitedRuns DEF Busy, Exited
<1>5. ~SomeExited'
  <2>1. Runner \in Task
    BY DEF IInv, TypeOK, Runner, Task
  <2>2. \A t \in Task : status[t] # Exited
    BY <1>4 DEF SomeExited
  <2>3. \A t \in Task : status'[t] # Exited
    BY <1>1, <2>1, <2>2 DEF IInv, TypeOK, Busy, Ready, Exited
  <2> QED
    BY <2>3 DEF SomeExited
<1>6. SomeExited' = SomeExited
  BY <1>4, <1>5 DEF SomeExited
<1>7. waiting = Tail(chain) /\ waiting' = Tail(chain')
  BY <1>2 DEF waiting
<1>8. /\ waiting # << >> /\ Runner' = Head(waiting)
      /\ waiting' = Append(Tail(waiting), Runner)
  BY <1>1, <1>2, <1>3, <1>7
<1> QED
  BY <1>4, <1>6, <1>8 DEF RR!Preempt, waiting

LEMMA ImplMarkExited ==
    ASSUME IInv, NEW u \in User, MarkExited(u)
    PROVE  RR!Exit
<1>1. u \in Task /\ u # Core /\ Runner = u /\ tr = u /\ pc[u] = "mark"
  BY RunningUserIsHead DEF MarkExited, UserAt
<1>2. status' = [status EXCEPT ![u] = Exited]
  BY MarkExitedKeeps
<1>3. ~SomeExited
  BY <1>1, ExitedRuns DEF IInv, Order
<1>4. SomeExited'
  BY <1>1, <1>2 DEF SomeExited, IInv, TypeOK
<1>5. chain' = chain /\ Runner' = Runner
  BY DEF MarkExited, Runner
<1> QED
  BY <1>1, <1>3, <1>4, <1>5 DEF RR!Exit

LEMMA ImplNext == IInv /\ [Next]_vars => [RR!Next]_(RR!vars)
<1> SUFFICES ASSUME IInv, [Next]_vars
             PROVE  [RR!Next]_(RR!vars)
  OBVIOUS
<1>1. CASE AppendTcb
  BY <1>1, ImplAppendTcb DEF RR!Next
<1>2. CASE TickSwitch
  BY <1>2, ImplTickSwitch DEF RR!Next
<1>3. ASSUME NEW u \in User, MarkExited(u)
      PROVE  [RR!Next]_(RR!vars)
  BY <1>3, ImplMarkExited DEF RR!Next
<1>4. CASE CoreMarkBusy
  <2>1. chain' = chain /\ Runner' = Runner
    BY <1>4 DEF CoreMarkBusy, Runner
  <2>2. SomeExited' = SomeExited
    BY <1>4 DEF CoreMarkBusy, CoreAt, SomeExited, IInv, TypeOK, Order, Task,
                Ready, Busy, Exited
  <2> QED
    BY <2>1, <2>2, ImplStutter DEF IInv
<1>5. CASE CoreAppend
  <2>1. chain = << >> /\ chain' = <<Core>> /\ Runner' = Runner
    BY <1>5 DEF CoreAppend, CoreAt, IInv, Order, Runner
  <2>2. Tail(chain') = << >> /\ chain' # << >>
    BY <2>1
  <2>3. SomeExited' = SomeExited
    BY <1>5 DEF CoreAppend, SomeExited
  <2> QED
    BY <2>1, <2>2, <2>3 DEF RR!vars
<1>6. CASE CoreInstallTss \/ LoadBuildTss \/ LoadCopyDirectory
  <2>1. chain' = chain /\ Runner' = Runner /\ SomeExited' = SomeExited
    BY <1>6 DEF CoreInstallTss, LoadBuildTss, LoadCopyDirectory, Runner, SomeExited
  <2> QED
    BY <2>1, ImplStutter DEF IInv
<1>7. CASE CoreLtr
  <2>1. chain' = chain /\ Runner' = Runner /\ SomeExited' = SomeExited
    BY <1>7 DEF CoreLtr, CoreAt, Runner, SomeExited
  <2> QED
    BY <2>1, ImplStutter DEF IInv
<1>8. ASSUME NEW u \in User, CreateTcb(u)
      PROVE  [RR!Next]_(RR!vars)
  <2>1. u \in Task /\ u # Runner
    BY <1>8, TaskAssumption DEF CreateTcb, CoreAt, Task
  <2>2. status' = status
    BY <1>8, <2>1 DEF CreateTcb, IInv, TypeOK, Order
  <2>3. chain' = chain /\ Runner' = Runner /\ SomeExited' = SomeExited
    BY <1>8, <2>2 DEF CreateTcb, Runner, SomeExited
  <2> QED
    BY <2>3, ImplStutter DEF IInv
<1>9. ASSUME NEW u \in User, CallTerminate(u) \/ WalkLoad(u) \/ WalkTest(u)
      PROVE  [RR!Next]_(RR!vars)
  <2>1. chain' = chain /\ Runner' = Runner /\ SomeExited' = SomeExited
    BY <1>9 DEF CallTerminate, WalkLoad, WalkTest, Runner, SomeExited
  <2> QED
    BY <2>1, ImplStutter DEF IInv
<1>10. CASE TickNoCurrent \/ TickNoOther \/ UNCHANGED vars
  <2>1. UNCHANGED vars
    BY <1>10, NoOtherIsAlone
       DEF TickNoCurrent, TickNoOther, vars, bootVars, walkVars, IInv
  <2>2. chain' = chain /\ Runner' = Runner /\ SomeExited' = SomeExited
    BY <2>1 DEF vars, Runner, SomeExited
  <2> QED
    BY <2>2, ImplStutter DEF IInv
<1> QED
  BY <1>1, <1>2, <1>3, <1>4, <1>5, <1>6, <1>7, <1>8, <1>9, <1>10
     DEF Next, Boot, Terminate, Tick

(* The scheduling of the kernel is a round robin: each switch serves the   *)
(* task that has waited longest, for any number of programs.               *)
THEOREM Refinement == Spec => ImplementsRoundRobin
<1> USE DEF ImplementsRoundRobin
<1> QED
  BY ImplInit, ImplNext, Inductive, PTL DEF Spec, RR!Spec
=============================================================================
