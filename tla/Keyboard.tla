------------------------------ MODULE Keyboard ------------------------------
(***************************************************************************)
(* From a key to the screen: the keyboard and its controller (Bochs,       *)
(* iodev/keyboard.cc), the firmware's interrupt handler and its services   *)
(* for reading a key (rombios.c, int 09h and int 16h), and the program of  *)
(* c09/c09_2.asm that shows every key it reads.                            *)
(*                                                                         *)
(* Of the keys there are letters, Shift and Caps Lock; a letter is known   *)
(* by the number of the event that pressed it, and by its case.  Every     *)
(* code has one byte.                                                      *)
(***************************************************************************)
EXTENDS Integers, Sequences, SequencesExt

CONSTANTS
    Elements,   \* bytes of the keyboard's buffer (16)
    Words,      \* words of the firmware's buffer (16)
    MaxEvents   \* bound of a run

KeyboardAssumption ==
    Elements \in Nat \ {0} /\ Words \in Nat \ {0, 1} /\ MaxEvents \in Nat

VARIABLES
    hand,       \* what the typist has done: keys down, Caps Lock on, events;
                \* and whether he is patient: waits until everything is shown
    typed,      \* the letters he has typed, each in its case
    kbd,        \* the keyboard and its controller
    pic,        \* line, request and service bit of interrupt 1
    flags,      \* the firmware's flags, and the lights as it knows them
    ring,       \* the firmware's buffer
    handler,    \* where int 09h is
    al,         \* the code it has read
    pc,         \* where program and int 16h are
    open,       \* interrupts are open outside the handler
    taken,      \* the key int 16h returns
    screen,     \* what the program has shown
    lost,       \* the events with a code that was lost
    stopped     \* the emulator has given up (BX_PANIC)

cpu == <<flags, ring, handler, al, pc, open, taken, screen>>
vars == <<hand, typed, kbd, pic, cpu, lost, stopped>>

Ack == [n |-> 0, key |-> "ack", up |-> TRUE]

Init ==
    /\ hand \in [down : {{}}, caps : {FALSE}, events : {0}, patient : BOOLEAN]
    /\ typed = << >>
    /\ kbd = [buf |-> << >>, out |-> << >>, irq |-> FALSE, timer |-> FALSE,
              clock |-> TRUE, led |-> FALSE]
    /\ pic = [line |-> FALSE, irr |-> FALSE, isr |-> FALSE]
    /\ flags = [shift |-> FALSE, caps |-> FALSE, led |-> FALSE]
    /\ ring = << >> /\ taken = << >> /\ screen = << >>
    /\ handler = "none" /\ al = << >>
    /\ pc = "wait" /\ open = TRUE
    /\ lost = {} /\ stopped = FALSE

-----------------------------------------------------------------------------
(* The keyboard.  A code is put behind those in its buffer, or ignored.    *)

Full(k) == Len(k.buf) >= Elements

EnQ(k, code) ==
    IF Full(k) THEN k
    ELSE [k EXCEPT !.buf = Append(@, code),
                   !.timer = @ \/ (k.out = << >> /\ k.clock)]

(* kbd_enQ_imm: in place of whatever is in the output buffer.              *)
EnQImm(k, code) == [k EXCEPT !.out = <<code>>, !.irq = TRUE]

(* As it would be if a code that waits were not looked for again.          *)
EnabledNoTimer(k) == [k EXCEPT !.clock = TRUE]

(* set_kbd_clock_enable(1), after a 0.                                     *)
Enabled(k) ==
    [k EXCEPT !.clock = TRUE, !.timer = @ \/ (~k.clock /\ k.out = << >>)]

Quiet ==
    /\ kbd.buf = << >> /\ kbd.out = << >> /\ handler = "none"
    /\ ring = << >> /\ pc = "wait"

(* gen_scancode: an event while the keyboard is disabled is forgotten.  A  *)
(* key that is held down may repeat its press.                             *)
Event(key, up) ==
    LET n == hand.events + 1
        down == IF up THEN hand.down \ {key} ELSE hand.down \cup {key}
        code == [n |-> n, key |-> key, up |-> up]
    IN  /\ up => key \in hand.down
        /\ hand.events < MaxEvents
        /\ hand.patient => Quiet
        /\ hand' = [hand EXCEPT !.down = down, !.events = n,
                                !.caps = @ # (key = "caps" /\ ~up)]
        /\ typed' = IF key # "letter" \/ up THEN typed
                    ELSE Append(typed, [n |-> n, capital |->
                                          hand.caps # ("shift" \in hand.down)])
        /\ kbd' = IF kbd.clock THEN EnQ(kbd, code) ELSE kbd
        /\ lost' = IF kbd.clock /\ ~Full(kbd) THEN lost ELSE lost \cup {n}
        /\ UNCHANGED <<pic, cpu, stopped>>

Typist == \E key \in {"letter", "shift", "caps"}, up \in BOOLEAN : Event(key, up)

(* The emulator's timer: first the interrupt that was asked for last time, *)
(* then the next code if there is room for it.                             *)
Raise(p, asked) ==
    IF asked /\ ~p.line THEN [p EXCEPT !.line = TRUE, !.irr = TRUE] ELSE p

Periodic ==
    /\ kbd.timer \/ kbd.irq
    /\ pic' = Raise(pic, kbd.irq)
    /\ kbd' = IF kbd.timer /\ kbd.out = << >> /\ kbd.buf # << >> /\ kbd.clock
              THEN [kbd EXCEPT !.timer = FALSE, !.irq = TRUE,
                               !.out = <<Head(kbd.buf)>>, !.buf = Tail(@)]
              ELSE [kbd EXCEPT !.timer = FALSE, !.irq = FALSE]
    /\ UNCHANGED <<hand, typed, cpu, lost, stopped>>

(* Reading port 0x60; the request is taken back.                           *)
Read(k) ==
    IF k.out = << >> THEN k
    ELSE [k EXCEPT !.out = << >>, !.irq = FALSE, !.timer = TRUE]

Lowered(p) == IF p.line THEN [p EXCEPT !.line = FALSE, !.irr = FALSE] ELSE p

-----------------------------------------------------------------------------
(* int 09h.  Interrupt 1 is accepted with interrupts open and none of its  *)
(* kind in service.                                                        *)

Goes(from, to) == handler = from /\ handler' = to

(* Disable the keyboard (0xad).  The bit the handler then looks for in the *)
(* controller (11196) has been set by the acknowledge.                     *)
Enter ==
    /\ open /\ pic.irr /\ ~pic.isr
    /\ Goes("none", "read")
    /\ pic' = [pic EXCEPT !.irr = FALSE, !.isr = TRUE]
    /\ kbd' = [kbd EXCEPT !.clock = FALSE]
    /\ UNCHANGED <<hand, typed, flags, ring, al, pc, open, taken, screen, lost, stopped>>

ReadCode ==
    /\ Goes("read", "process")
    /\ al' = kbd.out
    /\ kbd' = Read(kbd)
    /\ pic' = Lowered(pic)
    /\ UNCHANGED <<hand, typed, flags, ring, pc, open, taken, screen, lost, stopped>>

(* As it would be with a comparison one word late.                         *)
RingFullLate == Len(ring) = Words

(* A buffer of Words words holds one key less.                             *)
RingFull == Len(ring) = Words - 1

(* As it would be if a release of Shift went unnoticed.                    *)
PressOnly(code) ==
    CASE code.key = "shift" -> [flags EXCEPT !.shift = ~code.up \/ @]
      [] code.key = "caps" /\ ~code.up -> [flags EXCEPT !.caps = ~@]
      [] OTHER -> flags

FlagsAfter(code) ==
    CASE code.key = "shift" -> [flags EXCEPT !.shift = ~code.up]
      [] code.key = "caps" /\ ~code.up -> [flags EXCEPT !.caps = ~@]
      [] OTHER -> flags

Capital == flags.shift # flags.caps

(* int09_function: flags are changed, releases tossed, keys stored.        *)
Process ==
    /\ Goes("process", "eoi")
    /\ LET code == Head(al)
           key == code.key = "letter" /\ ~code.up
       IN  /\ flags' = FlagsAfter(code)
           /\ ring' = IF key /\ ~RingFull
                      THEN Append(ring, [n |-> code.n, capital |-> Capital])
                      ELSE ring
           /\ lost' = IF key /\ RingFull THEN lost \cup {code.n} ELSE lost
    /\ al' = << >>
    /\ UNCHANGED <<hand, typed, kbd, pic, pc, open, taken, screen, stopped>>

Eoi ==
    /\ Goes("eoi", "enable")
    /\ pic' = [pic EXCEPT !.isr = FALSE]
    /\ UNCHANGED <<hand, typed, kbd, flags, ring, al, pc, open, taken, screen, lost, stopped>>

(* Enable the keyboard (0xae), and return.                                 *)
Leave ==
    /\ Goes("enable", "none")
    /\ kbd' = Enabled(kbd)
    /\ UNCHANGED <<hand, typed, pic, flags, ring, al, pc, open, taken, screen, lost, stopped>>

Handler == ReadCode \/ Process \/ Eoi \/ Leave

-----------------------------------------------------------------------------
(* int 16h and the program, while the handler does not run.                *)

Step(from, to) == handler = "none" /\ pc = from /\ pc' = to

(* The loop finds a key with interrupts closed.                            *)
KeyFound ==
    /\ Step("wait", IF flags.caps # flags.led THEN "command" ELSE "take")
    /\ ring # << >>
    /\ open' = FALSE
    /\ UNCHANGED <<hand, typed, kbd, pic, flags, ring, handler, al, taken, screen,
                   lost, stopped>>

(* Codes that are overwritten or thrown away are lost.                     *)
Numbers(codes) == { codes[i].n : i \in DOMAIN codes } \ {0}

(* Command 0xed is answered at once.                                       *)
SetLights ==
    /\ Step("command", "answer")
    /\ stopped' = Full(kbd)
    /\ IF Full(kbd) THEN UNCHANGED <<kbd, lost>>
       ELSE /\ kbd' = EnQImm(Enabled(kbd), Ack)
            /\ lost' = lost \cup Numbers(kbd.out)
    /\ UNCHANGED <<hand, typed, pic, flags, ring, handler, al, open, taken, screen>>

(* A byte other than the answer ends the attempt.                          *)
Answer ==
    /\ kbd.out # << >>
    /\ Step("answer", IF Head(kbd.out) = Ack THEN "lights" ELSE "take")
    /\ kbd' = Read(kbd)
    /\ pic' = Lowered(pic)
    /\ open' = (Head(kbd.out) # Ack)
    /\ lost' = lost \cup Numbers(kbd.out)
    /\ UNCHANGED <<hand, typed, flags, ring, handler, al, taken, screen, stopped>>

(* The lights follow, and the keyboard answers behind the codes it has.    *)
Lights ==
    /\ Step("lights", "answered")
    /\ kbd' = EnQ([Enabled(kbd) EXCEPT !.led = flags.caps], Ack)
    /\ UNCHANGED <<hand, typed, pic, flags, ring, handler, al, open, taken, screen,
                   lost, stopped>>

LightsWritten(f) == [f EXCEPT !.led = f.caps]

(* Any byte is taken for the second answer.                                *)
Answered ==
    /\ kbd.out # << >>
    /\ Step("answered", "take")
    /\ kbd' = Read(kbd)
    /\ pic' = Lowered(pic)
    /\ open' = TRUE
    /\ flags' = LightsWritten(flags)
    /\ lost' = lost \cup Numbers(kbd.out)
    /\ UNCHANGED <<hand, typed, ring, handler, al, taken, screen, stopped>>

(* As it would be if the key stayed in the buffer (incr = 0).              *)
Peeked(keys) == keys

Dequeued(keys) == Tail(keys)

(* dequeue_key, and the return to the program.                             *)
Take ==
    /\ Step("take", "show")
    /\ taken' = <<Head(ring)>>
    /\ ring' = Dequeued(ring)
    /\ open' = TRUE
    /\ UNCHANGED <<hand, typed, kbd, pic, flags, handler, al, screen, lost, stopped>>

Show ==
    /\ Step("show", "wait")
    /\ screen' = screen \o taken
    /\ taken' = << >>
    /\ UNCHANGED <<hand, typed, kbd, pic, flags, ring, handler, al, open, lost, stopped>>

Program ==
    KeyFound \/ SetLights \/ Answer \/ Lights \/ Answered \/ Take \/ Show

Processor == Enter \/ Handler \/ Program

Running == ~stopped

Next == Running /\ (Typist \/ Periodic \/ Processor)

(* Timer and processor go on; the typist need not.                         *)
Spec == Init /\ [][Next]_vars
             /\ WF_vars(Running /\ Periodic) /\ WF_vars(Running /\ Processor)

-----------------------------------------------------------------------------
(* Properties.                                                             *)

Code == [n : 0 .. MaxEvents, key : {"letter", "shift", "caps", "ack"}, up : BOOLEAN]
Keys == [n : 1 .. MaxEvents, capital : BOOLEAN]

TypeOK ==
    /\ hand \in [down : SUBSET {"letter", "shift", "caps"}, caps : BOOLEAN,
                 events : 0 .. MaxEvents, patient : BOOLEAN]
    /\ kbd.buf \in BoundedSeq(Code, Elements)
    /\ kbd.out \in BoundedSeq(Code, 1) /\ al \in BoundedSeq(Code, 1)
    /\ ring \in BoundedSeq(Keys, Words - 1) /\ taken \in BoundedSeq(Keys, 1)
    /\ handler = "process" <=> al # << >>
    /\ lost \subseteq 1 .. hand.events

(* The numbers of the letters on their way: taken, in the firmware's       *)
(* buffer, read by the handler, in the controller and in the keyboard.     *)
Presses(codes) ==
    { c.n : c \in { d \in ToSet(codes) : d.key = "letter" /\ ~d.up } }

OnTheWay ==
    { k.n : k \in ToSet(taken \o ring) } \cup Presses(al \o kbd.out \o kbd.buf)

OnTheScreen == [i \in DOMAIN screen |-> screen[i].n]

(* As long as no code is lost, the letters come out in the case in which   *)
(* they were typed, though Shift and Caps Lock may have changed since.     *)
CaseAsTyped == lost = {} => IsPrefix(screen \o taken \o ring, typed)

(* And when all codes are through, the flags are those of the hands.       *)
FlagsFollowHands ==
    lost = {} /\ kbd.buf = << >> /\ kbd.out = << >> /\ al = << >> =>
        flags.shift = ("shift" \in hand.down) /\ flags.caps = hand.caps

(* Whatever the typist does, the byte that int 16h reads after the command *)
(* is the keyboard's answer, and the lights are as the firmware thinks.    *)
AnswerIsRead == pc = "answer" /\ ~stopped => kbd.out = <<Ack>>

LightsAreKnown == pc # "answered" => kbd.led = flags.led

(* A typist who waits for the last key to be shown loses nothing, and he   *)
(* never finds the buffer too full for the answer to a command.            *)
PatientLosesNothing == hand.patient => ~stopped /\ (Quiet => screen = typed)

(* Nothing is on its way any more, or the emulator has given up, which it  *)
(* may do only on a typist who did not wait.                               *)
AtRest == Quiet \/ (stopped /\ ~hand.patient)
=============================================================================
