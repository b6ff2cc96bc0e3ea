------------------------------- MODULE RealMode -------------------------------
(***************************************************************************)
(* What runs in real mode, one program in each behaviour: the boot loaders *)
(* of c08 and of jauzzz/loader, and what they load: the clock program and  *)
(* the program that shows the keys.  v1 to v14 stand for the variables of  *)
(* the program that is looked at.                                          *)
(***************************************************************************)
EXTENDS Integers, Sequences

CONSTANTS
    \* of the loaders
    Word, Para, SectorParas, PhyBase, Headers,
    \* of the clock
    Hours, Minutes, Seconds,
    \* of the keyboard
    Elements, Words, MaxEvents

VARIABLES part, v1, v2, v3, v4, v5, v6, v7, v8, v9, v10, v11, v12, v13, v14

Behind9  == <<v10, v11, v12, v13, v14>>
Behind12 == <<v13, v14>>
v == <<part, v1, v2, v3, v4, v5, v6, v7, v8, v9, v10, v11, v12, v13, v14>>

None == "none"
NoneBehind9 == v10 = None /\ v11 = None /\ v12 = None /\ v13 = None /\ v14 = None

Loader == INSTANCE RealLoader WITH
    pc <- v1, said <- v2, ds <- v3, si <- v4, cx <- v5, saved <- v6, mem <- v7,
    segments <- v8, shown <- v9

Clock == INSTANCE ClockProgram WITH
    time <- v1, uip <- v2, age <- v3, enabled <- v4, flag <- v5, pic <- v6,
    vector <- v7, intsOpen <- v8, pc <- v9, stack <- v10, shown <- v11, held <- v12

Keys == INSTANCE Keyboard WITH
    hand <- v1, typed <- v2, kbd <- v3, pic <- v4, flags <- v5, ring <- v6,
    handler <- v7, al <- v8, pc <- v9, open <- v10, taken <- v11, screen <- v12,
    lost <- v13, stopped <- v14

ASSUME RealModeAssumption ==
    Loader!RealLoaderAssumption /\ Clock!UnitsAssumption /\ Keys!KeyboardAssumption

-----------------------------------------------------------------------------
LoaderInit == part = "loader" /\ Loader!Init /\ NoneBehind9
ClockInit == part = "clock" /\ Clock!Init /\ v13 = None /\ v14 = None
KeysInit == part = "keys" /\ Keys!Init

RealInit == LoaderInit \/ ClockInit \/ KeysInit

LoaderStep == part = "loader" /\ Loader!Next /\ UNCHANGED <<part, Behind9>>
ClockStep == part = "clock" /\ Clock!Next /\ UNCHANGED <<part, Behind12>>
KeysStep == part = "keys" /\ Keys!Next /\ UNCHANGED part

RealNext == LoaderStep \/ ClockStep \/ KeysStep

RealFairness ==
    /\ WF_v(part = "clock" /\ Clock!OneSecond /\ UNCHANGED <<part, Behind12>>)
    /\ WF_v(part = "clock" /\ Clock!UpdateEnds /\ UNCHANGED <<part, Behind12>>)
    /\ WF_v(part = "clock" /\ Clock!Processor /\ UNCHANGED <<part, Behind12>>)
    /\ WF_v(part = "keys" /\ Keys!Running /\ Keys!Periodic /\ UNCHANGED part)
    /\ WF_v(part = "keys" /\ Keys!Running /\ Keys!Processor /\ UNCHANGED part)

RealSpec == RealInit /\ [][RealNext]_v /\ RealFairness

-----------------------------------------------------------------------------
(* Properties.                                                             *)

(* Each program keeps its types.                                           *)
RealTypeOK ==
    CASE part = "loader" -> Loader!TypeOK
      [] part = "clock"  -> Clock!TypeOK
      [] part = "keys"   -> Keys!TypeOK

(* When the loader is through, the program lies in memory as on the disk,  *)
(* also beyond the first 64 KB, and every segment put into its header      *)
(* begins with the section it stands for.                                  *)
ProgramIsLoaded ==
    part = "loader" => Loader!ProgramIsLoaded /\ Loader!SegmentsFindSections

(* However late the handler comes and wherever the next update falls, the  *)
(* time shown is one the clock had; no interrupt but the clock's is taken, *)
(* and none is left behind in the controllers.                             *)
ShowsATimeThatWas ==
    part = "clock" => /\ Clock!ShowsATimeThatWas /\ Clock!OnlyTheNewHandler
                      /\ Clock!UpdateIsSignalled

(* "read register C of the clock, or there will be only one interrupt"     *)
(* (c09_1.asm:62): with it the screen is brought up to date for ever.      *)
ShowsForEver == []<>(part # "clock" \/ Clock!Showing)

(* As long as no code is lost the letters come out in the case in which    *)
(* they were typed, and the firmware's flags follow the hands; whatever is *)
(* typed, int 16h reads the keyboard's own answer and knows its lights; a  *)
(* typist who waits for every key to be shown loses nothing, and never     *)
(* makes the emulator give up for a full buffer.                           *)
KeysComeAsTyped ==
    part = "keys" => /\ Keys!CaseAsTyped /\ Keys!FlagsFollowHands
                     /\ Keys!AnswerIsRead /\ Keys!LightsAreKnown
                     /\ Keys!PatientLosesNothing

(* Key presses are shown in the order in which they were made, none twice, *)
(* though codes are dropped by a disabled or full keyboard, overwritten by *)
(* the answer to a command, taken for an answer, or find no room.          *)
Way == INSTANCE LossyQueue WITH
    Number <- 1 .. MaxEvents,
    queue <- IF part = "keys" THEN Keys!OnTheWay ELSE {},
    shown <- IF part = "keys" THEN Keys!OnTheScreen ELSE << >>

ShownInOrder == Way!Spec

(* No code stays in the keyboard, no key in the firmware's buffer: nobody  *)
(* waits for an interrupt or a timer that nobody asks for.  Only a typist  *)
(* who does not wait may find that the emulator has given up.              *)
Arrives == []<>(part # "keys" \/ Keys!AtRest)
=============================================================================
