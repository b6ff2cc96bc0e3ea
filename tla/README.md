# Verification of the x86 kernels of this repository

The repository follows a course on x86 assembly: boot sectors and real-mode programs (`c05`–`c09`), the first
protected-mode programs (`c11`, `c12`), and a kernel that grows chapter by chapter: segments (`c13`),
privilege levels (`c14`), hardware tasks (`c15`, `c15_1`), paging (`c16`), preemption by the real-time clock
(`c17`, `c18`, which are the same program). `jauzzz/` holds the author's own versions of some of them, and
`bochs-2.6/` the vendored emulator they run on. This directory holds TLA+ models of the kernels, TLC runs that check
them on small instances, and proofs checked by TLAPS.

Line numbers below are those of the source files. When a kernel is named without a chapter it is `c17`.

## 1. Inventory

### The preemptive kernel (`c17/c17_core.asm`, `c17/c17_mbr.asm`)

| Part | State | Operations | Interacts with |
|---|---|---|---|
| Scheduler | `tcb_chain`, a linked list of TCBs; a status word in each (0xffff current, 0 ready, 0x3333 exited); TR and the busy bits | clock handler 429–483, `append_to_tcb_link` 813–848, `terminate_current_task` 485–507 | interrupted by the clock; jumps through TSSs the loader fills; the list is walked by a running task while the handler may change it |
| Interrupt delivery | two 8259s, register B and C of the clock, IF | set-up 920–952, clock handler's port accesses 432–441, general handler 178–188 | the devices raise and withdraw lines between any two instructions |
| Paging | `page_bit_map`, a directory that maps itself, page tables, next linear address in each TCB, CR3 of each TSS, the TLB | `allocate_a_4k_page`, `alloc_inst_a_page`, `create_copy_cur_pdir`, `load_relocate_program` | all programs are loaded through the same low addresses, while those loaded before already run |
| Console | text memory, cursor registers behind an index register | `put_string`, `put_char`, `put_hex_dword` | called by every program and by the kernel |
| Disk driver | ATA registers | `read_hard_disk_0` 143–202 | runs with interrupts closed; the disk interrupts all the same |
| Loader | program header, symbol table, LDT | `load_relocate_program` 616–811 | allocates, reads the disk, relocates |
| Descriptor tables | GDT, LDTs, 16-bit limits | 231–262, 264–306, 578–613 | boot code and loader |

### The cooperative kernels (`c15`, `c15_1`, `c16`)

The program manager turns itself into a task (TSS and `ltr`), loads programs as tasks and starts them with a far
CALL or JMP to their TSS. A program gives the processor back in `terminate_current_task`, by IRETD or JMP, depending
on the NT flag. State: TR, busy bits, back links, the NT bit in EFLAGS and in each TSS image.

### Others

`c13` and `c14` run a single program without tasks; they share loader, allocator and descriptor routines with the
later kernels. `c08` and `jauzzz/loader` load a program in real mode; `c09_1` (and `jauzzz/interrupt`, the same program
retyped) shows the time from its own clock interrupt handler, `c09_2` the keys it reads from the firmware.
`c05`–`c07`, `c11`, `c12` and the rest of `jauzzz` are sequential examples. Of the emulator only what decides the
programs' behaviour is looked at: task switch, descriptors, page walk and TLB, interrupt controller, clock, timer, disk,
keyboard, cursor registers, and the firmware's disk and keyboard services.

| Part | State | Operations | Interacts with |
|---|---|---|---|
| Segmented loader (`c15_core.asm`, `c15_mbr.asm`) | allocation pointer, header, LDT, TCB, TSS of each program | `allocate_memory` 233–261, `load_relocate_program` 508–807 | disk, descriptor tables, call gates |
| Disk (`rombios.c`, `harddrv.cc`) | registers with one level of history, sector count, status | `read_hard_disk_0`, `ata_cmd_data_io`, READ/WRITE SECTORS | status polled by kernel and firmware |
| Real-mode loaders (`c08_mbr.asm`, `loader.asm`) | DS, sectors left, the program's header | sector loop, `calc_segment_base` | disk |
| Clock program (`c09_1.asm`) | vector 0x70, registers of the clock, both controllers | start, `new_int_0x70` | the clock changes its registers while they are read |
| Keyboard (`keyboard.cc`, `rombios.c`, `c09_2.asm`) | keyboard buffer, output buffer, firmware's ring buffer, shift flags, lights | int 09h, int 16h, timer of the emulator | typist, interrupt handler and program each at its own speed |

### What is hard here, and what correctness means

* **Interleaving.** The clock handler may come between any two instructions outside `cli`…`sti`: in the boot code while
  tasks are being created, in the walk over the TCB list, in the console. Correct: the list keeps every task once, the
  switch never faults, the walk finds its own TCB, text is never torn or overwritten.
* **Ordering.** Acknowledging two interrupt controllers and the clock chip in the wrong order, or not at all, ends the
  clock interrupts silently. Correct: nothing stays in service, no signal is lost, the clock interrupts for ever.
* **Stale state.** The same linear addresses mean another program's pages at every load, and the processor may still hold
  old translations. Correct: every program keeps its own frames and contents.
* **Agreement of two records.** The status word and TR; NT, back link and busy bit.
* **Limits.** The frames run out; the screen is full; a table is full; a program fills its last sector; an address needs
  another carry or another command. Correct: the neighbour's memory, sector or descriptor is never touched.
* **Loss.** The keyboard drops codes in five ways. Correct: what arrives is in order, once, and in the right case.
* **Liveness.** Every linked task runs again and again; a program that ends gives the processor back.

`PROJECT.json` lists each hazard with its line and the property that covers it, or says what is still missing.

## 2. Modules

| Module | Models | Sources |
|---|---|---|
| `RoundRobin` | abstract: one task runs, the others wait in a FIFO queue | promise of the scheduler |
| `TaskScheduler` | boot code from 1007 on, clock handler, `terminate_current_task` | `c17_core.asm`, `tasking.cc` |
| `TaskSchedulerProofs` | its theorems | |
| `Pic8259` | operators on the pair of interrupt controllers | `iodev/pic.cc` |
| `InterruptPath` | devices, set-up, handlers, disk driver around `Pic8259` | `c17_core.asm`, `c17_mbr.asm`, `cmos.cc`, `harddrv.cc`, `pit.cc` |
| `Paging` | allocator, directories, loader, page walk, TLB; `ReloadsCr3` chooses between c17 and c16 | `c17_core.asm`, `c16_core.asm`, `c17_mbr.asm`, `cpu/paging.cc` |
| `PagingProofs` | its theorems | |
| `Terminal` | reference: what typing a character does | promise of the console |
| `Console` | `put_string`, `put_char`, `put_hex_dword`, preemption | `c17_core.asm`, `iodev/vgacore.cc` |
| `ConsoleProofs` | its theorems | |
| `Coroutines` | abstract: manager and programs take turns | promise of the cooperative kernels |
| `TaskSwitch` | manager's task, loading, CALL/JMP/IRETD, `terminate_current_task` | `c15_core.asm`, `tasking.cc`, `iret.cc`, `jmp_far.cc` |
| `TcbList` | the same list as pointers in memory, instruction by instruction; the exception handler | `c17_core.asm` |
| `TcbListProofs` | its theorems | |
| `Descriptors` | packing, installing and reading back descriptors; GDT and LDTs | `c17_core.asm`, `c17_mbr.asm`, `cpu/segment_ctrl_pro.cc`, `tasking.cc` |
| `DescriptorsProofs` | its theorems | |
| `Loader` | allocator, loading, segments, symbols, stacks, TSS | `c15_core.asm`, `c15_mbr.asm`, `cpu/access.cc` |
| `AtaDisk` | disk registers, kernel driver, firmware's data command | `harddrv.cc`, `c17_core.asm`, `rombios.c` |
| `AtaDiskProofs` | its theorems | |
| `RealLoader` | sector loop; then c08's relocation or jauzzz's message, as the choice falls | `c08_mbr.asm`, `jauzzz/loader/loader.asm` |
| `ClockProgram` | the clock, the program that installs the handler, the handler, around `Pic8259` | `c09_1.asm`, `cmos.cc` |
| `LossyQueue` | abstract: a set of numbers, the smallest is shown next, any may be lost | promise of the way from key to screen |
| `Keyboard` | keyboard, controller, int 09h, int 16h, the program | `keyboard.cc`, `rombios.c`, `c09_2.asm` |
| `KernelParts`, `RealMode` | four parts of the kernels, the real-mode programs: instances side by side, one in each behaviour | |
| `KernelPartsProofs` | the loader's invariant and its proof; theorems about all four parts, as properties of `KernelParts` | |
| `EarlyChaptersProofs` | theorems about the real-mode programs, as properties of `RealMode`, and about `TaskSwitch` | |
| `MC…` | instances for TLC | |

### TaskScheduler

The list is the sequence `chain`. A stretch with IF = 0 is one step: the handler (an interrupt gate) and
`append_to_tcb_link` (`cli`…`sti`). Each of them is the whole routine: `TickSwitch` unlinks the current TCB, appends
it, inverts its status word, inverts the next one's and does the far JMP. Everything with interrupts open is split where
the handler can tell the difference: the boot code into marking, appending, installing the TSS and `ltr` for the
manager's own task and into creating a TCB, filling the TSS, copying the directory and linking for each program;
`terminate_current_task` into the load of the next pointer, the test and the store. The handler can therefore come
when the manager is in the list but not yet a task (1012–1038), where only the missing second task keeps it from
switching without a TSS.

### InterruptPath

Every port access is a step; the devices act between any two. The firmware's masks, edge detection, priority, the
cascade, spurious requests (a line withdrawn before it is acknowledged), the request latch and the pending clock flag
are kept. Vectors matter because the timer's request that was latched under the firmware's vector base may be
delivered under the kernel's. One assumption concerns time: between two timer edges the kernel can finish serving
what is pending (`timerDue`); without it a fast enough timer starves everything, in reality as in the model.

### Paging

A frame holds as many entries as a table, so that any frame can be walked as directory and as table, as the self-map
at 0xfffff000 and 0xffc00000 does. The TLB is a relation: the processor may keep every translation it used until CR3 is loaded
or the page is invalidated, and may drop any; an access goes to any frame kept for the page or to where the tables
lead now. This covers every TLB size and replacement. Entries nobody has written are `Unwritten` and may read as
present or not. `CreateTss`, `CreateLdt` and the like stand for filling the page they have just installed.

### Console

Every access of the CRT controller's index and data ports is a step. Text memory reaches beyond the screen, because
scrolling (`mov ecx,1920`, `rep movsd`) copies twice the rows it needs and drags memory from behind the screen into
the last row, which only the loop at `.cls` hides. A ghost variable `screen` is the `Terminal` that the completed
characters make. Strings contain a line feed only after a carriage return, as all strings of the kernel do: on the last
line a lone line feed would also move the cursor to the first column (123).

### TaskSwitch

`Switch(source, task)` is the emulator's `task_switch`: busy bit of the task left, NT in the image saved (cleared when
the target is busy), back link for CALL, NT of the new task. `pc` of a task that is not running is the EIP image in its
TSS. The shipped kernels start two programs by CALL and then JMP (c15) or one by CALL (c16); the model starts any number, each
by either.

### TcbList

`TaskScheduler` takes the list as a sequence and the handler as one step. Here every link is a word in memory, and each
load, store and comparison of the handler and of `append_to_tcb_link` a step; links of TCBs not yet appended hold
anything, as uncleared pages do. A task has a stack of frames, so that a handler may be interrupted if interrupts are
open in it: they are only when the handler was entered by falling out of `general_exception_handler` (426).

### Descriptors

A register is the set of its one bits, so that shifts, `rol` and `bswap` are set expressions and the 16-bit
counters are numbers modulo `TableBytes`. The selectors ever returned are remembered with what was asked for; the
processor's side (`parse_descriptor`, the accessed and the busy bit, LDTR's cache) is the emulator's.

### Loader

The loader of c15; its blocks, the bytes in memory, the header whose fields it overwrites and the tables it fills
are explicit, and what a segment reaches is computed as the processor does, expanding downwards included.
`LoaderAssumption` says what the loader takes for granted: a header's segments lie within the size it states, names of the
kernel's symbols are not empty, an LDT has room for seven descriptors, and there is memory for every program, since `allocate_memory`
compares nothing (its comment at 244 says so).

### AtaDisk

The controller's registers remember the byte before the last, as the high half of a 48-bit address; the firmware
chooses between the 28-bit and the 48-bit command, the kernel always sends 28 bits. The data of a sector passes in
one step. `rombios.c:2943` gives up when BSY is set before the command, which no command of this disk leaves so. `Expressible` says which requests are made: of 1 to 255 sectors (int 13h refuses 0 and counts above 128, 5615; longer
counts of ATA calls end with an error, 2956), by cylinder only up to the end of the last one (int 13h compares no more than the start with
the geometry), by number within 48 bits, by the kernel one sector with a 28-bit address.

### RealLoader, ClockProgram, Keyboard

`RealLoader` has words of `Word` values, so that segments wrap and sums carry on a small memory. In `ClockProgram` the clock
may act between any two port accesses; the processor's speed is bounded only from below, by the 244 microseconds
between UIP and the change of the registers (`UipSteps`). In `Keyboard` letters, Shift and Caps Lock are told apart, a letter is
the number of the event that made it; typist, the emulator's timer, interrupt handler and program interleave. A key that is
held may repeat its press. The test of the in-service bit at `rombios.c:11196` has one outcome, the acknowledge has set it. Codes are lost
when the keyboard is disabled, when its buffer is full, when the answer to a command overwrites one, when one is taken for
an answer, and when the ring buffer is full. Some typists are `patient`: they wait until everything is shown. A typist who does
not may make the emulator panic for lack of room (`stopped`); `KeysComeAsTyped` and `Arrives` say that a patient one never
does. Not modelled: the prefixes E0 and E1, Ctrl-Break, the mouse, pasted text.

## 3. Runs

| Run | Instance | Result |
|---|---|---|
| `scheduler` | 3 programs, unbounded ticks | type, `EveryTaskLinkedOnce`, `CurrentAgrees`, `SwitchCannotFault`, `WalkFindsItself` hold; implements `RoundRobin`; `NoStarvation` holds until a program exits |
| `scheduler_exit` | the 2 programs the boot code loads | **violated**: `ExitReturnsToCore` |
| `interrupt_path` | the real topology, no bound needed | `InServiceOnlyInHandlers`, `FlagIsSignalled`, `TickHasCause`, `ClockInterruptsForever` hold |
| `paging` | 11 entries per table, 30 frames, 3 programs of 1 or 10 pages, 1 stack | no program loses a page, a TSS or its privacy, no access is ambiguous, while frames last |
| `paging_exhausted` | same kernel, 1 program, 12 frames | **violated**: `ExhaustionHalts` |
| `paging_chapter16` | c16: 1 program, 30 frames, no CR3 reload | **violated**: `ProgramsKeepTheirPages` |
| `console` | 3×3 screen, 2 tasks, cursor anywhere, a register of 4 values | `ScreenAsTyped`, `MessagesAreWhole`, `PrintedTextStays` hold |
| `console_hex` | a program prints numbers | **violated**: `ScreenAsTyped` |
| `task_switch` | 4 programs, CALL or JMP each | `SwitchIsLegal`, `BusyIsChain`, `EndsAsStarted` hold; implements `Coroutines` with its liveness |
| `tcb_list_fault` | 2 programs, one raises an exception | **violated**: `CurrentIsFound` |
| `kernel_parts` | `AtaDisk`: a byte of 3 values, 60 sectors, 2 requests; `Loader`: 3 programs of 1 to 3 sectors of 8 bytes; `Descriptors`: 2 programs, a gate, tables of 8; `TcbList`: 3 programs | `RequestsAreServed`, `KernelReadsOnlyGoodSectors`, `ProgramsAreWhole`, `SelectorsDecode` hold; the pointers implement `RoundRobin` with its liveness |
| `real_mode` | `RealLoader`: 8-bit words, 62 headers; `ClockProgram`: 2 hours of 2 minutes of 11 seconds; `Keyboard`: buffers of 2 codes and 1 key, 4 events | `ProgramIsLoaded`, `ShowsATimeThatWas`, `ShowsForEver`, `KeysComeAsTyped`, `Arrives` hold; implements `LossyQueue` |

The parts in `kernel_parts`, and the programs in `real_mode`, share no state in the code either: the two modules choose one
at the start and let the same variables `v1`, `v2`, … stand for its state.

**Why the bounds are enough.** The scheduler never counts tasks: with three programs a list has a head, a middle and a
tail, and a program can be unlinked, current, waiting or exited beside two others; the proofs cover any number.
In `paging` ten pages are one more than fit in one table beside what precedes them, so a program needs a second page
table; three loads make two earlier programs whose pages a third load could disturb; thirty frames let the pool run
out in the second or the third load, depending on the sizes. The screen has a first, a middle and a last
line, a message that wraps and cursor values that differ in either byte. `task_switch` is proved for any number.
The disk's requests are the addresses next to a carry of each register, to the end of 28 bits (54) and to the end of the disk,
of one and two sectors, with a bad sector at the start, in the middle, or at the end of a request; two in a row leave every
register dirty for the second. The programs of `Loader` are shorter than a sector, exactly two, and one byte more, with one or
two units of stack. Two programs' descriptors and two gates fill the nine descriptors of the table exactly. The headers of
`RealLoader` straddle a sector and a segment by one byte. Four events are enough for the keyboard's buffer to overflow, for
each way to lose a code and for the emulator's panic.

**Deadlock.** It is checked except in `task_switch`, where the manager really stops (`hlt` with interrupts closed), and in
`paging_exhausted` and `paging_chapter16`, whose single load comes to an end or to a fault; in `tcb_list_fault`, which looks
for one wrong step; and in `kernel_parts` and `real_mode`, where requests, programs to load and keys come to an end.

**Fairness.** `TaskScheduler`: weak fairness of the tick that switches, because the clock interrupts for ever, which
`interrupt_path` establishes as `ClockInterruptsForever`; strong fairness of each task's steps, because a task that
gets the processor has it for a second, ample for one of the steps it is in the middle of. A user program need not
call `TerminateProgram` (those in `c17` never do, they loop before it), only finish it. `InterruptPath`: weak
fairness of the clock's update, of the boot code's steps, of the handlers and of the disk; strong fairness of entering
the kernel, because the boot sector reads a bounded number of sectors, which the model leaves open, before it jumps there.
`TaskSwitch`: the processor goes on, nothing can interrupt it. `Paging` and `Console` are checked for safety only.
In `kernel_parts`: the clock interrupts again and again and code once begun goes on (`TcbList`), a program that has asked
the disk goes on, whether it asks is open (`AtaDisk`). In `real_mode`: the clock acts and the processor executes
(`ClockProgram`), the emulator's timer and the processor go on, the typist need not (`Keyboard`).

**Disagreements found.**

1. *A program that exits stops the machine* (`scheduler_exit`). The comment at `c17_core.asm:505` says the exited program
   halts until the manager runs again and reclaims it. The handler looks for the status 0xffff, which the program has
   just overwritten with 0x3333, finds nobody and returns, at every tick: no task ever runs again.
2. *Running out of pages is not a stop* (`paging_exhausted`). The comment at 326 says "no page to allocate, halt". The
   message before it opens interrupts, one interrupt ends the only `hlt`, and the routine returns the frame after
   the last one the bitmap covers, every time it is asked.
3. *c16 does not flush the TLB* (`paging_chapter16`). The low half of the directory is emptied and filled again while
   the translation of page 7 may be cached since 981–990. `c17` loads CR3 at that place ("flush TLB", 634). The
   emulator in this repository does not show it: its direct-mapped TLB has lost that entry by then.
4. *`put_hex_dword` is not atomic* (`console_hex`). `put_string` closes interrupts for "hardware operations" (42),
   `put_hex_dword`, exported as `@PrintDwordAsHexString`, does not: a task switch inside mixes two cursors. The
   shipped `c17` programs do not call it.
5. *An exception runs through the scheduler with interrupts open* (`tcb_list_fault`). `general_exception_handler` ends with one
   `hlt` (426) after its message has opened interrupts; behind it lies the clock handler. Between its two inversions of
   status words another clock interrupt finds two busy TCBs and unlinks that of a task that does not run, where the comment
   at 441 says it finds "the current task".

Seen while modelling, described by the models, without a run of their own: `c15_core.asm:709` records the low end of the
level-2 stack as its base, against its comment (nobody reads the field); `loader.asm:189` lacks a `ret` and runs into
`put_string` (`FallThrough`); the comment at `loader.asm:68` is off by one sector; `rombios.c:2956` keeps only the low byte of a
long count for its loop, so requests of 256 sectors and more end with an error; `rombios.c:3076` counts a sector that could not be
written as written; `keyboard.cc:929` panics for lack of room in a buffer the answer does not use (`stopped`); `c13_1/mbr.asm`
writes port 0x92 back without setting bit 1, so A20 stays as the firmware left it.

## 4. Proofs

`TaskSchedulerProofs`, for every set of programs (`TaskAssumption`: core, null pointer and list head are distinct from
the programs and each other): `Spec` implies `TypeOK` (`TypeCorrect`), `EveryTaskLinkedOnce` (`LinkedOnce`), `CurrentAgrees`
(`Agreement`), `SwitchCannotFault` (`NoFault`), `WalkFindsItself` (`WalkStops`), and `RoundRobin`'s safety part
(`Refinement`). None of them is inductive. `IInv` adds

* *Order*: a task is in the list once, the list starts with the running task, every other task has status ready, the
  descriptor's busy bit is set for the task TR names and no other, and an exited task is a program at its `hlt`. So
  "the first busy node" and "the first ready node" are the first and the second of a list of any length;
* *Loading*: how far the boot code is with the program it loads and which parts of its TSS are filled by then, so that
  whoever is linked is complete; without it linking could make a task with half a TSS reachable;
* *Walking*: a program inside `terminate_current_task` has the list's address in EAX and, once it has loaded the first
  node, itself in EBX, although the list may have been rotated many times between the two instructions.

The lemmas `MoveHead`, `BusyIsHead`, `SwitchRotates`, `AppendLinks`, `RotateLinks` and `NoOtherIsAlone` are about the
list operators; each action then has its own lemma.

`EarlyChaptersProofs`, of `TaskSwitch`, for every number of programs: `SwitchTypes`, `SwitchesLegal`, `BusyChain`, `AsStarted`, and the
refinement of `Coroutines` (`SwitchTakesTurns`, safety). The invariant adds what the manager's image holds while it does not run (NT
clear), what a loaded program's image holds, and that the copy of NT in EDX is still NT: the legality of a switch
depends on flags stored two switches earlier.

The same module has the real-mode programs, within `RealModeAssumption`: the types of all of them (`RealTypesHold`), and

* *the loaders* (`ProgramAlwaysLoaded`), for any width of a word, size of paragraph and sector, and programs that fit in the
  memory that real mode addresses. `LoaderIInv` says that the first `si + 1` sectors lie in memory (`Holds`), however often DS has moved. The
  arithmetic is in `SegmentIs`: the sum in two words and a carry, cut into a segment number, is the sum divided by a paragraph;
* *the clock program* (`TimeAlwaysThatWas`), for clocks of any number of hours, minutes and seconds. The controllers go through
  a few stages (`Waiting`, `Answered`, `Ended`, …), each with and without an update to be signalled, and lemmas say
  which operation leads from which to which. `InTime` bounds the steps since an update began while the handler reads: it is through
  before the registers change, so what it has read is of one time (`Reading`);
* *the keys* (`KeysAlwaysAsTyped`), for buffers of any size. `Story` is what has to be known of the past: there is a
  function giving the flags after every event and a number up to which the firmware has seen the events, such that the codes on their way
  are exactly the later ones and every letter's case is the one the flags had. Every step extends that function or moves the
  number on by one. `Signals` and `Conversation` relate the interrupt asked for, the code that waits and where int 16h is:
  so the byte read after the command is the answer. `Spare` bounds what is in the keyboard while a patient typist waits: at the
  command it is empty, so the answer has room;
* *their order* (`AlwaysShownInOrder`): the same program implements `LossyQueue`. Each step puts a number on the way, takes one away,
  shows the smallest, or leaves the way as it is (`Passes`), which `CodesOrder`, `KeysOrder` and `LineOrder` make possible:
  every place on the way holds smaller numbers than those behind it, and the screen smaller ones than all of them.

`DescriptorsProofs`: what `make_seg_descriptor` packs the processor unpacks, for every base, limit and attribute
(`SegmentRoundTrip`), and likewise gates (`GateRoundTrip`); in a table that is not full `set_up_gdt_descriptor` returns a
selector for the new descriptor and disturbs no other (`InstallKeeps`). From these, for any number of services, programs and
segments a table of at most 2^16 bytes holds (`TableAssumption`): `TypeCorrect`, and every selector decodes
(`SelectorsAlwaysDecode`). The invariant has to count, since nothing in the code compares a limit with the end of the table:
`Counted` gives the GDT's limit from the gates mounted and the programs that have an LDT or a TSS there, and `Filled` how far
an LDT has come, also at 0xffff, where there is nothing in it yet. A switch marks TSSs busy and loading a segment register marks it
accessed, so the invariant also says whose descriptors these are (`InGdt`, `InLdt`, `OwnBit`); and the limit LDTR is loaded
with has been through the descriptor's bits and back (`NumberBits`).

`TcbListProofs`, for any number of programs: `TypeCorrect`, `TheListIsWhole`, `TheCurrentIsFound`, and
`ImplementsRoundRobin`: reading `Queue` off the links, every instruction is a step of `RoundRobin` or nothing to it. The theorems are about `Spec`,
in which no task raises an exception; after one the list breaks, as `tcb_list_fault` shows. The invariant describes the list
by the list it *ends* as: `Ended` is what the links will be when the interrupted append or handler is through, and
`ListsAll` and `FirstIs` say which tasks are on it and which is first at each label. So of all instructions only three change the list: the
one that stores a new TCB's link, the one that unlinks, the one that appends the unlinked at the end, and for each it is shown
that the links then written are those of the next list. `Registers` says what the handler's and the append's registers hold between two
instructions, `Stacks` that only the running task is in the middle of something. That the CHOSEn list `ListOf` is the one `IsList`
describes is an induction over its length, done as a set of numbers (`SetInduction`).

`KernelPartsProofs` takes these to the composition, where they are about the properties the run checks: `SelectorsAlwaysDecode`,
`RequestsAlwaysServed`, `TheListIsSound` (`ListIsSound`), and `PointersTurn`, the safety part of `PointersImplementRoundRobin`. A step of another part leaves a part's
variables alone, or belongs to a behaviour in which they stand for something else.

The loader's own proof is in the same module. `ProgramsAlwaysWhole` (`ProgramsAreWhole`) holds for any number of programs, headers, kernel symbols, and sizes
of sector, stack unit and table, within `LoaderAssumption`; with it go the types of all four parts (`TypeCorrect`). `LoaderIInv`
looks at one program at a time: `Stage` is how far it has come, and `Made` says for each stage which blocks it has, which header fields
are overwritten, which descriptors are in its LDT and what its TCB and TSS hold. Around that:

* *Row*: blocks lie one behind the other below `ram_alloc`, one for each purpose, so the block a segment was made for is the only
  one of that name. `ReachUp` and `ReachDown` show that a descriptor gives access to its block and no more, also where base and
  limit of a stack are taken modulo the address space;
* *Reading*: EBX is the image's base and the sectors read; those left fill the image up to its rounded size, so the loop ends at zero
  at its end. Every byte in memory lies in some program's image (`Sectors`) and each image is filled in order so far (`Contents`):
  nothing loaded later writes over it;
* *Budget*: the pointer and what the program being loaded will still take are no more than the most a program takes, times the
  programs begun. With the assumption, addresses never wrap;
* `BindFinds`: the inner loop over the kernel's symbols binds an entry to a gate of its name, or leaves it as it is. Once bound, its name is
  empty and matches no other. This is an induction over the kernel's table, done as a set of numbers.

`AtaDiskProofs`, for bytes of any size, any disk, geometry and set of bad sectors, and any sequence of requests of the kernel and the
firmware: `TypeCorrect` and `AlwaysServed`, which in the composition is `RequestsAlwaysServed` (`RequestsAreServed`). First come the
addresses: what `KernelAddress`, `FirmwareAddress28`, `FirmwareAddress48` and `FirmwareAddressChs` put into the registers
makes the disk look for the sector asked for, whatever the registers held, each under the condition under which
that way is chosen. The invariant then follows the sectors. `Counting(d, s, n)`: the registers name sector `s`, `n` sectors are left,
and the last of them still fits the form of the address, so that no carry is ever lost; `IncrementStep` shows that the disk's increment,
with its carries through four to six registers or through head and cylinder, leads from `s`, `n` to `s + 1`, `n - 1`. `Served` says for each
place in the driver what has been moved and what the disk offers next: a read has the next sector in its buffer before it is
fetched, so an unreadable one is found beforehand (`ReadingAt`); a write hands over first, so it is found one sector later,
which the firmware's count has already passed (`WritingAt`). That `ResultIsTrue` all the same is the point of the proof.
`ErrorsAreNeverData`, the action half of `KernelReadsOnlyGoodSectors`, follows (`BadSectorWaits`): in the kernel's loop the disk offers the sector asked for or,
if that is bad, nothing.

`ConsoleProofs`, for any screen, any number of tasks and any messages, as long as no program shows a number
(`HexTasks = {}`): `TypeCorrect`, `Faithful` (`ScreenAsTyped`), `Whole` (`MessagesAreWhole`) and `PrintedStays` (`PrintedTextStays`). Between two characters the
cells are those of the terminal; inside `put_char` they are not, and `IInv` says for every label how far they have come: one
printer at a time, since interrupts are closed from `put_string` on, and that one's registers hold the cursor the controller
held when it read it. The only counting is in `Roll`: behind the screen lies memory nobody has written, the move drags some of it
into the last row, and `Cleared` is what makes that row blank. `PrintedStays` also assumes that every CR is followed by LF and that a space shown is told apart from a cell nobody
wrote (`TextAssumption`; the strings of the kernel and the programs do end their lines so, and those of `MCConsole`): a lone CR would print over its own line. `Ahead` is the cell behind which nothing is written:
the cursor, wherever `put_char` keeps it just then, and only between CR and LF the end of the line.

`PagingProofs`: `TypeCorrect`, for any table size, number of frames and programs. Nothing in the loader compares a
linear address with a limit, so the invariant counts: `CoreCounts` and `UserCounts` give for each label the number of pages handed
out in either half, and `PagingAssumption` says that those of the largest program fit.

The other theorems of `PagingProofs` hold for any table size and number of programs and any frames to begin with, in the kernels that reload CR3 (`ReloadsCr3`,
c17 and c18; for c16 it is false, as `paging_chapter16` shows) and until the frames run out (`PagesSuffice`):
`Disjointness` (`ProgramsAreDisjoint`), `PagesKept` (`ProgramsKeepTheirPages`), `TssVisible` (`TssVisibleEverywhere`),
`OneFrameEverywhere` (`OneFrameReached`) and `NobodyDisturbed` (`LoadingDisturbsNobody`). That frames are not shared cannot
be shown from what programs hold alone: the kernel's table, the directory, the frame just allocated and the half-built program
are all candidates for sharing. So `IInv` says that there is a function giving every frame one owner, the slot of the one table it
is entered in (`Slots`), free and pending frames being still unwritten (`Reserved`); each step is shown to extend that function, and
disjointness is that a function has one value. An owner may only change from free to pending and from pending to a slot, and a
step writes only to frames whose owner is the kernel, the program being loaded or pending (`OnlyLoadersOwn`). What else the
invariant needs:

* *Root*: the entries by which the directory reaches itself and the kernel's table, in every copy; low entries are
  written or empty from `clear` on, so no unwritten entry is ever tested;
* *Kept*: a translation the processor kept is still what the tables say: always for the kernel's pages, and for the low half
  from the reload of CR3 to the copying (`Stale` is the rest), in which nothing is unmapped;
* *Fresh* and *Ready*: linear pages not yet handed out are not mapped, so that entering one overwrites nothing; and how far
  `alloc_inst_a_page` is with the one in EBX;
* *Images* and *Tsss*: which pages have been filled, for the programs loaded and for the one half loaded.

**Only model-checked.** All liveness (fairness and ENABLED are outside the prover), so also the rest of `PointersImplementRoundRobin`
and of `KernelReadsOnlyGoodSectors`, of `Coroutines`' fairness, and `ShowsForEver` and `Arrives`. `InterruptPath` has no parameters and finitely many states, so its run is exhaustive and a proof would add nothing.

## 5. Not modelled, and the plan

The plan of the first version is carried out but for one item: a composition of `TaskScheduler` with `InterruptPath`, in
which ticks are the deliveries. Until then the scheduler's fairness rests on `ClockInterruptsForever` by the argument in section 3.

Left out for good: the text and arithmetic of the first examples (straight-line code, no lasting state), colours and wording, access
rights and accessed/dirty bits in page entries (never tested by the kernels), 16-bit TSSs, task gates, PAE and
large pages (not used); `c13`, `c14` and their rewrites, whose routines are those of `c15`; and the rest of the emulator, which is
most of the repository's text: 270,000 lines of a vendored program whose processor, sound, network and user interface code
the kernels never depend on.
