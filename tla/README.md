# Verification of bspraktOS

Specifications of the kernel of bspraktOS, a small operating system for the
ARMv7 boards of the Raspberry Pi family: TLA+ modules translated from `src/`,
configurations that model-check them with TLC, and proofs checked with TLAPS.
Paths below are relative to `src/`.

## The system

The kernel runs on one core. Every exception (a system call, an interrupt, a
fault) is handled to its end with interrupts masked; user code runs with
interrupts enabled. All concurrency is therefore between *handlers*, which
are atomic with respect to each other, the *hardware*, in which the clock
counts, a compare channel matches, a character arrives, at any moment, and the
*threads* of user code, which are switched between any two instructions.

| Part | State it keeps | Operations | Talks to |
|---|---|---|---|
| Scheduler (`kernel/scheduler.c`) | five lists of thread control blocks (ready, running, input, stall, finished), the control blocks (pid, slot, saved registers, `stall_until`), the thread list, the taken slots and the registered stacks of each process | round robin, create process/thread, cleanup, block for input or time, unblock | lists, stall timer, first level page table, input buffer |
| System calls (`kernel/syscall_impl.c`) | none | `dispatch_syscall`: read and output a character, create process and thread, stall, exit, time, thread id | scheduler, UART, timing |
| Interrupts (`kernel/interrupt.c`, `arch/cpu/interrupt_vector_table.S`) | the frame of saved registers on the handler's stack | IRQ: stall timer, scheduling timer, UART, then the readers; faults end the thread | scheduler, timer, UART |
| System timer (`arch/bsp/systimer.c`) | clock `CLO`, compare registers `C1` (scheduling) and `C3` (stalls), pending bits `M1`, `M3` | reset, pending, `stalltimer_interrupt_at` | hardware |
| UART (`arch/bsp/pl001.c`) | data register, input ring buffer | receive, read, send | ring buffer |
| Intrusive lists (`kernel/lib/kintrusive_list.c`) | `previous` and `next` of every node | append, remove, sorted insertion, transfer | used by the scheduler |
| Context switch (`interrupt_vector_table.S`, save and switch in `scheduler.c`) | the registers saved in each control block, `spsr`, the banked `sp` and `lr` | save, switch, results of calls, characters for readers | scheduler, system calls, input buffer |
| Process memory (copies in `scheduler.c`) | one data section per process beside the pristine one, a stack per thread | copy data and arguments at creation | scheduler, MMU tables |
| Ring buffer (`kernel/lib/kringbuffer.c`) | array, read and write index | read, write, peek | used by the UART |
| MMU tables (`kernel/mmu.c`) | first level table, second level tables of the stacks | construction at start | rewritten by the scheduler |
| Timing and fractions (`kernel/lib/ktiming.c`, `kfraction.c`, `kmath.c`) | none | milliseconds to clock ticks and back; sums, products, rounding and projection | system calls, colours |
| Formatted output (`kernel/lib/kprintf.c`, `kascii.c`) | none that outlives a call | one directive after the other | UART |
| Colours of labels (`kernel/lib/kcolor.c`, `khash.c`, `kdebug.h`, preview in `start.c`) | a colour per module, computed once | hash, projection, conversion | logging, startup |
| Startup (`arch/cpu/entry.S`, `kernel/start.c`, `arch/bsp/peripherals_asm.S`) | the processor's mode, its stacks and masks | one step after the other, up to the first interrupt | all of the above |
| Register dumps and fault status (`kernel/register_dump.c`, `arch/cpu/*fsr.c`, `psr.c`) | none that outlives a call | names of modes and statuses, or a panic | exceptions |
| Demo program (`user/main.c`) | two global variables per process | read characters, make processes, count, print and stall | system calls |
| Strings, logging, register check, user library (`user/lib`) | none that outlives a call | | |

What makes the parts correct, and what is hard to test:

* A thread is in exactly one list at every moment, whatever sequence of calls
  and interrupts moves it. The hard cases are the idle thread, which enters
  and leaves from outside, and one interrupt that wakes, switches and feeds.
* The three records of who lives in a process agree across every exit and
  reuse of a slot, and a free slot implies a free control block.
* The page table fits the thread that runs, though it is rewritten only when
  the process changes.
* No wakeup is lost between the clock and the compare register; nobody wakes
  early or oversleeps; the stall list is sorted, which the scheduler itself
  verifies at every switch.
* Ready threads run and readers get the characters that came before them.
* List surgery on shared nodes never leaves a torn ring.
* The ring buffer is right on both sides of its indexes' wrap.
* A thread that runs on finds its registers as it left them and the result of
  its own call, whatever handlers saved, overwrote and loaded meanwhile.
* A process finds its own data and a new one fresh data, though numbers,
  control blocks and stacks are reused; no thread reaches anything else.
* What a program does wrong ends its thread; what the kernel does wrong halts
  it. The two are told apart by status registers that every switch of threads
  overwrites, and an interrupt may come as soon as the start lets it.
* Threads that count together without a lock lose increments, but their
  program still ends.

`PROJECT.json` lists these hazards at their lines with the properties that
cover them.

## The modules and the code

| Module | Models | State and steps |
|---|---|---|
| `KernelList` | what the five list operations do to a sequence of nodes | operators only; insertion is the code's, misplaced first node included |
| `Scheduler` | scheduler, system calls, IRQ handler, system timer, UART as a count | below |
| `ThreadLifecycle` | the promise of the scheduler, without lists, tables and timers | sets of ready, running and stalling threads, the queue of readers, the slot each thread lives in; implemented by `Scheduler` |
| `ContextSwitch` | `Scheduler` with registers and characters | each scheduler action composed with what it does to `cpu` (the user's registers) and `saved` (`regs` of the control blocks) |
| `ProcessMemory` | `Scheduler` with data sections and stacks | creations copy, user code writes, everything else leaves memory alone |
| `IntrusiveList` | `previous` and `next` of heads and nodes | one action per list function; implements `KernelListSpec` |
| `KernelListSpec` | the promise of the lists, without pointers | sequences of nodes |
| `RingBuffer` | array and free-running indexes | write, read, peek; implements `BoundedQueue` |
| `BoundedQueue` | the promise of the ring buffer | a sequence that drops what does not fit |
| `StallTimer` | the stall list, `CLO`, `C3` and `M3`, register access by register access | a handler is a sequence of accesses, the clock ticks between any two; `left` is the time a stalling thread has still to wait |
| `DemoProgram` | `user/main.c` over `StallTimer` | thread 0, `process_main` and the threads; the increment of the counter is a load and a store |
| `Exceptions` | `entry.S`, `start.c`, the vectors, the handlers, the dump of a fault, the status registers a switch goes through | the start step by step; taking an exception, each stage of its handler, its return |
| `MMU` | `mmu.c` and the three rewritings in `scheduler.c` | the ranges filled in the code's order, then one mapping after the other |
| `Fractions` | `kfraction.c`, divisor and multiple in `kmath.c` | operators only; the loops of an addition are passes over its two operands, at most [MaxPasses] |
| `Timing` | `ktiming.c`, its multiplication | a conversion is a call and a loop, each pass a step |
| `Colours` | `kcolor.c`, the preview in `start.c`, `kdebug.h` | a label's three hashes are projected one by one, then mixed and converted, a component a step |
| `Printf` | `kprintf.c`, digits in `kascii.c` | one directive is one step |
| `Library` | `IntrusiveList`, `RingBuffer`, `Timing`, `Printf` and `Colours`, which share nothing | `part` says which of them a behaviour follows |
| `Faults` | `MMU` and `Exceptions` | the tables are filled where the start does it, and followed from there for their own |
| `KernelListProofs`, `SchedulerProofs`, `SwitchProofs`, `ContextProofs`, `ProcessMemoryProofs`, `DemoProofs`, `FaultsProofs`, `LibraryProofs` | proofs | |

`MCContextSwitch`, `MCDemoProgram`, `MCFaults` and `MCLibrary` only add symmetry
and the inputs. A module that is composed with INSTANCE names what its constants
have to be, and the composing module assumes it.

**Scheduler.** `lists` holds the five lists as sequences. A thread control
block is its number, `tid`: user threads from 0, the idle thread last. `pid`,
`pidSlot` and `stallUntil` are its fields; `spaces`, `slotsUsed` and
`stackHandles` are `thread_list`, `stack_slots_used` and
`process_stack_handles`. `l1` keeps of the first level table only which data
section and which stacks user addresses lead to. A system call, its switch of
threads and the list check that follows are one action; so is an interrupt
with all its sources, in the handler's order: stall timer, scheduling timer,
UART, readers. An exception raised by user code ends the thread through the
same `scheduler_cleanup_thread` as `exit_thread`, so `ExitThread` stands for
both; `Exceptions` tells them apart. The hardware's actions are `Tick`, `SystimerMatch` and `Keypress`. A
failed `VERIFY` sets `halted` and keeps the lists as they were when it failed.

Creations that find no free process or slot, and calls that only return a
value, change nothing in the scheduler; they are `Answer` in `ContextSwitch`,
where their result goes to `r0`.

**Context switch.** A register holds what its thread computed last, told apart
by thread; `r0` is kept apart from `r1`-`r12`, and the banked `sp` and `lr` from
both. `promised` is a history variable: the registers each thread is entitled
to find.

**Process memory.** Data is named by the process that wrote it last, arguments
by the thread they are for; `dataOf` and `firstThreads` are history.

**Stall timer.** `Scheduler` lets the clock stand still in a handler and follows
it from 0 to a bound. `StallTimer` is the part of it that this leaves out:
`handler` is the access to a register that is made next, `unblocks` whether the
loop over the overdue threads makes it, `delay` counts the ticks between the
reading of `CLO` and the writing of `C3`. The code gives them `TOCTOU_PAD` ticks;
that they are enough, `MaxDelay <= TOCTOU_PAD`, is assumed. `left` is a history
variable: what a clock that never wraps would show.

**Demo program.** A thread of user code may be anywhere in its loop when another
one goes on; `Scheduler` decides which one, and this module lets any. What the
kernel promises for it is used, not modelled again: a new process has its own
data (`DataKept`), its argument on its stack (`ArgumentsFound`), and every ready
thread runs (`ReadyThreadRuns`). `process_main` is one step because it ends within
the `TIMER_INTERVAL` it is given when it is switched to; were it interrupted, the
thread it has made would run without its stack (run `new_stack`).

**Exceptions.** A status register is its mode and its IRQ mask. `boot` is what the
start does next; an interrupt taken from `timer` or `halt` on switches to the first
thread and never comes back, which is `left`. Which thread is next is left open.
`phase` is how far a handler is; a fault inside it is another exception from the
kernel's mode. `origin` is history, the mode an exception was taken from: the
handlers do not see it but look at the saved status register, and the properties
compare the two.

**Page tables.** Sections of 1 MiB and stack pages as numbers, with access
permissions and execute-never bits as the code writes them. `Scheduler`'s `l1`
is this table seen through the two kinds of entries that change.

## The runs

A capital in brackets is a bound, a CONSTANT of the configuration.

| Run | Instance | Shows |
|---|---|---|
| `processes` | 2 processes x 2 slots, 4 threads, no clock; create, exit, yield, write data | no thread lost, doubled or overtaken in the ready list; the records of a process agree; a free slot has a free control block; stacks registered and mapped are the right ones; every process finds its own data, a new one the linked data; a first thread finds its arguments |
| `threads` | 1 process x 3 slots, clock up to 3, stalls of 3 ticks, buffer of 1; fair | no panic; ready threads run, readers are served; every step is one of `ThreadLifecycle`, so nobody is blocked or ended by others |
| `clock` | 1 address space for 2 processes of 2 threads, one after the other; a clock of 64, stalls of 3 ticks, handlers of up to 1 tick, counter up to 2; fair | no wakeup lost, none early, sleepers in order; the counter near its limit, each process its own character, every process ends |
| `faults` | the real table: 1024 sections, 8 processes, 4 slots, 32 user stacks; 2 threads; all statuses with a name but those of `fault_status` by example; fair | user code confined, code and pristine data unwritable, the kernel's mappings agree, guard pages; threads in their own mode, no exception too early, faults confined, the timer goes on |
| `context` | 1 process x 2 slots, clock up to 1, buffer of 2, 2 characters (symmetric) | registers kept over every interruption and block; results and characters reach their thread |
| `library` | 2 heads, 4 nodes, 2 keys; a ring buffer of 4 places, indexes modulo 8, texts up to 5 of 2 characters; 32-bit words of all magnitudes as times, from 2^31 on too; all words of 8 bits in fields 0-9, 255 and 256; the 17 labels the kernel colours and some 5400 others, a hash for every hue among them; fair | lists are closed rings and do what `KernelList` says; the buffer is a bounded queue over every offset and wrap; conversions end, are nearly right of the signed numbers the words are taken for, and refused only when large; numbers read back, fields are filled, the buffer holds; every label the kernel colours gets its colour; projections that end are proportional, components are right |
| `stall_order` | 3 threads, stalls of 3 and 4 ticks | violated: the kernel halts itself |
| `new_stack` | 2 threads of 1 process | violated: a thread runs without its stack |
| `context_flags` | 2 threads | violated: flags lost over an interrupt |
| `context_error` | 2 threads | violated: an error is given to another thread |
| `clock_wrap` | 1 thread, a clock of 16, stalls of 5 ticks | violated: a stall over the wrap ends at once |
| `fault_status` | 2 threads, every status `ifsr.h` lists | violated: a program's fault has no name |

**Why the bounds are enough.** Two processes with two slots are the least in
which a process number, a slot and a control block are each reused by a
different owner while another process lives; four control blocks make the last
slot and the last control block run out together, as in the kernel (32 of
both). Whether a free slot has a free control block depends on the two numbers
being equal, which the theorem below covers for all values. Three threads of
one process are the least for a stalling thread, a reader and one in the ready
list with the idle thread still appearing; all may stall, so two may be overdue
at one interrupt. The clock stops at [ClockBound]: a stall begun at 0 ends at
it, and a later one is still waiting there. It ends before the wrap of
[ClockRange]; the clock is the subject of `StallTimer`. Interrupts stay possible when
the clock has stopped, so nothing is served only because the clock ended.
`context` sets `TOCTOU_PAD` to 0 so that a thread really waits within a clock
that counts to 1, and gives both error numbers one value; which of the two it
is, is not the question there. The ring buffer's 8 index values are two rounds
of its 4 places. List heads differ in nothing but which of them is filled
first, and four nodes allow a ring of each kind next to a moved node's two
neighbours. `Printf` is the same for words of 8 and 32 bits but for the number
itself, and its field width is followed to past the buffer. A colour depends on
hue, saturation and lightness alone and all hues occur; the additions of a
projection that end do so in fewer than 25 passes, those that do not come back
to the operands they had, so 60 passes tell them apart.
In `StallTimer` the clock ticks only while somebody stalls, and no further than
[Latency] past the moment of a thread that still does; an idle clock changes
nothing but its own value. A `stall_until` is forgotten when its thread wakes:
it is written before it is read. In `clock` the clock is wide enough for all the
stalls of two processes, so that it does not wrap; `clock_wrap` is about what
happens when it does. With a stall of 3 ticks and handlers of 1, the two threads
may be overdue together or one of them while the other is being armed for. The
counter ends at 2 where the program's ends at 110: two rounds let one thread set
back what the other has counted. Two keys use the address space twice. In
`Exceptions` two threads can be one that runs and one that is switched to or made;
the kernel makes no second fault on its way to halting for a first one.

Deadlock is checked in every run but `clock`, where both processes may have ended
with no key to come, `faults` and `fault_status`, where a kernel may have
halted.
In `Scheduler` the scheduling timer can always match, and what stops the system
otherwise is a panic, which `NoPanic` excludes and `stall_order` shows.

**Fairness.** `threads`, `clock`, `faults` and `library` use it. In `Scheduler` an enabled
`IRQ` is taken (handlers are finite and user mode runs with IRQs on) and
`SystimerMatch` happens again and again: whoever switches threads sets the
scheduling timer `TIMER_INTERVAL` ahead, the interrupt handler included. Nothing is
assumed of the user threads, the clock or the keyboard. The threads of this
run read and stall, each of which takes a thread out of the ready list.
`FairNext` has no `yield` and no `exit_thread`, because every call that gives way also sets
the scheduling timer back: a thread that gives way for ever more often than
`TIMER_INTERVAL` makes a fair `SystimerMatch` wrong. `ReadersServed` is
therefore claimed only of threads that read and stall. In `Timing` a
conversion goes on until it is through: it is a loop in the kernel with
interrupts masked. In `DemoProgram` the clock and the handlers go on, a pending
stall timer is served, and every thread that is ready makes its next step, which
`ReadyThreadRuns` justifies; nobody has to type. In `Exceptions` a handler runs to
its end, and kernel code that is interrupted again and again still goes on, as
does a pending interrupt that is masked again and again (strong fairness); the
timer need not match.

## What the code does not keep

Each of these is a run that ends in a counterexample.

* `stall_order`: the loop of `k_insert_sorted` (`kintrusive_list.c:118`) ends at the first
  node both when that one is due later than the new one and when the search has
  come round the ring. Either way the new node is linked in before the first
  one, and `list->next` goes on pointing at that one: the new node is the last
  of the list. So a thread that stalls for less time than
  the first of the stall list is put behind the last; the next switch finds the
  list unsorted and halts (`scheduler.c:283`). This is why `threads` lets every
  thread stall for the same time: equal and growing moments are what the code
  keeps in order.
* `new_stack`: stack slots are mapped only when the process changes. A thread
  created in the running process runs on whatever its slot was mapped to
  before.
* `context_flags`: `cpsr` is set at creation and never saved, so a preempted
  thread goes on with its condition flags cleared.
* `context_error`: `stall_thread` switches before it can fail; its `-EINVAL`
  lands in the next thread's `r0`, and the caller never sees it.
* `clock_wrap`: `stall_until` is the clock plus the time, in 32 bits, and both
  comparisons (`scheduler.c:303`, `systimer.c:35`) take it for a plain number. A
  stall over the wrap, every 72 minutes, ends at once. Two more things follow from
  the same comparisons: with the constants of this run a moment in the last
  `TOCTOU_PAD` ticks of the clock is set although it is past when the sum in
  `systimer.c:35` wraps, and is waited for another 72 minutes (`StallTimerArmed`
  is violated too); and of two threads that stall on both sides of the wrap the
  second has the smaller moment and is put behind the first, so that with two threads `Sorted` is
  false and the next switch halts the kernel as in `stall_order`.
* `fault_status`: bit 10 of the status register is shifted to bit 14 instead of
  bit 4. The five statuses from `0x10` on get no name, and
  `VERIFY_NOT_REACHED` halts the kernel for what a program did. `FaultsConfined`
  holds for the others.

Seen while modelling, without a run of their own:

* The idle thread's pid is one past the last process. A switch to it reads
  `process_stack_handles` behind its end; `OutOfBounds` stands for what is read,
  and `MappingMatchesRunning` shows that no user thread runs with it.
* A finished control block is not reset, though `README.md:98` says so. Every
  creation sets what matters again except `r1`-`r12` of the registers.
* Times are converted as signed numbers (`ktiming.c:11` and `:25` hand a `size_t` to a
  `long`). The time of day is right, to one part in a thousand, up to 2147483 ms; at 2^31 ticks,
  36 minutes after the start, it jumps to about 2^32 - 2147483 ms, as much below 2^32 ms as the clock is
  below 2^32 ticks. A stall of 2^32 - n ms is taken for one of -n ms: if n is below about
  1100000 it is accepted, against `README.md:92`, and becomes some 2^32 - 1000 n ticks, at most 72
  minutes instead of 49 days. `TimeNearlyRight` and `StallNearlyAsked` say exactly this,
  of all words but the two, 2^31 and 2^31 + 1, for which `K_ABS` is undefined.
* Among the stalls that are positive numbers, those above 2148 ms lose precision and
  some above half the range, like 550912 ms, come out nearly twice as long, where `README.md:89`
  says `ms` milliseconds. `StallNearlyAsked` bounds that.
* The time of day can run back by 1 ms when the clock advances a few ticks, first from
  34361007 to 34361008.
* Arguments as large as a stack are accepted; their beginning lies in the
  guard page.
* `%#b` with 31 or more digits writes past the 32 places of the buffer, which
  `kprintf.c:79` says are enough for number and field. Nobody calls `%b`.
  `BufferHolds` shows it is the only case.
* The addition of two fractions need not end. `k_lcm` does not look for
  overflow, and an operand made coarser may come back to where it was, so that
  projecting an unlucky hash loops for ever, with interrupts masked: about one
  hash in 260 for the hue and one in 80 for the lightness. `ModulesColoured`
  shows that no label the kernel colours is among them; `Loop` of `Colours`
  is where the others, three of which are in the run on purpose, stay.
* `README.md:82` says that `get_time` returns the low half of the timer; the code
  returns milliseconds.
* A dump prints every access as reading (`get_data_abort_access_type` is there but
  not called, and compares a shifted bit with 1); the address it names is that of
  the next instruction for some exceptions; the letters `E` and `IFT` of a status
  register are taken from other bits than `psr.h` says.
* There is no vector for fast interrupts, and the vector for reset calls its
  handler without a frame of registers. Neither is ever taken.
* A thread that yields without end can put off the interrupt that serves a
  reader with a character already in the buffer.

## The proofs

Proved for every value of the constants, from the named assumptions of the
modules, which the configurations also evaluate (that there are at least as many
user threads as slots, that special table entries are not stacks, that the stacks
fit the memory map, and the like). A theorem that needs more says so in an
ASSUME; each of these is listed below with its reason.

*`KernelListProofs`* says of each list operation which nodes the resulting
sequence has and that it repeats none. Nothing in it knows of the scheduler.

*`SchedulerProofs`* proves the invariant

    IInv == TypeOK /\ ListPartition /\ SlotBookkeeping
            /\ LiveStackRegistered /\ MappingMatchesRunning

by induction, one lemma per action. The parts need each other. A control block
taken from the finished list is not live, so its new slot collides with none
(`SlotBookkeeping` uses `ListPartition`). A switch maps what
`stackHandles` says, which names no out-of-bounds stack because the pid is a
process's (`MappingMatchesRunning` uses `TypeOK`). A freed slot's handle stays
behind, which is harmless because no live thread has that slot
(`LiveStackRegistered` uses `SlotBookkeeping`). For the lists the proof uses an
equivalent form of `ListPartition`, in which every user thread has exactly one
place; each handler is a chain of moves, and each move keeps it.
`FreeThreadForFreeSlot` is not inductive; it follows from `IInv` by counting: if
no control block is finished then all are live, live threads take pairwise
different slots of processes, and there are no more slots than threads.

*`SwitchProofs`* proves three action properties and a refinement from that invariant.
`SwitchMapsStack`: each handler's switch is the same computation on lists the
handler has worked on before; the thread it chooses is in no finished list, so
it is live, so its stack is the registered one. `BlocksItself`: what a handler
works on holds nobody in the lists of readers, stalling and finished threads but
who was there before, and the caller. No run checks this one: it follows from the
refinement below, which `threads` checks for the calls it makes.
`ReadyListIsQueue`: `Follows(k, old, new)` says that once `k` threads have left a ready
list at the front, the rest is there in order and only newcomers stand behind
it. A handler switches at most once, so `k` is 0 or 1; whom it wakes, feeds, creates
or puts back was in another list before, so is a newcomer; and a caller that blocks
is one too, so the removal of it from the middle disturbs nobody.

It also settles when the kernel halts itself. `OnlyTheOrderHalts`: every `VERIFY`
and `PANIC` on these paths but one cannot fail, and the one is the test that the
stall list is sorted (`HaltsUnsorted`, inductive with `IInv`). `NeverHalts` adds
that whoever stalls is due no earlier than all who stall already; that is true
when all threads stall for the same time and the clock stays that time away from
its end. Both hypotheses are needed: `stall_order` and `clock_wrap` are what
happens without them. The kernel's one user program stalls for `SLEEP_TIME_MS` only.

Its last part is the refinement: `LivesAsPromised` says that every behaviour of
`Scheduler` is one of `ThreadLifecycle`. The mapping (`Life` in `Scheduler`) reads the sets off the
lists and calls nobody running while the idle thread runs; `Homes` is process and slot
of the threads that are not finished. One fact carries most of the proof: by `ListPartition`
whoever is in no other list is ready (`ReadyAreTheRest`), so it is enough to know what a handler
does to the other lists. A creation finds its free thread by the counting argument above
and its slot empty by `SlotBookkeeping`; a stall that wakes its caller at once takes a
front part of the stall list with it (`StallBriefly`); an interrupt is a wakeup,
perhaps a switch, and a round of service to the readers. That the interrupt does not
switch when nobody waits takes one more invariant, `SomebodyToRun`: no thread at all, not
even the idle one, runs before the first switch only, and then thread 0 is ready.

*`ContextProofs`* follows the registers. `KeptBy` says where the registers a thread
is entitled to are: in the processor, if it runs, in its control block, if it waits
for its turn, and there but for `r0` if it waits for a character. `ContextInv` is
that together with `IInv`, and with a buffer that has as many characters as the
scheduler counts. A handler's saves, results and loads are a chain of register
updates next to its chain of list moves, and each link of the one keeps `KeptBy`
over the other. `ContextKept` follows. `ResultsDelivered` is proved of systems in
which no stall is refused: a refused one answers the wrong thread (`context_error`).

*`DemoProofs`* is about `StallTimer` first. `ArmedInv` says besides
`StallTimerArmed` that a handler about to write `C3` still has its lead over the
clock (`LeadKept`), which is what `TOCTOU_PAD` is for; without it the moment could
have passed unnoticed. `MomentsExact` says that a moment is the time still to wait,
counted from now. Both are proved up to the last `TOCTOU_PAD` ticks, or the last stall,
before the wrap (`BeforeWrap` is an assumption on behaviours, `[]BeforeWrap`),
and are false after it (`clock_wrap`). `SleepersStayInOrder` does not need it:
with one stall time `d` for all, `Window` keeps all moments within `Latency + d` of
each other, so the order of the list is that of the times left even where the
numbers have wrapped. `DemoUsesStallTimer` proves that the demo program's steps are
the timer's, or leave it alone: the program may call nothing else, so the timer's theorems
are theorems about it. Of the program itself: `OwnCharacterAlways`, and
`CounterStaysNearLimit` by the invariant `Race`, which says what each of two threads
that has passed the test knows of the counter and of the other one. It is proved
for the two threads `process_main` creates, and false for three: a third
could set the counter back under two that have passed the test.

*`ProcessMemoryProofs`* adds `CopiesKept`: the pristine data is as linked, and
each process's copy is what the process is to find. With
`MappingMatchesRunning` it is inductive, and `DataKept` follows. `ArgumentsKept`
adds that the table shows the stacks of all first threads of the process that
runs. It stays true although the table is not rewritten when threads of that
process come and go, because a first thread is only ever created in a process
that does not run, and `ArgumentsFound` follows. (For later threads of a process
the same statement is false: run `new_stack`.) Every step of `MemorySpec` is a
step of `Scheduler` or leaves its variables alone, so `IInv` and the facts about
switches are used, not proved again.

*`FaultsProofs`* proves the four properties of the tables first. While the ranges are
filled, `BeingFilled` says that a section has the entry of the last range that
reached it; that is kept by any list of ranges, and only at the end are the starts of
this memory map put in (`Fixed`, `OfProcess`). `Ways` lists, for every page that may be
looked at, what it leads to and who may do what there. Two frames are equal
only if section and page are (`FrameUnique`), so whether code or pristine data can
be written by another way is a look at the list. `UserCodeStaysConfined` assumes
four slots: `memory_map.h:37` keeps room for four whatever
`THREADS_PER_ADDRESS_SPACE` says, and with fewer slots the sections left over
name the first user stack, for user code to write to.

It then follows the status registers. `HandlerInv` says that between
exceptions the status is that of the thread that runs, and in a handler the saved one is,
unless the kernel itself made the fault, and that such a handler never comes to its
return. A thread's own status in its control block (`BootInv`) is what a switch puts there.
`ThreadsInOwnMode` and `ReadyForExceptions` follow, and that the saved mode
is where the exception came from. `FaultsStayConfined` uses it for every handler; it
assumes that the statuses have names, as `fault_status` shows they need not.

*`LibraryProofs`* proves the two refinements of the library first. The ring buffer is a
queue (`RingBufferIsQueue`) for every size that divides the range of the indexes
and is smaller: an index that wraps keeps its remainder (`RemainderOfRemainder`), so its slot, and
two indexes no further apart than the array is long have as many slots between them
as characters are stored. `RingConstants` asks that the size be below the range of
the indexes, which is that of the size itself (both are `size_t`): with as many indexes as
slots, full and empty would look the same.

For the lists, `Holds(p, q)` says that pointers `p` are lists `q`: every head
points at the first node of its list, whose nodes point at each other around and back,
no node is in two lists, and one in none points at itself. Each pointer
operation is shown to turn pointers that are some lists into pointers that are what
`KernelList` makes of them (`UnlinkedHolds`, `AppendedToHeadHolds`,
`AppendedAfterHolds`, `SortedHolds`), from what it does to four pointers at most. Pointers
that are lists are followed to these lists (`WalkIsList`), so the lists that
`IntrusiveList` reads off its pointers are always the ones they hold: that is
`ListInv`, which is inductive and gives `ListsAreSequences` and `StructuresStayIntact`.
The callers' guards are needed: `Holds` is lost as soon as a node that is in
a list is appended to another one.

`TimesStayRight` then proves the bounds of the conversions of times, for every word that
can be asked for and every clock value, as the long it is taken for, but for the two
without a magnitude; `SourceValues` fixes the constants to
the code's (longs of 32 bits, a timer of 1 MHz), as the bounds are about these
numbers. `GcdDefined` shows that the recursive divisor has a value at all, by taking the number
whose divisors are the common ones; what that value does follows by
least counterexample (`GcdDivides`), so cancelling divides both terms by the same
number (`FractionIs`). A sign takes no part in that (`NegativeFraction`), so the rest is about
magnitudes. Each pass that makes a fraction coarser divides both
terms, the odd ones less one, by two or more; less one is one more in the magnitude of a negative
numerator. `Near(x, limit, n, g, h)` keeps count for the numerator: `g` is
what has been divided away, and `n * g` is `x` but for `2 * h`, more or less, with `h` at most
one part in `limit - 1` of `x`, because no numerator below `limit` is made coarser. So no numerator
is larger than `x` (`NearSmall`), and nothing undefined is met on the way (`CompactionIs`). A time that
fits from the start has `h = 0` and comes out exact (`StallExact`). The denominator
decides how far off the answer is. Of the 1000 of a stall less than half is lost
altogether (`StallScale`), down to 512, so a stall is not doubled. The
1000000 of the clock have so few odd divisors that only 999936, 999680 and 999424 can be
left of them before the product fits (`ClockScale`), which gives one part in a thousand.

`NumbersFitBuffer` and `NumbersPrintedRight` are about what `kprintf` prints for a number.
`SourceWords` fixes the sizes to the code's, ints of 32 bits and a buffer of as many places,
where the run goes through all words of 8. The quotients of the digit loop are nothing but
divisions (`QuotientsDivided`), at most 32, 10 or 8 of which leave something of a word (`QuotientsEnd`). What
a directive sends is the buffer from its end: spaces, sign, prefix, zeros, digits (`LaidOut`),
each part as long as flags and width make it (`FieldSums`). From these lengths follow the
width of the field and that the buffer holds it. To read the number again, the spaces are told
from everything else (`Places`); by induction over the places, what has been read up to a
digit is the quotient that was left when that digit was taken off (`ReadsQuotients`). The
inductive invariant, `PrintInv`, only says that what is sent for a number is its buffer. The
exception in `BufferHolds` is needed: a binary number with a prefix and more than 30 digits
exceeds the buffer, which nobody prints.

Only model-checked: of the library the colours and that the
conversions end. Liveness is out of the prover's reach, as is what the
recursively defined sums of `Fractions` compute.

## What is not modelled

* **Time in the scheduling channel.** `C1` is set, armed or pending; how many ticks
  a slice has is left open.
* **Sizes of arguments.** A creation copies arguments that fit.
* **Strings, logging, the text of register dumps.** They compute text and change
  no state of the kernel. **The hash of a label** is an input of `Colours`: of the
  kernel's own labels it is the number the code computes, of others any.
* **The cores that are parked** at the start, which run nothing; **the register
  check**, which nobody calls.
* **The user library** repeats the kernel's helpers, with system calls for
  output; its busy wait (`user/lib/timing.c`) compares two times of day and need
  not end near the largest of them.
* The saved status registers are taken to start as 0, as the emulator has them.

## Plan

What is left, in this order:

1. The colours: that every component is the one of its hue, saturation and lightness for
   all hashes whose projections end.
2. `BoundedQueue` as what the characters of `ContextSwitch` implement. One interrupt accepts
   a character and hands out several, so it is several steps of the queue; the
   abstract module would have to serve readers itself, as `ThreadLifecycle` does with
   the count of them.
