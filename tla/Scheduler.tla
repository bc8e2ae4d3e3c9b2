----------------------------- MODULE Scheduler -----------------------------
(***************************************************************************)
(* The thread scheduler of the kernel (kernel/scheduler.c) with the system *)
(* calls (kernel/syscall_impl.c), the interrupt handler                    *)
(* (kernel/interrupt.c) and the two compare channels of the system timer   *)
(* (arch/bsp/systimer.c) that drive it.                                    *)
(*                                                                         *)
(* The machine has one core and every handler runs with IRQs masked, so a  *)
(* system call or an interrupt is one step here.  Between two steps the    *)
(* hardware moves on: the clock ticks, a compare channel matches, a        *)
(* character arrives.  The clock stands still within a step.               *)
(***************************************************************************)
EXTENDS KernelList

CONSTANTS
  USER_THREAD_COUNT,          \* thread control blocks for user threads
  ADDRESS_SPACE_COUNT,        \* processes
  THREADS_PER_ADDRESS_SPACE,  \* stack slots of a process
  UART_INPUT_BUFFER_SIZE,     \* characters kept for later readers
  TOCTOU_PAD,                 \* how close a timer interrupt may be requested
  ClockRange,                 \* the clock counts modulo ClockRange (2^32)
  ClockBound,                 \* bound: the clock is followed up to here
  Durations,                  \* bound: the stall times (clock ticks) asked for
  Calls,                      \* bound: the system calls the programs make
  NoStack, OutOfBounds        \* page table entries that name no stack

AddressSpaces == 0 .. ADDRESS_SPACE_COUNT - 1
Slots == 0 .. THREADS_PER_ADDRESS_SPACE - 1
UserThreads == 0 .. USER_THREAD_COUNT - 1
IdleThread == USER_THREAD_COUNT
Threads == UserThreads \cup {IdleThread}

(* The pid of the idle thread, which is not the index of a process. *)
IdlePid == ADDRESS_SPACE_COUNT

(* The stack of a user thread is named by its tid: thread i owns the i-th  *)
(* second level table for the whole run.                                   *)
StackEntries == UserThreads \cup {NoStack, OutOfBounds}

ASSUME CapacityAssumption ==
  /\ ADDRESS_SPACE_COUNT \in Nat \ {0}
  /\ THREADS_PER_ADDRESS_SPACE \in Nat \ {0}
  /\ USER_THREAD_COUNT \in Nat
  /\ USER_THREAD_COUNT >= ADDRESS_SPACE_COUNT * THREADS_PER_ADDRESS_SPACE

ASSUME ClockAssumption ==
  /\ ClockRange \in Nat \ {0}
  /\ ClockBound \in Nat
  /\ TOCTOU_PAD \in Nat
  /\ Durations \subseteq Nat \ {0}

ASSUME UartAssumption == UART_INPUT_BUFFER_SIZE \in Nat \ {0}

ASSUME EntryAssumption ==
  /\ NoStack \notin UserThreads
  /\ OutOfBounds \notin UserThreads
  /\ NoStack # OutOfBounds

-----------------------------------------------------------------------------
VARIABLES
  lists,          \* the five scheduler lists, first node first
  pid, pidSlot,   \* of each thread control block
  spaces,         \* the threads in each address space list
  slotsUsed,      \* the stack slots taken in each process
  stackHandles,   \* process_stack_handles
  l1,             \* what user addresses are mapped to: data section, stacks
  stallUntil,     \* of each thread control block
  clo, c3,        \* system timer: the clock and the stall timer's compare
  m1, m3,         \* pending matches: scheduling timer, stall timer
  rx,             \* a character waits in the UART's data register
  unread,         \* number of characters in the input ring buffer
  halted          \* the kernel has panicked

procVars == <<pid, pidSlot, spaces, slotsUsed, stackHandles>>
stallVars == <<stallUntil, c3, m3>>
uartVars == <<rx, unread>>
vars == <<lists, procVars, l1, stallVars, clo, m1, uartVars, halted>>

ListNames == {"ready", "running", "input", "stall", "finished"}

-----------------------------------------------------------------------------
(* The state start_kernel() leaves: every list is empty but the finished   *)
(* list; thread 0 has been made the first process; the data section is     *)
(* mapped to itself and all stack slots to the stack of thread 0.          *)
Init ==
  /\ lists = [ready |-> <<0>>, running |-> <<>>, input |-> <<>>, stall |-> <<>>,
              finished |-> [i \in 1 .. USER_THREAD_COUNT - 1 |-> i]]
  /\ pid = [t \in Threads |-> IF t = IdleThread THEN IdlePid ELSE 0]
  /\ pidSlot = [t \in Threads |-> 0]
  /\ spaces = [a \in AddressSpaces |-> IF a = 0 THEN {0} ELSE {}]
  /\ slotsUsed = [a \in AddressSpaces |-> IF a = 0 THEN {0} ELSE {}]
  /\ stackHandles = [a \in AddressSpaces |-> [s \in Slots |->
                       IF a = 0 /\ s = 0 THEN 0 ELSE NoStack]]
  /\ l1 = [section |-> 0, stacks |-> [s \in Slots |-> 0]]
  /\ stallUntil = [t \in Threads |-> 0]
  /\ clo = 0 /\ c3 = 0
  /\ m1 = FALSE /\ m3 = FALSE
  /\ rx = FALSE /\ unread = 0
  /\ halted = FALSE

-----------------------------------------------------------------------------
(* scheduler_round_robin.  A normal call leaves a thread running that      *)
(* nobody waits for; the idle thread joins an empty ready list; the thread *)
(* that ran goes to the end of the ready list unless it is the idle thread,*)
(* which goes to no list.                                                  *)
KeepsRunning(ls, type) ==
  type = "normal" /\ ls.ready = <<>> /\ ls.running # <<>>

Candidates(ls) == IF ls.ready = <<>> THEN <<IdleThread>> ELSE ls.ready

NextThread(ls) == Head(Candidates(ls))

(* Mutant of Requeued: the test for the idle thread is forgotten. *)
RequeuedIdleToo(ls) ==
  IF ls.running # <<>>
  THEN AppendLast(Candidates(ls), Head(ls.running))
  ELSE Candidates(ls)

Requeued(ls) ==
  IF ls.running # <<>> /\ Head(ls.running) # IdleThread
  THEN AppendLast(Candidates(ls), Head(ls.running))
  ELSE Candidates(ls)

RoundRobin(ls, type) ==
  IF KeepsRunning(ls, type)
  THEN ls
  ELSE [ls EXCEPT !.ready = Tail(Requeued(ls)), !.running = <<NextThread(ls)>>]

(* Mutant of ProcessMapping: the handle of slot 0 is written to all slots. *)
FirstSlotMapping(p) ==
  [section |-> p + 1,
   stacks |-> [s \in Slots |-> IF p \in AddressSpaces THEN stackHandles[p][0] ELSE OutOfBounds]]

(* The first level table after scheduler_round_robin.  It is written only  *)
(* when the thread comes from another process than the one before it.  For *)
(* the idle thread the handles are read behind the end of the array.       *)
ProcessMapping(p) ==
  [section |-> p + 1,
   stacks |-> IF p \in AddressSpaces THEN stackHandles[p] ELSE [s \in Slots |-> OutOfBounds]]

(* Mutant of Mapping: after an exit, when nothing runs, nothing is mapped. *)
MappingIfSwitched(ls, type) ==
  IF \/ KeepsRunning(ls, type)
     \/ ls.running = <<>>
     \/ pid[Head(ls.running)] = pid[NextThread(ls)]
  THEN l1
  ELSE ProcessMapping(pid[NextThread(ls)])

Mapping(ls, type) ==
  IF \/ KeepsRunning(ls, type)
     \/ ls.running # <<>> /\ pid[Head(ls.running)] = pid[NextThread(ls)]
  THEN l1
  ELSE ProcessMapping(pid[NextThread(ls)])

(* scheduler_verify_thread_list_integrity, run after every switch: no      *)
(* thread is met twice, the stall list is sorted.                          *)
ListIntegrity(ls) ==
  /\ IsInjective(ls.running \o ls.ready \o ls.input \o ls.stall \o ls.finished)
  /\ \A i \in 1 .. Len(ls.stall) - 1 : stallUntil[ls.stall[i]] <= stallUntil[ls.stall[i + 1]]

(* A failed VERIFY: the handler stops where it is, for good. *)
Panic(ls) ==
  /\ lists' = ls
  /\ halted' = TRUE

(* stalltimer_interrupt_at succeeds: the moment is far enough ahead. *)
Armable(hz) == (clo + TOCTOU_PAD) % ClockRange < hz

(* scheduler_unblock_overdue_waiting_threads: from the front of the stall  *)
(* list up to the first thread the timer can still be set for.             *)
UnblockOverdue(ls, until) ==
  LET timely == {i \in DOMAIN ls.stall : Armable(until[ls.stall[i]])}
      last == Min(timely \cup {Len(ls.stall) + 1}) - 1
  IN  [ls EXCEPT !.ready = @ \o SubSeq(ls.stall, 1, last),
                 !.stall = SubSeq(@, last + 1, Len(@))]

(* scheduler_adjust_stall_timer, as the last call of the loop above makes  *)
(* it and as it succeeds: the stall timer is set for the first thread.     *)
AdjustStallTimer(stall, until) ==
  /\ m3' = FALSE
  /\ c3' = IF stall = <<>> THEN c3 ELSE until[Head(stall)]

(* Mutant of FeedReaders: readers are fed on the arrival of a character    *)
(* only.                                                                   *)
FeedOnArrival(ls, n) ==
  LET k == IF rx THEN Min({n, Len(ls.input)}) ELSE 0
  IN  [ls EXCEPT !.ready = @ \o SubSeq(ls.input, 1, k),
                 !.input = SubSeq(@, k + 1, Len(@))]

(* The loop of the IRQ handler that gives n characters to the readers.     *)
FeedReaders(ls, n) ==
  LET k == Min({n, Len(ls.input)})
  IN  [ls EXCEPT !.ready = @ \o SubSeq(ls.input, 1, k),
                 !.input = SubSeq(@, k + 1, Len(@))]

-----------------------------------------------------------------------------
(* Mutant of Cleaned: the control block is given back to no list. *)
CleanedForGood(ls) == [ls EXCEPT !.running = <<>>]

(* scheduler_cleanup_thread gives the running thread's control block back, *)
(* at the front of the finished list.                                      *)
Cleaned(ls) ==
  [ls EXCEPT !.running = <<>>, !.finished = AppendToHead(@, Head(ls.running))]

(* Mutant of IgnoreUntilInput: the first ready thread is taken instead.    *)
IgnoreFirstUntilInput(ls, thread) ==
  [ls EXCEPT !.ready = Tail(@), !.input = AppendLast(@, Head(ls.ready))]

(* scheduler_ignore_thread_until_character_input: the caller is expected   *)
(* at the ready list's end and becomes the last reader.                    *)
IgnoreUntilInput(ls, thread) ==
  [ls EXCEPT !.ready = RemoveNode(@, thread), !.input = AppendLast(@, thread)]

-----------------------------------------------------------------------------
(* System calls.  A user thread makes them; the idle thread makes none.    *)

RunningThread == Head(lists.running)

UserThreadRuns == lists.running # <<>> /\ RunningThread # IdleThread

Calling(call) == ~halted /\ call \in Calls /\ UserThreadRuns

EmptyAddressSpaces == {a \in AddressSpaces : spaces[a] = {}}

(* Mutant of FreeSlots: a slot is never seen as taken. *)
AllSlots(a) == Slots

FreeSlots(a) == Slots \ slotsUsed[a]

(* Mutant of Assign: the stack is not registered with the process. *)
AssignUnregistered(a, slot) ==
  LET thread == Head(lists.finished)
  IN  /\ spaces' = [spaces EXCEPT ![a] = @ \cup {thread}]
      /\ slotsUsed' = [slotsUsed EXCEPT ![a] = @ \cup {slot}]
      /\ pid' = [pid EXCEPT ![thread] = a]
      /\ pidSlot' = [pidSlot EXCEPT ![thread] = slot]
      /\ lists' = [lists EXCEPT !.finished = Tail(@), !.ready = AppendLast(@, thread)]
      /\ UNCHANGED <<stackHandles, halted>>

(* Mutant of Assign: the control block stays in the finished list. *)
AssignFinished(a, slot) ==
  LET thread == Head(lists.finished)
  IN  /\ spaces' = [spaces EXCEPT ![a] = @ \cup {thread}]
      /\ stackHandles' = [stackHandles EXCEPT ![a][slot] = thread]
      /\ slotsUsed' = [slotsUsed EXCEPT ![a] = @ \cup {slot}]
      /\ pid' = [pid EXCEPT ![thread] = a]
      /\ pidSlot' = [pidSlot EXCEPT ![thread] = slot]
      /\ lists' = [lists EXCEPT !.ready = AppendLast(@, thread)]
      /\ UNCHANGED halted

(* The part scheduler_create_process and scheduler_create_thread share:    *)
(* the first finished thread gets the slot of the process and is ready.    *)
Assign(a, slot) ==
  LET thread == Head(lists.finished)
  IN  /\ spaces' = [spaces EXCEPT ![a] = @ \cup {thread}]
      /\ stackHandles' = [stackHandles EXCEPT ![a][slot] = thread]
      /\ slotsUsed' = [slotsUsed EXCEPT ![a] = @ \cup {slot}]
      /\ pid' = [pid EXCEPT ![thread] = a]
      /\ pidSlot' = [pidSlot EXCEPT ![thread] = slot]
      /\ lists' = [lists EXCEPT !.finished = Tail(@), !.ready = AppendLast(@, thread)]
      /\ UNCHANGED halted

(* Both begin with VERIFY(!k_is_list_empty(&finished_list)). *)
CreateIn(a, slot) ==
  /\ IF lists.finished = <<>>
     THEN Panic(lists) /\ UNCHANGED procVars
     ELSE Assign(a, slot)
  /\ UNCHANGED <<l1, stallVars, clo, m1, uartVars>>

CreateProcess ==
  /\ Calling("create_process")
  /\ EmptyAddressSpaces # {}
  /\ CreateIn(Min(EmptyAddressSpaces), 0)

CreateThread ==
  LET a == pid[RunningThread]
  IN  /\ Calling("create_thread")
      /\ FreeSlots(a) # {}
      /\ CreateIn(a, Min(FreeSlots(a)))

(* read_character: give way first, then leave the ready list's end for the *)
(* readers' list.  A character that is already there is not looked at.     *)
ReadCharacter ==
  LET switched == RoundRobin(lists, "forced")
  IN  /\ Calling("read_character")
      /\ l1' = Mapping(lists, "forced")
      /\ IF ListIntegrity(switched)
         THEN /\ m1' = FALSE
              /\ lists' = IgnoreUntilInput(switched, RunningThread)
              /\ UNCHANGED halted
         ELSE Panic(switched) /\ UNCHANGED m1
      /\ UNCHANGED <<procVars, stallVars, clo, uartVars>>

(* stall_thread with 0 ms, or with a time that cannot be converted. *)
YieldThread ==
  LET switched == RoundRobin(lists, "forced")
  IN  /\ Calling("yield")
      /\ l1' = Mapping(lists, "forced")
      /\ IF ListIntegrity(switched)
         THEN m1' = FALSE /\ lists' = switched /\ UNCHANGED halted
         ELSE Panic(switched) /\ UNCHANGED m1
      /\ UNCHANGED <<procVars, stallVars, clo, uartVars>>

(* scheduler_ignore_thread_until_timer_match.  The timer is set anew only  *)
(* when the thread is the first of the stall list; if the moment is too    *)
(* close the thread becomes ready again.                                   *)
IgnoreUntilMatch(ls, thread, match) ==
  LET until == [stallUntil EXCEPT ![thread] = (clo + match) % ClockRange]
      moved == [ls EXCEPT !.ready = RemoveNode(@, thread),
                          !.stall = InsertSorted(@, thread, until)]
      woken == UnblockOverdue(moved, until)
  IN  /\ stallUntil' = until
      /\ IF Head(moved.stall) = thread
         THEN lists' = woken /\ AdjustStallTimer(woken.stall, until)
         ELSE lists' = moved /\ UNCHANGED <<m3, c3>>

StallThread(match) ==
  LET switched == RoundRobin(lists, "forced")
  IN  /\ Calling("stall_thread")
      /\ l1' = Mapping(lists, "forced")
      /\ IF ListIntegrity(switched)
         THEN /\ m1' = FALSE
              /\ IgnoreUntilMatch(switched, RunningThread, match)
              /\ UNCHANGED halted
         ELSE Panic(switched) /\ UNCHANGED <<m1, stallVars>>
      /\ UNCHANGED <<procVars, clo, uartVars>>

(* exit_thread, and every exception a user thread raises: its handler      *)
(* dispatches the same call.  The slot, the place in the process and the   *)
(* control block are given back; the fields of the block and the stack     *)
(* handle registered for the slot keep their values.                       *)
ExitThread ==
  LET a == pid[RunningThread]
      switched == RoundRobin(Cleaned(lists), "normal")
  IN  /\ Calling("exit_thread")
      /\ slotsUsed' = [slotsUsed EXCEPT ![a] = @ \ {pidSlot[RunningThread]}]
      /\ spaces' = [spaces EXCEPT ![a] = @ \ {RunningThread}]
      /\ l1' = Mapping(Cleaned(lists), "normal")
      /\ IF ListIntegrity(switched)
         THEN m1' = FALSE /\ lists' = switched /\ UNCHANGED halted
         ELSE Panic(switched) /\ UNCHANGED m1
      /\ UNCHANGED <<pid, pidSlot, stackHandles, stallVars, clo, uartVars>>

-----------------------------------------------------------------------------
(* irq_interrupt_handler: the stall timer, then the scheduling timer, then *)
(* the UART, then the readers.                                             *)

Woken == IF m3 THEN UnblockOverdue(lists, stallUntil) ELSE lists

Switched == IF m1 THEN RoundRobin(Woken, "normal") ELSE Woken

(* Mutant of Received: the ring buffer is never full. *)
ReceivedAlways == IF rx THEN unread + 1 ELSE unread

(* pl001_receive drops the character when the ring buffer is full. *)
Received == IF rx THEN Min({unread + 1, UART_INPUT_BUFFER_SIZE}) ELSE unread

IRQ ==
  /\ ~halted
  /\ m1 \/ m3 \/ rx
  /\ IF m3
     THEN AdjustStallTimer(Woken.stall, stallUntil)
     ELSE UNCHANGED <<m3, c3>>
  /\ l1' = IF m1 THEN Mapping(Woken, "normal") ELSE l1
  /\ IF m1 /\ ~KeepsRunning(Woken, "normal") /\ ~ListIntegrity(Switched)
     THEN Panic(Switched) /\ UNCHANGED <<m1, uartVars>>
     ELSE /\ m1' = FALSE
          /\ rx' = FALSE
          /\ lists' = FeedReaders(Switched, Received)
          /\ unread' = Received - (Len(Switched.input) - Len(lists'.input))
          /\ UNCHANGED halted
  /\ UNCHANGED <<procVars, stallUntil, clo>>

-----------------------------------------------------------------------------
(* The hardware. *)

(* The clock advances; the stall timer's compare register may match.       *)
Tick ==
  /\ ~halted
  /\ clo < ClockBound
  /\ clo' = (clo + 1) % ClockRange
  /\ m3' = (m3 \/ clo' = c3)
  /\ UNCHANGED <<lists, procVars, l1, stallUntil, c3, m1, uartVars, halted>>

(* The scheduling timer's compare register matches.  Every handler that    *)
(* switches threads sets it TIMER_INTERVAL ahead; how far that is in ticks *)
(* of this model is left open.                                             *)
SystimerMatch ==
  /\ ~halted
  /\ ~m1
  /\ m1' = TRUE
  /\ UNCHANGED <<lists, procVars, l1, stallVars, clo, uartVars, halted>>

(* A key is pressed.  A character that meets a full data register is lost. *)
Keypress ==
  /\ ~halted
  /\ "keypress" \in Calls
  /\ ~rx
  /\ rx' = TRUE
  /\ UNCHANGED <<lists, procVars, l1, stallVars, clo, m1, unread, halted>>

-----------------------------------------------------------------------------
Next ==
  \/ CreateProcess
  \/ CreateThread
  \/ ReadCharacter
  \/ YieldThread
  \/ \E match \in Durations : StallThread(match)
  \/ ExitThread
  \/ IRQ
  \/ Tick
  \/ SystimerMatch
  \/ Keypress

Spec == Init /\ [][Next]_vars

(***************************************************************************)
(* Fairness.  An enabled interrupt is taken: handlers are finite and user  *)
(* mode runs with IRQs on.  The scheduling timer matches again and again,  *)
(* since each of its handlers sets it TIMER_INTERVAL ahead of the clock.   *)
(* That holds of threads that read and stall; those that yield or end also *)
(* set the timer back, and may do so again and again before it matches.    *)
(* Nothing else is assumed of the user threads.                            *)
(***************************************************************************)
Fairness == WF_vars(IRQ) /\ WF_vars(SystimerMatch)

FairNext ==
  \/ CreateThread
  \/ ReadCharacter
  \/ \E match \in Durations : StallThread(match)
  \/ IRQ
  \/ Tick
  \/ SystimerMatch
  \/ Keypress

FairSpec == Init /\ [][FairNext]_vars /\ Fairness

-----------------------------------------------------------------------------
(* Type invariant: the values every variable of the kernel and the timer   *)
(* takes; a pid is the index of a process but for the idle thread's.       *)
TypeOK ==
  /\ lists \in [ready : Seq(Threads), running : Seq(Threads), input : Seq(Threads),
                stall : Seq(Threads), finished : Seq(Threads)]
  /\ pid \in [Threads -> AddressSpaces \cup {IdlePid}]
  /\ \A t \in Threads : pid[t] = IdlePid <=> t = IdleThread
  /\ pidSlot \in [Threads -> Slots]
  /\ spaces \in [AddressSpaces -> SUBSET UserThreads]
  /\ slotsUsed \in [AddressSpaces -> SUBSET Slots]
  /\ stackHandles \in [AddressSpaces -> [Slots -> UserThreads \cup {NoStack}]]
  /\ l1 \in [section : 0 .. ADDRESS_SPACE_COUNT + 1, stacks : [Slots -> StackEntries]]
  /\ stallUntil \in [Threads -> 0 .. ClockRange - 1]
  /\ clo \in 0 .. ClockRange - 1 /\ c3 \in 0 .. ClockRange - 1
  /\ m1 \in BOOLEAN /\ m3 \in BOOLEAN /\ rx \in BOOLEAN /\ halted \in BOOLEAN
  /\ unread \in 0 .. UART_INPUT_BUFFER_SIZE

(* No thread is lost or doubled, whatever sequence of calls and interrupts *)
(* moves it between the lists: every user thread is in exactly one list,   *)
(* once; the idle thread is in none, or runs; at most one thread runs.     *)
Disjoint(ls) ==
  \A k, l \in ListNames : k # l => ToSet(ls[k]) \cap ToSet(ls[l]) = {}

ListPartition ==
  /\ \A l \in ListNames : IsInjective(lists[l])
  /\ Disjoint(lists)
  /\ UserThreads \subseteq UNION {ToSet(lists[l]) : l \in ListNames}
  /\ \A l \in ListNames \ {"running"} : IdleThread \notin ToSet(lists[l])
  /\ Len(lists.running) <= 1

Live(t) == t \in UserThreads \ ToSet(lists.finished)

(* The three records of who lives in a process agree: its address space    *)
(* list holds the live threads with its pid, the slots taken are theirs,   *)
(* and no two of them share a slot.                                        *)
SlotBookkeeping ==
  \A a \in AddressSpaces :
    /\ spaces[a] = {t \in UserThreads : Live(t) /\ pid[t] = a}
    /\ slotsUsed[a] = {pidSlot[t] : t \in spaces[a]}
    /\ \A t, u \in spaces[a] : pidSlot[t] = pidSlot[u] => t = u

(* VERIFY(!k_is_list_empty(&finished_list)) at scheduler.c:154 and 192 can *)
(* not fail: whoever finds an empty process or a free slot finds a thread  *)
(* control block too, because those only come back together.               *)
FreeThreadForFreeSlot ==
  (\E a \in AddressSpaces : slotsUsed[a] # Slots) => lists.finished # <<>>

(* A live thread's stack is registered under its own slot of its process,  *)
(* across every exit and reuse of the slot and of the control block.       *)
LiveStackRegistered ==
  \A t \in UserThreads : Live(t) => stackHandles[pid[t]][pidSlot[t]] = t

(* While a user thread runs, the data section mapped is that of its        *)
(* process, and nothing is left of the entries the idle thread's switch    *)
(* reads from behind the end of process_stack_handles.  Before the first   *)
(* switch the table is still the one the kernel booted with.               *)
MappingMatchesRunning ==
  /\ lists.running # <<>> => l1.section = pid[RunningThread] + 1
  /\ UserThreadRuns => \A s \in Slots : l1.stacks[s] # OutOfBounds

(* A switch that changes the process maps the stack of the very thread it  *)
(* switches to, whichever thread owned that slot of the process before.    *)
SwitchMapsStack ==
  [][LET next == Head(lists'.running)
     IN  l1' # l1 /\ next # IdleThread => l1'.stacks[pidSlot[next]] = next]_vars

(* The ready list is a queue: threads in it keep their order, newcomers    *)
(* stand behind them, and the thread that is switched to while others wait *)
(* is the one that stood first.                                            *)
StandsBefore(s, a, b) == \E i, j \in DOMAIN s : i < j /\ s[i] = a /\ s[j] = b

ReadyListIsQueue ==
  [][LET old == lists.ready
         new == lists'.ready
     IN  /\ \A a \in ToSet(old) \cap ToSet(new), b \in ToSet(new) :
              StandsBefore(old, a, b) \/ (b \notin ToSet(old)) => StandsBefore(new, a, b)
         /\ old # <<>> /\ lists'.running # lists.running
              => Head(lists'.running) = Head(old)]_lists

(* A thread is blocked or finished by its own doing only: it is the one    *)
(* that was running.  What was blocked comes back through the ready list.  *)
BlocksItself ==
  [][\A t \in UserThreads, l \in {"input", "stall", "finished"} :
       t \in ToSet(lists'[l]) \ ToSet(lists[l]) => lists.running = <<t>>]_lists

(* The lives of the user threads, seen through the lists they are in, are  *)
(* those ThreadLifecycle promises: no handler, whatever it moves in one    *)
(* go, does more or less to a thread than one of its steps.                *)
Homes == [t \in UserThreads |-> IF Live(t) THEN <<pid[t], pidSlot[t]>> ELSE <<>>]

Life == INSTANCE ThreadLifecycle WITH
          Threads <- UserThreads,
          Processes <- AddressSpaces,
          Capacity <- UART_INPUT_BUFFER_SIZE,
          ready <- ToSet(lists.ready),
          running <- ToSet(lists.running) \ {IdleThread},
          stalling <- ToSet(lists.stall),
          reading <- lists.input,
          home <- Homes

ImplementsLifecycle == Life!Spec

(* No VERIFY of the scheduler ever fails: a finished thread is there when  *)
(* one is created (154, 192), no thread is met twice (269), the stall list *)
(* is sorted (283).                                                        *)
NoPanic == ~halted

(* Every ready thread gets to run, whatever the others do. *)
ReadyThreadRuns ==
  \A t \in UserThreads : t \in ToSet(lists.ready) ~> t \in ToSet(lists.running)

(* A reader and an unread character do not wait for each other: a reader   *)
(* that comes after its character is still served.                         *)
ReadersServed ==
  (lists.input # <<>> /\ unread > 0) ~> (lists.input = <<>> \/ unread = 0)

-----------------------------------------------------------------------------
(* What the repository says of the scheduler and its code does not do.     *)

(* README.md on create_thread: the new thread runs func with args.  Both   *)
(* need its stack, where args has been copied: the running thread's slot   *)
(* shows its own stack.                                                    *)
RunningStackMapped ==
  UserThreadRuns => l1.stacks[pidSlot[RunningThread]] = RunningThread
=============================================================================
