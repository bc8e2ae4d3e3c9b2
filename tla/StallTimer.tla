----------------------------- MODULE StallTimer -----------------------------
(***************************************************************************)
(* Stalling a thread, register access by register access                   *)
(* (arch/bsp/systimer.c and the functions of kernel/scheduler.c that call  *)
(* it).  In Scheduler a handler is one step and the clock stands still in  *)
(* it.  Here the clock runs on between the reading of CLO and the writing  *)
(* of C3, which is what TOCTOU_PAD is for, and between all other accesses. *)
(*                                                                         *)
(* A thread that does not stall is not looked at, and what is left in its  *)
(* stall_until is forgotten: the next stall writes it before it is read.   *)
(***************************************************************************)
EXTENDS KernelList, Integers

CONSTANTS
  Threads,
  ClockRange,   \* the clock counts modulo ClockRange (2^32)
  TOCTOU_PAD,   \* how close a timer interrupt may be requested
  MaxDelay,     \* ticks between the reading of CLO and the writing of C3
  Durations,    \* bound: the stall times, in ticks
  Latency       \* bound: how long after its moment a thread may still stall

ASSUME StallTimerAssumption ==
  /\ ClockRange \in Nat \ {0}
  /\ TOCTOU_PAD \in Nat
  /\ MaxDelay \in 0 .. TOCTOU_PAD
  /\ Durations \subseteq Nat \ {0}
  /\ Latency \in Nat

VARIABLES
  clo, c3, m3,   \* the clock, the compare register, its pending match
  stallUntil,    \* of each thread control block while it stalls
  stalled,       \* the stall list, first thread first
  handler,       \* the register access the kernel is about to make, or "none"
  unblocks,      \* it is the loop over the overdue threads that makes it
  delay,         \* ticks since CLO was read, before C3 is written
  left           \* time each thread has still to stall; negative when overdue

clockVars == <<clo, c3, m3>>
timerVars == <<clockVars, stallUntil, stalled, handler, unblocks, delay, left>>

Init ==
  /\ clo = 0 /\ c3 = 0 /\ m3 = FALSE
  /\ stallUntil = [t \in Threads |-> 0]
  /\ stalled = <<>>
  /\ handler = "none" /\ unblocks = FALSE
  /\ delay = 0
  /\ left = [t \in Threads |-> 0]

-----------------------------------------------------------------------------
Sorted(s) == \A i \in 1 .. Len(s) - 1 : stallUntil[s[i]] <= stallUntil[s[i + 1]]

(* stall_until, from the first reading of the clock. *)
Moment(match) == (clo + match) % ClockRange

(* scheduler_ignore_thread_until_timer_match up to its first access to the *)
(* stall timer.  The switch before it halts the kernel, here: no step      *)
(* follows, unless the list is sorted.                                     *)
Stall(thread, match) ==
  /\ handler = "none"
  /\ thread \notin ToSet(stalled)
  /\ Sorted(stalled)
  /\ stallUntil' = [stallUntil EXCEPT ![thread] = Moment(match)]
  /\ left' = [left EXCEPT ![thread] = match]
  /\ stalled' = InsertSorted(stalled, thread, stallUntil')
  /\ handler' = IF Head(stalled') = thread THEN "clear" ELSE "none"
  /\ unblocks' = FALSE
  /\ UNCHANGED <<clockVars, delay>>

(* irq_interrupt_handler sees the stall timer's match pending. *)
StallTimerMatch ==
  /\ handler = "none"
  /\ m3
  /\ handler' = "clear"
  /\ unblocks' = TRUE
  /\ UNCHANGED <<clockVars, stallUntil, stalled, delay, left>>

(* CS = M3.  With nobody left to wait for that is all. *)
ClearPending ==
  /\ handler = "clear"
  /\ m3' = FALSE
  /\ handler' = IF stalled = <<>> THEN "none" ELSE "read"
  /\ unblocks' = (unblocks /\ stalled # <<>>)
  /\ UNCHANGED <<clo, c3, stallUntil, stalled, delay, left>>

(* Mutant of Armable: the handler is taken to need no time. *)
ArmableUnpadded(hz) == clo < hz

(* Mutant of Armable: a pad more than is needed. *)
ArmableEarlier(hz) == (clo + 2 * TOCTOU_PAD + 1) % ClockRange < hz

(* The comparison in stalltimer_interrupt_at, in 32-bit arithmetic. *)
Armable(hz) == (clo + TOCTOU_PAD) % ClockRange < hz

(* CLO lies far enough before the moment of the first thread. *)
ReadTimely ==
  /\ handler = "read"
  /\ Armable(stallUntil[Head(stalled)])
  /\ handler' = "write"
  /\ UNCHANGED <<clockVars, stallUntil, stalled, unblocks, delay, left>>

(* Mutant of ReadOverdue: an if in place of the loop. *)
ReadOverdueOnce ==
  /\ handler = "read"
  /\ ~Armable(stallUntil[Head(stalled)])
  /\ handler' = IF unblocks THEN "none" ELSE "clear"
  /\ unblocks' = ~unblocks
  /\ IF unblocks
     THEN /\ stalled' = Tail(stalled)
          /\ stallUntil' = [stallUntil EXCEPT ![Head(stalled)] = 0]
          /\ left' = [left EXCEPT ![Head(stalled)] = 0]
     ELSE UNCHANGED <<stalled, stallUntil, left>>
  /\ UNCHANGED <<clockVars, delay>>

(* Too late for an interrupt.  The loop moves the first thread to the      *)
(* ready list and tries the next one; a failure outside the loop enters    *)
(* it, and the same thread is tried once more.                             *)
ReadOverdue ==
  /\ handler = "read"
  /\ ~Armable(stallUntil[Head(stalled)])
  /\ handler' = "clear"
  /\ unblocks' = TRUE
  /\ IF unblocks
     THEN /\ stalled' = Tail(stalled)
          /\ stallUntil' = [stallUntil EXCEPT ![Head(stalled)] = 0]
          /\ left' = [left EXCEPT ![Head(stalled)] = 0]
     ELSE UNCHANGED <<stalled, stallUntil, left>>
  /\ UNCHANGED <<clockVars, delay>>

(* C3 = hz. *)
WriteCompare ==
  /\ handler = "write"
  /\ c3' = stallUntil[Head(stalled)]
  /\ handler' = "none"
  /\ unblocks' = FALSE
  /\ delay' = 0
  /\ UNCHANGED <<clo, m3, stallUntil, stalled, left>>

(* The hardware: the clock ticks, and matches when it reaches C3.  A       *)
(* handler on its way from CLO to C3 sees at most MaxDelay ticks.  While   *)
(* nobody stalls the clock is not followed, and no further than Latency    *)
(* past the moment of a thread that still does.                            *)
Tick ==
  /\ stalled # <<>>
  /\ \A t \in ToSet(stalled) : left[t] > -Latency
  /\ handler = "write" => delay < MaxDelay
  /\ clo' = (clo + 1) % ClockRange
  /\ m3' = (m3 \/ clo' = c3)
  /\ left' = [t \in Threads |-> IF t \in ToSet(stalled) THEN left[t] - 1 ELSE left[t]]
  /\ delay' = IF handler = "write" THEN delay + 1 ELSE 0
  /\ UNCHANGED <<c3, stallUntil, stalled, handler, unblocks>>

Handling == ClearPending \/ ReadTimely \/ ReadOverdue \/ WriteCompare

Next ==
  \/ \E t \in Threads, match \in Durations : Stall(t, match)
  \/ StallTimerMatch
  \/ Handling
  \/ Tick

Spec == Init /\ [][Next]_timerVars

-----------------------------------------------------------------------------
(* As long as a thread stalls and no handler runs, the stall timer's       *)
(* interrupt is pending or its compare register lies ahead of the clock,   *)
(* at the moment of the first thread: however many ticks fell between the  *)
(* comparison and the writing of C3, no wakeup is lost.                    *)
StallTimerArmed ==
  handler = "none" /\ stalled # <<>> =>
    m3 \/ (clo < c3 /\ c3 = stallUntil[Head(stalled)])

(* The stalled threads stand in the order in which their times run out, as *)
(* the clock on the wall has it: who waits behind another is not due       *)
(* before him.  VERIFY at scheduler.c:283 compares the moments instead.    *)
SleepersInOrder ==
  \A i, j \in DOMAIN stalled : i < j => left[stalled[i]] <= left[stalled[j]]

(* A thread stalls for the time it asked for, but for the last TOCTOU_PAD  *)
(* ticks of it.  README.md:89: the calling thread is moved to the waiting  *)
(* list for ms milliseconds.                                               *)
NoEarlyWakeup ==
  [][\A t \in ToSet(stalled) \ ToSet(stalled') : left[t] <= TOCTOU_PAD]_timerVars
=============================================================================
