---------------------------- MODULE DemoProgram ----------------------------
(***************************************************************************)
(* The program the kernel boots (user/main.c): thread 0 makes a process of *)
(* every character typed, and the two threads of a process count together, *)
(* print and stall until their common counter has reached its limit.       *)
(*                                                                         *)
(* Threads of user mode give way to each other at any of their steps: that *)
(* is every way the scheduler may run them.  They make no step while a     *)
(* handler runs.  A thread that stalls is woken by the stall timer.        *)
(***************************************************************************)
EXTENDS StallTimer, FiniteSets

CONSTANTS
  Processes,              \* address spaces besides the one of thread 0
  Workers,                \* the threads process_main creates
  INITIAL_COUNTER, GLOBAL_COUNTER_LIMIT,
  SLEEP_TIME,             \* SLEEP_TIME_MS in ticks
  MaxKeys                 \* bound: characters typed

ASSUME DemoAssumption ==
  /\ Processes \subseteq Nat        \* numbered: the first free one is taken
  /\ Threads = Processes \X Workers
  /\ SLEEP_TIME \in Durations
  /\ INITIAL_COUNTER \in Nat /\ GLOBAL_COUNTER_LIMIT \in Nat
  /\ MaxKeys \in Nat

None == 0   \* no character

VARIABLES
  keys,           \* characters typed so far
  input,          \* what thread 0 has read and not yet made a process of
  step,           \* where each thread is
  starting,       \* the processes whose process_main has not run yet
  argument,       \* what was copied onto the stack of process_main
  typed,          \* the character the process was made for
  global_ch, global_counter,   \* of each process
  loaded          \* the counter as a thread read it to add one

userVars == <<keys, input, step, starting, argument, typed, global_ch,
              global_counter, loaded>>
vars == <<timerVars, userVars>>

DemoInit ==
  /\ Init
  /\ keys = 0
  /\ input = None
  /\ step = [t \in Threads |-> "ended"]
  /\ starting = {}
  /\ argument = [p \in Processes |-> None]
  /\ typed = [p \in Processes |-> None]
  /\ global_ch = [p \in Processes |-> None]
  /\ global_counter = [p \in Processes |-> INITIAL_COUNTER]
  /\ loaded = [t \in Threads |-> INITIAL_COUNTER]

-----------------------------------------------------------------------------
Living(p) == p \in starting \/ \E w \in Workers : step[<<p, w>>] # "ended"

InUserMode == handler = "none"

(* sys$read_character returns with a key: the first one, the second ...    *)
(* no two of them are the same character.                                  *)
ReadCharacter ==
  /\ InUserMode
  /\ input = None
  /\ keys < MaxKeys
  /\ keys' = keys + 1
  /\ input' = keys'
  /\ UNCHANGED <<timerVars, step, starting, argument, typed, global_ch, global_counter, loaded>>

(* sys$create_process: the data section is made anew and the character is  *)
(* copied.  Without a free address space thread 0 prints a warning and     *)
(* reads on.                                                               *)
CreateProcess ==
  LET free == {p \in Processes : ~Living(p)}
  IN  /\ InUserMode
      /\ input # None
      /\ input' = None
      /\ IF free = {}
         THEN UNCHANGED <<starting, argument, typed, global_ch, global_counter>>
         ELSE LET p == Min(free)
              IN  /\ starting' = starting \cup {p}
                  /\ argument' = [argument EXCEPT ![p] = input]
                  /\ typed' = [typed EXCEPT ![p] = input]
                  /\ global_ch' = [global_ch EXCEPT ![p] = None]
                  /\ global_counter' = [global_counter EXCEPT ![p] = INITIAL_COUNTER]
      /\ UNCHANGED <<timerVars, keys, step, loaded>>

(* Mutant of Argument: the pointer is passed on, not what it points to. *)
ArgumentOfCaller(p) == input

(* Where args leads process_main to. *)
Argument(p) == argument[p]

(* process_main, which ends within the slice of TIMER_INTERVAL it is       *)
(* given: both threads are created and it exits before another thread runs.*)
(* A switch in between would run a thread whose stack is not mapped yet    *)
(* (RunningStackMapped of Scheduler).                                      *)
ProcessMain(p) ==
  /\ InUserMode
  /\ p \in starting
  /\ starting' = starting \ {p}
  /\ global_ch' = [global_ch EXCEPT ![p] = Argument(p)]
  /\ step' = [t \in Threads |-> IF t[1] = p THEN "test" ELSE step[t]]
  /\ UNCHANGED <<timerVars, keys, input, argument, typed, global_counter, loaded>>

-----------------------------------------------------------------------------
(* thread_main. *)

At(t, place) == InUserMode /\ t \notin ToSet(stalled) /\ step[t] = place

GoTo(t, place) == step' = [step EXCEPT ![t] = place]

(* Mutant of BelowLimit: one round more. *)
NotAboveLimit(t) == global_counter[t[1]] <= GLOBAL_COUNTER_LIMIT

BelowLimit(t) == global_counter[t[1]] < GLOBAL_COUNTER_LIMIT

(* The test of the loop; thread_main returns to sys$exit_thread. *)
Test(t) ==
  /\ At(t, "test")
  /\ GoTo(t, IF BelowLimit(t) THEN "load" ELSE "ended")
  /\ UNCHANGED <<timerVars, keys, input, starting, argument, typed, global_ch,
                 global_counter, loaded>>

(* global_counter++ reads the counter ... *)
Load(t) ==
  /\ At(t, "load")
  /\ GoTo(t, "store")
  /\ loaded' = [loaded EXCEPT ![t] = global_counter[t[1]]]
  /\ UNCHANGED <<timerVars, keys, input, starting, argument, typed, global_ch, global_counter>>

(* ... and writes it.  Another thread may have written it in between. *)
Store(t) ==
  /\ At(t, "store")
  /\ GoTo(t, "print")
  /\ global_counter' = [global_counter EXCEPT ![t[1]] = loaded[t] + 1]
  /\ loaded' = [loaded EXCEPT ![t] = INITIAL_COUNTER]
  /\ UNCHANGED <<timerVars, keys, input, starting, argument, typed, global_ch>>

(* printf, then sys$stall_thread; the loop goes on when the thread wakes.  *)
PrintAndStall(t) ==
  /\ At(t, "print")
  /\ Stall(t, SLEEP_TIME)
  /\ GoTo(t, "test")
  /\ UNCHANGED <<keys, input, starting, argument, typed, global_ch, global_counter, loaded>>

Work(t) == Test(t) \/ Load(t) \/ Store(t) \/ PrintAndStall(t)

Timer == (StallTimerMatch \/ Handling \/ Tick) /\ UNCHANGED userVars

DemoNext ==
  \/ ReadCharacter
  \/ CreateProcess
  \/ \E p \in Processes : ProcessMain(p)
  \/ \E t \in Threads : Work(t)
  \/ Timer

(***************************************************************************)
(* Every thread that is ready gets to run (ReadyThreadRuns of Scheduler)   *)
(* and the timer goes on.  Nobody has to type.                             *)
(***************************************************************************)
DemoFairness ==
  /\ WF_vars(CreateProcess)
  /\ \A p \in Processes : WF_vars(ProcessMain(p))
  /\ \A t \in Threads : WF_vars(Work(t))
  /\ WF_vars(Tick /\ UNCHANGED userVars)
  /\ WF_vars(StallTimerMatch /\ UNCHANGED userVars)
  /\ WF_vars(Handling /\ UNCHANGED userVars)

DemoSpec == DemoInit /\ [][DemoNext]_vars /\ DemoFairness

-----------------------------------------------------------------------------
(* The threads of a process overtake each other between test, reading and  *)
(* writing, so the counter passes its limit, but by less than there are    *)
(* threads.  This is so of the two threads process_main creates; a third   *)
(* could set the counter back under two that have passed the test.         *)
CounterNearLimit ==
  \A p \in Processes :
    global_counter[p] < Max({GLOBAL_COUNTER_LIMIT, INITIAL_COUNTER + 1}) + Cardinality(Workers)

(* What a thread prints is the character its process was made for, though  *)
(* thread 0 has long been reading others and the address space has been    *)
(* used for other processes.                                               *)
OwnCharacter ==
  \A t \in Threads : step[t] # "ended" => global_ch[t[1]] = typed[t[1]]

(* Every process ends, although a thread that lost a race may set the      *)
(* counter back: its address space is free for the next character.         *)
ProcessesEnd == \A p \in Processes : Living(p) ~> ~Living(p)
=============================================================================
