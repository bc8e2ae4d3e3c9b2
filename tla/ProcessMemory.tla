---------------------------- MODULE ProcessMemory ----------------------------
(***************************************************************************)
(* What is in the memory of the processes: the data section every process  *)
(* has its own copy of, and the stacks of its threads, on which they find  *)
(* their arguments.  The kernel fills both through mappings of its own     *)
(* (MMU); user code reaches them through the entries the scheduler last    *)
(* wrote to the first level table.                                         *)
(*                                                                         *)
(* Data is named by the process that wrote it last, arguments by the       *)
(* thread they are for.                                                    *)
(***************************************************************************)
EXTENDS Scheduler

CONSTANTS
  Linked,           \* the data the program was linked with
  Nothing           \* no arguments have been copied

ASSUME MemoryAssumption ==
  /\ Linked \notin AddressSpaces
  /\ Nothing \notin UserThreads

VARIABLES
  data,          \* the sections from UBSS_UDATA_SECTION on: the pristine
                 \* data, then one copy for each process
  stacks,        \* for whom the arguments at the top of each stack are
  dataOf,        \* history: what each process is to find in its data
  firstThreads   \* history: the live threads a process was created with

memoryVars == <<data, stacks, dataOf, firstThreads>>
allVars == <<vars, memoryVars>>

(* The first process is created by the kernel, without arguments. *)
MemoryInit ==
  /\ Init
  /\ data = [section \in 0 .. ADDRESS_SPACE_COUNT |-> Linked]
  /\ stacks = [t \in UserThreads |-> Nothing]
  /\ dataOf = [a \in AddressSpaces |-> Linked]
  /\ firstThreads = {}

-----------------------------------------------------------------------------
(* Mutant of DataCopied: the copy goes to the section before. *)
DataCopiedBefore(a) == [data EXCEPT ![a] = data[0]]

(* scheduler_create_process copies the pristine data to the process's.     *)
DataCopied(a) == [data EXCEPT ![a + 1] = data[0]]

(* Mutant of ArgumentsCopied: the stack is looked for by slot, not by tid. *)
ArgumentsCopiedBySlot(thread, slot) == [stacks EXCEPT ![slot] = thread]

(* Both creations copy the arguments to the top of the new thread's stack, *)
(* through the kernel's mapping of all stacks, where it is found by tid.   *)
ArgumentsCopied(thread, slot) == [stacks EXCEPT ![thread] = thread]

NewProcess ==
  LET a == Min(EmptyAddressSpaces)
      thread == Head(lists.finished)
  IN  /\ CreateProcess
      /\ IF halted'
         THEN UNCHANGED memoryVars
         ELSE /\ data' = DataCopied(a)
              /\ stacks' = ArgumentsCopied(thread, 0)
              /\ dataOf' = [dataOf EXCEPT ![a] = Linked]
              /\ firstThreads' = firstThreads \cup {thread}

NewThread ==
  /\ CreateThread
  /\ IF halted'
     THEN UNCHANGED stacks
     ELSE stacks' = ArgumentsCopied(Head(lists.finished), Min(FreeSlots(pid[RunningThread])))
  /\ UNCHANGED <<data, dataOf, firstThreads>>

(* Nothing of what a thread leaves is cleared when it ends. *)
EndThread ==
  /\ ExitThread
  /\ firstThreads' = firstThreads \ {RunningThread}
  /\ UNCHANGED <<data, stacks, dataOf>>

(* User code writes the data of its process. *)
WriteData ==
  /\ ~halted /\ UserThreadRuns
  /\ data' = [data EXCEPT ![l1.section] = pid[RunningThread]]
  /\ dataOf' = [dataOf EXCEPT ![pid[RunningThread]] = pid[RunningThread]]
  /\ UNCHANGED <<vars, stacks, firstThreads>>

(* Nothing else the kernel and the hardware do reaches these memories.     *)
Undisturbed ==
  /\ \/ ReadCharacter
     \/ YieldThread
     \/ \E match \in Durations : StallThread(match)
     \/ IRQ
     \/ Tick
     \/ SystimerMatch
     \/ Keypress
  /\ UNCHANGED memoryVars

MemoryNext ==
  \/ NewProcess
  \/ NewThread
  \/ EndThread
  \/ WriteData
  \/ Undisturbed

MemorySpec == MemoryInit /\ [][MemoryNext]_allVars

-----------------------------------------------------------------------------
(* A process finds its data as it left it, whatever ran in between; a new  *)
(* one finds it as linked, though the same process number was used before. *)
DataKept == UserThreadRuns => data[l1.section] = dataOf[pid[RunningThread]]

(* The first thread of a process finds its own arguments on the stack that *)
(* its slot shows, whoever owned the slot, the control block and the stack *)
(* before, and whatever ran since the process was mapped.                  *)
ArgumentsFound ==
  UserThreadRuns /\ RunningThread \in firstThreads =>
    LET stack == l1.stacks[pidSlot[RunningThread]]
    IN  stack = RunningThread /\ stacks[stack] = RunningThread
=============================================================================
