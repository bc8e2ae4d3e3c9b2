------------------------- MODULE ProcessMemoryProofs -------------------------
(***************************************************************************)
(* Proofs about the memory of the processes: every process finds its own   *)
(* data and its first thread its own arguments, for every number of        *)
(* processes, slots and threads, and whatever they do.                     *)
(***************************************************************************)
EXTENDS ProcessMemory, SwitchProofs

-----------------------------------------------------------------------------
(* Part 1: the data of the processes.                                      *)

(* The inductive invariant: the scheduler's, which says that the section   *)
(* mapped is that of the running thread's process; and that each copy of   *)
(* the data holds what its process wrote, also while it does not run.  A   *)
(* new copy is as linked because no process has ever had section 0.        *)
DataStaysLinked == data[0] = Linked

CopiesKept ==
  /\ data \in [0 .. ADDRESS_SPACE_COUNT -> AddressSpaces \cup {Linked}]
  /\ dataOf \in [AddressSpaces -> AddressSpaces \cup {Linked}]
  /\ DataStaysLinked
  /\ \A a \in AddressSpaces : data[a + 1] = dataOf[a]

MemoryInv == IInv /\ CopiesKept

(* The copy of a process is none of the kernel's and no other process's.   *)
LEMMA CopyOfProcess ==
  ASSUME NEW a \in AddressSpaces
  PROVE  /\ a \in Nat /\ a + 1 \in 0 .. ADDRESS_SPACE_COUNT /\ a + 1 # 0
         /\ \A b \in AddressSpaces : a + 1 = b + 1 => a = b
BY CapacityAssumption DEF AddressSpaces

(* A section that a user thread sees is the copy of its process.           *)
LEMMA SectionSeen ==
  ASSUME IInv, UserThreadRuns
  PROVE  pid[RunningThread] \in AddressSpaces /\ l1.section = pid[RunningThread] + 1
<1>1. Placed(lists) /\ lists.running # <<>> /\ RunningThread # IdleThread
  BY InvariantNow DEF UserThreadRuns
<1>2. RunningThread \in Threads
  BY <1>1, RunningNodes DEF RunningThread
<1>3. RunningThread \in UserThreads
  BY <1>1, <1>2, IdleIsNoUser
<1> QED BY <1>1, <1>2, <1>3, PidOfThread DEF IInv, MappingMatchesRunning

(* A process is written to, by itself: its copy and what it is to find     *)
(* change alike.                                                           *)
LEMMA CopyWritten ==
  ASSUME CopiesKept, NEW a \in AddressSpaces, NEW content \in AddressSpaces \cup {Linked},
         data' = [data EXCEPT ![a + 1] = content],
         dataOf' = [dataOf EXCEPT ![a] = content]
  PROVE  CopiesKept'
<1>1. /\ a + 1 \in 0 .. ADDRESS_SPACE_COUNT /\ a + 1 # 0
      /\ \A b \in AddressSpaces : b + 1 \in 0 .. ADDRESS_SPACE_COUNT
      /\ \A b \in AddressSpaces : b # a => b + 1 # a + 1
      /\ 0 \in 0 .. ADDRESS_SPACE_COUNT
  BY CopyOfProcess, CapacityAssumption
<1>2. /\ data' \in [0 .. ADDRESS_SPACE_COUNT -> AddressSpaces \cup {Linked}]
      /\ dataOf' \in [AddressSpaces -> AddressSpaces \cup {Linked}]
  BY DEF CopiesKept
<1>3. data'[0] = Linked
  BY <1>1 DEF CopiesKept, DataStaysLinked
<1>4. \A b \in AddressSpaces : data'[b + 1] = dataOf'[b]
  BY <1>1 DEF CopiesKept
<1> QED BY <1>2, <1>3, <1>4 DEF CopiesKept, DataStaysLinked

(* An empty process is found where one is looked for. *)
LEMMA EmptyAddressSpaceFound ==
  ASSUME EmptyAddressSpaces # {}
  PROVE  Min(EmptyAddressSpaces) \in AddressSpaces
<1>1. EmptyAddressSpaces \subseteq Nat /\ EmptyAddressSpaces \subseteq AddressSpaces
  BY CapacityAssumption DEF EmptyAddressSpaces, AddressSpaces
<1> QED BY <1>1, MinNat

(* Seen without the memory, a step is one of the scheduler's, or none.     *)
LEMMA SchedulerStep == [MemoryNext]_allVars => [Next]_vars
<1> SUFFICES ASSUME [MemoryNext]_allVars
             PROVE  [Next]_vars
  OBVIOUS
<1>1. CASE NewProcess \/ NewThread \/ EndThread
  BY <1>1 DEF NewProcess, NewThread, EndThread, Next
<1>2. CASE WriteData
  BY <1>2 DEF WriteData
<1>3. CASE Undisturbed
  BY <1>3 DEF Undisturbed, Next
<1>4. CASE UNCHANGED allVars
  BY <1>4 DEF allVars
<1> QED BY <1>1, <1>2, <1>3, <1>4 DEF MemoryNext

LEMMA CopiesKeptStep == MemoryInv /\ [MemoryNext]_allVars => CopiesKept'
<1> SUFFICES ASSUME MemoryInv, [MemoryNext]_allVars
             PROVE  CopiesKept'
  OBVIOUS
<1>1. CASE NewProcess /\ ~halted'
  <2> DEFINE a == Min(EmptyAddressSpaces)
  <2>1. /\ EmptyAddressSpaces # {}
        /\ data' = DataCopied(a)
        /\ dataOf' = [dataOf EXCEPT ![a] = Linked]
    BY <1>1 DEF NewProcess, CreateProcess
  <2>2. a \in AddressSpaces
    BY <2>1, EmptyAddressSpaceFound
  <2>3. data' = [data EXCEPT ![a + 1] = Linked]
    BY <2>1 DEF DataCopied, MemoryInv, CopiesKept, DataStaysLinked
  <2> HIDE DEF a
  <2> QED BY <2>1, <2>2, <2>3, CopyWritten DEF MemoryInv
<1>2. CASE NewProcess /\ halted'
  BY <1>2 DEF NewProcess, memoryVars, MemoryInv, CopiesKept, DataStaysLinked
<1>3. CASE WriteData
  <2> DEFINE p == pid[RunningThread]
  <2>1. p \in AddressSpaces /\ l1.section = p + 1
    BY <1>3, SectionSeen DEF WriteData, MemoryInv
  <2>2. /\ data' = [data EXCEPT ![p + 1] = p]
        /\ dataOf' = [dataOf EXCEPT ![p] = p]
    BY <1>3, <2>1 DEF WriteData
  <2> HIDE DEF p
  <2> QED BY <2>1, <2>2, CopyWritten DEF MemoryInv
<1>4. CASE NewThread \/ EndThread \/ Undisturbed \/ UNCHANGED allVars
  <2>1. UNCHANGED <<data, dataOf>>
    BY <1>4 DEF NewThread, EndThread, Undisturbed, allVars, memoryVars
  <2> QED BY <2>1 DEF MemoryInv, CopiesKept, DataStaysLinked
<1> QED BY <1>1, <1>2, <1>3, <1>4 DEF MemoryNext

(* The invariant holds in every state that can be reached.                 *)
THEOREM MemoryInductive == MemorySpec => []MemoryInv
<1>1. MemoryInit => MemoryInv
  <2> SUFFICES ASSUME MemoryInit
               PROVE  MemoryInv
    OBVIOUS
  <2>1. IInv
    BY InitInvariant DEF MemoryInit
  <2>2. /\ 0 \in 0 .. ADDRESS_SPACE_COUNT
        /\ \A a \in AddressSpaces : a + 1 \in 0 .. ADDRESS_SPACE_COUNT
    BY CopyOfProcess, CapacityAssumption
  <2>3. CopiesKept
    BY <2>2 DEF MemoryInit, CopiesKept, DataStaysLinked
  <2> QED BY <2>1, <2>3 DEF MemoryInv
<1>2. MemoryInv /\ [MemoryNext]_allVars => MemoryInv'
  BY SchedulerStep, StepInvariant, CopiesKeptStep DEF MemoryInv
<1> QED BY <1>1, <1>2, PTL DEF MemorySpec

(* A user thread finds the data of its process as the process left it, or  *)
(* as linked if nobody has written it since the process was created.       *)
THEOREM ProcessesKeepData == MemorySpec => []DataKept
<1>1. MemoryInv => DataKept
  <2> SUFFICES ASSUME MemoryInv, UserThreadRuns
               PROVE  data[l1.section] = dataOf[pid[RunningThread]]
    BY DEF DataKept
  <2> QED BY SectionSeen DEF MemoryInv, CopiesKept
<1> QED BY <1>1, MemoryInductive, PTL
-----------------------------------------------------------------------------
(* Part 2: the arguments of first threads.                                 *)

(* The table shows the stacks of all first threads of the process that     *)
(* runs, though it was written when the process was switched to: they were *)
(* created before that.                                                    *)
FirstMapped(threads, running, table) ==
  running # <<>> /\ Head(running) # IdleThread =>
    \A t \in threads : pid[t] = pid[Head(running)] => table.stacks[pidSlot[t]] = t

ArgumentsKept ==
  /\ stacks \in [UserThreads -> UserThreads \cup {Nothing}]
  /\ firstThreads \subseteq UserThreads
  /\ \A t \in firstThreads : Live(t) /\ stacks[t] = t
  /\ FirstMapped(firstThreads, lists.running, l1)

(* A switch keeps the table if the process stays the same, or fills it     *)
(* from what is registered, which is right for every live thread.          *)
LEMMA SwitchKeepsFirst ==
  ASSUME IInv, NEW ls, NEW type, Switch(ls, type), FirstMapped(firstThreads, ls.running, l1),
         firstThreads \subseteq UserThreads, \A t \in firstThreads : Live(t)
  PROVE  FirstMapped(firstThreads, lists'.running, l1')
<1> DEFINE next == NextThread(ls)
<1>1. CASE KeepsRunning(ls, type)
  BY <1>1 DEF Switch, RoundRobin, Mapping
<1>2. CASE ~KeepsRunning(ls, type)
  <2> DEFINE new == RoundRobin(ls, type)
  <2>1. Placed(new) /\ new.running = <<next>> /\ lists'.running = <<next>>
    BY <1>2, RoundRobinPlaced DEF Switch
  <2> HIDE DEF new
  <2>1a. new.running # <<>> /\ Head(new.running) = next
    BY <2>1
  <2>2. Head(lists'.running) = next /\ next \in Threads
    BY <2>1, <2>1a, RunningNodes
  <2>3. CASE ls.running # <<>> /\ pid[Head(ls.running)] = pid[next]
    <3>1. l1' = l1
      BY <2>3 DEF Switch, Mapping
    <3>2. Head(ls.running) \in Threads
      BY <2>3, RunningNodes DEF Switch
    <3>3. next # IdleThread => Head(ls.running) # IdleThread
      BY <2>2, <2>3, <3>2, PidOfThread DEF IInv
    <3> HIDE DEF next
    <3> QED BY <2>2, <2>3, <3>1, <3>3 DEF FirstMapped
  <2>4. CASE ~(ls.running # <<>> /\ pid[Head(ls.running)] = pid[next])
    <3>1. l1' = ProcessMapping(pid[next])
      BY <1>2, <2>4 DEF Switch, Mapping
    <3> HIDE DEF next
    <3> SUFFICES ASSUME next # IdleThread, NEW t \in firstThreads, pid[t] = pid[next]
                 PROVE  l1'.stacks[pidSlot[t]] = t
      BY <2>2 DEF FirstMapped
    <3>2. pid[next] \in AddressSpaces /\ pidSlot[t] \in Slots
      BY <2>2, IdleIsNoUser, PidOfThread DEF IInv, TypeOK
    <3>3. l1'.stacks[pidSlot[t]] = stackHandles[pid[t]][pidSlot[t]]
      BY <3>1, <3>2 DEF ProcessMapping
    <3> QED BY <3>3 DEF IInv, LiveStackRegistered
  <2> QED BY <2>3, <2>4
<1> QED BY <1>1, <1>2

(* What calls that give way, interrupts and the hardware do to the first   *)
(* threads: nothing.                                                       *)
LEMMA UndisturbedKeepsFirst ==
  ASSUME IInv, IInv', ArgumentsKept, Undisturbed
  PROVE  ArgumentsKept'
<1>1. UNCHANGED <<pid, pidSlot, spaces, stacks, firstThreads>>
  BY DEF Undisturbed, ReadCharacter, YieldThread, StallThread, IRQ, Tick, SystimerMatch,
         Keypress, procVars, memoryVars
<1>2. FirstMapped(firstThreads, lists'.running, l1')
  <2>1. CASE ReadCharacter \/ YieldThread \/ \E match \in Durations : StallThread(match)
    BY <2>1, CallSwitches, SwitchKeepsFirst DEF ArgumentsKept
  <2>2. CASE IRQ
    BY <2>2, InterruptSwitches, SwitchKeepsFirst DEF ArgumentsKept
  <2>3. CASE Tick \/ SystimerMatch \/ Keypress
    BY <2>3 DEF Tick, SystimerMatch, Keypress, ArgumentsKept
  <2> QED BY <2>1, <2>2, <2>3 DEF Undisturbed
<1>3. ASSUME NEW t \in firstThreads
      PROVE  Live(t)'
  <2>1. t \in UserThreads /\ Live(t)
    BY DEF ArgumentsKept
  <2>2. pid[t] \in AddressSpaces /\ t \in spaces[pid[t]]
    BY <2>1, LiveInSpace, PidOfThread, IdleIsNoUser DEF IInv
  <2>3. \A a \in AddressSpaces : \A u \in spaces'[a] : Live(u)'
    BY DEF IInv, SlotBookkeeping
  <2> QED BY <1>1, <2>2, <2>3
<1> QED BY <1>1, <1>2, <1>3 DEF ArgumentsKept, FirstMapped

(* The thread that ends is no first thread any more; the others live on.   *)
LEMMA EndThreadKeepsFirst ==
  ASSUME IInv, IInv', ArgumentsKept, EndThread
  PROVE  ArgumentsKept'
<1> DEFINE thread == RunningThread
<1>1. /\ ExitThread /\ UserThreadRuns
      /\ firstThreads' = firstThreads \ {thread}
      /\ UNCHANGED <<pid, pidSlot, stacks>>
      /\ spaces' = [spaces EXCEPT ![pid[thread]] = @ \ {thread}]
  BY DEF EndThread, ExitThread, Calling
<1>2. FirstMapped(firstThreads, lists'.running, l1')
  <2>1. Switch(Cleaned(lists), "normal") /\ Cleaned(lists).running = <<>>
    BY <1>1, ExitSwitches
  <2>2. FirstMapped(firstThreads, Cleaned(lists).running, l1)
    BY <2>1 DEF FirstMapped
  <2> QED BY <2>1, <2>2, SwitchKeepsFirst DEF ArgumentsKept
<1> HIDE DEF thread
<1>3. ASSUME NEW t \in firstThreads'
      PROVE  Live(t)'
  <2>1. t \in UserThreads /\ Live(t) /\ t # thread
    BY <1>1 DEF ArgumentsKept
  <2>2. pid[t] \in AddressSpaces /\ t \in spaces[pid[t]]
    BY <2>1, LiveInSpace, PidOfThread, IdleIsNoUser DEF IInv
  <2>3. t \in spaces'[pid[t]]
    BY <1>1, <2>1, <2>2 DEF IInv, TypeOK
  <2>4. \A a \in AddressSpaces : \A u \in spaces'[a] : Live(u)'
    BY DEF IInv, SlotBookkeeping
  <2> QED BY <2>2, <2>3, <2>4
<1> QED BY <1>1, <1>2, <1>3 DEF ArgumentsKept, FirstMapped

(* A new thread changes nothing of the threads that were live, and as the  *)
(* first thread of a process it is in another one than the thread running. *)
LEMMA CreationKeepsFirst ==
  ASSUME IInv, ArgumentsKept, NEW a \in AddressSpaces, NEW slot \in Slots,
         UserThreadRuns, CreateIn(a, slot), lists.finished # <<>>,
         stacks' = ArgumentsCopied(Head(lists.finished), slot),
         \/ firstThreads' = firstThreads
         \/ spaces[a] = {} /\ firstThreads' = firstThreads \cup {Head(lists.finished)}
  PROVE  ArgumentsKept'
<1> DEFINE thread == Head(lists.finished)
<1>1. /\ pid' = [pid EXCEPT ![thread] = a]
      /\ pidSlot' = [pidSlot EXCEPT ![thread] = slot]
      /\ l1' = l1
      /\ stacks' = [stacks EXCEPT ![thread] = thread]
  BY DEF CreateIn, Assign, ArgumentsCopied
<1>2. lists' = [lists EXCEPT !.finished = Tail(@), !.ready = AppendLast(@, thread)]
  BY DEF CreateIn, Assign
<1>3. /\ lists'.running = lists.running
      /\ thread \in UserThreads /\ thread \in ToSet(lists.finished)
      /\ ToSet(lists'.finished) = ToSet(lists.finished) \ {thread}
  BY <1>2, InvariantNow, AssignedPlaced
<1>4. \/ firstThreads' = firstThreads
      \/ spaces[a] = {} /\ firstThreads' = firstThreads \cup {thread}
  OBVIOUS
<1> HIDE DEF thread
<1>5. ~Live(thread)
  BY <1>3 DEF Live
<1>6. \A t : Live(t)' <=> Live(t) \/ t = thread
  BY <1>3 DEF Live
<1>7. \A t \in UserThreads :
        /\ pid'[t] = IF t = thread THEN a ELSE pid[t]
        /\ pidSlot'[t] = IF t = thread THEN slot ELSE pidSlot[t]
  BY <1>1, IdleIsNoUser DEF IInv, TypeOK
<1>8. /\ stacks' \in [UserThreads -> UserThreads \cup {Nothing}]
      /\ firstThreads' \subseteq UserThreads
      /\ \A t \in firstThreads' : Live(t)' /\ stacks'[t] = t
  BY <1>1, <1>3, <1>4, <1>6 DEF ArgumentsKept
<1>9. FirstMapped(firstThreads, lists.running, l1)'
  <2> DEFINE running == RunningThread
  <2>1. /\ running \in UserThreads /\ Live(running)
        /\ running = Head(lists.running) /\ running # IdleThread /\ lists.running # <<>>
    BY RunningIsLive DEF UserThreadRuns, RunningThread
  <2> HIDE DEF running
  <2>2. pid'[running] = pid[running]
    BY <1>5, <1>7, <2>1
  <2>3. SUFFICES ASSUME NEW t \in firstThreads', pid'[t] = pid'[running]
                 PROVE  l1'.stacks[pidSlot'[t]] = t
    BY <1>3, <2>1 DEF FirstMapped
  <2>4. t # thread
    <3>1. running \in spaces[pid[running]]
      BY <2>1, LiveInSpace
    <3>2. thread \in firstThreads' => spaces[a] = {}
      BY <1>4, <1>5 DEF ArgumentsKept
    <3> QED BY <1>3, <1>7, <2>2, <2>3, <3>1, <3>2
  <2>5. t \in firstThreads /\ t \in UserThreads
    BY <1>4, <2>4 DEF ArgumentsKept
  <2> QED BY <1>1, <1>7, <2>1, <2>2, <2>3, <2>4, <2>5 DEF ArgumentsKept, FirstMapped
<1> QED BY <1>8, <1>9 DEF ArgumentsKept

LEMMA ArgumentsStep == IInv /\ IInv' /\ ArgumentsKept /\ [MemoryNext]_allVars => ArgumentsKept'
<1> SUFFICES ASSUME IInv, IInv', ArgumentsKept, [MemoryNext]_allVars
             PROVE  ArgumentsKept'
  OBVIOUS
<1>1. ASSUME NewProcess
      PROVE  ArgumentsKept'
  <2> DEFINE a == Min(EmptyAddressSpaces)
  <2>1. UserThreadRuns /\ a \in AddressSpaces /\ CreateIn(a, 0) /\ ~halted
    BY <1>1, EmptyAddressSpaceFound DEF NewProcess, CreateProcess, Calling
  <2>2. spaces[a] = {}
    <3>1. EmptyAddressSpaces # {} /\ EmptyAddressSpaces \subseteq Nat
      BY <1>1, CapacityAssumption DEF NewProcess, CreateProcess, EmptyAddressSpaces, AddressSpaces
    <3>2. a \in EmptyAddressSpaces
      BY <3>1, MinNat
    <3> QED BY <3>2 DEF EmptyAddressSpaces
  <2>3. 0 \in Slots
    BY CapacityAssumption DEF Slots
  <2> HIDE DEF a
  <2>4. CASE lists.finished = <<>>
    <3>1. lists' = lists /\ halted' /\ UNCHANGED procVars /\ l1' = l1
      BY <2>1, <2>4 DEF CreateIn, Panic
    <3>2. UNCHANGED memoryVars
      BY <1>1, <3>1 DEF NewProcess
    <3> QED BY <3>1, <3>2 DEF ArgumentsKept, FirstMapped, Live, memoryVars, procVars
  <2>5. CASE lists.finished # <<>>
    <3>1. ~halted'
      BY <2>1, <2>5 DEF CreateIn, Assign
    <3>2. /\ stacks' = ArgumentsCopied(Head(lists.finished), 0)
          /\ firstThreads' = firstThreads \cup {Head(lists.finished)}
      BY <1>1, <3>1 DEF NewProcess
    <3> QED BY <2>1, <2>2, <2>3, <2>5, <3>2, CreationKeepsFirst
  <2> QED BY <2>4, <2>5
<1>2. ASSUME NewThread
      PROVE  ArgumentsKept'
  <2> DEFINE a == pid[RunningThread]
             slot == Min(FreeSlots(a))
  <2>1. UserThreadRuns /\ CreateIn(a, slot) /\ ~halted /\ FreeSlots(a) # {}
    BY <1>2 DEF NewThread, CreateThread, Calling
  <2>2. a \in AddressSpaces
    BY <2>1, SectionSeen
  <2>3. slot \in Slots
    <3>1. FreeSlots(a) \subseteq Slots /\ FreeSlots(a) \subseteq Nat
      BY CapacityAssumption DEF FreeSlots, Slots
    <3> QED BY <2>1, <3>1, MinNat
  <2>4. firstThreads' = firstThreads
    BY <1>2 DEF NewThread
  <2>5. stacks' = IF halted' THEN stacks ELSE ArgumentsCopied(Head(lists.finished), slot)
    BY <1>2 DEF NewThread
  <2> HIDE DEF a, slot
  <2>6. CASE lists.finished = <<>>
    <3>1. lists' = lists /\ halted' /\ UNCHANGED procVars /\ l1' = l1
      BY <2>1, <2>6 DEF CreateIn, Panic
    <3> QED BY <2>4, <2>5, <3>1 DEF ArgumentsKept, FirstMapped, Live, procVars
  <2>7. CASE lists.finished # <<>>
    <3>1. ~halted'
      BY <2>1, <2>7 DEF CreateIn, Assign
    <3> QED BY <2>1, <2>2, <2>3, <2>4, <2>5, <2>7, <3>1, CreationKeepsFirst
  <2> QED BY <2>6, <2>7
<1>3. CASE EndThread
  BY <1>3, EndThreadKeepsFirst
<1>4. CASE Undisturbed
  BY <1>4, UndisturbedKeepsFirst
<1>5. CASE WriteData \/ UNCHANGED allVars
  <2>1. UNCHANGED <<lists, pid, pidSlot, l1, stacks, firstThreads>>
    BY <1>5 DEF WriteData, allVars, vars, procVars, memoryVars
  <2> QED BY <2>1 DEF ArgumentsKept, FirstMapped, Live
<1> QED BY <1>1, <1>2, <1>3, <1>4, <1>5 DEF MemoryNext

(* While the first thread of a process runs, its slot shows its own stack  *)
(* with its own arguments, whoever had slot, control block or process      *)
(* number before, and whoever else ran since the process was mapped.       *)
THEOREM FirstThreadsFindArguments == MemorySpec => []ArgumentsFound
<1>1. MemoryInit => ArgumentsKept
  BY DEF MemoryInit, Init, ArgumentsKept, FirstMapped
<1>2. MemorySpec => []IInv
  <2>1. MemoryInv => IInv
    BY DEF MemoryInv
  <2> QED BY <2>1, MemoryInductive, PTL
<1>3. ArgumentsKept => ArgumentsFound
  BY DEF ArgumentsKept, ArgumentsFound, FirstMapped, UserThreadRuns, RunningThread
<1> QED BY <1>1, <1>2, <1>3, ArgumentsStep, PTL DEF MemorySpec
=============================================================================
