---------------------------- MODULE SwitchProofs ----------------------------
(***************************************************************************)
(* Proofs of what a step of the scheduler may never do, for every number   *)
(* of threads, processes and slots: map a foreign stack to the slot of the *)
(* thread it switches to, block or end a thread that was not running, fail *)
(* a VERIFY of the scheduler but for the order of the stall list, or let a *)
(* thread overtake another in the ready list.  Last, that all its steps    *)
(* together are those of ThreadLifecycle.                                  *)
(***************************************************************************)
EXTENDS SchedulerProofs

-----------------------------------------------------------------------------
(* Part 1: the stack of the thread that is switched to.                    *)

(* A handler's switch: it works on the lists ls, which hold every thread,  *)
(* and its outcome is what runs and what is mapped after the step.         *)
Switch(ls, type) ==
  /\ Placed(ls)
  /\ ToSet(lists.finished) \subseteq ToSet(ls.finished)
  /\ type = "normal" \/ (ls.running # <<>> /\ Head(ls.running) # IdleThread)
  /\ l1' = Mapping(ls, type)
  /\ lists'.running = RoundRobin(ls, type).running

(* Calls that give way switch first and move the caller afterwards.        *)
LEMMA CallSwitches ==
  ASSUME IInv, ReadCharacter \/ YieldThread \/ \E match \in Durations : StallThread(match)
  PROVE  Switch(lists, "forced")
<1> DEFINE switched == RoundRobin(lists, "forced")
<1>1. UserThreadRuns /\ l1' = Mapping(lists, "forced")
  BY DEF ReadCharacter, YieldThread, StallThread, Calling
<1>2. /\ Placed(lists) /\ TypeOK
      /\ lists.running # <<>> /\ Head(lists.running) # IdleThread
  BY <1>1, InvariantNow DEF IInv, UserThreadRuns, RunningThread
<1>3. Placed(switched) /\ RunningThread \in ToSet(switched.ready)
  BY <1>1, ForcedSwitch
<1>4. lists'.running = switched.running
  <2>1. CASE ReadCharacter
    <3>1. lists' = IgnoreUntilInput(switched, RunningThread) \/ lists' = switched
      BY <2>1 DEF ReadCharacter, Panic
    <3> HIDE DEF switched
    <3> QED BY <1>3, <3>1, IgnoreUntilInputPlaced
  <2>2. CASE YieldThread
    BY <2>2 DEF YieldThread, Panic
  <2>3. CASE \E match \in Durations : StallThread(match)
    <3>1. PICK match \in Durations : StallThread(match)
      BY <2>3
    <3>2. IgnoreUntilMatch(switched, RunningThread, match) \/ lists' = switched
      BY <3>1 DEF StallThread, Panic
    <3>3. match \in Nat
      BY ClockAssumption
    <3> HIDE DEF switched
    <3> QED BY <1>2, <1>3, <3>2, <3>3, IgnoreUntilMatchPlaced
  <2> QED BY <2>1, <2>2, <2>3
<1> QED BY <1>1, <1>2, <1>4 DEF Switch

(* The thread that ends has left its list before the switch.               *)
LEMMA ExitSwitches ==
  ASSUME IInv, ExitThread
  PROVE  Switch(Cleaned(lists), "normal") /\ Cleaned(lists).running = <<>>
<1> DEFINE cleaned == Cleaned(lists)
<1>1. /\ UserThreadRuns
      /\ l1' = Mapping(cleaned, "normal") /\ lists' = RoundRobin(cleaned, "normal")
  BY DEF ExitThread, Calling, Panic
<1>2. /\ Placed(cleaned) /\ ToSet(lists.finished) \subseteq ToSet(cleaned.finished)
      /\ cleaned.running = <<>>
  BY <1>1, InvariantNow, CleanedPlaced DEF UserThreadRuns, RunningThread
<1> HIDE DEF cleaned
<1>3. Switch(cleaned, "normal")
  BY <1>1, <1>2 DEF Switch
<1> QED BY <1>2, <1>3 DEF cleaned

(* The interrupt wakes threads before and feeds readers after the switch,  *)
(* if it switches.                                                         *)
LEMMA InterruptSwitches ==
  ASSUME IInv, IRQ
  PROVE  \/ Switch(Woken, "normal") /\ Woken.running = lists.running
         \/ l1' = l1 /\ lists'.running = lists.running
<1>1. /\ l1' = IF m1 THEN Mapping(Woken, "normal") ELSE l1
      /\ lists' = Switched \/ lists' = FeedReaders(Switched, Received)
  BY DEF IRQ, Panic
<1>2. Placed(Woken) /\ Woken.finished = lists.finished /\ Woken.running = lists.running
  BY InvariantNow, UnblockOverduePlaced DEF Woken
<1>3. Switched = IF m1 THEN RoundRobin(Woken, "normal") ELSE Woken
  BY DEF Switched
<1>4. lists'.running = Switched.running
  <2>1. Switched \in Lists
    BY <1>2, <1>3, RoundRobinPlaced DEF Placed
  <2>2. FeedReaders(Switched, Received).running = Switched.running
    BY <2>1 DEF FeedReaders, Lists
  <2> QED BY <1>1, <2>2
<1>5. CASE m1
  BY <1>1, <1>2, <1>3, <1>4, <1>5 DEF Switch
<1>6. CASE ~m1
  BY <1>1, <1>2, <1>3, <1>4, <1>6
<1> QED BY <1>5, <1>6

StackMapped ==
  LET next == Head(lists'.running)
  IN  l1' # l1 /\ next # IdleThread => l1'.stacks[pidSlot[next]] = next

(* A switch that writes the table does so for a live thread, whose stack   *)
(* is the one registered under its slot.                                   *)
LEMMA SwitchMaps ==
  ASSUME IInv, NEW ls, NEW type, Switch(ls, type)
  PROVE  StackMapped
<1> DEFINE new == RoundRobin(ls, type)
           next == Head(new.running)
<1> SUFFICES ASSUME l1' # l1, next # IdleThread
             PROVE  l1'.stacks[pidSlot[next]] = next
  BY DEF StackMapped, Switch
<1>1. ~KeepsRunning(ls, type) /\ l1' = ProcessMapping(pid[NextThread(ls)])
  BY DEF Mapping, Switch
<1>2. /\ Placed(new) /\ new.running = <<NextThread(ls)>>
      /\ ToSet(new.finished) = ToSet(ls.finished)
  BY <1>1, RoundRobinPlaced DEF Switch
<1>3. new.running # <<>> /\ next = NextThread(ls)
  BY <1>2
<1> HIDE DEF new
<1>4. next \in Threads /\ next \in ToSet(new.running)
  BY <1>2, <1>3, RunningNodes
<1> HIDE DEF next
<1>5. next \in UserThreads /\ Live(next)
  <2>1. next \in UserThreads
    BY <1>4, IdleIsNoUser
  <2>2. next \notin ToSet(new.finished)
    BY <1>2, <1>4 DEF Placed, Apart
  <2> QED BY <1>2, <2>1, <2>2 DEF Live, Switch
<1>6. pid[next] \in AddressSpaces /\ pidSlot[next] \in Slots
  BY <1>4, <1>5, PidOfThread DEF IInv, TypeOK
<1>7. l1'.stacks[pidSlot[next]] = stackHandles[pid[next]][pidSlot[next]]
  BY <1>1, <1>3, <1>6 DEF ProcessMapping
<1> QED BY <1>5, <1>7 DEF IInv, LiveStackRegistered

LEMMA StepMaps == IInv /\ [Next]_vars => [StackMapped]_vars
<1> SUFFICES ASSUME IInv, Next
             PROVE  StackMapped
  OBVIOUS
<1>1. CASE CreateProcess \/ CreateThread
  BY <1>1 DEF CreateProcess, CreateThread, CreateIn, StackMapped
<1>2. CASE ReadCharacter \/ YieldThread \/ \E match \in Durations : StallThread(match)
  BY <1>2, CallSwitches, SwitchMaps
<1>3. CASE ExitThread
  BY <1>3, ExitSwitches, SwitchMaps
<1>4. CASE IRQ
  BY <1>4, InterruptSwitches, SwitchMaps DEF StackMapped
<1>5. CASE Tick \/ SystimerMatch \/ Keypress
  BY <1>5 DEF Tick, SystimerMatch, Keypress, StackMapped
<1> QED BY <1>1, <1>2, <1>3, <1>4, <1>5 DEF Next

(* Whenever the table is rewritten for a user thread, that thread's own    *)
(* stack is at its slot, whoever had the slot, the control block or the    *)
(* process number before.                                                  *)
THEOREM SwitchMapsOwnStack == Spec => SwitchMapsStack
<1>1. Spec => [][StackMapped]_vars
  BY Inductive, StepMaps, PTL DEF Spec
<1> QED BY <1>1 DEF SwitchMapsStack, StackMapped
-----------------------------------------------------------------------------
(* Part 2: who is blocked or finished.                                     *)

Blocking == {"input", "stall", "finished"}

BlockedByItself ==
  \A t \in UserThreads, l \in Blocking :
    t \in ToSet(lists'[l]) \ ToSet(lists[l]) => lists.running = <<t>>

(* What a handler works on holds nobody in these lists but who was there   *)
(* before, and the thread given.                                           *)
NobodyBut(thread, ls) ==
  \A l \in Blocking : ToSet(ls[l]) \subseteq ToSet(lists[l]) \cup {thread}

Nobody(ls) == \A l \in Blocking : ToSet(ls[l]) \subseteq ToSet(lists[l])

(* The running list is the running thread and nothing else.                *)
LEMMA RunningAlone ==
  ASSUME IInv, UserThreadRuns
  PROVE  lists.running = <<RunningThread>>
<1>1. lists.running # <<>>
  BY DEF UserThreadRuns
<1>2. lists.running \in Seq(Threads) /\ Len(lists.running) <= 1
  BY DEF IInv, TypeOK, ListPartition
<1>3. Len(lists.running) \in Nat \ {0}
  BY <1>1, <1>2, EmptySeq
<1>4. Len(lists.running) = 1
  <2>1. \A n \in Nat \ {0} : n <= 1 => n = 1
    OBVIOUS
  <2> QED BY <1>2, <1>3, <2>1, Zenon
<1> QED BY <1>2, <1>4 DEF RunningThread

LEMMA OnlyTheRunningThread ==
  ASSUME IInv, UserThreadRuns, NobodyBut(RunningThread, lists')
  PROVE  BlockedByItself
BY RunningAlone DEF NobodyBut, BlockedByItself

LEMMA NobodyBlocked ==
  ASSUME Nobody(lists')
  PROVE  BlockedByItself
BY DEF Nobody, BlockedByItself

(* Waking a part of the stall list leaves the rest of it, and blocks       *)
(* nobody.                                                                 *)
LEMMA UnblockOverdueRest ==
  ASSUME NEW ls, Placed(ls), NEW until
  PROVE  \E k \in 0 .. Len(ls.stall) :
           UnblockOverdue(ls, until).stall = SubSeq(ls.stall, k + 1, Len(ls.stall))
<1> DEFINE timely == {i \in DOMAIN ls.stall : Armable(until[ls.stall[i]])}
           ends == timely \cup {Len(ls.stall) + 1}
           last == Min(ends) - 1
<1>1. /\ ls \in Lists /\ ls.stall \in NodeLists(Threads)
      /\ Len(ls.stall) \in Nat /\ DOMAIN ls.stall = 1 .. Len(ls.stall)
  BY LenProperties DEF Placed, Lists, NodeLists
<1>2. ends \subseteq 1 .. Len(ls.stall) + 1 /\ ends \subseteq Nat /\ ends # {}
  BY <1>1
<1>3. UnblockOverdue(ls, until).stall = SubSeq(ls.stall, last + 1, Len(ls.stall))
  <2>1. \A front, rest : [ls EXCEPT !.ready = front, !.stall = rest].stall = rest
    BY <1>1 DEF Lists
  <2> QED BY <2>1 DEF UnblockOverdue
<1> HIDE DEF timely, ends
<1>4. Min(ends) \in ends
  BY <1>2, MinNat
<1>5. last \in 0 .. Len(ls.stall)
  <2>1. Min(ends) \in 1 .. Len(ls.stall) + 1
    BY <1>2, <1>4
  <2>2. \A e \in 1 .. Len(ls.stall) + 1 : e - 1 \in 0 .. Len(ls.stall)
    BY <1>1
  <2> QED BY <2>1, <2>2
<1> HIDE DEF last
<1> QED BY <1>3, <1>5

LEMMA UnblockOverdueFewer ==
  ASSUME NEW ls, Placed(ls), NEW until
  PROVE  ToSet(UnblockOverdue(ls, until).stall) \subseteq ToSet(ls.stall)
<1>1. ls.stall \in NodeLists(Threads)
  BY DEF Placed, Lists
<1>2. PICK k \in 0 .. Len(ls.stall) :
        UnblockOverdue(ls, until).stall = SubSeq(ls.stall, k + 1, Len(ls.stall))
  BY UnblockOverdueRest
<1> QED BY <1>1, <1>2, SplitNodes

(* Feeding readers neither. *)
LEMMA FeedReadersFewer ==
  ASSUME NEW ls, Placed(ls), NEW n \in Nat
  PROVE  /\ ToSet(FeedReaders(ls, n).input) \subseteq ToSet(ls.input)
         /\ FeedReaders(ls, n).stall = ls.stall
         /\ FeedReaders(ls, n).finished = ls.finished
<1> DEFINE ends == {n, Len(ls.input)}
           k == Min(ends)
<1>1. /\ ls \in Lists /\ ls.input \in NodeLists(Threads) /\ Len(ls.input) \in Nat
  BY LenProperties DEF Placed, Lists, NodeLists
<1>2. ends \subseteq Nat /\ ends # {}
  BY <1>1
<1>3. /\ FeedReaders(ls, n).input = SubSeq(ls.input, k + 1, Len(ls.input))
      /\ FeedReaders(ls, n).stall = ls.stall
      /\ FeedReaders(ls, n).finished = ls.finished
  <2>1. \A front, rest : LET new == [ls EXCEPT !.ready = front, !.input = rest]
                         IN  /\ new.input = rest
                             /\ new.stall = ls.stall /\ new.finished = ls.finished
    BY <1>1 DEF Lists
  <2> QED BY <2>1 DEF FeedReaders
<1> HIDE DEF ends
<1>4. Min(ends) \in ends /\ \A y \in ends : Min(ends) <= y
  BY <1>2, MinNat
<1>5. k \in 0 .. Len(ls.input)
  BY <1>1, <1>4 DEF ends
<1> HIDE DEF k
<1> QED BY <1>1, <1>3, <1>5, SplitNodes

LEMMA CallBlocks ==
  ASSUME IInv, ReadCharacter \/ YieldThread \/ \E match \in Durations : StallThread(match)
  PROVE  BlockedByItself
<1> DEFINE switched == RoundRobin(lists, "forced")
           thread == RunningThread
<1>1. UserThreadRuns
  BY DEF ReadCharacter, YieldThread, StallThread, Calling
<1>2. /\ Placed(lists) /\ lists.running # <<>> /\ Head(lists.running) # IdleThread
  BY <1>1, InvariantNow DEF UserThreadRuns, RunningThread
<1>3. /\ Placed(switched) /\ thread \in ToSet(switched.ready)
      /\ switched.input = lists.input /\ switched.stall = lists.stall
      /\ switched.finished = lists.finished
  BY <1>1, <1>2, ForcedSwitch, RoundRobinPlaced
<1>4. NobodyBut(thread, switched)
  BY <1>3 DEF NobodyBut, Blocking
<1>5. /\ switched \in Lists /\ thread \in Threads
      /\ switched.input \in NodeLists(Threads) /\ thread \notin ToSet(switched.input)
      /\ switched.stall \in NodeLists(Threads) /\ thread \notin ToSet(switched.stall)
  BY <1>3, NodesInSet DEF Placed, Lists, Apart
<1>6. CASE ReadCharacter
  <2>1. lists' = IgnoreUntilInput(switched, thread) \/ lists' = switched
    BY <1>6 DEF ReadCharacter, Panic
  <2> HIDE DEF switched, thread
  <2>2. LET blocked == IgnoreUntilInput(switched, thread)
        IN  /\ ToSet(blocked.input) = ToSet(switched.input) \cup {thread}
            /\ blocked.stall = switched.stall /\ blocked.finished = switched.finished
    <3>1. \A ready, input :
            LET new == [switched EXCEPT !.ready = ready, !.input = input]
            IN  new.input = input /\ new.stall = switched.stall
                /\ new.finished = switched.finished
      BY <1>5 DEF Lists
    <3>2. ToSet(AppendLast(switched.input, thread)) = ToSet(switched.input) \cup {thread}
      BY <1>5, AppendLastNodes
    <3> QED BY <3>1, <3>2 DEF IgnoreUntilInput
  <2>3. NobodyBut(thread, lists')
    BY <1>3, <1>4, <2>1, <2>2 DEF NobodyBut, Blocking
  <2> QED BY <1>1, <2>3, OnlyTheRunningThread DEF thread
<1>7. CASE YieldThread
  <2>1. lists' = switched
    BY <1>7 DEF YieldThread, Panic
  <2> QED BY <1>1, <1>4, <2>1, OnlyTheRunningThread
<1>8. CASE \E match \in Durations : StallThread(match)
  <2>1. PICK match \in Durations : StallThread(match)
    BY <1>8
  <2>2. IgnoreUntilMatch(switched, thread, match) \/ lists' = switched
    BY <2>1 DEF StallThread, Panic
  <2> HIDE DEF switched, thread
  <2> DEFINE until == [stallUntil EXCEPT ![thread] = (clo + match) % ClockRange]
             moved == [switched EXCEPT !.ready = RemoveNode(@, thread),
                                       !.stall = InsertSorted(@, thread, until)]
             woken == UnblockOverdue(moved, until)
  <2>3. lists' = woken \/ lists' = moved \/ lists' = switched
    BY <2>2 DEF IgnoreUntilMatch
  <2>4. Placed(moved)
    BY <1>3, StalledPlaced
  <2>5. NobodyBut(thread, moved)
    <3>1. \A ready, stall :
            LET new == [switched EXCEPT !.ready = ready, !.stall = stall]
            IN  new.stall = stall /\ new.input = switched.input
                /\ new.finished = switched.finished
      BY <1>5 DEF Lists
    <3>2. ToSet(InsertSorted(switched.stall, thread, until)) = ToSet(switched.stall) \cup {thread}
      BY <1>5, InsertSortedNodes
    <3>3. /\ ToSet(moved.stall) = ToSet(switched.stall) \cup {thread}
          /\ moved.input = switched.input /\ moved.finished = switched.finished
      BY <3>1, <3>2, Zenon
    <3> HIDE DEF moved, until
    <3> QED BY <1>3, <3>3 DEF NobodyBut, Blocking
  <2> HIDE DEF moved, until
  <2>6. NobodyBut(thread, woken)
    BY <2>4, <2>5, UnblockOverduePlaced, UnblockOverdueFewer DEF NobodyBut, Blocking
  <2> HIDE DEF woken
  <2>7. NobodyBut(thread, lists')
    BY <1>4, <2>3, <2>5, <2>6
  <2> QED BY <1>1, <2>7, OnlyTheRunningThread DEF thread
<1> QED BY <1>6, <1>7, <1>8

LEMMA ExitBlocks ==
  ASSUME IInv, ExitThread
  PROVE  BlockedByItself
<1> DEFINE cleaned == Cleaned(lists)
           switched == RoundRobin(cleaned, "normal")
<1>1. UserThreadRuns /\ lists' = switched
  BY DEF ExitThread, Calling, Panic
<1>2. Placed(lists) /\ lists.running # <<>> /\ Head(lists.running) # IdleThread
  BY <1>1, InvariantNow DEF UserThreadRuns, RunningThread
<1>3. /\ Placed(cleaned)
      /\ ToSet(cleaned.finished) = ToSet(lists.finished) \cup {RunningThread}
  BY <1>2, CleanedPlaced DEF RunningThread
<1>4. cleaned.input = lists.input /\ cleaned.stall = lists.stall
  BY <1>2 DEF Cleaned, Placed, Lists
<1> HIDE DEF cleaned
<1>5. NobodyBut(RunningThread, switched)
  BY <1>3, <1>4, RoundRobinPlaced DEF NobodyBut, Blocking
<1> QED BY <1>1, <1>5, OnlyTheRunningThread

LEMMA InterruptBlocks ==
  ASSUME IInv, IRQ
  PROVE  BlockedByItself
<1>1. lists' = Switched \/ lists' = FeedReaders(Switched, Received)
  BY DEF IRQ, Panic
<1>2. Placed(lists) /\ TypeOK
  BY InvariantNow DEF IInv
<1>3. Placed(Woken) /\ Nobody(Woken)
  BY <1>2, UnblockOverduePlaced, UnblockOverdueFewer DEF Woken, Nobody, Blocking
<1>4. Placed(Switched) /\ Nobody(Switched)
  BY <1>3, RoundRobinPlaced DEF Switched, Nobody, Blocking
<1>5. Received \in Nat
  <2> DEFINE ends == {unread + 1, UART_INPUT_BUFFER_SIZE}
  <2>1. unread \in Nat
    BY <1>2, UartAssumption DEF TypeOK
  <2>2. ends \subseteq Nat /\ ends # {}
    BY <2>1, UartAssumption
  <2> HIDE DEF ends
  <2>3. Min(ends) \in Nat
    BY <2>2, MinNat
  <2> QED BY <2>1, <2>3 DEF Received, ends
<1>6. Nobody(FeedReaders(Switched, Received))
  BY <1>4, <1>5, FeedReadersFewer DEF Nobody, Blocking
<1> QED BY <1>1, <1>4, <1>6, NobodyBlocked

LEMMA CreationBlocks ==
  ASSUME IInv, CreateProcess \/ CreateThread
  PROVE  BlockedByItself
<1> DEFINE thread == Head(lists.finished)
           new == [lists EXCEPT !.finished = Tail(@), !.ready = AppendLast(@, thread)]
<1>1. lists' = lists \/ (lists.finished # <<>> /\ lists' = new)
  BY DEF CreateProcess, CreateThread, CreateIn, Assign, Panic
<1>2. Placed(lists)
  BY InvariantNow
<1>3. CASE lists' = lists
  BY <1>3 DEF BlockedByItself
<1>4. CASE lists.finished # <<>> /\ lists' = new
  <2>1. ToSet(new.finished) = ToSet(lists.finished) \ {thread}
    BY <1>2, <1>4, AssignedPlaced
  <2>2. new.input = lists.input /\ new.stall = lists.stall
    BY <1>2 DEF Placed, Lists
  <2>3. Nobody(lists')
    BY <1>4, <2>1, <2>2 DEF Nobody, Blocking
  <2> QED BY <2>3, NobodyBlocked
<1> QED BY <1>1, <1>3, <1>4

LEMMA StepBlocks == IInv /\ [Next]_vars => [BlockedByItself]_lists
<1> SUFFICES ASSUME IInv, [Next]_vars, lists' # lists
             PROVE  BlockedByItself
  OBVIOUS
<1>0. Next
  BY DEF vars
<1>1. CASE CreateProcess \/ CreateThread
  BY <1>1, CreationBlocks
<1>2. CASE ReadCharacter \/ YieldThread \/ \E match \in Durations : StallThread(match)
  BY <1>2, CallBlocks
<1>3. CASE ExitThread
  BY <1>3, ExitBlocks
<1>4. CASE IRQ
  BY <1>4, InterruptBlocks
<1>5. CASE Tick \/ SystimerMatch \/ Keypress
  BY <1>5 DEF Tick, SystimerMatch, Keypress
<1> QED BY <1>0, <1>1, <1>2, <1>3, <1>4, <1>5 DEF Next

(* No handler blocks or ends a thread that is not the running one, nor the *)
(* running one in the place of the caller.                                 *)
THEOREM ThreadsBlockThemselves == Spec => BlocksItself
<1>1. Spec => [][BlockedByItself]_lists
  BY Inductive, StepBlocks, PTL DEF Spec
<1> QED BY <1>1 DEF BlocksItself, BlockedByItself, Blocking

-----------------------------------------------------------------------------
(* Part 3: which VERIFY can halt the kernel.                               *)

(* What scheduler.c:283 compares, of a stall list and the moments in the   *)
(* threads' control blocks; and the same of any two threads of the list.   *)
Ascending(stall, until) ==
  \A i \in 1 .. Len(stall) - 1 : until[stall[i]] <= until[stall[i + 1]]

Ordered(stall, until) ==
  \A i, j \in 1 .. Len(stall) : i < j => until[stall[i]] <= until[stall[j]]

(* With every thread in one list once, no thread is met twice on the way   *)
(* through the lists: the VERIFY at scheduler.c:269 holds, and what is     *)
(* left of the integrity check is the order of the stall list.             *)
LEMMA IntegrityIsOrder ==
  ASSUME NEW ls, Placed(ls)
  PROVE  ListIntegrity(ls) <=> Ascending(ls.stall, stallUntil)
<1> DEFINE one == ls.running \o ls.ready
           two == one \o ls.input
           three == two \o ls.stall
           four == three \o ls.finished
<1>1. /\ ls.ready \in NodeLists(Threads) /\ ls.running \in NodeLists(Threads)
      /\ ls.input \in NodeLists(Threads) /\ ls.stall \in NodeLists(Threads)
      /\ ls.finished \in NodeLists(Threads) /\ Apart(ls)
  BY DEF Placed, Lists
<1>2. one \in NodeLists(Threads) /\ ToSet(one) = ToSet(ls.running) \cup ToSet(ls.ready)
  <2>1. ToSet(ls.running) \cap ToSet(ls.ready) = {}
    BY <1>1 DEF Apart
  <2> QED BY <1>1, <2>1, ConcatNodes
<1> HIDE DEF one
<1>3. two \in NodeLists(Threads) /\ ToSet(two) = ToSet(one) \cup ToSet(ls.input)
  <2>1. ToSet(one) \cap ToSet(ls.input) = {}
    BY <1>1, <1>2 DEF Apart
  <2> QED BY <1>1, <1>2, <2>1, ConcatNodes
<1> HIDE DEF two
<1>4. three \in NodeLists(Threads) /\ ToSet(three) = ToSet(two) \cup ToSet(ls.stall)
  <2>1. ToSet(two) \cap ToSet(ls.stall) = {}
    BY <1>1, <1>2, <1>3 DEF Apart
  <2> QED BY <1>1, <1>3, <2>1, ConcatNodes
<1> HIDE DEF three
<1>5. four \in NodeLists(Threads)
  <2>1. ToSet(three) \cap ToSet(ls.finished) = {}
    BY <1>1, <1>2, <1>3, <1>4 DEF Apart
  <2> QED BY <1>1, <1>4, <2>1, ConcatNodes
<1>6. IsInjective(four)
  BY <1>5 DEF NodeLists
<1> QED BY <1>6 DEF ListIntegrity, Ascending, four, three, two, one

(* A handler that switches halts for the order of the stall list or not at *)
(* all, and one that creates a thread never halts.                         *)
HaltsUnsorted == halted => ~Ascending(lists.stall, stallUntil)

LEMMA InitHalts == Init => HaltsUnsorted
BY DEF Init, HaltsUnsorted

LEMMA StepHalts == IInv /\ HaltsUnsorted /\ [Next]_vars => HaltsUnsorted'
<1> SUFFICES ASSUME IInv, HaltsUnsorted, [Next]_vars, halted'
             PROVE  ~Ascending(lists'.stall, stallUntil')
  BY DEF HaltsUnsorted
<1>0. Placed(lists)
  BY InvariantNow
<1>1. CASE CreateProcess \/ CreateThread
  <2>1. \E a \in AddressSpaces, slot \in Slots : slot \notin slotsUsed[a]
    <3>1. CASE CreateProcess
      <4>1. PICK a \in AddressSpaces : spaces[a] = {}
        BY <3>1 DEF CreateProcess, EmptyAddressSpaces
      <4>2. slotsUsed[a] = {}
        BY <4>1 DEF IInv, SlotBookkeeping
      <4>3. 0 \in Slots
        BY CapacityAssumption DEF Slots
      <4> QED BY <4>2, <4>3
    <3>2. CASE CreateThread
      <4>1. UserThreadRuns /\ FreeSlots(pid[RunningThread]) # {}
        BY <3>2 DEF CreateThread, Calling
      <4>2. pid[RunningThread] \in AddressSpaces
        BY <4>1, RunningIsLive, PidOfThread, IdleIsNoUser DEF IInv
      <4> QED BY <4>1, <4>2 DEF FreeSlots
    <3> QED BY <1>1, <3>1, <3>2
  <2>2. lists.finished # <<>>
    BY <2>1, NoFreeThreadNoFreeSlot
  <2> QED BY <1>1, <2>2 DEF CreateProcess, CreateThread, CreateIn, Assign, Calling
<1>2. CASE ReadCharacter \/ YieldThread \/ \E match \in Durations : StallThread(match)
  <2> DEFINE switched == RoundRobin(lists, "forced")
  <2>1. UserThreadRuns /\ ~halted
    BY <1>2 DEF ReadCharacter, YieldThread, StallThread, Calling
  <2>2. Placed(switched)
    BY <2>1, ForcedSwitch
  <2>3. ~ListIntegrity(switched) /\ lists' = switched /\ stallUntil' = stallUntil
    BY <1>2, <2>1 DEF ReadCharacter, YieldThread, StallThread, Panic, stallVars
  <2> HIDE DEF switched
  <2> QED BY <2>2, <2>3, IntegrityIsOrder
<1>3. CASE ExitThread
  <2> DEFINE cleaned == Cleaned(lists)
             switched == RoundRobin(cleaned, "normal")
  <2>1. UserThreadRuns /\ ~halted
    BY <1>3 DEF ExitThread, Calling
  <2>2. Placed(cleaned)
    BY <1>0, <2>1, CleanedPlaced DEF UserThreadRuns, RunningThread
  <2>3. ~ListIntegrity(switched) /\ lists' = switched /\ stallUntil' = stallUntil
    BY <1>3, <2>1 DEF ExitThread, Panic, stallVars
  <2> HIDE DEF cleaned
  <2>4. Placed(switched)
    BY <2>2, RoundRobinPlaced
  <2> HIDE DEF switched
  <2> QED BY <2>3, <2>4, IntegrityIsOrder
<1>4. CASE IRQ
  <2>1. ~halted /\ ~ListIntegrity(Switched) /\ lists' = Switched /\ stallUntil' = stallUntil
    BY <1>4 DEF IRQ, Panic
  <2>2. Placed(Woken)
    BY <1>0, UnblockOverduePlaced DEF Woken
  <2>3. Placed(Switched)
    BY <2>2, RoundRobinPlaced DEF Switched
  <2> QED BY <2>1, <2>3, IntegrityIsOrder
<1>5. CASE Tick \/ SystimerMatch \/ Keypress
  BY <1>5 DEF Tick, SystimerMatch, Keypress
<1>6. CASE UNCHANGED vars
  BY <1>6 DEF vars, stallVars, HaltsUnsorted
<1> QED BY <1>1, <1>2, <1>3, <1>4, <1>5, <1>6 DEF Next

(* The VERIFYs at scheduler.c:154, 192 and 269 never fail: the kernel      *)
(* halts only where the stall list is out of order, at 283.                *)
THEOREM OnlyTheOrderHalts == Spec => []HaltsUnsorted
BY Inductive, InitHalts, StepHalts, PTL DEF Spec

(* Where all threads that stall ask for the same time, and the clock stays *)
(* away from its end for at least that time, whoever stalls later is due   *)
(* later: k_insert_sorted puts it where it belongs.  (It does not where    *)
(* the first node has the larger key, which the run stall_order shows.)    *)
OrderInv(d) ==
  /\ clo <= ClockBound
  /\ Ordered(lists.stall, stallUntil)
  /\ \A t \in ToSet(lists.stall) : stallUntil[t] <= clo + d

LEMMA OrderedRest ==
  ASSUME NEW s \in NodeLists(Threads), NEW until, Ordered(s, until), NEW k \in 0 .. Len(s)
  PROVE  Ordered(SubSeq(s, k + 1, Len(s)), until)
<1>1. Len(s) \in Nat /\ s \in Seq(Threads)
  BY LenProperties DEF NodeLists
<1>2. \A i \in k + 1 .. Len(s) : s[i] \in Threads
  BY <1>1, ElementOfSeq
<1>3. /\ Len(SubSeq(s, k + 1, Len(s))) = IF k + 1 <= Len(s) THEN Len(s) - (k + 1) + 1 ELSE 0
      /\ \A i \in 1 .. Len(s) - (k + 1) + 1 : SubSeq(s, k + 1, Len(s))[i] = s[k + 1 + i - 1]
  BY <1>1, <1>2, SubSeqProperties
<1> QED BY <1>1, <1>3 DEF Ordered

LEMMA OrderedInsert ==
  ASSUME NEW s \in NodeLists(Threads), NEW n \in Threads, n \notin ToSet(s),
         NEW until \in [Threads -> ClockValues], Ordered(s, until),
         \A t \in ToSet(s) : until[t] <= until[n]
  PROVE  Ordered(InsertSorted(s, n, until), until)
<1>1. Len(s) \in Nat /\ DOMAIN s = 1 .. Len(s) /\ s \in Seq(Threads)
  BY LenProperties DEF NodeLists
<1>2. \A i \in 1 .. Len(s) : s[i] \in Threads /\ until[s[i]] <= until[n]
  BY <1>1, ElementOfSeq DEF ToSet
<1>3. {i \in DOMAIN s : until[n] < until[s[i]]} = {}
  BY <1>1, <1>2, ClockAssumption DEF ClockValues
<1>4. InsertSorted(s, n, until) = Append(s, n)
  BY <1>3 DEF InsertSorted
<1>5. /\ Len(Append(s, n)) = Len(s) + 1
      /\ \A i \in 1 .. Len(s) : Append(s, n)[i] = s[i]
      /\ Append(s, n)[Len(s) + 1] = n
  BY <1>1, AppendProperties
<1> QED BY <1>1, <1>2, <1>4, <1>5 DEF Ordered

(* Only the moments of the threads of the list matter. *)
LEMMA OrderedSame ==
  ASSUME NEW s \in NodeLists(Threads), NEW until, NEW other, Ordered(s, until),
         \A t \in ToSet(s) : other[t] = until[t]
  PROVE  Ordered(s, other)
<1>1. Len(s) \in Nat /\ DOMAIN s = 1 .. Len(s)
  BY LenProperties DEF NodeLists
<1>2. \A i \in 1 .. Len(s) : s[i] \in ToSet(s)
  BY <1>1 DEF ToSet
<1> QED BY <1>2 DEF Ordered

LEMMA OrderedAscends ==
  ASSUME NEW s \in NodeLists(Threads), NEW until, Ordered(s, until)
  PROVE  Ascending(s, until)
<1>1. Len(s) \in Nat
  BY LenProperties DEF NodeLists
<1> QED BY <1>1 DEF Ordered, Ascending

LEMMA StallOrders ==
  ASSUME NEW d \in Nat, Durations \subseteq {d}, ClockBound + d < ClockRange,
         IInv, OrderInv(d), NEW match \in Durations, StallThread(match)
  PROVE  OrderInv(d)'
<1> DEFINE switched == RoundRobin(lists, "forced")
           thread == RunningThread
<1>1. UserThreadRuns /\ clo' = clo /\ match = d
  BY DEF StallThread, Calling
<1>2. /\ Placed(switched) /\ thread \in ToSet(switched.ready)
      /\ switched.stall = lists.stall
  BY <1>1, InvariantNow, ForcedSwitch, RoundRobinPlaced DEF UserThreadRuns, RunningThread
<1>3. switched \in Lists /\ thread \in Threads
      /\ lists.stall \in NodeLists(Threads) /\ thread \notin ToSet(lists.stall)
  BY <1>2, NodesInSet DEF Placed, Lists, Apart
<1>4. /\ clo \in Nat /\ clo <= ClockBound /\ stallUntil \in [Threads -> ClockValues]
  BY ClockAssumption DEF IInv, TypeOK, OrderInv, ClockValues
<1> DEFINE until == [stallUntil EXCEPT ![thread] = (clo + match) % ClockRange]
           moved == [switched EXCEPT !.ready = RemoveNode(@, thread),
                                     !.stall = InsertSorted(@, thread, until)]
           woken == UnblockOverdue(moved, until)
<1>5. \/ lists' = switched /\ stallUntil' = stallUntil
      \/ stallUntil' = until /\ lists' \in {moved, woken}
  BY DEF StallThread, Panic, IgnoreUntilMatch, stallVars
<1> HIDE DEF switched, thread
<1>6. CASE lists' = switched /\ stallUntil' = stallUntil
  BY <1>1, <1>2, <1>6 DEF OrderInv
<1>7. CASE stallUntil' = until /\ lists' \in {moved, woken}
  <2>1. clo + match < ClockRange /\ clo + match \in Nat /\ clo + match = clo + d
    BY <1>1, <1>4, ClockAssumption
  <2>2. (clo + match) % ClockRange = clo + d
    <3>1. \A a, r \in Nat : a < r => a % r = a
      OBVIOUS
    <3> QED BY <2>1, <3>1, ClockAssumption
  <2>3. clo + d \in ClockValues
    BY <2>1, ClockAssumption DEF ClockValues
  <2>4. /\ until \in [Threads -> ClockValues] /\ until[thread] = clo + d
        /\ \A t \in Threads \ {thread} : until[t] = stallUntil[t]
    BY <1>3, <1>4, <2>2, <2>3
  <2> HIDE DEF until
  <2>5. ToSet(lists.stall) \subseteq Threads
    BY <1>3, NodesInSet
  <2>6. Ordered(lists.stall, until)
    BY <1>3, <2>4, <2>5, OrderedSame DEF OrderInv
  <2>7. \A t \in ToSet(lists.stall) : until[t] <= until[thread]
    BY <1>3, <2>4, <2>5 DEF OrderInv
  <2>8. moved.stall = InsertSorted(lists.stall, thread, until)
    <3>1. \A ready, stall : [switched EXCEPT !.ready = ready, !.stall = stall].stall = stall
      BY <1>3 DEF Lists
    <3> QED BY <1>2, <3>1
  <2>9. Ordered(moved.stall, until)
    BY <1>3, <2>4, <2>6, <2>7, <2>8, OrderedInsert
  <2>10. /\ moved.stall \in NodeLists(Threads)
         /\ ToSet(moved.stall) = ToSet(lists.stall) \cup {thread}
    BY <1>3, <2>8, InsertSortedNodes
  <2>11. Placed(moved)
    BY <1>2, StalledPlaced
  <2> HIDE DEF moved
  <2>12. PICK k \in 0 .. Len(moved.stall) : woken.stall = SubSeq(moved.stall, k + 1, Len(moved.stall))
    BY <2>11, UnblockOverdueRest
  <2>13. Ordered(woken.stall, until) /\ ToSet(woken.stall) \subseteq ToSet(moved.stall)
    <3>1. ToSet(woken.stall) \subseteq ToSet(moved.stall)
      BY <2>11, UnblockOverdueFewer
    <3> HIDE DEF woken
    <3>2. Ordered(woken.stall, until)
      BY <2>9, <2>10, <2>12, OrderedRest
    <3> QED BY <3>1, <3>2
  <2> HIDE DEF woken
  <2>14. \A t \in ToSet(moved.stall) : until[t] <= clo + d
    BY <2>4, <2>7, <2>10, <2>1
  <2> QED BY <1>1, <1>4, <1>7, <2>9, <2>13, <2>14 DEF OrderInv
<1> QED BY <1>5, <1>6, <1>7

LEMMA StepOrders ==
  ASSUME NEW d \in Nat, Durations \subseteq {d}, ClockBound + d < ClockRange
  PROVE  IInv /\ OrderInv(d) /\ [Next]_vars => OrderInv(d)'
<1> SUFFICES ASSUME IInv, OrderInv(d), [Next]_vars
             PROVE  OrderInv(d)'
  OBVIOUS
<1>0. Placed(lists) /\ lists.stall \in NodeLists(Threads) /\ lists \in Lists
  BY InvariantNow DEF Placed, Lists
<1>1. CASE CreateProcess \/ CreateThread
  <2>1. /\ lists'.stall = lists.stall /\ stallUntil' = stallUntil /\ clo' = clo
    BY <1>0, <1>1 DEF CreateProcess, CreateThread, CreateIn, Assign, Panic, Lists, stallVars
  <2> QED BY <2>1 DEF OrderInv
<1>2. CASE ReadCharacter \/ YieldThread
  <2> DEFINE switched == RoundRobin(lists, "forced")
  <2>1. UserThreadRuns /\ stallUntil' = stallUntil /\ clo' = clo
    BY <1>2 DEF ReadCharacter, YieldThread, Calling, stallVars
  <2>2. Placed(switched) /\ switched.stall = lists.stall
    BY <1>0, <2>1, RoundRobinPlaced DEF UserThreadRuns, RunningThread
  <2>3. lists' \in {switched, IgnoreUntilInput(switched, RunningThread)}
    BY <1>2 DEF ReadCharacter, YieldThread, Panic
  <2> HIDE DEF switched
  <2>4. lists'.stall = lists.stall
    <3>1. \A ready, input : [switched EXCEPT !.ready = ready, !.input = input].stall = switched.stall
      BY <2>2 DEF Placed, Lists
    <3> QED BY <2>2, <2>3, <3>1 DEF IgnoreUntilInput
  <2> QED BY <2>1, <2>4 DEF OrderInv
<1>3. CASE \E match \in Durations : StallThread(match)
  BY <1>3, StallOrders
<1>4. CASE ExitThread
  <2> DEFINE cleaned == Cleaned(lists)
  <2>1. /\ UserThreadRuns /\ stallUntil' = stallUntil /\ clo' = clo
        /\ lists' = RoundRobin(cleaned, "normal")
    BY <1>4 DEF ExitThread, Calling, Panic, stallVars
  <2>2. Placed(cleaned) /\ cleaned.stall = lists.stall
    BY <1>0, <2>1, CleanedPlaced DEF UserThreadRuns, RunningThread, Cleaned, Lists
  <2> HIDE DEF cleaned
  <2>3. lists'.stall = lists.stall
    BY <2>1, <2>2, RoundRobinPlaced
  <2> QED BY <2>1, <2>3 DEF OrderInv
<1>5. CASE IRQ
  <2>1. /\ stallUntil' = stallUntil /\ clo' = clo
        /\ lists' = Switched \/ lists' = FeedReaders(Switched, Received)
    BY <1>5 DEF IRQ, Panic
  <2>2. Placed(Woken)
    BY <1>0, UnblockOverduePlaced DEF Woken
  <2>3. Placed(Switched) /\ Switched.stall = Woken.stall
    BY <2>2, RoundRobinPlaced DEF Switched
  <2>4. lists'.stall = Woken.stall
    <3>1. FeedReaders(Switched, Received).stall = Switched.stall
      BY <2>3 DEF FeedReaders, Placed, Lists
    <3> QED BY <2>1, <2>3, <3>1
  <2>5. CASE m3
    <3>1. Woken = UnblockOverdue(lists, stallUntil)
      BY <2>5 DEF Woken
    <3>2. PICK k \in 0 .. Len(lists.stall) :
            Woken.stall = SubSeq(lists.stall, k + 1, Len(lists.stall))
      BY <1>0, <3>1, UnblockOverdueRest
    <3>3. Ordered(Woken.stall, stallUntil)
      BY <1>0, <3>2, OrderedRest DEF OrderInv
    <3>4. ToSet(Woken.stall) \subseteq ToSet(lists.stall)
      BY <1>0, <3>1, UnblockOverdueFewer
    <3> QED BY <2>1, <2>4, <3>3, <3>4 DEF OrderInv
  <2>6. CASE ~m3
    BY <2>1, <2>4, <2>6 DEF OrderInv, Woken
  <2> QED BY <2>5, <2>6
<1>6. CASE Tick
  <2>1. lists' = lists /\ stallUntil' = stallUntil /\ clo < ClockBound
        /\ clo' = (clo + 1) % ClockRange
    BY <1>6 DEF Tick
  <2>2. clo \in Nat /\ stallUntil \in [Threads -> Nat] /\ ClockBound \in Nat /\ ClockRange \in Nat
    BY ClockAssumption DEF IInv, TypeOK
  <2>3. \A a, r \in Nat : a < r => a % r = a
    OBVIOUS
  <2>4. clo' = clo + 1
    BY <2>1, <2>2, <2>3
  <2>5. ToSet(lists.stall) \subseteq Threads
    BY <1>0, NodesInSet
  <2>6. \A t \in ToSet(lists.stall) : stallUntil[t] <= clo + 1 + d
    BY <2>2, <2>5 DEF OrderInv
  <2> QED BY <2>1, <2>2, <2>4, <2>6 DEF OrderInv
<1>7. CASE SystimerMatch \/ Keypress
  BY <1>7 DEF SystimerMatch, Keypress, stallVars, OrderInv
<1>8. CASE UNCHANGED vars
  BY <1>8 DEF vars, stallVars, OrderInv
<1> QED BY <1>1, <1>2, <1>3, <1>4, <1>5, <1>6, <1>7, <1>8 DEF Next

LEMMA InitOrders ==
  ASSUME NEW d \in Nat
  PROVE  Init => OrderInv(d)
<1> SUFFICES ASSUME Init
             PROVE  OrderInv(d)
  OBVIOUS
<1>1. lists.stall = <<>> /\ clo = 0
  BY DEF Init
<1>2. ToSet(<<>>) = {} /\ Len(<<>>) = 0
  BY SmallNodes, IdleIsNoUser
<1> QED BY <1>1, <1>2, ClockAssumption DEF OrderInv, Ordered

(* As long as all threads that stall ask for the same time, as those of    *)
(* the demo program do, and until the clock comes close to its end, no     *)
(* VERIFY of the scheduler fails, whatever else the threads do.            *)
THEOREM NeverHalts ==
  ASSUME NEW d \in Nat, Durations \subseteq {d}, ClockBound + d < ClockRange
  PROVE  Spec => []NoPanic
<1>1. IInv /\ OrderInv(d) /\ HaltsUnsorted => NoPanic
  <2> SUFFICES ASSUME IInv, OrderInv(d), HaltsUnsorted
               PROVE  ~halted
    BY DEF NoPanic
  <2>1. lists.stall \in NodeLists(Threads)
    BY InvariantNow DEF Placed, Lists
  <2> QED BY <2>1, OrderedAscends DEF OrderInv, HaltsUnsorted
<1>2. Spec => []OrderInv(d)
  <2>1. Init => OrderInv(d)
    BY InitOrders
  <2>2. IInv /\ OrderInv(d) /\ [Next]_vars => OrderInv(d)'
    BY StepOrders
  <2> QED BY <2>1, <2>2, Inductive, PTL DEF Spec
<1> QED BY <1>1, <1>2, Inductive, OnlyTheOrderHalts, PTL

-----------------------------------------------------------------------------
(* Part 4: the ready list is a queue.                                      *)

(* After k nodes of old have left at the front, new goes on with the rest  *)
(* of it in order; what follows that was not in old.                       *)
Follows(k, old, new) ==
  /\ new \in NodeLists(Threads) /\ k <= Len(old) /\ Len(old) - k <= Len(new)
  /\ \A i \in 1 .. Len(old) - k : new[i] = old[i + k]
  /\ \A i \in Len(old) - k + 1 .. Len(new) : new[i] \notin ToSet(old)

FirstFrom(old, new) == \E k \in {0, 1} : Follows(k, old, new)

(* A list of threads: its length, its nodes and their places. *)
LEMMA ThreadList ==
  ASSUME NEW s \in NodeLists(Threads)
  PROVE  /\ Len(s) \in Nat /\ DOMAIN s = 1 .. Len(s) /\ s \in Seq(Threads)
         /\ \A i \in 1 .. Len(s) : s[i] \in Threads /\ s[i] \in ToSet(s)
         /\ \A i, j \in 1 .. Len(s) : s[i] = s[j] => i = j
         /\ \A n \in ToSet(s) : \E i \in 1 .. Len(s) : s[i] = n
         /\ s = <<>> <=> Len(s) = 0
<1>1. s \in Seq(Threads) /\ IsInjective(s)
  BY DEF NodeLists
<1>2. Len(s) \in Nat /\ DOMAIN s = 1 .. Len(s) /\ \A i \in 1 .. Len(s) : s[i] \in Threads
  BY <1>1, LenProperties, ElementOfSeq
<1>3. s = <<>> <=> Len(s) = 0
  BY <1>1, EmptySeq
<1>4. \A i, j \in 1 .. Len(s) : s[i] = s[j] => i = j
  BY <1>1, <1>2 DEF IsInjective
<1> QED BY <1>1, <1>2, <1>3, <1>4 DEF ToSet

(* Then threads keep their order, and newcomers stand behind them.         *)
LEMMA FollowsInOrder ==
  ASSUME NEW old \in NodeLists(Threads), NEW new, FirstFrom(old, new),
         NEW a \in ToSet(old) \cap ToSet(new), NEW b \in ToSet(new),
         StandsBefore(old, a, b) \/ b \notin ToSet(old)
  PROVE  StandsBefore(new, a, b)
<1>1. PICK k \in {0, 1} : Follows(k, old, new)
  BY DEF FirstFrom
<1> DEFINE length == Len(old)
<1>2. /\ length \in Nat /\ DOMAIN old = 1 .. length
      /\ \A i, j \in 1 .. length : old[i] = old[j] => i = j
      /\ \A i \in 1 .. length : old[i] \in ToSet(old)
  BY ThreadList
<1>3. /\ new \in NodeLists(Threads) /\ length - k <= Len(new)
      /\ \A i \in 1 .. length - k : new[i] = old[i + k]
      /\ \A i \in length - k + 1 .. Len(new) : new[i] \notin ToSet(old)
  BY <1>1 DEF Follows
<1>4. Len(new) \in Nat /\ DOMAIN new = 1 .. Len(new)
  BY <1>3, ThreadList
<1>5. PICK m \in 1 .. Len(new) : new[m] = a
  BY <1>3, ThreadList
<1> HIDE DEF length
<1>6. m \in 1 .. length - k /\ old[m + k] = a /\ m + k \in 1 .. length
  BY <1>2, <1>3, <1>4, <1>5
<1>7. CASE StandsBefore(old, a, b)
  <2>1. PICK i, j \in 1 .. length : i < j /\ old[i] = a /\ old[j] = b
    BY <1>2, <1>7 DEF StandsBefore
  <2>2. i = m + k
    BY <1>2, <1>6, <2>1
  <2> DEFINE place == j - k
  <2>3. place \in 1 .. length - k /\ m < place /\ place + k = j
    BY <1>2, <1>6, <2>1, <2>2
  <2>4. place \in 1 .. Len(new)
    BY <1>2, <1>3, <1>4, <2>3
  <2> HIDE DEF place
  <2>5. new[place] = b
    BY <1>3, <2>1, <2>3
  <2> QED BY <1>4, <1>5, <2>3, <2>4, <2>5 DEF StandsBefore
<1>8. CASE b \notin ToSet(old)
  <2>1. PICK j \in 1 .. Len(new) : new[j] = b
    BY <1>3, ThreadList
  <2>2. j \notin 1 .. length - k
    <3>1. \A i \in 1 .. length - k : i + k \in 1 .. length
      BY <1>2
    <3> QED BY <1>2, <1>3, <1>8, <2>1, <3>1
  <2>3. m < j
    BY <1>2, <1>4, <1>6, <2>1, <2>2
  <2> QED BY <1>4, <1>5, <2>1, <2>3 DEF StandsBefore
<1> QED BY <1>7, <1>8

LEMMA FollowsItself ==
  ASSUME NEW s \in NodeLists(Threads)
  PROVE  Follows(0, s, s)
<1>1. Len(s) \in Nat
  BY ThreadList
<1> QED BY <1>1 DEF Follows

(* While none has left, all are there. *)
LEMMA FollowsHolds ==
  ASSUME NEW old \in NodeLists(Threads), NEW new, Follows(0, old, new)
  PROVE  ToSet(old) \subseteq ToSet(new)
<1>1. Len(old) \in Nat /\ Len(old) - 0 = Len(old) /\ \A i \in 1 .. Len(old) : i + 0 = i
  BY ThreadList
<1>2. /\ new \in NodeLists(Threads) /\ Len(old) <= Len(new)
      /\ \A i \in 1 .. Len(old) : new[i] = old[i]
  BY <1>1 DEF Follows
<1>3. Len(new) \in Nat /\ \A i \in 1 .. Len(new) : new[i] \in ToSet(new)
  BY <1>2, ThreadList
<1>4. \A i \in 1 .. Len(old) : i \in 1 .. Len(new)
  BY <1>1, <1>2, <1>3
<1>5. \A n \in ToSet(old) : \E i \in 1 .. Len(old) : old[i] = n
  BY ThreadList
<1> QED BY <1>2, <1>3, <1>4, <1>5

(* Nobody waited: whoever comes is a newcomer. *)
LEMMA FollowsNobody ==
  ASSUME NEW new \in NodeLists(Threads)
  PROVE  Follows(0, <<>>, new)
<1>1. Len(new) \in Nat /\ Len(<<>>) = 0 /\ ToSet(<<>>) = {}
  <2>1. ToSet(<<>>) = {}
    BY DEF ToSet
  <2> QED BY <2>1, ThreadList
<1> QED BY <1>1 DEF Follows

(* Others are appended. *)
LEMMA FollowsAppended ==
  ASSUME NEW old \in NodeLists(Threads), NEW k \in {0, 1}, NEW new, Follows(k, old, new),
         NEW more \in NodeLists(Threads), ToSet(more) \cap ToSet(old) = {},
         new \o more \in NodeLists(Threads)
  PROVE  Follows(k, old, new \o more)
<1> DEFINE whole == new \o more
           rest == Len(old) - k
<1>1. /\ Len(old) \in Nat /\ more \in Seq(Threads) /\ Len(more) \in Nat
      /\ \A i \in 1 .. Len(more) : more[i] \in ToSet(more)
  BY ThreadList
<1>2. /\ new \in Seq(Threads) /\ Len(new) \in Nat /\ k <= Len(old) /\ rest <= Len(new)
      /\ \A i \in 1 .. rest : new[i] = old[i + k]
      /\ \A i \in rest + 1 .. Len(new) : new[i] \notin ToSet(old)
  BY ThreadList DEF Follows
<1>3. /\ Len(whole) = Len(new) + Len(more)
      /\ \A i \in 1 .. Len(new) + Len(more) :
           whole[i] = IF i <= Len(new) THEN new[i] ELSE more[i - Len(new)]
  BY <1>1, <1>2, ConcatProperties
<1>4. rest \in Nat
  BY <1>1, <1>2
<1> HIDE DEF whole, rest
<1>5. rest <= Len(whole)
  BY <1>1, <1>2, <1>3, <1>4
<1>6. \A i \in 1 .. rest : whole[i] = old[i + k]
  BY <1>1, <1>2, <1>3, <1>4
<1>7. ASSUME NEW i \in rest + 1 .. Len(whole)
      PROVE  whole[i] \notin ToSet(old)
  <2>1. CASE i <= Len(new)
    <3>1. i \in rest + 1 .. Len(new) /\ i \in 1 .. Len(new) + Len(more)
      BY <1>1, <1>2, <1>3, <1>4, <2>1
    <3> QED BY <1>2, <1>3, <2>1, <3>1
  <2>2. CASE ~(i <= Len(new))
    <3>1. i - Len(new) \in 1 .. Len(more) /\ i \in 1 .. Len(new) + Len(more)
      BY <1>1, <1>2, <1>3, <1>4, <2>2
    <3>2. whole[i] = more[i - Len(new)] /\ more[i - Len(new)] \in ToSet(more)
      BY <1>1, <1>3, <2>2, <3>1
    <3> QED BY <3>2
  <2> QED BY <2>1, <2>2
<1> QED BY <1>2, <1>5, <1>6, <1>7 DEF Follows, whole, rest

(* The first one leaves. *)
LEMMA FollowsTail ==
  ASSUME NEW old \in NodeLists(Threads), old # <<>>, NEW new, Follows(0, old, new)
  PROVE  new # <<>> /\ Head(new) = Head(old) /\ Follows(1, old, Tail(new))
<1> DEFINE length == Len(old)
           tail == Tail(new)
<1>1. length \in Nat \ {0} /\ old \in Seq(Threads)
  BY ThreadList
<1>2. /\ new \in NodeLists(Threads) /\ new \in Seq(Threads) /\ Len(new) \in Nat /\ length <= Len(new)
      /\ \A i \in 1 .. length : new[i] = old[i + 0]
      /\ \A i \in length + 1 .. Len(new) : new[i] \notin ToSet(old)
  <2>1. new \in NodeLists(Threads)
    BY DEF Follows
  <2>2. new \in Seq(Threads) /\ Len(new) \in Nat
    BY <2>1, ThreadList
  <2>3. length - 0 = length
    BY <1>1
  <2> QED BY <2>1, <2>2, <2>3 DEF Follows
<1> HIDE DEF length
<1>3. new # <<>> /\ Head(new) = Head(old)
  <2>1. Len(new) # 0 /\ 1 \in 1 .. length /\ 1 + 0 = 1
    BY <1>1, <1>2
  <2>2. new # <<>> /\ new[1] = old[1]
    BY <1>2, <2>1
  <2>3. Head(new) = new[1] /\ Head(old) = old[1]
    BY <1>1, <1>2, <2>2
  <2> QED BY <2>2, <2>3
<1>4. /\ tail \in NodeLists(Threads) /\ Len(tail) = Len(new) - 1
      /\ \A i \in 1 .. Len(tail) : tail[i] = new[i + 1]
  BY <1>2, <1>3, TailNodes, HeadTailProperties
<1> HIDE DEF tail
<1>5. 1 <= length /\ length - 1 <= Len(tail)
  BY <1>1, <1>2, <1>4
<1>6. ASSUME NEW i \in 1 .. length - 1
      PROVE  tail[i] = old[i + 1]
  <2>1. i \in 1 .. Len(tail) /\ i + 1 \in 1 .. length /\ (i + 1) + 0 = i + 1
    BY <1>1, <1>2, <1>4
  <2> QED BY <1>2, <1>4, <2>1
<1>7. ASSUME NEW i \in length - 1 + 1 .. Len(tail)
      PROVE  tail[i] \notin ToSet(old)
  <2>1. i \in 1 .. Len(tail) /\ i + 1 \in length + 1 .. Len(new)
    BY <1>1, <1>2, <1>4
  <2> QED BY <1>2, <1>4, <2>1
<1>8. Follows(1, old, tail)
  BY <1>4, <1>5, <1>6, <1>7 DEF Follows, length
<1> QED BY <1>3, <1>8 DEF tail

(* A newcomer leaves again. *)
LEMMA FollowsWithout ==
  ASSUME NEW old \in NodeLists(Threads), NEW k \in {0, 1}, NEW new, Follows(k, old, new),
         NEW n \in ToSet(new), n \notin ToSet(old)
  PROVE  Follows(k, old, RemoveNode(new, n))
<1> DEFINE after == RemoveNode(new, n)
           p == Position(new, n)
           rest == Len(old) - k
<1>1. Len(old) \in Nat /\ \A i \in 1 .. Len(old) : old[i] \in ToSet(old)
  BY ThreadList
<1>2. /\ new \in NodeLists(Threads) /\ Len(new) \in Nat /\ k <= Len(old) /\ rest <= Len(new)
      /\ \A i \in 1 .. rest : new[i] = old[i + k]
      /\ \A i \in rest + 1 .. Len(new) : new[i] \notin ToSet(old)
  BY ThreadList DEF Follows
<1>3. p \in 1 .. Len(new) /\ new[p] = n
  BY <1>2, PlaceOf
<1>4. /\ after \in NodeLists(Threads) /\ Len(after) = Len(new) - 1
      /\ \A i \in 1 .. Len(new) - 1 : after[i] = IF i < p THEN new[i] ELSE new[i + 1]
  BY <1>2, RemovedIs
<1>5. rest \in Nat
  BY <1>1, <1>2
<1>6. \A i \in 1 .. rest : i + k \in 1 .. Len(old)
  BY <1>1
<1> HIDE DEF after, p, rest
<1>7. rest < p
  <2>1. p \notin 1 .. rest
    BY <1>1, <1>2, <1>3, <1>6
  <2> QED BY <1>2, <1>3, <1>5, <2>1
<1>8. rest <= Len(after)
  BY <1>2, <1>3, <1>4, <1>5, <1>7
<1>9. ASSUME NEW i \in 1 .. rest
      PROVE  after[i] = old[i + k]
  <2>1. i < p /\ i \in 1 .. Len(new) - 1
    BY <1>2, <1>3, <1>5, <1>7
  <2> QED BY <1>2, <1>4, <2>1
<1>10. ASSUME NEW i \in rest + 1 .. Len(after)
       PROVE  after[i] \notin ToSet(old)
  <2>1. i \in 1 .. Len(new) - 1 /\ i \in rest + 1 .. Len(new) /\ i + 1 \in rest + 1 .. Len(new)
    BY <1>2, <1>4, <1>5
  <2> QED BY <1>2, <1>4, <2>1
<1> QED BY <1>2, <1>4, <1>8, <1>9, <1>10 DEF Follows, after, rest

(* The switch takes the first ready thread, if it takes any.               *)
LEMMA SwitchInTurn ==
  ASSUME NEW ls, Placed(ls), NEW type,
         type = "normal" \/ (ls.running # <<>> /\ Head(ls.running) # IdleThread),
         NEW old \in NodeLists(Threads), Follows(0, old, ls.ready)
  PROVE  /\ FirstFrom(old, RoundRobin(ls, type).ready)
         /\ old # <<>> /\ RoundRobin(ls, type).running # ls.running
              => Head(RoundRobin(ls, type).running) = Head(old)
<1> DEFINE new == RoundRobin(ls, type)
           requeued == Requeued(ls)
           runner == <<Head(ls.running)>>
<1>1. /\ ls \in Lists /\ ls.ready \in NodeLists(Threads) /\ ls.running \in NodeLists(Threads)
      /\ ToSet(ls.ready) \cap ToSet(ls.running) = {}
  BY DEF Placed, Lists, Apart
<1>2. /\ Placed(new)
      /\ ~KeepsRunning(ls, type) => new.running = <<NextThread(ls)>>
  BY RoundRobinPlaced
<1>3. new.ready \in NodeLists(Threads)
  BY <1>2 DEF Placed, Lists
<1>4. new = IF KeepsRunning(ls, type) THEN ls
            ELSE [ls EXCEPT !.ready = Tail(requeued), !.running = <<NextThread(ls)>>]
  BY DEF RoundRobin
<1>5. ~KeepsRunning(ls, type) => new.ready = Tail(requeued)
  BY <1>1, <1>4 DEF Lists
<1>6. CASE KeepsRunning(ls, type)
  BY <1>4, <1>6 DEF FirstFrom
<1>7. CASE ~KeepsRunning(ls, type) /\ old = <<>>
  BY <1>3, <1>7, FollowsNobody DEF FirstFrom
<1>8. CASE ~KeepsRunning(ls, type) /\ old # <<>>
  <2> HIDE DEF new
  <2>1. ls.ready # <<>> /\ Head(ls.ready) = Head(old)
    BY <1>8, FollowsTail
  <2>2. Candidates(ls) = ls.ready /\ NextThread(ls) = Head(old)
    BY <2>1 DEF Candidates, NextThread
  <2>3. Head(new.running) = Head(old)
    BY <1>2, <1>8, <2>2
  <2>4. Follows(0, old, requeued)
    <3>1. CASE ls.running # <<>> /\ Head(ls.running) # IdleThread
      <4>1. Head(ls.running) \in Threads /\ Head(ls.running) \in ToSet(ls.running)
        BY <1>1, <3>1, TailNodes
      <4>2. /\ runner \in NodeLists(Threads) /\ ToSet(runner) = {Head(ls.running)}
        BY <4>1, SmallNodes
      <4>3. requeued = AppendLast(ls.ready, Head(ls.running))
        BY <2>2, <3>1 DEF Requeued
      <4>4. requeued = ls.ready \o runner
        BY <1>1, <4>3 DEF AppendLast, NodeLists
      <4>5. requeued \in NodeLists(Threads)
        BY <1>1, <4>1, <4>3, AppendLastNodes
      <4>6. ToSet(old) \subseteq ToSet(ls.ready)
        BY FollowsHolds
      <4> HIDE DEF requeued, runner
      <4>7. ToSet(runner) \cap ToSet(old) = {}
        BY <1>1, <4>1, <4>2, <4>6
      <4> QED BY <4>2, <4>4, <4>5, <4>7, FollowsAppended
    <3>2. CASE ~(ls.running # <<>> /\ Head(ls.running) # IdleThread)
      BY <2>2, <3>2 DEF Requeued
    <3> QED BY <3>1, <3>2
  <2> HIDE DEF requeued
  <2>5. Follows(1, old, Tail(requeued))
    BY <1>8, <2>4, FollowsTail
  <2> QED BY <1>5, <1>8, <2>3, <2>5 DEF FirstFrom, new
<1> QED BY <1>6, <1>7, <1>8

(* What a step leaves behind. *)
ReadyInTurn ==
  /\ FirstFrom(lists.ready, lists'.ready)
  /\ lists.ready # <<>> /\ lists'.running # lists.running
       => Head(lists'.running) = Head(lists.ready)

(* Woken threads, and readers that are fed, come behind the ready ones.    *)
LEMMA UnblockOverdueFollows ==
  ASSUME NEW ls, Placed(ls), NEW until, NEW old \in NodeLists(Threads), NEW k \in {0, 1},
         Follows(k, old, ls.ready), ToSet(ls.stall) \cap ToSet(old) = {}
  PROVE  Follows(k, old, UnblockOverdue(ls, until).ready)
<1> DEFINE timely == {i \in DOMAIN ls.stall : Armable(until[ls.stall[i]])}
           ends == timely \cup {Len(ls.stall) + 1}
           last == Min(ends) - 1
           woken == SubSeq(ls.stall, 1, last)
           new == UnblockOverdue(ls, until)
<1>1. /\ ls \in Lists /\ ls.stall \in NodeLists(Threads)
      /\ Len(ls.stall) \in Nat /\ DOMAIN ls.stall = 1 .. Len(ls.stall)
  BY LenProperties DEF Placed, Lists, NodeLists
<1>2. ends \subseteq 1 .. Len(ls.stall) + 1 /\ ends \subseteq Nat /\ ends # {}
  BY <1>1
<1>3. new.ready = ls.ready \o woken
  <2>1. \A front, rest : [ls EXCEPT !.ready = front, !.stall = rest].ready = front
    BY <1>1 DEF Lists
  <2> QED BY <2>1 DEF UnblockOverdue
<1> HIDE DEF timely, ends
<1>4. Min(ends) \in ends
  BY <1>2, MinNat
<1>5. last \in 0 .. Len(ls.stall)
  <2>1. Min(ends) \in 1 .. Len(ls.stall) + 1
    BY <1>2, <1>4
  <2>2. \A e \in 1 .. Len(ls.stall) + 1 : e - 1 \in 0 .. Len(ls.stall)
    BY <1>1
  <2> QED BY <2>1, <2>2
<1> HIDE DEF last, new
<1>6. woken \in NodeLists(Threads) /\ ToSet(woken) \subseteq ToSet(ls.stall)
  BY <1>1, <1>5, SplitNodes
<1>7. new.ready \in NodeLists(Threads)
  BY UnblockOverduePlaced DEF new, Placed, Lists
<1> HIDE DEF woken
<1>8. Follows(k, old, new.ready)
  BY <1>3, <1>6, <1>7, FollowsAppended
<1> QED BY <1>8 DEF new

LEMMA FeedReadersFollows ==
  ASSUME NEW ls, Placed(ls), NEW n \in Nat, NEW old \in NodeLists(Threads), NEW k \in {0, 1},
         Follows(k, old, ls.ready), ToSet(ls.input) \cap ToSet(old) = {}
  PROVE  Follows(k, old, FeedReaders(ls, n).ready)
<1> DEFINE ends == {n, Len(ls.input)}
           last == Min(ends)
           fed == SubSeq(ls.input, 1, last)
           new == FeedReaders(ls, n)
<1>1. /\ ls \in Lists /\ ls.input \in NodeLists(Threads) /\ Len(ls.input) \in Nat
  BY LenProperties DEF Placed, Lists, NodeLists
<1>2. ends \subseteq Nat /\ ends # {}
  BY <1>1
<1>3. new.ready = ls.ready \o fed
  <2>1. \A front, rest : [ls EXCEPT !.ready = front, !.input = rest].ready = front
    BY <1>1 DEF Lists
  <2> QED BY <2>1 DEF FeedReaders
<1> HIDE DEF ends
<1>4. Min(ends) \in ends /\ \A y \in ends : Min(ends) <= y
  BY <1>2, MinNat
<1>5. last \in 0 .. Len(ls.input)
  BY <1>1, <1>4 DEF ends
<1> HIDE DEF last, new
<1>6. fed \in NodeLists(Threads) /\ ToSet(fed) \subseteq ToSet(ls.input)
  BY <1>1, <1>5, SplitNodes
<1>7. new.ready \in NodeLists(Threads)
  BY FeedReadersPlaced DEF new, Placed, Lists
<1> HIDE DEF fed
<1>8. Follows(k, old, new.ready)
  BY <1>3, <1>6, <1>7, FollowsAppended
<1> QED BY <1>8 DEF new

(* Who calls is not in the ready list, gives way to its first thread and,  *)
(* if it is blocked, leaves the end again.                                 *)
LEMMA CallInTurn ==
  ASSUME IInv, ReadCharacter \/ YieldThread \/ \E match \in Durations : StallThread(match)
  PROVE  ReadyInTurn
<1> DEFINE switched == RoundRobin(lists, "forced")
           thread == RunningThread
           old == lists.ready
<1>1. UserThreadRuns /\ lists'.running = switched.running
  BY CallSwitches DEF ReadCharacter, YieldThread, StallThread, Calling, Switch
<1>2. /\ Placed(lists) /\ lists.running # <<>> /\ Head(lists.running) # IdleThread
  BY <1>1, InvariantNow DEF UserThreadRuns, RunningThread
<1>3. /\ Placed(switched) /\ thread \in ToSet(switched.ready)
      /\ switched.input = lists.input /\ switched.stall = lists.stall
  BY <1>1, <1>2, ForcedSwitch, RoundRobinPlaced
<1>4. /\ old \in NodeLists(Threads) /\ thread \notin ToSet(old)
      /\ ToSet(lists.stall) \cap ToSet(old) = {}
  <2>1. thread \in ToSet(lists.running)
    BY <1>2, RunningNodes DEF RunningThread
  <2> HIDE DEF thread
  <2> QED BY <1>2, <2>1 DEF Placed, Lists, Apart
<1>5. Follows(0, old, lists.ready)
  BY <1>4, FollowsItself
<1>6. /\ FirstFrom(old, switched.ready)
      /\ old # <<>> /\ switched.running # lists.running => Head(switched.running) = Head(old)
  BY <1>2, <1>4, <1>5, SwitchInTurn
<1> HIDE DEF switched, thread, old
<1>7. /\ switched \in Lists /\ thread \in Threads
      /\ switched.stall \in NodeLists(Threads) /\ thread \notin ToSet(switched.stall)
  BY <1>3, NodesInSet DEF Placed, Lists, Apart
<1>8. FirstFrom(old, RemoveNode(switched.ready, thread))
  BY <1>3, <1>4, <1>6, FollowsWithout DEF FirstFrom
<1>9. FirstFrom(old, lists'.ready)
  <2>1. CASE ReadCharacter
    <3>1. lists' = IgnoreUntilInput(switched, thread) \/ lists' = switched
      BY <2>1 DEF ReadCharacter, Panic, switched, thread
    <3>2. IgnoreUntilInput(switched, thread).ready = RemoveNode(switched.ready, thread)
      <4>1. \A ready, input : [switched EXCEPT !.ready = ready, !.input = input].ready = ready
        BY <1>7 DEF Lists
      <4> QED BY <4>1 DEF IgnoreUntilInput
    <3> QED BY <1>6, <1>8, <3>1, <3>2
  <2>2. CASE YieldThread
    <3>1. lists' = switched
      BY <2>2 DEF YieldThread, Panic, switched
    <3> QED BY <1>6, <3>1
  <2>3. CASE \E match \in Durations : StallThread(match)
    <3>1. PICK match \in Durations : StallThread(match)
      BY <2>3
    <3>2. IgnoreUntilMatch(switched, thread, match) \/ lists' = switched
      BY <3>1 DEF StallThread, Panic, switched, thread
    <3> DEFINE until == [stallUntil EXCEPT ![thread] = (clo + match) % ClockRange]
               moved == [switched EXCEPT !.ready = RemoveNode(@, thread),
                                         !.stall = InsertSorted(@, thread, until)]
               woken == UnblockOverdue(moved, until)
    <3>3. lists' = woken \/ lists' = moved \/ lists' = switched
      BY <3>2 DEF IgnoreUntilMatch
    <3>4. Placed(moved)
      BY <1>3, StalledPlaced
    <3>5. /\ moved.ready = RemoveNode(switched.ready, thread)
          /\ ToSet(moved.stall) = ToSet(switched.stall) \cup {thread}
      <4>1. \A ready, stall :
              LET new == [switched EXCEPT !.ready = ready, !.stall = stall]
              IN  new.ready = ready /\ new.stall = stall
        BY <1>7 DEF Lists
      <4>2. ToSet(InsertSorted(switched.stall, thread, until)) = ToSet(switched.stall) \cup {thread}
        BY <1>7, InsertSortedNodes
      <4> QED BY <4>1, <4>2, Zenon
    <3> HIDE DEF until, moved
    <3>6. FirstFrom(old, moved.ready)
      BY <1>8, <3>5
    <3>7. ToSet(moved.stall) \cap ToSet(old) = {}
      BY <1>3, <1>4, <3>5
    <3>8. FirstFrom(old, woken.ready)
      BY <1>4, <3>4, <3>6, <3>7, UnblockOverdueFollows DEF FirstFrom
    <3> HIDE DEF woken
    <3> QED BY <1>6, <3>3, <3>6, <3>8
  <2> QED BY <2>1, <2>2, <2>3
<1> QED BY <1>1, <1>6, <1>9 DEF ReadyInTurn, old

LEMMA ExitInTurn ==
  ASSUME IInv, ExitThread
  PROVE  ReadyInTurn
<1> DEFINE cleaned == Cleaned(lists)
           switched == RoundRobin(cleaned, "normal")
           old == lists.ready
<1>1. UserThreadRuns /\ lists' = switched
  BY DEF ExitThread, Calling, Panic
<1>2. Placed(lists) /\ lists.running # <<>> /\ Head(lists.running) # IdleThread
  BY <1>1, InvariantNow DEF UserThreadRuns, RunningThread
<1>3. Placed(cleaned) /\ cleaned.running = <<>> /\ cleaned.ready = lists.ready
  <2>1. cleaned.ready = lists.ready
    BY <1>2 DEF Cleaned, Placed, Lists
  <2> QED BY <1>2, <2>1, CleanedPlaced
<1>4. old \in NodeLists(Threads)
  BY <1>2 DEF Placed, Lists
<1>5. Follows(0, old, cleaned.ready)
  BY <1>3, <1>4, FollowsItself
<1> HIDE DEF cleaned, old
<1>6. /\ FirstFrom(old, switched.ready)
      /\ old # <<>> /\ switched.running # cleaned.running => Head(switched.running) = Head(old)
  BY <1>3, <1>4, <1>5, SwitchInTurn
<1>7. switched.running # <<>>
  BY <1>3, RoundRobinPlaced
<1> HIDE DEF switched
<1> QED BY <1>1, <1>3, <1>6, <1>7 DEF ReadyInTurn, old

LEMMA InterruptInTurn ==
  ASSUME IInv, IRQ
  PROVE  ReadyInTurn
<1> DEFINE old == lists.ready
<1>1. lists' = Switched \/ lists' = FeedReaders(Switched, Received)
  BY DEF IRQ, Panic
<1>2. Placed(lists) /\ TypeOK
  BY InvariantNow DEF IInv
<1>3. /\ old \in NodeLists(Threads) /\ ToSet(lists.stall) \cap ToSet(old) = {}
      /\ ToSet(lists.input) \cap ToSet(old) = {}
  BY <1>2 DEF Placed, Lists, Apart
<1>4. Follows(0, old, lists.ready)
  BY <1>3, FollowsItself
<1> HIDE DEF old
<1>5. /\ Placed(Woken) /\ Woken.running = lists.running /\ Woken.input = lists.input
  BY <1>2, UnblockOverduePlaced DEF Woken
<1>6. Follows(0, old, Woken.ready)
  BY <1>2, <1>3, <1>4, UnblockOverdueFollows DEF Woken
<1>7. /\ Placed(Switched) /\ Switched.input = lists.input
  BY <1>5, RoundRobinPlaced DEF Switched
<1>8. /\ FirstFrom(old, Switched.ready)
      /\ old # <<>> /\ Switched.running # lists.running => Head(Switched.running) = Head(old)
  <2>1. CASE m1
    <3>1. Switched = RoundRobin(Woken, "normal")
      BY <2>1 DEF Switched
    <3> QED BY <1>3, <1>5, <1>6, <3>1, SwitchInTurn
  <2>2. CASE ~m1
    <3>1. Switched = Woken
      BY <2>2 DEF Switched
    <3> QED BY <1>5, <1>6, <3>1 DEF FirstFrom
  <2> QED BY <2>1, <2>2
<1>9. Received \in Nat
  <2> DEFINE ends == {unread + 1, UART_INPUT_BUFFER_SIZE}
  <2>1. unread \in Nat
    BY <1>2, UartAssumption DEF TypeOK
  <2>2. ends \subseteq Nat /\ ends # {}
    BY <2>1, UartAssumption
  <2> HIDE DEF ends
  <2>3. Min(ends) \in Nat
    BY <2>2, MinNat
  <2> QED BY <2>1, <2>3 DEF Received, ends
<1>10. FirstFrom(old, FeedReaders(Switched, Received).ready)
  <2>1. ToSet(Switched.input) \cap ToSet(old) = {}
    BY <1>3, <1>7
  <2> QED BY <1>3, <1>7, <1>8, <1>9, <2>1, FeedReadersFollows DEF FirstFrom
<1>11. FeedReaders(Switched, Received).running = Switched.running
  BY <1>7, <1>9, FeedReadersPlaced
<1> QED BY <1>1, <1>8, <1>10, <1>11 DEF ReadyInTurn, old

LEMMA CreationInTurn ==
  ASSUME IInv, CreateProcess \/ CreateThread
  PROVE  ReadyInTurn
<1> DEFINE thread == Head(lists.finished)
           new == [lists EXCEPT !.finished = Tail(@), !.ready = AppendLast(@, thread)]
           more == <<thread>>
           old == lists.ready
<1>1. lists' = lists \/ (lists.finished # <<>> /\ lists' = new)
  BY DEF CreateProcess, CreateThread, CreateIn, Assign, Panic
<1>2. /\ Placed(lists) /\ lists \in Lists /\ old \in NodeLists(Threads)
      /\ lists.finished \in NodeLists(Threads) /\ ToSet(lists.finished) \cap ToSet(old) = {}
  BY InvariantNow DEF Placed, Lists, Apart
<1>3. Follows(0, old, old)
  BY <1>2, FollowsItself
<1>4. CASE lists' = lists
  BY <1>3, <1>4 DEF ReadyInTurn, FirstFrom
<1>5. CASE lists.finished # <<>> /\ lists' = new
  <2>1. Placed(new) /\ new.running = lists.running
    BY <1>2, <1>5, AssignedPlaced
  <2>2. thread \in ToSet(lists.finished) /\ thread \in Threads
    BY <1>2, <1>5, TailNodes
  <2>3. new.ready = old \o more /\ new.ready \in NodeLists(Threads)
    <3>1. new.ready = AppendLast(old, thread)
      BY <1>2 DEF Lists
    <3>2. AppendLast(old, thread) = old \o more
      <4> HIDE DEF old, thread
      <4>1. old \in Seq(Threads)
        BY <1>2, ThreadList
      <4> QED BY <2>2, <4>1 DEF AppendLast
    <3>3. new.ready \in NodeLists(Threads)
      BY <2>1 DEF Placed, Lists
    <3> QED BY <3>1, <3>2, <3>3
  <2>4. more \in NodeLists(Threads) /\ ToSet(more) = {thread}
    BY <2>2, SmallNodes
  <2> HIDE DEF new, more, old, thread
  <2>5. ToSet(more) \cap ToSet(old) = {}
    BY <1>2, <2>2, <2>4
  <2>6. Follows(0, old, new.ready)
    BY <1>2, <1>3, <2>3, <2>4, <2>5, FollowsAppended
  <2> QED BY <1>5, <2>1, <2>6 DEF ReadyInTurn, FirstFrom, old
<1> QED BY <1>1, <1>4, <1>5

LEMMA StepInTurn == IInv /\ [Next]_vars => [ReadyInTurn]_lists
<1> SUFFICES ASSUME IInv, [Next]_vars, lists' # lists
             PROVE  ReadyInTurn
  OBVIOUS
<1>0. Next
  BY DEF vars
<1>1. CASE CreateProcess \/ CreateThread
  BY <1>1, CreationInTurn
<1>2. CASE ReadCharacter \/ YieldThread \/ \E match \in Durations : StallThread(match)
  BY <1>2, CallInTurn
<1>3. CASE ExitThread
  BY <1>3, ExitInTurn
<1>4. CASE IRQ
  BY <1>4, InterruptInTurn
<1>5. CASE Tick \/ SystimerMatch \/ Keypress
  BY <1>5 DEF Tick, SystimerMatch, Keypress
<1> QED BY <1>0, <1>1, <1>2, <1>3, <1>4, <1>5 DEF Next

(* What ReadyListIsQueue says of a step. *)
QueueKept ==
  LET old == lists.ready
      new == lists'.ready
  IN  /\ \A a \in ToSet(old) \cap ToSet(new), b \in ToSet(new) :
           StandsBefore(old, a, b) \/ (b \notin ToSet(old)) => StandsBefore(new, a, b)
      /\ old # <<>> /\ lists'.running # lists.running
           => Head(lists'.running) = Head(old)

(* The ready list is a queue: no thread is overtaken in it, and the thread *)
(* that is switched to is the one that has waited longest, whatever a      *)
(* handler does besides.                                                   *)
THEOREM ReadyThreadsQueue == Spec => ReadyListIsQueue
<1>1. IInv /\ [Next]_vars => [QueueKept]_lists
  <2> SUFFICES ASSUME IInv, ReadyInTurn
               PROVE  QueueKept
    BY StepInTurn
  <2>1. lists.ready \in NodeLists(Threads)
    BY InvariantNow DEF Placed, Lists
  <2> QED BY <2>1, FollowsInOrder DEF ReadyInTurn, QueueKept
<1>2. Spec => [][QueueKept]_lists
  BY <1>1, Inductive, PTL DEF Spec
<1> QED BY <1>2 DEF ReadyListIsQueue, QueueKept

-----------------------------------------------------------------------------
(* Part 5: what the scheduler promises of a thread's life.                 *)

(* The sets of threads that ThreadLifecycle knows. *)
ReadyIn(ls) == ToSet(ls.ready)
RunningIn(ls) == ToSet(ls.running) \ {IdleThread}
StallingIn(ls) == ToSet(ls.stall)
Elsewhere(ls) == ToSet(ls.input) \cup ToSet(ls.finished)

(* A thread that is in no other list is ready. *)
LEMMA ReadyAreTheRest ==
  ASSUME NEW ls, Placed(ls)
  PROVE  /\ ReadyIn(ls) = UserThreads \ (RunningIn(ls) \cup StallingIn(ls) \cup Elsewhere(ls))
         /\ RunningIn(ls) \cap (StallingIn(ls) \cup Elsewhere(ls)) = {}
         /\ StallingIn(ls) \cap Elsewhere(ls) = {}
         /\ RunningIn(ls) \subseteq UserThreads /\ StallingIn(ls) \subseteq UserThreads
         /\ ReadyIn(ls) \cap Elsewhere(ls) = {}
         /\ ls.ready = <<>> <=> ReadyIn(ls) = {}
<1>1. /\ ls.ready \in NodeLists(Threads) /\ ls.running \in NodeLists(Threads)
      /\ ls.stall \in NodeLists(Threads)
  BY DEF Placed, Lists
<1>2. ToSet(ls.ready) \subseteq Threads /\ ToSet(ls.running) \subseteq Threads
      /\ ToSet(ls.stall) \subseteq Threads
  BY <1>1, NodesInSet
<1>3. ls.ready = <<>> <=> ToSet(ls.ready) = {}
  BY <1>1, SmallNodes, TailNodes, IdleIsNoUser
<1> QED BY <1>2, <1>3, IdleIsNoUser
        DEF Placed, Apart, Waiting, ReadyIn, RunningIn, StallingIn, Elsewhere

(* The processor goes to a thread that waits for it, and to the idle       *)
(* thread only if none does; who ran waits again.                          *)
LEMMA SwitchServes ==
  ASSUME NEW ls, Placed(ls), NEW type, ~KeepsRunning(ls, type),
         type = "normal" \/ (ls.running # <<>> /\ Head(ls.running) # IdleThread)
  PROVE  LET new == RoundRobin(ls, type)
         IN  /\ Placed(new)
             /\ new.input = ls.input /\ new.stall = ls.stall /\ new.finished = ls.finished
             /\ RunningIn(new) \in Life!Successors(ReadyIn(ls))
             /\ ReadyIn(new) = (ReadyIn(ls) \ RunningIn(new)) \cup RunningIn(ls)
<1> DEFINE new == RoundRobin(ls, type)
           next == NextThread(ls)
<1>1. /\ Placed(new)
      /\ new.input = ls.input /\ new.stall = ls.stall /\ new.finished = ls.finished
      /\ new.running = <<next>>
  BY RoundRobinPlaced
<1>2. ls.ready \in NodeLists(Threads)
  BY DEF Placed, Lists
<1>3. next = IF ls.ready = <<>> THEN IdleThread ELSE Head(ls.ready)
  BY IdleIsNoUser, SmallNodes DEF NextThread, Candidates
<1> HIDE DEF new, next
<1>4. ls.ready # <<>> => next \in ReadyIn(ls) /\ next # IdleThread
  BY <1>2, <1>3, TailNodes DEF ReadyIn, Placed, Waiting
<1>5. next \in Threads
  BY <1>2, <1>3, <1>4, NodesInSet, IdleIsNoUser DEF ReadyIn
<1>6. RunningIn(new) = {next} \ {IdleThread}
  BY <1>1, <1>5, SmallNodes DEF RunningIn
<1>7. RunningIn(new) \in Life!Successors(ReadyIn(ls))
  BY <1>3, <1>4, <1>6, ReadyAreTheRest DEF Life!Successors
<1>8. StallingIn(new) = StallingIn(ls) /\ Elsewhere(new) = Elsewhere(ls)
  BY <1>1 DEF StallingIn, Elsewhere
<1>9. RunningIn(new) \subseteq ReadyIn(ls)
  BY <1>3, <1>4, <1>6
<1>10. ReadyIn(new) = (ReadyIn(ls) \ RunningIn(new)) \cup RunningIn(ls)
  BY <1>1, <1>8, <1>9, ReadyAreTheRest
<1> QED BY <1>1, <1>7, <1>10 DEF new

(* The thread that gives way by a system call. *)
LEMMA CallerGivesWay ==
  ASSUME IInv, UserThreadRuns
  PROVE  LET switched == RoundRobin(lists, "forced")
         IN  /\ Placed(switched) /\ RunningThread \in ToSet(switched.ready)
             /\ RunningThread \in Threads
             /\ RunningIn(lists) = {RunningThread}
             /\ RunningIn(switched) \in Life!Successors(ReadyIn(lists))
             /\ ReadyIn(switched) = (ReadyIn(lists) \ RunningIn(switched)) \cup {RunningThread}
             /\ RunningThread \notin ReadyIn(lists) \cup StallingIn(lists) \cup Elsewhere(lists)
             /\ switched.input = lists.input /\ switched.stall = lists.stall
             /\ switched.finished = lists.finished
<1>1. Placed(lists) /\ lists.running # <<>> /\ RunningThread # IdleThread
      /\ RunningThread = Head(lists.running)
  BY InvariantNow DEF UserThreadRuns, RunningThread
<1>2. RunningThread \in Threads /\ ToSet(lists.running) = {RunningThread}
  BY <1>1, RunningNodes
<1>3. RunningIn(lists) = {RunningThread}
  BY <1>1, <1>2 DEF RunningIn
<1>4. ~KeepsRunning(lists, "forced")
  BY Zenon DEF KeepsRunning
<1>5. RunningThread \notin ReadyIn(lists) \cup StallingIn(lists) \cup Elsewhere(lists)
  BY <1>1, <1>3, ReadyAreTheRest
<1> QED BY <1>1, <1>2, <1>3, <1>4, <1>5, ForcedSwitch, SwitchServes

(* A step that finishes nobody and leaves the records of the processes     *)
(* alone leaves everybody at home.                                         *)
LEMMA HomesKept ==
  ASSUME UNCHANGED <<pid, pidSlot>>, ToSet(lists'.finished) = ToSet(lists.finished)
  PROVE  Homes' = Homes
<1>1. \A t : Live(t)' <=> Live(t)
  BY DEF Live
<1> QED BY <1>1 DEF Homes

(* The step as ThreadLifecycle sees it: the sets before and after it.      *)
LEMMA YieldLives ==
  ASSUME IInv, YieldThread
  PROVE  Life!Next
<1> DEFINE switched == RoundRobin(lists, "forced")
           t == RunningThread
<1>1. UserThreadRuns /\ ~halted /\ UNCHANGED <<pid, pidSlot, unread>> /\ lists' = switched
  BY DEF YieldThread, Calling, Panic, procVars, uartVars
<1>2. halted' \in BOOLEAN
  BY <1>1 DEF YieldThread, Panic, IInv, TypeOK
<1>3. /\ RunningIn(lists) = {t}
      /\ RunningIn(switched) \in Life!Successors(ReadyIn(lists))
      /\ ReadyIn(switched) = (ReadyIn(lists) \ RunningIn(switched)) \cup {t}
      /\ switched.input = lists.input /\ switched.stall = lists.stall
      /\ switched.finished = lists.finished
  BY <1>1, CallerGivesWay
<1> HIDE DEF switched, t
<1>4. Homes' = Homes
  BY <1>1, <1>3, HomesKept
<1>5. Life!Yield(t)
  BY <1>1, <1>2, <1>3, <1>4 DEF Life!Yield, Life!GivesWay, RunningIn, ReadyIn
<1> QED BY <1>3, <1>5 DEF Life!Next, RunningIn

LEMMA ReadLives ==
  ASSUME IInv, ReadCharacter
  PROVE  Life!Next
<1> DEFINE switched == RoundRobin(lists, "forced")
           t == RunningThread
           new == IgnoreUntilInput(switched, t)
<1>1. UserThreadRuns /\ ~halted /\ UNCHANGED <<pid, pidSlot, unread>>
  BY DEF ReadCharacter, Calling, procVars, uartVars
<1>2. \/ lists' = new /\ halted' = halted
      \/ lists' = switched /\ halted' = TRUE
  BY DEF ReadCharacter, Panic
<1>3. /\ Placed(switched) /\ t \in ToSet(switched.ready)
      /\ RunningIn(lists) = {t}
      /\ RunningIn(switched) \in Life!Successors(ReadyIn(lists))
      /\ ReadyIn(switched) = (ReadyIn(lists) \ RunningIn(switched)) \cup {t}
      /\ t \notin ReadyIn(lists)
      /\ switched.input = lists.input /\ switched.stall = lists.stall
      /\ switched.finished = lists.finished
  BY <1>1, CallerGivesWay
<1>4. /\ new.running = switched.running /\ new.finished = switched.finished
  BY <1>3, IgnoreUntilInputPlaced
<1>5. /\ new.input = Append(switched.input, t) /\ new.stall = switched.stall
      /\ ReadyIn(new) = ReadyIn(switched) \ {t}
  <2>1. switched \in Lists /\ switched.ready \in NodeLists(Threads)
    BY <1>3 DEF Placed, Lists
  <2> HIDE DEF switched, t
  <2>2. ToSet(RemoveNode(switched.ready, t)) = ToSet(switched.ready) \ {t}
    BY <1>3, <2>1, RemoveNodeNodes
  <2>3. /\ new.ready = RemoveNode(switched.ready, t) /\ new.stall = switched.stall
        /\ new.input = AppendLast(switched.input, t)
    BY <2>1 DEF IgnoreUntilInput, Lists
  <2> QED BY <2>2, <2>3 DEF ReadyIn, AppendLast
<1> HIDE DEF switched, t, new
<1>6. Homes' = Homes
  BY <1>1, <1>2, <1>3, <1>4, HomesKept
<1>7. CASE lists' = new /\ halted' = halted
  <2>1. RunningIn(new) = RunningIn(switched)
    BY <1>4 DEF RunningIn
  <2>2. ReadyIn(new) = ReadyIn(lists) \ RunningIn(new)
    BY <1>3, <1>5, <2>1
  <2>3. Life!Read(t)
    BY <1>1, <1>3, <1>5, <1>6, <1>7, <2>1, <2>2 DEF Life!Read, Life!GivesWay, RunningIn, ReadyIn
  <2> QED BY <1>3, <2>3 DEF Life!Next, RunningIn
<1>8. CASE lists' = switched /\ halted' = TRUE
  <2>1. Life!Yield(t)
    BY <1>1, <1>3, <1>6, <1>8 DEF Life!Yield, Life!GivesWay, RunningIn, ReadyIn
  <2> QED BY <1>3, <2>1 DEF Life!Next, RunningIn
<1> QED BY <1>2, <1>7, <1>8

(* A thread that stalls waits in the stall list, or is ready again with    *)
(* those that are woken in the same call.                                  *)
LEMMA StallLives ==
  ASSUME IInv, NEW match \in Durations, StallThread(match)
  PROVE  Life!Next
<1> DEFINE switched == RoundRobin(lists, "forced")
           t == RunningThread
           until == [stallUntil EXCEPT ![t] = (clo + match) % ClockRange]
           moved == [switched EXCEPT !.ready = RemoveNode(@, t),
                                     !.stall = InsertSorted(@, t, until)]
           woken == UnblockOverdue(moved, until)
<1>1. UserThreadRuns /\ ~halted /\ UNCHANGED <<pid, pidSlot, unread>>
  BY DEF StallThread, Calling, procVars, uartVars
<1>2. \/ lists' = woken /\ Head(moved.stall) = t /\ halted' = halted
      \/ lists' = moved /\ halted' = halted
      \/ lists' = switched /\ halted' = TRUE
  BY DEF StallThread, IgnoreUntilMatch, Panic
<1>3. /\ Placed(switched) /\ t \in ToSet(switched.ready) /\ t \in Threads
      /\ RunningIn(lists) = {t}
      /\ RunningIn(switched) \in Life!Successors(ReadyIn(lists))
      /\ ReadyIn(switched) = (ReadyIn(lists) \ RunningIn(switched)) \cup {t}
      /\ t \notin ReadyIn(lists) \cup StallingIn(lists)
      /\ switched.input = lists.input /\ switched.stall = lists.stall
      /\ switched.finished = lists.finished
  BY <1>1, CallerGivesWay
<1> HIDE DEF switched, t
<1>4. /\ Placed(moved) /\ moved.running = switched.running
      /\ moved.finished = switched.finished
  BY <1>3, StalledPlaced
<1>5. /\ moved.input = switched.input
      /\ ReadyIn(moved) = ReadyIn(switched) \ {t}
      /\ StallingIn(moved) = StallingIn(switched) \cup {t}
  <2>1. /\ switched \in Lists /\ switched.ready \in NodeLists(Threads)
        /\ switched.stall \in NodeLists(Threads) /\ t \notin ToSet(switched.stall)
    BY <1>3 DEF Placed, Lists, StallingIn
  <2> HIDE DEF until
  <2>2. /\ ToSet(RemoveNode(switched.ready, t)) = ToSet(switched.ready) \ {t}
        /\ ToSet(InsertSorted(switched.stall, t, until)) = ToSet(switched.stall) \cup {t}
    BY <1>3, <2>1, RemoveNodeNodes, InsertSortedNodes
  <2>3. /\ moved.ready = RemoveNode(switched.ready, t) /\ moved.input = switched.input
        /\ moved.stall = InsertSorted(switched.stall, t, until)
    BY <2>1 DEF Lists
  <2> QED BY <2>2, <2>3 DEF ReadyIn, StallingIn
<1> HIDE DEF moved, until
<1>6. /\ Placed(woken) /\ woken.running = moved.running
      /\ woken.input = moved.input /\ woken.finished = moved.finished
  BY <1>4, UnblockOverduePlaced
<1>7. \/ StallingIn(woken) = StallingIn(moved)
      \/ StallingIn(woken) \subseteq StallingIn(moved) \ {Head(moved.stall)}
  <2>1. moved.stall \in NodeLists(Threads) /\ Len(moved.stall) \in Nat
    BY <1>4, LenProperties DEF Placed, Lists, NodeLists
  <2>2. PICK k \in 0 .. Len(moved.stall) :
          woken.stall = SubSeq(moved.stall, k + 1, Len(moved.stall))
    BY <1>4, UnblockOverdueRest
  <2>3. CASE k = 0
    <3>1. moved.stall \in Seq(Threads) /\ k + 1 = 1
      BY <2>1, <2>3 DEF NodeLists
    <3>2. SubSeq(moved.stall, 1, Len(moved.stall)) = moved.stall
      BY <3>1
    <3> QED BY <2>2, <3>1, <3>2 DEF StallingIn
  <2>4. CASE k # 0
    <3>1. k \in 1 .. Len(moved.stall) /\ moved.stall \in Seq(Threads)
      BY <2>1, <2>4 DEF NodeLists
    <3>2. Head(moved.stall) \in ToSet(SubSeq(moved.stall, 1, k))
      <4>1. SubSeq(moved.stall, 1, k)[1] = moved.stall[1] /\ 1 \in DOMAIN SubSeq(moved.stall, 1, k)
        BY <3>1
      <4> QED BY <3>1, <4>1 DEF ToSet
    <3> QED BY <2>1, <2>2, <3>2, SplitNodes DEF StallingIn
  <2> QED BY <2>3, <2>4
<1> HIDE DEF woken
<1>8. Homes' = Homes
  BY <1>1, <1>2, <1>3, <1>4, <1>6, HomesKept
<1>9. /\ RunningIn(moved) = RunningIn(switched) /\ RunningIn(woken) = RunningIn(switched)
      /\ ReadyIn(moved) = ReadyIn(lists) \ RunningIn(switched)
      /\ StallingIn(moved) = StallingIn(lists) \cup {t}
      /\ moved.input = lists.input /\ woken.input = lists.input
      /\ Elsewhere(woken) = Elsewhere(moved)
  BY <1>3, <1>4, <1>5, <1>6 DEF RunningIn, StallingIn, Elsewhere
<1>10. CASE StallingIn(lists') = StallingIn(moved) /\ lists' \in {moved, woken} /\ halted' = halted
  <2>1. ReadyIn(lists') = ReadyIn(moved) /\ RunningIn(lists') = RunningIn(switched)
        /\ lists'.input = lists.input
    BY <1>4, <1>6, <1>9, <1>10, ReadyAreTheRest
  <2>2. Life!Stall(t)
    BY <1>1, <1>3, <1>8, <1>9, <1>10, <2>1
       DEF Life!Stall, Life!GivesWay, RunningIn, ReadyIn, StallingIn
  <2> QED BY <1>3, <2>2 DEF Life!Next, RunningIn
<1>11. CASE lists' = woken /\ Head(moved.stall) = t /\ halted' = halted
            /\ StallingIn(woken) # StallingIn(moved)
  <2> DEFINE roused == StallingIn(lists) \ StallingIn(woken)
  <2>1. StallingIn(woken) \subseteq StallingIn(moved) \ {t}
    BY <1>7, <1>11
  <2>2. roused \in SUBSET StallingIn(lists) /\ StallingIn(woken) = StallingIn(lists) \ roused
    BY <1>9, <2>1
  <2>3. ReadyIn(woken) = (ReadyIn(lists) \ RunningIn(woken)) \cup roused \cup {t}
    BY <1>3, <1>4, <1>6, <1>9, <2>1, <2>2, ReadyAreTheRest
  <2> HIDE DEF roused
  <2>4. Life!StallBriefly(t)
    BY <1>1, <1>3, <1>8, <1>9, <1>11, <2>2, <2>3
       DEF Life!StallBriefly, Life!GivesWay, RunningIn, ReadyIn, StallingIn
  <2> QED BY <1>3, <2>4 DEF Life!Next, RunningIn
<1>12. CASE lists' = switched /\ halted' = TRUE
  <2>1. Life!Yield(t)
    BY <1>1, <1>3, <1>8, <1>12 DEF Life!Yield, Life!GivesWay, RunningIn, ReadyIn
  <2> QED BY <1>3, <2>1 DEF Life!Next, RunningIn
<1> QED BY <1>2, <1>10, <1>11, <1>12

LEMMA ExitLives ==
  ASSUME IInv, ExitThread
  PROVE  Life!Next
<1> DEFINE cleaned == Cleaned(lists)
           new == RoundRobin(cleaned, "normal")
           t == RunningThread
<1>1. /\ UserThreadRuns /\ ~halted /\ UNCHANGED <<pid, pidSlot, unread>>
      /\ lists' = new
  BY DEF ExitThread, Calling, Panic, procVars, uartVars
<1>2. halted' \in BOOLEAN
  BY <1>1 DEF ExitThread, Panic, IInv, TypeOK
<1>3. Placed(lists) /\ lists.running # <<>> /\ t # IdleThread /\ t = Head(lists.running)
  BY <1>1, InvariantNow DEF UserThreadRuns, RunningThread
<1>4. RunningIn(lists) = {t} /\ t \notin ReadyIn(lists)
  BY <1>1, CallerGivesWay
<1>5. /\ Placed(cleaned) /\ cleaned.running = <<>>
      /\ ToSet(cleaned.finished) = ToSet(lists.finished) \cup {t}
  BY <1>3, CleanedPlaced
<1>6. /\ cleaned.ready = lists.ready /\ cleaned.input = lists.input
      /\ cleaned.stall = lists.stall
  BY <1>3 DEF Cleaned, Placed, Lists
<1> HIDE DEF cleaned, t
<1>7. RunningIn(cleaned) = {} /\ ~KeepsRunning(cleaned, "normal")
  BY <1>5, SmallNodes, IdleIsNoUser DEF RunningIn, KeepsRunning
<1>8. /\ new.input = cleaned.input /\ new.stall = cleaned.stall
      /\ new.finished = cleaned.finished
      /\ RunningIn(new) \in Life!Successors(ReadyIn(cleaned))
      /\ ReadyIn(new) = ReadyIn(cleaned) \ RunningIn(new)
  BY <1>5, <1>7, SwitchServes
<1> HIDE DEF new
<1>9. Homes' = [Homes EXCEPT ![t] = <<>>]
  <2>1. \A u \in UserThreads : Live(u)' <=> Live(u) /\ u # t
    BY <1>1, <1>5, <1>8 DEF Live
  <2> QED BY <1>1, <2>1 DEF Homes
<1>10. Life!Exit(t)
  BY <1>1, <1>2, <1>4, <1>6, <1>8, <1>9
     DEF Life!Exit, Life!GivesWay, Life!Nowhere, RunningIn, ReadyIn
<1> QED BY <1>4, <1>10 DEF Life!Next, RunningIn

(* How many readers n characters serve. *)
ReadersFed(ls, n) == Min({n, Len(ls.input)})

LEMMA FeedReadersServes ==
  ASSUME NEW ls, Placed(ls), NEW n \in Nat
  PROVE  /\ FeedReaders(ls, n).running = ls.running
         /\ FeedReaders(ls, n).stall = ls.stall
         /\ FeedReaders(ls, n).finished = ls.finished
         /\ FeedReaders(ls, n).input = SubSeq(ls.input, ReadersFed(ls, n) + 1, Len(ls.input))
         /\ ReadyIn(FeedReaders(ls, n)) =
              ReadyIn(ls) \cup ToSet(SubSeq(ls.input, 1, ReadersFed(ls, n)))
         /\ Len(ls.input) - Len(FeedReaders(ls, n).input) = ReadersFed(ls, n)
         /\ ReadersFed(ls, n) \in Nat
<1> DEFINE ends == {n, Len(ls.input)}
           served == Min(ends)
           front == SubSeq(ls.input, 1, served)
           new == FeedReaders(ls, n)
<1>1. /\ ls \in Lists /\ ls.input \in NodeLists(Threads) /\ Len(ls.input) \in Nat
      /\ ls.ready \in NodeLists(Threads)
  BY LenProperties DEF Placed, Lists, NodeLists
<1>2. ends \subseteq Nat /\ ends # {}
  BY <1>1
<1>3. /\ new.ready = ls.ready \o front
      /\ new.input = SubSeq(ls.input, served + 1, Len(ls.input))
      /\ new.running = ls.running /\ new.stall = ls.stall /\ new.finished = ls.finished
  <2>1. \A k : LET fed == [ls EXCEPT !.ready = @ \o SubSeq(ls.input, 1, k),
                                     !.input = SubSeq(@, k + 1, Len(@))]
               IN  /\ fed.ready = ls.ready \o SubSeq(ls.input, 1, k)
                   /\ fed.input = SubSeq(ls.input, k + 1, Len(ls.input))
                   /\ fed.running = ls.running /\ fed.stall = ls.stall
                   /\ fed.finished = ls.finished
    BY <1>1 DEF Lists
  <2>2. new = [ls EXCEPT !.ready = @ \o SubSeq(ls.input, 1, served),
                         !.input = SubSeq(@, served + 1, Len(@))]
    BY DEF FeedReaders
  <2> HIDE DEF new, served
  <2> QED BY <2>1, <2>2
<1>4. new = [ls EXCEPT !.ready = @ \o SubSeq(ls.input, 1, served),
                       !.input = SubSeq(@, served + 1, Len(@))]
  BY DEF FeedReaders
<1> HIDE DEF ends, new
<1>5. Min(ends) \in ends /\ \A y \in ends : Min(ends) <= y
  BY <1>2, MinNat
<1>6. served \in 0 .. Len(ls.input)
  BY <1>1, <1>5 DEF ends
<1> HIDE DEF served
<1>7. Len(new.input) = Len(ls.input) - served
  BY <1>4, <1>6, InputPrefixPlaced
<1>8. Len(ls.input) - Len(new.input) = served
  BY <1>1, <1>6, <1>7
<1>9. front \in NodeLists(Threads) /\ ToSet(front) \subseteq ToSet(ls.input)
  BY <1>1, <1>6, SplitNodes
<1>10. ToSet(ls.ready \o front) = ToSet(ls.ready) \cup ToSet(front)
  <2>1. ToSet(ls.ready) \cap ToSet(front) = {}
    BY <1>9 DEF Placed, Apart
  <2> HIDE DEF front
  <2> QED BY <1>1, <1>9, <2>1, ConcatNodes
<1>11. ReadyIn(new) = ReadyIn(ls) \cup ToSet(front) /\ served \in Nat
  BY <1>3, <1>6, <1>10 DEF ReadyIn
<1> HIDE DEF front
<1>12. /\ new.running = ls.running /\ new.stall = ls.stall
       /\ new.finished = ls.finished
       /\ new.input = SubSeq(ls.input, served + 1, Len(ls.input))
       /\ ReadyIn(new) = ReadyIn(ls) \cup ToSet(front)
       /\ Len(ls.input) - Len(new.input) = served
       /\ served \in Nat
  BY <1>3, <1>8, <1>11
<1> QED BY <1>12 DEF ReadersFed, served, ends, new, front

(* The interrupt handler in the words of ThreadLifecycle: it wakes some,    *)
(* may switch, and then feeds readers unless it halts.                     *)
LEMMA InterruptParts ==
  ASSUME IInv, IRQ
  PROVE  /\ Placed(Woken) /\ Woken.running = lists.running
         /\ Woken.input = lists.input /\ Woken.finished = lists.finished
         /\ StallingIn(Woken) \subseteq StallingIn(lists)
         /\ ReadyIn(Woken) = ReadyIn(lists) \cup (StallingIn(lists) \ StallingIn(Woken))
         /\ \/ Switched = Woken
            \/ ~KeepsRunning(Woken, "normal") /\ Switched = RoundRobin(Woken, "normal")
         /\ Placed(Switched) /\ Received \in Nat
         /\ \/ /\ lists' = FeedReaders(Switched, Received)
               /\ unread' = Received - (Len(Switched.input) - Len(lists'.input))
               /\ halted' = halted
            \/ /\ ~KeepsRunning(Woken, "normal") /\ Switched = RoundRobin(Woken, "normal")
               /\ lists' = Switched /\ unread' = unread /\ halted' = TRUE
         /\ ~halted /\ pid' = pid /\ pidSlot' = pidSlot
<1>1. Placed(lists) /\ TypeOK
  BY InvariantNow DEF IInv
<1>2. /\ Placed(Woken) /\ Woken.running = lists.running
      /\ Woken.input = lists.input /\ Woken.finished = lists.finished
      /\ StallingIn(Woken) \subseteq StallingIn(lists)
  BY <1>1, UnblockOverduePlaced, UnblockOverdueFewer DEF Woken, StallingIn
<1>3. ReadyIn(Woken) = ReadyIn(lists) \cup (StallingIn(lists) \ StallingIn(Woken))
  <2>1. RunningIn(Woken) = RunningIn(lists) /\ Elsewhere(Woken) = Elsewhere(lists)
    BY <1>2 DEF RunningIn, Elsewhere
  <2> QED BY <1>1, <1>2, <2>1, ReadyAreTheRest
<1>4. \/ Switched = Woken
      \/ ~KeepsRunning(Woken, "normal") /\ Switched = RoundRobin(Woken, "normal")
  BY DEF Switched, RoundRobin
<1>5. Placed(Switched)
  BY <1>2, <1>4, RoundRobinPlaced
<1>6. Received \in Nat
  <2> DEFINE ends == {unread + 1, UART_INPUT_BUFFER_SIZE}
  <2>1. unread \in Nat
    BY <1>1, UartAssumption DEF TypeOK
  <2>2. ends \subseteq Nat /\ ends # {}
    BY <2>1, UartAssumption
  <2> HIDE DEF ends
  <2>3. Min(ends) \in Nat
    BY <2>2, MinNat
  <2> QED BY <2>1, <2>3 DEF Received, ends
<1>7. \/ /\ lists' = FeedReaders(Switched, Received)
         /\ unread' = Received - (Len(Switched.input) - Len(lists'.input))
         /\ halted' = halted
      \/ /\ m1 /\ ~KeepsRunning(Woken, "normal")
         /\ lists' = Switched /\ unread' = unread /\ halted' = TRUE
  BY DEF IRQ, Panic, uartVars
<1>8. m1 => Switched = RoundRobin(Woken, "normal")
  BY DEF Switched
<1>9. ~halted /\ pid' = pid /\ pidSlot' = pidSlot
  BY DEF IRQ, procVars
<1> QED BY <1>2, <1>3, <1>4, <1>5, <1>6, <1>7, <1>8, <1>9

(* The handler feeds readers after its switch, and nothing else.           *)
LEMMA InterruptFeeds ==
  ASSUME IInv, IRQ
  PROVE  /\ lists'.running = Switched.running /\ lists'.stall = Switched.stall
         /\ lists'.finished = Switched.finished
         /\ ReadyIn(Switched) \subseteq ReadyIn(lists')
<1>1. Placed(Switched) /\ Received \in Nat
  BY InterruptParts
<1>2. lists' = Switched \/ lists' = FeedReaders(Switched, Received)
  BY InterruptParts
<1>3. CASE lists' = Switched
  BY <1>3
<1>4. CASE lists' = FeedReaders(Switched, Received)
  BY <1>1, <1>4, FeedReadersServes
<1> QED BY <1>2, <1>3, <1>4

(* Nobody runs only before the first switch, and then a thread is ready.   *)
SomebodyToRun == lists.running = <<>> => lists.ready # <<>>

LEMMA InvariantPlaced == IInv => Placed(lists)
BY InvariantNow

LEMMA PlacedNext ==
  ASSUME IInv'
  PROVE  Placed(lists')
<1>1. (IInv => Placed(lists))'
  BY InvariantPlaced, PTL
<1> QED BY <1>1

LEMMA InitRuns == Init => SomebodyToRun
<1> SUFFICES ASSUME Init
             PROVE  SomebodyToRun
  OBVIOUS
<1>1. lists.ready = <<0>>
  BY DEF Init
<1> QED BY <1>1 DEF SomebodyToRun

LEMMA StepRuns == IInv /\ SomebodyToRun /\ [Next]_vars => SomebodyToRun'
<1> SUFFICES ASSUME IInv, SomebodyToRun, Next
             PROVE  SomebodyToRun'
  BY DEF SomebodyToRun, vars
<1>1. CASE ReadCharacter \/ YieldThread \/ \E match \in Durations : StallThread(match)
  BY <1>1, CallSwitches, RoundRobinPlaced DEF Switch, SomebodyToRun
<1>2. CASE ExitThread
  BY <1>2, ExitSwitches, RoundRobinPlaced DEF Switch, SomebodyToRun
<1>3. CASE CreateProcess \/ CreateThread
  <2>1. lists.running # <<>> /\ lists'.running = lists.running
    <3>1. UserThreadRuns
      BY <1>3 DEF CreateProcess, CreateThread, Calling
    <3>2. lists \in Lists
      BY InvariantNow DEF Placed
    <3> QED BY <1>3, <3>1, <3>2
            DEF UserThreadRuns, CreateProcess, CreateThread, CreateIn, Assign, Panic, Lists
  <2> QED BY <2>1 DEF SomebodyToRun
<1>4. CASE IRQ
  <2>1. Placed(lists) /\ Placed(lists')
    BY <1>4, IRQStep, InvariantNow, PlacedNext
  <2>2. lists'.running = Switched.running /\ ReadyIn(Switched) \subseteq ReadyIn(lists')
    BY <1>4, InterruptFeeds
  <2>3. CASE Switched = Woken
    <3>1. lists'.running = lists.running /\ ReadyIn(lists) \subseteq ReadyIn(lists')
      BY <1>4, <2>2, <2>3, InterruptParts
    <3> QED BY <2>1, <3>1, ReadyAreTheRest DEF SomebodyToRun
  <2>4. CASE Switched = RoundRobin(Woken, "normal")
    BY <1>4, <2>2, <2>4, InterruptParts, RoundRobinPlaced DEF SomebodyToRun
  <2> QED BY <1>4, <2>3, <2>4, InterruptParts
<1>5. CASE Tick \/ SystimerMatch \/ Keypress
  BY <1>5 DEF Tick, SystimerMatch, Keypress, SomebodyToRun
<1> QED BY <1>1, <1>2, <1>3, <1>4, <1>5 DEF Next

(* Received is what the reader's side sees of the new character.           *)
LEMMA ReceivedIs ==
  ASSUME TypeOK
  PROVE  \E arrived \in 0 .. 1 : Received = Life!Min({unread + arrived, UART_INPUT_BUFFER_SIZE})
<1>1. unread \in Nat /\ UART_INPUT_BUFFER_SIZE \in Nat /\ unread <= UART_INPUT_BUFFER_SIZE
  BY UartAssumption DEF TypeOK
<1>2. CASE rx
  <2>1. Received = Life!Min({unread + 1, UART_INPUT_BUFFER_SIZE})
    BY <1>2 DEF Received, Life!Min, Min
  <2> QED BY <2>1
<1>3. CASE ~rx
  <2> DEFINE ends == {unread + 0, UART_INPUT_BUFFER_SIZE}
  <2>1. ends \subseteq Nat /\ ends # {}
    BY <1>1
  <2>2. ends = {unread, UART_INPUT_BUFFER_SIZE}
    BY <1>1
  <2> HIDE DEF ends
  <2>3. Min(ends) \in ends /\ \A y \in ends : Min(ends) <= y
    BY <2>1, MinNat
  <2>4. Min(ends) = unread
    BY <1>1, <2>2, <2>3
  <2>5. Received = Life!Min(ends)
    BY <1>3, <2>4 DEF Received, Life!Min, Min
  <2> QED BY <2>5 DEF ends
<1> QED BY <1>2, <1>3

LEMMA ReadersAreServed ==
  ASSUME IInv, IRQ, lists' = FeedReaders(Switched, Received),
         unread' = Received - (Len(Switched.input) - Len(lists'.input)),
         halted' = halted, Switched.input = lists.input
  PROVE  Life!Serve(ReadyIn(Switched))
<1> DEFINE served == Life!Min({Received, Len(lists.input)})
<1>1. PICK arrived \in 0 .. 1 :
        Received = Life!Min({unread + arrived, UART_INPUT_BUFFER_SIZE})
  BY ReceivedIs DEF IInv
<1>2. /\ lists'.input = SubSeq(lists.input, served + 1, Len(lists.input))
      /\ ReadyIn(lists') = ReadyIn(Switched) \cup Life!ToSet(SubSeq(lists.input, 1, served))
      /\ unread' = Received - served
  <2>1. served = ReadersFed(Switched, Received)
    BY DEF Life!Min, Min, ReadersFed
  <2>2. \A s : Life!ToSet(s) = ToSet(s)
    BY DEF Life!ToSet, ToSet
  <2> HIDE DEF served
  <2>3. Placed(Switched) /\ Received \in Nat
    BY InterruptParts
  <2>4. /\ lists'.input = SubSeq(Switched.input, served + 1, Len(Switched.input))
        /\ ReadyIn(lists') = ReadyIn(Switched) \cup ToSet(SubSeq(Switched.input, 1, served))
        /\ Len(Switched.input) - Len(lists'.input) = served
    BY <2>1, <2>3, FeedReadersServes
  <2> QED BY <2>2, <2>4
<1> QED BY <1>1, <1>2 DEF Life!Serve, ReadyIn

LEMMA InterruptLives ==
  ASSUME IInv, SomebodyToRun, IRQ
  PROVE  Life!Interrupt
<1> DEFINE roused == StallingIn(lists) \ StallingIn(Woken)
           waiting == ReadyIn(lists) \cup roused
<1>1. Placed(lists) /\ Placed(Woken) /\ ~halted
  BY InvariantNow, InterruptParts
<1>2. /\ roused \in SUBSET StallingIn(lists) /\ ReadyIn(Woken) = waiting
      /\ StallingIn(Woken) = StallingIn(lists) \ roused
      /\ RunningIn(Woken) = RunningIn(lists)
  BY InterruptParts DEF RunningIn
<1>3. /\ Switched.input = lists.input /\ Switched.finished = lists.finished
      /\ StallingIn(Switched) = StallingIn(Woken)
  BY <1>1, InterruptParts, SwitchServes DEF StallingIn
<1>4. /\ RunningIn(lists') = RunningIn(Switched)
      /\ StallingIn(lists') = StallingIn(Switched)
      /\ lists'.finished = Switched.finished
  BY InterruptFeeds DEF RunningIn, StallingIn
<1>5. Homes' = Homes
  BY <1>3, <1>4, InterruptParts, HomesKept
<1>6. \/ Life!Serve(ReadyIn(Switched))
      \/ /\ Life!Halt(ReadyIn(Switched)) /\ ~KeepsRunning(Woken, "normal")
         /\ Switched = RoundRobin(Woken, "normal")
  <2>1. CASE /\ lists' = FeedReaders(Switched, Received)
             /\ unread' = Received - (Len(Switched.input) - Len(lists'.input))
             /\ halted' = halted
    BY <1>3, <2>1, ReadersAreServed
  <2>2. CASE /\ ~KeepsRunning(Woken, "normal") /\ Switched = RoundRobin(Woken, "normal")
             /\ lists' = Switched /\ unread' = unread /\ halted' = TRUE
    BY <1>3, <2>2 DEF Life!Halt, ReadyIn
  <2> QED BY <2>1, <2>2, InterruptParts
<1> HIDE DEF roused, waiting
<1>7. CASE Switched = Woken /\ Life!Serve(ReadyIn(Switched))
  <2>1. RunningIn(lists') = RunningIn(lists) /\ StallingIn(lists') = StallingIn(lists) \ roused
    BY <1>2, <1>3, <1>4, <1>7
  <2>2. Life!Serve(waiting)
    BY <1>2, <1>7
  <2> QED BY <1>1, <1>2, <1>5, <2>1, <2>2
          DEF Life!Interrupt, RunningIn, StallingIn, ReadyIn, waiting
<1>8. CASE ~KeepsRunning(Woken, "normal") /\ Switched = RoundRobin(Woken, "normal")
  <2>1. waiting # {}
    <3>1. Woken.running = lists.running /\ (Woken.ready = <<>> <=> waiting = {})
      BY <1>1, <1>2, ReadyAreTheRest, InterruptParts
    <3>2. lists.ready = <<>> <=> ReadyIn(lists) = {}
      BY <1>1, ReadyAreTheRest
    <3> QED BY <1>8, <3>1, <3>2, Zenon DEF KeepsRunning, SomebodyToRun, waiting
  <2>2. /\ RunningIn(Switched) \in Life!Successors(waiting)
        /\ ReadyIn(Switched) = (waiting \ RunningIn(Switched)) \cup RunningIn(lists)
    BY <1>1, <1>2, <1>8, SwitchServes
  <2>3. RunningIn(lists') = RunningIn(Switched) /\ StallingIn(lists') = StallingIn(lists) \ roused
    BY <1>2, <1>3, <1>4
  <2>4. \/ Life!Serve((waiting \ RunningIn(lists')) \cup RunningIn(lists))
        \/ Life!Halt((waiting \ RunningIn(lists')) \cup RunningIn(lists))
    BY <1>6, <2>2, <2>3
  <2>5. RunningIn(lists') \in Life!Successors(waiting)
    BY <2>2, <2>3
  <2> QED BY <1>1, <1>2, <1>5, <2>1, <2>3, <2>4, <2>5
          DEF Life!Interrupt, RunningIn, StallingIn, ReadyIn, waiting
<1> QED BY <1>6, <1>7, <1>8, InterruptParts

(* Who lives in a process, as its address space list has it. *)
LEMMA ResidentsAre ==
  ASSUME IInv, NEW a \in AddressSpaces
  PROVE  /\ Life!Residents(a) = spaces[a]
         /\ \A slot \in FreeSlots(a), t \in UserThreads : Homes[t] # <<a, slot>>
<1>1. \A t \in UserThreads : Homes[t] = IF Live(t) THEN <<pid[t], pidSlot[t]>> ELSE <<>>
  BY DEF Homes
<1>2. spaces[a] = {t \in UserThreads : Live(t) /\ pid[t] = a}
      /\ slotsUsed[a] = {pidSlot[t] : t \in spaces[a]}
  BY DEF IInv, SlotBookkeeping
<1>3. ASSUME NEW t \in UserThreads
      PROVE  Homes[t] # <<>> /\ Homes[t][1] = a <=> Live(t) /\ pid[t] = a
  <2>1. CASE Live(t)
    <3>1. Homes[t] = <<pid[t], pidSlot[t]>>
      BY <1>1, <2>1
    <3>2. <<pid[t], pidSlot[t]>> # <<>> /\ <<pid[t], pidSlot[t]>>[1] = pid[t]
      OBVIOUS
    <3> QED BY <2>1, <3>1, <3>2
  <2>2. CASE ~Live(t)
    BY <1>1, <2>2
  <2> QED BY <2>1, <2>2
<1>4. Life!Residents(a) = spaces[a]
  BY <1>2, <1>3 DEF Life!Residents, Life!Nowhere
<1>5. ASSUME NEW slot \in FreeSlots(a), NEW t \in UserThreads, Homes[t] = <<a, slot>>
      PROVE  FALSE
  <2>1. Live(t) /\ pid[t] = a /\ pidSlot[t] = slot
    <3>1. <<a, slot>> # <<>> /\ <<a, slot>>[1] = a /\ <<a, slot>>[2] = slot
      OBVIOUS
    <3>2. Live(t)
      BY <1>1, <1>5, <3>1
    <3>3. <<pid[t], pidSlot[t]>> = <<a, slot>>
      BY <1>1, <1>5, <3>2
    <3> QED BY <3>2, <3>3
  <2>2. slot \in slotsUsed[a]
    BY <1>2, <2>1
  <2> QED BY <1>5, <2>2 DEF FreeSlots
<1> QED BY <1>4, <1>5

LEMMA CreateInLives ==
  ASSUME IInv, ~halted, NEW a \in AddressSpaces, NEW slot \in FreeSlots(a), CreateIn(a, slot)
  PROVE  Life!Enter(a, slot)
<1> DEFINE t == Head(lists.finished)
           new == [lists EXCEPT !.finished = Tail(@), !.ready = AppendLast(@, t)]
<1>1. lists.finished # <<>>
  <2>1. slotsUsed[a] # Slots
    BY DEF FreeSlots
  <2> QED BY <2>1, NoFreeThreadNoFreeSlot
<1>2. Assign(a, slot) /\ unread' = unread
  BY <1>1 DEF CreateIn, uartVars
<1>3. /\ lists' = new /\ halted' = halted
      /\ pid' = [pid EXCEPT ![t] = a] /\ pidSlot' = [pidSlot EXCEPT ![t] = slot]
  BY <1>2 DEF Assign
<1>4. /\ Placed(lists) /\ Placed(new) /\ new.running = lists.running
      /\ t \in UserThreads /\ t \in ToSet(lists.finished)
      /\ ToSet(new.finished) = ToSet(lists.finished) \ {t}
  BY <1>1, InvariantNow, AssignedPlaced
<1>5. new.input = lists.input /\ new.stall = lists.stall
  BY <1>4 DEF Placed, Lists
<1> HIDE DEF t, new
<1>6. RunningIn(new) = RunningIn(lists) /\ StallingIn(new) = StallingIn(lists)
  BY <1>4, <1>5 DEF RunningIn, StallingIn
<1>7. ReadyIn(new) = ReadyIn(lists) \cup {t}
  <2>1. Elsewhere(new) = Elsewhere(lists) \ {t}
    BY <1>4, <1>5 DEF Elsewhere, Placed, Apart
  <2>2. t \in Elsewhere(lists)
    BY <1>4 DEF Elsewhere
  <2> QED BY <1>4, <1>6, <2>1, <2>2, ReadyAreTheRest
<1>8. Homes[t] = <<>>
  BY <1>4 DEF Homes, Live
<1>9. Homes' = [Homes EXCEPT ![t] = <<a, slot>>]
  <2>1. \A u \in UserThreads : Live(u)' <=> Live(u) \/ u = t
    BY <1>3, <1>4 DEF Live
  <2>2. t \in DOMAIN pid /\ t \in DOMAIN pidSlot
    BY <1>4, IdleIsNoUser DEF IInv, TypeOK
  <2>3. \A u \in UserThreads : /\ pid'[u] = IF u = t THEN a ELSE pid[u]
                               /\ pidSlot'[u] = IF u = t THEN slot ELSE pidSlot[u]
    BY <1>3, <2>2, IdleIsNoUser DEF IInv, TypeOK
  <2>4. \A u \in UserThreads :
          Homes'[u] = IF u = t THEN <<a, slot>> ELSE Homes[u]
    BY <2>1, <2>3 DEF Homes
  <2> QED BY <1>4, <2>4 DEF Homes
<1>10. \A u \in UserThreads : Homes[u] # <<a, slot>>
  BY ResidentsAre
<1> QED BY <1>2, <1>3, <1>4, <1>5, <1>6, <1>7, <1>8, <1>9, <1>10
        DEF Life!Enter, Life!Nowhere, RunningIn, StallingIn, ReadyIn

LEMMA CreationLives ==
  ASSUME IInv, CreateProcess \/ CreateThread
  PROVE  Life!Next
<1>1. UserThreadRuns /\ ~halted
  BY DEF CreateProcess, CreateThread, Calling
<1>2. RunningIn(lists) = {RunningThread}
  BY <1>1, CallerGivesWay
<1>3. CASE CreateProcess
  <2> DEFINE a == Min(EmptyAddressSpaces)
  <2>1. a \in EmptyAddressSpaces
    <3>1. EmptyAddressSpaces \subseteq Nat /\ EmptyAddressSpaces # {}
      BY <1>3 DEF CreateProcess, EmptyAddressSpaces, AddressSpaces
    <3> QED BY <3>1, MinNat
  <2>2. CreateIn(a, 0)
    BY <1>3 DEF CreateProcess
  <2> HIDE DEF a
  <2>3. a \in AddressSpaces /\ spaces[a] = {} /\ slotsUsed[a] = {} /\ 0 \in Slots
    BY <2>1, CapacityAssumption DEF EmptyAddressSpaces, IInv, SlotBookkeeping, Slots
  <2>4. Life!Enter(a, 0) /\ Life!Residents(a) = {}
    BY <1>1, <2>2, <2>3, CreateInLives, ResidentsAre DEF FreeSlots
  <2>5. Life!StartProcess
    BY <1>2, <2>3, <2>4 DEF Life!StartProcess, RunningIn
  <2> QED BY <2>5 DEF Life!Next
<1>4. CASE CreateThread
  <2> DEFINE a == pid[RunningThread]
             slot == Min(FreeSlots(a))
  <2>1. RunningThread \in UserThreads /\ Live(RunningThread)
    BY <1>1, RunningIsLive
  <2>2. a \in AddressSpaces
    BY <2>1, PidOfThread, IdleIsNoUser DEF IInv
  <2>3. slot \in FreeSlots(a)
    <3>1. FreeSlots(a) \subseteq Nat /\ FreeSlots(a) # {}
      BY <1>4 DEF CreateThread, FreeSlots, Slots
    <3> QED BY <3>1, MinNat
  <2>4. CreateIn(a, slot)
    BY <1>4 DEF CreateThread
  <2>5. Homes[RunningThread][1] = a
    BY <2>1 DEF Homes
  <2> HIDE DEF a, slot
  <2>6. Life!Enter(a, slot) /\ slot \in Slots
    BY <1>1, <2>2, <2>3, <2>4, CreateInLives DEF FreeSlots
  <2>7. Life!StartThread
    BY <1>2, <2>5, <2>6 DEF Life!StartThread, RunningIn
  <2> QED BY <2>7 DEF Life!Next
<1> QED BY <1>3, <1>4

(* The first thread is the one of Init. *)
LEMMA InitLives == Init => Life!Init
<1> SUFFICES ASSUME Init
             PROVE  Life!Init
  OBVIOUS
<1> DEFINE rest == [i \in 1 .. USER_THREAD_COUNT - 1 |-> i]
<1>1. USER_THREAD_COUNT \in Nat \ {0} /\ 0 \in AddressSpaces /\ 0 \in Slots
  <2>1. \A a, b \in Nat \ {0} : a * b > 0
    OBVIOUS
  <2>2. ADDRESS_SPACE_COUNT * THREADS_PER_ADDRESS_SPACE > 0
    BY <2>1, CapacityAssumption
  <2> QED BY <2>2, CapacityAssumption DEF AddressSpaces, Slots
<1>2. 0 \in UserThreads /\ UserThreads \subseteq Threads /\ 0 \in Threads
  BY <1>1 DEF UserThreads, Threads
<1>3. /\ lists.ready = <<0>> /\ lists.running = <<>> /\ lists.input = <<>>
      /\ lists.stall = <<>> /\ lists.finished = rest
  BY DEF Init
<1>4. ToSet(<<0>>) = {0} /\ ToSet(<<>>) = {}
  BY <1>2, SmallNodes
<1>5. \A t \in UserThreads : Live(t) <=> t = 0
  <2>1. ToSet(rest) = 1 .. USER_THREAD_COUNT - 1
    BY DEF ToSet
  <2> QED BY <1>1, <1>3, <2>1 DEF Live, UserThreads
<1>6. \A t \in UserThreads : pid[t] = 0 /\ pidSlot[t] = 0
  BY <1>2, IdleIsNoUser DEF Init
<1>7. Homes = [t \in UserThreads |-> IF t = 0 THEN <<0, 0>> ELSE <<>>]
  BY <1>5, <1>6 DEF Homes
<1>8. unread = 0 /\ halted = FALSE
  BY DEF Init
<1> QED BY <1>1, <1>2, <1>3, <1>4, <1>7, <1>8 DEF Life!Init, Life!Nowhere

LEMMA StepLives == IInv /\ SomebodyToRun /\ [Next]_vars => [Life!Next]_Life!vars
<1> SUFFICES ASSUME IInv, SomebodyToRun, [Next]_vars
             PROVE  Life!Next \/ UNCHANGED Life!vars
  OBVIOUS
<1>1. CASE CreateProcess \/ CreateThread
  BY <1>1, CreationLives
<1>2. CASE ReadCharacter
  BY <1>2, ReadLives
<1>3. CASE YieldThread
  BY <1>3, YieldLives
<1>4. CASE \E match \in Durations : StallThread(match)
  BY <1>4, StallLives
<1>5. CASE ExitThread
  BY <1>5, ExitLives
<1>6. CASE IRQ
  BY <1>6, InterruptLives DEF Life!Next
<1>7. CASE Tick \/ SystimerMatch \/ Keypress \/ UNCHANGED vars
  <2>1. UNCHANGED <<lists, pid, pidSlot, unread, halted>>
    BY <1>7 DEF Tick, SystimerMatch, Keypress, vars, procVars, uartVars
  <2>2. Homes' = Homes
    BY <2>1, HomesKept
  <2> QED BY <2>1, <2>2 DEF Life!vars
<1> QED BY <1>1, <1>2, <1>3, <1>4, <1>5, <1>6, <1>7 DEF Next

(* Whatever the programs call and whenever interrupts arrive, every thread *)
(* lives as ThreadLifecycle promises: it enters a free slot of a process   *)
(* or its creator's, waits where its own calls put it, runs only out of    *)
(* the ready ones, and leaves its slot when it exits.                      *)
THEOREM LivesAsPromised == Spec => ImplementsLifecycle
<1>1. Spec => [](IInv /\ SomebodyToRun)
  BY Inductive, InitRuns, StepRuns, PTL DEF Spec
<1>2. Spec => Life!Init /\ [][Life!Next]_Life!vars
  BY <1>1, InitLives, StepLives, PTL DEF Spec
<1> QED BY <1>2 DEF ImplementsLifecycle, Life!Spec
=============================================================================
