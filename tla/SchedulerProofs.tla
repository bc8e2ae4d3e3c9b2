--------------------------- MODULE SchedulerProofs ---------------------------
(***************************************************************************)
(* Proofs of the scheduler's invariants for every number of threads,       *)
(* processes and slots, every clock and every choice of system calls.      *)
(***************************************************************************)
EXTENDS Scheduler, KernelListProofs, FiniteSetTheorems

-----------------------------------------------------------------------------
(* Part 1: the operators that move threads between the lists.              *)

(* The lists as a whole: ListPartition, and the type of the lists, said of *)
(* a value of the variable, which a handler works on in several steps.     *)
Lists == [ready : NodeLists(Threads), running : NodeLists(Threads),
          input : NodeLists(Threads), stall : NodeLists(Threads),
          finished : NodeLists(Threads)]

Apart(ls) ==
  /\ ToSet(ls.ready) \cap ToSet(ls.running) = {}
  /\ ToSet(ls.ready) \cap ToSet(ls.input) = {}
  /\ ToSet(ls.ready) \cap ToSet(ls.stall) = {}
  /\ ToSet(ls.ready) \cap ToSet(ls.finished) = {}
  /\ ToSet(ls.running) \cap ToSet(ls.input) = {}
  /\ ToSet(ls.running) \cap ToSet(ls.stall) = {}
  /\ ToSet(ls.running) \cap ToSet(ls.finished) = {}
  /\ ToSet(ls.input) \cap ToSet(ls.stall) = {}
  /\ ToSet(ls.input) \cap ToSet(ls.finished) = {}
  /\ ToSet(ls.stall) \cap ToSet(ls.finished) = {}

Waiting(ls) ==
  ToSet(ls.ready) \cup ToSet(ls.input) \cup ToSet(ls.stall) \cup ToSet(ls.finished)

Placed(ls) ==
  /\ ls \in Lists
  /\ Apart(ls)
  /\ UserThreads \subseteq Waiting(ls) \cup ToSet(ls.running)
  /\ IdleThread \notin Waiting(ls)
  /\ Len(ls.running) <= 1

(* The idle thread is no user thread, and a thread that waits is one.      *)
LEMMA IdleIsNoUser ==
  /\ IdleThread \in Threads
  /\ IdleThread \notin UserThreads
  /\ UserThreads = Threads \ {IdleThread}
BY CapacityAssumption DEF IdleThread, Threads, UserThreads

(* ListPartition and the type of the lists are what Placed says.           *)
LEMMA PlacedIsPartition ==
  Placed(lists) <=>
    /\ lists \in [ready : Seq(Threads), running : Seq(Threads), input : Seq(Threads),
                  stall : Seq(Threads), finished : Seq(Threads)]
    /\ ListPartition
<1> DEFINE typed == lists \in [ready : Seq(Threads), running : Seq(Threads), input : Seq(Threads),
                               stall : Seq(Threads), finished : Seq(Threads)]
<1>1. lists \in Lists <=> typed /\ \A l \in ListNames : IsInjective(lists[l])
  BY DEF Lists, NodeLists, ListNames
<1>2. Apart(lists) <=> Disjoint(lists)
  BY DEF Apart, Disjoint, ListNames
<1>3. UNION {ToSet(lists[l]) : l \in ListNames} = Waiting(lists) \cup ToSet(lists.running)
  BY DEF Waiting, ListNames
<1>4. IdleThread \notin Waiting(lists) <=>
        \A l \in ListNames \ {"running"} : IdleThread \notin ToSet(lists[l])
  BY DEF Waiting, ListNames
<1> QED BY <1>1, <1>2, <1>3, <1>4 DEF Placed, ListPartition

(* A running list of at most one thread is empty or that thread.           *)
LEMMA RunningNodes ==
  ASSUME NEW ls, Placed(ls), ls.running # <<>>
  PROVE  /\ Head(ls.running) \in Threads
         /\ ToSet(ls.running) = {Head(ls.running)}
<1>1. ls.running \in NodeLists(Threads)
  BY DEF Placed, Lists
<1>2. ls.running \in Seq(Threads) /\ Len(ls.running) <= 1
  BY <1>1 DEF Placed, NodeLists
<1>3. Len(ls.running) = 1 /\ DOMAIN ls.running = {1} /\ Head(ls.running) = ls.running[1]
  <2>1. Len(ls.running) \in Nat \ {0}
    BY <1>2, EmptySeq
  <2>2. DOMAIN ls.running = 1 .. Len(ls.running)
    BY <1>2, LenProperties
  <2>3. Len(ls.running) = 1
    <3>1. \A n \in Nat \ {0} : n <= 1 => n = 1
      OBVIOUS
    <3> QED BY <1>2, <2>1, <3>1, Zenon
  <2>4. DOMAIN ls.running = {1}
    BY <2>2, <2>3
  <2>5. Head(ls.running) = ls.running[1]
    BY <1>2
  <2> QED BY <2>3, <2>4, <2>5
<1>4. ToSet(ls.running) = {Head(ls.running)}
  BY <1>3 DEF ToSet
<1> QED BY <1>1, <1>4, TailNodes

(* scheduler_round_robin keeps every thread in one list: it moves threads  *)
(* between the ready list and the running list only, and a thread that     *)
(* gives way ends up ready.                                                *)
LEMMA RoundRobinPlaced ==
  ASSUME NEW ls, Placed(ls), NEW type,
         type = "normal" \/ (ls.running # <<>> /\ Head(ls.running) # IdleThread)
  PROVE  /\ Placed(RoundRobin(ls, type))
         /\ RoundRobin(ls, type).input = ls.input
         /\ RoundRobin(ls, type).stall = ls.stall
         /\ RoundRobin(ls, type).finished = ls.finished
         /\ RoundRobin(ls, type).running # <<>>
         /\ ~KeepsRunning(ls, type) => RoundRobin(ls, type).running = <<NextThread(ls)>>
         /\ type = "forced" => Head(ls.running) \in ToSet(RoundRobin(ls, type).ready)
<1> DEFINE candidates == Candidates(ls)
           next == NextThread(ls)
           requeued == Requeued(ls)
           new == [ls EXCEPT !.ready = Tail(requeued), !.running = <<next>>]
<1>1. ls \in Lists /\ ls.ready \in NodeLists(Threads)
  BY DEF Placed, Lists
<1>2. CASE KeepsRunning(ls, type)
  BY <1>2 DEF RoundRobin, KeepsRunning
<1>3. CASE ~KeepsRunning(ls, type)
  <2>1. RoundRobin(ls, type) = new
    BY <1>3 DEF RoundRobin
  <2>2. ls.ready = <<>> /\ ls.running # <<>> => Head(ls.running) # IdleThread
    BY <1>3 DEF KeepsRunning
  <2>3. /\ candidates \in NodeLists(Threads)
        /\ candidates # <<>>
        /\ ToSet(candidates) = IF ls.ready = <<>> THEN {IdleThread} ELSE ToSet(ls.ready)
    BY <1>1, IdleIsNoUser, SmallNodes DEF Candidates
  <2>4. next = Head(candidates) /\ next \in ToSet(candidates) /\ next \in Threads
    BY <2>3, TailNodes DEF NextThread
  <2> DEFINE runner == IF ls.running # <<>> /\ Head(ls.running) # IdleThread
                       THEN {Head(ls.running)} ELSE {}
  <2>5. /\ requeued \in NodeLists(Threads)
        /\ requeued # <<>>
        /\ Head(requeued) = next
        /\ ToSet(requeued) = ToSet(candidates) \cup runner
    <3>1. CASE ls.running # <<>> /\ Head(ls.running) # IdleThread
      <4>1. Head(ls.running) \in Threads /\ Head(ls.running) \notin ToSet(candidates)
        BY <1>1, <2>3, <3>1, RunningNodes DEF Placed, Apart
      <4>2. requeued = AppendLast(candidates, Head(ls.running))
        BY <3>1 DEF Requeued
      <4> HIDE DEF candidates
      <4> QED BY <2>3, <2>4, <3>1, <4>1, <4>2, AppendLastNodes
    <3>2. CASE ~(ls.running # <<>> /\ Head(ls.running) # IdleThread)
      BY <2>3, <2>4, <3>2 DEF Requeued
    <3> QED BY <3>1, <3>2
  <2> HIDE DEF candidates, next, requeued
  <2>6. Tail(requeued) \in NodeLists(Threads) /\ ToSet(Tail(requeued)) = ToSet(requeued) \ {next}
    BY <2>5, TailNodes
  <2>7. <<next>> \in NodeLists(Threads) /\ ToSet(<<next>>) = {next} /\ Len(<<next>>) = 1
        /\ <<next>> # <<>>
    BY <2>4, SmallNodes
  <2>8. /\ new \in Lists
        /\ new.ready = Tail(requeued) /\ new.running = <<next>>
        /\ new.input = ls.input /\ new.stall = ls.stall /\ new.finished = ls.finished
    BY <1>1, <2>6, <2>7 DEF Lists
  <2> HIDE DEF new
  <2>9. ToSet(ls.running) \ {IdleThread} = runner
    <3>1. CASE ls.running = <<>>
      BY <3>1, SmallNodes, IdleIsNoUser
    <3>2. CASE ls.running # <<>>
      BY <3>2, RunningNodes
    <3> QED BY <3>1, <3>2
  <2>9a. ls.ready = <<>> => ToSet(ls.ready) = {}
    BY SmallNodes, IdleIsNoUser
  <2> HIDE DEF runner
  <2>10. ToSet(new.ready) = (ToSet(candidates) \cup runner) \ {next} /\ ToSet(new.running) = {next}
    BY <2>5, <2>6, <2>7, <2>8
  <2>11. Apart(new)
    BY <2>3, <2>4, <2>8, <2>9, <2>10 DEF Apart, Placed, Waiting
  <2>12. UserThreads \subseteq Waiting(new) \cup ToSet(new.running)
    BY <2>3, <2>4, <2>8, <2>9, <2>9a, <2>10, IdleIsNoUser DEF Placed, Waiting
  <2>13. IdleThread \notin Waiting(new)
    BY <2>3, <2>4, <2>8, <2>9, <2>10 DEF Placed, Waiting
  <2>14. Placed(new)
    BY <2>7, <2>8, <2>11, <2>12, <2>13 DEF Placed
  <2>15. type = "forced" => Head(ls.running) \in ToSet(new.ready)
    <3> SUFFICES ASSUME type = "forced"
                 PROVE  Head(ls.running) \in ToSet(new.ready)
      OBVIOUS
    <3>1. ls.running # <<>> /\ Head(ls.running) # IdleThread
      OBVIOUS
    <3>2. Head(ls.running) \in runner
      BY <3>1 DEF runner
    <3>3. Head(ls.running) \notin ToSet(candidates)
      BY <2>3, <3>1, RunningNodes DEF Placed, Apart
    <3> QED BY <2>4, <2>10, <3>2, <3>3
  <2> QED BY <1>3, <2>1, <2>7, <2>8, <2>14, <2>15 DEF next
<1> QED BY <1>2, <1>3

(* Moving the first k threads of the stall list, or of the readers, to the *)
(* end of the ready list keeps every thread in one list.                   *)
LEMMA StallPrefixPlaced ==
  ASSUME NEW ls, Placed(ls), NEW k \in 0 .. Len(ls.stall)
  PROVE  LET new == [ls EXCEPT !.ready = @ \o SubSeq(ls.stall, 1, k),
                               !.stall = SubSeq(@, k + 1, Len(@))]
         IN  /\ Placed(new)
             /\ new.running = ls.running /\ new.input = ls.input /\ new.finished = ls.finished
<1> DEFINE front == SubSeq(ls.stall, 1, k)
           rest == SubSeq(ls.stall, k + 1, Len(ls.stall))
           new == [ls EXCEPT !.ready = @ \o front, !.stall = rest]
<1>1. ls \in Lists /\ ls.ready \in NodeLists(Threads) /\ ls.stall \in NodeLists(Threads)
  BY DEF Placed, Lists
<1>2. /\ front \in NodeLists(Threads) /\ rest \in NodeLists(Threads)
      /\ ToSet(front) \cap ToSet(rest) = {}
      /\ ToSet(front) \cup ToSet(rest) = ToSet(ls.stall)
  BY <1>1, SplitNodes
<1> HIDE DEF front, rest
<1>3. ToSet(ls.ready) \cap ToSet(front) = {}
  BY <1>2 DEF Placed, Apart
<1>4. /\ ls.ready \o front \in NodeLists(Threads)
      /\ ToSet(ls.ready \o front) = ToSet(ls.ready) \cup ToSet(front)
  BY <1>1, <1>2, <1>3, ConcatNodes
<1>5. /\ new \in Lists
      /\ new.ready = ls.ready \o front /\ new.stall = rest
      /\ new.running = ls.running /\ new.input = ls.input /\ new.finished = ls.finished
  BY <1>1, <1>2, <1>4 DEF Lists
<1> HIDE DEF new
<1>6. Apart(new)
  BY <1>2, <1>4, <1>5 DEF Placed, Apart
<1>7. Waiting(new) = Waiting(ls)
  BY <1>2, <1>4, <1>5 DEF Waiting
<1>8. Placed(new)
  BY <1>5, <1>6, <1>7 DEF Placed
<1> QED BY <1>5, <1>8 DEF new, front, rest

LEMMA InputPrefixPlaced ==
  ASSUME NEW ls, Placed(ls), NEW k \in 0 .. Len(ls.input)
  PROVE  LET new == [ls EXCEPT !.ready = @ \o SubSeq(ls.input, 1, k),
                               !.input = SubSeq(@, k + 1, Len(@))]
         IN  /\ Placed(new)
             /\ new.running = ls.running /\ new.stall = ls.stall /\ new.finished = ls.finished
             /\ Len(new.input) = Len(ls.input) - k
<1> DEFINE front == SubSeq(ls.input, 1, k)
           rest == SubSeq(ls.input, k + 1, Len(ls.input))
           new == [ls EXCEPT !.ready = @ \o front, !.input = rest]
<1>1. ls \in Lists /\ ls.ready \in NodeLists(Threads) /\ ls.input \in NodeLists(Threads)
  BY DEF Placed, Lists
<1>2. /\ front \in NodeLists(Threads) /\ rest \in NodeLists(Threads)
      /\ ToSet(front) \cap ToSet(rest) = {}
      /\ ToSet(front) \cup ToSet(rest) = ToSet(ls.input)
  BY <1>1, SplitNodes
<1>2a. Len(rest) = Len(ls.input) - k
  <2>1. ls.input \in Seq(Threads) /\ Len(ls.input) \in Nat
    BY <1>1, LenProperties DEF NodeLists
  <2>2. \A i \in k + 1 .. Len(ls.input) : ls.input[i] \in Threads
    BY <2>1, ElementOfSeq
  <2>3. Len(rest) = IF k + 1 <= Len(ls.input) THEN Len(ls.input) - (k + 1) + 1 ELSE 0
    BY <2>1, <2>2, SubSeqProperties
  <2> QED BY <2>1, <2>3
<1> HIDE DEF front, rest
<1>3. ToSet(ls.ready) \cap ToSet(front) = {}
  BY <1>2 DEF Placed, Apart
<1>4. /\ ls.ready \o front \in NodeLists(Threads)
      /\ ToSet(ls.ready \o front) = ToSet(ls.ready) \cup ToSet(front)
  BY <1>1, <1>2, <1>3, ConcatNodes
<1>5. /\ new \in Lists
      /\ new.ready = ls.ready \o front /\ new.input = rest
      /\ new.running = ls.running /\ new.stall = ls.stall /\ new.finished = ls.finished
  BY <1>1, <1>2, <1>4 DEF Lists
<1> HIDE DEF new
<1>6. Apart(new)
  BY <1>2, <1>4, <1>5 DEF Placed, Apart
<1>7. Waiting(new) = Waiting(ls)
  BY <1>2, <1>4, <1>5 DEF Waiting
<1>8. Placed(new)
  BY <1>5, <1>6, <1>7 DEF Placed
<1> QED BY <1>2a, <1>5, <1>8 DEF new, front, rest

(* scheduler_unblock_overdue_waiting_threads wakes a prefix of the list.   *)
LEMMA UnblockOverduePlaced ==
  ASSUME NEW ls, Placed(ls), NEW until
  PROVE  /\ Placed(UnblockOverdue(ls, until))
         /\ UnblockOverdue(ls, until).running = ls.running
         /\ UnblockOverdue(ls, until).input = ls.input
         /\ UnblockOverdue(ls, until).finished = ls.finished
<1> DEFINE timely == {i \in DOMAIN ls.stall : Armable(until[ls.stall[i]])}
           ends == timely \cup {Len(ls.stall) + 1}
           last == Min(ends) - 1
<1>1. Len(ls.stall) \in Nat /\ DOMAIN ls.stall = 1 .. Len(ls.stall)
  BY LenProperties DEF Placed, Lists, NodeLists
<1>2. ends \subseteq 1 .. Len(ls.stall) + 1 /\ ends \subseteq Nat /\ ends # {}
  BY <1>1
<1>3. UnblockOverdue(ls, until) =
        [ls EXCEPT !.ready = @ \o SubSeq(ls.stall, 1, last),
                   !.stall = SubSeq(@, last + 1, Len(@))]
  BY DEF UnblockOverdue
<1> HIDE DEF timely, ends
<1>4. Min(ends) \in ends
  BY <1>2, MinNat
<1>5. last \in 0 .. Len(ls.stall)
  <2>1. Min(ends) \in 1 .. Len(ls.stall) + 1
    BY <1>2, <1>4
  <2>2. \A e \in 1 .. Len(ls.stall) + 1 : e - 1 \in 0 .. Len(ls.stall)
    BY <1>1
  <2> QED BY <2>1, <2>2
<1> HIDE DEF last
<1> QED BY <1>3, <1>5, StallPrefixPlaced

(* Feeding n characters to the readers uses up one for each reader served. *)
LEMMA FeedReadersPlaced ==
  ASSUME NEW ls, Placed(ls), NEW n \in Nat
  PROVE  /\ Placed(FeedReaders(ls, n))
         /\ FeedReaders(ls, n).running = ls.running
         /\ FeedReaders(ls, n).finished = ls.finished
         /\ Len(ls.input) - Len(FeedReaders(ls, n).input) \in 0 .. n
<1> DEFINE ends == {n, Len(ls.input)}
           k == Min(ends)
<1>1. Len(ls.input) \in Nat
  BY LenProperties DEF Placed, Lists, NodeLists
<1>2. ends \subseteq Nat /\ ends # {}
  BY <1>1
<1>3. FeedReaders(ls, n) =
        [ls EXCEPT !.ready = @ \o SubSeq(ls.input, 1, k),
                   !.input = SubSeq(@, k + 1, Len(@))]
  BY DEF FeedReaders
<1> HIDE DEF ends
<1>4. Min(ends) \in ends /\ \A y \in ends : Min(ends) <= y
  BY <1>2, MinNat
<1>5. k \in 0 .. Len(ls.input) /\ k \in 0 .. n
  BY <1>1, <1>4 DEF ends
<1> HIDE DEF k
<1>6. /\ Placed(FeedReaders(ls, n))
      /\ FeedReaders(ls, n).running = ls.running
      /\ FeedReaders(ls, n).finished = ls.finished
      /\ Len(FeedReaders(ls, n).input) = Len(ls.input) - k
  BY <1>3, <1>5, InputPrefixPlaced
<1> QED BY <1>1, <1>5, <1>6

(* scheduler_cleanup_thread: what ran is finished. *)
LEMMA CleanedPlaced ==
  ASSUME NEW ls, Placed(ls), ls.running # <<>>, Head(ls.running) # IdleThread
  PROVE  /\ Placed(Cleaned(ls))
         /\ Cleaned(ls).running = <<>>
         /\ ToSet(Cleaned(ls).finished) = ToSet(ls.finished) \cup {Head(ls.running)}
<1> DEFINE thread == Head(ls.running)
           finished == AppendToHead(ls.finished, thread)
           new == [ls EXCEPT !.running = <<>>, !.finished = finished]
<1>1. ls \in Lists /\ ls.finished \in NodeLists(Threads)
  BY DEF Placed, Lists
<1>2. thread \in Threads /\ ToSet(ls.running) = {thread} /\ thread # IdleThread
  BY RunningNodes
<1>3. new = Cleaned(ls)
  BY DEF Cleaned
<1> HIDE DEF thread
<1>4. thread \notin ToSet(ls.finished)
  BY <1>2 DEF Placed, Apart
<1>5. finished \in NodeLists(Threads) /\ ToSet(finished) = ToSet(ls.finished) \cup {thread}
  BY <1>1, <1>2, <1>4, AppendToHeadNodes
<1>6. <<>> \in NodeLists(Threads) /\ ToSet(<<>>) = {} /\ Len(<<>>) = 0
  BY IdleIsNoUser, SmallNodes
<1> HIDE DEF finished
<1>7. /\ new \in Lists
      /\ new.ready = ls.ready /\ new.input = ls.input /\ new.stall = ls.stall
      /\ new.running = <<>> /\ new.finished = finished
  BY <1>1, <1>5, <1>6 DEF Lists
<1> HIDE DEF new
<1>8. Apart(new)
  BY <1>2, <1>5, <1>6, <1>7 DEF Placed, Apart
<1>9. Waiting(new) = Waiting(ls) \cup {thread}
  BY <1>5, <1>7 DEF Waiting
<1>10. Placed(new)
  BY <1>2, <1>6, <1>7, <1>8, <1>9 DEF Placed
<1> QED BY <1>3, <1>5, <1>7, <1>10 DEF thread

(* A reader leaves the ready list for the readers' list. *)
LEMMA IgnoreUntilInputPlaced ==
  ASSUME NEW ls, Placed(ls), NEW thread \in ToSet(ls.ready)
  PROVE  /\ Placed(IgnoreUntilInput(ls, thread))
         /\ IgnoreUntilInput(ls, thread).running = ls.running
         /\ IgnoreUntilInput(ls, thread).finished = ls.finished
<1> DEFINE ready == RemoveNode(ls.ready, thread)
           input == AppendLast(ls.input, thread)
           new == [ls EXCEPT !.ready = ready, !.input = input]
<1>1. ls \in Lists /\ ls.ready \in NodeLists(Threads) /\ ls.input \in NodeLists(Threads)
  BY DEF Placed, Lists
<1>2. ready \in NodeLists(Threads) /\ ToSet(ready) = ToSet(ls.ready) \ {thread}
  BY <1>1, RemoveNodeNodes
<1>3. thread \in Threads /\ thread \notin ToSet(ls.input)
  BY <1>1, NodesInSet DEF Placed, Apart
<1>4. input \in NodeLists(Threads) /\ ToSet(input) = ToSet(ls.input) \cup {thread}
  BY <1>1, <1>3, AppendLastNodes
<1>5. new = IgnoreUntilInput(ls, thread)
  BY DEF IgnoreUntilInput
<1> HIDE DEF ready, input
<1>6. /\ new \in Lists
      /\ new.ready = ready /\ new.input = input /\ new.stall = ls.stall
      /\ new.running = ls.running /\ new.finished = ls.finished
  BY <1>1, <1>2, <1>4 DEF Lists
<1> HIDE DEF new
<1>7. Apart(new)
  BY <1>2, <1>4, <1>6 DEF Placed, Apart
<1>8. Waiting(new) = Waiting(ls)
  BY <1>2, <1>4, <1>6 DEF Waiting
<1>9. Placed(new)
  BY <1>6, <1>7, <1>8 DEF Placed
<1> QED BY <1>5, <1>6, <1>9

(* A stalling thread leaves the ready list for the stall list. *)
LEMMA StalledPlaced ==
  ASSUME NEW ls, Placed(ls), NEW thread \in ToSet(ls.ready), NEW until
  PROVE  LET new == [ls EXCEPT !.ready = RemoveNode(@, thread),
                               !.stall = InsertSorted(@, thread, until)]
         IN  /\ Placed(new)
             /\ new.running = ls.running /\ new.finished = ls.finished
<1> DEFINE ready == RemoveNode(ls.ready, thread)
           stall == InsertSorted(ls.stall, thread, until)
           new == [ls EXCEPT !.ready = ready, !.stall = stall]
<1>1. ls \in Lists /\ ls.ready \in NodeLists(Threads) /\ ls.stall \in NodeLists(Threads)
  BY DEF Placed, Lists
<1>2. ready \in NodeLists(Threads) /\ ToSet(ready) = ToSet(ls.ready) \ {thread}
  BY <1>1, RemoveNodeNodes
<1>3. thread \in Threads /\ thread \notin ToSet(ls.stall)
  BY <1>1, NodesInSet DEF Placed, Apart
<1>4. stall \in NodeLists(Threads) /\ ToSet(stall) = ToSet(ls.stall) \cup {thread}
  BY <1>1, <1>3, InsertSortedNodes
<1> HIDE DEF ready, stall
<1>5. /\ new \in Lists
      /\ new.ready = ready /\ new.stall = stall /\ new.input = ls.input
      /\ new.running = ls.running /\ new.finished = ls.finished
  BY <1>1, <1>2, <1>4 DEF Lists
<1> HIDE DEF new
<1>6. Apart(new)
  BY <1>2, <1>4, <1>5 DEF Placed, Apart
<1>7. Waiting(new) = Waiting(ls)
  BY <1>2, <1>4, <1>5 DEF Waiting
<1>8. Placed(new)
  BY <1>5, <1>6, <1>7 DEF Placed
<1> QED BY <1>5, <1>8 DEF new, ready, stall

(* The first finished thread becomes the last ready one. *)
LEMMA AssignedPlaced ==
  ASSUME NEW ls, Placed(ls), ls.finished # <<>>
  PROVE  LET thread == Head(ls.finished)
             new == [ls EXCEPT !.finished = Tail(@), !.ready = AppendLast(@, thread)]
         IN  /\ Placed(new)
             /\ new.running = ls.running
             /\ thread \in UserThreads /\ thread \in ToSet(ls.finished)
             /\ ToSet(new.finished) = ToSet(ls.finished) \ {thread}
<1> DEFINE thread == Head(ls.finished)
           finished == Tail(ls.finished)
           ready == AppendLast(ls.ready, thread)
           new == [ls EXCEPT !.finished = finished, !.ready = ready]
<1>1. ls \in Lists /\ ls.ready \in NodeLists(Threads) /\ ls.finished \in NodeLists(Threads)
  BY DEF Placed, Lists
<1>2. /\ thread \in Threads /\ thread \in ToSet(ls.finished)
      /\ finished \in NodeLists(Threads) /\ ToSet(finished) = ToSet(ls.finished) \ {thread}
  BY <1>1, TailNodes
<1>3. thread \in UserThreads /\ thread \notin ToSet(ls.ready)
  BY <1>2, IdleIsNoUser DEF Placed, Apart, Waiting
<1> HIDE DEF thread, finished
<1>4. ready \in NodeLists(Threads) /\ ToSet(ready) = ToSet(ls.ready) \cup {thread}
  BY <1>1, <1>2, <1>3, AppendLastNodes
<1> HIDE DEF ready
<1>5. /\ new \in Lists
      /\ new.ready = ready /\ new.finished = finished /\ new.input = ls.input
      /\ new.running = ls.running /\ new.stall = ls.stall
  BY <1>1, <1>2, <1>4 DEF Lists
<1> HIDE DEF new
<1>6. Apart(new)
  BY <1>2, <1>3, <1>4, <1>5 DEF Placed, Apart
<1>7. Waiting(new) = Waiting(ls)
  BY <1>2, <1>4, <1>5 DEF Waiting
<1>8. Placed(new)
  BY <1>5, <1>6, <1>7 DEF Placed
<1> QED BY <1>2, <1>3, <1>5, <1>8 DEF new, thread, finished, ready

-----------------------------------------------------------------------------
(* Part 2: what the handlers do besides moving threads.                    *)

(* Clock values stay below the range of the clock. *)
ClockValues == 0 .. ClockRange - 1

LEMMA ClockWraps ==
  ASSUME NEW a \in Nat
  PROVE  a % ClockRange \in ClockValues
BY ClockAssumption DEF ClockValues

(* The processes, and what a user thread's pid can be.                     *)
LEMMA PidOfThread ==
  ASSUME TypeOK, NEW t \in Threads
  PROVE  /\ pid[t] \in Nat
         /\ pid[t] + 1 \in 0 .. ADDRESS_SPACE_COUNT + 1
         /\ IdlePid \notin AddressSpaces
         /\ t \in UserThreads <=> pid[t] \in AddressSpaces
         /\ t = IdleThread <=> pid[t] = IdlePid
<1>1. pid[t] \in AddressSpaces \cup {IdlePid} /\ (pid[t] = IdlePid <=> t = IdleThread)
  BY DEF TypeOK
<1>2. \A a \in AddressSpaces \cup {IdlePid} : a \in Nat /\ a + 1 \in 0 .. ADDRESS_SPACE_COUNT + 1
  BY CapacityAssumption DEF AddressSpaces, IdlePid
<1>3. IdlePid \notin AddressSpaces
  BY CapacityAssumption DEF AddressSpaces, IdlePid
<1> QED BY <1>1, <1>2, <1>3, IdleIsNoUser

(* A page table that matches the thread that runs, if one does. *)
Mapped(ls, table) ==
  /\ ls.running # <<>> => table.section = pid[Head(ls.running)] + 1
  /\ (ls.running # <<>> /\ Head(ls.running) # IdleThread)
       => \A s \in Slots : table.stacks[s] # OutOfBounds

Tables == [section : 0 .. ADDRESS_SPACE_COUNT + 1, stacks : [Slots -> StackEntries]]

(* A thread switch leaves a table that matches the thread it switches to,  *)
(* although it writes the table only when the process changes: of two      *)
(* threads with one pid either both are user threads or both are idle.     *)
LEMMA MappingMapped ==
  ASSUME TypeOK, NEW ls, Placed(ls), NEW type,
         type = "normal" \/ (ls.running # <<>> /\ Head(ls.running) # IdleThread),
         Mapped(ls, l1)
  PROVE  /\ Mapped(RoundRobin(ls, type), Mapping(ls, type))
         /\ Mapping(ls, type) \in Tables
<1>1. l1 \in Tables
  BY DEF TypeOK, Tables
<1>2. CASE KeepsRunning(ls, type)
  BY <1>1, <1>2 DEF Mapping, RoundRobin
<1>3. CASE ~KeepsRunning(ls, type)
  <2> DEFINE next == NextThread(ls)
             new == RoundRobin(ls, type)
             table == ProcessMapping(pid[next])
  <2>1. new.running = <<next>> /\ Placed(new)
    BY <1>3, RoundRobinPlaced
  <2>2. new.running # <<>> /\ Head(new.running) = next
    BY <2>1
  <2>3. next \in Threads
    BY <2>1, <2>2, RunningNodes
  <2>4. CASE ls.running # <<>> /\ pid[Head(ls.running)] = pid[next]
    <3>1. Mapping(ls, type) = l1
      BY <2>4 DEF Mapping
    <3>2. Head(ls.running) \in Threads
      BY <2>4, RunningNodes
    <3>3. next # IdleThread => Head(ls.running) # IdleThread
      BY <2>3, <2>4, <3>2, PidOfThread
    <3> HIDE DEF next, new
    <3> QED BY <1>1, <2>2, <2>4, <3>1, <3>3 DEF Mapped, new
  <2>5. CASE ~(ls.running # <<>> /\ pid[Head(ls.running)] = pid[next])
    <3>1. Mapping(ls, type) = table
      BY <1>3, <2>5 DEF Mapping
    <3> HIDE DEF next, new
    <3>2. table.section = pid[next] + 1 /\ table.section \in 0 .. ADDRESS_SPACE_COUNT + 1
      BY <2>3, PidOfThread DEF ProcessMapping
    <3>3. table.stacks \in [Slots -> StackEntries]
      BY DEF ProcessMapping, TypeOK, StackEntries
    <3>4. next # IdleThread => \A s \in Slots : table.stacks[s] # OutOfBounds
      <4> SUFFICES ASSUME next # IdleThread, NEW s \in Slots
                   PROVE  table.stacks[s] # OutOfBounds
        OBVIOUS
      <4>1. pid[next] \in AddressSpaces
        BY <2>3, IdleIsNoUser, PidOfThread
      <4>2. table.stacks[s] = stackHandles[pid[next]][s]
        BY <4>1 DEF ProcessMapping
      <4>3. stackHandles[pid[next]][s] \in UserThreads \cup {NoStack}
        BY <4>1 DEF TypeOK
      <4> QED BY <4>2, <4>3, EntryAssumption
    <3>5. table \in Tables
      BY <3>2, <3>3 DEF ProcessMapping, Tables
    <3> QED BY <2>2, <3>1, <3>2, <3>4, <3>5 DEF Mapped, new
  <2> QED BY <2>4, <2>5
<1> QED BY <1>2, <1>3

(* The stall timer is set to a moment of some thread, or left as it is. *)
LEMMA AdjustStallTimerTyped ==
  ASSUME NEW stall \in NodeLists(Threads), NEW until \in [Threads -> ClockValues],
         c3 \in ClockValues, AdjustStallTimer(stall, until)
  PROVE  c3' \in ClockValues /\ m3' \in BOOLEAN
<1>1. stall # <<>> => Head(stall) \in Threads
  BY TailNodes
<1> QED BY <1>1 DEF AdjustStallTimer

(* What a stalling thread leaves behind. *)
LEMMA IgnoreUntilMatchPlaced ==
  ASSUME NEW ls, Placed(ls), NEW thread \in ToSet(ls.ready), NEW match \in Nat,
         TypeOK, IgnoreUntilMatch(ls, thread, match)
  PROVE  /\ Placed(lists')
         /\ lists'.running = ls.running /\ lists'.finished = ls.finished
         /\ stallUntil' \in [Threads -> ClockValues]
         /\ c3' \in ClockValues /\ m3' \in BOOLEAN
<1> DEFINE until == [stallUntil EXCEPT ![thread] = (clo + match) % ClockRange]
           moved == [ls EXCEPT !.ready = RemoveNode(@, thread),
                               !.stall = InsertSorted(@, thread, until)]
           woken == UnblockOverdue(moved, until)
<1>1. /\ stallUntil \in [Threads -> ClockValues] /\ clo \in Nat
      /\ c3 \in ClockValues /\ m3 \in BOOLEAN
  BY DEF TypeOK, ClockValues
<1>2. until \in [Threads -> ClockValues]
  <2>1. clo + match \in Nat
    BY <1>1
  <2>2. (clo + match) % ClockRange \in ClockValues
    BY <2>1, ClockWraps
  <2> QED BY <1>1, <2>2
<1>3. /\ stallUntil' = until
      /\ IF Head(moved.stall) = thread
         THEN lists' = woken /\ AdjustStallTimer(woken.stall, until)
         ELSE lists' = moved /\ UNCHANGED <<m3, c3>>
  BY DEF IgnoreUntilMatch
<1> HIDE DEF until
<1>4. /\ Placed(moved)
      /\ moved.running = ls.running /\ moved.finished = ls.finished
  BY StalledPlaced
<1> HIDE DEF moved
<1>5. /\ Placed(woken)
      /\ woken.running = ls.running /\ woken.finished = ls.finished
  BY <1>4, UnblockOverduePlaced
<1> HIDE DEF woken
<1>6. woken.stall \in NodeLists(Threads)
  BY <1>5 DEF Placed, Lists
<1>7. CASE Head(moved.stall) = thread
  BY <1>1, <1>2, <1>3, <1>5, <1>6, <1>7, AdjustStallTimerTyped
<1>8. CASE Head(moved.stall) # thread
  BY <1>1, <1>2, <1>3, <1>4, <1>8
<1> QED BY <1>7, <1>8

-----------------------------------------------------------------------------
(* Part 3: the inductive invariant.  Each part needs others to be kept:    *)
(* SlotBookkeeping says which slots are free for CreateThread to hand out, *)
(* which LiveStackRegistered needs to stay true of the other threads;      *)
(* ListPartition says that the thread taken from the finished list is in   *)
(* no other list and is not the one that runs; TypeOK keeps the pid of the *)
(* idle thread apart, on which MappingMatchesRunning depends.              *)
IInv ==
  /\ TypeOK
  /\ ListPartition
  /\ SlotBookkeeping
  /\ LiveStackRegistered
  /\ MappingMatchesRunning

(* What IInv says of the lists and the table, as the lemmas above put it. *)
LEMMA InvariantNow ==
  ASSUME IInv
  PROVE  Placed(lists) /\ Mapped(lists, l1) /\ l1 \in Tables
<1>1. Placed(lists)
  BY PlacedIsPartition DEF IInv, TypeOK
<1> QED BY <1>1 DEF IInv, TypeOK, MappingMatchesRunning, Mapped, Tables,
           UserThreadRuns, RunningThread

(* Who is live and who lives in a process is the same question.            *)
LEMMA LiveInSpace ==
  ASSUME IInv, NEW t \in UserThreads
  PROVE  Live(t) <=> t \in spaces[pid[t]]
<1>1. pid[t] \in AddressSpaces
  BY PidOfThread, IdleIsNoUser DEF IInv
<1> QED BY <1>1 DEF IInv, SlotBookkeeping

(* The running thread is live. *)
LEMMA RunningIsLive ==
  ASSUME IInv, UserThreadRuns
  PROVE  RunningThread \in UserThreads /\ Live(RunningThread)
<1>1. Placed(lists) /\ lists.running # <<>> /\ RunningThread # IdleThread
  BY InvariantNow DEF UserThreadRuns
<1>2. RunningThread \in Threads /\ RunningThread \in ToSet(lists.running)
  BY <1>1, RunningNodes DEF RunningThread
<1> QED BY <1>1, <1>2, IdleIsNoUser DEF Placed, Apart, Live

(* The bookkeeping of processes is kept by a step that leaves it alone and *)
(* finishes nobody.                                                        *)
LEMMA BookkeepingKept ==
  ASSUME SlotBookkeeping, LiveStackRegistered, UNCHANGED procVars,
         ToSet(lists'.finished) = ToSet(lists.finished)
  PROVE  SlotBookkeeping' /\ LiveStackRegistered'
<1>1. \A t : Live(t) <=> Live(t)'
  BY DEF Live
<1>2. /\ pid' = pid /\ pidSlot' = pidSlot /\ spaces' = spaces
      /\ slotsUsed' = slotsUsed /\ stackHandles' = stackHandles
  BY DEF procVars
<1> QED BY <1>1, <1>2 DEF SlotBookkeeping, LiveStackRegistered

(* The lists and the table after a step, said of their new values.         *)
LEMMA PartitionNext ==
  ASSUME Placed(lists')
  PROVE  /\ lists' \in [ready : Seq(Threads), running : Seq(Threads), input : Seq(Threads),
                        stall : Seq(Threads), finished : Seq(Threads)]
         /\ ListPartition'
<1> DEFINE typed == lists \in [ready : Seq(Threads), running : Seq(Threads), input : Seq(Threads),
                               stall : Seq(Threads), finished : Seq(Threads)]
<1>1. (Placed(lists) <=> typed /\ ListPartition)'
  BY PlacedIsPartition, PTL
<1> QED BY <1>1

LEMMA MatchesNext ==
  ASSUME UNCHANGED pid, Mapped(lists', l1')
  PROVE  MappingMatchesRunning'
BY DEF MappingMatchesRunning, Mapped, UserThreadRuns, RunningThread

(* The variables of the clock, the timers and the UART have their types.   *)
DevicesTyped ==
  /\ stallUntil \in [Threads -> ClockValues]
  /\ clo \in ClockValues /\ c3 \in ClockValues
  /\ m1 \in BOOLEAN /\ m3 \in BOOLEAN /\ rx \in BOOLEAN /\ halted \in BOOLEAN
  /\ unread \in 0 .. UART_INPUT_BUFFER_SIZE

(* So do the records kept of the processes. *)
ProcessesTyped ==
  /\ pid \in [Threads -> AddressSpaces \cup {IdlePid}]
  /\ \A t \in Threads : pid[t] = IdlePid <=> t = IdleThread
  /\ pidSlot \in [Threads -> Slots]
  /\ spaces \in [AddressSpaces -> SUBSET UserThreads]
  /\ slotsUsed \in [AddressSpaces -> SUBSET Slots]
  /\ stackHandles \in [AddressSpaces -> [Slots -> UserThreads \cup {NoStack}]]

LEMMA TypedNow ==
  ASSUME TypeOK
  PROVE  DevicesTyped /\ ProcessesTyped
BY DEF TypeOK, DevicesTyped, ProcessesTyped, ClockValues

LEMMA TypedNext ==
  ASSUME Placed(lists'), l1' \in Tables, DevicesTyped', ProcessesTyped'
  PROVE  TypeOK'
BY PartitionNext DEF TypeOK, DevicesTyped, ProcessesTyped, Tables, ClockValues

(* A step that moves threads and sets timers, but starts and ends none.    *)
LEMMA HandlerStep ==
  ASSUME IInv, UNCHANGED procVars, Placed(lists'),
         ToSet(lists'.finished) = ToSet(lists.finished),
         Mapped(lists', l1'), l1' \in Tables, DevicesTyped'
  PROVE  IInv'
<1>1. /\ pid' = pid /\ pidSlot' = pidSlot /\ spaces' = spaces
      /\ slotsUsed' = slotsUsed /\ stackHandles' = stackHandles
  BY DEF procVars
<1>2. ProcessesTyped'
  <2>1. ProcessesTyped
    BY TypedNow DEF IInv
  <2> QED BY <1>1, <2>1 DEF ProcessesTyped
<1>3. TypeOK' /\ ListPartition'
  BY <1>2, TypedNext, PartitionNext
<1>4. SlotBookkeeping' /\ LiveStackRegistered'
  BY BookkeepingKept DEF IInv
<1>5. MappingMatchesRunning'
  BY <1>1, MatchesNext
<1> QED BY <1>3, <1>4, <1>5 DEF IInv

(* A user thread gives way: what the system calls that block it build on.  *)
LEMMA ForcedSwitch ==
  ASSUME IInv, UserThreadRuns
  PROVE  LET switched == RoundRobin(lists, "forced")
         IN  /\ Placed(switched)
             /\ RunningThread \in ToSet(switched.ready)
             /\ switched.finished = lists.finished
             /\ Mapped(switched, Mapping(lists, "forced"))
             /\ Mapping(lists, "forced") \in Tables
<1>1. lists.running # <<>> /\ Head(lists.running) # IdleThread
  BY DEF UserThreadRuns, RunningThread
<1>2. Placed(lists) /\ Mapped(lists, l1) /\ TypeOK
  BY InvariantNow DEF IInv
<1> QED BY <1>1, <1>2, RoundRobinPlaced, MappingMapped DEF RunningThread

(* The first state. *)
LEMMA InitInvariant == Init => IInv
<1> SUFFICES ASSUME Init
             PROVE  IInv
  OBVIOUS
<1> DEFINE rest == [i \in 1 .. USER_THREAD_COUNT - 1 |-> i]
           first == <<0>>
<1>1. USER_THREAD_COUNT \in Nat \ {0} /\ 0 \in AddressSpaces /\ 0 \in Slots
  <2>1. \A a, b \in Nat \ {0} : a * b > 0
    OBVIOUS
  <2>2. ADDRESS_SPACE_COUNT * THREADS_PER_ADDRESS_SPACE > 0
    BY <2>1, CapacityAssumption
  <2> QED BY <2>2, CapacityAssumption DEF AddressSpaces, Slots
<1>2. 0 \in UserThreads /\ UserThreads \subseteq Threads
  BY <1>1 DEF UserThreads, Threads
<1>3. rest \in NodeLists(Threads) /\ ToSet(rest) = UserThreads \ {0}
  <2>1. \A i \in 1 .. USER_THREAD_COUNT - 1 : i \in Threads
    BY <1>1 DEF UserThreads, Threads
  <2>2. USER_THREAD_COUNT - 1 \in Nat
    BY <1>1
  <2>3. rest \in Seq(Threads)
    BY <2>1, <2>2, IsASeq
  <2>4. IsInjective(rest)
    BY DEF IsInjective
  <2>5. ToSet(rest) = 1 .. USER_THREAD_COUNT - 1
    BY DEF ToSet
  <2> QED BY <1>1, <2>3, <2>4, <2>5 DEF NodeLists, UserThreads
<1>4. /\ first \in NodeLists(Threads) /\ ToSet(first) = {0}
      /\ <<>> \in NodeLists(Threads) /\ ToSet(<<>>) = {} /\ Len(<<>>) = 0
  BY <1>2, SmallNodes
<1>5. lists = [ready |-> first, running |-> <<>>, input |-> <<>>, stall |-> <<>>,
               finished |-> rest]
  BY DEF Init
<1> HIDE DEF rest, first
<1>6. Placed(lists)
  BY <1>2, <1>3, <1>4, <1>5, IdleIsNoUser DEF Placed, Lists, Apart, Waiting
<1>7. ListPartition
  BY <1>6, PlacedIsPartition
<1>8. TypeOK
  <2>1. pid \in [Threads -> AddressSpaces \cup {IdlePid}]
    BY <1>1 DEF Init
  <2>2. \A t \in Threads : pid[t] = IdlePid <=> t = IdleThread
    BY CapacityAssumption DEF Init, IdlePid
  <2>3. stallUntil \in [Threads -> ClockValues] /\ clo \in ClockValues /\ c3 \in ClockValues
    BY ClockAssumption DEF Init, ClockValues
  <2>4. unread \in 0 .. UART_INPUT_BUFFER_SIZE
    BY UartAssumption DEF Init
  <2>5. l1 \in Tables
    BY <1>2, CapacityAssumption DEF Init, Tables, StackEntries
  <2>6. pidSlot \in [Threads -> Slots] /\ spaces \in [AddressSpaces -> SUBSET UserThreads]
        /\ slotsUsed \in [AddressSpaces -> SUBSET Slots]
        /\ stackHandles \in [AddressSpaces -> [Slots -> UserThreads \cup {NoStack}]]
    BY <1>1, <1>2 DEF Init
  <2>7. m1 \in BOOLEAN /\ m3 \in BOOLEAN /\ rx \in BOOLEAN /\ halted \in BOOLEAN
    BY DEF Init
  <2> QED BY <1>6, <2>1, <2>2, <2>3, <2>4, <2>5, <2>6, <2>7, PlacedIsPartition
          DEF TypeOK, Tables, ClockValues
<1>9. \A t \in UserThreads : Live(t) <=> t = 0
  BY <1>2, <1>3, <1>5 DEF Live
<1>10. SlotBookkeeping
  <2> SUFFICES ASSUME NEW a \in AddressSpaces
               PROVE  /\ spaces[a] = {t \in UserThreads : Live(t) /\ pid[t] = a}
                      /\ slotsUsed[a] = {pidSlot[t] : t \in spaces[a]}
                      /\ \A t, u \in spaces[a] : pidSlot[t] = pidSlot[u] => t = u
    BY DEF SlotBookkeeping
  <2>1. \A t \in UserThreads : pid[t] = 0 /\ pidSlot[t] = 0
    BY <1>2, IdleIsNoUser DEF Init
  <2>2. spaces[a] = IF a = 0 THEN {0} ELSE {}
    BY DEF Init
  <2>3. slotsUsed[a] = IF a = 0 THEN {0} ELSE {}
    BY DEF Init
  <2> QED BY <1>2, <1>9, <2>1, <2>2, <2>3
<1>11. LiveStackRegistered
  BY <1>1, <1>2, <1>9, IdleIsNoUser DEF LiveStackRegistered, Init
<1>12. MappingMatchesRunning
  BY <1>5 DEF MappingMatchesRunning, UserThreadRuns
<1> QED BY <1>7, <1>8, <1>10, <1>11, <1>12 DEF IInv

(* The system calls by which a thread gives way. *)
LEMMA ReadCharacterStep == IInv /\ ReadCharacter => IInv'
<1> SUFFICES ASSUME IInv, ReadCharacter
             PROVE  IInv'
  OBVIOUS
<1> DEFINE switched == RoundRobin(lists, "forced")
           blocked == IgnoreUntilInput(switched, RunningThread)
<1>1. /\ UserThreadRuns
      /\ l1' = Mapping(lists, "forced")
      /\ lists' = blocked \/ lists' = switched
      /\ m1' \in {FALSE, m1} /\ halted' \in {TRUE, halted}
      /\ UNCHANGED <<procVars, stallVars, clo, uartVars>>
  BY DEF ReadCharacter, Calling, Panic
<1>2. /\ Placed(switched) /\ RunningThread \in ToSet(switched.ready)
      /\ switched.finished = lists.finished
      /\ Mapped(switched, l1') /\ l1' \in Tables
  BY <1>1, ForcedSwitch
<1> HIDE DEF switched
<1>3. /\ Placed(blocked)
      /\ blocked.running = switched.running /\ blocked.finished = switched.finished
  BY <1>2, IgnoreUntilInputPlaced
<1> HIDE DEF blocked
<1>4. Placed(lists') /\ lists'.running = switched.running /\ lists'.finished = lists.finished
  BY <1>1, <1>2, <1>3
<1>5. Mapped(lists', l1')
  BY <1>2, <1>4 DEF Mapped
<1>6. DevicesTyped'
  <2>1. DevicesTyped
    BY TypedNow DEF IInv
  <2> QED BY <1>1, <2>1 DEF DevicesTyped, stallVars, uartVars
<1> QED BY <1>1, <1>2, <1>4, <1>5, <1>6, HandlerStep

LEMMA YieldThreadStep == IInv /\ YieldThread => IInv'
<1> SUFFICES ASSUME IInv, YieldThread
             PROVE  IInv'
  OBVIOUS
<1> DEFINE switched == RoundRobin(lists, "forced")
<1>1. /\ UserThreadRuns
      /\ l1' = Mapping(lists, "forced")
      /\ lists' = switched
      /\ m1' \in {FALSE, m1} /\ halted' \in {TRUE, halted}
      /\ UNCHANGED <<procVars, stallVars, clo, uartVars>>
  BY DEF YieldThread, Calling, Panic
<1>2. /\ Placed(switched) /\ switched.finished = lists.finished
      /\ Mapped(switched, l1') /\ l1' \in Tables
  BY <1>1, ForcedSwitch
<1> HIDE DEF switched
<1>3. DevicesTyped'
  <2>1. DevicesTyped
    BY TypedNow DEF IInv
  <2> QED BY <1>1, <2>1 DEF DevicesTyped, stallVars, uartVars
<1> QED BY <1>1, <1>2, <1>3, HandlerStep

LEMMA StallThreadStep ==
  ASSUME IInv, NEW match \in Durations, StallThread(match)
  PROVE  IInv'
<1> DEFINE switched == RoundRobin(lists, "forced")
<1>1. /\ UserThreadRuns
      /\ l1' = Mapping(lists, "forced")
      /\ \/ IgnoreUntilMatch(switched, RunningThread, match) /\ m1' = FALSE /\ halted' = halted
         \/ lists' = switched /\ halted' = TRUE /\ UNCHANGED <<m1, stallVars>>
      /\ UNCHANGED <<procVars, clo, uartVars>>
  BY DEF StallThread, Calling, Panic
<1>2. /\ Placed(switched) /\ RunningThread \in ToSet(switched.ready)
      /\ switched.finished = lists.finished
      /\ Mapped(switched, l1') /\ l1' \in Tables
  BY <1>1, ForcedSwitch
<1>3. match \in Nat /\ TypeOK /\ DevicesTyped
  BY ClockAssumption, TypedNow DEF IInv
<1> HIDE DEF switched
<1>4. CASE IgnoreUntilMatch(switched, RunningThread, match) /\ m1' = FALSE /\ halted' = halted
  <2>1. /\ Placed(lists')
        /\ lists'.running = switched.running /\ lists'.finished = switched.finished
        /\ stallUntil' \in [Threads -> ClockValues]
        /\ c3' \in ClockValues /\ m3' \in BOOLEAN
    BY <1>2, <1>3, <1>4, IgnoreUntilMatchPlaced
  <2>2. Mapped(lists', l1')
    BY <1>2, <2>1 DEF Mapped
  <2>3. DevicesTyped'
    BY <1>1, <1>3, <1>4, <2>1 DEF DevicesTyped, uartVars
  <2> QED BY <1>1, <1>2, <2>1, <2>2, <2>3, HandlerStep
<1>5. CASE lists' = switched /\ halted' = TRUE /\ UNCHANGED <<m1, stallVars>>
  <2>1. DevicesTyped'
    BY <1>1, <1>3, <1>5 DEF DevicesTyped, stallVars, uartVars
  <2> QED BY <1>1, <1>2, <1>5, <2>1, HandlerStep
<1> QED BY <1>1, <1>4, <1>5

(* The interrupt handler: wake, switch, feed. *)
LEMMA IRQStep == IInv /\ IRQ => IInv'
<1> SUFFICES ASSUME IInv, IRQ
             PROVE  IInv'
  OBVIOUS
<1>1. /\ IF m3 THEN AdjustStallTimer(Woken.stall, stallUntil) ELSE UNCHANGED <<m3, c3>>
      /\ l1' = IF m1 THEN Mapping(Woken, "normal") ELSE l1
      /\ \/ lists' = Switched /\ halted' = TRUE /\ UNCHANGED <<m1, uartVars>>
         \/ /\ m1' = FALSE /\ rx' = FALSE /\ halted' = halted
            /\ lists' = FeedReaders(Switched, Received)
            /\ unread' = Received - (Len(Switched.input) - Len(lists'.input))
      /\ UNCHANGED <<procVars, stallUntil, clo>>
  BY DEF IRQ, Panic
<1>2. /\ Placed(lists) /\ Mapped(lists, l1) /\ l1 \in Tables /\ TypeOK /\ DevicesTyped
  BY InvariantNow, TypedNow DEF IInv
<1>3. /\ Placed(Woken)
      /\ Woken.running = lists.running /\ Woken.finished = lists.finished
  BY <1>2, UnblockOverduePlaced DEF Woken
<1>4. Mapped(Woken, l1)
  BY <1>2, <1>3 DEF Mapped
<1>5. /\ Placed(Switched) /\ Switched.finished = lists.finished
      /\ Mapped(Switched, l1') /\ l1' \in Tables
  <2>1. CASE m1
    BY <1>1, <1>2, <1>3, <1>4, <2>1, RoundRobinPlaced, MappingMapped DEF Switched
  <2>2. CASE ~m1
    BY <1>1, <1>2, <1>3, <1>4, <2>2 DEF Switched
  <2> QED BY <2>1, <2>2
<1>6. c3' \in ClockValues /\ m3' \in BOOLEAN
  <2>1. Woken.stall \in NodeLists(Threads)
    BY <1>3 DEF Placed, Lists
  <2>2. c3 \in ClockValues /\ m3 \in BOOLEAN /\ stallUntil \in [Threads -> ClockValues]
    BY <1>2 DEF DevicesTyped
  <2>3. CASE m3
    BY <1>1, <2>1, <2>2, <2>3, AdjustStallTimerTyped
  <2>4. CASE ~m3
    BY <1>1, <2>2, <2>4
  <2> QED BY <2>3, <2>4
<1>7. CASE lists' = Switched /\ halted' = TRUE /\ UNCHANGED <<m1, uartVars>>
  <2>1. DevicesTyped'
    BY <1>1, <1>2, <1>6, <1>7 DEF DevicesTyped, uartVars
  <2> QED BY <1>1, <1>5, <1>7, <2>1, HandlerStep
<1>8. CASE /\ m1' = FALSE /\ rx' = FALSE /\ halted' = halted
           /\ lists' = FeedReaders(Switched, Received)
           /\ unread' = Received - (Len(Switched.input) - Len(lists'.input))
  <2>1. Received \in 0 .. UART_INPUT_BUFFER_SIZE
    <3>1. unread \in 0 .. UART_INPUT_BUFFER_SIZE /\ unread + 1 \in Nat
      BY <1>2, UartAssumption DEF DevicesTyped
    <3> DEFINE ends == {unread + 1, UART_INPUT_BUFFER_SIZE}
    <3>2. ends \subseteq Nat /\ ends # {}
      BY <3>1, UartAssumption
    <3>3. \A y \in ends : y \in Nat
      BY <3>2
    <3> HIDE DEF ends
    <3>4. Min(ends) \in ends /\ \A y \in ends : Min(ends) <= y
      BY <3>2, MinNat
    <3>5. Min(ends) \in Nat /\ Min(ends) <= UART_INPUT_BUFFER_SIZE
      BY <3>3, <3>4 DEF ends
    <3>6. Min(ends) \in 0 .. UART_INPUT_BUFFER_SIZE
      BY <3>5, UartAssumption
    <3> QED BY <3>1, <3>6 DEF Received, ends
  <2>2. Received \in Nat
    BY <2>1, UartAssumption
  <2>3. /\ Placed(lists')
        /\ lists'.running = Switched.running /\ lists'.finished = Switched.finished
        /\ Len(Switched.input) - Len(lists'.input) \in 0 .. Received
    BY <1>5, <1>8, <2>2, FeedReadersPlaced
  <2>4. Mapped(lists', l1')
    BY <1>5, <2>3 DEF Mapped
  <2>5. unread' \in 0 .. UART_INPUT_BUFFER_SIZE
    <3>1. \A d \in 0 .. Received : Received - d \in 0 .. UART_INPUT_BUFFER_SIZE
      BY <2>1, UartAssumption
    <3> QED BY <1>8, <2>3, <3>1
  <2>6. DevicesTyped'
    BY <1>1, <1>2, <1>6, <1>8, <2>5 DEF DevicesTyped
  <2> QED BY <1>1, <1>5, <2>3, <2>4, <2>6, HandlerStep
<1> QED BY <1>1, <1>7, <1>8

(* The hardware moves no thread. *)
LEMMA HardwareStep == IInv /\ (Tick \/ SystimerMatch \/ Keypress) => IInv'
<1> SUFFICES ASSUME IInv, Tick \/ SystimerMatch \/ Keypress
             PROVE  IInv'
  OBVIOUS
<1>1. UNCHANGED <<lists, procVars, l1>>
  BY DEF Tick, SystimerMatch, Keypress
<1>2. /\ Placed(lists) /\ Mapped(lists, l1) /\ l1 \in Tables /\ DevicesTyped
  BY InvariantNow, TypedNow DEF IInv
<1>3. DevicesTyped'
  <2>1. CASE Tick
    <3>1. clo \in Nat /\ clo + 1 \in Nat
      BY <1>2 DEF DevicesTyped, ClockValues
    <3>2. (clo + 1) % ClockRange \in ClockValues
      BY <3>1, ClockWraps
    <3>3. m3' \in BOOLEAN
      BY <2>1 DEF Tick
    <3> QED BY <1>2, <2>1, <3>2, <3>3 DEF DevicesTyped, Tick, uartVars
  <2>2. CASE SystimerMatch
    BY <1>2, <2>2 DEF DevicesTyped, SystimerMatch, stallVars, uartVars
  <2>3. CASE Keypress
    BY <1>2, <2>3 DEF DevicesTyped, Keypress, stallVars
  <2> QED BY <2>1, <2>2, <2>3
<1>4. lists' = lists /\ l1' = l1 /\ UNCHANGED procVars
  BY <1>1
<1> QED BY <1>2, <1>3, <1>4, HandlerStep

(* A thread is created in a process that has the slot free. *)
LEMMA CreateInStep ==
  ASSUME IInv, NEW a \in AddressSpaces, NEW slot \in FreeSlots(a), CreateIn(a, slot)
  PROVE  IInv'
<1>1. Placed(lists) /\ Mapped(lists, l1) /\ l1 \in Tables /\ DevicesTyped /\ ProcessesTyped
  BY InvariantNow, TypedNow DEF IInv
<1>2. UNCHANGED <<l1, stallVars, clo, m1, uartVars>>
  BY DEF CreateIn
<1>3. CASE lists.finished = <<>>
  <2>1. lists' = lists /\ halted' = TRUE /\ UNCHANGED procVars
    BY <1>3 DEF CreateIn, Panic
  <2>2. DevicesTyped'
    BY <1>1, <1>2, <2>1 DEF DevicesTyped, stallVars, uartVars
  <2> QED BY <1>1, <1>2, <2>1, <2>2, HandlerStep
<1>4. CASE lists.finished # <<>>
  <2> DEFINE thread == Head(lists.finished)
  <2>1. /\ spaces' = [spaces EXCEPT ![a] = @ \cup {thread}]
        /\ stackHandles' = [stackHandles EXCEPT ![a][slot] = thread]
        /\ slotsUsed' = [slotsUsed EXCEPT ![a] = @ \cup {slot}]
        /\ pid' = [pid EXCEPT ![thread] = a]
        /\ pidSlot' = [pidSlot EXCEPT ![thread] = slot]
        /\ halted' = halted
    BY <1>4 DEF CreateIn, Assign
  <2>2. lists' = [lists EXCEPT !.finished = Tail(@), !.ready = AppendLast(@, thread)]
    BY <1>4 DEF CreateIn, Assign
  <2>3. /\ Placed(lists') /\ lists'.running = lists.running
        /\ thread \in UserThreads /\ thread \in ToSet(lists.finished)
        /\ ToSet(lists'.finished) = ToSet(lists.finished) \ {thread}
    BY <1>1, <1>4, <2>2, AssignedPlaced
  <2> HIDE DEF thread
  <2>4. slot \in Slots /\ slot \notin slotsUsed[a]
    BY DEF FreeSlots
  <2>5. DevicesTyped'
    BY <1>1, <1>2, <2>1 DEF DevicesTyped, stallVars, uartVars
  <2>6. ProcessesTyped'
    <3>1. thread \in Threads /\ thread # IdleThread /\ a # IdlePid
      BY <2>3, IdleIsNoUser, CapacityAssumption DEF AddressSpaces, IdlePid
    <3> QED BY <1>1, <2>1, <2>3, <2>4, <3>1 DEF ProcessesTyped
  <2>7. TypeOK' /\ ListPartition'
    BY <1>1, <1>2, <2>3, <2>5, <2>6, TypedNext, PartitionNext
  <2>8. \A t : Live(t)' <=> Live(t) \/ t = thread
    BY <2>3 DEF Live
  <2>9. /\ \A t \in UserThreads : pid'[t] = IF t = thread THEN a ELSE pid[t]
        /\ \A t \in UserThreads : pidSlot'[t] = IF t = thread THEN slot ELSE pidSlot[t]
    BY <1>1, <2>1, IdleIsNoUser DEF ProcessesTyped
  <2>10. ~Live(thread)
    BY <2>3 DEF Live
  <2>11. SlotBookkeeping'
    <3> SUFFICES ASSUME NEW b \in AddressSpaces
                 PROVE  /\ spaces'[b] = {t \in UserThreads : Live(t)' /\ pid'[t] = b}
                        /\ slotsUsed'[b] = {pidSlot'[t] : t \in spaces'[b]}
                        /\ \A t, u \in spaces'[b] : pidSlot'[t] = pidSlot'[u] => t = u
      BY DEF SlotBookkeeping
    <3>1. /\ spaces[b] = {t \in UserThreads : Live(t) /\ pid[t] = b}
          /\ slotsUsed[b] = {pidSlot[t] : t \in spaces[b]}
          /\ \A t, u \in spaces[b] : pidSlot[t] = pidSlot[u] => t = u
      BY DEF IInv, SlotBookkeeping
    <3>2. /\ spaces'[b] = IF b = a THEN spaces[b] \cup {thread} ELSE spaces[b]
          /\ slotsUsed'[b] = IF b = a THEN slotsUsed[b] \cup {slot} ELSE slotsUsed[b]
      BY <1>1, <2>1 DEF ProcessesTyped
    <3>3. spaces'[b] = {t \in UserThreads : Live(t)' /\ pid'[t] = b}
      BY <2>3, <2>8, <2>9, <2>10, <3>1, <3>2
    <3>4. thread \notin spaces[b] /\ spaces[b] \subseteq UserThreads
      BY <2>10, <3>1
    <3>5. \A t \in spaces[b] : pidSlot'[t] = pidSlot[t]
      BY <2>9, <3>4
    <3>6. pidSlot'[thread] = slot
      BY <2>3, <2>9
    <3>7. slotsUsed'[b] = {pidSlot'[t] : t \in spaces'[b]}
      BY <3>1, <3>2, <3>5, <3>6
    <3>8. \A t \in spaces[a] : pidSlot[t] # slot
      BY <2>4 DEF IInv, SlotBookkeeping
    <3>9. \A t, u \in spaces'[b] : pidSlot'[t] = pidSlot'[u] => t = u
      BY <3>1, <3>2, <3>5, <3>6, <3>8
    <3> QED BY <3>3, <3>7, <3>9
  <2>12. LiveStackRegistered'
    <3> SUFFICES ASSUME NEW t \in UserThreads, Live(t)'
                 PROVE  stackHandles'[pid'[t]][pidSlot'[t]] = t
      BY DEF LiveStackRegistered
    <3>1. CASE t = thread
      BY <1>1, <2>1, <2>4, <2>9, <3>1 DEF ProcessesTyped
    <3>2. CASE t # thread
      <4>1. Live(t) /\ pid'[t] = pid[t] /\ pidSlot'[t] = pidSlot[t]
        BY <2>8, <2>9, <3>2
      <4>2. stackHandles[pid[t]][pidSlot[t]] = t
        BY <4>1 DEF IInv, LiveStackRegistered
      <4>3. pid[t] \in AddressSpaces /\ pidSlot[t] \in Slots
        BY <1>1, IdleIsNoUser DEF ProcessesTyped
      <4>4. ~(pid[t] = a /\ pidSlot[t] = slot)
        BY <2>4, <4>1 DEF IInv, SlotBookkeeping
      <4>5. stackHandles'[pid[t]][pidSlot[t]] = stackHandles[pid[t]][pidSlot[t]]
        BY <1>1, <2>1, <4>3, <4>4 DEF ProcessesTyped
      <4> QED BY <4>1, <4>2, <4>5
    <3> QED BY <3>1, <3>2
  <2>13. MappingMatchesRunning'
    <3>1. lists.running # <<>> => /\ Head(lists.running) \in Threads
                                  /\ Head(lists.running) # thread
      <4> SUFFICES ASSUME lists.running # <<>>
                   PROVE  Head(lists.running) \in Threads /\ Head(lists.running) # thread
        OBVIOUS
      <4>1. Head(lists.running) \in Threads /\ Head(lists.running) \in ToSet(lists.running)
        BY <1>1, RunningNodes
      <4> QED BY <1>1, <2>3, <4>1 DEF Placed, Apart
    <3>2. lists.running # <<>> => pid'[Head(lists.running)] = pid[Head(lists.running)]
      BY <1>1, <2>1, <3>1 DEF ProcessesTyped
    <3>3. l1' = l1 /\ lists'.running = lists.running
      BY <1>2, <2>3
    <3> QED BY <1>1, <3>2, <3>3
            DEF Mapped, MappingMatchesRunning, UserThreadRuns, RunningThread
  <2> QED BY <2>7, <2>11, <2>12, <2>13 DEF IInv
<1> QED BY <1>3, <1>4

(* Creating a process or a thread finds a process and a slot for it. *)
LEMMA CreateStep == IInv /\ (CreateProcess \/ CreateThread) => IInv'
<1> SUFFICES ASSUME IInv, CreateProcess \/ CreateThread
             PROVE  IInv'
  OBVIOUS
<1>1. CASE CreateProcess
  <2> DEFINE a == Min(EmptyAddressSpaces)
  <2>1. EmptyAddressSpaces \subseteq Nat /\ EmptyAddressSpaces # {}
    BY <1>1 DEF CreateProcess, EmptyAddressSpaces, AddressSpaces
  <2>2. a \in EmptyAddressSpaces /\ CreateIn(a, 0)
    BY <1>1, <2>1, MinNat DEF CreateProcess
  <2> HIDE DEF a
  <2>3. a \in AddressSpaces /\ spaces[a] = {}
    BY <2>2 DEF EmptyAddressSpaces
  <2>4. slotsUsed[a] = {}
    BY <2>3 DEF IInv, SlotBookkeeping
  <2>5. 0 \in FreeSlots(a)
    BY <2>4, CapacityAssumption DEF FreeSlots, Slots
  <2> QED BY <2>2, <2>3, <2>5, CreateInStep
<1>2. CASE CreateThread
  <2> DEFINE a == pid[RunningThread]
             slot == Min(FreeSlots(a))
  <2>1. UserThreadRuns /\ FreeSlots(a) # {} /\ CreateIn(a, slot)
    BY <1>2 DEF CreateThread, Calling
  <2>2. Placed(lists) /\ TypeOK
    BY InvariantNow DEF IInv
  <2>3. RunningThread \in Threads /\ RunningThread # IdleThread
    BY <2>1, <2>2, RunningNodes DEF UserThreadRuns, RunningThread
  <2>4. a \in AddressSpaces
    BY <2>2, <2>3, IdleIsNoUser, PidOfThread
  <2>5. FreeSlots(a) \subseteq Nat
    BY DEF FreeSlots, Slots
  <2> HIDE DEF a
  <2>6. slot \in FreeSlots(a)
    BY <2>1, <2>5, MinNat
  <2> HIDE DEF slot
  <2> QED BY <2>1, <2>4, <2>6, CreateInStep
<1> QED BY <1>1, <1>2

(* A thread ends: its slot, its place in the process and its control block *)
(* come back in one step, so the records still agree.                      *)
LEMMA ExitThreadStep == IInv /\ ExitThread => IInv'
<1> SUFFICES ASSUME IInv, ExitThread
             PROVE  IInv'
  OBVIOUS
<1> DEFINE thread == RunningThread
           a == pid[thread]
           cleaned == Cleaned(lists)
           switched == RoundRobin(cleaned, "normal")
<1>1. /\ UserThreadRuns
      /\ slotsUsed' = [slotsUsed EXCEPT ![a] = @ \ {pidSlot[thread]}]
      /\ spaces' = [spaces EXCEPT ![a] = @ \ {thread}]
      /\ l1' = Mapping(cleaned, "normal")
      /\ lists' = switched
      /\ m1' \in {FALSE, m1} /\ halted' \in {TRUE, halted}
      /\ UNCHANGED <<pid, pidSlot, stackHandles, stallVars, clo, uartVars>>
  BY DEF ExitThread, Calling, Panic
<1>2. /\ Placed(lists) /\ Mapped(lists, l1) /\ l1 \in Tables
      /\ TypeOK /\ DevicesTyped /\ ProcessesTyped
  BY InvariantNow, TypedNow DEF IInv
<1>3. lists.running # <<>> /\ Head(lists.running) = thread /\ thread # IdleThread
  BY <1>1 DEF UserThreadRuns, RunningThread
<1> HIDE DEF thread
<1>4. /\ thread \in Threads /\ thread \in UserThreads
      /\ thread \in ToSet(lists.running) /\ thread \notin ToSet(lists.finished)
  BY <1>2, <1>3, RunningNodes, IdleIsNoUser DEF Placed, Apart
<1>5. /\ Placed(cleaned) /\ cleaned.running = <<>>
      /\ ToSet(cleaned.finished) = ToSet(lists.finished) \cup {thread}
  BY <1>2, <1>3, CleanedPlaced
<1> HIDE DEF cleaned
<1>6. Mapped(cleaned, l1)
  BY <1>5 DEF Mapped
<1>7. /\ Placed(switched) /\ switched.finished = cleaned.finished
      /\ Mapped(switched, l1') /\ l1' \in Tables
  BY <1>1, <1>2, <1>5, <1>6, RoundRobinPlaced, MappingMapped
<1> HIDE DEF switched
<1>8. a \in AddressSpaces
  BY <1>2, <1>4, PidOfThread
<1>9. DevicesTyped'
  BY <1>1, <1>2 DEF DevicesTyped, stallVars, uartVars
<1>10. ProcessesTyped'
  BY <1>1, <1>2, <1>8 DEF ProcessesTyped
<1>11. TypeOK' /\ ListPartition'
  BY <1>1, <1>7, <1>9, <1>10, TypedNext, PartitionNext
<1>12. \A t : Live(t)' <=> Live(t) /\ t # thread
  BY <1>1, <1>5, <1>7 DEF Live
<1>13. Live(thread)
  BY <1>4 DEF Live
<1>14. SlotBookkeeping'
  <2> SUFFICES ASSUME NEW b \in AddressSpaces
               PROVE  /\ spaces'[b] = {t \in UserThreads : Live(t)' /\ pid'[t] = b}
                      /\ slotsUsed'[b] = {pidSlot'[t] : t \in spaces'[b]}
                      /\ \A t, u \in spaces'[b] : pidSlot'[t] = pidSlot'[u] => t = u
    BY DEF SlotBookkeeping
  <2>1. /\ spaces[b] = {t \in UserThreads : Live(t) /\ pid[t] = b}
        /\ slotsUsed[b] = {pidSlot[t] : t \in spaces[b]}
        /\ \A t, u \in spaces[b] : pidSlot[t] = pidSlot[u] => t = u
    BY DEF IInv, SlotBookkeeping
  <2>2. /\ spaces'[b] = IF b = a THEN spaces[b] \ {thread} ELSE spaces[b]
        /\ slotsUsed'[b] = IF b = a THEN slotsUsed[b] \ {pidSlot[thread]} ELSE slotsUsed[b]
        /\ pid' = pid /\ pidSlot' = pidSlot
    BY <1>1, <1>2 DEF ProcessesTyped
  <2>3. spaces'[b] = {t \in UserThreads : Live(t)' /\ pid'[t] = b}
    BY <1>12, <2>1, <2>2
  <2>4. thread \in spaces[a]
    BY <1>4, <1>8, <1>13 DEF IInv, SlotBookkeeping
  <2>5. slotsUsed'[b] = {pidSlot'[t] : t \in spaces'[b]}
    BY <2>1, <2>2, <2>4
  <2>6. \A t, u \in spaces'[b] : pidSlot'[t] = pidSlot'[u] => t = u
    BY <2>1, <2>2
  <2> QED BY <2>3, <2>5, <2>6
<1>15. LiveStackRegistered'
  BY <1>1, <1>12 DEF IInv, LiveStackRegistered
<1>16. MappingMatchesRunning'
  BY <1>1, <1>7, MatchesNext
<1> QED BY <1>11, <1>14, <1>15, <1>16 DEF IInv

(* No step of the system breaks the invariant. *)
LEMMA StepInvariant == IInv /\ [Next]_vars => IInv'
<1> SUFFICES ASSUME IInv, [Next]_vars
             PROVE  IInv'
  OBVIOUS
<1>1. CASE CreateProcess \/ CreateThread
  BY <1>1, CreateStep
<1>2. CASE ReadCharacter
  BY <1>2, ReadCharacterStep
<1>3. CASE YieldThread
  BY <1>3, YieldThreadStep
<1>4. CASE \E match \in Durations : StallThread(match)
  BY <1>4, StallThreadStep
<1>5. CASE ExitThread
  BY <1>5, ExitThreadStep
<1>6. CASE IRQ
  BY <1>6, IRQStep
<1>7. CASE Tick \/ SystimerMatch \/ Keypress
  BY <1>7, HardwareStep
<1>8. CASE UNCHANGED vars
  <2>1. UNCHANGED <<lists, procVars, l1>> /\ lists' = lists /\ l1' = l1
    BY <1>8 DEF vars
  <2>2. /\ Placed(lists) /\ Mapped(lists, l1) /\ l1 \in Tables /\ DevicesTyped
    BY InvariantNow, TypedNow DEF IInv
  <2>3. DevicesTyped'
    BY <1>8, <2>2 DEF vars, stallVars, uartVars, DevicesTyped
  <2> QED BY <2>1, <2>2, <2>3, HandlerStep
<1> QED BY <1>1, <1>2, <1>3, <1>4, <1>5, <1>6, <1>7, <1>8 DEF Next

(* The invariant is inductive. *)
THEOREM Inductive == Spec => []IInv
BY InitInvariant, StepInvariant, PTL DEF Spec

(* Every variable has its type, for every size of the tables. *)
THEOREM TypeCorrect == Spec => []TypeOK
<1>1. IInv => TypeOK
  BY DEF IInv
<1> QED BY <1>1, Inductive, PTL

(* No sequence of system calls and interrupts loses or doubles a thread.   *)
THEOREM ThreadsPartitioned == Spec => []ListPartition
<1>1. IInv => ListPartition
  BY DEF IInv
<1> QED BY <1>1, Inductive, PTL

(* The thread lists of the processes, the slots taken and the fields of    *)
(* the control blocks always agree.                                        *)
THEOREM BookkeepingAgrees == Spec => []SlotBookkeeping
<1>1. IInv => SlotBookkeeping
  BY DEF IInv
<1> QED BY <1>1, Inductive, PTL

(* The stack of every live thread is found under its slot of its process.  *)
THEOREM StacksRegistered == Spec => []LiveStackRegistered
<1>1. IInv => LiveStackRegistered
  BY DEF IInv
<1> QED BY <1>1, Inductive, PTL

(* A user thread never runs on another process's data section, or on what  *)
(* the idle thread's switch read past the end of the stack handles.        *)
THEOREM MappingMatches == Spec => []MappingMatchesRunning
<1>1. IInv => MappingMatchesRunning
  BY DEF IInv
<1> QED BY <1>1, Inductive, PTL

(* No finished thread means USER_THREAD_COUNT live ones in different slots *)
(* of different processes: then no slot is left (pigeon hole).             *)
LEMMA NoFreeThreadNoFreeSlot ==
  ASSUME IInv, lists.finished = <<>>, NEW b \in AddressSpaces
  PROVE  slotsUsed[b] = Slots
<1> SUFFICES ASSUME NEW s \in Slots, s \notin slotsUsed[b]
             PROVE  FALSE
  <2>1. slotsUsed[b] \subseteq Slots
    BY DEF IInv, TypeOK
  <2> QED BY <2>1
<1> DEFINE places == AddressSpaces \X Slots
           left == places \ {<<b, s>>}
           place == [t \in UserThreads |-> <<pid[t], pidSlot[t]>>]
<1>1. /\ ADDRESS_SPACE_COUNT \in Nat /\ THREADS_PER_ADDRESS_SPACE \in Nat
      /\ USER_THREAD_COUNT \in Nat
      /\ ADDRESS_SPACE_COUNT * THREADS_PER_ADDRESS_SPACE \in Nat
      /\ USER_THREAD_COUNT >= ADDRESS_SPACE_COUNT * THREADS_PER_ADDRESS_SPACE
  BY CapacityAssumption
<1>2. IsFiniteSet(AddressSpaces) /\ Cardinality(AddressSpaces) = ADDRESS_SPACE_COUNT
  BY FS_Interval, CapacityAssumption DEF AddressSpaces
<1>3. IsFiniteSet(Slots) /\ Cardinality(Slots) = THREADS_PER_ADDRESS_SPACE
  BY FS_Interval, CapacityAssumption DEF Slots
<1>4. IsFiniteSet(UserThreads) /\ Cardinality(UserThreads) = USER_THREAD_COUNT
  BY <1>1, FS_Interval DEF UserThreads
<1>5. /\ IsFiniteSet(places)
      /\ Cardinality(places) = ADDRESS_SPACE_COUNT * THREADS_PER_ADDRESS_SPACE
  BY <1>2, <1>3, FS_Product
<1>6. <<b, s>> \in places
  OBVIOUS
<1>7. /\ \A t \in UserThreads : Live(t) /\ pid[t] \in AddressSpaces /\ pidSlot[t] \in Slots
      /\ \A t \in UserThreads : t \in spaces[pid[t]]
  <2>1. TypeOK /\ UserThreads \subseteq Threads
    BY IdleIsNoUser DEF IInv
  <2>2. \A t \in UserThreads : Live(t)
    BY SmallNodes, IdleIsNoUser DEF Live
  <2>3. \A t \in UserThreads : pid[t] \in AddressSpaces /\ pidSlot[t] \in Slots
    BY <2>1, PidOfThread DEF TypeOK
  <2> QED BY <2>2, <2>3 DEF IInv, SlotBookkeeping
<1>8. place \in [UserThreads -> left]
  <2> SUFFICES ASSUME NEW t \in UserThreads
               PROVE  <<pid[t], pidSlot[t]>> \in left
    OBVIOUS
  <2>1. <<pid[t], pidSlot[t]>> \in places
    BY <1>7
  <2>2. ~(pid[t] = b /\ pidSlot[t] = s)
    BY <1>7 DEF IInv, SlotBookkeeping
  <2> QED BY <2>1, <2>2
<1> HIDE DEF places
<1>9. IsFiniteSet(left) /\ Cardinality(left) = Cardinality(places) - 1
  BY <1>5, <1>6, FS_RemoveElement
<1>10. Cardinality(left) < Cardinality(UserThreads)
  BY <1>1, <1>4, <1>5, <1>9
<1> HIDE DEF left, place
<1>11. PICK t, u \in UserThreads : t # u /\ place[t] = place[u]
  BY <1>4, <1>8, <1>9, <1>10, FS_PigeonHole
<1>12. pid[t] = pid[u] /\ pidSlot[t] = pidSlot[u]
  BY <1>11 DEF place
<1> QED BY <1>7, <1>11, <1>12 DEF IInv, SlotBookkeeping

(* VERIFY(!k_is_list_empty(&finished_list)) never fails, given only that   *)
(* there are as many threads as slots in all processes together.           *)
THEOREM FinishedThreadFound == Spec => []FreeThreadForFreeSlot
<1>1. IInv => FreeThreadForFreeSlot
  BY NoFreeThreadNoFreeSlot DEF FreeThreadForFreeSlot
<1> QED BY <1>1, Inductive, PTL
=============================================================================
