----------------------------- MODULE DemoProofs -----------------------------
(***************************************************************************)
(* Theorems about the stall timer and the demo program.                    *)
(*                                                                         *)
(* Part 1: InsertSorted never moves the first node, so a handler that sets *)
(* the stall timer sets it to the moment it has compared with the clock.   *)
(* Part 2: the stall timer for any stall times, as long as the clock does  *)
(* not wrap: no wakeup is lost, none is early.                             *)
(* Part 3: threads that all stall for the same time wake in their order,   *)
(* the wrap of the clock included.                                         *)
(* Part 4: the demo program on top of it.                                  *)
(***************************************************************************)
EXTENDS DemoProgram, KernelListProofs, FiniteSetTheorems

-----------------------------------------------------------------------------
(* Part 1: the list.                                                       *)

(* The first node stays the first one, whatever its key is.                *)
LEMMA InsertSortedHead ==
  ASSUME NEW S, NEW s \in NodeLists(S), NEW n \in S, n \notin ToSet(s), NEW key
  PROVE  /\ InsertSorted(s, n, key) # <<>>
         /\ Head(InsertSorted(s, n, key)) = IF s = <<>> THEN n ELSE Head(s)
<1> DEFINE larger == {i \in DOMAIN s : key[n] < key[s[i]]}
           p == Min(larger)
           front == SubSeq(s, 1, p - 1)
           rest == SubSeq(s, p, Len(s))
<1>1. s \in Seq(S) /\ Len(s) \in Nat /\ DOMAIN s = 1 .. Len(s)
  BY LenProperties DEF NodeLists
<1>2. CASE larger = {} \/ 1 \in larger
  <2>1. InsertSorted(s, n, key) = AppendLast(s, n)
    BY <1>2 DEF InsertSorted, AppendLast
  <2> QED BY <2>1, AppendLastNodes
<1>3. CASE ~(larger = {} \/ 1 \in larger)
  <2>1. p \in 2 .. Len(s)
    <3>1. larger \subseteq Nat /\ larger # {}
      BY <1>1, <1>3
    <3> HIDE DEF larger
    <3>2. p \in larger
      BY <3>1, MinNat
    <3> QED BY <1>1, <1>3, <3>2 DEF larger
  <2>2. InsertSorted(s, n, key) = front \o <<n>> \o rest
    BY <1>3 DEF InsertSorted, InsertAt
  <2> HIDE DEF larger, p
  <2>3. /\ front \in Seq(S) /\ Len(front) = p - 1 /\ front[1] = s[1]
    <3>1. \A i \in 1 .. p - 1 : s[i] \in S
      BY <1>1, <2>1, ElementOfSeq
    <3>2. 1 \in Int /\ p - 1 \in Int
      BY <1>1, <2>1
    <3>3. /\ front \in Seq(S)
          /\ Len(front) = IF 1 <= p - 1 THEN p - 1 - 1 + 1 ELSE 0
          /\ \A i \in 1 .. p - 1 - 1 + 1 : front[i] = s[1 + i - 1]
      BY <3>1, <3>2, SubSeqProperties
    <3> QED BY <1>1, <2>1, <3>3
  <2>4. rest \in Seq(S)
    <3>1. \A i \in p .. Len(s) : s[i] \in S
      BY <1>1, <2>1, ElementOfSeq
    <3> QED BY <1>1, <2>1, <3>1, SubSeqProperties
  <2>5. <<n>> \in Seq(S) /\ Len(<<n>>) = 1
    OBVIOUS
  <2> HIDE DEF front, rest
  <2>6. /\ front \o <<n>> \in Seq(S) /\ Len(front \o <<n>>) = p - 1 + 1
        /\ (front \o <<n>>)[1] = s[1]
    BY <1>1, <2>1, <2>3, <2>5, ConcatProperties
  <2>7. /\ front \o <<n>> \o rest \in Seq(S)
        /\ Len(front \o <<n>> \o rest) = p + Len(rest)
        /\ (front \o <<n>> \o rest)[1] = s[1]
        /\ Len(rest) \in Nat
    <3> DEFINE both == front \o <<n>>
    <3>1. both \in Seq(S) /\ Len(both) = p /\ both[1] = s[1]
      BY <1>1, <2>1, <2>6
    <3> HIDE DEF both
    <3>2. Len(rest) \in Nat
      BY <2>4, LenProperties
    <3>3. /\ both \o rest \in Seq(S) /\ Len(both \o rest) = Len(both) + Len(rest)
          /\ \A i \in 1 .. Len(both) + Len(rest) : (both \o rest)[i] =
               IF i <= Len(both) THEN both[i] ELSE rest[i - Len(both)]
      BY <2>4, <3>1, ConcatProperties
    <3>4. (both \o rest)[1] = s[1]
      BY <2>1, <3>1, <3>2, <3>3
    <3> QED BY <3>1, <3>2, <3>3, <3>4 DEF both
  <2>8. s # <<>> /\ Head(s) = s[1]
    BY <1>1, <2>1, EmptySeq, HeadTailProperties
  <2> QED BY <1>1, <2>1, <2>2, <2>7, <2>8, EmptySeq, HeadTailProperties
<1> QED BY <1>2, <1>3

-----------------------------------------------------------------------------
(* Part 2: the stall timer.                                                *)

Clock == 0 .. ClockRange - 1

(* The flags m3 and unblocks are only ever tested.                         *)
TimerTyped ==
  /\ clo \in Clock /\ c3 \in Clock
  /\ stallUntil \in [Threads -> Clock]
  /\ stalled \in NodeLists(Threads)
  /\ handler \in {"none", "clear", "read", "write"}
  /\ delay \in 0 .. MaxDelay
  /\ left \in [Threads -> Int]

LEMMA MomentTyped ==
  ASSUME TimerTyped, NEW match \in Nat
  PROVE  /\ Moment(match) \in Clock
         /\ clo + match < ClockRange => Moment(match) = clo + match
BY StallTimerAssumption DEF TimerTyped, Moment, Clock

(* What a new sleeper does to the list.                                    *)
LEMMA StallList ==
  ASSUME TimerTyped, NEW t \in Threads, NEW match \in Nat, Stall(t, match)
  PROVE  /\ stalled' \in NodeLists(Threads) /\ stalled' # <<>>
         /\ ToSet(stalled') = ToSet(stalled) \cup {t}
         /\ Head(stalled') = IF stalled = <<>> THEN t ELSE Head(stalled)
<1>1. t \notin ToSet(stalled) /\ stalled \in NodeLists(Threads)
  BY DEF Stall, TimerTyped
<1>2. stalled' = InsertSorted(stalled, t, stallUntil')
  BY DEF Stall
<1> QED BY <1>1, <1>2, InsertSortedNodes, InsertSortedHead

(* What taking the overdue thread away does to it.                         *)
LEMMA OverdueList ==
  ASSUME TimerTyped, stalled # <<>>
  PROVE  /\ Head(stalled) \in Threads /\ Head(stalled) \in ToSet(stalled)
         /\ Tail(stalled) \in NodeLists(Threads)
         /\ ToSet(Tail(stalled)) = ToSet(stalled) \ {Head(stalled)}
BY TailNodes DEF TimerTyped

(* A handler reads the clock, and writes C3, only while somebody stalls.   *)
HandlerPlace ==
  /\ handler # "write" => delay = 0
  /\ handler \in {"read", "write"} => stalled # <<>>

LEMMA TimerInit == Init => TimerTyped /\ HandlerPlace
<1> SUFFICES ASSUME Init PROVE TimerTyped /\ HandlerPlace
  OBVIOUS
<1>1. <<>> \in NodeLists(Threads)
  BY DEF NodeLists, IsInjective
<1> QED BY <1>1, StallTimerAssumption DEF Init, TimerTyped, HandlerPlace, Clock

LEMMA TimerNext ==
  ASSUME TimerTyped, HandlerPlace, [Next]_timerVars
  PROVE  TimerTyped' /\ HandlerPlace'
<1>1. ASSUME NEW t \in Threads, NEW match \in Durations, Stall(t, match)
      PROVE  TimerTyped' /\ HandlerPlace'
  <2>1. match \in Nat
    BY StallTimerAssumption
  <2>2. stalled' \in NodeLists(Threads) /\ stalled' # <<>>
    BY <1>1, <2>1, StallList
  <2>3. Moment(match) \in Clock
    BY <2>1, MomentTyped
  <2> QED BY <1>1, <2>1, <2>2, <2>3 DEF Stall, TimerTyped, HandlerPlace, clockVars
<1>2. CASE StallTimerMatch
  BY <1>2 DEF StallTimerMatch, TimerTyped, HandlerPlace, clockVars
<1>3. CASE ClearPending
  BY <1>3 DEF ClearPending, TimerTyped, HandlerPlace
<1>4. CASE ReadTimely
  BY <1>4, StallTimerAssumption DEF ReadTimely, TimerTyped, HandlerPlace, clockVars
<1>5. CASE ReadOverdue
  <2>1. stalled # <<>>
    BY <1>5 DEF ReadOverdue, HandlerPlace
  <2>2. Tail(stalled) \in NodeLists(Threads) /\ 0 \in Clock
    BY <2>1, OverdueList, StallTimerAssumption DEF Clock
  <2>3. stalled' \in NodeLists(Threads)
    BY <1>5, <2>2 DEF ReadOverdue, TimerTyped
  <2>4. stallUntil' \in [Threads -> Clock] /\ left' \in [Threads -> Int]
    BY <1>5, <2>2 DEF ReadOverdue, TimerTyped
  <2> QED BY <1>5, <2>3, <2>4 DEF ReadOverdue, TimerTyped, HandlerPlace, clockVars
<1>6. CASE WriteCompare
  <2>1. stallUntil[Head(stalled)] \in Clock
    BY <1>6, OverdueList DEF WriteCompare, HandlerPlace, TimerTyped
  <2> QED BY <1>6, <2>1, StallTimerAssumption DEF WriteCompare, TimerTyped, HandlerPlace
<1>7. CASE Tick
  <2>1. clo' \in Clock
    BY <1>7, StallTimerAssumption DEF Tick, TimerTyped, Clock
  <2>2. delay' \in 0 .. MaxDelay
    BY <1>7, StallTimerAssumption DEF Tick, TimerTyped
  <2>3. left' \in [Threads -> Int]
    BY <1>7 DEF Tick, TimerTyped
  <2> QED BY <1>7, <2>1, <2>2, <2>3 DEF Tick, TimerTyped, HandlerPlace
<1>8. CASE UNCHANGED timerVars
  BY <1>8 DEF timerVars, clockVars, TimerTyped, HandlerPlace
<1> QED BY <1>1, <1>2, <1>3, <1>4, <1>5, <1>6, <1>7, <1>8 DEF Next, Handling

(***************************************************************************)
(* The clock has not come so near its wrap that a sum the code makes with  *)
(* it leaves 32 bits: no sum is cut off, and none of 2^32.  What happens   *)
(* after it is shown by the run stall_wrap.  A theorem under []BeforeWrap  *)
(* speaks of every behaviour up to the first state near the wrap, for a    *)
(* behaviour of Spec may stop anywhere.                                    *)
(***************************************************************************)
BeforeWrap == \A n \in Durations \cup {1, TOCTOU_PAD} : clo + n < ClockRange

(* A handler on its way to C3 keeps its lead over the clock: the ticks     *)
(* since it read CLO are taken from the pad.                               *)
LeadKept ==
  handler = "write" => clo - delay + TOCTOU_PAD < stallUntil[Head(stalled)]

ArmedInv == TimerTyped /\ HandlerPlace /\ LeadKept /\ StallTimerArmed

LEMMA ArmedNext ==
  ASSUME ArmedInv, BeforeWrap, [Next]_timerVars
  PROVE  ArmedInv'
<1>1. TimerTyped' /\ HandlerPlace' /\ TimerTyped /\ HandlerPlace
  BY TimerNext DEF ArmedInv
<1>2. clo \in Nat /\ clo + TOCTOU_PAD < ClockRange /\ clo + 1 < ClockRange
  <2>1. \A n \in Durations \cup {1, TOCTOU_PAD} : clo + n < ClockRange
    BY DEF BeforeWrap
  <2>2. clo + 1 < ClockRange /\ clo + TOCTOU_PAD < ClockRange
    BY <2>1
  <2> QED BY <1>1, <2>2 DEF TimerTyped, Clock
<1>3. stalled # <<>> => stallUntil[Head(stalled)] \in Nat
  BY <1>1, OverdueList DEF TimerTyped, Clock
<1> SUFFICES LeadKept' /\ StallTimerArmed'
  BY <1>1 DEF ArmedInv
<1>4. ASSUME NEW t \in Threads, NEW match \in Durations, Stall(t, match)
      PROVE  LeadKept' /\ StallTimerArmed'
  <2>1. Head(stalled') = IF stalled = <<>> THEN t ELSE Head(stalled)
    BY <1>1, <1>4, StallList, StallTimerAssumption
  <2>2. handler' \in {"none", "clear"} /\ LeadKept'
    BY <1>4 DEF Stall, LeadKept
  <2>3. CASE stalled = <<>>
    BY <1>4, <2>1, <2>2, <2>3 DEF Stall, StallTimerArmed
  <2>4. CASE stalled # <<>>
    <3>1. Head(stalled) \in ToSet(stalled) /\ t \notin ToSet(stalled)
      BY <1>1, <1>4, <2>4, OverdueList DEF Stall
    <3>2. stallUntil'[Head(stalled')] = stallUntil[Head(stalled)]
      BY <1>1, <1>4, <2>1, <2>4, <3>1, OverdueList DEF Stall, TimerTyped
    <3>3. m3 \/ (clo < c3 /\ c3 = stallUntil[Head(stalled)])
      BY <1>4, <2>4 DEF Stall, ArmedInv, StallTimerArmed
    <3> QED BY <1>4, <2>2, <3>2, <3>3 DEF Stall, StallTimerArmed, clockVars
  <2> QED BY <2>3, <2>4
<1>5. CASE StallTimerMatch
  BY <1>5 DEF StallTimerMatch, LeadKept, StallTimerArmed
<1>6. CASE ClearPending
  BY <1>6 DEF ClearPending, LeadKept, StallTimerArmed
<1>7. CASE ReadTimely
  <2>1. delay = 0 /\ (clo + TOCTOU_PAD) % ClockRange = clo + TOCTOU_PAD
    BY <1>1, <1>2, <1>7, StallTimerAssumption DEF ReadTimely, HandlerPlace
  <2>2. clo + TOCTOU_PAD < stallUntil[Head(stalled)]
    BY <1>7, <2>1 DEF ReadTimely, Armable
  <2> QED BY <1>2, <1>7, <2>1, <2>2, StallTimerAssumption
          DEF ReadTimely, LeadKept, StallTimerArmed, clockVars
<1>8. CASE ReadOverdue
  BY <1>8 DEF ReadOverdue, LeadKept, StallTimerArmed
<1>9. CASE WriteCompare
  <2>1. clo < stallUntil[Head(stalled)]
    BY <1>1, <1>2, <1>3, <1>9, StallTimerAssumption
    DEF WriteCompare, ArmedInv, LeadKept, TimerTyped, HandlerPlace
  <2> QED BY <1>9, <2>1 DEF WriteCompare, LeadKept, StallTimerArmed
<1>10. CASE Tick
  <2>1. clo' = clo + 1
    BY <1>2, <1>10, StallTimerAssumption DEF Tick
  <2>2. LeadKept'
    BY <1>1, <1>2, <1>3, <1>10, <2>1, StallTimerAssumption
    DEF Tick, ArmedInv, LeadKept, TimerTyped, HandlerPlace
  <2>3. StallTimerArmed'
    <3> SUFFICES ASSUME handler' = "none", stalled' # <<>>
                 PROVE  m3' \/ (clo' < c3' /\ c3' = stallUntil'[Head(stalled')])
      BY DEF StallTimerArmed
    <3>1. handler = "none" /\ stalled' = stalled /\ stallUntil' = stallUntil /\ c3' = c3
      BY <1>10 DEF Tick
    <3>2. m3 \/ (clo < c3 /\ c3 = stallUntil[Head(stalled)])
      BY <3>1 DEF ArmedInv, StallTimerArmed
    <3>3. m3 \/ clo' = c3 => m3'
      BY <1>10 DEF Tick
    <3>4. c3 \in Nat
      BY <1>1 DEF TimerTyped, Clock
    <3> QED BY <1>2, <2>1, <3>1, <3>2, <3>3, <3>4
  <2> QED BY <2>2, <2>3
<1>11. CASE UNCHANGED timerVars
  BY <1>11 DEF timerVars, clockVars, ArmedInv, LeadKept, StallTimerArmed
<1> QED BY <1>4, <1>5, <1>6, <1>7, <1>8, <1>9, <1>10, <1>11 DEF Next, Handling

(***************************************************************************)
(* For any stall times of any threads: whenever a thread stalls and no     *)
(* handler runs, the stall timer is pending or set for the first thread,   *)
(* ahead of the clock, although the clock ran on while it was set.         *)
(***************************************************************************)
THEOREM NoLostWakeup == Spec /\ []BeforeWrap => []StallTimerArmed
<1>1. Init => ArmedInv
  BY TimerInit DEF Init, ArmedInv, LeadKept, StallTimerArmed
<1>2. ArmedInv /\ BeforeWrap /\ [Next]_timerVars => ArmedInv'
  BY ArmedNext
<1>3. ArmedInv => StallTimerArmed
  BY DEF ArmedInv
<1> QED BY <1>1, <1>2, <1>3, PTL DEF Spec

-----------------------------------------------------------------------------
(* The moment in a stalled thread's control block is its time still to     *)
(* stall, counted from now.                                                *)
MomentsExact == \A t \in ToSet(stalled) : stallUntil[t] = clo + left[t]

LEMMA MomentsNext ==
  ASSUME TimerTyped, HandlerPlace, MomentsExact, BeforeWrap, [Next]_timerVars
  PROVE  MomentsExact'
<1>1. clo \in Nat /\ ToSet(stalled) \subseteq Threads
  BY NodesInSet DEF TimerTyped, Clock
<1>2. ASSUME NEW t \in Threads, NEW match \in Durations, Stall(t, match)
      PROVE  MomentsExact'
  <2>1. match \in Nat /\ Moment(match) = clo + match
    BY MomentTyped, StallTimerAssumption DEF BeforeWrap
  <2>2. ToSet(stalled') = ToSet(stalled) \cup {t} /\ t \notin ToSet(stalled)
    BY <1>2, <2>1, StallList DEF Stall
  <2>3. /\ stallUntil'[t] = clo + match /\ left'[t] = match
        /\ \A u \in ToSet(stalled) : stallUntil'[u] = stallUntil[u] /\ left'[u] = left[u]
    BY <1>1, <1>2, <2>1, <2>2 DEF Stall, TimerTyped
  <2> QED BY <1>2, <2>2, <2>3 DEF Stall, MomentsExact, clockVars
<1>3. CASE ReadOverdue
  <2>1. /\ Head(stalled) \in Threads
        /\ ToSet(Tail(stalled)) = ToSet(stalled) \ {Head(stalled)}
    BY <1>3, OverdueList DEF ReadOverdue, HandlerPlace
  <2>2. CASE unblocks
    BY <1>1, <1>3, <2>1, <2>2 DEF ReadOverdue, MomentsExact, TimerTyped, clockVars
  <2>3. CASE ~unblocks
    BY <1>3, <2>3 DEF ReadOverdue, MomentsExact, clockVars
  <2> QED BY <2>2, <2>3
<1>4. CASE Tick
  <2>1. clo' = clo + 1
    BY <1>1, <1>4, StallTimerAssumption DEF Tick, BeforeWrap
  <2> SUFFICES ASSUME NEW t \in ToSet(stalled)
               PROVE  stallUntil[t] = clo' + left'[t]
    BY <1>4 DEF Tick, MomentsExact
  <2>2. stallUntil[t] = clo + left[t]
    BY DEF MomentsExact
  <2>3. left'[t] = left[t] - 1 /\ left[t] \in Int
    BY <1>1, <1>4 DEF Tick, TimerTyped
  <2> QED BY <1>1, <2>1, <2>2, <2>3
<1>5. CASE StallTimerMatch \/ ClearPending \/ ReadTimely \/ WriteCompare
  BY <1>5 DEF StallTimerMatch, ClearPending, ReadTimely, WriteCompare, MomentsExact, clockVars
<1>6. CASE UNCHANGED timerVars
  BY <1>6 DEF timerVars, clockVars, MomentsExact
<1> QED BY <1>2, <1>3, <1>4, <1>5, <1>6 DEF Next, Handling

(* A thread leaves the list at most TOCTOU_PAD ticks before its time.      *)
LEMMA WakesInTime ==
  ASSUME TimerTyped, HandlerPlace, MomentsExact, BeforeWrap, [Next]_timerVars
  PROVE  \A t \in ToSet(stalled) \ ToSet(stalled') : left[t] <= TOCTOU_PAD
<1>1. CASE ReadOverdue
  <2>1. /\ Head(stalled) \in Threads /\ Head(stalled) \in ToSet(stalled)
        /\ ToSet(Tail(stalled)) = ToSet(stalled) \ {Head(stalled)}
    BY <1>1, OverdueList DEF ReadOverdue, HandlerPlace
  <2>2. clo \in Nat /\ left[Head(stalled)] \in Int
    BY <2>1 DEF TimerTyped, Clock
  <2>3. (clo + TOCTOU_PAD) % ClockRange = clo + TOCTOU_PAD
    BY <2>2, StallTimerAssumption DEF BeforeWrap
  <2>4. left[Head(stalled)] <= TOCTOU_PAD
    BY <1>1, <2>1, <2>2, <2>3, StallTimerAssumption DEF ReadOverdue, Armable, MomentsExact
  <2> QED BY <1>1, <2>1, <2>4 DEF ReadOverdue
<1>2. ASSUME NEW t \in Threads, NEW match \in Durations, Stall(t, match)
      PROVE  ToSet(stalled) \subseteq ToSet(stalled')
  BY <1>2, StallList, StallTimerAssumption
<1>3. CASE StallTimerMatch \/ ClearPending \/ ReadTimely \/ WriteCompare \/ Tick
  BY <1>3 DEF StallTimerMatch, ClearPending, ReadTimely, WriteCompare, Tick
<1>4. CASE UNCHANGED timerVars
  BY <1>4 DEF timerVars
<1> QED BY <1>1, <1>2, <1>3, <1>4 DEF Next, Handling

(***************************************************************************)
(* For any stall times of any threads: whoever is moved to the ready list  *)
(* has stalled for the time asked for, but for TOCTOU_PAD ticks.           *)
(***************************************************************************)
THEOREM StallsLongEnough == Spec /\ []BeforeWrap => NoEarlyWakeup
<1>1. Init => TimerTyped /\ HandlerPlace /\ MomentsExact
  BY TimerInit, SmallNodes DEF Init, MomentsExact
<1>2. TimerTyped /\ HandlerPlace /\ MomentsExact /\ BeforeWrap /\ [Next]_timerVars
        => TimerTyped' /\ HandlerPlace' /\ MomentsExact'
  BY TimerNext, MomentsNext
<1>3. TimerTyped /\ HandlerPlace /\ MomentsExact /\ BeforeWrap /\ [Next]_timerVars
        => [\A t \in ToSet(stalled) \ ToSet(stalled') : left[t] <= TOCTOU_PAD]_timerVars
  BY WakesInTime
<1> QED BY <1>1, <1>2, <1>3, PTL DEF Spec, NoEarlyWakeup

-----------------------------------------------------------------------------
(* Part 3: one stall time d for all, as every thread of the demo program   *)
(* passes SLEEP_TIME_MS.  No assumption on the clock: it may wrap.         *)

(* A stalled thread's moment is its time left, counted from now and cut to *)
(* the width of the clock.                                                 *)
Window(d) ==
  \A t \in ToSet(stalled) :
    /\ left[t] \in -Latency .. d
    /\ stallUntil[t] \in {clo + left[t] - ClockRange, clo + left[t], clo + left[t] + ClockRange}

OrderInv(d) == TimerTyped /\ HandlerPlace /\ Window(d) /\ SleepersInOrder

(* A sum of two clock values wraps at most once.                           *)
LEMMA WrapsOnce ==
  ASSUME NEW R \in Nat \ {0}, NEW x \in 0 .. R - 1, NEW y \in 0 .. R - 1
  PROVE  (x + y) % R \in {x + y, x + y - R}
<1>1. CASE x + y < R
  BY <1>1
<1>2. CASE x + y >= R
  <2>1. x + y \in Nat /\ x + y < 2 * R
    OBVIOUS
  <2>2. (x + y) % R = x + y - R
    BY <1>2, <2>1, Z3
  <2> QED BY <2>2
<1> QED BY <1>1, <1>2

(* Three moments within less than one turn of the clock wrap at most once: *)
(* a later one cannot lie between two earlier ones.                        *)
LEMMA OneWrap ==
  ASSUME NEW R \in Nat \ {0}, NEW L \in Nat, NEW d \in Nat, L + d < R,
         NEW c \in 0 .. R - 1, NEW a \in -L .. d, NEW b \in a .. d,
         NEW A \in 0 .. R - 1, A \in {c + a - R, c + a, c + a + R},
         NEW B \in 0 .. R - 1, B \in {c + b - R, c + b, c + b + R},
         NEW M \in 0 .. R - 1, M \in {c + d, c + d - R}
  PROVE  ~(A <= M /\ M < B)
OBVIOUS

(* The nodes of a list without its first one, and of a list with one more. *)
LEMMA TailPlaces ==
  ASSUME NEW S, NEW s \in NodeLists(S), s # <<>>
  PROVE  /\ Len(s) \in Nat \ {0} /\ DOMAIN s = 1 .. Len(s)
         /\ DOMAIN Tail(s) = 1 .. Len(s) - 1
         /\ \A i \in 1 .. Len(s) - 1 : Tail(s)[i] = s[i + 1]
<1>1. s \in Seq(S)
  BY DEF NodeLists
<1>2. Len(s) \in Nat \ {0} /\ DOMAIN s = 1 .. Len(s)
  BY <1>1, EmptySeq, LenProperties
<1>3. /\ Tail(s) \in Seq(S) /\ Len(Tail(s)) = Len(s) - 1
      /\ \A i \in 1 .. Len(Tail(s)) : Tail(s)[i] = s[i + 1]
  BY <1>1, HeadTailProperties
<1>4. DOMAIN Tail(s) = 1 .. Len(Tail(s))
  BY <1>3, LenProperties
<1> QED BY <1>2, <1>3, <1>4

LEMMA AppendPlaces ==
  ASSUME NEW S, NEW s \in NodeLists(S), NEW n \in S
  PROVE  /\ Len(s) \in Nat /\ DOMAIN s = 1 .. Len(s)
         /\ DOMAIN Append(s, n) = 1 .. Len(s) + 1
         /\ \A i \in 1 .. Len(s) : Append(s, n)[i] = s[i]
         /\ Append(s, n)[Len(s) + 1] = n
<1>1. s \in Seq(S)
  BY DEF NodeLists
<1>2. Len(s) \in Nat /\ DOMAIN s = 1 .. Len(s)
  BY <1>1, LenProperties
<1>3. /\ Append(s, n) \in Seq(S) /\ Len(Append(s, n)) = Len(s) + 1
      /\ \A i \in 1 .. Len(s) : Append(s, n)[i] = s[i]
      /\ Append(s, n)[Len(s) + 1] = n
  BY <1>1, AppendProperties
<1>4. DOMAIN Append(s, n) = 1 .. Len(Append(s, n))
  BY <1>3, LenProperties
<1> QED BY <1>2, <1>3, <1>4

(* Who stalls for the common time goes to the end of the list: behind the  *)
(* threads whose moments are smaller, and behind all when the clock has    *)
(* wrapped and their moments are larger.                                   *)
LEMMA LastSleeper ==
  ASSUME NEW d \in Nat, Latency + d < ClockRange, OrderInv(d),
         NEW t \in Threads, Stall(t, d)
  PROVE  stalled' = Append(stalled, t)
<1> DEFINE larger == {i \in DOMAIN stalled : stallUntil'[t] < stallUntil'[stalled[i]]}
<1>1. TimerTyped /\ Window(d) /\ SleepersInOrder
  BY DEF OrderInv
<1>2. stalled' = InsertSorted(stalled, t, stallUntil') /\ t \notin ToSet(stalled)
  BY DEF Stall
<1>3. Len(stalled) \in Nat /\ DOMAIN stalled = 1 .. Len(stalled)
  BY <1>1, LenProperties DEF TimerTyped, NodeLists
<1>4. \A i \in 1 .. Len(stalled) : stalled[i] \in ToSet(stalled) /\ stalled[i] \in Threads
  BY <1>1, <1>3, NodesInSet DEF TimerTyped, ToSet
<1>5. /\ stallUntil'[t] = Moment(d)
      /\ \A i \in 1 .. Len(stalled) : stallUntil'[stalled[i]] = stallUntil[stalled[i]]
  BY <1>1, <1>2, <1>4 DEF Stall, TimerTyped
<1>6. larger = {} \/ 1 \in larger
  <2> SUFFICES ASSUME NEW k \in 1 .. Len(stalled), stallUntil'[t] < stallUntil'[stalled[k]],
                      ~(stallUntil'[t] < stallUntil'[stalled[1]])
               PROVE  FALSE
    BY <1>3
  <2>1. 1 \in 1 .. Len(stalled) /\ 1 < k
    BY <1>3
  <2> DEFINE a == left[stalled[1]]
             b == left[stalled[k]]
             A == stallUntil[stalled[1]]
             B == stallUntil[stalled[k]]
             M == Moment(d)
  <2>2. a \in -Latency .. d /\ b \in -Latency .. d /\ a <= b
    BY <1>1, <1>3, <1>4, <2>1 DEF Window, SleepersInOrder
  <2>3. /\ A \in 0 .. ClockRange - 1 /\ B \in 0 .. ClockRange - 1
        /\ A \in {clo + a - ClockRange, clo + a, clo + a + ClockRange}
        /\ B \in {clo + b - ClockRange, clo + b, clo + b + ClockRange}
    BY <1>1, <1>4, <2>1 DEF TimerTyped, Window, Clock
  <2>4. M \in 0 .. ClockRange - 1 /\ clo \in 0 .. ClockRange - 1
    BY <1>1, MomentTyped DEF TimerTyped, Clock
  <2>5. M \in {clo + d, clo + d - ClockRange}
    <3>1. d \in 0 .. ClockRange - 1 /\ ClockRange \in Nat \ {0}
      BY StallTimerAssumption
    <3> QED BY <2>4, <3>1, WrapsOnce DEF Moment
  <2>6. A <= M /\ M < B
    BY <1>5, <2>1, <2>3, <2>4
  <2> HIDE DEF a, b, A, B, M
  <2>7. b \in a .. d
    BY <2>2
  <2> QED BY <2>2, <2>3, <2>4, <2>5, <2>6, <2>7, OneWrap, StallTimerAssumption
<1> QED BY <1>2, <1>6 DEF InsertSorted

(* Every step keeps the order.  What one more tick does to a moment that   *)
(* is counted from now: the same, once round or not.                       *)
LEMMA OrderNext ==
  ASSUME NEW d \in Nat, Durations \subseteq {d}, Latency + d < ClockRange,
         OrderInv(d), [Next]_timerVars
  PROVE  OrderInv(d)'
<1>1. TimerTyped' /\ HandlerPlace' /\ TimerTyped /\ HandlerPlace /\ Window(d) /\ SleepersInOrder
  BY TimerNext DEF OrderInv
<1>2. /\ clo \in 0 .. ClockRange - 1 /\ ToSet(stalled) \subseteq Threads
      /\ stallUntil \in [Threads -> 0 .. ClockRange - 1] /\ left \in [Threads -> Int]
  BY <1>1, NodesInSet DEF TimerTyped, Clock
<1> SUFFICES Window(d)' /\ SleepersInOrder'
  BY <1>1 DEF OrderInv
<1>3. ASSUME NEW t \in Threads, NEW match \in Durations, Stall(t, match)
      PROVE  Window(d)' /\ SleepersInOrder'
  <2>1. Stall(t, d)
    BY <1>3
  <2>2. stalled' = Append(stalled, t)
    BY <2>1, LastSleeper
  <2>3. ToSet(stalled') = ToSet(stalled) \cup {t} /\ t \notin ToSet(stalled)
    BY <1>1, <2>1, StallList DEF Stall
  <2>4. /\ left'[t] = d /\ stallUntil'[t] = Moment(d) /\ clo' = clo
        /\ \A u \in ToSet(stalled) : left'[u] = left[u] /\ stallUntil'[u] = stallUntil[u]
    BY <1>2, <2>1, <2>3 DEF Stall, clockVars
  <2>5. Moment(d) \in {clo + d, clo + d - ClockRange}
    <3>1. d \in 0 .. ClockRange - 1 /\ ClockRange \in Nat \ {0}
      BY StallTimerAssumption
    <3> QED BY <1>2, <3>1, WrapsOnce DEF Moment
  <2>6. Window(d)'
    <3> SUFFICES ASSUME NEW u \in ToSet(stalled')
                 PROVE  /\ left'[u] \in -Latency .. d
                        /\ stallUntil'[u] \in {clo' + left'[u] - ClockRange, clo' + left'[u],
                                              clo' + left'[u] + ClockRange}
      BY DEF Window
    <3>1. CASE u = t
      BY <2>4, <2>5, <3>1, StallTimerAssumption
    <3>2. CASE u \in ToSet(stalled)
      BY <1>1, <2>4, <3>2 DEF Window
    <3> QED BY <2>3, <3>1, <3>2
  <2>7. SleepersInOrder'
    <3>1. /\ Len(stalled) \in Nat /\ DOMAIN stalled = 1 .. Len(stalled)
          /\ DOMAIN stalled' = 1 .. Len(stalled) + 1
          /\ \A i \in 1 .. Len(stalled) : stalled'[i] = stalled[i] /\ stalled[i] \in ToSet(stalled)
          /\ stalled'[Len(stalled) + 1] = t
      BY <1>1, <2>2, AppendPlaces DEF TimerTyped, ToSet
    <3> SUFFICES ASSUME NEW i \in 1 .. Len(stalled) + 1, NEW j \in 1 .. Len(stalled) + 1, i < j
                 PROVE  left'[stalled'[i]] <= left'[stalled'[j]]
      BY <3>1 DEF SleepersInOrder
    <3>2. i \in 1 .. Len(stalled) /\ left'[stalled'[i]] = left[stalled[i]]
      BY <2>4, <3>1
    <3>3. CASE j \in 1 .. Len(stalled)
      BY <1>1, <2>4, <3>1, <3>2, <3>3 DEF SleepersInOrder
    <3>4. CASE j = Len(stalled) + 1
      <4>1. left[stalled[i]] \in -Latency .. d
        BY <1>1, <3>1, <3>2 DEF Window
      <4> QED BY <2>4, <3>1, <3>2, <3>4, <4>1, StallTimerAssumption
    <3> QED BY <3>1, <3>3, <3>4
  <2> QED BY <2>6, <2>7
<1>4. CASE ReadOverdue
  <2>1. CASE unblocks
    <3>1. /\ Head(stalled) \in Threads /\ stalled # <<>>
          /\ ToSet(stalled') = ToSet(stalled) \ {Head(stalled)} /\ stalled' = Tail(stalled)
      BY <1>1, <1>4, <2>1, OverdueList DEF ReadOverdue, HandlerPlace
    <3>2. /\ clo' = clo
          /\ \A u \in ToSet(stalled') : left'[u] = left[u] /\ stallUntil'[u] = stallUntil[u]
      BY <1>2, <1>4, <2>1, <3>1 DEF ReadOverdue, clockVars
    <3>3. Window(d)'
      BY <1>1, <3>1, <3>2 DEF Window
    <3>4. /\ Len(stalled) \in Nat /\ DOMAIN stalled = 1 .. Len(stalled)
          /\ DOMAIN stalled' = 1 .. Len(stalled) - 1
          /\ \A i \in 1 .. Len(stalled) - 1 : stalled'[i] = stalled[i + 1]
      BY <1>1, <3>1, TailPlaces DEF TimerTyped
    <3>5. \A i \in 1 .. Len(stalled) - 1 : stalled'[i] \in ToSet(stalled')
      BY <3>4 DEF ToSet
    <3>6. ASSUME NEW i \in 1 .. Len(stalled) - 1, NEW j \in 1 .. Len(stalled) - 1, i < j
          PROVE  left'[stalled'[i]] <= left'[stalled'[j]]
      <4>1. left[stalled[i + 1]] <= left[stalled[j + 1]]
        BY <1>1, <3>4, <3>6 DEF SleepersInOrder
      <4> QED BY <3>2, <3>4, <3>5, <4>1
    <3> QED BY <3>3, <3>4, <3>6 DEF SleepersInOrder
  <2>2. CASE ~unblocks
    BY <1>1, <1>4, <2>2 DEF ReadOverdue, Window, SleepersInOrder, clockVars
  <2> QED BY <2>1, <2>2
<1>5. CASE Tick
  <2>1. \A u \in ToSet(stalled) : left'[u] = left[u] - 1 /\ left[u] > -Latency
    BY <1>2, <1>5 DEF Tick
  <2>2. stalled' = stalled /\ stallUntil' = stallUntil
    BY <1>5 DEF Tick
  <2>3. clo' \in {clo + 1, clo + 1 - ClockRange} /\ clo' \in 0 .. ClockRange - 1
    <3>1. clo' = (clo + 1) % ClockRange /\ clo' \in 0 .. ClockRange - 1
      BY <1>1, <1>5 DEF Tick, TimerTyped, Clock
    <3>2. CASE ClockRange = 1
      BY <1>2, <3>1, <3>2
    <3>3. CASE ClockRange # 1
      <4>1. 1 \in 0 .. ClockRange - 1
        BY <3>3, StallTimerAssumption
      <4> QED BY <1>2, <3>1, <4>1, WrapsOnce, StallTimerAssumption
    <3> QED BY <3>1, <3>2, <3>3
  <2>4. Window(d)'
    <3> SUFFICES ASSUME NEW u \in ToSet(stalled)
                 PROVE  /\ left'[u] \in -Latency .. d
                        /\ stallUntil[u] \in {clo' + left'[u] - ClockRange, clo' + left'[u],
                                             clo' + left'[u] + ClockRange}
      BY <2>2 DEF Window
    <3>1. /\ left[u] \in -Latency .. d
          /\ stallUntil[u] \in {clo + left[u] - ClockRange, clo + left[u], clo + left[u] + ClockRange}
      BY <1>1 DEF Window
    <3>2. stallUntil[u] \in 0 .. ClockRange - 1
      BY <1>2
    <3>3. left'[u] = left[u] - 1 /\ left'[u] \in -Latency .. d
      BY <2>1, <3>1, StallTimerAssumption
    <3>4. CASE clo' = clo + 1
      BY <1>2, <3>1, <3>3, <3>4, StallTimerAssumption
    <3>5. CASE clo' = clo + 1 - ClockRange
      <4>1. clo = ClockRange - 1
        BY <1>2, <2>3, <3>5, StallTimerAssumption
      <4>2. stallUntil[u] # clo + left[u] + ClockRange
        BY <3>1, <3>2, <4>1, StallTimerAssumption
      <4>3. left[u] \in Int /\ clo' = 0
        BY <3>1, <3>5, <4>1, StallTimerAssumption
      <4> QED BY <3>1, <3>3, <4>1, <4>2, <4>3, StallTimerAssumption
    <3> QED BY <2>3, <3>3, <3>4, <3>5
  <2>5. SleepersInOrder'
    <3> SUFFICES ASSUME NEW i \in DOMAIN stalled, NEW j \in DOMAIN stalled, i < j
                 PROVE  left'[stalled[i]] <= left'[stalled[j]]
      BY <2>2 DEF SleepersInOrder
    <3>1. stalled[i] \in ToSet(stalled) /\ stalled[j] \in ToSet(stalled)
      BY DEF ToSet
    <3>2. left[stalled[i]] <= left[stalled[j]]
      BY <1>1 DEF SleepersInOrder
    <3> QED BY <1>2, <2>1, <3>1, <3>2
  <2> QED BY <2>4, <2>5
<1>6. CASE StallTimerMatch \/ ClearPending \/ ReadTimely \/ WriteCompare
  BY <1>1, <1>6
  DEF StallTimerMatch, ClearPending, ReadTimely, WriteCompare, Window, SleepersInOrder, clockVars
<1>7. CASE UNCHANGED timerVars
  BY <1>1, <1>7 DEF timerVars, clockVars, Window, SleepersInOrder
<1> QED BY <1>3, <1>4, <1>5, <1>6, <1>7 DEF Next, Handling

(***************************************************************************)
(* Threads that all stall for the same time, less than a turn of the       *)
(* clock, stand in the stall list in the order in which they are due, even *)
(* while some of their moments lie behind the wrap.  d is SLEEP_TIME_MS    *)
(* for the demo program; any thread may stall at any time.                 *)
(***************************************************************************)
THEOREM SleepersStayInOrder ==
  ASSUME NEW d \in Nat, Durations \subseteq {d}, Latency + d < ClockRange
  PROVE  Spec => []SleepersInOrder
<1>1. Init => OrderInv(d)
  <2>1. stalled = <<>> => ToSet(stalled) = {} /\ DOMAIN stalled = {}
    BY DEF ToSet
  <2> QED BY <2>1, TimerInit DEF Init, OrderInv, Window, SleepersInOrder
<1>2. OrderInv(d) /\ [Next]_timerVars => OrderInv(d)'
  BY OrderNext
<1>3. OrderInv(d) => SleepersInOrder
  BY DEF OrderInv
<1> QED BY <1>1, <1>2, <1>3, PTL DEF Spec

-----------------------------------------------------------------------------
(* Part 4: the demo program.                                               *)

LEMMA DemoStepsOfTimer ==
  ASSUME [DemoNext]_vars
  PROVE  [Next]_timerVars
<1>1. CASE ReadCharacter \/ CreateProcess \/ \E p \in Processes : ProcessMain(p)
  BY <1>1 DEF ReadCharacter, CreateProcess, ProcessMain
<1>2. ASSUME NEW t \in Threads, Work(t)
      PROVE  [Next]_timerVars
  <2>1. CASE Test(t) \/ Load(t) \/ Store(t)
    BY <2>1 DEF Test, Load, Store
  <2>2. CASE PrintAndStall(t)
    BY <2>2, DemoAssumption DEF PrintAndStall, Next
  <2> QED BY <1>2, <2>1, <2>2 DEF Work
<1>3. CASE Timer
  BY <1>3 DEF Timer, Next
<1>4. CASE UNCHANGED vars
  BY <1>4 DEF vars
<1> QED BY <1>1, <1>2, <1>3, <1>4 DEF DemoNext

(***************************************************************************)
(* The demo program drives the stall timer as the timer's specification    *)
(* says, whatever its threads do in between: the theorems above hold of    *)
(* it, SleepersStayInOrder with Durations = {SLEEP_TIME}.                  *)
(***************************************************************************)
THEOREM DemoUsesStallTimer == DemoSpec => Spec
<1>1. DemoInit => Init
  BY DEF DemoInit
<1>2. [DemoNext]_vars => [Next]_timerVars
  BY DemoStepsOfTimer
<1> QED BY <1>1, <1>2, PTL DEF DemoSpec, Spec

-----------------------------------------------------------------------------
Places == {"ended", "test", "load", "store", "print"}

DemoTyped ==
  /\ step \in [Threads -> Places]
  /\ starting \subseteq Processes
  /\ argument \in [Processes -> Nat]
  /\ typed \in [Processes -> Nat]
  /\ global_ch \in [Processes -> Nat]
  /\ global_counter \in [Processes -> Nat]
  /\ loaded \in [Threads -> Nat]
  /\ keys \in Nat /\ input \in Nat

(* What a process that has not run yet will start with is its character.   *)
StartsWithOwn == \A p \in starting : argument[p] = typed[p]

CharacterInv == DemoTyped /\ StartsWithOwn /\ OwnCharacter

LEMMA ThreadOfProcess ==
  \A t \in Threads : /\ t[1] \in Processes /\ t[2] \in Workers
                     /\ t = <<t[1], t[2]>>
BY DemoAssumption

(* sys$create_process takes a process nobody lives in, if there is one.    *)
LEMMA FreeProcess ==
  ASSUME NEW free, free = {p \in Processes : ~Living(p)}, free # {}
  PROVE  /\ Min(free) \in Processes /\ Min(free) \notin starting
         /\ \A t \in Threads : t[1] = Min(free) => step[t] = "ended"
<1>1. free \subseteq Nat
  BY DemoAssumption
<1>2. Min(free) \in free
  BY <1>1, MinNat
<1>3. Min(free) \in Processes /\ ~Living(Min(free))
  BY <1>2
<1>4. ASSUME NEW t \in Threads, t[1] = Min(free)
      PROVE  step[t] = "ended"
  <2>1. t = <<Min(free), t[2]>> /\ t[2] \in Workers
    BY <1>4, ThreadOfProcess
  <2> QED BY <1>3, <2>1 DEF Living
<1> QED BY <1>3, <1>4 DEF Living

LEMMA DemoTypedNext ==
  ASSUME DemoTyped, [DemoNext]_vars
  PROVE  DemoTyped'
<1>1. CASE ReadCharacter
  BY <1>1 DEF ReadCharacter, DemoTyped
<1>2. CASE CreateProcess
  <2> DEFINE free == {p \in Processes : ~Living(p)}
             n == Min(free)
  <2>1. CASE free = {}
    BY <1>2, <2>1 DEF CreateProcess, DemoTyped, None
  <2>2. CASE free # {}
    <3>1. n \in Processes
      BY <2>2, FreeProcess
    <3>2. /\ starting' = starting \cup {n} /\ step' = step
          /\ argument' = [argument EXCEPT ![n] = input]
          /\ typed' = [typed EXCEPT ![n] = input]
          /\ global_ch' = [global_ch EXCEPT ![n] = None]
          /\ global_counter' = [global_counter EXCEPT ![n] = INITIAL_COUNTER]
          /\ loaded' = loaded /\ keys' = keys /\ input' = None
      BY <1>2, <2>2 DEF CreateProcess
    <3> HIDE DEF free, n
    <3> QED BY <3>1, <3>2, DemoAssumption DEF DemoTyped, None
  <2> QED BY <2>1, <2>2
<1>3. ASSUME NEW p \in Processes, ProcessMain(p)
      PROVE  DemoTyped'
  BY <1>3 DEF ProcessMain, DemoTyped, Argument, Places
<1>4. ASSUME NEW t \in Threads, Work(t)
      PROVE  DemoTyped'
  <2>0. t[1] \in Processes
    BY ThreadOfProcess
  <2>1. CASE Test(t)
    BY <2>1 DEF Test, GoTo, DemoTyped, Places
  <2>2. CASE Load(t)
    BY <2>0, <2>2 DEF Load, GoTo, DemoTyped, Places
  <2>3. CASE Store(t)
    BY <2>0, <2>3, DemoAssumption DEF Store, GoTo, DemoTyped, Places
  <2>4. CASE PrintAndStall(t)
    BY <2>4 DEF PrintAndStall, GoTo, DemoTyped, Places
  <2> QED BY <1>4, <2>1, <2>2, <2>3, <2>4 DEF Work
<1>5. CASE Timer \/ UNCHANGED vars
  BY <1>5 DEF Timer, vars, userVars, DemoTyped
<1> QED BY <1>1, <1>2, <1>3, <1>4, <1>5 DEF DemoNext

LEMMA CharacterNext ==
  ASSUME CharacterInv, [DemoNext]_vars
  PROVE  CharacterInv'
<1>1. DemoTyped' /\ DemoTyped /\ StartsWithOwn /\ OwnCharacter
  BY DemoTypedNext DEF CharacterInv
<1> SUFFICES StartsWithOwn' /\ OwnCharacter'
  BY <1>1 DEF CharacterInv
<1>2. CASE CreateProcess
  <2> DEFINE free == {p \in Processes : ~Living(p)}
             n == Min(free)
  <2>1. CASE free = {}
    BY <1>1, <1>2, <2>1 DEF CreateProcess, StartsWithOwn, OwnCharacter
  <2>2. CASE free # {}
    <3>1. n \in Processes /\ n \notin starting /\ \A t \in Threads : t[1] = n => step[t] = "ended"
      BY <2>2, FreeProcess
    <3>2. /\ starting' = starting \cup {n} /\ step' = step
          /\ argument' = [argument EXCEPT ![n] = input]
          /\ typed' = [typed EXCEPT ![n] = input]
          /\ global_ch' = [global_ch EXCEPT ![n] = None]
      BY <1>2, <2>2 DEF CreateProcess
    <3> HIDE DEF free, n
    <3>3. StartsWithOwn'
      BY <1>1, <3>1, <3>2 DEF StartsWithOwn, DemoTyped
    <3>4. OwnCharacter'
      <4> SUFFICES ASSUME NEW t \in Threads, step[t] # "ended"
                   PROVE  global_ch'[t[1]] = typed'[t[1]]
        BY <3>2 DEF OwnCharacter
      <4>1. t[1] # n /\ t[1] \in Processes
        BY <3>1, ThreadOfProcess
      <4> QED BY <1>1, <3>2, <4>1 DEF OwnCharacter, DemoTyped
    <3> QED BY <3>3, <3>4
  <2> QED BY <2>1, <2>2
<1>3. ASSUME NEW p \in Processes, ProcessMain(p)
      PROVE  StartsWithOwn' /\ OwnCharacter'
  <2>1. /\ p \in starting /\ starting' = starting \ {p}
        /\ global_ch' = [global_ch EXCEPT ![p] = argument[p]]
        /\ argument' = argument /\ typed' = typed
        /\ \A t \in Threads : step'[t] = IF t[1] = p THEN "test" ELSE step[t]
    BY <1>3 DEF ProcessMain, Argument
  <2>2. StartsWithOwn'
    BY <1>1, <2>1 DEF StartsWithOwn
  <2>3. OwnCharacter'
    <3> SUFFICES ASSUME NEW t \in Threads, step'[t] # "ended"
                 PROVE  global_ch'[t[1]] = typed[t[1]]
      BY <2>1 DEF OwnCharacter
    <3>1. CASE t[1] = p
      BY <1>1, <2>1, <3>1 DEF StartsWithOwn, DemoTyped
    <3>2. CASE t[1] # p
      BY <1>1, <2>1, <3>2, ThreadOfProcess DEF OwnCharacter, DemoTyped
    <3> QED BY <3>1, <3>2
  <2> QED BY <2>2, <2>3
<1>4. ASSUME NEW t \in Threads, Work(t)
      PROVE  StartsWithOwn' /\ OwnCharacter'
  <2>1. /\ step[t] # "ended"
        /\ \A u \in Threads : u # t => step'[u] = step[u]
        /\ UNCHANGED <<starting, argument, typed, global_ch>>
    BY <1>1, <1>4 DEF Work, Test, Load, Store, PrintAndStall, At, GoTo, DemoTyped
  <2> QED BY <1>1, <2>1 DEF StartsWithOwn, OwnCharacter
<1>5. CASE ReadCharacter \/ Timer \/ UNCHANGED vars
  BY <1>1, <1>5 DEF ReadCharacter, Timer, vars, userVars, StartsWithOwn, OwnCharacter
<1> QED BY <1>2, <1>3, <1>4, <1>5 DEF DemoNext

(***************************************************************************)
(* For any number of processes, threads and keys: a thread that has not    *)
(* ended finds in global_ch the character its own process was made for.    *)
(***************************************************************************)
THEOREM OwnCharacterAlways == DemoSpec => []OwnCharacter
<1>1. DemoInit => CharacterInv
  BY DemoAssumption DEF DemoInit, CharacterInv, DemoTyped, Places, StartsWithOwn, OwnCharacter, None
<1>2. CharacterInv /\ [DemoNext]_vars => CharacterInv'
  BY CharacterNext
<1>3. CharacterInv => OwnCharacter
  BY DEF CharacterInv
<1> QED BY <1>1, <1>2, <1>3, PTL DEF DemoSpec

-----------------------------------------------------------------------------
(***************************************************************************)
(* The counter of a process of two threads, as process_main creates them.  *)
(* c is the counter, st, lt where one thread is and what it has loaded,    *)
(* su, lu the same of the other.                                           *)
(*                                                                         *)
(* A thread about to write has read at most the limit.  It has read the    *)
(* limit itself only if the other was past the race already, and then the  *)
(* counter is no longer below the limit: the other cannot come back.  So   *)
(* of two threads only one passes the limit, by one.                       *)
(***************************************************************************)
Claim(c, st, lt, su) ==
  /\ st = "load" => c <= GLOBAL_COUNTER_LIMIT
  /\ st = "store" => lt <= GLOBAL_COUNTER_LIMIT
  /\ st = "load" /\ su \in {"load", "store"} => c < GLOBAL_COUNTER_LIMIT
  /\ st = "store" /\ su = "load" => lt < GLOBAL_COUNTER_LIMIT
  /\ st = "store" /\ lt = GLOBAL_COUNTER_LIMIT =>
       su \notin {"load", "store"} /\ c >= GLOBAL_COUNTER_LIMIT

Race(c, st, lt, su, lu) ==
  /\ c <= GLOBAL_COUNTER_LIMIT + 1 \/ c = INITIAL_COUNTER
  /\ Claim(c, st, lt, su)
  /\ Claim(c, su, lu, st)

RaceTyped(c, st, lt, su, lu) ==
  c \in Nat /\ st \in Places /\ su \in Places /\ lt \in Nat /\ lu \in Nat

(* The steps of one thread of the two.                                     *)
LEMMA RaceSteps ==
  ASSUME NEW c, NEW st, NEW lt, NEW su, NEW lu,
         RaceTyped(c, st, lt, su, lu), Race(c, st, lt, su, lu)
  PROVE  /\ st = "test" /\ c < GLOBAL_COUNTER_LIMIT => Race(c, "load", lt, su, lu)
         /\ Race(c, "ended", lt, su, lu) /\ Race(c, "test", lt, su, lu)
         /\ st = "load" => Race(c, "store", c, su, lu)
         /\ st = "store" => Race(lt + 1, "print", INITIAL_COUNTER, su, lu)
<1>1. st = "test" /\ c < GLOBAL_COUNTER_LIMIT => Race(c, "load", lt, su, lu)
  BY DemoAssumption DEF Race, Claim, RaceTyped, Places
<1>2. Race(c, "ended", lt, su, lu) /\ Race(c, "test", lt, su, lu)
  BY DemoAssumption DEF Race, Claim, RaceTyped, Places
<1>3. st = "load" => Race(c, "store", c, su, lu)
  BY DemoAssumption DEF Race, Claim, RaceTyped, Places
<1>4. st = "store" => Race(lt + 1, "print", INITIAL_COUNTER, su, lu)
  BY DemoAssumption DEF Race, Claim, RaceTyped, Places
<1> QED BY <1>1, <1>2, <1>3, <1>4

RaceOf(p, v, w) ==
  Race(global_counter[p], step[<<p, v>>], loaded[<<p, v>>], step[<<p, w>>], loaded[<<p, w>>])

LEMMA RaceFacts ==
  ASSUME DemoTyped, NEW p \in Processes, NEW v \in Workers, NEW w \in Workers
  PROVE  /\ <<p, v>> \in Threads /\ <<p, w>> \in Threads
         /\ RaceTyped(global_counter[p], step[<<p, v>>], loaded[<<p, v>>],
                      step[<<p, w>>], loaded[<<p, w>>])
         /\ RaceOf(p, v, w) => RaceOf(p, w, v)
<1>1. <<p, v>> \in Threads /\ <<p, w>> \in Threads
  BY DemoAssumption
<1> QED BY <1>1 DEF DemoTyped, RaceTyped, RaceOf, Race

(* A thread works: the race of its process goes on, the others stand still. *)
LEMMA WorkKeepsRace ==
  ASSUME DemoTyped, NEW p \in Processes, NEW v \in Workers, NEW w \in Workers, v # w,
         RaceOf(p, v, w), Work(<<p, v>>)
  PROVE  RaceOf(p, v, w)'
<1> DEFINE t == <<p, v>>
           u == <<p, w>>
<1>1. t \in Threads /\ u \in Threads /\ t # u /\ t[1] = p
  BY RaceFacts
<1>2. RaceTyped(global_counter[p], step[t], loaded[t], step[u], loaded[u])
  BY RaceFacts
<1>3. Race(global_counter[p], step[t], loaded[t], step[u], loaded[u])
  BY DEF RaceOf
<1> HIDE DEF t, u
<1>4. CASE Test(t)
  <2>1. /\ step[t] = "test" /\ step'[u] = step[u] /\ loaded' = loaded
        /\ global_counter' = global_counter
        /\ step'[t] = IF global_counter[p] < GLOBAL_COUNTER_LIMIT THEN "load" ELSE "ended"
    BY <1>1, <1>4 DEF Test, At, GoTo, BelowLimit, DemoTyped
  <2>2. Race(global_counter[p], step'[t], loaded[t], step[u], loaded[u])
    BY <1>2, <1>3, <2>1, RaceSteps
  <2> QED BY <2>1, <2>2 DEF RaceOf, t, u
<1>5. CASE Load(t)
  <2>1. /\ step[t] = "load" /\ step'[u] = step[u] /\ step'[t] = "store"
        /\ loaded'[t] = global_counter[p] /\ loaded'[u] = loaded[u]
        /\ global_counter' = global_counter
    BY <1>1, <1>5 DEF Load, At, GoTo, DemoTyped
  <2>2. Race(global_counter[p], "store", global_counter[p], step[u], loaded[u])
    BY <1>2, <1>3, <2>1, RaceSteps
  <2> QED BY <2>1, <2>2 DEF RaceOf, t, u
<1>6. CASE Store(t)
  <2>1. /\ step[t] = "store" /\ step'[u] = step[u] /\ step'[t] = "print"
        /\ loaded'[t] = INITIAL_COUNTER /\ loaded'[u] = loaded[u]
        /\ global_counter'[p] = loaded[t] + 1
    BY <1>1, <1>6 DEF Store, At, GoTo, DemoTyped
  <2>2. Race(loaded[t] + 1, "print", INITIAL_COUNTER, step[u], loaded[u])
    BY <1>2, <1>3, <2>1, RaceSteps
  <2> QED BY <2>1, <2>2 DEF RaceOf, t, u
<1>7. CASE PrintAndStall(t)
  <2>1. /\ step'[u] = step[u] /\ step'[t] = "test" /\ loaded' = loaded
        /\ global_counter' = global_counter
    BY <1>1, <1>7 DEF PrintAndStall, GoTo, DemoTyped
  <2>2. Race(global_counter[p], "test", loaded[t], step[u], loaded[u])
    BY <1>2, <1>3, RaceSteps
  <2> QED BY <2>1, <2>2 DEF RaceOf, t, u
<1> QED BY <1>4, <1>5, <1>6, <1>7 DEF Work, t

CounterInv(v, w) == DemoTyped /\ \A p \in Processes : RaceOf(p, v, w)

LEMMA CounterNext ==
  ASSUME NEW v, NEW w, Workers = {v, w}, v # w, CounterInv(v, w), [DemoNext]_vars
  PROVE  CounterInv(v, w)'
<1>1. DemoTyped' /\ DemoTyped
  BY DemoTypedNext DEF CounterInv
<1> SUFFICES ASSUME NEW q \in Processes PROVE RaceOf(q, v, w)'
  BY <1>1 DEF CounterInv
<1>2. /\ RaceOf(q, v, w) /\ RaceOf(q, w, v)
      /\ <<q, v>> \in Threads /\ <<q, w>> \in Threads
      /\ RaceTyped(global_counter[q], step[<<q, v>>], loaded[<<q, v>>],
                   step[<<q, w>>], loaded[<<q, w>>])
  BY <1>1, RaceFacts DEF CounterInv
<1>3. CASE CreateProcess
  <2> DEFINE free == {p \in Processes : ~Living(p)}
             n == Min(free)
  <2>1. CASE free = {} \/ n # q
    <3>1. global_counter'[q] = global_counter[q] /\ step' = step /\ loaded' = loaded
      BY <1>1, <1>3, <2>1 DEF CreateProcess, DemoTyped
    <3> QED BY <1>2, <3>1 DEF RaceOf
  <2>2. CASE free # {} /\ n = q
    <3>1. step[<<q, v>>] = "ended" /\ step[<<q, w>>] = "ended"
      BY <1>2, <2>2, FreeProcess
    <3>2. global_counter'[q] = INITIAL_COUNTER /\ step' = step /\ loaded' = loaded
      BY <1>1, <1>3, <2>2 DEF CreateProcess, DemoTyped
    <3> QED BY <3>1, <3>2 DEF RaceOf, Race, Claim
  <2> QED BY <2>1, <2>2
<1>4. ASSUME NEW p \in Processes, ProcessMain(p)
      PROVE  RaceOf(q, v, w)'
  <2>1. /\ global_counter' = global_counter /\ loaded' = loaded
        /\ \A t \in Threads : step'[t] = IF t[1] = p THEN "test" ELSE step[t]
    BY <1>4 DEF ProcessMain
  <2>2. CASE p = q
    <3>1. step'[<<q, v>>] = "test" /\ step'[<<q, w>>] = "test"
      BY <1>2, <2>1, <2>2
    <3> QED BY <1>2, <2>1, <3>1 DEF RaceOf, Race, Claim
  <2>3. CASE p # q
    <3>1. step'[<<q, v>>] = step[<<q, v>>] /\ step'[<<q, w>>] = step[<<q, w>>]
      BY <1>2, <2>1, <2>3
    <3> QED BY <1>2, <2>1, <3>1 DEF RaceOf
  <2> QED BY <2>2, <2>3
<1>5. ASSUME NEW t \in Threads, Work(t)
      PROVE  RaceOf(q, v, w)'
  <2>1. CASE t = <<q, v>>
    BY <1>1, <1>2, <1>5, <2>1, WorkKeepsRace
  <2>2. CASE t = <<q, w>>
    <3>1. RaceOf(q, w, v)'
      BY <1>1, <1>2, <1>5, <2>2, WorkKeepsRace
    <3> QED BY <3>1 DEF RaceOf, Race
  <2>3. CASE t # <<q, v>> /\ t # <<q, w>>
    <3>1. t[1] \in Processes /\ t[1] # q
      BY <2>3, ThreadOfProcess
    <3>2. /\ global_counter'[q] = global_counter[q]
          /\ \A u \in {<<q, v>>, <<q, w>>} : step'[u] = step[u] /\ loaded'[u] = loaded[u]
      BY <1>1, <1>2, <1>5, <2>3, <3>1
      DEF Work, Test, Load, Store, PrintAndStall, GoTo, DemoTyped
    <3> QED BY <1>2, <3>2 DEF RaceOf
  <2> QED BY <2>1, <2>2, <2>3
<1>6. CASE ReadCharacter \/ Timer \/ UNCHANGED vars
  BY <1>2, <1>6 DEF ReadCharacter, Timer, vars, userVars, RaceOf
<1> QED BY <1>3, <1>4, <1>5, <1>6 DEF DemoNext

(***************************************************************************)
(* For any limit, any number of processes and keys: the two threads that   *)
(* process_main creates never take the counter further than one past its   *)
(* limit, however they overtake each other and set it back.                *)
(***************************************************************************)
THEOREM CounterStaysNearLimit ==
  ASSUME NEW v, NEW w, Workers = {v, w}, v # w
  PROVE  DemoSpec => []CounterNearLimit
<1>1. DemoInit => CounterInv(v, w)
  <2> SUFFICES ASSUME DemoInit PROVE CounterInv(v, w)
    OBVIOUS
  <2>1. DemoTyped
    BY DemoAssumption DEF DemoInit, DemoTyped, Places, None
  <2>2. ASSUME NEW p \in Processes
        PROVE  RaceOf(p, v, w)
    <3>1. /\ step[<<p, v>>] = "ended" /\ step[<<p, w>>] = "ended"
          /\ global_counter[p] = INITIAL_COUNTER
      BY <2>1, RaceFacts DEF DemoInit
    <3> QED BY <3>1 DEF RaceOf, Race, Claim
  <2> QED BY <2>1, <2>2 DEF CounterInv
<1>2. CounterInv(v, w) /\ [DemoNext]_vars => CounterInv(v, w)'
  BY CounterNext
<1>3. CounterInv(v, w) => CounterNearLimit
  <2> DEFINE bounds == {GLOBAL_COUNTER_LIMIT, INITIAL_COUNTER + 1}
  <2>1. Max(bounds) \in Nat /\ \A b \in bounds : b <= Max(bounds)
    BY DemoAssumption DEF Max
  <2>2. Cardinality(Workers) = 2
    <3>1. IsFiniteSet({v}) /\ Cardinality({v}) = 1
      BY FS_Singleton, Zenon
    <3>2. Cardinality({v} \cup {w}) = 2
      BY <3>1, FS_AddElement
    <3> QED BY <3>2
  <2> HIDE DEF bounds
  <2> SUFFICES ASSUME CounterInv(v, w), NEW p \in Processes
               PROVE  global_counter[p] < Max(bounds) + 2
    BY <2>2 DEF CounterNearLimit, bounds
  <2>3. global_counter[p] \in Nat
    BY DEF CounterInv, DemoTyped
  <2>4. global_counter[p] <= GLOBAL_COUNTER_LIMIT + 1 \/ global_counter[p] = INITIAL_COUNTER
    BY DEF CounterInv, RaceOf, Race
  <2>5. GLOBAL_COUNTER_LIMIT <= Max(bounds) /\ INITIAL_COUNTER + 1 <= Max(bounds)
    BY <2>1 DEF bounds
  <2> QED BY <2>1, <2>3, <2>4, <2>5, DemoAssumption
<1> QED BY <1>1, <1>2, <1>3, PTL DEF DemoSpec
=============================================================================
