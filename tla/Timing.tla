------------------------------- MODULE Timing -------------------------------
(***************************************************************************)
(* kernel/lib/ktiming.c: milliseconds to ticks of the system timer and     *)
(* back, through the fractions of kernel/lib/kfraction.c.  A product that  *)
(* does not fit into a long makes its first factor coarser, step by step,  *)
(* until it fits or until nothing is left to make coarser.                 *)
(*                                                                         *)
(* Arguments and results are unsigned words, and longs in between: a word  *)
(* from 2^31 on stands here as the negative long it is taken for.          *)
(*                                                                         *)
(* One conversion is a call and a loop; each pass of the loop is a step.   *)
(***************************************************************************)
EXTENDS Fractions

CONSTANTS
  SYSTIMER_FREQUENCY_HZ,
  StallTimes,              \* bound: the times asked for, in ms, as long
  ClockValues              \* bound: the clock values read, as long

LONG_MIN == -LONG_MAX - 1

ASSUME TimingAssumption ==
  /\ SYSTIMER_FREQUENCY_HZ \in 1 .. LONG_MAX
  /\ StallTimes \subseteq LONG_MIN .. LONG_MAX
  /\ ClockValues \subseteq LONG_MIN .. LONG_MAX

VARIABLES
  call,     \* whose conversion is under way: "stall_thread", "get_time"
  asked,    \* its argument
  a, b,     \* the two factors
  answer,   \* "pending", "done" or "error"
  result    \* the whole number returned

vars == <<call, asked, a, b, answer, result>>

-----------------------------------------------------------------------------
(* k_fraction_compact.  K_ABS of LONG_MIN is undefined: it stays negative  *)
(* or is taken for 2^31, and the common factor has either sign.            *)
Compactions(n, d) ==
  IF n # LONG_MIN
  THEN {Fraction(n, d)}
  ELSE LET factor == Gcd[<<d, n % d>>]
       IN  {[numerator |-> sign * (n \div factor),
             denominator |-> sign * (d \div factor)] : sign \in {1, -1}}

Init ==
  /\ call = "none" /\ asked = 0
  /\ a = Whole(0) /\ b = Whole(0)
  /\ answer = "pending" /\ result = 0

(* ktiming_milliseconds_to_hertz, for stall_thread. *)
MillisecondsToHertz(ms) ==
  /\ call = "none"
  /\ call' = "stall_thread" /\ asked' = ms
  /\ a' \in Compactions(ms, 1000)
  /\ b' = Whole(SYSTIMER_FREQUENCY_HZ)
  /\ UNCHANGED <<answer, result>>

(* ktiming_hertz_to_milliseconds, for get_time.                           *)
HertzToMilliseconds(hz) ==
  /\ call = "none"
  /\ call' = "get_time" /\ asked' = hz
  /\ a' \in Compactions(hz, SYSTIMER_FREQUENCY_HZ)
  /\ b' = Whole(1000)
  /\ UNCHANGED <<answer, result>>

(* Mutant of MakeCoarser: the terms are made even, and not compacted. *)
MakeCoarserOnly ==
  /\ call # "none" /\ answer = "pending"
  /\ ~ProductFits(a, b)
  /\ ~IsWhole(a)
  /\ a' = [numerator |-> 2 * Quotient(a.numerator, 2),
           denominator |-> 2 * Quotient(a.denominator, 2)]
  /\ UNCHANGED <<call, asked, b, answer, result>>

(* One pass of the loop in k_fraction_multiply.  The second factor is a    *)
(* whole number in both conversions and can not be made coarser.           *)
MakeCoarser ==
  /\ call # "none" /\ answer = "pending"
  /\ ~ProductFits(a, b)
  /\ ~IsWhole(a)
  /\ a' \in Compactions(a.numerator - (a.numerator % 2),
                       a.denominator - (a.denominator % 2))
  /\ UNCHANGED <<call, asked, b, answer, result>>

(* Both factors are whole numbers: -EINVAL. *)
GiveUp ==
  /\ call # "none" /\ answer = "pending"
  /\ ~ProductFits(a, b)
  /\ IsWhole(a)
  /\ answer' = "error"
  /\ UNCHANGED <<call, asked, a, b, result>>

(* Mutant of Product: the first factor is cut to a whole number before. *)
ProductOfWhole == Quotient(a.numerator, a.denominator) * b.numerator

(* k_fraction_to_whole_number of the product, compacted. *)
Product ==
  ToWholeNumber(Fraction(a.numerator * b.numerator, a.denominator * b.denominator))

Multiply ==
  /\ call # "none" /\ answer = "pending"
  /\ ProductFits(a, b)
  /\ answer' = "done"
  /\ result' = Product
  /\ UNCHANGED <<call, asked, a, b>>

(* The caller has taken the answer; the conversion's variables are gone.   *)
Return ==
  /\ answer # "pending"
  /\ call' = "none" /\ asked' = 0
  /\ a' = Whole(0) /\ b' = Whole(0)
  /\ answer' = "pending" /\ result' = 0

Convert == MakeCoarser \/ GiveUp \/ Multiply

Next ==
  \/ \E ms \in StallTimes : MillisecondsToHertz(ms)
  \/ \E hz \in ClockValues : HertzToMilliseconds(hz)
  \/ Convert
  \/ Return

(* A conversion is a loop of the kernel with interrupts masked: it goes on *)
(* until it is through.                                                    *)
Spec == Init /\ [][Next]_vars /\ WF_vars(Convert)

-----------------------------------------------------------------------------
(* Every conversion ends, whatever it is asked for: each pass of the loop  *)
(* brings the first factor nearer to a whole number.                       *)
ConversionEnds == call # "none" ~> answer # "pending"

(* All but two arguments, and what is left of them, have a magnitude that  *)
(* fits into a long.                                                       *)
HasMagnitude == asked > -LONG_MAX

(* A thread sleeps for the time it asked for, to the tick if the ticks of  *)
(* as many seconds fit into a long; longer sleeps are never shorter by     *)
(* more than one part in a thousand, and never doubled.  What does not fit *)
(* is refused.  All this is so of the long: a time from 2^31 ms on is      *)
(* negative, and refused only if the long's magnitude is too large.        *)
StallNearlyAsked ==
  call = "stall_thread" /\ answer = "done" /\ HasMagnitude =>
    /\ Abs(asked) <= LONG_MAX \div SYSTIMER_FREQUENCY_HZ => result = 1000 * asked
    /\ asked # 0 => /\ Abs(result) \div Abs(asked) \in 999 .. 1999
                    /\ result < 0 <=> asked < 0
    /\ Abs(asked) <= LONG_MAX \div 999

(* An error means that the time, in ticks, takes at least half the range.  *)
ErrorOnlyWhenLarge ==
  answer = "error" /\ HasMagnitude =>
    call = "stall_thread" /\ Abs(asked) > LONG_MAX \div 2000

(* The time of day is off by at most one part in a thousand, of the long   *)
(* again: from 2^31 ticks on, half an hour after the start, it is as much  *)
(* below 2^32 ms as the clock is below 2^32 ticks.                         *)
TimeNearlyRight ==
  call = "get_time" /\ answer = "done" /\ HasMagnitude =>
    1000 * Abs(result - Quotient(asked, 1000)) <= Abs(asked) \div 1000

(* What the callers of both conversions get, of all words: however much    *)
(* precision the fraction loses on the way, a sleep or a time of day is    *)
(* nearly the one asked for or measured, if that is below 2^31; if not, it *)
(* is that of the negative long the word is taken for, which is not the    *)
(* one asked for or measured.                                              *)
TimesRight == StallNearlyAsked /\ ErrorOnlyWhenLarge /\ TimeNearlyRight
=============================================================================
