----------------------------- MODULE MCLibrary -----------------------------
(* Library for TLC.  Times have the real width of 32 bits: arguments of     *)
(* every magnitude, taken for longs of either sign, and those around the    *)
(* ones where a product begins not to fit.  Numbers are printed from words  *)
(* of 8 bits, all of them, in fields up to past the width of the buffer.    *)
EXTENDS Library

Around(n) == n - 8 .. n + 8

Magnitudes(step, count) == {i * step : i \in 0 .. count}

WithNegative(longs) == longs \cup {-n : n \in longs} \cup {-LONG_MAX - 1}

ShortAndLongStalls ==
  Magnitudes(767, 1500) \cup Magnitudes(7919, 300)
    \cup WithNegative(
           Magnitudes(1, 100) \cup Magnitudes(99991, 30)
             \cup UNION {Around(n) : n \in {2148, 4299, 8599, 17184, 137536, 412416, 550912,
                                            1073741, 1100032, 2147483, 2147508}}
             \cup {LONG_MAX - 1, LONG_MAX})

ClockReadings ==
  WithNegative(
    Magnitudes(99999, 100) \cup Magnitudes(33554393, 63)
      \cup Around(2147483) \cup Around(100001008) \cup {LONG_MAX - 1, LONG_MAX})

Words == 0 .. 255

FieldWidths == 0 .. 9 \cup {255, 256}
Label(h, s, l) == <<h, s, l>>

(* Every LOG_LABEL of arch and kernel whose output is coloured, and those   *)
(* of the preview, hashed: Unknown, Interrupt, Scheduler, Kernel Start,     *)
(* Color, Intrusive List, Ringbuffer, Timing, Userthread, MMU Setup,        *)
(* kprintf, Math (Kernel), String, ASCII Conversion, IFSR, DFSR and PSR.    *)
(* MMU Setup and DFSR have the same hashes; Fraction prints without colour. *)
LabelsOfModules ==
  {Label(Large, Large, 1195188129), Label(450086610, 237872388, Large),
   Label(2140271451, Large, 577644274), Label(1472344272, 2091902179, Large),
   Label(1929817483, 1418277474, 526066281), Label(1411175447, Large, 748291448),
   Label(188217314, Large, Large), Label(1154537960, 862969778, 57450464),
   Label(857038876, Large, Large), Label(Large, Large, Large),
   Label(155371274, Large, Large), Label(Large, Large, 1654496811),
   Label(Large, 656111679, Large), Label(Large, Large, 923986252),
   Label(Large, 816726704, 599495906), Label(1146586532, 1413659936, 1219799329)}

(* Hashes all over the range: those of every hue, with hashes of every      *)
(* saturation and lightness; and some whose addition has no end.            *)
HashSteps(step, count) == {13 + i * step : i \in 0 .. count}

EveryLabel ==
  LabelsOfModules
    \cup {Label(h, s, l) : h \in HashSteps(5981955, 358), s \in HashSteps(1073741811, 1),
                           l \in HashSteps(429496720, 4)}
    \cup {Label(h, s, 0) : h \in HashSteps(178956960, 11), s \in HashSteps(33554393, 63)}
    \cup {Label(h, Large, l) : h \in HashSteps(178956960, 11), l \in HashSteps(23860929, 89)}
    \cup {Label(196656, 0, 0), Label(69864864, 0, 0), Label(0, 0, 707081461)}
=============================================================================
