------------------------------- MODULE Colours -------------------------------
(***************************************************************************)
(* The colour a module's messages are labelled with, INITIALISE_MODULE_-   *)
(* COLOR_ONCE of kernel/lib/kdebug.h and the preview in kernel/start.c:    *)
(* three hashes of the label are projected onto ranges of hue, saturation  *)
(* and lightness, and these are converted to red, green and blue by the    *)
(* fractions of kernel/lib/kcolor.c.                                       *)
(*                                                                         *)
(* A label is the sequence of its three hashes: each an unsigned, or Large *)
(* for one above LONG_MAX.  Projections and conversions are steps.         *)
(***************************************************************************)
EXTENDS Fractions, Sequences

CONSTANTS
  Large,
  Labels,        \* bound: the labels coloured
  ModuleLabels   \* those the kernel colours: of its modules and of the preview

VARIABLES
  label,   \* whose colour is looked for, or none: <<>>
  hsl,     \* hue, saturation and lightness, as far as projected
  mix,     \* p and q of the conversion
  rgb      \* red, green and blue, as far as converted

vars == <<label, hsl, mix, rgb>>

Unmixed == [p |-> Whole(0), q |-> Whole(0)]

Init == label = <<>> /\ hsl = <<>> /\ mix = Unmixed /\ rgb = <<>>

-----------------------------------------------------------------------------
(* k_clamp_unsigned(hash, 0, LONG_MAX) *)
Clamped(hash) == IF hash = Large THEN LONG_MAX ELSE hash

(* Stands for a value whose computation does not end: none is returned. *)
Endless == -1

ToLong[f \in LongFractions] == IF f = NoFraction THEN Endless ELSE ToWholeNumber(f)

(* k_fraction_project_onto_range of a part of LONG_MAX *)
Placed(value, min, max) ==
  Plus(Times(Fraction(value, LONG_MAX), Minus(Whole(max), Whole(min))), Whole(min))

(* Mutant of Project: the value is cut to a whole number, not rounded. *)
ProjectCut(value, min, max) == ToLong[Placed(value, min, max)]

(* k_project_long_onto_range *)
Project(value, min, max) == ToLong[Round[Placed(value, min, max)]]

Ranges == <<[min |-> 0, max |-> 359], [min |-> 70, max |-> 90], [min |-> 50, max |-> 80]>>

(* A hue is a place on a circle, from 0 to 1. *)
Raised[hue \in LongFractions] ==
  IF LessThan[hue, Whole(0)] THEN Plus(hue, Whole(1)) ELSE hue

Lowered[hue \in LongFractions] ==
  IF LessThan[Whole(1), hue] THEN Minus(hue, Whole(1)) ELSE hue

(* k_hue_to_rgb *)
HueToRgb(p, q, hue) ==
  LET at[t \in LongFractions] ==
        IF LessThan[t, Fraction(1, 6)]
        THEN Plus(p, Times(Times(Minus(q, p), Whole(6)), t))
        ELSE IF LessThan[t, Fraction(1, 2)] THEN q
        ELSE IF LessThan[t, Fraction(2, 3)]
        THEN Plus(p, Times(Times(Minus(q, p), Minus(Fraction(2, 3), t)), Whole(6)))
        ELSE p
  IN  at[Lowered[Raised[hue]]]

(* A component of 255 parts, as a uint8_t. *)
Component(f) == ToWholeNumber(Round[Times(f, Whole(255))]) % 256

Hue == Fraction(hsl[1], 360)
Saturation == Fraction(hsl[2], 100)
Lightness == Fraction(hsl[3], 100)

(* p and q of k_hsl_to_rgb *)
MixedWith[q \in LongFractions] == [p |-> Minus(Times(Lightness, Whole(2)), q), q |-> q]

Mixed ==
  MixedWith[IF LessThan[Lightness, Fraction(1, 2)]
            THEN Times(Lightness, Plus(Saturation, Whole(1)))
            ELSE Minus(Plus(Lightness, Saturation), Times(Lightness, Saturation))]

(* A third of the circle is added to the hue for red and taken for blue.   *)
Shift == <<Fraction(1, 3), Whole(0), Fraction(-1, 3)>>

-----------------------------------------------------------------------------
(* One label at a time. *)
Uncoloured == IF label = <<>> THEN Labels ELSE {}

Choose(l) ==
  /\ label' = l
  /\ UNCHANGED <<hsl, mix, rgb>>

Ended == \A i \in DOMAIN hsl : hsl[i] # Endless

ProjectHash ==
  LET i == Len(hsl) + 1
  IN  /\ label # <<>> /\ i <= 3 /\ Ended
      /\ hsl' = Append(hsl, Project(Clamped(label[i]), Ranges[i].min, Ranges[i].max))
      /\ UNCHANGED <<label, mix, rgb>>

(* An addition without an end, with interrupts masked. *)
Loop == ~Ended /\ UNCHANGED vars

Mix ==
  /\ Len(hsl) = 3 /\ Ended /\ mix = Unmixed
  /\ mix' = Mixed
  /\ UNCHANGED <<label, hsl, rgb>>

ConvertComponent ==
  LET i == Len(rgb) + 1
      part == IF Equals[Saturation, Whole(0)]
              THEN Lightness
              ELSE HueToRgb(mix.p, mix.q, Plus(Hue, Shift[i]))
  IN  /\ mix # Unmixed /\ i <= 3
      /\ rgb' = Append(rgb, Component(part))
      /\ UNCHANGED <<label, hsl, mix>>

(* The colour is kept with its module; on to another. *)
NextModule ==
  /\ Len(rgb) = 3
  /\ label' = <<>> /\ hsl' = <<>> /\ mix' = Unmixed /\ rgb' = <<>>

Next ==
  \/ \E l \in Uncoloured : Choose(l)
  \/ ProjectHash
  \/ Loop
  \/ Mix
  \/ ConvertComponent
  \/ NextModule

-----------------------------------------------------------------------------
(* Every module of the kernel whose messages are coloured, and every label *)
(* of the preview, gets its colour: the additions of its projections end.  *)
(* Nothing is promised of other labels, with some of which they do not.    *)
ModulesColoured == label \in ModuleLabels => Ended

(* A projection keeps proportions, whatever precision its product and its  *)
(* sums lose: if it ends, the result is the value of its range nearest to  *)
(* the hash, or, near the middle of two, one of them.                      *)
Nearest(hash, min, max, result) ==
  LET span == max - min
      step == LONG_MAX \div span
      place == (result - min) * step + ((result - min) * (LONG_MAX % span)) \div span
  IN  result = Endless \/ Abs(Clamped(hash) - place) <= step \div 2 + step \div 1000

HashesKeepProportion ==
  \A i \in DOMAIN hsl : Nearest(label[i], Ranges[i].min, Ranges[i].max, hsl[i])

(* A component as a function of hue, saturation and lightness without      *)
(* cases, in parts of 300000: offset is where on the circle of hues the    *)
(* component's own colour lies.                                            *)
Reference(colour, offset) ==
  LET degrees == (offset + colour[1]) % 360
      least(m, n) == IF m < n THEN m ELSE n
      slope == least(30, least(degrees - 90, 270 - degrees))
      bounded == IF slope < -30 THEN -30 ELSE slope
  IN  3000 * colour[3] - colour[2] * least(colour[3], 100 - colour[3]) * bounded

(* The components are the colour's, rounded to the nearest of 255 parts:   *)
(* no fraction on the way grows beyond a long and is made coarser.         *)
ComponentsRight ==
  \A i \in DOMAIN rgb :
    2 * Abs(300000 * rgb[i] - 255 * Reference(hsl, <<0, 240, 120>>[i])) <= 300000

(* The colour printed is the one that a label's hashes stand for. *)
ColoursRight == HashesKeepProportion /\ ComponentsRight
=============================================================================
