------------------------------- MODULE Printf -------------------------------
(***************************************************************************)
(* kernel/lib/kprintf.c: what one directive of a format prints.  A number  *)
(* is put together in a buffer, last character first, from its digits,     *)
(* zeros, a prefix, the sign and spaces, and sent from the buffer's end.   *)
(* The user library's printf is the same code with another way to send.    *)
(*                                                                         *)
(* The width of a word is a parameter; a char that is printed for %c, %s   *)
(* or %% is a "t".                                                         *)
(***************************************************************************)
EXTENDS Integers, SequencesExt

CONSTANTS
  WordBits,                 \* of an int: 32
  MAX_NUMBER_PRINT_WIDTH,   \* as many places as a word has bits
  UINT8_MAX,
  Arguments,                \* bound: the words printed
  Widths                    \* bound: the field widths asked for

VARIABLES
  directive,   \* the one under way
  output,      \* the characters it has sent, first one first
  written      \* the characters it says it has sent, or an error

vars == <<directive, output, written>>

Numbers == {"b", "x", "p", "u", "i"}

Others == {"%", "c", "s", "unsupported", "dangling"}

Directives ==
  [zeropad : BOOLEAN, hash : BOOLEAN, width : Widths, specifier : Numbers, argument : Arguments]
    \cup [zeropad : BOOLEAN, hash : BOOLEAN, width : Widths, specifier : Others,
          argument : {0, 1, 5}]

None == [specifier |-> "none"]

Init == directive = None /\ output = <<>> /\ written = 0

-----------------------------------------------------------------------------
Repeat(ch, count) == [i \in 1 .. count |-> ch]

(* SAFE_DECREMENT *)
SafeDecrement(a, b) == IF a > b THEN a - b ELSE 0

HexadecimalDigit == <<"0", "1", "2", "3", "4", "5", "6", "7",
                      "8", "9", "a", "b", "c", "d", "e", "f">>

(* What is left of num after 0, 1, ... digits have been taken off. *)
Quotients(num, base) ==
  LET q[i \in 0 .. MAX_NUMBER_PRINT_WIDTH] == IF i = 0 THEN num ELSE q[i - 1] \div base
  IN  q

DigitCount(num, base, max_length) ==
  1 + Cardinality({i \in 1 .. max_length - 1 : Quotients(num, base)[i] # 0})

(* kprintf_base_less_eq_16_to_ascii: the digits, last one first. *)
ToAscii(num, base, max_length) ==
  [i \in 1 .. DigitCount(num, base, max_length) |->
     HexadecimalDigit[1 + (Quotients(num, base)[i - 1] % base)]]

Base(d) ==
  CASE d.specifier = "b" -> 2
    [] d.specifier \in {"x", "p"} -> 16
    [] d.specifier \in {"u", "i"} -> 10

IsNegative(d) == d.specifier = "i" /\ d.argument >= 2 ^ (WordBits - 1)

(* -num; the least int is its own negation, and right as unsigned. *)
Magnitude(d) == IF IsNegative(d) THEN 2 ^ WordBits - d.argument ELSE d.argument

(* %p sets the flag itself. *)
Hash(d) == d.hash \/ d.specifier = "p"

(* Mutant of Widest: the width is not cut to the buffer's. *)
WidestAsAsked(d) == d.width

Widest(d) == IF d.width > MAX_NUMBER_PRINT_WIDTH THEN MAX_NUMBER_PRINT_WIDTH ELSE d.width

(* Mutant of PadWidth: no place is kept for the sign. *)
PadWidthUnsigned(d) ==
  IF d.zeropad THEN SafeDecrement(Widest(d), IF Hash(d) THEN 2 ELSE 0) ELSE Widest(d)

(* How far zeros and spaces reach: zeros leave place for what is to come,  *)
(* and what they leave is all that is kept of the width.                   *)
PadWidth(d) ==
  IF d.zeropad
  THEN SafeDecrement(SafeDecrement(Widest(d), IF Hash(d) THEN 2 ELSE 0),
                     IF IsNegative(d) THEN 1 ELSE 0)
  ELSE Widest(d)

Digits(d) == ToAscii(Magnitude(d), Base(d), MAX_NUMBER_PRINT_WIDTH)

Zeros(d) == IF d.zeropad THEN Repeat("0", PadWidth(d) - Len(Digits(d))) ELSE <<>>

Prefix(d) ==
  IF ~Hash(d) THEN <<>>
  ELSE CASE Base(d) = 16 -> <<"x", "0">>
         [] Base(d) = 2 -> <<"b", "0">>
         [] Base(d) = 10 -> <<"0">>

Sign(d) == IF IsNegative(d) THEN <<"-">> ELSE <<>>

(* kprintf_format_and_output_number *)
NumberBuffer(d) ==
  LET signed == Digits(d) \o Zeros(d) \o Prefix(d) \o Sign(d)
  IN  signed \o Repeat(" ", PadWidth(d) - Len(signed))

-----------------------------------------------------------------------------
Sends(d, characters) ==
  /\ directive' = d
  /\ output' = characters
  /\ written' = Len(characters)

(* kprintf_set_pad_width fails, or kprintf_handle_format_specifier does.   *)
Refused(d) ==
  \/ d.width > UINT8_MAX
  \/ d.specifier \in {"dangling", "unsupported"}
  \/ d.specifier = "p" /\ d.zeropad

Refuse(d) ==
  /\ Refused(d)
  /\ directive' = d
  /\ output' = <<>>
  /\ written' = -1

Number(d) ==
  /\ ~Refused(d)
  /\ d.specifier \in Numbers
  /\ Sends(d, Reverse(NumberBuffer(d)))

Character(d) ==
  /\ ~Refused(d)
  /\ d.specifier \in {"%", "c"}
  /\ Sends(d, <<"t">>)

(* kprintf_output_string: the argument is the string's length. *)
String(d) ==
  /\ ~Refused(d)
  /\ d.specifier = "s"
  /\ Sends(d, Repeat("t", d.argument) \o Repeat(" ", d.width - d.argument))

Done ==
  /\ directive # None
  /\ directive' = None /\ output' = <<>> /\ written' = 0

(* One directive at a time. *)
Due == IF directive = None THEN Directives ELSE {}

Next ==
  \/ \E d \in Due : Refuse(d) \/ Number(d) \/ Character(d) \/ String(d)
  \/ Done

-----------------------------------------------------------------------------
Printed == directive.specifier \in Numbers /\ written >= 0

(* kprintf.c:79 on a number's field: at most MAX_NUMBER_PRINT_WIDTH places *)
(* with all that belongs to it.  The buffer is exceeded by nothing but a   *)
(* binary number that has no place left for its prefix.                    *)
BufferHolds ==
  Printed =>
    \/ Len(output) <= MAX_NUMBER_PRINT_WIDTH
    \/ /\ directive.specifier = "b" /\ directive.hash
       /\ directive.argument >= 2 ^ (MAX_NUMBER_PRINT_WIDTH - 2)

(* What is printed, read again, is the argument: no digit is lost, and     *)
(* zeros, prefix and sign do not get between each other.                   *)
DigitValue(ch) == CHOOSE v \in 0 .. 15 : HexadecimalDigit[v + 1] = ch

PrintedValue ==
  LET base == Base(directive)
      spaces == Cardinality({i \in DOMAIN output : output[i] = " "})
      sign == IF IsNegative(directive) THEN 1 ELSE 0
      prefix == IF Hash(directive) /\ base # 10 THEN 2 ELSE 0
      value[i \in 0 .. Len(output)] ==
        IF i <= spaces + sign + prefix THEN 0 ELSE base * value[i - 1] + DigitValue(output[i])
  IN  IF sign = 1 /\ output[spaces + 1] = "-" THEN 2 ^ WordBits - value[Len(output)]
                                             ELSE value[Len(output)]

ValuePrinted == Printed => PrintedValue = directive.argument

(* A field is as wide as asked for, up to the buffer's size, and wider     *)
(* only if the number needs it; a field of zeros has no spaces.  Decimal   *)
(* numbers have half the prefix that zeros leave place for.                *)
FieldFilled ==
  Printed =>
    LET needed == Len(Digits(directive)) + Len(Prefix(directive)) + Len(Sign(directive))
        asked == IF directive.width < MAX_NUMBER_PRINT_WIDTH
                 THEN directive.width
                 ELSE MAX_NUMBER_PRINT_WIDTH
        halved == directive.zeropad /\ directive.hash /\ Base(directive) = 10
    IN  /\ Len(output) >= IF halved THEN asked - 1 ELSE asked
        /\ Len(output) > asked => Len(output) = needed
        /\ directive.zeropad => " " \notin ToSet(output)
=============================================================================
