------------------------------ MODULE Library ------------------------------
(***************************************************************************)
(* kernel/lib: the intrusive lists, the ring buffer, the conversions of    *)
(* times, the printing of numbers and the colours of the modules.  The     *)
(* parts share nothing, and each is called with interrupts masked, so a    *)
(* behaviour follows one of them.                                          *)
(***************************************************************************)
EXTENDS Timing

CONSTANTS
  Heads, FirstHead, NodeCount, Keys, NULL,
  Size, IndexRange, Characters, MaxLength,
  WordBits, MAX_NUMBER_PRINT_WIDTH, UINT8_MAX, Arguments, Widths,
  Large, Labels, ModuleLabels

VARIABLES
  part,                                  \* the one that is followed
  heap, key,                             \* of IntrusiveList
  data, read_index, write_index, dst,    \* of RingBuffer
  directive, output, written,            \* of Printf
  label, hsl, mix, rgb                   \* of Colours

Lists == INSTANCE IntrusiveList
Ring == INSTANCE RingBuffer
Format == INSTANCE Printf
Colour == INSTANCE Colours

ASSUME ListAssumption == Lists!ListConstants

ASSUME RingAssumption == Ring!RingConstants

Parts == {"lists", "ring", "times", "format", "colours"}

timeVars == vars
listVars == <<heap, key>>
ringVars == <<data, read_index, write_index, dst>>
formatVars == <<directive, output, written>>
colourVars == <<label, hsl, mix, rgb>>
libraryVars == <<part, timeVars, listVars, ringVars, formatVars, colourVars>>

LibraryInit ==
  /\ part \in Parts
  /\ Init /\ Lists!Init /\ Ring!Init /\ Format!Init /\ Colour!Init
  /\ part # "ring" => data = [i \in DOMAIN data |-> CHOOSE c \in Characters : TRUE]

LibraryNext ==
  /\ UNCHANGED part
  /\ \/ part = "times" /\ Next /\ UNCHANGED <<listVars, ringVars, formatVars, colourVars>>
     \/ part = "lists" /\ Lists!Next /\ UNCHANGED <<timeVars, ringVars, formatVars, colourVars>>
     \/ part = "ring" /\ Ring!Next /\ UNCHANGED <<timeVars, listVars, formatVars, colourVars>>
     \/ part = "format" /\ Format!Next /\ UNCHANGED <<timeVars, listVars, ringVars, colourVars>>
     \/ part = "colours" /\ Colour!Next /\ UNCHANGED <<timeVars, listVars, ringVars, formatVars>>

LibrarySpec ==
  /\ LibraryInit
  /\ [][LibraryNext]_libraryVars
  /\ WF_libraryVars(Convert /\ UNCHANGED <<part, listVars, ringVars, formatVars, colourVars>>)

-----------------------------------------------------------------------------
(* The parts that are not followed stay as they are; their properties are  *)
(* looked at while they are followed.                                      *)

(* The pointers and the indexes, as IntrusiveList and RingBuffer state it: *)
(* every ring of nodes is closed and hangs on one head, a node in no list  *)
(* points at itself, and the ring buffer's indexes are never further apart *)
(* than its array is long.                                                 *)
StructuresIntact ==
  /\ part = "lists" => Lists!TypeOK /\ Lists!RingsClosed /\ Lists!RingsOwned
  /\ part = "ring" => Ring!TypeOK

(* The lists are the sequences KernelListSpec has in their place: from the *)
(* first state on, and through every step, pointer by pointer, each of     *)
(* which is the operation of the sequences it stands for.                  *)
ImplementsList ==
  /\ Lists!List!Init
  /\ [][part = "lists" => [Lists!List!Next]_<<Lists!Sequences, key>> /\ Lists!Agree]_listVars

(* The ring buffer is a bounded queue, as RingBuffer states it. *)
ImplementsQueue ==
  /\ Ring!Queue!Init
  /\ [][part = "ring" => [Ring!Queue!Next]_<<Ring!Contents, dst>>]_ringVars

(* kprintf's buffer, values and fields, as Printf states them. *)
BufferHolds == part = "format" => Format!BufferHolds
PrintedRight == part = "format" => Format!ValuePrinted /\ Format!FieldFilled

(* The colours of hashes whose projections end, and that those of the      *)
(* kernel's own labels do, as Colours states them.                         *)
ColoursRight == part = "colours" => Colour!ColoursRight /\ Colour!ModulesColoured
=============================================================================
