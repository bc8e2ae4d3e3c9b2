----------------------------- MODULE RingBuffer -----------------------------
(***************************************************************************)
(* kernel/lib/kringbuffer.c: a ring buffer whose two indexes count up      *)
(* without ever being reset and wrap with the width of size_t.  Reads and  *)
(* writes of any length are cut down to what is there, or to what fits,    *)
(* and are copied in two pieces when they cross the end of the array.      *)
(***************************************************************************)
EXTENDS Integers, SequencesExt

CONSTANTS
  Size,         \* length of the array, a power of two
  IndexRange,   \* size_t counts modulo IndexRange (2^32)
  Characters,   \* bound: what is written
  MaxLength     \* bound: the longest read or write that is asked for

(* What the constants have to be; Library assumes it.                      *)
(* k_ringbuffer_initialise verifies the size, which is itself a size_t;    *)
(* the indexes wrap at a multiple of it.                                   *)
RingConstants ==
  /\ Size \in Nat /\ Size >= 2
  /\ IndexRange \in Nat /\ Size < IndexRange
  /\ \E n \in 1 .. Size : Size = 2 ^ n
  /\ \E n \in 1 .. IndexRange : IndexRange = Size * n
  /\ MaxLength \in Nat

VARIABLES
  data,          \* the array
  read_index,
  write_index,
  dst            \* what the last call copied to its caller

vars == <<data, read_index, write_index, dst>>

(* What a fresh array holds is never read: any character will do. *)
Init ==
  /\ data \in [0 .. Size - 1 -> Characters]
  /\ read_index = 0 /\ write_index = 0
  /\ dst = <<>>

-----------------------------------------------------------------------------
(* Mutant of Used: the indexes are compared as if they never wrapped.      *)
UsedUnwrapped == Max({write_index - read_index, 0})

(* k_ringbuffer_used, in unsigned arithmetic. *)
Used == (write_index - read_index) % IndexRange

(* k_ringbuffer_unused *)
Unused == (Size - Used) % IndexRange

(* offset & mask *)
Masked(offset) == offset % Size

(* k_ringbuffer_read_with_offset: the piece up to the end of the array,    *)
(* then the piece from its beginning.                                      *)
ReadAt(length, offset) ==
  LET rest_length == Min({length, Size - Masked(offset)})
  IN  [i \in 1 .. rest_length |-> data[Masked(offset) + i - 1]]
        \o [i \in 1 .. length - rest_length |-> data[i - 1]]

(* k_ringbuffer_write_with_offset, of the first length characters of src.  *)
WrittenAt(src, length, offset) ==
  LET rest_length == Min({length, Size - Masked(offset)})
  IN  [i \in DOMAIN data |->
         IF i - Masked(offset) \in 0 .. rest_length - 1
         THEN src[i - Masked(offset) + 1]
         ELSE IF i < length - rest_length
              THEN src[rest_length + i + 1]
              ELSE data[i]]

-----------------------------------------------------------------------------
(* k_ringbuffer_write: what does not fit is dropped. *)
Write(src) ==
  LET length == Min({Len(src), Unused})
  IN  /\ data' = WrittenAt(src, length, write_index)
      /\ write_index' = (write_index + length) % IndexRange
      /\ UNCHANGED <<read_index, dst>>

(* k_ringbuffer_read *)
Read(asked) ==
  LET length == Min({asked, Used})
  IN  /\ dst' = ReadAt(length, read_index)
      /\ read_index' = (read_index + length) % IndexRange
      /\ UNCHANGED <<data, write_index>>

(* k_ringbuffer_peek_newest *)
PeekNewest(asked) ==
  LET length == Min({asked, Used})
  IN  /\ dst' = ReadAt(length, (write_index - length) % IndexRange)
      /\ UNCHANGED <<data, read_index, write_index>>

Texts == UNION {[1 .. n -> Characters] : n \in 0 .. MaxLength}

Next ==
  \/ \E src \in Texts : Write(src)
  \/ \E asked \in 0 .. MaxLength : Read(asked)
  \/ \E asked \in 0 .. MaxLength : PeekNewest(asked)

Spec == Init /\ [][Next]_vars

-----------------------------------------------------------------------------
(* Type invariant.  The indexes are never further apart than the array is  *)
(* long, whatever they have wrapped to.                                    *)
TypeOK ==
  /\ data \in [0 .. Size - 1 -> Characters]
  /\ read_index \in 0 .. IndexRange - 1
  /\ write_index \in 0 .. IndexRange - 1
  /\ Used \in 0 .. Size
  /\ dst \in Seq(Characters)

(* What has been written and not read, oldest first. *)
Contents == ReadAt(Used, read_index)

(* The buffer is a queue of at most Size characters that drops what does   *)
(* not fit: reads return the oldest characters in the order they were      *)
(* written, peeks the newest ones, across the end of the array and across  *)
(* the wrap of the indexes.                                                *)
Queue == INSTANCE BoundedQueue WITH queue <- Contents

ImplementsQueue == Queue!Spec
=============================================================================
