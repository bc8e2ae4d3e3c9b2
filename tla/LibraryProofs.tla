---------------------------- MODULE LibraryProofs ----------------------------
(***************************************************************************)
(* Theorems about the library, for rings and lists of any size, for every  *)
(* time that can be asked for or read from the clock, and for every number *)
(* that can be printed.                                                    *)
(***************************************************************************)
EXTENDS Library, KernelListProofs, FiniteSetTheorems

-----------------------------------------------------------------------------
(* Part 1: unsigned arithmetic.                                            *)

LEMMA Remainder ==
  ASSUME NEW n \in Nat \ {0}, NEW a_ \in Int
  PROVE  /\ a_ % n \in 0 .. n - 1
         /\ a_ \div n \in Int
         /\ a_ = n * (a_ \div n) + (a_ % n)
OBVIOUS

LEMMA RemainderUnique ==
  ASSUME NEW n \in Nat \ {0}, NEW q \in Int, NEW r \in 0 .. n - 1
  PROVE  (n * q + r) % n = r
OBVIOUS

(* A remainder one turn around, in either direction. *)
LEMMA OneTurn ==
  ASSUME NEW n \in Nat \ {0}, NEW m \in Int, -n <= m, m < 2 * n
  PROVE  m % n = IF m < 0 THEN m + n ELSE IF m < n THEN m ELSE m - n
OBVIOUS

LEMMA Associativity ==
  ASSUME NEW x \in Int, NEW y \in Int, NEW z \in Int
  PROVE  (x * y) * z = x * (y * z)
OBVIOUS

(* Going on by k from a remainder. *)
LEMMA RemainderOfSum ==
  ASSUME NEW n \in Nat \ {0}, NEW m \in Int, NEW k \in Int
  PROVE  (m + k) % n = ((m % n) + k) % n
<1> DEFINE q == m \div n
           r == m % n
           p == (r + k) \div n
           t == (r + k) % n
<1>1. q \in Int /\ r \in 0 .. n - 1 /\ m = n * q + r
  BY Remainder
<1>2. p \in Int /\ t \in 0 .. n - 1 /\ r + k = n * p + t
  BY SMTT(30), <1>1, Remainder
<1>3. m + k = n * (q + p) + t
  <2>1. n * (q + p) = n * q + n * p
    BY <1>1, <1>2
  <2> QED BY <1>1, <1>2, <2>1
<1>4. (n * (q + p) + t) % n = t
  <2>1. q + p \in Int
    BY <1>1, <1>2
  <2> HIDE DEF q, p, t
  <2> QED BY <1>2, <2>1, RemainderUnique
<1> QED BY <1>3, <1>4

(* The range of the indexes is a multiple of the size of the array, so an  *)
(* index that wraps keeps its place in the array.                          *)
LEMMA RemainderOfRemainder ==
  ASSUME NEW n \in Nat \ {0}, NEW c \in Nat \ {0}, NEW m \in Int
  PROVE  (m % (n * c)) % n = m % n
<1> DEFINE range == n * c
           q == m \div range
           r == m % range
           p == r \div n
           t == r % n
<1>0. range \in Nat \ {0}
  OBVIOUS
<1> HIDE DEF range
<1>1. q \in Int /\ r \in Int /\ m = range * q + r
  BY <1>0, Remainder
<1>2. p \in Int /\ t \in 0 .. n - 1 /\ r = n * p + t
  BY <1>1, Remainder
<1>3. range * q = n * (c * q)
  <2> HIDE DEF q
  <2> QED BY <1>1, Associativity DEF range
<1>4. m = n * (c * q + p) + t
  <2>1. c * q \in Int
    BY <1>1
  <2>2. n * (c * q + p) = n * (c * q) + n * p
    BY <1>2, <2>1
  <2> HIDE DEF q, r, p, t
  <2> QED BY <1>1, <1>2, <1>3, <2>1, <2>2
<1>5. c * q + p \in Int
  BY <1>1, <1>2
<1>6. (n * (c * q + p) + t) % n = t
  BY <1>2, <1>5, RemainderUnique
<1> QED BY <1>4, <1>6 DEF range

-----------------------------------------------------------------------------
(* Part 2: the ring buffer.                                                *)

LEMMA RingSizes ==
  /\ Size \in Nat \ {0} /\ IndexRange \in Nat \ {0} /\ Size < IndexRange
  /\ MaxLength \in Nat
BY RingAssumption DEF Ring!RingConstants

LEMMA RingTurns == \E c \in Nat \ {0} : IndexRange = Size * c
BY RingAssumption DEF Ring!RingConstants

(* An index that wraps keeps its place in the array. *)
LEMMA SlotKept ==
  ASSUME NEW o \in Int, NEW k \in Int
  PROVE  ((o % IndexRange) + k) % Size = (o + k) % Size
<1>1. PICK c \in Nat \ {0} : IndexRange = Size * c
  BY RingTurns
<1>2. (o % IndexRange) % Size = o % Size
  BY <1>1, RingSizes, RemainderOfRemainder
<1>3. o % IndexRange \in Int
  BY RingSizes, Remainder
<1>4. ((o % IndexRange) + k) % Size = (((o % IndexRange) % Size) + k) % Size
  BY <1>3, RingSizes, RemainderOfSum
<1>5. (o + k) % Size = ((o % Size) + k) % Size
  BY RingSizes, RemainderOfSum
<1> QED BY <1>2, <1>4, <1>5

(* The place k further on, in the same turn or at the beginning again. *)
LEMMA SlotAt ==
  ASSUME NEW o \in Int, NEW k \in 0 .. Size
  PROVE  /\ o % Size \in 0 .. Size - 1
         /\ (o + k) % Size = IF (o % Size) + k < Size THEN (o % Size) + k ELSE (o % Size) + k - Size
<1>0. Size \in Nat \ {0} /\ k \in Int
  BY RingSizes
<1>1. o % Size \in 0 .. Size - 1
  BY RingSizes, Remainder
<1>2. (o + k) % Size = ((o % Size) + k) % Size
  BY <1>0, RemainderOfSum
<1>3. ((o % Size) + k) % Size =
        IF (o % Size) + k < Size THEN (o % Size) + k ELSE (o % Size) + k - Size
  <2> DEFINE m == (o % Size) + k
  <2>1. m \in Int /\ -Size <= m /\ m < 2 * Size /\ ~(m < 0)
    BY <1>1, RingSizes
  <2> HIDE DEF m
  <2>2. m % Size = IF m < Size THEN m ELSE m - Size
    BY <2>1, RingSizes, OneTurn
  <2> QED BY <1>1, <2>2, RingSizes DEF m
<1> QED BY <1>1, <1>2, <1>3

(* The smaller one of two numbers. *)
Smaller(x, y) == IF x <= y THEN x ELSE y

LEMMA RingMin ==
  ASSUME NEW x \in Int, NEW y \in Int
  PROVE  Ring!Min({x, y}) = Smaller(x, y) /\ Ring!Queue!Min({x, y}) = Smaller(x, y)
<1>1. ASSUME NEW z \in {x, y}, \A w \in {x, y} : z <= w
      PROVE  z = Smaller(x, y)
  BY <1>1 DEF Smaller
<1>2. Smaller(x, y) \in {x, y} /\ \A w \in {x, y} : Smaller(x, y) <= w
  BY DEF Smaller
<1> QED BY <1>1, <1>2 DEF Ring!Min, Ring!Queue!Min

(* Two pieces of the array, one after the other.                           *)
LEMMA TwoPieces ==
  \A m, n \in Nat : \A f \in [1 .. m -> Characters], g \in [1 .. n -> Characters] :
    /\ f \o g \in [1 .. m + n -> Characters]
    /\ \A i \in 1 .. m + n : (f \o g)[i] = IF i <= m THEN f[i] ELSE g[i - m]
<1> TAKE m, n \in Nat
<1> TAKE f \in [1 .. m -> Characters], g \in [1 .. n -> Characters]
<1>1. f \in Seq(Characters) /\ g \in Seq(Characters) /\ Len(f) = m /\ Len(g) = n
  OBVIOUS
<1>2. /\ f \o g \in Seq(Characters)
      /\ Len(f \o g) = m + n
      /\ \A i \in 1 .. m + n : (f \o g)[i] = IF i <= m THEN f[i] ELSE g[i - m]
  BY <1>1, ConcatProperties
<1>3. f \o g \in [1 .. m + n -> Characters]
  BY <1>2, LenProperties
<1> QED BY <1>2, <1>3

(* The two copies of k_ringbuffer_read_with_offset fetch the places that   *)
(* follow the offset, modulo the size.                                     *)
LEMMA ReadIs ==
  ASSUME NEW d \in [0 .. Size - 1 -> Characters], NEW length \in 0 .. Size, NEW o \in Int
  PROVE  LET rest == Ring!Min({length, Size - Ring!Masked(o)})
         IN  [i \in 1 .. rest |-> d[Ring!Masked(o) + i - 1]]
               \o [i \in 1 .. length - rest |-> d[i - 1]]
             = [i \in 1 .. length |-> d[(o + i - 1) % Size]]
<1> DEFINE s == o % Size
           rest == Smaller(length, Size - s)
           left == length - rest
           f == [i \in 1 .. rest |-> d[s + i - 1]]
           g == [i \in 1 .. left |-> d[i - 1]]
<1>0. s \in 0 .. Size - 1
  BY RingSizes, Remainder
<1>2. \A k \in 0 .. Size : (o + k) % Size = IF s + k < Size THEN s + k ELSE s + k - Size
  BY SlotAt
<1>3. Ring!Masked(o) = s
  BY DEF Ring!Masked
<1> HIDE DEF s
<1>1. s \in 0 .. Size - 1 /\ length \in Int /\ Size - s \in Int
  BY <1>0, RingSizes
<1>10. Ring!Min({length, Size - Ring!Masked(o)}) = rest
  BY <1>1, <1>3, RingMin
<1>4. rest \in 0 .. length /\ (rest = length \/ rest = Size - s) /\ rest <= Size - s
  BY <1>1, RingSizes DEF Smaller
<1> HIDE DEF rest
<1>5. f \in [1 .. rest -> Characters] /\ g \in [1 .. left -> Characters]
  BY <1>1, <1>4, RingSizes
<1>6. /\ f \o g \in [1 .. rest + left -> Characters]
      /\ \A i \in 1 .. rest + left : (f \o g)[i] = IF i <= rest THEN f[i] ELSE g[i - rest]
  <2>1. rest \in Nat /\ left \in Nat
    BY <1>4
  <2> HIDE DEF f, g, left
  <2> QED BY <1>5, <2>1, TwoPieces
<1>7. \A i \in 1 .. length :
        d[(o + i - 1) % Size] = IF i <= rest THEN f[i] ELSE g[i - rest]
  <2> TAKE i \in 1 .. length
  <2>1. i - 1 \in 0 .. Size /\ o + i - 1 = o + (i - 1)
    BY RingSizes
  <2>2. (o + i - 1) % Size = IF s + (i - 1) < Size THEN s + (i - 1) ELSE s + (i - 1) - Size
    BY <1>2, <2>1
  <2>3. CASE i <= rest
    <3>1. (o + i - 1) % Size = s + i - 1
      BY <1>1, <1>4, <2>2, <2>3, RingSizes
    <3> QED BY <2>3, <3>1, <1>4
  <2>4. CASE ~(i <= rest)
    <3>1. (o + i - 1) % Size = (i - rest) - 1 /\ i - rest \in 1 .. length - rest
      BY <1>1, <1>4, <2>2, <2>4, RingSizes
    <3> QED BY <2>4, <3>1
  <2> QED BY <2>3, <2>4
<1>8. rest + left = length
  BY <1>4, RingSizes
<1>9. f \o g = [i \in 1 .. length |-> d[(o + i - 1) % Size]]
  <2> HIDE DEF f, g, left
  <2> QED BY <1>6, <1>7, <1>8
<1> QED BY <1>3, <1>9, <1>10

(* The array d after the first length characters of src went in at o.      *)
WrittenTo(d, src, length, o) ==
  LET rest == Ring!Min({length, Size - Ring!Masked(o)})
  IN  [i \in DOMAIN d |->
         IF i - Ring!Masked(o) \in 0 .. rest - 1
         THEN src[i - Ring!Masked(o) + 1]
         ELSE IF i < length - rest
              THEN src[rest + i + 1]
              ELSE d[i]]

(* The two copies of k_ringbuffer_write_with_offset fill the places that   *)
(* follow the offset, and no other.                                        *)
LEMMA WrittenIs ==
  ASSUME NEW d \in [0 .. Size - 1 -> Characters], NEW src \in Seq(Characters),
         NEW length \in 0 .. Size, length <= Len(src), NEW o \in Int
  PROVE  /\ WrittenTo(d, src, length, o) \in [0 .. Size - 1 -> Characters]
         /\ \A i \in 1 .. length : WrittenTo(d, src, length, o)[(o + i - 1) % Size] = src[i]
         /\ \A k \in length .. Size - 1 :
              WrittenTo(d, src, length, o)[(o + k) % Size] = d[(o + k) % Size]
<1> DEFINE new == WrittenTo(d, src, length, o)
           s == o % Size
           rest == Smaller(length, Size - s)
           At(i) == IF i - s \in 0 .. rest - 1
                    THEN src[i - s + 1]
                    ELSE IF i < length - rest
                         THEN src[rest + i + 1]
                         ELSE d[i]
<1>1. s \in 0 .. Size - 1
  BY RingSizes, Remainder
<1>2. \A k \in 0 .. Size : (o + k) % Size = IF s + k < Size THEN s + k ELSE s + k - Size
  BY SlotAt
<1>3. Ring!Masked(o) = s
  BY DEF Ring!Masked
<1> HIDE DEF s
<1>4. length \in Int /\ Size - s \in Int /\ Size \in Nat
  BY <1>1, RingSizes
<1>5. Ring!Min({length, Size - Ring!Masked(o)}) = rest
  BY <1>1, <1>3, <1>4, RingMin
<1>6. rest \in 0 .. length /\ (rest = length \/ rest = Size - s) /\ rest <= Size - s
  BY <1>1, <1>4 DEF Smaller
<1> HIDE DEF rest
<1>7. new = [i \in 0 .. Size - 1 |-> At(i)]
  BY <1>3, <1>5 DEF WrittenTo
<1> HIDE DEF new
<1>8. Len(src) \in Nat /\ \A i \in 1 .. Len(src) : src[i] \in Characters
  BY LenProperties, ElementOfSeq
<1>9. new \in [0 .. Size - 1 -> Characters]
  <2> SUFFICES ASSUME NEW i \in 0 .. Size - 1 PROVE At(i) \in Characters
    BY <1>7
  <2>1. CASE i - s \in 0 .. rest - 1
    <3>1. i - s + 1 \in 1 .. Len(src)
      BY <2>1, <1>1, <1>4, <1>6, <1>8
    <3> QED BY <2>1, <3>1, <1>8
  <2>2. CASE i - s \notin 0 .. rest - 1 /\ i < length - rest
    <3>1. rest + i + 1 \in 1 .. Len(src)
      BY <2>2, <1>4, <1>6, <1>8
    <3> QED BY <2>2, <3>1, <1>8
  <2>3. CASE i - s \notin 0 .. rest - 1 /\ ~(i < length - rest)
    BY <2>3
  <2> QED BY <2>1, <2>2, <2>3
<1>10. ASSUME NEW i \in 1 .. length
       PROVE  new[(o + i - 1) % Size] = src[i]
  <2> DEFINE slot == (o + i - 1) % Size
  <2>1. i - 1 \in 0 .. Size /\ o + i - 1 = o + (i - 1)
    BY <1>4
  <2>2. slot = IF s + (i - 1) < Size THEN s + (i - 1) ELSE s + (i - 1) - Size
    BY <1>2, <2>1
  <2> HIDE DEF slot
  <2>3. slot \in 0 .. Size - 1
    BY <1>1, <1>4, <2>1, <2>2
  <2>6. new[slot] = At(slot)
    BY <1>7, <2>3
  <2>4. CASE i <= rest
    <3>1. slot = s + i - 1
      BY <1>1, <1>4, <1>6, <2>2, <2>4
    <3>2. slot - s \in 0 .. rest - 1 /\ slot - s + 1 = i
      BY <1>1, <1>4, <1>6, <2>4, <3>1
    <3> QED BY <2>6, <3>2 DEF slot
  <2>5. CASE ~(i <= rest)
    <3>1. slot = i - rest - 1 /\ slot < s
      BY <1>1, <1>4, <1>6, <2>2, <2>5
    <3>2. slot - s \notin 0 .. rest - 1 /\ slot < length - rest /\ rest + slot + 1 = i
      BY <1>1, <1>4, <1>6, <2>5, <3>1
    <3> QED BY <2>6, <3>2 DEF slot
  <2> QED BY <2>4, <2>5
<1>11. ASSUME NEW k \in length .. Size - 1
       PROVE  new[(o + k) % Size] = d[(o + k) % Size]
  <2> DEFINE slot == (o + k) % Size
  <2>1. k \in 0 .. Size
    BY <1>4
  <2>2. slot = IF s + k < Size THEN s + k ELSE s + k - Size
    BY <1>2, <2>1
  <2> HIDE DEF slot
  <2>3. slot \in 0 .. Size - 1
    BY <1>1, <1>4, <2>1, <2>2
  <2>6. new[slot] = At(slot)
    BY <1>7, <2>3
  <2>4. slot - s \notin 0 .. rest - 1 /\ ~(slot < length - rest)
    BY <1>1, <1>4, <1>6, <2>1, <2>2
  <2> QED BY <2>6, <2>4 DEF slot
<1> QED BY <1>9, <1>10, <1>11 DEF new

(* The indexes go on and back by no more than a turn. *)
LEMMA IndexMoves ==
  ASSUME NEW o \in 0 .. IndexRange - 1, NEW k \in 0 .. IndexRange
  PROVE  /\ (o + k) % IndexRange = IF o + k < IndexRange THEN o + k ELSE o + k - IndexRange
         /\ (o - k) % IndexRange = IF o < k THEN o - k + IndexRange ELSE o - k
<1> DEFINE on == o + k
           back == o - k
<1>1. IndexRange \in Nat \ {0}
  BY RingSizes
<1>2. /\ on \in Int /\ -IndexRange <= on /\ on < 2 * IndexRange /\ ~(on < 0)
      /\ back \in Int /\ -IndexRange <= back /\ back < 2 * IndexRange /\ back < IndexRange
  BY <1>1
<1> HIDE DEF on, back
<1>3. on % IndexRange = IF on < IndexRange THEN on ELSE on - IndexRange
  BY <1>1, <1>2, OneTurn
<1>4. back % IndexRange = IF back < 0 THEN back + IndexRange ELSE back
  BY <1>1, <1>2, OneTurn
<1>5. (o + k) % IndexRange = IF o + k < IndexRange THEN o + k ELSE o + k - IndexRange
  BY <1>1, <1>3 DEF on
<1>6. (o - k) % IndexRange = IF o < k THEN o - k + IndexRange ELSE o - k
  BY <1>1, <1>4 DEF back
<1> QED BY <1>5, <1>6

(* Between the indexes lies what the buffer holds; the rest is unused. *)
LEMMA Filling ==
  ASSUME Ring!TypeOK
  PROVE  /\ Ring!Used \in 0 .. Size
         /\ Ring!Used = IF write_index < read_index
                        THEN write_index - read_index + IndexRange ELSE write_index - read_index
         /\ Ring!Unused = Size - Ring!Used
         /\ write_index = (read_index + Ring!Used) % IndexRange
<1> USE RingSizes DEF Ring!TypeOK
<1>1. Ring!Used = IF write_index < read_index
                  THEN write_index - read_index + IndexRange ELSE write_index - read_index
  <2>1. read_index \in 0 .. IndexRange
    OBVIOUS
  <2> QED BY <2>1, IndexMoves DEF Ring!Used
<1> DEFINE u == Ring!Used
           left == Size - u
<1>2. u \in 0 .. Size
  OBVIOUS
<1>3. Ring!Unused = left % IndexRange
  BY DEF Ring!Unused
<1> HIDE DEF u
<1>4. left \in Int /\ -IndexRange <= left /\ left < 2 * IndexRange /\ ~(left < 0) /\ left < IndexRange
  BY <1>2
<1> HIDE DEF left
<1>5. left % IndexRange = left
  BY <1>4, OneTurn
<1>6. write_index = (read_index + u) % IndexRange
  <2>1. u \in 0 .. IndexRange
    BY <1>2
  <2>2. (read_index + u) % IndexRange =
          IF read_index + u < IndexRange THEN read_index + u ELSE read_index + u - IndexRange
    BY <2>1, IndexMoves
  <2> QED BY <1>1, <2>1, <2>2 DEF u
<1> QED BY <1>1, <1>2, <1>3, <1>5, <1>6 DEF u, left

(* What a read of the array returns. *)
LEMMA ReadsAre ==
  ASSUME data \in [0 .. Size - 1 -> Characters], NEW length \in 0 .. Size, NEW o \in Int
  PROVE  /\ Ring!ReadAt(length, o) \in Seq(Characters)
         /\ Len(Ring!ReadAt(length, o)) = length
         /\ Ring!ReadAt(length, o) = [i \in 1 .. length |-> data[(o + i - 1) % Size]]
<1>1. Ring!ReadAt(length, o) = [i \in 1 .. length |-> data[(o + i - 1) % Size]]
  BY ReadIs DEF Ring!ReadAt
<1>2. \A i \in 1 .. length : data[(o + i - 1) % Size] \in Characters
  <2> TAKE i \in 1 .. length
  <2>1. o + i - 1 \in Int
    BY RingSizes
  <2>2. (o + i - 1) % Size \in 0 .. Size - 1
    BY <2>1, RingSizes, Remainder
  <2> QED BY <2>2
<1>3. length \in Nat
  BY RingSizes
<1> QED BY <1>1, <1>2, <1>3

(* What is in the buffer. *)
LEMMA ContentsAre ==
  Ring!TypeOK =>
    /\ Ring!Contents = [i \in 1 .. Ring!Used |-> data[(read_index + i - 1) % Size]]
    /\ Ring!Contents \in Seq(Characters)
    /\ Len(Ring!Contents) = Ring!Used
<1> SUFFICES ASSUME Ring!TypeOK
             PROVE  /\ Ring!Contents = [i \in 1 .. Ring!Used |-> data[(read_index + i - 1) % Size]]
                    /\ Ring!Contents \in Seq(Characters)
                    /\ Len(Ring!Contents) = Ring!Used
  OBVIOUS
<1>1. data \in [0 .. Size - 1 -> Characters] /\ Ring!Used \in 0 .. Size /\ read_index \in Int
  BY RingSizes DEF Ring!TypeOK
<1> QED BY <1>1, ReadsAre DEF Ring!Contents

(* The texts that are written: as many characters as are asked for. *)
LEMMA TextsAre ==
  \A src \in Ring!Texts : src \in Seq(Characters) /\ Len(src) \in 0 .. MaxLength
<1> SUFFICES ASSUME NEW n \in 0 .. MaxLength, NEW src \in [1 .. n -> Characters]
             PROVE  src \in Seq(Characters) /\ Len(src) = n
  BY DEF Ring!Texts
<1> QED BY RingSizes

(* A part of a text, which may be empty. *)
LEMMA PartOfText ==
  ASSUME NEW s \in Seq(Characters), NEW m \in 1 .. Len(s) + 1, NEW n \in m - 1 .. Len(s)
  PROVE  /\ SubSeq(s, m, n) \in Seq(Characters)
         /\ Len(SubSeq(s, m, n)) = n - m + 1
         /\ \A i \in 1 .. n - m + 1 : SubSeq(s, m, n)[i] = s[m + i - 1]
<1>1. Len(s) \in Nat /\ m \in Int /\ n \in Int /\ (~(m <= n) => n - m + 1 = 0)
  BY LenProperties
<1>2. \A i \in m .. n : s[i] \in Characters
  BY <1>1, ElementOfSeq
<1> QED BY <1>1, <1>2, SubSeqProperties

(* What is written is appended to the contents, as far as it fits.         *)
LEMMA WriteStep ==
  ASSUME Ring!TypeOK, NEW src \in Ring!Texts, Ring!Write(src)
  PROVE  Ring!TypeOK' /\ Ring!Queue!Accept(src)
<1> DEFINE u == Ring!Used
           length == Smaller(Len(src), Size - u)
<1>1. /\ u \in 0 .. Size
      /\ u = IF write_index < read_index
             THEN write_index - read_index + IndexRange ELSE write_index - read_index
      /\ Ring!Unused = Size - u
  BY Filling
<1>0. write_index = (read_index + u) % IndexRange
  BY Filling
<1>2. /\ data \in [0 .. Size - 1 -> Characters] /\ dst \in Seq(Characters)
      /\ read_index \in 0 .. IndexRange - 1 /\ write_index \in 0 .. IndexRange - 1
  BY DEF Ring!TypeOK
<1>3. src \in Seq(Characters) /\ Len(src) \in Nat
  BY TextsAre, RingSizes
<1> HIDE DEF u
<1>4. Ring!Min({Len(src), Ring!Unused}) = length
  BY <1>1, <1>3, RingMin, RingSizes
<1>5. length \in 0 .. Size - u /\ length <= Len(src) /\ length \in 0 .. Size
  BY <1>1, <1>3, RingSizes DEF Smaller
<1> HIDE DEF length
<1>6. /\ data' = Ring!WrittenAt(src, length, write_index)
      /\ write_index' = (write_index + length) % IndexRange
      /\ read_index' = read_index /\ dst' = dst
  BY <1>4 DEF Ring!Write
<1>7. /\ data' \in [0 .. Size - 1 -> Characters]
      /\ \A i \in 1 .. length : data'[(write_index + i - 1) % Size] = src[i]
      /\ \A k \in length .. Size - 1 :
           data'[(write_index + k) % Size] = data[(write_index + k) % Size]
  <2>1. write_index \in Int
    BY <1>2, RingSizes
  <2>2. data' = WrittenTo(data, src, length, write_index)
    BY <1>6 DEF Ring!WrittenAt, WrittenTo
  <2> QED BY <1>2, <1>3, <1>5, <2>1, <2>2, WrittenIs
<1>8. write_index' = IF write_index + length < IndexRange
                     THEN write_index + length ELSE write_index + length - IndexRange
  <2>1. length \in 0 .. IndexRange
    BY <1>5, RingSizes
  <2> QED BY <1>2, <1>6, <2>1, IndexMoves
<1>9. write_index' \in 0 .. IndexRange - 1
  BY <1>2, <1>5, <1>8, RingSizes
<1>10. Ring!Used' = u + length
  <2>1. Ring!Used' = (write_index' - read_index) % IndexRange
    BY <1>6 DEF Ring!Used
  <2>2. read_index \in 0 .. IndexRange
    BY <1>2, RingSizes
  <2>3. (write_index' - read_index) % IndexRange =
          IF write_index' < read_index THEN write_index' - read_index + IndexRange
          ELSE write_index' - read_index
    BY <1>9, <2>2, IndexMoves
  <2> QED BY <1>1, <1>2, <1>5, <1>8, <2>1, <2>3, RingSizes
<1>11. Ring!TypeOK'
  BY <1>1, <1>2, <1>5, <1>6, <1>7, <1>9, <1>10, RingSizes DEF Ring!TypeOK
<1>12. /\ Ring!Contents = [i \in 1 .. u |-> data[(read_index + i - 1) % Size]]
       /\ Ring!Contents \in Seq(Characters) /\ Len(Ring!Contents) = u
  BY ContentsAre DEF u
<1>13. /\ Ring!Contents' = [i \in 1 .. u + length |-> data'[(read_index + i - 1) % Size]]
       /\ Ring!Contents' \in Seq(Characters) /\ Len(Ring!Contents') = u + length
  <2>1. (/\ Ring!Contents = [i \in 1 .. Ring!Used |-> data[(read_index + i - 1) % Size]]
         /\ Ring!Contents \in Seq(Characters)
         /\ Len(Ring!Contents) = Ring!Used)'
    BY <1>11, ContentsAre, PTL
  <2> QED BY <2>1, <1>6, <1>10
<1> DEFINE accepted == SubSeq(src, 1, length)
<1>14. /\ accepted \in Seq(Characters) /\ Len(accepted) = length
       /\ \A i \in 1 .. length : accepted[i] = src[i]
  BY <1>3, <1>5, SubSeqProperties
<1> HIDE DEF accepted
<1>15. ASSUME NEW i \in 1 .. u + length
       PROVE  data'[(read_index + i - 1) % Size] =
                IF i <= u THEN data[(read_index + i - 1) % Size] ELSE src[i - u]
  <2>1. CASE i <= u
    <3> DEFINE k == Size - u + i - 1
               o == read_index + u
    <3>1. k \in length .. Size - 1 /\ k \in Int /\ o \in Int /\ k - Size \in Int
      BY <1>1, <1>2, <1>5, <2>1, RingSizes
    <3>2. (write_index + k) % Size = (o + k) % Size
      BY <1>0, <3>1, SlotKept
    <3>3. (o + k) % Size = (read_index + i - 1) % Size
      <4> DEFINE j == read_index + i - 1
      <4>1. o + k = j + Size /\ j \in Int
        BY <1>1, <1>2, RingSizes
      <4> HIDE DEF j
      <4>2. (j + Size) % Size = j % Size
        <5>1. Size \in 0 .. Size
          BY RingSizes
        <5>2. /\ j % Size \in 0 .. Size - 1
              /\ (j + Size) % Size = IF (j % Size) + Size < Size THEN (j % Size) + Size
                                     ELSE (j % Size) + Size - Size
          BY <4>1, <5>1, SlotAt
        <5> DEFINE m == j % Size
        <5> HIDE DEF m
        <5>3. m \in 0 .. Size - 1 => ~(m + Size < Size) /\ m + Size - Size = m
          BY RingSizes
        <5> QED BY <5>2, <5>3 DEF m
      <4> QED BY <4>1, <4>2 DEF j
    <3> QED BY <1>7, <2>1, <3>1, <3>2, <3>3
  <2>2. CASE ~(i <= u)
    <3> DEFINE o == read_index + u
               k == i - u - 1
    <3>1. i - u \in 1 .. length /\ k \in Int /\ o \in Int
      BY <1>1, <1>2, <1>5, <2>2, RingSizes
    <3>2. (write_index + k) % Size = (o + k) % Size
      BY <1>0, <3>1, SlotKept
    <3>3. write_index + k = write_index + (i - u) - 1 /\ o + k = read_index + i - 1
      BY <1>1, <1>2, RingSizes
    <3> QED BY <1>7, <2>2, <3>1, <3>2, <3>3
  <2> QED BY <2>1, <2>2
<1>16. Ring!Contents' = Ring!Contents \o accepted
  <2>1. /\ Ring!Contents \o accepted \in Seq(Characters)
        /\ Len(Ring!Contents \o accepted) = u + length
        /\ \A i \in 1 .. u + length :
             (Ring!Contents \o accepted)[i] =
               IF i <= u THEN Ring!Contents[i] ELSE accepted[i - u]
    <3> DEFINE before == Ring!Contents
    <3>1. before \in Seq(Characters) /\ Len(before) = u
      BY <1>12
    <3>2. accepted \in Seq(Characters) /\ Len(accepted) = length
      BY <1>14
    <3> HIDE DEF before
    <3>3. /\ before \o accepted \in Seq(Characters)
          /\ Len(before \o accepted) = Len(before) + Len(accepted)
          /\ \A i \in 1 .. Len(before) + Len(accepted) : (before \o accepted)[i] =
               IF i <= Len(before) THEN before[i] ELSE accepted[i - Len(before)]
      BY <3>1, <3>2, ConcatProperties
    <3> QED BY <3>1, <3>2, <3>3 DEF before
  <2>2. ASSUME NEW i \in 1 .. u + length
        PROVE  Ring!Contents'[i] = (Ring!Contents \o accepted)[i]
    <3>1. Ring!Contents'[i] = IF i <= u THEN data[(read_index + i - 1) % Size] ELSE src[i - u]
      BY <1>13, <1>15
    <3>2. i <= u => Ring!Contents[i] = data[(read_index + i - 1) % Size]
      BY <1>1, <1>12
    <3>3. ~(i <= u) => accepted[i - u] = src[i - u]
      BY <1>1, <1>5, <1>14
    <3> QED BY <2>1, <3>1, <3>2, <3>3
  <2> QED BY <1>13, <2>1, <2>2, SeqEqual
<1>17. Ring!Queue!Min({Len(src), Size - Len(Ring!Contents)}) = length
  <2>1. Size - Len(Ring!Contents) = Size - u /\ Size - u \in Int /\ Len(src) \in Int
    BY <1>1, <1>3, <1>12, RingSizes
  <2>2. Ring!Queue!Min({Len(src), Size - u}) = length
    BY <2>1, RingMin DEF length
  <2> QED BY <2>1, <2>2
<1> QED BY <1>6, <1>11, <1>16, <1>17 DEF Ring!Queue!Accept, accepted

(* What is read is taken from the front of the contents. *)
LEMMA ReadStep ==
  ASSUME Ring!TypeOK, NEW wanted \in 0 .. MaxLength, Ring!Read(wanted)
  PROVE  Ring!TypeOK' /\ Ring!Queue!Take(wanted)
<1> DEFINE u == Ring!Used
           length == Smaller(wanted, u)
           o == read_index + length
<1>1. /\ u \in 0 .. Size /\ wanted \in Nat
      /\ u = IF write_index < read_index
             THEN write_index - read_index + IndexRange ELSE write_index - read_index
  BY Filling, RingSizes
<1>2. /\ data \in [0 .. Size - 1 -> Characters]
      /\ read_index \in 0 .. IndexRange - 1 /\ write_index \in 0 .. IndexRange - 1
  BY DEF Ring!TypeOK
<1>3. /\ Ring!Contents = [i \in 1 .. u |-> data[(read_index + i - 1) % Size]]
      /\ Ring!Contents \in Seq(Characters) /\ Len(Ring!Contents) = u
  BY ContentsAre
<1> HIDE DEF u
<1>4. u \in Int /\ wanted \in Int
  BY <1>1, RingSizes
<1>5. Ring!Min({wanted, u}) = length /\ Ring!Queue!Min({wanted, u}) = length
  BY <1>4, RingMin
<1>6. length \in 0 .. u /\ length \in 0 .. Size
  BY <1>1, RingSizes DEF Smaller
<1> HIDE DEF length
<1>7. /\ dst' = Ring!ReadAt(length, read_index)
      /\ read_index' = (read_index + length) % IndexRange
      /\ data' = data /\ write_index' = write_index
  BY <1>5 DEF Ring!Read, u
<1>8. read_index' = IF read_index + length < IndexRange
                    THEN read_index + length ELSE read_index + length - IndexRange
  <2>1. length \in 0 .. IndexRange
    BY <1>6, RingSizes
  <2> QED BY <1>2, <1>7, <2>1, IndexMoves
<1>9. read_index' \in 0 .. IndexRange - 1 /\ read_index' \in 0 .. IndexRange
  BY <1>2, <1>6, <1>8, RingSizes
<1>10. Ring!Used' = u - length
  <2>1. Ring!Used' = (write_index - read_index') % IndexRange
    BY <1>7 DEF Ring!Used
  <2>2. (write_index - read_index') % IndexRange =
          IF write_index < read_index' THEN write_index - read_index' + IndexRange
          ELSE write_index - read_index'
    BY <1>2, <1>9, IndexMoves
  <2> QED BY <1>1, <1>2, <1>6, <1>8, <2>1, <2>2, RingSizes
<1>11. /\ dst' \in Seq(Characters) /\ Len(dst') = length
       /\ dst' = [i \in 1 .. length |-> data[(read_index + i - 1) % Size]]
  <2>1. read_index \in Int
    BY <1>2, RingSizes
  <2> QED BY <1>2, <1>6, <1>7, <2>1, ReadsAre
<1>12. Ring!TypeOK'
  <2>1. u - length \in 0 .. Size
    BY <1>1, <1>6, RingSizes
  <2> QED BY <1>2, <1>7, <1>9, <1>10, <1>11, <2>1 DEF Ring!TypeOK
<1>13. /\ Ring!Contents' = [i \in 1 .. u - length |-> data[(read_index' + i - 1) % Size]]
       /\ Ring!Contents' \in Seq(Characters) /\ Len(Ring!Contents') = u - length
  <2>1. (/\ Ring!Contents = [i \in 1 .. Ring!Used |-> data[(read_index + i - 1) % Size]]
         /\ Ring!Contents \in Seq(Characters)
         /\ Len(Ring!Contents) = Ring!Used)'
    BY <1>12, ContentsAre, PTL
  <2> QED BY <2>1, <1>7, <1>10
<1>14. ASSUME NEW i \in 1 .. u - length
       PROVE  (read_index' + i - 1) % Size = (read_index + (i + length) - 1) % Size
  <2> DEFINE k == i - 1
  <2>1. o \in Int /\ k \in Int /\ i \in Int /\ length \in Int /\ read_index \in Int /\ read_index' \in Int
    BY <1>2, <1>6, <1>9, RingSizes
  <2>2. read_index' = o % IndexRange
    BY <1>7
  <2>3. read_index' + i - 1 = read_index' + k /\ read_index + (i + length) - 1 = o + k
    BY <2>1
  <2> HIDE DEF o, k
  <2>4. ((o % IndexRange) + k) % Size = (o + k) % Size
    BY <2>1, SlotKept
  <2> QED BY <2>2, <2>3, <2>4
<1> DEFINE first == SubSeq(Ring!Contents, 1, length)
           rest == SubSeq(Ring!Contents, length + 1, u)
<1> HIDE DEF u
<1>15. /\ first \in Seq(Characters) /\ Len(first) = length
       /\ \A i \in 1 .. length : first[i] = Ring!Contents[i]
  <2>1. 1 \in 1 .. Len(Ring!Contents) + 1 /\ length \in 1 - 1 .. Len(Ring!Contents)
    BY <1>3, <1>4, <1>6
  <2>2. /\ first \in Seq(Characters)
        /\ Len(first) = length - 1 + 1
        /\ \A i \in 1 .. length - 1 + 1 : first[i] = Ring!Contents[1 + i - 1]
    BY <1>3, <2>1, PartOfText
  <2>3. length - 1 + 1 = length /\ \A i \in 1 .. length : 1 + i - 1 = i
    BY <1>6
  <2> QED BY <2>2, <2>3
<1>16. /\ rest \in Seq(Characters) /\ Len(rest) = u - length
       /\ \A i \in 1 .. u - length : rest[i] = Ring!Contents[i + length]
  <2> DEFINE m == length + 1
  <2>1. m \in 1 .. Len(Ring!Contents) + 1 /\ u \in m - 1 .. Len(Ring!Contents)
    BY <1>3, <1>4, <1>6
  <2> HIDE DEF m
  <2>2. /\ SubSeq(Ring!Contents, m, u) \in Seq(Characters)
        /\ Len(SubSeq(Ring!Contents, m, u)) = u - m + 1
        /\ \A i \in 1 .. u - m + 1 : SubSeq(Ring!Contents, m, u)[i] = Ring!Contents[m + i - 1]
    BY <1>3, <2>1, PartOfText
  <2>3. /\ u - m + 1 = u - length
        /\ \A i \in 1 .. u - length : m + i - 1 = i + length
    BY <1>4, <1>6 DEF m
  <2>4. rest = SubSeq(Ring!Contents, m, u)
    BY DEF m
  <2> HIDE DEF rest
  <2> QED BY <2>2, <2>3, <2>4
<1> HIDE DEF first, rest
<1>17. dst' = first
  <2>1. ASSUME NEW i \in 1 .. length
        PROVE  dst'[i] = first[i]
    <3>1. i \in 1 .. u
      BY <1>4, <1>6
    <3>2. Ring!Contents[i] = data[(read_index + i - 1) % Size]
      BY <1>3, <3>1
    <3>3. dst'[i] = data[(read_index + i - 1) % Size]
      BY <1>11
    <3> QED BY <1>15, <3>2, <3>3
  <2> QED BY <1>11, <1>15, <2>1, SeqEqual
<1>18. Ring!Contents' = rest
  <2>1. ASSUME NEW i \in 1 .. u - length
        PROVE  Ring!Contents'[i] = rest[i]
    <3>1. i + length \in 1 .. u
      BY <1>4, <1>6
    <3> QED BY <1>3, <1>13, <1>14, <1>16, <3>1
  <2> QED BY <1>13, <1>16, <2>1, SeqEqual
<1> QED BY <1>3, <1>5, <1>12, <1>17, <1>18 DEF Ring!Queue!Take, first, rest

(* What is peeked at is the end of the contents, which stay. *)
LEMMA PeekStep ==
  ASSUME Ring!TypeOK, NEW wanted \in 0 .. MaxLength, Ring!PeekNewest(wanted)
  PROVE  Ring!TypeOK' /\ Ring!Queue!Show(wanted)
<1> DEFINE u == Ring!Used
           length == Smaller(wanted, u)
           o == (write_index - length) % IndexRange
<1>1. u \in 0 .. Size /\ wanted \in Nat
  BY Filling, RingSizes
<1>2. write_index = (read_index + u) % IndexRange
  BY Filling
<1>3. /\ data \in [0 .. Size - 1 -> Characters]
      /\ read_index \in 0 .. IndexRange - 1 /\ write_index \in 0 .. IndexRange - 1
  BY DEF Ring!TypeOK
<1>4. /\ Ring!Contents = [i \in 1 .. u |-> data[(read_index + i - 1) % Size]]
      /\ Ring!Contents \in Seq(Characters) /\ Len(Ring!Contents) = u
  BY ContentsAre
<1> HIDE DEF u
<1>5. u \in Int /\ wanted \in Int
  BY <1>1, RingSizes
<1>6. Ring!Min({wanted, u}) = length /\ Ring!Queue!Min({wanted, u}) = length
  BY <1>5, RingMin
<1>7. length \in 0 .. u /\ length \in 0 .. Size
  BY <1>1, RingSizes DEF Smaller
<1> HIDE DEF length
<1>8. /\ dst' = Ring!ReadAt(length, o)
      /\ data' = data /\ read_index' = read_index /\ write_index' = write_index
  BY <1>6 DEF Ring!PeekNewest, u
<1>9. Ring!Used' = Ring!Used /\ Ring!Contents' = Ring!Contents
  BY <1>8 DEF Ring!Contents, Ring!ReadAt, Ring!Used
<1>10. write_index \in Int /\ read_index \in Int /\ write_index - length \in Int /\ length \in Int
  BY <1>3, <1>7, RingSizes
<1>11. /\ dst' \in Seq(Characters) /\ Len(dst') = length
       /\ dst' = [i \in 1 .. length |-> data[(o + i - 1) % Size]]
  <2>1. o \in Int
    BY <1>10, RingSizes, Remainder
  <2> QED BY <1>3, <1>7, <1>8, <2>1, ReadsAre
<1>12. Ring!TypeOK'
  BY <1>8, <1>9, <1>11 DEF Ring!TypeOK
<1>13. ASSUME NEW i \in 1 .. length
       PROVE  (o + i - 1) % Size = (read_index + (u - length + i) - 1) % Size
  <2> DEFINE k == i - 1
             back == write_index - length
             j == k - length
             end == read_index + u
  <2>1. k \in Int /\ back \in Int /\ j \in Int /\ end \in Int /\ o \in Int
    BY <1>5, <1>10, RingSizes, Remainder
  <2>2. /\ o + i - 1 = o + k
        /\ back + k = write_index + j
        /\ end + j = read_index + (u - length + i) - 1
    BY <1>5, <1>10, <2>1
  <2> HIDE DEF k, j, end, back
  <2>3. ((back % IndexRange) + k) % Size = (back + k) % Size
    BY <2>1, SlotKept
  <2>4. ((end % IndexRange) + j) % Size = (end + j) % Size
    BY <2>1, SlotKept
  <2>5. o = back % IndexRange /\ write_index = end % IndexRange
    BY <1>2 DEF back, end
  <2> HIDE DEF o
  <2> QED BY <2>2, <2>3, <2>4, <2>5
<1> DEFINE m == u - length + 1
           last == SubSeq(Ring!Contents, m, u)
<1>14. m \in 1 .. Len(Ring!Contents) + 1 /\ u \in m - 1 .. Len(Ring!Contents)
  BY <1>4, <1>5, <1>7
<1>15. /\ u - m + 1 = length
       /\ \A i \in 1 .. length : m + i - 1 = u - length + i /\ u - length + i \in 1 .. u
  BY <1>5, <1>7
<1> HIDE DEF m
<1>16. /\ last \in Seq(Characters) /\ Len(last) = length
       /\ \A i \in 1 .. length : last[i] = Ring!Contents[m + i - 1]
  <2>1. /\ last \in Seq(Characters)
        /\ Len(last) = u - m + 1
        /\ \A i \in 1 .. u - m + 1 : last[i] = Ring!Contents[m + i - 1]
    BY <1>4, <1>14, PartOfText
  <2> HIDE DEF last
  <2> QED BY <2>1, <1>15
<1> HIDE DEF last
<1>17. dst' = last
  <2>1. ASSUME NEW i \in 1 .. length
        PROVE  dst'[i] = last[i]
    <3>1. dst'[i] = data[(o + i - 1) % Size]
      BY <1>11
    <3>2. Ring!Contents[u - length + i] = data[(read_index + (u - length + i) - 1) % Size]
      BY <1>4, <1>15
    <3>3. last[i] = Ring!Contents[u - length + i]
      BY <1>15, <1>16
    <3> QED BY <1>13, <3>1, <3>2, <3>3
  <2> QED BY <1>11, <1>16, <2>1, SeqEqual
<1> QED BY <1>4, <1>6, <1>9, <1>12, <1>17 DEF Ring!Queue!Show, last, m

LEMMA RingStart == Ring!Init => Ring!TypeOK /\ Ring!Queue!Init
<1> SUFFICES ASSUME Ring!Init PROVE Ring!TypeOK /\ Ring!Queue!Init
  OBVIOUS
<1> USE DEF Ring!Init
<1>1. Ring!Used = 0
  <2>1. 0 \in 0 .. IndexRange - 1 /\ 0 \in 0 .. IndexRange
    BY RingSizes
  <2>2. (0 - 0) % IndexRange = IF 0 < 0 THEN 0 - 0 + IndexRange ELSE 0 - 0
    BY <2>1, IndexMoves
  <2> QED BY <2>2 DEF Ring!Used
<1>2. Ring!TypeOK
  BY <1>1, RingSizes DEF Ring!TypeOK
<1>3. Ring!Contents \in Seq(Characters) /\ Len(Ring!Contents) = 0
  BY <1>1, <1>2, ContentsAre
<1>4. Ring!Contents = <<>>
  BY <1>3, EmptySeq
<1> QED BY <1>2, <1>4 DEF Ring!Queue!Init

(* Every step of the library does to the contents what a queue does, or    *)
(* nothing.                                                                *)
LEMMA RingStep ==
  ASSUME Ring!TypeOK, [LibraryNext]_libraryVars
  PROVE  Ring!TypeOK' /\ [Ring!Queue!Next]_<<Ring!Contents, dst>>
<1>1. CASE UNCHANGED ringVars
  <2>1. UNCHANGED <<data, read_index, write_index, dst>>
    BY <1>1 DEF ringVars
  <2>2. Ring!Used' = Ring!Used /\ Ring!Contents' = Ring!Contents
    BY <2>1 DEF Ring!Contents, Ring!ReadAt, Ring!Used
  <2> QED BY <2>1, <2>2 DEF Ring!TypeOK
<1>2. ASSUME NEW src \in Ring!Texts, Ring!Write(src)
      PROVE  Ring!TypeOK' /\ Ring!Queue!Next
  <2>1. \E n \in 0 .. MaxLength : src \in [1 .. n -> Characters]
    BY DEF Ring!Texts
  <2> QED BY <1>2, <2>1, WriteStep DEF Ring!Queue!Next
<1>3. ASSUME NEW wanted \in 0 .. MaxLength, Ring!Read(wanted)
      PROVE  Ring!TypeOK' /\ Ring!Queue!Next
  BY <1>3, ReadStep DEF Ring!Queue!Next
<1>4. ASSUME NEW wanted \in 0 .. MaxLength, Ring!PeekNewest(wanted)
      PROVE  Ring!TypeOK' /\ Ring!Queue!Next
  BY <1>4, PeekStep DEF Ring!Queue!Next
<1>5. UNCHANGED ringVars \/ Ring!Next
  BY DEF LibraryNext, libraryVars
<1> QED BY <1>1, <1>2, <1>3, <1>4, <1>5 DEF Ring!Next

(* The ring buffer is a queue of at most Size characters, whatever its     *)
(* size, however far its indexes have counted and wrapped: nothing is      *)
(* lost, doubled or read out of order, and what does not fit is dropped.   *)
THEOREM RingBufferIsQueue == LibrarySpec => ImplementsQueue
<1>1. LibraryInit => Ring!TypeOK /\ Ring!Queue!Init
  BY RingStart DEF LibraryInit
<1>2. Ring!TypeOK /\ [LibraryNext]_libraryVars =>
        Ring!TypeOK' /\ [part = "ring" => [Ring!Queue!Next]_<<Ring!Contents, dst>>]_ringVars
  BY RingStep
<1> QED BY <1>1, <1>2, PTL DEF LibrarySpec, ImplementsQueue

-----------------------------------------------------------------------------
(* Part 3: what the pointers of the lists say.                             *)

LEMMA ListSizes ==
  /\ NodeCount \in Nat \ {0} /\ FirstHead \in Heads /\ Keys \subseteq Nat
  /\ Heads \cap Lists!Nodes = {} /\ NULL \notin Heads /\ NULL \notin Lists!Nodes
BY ListAssumption DEF Lists!ListConstants

Pointers == [Heads \cup Lists!Nodes ->
               [previous : Lists!Nodes \cup {NULL}, next : Lists!Nodes \cup {NULL}]]

(* The place after i in a ring. *)
Following(i, length) == IF i = length THEN 1 ELSE i + 1

(* The nodes of s point at each other, around and back. *)
RingOf(p, s) ==
  \A i \in 1 .. Len(s) :
    /\ p[s[i]].next = s[Following(i, Len(s))]
    /\ p[s[Following(i, Len(s))]].previous = s[i]

FirstOf(s) == IF s = <<>> THEN NULL ELSE s[1]

Unlisted(q, n) == \A h \in Heads : n \notin ToSet(q[h])

(* Every list a sequence without repetition, no node in two of them. *)
SeparateLists ==
  {q \in [Heads -> NodeLists(Lists!Nodes)] :
     \A g, h \in Heads : g # h => ToSet(q[g]) \cap ToSet(q[h]) = {}}

(* The pointers p are the lists q: each head points at the first node of   *)
(* its list, whose nodes are a ring, and a node in no list at itself.      *)
Holds(p, q) ==
  /\ p \in Pointers
  /\ q \in SeparateLists
  /\ \A h \in Heads : p[h].previous = NULL /\ p[h].next = FirstOf(q[h]) /\ RingOf(p, q[h])
  /\ \A n \in Lists!Nodes : Unlisted(q, n) => p[n].next = n /\ p[n].previous = n

(* A list: its length, its nodes and their places. *)
LEMMA ListNodes ==
  ASSUME NEW s \in NodeLists(Lists!Nodes)
  PROVE  /\ Len(s) \in Nat /\ DOMAIN s = 1 .. Len(s) /\ s \in Seq(Lists!Nodes)
         /\ \A i \in 1 .. Len(s) : s[i] \in Lists!Nodes /\ s[i] \in ToSet(s)
         /\ \A i, j \in 1 .. Len(s) : s[i] = s[j] => i = j
         /\ \A n \in ToSet(s) : \E i \in 1 .. Len(s) : s[i] = n
         /\ ToSet(s) \subseteq Lists!Nodes
         /\ s = <<>> <=> Len(s) = 0
         /\ \A i \in 1 .. Len(s) : Following(i, Len(s)) \in 1 .. Len(s)
<1>1. s \in Seq(Lists!Nodes) /\ IsInjective(s)
  BY DEF NodeLists
<1>2. Len(s) \in Nat /\ DOMAIN s = 1 .. Len(s) /\ \A i \in 1 .. Len(s) : s[i] \in Lists!Nodes
  BY <1>1, LenProperties, ElementOfSeq
<1>3. s = <<>> <=> Len(s) = 0
  BY <1>1, EmptySeq
<1>4. \A i, j \in 1 .. Len(s) : s[i] = s[j] => i = j
  BY <1>1, <1>2 DEF IsInjective
<1>5. \A i \in 1 .. Len(s) : Following(i, Len(s)) \in 1 .. Len(s)
  <2>1. \A length \in Nat : \A i \in 1 .. length : Following(i, length) \in 1 .. length
    BY DEF Following
  <2> QED BY <1>2, <2>1
<1> QED BY <1>1, <1>2, <1>3, <1>4, <1>5 DEF ToSet

(* k_connect_nodes, pointer by pointer. *)
LEMMA Connecting ==
  \A p \in Pointers, from, to \in Lists!Nodes, x \in Heads \cup Lists!Nodes :
    /\ Lists!Connected(p, from, to)[x].next = IF x = from THEN to ELSE p[x].next
    /\ Lists!Connected(p, from, to)[x].previous = IF x = to THEN from ELSE p[x].previous
BY DEF Lists!Connected, Pointers

LEMMA ConnectedPointers ==
  \A p \in Pointers, from, to \in Lists!Nodes : Lists!Connected(p, from, to) \in Pointers
BY DEF Lists!Connected, Pointers

(* The head h is made to point at x. *)
LEMMA HeadSet ==
  \A p \in Pointers, h \in Heads, x \in Lists!Nodes \cup {NULL}, y \in Heads \cup Lists!Nodes :
    /\ [p EXCEPT ![h].next = x][y].next = IF y = h THEN x ELSE p[y].next
    /\ [p EXCEPT ![h].next = x][y].previous = p[y].previous
BY DEF Pointers

LEMMA HeadSetPointers ==
  \A p \in Pointers, h \in Heads, x \in Lists!Nodes \cup {NULL} :
    [p EXCEPT ![h].next = x] \in Pointers
BY DEF Pointers

(* A ring is what the pointers of its own nodes say. *)
LEMMA RingKept ==
  ASSUME NEW s \in NodeLists(Lists!Nodes), NEW p, NEW new, RingOf(p, s),
         \A x \in ToSet(s) : new[x].next = p[x].next /\ new[x].previous = p[x].previous
  PROVE  RingOf(new, s)
BY ListNodes DEF RingOf

(* When the list h becomes t by adding, taking out or moving the node n    *)
(* alone, and only pointers in it change, the other lists stay.            *)
LEMMA ListChanged ==
  ASSUME NEW p, NEW q, Holds(p, q), NEW h \in Heads, NEW n \in Lists!Nodes,
         \A g \in Heads \ {h} : n \notin ToSet(q[g]),
         NEW t \in NodeLists(Lists!Nodes),
         ToSet(t) \subseteq ToSet(q[h]) \cup {n}, ToSet(q[h]) \subseteq ToSet(t) \cup {n},
         NEW new \in Pointers,
         \A x \in (Heads \cup Lists!Nodes) \ (ToSet(q[h]) \cup {n, h}) :
           new[x].next = p[x].next /\ new[x].previous = p[x].previous,
         new[h].previous = NULL, new[h].next = FirstOf(t), RingOf(new, t),
         n \notin ToSet(t) => new[n].next = n /\ new[n].previous = n
  PROVE  Holds(new, [q EXCEPT ![h] = t])
<1> DEFINE after == [q EXCEPT ![h] = t]
<1>1. /\ q \in [Heads -> NodeLists(Lists!Nodes)]
      /\ \A g, i \in Heads : g # i => ToSet(q[g]) \cap ToSet(q[i]) = {}
  BY DEF Holds, SeparateLists
<1>2. after \in [Heads -> NodeLists(Lists!Nodes)] /\ after[h] = t
      /\ \A g \in Heads \ {h} : after[g] = q[g]
  BY <1>1
<1> HIDE DEF after
<1>3. \A g \in Heads \ {h} : ToSet(t) \cap ToSet(q[g]) = {}
  BY <1>1
<1>4. \A g, i \in Heads : g # i => ToSet(after[g]) \cap ToSet(after[i]) = {}
  BY <1>1, <1>2, <1>3
<1>5. ASSUME NEW g \in Heads
      PROVE  new[g].previous = NULL /\ new[g].next = FirstOf(after[g]) /\ RingOf(new, after[g])
  <2>1. CASE g = h
    BY <1>2, <2>1
  <2>2. CASE g # h
    <3>1. q[g] \in NodeLists(Lists!Nodes) /\ ToSet(q[g]) \subseteq Lists!Nodes
      BY <1>1, ListNodes
    <3>2. \A x \in ToSet(q[g]) \cup {g} : new[x].next = p[x].next /\ new[x].previous = p[x].previous
      <4>1. ToSet(q[g]) \cap ToSet(q[h]) = {} /\ h \notin Lists!Nodes
        BY <1>1, <2>2, ListSizes
      <4>2. ToSet(q[h]) \subseteq Lists!Nodes /\ g \notin Lists!Nodes
        BY <1>1, ListNodes, ListSizes
      <4> QED BY <2>2, <3>1, <4>1, <4>2
    <3>3. p[g].previous = NULL /\ p[g].next = FirstOf(q[g]) /\ RingOf(p, q[g])
      BY DEF Holds
    <3>4. RingOf(new, q[g])
      BY <3>1, <3>2, <3>3, RingKept
    <3> QED BY <1>2, <2>2, <3>2, <3>3, <3>4
  <2> QED BY <2>1, <2>2
<1>6. ASSUME NEW m \in Lists!Nodes, Unlisted(after, m)
      PROVE  new[m].next = m /\ new[m].previous = m
  <2>1. m \notin ToSet(t) /\ \A g \in Heads \ {h} : m \notin ToSet(q[g])
    BY <1>2, <1>6 DEF Unlisted
  <2>2. CASE m = n
    BY <2>1, <2>2
  <2>3. CASE m # n
    <3>1. Unlisted(q, m)
      BY <2>1, <2>3 DEF Unlisted
    <3>2. p[m].next = m /\ p[m].previous = m
      BY <3>1 DEF Holds
    <3>3. m \notin ToSet(q[h]) /\ m # h
      BY <3>1, ListSizes DEF Unlisted
    <3> QED BY <2>3, <3>2, <3>3
  <2> QED BY <2>2, <2>3
<1> QED BY <1>2, <1>4, <1>5, <1>6 DEF Holds, SeparateLists, after

(* s with n put in at the place k. *)
LEMMA InsertedIs ==
  ASSUME NEW s \in NodeLists(Lists!Nodes), NEW n \in Lists!Nodes, n \notin ToSet(s),
         NEW k \in 1 .. Len(s) + 1
  PROVE  /\ InsertAt(s, k, n) \in NodeLists(Lists!Nodes)
         /\ ToSet(InsertAt(s, k, n)) = ToSet(s) \cup {n}
         /\ Len(InsertAt(s, k, n)) = Len(s) + 1
         /\ \A i \in 1 .. Len(s) + 1 :
              InsertAt(s, k, n)[i] = IF i < k THEN s[i] ELSE IF i = k THEN n ELSE s[i - 1]
<1> DEFINE front == SubSeq(s, 1, k - 1)
           middle == <<n>>
           rest == SubSeq(s, k, Len(s))
           both == front \o middle
           whole == both \o rest
<1>1. InsertAt(s, k, n) = whole
  BY DEF InsertAt
<1>2. Len(s) \in Nat /\ \A i \in 1 .. Len(s) : s[i] \in Lists!Nodes
  BY ListNodes
<1>3. k - 1 \in 0 .. Len(s) /\ k - 1 + 1 = k
  BY <1>2
<1>4. /\ front \in NodeLists(Lists!Nodes) /\ rest \in NodeLists(Lists!Nodes)
      /\ ToSet(front) \cap ToSet(rest) = {}
      /\ ToSet(front) \cup ToSet(rest) = ToSet(s)
  BY <1>3, SplitNodes
<1>5. /\ Len(front) = k - 1 /\ \A i \in 1 .. k - 1 : front[i] = s[i]
      /\ Len(rest) = Len(s) - k + 1 /\ \A i \in 1 .. Len(s) - k + 1 : rest[i] = s[k + i - 1]
  <2> DEFINE j == k - 1
             length == Len(s)
  <2>1. j \in Int /\ k \in Int /\ 1 \in Int /\ length \in Int
    BY <1>2
  <2>2. (\A i \in 1 .. j : s[i] \in Lists!Nodes) /\ (\A i \in k .. length : s[i] \in Lists!Nodes)
    BY <1>2
  <2> HIDE DEF j, length
  <2>3. /\ Len(SubSeq(s, 1, j)) = IF 1 <= j THEN j - 1 + 1 ELSE 0
        /\ \A i \in 1 .. j - 1 + 1 : SubSeq(s, 1, j)[i] = s[1 + i - 1]
    BY <2>1, <2>2, SubSeqProperties
  <2>4. /\ Len(SubSeq(s, k, length)) = IF k <= length THEN length - k + 1 ELSE 0
        /\ \A i \in 1 .. length - k + 1 : SubSeq(s, k, length)[i] = s[k + i - 1]
    BY <2>1, <2>2, SubSeqProperties
  <2>5. j \in Nat /\ (~(1 <= j) => j = 0) /\ (~(k <= length) => length - k + 1 = 0)
    BY <1>3, <1>2 DEF j, length
  <2>6. j - 1 + 1 = j /\ \A i \in 1 .. j : 1 + i - 1 = i
    BY <2>5
  <2>7. Len(SubSeq(s, 1, j)) = j /\ \A i \in 1 .. j : SubSeq(s, 1, j)[i] = s[i]
    BY <2>3, <2>5, <2>6
  <2>8. Len(SubSeq(s, k, length)) = length - k + 1
    BY <2>4, <2>5
  <2> QED BY <2>4, <2>7, <2>8 DEF j, length
<1>6. middle \in NodeLists(Lists!Nodes) /\ ToSet(middle) = {n} /\ Len(middle) = 1 /\ middle[1] = n
  BY SmallNodes
<1> HIDE DEF front, middle, rest
<1>7. ToSet(front) \cap ToSet(middle) = {}
  BY <1>4, <1>6
<1>8. both \in NodeLists(Lists!Nodes) /\ ToSet(both) = ToSet(front) \cup ToSet(middle)
  BY <1>4, <1>6, <1>7, ConcatNodes
<1>9. /\ Len(both) = Len(front) + Len(middle)
      /\ \A i \in 1 .. Len(front) + Len(middle) :
           both[i] = IF i <= Len(front) THEN front[i] ELSE middle[i - Len(front)]
  <2>1. front \in Seq(Lists!Nodes) /\ middle \in Seq(Lists!Nodes)
    BY <1>4, <1>6 DEF NodeLists
  <2> QED BY <2>1, ConcatProperties
<1> HIDE DEF both
<1>10. ToSet(both) \cap ToSet(rest) = {}
  BY <1>4, <1>6, <1>8
<1>11. whole \in NodeLists(Lists!Nodes) /\ ToSet(whole) = ToSet(both) \cup ToSet(rest)
  BY <1>4, <1>8, <1>10, ConcatNodes
<1>12. /\ Len(whole) = Len(both) + Len(rest)
       /\ \A i \in 1 .. Len(both) + Len(rest) :
            whole[i] = IF i <= Len(both) THEN both[i] ELSE rest[i - Len(both)]
  <2>1. both \in Seq(Lists!Nodes) /\ rest \in Seq(Lists!Nodes)
    BY <1>4, <1>8 DEF NodeLists
  <2> QED BY <2>1, ConcatProperties
<1> HIDE DEF whole
<1>13. Len(both) = k /\ Len(both) + Len(rest) = Len(s) + 1
  BY <1>2, <1>3, <1>5, <1>6, <1>9
<1>14. ASSUME NEW i \in 1 .. Len(s) + 1
       PROVE  whole[i] = IF i < k THEN s[i] ELSE IF i = k THEN n ELSE s[i - 1]
  <2>1. CASE i < k
    <3>1. i \in 1 .. k - 1 /\ i <= k
      BY <1>3, <2>1
    <3>2. whole[i] = both[i] /\ both[i] = front[i] /\ front[i] = s[i]
      BY <1>5, <1>6, <1>9, <1>12, <1>13, <2>1, <3>1
    <3> QED BY <2>1, <3>2
  <2>2. CASE i = k
    <3>1. k <= Len(both) /\ ~(k <= k - 1) /\ k - (k - 1) = 1 /\ k \in 1 .. k - 1 + 1
      BY <1>3, <1>13
    <3>2. both[k] = middle[1]
      BY <1>5, <1>6, <1>9, <3>1
    <3>3. whole[k] = both[k]
      BY <1>12, <1>13, <2>2, <3>1
    <3> QED BY <1>6, <2>2, <3>2, <3>3
  <2>3. CASE i > k
    <3>1. ~(i <= k) /\ i - k \in 1 .. Len(s) - k + 1 /\ k + (i - k) - 1 = i - 1 /\ ~(i < k) /\ i # k
      BY <1>2, <1>3, <2>3
    <3>2. whole[i] = rest[i - k]
      BY <1>12, <1>13, <3>1
    <3>3. rest[i - k] = s[i - 1]
      BY <1>5, <3>1
    <3> QED BY <3>1, <3>2, <3>3
  <2> QED BY <1>3, <2>1, <2>2, <2>3
<1> QED BY <1>1, <1>4, <1>6, <1>8, <1>11, <1>12, <1>13, <1>14

(* s with n in front of it, and with n behind it. *)
LEMMA PrependedIs ==
  ASSUME NEW s \in NodeLists(Lists!Nodes), NEW n \in Lists!Nodes, n \notin ToSet(s)
  PROVE  /\ AppendToHead(s, n) \in NodeLists(Lists!Nodes)
         /\ ToSet(AppendToHead(s, n)) = ToSet(s) \cup {n}
         /\ Len(AppendToHead(s, n)) = Len(s) + 1
         /\ \A i \in 1 .. Len(s) + 1 : AppendToHead(s, n)[i] = IF i = 1 THEN n ELSE s[i - 1]
<1> DEFINE first == <<n>>
<1>1. first \in Seq(Lists!Nodes) /\ Len(first) = 1 /\ first[1] = n
  OBVIOUS
<1>2. AppendToHead(s, n) = first \o s
  BY DEF AppendToHead, Cons
<1>3. s \in Seq(Lists!Nodes) /\ Len(s) \in Nat
  BY ListNodes
<1> HIDE DEF first
<1>4. /\ Len(first \o s) = Len(first) + Len(s)
      /\ \A i \in 1 .. Len(first) + Len(s) :
           (first \o s)[i] = IF i <= Len(first) THEN first[i] ELSE s[i - Len(first)]
  BY <1>1, <1>3, ConcatProperties
<1>5. Len(first \o s) = Len(s) + 1
  BY <1>1, <1>3, <1>4
<1>6. \A i \in 1 .. Len(s) + 1 : (first \o s)[i] = IF i = 1 THEN n ELSE s[i - 1]
  BY <1>1, <1>3, <1>4
<1>7. AppendToHead(s, n) \in NodeLists(Lists!Nodes) /\ ToSet(AppendToHead(s, n)) = ToSet(s) \cup {n}
  <2> HIDE DEF first
  <2> QED BY AppendToHeadNodes
<1> QED BY <1>2, <1>5, <1>6, <1>7

LEMMA AppendedIs ==
  ASSUME NEW s \in NodeLists(Lists!Nodes), NEW n \in Lists!Nodes, n \notin ToSet(s)
  PROVE  /\ Append(s, n) \in NodeLists(Lists!Nodes)
         /\ ToSet(Append(s, n)) = ToSet(s) \cup {n}
         /\ Len(Append(s, n)) = Len(s) + 1
         /\ \A i \in 1 .. Len(s) + 1 : Append(s, n)[i] = IF i <= Len(s) THEN s[i] ELSE n
<1>1. s \in Seq(Lists!Nodes) /\ Len(s) \in Nat
  BY ListNodes
<1>2. /\ Len(Append(s, n)) = Len(s) + 1
      /\ \A i \in 1 .. Len(s) : Append(s, n)[i] = s[i]
      /\ Append(s, n)[Len(s) + 1] = n
  BY <1>1, AppendProperties
<1>3. \A i \in 1 .. Len(s) + 1 : Append(s, n)[i] = IF i <= Len(s) THEN s[i] ELSE n
  BY <1>1, <1>2
<1> QED BY <1>2, <1>3, AppendLastNodes DEF AppendLast

-----------------------------------------------------------------------------
(* Part 4: what the pointer operations do to a ring.                       *)

(* n is linked in behind m. *)
LEMMA LinkedAfterPointers ==
  \A p \in Pointers, m, n \in Lists!Nodes :
    p[m].next \in Lists!Nodes => Lists!LinkedAfter(p, m, n) \in Pointers
BY ConnectedPointers, Zenon DEF Lists!LinkedAfter

LEMMA LinkedAfterIs ==
  \A p \in Pointers, m, n \in Lists!Nodes, x \in Heads \cup Lists!Nodes :
    p[m].next \in Lists!Nodes =>
      /\ Lists!LinkedAfter(p, m, n)[x].next =
           IF x = m THEN n ELSE IF x = n THEN p[m].next ELSE p[x].next
      /\ Lists!LinkedAfter(p, m, n)[x].previous =
           IF x = n THEN m ELSE IF x = p[m].next THEN n ELSE p[x].previous
<1> TAKE p \in Pointers, m, n \in Lists!Nodes, x \in Heads \cup Lists!Nodes
<1> DEFINE behind == p[m].next
           one == Lists!Connected(p, n, behind)
           two == Lists!Connected(one, m, n)
<1> HAVE behind \in Lists!Nodes
<1> HIDE DEF behind
<1>1. one \in Pointers
  BY ConnectedPointers, Zenon
<1>2. /\ one[x].next = IF x = n THEN behind ELSE p[x].next
      /\ one[x].previous = IF x = behind THEN n ELSE p[x].previous
  BY Connecting
<1> HIDE DEF one
<1>3. /\ two[x].next = IF x = m THEN n ELSE one[x].next
      /\ two[x].previous = IF x = n THEN m ELSE one[x].previous
  BY <1>1, Connecting
<1>4. Lists!LinkedAfter(p, m, n) = two
  BY DEF Lists!LinkedAfter, one, behind
<1> HIDE DEF two
<1> QED BY <1>2, <1>3, <1>4 DEF behind

(* Behind the node at place k, n stands at place k + 1. *)
LEMMA LinkedIntoRing ==
  ASSUME NEW s \in NodeLists(Lists!Nodes), NEW p \in Pointers, RingOf(p, s),
         NEW n \in Lists!Nodes, n \notin ToSet(s), NEW k \in 1 .. Len(s),
         NEW t \in NodeLists(Lists!Nodes), Len(t) = Len(s) + 1,
         \A i \in 1 .. Len(s) + 1 :
           t[i] = IF i < k + 1 THEN s[i] ELSE IF i = k + 1 THEN n ELSE s[i - 1]
  PROVE  RingOf(Lists!LinkedAfter(p, s[k], n), t)
<1> DEFINE length == Len(s)
           new == Lists!LinkedAfter(p, s[k], n)
           next == s[Following(k, length)]
<1>1. /\ length \in Nat
      /\ \A i \in 1 .. length : s[i] \in Lists!Nodes /\ s[i] # n
      /\ \A i, j \in 1 .. length : s[i] = s[j] => i = j
      /\ \A i \in 1 .. length : Following(i, length) \in 1 .. length
  BY SMTT(30), ListNodes
<1>2. \A i \in 1 .. length : /\ p[s[i]].next = s[Following(i, length)]
                             /\ p[s[Following(i, length)]].previous = s[i]
  BY DEF RingOf
<1>3. p[s[k]].next = next /\ next \in Lists!Nodes
  BY <1>1, <1>2
<1>4. \A x \in Heads \cup Lists!Nodes :
        /\ new[x].next = IF x = s[k] THEN n ELSE IF x = n THEN next ELSE p[x].next
        /\ new[x].previous = IF x = n THEN s[k] ELSE IF x = next THEN n ELSE p[x].previous
  BY <1>1, <1>3, LinkedAfterIs
<1>5. \A i, j \in 1 .. length : Following(i, length) = Following(j, length) => i = j
  BY <1>1 DEF Following
<1> HIDE DEF new
<1>6. ASSUME NEW i \in 1 .. length, i # k
      PROVE  /\ new[s[i]].next = s[Following(i, length)]
             /\ new[s[Following(i, length)]].previous = s[i]
  <2>1. s[i] # s[k] /\ s[i] # n /\ s[i] \in Lists!Nodes
    BY <1>1, <1>6
  <2>2. /\ s[Following(i, length)] # next /\ s[Following(i, length)] # n
        /\ s[Following(i, length)] \in Lists!Nodes
    BY <1>1, <1>5, <1>6
  <2> QED BY <1>2, <1>4, <2>1, <2>2
<1>7. new[s[k]].next = n /\ new[n].previous = s[k] /\ new[n].next = next /\ new[next].previous = n
  BY <1>1, <1>3, <1>4
<1> HIDE DEF length, next
<1>8. ASSUME NEW i \in 1 .. length + 1
      PROVE  /\ new[t[i]].next = t[Following(i, length + 1)]
             /\ new[t[Following(i, length + 1)]].previous = t[i]
  <2>1. \A j \in 1 .. length + 1 :
          t[j] = IF j < k + 1 THEN s[j] ELSE IF j = k + 1 THEN n ELSE s[j - 1]
    BY DEF length
  <2>2. CASE i < k
    <3>1. /\ i \in 1 .. length /\ i # k /\ i < k + 1 /\ i + 1 < k + 1
          /\ i + 1 \in 1 .. length + 1
          /\ Following(i, length) = i + 1 /\ Following(i, length + 1) = i + 1
      BY <1>1, <2>2 DEF Following, length
    <3> QED BY <1>6, <2>1, <3>1
  <2>3. CASE i = k
    <3>1. /\ k < k + 1 /\ k + 1 \in 1 .. length + 1 /\ ~(k + 1 < k + 1)
          /\ Following(i, length + 1) = k + 1
      BY <1>1, <2>3 DEF Following, length
    <3> QED BY <1>7, <2>1, <2>3, <3>1
  <2>4. CASE i = k + 1
    <3>1. t[i] = n
      BY <1>1, <2>1, <2>4 DEF length
    <3>2. t[Following(i, length + 1)] = next
      <4>1. CASE k = length
        <5>1. /\ Following(i, length + 1) = 1 /\ Following(k, length) = 1
              /\ 1 \in 1 .. length + 1 /\ 1 < k + 1
          BY <1>1, <2>4, <4>1 DEF Following, length
        <5> QED BY <2>1, <5>1 DEF next
      <4>2. CASE k # length
        <5>1. /\ Following(i, length + 1) = k + 2 /\ Following(k, length) = k + 1
              /\ k + 2 \in 1 .. length + 1 /\ ~(k + 2 < k + 1) /\ k + 2 # k + 1
              /\ k + 2 - 1 = k + 1
          BY <1>1, <2>4, <4>2 DEF Following, length
        <5> QED BY <2>1, <5>1 DEF next
      <4> QED BY <4>1, <4>2
    <3> QED BY <1>7, <3>1, <3>2
  <2>5. CASE i > k + 1
    <3> DEFINE j == i - 1
    <3>1. j \in 1 .. length /\ j # k /\ t[i] = s[j]
      BY <1>1, <2>1, <2>5 DEF length
    <3>2. t[Following(i, length + 1)] = s[Following(j, length)]
      <4>1. CASE i = length + 1
        <5>1. /\ Following(i, length + 1) = 1 /\ Following(j, length) = 1
              /\ 1 \in 1 .. length + 1 /\ 1 < k + 1
          BY <1>1, <4>1 DEF Following, length
        <5> QED BY <2>1, <5>1
      <4>2. CASE i # length + 1
        <5>1. /\ Following(i, length + 1) = i + 1 /\ Following(j, length) = i
              /\ i + 1 \in 1 .. length + 1 /\ ~(i + 1 < k + 1) /\ i + 1 # k + 1
              /\ i + 1 - 1 = i
          BY SMTT(30), <1>1, <2>5, <4>2 DEF Following, length
        <5> QED BY <2>1, <5>1
      <4> QED BY <4>1, <4>2
    <3> HIDE DEF j
    <3> QED BY <1>6, <3>1, <3>2
  <2> QED BY <1>1, <2>2, <2>3, <2>4, <2>5 DEF length
<1> QED BY <1>8 DEF RingOf, length, new

(* Behind the last node, n stands at place 1 as soon as the head points at *)
(* it.                                                                     *)
LEMMA LinkedBeforeRing ==
  ASSUME NEW s \in NodeLists(Lists!Nodes), Len(s) # 0, NEW p \in Pointers, RingOf(p, s),
         NEW n \in Lists!Nodes, n \notin ToSet(s),
         NEW t \in NodeLists(Lists!Nodes), Len(t) = Len(s) + 1,
         \A i \in 1 .. Len(s) + 1 : t[i] = IF i = 1 THEN n ELSE s[i - 1]
  PROVE  RingOf(Lists!LinkedAfter(p, s[Len(s)], n), t)
<1> DEFINE length == Len(s)
           new == Lists!LinkedAfter(p, s[length], n)
<1>1. /\ length \in Nat \ {0}
      /\ \A i \in 1 .. length : s[i] \in Lists!Nodes /\ s[i] # n
      /\ \A i, j \in 1 .. length : s[i] = s[j] => i = j
      /\ \A i \in 1 .. length : Following(i, length) \in 1 .. length
  BY ListNodes
<1>2. \A i \in 1 .. length : /\ p[s[i]].next = s[Following(i, length)]
                             /\ p[s[Following(i, length)]].previous = s[i]
  BY DEF RingOf
<1>3. \A i \in 1 .. length + 1 : t[i] = IF i = 1 THEN n ELSE s[i - 1]
  OBVIOUS
<1> HIDE DEF length
<1>4. 1 \in 1 .. length /\ length \in 1 .. length /\ Following(length, length) = 1
  BY <1>1 DEF Following
<1>5. p[s[length]].next = s[1]
  BY <1>2, <1>4
<1>6. \A x \in Heads \cup Lists!Nodes :
        /\ new[x].next = IF x = s[length] THEN n ELSE IF x = n THEN s[1] ELSE p[x].next
        /\ new[x].previous = IF x = n THEN s[length] ELSE IF x = s[1] THEN n ELSE p[x].previous
  BY <1>1, <1>4, <1>5, LinkedAfterIs
<1> HIDE DEF new
<1>7. /\ new[s[length]].next = n /\ new[n].previous = s[length]
      /\ new[n].next = s[1] /\ new[s[1]].previous = n
  BY <1>1, <1>4, <1>6
<1>8. ASSUME NEW i \in 1 .. length, i # length
      PROVE  new[s[i]].next = s[i + 1] /\ new[s[i + 1]].previous = s[i]
  <2>1. Following(i, length) = i + 1 /\ i + 1 \in 1 .. length /\ i + 1 # 1
    BY <1>1, <1>8 DEF Following
  <2>2. s[i] # s[length] /\ s[i] # n /\ s[i] \in Lists!Nodes
    BY <1>1, <1>4, <1>8
  <2>3. s[i + 1] # s[1] /\ s[i + 1] # n /\ s[i + 1] \in Lists!Nodes
    BY <1>1, <1>4, <2>1
  <2> QED BY <1>2, <1>6, <2>1, <2>2, <2>3
<1>9. ASSUME NEW i \in 1 .. length + 1
      PROVE  /\ new[t[i]].next = t[Following(i, length + 1)]
             /\ new[t[Following(i, length + 1)]].previous = t[i]
  <2>1. CASE i = 1
    <3>1. Following(1, length + 1) = 2 /\ 2 \in 1 .. length + 1 /\ 2 # 1 /\ 2 - 1 = 1
      BY <1>1 DEF Following
    <3>2. t[1] = n /\ t[2] = s[1]
      BY <1>3, <2>1, <3>1
    <3> QED BY <1>7, <2>1, <3>1, <3>2
  <2>2. CASE i # 1 /\ i # length + 1
    <3> DEFINE j == i - 1
    <3>1. /\ j \in 1 .. length /\ j # length /\ j + 1 = i
          /\ Following(i, length + 1) = i + 1 /\ i + 1 \in 1 .. length + 1 /\ i + 1 # 1
          /\ i + 1 - 1 = i
      BY <1>1, <2>2 DEF Following
    <3>2. t[i] = s[j] /\ t[i + 1] = s[i]
      BY <1>3, <2>2, <3>1
    <3> HIDE DEF j
    <3>3. new[s[j]].next = s[j + 1] /\ new[s[j + 1]].previous = s[j]
      BY <1>8, <3>1
    <3> QED BY <3>1, <3>2, <3>3
  <2>3. CASE i = length + 1
    <3>1. Following(i, length + 1) = 1 /\ 1 \in 1 .. length + 1 /\ i # 1 /\ i - 1 = length
      BY <1>1, <2>3 DEF Following
    <3>2. t[i] = s[length] /\ t[1] = n
      BY <1>3, <3>1
    <3> QED BY <1>7, <3>1, <3>2
  <2> QED BY <2>1, <2>2, <2>3
<1> QED BY <1>9 DEF RingOf, length, new

(* n is taken out of its ring and points at itself. *)
LEMMA UnlinkedPointers ==
  \A p \in Pointers, h \in Heads, n \in Lists!Nodes :
    p[n].previous \in Lists!Nodes /\ p[n].next \in Lists!Nodes =>
      Lists!Unlinked(p, h, n) \in Pointers
<1> TAKE p \in Pointers, h \in Heads, n \in Lists!Nodes
<1> HAVE p[n].previous \in Lists!Nodes /\ p[n].next \in Lists!Nodes
<1> DEFINE alone == p[n].previous = n /\ p[n].next = n
           first == IF alone THEN NULL ELSE p[n].next
           moved == IF p[h].next = n THEN [p EXCEPT ![h].next = first] ELSE p
           out == Lists!Connected(moved, moved[n].previous, moved[n].next)
           new == Lists!Connected(out, n, n)
<1>1. first \in Lists!Nodes \cup {NULL}
  OBVIOUS
<1>2. Lists!Unlinked(p, h, n) = new
  BY DEF Lists!Unlinked
<1> HIDE DEF first
<1>3. h # n
  BY ListSizes
<1>4. moved \in Pointers /\ moved[n].previous = p[n].previous /\ moved[n].next = p[n].next
  BY <1>1, <1>3, HeadSet, HeadSetPointers
<1> HIDE DEF moved
<1>5. out \in Pointers
  <2>1. moved[n].previous \in Lists!Nodes /\ moved[n].next \in Lists!Nodes
    BY <1>4
  <2> QED BY <1>4, <2>1, ConnectedPointers, Zenon
<1> HIDE DEF out
<1>6. new \in Pointers
  BY <1>5, ConnectedPointers, Zenon
<1> HIDE DEF new
<1> QED BY <1>2, <1>6

LEMMA UnlinkedIs ==
  \A p \in Pointers, h \in Heads, n \in Lists!Nodes, x \in Heads \cup Lists!Nodes :
    p[n].previous \in Lists!Nodes /\ p[n].next \in Lists!Nodes =>
      /\ Lists!Unlinked(p, h, n)[x].next =
           IF x = n THEN n
           ELSE IF x = p[n].previous THEN p[n].next
           ELSE IF x = h /\ p[h].next = n
                THEN IF p[n].previous = n /\ p[n].next = n THEN NULL ELSE p[n].next
                ELSE p[x].next
      /\ Lists!Unlinked(p, h, n)[x].previous =
           IF x = n THEN n ELSE IF x = p[n].next THEN p[n].previous ELSE p[x].previous
<1> TAKE p \in Pointers, h \in Heads, n \in Lists!Nodes, x \in Heads \cup Lists!Nodes
<1> HAVE p[n].previous \in Lists!Nodes /\ p[n].next \in Lists!Nodes
<1> DEFINE alone == p[n].previous = n /\ p[n].next = n
           first == IF alone THEN NULL ELSE p[n].next
           moved == IF p[h].next = n THEN [p EXCEPT ![h].next = first] ELSE p
           before == moved[n].previous
           behind == moved[n].next
           out == Lists!Connected(moved, before, behind)
           new == Lists!Connected(out, n, n)
<1>1. first \in Lists!Nodes \cup {NULL}
  OBVIOUS
<1>2. Lists!Unlinked(p, h, n) = new
  BY DEF Lists!Unlinked
<1>3. h # n
  BY ListSizes
<1>4. first = IF p[n].previous = n /\ p[n].next = n THEN NULL ELSE p[n].next
  OBVIOUS
<1> HIDE DEF first
<1>5. moved \in Pointers /\ before = p[n].previous /\ behind = p[n].next
  BY <1>1, <1>3, HeadSet, HeadSetPointers
<1>6. /\ moved[x].next = IF x = h /\ p[h].next = n THEN first ELSE p[x].next
      /\ moved[x].previous = p[x].previous
  BY <1>1, HeadSet
<1>7. before \in Lists!Nodes /\ behind \in Lists!Nodes
  BY <1>5
<1> HIDE DEF moved, before, behind
<1>8. out \in Pointers
  BY <1>5, <1>7, ConnectedPointers, Zenon
<1>9. /\ out[x].next = IF x = before THEN behind ELSE moved[x].next
      /\ out[x].previous = IF x = behind THEN before ELSE moved[x].previous
  BY <1>5, <1>7, Connecting
<1> HIDE DEF out
<1>10. /\ new[x].next = IF x = n THEN n ELSE out[x].next
       /\ new[x].previous = IF x = n THEN n ELSE out[x].previous
  BY <1>8, Connecting
<1> HIDE DEF new
<1> QED BY <1>2, <1>4, <1>5, <1>6, <1>9, <1>10

(* The place before k in a ring, and the places of what is left of a ring  *)
(* without the node at place k.                                            *)
Preceding(k, length) == IF k = 1 THEN length ELSE k - 1

Skipping(i, k) == IF i < k THEN i ELSE i + 1

LEMMA RingPlaces ==
  \A length \in Nat \ {0} : \A k \in 1 .. length :
    /\ Preceding(k, length) \in 1 .. length /\ Following(Preceding(k, length), length) = k
    /\ \A i, j \in 1 .. length : Following(i, length) = Following(j, length) => i = j
    /\ Following(k, length) = k <=> length = 1
    /\ \A i \in 1 .. length - 1 :
         /\ Skipping(i, k) \in 1 .. length /\ Skipping(i, k) # k
         /\ Following(i, length - 1) \in 1 .. length - 1
         /\ Skipping(Following(i, length - 1), k) =
              IF Skipping(i, k) = Preceding(k, length)
              THEN Following(k, length) ELSE Following(Skipping(i, k), length)
<1> TAKE length \in Nat \ {0}
<1> TAKE k \in 1 .. length
<1>1. Preceding(k, length) \in 1 .. length /\ Following(Preceding(k, length), length) = k
  BY DEF Preceding, Following
<1>2. \A i, j \in 1 .. length : Following(i, length) = Following(j, length) => i = j
  BY DEF Following
<1>3. Following(k, length) = k <=> length = 1
  BY DEF Following
<1>4. ASSUME NEW i \in 1 .. length - 1
      PROVE  /\ Skipping(i, k) \in 1 .. length /\ Skipping(i, k) # k
             /\ Following(i, length - 1) \in 1 .. length - 1
             /\ Skipping(Following(i, length - 1), k) =
                  IF Skipping(i, k) = Preceding(k, length)
                  THEN Following(k, length) ELSE Following(Skipping(i, k), length)
  BY DEF Preceding, Following, Skipping
<1> QED BY <1>1, <1>2, <1>3, <1>4

(* Without the node at place k the ring closes over it. *)
LEMMA UnlinkedFromRing ==
  ASSUME NEW s \in NodeLists(Lists!Nodes), NEW p \in Pointers, RingOf(p, s),
         NEW h \in Heads, NEW k \in 1 .. Len(s),
         NEW t \in NodeLists(Lists!Nodes), Len(t) = Len(s) - 1,
         \A i \in 1 .. Len(s) - 1 : t[i] = IF i < k THEN s[i] ELSE s[i + 1]
  PROVE  RingOf(Lists!Unlinked(p, h, s[k]), t)
<1> DEFINE length == Len(s)
           n == s[k]
           new == Lists!Unlinked(p, h, n)
           before == Preceding(k, length)
           behind == Following(k, length)
<1>1. /\ length \in Nat \ {0} /\ k \in 1 .. length
      /\ \A i \in 1 .. length : s[i] \in Lists!Nodes
      /\ \A i, j \in 1 .. length : s[i] = s[j] => i = j
      /\ \A i \in 1 .. length : Following(i, length) \in 1 .. length
  <2>1. length \in Nat \ {0} /\ k \in 1 .. length
    BY ListNodes
  <2> QED BY <2>1, ListNodes
<1>2. \A i \in 1 .. length : /\ p[s[i]].next = s[Following(i, length)]
                             /\ p[s[Following(i, length)]].previous = s[i]
  BY DEF RingOf
<1>3. \A i \in 1 .. length - 1 : t[i] = s[Skipping(i, k)]
  BY DEF Skipping
<1> HIDE DEF length
<1>4. /\ before \in 1 .. length /\ Following(before, length) = k /\ behind \in 1 .. length
      /\ \A i, j \in 1 .. length : Following(i, length) = Following(j, length) => i = j
  BY <1>1, RingPlaces
<1>5. /\ p[n].next = s[behind] /\ p[n].previous = s[before]
      /\ s[behind] \in Lists!Nodes /\ s[before] \in Lists!Nodes /\ n \in Lists!Nodes
  BY <1>1, <1>2, <1>4
<1>6. ASSUME NEW x \in Lists!Nodes, x # n
      PROVE  /\ new[x].next = IF x = s[before] THEN s[behind] ELSE p[x].next
             /\ new[x].previous = IF x = s[behind] THEN s[before] ELSE p[x].previous
  <2>1. x # h /\ x \in Heads \cup Lists!Nodes
    BY ListSizes
  <2> QED BY <1>5, <1>6, <2>1, UnlinkedIs
<1> HIDE DEF new, n, before, behind
<1>7. ASSUME NEW j \in 1 .. length, j # k, j # before
      PROVE  /\ new[s[j]].next = s[Following(j, length)]
             /\ new[s[Following(j, length)]].previous = s[j]
  <2>1. s[j] # n /\ s[j] # s[before] /\ s[j] \in Lists!Nodes
    BY <1>1, <1>4, <1>7 DEF n
  <2>2. Following(j, length) # k /\ Following(j, length) # behind
    BY <1>1, <1>4, <1>7 DEF behind
  <2>3. /\ s[Following(j, length)] # n /\ s[Following(j, length)] # s[behind]
        /\ s[Following(j, length)] \in Lists!Nodes
    BY <1>1, <1>4, <2>2 DEF n
  <2> QED BY <1>2, <1>6, <2>1, <2>3
<1>8. ASSUME length # 1
      PROVE  new[s[before]].next = s[behind] /\ new[s[behind]].previous = s[before]
  <2>1. before # k /\ behind # k
    BY <1>1, <1>4, <1>8, RingPlaces DEF behind
  <2>2. s[before] # n /\ s[behind] # n
    BY <1>1, <1>4, <2>1 DEF n
  <2> QED BY <1>5, <1>6, <2>2
<1>9. ASSUME NEW i \in 1 .. length - 1
      PROVE  /\ new[t[i]].next = t[Following(i, length - 1)]
             /\ new[t[Following(i, length - 1)]].previous = t[i]
  <2> DEFINE j == Skipping(i, k)
             f == Following(i, length - 1)
  <2>1. length # 1
    BY <1>1
  <2>2. /\ j \in 1 .. length /\ j # k /\ f \in 1 .. length - 1
        /\ Skipping(f, k) = IF j = before THEN behind ELSE Following(j, length)
    BY <1>1, RingPlaces DEF before, behind
  <2>3. t[i] = s[j] /\ t[f] = s[Skipping(f, k)]
    BY <1>3, <2>2
  <2> HIDE DEF j, f
  <2>4. CASE j = before
    BY <1>8, <2>1, <2>2, <2>3, <2>4 DEF f
  <2>5. CASE j # before
    BY <1>7, <2>2, <2>3, <2>5 DEF f
  <2> QED BY <2>4, <2>5
<1> QED BY <1>9 DEF RingOf, length, new, n

-----------------------------------------------------------------------------
(* Part 5: what the pointer operations do to the lists.                    *)

LEMMA HeldList ==
  ASSUME NEW p, NEW q, Holds(p, q), NEW h \in Heads
  PROVE  /\ p \in Pointers /\ q[h] \in NodeLists(Lists!Nodes) /\ RingOf(p, q[h])
         /\ p[h].previous = NULL /\ p[h].next = FirstOf(q[h])
         /\ \A g \in Heads \ {h} : \A n \in ToSet(q[h]) : n \notin ToSet(q[g])
BY DEF Holds, SeparateLists

(* The neighbours of a node of a list are nodes of the list, and point     *)
(* back.                                                                   *)
LEMMA RingNeighbours ==
  ASSUME NEW s \in NodeLists(Lists!Nodes), NEW p, RingOf(p, s)
  PROVE  \A k \in 1 .. Len(s) :
           /\ p[s[k]].next = s[Following(k, Len(s))]
           /\ p[s[k]].previous = s[Preceding(k, Len(s))]
           /\ Following(k, Len(s)) \in 1 .. Len(s) /\ Preceding(k, Len(s)) \in 1 .. Len(s)
           /\ p[p[s[k]].next].previous = s[k] /\ p[p[s[k]].previous].next = s[k]
<1> TAKE k \in 1 .. Len(s)
<1> DEFINE length == Len(s)
<1>1. length \in Nat \ {0} /\ k \in 1 .. length
  BY ListNodes
<1>2. \A i \in 1 .. length : /\ p[s[i]].next = s[Following(i, length)]
                             /\ p[s[Following(i, length)]].previous = s[i]
  BY DEF RingOf
<1>3. \A i \in 1 .. length : Following(i, length) \in 1 .. length
  BY ListNodes
<1> HIDE DEF length
<1>4. Preceding(k, length) \in 1 .. length /\ Following(Preceding(k, length), length) = k
  BY <1>1, RingPlaces
<1> QED BY <1>1, <1>2, <1>3, <1>4 DEF length

(* Every node points at nodes, which point back. *)
LEMMA HeldPointers ==
  ASSUME NEW p, NEW q, Holds(p, q), NEW n \in Lists!Nodes
  PROVE  /\ p[n].next \in Lists!Nodes /\ p[n].previous \in Lists!Nodes
         /\ p[p[n].next].previous = n /\ p[p[n].previous].next = n
<1>1. CASE Unlisted(q, n)
  BY <1>1 DEF Holds
<1>2. CASE ~Unlisted(q, n)
  <2>1. PICK h \in Heads : n \in ToSet(q[h])
    BY <1>2 DEF Unlisted
  <2> DEFINE s == q[h]
             length == Len(s)
  <2>2. s \in NodeLists(Lists!Nodes) /\ RingOf(p, s) /\ n \in ToSet(s)
    BY <2>1, HeldList
  <2> HIDE DEF s
  <2>3. PICK k \in 1 .. length : s[k] = n
    BY <2>2, ListNodes
  <2>4. \A i \in 1 .. length : s[i] \in Lists!Nodes
    BY <2>2, ListNodes
  <2>5. \A i \in 1 .. length :
          /\ p[s[i]].next = s[Following(i, length)] /\ p[s[i]].previous = s[Preceding(i, length)]
          /\ Following(i, length) \in 1 .. length /\ Preceding(i, length) \in 1 .. length
          /\ p[p[s[i]].next].previous = s[i] /\ p[p[s[i]].previous].next = s[i]
    BY <2>2, RingNeighbours
  <2> HIDE DEF length
  <2> QED BY <2>3, <2>4, <2>5
<1> QED BY <1>1, <1>2

(* k_remove_node_from_list removes n from the list it is in. *)
LEMMA UnlinkedHolds ==
  ASSUME NEW p, NEW q, Holds(p, q), NEW h \in Heads, NEW n \in ToSet(q[h])
  PROVE  Holds(Lists!Unlinked(p, h, n), [q EXCEPT ![h] = RemoveNode(q[h], n)])
<1> DEFINE s == q[h]
           t == RemoveNode(s, n)
           k == Position(s, n)
           length == Len(s)
           new == Lists!Unlinked(p, h, n)
<1>1. /\ p \in Pointers /\ s \in NodeLists(Lists!Nodes) /\ RingOf(p, s)
      /\ p[h].previous = NULL /\ p[h].next = FirstOf(s)
      /\ \A g \in Heads \ {h} : n \notin ToSet(q[g])
  BY HeldList
<1> HIDE DEF s
<1>2. n \in ToSet(s)
  BY DEF s
<1>3. /\ length \in Nat /\ k \in 1 .. length /\ s[k] = n /\ n \in Lists!Nodes
      /\ \A i \in 1 .. length : s[i] \in ToSet(s)
      /\ \A i, j \in 1 .. length : s[i] = s[j] => i = j
      /\ s # <<>> /\ ToSet(s) \subseteq Lists!Nodes
  <2>1. k \in 1 .. Len(s) /\ s[k] = n
    BY <1>1, <1>2, PlaceOf
  <2>2. /\ Len(s) \in Nat
        /\ \A i \in 1 .. Len(s) : s[i] \in ToSet(s)
        /\ \A i, j \in 1 .. Len(s) : s[i] = s[j] => i = j
        /\ s = <<>> <=> Len(s) = 0
        /\ ToSet(s) \subseteq Lists!Nodes
    BY <1>1, ListNodes
  <2> HIDE DEF k
  <2>3. s # <<>>
    BY <2>1, <2>2
  <2> QED BY <1>2, <2>1, <2>2, <2>3
<1>4. /\ t \in NodeLists(Lists!Nodes) /\ ToSet(t) = ToSet(s) \ {n} /\ Len(t) = length - 1
      /\ \A i \in 1 .. length - 1 : t[i] = IF i < k THEN s[i] ELSE s[i + 1]
  BY <1>1, <1>2, RemovedIs
<1> HIDE DEF t, k
<1>5. RingOf(new, t)
  BY <1>1, <1>3, <1>4, UnlinkedFromRing
<1>6. /\ p[n].next = s[Following(k, length)] /\ p[n].previous = s[Preceding(k, length)]
      /\ Following(k, length) \in 1 .. length /\ Preceding(k, length) \in 1 .. length
  <2>1. \A i \in 1 .. length :
          /\ p[s[i]].next = s[Following(i, length)] /\ p[s[i]].previous = s[Preceding(i, length)]
          /\ Following(i, length) \in 1 .. length /\ Preceding(i, length) \in 1 .. length
    BY <1>1, RingNeighbours
  <2> QED BY <1>3, <2>1
<1>7. /\ p[n].next \in Lists!Nodes /\ p[n].previous \in Lists!Nodes
      /\ p[n].next \in ToSet(s) /\ p[n].previous \in ToSet(s)
  BY <1>3, <1>6
<1>8. new \in Pointers
  BY <1>1, <1>3, <1>7, UnlinkedPointers
<1>9. \A x \in (Heads \cup Lists!Nodes) \ (ToSet(s) \cup {n, h}) :
        new[x].next = p[x].next /\ new[x].previous = p[x].previous
  <2> TAKE x \in (Heads \cup Lists!Nodes) \ (ToSet(s) \cup {n, h})
  <2>1. x # n /\ x # h /\ x # p[n].next /\ x # p[n].previous
    BY <1>7
  <2> QED BY <1>1, <1>3, <1>7, <2>1, UnlinkedIs
<1>10. new[n].next = n /\ new[n].previous = n
  BY <1>1, <1>3, <1>7, UnlinkedIs
<1>11. h # n /\ h # p[n].previous /\ h # p[n].next
  BY <1>3, <1>7, ListSizes
<1>12. /\ new[h].previous = NULL
       /\ new[h].next = IF p[h].next = n
                        THEN IF p[n].previous = n /\ p[n].next = n THEN NULL ELSE p[n].next
                        ELSE p[h].next
  BY <1>1, <1>3, <1>7, <1>11, UnlinkedIs
<1> HIDE DEF new, length
<1>13. p[h].next = s[1] /\ 1 \in 1 .. length
  BY <1>1, <1>3 DEF FirstOf
<1>14. t = <<>> <=> length = 1
  <2>1. t = <<>> <=> Len(t) = 0
    BY <1>4, ListNodes
  <2> QED BY <1>3, <1>4, <2>1
<1>15. new[h].next = FirstOf(t)
  <2>1. CASE length = 1
    <3>1. k = 1 /\ Following(k, length) = 1 /\ Preceding(k, length) = 1
      BY <1>3, <2>1 DEF Following, Preceding
    <3> QED BY <1>3, <1>6, <1>12, <1>13, <1>14, <2>1, <3>1 DEF FirstOf
  <2>2. CASE length # 1 /\ k = 1
    <3>1. Following(k, length) = 2 /\ 2 \in 1 .. length /\ 1 \in 1 .. length - 1 /\ ~(1 < k) /\ 1 + 1 = 2
      BY <1>3, <2>2 DEF Following
    <3>2. t[1] = s[2] /\ s[2] # s[1]
      BY <1>3, <1>4, <1>13, <3>1
    <3> QED BY <1>3, <1>6, <1>12, <1>13, <1>14, <2>2, <3>1, <3>2 DEF FirstOf
  <2>3. CASE length # 1 /\ k # 1
    <3>1. s[1] # n /\ 1 < k /\ 1 \in 1 .. length - 1
      BY <1>3, <1>13, <2>3
    <3>2. t[1] = s[1]
      BY <1>4, <3>1
    <3> QED BY <1>12, <1>13, <1>14, <2>3, <3>1, <3>2 DEF FirstOf
  <2> QED BY <2>1, <2>2, <2>3
<1>16. ToSet(t) \subseteq ToSet(s) \cup {n} /\ ToSet(s) \subseteq ToSet(t) \cup {n}
  BY <1>4
<1> QED
  BY <1>1, <1>3, <1>4, <1>5, <1>8, <1>9, <1>10, <1>12, <1>15, <1>16, ListChanged DEF s, t, new

(* n is linked in behind the node at place k of a list. *)
LEMMA LinkedHolds ==
  ASSUME NEW p, NEW q, Holds(p, q), NEW h \in Heads, NEW n \in Lists!Nodes, Unlisted(q, n),
         NEW k \in 1 .. Len(q[h]), NEW t \in NodeLists(Lists!Nodes),
         ToSet(t) = ToSet(q[h]) \cup {n}, Len(t) = Len(q[h]) + 1,
         \A i \in 1 .. Len(q[h]) + 1 :
           t[i] = IF i < k + 1 THEN q[h][i] ELSE IF i = k + 1 THEN n ELSE q[h][i - 1]
  PROVE  Holds(Lists!LinkedAfter(p, q[h][k], n), [q EXCEPT ![h] = t])
<1> DEFINE s == q[h]
           length == Len(s)
           new == Lists!LinkedAfter(p, s[k], n)
<1>1. /\ p \in Pointers /\ s \in NodeLists(Lists!Nodes) /\ RingOf(p, s)
      /\ p[h].previous = NULL /\ p[h].next = FirstOf(s)
  BY HeldList
<1>2. /\ k \in 1 .. length /\ ToSet(t) = ToSet(s) \cup {n} /\ Len(t) = length + 1
      /\ \A i \in 1 .. length + 1 :
           t[i] = IF i < k + 1 THEN s[i] ELSE IF i = k + 1 THEN n ELSE s[i - 1]
  OBVIOUS
<1>3. (\A g \in Heads \ {h} : n \notin ToSet(q[g])) /\ n \notin ToSet(s)
  BY DEF Unlisted
<1> HIDE DEF s
<1>4. /\ length \in Nat
      /\ \A i \in 1 .. length : s[i] \in ToSet(s)
      /\ s = <<>> <=> length = 0
      /\ ToSet(s) \subseteq Lists!Nodes
  BY <1>1, ListNodes
<1>5. RingOf(new, t)
  BY <1>1, <1>2, <1>3, LinkedIntoRing
<1>6. p[s[k]].next \in ToSet(s)
  <2> HIDE DEF new
  <2>1. \A i \in 1 .. length :
          /\ p[s[i]].next = s[Following(i, length)] /\ p[s[i]].previous = s[Preceding(i, length)]
          /\ Following(i, length) \in 1 .. length /\ Preceding(i, length) \in 1 .. length
    BY <1>1, RingNeighbours
  <2> QED BY <1>2, <1>4, <2>1
<1>7. s[k] \in ToSet(s) /\ s[k] \in Lists!Nodes /\ p[s[k]].next \in Lists!Nodes
  BY <1>2, <1>4, <1>6
<1>8. new \in Pointers
  BY <1>1, <1>7, LinkedAfterPointers
<1>9. \A x \in (Heads \cup Lists!Nodes) \ (ToSet(s) \cup {n}) :
        new[x].next = p[x].next /\ new[x].previous = p[x].previous
  <2> TAKE x \in (Heads \cup Lists!Nodes) \ (ToSet(s) \cup {n})
  <2>1. x # n /\ x # s[k] /\ x # p[s[k]].next
    BY <1>6, <1>7
  <2> QED BY <1>1, <1>7, <2>1, LinkedAfterIs
<1> HIDE DEF new
<1>10. h \notin ToSet(s) /\ h # n
  BY <1>4, ListSizes
<1>11. new[h].previous = NULL /\ new[h].next = FirstOf(s)
  BY <1>1, <1>9, <1>10
<1>12. FirstOf(t) = FirstOf(s)
  <2>1. 1 \in 1 .. length + 1 /\ 1 < k + 1 /\ length # 0
    BY <1>2, <1>4
  <2>2. t[1] = s[1] /\ s # <<>>
    BY <1>2, <1>4, <2>1
  <2>3. t # <<>>
    <3>1. Len(t) # 0
      BY <1>2, <1>4
    <3> QED BY <3>1
  <2> QED BY <2>2, <2>3 DEF FirstOf
<1>13. n \in ToSet(t) /\ ToSet(t) \subseteq ToSet(s) \cup {n} /\ ToSet(s) \subseteq ToSet(t) \cup {n}
  BY <1>2
<1>14. Holds(new, [q EXCEPT ![h] = t])
  BY SMTT(30), <1>3, <1>5, <1>8, <1>9, <1>11, <1>12, <1>13, ListChanged DEF s
<1> QED BY <1>14 DEF new, s

(* n becomes the first node of a list, or the only one. *)
LEMMA PrependedHolds ==
  ASSUME NEW p, NEW q, Holds(p, q), NEW h \in Heads, NEW n \in Lists!Nodes, Unlisted(q, n),
         q[h] # <<>>
  PROVE  Holds(Lists!LinkedAfter([p EXCEPT ![h].next = n], q[h][Len(q[h])], n),
               [q EXCEPT ![h] = AppendToHead(q[h], n)])
<1> DEFINE s == q[h]
           length == Len(s)
           t == AppendToHead(s, n)
           set == [p EXCEPT ![h].next = n]
           last == s[length]
           new == Lists!LinkedAfter(set, last, n)
<1>1. /\ p \in Pointers /\ s \in NodeLists(Lists!Nodes) /\ RingOf(p, s)
      /\ p[h].previous = NULL /\ s # <<>>
  BY HeldList
<1>2. (\A g \in Heads \ {h} : n \notin ToSet(q[g])) /\ n \notin ToSet(s)
  BY DEF Unlisted
<1> HIDE DEF s
<1>3. /\ length \in Nat
      /\ \A i \in 1 .. length : s[i] \in ToSet(s)
      /\ length # 0 /\ ToSet(s) \subseteq Lists!Nodes
  BY <1>1, ListNodes
<1>4. /\ t \in NodeLists(Lists!Nodes) /\ ToSet(t) = ToSet(s) \cup {n} /\ Len(t) = length + 1
      /\ \A i \in 1 .. length + 1 : t[i] = IF i = 1 THEN n ELSE s[i - 1]
  BY <1>1, <1>2, PrependedIs
<1> HIDE DEF t
<1>5. h \notin ToSet(s) /\ h # n
  BY <1>3, ListSizes
<1>6. /\ set \in Pointers
      /\ \A x \in Heads \cup Lists!Nodes :
           /\ set[x].next = IF x = h THEN n ELSE p[x].next
           /\ set[x].previous = p[x].previous
  BY <1>1, HeadSet, HeadSetPointers
<1> HIDE DEF set
<1>7. RingOf(set, s)
  <2>1. \A x \in ToSet(s) : set[x].next = p[x].next /\ set[x].previous = p[x].previous
    BY <1>3, <1>5, <1>6
  <2> QED BY <1>1, <2>1, RingKept
<1>8. RingOf(new, t)
  BY <1>1, <1>2, <1>3, <1>4, <1>6, <1>7, LinkedBeforeRing
<1>9. last \in ToSet(s) /\ set[last].next \in ToSet(s)
  <2>1. \A i \in 1 .. length :
          set[s[i]].next = s[Following(i, length)] /\ Following(i, length) \in 1 .. length
    BY <1>1, <1>7, RingNeighbours
  <2>2. length \in 1 .. length
    BY <1>3
  <2> QED BY <1>3, <2>1, <2>2
<1> HIDE DEF last
<1>10. last \in Lists!Nodes /\ set[last].next \in Lists!Nodes
  BY <1>3, <1>9
<1>11. new \in Pointers
  BY <1>6, <1>10, LinkedAfterPointers
<1>12. \A x \in (Heads \cup Lists!Nodes) \ (ToSet(s) \cup {n}) :
        new[x].next = set[x].next /\ new[x].previous = set[x].previous
  <2> TAKE x \in (Heads \cup Lists!Nodes) \ (ToSet(s) \cup {n})
  <2>1. x # n /\ x # last /\ x # set[last].next
    BY <1>9
  <2> QED BY <1>6, <1>10, <2>1, LinkedAfterIs
<1> HIDE DEF new
<1>13. /\ \A x \in (Heads \cup Lists!Nodes) \ (ToSet(s) \cup {n, h}) :
            new[x].next = p[x].next /\ new[x].previous = p[x].previous
       /\ new[h].previous = NULL /\ new[h].next = n
  BY <1>1, <1>5, <1>6, <1>12
<1>14. FirstOf(t) = n
  <2>1. 1 \in 1 .. length + 1 /\ Len(t) # 0
    BY <1>3, <1>4
  <2>2. t[1] = n /\ t # <<>>
    BY <1>4, <2>1
  <2> QED BY <2>2 DEF FirstOf
<1>15. n \in ToSet(t) /\ ToSet(t) \subseteq ToSet(s) \cup {n} /\ ToSet(s) \subseteq ToSet(t) \cup {n}
  BY <1>4
<1>16. Holds(new, [q EXCEPT ![h] = t])
  BY <1>2, <1>4, <1>8, <1>11, <1>13, <1>14, <1>15, ListChanged DEF s
<1> QED BY <1>16 DEF new, set, last, length, t, s

LEMMA OnlyHolds ==
  ASSUME NEW p, NEW q, Holds(p, q), NEW h \in Heads, NEW n \in Lists!Nodes, Unlisted(q, n),
         q[h] = <<>>
  PROVE  Holds([p EXCEPT ![h].next = n], [q EXCEPT ![h] = <<n>>])
<1> DEFINE t == <<n>>
           new == [p EXCEPT ![h].next = n]
<1>1. p \in Pointers /\ p[h].previous = NULL
  BY HeldList
<1>2. p[n].next = n /\ p[n].previous = n
  BY DEF Holds
<1>3. \A g \in Heads \ {h} : n \notin ToSet(q[g])
  BY DEF Unlisted
<1>4. /\ new \in Pointers
      /\ \A x \in Heads \cup Lists!Nodes :
           /\ new[x].next = IF x = h THEN n ELSE p[x].next
           /\ new[x].previous = p[x].previous
  BY <1>1, HeadSet, HeadSetPointers
<1>5. t \in NodeLists(Lists!Nodes) /\ ToSet(t) = {n} /\ Len(t) = 1 /\ t[1] = n /\ t # <<>>
  BY SmallNodes
<1>6. ToSet(q[h]) = {}
  BY SmallNodes
<1> HIDE DEF t, new
<1>7. h # n
  BY ListSizes
<1>8. RingOf(new, t)
  BY <1>2, <1>4, <1>5, <1>7 DEF RingOf, Following
<1>9. FirstOf(t) = n
  BY <1>5 DEF FirstOf
<1>10. /\ \A x \in (Heads \cup Lists!Nodes) \ (ToSet(q[h]) \cup {n, h}) :
            new[x].next = p[x].next /\ new[x].previous = p[x].previous
       /\ new[h].previous = NULL /\ new[h].next = n
  BY <1>1, <1>4
<1>11. n \in ToSet(t) /\ ToSet(t) \subseteq ToSet(q[h]) \cup {n} /\ ToSet(q[h]) \subseteq ToSet(t) \cup {n}
  BY <1>5, <1>6
<1>12. Holds(new, [q EXCEPT ![h] = t])
  BY SMTT(30), <1>3, <1>4, <1>5, <1>8, <1>9, <1>10, <1>11, ListChanged
<1> QED BY <1>12 DEF new, t

(* k_append_node_to_list, given a node m of the list or its head. *)
LEMMA AppendedAfterHolds ==
  ASSUME NEW p, NEW q, Holds(p, q), NEW h \in Heads, NEW n \in Lists!Nodes, Unlisted(q, n),
         NEW m \in ToSet(q[h])
  PROVE  Holds(Lists!Appended(p, m, n), [q EXCEPT ![h] = AppendAfter(q[h], m, n)])
<1> DEFINE s == q[h]
           k == Position(s, m)
           place == k + 1
           t == InsertAt(s, place, n)
<1>1. s \in NodeLists(Lists!Nodes) /\ m \in ToSet(s)
  BY HeldList
<1>2. n \notin ToSet(s)
  BY DEF Unlisted
<1> HIDE DEF s
<1>3. k \in 1 .. Len(s) /\ s[k] = m
  BY <1>1, PlaceOf
<1>4. m \in Lists!Nodes /\ Len(s) \in Nat
  BY <1>1, ListNodes
<1> HIDE DEF k
<1>5. place \in 1 .. Len(s) + 1
  BY <1>3, <1>4
<1>6. p[m].previous # NULL
  BY <1>4, HeldPointers, ListSizes
<1>7. Lists!Appended(p, m, n) = Lists!LinkedAfter(p, s[k], n)
  BY <1>3, <1>6 DEF Lists!Appended
<1> HIDE DEF place
<1>8. /\ t \in NodeLists(Lists!Nodes) /\ ToSet(t) = ToSet(s) \cup {n} /\ Len(t) = Len(s) + 1
      /\ \A i \in 1 .. Len(s) + 1 :
           t[i] = IF i < place THEN s[i] ELSE IF i = place THEN n ELSE s[i - 1]
  BY <1>1, <1>2, <1>5, InsertedIs
<1> HIDE DEF t
<1>9. \A i \in 1 .. Len(s) + 1 :
        t[i] = IF i < k + 1 THEN s[i] ELSE IF i = k + 1 THEN n ELSE s[i - 1]
  BY <1>8 DEF place
<1>10. Holds(Lists!LinkedAfter(p, s[k], n), [q EXCEPT ![h] = t])
  BY <1>3, <1>8, <1>9, LinkedHolds DEF s
<1> QED BY <1>7, <1>10 DEF AppendAfter, t, place, k, s

LEMMA AppendedToHeadHolds ==
  ASSUME NEW p, NEW q, Holds(p, q), NEW h \in Heads, NEW n \in Lists!Nodes, Unlisted(q, n)
  PROVE  Holds(Lists!Appended(p, h, n), [q EXCEPT ![h] = AppendToHead(q[h], n)])
<1> DEFINE s == q[h]
           length == Len(s)
<1>1. /\ s \in NodeLists(Lists!Nodes) /\ RingOf(p, s)
      /\ p[h].previous = NULL /\ p[h].next = FirstOf(s)
  BY HeldList
<1>2. CASE s = <<>>
  <2>1. Lists!Appended(p, h, n) = [p EXCEPT ![h].next = n]
    BY <1>1, <1>2 DEF Lists!Appended, FirstOf
  <2>2. AppendToHead(s, n) = <<n>>
    BY <1>2 DEF AppendToHead, Cons
  <2>3. Holds([p EXCEPT ![h].next = n], [q EXCEPT ![h] = <<n>>])
    BY <1>2, OnlyHolds
  <2> QED BY <2>1, <2>2, <2>3
<1>3. CASE s # <<>>
  <2> HIDE DEF s
  <2>1. /\ length \in Nat \ {0} /\ \A i \in 1 .. length : s[i] \in Lists!Nodes
    BY <1>1, <1>3, ListNodes
  <2>2. \A i \in 1 .. length :
          /\ p[s[i]].next = s[Following(i, length)] /\ p[s[i]].previous = s[Preceding(i, length)]
          /\ Following(i, length) \in 1 .. length /\ Preceding(i, length) \in 1 .. length
    BY <1>1, RingNeighbours
  <2> HIDE DEF length
  <2>3. p[h].next = s[1] /\ s[1] # NULL /\ p[s[1]].previous = s[length]
    BY <1>1, <1>3, <2>1, <2>2, ListSizes DEF FirstOf, Preceding
  <2>4. Lists!Appended(p, h, n) = Lists!LinkedAfter([p EXCEPT ![h].next = n], s[length], n)
    BY <1>1, <2>3 DEF Lists!Appended
  <2> QED BY <1>3, <2>4, PrependedHolds DEF s, length
<1> QED BY <1>2, <1>3

(* k_insert_sorted, whose loop follows the list that Walk finds. *)
LEMMA SortedHolds ==
  ASSUME NEW p, NEW q, Holds(p, q), NEW h \in Heads, NEW n \in Lists!Nodes, Unlisted(q, n),
         Lists!Walk(h) = q[h], NEW keys \in [Lists!Nodes -> Nat]
  PROVE  Holds(Lists!Sorted(p, h, n, keys), [q EXCEPT ![h] = InsertSorted(q[h], n, keys)])
<1> DEFINE s == q[h]
           length == Len(s)
           stops == {i \in DOMAIN s : keys[s[i]] > keys[n]}
           larger == {i \in DOMAIN s : keys[n] < keys[s[i]]}
           current == IF stops = {} THEN p[h].next ELSE s[Lists!Min(stops)]
           k == Position(s, p[current].previous)
           t == InsertSorted(s, n, keys)
<1>1. /\ s \in NodeLists(Lists!Nodes) /\ RingOf(p, s)
      /\ p[h].previous = NULL /\ p[h].next = FirstOf(s)
  BY HeldList
<1>2. Lists!Sorted(p, h, n, keys) =
        IF p[h].next = NULL THEN [p EXCEPT ![h].next = n]
        ELSE Lists!LinkedAfter(p, p[current].previous, n)
  BY DEF Lists!Sorted
<1>3. n \notin ToSet(s)
  BY DEF Unlisted
<1>4. CASE s = <<>>
  <2>1. Lists!Sorted(p, h, n, keys) = [p EXCEPT ![h].next = n]
    BY <1>1, <1>2, <1>4 DEF FirstOf
  <2>2. larger = {}
    BY <1>4
  <2>3. t = <<n>>
    <3>1. t = Append(s, n)
      BY <2>2 DEF InsertSorted
    <3> QED BY <1>4, <3>1
  <2>4. Holds([p EXCEPT ![h].next = n], [q EXCEPT ![h] = <<n>>])
    BY <1>4, OnlyHolds
  <2> QED BY <2>1, <2>3, <2>4
<1>5. CASE s # <<>>
  <2> HIDE DEF s
  <2>1. /\ length \in Nat \ {0} /\ DOMAIN s = 1 .. length
        /\ \A i \in 1 .. length : s[i] \in Lists!Nodes
    BY <1>1, <1>5, ListNodes
  <2>2. \A i \in 1 .. length :
          /\ p[s[i]].next = s[Following(i, length)] /\ p[s[i]].previous = s[Preceding(i, length)]
          /\ Following(i, length) \in 1 .. length /\ Preceding(i, length) \in 1 .. length
    BY <1>1, RingNeighbours
  <2> HIDE DEF length
  <2>3. p[h].next = s[1] /\ s[1] # NULL /\ p[s[1]].previous = s[length] /\ 1 \in 1 .. length
    BY <1>1, <1>5, <2>1, <2>2, ListSizes DEF FirstOf, Preceding
  <2>4. stops = larger
    BY <2>1
  <2>5. Lists!Min(stops) = Min(larger)
    BY <2>4 DEF Lists!Min, Min
  <2>6. larger # {} => Min(larger) \in larger /\ \A y \in larger : Min(larger) <= y
    <3>1. larger \subseteq Nat
      BY <2>1
    <3> HIDE DEF larger
    <3> QED BY <3>1, MinNat
  <2>7. \A i \in larger : i \in 1 .. length
    BY <2>1
  <2> HIDE DEF stops, larger
  <2>8. CASE larger = {} \/ 1 \in larger
    <3>1. current = s[1]
      <4>1. CASE larger = {}
        BY <2>3, <2>4, <4>1
      <4>2. CASE 1 \in larger
        <5>1. Min(larger) = 1
          BY <2>6, <2>7, <4>2
        <5> QED BY <2>4, <2>5, <4>2, <5>1
      <4> QED BY <2>8, <4>1, <4>2
    <3>2. Lists!Sorted(p, h, n, keys) = Lists!LinkedAfter(p, s[length], n)
      BY <1>2, <2>3, <3>1
    <3>3. t = Append(s, n)
      BY <2>8 DEF InsertSorted, larger
    <3> HIDE DEF t, current
    <3>4. /\ t \in NodeLists(Lists!Nodes) /\ ToSet(t) = ToSet(s) \cup {n} /\ Len(t) = length + 1
          /\ \A i \in 1 .. length + 1 : t[i] = IF i <= length THEN s[i] ELSE n
      BY <1>1, <1>3, <3>3, AppendedIs DEF length, s
    <3>5. length \in 1 .. length
      BY <2>1
    <3>6. \A i \in 1 .. length + 1 :
            t[i] = IF i < length + 1 THEN s[i] ELSE IF i = length + 1 THEN n ELSE s[i - 1]
      BY <2>1, <3>4
    <3>7. Holds(Lists!LinkedAfter(p, s[length], n), [q EXCEPT ![h] = t])
      BY <3>4, <3>5, <3>6, LinkedHolds DEF s, length
    <3> QED BY <3>2, <3>7 DEF t, s
  <2>9. CASE ~(larger = {} \/ 1 \in larger)
    <3> DEFINE place == Min(larger)
               j == place - 1
    <3>1. place \in larger /\ place \in 1 .. length /\ place # 1
      BY <2>6, <2>7, <2>9
    <3>2. current = s[place]
      BY <2>4, <2>5, <2>9
    <3>3. t = InsertAt(s, place, n)
      BY <2>9 DEF InsertSorted, larger
    <3> HIDE DEF current, t, place
    <3>4. p[s[place]].previous = s[j] /\ j \in 1 .. length /\ place = j + 1
      BY <2>1, <2>2, <3>1 DEF Preceding
    <3>5. Lists!Sorted(p, h, n, keys) = Lists!LinkedAfter(p, s[j], n)
      BY <1>2, <2>3, <3>2, <3>4
    <3> HIDE DEF j
    <3>6. place \in 1 .. length + 1
      BY <2>1, <3>1
    <3>7. /\ t \in NodeLists(Lists!Nodes) /\ ToSet(t) = ToSet(s) \cup {n} /\ Len(t) = length + 1
          /\ \A i \in 1 .. length + 1 :
               t[i] = IF i < place THEN s[i] ELSE IF i = place THEN n ELSE s[i - 1]
      BY <1>1, <1>3, <3>3, <3>6, InsertedIs DEF length, s
    <3>8. \A i \in 1 .. length + 1 :
            t[i] = IF i < j + 1 THEN s[i] ELSE IF i = j + 1 THEN n ELSE s[i - 1]
      BY <3>4, <3>7
    <3>9. Holds(Lists!LinkedAfter(p, s[j], n), [q EXCEPT ![h] = t])
      BY <3>4, <3>7, <3>8, LinkedHolds DEF s, length
    <3> QED BY <3>5, <3>9 DEF t, s
  <2> QED BY <2>8, <2>9
<1> QED BY <1>4, <1>5

-----------------------------------------------------------------------------
(* Part 6: following the pointers.                                         *)

(* No list is longer than there are nodes. *)
LEMMA ListLength ==
  ASSUME NEW s \in NodeLists(Lists!Nodes)
  PROVE  Len(s) <= NodeCount
<1> DEFINE length == Len(s)
           places == 1 .. length
<1>1. length \in Nat /\ s \in [places -> Lists!Nodes]
  <2>1. s \in Seq(Lists!Nodes)
    BY ListNodes
  <2> QED BY <2>1, LenProperties
<1>2. \A i, j \in places : s[i] = s[j] => i = j
  BY ListNodes
<1>3. IsFiniteSet(places) /\ Cardinality(places) = length
  BY <1>1, FS_Interval
<1>4. IsFiniteSet(Lists!Nodes) /\ Cardinality(Lists!Nodes) = NodeCount
  <2>1. 0 \in Int /\ NodeCount - 1 \in Int /\ NodeCount \in Nat \ {0}
    BY ListSizes
  <2>2. IsFiniteSet(0 .. NodeCount - 1) /\ Cardinality(0 .. NodeCount - 1) = NodeCount
    BY <2>1, FS_Interval
  <2> QED BY <2>2 DEF Lists!Nodes
<1> HIDE DEF length, places
<1>5. s \in Injection(places, Lists!Nodes)
  BY <1>1, <1>2 DEF Injection, IsInjective
<1> QED BY <1>3, <1>4, <1>5, FS_Injection DEF length

(* A ring is walked by remainders. *)
LEMMA RingTurn ==
  ASSUME NEW length \in Nat \ {0}, NEW i \in Nat \ {0, 1}
  PROVE  /\ ((i - 2) % length) + 1 \in 1 .. length
         /\ ((i - 1) % length) + 1 = Following(((i - 2) % length) + 1, length)
<1> DEFINE before == i - 2
           r == before % length
           place == r + 1
<1>1. r \in 0 .. length - 1
  <2>1. before \in Int
    OBVIOUS
  <2> HIDE DEF before
  <2> QED BY <2>1, Remainder
<1>2. (i - 1) % length = place % length
  <2>1. before \in Int /\ before + 1 = i - 1 /\ 1 \in Int
    OBVIOUS
  <2> HIDE DEF before
  <2> QED BY <2>1, RemainderOfSum
<1> HIDE DEF r
<1>3. place \in 1 .. length
  BY <1>1
<1>4. place \in Int /\ -length <= place /\ place < 2 * length /\ ~(place < 0)
  BY <1>3
<1> HIDE DEF place
<1>5. place % length = IF place < length THEN place ELSE place - length
  BY <1>4, OneTurn
<1>6. \A k : k = place % length => k + 1 = Following(place, length)
  BY <1>3, <1>5 DEF Following
<1> QED BY <1>2, <1>3, <1>6 DEF place, r

(* Following the next pointers from the first node goes around the list.   *)
LEMMA NthInRing ==
  ASSUME NEW s \in NodeLists(Lists!Nodes), s # <<>>, RingOf(heap, s)
  PROVE  \A i \in 1 .. NodeCount + 1 : Lists!Nth(s[1])[i] = s[((i - 1) % Len(s)) + 1]
<1> DEFINE length == Len(s)
           Body(f) == [i \in 1 .. NodeCount + 1 |-> IF i = 1 THEN s[1] ELSE heap[f[i - 1]].next]
           around == [i \in 1 .. NodeCount + 1 |-> s[((i - 1) % length) + 1]]
           node == Lists!Nth(s[1])
<1>1. /\ length \in Nat \ {0} /\ NodeCount \in Nat
      /\ \A i \in 1 .. length : heap[s[i]].next = s[Following(i, length)]
  BY ListNodes, ListSizes DEF RingOf
<1> HIDE DEF length
<1>2. around[1] = s[1] /\ 1 \in 1 .. NodeCount + 1
  <2>1. 1 - 1 = 0 /\ 0 % length = 0 /\ 0 + 1 = 1 /\ 1 \in 1 .. NodeCount + 1
    BY <1>1
  <2> QED BY <2>1
<1>3. ASSUME NEW i \in 2 .. NodeCount + 1
      PROVE  i - 1 \in 1 .. NodeCount + 1 /\ i \in 1 .. NodeCount + 1
             /\ around[i] = heap[around[i - 1]].next
  <2> DEFINE k == ((i - 2) % length) + 1
             m == ((i - 1) % length) + 1
  <2>1. i \in Nat \ {0, 1} /\ i - 1 \in 1 .. NodeCount + 1 /\ (i - 1) - 1 = i - 2 /\ i \in 1 .. NodeCount + 1
    BY <1>1
  <2>2. k \in 1 .. length /\ m = Following(k, length)
    BY <1>1, <2>1, RingTurn
  <2>3. around[i] = s[m] /\ around[i - 1] = s[k]
    BY <2>1
  <2> HIDE DEF k, m, around
  <2> QED BY <1>1, <2>1, <2>2, <2>3
<1>4. around = Body(around)
  <2>1. \A i \in 1 .. NodeCount + 1 : around[i] = Body(around)[i]
    <3> TAKE i \in 1 .. NodeCount + 1
    <3> HIDE DEF around
    <3>1. CASE i = 1
      BY <1>2, <3>1
    <3>2. CASE i # 1
      <4>1. i \in 2 .. NodeCount + 1
        BY <1>1, <3>2
      <4> QED BY <1>3, <3>2, <4>1
    <3> QED BY <3>1, <3>2
  <2> QED BY <2>1
<1>5. node = CHOOSE f : f = Body(f)
  BY DEF Lists!Nth
<1>6. node = Body(node)
  <2> HIDE DEF Body, node, around
  <2>1. \E f : f = Body(f)
    BY <1>4
  <2> QED BY <1>5, <2>1
<1>7. node[1] = s[1]
  BY <1>2, <1>6
<1>8. \A i \in 2 .. NodeCount + 1 : node[i] = heap[node[i - 1]].next
  <2> TAKE i \in 2 .. NodeCount + 1
  <2>1. i \in 1 .. NodeCount + 1 /\ i # 1
    BY <1>1
  <2> QED BY <1>6, <2>1
<1> HIDE DEF node, Body
<1>9. \A i \in 1 .. NodeCount + 1 : node[i] = around[i]
  <2> DEFINE wrong == {i \in 1 .. NodeCount + 1 : node[i] # around[i]}
             m == Min(wrong)
  <2> HIDE DEF around
  <2>1. SUFFICES ASSUME wrong # {}
                 PROVE  FALSE
    OBVIOUS
  <2>2. wrong \subseteq Nat
    BY <1>1
  <2> HIDE DEF wrong
  <2>3. m \in wrong /\ \A y \in wrong : m <= y
    BY <2>1, <2>2, MinNat
  <2> HIDE DEF m
  <2>4. m \in 1 .. NodeCount + 1 /\ node[m] # around[m]
    BY <2>3 DEF wrong
  <2>5. m \in 2 .. NodeCount + 1
    BY <1>1, <1>2, <1>7, <2>4
  <2>6. m - 1 \notin wrong /\ m - 1 \in 1 .. NodeCount + 1
    BY <1>1, <2>3, <2>5
  <2>7. node[m - 1] = around[m - 1]
    BY <2>6 DEF wrong
  <2> QED BY <1>3, <1>8, <2>4, <2>5, <2>7
<1> QED BY <1>9 DEF node, length

(* So Walk finds the list. *)
LEMMA WalkIsList ==
  ASSUME NEW q, Holds(heap, q), NEW h \in Heads
  PROVE  Lists!Walk(h) = q[h]
<1> DEFINE s == q[h]
           length == Len(s)
           node == Lists!Nth(s[1])
           Closes(i) == node[i + 1] = node[1] /\ \A j \in 2 .. i : node[j] # node[1]
<1>1. s \in NodeLists(Lists!Nodes) /\ RingOf(heap, s) /\ heap[h].next = FirstOf(s)
  BY HeldList
<1>2. CASE s = <<>>
  BY <1>1, <1>2 DEF FirstOf, Lists!Walk
<1>3. CASE s # <<>>
  <2> HIDE DEF s
  <2>1. /\ length \in Nat \ {0} /\ length <= NodeCount /\ NodeCount \in Nat /\ DOMAIN s = 1 .. length
        /\ \A i, j \in 1 .. length : s[i] = s[j] => i = j
        /\ s[1] \in Lists!Nodes /\ s \in Seq(Lists!Nodes)
    <3>1. 1 \in 1 .. length
      BY <1>1, <1>3, ListNodes
    <3> QED BY <1>1, <1>3, <3>1, ListNodes, ListLength, ListSizes
  <2>2. heap[h].next = s[1] /\ s[1] # NULL
    BY <1>1, <1>3, <2>1, ListSizes DEF FirstOf
  <2>3. \A i \in 1 .. NodeCount + 1 : node[i] = s[((i - 1) % length) + 1]
    BY <1>1, <1>3, NthInRing
  <2> HIDE DEF length, node
  <2>4. \A i \in 1 .. length + 1 : node[i] = s[IF i = length + 1 THEN 1 ELSE i]
    <3> TAKE i \in 1 .. length + 1
    <3>1. i \in 1 .. NodeCount + 1
      BY <2>1
    <3>2. \A k : k = (i - 1) % length => k + 1 = IF i = length + 1 THEN 1 ELSE i
      <4>1. i - 1 \in Int /\ -length <= i - 1 /\ i - 1 < 2 * length /\ ~(i - 1 < 0)
        BY <2>1
      <4>2. (i - 1) % length = IF i - 1 < length THEN i - 1 ELSE i - 1 - length
        BY <2>1, <4>1, OneTurn
      <4> QED BY <2>1, <4>2
    <3> QED BY <2>3, <3>1, <3>2
  <2>5. node[1] = s[1] /\ node[length + 1] = s[1] /\ \A i \in 1 .. length : node[i] = s[i]
    BY <2>1, <2>4
  <2>6. length \in 1 .. NodeCount /\ Closes(length)
    BY <2>1, <2>5
  <2>7. ASSUME NEW i \in 1 .. NodeCount, Closes(i)
        PROVE  i = length
    <3>1. CASE i < length
      <4>1. i + 1 \in 1 .. length /\ 1 \in 1 .. length /\ i + 1 # 1
        BY <2>1, <3>1
      <4> QED BY <2>1, <2>5, <2>7, <4>1
    <3>2. CASE i > length
      <4>1. length + 1 \in 2 .. i
        BY <2>1, <3>2
      <4> QED BY <2>5, <2>7, <4>1
    <3> QED BY <2>1, <3>1, <3>2
  <2>8. (CHOOSE i \in 1 .. NodeCount : Closes(i)) = length
    <3> HIDE DEF Closes
    <3> QED BY <2>6, <2>7
  <2>9. Lists!Walk(h) = [i \in 1 .. length |-> node[i]]
    BY <2>2, <2>8 DEF Lists!Walk, node
  <2>10. s = [i \in 1 .. length |-> s[i]]
    BY <2>1
  <2> QED BY <2>5, <2>9, <2>10 DEF s
<1> QED BY <1>2, <1>3

LEMMA SequencesAre ==
  ASSUME NEW q, Holds(heap, q)
  PROVE  Lists!Sequences = q
<1>1. q = [h \in Heads |-> q[h]]
  BY DEF Holds, SeparateLists
<1>2. \A h \in Heads : Lists!Walk(h) = q[h]
  BY WalkIsList
<1> QED BY <1>1, <1>2 DEF Lists!Sequences

-----------------------------------------------------------------------------
(* Part 7: the lists are the sequences of KernelListSpec.                  *)

(* What is always true: the pointers are the lists Walk finds in them.     *)
ListInv ==
  /\ Holds(heap, Lists!Sequences)
  /\ key \in [Lists!Nodes -> Keys \cup {0}]

LEMMA NextSequences ==
  \A q : Holds(heap', q) => Lists!Sequences' = q
<1>1. \A q : Holds(heap, q) => Lists!Sequences = q
  BY SequencesAre
<1>2. (\A q : Holds(heap, q) => Lists!Sequences = q)'
  BY <1>1, PTL
<1> QED BY <1>2

(* The operations of both modules are the same. *)
LEMMA ListOperations ==
  ASSUME NEW s, NEW n, NEW m, NEW k
  PROVE  /\ Lists!List!RemoveNode(s, n) = RemoveNode(s, n)
         /\ Lists!List!AppendToHead(s, n) = AppendToHead(s, n)
         /\ Lists!List!AppendAfter(s, m, n) = AppendAfter(s, m, n)
         /\ Lists!List!InsertSorted(s, n, k) = InsertSorted(s, n, k)
<1>1. Lists!List!RemoveNode(s, n) = RemoveNode(s, n)
  BY DEF Lists!List!RemoveNode, RemoveNode, Lists!List!RemoveAt, RemoveAt, Lists!List!Position, Position
<1>2. Lists!List!AppendToHead(s, n) = AppendToHead(s, n)
  BY DEF Lists!List!AppendToHead, AppendToHead, Lists!List!Cons, Cons
<1>3. Lists!List!AppendAfter(s, m, n) = AppendAfter(s, m, n)
  BY DEF Lists!List!AppendAfter, AppendAfter, Lists!List!InsertAt, InsertAt, Lists!List!Position, Position
<1>4. Lists!List!InsertSorted(s, n, k) = InsertSorted(s, n, k)
  BY DEF Lists!List!InsertSorted, InsertSorted, Lists!List!InsertAt, InsertAt, Lists!List!Min, Min
<1> QED BY <1>1, <1>2, <1>3, <1>4

(* What the guards say of the lists. *)
LEMMA Guards ==
  ASSUME ListInv
  PROVE  /\ \A h \in Heads : Lists!IsHead(h) /\ h \notin Lists!Nodes
         /\ \A n \in Lists!Nodes : ~Lists!IsHead(n)
         /\ \A h \in Heads : Lists!Walk(h) = Lists!Sequences[h]
         /\ \A n, h : h \in Heads => (Lists!Member(n, h) <=> n \in ToSet(Lists!Sequences[h]))
         /\ \A n : Lists!Detached(n) <=> Unlisted(Lists!Sequences, n)
         /\ \A n, h : Lists!List!In(n, h) <=> n \in ToSet(Lists!Sequences[h])
         /\ \A n : Lists!List!Free(n) <=> Unlisted(Lists!Sequences, n)
         /\ \A n : n \notin Lists!Nodes => Unlisted(Lists!Sequences, n)
<1> DEFINE q == Lists!Sequences
<1>1. Holds(heap, q)
  BY DEF ListInv
<1>2. \A h \in Heads : Lists!Walk(h) = q[h]
  BY DEF Lists!Sequences
<1> HIDE DEF q
<1>3. \A h \in Heads : Lists!IsHead(h) /\ h \notin Lists!Nodes
  BY <1>1, HeldList, ListSizes DEF Lists!IsHead
<1>4. \A n \in Lists!Nodes : ~Lists!IsHead(n)
  BY <1>1, HeldPointers, ListSizes DEF Lists!IsHead
<1>5. \A n, h : h \in Heads => (Lists!Member(n, h) <=> n \in ToSet(q[h]))
  BY <1>2 DEF Lists!Member, Lists!ToSet, ToSet
<1>6. \A n : Lists!Detached(n) <=> Unlisted(q, n)
  BY <1>5 DEF Lists!Detached, Unlisted
<1>7. \A n, h : Lists!List!In(n, h) <=> n \in ToSet(q[h])
  BY DEF Lists!List!In, Lists!List!ToSet, ToSet, q
<1>8. \A n : Lists!List!Free(n) <=> Unlisted(q, n)
  BY <1>7 DEF Lists!List!Free, Unlisted
<1>9. \A n : n \notin Lists!Nodes => Unlisted(q, n)
  <2>1. \A h \in Heads : ToSet(q[h]) \subseteq Lists!Nodes
    BY <1>1, HeldList, ListNodes
  <2> QED BY <2>1 DEF Unlisted
<1> QED BY <1>2, <1>3, <1>4, <1>5, <1>6, <1>7, <1>8, <1>9 DEF q

(* A step is known by the lists it leaves. *)
LEMMA StepTo ==
  ASSUME ListInv, UNCHANGED key
  PROVE  \A q : Holds(heap', q) => ListInv' /\ Lists!Sequences' = q
BY NextSequences DEF ListInv

(* A list holds what is in it; a node taken out is in none. *)
LEMMA RemovedUnlisted ==
  ASSUME NEW p, NEW q, Holds(p, q), NEW h \in Heads, NEW n \in ToSet(q[h])
  PROVE  /\ n \in Lists!Nodes
         /\ Unlisted([q EXCEPT ![h] = RemoveNode(q[h], n)], n)
         /\ \A g \in Heads : \A m \in ToSet(q[g]) :
              m # n => m \in ToSet([q EXCEPT ![h] = RemoveNode(q[h], n)][g])
<1> DEFINE after == [q EXCEPT ![h] = RemoveNode(q[h], n)]
<1>1. /\ q[h] \in NodeLists(Lists!Nodes)
      /\ \A g \in Heads \ {h} : n \notin ToSet(q[g])
  BY HeldList
<1>2. ToSet(RemoveNode(q[h], n)) = ToSet(q[h]) \ {n} /\ n \in Lists!Nodes
  BY <1>1, RemovedIs, ListNodes
<1>3. after[h] = RemoveNode(q[h], n) /\ \A g \in Heads \ {h} : after[g] = q[g]
  BY DEF Holds, SeparateLists
<1> HIDE DEF after
<1>4. Unlisted(after, n)
  BY <1>1, <1>2, <1>3 DEF Unlisted
<1>5. \A g \in Heads : \A m \in ToSet(q[g]) : m # n => m \in ToSet(after[g])
  BY <1>2, <1>3
<1> QED BY <1>2, <1>4, <1>5 DEF after

LEMMA AppendStep ==
  ASSUME ListInv, NEW list \in Heads \cup Lists!Nodes, NEW n \in Lists!Nodes,
         Lists!AppendNode(list, n)
  PROVE  /\ ListInv'
         /\ list \in Heads => Lists!List!AppendAtHead(list, n)
         /\ list \in Lists!Nodes => \E h \in Heads : Lists!List!AppendAtNode(h, list, n)
<1> DEFINE q == Lists!Sequences
<1>1. /\ Lists!Detached(n) /\ (Lists!IsHead(list) \/ ~Lists!Detached(list))
      /\ heap' = Lists!Appended(heap, list, n) /\ UNCHANGED key
  BY DEF Lists!AppendNode
<1>2. Holds(heap, q) /\ Unlisted(q, n) /\ Lists!List!Free(n)
  BY <1>1, Guards DEF ListInv
<1> HIDE DEF q
<1>3. CASE list \in Heads
  <2>1. Holds(heap', [q EXCEPT ![list] = AppendToHead(q[list], n)])
    BY <1>1, <1>2, <1>3, AppendedToHeadHolds
  <2>2. ListInv' /\ Lists!Sequences' = [q EXCEPT ![list] = AppendToHead(q[list], n)]
    BY <1>1, <2>1, StepTo
  <2>3. Lists!List!AppendAtHead(list, n)
    BY <1>1, <1>2, <2>2, ListOperations DEF Lists!List!AppendAtHead, q
  <2> QED BY <1>3, <2>2, <2>3, ListSizes
<1>4. CASE list \in Lists!Nodes
  <2>1. ~Unlisted(q, list)
    BY <1>1, <1>4, Guards DEF q
  <2>2. PICK h \in Heads : list \in ToSet(q[h])
    BY <2>1 DEF Unlisted
  <2>3. Holds(heap', [q EXCEPT ![h] = AppendAfter(q[h], list, n)])
    BY <1>1, <1>2, <2>2, AppendedAfterHolds
  <2>4. ListInv' /\ Lists!Sequences' = [q EXCEPT ![h] = AppendAfter(q[h], list, n)]
    BY <1>1, <2>3, StepTo
  <2>5. Lists!List!In(list, h)
    BY <2>2, Guards DEF q
  <2>6. Lists!List!AppendAtNode(h, list, n)
    BY <1>1, <1>2, <2>4, <2>5, ListOperations DEF Lists!List!AppendAtNode, q
  <2> QED BY <1>4, <2>4, <2>6, ListSizes
<1> QED BY <1>3, <1>4

LEMMA RemoveStep ==
  ASSUME ListInv, NEW list \in Heads, NEW n \in Lists!Nodes, Lists!RemoveFrom(list, n)
  PROVE  ListInv' /\ Lists!List!RemoveFrom(list, n)
<1> DEFINE q == Lists!Sequences
<1>1. Lists!Member(n, list) /\ heap' = Lists!Unlinked(heap, list, n) /\ UNCHANGED key
  BY DEF Lists!RemoveFrom
<1>2. Holds(heap, q) /\ n \in ToSet(q[list]) /\ Lists!List!In(n, list)
  BY <1>1, Guards DEF ListInv
<1> HIDE DEF q
<1>3. Holds(heap', [q EXCEPT ![list] = RemoveNode(q[list], n)])
  BY <1>1, <1>2, UnlinkedHolds
<1>4. ListInv' /\ Lists!Sequences' = [q EXCEPT ![list] = RemoveNode(q[list], n)]
  BY <1>1, <1>3, StepTo
<1> QED BY <1>1, <1>2, <1>4, ListOperations DEF Lists!List!RemoveFrom, q

LEMMA SortedStep ==
  ASSUME ListInv, NEW list \in Heads, NEW n \in Lists!Nodes, NEW k \in Keys,
         Lists!InsertSorted(list, n, k)
  PROVE  ListInv' /\ Lists!List!Insert(list, n, k)
<1> DEFINE q == Lists!Sequences
<1>1. /\ Lists!Detached(n) /\ key' = [key EXCEPT ![n] = k]
      /\ heap' = Lists!Sorted(heap, list, n, key')
  BY DEF Lists!InsertSorted
<1>2. /\ Holds(heap, q) /\ Unlisted(q, n) /\ Lists!List!Free(n) /\ Lists!Walk(list) = q[list]
      /\ key \in [Lists!Nodes -> Keys \cup {0}]
  BY <1>1, Guards DEF ListInv
<1> HIDE DEF q
<1>3. key' \in [Lists!Nodes -> Keys \cup {0}]
  BY <1>1, <1>2
<1>4. key' \in [Lists!Nodes -> Nat]
  <2> DEFINE known == Keys \cup {0}
             later == key'
  <2>1. known \subseteq Nat /\ later \in [Lists!Nodes -> known]
    BY <1>3, ListSizes
  <2> HIDE DEF known, later
  <2>2. later \in [Lists!Nodes -> Nat]
    BY <2>1
  <2> QED BY <2>2 DEF later
<1>5. Holds(heap', [q EXCEPT ![list] = InsertSorted(q[list], n, key')])
  BY <1>1, <1>2, <1>4, SortedHolds
<1>6. Lists!Sequences' = [q EXCEPT ![list] = InsertSorted(q[list], n, key')]
  BY <1>5, NextSequences
<1>7. ListInv'
  BY <1>3, <1>5, <1>6 DEF ListInv
<1>8. Lists!List!Insert(list, n, k)
  BY <1>1, <1>2, <1>6, ListOperations DEF Lists!List!Insert, q
<1> QED BY <1>7, <1>8

LEMMA TransferStep ==
  ASSUME ListInv, NEW from \in Heads, NEW to \in Heads \cup Lists!Nodes, NEW n \in Lists!Nodes,
         Lists!Transfer(from, to, n)
  PROVE  /\ ListInv'
         /\ to \in Heads => Lists!List!TransferToHead(from, to, n)
         /\ to \in Lists!Nodes => \E h \in Heads : Lists!List!TransferToNode(from, h, to, n)
<1> DEFINE q == Lists!Sequences
           left == [q EXCEPT ![from] = RemoveNode(q[from], n)]
           p == Lists!Unlinked(heap, from, n)
<1>1. /\ Lists!Member(n, from) /\ to # n /\ (Lists!IsHead(to) \/ ~Lists!Detached(to))
      /\ heap' = Lists!Appended(p, to, n) /\ UNCHANGED key
  BY DEF Lists!Transfer
<1>2. Holds(heap, q) /\ n \in ToSet(q[from]) /\ Lists!List!In(n, from)
  BY <1>1, Guards DEF ListInv
<1> HIDE DEF q, p
<1>3. Holds(p, left)
  BY <1>2, UnlinkedHolds DEF p
<1>4. /\ Unlisted(left, n)
      /\ \A g \in Heads : \A m \in ToSet(q[g]) : m # n => m \in ToSet(left[g])
  BY <1>2, RemovedUnlisted
<1> HIDE DEF left
<1>5. CASE to \in Heads
  <2>1. Holds(heap', [left EXCEPT ![to] = AppendToHead(left[to], n)])
    BY <1>1, <1>3, <1>4, <1>5, AppendedToHeadHolds
  <2>2. ListInv' /\ Lists!Sequences' = [left EXCEPT ![to] = AppendToHead(left[to], n)]
    BY <1>1, <2>1, StepTo
  <2>3. Lists!List!TransferToHead(from, to, n)
    BY <1>1, <1>2, <2>2, ListOperations DEF Lists!List!TransferToHead, q, left
  <2> QED BY <1>5, <2>2, <2>3, ListSizes
<1>6. CASE to \in Lists!Nodes
  <2>1. ~Unlisted(q, to)
    BY <1>1, <1>6, Guards DEF q
  <2>2. PICK h \in Heads : to \in ToSet(q[h])
    BY <2>1 DEF Unlisted
  <2>3. Lists!List!In(to, h) /\ to \in ToSet(left[h])
    BY <1>1, <1>4, <2>2, Guards DEF q
  <2>4. Holds(heap', [left EXCEPT ![h] = AppendAfter(left[h], to, n)])
    BY <1>1, <1>3, <1>4, <2>3, AppendedAfterHolds
  <2>5. ListInv' /\ Lists!Sequences' = [left EXCEPT ![h] = AppendAfter(left[h], to, n)]
    BY <1>1, <2>4, StepTo
  <2>6. Lists!List!TransferToNode(from, h, to, n)
    BY <1>1, <1>2, <2>3, <2>5, ListOperations DEF Lists!List!TransferToNode, q, left
  <2> QED BY <1>6, <2>5, <2>6, ListSizes
<1> QED BY <1>5, <1>6

(* The lists begin as a ring of all nodes on the first head. *)
LEMMA ListStart ==
  ASSUME Lists!Init
  PROVE  ListInv /\ Lists!List!Init
<1> DEFINE all == [i \in 1 .. NodeCount |-> i - 1]
           q == [h \in Heads |-> IF h = FirstHead THEN all ELSE <<>>]
<1>1. /\ NodeCount \in Nat \ {0} /\ Lists!Nodes = 0 .. NodeCount - 1
      /\ FirstHead \in Heads /\ Heads \cap Lists!Nodes = {}
      /\ NULL \notin Heads /\ NULL \notin Lists!Nodes
  BY ListSizes DEF Lists!Nodes
<1>2. /\ \A x \in Lists!Nodes :
           /\ heap[x].previous = Lists!ModuloSub(x, 1, 0, NodeCount)
           /\ heap[x].next = Lists!ModuloAdd(x, 1, 0, NodeCount)
      /\ \A h \in Heads : heap[h].previous = NULL /\ heap[h].next = IF h = FirstHead THEN 0 ELSE NULL
      /\ key = [n \in Lists!Nodes |-> 0]
  BY <1>1 DEF Lists!Init
<1>3. \A x \in Lists!Nodes :
        /\ heap[x].next = IF x = NodeCount - 1 THEN 0 ELSE x + 1
        /\ heap[x].previous = IF x = 0 THEN NodeCount - 1 ELSE x - 1
  <2> TAKE x \in Lists!Nodes
  <2>1. x \in 0 .. NodeCount - 1 /\ x \in Int /\ -NodeCount <= x /\ x < 2 * NodeCount
    BY <1>1
  <2>2. x % NodeCount = x
    BY <1>1, <2>1, OneTurn
  <2> DEFINE one == 1
             low == x % NodeCount
             back == one % NodeCount
             NextOf(l, r) == IF l + r < NodeCount THEN l + r ELSE (l + r) - NodeCount + 0
             Above(l) == IF l < 0 THEN 0 - l ELSE l - 0
             PreviousOf(l, r) == IF Above(l) < r THEN NodeCount - (r - Above(l)) ELSE l - r
  <2>3. one = 1 /\ one \in Int /\ -NodeCount <= one /\ one < 2 * NodeCount
    BY <1>1
  <2>4. back = IF 1 < NodeCount THEN 1 ELSE 0
    <3> HIDE DEF one
    <3>1. one % NodeCount =
            IF one < 0 THEN one + NodeCount ELSE IF one < NodeCount THEN one ELSE one - NodeCount
      BY <1>1, <2>3, OneTurn
    <3>2. \A r : r = one % NodeCount => r = IF 1 < NodeCount THEN 1 ELSE 0
      BY <1>1, <2>3, <3>1
    <3> QED BY <3>2
  <2>5. /\ Lists!ModuloAdd(x, 1, 0, NodeCount) = NextOf(low, back)
        /\ Lists!ModuloSub(x, 1, 0, NodeCount) = PreviousOf(low, back)
    <3>1. Lists!ModuloAdd(x, 1, 0, NodeCount) = NextOf(low, back)
      BY DEF Lists!ModuloAdd
    <3>2. Lists!ModuloSub(x, 1, 0, NodeCount) = PreviousOf(low, back)
      BY DEF Lists!ModuloSub
    <3> QED BY <3>1, <3>2
  <2> HIDE DEF back, low, one
  <2>6. low = x
    BY <2>2 DEF low
  <2>7. /\ Lists!ModuloAdd(x, 1, 0, NodeCount) = IF x = NodeCount - 1 THEN 0 ELSE x + 1
        /\ Lists!ModuloSub(x, 1, 0, NodeCount) = IF x = 0 THEN NodeCount - 1 ELSE x - 1
    BY <1>1, <2>1, <2>4, <2>5, <2>6
  <2> QED BY <1>2, <2>7
<1>4. /\ all \in Seq(Lists!Nodes) /\ Len(all) = NodeCount /\ IsInjective(all)
      /\ \A i \in 1 .. NodeCount : all[i] = i - 1
  <2>1. \A i \in 1 .. NodeCount : i - 1 \in Lists!Nodes
    BY <1>1
  <2>2. NodeCount \in Nat
    BY <1>1
  <2>3. all \in Seq(Lists!Nodes)
    BY <2>1, <2>2, IsASeq
  <2>4. \A i, j \in 1 .. NodeCount : i - 1 = j - 1 => i = j
    BY <1>1
  <2>5. Len(all) = NodeCount
    BY <2>2
  <2> QED BY <2>3, <2>4, <2>5 DEF IsInjective
<1> HIDE DEF all
<1>5. all \in NodeLists(Lists!Nodes) /\ all # <<>>
  <2>1. all \in NodeLists(Lists!Nodes)
    BY <1>4 DEF NodeLists
  <2> QED BY <1>1, <1>4, <2>1, ListNodes
<1>6. <<>> \in NodeLists(Lists!Nodes) /\ ToSet(<<>>) = {}
  <2>1. 0 \in Lists!Nodes
    BY <1>1
  <2> QED BY <2>1, SmallNodes
<1>7. q \in SeparateLists
  <2>1. q \in [Heads -> NodeLists(Lists!Nodes)]
    BY <1>5, <1>6
  <2>2. \A g, h \in Heads : g # h => ToSet(q[g]) \cap ToSet(q[h]) = {}
    BY <1>6
  <2> QED BY <2>1, <2>2 DEF SeparateLists
<1>8. heap \in Pointers
  <2>1. \A x \in Lists!Nodes : /\ Lists!ModuloSub(x, 1, 0, NodeCount) \in Lists!Nodes
                               /\ Lists!ModuloAdd(x, 1, 0, NodeCount) \in Lists!Nodes
    <3>1. \A x \in 0 .. NodeCount - 1 :
            /\ (IF x = NodeCount - 1 THEN 0 ELSE x + 1) \in 0 .. NodeCount - 1
            /\ (IF x = 0 THEN NodeCount - 1 ELSE x - 1) \in 0 .. NodeCount - 1
      BY <1>1
    <3>2. \A x \in Lists!Nodes : heap[x].next \in Lists!Nodes /\ heap[x].previous \in Lists!Nodes
      <4> TAKE x \in Lists!Nodes
      <4>1. x \in 0 .. NodeCount - 1
        BY <1>1
      <4>2. heap[x].next \in 0 .. NodeCount - 1 /\ heap[x].previous \in 0 .. NodeCount - 1
        BY <1>3, <3>1, <4>1
      <4> QED BY <1>1, <4>2
    <3> QED BY <1>2, <3>2
  <2>2. 0 \in Lists!Nodes
    BY <1>1
  <2> QED BY <2>1, <2>2 DEF Lists!Init, Pointers
<1>9. RingOf(heap, all)
  <2>1. ASSUME NEW i \in 1 .. NodeCount
        PROVE  /\ heap[all[i]].next = all[Following(i, NodeCount)]
               /\ heap[all[Following(i, NodeCount)]].previous = all[i]
    <3> DEFINE j == Following(i, NodeCount)
    <3>1. j \in 1 .. NodeCount /\ j = IF i = NodeCount THEN 1 ELSE i + 1
      BY <1>1 DEF Following
    <3> HIDE DEF j
    <3>2. all[i] = i - 1 /\ all[j] = j - 1
      BY <1>4, <3>1
    <3>3. i - 1 \in Lists!Nodes /\ j - 1 \in Lists!Nodes
      BY <1>1, <3>1
    <3>4. /\ heap[i - 1].next = IF i - 1 = NodeCount - 1 THEN 0 ELSE (i - 1) + 1
          /\ heap[j - 1].previous = IF j - 1 = 0 THEN NodeCount - 1 ELSE (j - 1) - 1
      BY <1>3, <3>3
    <3>5. heap[i - 1].next = j - 1 /\ heap[j - 1].previous = i - 1
      BY <1>1, <3>1, <3>4
    <3> QED BY <3>2, <3>5 DEF j
  <2> QED BY <1>4, <2>1 DEF RingOf
<1>10. RingOf(heap, <<>>)
  BY SmallNodes DEF RingOf
<1>11. \A h \in Heads : heap[h].previous = NULL /\ heap[h].next = FirstOf(q[h]) /\ RingOf(heap, q[h])
  <2>1. FirstOf(all) = 0
    <3>1. all[1] = 0
      BY <1>1, <1>4
    <3> QED BY <1>5, <3>1 DEF FirstOf
  <2>2. FirstOf(<<>>) = NULL
    BY DEF FirstOf
  <2> TAKE h \in Heads
  <2>3. q[h] = IF h = FirstHead THEN all ELSE <<>>
    OBVIOUS
  <2> HIDE DEF q
  <2> QED BY <1>2, <1>9, <1>10, <2>1, <2>2, <2>3
<1>12. \A n \in Lists!Nodes : ~Unlisted(q, n)
  <2> TAKE n \in Lists!Nodes
  <2>1. n + 1 \in 1 .. NodeCount /\ (n + 1) - 1 = n
    BY <1>1
  <2>2. n \in ToSet(all)
    BY <1>4, <1>5, <2>1, ListNodes
  <2>3. q[FirstHead] = all
    BY <1>1
  <2> QED BY <1>1, <2>2, <2>3 DEF Unlisted
<1>13. Holds(heap, q)
  BY <1>7, <1>8, <1>11, <1>12 DEF Holds
<1>14. Lists!Sequences = q
  <2> HIDE DEF q
  <2> QED BY <1>13, SequencesAre
<1>15. ListInv
  <2>1. key \in [Lists!Nodes -> Keys \cup {0}]
    BY <1>2
  <2> QED BY <1>13, <1>14, <2>1 DEF ListInv
<1>16. Lists!List!Init
  BY <1>2, <1>14 DEF Lists!List!Init, Lists!List!Nodes, Lists!Nodes, all
<1> QED BY <1>15, <1>16

(* Every operation of the pointers is the one of the sequences. *)
LEMMA ListStep ==
  ASSUME ListInv, Lists!Next
  PROVE  ListInv' /\ Lists!List!Next
<1> USE DEF Lists!List!Nodes, Lists!Nodes
<1>1. PICK n \in Lists!Nodes :
        \/ \E list \in Heads \cup Lists!Nodes : Lists!AppendNode(list, n)
        \/ \E list \in Heads : Lists!RemoveFrom(list, n)
        \/ \E list \in Heads, k \in Keys : Lists!InsertSorted(list, n, k)
        \/ \E from \in Heads, to \in Heads \cup Lists!Nodes : Lists!Transfer(from, to, n)
  BY DEF Lists!Next
<1>2. ASSUME NEW list \in Heads \cup Lists!Nodes, Lists!AppendNode(list, n)
      PROVE  ListInv' /\ Lists!List!Next
  BY <1>2, AppendStep, ListSizes DEF Lists!List!Next
<1>3. ASSUME NEW list \in Heads, Lists!RemoveFrom(list, n)
      PROVE  ListInv' /\ Lists!List!Next
  BY <1>3, RemoveStep DEF Lists!List!Next
<1>4. ASSUME NEW list \in Heads, NEW k \in Keys, Lists!InsertSorted(list, n, k)
      PROVE  ListInv' /\ Lists!List!Next
  BY <1>4, SortedStep DEF Lists!List!Next
<1>5. ASSUME NEW from \in Heads, NEW to \in Heads \cup Lists!Nodes, Lists!Transfer(from, to, n)
      PROVE  ListInv' /\ Lists!List!Next
  BY <1>5, TransferStep, ListSizes DEF Lists!List!Next
<1> QED BY <1>1, <1>2, <1>3, <1>4, <1>5

(* Each operation is the one it stands for. *)
LEMMA OperationsAgree ==
  ASSUME ListInv
  PROVE  Lists!Agree
<1>1. ASSUME NEW n \in Lists!Nodes, NEW list \in Heads
      PROVE  /\ Lists!AppendNode(list, n) => Lists!List!AppendAtHead(list, n)
             /\ Lists!RemoveFrom(list, n) => Lists!List!RemoveFrom(list, n)
             /\ \A to \in Heads : Lists!Transfer(list, to, n) => Lists!List!TransferToHead(list, to, n)
  BY AppendStep, RemoveStep, TransferStep
<1>2. ASSUME NEW n \in Lists!Nodes, NEW m \in Lists!Nodes
      PROVE  /\ Lists!AppendNode(m, n) => \E h \in Heads : Lists!List!AppendAtNode(h, m, n)
             /\ \A list \in Heads :
                  Lists!Transfer(list, m, n) => \E h \in Heads : Lists!List!TransferToNode(list, h, m, n)
  BY AppendStep, TransferStep
<1> QED BY <1>1, <1>2 DEF Lists!Agree

(* Every step of the library is one of the sequences, or moves no pointer. *)
LEMMA ListsStep ==
  ASSUME ListInv, [LibraryNext]_libraryVars
  PROVE  /\ ListInv'
         /\ [part = "lists" => [Lists!List!Next]_<<Lists!Sequences, key>> /\ Lists!Agree]_listVars
<1>1. UNCHANGED listVars \/ Lists!Next
  BY DEF LibraryNext, libraryVars
<1>2. CASE UNCHANGED listVars
  <2>1. UNCHANGED <<heap, key>>
    BY <1>2 DEF listVars
  <2>2. ListInv'
    BY <2>1, StepTo DEF ListInv
  <2> QED BY <1>2, <2>2
<1>3. CASE Lists!Next
  BY <1>3, ListStep, OperationsAgree
<1> QED BY <1>1, <1>2, <1>3

(* The lists are the sequences of KernelListSpec, however many nodes there *)
(* are and however many heads: from the ring the scheduler sets up, and    *)
(* through every append, removal, sorted insertion and transfer, pointer   *)
(* by pointer, each of which is the operation it stands for.               *)
THEOREM ListsAreSequences == LibrarySpec => ImplementsList
<1>1. LibraryInit => ListInv /\ Lists!List!Init
  BY ListStart DEF LibraryInit
<1>2. ListInv /\ [LibraryNext]_libraryVars =>
        ListInv' /\ [part = "lists" => [Lists!List!Next]_<<Lists!Sequences, key>> /\ Lists!Agree]_listVars
  BY ListsStep
<1> QED BY <1>1, <1>2, PTL DEF LibrarySpec, ImplementsList

(* Pointers that are lists are intact. *)
LEMMA ListsIntact ==
  ASSUME ListInv
  PROVE  Lists!TypeOK /\ Lists!RingsClosed /\ Lists!RingsOwned
<1> DEFINE q == Lists!Sequences
<1>1. Holds(heap, q)
  BY DEF ListInv
<1>2. \A n, h : h \in Heads => (Lists!Member(n, h) <=> n \in ToSet(q[h]))
  BY Guards
<1>3. \A n : Lists!Detached(n) <=> Unlisted(q, n)
  BY Guards
<1> HIDE DEF q
<1>4. \A n \in Lists!Nodes :
        /\ heap[n].next \in Lists!Nodes /\ heap[n].previous \in Lists!Nodes
        /\ heap[heap[n].next].previous = n /\ heap[heap[n].previous].next = n
  BY <1>1, HeldPointers
<1>5. Lists!TypeOK
  <2>1. \A h \in Heads : heap[h].previous = NULL
    BY <1>1 DEF Holds
  <2>2. heap \in [Heads \cup Lists!Nodes ->
                    [previous : Lists!Nodes \cup {NULL}, next : Lists!Nodes \cup {NULL}]]
    BY <1>1 DEF Holds, Pointers
  <2> QED BY <1>4, <2>1, <2>2, ListSizes DEF Lists!TypeOK, ListInv
<1>6. Lists!RingsClosed
  BY <1>4 DEF Lists!RingsClosed
<1>7. ASSUME NEW n \in Lists!Nodes
      PROVE  Cardinality({h \in Heads : Lists!Member(n, h)}) <= 1
  <2> DEFINE holders == {h \in Heads : Lists!Member(n, h)}
  <2>1. \A g, h \in holders : g = h
    BY <1>1, <1>2 DEF Holds, SeparateLists
  <2> HIDE DEF holders
  <2>2. holders = {} \/ \E h : holders = {h}
    BY <2>1
  <2>3. Cardinality(holders) = 0 \/ Cardinality(holders) = 1
    BY <2>2, FS_EmptySet, FS_Singleton
  <2>4. Cardinality(holders) <= 1
    BY <2>3
  <2> QED BY <2>4 DEF holders
<1>8. \A n \in Lists!Nodes : Lists!Detached(n) => heap[n].next = n /\ heap[n].previous = n
  BY <1>1, <1>3 DEF Holds
<1>9. Lists!RingsOwned
  <2>1. \A S : Lists!Cardinality(S) = Cardinality(S)
    BY DEF Lists!Cardinality, Cardinality
  <2> QED BY <1>7, <1>8, <2>1 DEF Lists!RingsOwned
<1> QED BY <1>5, <1>6, <1>9

(* No ring of nodes is ever broken, shared by two heads or lost, and the   *)
(* ring buffer never counts more than it holds, for lists and buffers of   *)
(* any size.                                                               *)
THEOREM StructuresStayIntact == LibrarySpec => []StructuresIntact
<1>1. LibraryInit => ListInv /\ Ring!TypeOK
  BY ListStart, RingStart DEF LibraryInit
<1>2. ListInv /\ Ring!TypeOK /\ [LibraryNext]_libraryVars => ListInv' /\ Ring!TypeOK'
  BY ListsStep, RingStep
<1>3. ListInv /\ Ring!TypeOK => StructuresIntact
  BY ListsIntact DEF StructuresIntact
<1> QED BY <1>1, <1>2, <1>3, PTL DEF LibrarySpec

-----------------------------------------------------------------------------
(* Part 8: what the divisor of two numbers is.                             *)

Divides(e, n) == \E k \in Nat : n = k * e

CommonDivisors(m, n) == {e \in Nat : Divides(e, m) /\ Divides(e, n)}

DivisorsOf(n) == {e \in Nat : Divides(e, n)}

LEMMA DividesSum ==
  ASSUME NEW e \in Nat, NEW m \in Nat, NEW n \in Nat, NEW k \in Nat,
         Divides(e, m), Divides(e, n)
  PROVE  Divides(e, n * k + m)
<1>1. PICK i \in Nat : m = i * e
  BY DEF Divides
<1>2. PICK j \in Nat : n = j * e
  BY DEF Divides
<1>3. (j * e) * k = (k * j) * e
  BY Associativity
<1>4. (k * j + i) * e = (k * j) * e + i * e
  OBVIOUS
<1>5. k * j + i \in Nat
  OBVIOUS
<1> QED BY <1>1, <1>2, <1>3, <1>4, <1>5 DEF Divides

LEMMA DividesDifference ==
  ASSUME NEW e \in Nat, NEW m \in Nat, NEW n \in Nat, NEW k \in Nat,
         Divides(e, n * k + m), Divides(e, n)
  PROVE  Divides(e, m)
<1>1. PICK i \in Nat : n * k + m = i * e
  BY DEF Divides
<1>2. PICK j \in Nat : n = j * e
  BY DEF Divides
<1>3. (j * e) * k = (k * j) * e
  BY Associativity
<1> DEFINE l == k * j
<1>4. l \in Nat
  OBVIOUS
<1>5. m = i * e - l * e
  BY <1>1, <1>2, <1>3
<1> HIDE DEF l
<1>6. i * e - l * e = (i - l) * e
  BY <1>4
<1>7. CASE i >= l
  <2>1. i - l \in Nat
    BY <1>4, <1>7
  <2> QED BY <1>5, <1>6, <2>1 DEF Divides
<1>8. CASE i < l
  <2>1. (i - l) * e <= 0
    BY <1>4, <1>8
  <2>2. m = 0 /\ 0 = 0 * e
    BY <1>5, <1>6, <2>1
  <2> QED BY <2>2 DEF Divides
<1> QED BY <1>4, <1>7, <1>8

LEMMA DividesEachOther ==
  ASSUME NEW m \in Nat, NEW n \in Nat, Divides(m, n), Divides(n, m)
  PROVE  m = n
<1>1. PICK i \in Nat : n = i * m
  BY DEF Divides
<1>2. PICK j \in Nat : m = j * n
  BY DEF Divides
<1>3. CASE m = 0 \/ n = 0
  BY <1>1, <1>2, <1>3
<1>4. CASE m # 0 /\ n # 0
  <2>1. i >= 1 /\ j >= 1
    BY <1>1, <1>2, <1>4
  <2>2. i * m >= m /\ j * n >= n
    BY <2>1
  <2> QED BY <1>1, <1>2, <2>2
<1> QED BY <1>3, <1>4

LEMMA DividesBasics ==
  ASSUME NEW n \in Nat
  PROVE  Divides(n, n) /\ Divides(n, 0)
<1>1. n = 1 * n /\ 0 = 0 * n
  OBVIOUS
<1> QED BY <1>1 DEF Divides

(* A step of Euclid's algorithm keeps the common divisors. *)
LEMMA CommonDivisorsKept ==
  ASSUME NEW m \in Nat, NEW n \in Nat \ {0}
  PROVE  /\ m % n \in 0 .. n - 1
         /\ CommonDivisors(n, m % n) = CommonDivisors(m, n)
<1> DEFINE q == m \div n
           r == m % n
<1>1. r \in 0 .. n - 1 /\ q \in Int /\ m = n * q + r
  BY Remainder
<1>2. q \in Nat
  <2> HIDE DEF q, r
  <2>1. ~(q <= -1)
    <3>1. q <= -1 => n * q <= -n
      BY <1>1
    <3> QED BY <1>1, <3>1
  <2> QED BY <1>1, <2>1
<1> HIDE DEF q, r
<1>3. \A e \in Nat : Divides(e, n) /\ Divides(e, r) => Divides(e, m)
  BY <1>1, <1>2, DividesSum
<1>4. ASSUME NEW e \in Nat, Divides(e, n), Divides(e, m)
      PROVE  Divides(e, r)
  <2>1. r \in Nat /\ n \in Nat /\ Divides(e, n * q + r)
    BY <1>1, <1>4
  <2> QED BY <1>2, <1>4, <2>1, DividesDifference
<1>5. CommonDivisors(n, r) = CommonDivisors(m, n)
  BY <1>3, <1>4 DEF CommonDivisors
<1> QED BY <1>1, <1>5 DEF r

(* The recursive definition has a solution, so it defines Gcd. *)
LEMMA GcdDefined ==
  ASSUME NEW m \in Nat, NEW n \in Nat
  PROVE  Gcd[<<m, n>>] = IF n = 0 THEN m ELSE Gcd[<<n, m % n>>]
<1> DEFINE pairs == Nat \X Nat
           divisor == [p \in pairs |->
                         CHOOSE g \in Nat : DivisorsOf(g) = CommonDivisors(p[1], p[2])]
<1>1. ASSUME NEW p \in pairs
      PROVE  divisor[p] = IF p[2] = 0 THEN p[1] ELSE divisor[<<p[2], p[1] % p[2]>>]
  <2>1. CASE p[2] = 0
    <3>1. DivisorsOf(p[1]) = CommonDivisors(p[1], p[2])
      BY <2>1, DividesBasics DEF DivisorsOf, CommonDivisors
    <3>2. ASSUME NEW g \in Nat, DivisorsOf(g) = DivisorsOf(p[1])
          PROVE  g = p[1]
      <4>1. Divides(g, p[1]) /\ Divides(p[1], g)
        BY <3>2, DividesBasics DEF DivisorsOf
      <4> QED BY <4>1, DividesEachOther
    <3>3. divisor[p] = CHOOSE g \in Nat : DivisorsOf(g) = CommonDivisors(p[1], p[2])
      OBVIOUS
    <3> QED BY <2>1, <3>1, <3>2, <3>3
  <2>2. CASE p[2] # 0
    <3> DEFINE next == <<p[2], p[1] % p[2]>>
    <3>1. /\ p[1] % p[2] \in Nat
          /\ CommonDivisors(p[2], p[1] % p[2]) = CommonDivisors(p[1], p[2])
      BY <2>2, CommonDivisorsKept
    <3>2. next \in pairs /\ next[1] = p[2] /\ next[2] = p[1] % p[2]
      BY <3>1
    <3> HIDE DEF next
    <3>3. divisor[next] = CHOOSE g \in Nat : DivisorsOf(g) = CommonDivisors(next[1], next[2])
      BY <3>2
    <3>4. divisor[p] = divisor[next]
      BY <3>1, <3>2, <3>3
    <3> QED BY <2>2, <3>4 DEF next
  <2> QED BY <2>1, <2>2
<1> HIDE DEF divisor
<1>2. divisor = [p \in pairs |-> IF p[2] = 0 THEN p[1] ELSE divisor[<<p[2], p[1] % p[2]>>]]
  <2>1. divisor = [p \in pairs |-> divisor[p]]
    BY DEF divisor
  <2> QED BY <1>1, <2>1
<1>3. Gcd = [p \in pairs |-> IF p[2] = 0 THEN p[1] ELSE Gcd[<<p[2], p[1] % p[2]>>]]
  BY <1>2 DEF Gcd
<1>4. <<m, n>> \in pairs /\ <<m, n>>[1] = m /\ <<m, n>>[2] = n
  OBVIOUS
<1> HIDE DEF pairs
<1> QED BY <1>3, <1>4

(* Whatever divides both numbers divides the result, and nothing else does. *)
LEMMA GcdDivides ==
  ASSUME NEW m \in Nat, NEW n \in Nat
  PROVE  Gcd[<<m, n>>] \in Nat /\ DivisorsOf(Gcd[<<m, n>>]) = CommonDivisors(m, n)
<1> DEFINE Right(k, l) == Gcd[<<k, l>>] \in Nat /\ DivisorsOf(Gcd[<<k, l>>]) = CommonDivisors(k, l)
           wrong == {l \in Nat : \E k \in Nat : ~Right(k, l)}
           least == Min(wrong)
<1>1. ASSUME wrong # {}
      PROVE  FALSE
  <2>1. wrong \subseteq Nat
    OBVIOUS
  <2>2. least \in wrong /\ \A l \in wrong : least <= l
    BY <1>1, <2>1, MinNat
  <2> HIDE DEF least
  <2>3. PICK k \in Nat : ~Right(k, least)
    BY <2>2
  <2>4. least \in Nat /\ \A l \in Nat : l < least => \A i \in Nat : Right(i, l)
    <3>1. least \in Nat
      BY <2>2
    <3>2. ASSUME NEW l \in Nat, l < least
          PROVE  \A i \in Nat : Right(i, l)
      <4>1. l \notin wrong
        <5> HIDE DEF wrong
        <5> QED BY <2>2, <3>1, <3>2
      <4> QED BY <4>1
    <3> QED BY <3>1, <3>2
  <2> HIDE DEF wrong
  <2>5. CASE least = 0
    <3>1. Gcd[<<k, least>>] = k
      BY <2>4, <2>5, GcdDefined
    <3>2. DivisorsOf(k) = CommonDivisors(k, least)
      BY <2>5, DividesBasics DEF DivisorsOf, CommonDivisors
    <3> QED BY <2>3, <3>1, <3>2
  <2>6. CASE least # 0
    <3>1. Gcd[<<k, least>>] = Gcd[<<least, k % least>>]
      BY <2>4, <2>6, GcdDefined
    <3>2. /\ k % least \in 0 .. least - 1
          /\ CommonDivisors(least, k % least) = CommonDivisors(k, least)
      BY <2>4, <2>6, CommonDivisorsKept
    <3>3. Right(least, k % least)
      BY <2>4, <3>2
    <3> QED BY <2>3, <3>1, <3>2, <3>3
  <2> QED BY <2>5, <2>6
<1> QED BY <1>1

-----------------------------------------------------------------------------
(* Part 9: fractions.                                                      *)

LEMMA Cancelled ==
  ASSUME NEW g \in Nat \ {0}, NEW k \in Nat
  PROVE  (k * g) \div g = k
OBVIOUS

(* A fraction is brought to its lowest terms. *)
LEMMA FractionIs ==
  ASSUME NEW n \in Nat, NEW d \in Nat \ {0}
  PROVE  /\ Fraction(n, d).numerator \in Nat
         /\ Fraction(n, d).denominator \in Nat \ {0}
         /\ \E g \in Nat \ {0} :
              /\ n = Fraction(n, d).numerator * g
              /\ d = Fraction(n, d).denominator * g
              /\ \A e \in Nat : Divides(e, n) /\ Divides(e, d) => Divides(e, g)
<1> DEFINE g == Gcd[<<n, d>>]
<1>1. g \in Nat /\ \A e \in Nat : Divides(e, n) /\ Divides(e, d) <=> Divides(e, g)
  BY GcdDivides DEF DivisorsOf, CommonDivisors
<1>2. Fraction(n, d) = [numerator |-> Quotient(n, g), denominator |-> Quotient(d, g)]
  BY DEF Fraction, Abs
<1> HIDE DEF g
<1>3. Divides(g, n) /\ Divides(g, d)
  BY <1>1, DividesBasics
<1>4. PICK i \in Nat : n = i * g
  BY <1>3 DEF Divides
<1>5. PICK j \in Nat : d = j * g
  BY <1>3 DEF Divides
<1>6. g # 0 /\ j # 0
  BY <1>1, <1>5
<1>7. n \div g = i /\ d \div g = j
  BY <1>1, <1>4, <1>5, <1>6, Cancelled
<1>8. Quotient(n, g) = i /\ Quotient(d, g) = j
  <2>1. \A x \in Nat : Quotient(x, g) = x \div g
    BY <1>1 DEF Quotient, Abs
  <2> QED BY <1>7, <2>1
<1> QED BY <1>1, <1>2, <1>4, <1>5, <1>6, <1>8

LEMMA WholeIs ==
  ASSUME NEW n \in Nat
  PROVE  Whole(n) = [numerator |-> n, denominator |-> 1]
<1> DEFINE f == Fraction(n, 1)
<1>1. PICK g \in Nat \ {0} : n = f.numerator * g /\ 1 = f.denominator * g
  BY FractionIs
<1>2. f.numerator \in Nat /\ f.denominator \in Nat \ {0}
  BY FractionIs
<1>3. \E i, j : f = [numerator |-> i, denominator |-> j]
  BY DEF Fraction
<1> HIDE DEF f
<1>4. g = 1
  <2>1. g >= 2 => f.denominator * g >= 2
    BY <1>2
  <2> QED BY <1>1, <2>1
<1>5. f.numerator = n /\ f.denominator = 1
  BY <1>1, <1>2, <1>4
<1>6. f = [numerator |-> n, denominator |-> 1]
  BY <1>3, <1>5
<1> QED BY <1>6 DEF Whole, f

(* The whole part of a fraction does not depend on its terms. *)
LEMMA WholePart ==
  ASSUME NEW x \in Nat, NEW y \in Nat \ {0}
  PROVE  /\ ToWholeNumber(Fraction(x, y)) \in Nat
         /\ ToWholeNumber(Fraction(x, y)) * y <= x
         /\ x < ToWholeNumber(Fraction(x, y)) * y + y
<1> DEFINE f == Fraction(x, y)
           n == f.numerator
           d == f.denominator
           q == n \div d
           r == n % d
<1>1. n \in Nat /\ d \in Nat \ {0}
  BY FractionIs
<1>2. PICK g \in Nat \ {0} : x = n * g /\ y = d * g
  BY FractionIs
<1>3. ToWholeNumber(f) = q
  BY <1>1 DEF ToWholeNumber, Quotient, Abs
<1> HIDE DEF f, n, d
<1>4. q \in Int /\ r \in 0 .. d - 1 /\ n = d * q + r
  BY <1>1, Remainder
<1>5. q \in Nat
  <2> HIDE DEF q, r
  <2>1. q <= -1 => d * q <= -d
    BY <1>1, <1>4
  <2> QED BY <1>1, <1>4, <2>1
<1> HIDE DEF q, r
<1>6. n * g = (d * q) * g + r * g
  BY <1>1, <1>4, <1>5
<1>7. (d * q) * g = q * y
  <2>1. (d * q) * g = (q * d) * g /\ (q * d) * g = q * (d * g)
    BY <1>1, <1>5, Associativity
  <2> QED BY <1>2, <2>1
<1>8. r * g \in Nat /\ r * g <= (d - 1) * g /\ (d - 1) * g = d * g - g
  BY <1>1, <1>4
<1>9. x = q * y + r * g /\ r * g < y
  BY <1>1, <1>2, <1>6, <1>7, <1>8
<1>10. q * y \in Int
  BY <1>5
<1> QED BY <1>3, <1>5, <1>8, <1>9, <1>10 DEF f

(* Neither is of the other sign. *)
SameSign(m, n) == (m >= 0 => n >= 0) /\ (m <= 0 => n <= 0)

(* The sign of a fraction is that of its numerator and takes no part in    *)
(* its reduction.                                                          *)
LEMMA NegativeQuotient ==
  ASSUME NEW n \in Nat, NEW d \in Nat \ {0}
  PROVE  Quotient(-n, d) = -Quotient(n, d)
BY DEF Quotient, Abs

LEMMA NegativeFraction ==
  ASSUME NEW n \in Nat, NEW d \in Nat \ {0}
  PROVE  /\ Fraction(-n, d).numerator = -Fraction(n, d).numerator
         /\ Fraction(-n, d).denominator = Fraction(n, d).denominator
<1> DEFINE g == Gcd[<<n, d>>]
<1>1. g \in Nat /\ \A e \in Nat : Divides(e, n) /\ Divides(e, d) <=> Divides(e, g)
  BY GcdDivides DEF DivisorsOf, CommonDivisors
<1>2. Abs(n) = n /\ Abs(-n) = n /\ Abs(d) = d
  BY DEF Abs
<1>3. /\ Fraction(n, d) = [numerator |-> Quotient(n, g), denominator |-> Quotient(d, g)]
      /\ Fraction(-n, d) = [numerator |-> Quotient(-n, g), denominator |-> Quotient(d, g)]
  BY <1>2, Zenon DEF Fraction
<1> HIDE DEF g
<1>4. Divides(g, d)
  BY <1>1, DividesBasics
<1>5. g # 0
  BY <1>1, <1>4 DEF Divides
<1>6. Quotient(-n, g) = -Quotient(n, g)
  BY <1>1, <1>5, NegativeQuotient
<1> QED BY <1>3, <1>6

LEMMA FractionOfInt ==
  ASSUME NEW n \in Int, NEW d \in Nat \ {0}
  PROVE  /\ Fraction(n, d).numerator \in Int
         /\ Fraction(n, d).denominator \in Nat \ {0}
         /\ SameSign(n, Fraction(n, d).numerator)
         /\ \E g \in Nat \ {0} :
              /\ Abs(n) = Abs(Fraction(n, d).numerator) * g
              /\ d = Fraction(n, d).denominator * g
              /\ \A e \in Nat : Divides(e, Abs(n)) /\ Divides(e, d) => Divides(e, g)
<1> DEFINE m == Abs(n)
           i == Fraction(m, d).numerator
           j == Fraction(m, d).denominator
<1>1. m \in Nat /\ (n >= 0 => n = m) /\ (n < 0 => n = -m)
  BY DEF Abs
<1> HIDE DEF m
<1>2. i \in Nat /\ j \in Nat \ {0}
  BY <1>1, FractionIs
<1>3. PICK g \in Nat \ {0} :
        /\ m = i * g /\ d = j * g
        /\ \A e \in Nat : Divides(e, m) /\ Divides(e, d) => Divides(e, g)
  BY <1>1, FractionIs
<1>4. /\ Fraction(n, d).denominator = j
      /\ n >= 0 => Fraction(n, d).numerator = i
      /\ n < 0 => Fraction(n, d).numerator = -i
  BY <1>1, NegativeFraction
<1> HIDE DEF i, j
<1>5. Fraction(n, d).numerator \in Int /\ Abs(Fraction(n, d).numerator) = i
  BY <1>2, <1>4 DEF Abs
<1>6. m = 0 => i = 0
  <2>1. i >= 1 => i * g >= 1
    BY <1>2
  <2> QED BY <1>2, <1>3, <2>1
<1>7. SameSign(n, Fraction(n, d).numerator)
  BY <1>1, <1>2, <1>4, <1>6 DEF SameSign
<1> QED BY <1>2, <1>3, <1>4, <1>5, <1>7 DEF m

(* q is what n divided by d comes to, rounded down. *)
IsWholePart(q, n, d) == q * d <= n /\ n < q * d + d

LEMMA WholePartOfInt ==
  ASSUME NEW x \in Int, NEW y \in Nat \ {0}
  PROVE  /\ ToWholeNumber(Fraction(x, y)) \in Int
         /\ SameSign(x, ToWholeNumber(Fraction(x, y)))
         /\ IsWholePart(Abs(ToWholeNumber(Fraction(x, y))), Abs(x), y)
<1> DEFINE m == Abs(x)
           q == ToWholeNumber(Fraction(m, y))
<1>1. m \in Nat /\ (x >= 0 => x = m) /\ (x < 0 => x = -m)
  BY DEF Abs
<1> HIDE DEF m
<1>2. q \in Nat /\ q * y <= m /\ m < q * y + y
  BY <1>1, WholePart
<1>3. x < 0 => ToWholeNumber(Fraction(x, y)) = -q
  <2>1. Fraction(m, y).numerator \in Nat /\ Fraction(m, y).denominator \in Nat \ {0}
    BY <1>1, FractionIs
  <2>2. x < 0 => /\ Fraction(x, y).numerator = -Fraction(m, y).numerator
                 /\ Fraction(x, y).denominator = Fraction(m, y).denominator
    BY <1>1, NegativeFraction
  <2> QED BY <2>1, <2>2, NegativeQuotient DEF ToWholeNumber
<1> HIDE DEF q
<1>4. /\ ToWholeNumber(Fraction(x, y)) \in Int
      /\ Abs(ToWholeNumber(Fraction(x, y))) = q
      /\ x >= 0 => ToWholeNumber(Fraction(x, y)) = q
  BY <1>1, <1>2, <1>3 DEF Abs, q
<1>5. m = 0 => q = 0
  <2>1. q >= 1 => q * y >= 1
    BY <1>2
  <2> QED BY <1>2, <2>1
<1> QED BY <1>1, <1>2, <1>3, <1>4, <1>5 DEF SameSign, IsWholePart, m

(* What is left when precision is given up: both terms are made even and   *)
(* are at least halved.  An odd numerator is rounded down, and so its      *)
(* magnitude up if it is negative.                                         *)
Halved(n, d, n_, d_) ==
  \E k \in Nat : /\ k >= 2
                 /\ n_ * k \in {n - (n % 2), n + (n % 2)}
                 /\ d_ * k = d - (d % 2)

LEMMA MadeEven ==
  ASSUME NEW n \in Int
  PROVE  /\ n - (n % 2) \in Int
         /\ SameSign(n, n - (n % 2))
         /\ Divides(2, Abs(n - (n % 2)))
         /\ Abs(n - (n % 2)) \in {Abs(n) - (Abs(n) % 2), Abs(n) + (Abs(n) % 2)}
<1> DEFINE h == n \div 2
<1>1. h \in Int /\ n - (n % 2) = h * 2 /\ n % 2 \in {0, 1}
  OBVIOUS
<1>2. SameSign(n, n - (n % 2))
  BY <1>1 DEF SameSign
<1>3. Divides(2, Abs(n - (n % 2)))
  <2>1. Abs(h) \in Nat /\ Abs(h * 2) = Abs(h) * 2
    BY <1>1 DEF Abs
  <2> QED BY <1>1, <2>1 DEF Divides
<1>4. Abs(n - (n % 2)) \in {Abs(n) - (Abs(n) % 2), Abs(n) + (Abs(n) % 2)}
  BY <1>1 DEF Abs
<1> QED BY <1>1, <1>2, <1>3, <1>4

LEMMA DowncastIs ==
  ASSUME NEW f, f.numerator \in Int, f.denominator \in Nat, f.denominator >= 2
  PROVE  /\ Downcast(f).numerator \in Int /\ Downcast(f).denominator \in Nat \ {0}
         /\ SameSign(f.numerator, Downcast(f).numerator)
         /\ Halved(Abs(f.numerator), f.denominator,
                   Abs(Downcast(f).numerator), Downcast(f).denominator)
<1> DEFINE n == f.numerator - (f.numerator % 2)
           d == f.denominator - (f.denominator % 2)
           new == Fraction(n, d)
<1>1. /\ n \in Int /\ SameSign(f.numerator, n) /\ Divides(2, Abs(n))
      /\ Abs(n) \in {Abs(f.numerator) - (Abs(f.numerator) % 2),
                     Abs(f.numerator) + (Abs(f.numerator) % 2)}
  BY MadeEven
<1>2. d \in Nat \ {0} /\ Divides(2, d)
  <2>1. Abs(d) = d /\ d \in Nat \ {0}
    BY DEF Abs
  <2>2. Divides(2, Abs(d))
    BY MadeEven
  <2> QED BY <2>1, <2>2
<1>3. Downcast(f) = new
  BY DEF Downcast
<1> HIDE DEF n, d
<1>4. new.numerator \in Int /\ new.denominator \in Nat \ {0} /\ SameSign(n, new.numerator)
  BY <1>1, <1>2, FractionOfInt
<1>5. PICK g \in Nat \ {0} :
        /\ Abs(n) = Abs(new.numerator) * g /\ d = new.denominator * g
        /\ \A e \in Nat : Divides(e, Abs(n)) /\ Divides(e, d) => Divides(e, g)
  BY <1>1, <1>2, FractionOfInt
<1>6. g >= 2
  <2>1. PICK k \in Nat : g = k * 2
    BY <1>1, <1>2, <1>5 DEF Divides
  <2> QED BY <1>5, <2>1
<1> HIDE DEF new
<1>7. Halved(Abs(f.numerator), f.denominator, Abs(new.numerator), new.denominator)
  <2>1. d = f.denominator - (f.denominator % 2)
    BY DEF d
  <2> QED BY <1>1, <1>5, <1>6, <2>1 DEF Halved
<1>8. SameSign(f.numerator, new.numerator)
  BY <1>1, <1>4 DEF SameSign
<1> QED BY <1>3, <1>4, <1>7, <1>8

-----------------------------------------------------------------------------
(* Part 10: what is left of a time.  Numbers are magnitudes from here on,  *)
(* and the sign goes along.                                                *)

(* g is what the terms n and d have been divided by altogether, h what     *)
(* they had been divided by before the last loss, in a fraction of x parts *)
(* that was multiplied only if its numerator was below limit.              *)
Near(x, limit, n, g, h) ==
  /\ g \in Nat \ {0} /\ h \in Nat
  /\ n * g <= x + 2 * h /\ x <= n * g + 2 * h
  /\ 2 * h <= g /\ (limit - 1) * h <= x
  /\ h > 0 => x >= limit

LEMMA NearHalf ==
  ASSUME NEW x \in Nat, NEW limit \in Nat \ {0}, NEW n \in Nat, n >= limit,
         NEW g, NEW h, Near(x, limit, n, g, h),
         NEW k \in Nat, k >= 2, NEW n_ \in Nat, n_ * k \in {n - (n % 2), n + (n % 2)}
  PROVE  Near(x, limit, n_, k * g, g)
<1>1. /\ g \in Nat \ {0} /\ h \in Nat /\ n * g <= x + 2 * h /\ x <= n * g + 2 * h
      /\ 2 * h <= g /\ (h > 0 => x >= limit)
  BY DEF Near
<1>2. k * g \in Nat /\ 2 * g <= k * g
  BY <1>1
<1>3. n_ * (k * g) = (n_ * k) * g
  BY <1>1, Associativity
<1>4. n_ * k \in {n - 1, n, n + 1}
  OBVIOUS
<1>5. (n - 1) * g = n * g - g /\ (n + 1) * g = n * g + g /\ n * g \in Nat
  BY <1>1
<1>6. n_ * (k * g) \in {n * g - g, n * g, n * g + g}
  BY <1>3, <1>4, <1>5
<1>7. n_ * (k * g) <= x + 2 * g /\ x <= n_ * (k * g) + 2 * g
  BY <1>1, <1>5, <1>6
<1>8. (limit - 1) * g <= x
  <2>1. (limit - 1) * g <= (n - 1) * g /\ (limit - 1) * g \in Int
    BY <1>1
  <2> QED BY <1>1, <1>5, <2>1
<1>9. x >= limit
  <2>1. n <= n * g
    BY <1>1
  <2> QED BY <1>1, <1>5, <2>1
<1> QED BY <1>1, <1>2, <1>7, <1>8, <1>9 DEF Near

(* No numerator is larger than the time itself. *)
LEMMA NearSmall ==
  ASSUME NEW x \in Nat, NEW limit \in Nat, limit >= 2, NEW n \in Nat, NEW g, NEW h,
         Near(x, limit, n, g, h)
  PROVE  n <= x
<1>1. /\ g \in Nat \ {0} /\ h \in Nat /\ n * g <= x + 2 * h /\ 2 * h <= g
      /\ (h > 0 => x >= limit)
  BY DEF Near
<1>2. CASE h = 0
  <2>1. n <= n * g /\ n * g \in Nat
    BY <1>1
  <2> QED BY <1>1, <1>2, <2>1
<1>3. CASE h > 0 /\ n >= 1
  <2>1. (n - 1) * 2 <= (n - 1) * g /\ (n - 1) * g = n * g - g /\ n * g \in Nat
    BY <1>1, <1>3
  <2> QED BY <1>1, <1>3, <2>1
<1> QED BY <1>1, <1>2, <1>3

-----------------------------------------------------------------------------
(* Part 11: how much a conversion of times can lose.                       *)

(* A time in milliseconds is a fraction of 1000.  All passes together lose *)
(* less than half of that.                                                 *)
StallScale(d, g) == d * g <= 1000 /\ 1001 <= (d + 1) * g

LEMMA StallHalf ==
  ASSUME NEW d \in Nat, NEW g \in Nat \ {0}, StallScale(d, g),
         NEW k \in Nat, k >= 2, NEW d_ \in Nat, d_ * k = d - (d % 2)
  PROVE  StallScale(d_, k * g)
<1>1. d % 2 \in {0, 1} /\ 2 * g <= k * g /\ k * g \in Nat /\ d * g \in Nat
  OBVIOUS
<1>2. d_ * (k * g) = (d - (d % 2)) * g
  BY Associativity
<1>3. (d_ + 1) * (k * g) = d_ * (k * g) + k * g /\ (d + 1) * g = d * g + g
  OBVIOUS
<1>4. CASE d % 2 = 0
  <2>1. d_ * (k * g) = d * g
    BY <1>2, <1>4
  <2> QED BY <1>1, <1>3, <2>1 DEF StallScale
<1>5. CASE d % 2 = 1
  <2>1. (d - 1) * g = d * g - g
    OBVIOUS
  <2>2. d_ * (k * g) = d * g - g
    BY <1>2, <1>5, <2>1
  <2> QED BY <1>1, <1>3, <2>2 DEF StallScale
<1> QED BY <1>1, <1>4, <1>5

(* So the time that comes out is nearly the one that was asked for.        *)
LEMMA StallAnswer ==
  ASSUME NEW x \in Nat \ {0}, NEW n \in Nat, NEW d \in Nat \ {0}, NEW g, NEW h,
         Near(x, 2148, n, g, h), StallScale(d, g),
         NEW q \in Nat, IsWholePart(q, n * 1000000, d)
  PROVE  q >= 999 * x /\ q < 2000 * x
<1>1. /\ g \in Nat \ {0} /\ h \in Nat /\ n * g <= x + 2 * h /\ x <= n * g + 2 * h
      /\ 2147 * h <= x /\ d * g <= 1000 /\ 1001 <= (d + 1) * g
  BY DEF Near, StallScale
<1> DEFINE dg == d * g
           ng == n * g
<1>2. dg \in Nat /\ ng \in Nat /\ 1001 <= 2 * dg
  <2>1. (d + 1) * g = dg + g /\ g <= d * g
    BY <1>1
  <2> QED BY <1>1, <2>1
<1>3. (q * d) * g = q * dg /\ (n * 1000000) * g = 1000000 * ng
  BY <1>1, Associativity
<1>4. (q * d) * g <= (n * 1000000) * g
  BY <1>1 DEF IsWholePart
<1>5. (n * 1000000) * g < (q * d + d) * g /\ (q * d + d) * g = (q * d) * g + d * g
  BY <1>1 DEF IsWholePart
<1>6. q * dg <= 1000000 * ng /\ 1000000 * ng < q * dg + dg
  BY <1>3, <1>4, <1>5
<1> HIDE DEF dg, ng
<1>7. q * dg + dg <= 1000 * (q + 1)
  <2>1. q * dg + dg = (q + 1) * dg /\ (q + 1) * dg <= (q + 1) * 1000
    BY <1>1, <1>2 DEF dg
  <2> QED BY <2>1
<1>8. 1001 * q <= 2 * (q * dg)
  <2>1. q * 1001 <= q * (2 * dg) /\ q * (2 * dg) = 2 * (q * dg)
    BY <1>2
  <2> QED BY <2>1
<1>9. x <= ng + 2 * h /\ ng <= x + 2 * h /\ 2147 * h <= x
  BY <1>1 DEF ng
<1>10. q * dg \in Nat
  BY <1>2
<1>11. q >= 999 * x
  <2>1. 1000 * x - 2000 * h < q + 1
    BY <1>1, <1>2, <1>6, <1>7, <1>9, <1>10, SMT
  <2>2. 2000 * h <= x
    BY <1>1, SMT
  <2> QED BY <1>1, <2>1, <2>2, SMT
<1>12. q < 2000 * x
  <2>1. 1001 * q <= 2000000 * x + 4000000 * h
    BY <1>1, <1>2, <1>6, <1>8, <1>9, <1>10, SMT
  <2>2. 4000000 * h <= 1864 * x
    BY <1>1, SMT
  <2> QED BY <1>1, <2>1, <2>2, SMT
<1> QED BY <1>11, <1>12

(* A time that fits from the start loses nothing. *)
Exactly(d, g, h) == h = 0 => d * g = 1000

LEMMA StallExact ==
  ASSUME NEW x \in Nat, x <= 2147, NEW n \in Nat, NEW d \in Nat \ {0}, NEW g, NEW h,
         Near(x, 2148, n, g, h), Exactly(d, g, h),
         NEW q \in Nat, IsWholePart(q, n * 1000000, d)
  PROVE  q = 1000 * x
<1>1. g \in Nat \ {0} /\ h = 0 /\ n * g = x /\ d * g = 1000
  <2>1. /\ g \in Nat \ {0} /\ h \in Nat /\ n * g <= x + 2 * h /\ x <= n * g + 2 * h
        /\ h > 0 => x >= 2148
    BY DEF Near
  <2>2. h = 0 /\ n * g \in Nat
    BY <2>1
  <2> QED BY <2>1, <2>2 DEF Exactly
<1>2. (q * d) * g = q * 1000 /\ (n * 1000000) * g = 1000000 * x
  BY <1>1, Associativity
<1>3. (q * d) * g <= (n * 1000000) * g
  BY <1>1 DEF IsWholePart
<1>4. (n * 1000000) * g < (q * d + d) * g /\ (q * d + d) * g = (q * d) * g + d * g
  BY <1>1 DEF IsWholePart
<1> QED BY <1>1, <1>2, <1>3, <1>4

(* A whole number that does not fit is a large time. *)
LEMMA StallTooLarge ==
  ASSUME NEW x \in Nat, NEW n \in Nat, n >= 2148, NEW g, NEW h,
         Near(x, 2148, n, g, h), StallScale(1, g)
  PROVE  x > 1073741
<1>1. /\ g \in Nat \ {0} /\ h \in Nat /\ n * g <= x + 2 * h /\ 2 * h <= g
      /\ 1001 <= (1 + 1) * g
  BY DEF Near, StallScale
<1>2. g >= 501
  BY <1>1
<1>3. (n - 1) * g >= 2147 * 501
  <2>1. (n - 1) * g >= 2147 * g
    BY <1>1
  <2> QED BY <1>1, <1>2, <2>1
<1>4. n * g \in Nat /\ (n - 1) * g = n * g - g
  BY <1>1
<1> QED BY <1>1, <1>3, <1>4

(* A time in ticks is a fraction of 1000000, which has only a few odd      *)
(* divisors; so few of the times that its denominator is halved lose       *)
(* anything.                                                               *)
ClockScale(x, d, g) ==
  \/ d * g = 1000000
  \/ x >= 4294968 /\ d * g \in {999936, 999680, 999424}

IsProduct(d, g, n) == d * g = n

LEMMA OddFactor ==
  ASSUME NEW d \in Nat, d % 2 = 1, NEW g \in Nat, NEW x \in Nat, IsProduct(d, g, 2 * x)
  PROVE  \E i \in Nat : g = 2 * i /\ IsProduct(d, i, x)
<1>0. d * g = 2 * x
  BY DEF IsProduct
<1> DEFINE i == g \div 2
           j == d \div 2
<1>1. i \in Nat /\ (g = 2 * i \/ g = 2 * i + 1)
  OBVIOUS
<1>2. j \in Nat /\ d = 2 * j + 1
  OBVIOUS
<1> HIDE DEF i, j
<1>3. g = 2 * i
  <2>1. CASE g = 2 * i + 1
    <3> DEFINE z == j * g
    <3>1. d * g = 2 * z + g
      BY <1>1, <1>2
    <3>2. z \in Nat
      BY <1>2
    <3> HIDE DEF z
    <3> QED BY <1>0, <1>1, <2>1, <3>1, <3>2
  <2> QED BY <1>1, <2>1
<1>4. d * (2 * i) = 2 * (d * i) /\ d * i \in Nat
  BY <1>1
<1>5. d * i = x
  BY <1>0, <1>3, <1>4
<1> QED BY <1>1, <1>3, <1>5 DEF IsProduct

LEMMA OddFactors ==
  ASSUME NEW d \in Nat, d % 2 = 1, NEW g \in Nat, NEW x \in Nat, IsProduct(d, g, 8 * x)
  PROVE  \E i \in Nat : g = 8 * i /\ IsProduct(d, i, x)
<1> DEFINE double == 2 * x
           more == 2 * double
<1>1. double \in Nat /\ more \in Nat /\ 8 * x = 2 * more
  OBVIOUS
<1> HIDE DEF double, more
<1>2. PICK i \in Nat : g = 2 * i /\ IsProduct(d, i, more)
  BY <1>1, OddFactor, Zenon
<1>3. IsProduct(d, i, 2 * double)
  BY <1>2, Zenon DEF more
<1>4. PICK j \in Nat : i = 2 * j /\ IsProduct(d, j, double)
  BY <1>1, <1>3, OddFactor, Zenon
<1>5. IsProduct(d, j, 2 * x)
  BY <1>4, Zenon DEF double
<1>6. PICK k \in Nat : j = 2 * k /\ IsProduct(d, k, x)
  BY <1>5, OddFactor, Zenon
<1>7. g = 8 * k
  BY <1>2, <1>4, <1>6
<1> QED BY <1>6, <1>7

OddDivisor(n, g) ==
  /\ n = 1000000 => g \in {64, 320}
  /\ n = 999936 => g = 512
  /\ n = 999680 => g = 256
  /\ n # 999424

LEMMA OddDivisors ==
  ASSUME NEW d \in Nat, d % 2 = 1, NEW g \in Nat, g <= 1000
  PROVE  OddDivisor(d * g, g)
<1>1. ASSUME NEW x \in Nat, IsProduct(d, g, 64 * x)
      PROVE  \E i \in 0 .. 15 : g = 64 * i /\ d * i = x
  <2> DEFINE y == 8 * x
  <2>1. y \in Nat /\ 64 * x = 8 * y
    OBVIOUS
  <2>2. IsProduct(d, g, 8 * y)
    <3> HIDE DEF y
    <3> QED BY <1>1, <2>1, Zenon
  <2> HIDE DEF y
  <2>3. PICK i \in Nat : g = 8 * i /\ IsProduct(d, i, y)
    BY <2>1, <2>2, OddFactors, Zenon
  <2>4. IsProduct(d, i, 8 * x)
    BY <2>3, Zenon DEF y
  <2>5. PICK j \in Nat : i = 8 * j /\ IsProduct(d, j, x)
    BY <2>4, OddFactors, Zenon
  <2>6. g = 64 * j /\ j \in 0 .. 15
    BY <2>3, <2>5
  <2> QED BY <2>5, <2>6 DEF IsProduct
<1>2. PICK k \in Nat : d = 2 * k + 1
  <2>1. d \div 2 \in Nat /\ d = 2 * (d \div 2) + 1
    OBVIOUS
  <2> QED BY <2>1
<1>3. \A i \in 0 .. 15 :
        i \in {0, 1, 2, 3, 4, 5, 6, 7, 8, 9, 10, 11, 12, 13, 14, 15}
  OBVIOUS
<1>4. ASSUME d * g = 1000000
      PROVE  g \in {64, 320}
  <2> DEFINE x == 15625
  <2>1. x \in Nat /\ IsProduct(d, g, 64 * x)
    BY <1>4 DEF IsProduct
  <2> HIDE DEF x
  <2>2. PICK i \in 0 .. 15 : g = 64 * i /\ d * i = x
    BY <1>1, <2>1, Zenon
  <2>3. i \in {1, 5}
    BY <1>3, <2>2 DEF x
  <2> QED BY <2>2, <2>3
<1>5. ASSUME d * g = 999936
      PROVE  g = 512
  <2> DEFINE x == 15624
  <2>1. x \in Nat /\ IsProduct(d, g, 64 * x)
    BY <1>5 DEF IsProduct
  <2> HIDE DEF x
  <2>2. PICK i \in 0 .. 15 : g = 64 * i /\ d * i = x
    BY <1>1, <2>1, Zenon
  <2>3. i = 8
    BY <1>2, <1>3, <2>2 DEF x
  <2> QED BY <2>2, <2>3
<1>6. ASSUME d * g = 999680
      PROVE  g = 256
  <2> DEFINE x == 15620
  <2>1. x \in Nat /\ IsProduct(d, g, 64 * x)
    BY <1>6 DEF IsProduct
  <2> HIDE DEF x
  <2>2. PICK i \in 0 .. 15 : g = 64 * i /\ d * i = x
    BY <1>1, <2>1, Zenon
  <2>3. i = 4
    BY <1>2, <1>3, <2>2 DEF x
  <2> QED BY <2>2, <2>3
<1>7. ASSUME d * g = 999424
      PROVE  FALSE
  <2> DEFINE x == 15616
  <2>1. x \in Nat /\ IsProduct(d, g, 64 * x)
    BY <1>7 DEF IsProduct
  <2> HIDE DEF x
  <2>2. PICK i \in 0 .. 15 : g = 64 * i /\ d * i = x
    BY <1>1, <2>1, Zenon
  <2> QED BY <1>2, <1>3, <2>2 DEF x
<1> QED BY <1>4, <1>5, <1>6, <1>7 DEF OddDivisor

(* While the numerator is too large, little has been divided away yet.     *)
LEMMA EarlyOn ==
  ASSUME NEW x \in Nat, x <= 2147483647, NEW n \in Nat, n >= 2147484, NEW g, NEW h,
         Near(x, 2147484, n, g, h)
  PROVE  g \in Nat \ {0} /\ g <= 1000 /\ 2147483 * g <= x
<1>1. g \in Nat \ {0} /\ h \in Nat /\ n * g <= x + 2 * h /\ 2 * h <= g
  BY DEF Near
<1>2. 2147484 * g <= n * g /\ n * g \in Nat
  BY <1>1
<1>3. 2147483 * g <= x
  BY <1>1, <1>2
<1> QED BY <1>1, <1>3

LEMMA ClockHalf ==
  ASSUME NEW x \in Nat, x <= 2147483647, NEW n \in Nat, n >= 2147484, NEW g, NEW h,
         Near(x, 2147484, n, g, h), NEW d \in Nat, ClockScale(x, d, g),
         NEW k \in Nat, k >= 2, NEW d_ \in Nat, d_ * k = d - (d % 2)
  PROVE  ClockScale(x, d_, k * g)
<1>1. g \in Nat /\ g <= 1000 /\ 2147483 * g <= x
  BY EarlyOn
<1>2. d_ * (k * g) = (d - (d % 2)) * g
  BY <1>1, Associativity
<1>3. CASE d % 2 = 0
  <2>1. d_ * (k * g) = d * g
    BY <1>2, <1>3
  <2> QED BY <2>1 DEF ClockScale
<1>4. CASE d % 2 = 1
  <2>1. (d - 1) * g = d * g - g
    BY <1>1
  <2>2. d_ * (k * g) = d * g - g
    BY <1>2, <1>4, <2>1
  <2>3. OddDivisor(d * g, g)
    BY <1>1, <1>4, OddDivisors
  <2>4. \/ d * g = 1000000 /\ g = 64
        \/ d * g = 1000000 /\ g = 320
        \/ d * g = 999936 /\ g = 512
        \/ d * g = 999680 /\ g = 256
    BY <2>3 DEF ClockScale, OddDivisor
  <2>5. x >= 4294968 /\ d * g - g \in {999936, 999680, 999424}
    BY <1>1, <2>4
  <2> QED BY <2>2, <2>5 DEF ClockScale
<1>5. d % 2 \in {0, 1}
  OBVIOUS
<1> QED BY <1>3, <1>4, <1>5

LEMMA ClockFits ==
  ASSUME NEW x \in Nat, x <= 2147483647, NEW n \in Nat, NEW g, NEW h,
         Near(x, 2147484, n, g, h), ClockScale(x, 1, g)
  PROVE  n < 2147484
<1>1. g \in Nat /\ 1 * g = g
  BY DEF Near
<1>2. g > 1000
  BY <1>1 DEF ClockScale
<1> QED BY <1>1, <1>2, EarlyOn

NearlyTime(q, x) == 1000 * Abs(q - (x \div 1000)) <= x \div 1000

LEMMA ClockAnswer ==
  ASSUME NEW x \in Nat, x <= 2147483647, NEW n \in Nat, NEW d \in Nat \ {0}, NEW g, NEW h,
         Near(x, 2147484, n, g, h), ClockScale(x, d, g),
         NEW q \in Nat, IsWholePart(q, n * 1000, d)
  PROVE  NearlyTime(q, x)
<1>1. /\ g \in Nat \ {0} /\ h \in Nat /\ n * g <= x + 2 * h /\ x <= n * g + 2 * h
      /\ 2147483 * h <= x /\ (h > 0 => x >= 2147484)
  BY DEF Near
<1> DEFINE dg == d * g
           ng == n * g
           s == x \div 1000
<1>2. dg \in Nat /\ ng \in Nat
  BY <1>1
<1>3. (q * d) * g = q * dg /\ (n * 1000) * g = 1000 * ng
  BY <1>1, Associativity
<1>4. (q * d) * g <= (n * 1000) * g
  BY <1>1 DEF IsWholePart
<1>5. (n * 1000) * g < (q * d + d) * g /\ (q * d + d) * g = (q * d) * g + d * g
  BY <1>1 DEF IsWholePart
<1>6. q * dg <= 1000 * ng /\ 1000 * ng < q * dg + dg
  BY <1>3, <1>4, <1>5
<1>7. x <= ng + 2 * h /\ ng <= x + 2 * h
  BY <1>1
<1>8. dg = 1000000 \/ (x >= 4294968 /\ dg \in {999936, 999680, 999424})
  BY DEF ClockScale
<1>9. s \in Nat /\ 1000 * s <= x /\ x <= 1000 * s + 999
  OBVIOUS
<1> HIDE DEF dg, ng, s
<1>10. q * dg \in Nat
  BY <1>2
<1>11. q * dg + dg <= 1000000 * (q + 1)
  <2>1. dg <= 1000000
    BY <1>8
  <2>2. q * dg + dg = (q + 1) * dg /\ (q + 1) * dg <= (q + 1) * 1000000
    BY <1>2, <2>1
  <2> QED BY <2>2
<1>12. 1000 * (s - q) <= s
  <2>1. 1000 * x - 2000 * h < 1000000 * (q + 1)
    BY <1>1, <1>2, <1>6, <1>7, <1>10, <1>11
  <2>2. h = 0 \/ (h <= 1000 /\ x >= 2147484)
    BY <1>1
  <2>3. CASE h = 0
    BY <1>9, <2>1, <2>3
  <2>4. CASE h <= 1000 /\ x >= 2147484
    BY <1>1, <1>9, <2>1, <2>4
  <2> QED BY <2>2, <2>3, <2>4
<1>13. 1000 * (q - s) <= s
  <2>1. CASE dg = 1000000
    <3>1. 1000000 * q <= 1000 * x + 2000 * h
      BY <1>1, <1>2, <1>6, <1>7, <2>1
    <3>2. h = 0 \/ (h <= 1000 /\ x >= 2147484)
      BY <1>1
    <3> QED BY <1>1, <1>9, <3>1, <3>2
  <2>2. CASE x >= 4294968 /\ dg \in {999936, 999680, 999424}
    <3>1. 999424 * q <= q * dg
      <4>1. q * 999424 <= q * dg
        BY <1>2, <2>2
      <4> QED BY <4>1
    <3>2. 999424 * q <= 1000 * x + 2000 * h
      BY <1>1, <1>2, <1>6, <1>7, <1>10, <3>1
    <3> QED BY <1>1, <1>9, <2>2, <3>2
  <2> QED BY <1>8, <2>1, <2>2
<1>14. 1000 * Abs(q - s) <= s
  BY <1>9, <1>12, <1>13 DEF Abs
<1> QED BY <1>14 DEF s, NearlyTime

-----------------------------------------------------------------------------
(* Part 12: the conversions.                                               *)

(* The width of a long and the frequency of the timer in the sources.      *)
SourceValues == LONG_MAX = 2147483647 /\ SYSTIMER_FREQUENCY_HZ = 1000000

(* A conversion multiplies its fraction, of the sign of what was asked,    *)
(* with a whole number.                                                    *)
Factors(m) ==
  /\ a.numerator \in Int /\ a.denominator \in Nat \ {0}
  /\ SameSign(asked, a.numerator)
  /\ b = [numerator |-> m, denominator |-> 1]

StallLeft(x, n, d) ==
  \E g, h : Near(x, 2148, n, g, h) /\ StallScale(d, g) /\ Exactly(d, g, h)

ClockLeft(x, n, d) ==
  \E g, h : Near(x, 2147484, n, g, h) /\ ClockScale(x, d, g)

StallUnderWay ==
  /\ Factors(SYSTIMER_FREQUENCY_HZ)
  /\ StallLeft(Abs(asked), Abs(a.numerator), a.denominator)

ClockUnderWay ==
  /\ Factors(1000)
  /\ ClockLeft(Abs(asked), Abs(a.numerator), a.denominator)

Longs == LONG_MIN .. LONG_MAX

TimesInv ==
  /\ call \in {"none", "stall_thread", "get_time"}
  /\ call = "none" => answer = "pending"
  /\ call # "none" => asked \in Longs
  /\ call = "stall_thread" /\ HasMagnitude => StallUnderWay
  /\ call = "get_time" /\ HasMagnitude => ClockUnderWay
  /\ TimesRight

LEMMA AbsIs ==
  ASSUME NEW n \in Int
  PROVE  Abs(n) \in Nat /\ (n >= 0 => Abs(n) = n) /\ (n < 0 => Abs(n) = -n)
BY DEF Abs

LEMMA MagnitudeFits ==
  ASSUME SourceValues, asked \in Longs, HasMagnitude
  PROVE  /\ asked \in Int /\ Abs(asked) \in Nat /\ Abs(asked) <= 2147483647
         /\ asked < 0 => Abs(asked) < 2147483647
<1>1. asked \in Int /\ asked <= LONG_MAX /\ asked > -LONG_MAX /\ LONG_MAX = 2147483647
  <2>1. LONG_MIN \in Int /\ LONG_MAX \in Int
    BY FractionsAssumption DEF LONG_MIN
  <2> QED BY <2>1, SMT DEF SourceValues, Longs, HasMagnitude
<1>2. Abs(asked) \in Nat /\ (asked >= 0 => Abs(asked) = asked) /\ (asked < 0 => Abs(asked) = -asked)
  BY <1>1, AbsIs
<1> QED BY <1>1, <1>2, SMT

(* Nothing undefined is met while the terms have magnitudes. *)
LEMMA CompactionIs ==
  ASSUME SourceValues, NEW n \in Int, n > -2147483648, NEW d, NEW f, f \in Compactions(n, d)
  PROVE  f = Fraction(n, d)
<1>1. n # LONG_MIN
  BY DEF LONG_MIN, SourceValues
<1> QED BY <1>1 DEF Compactions

LEMMA StartExact ==
  ASSUME NEW x \in Int, NEW parts \in Nat \ {0}, NEW limit \in Nat \ {0}
  PROVE  /\ Fraction(x, parts).numerator \in Int
         /\ Fraction(x, parts).denominator \in Nat \ {0}
         /\ SameSign(x, Fraction(x, parts).numerator)
         /\ \E g \in Nat \ {0} :
              /\ Near(Abs(x), limit, Abs(Fraction(x, parts).numerator), g, 0)
              /\ Fraction(x, parts).denominator * g = parts
<1> DEFINE f == Fraction(x, parts)
           n == Abs(f.numerator)
           m == Abs(x)
<1>1. /\ f.numerator \in Int /\ f.denominator \in Nat \ {0} /\ SameSign(x, f.numerator)
      /\ n \in Nat /\ m \in Nat
  BY FractionOfInt, AbsIs
<1>2. PICK g \in Nat \ {0} :
        /\ m = n * g /\ parts = f.denominator * g
        /\ \A e \in Nat : Divides(e, m) /\ Divides(e, parts) => Divides(e, g)
  BY FractionOfInt
<1> HIDE DEF f, n, m
<1>3. Near(m, limit, n, g, 0)
  <2>1. limit - 1 \in Nat
    OBVIOUS
  <2>2. (limit - 1) * 0 = 0 /\ n * g \in Nat
    BY <1>1, <2>1
  <2> QED BY <1>1, <1>2, <2>2 DEF Near
<1> QED BY <1>1, <1>2, <1>3 DEF f, n, m

LEMMA StallBegins ==
  ASSUME SourceValues, NEW ms \in StallTimes, MillisecondsToHertz(ms)
  PROVE  call' = "stall_thread" /\ asked' \in Longs /\ (HasMagnitude' => StallUnderWay')
<1>1. /\ call' = "stall_thread" /\ asked' = ms
      /\ a' \in Compactions(ms, 1000) /\ b' = Whole(SYSTIMER_FREQUENCY_HZ)
  BY DEF MillisecondsToHertz
<1>2. ms \in Longs /\ ms \in Int /\ SYSTIMER_FREQUENCY_HZ \in Nat
  BY TimingAssumption, FractionsAssumption DEF Longs, LONG_MIN
<1>3. ASSUME HasMagnitude'
      PROVE  StallUnderWay'
  <2>1. ms > -2147483648
    BY <1>1, <1>2, <1>3 DEF HasMagnitude, SourceValues
  <2> DEFINE f == Fraction(ms, 1000)
  <2>2. a' = f
    BY <1>1, <1>2, <2>1, CompactionIs
  <2>3. /\ f.numerator \in Int /\ f.denominator \in Nat \ {0} /\ SameSign(ms, f.numerator)
        /\ \E g \in Nat \ {0} :
             Near(Abs(ms), 2148, Abs(f.numerator), g, 0) /\ f.denominator * g = 1000
    BY <1>2, StartExact
  <2> HIDE DEF f
  <2>4. b' = [numerator |-> SYSTIMER_FREQUENCY_HZ, denominator |-> 1]
    BY <1>1, <1>2, WholeIs
  <2>5. Factors(SYSTIMER_FREQUENCY_HZ)'
    BY <1>1, <2>2, <2>3, <2>4 DEF Factors
  <2>6. PICK g \in Nat \ {0} :
          Near(Abs(ms), 2148, Abs(f.numerator), g, 0) /\ f.denominator * g = 1000
    BY <2>3
  <2>7. StallScale(f.denominator, g)
    <3>1. (f.denominator + 1) * g = f.denominator * g + g
      BY <2>3
    <3> QED BY <2>6, <3>1 DEF StallScale
  <2>8. Exactly(f.denominator, g, 0)
    BY <2>6 DEF Exactly
  <2>9. StallLeft(Abs(ms), Abs(f.numerator), f.denominator)
    BY <2>6, <2>7, <2>8 DEF StallLeft
  <2> QED BY <1>1, <2>2, <2>5, <2>9 DEF StallUnderWay
<1> QED BY <1>1, <1>2, <1>3

LEMMA ClockBegins ==
  ASSUME SourceValues, NEW hz \in ClockValues, HertzToMilliseconds(hz)
  PROVE  call' = "get_time" /\ asked' \in Longs /\ (HasMagnitude' => ClockUnderWay')
<1>1. /\ call' = "get_time" /\ asked' = hz
      /\ a' \in Compactions(hz, SYSTIMER_FREQUENCY_HZ) /\ b' = Whole(1000)
  BY DEF HertzToMilliseconds
<1>2. hz \in Longs /\ hz \in Int
  BY TimingAssumption, FractionsAssumption DEF Longs, LONG_MIN
<1>3. ASSUME HasMagnitude'
      PROVE  ClockUnderWay'
  <2>1. hz > -2147483648
    BY <1>1, <1>2, <1>3 DEF HasMagnitude, SourceValues
  <2> DEFINE f == Fraction(hz, 1000000)
  <2>2. a' = f
    BY <1>1, <1>2, <2>1, CompactionIs DEF SourceValues
  <2>3. /\ f.numerator \in Int /\ f.denominator \in Nat \ {0} /\ SameSign(hz, f.numerator)
        /\ \E g \in Nat \ {0} :
             Near(Abs(hz), 2147484, Abs(f.numerator), g, 0) /\ f.denominator * g = 1000000
    BY <1>2, StartExact
  <2> HIDE DEF f
  <2>4. b' = [numerator |-> 1000, denominator |-> 1]
    BY <1>1, WholeIs
  <2>5. Factors(1000)'
    BY <1>1, <2>2, <2>3, <2>4 DEF Factors
  <2>6. PICK g \in Nat \ {0} :
          Near(Abs(hz), 2147484, Abs(f.numerator), g, 0) /\ f.denominator * g = 1000000
    BY <2>3
  <2>7. ClockScale(Abs(hz), f.denominator, g)
    BY <2>6 DEF ClockScale
  <2>8. ClockLeft(Abs(hz), Abs(f.numerator), f.denominator)
    BY <2>6, <2>7 DEF ClockLeft
  <2> QED BY <1>1, <2>2, <2>5, <2>8 DEF ClockUnderWay
<1> QED BY <1>1, <1>2, <1>3

(* The product fits if the numerator is small enough. *)
LEMMA FitsWhenSmall ==
  ASSUME SourceValues, NEW m \in {1000, 1000000}, Factors(m), a.denominator <= 1000000
  PROVE  ProductFits(a, b) <=> Abs(a.numerator) <= LONG_MAX \div m
<1>1. a.denominator \in Nat /\ m \in Nat \ {0}
  BY DEF Factors
<1>2. b.numerator = m /\ b.denominator = 1
  BY DEF Factors
<1>3. Abs(m) = m /\ Abs(1) = 1 /\ Abs(a.denominator) = a.denominator
  BY <1>1 DEF Abs
<1>4. a.denominator <= LONG_MAX \div 1
  BY <1>1 DEF SourceValues
<1> QED BY <1>1, <1>2, <1>3, <1>4 DEF ProductFits, Fits

(* The terms of a fraction under way, as natural numbers. *)
LEMMA Terms ==
  ASSUME NEW m, Factors(m)
  PROVE  Abs(a.numerator) \in Nat /\ a.denominator \in Nat \ {0}
BY AbsIs DEF Factors

LEMMA StallLimit ==
  ASSUME SourceValues, StallUnderWay
  PROVE  ProductFits(a, b) <=> Abs(a.numerator) < 2148
<1>1. PICK g, h : Near(Abs(asked), 2148, Abs(a.numerator), g, h) /\ StallScale(a.denominator, g)
  BY DEF StallUnderWay, StallLeft
<1>2. Abs(a.numerator) \in Nat /\ a.denominator \in Nat
  BY Terms DEF StallUnderWay
<1>3. g \in Nat \ {0} /\ a.denominator * g <= 1000
  BY <1>1 DEF Near, StallScale
<1>4. a.denominator <= 1000000
  <2>1. a.denominator <= a.denominator * g /\ a.denominator * g \in Nat
    BY <1>2, <1>3
  <2> QED BY <1>2, <1>3, <2>1
<1>5. LONG_MAX \div 1000000 = 2147 /\ SYSTIMER_FREQUENCY_HZ = 1000000
  BY DEF SourceValues
<1>6. ProductFits(a, b) <=> Abs(a.numerator) <= 2147
  BY <1>4, <1>5, FitsWhenSmall DEF StallUnderWay
<1> QED BY <1>2, <1>6

LEMMA ClockLimit ==
  ASSUME SourceValues, ClockUnderWay
  PROVE  ProductFits(a, b) <=> Abs(a.numerator) < 2147484
<1>1. PICK g, h : /\ Near(Abs(asked), 2147484, Abs(a.numerator), g, h)
                  /\ ClockScale(Abs(asked), a.denominator, g)
  BY DEF ClockUnderWay, ClockLeft
<1>2. Abs(a.numerator) \in Nat /\ a.denominator \in Nat
  BY Terms DEF ClockUnderWay
<1>3. g \in Nat \ {0} /\ a.denominator * g <= 1000000
  BY <1>1 DEF Near, ClockScale
<1>4. a.denominator <= 1000000
  <2>1. a.denominator <= a.denominator * g /\ a.denominator * g \in Nat
    BY <1>2, <1>3
  <2> QED BY <1>2, <1>3, <2>1
<1>5. LONG_MAX \div 1000 = 2147483
  BY DEF SourceValues
<1>6. ProductFits(a, b) <=> Abs(a.numerator) <= 2147483
  BY <1>4, <1>5, FitsWhenSmall DEF ClockUnderWay
<1> QED BY <1>2, <1>6

(* A fraction that is too large loses precision. *)
LEMMA CoarserHalves ==
  ASSUME SourceValues, NEW m, Factors(m), asked \in Longs, HasMagnitude,
         Abs(a.numerator) <= Abs(asked), MakeCoarser
  PROVE  /\ Factors(m)'
         /\ Halved(Abs(a.numerator), a.denominator, Abs(a'.numerator), a'.denominator)
<1>1. /\ a.numerator \in Int /\ a.denominator \in Nat /\ a.denominator >= 2
      /\ SameSign(asked, a.numerator)
  BY DEF Factors, MakeCoarser, IsWhole
<1>2. a.numerator - (a.numerator % 2) \in Int /\ a.numerator - (a.numerator % 2) > -2147483648
  <2>1. a.numerator >= 0 \/ a.numerator > -2147483647
    <3>1. /\ asked \in Int /\ Abs(asked) <= 2147483647
          /\ asked < 0 => Abs(asked) < 2147483647
      BY MagnitudeFits
    <3>2. /\ a.numerator < 0 => Abs(a.numerator) = -a.numerator
          /\ Abs(asked) \in Nat /\ Abs(a.numerator) \in Nat
      BY <1>1, <3>1, AbsIs
    <3>3. a.numerator < 0 => asked < 0
      BY <1>1, <3>1 DEF SameSign
    <3> QED BY <1>1, <3>1, <3>2, <3>3
  <2>2. a.numerator % 2 \in {0, 1} /\ (a.numerator = -2147483646 => a.numerator % 2 = 0)
    BY <1>1
  <2> QED BY <1>1, <2>1, <2>2
<1>3. a' = Downcast(a) /\ b' = b /\ asked' = asked
  BY <1>2, CompactionIs DEF MakeCoarser, Downcast
<1>4. /\ Downcast(a).numerator \in Int /\ Downcast(a).denominator \in Nat \ {0}
      /\ SameSign(a.numerator, Downcast(a).numerator)
      /\ Halved(Abs(a.numerator), a.denominator,
                Abs(Downcast(a).numerator), Downcast(a).denominator)
  BY <1>1, DowncastIs
<1>5. SameSign(asked, Downcast(a).numerator)
  <2>1. asked \in Int
    BY MagnitudeFits
  <2> QED BY <1>1, <1>4, <2>1 DEF SameSign
<1> QED BY <1>3, <1>4, <1>5 DEF Factors

LEMMA StallLeftHalf ==
  ASSUME NEW x \in Nat, NEW n \in Nat, n >= 2148, NEW d \in Nat, StallLeft(x, n, d),
         NEW n_ \in Nat, NEW d_ \in Nat, Halved(n, d, n_, d_)
  PROVE  StallLeft(x, n_, d_)
<1>1. PICK g, h : Near(x, 2148, n, g, h) /\ StallScale(d, g)
  BY DEF StallLeft
<1>2. PICK k \in Nat : /\ k >= 2 /\ n_ * k \in {n - (n % 2), n + (n % 2)}
                       /\ d_ * k = d - (d % 2)
  BY DEF Halved
<1>3. Near(x, 2148, n_, k * g, g)
  BY <1>1, <1>2, NearHalf
<1>4. g \in Nat \ {0}
  BY <1>1 DEF Near
<1>5. StallScale(d_, k * g)
  BY <1>1, <1>2, <1>4, StallHalf
<1>6. Exactly(d_, k * g, g)
  BY <1>4 DEF Exactly
<1> QED BY <1>3, <1>5, <1>6 DEF StallLeft

LEMMA ClockLeftHalf ==
  ASSUME NEW x \in Nat, x <= 2147483647, NEW n \in Nat, n >= 2147484, NEW d \in Nat,
         ClockLeft(x, n, d),
         NEW n_ \in Nat, NEW d_ \in Nat, Halved(n, d, n_, d_)
  PROVE  ClockLeft(x, n_, d_)
<1>1. PICK g, h : Near(x, 2147484, n, g, h) /\ ClockScale(x, d, g)
  BY DEF ClockLeft
<1>2. PICK k \in Nat : /\ k >= 2 /\ n_ * k \in {n - (n % 2), n + (n % 2)}
                       /\ d_ * k = d - (d % 2)
  BY DEF Halved
<1>3. Near(x, 2147484, n_, k * g, g)
  BY <1>1, <1>2, NearHalf
<1>4. ClockScale(x, d_, k * g)
  BY <1>1, <1>2, ClockHalf
<1> QED BY <1>3, <1>4 DEF ClockLeft

LEMMA StallGoesOn ==
  ASSUME SourceValues, StallUnderWay, MakeCoarser, asked \in Longs, HasMagnitude
  PROVE  StallUnderWay'
<1> DEFINE x == Abs(asked)
           n == Abs(a.numerator)
           n_ == Abs(a'.numerator)
<1>1. x \in Nat /\ n \in Nat /\ a.denominator \in Nat /\ StallLeft(x, n, a.denominator)
  BY MagnitudeFits, Terms DEF StallUnderWay
<1>2. n >= 2148
  BY <1>1, StallLimit DEF MakeCoarser
<1>3. n <= x
  <2> HIDE DEF n, x
  <2>1. PICK g, h : Near(x, 2148, n, g, h)
    BY <1>1 DEF StallLeft
  <2> QED BY <1>1, <2>1, NearSmall
<1>4. Factors(SYSTIMER_FREQUENCY_HZ)' /\ Halved(n, a.denominator, n_, a'.denominator)
  BY <1>3, CoarserHalves DEF StallUnderWay
<1>5. n_ \in Nat /\ a'.denominator \in Nat
  BY <1>4, AbsIs DEF Factors
<1>6. asked' = asked
  BY DEF MakeCoarser
<1> HIDE DEF x, n, n_
<1>7. StallLeft(x, n_, a'.denominator)
  BY <1>1, <1>2, <1>4, <1>5, StallLeftHalf
<1> QED BY <1>4, <1>6, <1>7 DEF StallUnderWay, x, n_

LEMMA ClockGoesOn ==
  ASSUME SourceValues, ClockUnderWay, MakeCoarser, asked \in Longs, HasMagnitude
  PROVE  ClockUnderWay'
<1> DEFINE x == Abs(asked)
           n == Abs(a.numerator)
           n_ == Abs(a'.numerator)
<1>1. /\ x \in Nat /\ x <= 2147483647
      /\ n \in Nat /\ a.denominator \in Nat /\ ClockLeft(x, n, a.denominator)
  BY MagnitudeFits, Terms DEF ClockUnderWay
<1>2. n >= 2147484
  BY <1>1, ClockLimit DEF MakeCoarser
<1>3. n <= x
  <2> HIDE DEF n, x
  <2>1. PICK g, h : Near(x, 2147484, n, g, h)
    BY <1>1 DEF ClockLeft
  <2> QED BY <1>1, <2>1, NearSmall
<1>4. Factors(1000)' /\ Halved(n, a.denominator, n_, a'.denominator)
  BY <1>3, CoarserHalves DEF ClockUnderWay
<1>5. n_ \in Nat /\ a'.denominator \in Nat
  BY <1>4, AbsIs DEF Factors
<1>6. asked' = asked
  BY DEF MakeCoarser
<1> HIDE DEF x, n, n_
<1>7. ClockLeft(x, n_, a'.denominator)
  BY <1>1, <1>2, <1>4, <1>5, ClockLeftHalf
<1> QED BY <1>4, <1>6, <1>7 DEF ClockUnderWay, x, n_

(* What a multiplication returns. *)
LEMMA ProductIs ==
  ASSUME NEW m \in Nat \ {0}, Factors(m), asked \in Int
  PROVE  /\ Product \in Int /\ SameSign(asked, Product)
         /\ IsWholePart(Abs(Product), Abs(a.numerator) * m, a.denominator)
<1> DEFINE x == a.numerator * m
           y == a.denominator
<1>1. x \in Int /\ y \in Nat \ {0} /\ a.numerator \in Int
  BY DEF Factors
<1>2. a.numerator * b.numerator = x /\ a.denominator * b.denominator = y
  BY DEF Factors
<1>3. Abs(x) = Abs(a.numerator) * m
  <2>1. CASE a.numerator >= 0
    <3>1. x >= 0
      BY <1>1, <2>1
    <3> QED BY <1>1, <2>1, <3>1 DEF Abs
  <2>2. CASE a.numerator < 0
    <3>1. x < 0 /\ (-a.numerator) * m = -x
      BY <1>1, <2>2
    <3> QED BY <1>1, <2>2, <3>1 DEF Abs
  <2> QED BY <1>1, <2>1, <2>2
<1>4. SameSign(asked, x)
  <2>1. /\ a.numerator >= 0 => x >= 0
        /\ a.numerator <= 0 => x <= 0
    BY <1>1
  <2>2. SameSign(asked, a.numerator)
    BY DEF Factors
  <2> QED BY <2>1, <2>2 DEF SameSign
<1> HIDE DEF x, y
<1>5. Product = ToWholeNumber(Fraction(x, y))
  BY <1>2, Zenon DEF Product
<1>6. Product \in Int /\ SameSign(x, Product) /\ IsWholePart(Abs(Product), Abs(x), y)
  <2>1. /\ ToWholeNumber(Fraction(x, y)) \in Int
        /\ SameSign(x, ToWholeNumber(Fraction(x, y)))
        /\ IsWholePart(Abs(ToWholeNumber(Fraction(x, y))), Abs(x), y)
    BY <1>1, WholePartOfInt
  <2> QED BY <1>5, <2>1, Zenon
<1>7. SameSign(asked, Product)
  BY <1>1, <1>4, <1>6 DEF SameSign
<1> QED BY <1>3, <1>6, <1>7 DEF y, IsWholePart

LEMMA QuotientBetween ==
  ASSUME NEW x \in Nat \ {0}, NEW q \in Nat, NEW low \in Nat, NEW high \in Nat,
         low * x <= q, q < high * x
  PROVE  low <= q \div x /\ q \div x < high
<1> DEFINE i == q \div x
           r == q % x
<1>0. q \in Int
  OBVIOUS
<1>1. i \in Int /\ r \in 0 .. x - 1 /\ q = x * i + r
  BY <1>0, Remainder, Zenon
<1> HIDE DEF i, r
<1>2. i >= high => x * i >= x * high
  BY <1>1
<1>3. i + 1 <= low => x * (i + 1) <= x * low
  BY <1>1
<1>4. x * (i + 1) = x * i + x /\ x * low = low * x /\ x * high = high * x
  BY <1>1
<1>5. low <= i /\ i < high
  BY <1>1, <1>2, <1>3, <1>4
<1> QED BY <1>5 DEF i

(* The magnitude of a sleep. *)
LEMMA StallMagnitude ==
  ASSUME NEW x \in Nat, NEW n \in Nat, n < 2148, NEW d \in Nat \ {0}, StallLeft(x, n, d),
         NEW q \in Nat, IsWholePart(q, n * 1000000, d)
  PROVE  /\ x <= 2147 => q = 1000 * x
         /\ x # 0 => q >= 999 * x /\ q \div x \in 999 .. 1999
         /\ x <= 2149633
<1>1. PICK g, h : Near(x, 2148, n, g, h) /\ StallScale(d, g) /\ Exactly(d, g, h)
  BY DEF StallLeft
<1>2. x <= 2147 => q = 1000 * x
  BY <1>1, StallExact
<1>3. x # 0 => q >= 999 * x /\ q < 2000 * x
  BY <1>1, StallAnswer
<1>4. q <= 2147000000
  <2>1. q <= q * d /\ q * d \in Nat
    OBVIOUS
  <2> QED BY <2>1, SMT DEF IsWholePart
<1>5. ASSUME x # 0
      PROVE  q \div x \in 999 .. 1999
  <2>1. x \in Nat \ {0} /\ q >= 999 * x /\ q < 2000 * x
    BY <1>3, <1>5
  <2>2. 999 <= q \div x /\ q \div x < 2000
    BY <2>1, QuotientBetween, SMT
  <2>3. q \div x \in Int
    BY <2>1, Remainder, SMT
  <2> QED BY <2>2, <2>3, SMT
<1>6. x <= 2149633
  BY <1>3, <1>4, SMT
<1> QED BY <1>2, <1>3, <1>5, <1>6

LEMMA MultiplyStall ==
  ASSUME SourceValues, StallUnderWay, asked \in Longs, HasMagnitude, ProductFits(a, b)
  PROVE  /\ Abs(asked) <= LONG_MAX \div SYSTIMER_FREQUENCY_HZ => Product = 1000 * asked
         /\ asked # 0 => /\ Abs(Product) \div Abs(asked) \in 999 .. 1999
                         /\ Product < 0 <=> asked < 0
         /\ Abs(asked) <= LONG_MAX \div 999
<1> DEFINE x == Abs(asked)
           n == Abs(a.numerator)
           d == a.denominator
           q == Abs(Product)
<1>1. asked \in Int /\ x \in Nat /\ n \in Nat /\ d \in Nat \ {0} /\ StallLeft(x, n, d)
  BY MagnitudeFits, Terms DEF StallUnderWay
<1>2. n < 2148
  BY StallLimit
<1>3. Product \in Int /\ SameSign(asked, Product) /\ IsWholePart(q, n * 1000000, d)
  BY <1>1, ProductIs DEF StallUnderWay, SourceValues
<1>4. /\ q \in Nat /\ (Product >= 0 => Product = q) /\ (Product < 0 => Product = -q)
      /\ (asked >= 0 => asked = x) /\ (asked < 0 => asked = -x)
  BY <1>1, <1>3, AbsIs
<1> HIDE DEF x, n, d, q
<1>5. /\ x <= 2147 => q = 1000 * x
      /\ x # 0 => q >= 999 * x /\ q \div x \in 999 .. 1999
      /\ x <= 2149633
  BY <1>1, <1>2, <1>3, <1>4, StallMagnitude
<1>6. LONG_MAX \div SYSTIMER_FREQUENCY_HZ = 2147 /\ LONG_MAX \div 999 = 2149633
  BY DEF SourceValues
<1>7. x <= 2147 => Product = 1000 * asked
  BY <1>1, <1>3, <1>4, <1>5 DEF SameSign
<1>8. ASSUME asked # 0
      PROVE  q \div x \in 999 .. 1999 /\ (Product < 0 <=> asked < 0)
  <2>1. x # 0
    BY <1>1, <1>4, <1>8
  <2>2. q # 0 /\ q \div x \in 999 .. 1999
    BY <1>1, <1>4, <1>5, <2>1, SMT
  <2>3. Product < 0 <=> asked < 0
    BY <1>1, <1>3, <1>4, <1>8, <2>2, SMT DEF SameSign
  <2> QED BY <2>2, <2>3
<1> QED BY <1>5, <1>6, <1>7, <1>8 DEF x, q

LEMMA MultiplyClock ==
  ASSUME SourceValues, ClockUnderWay, asked \in Longs, HasMagnitude
  PROVE  1000 * Abs(Product - Quotient(asked, 1000)) <= Abs(asked) \div 1000
<1> DEFINE x == Abs(asked)
           n == Abs(a.numerator)
           d == a.denominator
           q == Abs(Product)
<1>1. /\ asked \in Int /\ x \in Nat /\ x <= 2147483647 /\ n \in Nat /\ d \in Nat \ {0}
      /\ ClockLeft(x, n, d)
  BY MagnitudeFits, Terms DEF ClockUnderWay
<1>2. Product \in Int /\ SameSign(asked, Product) /\ IsWholePart(q, n * 1000, d)
  BY <1>1, ProductIs DEF ClockUnderWay
<1>3. /\ q \in Nat /\ (Product >= 0 => Product = q) /\ (Product < 0 => Product = -q)
      /\ (asked >= 0 => asked = x) /\ (asked < 0 => asked = -x)
  BY <1>1, <1>2, AbsIs
<1>4. /\ asked >= 0 => Quotient(asked, 1000) = x \div 1000
      /\ asked < 0 => Quotient(asked, 1000) = -(x \div 1000)
  BY <1>1 DEF Quotient, Abs
<1> HIDE DEF x, n, d, q
<1>5. NearlyTime(q, x)
  <2>1. PICK g, h : Near(x, 2147484, n, g, h) /\ ClockScale(x, d, g)
    BY <1>1 DEF ClockLeft
  <2> QED BY <1>1, <1>2, <1>3, <2>1, ClockAnswer
<1>6. Abs(Product - Quotient(asked, 1000)) = Abs(q - (x \div 1000))
  <2> DEFINE s == x \div 1000
  <2>1. s \in Nat
    BY <1>1
  <2>2. /\ asked >= 0 => Product = q /\ Quotient(asked, 1000) = s
        /\ asked < 0 => Product = -q /\ Quotient(asked, 1000) = -s
    BY <1>1, <1>2, <1>3, <1>4 DEF SameSign
  <2> HIDE DEF s
  <2>3. Abs(q - s) = Abs((-q) - (-s))
    BY <1>3, <2>1 DEF Abs
  <2>4. Abs(Product - Quotient(asked, 1000)) = Abs(q - s)
    BY <1>1, <2>2, <2>3
  <2> QED BY <2>4 DEF s
<1> QED BY <1>5, <1>6 DEF NearlyTime, x

LEMMA MultiplyRight ==
  ASSUME SourceValues, TimesInv, Multiply
  PROVE  TimesRight'
<1>1. /\ call' = call /\ asked' = asked /\ answer' = "done" /\ result' = Product
      /\ asked \in Longs /\ ProductFits(a, b)
  BY DEF Multiply, TimesInv
<1>2. ErrorOnlyWhenLarge'
  BY <1>1 DEF ErrorOnlyWhenLarge
<1>3. StallNearlyAsked'
  <2>1. SUFFICES ASSUME call = "stall_thread", HasMagnitude
                 PROVE  StallNearlyAsked'
    BY <1>1 DEF StallNearlyAsked, HasMagnitude
  <2>2. StallUnderWay
    BY <2>1 DEF TimesInv
  <2> QED BY <1>1, <2>1, <2>2, MultiplyStall DEF StallNearlyAsked
<1>4. TimeNearlyRight'
  <2>1. SUFFICES ASSUME call = "get_time", HasMagnitude
                 PROVE  TimeNearlyRight'
    BY <1>1 DEF TimeNearlyRight, HasMagnitude
  <2>2. ClockUnderWay
    BY <2>1 DEF TimesInv
  <2> QED BY <1>1, <2>1, <2>2, MultiplyClock DEF TimeNearlyRight
<1> QED BY <1>2, <1>3, <1>4 DEF TimesRight

LEMMA GiveUpRight ==
  ASSUME SourceValues, TimesInv, GiveUp
  PROVE  TimesRight'
<1>1. /\ call' = call /\ asked' = asked /\ answer' = "error"
      /\ call \in {"stall_thread", "get_time"} /\ asked \in Longs
      /\ a.denominator = 1 /\ ~ProductFits(a, b)
  BY DEF GiveUp, TimesInv, IsWhole
<1>2. ErrorOnlyWhenLarge'
  <2>1. SUFFICES ASSUME HasMagnitude
                 PROVE  ErrorOnlyWhenLarge'
    BY <1>1 DEF ErrorOnlyWhenLarge, HasMagnitude
  <2> DEFINE x == Abs(asked)
             n == Abs(a.numerator)
  <2>2. x \in Nat /\ x <= 2147483647
    BY <1>1, <2>1, MagnitudeFits
  <2>3. ASSUME call = "stall_thread"
        PROVE  x > 1073741
    <3>1. StallUnderWay
      BY <2>1, <2>3 DEF TimesInv
    <3>2. n \in Nat /\ StallLeft(x, n, 1)
      BY <1>1, <3>1, Terms DEF StallUnderWay
    <3>3. n >= 2148
      BY <1>1, <3>1, <3>2, StallLimit
    <3> HIDE DEF x, n
    <3>4. PICK g, h : Near(x, 2148, n, g, h) /\ StallScale(1, g)
      BY <3>2 DEF StallLeft
    <3> QED BY <2>2, <3>2, <3>3, <3>4, StallTooLarge
  <2>4. call # "get_time"
    <3>1. SUFFICES ASSUME call = "get_time"
                   PROVE  FALSE
      OBVIOUS
    <3>2. ClockUnderWay
      BY <2>1, <3>1 DEF TimesInv
    <3>3. n \in Nat /\ ClockLeft(x, n, 1)
      BY <1>1, <3>2, Terms DEF ClockUnderWay
    <3>4. n >= 2147484
      BY <1>1, <3>2, <3>3, ClockLimit
    <3> HIDE DEF x, n
    <3>5. PICK g, h : Near(x, 2147484, n, g, h) /\ ClockScale(x, 1, g)
      BY <3>3 DEF ClockLeft
    <3> QED BY <2>2, <3>3, <3>4, <3>5, ClockFits
  <2>5. LONG_MAX \div 2000 = 1073741
    BY DEF SourceValues
  <2> QED BY <1>1, <2>3, <2>4, <2>5 DEF ErrorOnlyWhenLarge
<1> QED BY <1>1, <1>2 DEF TimesRight, StallNearlyAsked, TimeNearlyRight

LEMMA TimesStep ==
  ASSUME SourceValues, TimesInv, Next
  PROVE  TimesInv'
<1> USE DEF TimesInv
<1>1. ASSUME answer' = "pending"
      PROVE  TimesRight'
  BY <1>1 DEF TimesRight, StallNearlyAsked, ErrorOnlyWhenLarge, TimeNearlyRight
<1>2. ASSUME NEW ms \in StallTimes, MillisecondsToHertz(ms)
      PROVE  TimesInv'
  <2>1. call' = "stall_thread" /\ asked' \in Longs /\ (HasMagnitude' => StallUnderWay')
    BY <1>2, StallBegins
  <2>2. TimesRight'
    <3>1. answer' = "pending"
      BY <1>2 DEF MillisecondsToHertz
    <3> QED BY <1>1, <3>1
  <2> QED BY <2>1, <2>2 DEF Longs, LONG_MIN
<1>3. ASSUME NEW hz \in ClockValues, HertzToMilliseconds(hz)
      PROVE  TimesInv'
  <2>1. call' = "get_time" /\ asked' \in Longs /\ (HasMagnitude' => ClockUnderWay')
    BY <1>3, ClockBegins
  <2>2. TimesRight'
    <3>1. answer' = "pending"
      BY <1>3 DEF HertzToMilliseconds
    <3> QED BY <1>1, <3>1
  <2> QED BY <2>1, <2>2 DEF Longs, LONG_MIN
<1>4. CASE MakeCoarser
  <2>1. call' = call /\ asked' = asked /\ answer' = "pending" /\ call # "none"
    BY <1>4 DEF MakeCoarser
  <2>2. TimesRight'
    BY <1>1, <2>1
  <2>3. HasMagnitude' = HasMagnitude /\ asked \in Longs
    BY <2>1 DEF HasMagnitude
  <2>4. ASSUME call = "stall_thread", HasMagnitude
        PROVE  StallUnderWay'
    <3>1. StallUnderWay
      BY <2>4
    <3> QED BY <1>4, <2>3, <2>4, <3>1, StallGoesOn
  <2>5. ASSUME call = "get_time", HasMagnitude
        PROVE  ClockUnderWay'
    <3>1. ClockUnderWay
      BY <2>5
    <3> QED BY <1>4, <2>3, <2>5, <3>1, ClockGoesOn
  <2> QED BY <2>1, <2>2, <2>3, <2>4, <2>5 DEF Longs, LONG_MIN
<1>5. ASSUME UNCHANGED <<call, asked, a, b>>
      PROVE  /\ StallUnderWay' = StallUnderWay /\ ClockUnderWay' = ClockUnderWay
             /\ HasMagnitude' = HasMagnitude
  BY <1>5 DEF StallUnderWay, ClockUnderWay, Factors, HasMagnitude
<1>6. CASE GiveUp
  <2>1. UNCHANGED <<call, asked, a, b>> /\ call # "none"
    BY <1>6 DEF GiveUp
  <2>2. TimesRight'
    BY <1>6, GiveUpRight
  <2> QED BY <1>5, <2>1, <2>2 DEF Longs, LONG_MIN
<1>7. CASE Multiply
  <2>1. UNCHANGED <<call, asked, a, b>> /\ call # "none"
    BY <1>7 DEF Multiply
  <2>2. TimesRight'
    BY <1>7, MultiplyRight
  <2> QED BY <1>5, <2>1, <2>2 DEF Longs, LONG_MIN
<1>8. CASE Return
  <2>1. call' = "none" /\ answer' = "pending"
    BY <1>8 DEF Return
  <2>2. TimesRight'
    BY <1>1, <2>1
  <2> QED BY <2>1, <2>2
<1> QED BY <1>2, <1>3, <1>4, <1>6, <1>7, <1>8 DEF Next, Convert

(* For every word a thread can ask for and every word the clock can show,  *)
(* as the long it is taken for, but for the two without a magnitude: with  *)
(* the timer's frequency and the longs there are, the loss of precision    *)
(* never makes a sleep or a time of day differ from the one of that long   *)
(* by more than a small part, and never makes a time unanswerable whose    *)
(* ticks take less than half the range.  From 2^31 on the long is negative *)
(* and its time is not the one asked for or measured.                      *)
THEOREM TimesStayRight ==
  ASSUME SourceValues
  PROVE  LibrarySpec => []TimesRight
<1>1. LibraryInit => TimesInv
  BY DEF LibraryInit, Init, TimesInv, TimesRight, StallNearlyAsked, ErrorOnlyWhenLarge,
         TimeNearlyRight
<1>2. TimesInv /\ [LibraryNext]_libraryVars => TimesInv'
  <2> SUFFICES ASSUME TimesInv, [LibraryNext]_libraryVars
               PROVE  TimesInv'
    OBVIOUS
  <2>1. Next \/ UNCHANGED timeVars
    BY DEF LibraryNext, libraryVars
  <2>2. CASE UNCHANGED timeVars
    BY <2>2 DEF timeVars, vars, TimesInv, StallUnderWay, ClockUnderWay, Factors, TimesRight,
                StallNearlyAsked, ErrorOnlyWhenLarge, TimeNearlyRight, HasMagnitude, Longs,
                LONG_MIN
  <2> QED BY <2>1, <2>2, TimesStep
<1>3. TimesInv => TimesRight
  BY DEF TimesInv
<1> QED BY <1>1, <1>2, <1>3, PTL DEF LibrarySpec

-----------------------------------------------------------------------------
(* Part 13: the digits of a number.                                        *)

(* The sizes of the sources: an int has 32 bits, and as many places are    *)
(* kept for it.                                                            *)
SourceWords ==
  /\ WordBits = 32 /\ MAX_NUMBER_PRINT_WIDTH = 32
  /\ Widths \subseteq Nat
  /\ \A n \in Arguments : n \in Nat /\ n < 2 ^ WordBits

(* Induction, for a property that is given as the set of what has it.      *)
LEMMA FromZero ==
  ASSUME NEW S, 0 \in S, \A i \in Nat : i \in S => i + 1 \in S
  PROVE  \A i \in Nat : i \in S
<1> DEFINE wrong == {i \in Nat : i \notin S}
           least == Min(wrong)
<1>1. ASSUME wrong # {}
      PROVE  FALSE
  <2>1. wrong \subseteq Nat
    OBVIOUS
  <2>2. least \in wrong /\ \A i \in wrong : least <= i
    BY <1>1, <2>1, MinNat
  <2> HIDE DEF least
  <2>3. least \in Nat \ {0} /\ least - 1 \in Nat /\ ~(least <= least - 1)
    BY <2>2
  <2>4. least - 1 \in S
    BY <2>2, <2>3
  <2>5. (least - 1) + 1 = least
    BY <2>3
  <2> QED BY <2>2, <2>3, <2>4, <2>5
<1> QED BY <1>1

(* The recursive definition of the quotients has a solution.               *)
LEMMA QuotientsDefined ==
  ASSUME SourceWords, NEW num \in Nat, NEW base \in Nat \ {0}
  PROVE  /\ Format!Quotients(num, base)[0] = num
         /\ \A i \in 0 .. 31 :
              Format!Quotients(num, base)[i + 1] = Format!Quotients(num, base)[i] \div base
<1> DEFINE q == Format!Quotients(num, base)
<1> DEFINE Solves(f, n) == f = [i \in 0 .. n |-> IF i = 0 THEN num ELSE f[i - 1] \div base]
           solved == {n \in Nat : \E f : Solves(f, n)}
<1>1. 0 \in solved
  <2> DEFINE g == [i \in 0 .. 0 |-> num]
  <2>1. Solves(g, 0)
    OBVIOUS
  <2> QED BY <2>1
<1>2. ASSUME NEW n \in Nat, n \in solved
      PROVE  n + 1 \in solved
  <2>1. PICK before : Solves(before, n)
    BY <1>2
  <2> DEFINE g == [i \in 0 .. n + 1 |-> IF i <= n THEN before[i] ELSE before[n] \div base]
  <2>2. ASSUME NEW i \in 0 .. n + 1
        PROVE  g[i] = IF i = 0 THEN num ELSE g[i - 1] \div base
    <3>1. CASE i <= n
      <4>1. i \in 0 .. n /\ (i # 0 => i - 1 \in 0 .. n + 1 /\ i - 1 <= n)
        BY <3>1
      <4>2. before[i] = IF i = 0 THEN num ELSE before[i - 1] \div base
        BY <2>1, <4>1
      <4> QED BY <3>1, <4>1, <4>2
    <3>2. CASE i = n + 1
      <4>1. i - 1 = n /\ n \in 0 .. n + 1 /\ i # 0 /\ ~(i <= n)
        BY <3>2
      <4> QED BY <4>1
    <3> QED BY <3>1, <3>2
  <2>3. Solves(g, n + 1)
    <3>1. g = [i \in 0 .. n + 1 |-> g[i]]
      OBVIOUS
    <3> HIDE DEF g
    <3> QED BY <2>2, <3>1
  <2> HIDE DEF Solves
  <2>4. (\E f : Solves(f, n + 1)) /\ n + 1 \in Nat
    BY <2>3
  <2> QED BY <2>4
<1>3. 32 \in solved
  <2> HIDE DEF solved
  <2> QED BY <1>1, <1>2, FromZero
<1>4. Format!Quotients(num, base) = CHOOSE f : Solves(f, 32)
  BY DEF Format!Quotients, SourceWords
<1>5. Solves(q, 32)
  <2> HIDE DEF Solves, q
  <2> QED BY <1>3, <1>4 DEF q
<1> HIDE DEF q
<1>6. q[0] = num /\ \A i \in 0 .. 31 : q[i + 1] = q[i] \div base
  BY <1>5
<1> QED BY <1>6 DEF q

(* q is num, divided by base again and again. *)
Divided(q, num, base) ==
  /\ q[0] = num
  /\ \A i \in 0 .. 32 : q[i] \in Nat
  /\ \A i \in 0 .. 31 : /\ q[i] = base * q[i + 1] + (q[i] % base)
                        /\ q[i] % base \in 0 .. base - 1

(* The quotients of the sources are. *)
LEMMA QuotientsDivided ==
  ASSUME SourceWords, NEW num \in Nat, NEW base \in {2, 10, 16}
  PROVE  Divided(Format!Quotients(num, base), num, base)
<1> DEFINE q == Format!Quotients(num, base)
<1> HIDE DEF q
<1>1. q[0] = num /\ \A i \in 0 .. 31 : q[i + 1] = q[i] \div base
  <2>1. base \in Nat \ {0}
    OBVIOUS
  <2>2. /\ Format!Quotients(num, base)[0] = num
        /\ \A i \in 0 .. 31 :
             Format!Quotients(num, base)[i + 1] = Format!Quotients(num, base)[i] \div base
    BY <2>1, QuotientsDefined
  <2> QED BY <2>2 DEF q
<1> DEFINE natural == {i \in Nat : i <= 32 => q[i] \in Nat}
<1>2. ASSUME NEW i \in Nat, i \in natural
      PROVE  i + 1 \in natural
  <2>1. CASE i <= 31
    <3>1. q[i] \in Nat /\ q[i + 1] = q[i] \div base
      BY <1>1, <1>2, <2>1
    <3>2. \A n \in Nat : n \div base \in Nat
      OBVIOUS
    <3> QED BY <3>1, <3>2
  <2> QED BY <2>1
<1>3. 0 \in natural
  BY <1>1
<1>4. \A i \in Nat : i \in natural
  <2> HIDE DEF natural
  <2> QED BY <1>2, <1>3, FromZero
<1>5. \A i \in 0 .. 32 : q[i] \in Nat
  BY <1>4
<1>6. ASSUME NEW i \in 0 .. 31
      PROVE  /\ q[i] = base * q[i + 1] + (q[i] % base)
             /\ q[i] % base \in 0 .. base - 1
  <2>1. q[i] \in Nat /\ q[i + 1] = q[i] \div base
    BY <1>1, <1>5
  <2> DEFINE n == q[i]
             m == q[i + 1]
  <2> HIDE DEF n, m
  <2>0. n \in Nat /\ base \in Nat \ {0}
    BY <2>1 DEF n
  <2>2. n = base * (n \div base) + (n % base) /\ n % base \in 0 .. base - 1
    BY <2>0, Remainder
  <2> QED BY <2>1, <2>2 DEF n, m
<1>7. Divided(q, num, base)
  BY <1>1, <1>5, <1>6 DEF Divided
<1> QED BY <1>7 DEF q

(* The quotients never grow. *)
LEMMA QuotientsFall ==
  ASSUME NEW num \in Nat, NEW base \in {2, 10, 16}, NEW q, Divided(q, num, base),
         NEW k \in 0 .. 32
  PROVE  \A j \in k .. 32 : q[j] <= q[k]
<1> DEFINE lower == {i \in Nat : k + i <= 32 => q[k + i] <= q[k]}
<1>1. \A i \in 0 .. 32 : q[i] \in Nat
  BY DEF Divided
<1>2. ASSUME NEW i \in 0 .. 31
      PROVE  q[i + 1] <= q[i]
  <2>1. q[i] = base * q[i + 1] + (q[i] % base) /\ q[i] % base \in 0 .. base - 1
    BY DEF Divided
  <2>2. q[i] \in Nat /\ q[i + 1] \in Nat
    BY <1>1
  <2> QED BY <2>1, <2>2
<1>3. 0 \in lower
  BY <1>1
<1>4. ASSUME NEW i \in Nat, i \in lower
      PROVE  i + 1 \in lower
  <2>1. CASE k + i <= 31
    <3>1. q[k + i] <= q[k] /\ q[k + i + 1] <= q[k + i]
      BY <1>2, <1>4, <2>1
    <3>2. q[k] \in Nat /\ q[k + i] \in Nat /\ q[k + i + 1] \in Nat
      BY <1>1, <2>1
    <3>3. q[k + (i + 1)] <= q[k]
      BY <3>1, <3>2
    <3> QED BY <3>3
  <2> QED BY <2>1
<1>5. \A i \in Nat : i \in lower
  <2> HIDE DEF lower
  <2> QED BY <1>3, <1>4, FromZero
<1>6. ASSUME NEW j \in k .. 32
      PROVE  q[j] <= q[k]
  <2>1. j - k \in Nat /\ k + (j - k) = j
    OBVIOUS
  <2> QED BY <1>5, <2>1
<1> QED BY <1>6

(* How often a word can be divided until nothing is left.                  *)
LEMMA QuotientsEnd ==
  ASSUME NEW num \in Nat, num < 2 ^ 32, NEW base \in {2, 10, 16}, NEW q,
         Divided(q, num, base)
  PROVE  /\ q[32] = 0
         /\ base = 10 => q[10] = 0
         /\ base = 16 => q[8] = 0
         /\ base = 2 /\ num < 2 ^ 30 => q[30] = 0
<1>1. /\ q[0] = num
      /\ \A i \in 0 .. 32 : q[i] \in Nat
      /\ \A i \in 0 .. 31 : q[i] = base * q[i + 1] + (q[i] % base) /\ q[i] % base >= 0
  BY DEF Divided
<1>2. ASSUME NEW i \in 0 .. 30
      PROVE  base * (base * q[i + 2]) <= q[i]
  <2> DEFINE k == i + 1
             m == i + 2
  <2>1. i \in 0 .. 31 /\ k \in 0 .. 31 /\ k = i + 1 /\ m = k + 1 /\ m \in 0 .. 32
    OBVIOUS
  <2> HIDE DEF k, m
  <2>2. q[i] \in Nat /\ q[k] \in Nat /\ q[m] \in Nat
    BY <1>1, <2>1
  <2>3. q[i] = base * q[k] + (q[i] % base) /\ q[i] % base >= 0
    BY <1>1, <2>1
  <2>4. q[k] = base * q[m] + (q[k] % base) /\ q[k] % base >= 0
    BY <1>1, <2>1
  <2>5. base * q[k] <= q[i]
    BY <2>2, <2>3
  <2>6. base * q[m] <= q[k]
    BY <2>2, <2>4
  <2> QED BY <2>2, <2>5, <2>6 DEF m
<1>3. CASE base = 2
  <2>1. \A i \in 0 .. 30 : 4 * q[i + 2] <= q[i]
    BY <1>1, <1>2, <1>3
  <2>2. ASSUME NEW i \in 0 .. 22
        PROVE  1024 * q[i + 10] <= q[i]
    <3>1. /\ 4 * q[i + 2] <= q[i] /\ 4 * q[i + 4] <= q[i + 2] /\ 4 * q[i + 6] <= q[i + 4]
          /\ 4 * q[i + 8] <= q[i + 6] /\ 4 * q[i + 10] <= q[i + 8]
      BY <2>1
    <3>2. /\ q[i] \in Nat /\ q[i + 2] \in Nat /\ q[i + 4] \in Nat /\ q[i + 6] \in Nat
          /\ q[i + 8] \in Nat /\ q[i + 10] \in Nat
      BY <1>1
    <3> QED BY <3>1, <3>2
  <2>3. /\ 1024 * q[10] <= num /\ 1024 * q[20] <= q[10] /\ 1024 * q[30] <= q[20]
        /\ 4 * q[32] <= q[30]
    BY <1>1, <2>1, <2>2
  <2>4. q[10] \in Nat /\ q[20] \in Nat /\ q[30] \in Nat /\ q[32] \in Nat
    BY <1>1
  <2> QED BY <1>3, <2>3, <2>4, SMT
<1>4. CASE base = 10
  <2>1. \A i \in 0 .. 30 : 100 * q[i + 2] <= q[i]
    BY <1>1, <1>2, <1>4
  <2>2. /\ 100 * q[2] <= num /\ 100 * q[4] <= q[2] /\ 100 * q[6] <= q[4]
        /\ 100 * q[8] <= q[6] /\ 100 * q[10] <= q[8]
    BY <1>1, <2>1
  <2>3. q[2] \in Nat /\ q[4] \in Nat /\ q[6] \in Nat /\ q[8] \in Nat /\ q[10] \in Nat
    BY <1>1
  <2>4. q[10] = 0
    BY <2>2, <2>3, SMT
  <2>5. q[32] <= q[10]
    BY QuotientsFall
  <2>6. q[32] = 0
    BY <1>1, <2>4, <2>5
  <2> QED BY <1>4, <2>4, <2>6
<1>5. CASE base = 16
  <2>1. \A i \in 0 .. 30 : 256 * q[i + 2] <= q[i]
    BY <1>1, <1>2, <1>5
  <2>2. /\ 256 * q[2] <= num /\ 256 * q[4] <= q[2] /\ 256 * q[6] <= q[4]
        /\ 256 * q[8] <= q[6]
    BY <1>1, <2>1
  <2>3. q[2] \in Nat /\ q[4] \in Nat /\ q[6] \in Nat /\ q[8] \in Nat
    BY <1>1
  <2>4. q[8] = 0
    BY <2>2, <2>3, SMT
  <2>5. q[32] <= q[8]
    BY QuotientsFall
  <2>6. q[32] = 0
    BY <1>1, <2>4, <2>5
  <2> QED BY <1>5, <2>4, <2>6
<1> QED BY <1>3, <1>4, <1>5

(* The digits are those up to the first quotient of zero. *)
LEMMA DigitsEnd ==
  ASSUME SourceWords, NEW num \in Nat, num < 2 ^ 32, NEW base \in {2, 10, 16}
  PROVE  LET q == Format!Quotients(num, base)
             count == Format!DigitCount(num, base, 32)
         IN  /\ count \in 1 .. 32 /\ q[count] = 0
             /\ \A k \in 1 .. 32 : q[k] = 0 => count <= k
<1> DEFINE q == Format!Quotients(num, base)
           count == Format!DigitCount(num, base, 32)
<1> HIDE DEF q, count
<1> DEFINE ends == {i \in 1 .. 32 : q[i] = 0}
           last == Min(ends)
<1>1. Divided(q, num, base)
  BY QuotientsDivided DEF q
<1>2. q[32] = 0 /\ \A i \in 0 .. 32 : q[i] \in Nat
  <2>1. q[32] = 0
    BY <1>1, QuotientsEnd
  <2>2. \A i \in 0 .. 32 : q[i] \in Nat
    BY <1>1, Zenon DEF Divided
  <2> QED BY <2>1, <2>2
<1>3. last \in ends /\ \A i \in ends : last <= i
  <2>1. ends # {} /\ ends \subseteq Nat
    BY <1>2
  <2> HIDE DEF ends
  <2> QED BY <2>1, MinNat
<1> HIDE DEF last
<1>4. last \in 1 .. 32 /\ q[last] = 0
  BY <1>3
<1>5. ASSUME NEW i \in 1 .. 31
      PROVE  q[i] # 0 <=> i <= last - 1
  <2>1. CASE i < last
    <3>1. i \notin ends
      BY <1>3, <1>4, <2>1
    <3> QED BY <1>4, <2>1, <3>1
  <2>2. CASE last <= i
    <3>1. q[i] <= q[last]
      BY <1>1, <1>4, <2>2, QuotientsFall
    <3> QED BY <1>2, <1>4, <2>2, <3>1
  <2> QED BY <1>4, <2>1, <2>2
<1>6. {i \in 1 .. 31 : q[i] # 0} = 1 .. last - 1
  BY <1>4, <1>5
<1>7. count = 1 + Cardinality({i \in 1 .. 31 : q[i] # 0})
  <2>1. \A S : Format!Cardinality(S) = Cardinality(S)
    BY DEF Format!Cardinality, Cardinality
  <2> QED BY <2>1 DEF Format!DigitCount, q, count
<1>8. Cardinality(1 .. last - 1) = last - 1
  <2>1. last - 1 \in Int /\ 1 \in Int /\ last - 1 >= 0
    BY <1>4
  <2>2. Cardinality(1 .. last - 1) = IF 1 > last - 1 THEN 0 ELSE (last - 1) - 1 + 1
    BY <2>1, FS_Interval
  <2> QED BY <2>1, <2>2
<1>9. count = last
  <2>1. Cardinality({i \in 1 .. 31 : q[i] # 0}) = last - 1
    BY <1>6, <1>8, Zenon
  <2> QED BY <1>4, <1>7, <2>1
<1>10. /\ count \in 1 .. 32 /\ q[count] = 0
       /\ \A k \in 1 .. 32 : q[k] = 0 => count <= k
  BY <1>3, <1>4, <1>9
<1> QED BY <1>10 DEF q, count

(* What a number is printed with. *)
Printable == {"0", "1", "2", "3", "4", "5", "6", "7", "8", "9", "a", "b", "c", "d", "e", "f",
              "x", "-", " "}

(* A digit says its value, and is nothing else. *)
LEMMA DigitSays ==
  ASSUME NEW v \in 0 .. 15
  PROVE  /\ Format!DigitValue(Format!HexadecimalDigit[v + 1]) = v
         /\ Format!HexadecimalDigit[v + 1] \in Printable \ {" ", "-"}
<1>1. \A w \in 0 .. 15 : Format!HexadecimalDigit[w + 1] = Format!HexadecimalDigit[v + 1] => w = v
  BY SMTT(60) DEF Format!HexadecimalDigit
<1>2. Format!DigitValue(Format!HexadecimalDigit[v + 1]) = v
  BY <1>1 DEF Format!DigitValue
<1>3. Format!HexadecimalDigit[v + 1] \in {"0", "1", "2", "3", "4", "5", "6", "7",
                                           "8", "9", "a", "b", "c", "d", "e", "f"}
  BY SMTT(60) DEF Format!HexadecimalDigit
<1>4. Format!HexadecimalDigit[v + 1] \in Printable \ {" ", "-"}
  BY <1>3, Zenon DEF Printable
<1> QED BY <1>2, <1>4

(* So does the zero that fields are padded with. *)
LEMMA ZeroSays == Format!DigitValue("0") = 0
<1>1. Format!HexadecimalDigit[1] = "0"
  BY DEF Format!HexadecimalDigit
<1>2. 0 \in 0 .. 15 /\ 0 + 1 = 1
  OBVIOUS
<1>3. Format!DigitValue(Format!HexadecimalDigit[0 + 1]) = 0
  BY <1>2, DigitSays
<1> QED BY <1>1, <1>2, <1>3

(* A function over the first numbers is a sequence of that length. *)
LEMMA FunctionIsSequence ==
  ASSUME NEW S, NEW n \in Nat, NEW s \in [1 .. n -> S]
  PROVE  s \in Seq(S) /\ Len(s) = n
<1>1. s \in Seq(S)
  BY SeqDef
<1>2. DOMAIN s = 1 .. n
  OBVIOUS
<1> QED BY <1>1, <1>2, LenProperties

(* kprintf_base_less_eq_16_to_ascii: one digit for each quotient. *)
LEMMA DigitsAre ==
  ASSUME SourceWords, NEW num \in Nat, num < 2 ^ 32, NEW base \in {2, 10, 16}
  PROVE  LET q == Format!Quotients(num, base)
             digits == Format!ToAscii(num, base, 32)
         IN  /\ digits \in Seq(Printable) /\ Len(digits) = Format!DigitCount(num, base, 32)
             /\ \A i \in 1 .. Len(digits) :
                  digits[i] = Format!HexadecimalDigit[1 + (q[i - 1] % base)]
<1> DEFINE q == Format!Quotients(num, base)
           count == Format!DigitCount(num, base, 32)
           digits == [i \in 1 .. count |-> Format!HexadecimalDigit[1 + (q[i - 1] % base)]]
<1>1. count \in 1 .. 32
  BY DigitsEnd
<1>2. Divided(q, num, base)
  BY QuotientsDivided
<1> HIDE DEF q, count
<1>3. ASSUME NEW i \in 1 .. count
      PROVE  Format!HexadecimalDigit[1 + (q[i - 1] % base)] \in Printable
  <2>1. q[i - 1] % base \in 0 .. 15
    <3>1. i - 1 \in 0 .. 31
      BY <1>1
    <3>2. q[i - 1] % base \in 0 .. base - 1
      BY <1>2, <3>1 DEF Divided
    <3> QED BY <3>2
  <2> DEFINE v == q[i - 1] % base
  <2> HIDE DEF v
  <2>2. v \in 0 .. 15 /\ 1 + v = v + 1
    BY <2>1 DEF v
  <2>3. Format!HexadecimalDigit[v + 1] \in Printable
    BY <2>2, DigitSays
  <2> QED BY <2>2, <2>3 DEF v
<1>4. digits \in Seq(Printable) /\ Len(digits) = count
  <2>1. digits \in [1 .. count -> Printable] /\ count \in Nat
    BY <1>1, <1>3
  <2> HIDE DEF digits
  <2> QED BY <2>1, FunctionIsSequence
<1>5. Format!ToAscii(num, base, 32) = digits
  BY DEF Format!ToAscii, q, count
<1>6. \A i \in 1 .. count : digits[i] = Format!HexadecimalDigit[1 + (q[i - 1] % base)]
  OBVIOUS
<1> HIDE DEF digits
<1> QED BY <1>4, <1>5, <1>6 DEF q, count

(* As many characters as a loop adds that counts up to n. *)
Positive(n) == IF n > 0 THEN n ELSE 0

(* The loops that pad. *)
LEMMA RepeatIs ==
  ASSUME NEW ch \in Printable, NEW n \in Int
  PROVE  /\ Format!Repeat(ch, n) \in Seq(Printable)
         /\ Len(Format!Repeat(ch, n)) = Positive(n)
         /\ \A i \in 1 .. Len(Format!Repeat(ch, n)) : Format!Repeat(ch, n)[i] = ch
<1> DEFINE m == Positive(n)
           s == [i \in 1 .. m |-> ch]
<1>1. 1 .. n = 1 .. m /\ m \in Nat
  BY DEF Positive
<1>2. Format!Repeat(ch, n) = s
  BY <1>1 DEF Format!Repeat
<1> HIDE DEF m
<1>3. s \in Seq(Printable) /\ Len(s) = m /\ \A i \in 1 .. m : s[i] = ch
  <2>1. s \in [1 .. m -> Printable]
    OBVIOUS
  <2>2. s \in Seq(Printable) /\ Len(s) = m
    BY <1>1, <2>1, FunctionIsSequence
  <2> QED BY <2>2
<1> HIDE DEF s
<1> QED BY <1>2, <1>3 DEF m

(* What is to be printed, as magnitude and sign. *)
LEMMA NumberIs ==
  ASSUME SourceWords, NEW d \in Format!Directives, d.specifier \in Format!Numbers
  PROVE  /\ Format!Magnitude(d) \in Nat /\ Format!Magnitude(d) < 2 ^ 32
         /\ Format!Base(d) \in {2, 10, 16}
         /\ Format!IsNegative(d) \in BOOLEAN
         /\ Format!IsNegative(d) => Format!Base(d) = 10
         /\ d.argument = IF Format!IsNegative(d) THEN 2 ^ WordBits - Format!Magnitude(d)
                                                 ELSE Format!Magnitude(d)
         /\ d.width \in Nat /\ d.zeropad \in BOOLEAN /\ d.hash \in BOOLEAN
         /\ d.argument \in Nat /\ d.argument < 2 ^ 32
<1>1. d \in [zeropad : BOOLEAN, hash : BOOLEAN, width : Widths, specifier : Format!Numbers,
             argument : Arguments]
  BY DEF Format!Directives, Format!Numbers, Format!Others
<1>2. d.argument \in Nat /\ d.argument < 2 ^ 32
  BY <1>1, SMT DEF SourceWords
<1>3. d.width \in Nat /\ d.zeropad \in BOOLEAN /\ d.hash \in BOOLEAN
  BY <1>1 DEF SourceWords
<1>4. /\ Format!Base(d) \in {2, 10, 16}
      /\ d.specifier = "i" => Format!Base(d) = 10
  BY DEF Format!Base, Format!Numbers
<1>5. Format!IsNegative(d) \in BOOLEAN /\ (Format!IsNegative(d) => d.specifier = "i")
  BY DEF Format!IsNegative
<1>6. /\ Format!Magnitude(d) \in Nat /\ Format!Magnitude(d) < 2 ^ 32
      /\ d.argument = IF Format!IsNegative(d) THEN 2 ^ WordBits - Format!Magnitude(d)
                                              ELSE Format!Magnitude(d)
  <2>1. CASE Format!IsNegative(d)
    <3>1. d.argument >= 2 ^ (WordBits - 1) /\ Format!Magnitude(d) = 2 ^ WordBits - d.argument
      BY <2>1 DEF Format!IsNegative, Format!Magnitude
    <3>2. WordBits = 32
      BY DEF SourceWords
    <3>3. d.argument >= 2 ^ 31 /\ Format!Magnitude(d) = 2 ^ 32 - d.argument
      BY <3>1, <3>2, SMT
    <3> QED BY <1>2, <2>1, <3>2, <3>3, SMT
  <2>2. CASE ~Format!IsNegative(d)
    BY <1>2, <2>2, SMT DEF Format!Magnitude
  <2> QED BY <2>1, <2>2, <1>5
<1> QED BY <1>2, <1>3, <1>4, <1>5, <1>6

-----------------------------------------------------------------------------
(* Part 14: the field of a number.                                         *)

(* o is so many spaces, a sign or none, a prefix, zeros and digits. *)
Field(o, spaces, sign, prefix, zeros, count) ==
  /\ o \in Seq(Printable)
  /\ Len(o) = spaces + sign + prefix + zeros + count
  /\ \A i \in 1 .. spaces : o[i] = " "
  /\ \A i \in 1 .. sign : o[spaces + i] = "-"
  /\ \A i \in 1 .. zeros : o[spaces + sign + prefix + i] = "0"

(* The prefix belongs to the base. *)
PrefixOf(o, start, prefix, base) ==
  \A i \in 1 .. prefix : /\ o[start + i] \in {"0", "x", "b"}
                         /\ base = 10 => o[start + i] = "0"

(* The digits, first one first, as the last count places. *)
DigitsOf(o, count, q, base) ==
  \A i \in 1 .. count :
    o[Len(o) - i + 1] = Format!HexadecimalDigit[1 + (q[i - 1] % base)]

(* Five parts that are put behind each other, seen from the end. *)
FromTheEnd(o, s1, s2, s3, s4, s5) ==
  /\ o \in Seq(Printable)
  /\ Len(o) = Len(s1) + Len(s2) + Len(s3) + Len(s4) + Len(s5)
  /\ \A i \in 1 .. Len(s5) : o[i] = s5[Len(s5) - i + 1]
  /\ \A i \in 1 .. Len(s4) : o[Len(s5) + i] = s4[Len(s4) - i + 1]
  /\ \A i \in 1 .. Len(s3) : o[Len(s5) + Len(s4) + i] = s3[Len(s3) - i + 1]
  /\ \A i \in 1 .. Len(s2) : o[Len(s5) + Len(s4) + Len(s3) + i] = s2[Len(s2) - i + 1]
  /\ \A i \in 1 .. Len(s1) : o[Len(o) - i + 1] = s1[i]

(* A buffer that is filled with five parts is sent as these. *)
LEMMA FiveParts ==
  ASSUME NEW s1 \in Seq(Printable), NEW s2 \in Seq(Printable), NEW s3 \in Seq(Printable),
         NEW s4 \in Seq(Printable), NEW s5 \in Seq(Printable)
  PROVE  FromTheEnd(Format!Reverse((((s1 \o s2) \o s3) \o s4) \o s5), s1, s2, s3, s4, s5)
<1> DEFINE o == Format!Reverse((((s1 \o s2) \o s3) \o s4) \o s5)
           t2 == s1 \o s2
           t3 == t2 \o s3
           t4 == t3 \o s4
           t5 == t4 \o s5
<1>1. /\ t2 \in Seq(Printable) /\ Len(t2) = Len(s1) + Len(s2)
      /\ \A i \in 1 .. Len(s1) + Len(s2) : t2[i] = IF i <= Len(s1) THEN s1[i] ELSE s2[i - Len(s1)]
  BY ConcatProperties
<1> HIDE DEF t2
<1>2. /\ t3 \in Seq(Printable) /\ Len(t3) = Len(t2) + Len(s3)
      /\ \A i \in 1 .. Len(t2) + Len(s3) : t3[i] = IF i <= Len(t2) THEN t2[i] ELSE s3[i - Len(t2)]
  <2>1. t2 \in Seq(Printable)
    BY <1>1
  <2> QED BY <2>1, ConcatProperties
<1> HIDE DEF t3
<1>3. /\ t4 \in Seq(Printable) /\ Len(t4) = Len(t3) + Len(s4)
      /\ \A i \in 1 .. Len(t3) + Len(s4) : t4[i] = IF i <= Len(t3) THEN t3[i] ELSE s4[i - Len(t3)]
  <2>1. t3 \in Seq(Printable)
    BY <1>2
  <2> QED BY <2>1, ConcatProperties
<1> HIDE DEF t4
<1>4. /\ t5 \in Seq(Printable) /\ Len(t5) = Len(t4) + Len(s5)
      /\ \A i \in 1 .. Len(t4) + Len(s5) : t5[i] = IF i <= Len(t4) THEN t4[i] ELSE s5[i - Len(t4)]
  <2>1. t4 \in Seq(Printable)
    BY <1>3
  <2> QED BY <2>1, ConcatProperties
<1>5. o = [i \in 1 .. Len(t5) |-> t5[(Len(t5) - i) + 1]]
  BY DEF Format!Reverse, t2, t3, t4
<1> HIDE DEF t5, o
<1>6. /\ Len(s1) \in Nat /\ Len(s2) \in Nat /\ Len(s3) \in Nat /\ Len(s4) \in Nat /\ Len(s5) \in Nat
      /\ Len(t5) \in Nat
  BY <1>4, LenProperties
<1>7. o \in Seq(Printable) /\ Len(o) = Len(t5)
  <2>1. \A i \in 1 .. Len(t5) : (Len(t5) - i) + 1 \in 1 .. Len(t5)
    BY <1>6
  <2>2. \A i \in 1 .. Len(t5) : t5[i] \in Printable
    BY <1>4, ElementOfSeq
  <2>3. o \in [1 .. Len(t5) -> Printable]
    BY <1>5, <2>1, <2>2
  <2> QED BY <1>6, <2>3, FunctionIsSequence
<1>8. ASSUME NEW i \in 1 .. Len(t5)
      PROVE  o[i] = t5[(Len(t5) - i) + 1]
  BY <1>5
<1>9. Len(o) = Len(s1) + Len(s2) + Len(s3) + Len(s4) + Len(s5)
  BY <1>1, <1>2, <1>3, <1>4, <1>6, <1>7
<1>10. ASSUME NEW i \in 1 .. Len(s5)
       PROVE  o[i] = s5[Len(s5) - i + 1]
  <2> DEFINE j == Len(t5) - i + 1
  <2>1. /\ i \in 1 .. Len(t5) /\ j \in 1 .. Len(t4) + Len(s5) /\ ~(j <= Len(t4))
        /\ j - Len(t4) = Len(s5) - i + 1 /\ j = (Len(t5) - i) + 1
    BY <1>1, <1>2, <1>3, <1>4, <1>6
  <2> HIDE DEF j
  <2> QED BY <1>4, <1>8, <2>1
<1>11. ASSUME NEW i \in 1 .. Len(s4)
       PROVE  o[Len(s5) + i] = s4[Len(s4) - i + 1]
  <2> DEFINE k == Len(s5) + i
             j == Len(t5) - k + 1
  <2>1. /\ k \in 1 .. Len(t5) /\ j \in 1 .. Len(t4) /\ j \in 1 .. Len(t4) + Len(s5)
        /\ j \in 1 .. Len(t3) + Len(s4) /\ j <= Len(t4) /\ ~(j <= Len(t3))
        /\ j - Len(t3) = Len(s4) - i + 1 /\ j = (Len(t5) - k) + 1
    BY <1>1, <1>2, <1>3, <1>4, <1>6
  <2>2. k = Len(s5) + i
    OBVIOUS
  <2> HIDE DEF j, k
  <2> QED BY <1>3, <1>4, <1>8, <2>1, <2>2
<1>12. ASSUME NEW i \in 1 .. Len(s3)
       PROVE  o[Len(s5) + Len(s4) + i] = s3[Len(s3) - i + 1]
  <2> DEFINE k == Len(s5) + Len(s4) + i
             j == Len(t5) - k + 1
  <2>1. /\ k \in 1 .. Len(t5) /\ j \in 1 .. Len(t4) + Len(s5) /\ j <= Len(t4)
        /\ j \in 1 .. Len(t3) + Len(s4) /\ j <= Len(t3)
        /\ j \in 1 .. Len(t2) + Len(s3) /\ ~(j <= Len(t2))
        /\ j - Len(t2) = Len(s3) - i + 1 /\ j = (Len(t5) - k) + 1
    BY <1>1, <1>2, <1>3, <1>4, <1>6
  <2>2. k = Len(s5) + Len(s4) + i
    OBVIOUS
  <2> HIDE DEF j, k
  <2> QED BY <1>2, <1>3, <1>4, <1>8, <2>1, <2>2
<1>13. ASSUME NEW i \in 1 .. Len(s2)
       PROVE  o[Len(s5) + Len(s4) + Len(s3) + i] = s2[Len(s2) - i + 1]
  <2> DEFINE k == Len(s5) + Len(s4) + Len(s3) + i
             j == Len(t5) - k + 1
  <2>1. /\ k \in 1 .. Len(t5) /\ j \in 1 .. Len(t4) + Len(s5) /\ j <= Len(t4)
        /\ j \in 1 .. Len(t3) + Len(s4) /\ j <= Len(t3)
        /\ j \in 1 .. Len(t2) + Len(s3) /\ j <= Len(t2)
        /\ j \in 1 .. Len(s1) + Len(s2) /\ ~(j <= Len(s1))
        /\ j - Len(s1) = Len(s2) - i + 1 /\ j = (Len(t5) - k) + 1
    BY <1>1, <1>2, <1>3, <1>4, <1>6
  <2>2. k = Len(s5) + Len(s4) + Len(s3) + i
    OBVIOUS
  <2> HIDE DEF j, k
  <2> QED BY <1>1, <1>2, <1>3, <1>4, <1>8, <2>1, <2>2
<1>14. ASSUME NEW i \in 1 .. Len(s1)
       PROVE  o[Len(o) - i + 1] = s1[i]
  <2> DEFINE k == Len(o) - i + 1
  <2>1. /\ k \in 1 .. Len(t5) /\ i \in 1 .. Len(t4) + Len(s5) /\ i <= Len(t4)
        /\ i \in 1 .. Len(t3) + Len(s4) /\ i <= Len(t3)
        /\ i \in 1 .. Len(t2) + Len(s3) /\ i <= Len(t2)
        /\ i \in 1 .. Len(s1) + Len(s2) /\ i <= Len(s1)
        /\ i = (Len(t5) - k) + 1
    BY <1>1, <1>2, <1>3, <1>4, <1>6, <1>7
  <2> HIDE DEF k
  <2>2. o[k] = s1[i]
    BY <1>1, <1>2, <1>3, <1>4, <1>8, <2>1
  <2> QED BY <2>2 DEF k
<1>15. FromTheEnd(o, s1, s2, s3, s4, s5)
  BY <1>7, <1>9, <1>10, <1>11, <1>12, <1>13, <1>14 DEF FromTheEnd
<1> QED BY <1>15 DEF o

(* The prefix is as long as its base asks for. *)
LEMMA PrefixIs ==
  ASSUME SourceWords, NEW d \in Format!Directives, d.specifier \in Format!Numbers
  PROVE  /\ Format!Prefix(d) \in Seq(Printable)
         /\ Len(Format!Prefix(d)) = IF ~Format!Hash(d) THEN 0
                                    ELSE IF Format!Base(d) = 10 THEN 1 ELSE 2
         /\ \A i \in 1 .. Len(Format!Prefix(d)) :
              /\ Format!Prefix(d)[i] \in {"0", "x", "b"}
              /\ Format!Base(d) = 10 => Format!Prefix(d)[i] = "0"
<1> DEFINE p == Format!Prefix(d)
<1>1. Format!Base(d) \in {2, 10, 16}
  BY NumberIs
<1>2. "0" \in Printable /\ "x" \in Printable /\ "b" \in Printable
  BY DEF Printable
<1>3. CASE ~Format!Hash(d)
  <2>1. p = << >>
    BY <1>3 DEF Format!Prefix
  <2> QED BY <1>3, <2>1, EmptySeq
<1>4. CASE Format!Hash(d) /\ Format!Base(d) = 10
  <2>1. p = <<"0">>
    BY <1>4 DEF Format!Prefix
  <2>2. <<"0">> \in Seq(Printable) /\ Len(<<"0">>) = 1 /\ <<"0">>[1] = "0"
    BY <1>2
  <2> QED BY <1>4, <2>1, <2>2
<1>5. CASE Format!Hash(d) /\ Format!Base(d) = 16
  <2>1. p = <<"x", "0">>
    BY <1>5 DEF Format!Prefix
  <2>2. /\ <<"x", "0">> \in Seq(Printable) /\ Len(<<"x", "0">>) = 2
        /\ <<"x", "0">>[1] = "x" /\ <<"x", "0">>[2] = "0"
    BY <1>2
  <2> HIDE DEF p
  <2>3. \A i \in 1 .. 2 : p[i] \in {"0", "x", "b"}
    BY <2>1, <2>2
  <2> QED BY <1>5, <2>1, <2>2, <2>3 DEF p
<1>6. CASE Format!Hash(d) /\ Format!Base(d) = 2
  <2>1. p = <<"b", "0">>
    BY <1>6 DEF Format!Prefix
  <2>2. /\ <<"b", "0">> \in Seq(Printable) /\ Len(<<"b", "0">>) = 2
        /\ <<"b", "0">>[1] = "b" /\ <<"b", "0">>[2] = "0"
    BY <1>2
  <2> HIDE DEF p
  <2>3. \A i \in 1 .. 2 : p[i] \in {"0", "x", "b"}
    BY <2>1, <2>2
  <2> QED BY <1>6, <2>1, <2>2, <2>3 DEF p
<1> QED BY <1>1, <1>3, <1>4, <1>5, <1>6

(* The places of the sign. *)
SignCount(d) == IF Format!IsNegative(d) THEN 1 ELSE 0

(* They hold a minus. *)
LEMMA SignIs ==
  ASSUME NEW d
  PROVE  /\ Format!Sign(d) \in Seq(Printable) /\ Len(Format!Sign(d)) = SignCount(d)
         /\ \A i \in 1 .. Len(Format!Sign(d)) : Format!Sign(d)[i] = "-"
<1>1. CASE Format!IsNegative(d)
  <2>1. Format!Sign(d) = <<"-">>
    BY <1>1 DEF Format!Sign
  <2>2. "-" \in Printable
    BY DEF Printable
  <2>3. <<"-">> \in Seq(Printable) /\ Len(<<"-">>) = 1 /\ <<"-">>[1] = "-"
    BY <2>2
  <2> QED BY <1>1, <2>1, <2>3 DEF SignCount
<1>2. CASE ~Format!IsNegative(d)
  <2>1. Format!Sign(d) = << >>
    BY <1>2 DEF Format!Sign
  <2> QED BY <1>2, <2>1, EmptySeq DEF SignCount
<1> QED BY <1>1, <1>2

(* How far padding reaches: never beyond the buffer, and padding with      *)
(* zeros leaves place for prefix and sign, or is none.                     *)
LEMMA PadIs ==
  ASSUME SourceWords, NEW d \in Format!Directives, d.specifier \in Format!Numbers
  PROVE  LET pad == Format!PadWidth(d)
             widest == IF d.width > 32 THEN 32 ELSE d.width
             kept == IF Format!Hash(d) THEN 2 ELSE 0
         IN  /\ pad \in 0 .. 32 /\ widest \in 0 .. 32
             /\ ~d.zeropad => pad = widest
             /\ d.zeropad => pad = IF widest > kept + SignCount(d)
                                   THEN widest - (kept + SignCount(d)) ELSE 0
<1> DEFINE w == IF d.width > 32 THEN 32 ELSE d.width
           kept == IF Format!Hash(d) THEN 2 ELSE 0
<1>1. d.width \in Nat /\ d.zeropad \in BOOLEAN
  BY NumberIs
<1>2. Format!Widest(d) = w /\ w \in 0 .. 32
  BY <1>1 DEF Format!Widest, SourceWords
<1>3. kept \in {0, 2} /\ SignCount(d) \in {0, 1}
  BY DEF SignCount
<1>4. CASE d.zeropad
  <2>1. Format!PadWidth(d) = Format!SafeDecrement(Format!SafeDecrement(w, kept), SignCount(d))
    BY <1>2, <1>4 DEF Format!PadWidth, SignCount
  <2> HIDE DEF w, kept
  <2>2. Format!PadWidth(d) = IF w > kept + SignCount(d) THEN w - (kept + SignCount(d)) ELSE 0
    BY <1>2, <1>3, <2>1 DEF Format!SafeDecrement
  <2> QED BY <1>2, <1>3, <1>4, <2>2 DEF w, kept
<1>5. CASE ~d.zeropad
  <2>1. Format!PadWidth(d) = w
    BY <1>2, <1>5 DEF Format!PadWidth
  <2> QED BY <1>2, <1>5, <2>1
<1> QED BY <1>1, <1>4, <1>5

(* The places of the digits and of the zeros. *)
DigitsCount(d) == Format!DigitCount(Format!Magnitude(d), Format!Base(d), 32)

ZerosCount(d) == IF d.zeropad THEN Positive(Format!PadWidth(d) - DigitsCount(d)) ELSE 0

(* The places a number needs without spaces. *)
Needed(d) == SignCount(d) + Len(Format!Prefix(d)) + ZerosCount(d) + DigitsCount(d)

(* The places that are left for spaces. *)
SpacesCount(d) == Positive(Format!PadWidth(d) - Needed(d))

(* All of them are counts. *)
LEMMA CountsAre ==
  ASSUME SourceWords, NEW d \in Format!Directives, d.specifier \in Format!Numbers
  PROVE  /\ DigitsCount(d) \in 1 .. 32 /\ ZerosCount(d) \in Nat /\ SpacesCount(d) \in Nat
         /\ SignCount(d) \in {0, 1} /\ Len(Format!Prefix(d)) \in {0, 1, 2}
         /\ Needed(d) \in Nat /\ Format!PadWidth(d) \in 0 .. 32
<1>1. DigitsCount(d) \in 1 .. 32
  BY NumberIs, DigitsEnd DEF DigitsCount
<1>2. Format!PadWidth(d) \in 0 .. 32
  BY PadIs
<1>3. SignCount(d) \in {0, 1}
  BY DEF SignCount
<1>4. Len(Format!Prefix(d)) \in {0, 1, 2}
  BY PrefixIs
<1> DEFINE pad == Format!PadWidth(d)
           p == Len(Format!Prefix(d))
           count == DigitsCount(d)
           sign == SignCount(d)
           zeros == ZerosCount(d)
<1>5. pad \in Nat /\ p \in Nat /\ count \in Nat /\ sign \in Nat
  <2>1. pad \in 0 .. 32 /\ p \in {0, 1, 2} /\ count \in 1 .. 32 /\ sign \in {0, 1}
    BY <1>1, <1>2, <1>3, <1>4
  <2> HIDE DEF pad, p, count, sign
  <2> QED BY <2>1
<1>6. \A n \in Int : Positive(n) \in Nat
  BY DEF Positive
<1>7. zeros \in Nat
  <2> HIDE DEF pad, count
  <2>1. Positive(pad - count) \in Nat
    BY <1>5, <1>6
  <2> QED BY <2>1 DEF ZerosCount, pad, count
<1>8. Needed(d) \in Nat
  <2> HIDE DEF p, count, sign, zeros
  <2>1. sign + p + zeros + count \in Nat
    BY <1>5, <1>7
  <2> QED BY <2>1 DEF Needed, p, count, sign, zeros
<1>9. SpacesCount(d) \in Nat
  <2> DEFINE n == Needed(d)
  <2> HIDE DEF n, pad
  <2>0. n \in Nat
    BY <1>8 DEF n
  <2>1. Positive(pad - n) \in Nat
    <3>1. pad - n \in Int
      BY <1>5, <2>0
    <3> QED BY <1>6, <3>1
  <2> QED BY <2>1 DEF SpacesCount, pad, n
<1> QED BY <1>1, <1>2, <1>3, <1>4, <1>7, <1>8, <1>9

(* What a number directive sends. *)
LaidOut(o, d) ==
  /\ Field(o, SpacesCount(d), SignCount(d), Len(Format!Prefix(d)), ZerosCount(d), DigitsCount(d))
  /\ PrefixOf(o, SpacesCount(d) + SignCount(d), Len(Format!Prefix(d)), Format!Base(d))
  /\ DigitsOf(o, DigitsCount(d), Format!Quotients(Format!Magnitude(d), Format!Base(d)),
              Format!Base(d))

(* It is what kprintf_format_and_output_number leaves in its buffer. *)
LEMMA NumberLaidOut ==
  ASSUME SourceWords, NEW d \in Format!Directives, d.specifier \in Format!Numbers
  PROVE  LaidOut(Format!Reverse(Format!NumberBuffer(d)), d)
<1> DEFINE o == Format!Reverse(Format!NumberBuffer(d))
           s1 == Format!Digits(d)
           s2 == Format!Zeros(d)
           s3 == Format!Prefix(d)
           s4 == Format!Sign(d)
           signed == ((s1 \o s2) \o s3) \o s4
           s5 == Format!Repeat(" ", Format!PadWidth(d) - Len(signed))
           q == Format!Quotients(Format!Magnitude(d), Format!Base(d))
           base == Format!Base(d)
<1>1. /\ s1 \in Seq(Printable) /\ Len(s1) = DigitsCount(d)
      /\ \A i \in 1 .. Len(s1) : s1[i] = Format!HexadecimalDigit[1 + (q[i - 1] % base)]
  <2>1. s1 = Format!ToAscii(Format!Magnitude(d), Format!Base(d), 32)
    BY DEF Format!Digits, SourceWords
  <2>2. /\ Format!Magnitude(d) \in Nat /\ Format!Magnitude(d) < 2 ^ 32
        /\ Format!Base(d) \in {2, 10, 16}
    BY NumberIs
  <2> DEFINE num == Format!Magnitude(d)
  <2> HIDE DEF num, base
  <2>3. num \in Nat /\ num < 2 ^ 32 /\ base \in {2, 10, 16}
    BY <2>2 DEF num, base
  <2>4. /\ Format!ToAscii(num, base, 32) \in Seq(Printable)
        /\ Len(Format!ToAscii(num, base, 32)) = Format!DigitCount(num, base, 32)
        /\ \A i \in 1 .. Len(Format!ToAscii(num, base, 32)) :
             Format!ToAscii(num, base, 32)[i] =
               Format!HexadecimalDigit[1 + (Format!Quotients(num, base)[i - 1] % base)]
    BY <2>3, DigitsAre
  <2> HIDE DEF s1
  <2>5. s1 = Format!ToAscii(num, base, 32)
    BY <2>1 DEF num, base
  <2>6. q = Format!Quotients(num, base) /\ DigitsCount(d) = Format!DigitCount(num, base, 32)
    BY DEF num, base, DigitsCount
  <2> HIDE DEF q
  <2> QED BY <2>4, <2>5, <2>6
<1>2. /\ s2 \in Seq(Printable) /\ Len(s2) = ZerosCount(d)
      /\ \A i \in 1 .. Len(s2) : s2[i] = "0"
  <2>1. CASE d.zeropad
    <3> DEFINE pad == Format!PadWidth(d)
               count == DigitsCount(d)
               n == pad - count
    <3>1. Len(s1) = count /\ count \in 1 .. 32 /\ pad \in 0 .. 32
      BY <1>1, CountsAre
    <3> HIDE DEF s1
    <3>2. ZerosCount(d) = Positive(n) /\ s2 = Format!Repeat("0", n)
      BY <2>1, <3>1 DEF Format!Zeros, ZerosCount, s1
    <3> HIDE DEF pad, count
    <3>3. n \in Int
      BY <3>1
    <3>4. "0" \in Printable
      BY DEF Printable
    <3> HIDE DEF n, s2
    <3> QED BY <3>2, <3>3, <3>4, RepeatIs
  <2>2. CASE ~d.zeropad
    <3>1. s2 = << >> /\ ZerosCount(d) = 0
      BY <2>2 DEF Format!Zeros, ZerosCount
    <3> QED BY <3>1, EmptySeq
  <2> QED BY <2>1, <2>2
<1>3. /\ s3 \in Seq(Printable)
      /\ \A i \in 1 .. Len(s3) : s3[i] \in {"0", "x", "b"} /\ (base = 10 => s3[i] = "0")
  BY PrefixIs
<1>4. /\ s4 \in Seq(Printable) /\ Len(s4) = SignCount(d)
      /\ \A i \in 1 .. Len(s4) : s4[i] = "-"
  BY SignIs
<1> HIDE DEF s1, s2, s3, s4
<1>5. Len(signed) = Len(s1) + Len(s2) + Len(s3) + Len(s4)
  <2>1. s1 \o s2 \in Seq(Printable) /\ Len(s1 \o s2) = Len(s1) + Len(s2)
    BY <1>1, <1>2, ConcatProperties
  <2> DEFINE t2 == s1 \o s2
  <2> HIDE DEF t2
  <2>2. t2 \o s3 \in Seq(Printable) /\ Len(t2 \o s3) = Len(t2) + Len(s3)
    BY <1>3, <2>1, ConcatProperties DEF t2
  <2> DEFINE t3 == t2 \o s3
  <2> HIDE DEF t3
  <2>3. Len(t3 \o s4) = Len(t3) + Len(s4)
    BY <1>4, <2>2, ConcatProperties DEF t3
  <2> QED BY <2>1, <2>2, <2>3 DEF t2, t3
<1>6. Len(signed) = Needed(d)
  <2>1. /\ Len(s1) \in Nat /\ Len(s2) \in Nat /\ Len(s3) \in Nat /\ Len(s4) \in Nat
    BY <1>1, <1>2, <1>3, <1>4, LenProperties
  <2>2. Needed(d) = Len(s4) + Len(s3) + Len(s2) + Len(s1)
    BY <1>1, <1>2, <1>4 DEF Needed, s3
  <2> QED BY <1>5, <2>1, <2>2
<1> HIDE DEF signed
<1>7. /\ s5 \in Seq(Printable) /\ Len(s5) = SpacesCount(d)
      /\ \A i \in 1 .. Len(s5) : s5[i] = " "
  <2> DEFINE pad == Format!PadWidth(d)
             needed == Needed(d)
             n == pad - needed
  <2>0. needed \in Nat /\ pad \in 0 .. 32
    BY CountsAre
  <2>1. SpacesCount(d) = Positive(n) /\ s5 = Format!Repeat(" ", n)
    BY <1>6 DEF SpacesCount
  <2> HIDE DEF pad, needed
  <2>3. n \in Int
    BY <2>0
  <2>2. " " \in Printable
    BY Zenon DEF Printable
  <2> HIDE DEF n
  <2>4. /\ Format!Repeat(" ", n) \in Seq(Printable)
        /\ Len(Format!Repeat(" ", n)) = SpacesCount(d)
        /\ \A i \in 1 .. Len(Format!Repeat(" ", n)) : Format!Repeat(" ", n)[i] = " "
    BY <2>1, <2>2, <2>3, RepeatIs
  <2> HIDE DEF s5
  <2> QED BY <2>1, <2>4
<1>8. o = Format!Reverse((((s1 \o s2) \o s3) \o s4) \o s5)
  BY DEF Format!NumberBuffer, s1, s2, s3, s4, signed
<1> HIDE DEF s5, o
<1>9. /\ o \in Seq(Printable)
      /\ Len(o) = Len(s1) + Len(s2) + Len(s3) + Len(s4) + Len(s5)
      /\ \A i \in 1 .. Len(s5) : o[i] = s5[Len(s5) - i + 1]
      /\ \A i \in 1 .. Len(s4) : o[Len(s5) + i] = s4[Len(s4) - i + 1]
      /\ \A i \in 1 .. Len(s3) : o[Len(s5) + Len(s4) + i] = s3[Len(s3) - i + 1]
      /\ \A i \in 1 .. Len(s2) : o[Len(s5) + Len(s4) + Len(s3) + i] = s2[Len(s2) - i + 1]
      /\ \A i \in 1 .. Len(s1) : o[Len(o) - i + 1] = s1[i]
  <2>1. /\ s1 \in Seq(Printable) /\ s2 \in Seq(Printable) /\ s3 \in Seq(Printable)
        /\ s4 \in Seq(Printable) /\ s5 \in Seq(Printable)
    BY <1>1, <1>2, <1>3, <1>4, <1>7
  <2>2. FromTheEnd(Format!Reverse((((s1 \o s2) \o s3) \o s4) \o s5), s1, s2, s3, s4, s5)
    BY <2>1, FiveParts
  <2>3. FromTheEnd(o, s1, s2, s3, s4, s5)
    BY <1>8, <2>2
  <2> QED BY <2>3 DEF FromTheEnd
<1>10. /\ Len(s1) \in Nat /\ Len(s2) \in Nat /\ Len(s3) \in Nat /\ Len(s4) \in Nat
       /\ Len(s5) \in Nat
  BY <1>1, <1>2, <1>3, <1>4, <1>7, LenProperties
<1>11. ASSUME NEW n \in Nat, NEW i \in 1 .. n
       PROVE  n - i + 1 \in 1 .. n
  OBVIOUS
<1>12. \A i \in 1 .. Len(s5) : o[i] = " "
  BY <1>7, <1>9, <1>10, <1>11
<1>13. \A i \in 1 .. Len(s4) : o[Len(s5) + i] = "-"
  BY <1>4, <1>9, <1>10, <1>11
<1>14. \A i \in 1 .. Len(s3) : /\ o[Len(s5) + Len(s4) + i] \in {"0", "x", "b"}
                               /\ base = 10 => o[Len(s5) + Len(s4) + i] = "0"
  <2> SUFFICES ASSUME NEW i \in 1 .. Len(s3)
               PROVE  /\ o[Len(s5) + Len(s4) + i] \in {"0", "x", "b"}
                      /\ base = 10 => o[Len(s5) + Len(s4) + i] = "0"
    OBVIOUS
  <2> DEFINE k == Len(s3) - i + 1
  <2>1. k \in 1 .. Len(s3)
    BY <1>10, <1>11
  <2>2. o[Len(s5) + Len(s4) + i] = s3[k]
    BY <1>9
  <2>3. s3[k] \in {"0", "x", "b"} /\ (base = 10 => s3[k] = "0")
    <3> HIDE DEF k
    <3> QED BY <1>3, <2>1
  <2> HIDE DEF k
  <2> QED BY <2>2, <2>3
<1>15. \A i \in 1 .. Len(s2) : o[Len(s5) + Len(s4) + Len(s3) + i] = "0"
  BY <1>2, <1>9, <1>10, <1>11
<1>16. \A i \in 1 .. Len(s1) :
         o[Len(o) - i + 1] = Format!HexadecimalDigit[1 + (q[i - 1] % base)]
  BY <1>1, <1>9
<1>17. Len(s3) = Len(Format!Prefix(d))
  BY DEF s3
<1>18. Len(o) = Len(s5) + Len(s4) + Len(s3) + Len(s2) + Len(s1)
  BY <1>9, <1>10
<1>19. Field(o, Len(s5), Len(s4), Len(s3), Len(s2), Len(s1))
  BY <1>9, <1>12, <1>13, <1>15, <1>18 DEF Field
<1>20. PrefixOf(o, Len(s5) + Len(s4), Len(s3), base)
  BY <1>14 DEF PrefixOf
<1>21. DigitsOf(o, Len(s1), q, base)
  BY <1>16 DEF DigitsOf
<1> HIDE DEF q, base
<1>22. LaidOut(o, d)
  BY <1>1, <1>2, <1>4, <1>7, <1>17, <1>19, <1>20, <1>21 DEF LaidOut, q, base
<1> QED BY <1>22 DEF o

(* How many digits a number has, and how much its prefix takes. *)
LEMMA DigitsFew ==
  ASSUME SourceWords, NEW d \in Format!Directives, d.specifier \in Format!Numbers
  PROVE  /\ Format!Base(d) = 10 => DigitsCount(d) <= 10
         /\ Format!Base(d) = 16 => DigitsCount(d) <= 8
         /\ Format!Base(d) = 2 => \/ DigitsCount(d) <= 30
                                  \/ d.argument >= 2 ^ (MAX_NUMBER_PRINT_WIDTH - 2)
<1> DEFINE num == Format!Magnitude(d)
           base == Format!Base(d)
           q == Format!Quotients(num, base)
           count == DigitsCount(d)
<1>1. num \in Nat /\ num < 2 ^ 32 /\ base \in {2, 10, 16}
  BY NumberIs
<1>2. Format!IsNegative(d) => base = 10
  BY NumberIs
<1>3. base = 2 => num = d.argument
  BY <1>2 DEF Format!Magnitude
<1>4. count \in 1 .. 32 /\ \A k \in 1 .. 32 : q[k] = 0 => count <= k
  <2> HIDE DEF num, base
  <2> QED BY <1>1, DigitsEnd DEF DigitsCount, num, base
<1>5. Divided(q, num, base)
  <2> HIDE DEF num, base
  <2> QED BY <1>1, QuotientsDivided
<1> HIDE DEF num, base, q, count
<1>6. /\ base = 10 => q[10] = 0
      /\ base = 16 => q[8] = 0
      /\ base = 2 /\ num < 2 ^ 30 => q[30] = 0
  BY <1>1, <1>5, QuotientsEnd
<1>7. /\ base = 10 => count <= 10
      /\ base = 16 => count <= 8
      /\ base = 2 /\ num < 2 ^ 30 => count <= 30
  BY <1>4, <1>6
<1>8. MAX_NUMBER_PRINT_WIDTH - 2 = 30
  BY DEF SourceWords
<1>9. ~(num < 2 ^ 30) => num >= 2 ^ 30
  BY <1>1, SMT
<1>10. base = 2 => count <= 30 \/ d.argument >= 2 ^ (MAX_NUMBER_PRINT_WIDTH - 2)
  BY <1>3, <1>7, <1>8, <1>9, Zenon
<1> QED BY <1>7, <1>10 DEF num, base, count

(* The widths of a field, as numbers. *)
(* The width that is kept, and what zeros leave for a prefix. *)
Widest32(d) == IF d.width > 32 THEN 32 ELSE d.width
Kept(d) == IF Format!Hash(d) THEN 2 ELSE 0

(* How the places of a field depend on each other. *)
FieldSums(len, sp, sign, pre, z, n, w, kept, base, zeropad) ==
  LET pad == IF zeropad THEN Positive(w - (kept + sign)) ELSE w
  IN  /\ sp \in Nat /\ z \in Nat /\ n \in 1 .. 32 /\ w \in 0 .. 32
      /\ kept \in {0, 2} /\ sign \in {0, 1} /\ zeropad \in BOOLEAN
      /\ sign = 1 => base = 10
      /\ pre = IF kept = 0 THEN 0 ELSE IF base = 10 THEN 1 ELSE 2
      /\ z = IF zeropad THEN Positive(pad - n) ELSE 0
      /\ sp = Positive(pad - (sign + pre + z + n))
      /\ len = sp + sign + pre + z + n

(* A field that is laid out keeps to that. *)
LEMMA WidthsAre ==
  ASSUME SourceWords, NEW d \in Format!Directives, d.specifier \in Format!Numbers, NEW o,
         LaidOut(o, d)
  PROVE  FieldSums(Len(o), SpacesCount(d), SignCount(d), Len(Format!Prefix(d)), ZerosCount(d),
                   DigitsCount(d), Widest32(d), Kept(d), Format!Base(d), d.zeropad)
<1> DEFINE sp == SpacesCount(d)
           z == ZerosCount(d)
           n == DigitsCount(d)
           pad == Format!PadWidth(d)
           w == Widest32(d)
           pre == Len(Format!Prefix(d))
           kept == Kept(d)
           sign == SignCount(d)
<1>1. /\ n \in 1 .. 32 /\ z \in Nat /\ sp \in Nat /\ sign \in {0, 1} /\ pre \in {0, 1, 2}
      /\ pad \in 0 .. 32
  BY CountsAre
<1>2. /\ w \in 0 .. 32 /\ (~d.zeropad => pad = w)
      /\ d.zeropad => pad = IF w > kept + sign THEN w - (kept + sign) ELSE 0
  BY PadIs DEF Widest32, Kept
<1>3. d.zeropad \in BOOLEAN
  BY NumberIs
<1>4. kept \in {0, 2}
  BY DEF Kept
<1>5. pre = IF kept = 0 THEN 0 ELSE IF Format!Base(d) = 10 THEN 1 ELSE 2
  BY PrefixIs DEF Kept
<1>6. sign = 1 => Format!Base(d) = 10
  BY NumberIs DEF SignCount
<1>7. Len(o) = sp + sign + pre + z + n
  BY DEF LaidOut, Field
<1>8. z = IF d.zeropad THEN Positive(pad - n) ELSE 0
  BY DEF ZerosCount
<1>9. sp = Positive(pad - (sign + pre + z + n))
  BY DEF SpacesCount, Needed
<1> HIDE DEF sp, z, n, pad, w, pre, kept, sign
<1>10. pad = IF d.zeropad THEN Positive(w - (kept + sign)) ELSE w
  BY <1>1, <1>2, <1>3, <1>4 DEF Positive
<1>11. FieldSums(Len(o), sp, sign, pre, z, n, w, kept, Format!Base(d), d.zeropad)
  BY <1>1, <1>2, <1>3, <1>4, <1>5, <1>6, <1>7, <1>8, <1>9, <1>10 DEF FieldSums
<1> QED BY <1>11 DEF sp, z, n, w, pre, kept, sign

(* A field exceeds the buffer only if digits and prefix do. *)
LEMMA SumsFit ==
  ASSUME NEW len, NEW sp, NEW sign, NEW pre, NEW z, NEW n, NEW w, NEW kept,
         NEW base, NEW zeropad,
         FieldSums(len, sp, sign, pre, z, n, w, kept, base, zeropad)
  PROVE  /\ sp > 0 \/ z > 0 => len <= 32
         /\ sp = 0 /\ z = 0 => len = sign + pre + n
         /\ kept = 0 /\ base # 10 => len <= 32
         /\ n <= 30 => len <= 32 \/ base = 10
         /\ n <= 29 => len <= 32
BY DEF FieldSums, Positive

(* A field is as wide as asked for, and wider only if it has to be. *)
LEMMA SumsFilled ==
  ASSUME NEW len, NEW sp, NEW sign, NEW pre, NEW z, NEW n, NEW w, NEW kept,
         NEW base, NEW zeropad,
         FieldSums(len, sp, sign, pre, z, n, w, kept, base, zeropad)
  PROVE  /\ len >= IF zeropad /\ kept = 2 /\ base = 10 THEN w - 1 ELSE w
         /\ len > w => len = n + pre + sign
         /\ zeropad => sp = 0
BY DEF FieldSums, Positive

(* The buffer holds what is printed. *)
LEMMA PrintedFits ==
  ASSUME SourceWords, NEW d \in Format!Directives, d.specifier \in Format!Numbers, NEW o,
         LaidOut(o, d)
  PROVE  \/ Len(o) <= MAX_NUMBER_PRINT_WIDTH
         \/ /\ d.specifier = "b" /\ d.hash
            /\ d.argument >= 2 ^ (MAX_NUMBER_PRINT_WIDTH - 2)
<1> DEFINE len == Len(o)
           sp == SpacesCount(d)
           z == ZerosCount(d)
           n == DigitsCount(d)
           w == Widest32(d)
           pre == Len(Format!Prefix(d))
           kept == Kept(d)
           sign == SignCount(d)
           base == Format!Base(d)
<1>1. FieldSums(len, sp, sign, pre, z, n, w, kept, base, d.zeropad)
  BY WidthsAre
<1>2. base \in {2, 10, 16}
  BY NumberIs
<1>3. /\ base = 10 => n <= 10
      /\ base = 16 => n <= 8
      /\ base = 2 => n <= 30 \/ d.argument >= 2 ^ (MAX_NUMBER_PRINT_WIDTH - 2)
  BY DigitsFew
<1>4. base = 2 => d.specifier = "b"
  BY DEF Format!Base, Format!Numbers
<1>5. kept = 2 /\ d.specifier = "b" => d.hash
  BY DEF Kept, Format!Hash
<1> HIDE DEF len, sp, z, n, w, pre, kept, sign, base
<1>6. kept \in {0, 2} /\ n \in Nat
  BY <1>1 DEF FieldSums
<1>7. /\ kept = 0 /\ base # 10 => len <= 32
      /\ n <= 30 => len <= 32 \/ base = 10
      /\ n <= 29 => len <= 32
  BY <1>1, SumsFit
<1>8. MAX_NUMBER_PRINT_WIDTH = 32
  BY DEF SourceWords
<1>9. CASE base = 2
  <2>1. base # 10
    BY <1>9
  <2>2. CASE kept = 0
    BY <1>7, <1>8, <2>1, <2>2 DEF len
  <2>3. CASE kept = 2
    BY <1>3, <1>4, <1>5, <1>7, <1>8, <1>9, <2>1, <2>3 DEF len
  <2> QED BY <1>6, <2>2, <2>3
<1>10. CASE base # 2
  <2>1. n <= 29
    BY <1>2, <1>3, <1>6, <1>10
  <2> QED BY <1>7, <1>8, <2>1 DEF len
<1> QED BY <1>9, <1>10

(* What stands at place i of a field. *)
StandsAt(o, i, sp, sign, pre, n, base, q) ==
  /\ i <= sp => o[i] = " "
  /\ sp < i => o[i] # " "
  /\ sp < i /\ i <= sp + sign => o[i] = "-"
  /\ sp + sign + (IF base = 10 THEN 0 ELSE pre) < i /\ i <= Len(o) - n => o[i] = "0"
  /\ Len(o) - n < i => o[i] = Format!HexadecimalDigit[1 + (q[Len(o) - i] % base)]

(* A field that is laid out has at each place what belongs there. *)
LEMMA Places ==
  ASSUME SourceWords, NEW d \in Format!Directives, d.specifier \in Format!Numbers, NEW o,
         LaidOut(o, d), NEW i \in 1 .. Len(o)
  PROVE  StandsAt(o, i, SpacesCount(d), SignCount(d), Len(Format!Prefix(d)), DigitsCount(d),
                  Format!Base(d), Format!Quotients(Format!Magnitude(d), Format!Base(d)))
<1> DEFINE sp == SpacesCount(d)
           z == ZerosCount(d)
           n == DigitsCount(d)
           pre == Len(Format!Prefix(d))
           sign == SignCount(d)
           len == Len(o)
           base == Format!Base(d)
           q == Format!Quotients(Format!Magnitude(d), base)
<1>1. /\ sp \in Nat /\ sign \in {0, 1} /\ pre \in {0, 1, 2} /\ z \in Nat /\ n \in 1 .. 32
  BY CountsAre
<1>2. base \in {2, 10, 16} /\ Divided(q, Format!Magnitude(d), base)
  BY NumberIs, QuotientsDivided
<1>3. /\ len = sp + sign + pre + z + n
      /\ \A k \in 1 .. sp : o[k] = " "
      /\ \A k \in 1 .. sign : o[sp + k] = "-"
      /\ \A k \in 1 .. z : o[sp + sign + pre + k] = "0"
  BY DEF LaidOut, Field
<1>4. \A k \in 1 .. pre : /\ o[sp + sign + k] \in {"0", "x", "b"}
                          /\ base = 10 => o[sp + sign + k] = "0"
  BY DEF LaidOut, PrefixOf
<1>5. \A k \in 1 .. n : o[len - k + 1] = Format!HexadecimalDigit[1 + (q[k - 1] % base)]
  BY DEF LaidOut, DigitsOf
<1>6. i \in 1 .. len
  OBVIOUS
<1> SUFFICES StandsAt(o, i, sp, sign, pre, n, base, q)
  OBVIOUS
<1> HIDE DEF sp, z, n, pre, sign, len, base, q
<1>7. /\ sp \in Nat /\ sign \in Nat /\ pre \in Nat /\ z \in Nat /\ n \in Nat
      /\ 1 <= n /\ n <= 32 /\ i \in Nat /\ 1 <= i /\ i <= len /\ len \in Nat
      /\ len = sp + sign + pre + z + n
  <2>1. len = sp + sign + pre + z + n
    BY <1>3
  <2>2. sp \in Nat /\ sign \in Nat /\ pre \in Nat /\ z \in Nat /\ n \in Nat
    BY <1>1
  <2>3. 1 <= n /\ n <= 32
    BY <1>1
  <2>4. len \in Nat
    BY <2>1, <2>2
  <2>5. i \in Nat /\ 1 <= i /\ i <= len
    BY <1>6, <2>4
  <2> QED BY <2>1, <2>2, <2>3, <2>4, <2>5, Zenon
<1>8. CASE i <= sp
  <2>1. i \in 1 .. sp /\ ~(sp < i) /\ ~(len - n < i) /\ ~(sp + sign + (IF base = 10 THEN 0 ELSE pre) < i)
    BY <1>7, <1>8
  <2>2. o[i] = " "
    BY <1>3, <2>1
  <2> QED BY <2>1, <2>2 DEF StandsAt, len
<1>9. CASE sp < i /\ i <= sp + sign
  <2> DEFINE k == i - sp
  <2>1. k \in 1 .. sign /\ i = sp + k /\ ~(i <= sp) /\ ~(len - n < i)
        /\ ~(sp + sign + (IF base = 10 THEN 0 ELSE pre) < i)
    BY <1>7, <1>9
  <2> HIDE DEF k
  <2>2. o[i] = "-"
    BY <1>3, <2>1
  <2>3. o[i] # " "
    BY <2>2, Zenon
  <2> QED BY <2>1, <2>2, <2>3 DEF StandsAt, len
<1>10. CASE sp + sign < i /\ i <= sp + sign + pre
  <2> DEFINE k == i - (sp + sign)
  <2>1. k \in 1 .. pre /\ i = sp + sign + k /\ ~(i <= sp) /\ ~(len - n < i) /\ ~(i <= sp + sign)
        /\ (base # 10 => ~(sp + sign + (IF base = 10 THEN 0 ELSE pre) < i))
    BY <1>7, <1>10
  <2> HIDE DEF k
  <2>2. o[i] \in {"0", "x", "b"} /\ (base = 10 => o[i] = "0")
    BY <1>4, <2>1
  <2>3. o[i] # " "
    BY <2>2, Zenon
  <2> QED BY <2>1, <2>2, <2>3 DEF StandsAt, len
<1>11. CASE sp + sign + pre < i /\ i <= len - n
  <2> DEFINE k == i - (sp + sign + pre)
  <2>1. k \in 1 .. z /\ i = sp + sign + pre + k /\ ~(i <= sp) /\ ~(len - n < i) /\ ~(i <= sp + sign)
    BY <1>7, <1>11
  <2> HIDE DEF k
  <2>2. o[i] = "0"
    BY <1>3, <2>1
  <2>3. o[i] # " "
    BY <2>2, Zenon
  <2> QED BY <2>1, <2>2, <2>3 DEF StandsAt, len
<1>12. CASE len - n < i
  <2> DEFINE k == len - i + 1
             v == q[len - i] % base
  <2>1. k \in 1 .. n /\ i = len - k + 1 /\ k - 1 = len - i /\ ~(i <= sp) /\ ~(i <= len - n)
        /\ ~(i <= sp + sign) /\ len - i \in 0 .. 31
    BY <1>7, <1>12
  <2> HIDE DEF k
  <2>2. o[i] = Format!HexadecimalDigit[1 + v]
    BY <1>5, <2>1
  <2>3. v \in 0 .. 15
    <3>1. v \in 0 .. base - 1
      BY <1>2, <2>1 DEF Divided
    <3>2. base \in Nat /\ base <= 16
      BY <1>2
    <3> HIDE DEF v
    <3> QED BY <3>1, <3>2
  <2>4. o[i] # " "
    <3> HIDE DEF v
    <3>1. 1 + v = v + 1
      BY <2>3
    <3>2. Format!HexadecimalDigit[v + 1] # " "
      BY <2>3, DigitSays
    <3> QED BY <2>2, <3>1, <3>2
  <2> QED BY <2>1, <2>2, <2>4 DEF StandsAt, len
<1>13. \/ i <= sp
       \/ sp < i /\ i <= sp + sign
       \/ sp + sign < i /\ i <= sp + sign + pre
       \/ sp + sign + pre < i /\ i <= len - n
       \/ len - n < i
  BY <1>7
<1> QED BY <1>8, <1>9, <1>10, <1>11, <1>12, <1>13

(* So fields are as wide as the directive asks for.                        *)
LEMMA FieldsAreFilled ==
  ASSUME SourceWords, directive \in Format!Directives, directive.specifier \in Format!Numbers,
         LaidOut(output, directive)
  PROVE  Format!FieldFilled
<1> DEFINE d == directive
           o == output
           len == Len(o)
           sp == SpacesCount(d)
           z == ZerosCount(d)
           n == DigitsCount(d)
           w == Widest32(d)
           pre == Len(Format!Prefix(d))
           kept == Kept(d)
           sign == SignCount(d)
           base == Format!Base(d)
           q == Format!Quotients(Format!Magnitude(d), base)
<1>1. FieldSums(len, sp, sign, pre, z, n, w, kept, base, d.zeropad)
  BY WidthsAre
<1>2. Len(Format!Digits(d)) = n /\ Len(Format!Sign(d)) = sign
  <2>1. Format!Digits(d) = Format!ToAscii(Format!Magnitude(d), Format!Base(d), 32)
    BY DEF Format!Digits, SourceWords
  <2>2. /\ Format!Magnitude(d) \in Nat /\ Format!Magnitude(d) < 2 ^ 32
        /\ Format!Base(d) \in {2, 10, 16}
    BY NumberIs
  <2>3. Len(Format!ToAscii(Format!Magnitude(d), Format!Base(d), 32)) = n
    BY <2>2, DigitsAre DEF DigitsCount
  <2> QED BY <2>1, <2>3, SignIs
<1>3. w = IF d.width < MAX_NUMBER_PRINT_WIDTH THEN d.width ELSE MAX_NUMBER_PRINT_WIDTH
  <2>1. d.width \in Nat
    BY NumberIs
  <2> QED BY <2>1 DEF Widest32, SourceWords
<1>4. base = 10 => (kept = 2 <=> d.hash)
  BY DEF Kept, Format!Hash, Format!Base, Format!Numbers
<1>5. o \in Seq(Printable)
  BY DEF LaidOut, Field
<1>6. \A i \in 1 .. Len(o) : StandsAt(o, i, sp, sign, pre, n, base, q)
  BY Places
<1> HIDE DEF len, sp, z, n, w, pre, kept, sign, base, q
<1>7. /\ len >= IF d.zeropad /\ kept = 2 /\ base = 10 THEN w - 1 ELSE w
      /\ len > w => len = n + pre + sign
      /\ d.zeropad => sp = 0
  BY <1>1, SumsFilled
<1>8. ASSUME d.zeropad
      PROVE  " " \notin Format!ToSet(o)
  <2>1. sp = 0 /\ DOMAIN o = 1 .. Len(o) /\ Len(o) \in Nat
    BY <1>5, <1>7, <1>8, LenProperties
  <2>2. ASSUME NEW i \in 1 .. Len(o)
        PROVE  o[i] # " "
    <3>1. StandsAt(o, i, sp, sign, pre, n, base, q) /\ sp < i
      BY <1>6, <2>1
    <3> QED BY <3>1, Zenon DEF StandsAt
  <2> QED BY <2>1, <2>2, Zenon DEF Format!ToSet
<1>9. len >= IF d.zeropad /\ d.hash /\ base = 10 THEN w - 1 ELSE w
  BY <1>4, <1>7
<1>10. (len > w => len = n + pre + sign) /\ pre = Len(Format!Prefix(d)) /\ len = Len(o)
       /\ base = Format!Base(d)
  BY <1>7 DEF pre, len, base
<1> QED BY <1>2, <1>3, <1>8, <1>9, <1>10 DEF Format!FieldFilled

-----------------------------------------------------------------------------
(* Part 15: reading a number again.                                        *)

(* The digits after the first skip places of o, read from left to right.   *)
Reads(value, o, skip, base) ==
  value = [i \in 0 .. Len(o) |->
             IF i <= skip THEN 0 ELSE base * value[i - 1] + Format!DigitValue(o[i])]

(* What they come to. *)
Read(o, skip, base) == CHOOSE f : Reads(f, o, skip, base)

(* The last n places of o are the digits of what q divides, and those      *)
(* before it, from behind skip on, are zeros.                              *)
EndsIn(o, skip, n, base, q) ==
  \A i \in 1 .. Len(o) :
    /\ skip < i /\ i <= Len(o) - n => o[i] = "0"
    /\ Len(o) - n < i => o[i] = Format!HexadecimalDigit[1 + (q[Len(o) - i] % base)]

(* They are the quotients, last one first: what has been read up to a      *)
(* digit is what was left of the number when it was taken off.             *)
LEMMA ReadsQuotients ==
  ASSUME NEW o \in Seq(Printable), NEW num \in Nat, NEW base \in {2, 10, 16}, NEW q,
         Divided(q, num, base),
         NEW n \in 1 .. 32, q[n] = 0, NEW skip \in Nat, skip + n <= Len(o),
         EndsIn(o, skip, n, base, q)
  PROVE  Read(o, skip, base)[Len(o)] = num
<1> USE DEF EndsIn
<1> DEFINE value == Read(o, skip, base)
           len == Len(o)
           read == [i \in 0 .. len |-> IF i <= len - n THEN 0 ELSE q[len - i]]
<1>1. len \in Nat
  BY LenProperties
<1>2. /\ q[0] = num
      /\ \A i \in 0 .. 32 : q[i] \in Nat
      /\ \A i \in 0 .. 31 : /\ q[i] = base * q[i + 1] + (q[i] % base)
                            /\ q[i] % base \in 0 .. base - 1
  BY DEF Divided
<1>3. ASSUME NEW i \in 1 .. len, skip < i, NEW before,
             before = IF i - 1 <= len - n THEN 0 ELSE q[len - (i - 1)]
      PROVE  base * before + Format!DigitValue(o[i]) = IF i <= len - n THEN 0 ELSE q[len - i]
  <2>1. CASE i <= len - n
    <3>1. before = 0 /\ o[i] = "0"
      BY <1>1, <1>3, <2>1
    <3>2. base * 0 + 0 = 0
      OBVIOUS
    <3> QED BY <2>1, <3>1, <3>2, ZeroSays
  <2>2. CASE ~(i <= len - n)
    <3> DEFINE k == len - i
               l == k + 1
               v == q[k] % base
    <3>1. k \in 0 .. 31 /\ l = len - (i - 1) /\ l \in 0 .. 32 /\ (i - 1 <= len - n => l = n)
      <4>1. n \in Nat /\ n <= 32 /\ 1 <= n /\ i \in Nat /\ 1 <= i /\ i <= len /\ len \in Nat
        BY <1>1
      <4> HIDE DEF len
      <4> QED BY <4>1, <2>2
    <3>2. before = q[l]
      BY <1>1, <1>3, <2>2, <3>1
    <3>3. v \in 0 .. 15
      <4>1. v \in 0 .. base - 1
        BY <1>2, <3>1
      <4>2. base \in Nat /\ base <= 16
        OBVIOUS
      <4> HIDE DEF v
      <4> QED BY <4>1, <4>2
    <3>4. o[i] = Format!HexadecimalDigit[1 + v]
      BY <1>1, <2>2
    <3>5. q[k] = base * q[l] + v
      BY <1>2, <3>1
    <3> HIDE DEF v
    <3>6. 1 + v = v + 1
      BY <3>3
    <3>7. Format!DigitValue(o[i]) = v
      <4>1. Format!DigitValue(Format!HexadecimalDigit[v + 1]) = v
        BY <3>3, DigitSays
      <4> QED BY <3>4, <3>6, <4>1
    <3> HIDE DEF l
    <3>8. base * before + Format!DigitValue(o[i]) = q[k]
      BY <3>2, <3>5, <3>7
    <3> QED BY <2>2, <3>8
  <2> QED BY <2>1, <2>2
<1>4. Reads(read, o, skip, base)
  <2>1. ASSUME NEW i \in 0 .. len
        PROVE  read[i] = IF i <= skip THEN 0
                         ELSE base * read[i - 1] + Format!DigitValue(o[i])
    <3>1. CASE i <= skip
      BY <1>1, <3>1
    <3>2. CASE skip < i
      <4>1. i \in 1 .. len /\ i - 1 \in 0 .. len
        BY <1>1, <3>2
      <4>2. read[i - 1] = IF i - 1 <= len - n THEN 0 ELSE q[len - (i - 1)]
        BY <4>1
      <4>3. read[i] = IF i <= len - n THEN 0 ELSE q[len - i]
        OBVIOUS
      <4> HIDE DEF read
      <4>4. base * read[i - 1] + Format!DigitValue(o[i]) = IF i <= len - n THEN 0 ELSE q[len - i]
        BY <1>3, <3>2, <4>1, <4>2
      <4>5. ~(i <= skip)
        BY <3>2
      <4> QED BY <4>3, <4>4, <4>5
    <3> QED BY <3>1, <3>2
  <2>2. read = [i \in 0 .. len |-> read[i]]
    OBVIOUS
  <2> HIDE DEF read
  <2> QED BY <2>1, <2>2 DEF Reads
<1>5. Reads(value, o, skip, base)
  BY <1>4, Zenon DEF Read
<1> HIDE DEF value
<1>6. ASSUME NEW i \in 0 .. len
      PROVE  value[i] = IF i <= skip THEN 0
                        ELSE base * value[i - 1] + Format!DigitValue(o[i])
  <2>1. value = [j \in 0 .. len |->
                   IF j <= skip THEN 0 ELSE base * value[j - 1] + Format!DigitValue(o[j])]
    BY <1>5 DEF Reads
  <2> DEFINE g(j) == IF j <= skip THEN 0 ELSE base * value[j - 1] + Format!DigitValue(o[j])
  <2>2. value = [j \in 0 .. len |-> g(j)]
    BY <2>1, Zenon
  <2> HIDE DEF g
  <2>3. value[i] = g(i)
    BY <2>2
  <2> QED BY <2>3 DEF g
<1> DEFINE right == {i \in Nat : i <= len => value[i] = IF i <= len - n THEN 0 ELSE q[len - i]}
<1>7. 0 \in right
  <2>1. value[0] = 0 /\ 0 <= len - n
    BY <1>1, <1>6
  <2> QED BY <2>1
<1>8. ASSUME NEW i \in Nat, i \in right
      PROVE  i + 1 \in right
  <2> DEFINE j == i + 1
  <2>1. CASE j <= skip
    <3>1. j <= len - n
      BY <1>1, <2>1
    <3>2. j <= len => value[j] = 0
      BY <1>1, <1>6, <2>1
    <3> QED BY <3>1, <3>2
  <2>2. CASE skip < j /\ j <= len
    <3>1. j \in 1 .. len /\ j \in 0 .. len /\ j - 1 = i /\ i <= len /\ ~(j <= skip)
      BY <1>1, <2>2
    <3>2. value[i] = IF j - 1 <= len - n THEN 0 ELSE q[len - (j - 1)]
      BY <1>8, <3>1
    <3>3. value[j] = base * value[i] + Format!DigitValue(o[j])
      BY <1>6, <3>1
    <3>4. base * value[i] + Format!DigitValue(o[j]) = IF j <= len - n THEN 0 ELSE q[len - j]
      BY <1>3, <2>2, <3>1, <3>2
    <3>5. j \in Nat
      OBVIOUS
    <3> HIDE DEF j
    <3>6. j \in right
      BY <3>3, <3>4, <3>5
    <3> QED BY <3>6 DEF j
  <2>3. CASE ~(j <= len)
    BY <2>3
  <2>4. j <= skip \/ (skip < j /\ j <= len) \/ ~(j <= len)
    BY <1>1
  <2> HIDE DEF right
  <2> QED BY <2>1, <2>2, <2>3, <2>4, Zenon
<1>9. \A i \in Nat : i \in right
  <2> HIDE DEF right
  <2> QED BY <1>7, <1>8, FromZero
<1>10. value[len] = q[0]
  <2>1. ~(len <= len - n) /\ len - len = 0
    <3>1. n \in Nat /\ 1 <= n
      OBVIOUS
    <3> HIDE DEF len
    <3> QED BY <1>1, <3>1
  <2>2. len \in right
    <3> HIDE DEF right
    <3> QED BY <1>1, <1>9
  <2> QED BY <2>1, <2>2
<1> QED BY <1>2, <1>10 DEF value

(* The number that is read from a field with these places. *)
ReadWith(o, spaces, sign, prefix, base) ==
  IF sign = 1 /\ o[spaces + 1] = "-"
  THEN 2 ^ WordBits - Read(o, spaces + sign + prefix, base)[Len(o)]
  ELSE Read(o, spaces + sign + prefix, base)[Len(o)]

(* What is read is what was to be printed: the spaces can be counted, the  *)
(* sign stands behind them, and what follows the prefix are zeros and the  *)
(* digits.                                                                 *)
LEMMA ValueRead ==
  ASSUME SourceWords, directive \in Format!Directives, directive.specifier \in Format!Numbers,
         LaidOut(output, directive)
  PROVE  Format!PrintedValue = directive.argument
<1> DEFINE d == directive
           o == output
           len == Len(o)
           sp == SpacesCount(d)
           n == DigitsCount(d)
           pre == Len(Format!Prefix(d))
           sign == SignCount(d)
           base == Format!Base(d)
           num == Format!Magnitude(d)
           q == Format!Quotients(num, base)
           blanks == {i \in DOMAIN o : o[i] = " "}
           prefix == IF Format!Hash(d) /\ base # 10 THEN 2 ELSE 0
           skip == sp + sign + prefix
<1>1. Format!PrintedValue = ReadWith(o, Format!Cardinality(blanks), sign, prefix, base)
  BY DEF Format!PrintedValue, ReadWith, Read, Reads, SignCount
<1>2. FieldSums(len, sp, sign, pre, ZerosCount(d), n, Widest32(d), Kept(d), base, d.zeropad)
  BY WidthsAre
<1>3. o \in Seq(Printable)
  BY DEF LaidOut, Field
<1>4. \A i \in 1 .. Len(o) : StandsAt(o, i, sp, sign, pre, n, base, q)
  BY Places
<1>5. /\ base \in {2, 10, 16} /\ num \in Nat /\ num < 2 ^ 32
      /\ d.argument = IF Format!IsNegative(d) THEN 2 ^ WordBits - num ELSE num
  BY NumberIs
<1>6. prefix = IF base = 10 THEN 0 ELSE pre
  BY PrefixIs, <1>5
<1>7. Divided(q, num, base)
  BY <1>5, QuotientsDivided
<1>8. q[n] = 0 /\ n \in 1 .. 32
  <2>1. n = Format!DigitCount(num, base, 32)
    BY DEF DigitsCount
  <2> QED BY <1>5, <2>1, DigitsEnd
<1>9. sign = 1 <=> Format!IsNegative(d)
  BY DEF SignCount
<1> HIDE DEF len, sp, n, pre, sign, base, num, q, blanks, prefix
<1>10. /\ len \in Nat /\ sp \in Nat /\ sign \in Nat /\ pre \in Nat /\ n \in Nat
       /\ sign <= 1 /\ sp + sign + pre + n <= len /\ 1 <= n
  <2>1. sign \in {0, 1} /\ n \in 1 .. 32 /\ sp \in Nat /\ ZerosCount(d) \in Nat
        /\ Kept(d) \in {0, 2} /\ pre = (IF Kept(d) = 0 THEN 0 ELSE IF base = 10 THEN 1 ELSE 2)
        /\ len = sp + sign + pre + ZerosCount(d) + n
    BY <1>2 DEF FieldSums
  <2> QED BY <2>1
<1>11. prefix \in Nat /\ skip \in Nat /\ skip + n <= len /\ prefix <= pre
  BY <1>6, <1>10
<1>12. blanks = 1 .. sp
  <2>1. DOMAIN o = 1 .. len
    BY <1>3, LenProperties DEF len
  <2>2. ASSUME NEW i \in 1 .. len
        PROVE  o[i] = " " <=> i <= sp
    <3>1. StandsAt(o, i, sp, sign, pre, n, base, q)
      BY <1>4 DEF len
    <3>2. i <= sp \/ sp < i
      BY <1>10
    <3> QED BY <3>1, <3>2, Zenon DEF StandsAt
  <2>3. blanks = {i \in 1 .. len : i <= sp}
    BY <2>1, <2>2 DEF blanks
  <2> QED BY <1>10, <2>3
<1>13. Format!Cardinality(blanks) = sp
  <2>1. \A S : Format!Cardinality(S) = Cardinality(S)
    BY DEF Format!Cardinality, Cardinality
  <2>2. Cardinality(1 .. sp) = IF 1 > sp THEN 0 ELSE sp - 1 + 1
    BY <1>10, FS_Interval
  <2>3. (IF 1 > sp THEN 0 ELSE sp - 1 + 1) = sp
    BY <1>10
  <2> QED BY <1>12, <2>1, <2>2, <2>3
<1>14. sign = 1 => o[sp + 1] = "-"
  <2>1. SUFFICES ASSUME sign = 1
                 PROVE  o[sp + 1] = "-"
    OBVIOUS
  <2>2. sp + 1 \in 1 .. len /\ sp < sp + 1 /\ sp + 1 <= sp + sign
    BY <1>10, <2>1
  <2>3. StandsAt(o, sp + 1, sp, sign, pre, n, base, q)
    BY <1>4, <2>2 DEF len
  <2> QED BY <2>2, <2>3, Zenon DEF StandsAt
<1>15. Read(o, skip, base)[Len(o)] = num
  <2>1. EndsIn(o, skip, n, base, q)
    <3>1. SUFFICES ASSUME NEW i \in 1 .. Len(o)
                   PROVE  /\ skip < i /\ i <= Len(o) - n => o[i] = "0"
                          /\ Len(o) - n < i =>
                               o[i] = Format!HexadecimalDigit[1 + (q[Len(o) - i] % base)]
      BY DEF EndsIn
    <3>2. StandsAt(o, i, sp, sign, pre, n, base, q)
      BY <1>4
    <3> QED BY <1>6, <3>2 DEF StandsAt
  <2> HIDE DEF skip
  <2>2. skip \in Nat /\ skip + n <= Len(o)
    BY <1>11 DEF len
  <2> QED BY <1>3, <1>5, <1>7, <1>8, <2>1, <2>2, ReadsQuotients
<1>16. Format!PrintedValue = IF sign = 1 THEN 2 ^ WordBits - num ELSE num
  <2>1. Format!PrintedValue = ReadWith(o, sp, sign, prefix, base)
    BY <1>1, <1>13 DEF sign, prefix, base, blanks
  <2> QED BY <1>14, <1>15, <2>1 DEF ReadWith
<1> QED BY <1>5, <1>9, <1>16

-----------------------------------------------------------------------------
(* Part 16: what is printed.                                               *)

(* What has been printed as a number is the number's buffer, reversed.     *)
PrintInv ==
  Format!Printed =>
    /\ directive \in Format!Directives
    /\ output = Format!Reverse(Format!NumberBuffer(directive))

(* It holds from the first directive on. *)
LEMMA NumbersSent ==
  LibrarySpec => []PrintInv
<1> USE DEF PrintInv, Format!Printed
<1>1. LibraryInit => PrintInv
  <2>1. Format!None.specifier \notin Format!Numbers
    BY Zenon DEF Format!None, Format!Numbers
  <2> QED BY <2>1 DEF LibraryInit, Format!Init
<1>2. PrintInv /\ [LibraryNext]_libraryVars => PrintInv'
  <2> SUFFICES ASSUME PrintInv, [LibraryNext]_libraryVars
               PROVE  PrintInv'
    OBVIOUS
  <2>1. Format!Next \/ UNCHANGED formatVars
    BY DEF LibraryNext, libraryVars
  <2>2. CASE UNCHANGED formatVars
    BY <2>2 DEF formatVars
  <2>3. CASE Format!Done
    <3>1. directive' = Format!None
      BY <2>3 DEF Format!Done
    <3>2. Format!None.specifier \notin Format!Numbers
      BY Zenon DEF Format!None, Format!Numbers
    <3> QED BY <3>1, <3>2
  <2>4. ASSUME NEW d \in Format!Directives, Format!Refuse(d)
        PROVE  PrintInv'
    BY <2>4 DEF Format!Refuse
  <2>5. ASSUME NEW d \in Format!Directives, Format!Number(d)
        PROVE  PrintInv'
    BY <2>5 DEF Format!Number, Format!Sends
  <2>6. ASSUME NEW d \in Format!Directives, Format!Character(d) \/ Format!String(d)
        PROVE  PrintInv'
    <3>1. directive' = d /\ d.specifier \in {"%", "c", "s"}
      BY <2>6 DEF Format!Character, Format!String, Format!Sends
    <3>2. d.specifier \notin Format!Numbers
      BY <3>1, Zenon DEF Format!Numbers
    <3> QED BY <3>1, <3>2
  <2> QED BY <2>1, <2>2, <2>3, <2>4, <2>5, <2>6 DEF Format!Next, Format!Due
<1> QED BY <1>1, <1>2, PTL DEF LibrarySpec

(* With an int of 32 bits and a buffer of 32 places, no directive writes   *)
(* past the buffer of kprintf_format_and_output_number, whatever its       *)
(* flags, width and argument: but for a binary number with a prefix that   *)
(* needs more than 30 digits.                                              *)
THEOREM NumbersFitBuffer ==
  ASSUME SourceWords
  PROVE  LibrarySpec => []BufferHolds
<1>1. PrintInv => BufferHolds
  <2> SUFFICES ASSUME PrintInv, Format!Printed
               PROVE  Format!BufferHolds
    BY DEF BufferHolds, Format!BufferHolds
  <2>1. directive \in Format!Directives /\ directive.specifier \in Format!Numbers
        /\ LaidOut(output, directive)
    BY NumberLaidOut DEF PrintInv, Format!Printed
  <2> QED BY <2>1, PrintedFits DEF Format!BufferHolds
<1> QED BY <1>1, NumbersSent, PTL

(* Every 32-bit argument can be read again from what is printed for it,    *)
(* in each base, with each sign, prefix and padding, the least int         *)
(* included; and the field is as wide as was asked for.                    *)
THEOREM NumbersPrintedRight ==
  ASSUME SourceWords
  PROVE  LibrarySpec => []PrintedRight
<1>1. PrintInv => PrintedRight
  <2>1. CASE ~Format!Printed
    BY <2>1 DEF PrintedRight, Format!ValuePrinted, Format!FieldFilled
  <2>2. ASSUME PrintInv, Format!Printed
        PROVE  PrintedRight
    <3>1. directive \in Format!Directives /\ directive.specifier \in Format!Numbers
          /\ LaidOut(output, directive)
      BY <2>2, NumberLaidOut DEF PrintInv, Format!Printed
    <3> QED BY <3>1, ValueRead, FieldsAreFilled DEF PrintedRight, Format!ValuePrinted
  <2> QED BY <2>1, <2>2
<1> QED BY <1>1, NumbersSent, PTL
=============================================================================
