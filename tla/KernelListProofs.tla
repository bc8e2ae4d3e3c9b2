-------------------------- MODULE KernelListProofs --------------------------
(***************************************************************************)
(* What the list operations do to the SET of nodes of a list that holds no *)
(* node twice: the facts the scheduler's invariants rest on.               *)
(***************************************************************************)
EXTENDS KernelList, SequenceTheorems, WellFoundedInduction, TLAPS

(* The lists of members of S without repetition. *)
NodeLists(S) == {s \in Seq(S) : IsInjective(s)}

(* The nodes of a list of members of S are members of S.                   *)
LEMMA NodesInSet ==
  ASSUME NEW S, NEW s \in NodeLists(S)
  PROVE  ToSet(s) \subseteq S
<1>1. DOMAIN s = 1 .. Len(s) /\ \A i \in 1 .. Len(s) : s[i] \in S
  BY LenProperties, ElementOfSeq DEF NodeLists
<1> QED BY <1>1 DEF ToSet

(* Concatenating two lists without common nodes: no node is lost, none is  *)
(* doubled.                                                                *)
LEMMA ConcatNodes ==
  ASSUME NEW S, NEW s \in NodeLists(S), NEW t \in NodeLists(S),
         ToSet(s) \cap ToSet(t) = {}
  PROVE  /\ s \o t \in NodeLists(S)
         /\ ToSet(s \o t) = ToSet(s) \cup ToSet(t)
<1>0. s \in Seq(S) /\ t \in Seq(S) /\ IsInjective(s) /\ IsInjective(t)
  BY DEF NodeLists
<1>1. /\ s \o t \in Seq(S)
      /\ Len(s \o t) = Len(s) + Len(t)
      /\ \A i \in 1 .. Len(s) + Len(t) : (s \o t)[i] =
           IF i <= Len(s) THEN s[i] ELSE t[i - Len(s)]
  BY <1>0, ConcatProperties
<1>2. /\ Len(s) \in Nat /\ Len(t) \in Nat
      /\ DOMAIN s = 1 .. Len(s) /\ DOMAIN t = 1 .. Len(t)
      /\ DOMAIN (s \o t) = 1 .. Len(s) + Len(t)
  BY <1>0, <1>1, LenProperties
<1>3. ToSet(s \o t) = ToSet(s) \cup ToSet(t)
  <2>1. ToSet(s \o t) \subseteq ToSet(s) \cup ToSet(t)
    BY <1>1, <1>2 DEF ToSet
  <2>2. ASSUME NEW i \in 1 .. Len(s)
        PROVE  s[i] \in ToSet(s \o t)
    BY <1>1, <1>2 DEF ToSet
  <2>3. ASSUME NEW i \in 1 .. Len(t)
        PROVE  t[i] \in ToSet(s \o t)
    <3>1. (s \o t)[i + Len(s)] = t[i]
      BY <1>1, <1>2
    <3>2. i + Len(s) \in DOMAIN (s \o t)
      BY <1>2
    <3> QED BY <3>1, <3>2 DEF ToSet
  <2> QED BY <1>2, <2>1, <2>2, <2>3 DEF ToSet
<1>4. IsInjective(s \o t)
  <2> SUFFICES ASSUME NEW i \in 1 .. Len(s) + Len(t), NEW j \in 1 .. Len(s) + Len(t),
                      (s \o t)[i] = (s \o t)[j]
               PROVE  i = j
    BY <1>2 DEF IsInjective
  <2>1. CASE i <= Len(s) /\ j <= Len(s)
    BY <1>0, <1>1, <1>2, <2>1 DEF IsInjective
  <2>2. CASE i > Len(s) /\ j > Len(s)
    <3>1. t[i - Len(s)] = t[j - Len(s)]
      BY <1>1, <1>2, <2>2
    <3>2. i - Len(s) \in DOMAIN t /\ j - Len(s) \in DOMAIN t
      BY <1>2, <2>2
    <3>3. i - Len(s) = j - Len(s)
      BY <1>0, <3>1, <3>2 DEF IsInjective
    <3> QED BY <1>2, <3>3
  <2>3. CASE i <= Len(s) /\ j > Len(s)
    <3>1. s[i] = t[j - Len(s)] /\ i \in DOMAIN s /\ j - Len(s) \in DOMAIN t
      BY <1>1, <1>2, <2>3
    <3> QED BY <3>1 DEF ToSet
  <2>4. CASE i > Len(s) /\ j <= Len(s)
    <3>1. s[j] = t[i - Len(s)] /\ j \in DOMAIN s /\ i - Len(s) \in DOMAIN t
      BY <1>1, <1>2, <2>4
    <3> QED BY <3>1 DEF ToSet
  <2> QED BY <1>2, <2>1, <2>2, <2>3, <2>4
<1> QED BY <1>1, <1>3, <1>4 DEF NodeLists

(* A part of a list holds the nodes at its places, none twice.             *)
LEMMA PartNodes ==
  ASSUME NEW S, NEW s \in NodeLists(S),
         NEW m \in 1 .. Len(s) + 1, NEW n \in 0 .. Len(s)
  PROVE  /\ SubSeq(s, m, n) \in NodeLists(S)
         /\ ToSet(SubSeq(s, m, n)) = {s[i] : i \in m .. n}
<1>0. s \in Seq(S) /\ IsInjective(s)
  BY DEF NodeLists
<1>1. Len(s) \in Nat /\ DOMAIN s = 1 .. Len(s) /\ \A i \in 1 .. Len(s) : s[i] \in S
  BY <1>0, LenProperties
<1>2. m \in Int /\ n \in Int /\ \A i \in m .. n : s[i] \in S
  BY <1>1
<1>3. /\ SubSeq(s, m, n) \in Seq(S)
      /\ Len(SubSeq(s, m, n)) = IF m <= n THEN n - m + 1 ELSE 0
      /\ \A i \in 1 .. n - m + 1 : SubSeq(s, m, n)[i] = s[m + i - 1]
  BY <1>2, SubSeqProperties
<1>4. DOMAIN SubSeq(s, m, n) = 1 .. n - m + 1
  <2>1. DOMAIN SubSeq(s, m, n) = 1 .. Len(SubSeq(s, m, n))
    BY <1>3, LenProperties
  <2> QED BY <1>2, <1>3, <2>1
<1>5. IsInjective(SubSeq(s, m, n))
  <2> SUFFICES ASSUME NEW i \in 1 .. n - m + 1, NEW j \in 1 .. n - m + 1,
                      SubSeq(s, m, n)[i] = SubSeq(s, m, n)[j]
               PROVE  i = j
    BY <1>4 DEF IsInjective
  <2>1. s[m + i - 1] = s[m + j - 1]
    BY <1>3
  <2>2. m + i - 1 \in DOMAIN s /\ m + j - 1 \in DOMAIN s
    BY <1>1
  <2>3. m + i - 1 = m + j - 1
    BY <1>0, <2>1, <2>2 DEF IsInjective
  <2> QED BY <2>3
<1>6. ToSet(SubSeq(s, m, n)) = {s[i] : i \in m .. n}
  <2>1. ASSUME NEW i \in 1 .. n - m + 1
        PROVE  SubSeq(s, m, n)[i] \in {s[k] : k \in m .. n}
    <3>1. m + i - 1 \in m .. n
      BY <1>1
    <3> QED BY <1>3, <3>1
  <2>2. ASSUME NEW k \in m .. n
        PROVE  s[k] \in ToSet(SubSeq(s, m, n))
    <3>1. k - m + 1 \in 1 .. n - m + 1 /\ m + (k - m + 1) - 1 = k
      BY <1>1
    <3>2. SubSeq(s, m, n)[k - m + 1] = s[k]
      BY <1>3, <3>1
    <3> QED BY <1>4, <3>1, <3>2 DEF ToSet
  <2> QED BY <1>4, <2>1, <2>2 DEF ToSet
<1> QED BY <1>3, <1>5, <1>6 DEF NodeLists

(* A node stands in a front part of a list where it stands in the list.    *)
LEMMA FrontPosition ==
  ASSUME NEW S, NEW s \in NodeLists(S), NEW k \in 0 .. Len(s),
         NEW n \in ToSet(SubSeq(s, 1, k))
  PROVE  /\ Position(SubSeq(s, 1, k), n) \in 1 .. k
         /\ Position(SubSeq(s, 1, k), n) = Position(s, n)
<1> DEFINE front == SubSeq(s, 1, k)
<1>1. Len(s) \in Nat /\ DOMAIN s = 1 .. Len(s) /\ s \in Seq(S) /\ IsInjective(s)
  BY LenProperties DEF NodeLists
<1>2. /\ Len(front) = k /\ DOMAIN front = 1 .. k
      /\ \A i \in 1 .. k : front[i] = s[i]
  <2>1. \A i \in 1 .. k : s[i] \in S
    BY <1>1, ElementOfSeq
  <2>2. /\ front \in Seq(S) /\ Len(front) = IF 1 <= k THEN k - 1 + 1 ELSE 0
        /\ \A i \in 1 .. k - 1 + 1 : front[i] = s[1 + i - 1]
    BY <1>1, <2>1, SubSeqProperties
  <2>3. Len(front) = k /\ DOMAIN front = 1 .. Len(front)
    BY <2>2, LenProperties
  <2> QED BY <2>2, <2>3
<1>3. PICK i \in 1 .. k : front[i] = n
  BY <1>2 DEF ToSet
<1> HIDE DEF front
<1>4. \A j \in DOMAIN s : s[j] = n => j = i
  BY <1>1, <1>2, <1>3 DEF IsInjective
<1>5. \A j \in DOMAIN front : front[j] = n => j = i
  BY <1>1, <1>2, <1>4
<1>6. i \in DOMAIN front /\ i \in DOMAIN s /\ s[i] = n
  BY <1>1, <1>2, <1>3
<1>7. Position(front, n) = i
  BY <1>3, <1>5, <1>6 DEF Position
<1>8. Position(s, n) = i
  BY <1>4, <1>6 DEF Position
<1> QED BY <1>7, <1>8 DEF front

(* Cutting a list in two: the parts are disjoint and together the list.    *)
LEMMA SplitNodes ==
  ASSUME NEW S, NEW s \in NodeLists(S), NEW k \in 0 .. Len(s)
  PROVE  /\ SubSeq(s, 1, k) \in NodeLists(S)
         /\ SubSeq(s, k + 1, Len(s)) \in NodeLists(S)
         /\ ToSet(SubSeq(s, 1, k)) \cap ToSet(SubSeq(s, k + 1, Len(s))) = {}
         /\ ToSet(SubSeq(s, 1, k)) \cup ToSet(SubSeq(s, k + 1, Len(s))) = ToSet(s)
<1>1. Len(s) \in Nat /\ DOMAIN s = 1 .. Len(s)
  BY LenProperties DEF NodeLists
<1>1a. 1 \in 1 .. Len(s) + 1
  BY <1>1
<1>2. /\ SubSeq(s, 1, k) \in NodeLists(S)
      /\ ToSet(SubSeq(s, 1, k)) = {s[i] : i \in 1 .. k}
  BY <1>1a, PartNodes
<1>3. k + 1 \in 1 .. Len(s) + 1 /\ Len(s) \in 0 .. Len(s)
  BY <1>1
<1>4. /\ SubSeq(s, k + 1, Len(s)) \in NodeLists(S)
      /\ ToSet(SubSeq(s, k + 1, Len(s))) = {s[i] : i \in k + 1 .. Len(s)}
  BY <1>3, PartNodes
<1>5. {s[i] : i \in 1 .. k} \cap {s[i] : i \in k + 1 .. Len(s)} = {}
  BY <1>1 DEF IsInjective, NodeLists
<1>6. {s[i] : i \in 1 .. k} \cup {s[i] : i \in k + 1 .. Len(s)} = ToSet(s)
  BY <1>1 DEF ToSet
<1> QED BY <1>2, <1>4, <1>5, <1>6

(* A well-founded relation on the naturals has a minimal element in every  *)
(* non-empty set of naturals: the loops of the list code end somewhere.    *)
LEMMA MinimalInNat ==
  ASSUME NEW R, IsWellFoundedOn(R, Nat), NEW T, T \subseteq Nat, T # {}
  PROVE  \E x \in T : \A y \in T : ~ (<<y, x>> \in R)
<1> DEFINE S == Nat
<1>1. IsWellFoundedOn(R, S) /\ T \subseteq S
  OBVIOUS
<1> HIDE DEF S
<1> QED BY <1>1, WFMin, Zenon

(* Min, by which the models say where a loop stops, is the least element.  *)
LEMMA MinNat ==
  ASSUME NEW T, T \subseteq Nat, T # {}
  PROVE  Min(T) \in T /\ \A y \in T : Min(T) <= y
<1>1. IsWellFoundedOn(OpToRel(<, Nat), Nat)
  BY NatLessThanWellFounded, Zenon
<1>2. \A x, y \in Nat : <<x, y>> \in OpToRel(<, Nat) <=> x < y
  BY Zenon DEF OpToRel
<1>3. PICK R : IsWellFoundedOn(R, Nat) /\ \A x, y \in Nat : <<x, y>> \in R <=> x < y
  BY <1>1, <1>2, Zenon
<1>4. PICK x \in T : \A y \in T : ~(<<y, x>> \in R)
  BY <1>3, MinimalInNat, Zenon
<1>5. ASSUME NEW y \in T
      PROVE  x <= y
  <2>1. x \in Nat /\ y \in Nat
    OBVIOUS
  <2>2. ~(y < x)
    BY <1>3, <1>4, <2>1, Zenon
  <2> QED BY <2>1, <2>2
<1> QED BY <1>5 DEF Min

(* Taking the first node away.                                             *)
LEMMA TailNodes ==
  ASSUME NEW S, NEW s \in NodeLists(S), s # <<>>
  PROVE  /\ Head(s) \in S /\ Head(s) \in ToSet(s)
         /\ Tail(s) \in NodeLists(S)
         /\ ToSet(Tail(s)) = ToSet(s) \ {Head(s)}
<1>0. s \in Seq(S) /\ IsInjective(s)
  BY DEF NodeLists
<1>1. Len(s) \in Nat \ {0} /\ DOMAIN s = 1 .. Len(s) /\ Head(s) = s[1]
  BY <1>0, EmptySeq, LenProperties
<1>2. Tail(s) = SubSeq(s, 2, Len(s))
  BY <1>0, TailIsSubSeq
<1>3. 2 \in 1 .. Len(s) + 1 /\ Len(s) \in 0 .. Len(s)
  BY <1>1
<1>4. /\ SubSeq(s, 2, Len(s)) \in NodeLists(S)
      /\ ToSet(SubSeq(s, 2, Len(s))) = {s[i] : i \in 2 .. Len(s)}
  BY <1>3, PartNodes
<1>5. {s[i] : i \in 2 .. Len(s)} = ToSet(s) \ {s[1]}
  BY <1>0, <1>1 DEF ToSet, IsInjective
<1>6. s[1] \in S /\ s[1] \in ToSet(s)
  BY <1>0, <1>1, ElementOfSeq DEF ToSet
<1> QED BY <1>1, <1>2, <1>4, <1>5, <1>6

(* The empty list and the list of one node.                                *)
LEMMA SmallNodes ==
  ASSUME NEW S, NEW n \in S
  PROVE  /\ <<>> \in NodeLists(S) /\ ToSet(<<>>) = {} /\ Len(<<>>) = 0
         /\ <<n>> \in NodeLists(S) /\ ToSet(<<n>>) = {n} /\ Len(<<n>>) = 1
         /\ Head(<<n>>) = n /\ <<n>> # <<>>
<1>1. DOMAIN <<>> = {} /\ DOMAIN <<n>> = {1} /\ <<n>>[1] = n
  OBVIOUS
<1>2. <<>> \in Seq(S) /\ <<n>> \in Seq(S) /\ Len(<<>>) = 0 /\ Len(<<n>>) = 1
  OBVIOUS
<1>3. IsInjective(<<>>) /\ IsInjective(<<n>>)
  BY <1>1 DEF IsInjective
<1>4. ToSet(<<>>) = {} /\ ToSet(<<n>>) = {n}
  BY <1>1 DEF ToSet
<1> QED BY <1>1, <1>2, <1>3, <1>4 DEF NodeLists

(* AppendLast and AppendToHead add the node, once.                         *)
LEMMA AppendLastNodes ==
  ASSUME NEW S, NEW s \in NodeLists(S), NEW n \in S, n \notin ToSet(s)
  PROVE  /\ AppendLast(s, n) \in NodeLists(S)
         /\ ToSet(AppendLast(s, n)) = ToSet(s) \cup {n}
         /\ AppendLast(s, n) # <<>>
         /\ Head(AppendLast(s, n)) = IF s = <<>> THEN n ELSE Head(s)
<1> DEFINE last == <<n>>
<1>0. s \in Seq(S)
  BY DEF NodeLists
<1>1. AppendLast(s, n) = s \o last
  BY <1>0, AppendIsConcat DEF AppendLast
<1>2. last \in NodeLists(S) /\ ToSet(last) = {n}
  BY SmallNodes
<1>3. AppendLast(s, n) # <<>>
  BY <1>0, AppendProperties DEF AppendLast
<1>4. Head(AppendLast(s, n)) = IF s = <<>> THEN n ELSE Head(s)
  BY <1>0, HeadTailAppend DEF AppendLast
<1> HIDE DEF last
<1>5. ToSet(s) \cap ToSet(last) = {}
  BY <1>2
<1>6. s \o last \in NodeLists(S) /\ ToSet(s \o last) = ToSet(s) \cup ToSet(last)
  BY <1>2, <1>5, ConcatNodes
<1> QED BY <1>1, <1>2, <1>3, <1>4, <1>6

LEMMA AppendToHeadNodes ==
  ASSUME NEW S, NEW s \in NodeLists(S), NEW n \in S, n \notin ToSet(s)
  PROVE  /\ AppendToHead(s, n) \in NodeLists(S)
         /\ ToSet(AppendToHead(s, n)) = ToSet(s) \cup {n}
<1> DEFINE first == <<n>>
<1>1. first \in NodeLists(S) /\ ToSet(first) = {n}
  BY SmallNodes
<1>2. AppendToHead(s, n) = first \o s
  BY DEF AppendToHead, Cons
<1> HIDE DEF first
<1>3. ToSet(first) \cap ToSet(s) = {}
  BY <1>1
<1>4. first \o s \in NodeLists(S) /\ ToSet(first \o s) = ToSet(first) \cup ToSet(s)
  BY <1>1, <1>3, ConcatNodes
<1> QED BY <1>1, <1>2, <1>4

(* RemoveNode takes away the node it is given and no other.                *)
LEMMA RemoveNodeNodes ==
  ASSUME NEW S, NEW s \in NodeLists(S), NEW n \in ToSet(s)
  PROVE  /\ RemoveNode(s, n) \in NodeLists(S)
         /\ ToSet(RemoveNode(s, n)) = ToSet(s) \ {n}
<1> DEFINE p == Position(s, n)
           front == SubSeq(s, 1, p - 1)
           rest == SubSeq(s, p + 1, Len(s))
<1>1. Len(s) \in Nat /\ DOMAIN s = 1 .. Len(s) /\ IsInjective(s)
  BY LenProperties DEF NodeLists
<1>2. p \in 1 .. Len(s) /\ s[p] = n
  BY <1>1 DEF ToSet, Position
<1>3. RemoveNode(s, n) = front \o rest
  BY DEF RemoveNode, RemoveAt
<1> HIDE DEF p
<1>4. p - 1 \in 0 .. Len(s) /\ 1 \in 1 .. Len(s) + 1
  BY <1>1, <1>2
<1>5. p + 1 \in 1 .. Len(s) + 1 /\ Len(s) \in 0 .. Len(s)
  BY <1>1, <1>2
<1>6. front \in NodeLists(S) /\ ToSet(front) = {s[i] : i \in 1 .. p - 1}
  BY <1>4, PartNodes
<1>7. rest \in NodeLists(S) /\ ToSet(rest) = {s[i] : i \in p + 1 .. Len(s)}
  BY <1>5, PartNodes
<1>8. {s[i] : i \in 1 .. p - 1} \cap {s[i] : i \in p + 1 .. Len(s)} = {}
  BY <1>1, <1>2 DEF IsInjective
<1>9. {s[i] : i \in 1 .. p - 1} \cup {s[i] : i \in p + 1 .. Len(s)} = ToSet(s) \ {n}
  BY <1>1, <1>2 DEF ToSet, IsInjective
<1> HIDE DEF front, rest
<1>10. ToSet(front) \cap ToSet(rest) = {}
  BY <1>6, <1>7, <1>8
<1>11. front \o rest \in NodeLists(S) /\ ToSet(front \o rest) = ToSet(front) \cup ToSet(rest)
  BY <1>6, <1>7, <1>10, ConcatNodes
<1> QED BY <1>3, <1>6, <1>7, <1>9, <1>11

(* InsertSorted adds the node, once, wherever the keys put it.             *)
LEMMA InsertSortedNodes ==
  ASSUME NEW S, NEW s \in NodeLists(S), NEW n \in S, n \notin ToSet(s), NEW key
  PROVE  /\ InsertSorted(s, n, key) \in NodeLists(S)
         /\ ToSet(InsertSorted(s, n, key)) = ToSet(s) \cup {n}
<1> DEFINE larger == {i \in DOMAIN s : key[n] < key[s[i]]}
           p == Min(larger)
           front == SubSeq(s, 1, p - 1)
           middle == <<n>>
           rest == SubSeq(s, p, Len(s))
           both == front \o middle
<1>1. Len(s) \in Nat /\ DOMAIN s = 1 .. Len(s)
  BY LenProperties DEF NodeLists
<1>2. CASE larger = {} \/ 1 \in larger
  <2>1. InsertSorted(s, n, key) = AppendLast(s, n)
    BY <1>2 DEF InsertSorted, AppendLast
  <2> QED BY <2>1, AppendLastNodes
<1>3. CASE ~(larger = {} \/ 1 \in larger)
  <2>1. p \in 1 .. Len(s)
    <3>1. larger \subseteq Nat /\ larger # {}
      BY <1>1, <1>3
    <3> HIDE DEF larger
    <3>2. p \in larger
      BY <3>1, MinNat
    <3> QED BY <1>1, <3>2 DEF larger
  <2>2. InsertSorted(s, n, key) = both \o rest
    BY <1>3 DEF InsertSorted, InsertAt
  <2> HIDE DEF larger, p
  <2>3. p - 1 \in 0 .. Len(s) /\ p - 1 + 1 = p
    BY <1>1, <2>1
  <2>4. /\ front \in NodeLists(S) /\ rest \in NodeLists(S)
        /\ ToSet(front) \cap ToSet(rest) = {}
        /\ ToSet(front) \cup ToSet(rest) = ToSet(s)
    BY <2>3, SplitNodes
  <2>5. middle \in NodeLists(S) /\ ToSet(middle) = {n}
    BY SmallNodes
  <2> HIDE DEF front, middle, rest
  <2>6. ToSet(front) \cap ToSet(middle) = {}
    BY <2>4, <2>5
  <2>7. both \in NodeLists(S) /\ ToSet(both) = ToSet(front) \cup ToSet(middle)
    BY <2>4, <2>5, <2>6, ConcatNodes
  <2> HIDE DEF both
  <2>8. ToSet(both) \cap ToSet(rest) = {}
    BY <2>4, <2>5, <2>7
  <2>9. both \o rest \in NodeLists(S) /\ ToSet(both \o rest) = ToSet(both) \cup ToSet(rest)
    BY <2>4, <2>7, <2>8, ConcatNodes
  <2> QED BY <2>2, <2>4, <2>5, <2>7, <2>9
<1> QED BY <1>2, <1>3

(* Where a node stands in a list. *)
LEMMA PlaceOf ==
  ASSUME NEW S, NEW s \in NodeLists(S), NEW n \in ToSet(s)
  PROVE  Position(s, n) \in 1 .. Len(s) /\ s[Position(s, n)] = n
<1>1. DOMAIN s = 1 .. Len(s)
  BY LenProperties DEF NodeLists
<1>2. \E i \in DOMAIN s : s[i] = n
  BY DEF ToSet
<1> QED BY <1>1, <1>2 DEF Position

(* s without n, place by place. *)
LEMMA RemovedIs ==
  ASSUME NEW S, NEW s \in NodeLists(S), NEW n \in ToSet(s)
  PROVE  /\ RemoveNode(s, n) \in NodeLists(S)
         /\ ToSet(RemoveNode(s, n)) = ToSet(s) \ {n}
         /\ Len(RemoveNode(s, n)) = Len(s) - 1
         /\ \A i \in 1 .. Len(s) - 1 :
              RemoveNode(s, n)[i] = IF i < Position(s, n) THEN s[i] ELSE s[i + 1]
<1> DEFINE k == Position(s, n)
           length == Len(s)
           front == SubSeq(s, 1, k - 1)
           rest == SubSeq(s, k + 1, length)
           whole == front \o rest
<1>1. /\ length \in Nat /\ k \in 1 .. length
      /\ \A i \in 1 .. length : s[i] \in S
  <2>1. length \in Nat /\ \A i \in 1 .. length : s[i] \in S
    BY LenProperties, ElementOfSeq DEF NodeLists
  <2>2. k \in 1 .. length
    BY PlaceOf
  <2> QED BY <2>1, <2>2
<1>2. RemoveNode(s, n) = whole
  BY DEF RemoveNode, RemoveAt
<1> HIDE DEF k, length
<1>3. /\ front \in Seq(S)
      /\ Len(front) = k - 1 /\ \A i \in 1 .. k - 1 : front[i] = s[i]
  <2> DEFINE j == k - 1
  <2>1. j \in Int /\ 1 \in Int /\ (\A i \in 1 .. j : s[i] \in S)
    BY <1>1
  <2>2. j \in Nat /\ (~(1 <= j) => j = 0) /\ j - 1 + 1 = j /\ \A i \in 1 .. j : 1 + i - 1 = i
    BY <1>1
  <2> HIDE DEF j
  <2>3. /\ SubSeq(s, 1, j) \in Seq(S)
        /\ Len(SubSeq(s, 1, j)) = IF 1 <= j THEN j - 1 + 1 ELSE 0
        /\ \A i \in 1 .. j - 1 + 1 : SubSeq(s, 1, j)[i] = s[1 + i - 1]
    BY <2>1, SubSeqProperties
  <2>4. /\ SubSeq(s, 1, j) \in Seq(S)
        /\ Len(SubSeq(s, 1, j)) = j /\ \A i \in 1 .. j : SubSeq(s, 1, j)[i] = s[i]
    BY <2>2, <2>3
  <2> QED BY <2>4 DEF j
<1>4. /\ rest \in Seq(S)
      /\ Len(rest) = length - k /\ \A i \in 1 .. length - k : rest[i] = s[k + i]
  <2> DEFINE j == k + 1
  <2>1. j \in Int /\ length \in Int /\ (\A i \in j .. length : s[i] \in S)
    BY <1>1
  <2>2. /\ length - j + 1 = length - k /\ (~(j <= length) => length - k = 0)
        /\ \A i \in 1 .. length - k : j + i - 1 = k + i
    BY <1>1
  <2> HIDE DEF j
  <2>3. /\ SubSeq(s, j, length) \in Seq(S)
        /\ Len(SubSeq(s, j, length)) = IF j <= length THEN length - j + 1 ELSE 0
        /\ \A i \in 1 .. length - j + 1 : SubSeq(s, j, length)[i] = s[j + i - 1]
    BY <2>1, SubSeqProperties
  <2>4. /\ SubSeq(s, j, length) \in Seq(S)
        /\ Len(SubSeq(s, j, length)) = length - k
        /\ \A i \in 1 .. length - k : SubSeq(s, j, length)[i] = s[k + i]
    BY <2>2, <2>3
  <2> QED BY <2>4 DEF j
<1> HIDE DEF front, rest
<1>5. /\ Len(whole) = Len(front) + Len(rest)
      /\ \A i \in 1 .. Len(front) + Len(rest) :
           whole[i] = IF i <= Len(front) THEN front[i] ELSE rest[i - Len(front)]
  BY <1>3, <1>4, ConcatProperties
<1> HIDE DEF whole
<1>6. Len(front) + Len(rest) = length - 1
  BY <1>1, <1>3, <1>4
<1>7. ASSUME NEW i \in 1 .. length - 1
      PROVE  whole[i] = IF i < k THEN s[i] ELSE s[i + 1]
  <2>1. CASE i < k
    <3>1. i \in 1 .. k - 1 /\ i <= k - 1
      BY <1>1, <2>1
    <3> QED BY <1>3, <1>5, <1>6, <2>1, <3>1
  <2>2. CASE ~(i < k)
    <3>1. ~(i <= k - 1) /\ i - (k - 1) \in 1 .. length - k /\ k + (i - (k - 1)) = i + 1
      BY <1>1, <2>2
    <3>2. whole[i] = rest[i - (k - 1)]
      BY <1>3, <1>5, <1>6, <3>1
    <3>3. rest[i - (k - 1)] = s[i + 1]
      BY <1>4, <3>1
    <3> QED BY <2>2, <3>2, <3>3
  <2> QED BY <2>1, <2>2
<1> QED BY <1>2, <1>5, <1>6, <1>7, RemoveNodeNodes DEF k, length
=============================================================================
