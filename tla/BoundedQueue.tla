---------------------------- MODULE BoundedQueue ----------------------------
(***************************************************************************)
(* What a ring buffer promises its user: a queue of characters that holds  *)
(* at most Size of them.                                                   *)
(***************************************************************************)
EXTENDS Integers, SequencesExt

CONSTANTS Size, Characters, MaxLength

VARIABLES queue,   \* oldest first
          dst      \* what the last call returned

Init == queue = <<>> /\ dst = <<>>

(* The characters of src that fit are accepted, the others are dropped.    *)
Accept(src) ==
  /\ queue' = queue \o SubSeq(src, 1, Min({Len(src), Size - Len(queue)}))
  /\ UNCHANGED dst

(* The oldest characters are taken, as many as are there. *)
Take(asked) ==
  LET length == Min({asked, Len(queue)})
  IN  /\ dst' = SubSeq(queue, 1, length)
      /\ queue' = SubSeq(queue, length + 1, Len(queue))

(* The newest characters are shown, in the order they came. *)
Show(asked) ==
  /\ dst' = SubSeq(queue, Len(queue) - Min({asked, Len(queue)}) + 1, Len(queue))
  /\ UNCHANGED queue

Next ==
  \/ \E n \in 0 .. MaxLength : \E src \in [1 .. n -> Characters] : Accept(src)
  \/ \E asked \in 0 .. MaxLength : Take(asked) \/ Show(asked)

Spec == Init /\ [][Next]_<<queue, dst>>
=============================================================================
