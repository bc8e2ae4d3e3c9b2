----------------------------- MODULE KernelList -----------------------------
(***************************************************************************)
(* What the operations of kernel/lib/kintrusive_list.c do to a list, seen  *)
(* as the sequence of its nodes from the first one on.  The pointers that  *)
(* carry out these operations are in IntrusiveList, which is checked to    *)
(* implement them; the scheduler is written with the operators below.      *)
(*                                                                         *)
(* A list never holds a node twice, so a node has one position.            *)
(***************************************************************************)
EXTENDS Naturals, SequencesExt

(* The place of the node n, which is in s. *)
Position(s, n) == CHOOSE i \in DOMAIN s : s[i] = n

(* k_remove_node_from_list for a node that is in s. *)
RemoveNode(s, n) == RemoveAt(s, Position(s, n))

(* k_append_node_to_list given a list head.  The head is pointed at n      *)
(* after n has been linked in behind the last node, which makes n the      *)
(* FIRST node: "appending" to a head is prepending.                        *)
AppendToHead(s, n) == Cons(n, s)

(* k_append_node_to_list given the node m of s: n follows m. *)
AppendAfter(s, m, n) == InsertAt(s, Position(s, m) + 1, n)

(* The test "empty ? append to the head : append after the last node" that *)
(* the scheduler writes out wherever it wants n to become the last node.   *)
AppendLast(s, n) == Append(s, n)

(* Mutant of InsertSorted: keys are not looked at, n is prepended.         *)
InsertUnsorted(s, n, key) == AppendToHead(s, n)

(* k_insert_sorted.  The loop stops at the first node with a larger key,   *)
(* or back at the first node, and n goes in front of it; the list head is  *)
(* never moved.  So n becomes the LAST node both when no node has a larger *)
(* key and when the first node already has one.                            *)
InsertSorted(s, n, key) ==
  LET larger == {i \in DOMAIN s : key[n] < key[s[i]]}
  IN  IF larger = {} \/ 1 \in larger
      THEN Append(s, n)
      ELSE InsertAt(s, Min(larger), n)
=============================================================================
