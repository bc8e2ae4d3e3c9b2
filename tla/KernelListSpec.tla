--------------------------- MODULE KernelListSpec ---------------------------
(***************************************************************************)
(* What the intrusive lists promise: a few lists, among which nodes that   *)
(* belong to at most one of them are moved.  There are no pointers here;   *)
(* IntrusiveList implements this specification.                            *)
(***************************************************************************)
EXTENDS KernelList, FiniteSets

CONSTANTS
  Heads,       \* the list heads
  FirstHead,   \* the one whose list holds all nodes in the beginning
  NodeCount,   \* the nodes are numbered in the order they have there
  Keys         \* what sorted insertion compares

Nodes == 0 .. NodeCount - 1

VARIABLES seqs,   \* the nodes of each list, first one first
          key     \* of each node

Init ==
  /\ seqs = [h \in Heads |-> IF h = FirstHead THEN [i \in 1 .. NodeCount |-> i - 1] ELSE <<>>]
  /\ key = [n \in Nodes |-> 0]

In(n, h) == n \in ToSet(seqs[h])

Free(n) == \A h \in Heads : ~In(n, h)

(* n becomes the first node of the list h. *)
AppendAtHead(h, n) ==
  /\ Free(n)
  /\ seqs' = [seqs EXCEPT ![h] = AppendToHead(@, n)]
  /\ UNCHANGED key

(* n follows the node m of the list h. *)
AppendAtNode(h, m, n) ==
  /\ In(m, h) /\ Free(n)
  /\ seqs' = [seqs EXCEPT ![h] = AppendAfter(@, m, n)]
  /\ UNCHANGED key

RemoveFrom(h, n) ==
  /\ In(n, h)
  /\ seqs' = [seqs EXCEPT ![h] = RemoveNode(@, n)]
  /\ UNCHANGED key

(* n gets the key k and its place among the nodes of h. *)
Insert(h, n, k) ==
  /\ Free(n)
  /\ key' = [key EXCEPT ![n] = k]
  /\ seqs' = [seqs EXCEPT ![h] = InsertSorted(@, n, key')]

(* n leaves the list g and becomes the first node of h, which may be g. *)
TransferToHead(g, h, n) ==
  /\ In(n, g)
  /\ LET left == [seqs EXCEPT ![g] = RemoveNode(@, n)]
     IN  seqs' = [left EXCEPT ![h] = AppendToHead(@, n)]
  /\ UNCHANGED key

(* n leaves the list g and follows the node m of h. *)
TransferToNode(g, h, m, n) ==
  /\ In(n, g) /\ In(m, h) /\ m # n
  /\ LET left == [seqs EXCEPT ![g] = RemoveNode(@, n)]
     IN  seqs' = [left EXCEPT ![h] = AppendAfter(@, m, n)]
  /\ UNCHANGED key

Next ==
  \E g, h \in Heads, m, n \in Nodes :
    \/ AppendAtHead(h, n)
    \/ AppendAtNode(h, m, n)
    \/ RemoveFrom(h, n)
    \/ \E k \in Keys : Insert(h, n, k)
    \/ TransferToHead(g, h, n)
    \/ TransferToNode(g, h, m, n)

Spec == Init /\ [][Next]_<<seqs, key>>
=============================================================================
