---------------------------- MODULE IntrusiveList ----------------------------
(***************************************************************************)
(* kernel/lib/kintrusive_list.c: circular doubly linked lists whose nodes  *)
(* lie in the thread control blocks.  A list head is told from a node by   *)
(* its previous pointer, which is NULL; its next pointer is the first node *)
(* or NULL.  A node in no list points at itself.                           *)
(*                                                                         *)
(* No operation checks that a node is in the list it is removed from, or   *)
(* in none when it is added to one: the guards of the actions below are    *)
(* what the callers in kernel/scheduler.c see to.                          *)
(***************************************************************************)
EXTENDS Integers, FiniteSets, SequencesExt

CONSTANTS
  Heads,       \* the list heads
  FirstHead,   \* finished_list, which starts with every node
  NodeCount,   \* the control blocks, whose nodes are numbered
  Keys,        \* bound: the values of stall_until
  NULL

Nodes == 0 .. NodeCount - 1

(* What the constants have to be; Library assumes it. *)
ListConstants ==
  /\ NodeCount \in Nat \ {0}
  /\ FirstHead \in Heads
  /\ Heads \cap Nodes = {}
  /\ NULL \notin Heads \cup Nodes
  /\ Keys \subseteq Nat

VARIABLES heap,   \* the previous and the next pointer of every k_node
          key     \* stall_until of the block the node lies in

(* k_modulo_add and k_modulo_sub, within min .. max - 1: of unsigned that do *)
(* not wrap.                                                               *)
ModuloAdd(a, b, min, max) ==
  LET sum == (a % max) + (b % max)
  IN  IF sum < max THEN sum ELSE sum - max + min

ModuloSub(a, b, min, max) ==
  LET low == a % max
      back == b % max
      above == IF low < min THEN min - low ELSE low - min
  IN  IF above < back THEN max - (back - above) ELSE low - back

(* The pointers that scheduler_initialise sets and the heads begin with.   *)
Init ==
  /\ heap = [x \in Heads \cup Nodes |->
       IF x \in Nodes
       THEN [previous |-> ModuloSub(x, 1, 0, NodeCount), next |-> ModuloAdd(x, 1, 0, NodeCount)]
       ELSE [previous |-> NULL, next |-> IF x = FirstHead THEN 0 ELSE NULL]]
  /\ key = [n \in Nodes |-> 0]

-----------------------------------------------------------------------------
IsHead(x) == heap[x].previous = NULL

(* k_connect_nodes: two assignments, in pointers p. *)
Connected(p, from, to) == [p EXCEPT ![from].next = to, ![to].previous = from]

(* Mutant of Unlinked: n keeps its pointers. *)
UnlinkedOnly(p, list, n) ==
  LET alone == p[n].previous = n /\ p[n].next = n
      moved == IF p[list].next = n
               THEN [p EXCEPT ![list].next = IF alone THEN NULL ELSE p[n].next]
               ELSE p
  IN  Connected(moved, moved[n].previous, moved[n].next)

(* k_remove_node_from_list. *)
Unlinked(p, list, n) ==
  LET alone == p[n].previous = n /\ p[n].next = n
      moved == IF p[list].next = n
               THEN [p EXCEPT ![list].next = IF alone THEN NULL ELSE p[n].next]
               ELSE p
  IN  Connected(Connected(moved, moved[n].previous, moved[n].next), n, n)

(* The two connections that put n behind m. *)
LinkedAfter(p, m, n) == Connected(Connected(p, n, p[m].next), m, n)

(* k_append_node_to_list.  An empty list only gets its head set: n has to  *)
(* point at itself already.                                                *)
Appended(p, list, n) ==
  IF p[list].previous # NULL
  THEN LinkedAfter(p, list, n)
  ELSE IF p[list].next = NULL
       THEN [p EXCEPT ![list].next = n]
       ELSE LinkedAfter([p EXCEPT ![list].next = n], p[p[list].next].previous, n)

-----------------------------------------------------------------------------
(* Following next pointers from the first node of a list until the first   *)
(* node comes back, in at most NodeCount steps.                            *)
Nth(first) ==
  LET node[i \in 1 .. NodeCount + 1] == IF i = 1 THEN first ELSE heap[node[i - 1]].next
  IN  node

Walk(list) ==
  IF heap[list].next = NULL
  THEN <<>>
  ELSE LET node == Nth(heap[list].next)
           length == CHOOSE i \in 1 .. NodeCount :
                       /\ node[i + 1] = node[1]
                       /\ \A j \in 2 .. i : node[j] # node[1]
       IN  [i \in 1 .. length |-> node[i]]

Member(n, list) == n \in ToSet(Walk(list))

Detached(n) == \A h \in Heads : ~Member(n, h)

(* Mutant of Sorted: n goes in front of the nodes with an equal key. *)
SortedBeforeEqual(p, list, n, k) ==
  IF p[list].next = NULL
  THEN [p EXCEPT ![list].next = n]
  ELSE LET stops == {i \in DOMAIN Walk(list) : k[Walk(list)[i]] >= k[n]}
           current == IF stops = {} THEN p[list].next ELSE Walk(list)[Min(stops)]
       IN  LinkedAfter(p, p[current].previous, n)

(* k_insert_sorted: the loop goes on while the comparison holds and stops  *)
(* at the first node again at the latest; n goes in front of where it      *)
(* stopped.  The head does not move.                                       *)
Sorted(p, list, n, k) ==
  IF p[list].next = NULL
  THEN [p EXCEPT ![list].next = n]
  ELSE LET stops == {i \in DOMAIN Walk(list) : k[Walk(list)[i]] > k[n]}
           current == IF stops = {} THEN p[list].next ELSE Walk(list)[Min(stops)]
       IN  LinkedAfter(p, p[current].previous, n)

-----------------------------------------------------------------------------
(* The list is named by its head or by the node to append behind. *)
AppendNode(list, n) ==
  /\ Detached(n)
  /\ IsHead(list) \/ ~Detached(list)
  /\ heap' = Appended(heap, list, n)
  /\ UNCHANGED key

RemoveFrom(list, n) ==
  /\ Member(n, list)
  /\ heap' = Unlinked(heap, list, n)
  /\ UNCHANGED key

InsertSorted(list, n, k) ==
  /\ Detached(n)
  /\ key' = [key EXCEPT ![n] = k]
  /\ heap' = Sorted(heap, list, n, key')

(* k_transfer_list_node; the caller has looked up to before the removal. *)
Transfer(from, to, n) ==
  /\ Member(n, from)
  /\ to # n
  /\ IsHead(to) \/ ~Detached(to)
  /\ heap' = Appended(Unlinked(heap, from, n), to, n)
  /\ UNCHANGED key

Next ==
  \E n \in Nodes :
    \/ \E list \in Heads \cup Nodes : AppendNode(list, n)
    \/ \E list \in Heads : RemoveFrom(list, n)
    \/ \E list \in Heads, k \in Keys : InsertSorted(list, n, k)
    \/ \E from \in Heads, to \in Heads \cup Nodes : Transfer(from, to, n)

Spec == Init /\ [][Next]_<<heap, key>>

-----------------------------------------------------------------------------
(* Type invariant, which is what the VERIFYs of every operation ask for:   *)
(* k_is_list_head of the heads, k_is_list_node of the nodes.               *)
TypeOK ==
  /\ heap \in [Heads \cup Nodes -> [previous : Nodes \cup {NULL}, next : Nodes \cup {NULL}]]
  /\ \A h \in Heads : heap[h].previous = NULL
  /\ \A n \in Nodes : heap[n].previous # NULL /\ heap[n].next # NULL
  /\ key \in [Nodes -> Keys \cup {0}]

(* Every pointer is answered by the pointer back: any node can be taken    *)
(* out of its ring without knowing the list.                               *)
RingsClosed ==
  \A n \in Nodes : heap[heap[n].next].previous = n /\ heap[heap[n].previous].next = n

(* No ring is reached from two heads, or hangs on no head and has two      *)
(* nodes; a node in no list points at itself, on which appending to an     *)
(* empty list relies.                                                      *)
RingsOwned ==
  \A n \in Nodes :
    /\ Cardinality({h \in Heads : Member(n, h)}) <= 1
    /\ Detached(n) => heap[n].next = n /\ heap[n].previous = n

(* The pointer operations do to the sequence of nodes what KernelList says *)
(* and the scheduler counts on, and to no other list anything.             *)
Sequences == [h \in Heads |-> Walk(h)]

List == INSTANCE KernelListSpec WITH seqs <- Sequences

ImplementsList == List!Spec

(* Each operation is the one it stands for: given a head it makes n the    *)
(* first node, given a node of some list it puts n right behind that one.  *)
Agree ==
  \A n \in Nodes :
    /\ \A list \in Heads :
         /\ AppendNode(list, n) => List!AppendAtHead(list, n)
         /\ RemoveFrom(list, n) => List!RemoveFrom(list, n)
         /\ \A to \in Heads : Transfer(list, to, n) => List!TransferToHead(list, to, n)
    /\ \A m \in Nodes :
         /\ AppendNode(m, n) => \E h \in Heads : List!AppendAtNode(h, m, n)
         /\ \A list \in Heads :
              Transfer(list, m, n) => \E h \in Heads : List!TransferToNode(list, h, m, n)
=============================================================================
