------------------------------ MODULE MCFaults ------------------------------
(* Faults for TLC, with the real memory map; only the pages of a section    *)
(* are fewer.  The rows fill one slot, some and all, in and out of order.   *)
EXTENDS Faults

MCHandleRows ==
  {[slot \in Slots |-> IF slot \in used THEN (first + 9 * slot) % USER_STACK_COUNT ELSE NoTable] :
     used \in {{0}, {0, 2}, {1, 3}, Slots}, first \in {5, USER_STACK_COUNT - 1}}
=============================================================================
