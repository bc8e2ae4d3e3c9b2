-------------------------- MODULE ThreadLifecycle --------------------------
(***************************************************************************)
(* What the scheduler promises of a thread's life: it is created in a free *)
(* place of a process, gets the processor when it is ready, gives it up    *)
(* for a while or for good, and comes back when it is woken or served.     *)
(* Lists, tables and timers do not appear, nor the order in which ready    *)
(* threads run.                                                            *)
(***************************************************************************)
EXTENDS Integers, SequencesExt

CONSTANTS
  Threads,     \* that user code may run in
  Processes, Slots,
  Capacity     \* as many characters are kept for later readers

VARIABLES
  ready, running, stalling,   \* sets of threads
  reading,                    \* threads that wait for a character, first one first
  home,                       \* process and slot of each thread that lives
  unread,                     \* characters that nobody has read
  halted

vars == <<ready, running, stalling, reading, home, unread, halted>>

Nowhere == <<>>

(* One thread lives from the start on. *)
Init ==
  /\ \E t \in Threads, p \in Processes, s \in Slots :
       /\ ready = {t}
       /\ home = [u \in Threads |-> IF u = t THEN <<p, s>> ELSE Nowhere]
  /\ running = {} /\ stalling = {} /\ reading = <<>>
  /\ unread = 0 /\ halted = FALSE

-----------------------------------------------------------------------------
Residents(p) == {t \in Threads : home[t] # Nowhere /\ home[t][1] = p}

(* A thread that lives nowhere gets a slot that nobody has. *)
Enter(p, s) ==
  /\ ~halted
  /\ \A t \in Threads : home[t] # <<p, s>>
  /\ \E t \in Threads :
       /\ home[t] = Nowhere
       /\ home' = [home EXCEPT ![t] = <<p, s>>]
       /\ ready' = ready \cup {t}
  /\ UNCHANGED <<running, stalling, reading, unread, halted>>

StartProcess ==
  \E p \in Processes, s \in Slots :
    running # {} /\ Residents(p) = {} /\ Enter(p, s)

StartThread == \E t \in running, s \in Slots : Enter(home[t][1], s)

-----------------------------------------------------------------------------
(* The processor goes to one of those who wait for it, to nobody only if   *)
(* nobody does.                                                            *)
Successors(waiting) == IF waiting = {} THEN {{}} ELSE {{t} : t \in waiting}

GivesWay(t) == ~halted /\ running = {t} /\ running' \in Successors(ready)

(* The kernel may halt on the way. *)
Yield(t) ==
  /\ GivesWay(t)
  /\ ready' = (ready \ running') \cup {t}
  /\ halted' \in BOOLEAN
  /\ UNCHANGED <<stalling, reading, home, unread>>

Read(t) ==
  /\ GivesWay(t)
  /\ ready' = ready \ running'
  /\ reading' = Append(reading, t)
  /\ UNCHANGED <<stalling, home, unread, halted>>

Stall(t) ==
  /\ GivesWay(t)
  /\ ready' = ready \ running'
  /\ stalling' = stalling \cup {t}
  /\ UNCHANGED <<reading, home, unread, halted>>

(* The time asked for is over at once, and with it that of others. *)
StallBriefly(t) ==
  /\ GivesWay(t)
  /\ \E woken \in SUBSET stalling :
       /\ ready' = (ready \ running') \cup woken \cup {t}
       /\ stalling' = stalling \ woken
  /\ UNCHANGED <<reading, home, unread, halted>>

Exit(t) ==
  /\ GivesWay(t)
  /\ ready' = ready \ running'
  /\ home' = [home EXCEPT ![t] = Nowhere]
  /\ halted' \in BOOLEAN
  /\ UNCHANGED <<stalling, reading, unread>>

-----------------------------------------------------------------------------
(* Readers get the characters there are, first ones first, until there are *)
(* no more of either.                                                      *)
Serve(waiting) ==
  \E arrived \in 0 .. 1 :
    LET kept == Min({unread + arrived, Capacity})
        served == Min({kept, Len(reading)})
    IN  /\ ready' = waiting \cup ToSet(SubSeq(reading, 1, served))
        /\ reading' = SubSeq(reading, served + 1, Len(reading))
        /\ unread' = kept - served
        /\ UNCHANGED halted

Halt(waiting) ==
  /\ ready' = waiting
  /\ halted' = TRUE
  /\ UNCHANGED <<reading, unread>>

(* Some are woken; then the processor may go to another thread, unless     *)
(* nobody waits for it; then readers are served.                           *)
Interrupt ==
  /\ ~halted
  /\ \E woken \in SUBSET stalling :
       LET waiting == ready \cup woken
       IN  /\ stalling' = stalling \ woken
           /\ \/ running' = running /\ Serve(waiting)
              \/ /\ waiting # {} /\ running' \in Successors(waiting)
                 /\ \/ Serve((waiting \ running') \cup running)
                    \/ Halt((waiting \ running') \cup running)
  /\ UNCHANGED home

Next ==
  \/ StartProcess
  \/ StartThread
  \/ \E t \in running : Yield(t) \/ Read(t) \/ Stall(t) \/ StallBriefly(t) \/ Exit(t)
  \/ Interrupt

Spec == Init /\ [][Next]_vars
=============================================================================
