------------------------------- MODULE Faults -------------------------------
(***************************************************************************)
(* What protects the kernel and the threads from each other: the           *)
(* translation tables, and the modes in which handlers and threads run.    *)
(*                                                                         *)
(* mmu_configure fills the tables as one of the steps of start_kernel.     *)
(* After that only scheduler_round_robin writes to them.  The two parts    *)
(* do not look at each other any more, so a behaviour follows either the   *)
(* tables, from one process to the next, or the modes.                     *)
(***************************************************************************)
EXTENDS MMU

CONSTANTS UserThreads, None, Idle, PrefetchStatuses, DataStatuses

VARIABLES
  boot, psr, spsr, stacks, cpsr, place, running, exception, origin, phase, status,
  timer, irqs, halted

Modal == INSTANCE Exceptions

ASSUME ModalAssumption == Modal!ModalConstants

tableVars == <<l1Table, filled, process, slotStack>>
modalVars == <<boot, psr, spsr, stacks, cpsr, place, running, exception, origin, phase, status,
               timer, irqs, halted>>
allVars == <<tableVars, modalVars>>

FaultsInit == Init /\ Modal!Init

Configured == filled = RangeCount + 1 /\ process = -1

FaultsNext ==
  \/ boot = "mmu" /\ exception = "none" /\ Next /\ UNCHANGED modalVars
  \/ (boot = "mmu" => Configured) /\ Modal!Next /\ UNCHANGED tableVars

(* The fairness of Exceptions; mmu_configure comes to its end. *)
FaultsSpec ==
  /\ FaultsInit /\ [][FaultsNext]_allVars
  /\ SF_allVars(Modal!Boot /\ (boot = "mmu" => Configured) /\ UNCHANGED tableVars)
  /\ WF_allVars(Modal!Handler /\ UNCHANGED tableVars)
  /\ SF_allVars(Modal!Interrupt /\ UNCHANGED tableVars)

-----------------------------------------------------------------------------
(* Where the tables are followed; everywhere else they are as Configured.  *)
Followed == boot = "mmu" /\ exception = "none"

(* Type invariant of both parts. *)
FaultsTypeOK ==
  /\ Modal!ExceptionsTypeOK
  /\ Followed => TypeOK

(* What MMU says of the tables: user code gets nowhere but to its text,    *)
(* its constants, its data and its stacks. *)
UserMemoryConfined == Followed => UserConfined

(* What is executed, and the data new processes start with, is written     *)
(* through no mapping: CodeProtected and OriginalPristine of MMU.          *)
WriteProtected == Followed => CodeProtected /\ OriginalPristine

(* The kernel's and the user's mapping of process data and of stacks lead  *)
(* to the same memory, as MMU states it.                                   *)
SameMemorySeen == Followed => KernelWritesWhatUsersSee

(* Every stack of every mode ends at a page nobody can access, as MMU      *)
(* states it.                                                              *)
GuardPagesHold == Followed => StacksGuarded

(* Of the modes, as Exceptions states it. *)
ThreadsInOwnMode == Modal!ThreadsInOwnMode
ReadyForExceptions == Modal!ReadyForExceptions
FaultsConfined == Modal!FaultsConfined
TimerRuns == Modal!TimerRuns
=============================================================================
