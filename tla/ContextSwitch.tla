---------------------------- MODULE ContextSwitch ----------------------------
(***************************************************************************)
(* What the user threads see of the kernel: their registers.  The entry    *)
(* code (arch/cpu/interrupt_vector_table.S) pushes r0-r15 as a frame and   *)
(* loads it again before it returns with spsr; the scheduler exchanges the *)
(* frame's r0-r12 and lr, spsr and the banked sp and lr when it switches   *)
(* threads; a system call's result is written to r0 of the frame, a        *)
(* character to r0 of the context its reader left behind.                  *)
(*                                                                         *)
(* Every action of the Scheduler is composed with what it does to the      *)
(* registers, and the input buffer holds characters instead of a count.    *)
(***************************************************************************)
EXTENDS Scheduler

CONSTANTS
  Characters,   \* bound: what is typed
  EINVAL, EBUSY,
  Start,        \* func, its arguments and the stack it is started with
  Clear,        \* status flags of psr_mode_user: all zero
  AnyFlags,     \* flags a function call may change
  Empty         \* no character in the data register

ASSUME SwitchAssumption == Empty \notin Characters

VARIABLES
  cpu,        \* the registers of the thread that runs, as its code sees them
  saved,      \* regs of each thread control block
  dr,         \* the character in the UART's data register
  buffer,     \* the characters in the input ring buffer, oldest first
  promised    \* history: the registers each thread is to find when it runs on

registerVars == <<cpu, saved, dr, buffer, promised>>
allVars == <<vars, registerVars>>

(* A register holds what its thread was started with or what it has        *)
(* computed, which is told from what other threads compute by its tid.     *)
Values == UserThreads \cup {Start}

(* r0 is apart because results are passed in it; general are r1-r12;       *)
(* banked are sp and lr.                                                   *)
Contexts == [r0 : Values \cup Characters \cup {EINVAL, EBUSY},
             general : Values, banked : Values, pc : Values]

Created == [r0 |-> Start, general |-> Start, banked |-> Start, pc |-> Start]

(* scheduler_switch_thread, and the return from the handler: everything    *)
(* from the control block, whose cpsr never changes after its creation.    *)
Entered(context) ==
  [r0 |-> context.r0, general |-> context.general, banked |-> context.banked,
   pc |-> context.pc, flags |-> Clear]

(* The kernel enters the first thread from its own halt loop. *)
SwitchInit ==
  /\ Init
  /\ saved = [t \in Threads |-> Created]
  /\ promised = [t \in Threads |-> Entered(Created)]
  /\ cpu = Entered(Created)
  /\ dr = Empty
  /\ buffer = <<>>

-----------------------------------------------------------------------------
(* The frame the entry code pushes: its lr is where the thread was.        *)
Frame == [r0 |-> cpu.r0, general |-> cpu.general, lr |-> cpu.pc]

(* Mutant of Context: the banked registers are taken from the control      *)
(* block, where they were left the last time.                              *)
ContextOfFrame ==
  [r0 |-> Frame.r0, general |-> Frame.general,
   banked |-> saved[RunningThread].banked, pc |-> Frame.lr]

(* scheduler_save_thread_context: r0-r12 and pc from the frame, sp and lr  *)
(* from the user mode bank.  The status register is not saved.             *)
Context ==
  [r0 |-> Frame.r0, general |-> Frame.general, banked |-> cpu.banked, pc |-> Frame.lr]

Switches == lists'.running # lists.running

(* Whoever ran, other than the idle thread and a thread that ends, is      *)
(* saved when the handler switches.                                        *)
SavedIfSwitched ==
  IF Switches /\ UserThreadRuns
  THEN [saved EXCEPT ![RunningThread] = Context]
  ELSE saved

(* The registers after the handler, given what it leaves saved when it     *)
(* switches; a kernel that halts runs no thread any more.                  *)
Returned(contexts) ==
  IF Switches THEN Entered(contexts[Head(lists'.running)]) ELSE cpu

(* A call: the code around it does not count on the flags. *)
Called == [promised EXCEPT ![RunningThread].flags = AnyFlags]

Answered(result) ==
  [promised EXCEPT ![RunningThread].flags = AnyFlags, ![RunningThread].r0 = result]

-----------------------------------------------------------------------------
(* The running thread computes: all its registers change. *)
Compute ==
  /\ ~halted
  /\ UserThreadRuns
  /\ cpu' = [register \in DOMAIN cpu |-> RunningThread]
  /\ promised' = [promised EXCEPT ![RunningThread] = cpu']
  /\ UNCHANGED <<vars, saved, dr, buffer>>

(* Calls that give way: the caller is saved, the next thread entered. *)
GiveWay ==
  /\ saved' = SavedIfSwitched
  /\ cpu' = Returned(saved')
  /\ promised' = Called
  /\ UNCHANGED <<dr, buffer>>

Read == ReadCharacter /\ GiveWay

Stall(match) == StallThread(match) /\ GiveWay

(* stall_thread with 0 ms, or with a time that cannot be converted.  The   *)
(* error is found after the switch and written to r0 of the frame.         *)
Yield ==
  /\ YieldThread
  /\ saved' = SavedIfSwitched
  /\ \/ /\ cpu' = Returned(saved')
        /\ promised' = Called
     \/ /\ "stall_too_long" \in Calls
        /\ cpu' = [Returned(saved') EXCEPT !.r0 = EINVAL]
        /\ promised' = Answered(EINVAL)
  /\ UNCHANGED <<dr, buffer>>

(* The control block's registers keep what they were saved with last.      *)
Exit ==
  /\ ExitThread
  /\ cpu' = Returned(saved)
  /\ promised' = [promised EXCEPT ![RunningThread] = Entered(Created)]
  /\ UNCHANGED <<saved, dr, buffer>>

(* A new thread's context: r0, sp, lr and pc are set; r1-r12 keep what the *)
(* control block's last owner left.  The caller gets no result.            *)
Create ==
  LET thread == Head(lists.finished)
      context == [Created EXCEPT !.general = saved[thread].general]
  IN  /\ CreateProcess \/ CreateThread
      /\ saved' = IF halted' THEN saved ELSE [saved EXCEPT ![thread] = context]
      /\ promised' = IF halted' THEN Called
                     ELSE [Called EXCEPT ![thread] = Entered(context)]
      /\ UNCHANGED <<cpu, dr, buffer>>

(* A call that answers at once: too large arguments, no process, no slot;  *)
(* the thread's id and the time are answers of the same kind.              *)
Answers ==
  {EINVAL, RunningThread}
    \cup (IF EmptyAddressSpaces = {} \/ FreeSlots(pid[RunningThread]) = {} THEN {EBUSY} ELSE {})

Answer ==
  /\ Calling("answer")
  /\ \E result \in Answers :
       /\ cpu' = [cpu EXCEPT !.r0 = result]
       /\ promised' = Answered(result)
  /\ UNCHANGED <<vars, saved, dr, buffer>>

-----------------------------------------------------------------------------
(* Mutant of Buffered: the last place is counted but not written. *)
BufferedShort ==
  IF rx /\ unread + 1 < UART_INPUT_BUFFER_SIZE THEN Append(buffer, dr) ELSE buffer

(* The buffer after pl001_receive. *)
Buffered == IF rx /\ Received > unread THEN Append(buffer, dr) ELSE buffer

(* The readers the interrupt serves, with the characters they get: the     *)
(* first ones first.                                                       *)
Served == SubSeq(Switched.input, 1, Len(Buffered) - unread')

(* Mutant of Fed: every reader gets the newest character. *)
FedNewest(contexts) ==
  [t \in Threads |->
     IF t \in ToSet(Served)
     THEN [contexts[t] EXCEPT !.r0 = Last(Buffered)]
     ELSE contexts[t]]

(* scheduler_unblock_first_input_waiting_thread(pl001_read()), once for    *)
(* each reader served: the character goes to r0 of the reader's registers. *)
Fed(contexts) ==
  [t \in Threads |->
     IF t \in ToSet(Served)
     THEN [contexts[t] EXCEPT !.r0 = Buffered[Position(Served, t)]]
     ELSE contexts[t]]

Interrupt ==
  /\ IRQ
  /\ IF halted'
     THEN UNCHANGED registerVars
     ELSE /\ saved' = Fed(SavedIfSwitched)
          /\ cpu' = Returned(SavedIfSwitched)
          /\ buffer' = SubSeq(Buffered, Len(Served) + 1, Len(Buffered))
          /\ promised' = [t \in Threads |->
               IF t \in ToSet(Served)
               THEN [promised[t] EXCEPT !.r0 = (buffer \o <<dr>>)[Position(lists.input, t)]]
               ELSE promised[t]]
          /\ dr' = Empty

Type(ch) == Keypress /\ dr' = ch /\ UNCHANGED <<cpu, saved, buffer, promised>>

Hardware == (Tick \/ SystimerMatch) /\ UNCHANGED registerVars

SwitchNext ==
  \/ Compute
  \/ Read
  \/ Yield
  \/ \E match \in Durations : Stall(match)
  \/ Exit
  \/ Create
  \/ Answer
  \/ Interrupt
  \/ \E ch \in Characters : Type(ch)
  \/ Hardware

SwitchSpec == SwitchInit /\ [][SwitchNext]_allVars

-----------------------------------------------------------------------------
Without(registers) == [r \in DOMAIN registers \ {"flags"} |-> registers[r]]

(* Type invariant; the buffer holds as many characters as the scheduler    *)
(* counts, so a reader that is served always gets one.                     *)
SwitchTypeOK ==
  /\ Without(cpu) \in Contexts /\ cpu.flags \in UserThreads \cup {Clear}
  /\ saved \in [Threads -> Contexts]
  /\ \A t \in Threads : /\ Without(promised[t]) \in Contexts
                       /\ promised[t].flags \in UserThreads \cup {Clear, AnyFlags}
  /\ dr \in Characters \cup {Empty} /\ rx = (dr # Empty)
  /\ buffer \in Seq(Characters) /\ Len(buffer) = unread

(* A thread that runs finds r1-r12, sp, lr and pc as it left them, however *)
(* often and by whichever handler it was interrupted, blocked and switched *)
(* to again; a new one finds its start.  A kernel that has halted in the   *)
(* middle of a switch runs no thread.                                      *)
ContextKept ==
  ~halted /\ UserThreadRuns =>
    LET own == promised[RunningThread]
    IN  cpu.general = own.general /\ cpu.banked = own.banked /\ cpu.pc = own.pc

(* r0 is the thread's own, or the result of its last call: a reader finds  *)
(* the character that was its turn, though it came while others ran.       *)
ResultsDelivered == ~halted /\ UserThreadRuns => cpu.r0 = promised[RunningThread].r0

(* regcheck.c on its register test: it needs the flags.  A thread that is  *)
(* interrupted between two instructions finds its flags as they were.      *)
FlagsKept ==
  UserThreadRuns => promised[RunningThread].flags \in {cpu.flags, AnyFlags}

(* README.md on stall_thread: it returns -EINVAL for a time that is too    *)
(* large.  The call's result is what its caller finds in r0.               *)
ErrorReachesCaller ==
  UserThreadRuns /\ promised[RunningThread].r0 = EINVAL => cpu.r0 = EINVAL
=============================================================================
