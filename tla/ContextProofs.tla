---------------------------- MODULE ContextProofs ----------------------------
(***************************************************************************)
(* Proofs of what the user threads see of the kernel, for every number of  *)
(* threads, every set of characters and every order of calls, computations *)
(* and interrupts: their registers survive whatever happens to them.       *)
(***************************************************************************)
EXTENDS ContextSwitch, SwitchProofs

-----------------------------------------------------------------------------
(* Part 1: registers and contexts as records.                              *)

Results == Values \cup Characters \cup {EINVAL, EBUSY}

Registers(flags) ==
  [r0 : Results, general : Values, banked : Values, pc : Values, flags : flags]

CpuRegisters == Registers(UserThreads \cup {Clear})
PromisedRegisters == Registers(UserThreads \cup {Clear, AnyFlags})

(* What scheduler_switch_thread loads is the context, and cleared flags.   *)
LEMMA EnteredRegisters ==
  ASSUME NEW context \in Contexts
  PROVE  /\ Entered(context) \in CpuRegisters
         /\ Entered(context) \in PromisedRegisters
BY DEF Entered, Contexts, CpuRegisters, PromisedRegisters, Registers, Results

LEMMA CreatedContext == Created \in Contexts
BY DEF Created, Contexts, Values

(* Registers without their flags are a context. *)
LEMMA WithoutFlags ==
  ASSUME NEW flags, NEW registers \in Registers(flags)
  PROVE  Without(registers) \in Contexts /\ registers.flags \in flags
<1>1. DOMAIN registers \ {"flags"} = {"r0", "general", "banked", "pc"}
  BY DEF Registers
<1>2. Without(registers) =
        [r0 |-> registers.r0, general |-> registers.general,
         banked |-> registers.banked, pc |-> registers.pc]
  BY <1>1 DEF Without
<1> QED BY <1>2 DEF Registers, Contexts, Results

-----------------------------------------------------------------------------
(* Part 2: the inductive invariant.  A thread that runs has its registers  *)
(* in the processor, a live one that does not has them in its control      *)
(* block; what a finished one has there is nobody's.  The result in r0 is  *)
(* left out where a call exists whose error goes to the wrong thread       *)
(* (ErrorReachesCaller).                                                   *)
Agrees(registers, own) ==
  /\ registers.general = own.general
  /\ registers.banked = own.banked
  /\ registers.pc = own.pc
  /\ "stall_too_long" \notin Calls => registers.r0 = own.r0

KeptBy(ls, registers, contexts, promises) ==
  /\ ls.running # <<>> /\ Head(ls.running) # IdleThread =>
       Agrees(registers, promises[Head(ls.running)])
  /\ \A t \in UserThreads :
       t \notin ToSet(ls.finished) /\ t \notin ToSet(ls.running) =>
         Agrees(contexts[t], promises[t])

RegistersTyped ==
  /\ cpu \in CpuRegisters
  /\ saved \in [Threads -> Contexts]
  /\ promised \in [Threads -> PromisedRegisters]

BufferTyped ==
  /\ dr \in Characters \cup {Empty} /\ rx = (dr # Empty)
  /\ buffer \in Seq(Characters) /\ Len(buffer) = unread

ContextInv ==
  /\ IInv
  /\ RegistersTyped
  /\ BufferTyped
  /\ ~halted => KeptBy(lists, cpu, saved, promised)

(* Seen without the registers, a step is one of the scheduler's, or none.  *)
LEMMA SchedulerStep == [SwitchNext]_allVars => [Next]_vars
<1> SUFFICES ASSUME [SwitchNext]_allVars
             PROVE  [Next]_vars
  OBVIOUS
<1>1. CASE Read \/ Yield \/ (\E match \in Durations : Stall(match)) \/ Exit \/ Create \/ Interrupt
  BY <1>1 DEF Read, Yield, Stall, Exit, Create, Interrupt, Next
<1>2. CASE (\E ch \in Characters : Type(ch)) \/ Hardware
  BY <1>2 DEF Type, Hardware, Next
<1>3. CASE Compute \/ Answer
  BY <1>3 DEF Compute, Answer
<1>4. CASE UNCHANGED allVars
  BY <1>4 DEF allVars
<1> QED BY <1>1, <1>2, <1>3, <1>4 DEF SwitchNext

(* A user thread that runs is the head and all of its list. *)
LEMMA WhoRuns ==
  ASSUME NEW ls, Placed(ls)
  PROVE  /\ ls.running = <<>> => ToSet(ls.running) = {}
         /\ ls.running # <<>> =>
              /\ Head(ls.running) \in Threads /\ ToSet(ls.running) = {Head(ls.running)}
              /\ ls.running = <<Head(ls.running)>>
              /\ Head(ls.running) \notin ToSet(ls.finished)
<1>1. ls.running = <<>> => ToSet(ls.running) = {}
  BY SmallNodes, IdleIsNoUser
<1>2. ASSUME ls.running # <<>>
      PROVE  /\ Head(ls.running) \in Threads /\ ToSet(ls.running) = {Head(ls.running)}
             /\ ls.running = <<Head(ls.running)>>
             /\ Head(ls.running) \notin ToSet(ls.finished)
  <2>1. Head(ls.running) \in Threads /\ ToSet(ls.running) = {Head(ls.running)}
    BY <1>2, RunningNodes
  <2>2. ls.running \in Seq(Threads) /\ Len(ls.running) <= 1 /\ Len(ls.running) \in Nat \ {0}
    BY <1>2, EmptySeq DEF Placed, Lists, NodeLists
  <2>3. Len(ls.running) = 1
    <3>1. \A n \in Nat \ {0} : n <= 1 => n = 1
      OBVIOUS
    <3> QED BY <2>2, <3>1, Zenon
  <2>4. ls.running = <<Head(ls.running)>>
    BY <2>2, <2>3
  <2>5. Head(ls.running) \notin ToSet(ls.finished)
    BY <2>1 DEF Placed, Apart
  <2> QED BY <2>1, <2>4, <2>5
<1> QED BY <1>1, <1>2

(* The registers after a handler that starts no thread: whoever ran is in  *)
(* contexts as he was in the processor, if he still lives and runs no      *)
(* more; the others are there as before.                                   *)
LEMMA Handover ==
  ASSUME Placed(lists), Placed(lists'), KeptBy(lists, cpu, saved, promised),
         RegistersTyped,
         ToSet(lists.finished) \subseteq ToSet(lists'.finished),
         NEW contexts \in [Threads -> Contexts],
         \A t \in UserThreads : t \notin ToSet(lists'.finished) =>
           contexts[t] = IF Switches /\ t \in ToSet(lists.running) THEN Context ELSE saved[t]
  PROVE  KeptBy(lists', Returned(contexts), contexts, promised)
<1>1. /\ Context.general = cpu.general /\ Context.banked = cpu.banked
      /\ Context.pc = cpu.pc /\ Context.r0 = cpu.r0
  BY DEF Context, Frame
<1>2. ASSUME NEW t \in UserThreads, t \in ToSet(lists.running)
      PROVE  Agrees(cpu, promised[t])
  BY <1>2, WhoRuns, IdleIsNoUser DEF KeptBy
<1>3. ASSUME lists'.running # <<>>, Head(lists'.running) # IdleThread
      PROVE  Agrees(Returned(contexts), promised[Head(lists'.running)])
  <2> DEFINE next == Head(lists'.running)
  <2>1. next \in UserThreads /\ next \notin ToSet(lists'.finished) /\ lists'.running = <<next>>
    BY <1>3, WhoRuns, IdleIsNoUser
  <2>2. next \notin ToSet(lists.finished)
    BY <2>1
  <2> HIDE DEF next
  <2>3. CASE lists'.running = lists.running
    <3>1. next \in ToSet(lists.running)
      BY <2>1, <2>3, WhoRuns, IdleIsNoUser DEF next
    <3> QED BY <1>2, <2>1, <2>3, <3>1 DEF Returned, Switches, next
  <2>4. CASE lists'.running # lists.running
    <3>1. next \notin ToSet(lists.running)
      BY <2>1, <2>4, WhoRuns
    <3>2. Agrees(saved[next], promised[next])
      BY <2>1, <2>2, <3>1 DEF KeptBy
    <3>3. contexts[next] = saved[next]
      BY <2>1, <3>1
    <3> QED BY <2>4, <3>2, <3>3 DEF Returned, Switches, Entered, Agrees, next
  <2> QED BY <2>3, <2>4 DEF next
<1>4. ASSUME NEW t \in UserThreads, t \notin ToSet(lists'.finished), t \notin ToSet(lists'.running)
      PROVE  Agrees(contexts[t], promised[t])
  <2>1. t \notin ToSet(lists.finished)
    BY <1>4
  <2>2. CASE t \in ToSet(lists.running)
    <3>1. Switches
      BY <1>4, <2>2 DEF Switches
    <3> QED BY <1>1, <1>2, <1>4, <2>2, <3>1 DEF Agrees
  <2>3. CASE t \notin ToSet(lists.running)
    BY <1>4, <2>1, <2>3 DEF KeptBy
  <2> QED BY <2>2, <2>3
<1> QED BY <1>3, <1>4 DEF KeptBy

-----------------------------------------------------------------------------
(* Part 3: what the handlers have in common.                               *)

LEMMA ContextTyped ==
  ASSUME RegistersTyped
  PROVE  /\ Context \in Contexts
         /\ SavedIfSwitched \in [Threads -> Contexts]
BY DEF RegistersTyped, CpuRegisters, Registers, Contexts, Results, Context, Frame,
       SavedIfSwitched

(* The processor's registers after a handler, if a thread runs after it.   *)
LEMMA ReturnedTyped ==
  ASSUME RegistersTyped, NEW contexts \in [Threads -> Contexts],
         Placed(lists'), lists'.running # <<>> \/ lists'.running = lists.running
  PROVE  Returned(contexts) \in CpuRegisters
<1>1. CASE Switches
  <2>1. Head(lists'.running) \in Threads
    BY <1>1, WhoRuns DEF Switches
  <2> QED BY <1>1, <2>1, EnteredRegisters DEF Returned
<1>2. CASE ~Switches
  BY <1>2 DEF Returned, RegistersTyped
<1> QED BY <1>1, <1>2

(* A call that answers nothing promises the same registers as before, but  *)
(* for the flags; an answer is promised in r0.                             *)
LEMMA CalledPromises ==
  ASSUME RegistersTyped, UserThreadRuns, RunningThread \in Threads
  PROVE  /\ Called \in [Threads -> PromisedRegisters]
         /\ \A t \in Threads :
              /\ Called[t].general = promised[t].general
              /\ Called[t].banked = promised[t].banked
              /\ Called[t].pc = promised[t].pc
              /\ Called[t].r0 = promised[t].r0
<1> DEFINE thread == RunningThread
<1>1. Called = [promised EXCEPT ![thread] = [promised[thread] EXCEPT !.flags = AnyFlags]]
  BY DEF Called
<1>2. promised \in [Threads -> PromisedRegisters] /\ thread \in Threads
  BY DEF RegistersTyped
<1> HIDE DEF thread
<1>3. [promised[thread] EXCEPT !.flags = AnyFlags] =
        [r0 |-> promised[thread].r0, general |-> promised[thread].general,
         banked |-> promised[thread].banked, pc |-> promised[thread].pc, flags |-> AnyFlags]
  BY <1>2 DEF PromisedRegisters, Registers
<1> QED BY <1>1, <1>2, <1>3 DEF PromisedRegisters, Registers

LEMMA AnsweredPromises ==
  ASSUME RegistersTyped, UserThreadRuns, RunningThread \in Threads, NEW result \in Results
  PROVE  /\ Answered(result) \in [Threads -> PromisedRegisters]
         /\ \A t \in Threads :
              /\ Answered(result)[t].general = promised[t].general
              /\ Answered(result)[t].banked = promised[t].banked
              /\ Answered(result)[t].pc = promised[t].pc
              /\ Answered(result)[t].r0 = IF t = RunningThread THEN result ELSE promised[t].r0
<1> DEFINE thread == RunningThread
           once == [promised EXCEPT ![thread] = [promised[thread] EXCEPT !.flags = AnyFlags]]
<1>1. Answered(result) = [once EXCEPT ![thread] = [once[thread] EXCEPT !.r0 = result]]
  BY DEF Answered
<1>2. promised \in [Threads -> PromisedRegisters] /\ thread \in Threads
  BY DEF RegistersTyped
<1> HIDE DEF thread
<1>3. once[thread] =
        [r0 |-> promised[thread].r0, general |-> promised[thread].general,
         banked |-> promised[thread].banked, pc |-> promised[thread].pc, flags |-> AnyFlags]
  BY <1>2 DEF PromisedRegisters, Registers
<1>4. [once[thread] EXCEPT !.r0 = result] =
        [r0 |-> result, general |-> promised[thread].general,
         banked |-> promised[thread].banked, pc |-> promised[thread].pc, flags |-> AnyFlags]
  BY <1>3
<1>5. /\ Answered(result) \in [Threads -> PromisedRegisters]
      /\ \A t \in Threads : Answered(result)[t] =
           IF t = thread THEN [once[thread] EXCEPT !.r0 = result] ELSE promised[t]
  BY <1>1, <1>2, <1>3, <1>4 DEF PromisedRegisters, Registers
<1> QED BY <1>4, <1>5 DEF thread

(* Finished threads stay finished unless the bookkeeping says otherwise.   *)
LEMMA FinishedStay ==
  ASSUME IInv, IInv', pid' = pid, \A a \in AddressSpaces : spaces'[a] \subseteq spaces[a]
  PROVE  ToSet(lists.finished) \subseteq ToSet(lists'.finished)
<1> SUFFICES ASSUME NEW t \in ToSet(lists.finished), t \notin ToSet(lists'.finished)
             PROVE  FALSE
  OBVIOUS
<1>1. t \in UserThreads
  BY InvariantNow, NodesInSet, IdleIsNoUser DEF Placed, Lists, Waiting
<1>2. pid[t] \in AddressSpaces
  BY <1>1, PidOfThread, IdleIsNoUser DEF IInv
<1>3. t \in spaces'[pid[t]]
  BY <1>1, <1>2 DEF IInv, SlotBookkeeping, Live
<1>4. t \in spaces[pid[t]]
  BY <1>2, <1>3
<1> QED BY <1>1, <1>2, <1>4 DEF IInv, SlotBookkeeping, Live

(* scheduler_round_robin always leaves a thread running.                   *)
LEMMA SomebodyRuns ==
  ASSUME NEW ls \in Lists, NEW type
  PROVE  RoundRobin(ls, type).running # <<>>
<1>1. <<NextThread(ls)>> # <<>>
  OBVIOUS
<1> QED BY <1>1 DEF RoundRobin, KeepsRunning, Lists

(* Unless its result is in question, a thread agrees with what differs     *)
(* from what was promised in the flags only.                               *)
LEMMA KeptOtherwise ==
  ASSUME NEW ls, Placed(ls), NEW registers, NEW contexts, NEW promises,
         KeptBy(ls, registers, contexts, promised),
         \A t \in Threads :
              /\ promises[t].general = promised[t].general
              /\ promises[t].banked = promised[t].banked
              /\ promises[t].pc = promised[t].pc
              /\ "stall_too_long" \notin Calls => promises[t].r0 = promised[t].r0
  PROVE  KeptBy(ls, registers, contexts, promises)
BY WhoRuns, IdleIsNoUser DEF KeptBy, Agrees

-----------------------------------------------------------------------------
(* Part 4: one lemma for each kind of step.  The scheduler's invariant     *)
(* holds before and after.                                                 *)

(* Calls that give way: nobody gets a new thread's or a foreign context.   *)
LEMMA GiveWayStep ==
  ASSUME ContextInv, IInv', ~halted,
         ReadCharacter \/ YieldThread \/ \E match \in Durations : StallThread(match),
         saved' = SavedIfSwitched
  PROVE  /\ UserThreadRuns /\ RunningThread \in UserThreads
         /\ saved' \in [Threads -> Contexts]
         /\ Returned(saved') \in CpuRegisters
         /\ KeptBy(lists', Returned(saved'), saved', promised)
<1>1. UserThreadRuns /\ pid' = pid /\ spaces' = spaces
  BY DEF ReadCharacter, YieldThread, StallThread, Calling, procVars
<1>2. Placed(lists) /\ Placed(lists') /\ IInv /\ RegistersTyped
  BY InvariantNow, PlacedNext DEF ContextInv
<1>3. RunningThread \in UserThreads /\ ToSet(lists.running) = {RunningThread}
  BY <1>1, <1>2, WhoRuns, IdleIsNoUser DEF UserThreadRuns, RunningThread
<1>4. lists'.running # <<>>
  BY <1>2, CallSwitches, SomebodyRuns DEF Switch, Placed
<1>5. ToSet(lists.finished) \subseteq ToSet(lists'.finished)
  BY <1>1, <1>2, FinishedStay
<1>6. saved' \in [Threads -> Contexts]
  BY <1>2, ContextTyped
<1>7. \A t \in UserThreads :
        saved'[t] = IF Switches /\ t \in ToSet(lists.running) THEN Context ELSE saved[t]
  BY <1>1, <1>2, <1>3, IdleIsNoUser DEF SavedIfSwitched, RegistersTyped
<1>8. KeptBy(lists', Returned(saved'), saved', promised)
  BY <1>2, <1>5, <1>6, <1>7, Handover DEF ContextInv
<1> QED BY <1>1, <1>2, <1>3, <1>4, <1>6, <1>8, ReturnedTyped

LEMMA CallStep ==
  ASSUME ContextInv, IInv', Read \/ \E match \in Durations : Stall(match)
  PROVE  ContextInv'
<1>1. /\ ReadCharacter \/ \E match \in Durations : StallThread(match)
      /\ GiveWay /\ UNCHANGED uartVars
  BY DEF Read, Stall, ReadCharacter, StallThread
<1>2. ~halted
  BY <1>1 DEF ReadCharacter, StallThread, Calling
<1>3. /\ saved' = SavedIfSwitched /\ cpu' = Returned(saved') /\ promised' = Called
      /\ UNCHANGED <<dr, buffer>>
  BY <1>1 DEF GiveWay
<1>4. /\ UserThreadRuns /\ RunningThread \in Threads
      /\ saved' \in [Threads -> Contexts]
      /\ Returned(saved') \in CpuRegisters
      /\ KeptBy(lists', Returned(saved'), saved', promised)
  BY <1>1, <1>2, <1>3, GiveWayStep, IdleIsNoUser
<1>5. Placed(lists') /\ RegistersTyped
  BY PlacedNext DEF ContextInv
<1>6. /\ Called \in [Threads -> PromisedRegisters]
      /\ KeptBy(lists', Returned(saved'), saved', Called)
  BY <1>4, <1>5, CalledPromises, KeptOtherwise
<1>7. RegistersTyped'
  BY <1>3, <1>4, <1>6 DEF RegistersTyped
<1>8. BufferTyped'
  BY <1>1, <1>3 DEF ContextInv, BufferTyped, uartVars
<1> QED BY <1>3, <1>6, <1>7, <1>8 DEF ContextInv

(* The call that may fail after the switch: its error is in the next       *)
(* thread's r0.                                                            *)
LEMMA YieldStep ==
  ASSUME ContextInv, IInv', Yield
  PROVE  ContextInv'
<1>1. YieldThread /\ saved' = SavedIfSwitched /\ UNCHANGED <<dr, buffer, uartVars>> /\ ~halted
  BY DEF Yield, YieldThread, Calling
<1>2. /\ UserThreadRuns /\ RunningThread \in Threads
      /\ saved' \in [Threads -> Contexts]
      /\ Returned(saved') \in CpuRegisters
      /\ KeptBy(lists', Returned(saved'), saved', promised)
  BY <1>1, GiveWayStep, IdleIsNoUser
<1>3. Placed(lists') /\ RegistersTyped
  BY PlacedNext DEF ContextInv
<1>4. BufferTyped'
  BY <1>1 DEF ContextInv, BufferTyped, uartVars
<1>5. CASE cpu' = Returned(saved') /\ promised' = Called
  <2>1. /\ Called \in [Threads -> PromisedRegisters]
        /\ KeptBy(lists', Returned(saved'), saved', Called)
    BY <1>2, <1>3, CalledPromises, KeptOtherwise
  <2> QED BY <1>2, <1>4, <1>5, <2>1 DEF ContextInv, RegistersTyped
<1>6. CASE /\ "stall_too_long" \in Calls
           /\ cpu' = [Returned(saved') EXCEPT !.r0 = EINVAL]
           /\ promised' = Answered(EINVAL)
  <2>1. EINVAL \in Results
    BY DEF Results
  <2>2. /\ Answered(EINVAL) \in [Threads -> PromisedRegisters]
        /\ KeptBy(lists', Returned(saved'), saved', Answered(EINVAL))
    BY <1>2, <1>3, <1>6, <2>1, AnsweredPromises, KeptOtherwise
  <2> DEFINE back == Returned(saved')
  <2>3. back \in CpuRegisters
    BY <1>2
  <2> HIDE DEF back
  <2>4. /\ [back EXCEPT !.r0 = EINVAL] \in CpuRegisters
        /\ [back EXCEPT !.r0 = EINVAL].general = back.general
        /\ [back EXCEPT !.r0 = EINVAL].banked = back.banked
        /\ [back EXCEPT !.r0 = EINVAL].pc = back.pc
    BY <2>1, <2>3 DEF CpuRegisters, Registers
  <2>5. KeptBy(lists', cpu', saved', promised')
    BY <1>6, <2>2, <2>4 DEF KeptBy, Agrees, back
  <2>6. RegistersTyped'
    BY <1>2, <1>6, <2>2, <2>4 DEF RegistersTyped, back
  <2> QED BY <1>4, <2>5, <2>6 DEF ContextInv
<1> QED BY <1>5, <1>6 DEF Yield

(* What a thread that ends leaves behind is nobody's. *)
LEMMA ExitStep ==
  ASSUME ContextInv, IInv', Exit
  PROVE  ContextInv'
<1>1. /\ ExitThread /\ UserThreadRuns /\ ~halted
      /\ cpu' = Returned(saved)
      /\ promised' = [promised EXCEPT ![RunningThread] = Entered(Created)]
      /\ UNCHANGED <<saved, dr, buffer, uartVars, pid>>
  BY DEF Exit, ExitThread, Calling
<1>2. Placed(lists) /\ Placed(lists') /\ IInv /\ RegistersTyped /\ BufferTyped
  BY InvariantNow, PlacedNext DEF ContextInv
<1>3. RunningThread \in UserThreads /\ ToSet(lists.running) = {RunningThread}
  BY <1>1, <1>2, WhoRuns, IdleIsNoUser DEF UserThreadRuns, RunningThread
<1>4. \A a \in AddressSpaces : spaces'[a] \subseteq spaces[a]
  <2>1. spaces' = [spaces EXCEPT ![pid[RunningThread]] = @ \ {RunningThread}]
    BY <1>1 DEF ExitThread
  <2> QED BY <1>2, <2>1 DEF IInv, TypeOK
<1>5. ToSet(lists.finished) \subseteq ToSet(lists'.finished)
  BY <1>1, <1>2, <1>4, FinishedStay
<1>6. RunningThread \in ToSet(lists'.finished) /\ lists'.running # <<>>
  <2> DEFINE cleaned == Cleaned(lists)
  <2>1. lists' = RoundRobin(cleaned, "normal")
    BY <1>1 DEF ExitThread, Panic
  <2>2. Placed(cleaned) /\ RunningThread \in ToSet(cleaned.finished)
    BY <1>1, <1>2, CleanedPlaced DEF UserThreadRuns, RunningThread
  <2> HIDE DEF cleaned
  <2> QED BY <2>1, <2>2, RoundRobinPlaced, SomebodyRuns DEF Placed
<1>7. \A t \in UserThreads : t \notin ToSet(lists'.finished) =>
        saved[t] = IF Switches /\ t \in ToSet(lists.running) THEN Context ELSE saved[t]
  BY <1>3, <1>6
<1>8. KeptBy(lists', Returned(saved), saved, promised)
  BY <1>1, <1>2, <1>5, <1>7, Handover DEF ContextInv, RegistersTyped
<1>9. KeptBy(lists', cpu', saved', promised')
  <2>1. \A t \in Threads : t # RunningThread => promised'[t] = promised[t]
    BY <1>1, <1>2 DEF RegistersTyped
  <2>2. ASSUME lists'.running # <<>>
        PROVE  Head(lists'.running) \in Threads /\ Head(lists'.running) # RunningThread
    BY <1>2, <1>6, <2>2, WhoRuns
  <2> QED BY <1>1, <1>6, <1>8, <2>1, <2>2, IdleIsNoUser DEF KeptBy
<1>10. RegistersTyped'
  <2>1. Returned(saved) \in CpuRegisters
    BY <1>2, <1>6, ReturnedTyped DEF RegistersTyped
  <2>2. Entered(Created) \in PromisedRegisters
    BY CreatedContext, EnteredRegisters
  <2> QED BY <1>1, <1>2, <2>1, <2>2 DEF RegistersTyped
<1>11. BufferTyped'
  BY <1>1, <1>2 DEF BufferTyped, uartVars
<1> QED BY <1>9, <1>10, <1>11 DEF ContextInv

(* A new thread is the only one whose context is written. *)
LEMMA CreateStepKept ==
  ASSUME ContextInv, IInv', Create
  PROVE  ContextInv'
<1> DEFINE thread == Head(lists.finished)
           context == [Created EXCEPT !.general = saved[thread].general]
<1>1. /\ CreateProcess \/ CreateThread
      /\ saved' = IF halted' THEN saved ELSE [saved EXCEPT ![thread] = context]
      /\ promised' = IF halted' THEN Called ELSE [Called EXCEPT ![thread] = Entered(context)]
      /\ UNCHANGED <<cpu, dr, buffer, uartVars>>
      /\ ~halted /\ UserThreadRuns
  BY DEF Create, CreateProcess, CreateThread, CreateIn, Calling
<1>2. Placed(lists) /\ Placed(lists') /\ IInv /\ RegistersTyped /\ BufferTyped
  BY InvariantNow, PlacedNext DEF ContextInv
<1>3. RunningThread \in UserThreads /\ ToSet(lists.running) = {RunningThread}
  BY <1>1, <1>2, WhoRuns, IdleIsNoUser DEF UserThreadRuns, RunningThread
<1>4. /\ Called \in [Threads -> PromisedRegisters]
      /\ KeptBy(lists, cpu, saved, Called)
  BY <1>1, <1>2, <1>3, IdleIsNoUser, CalledPromises, KeptOtherwise DEF ContextInv
<1>5. BufferTyped'
  BY <1>1, <1>2 DEF BufferTyped, uartVars
<1>6. CASE halted'
  BY <1>1, <1>2, <1>4, <1>5, <1>6 DEF ContextInv, RegistersTyped
<1>7. CASE ~halted'
  <2>1. /\ lists.finished # <<>>
        /\ lists' = [lists EXCEPT !.finished = Tail(@), !.ready = AppendLast(@, thread)]
    BY <1>1, <1>7 DEF CreateProcess, CreateThread, CreateIn, Assign, Panic
  <2>2. /\ lists'.running = lists.running
        /\ thread \in UserThreads /\ thread \in ToSet(lists.finished)
        /\ ToSet(lists'.finished) = ToSet(lists.finished) \ {thread}
    BY <1>2, <2>1, AssignedPlaced
  <2>3. thread # RunningThread
    BY <1>2, <1>3, <2>2 DEF Placed, Apart
  <2> HIDE DEF thread
  <2>4. /\ context \in Contexts
        /\ context.r0 = Entered(context).r0 /\ context.general = Entered(context).general
        /\ context.banked = Entered(context).banked /\ context.pc = Entered(context).pc
    BY <1>2, <2>2, IdleIsNoUser DEF RegistersTyped, Created, Contexts, Values, Entered
  <2>5. Entered(context) \in PromisedRegisters
    BY <2>4, EnteredRegisters
  <2> HIDE DEF context
  <2>6. /\ saved' \in [Threads -> Contexts] /\ promised' \in [Threads -> PromisedRegisters]
        /\ saved'[thread] = context /\ promised'[thread] = Entered(context)
        /\ \A t \in Threads \ {thread} : saved'[t] = saved[t] /\ promised'[t] = Called[t]
    BY <1>1, <1>2, <1>4, <1>7, <2>2, <2>4, <2>5, IdleIsNoUser DEF RegistersTyped
  <2>7. Agrees(saved'[thread], promised'[thread])
    BY <2>4, <2>6 DEF Agrees
  <2>8. KeptBy(lists', cpu', saved', promised')
    BY <1>1, <1>3, <1>4, <2>2, <2>3, <2>6, <2>7, IdleIsNoUser DEF KeptBy, RunningThread
  <2> QED BY <1>1, <1>2, <1>5, <2>6, <2>8 DEF ContextInv, RegistersTyped
<1> QED BY <1>6, <1>7

(* Answers at once and computations reach the running thread only.         *)
LEMMA AnswerStep ==
  ASSUME ContextInv, IInv', Answer
  PROVE  ContextInv'
<1>1. /\ UserThreadRuns /\ ~halted
      /\ UNCHANGED <<lists, halted, rx, unread, saved, dr, buffer>>
  BY DEF Answer, Calling, vars, uartVars
<1>2. PICK result \in Answers : /\ cpu' = [cpu EXCEPT !.r0 = result]
                               /\ promised' = Answered(result)
  BY DEF Answer
<1>3. Placed(lists) /\ RegistersTyped /\ BufferTyped /\ KeptBy(lists, cpu, saved, promised)
  BY <1>1, InvariantNow DEF ContextInv
<1>4. RunningThread \in UserThreads /\ ToSet(lists.running) = {RunningThread}
  BY <1>1, <1>3, WhoRuns, IdleIsNoUser DEF UserThreadRuns, RunningThread
<1>5. result \in Results
  BY <1>4 DEF Answers, Results, Values
<1>6. /\ cpu' \in CpuRegisters /\ cpu'.r0 = result /\ cpu'.general = cpu.general
      /\ cpu'.banked = cpu.banked /\ cpu'.pc = cpu.pc
  BY <1>2, <1>3, <1>5 DEF RegistersTyped, CpuRegisters, Registers
<1>7. /\ promised' \in [Threads -> PromisedRegisters]
      /\ \A t \in Threads :
           /\ promised'[t].general = promised[t].general
           /\ promised'[t].banked = promised[t].banked
           /\ promised'[t].pc = promised[t].pc
           /\ promised'[t].r0 = IF t = RunningThread THEN result ELSE promised[t].r0
  BY <1>1, <1>2, <1>3, <1>4, <1>5, IdleIsNoUser, AnsweredPromises
<1>8. KeptBy(lists, cpu', saved, promised')
  BY <1>3, <1>4, <1>6, <1>7, IdleIsNoUser DEF KeptBy, Agrees, RunningThread
<1> QED BY <1>1, <1>3, <1>6, <1>7, <1>8 DEF ContextInv, RegistersTyped, BufferTyped

LEMMA ComputeStep ==
  ASSUME ContextInv, IInv', Compute
  PROVE  ContextInv'
<1> DEFINE thread == RunningThread
<1>1. /\ UserThreadRuns /\ ~halted
      /\ cpu' = [register \in DOMAIN cpu |-> thread]
      /\ promised' = [promised EXCEPT ![thread] = cpu']
      /\ UNCHANGED <<lists, halted, rx, unread, saved, dr, buffer>>
  BY DEF Compute, vars, uartVars
<1>2. Placed(lists) /\ RegistersTyped /\ BufferTyped /\ KeptBy(lists, cpu, saved, promised)
  BY <1>1, InvariantNow DEF ContextInv
<1>3. thread \in UserThreads /\ ToSet(lists.running) = {thread} /\ thread = Head(lists.running)
  BY <1>1, <1>2, WhoRuns, IdleIsNoUser DEF UserThreadRuns, RunningThread
<1> HIDE DEF thread
<1>4. cpu' = [r0 |-> thread, general |-> thread, banked |-> thread, pc |-> thread,
              flags |-> thread]
  <2>1. DOMAIN cpu = {"r0", "general", "banked", "pc", "flags"}
    BY <1>2 DEF RegistersTyped, CpuRegisters, Registers
  <2> QED BY <1>1, <2>1
<1>5. cpu' \in CpuRegisters /\ cpu' \in PromisedRegisters
  BY <1>3, <1>4 DEF CpuRegisters, PromisedRegisters, Registers, Results, Values
<1>6. /\ promised' \in [Threads -> PromisedRegisters] /\ promised'[thread] = cpu'
      /\ \A t \in Threads \ {thread} : promised'[t] = promised[t]
  BY <1>1, <1>2, <1>3, <1>5, IdleIsNoUser DEF RegistersTyped
<1>7. KeptBy(lists, cpu', saved, promised')
  BY <1>2, <1>3, <1>6, IdleIsNoUser DEF KeptBy, Agrees
<1> QED BY <1>1, <1>2, <1>5, <1>6, <1>7 DEF ContextInv, RegistersTyped, BufferTyped

(* A character is typed, the clock ticks: no register changes. *)
LEMMA HardwareContextStep ==
  ASSUME ContextInv, IInv', (\E ch \in Characters : Type(ch)) \/ Hardware
  PROVE  ContextInv'
<1>1. UNCHANGED <<lists, halted, unread, cpu, saved, promised, buffer>>
  BY DEF Type, Hardware, Keypress, Tick, SystimerMatch, registerVars, stallVars, uartVars
<1>2. BufferTyped'
  <2>1. CASE \E ch \in Characters : Type(ch)
    BY <1>1, <2>1, SwitchAssumption DEF Type, Keypress, ContextInv, BufferTyped
  <2>2. CASE Hardware
    BY <1>1, <2>2 DEF Hardware, Tick, SystimerMatch, registerVars, uartVars, ContextInv, BufferTyped
  <2> QED BY <2>1, <2>2
<1> QED BY <1>1, <1>2 DEF ContextInv, RegistersTyped

(* The buffer after pl001_receive: the scheduler's count of it is right,   *)
(* and it is a beginning of what was there and the new character.          *)
LEMMA BufferedCharacters ==
  ASSUME ContextInv
  PROVE  /\ Buffered \in Seq(Characters) /\ Len(Buffered) = Received
         /\ Received \in Nat
         /\ \A i \in 1 .. Received : Buffered[i] = (buffer \o <<dr>>)[i]
<1>1. /\ buffer \in Seq(Characters) /\ Len(buffer) = unread /\ unread \in Nat
      /\ unread <= UART_INPUT_BUFFER_SIZE /\ UART_INPUT_BUFFER_SIZE \in Nat
      /\ rx => dr \in Characters
      /\ dr \in Characters \cup {Empty}
  <2>1. BufferTyped /\ unread \in 0 .. UART_INPUT_BUFFER_SIZE
    BY DEF ContextInv, IInv, TypeOK
  <2>2. rx => dr \in Characters
    BY <2>1, Zenon DEF BufferTyped
  <2> QED BY <2>1, <2>2, UartAssumption DEF BufferTyped
<1>2. Received \in {unread, unread + 1} /\ (~rx => Received = unread)
  <2> DEFINE ends == {unread + 1, UART_INPUT_BUFFER_SIZE}
  <2>1. ends \subseteq Nat /\ ends # {}
    BY <1>1
  <2> HIDE DEF ends
  <2>2. Min(ends) \in ends /\ \A y \in ends : Min(ends) <= y
    BY <2>1, MinNat
  <2>3. Min(ends) \in {unread, unread + 1}
    BY <1>1, <2>2 DEF ends
  <2> QED BY <2>3 DEF Received, ends
<1>3. /\ Len(buffer \o <<dr>>) = unread + 1
      /\ \A i \in 1 .. unread : (buffer \o <<dr>>)[i] = buffer[i]
      /\ buffer \o <<dr>> = Append(buffer, dr)
  <2> DEFINE all == Characters \cup {Empty}
  <2>1. buffer \in Seq(all) /\ <<dr>> \in Seq(all) /\ Len(<<dr>>) = 1
    <3>1. \A i \in 1 .. Len(buffer) : buffer[i] \in Characters
      BY <1>1, ElementOfSeq
    <3> QED BY <1>1, <3>1
  <2>2. buffer \o <<dr>> = Append(buffer, dr)
    BY <1>1, <2>1, AppendIsConcat
  <2>3. /\ Len(buffer \o <<dr>>) = Len(buffer) + Len(<<dr>>)
        /\ \A i \in 1 .. Len(buffer) + Len(<<dr>>) : (buffer \o <<dr>>)[i] =
             IF i <= Len(buffer) THEN buffer[i] ELSE <<dr>>[i - Len(buffer)]
    BY <2>1, ConcatProperties
  <2> QED BY <1>1, <2>1, <2>2, <2>3
<1>4. CASE rx /\ Received > unread
  <2>1. Buffered = Append(buffer, dr) /\ Received = unread + 1
    BY <1>1, <1>2, <1>4 DEF Buffered
  <2>2. Append(buffer, dr) \in Seq(Characters) /\ Len(Append(buffer, dr)) = unread + 1
    BY <1>1, <1>4, AppendProperties
  <2> QED BY <1>1, <1>3, <2>1, <2>2
<1>5. CASE ~(rx /\ Received > unread)
  <2>1. Buffered = buffer /\ Received = unread
    BY <1>1, <1>2, <1>5 DEF Buffered
  <2> QED BY <1>1, <1>3, <2>1
<1> QED BY <1>4, <1>5

(* Which readers are fed: the first ones of the list, no more of them than *)
(* there are characters.                                                   *)
LEMMA FeedReadersSplit ==
  ASSUME NEW ls, Placed(ls), NEW n \in Nat
  PROVE  \E k \in 0 .. Len(ls.input) :
           /\ k <= n /\ Len(ls.input) - Len(FeedReaders(ls, n).input) = k
           /\ FeedReaders(ls, n).running = ls.running
<1> DEFINE ends == {n, Len(ls.input)}
           k == Min(ends)
<1>1. Len(ls.input) \in Nat
  BY LenProperties DEF Placed, Lists, NodeLists
<1>2. ends \subseteq Nat /\ ends # {}
  BY <1>1
<1>3. FeedReaders(ls, n) =
        [ls EXCEPT !.ready = @ \o SubSeq(ls.input, 1, k),
                   !.input = SubSeq(@, k + 1, Len(@))]
  BY DEF FeedReaders
<1> HIDE DEF ends
<1>4. Min(ends) \in ends /\ \A y \in ends : Min(ends) <= y
  BY <1>2, MinNat
<1>5. k \in 0 .. Len(ls.input) /\ k <= n
  BY <1>1, <1>4 DEF ends
<1> HIDE DEF k
<1>6. /\ FeedReaders(ls, n).running = ls.running
      /\ Len(FeedReaders(ls, n).input) = Len(ls.input) - k
  BY <1>3, <1>5, InputPrefixPlaced
<1> QED BY <1>1, <1>5, <1>6

(* A reader's context, and what is promised to it, once it has been given  *)
(* its character.                                                          *)
LEMMA CharacterGiven ==
  ASSUME NEW context \in Contexts, NEW own \in PromisedRegisters, NEW ch \in Characters,
         Agrees(context, own)
  PROVE  /\ [context EXCEPT !.r0 = ch] \in Contexts
         /\ [own EXCEPT !.r0 = ch] \in PromisedRegisters
         /\ Agrees([context EXCEPT !.r0 = ch], [own EXCEPT !.r0 = ch])
BY DEF Contexts, PromisedRegisters, Registers, Results, Agrees

(* Whom the interrupt serves: threads that wait and still do not run, each *)
(* with the character whose turn it was when the interrupt came.           *)
LEMMA InterruptServes ==
  ASSUME ContextInv, IRQ, ~halted'
  PROVE  /\ \A t \in ToSet(Served) :
              /\ t \in UserThreads
              /\ t \notin ToSet(lists'.running) /\ t \notin ToSet(lists'.finished)
              /\ Buffered[Position(Served, t)] \in Characters
              /\ Buffered[Position(Served, t)] = (buffer \o <<dr>>)[Position(lists.input, t)]
         /\ Len(Served) \in 0 .. Len(Buffered)
         /\ unread' = Len(Buffered) - Len(Served)
<1>1. /\ lists' = FeedReaders(Switched, Received)
      /\ unread' = Received - (Len(Switched.input) - Len(lists'.input))
  BY DEF IRQ, Panic
<1>2. /\ Placed(lists)
      /\ Buffered \in Seq(Characters) /\ Len(Buffered) = Received /\ Received \in Nat
      /\ \A i \in 1 .. Received : Buffered[i] = (buffer \o <<dr>>)[i]
  BY InvariantNow, BufferedCharacters DEF ContextInv
<1>3. Placed(Woken) /\ Woken.input = lists.input
  BY <1>2, UnblockOverduePlaced DEF Woken
<1>4. Placed(Switched) /\ Switched.input = lists.input
  BY <1>3, RoundRobinPlaced DEF Switched
<1>5. PICK k \in 0 .. Len(Switched.input) :
        /\ k <= Received /\ Len(Switched.input) - Len(lists'.input) = k
        /\ lists'.running = Switched.running
  BY <1>1, <1>2, <1>4, FeedReadersSplit
<1>6. lists'.finished = Switched.finished
  BY <1>1, <1>2, <1>4, FeedReadersPlaced
<1>7. unread' = Received - k /\ Len(Buffered) - unread' = k
  <2>1. unread' = Received - k
    BY <1>1, <1>5
  <2>2. k \in Nat
    <3>1. Len(Switched.input) \in Nat
      BY <1>4, LenProperties DEF Placed, Lists, NodeLists
    <3> QED BY <1>5, <3>1
  <2>3. \A r, n \in Nat : r - (r - n) = n
    OBVIOUS
  <2> QED BY <1>2, <2>1, <2>2, <2>3
<1>8. Served = SubSeq(lists.input, 1, k)
  BY <1>4, <1>7 DEF Served
<1>9. lists.input \in NodeLists(Threads) /\ k \in 0 .. Len(lists.input) /\ Len(lists.input) \in Nat
  BY <1>2, <1>4, <1>5, LenProperties DEF Placed, Lists, NodeLists
<1>10. ToSet(Served) \subseteq ToSet(lists.input)
  BY <1>8, <1>9, SplitNodes
<1>11. ASSUME NEW t \in ToSet(Served)
       PROVE  /\ t \in UserThreads
              /\ t \notin ToSet(lists'.running) /\ t \notin ToSet(lists'.finished)
              /\ Buffered[Position(Served, t)] \in Characters
              /\ Buffered[Position(Served, t)] = (buffer \o <<dr>>)[Position(lists.input, t)]
  <2>1. t \in ToSet(lists.input) /\ t \in ToSet(Switched.input)
    BY <1>4, <1>10
  <2>2. t \in Threads /\ t # IdleThread
    BY <1>2, <1>9, <2>1, NodesInSet DEF Placed, Waiting
  <2>3. t \notin ToSet(Switched.running) /\ t \notin ToSet(Switched.finished)
    BY <1>4, <2>1 DEF Placed, Apart
  <2>4. /\ Position(Served, t) \in 1 .. k
        /\ Position(Served, t) = Position(lists.input, t)
    BY <1>8, <1>9, FrontPosition
  <2>5. Position(Served, t) \in 1 .. Received
    BY <1>2, <1>5, <2>4
  <2>6. Buffered[Position(Served, t)] \in Characters
    BY <1>2, <2>5, ElementOfSeq
  <2> QED BY <1>2, <1>5, <1>6, <2>2, <2>3, <2>4, <2>5, <2>6, IdleIsNoUser
<1>12. Len(Served) = k
  <2>1. lists.input \in Seq(Threads) /\ \A i \in 1 .. k : lists.input[i] \in Threads
    BY <1>9, ElementOfSeq DEF NodeLists
  <2>2. Len(SubSeq(lists.input, 1, k)) = IF 1 <= k THEN k - 1 + 1 ELSE 0
    BY <1>9, <2>1, SubSeqProperties
  <2> QED BY <1>8, <1>9, <2>2
<1>13. k \in 0 .. Len(Buffered) /\ unread' = Len(Buffered) - k
  BY <1>2, <1>5, <1>7
<1> QED BY <1>11, <1>12, <1>13

(* A reader finds its character; whoever was interrupted is saved as it    *)
(* was, and whoever is switched to gets its own registers.                 *)
LEMMA InterruptStep ==
  ASSUME ContextInv, IInv', Interrupt
  PROVE  ContextInv'
<1>1. IRQ /\ ~halted /\ UNCHANGED procVars
  BY DEF Interrupt, IRQ
<1>2. IInv /\ RegistersTyped /\ BufferTyped /\ KeptBy(lists, cpu, saved, promised)
  BY <1>1 DEF ContextInv
<1>3. CASE halted'
  <2>1. UNCHANGED registerVars /\ UNCHANGED uartVars
    BY <1>1, <1>3 DEF Interrupt, IRQ
  <2> QED BY <1>2, <1>3, <2>1
        DEF ContextInv, RegistersTyped, BufferTyped, registerVars, uartVars
<1>4. CASE ~halted'
  <2> DEFINE contexts == SavedIfSwitched
  <2>1. /\ saved' = Fed(contexts)
        /\ cpu' = Returned(contexts)
        /\ buffer' = SubSeq(Buffered, Len(Served) + 1, Len(Buffered))
        /\ promised' = [t \in Threads |->
             IF t \in ToSet(Served)
             THEN [promised[t] EXCEPT !.r0 = (buffer \o <<dr>>)[Position(lists.input, t)]]
             ELSE promised[t]]
        /\ dr' = Empty /\ rx' = FALSE
    BY <1>1, <1>4 DEF Interrupt, IRQ, Panic
  <2>2. Placed(lists) /\ Placed(lists')
    BY <1>2, InvariantNow, PlacedNext
  <2>3. contexts \in [Threads -> Contexts]
    BY <1>2, ContextTyped
  <2>4. \A t \in UserThreads :
          contexts[t] = IF Switches /\ t \in ToSet(lists.running) THEN Context ELSE saved[t]
    BY <1>2, <2>2, WhoRuns, IdleIsNoUser
       DEF SavedIfSwitched, RegistersTyped, UserThreadRuns, RunningThread
  <2>5. ToSet(lists.finished) \subseteq ToSet(lists'.finished)
    BY <1>1, <1>2, FinishedStay DEF procVars
  <2> HIDE DEF contexts
  <2>6. KeptBy(lists', Returned(contexts), contexts, promised)
    BY <1>2, <2>2, <2>3, <2>4, <2>5, Handover
  <2>7. lists'.running # <<>> \/ lists'.running = lists.running
    BY <1>1, <1>2, InterruptSwitches, SomebodyRuns DEF Switch, Placed
  <2>8. Returned(contexts) \in CpuRegisters
    BY <1>2, <2>2, <2>3, <2>7, ReturnedTyped
  <2>9. /\ \A t \in ToSet(Served) :
             /\ t \in UserThreads
             /\ t \notin ToSet(lists'.running) /\ t \notin ToSet(lists'.finished)
             /\ Buffered[Position(Served, t)] \in Characters
             /\ Buffered[Position(Served, t)] = (buffer \o <<dr>>)[Position(lists.input, t)]
        /\ Len(Served) \in 0 .. Len(Buffered)
        /\ unread' = Len(Buffered) - Len(Served)
    BY <1>1, <1>4, InterruptServes
  <2>10. ASSUME NEW t \in ToSet(Served)
         PROVE  /\ t \in Threads
                /\ saved'[t] \in Contexts /\ promised'[t] \in PromisedRegisters
                /\ Agrees(saved'[t], promised'[t])
    <3> DEFINE ch == Buffered[Position(Served, t)]
    <3>1. t \in Threads /\ ch \in Characters
      BY <2>9, IdleIsNoUser
    <3>2. /\ saved'[t] = [contexts[t] EXCEPT !.r0 = ch]
          /\ promised'[t] = [promised[t] EXCEPT !.r0 = ch]
      BY <2>1, <2>9, <3>1 DEF Fed
    <3>3. /\ contexts[t] \in Contexts /\ promised[t] \in PromisedRegisters
          /\ Agrees(contexts[t], promised[t])
      BY <1>2, <2>3, <2>6, <2>9, <3>1 DEF KeptBy, RegistersTyped
    <3> HIDE DEF ch
    <3> QED BY <3>1, <3>2, <3>3, CharacterGiven
  <2>11. ASSUME NEW t \in Threads, t \notin ToSet(Served)
         PROVE  saved'[t] = contexts[t] /\ promised'[t] = promised[t]
    BY <2>1, <2>11 DEF Fed
  <2>12. KeptBy(lists', cpu', saved', promised')
    <3>1. lists'.running # <<>> => Head(lists'.running) \in Threads /\ Head(lists'.running) \notin ToSet(Served)
      BY <2>2, <2>9, WhoRuns
    <3> QED BY <2>1, <2>6, <2>10, <2>11, <3>1, IdleIsNoUser DEF KeptBy
  <2>13. RegistersTyped'
    <3>1. \A t \in Threads : saved'[t] \in Contexts /\ promised'[t] \in PromisedRegisters
      BY <1>2, <2>3, <2>10, <2>11 DEF RegistersTyped
    <3>2. saved' = [t \in Threads |-> saved'[t]] /\ promised' = [t \in Threads |-> promised'[t]]
      BY <2>1 DEF Fed
    <3> QED BY <2>1, <2>8, <3>1, <3>2 DEF RegistersTyped
  <2>14. BufferTyped'
    <3> DEFINE front == Len(Served)
    <3>1. Buffered \in Seq(Characters) /\ Len(Buffered) \in Nat /\ front \in 0 .. Len(Buffered)
      BY <2>9, BufferedCharacters, LenProperties
    <3> HIDE DEF front
    <3>2. \A i \in front + 1 .. Len(Buffered) : Buffered[i] \in Characters
      BY <3>1, ElementOfSeq
    <3>3. /\ SubSeq(Buffered, front + 1, Len(Buffered)) \in Seq(Characters)
          /\ Len(SubSeq(Buffered, front + 1, Len(Buffered))) =
               IF front + 1 <= Len(Buffered) THEN Len(Buffered) - (front + 1) + 1 ELSE 0
      BY <3>1, <3>2, SubSeqProperties
    <3>4. buffer' \in Seq(Characters) /\ Len(buffer') = unread'
      BY <2>1, <2>9, <3>1, <3>3 DEF front
    <3> QED BY <2>1, <3>4 DEF BufferTyped
  <2> QED BY <1>4, <2>12, <2>13, <2>14 DEF ContextInv
<1> QED BY <1>3, <1>4

-----------------------------------------------------------------------------
(* Part 5: the invariant is inductive, and what follows from it.           *)

LEMMA InitContext == SwitchInit => ContextInv
<1> SUFFICES ASSUME SwitchInit
             PROVE  ContextInv
  OBVIOUS
<1>1. IInv
  BY InitInvariant DEF SwitchInit
<1>2. RegistersTyped
  BY CreatedContext, EnteredRegisters DEF SwitchInit, RegistersTyped
<1>3. BufferTyped
  <2>1. <<>> \in Seq(Characters) /\ Len(<<>>) = 0
    OBVIOUS
  <2> QED BY <2>1 DEF SwitchInit, Init, BufferTyped
<1>4. KeptBy(lists, cpu, saved, promised)
  <2>1. lists.running = <<>>
    BY DEF SwitchInit, Init
  <2> QED BY <2>1, IdleIsNoUser DEF SwitchInit, KeptBy, Agrees, Entered
<1> QED BY <1>1, <1>2, <1>3, <1>4 DEF ContextInv

LEMMA StepContext == ContextInv /\ [SwitchNext]_allVars => ContextInv'
<1> SUFFICES ASSUME ContextInv, [SwitchNext]_allVars
             PROVE  ContextInv'
  OBVIOUS
<1>0. IInv'
  BY SchedulerStep, StepInvariant DEF ContextInv
<1>1. CASE Read \/ \E match \in Durations : Stall(match)
  BY <1>0, <1>1, CallStep
<1>2. CASE Yield
  BY <1>0, <1>2, YieldStep
<1>3. CASE Exit
  BY <1>0, <1>3, ExitStep
<1>4. CASE Create
  BY <1>0, <1>4, CreateStepKept
<1>5. CASE Answer
  BY <1>0, <1>5, AnswerStep
<1>6. CASE Compute
  BY <1>0, <1>6, ComputeStep
<1>7. CASE Interrupt
  BY <1>0, <1>7, InterruptStep
<1>8. CASE (\E ch \in Characters : Type(ch)) \/ Hardware
  BY <1>0, <1>8, HardwareContextStep
<1>9. CASE UNCHANGED allVars
  BY <1>0, <1>9 DEF allVars, vars, uartVars, registerVars, ContextInv, RegistersTyped, BufferTyped
<1> QED BY <1>1, <1>2, <1>3, <1>4, <1>5, <1>6, <1>7, <1>8, <1>9 DEF SwitchNext

(* The invariant of the registers is inductive. *)
THEOREM ContextInductive == SwitchSpec => []ContextInv
BY InitContext, StepContext, PTL DEF SwitchSpec

(* Registers, control blocks and the input buffer hold values of their     *)
(* kind; the buffer holds as many characters as the scheduler's count of   *)
(* it says, so the interrupt never feeds a reader from an empty one.       *)
THEOREM RegistersTypeCorrect == SwitchSpec => []SwitchTypeOK
<1>1. ContextInv => SwitchTypeOK
  <2> SUFFICES ASSUME ContextInv
               PROVE  SwitchTypeOK
    OBVIOUS
  <2>1. RegistersTyped /\ BufferTyped
    BY DEF ContextInv
  <2>2. Without(cpu) \in Contexts /\ cpu.flags \in UserThreads \cup {Clear}
    BY <2>1, WithoutFlags DEF RegistersTyped, CpuRegisters
  <2>3. \A t \in Threads : /\ Without(promised[t]) \in Contexts
                          /\ promised[t].flags \in UserThreads \cup {Clear, AnyFlags}
    BY <2>1, WithoutFlags DEF RegistersTyped, PromisedRegisters
  <2> QED BY <2>1, <2>2, <2>3 DEF SwitchTypeOK, RegistersTyped, BufferTyped
<1> QED BY <1>1, ContextInductive, PTL

(* The switch is invisible to a thread: r1-r12, sp, lr and pc are what it  *)
(* left, for every number of threads and every order of calls, interrupts  *)
(* and ends of other threads.                                              *)
THEOREM ContextsKept == SwitchSpec => []ContextKept
<1>1. ContextInv => ContextKept
  BY DEF ContextInv, KeptBy, Agrees, ContextKept, UserThreadRuns, RunningThread
<1> QED BY <1>1, ContextInductive, PTL

(* Where no program asks for a stall time that cannot be converted, whose  *)
(* error goes to the wrong thread, every result reaches its caller: each   *)
(* reader gets the character whose turn it was, however many came before   *)
(* it runs again.                                                          *)
THEOREM ResultsReachCallers ==
  ASSUME "stall_too_long" \notin Calls
  PROVE  SwitchSpec => []ResultsDelivered
<1>1. ContextInv => ResultsDelivered
  BY DEF ContextInv, KeptBy, Agrees, ResultsDelivered, UserThreadRuns, RunningThread
<1> QED BY <1>1, ContextInductive, PTL
=============================================================================
