----------------------------- MODULE Exceptions -----------------------------
(***************************************************************************)
(* The processor's modes, from the first instruction on: the start of the  *)
(* kernel (arch/cpu/entry.S, kernel/start.c), the exception vectors        *)
(* (arch/cpu/interrupt_vector_table.S), the handlers (kernel/interrupt.c)  *)
(* with the dump of a fault's registers (kernel/register_dump.c) and the   *)
(* status registers a switch of threads goes through.                      *)
(*                                                                         *)
(* Which thread is next is left open here; Scheduler says it.              *)
(***************************************************************************)
EXTENDS Naturals, FiniteSets

CONSTANTS
  UserThreads,
  None, Idle,         \* no thread runs yet; the idle thread
  PrefetchStatuses,   \* fault statuses (FS) aborts of the program come with
  DataStatuses

Threads == UserThreads \cup {Idle}

(* What the constants have to be; Faults assumes it. *)
ModalConstants ==
  /\ None \notin UserThreads /\ Idle \notin UserThreads \cup {None}
  /\ PrefetchStatuses \subseteq 0 .. 31 /\ DataStatuses \subseteq 0 .. 31

VARIABLES
  boot,        \* what start-up does next; "left" when a thread has run
  psr, spsr,   \* the status register, and the saved one of each mode
  stacks,      \* the modes whose stack pointer has been set
  cpsr,        \* of each thread control block
  place,       \* where each thread is, but for the one that runs
  running,     \* the thread that runs, or the one the handler will return to
  exception,   \* the exception that is being handled, or "none"
  origin,      \* history: the mode it was taken from, or "none"
  phase,       \* how far its handler is
  status,      \* its fault status, until it has been printed
  timer,       \* the scheduling timer: unset, armed or pending
  irqs,        \* other interrupts pending: stall, uart
  halted       \* the kernel has panicked

bootVars == <<boot, stacks>>
threadVars == <<cpsr, place, running>>
exceptionVars == <<exception, origin, phase, status>>
vars == <<bootVars, psr, spsr, threadVars, exceptionVars, timer, irqs, halted>>

-----------------------------------------------------------------------------
(* The modes, and what is left of a status register: mode and IRQ mask.    *)
BankedModes == {"IRQ", "supervisor", "abort", "undefined"}
Modes == BankedModes \cup {"hypervisor", "system", "user"}

PSR(mode, masked) == [mode |-> mode, masked |-> masked]

NotInitialized == PSR("not initialized", FALSE)
UserPSR == PSR("user", FALSE)
SystemPSR == PSR("system", FALSE)

Init ==
  /\ boot \in {"exit hyper", "stacks"}
  /\ psr = PSR(IF boot = "stacks" THEN "supervisor" ELSE "hypervisor", TRUE)
  /\ spsr = [mode \in BankedModes |-> NotInitialized]
  /\ stacks = {}
  /\ cpsr = [t \in Threads |-> NotInitialized]
  /\ place = [t \in UserThreads |-> "finished"]
  /\ running = None
  /\ exception = "none" /\ origin = "none" /\ phase = "none" /\ status = 0
  /\ timer = "unset"
  /\ irqs = {}
  /\ halted = FALSE

-----------------------------------------------------------------------------
(* entry.S and start_kernel, one step after the other. *)

Start(step, next) ==
  /\ ~halted /\ exception = "none"
  /\ boot = step
  /\ boot' = next
  /\ UNCHANGED <<spsr, running, exceptionVars, irqs, halted>>

(* _exitHyper returns from the mode some boards start in. *)
ExitHyper ==
  /\ Start("exit hyper", "stacks")
  /\ psr' = [psr EXCEPT !.mode = "supervisor"]
  /\ UNCHANGED <<stacks, cpsr, place, timer>>

(* Mutant of SetStacks: abort mode is forgotten. *)
SetStacksButAbort ==
  /\ Start("stacks", "vectors")
  /\ stacks' = {"IRQ", "supervisor", "undefined", "system"}
  /\ psr' = [psr EXCEPT !.mode = "system"]
  /\ UNCHANGED <<cpsr, place, timer>>

(* _bsprak. *)
SetStacks ==
  /\ Start("stacks", "vectors")
  /\ stacks' = {"IRQ", "supervisor", "abort", "undefined", "system"}
  /\ psr' = [psr EXCEPT !.mode = "system"]
  /\ UNCHANGED <<cpsr, place, timer>>

SetVectors ==
  /\ Start("vectors", "uart")
  /\ UNCHANGED <<stacks, psr, cpsr, place, timer>>

SetupUart ==
  /\ Start("uart", "mmu")
  /\ UNCHANGED <<stacks, psr, cpsr, place, timer>>

ConfigureMMU ==
  /\ Start("mmu", "scheduler")
  /\ UNCHANGED <<stacks, psr, cpsr, place, timer>>

(* The idle thread's status is set, and the first thread is ready. *)
InitialiseScheduler ==
  /\ Start("scheduler", "interrupts")
  /\ \E first \in UserThreads :
       /\ place' = [place EXCEPT ![first] = "ready"]
       /\ cpsr' = [cpsr EXCEPT ![Idle] = SystemPSR, ![first] = UserPSR]
  /\ UNCHANGED <<stacks, psr, timer>>

EnableInterrupts ==
  /\ Start("interrupts", "timer")
  /\ psr' = [psr EXCEPT !.masked = FALSE]
  /\ UNCHANGED <<stacks, cpsr, place, timer>>

(* systimer_reset; halt_cpu is what follows. *)
ResetTimer ==
  /\ Start("timer", "halt")
  /\ timer' = "armed"
  /\ UNCHANGED <<stacks, psr, cpsr, place>>

Boot ==
  \/ ExitHyper \/ SetStacks \/ SetVectors \/ SetupUart \/ ConfigureMMU
  \/ InitialiseScheduler \/ EnableInterrupts \/ ResetTimer

-----------------------------------------------------------------------------
(* Taking an exception: the processor saves the status in the register of  *)
(* the exception's mode and masks interrupts.                              *)

Faults == {"undefined instruction", "prefetch abort", "data abort"}

ModeOf(kind) ==
  CASE kind = "undefined instruction" -> "undefined"
    [] kind \in {"call", "unknown call"} -> "supervisor"
    [] kind \in {"prefetch abort", "data abort"} -> "abort"
    [] kind = "irq" -> "IRQ"

Take(kind, fs) ==
  /\ ~halted
  /\ psr' = PSR(ModeOf(kind), TRUE)
  /\ spsr' = [spsr EXCEPT ![ModeOf(kind)] = psr]
  /\ exception' = kind /\ origin' = psr.mode
  /\ phase' = "entered" /\ status' = fs
  /\ UNCHANGED <<bootVars, threadVars, timer, irqs, halted>>

StatusesOf(kind) ==
  CASE kind = "prefetch abort" -> PrefetchStatuses
    [] kind = "data abort" -> DataStatuses
    [] OTHER -> {0}

(* The program makes a system call, one that is none, or a fault. *)
UserException ==
  /\ psr.mode = "user"
  /\ \E kind \in Faults \cup {"call", "unknown call"} :
       \E fs \in StatusesOf(kind) : Take(kind, fs)

Interrupt ==
  /\ ~psr.masked
  /\ timer = "pending" \/ irqs # {}
  /\ Take("irq", 0)

-----------------------------------------------------------------------------
(* The handlers. *)

In(kinds, at) == ~halted /\ exception \in kinds /\ phase = at

(* get_mode_name. *)
ModeNames ==
  {"user", "IRQ", "supervisor", "abort", "undefined", "system", "not initialized"}

(* get_data_abort_error_type looks at the low four bits of the status, of  *)
(* which two values have no name.                                          *)
DataAbortNamed(fs) == fs % 16 \notin {0, 10}

(* get_prefetch_abort_error_type.  Bit 10 of the register is the fifth bit *)
(* of the status; it is shifted away from the other four, not to them.     *)
IFSRStatus(fs) == (fs \div 16) * 2^14 + (fs % 16)

PrefetchAbortNames ==
  {1, 2, 3, 5, 6, 7, 8, 9, 11, 12, 13, 14, 15, 16, 20, 25, 28, 30}

PrefetchAbortNamed(fs) == IFSRStatus(fs) \in PrefetchAbortNames

(* Everything dump_registers gives a name to has one. *)
Dumpable ==
  /\ exception = "prefetch abort" => PrefetchAbortNamed(status)
  /\ exception = "data abort" => DataAbortNamed(status)
  /\ psr.mode \in ModeNames
  /\ \A mode \in BankedModes : spsr[mode].mode \in ModeNames

(* dump_registers.  It goes through all modes to see their registers, and  *)
(* back to its own.  What has no name fails VERIFY_NOT_REACHED.            *)
Dump ==
  /\ In(Faults \cup {"unknown call"}, "entered")
  /\ phase' = "dumped" /\ status' = 0
  /\ halted' = ~Dumpable
  /\ UNCHANGED <<bootVars, psr, spsr, threadVars, exception, origin, timer, irqs>>

(* Mutant of FromUser: the mode before is taken to be the thread's. *)
RunsUserThread == running \in UserThreads

(* (get_spsr() & psr_mode) == psr_mode_user *)
FromUser == spsr[psr.mode].mode = "user"

(* The kernel makes a fault, in a handler or between.  Bound: it makes     *)
(* none on its way to halting for one.                                     *)
KernelFault ==
  /\ exception \in Faults => origin = "user"
  /\ psr.mode \in BankedModes \cup {"system"}
  /\ boot \notin {"exit hyper", "stacks", "vectors"}
  /\ \E kind \in Faults : \E fs \in StatusesOf(kind) : Take(kind, fs)

Panic ==
  /\ In(Faults \cup {"unknown call"}, "dumped")
  /\ ~FromUser
  /\ halted' = TRUE
  /\ UNCHANGED <<bootVars, psr, spsr, threadVars, exceptionVars, timer, irqs>>

Ready(places) == {t \in UserThreads : places[t] = "ready"}

(* Mutant of SwitchTo: interrupts stay masked for the idle thread. *)
SwitchToMaskedIdle(places, next) ==
  /\ running' = next
  /\ place' = IF next = Idle THEN places ELSE [places EXCEPT ![next] = "runs"]
  /\ spsr' = [spsr EXCEPT ![psr.mode] = IF next = Idle THEN PSR("system", TRUE) ELSE cpsr[next]]
  /\ boot' = "left"

(* scheduler_switch_thread: the status the handler returns to.             *)
SwitchTo(places, next) ==
  /\ running' = next
  /\ place' = IF next = Idle THEN places ELSE [places EXCEPT ![next] = "runs"]
  /\ spsr' = [spsr EXCEPT ![psr.mode] = cpsr[next]]
  /\ boot' = "left"

(* scheduler_round_robin, forced or with nobody running: any ready thread, *)
(* or else the idle thread.                                                *)
Reschedule(places) ==
  IF Ready(places) = {}
  THEN SwitchTo(places, Idle)
  ELSE \E next \in Ready(places) : SwitchTo(places, next)

Returning == phase' = "return" /\ UNCHANGED <<psr, stacks, exception, origin, status, halted>>

(* exit_thread, called or dispatched after a fault. *)
EndThread ==
  /\ Reschedule([place EXCEPT ![running] = "finished"])
  /\ timer' = "armed"
  /\ UNCHANGED <<cpsr, irqs>>

ExitFaulting ==
  /\ In(Faults \cup {"unknown call"}, "dumped")
  /\ FromUser
  /\ EndThread
  /\ Returning

(* stall_thread and read_character: another thread is switched to, and the *)
(* caller waits, or stays in the ready list when there is nothing to wait  *)
(* for.                                                                    *)
GiveWay ==
  /\ \E next \in (IF Ready(place) = {} THEN {Idle} ELSE Ready(place)),
        left \in {"ready", "waits"} :
       SwitchTo([place EXCEPT ![running] = left], next)
  /\ timer' = "armed"
  /\ UNCHANGED <<cpsr, irqs>>

(* create_process and create_thread. *)
CreateThread ==
  /\ \E new \in {t \in UserThreads : place[t] = "finished"} :
       /\ place' = [place EXCEPT ![new] = "ready"]
       /\ cpsr' = [cpsr EXCEPT ![new] = UserPSR]
  /\ UNCHANGED <<running, spsr, boot, timer, irqs>>

(* software_interrupt_handler for a call that is one.  Any other answer is *)
(* given without the modes being touched.                                  *)
Call ==
  /\ In({"call"}, "entered")
  /\ \/ EndThread
     \/ GiveWay
     \/ CreateThread
     \/ UNCHANGED <<boot, threadVars, spsr, timer, irqs>>
  /\ Returning

(* Waiting threads a device lets go, while it has an interrupt pending. *)
Woken(device, places) ==
  {[t \in UserThreads |-> IF t \in woken THEN "ready" ELSE places[t]] :
     woken \in SUBSET {t \in UserThreads : device \in irqs /\ places[t] = "waits"}}

(* Mutant of ServeTimer: the timer is set anew only when there is a switch.*)
ServeTimerAtSwitch(places) ==
  IF timer = "pending" /\ (running = None \/ Ready(places) # {})
  THEN /\ \E next \in Ready(places) :
            SwitchTo([t \in UserThreads |-> IF t = running THEN "ready" ELSE places[t]], next)
       /\ timer' = "armed"
  ELSE place' = places /\ UNCHANGED <<boot, running, spsr, timer>>

(* scheduler_round_robin, normal, and systimer_reset: somebody who is      *)
(* ready, or else whoever runs.                                            *)
ServeTimer(places) ==
  /\ IF timer = "pending" /\ (running = None \/ Ready(places) # {})
     THEN \E next \in Ready(places) :
            SwitchTo([t \in UserThreads |-> IF t = running THEN "ready" ELSE places[t]], next)
     ELSE place' = places /\ UNCHANGED <<boot, running, spsr>>
  /\ timer' = IF timer = "pending" THEN "armed" ELSE timer

(* irq_interrupt_handler: threads that stalled, the timer, then readers.   *)
ServeStall ==
  /\ In({"irq"}, "entered")
  /\ place' \in Woken("stall", place)
  /\ irqs' = irqs \ {"stall"}
  /\ phase' = "stall served"
  /\ UNCHANGED <<bootVars, psr, spsr, cpsr, running, exception, origin, status, timer, halted>>

ServeSchedulingTimer ==
  /\ In({"irq"}, "stall served")
  /\ ServeTimer(place)
  /\ phase' = "switched"
  /\ UNCHANGED <<psr, stacks, cpsr, exception, origin, status, irqs, halted>>

ServeUart ==
  /\ In({"irq"}, "switched")
  /\ place' \in Woken("uart", place)
  /\ irqs' = irqs \ {"uart"}
  /\ UNCHANGED <<boot, cpsr, running, spsr, timer>>
  /\ Returning

(* movs pc, lr *)
Return ==
  /\ ~halted /\ phase = "return"
  /\ psr' = spsr[psr.mode]
  /\ exception' = "none" /\ origin' = "none" /\ phase' = "none"
  /\ UNCHANGED <<bootVars, spsr, threadVars, status, timer, irqs, halted>>

-----------------------------------------------------------------------------
(* The devices: the scheduling timer matches, at a moment nobody asked for *)
(* as long as it is unset; the stall timer or the UART wants to be served. *)
TimerMatches ==
  /\ ~halted
  /\ timer # "pending"
  /\ timer' = "pending"
  /\ UNCHANGED <<bootVars, psr, spsr, threadVars, exceptionVars, irqs, halted>>

DeviceInterrupts ==
  /\ ~halted
  /\ boot \notin {"exit hyper", "stacks", "vectors", "uart"}
  /\ \E device \in {"stall", "uart"} \ irqs : irqs' = irqs \cup {device}
  /\ UNCHANGED <<bootVars, psr, spsr, threadVars, exceptionVars, timer, halted>>

Handler ==
  \/ Dump \/ Panic \/ ExitFaulting
  \/ Call
  \/ ServeStall \/ ServeSchedulingTimer \/ ServeUart
  \/ Return

Next ==
  \/ Boot
  \/ UserException \/ KernelFault \/ Interrupt
  \/ Handler
  \/ TimerMatches \/ DeviceInterrupts
(***************************************************************************)
(* Kernel code goes on when no interrupt comes, a handler runs to its end, *)
(* a pending interrupt is taken when it is not masked.                     *)
(***************************************************************************)
Spec ==
  /\ Init /\ [][Next]_vars
  /\ SF_vars(Boot) /\ WF_vars(Handler) /\ SF_vars(Interrupt)

-----------------------------------------------------------------------------
Places == {"finished", "ready", "waits", "runs"}
PSRs == [mode : ModeNames \cup Modes, masked : BOOLEAN]
Phases == {"none", "entered", "dumped", "stall served", "switched", "return"}

(* Type invariant; the thread that runs is the one whose place says so.    *)
ExceptionsTypeOK ==
  /\ psr \in PSRs /\ spsr \in [BankedModes -> PSRs] /\ cpsr \in [Threads -> PSRs]
  /\ stacks \subseteq Modes
  /\ place \in [UserThreads -> Places]
  /\ running \in Threads \cup {None}
  /\ \A t \in UserThreads : place[t] = "runs" <=> running = t
  /\ exception \in Faults \cup {"none", "call", "unknown call", "irq"}
  /\ origin \in Modes \cup {"none"}
  /\ phase \in Phases /\ status \in 0 .. 31
  /\ timer \in {"unset", "armed", "pending"} /\ irqs \subseteq {"stall", "uart"}
  /\ halted \in BOOLEAN

(* However a thread came to run, by a call, a fault or an interrupt of     *)
(* another thread or of the start-up code: between exceptions it runs in   *)
(* its own mode, user mode or the idle thread's system mode, and can be    *)
(* interrupted.  Before the first of them nothing but system mode does.    *)
ThreadsInOwnMode ==
  ~halted /\ exception = "none" =>
    /\ running \in UserThreads => psr = UserPSR
    /\ running = Idle => psr = SystemPSR
    /\ running = None => psr.mode # "user"

(* No interrupt and no exception comes before the kernel is ready for it:  *)
(* its mode has a stack, and when interrupts can come the vectors, the     *)
(* tables and the threads are set up.                                      *)
ReadyForExceptions ==
  /\ exception # "none" => ModeOf(exception) \in stacks
  /\ ~psr.masked => boot \in {"timer", "halt", "left"} /\ cpsr[Idle] = SystemPSR

(* What a program does wrong ends the thread that did it, and nothing      *)
(* else; what the kernel does wrong halts the kernel and ends no thread.   *)
(* The handlers tell the two apart by the saved status register.           *)
FaultsConfined ==
  [][/\ halted # halted' => origin # "user"
     /\ \A t \in UserThreads :
          place'[t] = "finished" /\ place[t] # "finished" => running = t /\ origin = "user"
     /\ exception \in Faults /\ phase = "dumped" /\ phase' = "return" =>
          place'[running] = "finished"]_vars

(* Once interrupts are on the scheduling timer is set again and again, by  *)
(* whichever comes first, the start-up code or a handler that abandons it. *)
TimerRuns ==
  boot \in {"timer", "halt", "left"} /\ timer # "armed" ~> timer = "armed" \/ halted

-----------------------------------------------------------------------------
(* VERIFY_NOT_REACHED at src/arch/cpu/ifsr.c:51: the status of a program's *)
(* prefetch abort has a name, whichever of those ifsr.h lists it is.       *)
PrefetchAbortsNamed ==
  exception = "prefetch abort" /\ phase = "entered" /\ origin = "user" => PrefetchAbortNamed(status)
=============================================================================
