-------------------------------- MODULE MMU --------------------------------
(***************************************************************************)
(* The translation tables of kernel/mmu.c: the first level table is filled *)
(* range by range at start, one second level table per stack holds its     *)
(* pages, and every change of process rewrites the data section's entry    *)
(* and the stack slots (scheduler_round_robin).                            *)
(*                                                                         *)
(* Addresses are counted in sections (1 MiB) and pages (4 KiB).  What the  *)
(* hardware makes of the tables is in MayAccess and Mapped; domain 0 is in *)
(* client mode, so the permissions count.                                  *)
(***************************************************************************)
EXTENDS Integers, Sequences, FiniteSets

CONSTANTS
  L1_TABLE_SIZE,              \* sections of the address space
  L2_STACK_TABLE_SIZE,        \* pages of a section
  USER_STACK_COUNT, KERNEL_STACK_COUNT,
  ADDRESS_SPACE_COUNT, THREADS_PER_ADDRESS_SPACE,
  HandleRows                  \* bound: the rows of process_stack_handles

STACK_COUNT == USER_STACK_COUNT + KERNEL_STACK_COUNT

(* arch/bsp/memory_map.h, in sections. *)
MEMORY_TOP == 128
INIT_TEXT_SECTION == 1
RODATA_SECTION == 2
BSS_DATA_SECTION == 3
UTEXT_SECTION == 4
URODATA_SECTION == 5
UBSS_UDATA_SECTION == 6
UBSS_UDATA_KERNEL_MAP == 7
UBSS_UDATA_KERNEL_ORIGINAL_MAP == 15
UNASSIGNED1 == 16
MMIO_DEVICES == 1008
UNASSIGNED2 == 1011
KERNEL_STACK_BOTTOM == MEMORY_TOP - KERNEL_STACK_COUNT
USER_STACK_BOTTOM == KERNEL_STACK_BOTTOM - USER_STACK_COUNT
VIRTUAL_PROCESS_STACKS_TOP == USER_STACK_BOTTOM
VIRTUAL_PROCESS_STACKS_BOTTOM == USER_STACK_BOTTOM - 4

Sections == 0 .. L1_TABLE_SIZE - 1
Pages == 0 .. L2_STACK_TABLE_SIZE - 1
Stacks == 0 .. STACK_COUNT - 1
UserStacks == 0 .. USER_STACK_COUNT - 1
AddressSpaces == 0 .. ADDRESS_SPACE_COUNT - 1
Slots == 0 .. THREADS_PER_ADDRESS_SPACE - 1

NoTable == STACK_COUNT   \* a row of process_stack_handles never written

ASSUME LayoutAssumption ==
  /\ L1_TABLE_SIZE \in Nat /\ L1_TABLE_SIZE > UNASSIGNED2
  /\ L2_STACK_TABLE_SIZE \in Nat \ {0, 1}
  /\ USER_STACK_COUNT \in Nat \ {0} /\ KERNEL_STACK_COUNT \in Nat \ {0}
  /\ VIRTUAL_PROCESS_STACKS_BOTTOM > UNASSIGNED1
  /\ ADDRESS_SPACE_COUNT \in 1 .. 8 /\ THREADS_PER_ADDRESS_SPACE \in 1 .. 4
  /\ HandleRows \subseteq [Slots -> UserStacks \cup {NoTable}]

VARIABLES
  l1Table,   \* the first level table
  filled,    \* ranges of it that have been filled
  process,   \* the process mapped last, or -1
  slotStack  \* its row of process_stack_handles

vars == <<l1Table, filled, process, slotStack>>

-----------------------------------------------------------------------------
Read == {"read"}
ReadWrite == {"read", "write"}
ReadExec == {"read", "exec"}

(* What the tables are made of, but for the bits that are always clear. *)
L1Sections ==
  [type : {"section"}, base : Sections, AP : 0 .. 7, XN : BOOLEAN, PXN : BOOLEAN]
Handles == [type : {"handle"}, table : Stacks]
Faults == [type : {"fault"}]
L1Entries == L1Sections \cup Handles \cup Faults
L2SmallPages ==
  [type : {"page"}, frame : 0 .. MEMORY_TOP * L2_STACK_TABLE_SIZE - 1, AP : 0 .. 7,
   XN : BOOLEAN]
L2Entries == L2SmallPages \cup Faults

(* Mutant of GetAPBits: read-only for the kernel is forgotten. *)
GetAPBitsWritable(kp, up) ==
  CASE up = {} -> 1
    [] up = Read -> 2
    [] up = ReadWrite -> 3

(* get_AP_bits; every other combination fails VERIFY_NOT_REACHED. *)
GetAPBits(kp, up) ==
  CASE kp = {} /\ up = {} -> 0
    [] kp = ReadWrite /\ up = {} -> 1
    [] kp = ReadWrite /\ up = Read -> 2
    [] kp = ReadWrite /\ up = ReadWrite -> 3
    [] kp = Read /\ up = {} -> 5
    [] kp = Read /\ up = Read -> 7

Readable(permissions) ==
  IF "exec" \in permissions THEN permissions \cup Read ELSE permissions

Attributes(kp, up) ==
  [AP |-> GetAPBits(Readable(kp) \ {"exec"}, Readable(up) \ {"exec"}),
   XN |-> "exec" \notin kp \cup up]

Guard == [type |-> "fault"]

(* get_l1_section. *)
Section(base, kp, up) ==
  [type |-> "section", base |-> base, AP |-> Attributes(kp, up).AP,
   XN |-> Attributes(kp, up).XN,
   PXN |-> "exec" \notin kp /\ "exec" \in up]

(* get_stack_handle; a handle of zeros has the type of a fault. *)
Handle(table) == IF table = NoTable THEN Guard ELSE [type |-> "handle", table |-> table]

(* get_l2_small_page. *)
SmallPage(frame, kp, up) ==
  [type |-> "page", frame |-> frame, AP |-> Attributes(kp, up).AP,
   XN |-> Attributes(kp, up).XN]

(* Mutant of StackPage: every page of the table is a page of the stack. *)
StackPageUnguarded(stack, page) ==
  SmallPage((USER_STACK_BOTTOM + stack) * L2_STACK_TABLE_SIZE + page,
            ReadWrite, IF stack \in UserStacks THEN ReadWrite ELSE {})

(* Mutant of StackPage: the pages are counted from the guard page on. *)
StackPageShifted(stack, page) ==
  IF page = 0
  THEN Guard
  ELSE SmallPage((USER_STACK_BOTTOM + stack) * L2_STACK_TABLE_SIZE + page - 1,
                 ReadWrite, IF stack \in UserStacks THEN ReadWrite ELSE {})

(* initialise_l2_stack_tables: the kernel's stacks lie above the users'. *)
StackPage(stack, page) ==
  IF page = 0
  THEN Guard
  ELSE SmallPage((USER_STACK_BOTTOM + stack) * L2_STACK_TABLE_SIZE + page,
                 ReadWrite, IF stack \in UserStacks THEN ReadWrite ELSE {})

-----------------------------------------------------------------------------
(* initialise_l1_table: where each range starts and what it is filled with;*)
(* a range that starts behind the next one's start is empty.               *)
RangeStarts ==
  <<0, INIT_TEXT_SECTION, RODATA_SECTION, BSS_DATA_SECTION, UTEXT_SECTION,
    URODATA_SECTION, UBSS_UDATA_SECTION, UBSS_UDATA_KERNEL_MAP,
    UBSS_UDATA_KERNEL_ORIGINAL_MAP, UNASSIGNED1, MMIO_DEVICES, UNASSIGNED2,
    VIRTUAL_PROCESS_STACKS_BOTTOM, USER_STACK_BOTTOM, KERNEL_STACK_BOTTOM, MEMORY_TOP>>

RangeCount == Len(RangeStarts) - 1

(* Mutant of StackTableAt: counted from the kernel's stacks. *)
StackTableFromKernel(s) == s - KERNEL_STACK_BOTTOM

(* The second level table a handle at section s names when it is filled.   *)
StackTableAt(s) == IF s >= KERNEL_STACK_BOTTOM THEN s - USER_STACK_BOTTOM ELSE 0

(* The entry of section s in each range.  A section is mapped to itself.   *)
RangeEntry(range, s) ==
  CASE range \in {1, 10, 12} -> Guard
    [] range = 2 -> Section(s, ReadExec, {})
    [] range \in {3, 9} -> Section(s, Read, {})
    [] range \in {4, 8, 11, 14} -> Section(s, ReadWrite, {})
    [] range = 5 -> Section(s, ReadWrite, ReadExec)
    [] range = 6 -> Section(s, Read, Read)
    [] range = 7 -> Section(s, ReadWrite, ReadWrite)
    [] range \in {13, 15} -> Handle(StackTableAt(s))

Init ==
  /\ l1Table = [s \in Sections |-> Guard]
  /\ filled = 0
  /\ process = -1
  /\ slotStack = [slot \in Slots |-> NoTable]

FillRange ==
  /\ filled < RangeCount
  /\ filled' = filled + 1
  /\ l1Table' = [s \in Sections |->
                   IF s \in RangeStarts[filled'] .. RangeStarts[filled' + 1] - 1
                   THEN RangeEntry(filled', s)
                   ELSE l1Table[s]]
  /\ UNCHANGED <<process, slotStack>>

(* The pristine data, for the kernel to copy from.  The loop has mapped    *)
(* that section to itself too.                                             *)
MapOriginal ==
  /\ filled = RangeCount
  /\ filled' = RangeCount + 1
  /\ l1Table' = [l1Table EXCEPT ![UBSS_UDATA_KERNEL_ORIGINAL_MAP] =
                   Section(UBSS_UDATA_SECTION, Read, {})]
  /\ UNCHANGED <<process, slotStack>>

(* Where the data of a process lies. *)
DataSection(pid) == UBSS_UDATA_SECTION + pid + 1

(* Mutant of SlotSection: slot 0 on top of the top. *)
SlotSectionFromTop(slot) == VIRTUAL_PROCESS_STACKS_TOP - slot

(* The section at which a process sees the stack in its slot. *)
SlotSection(slot) == VIRTUAL_PROCESS_STACKS_TOP - (slot + 1)

(* The writes of scheduler_round_robin to the table. *)
Switch(pid, handles) ==
  /\ filled = RangeCount + 1
  /\ l1Table' = [s \in Sections |->
       CASE s = UBSS_UDATA_SECTION -> [l1Table[s] EXCEPT !.base = DataSection(pid)]
         [] \E slot \in Slots : s = SlotSection(slot) ->
              Handle(handles[CHOOSE slot \in Slots : s = SlotSection(slot)])
         [] OTHER -> l1Table[s]]
  /\ process' = pid /\ slotStack' = handles
  /\ UNCHANGED filled

Next ==
  \/ FillRange
  \/ MapOriginal
  \/ \E pid \in AddressSpaces, handles \in HandleRows : Switch(pid, handles)

Spec == Init /\ [][Next]_vars

-----------------------------------------------------------------------------
(* The hardware: the entry that translates a page of a section.            *)
Mapped(s, page) ==
  CASE l1Table[s].type = "fault" -> Guard
    [] l1Table[s].type = "section" ->
         [l1Table[s] EXCEPT !.base = @ * L2_STACK_TABLE_SIZE + page]
    [] l1Table[s].type = "handle" -> StackPage(l1Table[s].table, page)

FrameOf(entry) == IF entry.type = "section" THEN entry.base ELSE entry.frame

(* ... and what it allows, in kernel mode and in user mode. *)
MayAccess(mode, entry) ==
  IF entry.type = "fault"
  THEN {}
  ELSE LET reads == IF mode = "kernel" THEN entry.AP # 0 ELSE entry.AP \in {2, 3, 7}
           writes == IF mode = "kernel" THEN entry.AP \in {1, 2, 3} ELSE entry.AP = 3
           never == entry.XN \/ (mode = "kernel" /\ entry.type = "section" /\ entry.PXN)
       IN  {kind \in {"read", "write", "exec"} :
              \/ kind = "read" /\ reads
              \/ kind = "write" /\ writes
              \/ kind = "exec" /\ reads /\ ~never}

Modes == {"kernel", "user"}

(* The pages of a stack slot or section that behave alike are all alike    *)
(* but the first: sections are looked at there, handles everywhere.        *)
PagesToSee(s) == IF l1Table[s].type = "handle" THEN Pages ELSE {0}

Seen == UNION {{s} \X PagesToSee(s) : s \in Sections}

Running == process # -1

FirstPage(section) == section * L2_STACK_TABLE_SIZE

-----------------------------------------------------------------------------
(* Type invariant; a handle names a table that exists, as two VERIFYs of   *)
(* initialise_l1_table and set_l1_table_entry want it.                     *)
TypeOK ==
  /\ DOMAIN l1Table = Sections
  /\ \A s \in Sections : l1Table[s] \in L1Entries
  /\ \A stack \in Stacks, page \in Pages : StackPage(stack, page) \in L2Entries
  /\ filled \in 0 .. RangeCount + 1
  /\ process \in AddressSpaces \cup {-1}
  /\ slotStack \in [Slots -> UserStacks \cup {NoTable}]

(* User code executes user text, reads that and user constants, and writes *)
(* the data of its process and the stacks in its slots, above their guard  *)
(* pages.  There is no other way into memory for it.                       *)
UserConfined ==
  Running => \A at \in Seen :
    LET entry == Mapped(at[1], at[2])
        may == MayAccess("user", entry)
    IN  \/ may = {}
        \/ at[1] = UTEXT_SECTION /\ may = ReadExec /\ FrameOf(entry) = FirstPage(UTEXT_SECTION)
        \/ at[1] = URODATA_SECTION /\ may = Read /\ FrameOf(entry) = FirstPage(URODATA_SECTION)
        \/ /\ at[1] = UBSS_UDATA_SECTION /\ may = ReadWrite
           /\ FrameOf(entry) = FirstPage(DataSection(process))
        \/ /\ may = ReadWrite
           /\ \E slot \in Slots :
                /\ at[1] = SlotSection(slot) /\ slotStack[slot] # NoTable
                /\ FrameOf(entry) = FirstPage(USER_STACK_BOTTOM + slotStack[slot]) + at[2]
                /\ at[2] # 0

(* Memory is mapped more than once: stacks and process data also for the   *)
(* kernel.  What either mode executes, that mode can not write through any *)
(* mapping, and what the kernel executes nobody can.                       *)
CodeProtected ==
  Running => \A mode \in Modes :
    LET executed == {at \in Seen : "exec" \in MayAccess(mode, Mapped(at[1], at[2]))}
        code == {FrameOf(Mapped(at[1], at[2])) : at \in executed}
    IN  \A at \in Seen :
          LET entry == Mapped(at[1], at[2])
          IN  entry # Guard /\ FrameOf(entry) \in code =>
                /\ "write" \notin MayAccess(mode, entry)
                /\ "write" \notin MayAccess("user", entry)

(* Once a process is mapped, the data every new process starts with can be *)
(* read by the kernel and written through no mapping.                      *)
OriginalPristine ==
  Running =>
    /\ LET original == Mapped(UBSS_UDATA_KERNEL_ORIGINAL_MAP, 0)
       IN  "read" \in MayAccess("kernel", original) /\ FrameOf(original) = FirstPage(UBSS_UDATA_SECTION)
    /\ \A at \in Seen, mode \in Modes :
         LET entry == Mapped(at[1], at[2])
         IN  "write" \in MayAccess(mode, entry) => FrameOf(entry) # FirstPage(UBSS_UDATA_SECTION)

(* What the kernel writes for a process it writes elsewhere than where the *)
(* process looks for it: scheduler_create_process fills the data through   *)
(* one mapping and the process uses another, and the same with arguments   *)
(* on stacks.  Both lead to the same memory.                               *)
KernelWritesWhatUsersSee ==
  Running =>
    /\ \A pid \in AddressSpaces :
         LET copy == Mapped(UBSS_UDATA_KERNEL_MAP + pid, 0)
         IN  /\ "write" \in MayAccess("kernel", copy)
             /\ pid = process => FrameOf(copy) = FrameOf(Mapped(UBSS_UDATA_SECTION, 0))
    /\ \A slot \in Slots : l1Table[SlotSection(slot)].type = "handle" =>
         \A page \in Pages \ {0} :
           LET real == Mapped(USER_STACK_BOTTOM + l1Table[SlotSection(slot)].table, page)
           IN  /\ "write" \in MayAccess("kernel", real)
               /\ FrameOf(real) = FrameOf(Mapped(SlotSection(slot), page))

(* A stack that grows too long meets a page nobody can access, before it   *)
(* meets another stack, in user mode and in every kernel mode.             *)
StacksGuarded ==
  filled = RangeCount + 1 =>
    /\ \A slot \in Slots, mode \in Modes : MayAccess(mode, Mapped(SlotSection(slot), 0)) = {}
    /\ \A s \in KERNEL_STACK_BOTTOM .. MEMORY_TOP - 1 :
         /\ \A mode \in Modes : MayAccess(mode, Mapped(s, 0)) = {}
         /\ \A page \in Pages \ {0} :
              MayAccess("kernel", Mapped(s, page)) = ReadWrite
              /\ FrameOf(Mapped(s, page)) = FirstPage(s) + page
=============================================================================
