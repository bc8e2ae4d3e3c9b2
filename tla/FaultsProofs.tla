---------------------------- MODULE FaultsProofs ----------------------------
(***************************************************************************)
(* Theorems about the translation tables, for any numbers of stacks, pages *)
(* and address spaces that fit the memory map: what the tables protect,    *)
(* and where the mappings of the kernel and of the users meet (parts 1 to  *)
(* 5).  The invariant says what every entry of the first level table is:   *)
(* while the ranges are filled, that of the last range that reached it;    *)
(* later, entry by entry, with the ones that belong to the process that is *)
(* mapped.                                                                 *)
(*                                                                         *)
(* Theorems about the modes the processor runs in, for any number of       *)
(* threads and any fault statuses: every thread runs in its own mode, no   *)
(* exception comes before the kernel is ready for it, and a program's      *)
(* fault ends its own thread and nothing else (parts 6 to 10).  The        *)
(* handlers know a fault of a program by the saved status register, so the *)
(* invariant follows that register from the moment the exception is taken, *)
(* through the switch of threads, to the return.                           *)
(***************************************************************************)
EXTENDS Faults, TLAPS

-----------------------------------------------------------------------------
(* Part 1: how the table is filled.                                        *)

InRange(s, r) == s \in RangeStarts[r] .. RangeStarts[r + 1] - 1

(* While the ranges are filled one after the other, a section has the      *)
(* entry of the last one that reached it.                                  *)
BeingFilled ==
  \A s \in Sections :
    /\ \A r \in 1 .. filled :
         InRange(s, r) /\ (\A q \in r + 1 .. filled : ~InRange(s, q)) =>
           l1Table[s] = RangeEntry(r, s)
    /\ (\A r \in 1 .. filled : ~InRange(s, r)) => l1Table[s] = Guard
    /\ l1Table[s] = Guard \/ \E r \in 1 .. filled : InRange(s, r) /\ l1Table[s] = RangeEntry(r, s)

StackSections == VIRTUAL_PROCESS_STACKS_BOTTOM .. USER_STACK_BOTTOM - 1

(* The parts of the table that a change of process rewrites ...            *)
OfProcess ==
  IF process = -1
  THEN /\ l1Table[UBSS_UDATA_SECTION] = Section(UBSS_UDATA_SECTION, ReadWrite, ReadWrite)
       /\ \A s \in StackSections : l1Table[s] = Handle(0)
  ELSE /\ l1Table[UBSS_UDATA_SECTION] = Section(DataSection(process), ReadWrite, ReadWrite)
       /\ \A slot \in Slots : l1Table[SlotSection(slot)] = Handle(slotStack[slot])
       /\ \A s \in StackSections :
            (\A slot \in Slots : s # SlotSection(slot)) => l1Table[s] = Handle(0)

Unassigned ==
  {s \in Sections :
     \/ s = 0 \/ s \in UNASSIGNED1 .. VIRTUAL_PROCESS_STACKS_BOTTOM - 1
     \/ s \in MEMORY_TOP .. MMIO_DEVICES - 1 \/ s >= UNASSIGNED2}

KernelData ==
  {BSS_DATA_SECTION}
    \cup (UBSS_UDATA_KERNEL_MAP .. UBSS_UDATA_KERNEL_ORIGINAL_MAP - 1)
    \cup (MMIO_DEVICES .. UNASSIGNED2 - 1)
    \cup (USER_STACK_BOTTOM .. KERNEL_STACK_BOTTOM - 1)

(* ... and the others.                                                     *)
Fixed ==
  /\ l1Table[INIT_TEXT_SECTION] = Section(INIT_TEXT_SECTION, ReadExec, {})
  /\ l1Table[RODATA_SECTION] = Section(RODATA_SECTION, Read, {})
  /\ l1Table[UTEXT_SECTION] = Section(UTEXT_SECTION, ReadWrite, ReadExec)
  /\ l1Table[URODATA_SECTION] = Section(URODATA_SECTION, Read, Read)
  /\ l1Table[UBSS_UDATA_KERNEL_ORIGINAL_MAP] = Section(UBSS_UDATA_SECTION, Read, {})
  /\ \A s \in KernelData : l1Table[s] = Section(s, ReadWrite, {})
  /\ \A s \in KERNEL_STACK_BOTTOM .. MEMORY_TOP - 1 : l1Table[s] = Handle(s - USER_STACK_BOTTOM)
  /\ \A s \in Unassigned : l1Table[s] = Guard

TablesInv ==
  /\ DOMAIN l1Table = Sections
  /\ filled \in 0 .. RangeCount + 1
  /\ process \in AddressSpaces \cup {-1}
  /\ slotStack \in [Slots -> UserStacks \cup {NoTable}]
  /\ filled <= RangeCount => process = -1 /\ BeingFilled
  /\ filled = RangeCount + 1 => Fixed /\ OfProcess

(* The memory map.                                                         *)
LEMMA Layout ==
  /\ KERNEL_STACK_COUNT \in Nat \ {0} /\ USER_STACK_COUNT \in Nat \ {0}
  /\ L2_STACK_TABLE_SIZE \in Nat /\ L2_STACK_TABLE_SIZE > 1
  /\ L1_TABLE_SIZE \in Nat /\ L1_TABLE_SIZE > 1011
  /\ KERNEL_STACK_BOTTOM = 128 - KERNEL_STACK_COUNT
  /\ USER_STACK_BOTTOM = KERNEL_STACK_BOTTOM - USER_STACK_COUNT
  /\ VIRTUAL_PROCESS_STACKS_BOTTOM = USER_STACK_BOTTOM - 4
  /\ VIRTUAL_PROCESS_STACKS_TOP = USER_STACK_BOTTOM
  /\ VIRTUAL_PROCESS_STACKS_BOTTOM > 16
  /\ ADDRESS_SPACE_COUNT \in 1 .. 8 /\ THREADS_PER_ADDRESS_SPACE \in 1 .. 4
  /\ NoTable = USER_STACK_COUNT + KERNEL_STACK_COUNT
BY LayoutAssumption
   DEF LayoutAssumption, KERNEL_STACK_BOTTOM, USER_STACK_BOTTOM, VIRTUAL_PROCESS_STACKS_BOTTOM,
       VIRTUAL_PROCESS_STACKS_TOP, MEMORY_TOP, UNASSIGNED1, UNASSIGNED2, NoTable, STACK_COUNT

LEMMA Starts ==
  /\ RangeCount = 15
  /\ RangeStarts[1] = 0 /\ RangeStarts[2] = 1 /\ RangeStarts[3] = 2 /\ RangeStarts[4] = 3
  /\ RangeStarts[5] = 4 /\ RangeStarts[6] = 5 /\ RangeStarts[7] = 6 /\ RangeStarts[8] = 7
  /\ RangeStarts[9] = 15 /\ RangeStarts[10] = 16 /\ RangeStarts[11] = 1008
  /\ RangeStarts[12] = 1011 /\ RangeStarts[13] = VIRTUAL_PROCESS_STACKS_BOTTOM
  /\ RangeStarts[14] = USER_STACK_BOTTOM /\ RangeStarts[15] = KERNEL_STACK_BOTTOM
  /\ RangeStarts[16] = 128
BY DEF RangeCount, RangeStarts, INIT_TEXT_SECTION, RODATA_SECTION, BSS_DATA_SECTION,
       UTEXT_SECTION, URODATA_SECTION, UBSS_UDATA_SECTION, UBSS_UDATA_KERNEL_MAP,
       UBSS_UDATA_KERNEL_ORIGINAL_MAP, UNASSIGNED1, MMIO_DEVICES, UNASSIGNED2, MEMORY_TOP

LEMMA TablesStart == Init => TablesInv
<1> SUFFICES ASSUME Init PROVE TablesInv
  OBVIOUS
<1>1. /\ l1Table = [s \in Sections |-> Guard] /\ filled = 0 /\ process = -1
      /\ slotStack = [slot \in Slots |-> NoTable]
  BY DEF Init
<1>2. BeingFilled
  BY <1>1 DEF BeingFilled
<1> QED BY <1>1, <1>2, Starts DEF TablesInv

LEMMA FillKeeps ==
  ASSUME TablesInv, FillRange
  PROVE  TablesInv'
<1>1. /\ filled < 15 /\ filled' = filled + 1 /\ filled \in 0 .. 16
      /\ l1Table' = [s \in Sections |-> IF InRange(s, filled') THEN RangeEntry(filled', s)
                                        ELSE l1Table[s]]
      /\ UNCHANGED <<process, slotStack>>
  BY Starts DEF FillRange, TablesInv, InRange
<1>2. BeingFilled /\ process = -1
  BY <1>1, Starts DEF TablesInv
<1>3. BeingFilled'
  <2> SUFFICES ASSUME NEW s \in Sections
               PROVE  /\ \A r \in 1 .. filled' :
                           InRange(s, r) /\ (\A q \in r + 1 .. filled' : ~InRange(s, q)) =>
                             l1Table'[s] = RangeEntry(r, s)
                      /\ (\A r \in 1 .. filled' : ~InRange(s, r)) => l1Table'[s] = Guard
                      /\ \/ l1Table'[s] = Guard
                         \/ \E r \in 1 .. filled' :
                              InRange(s, r) /\ l1Table'[s] = RangeEntry(r, s)
    BY DEF BeingFilled, InRange
  <2>1. l1Table'[s] = IF InRange(s, filled') THEN RangeEntry(filled', s) ELSE l1Table[s]
    BY <1>1
  <2>2. ASSUME NEW r \in 1 .. filled', InRange(s, r),
               \A q \in r + 1 .. filled' : ~InRange(s, q)
        PROVE  l1Table'[s] = RangeEntry(r, s)
    <3>1. CASE r = filled'
      BY <2>1, <2>2, <3>1
    <3>2. CASE r # filled'
      <4>1. r \in 1 .. filled /\ filled' \in r + 1 .. filled'
        BY <1>1, <3>2
      <4>2. \A q \in r + 1 .. filled : ~InRange(s, q)
        BY <1>1, <2>2
      <4> QED BY <1>2, <2>1, <2>2, <4>1, <4>2 DEF BeingFilled
    <3> QED BY <3>1, <3>2
  <2>3. ASSUME \A r \in 1 .. filled' : ~InRange(s, r)
        PROVE  l1Table'[s] = Guard
    <3>1. ~InRange(s, filled') /\ \A r \in 1 .. filled : ~InRange(s, r)
      BY <1>1, <2>3
    <3> QED BY <1>2, <2>1, <3>1 DEF BeingFilled
  <2>4. \/ l1Table'[s] = Guard
        \/ \E r \in 1 .. filled' : InRange(s, r) /\ l1Table'[s] = RangeEntry(r, s)
    <3>1. filled' \in 1 .. filled' /\ 1 .. filled \subseteq 1 .. filled'
      BY <1>1
    <3> QED BY <1>2, <2>1, <3>1 DEF BeingFilled
  <2> QED BY <2>2, <2>3, <2>4
<1> QED BY <1>1, <1>2, <1>3, Starts DEF TablesInv

(* The sections of each range.                                             *)
LEMMA Ranges ==
  ASSUME NEW s \in Nat
  PROVE  /\ InRange(s, 1) <=> s = 0
         /\ InRange(s, 2) <=> s = 1
         /\ InRange(s, 3) <=> s = 2
         /\ InRange(s, 4) <=> s = 3
         /\ InRange(s, 5) <=> s = 4
         /\ InRange(s, 6) <=> s = 5
         /\ InRange(s, 7) <=> s = 6
         /\ InRange(s, 8) <=> s \in 7 .. 14
         /\ InRange(s, 9) <=> s = 15
         /\ InRange(s, 10) <=> s \in 16 .. 1007
         /\ InRange(s, 11) <=> s \in 1008 .. 1010
         /\ ~InRange(s, 12)
         /\ InRange(s, 13) <=> s \in StackSections
         /\ InRange(s, 14) <=> s \in USER_STACK_BOTTOM .. KERNEL_STACK_BOTTOM - 1
         /\ InRange(s, 15) <=> s \in KERNEL_STACK_BOTTOM .. 127
BY Starts, Layout DEF InRange, StackSections

(* The ranges' entries.                                                    *)
LEMMA Entries ==
  ASSUME NEW s
  PROVE  /\ RangeEntry(1, s) = Guard /\ RangeEntry(10, s) = Guard
         /\ RangeEntry(2, s) = Section(s, ReadExec, {})
         /\ RangeEntry(3, s) = Section(s, Read, {})
         /\ RangeEntry(4, s) = Section(s, ReadWrite, {})
         /\ RangeEntry(5, s) = Section(s, ReadWrite, ReadExec)
         /\ RangeEntry(6, s) = Section(s, Read, Read)
         /\ RangeEntry(7, s) = Section(s, ReadWrite, ReadWrite)
         /\ RangeEntry(8, s) = Section(s, ReadWrite, {})
         /\ RangeEntry(11, s) = Section(s, ReadWrite, {})
         /\ RangeEntry(13, s) = Handle(StackTableAt(s))
         /\ RangeEntry(14, s) = Section(s, ReadWrite, {})
         /\ RangeEntry(15, s) = Handle(StackTableAt(s))
BY DEF RangeEntry

(* What the ranges have left when all of them are filled.                  *)
LEMMA Filled ==
  ASSUME TablesInv, filled = RangeCount, NEW s \in Sections
  PROVE  /\ s = 1 => l1Table[s] = Section(1, ReadExec, {})
         /\ s = 2 => l1Table[s] = Section(2, Read, {})
         /\ s = 4 => l1Table[s] = Section(4, ReadWrite, ReadExec)
         /\ s = 5 => l1Table[s] = Section(5, Read, Read)
         /\ s = 6 => l1Table[s] = Section(6, ReadWrite, ReadWrite)
         /\ s \in KernelData => l1Table[s] = Section(s, ReadWrite, {})
         /\ s \in StackSections => l1Table[s] = Handle(0)
         /\ s \in KERNEL_STACK_BOTTOM .. 127 => l1Table[s] = Handle(s - USER_STACK_BOTTOM)
         /\ s \in Unassigned => l1Table[s] = Guard
<1>1. /\ \A r \in 1 .. 15 :
           InRange(s, r) /\ (\A q \in r + 1 .. 15 : ~InRange(s, q)) =>
             l1Table[s] = RangeEntry(r, s)
      /\ (\A r \in 1 .. 15 : ~InRange(s, r)) => l1Table[s] = Guard
  BY Starts DEF TablesInv, BeingFilled
<1>2. s \in Nat
  BY Layout DEF Sections
<1> DEFINE Last(r) == InRange(s, r) /\ \A q \in r + 1 .. 15 : ~InRange(s, q)
<1>3. \A r \in 1 .. 15 : Last(r) => l1Table[s] = RangeEntry(r, s)
  BY <1>1
<1>4. /\ s = 0 => Last(1)
      /\ s = 1 => Last(2)
      /\ s = 2 => Last(3)
      /\ s = 3 => Last(4)
      /\ s = 4 => Last(5)
      /\ s = 5 => Last(6)
      /\ s = 6 => Last(7)
      /\ s \in 7 .. 14 => Last(8)
  BY <1>2, Ranges, Layout DEF StackSections
<1>5. /\ s \in 16 .. VIRTUAL_PROCESS_STACKS_BOTTOM - 1 => Last(10)
      /\ s \in 128 .. 1007 => Last(10)
      /\ s \in 1008 .. 1010 => Last(11)
      /\ s \in StackSections => Last(13)
      /\ s \in USER_STACK_BOTTOM .. KERNEL_STACK_BOTTOM - 1 => Last(14)
      /\ s \in KERNEL_STACK_BOTTOM .. 127 => Last(15)
  BY <1>2, Ranges, Layout DEF StackSections
<1>6. s >= 1011 => \A r \in 1 .. 15 : ~InRange(s, r)
  BY <1>2, Ranges, Layout DEF StackSections
<1> HIDE DEF Last
<1>7. /\ s \in StackSections => StackTableAt(s) = 0
      /\ s \in KERNEL_STACK_BOTTOM .. 127 => StackTableAt(s) = s - USER_STACK_BOTTOM
  BY <1>2, Layout DEF StackTableAt, StackSections
<1>8. s \in KernelData => l1Table[s] = Section(s, ReadWrite, {})
  <2>1. s \in KernelData =>
          \/ s = 3 \/ s \in 7 .. 14 \/ s \in 1008 .. 1010
          \/ s \in USER_STACK_BOTTOM .. KERNEL_STACK_BOTTOM - 1
    BY DEF KernelData, BSS_DATA_SECTION, UBSS_UDATA_KERNEL_MAP, UBSS_UDATA_KERNEL_ORIGINAL_MAP,
           MMIO_DEVICES, UNASSIGNED2
  <2> QED BY <1>3, <1>4, <1>5, <2>1, Entries
<1>9. s \in Unassigned => l1Table[s] = Guard
  <2>1. s \in Unassigned =>
          \/ s = 0 \/ s \in 16 .. VIRTUAL_PROCESS_STACKS_BOTTOM - 1
          \/ s \in 128 .. 1007 \/ s >= 1011
    BY DEF Unassigned, UNASSIGNED1, MEMORY_TOP, MMIO_DEVICES, UNASSIGNED2
  <2> QED BY <1>1, <1>3, <1>4, <1>5, <1>6, <2>1, Entries
<1>10. /\ s = 1 => l1Table[s] = Section(s, ReadExec, {})
       /\ s = 2 => l1Table[s] = Section(s, Read, {})
       /\ s = 4 => l1Table[s] = Section(s, ReadWrite, ReadExec)
       /\ s = 5 => l1Table[s] = Section(s, Read, Read)
       /\ s = 6 => l1Table[s] = Section(s, ReadWrite, ReadWrite)
  BY <1>3, <1>4, Entries
<1>11. /\ s \in StackSections => l1Table[s] = Handle(0)
       /\ s \in KERNEL_STACK_BOTTOM .. 127 => l1Table[s] = Handle(s - USER_STACK_BOTTOM)
  BY <1>3, <1>5, <1>7, Entries
<1> QED BY <1>8, <1>9, <1>10, <1>11

LEMMA MapOriginalKeeps ==
  ASSUME TablesInv, MapOriginal
  PROVE  TablesInv'
<1>1. /\ filled = RangeCount /\ filled' = RangeCount + 1
      /\ l1Table' = [l1Table EXCEPT ![15] = Section(6, Read, {})]
      /\ UNCHANGED <<process, slotStack>>
  BY DEF MapOriginal, UBSS_UDATA_KERNEL_ORIGINAL_MAP, UBSS_UDATA_SECTION
<1>2. process = -1 /\ DOMAIN l1Table = Sections
  BY <1>1, Starts DEF TablesInv
<1>3. /\ \A s \in Sections : s # 15 => l1Table'[s] = l1Table[s]
      /\ 15 \in Sections /\ l1Table'[15] = Section(6, Read, {})
  BY <1>1, <1>2, Layout DEF Sections
<1>4. /\ 15 \notin KernelData /\ 15 \notin StackSections /\ 15 \notin KERNEL_STACK_BOTTOM .. 127
      /\ 15 \notin Unassigned
      /\ KernelData \subseteq Sections /\ StackSections \subseteq Sections
      /\ KERNEL_STACK_BOTTOM .. 127 \subseteq Sections /\ Unassigned \subseteq Sections
      /\ {1, 2, 4, 5, 6} \subseteq Sections
  BY Layout DEF KernelData, BSS_DATA_SECTION, UBSS_UDATA_KERNEL_MAP, StackSections, Sections,
                UBSS_UDATA_KERNEL_ORIGINAL_MAP, MMIO_DEVICES, UNASSIGNED2, Unassigned,
                UNASSIGNED1, MEMORY_TOP
<1>5. Fixed'
  BY <1>1, <1>3, <1>4, Filled
     DEF Fixed, INIT_TEXT_SECTION, RODATA_SECTION, UTEXT_SECTION, URODATA_SECTION,
         UBSS_UDATA_SECTION, UBSS_UDATA_KERNEL_ORIGINAL_MAP, MEMORY_TOP
<1>6. OfProcess'
  BY <1>1, <1>2, <1>3, <1>4, Filled DEF OfProcess, UBSS_UDATA_SECTION
<1>7. DOMAIN l1Table' = Sections
  BY <1>1, <1>2
<1> QED BY <1>1, <1>2, <1>5, <1>6, <1>7, Starts DEF TablesInv

LEMMA SwitchKeeps ==
  ASSUME TablesInv, NEW pid \in AddressSpaces, NEW handles \in HandleRows, Switch(pid, handles)
  PROVE  TablesInv'
<1> DEFINE At(s) == CHOOSE slot \in Slots : s = SlotSection(slot)
<1>1. /\ filled = 16 /\ filled' = 16 /\ process' = pid /\ slotStack' = handles
      /\ l1Table' = [s \in Sections |->
           CASE s = 6 -> [l1Table[s] EXCEPT !.base = DataSection(pid)]
             [] \E slot \in Slots : s = SlotSection(slot) -> Handle(handles[At(s)])
             [] OTHER -> l1Table[s]]
  BY Starts DEF Switch, UBSS_UDATA_SECTION
<1>2. Fixed /\ OfProcess /\ DOMAIN l1Table = Sections
  BY <1>1, Starts DEF TablesInv
<1>3. \A slot \in Slots : SlotSection(slot) \in StackSections /\ At(SlotSection(slot)) = slot
  BY Layout DEF Slots, SlotSection, StackSections
<1>4. StackSections \subseteq Sections /\ 6 \notin StackSections /\ 6 \in Sections
  BY Layout DEF StackSections, Sections
<1>5. \A s \in Sections \ (StackSections \cup {6}) : l1Table'[s] = l1Table[s]
  BY <1>1, <1>3
<1>6. l1Table'[6] = Section(DataSection(pid), ReadWrite, ReadWrite)
  <2>1. \E base : l1Table[6] = Section(base, ReadWrite, ReadWrite)
    BY <1>2 DEF OfProcess, UBSS_UDATA_SECTION
  <2>2. l1Table'[6] = [l1Table[6] EXCEPT !.base = DataSection(pid)]
    BY <1>1, <1>3, <1>4
  <2> QED BY <2>1, <2>2 DEF Section
<1>7. \A slot \in Slots : l1Table'[SlotSection(slot)] = Handle(handles[slot])
  BY <1>1, <1>3, <1>4
<1>8. \A s \in StackSections :
        (\A slot \in Slots : s # SlotSection(slot)) => l1Table'[s] = l1Table[s]
  BY <1>1, <1>4
<1>9. \A s \in StackSections :
        (\A slot \in Slots : s # SlotSection(slot)) => l1Table[s] = Handle(0)
  BY <1>2 DEF OfProcess
<1>10. process' # -1
  BY <1>1, Layout DEF AddressSpaces
<1>11. OfProcess'
  BY <1>1, <1>6, <1>7, <1>8, <1>9, <1>10 DEF OfProcess, UBSS_UDATA_SECTION
<1>12. Fixed'
  <2>1. /\ KernelData \subseteq Sections \ (StackSections \cup {6})
        /\ KERNEL_STACK_BOTTOM .. MEMORY_TOP - 1 \subseteq Sections \ (StackSections \cup {6})
        /\ Unassigned \subseteq Sections \ (StackSections \cup {6})
        /\ {1, 2, 4, 5, 15} \subseteq Sections \ (StackSections \cup {6})
    BY Layout DEF KernelData, BSS_DATA_SECTION, UBSS_UDATA_KERNEL_MAP, StackSections, Sections,
                  UBSS_UDATA_KERNEL_ORIGINAL_MAP, MMIO_DEVICES, UNASSIGNED2, Unassigned,
                  UNASSIGNED1, MEMORY_TOP
  <2> QED BY <1>2, <1>5, <2>1
          DEF Fixed, INIT_TEXT_SECTION, RODATA_SECTION, UTEXT_SECTION, URODATA_SECTION,
              UBSS_UDATA_KERNEL_ORIGINAL_MAP
<1>13. DOMAIN l1Table' = Sections
  BY <1>1
<1>14. slotStack' \in [Slots -> UserStacks \cup {NoTable}]
  BY <1>1, LayoutAssumption DEF LayoutAssumption
<1> QED BY <1>1, <1>11, <1>12, <1>13, <1>14, Starts DEF TablesInv

LEMMA TablesStep ==
  ASSUME TablesInv, [Next]_vars
  PROVE  TablesInv'
<1>1. CASE UNCHANGED vars
  BY <1>1 DEF vars, TablesInv, BeingFilled, Fixed, OfProcess
<1> QED BY <1>1, FillKeeps, MapOriginalKeeps, SwitchKeeps DEF Next

-----------------------------------------------------------------------------
(* Part 2: what the hardware makes of the entries.                         *)

(* The bits of the permissions that are used.                              *)
LEMMA PermissionBits ==
  /\ Attributes(ReadExec, {}) = [AP |-> 5, XN |-> FALSE]
  /\ Attributes(Read, {}) = [AP |-> 5, XN |-> TRUE]
  /\ Attributes(ReadWrite, {}) = [AP |-> 1, XN |-> TRUE]
  /\ Attributes(ReadWrite, ReadExec) = [AP |-> 2, XN |-> FALSE]
  /\ Attributes(Read, Read) = [AP |-> 7, XN |-> TRUE]
  /\ Attributes(ReadWrite, ReadWrite) = [AP |-> 3, XN |-> TRUE]
<1>1. /\ Readable({}) \ {"exec"} = {} /\ Readable(Read) \ {"exec"} = Read
      /\ Readable(ReadWrite) \ {"exec"} = ReadWrite /\ Readable(ReadExec) \ {"exec"} = Read
  BY DEF Readable, Read, ReadWrite, ReadExec
<1>2. /\ Read # {} /\ ReadWrite # {} /\ ReadWrite # Read
      /\ "exec" \notin {} \cup {} /\ "exec" \notin Read \cup {} /\ "exec" \notin ReadWrite \cup {}
      /\ "exec" \in ReadExec \cup {} /\ "exec" \in ReadWrite \cup ReadExec
      /\ "exec" \notin Read \cup Read /\ "exec" \notin ReadWrite \cup ReadWrite
  BY DEF Read, ReadWrite, ReadExec
<1>3. /\ GetAPBits(Read, {}) = 5 /\ GetAPBits(ReadWrite, {}) = 1 /\ GetAPBits(ReadWrite, Read) = 2
      /\ GetAPBits(Read, Read) = 7 /\ GetAPBits(ReadWrite, ReadWrite) = 3
  BY <1>2 DEF GetAPBits
<1> QED BY <1>1, <1>2, <1>3 DEF Attributes

LEMMA SectionBits ==
  ASSUME NEW base, NEW kp, NEW up
  PROVE  /\ Section(base, kp, up).type = "section" /\ Section(base, kp, up).base = base
         /\ Section(base, kp, up).AP = Attributes(kp, up).AP
         /\ Section(base, kp, up).XN = Attributes(kp, up).XN
         /\ Section(base, kp, up).PXN <=> "exec" \notin kp /\ "exec" \in up
         /\ \A moved : [Section(base, kp, up) EXCEPT !.base = moved] = Section(moved, kp, up)
<1>1. /\ Section(base, kp, up).type = "section" /\ Section(base, kp, up).base = base
      /\ Section(base, kp, up).AP = Attributes(kp, up).AP
      /\ Section(base, kp, up).XN = Attributes(kp, up).XN
  BY DEF Section
<1>2. Section(base, kp, up).PXN <=> "exec" \notin kp /\ "exec" \in up
  BY Zenon DEF Section
<1>3. \A moved : [Section(base, kp, up) EXCEPT !.base = moved] = Section(moved, kp, up)
  BY DEF Section
<1> QED BY <1>1, <1>2, <1>3

(* An entry that leads to memory: where, and what the kernel and what user *)
(* code may do there.                                                      *)
Way(entry, frame, kernel, user) ==
  /\ entry # Guard /\ FrameOf(entry) = frame
  /\ MayAccess("kernel", entry) = kernel /\ MayAccess("user", entry) = user

LEMMA GuardAccess ==
  MayAccess("kernel", Guard) = {} /\ MayAccess("user", Guard) = {}
BY DEF MayAccess, Guard

LEMMA AccessBits ==
  ASSUME NEW e, e.type \in {"section", "page"}
  PROVE  /\ e # Guard
         /\ \A mode \in Modes : MayAccess(mode, e) \subseteq {"read", "write", "exec"}
         /\ "read" \in MayAccess("kernel", e) <=> e.AP # 0
         /\ "write" \in MayAccess("kernel", e) <=> e.AP \in {1, 2, 3}
         /\ "exec" \in MayAccess("kernel", e) <=>
              e.AP # 0 /\ ~(e.XN \/ (e.type = "section" /\ e.PXN))
         /\ "read" \in MayAccess("user", e) <=> e.AP \in {2, 3, 7}
         /\ "write" \in MayAccess("user", e) <=> e.AP = 3
         /\ "exec" \in MayAccess("user", e) <=> e.AP \in {2, 3, 7} /\ ~e.XN
<1>1. e # Guard /\ e.type # "fault"
  BY DEF Guard
<1>2. \A mode \in Modes : MayAccess(mode, e) \subseteq {"read", "write", "exec"}
  BY <1>1, Zenon DEF MayAccess
<1> QED BY <1>1, <1>2 DEF MayAccess

(* Sets of the three kinds of access.                                      *)
LEMMA SameAccess ==
  ASSUME NEW A, NEW B, A \subseteq {"read", "write", "exec"}, B \subseteq {"read", "write", "exec"},
         "read" \in A <=> "read" \in B, "write" \in A <=> "write" \in B,
         "exec" \in A <=> "exec" \in B
  PROVE  A = B
<1>1. \A x \in A : x \in B
  OBVIOUS
<1>2. \A x \in B : x \in A
  OBVIOUS
<1> QED BY <1>1, <1>2

LEMMA EntryWays ==
  ASSUME NEW e, NEW frame, e.type \in {"section", "page"}, FrameOf(e) = frame
  PROVE  /\ e.AP = 5 /\ ~e.XN /\ ~e.PXN => Way(e, frame, ReadExec, {})
         /\ e.AP = 5 /\ e.XN => Way(e, frame, Read, {})
         /\ e.AP = 1 /\ e.XN => Way(e, frame, ReadWrite, {})
         /\ e.AP = 2 /\ ~e.XN /\ e.PXN /\ e.type = "section" => Way(e, frame, ReadWrite, ReadExec)
         /\ e.AP = 7 /\ e.XN => Way(e, frame, Read, Read)
         /\ e.AP = 3 /\ e.XN => Way(e, frame, ReadWrite, ReadWrite)
<1> DEFINE k == MayAccess("kernel", e)
           u == MayAccess("user", e)
<1>1. e # Guard /\ k \subseteq {"read", "write", "exec"} /\ u \subseteq {"read", "write", "exec"}
  BY AccessBits DEF Modes
<1>2. /\ "read" \in k <=> e.AP # 0
      /\ "write" \in k <=> e.AP \in {1, 2, 3}
      /\ "exec" \in k <=> e.AP # 0 /\ ~(e.XN \/ (e.type = "section" /\ e.PXN))
      /\ "read" \in u <=> e.AP \in {2, 3, 7}
      /\ "write" \in u <=> e.AP = 3
      /\ "exec" \in u <=> e.AP \in {2, 3, 7} /\ ~e.XN
  BY AccessBits
<1> HIDE DEF k, u
<1>3. ASSUME NEW A, NEW B, A \in {{}, Read, ReadWrite, ReadExec}, B \in {{}, Read, ReadWrite, ReadExec},
             "read" \in k <=> "read" \in A, "write" \in k <=> "write" \in A,
             "exec" \in k <=> "exec" \in A,
             "read" \in u <=> "read" \in B, "write" \in u <=> "write" \in B,
             "exec" \in u <=> "exec" \in B
      PROVE  Way(e, frame, A, B)
  <2>1. A \subseteq {"read", "write", "exec"} /\ B \subseteq {"read", "write", "exec"}
    BY <1>3 DEF Read, ReadWrite, ReadExec
  <2>2. k = A /\ u = B
    BY <1>1, <1>3, <2>1, SameAccess
  <2> QED BY <1>1, <2>2 DEF Way, k, u
<1>4. /\ "read" \in Read /\ "write" \notin Read /\ "exec" \notin Read
      /\ "read" \in ReadWrite /\ "write" \in ReadWrite /\ "exec" \notin ReadWrite
      /\ "read" \in ReadExec /\ "write" \notin ReadExec /\ "exec" \in ReadExec
  BY DEF Read, ReadWrite, ReadExec
<1>5. e.AP = 5 /\ ~e.XN /\ ~e.PXN => Way(e, frame, ReadExec, {})
  BY <1>2, <1>3, <1>4
<1>6. e.AP = 5 /\ e.XN => Way(e, frame, Read, {})
  BY <1>2, <1>3, <1>4
<1>7. e.AP = 1 /\ e.XN => Way(e, frame, ReadWrite, {})
  BY <1>2, <1>3, <1>4
<1>8. e.AP = 2 /\ ~e.XN /\ e.PXN /\ e.type = "section" => Way(e, frame, ReadWrite, ReadExec)
  BY <1>2, <1>3, <1>4
<1>9. e.AP = 7 /\ e.XN => Way(e, frame, Read, Read)
  BY <1>2, <1>3, <1>4
<1>10. e.AP = 3 /\ e.XN => Way(e, frame, ReadWrite, ReadWrite)
  BY <1>2, <1>3, <1>4
<1> QED BY <1>5, <1>6, <1>7, <1>8, <1>9, <1>10

LEMMA SectionWays ==
  ASSUME NEW frame
  PROVE  /\ Way(Section(frame, ReadExec, {}), frame, ReadExec, {})
         /\ Way(Section(frame, Read, {}), frame, Read, {})
         /\ Way(Section(frame, ReadWrite, {}), frame, ReadWrite, {})
         /\ Way(Section(frame, ReadWrite, ReadExec), frame, ReadWrite, ReadExec)
         /\ Way(Section(frame, Read, Read), frame, Read, Read)
         /\ Way(Section(frame, ReadWrite, ReadWrite), frame, ReadWrite, ReadWrite)
<1>1. \A kp, up :
        /\ Section(frame, kp, up).type = "section" /\ FrameOf(Section(frame, kp, up)) = frame
        /\ Section(frame, kp, up).AP = Attributes(kp, up).AP
        /\ Section(frame, kp, up).XN = Attributes(kp, up).XN
        /\ Section(frame, kp, up).PXN <=> "exec" \notin kp /\ "exec" \in up
  BY SectionBits DEF FrameOf
<1>2. /\ Attributes(ReadExec, {}).AP = 5 /\ ~Attributes(ReadExec, {}).XN
      /\ Attributes(Read, {}).AP = 5 /\ Attributes(Read, {}).XN
      /\ Attributes(ReadWrite, {}).AP = 1 /\ Attributes(ReadWrite, {}).XN
      /\ Attributes(ReadWrite, ReadExec).AP = 2 /\ ~Attributes(ReadWrite, ReadExec).XN
      /\ Attributes(Read, Read).AP = 7 /\ Attributes(Read, Read).XN
      /\ Attributes(ReadWrite, ReadWrite).AP = 3 /\ Attributes(ReadWrite, ReadWrite).XN
  BY PermissionBits
<1>3. "exec" \notin {} /\ "exec" \notin ReadWrite /\ "exec" \in ReadExec
  BY DEF ReadWrite, ReadExec
<1>4. Way(Section(frame, ReadExec, {}), frame, ReadExec, {})
  BY <1>1, <1>2, <1>3, EntryWays
<1>5. Way(Section(frame, Read, {}), frame, Read, {})
  BY <1>1, <1>2, EntryWays
<1>6. Way(Section(frame, ReadWrite, {}), frame, ReadWrite, {})
  BY <1>1, <1>2, EntryWays
<1>7. Way(Section(frame, ReadWrite, ReadExec), frame, ReadWrite, ReadExec)
  BY <1>1, <1>2, <1>3, EntryWays
<1>8. Way(Section(frame, Read, Read), frame, Read, Read)
  BY <1>1, <1>2, EntryWays
<1>9. Way(Section(frame, ReadWrite, ReadWrite), frame, ReadWrite, ReadWrite)
  BY <1>1, <1>2, EntryWays
<1> QED BY <1>4, <1>5, <1>6, <1>7, <1>8, <1>9

LEMMA PageWays ==
  ASSUME NEW frame
  PROVE  /\ Way(SmallPage(frame, ReadWrite, {}), frame, ReadWrite, {})
         /\ Way(SmallPage(frame, ReadWrite, ReadWrite), frame, ReadWrite, ReadWrite)
<1>1. \A kp, up :
        /\ SmallPage(frame, kp, up).type = "page" /\ FrameOf(SmallPage(frame, kp, up)) = frame
        /\ SmallPage(frame, kp, up).AP = Attributes(kp, up).AP
        /\ SmallPage(frame, kp, up).XN <=> Attributes(kp, up).XN
  BY DEF FrameOf, SmallPage
<1>2. /\ Attributes(ReadWrite, {}).AP = 1 /\ Attributes(ReadWrite, {}).XN
      /\ Attributes(ReadWrite, ReadWrite).AP = 3 /\ Attributes(ReadWrite, ReadWrite).XN
  BY PermissionBits
<1>3. Way(SmallPage(frame, ReadWrite, {}), frame, ReadWrite, {})
  BY <1>1, <1>2, EntryWays
<1>4. Way(SmallPage(frame, ReadWrite, ReadWrite), frame, ReadWrite, ReadWrite)
  BY <1>1, <1>2, EntryWays
<1> QED BY <1>3, <1>4

(* Frames of different sections are different.                             *)
LEMMA FrameUnique ==
  ASSUME NEW a \in Int, NEW b \in Int, NEW p \in Pages, NEW q \in Pages,
         FirstPage(a) + p = FirstPage(b) + q
  PROVE  a = b /\ p = q
<1> DEFINE L == L2_STACK_TABLE_SIZE
<1>1. L \in Nat /\ p \in 0 .. L - 1 /\ q \in 0 .. L - 1 /\ a * L + p = b * L + q
  BY Layout DEF Pages, FirstPage
<1> HIDE DEF L
<1>2. ASSUME NEW x \in Int, NEW y \in Int, x >= y + 1
      PROVE  x * L >= y * L + L
  <2>1. x * L >= (y + 1) * L
    BY <1>1, <1>2
  <2>2. (y + 1) * L = y * L + L
    BY <1>1
  <2> QED BY <2>1, <2>2
<1>3. a * L \in Int /\ b * L \in Int
  BY <1>1
<1>4. ~(a >= b + 1)
  BY <1>1, <1>2, <1>3
<1>5. ~(b >= a + 1)
  BY <1>1, <1>2, <1>3
<1>6. a = b
  BY <1>4, <1>5
<1> QED BY <1>1, <1>3, <1>6

-----------------------------------------------------------------------------
(* Part 3: where the pages of every section lead.                          *)

LEMMA SectionMapped ==
  ASSUME NEW s, NEW page, NEW base, NEW kp, NEW up, l1Table[s] = Section(base, kp, up)
  PROVE  Mapped(s, page) = Section(FirstPage(base) + page, kp, up) /\ PagesToSee(s) = {0}
<1>1. l1Table[s].type = "section" /\ l1Table[s].base = base
  BY SectionBits
<1>2. Mapped(s, page) = [l1Table[s] EXCEPT !.base = FirstPage(base) + page]
  BY <1>1 DEF Mapped, FirstPage
<1> QED BY <1>1, <1>2, SectionBits DEF PagesToSee

LEMMA GuardMapped ==
  ASSUME NEW s, NEW page, l1Table[s] = Guard
  PROVE  Mapped(s, page) = Guard
BY DEF Mapped, Guard

LEMMA HandleMapped ==
  ASSUME NEW s, NEW page, NEW table \in Stacks, l1Table[s] = Handle(table)
  PROVE  /\ l1Table[s].type = "handle" /\ l1Table[s].table = table
         /\ Mapped(s, page) = StackPage(table, page) /\ PagesToSee(s) = Pages
<1>1. l1Table[s] = [type |-> "handle", table |-> table]
  BY Layout DEF Handle, Stacks, NoTable, STACK_COUNT
<1> QED BY <1>1 DEF Mapped, PagesToSee

LEMMA StackWays ==
  ASSUME NEW stack \in Stacks, NEW page \in Pages
  PROVE  /\ page = 0 => StackPage(stack, page) = Guard
         /\ page # 0 => Way(StackPage(stack, page), FirstPage(USER_STACK_BOTTOM + stack) + page,
                            ReadWrite, IF stack \in UserStacks THEN ReadWrite ELSE {})
BY PageWays DEF StackPage, FirstPage

(* A page of a section leads to the same page of section target.           *)
Goes(s, page, target, kernel, user) ==
  Way(Mapped(s, page), FirstPage(target) + page, kernel, user)

(* Memory for the kernel alone.                                            *)
KernelsOnly(s, page) ==
  \E target \in Int \ {INIT_TEXT_SECTION, UTEXT_SECTION} : \E kernel \in {Read, ReadWrite} :
    /\ Goes(s, page, target, kernel, {})
    /\ "write" \in kernel => target # UBSS_UDATA_SECTION

(* A page of a stack for user code.                                        *)
UserStackAt(s, page) ==
  \E stack \in UserStacks :
    /\ Goes(s, page, USER_STACK_BOTTOM + stack, ReadWrite, ReadWrite)
    /\ page # 0 /\ s \in StackSections
    /\ \A slot \in Slots : s = SlotSection(slot) => slotStack[slot] = stack

LEMMA SeenParts ==
  ASSUME NEW at \in Seen
  PROVE  at[1] \in Sections /\ at[2] \in PagesToSee(at[1])
BY DEF Seen

LEMMA SectionsOfMap ==
  ASSUME NEW s \in Sections
  PROVE  \/ s \in {INIT_TEXT_SECTION, RODATA_SECTION, UTEXT_SECTION, URODATA_SECTION,
                   UBSS_UDATA_SECTION, UBSS_UDATA_KERNEL_ORIGINAL_MAP}
         \/ s \in KernelData \/ s \in Unassigned \/ s \in StackSections
         \/ s \in KERNEL_STACK_BOTTOM .. MEMORY_TOP - 1
BY Layout DEF KernelData, BSS_DATA_SECTION, UBSS_UDATA_KERNEL_MAP, StackSections, Sections,
              UBSS_UDATA_KERNEL_ORIGINAL_MAP, MMIO_DEVICES, UNASSIGNED2, Unassigned,
              UNASSIGNED1, MEMORY_TOP, INIT_TEXT_SECTION, RODATA_SECTION, UTEXT_SECTION,
              URODATA_SECTION, UBSS_UDATA_SECTION

LEMMA WhenRunning ==
  ASSUME TablesInv, Running
  PROVE  /\ filled = RangeCount + 1 /\ Fixed /\ OfProcess /\ process \in AddressSpaces
         /\ DataSection(process) \in 7 .. 14
         /\ slotStack \in [Slots -> UserStacks \cup {NoTable}]
<1>1. filled = RangeCount + 1 /\ process \in AddressSpaces
  BY Starts DEF TablesInv, Running
<1> QED BY <1>1, Layout DEF TablesInv, DataSection, UBSS_UDATA_SECTION, AddressSpaces

LEMMA Ways ==
  ASSUME TablesInv, Running, NEW s \in Sections, NEW page \in PagesToSee(s)
  PROVE  \/ Mapped(s, page) = Guard
         \/ KernelsOnly(s, page)
         \/ page = 0 /\ s = INIT_TEXT_SECTION /\ Goes(s, page, s, ReadExec, {})
         \/ page = 0 /\ s = UTEXT_SECTION /\ Goes(s, page, s, ReadWrite, ReadExec)
         \/ page = 0 /\ s = URODATA_SECTION /\ Goes(s, page, s, Read, Read)
         \/ /\ page = 0 /\ s = UBSS_UDATA_SECTION
            /\ Goes(s, page, DataSection(process), ReadWrite, ReadWrite)
         \/ UserStackAt(s, page)
<1>1. Fixed /\ OfProcess /\ slotStack \in [Slots -> UserStacks \cup {NoTable}]
  BY WhenRunning
<1>2. CASE s = INIT_TEXT_SECTION
  <2>1. l1Table[s] = Section(s, ReadExec, {})
    BY <1>1, <1>2 DEF Fixed
  <2>2. Mapped(s, page) = Section(FirstPage(s) + page, ReadExec, {}) /\ page = 0
    BY <2>1, SectionMapped
  <2> QED BY <1>2, <2>2, SectionWays DEF Goes
<1>3. CASE s = UTEXT_SECTION
  <2>1. l1Table[s] = Section(s, ReadWrite, ReadExec)
    BY <1>1, <1>3 DEF Fixed
  <2>2. Mapped(s, page) = Section(FirstPage(s) + page, ReadWrite, ReadExec) /\ page = 0
    BY <2>1, SectionMapped
  <2> QED BY <1>3, <2>2, SectionWays DEF Goes
<1>4. CASE s = URODATA_SECTION
  BY <1>1, <1>4, SectionMapped, SectionWays DEF Fixed, Goes
<1>5. CASE s = UBSS_UDATA_SECTION
  BY <1>1, <1>5, SectionMapped, SectionWays DEF OfProcess, Goes, Running
<1>6. CASE s \in {RODATA_SECTION, UBSS_UDATA_KERNEL_ORIGINAL_MAP}
  <2> DEFINE target == IF s = RODATA_SECTION THEN RODATA_SECTION ELSE UBSS_UDATA_SECTION
  <2>1. l1Table[s] = Section(target, Read, {})
    BY <1>1, <1>6 DEF Fixed
  <2>2. Goes(s, page, target, Read, {})
    BY <2>1, SectionMapped, SectionWays DEF Goes
  <2>3. target \in Int \ {INIT_TEXT_SECTION, UTEXT_SECTION} /\ "write" \notin Read
    BY DEF RODATA_SECTION, UBSS_UDATA_SECTION, INIT_TEXT_SECTION, UTEXT_SECTION, Read
  <2> HIDE DEF target
  <2> QED BY <2>2, <2>3 DEF KernelsOnly
<1>7. CASE s \in KernelData
  <2>1. Goes(s, page, s, ReadWrite, {})
    <3>1. l1Table[s] = Section(s, ReadWrite, {})
      BY <1>1, <1>7 DEF Fixed
    <3>2. Mapped(s, page) = Section(FirstPage(s) + page, ReadWrite, {})
      BY <3>1, SectionMapped
    <3> QED BY <3>2, SectionWays DEF Goes
  <2>2. s \in Int \ {INIT_TEXT_SECTION, UTEXT_SECTION} /\ s # UBSS_UDATA_SECTION
    BY <1>7, Layout DEF KernelData, BSS_DATA_SECTION, UBSS_UDATA_KERNEL_MAP,
         UBSS_UDATA_KERNEL_ORIGINAL_MAP, MMIO_DEVICES, UNASSIGNED2, INIT_TEXT_SECTION,
         UTEXT_SECTION, UBSS_UDATA_SECTION
  <2> QED BY <2>1, <2>2 DEF KernelsOnly
<1>8. CASE s \in Unassigned
  BY <1>1, <1>8, GuardMapped DEF Fixed
<1>9. CASE s \in KERNEL_STACK_BOTTOM .. MEMORY_TOP - 1
  <2>1. /\ s - USER_STACK_BOTTOM \in Stacks \ UserStacks /\ s \in Int
        /\ USER_STACK_BOTTOM + (s - USER_STACK_BOTTOM) = s
        /\ s \notin {INIT_TEXT_SECTION, UTEXT_SECTION, UBSS_UDATA_SECTION}
    BY <1>9, Layout DEF Stacks, UserStacks, STACK_COUNT, INIT_TEXT_SECTION, UTEXT_SECTION,
                        UBSS_UDATA_SECTION, MEMORY_TOP
  <2>2. l1Table[s] = Handle(s - USER_STACK_BOTTOM)
    BY <1>1, <1>9 DEF Fixed
  <2>3. page \in Pages /\ Mapped(s, page) = StackPage(s - USER_STACK_BOTTOM, page)
    BY <2>1, <2>2, HandleMapped
  <2>4. page # 0 => Goes(s, page, s, ReadWrite, {})
    BY <2>1, <2>3, StackWays DEF Goes
  <2>5. page = 0 => Mapped(s, page) = Guard
    BY <2>1, <2>3, StackWays
  <2> QED BY <2>1, <2>4, <2>5 DEF KernelsOnly
<1>10. CASE s \in StackSections
  <2>1. PICK stack \in UserStacks \cup {NoTable} :
          /\ l1Table[s] = Handle(stack)
          /\ \A slot \in Slots : s = SlotSection(slot) => slotStack[slot] = stack
    <3>1. CASE \E slot \in Slots : s = SlotSection(slot)
      <4>1. PICK slot \in Slots : s = SlotSection(slot)
        BY <3>1
      <4>2. l1Table[s] = Handle(slotStack[slot]) /\ slotStack[slot] \in UserStacks \cup {NoTable}
        BY <1>1, <4>1 DEF OfProcess, Running
      <4>3. \A other \in Slots : s = SlotSection(other) => other = slot
        BY <4>1, Layout DEF Slots, SlotSection
      <4> QED BY <4>2, <4>3
    <3>2. CASE \A slot \in Slots : s # SlotSection(slot)
      <4>1. 0 \in UserStacks
        BY Layout DEF UserStacks
      <4>2. l1Table[s] = Handle(0)
        BY <1>1, <1>10, <3>2 DEF OfProcess, Running
      <4> QED BY <3>2, <4>1, <4>2
    <3> QED BY <3>1, <3>2
  <2>2. CASE stack = NoTable
    BY <2>1, <2>2, GuardMapped DEF Handle
  <2>3. CASE stack # NoTable
    <3>1. stack \in UserStacks /\ stack \in Stacks
      BY <2>3, Layout DEF UserStacks, Stacks, STACK_COUNT
    <3>2. page \in Pages /\ Mapped(s, page) = StackPage(stack, page)
      BY <2>1, <3>1, HandleMapped
    <3>3. page = 0 => Mapped(s, page) = Guard
      BY <3>1, <3>2, StackWays
    <3>4. page # 0 => Goes(s, page, USER_STACK_BOTTOM + stack, ReadWrite, ReadWrite)
      BY <3>1, <3>2, StackWays DEF Goes
    <3> QED BY <1>10, <2>1, <3>1, <3>3, <3>4 DEF UserStackAt
  <2> QED BY <2>2, <2>3
<1> QED BY <1>2, <1>3, <1>4, <1>5, <1>6, <1>7, <1>8, <1>9, <1>10, SectionsOfMap

-----------------------------------------------------------------------------
(* Part 4: what that means.                                                *)

LEMMA FrameOfFirst ==
  ASSUME NEW section \in Int
  PROVE  FirstPage(section) + 0 = FirstPage(section)
BY Layout DEF FirstPage

(* The pages that are looked at are pages.                                 *)
LEMMA PageNumbers ==
  ASSUME NEW s
  PROVE  PagesToSee(s) \subseteq Pages /\ 0 \in Pages
BY Layout DEF PagesToSee, Pages

LEMMA UserCodeConfined ==
  ASSUME TablesInv, THREADS_PER_ADDRESS_SPACE = 4
  PROVE  UserConfined
<1> SUFFICES ASSUME Running, NEW at \in Seen
             PROVE  LET entry == Mapped(at[1], at[2])
                        may == MayAccess("user", entry)
                    IN  \/ may = {}
                        \/ /\ at[1] = UTEXT_SECTION /\ may = ReadExec
                           /\ FrameOf(entry) = FirstPage(UTEXT_SECTION)
                        \/ /\ at[1] = URODATA_SECTION /\ may = Read
                           /\ FrameOf(entry) = FirstPage(URODATA_SECTION)
                        \/ /\ at[1] = UBSS_UDATA_SECTION /\ may = ReadWrite
                           /\ FrameOf(entry) = FirstPage(DataSection(process))
                        \/ /\ may = ReadWrite
                           /\ \E slot \in Slots :
                                /\ at[1] = SlotSection(slot) /\ slotStack[slot] # NoTable
                                /\ FrameOf(entry) = FirstPage(USER_STACK_BOTTOM + slotStack[slot]) + at[2]
                                /\ at[2] # 0
  BY DEF UserConfined
<1> DEFINE s == at[1]
           page == at[2]
           entry == Mapped(s, page)
           may == MayAccess("user", entry)
<1>1. s \in Sections /\ page \in PagesToSee(s)
  BY SeenParts
<1>2. CASE entry = Guard
  BY <1>2, GuardAccess
<1>3. CASE KernelsOnly(s, page)
  BY <1>3 DEF KernelsOnly, Goes, Way
<1>4. CASE Goes(s, page, INIT_TEXT_SECTION, ReadExec, {})
  BY <1>4 DEF Goes, Way
<1>5. CASE page = 0 /\ s = UTEXT_SECTION /\ Goes(s, page, s, ReadWrite, ReadExec)
  <2>1. may = ReadExec /\ FrameOf(entry) = FirstPage(UTEXT_SECTION) + 0
    BY <1>5 DEF Goes, Way
  <2> QED BY <1>5, <2>1, FrameOfFirst DEF UTEXT_SECTION
<1>6. CASE page = 0 /\ s = URODATA_SECTION /\ Goes(s, page, s, Read, Read)
  <2>1. may = Read /\ FrameOf(entry) = FirstPage(URODATA_SECTION) + 0
    BY <1>6 DEF Goes, Way
  <2> QED BY <1>6, <2>1, FrameOfFirst DEF URODATA_SECTION
<1>7. CASE /\ page = 0 /\ s = UBSS_UDATA_SECTION
           /\ Goes(s, page, DataSection(process), ReadWrite, ReadWrite)
  <2>1. may = ReadWrite /\ FrameOf(entry) = FirstPage(DataSection(process)) + 0
    BY <1>7 DEF Goes, Way
  <2>2. DataSection(process) \in Int
    BY WhenRunning
  <2> QED BY <1>7, <2>1, <2>2, FrameOfFirst
<1>8. CASE UserStackAt(s, page)
  <2>1. PICK stack \in UserStacks :
          /\ Goes(s, page, USER_STACK_BOTTOM + stack, ReadWrite, ReadWrite)
          /\ page # 0 /\ s \in StackSections
          /\ \A slot \in Slots : s = SlotSection(slot) => slotStack[slot] = stack
    BY <1>8 DEF UserStackAt
  <2>2. USER_STACK_BOTTOM - 1 - s \in Slots /\ s = SlotSection(USER_STACK_BOTTOM - 1 - s)
    BY <2>1, Layout DEF StackSections, Slots, SlotSection
  <2>3. PICK slot \in Slots : s = SlotSection(slot) /\ slotStack[slot] = stack
    BY <2>1, <2>2
  <2>4. may = ReadWrite /\ FrameOf(entry) = FirstPage(USER_STACK_BOTTOM + stack) + page
    BY <2>1 DEF Goes, Way
  <2>5. stack # NoTable
    BY Layout DEF UserStacks
  <2> QED BY <2>1, <2>3, <2>4, <2>5
<1>9. \/ entry = Guard \/ KernelsOnly(s, page) \/ Goes(s, page, INIT_TEXT_SECTION, ReadExec, {})
      \/ page = 0 /\ s = UTEXT_SECTION /\ Goes(s, page, s, ReadWrite, ReadExec)
      \/ page = 0 /\ s = URODATA_SECTION /\ Goes(s, page, s, Read, Read)
      \/ /\ page = 0 /\ s = UBSS_UDATA_SECTION
         /\ Goes(s, page, DataSection(process), ReadWrite, ReadWrite)
      \/ UserStackAt(s, page)
  BY <1>1, Ways, Zenon
<1> QED BY <1>2, <1>3, <1>4, <1>5, <1>6, <1>7, <1>8, <1>9

(* What leads to where code or pristine data lies.                         *)
LEMMA WaysToSpecial ==
  ASSUME TablesInv, Running, NEW s \in Sections, NEW page \in PagesToSee(s),
         Mapped(s, page) # Guard
  PROVE  LET entry == Mapped(s, page)
             kernel == MayAccess("kernel", entry)
             user == MayAccess("user", entry)
         IN  /\ "exec" \in kernel => FrameOf(entry) = FirstPage(INIT_TEXT_SECTION)
             /\ "exec" \in user => FrameOf(entry) = FirstPage(UTEXT_SECTION)
             /\ FrameOf(entry) = FirstPage(INIT_TEXT_SECTION) =>
                  "write" \notin kernel /\ "write" \notin user
             /\ FrameOf(entry) = FirstPage(UTEXT_SECTION) => "write" \notin user
             /\ FrameOf(entry) = FirstPage(UBSS_UDATA_SECTION) =>
                  "write" \notin kernel /\ "write" \notin user
<1> DEFINE entry == Mapped(s, page)
           kernel == MayAccess("kernel", entry)
           user == MayAccess("user", entry)
<1>1. /\ "exec" \notin {} /\ "write" \notin {}
      /\ "exec" \notin Read /\ "write" \notin Read
      /\ "exec" \notin ReadWrite
      /\ "write" \notin ReadExec
  BY DEF Read, ReadWrite, ReadExec
<1> DEFINE Leads(target) ==
      /\ FrameOf(entry) = FirstPage(target) + page
      /\ "exec" \in kernel => target = 1 /\ page = 0
      /\ "exec" \in user => target = 4 /\ page = 0
      /\ target = 1 => "write" \notin kernel /\ "write" \notin user
      /\ target = 4 => "write" \notin user
      /\ target = 6 => "write" \notin kernel /\ "write" \notin user
<1> USE DEF INIT_TEXT_SECTION, UTEXT_SECTION, URODATA_SECTION, UBSS_UDATA_SECTION
<1>2. PICK target \in Int : Leads(target)
  <2>1. CASE KernelsOnly(s, page)
    <3>1. PICK target \in Int \ {1, 4}, k \in {Read, ReadWrite} :
            Goes(s, page, target, k, {}) /\ ("write" \in k => target # 6)
      BY <2>1 DEF KernelsOnly
    <3>2. Leads(target)
      BY <1>1, <3>1 DEF Goes, Way
    <3> QED BY <3>2
  <2>2. CASE page = 0 /\ s = 1 /\ Goes(s, page, s, ReadExec, {})
    <3>1. Leads(1)
      BY <1>1, <2>2 DEF Goes, Way
    <3> QED BY <3>1
  <2>3. CASE page = 0 /\ s = 4 /\ Goes(s, page, s, ReadWrite, ReadExec)
    <3>1. Leads(4)
      BY <1>1, <2>3 DEF Goes, Way
    <3> QED BY <3>1
  <2>4. CASE page = 0 /\ s = 5 /\ Goes(s, page, s, Read, Read)
    <3>1. Leads(5)
      BY <1>1, <2>4 DEF Goes, Way
    <3> QED BY <3>1
  <2>5. CASE page = 0 /\ s = 6 /\ Goes(s, page, DataSection(process), ReadWrite, ReadWrite)
    <3>1. DataSection(process) \in 7 .. 14
      BY WhenRunning
    <3>2. Leads(DataSection(process))
      BY <1>1, <2>5, <3>1 DEF Goes, Way
    <3> QED BY <3>1, <3>2
  <2>6. CASE UserStackAt(s, page)
    <3>1. PICK stack \in UserStacks :
            Goes(s, page, USER_STACK_BOTTOM + stack, ReadWrite, ReadWrite)
      BY <2>6 DEF UserStackAt
    <3>2. USER_STACK_BOTTOM + stack \in Int /\ USER_STACK_BOTTOM + stack > 16
      BY Layout DEF UserStacks
    <3>3. Leads(USER_STACK_BOTTOM + stack)
      BY <1>1, <3>1, <3>2 DEF Goes, Way
    <3> QED BY <3>2, <3>3
  <2>7. \/ KernelsOnly(s, page)
        \/ page = 0 /\ s = INIT_TEXT_SECTION /\ Goes(s, page, s, ReadExec, {})
        \/ page = 0 /\ s = UTEXT_SECTION /\ Goes(s, page, s, ReadWrite, ReadExec)
        \/ page = 0 /\ s = URODATA_SECTION /\ Goes(s, page, s, Read, Read)
        \/ /\ page = 0 /\ s = UBSS_UDATA_SECTION
           /\ Goes(s, page, DataSection(process), ReadWrite, ReadWrite)
        \/ UserStackAt(s, page)
    BY Ways, Zenon
  <2> QED BY <2>1, <2>2, <2>3, <2>4, <2>5, <2>6, <2>7
<1>3. page \in Pages /\ 0 \in Pages
  BY PageNumbers
<1>4. \A section \in {1, 4, 6} : FrameOf(entry) = FirstPage(section) => target = section
  <2> SUFFICES ASSUME NEW section \in {1, 4, 6}, FrameOf(entry) = FirstPage(section)
               PROVE  target = section
    OBVIOUS
  <2>1. FrameOf(entry) = FirstPage(target) + page
    BY <1>2
  <2>2. section \in Int /\ FirstPage(section) + 0 = FirstPage(section)
    BY FrameOfFirst
  <2>3. FirstPage(target) + page = FirstPage(section) + 0
    BY <2>1, <2>2
  <2>4. target \in Int
    OBVIOUS
  <2>5. target = section /\ page = 0
    BY <1>3, <2>2, <2>3, <2>4, FrameUnique
  <2> QED BY <2>5
<1>5. /\ "exec" \in kernel => FrameOf(entry) = FirstPage(1)
      /\ "exec" \in user => FrameOf(entry) = FirstPage(4)
  BY <1>2, FrameOfFirst
<1> QED BY <1>2, <1>4, <1>5

LEMMA Protected ==
  ASSUME TablesInv
  PROVE  CodeProtected
<1> SUFFICES ASSUME Running, NEW mode \in Modes,
                    NEW x \in Seen, "exec" \in MayAccess(mode, Mapped(x[1], x[2])),
                    NEW at \in Seen, Mapped(at[1], at[2]) # Guard,
                    FrameOf(Mapped(at[1], at[2])) = FrameOf(Mapped(x[1], x[2]))
             PROVE  /\ "write" \notin MayAccess(mode, Mapped(at[1], at[2]))
                    /\ "write" \notin MayAccess("user", Mapped(at[1], at[2]))
  BY DEF CodeProtected
<1>1. /\ x[1] \in Sections /\ x[2] \in PagesToSee(x[1])
      /\ at[1] \in Sections /\ at[2] \in PagesToSee(at[1])
  BY SeenParts
<1>2. Mapped(x[1], x[2]) # Guard
  BY GuardAccess DEF Modes
<1>3. CASE mode = "kernel"
  <2>1. FrameOf(Mapped(x[1], x[2])) = FirstPage(INIT_TEXT_SECTION)
    BY <1>1, <1>2, <1>3, WaysToSpecial
  <2> QED BY <1>1, <1>3, <2>1, WaysToSpecial
<1>4. CASE mode = "user"
  <2>1. FrameOf(Mapped(x[1], x[2])) = FirstPage(UTEXT_SECTION)
    BY <1>1, <1>2, <1>4, WaysToSpecial
  <2> QED BY <1>1, <1>4, <2>1, WaysToSpecial
<1> QED BY <1>3, <1>4 DEF Modes

LEMMA Pristine ==
  ASSUME TablesInv
  PROVE  OriginalPristine
<1>1. ASSUME Running
      PROVE  LET original == Mapped(UBSS_UDATA_KERNEL_ORIGINAL_MAP, 0)
             IN  /\ "read" \in MayAccess("kernel", original)
                 /\ FrameOf(original) = FirstPage(UBSS_UDATA_SECTION)
  <2> DEFINE original == Mapped(UBSS_UDATA_KERNEL_ORIGINAL_MAP, 0)
  <2>1. l1Table[UBSS_UDATA_KERNEL_ORIGINAL_MAP] = Section(UBSS_UDATA_SECTION, Read, {})
    BY <1>1, WhenRunning DEF Fixed
  <2>2. original = Section(FirstPage(UBSS_UDATA_SECTION) + 0, Read, {})
    BY <2>1, SectionMapped
  <2>3. FirstPage(UBSS_UDATA_SECTION) + 0 = FirstPage(UBSS_UDATA_SECTION)
    BY FrameOfFirst DEF UBSS_UDATA_SECTION
  <2>4. MayAccess("kernel", original) = Read /\ FrameOf(original) = FirstPage(UBSS_UDATA_SECTION)
    BY <2>2, <2>3, SectionWays DEF Way
  <2> QED BY <2>4 DEF Read
<1>2. ASSUME Running, NEW at \in Seen, NEW mode \in Modes,
             "write" \in MayAccess(mode, Mapped(at[1], at[2]))
      PROVE  FrameOf(Mapped(at[1], at[2])) # FirstPage(UBSS_UDATA_SECTION)
  <2>1. at[1] \in Sections /\ at[2] \in PagesToSee(at[1])
    BY SeenParts
  <2>2. Mapped(at[1], at[2]) # Guard
    BY <1>2, GuardAccess DEF Modes
  <2> QED BY <1>2, <2>1, <2>2, WaysToSpecial DEF Modes
<1> QED BY <1>1, <1>2 DEF OriginalPristine

LEMMA SameMemory ==
  ASSUME TablesInv
  PROVE  KernelWritesWhatUsersSee
<1>1. ASSUME Running, NEW pid \in AddressSpaces
      PROVE  LET copy == Mapped(UBSS_UDATA_KERNEL_MAP + pid, 0)
             IN  /\ "write" \in MayAccess("kernel", copy)
                 /\ pid = process => FrameOf(copy) = FrameOf(Mapped(UBSS_UDATA_SECTION, 0))
  <2> DEFINE s == UBSS_UDATA_KERNEL_MAP + pid
             copy == Mapped(s, 0)
  <2>1. s \in KernelData /\ s = DataSection(pid)
    BY Layout DEF AddressSpaces, KernelData, UBSS_UDATA_KERNEL_MAP, UBSS_UDATA_SECTION,
         UBSS_UDATA_KERNEL_ORIGINAL_MAP, DataSection
  <2>2. l1Table[s] = Section(s, ReadWrite, {})
    BY <1>1, <2>1, WhenRunning DEF Fixed
  <2>3. copy = Section(FirstPage(s) + 0, ReadWrite, {})
    BY <2>2, SectionMapped
  <2>4. MayAccess("kernel", copy) = ReadWrite /\ FrameOf(copy) = FirstPage(s) + 0
    BY <2>3, SectionWays DEF Way
  <2>5. ASSUME pid = process
        PROVE  FrameOf(copy) = FrameOf(Mapped(UBSS_UDATA_SECTION, 0))
    <3>1. l1Table[UBSS_UDATA_SECTION] = Section(s, ReadWrite, ReadWrite)
      BY <1>1, <2>1, <2>5, WhenRunning DEF OfProcess, Running
    <3>2. Mapped(UBSS_UDATA_SECTION, 0) = Section(FirstPage(s) + 0, ReadWrite, ReadWrite)
      BY <3>1, SectionMapped
    <3> QED BY <2>4, <3>2, SectionWays DEF Way
  <2> QED BY <2>4, <2>5 DEF ReadWrite
<1>2. ASSUME Running, NEW slot \in Slots, l1Table[SlotSection(slot)].type = "handle",
             NEW page \in Pages \ {0}
      PROVE  LET real == Mapped(USER_STACK_BOTTOM + l1Table[SlotSection(slot)].table, page)
             IN  /\ "write" \in MayAccess("kernel", real)
                 /\ FrameOf(real) = FrameOf(Mapped(SlotSection(slot), page))
  <2> DEFINE stack == slotStack[slot]
             s == USER_STACK_BOTTOM + stack
  <2>1. l1Table[SlotSection(slot)] = Handle(stack) /\ stack \in UserStacks \cup {NoTable}
    BY <1>2, WhenRunning DEF OfProcess, Running
  <2>2. stack \in UserStacks /\ stack \in Stacks
    <3>1. stack # NoTable
      BY <1>2, <2>1 DEF Handle, Guard
    <3> QED BY <2>1, <3>1, Layout DEF UserStacks, Stacks, STACK_COUNT
  <2>3. /\ l1Table[SlotSection(slot)].table = stack
        /\ Mapped(SlotSection(slot), page) = StackPage(stack, page)
    BY <2>1, <2>2, HandleMapped
  <2>4. FrameOf(Mapped(SlotSection(slot), page)) = FirstPage(s) + page
    BY <2>2, <2>3, StackWays DEF Way
  <2>5. s \in KernelData
    BY <2>2, Layout DEF KernelData, UserStacks
  <2>6. l1Table[s] = Section(s, ReadWrite, {})
    BY <1>2, <2>5, WhenRunning DEF Fixed
  <2>7. Mapped(s, page) = Section(FirstPage(s) + page, ReadWrite, {})
    BY <2>6, SectionMapped
  <2>8. MayAccess("kernel", Mapped(s, page)) = ReadWrite /\ FrameOf(Mapped(s, page)) = FirstPage(s) + page
    BY <2>7, SectionWays DEF Way
  <2> QED BY <2>3, <2>4, <2>8 DEF ReadWrite
<1> QED BY <1>1, <1>2 DEF KernelWritesWhatUsersSee

LEMMA Guarded ==
  ASSUME TablesInv
  PROVE  StacksGuarded
<1> SUFFICES ASSUME filled = RangeCount + 1
             PROVE  /\ \A slot \in Slots, mode \in Modes :
                         MayAccess(mode, Mapped(SlotSection(slot), 0)) = {}
                    /\ \A s \in KERNEL_STACK_BOTTOM .. MEMORY_TOP - 1 :
                         /\ \A mode \in Modes : MayAccess(mode, Mapped(s, 0)) = {}
                         /\ \A page \in Pages \ {0} :
                              MayAccess("kernel", Mapped(s, page)) = ReadWrite
                              /\ FrameOf(Mapped(s, page)) = FirstPage(s) + page
  BY DEF StacksGuarded
<1>1. Fixed /\ OfProcess /\ slotStack \in [Slots -> UserStacks \cup {NoTable}]
  BY Starts DEF TablesInv
<1>2. 0 \in Pages
  BY PageNumbers
<1>3. ASSUME NEW slot \in Slots, NEW mode \in Modes
      PROVE  MayAccess(mode, Mapped(SlotSection(slot), 0)) = {}
  <2>1. PICK stack \in UserStacks \cup {NoTable} : l1Table[SlotSection(slot)] = Handle(stack)
    <3>1. SlotSection(slot) \in StackSections /\ 0 \in UserStacks
      BY Layout DEF Slots, SlotSection, StackSections, UserStacks
    <3> QED BY <1>1, <3>1 DEF OfProcess
  <2>2. CASE stack = NoTable
    BY <2>1, <2>2, GuardMapped, GuardAccess DEF Handle, Modes
  <2>3. CASE stack # NoTable
    <3>1. stack \in Stacks
      BY <2>3, Layout DEF UserStacks, Stacks, STACK_COUNT
    <3>2. Mapped(SlotSection(slot), 0) = Guard
      BY <1>2, <2>1, <3>1, HandleMapped, StackWays
    <3> QED BY <3>2, GuardAccess DEF Modes
  <2> QED BY <2>2, <2>3
<1>4. ASSUME NEW s \in KERNEL_STACK_BOTTOM .. MEMORY_TOP - 1
      PROVE  /\ \A mode \in Modes : MayAccess(mode, Mapped(s, 0)) = {}
             /\ \A page \in Pages \ {0} :
                  /\ MayAccess("kernel", Mapped(s, page)) = ReadWrite
                  /\ FrameOf(Mapped(s, page)) = FirstPage(s) + page
  <2>1. s - USER_STACK_BOTTOM \in Stacks /\ USER_STACK_BOTTOM + (s - USER_STACK_BOTTOM) = s
    BY Layout DEF Stacks, STACK_COUNT, MEMORY_TOP
  <2>2. l1Table[s] = Handle(s - USER_STACK_BOTTOM)
    BY <1>1 DEF Fixed
  <2>3. \A page \in Pages : Mapped(s, page) = StackPage(s - USER_STACK_BOTTOM, page)
    BY <2>1, <2>2, HandleMapped
  <2>4. Mapped(s, 0) = Guard
    BY <1>2, <2>1, <2>3, StackWays
  <2>5. \A page \in Pages \ {0} :
          /\ MayAccess("kernel", Mapped(s, page)) = ReadWrite
          /\ FrameOf(Mapped(s, page)) = FirstPage(s) + page
    BY <2>1, <2>3, StackWays DEF Way
  <2> QED BY <2>4, <2>5, GuardAccess DEF Modes
<1> QED BY <1>3, <1>4

(* The entries are of the types that the hardware knows.                   *)
LEMMA SectionTyped ==
  ASSUME NEW base \in Sections
  PROVE  \A kp, up :
           Attributes(kp, up).AP \in 0 .. 7 => Section(base, kp, up) \in L1Entries
<1> SUFFICES ASSUME NEW kp, NEW up, Attributes(kp, up).AP \in 0 .. 7
             PROVE  Section(base, kp, up) \in L1Sections
  BY DEF L1Entries
<1>1. Attributes(kp, up).XN \in BOOLEAN
  BY Zenon DEF Attributes
<1>2. ("exec" \notin kp /\ "exec" \in up) \in BOOLEAN
  OBVIOUS
<1> QED BY <1>1, <1>2 DEF Section, L1Sections

LEMMA HandleTyped ==
  ASSUME NEW table \in Stacks \cup {NoTable}
  PROVE  Handle(table) \in L1Entries
BY DEF Handle, L1Entries, Handles, Faults, Guard

LEMMA PermissionsTyped ==
  /\ Attributes(ReadExec, {}).AP \in 0 .. 7 /\ Attributes(Read, {}).AP \in 0 .. 7
  /\ Attributes(ReadWrite, {}).AP \in 0 .. 7 /\ Attributes(ReadWrite, ReadExec).AP \in 0 .. 7
  /\ Attributes(Read, Read).AP \in 0 .. 7 /\ Attributes(ReadWrite, ReadWrite).AP \in 0 .. 7
BY PermissionBits

LEMMA StackPageTyped ==
  ASSUME NEW stack \in Stacks, NEW page \in Pages
  PROVE  StackPage(stack, page) \in L2Entries
<1> DEFINE L == L2_STACK_TABLE_SIZE
           b == USER_STACK_BOTTOM + stack
           up == IF stack \in UserStacks THEN ReadWrite ELSE {}
<1>1. b \in Nat /\ b <= 127 /\ L \in Nat /\ page \in 0 .. L - 1
  BY Layout DEF Stacks, STACK_COUNT, Pages
<1> HIDE DEF L, b
<1>2. b * L \in Nat /\ b * L <= 127 * L
  BY <1>1
<1>3. b * L + page \in 0 .. 128 * L - 1
  BY <1>1, <1>2
<1>4. Attributes(ReadWrite, up).AP \in 0 .. 7 /\ Attributes(ReadWrite, up).XN = TRUE
  BY PermissionBits
<1>5. SmallPage(b * L + page, ReadWrite, up) \in L2SmallPages
  BY <1>3, <1>4 DEF SmallPage, L2SmallPages, MEMORY_TOP, L
<1> QED BY <1>5 DEF StackPage, L2Entries, Guard, Faults, b, L

LEMMA TablesTyped ==
  ASSUME TablesInv
  PROVE  TypeOK
<1>1. ASSUME NEW s \in Sections
      PROVE  l1Table[s] \in L1Entries
  <2> USE PermissionsTyped
  <2>1. Guard \in L1Entries
    BY DEF Guard, L1Entries, Faults
  <2>2. CASE filled <= RangeCount
    <3>1. \/ l1Table[s] = Guard
          \/ \E r \in 1 .. 15 : InRange(s, r) /\ l1Table[s] = RangeEntry(r, s)
      BY <2>2, Starts DEF TablesInv, BeingFilled
    <3>2. ASSUME NEW r \in 1 .. 15, InRange(s, r)
          PROVE  RangeEntry(r, s) \in L1Entries
      <4>1. s \in Nat
        BY Layout DEF Sections
      <4>2. r # 12
        BY <3>2, <4>1, Ranges
      <4>3. r \in {13, 15} => StackTableAt(s) \in Stacks
        BY <3>2, <4>1, Ranges, Layout DEF StackTableAt, Stacks, STACK_COUNT, StackSections
      <4>4. r = 9 => RangeEntry(r, s) = Section(s, Read, {})
        BY DEF RangeEntry
      <4> QED BY <2>1, <4>2, <4>3, <4>4, Entries, SectionTyped, HandleTyped
    <3> QED BY <2>1, <3>1, <3>2
  <2>3. CASE filled = RangeCount + 1
    <3>1. Fixed /\ OfProcess /\ process \in AddressSpaces \cup {-1}
          /\ slotStack \in [Slots -> UserStacks \cup {NoTable}]
      BY <2>3 DEF TablesInv
    <3>2. CASE s \in KernelData
      BY <3>1, <3>2, SectionTyped DEF Fixed
    <3>3. CASE s \in Unassigned
      BY <2>1, <3>1, <3>3 DEF Fixed
    <3>4. CASE s \in KERNEL_STACK_BOTTOM .. MEMORY_TOP - 1
      <4>1. s - USER_STACK_BOTTOM \in Stacks
        BY <3>4, Layout DEF Stacks, STACK_COUNT, MEMORY_TOP
      <4> QED BY <3>1, <3>4, <4>1, HandleTyped DEF Fixed
    <3>5. CASE s \in StackSections
      <4>1. \E table \in UserStacks \cup {NoTable} : l1Table[s] = Handle(table)
        <5>1. 0 \in UserStacks
          BY Layout DEF UserStacks
        <5> QED BY <3>1, <3>5, <5>1 DEF OfProcess
      <4>2. UserStacks \subseteq Stacks
        BY Layout DEF UserStacks, Stacks, STACK_COUNT
      <4> QED BY <4>1, <4>2, HandleTyped
    <3>6. CASE s \in {INIT_TEXT_SECTION, RODATA_SECTION, UTEXT_SECTION, URODATA_SECTION,
                      UBSS_UDATA_KERNEL_ORIGINAL_MAP}
      <4>1. UBSS_UDATA_SECTION \in Sections
        BY Layout DEF UBSS_UDATA_SECTION, Sections
      <4> QED BY <3>1, <3>6, <4>1, SectionTyped DEF Fixed
    <3>7. CASE s = UBSS_UDATA_SECTION
      <4>1. process # -1 => DataSection(process) \in Sections
        BY <3>1, Layout DEF DataSection, AddressSpaces, UBSS_UDATA_SECTION, Sections
      <4> QED BY <3>1, <3>7, <4>1, SectionTyped DEF OfProcess
    <3> QED BY <3>2, <3>3, <3>4, <3>5, <3>6, <3>7, SectionsOfMap
  <2> QED BY <2>2, <2>3, Starts DEF TablesInv
<1> QED BY <1>1, StackPageTyped DEF TypeOK, TablesInv

-----------------------------------------------------------------------------
(* Part 5: the theorems.                                                   *)

(* The invariant of the tables holds in every state, with the modes around.*)
LEMMA TablesInductive == FaultsSpec => []TablesInv
<1>1. FaultsInit => TablesInv
  BY TablesStart DEF FaultsInit
<1>2. TablesInv /\ [FaultsNext]_allVars => TablesInv'
  <2> SUFFICES ASSUME TablesInv, [FaultsNext]_allVars
               PROVE  TablesInv'
    OBVIOUS
  <2>1. [Next]_vars
    BY DEF FaultsNext, allVars, tableVars, vars
  <2> QED BY <2>1, TablesStep
<1> QED BY <1>1, <1>2, PTL DEF FaultsSpec

(***************************************************************************)
(* Whatever process is mapped, user code gets nowhere but to its text, its *)
(* constants, the data of the process and the stacks in its slots, above   *)
(* their guard pages.  memory_map.h keeps four sections for the slots, by  *)
(* a number of its own: with fewer slots a section without one would name  *)
(* the first user stack, so the theorem needs the four of scheduler.h.     *)
(***************************************************************************)
THEOREM UserCodeStaysConfined ==
  ASSUME THREADS_PER_ADDRESS_SPACE = 4
  PROVE  FaultsSpec => []UserMemoryConfined
<1>1. TablesInv => UserMemoryConfined
  BY UserCodeConfined DEF UserMemoryConfined
<1> QED BY <1>1, TablesInductive, PTL

(***************************************************************************)
(* What is executed in either mode can not be written to in that mode, nor *)
(* by user code, through any of the mappings that lead to it; the data new *)
(* processes start with are written through none.                          *)
(***************************************************************************)
THEOREM CodeStaysProtected == FaultsSpec => []WriteProtected
<1>1. TablesInv => WriteProtected
  BY Protected, Pristine DEF WriteProtected
<1> QED BY <1>1, TablesInductive, PTL

(***************************************************************************)
(* The data scheduler_create_process fills and the arguments written on a  *)
(* new stack by the kernel lie where the process looks for them.           *)
(***************************************************************************)
THEOREM MappingsMeet == FaultsSpec => []SameMemorySeen
<1>1. TablesInv => SameMemorySeen
  BY SameMemory DEF SameMemorySeen
<1> QED BY <1>1, TablesInductive, PTL

(***************************************************************************)
(* Every stack of every mode ends at a page nobody can access, and every   *)
(* other page of a kernel stack is the kernel's to read and to write.      *)
(***************************************************************************)
THEOREM StacksStayGuarded == FaultsSpec => []GuardPagesHold
<1>1. TablesInv => GuardPagesHold
  BY Guarded DEF GuardPagesHold
<1> QED BY <1>1, TablesInductive, PTL

-----------------------------------------------------------------------------
(* Part 6: the inductive invariant.                                        *)

EarlyBoot == {"exit hyper", "stacks"}
LateBoot == {"timer", "halt", "left"}
BootSteps == EarlyBoot \cup LateBoot \cup {"vectors", "uart", "mmu", "scheduler", "interrupts"}

(* What start-up has done, and what a thread that is not finished has in   *)
(* its control block.                                                      *)
BootInv ==
  /\ boot \in BootSteps
  /\ exception # "none" => boot \notin EarlyBoot
  /\ boot \notin EarlyBoot => stacks = Modal!BankedModes \cup {"system"}
  /\ boot \in LateBoot \cup {"interrupts"} => cpsr[Idle] = Modal!SystemPSR
  /\ boot = "left" <=> running # None
  /\ ~psr.masked => boot \in LateBoot
  /\ \A t \in UserThreads : place[t] # "finished" => cpsr[t] = Modal!UserPSR

(* p is the status with which the running thread, or start-up, runs.       *)
Own(p) ==
  /\ running \in UserThreads => p = Modal!UserPSR
  /\ running = Idle => p = Modal!SystemPSR
  /\ running = None => p.mode \in Modal!Modes \ {"user"}
  /\ ~p.masked => boot \in LateBoot

(* A fault of the kernel itself.                                           *)
KernelsOwn == exception \in Modal!Faults /\ origin # "user"

(* Between exceptions the status is the thread's own; in a handler the     *)
(* saved one is, unless the kernel made the fault, and then the handler    *)
(* never comes to its return.                                              *)
HandlerInv ==
  ~halted =>
    IF exception = "none"
    THEN Own(psr) /\ origin = "none" /\ phase = "none"
    ELSE /\ exception = "irq" => boot \in LateBoot
         /\ psr = Modal!PSR(Modal!ModeOf(exception), TRUE)
         /\ exception \in {"call", "unknown call"} => origin = "user"
         /\ phase \in {"entered", "dumped", "stall served"} => spsr[psr.mode].mode = origin
         /\ KernelsOwn => phase \in {"entered", "dumped"}
         /\ ~KernelsOwn => Own(spsr[psr.mode])

(* Every saved mode has a name, which the dump of the registers needs.     *)
SavedNamed ==
  /\ \A m \in Modal!BankedModes : spsr[m].mode \in Modal!ModeNames
  /\ psr.mode = "hypervisor" => boot = "exit hyper"

ModalInv == Modal!ExceptionsTypeOK /\ BootInv /\ HandlerInv /\ SavedNamed

-----------------------------------------------------------------------------
(* Part 7: what the actions do to the state of the threads.                *)

LEMMA Distinct ==
  Idle \notin UserThreads /\ None \notin UserThreads /\ Idle # None
BY ModalAssumption DEF Modal!ModalConstants

(* The registers that occur.                                               *)
LEMMA Registers ==
  /\ \A m \in Modal!ModeNames \cup Modal!Modes : \A b \in BOOLEAN :
       Modal!PSR(m, b) \in Modal!PSRs /\ Modal!PSR(m, b).mode = m /\ Modal!PSR(m, b).masked = b
  /\ Modal!UserPSR \in Modal!PSRs /\ Modal!UserPSR.mode = "user" /\ ~Modal!UserPSR.masked
  /\ Modal!SystemPSR \in Modal!PSRs /\ Modal!SystemPSR.mode = "system" /\ ~Modal!SystemPSR.masked
  /\ Modal!NotInitialized \in Modal!PSRs /\ Modal!NotInitialized.mode = "not initialized"
BY DEF Modal!PSR, Modal!PSRs, Modal!UserPSR, Modal!SystemPSR, Modal!NotInitialized,
       Modal!Modes, Modal!ModeNames, Modal!BankedModes

LEMMA ModalStart == Modal!Init => ModalInv
<1> SUFFICES ASSUME Modal!Init PROVE ModalInv
  OBVIOUS
<1> USE DEF Modal!Init, Modal!PSR, Modal!NotInitialized
<1>1. psr.masked = TRUE /\ psr.mode \in {"supervisor", "hypervisor"}
  OBVIOUS
<1>2. BootInv
  BY <1>1, Distinct DEF BootInv, EarlyBoot, LateBoot, BootSteps
<1>3. HandlerInv
  BY <1>1, Distinct DEF HandlerInv, Own, Modal!Modes, Modal!BankedModes
<1>4. SavedNamed
  BY <1>1 DEF SavedNamed, Modal!BankedModes, Modal!ModeNames
<1>5. Modal!ExceptionsTypeOK
  <2>1. psr \in Modal!PSRs
    BY DEF Modal!PSRs, Modal!Modes, Modal!BankedModes
  <2> HIDE DEF Modal!PSR, Modal!NotInitialized
  <2>2. spsr \in [Modal!BankedModes -> Modal!PSRs] /\ cpsr \in [Modal!Threads -> Modal!PSRs]
    BY Registers
  <2>3. place \in [UserThreads -> Modal!Places] /\ \A t \in UserThreads : place[t] = "runs" <=> running = t
    BY Distinct DEF Modal!Places
  <2>4. /\ stacks \subseteq Modal!Modes /\ running \in Modal!Threads \cup {None}
        /\ exception \in Modal!Faults \cup {"none", "call", "unknown call", "irq"}
        /\ origin \in Modal!Modes \cup {"none"} /\ phase \in Modal!Phases
    <3>1. stacks \subseteq Modal!Modes /\ running \in Modal!Threads \cup {None}
      BY Zenon
    <3>2. exception \in Modal!Faults \cup {"none", "call", "unknown call", "irq"}
      BY Zenon
    <3>3. origin \in Modal!Modes \cup {"none"}
      BY Zenon
    <3>4. phase \in Modal!Phases
      BY DEF Modal!Phases
    <3> QED BY <3>1, <3>2, <3>3, <3>4
  <2>7. status \in 0 .. 31
    <3>1. status = 0
      OBVIOUS
    <3> HIDE DEF Modal!Init
    <3> QED BY <3>1
  <2>5. timer \in {"unset", "armed", "pending"} /\ irqs \subseteq {"stall", "uart"}
    OBVIOUS
  <2>6. halted \in BOOLEAN
    OBVIOUS
  <2> HIDE DEF Modal!Init
  <2> QED BY <2>1, <2>2, <2>3, <2>4, <2>5, <2>6, <2>7, Zenon DEF Modal!ExceptionsTypeOK
<1> QED BY <1>2, <1>3, <1>4, <1>5 DEF ModalInv

(* The threads' own part of the invariant.                                 *)
ThreadsOK ==
  /\ place \in [UserThreads -> Modal!Places]
  /\ cpsr \in [Modal!Threads -> Modal!PSRs]
  /\ running \in Modal!Threads \cup {None}
  /\ \A t \in UserThreads : place[t] = "runs" <=> running = t
  /\ \A t \in UserThreads : place[t] # "finished" => cpsr[t] = Modal!UserPSR

(* A switch of threads: the status the new thread runs with is saved where *)
(* the handler will return from.                                           *)
Switched(next) ==
  /\ running' = next /\ boot' = "left"
  /\ spsr' = [spsr EXCEPT ![psr.mode] = IF next = Idle THEN Modal!SystemPSR ELSE Modal!UserPSR]

NotSwitched == UNCHANGED <<boot, running, spsr>>

LEMMA InvThreads ==
  ASSUME ModalInv
  PROVE  /\ ThreadsOK
         /\ psr \in Modal!PSRs /\ spsr \in [Modal!BankedModes -> Modal!PSRs]
         /\ BootInv /\ HandlerInv /\ SavedNamed
BY DEF ModalInv, Modal!ExceptionsTypeOK, ThreadsOK, BootInv

(* SwitchTo, with the places of the threads as they are just before it.    *)
LEMMA SwitchToNext ==
  ASSUME ThreadsOK, NEW places \in [UserThreads -> Modal!Places], NEW next \in Modal!Threads,
         \A t \in UserThreads : places[t] # "runs",
         \A t \in UserThreads : places[t] # "finished" => cpsr[t] = Modal!UserPSR,
         next \in UserThreads => places[next] = "ready",
         next = Idle => cpsr[Idle] = Modal!SystemPSR,
         Modal!SwitchTo(places, next), cpsr' = cpsr
  PROVE  /\ ThreadsOK' /\ Switched(next)
         /\ \A t \in UserThreads : place'[t] = "finished" <=> places[t] = "finished"
<1>1. /\ running' = next /\ boot' = "left"
      /\ place' = IF next = Idle THEN places ELSE [places EXCEPT ![next] = "runs"]
      /\ spsr' = [spsr EXCEPT ![psr.mode] = cpsr[next]]
  BY DEF Modal!SwitchTo
<1>2. cpsr[next] = IF next = Idle THEN Modal!SystemPSR ELSE Modal!UserPSR
  BY DEF Modal!Threads
<1>3. CASE next = Idle
  <2>1. ThreadsOK'
    BY <1>1, <1>3, Distinct DEF ThreadsOK
  <2> QED BY <1>1, <1>2, <1>3, <2>1 DEF Switched
<1>4. CASE next # Idle
  <2>1. next \in UserThreads
    BY <1>4 DEF Modal!Threads
  <2>2. /\ place' \in [UserThreads -> Modal!Places] /\ place'[next] = "runs"
        /\ \A t \in UserThreads : t # next => place'[t] = places[t]
    BY <1>1, <1>4, <2>1 DEF Modal!Places
  <2>3. ThreadsOK'
    BY <1>1, <2>1, <2>2 DEF ThreadsOK
  <2>4. \A t \in UserThreads : place'[t] = "finished" <=> places[t] = "finished"
    BY <2>1, <2>2
  <2> QED BY <1>1, <1>2, <2>3, <2>4 DEF Switched
<1> QED BY <1>3, <1>4

(* In a handler that a program entered, a user thread runs.                *)
LEMMA CallerRuns ==
  ASSUME ModalInv, ~halted, exception # "none", origin = "user",
         phase \in {"entered", "dumped"}
  PROVE  /\ running \in UserThreads /\ place[running] = "runs"
         /\ boot = "left" /\ cpsr[Idle] = Modal!SystemPSR
         /\ \A t \in UserThreads : t # running => place[t] # "runs"
<1>1. ThreadsOK /\ BootInv /\ HandlerInv
  BY InvThreads
<1>2. Own(spsr[psr.mode]) /\ spsr[psr.mode].mode = "user"
  BY <1>1 DEF HandlerInv, KernelsOwn
<1>3. running # None /\ running # Idle
  BY <1>2, Registers DEF Own
<1>4. running \in UserThreads
  BY <1>1, <1>3 DEF ThreadsOK, Modal!Threads
<1> QED BY <1>1, <1>3, <1>4 DEF ThreadsOK, BootInv, LateBoot

(* The caller leaves for the place "left" and another thread is chosen.    *)
LEMMA LeaveFor ==
  ASSUME ModalInv, running \in UserThreads, NEW left \in {"finished", "ready", "waits"}
  PROVE  LET places == [place EXCEPT ![running] = left]
         IN  /\ places \in [UserThreads -> Modal!Places]
             /\ places[running] = left
             /\ \A t \in UserThreads : places[t] # "runs"
             /\ \A t \in UserThreads : places[t] # "finished" => cpsr[t] = Modal!UserPSR
             /\ \A t \in UserThreads : t # running => places[t] = place[t]
<1>1. ThreadsOK
  BY InvThreads
<1>2. place[running] = "runs"
  BY <1>1 DEF ThreadsOK
<1> QED BY <1>1, <1>2 DEF ThreadsOK, Modal!Places

LEMMA EndThreadStep ==
  ASSUME ModalInv, running \in UserThreads, cpsr[Idle] = Modal!SystemPSR, Modal!EndThread
  PROVE  /\ ThreadsOK' /\ cpsr' = cpsr /\ \E next \in Modal!Threads : Switched(next)
         /\ place'[running] = "finished"
         /\ \A t \in UserThreads : t # running /\ place[t] # "finished" => place'[t] # "finished"
<1> DEFINE places == [place EXCEPT ![running] = "finished"]
<1>1. /\ places \in [UserThreads -> Modal!Places] /\ places[running] = "finished"
      /\ \A t \in UserThreads : places[t] # "runs"
      /\ \A t \in UserThreads : places[t] # "finished" => cpsr[t] = Modal!UserPSR
      /\ \A t \in UserThreads : t # running => places[t] = place[t]
  BY LeaveFor
<1>2. Modal!Reschedule(places) /\ cpsr' = cpsr
  BY DEF Modal!EndThread
<1> HIDE DEF places
<1>3. PICK next \in Modal!Threads :
        /\ Modal!SwitchTo(places, next)
        /\ next \in UserThreads => places[next] = "ready"
  <2>1. CASE Modal!Ready(places) = {}
    BY <1>2, <2>1, Distinct DEF Modal!Reschedule, Modal!Threads
  <2>2. CASE Modal!Ready(places) # {}
    BY <1>2, <2>2 DEF Modal!Reschedule, Modal!Ready, Modal!Threads
  <2> QED BY <2>1, <2>2
<1>4. ThreadsOK
  BY InvThreads
<1>5. /\ ThreadsOK' /\ Switched(next)
      /\ \A t \in UserThreads : place'[t] = "finished" <=> places[t] = "finished"
  BY <1>1, <1>2, <1>3, <1>4, SwitchToNext
<1> QED BY <1>1, <1>2, <1>5

LEMMA GiveWayStep ==
  ASSUME ModalInv, running \in UserThreads, cpsr[Idle] = Modal!SystemPSR, Modal!GiveWay
  PROVE  /\ ThreadsOK' /\ cpsr' = cpsr /\ \E next \in Modal!Threads : Switched(next)
         /\ \A t \in UserThreads : place[t] # "finished" => place'[t] # "finished"
<1>1. PICK next \in (IF Modal!Ready(place) = {} THEN {Idle} ELSE Modal!Ready(place)),
           left \in {"ready", "waits"} :
        Modal!SwitchTo([place EXCEPT ![running] = left], next)
  BY DEF Modal!GiveWay
<1> DEFINE places == [place EXCEPT ![running] = left]
<1>2. /\ places \in [UserThreads -> Modal!Places] /\ places[running] = left
      /\ \A t \in UserThreads : places[t] # "runs"
      /\ \A t \in UserThreads : places[t] # "finished" => cpsr[t] = Modal!UserPSR
      /\ \A t \in UserThreads : t # running => places[t] = place[t]
  BY LeaveFor
<1>3. Modal!SwitchTo(places, next) /\ cpsr' = cpsr
  BY <1>1 DEF Modal!GiveWay
<1>4. ThreadsOK /\ place[running] = "runs"
  BY InvThreads DEF ThreadsOK
<1> HIDE DEF places
<1>5. next \in Modal!Threads /\ (next \in UserThreads => places[next] = "ready")
  <2>1. CASE next = Idle
    BY <2>1, Distinct DEF Modal!Threads
  <2>2. CASE next \in Modal!Ready(place)
    BY <1>2, <1>4, <2>2 DEF Modal!Ready, Modal!Threads
  <2> QED BY <2>1, <2>2
<1>6. /\ ThreadsOK' /\ Switched(next)
      /\ \A t \in UserThreads : place'[t] = "finished" <=> places[t] = "finished"
  BY <1>2, <1>3, <1>4, <1>5, SwitchToNext
<1> QED BY <1>2, <1>3, <1>5, <1>6

LEMMA CreateThreadStep ==
  ASSUME ModalInv, Modal!CreateThread
  PROVE  /\ ThreadsOK' /\ NotSwitched /\ cpsr'[Idle] = cpsr[Idle]
         /\ \A t \in UserThreads : place[t] # "finished" => place'[t] # "finished"
<1>1. PICK new \in UserThreads : /\ place[new] = "finished"
                               /\ place' = [place EXCEPT ![new] = "ready"]
                               /\ cpsr' = [cpsr EXCEPT ![new] = Modal!UserPSR]
  BY DEF Modal!CreateThread
<1>2. ThreadsOK
  BY InvThreads
<1>3. place' \in [UserThreads -> Modal!Places] /\ cpsr' \in [Modal!Threads -> Modal!PSRs]
  BY <1>1, <1>2, Registers DEF ThreadsOK, Modal!Places
<1>4. UNCHANGED <<boot, running, spsr>>
  BY DEF Modal!CreateThread
<1>5. /\ \A t \in UserThreads : place'[t] = IF t = new THEN "ready" ELSE place[t]
      /\ \A t \in Modal!Threads : cpsr'[t] = IF t = new THEN Modal!UserPSR ELSE cpsr[t]
  BY <1>1, <1>2 DEF ThreadsOK
<1>6. ThreadsOK'
  BY <1>1, <1>2, <1>3, <1>4, <1>5 DEF ThreadsOK, Modal!Threads
<1>7. cpsr'[Idle] = cpsr[Idle]
  BY <1>5, Distinct DEF Modal!Threads
<1> QED BY <1>4, <1>5, <1>6, <1>7 DEF NotSwitched

(* Waking a thread ends none and runs none.                                *)
LEMMA WokenStep ==
  ASSUME ModalInv, NEW device, place' \in Modal!Woken(device, place), UNCHANGED <<running, cpsr>>
  PROVE  /\ ThreadsOK'
         /\ \A t \in UserThreads : place[t] # "finished" => place'[t] # "finished"
<1>1. PICK woken \in SUBSET {t \in UserThreads : device \in irqs /\ place[t] = "waits"} :
        place' = [t \in UserThreads |-> IF t \in woken THEN "ready" ELSE place[t]]
  BY DEF Modal!Woken
<1>2. \A t \in woken : place[t] = "waits"
  OBVIOUS
<1>3. ThreadsOK
  BY InvThreads
<1> QED BY <1>1, <1>2, <1>3 DEF ThreadsOK, Modal!Places

LEMMA ServeTimerStep ==
  ASSUME ModalInv, Modal!ServeTimer(place), cpsr' = cpsr
  PROVE  /\ ThreadsOK' /\ (NotSwitched \/ \E next \in UserThreads : Switched(next))
         /\ \A t \in UserThreads : place[t] # "finished" => place'[t] # "finished"
<1>0. ThreadsOK
  BY InvThreads
<1>1. CASE timer = "pending" /\ (running = None \/ Modal!Ready(place) # {})
  <2> DEFINE places == [t \in UserThreads |-> IF t = running THEN "ready" ELSE place[t]]
  <2>1. PICK next \in Modal!Ready(place) : Modal!SwitchTo(places, next)
    BY <1>1 DEF Modal!ServeTimer
  <2>2. next \in UserThreads /\ next \in Modal!Threads /\ next # Idle /\ places[next] = "ready"
    BY Distinct DEF Modal!Ready, Modal!Threads
  <2>3. /\ places \in [UserThreads -> Modal!Places]
        /\ \A t \in UserThreads : places[t] # "runs"
        /\ \A t \in UserThreads : places[t] # "finished" => cpsr[t] = Modal!UserPSR
        /\ \A t \in UserThreads : place[t] # "finished" => places[t] # "finished"
    BY <1>0 DEF ThreadsOK, Modal!Places
  <2> HIDE DEF places
  <2>4. /\ ThreadsOK' /\ Switched(next)
        /\ \A t \in UserThreads : place'[t] = "finished" <=> places[t] = "finished"
    BY <1>0, <2>1, <2>2, <2>3, SwitchToNext
  <2> QED BY <2>2, <2>3, <2>4
<1>2. CASE ~(timer = "pending" /\ (running = None \/ Modal!Ready(place) # {}))
  <2>1. place' = place /\ UNCHANGED <<boot, running, spsr>>
    BY <1>2 DEF Modal!ServeTimer
  <2>2. ThreadsOK'
    BY <1>0, <2>1 DEF ThreadsOK
  <2> QED BY <2>1, <2>2 DEF NotSwitched
<1> QED BY <1>1, <1>2

-----------------------------------------------------------------------------
(* Part 8: every step keeps the invariant.                                 *)

(* What is left of the type invariant.                                     *)
RegistersOK ==
  /\ psr \in Modal!PSRs /\ spsr \in [Modal!BankedModes -> Modal!PSRs]
  /\ stacks \subseteq Modal!Modes
  /\ exception \in Modal!Faults \cup {"none", "call", "unknown call", "irq"}
  /\ origin \in Modal!Modes \cup {"none"}
  /\ phase \in Modal!Phases /\ status \in 0 .. 31

DevicesOK ==
  /\ timer \in {"unset", "armed", "pending"} /\ irqs \subseteq {"stall", "uart"}
  /\ halted \in BOOLEAN

BootOK ==
  /\ boot \in BootSteps
  /\ exception # "none" => boot \notin EarlyBoot
  /\ boot \notin EarlyBoot => stacks = Modal!BankedModes \cup {"system"}
  /\ boot \in LateBoot \cup {"interrupts"} => cpsr[Idle] = Modal!SystemPSR
  /\ boot = "left" <=> running # None
  /\ ~psr.masked => boot \in LateBoot

LEMMA InvParts ==
  ModalInv <=> ThreadsOK /\ RegistersOK /\ DevicesOK /\ BootOK /\ HandlerInv /\ SavedNamed
BY Zenon DEF ModalInv, Modal!ExceptionsTypeOK, ThreadsOK, RegistersOK, DevicesOK, BootOK, BootInv

LEMMA InvPartsNext ==
  ThreadsOK' /\ RegistersOK' /\ DevicesOK' /\ BootOK' /\ HandlerInv' /\ SavedNamed' => ModalInv'
BY Zenon DEF ModalInv, Modal!ExceptionsTypeOK, ThreadsOK, RegistersOK, DevicesOK, BootOK, BootInv

LEMMA BootKeeps ==
  ASSUME ModalInv, Modal!Boot
  PROVE  ModalInv'
<1>1. ThreadsOK /\ RegistersOK /\ DevicesOK /\ BootOK /\ HandlerInv /\ SavedNamed
  BY InvParts
<1>2. /\ ~halted /\ exception = "none"
      /\ UNCHANGED <<spsr, running, exception, origin, phase, status, irqs, halted>>
  BY Zenon DEF Modal!Boot, Modal!ExitHyper, Modal!SetStacks, Modal!SetVectors, Modal!SetupUart,
         Modal!ConfigureMMU, Modal!InitialiseScheduler, Modal!EnableInterrupts,
         Modal!ResetTimer, Modal!Start, Modal!exceptionVars
<1>3. Own(psr) /\ origin = "none" /\ phase = "none"
  BY <1>1, <1>2 DEF HandlerInv
<1>4. boot # "left" /\ running = None
  <2>1. boot # "left"
    BY Zenon DEF Modal!Boot, Modal!ExitHyper, Modal!SetStacks, Modal!SetVectors, Modal!SetupUart,
           Modal!ConfigureMMU, Modal!InitialiseScheduler, Modal!EnableInterrupts,
           Modal!ResetTimer, Modal!Start
  <2> QED BY <1>1, <2>1 DEF BootOK
<1> DEFINE Done ==
      /\ psr' \in Modal!PSRs /\ psr'.mode \in Modal!Modes \ {"user"}
      /\ ~psr'.masked => boot' \in LateBoot
      /\ psr'.mode = "hypervisor" => boot' = "exit hyper"
      /\ boot' \in BootSteps \ {"left"}
      /\ stacks' \subseteq Modal!Modes
      /\ boot' \notin EarlyBoot => stacks' = Modal!BankedModes \cup {"system"}
      /\ boot' \in LateBoot \cup {"interrupts"} => cpsr'[Idle] = Modal!SystemPSR
      /\ ThreadsOK'
      /\ timer' \in {"unset", "armed", "pending"}
<1>5. psr \in Modal!PSRs /\ psr.mode \in Modal!Modes \ {"user"}
  BY <1>1, <1>3, <1>4 DEF RegistersOK, Own
<1>6. ASSUME Modal!ExitHyper
      PROVE  Done
  <2>1. /\ boot = "exit hyper" /\ boot' = "stacks" /\ psr' = [psr EXCEPT !.mode = "supervisor"]
        /\ UNCHANGED <<stacks, cpsr, place, timer>>
    BY <1>6 DEF Modal!ExitHyper, Modal!Start
  <2>2. psr' \in Modal!PSRs /\ psr'.mode = "supervisor" /\ psr'.masked = psr.masked
    BY <1>5, <2>1 DEF Modal!PSRs, Modal!ModeNames
  <2>2a. psr'.mode \in Modal!Modes \ {"user"}
    BY <2>2 DEF Modal!Modes, Modal!BankedModes
  <2>3. psr.masked
    BY <1>1, <2>1 DEF BootOK, LateBoot
  <2>4. ThreadsOK'
    BY <1>1, <1>2, <2>1 DEF ThreadsOK
  <2> QED BY <1>1, <2>1, <2>2, <2>2a, <2>3, <2>4 DEF BootSteps, EarlyBoot, LateBoot, RegistersOK, DevicesOK
<1>7. ASSUME Modal!SetStacks
      PROVE  Done
  <2>1. /\ boot = "stacks" /\ boot' = "vectors" /\ psr' = [psr EXCEPT !.mode = "system"]
        /\ stacks' = {"IRQ", "supervisor", "abort", "undefined", "system"}
        /\ UNCHANGED <<cpsr, place, timer>>
    BY <1>7 DEF Modal!SetStacks, Modal!Start
  <2>2. psr' \in Modal!PSRs /\ psr'.mode = "system" /\ psr'.masked = psr.masked
    BY <1>5, <2>1 DEF Modal!PSRs, Modal!ModeNames
  <2>2a. psr'.mode \in Modal!Modes \ {"user"}
    BY <2>2 DEF Modal!Modes, Modal!BankedModes
  <2>3. psr.masked
    BY <1>1, <2>1 DEF BootOK, LateBoot
  <2>4. ThreadsOK'
    BY <1>1, <1>2, <2>1 DEF ThreadsOK
  <2>5. stacks' = Modal!BankedModes \cup {"system"} /\ stacks' \subseteq Modal!Modes
    BY <2>1 DEF Modal!BankedModes, Modal!Modes
  <2> QED BY <1>1, <2>1, <2>2, <2>2a, <2>3, <2>4, <2>5 DEF BootSteps, EarlyBoot, LateBoot, DevicesOK
<1>8. ASSUME Modal!SetVectors \/ Modal!SetupUart \/ Modal!ConfigureMMU
      PROVE  Done
  <2>1. /\ boot \in {"vectors", "uart", "mmu"} /\ boot' \in {"uart", "mmu", "scheduler"}
        /\ UNCHANGED <<stacks, psr, cpsr, place, timer>>
    BY <1>8 DEF Modal!SetVectors, Modal!SetupUart, Modal!ConfigureMMU, Modal!Start
  <2>2. psr.masked /\ psr.mode # "hypervisor"
    BY <1>1, <2>1 DEF BootOK, LateBoot, SavedNamed
  <2>3. ThreadsOK'
    BY <1>1, <1>2, <2>1 DEF ThreadsOK
  <2> QED BY <1>1, <1>5, <2>1, <2>2, <2>3
          DEF BootOK, BootSteps, EarlyBoot, LateBoot, RegistersOK, DevicesOK
<1>9. ASSUME Modal!InitialiseScheduler
      PROVE  Done
  <2>1. PICK first \in UserThreads :
          /\ place' = [place EXCEPT ![first] = "ready"]
          /\ cpsr' = [cpsr EXCEPT ![Idle] = Modal!SystemPSR, ![first] = Modal!UserPSR]
    BY <1>9 DEF Modal!InitialiseScheduler
  <2>2. boot = "scheduler" /\ boot' = "interrupts" /\ UNCHANGED <<stacks, psr, timer>>
    BY <1>9 DEF Modal!InitialiseScheduler, Modal!Start
  <2>3. psr.masked /\ psr.mode # "hypervisor"
    BY <1>1, <2>2 DEF BootOK, LateBoot, SavedNamed
  <2>4. /\ cpsr' \in [Modal!Threads -> Modal!PSRs]
        /\ \A t \in UserThreads : cpsr'[t] = IF t = first THEN Modal!UserPSR ELSE cpsr[t]
        /\ cpsr'[Idle] = Modal!SystemPSR
    BY <1>1, <2>1, Registers, Distinct DEF ThreadsOK, Modal!Threads
  <2>5. /\ place' \in [UserThreads -> Modal!Places]
        /\ \A t \in UserThreads : place'[t] = IF t = first THEN "ready" ELSE place[t]
    BY <1>1, <2>1 DEF ThreadsOK, Modal!Places
  <2>6. ThreadsOK'
    BY <1>1, <1>2, <1>4, <2>4, <2>5, Distinct DEF ThreadsOK
  <2> QED BY <1>1, <1>5, <2>2, <2>3, <2>4, <2>6
          DEF BootOK, BootSteps, EarlyBoot, LateBoot, RegistersOK, DevicesOK
<1>10. ASSUME Modal!EnableInterrupts
      PROVE  Done
  <2>1. /\ boot = "interrupts" /\ boot' = "timer" /\ psr' = [psr EXCEPT !.masked = FALSE]
        /\ UNCHANGED <<stacks, cpsr, place, timer>>
    BY <1>10 DEF Modal!EnableInterrupts, Modal!Start
  <2>2. psr' \in Modal!PSRs /\ psr'.mode = psr.mode /\ psr.mode # "hypervisor"
    BY <1>1, <1>5, <2>1 DEF Modal!PSRs, SavedNamed
  <2>3. ThreadsOK'
    BY <1>1, <1>2, <2>1 DEF ThreadsOK
  <2> QED BY <1>1, <1>5, <2>1, <2>2, <2>3
          DEF BootOK, BootSteps, EarlyBoot, LateBoot, RegistersOK, DevicesOK
<1>11. ASSUME Modal!ResetTimer
      PROVE  Done
  <2>1. /\ boot = "timer" /\ boot' = "halt" /\ timer' = "armed"
        /\ UNCHANGED <<stacks, psr, cpsr, place>>
    BY <1>11 DEF Modal!ResetTimer, Modal!Start
  <2>2. psr.mode # "hypervisor"
    BY <1>1, <2>1 DEF SavedNamed
  <2>3. ThreadsOK'
    BY <1>1, <1>2, <2>1 DEF ThreadsOK
  <2> QED BY <1>1, <1>5, <2>1, <2>2, <2>3
          DEF BootOK, BootSteps, EarlyBoot, LateBoot, RegistersOK
<1>12. Done
  BY <1>6, <1>7, <1>8, <1>9, <1>10, <1>11 DEF Modal!Boot
<1>13. RegistersOK' /\ DevicesOK'
  BY <1>1, <1>2, <1>12 DEF RegistersOK, DevicesOK
<1>14. BootOK'
  BY <1>2, <1>4, <1>12 DEF BootOK
<1>15. HandlerInv'
  BY <1>2, <1>3, <1>4, <1>12, Distinct DEF HandlerInv, Own
<1>16. SavedNamed'
  BY <1>1, <1>2, <1>12 DEF SavedNamed
<1> HIDE DEF Done
<1>17. ThreadsOK'
  BY <1>12 DEF Done
<1> QED BY <1>13, <1>14, <1>15, <1>16, <1>17, InvPartsNext

(* An exception is taken: by start-up code or by a thread, or by a handler *)
(* which makes a fault.                                                    *)
LEMMA TakeKeeps ==
  ASSUME ModalInv, NEW kind \in Modal!Faults \cup {"call", "unknown call", "irq"},
         NEW fs \in 0 .. 31, Modal!Take(kind, fs),
         boot \notin EarlyBoot, psr.mode \in Modal!Modes,
         kind = "irq" => boot \in LateBoot,
         kind \in {"call", "unknown call"} => psr.mode = "user",
         exception = "none" \/ (kind \in Modal!Faults /\ psr.mode # "user")
  PROVE  ModalInv'
<1> DEFINE mode == Modal!ModeOf(kind)
<1>1. ThreadsOK /\ RegistersOK /\ DevicesOK /\ BootOK /\ HandlerInv /\ SavedNamed
  BY InvParts
<1>2. /\ ~halted
      /\ psr' = Modal!PSR(mode, TRUE) /\ spsr' = [spsr EXCEPT ![mode] = psr]
      /\ exception' = kind /\ origin' = psr.mode /\ phase' = "entered" /\ status' = fs
      /\ UNCHANGED <<boot, stacks, cpsr, place, running, timer, irqs, halted>>
  BY DEF Modal!Take, Modal!bootVars, Modal!threadVars
<1>3. mode \in Modal!BankedModes /\ mode \in Modal!Modes
  BY DEF Modal!ModeOf, Modal!BankedModes, Modal!Faults, Modal!Modes
<1> HIDE DEF mode
<1>4. psr' \in Modal!PSRs /\ psr'.mode = mode /\ psr'.masked = TRUE
  BY <1>2, <1>3, Registers
<1>5. /\ spsr' \in [Modal!BankedModes -> Modal!PSRs] /\ spsr'[psr'.mode] = psr
      /\ \A m \in Modal!BankedModes : m # mode => spsr'[m] = spsr[m]
  BY <1>1, <1>2, <1>3, <1>4 DEF RegistersOK
<1>6. ThreadsOK'
  BY <1>1, <1>2 DEF ThreadsOK
<1>7. RegistersOK'
  BY <1>1, <1>2, <1>4, <1>5 DEF RegistersOK, Modal!Phases
<1>8. DevicesOK'
  BY <1>1, <1>2 DEF DevicesOK
<1>9. BootOK'
  BY <1>1, <1>2, <1>4 DEF BootOK
<1>10. HandlerInv'
  <2>1. /\ exception' # "none" /\ phase' = "entered" /\ boot' \notin EarlyBoot
        /\ exception' = "irq" => boot' \in LateBoot
    BY <1>2 DEF Modal!Faults
  <2>2. psr' = Modal!PSR(Modal!ModeOf(exception'), TRUE)
    BY <1>2 DEF mode
  <2>3. spsr'[psr'.mode].mode = origin'
    BY <1>2, <1>5
  <2>4. kind \in {"call", "unknown call"} => kind \notin Modal!Faults
    BY DEF Modal!Faults
  <2>5. ~KernelsOwn' => Own(spsr[psr.mode])'
    <3> SUFFICES ASSUME ~KernelsOwn' PROVE Own(spsr[psr.mode])'
      OBVIOUS
    <3>1. exception = "none"
      BY <1>2 DEF KernelsOwn
    <3>2. Own(psr)
      BY <1>1, <1>2, <3>1 DEF HandlerInv
    <3> QED BY <1>2, <1>5, <3>2 DEF Own
  <2> QED BY <1>2, <2>1, <2>2, <2>3, <2>5 DEF HandlerInv
<1>11. SavedNamed'
  <2>1. psr.mode \in Modal!ModeNames
    <3>1. psr.mode # "hypervisor"
      BY <1>1 DEF SavedNamed, EarlyBoot
    <3> QED BY <3>1 DEF Modal!Modes, Modal!BankedModes, Modal!ModeNames
  <2>2. psr'.mode # "hypervisor"
    BY <1>3, <1>4 DEF Modal!BankedModes
  <2> QED BY <1>1, <1>4, <1>5, <2>1, <2>2 DEF SavedNamed
<1> QED BY <1>6, <1>7, <1>8, <1>9, <1>10, <1>11, InvPartsNext

LEMMA StatusInRange ==
  ASSUME NEW kind, NEW fs \in Modal!StatusesOf(kind)
  PROVE  fs \in 0 .. 31
<1>1. PrefetchStatuses \subseteq 0 .. 31 /\ DataStatuses \subseteq 0 .. 31
  BY ModalAssumption DEF Modal!ModalConstants
<1>2. CASE kind = "prefetch abort"
  BY <1>1, <1>2 DEF Modal!StatusesOf
<1>3. CASE kind = "data abort"
  BY <1>1, <1>3 DEF Modal!StatusesOf
<1>4. CASE kind \notin {"prefetch abort", "data abort"}
  <2>1. Modal!StatusesOf(kind) = {0}
    BY <1>4 DEF Modal!StatusesOf
  <2> QED BY <2>1
<1> QED BY <1>2, <1>3, <1>4

LEMMA ExceptionsKeep ==
  ASSUME ModalInv, Modal!UserException \/ Modal!KernelFault \/ Modal!Interrupt
  PROVE  ModalInv'
<1>1. ThreadsOK /\ RegistersOK /\ BootOK /\ HandlerInv /\ SavedNamed
  BY InvParts
<1>2. CASE Modal!UserException
  <2>0. PICK kind \in Modal!Faults \cup {"call", "unknown call"} :
          \E fs \in Modal!StatusesOf(kind) : Modal!Take(kind, fs)
    BY <1>2 DEF Modal!UserException
  <2>1. PICK fs \in Modal!StatusesOf(kind) : Modal!Take(kind, fs) /\ psr.mode = "user"
    BY <1>2, <2>0 DEF Modal!UserException
  <2>2. ~halted
    BY <2>1 DEF Modal!Take
  <2>3. exception = "none"
    <3>1. ASSUME exception # "none"
          PROVE  FALSE
      <4>1. psr = Modal!PSR(Modal!ModeOf(exception), TRUE)
        BY <1>1, <2>2, <3>1 DEF HandlerInv
      <4>2. Modal!ModeOf(exception) \in Modal!BankedModes
        BY <1>1, <3>1 DEF RegistersOK, Modal!ModeOf, Modal!BankedModes, Modal!Faults
      <4>3. Modal!ModeOf(exception) # "user" /\ Modal!ModeOf(exception) \in Modal!Modes
        BY <4>2 DEF Modal!BankedModes, Modal!Modes
      <4> QED BY <2>1, <4>1, <4>3, Registers
    <3> QED BY <3>1
  <2>4. boot = "left"
    BY <1>1, <2>1, <2>2, <2>3 DEF HandlerInv, Own, BootOK
  <2>5. boot \notin EarlyBoot /\ boot \in LateBoot /\ psr.mode \in Modal!Modes /\ fs \in 0 .. 31
    BY <2>1, <2>4, StatusInRange DEF EarlyBoot, LateBoot, Modal!Modes
  <2> QED BY <2>1, <2>3, <2>5, TakeKeeps
<1>3. CASE Modal!KernelFault
  <2>0. PICK kind \in Modal!Faults : \E fs \in Modal!StatusesOf(kind) : Modal!Take(kind, fs)
    BY <1>3 DEF Modal!KernelFault
  <2>1. PICK fs \in Modal!StatusesOf(kind) : Modal!Take(kind, fs)
    BY <2>0
  <2>2. /\ psr.mode \in Modal!Modes /\ psr.mode # "user"
        /\ boot \notin EarlyBoot /\ fs \in 0 .. 31
    BY <1>3, <2>1, StatusInRange
    DEF Modal!KernelFault, Modal!Modes, Modal!BankedModes, EarlyBoot
  <2>3. kind \notin {"call", "unknown call", "irq"}
    BY <2>1 DEF Modal!Faults
  <2> QED BY <2>1, <2>2, <2>3, TakeKeeps
<1>4. CASE Modal!Interrupt
  <2>1. Modal!Take("irq", 0) /\ ~psr.masked /\ ~halted
    BY <1>4 DEF Modal!Interrupt, Modal!Take
  <2>2. exception = "none"
    <3>1. ASSUME exception # "none"
          PROVE  FALSE
      <4>1. psr = Modal!PSR(Modal!ModeOf(exception), TRUE)
        BY <1>1, <2>1, <3>1 DEF HandlerInv
      <4>2. psr.masked
        BY <4>1 DEF Modal!PSR
      <4> QED BY <2>1, <4>2
    <3> QED BY <3>1
  <2>3. boot \notin EarlyBoot /\ boot \in LateBoot
    BY <1>1, <2>1 DEF BootOK, LateBoot, EarlyBoot
  <2>4. psr.mode \in Modal!Modes
    <3>1. Own(psr) /\ running \in Modal!Threads \cup {None}
      BY <1>1, <2>1, <2>2 DEF HandlerInv, ThreadsOK
    <3> QED BY <3>1, Registers DEF Own, Modal!Threads, Modal!Modes
  <2>5. "irq" \notin {"call", "unknown call"} /\ 0 \in 0 .. 31
    OBVIOUS
  <2> QED BY <2>1, <2>2, <2>3, <2>4, <2>5, TakeKeeps
<1> QED BY <1>2, <1>3, <1>4

(* A handler that has, or has not, switched threads and goes to its return.*)
LEMMA MovesKeep ==
  ASSUME ModalInv, ~halted, exception # "none", ~KernelsOwn, phase' \in {"switched", "return"},
         UNCHANGED <<psr, stacks, exception, origin, status, halted>>,
         ThreadsOK', DevicesOK', cpsr'[Idle] = cpsr[Idle],
         NotSwitched \/ (cpsr[Idle] = Modal!SystemPSR /\ \E next \in Modal!Threads : Switched(next))
  PROVE  ModalInv'
<1>1. ThreadsOK /\ RegistersOK /\ DevicesOK /\ BootOK /\ HandlerInv /\ SavedNamed
  BY InvParts
<1>2. /\ boot \notin EarlyBoot /\ Own(spsr[psr.mode])
      /\ psr = Modal!PSR(Modal!ModeOf(exception), TRUE)
      /\ exception \in {"call", "unknown call"} => origin = "user"
      /\ exception = "irq" => boot \in LateBoot
  BY <1>1 DEF HandlerInv, BootOK
<1>3. psr.mode \in Modal!BankedModes
  <2>1. Modal!ModeOf(exception) \in Modal!BankedModes
    BY <1>1 DEF RegistersOK, Modal!ModeOf, Modal!BankedModes, Modal!Faults
  <2> QED BY <1>2, <2>1 DEF Modal!PSR
<1>4. phase' \in Modal!Phases /\ ~KernelsOwn'
  BY DEF Modal!Phases, KernelsOwn
<1>5. CASE NotSwitched
  <2>1. UNCHANGED <<boot, running, spsr>>
    BY <1>5 DEF NotSwitched
  <2>2. RegistersOK'
    BY <1>1, <1>4, <2>1 DEF RegistersOK
  <2>3. BootOK'
    BY <1>1, <2>1 DEF BootOK
  <2>4. HandlerInv'
    <3>1. Own(spsr[psr.mode])'
      BY <1>2, <2>1 DEF Own
    <3> QED BY <1>2, <1>4, <2>1, <3>1 DEF HandlerInv
  <2>5. SavedNamed'
    BY <1>1, <2>1 DEF SavedNamed
  <2> QED BY <2>2, <2>3, <2>4, <2>5, InvPartsNext
<1>6. CASE cpsr[Idle] = Modal!SystemPSR /\ \E next \in Modal!Threads : Switched(next)
  <2>1. PICK next \in Modal!Threads : Switched(next)
    BY <1>6
  <2> DEFINE new == IF next = Idle THEN Modal!SystemPSR ELSE Modal!UserPSR
  <2>2. running' = next /\ boot' = "left" /\ spsr' = [spsr EXCEPT ![psr.mode] = new]
    BY <2>1 DEF Switched
  <2>3. /\ new \in Modal!PSRs /\ new.mode \in Modal!ModeNames /\ new.mode \in Modal!Modes
    BY Registers DEF Modal!ModeNames, Modal!Modes
  <2> HIDE DEF new
  <2>4. /\ spsr' \in [Modal!BankedModes -> Modal!PSRs] /\ spsr'[psr.mode] = new
        /\ \A m \in Modal!BankedModes : m # psr.mode => spsr'[m] = spsr[m]
    BY <1>1, <1>3, <2>2, <2>3 DEF RegistersOK
  <2>5. RegistersOK'
    BY <1>1, <1>4, <2>4 DEF RegistersOK
  <2>6. next # None /\ (next \in UserThreads <=> next # Idle)
    BY Distinct DEF Modal!Threads
  <2>7. BootOK'
    BY <1>1, <1>2, <1>6, <2>2, <2>6 DEF BootOK, LateBoot, EarlyBoot, BootSteps
  <2>8. HandlerInv'
    <3>1. Own(spsr[psr.mode])'
      BY <2>2, <2>4, <2>6 DEF Own, new, LateBoot
    <3> QED BY <1>2, <1>4, <2>2, <3>1 DEF HandlerInv, LateBoot, EarlyBoot
  <2>9. SavedNamed'
    BY <1>1, <1>2, <2>2, <2>3, <2>4 DEF SavedNamed, EarlyBoot
  <2> QED BY <2>5, <2>7, <2>8, <2>9, InvPartsNext
<1> QED BY <1>5, <1>6

(* The handlers that may switch threads.                                   *)
LEMMA SwitchingKeeps ==
  ASSUME ModalInv, Modal!ExitFaulting \/ Modal!Call \/ Modal!ServeSchedulingTimer
  PROVE  ModalInv'
<1>1. ThreadsOK /\ RegistersOK /\ DevicesOK /\ BootOK /\ HandlerInv
  BY InvParts
<1>2. CASE Modal!ExitFaulting
  <2>1. /\ ~halted /\ exception \in Modal!Faults \cup {"unknown call"} /\ phase = "dumped"
        /\ spsr[psr.mode].mode = "user" /\ Modal!EndThread
        /\ phase' = "return" /\ UNCHANGED <<psr, stacks, exception, origin, status, halted>>
    BY <1>2 DEF Modal!ExitFaulting, Modal!In, Modal!FromUser, Modal!Returning
  <2>2. exception # "none"
    BY <2>1 DEF Modal!Faults
  <2>3. origin = "user" /\ ~KernelsOwn
    BY <1>1, <2>1, <2>2 DEF HandlerInv, KernelsOwn
  <2>4. running \in UserThreads /\ cpsr[Idle] = Modal!SystemPSR
    BY <2>1, <2>2, <2>3, CallerRuns
  <2>5. ThreadsOK' /\ cpsr' = cpsr /\ \E next \in Modal!Threads : Switched(next)
    BY <2>1, <2>4, EndThreadStep
  <2>6. DevicesOK'
    BY <1>1, <2>1 DEF Modal!EndThread, DevicesOK
  <2> QED BY <2>1, <2>2, <2>3, <2>4, <2>5, <2>6, MovesKeep
<1>3. CASE Modal!Call
  <2>1. /\ ~halted /\ exception = "call" /\ phase = "entered"
        /\ phase' = "return" /\ UNCHANGED <<psr, stacks, exception, origin, status, halted>>
    BY <1>3 DEF Modal!Call, Modal!In, Modal!Returning
  <2>2. origin = "user" /\ ~KernelsOwn
    BY <1>1, <2>1 DEF HandlerInv, KernelsOwn
  <2>3. running \in UserThreads /\ cpsr[Idle] = Modal!SystemPSR
    BY <2>1, <2>2, CallerRuns
  <2>4. CASE Modal!EndThread
    <3>1. ThreadsOK' /\ cpsr' = cpsr /\ \E next \in Modal!Threads : Switched(next)
      BY <2>3, <2>4, EndThreadStep
    <3>2. DevicesOK'
      BY <1>1, <2>1, <2>4 DEF Modal!EndThread, DevicesOK
    <3> QED BY <2>1, <2>2, <2>3, <3>1, <3>2, MovesKeep
  <2>5. CASE Modal!GiveWay
    <3>1. ThreadsOK' /\ cpsr' = cpsr /\ \E next \in Modal!Threads : Switched(next)
      BY <2>3, <2>5, GiveWayStep
    <3>2. DevicesOK'
      BY <1>1, <2>1, <2>5 DEF Modal!GiveWay, DevicesOK
    <3> QED BY <2>1, <2>2, <2>3, <3>1, <3>2, MovesKeep
  <2>6. CASE Modal!CreateThread
    <3>1. ThreadsOK' /\ NotSwitched /\ cpsr'[Idle] = cpsr[Idle]
      BY <2>6, CreateThreadStep
    <3>2. DevicesOK'
      BY <1>1, <2>1, <2>6 DEF Modal!CreateThread, DevicesOK
    <3> QED BY <2>1, <2>2, <3>1, <3>2, MovesKeep
  <2>7. CASE UNCHANGED <<boot, Modal!threadVars, spsr, timer, irqs>>
    <3>1. UNCHANGED <<boot, cpsr, place, running, spsr, timer, irqs>>
      BY <2>7 DEF Modal!threadVars
    <3>2. ThreadsOK' /\ DevicesOK' /\ NotSwitched
      BY <1>1, <2>1, <3>1 DEF ThreadsOK, DevicesOK, NotSwitched
    <3> QED BY <2>1, <2>2, <3>1, <3>2, MovesKeep
  <2> QED BY <1>3, <2>4, <2>5, <2>6, <2>7 DEF Modal!Call
<1>4. CASE Modal!ServeSchedulingTimer
  <2>1. /\ ~halted /\ exception = "irq" /\ Modal!ServeTimer(place) /\ phase' = "switched"
        /\ UNCHANGED <<psr, stacks, cpsr, exception, origin, status, irqs, halted>>
    BY <1>4 DEF Modal!ServeSchedulingTimer, Modal!In
  <2>2. ~KernelsOwn
    BY <2>1 DEF KernelsOwn, Modal!Faults
  <2>3. cpsr[Idle] = Modal!SystemPSR
    BY <1>1, <2>1 DEF HandlerInv, BootOK
  <2>4. ThreadsOK' /\ (NotSwitched \/ \E next \in UserThreads : Switched(next))
    BY <2>1, ServeTimerStep
  <2>5. DevicesOK'
    BY <1>1, <2>1 DEF Modal!ServeTimer, DevicesOK
  <2> QED BY <2>1, <2>2, <2>3, <2>4, <2>5, MovesKeep DEF Modal!Threads
<1> QED BY <1>2, <1>3, <1>4

(* The handlers that wake threads, dump registers or halt.                 *)
LEMMA ServingKeeps ==
  ASSUME ModalInv,
         Modal!ServeStall \/ Modal!ServeUart \/ Modal!Dump \/ Modal!Panic
  PROVE  ModalInv'
<1>1. ThreadsOK /\ RegistersOK /\ DevicesOK /\ BootOK /\ HandlerInv /\ SavedNamed
  BY InvParts
<1>2. CASE Modal!ServeStall
  <2>1. /\ ~halted /\ exception = "irq" /\ phase = "entered" /\ phase' = "stall served"
        /\ place' \in Modal!Woken("stall", place) /\ irqs' = irqs \ {"stall"}
        /\ UNCHANGED <<boot, stacks, psr, spsr, cpsr, running, exception, origin, status, timer, halted>>
    BY <1>2 DEF Modal!ServeStall, Modal!In, Modal!bootVars
  <2>2. ThreadsOK'
    BY <2>1, WokenStep
  <2>3. RegistersOK' /\ DevicesOK'
    BY <1>1, <2>1 DEF RegistersOK, DevicesOK, Modal!Phases
  <2>4. BootOK' /\ SavedNamed'
    BY <1>1, <2>1 DEF BootOK, SavedNamed
  <2>5. HandlerInv'
    BY <1>1, <2>1 DEF HandlerInv, Own, KernelsOwn, Modal!Faults
  <2> QED BY <2>2, <2>3, <2>4, <2>5, InvPartsNext
<1>3. CASE Modal!ServeUart
  <2>1. /\ ~halted /\ exception = "irq" /\ phase' = "return"
        /\ place' \in Modal!Woken("uart", place) /\ irqs' = irqs \ {"uart"}
        /\ UNCHANGED <<boot, cpsr, running, spsr, timer>>
        /\ UNCHANGED <<psr, stacks, exception, origin, status, halted>>
    BY <1>3 DEF Modal!ServeUart, Modal!In, Modal!Returning
  <2>2. ThreadsOK'
    BY <2>1, WokenStep
  <2>3. DevicesOK' /\ NotSwitched
    BY <1>1, <2>1 DEF DevicesOK, NotSwitched
  <2>4. ~KernelsOwn
    BY <2>1 DEF KernelsOwn, Modal!Faults
  <2> QED BY <2>1, <2>2, <2>3, <2>4, MovesKeep
<1>4. CASE Modal!Dump
  <2>1. /\ ~halted /\ exception \in Modal!Faults \cup {"unknown call"}
        /\ phase = "entered" /\ phase' = "dumped" /\ status' = 0 /\ halted' = ~Modal!Dumpable
        /\ UNCHANGED <<boot, stacks, psr, spsr, cpsr, place, running, exception, origin, timer, irqs>>
    BY <1>4 DEF Modal!Dump, Modal!In, Modal!bootVars, Modal!threadVars
  <2>2. ThreadsOK' /\ BootOK' /\ SavedNamed'
    BY <1>1, <2>1 DEF ThreadsOK, BootOK, SavedNamed
  <2>3. RegistersOK'
    <3>1. phase' \in Modal!Phases
      BY <2>1 DEF Modal!Phases
    <3>2. status' = 0
      BY <2>1
    <3>3. status' \in 0 .. 31
      BY <3>2
    <3>4. UNCHANGED <<psr, spsr, stacks, exception, origin>>
      BY <2>1
    <3> QED BY <1>1, <3>1, <3>3, <3>4, Zenon DEF RegistersOK
  <2>4. halted' \in BOOLEAN
    BY <2>1, Zenon
  <2>5. DevicesOK'
    BY <1>1, <2>1, <2>4 DEF DevicesOK
  <2>6. HandlerInv'
    BY <1>1, <2>1 DEF HandlerInv, Own, KernelsOwn, Modal!Faults
  <2> QED BY <2>2, <2>3, <2>5, <2>6, InvPartsNext
<1>5. CASE Modal!Panic
  <2>1. /\ halted' = TRUE
        /\ UNCHANGED <<boot, stacks, psr, spsr, cpsr, place, running, exception, origin, phase, status,
                      timer, irqs>>
    BY <1>5 DEF Modal!Panic, Modal!bootVars, Modal!threadVars, Modal!exceptionVars
  <2> QED BY <1>1, <2>1, InvPartsNext
          DEF ThreadsOK, RegistersOK, DevicesOK, BootOK, HandlerInv, SavedNamed
<1> QED BY <1>2, <1>3, <1>4, <1>5

(* The return: the saved status becomes the status again.  Who returns is  *)
(* no kernel fault, so the status is the running thread's.                 *)
LEMMA ReturnKeeps ==
  ASSUME ModalInv, Modal!Return
  PROVE  ModalInv'
<1>1. ThreadsOK /\ RegistersOK /\ DevicesOK /\ BootOK /\ HandlerInv /\ SavedNamed
  BY InvParts
<1>2. /\ ~halted /\ phase = "return" /\ psr' = spsr[psr.mode]
      /\ exception' = "none" /\ origin' = "none" /\ phase' = "none"
      /\ UNCHANGED <<boot, stacks, spsr, cpsr, place, running, status, timer, irqs, halted>>
  BY DEF Modal!Return, Modal!bootVars, Modal!threadVars
<1>3. exception # "none" /\ ~KernelsOwn
  BY <1>1, <1>2 DEF HandlerInv
<1>4. /\ boot \notin EarlyBoot /\ Own(spsr[psr.mode])
      /\ psr = Modal!PSR(Modal!ModeOf(exception), TRUE)
  BY <1>1, <1>2, <1>3 DEF HandlerInv, BootOK
<1>5. psr.mode \in Modal!BankedModes
  <2>1. Modal!ModeOf(exception) \in Modal!BankedModes
    BY <1>1, <1>3 DEF RegistersOK, Modal!ModeOf, Modal!BankedModes, Modal!Faults
  <2> QED BY <1>4, <2>1 DEF Modal!PSR
<1>6. psr' \in Modal!PSRs /\ psr'.mode \in Modal!ModeNames
  BY <1>1, <1>2, <1>5 DEF RegistersOK, SavedNamed
<1>7. ThreadsOK' /\ DevicesOK'
  BY <1>1, <1>2 DEF ThreadsOK, DevicesOK
<1>8. RegistersOK'
  <2>1. /\ exception' \in Modal!Faults \cup {"none", "call", "unknown call", "irq"}
        /\ origin' \in Modal!Modes \cup {"none"} /\ phase' \in Modal!Phases
    BY <1>2 DEF Modal!Phases
  <2> QED BY <1>1, <1>2, <1>6, <2>1 DEF RegistersOK
<1>9. BootOK'
  BY <1>1, <1>2, <1>4 DEF BootOK, Own
<1>10. HandlerInv'
  BY <1>2, <1>4 DEF HandlerInv, Own
<1>11. SavedNamed'
  BY <1>1, <1>2, <1>6 DEF SavedNamed, Modal!ModeNames
<1> QED BY <1>7, <1>8, <1>9, <1>10, <1>11, InvPartsNext

LEMMA DevicesKeep ==
  ASSUME ModalInv, Modal!TimerMatches \/ Modal!DeviceInterrupts
  PROVE  ModalInv'
<1>1. ThreadsOK /\ RegistersOK /\ DevicesOK /\ BootOK /\ HandlerInv /\ SavedNamed
  BY InvParts
<1>2. /\ UNCHANGED <<boot, stacks, psr, spsr, cpsr, place, running, exception, origin, phase, status>>
      /\ halted' = halted
  BY DEF Modal!TimerMatches, Modal!DeviceInterrupts, Modal!bootVars, Modal!threadVars,
         Modal!exceptionVars
<1>3. timer' \in {"unset", "armed", "pending"} /\ irqs' \subseteq {"stall", "uart"}
  BY <1>1 DEF Modal!TimerMatches, Modal!DeviceInterrupts, DevicesOK
<1>4. ThreadsOK' /\ RegistersOK' /\ BootOK' /\ SavedNamed' /\ DevicesOK'
  BY <1>1, <1>2, <1>3 DEF ThreadsOK, RegistersOK, BootOK, SavedNamed, DevicesOK
<1>5. HandlerInv'
  BY <1>1, <1>2 DEF HandlerInv, Own, KernelsOwn
<1> QED BY <1>4, <1>5, InvPartsNext

LEMMA ModalStep ==
  ASSUME ModalInv, Modal!Next
  PROVE  ModalInv'
BY BootKeeps, ExceptionsKeep, SwitchingKeeps, ServingKeeps, ReturnKeeps, DevicesKeep
   DEF Modal!Next, Modal!Handler

LEMMA ModalStutters ==
  ASSUME ModalInv, UNCHANGED modalVars
  PROVE  ModalInv'
<1>1. ThreadsOK /\ RegistersOK /\ DevicesOK /\ BootOK /\ HandlerInv /\ SavedNamed
  BY InvParts
<1> QED BY <1>1, InvPartsNext
        DEF modalVars, ThreadsOK, RegistersOK, DevicesOK, BootOK, HandlerInv, Own, KernelsOwn,
            SavedNamed

LEMMA FaultsStep ==
  ASSUME ModalInv, [FaultsNext]_allVars
  PROVE  ModalInv'
BY ModalStep, ModalStutters DEF FaultsNext, allVars

-----------------------------------------------------------------------------
(* Part 9: the theorems.                                                   *)

(* The invariant holds in every state.                                     *)
LEMMA ModalInductive == FaultsSpec => []ModalInv
<1>1. FaultsInit => ModalInv
  BY ModalStart DEF FaultsInit
<1>2. ModalInv /\ [FaultsNext]_allVars => ModalInv'
  BY FaultsStep
<1> QED BY <1>1, <1>2, PTL DEF FaultsSpec

(***************************************************************************)
(* For any number of threads: however it came to run, a thread runs in its *)
(* own mode and can be interrupted.                                        *)
(***************************************************************************)
THEOREM ThreadsKeepTheirMode == FaultsSpec => []ThreadsInOwnMode
<1>1. ModalInv => ThreadsInOwnMode
  <2> SUFFICES ASSUME ModalInv, ~halted, exception = "none"
               PROVE  /\ running \in UserThreads => psr = Modal!UserPSR
                      /\ running = Idle => psr = Modal!SystemPSR
                      /\ running = None => psr.mode # "user"
    BY DEF ThreadsInOwnMode, Modal!ThreadsInOwnMode
  <2>1. HandlerInv
    BY InvParts
  <2> QED BY <2>1 DEF HandlerInv, Own
<1> QED BY <1>1, ModalInductive, PTL

(***************************************************************************)
(* For any number of threads: an exception's mode has a stack when it is   *)
(* taken, and interrupts come only when the kernel has been set up.        *)
(***************************************************************************)
THEOREM ExceptionsFindTheKernelReady == FaultsSpec => []ReadyForExceptions
<1>1. ModalInv => ReadyForExceptions
  <2> SUFFICES ASSUME ModalInv
               PROVE  /\ exception # "none" => Modal!ModeOf(exception) \in stacks
                      /\ ~psr.masked => /\ boot \in {"timer", "halt", "left"}
                                       /\ cpsr[Idle] = Modal!SystemPSR
    BY DEF ReadyForExceptions, Modal!ReadyForExceptions
  <2>1. BootOK /\ HandlerInv /\ RegistersOK
    BY InvParts
  <2>2. ~psr.masked => boot \in {"timer", "halt", "left"} /\ cpsr[Idle] = Modal!SystemPSR
    BY <2>1 DEF BootOK, LateBoot
  <2>3. ASSUME exception # "none"
        PROVE  Modal!ModeOf(exception) \in stacks
    <3>1. stacks = Modal!BankedModes \cup {"system"}
      BY <2>1, <2>3 DEF BootOK
    <3>2. Modal!ModeOf(exception) \in Modal!BankedModes
      BY <2>1, <2>3 DEF RegistersOK, Modal!ModeOf, Modal!BankedModes, Modal!Faults
    <3> QED BY <3>1, <3>2
  <2> QED BY <2>2, <2>3
<1> QED BY <1>1, ModalInductive, PTL

-----------------------------------------------------------------------------
(* Part 10: faults end their own thread, and nothing else.                 *)

Confined ==
  /\ halted # halted' => origin # "user"
  /\ \A t \in UserThreads :
       place'[t] = "finished" /\ place[t] # "finished" => running = t /\ origin = "user"
  /\ exception \in Modal!Faults /\ phase = "dumped" /\ phase' = "return" =>
       place'[running] = "finished"

(* The status registers hold what the fault that was taken left in them.   *)
StatusOfFault == phase = "entered" => status \in Modal!StatusesOf(exception)

(* Steps that end no thread, do not halt and do not come to the return.    *)
LEMMA EndsNobody ==
  ASSUME halted' = halted, phase' # "return" \/ phase # "dumped",
         \A t \in UserThreads : place[t] # "finished" => place'[t] # "finished"
  PROVE  Confined
BY DEF Confined

LEMMA StatusStart == Modal!Init => StatusOfFault
BY DEF Modal!Init, StatusOfFault

LEMMA StatusStep ==
  ASSUME StatusOfFault, Modal!Next
  PROVE  StatusOfFault'
<1>1. CASE Modal!UserException
  <2>1. PICK kind \in Modal!Faults \cup {"call", "unknown call"} :
          \E fs \in Modal!StatusesOf(kind) : Modal!Take(kind, fs)
    BY <1>1 DEF Modal!UserException
  <2>2. PICK fs \in Modal!StatusesOf(kind) : Modal!Take(kind, fs)
    BY <2>1
  <2>3. exception' = kind /\ status' = fs
    BY <2>2 DEF Modal!Take
  <2> QED BY <2>3 DEF StatusOfFault, Modal!StatusesOf
<1>2. CASE Modal!KernelFault
  <2>1. PICK kind \in Modal!Faults : \E fs \in Modal!StatusesOf(kind) : Modal!Take(kind, fs)
    BY <1>2 DEF Modal!KernelFault
  <2>2. PICK fs \in Modal!StatusesOf(kind) : Modal!Take(kind, fs)
    BY <2>1
  <2>3. exception' = kind /\ status' = fs
    BY <2>2 DEF Modal!Take
  <2> QED BY <2>3 DEF StatusOfFault, Modal!StatusesOf
<1>3. CASE Modal!Interrupt
  <2>1. exception' = "irq" /\ status' = 0
    BY <1>3 DEF Modal!Interrupt, Modal!Take
  <2> QED BY <2>1 DEF StatusOfFault, Modal!StatusesOf
<1>4. CASE Modal!Boot \/ Modal!Panic \/ Modal!TimerMatches \/ Modal!DeviceInterrupts
  <2>1. UNCHANGED <<exception, phase, status>>
    BY <1>4, Zenon
       DEF Modal!Boot, Modal!ExitHyper, Modal!SetStacks, Modal!SetVectors, Modal!SetupUart,
           Modal!ConfigureMMU, Modal!InitialiseScheduler, Modal!EnableInterrupts,
           Modal!ResetTimer, Modal!Start, Modal!Panic, Modal!TimerMatches,
           Modal!DeviceInterrupts, Modal!exceptionVars
  <2> QED BY <2>1 DEF StatusOfFault, Modal!StatusesOf
<1>5. CASE Modal!Dump \/ Modal!ExitFaulting \/ Modal!Call \/ Modal!ServeStall
           \/ Modal!ServeSchedulingTimer \/ Modal!ServeUart \/ Modal!Return
  <2>1. phase' # "entered"
    BY <1>5 DEF Modal!Dump, Modal!ExitFaulting, Modal!Call, Modal!ServeStall, Modal!Returning,
                Modal!ServeSchedulingTimer, Modal!ServeUart, Modal!Return
  <2> QED BY <2>1 DEF StatusOfFault
<1> QED BY <1>1, <1>2, <1>3, <1>4, <1>5 DEF Modal!Next, Modal!Handler

(* The handler of a fault tells a program's from the kernel's.             *)
LEMMA OriginKnown ==
  ASSUME ModalInv, ~halted, exception \in Modal!Faults \cup {"unknown call"},
         phase \in {"entered", "dumped"}
  PROVE  (origin = "user") <=> Modal!FromUser
<1>1. HandlerInv
  BY InvParts
<1>2. exception # "none"
  BY DEF Modal!Faults
<1> QED BY <1>1, <1>2 DEF HandlerInv, Modal!FromUser

(* The dump of the registers after a program's fault comes to its end.     *)
LEMMA DumpsThrough ==
  ASSUME ModalInv, StatusOfFault, Modal!Dump,
         \A fs \in PrefetchStatuses : Modal!PrefetchAbortNamed(fs),
         \A fs \in DataStatuses : Modal!DataAbortNamed(fs)
  PROVE  halted' = halted
<1>1. HandlerInv /\ SavedNamed /\ RegistersOK /\ BootOK
  BY InvParts
<1>2. /\ ~halted /\ exception \in Modal!Faults \cup {"unknown call"} /\ phase = "entered"
      /\ halted' = ~Modal!Dumpable
  BY DEF Modal!Dump, Modal!In
<1>3. psr = Modal!PSR(Modal!ModeOf(exception), TRUE)
  BY <1>1, <1>2 DEF HandlerInv, Modal!Faults
<1>4. psr.mode \in Modal!ModeNames
  BY <1>2, <1>3 DEF Modal!PSR, Modal!ModeOf, Modal!ModeNames, Modal!Faults
<1>5. exception = "prefetch abort" => Modal!PrefetchAbortNamed(status)
  BY <1>2 DEF StatusOfFault, Modal!StatusesOf
<1>6. exception = "data abort" => Modal!DataAbortNamed(status)
  BY <1>2 DEF StatusOfFault, Modal!StatusesOf
<1>7. Modal!Dumpable
  BY <1>1, <1>4, <1>5, <1>6 DEF Modal!Dumpable, SavedNamed
<1>8. halted = FALSE
  <2>1. halted \in BOOLEAN
    BY InvParts DEF DevicesOK
  <2> QED BY <1>2, <2>1
<1>9. halted' = FALSE
  BY <1>2, <1>7, Zenon
<1> QED BY <1>8, <1>9

LEMMA ConfinedStep ==
  ASSUME ModalInv, StatusOfFault, Modal!Next,
         \A fs \in PrefetchStatuses : Modal!PrefetchAbortNamed(fs),
         \A fs \in DataStatuses : Modal!DataAbortNamed(fs)
  PROVE  Confined
<1>1. ThreadsOK /\ BootOK /\ HandlerInv
  BY InvParts
<1>2. CASE Modal!Boot
  <2>1. halted' = halted /\ phase' = phase
    BY <1>2, Zenon
       DEF Modal!Boot, Modal!ExitHyper, Modal!SetStacks, Modal!SetVectors, Modal!SetupUart,
           Modal!ConfigureMMU, Modal!InitialiseScheduler, Modal!EnableInterrupts,
           Modal!ResetTimer, Modal!Start, Modal!exceptionVars
  <2>2. place' = place \/ \E first \in UserThreads : place' = [place EXCEPT ![first] = "ready"]
    BY <1>2, Zenon
       DEF Modal!Boot, Modal!ExitHyper, Modal!SetStacks, Modal!SetVectors, Modal!SetupUart,
           Modal!ConfigureMMU, Modal!InitialiseScheduler, Modal!EnableInterrupts,
           Modal!ResetTimer
  <2>3. \A t \in UserThreads : place[t] # "finished" => place'[t] # "finished"
    BY <1>1, <2>2 DEF ThreadsOK
  <2> QED BY <2>1, <2>3, EndsNobody
<1>3. CASE Modal!UserException \/ Modal!KernelFault \/ Modal!Interrupt
  <2>1. halted' = halted /\ place' = place /\ phase' = "entered"
    BY <1>3 DEF Modal!UserException, Modal!KernelFault, Modal!Interrupt, Modal!Take,
                Modal!threadVars
  <2> QED BY <2>1, EndsNobody
<1>4. CASE Modal!Dump
  <2>1. halted' = halted
    BY <1>4, DumpsThrough
  <2>2. place' = place /\ phase' = "dumped"
    BY <1>4 DEF Modal!Dump, Modal!threadVars
  <2> QED BY <2>1, <2>2, EndsNobody
<1>5. CASE Modal!Panic
  <2>1. /\ ~halted /\ exception \in Modal!Faults \cup {"unknown call"} /\ phase = "dumped"
        /\ ~Modal!FromUser /\ place' = place /\ phase' = phase
    BY <1>5 DEF Modal!Panic, Modal!In, Modal!threadVars, Modal!exceptionVars
  <2>2. origin # "user"
    BY <2>1, OriginKnown
  <2> QED BY <2>1, <2>2 DEF Confined
<1>6. CASE Modal!ExitFaulting
  <2>1. /\ ~halted /\ exception \in Modal!Faults \cup {"unknown call"} /\ phase = "dumped"
        /\ Modal!FromUser /\ Modal!EndThread /\ halted' = halted
    BY <1>6 DEF Modal!ExitFaulting, Modal!In, Modal!Returning
  <2>2. origin = "user" /\ exception # "none"
    BY <2>1, OriginKnown DEF Modal!Faults
  <2>3. running \in UserThreads /\ cpsr[Idle] = Modal!SystemPSR
    BY <2>1, <2>2, CallerRuns
  <2>4. /\ place'[running] = "finished"
        /\ \A t \in UserThreads :
             t # running /\ place[t] # "finished" => place'[t] # "finished"
    BY <2>1, <2>3, EndThreadStep
  <2> QED BY <2>1, <2>2, <2>4 DEF Confined
<1>7. CASE Modal!Call
  <2>1. /\ ~halted /\ exception = "call" /\ phase = "entered" /\ halted' = halted
    BY <1>7 DEF Modal!Call, Modal!In, Modal!Returning
  <2>2. origin = "user"
    BY <1>1, <2>1 DEF HandlerInv
  <2>3. running \in UserThreads /\ cpsr[Idle] = Modal!SystemPSR
    BY <2>1, <2>2, CallerRuns
  <2>4. \A t \in UserThreads : t # running /\ place[t] # "finished" => place'[t] # "finished"
    <3>1. CASE Modal!EndThread
      BY <2>3, <3>1, EndThreadStep
    <3>2. CASE Modal!GiveWay
      BY <2>3, <3>2, GiveWayStep
    <3>3. CASE Modal!CreateThread
      BY <3>3, CreateThreadStep
    <3>4. CASE UNCHANGED <<boot, Modal!threadVars, spsr, timer, irqs>>
      BY <3>4 DEF Modal!threadVars
    <3> QED BY <1>7, <3>1, <3>2, <3>3, <3>4 DEF Modal!Call
  <2> QED BY <2>1, <2>2, <2>4 DEF Confined
<1>8. CASE Modal!ServeStall \/ Modal!ServeUart
  <2>1. PICK device : place' \in Modal!Woken(device, place)
    BY <1>8 DEF Modal!ServeStall, Modal!ServeUart
  <2>2. /\ phase # "dumped" /\ halted' = halted /\ UNCHANGED <<running, cpsr>>
    BY <1>8 DEF Modal!ServeStall, Modal!ServeUart, Modal!In, Modal!Returning
  <2> QED BY <2>1, <2>2, WokenStep, EndsNobody
<1>9. CASE Modal!ServeSchedulingTimer
  <2>1. Modal!ServeTimer(place) /\ cpsr' = cpsr /\ halted' = halted /\ phase # "dumped"
    BY <1>9 DEF Modal!ServeSchedulingTimer, Modal!In
  <2> QED BY <2>1, ServeTimerStep, EndsNobody
<1>10. CASE Modal!Return \/ Modal!TimerMatches \/ Modal!DeviceInterrupts
  <2>1. halted' = halted /\ place' = place /\ (phase # "dumped" \/ phase' = phase)
    BY <1>10, Zenon DEF Modal!Return, Modal!TimerMatches, Modal!DeviceInterrupts, Modal!threadVars,
                 Modal!exceptionVars
  <2> QED BY <2>1, EndsNobody
<1> QED BY <1>2, <1>3, <1>4, <1>5, <1>6, <1>7, <1>8, <1>9, <1>10 DEF Modal!Next, Modal!Handler

(***************************************************************************)
(* For any number of threads and any sizes of the tables: the registers,   *)
(* the places of the threads and the devices have their types, the thread  *)
(* that runs is the one whose place says so, and the entries of both       *)
(* levels of the tables are ones that the hardware knows.                  *)
(***************************************************************************)
THEOREM ModesAndTablesTypeCorrect == FaultsSpec => []FaultsTypeOK
<1>1. ModalInv /\ TablesInv => FaultsTypeOK
  BY TablesTyped DEF ModalInv, FaultsTypeOK
<1> QED BY <1>1, ModalInductive, TablesInductive, PTL

(***************************************************************************)
(* For any number of threads, as long as the fault statuses of programs    *)
(* have names (the run exception_status shows the ones that have none): a  *)
(* program's fault ends the thread that made it and no other, and never    *)
(* halts the kernel; the kernel's own faults end no thread.                *)
(***************************************************************************)
THEOREM FaultsStayConfined ==
  ASSUME \A fs \in PrefetchStatuses : Modal!PrefetchAbortNamed(fs),
         \A fs \in DataStatuses : Modal!DataAbortNamed(fs)
  PROVE  FaultsSpec => FaultsConfined
<1>1. FaultsInit => ModalInv /\ StatusOfFault
  BY ModalStart, StatusStart DEF FaultsInit
<1>2. ModalInv /\ StatusOfFault /\ [FaultsNext]_allVars => (ModalInv /\ StatusOfFault)'
  <2> SUFFICES ASSUME StatusOfFault, [FaultsNext]_allVars
               PROVE  StatusOfFault'
    BY FaultsStep
  <2>1. CASE UNCHANGED modalVars
    BY <2>1 DEF modalVars, StatusOfFault, Modal!StatusesOf
  <2>2. CASE Modal!Next
    BY <2>2, StatusStep
  <2> QED BY <2>1, <2>2 DEF FaultsNext, allVars
<1>3. ModalInv /\ StatusOfFault /\ [FaultsNext]_allVars => [Confined]_(Modal!vars)
  <2> SUFFICES ASSUME ModalInv, StatusOfFault, [FaultsNext]_allVars
               PROVE  Confined \/ UNCHANGED Modal!vars
    OBVIOUS
  <2>1. CASE UNCHANGED modalVars
    BY <2>1 DEF modalVars, Modal!vars, Modal!bootVars, Modal!threadVars, Modal!exceptionVars
  <2>2. CASE Modal!Next
    BY <2>2, ConfinedStep
  <2> QED BY <2>1, <2>2 DEF FaultsNext, allVars
<1>4. FaultsSpec => [][Confined]_(Modal!vars)
  BY <1>1, <1>2, <1>3, PTL DEF FaultsSpec
<1> QED BY <1>4 DEF FaultsConfined, Modal!FaultsConfined, Confined
=============================================================================
