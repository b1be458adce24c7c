------------------------------- MODULE Memory -------------------------------
(***************************************************************************)
(* Physical frames, the kernel heap and the page directories of the        *)
(* processes: the frame bitmap and clone_pagedirectory() (paging.c), the   *)
(* heap (heap.c), fork() (schedule.c) and the ELF loader (elf.c).          *)
(*                                                                         *)
(* The heap is counted in units, UnitsPerPage of them to a page; what does *)
(* not depend on the bytes within a unit is left out.  Nothing is ever     *)
(* freed: kfree() does nothing and no frame is given back.                 *)
(*                                                                         *)
(* A step is what the kernel does without sleeping.  execve() sleeps while *)
(* the drive reads, so another process may run between the mapping of a    *)
(* section and the arrival of its contents.                                *)
(***************************************************************************)
EXTENDS Integers, FiniteSets, Sequences

CONSTANTS
  MaxProcs,      \* bound: processes created in one behaviour
  MaxExecs,      \* bound: calls of execve() in one behaviour
  MaxWrites,     \* bound: writes of programs in one behaviour
  FrameCount,    \* frames of physical memory
  WordBits,      \* bitmap_t.bitsize, the frames in one word of the bitmap
  Reserved,      \* frames of the kernel and the BIOS, below the heap
  HeapPages,     \* MIN_HEAP_SIZE: pages of the heap that heap_init() maps
  UnitsPerPage,  \* heap units in a page
  TablePages,    \* pages a page table maps
  StackPages,    \* pages of a user stack, KERNEL_STACK_SIZE rounded up
  BootUnits,     \* heap units in use when the idle process starts
  TaskUnits,     \* sizeof (task_t)
  DirUnits,      \* sizeof (pagedirectory_t)
  KStackUnits,   \* KERNEL_STACK_SIZE
  ElfUnits,      \* the section headers and the string table of a program
  ReadUnits,     \* the buffers a file system allocates to read a section
  Programs       \* the programs, as the linker laid them out (see Program)

HeapFrame == Reserved                \* the heap is contiguous in both spaces
StackFrame == HeapFrame + HeapPages  \* and the first stack lies behind it
FirstFree == StackFrame + StackPages

\* Page directory entries: the low megabytes (with the programs linked at
\* 0x100000), 0x08048000, the user stack at 0xCF000000, the heap, the image of
\* the kernel at 0xC0000000, and the window at 0xF0000000 in which everybody
\* sees the low 16 megabytes of physical memory.
Low    == 0
High   == 1
Stack  == 2
Heap   == 3
Image  == 4
Window == 5
Region == Low .. Window

\* The entries of the kernel directory when stack_init() clones it.
KernelRegion == {Low, Heap, Image, Window}

\* The virtual pages that execve() and stack_init() map.  Those of the heap, the
\* image and the window never change once paging_init() and heap_init() are
\* done; the frames under the window are not marked for it.
Page == 0 .. 3 * TablePages - 1
RegionOf(v) == v \div TablePages
StackPage == {v \in Page : RegionOf(v) = Stack /\ (v % TablePages) < StackPages}

\* A section of a program: sh_addr and sh_size, in units.  Neither need be a
\* whole number of pages.
Section == [addr : 0 .. 3 * TablePages * UnitsPerPage - 1, size : Nat]

FirstPage(section) == section.addr \div UnitsPerPage
FullPages(section) == section.size \div UnitsPerPage

\* The pages a section has bytes in.
Pages(section) ==
  {unit \div UnitsPerPage :
     unit \in section.addr .. section.addr + section.size - 1}

\* allocate_virtual_memory() maps size / 0x1000 + 1 pages, from the page of the
\* address on; all but the last of them lie wholly in the section's own block.
MappedPages(section) ==
  FirstPage(section) .. FirstPage(section) + FullPages(section)

WholePages(section) ==
  FirstPage(section) .. FirstPage(section) + FullPages(section) - 1

\* A program: its file, the sections that are read from it (PROGBITS) and the
\* one that is not (NOBITS).
Program ==
  [file : Nat, loads : Seq(Section), bss : Section]

ProgramPages(prog) ==
  UNION {Pages(prog.loads[i]) : i \in DOMAIN prog.loads} \cup Pages(prog.bss)

\* The linker puts the sections of a program one behind the other, the NOBITS
\* section last; two of them may share a page.  A program that fits into the
\* heap stays in the page table it begins in (0x100000 and 0x08048000 leave more
\* than HeapPages behind them).
SectionLimit(section) == section.addr + section.size

OneTable(section) ==
  /\ RegionOf(FirstPage(section)) \in {Low, High}
  /\ RegionOf(SectionLimit(section) \div UnitsPerPage) = RegionOf(FirstPage(section))

LaidOut(prog) ==
  /\ OneTable(prog.bss)
  /\ \A i \in DOMAIN prog.loads :
       /\ OneTable(prog.loads[i])
       /\ \A j \in DOMAIN prog.loads :
            i < j => SectionLimit(prog.loads[i]) <= prog.loads[j].addr
       /\ SectionLimit(prog.loads[i]) <= prog.bss.addr

ASSUME MemoryAssumption ==
  /\ {MaxProcs, FrameCount, WordBits, HeapPages, UnitsPerPage, TablePages,
      StackPages, TaskUnits, DirUnits, KStackUnits, ElfUnits}
       \subseteq Nat \ {0}
  /\ {MaxExecs, MaxWrites, Reserved, BootUnits, ReadUnits} \subseteq Nat
  /\ Programs \subseteq Program
  /\ \A program \in Programs : LaidOut(program)
  /\ StackPages <= TablePages
  /\ FirstFree <= FrameCount
  /\ BootUnits <= HeapPages * UnitsPerPage

Proc    == 0 .. MaxProcs - 1
Frame   == 0 .. FrameCount - 1
NoFrame == -1                  \* a page table entry of 0
Kernel  == -1                  \* the owner of the tables of the kernel
NoTable == -2                  \* NULL in pagedirectory_t.tables
NoSection == [addr |-> 0, size |-> 0]
NoProgram == [file |-> 0, loads |-> <<>>, bss |-> NoSection]

VARIABLES
  procs,       \* the processes that exist
  used,        \* framebitmap->map: the frames marked
  firstempty,  \* framebitmap->firstempty
  heapTop,     \* _k_heap_top, in units
  table,       \* pagedirectory_t.tables: who created the table of a region
  entry,       \* the frames in the tables a process (or the kernel) created
  mem,         \* what a frame contains
  prog,        \* the program a process runs
  loading,     \* sections an execve() still has to map
  reading,     \* the section an execve() waits for
  execs,       \* number of calls of execve() so far
  writes,      \* number of writes so far
  mode         \* "run", or how the kernel came to its end

vars == <<procs, used, firstempty, heapTop, table, entry, mem, prog, loading,
          reading, execs, writes, mode>>

----------------------------------------------------------------------------
(* Frames *)

Words == FrameCount \div WordBits

\* The frames bm_findfirst() comes across, from the cached word on.
Candidates ==
  {f \in Frame \ used : f \div WordBits >= firstempty /\ f \div WordBits < Words}

\* The frames that so many calls in a row return, lowest first.
NthFrame(n) ==
  CHOOSE f \in Candidates : Cardinality({g \in Candidates : g < f}) = n

\* bm_findfirst() caches the word before the one it found a free frame in.
CacheAfter(f) == f \div WordBits - 1

----------------------------------------------------------------------------
(* The kernel heap *)

\* Mutant: the page boundary is not kept.
BaseUnaligned(top) == top

\* The next block on a page boundary: an aligned top moves on as well.
AlignedBase(top) == (top \div UnitsPerPage + 1) * UnitsPerPage

\* heap_expand() moves the end of the heap but maps no frames.
Mapped(top) == top <= HeapPages * UnitsPerPage

\* The frame of a unit of the heap (get_physical_address).
FrameAt(unit) == HeapFrame + unit \div UnitsPerPage

\* The frames of the heap units from one to before another.
HeapFrames(from, to) == {FrameAt(unit) : unit \in from .. to - 1}

\* What a frame contains: what it held before, a block of the kernel, a file
\* (a program's file is a number above the processes), or what a process wrote.
Junk       == -1
KernelData == -2

\* The kernel fills a block of its heap.
Filled(m, from, to) ==
  [f \in Frame |-> IF f \in HeapFrames(from, to) THEN KernelData ELSE m[f]]

----------------------------------------------------------------------------

\* The table of a region in the directory of a process, as it sees it.
Entry(p, v) ==
  IF table[p][RegionOf(v)] = NoTable THEN NoFrame
  ELSE entry[table[p][RegionOf(v)]][v]

\* stack_init() cloned the kernel directory and gave the clone a stack; it is
\* the directory of the idle process.
Init ==
  /\ procs = {0}
  /\ used = 0 .. FirstFree - 1
  /\ firstempty = CacheAfter(FirstFree - 1)
  /\ heapTop = BootUnits
  /\ table = [p \in Proc |-> [r \in Region |->
       IF p # 0 THEN NoTable
       ELSE IF r \in KernelRegion THEN Kernel
       ELSE IF r = Stack THEN 0
       ELSE NoTable]]
  /\ entry = [o \in Proc \cup {Kernel} |-> [v \in Page |->
       IF o = 0 /\ v \in StackPage THEN StackFrame + (v % TablePages)
       ELSE NoFrame]]
  /\ mem = [f \in Frame |-> Junk]
  /\ prog = [p \in Proc |-> NoProgram]
  /\ loading = [p \in Proc |-> <<>>]
  /\ reading = [p \in Proc |-> NoSection]
  /\ execs = 0
  /\ writes = 0
  /\ mode = "run"

\* A process is in its program, not in execve(), and can make a system call.
Loaded(p) == loading[p] = <<>> /\ reading[p] = NoSection
InProgram(p) == mode = "run" /\ p \in procs /\ Loaded(p)

Stops(how) ==
  /\ mode' = how
  /\ UNCHANGED <<procs, used, firstempty, heapTop, table, entry, mem, prog,
                 loading, reading, execs, writes>>

----------------------------------------------------------------------------
(* fork() *)

\* Mutant: tables of the kernel are copied as well.
CopiesAll(p) == {r \in Region : table[p][r] # NoTable}

\* clone_pagedirectory() copies the tables that are not those of the kernel
\* and links the others.
Copied(p) == {r \in Region : table[p][r] \notin {NoTable, Kernel}}

CopiedPages(p) ==
  {v \in Page : RegionOf(v) \in Copied(p) /\ Entry(p, v) # NoFrame}

NewFrame(p, v) == NthFrame(Cardinality({w \in CopiedPages(p) : w < v}))

\* The top of the heap after a page table for each copied region.
TopWithTables(p, top) ==
  LET at[n \in 0 .. Cardinality(Region)] ==
        IF n = 0 THEN top ELSE AlignedBase(at[n - 1]) + UnitsPerPage
  IN  at[Cardinality(Copied(p))]

\* The task, its directory, its tables and its kernel stack.
TopAfterFork(p) ==
  LET dirTop == AlignedBase(heapTop + TaskUnits) + DirUnits
  IN  AlignedBase(TopWithTables(p, dirTop)) + KStackUnits

\* Mutant: the frames handed out are not marked.
MarkedNone(p) == used

MarkedAfterFork(p) == used \cup {NewFrame(p, v) : v \in CopiedPages(p)}

LastNewFrame(p) ==
  LET frames == {NewFrame(p, v) : v \in CopiedPages(p)}
  IN  CHOOSE f \in frames : \A g \in frames : g <= f

\* Mutant: the cache holds the frame, not its word.
CacheFrame(p) == LastNewFrame(p)

\* Mutant: the cache is left at the word behind.
CacheBehind(p) == LastNewFrame(p) \div WordBits + 1

CacheAfterFork(p) ==
  IF CopiedPages(p) = {} THEN firstempty ELSE CacheAfter(LastNewFrame(p))

\* Mutant: the frames of the child are left as they were.
MemNotCopied(p) == Filled(mem, heapTop, TopAfterFork(p))

\* The kernel fills its blocks, and copies the frames of the parent.
MemAfterFork(p) ==
  [f \in Frame |->
     IF \E v \in CopiedPages(p) : NewFrame(p, v) = f
     THEN mem[Entry(p, CHOOSE v \in CopiedPages(p) : NewFrame(p, v) = f)]
     ELSE Filled(mem, heapTop, TopAfterFork(p))[f]]

Clone(p, c) ==
  /\ procs' = procs \cup {c}
  /\ heapTop' = TopAfterFork(p)
  /\ used' = MarkedAfterFork(p)
  /\ firstempty' = CacheAfterFork(p)
  /\ table' = [table EXCEPT ![c] = [r \in Region |->
       IF r \in Copied(p) THEN c ELSE table[p][r]]]
  /\ entry' = [entry EXCEPT ![c] = [v \in Page |->
       IF v \in CopiedPages(p) THEN NewFrame(p, v) ELSE NoFrame]]
  /\ mem' = MemAfterFork(p)
  /\ prog' = [prog EXCEPT ![c] = prog[p]]
  /\ UNCHANGED <<loading, reading, execs, writes, mode>>

\* The idle process forks once, to make the first program (kernel_entry).
Fork(p) ==
  /\ InProgram(p)
  /\ p # 0 \/ procs = {0}
  /\ Cardinality(procs) < MaxProcs
  /\ \/ /\ ~Mapped(TopAfterFork(p))
        /\ Stops("fault")
     \/ /\ Mapped(TopAfterFork(p))
        /\ Cardinality(Candidates) < Cardinality(CopiedPages(p))
        /\ Stops("panic")
     \/ /\ Mapped(TopAfterFork(p))
        /\ Cardinality(Candidates) >= Cardinality(CopiedPages(p))
        /\ Clone(p, Cardinality(procs))

----------------------------------------------------------------------------
(* execve() *)

\* The headers and the string table are read into blocks of the heap.
Exec(p, new) ==
  /\ InProgram(p) /\ p # 0
  /\ execs < MaxExecs
  /\ \/ /\ ~Mapped(heapTop + ElfUnits)
        /\ Stops("fault")
     \/ /\ Mapped(heapTop + ElfUnits)
        /\ heapTop' = heapTop + ElfUnits
        /\ mem' = Filled(mem, heapTop, heapTop + ElfUnits)
        /\ prog' = [prog EXCEPT ![p] = new]
        /\ loading' = [loading EXCEPT ![p] = new.loads]
        /\ execs' = execs + 1
        /\ UNCHANGED <<procs, used, firstempty, table, entry, reading, writes,
                       mode>>

\* A page table that does not exist yet is made behind the section, in the
\* directory of this process only.
MakesTable(p, section) == table[p][RegionOf(FirstPage(section))] = NoTable

SectionEnd(section, base) == base + section.size

\* The new page table, if there is one, and the buffers for the read, which
\* begin right behind the section otherwise.
KernelBlocks(p, section, base) ==
  IF MakesTable(p, section) THEN AlignedBase(SectionEnd(section, base))
  ELSE SectionEnd(section, base)

TopAfterMap(p, section, base, buffers) ==
  IF MakesTable(p, section)
  THEN KernelBlocks(p, section, base) + UnitsPerPage + buffers
  ELSE SectionEnd(section, base) + buffers

\* Map a section onto the frames of a block of the heap.
Map(p, section, base, buffers) ==
  LET r        == RegionOf(FirstPage(section))
      owner    == IF MakesTable(p, section) THEN p ELSE table[p][r]
      frame(v) == FrameAt(base) + (v - FirstPage(section))
  IN  /\ entry' = [entry EXCEPT ![owner] = [v \in Page |->
                    IF v \in MappedPages(section) THEN frame(v) ELSE @[v]]]
      /\ used' = used \cup {frame(v) : v \in MappedPages(section)}
      /\ table' = [table EXCEPT ![p][r] = owner]
      /\ heapTop' = TopAfterMap(p, section, base, buffers)

\* The contents of the section that was read, in the pages as they are mapped
\* by now; then the new page table and the buffers for the next read.  A section
\* that does not begin at a page is placed at the beginning of its block, but
\* read to where its address says: its last bytes may lie behind the block.
Contents(p, m) ==
  [f \in Frame |->
     IF \E v \in Pages(reading[p]) : Entry(p, v) = f THEN prog[p].file ELSE m[f]]

Arrived(p, section, base, buffers) ==
  Contents(p, Filled(mem, KernelBlocks(p, section, base),
                     TopAfterMap(p, section, base, buffers)))

\* The read of a section ended, and every page it has bytes in was there: the
\* kernel copies them itself and does not survive a page fault.
CanArrive(p) == \A v \in Pages(reading[p]) : Entry(p, v) # NoFrame

\* The block of a section and the frames mapped for it lie in the heap.
Fits(section, base) ==
  /\ Mapped(SectionEnd(section, base))
  /\ base \div UnitsPerPage + FullPages(section) < HeapPages

\* A section is given memory, unless the heap ends first.  A section behind its
\* end gets frames from 0 on, the page too many the frame that happens to
\* follow: neither is followed any further.  A page table or a buffer there is
\* a fault.
MapSection(p, section, base, buffers) ==
  LET top == TopAfterMap(p, section, base, buffers)
  IN  \/ /\ ~CanArrive(p)
         /\ Stops("unmapped")
      \/ /\ CanArrive(p) /\ ~Fits(section, base)
         /\ Stops("lost")
      \/ /\ CanArrive(p) /\ Fits(section, base) /\ ~Mapped(top)
         /\ Stops("fault")
      \/ /\ CanArrive(p) /\ Fits(section, base) /\ Mapped(top)
         /\ Map(p, section, base, buffers)
         /\ mem' = Arrived(p, section, base, buffers)
         /\ loading' = [loading EXCEPT ![p] = IF @ = <<>> THEN <<>> ELSE Tail(@)]
         /\ reading' = [reading EXCEPT ![p] =
                          IF loading[p] = <<>> THEN NoSection ELSE section]
         /\ UNCHANGED <<procs, firstempty, prog, execs, writes, mode>>

\* One section is there; the next one gets memory on a page boundary.
LoadNext(p) ==
  /\ loading[p] # <<>>
  /\ MapSection(p, Head(loading[p]), AlignedBase(heapTop), ReadUnits)

\* The last section is there; the one that is not in the file gets memory at
\* the top of the heap, in whatever frame that is, which is not cleared, and
\* the new program starts.
LoadLast(p) ==
  /\ loading[p] = <<>> /\ reading[p] # NoSection
  /\ \/ /\ prog[p].bss.size > 0
        /\ MapSection(p, prog[p].bss, heapTop, 0)
     \/ /\ prog[p].bss.size = 0 /\ ~CanArrive(p)
        /\ Stops("unmapped")
     \/ /\ prog[p].bss.size = 0 /\ CanArrive(p)
        /\ mem' = Contents(p, mem)
        /\ reading' = [reading EXCEPT ![p] = NoSection]
        /\ UNCHANGED <<procs, used, firstempty, heapTop, table, entry, prog,
                       loading, execs, writes, mode>>

Load(p) == mode = "run" /\ (LoadNext(p) \/ LoadLast(p))

----------------------------------------------------------------------------

\* The pages a process may use: its stack and the sections of its program.
Own(p) == StackPage \cup ProgramPages(prog[p])

\* A program writes to one of its pages.  Too few of them are mapped for a
\* section that begins late in its first page.
Write(p, v) ==
  /\ InProgram(p)
  /\ writes < MaxWrites
  /\ v \in Own(p)
  /\ \/ /\ Entry(p, v) = NoFrame
        /\ Stops("unmapped")
     \/ /\ Entry(p, v) # NoFrame
        /\ mem' = [mem EXCEPT ![Entry(p, v)] = p]
        /\ writes' = writes + 1
        /\ UNCHANGED <<procs, used, firstempty, heapTop, table, entry, prog,
                       loading, reading, execs, mode>>

\* The kernel stopped (any page fault stops it), or the loader mapped memory
\* that is not its own.
Halted == mode # "run" /\ UNCHANGED vars

Next ==
  \/ \E p \in Proc :
       \/ Fork(p)
       \/ \E new \in Programs : Exec(p, new)
       \/ Load(p)
       \/ \E v \in Page : Write(p, v)
  \/ Halted

Spec == Init /\ [][Next]_vars

----------------------------------------------------------------------------
(* Properties *)

\* Type invariant; the cached word stays within the bitmap.
TypeOK ==
  /\ procs \subseteq Proc
  /\ used \subseteq Frame
  /\ firstempty \in -1 .. Words - 1
  /\ heapTop \in Nat
  /\ table \in [Proc -> [Region -> Proc \cup {Kernel, NoTable}]]
  /\ entry \in [Proc \cup {Kernel} -> [Page -> Frame \cup {NoFrame}]]
  /\ mem \in [Frame -> Int]
  /\ prog \in [Proc -> Programs \cup {NoProgram}]
  /\ loading \in [Proc -> Seq(Section)]
  /\ reading \in [Proc -> Section]
  /\ execs \in 0 .. MaxExecs
  /\ writes \in 0 .. MaxWrites
  /\ mode \in {"run", "fault", "panic", "lost", "unmapped"}

\* The search for a free frame never starts behind one: whatever was allocated
\* by forks and by the loader, no free frame lies below the cached word.
CacheExact == \A f \in Frame \ used : f \div WordBits >= firstempty

\* Every frame that a fork took or the loader mapped, and that a page still
\* leads to, is marked in the bitmap, so that it is not handed out a second time.
MappedMarked ==
  \A o \in Proc \cup {Kernel}, v \in Page :
    entry[o][v] # NoFrame => entry[o][v] \in used

\* The pages a process has to itself: its stack, and the whole pages of the
\* sections read from the file of a program that was not linked into the low
\* megabytes.  The last page of a section is not one of them: its frame goes on
\* with the next block of the heap, be it the kernel's or the bss of another.
PrivatePages(p) ==
  StackPage \cup
  {v \in UNION {WholePages(prog[p].loads[i]) : i \in DOMAIN prog[p].loads} :
     Loaded(p) /\ RegionOf(v) \notin KernelRegion}

\* The frame of a page that is a process's own is mapped by no other page of
\* any process but those of the kernel's window, however forks and loads of
\* several processes interleave, and no kernel block lies in it.  The page too
\* many that the loader maps, a bss that begins within a frame and sections
\* that share a page are no exception.
PrivateFrames ==
  \A p \in procs : \A v \in PrivatePages(p) :
    /\ Entry(p, v) # NoFrame
    /\ mem[Entry(p, v)] # KernelData
    /\ \A q \in procs, w \in Page :
         Entry(q, w) = Entry(p, v) => q = p /\ w = v

\* Every process sees the kernel's own memory: the tables of the kernel are
\* linked into its directory, so that a block another process allocated is
\* there whoever runs when the kernel needs it.
KernelLinked ==
  \A p \in procs, r \in KernelRegion : table[p][r] = Kernel

\* fork() and execve() keep the promise of ProcessMemory for private pages:
\* the child starts with a copy, later each process changes its own pages
\* only, and neither another process nor the kernel touches them.
Nothing == -3

View(p) ==
  LET private == PrivatePages(p)
  IN  [v \in Page |-> IF v \in private /\ Entry(p, v) # NoFrame
                      THEN mem[Entry(p, v)] ELSE Nothing]

Promise == INSTANCE ProcessMemory WITH view <- [p \in Proc |-> View(p)]
KeepsPromise == Promise!Spec

\* Stated in stack_init(): "everything that is allocated AFTER here will be
\* copied (ie: userbased)" when a process forks.  Its program is not.
UserMemoryCopied ==
  \A p, q \in procs : \A v \in ProgramPages(prog[p]) :
    /\ p # q /\ InProgram(p) /\ InProgram(q) /\ prog[p] = prog[q]
    /\ Entry(p, v) # NoFrame
    => Entry(p, v) # Entry(q, v)

\* Stated in _heap_kmalloc(): "Expand the heap if needed".  The memory behind
\* the first pages of the heap is not there.
HeapExpands == mode \notin {"fault", "lost"}

=============================================================================
