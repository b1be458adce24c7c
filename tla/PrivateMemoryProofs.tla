------------------------ MODULE PrivateMemoryProofs ------------------------
(***************************************************************************)
(* Proofs that a process of Memory keeps what it has to itself, and that   *)
(* Memory implements ProcessMemory, for any number of processes, frames    *)
(* and programs.                                                           *)
(*                                                                         *)
(* Apart is inductive together with FrameInv and Regular: the private      *)
(* pages of a process are mapped, to frames no other page has, and those   *)
(* frames are cold: they lie below the frame the heap ends in, or among    *)
(* those a fork takes, and the heap, which only grows, writes to neither.  *)
(***************************************************************************)
EXTENDS MemoryProofs

----------------------------------------------------------------------------
(* What a process has to itself *)

\* The private pages of a process, as far as execve() has mapped them.
PrivateSoFar(p) ==
  StackPage \cup
  {v \in Page : /\ RegionOf(v) \notin KernelRegion
                /\ \E i \in 1 .. Done(p) : v \in WholePages(prog[p].loads[i])}

\* The heap will never come (back) to such a frame.
Cold(f) == f < TopFrame(heapTop) \/ f >= StackFrame

Apart ==
  \A p \in procs : \A v \in PrivateSoFar(p) :
    /\ Entry(p, v) # NoFrame
    /\ Cold(Entry(p, v))
    /\ mem[Entry(p, v)] # KernelData
    /\ \A q \in procs, w \in Page :
         Entry(q, w) = Entry(p, v) => q = p /\ w = v

----------------------------------------------------------------------------
(* Every step keeps the private frames apart *)

\* A process is in tables of its own or in the kernel's, in no others.
LEMMA TableOf ==
  ASSUME FrameInv, Regular, NEW q \in procs, NEW v \in Page
  PROVE  /\ q \in Proc /\ q # Kernel /\ q # NoTable
         /\ RegionOf(v) = Low => table[q][RegionOf(v)] = Kernel
         /\ RegionOf(v) # Low => table[q][RegionOf(v)] \in {q, NoTable}
         /\ RegionOf(v) \notin KernelRegion <=> RegionOf(v) # Low
<1>1. q \in Proc /\ q # Kernel /\ q # NoTable
  BY DEF Regular, TypeOK, Proc, Kernel, NoTable
<1>2. Low \in KernelRegion /\ High \notin KernelRegion /\ Stack \notin KernelRegion
  BY DEF Low, High, Stack, Heap, Image, Window, KernelRegion
<1>3. table[q][Low] = Kernel
  BY <1>2 DEF FrameInv, KernelLinked
<1>4. table[q][Stack] = q /\ table[q][High] \in {q, NoTable}
  BY DEF Regular, OwnTables
<1>5. RegionOf(v) \in {Low, High, Stack}
  BY RegionOfPage
<1> QED
  BY <1>1, <1>2, <1>3, <1>4, <1>5

\* Private pages are pages, and not in the tables of the kernel.
LEMMA PrivateIs ==
  ASSUME NEW p, NEW v \in PrivateSoFar(p)
  PROVE  /\ v \in Page /\ RegionOf(v) \notin KernelRegion
         /\ v \in StackPage => RegionOf(v) = Stack
<1>1. CASE v \in StackPage
  BY <1>1 DEF StackPage, Stack, Low, Heap, Image, Window, KernelRegion
<1>2. CASE v \notin StackPage
  BY <1>2 DEF PrivateSoFar
<1> QED
  BY <1>1, <1>2

\* A page table entry in use is marked, and if it is the heap's, then the heap
\* has come to it.
LEMMA EntryMarked ==
  ASSUME FrameInv, Regular, NEW q \in procs, NEW v \in Page, Entry(q, v) # NoFrame
  PROVE  /\ Entry(q, v) \in used /\ Entry(q, v) \in Frame
         /\ Entry(q, v) <= TopFrame(heapTop) \/ Entry(q, v) >= StackFrame
<1>1. q \in Proc
  BY DEF Regular, TypeOK
<1>2. PICK o \in Proc \cup {Kernel} : Entry(q, v) = entry[o][v]
  BY <1>1, EntryIs DEF Regular
<1>3. Entry(q, v) \in used
  BY <1>2 DEF FrameInv, MappedMarked
<1>4. Entry(q, v) \in Frame
  BY <1>1, EntryIs DEF Regular
<1>5. Entry(q, v) \in HeapFrame .. TopFrame(heapTop) \/ Entry(q, v) >= StackFrame
  BY <1>2 DEF Regular, HeapOrder
<1> QED
  BY <1>3, <1>4, <1>5

\* The whole pages of a section are mapped with it, and not with a section that
\* comes after it, though the two may share a page.
LEMMA WholeBefore ==
  ASSUME NEW section \in Section, NEW v \in WholePages(section)
  PROVE  /\ v \in MappedPages(section) /\ v \in Int
         /\ FirstPage(section) \in Nat /\ FullPages(section) \in Nat
         /\ FirstPage(section) <= v
         /\ v - FirstPage(section) < FullPages(section)
         /\ \A next \in Section :
              SectionLimit(section) <= next.addr => v \notin MappedPages(next)
<1> DEFINE a == FirstPage(section)
           n == FullPages(section)
<1>1. a \in Nat /\ n \in Nat /\ section.addr \in Nat /\ section.size \in Nat
  BY SectionIs
<1>2. v \in a .. a + n - 1
  BY DEF WholePages
<1>3. ASSUME NEW next \in Section, SectionLimit(section) <= next.addr
      PROVE  v \notin MappedPages(next)
  <2> DEFINE b == FirstPage(next)
             m == FullPages(next)
             limit == SectionLimit(section)
  <2>1. b \in Nat /\ m \in Nat /\ next.addr \in Nat /\ UnitsPerPage \in Nat \ {0}
    BY SectionIs, HeapSizes
  <2>2. limit \in Nat /\ a + n <= limit \div UnitsPerPage
    <3>1. limit = section.addr + section.size
      BY DEF SectionLimit
    <3> HIDE DEF limit
    <3>2. a + n <= (section.addr + section.size) \div UnitsPerPage
      BY <1>1, WholeUp DEF FirstPage, FullPages
    <3> QED
      BY <1>1, <3>1, <3>2
  <2>3. limit \div UnitsPerPage <= b /\ limit \div UnitsPerPage \in Nat
    BY <1>3, <2>1, <2>2, QuotientKeepsOrder DEF FirstPage
  <2>4. MappedPages(next) = b .. b + m
    BY DEF MappedPages
  <2> HIDE DEF a, n, b, m, limit
  <2> QED
    BY <1>1, <1>2, <2>1, <2>2, <2>3, <2>4
<1>4. MappedPages(section) = a .. a + n
  BY DEF MappedPages
<1> HIDE DEF a, n
<1>5. v \in MappedPages(section) /\ v \in Int /\ a <= v /\ v - a < n
  BY <1>1, <1>2, <1>4
<1> QED
  BY <1>1, <1>3, <1>5 DEF a, n

\* What the kernel fills is never a private frame.
LEMMA ColdStays ==
  ASSUME Regular, NEW f \in Frame, Cold(f), NEW from \in Nat, NEW to \in Nat,
         heapTop <= from, from <= to, Mapped(to)
  PROVE  Filled(mem, from, to)[f] = mem[f]
<1>1. heapTop \in Nat /\ mem \in [Frame -> Int]
  BY DEF Regular, TypeOK
<1>2. TopFrame(heapTop) <= TopFrame(from) /\ TopFrame(from) \in Nat /\ TopFrame(heapTop) \in Nat
  BY <1>1, TopFrameUp
<1>3. \/ Filled(mem, from, to)[f] = mem[f]
      \/ TopFrame(from) <= f /\ f < StackFrame
  BY <1>1, FilledIs
<1>4. f \in Nat /\ StackFrame \in Nat
  BY Sizes, HeapSizes DEF Frame
<1>5. f < TopFrame(heapTop) \/ f >= StackFrame
  BY DEF Cold
<1> QED
  BY <1>2, <1>3, <1>4, <1>5

LEMMA InitApart == Init => Apart
<1> SUFFICES ASSUME Init PROVE Apart
  OBVIOUS
<1>1. Regular /\ FrameInv
  BY InitRegular, InitFrames
<1>2. procs = {0} /\ 0 \in Proc
  BY <1>1 DEF Init, Regular, TypeOK
<1>3. PrivateSoFar(0) = StackPage
  <2>1. prog[0] = NoProgram /\ loading[0] = <<>>
    BY <1>2 DEF Init
  <2>2. Done(0) = 0
    BY <2>1 DEF Done, NoProgram
  <2>3. 1 .. Done(0) = {}
    BY <2>2
  <2> QED
    BY <2>3 DEF PrivateSoFar
<1>4. TablePages \in Nat \ {0} /\ StackPages \in Nat /\ StackFrame \in Nat
  BY Sizes, HeapSizes
<1>5. ASSUME NEW v \in Page
      PROVE  Entry(0, v) = IF v \in StackPage THEN StackFrame + (v % TablePages) ELSE NoFrame
  <2>1. /\ table[0][RegionOf(v)] \in {0, Kernel, NoTable}
        /\ RegionOf(v) = Stack => table[0][RegionOf(v)] = 0
    <3>1. table[0][Stack] = 0
      BY <1>1, <1>2 DEF Regular, OwnTables
    <3> QED
      BY <1>1, <1>2, <3>1, TableOf
  <2>2. v \in StackPage => RegionOf(v) = Stack
    BY DEF StackPage
  <2>3. \A o \in Proc \cup {Kernel} :
          entry[o][v] = IF o = 0 /\ v \in StackPage
                        THEN StackFrame + (v % TablePages) ELSE NoFrame
    BY DEF Init
  <2>4. Kernel # 0 /\ NoTable # 0
    BY DEF Kernel, NoTable
  <2> QED
    BY <1>2, <2>1, <2>2, <2>3, <2>4 DEF Entry
<1>6. ASSUME NEW v \in StackPage
      PROVE  /\ Entry(0, v) # NoFrame /\ Cold(Entry(0, v))
             /\ mem[Entry(0, v)] # KernelData
             /\ \A w \in Page : Entry(0, w) = Entry(0, v) => w = v
  <2> DEFINE s == v % TablePages
  <2>1. v \in Nat /\ s \in Nat /\ v \in Page
    BY <1>4 DEF StackPage, Page
  <2>2. Entry(0, v) = StackFrame + s
    BY <1>5, <2>1
  <2>3. Entry(0, v) # NoFrame /\ Entry(0, v) >= StackFrame
    BY <1>4, <2>1, <2>2 DEF NoFrame
  <2>4. mem[Entry(0, v)] # KernelData
    <3>1. Entry(0, v) \in Frame
      BY <1>1, <1>2, <2>1, <2>3, EntryIs DEF Regular
    <3> QED
      BY <3>1 DEF Init, Junk, KernelData
  <2>5. ASSUME NEW w \in Page, Entry(0, w) = Entry(0, v) PROVE w = v
    <3>1. w \in StackPage /\ Entry(0, w) = StackFrame + (w % TablePages)
      BY <1>5, <2>3, <2>5
    <3>2. w \in Nat /\ w % TablePages \in Nat
      BY <1>4, <3>1 DEF StackPage, Page
    <3>3. w % TablePages = s
      BY <1>4, <2>1, <2>2, <2>5, <3>1, <3>2
    <3>4. w \div TablePages = v \div TablePages
      BY <3>1 DEF StackPage, RegionOf
    <3>5. /\ w = TablePages * (w \div TablePages) + (w % TablePages)
          /\ v = TablePages * (v \div TablePages) + (v % TablePages)
      BY <1>4, <2>1, <3>2, DivMod
    <3> QED
      BY <3>3, <3>4, <3>5
  <2> QED
    BY <2>3, <2>4, <2>5 DEF Cold
<1> QED
  BY <1>2, <1>3, <1>6, PrivateIs DEF Apart

\* A fork: what a process has to itself stays, and the child gets a copy of
\* what its parent has, in frames of its own.
LEMMA ForkApart ==
  ASSUME FrameInv, Regular, Apart, NEW p \in procs, NEW c, c = Cardinality(procs),
         c < MaxProcs, Loaded(p), Mapped(TopAfterFork(p)),
         Cardinality(Candidates) >= Cardinality(CopiedPages(p)), Clone(p, c)
  PROVE  /\ Apart'
         /\ procs' = procs \cup {c}
         /\ \A q \in procs : PrivateSoFar(q)' = PrivateSoFar(q)
         /\ PrivateSoFar(c)' = PrivateSoFar(p)
         /\ \A q \in procs : \A v \in PrivateSoFar(q) :
              Entry(q, v)' = Entry(q, v) /\ mem'[Entry(q, v)] = mem[Entry(q, v)]
         /\ \A v \in PrivateSoFar(p) :
              Entry(c, v)' # NoFrame /\ mem'[Entry(c, v)'] = mem[Entry(p, v)]
<1>1. /\ c \in Proc /\ c \notin procs /\ c # Kernel
      /\ procs \cup {c} = 0 .. c
  BY NextProcess
<1>2. /\ procs' = procs \cup {c}
      /\ heapTop' = TopAfterFork(p)
      /\ used' = MarkedAfterFork(p)
      /\ table' = [table EXCEPT ![c] = [r \in Region |->
           IF r \in Copied(p) THEN c ELSE table[p][r]]]
      /\ entry' = [entry EXCEPT ![c] = [v \in Page |->
           IF v \in CopiedPages(p) THEN NewFrame(p, v) ELSE NoFrame]]
      /\ mem' = MemAfterFork(p)
      /\ prog' = [prog EXCEPT ![c] = prog[p]]
      /\ loading' = loading /\ reading' = reading
  BY DEF Clone
<1>3. /\ procs \subseteq Proc /\ p \in Proc
      /\ table \in [Proc -> [Region -> Proc \cup {Kernel, NoTable}]]
      /\ entry \in [Proc \cup {Kernel} -> [Page -> Frame \cup {NoFrame}]]
      /\ mem \in [Frame -> Int] /\ heapTop \in Nat
      /\ prog \in [Proc -> Programs \cup {NoProgram}]
  BY DEF Regular, TypeOK
<1>4. TopAfterFork(p) \in Nat /\ heapTop <= TopAfterFork(p)
  BY <1>3, ForkUp
<1>5. ASSUME NEW v \in CopiedPages(p)
      PROVE  /\ v \in Page /\ NewFrame(p, v) \in Frame /\ NewFrame(p, v) \notin used
             /\ NewFrame(p, v) # NoFrame /\ NewFrame(p, v) >= StackFrame
             /\ \A w \in CopiedPages(p) : NewFrame(p, w) = NewFrame(p, v) => w = v
  <2>1. /\ NewFrame(p, v) \in Frame /\ NewFrame(p, v) \notin used
        /\ \A w \in CopiedPages(p) : NewFrame(p, w) = NewFrame(p, v) => w = v
    BY NewFramesDiffer
  <2>2. /\ 0 .. FirstFree - 1 \subseteq used /\ FirstFree = StackFrame + StackPages
        /\ StackPages \in Nat /\ StackFrame \in Nat /\ FrameCount \in Nat
    BY Sizes, HeapSizes DEF Regular, HeapOrder
  <2>3. NewFrame(p, v) >= StackFrame /\ NewFrame(p, v) # NoFrame
    BY <2>1, <2>2 DEF Frame, NoFrame
  <2> QED
    BY <2>1, <2>3 DEF CopiedPages
<1>6. ASSUME NEW q \in procs, NEW w \in Page
      PROVE  Entry(q, w)' = Entry(q, w)
  <2>1. q # c /\ q \in Proc /\ table'[q] = table[q]
    BY <1>1, <1>2, <1>3
  <2>2. table[q][RegionOf(w)] \in {q, Kernel, NoTable}
    BY TableOf
  <2>3. table[q][RegionOf(w)] # NoTable =>
          entry'[table[q][RegionOf(w)]] = entry[table[q][RegionOf(w)]]
    BY <1>1, <1>2, <1>3, <2>1, <2>2
  <2> QED
    BY <2>1, <2>3 DEF Entry, RegionOf
<1>7. ASSUME NEW w \in Page
      PROVE  Entry(c, w)' = IF w \in CopiedPages(p) THEN NewFrame(p, w) ELSE Entry(p, w)
  <2> DEFINE r == RegionOf(w)
             t == table[p][RegionOf(w)]
  <2>1. r \in Region /\ t \in {p, Kernel, NoTable} /\ p # NoTable /\ p # Kernel
    BY RegionOfPage, TableOf
  <2>2. table'[c][r] = IF r \in Copied(p) THEN c ELSE t
    BY <1>1, <1>2, <1>3, <2>1
  <2>3. Entry(c, w)' = IF table'[c][r] = NoTable THEN NoFrame ELSE entry'[table'[c][r]][w]
    BY DEF Entry, RegionOf
  <2>4. c # NoTable
    BY <1>1 DEF Proc, NoTable
  <2>5. CASE t = p
    <3>1. r \in Copied(p)
      BY <2>1, <2>5 DEF Copied
    <3>2. Entry(c, w)' = entry'[c][w]
      BY <2>2, <2>3, <2>4, <3>1
    <3>3. entry'[c][w] = IF w \in CopiedPages(p) THEN NewFrame(p, w) ELSE NoFrame
      BY <1>1, <1>2, <1>3
    <3>4. w \notin CopiedPages(p) => Entry(p, w) = NoFrame
      BY <3>1 DEF CopiedPages
    <3> QED
      BY <3>2, <3>3, <3>4
  <2>6. CASE t # p
    <3>1. r \notin Copied(p) /\ w \notin CopiedPages(p)
      BY <2>1, <2>6 DEF Copied, CopiedPages
    <3>2. t = Kernel => entry'[t] = entry[t]
      BY <1>1, <1>2, <1>3
    <3>3. Entry(p, w) = IF t = NoTable THEN NoFrame ELSE entry[t][w]
      BY DEF Entry
    <3> QED
      BY <2>1, <2>2, <2>3, <2>6, <3>1, <3>2, <3>3
  <2> QED
    BY <2>5, <2>6
<1>8. ASSUME NEW q \in procs
      PROVE  PrivateSoFar(q)' = PrivateSoFar(q)
  <2>1. prog'[q] = prog[q] /\ loading'[q] = loading[q]
    BY <1>1, <1>2, <1>3
  <2> QED
    BY <2>1 DEF PrivateSoFar, Done, StackPage, RegionOf, WholePages,
    FirstPage, FullPages
<1>9. PrivateSoFar(c)' = PrivateSoFar(p)
  <2>1. prog'[c] = prog[p] /\ loading'[c] = loading[p]
    BY <1>1, <1>2, <1>3 DEF FrameInv, MemTyped, Loaded
  <2> QED
    BY <2>1 DEF PrivateSoFar, Done, StackPage, RegionOf, WholePages,
    FirstPage, FullPages
<1>10. ASSUME NEW v \in PrivateSoFar(p) PROVE v \in CopiedPages(p)
  <2>1. v \in Page /\ RegionOf(v) \notin KernelRegion
    BY PrivateIs
  <2>2. Entry(p, v) # NoFrame
    BY DEF Apart
  <2>3. table[p][RegionOf(v)] \in {p, NoTable} /\ p # NoTable /\ p # Kernel
    BY <2>1, TableOf
  <2>4. table[p][RegionOf(v)] = p
    BY <2>2, <2>3 DEF Entry
  <2> QED
    BY <2>1, <2>2, <2>3, <2>4, RegionOfPage DEF CopiedPages, Copied
<1>11. ASSUME NEW q \in procs, NEW v \in PrivateSoFar(q)
       PROVE  /\ Entry(q, v) # NoFrame /\ Entry(q, v) \in used /\ Entry(q, v) \in Frame
              /\ Cold(Entry(q, v)) /\ Cold(Entry(q, v))'
              /\ mem'[Entry(q, v)] = mem[Entry(q, v)]
  <2> DEFINE f == Entry(q, v)
  <2>1. v \in Page
    BY PrivateIs
  <2>2. f # NoFrame /\ Cold(f)
    BY DEF Apart
  <2>3. f \in used /\ f \in Frame
    BY <2>1, <2>2, EntryMarked
  <2>4. Entry(q, v)' = f
    BY <1>6, <2>1
  <2> HIDE DEF f
  <2>5. f < TopFrame(heapTop') \/ f >= StackFrame
    <3>1. /\ TopFrame(heapTop) \in Nat /\ TopFrame(heapTop') \in Nat
          /\ TopFrame(heapTop) <= TopFrame(heapTop')
      BY <1>2, <1>3, <1>4, TopFrameUp
    <3>2. f \in Nat
      BY <2>3, Sizes DEF Frame
    <3> QED
      BY <2>2, <3>1, <3>2 DEF Cold
  <2>6. mem'[f] = mem[f]
    <3>1. \A w \in CopiedPages(p) : NewFrame(p, w) # f
      BY <1>5, <2>3
    <3>2. mem'[f] = Filled(mem, heapTop, TopAfterFork(p))[f]
      BY <1>2, <2>3, <3>1, CopiedMem
    <3>3. Filled(mem, heapTop, TopAfterFork(p))[f] = mem[f]
      BY <1>3, <1>4, <2>2, <2>3, ColdStays
    <3> QED
      BY <3>2, <3>3
  <2> QED
    BY <2>2, <2>3, <2>4, <2>5, <2>6 DEF f, Cold, TopFrame
<1>12. ASSUME NEW q \in procs, NEW v \in PrivateSoFar(q), NEW x \in procs', NEW w \in Page,
              Entry(x, w)' = Entry(q, v)
       PROVE  x = q /\ w = v
  <2>1. CASE x \in procs
    BY <1>6, <1>12, <2>1 DEF Apart
  <2>2. CASE x = c
    <3>1. w \notin CopiedPages(p)
      BY <1>5, <1>7, <1>11, <1>12, <2>2
    <3>2. Entry(p, w) = Entry(q, v)
      BY <1>7, <1>12, <2>2, <3>1
    <3>3. p = q /\ w = v
      BY <3>2 DEF Apart
    <3> QED
      BY <1>10, <3>1, <3>3
  <2> QED
    BY <1>2, <2>1, <2>2
<1>13. ASSUME NEW v \in PrivateSoFar(p)
       PROVE  /\ Entry(c, v)' = NewFrame(p, v)
              /\ mem'[NewFrame(p, v)] = mem[Entry(p, v)]
              /\ \A x \in procs', w \in Page :
                   Entry(x, w)' = NewFrame(p, v) => x = c /\ w = v
  <2>1. v \in CopiedPages(p) /\ v \in Page
    BY <1>10, PrivateIs
  <2>2. Entry(c, v)' = NewFrame(p, v)
    BY <1>7, <2>1
  <2>3. mem'[NewFrame(p, v)] = mem[Entry(p, v)]
    BY <1>2, <2>1, CopiedMem
  <2>4. NewFrame(p, v) # NoFrame /\ NewFrame(p, v) \notin used
    BY <1>5, <2>1
  <2>5. \A x \in procs, w \in Page : Entry(x, w) # NewFrame(p, v)
    BY <2>4, EntryMarked
  <2>6. ASSUME NEW x \in procs', NEW w \in Page, Entry(x, w)' = NewFrame(p, v)
        PROVE  x = c /\ w = v
    <3>1. x = c
      BY <1>2, <1>6, <2>5, <2>6
    <3>2. w \in CopiedPages(p)
      BY <1>7, <2>5, <2>6, <3>1
    <3>3. NewFrame(p, w) = NewFrame(p, v)
      BY <1>7, <2>6, <3>1, <3>2
    <3> QED
      BY <1>5, <2>1, <3>1, <3>2, <3>3
  <2> QED
    BY <2>2, <2>3, <2>6
<1>14. Apart'
  <2> SUFFICES ASSUME NEW q \in procs', NEW v \in PrivateSoFar(q)'
               PROVE  /\ Entry(q, v)' # NoFrame
                      /\ Cold(Entry(q, v))'
                      /\ mem'[Entry(q, v)'] # KernelData
                      /\ \A x \in procs', w \in Page :
                           Entry(x, w)' = Entry(q, v)' => x = q /\ w = v
    BY DEF Apart
  <2>1. CASE q \in procs
    <3>1. v \in PrivateSoFar(q) /\ v \in Page
      BY <1>8, <2>1, PrivateIs
    <3>2. Entry(q, v)' = Entry(q, v)
      BY <1>6, <2>1, <3>1
    <3>3. mem[Entry(q, v)] # KernelData
      BY <2>1, <3>1 DEF Apart
    <3> QED
      BY <1>11, <1>12, <2>1, <3>1, <3>2, <3>3
  <2>2. CASE q = c
    <3>1. v \in PrivateSoFar(p)
      BY <1>9, <2>2
    <3>2. v \in CopiedPages(p)
      BY <1>10, <3>1
    <3>3. mem[Entry(p, v)] # KernelData
      BY <3>1 DEF Apart
    <3>4. Entry(q, v)' = NewFrame(p, v)
      BY <1>13, <2>2, <3>1
    <3>5. NewFrame(p, v) # NoFrame /\ NewFrame(p, v) >= StackFrame
      BY <1>5, <3>2
    <3>6. Cold(Entry(q, v))'
      BY <3>4, <3>5 DEF Cold, StackFrame, HeapFrame
    <3> QED
      BY <1>13, <2>2, <3>1, <3>3, <3>4, <3>5, <3>6
  <2> QED
    BY <1>2, <2>1, <2>2
<1>15. \A q \in procs : \A v \in PrivateSoFar(q) : Entry(q, v)' = Entry(q, v)
  BY <1>6, PrivateIs
<1>16. \A v \in PrivateSoFar(p) :
         Entry(c, v)' # NoFrame /\ mem'[Entry(c, v)'] = mem[Entry(p, v)]
  BY <1>5, <1>10, <1>13
<1> QED
  BY <1>2, <1>8, <1>9, <1>11, <1>14, <1>15, <1>16

\* An execve() that begins: the private pages but for the stack are given up,
\* and no private frame is written.
LEMMA ExecApart ==
  ASSUME FrameInv, Regular, Apart, NEW p \in Proc, NEW new \in Programs,
         Exec(p, new), mode' = "run"
  PROVE  /\ Apart'
         /\ p \in procs /\ procs' = procs
         /\ \A q \in procs \ {p} : PrivateSoFar(q)' = PrivateSoFar(q)
         /\ PrivateSoFar(p)' \subseteq PrivateSoFar(p)
         /\ \A q \in procs : \A v \in PrivateSoFar(q) :
              Entry(q, v)' = Entry(q, v) /\ mem'[Entry(q, v)] = mem[Entry(q, v)]
<1>1. /\ Mapped(heapTop + ElfUnits) /\ p \in procs
      /\ heapTop' = heapTop + ElfUnits
      /\ mem' = Filled(mem, heapTop, heapTop + ElfUnits)
      /\ prog' = [prog EXCEPT ![p] = new]
      /\ loading' = [loading EXCEPT ![p] = new.loads]
      /\ UNCHANGED <<procs, used, firstempty, table, entry, reading, writes, mode>>
  BY DEF Exec, InProgram, Stops
<1>2. new.loads \in Seq(Section)
  BY MemoryAssumption DEF Program
<1>3. heapTop \in Nat /\ heapTop + ElfUnits \in Nat /\ heapTop <= heapTop + ElfUnits
      /\ heapTop <= heapTop
  BY HeapSizes DEF Regular, TypeOK
<1>4. ASSUME NEW q \in procs, NEW v \in Page PROVE Entry(q, v)' = Entry(q, v)
  BY <1>1 DEF Entry, RegionOf
<1>5. ASSUME NEW q \in procs \ {p} PROVE PrivateSoFar(q)' = PrivateSoFar(q)
  <2>1. prog'[q] = prog[q] /\ loading'[q] = loading[q]
    BY <1>1 DEF Regular, TypeOK
  <2> QED
    BY <2>1 DEF PrivateSoFar, Done, StackPage, RegionOf, WholePages,
    FirstPage, FullPages
<1>6. PrivateSoFar(p)' = StackPage
  <2>1. prog'[p] = new /\ loading'[p] = new.loads
    BY <1>1 DEF Regular, TypeOK
  <2>2. Len(new.loads) \in Nat
    BY <1>2
  <2>3. Done(p)' = 0
    BY <2>1, <2>2 DEF Done
  <2>4. 1 .. 0 = {}
    OBVIOUS
  <2> QED
    BY <2>3, <2>4 DEF PrivateSoFar, StackPage, RegionOf
<1>7. StackPage \subseteq PrivateSoFar(p)
  BY DEF PrivateSoFar
<1>8. ASSUME NEW q \in procs, NEW v \in PrivateSoFar(q)
      PROVE  /\ Entry(q, v)' = Entry(q, v)
             /\ mem'[Entry(q, v)] = mem[Entry(q, v)]
             /\ Cold(Entry(q, v))'
  <2> DEFINE f == Entry(q, v)
  <2>1. v \in Page
    BY PrivateIs
  <2>2. f # NoFrame /\ Cold(f)
    BY DEF Apart
  <2>3. f \in Frame /\ Entry(q, v)' = f
    BY <1>4, <2>1, <2>2, EntryMarked
  <2> HIDE DEF f
  <2>4. mem'[f] = mem[f]
    BY <1>1, <1>3, <2>2, <2>3, ColdStays
  <2>5. f < TopFrame(heapTop') \/ f >= StackFrame
    <3>1. /\ TopFrame(heapTop) \in Nat /\ TopFrame(heapTop') \in Nat
          /\ TopFrame(heapTop) <= TopFrame(heapTop')
      BY <1>1, <1>3, TopFrameUp
    <3>2. f \in Nat
      BY <2>3, Sizes DEF Frame
    <3> QED
      BY <2>2, <3>1, <3>2 DEF Cold
  <2> QED
    BY <2>3, <2>4, <2>5 DEF f, Cold, TopFrame
<1>9. Apart'
  <2> SUFFICES ASSUME NEW q \in procs, NEW v \in PrivateSoFar(q)
               PROVE  /\ Entry(q, v)' # NoFrame
                      /\ Cold(Entry(q, v))'
                      /\ mem'[Entry(q, v)'] # KernelData
                      /\ \A x \in procs, w \in Page :
                           Entry(x, w)' = Entry(q, v)' => x = q /\ w = v
    BY <1>1, <1>5, <1>6, <1>7 DEF Apart
  <2>1. /\ Entry(q, v) # NoFrame /\ mem[Entry(q, v)] # KernelData
        /\ \A x \in procs, w \in Page : Entry(x, w) = Entry(q, v) => x = q /\ w = v
    BY DEF Apart
  <2> QED
    BY <1>4, <1>8, <2>1
<1> QED
  BY <1>1, <1>5, <1>6, <1>7, <1>8, <1>9

\* The pages a section is read into are not those of the stack.
LEMMA ReadingIs ==
  ASSUME Regular, NEW p \in Proc, NEW u \in Pages(reading[p])
  PROVE  u \in Page /\ RegionOf(u) # Stack
<1>1. CASE reading[p] = NoSection
  <2>1. Pages(reading[p]) = {unit \div UnitsPerPage : unit \in 0 .. 0 + 0 - 1}
    BY <1>1 DEF Pages, NoSection
  <2>2. 0 .. 0 + 0 - 1 = {}
    OBVIOUS
  <2> QED
    BY <2>1, <2>2
<1>2. CASE reading[p] # NoSection
  <2>1. PICK i \in DOMAIN prog[p].loads : reading[p] = prog[p].loads[i]
    BY <1>2 DEF Regular, InOrder
  <2>2. OneTable(reading[p]) /\ reading[p] \in Section
    BY <2>1 DEF Regular, InOrder, LaidOut, TypeOK
  <2>3. RegionOf(u) = RegionOf(FirstPage(reading[p])) /\ u \in Page
    BY <2>2, OneTableIs
  <2> QED
    BY <2>2, <2>3 DEF OneTable, Low, High, Stack
<1> QED
  BY <1>1, <1>2

\* What the processes see after a section was mapped.
LEMMA MapEntry ==
  ASSUME FrameInv, Regular, NEW p \in procs, NEW section \in Section, OneTable(section),
         NEW base, NEW buffers, Map(p, section, base, buffers), NEW q \in procs, NEW w \in Page
  PROVE  Entry(q, w)' =
           IF w \in MappedPages(section) /\ (q = p \/ RegionOf(w) = Low)
           THEN FrameAt(base) + (w - FirstPage(section)) ELSE Entry(q, w)
<1> DEFINE r0       == RegionOf(FirstPage(section))
           owner    == Owner(p, section)
           frame(v) == FrameAt(base) + (v - FirstPage(section))
           pages    == MappedPages(section)
           r        == RegionOf(w)
           t        == table[q][r]
           t1       == table'[q][r]
<1>1. /\ \A o \in Proc \cup {Kernel}, v \in Page :
           entry'[o][v] = IF o = owner /\ v \in pages THEN frame(v) ELSE entry[o][v]
      /\ \A x \in Proc, k \in Region :
           table'[x][k] = IF x = p /\ k = r0 THEN owner ELSE table[x][k]
  BY MapIs
<1>2. /\ p \in Proc /\ r0 \in Region /\ owner \in Proc \cup {Kernel}
      /\ \/ r0 = Low /\ owner = Kernel /\ table[p][Low] = Kernel
         \/ r0 = High /\ owner = p
  BY OwnerIs
<1>3. /\ q \in Proc /\ q # Kernel /\ q # NoTable
      /\ r = Low => t = Kernel
      /\ r # Low => t \in {q, NoTable}
      /\ r \in Region
  BY TableOf, RegionOfPage
<1>4. w \in pages => r = r0
  BY OneTableIs
<1>5. Entry(q, w)' = IF t1 = NoTable THEN NoFrame ELSE entry'[t1][w]
  BY DEF Entry, RegionOf
<1>6. Entry(q, w) = IF t = NoTable THEN NoFrame ELSE entry[t][w]
  BY DEF Entry
<1>7. t1 = IF q = p /\ r = r0 THEN owner ELSE t
  BY <1>1, <1>3
<1>8. p # Kernel /\ p # NoTable /\ Kernel # NoTable /\ Low # High
  BY TableOf DEF Kernel, NoTable, Low, High
<1>9. t = NoTable => entry[q][w] = NoFrame
  BY <1>3 DEF Regular, OwnTables
<1> HIDE DEF r0, owner, frame, pages, r, t, t1
<1>10. CASE r0 = Low
  <2>1. owner = Kernel /\ t1 = t
    BY <1>2, <1>3, <1>7, <1>8, <1>10
  <2>2. CASE r = Low
    <3>1. t = Kernel
      BY <1>3, <2>2
    <3>2. entry'[t][w] = IF w \in pages THEN frame(w) ELSE entry[t][w]
      BY <1>1, <2>1, <3>1
    <3> QED
      BY <1>5, <1>6, <1>8, <2>1, <2>2, <3>1, <3>2 DEF r, pages, frame
  <2>3. CASE r # Low
    <3>1. w \notin pages
      BY <1>4, <1>10, <2>3
    <3>2. t # NoTable => entry'[t][w] = entry[t][w]
      BY <1>1, <1>3, <2>3, <3>1
    <3> QED
      BY <1>5, <1>6, <2>1, <3>1, <3>2 DEF pages
  <2> QED
    BY <2>2, <2>3
<1>11. CASE r0 = High
  <2>1. owner = p
    BY <1>2, <1>8, <1>11
  <2>2. CASE q = p /\ r = High
    <3>1. t1 = p
      BY <1>7, <1>11, <2>1, <2>2
    <3>2. entry'[p][w] = IF w \in pages THEN frame(w) ELSE entry[p][w]
      BY <1>1, <1>2, <2>1
    <3>3. t \in {p, NoTable}
      BY <1>3, <1>8, <2>2
    <3>4. entry[p][w] = Entry(q, w)
      BY <1>6, <1>9, <2>2, <3>3
    <3> QED
      BY <1>5, <1>8, <2>2, <3>1, <3>2, <3>4 DEF pages, frame
  <2>3. CASE ~(q = p /\ r = High)
    <3>1. t1 = t
      BY <1>7, <1>11, <2>3
    <3>2. ~(w \in pages /\ (q = p \/ r = Low))
      BY <1>4, <1>8, <1>11, <2>3
    <3>3. t # NoTable => entry'[t][w] = entry[t][w]
      <4>1. CASE t = Kernel
        BY <1>1, <1>8, <2>1, <4>1
      <4>2. CASE t # Kernel /\ t # NoTable
        <5>1. t = q
          BY <1>3, <4>2
        <5>2. q = p => w \notin pages
          BY <3>2
        <5> QED
          BY <1>1, <1>3, <2>1, <5>1, <5>2
      <4> QED
        BY <4>1, <4>2
    <3> QED
      BY <1>5, <1>6, <3>1, <3>2, <3>3 DEF pages, r
  <2> QED
    BY <2>2, <2>3
<1> QED
  BY <1>2, <1>10, <1>11 DEF r0

\* A section that is given memory: its frames, the page too many included, are
\* nobody's private frames, and the file that arrives meanwhile goes to the
\* process's own pages.
LEMMA MapApart ==
  ASSUME FrameInv, Regular, Apart, NEW p \in procs, NEW section \in Section,
         OneTable(section), NEW base \in Nat, heapTop <= base,
         NEW buffers \in Nat, MapSection(p, section, base, buffers), mode' = "run",
         \A v \in PrivateSoFar(p) : v \notin MappedPages(section)
  PROVE  \A q \in procs : \A v \in PrivateSoFar(q) :
           /\ Entry(q, v) # NoFrame
           /\ Entry(q, v)' = Entry(q, v)
           /\ Cold(Entry(q, v))'
           /\ mem'[Entry(q, v)] # KernelData
           /\ q # p \/ v \in StackPage => mem'[Entry(q, v)] = mem[Entry(q, v)]
           /\ \A x \in procs, w \in Page : Entry(x, w)' = Entry(q, v) => x = q /\ w = v
<1> DEFINE frame(v) == FrameAt(base) + (v - FirstPage(section))
           pages    == MappedPages(section)
           end      == SectionEnd(section, base)
           top      == TopAfterMap(p, section, base, buffers)
<1>1. /\ Fits(section, base) /\ Mapped(top)
      /\ Map(p, section, base, buffers)
      /\ mem' = Arrived(p, section, base, buffers)
      /\ heapTop' = top
  BY DEF MapSection, Stops, Map
<1>2. \A q \in procs, w \in Page :
        Entry(q, w)' = IF w \in pages /\ (q = p \/ RegionOf(w) = Low)
                       THEN frame(w) ELSE Entry(q, w)
  BY <1>1, MapEntry
<1>3. \A v \in pages : /\ frame(v) \in TopFrame(base) .. TopFrame(end)
                       /\ frame(v) < StackFrame
  BY <1>1, SectionFrame
<1>4. end \in Nat /\ base <= end /\ top \in Nat /\ end <= top
  BY <1>1, MapUp
<1>5. p \in Proc /\ heapTop \in Nat
  BY DEF Regular, TypeOK
<1>6. \A f \in Frame :
        \/ mem'[f] = prog[p].file /\ \E u \in Pages(reading[p]) : Entry(p, u) = f
        \/ mem'[f] = mem[f]
        \/ mem'[f] = KernelData /\ TopFrame(end) <= f /\ f < StackFrame
  BY <1>1, <1>5, ArrivedIs
<1>7. prog[p].file # KernelData
  BY <1>5, ProgramsAre DEF KernelData
<1> HIDE DEF frame, pages, end, top
<1>8. /\ TopFrame(heapTop) \in Nat /\ TopFrame(base) \in Nat /\ TopFrame(end) \in Nat
      /\ TopFrame(top) \in Nat /\ TopFrame(heapTop) <= TopFrame(base)
      /\ TopFrame(base) <= TopFrame(end) /\ TopFrame(end) <= TopFrame(top)
      /\ StackFrame \in Nat
  <2>1. TopFrame(heapTop) \in Nat /\ TopFrame(heapTop) <= TopFrame(base)
    BY <1>5, TopFrameUp
  <2>2. TopFrame(base) \in Nat /\ TopFrame(base) <= TopFrame(end)
    BY <1>4, TopFrameUp
  <2>3. TopFrame(end) \in Nat /\ TopFrame(top) \in Nat /\ TopFrame(end) <= TopFrame(top)
    BY <1>4, TopFrameUp
  <2> QED
    BY <2>1, <2>2, <2>3, Sizes, HeapSizes
<1> SUFFICES ASSUME NEW q \in procs, NEW v \in PrivateSoFar(q)
             PROVE  /\ Entry(q, v) # NoFrame
                    /\ Entry(q, v)' = Entry(q, v)
                    /\ Cold(Entry(q, v))'
                    /\ mem'[Entry(q, v)] # KernelData
                    /\ q # p \/ v \in StackPage
                         => mem'[Entry(q, v)] = mem[Entry(q, v)]
                    /\ \A x \in procs, w \in Page :
                         Entry(x, w)' = Entry(q, v) => x = q /\ w = v
  OBVIOUS
<1>9. v \in Page /\ RegionOf(v) # Low /\ (v \in StackPage => RegionOf(v) = Stack)
  BY PrivateIs, TableOf
<1>10. /\ Entry(q, v) # NoFrame /\ Cold(Entry(q, v)) /\ mem[Entry(q, v)] # KernelData
       /\ \A x \in procs, w \in Page : Entry(x, w) = Entry(q, v) => x = q /\ w = v
  BY DEF Apart
<1>11. Entry(q, v)' = Entry(q, v)
  BY <1>2, <1>9 DEF pages
<1>12. Entry(q, v) \in Frame
  BY <1>9, <1>10, EntryMarked
<1> DEFINE f == Entry(q, v)
<1>13. f \in Nat /\ (f < TopFrame(heapTop) \/ f >= StackFrame)
  BY <1>10, <1>12, Sizes DEF Frame, Cold
<1>14. Cold(Entry(q, v))'
  <2> HIDE DEF f
  <2>1. f < TopFrame(heapTop') \/ f >= StackFrame
    BY <1>1, <1>8, <1>13
  <2> QED
    BY <1>11, <2>1 DEF f, Cold, TopFrame
<1>15. \/ mem'[f] = prog[p].file /\ \E u \in Pages(reading[p]) : Entry(p, u) = f
       \/ mem'[f] = mem[f]
  <2>1. ~(TopFrame(end) <= f /\ f < StackFrame)
    <3> HIDE DEF f
    <3> QED
      BY <1>8, <1>13
  <2> QED
    BY <1>6, <1>12, <2>1
<1>16. mem'[f] # KernelData
  BY <1>7, <1>10, <1>15
<1>17. ASSUME q # p \/ v \in StackPage PROVE mem'[f] = mem[f]
  <2>1. ASSUME NEW u \in Pages(reading[p]), Entry(p, u) = f PROVE FALSE
    <3>1. u \in Page /\ RegionOf(u) # Stack
      BY <1>5, ReadingIs
    <3>2. p = q /\ u = v
      BY <1>10, <2>1, <3>1
    <3> QED
      BY <1>9, <1>17, <3>1, <3>2
  <2> QED
    BY <1>15, <2>1
<1>18. ASSUME NEW x \in procs, NEW w \in Page, Entry(x, w)' = f PROVE x = q /\ w = v
  <2>1. CASE w \in pages /\ (x = p \/ RegionOf(w) = Low)
    <3>1. Entry(x, w)' = frame(w)
      BY <1>2, <2>1
    <3>2. frame(w) \in TopFrame(base) .. TopFrame(end) /\ frame(w) < StackFrame
      BY <1>3, <2>1
    <3>3. frame(w) = f
      BY <1>18, <3>1
    <3> HIDE DEF f
    <3> QED
      BY <1>8, <1>13, <3>2, <3>3
  <2>2. CASE ~(w \in pages /\ (x = p \/ RegionOf(w) = Low))
    BY <1>2, <1>10, <1>18, <2>2
  <2> QED
    BY <2>1, <2>2
<1> QED
  BY <1>10, <1>11, <1>14, <1>16, <1>17, <1>18

\* The section that is read from the file next: its whole pages become private.
LEMMA NextApart ==
  ASSUME FrameInv, Regular, Apart, NEW p \in procs, LoadNext(p), mode' = "run"
  PROVE  /\ Apart'
         /\ procs' = procs
         /\ \A q \in procs \ {p} : PrivateSoFar(q)' = PrivateSoFar(q)
         /\ \A q \in procs : \A v \in PrivateSoFar(q) :
              /\ Entry(q, v)' = Entry(q, v)
              /\ q # p \/ v \in StackPage => mem'[Entry(q, v)] = mem[Entry(q, v)]
<1> DEFINE section  == Head(loading[p])
           base     == AlignedBase(heapTop)
           frame(v) == FrameAt(base) + (v - FirstPage(section))
           pages    == MappedPages(section)
           end      == SectionEnd(section, base)
           top      == TopAfterMap(p, section, base, ReadUnits)
           d        == Done(p)
<1>1. loading[p] # <<>> /\ MapSection(p, section, base, ReadUnits) /\ p \in Proc
  BY DEF LoadNext, Regular, TypeOK
<1>2. /\ d + 1 \in 1 .. Len(prog[p].loads) /\ d \in Nat
      /\ section = prog[p].loads[d + 1] /\ section \in Section /\ OneTable(section)
      /\ Len(Tail(loading[p])) = Len(loading[p]) - 1
  BY <1>1, NextSection
<1>3. heapTop \in Nat /\ base \in Nat /\ heapTop < base
  <2>1. heapTop \in Nat
    BY DEF Regular, TypeOK
  <2> QED
    BY <2>1, AlignedUp
<1>4. TopFrame(heapTop) \in Nat /\ TopFrame(base) = TopFrame(heapTop) + 1
  <2>1. UnitsPerPage \in Nat \ {0} /\ HeapFrame \in Nat
    BY HeapSizes
  <2>2. heapTop \div UnitsPerPage \in Nat
    BY <1>3, <2>1, DivMod
  <2>3. base \div UnitsPerPage = heapTop \div UnitsPerPage + 1
    BY <1>3, AlignedUp
  <2> HIDE DEF base
  <2> QED
    BY <2>1, <2>2, <2>3 DEF TopFrame
<1>5. /\ Fits(section, base) /\ Mapped(top)
      /\ Map(p, section, base, ReadUnits)
      /\ mem' = Arrived(p, section, base, ReadUnits)
      /\ heapTop' = top
      /\ loading' = [loading EXCEPT ![p] = Tail(loading[p])]
      /\ procs' = procs /\ prog' = prog
  <2>1. /\ Fits(section, base) /\ Mapped(top)
        /\ Map(p, section, base, ReadUnits)
        /\ mem' = Arrived(p, section, base, ReadUnits)
        /\ heapTop' = top
        /\ loading' = [loading EXCEPT ![p] = IF @ = <<>> THEN <<>> ELSE Tail(@)]
        /\ procs' = procs /\ prog' = prog
    BY <1>1 DEF MapSection, Stops, Map
  <2>2. loading \in [Proc -> Seq(Section)]
    BY DEF Regular, TypeOK
  <2>3. loading' = [loading EXCEPT ![p] = Tail(loading[p])]
    BY <1>1, <2>1, <2>2
  <2> QED
    BY <2>1, <2>3
<1> HIDE DEF section, base, d
<1>6. \A v \in PrivateSoFar(p) : v \notin pages
  <2> SUFFICES ASSUME NEW v \in PrivateSoFar(p), v \in pages PROVE FALSE
    OBVIOUS
  <2>1. RegionOf(v) \in {Low, High}
    <3>1. RegionOf(v) = RegionOf(FirstPage(section))
      BY <1>2, OneTableIs
    <3> QED
      BY <1>2, <3>1 DEF OneTable
  <2>2. v \notin StackPage
    BY <2>1, PrivateIs DEF Low, High, Stack
  <2>3. PICK i \in 1 .. d : v \in WholePages(prog[p].loads[i])
    BY <2>2 DEF PrivateSoFar, d
  <2>4. /\ i \in DOMAIN prog[p].loads /\ d + 1 \in DOMAIN prog[p].loads /\ i < d + 1
        /\ prog[p].loads[i] \in Section
    <3>1. prog[p].loads \in Seq(Section)
      BY <1>1, ProgramsAre
    <3>2. Len(prog[p].loads) \in Nat /\ DOMAIN prog[p].loads = 1 .. Len(prog[p].loads)
      BY <3>1
    <3>3. i \in 1 .. Len(prog[p].loads) /\ i < d + 1
      BY <1>2, <3>2
    <3> QED
      BY <1>2, <3>1, <3>2, <3>3
  <2>5. SectionLimit(prog[p].loads[i]) <= section.addr
    BY <1>1, <1>2, <2>4 DEF Regular, InOrder, LaidOut
  <2> QED
    BY <1>2, <2>3, <2>4, <2>5, WholeBefore DEF pages
<1>7. ASSUME NEW q \in procs, NEW v \in PrivateSoFar(q)
      PROVE  /\ Entry(q, v) # NoFrame
             /\ Entry(q, v)' = Entry(q, v)
             /\ Cold(Entry(q, v))'
             /\ mem'[Entry(q, v)] # KernelData
             /\ q # p \/ v \in StackPage => mem'[Entry(q, v)] = mem[Entry(q, v)]
             /\ \A x \in procs, w \in Page : Entry(x, w)' = Entry(q, v) => x = q /\ w = v
  <2>1. heapTop <= base
    BY <1>3
  <2> QED
    BY <1>1, <1>2, <1>3, <1>6, <2>1, HeapSizes, MapApart
<1>8. \A q \in procs, w \in Page :
        Entry(q, w)' = IF w \in pages /\ (q = p \/ RegionOf(w) = Low)
                       THEN frame(w) ELSE Entry(q, w)
  BY <1>2, <1>5, MapEntry
<1>9. \A v \in pages : /\ frame(v) = TopFrame(base) + (v - FirstPage(section))
                       /\ frame(v) \in TopFrame(base) .. TopFrame(end)
                       /\ frame(v) < StackFrame /\ frame(v) \in Frame
  BY <1>2, <1>3, <1>5, SectionFrame
<1>10. /\ end \in Nat /\ top \in Nat /\ end <= top
       /\ TopFrame(base) + FullPages(section) <= TopFrame(end)
  BY <1>2, <1>3, <1>5, HeapSizes, MapUp, SectionUp
<1>11. \A f \in Frame :
         \/ mem'[f] = prog[p].file
         \/ mem'[f] = mem[f]
         \/ TopFrame(end) <= f
  BY <1>1, <1>2, <1>3, <1>5, HeapSizes, ArrivedIs
<1>12. /\ TopFrame(end) \in Nat /\ TopFrame(top) \in Nat /\ TopFrame(end) <= TopFrame(top)
       /\ StackFrame \in Nat /\ FirstFree >= StackFrame /\ FirstFree \in Nat
  BY <1>10, TopFrameUp, Sizes, HeapSizes
<1> HIDE DEF frame, end, top
<1>13. ASSUME NEW v \in WholePages(section), RegionOf(v) \notin KernelRegion
       PROVE  /\ Entry(p, v)' # NoFrame
              /\ Cold(Entry(p, v))'
              /\ mem'[Entry(p, v)'] # KernelData
              /\ \A x \in procs, w \in Page :
                   Entry(x, w)' = Entry(p, v)' => x = p /\ w = v
  <2>1. FirstPage(section) \in Nat /\ FullPages(section) \in Nat
    BY <1>2, SectionIs
  <2>2. v \in pages /\ v - FirstPage(section) < FullPages(section) /\ v \in Int
    BY <1>2, WholeBefore DEF pages
  <2>3. v \in Page /\ RegionOf(v) = RegionOf(FirstPage(section))
    BY <1>2, <2>2, OneTableIs DEF pages
  <2>4. Entry(p, v)' = frame(v)
    BY <1>8, <2>2, <2>3
  <2>5. /\ frame(v) \in Frame /\ frame(v) \in Nat
        /\ TopFrame(heapTop) < frame(v) /\ frame(v) < StackFrame
        /\ frame(v) < TopFrame(end)
    <3>1. frame(v) \in Nat
      BY <1>9, <2>2, Sizes DEF Frame
    <3> QED
      BY <1>4, <1>9, <1>10, <1>12, <2>1, <2>2, <3>1
  <2>6. Entry(p, v)' # NoFrame
    BY <2>4, <2>5 DEF NoFrame
  <2>7. Cold(Entry(p, v))'
    <3>1. frame(v) < TopFrame(heapTop')
      BY <1>5, <1>12, <2>5
    <3> QED
      BY <2>4, <3>1 DEF Cold, TopFrame
  <2>8. mem'[frame(v)] # KernelData
    <3>1. mem[frame(v)] # KernelData
      <4>1. mem[frame(v)] = KernelData =>
              frame(v) <= TopFrame(heapTop) \/ frame(v) >= FirstFree
        BY <2>5 DEF Regular, HeapOrder
      <4> QED
        BY <1>4, <1>12, <2>5, <4>1
    <3>2. prog[p].file # KernelData
      BY <1>1, ProgramsAre DEF KernelData
    <3>3. ~(TopFrame(end) <= frame(v))
      BY <1>12, <2>5
    <3> QED
      BY <1>11, <2>5, <3>1, <3>2, <3>3
  <2>9. ASSUME NEW x \in procs, NEW w \in Page, Entry(x, w)' = frame(v)
        PROVE  x = p /\ w = v
    <3>1. CASE w \in pages /\ (x = p \/ RegionOf(w) = Low)
      <4>1. Entry(x, w)' = frame(w)
        BY <1>8, <3>1
      <4>2. w \in Int /\ frame(w) = TopFrame(base) + (w - FirstPage(section))
        BY <1>9, <2>1, <3>1 DEF pages, MappedPages
      <4>3. frame(v) = TopFrame(base) + (v - FirstPage(section))
        BY <1>9, <2>2
      <4>4. frame(w) = frame(v)
        BY <2>9, <4>1
      <4>5. TopFrame(base) \in Nat
        BY <1>4
      <4> DEFINE s == FirstPage(section)
                 t == TopFrame(base)
      <4>6. t + (w - s) = t + (v - s) /\ t \in Nat /\ s \in Nat
        BY <2>1, <4>2, <4>3, <4>4, <4>5
      <4> HIDE DEF s, t
      <4>7. w = v
        BY <2>2, <4>2, <4>6
      <4>8. RegionOf(w) # Low
        BY <4>7, <1>13 DEF Low, KernelRegion
      <4> QED
        BY <3>1, <4>7, <4>8
    <3>2. CASE ~(w \in pages /\ (x = p \/ RegionOf(w) = Low))
      <4>1. Entry(x, w) = frame(v)
        BY <1>8, <2>9, <3>2
      <4>2. Entry(x, w) # NoFrame
        BY <2>5, <4>1 DEF NoFrame
      <4>3. frame(v) <= TopFrame(heapTop) \/ frame(v) >= StackFrame
        BY <4>1, <4>2, EntryMarked
      <4> QED
        BY <1>4, <1>12, <2>5, <4>3
    <3> QED
      BY <3>1, <3>2
  <2> QED
    BY <2>4, <2>6, <2>7, <2>8, <2>9
<1>14. ASSUME NEW q \in procs \ {p} PROVE PrivateSoFar(q)' = PrivateSoFar(q)
  <2>1. prog'[q] = prog[q] /\ loading'[q] = loading[q]
    BY <1>5 DEF Regular, TypeOK
  <2> QED
    BY <2>1 DEF PrivateSoFar, Done, StackPage, RegionOf, WholePages,
    FirstPage, FullPages
<1>15. ASSUME NEW v \in PrivateSoFar(p)', v \notin PrivateSoFar(p)
       PROVE  v \in WholePages(section) /\ RegionOf(v) \notin KernelRegion
  <2>1. prog'[p] = prog[p] /\ loading'[p] = Tail(loading[p])
    BY <1>1, <1>5 DEF Regular, TypeOK
  <2>2. Done(p)' = d + 1
    <3> DEFINE a == Len(prog[p].loads)
               b == Len(loading[p])
    <3>1. d = a - b /\ Done(p)' = a - (b - 1)
      BY <1>2, <2>1 DEF Done, d
    <3>2. a \in Nat /\ b \in Nat
      <4>1. prog[p].loads \in Seq(Section) /\ loading[p] \in Seq(Section)
        BY <1>1, ProgramsAre DEF Regular, TypeOK
      <4> QED
        BY <4>1
    <3> HIDE DEF a, b
    <3> QED
      BY <3>1, <3>2
  <2>3. PrivateSoFar(p)' =
          StackPage \cup
          {u \in Page : /\ RegionOf(u) \notin KernelRegion
                        /\ \E i \in 1 .. d + 1 : u \in WholePages(prog[p].loads[i])}
    BY <2>1, <2>2 DEF PrivateSoFar, StackPage, RegionOf, WholePages,
    FirstPage, FullPages
  <2>4. PICK i \in 1 .. d + 1 : v \in WholePages(prog[p].loads[i])
    BY <1>15, <2>3 DEF PrivateSoFar
  <2>5. v \in Page /\ RegionOf(v) \notin KernelRegion
    BY <1>15, <2>3 DEF PrivateSoFar
  <2>6. i \notin 1 .. d
    BY <1>15, <2>4, <2>5 DEF PrivateSoFar, d
  <2>7. i = d + 1
    BY <1>2, <2>6
  <2> QED
    BY <1>2, <2>4, <2>5, <2>7
<1>16. Apart'
  <2> SUFFICES ASSUME NEW q \in procs, NEW v \in PrivateSoFar(q)'
               PROVE  /\ Entry(q, v)' # NoFrame
                      /\ Cold(Entry(q, v))'
                      /\ mem'[Entry(q, v)'] # KernelData
                      /\ \A x \in procs, w \in Page :
                           Entry(x, w)' = Entry(q, v)' => x = q /\ w = v
    BY <1>5 DEF Apart
  <2>1. CASE v \in PrivateSoFar(q)
    BY <1>7, <2>1
  <2>2. CASE v \notin PrivateSoFar(q)
    <3>1. q = p
      BY <1>14, <2>2
    <3> QED
      BY <1>13, <1>15, <2>2, <3>1
  <2> QED
    BY <2>1, <2>2
<1> QED
  BY <1>5, <1>7, <1>14, <1>16

\* The last section arrives, and the one that is not in the file is mapped
\* behind the pages read from it.
LEMMA LastApart ==
  ASSUME FrameInv, Regular, Apart, NEW p \in procs, LoadLast(p), mode' = "run"
  PROVE  /\ Apart'
         /\ procs' = procs
         /\ \A q \in procs : PrivateSoFar(q)' = PrivateSoFar(q)
         /\ \A q \in procs : \A v \in PrivateSoFar(q) :
              /\ Entry(q, v)' = Entry(q, v)
              /\ q # p \/ v \in StackPage => mem'[Entry(q, v)] = mem[Entry(q, v)]
<1> DEFINE bss == prog[p].bss
<1>1. loading[p] = <<>> /\ p \in Proc /\ heapTop \in Nat
  BY DEF LoadLast, Regular, TypeOK
<1>2. bss \in Section /\ OneTable(bss) /\ prog[p].loads \in Seq(Section) /\ LaidOut(prog[p])
  BY <1>1, ProgramsAre DEF Regular, InOrder, LaidOut
<1>3. \A v \in PrivateSoFar(p) : v \notin MappedPages(bss)
  <2> SUFFICES ASSUME NEW v \in PrivateSoFar(p), v \in MappedPages(bss) PROVE FALSE
    OBVIOUS
  <2>1. RegionOf(v) \in {Low, High}
    <3>1. RegionOf(v) = RegionOf(FirstPage(bss))
      BY <1>2, OneTableIs
    <3> QED
      BY <1>2, <3>1 DEF OneTable
  <2>2. v \notin StackPage
    BY <2>1, PrivateIs DEF Low, High, Stack
  <2>3. PICK i \in 1 .. Done(p) : v \in WholePages(prog[p].loads[i])
    BY <2>2 DEF PrivateSoFar
  <2>4. i \in DOMAIN prog[p].loads /\ prog[p].loads[i] \in Section
    <3>1. Len(loading[p]) = 0
      BY <1>1
    <3>2. Len(prog[p].loads) \in Nat /\ DOMAIN prog[p].loads = 1 .. Len(prog[p].loads)
      BY <1>2
    <3>3. Done(p) = Len(prog[p].loads)
      BY <3>1, <3>2 DEF Done
    <3> QED
      BY <1>2, <3>2, <3>3
  <2>5. SectionLimit(prog[p].loads[i]) <= bss.addr
    BY <1>2, <2>4 DEF LaidOut
  <2> QED
    BY <1>2, <2>3, <2>4, <2>5, WholeBefore
<1>4. ASSUME NEW q \in procs, NEW v \in PrivateSoFar(q)
      PROVE  /\ Entry(q, v) # NoFrame
             /\ Entry(q, v)' = Entry(q, v)
             /\ Cold(Entry(q, v))'
             /\ mem'[Entry(q, v)] # KernelData
             /\ q # p \/ v \in StackPage => mem'[Entry(q, v)] = mem[Entry(q, v)]
             /\ \A x \in procs, w \in Page : Entry(x, w)' = Entry(q, v) => x = q /\ w = v
  <2>1. CASE MapSection(p, bss, heapTop, 0)
    <3>1. heapTop <= heapTop
      BY <1>1
    <3> QED
      BY <1>1, <1>2, <1>3, <2>1, <3>1, MapApart
  <2>2. CASE ~MapSection(p, bss, heapTop, 0)
    <3>1. mem' = Contents(p, mem) /\ UNCHANGED <<heapTop, table, entry>>
      BY <2>2 DEF LoadLast, Stops
    <3>2. \A x \in procs, w \in Page : Entry(x, w)' = Entry(x, w)
      BY <3>1 DEF Entry, RegionOf
    <3>3. v \in Page /\ (v \in StackPage => RegionOf(v) = Stack)
      BY PrivateIs
    <3>4. /\ Entry(q, v) # NoFrame /\ Cold(Entry(q, v)) /\ mem[Entry(q, v)] # KernelData
          /\ \A x \in procs, w \in Page : Entry(x, w) = Entry(q, v) => x = q /\ w = v
      BY DEF Apart
    <3>5. Entry(q, v) \in Frame
      BY <3>3, <3>4, EntryMarked
    <3>6. Cold(Entry(q, v))'
      BY <3>1, <3>2, <3>3, <3>4 DEF Cold, TopFrame
    <3>7. mem \in [Frame -> Int]
      BY DEF Regular, TypeOK
    <3>8. mem'[Entry(q, v)] # KernelData
      BY <1>1, <3>1, <3>4, <3>5, <3>7, ContentsIs
    <3>9. ASSUME q # p \/ v \in StackPage PROVE mem'[Entry(q, v)] = mem[Entry(q, v)]
      <4>1. ASSUME NEW u \in Pages(reading[p]), Entry(p, u) = Entry(q, v) PROVE FALSE
        <5>1. u \in Page /\ RegionOf(u) # Stack
          BY <1>1, ReadingIs
        <5>2. p = q /\ u = v
          BY <3>4, <4>1, <5>1
        <5> QED
          BY <3>3, <3>9, <5>1, <5>2
      <4> QED
        BY <1>1, <3>1, <3>5, <3>7, <4>1, ContentsIs
    <3> QED
      BY <3>2, <3>3, <3>4, <3>6, <3>8, <3>9
  <2> QED
    BY <2>1, <2>2
<1>5. procs' = procs /\ prog' = prog /\ loading' = loading
  <2>1. loading \in [Proc -> Seq(Section)]
    BY DEF Regular, TypeOK
  <2> QED
    BY <1>1, <2>1 DEF LoadLast, MapSection, Stops
<1>6. ASSUME NEW q \in procs PROVE PrivateSoFar(q)' = PrivateSoFar(q)
  BY <1>5 DEF PrivateSoFar, Done, StackPage, RegionOf, WholePages,
    FirstPage, FullPages
<1>7. Apart'
  BY <1>4, <1>5, <1>6 DEF Apart
<1> QED
  BY <1>4, <1>5, <1>6, <1>7

\* A write reaches no page of another process, and one of the writer's.
LEMMA WriteApart ==
  ASSUME FrameInv, Regular, Apart, NEW p \in Proc, NEW u \in Page, Write(p, u),
         mode' = "run"
  PROVE  /\ Apart'
         /\ p \in procs /\ procs' = procs
         /\ \A q \in procs : PrivateSoFar(q)' = PrivateSoFar(q)
         /\ \A q \in procs : \A v \in PrivateSoFar(q) :
              /\ Entry(q, v)' = Entry(q, v)
              /\ q # p \/ v # u => mem'[Entry(q, v)] = mem[Entry(q, v)]
<1>1. /\ p \in procs /\ procs' = procs
      /\ mem' = [mem EXCEPT ![Entry(p, u)] = p]
      /\ UNCHANGED <<heapTop, table, entry, prog, loading, reading>>
  BY DEF Write, InProgram, Stops
<1>2. \A x \in procs, w \in Page : Entry(x, w)' = Entry(x, w)
  BY <1>1 DEF Entry, RegionOf
<1>3. ASSUME NEW q \in procs PROVE PrivateSoFar(q)' = PrivateSoFar(q)
  BY <1>1 DEF PrivateSoFar, Done, StackPage, RegionOf, WholePages,
    FirstPage, FullPages
<1>4. mem \in [Frame -> Int] /\ p # KernelData
  BY DEF Regular, TypeOK, Proc, KernelData
<1>5. ASSUME NEW q \in procs, NEW v \in PrivateSoFar(q)
      PROVE  /\ Entry(q, v)' = Entry(q, v) /\ Entry(q, v) # NoFrame
             /\ Cold(Entry(q, v))'
             /\ mem'[Entry(q, v)] # KernelData
             /\ q # p \/ v # u => mem'[Entry(q, v)] = mem[Entry(q, v)]
             /\ \A x \in procs, w \in Page : Entry(x, w) = Entry(q, v) => x = q /\ w = v
  <2>1. v \in Page
    BY PrivateIs
  <2>2. /\ Entry(q, v) # NoFrame /\ Cold(Entry(q, v)) /\ mem[Entry(q, v)] # KernelData
        /\ \A x \in procs, w \in Page : Entry(x, w) = Entry(q, v) => x = q /\ w = v
    BY DEF Apart
  <2>3. Entry(q, v) \in Frame
    BY <2>1, <2>2, EntryMarked
  <2>4. Cold(Entry(q, v))'
    BY <1>1, <1>2, <2>1, <2>2 DEF Cold, TopFrame
  <2>5. q # p \/ v # u => Entry(p, u) # Entry(q, v)
    BY <1>1, <2>2
  <2>6. mem'[Entry(q, v)] = IF Entry(p, u) = Entry(q, v) THEN p ELSE mem[Entry(q, v)]
    BY <1>1, <1>4, <2>3
  <2> QED
    BY <1>2, <1>4, <2>1, <2>2, <2>4, <2>5, <2>6
<1>6. Apart'
  BY <1>1, <1>2, <1>3, <1>5, PrivateIs DEF Apart
<1> QED
  BY <1>1, <1>3, <1>5, <1>6

\* When the kernel stops, the memory stays as it is.
LEMMA StopsApart ==
  ASSUME Apart, UNCHANGED <<procs, heapTop, table, entry, mem, prog, loading>>
  PROVE  Apart'
<1>1. \A x \in procs, w \in Page : Entry(x, w)' = Entry(x, w)
  BY DEF Entry, RegionOf
<1>2. \A q \in procs : PrivateSoFar(q)' = PrivateSoFar(q)
  BY DEF PrivateSoFar, Done, StackPage, RegionOf, WholePages,
    FirstPage, FullPages
<1>3. ASSUME NEW q \in procs, NEW v \in PrivateSoFar(q)
      PROVE  /\ Entry(q, v)' # NoFrame
             /\ Cold(Entry(q, v))'
             /\ mem'[Entry(q, v)'] # KernelData
             /\ \A x \in procs, w \in Page : Entry(x, w)' = Entry(q, v)' => x = q /\ w = v
  <2>1. v \in Page
    BY PrivateIs
  <2>2. /\ Entry(q, v) # NoFrame /\ Cold(Entry(q, v)) /\ mem[Entry(q, v)] # KernelData
        /\ \A x \in procs, w \in Page : Entry(x, w) = Entry(q, v) => x = q /\ w = v
    BY DEF Apart
  <2>3. Cold(Entry(q, v))'
    BY <1>1, <2>1, <2>2 DEF Cold, TopFrame
  <2> QED
    BY <1>1, <2>1, <2>2, <2>3
<1> QED
  BY <1>2, <1>3 DEF Apart

\* Every step either stops the kernel, and leaves its memory as it is, or is one
\* that the lemmas above are about.
LEMMA StepIs ==
  ASSUME FrameInv, Regular, Next
  PROVE  \/ UNCHANGED <<procs, used, firstempty, heapTop, table, entry, mem, prog,
                        loading, reading, execs, writes>>
         \/ \E p \in procs :
              /\ Loaded(p) /\ Mapped(TopAfterFork(p))
              /\ Cardinality(procs) < MaxProcs
              /\ Cardinality(Candidates) >= Cardinality(CopiedPages(p))
              /\ Clone(p, Cardinality(procs))
         \/ \E p \in Proc, new \in Programs : Exec(p, new) /\ mode' = "run"
         \/ \E p \in procs : LoadNext(p) /\ mode' = "run"
         \/ \E p \in procs : LoadLast(p) /\ mode' = "run"
         \/ \E p \in Proc, v \in Page : Write(p, v) /\ mode' = "run"
<1>1. ASSUME NEW p \in Proc, Fork(p), ~\E how : Stops(how)
      PROVE  /\ p \in procs /\ Loaded(p) /\ Mapped(TopAfterFork(p))
             /\ Cardinality(procs) < MaxProcs
             /\ Cardinality(Candidates) >= Cardinality(CopiedPages(p))
             /\ Clone(p, Cardinality(procs))
  BY <1>1 DEF Fork, InProgram
<1>2. ASSUME NEW p \in Proc, NEW new \in Programs, Exec(p, new), ~\E how : Stops(how)
      PROVE  mode' = "run"
  BY <1>2 DEF Exec, InProgram
<1>3. ASSUME NEW p \in Proc, Load(p), ~\E how : Stops(how)
      PROVE  p \in procs /\ mode' = "run" /\ (LoadNext(p) \/ LoadLast(p))
  <2>1. p \in procs
    BY <1>3 DEF FrameInv, MemTyped, Load, LoadNext, LoadLast
  <2>2. mode' = mode /\ mode = "run"
    BY <1>3 DEF Load, LoadNext, LoadLast, MapSection
  <2> QED
    BY <1>3, <2>1, <2>2 DEF Load
<1>4. ASSUME NEW how, Stops(how)
      PROVE  UNCHANGED <<procs, used, firstempty, heapTop, table, entry, mem, prog,
                         loading, reading, execs, writes>>
  BY <1>4 DEF Stops
<1>5. CASE Halted
  BY <1>5 DEF Halted, vars
<1>6. CASE \E how : Stops(how)
  BY <1>4, <1>6
<1>7. CASE ~Halted /\ ~\E how : Stops(how)
  <2>1. PICK p \in Proc : \/ Fork(p)
                          \/ \E new \in Programs : Exec(p, new)
                          \/ Load(p)
                          \/ \E v \in Page : Write(p, v)
    BY <1>7 DEF Next
  <2>2. CASE Fork(p)
    BY <1>1, <1>7, <2>2
  <2>3. CASE \E new \in Programs : Exec(p, new)
    BY <1>2, <1>7, <2>3
  <2>4. CASE Load(p)
    BY <1>3, <1>7, <2>4
  <2>5. CASE \E v \in Page : Write(p, v)
    <3>1. mode' = "run"
      BY <1>7, <2>5 DEF Write, InProgram
    <3> QED
      BY <2>5, <3>1
  <2> QED
    BY <2>1, <2>2, <2>3, <2>4, <2>5
<1> QED
  BY <1>5, <1>6, <1>7

LEMMA ApartKept == FrameInv /\ Regular /\ Apart /\ [Next]_vars => Apart'
<1> SUFFICES ASSUME FrameInv, Regular, Apart, [Next]_vars PROVE Apart'
  OBVIOUS
<1>1. CASE UNCHANGED vars
  BY <1>1, StopsApart DEF vars
<1>2. CASE Next
  <2>1. CASE UNCHANGED <<procs, used, firstempty, heapTop, table, entry, mem, prog,
                         loading, reading, execs, writes>>
    BY <2>1, StopsApart
  <2>2. ASSUME NEW p \in procs, Loaded(p), Mapped(TopAfterFork(p)),
               Cardinality(procs) < MaxProcs,
               Cardinality(Candidates) >= Cardinality(CopiedPages(p)),
               Clone(p, Cardinality(procs))
        PROVE  Apart'
    BY <2>2, ForkApart
  <2>3. ASSUME NEW p \in Proc, NEW new \in Programs, Exec(p, new), mode' = "run"
        PROVE  Apart'
    BY <2>3, ExecApart
  <2>4. ASSUME NEW p \in procs, mode' = "run", LoadNext(p) \/ LoadLast(p) PROVE Apart'
    BY <2>4, NextApart, LastApart
  <2>5. ASSUME NEW p \in Proc, NEW v \in Page, Write(p, v), mode' = "run"
        PROVE  Apart'
    BY <2>5, WriteApart
  <2> QED
    BY <1>2, <2>1, <2>2, <2>3, <2>4, <2>5, StepIs
<1> QED
  BY <1>1, <1>2

LEMMA ApartHolds == Spec => []Apart
BY InitApart, FramesHold, RegularHolds, ApartKept, PTL DEF Spec

----------------------------------------------------------------------------
(* The promise of ProcessMemory *)

\* The private pages are those that execve() mapped so far, once it is done.
LEMMA PrivatePagesAre ==
  ASSUME Regular, NEW p \in Proc, NEW v \in PrivatePages(p)
  PROVE  v \in PrivateSoFar(p) /\ v \in Page
<1>1. CASE v \in StackPage
  BY <1>1, PrivateIs DEF PrivateSoFar
<1>2. CASE v \notin StackPage
  <2>1. PICK i \in DOMAIN prog[p].loads : v \in WholePages(prog[p].loads[i])
    BY <1>2 DEF PrivatePages
  <2>2. Loaded(p) /\ RegionOf(v) \notin KernelRegion
    BY <1>2 DEF PrivatePages
  <2>3. /\ prog[p].loads \in Seq(Section) /\ LaidOut(prog[p])
        /\ prog[p].loads[i] \in Section
    BY <2>1, ProgramsAre DEF Regular, InOrder
  <2>4. Done(p) = Len(prog[p].loads)
    <3>1. Len(loading[p]) = 0 /\ Len(prog[p].loads) \in Nat
      BY <2>2, <2>3 DEF Loaded
    <3> QED
      BY <3>1 DEF Done
  <2>5. i \in 1 .. Done(p)
    BY <2>1, <2>3, <2>4
  <2>6. OneTable(prog[p].loads[i])
    BY <2>1, <2>3 DEF LaidOut
  <2>7. v \in MappedPages(prog[p].loads[i])
    BY <2>1, <2>3, WholeBefore
  <2>8. v \in Page
    BY <2>3, <2>6, <2>7, OneTableIs
  <2> QED
    BY <2>1, <2>2, <2>5, <2>8 DEF PrivateSoFar
<1> QED
  BY <1>1, <1>2

LEMMA PrivateFramesHold == Regular /\ Apart => PrivateFrames
<1> SUFFICES ASSUME Regular, Apart, NEW p \in procs, NEW v \in PrivatePages(p)
             PROVE  /\ Entry(p, v) # NoFrame
                    /\ mem[Entry(p, v)] # KernelData
                    /\ \A q \in procs, w \in Page :
                         Entry(q, w) = Entry(p, v) => q = p /\ w = v
  BY DEF PrivateFrames
<1>1. p \in Proc
  BY DEF Regular, TypeOK
<1>2. v \in PrivateSoFar(p)
  BY <1>1, PrivatePagesAre
<1> QED
  BY <1>2 DEF Apart

\* Processes that are not there yet have nothing.
Unborn == \A q \in Proc \ procs : View(q) = [v \in Page |-> Nothing]

LEMMA NothingYet == Regular => Unborn
<1> SUFFICES ASSUME Regular, NEW q \in Proc \ procs
             PROVE  View(q) = [v \in Page |-> Nothing]
  BY DEF Unborn
<1>1. \A v \in Page : Entry(q, v) = NoFrame
  BY RegionOfPage DEF Regular, OwnTables, Entry
<1> QED
  BY <1>1 DEF View

LEMMA NothingYetNext == Regular' => Unborn'
BY NothingYet, PTL

\* What a process has, as long as its private frames are.
ViewsAre ==
  \A q \in procs : \A v \in Page :
    View(q)[v] = IF v \in PrivatePages(q) THEN mem[Entry(q, v)] ELSE Nothing

LEMMA ViewsHold == Regular /\ Apart => ViewsAre
<1> SUFFICES ASSUME Regular, Apart, NEW q \in procs, NEW v \in Page
             PROVE  View(q)[v] =
                      IF v \in PrivatePages(q) THEN mem[Entry(q, v)] ELSE Nothing
  BY DEF ViewsAre
<1>1. v \in PrivatePages(q) => Entry(q, v) # NoFrame
  BY PrivateFramesHold DEF PrivateFrames
<1>2. View(q)[v] = IF v \in PrivatePages(q) /\ Entry(q, v) # NoFrame
                   THEN mem[Entry(q, v)] ELSE Nothing
  BY DEF View
<1> QED
  BY <1>1, <1>2

LEMMA ViewsHoldNext == Regular' /\ Apart' => ViewsAre'
BY ViewsHold, PTL

\* A process whose private pages, frames and contents are the same has the same.
LEMMA SameView ==
  ASSUME ViewsAre, ViewsAre', NEW q \in procs, q \in procs', q \in Proc, Regular,
         PrivatePages(q)' = PrivatePages(q),
         \A v \in PrivateSoFar(q) :
           Entry(q, v)' = Entry(q, v) /\ mem'[Entry(q, v)] = mem[Entry(q, v)]
  PROVE  View(q)' = View(q)
<1>1. ASSUME NEW v \in Page PROVE View(q)'[v] = View(q)[v]
  <2>1. v \in PrivatePages(q) => mem'[Entry(q, v)'] = mem[Entry(q, v)]
    BY PrivatePagesAre
  <2>2. View(q)'[v] = IF v \in PrivatePages(q)' THEN mem'[Entry(q, v)'] ELSE Nothing
    BY DEF ViewsAre, Nothing
  <2>3. View(q)[v] = IF v \in PrivatePages(q) THEN mem[Entry(q, v)] ELSE Nothing
    BY DEF ViewsAre
  <2> QED
    BY <2>1, <2>2, <2>3
<1>2. View(q) = [v \in Page |-> View(q)[v]] /\ View(q)' = [v \in Page |-> View(q)'[v]]
  BY DEF View
<1> QED
  BY <1>1, <1>2

LEMMA SamePages ==
  ASSUME NEW q, prog'[q] = prog[q], loading'[q] = loading[q], reading'[q] = reading[q]
  PROVE  PrivatePages(q)' = PrivatePages(q)
BY DEF PrivatePages, StackPage, WholePages, FirstPage, FullPages,
                          Loaded, RegionOf

\* All that a step leaves to the other processes: then they have what they had.
LEMMA OthersKept ==
  ASSUME Regular, Apart, Regular', Apart', NEW p, procs' = procs,
         \A q \in Proc \ {p} : /\ prog'[q] = prog[q]
                               /\ loading'[q] = loading[q] /\ reading'[q] = reading[q],
         \A q \in procs \ {p} : \A v \in PrivateSoFar(q) :
           Entry(q, v)' = Entry(q, v) /\ mem'[Entry(q, v)] = mem[Entry(q, v)]
  PROVE  \A q \in Proc \ {p} : View(q)' = View(q)
<1> SUFFICES ASSUME NEW q \in Proc \ {p} PROVE View(q)' = View(q)
  OBVIOUS
<1>1. ViewsAre /\ ViewsAre'
  BY ViewsHold, ViewsHoldNext
<1>2. CASE q \in procs
  <2>1. PrivatePages(q)' = PrivatePages(q)
    BY SamePages
  <2>2. q \in procs' /\ q \in procs \ {p} /\ q \in Proc
    BY <1>2
  <2> QED
    BY <1>1, <2>1, <2>2, SameView
<1>3. CASE q \notin procs
  <2>1. View(q) = [v \in Page |-> Nothing]
    BY <1>3, NothingYet DEF Unborn
  <2>2. View(q)' = [v \in Page |-> Nothing]
    BY <1>3, NothingYetNext DEF Unborn, Nothing
  <2> QED
    BY <2>1, <2>2
<1> QED
  BY <1>2, <1>3

\* The stack a process had, it has after a step that leaves its frames alone.
LEMMA StackKept ==
  ASSUME Regular, Apart, Regular', Apart', NEW p \in procs, p \in procs',
         \A v \in StackPage :
           Entry(p, v)' = Entry(p, v) /\ mem'[Entry(p, v)] = mem[Entry(p, v)]
  PROVE  \A v \in StackPage : View(p)'[v] = View(p)[v]
<1> SUFFICES ASSUME NEW v \in StackPage PROVE View(p)'[v] = View(p)[v]
  OBVIOUS
<1>1. ViewsAre /\ ViewsAre'
  BY ViewsHold, ViewsHoldNext
<1>2. v \in Page /\ v \in PrivatePages(p) /\ v \in PrivatePages(p)'
  BY DEF PrivatePages, StackPage, RegionOf
<1>3. View(p)'[v] = mem'[Entry(p, v)']
  BY <1>1, <1>2 DEF ViewsAre
<1>4. View(p)[v] = mem[Entry(p, v)]
  BY <1>1, <1>2 DEF ViewsAre
<1> QED
  BY <1>3, <1>4

\* What execve() and writes of a process leave to the others.
LEMMA OwnStep ==
  ASSUME Regular, NEW p \in Proc,
         \/ \E new \in Programs : Exec(p, new)
         \/ LoadNext(p)
         \/ LoadLast(p)
         \/ \E v \in Page : Write(p, v)
  PROVE  \A q \in Proc \ {p} :
           prog'[q] = prog[q] /\ loading'[q] = loading[q] /\ reading'[q] = reading[q]
<1>1. /\ prog \in [Proc -> Programs \cup {NoProgram}]
      /\ loading \in [Proc -> Seq(Section)] /\ reading \in [Proc -> Section]
  BY DEF Regular, TypeOK
<1>2. CASE \E new \in Programs : Exec(p, new)
  BY <1>1, <1>2 DEF Exec, Stops
<1>3. CASE LoadNext(p)
  BY <1>1, <1>3 DEF LoadNext, MapSection, Stops
<1>4. CASE LoadLast(p)
  BY <1>1, <1>4 DEF LoadLast, MapSection, Stops
<1>5. CASE \E v \in Page : Write(p, v)
  BY <1>5 DEF Write, Stops
<1> QED
  BY <1>2, <1>3, <1>4, <1>5

LEMMA StepPromised ==
  ASSUME FrameInv, Regular, Apart, Regular', Apart', [Next]_vars
  PROVE  [Promise!Next]_(Promise!vars)
<1>1. procs \subseteq Proc
  BY DEF Regular, TypeOK
<1>2. ASSUME UNCHANGED <<procs, table, entry, mem, prog, loading, reading>>
      PROVE  UNCHANGED Promise!vars
  <2>1. \A q \in Proc : View(q)' = View(q)
    BY <1>2 DEF View, PrivatePages, StackPage, WholePages, FirstPage, FullPages,
        Loaded, RegionOf, Entry, Nothing
  <2> QED
    BY <1>2, <2>1 DEF Promise!vars
<1>3. ASSUME NEW p \in procs, Loaded(p), Mapped(TopAfterFork(p)),
             Cardinality(procs) < MaxProcs,
             Cardinality(Candidates) >= Cardinality(CopiedPages(p)),
             Clone(p, Cardinality(procs))
      PROVE  Promise!Next
  <2>0. PICK c \in Proc : c = Cardinality(procs)
    BY <1>3, NextProcess
  <2>1. c \in Proc /\ c \notin procs /\ p # c
    BY <1>3, <2>0, NextProcess
  <2>2. /\ procs' = procs \cup {c}
        /\ PrivateSoFar(c)' = PrivateSoFar(p)
        /\ \A q \in procs : \A v \in PrivateSoFar(q) :
             Entry(q, v)' = Entry(q, v) /\ mem'[Entry(q, v)] = mem[Entry(q, v)]
        /\ \A v \in PrivateSoFar(p) :
             Entry(c, v)' # NoFrame /\ mem'[Entry(c, v)'] = mem[Entry(p, v)]
    BY <1>3, <2>0, ForkApart
  <2>3. /\ prog' = [prog EXCEPT ![c] = prog[p]]
        /\ loading' = loading /\ reading' = reading
    BY <1>3, <2>0 DEF Clone
  <2>4. ViewsAre /\ ViewsAre'
    BY ViewsHold, ViewsHoldNext
  <2>5. prog \in [Proc -> Programs \cup {NoProgram}]
    BY DEF Regular, TypeOK
  <2>6. ASSUME NEW q \in Proc, q # c PROVE View(q)' = View(q)
    <3>1. CASE q \in procs
      <4>1. PrivatePages(q)' = PrivatePages(q)
        BY <2>3, <2>5, <2>6, SamePages
      <4> QED
        BY <2>2, <2>4, <3>1, <4>1, SameView
    <3>2. CASE q \notin procs
      <4>1. View(q) = [v \in Page |-> Nothing]
        BY <3>2, NothingYet DEF Unborn
      <4>2. View(q)' = [v \in Page |-> Nothing]
        BY <2>2, <2>6, <3>2, NothingYetNext DEF Unborn, Nothing
      <4> QED
        BY <4>1, <4>2
    <3> QED
      BY <3>1, <3>2
  <2>7. View(c)' = View(p)
    <3>1. PrivatePages(c)' = PrivatePages(p)
      <4>1. /\ prog'[c] = prog[p] /\ loading'[c] = loading[p] /\ reading'[c] = reading[p]
        BY <1>3, <2>1, <2>3, <2>5 DEF FrameInv, MemTyped, Loaded
      <4> QED
        BY <4>1 DEF PrivatePages, StackPage, WholePages, FirstPage, FullPages,
                          Loaded, RegionOf
    <3>2. ASSUME NEW v \in Page PROVE View(c)'[v] = View(p)[v]
      <4>1. View(c)'[v] = IF v \in PrivatePages(c)' THEN mem'[Entry(c, v)'] ELSE Nothing
        BY <2>2, <2>4 DEF ViewsAre, Nothing
      <4>2. View(p)[v] = IF v \in PrivatePages(p) THEN mem[Entry(p, v)] ELSE Nothing
        BY <2>4 DEF ViewsAre
      <4>3. v \in PrivatePages(p) => v \in PrivateSoFar(p)
        BY <1>1, PrivatePagesAre
      <4> QED
        BY <2>2, <3>1, <4>1, <4>2, <4>3
    <3>3. View(p) = [v \in Page |-> View(p)[v]] /\ View(c)' = [v \in Page |-> View(c)'[v]]
      BY DEF View
    <3> QED
      BY <3>2, <3>3
  <2>8. Promise!Fork(p, c)
    BY <1>1, <2>1, <2>2, <2>6, <2>7 DEF Promise!Fork
  <2> QED
    BY <2>1, <2>8 DEF Promise!Next
<1>4. ASSUME NEW p \in procs, procs' = procs,
             \A q \in Proc \ {p} :
               prog'[q] = prog[q] /\ loading'[q] = loading[q] /\ reading'[q] = reading[q],
             \A q \in procs : \A v \in PrivateSoFar(q) :
               /\ Entry(q, v)' = Entry(q, v)
               /\ q # p \/ v \in StackPage => mem'[Entry(q, v)] = mem[Entry(q, v)]
      PROVE  Promise!Load(p)
  <2>1. p \in Proc
    BY <1>1
  <2>2. \A q \in Proc \ {p} : View(q)' = View(q)
    BY <1>4, OthersKept
  <2>3. \A v \in StackPage : View(p)'[v] = View(p)[v]
    <3>1. StackPage \subseteq PrivateSoFar(p)
      BY DEF PrivateSoFar
    <3> QED
      BY <1>4, <3>1, StackKept
  <2> QED
    BY <1>4, <2>1, <2>2, <2>3 DEF Promise!Load, Promise!OnlyOf, Promise!Keeps
<1>5. ASSUME NEW p \in Proc, NEW new \in Programs, Exec(p, new), mode' = "run"
      PROVE  Promise!Next
  <2>1. /\ p \in procs /\ procs' = procs
        /\ \A q \in procs : \A v \in PrivateSoFar(q) :
             Entry(q, v)' = Entry(q, v) /\ mem'[Entry(q, v)] = mem[Entry(q, v)]
    BY <1>5, ExecApart
  <2>2. Promise!Load(p)
    BY <1>4, <1>5, <2>1, OwnStep
  <2> QED
    BY <2>1, <2>2 DEF Promise!Next
<1>6. ASSUME NEW p \in procs, mode' = "run", LoadNext(p) \/ LoadLast(p)
      PROVE  Promise!Next
  <2>1. /\ procs' = procs
        /\ \A q \in procs : \A v \in PrivateSoFar(q) :
             /\ Entry(q, v)' = Entry(q, v)
             /\ q # p \/ v \in StackPage => mem'[Entry(q, v)] = mem[Entry(q, v)]
    BY <1>6, NextApart, LastApart
  <2>2. Promise!Load(p)
    BY <1>1, <1>4, <1>6, <2>1, OwnStep
  <2> QED
    BY <2>2 DEF Promise!Next
<1>7. ASSUME NEW p \in Proc, NEW u \in Page, Write(p, u), mode' = "run"
      PROVE  Promise!Next
  <2>1. /\ p \in procs /\ procs' = procs
        /\ \A q \in procs : \A v \in PrivateSoFar(q) :
             /\ Entry(q, v)' = Entry(q, v)
             /\ q # p \/ v # u => mem'[Entry(q, v)] = mem[Entry(q, v)]
    BY <1>7, WriteApart
  <2>2. \A q \in Proc \ {p} : View(q)' = View(q)
    <3>1. \A q \in Proc \ {p} :
            prog'[q] = prog[q] /\ loading'[q] = loading[q] /\ reading'[q] = reading[q]
      BY <1>7, OwnStep
    <3> QED
      BY <2>1, <3>1, OthersKept
  <2>3. ASSUME NEW v \in Page \ {u} PROVE View(p)'[v] = View(p)[v]
    <3>1. ViewsAre /\ ViewsAre'
      BY ViewsHold, ViewsHoldNext
    <3>2. PrivatePages(p)' = PrivatePages(p)
      BY <1>7, SamePages DEF Write, Stops
    <3>3. v \in PrivatePages(p) => mem'[Entry(p, v)'] = mem[Entry(p, v)]
      BY <2>1, PrivatePagesAre
    <3>4. View(p)'[v] = IF v \in PrivatePages(p)' THEN mem'[Entry(p, v)'] ELSE Nothing
      BY <2>1, <3>1 DEF ViewsAre, Nothing
    <3>5. View(p)[v] = IF v \in PrivatePages(p) THEN mem[Entry(p, v)] ELSE Nothing
      BY <2>1, <3>1 DEF ViewsAre
    <3> QED
      BY <3>2, <3>3, <3>4, <3>5
  <2>4. Promise!Write(p)
    BY <2>1, <2>2, <2>3 DEF Promise!Write, Promise!OnlyOf, Promise!Keeps
  <2> QED
    BY <2>1, <2>4 DEF Promise!Next
<1>8. CASE UNCHANGED vars
  BY <1>2, <1>8 DEF vars
<1>9. CASE Next
  BY <1>2, <1>3, <1>5, <1>6, <1>7, <1>9, StepIs
<1> QED
  BY <1>8, <1>9

LEMMA InitPromised == Init => Promise!Init
<1> SUFFICES ASSUME Init PROVE Promise!Init
  OBVIOUS
<1>1. procs = {0} /\ 0 \in Proc
  BY Sizes DEF Init, Proc
<1> QED
  BY <1>1 DEF Promise!Init

LEMMA StepKeepsPromise ==
  FrameInv /\ Regular /\ Apart /\ Regular' /\ Apart' /\ [Next]_vars
    => [Promise!Next]_(Promise!vars)
BY StepPromised

----------------------------------------------------------------------------
(* The theorems *)

\* Two processes never share a frame of a stack or of a whole page that execve()
\* has loaded, for sections of any address and size, and the kernel never writes
\* its own data there: the copies that fork makes, the heap blocks that
\* map_virtual_memory() maps and the blocks the kernel keeps for itself stay
\* apart, in any order of forks, loads, failures and writes.  The last page of a
\* section, whose frame goes on with the next block, is not among them.
THEOREM PrivateStaysPrivate == Spec => []PrivateFrames
<1>1. FrameInv /\ Regular /\ Apart => PrivateFrames
  BY PrivateFramesHold
<1> QED
  BY <1>1, FramesHold, RegularHolds, ApartHolds, PTL

\* What fork and execve() do to page tables and frames is, for the processes, what
\* they promise: clone_pagedirectory() gives the child what its parent has in its
\* private pages, and from then on each of the two changes its own of them only.
THEOREM MemoryKeepsPromise == Spec => KeepsPromise
<1>1. FrameInv /\ Regular /\ Apart /\ Regular' /\ Apart' /\ [Next]_vars
        => [Promise!Next]_(Promise!vars)
  BY StepKeepsPromise
<1> QED
  BY <1>1, InitPromised, FramesHold, RegularHolds, ApartHolds, PTL
  DEF Spec, KeepsPromise, Promise!Spec

=============================================================================
