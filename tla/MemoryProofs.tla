---------------------------- MODULE MemoryProofs ----------------------------
(***************************************************************************)
(* Proofs about Memory, for any number of processes, frames and programs.  *)
(*                                                                         *)
(* FrameInv is the inductive invariant of the frame bitmap.  That the      *)
(* cached word of the bitmap is never behind a free frame needs the order  *)
(* in which frames are handed out: a fork takes the first free ones        *)
(* without a gap (RankExists, RankUnique), so that below the last one      *)
(* nothing is left.                                                        *)
(*                                                                         *)
(* Regular, inductive together with it, says where frames and tables may   *)
(* be found: the heap, which only grows, ends in a frame that is mapped,   *)
(* what a page table maps lies below it or among the frames a fork takes,  *)
(* and an execve() that has not ended is at some suffix of its program's   *)
(* sections.                                                               *)
(***************************************************************************)
EXTENDS Memory, FiniteSetTheorems, NumberLemmas, TLAPS

\* The tables of every process are there, and only a process that exists is in
\* execve().
MemTyped ==
  /\ procs \subseteq Proc
  /\ firstempty \in Int
  /\ table \in [Proc -> [Region -> Proc \cup {Kernel, NoTable}]]
  /\ entry = [o \in Proc \cup {Kernel} |-> [v \in Page |-> entry[o][v]]]
  /\ prog \in [Proc -> Program]
  /\ loading \in [Proc -> Seq(Section)]
  /\ reading = [p \in Proc |-> reading[p]]
  /\ \A p \in Proc \ procs : loading[p] = <<>> /\ reading[p] = NoSection

FrameInv ==
  /\ MemTyped
  /\ KernelLinked
  /\ MappedMarked
  /\ CacheExact

----------------------------------------------------------------------------
(* Where the frames of the heap and of the bitmap may be found *)

\* The frame in which the heap ends.
TopFrame(top) == HeapFrame + top \div UnitsPerPage

\* A frame of the heap that is mapped, or that the kernel wrote to, is never
\* behind the frame in which the heap ends; the frames up to the first stack are
\* not handed out.
HeapOrder ==
  /\ Mapped(heapTop)
  /\ 0 .. FirstFree - 1 \subseteq used
  /\ \A o \in Proc \cup {Kernel}, v \in Page :
       \/ entry[o][v] \in {NoFrame} \cup (HeapFrame .. TopFrame(heapTop))
       \/ entry[o][v] >= StackFrame
  /\ \A f \in Frame :
       mem[f] = KernelData => f <= TopFrame(heapTop) \/ f >= FirstFree

\* Each process has a table of its own for its stack and for its program,
\* unless that was linked into the low megabytes; a table it did not make yet is
\* empty.
OwnTables ==
  /\ procs = 0 .. Cardinality(procs) - 1
  /\ \A p \in procs : table[p][Stack] = p /\ table[p][High] \in {p, NoTable}
  /\ \A p \in Proc \ procs, r \in Region : table[p][r] = NoTable
  /\ \A p \in Proc, v \in Page :
       entry[p][v] # NoFrame => table[p][RegionOf(v)] = p

\* An execve() has mapped the first sections of its program, so many of them.
Done(p) == Len(prog[p].loads) - Len(loading[p])

InOrder ==
  \A p \in Proc :
    /\ LaidOut(prog[p])
    /\ Done(p) \in Nat
    /\ \A i \in 1 .. Len(loading[p]) : loading[p][i] = prog[p].loads[Done(p) + i]
    /\ \/ reading[p] = NoSection
       \/ \E i \in DOMAIN prog[p].loads : reading[p] = prog[p].loads[i]

Regular == TypeOK /\ HeapOrder /\ OwnTables /\ InOrder

----------------------------------------------------------------------------
(* Sets of numbers *)

Below(S, x) == {y \in S : y < x}

LEMMA GreatestElement ==
  ASSUME NEW n \in Nat, NEW S \in SUBSET (0 .. n), S # {}
  PROVE  \E x \in S : \A y \in S : y <= x
<1> DEFINE T == {n - x : x \in S}
<1>1. T \in SUBSET Nat /\ T # {}
  <2>1. \A x \in S : n - x \in Nat
    <3>1. \A x \in S : x \in 0 .. n
      OBVIOUS
    <3> QED
      BY <3>1
  <2> QED
    BY <2>1
<1>2. PICK t \in T : \A u \in T : t <= u
  BY <1>1, LeastElement
<1>3. PICK x \in S : t = n - x
  OBVIOUS
<1>4. ASSUME NEW y \in S PROVE y <= x
  <2>1. t <= n - y
    BY <1>2
  <2> QED
    BY <1>3, <2>1
<1> QED
  BY <1>4

\* The part of a set below a number is finite.
LEMMA BelowFinite ==
  ASSUME NEW n \in Nat, NEW S \in SUBSET (0 .. n), NEW x
  PROVE  /\ IsFiniteSet(S) /\ Cardinality(S) \in Nat
         /\ IsFiniteSet(Below(S, x)) /\ Cardinality(Below(S, x)) \in Nat
         /\ Below(S, x) \in SUBSET (0 .. n)
         /\ S \in SUBSET Nat
<1>1. IsFiniteSet(0 .. n)
  BY FS_Interval
<1>2. Below(S, x) \in SUBSET S
  BY DEF Below
<1>3. IsFiniteSet(S)
  BY <1>1, FS_Subset
<1>4. IsFiniteSet(Below(S, x))
  BY <1>2, <1>3, FS_Subset
<1>5. \A y \in S : y \in 0 .. n
  OBVIOUS
<1>6. \A y \in S : y \in Nat
  BY <1>5
<1>7. Cardinality(S) \in Nat /\ Cardinality(Below(S, x)) \in Nat
  BY <1>3, <1>4, FS_CardinalityType
<1>8. Below(S, x) \in SUBSET (0 .. n)
  BY <1>2, <1>5
<1> QED
  BY <1>3, <1>4, <1>6, <1>7, <1>8

\* Without its greatest element a set is what lies below that.
LEMMA BelowGreatest ==
  ASSUME NEW n \in Nat, NEW S \in SUBSET (0 .. n), NEW m \in S,
         \A y \in S : y <= m
  PROVE  Cardinality(Below(S, m)) = Cardinality(S) - 1
<1>1. Below(S, m) = S \ {m}
  <2>1. \A y \in S : y < m <=> y # m
    OBVIOUS
  <2> QED
    BY <2>1 DEF Below
<1>2. IsFiniteSet(S)
  BY BelowFinite
<1> QED
  BY <1>1, <1>2, FS_RemoveElement

\* An element above another one has more elements below it.
LEMMA RankGrows ==
  ASSUME NEW n \in Nat, NEW S \in SUBSET (0 .. n),
         NEW x \in S, NEW y \in S, x < y
  PROVE  Cardinality(Below(S, x)) < Cardinality(Below(S, y))
<1>1. /\ IsFiniteSet(Below(S, x)) /\ Cardinality(Below(S, x)) \in Nat
      /\ IsFiniteSet(Below(S, y)) /\ Cardinality(Below(S, y)) \in Nat
  BY BelowFinite
<1>2. x \notin Below(S, x) /\ Below(S, x) \cup {x} \in SUBSET Below(S, y)
  <2>1. \A z \in S : z \in Int
    BY BelowFinite
  <2>2. \A z \in S : z < x => z < y
    BY <2>1
  <2>3. ~(x < x)
    BY <2>1
  <2> QED
    BY <2>2, <2>3 DEF Below
<1>3. Cardinality(Below(S, x) \cup {x}) = Cardinality(Below(S, x)) + 1
  BY <1>1, <1>2, FS_AddElement
<1>4. Cardinality(Below(S, x) \cup {x}) <= Cardinality(Below(S, y))
  BY <1>1, <1>2, FS_Subset
<1> QED
  BY <1>1, <1>3, <1>4

\* Two elements with as many below them are the same.
LEMMA RankUnique ==
  ASSUME NEW n \in Nat, NEW S \in SUBSET (0 .. n), NEW x \in S, NEW y \in S,
         Cardinality(Below(S, x)) = Cardinality(Below(S, y))
  PROVE  x = y
<1>1. /\ Cardinality(Below(S, x)) \in Nat
      /\ Cardinality(Below(S, y)) \in Nat
      /\ x \in Nat /\ y \in Nat
  <2>1. S \in SUBSET Nat
    BY BelowFinite
  <2>2. x \in Nat /\ y \in Nat
    BY <2>1
  <2>3. Cardinality(Below(S, x)) \in Nat /\ Cardinality(Below(S, y)) \in Nat
    BY BelowFinite
  <2> QED
    BY <2>2, <2>3
<1>2. ~(x < y)
  <2> SUFFICES ASSUME x < y PROVE FALSE
    OBVIOUS
  <2>1. Cardinality(Below(S, x)) < Cardinality(Below(S, y))
    BY RankGrows
  <2> QED
    BY <1>1, <2>1
<1>3. ~(y < x)
  <2> SUFFICES ASSUME y < x PROVE FALSE
    OBVIOUS
  <2>1. Cardinality(Below(S, y)) < Cardinality(Below(S, x))
    BY RankGrows
  <2> QED
    BY <1>1, <2>1
<1> QED
  BY <1>1, <1>2, <1>3

\* For every number below the size of a set, an element has as many below it.
LEMMA RankExists ==
  ASSUME NEW n \in Nat, NEW S \in SUBSET (0 .. n), NEW k \in Nat,
         k < Cardinality(S)
  PROVE  \E x \in S : Cardinality(Below(S, x)) = k
<1> DEFINE Big == {x \in S : Cardinality(Below(S, x)) >= k}
<1>1. /\ IsFiniteSet(S) /\ Cardinality(S) \in Nat
      /\ \A x : Cardinality(Below(S, x)) \in Nat
  BY BelowFinite
<1>2. Big # {}
  <2>1. S # {}
    BY <1>1, FS_EmptySet
  <2>2. PICK m \in S : \A y \in S : y <= m
    BY <2>1, GreatestElement
  <2>3. Cardinality(Below(S, m)) = Cardinality(S) - 1
    BY <2>2, BelowGreatest
  <2>4. Cardinality(Below(S, m)) >= k
    BY <1>1, <2>3
  <2> QED
    BY <2>2, <2>4
<1>3. Big \in SUBSET Nat
  <2>1. S \in SUBSET Nat
    BY BelowFinite
  <2> QED
    BY <2>1
<1>4. PICK x \in Big : \A y \in Big : x <= y
  BY <1>2, <1>3, LeastElement
<1>5. ASSUME Cardinality(Below(S, x)) # k PROVE FALSE
  <2>1. Cardinality(Below(S, x)) \in Nat /\ Cardinality(Below(S, x)) > k
    BY <1>1, <1>4, <1>5
  <2>2. Below(S, x) \in SUBSET (0 .. n) /\ Below(S, x) # {}
    <3>1. Below(S, x) \in SUBSET (0 .. n)
      BY BelowFinite
    <3>2. Cardinality(Below(S, x)) # 0
      BY <2>1
    <3> QED
      BY <3>1, <3>2, FS_EmptySet
  <2>3. PICK m \in Below(S, x) : \A y \in Below(S, x) : y <= m
    BY <2>2, GreatestElement
  <2>4. Below(Below(S, x), m) = Below(S, m)
    <3>1. m \in S /\ m < x /\ x \in S
      BY <2>3, <1>4 DEF Below
    <3>2. \A y \in S : y < m => y < x
      BY <3>1
    <3> QED
      BY <3>2 DEF Below
  <2>5. Cardinality(Below(S, m)) = Cardinality(Below(S, x)) - 1
    BY <2>2, <2>3, <2>4, BelowGreatest
  <2>6. m \in S /\ m < x
    BY <2>3 DEF Below
  <2>7. m \in Big
    BY <2>1, <2>5, <2>6
  <2>8. x <= m
    BY <1>4, <2>7
  <2>9. x \in Int /\ m \in Int
    BY <1>4, <2>6
  <2> QED
    BY <2>6, <2>8, <2>9
<1> QED
  BY <1>4, <1>5

----------------------------------------------------------------------------
(* The frames a fork takes *)

\* Assumptions in the form the proofs use them.
LEMMA Sizes ==
  /\ WordBits \in Nat \ {0} /\ FrameCount \in Nat \ {0} /\ TablePages \in Nat \ {0}
  /\ HeapPages \in Nat \ {0} /\ StackPages \in Nat \ {0} /\ MaxProcs \in Nat \ {0}
  /\ Reserved \in Nat
BY MemoryAssumption

LEMMA FramesAndPages ==
  /\ Candidates \in SUBSET (0 .. FrameCount)
  /\ \A p : CopiedPages(p) \in SUBSET (0 .. 3 * TablePages)
<1>1. FrameCount \in Nat /\ TablePages \in Nat
  BY Sizes
<1>2. \A f \in Frame : f \in 0 .. FrameCount
  BY <1>1 DEF Frame
<1>3. \A v \in Page : v \in 0 .. 3 * TablePages
  BY <1>1 DEF Page
<1> QED
  BY <1>2, <1>3 DEF Candidates, CopiedPages

\* The pages of a process in order get the first free frames in order.
LEMMA NewFrameRank ==
  ASSUME NEW p, Cardinality(Candidates) >= Cardinality(CopiedPages(p)),
         NEW v \in CopiedPages(p)
  PROVE  /\ NewFrame(p, v) \in Candidates
         /\ Cardinality(Below(Candidates, NewFrame(p, v)))
              = Cardinality(Below(CopiedPages(p), v))
<1> DEFINE pages == CopiedPages(p)
           k     == Cardinality(Below(pages, v))
<1>1. FrameCount \in Nat /\ 3 * TablePages \in Nat
  BY Sizes
<1>2. Candidates \in SUBSET (0 .. FrameCount) /\ pages \in SUBSET (0 .. 3 * TablePages)
  BY FramesAndPages
<1>3. NewFrame(p, v) =
        CHOOSE f \in Candidates : Cardinality(Below(Candidates, f)) = k
  BY DEF NewFrame, NthFrame, Below
<1> HIDE DEF pages
<1>4. /\ IsFiniteSet(pages) /\ Cardinality(pages) \in Nat /\ k \in Nat
      /\ Cardinality(Candidates) \in Nat
  BY <1>1, <1>2, BelowFinite
<1>5. k < Cardinality(pages)
  <2>1. Below(pages, v) \in SUBSET (pages \ {v})
    <3>1. v \in Nat
      BY <1>1, <1>2, BelowFinite DEF pages
    <3>2. ~(v < v)
      BY <3>1
    <3> QED
      BY <3>2 DEF Below
  <2>2. IsFiniteSet(pages \ {v}) /\ Cardinality(pages \ {v}) = Cardinality(pages) - 1
    BY <1>4, FS_RemoveElement DEF pages
  <2>3. k <= Cardinality(pages \ {v})
    BY <2>1, <2>2, FS_Subset
  <2> QED
    BY <1>4, <2>2, <2>3
<1>6. k < Cardinality(Candidates)
  BY <1>4, <1>5 DEF pages
<1> HIDE DEF k
<1>7. \E f \in Candidates : Cardinality(Below(Candidates, f)) = k
  BY <1>1, <1>2, <1>4, <1>6, RankExists
<1> QED
  BY <1>3, <1>7 DEF k, pages

\* Whatever is free below a frame that is taken is taken too.
LEMMA NoGap ==
  ASSUME NEW p, Cardinality(Candidates) >= Cardinality(CopiedPages(p)),
         NEW v \in CopiedPages(p), NEW f \in Candidates, f < NewFrame(p, v)
  PROVE  \E w \in CopiedPages(p) : NewFrame(p, w) = f
<1> DEFINE k == Cardinality(Below(Candidates, f))
           pages == CopiedPages(p)
<1>1. FrameCount \in Nat /\ 3 * TablePages \in Nat
  BY Sizes
<1>2. Candidates \in SUBSET (0 .. FrameCount) /\ pages \in SUBSET (0 .. 3 * TablePages)
  BY FramesAndPages
<1>3. /\ k \in Nat /\ Cardinality(pages) \in Nat
      /\ IsFiniteSet(pages) /\ Cardinality(Below(pages, v)) \in Nat
  BY <1>1, <1>2, BelowFinite
<1>4. /\ NewFrame(p, v) \in Candidates
      /\ Cardinality(Below(Candidates, NewFrame(p, v))) = Cardinality(Below(pages, v))
  BY NewFrameRank
<1>5. k < Cardinality(Below(pages, v))
  <2>1. k < Cardinality(Below(Candidates, NewFrame(p, v)))
    BY <1>1, <1>2, <1>4, RankGrows
  <2> QED
    BY <1>4, <2>1
<1>6. Cardinality(Below(pages, v)) <= Cardinality(pages)
  <2>1. Below(pages, v) \in SUBSET pages
    BY DEF Below
  <2> QED
    BY <1>3, <2>1, FS_Subset
<1>7. k < Cardinality(pages)
  BY <1>3, <1>5, <1>6
<1> HIDE DEF k
<1>8. PICK w \in pages : Cardinality(Below(pages, w)) = k
  <2> HIDE DEF pages
  <2> QED
    BY <1>1, <1>2, <1>3, <1>7, RankExists
<1>9. /\ NewFrame(p, w) \in Candidates
      /\ Cardinality(Below(Candidates, NewFrame(p, w))) = k
  BY <1>8, NewFrameRank
<1>10. NewFrame(p, w) = f
  BY <1>1, <1>2, <1>9, RankUnique DEF k
<1> QED
  BY <1>10

\* The cached word after a fork is in front of every frame that is still free.
LEMMA CacheAfterForkExact ==
  ASSUME FrameInv, NEW p, Cardinality(Candidates) >= Cardinality(CopiedPages(p)),
         NEW f \in Frame, f \notin MarkedAfterFork(p)
  PROVE  CacheAfterFork(p) \in Int /\ f \div WordBits >= CacheAfterFork(p)
<1> DEFINE taken == {NewFrame(p, v) : v \in CopiedPages(p)}
<1>1. /\ FrameCount \in Nat /\ WordBits \in Nat \ {0} /\ firstempty \in Int
      /\ f \in Nat /\ f \notin used /\ f \notin taken
      /\ f \div WordBits >= firstempty
  BY Sizes DEF FrameInv, MemTyped, CacheExact, MarkedAfterFork, Frame
<1>2. CASE CopiedPages(p) = {}
  BY <1>1, <1>2 DEF CacheAfterFork
<1>3. CASE CopiedPages(p) # {}
  <2>1. taken \in SUBSET Candidates /\ taken # {}
    BY <1>3, NewFrameRank
  <2>2. taken \in SUBSET (0 .. FrameCount)
    BY <2>1, FramesAndPages
  <2> DEFINE last == LastNewFrame(p)
  <2>3. last \in taken
    <3>1. \E x \in taken : \A y \in taken : y <= x
      BY <1>1, <2>1, <2>2, GreatestElement
    <3> QED
      BY <3>1 DEF LastNewFrame
  <2>4. PICK v \in CopiedPages(p) : last = NewFrame(p, v)
    BY <2>3
  <2>5. CacheAfterFork(p) = last \div WordBits - 1
    BY <1>3 DEF CacheAfterFork, CacheAfter
  <2>6. last \in Candidates
    BY <2>1, <2>3
  <2> HIDE DEF last, taken
  <2>7. last \in Nat /\ last \div WordBits \in Int /\ f \div WordBits \in Int
    BY <1>1, <2>6 DEF Candidates, Frame
  <2>8. last \div WordBits < Words /\ Words \in Int
    BY <1>1, <2>6 DEF Candidates, Words
  <2>9. ASSUME f \div WordBits < last \div WordBits PROVE FALSE
    <3>1. f < last
      BY <1>1, <2>7, <2>9, WordsGrow
    <3>2. f \div WordBits < Words
      BY <2>7, <2>8, <2>9
    <3>3. f \in Candidates
      BY <1>1, <3>2 DEF Candidates
    <3>4. \E w \in CopiedPages(p) : NewFrame(p, w) = f
      BY <2>4, <3>1, <3>3, NoGap
    <3> QED
      BY <1>1, <3>4 DEF taken
  <2> QED
    BY <2>5, <2>7, <2>9
<1> QED
  BY <1>2, <1>3

----------------------------------------------------------------------------
(* The steps *)

\* Sections and their pages.
LEMMA SectionIs ==
  ASSUME NEW section \in Section
  PROVE  /\ section.addr \in Nat /\ section.size \in Nat
         /\ FirstPage(section) \in Page /\ FirstPage(section) \in Nat
         /\ FullPages(section) \in Nat
<1> DEFINE U == UnitsPerPage
           a == section.addr
           q == a \div U
<1>1. U \in Nat \ {0} /\ TablePages \in Nat \ {0} /\ 3 * TablePages \in Nat
  BY MemoryAssumption
<1>2. a \in 0 .. 3 * TablePages * U - 1 /\ section.size \in Nat
  BY DEF Section
<1> HIDE DEF U, a
<1>3. a \in Nat /\ a < 3 * TablePages * U
  <2>1. 3 * TablePages * U \in Nat
    BY <1>1
  <2> QED
    BY <1>2, <2>1
<1>4. q \in Nat /\ a % U \in 0 .. U - 1 /\ a = U * q + (a % U)
  BY <1>1, <1>3, DivMod
<1>5. section.size \div U \in Nat
  BY <1>1, <1>2, DivMod
<1> HIDE DEF q
<1>6. q < 3 * TablePages
  <2> DEFINE n == 3 * TablePages
  <2>1. n \in Nat /\ a < n * U
    BY <1>1, <1>3
  <2> HIDE DEF n
  <2>2. n * U = U * n /\ U * q <= a /\ U * n \in Nat /\ U * q \in Nat
    BY <1>1, <1>4, <2>1
  <2>3. CASE n <= q
    <3>1. U * n <= U * q
      <4>1. CASE n = q
        BY <2>2, <4>1
      <4>2. CASE n < q
        <5>1. U * n + U <= U * q
          BY <1>1, <1>4, <2>1, <4>2, MultipleGrows
        <5> QED
          BY <1>1, <2>2, <5>1
      <4> QED
        BY <1>4, <2>1, <2>3, <4>1, <4>2
    <3> QED
      BY <1>3, <2>1, <2>2, <3>1
  <2> QED
    BY <1>4, <2>1, <2>3 DEF n
<1> QED
  BY <1>1, <1>2, <1>3, <1>4, <1>5, <1>6 DEF FirstPage, FullPages, Page, U, a, q

LEMMA NoSectionIs == NoSection \in Section
<1>1. UnitsPerPage \in Nat \ {0} /\ TablePages \in Nat \ {0}
  BY MemoryAssumption
<1>2. 3 * TablePages \in Nat \ {0}
  BY <1>1
<1>3. 3 * TablePages * UnitsPerPage \in Nat \ {0}
  BY <1>1, <1>2
<1>4. 0 \in 0 .. 3 * TablePages * UnitsPerPage - 1
  BY <1>3
<1> QED
  BY <1>4 DEF NoSection, Section

LEMMA NoProgramIsProgram == NoProgram \in Program
BY NoSectionIs DEF NoProgram, Program

LEMMA InitFrames == Init => FrameInv
<1> SUFFICES ASSUME Init PROVE FrameInv
  OBVIOUS
<1>1. /\ FrameCount \in Nat \ {0} /\ WordBits \in Nat \ {0} /\ MaxProcs \in Nat \ {0}
      /\ TablePages \in Nat \ {0} /\ StackPages \in Nat \ {0}
      /\ StackFrame \in Nat /\ FirstFree = StackFrame + StackPages
  BY Sizes DEF StackFrame, HeapFrame, FirstFree
<1>2. MemTyped
  <2>1. procs \subseteq Proc
    BY <1>1 DEF Init, Proc
  <2>2. FirstFree - 1 \in Nat /\ (FirstFree - 1) \div WordBits \in Int
    BY <1>1
  <2>3. firstempty \in Int
    BY <2>2 DEF Init, CacheAfter
  <2>4. table \in [Proc -> [Region -> Proc \cup {Kernel, NoTable}]]
    BY <2>1 DEF Init
  <2>5. entry = [o \in Proc \cup {Kernel} |-> [v \in Page |-> entry[o][v]]]
    BY DEF Init
  <2>6. prog \in [Proc -> Program]
    BY NoProgramIsProgram DEF Init
  <2>7. loading \in [Proc -> Seq(Section)] /\ reading = [p \in Proc |-> reading[p]]
    BY DEF Init
  <2>8. \A p \in Proc \ procs : loading[p] = <<>> /\ reading[p] = NoSection
    BY DEF Init
  <2> QED
    BY <2>1, <2>3, <2>4, <2>5, <2>6, <2>7, <2>8 DEF MemTyped
<1>3. KernelLinked
  <2>1. \A r \in KernelRegion : r \in Region
    BY DEF KernelRegion, Region, Low, Heap, Image, Window
  <2>2. 0 \in Proc
    BY <1>1 DEF Proc
  <2> QED
    BY <2>1, <2>2 DEF Init, KernelLinked
<1>4. MappedMarked
  <2> SUFFICES ASSUME NEW o \in Proc \cup {Kernel}, NEW v \in Page,
                      entry[o][v] # NoFrame
               PROVE  entry[o][v] \in used
    BY DEF MappedMarked
  <2>1. v \in StackPage /\ entry[o][v] = StackFrame + (v % TablePages)
    BY DEF Init
  <2>2. v % TablePages \in Nat /\ v % TablePages < StackPages
    BY <1>1, <2>1 DEF StackPage, Page
  <2> QED
    BY <1>1, <2>1, <2>2 DEF Init
<1>5. CacheExact
  <2> SUFFICES ASSUME NEW f \in Frame \ used
               PROVE  f \div WordBits >= firstempty
    BY DEF CacheExact
  <2> DEFINE last == FirstFree - 1
  <2>1. f \in Nat /\ last \in Nat /\ last < f
    BY <1>1 DEF Init, Frame
  <2> HIDE DEF last
  <2>2. f \div WordBits \in Int /\ last \div WordBits \in Int
    BY <1>1, <2>1
  <2>3. ~(f \div WordBits < last \div WordBits)
    <3>1. f \div WordBits < last \div WordBits => f < last
      BY <1>1, <2>1, WordsGrow
    <3> QED
      BY <2>1, <3>1
  <2>4. firstempty = last \div WordBits - 1
    BY DEF Init, CacheAfter, last
  <2> QED
    BY <2>2, <2>3, <2>4
<1> QED
  BY <1>2, <1>3, <1>4, <1>5 DEF FrameInv

\* The invariant is about these variables only.
LEMMA FramesKept ==
  ASSUME FrameInv,
         UNCHANGED <<procs, used, firstempty, table, entry, prog, loading, reading>>
  PROVE  FrameInv'
BY DEF FrameInv, MemTyped, KernelLinked, MappedMarked, CacheExact

LEMMA ForkKeeps ==
  ASSUME FrameInv, NEW p \in Proc, Fork(p)
  PROVE  FrameInv'
<1>1. ASSUME NEW how, Stops(how) PROVE FrameInv'
  BY <1>1, FramesKept DEF Stops
<1>2. ASSUME Cardinality(Candidates) >= Cardinality(CopiedPages(p)),
             Clone(p, Cardinality(procs)), Cardinality(procs) < MaxProcs, p \in procs
      PROVE  FrameInv'
  <2> DEFINE c == Cardinality(procs)
  <2>1. c \in Proc /\ c # Kernel
    <3>1. MaxProcs \in Nat
      BY Sizes
    <3>2. IsFiniteSet(procs)
      <4>1. IsFiniteSet(Proc)
        BY <3>1, FS_Interval DEF Proc
      <4> QED
        BY <4>1, FS_Subset DEF FrameInv, MemTyped
    <3>3. c \in Nat
      BY <3>2, FS_CardinalityType
    <3> QED
      BY <1>2, <3>1, <3>3 DEF Proc, Kernel
  <2> HIDE DEF c
  <2>2. /\ procs' = procs \cup {c}
        /\ used' = MarkedAfterFork(p)
        /\ firstempty' = CacheAfterFork(p)
        /\ table' = [table EXCEPT ![c] = [r \in Region |->
             IF r \in Copied(p) THEN c ELSE table[p][r]]]
        /\ entry' = [entry EXCEPT ![c] = [v \in Page |->
             IF v \in CopiedPages(p) THEN NewFrame(p, v) ELSE NoFrame]]
        /\ prog' = [prog EXCEPT ![c] = prog[p]]
        /\ loading' = loading /\ reading' = reading
    BY <1>2 DEF Clone, c
  <2>3. MemTyped'
    <3>1. procs' \subseteq Proc
      BY <2>1, <2>2 DEF FrameInv, MemTyped
    <3>2. firstempty' \in Int
      <4>1. firstempty \in Int
        BY DEF FrameInv, MemTyped
      <4>2. CASE CopiedPages(p) = {}
        BY <4>1, <4>2, <2>2 DEF CacheAfterFork
      <4>3. CASE CopiedPages(p) # {}
        <5> DEFINE frames == {NewFrame(p, v) : v \in CopiedPages(p)}
        <5>1. frames \in SUBSET Candidates /\ frames # {}
          BY <1>2, <4>3, NewFrameRank
        <5>2. frames \in SUBSET (0 .. FrameCount) /\ FrameCount \in Nat
          BY <5>1, FramesAndPages, Sizes
        <5>3. \E x \in frames : \A y \in frames : y <= x
          <6> HIDE DEF frames
          <6> QED
            BY <5>1, <5>2, GreatestElement
        <5>4. LastNewFrame(p) \in frames
          BY <5>3 DEF LastNewFrame
        <5>5. LastNewFrame(p) \in 0 .. FrameCount
          BY <5>2, <5>4
        <5>6. WordBits \in Nat \ {0}
          BY Sizes
        <5>7. LastNewFrame(p) \div WordBits \in Int
          BY <5>2, <5>5, <5>6
        <5> QED
          BY <4>3, <5>7, <2>2 DEF CacheAfterFork, CacheAfter
      <4> QED
        BY <4>2, <4>3
    <3>3. table' \in [Proc -> [Region -> Proc \cup {Kernel, NoTable}]]
      BY <2>1, <2>2 DEF FrameInv, MemTyped
    <3>4. entry' = [o \in Proc \cup {Kernel} |-> [v \in Page |-> entry'[o][v]]]
      <4>1. entry = [o \in Proc \cup {Kernel} |-> [v \in Page |-> entry[o][v]]]
        BY DEF FrameInv, MemTyped
      <4> QED
        BY <2>1, <2>2, <4>1
    <3>5. /\ prog' \in [Proc -> Program]
          /\ loading' \in [Proc -> Seq(Section)]
          /\ reading' = [q \in Proc |-> reading'[q]]
      BY <2>2 DEF FrameInv, MemTyped
    <3>6. \A q \in Proc \ procs' : loading'[q] = <<>> /\ reading'[q] = NoSection
      BY <2>2 DEF FrameInv, MemTyped
    <3> QED
      BY <3>1, <3>2, <3>3, <3>4, <3>5, <3>6 DEF MemTyped
  <2>4. KernelLinked'
    <3> SUFFICES ASSUME NEW q \in procs', NEW r \in KernelRegion
                 PROVE  table'[q][r] = Kernel
      BY DEF KernelLinked
    <3>1. r \in Region
      BY DEF KernelRegion, Region, Low, Heap, Image, Window
    <3>2. table[p][r] = Kernel /\ r \notin Copied(p)
      BY <1>2 DEF FrameInv, KernelLinked, Copied
    <3>3. table \in [Proc -> [Region -> Proc \cup {Kernel, NoTable}]] /\ procs \subseteq Proc
      BY DEF FrameInv, MemTyped
    <3>4. CASE q = c
      BY <3>4, <3>1, <3>2, <3>3, <2>1, <2>2
    <3>5. CASE q # c
      <4>1. q \in procs /\ table'[q] = table[q]
        BY <3>5, <3>3, <2>1, <2>2
      <4> QED
        BY <4>1 DEF FrameInv, KernelLinked
    <3> QED
      BY <3>4, <3>5
  <2>5. MappedMarked'
    <3> SUFFICES ASSUME NEW o \in Proc \cup {Kernel}, NEW v \in Page,
                        entry'[o][v] # NoFrame
                 PROVE  entry'[o][v] \in used'
      BY DEF MappedMarked
    <3>1. entry = [x \in Proc \cup {Kernel} |-> [w \in Page |-> entry[x][w]]]
      BY DEF FrameInv, MemTyped
    <3>2. CASE o = c
      <4>1. entry'[o][v] = IF v \in CopiedPages(p) THEN NewFrame(p, v) ELSE NoFrame
        BY <3>1, <3>2, <2>2
      <4>2. v \in CopiedPages(p) /\ entry'[o][v] = NewFrame(p, v)
        BY <4>1
      <4> QED
        BY <4>2, <2>2 DEF MarkedAfterFork
    <3>3. CASE o # c
      <4>1. entry'[o][v] = entry[o][v]
        BY <3>1, <3>3, <2>1, <2>2
      <4>2. entry[o][v] \in used
        BY <4>1 DEF FrameInv, MappedMarked
      <4> QED
        BY <4>1, <4>2, <2>2 DEF MarkedAfterFork
    <3> QED
      BY <3>2, <3>3
  <2>6. CacheExact'
    <3> SUFFICES ASSUME NEW f \in Frame, f \notin used'
                 PROVE  f \div WordBits >= firstempty'
      BY DEF CacheExact
    <3> QED
      BY <1>2, <2>2, CacheAfterForkExact
  <2> QED
    BY <2>3, <2>4, <2>5, <2>6 DEF FrameInv
<1> QED
  BY <1>1, <1>2 DEF Fork, InProgram

LEMMA ExecKeeps ==
  ASSUME FrameInv, NEW p \in Proc, NEW new \in Programs, Exec(p, new)
  PROVE  FrameInv'
<1>1. CASE Stops("fault")
  BY <1>1, FramesKept DEF Stops
<1>2. CASE ~Stops("fault")
  <2>1. /\ prog' = [prog EXCEPT ![p] = new]
        /\ loading' = [loading EXCEPT ![p] = new.loads]
        /\ UNCHANGED <<procs, used, firstempty, table, entry, reading>>
        /\ p \in procs
    BY <1>2 DEF Exec, InProgram
  <2>2. new \in Program /\ new.loads \in Seq(Section)
    BY MemoryAssumption DEF Program
  <2>3. MemTyped'
    <3>1. prog' \in [Proc -> Program] /\ loading' \in [Proc -> Seq(Section)]
      BY <2>1, <2>2 DEF FrameInv, MemTyped
    <3>2. \A q \in Proc \ procs' : loading'[q] = <<>> /\ reading'[q] = NoSection
      BY <2>1 DEF FrameInv, MemTyped
    <3> QED
      BY <2>1, <3>1, <3>2 DEF FrameInv, MemTyped
  <2>4. KernelLinked' /\ MappedMarked' /\ CacheExact'
    BY <2>1 DEF FrameInv, KernelLinked, MappedMarked, CacheExact
  <2> QED
    BY <2>3, <2>4 DEF FrameInv
<1> QED
  BY <1>1, <1>2

\* A section that is given memory: its frames are marked before they are mapped,
\* and the tables of the kernel stay where they are.
LEMMA MapKeeps ==
  ASSUME FrameInv, NEW p \in procs, NEW section \in Section, NEW base, NEW buffers,
         MapSection(p, section, base, buffers)
  PROVE  FrameInv'
<1>1. ASSUME NEW how, Stops(how) PROVE FrameInv'
  BY <1>1, FramesKept DEF Stops
<1>2. ASSUME Map(p, section, base, buffers),
             loading' = [loading EXCEPT ![p] = IF @ = <<>> THEN <<>> ELSE Tail(@)],
             reading' = [reading EXCEPT ![p] =
                           IF loading[p] = <<>> THEN NoSection ELSE section],
             UNCHANGED <<procs, firstempty, prog>>
      PROVE  FrameInv'
  <2> DEFINE r        == RegionOf(FirstPage(section))
             owner    == IF MakesTable(p, section) THEN p ELSE table[p][r]
             frame(v) == FrameAt(base) + (v - FirstPage(section))
             frames   == {frame(v) : v \in MappedPages(section)}
  <2>1. /\ entry' = [entry EXCEPT ![owner] = [v \in Page |->
                      IF v \in MappedPages(section) THEN frame(v) ELSE @[v]]]
        /\ used' = used \cup frames
        /\ table' = [table EXCEPT ![p][r] = owner]
    BY <1>2 DEF Map
  <2>2. p \in Proc /\ procs \subseteq Proc
    BY DEF FrameInv, MemTyped
  <2>3. r \in Region
    <3>1. FirstPage(section) \in Page /\ TablePages \in Nat \ {0}
      BY Sizes, SectionIs
    <3>2. FirstPage(section) \in Nat /\ FirstPage(section) < 3 * TablePages
      BY <3>1 DEF Page
    <3>3. FirstPage(section) \div TablePages \in 0 .. 2
      BY <3>1, <3>2
    <3> QED
      BY <3>3 DEF RegionOf, Region, Low, Window
  <2>4. table[p][r] \in Proc \cup {Kernel, NoTable}
    BY <2>2, <2>3 DEF FrameInv, MemTyped
  <2>5. owner \in Proc \cup {Kernel}
    BY <2>2, <2>4 DEF MakesTable
  <2>6. ASSUME r \in KernelRegion PROVE owner = Kernel
    <3>1. table[p][r] = Kernel
      BY <2>6 DEF FrameInv, KernelLinked
    <3> QED
      BY <3>1 DEF MakesTable, Kernel, NoTable
  <2> HIDE DEF owner, r
  <2>7. MemTyped'
    <3>1. table' \in [Proc -> [Region -> Proc \cup {Kernel, NoTable}]]
      BY <2>1, <2>2, <2>3, <2>5 DEF FrameInv, MemTyped
    <3>2. entry' = [o \in Proc \cup {Kernel} |-> [v \in Page |-> entry'[o][v]]]
      <4> HIDE DEF frame
      <4>1. entry = [o \in Proc \cup {Kernel} |-> [v \in Page |-> entry[o][v]]]
        BY DEF FrameInv, MemTyped
      <4> QED
        BY <2>1, <2>5, <4>1
    <3>3. loading' \in [Proc -> Seq(Section)]
      <4>1. loading \in [Proc -> Seq(Section)]
        BY DEF FrameInv, MemTyped
      <4>2. (IF loading[p] = <<>> THEN <<>> ELSE Tail(loading[p])) \in Seq(Section)
        BY <2>2, <4>1
      <4> QED
        BY <1>2, <2>2, <4>1, <4>2
    <3>4. reading' = [q \in Proc |-> reading'[q]]
      BY <1>2 DEF FrameInv, MemTyped
    <3>5. ASSUME NEW q \in Proc \ procs'
          PROVE  loading'[q] = <<>> /\ reading'[q] = NoSection
      <4>1. q \in Proc \ procs /\ q # p
        BY <1>2, <3>5
      <4>2. loading'[q] = loading[q] /\ reading'[q] = reading[q]
        BY <1>2, <4>1 DEF FrameInv, MemTyped
      <4> QED
        BY <4>1, <4>2 DEF FrameInv, MemTyped
    <3> QED
      BY <1>2, <3>1, <3>2, <3>3, <3>4, <3>5 DEF FrameInv, MemTyped
  <2>8. KernelLinked'
    <3> SUFFICES ASSUME NEW q \in procs', NEW k \in KernelRegion
                 PROVE  table'[q][k] = Kernel
      BY DEF KernelLinked
    <3>1. table[q][k] = Kernel /\ q \in Proc
      BY <1>2, <2>2 DEF FrameInv, KernelLinked
    <3>2. table \in [Proc -> [Region -> Proc \cup {Kernel, NoTable}]]
      BY DEF FrameInv, MemTyped
    <3>3. CASE q = p /\ k = r
      BY <3>2, <3>3, <2>1, <2>2, <2>3, <2>6
    <3>4. CASE ~(q = p /\ k = r)
      <4>1. k \in Region
        BY DEF KernelRegion, Region, Low, Heap, Image, Window
      <4>2. table'[q][k] = table[q][k]
        BY <3>1, <3>2, <3>4, <2>1, <2>2, <2>3, <4>1
      <4> QED
        BY <3>1, <4>2
    <3> QED
      BY <3>3, <3>4
  <2>9. MappedMarked'
    <3> SUFFICES ASSUME NEW o \in Proc \cup {Kernel}, NEW v \in Page,
                        entry'[o][v] # NoFrame
                 PROVE  entry'[o][v] \in used'
      BY DEF MappedMarked
    <3>1. entry = [x \in Proc \cup {Kernel} |-> [w \in Page |-> entry[x][w]]]
      BY DEF FrameInv, MemTyped
    <3>2. CASE o = owner /\ v \in MappedPages(section)
      <4>1. frame(v) \in frames
        BY <3>2
      <4> HIDE DEF frame, frames
      <4>2. entry'[o][v] = frame(v)
        BY <2>1, <3>1, <3>2
      <4> QED
        BY <2>1, <4>1, <4>2
    <3>3. CASE ~(o = owner /\ v \in MappedPages(section))
      <4> HIDE DEF frame, frames
      <4>1. entry'[o][v] = entry[o][v]
        BY <2>1, <3>1, <3>3
      <4>2. entry[o][v] \in used
        BY <4>1 DEF FrameInv, MappedMarked
      <4> QED
        BY <2>1, <4>1, <4>2
    <3> QED
      BY <3>2, <3>3
  <2>10. CacheExact'
    <3> SUFFICES ASSUME NEW f \in Frame, f \notin used'
                 PROVE  f \div WordBits >= firstempty'
      BY DEF CacheExact
    <3>1. f \notin used
      BY <2>1
    <3> QED
      BY <1>2, <3>1 DEF FrameInv, CacheExact
  <2> QED
    BY <2>7, <2>8, <2>9, <2>10 DEF FrameInv
<1> QED
  BY <1>1, <1>2 DEF MapSection

LEMMA LoadKeeps ==
  ASSUME FrameInv, NEW p \in Proc, Load(p)
  PROVE  FrameInv'
<1>1. p \in procs
  BY DEF FrameInv, MemTyped, Load, LoadNext, LoadLast
<1>2. CASE LoadNext(p)
  <2>1. loading[p] \in Seq(Section) /\ loading[p] # <<>>
    BY <1>2 DEF FrameInv, MemTyped, LoadNext
  <2>2. Head(loading[p]) \in Section
    BY <2>1
  <2> QED
    BY <1>1, <1>2, <2>2, MapKeeps DEF LoadNext
<1>3. CASE LoadLast(p)
  <2>1. prog[p].bss \in Section
    BY DEF FrameInv, MemTyped, Program
  <2>2. CASE MapSection(p, prog[p].bss, heapTop, 0)
    BY <1>1, <2>1, <2>2, MapKeeps
  <2>4. CASE Stops("unmapped")
    BY <2>4, FramesKept DEF Stops
  <2>3. CASE ~MapSection(p, prog[p].bss, heapTop, 0) /\ ~Stops("unmapped")
    <3>1. /\ reading' = [reading EXCEPT ![p] = NoSection]
          /\ UNCHANGED <<procs, used, firstempty, table, entry, prog, loading>>
      BY <1>3, <2>3 DEF LoadLast
    <3>2. MemTyped'
      <4>1. reading' = [q \in Proc |-> reading'[q]]
        BY <3>1 DEF FrameInv, MemTyped
      <4>2. \A q \in Proc \ procs' : loading'[q] = <<>> /\ reading'[q] = NoSection
        BY <3>1 DEF FrameInv, MemTyped
      <4> QED
        BY <3>1, <4>1, <4>2 DEF FrameInv, MemTyped
    <3>3. KernelLinked' /\ MappedMarked' /\ CacheExact'
      BY <3>1 DEF FrameInv, KernelLinked, MappedMarked, CacheExact
    <3> QED
      BY <3>2, <3>3 DEF FrameInv
  <2> QED
    BY <2>2, <2>3, <2>4
<1> QED
  BY <1>2, <1>3 DEF Load

\* Every step of the kernel keeps the invariant.
LEMMA StepKeeps == FrameInv /\ [Next]_vars => FrameInv'
<1> SUFFICES ASSUME FrameInv, [Next]_vars PROVE FrameInv'
  OBVIOUS
<1>1. ASSUME NEW p \in Proc, Fork(p) PROVE FrameInv'
  BY <1>1, ForkKeeps
<1>2. ASSUME NEW p \in Proc, NEW new \in Programs, Exec(p, new) PROVE FrameInv'
  BY <1>2, ExecKeeps
<1>3. ASSUME NEW p \in Proc, Load(p) PROVE FrameInv'
  BY <1>3, LoadKeeps
<1>4. ASSUME NEW p \in Proc, NEW v \in Page, Write(p, v) PROVE FrameInv'
  BY <1>4, FramesKept DEF Write, Stops
<1>5. CASE UNCHANGED vars
  BY <1>5, FramesKept DEF vars
<1> QED
  BY <1>1, <1>2, <1>3, <1>4, <1>5 DEF Next, Halted

LEMMA FramesHold == Spec => []FrameInv
BY InitFrames, StepKeeps, PTL DEF Spec

----------------------------------------------------------------------------
(* Heap units, pages and frames *)

LEMMA HeapSizes ==
  /\ UnitsPerPage \in Nat \ {0} /\ TaskUnits \in Nat \ {0} /\ DirUnits \in Nat \ {0}
  /\ KStackUnits \in Nat \ {0} /\ ElfUnits \in Nat \ {0} /\ BootUnits \in Nat
  /\ ReadUnits \in Nat
  /\ MaxExecs \in Nat /\ MaxWrites \in Nat
  /\ HeapFrame \in Nat /\ StackFrame = HeapFrame + HeapPages
  /\ FirstFree = StackFrame + StackPages
  /\ FirstFree <= FrameCount /\ BootUnits <= HeapPages * UnitsPerPage
BY MemoryAssumption DEF HeapFrame, StackFrame, FirstFree

LEMMA QuotientKeepsOrder ==
  ASSUME NEW a \in Nat, NEW b \in Nat, NEW n \in Nat \ {0}, a <= b
  PROVE  /\ a \div n \in Nat /\ b \div n \in Nat
         /\ a \div n <= b \div n
<1>1. a \div n \in Nat /\ b \div n \in Nat
  BY DivMod
<1>2. b \div n < a \div n => b < a
  BY WordsGrow
<1> QED
  BY <1>1, <1>2

\* The whole pages of a size lead at most to the page in which the size ends.
LEMMA WholeUp ==
  ASSUME NEW base \in Nat, NEW size \in Nat
  PROVE  /\ base \div UnitsPerPage \in Nat /\ size \div UnitsPerPage \in Nat
         /\ base \div UnitsPerPage + size \div UnitsPerPage
              <= (base + size) \div UnitsPerPage
<1> DEFINE U == UnitsPerPage
           q == base \div U
           r == size \div U
<1>1. U \in Nat \ {0}
  BY HeapSizes
<1>2. /\ q \in Nat /\ base % U \in 0 .. U - 1 /\ base = U * q + (base % U)
      /\ r \in Nat /\ size % U \in 0 .. U - 1 /\ size = U * r + (size % U)
  BY <1>1, DivMod
<1> HIDE DEF U, q, r
<1>3. /\ U * (q + r) = U * q + U * r /\ U * (q + r) + 0 = U * (q + r)
      /\ U * q \in Nat /\ U * r \in Nat /\ U * (q + r) \in Nat
  BY <1>1, <1>2
<1>4. U * (q + r) <= base + size
  BY <1>1, <1>2, <1>3
<1>5. (U * (q + r) + 0) \div U = q + r
  <2>1. q + r \in Nat /\ 0 \in 0 .. U - 1
    BY <1>1, <1>2
  <2> QED
    BY <1>1, <2>1, Remainder
<1>6. (U * (q + r)) \div U <= (base + size) \div U
  <2>1. base + size \in Nat
    OBVIOUS
  <2> QED
    BY <1>1, <1>3, <1>4, <2>1, QuotientKeepsOrder
<1> QED
  BY <1>2, <1>3, <1>5, <1>6 DEF U, q, r

\* A block on a page boundary begins a frame that lies behind the top.
LEMMA AlignedUp ==
  ASSUME NEW top \in Nat
  PROVE  /\ AlignedBase(top) \in Nat
         /\ top < AlignedBase(top)
         /\ AlignedBase(top) \div UnitsPerPage = top \div UnitsPerPage + 1
<1> DEFINE U == UnitsPerPage
           q == top \div U
<1>1. U \in Nat \ {0}
  BY HeapSizes
<1>2. q \in Nat /\ top % U \in 0 .. U - 1 /\ top = U * q + (top % U)
  BY <1>1, DivMod
<1>3. AlignedBase(top) = (q + 1) * U
  BY DEF AlignedBase
<1> HIDE DEF U, q
<1>4. (q + 1) * U = U * q + U /\ (q + 1) * U \in Nat
  BY <1>1, <1>2
<1>5. U * q \in Nat
  BY <1>1, <1>2
<1>6. top < (q + 1) * U
  BY <1>1, <1>2, <1>4, <1>5
<1>7. q + 1 \in Nat /\ 0 \in 0 .. U - 1
  BY <1>1, <1>2
<1>8. (U * (q + 1) + 0) \div U = q + 1
  BY <1>1, <1>7, Remainder
<1>9. U * (q + 1) + 0 = (q + 1) * U
  BY <1>1, <1>2
<1> QED
  BY <1>3, <1>4, <1>6, <1>8, <1>9 DEF U, q

\* The page tables of a fork, each on a page boundary, move the top further on.
LEMMA TablesUp ==
  ASSUME NEW p, NEW top \in Nat
  PROVE  TopWithTables(p, top) \in Nat /\ top <= TopWithTables(p, top)
<1> DEFINE N == Cardinality(Region)
           Step(f) == [n \in 0 .. N |->
                         IF n = 0 THEN top ELSE AlignedBase(f[n - 1]) + UnitsPerPage]
           f0 == top
           f1 == AlignedBase(f0) + UnitsPerPage
           f2 == AlignedBase(f1) + UnitsPerPage
           f3 == AlignedBase(f2) + UnitsPerPage
           f4 == AlignedBase(f3) + UnitsPerPage
           f5 == AlignedBase(f4) + UnitsPerPage
           f6 == AlignedBase(f5) + UnitsPerPage
           F  == [n \in 0 .. N |-> IF n = 0 THEN f0 ELSE IF n = 1 THEN f1
                    ELSE IF n = 2 THEN f2 ELSE IF n = 3 THEN f3
                    ELSE IF n = 4 THEN f4 ELSE IF n = 5 THEN f5 ELSE f6]
           at == CHOOSE f : f = Step(f)
<1>1. N = 6 /\ IsFiniteSet(Region)
  <2>1. 0 \in Int /\ 5 \in Int /\ ~(0 > 5)
    OBVIOUS
  <2>2. IsFiniteSet(0 .. 5) /\ Cardinality(0 .. 5) = 5 - 0 + 1
    BY <2>1, FS_Interval, Zenon
  <2> QED
    BY <2>2 DEF Region, Low, Window
<1>2. Cardinality(Copied(p)) \in 0 .. 6
  <2>1. Copied(p) \in SUBSET Region
    BY DEF Copied
  <2>2. /\ Cardinality(Copied(p)) <= Cardinality(Region)
        /\ IsFiniteSet(Copied(p))
    BY <1>1, <2>1, FS_Subset
  <2>3. Cardinality(Copied(p)) \in Nat
    BY <2>2, FS_CardinalityType
  <2> QED
    BY <1>1, <2>2, <2>3
<1>3. TopWithTables(p, top) = at[Cardinality(Copied(p))]
  BY DEF TopWithTables
<1> HIDE DEF N
<1>4. F = Step(F)
  <2> HIDE DEF f0, f1, f2, f3, f4, f5, f6
  <2>1. ASSUME NEW n \in 0 .. N
        PROVE  F[n] = IF n = 0 THEN top ELSE AlignedBase(F[n - 1]) + UnitsPerPage
    <3>1. n \in 0 .. 6
      BY <1>1
    <3>2. CASE n = 0
      BY <3>2, <1>1 DEF f0
    <3>3. CASE n = 1
      BY <3>3, <1>1 DEF f1
    <3>4. CASE n = 2
      BY <3>4, <1>1 DEF f2
    <3>5. CASE n = 3
      BY <3>5, <1>1 DEF f3
    <3>6. CASE n = 4
      BY <3>6, <1>1 DEF f4
    <3>7. CASE n = 5
      BY <3>7, <1>1 DEF f5
    <3>8. CASE n = 6
      BY <3>8, <1>1 DEF f6
    <3> QED
      BY <3>1, <3>2, <3>3, <3>4, <3>5, <3>6, <3>7, <3>8
  <2> HIDE DEF F
  <2>2. F = [n \in 0 .. N |-> F[n]]
    BY DEF F
  <2>3. [n \in 0 .. N |-> F[n]] = Step(F)
    BY <2>1
  <2> QED
    BY <2>2, <2>3
<1> HIDE DEF F
<1>5. at = Step(at)
  BY <1>4
<1> HIDE DEF at
<1>6. at[0] = top
  BY <1>1, <1>5
<1>7. ASSUME NEW n \in 1 .. 6
      PROVE  at[n] = AlignedBase(at[n - 1]) + UnitsPerPage
  BY <1>1, <1>5
<1>8. ASSUME NEW n \in 1 .. 6, at[n - 1] \in Nat, top <= at[n - 1]
      PROVE  at[n] \in Nat /\ top <= at[n]
  <2>1. AlignedBase(at[n - 1]) \in Nat /\ at[n - 1] < AlignedBase(at[n - 1])
    BY <1>8, AlignedUp
  <2>2. UnitsPerPage \in Nat
    BY HeapSizes
  <2> QED
    BY <1>7, <1>8, <2>1, <2>2
<1>9. at[0] \in Nat /\ top <= at[0]
  BY <1>6
<1>10. at[1] \in Nat /\ top <= at[1]
  BY <1>8, <1>9
<1>11. at[2] \in Nat /\ top <= at[2]
  BY <1>8, <1>10
<1>12. at[3] \in Nat /\ top <= at[3]
  BY <1>8, <1>11
<1>13. at[4] \in Nat /\ top <= at[4]
  BY <1>8, <1>12
<1>14. at[5] \in Nat /\ top <= at[5]
  BY <1>8, <1>13
<1>15. at[6] \in Nat /\ top <= at[6]
  BY <1>8, <1>14
<1>16. \A n \in 0 .. 6 : n \in {0, 1, 2, 3, 4, 5, 6}
  OBVIOUS
<1> QED
  BY <1>2, <1>3, <1>9, <1>10, <1>11, <1>12, <1>13, <1>14, <1>15, <1>16

\* The heap only grows.
LEMMA ForkUp ==
  ASSUME NEW p, heapTop \in Nat
  PROVE  TopAfterFork(p) \in Nat /\ heapTop <= TopAfterFork(p)
<1> DEFINE task == AlignedBase(heapTop + TaskUnits)
           dir  == task + DirUnits
           tabs == TopWithTables(p, dir)
<1>1. TaskUnits \in Nat /\ DirUnits \in Nat /\ KStackUnits \in Nat
  BY HeapSizes
<1>2. task \in Nat /\ heapTop + TaskUnits < task
  <2>1. heapTop + TaskUnits \in Nat
    BY <1>1
  <2> QED
    BY <2>1, AlignedUp
<1> HIDE DEF task
<1>3. dir \in Nat /\ heapTop <= dir
  BY <1>1, <1>2
<1> HIDE DEF dir
<1>4. tabs \in Nat /\ dir <= tabs
  BY <1>3, TablesUp
<1> HIDE DEF tabs
<1>5. AlignedBase(tabs) \in Nat /\ tabs < AlignedBase(tabs)
  BY <1>4, AlignedUp
<1>6. TopAfterFork(p) = AlignedBase(tabs) + KStackUnits
  BY DEF TopAfterFork, tabs, dir, task
<1> QED
  BY <1>1, <1>3, <1>4, <1>5, <1>6

\* The last unit of the heap lies in its last page.
LEMMA HeapEnd ==
  ASSUME NEW x \in Nat, Mapped(x + 1)
  PROVE  /\ x \div UnitsPerPage \in Nat
         /\ HeapFrame + x \div UnitsPerPage < StackFrame
<1> DEFINE q == x \div UnitsPerPage
           H == HeapPages
           U == UnitsPerPage
<1>1. U \in Nat \ {0} /\ H \in Nat /\ HeapFrame \in Nat /\ StackFrame = HeapFrame + H
  BY Sizes, HeapSizes
<1>2. x + 1 <= H * U
  BY DEF Mapped
<1>3. q \in Nat /\ x = U * q + (x % U) /\ x % U \in 0 .. U - 1
  BY <1>1, DivMod
<1> HIDE DEF q, H, U
<1>4. U * q \in Nat /\ U * q < H * U
  BY <1>1, <1>2, <1>3
<1>5. q < H
  <2>1. CASE H = q
    BY <1>1, <1>3, <1>4, <2>1
  <2>2. CASE H < q
    <3>1. U * H + U <= U * q
      BY <1>1, <1>3, <2>2, MultipleGrows
    <3> QED
      BY <1>1, <1>3, <1>4, <3>1
  <2> QED
    BY <1>1, <1>3, <2>1, <2>2
<1> QED
  BY <1>1, <1>3, <1>5 DEF q

\* A section that fits into the heap: its frames follow each other from the frame
\* of its block to at most the one in which the block ends, and none of them is
\* the first stack's.
LEMMA SectionUp ==
  ASSUME NEW base \in Nat, NEW section \in Section, Fits(section, base)
  PROVE  /\ SectionEnd(section, base) \in Nat /\ base <= SectionEnd(section, base)
         /\ TopFrame(base) \in Nat /\ TopFrame(SectionEnd(section, base)) \in Nat
         /\ TopFrame(base) + FullPages(section) <= TopFrame(SectionEnd(section, base))
         /\ TopFrame(base) + FullPages(section) < StackFrame
<1> DEFINE n   == FullPages(section)
           end == SectionEnd(section, base)
           q   == base \div UnitsPerPage
<1>1. /\ section.size \in Nat /\ n \in Nat /\ UnitsPerPage \in Nat \ {0}
      /\ HeapFrame \in Nat /\ StackFrame = HeapFrame + HeapPages /\ HeapPages \in Nat
  BY SectionIs, Sizes, HeapSizes
<1>2. end = base + section.size
  BY DEF SectionEnd
<1>3. end \in Nat /\ base <= end
  BY <1>1, <1>2
<1>4. q \in Nat /\ q + n <= end \div UnitsPerPage /\ end \div UnitsPerPage \in Nat
  <2>1. end \div UnitsPerPage \in Nat
    BY <1>1, <1>3, DivMod
  <2> QED
    BY <1>1, <1>2, <2>1, WholeUp DEF FullPages
<1>5. q + n < HeapPages
  BY DEF Fits
<1> HIDE DEF n, end, q
<1>6. TopFrame(base) = HeapFrame + q /\ TopFrame(end) = HeapFrame + end \div UnitsPerPage
  BY DEF TopFrame, q
<1>7. /\ TopFrame(base) \in Nat /\ TopFrame(end) \in Nat
      /\ TopFrame(base) + n <= TopFrame(end) /\ TopFrame(base) + n < StackFrame
  BY <1>1, <1>4, <1>5, <1>6
<1> QED
  BY <1>3, <1>7 DEF n, end

LEMMA SectionFrame ==
  ASSUME NEW base \in Nat, NEW section \in Section, Fits(section, base),
         NEW v \in MappedPages(section)
  PROVE  /\ FrameAt(base) + (v - FirstPage(section))
               = TopFrame(base) + (v - FirstPage(section))
         /\ FrameAt(base) + (v - FirstPage(section))
              \in TopFrame(base) .. TopFrame(SectionEnd(section, base))
         /\ FrameAt(base) + (v - FirstPage(section)) < StackFrame
         /\ FrameAt(base) + (v - FirstPage(section)) \in Frame
<1> DEFINE first == FirstPage(section)
           n     == FullPages(section)
           top   == TopFrame(base)
           last  == TopFrame(SectionEnd(section, base))
<1>1. /\ top \in Nat /\ last \in Nat /\ top + n <= last /\ top + n < StackFrame
  BY SectionUp
<1>2. first \in Nat /\ n \in Nat /\ v \in first .. first + n
  BY SectionIs DEF MappedPages
<1>3. FrameAt(base) = top
  BY DEF FrameAt, TopFrame
<1>4. /\ StackFrame \in Nat /\ FirstFree = StackFrame + StackPages
      /\ FirstFree <= FrameCount /\ StackPages \in Nat /\ FrameCount \in Nat
  BY Sizes, HeapSizes
<1> HIDE DEF first, n, top, last
<1>5. top + (v - first) \in top .. last /\ top + (v - first) < StackFrame
  BY <1>1, <1>2, <1>4
<1>6. top + (v - first) \in Frame
  BY <1>1, <1>2, <1>4, <1>5 DEF Frame
<1> QED
  BY <1>3, <1>5, <1>6 DEF first, top, last

\* As the top of the heap moves on, so does its frame.
LEMMA TopFrameUp ==
  ASSUME NEW from \in Nat, NEW to \in Nat, from <= to
  PROVE  TopFrame(from) \in Nat /\ TopFrame(to) \in Nat /\ TopFrame(from) <= TopFrame(to)
<1>1. UnitsPerPage \in Nat \ {0} /\ HeapFrame \in Nat
  BY HeapSizes
<1>2. /\ from \div UnitsPerPage \in Nat /\ to \div UnitsPerPage \in Nat
      /\ from \div UnitsPerPage <= to \div UnitsPerPage
  BY <1>1, QuotientKeepsOrder
<1> QED
  BY <1>1, <1>2 DEF TopFrame

\* The kernel fills frames between the old and the new top only.
LEMMA FilledIs ==
  ASSUME NEW from \in Nat, NEW to \in Nat, from <= to, NEW m \in [Frame -> Int],
         NEW f \in Frame
  PROVE  /\ Filled(m, from, to) \in [Frame -> Int]
         /\ \/ Filled(m, from, to)[f] = m[f]
            \/ /\ Filled(m, from, to)[f] = KernelData
               /\ TopFrame(from) <= f /\ f <= TopFrame(to)
               /\ Mapped(to) => f < StackFrame
<1>1. Filled(m, from, to) \in [Frame -> Int]
  BY DEF Filled, KernelData
<1>2. Filled(m, from, to)[f] = IF f \in HeapFrames(from, to) THEN KernelData ELSE m[f]
  BY DEF Filled
<1>3. ASSUME f \in HeapFrames(from, to)
      PROVE  /\ TopFrame(from) <= f /\ f <= TopFrame(to)
             /\ Mapped(to) => f < StackFrame
  <2>1. PICK u \in from .. to - 1 : f = FrameAt(u)
    BY <1>3 DEF HeapFrames
  <2>2. u \in Nat /\ from <= u /\ u <= to /\ u + 1 <= to
    OBVIOUS
  <2>3. f = TopFrame(u)
    BY <2>1 DEF FrameAt, TopFrame
  <2>4. TopFrame(from) <= TopFrame(u) /\ TopFrame(u) <= TopFrame(to)
    BY <2>2, TopFrameUp
  <2>5. ASSUME Mapped(to) PROVE TopFrame(u) < StackFrame
    <3>1. HeapPages * UnitsPerPage \in Nat
      BY Sizes, HeapSizes
    <3>2. Mapped(u + 1)
      BY <2>2, <2>5, <3>1 DEF Mapped
    <3> QED
      BY <2>2, <3>2, HeapEnd DEF TopFrame
  <2> QED
    BY <2>3, <2>4, <2>5
<1> QED
  BY <1>1, <1>2, <1>3

\* A fork takes free frames, a different one for each page.
LEMMA NewFramesDiffer ==
  ASSUME NEW p, Cardinality(Candidates) >= Cardinality(CopiedPages(p)),
         NEW v \in CopiedPages(p)
  PROVE  /\ NewFrame(p, v) \in Frame /\ NewFrame(p, v) \notin used
         /\ NewFrame(p, v) \div WordBits < Words
         /\ \A w \in CopiedPages(p) : NewFrame(p, w) = NewFrame(p, v) => w = v
<1> DEFINE pages == CopiedPages(p)
<1>1. NewFrame(p, v) \in Candidates
  BY NewFrameRank
<1>2. ASSUME NEW w \in pages, NewFrame(p, w) = NewFrame(p, v) PROVE w = v
  <2>1. Cardinality(Below(pages, w)) = Cardinality(Below(pages, v))
    BY <1>2, NewFrameRank
  <2>2. pages \in SUBSET (0 .. 3 * TablePages) /\ 3 * TablePages \in Nat
    BY FramesAndPages, Sizes
  <2> HIDE DEF pages
  <2>3. v \in pages
    BY DEF pages
  <2> QED
    BY <2>1, <2>2, <2>3, RankUnique
<1> QED
  BY <1>1, <1>2 DEF Candidates

\* What a fork leaves in the frames: a new one holds what the parent's page
\* holds, any other what it held, or a block of the kernel.
LEMMA CopiedMem ==
  ASSUME NEW p, Cardinality(Candidates) >= Cardinality(CopiedPages(p))
  PROVE  /\ \A v \in CopiedPages(p) : MemAfterFork(p)[NewFrame(p, v)] = mem[Entry(p, v)]
         /\ \A f \in Frame :
              (\A v \in CopiedPages(p) : NewFrame(p, v) # f)
                => MemAfterFork(p)[f] = Filled(mem, heapTop, TopAfterFork(p))[f]
<1>1. ASSUME NEW v \in CopiedPages(p)
      PROVE  MemAfterFork(p)[NewFrame(p, v)] = mem[Entry(p, v)]
  <2> DEFINE f == NewFrame(p, v)
             u == CHOOSE w \in CopiedPages(p) : NewFrame(p, w) = f
  <2>1. u \in CopiedPages(p) /\ NewFrame(p, u) = f
    OBVIOUS
  <2>2. u = v /\ f \in Frame
    BY <2>1, NewFramesDiffer
  <2>3. MemAfterFork(p)[f] = mem[Entry(p, u)]
    BY <2>2 DEF MemAfterFork
  <2> QED
    BY <2>2, <2>3
<1>2. ASSUME NEW f \in Frame, \A v \in CopiedPages(p) : NewFrame(p, v) # f
      PROVE  MemAfterFork(p)[f] = Filled(mem, heapTop, TopAfterFork(p))[f]
  BY <1>2 DEF MemAfterFork
<1> QED
  BY <1>1, <1>2

LEMMA RegionOfPage ==
  ASSUME NEW v \in Page
  PROVE  /\ RegionOf(v) \in {Low, High, Stack} /\ RegionOf(v) \in Region
         /\ RegionOf(v) \notin KernelRegion => RegionOf(v) \in {High, Stack}
<1>1. TablePages \in Nat \ {0}
  BY Sizes
<1>2. v \in Nat /\ v < 3 * TablePages
  BY <1>1 DEF Page
<1>3. v \div TablePages \in 0 .. 2
  BY <1>1, <1>2
<1> QED
  BY <1>3 DEF RegionOf, Region, KernelRegion, Low, High, Stack, Heap, Image, Window

\* All pages that the loader maps for a section and that the section has bytes
\* in are in the table of the first one, the page too many as well.
LEMMA OneTableIs ==
  ASSUME NEW section \in Section, OneTable(section),
         NEW v \in MappedPages(section) \cup Pages(section)
  PROVE  RegionOf(v) = RegionOf(FirstPage(section)) /\ v \in Page
<1> DEFINE a == FirstPage(section)
           b == SectionLimit(section) \div UnitsPerPage
<1>0. /\ TablePages \in Nat \ {0} /\ UnitsPerPage \in Nat \ {0} /\ a \in Nat
      /\ section.addr \in Nat /\ section.size \in Nat /\ FullPages(section) \in Nat
      /\ SectionLimit(section) = section.addr + section.size
      /\ SectionLimit(section) \in Nat
  BY Sizes, HeapSizes, SectionIs DEF SectionLimit
<1>1. b \in Nat /\ v \in Nat /\ v \in a .. b
  <2>1. b \in Nat
    BY <1>0, DivMod
  <2>2. CASE v \in MappedPages(section)
    <3>1. a + FullPages(section) <= b
      BY <1>0, WholeUp DEF FirstPage, FullPages
    <3>2. v \in a .. a + FullPages(section)
      BY <2>2 DEF MappedPages
    <3> HIDE DEF a, b
    <3> QED
      BY <1>0, <2>1, <3>1, <3>2
  <2>3. CASE v \in Pages(section)
    <3>1. PICK unit \in section.addr .. section.addr + section.size - 1 :
            v = unit \div UnitsPerPage
      BY <2>3 DEF Pages
    <3>2. unit \in Nat /\ section.addr <= unit /\ unit <= SectionLimit(section)
      BY <1>0
    <3>3. v \in Nat /\ a <= v /\ v <= b
      BY <1>0, <3>1, <3>2, QuotientKeepsOrder DEF FirstPage
    <3> HIDE DEF a, b
    <3> QED
      BY <1>0, <2>1, <3>3
  <2> QED
    BY <2>1, <2>2, <2>3
<1>2. a \div TablePages \in {0, 1} /\ b \div TablePages = a \div TablePages
  BY DEF OneTable, RegionOf, Low, High
<1> HIDE DEF a, b
<1>3. v \in Nat /\ a <= v /\ v <= b
  BY <1>0, <1>1
<1>4. a \div TablePages <= v \div TablePages /\ v \div TablePages <= b \div TablePages
  BY <1>0, <1>1, <1>3, QuotientKeepsOrder
<1>5. v \div TablePages \in Nat
  BY <1>0, <1>3, DivMod
<1>6. v \div TablePages = a \div TablePages
  BY <1>2, <1>4, <1>5
<1>7. v < 3 * TablePages
  <2> DEFINE q == v \div TablePages
             n == TablePages
  <2>1. n \in Nat \ {0} /\ v % n \in 0 .. n - 1 /\ v = n * q + (v % n)
    BY <1>0, <1>3, DivMod
  <2>2. q \in {0, 1}
    BY <1>2, <1>6
  <2> HIDE DEF q, n
  <2>3. v < 3 * n
    BY <1>3, <2>1, <2>2
  <2> QED
    BY <2>3 DEF n
<1> QED
  BY <1>0, <1>3, <1>6, <1>7 DEF RegionOf, Page, a

\* What a process sees in a page, whatever table the page is in.
LEMMA EntryIs ==
  ASSUME TypeOK, NEW p \in Proc, NEW v \in Page
  PROVE  /\ Entry(p, v) \in Frame \cup {NoFrame}
         /\ table[p][RegionOf(v)] \in Proc \cup {Kernel, NoTable}
         /\ Entry(p, v) # NoFrame =>
              \E o \in Proc \cup {Kernel} :
                o = table[p][RegionOf(v)] /\ Entry(p, v) = entry[o][v]
<1>1. table[p][RegionOf(v)] \in Proc \cup {Kernel, NoTable}
  BY RegionOfPage DEF TypeOK
<1> QED
  BY <1>1 DEF Entry, TypeOK

----------------------------------------------------------------------------
(* Every step keeps types, tables and the order of the heap *)

LEMMA NoProgramLaidOut == LaidOut(NoProgram)
<1>1. TablePages \in Nat \ {0} /\ UnitsPerPage \in Nat \ {0}
  BY Sizes, HeapSizes
<1>2. 0 \div TablePages = 0 /\ 0 \div UnitsPerPage = 0 /\ 0 + 0 = 0
  BY <1>1
<1> QED
  BY <1>2 DEF LaidOut, NoProgram, NoSection, OneTable, SectionLimit, FirstPage,
              RegionOf, Low

LEMMA InitRegular == Init => Regular
<1> SUFFICES ASSUME Init PROVE Regular
  OBVIOUS
<1>1. /\ FrameCount \in Nat \ {0} /\ WordBits \in Nat \ {0} /\ MaxProcs \in Nat \ {0}
      /\ TablePages \in Nat \ {0} /\ StackPages \in Nat \ {0}
      /\ HeapFrame \in Nat /\ HeapPages \in Nat /\ StackFrame = HeapFrame + HeapPages
      /\ FirstFree = StackFrame + StackPages /\ FirstFree <= FrameCount
      /\ BootUnits \in Nat /\ BootUnits <= HeapPages * UnitsPerPage
      /\ MaxExecs \in Nat /\ MaxWrites \in Nat
  BY Sizes, HeapSizes
<1>2. 0 \in Proc
  BY <1>1 DEF Proc
<1>3. NoSection \in Section
  BY NoSectionIs
<1>4. TypeOK
  <2>1. procs \subseteq Proc
    BY <1>2 DEF Init
  <2>2. used \subseteq Frame
    BY <1>1 DEF Init, Frame
  <2>3. firstempty \in -1 .. Words - 1
    <3> DEFINE a == FirstFree - 1
               w == a \div WordBits
    <3>1. a \in Nat /\ a <= FrameCount
      BY <1>1
    <3> HIDE DEF a
    <3>2. w \in Nat /\ FrameCount \div WordBits \in Nat /\ w <= FrameCount \div WordBits
      BY <1>1, <3>1, QuotientKeepsOrder
    <3>3. firstempty = w - 1
      BY DEF Init, CacheAfter, a
    <3> QED
      BY <3>2, <3>3 DEF Words
  <2>4. heapTop \in Nat
    BY <1>1 DEF Init
  <2>5. table \in [Proc -> [Region -> Proc \cup {Kernel, NoTable}]]
    BY <1>2 DEF Init
  <2>6. entry \in [Proc \cup {Kernel} -> [Page -> Frame \cup {NoFrame}]]
    <3>1. ASSUME NEW v \in StackPage PROVE StackFrame + (v % TablePages) \in Frame
      <4>1. v % TablePages \in Nat /\ v % TablePages < StackPages
        BY <1>1 DEF StackPage, Page
      <4> QED
        BY <1>1, <4>1 DEF Frame
    <3> QED
      BY <3>1 DEF Init
  <2>7. mem \in [Frame -> Int]
    BY DEF Init, Junk
  <2>8. prog \in [Proc -> Programs \cup {NoProgram}]
    BY DEF Init
  <2>9. loading \in [Proc -> Seq(Section)] /\ reading \in [Proc -> Section]
    BY <1>3 DEF Init
  <2>10. execs \in 0 .. MaxExecs /\ writes \in 0 .. MaxWrites
         /\ mode \in {"run", "fault", "panic", "lost", "unmapped"}
    BY <1>1 DEF Init
  <2> QED
    BY <2>1, <2>2, <2>3, <2>4, <2>5, <2>6, <2>7, <2>8, <2>9, <2>10 DEF TypeOK
<1>5. HeapOrder
  <2>1. Mapped(heapTop)
    BY <1>1 DEF Init, Mapped
  <2>2. ASSUME NEW o \in Proc \cup {Kernel}, NEW v \in Page
        PROVE  entry[o][v] = NoFrame \/ entry[o][v] >= StackFrame
    <3>1. ASSUME v \in StackPage PROVE StackFrame + (v % TablePages) >= StackFrame
      <4>1. v % TablePages \in Nat
        BY <1>1 DEF Page
      <4> QED
        BY <1>1, <4>1
    <3> QED
      BY <3>1 DEF Init
  <2>3. \A f \in Frame : mem[f] # KernelData
    BY DEF Init, Junk, KernelData
  <2>4. 0 .. FirstFree - 1 \subseteq used
    BY DEF Init
  <2> QED
    BY <2>1, <2>2, <2>3, <2>4 DEF HeapOrder
<1>6. OwnTables
  <2>1. Cardinality({0}) = 1
    BY FS_Singleton
  <2>2. procs = 0 .. Cardinality(procs) - 1
    <3>1. {0} = 0 .. 1 - 1
      OBVIOUS
    <3> QED
      BY <2>1, <3>1 DEF Init
  <2>3. ASSUME NEW r \in Region
        PROVE  table[0][r] = IF r \in KernelRegion THEN Kernel
                             ELSE IF r = Stack THEN 0 ELSE NoTable
    BY <1>2 DEF Init
  <2>4. Stack \in Region /\ High \in Region
        /\ Stack \notin KernelRegion /\ High \notin KernelRegion /\ High # Stack
    BY DEF Region, Stack, High, Low, Heap, Image, Window, KernelRegion
  <2>5. table[0][Stack] = 0 /\ table[0][High] = NoTable
    BY <2>3, <2>4
  <2>6. \A p \in Proc \ procs, r \in Region : table[p][r] = NoTable
    BY DEF Init
  <2>7. procs = {0}
    BY DEF Init
  <2>8. ASSUME NEW p \in Proc, NEW v \in Page, entry[p][v] # NoFrame
        PROVE  table[p][RegionOf(v)] = p
    <3>1. p = 0 /\ v \in StackPage
      BY <2>8 DEF Init
    <3>2. RegionOf(v) = Stack
      BY <3>1 DEF StackPage
    <3> QED
      BY <2>5, <3>1, <3>2
  <2> QED
    BY <2>2, <2>5, <2>6, <2>7, <2>8 DEF OwnTables
<1>7. InOrder
  <2> SUFFICES ASSUME NEW p \in Proc
               PROVE  /\ LaidOut(prog[p])
                      /\ Done(p) \in Nat
                      /\ \A i \in 1 .. Len(loading[p]) :
                           loading[p][i] = prog[p].loads[Done(p) + i]
                      /\ reading[p] = NoSection
    BY DEF InOrder
  <2>1. prog[p] = NoProgram /\ loading[p] = <<>> /\ reading[p] = NoSection
    BY DEF Init
  <2>2. prog[p].loads = <<>>
    BY <2>1 DEF NoProgram
  <2>3. Len(loading[p]) = 0 /\ Len(prog[p].loads) = 0
    BY <2>1, <2>2
  <2>4. Done(p) = 0
    BY <2>3 DEF Done
  <2> QED
    BY <2>1, <2>3, <2>4, NoProgramLaidOut
<1> QED
  BY <1>4, <1>5, <1>6, <1>7 DEF Regular

LEMMA StopsKeeps ==
  ASSUME Regular, NEW how \in {"fault", "panic", "lost", "unmapped"}, Stops(how)
  PROVE  Regular'
<1>1. TypeOK'
  BY DEF Stops, Regular, TypeOK
<1>2. HeapOrder' /\ OwnTables'
  BY DEF Stops, Regular, HeapOrder, TopFrame, OwnTables
<1>3. InOrder'
  BY DEF Stops, Regular, InOrder, Done
<1> QED
  BY <1>1, <1>2, <1>3 DEF Regular

\* A new process has the next number.
LEMMA NextProcess ==
  ASSUME Regular, Cardinality(procs) < MaxProcs
  PROVE  /\ Cardinality(procs) \in Proc /\ Cardinality(procs) \notin procs
         /\ Cardinality(procs) # Kernel
         /\ procs \cup {Cardinality(procs)} = 0 .. Cardinality(procs)
         /\ Cardinality(procs \cup {Cardinality(procs)}) = Cardinality(procs) + 1
<1> DEFINE c == Cardinality(procs)
<1>1. MaxProcs \in Nat /\ procs \subseteq Proc
  BY Sizes DEF Regular, TypeOK
<1>2. IsFiniteSet(procs)
  <2>1. IsFiniteSet(Proc)
    BY <1>1, FS_Interval DEF Proc
  <2> QED
    BY <1>1, <2>1, FS_Subset
<1>3. c \in Nat
  BY <1>2, FS_CardinalityType
<1>4. procs = 0 .. c - 1
  BY DEF Regular, OwnTables
<1>5. c \notin procs
  <2> HIDE DEF c
  <2> QED
    BY <1>3, <1>4
<1>6. Cardinality(procs \cup {c}) = c + 1
  BY <1>2, <1>5, FS_AddElement
<1>7. procs \cup {c} = 0 .. c /\ c \in Proc /\ c # Kernel
  <2>1. c < MaxProcs
    OBVIOUS
  <2> HIDE DEF c
  <2> QED
    BY <1>1, <1>3, <1>4, <2>1 DEF Proc, Kernel
<1> QED
  BY <1>5, <1>6, <1>7

LEMMA ForkRegular ==
  ASSUME FrameInv, Regular, NEW p \in Proc, Fork(p)
  PROVE  Regular'
<1>1. ASSUME NEW how \in {"fault", "panic", "lost", "unmapped"}, Stops(how) PROVE Regular'
  BY <1>1, StopsKeeps
<1>2. ASSUME Cardinality(Candidates) >= Cardinality(CopiedPages(p)),
             Clone(p, Cardinality(procs)), Cardinality(procs) < MaxProcs, p \in procs,
             Mapped(TopAfterFork(p)), Loaded(p)
      PROVE  Regular'
  <2> DEFINE c == Cardinality(procs)
  <2>1. /\ c \in Proc /\ c \notin procs /\ c # Kernel
        /\ procs \cup {c} = 0 .. c /\ Cardinality(procs \cup {c}) = c + 1
    BY <1>2, NextProcess
  <2>2. /\ procs' = procs \cup {c}
        /\ heapTop' = TopAfterFork(p)
        /\ used' = MarkedAfterFork(p)
        /\ firstempty' = CacheAfterFork(p)
        /\ table' = [table EXCEPT ![c] = [r \in Region |->
             IF r \in Copied(p) THEN c ELSE table[p][r]]]
        /\ entry' = [entry EXCEPT ![c] = [v \in Page |->
             IF v \in CopiedPages(p) THEN NewFrame(p, v) ELSE NoFrame]]
        /\ mem' = MemAfterFork(p)
        /\ prog' = [prog EXCEPT ![c] = prog[p]]
        /\ UNCHANGED <<loading, reading, execs, writes, mode>>
    BY <1>2 DEF Clone, c
  <2> HIDE DEF c
  <2>3. /\ procs \subseteq Proc /\ used \subseteq Frame
        /\ table \in [Proc -> [Region -> Proc \cup {Kernel, NoTable}]]
        /\ entry \in [Proc \cup {Kernel} -> [Page -> Frame \cup {NoFrame}]]
        /\ mem \in [Frame -> Int] /\ heapTop \in Nat
        /\ prog \in [Proc -> Programs \cup {NoProgram}]
        /\ loading \in [Proc -> Seq(Section)]
    BY DEF Regular, TypeOK
  <2>4. TopAfterFork(p) \in Nat /\ heapTop <= TopAfterFork(p)
    BY <2>3, ForkUp
  <2>5. ASSUME NEW v \in CopiedPages(p)
        PROVE  /\ NewFrame(p, v) \in Frame /\ NewFrame(p, v) \notin used
               /\ NewFrame(p, v) \div WordBits < Words
               /\ NewFrame(p, v) >= FirstFree
    <3>1. /\ NewFrame(p, v) \in Frame /\ NewFrame(p, v) \notin used
          /\ NewFrame(p, v) \div WordBits < Words
      BY <1>2, NewFramesDiffer
    <3>2. 0 .. FirstFree - 1 \subseteq used /\ FirstFree \in Nat /\ FrameCount \in Nat
      BY Sizes, HeapSizes DEF Regular, HeapOrder
    <3>3. NewFrame(p, v) >= FirstFree
      BY <3>1, <3>2 DEF Frame
    <3> QED
      BY <3>1, <3>3
  <2>6. TypeOK'
    <3>1. procs' \subseteq Proc /\ used' \subseteq Frame
      BY <2>1, <2>2, <2>3, <2>5 DEF MarkedAfterFork
    <3>2. firstempty' \in -1 .. Words - 1
      <4>1. firstempty \in -1 .. Words - 1
        BY DEF Regular, TypeOK
      <4>2. CASE CopiedPages(p) = {}
        BY <4>1, <4>2, <2>2 DEF CacheAfterFork
      <4>3. CASE CopiedPages(p) # {}
        <5> DEFINE frames == {NewFrame(p, v) : v \in CopiedPages(p)}
                   last   == LastNewFrame(p)
                   w      == last \div WordBits
        <5>1. frames \in SUBSET (0 .. FrameCount) /\ FrameCount \in Nat /\ frames # {}
          <6>1. FrameCount \in Nat
            BY Sizes
          <6>2. \A f \in Frame : f \in 0 .. FrameCount
            BY <6>1 DEF Frame
          <6> QED
            BY <4>3, <6>1, <6>2, <2>5
        <5>2. last \in frames
          <6>1. \E x \in frames : \A y \in frames : y <= x
            <7> HIDE DEF frames
            <7> QED
              BY <5>1, GreatestElement
          <6> QED
            BY <6>1 DEF LastNewFrame
        <5>3. last \div WordBits < Words
          BY <5>2, <2>5
        <5>4. firstempty' = last \div WordBits - 1
          BY <4>3, <2>2 DEF CacheAfterFork, CacheAfter
        <5>5. last \in Nat
          BY <5>1, <5>2
        <5> HIDE DEF last, frames
        <5>6. /\ last \div WordBits \in Nat
              /\ FrameCount \div WordBits \in Nat
          BY <5>1, <5>5, Sizes, DivMod
        <5> QED
          BY <5>3, <5>4, <5>6 DEF Words
      <4> QED
        BY <4>2, <4>3
    <3>3. heapTop' \in Nat
      BY <2>2, <2>4
    <3>4. table' \in [Proc -> [Region -> Proc \cup {Kernel, NoTable}]]
      BY <2>1, <2>2, <2>3
    <3>5. entry' \in [Proc \cup {Kernel} -> [Page -> Frame \cup {NoFrame}]]
      <4>1. [v \in Page |-> IF v \in CopiedPages(p) THEN NewFrame(p, v) ELSE NoFrame]
              \in [Page -> Frame \cup {NoFrame}]
        BY <2>5
      <4> QED
        BY <4>1, <2>1, <2>2, <2>3
    <3>6. mem' \in [Frame -> Int]
      <4>1. ASSUME NEW f \in Frame PROVE MemAfterFork(p)[f] \in Int
        <5>1. CASE \E v \in CopiedPages(p) : NewFrame(p, v) = f
          <6>1. PICK v \in CopiedPages(p) : NewFrame(p, v) = f
            BY <5>1
          <6>2. MemAfterFork(p)[f] = mem[Entry(p, v)]
            BY <6>1, <1>2, CopiedMem
          <6>3. v \in Page /\ Entry(p, v) # NoFrame
            BY DEF CopiedPages
          <6>4. Entry(p, v) \in Frame
            BY <6>3, EntryIs DEF Regular
          <6> QED
            BY <6>2, <6>4, <2>3
        <5>2. CASE ~\E v \in CopiedPages(p) : NewFrame(p, v) = f
          <6>1. MemAfterFork(p)[f] = Filled(mem, heapTop, TopAfterFork(p))[f]
            BY <5>2, <1>2, CopiedMem
          <6>2. Filled(mem, heapTop, TopAfterFork(p)) \in [Frame -> Int]
            BY <2>3, <2>4, FilledIs
          <6> QED
            BY <6>1, <6>2
        <5> QED
          BY <5>1, <5>2
      <4>2. MemAfterFork(p) = [f \in Frame |-> MemAfterFork(p)[f]]
        BY DEF MemAfterFork
      <4> QED
        BY <4>1, <4>2, <2>2
    <3>7. prog' \in [Proc -> Programs \cup {NoProgram}]
      BY <2>2, <2>3
    <3>8. /\ loading' \in [Proc -> Seq(Section)] /\ reading' \in [Proc -> Section]
          /\ execs' \in 0 .. MaxExecs /\ writes' \in 0 .. MaxWrites
          /\ mode' \in {"run", "fault", "panic", "lost", "unmapped"}
      BY <2>2 DEF Regular, TypeOK
    <3> QED
      BY <3>1, <3>2, <3>3, <3>4, <3>5, <3>6, <3>7, <3>8 DEF TypeOK
  <2>7. /\ StackFrame \in Nat /\ FirstFree \in Nat /\ FirstFree >= StackFrame
        /\ TopFrame(heapTop) \in Nat /\ TopFrame(heapTop') \in Nat
        /\ TopFrame(heapTop) <= TopFrame(heapTop') /\ HeapFrame \in Nat
    <3>1. /\ StackFrame \in Nat /\ FirstFree \in Nat /\ FirstFree >= StackFrame
          /\ HeapFrame \in Nat
      BY Sizes, HeapSizes
    <3> QED
      BY <3>1, <2>2, <2>3, <2>4, TopFrameUp
  <2>8. HeapOrder'
    <3>1. Mapped(heapTop')
      BY <1>2, <2>2
    <3>2. (0 .. FirstFree - 1 \subseteq used)'
      BY <2>2 DEF Regular, HeapOrder, MarkedAfterFork
    <3>3. ASSUME NEW o \in Proc \cup {Kernel}, NEW v \in Page
          PROVE  \/ entry'[o][v] \in {NoFrame} \cup (HeapFrame .. TopFrame(heapTop'))
                 \/ entry'[o][v] >= StackFrame
      <4>1. CASE o = c
        <5>1. entry'[o][v] = IF v \in CopiedPages(p) THEN NewFrame(p, v) ELSE NoFrame
          BY <4>1, <2>2, <2>3
        <5>2. CASE v \in CopiedPages(p)
          <6>1. NewFrame(p, v) \in Nat /\ NewFrame(p, v) >= FirstFree
            <7>1. FrameCount \in Nat
              BY Sizes
            <7> QED
              BY <5>2, <2>5, <7>1 DEF Frame
          <6> QED
            BY <5>1, <5>2, <6>1, <2>7
        <5> QED
          BY <5>1, <5>2
      <4>2. CASE o # c
        <5>1. entry'[o][v] = entry[o][v]
          BY <4>2, <2>1, <2>2, <2>3
        <5>2. \/ entry[o][v] \in {NoFrame} \cup (HeapFrame .. TopFrame(heapTop))
              \/ entry[o][v] >= StackFrame
          BY DEF Regular, HeapOrder
        <5>3. entry[o][v] \in HeapFrame .. TopFrame(heapTop)
                => entry[o][v] \in HeapFrame .. TopFrame(heapTop')
          BY <2>7
        <5> QED
          BY <5>1, <5>2, <5>3
      <4> QED
        BY <4>1, <4>2
    <3>4. ASSUME NEW f \in Frame, mem'[f] = KernelData
          PROVE  f <= TopFrame(heapTop') \/ f >= FirstFree
      <4>1. CASE \E v \in CopiedPages(p) : NewFrame(p, v) = f
        BY <4>1, <2>5
      <4>2. CASE ~\E v \in CopiedPages(p) : NewFrame(p, v) = f
        <5>1. mem'[f] = Filled(mem, heapTop, TopAfterFork(p))[f]
          BY <4>2, <1>2, <2>2, CopiedMem
        <5>2. \/ Filled(mem, heapTop, TopAfterFork(p))[f] = mem[f]
              \/ f <= TopFrame(TopAfterFork(p))
          BY <2>3, <2>4, FilledIs
        <5>3. mem[f] = KernelData => f <= TopFrame(heapTop) \/ f >= FirstFree
          BY DEF Regular, HeapOrder
        <5>4. f \in Nat
          BY Sizes DEF Frame
        <5> QED
          BY <3>4, <5>1, <5>2, <5>3, <5>4, <2>2, <2>7
      <4> QED
        BY <4>1, <4>2
    <3> QED
      BY <3>1, <3>2, <3>3, <3>4 DEF HeapOrder, TopFrame
  <2>9. OwnTables'
    <3>1. procs' = 0 .. Cardinality(procs') - 1
      <4>1. c + 1 - 1 = c
        BY <2>1 DEF Proc
      <4> QED
        BY <4>1, <2>1, <2>2
    <3>2. Stack \in Region /\ High \in Region
      BY DEF Stack, High, Low, Window, Region
    <3>3. table[p][Stack] = p /\ table[p][High] \in {p, NoTable} /\ p \in Nat
      BY <1>2 DEF Regular, OwnTables, Proc
    <3>4. ASSUME NEW q \in procs'
          PROVE  table'[q][Stack] = q /\ table'[q][High] \in {q, NoTable}
      <4>1. CASE q = c
        <5>1. \A r \in Region :
                table'[q][r] = IF r \in Copied(p) THEN c ELSE table[p][r]
          BY <4>1, <2>1, <2>2, <2>3
        <5>2. Stack \in Copied(p)
          BY <3>2, <3>3 DEF Copied, NoTable, Kernel
        <5>3. High \in Copied(p) \/ table[p][High] = NoTable
          BY <3>2, <3>3 DEF Copied, NoTable, Kernel
        <5> QED
          BY <4>1, <3>2, <5>1, <5>2, <5>3
      <4>2. CASE q # c
        <5>1. q \in procs /\ table'[q] = table[q]
          BY <4>2, <2>1, <2>2, <2>3
        <5> QED
          BY <5>1 DEF Regular, OwnTables
      <4> QED
        BY <4>1, <4>2
    <3>5. ASSUME NEW q \in Proc \ procs', NEW r \in Region
          PROVE  table'[q][r] = NoTable
      <4>1. q \in Proc \ procs /\ table'[q] = table[q]
        BY <2>1, <2>2, <2>3
      <4> QED
        BY <4>1 DEF Regular, OwnTables
    <3>6. ASSUME NEW q \in Proc, NEW v \in Page, entry'[q][v] # NoFrame
          PROVE  table'[q][RegionOf(v)] = q
      <4>1. RegionOf(v) \in Region
        BY RegionOfPage
      <4>2. CASE q = c
        <5>1. v \in CopiedPages(p)
          BY <3>6, <4>2, <2>1, <2>2, <2>3
        <5>2. RegionOf(v) \in Copied(p)
          BY <5>1 DEF CopiedPages
        <5> QED
          BY <4>1, <4>2, <5>2, <2>1, <2>2, <2>3
      <4>3. CASE q # c
        <5>1. entry'[q][v] = entry[q][v] /\ table'[q] = table[q]
          BY <4>3, <2>1, <2>2, <2>3
        <5> QED
          BY <3>6, <5>1 DEF Regular, OwnTables
      <4> QED
        BY <4>2, <4>3
    <3> QED
      BY <3>1, <3>4, <3>5, <3>6 DEF OwnTables, RegionOf
  <2>10. InOrder'
    <3> SUFFICES ASSUME NEW q \in Proc
                 PROVE  (/\ LaidOut(prog[q])
                         /\ Done(q) \in Nat
                         /\ \A i \in 1 .. Len(loading[q]) :
                              loading[q][i] = prog[q].loads[Done(q) + i]
                         /\ \/ reading[q] = NoSection
                            \/ \E i \in DOMAIN prog[q].loads :
                                 reading[q] = prog[q].loads[i])'
      BY DEF InOrder
    <3>1. CASE q # c
      <4>1. prog'[q] = prog[q] /\ loading'[q] = loading[q] /\ reading'[q] = reading[q]
        BY <3>1, <2>2, <2>3
      <4> QED
        BY <4>1 DEF Regular, InOrder, Done
    <3>2. CASE q = c
      <4>1. prog'[q] = prog[p] /\ loading'[q] = <<>> /\ reading'[q] = NoSection
        BY <3>2, <2>1, <2>2, <2>3 DEF FrameInv, MemTyped
      <4>2. LaidOut(prog[p]) /\ Done(p) \in Nat /\ loading[p] = <<>>
        BY <1>2 DEF Regular, InOrder, Loaded
      <4>3. Done(q)' = Done(p)
        BY <4>1, <4>2 DEF Done
      <4> QED
        BY <4>1, <4>2, <4>3
    <3> QED
      BY <3>1, <3>2
  <2> QED
    BY <2>6, <2>8, <2>9, <2>10 DEF Regular
<1> QED
  BY <1>1, <1>2 DEF Fork, InProgram

LEMMA ProgramsAre ==
  ASSUME Regular, NEW p \in Proc
  PROVE  /\ prog[p] \in Program /\ prog[p].file \in Nat
         /\ prog[p].loads \in Seq(Section) /\ prog[p].bss \in Section
<1>1. prog[p] \in Programs \cup {NoProgram}
  BY DEF Regular, TypeOK
<1>2. prog[p] \in Program
  BY <1>1, NoProgramIsProgram, MemoryAssumption
<1> QED
  BY <1>2 DEF Program

LEMMA ExecRegular ==
  ASSUME FrameInv, Regular, NEW p \in Proc, NEW new \in Programs, Exec(p, new)
  PROVE  Regular'
<1>1. CASE Stops("fault")
  BY <1>1, StopsKeeps
<1>2. CASE ~Stops("fault")
  <2>1. /\ Mapped(heapTop + ElfUnits) /\ execs < MaxExecs
        /\ heapTop' = heapTop + ElfUnits
        /\ mem' = Filled(mem, heapTop, heapTop + ElfUnits)
        /\ prog' = [prog EXCEPT ![p] = new]
        /\ loading' = [loading EXCEPT ![p] = new.loads]
        /\ execs' = execs + 1
        /\ UNCHANGED <<procs, used, firstempty, table, entry, reading, writes, mode>>
        /\ Loaded(p)
    BY <1>2 DEF Exec, InProgram
  <2>2. new \in Program /\ new.loads \in Seq(Section) /\ LaidOut(new)
    BY MemoryAssumption DEF Program
  <2>3. heapTop \in Nat /\ heapTop + ElfUnits \in Nat /\ heapTop <= heapTop + ElfUnits
    BY HeapSizes DEF Regular, TypeOK
  <2>4. mem \in [Frame -> Int]
    BY DEF Regular, TypeOK
  <2>5. TypeOK'
    <3>1. mem' \in [Frame -> Int]
      BY <2>1, <2>3, <2>4, FilledIs DEF Filled, KernelData
    <3>2. execs' \in 0 .. MaxExecs
      BY <2>1, HeapSizes DEF Regular, TypeOK
    <3>3. /\ prog' \in [Proc -> Programs \cup {NoProgram}]
          /\ loading' \in [Proc -> Seq(Section)]
      BY <2>1, <2>2 DEF Regular, TypeOK
    <3> QED
      BY <2>1, <2>3, <3>1, <3>2, <3>3 DEF Regular, TypeOK
  <2>6. HeapOrder'
    <3>1. /\ TopFrame(heapTop) \in Nat /\ TopFrame(heapTop') \in Nat
          /\ TopFrame(heapTop) <= TopFrame(heapTop') /\ HeapFrame \in Nat
      BY <2>1, <2>3, TopFrameUp, HeapSizes
    <3>2. ASSUME NEW o \in Proc \cup {Kernel}, NEW v \in Page
          PROVE  \/ entry'[o][v] \in {NoFrame} \cup (HeapFrame .. TopFrame(heapTop'))
                 \/ entry'[o][v] >= StackFrame
      <4>1. \/ entry[o][v] \in {NoFrame} \cup (HeapFrame .. TopFrame(heapTop))
            \/ entry[o][v] >= StackFrame
        BY DEF Regular, HeapOrder
      <4>2. entry[o][v] \in HeapFrame .. TopFrame(heapTop)
              => entry[o][v] \in HeapFrame .. TopFrame(heapTop')
        BY <3>1
      <4> QED
        BY <2>1, <4>1, <4>2
    <3>3. ASSUME NEW f \in Frame, mem'[f] = KernelData
          PROVE  f <= TopFrame(heapTop') \/ f >= FirstFree
      <4>1. \/ mem'[f] = mem[f]
            \/ f <= TopFrame(heapTop')
        BY <2>1, <2>3, <2>4, FilledIs
      <4>2. mem[f] = KernelData => f <= TopFrame(heapTop) \/ f >= FirstFree
        BY DEF Regular, HeapOrder
      <4>3. f \in Nat
        BY Sizes DEF Frame
      <4> QED
        BY <3>1, <3>3, <4>1, <4>2, <4>3
    <3>4. Mapped(heapTop') /\ (0 .. FirstFree - 1 \subseteq used)'
      BY <2>1 DEF Regular, HeapOrder
    <3> QED
      BY <3>2, <3>3, <3>4 DEF HeapOrder, TopFrame
  <2>7. OwnTables'
    BY <2>1 DEF Regular, OwnTables
  <2>8. InOrder'
    <3> SUFFICES ASSUME NEW q \in Proc
                 PROVE  (/\ LaidOut(prog[q])
                         /\ Done(q) \in Nat
                         /\ \A i \in 1 .. Len(loading[q]) :
                              loading[q][i] = prog[q].loads[Done(q) + i]
                         /\ \/ reading[q] = NoSection
                            \/ \E i \in DOMAIN prog[q].loads :
                                 reading[q] = prog[q].loads[i])'
      BY DEF InOrder
    <3>1. CASE q # p
      <4>1. prog'[q] = prog[q] /\ loading'[q] = loading[q] /\ reading'[q] = reading[q]
        BY <3>1, <2>1 DEF Regular, TypeOK
      <4> QED
        BY <4>1 DEF Regular, InOrder, Done
    <3>2. CASE q = p
      <4>1. prog'[q] = new /\ loading'[q] = new.loads /\ reading'[q] = NoSection
        BY <3>2, <2>1 DEF Regular, TypeOK, Loaded
      <4>2. Len(new.loads) \in Nat
        BY <2>2
      <4>3. Done(q)' = 0
        BY <4>1, <4>2 DEF Done
      <4> QED
        BY <2>2, <4>1, <4>2, <4>3
    <3> QED
      BY <3>1, <3>2
  <2> QED
    BY <2>5, <2>6, <2>7, <2>8 DEF Regular
<1> QED
  BY <1>1, <1>2

\* What a section that is given memory does to the top of the heap.
LEMMA MapUp ==
  ASSUME NEW p, NEW section \in Section, NEW base \in Nat, NEW buffers \in Nat,
         Fits(section, base)
  PROVE  /\ SectionEnd(section, base) \in Nat /\ base <= SectionEnd(section, base)
         /\ TopAfterMap(p, section, base, buffers) \in Nat
         /\ SectionEnd(section, base) <= TopAfterMap(p, section, base, buffers)
         /\ KernelBlocks(p, section, base) \in Nat
         /\ KernelBlocks(p, section, base) <= TopAfterMap(p, section, base, buffers)
         /\ SectionEnd(section, base) <= KernelBlocks(p, section, base)
<1> DEFINE end == SectionEnd(section, base)
<1>1. end \in Nat /\ base <= end
  BY SectionUp
<1>2. /\ KernelBlocks(p, section, base) =
           (IF MakesTable(p, section) THEN AlignedBase(end) ELSE end)
      /\ TopAfterMap(p, section, base, buffers) =
           (IF MakesTable(p, section) THEN AlignedBase(end) + UnitsPerPage + buffers
            ELSE end + buffers)
  BY DEF TopAfterMap, KernelBlocks
<1> HIDE DEF end
<1>3. AlignedBase(end) \in Nat /\ end < AlignedBase(end)
  BY <1>1, AlignedUp
<1>4. UnitsPerPage \in Nat \ {0}
  BY HeapSizes
<1> QED
  BY <1>1, <1>2, <1>3, <1>4 DEF end

\* What the arrival of a section does to a frame.
LEMMA ContentsIs ==
  ASSUME Regular, NEW p \in Proc, NEW m \in [Frame -> Int], NEW f \in Frame
  PROVE  /\ Contents(p, m) \in [Frame -> Int]
         /\ \/ /\ Contents(p, m)[f] = prog[p].file
               /\ \E v \in Pages(reading[p]) : Entry(p, v) = f
            \/ Contents(p, m)[f] = m[f]
         /\ Contents(p, m)[f] = KernelData => m[f] = KernelData
<1>1. prog[p].file \in Int /\ prog[p].file # KernelData
  BY ProgramsAre DEF KernelData
<1>2. Contents(p, m) \in [Frame -> Int]
  BY <1>1 DEF Contents
<1>3. Contents(p, m)[f] =
        IF \E v \in Pages(reading[p]) : Entry(p, v) = f THEN prog[p].file ELSE m[f]
  BY DEF Contents
<1> QED
  BY <1>1, <1>2, <1>3

\* What the arrival of a section, a new page table and the buffers for the next
\* read leave in the frames.
LEMMA ArrivedIs ==
  ASSUME Regular, NEW p \in Proc, NEW section \in Section, NEW base \in Nat,
         NEW buffers \in Nat, Fits(section, base), NEW f \in Frame
  PROVE  /\ Arrived(p, section, base, buffers) \in [Frame -> Int]
         /\ \/ /\ Arrived(p, section, base, buffers)[f] = prog[p].file
               /\ \E v \in Pages(reading[p]) : Entry(p, v) = f
            \/ Arrived(p, section, base, buffers)[f] = mem[f]
            \/ /\ Arrived(p, section, base, buffers)[f] = KernelData
               /\ TopFrame(SectionEnd(section, base)) <= f
               /\ f <= TopFrame(TopAfterMap(p, section, base, buffers))
               /\ Mapped(TopAfterMap(p, section, base, buffers)) => f < StackFrame
<1> DEFINE end  == SectionEnd(section, base)
           from == KernelBlocks(p, section, base)
           to   == TopAfterMap(p, section, base, buffers)
           new  == Filled(mem, from, to)
<1>1. mem \in [Frame -> Int]
  BY DEF Regular, TypeOK
<1>2. /\ end \in Nat /\ from \in Nat /\ to \in Nat /\ end <= from /\ from <= to
  BY MapUp
<1>3. Arrived(p, section, base, buffers) = Contents(p, new)
  BY DEF Arrived
<1> HIDE DEF end, from, to
<1>4. /\ new \in [Frame -> Int]
      /\ \/ new[f] = mem[f]
         \/ /\ new[f] = KernelData
            /\ TopFrame(from) <= f /\ f <= TopFrame(to)
            /\ Mapped(to) => f < StackFrame
  BY <1>1, <1>2, FilledIs
<1> HIDE DEF new
<1>5. /\ Contents(p, new) \in [Frame -> Int]
      /\ \/ /\ Contents(p, new)[f] = prog[p].file
            /\ \E v \in Pages(reading[p]) : Entry(p, v) = f
         \/ Contents(p, new)[f] = new[f]
  BY <1>4, ContentsIs
<1>6. TopFrame(end) \in Nat /\ TopFrame(from) \in Nat /\ TopFrame(end) <= TopFrame(from)
  BY <1>2, TopFrameUp
<1>7. TopFrame(from) <= f => TopFrame(end) <= f
  <2>1. f \in Nat
    BY Sizes DEF Frame
  <2> QED
    BY <1>6, <2>1
<1> QED
  BY <1>3, <1>4, <1>5, <1>7 DEF end, to

\* The directory a section is mapped in: the kernel's tables, or the process's.
Owner(p, section) ==
  IF MakesTable(p, section) THEN p ELSE table[p][RegionOf(FirstPage(section))]

LEMMA OwnerIs ==
  ASSUME FrameInv, Regular, NEW p \in procs, NEW section \in Section, OneTable(section)
  PROVE  /\ p \in Proc /\ RegionOf(FirstPage(section)) \in Region
         /\ Owner(p, section) \in Proc \cup {Kernel}
         /\ \/ /\ RegionOf(FirstPage(section)) = Low /\ Owner(p, section) = Kernel
               /\ table[p][Low] = Kernel /\ ~MakesTable(p, section)
            \/ /\ RegionOf(FirstPage(section)) = High /\ Owner(p, section) = p
<1>1. p \in Proc
  BY DEF Regular, TypeOK
<1>2. RegionOf(FirstPage(section)) \in {Low, High}
  BY DEF OneTable
<1>3. Low \in Region /\ High \in Region /\ Low \in KernelRegion /\ Kernel # NoTable
  BY DEF Low, High, Window, Region, KernelRegion, Kernel, NoTable
<1>4. CASE RegionOf(FirstPage(section)) = Low
  <2>1. table[p][Low] = Kernel
    BY <1>3 DEF FrameInv, KernelLinked
  <2> QED
    BY <1>1, <1>3, <1>4, <2>1 DEF Owner, MakesTable
<1>5. CASE RegionOf(FirstPage(section)) = High
  <2>1. table[p][High] \in {p, NoTable}
    BY DEF Regular, OwnTables
  <2> QED
    BY <1>1, <1>3, <1>5, <2>1 DEF Owner, MakesTable
<1> QED
  BY <1>2, <1>4, <1>5

LEMMA MapIs ==
  ASSUME FrameInv, Regular, NEW p \in procs, NEW section \in Section, OneTable(section),
         NEW base, NEW buffers, Map(p, section, base, buffers)
  PROVE  /\ entry' = [entry EXCEPT ![Owner(p, section)] = [v \in Page |->
                        IF v \in MappedPages(section)
                        THEN FrameAt(base) + (v - FirstPage(section)) ELSE @[v]]]
         /\ \A o \in Proc \cup {Kernel}, v \in Page :
              entry'[o][v] =
                IF o = Owner(p, section) /\ v \in MappedPages(section)
                THEN FrameAt(base) + (v - FirstPage(section)) ELSE entry[o][v]
         /\ table' = [table EXCEPT ![p][RegionOf(FirstPage(section))] = Owner(p, section)]
         /\ \A q \in Proc, r \in Region :
              table'[q][r] = IF q = p /\ r = RegionOf(FirstPage(section))
                             THEN Owner(p, section) ELSE table[q][r]
         /\ used' = used \cup
              {FrameAt(base) + (v - FirstPage(section)) : v \in MappedPages(section)}
         /\ heapTop' = TopAfterMap(p, section, base, buffers)
<1> DEFINE owner    == Owner(p, section)
           r0       == RegionOf(FirstPage(section))
           frame(v) == FrameAt(base) + (v - FirstPage(section))
           pages    == MappedPages(section)
<1>1. /\ entry' = [entry EXCEPT ![owner] = [v \in Page |->
                     IF v \in pages THEN frame(v) ELSE @[v]]]
      /\ used' = used \cup {frame(v) : v \in pages}
      /\ table' = [table EXCEPT ![p][r0] = owner]
      /\ heapTop' = TopAfterMap(p, section, base, buffers)
  BY DEF Map, Owner
<1>2. p \in Proc /\ owner \in Proc \cup {Kernel} /\ r0 \in Region
  BY OwnerIs
<1>3. /\ entry \in [Proc \cup {Kernel} -> [Page -> Frame \cup {NoFrame}]]
      /\ table \in [Proc -> [Region -> Proc \cup {Kernel, NoTable}]]
  BY DEF Regular, TypeOK
<1> HIDE DEF owner, r0, frame, pages
<1>4. ASSUME NEW o \in Proc \cup {Kernel}, NEW v \in Page
      PROVE  entry'[o][v] = IF o = owner /\ v \in pages THEN frame(v) ELSE entry[o][v]
  BY <1>1, <1>2, <1>3
<1>5. ASSUME NEW q \in Proc, NEW r \in Region
      PROVE  table'[q][r] = IF q = p /\ r = r0 THEN owner ELSE table[q][r]
  BY <1>1, <1>2, <1>3
<1> QED
  BY <1>1, <1>4, <1>5 DEF owner, r0, frame, pages

LEMMA MapRegular ==
  ASSUME FrameInv, Regular, NEW p \in procs, NEW section \in Section, OneTable(section),
         NEW base \in Nat, heapTop <= base, NEW buffers \in Nat,
         MapSection(p, section, base, buffers),
         ~\E how \in {"fault", "panic", "lost", "unmapped"} : Stops(how)
  PROVE  TypeOK' /\ HeapOrder' /\ OwnTables'
<1> DEFINE frame(v) == FrameAt(base) + (v - FirstPage(section))
           pages    == MappedPages(section)
           owner    == Owner(p, section)
           end      == SectionEnd(section, base)
<1>1. /\ Fits(section, base) /\ Mapped(TopAfterMap(p, section, base, buffers))
      /\ Map(p, section, base, buffers)
      /\ mem' = Arrived(p, section, base, buffers)
      /\ loading' = [loading EXCEPT ![p] = IF @ = <<>> THEN <<>> ELSE Tail(@)]
      /\ reading' = [reading EXCEPT ![p] =
                       IF loading[p] = <<>> THEN NoSection ELSE section]
      /\ UNCHANGED <<procs, firstempty, prog, execs, writes, mode>>
  BY DEF MapSection
<1>2. /\ entry' = [entry EXCEPT ![owner] = [v \in Page |->
                     IF v \in pages THEN frame(v) ELSE @[v]]]
      /\ \A o \in Proc \cup {Kernel}, v \in Page :
           entry'[o][v] = IF o = owner /\ v \in pages THEN frame(v) ELSE entry[o][v]
      /\ table' = [table EXCEPT ![p][RegionOf(FirstPage(section))] = owner]
      /\ \A q \in Proc, r \in Region :
           table'[q][r] = IF q = p /\ r = RegionOf(FirstPage(section))
                          THEN owner ELSE table[q][r]
      /\ used' = used \cup {frame(v) : v \in pages}
      /\ heapTop' = TopAfterMap(p, section, base, buffers)
  BY <1>1, MapIs
<1>3. /\ p \in Proc /\ RegionOf(FirstPage(section)) \in Region
      /\ owner \in Proc \cup {Kernel}
      /\ \/ RegionOf(FirstPage(section)) = Low /\ owner = Kernel /\ table[p][Low] = Kernel
         \/ RegionOf(FirstPage(section)) = High /\ owner = p
  BY OwnerIs
<1>4. ASSUME NEW v \in pages
      PROVE  /\ frame(v) \in TopFrame(base) .. TopFrame(end)
             /\ frame(v) \in Frame
  BY <1>1, SectionFrame
<1>5. /\ end \in Nat /\ base <= end
      /\ TopAfterMap(p, section, base, buffers) \in Nat /\ end <= TopAfterMap(p, section, base, buffers)
  BY <1>1, MapUp
<1>6. heapTop \in Nat
  BY DEF Regular, TypeOK
<1> HIDE DEF frame, pages, owner, end
<1>7. heapTop' \in Nat /\ base <= heapTop' /\ end <= heapTop' /\ heapTop <= heapTop'
  BY <1>2, <1>5, <1>6
<1>8. /\ TopFrame(heapTop) \in Nat /\ TopFrame(base) \in Nat /\ TopFrame(end) \in Nat
      /\ TopFrame(heapTop') \in Nat /\ HeapFrame <= TopFrame(base) /\ HeapFrame \in Nat
      /\ TopFrame(heapTop) <= TopFrame(heapTop') /\ TopFrame(end) <= TopFrame(heapTop')
  <2>1. HeapFrame \in Nat /\ UnitsPerPage \in Nat \ {0}
    BY HeapSizes
  <2>2. base \div UnitsPerPage \in Nat
    BY <2>1, DivMod
  <2>3. HeapFrame <= TopFrame(base)
    BY <2>1, <2>2 DEF TopFrame
  <2>4. TopFrame(heapTop) \in Nat /\ TopFrame(heapTop) <= TopFrame(heapTop')
        /\ TopFrame(heapTop') \in Nat
    BY <1>6, <1>7, TopFrameUp
  <2>5. TopFrame(end) \in Nat /\ TopFrame(end) <= TopFrame(heapTop')
    BY <1>5, <1>7, TopFrameUp
  <2>6. TopFrame(base) \in Nat
    BY <1>5, TopFrameUp
  <2> QED
    BY <2>1, <2>3, <2>4, <2>5, <2>6
<1>9. TypeOK'
  <2>1. used' \subseteq Frame
    BY <1>2, <1>4 DEF Regular, TypeOK
  <2>2. table' \in [Proc -> [Region -> Proc \cup {Kernel, NoTable}]]
    BY <1>2, <1>3 DEF Regular, TypeOK
  <2>3. entry' \in [Proc \cup {Kernel} -> [Page -> Frame \cup {NoFrame}]]
    <3>1. entry \in [Proc \cup {Kernel} -> [Page -> Frame \cup {NoFrame}]]
      BY DEF Regular, TypeOK
    <3> DEFINE new == [v \in Page |-> IF v \in pages THEN frame(v) ELSE entry[owner][v]]
    <3>2. entry' = [entry EXCEPT ![owner] = new]
      BY <1>2, <1>3, <3>1
    <3>3. new \in [Page -> Frame \cup {NoFrame}]
      BY <1>3, <1>4, <3>1
    <3> HIDE DEF new
    <3> QED
      BY <1>3, <3>1, <3>2, <3>3
  <2>4. mem' \in [Frame -> Int]
    <3>1. 0 \in Frame
      BY Sizes DEF Frame
    <3> QED
      BY <1>1, <1>3, <3>1, ArrivedIs DEF end
  <2>5. loading' \in [Proc -> Seq(Section)]
    <3>1. loading \in [Proc -> Seq(Section)]
      BY DEF Regular, TypeOK
    <3>2. (IF loading[p] = <<>> THEN <<>> ELSE Tail(loading[p])) \in Seq(Section)
      BY <1>3, <3>1
    <3> QED
      BY <1>1, <1>3, <3>1, <3>2
  <2>6. reading' \in [Proc -> Section]
    <3>1. NoSection \in Section
      BY NoSectionIs
    <3> QED
      BY <1>1, <3>1 DEF Regular, TypeOK
  <2>7. /\ procs' \subseteq Proc /\ firstempty' \in -1 .. Words - 1
        /\ prog' \in [Proc -> Programs \cup {NoProgram}]
        /\ execs' \in 0 .. MaxExecs /\ writes' \in 0 .. MaxWrites
        /\ mode' \in {"run", "fault", "panic", "lost", "unmapped"}
    BY <1>1 DEF Regular, TypeOK
  <2> QED
    BY <1>7, <2>1, <2>2, <2>3, <2>4, <2>5, <2>6, <2>7 DEF TypeOK
<1>10. HeapOrder'
  <2>1. Mapped(heapTop') /\ (0 .. FirstFree - 1 \subseteq used)'
    BY <1>1, <1>2 DEF Regular, HeapOrder
  <2>2. ASSUME NEW o \in Proc \cup {Kernel}, NEW v \in Page
        PROVE  \/ entry'[o][v] \in {NoFrame} \cup (HeapFrame .. TopFrame(heapTop'))
               \/ entry'[o][v] >= StackFrame
    <3>1. CASE o = owner /\ v \in pages
      <4>1. entry'[o][v] = frame(v)
        BY <1>2, <3>1
      <4>2. frame(v) \in TopFrame(base) .. TopFrame(end)
        BY <1>4, <3>1
      <4>3. frame(v) \in HeapFrame .. TopFrame(heapTop')
        BY <1>8, <4>2
      <4> QED
        BY <4>1, <4>3
    <3>2. CASE ~(o = owner /\ v \in pages)
      <4>1. entry'[o][v] = entry[o][v]
        BY <1>2, <3>2
      <4>2. \/ entry[o][v] \in {NoFrame} \cup (HeapFrame .. TopFrame(heapTop))
            \/ entry[o][v] >= StackFrame
        BY DEF Regular, HeapOrder
      <4>3. entry[o][v] \in HeapFrame .. TopFrame(heapTop)
              => entry[o][v] \in HeapFrame .. TopFrame(heapTop')
        BY <1>8
      <4> QED
        BY <4>1, <4>2, <4>3
    <3> QED
      BY <3>1, <3>2
  <2>3. ASSUME NEW f \in Frame, mem'[f] = KernelData
        PROVE  f <= TopFrame(heapTop') \/ f >= FirstFree
    <3>1. f \in Nat
      BY Sizes DEF Frame
    <3>2. \/ mem'[f] = prog[p].file
          \/ mem'[f] = mem[f]
          \/ f <= TopFrame(heapTop')
      BY <1>1, <1>2, <1>3, ArrivedIs DEF end
    <3>3. prog[p].file # KernelData
      BY <1>3, ProgramsAre DEF KernelData
    <3>4. mem[f] = KernelData => f <= TopFrame(heapTop) \/ f >= FirstFree
      BY DEF Regular, HeapOrder
    <3> QED
      BY <1>8, <2>3, <3>1, <3>2, <3>3, <3>4
  <2> QED
    BY <2>1, <2>2, <2>3 DEF HeapOrder, TopFrame
<1>11. OwnTables'
  <2>1. Low # Stack /\ High # Stack /\ Low # High /\ Stack \in Region /\ High \in Region
    BY DEF Low, High, Stack, Region, Window
  <2>2. ASSUME NEW q \in procs
        PROVE  table'[q][Stack] = q /\ table'[q][High] \in {q, NoTable}
    <3>1. q \in Proc /\ table[q][Stack] = q /\ table[q][High] \in {q, NoTable}
      BY DEF Regular, TypeOK, OwnTables
    <3>2. table'[q][Stack] = table[q][Stack]
      BY <1>2, <1>3, <2>1, <3>1
    <3>3. table'[q][High] = table[q][High] \/ (q = p /\ table'[q][High] = p)
      BY <1>2, <1>3, <2>1, <3>1
    <3> QED
      BY <3>1, <3>2, <3>3
  <2>3. ASSUME NEW q \in Proc \ procs, NEW r \in Region
        PROVE  table'[q][r] = NoTable
    BY <1>2 DEF Regular, OwnTables
  <2>4. procs' = 0 .. Cardinality(procs') - 1
    BY <1>1 DEF Regular, OwnTables
  <2>5. ASSUME NEW q \in Proc, NEW v \in Page, entry'[q][v] # NoFrame
        PROVE  table'[q][RegionOf(v)] = q
    <3>1. RegionOf(v) \in Region
      BY RegionOfPage
    <3>2. CASE q = owner /\ v \in pages
      <4>1. RegionOf(v) = RegionOf(FirstPage(section))
        BY <3>2, OneTableIs DEF pages
      <4>2. q = p
        BY <1>3, <3>2 DEF Proc, Kernel
      <4> QED
        BY <1>2, <1>3, <3>1, <3>2, <4>1, <4>2
    <3>3. CASE ~(q = owner /\ v \in pages)
      <4>1. entry'[q][v] = entry[q][v]
        BY <1>2, <3>3
      <4>2. table[q][RegionOf(v)] = q
        BY <2>5, <4>1 DEF Regular, OwnTables
      <4>3. CASE q = p /\ RegionOf(v) = RegionOf(FirstPage(section))
        <5>1. table'[q][RegionOf(v)] = owner
          BY <1>2, <3>1, <4>3
        <5>2. owner # Kernel
          BY <1>3, <4>2, <4>3 DEF Proc, Kernel
        <5> QED
          BY <1>3, <4>3, <5>1, <5>2
      <4>4. CASE ~(q = p /\ RegionOf(v) = RegionOf(FirstPage(section)))
        BY <1>2, <3>1, <4>2, <4>4
      <4> QED
        BY <4>3, <4>4
    <3> QED
      BY <3>2, <3>3
  <2> QED
    BY <1>1, <2>2, <2>3, <2>4, <2>5 DEF OwnTables, RegionOf
<1> QED
  BY <1>9, <1>10, <1>11

\* The section that is mapped next is the first one that is not mapped yet.
LEMMA NextSection ==
  ASSUME Regular, NEW p \in Proc, loading[p] # <<>>
  PROVE  /\ Done(p) + 1 \in 1 .. Len(prog[p].loads)
         /\ Done(p) \in Nat
         /\ Head(loading[p]) = prog[p].loads[Done(p) + 1]
         /\ Head(loading[p]) \in Section /\ OneTable(Head(loading[p]))
         /\ Len(Tail(loading[p])) = Len(loading[p]) - 1
         /\ Tail(loading[p]) \in Seq(Section)
         /\ \A i \in 1 .. Len(loading[p]) - 1 : Tail(loading[p])[i] = loading[p][i + 1]
<1>1. /\ loading[p] \in Seq(Section) /\ prog[p].loads \in Seq(Section)
      /\ Done(p) \in Nat /\ LaidOut(prog[p])
      /\ \A i \in 1 .. Len(loading[p]) : loading[p][i] = prog[p].loads[Done(p) + i]
  BY ProgramsAre DEF Regular, TypeOK, InOrder
<1>2. Len(loading[p]) \in Nat \ {0} /\ Len(prog[p].loads) \in Nat
  BY <1>1
<1>3. Done(p) = Len(prog[p].loads) - Len(loading[p])
  BY DEF Done
<1>4. Done(p) + 1 \in 1 .. Len(prog[p].loads)
  <2> DEFINE d == Done(p)
             a == Len(prog[p].loads)
             b == Len(loading[p])
  <2>1. d \in Nat /\ a \in Nat /\ b \in Nat \ {0} /\ d = a - b
    BY <1>1, <1>2, <1>3
  <2> HIDE DEF d, a, b
  <2>2. d + 1 \in 1 .. a
    BY <2>1
  <2> QED
    BY <2>2 DEF d, a
<1>5. 1 \in 1 .. Len(loading[p]) /\ Head(loading[p]) = loading[p][1]
  BY <1>1, <1>2
<1>6. Head(loading[p]) = prog[p].loads[Done(p) + 1]
  BY <1>1, <1>5
<1>7. OneTable(prog[p].loads[Done(p) + 1])
  <2>1. DOMAIN prog[p].loads = 1 .. Len(prog[p].loads)
    BY <1>1
  <2> QED
    BY <1>1, <1>4, <2>1 DEF LaidOut
<1>8. Head(loading[p]) \in Section /\ Tail(loading[p]) \in Seq(Section)
  BY <1>1
<1>9. /\ Len(Tail(loading[p])) = Len(loading[p]) - 1
      /\ \A i \in 1 .. Len(loading[p]) - 1 : Tail(loading[p])[i] = loading[p][i + 1]
  BY <1>1, <1>2
<1> QED
  BY <1>1, <1>4, <1>6, <1>7, <1>8, <1>9

LEMMA LoadRegular ==
  ASSUME FrameInv, Regular, NEW p \in Proc, Load(p)
  PROVE  Regular'
<1>1. ASSUME NEW how \in {"fault", "panic", "lost", "unmapped"}, Stops(how) PROVE Regular'
  BY <1>1, StopsKeeps
<1>2. p \in procs
  BY DEF FrameInv, MemTyped, Load, LoadNext, LoadLast
<1>3. heapTop \in Nat /\ AlignedBase(heapTop) \in Nat /\ heapTop <= AlignedBase(heapTop)
  <2>1. heapTop \in Nat
    BY DEF Regular, TypeOK
  <2> QED
    BY <2>1, AlignedUp
<1>4. /\ loading \in [Proc -> Seq(Section)] /\ reading \in [Proc -> Section]
      /\ prog[p].loads \in Seq(Section) /\ prog[p].bss \in Section
      /\ LaidOut(prog[p]) /\ OneTable(prog[p].bss)
  BY ProgramsAre DEF Regular, TypeOK, InOrder, LaidOut
<1>5. ASSUME ~\E how \in {"fault", "panic", "lost", "unmapped"} : Stops(how), LoadNext(p)
      PROVE  Regular'
  <2> DEFINE section == Head(loading[p])
  <2>1. loading[p] # <<>> /\ MapSection(p, section, AlignedBase(heapTop), ReadUnits)
    BY <1>5 DEF LoadNext
  <2>2. /\ Done(p) + 1 \in 1 .. Len(prog[p].loads) /\ Done(p) \in Nat
        /\ section = prog[p].loads[Done(p) + 1]
        /\ section \in Section /\ OneTable(section)
        /\ Len(Tail(loading[p])) = Len(loading[p]) - 1
        /\ \A i \in 1 .. Len(loading[p]) - 1 : Tail(loading[p])[i] = loading[p][i + 1]
    BY <2>1, NextSection
  <2> HIDE DEF section
  <2>3. TypeOK' /\ HeapOrder' /\ OwnTables'
    BY <1>2, <1>3, <1>5, <2>1, <2>2, HeapSizes, MapRegular
  <2>4. /\ prog' = prog
        /\ loading' = [loading EXCEPT ![p] = Tail(loading[p])]
        /\ reading' = [reading EXCEPT ![p] = section]
    BY <1>4, <1>5, <2>1 DEF MapSection
  <2>5. InOrder'
    <3> SUFFICES ASSUME NEW q \in Proc
                 PROVE  (/\ LaidOut(prog[q])
                         /\ Done(q) \in Nat
                         /\ \A i \in 1 .. Len(loading[q]) :
                              loading[q][i] = prog[q].loads[Done(q) + i]
                         /\ \/ reading[q] = NoSection
                            \/ \E i \in DOMAIN prog[q].loads :
                                 reading[q] = prog[q].loads[i])'
      BY DEF InOrder
    <3>1. CASE q # p
      <4>1. loading'[q] = loading[q] /\ reading'[q] = reading[q] /\ prog'[q] = prog[q]
        BY <1>4, <2>4, <3>1
      <4> QED
        BY <4>1 DEF Regular, InOrder, Done
    <3>2. CASE q = p
      <4>1. prog'[p] = prog[p] /\ loading'[p] = Tail(loading[p]) /\ reading'[p] = section
        BY <1>4, <2>4
      <4>2. Len(loading[p]) \in Nat /\ Len(prog[p].loads) \in Nat
        BY <1>4
      <4>3. Done(p)' = Done(p) + 1
        <5> DEFINE a == Len(prog[p].loads)
                   b == Len(loading[p])
        <5>1. Done(p) = a - b /\ Done(p)' = a - (b - 1)
          BY <2>2, <4>1 DEF Done
        <5>2. a \in Nat /\ b \in Nat
          BY <4>2
        <5> HIDE DEF a, b
        <5> QED
          BY <5>1, <5>2
      <4>4. ASSUME NEW i \in 1 .. Len(loading[p]) - 1
            PROVE  Tail(loading[p])[i] = prog[p].loads[Done(p) + 1 + i]
        <5>1. i + 1 \in 1 .. Len(loading[p]) /\ Done(p) + (i + 1) = Done(p) + 1 + i
          <6> DEFINE b == Len(loading[p])
                     d == Done(p)
          <6>1. d \in Nat /\ b \in Nat /\ i \in 1 .. b - 1
            BY <2>2, <4>2
          <6> HIDE DEF b, d
          <6>2. i + 1 \in 1 .. b /\ d + (i + 1) = d + 1 + i
            BY <6>1
          <6> QED
            BY <6>2 DEF b, d
        <5>2. loading[p][i + 1] = prog[p].loads[Done(p) + (i + 1)]
          BY <5>1 DEF Regular, InOrder
        <5> QED
          BY <2>2, <5>1, <5>2
      <4>5. DOMAIN prog[p].loads = 1 .. Len(prog[p].loads)
        BY <1>4
      <4> QED
        BY <1>4, <2>2, <3>2, <4>1, <4>3, <4>4, <4>5
    <3> QED
      BY <3>1, <3>2
  <2> QED
    BY <2>3, <2>5 DEF Regular
<1>6. ASSUME ~\E how \in {"fault", "panic", "lost", "unmapped"} : Stops(how), LoadLast(p)
      PROVE  Regular'
  <2>1. loading[p] = <<>> /\ prog' = prog
    BY <1>6 DEF LoadLast, MapSection
  <2>2. loading' = loading /\ reading' = [reading EXCEPT ![p] = NoSection]
    BY <1>4, <1>6 DEF LoadLast, MapSection
  <2>3. TypeOK' /\ HeapOrder' /\ OwnTables'
    <3>1. CASE MapSection(p, prog[p].bss, heapTop, 0)
      BY <1>2, <1>3, <1>4, <1>6, <3>1, MapRegular
    <3>2. CASE ~MapSection(p, prog[p].bss, heapTop, 0)
      <4>1. /\ mem' = Contents(p, mem)
            /\ UNCHANGED <<procs, used, firstempty, heapTop, table, entry, execs,
                           writes, mode>>
        BY <1>6, <3>2 DEF LoadLast
      <4>2. mem \in [Frame -> Int]
        BY DEF Regular, TypeOK
      <4>3. TypeOK'
        <5>1. mem' \in [Frame -> Int]
          <6>1. 0 \in Frame
            BY Sizes DEF Frame
          <6> QED
            BY <4>1, <4>2, <6>1, ContentsIs
        <5>2. reading' \in [Proc -> Section]
          <6>1. NoSection \in Section
            BY NoSectionIs
          <6> QED
            BY <2>2, <6>1 DEF Regular, TypeOK
        <5> QED
          BY <2>1, <2>2, <4>1, <5>1, <5>2 DEF Regular, TypeOK
      <4>4. HeapOrder'
        <5>1. \A f \in Frame : mem'[f] = KernelData => mem[f] = KernelData
          BY <4>1, <4>2, ContentsIs
        <5> QED
          BY <4>1, <5>1 DEF Regular, HeapOrder, TopFrame
      <4>5. OwnTables'
        BY <4>1 DEF Regular, OwnTables
      <4> QED
        BY <4>3, <4>4, <4>5
    <3> QED
      BY <3>1, <3>2
  <2>4. InOrder'
    <3> SUFFICES ASSUME NEW q \in Proc
                 PROVE  (/\ LaidOut(prog[q])
                         /\ Done(q) \in Nat
                         /\ \A i \in 1 .. Len(loading[q]) :
                              loading[q][i] = prog[q].loads[Done(q) + i]
                         /\ \/ reading[q] = NoSection
                            \/ \E i \in DOMAIN prog[q].loads :
                                 reading[q] = prog[q].loads[i])'
      BY DEF InOrder
    <3>1. CASE q # p
      <4>1. loading'[q] = loading[q] /\ reading'[q] = reading[q] /\ prog'[q] = prog[q]
        BY <1>4, <2>1, <2>2, <3>1
      <4> QED
        BY <4>1 DEF Regular, InOrder, Done
    <3>2. CASE q = p
      <4>1. prog'[q] = prog[q] /\ loading'[q] = loading[q] /\ reading'[q] = NoSection
        BY <1>4, <2>1, <2>2, <3>2
      <4>2. /\ LaidOut(prog[q]) /\ Done(q) \in Nat
            /\ \A i \in 1 .. Len(loading[q]) :
                 loading[q][i] = prog[q].loads[Done(q) + i]
        BY DEF Regular, InOrder
      <4> QED
        BY <4>1, <4>2 DEF Done
    <3> QED
      BY <3>1, <3>2
  <2> QED
    BY <2>3, <2>4 DEF Regular
<1> QED
  BY <1>1, <1>5, <1>6 DEF Load

LEMMA WriteRegular ==
  ASSUME Regular, NEW p \in Proc, NEW v \in Page, Write(p, v)
  PROVE  Regular'
<1> SUFFICES ASSUME ~Stops("unmapped") PROVE Regular'
  BY StopsKeeps
<1>1. /\ mem' = [mem EXCEPT ![Entry(p, v)] = p] /\ writes < MaxWrites
      /\ writes' = writes + 1
      /\ UNCHANGED <<procs, used, firstempty, heapTop, table, entry, prog, loading,
                     reading, execs, mode>>
  BY DEF Write
<1>2. p \in Int /\ p # KernelData
  BY DEF Proc, KernelData
<1>3. mem \in [Frame -> Int]
  BY DEF Regular, TypeOK
<1>4. TypeOK'
  <2>1. mem' \in [Frame -> Int]
    BY <1>1, <1>2, <1>3
  <2>2. writes' \in 0 .. MaxWrites
    BY <1>1, HeapSizes DEF Regular, TypeOK
  <2> QED
    BY <1>1, <2>1, <2>2 DEF Regular, TypeOK
<1>5. HeapOrder'
  <2>1. \A f \in Frame : mem'[f] = KernelData => mem[f] = KernelData
    BY <1>1, <1>2, <1>3
  <2> QED
    BY <1>1, <2>1 DEF Regular, HeapOrder, TopFrame
<1>6. OwnTables' /\ InOrder'
  BY <1>1 DEF Regular, OwnTables, InOrder, Done
<1> QED
  BY <1>4, <1>5, <1>6 DEF Regular

LEMMA RegularKept == FrameInv /\ Regular /\ [Next]_vars => Regular'
<1> SUFFICES ASSUME FrameInv, Regular, [Next]_vars PROVE Regular'
  OBVIOUS
<1>1. ASSUME NEW p \in Proc, Fork(p) PROVE Regular'
  BY <1>1, ForkRegular
<1>2. ASSUME NEW p \in Proc, NEW new \in Programs, Exec(p, new) PROVE Regular'
  BY <1>2, ExecRegular
<1>3. ASSUME NEW p \in Proc, Load(p) PROVE Regular'
  BY <1>3, LoadRegular
<1>4. ASSUME NEW p \in Proc, NEW v \in Page, Write(p, v) PROVE Regular'
  BY <1>4, WriteRegular
<1>5. CASE UNCHANGED vars
  <2>1. UNCHANGED <<procs, used, firstempty, heapTop, table, entry, mem, prog, loading,
                    reading, execs, writes, mode>>
    BY <1>5 DEF vars
  <2>2. TypeOK' /\ OwnTables'
    BY <2>1 DEF Regular, TypeOK, OwnTables
  <2>3. HeapOrder' /\ InOrder'
    BY <2>1 DEF Regular, HeapOrder, TopFrame, InOrder, Done
  <2> QED
    BY <2>2, <2>3 DEF Regular
<1> QED
  BY <1>1, <1>2, <1>3, <1>4, <1>5 DEF Next, Halted

LEMMA RegularHolds == Spec => []Regular
BY InitRegular, InitFrames, FramesHold, RegularKept, PTL DEF Spec

----------------------------------------------------------------------------
(* The theorems *)

\* Whatever forks and loads of several processes do, in any order, the tables of
\* the kernel stay linked into the directory of every process: the copies of
\* clone_pagedirectory() and the new tables of map_virtual_memory() leave the
\* regions of the kernel alone.
THEOREM KernelStaysLinked == Spec => []KernelLinked
BY FramesHold, PTL DEF FrameInv

\* A frame that a fork or the loader mapped, and that a page still leads to, is
\* marked in the bitmap, whichever of the two ways it got there: bm_findfirst() in
\* clone_pagetable(), or the frame of a heap block in map_virtual_memory().  So it
\* is never handed out a second time.
THEOREM MappedStaysMarked == Spec => []MappedMarked
BY FramesHold, PTL DEF FrameInv

\* bm_findfirst() may start at the word it cached: no frame that is free lies
\* below that, although the loader marks frames without looking at the cache.
THEOREM CacheStaysExact == Spec => []CacheExact
BY FramesHold, PTL DEF FrameInv


\* The frames, the heap and the tables of the kernel hold what they should in
\* any order of forks, loads and writes: kmalloc_pageblock() and clone_pagetable()
\* stay within the frames there are, a fork never takes the id of a process that
\* exists, and what execve() has left to map is always the end of its list.
THEOREM MemoryTypeCorrect == Spec => []TypeOK
BY RegularHolds, PTL DEF Regular

=============================================================================
