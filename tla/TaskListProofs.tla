--------------------------- MODULE TaskListProofs ---------------------------
(***************************************************************************)
(* Proofs about TaskList, for any number of task structures.               *)
(*                                                                         *)
(* A list is a sequence that its pointers represent: the lemmas say that a *)
(* walk along the pointers then finds that sequence, so that a step only   *)
(* has to name the sequence the new pointers represent.  A walk is a       *)
(* recursive function; that it is the function we claim is shown by its    *)
(* least counterexample.                                                   *)
(***************************************************************************)
EXTENDS TaskList, FiniteSetTheorems, SequenceTheorems, NumberLemmas, TLAPS

\* The pointers link the tasks of a sequence, in both directions.
Represents(s) ==
  /\ s \in Seq(Task)
  /\ \A i \in 1 .. Len(s) - 1 : s[i] < s[i + 1]
  /\ head = IF s = <<>> THEN NULL ELSE s[1]
  /\ \A i \in 1 .. Len(s) :
       /\ next[s[i]] = IF i = Len(s) THEN NULL ELSE s[i + 1]
       /\ prev[s[i]] = IF i = 1 THEN NULL ELSE s[i - 1]

LEMMA Sizes == MaxTasks \in Nat \ {0} /\ \A t : t \in Task <=> t \in 0 .. MaxTasks - 1
BY TaskListAssumption DEF Task

\* The tasks of a list are in the order of their numbers.
LEMMA Increasing ==
  ASSUME NEW s \in Seq(Task), \A i \in 1 .. Len(s) - 1 : s[i] < s[i + 1]
  PROVE  /\ \A i, j \in 1 .. Len(s) : i < j => s[i] < s[j]
         /\ Len(s) <= MaxTasks
<1>1. \A i \in 1 .. Len(s) : s[i] \in Nat /\ s[i] <= MaxTasks - 1
  BY Sizes
<1>2. ASSUME NEW i \in 1 .. Len(s), NEW j \in 1 .. Len(s), i < j, ~ (s[i] < s[j])
      PROVE  FALSE
  <2> DEFINE S == {k \in 1 .. Len(s) : i < k /\ ~ (s[i] < s[k])}
  <2>1. PICK k \in S : \A l \in S : k <= l
    <3>1. S \in SUBSET Nat /\ S # {}
      <4>1. j \in S /\ S \subseteq 1 .. Len(s) /\ 1 .. Len(s) \subseteq Nat
        BY <1>2
      <4> QED
        BY <4>1
    <3> HIDE DEF S
    <3> QED
      BY <3>1, LeastElement
  <2>2. k - 1 \in 1 .. Len(s) - 1 /\ k \in 1 .. Len(s) /\ i <= k - 1
    BY <2>1
  <2>3. s[k - 1] < s[k]
    <3>1. (k - 1) + 1 = k
      BY <2>2
    <3> QED
      BY <2>2, <3>1
  <2>4. s[i] <= s[k - 1]
    <3>1. CASE i = k - 1
      BY <1>1, <3>1
    <3>2. CASE i < k - 1
      <4>1. k - 1 \notin S
        BY <2>1, <2>2
      <4> QED
        BY <1>1, <2>2, <3>2, <4>1
    <3> QED
      BY <2>2, <3>1, <3>2
  <2> QED
    BY <1>1, <2>1, <2>2, <2>3, <2>4
<1>3. ASSUME NEW i \in 1 .. Len(s), ~ (i - 1 <= s[i])
      PROVE  FALSE
  <2> DEFINE S == {k \in 1 .. Len(s) : ~ (k - 1 <= s[k])}
  <2>1. PICK k \in S : \A l \in S : k <= l
    <3>1. S \in SUBSET Nat /\ S # {}
      BY <1>3
    <3> HIDE DEF S
    <3> QED
      BY <3>1, LeastElement
  <2>2. k # 1
    BY <1>1, <2>1
  <2>3. k - 1 \in 1 .. Len(s) - 1 /\ k - 1 \notin S /\ (k - 1) + 1 = k
    BY <2>1, <2>2
  <2>4. s[k - 1] < s[k] /\ k - 2 <= s[k - 1]
    BY <2>3
  <2> QED
    BY <1>1, <2>1, <2>3, <2>4
<1>4. Len(s) <= MaxTasks
  <2>1. CASE Len(s) = 0
    BY <2>1, Sizes
  <2>2. CASE Len(s) # 0
    <3>1. Len(s) \in Nat /\ Len(s) \in 1 .. Len(s) /\ s[Len(s)] \in Nat
      BY <1>1, <2>2
    <3> QED
      BY <1>1, <1>3, <3>1, Sizes
  <2> QED
    BY <2>1, <2>2
<1> QED
  BY <1>2, <1>4

\* A walk along the pointers finds the list, and NULL behind it.
LEMMA WalkIs ==
  ASSUME NEW s, Represents(s), NEW n \in Nat
  PROVE  Walk(n) = [i \in 0 .. n - 1 |-> IF i < Len(s) THEN s[i + 1] ELSE NULL]
<1> DEFINE w == [i \in 0 .. n - 1 |-> IF i < Len(s) THEN s[i + 1] ELSE NULL]
           Step(f) == [i \in 0 .. n - 1 |->
                        IF i = 0 THEN head
                        ELSE IF f[i - 1] = NULL THEN NULL ELSE next[f[i - 1]]]
<1>1. w = Step(w)
  <2> SUFFICES ASSUME NEW i \in 0 .. n - 1 PROVE w[i] = Step(w)[i]
    OBVIOUS
  <2>1. \A k \in 1 .. Len(s) : s[k] # NULL
    BY Sizes DEF Represents, NULL
  <2>2. CASE i = 0
    BY <2>2 DEF Represents
  <2>3. CASE i # 0
    BY <2>1, <2>3 DEF Represents
  <2> QED
    BY <2>2, <2>3
<1>2. ASSUME NEW f, f = Step(f) PROVE f = w
  <2>1. \A i \in 0 .. n - 1 : f[i] = Step(f)[i] /\ w[i] = Step(w)[i]
    BY <1>1, <1>2
  <2>2. ASSUME NEW i \in 0 .. n - 1, f[i] # w[i] PROVE FALSE
    <3> DEFINE S == {k \in 0 .. n - 1 : f[k] # w[k]}
    <3>1. PICK k \in S : \A l \in S : k <= l
      <4> HIDE DEF w
      <4>1. S \in SUBSET Nat /\ S # {}
        BY <2>2
      <4> HIDE DEF S
      <4> QED
        BY <4>1, LeastElement
    <3> HIDE DEF w
    <3>2. CASE k = 0
      BY <2>1, <3>1, <3>2
    <3>3. CASE k # 0
      <4>1. k - 1 \in 0 .. n - 1 /\ k - 1 \notin S
        BY <3>1, <3>3
      <4>2. f[k - 1] = w[k - 1]
        BY <4>1
      <4> QED
        BY <2>1, <3>1, <3>3, <4>2
    <3> QED
      BY <3>2, <3>3
  <2> QED
    BY <1>2, <2>2
<1> HIDE DEF w
<1>3. Walk(n) = CHOOSE f : f = Step(f)
  BY DEF Walk
<1> HIDE DEF Step
<1> QED
  BY <1>1, <1>2, <1>3 DEF w

LEMMA LinkedIs == \A s : Represents(s) => Linked = s
<1> SUFFICES ASSUME NEW s, Represents(s) PROVE Linked = s
  OBVIOUS
<1> DEFINE at == [i \in 0 .. MaxTasks |-> IF i < Len(s) THEN s[i + 1] ELSE NULL]
           m == Len(s)
<1>1. m \in Nat /\ m <= MaxTasks /\ s \in Seq(Task)
  BY Increasing DEF Represents
<1>2. Walk(MaxTasks + 1) = at
  <2>1. MaxTasks + 1 \in Nat /\ (MaxTasks + 1) - 1 = MaxTasks
    BY Sizes
  <2>2. Walk(MaxTasks + 1) =
          [i \in 0 .. (MaxTasks + 1) - 1 |-> IF i < Len(s) THEN s[i + 1] ELSE NULL]
    BY <2>1, WalkIs
  <2> QED
    BY <2>1, <2>2
<1>3. {i \in 0 .. MaxTasks : at[i] # NULL} = 0 .. m - 1
  <2>1. \A i \in 1 .. m : s[i] # NULL
    BY <1>1, Sizes DEF NULL
  <2>2. \A i \in 0 .. m - 1 : i \in 0 .. MaxTasks /\ i + 1 \in 1 .. m
    BY <1>1, Sizes
  <2>3. \A i \in 0 .. MaxTasks : i < m => i \in 0 .. m - 1
    BY <1>1, Sizes
  <2>4. \A i \in 0 .. m - 1 : i < m
    BY <1>1
  <2> QED
    BY <2>1, <2>2, <2>3, <2>4
<1>4. Cardinality(0 .. m - 1) = m
  <2>1. 0 \in Int /\ m - 1 \in Int
    BY <1>1
  <2>2. Cardinality(0 .. m - 1) = IF 0 > m - 1 THEN 0 ELSE (m - 1) - 0 + 1
    BY <2>1, FS_Interval, Zenon
  <2> QED
    BY <1>1, <2>2
<1>5. Linked = [i \in 1 .. m |-> at[i - 1]]
  <2> HIDE DEF at, m
  <2> QED
    BY <1>2, <1>3, <1>4 DEF Linked
<1>6. \A i \in 1 .. m : at[i - 1] = s[i]
  <2> SUFFICES ASSUME NEW i \in 1 .. m PROVE at[i - 1] = s[i]
    OBVIOUS
  <2>1. i - 1 \in 0 .. MaxTasks /\ i - 1 < Len(s) /\ (i - 1) + 1 = i
    BY <1>1, Sizes
  <2> QED
    BY <2>1
<1>7. s = [i \in 1 .. m |-> s[i]]
  BY <1>1
<1> HIDE DEF at
<1> QED
  BY <1>5, <1>6, <1>7

LEMMA LinkedIsNext == (\A s : Represents(s) => Linked = s)'
BY LinkedIs, PTL

----------------------------------------------------------------------------
(* The inductive invariant *)

\* The task that was just removed points where it was: behind a task of the list,
\* in front of the next one or of none.
Stale(s, i) ==
  /\ s[i] < exiting /\ prev[exiting] = s[i]
  /\ IF i = Len(s) THEN next[exiting] = NULL
     ELSE exiting < s[i + 1] /\ next[exiting] = s[i + 1]

Listed(s) ==
  /\ Represents(s)
  /\ \A i \in 1 .. Len(s) : s[i] < created
  /\ IF created = 0 THEN s = <<>> ELSE s # <<>> /\ s[1] = Idle
  /\ exiting # NULL => \E i \in 1 .. Len(s) : Stale(s, i)

ListInv ==
  /\ created \in 0 .. MaxTasks /\ exiting \in Task \union {NULL}
  /\ next \in [Task -> Task \union {NULL}] /\ prev \in [Task -> Task \union {NULL}]
  /\ Listed(Linked)

LEMMA InitList == Init => ListInv /\ Linked = <<>>
<1> SUFFICES ASSUME Init PROVE ListInv /\ Linked = <<>>
  OBVIOUS
<1>1. Represents(<<>>)
  BY DEF Init, Represents
<1>2. Linked = <<>>
  BY <1>1, LinkedIs
<1> QED
  BY <1>1, <1>2, Sizes DEF Init, ListInv, Listed

\* sched_add_task() puts the new task at the end.
LEMMA AddList ==
  ASSUME ListInv, AddTask
  PROVE  ListInv' /\ Linked' = Append(Linked, created) /\ created' = created + 1
<1>a. PICK s : s = Linked
  OBVIOUS
<1>b. PICK z : z = Append(s, created)
  OBVIOUS
<1> DEFINE m == Len(s)
<1>1. /\ created \in Task /\ created' = created + 1 /\ created' \in 0 .. MaxTasks
      /\ exiting' = NULL
  BY Sizes DEF AddTask, ListInv
<1>2. Listed(s) /\ s \in Seq(Task) /\ m \in Nat /\ created \notin {s[i] : i \in 1 .. m}
  BY <1>a DEF ListInv, Listed, Represents
<1>3. Last = s[m]
  BY <1>a DEF Last
<1>4. /\ z \in Seq(Task) /\ Len(z) = m + 1 /\ z[m + 1] = created
      /\ \A i \in 1 .. m : z[i] = s[i]
  BY <1>b, <1>1, <1>2
<1>5. CASE head = NULL
  <2>1. s = <<>>
    BY <1>2, <1>5, Sizes DEF Listed, Represents, NULL
  <2>2. head' = created /\ next' = [next EXCEPT ![created] = NULL]
        /\ prev' = [prev EXCEPT ![created] = NULL]
    BY <1>5 DEF AddTask
  <2>3. Represents(z)'
    <3>1. Len(z) = 1 /\ z[1] = created /\ z # <<>>
      BY <1>4, <2>1
    <3>2. next'[created] = NULL /\ prev'[created] = NULL
      BY <1>1, <2>2 DEF ListInv
    <3>3. \A i \in 1 .. Len(z) : i = 1
      BY <3>1
    <3> QED
      BY <1>4, <2>2, <3>1, <3>2, <3>3 DEF Represents
  <2>4. created = 0
    BY <1>2, <2>1 DEF Listed
  <2>5. Listed(z)'
    BY <1>1, <1>4, <2>1, <2>3, <2>4 DEF Listed, Idle
  <2>6. Linked' = z
    BY <2>3, LinkedIsNext
  <2> QED
    BY <1>a, <1>b, <1>1, <2>2, <2>5, <2>6 DEF ListInv
<1>6. CASE head # NULL
  <2>1. m # 0 /\ m \in 1 .. m
    BY <1>2, <1>6 DEF Listed, Represents
  <2>2. head' = head /\ next' = [next EXCEPT ![s[m]] = created, ![created] = NULL]
        /\ prev' = [prev EXCEPT ![created] = s[m]]
    BY <1>3, <1>6 DEF AddTask
  <2>3. \A i, j \in 1 .. m : i # j => s[i] # s[j]
    <3>1. \A i, j \in 1 .. m : i < j => s[i] < s[j]
      BY <1>2, Increasing DEF Listed, Represents
    <3>2. \A i, j \in 1 .. m : i # j => i < j \/ j < i
      BY <1>2
    <3>3. \A i \in 1 .. m : s[i] \in Nat
      BY <1>2, Sizes
    <3> QED
      BY <3>1, <3>2, <3>3
  <2>4. Represents(z)'
    <3>1. \A i \in 1 .. Len(z) - 1 : z[i] < z[i + 1]
      BY <1>2, <1>4 DEF Listed, Represents
    <3>2. head' = IF z = <<>> THEN NULL ELSE z[1]
      BY <1>2, <1>4, <2>1, <2>2 DEF Listed, Represents
    <3>3. next \in [Task -> Task \union {NULL}] /\ prev \in [Task -> Task \union {NULL}]
      BY DEF ListInv
    <3>4. ASSUME NEW i \in 1 .. Len(z)
          PROVE  /\ next'[z[i]] = IF i = Len(z) THEN NULL ELSE z[i + 1]
                 /\ prev'[z[i]] = IF i = 1 THEN NULL ELSE z[i - 1]
      <4>1. CASE i = m + 1
        BY <1>1, <1>2, <1>4, <2>1, <2>2, <3>3, <4>1
      <4>2. CASE i \in 1 .. m
        <5>1. /\ s[i] \in Task /\ s[i] # created /\ z[i] = s[i] /\ s[m] \in Task
              /\ i # m => s[i] # s[m]
          BY <1>2, <1>4, <2>1, <2>3, <4>2
        <5>2. /\ prev[s[i]] = IF i = 1 THEN NULL ELSE s[i - 1]
              /\ next[s[i]] = IF i = m THEN NULL ELSE s[i + 1]
          BY <1>2, <4>2 DEF Listed, Represents
        <5>3. /\ prev'[s[i]] = prev[s[i]]
              /\ next'[s[i]] = IF i = m THEN created ELSE next[s[i]]
          BY <1>1, <2>2, <3>3, <5>1
        <5>4. i # 1 => i - 1 \in 1 .. m
          BY <1>2, <4>2
        <5>5. IF i = m THEN z[i + 1] = created ELSE z[i + 1] = s[i + 1]
          BY <1>2, <1>4, <4>2
        <5> QED
          BY <1>2, <1>4, <4>2, <5>1, <5>2, <5>3, <5>4, <5>5
      <4> QED
        BY <1>2, <1>4, <4>1, <4>2
    <3> QED
      BY <1>4, <3>1, <3>2, <3>4 DEF Represents
  <2>5. Listed(z)'
    <3>1. z # <<>> /\ z[1] = Idle
      BY <1>2, <1>4, <2>1 DEF Listed
    <3>2. ASSUME NEW i \in 1 .. Len(z) PROVE z[i] < created'
      <4>1. CASE i = m + 1
        BY <1>1, <1>4, <4>1, Sizes
      <4>2. CASE i \in 1 .. m
        <5>1. z[i] = s[i] /\ s[i] < created /\ s[i] \in Nat /\ created \in Nat
          BY <1>1, <1>2, <1>4, <4>2, Sizes DEF Listed
        <5> QED
          BY <1>1, <5>1
      <4> QED
        BY <1>2, <1>4, <4>1, <4>2
    <3>3. created' # 0
      BY <1>1, Sizes
    <3> QED
      BY <1>1, <2>4, <3>1, <3>2, <3>3 DEF Listed
  <2>6. Linked' = z
    BY <2>4, LinkedIsNext
  <2>7. next' \in [Task -> Task \union {NULL}] /\ prev' \in [Task -> Task \union {NULL}]
    BY <1>1, <1>2, <2>1, <2>2 DEF ListInv
  <2> QED
    BY <1>a, <1>b, <1>1, <2>5, <2>6, <2>7 DEF ListInv
<1> QED
  BY <1>5, <1>6

\* A sequence without its i-th element.
LEMMA WithoutDoes ==
  ASSUME NEW S, NEW s \in Seq(S), NEW i \in 1 .. Len(s)
  PROVE  LET z == SubSeq(s, 1, i - 1) \o SubSeq(s, i + 1, Len(s))
         IN  /\ z \in Seq(S) /\ Len(z) = Len(s) - 1
             /\ \A k \in 1 .. Len(s) - 1 : z[k] = IF k < i THEN s[k] ELSE s[k + 1]
<1> DEFINE a == SubSeq(s, 1, i - 1)
           b == SubSeq(s, i + 1, Len(s))
<1>1. /\ a \in Seq(S) /\ Len(a) = i - 1 /\ \A k \in 1 .. i - 1 : a[k] = s[k]
      /\ b \in Seq(S) /\ Len(b) = Len(s) - i /\ \A k \in 1 .. Len(s) - i : b[k] = s[i + k]
  OBVIOUS
<1> HIDE DEF a, b
<1>2. /\ a \o b \in Seq(S) /\ Len(a \o b) = Len(s) - 1
      /\ \A k \in 1 .. Len(s) - 1 : (a \o b)[k] = IF k < i THEN a[k] ELSE b[k - (i - 1)]
  <2>1. /\ a \o b \in Seq(S) /\ Len(a \o b) = Len(a) + Len(b)
        /\ \A k \in 1 .. Len(a) + Len(b) :
             (a \o b)[k] = IF k <= Len(a) THEN a[k] ELSE b[k - Len(a)]
    BY <1>1, ConcatProperties
  <2>2. Len(a) + Len(b) = Len(s) - 1 /\ \A k \in Int : k < i <=> k <= Len(a)
    BY <1>1
  <2> QED
    BY <1>1, <2>1, <2>2
<1>3. ASSUME NEW k \in 1 .. Len(s) - 1
      PROVE  (a \o b)[k] = IF k < i THEN s[k] ELSE s[k + 1]
  <2>1. CASE k < i
    BY <1>1, <1>2, <2>1
  <2>2. CASE ~ (k < i)
    <3>1. k - (i - 1) \in 1 .. Len(s) - i /\ i + (k - (i - 1)) = k + 1
      BY <2>2
    <3> QED
      BY <1>1, <1>2, <2>2, <3>1
  <2> QED
    BY <2>1, <2>2
<1> QED
  BY <1>2, <1>3 DEF a, b

\* sched_remove_task() unlinks the task it is called for, wherever it is.
LEMMA RemoveList ==
  ASSUME ListInv, NEW t \in LinkedSet \ {Idle}, RemoveTask(t)
  PROVE  /\ ListInv'
         /\ \E i \in 2 .. Len(Linked) :
              /\ Linked' = SubSeq(Linked, 1, i - 1) \o SubSeq(Linked, i + 1, Len(Linked))
              /\ created' = created
<1>a. PICK s : s = Linked
  OBVIOUS
<1> DEFINE m == Len(s)
<1>1. /\ Listed(s) /\ Represents(s) /\ s \in Seq(Task) /\ m \in Nat
      /\ \A j \in 1 .. m : s[j] \in Task /\ s[j] # NULL
  BY <1>a, Sizes DEF ListInv, Listed, Represents, NULL
<1>2. PICK i \in 1 .. m : t = s[i]
  BY <1>a DEF LinkedSet
<1>3. i # 1 /\ i \in 2 .. m
  <2>1. m # 0 /\ s # <<>>
    BY <1>1
  <2>2. s[1] = Idle
    BY <1>1, <2>1 DEF Listed
  <2> QED
    BY <1>1, <1>2, <2>2
<1>4. i - 1 \in 1 .. m /\ prev[t] = s[i - 1] /\ t \in Task
  BY <1>1, <1>2, <1>3 DEF Represents
<1>5. next[t] = IF i = m THEN NULL ELSE s[i + 1]
  BY <1>1, <1>2 DEF Represents
<1>6. /\ head' = head /\ created' = created /\ exiting' = t
      /\ next' = [next EXCEPT ![s[i - 1]] = next[t]]
      /\ prev' = IF i = m THEN prev ELSE [prev EXCEPT ![s[i + 1]] = s[i - 1]]
  <2>1. prev[t] # NULL
    BY <1>1, <1>4
  <2>2. CASE i = m
    BY <1>4, <1>5, <2>1, <2>2 DEF RemoveTask
  <2>3. CASE i # m
    <3>1. i + 1 \in 1 .. m
      BY <1>1, <2>3
    <3>2. next[t] # NULL /\ next[t] = s[i + 1]
      BY <1>1, <1>5, <2>3, <3>1
    <3> QED
      BY <1>4, <2>1, <2>3, <3>2 DEF RemoveTask
  <2> QED
    BY <2>2, <2>3
<1>b. PICK z : z = SubSeq(s, 1, i - 1) \o SubSeq(s, i + 1, Len(s))
  OBVIOUS
<1>7. /\ z \in Seq(Task) /\ Len(z) = m - 1
      /\ \A k \in 1 .. m - 1 : z[k] = IF k < i THEN s[k] ELSE s[k + 1]
  BY <1>1, <1>b, WithoutDoes
<1>8. /\ \A j, k \in 1 .. m : j < k => s[j] < s[k]
      /\ \A j, k \in 1 .. m : j # k => s[j] # s[k]
  <2>1. \A j, k \in 1 .. m : j < k => s[j] < s[k]
    BY <1>1, Increasing DEF Represents
  <2>2. \A j, k \in 1 .. m : j # k => j < k \/ k < j
    BY <1>1
  <2>3. \A j \in 1 .. m : s[j] \in Nat
    BY <1>1, Sizes
  <2> QED
    BY <2>1, <2>2, <2>3
<1>9. next \in [Task -> Task \union {NULL}] /\ prev \in [Task -> Task \union {NULL}]
  BY DEF ListInv
<1>10. /\ next' \in [Task -> Task \union {NULL}] /\ prev' \in [Task -> Task \union {NULL}]
       /\ next'[t] = next[t] /\ prev'[t] = prev[t]
  <2>1. i + 1 \in 1 .. m => s[i + 1] \in Task /\ s[i + 1] # t
    BY <1>1, <1>2, <1>8
  <2>2. s[i - 1] \in Task /\ s[i - 1] # t
    BY <1>1, <1>2, <1>4, <1>8
  <2>3. i # m => i + 1 \in 1 .. m
    BY <1>1
  <2>4. next[t] \in Task \union {NULL}
    BY <1>4, <1>9
  <2> QED
    BY <1>6, <1>9, <2>1, <2>2, <2>3, <2>4
<1>11. ASSUME NEW k \in 1 .. Len(z)
       PROVE  /\ next'[z[k]] = IF k = Len(z) THEN NULL ELSE z[k + 1]
              /\ prev'[z[k]] = IF k = 1 THEN NULL ELSE z[k - 1]
  <2>1. \A j \in 1 .. m : /\ next[s[j]] = IF j = m THEN NULL ELSE s[j + 1]
                          /\ prev[s[j]] = IF j = 1 THEN NULL ELSE s[j - 1]
    BY <1>1 DEF Represents
  <2>2. ASSUME NEW j \in 1 .. m
        PROVE  /\ next'[s[j]] = IF j = i - 1 THEN next[t] ELSE next[s[j]]
               /\ prev'[s[j]] = IF i # m /\ j = i + 1 THEN s[i - 1] ELSE prev[s[j]]
    <3>1. s[j] = s[i - 1] <=> j = i - 1
      BY <1>4, <1>8
    <3>2. i # m => i + 1 \in 1 .. m /\ (s[j] = s[i + 1] <=> j = i + 1)
      BY <1>1, <1>8
    <3>3. s[j] \in Task
      BY <1>1
    <3> QED
      BY <1>6, <1>9, <3>1, <3>2, <3>3
  <2>3. k \in 1 .. m - 1
    BY <1>7
  <2>4. CASE k < i
    <3>1. k \in 1 .. m /\ z[k] = s[k] /\ (k # i - 1 => k + 1 < i)
      BY <1>1, <1>7, <2>3, <2>4
    <3>2. next'[s[k]] = IF k = i - 1 THEN next[t] ELSE s[k + 1]
      BY <1>1, <2>1, <2>2, <2>3, <3>1
    <3>3. prev'[s[k]] = IF k = 1 THEN NULL ELSE s[k - 1]
      BY <2>1, <2>2, <2>4, <3>1
    <3>4. IF k = m - 1 THEN next'[z[k]] = NULL ELSE next'[z[k]] = z[k + 1]
      BY <1>1, <1>5, <1>7, <2>3, <2>4, <3>1, <3>2
    <3>5. k # 1 => z[k - 1] = s[k - 1]
      BY <1>7, <2>3, <2>4
    <3> QED
      BY <1>7, <3>1, <3>3, <3>4, <3>5
  <2>5. CASE ~ (k < i)
    <3>1. k + 1 \in 1 .. m /\ z[k] = s[k + 1] /\ i # m /\ k # 1
      BY <1>1, <1>3, <1>7, <2>3, <2>5
    <3>2. next'[s[k + 1]] = IF k + 1 = m THEN NULL ELSE s[k + 2]
      BY <2>1, <2>2, <2>5, <3>1
    <3>3. prev'[s[k + 1]] = IF k = i THEN s[i - 1] ELSE s[k]
      BY <2>1, <2>2, <2>3, <3>1
    <3>4. k # m - 1 => z[k + 1] = s[k + 2]
      BY <1>7, <2>3, <2>5
    <3>5. z[k - 1] = IF k = i THEN s[i - 1] ELSE s[k]
      BY <1>1, <1>3, <1>7, <2>3, <2>5, <3>1
    <3> QED
      BY <1>7, <3>1, <3>2, <3>3, <3>4, <3>5
  <2> QED
    BY <2>4, <2>5
<1>12. ASSUME NEW k \in 1 .. Len(z) - 1 PROVE z[k] < z[k + 1]
  <2>1. k \in 1 .. m - 1 /\ k + 1 \in 1 .. m - 1 /\ k \in 1 .. m /\ k + 1 \in 1 .. m
    BY <1>1, <1>7
  <2>2. k + 2 \in 1 .. m
    BY <1>1, <1>7
  <2>3. z[k] = IF k < i THEN s[k] ELSE s[k + 1]
    BY <1>7, <2>1
  <2>4. z[k + 1] = IF k + 1 < i THEN s[k + 1] ELSE s[k + 2]
    BY <1>7, <2>1
  <2>5. s[k] < s[k + 1] /\ s[k + 1] < s[k + 2] /\ s[k] < s[k + 2]
    BY <1>8, <2>1, <2>2
  <2> QED
    BY <2>1, <2>3, <2>4, <2>5
<1>13. z # <<>> /\ z[1] = s[1] /\ s # <<>>
  BY <1>1, <1>3, <1>7
<1>14. Represents(z)'
  BY <1>1, <1>6, <1>7, <1>11, <1>12, <1>13 DEF Represents
<1>15. \A k \in 1 .. Len(z) : z[k] < created'
  BY <1>1, <1>6, <1>7 DEF Listed
<1>16. i - 1 \in 1 .. Len(z) /\ Stale(z, i - 1)'
  <2>1. i - 1 \in 1 .. Len(z) /\ z[i - 1] = s[i - 1]
    BY <1>1, <1>3, <1>7
  <2>2. s[i - 1] < t
    BY <1>2, <1>4, <1>8
  <2>3. CASE i = m
    BY <1>1, <1>4, <1>5, <1>6, <1>7, <1>10, <2>1, <2>2, <2>3 DEF Stale
  <2>4. CASE i # m
    <3>1. i + 1 \in 1 .. m /\ z[(i - 1) + 1] = s[i + 1]
      BY <1>1, <1>3, <1>7, <2>4
    <3>2. t < s[i + 1]
      BY <1>2, <1>8, <3>1
    <3>3. i - 1 # Len(z)
      BY <1>1, <1>7, <2>4
    <3> QED
      BY <1>4, <1>5, <1>6, <1>10, <2>1, <2>2, <2>4, <3>1, <3>2, <3>3 DEF Stale
  <2> QED
    BY <2>3, <2>4
<1>17. Listed(z)'
  BY <1>1, <1>6, <1>13, <1>14, <1>15, <1>16 DEF Listed
<1>18. Linked' = z
  BY <1>14, LinkedIsNext
<1>19. ListInv'
  BY <1>4, <1>6, <1>10, <1>17, <1>18 DEF ListInv
<1> QED
  BY <1>a, <1>b, <1>3, <1>6, <1>18, <1>19

LEMMA NextList == ListInv /\ [Next]_vars => ListInv' /\ [Abstract!Next]_(Abstract!vars)
<1> SUFFICES ASSUME ListInv, [Next]_vars
             PROVE  ListInv' /\ [Abstract!Next]_(Abstract!vars)
  OBVIOUS
<1>1. CASE AddTask
  <2>1. created < MaxTasks
    BY <1>1 DEF AddTask
  <2> QED
    BY <1>1, <2>1, AddList DEF Abstract!Next, Abstract!Add
<1>2. CASE Remove
  BY <1>2, RemoveList DEF Remove, Abstract!Next, Abstract!Remove
<1>3. CASE UNCHANGED vars
  <2>0. PICK s : s = Linked
    OBVIOUS
  <2>1. Represents(s)' /\ Linked' = Linked
    <3>1. Represents(s)'
      BY <1>3, <2>0 DEF vars, ListInv, Listed, Represents
    <3> QED
      BY <2>0, <3>1, LinkedIsNext
  <2> QED
    BY <1>3, <2>0, <2>1 DEF vars, ListInv, Listed, Stale, Abstract!vars
<1> QED
  BY <1>1, <1>2, <1>3 DEF Next

\* The pointers always represent a sequence of tasks in the order of creation, and
\* those of a task that was removed last still lead into it
\* (sched_add_task, sched_remove_task, which clears neither pointer).
THEOREM ListInvariant == Spec => []ListInv
BY InitList, NextList, PTL DEF Spec

\* The backward pointers of the linked tasks mirror the forward ones after any
\* order of additions and removals (sched_add_task, sched_remove_task), for any
\* number of task structures.
THEOREM TaskListBackLinks == Spec => []BackLinks
<1>1. ListInv => BackLinks
  BY DEF ListInv, Listed, Represents, BackLinks
<1> QED
  BY <1>1, ListInvariant, PTL

\* Through its pointers the list is a sequence in the order of creation: an added
\* task becomes its last element, a removed one leaves it wherever it was
\* (sched_add_task, sched_remove_task).
THEOREM TaskListImplementsTaskSeq == Spec => ImplementsTaskSeq
<1>1. Init => Abstract!Init
  BY InitList DEF Init, Abstract!Init
<1> QED
  BY <1>1, InitList, NextList, ListInvariant, PTL DEF Spec, ImplementsTaskSeq, Abstract!Spec

----------------------------------------------------------------------------
(* get_next_runnable_task() *)

\* A path is what its definition says: each task on it follows the one before.
LEMMA PathIs ==
  ASSUME NEW t
  PROVE  /\ Path(t)[0] = t
         /\ \A i \in 1 .. 2 * MaxTasks : Path(t)[i] = Succ(Path(t)[i - 1])
<1> DEFINE Step(n, f) == [i \in 0 .. n |-> IF i = 0 THEN t ELSE Succ(f[i - 1])]
<1>1. ASSUME NEW n \in Nat PROVE \E f : f = Step(n, f)
  <2> DEFINE S == {k \in Nat : ~ \E f : f = Step(k, f)}
  <2> SUFFICES ASSUME S # {} PROVE FALSE
    BY <1>1
  <2>1. PICK k \in S : \A l \in S : k <= l
    <3>1. S \in SUBSET Nat
      OBVIOUS
    <3> HIDE DEF S
    <3> QED
      BY <3>1, LeastElement
  <2>2. CASE k = 0
    <3> DEFINE f == [i \in 0 .. 0 |-> t]
    <3>1. f = Step(0, f)
      OBVIOUS
    <3> QED
      BY <2>1, <2>2, <3>1
  <2>3. CASE k # 0
    <3>1. k - 1 \in Nat /\ k - 1 \notin S /\ k \in Nat
      <4>1. k \in Nat /\ k - 1 \in Nat /\ ~ (k <= k - 1)
        BY <2>1, <2>3
      <4> HIDE DEF S
      <4> QED
        BY <2>1, <4>1
    <3>2. PICK g : g = Step(k - 1, g)
      BY <3>1
    <3> DEFINE f == [i \in 0 .. k |-> IF i = k THEN Succ(g[k - 1]) ELSE g[i]]
    <3>3. \A i \in 0 .. k - 1 : g[i] = Step(k - 1, g)[i]
      BY <3>2
    <3>4. f = Step(k, f)
      <4> SUFFICES ASSUME NEW i \in 0 .. k PROVE f[i] = Step(k, f)[i]
        OBVIOUS
      <4>1. CASE i = k
        BY <2>3, <3>1, <4>1
      <4>2. CASE i # k
        <5>1. i \in 0 .. k - 1 /\ (i # 0 => i - 1 \in 0 .. k - 1)
          BY <3>1, <4>2
        <5> QED
          BY <3>3, <4>2, <5>1
      <4> QED
        BY <4>1, <4>2
    <3> QED
      BY <2>1, <3>4
  <2> QED
    BY <2>2, <2>3
<1>2. 2 * MaxTasks \in Nat
  BY Sizes
<1>3. \E f : f = Step(2 * MaxTasks, f)
  BY <1>1, <1>2
<1>4. Path(t) = CHOOSE f : f = Step(2 * MaxTasks, f)
  BY DEF Path
<1>5. Path(t) = Step(2 * MaxTasks, Path(t))
  <2> HIDE DEF Step
  <2> QED
    BY <1>3, <1>4
<1>6. \A i \in 0 .. 2 * MaxTasks : Path(t)[i] = Step(2 * MaxTasks, Path(t))[i]
  BY <1>5
<1>7. 0 \in 0 .. 2 * MaxTasks /\ \A i \in 1 .. 2 * MaxTasks : i \in 0 .. 2 * MaxTasks /\ i # 0
  BY <1>2
<1> QED
  BY <1>6, <1>7

\* The tasks behind a place of the list, around its end.
Around(s, p, i) == IF p + i <= Len(s) THEN s[p + i] ELSE s[p + i - Len(s)]

\* A task from which the walk goes on behind the p-th task of the list: that task
\* itself, or one that was removed there.
StartsAt(s, p, start) ==
  /\ p \in 1 .. Len(s) /\ start \in Task
  /\ next[start] = IF p < Len(s) THEN s[p + 1] ELSE NULL
  /\ start = s[p] \/ (s[p] < start /\ prev[start] = s[p])
  /\ \A j \in 1 .. Len(s) : p < j => start < s[j]

LEMMA PathGoesAround ==
  ASSUME NEW s, Represents(s), NEW p, NEW start, StartsAt(s, p, start),
         NEW i \in 1 .. Len(s)
  PROVE  Path(start)[i] = Around(s, p, i)
<1> DEFINE path == Path(start)
           m == Len(s)
<1>1. /\ s \in Seq(Task) /\ m \in Nat /\ m <= MaxTasks /\ p \in 1 .. m /\ s # <<>>
      /\ head = s[1] /\ \A j \in 1 .. m : s[j] # NULL /\ s[j] \in Task
      /\ \A j \in 1 .. m : next[s[j]] = IF j = m THEN NULL ELSE s[j + 1]
  <2>1. s \in Seq(Task) /\ m \in Nat /\ m <= MaxTasks
    BY Increasing DEF Represents
  <2>2. p \in 1 .. m
    BY DEF StartsAt
  <2>3. \A j \in 1 .. m : s[j] # NULL /\ s[j] \in Task
    BY <2>1, Sizes DEF NULL
  <2>4. s # <<>>
    BY <2>1, <2>2
  <2> QED
    BY <2>1, <2>2, <2>3, <2>4 DEF Represents
<1>2. path[0] = start /\ \A j \in 1 .. m : path[j] = Succ(path[j - 1])
  <2>1. \A j \in 1 .. m : j \in 1 .. 2 * MaxTasks
    BY <1>1, Sizes
  <2> QED
    BY <2>1, PathIs
<1>3. \A j \in 1 .. m : Succ(s[j]) = IF j < m THEN s[j + 1] ELSE s[1]
  BY <1>1 DEF Succ
<1>4. Succ(start) = IF p < m THEN s[p + 1] ELSE s[1]
  BY <1>1 DEF Succ, StartsAt
<1> HIDE DEF path
<1> DEFINE S == {j \in 1 .. m : path[j] # Around(s, p, j)}
<1>5. ASSUME S # {} PROVE FALSE
  <2>1. PICK j \in S : \A l \in S : j <= l
    <3>1. S \in SUBSET Nat
      BY <1>1
    <3> HIDE DEF S
    <3> QED
      BY <1>5, <3>1, LeastElement
  <2>2. CASE j = 1
    <3>1. path[1] = Succ(start)
      BY <1>2, <2>1, <2>2
    <3>2. Around(s, p, 1) = IF p < m THEN s[p + 1] ELSE s[1]
      BY <1>1 DEF Around
    <3> QED
      BY <1>4, <2>1, <2>2, <3>1, <3>2
  <2>3. CASE j # 1
    <3>1. j - 1 \in 1 .. m /\ j - 1 \notin S /\ j \in 1 .. m
      BY <2>1, <2>3
    <3>2. path[j] = Succ(Around(s, p, j - 1))
      BY <1>2, <3>1
    <3>3. CASE p + (j - 1) <= m
      <4>1. p + (j - 1) \in 1 .. m /\ Around(s, p, j - 1) = s[p + (j - 1)]
        BY <1>1, <3>1, <3>3 DEF Around
      <4>2. Succ(s[p + (j - 1)]) = IF p + (j - 1) < m THEN s[p + (j - 1) + 1] ELSE s[1]
        BY <1>3, <4>1
      <4>3. p + (j - 1) + 1 = p + j /\ (p + (j - 1) < m <=> p + j <= m)
            /\ (p + (j - 1) = m => p + j - m = 1)
        BY <1>1, <3>1
      <4> QED
        BY <1>1, <2>1, <3>2, <3>3, <4>1, <4>2, <4>3 DEF Around
    <3>4. CASE ~ (p + (j - 1) <= m)
      <4>1. p + (j - 1) - m \in 1 .. m /\ Around(s, p, j - 1) = s[p + (j - 1) - m]
        BY <1>1, <3>1, <3>4 DEF Around
      <4>2. p + (j - 1) - m < m /\ p + (j - 1) - m + 1 = p + j - m /\ ~ (p + j <= m)
        BY <1>1, <3>1, <3>4
      <4>3. Succ(s[p + (j - 1) - m]) = s[p + (j - 1) - m + 1]
        BY <1>3, <4>1, <4>2
      <4> QED
        BY <2>1, <3>2, <4>1, <4>2, <4>3 DEF Around
    <3> QED
      BY <3>3, <3>4
  <2> QED
    BY <2>2, <2>3
<1> QED
  BY <1>5 DEF path

Least(S) == CHOOSE x \in S : \A y \in S : x <= y

LEMMA LeastIs ==
  ASSUME NEW S \in SUBSET Nat
  PROVE  /\ S # {} => Least(S) \in S /\ \A y \in S : Least(S) <= y
         /\ \A x \in S : (\A y \in S : x <= y) => Least(S) = x
<1>1. S # {} => \E x \in S : \A y \in S : x <= y
  BY LeastElement
<1>2. S # {} => Least(S) \in S /\ \A y \in S : Least(S) <= y
  BY <1>1 DEF Least
<1>3. ASSUME NEW x \in S, \A y \in S : x <= y PROVE Least(S) = x
  <2>1. Least(S) \in Nat /\ x \in Nat /\ x <= Least(S) /\ Least(S) <= x
    BY <1>2, <1>3
  <2> QED
    BY <2>1
<1> QED
  BY <1>2, <1>3

\* The task that is picked from the set of the linked ones.
Picked(start, linked, R) ==
  LET eligible == R \ {Idle}
      behind   == {t \in eligible : t > start}
  IN  IF behind # {} THEN Least(behind)
      ELSE IF eligible # {} THEN Least(eligible)
      ELSE IF start \in linked THEN Idle
      ELSE Loops

LEMMA SearchFinds ==
  ASSUME NEW s, Represents(s), s[1] = Idle, NEW p, NEW start, StartsAt(s, p, start),
         NEW R \in SUBSET {s[j] : j \in 1 .. Len(s)}
  PROVE  Found(start, R) = Picked(start, {s[j] : j \in 1 .. Len(s)}, R)
<1> DEFINE path == Path(start)
           m == Len(s)
           linked == {s[j] : j \in 1 .. m}
           E == R \ {Idle}
           behind == {t \in E : t > start}
           stops == {i \in 1 .. 2 * MaxTasks : path[i] \in E \/ path[i] = start}
<1>1. /\ s \in Seq(Task) /\ m \in Nat /\ m <= MaxTasks /\ p \in 1 .. m
      /\ start \in Nat /\ \A j \in 1 .. m : s[j] # NULL /\ s[j] \in Nat
      /\ 1 .. m \subseteq 1 .. 2 * MaxTasks /\ m \in 1 .. m
  <2>1. s \in Seq(Task) /\ m \in Nat /\ m <= MaxTasks
    BY Increasing DEF Represents
  <2>2. p \in 1 .. m /\ start \in Task
    BY DEF StartsAt
  <2>3. \A j \in 1 .. m : s[j] # NULL /\ s[j] \in Nat
    BY <2>1, Sizes DEF NULL
  <2>4. 1 .. m \subseteq 1 .. 2 * MaxTasks /\ m \in 1 .. m /\ start \in Nat
    BY <2>1, <2>2, Sizes
  <2> QED
    BY <2>1, <2>2, <2>3, <2>4
<1>2. \A j \in 1 .. m : (s[j] > start <=> p < j) /\ (s[j] = start => j = p)
  <2>1. \A j, k \in 1 .. m : j < k => s[j] < s[k]
    BY Increasing DEF Represents
  <2> SUFFICES ASSUME NEW j \in 1 .. m
               PROVE  (s[j] > start <=> p < j) /\ (s[j] = start => j = p)
    OBVIOUS
  <2>2. CASE p < j
    BY <1>1, <2>2 DEF StartsAt
  <2>3. CASE j < p
    <3>1. s[j] < s[p] /\ s[p] <= start
      BY <1>1, <2>1, <2>3 DEF StartsAt
    <3> QED
      BY <1>1, <2>3, <3>1
  <2>4. CASE j = p
    BY <1>1, <2>4 DEF StartsAt
  <2> QED
    BY <1>1, <2>2, <2>3, <2>4
<1>3. \A i \in 1 .. m : path[i] = Around(s, p, i)
  BY PathGoesAround
<1>4. linked \in SUBSET Nat /\ E \in SUBSET Nat /\ E \subseteq linked /\ behind \in SUBSET Nat
  BY <1>1
<1>5. Search(start, R) =
        IF prev[start] = NULL /\ next[start] = NULL THEN start
        ELSE IF stops = {} THEN Loops
        ELSE IF path[Least(stops)] \in E THEN path[Least(stops)]
        ELSE NULL
  BY DEF Search, Least
<1>6. stops \in SUBSET Nat
  BY Sizes
<1> HIDE DEF path, linked
<1>7. ASSUME NEW i \in 1 .. m, path[i] \in E,
             \A j \in 1 .. m : j < i => path[j] \notin E /\ path[j] # start
      PROVE  Found(start, R) = path[i]
  <2>1. i \in stops /\ \A j \in stops : i <= j
    <3>1. i \in stops
      BY <1>1, <1>7
    <3>2. ASSUME NEW j \in stops, j < i PROVE FALSE
      <4>1. j \in 1 .. m
        BY <1>1, <1>6, <3>2
      <4> QED
        BY <1>7, <3>2, <4>1
    <3>3. \A j \in stops : j \in Nat /\ i \in Nat
      BY <1>1, <1>6
    <3> QED
      BY <3>1, <3>2, <3>3
  <2>2. Least(stops) = i
    BY <1>6, <2>1, LeastIs
  <2>3. ~ (prev[start] = NULL /\ next[start] = NULL)
    <3>1. PICK k \in 1 .. m : s[k] # s[1]
      BY <1>4, <1>7 DEF linked
    <3>2. m > 1
      BY <1>1, <3>1
    <3>3. CASE start = s[p]
      <4>1. prev[start] = IF p = 1 THEN NULL ELSE s[p - 1]
        BY <1>1, <3>3 DEF Represents
      <4>2. p # 1 => p - 1 \in 1 .. m
        BY <1>1
      <4>3. p = 1 => next[start] = s[2] /\ 2 \in 1 .. m
        BY <1>1, <3>2 DEF StartsAt
      <4> QED
        BY <1>1, <4>1, <4>2, <4>3
    <3>4. CASE start # s[p]
      BY <1>1, <3>4 DEF StartsAt
    <3> QED
      BY <3>3, <3>4
  <2>4. path[i] # NULL
    BY <1>4, <1>7 DEF NULL
  <2> HIDE DEF stops, E
  <2>5. stops # {} /\ path[Least(stops)] = path[i]
    BY <2>1, <2>2
  <2>6. Search(start, R) = path[i]
    BY <1>5, <1>7, <2>3, <2>5
  <2> QED
    BY <2>4, <2>6 DEF Found
<1>8. CASE behind # {}
  <2> DEFINE b == Least(behind)
  <2>1. b \in behind /\ \A y \in behind : b <= y
    BY <1>4, <1>8, LeastIs
  <2> HIDE DEF b
  <2>2. PICK j \in 1 .. m : b = s[j]
    BY <1>4, <2>1 DEF linked
  <2>3. p < j
    BY <1>2, <2>1, <2>2
  <2>4. j - p \in 1 .. m /\ path[j - p] = b
    <3>1. j - p \in 1 .. m /\ p + (j - p) = j
      BY <1>1, <2>3
    <3> QED
      BY <1>1, <1>3, <2>2, <3>1 DEF Around
  <2>5. ASSUME NEW k \in 1 .. m, k < j - p PROVE path[k] \notin E /\ path[k] # start
    <3>1. p + k \in 1 .. m /\ p < p + k /\ p + k < j
      BY <1>1, <2>4, <2>5
    <3>2. path[k] = s[p + k]
      BY <1>1, <1>3, <3>1 DEF Around
    <3>3. s[p + k] > start /\ s[p + k] < s[j]
      BY <1>2, <3>1, Increasing DEF Represents
    <3>4. s[p + k] \notin behind
      BY <1>1, <2>1, <2>2, <3>1, <3>3
    <3> QED
      BY <1>1, <3>1, <3>2, <3>3, <3>4
  <2>6. Found(start, R) = b
    BY <1>7, <2>1, <2>4, <2>5
  <2> QED
    BY <1>8, <2>6 DEF Picked, b
<1>9. CASE behind = {} /\ E # {}
  <2> DEFINE b == Least(E)
  <2>1. b \in E /\ \A y \in E : b <= y
    BY <1>4, <1>9, LeastIs
  <2> HIDE DEF b
  <2>2. PICK j \in 1 .. m : b = s[j]
    BY <1>4, <2>1 DEF linked
  <2>3. j <= p
    BY <1>1, <1>2, <1>9, <2>1, <2>2
  <2>4. j - p + m \in 1 .. m /\ path[j - p + m] = b
    <3> DEFINE i == j - p + m
    <3>1. i \in 1 .. m /\ p + i - m = j /\ ~ (p + i <= m)
      BY <1>1, <2>3
    <3> HIDE DEF i
    <3>2. path[i] = s[j]
      BY <1>3, <3>1 DEF Around
    <3> QED
      BY <2>2, <3>1, <3>2 DEF i
  <2>5. ASSUME NEW k \in 1 .. m, k < j - p + m PROVE path[k] \notin E /\ path[k] # start
    <3>1. CASE p + k <= m
      <4>1. p + k \in 1 .. m /\ p < p + k
        BY <1>1, <3>1
      <4>2. path[k] = s[p + k] /\ s[p + k] > start
        BY <1>2, <1>3, <3>1, <4>1 DEF Around
      <4>3. s[p + k] \notin behind
        BY <1>9
      <4> QED
        BY <1>1, <4>1, <4>2, <4>3
    <3>2. CASE ~ (p + k <= m)
      <4> DEFINE q == p + k - m
      <4>1. q \in 1 .. m /\ q < j /\ q # p
        BY <1>1, <2>3, <2>4, <2>5, <3>2
      <4>2. path[k] = s[q]
        BY <1>3, <3>2 DEF Around
      <4> HIDE DEF q
      <4>3. s[q] < s[j]
        BY <4>1, Increasing DEF Represents
      <4>4. s[q] # start
        BY <1>2, <4>1
      <4>5. s[q] \notin E
        BY <1>1, <2>1, <2>2, <4>1, <4>3
      <4> QED
        BY <4>2, <4>4, <4>5
    <3> QED
      BY <3>1, <3>2
  <2>6. Found(start, R) = b
    BY <1>7, <2>1, <2>4, <2>5
  <2> QED
    BY <1>9, <2>6 DEF Picked, b
<1>10. CASE E = {} /\ start = s[p]
  <2>1. start \in linked /\ behind = {}
    BY <1>1, <1>10 DEF linked
  <2>2. Picked(start, linked, R) = Idle
    BY <1>10, <2>1 DEF Picked
  <2>3. Found(start, R) = Idle
    <3>1. CASE prev[start] = NULL /\ next[start] = NULL
      <4>1. p = 1
        <5>1. prev[start] = IF p = 1 THEN NULL ELSE s[p - 1]
          BY <1>1, <1>10 DEF Represents
        <5>2. p # 1 => p - 1 \in 1 .. m
          BY <1>1
        <5> QED
          BY <1>1, <3>1, <5>1, <5>2
      <4> QED
        BY <1>5, <1>10, <3>1, <4>1 DEF Found, Idle, NULL
    <3>2. CASE ~ (prev[start] = NULL /\ next[start] = NULL)
      <4>1. path[m] = start
        BY <1>1, <1>3, <1>10 DEF Around
      <4>2. m \in stops
        BY <1>1, <4>1
      <4>3. Search(start, R) = NULL
        BY <1>5, <1>10, <3>2, <4>2
      <4> QED
        BY <4>3 DEF Found
    <3> QED
      BY <3>1, <3>2
  <2> QED
    BY <2>2, <2>3 DEF linked
<1>11. CASE E = {} /\ start # s[p]
  <2>1. start \notin linked /\ behind = {}
    BY <1>2, <1>11 DEF linked
  <2>2. Picked(start, linked, R) = Loops
    BY <1>11, <2>1 DEF Picked
  <2>3. prev[start] # NULL
    BY <1>1, <1>11 DEF StartsAt
  <2>4. path[0] = start /\ \A i \in 1 .. 2 * MaxTasks : path[i] = Succ(path[i - 1])
    BY PathIs DEF path
  <2>5. Succ(start) \in linked
    <3>1. 1 \in 1 .. m /\ head = s[1] /\ (p < m => p + 1 \in 1 .. m)
      BY <1>1 DEF Represents
    <3> QED
      BY <1>1, <3>1 DEF Succ, StartsAt, linked
  <2>6. ASSUME NEW t \in linked PROVE Succ(t) \in linked
    <3>1. PICK j \in 1 .. m : t = s[j]
      BY <2>6 DEF linked
    <3>2. next[t] = IF j = m THEN NULL ELSE s[j + 1]
      BY <3>1 DEF Represents
    <3>3. 1 \in 1 .. m /\ head = s[1] /\ (j # m => j + 1 \in 1 .. m)
      BY <1>1, <3>1 DEF Represents
    <3> QED
      BY <1>1, <3>2, <3>3 DEF Succ, linked
  <2>7. ASSUME NEW i \in 1 .. 2 * MaxTasks, path[i] \notin linked PROVE FALSE
    <3> DEFINE S == {k \in 1 .. 2 * MaxTasks : path[k] \notin linked}
    <3>1. PICK k \in S : \A l \in S : k <= l
      <4>1. S \in SUBSET Nat /\ S # {}
        BY <2>7, Sizes
      <4> HIDE DEF S
      <4> QED
        BY <4>1, LeastElement
    <3>2. CASE k = 1
      BY <2>4, <2>5, <3>1, <3>2
    <3>3. CASE k # 1
      <4>1. k - 1 \in 1 .. 2 * MaxTasks /\ ~ (k <= k - 1) /\ k \in 1 .. 2 * MaxTasks
        BY <3>1, <3>3, Sizes
      <4>2. path[k - 1] \in linked
        BY <3>1, <4>1
      <4>3. path[k] \in linked
        BY <2>4, <2>6, <4>1, <4>2
      <4> QED
        BY <3>1, <4>3
    <3> QED
      BY <3>2, <3>3
  <2>8. stops = {}
    BY <1>11, <2>1, <2>7
  <2>9. Search(start, R) = Loops
    BY <1>5, <2>3, <2>8
  <2> QED
    BY <2>2, <2>9 DEF Found, Loops, NULL, linked
<1> QED
  BY <1>8, <1>9, <1>10, <1>11 DEF linked

\* The search of get_next_runnable_task() through the pointers finds what Sched
\* picks from the set of linked tasks: the first runnable task behind the start,
\* else the first runnable one, else the idle task; also from the task that was
\* just removed, through its stale pointers, and only from there it loops when no
\* task can run.
THEOREM TaskListSearch == Spec => []SearchAgrees
<1>1. ASSUME ListInv PROVE SearchAgrees
  <2> DEFINE s == Linked
  <2>1. Listed(s) /\ LinkedSet = {s[j] : j \in 1 .. Len(s)}
    BY <1>1 DEF ListInv, LinkedSet
  <2>2. Represents(s) /\ (s # <<>> => s[1] = Idle)
    BY <2>1 DEF Listed
  <2> HIDE DEF s
  <2>3. /\ s \in Seq(Task) /\ Len(s) \in Nat
        /\ \A i, j \in 1 .. Len(s) : i < j => s[i] < s[j]
    BY <2>2, Increasing DEF Represents
  <2>4. ASSUME NEW start \in LinkedSet \cup ({exiting} \ {NULL}), NEW R \in SUBSET LinkedSet
        PROVE  Found(start, R) = Picked(start, LinkedSet, R)
    <3>1. \E p : StartsAt(s, p, start)
      <4>1. CASE start \in LinkedSet
        <5>1. PICK p \in 1 .. Len(s) : start = s[p]
          BY <2>1, <4>1
        <5>2. next[start] = IF p = Len(s) THEN NULL ELSE s[p + 1]
          BY <2>2, <5>1 DEF Represents
        <5> QED
          BY <2>3, <5>1, <5>2 DEF StartsAt
      <4>2. CASE start = exiting /\ exiting # NULL
        <5>1. PICK p \in 1 .. Len(s) : Stale(s, p)
          BY <2>1, <4>2 DEF Listed
        <5>2. exiting \in Task
          BY <1>1, <4>2 DEF ListInv
        <5>3. ASSUME NEW j \in 1 .. Len(s), p < j PROVE start < s[j]
          <6>1. p + 1 \in 1 .. Len(s) /\ start < s[p + 1]
            BY <2>3, <4>2, <5>1, <5>3 DEF Stale
          <6>2. j = p + 1 \/ s[p + 1] < s[j]
            BY <2>3, <5>3, <6>1
          <6>3. start \in Nat /\ s[j] \in Nat /\ s[p + 1] \in Nat
            BY <2>3, <4>2, <5>2, <6>1, Sizes
          <6> QED
            BY <6>1, <6>2, <6>3
        <5> QED
          BY <2>3, <4>2, <5>1, <5>2, <5>3 DEF StartsAt, Stale
      <4> QED
        BY <2>4, <4>1, <4>2
    <3>2. PICK p : StartsAt(s, p, start)
      BY <3>1
    <3>3. s # <<>>
      BY <2>3, <3>2 DEF StartsAt
    <3> QED
      BY <2>1, <2>2, <3>2, <3>3, SearchFinds
  <2> QED
    BY <2>4 DEF SearchAgrees, Picked, Least
<1> QED
  BY <1>1, ListInvariant, PTL
============================================================================
