------------------------------ MODULE VfsProofs ------------------------------
(***************************************************************************)
(* Proofs about Vfs, for any machine, any volumes by the formats and any   *)
(* number of slots.                                                        *)
(*                                                                         *)
(* TableInv is the inductive invariant.  A name stands for one mount only  *)
(* because mounts fill the table from the front (FirstSlotsUsed): a remount*)
(* takes the first slot that is free or has the name, and must not take a  *)
(* free one in front of the mount it is meant for.  That a file system is  *)
(* not taken away under its mounts needs the count of every system, also   *)
(* of those nothing is mounted with (Counted).  Paths begin at the copy of *)
(* a supernode, which is given the mount of the path: so a root is that of *)
(* its slot (RootTagged), whichever mount wrote to the supernode last.     *)
(*                                                                         *)
(* BootedInv adds the devices (BootInv: the file of the n-th device is the *)
(* n-th of devfs, as long as there is room, and what every initialised     *)
(* drive leads to is in the list) and what the slots hold (SlotInv: devfs  *)
(* stays in the first, because no mount is given its name).  Together they *)
(* lead from the name of a device to the device (DevicesAreReachable), and *)
(* with the arithmetic of a drive's sectors, where a partition is told from*)
(* its drive by its minor number, to the bytes on it (BlockReadsRight).    *)
(*                                                                         *)
(* MountedInv adds VolumeInv: what is mounted from a device was made after *)
(* booting, from a device in the list that holds a volume of that system.  *)
(* So it is formatted, and what follows is about the format: that the      *)
(* clusters fat12_get_next_cluster leads to, in the FAT that is left in    *)
(* memory, are those of the file or directory, that the pieces of a read   *)
(* cover it, and that a search stops at no entry before the one it is for. *)
(* What is left of the FAT is counted in bytes (LossInv): the buffers that *)
(* finddir and readdir allocate may only take from it.                     *)
(* The recursive functions of the model (Skipped, FindInChain, FatEntries, *)
(* FlattenSeq) are CHOOSE expressions to the provers: for each one a lemma *)
(* says that a function with its equation exists.                          *)
(***************************************************************************)
EXTENDS Vfs, FiniteSetTheorems, SequenceTheorems, NumberLemmas, TLAPS

MountRecord(m) ==
  /\ m = [enabled |-> m.enabled, name |-> m.name, system |-> m.system,
          dev |-> m.dev, root |-> m.root, heap |-> m.heap, lost |-> m.lost]
  /\ m.enabled \in BOOLEAN

SystemRecord(s) ==
  /\ s = [enabled |-> s.enabled, tag |-> s.tag, count |-> s.count]
  /\ s.enabled \in BOOLEAN /\ s.count \in Nat

\* The mounts of a system.
MountsOf(k) == {j \in Mounted : mounts[j].system = k}

FirstSlotsUsed ==
  \A i, j \in Slots(MountSlots) :
    i < j /\ mounts[j].enabled => mounts[i].enabled

Counted ==
  \A k \in Slots(SystemSlots) : Cardinality(MountsOf(k)) <= systems[k].count

SystemsThere ==
  \A i \in Mounted : /\ mounts[i].system \in Slots(SystemSlots)
                     /\ systems[mounts[i].system].enabled

RootTagged ==
  \A i \in Mounted : mounts[i].root # Nothing => mounts[i].root = Tag(mounts[i])

NamesUnique ==
  \A i, j \in Mounted : mounts[i].name = mounts[j].name => i = j

TablesTyped ==
  /\ DOMAIN mounts = Slots(MountSlots) /\ DOMAIN systems = Slots(SystemSlots)
  /\ \A i \in Slots(MountSlots) : MountRecord(mounts[i])
  /\ \A k \in Slots(SystemSlots) : SystemRecord(systems[k])

TableInv ==
  /\ TablesTyped
  /\ FirstSlotsUsed
  /\ SystemsThere
  /\ Counted
  /\ NamesUnique
  /\ RootTagged

----------------------------------------------------------------------------
(* Operators *)

\* The slot a search returns is in the set it searches, and the first one.
LEMMA MinIsFirst ==
  ASSUME NEW S \in SUBSET Nat, S # {}
  PROVE  Min(S) \in S /\ \A j \in S : Min(S) <= j
BY LeastElement DEF Min

\* Slots are numbers.
LEMMA SlotsAreNumbers ==
  ASSUME NEW n \in Nat PROVE Slots(n) \subseteq Nat \ {0} /\ IsFiniteSet(Slots(n))
BY FS_Interval DEF Slots

\* An allocation changes what is lost of a FAT and nothing else of a mount.
LEMMA OverwrittenKeeps ==
  ASSUME NEW m, MountRecord(m), NEW use
  PROVE  LET new == Overwritten(m, use)
         IN  /\ MountRecord(new)
             /\ new.enabled = m.enabled /\ new.name = m.name /\ new.system = m.system
             /\ new.dev = m.dev /\ new.root = m.root
BY DEF MountRecord, Overwritten

\* The system found by its tag is enabled.
LEMMA SystemOfEnabled ==
  ASSUME TableInv, NEW tag, SystemOf(tag) # 0
  PROVE  SystemOf(tag) \in Slots(SystemSlots) /\ systems[SystemOf(tag)].enabled
<1> DEFINE found == {i \in DOMAIN systems : systems[i].enabled /\ systems[i].tag = tag}
<1>1. found \in SUBSET Nat /\ found \subseteq Slots(SystemSlots)
  BY SlotsAreNumbers, VfsAssumption DEF TableInv, TablesTyped
<1>2. found # {} /\ SystemOf(tag) = Min(found)
  BY DEF SystemOf
<1>3. SystemOf(tag) \in found
  BY <1>1, <1>2, MinIsFirst
<1> QED
  BY <1>1, <1>3

\* A mount goes into the first slot that is free or, if it is a remount, has
\* the name.
LEMMA SlotForIsFirst ==
  ASSUME TableInv, NEW name, NEW remount \in BOOLEAN, SlotFor(name, remount) # 0
  PROVE  LET slot == SlotFor(name, remount)
         IN  /\ slot \in Slots(MountSlots)
             /\ mounts[slot].enabled => remount /\ mounts[slot].name = name
             /\ \A i \in Slots(MountSlots) :
                  ~ mounts[i].enabled \/ (remount /\ mounts[i].name = name)
                  => slot <= i
<1> DEFINE slots == {i \in DOMAIN mounts : \/ ~ mounts[i].enabled
                                           \/ remount /\ mounts[i].name = name}
<1>1. slots \in SUBSET Nat /\ slots \subseteq Slots(MountSlots)
  BY SlotsAreNumbers, VfsAssumption DEF TableInv, TablesTyped
<1>2. slots # {} /\ SlotFor(name, remount) = Min(slots)
  BY DEF SlotFor
<1>3. /\ SlotFor(name, remount) \in slots
      /\ \A i \in slots : SlotFor(name, remount) <= i
  BY <1>1, <1>2, MinIsFirst
<1>4. DOMAIN mounts = Slots(MountSlots)
  BY DEF TableInv, TablesTyped
<1> QED
  BY <1>3, <1>4

\* The mounts of a system are finitely many.
LEMMA MountsOfFinite ==
  ASSUME DOMAIN mounts = Slots(MountSlots), NEW k
  PROVE  /\ IsFiniteSet(MountsOf(k)) /\ Cardinality(MountsOf(k)) \in Nat
         /\ MountsOf(k) \subseteq Slots(MountSlots)
<1>1. MountsOf(k) \in SUBSET Slots(MountSlots)
  BY DEF MountsOf, Mounted
<1>2. IsFiniteSet(Slots(MountSlots))
  BY SlotsAreNumbers, VfsAssumption
<1> QED
  BY <1>1, <1>2, FS_Subset, FS_CardinalityType

----------------------------------------------------------------------------
(* Steps *)

\* An allocation, or a step that leaves both tables alone.
LEMMA SameMountsKeep ==
  ASSUME TableInv, UNCHANGED systems, DOMAIN mounts' = DOMAIN mounts,
         \A i \in Slots(MountSlots) :
           /\ MountRecord(mounts'[i])
           /\ mounts'[i].enabled = mounts[i].enabled
           /\ mounts'[i].name = mounts[i].name
           /\ mounts'[i].system = mounts[i].system
           /\ mounts'[i].dev = mounts[i].dev /\ mounts'[i].root = mounts[i].root
  PROVE  TableInv'
<1>1. TablesTyped'
  BY DEF TableInv, TablesTyped
<1>2. DOMAIN mounts = Slots(MountSlots) /\ Mounted' = Mounted
      /\ Mounted \subseteq Slots(MountSlots)
  BY DEF TableInv, TablesTyped, Mounted
<1>3. FirstSlotsUsed' /\ SystemsThere' /\ NamesUnique'
  BY <1>2 DEF TableInv, FirstSlotsUsed, SystemsThere, NamesUnique
<1>4. \A k \in Slots(SystemSlots) : MountsOf(k)' = MountsOf(k)
  BY <1>2 DEF MountsOf
<1>5. Counted'
  BY <1>4 DEF TableInv, Counted
<1>6. RootTagged'
  BY <1>2 DEF TableInv, RootTagged, Tag
<1> QED
  BY <1>1, <1>3, <1>5, <1>6 DEF TableInv

LEMMA AllocateKeeps ==
  ASSUME TableInv, NEW n, Allocate(n) PROVE TableInv'
<1>1. /\ mounts' = [i \in DOMAIN mounts |-> Overwritten(mounts[i], Block(n))]
      /\ UNCHANGED systems
  BY DEF Allocate
<1>2. DOMAIN mounts = Slots(MountSlots)
      /\ \A i \in Slots(MountSlots) : MountRecord(mounts[i])
  BY DEF TableInv, TablesTyped
<1> QED
  BY <1>1, <1>2, OverwrittenKeeps, SameMountsKeep

LEMMA UnchangedTablesKeep ==
  ASSUME TableInv, UNCHANGED <<systems, mounts>> PROVE TableInv'
BY SameMountsKeep DEF TableInv, TablesTyped

\* A system is registered in a slot that is not used: no mount has it.
LEMMA RegisterFilesystemKeeps ==
  ASSUME TableInv, NEW tag, RegisterFilesystem(tag) PROVE TableInv'
<1> DEFINE free == {i \in DOMAIN systems : ~ systems[i].enabled}
           s    == Min(free)
           fresh == [enabled |-> TRUE, tag |-> tag, count |-> 0]
<1>1. /\ free # {} /\ UNCHANGED mounts
      /\ systems' = [systems EXCEPT ![s] = fresh]
  BY DEF RegisterFilesystem
<1>2. DOMAIN systems = Slots(SystemSlots) /\ DOMAIN mounts = Slots(MountSlots)
  BY DEF TableInv, TablesTyped
<1>3. free \in SUBSET Nat
  BY <1>2, SlotsAreNumbers, VfsAssumption
<1>4. s \in free
  BY <1>1, <1>3, MinIsFirst
<1> HIDE DEF s
<1>5. s \in Slots(SystemSlots) /\ ~ systems[s].enabled
  BY <1>2, <1>4
<1>6. /\ DOMAIN systems' = Slots(SystemSlots) /\ systems'[s] = fresh
      /\ \A k \in Slots(SystemSlots) : k # s => systems'[k] = systems[k]
  BY <1>1, <1>2, <1>5
<1>7. SystemRecord(fresh)
  BY DEF SystemRecord
<1>8. TablesTyped'
  BY <1>1, <1>6, <1>7 DEF TableInv, TablesTyped
<1>9. Mounted' = Mounted /\ FirstSlotsUsed' /\ NamesUnique'
  BY <1>1 DEF TableInv, Mounted, FirstSlotsUsed, NamesUnique
<1>10. \A i \in Mounted : mounts[i].system # s
  BY <1>5 DEF TableInv, SystemsThere
<1>11. SystemsThere'
  BY <1>1, <1>6, <1>9, <1>10 DEF TableInv, SystemsThere
<1>12. RootTagged'
  BY <1>1, <1>6, <1>9, <1>10 DEF TableInv, SystemsThere, RootTagged, Tag
<1>13. Counted'
  <2>1. \A k \in Slots(SystemSlots) : MountsOf(k)' = MountsOf(k)
    BY <1>1, <1>9 DEF MountsOf
  <2>2. MountsOf(s) = {}
    BY <1>10 DEF MountsOf
  <2>3. Cardinality(MountsOf(s)) = 0
    BY <2>2, FS_EmptySet
  <2> QED
    BY <1>5, <1>6, <2>1, <2>3 DEF TableInv, Counted
<1> QED
  BY <1>8, <1>9, <1>11, <1>12, <1>13 DEF TableInv

\* A system whose count is 0 has no mounts.
LEMMA UnregisterFilesystemKeeps ==
  ASSUME TableInv, NEW tag, UnregisterFilesystem(tag) PROVE TableInv'
<1> DEFINE s == SystemOf(tag)
<1>1. /\ s # 0 /\ systems[s].count = 0 /\ UNCHANGED mounts
      /\ systems' = [systems EXCEPT ![s].enabled = FALSE]
  BY DEF UnregisterFilesystem, MayUnregister
<1>2. DOMAIN systems = Slots(SystemSlots) /\ DOMAIN mounts = Slots(MountSlots)
      /\ \A k \in Slots(SystemSlots) : SystemRecord(systems[k])
  BY DEF TableInv, TablesTyped
<1>3. s \in Slots(SystemSlots)
  BY <1>1, SystemOfEnabled
<1> HIDE DEF s
<1>4. /\ DOMAIN systems' = Slots(SystemSlots)
      /\ systems'[s] = [systems[s] EXCEPT !.enabled = FALSE]
      /\ \A k \in Slots(SystemSlots) : k # s => systems'[k] = systems[k]
  BY <1>1, <1>2, <1>3
<1>5. /\ SystemRecord(systems'[s])
      /\ systems'[s].count = systems[s].count /\ systems'[s].tag = systems[s].tag
  BY <1>2, <1>3, <1>4 DEF SystemRecord
<1>6. TablesTyped'
  BY <1>1, <1>4, <1>5 DEF TableInv, TablesTyped
<1>7. Mounted' = Mounted /\ FirstSlotsUsed' /\ NamesUnique'
  BY <1>1 DEF TableInv, Mounted, FirstSlotsUsed, NamesUnique
<1>8. \A i \in Mounted : mounts[i].system # s
  <2>1. Cardinality(MountsOf(s)) <= 0
    BY <1>1, <1>3 DEF TableInv, Counted
  <2>2. IsFiniteSet(MountsOf(s)) /\ Cardinality(MountsOf(s)) \in Nat
    BY <1>2, MountsOfFinite
  <2>3. Cardinality(MountsOf(s)) = 0
    BY <2>1, <2>2
  <2>4. MountsOf(s) = {}
    BY <2>2, <2>3, FS_EmptySet
  <2> QED
    BY <2>4 DEF MountsOf
<1>9. SystemsThere'
  BY <1>1, <1>4, <1>7, <1>8 DEF TableInv, SystemsThere
<1>10. RootTagged'
  BY <1>1, <1>4, <1>7, <1>8 DEF TableInv, SystemsThere, RootTagged, Tag
<1>11. Counted'
  <2>1. \A k \in Slots(SystemSlots) : MountsOf(k)' = MountsOf(k)
    BY <1>1, <1>7 DEF MountsOf
  <2>2. \A k \in Slots(SystemSlots) : systems'[k].count = systems[k].count
    BY <1>4, <1>5
  <2> QED
    BY <2>1, <2>2 DEF TableInv, Counted
<1> QED
  BY <1>6, <1>7, <1>9, <1>10, <1>11 DEF TableInv

\* A slot that a mount leaves, whether it worked or not.
LEMMA MountedInRecord ==
  ASSUME NEW old, MountRecord(old), NEW name, NEW sys, NEW dev, NEW ok \in BOOLEAN
  PROVE  LET new == MountedIn(old, name, sys, dev, ok)
         IN  /\ MountRecord(new)
             /\ new.enabled = (old.enabled \/ ok) /\ new.name = name
             /\ new.system = sys /\ new.dev = dev
             /\ new.root = IF ok THEN systems[sys].tag ELSE Nothing
<1> DEFINE new == MountedIn(old, name, sys, dev, ok)
           root == IF ok THEN systems[sys].tag ELSE Nothing
<1>1. DOMAIN old = {"enabled", "name", "system", "dev", "root", "heap", "lost"}
  BY DEF MountRecord
<1>2. new = [old EXCEPT !.enabled = old.enabled \/ ok, !.name = name, !.system = sys,
                        !.dev = dev, !.root = root, !.heap = 0, !.lost = 0]
  BY DEF MountedIn
<1> HIDE DEF new, root
<1>3. /\ DOMAIN new = {"enabled", "name", "system", "dev", "root", "heap", "lost"}
      /\ new.name = name /\ new.system = sys /\ new.dev = dev /\ new.root = root
  BY <1>1, <1>2
<1>4. new.enabled = (old.enabled \/ ok)
  BY <1>1, <1>2
<1>5. new = [enabled |-> new.enabled, name |-> new.name, system |-> new.system,
             dev |-> new.dev, root |-> new.root, heap |-> new.heap,
             lost |-> new.lost]
  BY <1>1, <1>2
<1>6. new.enabled \in BOOLEAN
  BY <1>4
<1> QED
  BY <1>3, <1>4, <1>5, <1>6 DEF MountRecord, new, root

\* sys_mount: the slot it writes to is the first free one, or the mount of that
\* name; whether it works or not, the count of the system grows.
LEMMA MountKeeps ==
  ASSUME TableInv, NEW file, NEW tag, NEW name, NEW remount \in BOOLEAN,
         Mount(file, tag, name, remount)
  PROVE  TableInv'
<1> DEFINE sys  == SystemOf(tag)
           slot == SlotFor(name, remount)
<1>1. /\ sys # 0 /\ slot # 0
      /\ (\E i \in Mounted : mounts[i].name = name) => remount
      /\ systems' = [systems EXCEPT ![sys].count = @ + 1]
  BY DEF Mount, MountsNamed
<1>2. PICK dev :
        mounts' = [[i \in DOMAIN mounts |-> Overwritten(mounts[i], MountUses(tag, dev))]
                     EXCEPT ![slot] = MountedIn(mounts[slot], name, sys, dev, CanMount(tag, dev))]
  BY DEF Mount
<1> DEFINE ok   == CanMount(tag, dev)
           new  == MountedIn(mounts[slot], name, sys, dev, ok)
           kept == [i \in DOMAIN mounts |-> Overwritten(mounts[i], MountUses(tag, dev))]
<1>3. sys \in Slots(SystemSlots) /\ systems[sys].enabled
  BY <1>1, SystemOfEnabled
<1>4. /\ slot \in Slots(MountSlots)
      /\ mounts[slot].enabled => remount /\ mounts[slot].name = name
      /\ \A i \in Slots(MountSlots) :
           ~ mounts[i].enabled \/ (remount /\ mounts[i].name = name) => slot <= i
  BY <1>1, SlotForIsFirst
<1>5. /\ DOMAIN mounts = Slots(MountSlots) /\ DOMAIN systems = Slots(SystemSlots)
      /\ \A i \in Slots(MountSlots) : MountRecord(mounts[i])
      /\ \A k \in Slots(SystemSlots) : SystemRecord(systems[k])
      /\ Slots(MountSlots) \subseteq Nat
  BY SlotsAreNumbers, VfsAssumption DEF TableInv, TablesTyped
<1>6. ok \in BOOLEAN
  BY DEF CanMount, FatMounts, ReadsSector, Ext2Mounts, ReadsBlock
<1> HIDE DEF ok, sys, slot
<1>7. /\ DOMAIN mounts' = Slots(MountSlots) /\ mounts'[slot] = new
      /\ \A i \in Slots(MountSlots) : i # slot => mounts'[i] = kept[i]
  BY <1>2, <1>4, <1>5 DEF ok
<1>8. \A i \in Slots(MountSlots) : i # slot =>
        /\ MountRecord(mounts'[i])
        /\ mounts'[i].enabled = mounts[i].enabled /\ mounts'[i].name = mounts[i].name
        /\ mounts'[i].system = mounts[i].system
        /\ mounts'[i].dev = mounts[i].dev /\ mounts'[i].root = mounts[i].root
  BY <1>5, <1>7, OverwrittenKeeps
<1>9. /\ MountRecord(mounts'[slot])
      /\ mounts'[slot].enabled = (mounts[slot].enabled \/ ok)
      /\ mounts'[slot].name = name
      /\ mounts'[slot].system = sys /\ mounts'[slot].dev = dev
      /\ mounts'[slot].root = IF ok THEN systems[sys].tag ELSE Nothing
  BY <1>4, <1>5, <1>6, <1>7, MountedInRecord
<1> HIDE DEF new, kept
<1>10. /\ DOMAIN systems' = Slots(SystemSlots)
       /\ systems'[sys] = [systems[sys] EXCEPT !.count = @ + 1]
       /\ \A k \in Slots(SystemSlots) : k # sys => systems'[k] = systems[k]
  BY <1>1, <1>3, <1>5
<1>11. /\ SystemRecord(systems'[sys])
       /\ systems'[sys].count = systems[sys].count + 1
       /\ systems'[sys].enabled = systems[sys].enabled
       /\ systems'[sys].tag = systems[sys].tag
  <2>1. SystemRecord(systems[sys])
    BY <1>3, <1>5
  <2>2. systems'[sys] = [enabled |-> systems[sys].enabled, tag |-> systems[sys].tag,
                         count |-> systems[sys].count + 1]
    BY <1>10, <2>1 DEF SystemRecord
  <2>3. systems[sys].count + 1 \in Nat /\ systems[sys].enabled \in BOOLEAN
    BY <2>1 DEF SystemRecord
  <2> QED
    BY <2>2, <2>3 DEF SystemRecord
<1>12. \A k \in Slots(SystemSlots) :
         systems'[k].enabled = systems[k].enabled /\ systems'[k].tag = systems[k].tag
  BY <1>10, <1>11
<1>13. TablesTyped'
  <2>1. \A i \in Slots(MountSlots) : MountRecord(mounts'[i])
    BY <1>8, <1>9
  <2>2. \A k \in Slots(SystemSlots) : SystemRecord(systems'[k])
    BY <1>5, <1>10, <1>11
  <2> QED
    BY <1>7, <1>10, <2>1, <2>2 DEF TablesTyped
<1>14. /\ Mounted \subseteq Slots(MountSlots) /\ Mounted' \subseteq Slots(MountSlots)
       /\ \A i \in Slots(MountSlots) : i # slot => (i \in Mounted' <=> i \in Mounted)
  BY <1>5, <1>7, <1>8 DEF Mounted
<1>15. FirstSlotsUsed'
  <2> SUFFICES ASSUME NEW i \in Slots(MountSlots), NEW j \in Slots(MountSlots),
                      i < j, mounts'[j].enabled
               PROVE  mounts'[i].enabled
    BY DEF FirstSlotsUsed
  <2>1. CASE j = slot
    <3>1. i # slot /\ ~(slot <= i)
      BY <1>5, <2>1
    <3>2. mounts[i].enabled
      BY <1>4, <1>5, <3>1 DEF MountRecord
    <3> QED
      BY <1>8, <3>1, <3>2
  <2>2. CASE j # slot
    <3>1. mounts[j].enabled
      BY <1>8, <2>2
    <3>2. mounts[i].enabled
      BY <3>1 DEF TableInv, FirstSlotsUsed
    <3> QED
      BY <1>8, <1>9, <3>2
  <2> QED
    BY <2>1, <2>2
<1>16. SystemsThere'
  <2> SUFFICES ASSUME NEW i \in Mounted'
               PROVE  /\ mounts'[i].system \in Slots(SystemSlots)
                      /\ systems'[mounts'[i].system].enabled
    BY DEF SystemsThere
  <2>1. CASE i = slot
    BY <1>3, <1>9, <1>12, <2>1
  <2>2. CASE i # slot
    BY <1>8, <1>12, <1>14, <2>2 DEF TableInv, SystemsThere
  <2> QED
    BY <2>1, <2>2
<1>17. NamesUnique'
  <2>1. ASSUME NEW j \in Mounted', j # slot, mounts'[j].name = name,
               slot \in Mounted'
        PROVE  FALSE
    <3>1. j \in Mounted /\ j \in Slots(MountSlots) /\ mounts[j].name = name
      BY <1>8, <1>14, <2>1
    <3>2. remount /\ slot <= j
      BY <1>1, <1>4, <3>1
    <3>3. slot < j /\ mounts[j].enabled
      BY <1>4, <1>5, <2>1, <3>1, <3>2 DEF Mounted
    <3>4. mounts[slot].enabled
      BY <1>4, <3>1, <3>3 DEF TableInv, FirstSlotsUsed
    <3>5. slot \in Mounted /\ mounts[slot].name = name
      BY <1>4, <1>5, <3>4 DEF Mounted
    <3> QED
      BY <2>1, <3>1, <3>5 DEF TableInv, NamesUnique
  <2> SUFFICES ASSUME NEW i \in Mounted', NEW j \in Mounted',
                      mounts'[i].name = mounts'[j].name
               PROVE  i = j
    BY DEF NamesUnique
  <2>2. CASE i # slot /\ j # slot
    BY <1>8, <1>14, <2>2 DEF TableInv, NamesUnique
  <2>3. CASE i = slot \/ j = slot
    BY <1>9, <2>1, <2>3
  <2> QED
    BY <2>2, <2>3
<1>18. Counted'
  <2> SUFFICES ASSUME NEW k \in Slots(SystemSlots)
               PROVE  Cardinality(MountsOf(k)') <= systems'[k].count
    BY DEF Counted
  <2>1. Cardinality(MountsOf(k)) <= systems[k].count /\ systems[k].count \in Nat
    BY <1>5 DEF TableInv, Counted, SystemRecord
  <2>2. IsFiniteSet(MountsOf(k)) /\ Cardinality(MountsOf(k)) \in Nat
    BY <1>5, MountsOfFinite
  <2>3. CASE k = sys
    <3>1. MountsOf(k)' \subseteq MountsOf(k) \cup {slot}
      BY <1>8, <1>14 DEF MountsOf
    <3>2. /\ IsFiniteSet(MountsOf(k) \cup {slot})
          /\ Cardinality(MountsOf(k) \cup {slot}) <= Cardinality(MountsOf(k)) + 1
      BY <2>2, FS_AddElement, SMTT(40)
    <3>3. /\ IsFiniteSet(MountsOf(k)')
          /\ Cardinality(MountsOf(k)') <= Cardinality(MountsOf(k) \cup {slot})
      BY <3>1, <3>2, FS_Subset
    <3>4. Cardinality(MountsOf(k) \cup {slot}) \in Nat /\ Cardinality(MountsOf(k)') \in Nat
      BY <3>2, <3>3, FS_CardinalityType
    <3> QED
      BY <1>11, <2>1, <2>2, <2>3, <3>2, <3>3, <3>4
  <2>4. CASE k # sys
    <3>1. MountsOf(k)' \subseteq MountsOf(k)
      BY <1>8, <1>9, <1>14, <2>4 DEF MountsOf
    <3>2. /\ IsFiniteSet(MountsOf(k)')
          /\ Cardinality(MountsOf(k)') <= Cardinality(MountsOf(k))
      BY <2>2, <3>1, FS_Subset
    <3>3. Cardinality(MountsOf(k)') \in Nat
      BY <3>2, FS_CardinalityType
    <3> QED
      BY <1>10, <2>1, <2>2, <2>4, <3>2, <3>3
  <2> QED
    BY <2>3, <2>4
<1>19. RootTagged'
  <2> SUFFICES ASSUME NEW i \in Mounted', mounts'[i].root # Nothing
               PROVE  mounts'[i].root = systems'[mounts'[i].system].tag
    BY DEF RootTagged, Tag
  <2>1. CASE i = slot
    BY <1>3, <1>9, <1>12, <2>1
  <2>2. CASE i # slot
    <3>1. i \in Mounted /\ i \in Slots(MountSlots)
      BY <1>14, <2>2
    <3>2. mounts[i].system \in Slots(SystemSlots)
      BY <3>1 DEF TableInv, SystemsThere
    <3>3. mounts[i].root = systems[mounts[i].system].tag
      BY <1>8, <2>2, <3>1 DEF TableInv, RootTagged, Tag
    <3> QED
      BY <1>8, <1>12, <2>2, <3>1, <3>2, <3>3
  <2> QED
    BY <2>1, <2>2
<1> QED
  BY <1>13, <1>15, <1>16, <1>17, <1>18, <1>19 DEF TableInv

----------------------------------------------------------------------------
(* The specification *)

\* The four systems of the kernel are there, and devfs is mounted.
LEMMA InitTables == Init => TableInv
<1> SUFFICES ASSUME Init PROVE TableInv
  OBVIOUS
<1> DEFINE first == [NoMount EXCEPT !.enabled = TRUE, !.name = "DEVICE", !.system = 2,
                                    !.root = "devfs"]
           system(e, t, c) == [enabled |-> e, tag |-> t, count |-> c]
           systemAt(k) == CASE k = 1 -> system(TRUE, "cybfs", 0)
                            [] k = 2 -> system(TRUE, "devfs", 1)
                            [] k = 3 -> system(TRUE, "fat12", 0)
                            [] k = 4 -> system(TRUE, "ext2", 0)
                            [] OTHER -> NoSystem
<1>1. /\ systems = [k \in Slots(SystemSlots) |-> systemAt(k)]
      /\ mounts = [i \in Slots(MountSlots) |-> IF i = 1 THEN first ELSE NoMount]
  BY DEF Init
<1>2. 1 \in Slots(MountSlots) /\ 2 \in Slots(SystemSlots)
      /\ Slots(MountSlots) \subseteq Nat \ {0} /\ Slots(SystemSlots) \subseteq Nat \ {0}
  BY VfsAssumption DEF Slots
<1>3. systemAt(2) = system(TRUE, "devfs", 1)
  OBVIOUS
<1>4. ASSUME NEW k \in Nat
      PROVE  SystemRecord(systemAt(k))
  <2>1. CASE k = 1
    BY <2>1 DEF SystemRecord
  <2>2. CASE k = 2
    BY <2>2 DEF SystemRecord
  <2>3. CASE k = 3
    BY <2>3 DEF SystemRecord
  <2>4. CASE k = 4
    BY <2>4 DEF SystemRecord
  <2>5. CASE k \notin {1, 2, 3, 4}
    BY <2>5 DEF SystemRecord, NoSystem
  <2> QED
    BY <2>1, <2>2, <2>3, <2>4, <2>5
<1> HIDE DEF systemAt
<1>5. first = [enabled |-> TRUE, name |-> "DEVICE", system |-> 2, dev |-> Nothing,
               root |-> "devfs", heap |-> 0, lost |-> 0]
  <2> DEFINE root == "devfs"
             yes  == TRUE
             no   == FALSE
  <2>1. first = [NoMount EXCEPT !.enabled = yes, !.name = "DEVICE", !.system = 2,
                                !.root = root]
    OBVIOUS
  <2>2. NoMount = [enabled |-> no, name |-> Nothing, system |-> 0, dev |-> Nothing,
                   root |-> Nothing, heap |-> 0, lost |-> 0]
    BY DEF NoMount
  <2> HIDE DEF root, yes, no, first
  <2>3. first = [enabled |-> yes, name |-> "DEVICE", system |-> 2, dev |-> Nothing,
                 root |-> root, heap |-> 0, lost |-> 0]
    BY <2>1, <2>2
  <2> QED
    BY <2>3 DEF root, yes
<1> HIDE DEF first
<1>6. /\ DOMAIN mounts = Slots(MountSlots) /\ DOMAIN systems = Slots(SystemSlots)
      /\ mounts[1] = first
      /\ \A i \in Slots(MountSlots) : i # 1 => mounts[i] = NoMount
      /\ \A k \in Slots(SystemSlots) : systems[k] = systemAt(k)
      /\ systems[2] = system(TRUE, "devfs", 1)
  BY <1>1, <1>2, <1>3
<1>7. TablesTyped
  <2>1. \A k \in Slots(SystemSlots) : SystemRecord(systems[k])
    BY <1>2, <1>4, <1>6
  <2>2. MountRecord(first) /\ MountRecord(NoMount)
    BY <1>5 DEF MountRecord, NoMount
  <2>3. \A i \in Slots(MountSlots) : MountRecord(mounts[i])
    BY <1>6, <2>2
  <2> QED
    BY <1>6, <2>1, <2>3 DEF TablesTyped
<1>8. /\ mounts[1].enabled /\ mounts[1].system = 2 /\ mounts[1].dev = Nothing
      /\ mounts[1].root = "devfs"
      /\ \A i \in Slots(MountSlots) : i # 1 => ~ mounts[i].enabled
  BY <1>5, <1>6 DEF NoMount
<1>9. Mounted = {1}
  BY <1>2, <1>6, <1>8 DEF Mounted
<1>10. FirstSlotsUsed
  BY <1>2, <1>8 DEF FirstSlotsUsed
<1>11. SystemsThere /\ NamesUnique
  BY <1>2, <1>9, <1>6, <1>8 DEF SystemsThere, NamesUnique
<1>12. RootTagged
  BY <1>9, <1>6, <1>8 DEF RootTagged, Tag
<1>13. Counted
  <2> SUFFICES ASSUME NEW k \in Slots(SystemSlots)
               PROVE  Cardinality(MountsOf(k)) <= systems[k].count
    BY DEF Counted
  <2>1. CASE k = 2
    <3>1. MountsOf(k) = {1}
      BY <1>9, <1>8, <2>1 DEF MountsOf
    <3>2. Cardinality(MountsOf(k)) = 1
      BY <3>1, FS_Singleton
    <3>3. systems[k].count = 1
      BY <1>6, <2>1
    <3> QED
      BY <3>2, <3>3
  <2>2. CASE k # 2
    <3>1. MountsOf(k) = {}
      BY <1>9, <1>8, <2>2 DEF MountsOf
    <3>2. Cardinality(MountsOf(k)) = 0
      BY <3>1, FS_EmptySet
    <3>3. systems[k].count \in Nat
      BY <1>7 DEF TablesTyped, SystemRecord
    <3> QED
      BY <3>2, <3>3
  <2> QED
    BY <2>1, <2>2
<1> QED
  BY <1>10, <1>11, <1>12, <1>13, <1>7 DEF TableInv

LEMMA NextKeepsTables == TableInv /\ [Next]_vars => TableInv'
<1> SUFFICES ASSUME TableInv, [Next]_vars PROVE TableInv'
  BY SMTT(40)
<1>1. CASE InitFloppy \/ InitDrive
  BY <1>1, UnchangedTablesKeep DEF InitFloppy, InitDrive, Registered
<1>2. ASSUME NEW tag, RegisterFilesystem(tag) \/ UnregisterFilesystem(tag)
      PROVE  TableInv'
  BY <1>2, RegisterFilesystemKeeps, UnregisterFilesystemKeeps
<1>3. ASSUME NEW file, NEW tag, NEW name, NEW remount \in BOOLEAN,
             Mount(file, tag, name, remount)
      PROVE  TableInv'
  BY <1>3, MountKeeps
<1>4. ASSUME NEW n, Allocate(n) PROVE TableInv'
  BY <1>4, AllocateKeeps
<1>5. CASE UNCHANGED vars
  BY <1>5, UnchangedTablesKeep DEF vars
<1> QED
  BY <1>1, <1>2, <1>3, <1>4, <1>5 DEF Next

\* No file system is taken away under a mount, whatever mounts fail and however
\* often systems are unregistered and registered again, and a name stands for
\* one mount (vfs.c:175-200, 335-411).
THEOREM MountsStayBacked == Spec => []MountsBacked
<1>1. TableInv => MountsBacked
  <2> SUFFICES ASSUME TableInv PROVE MountsBacked
    OBVIOUS
  <2>1. \A i \in Mounted :
          {j \in Mounted : mounts[j].system = mounts[i].system}
            = MountsOf(mounts[i].system)
    BY DEF MountsOf
  <2> QED
    BY <2>1 DEF TableInv, MountsBacked, SystemsThere, Counted, NamesUnique
<1> QED
  BY <1>1, InitTables, NextKeepsTables, PTL DEF Spec

\* Mounts fill the table from its first slot: there is no unmount, and a mount
\* that fails leaves the slot the next one takes (vfs.c:366-389).
THEOREM MountsFillFromFront == Spec => []FirstSlotsUsed
<1>1. TableInv => FirstSlotsUsed
  BY DEF TableInv
<1> QED
  BY <1>1, InitTables, NextKeepsTables, PTL DEF Spec

----------------------------------------------------------------------------
(* Booting: the list of devices and the files of devfs *)

FileOf(d) == [name |-> d.name, id |-> Id(d)]

\* Devices have numbers of their own, and as long as there is room the files are
\* theirs, in the same order.
Listed(reg, D) ==
  /\ reg.devices \in Seq(D)
  /\ \A i, j \in 1 .. Len(reg.devices) : Id(reg.devices[i]) = Id(reg.devices[j]) => i = j
  /\ reg.nodes \in Seq({FileOf(d) : d \in D})
  /\ Len(reg.nodes) = IF Len(reg.devices) < NodeSlots THEN Len(reg.devices) ELSE NodeSlots
  /\ \A i \in 1 .. Len(reg.nodes) : reg.nodes[i] = FileOf(reg.devices[i])

\* There is a device with the numbers of d.
Has(reg, d) == \E i \in DOMAIN reg.devices : Id(reg.devices[i]) = Id(d)

\* What the drives that were initialised lead to is in the list.
DrivesListed ==
  \A k \in DOMAIN machine.drives :
    Len(machine.floppies) + k <= probed =>
      \A n \in 1 .. Len(DevicesOf(machine.drives[k])) :
        Has([devices |-> devices, nodes |-> nodes], DevicesOf(machine.drives[k])[n])

BootInv ==
  /\ machine \in Machines /\ probed \in 0 .. Len(machine.floppies) + Len(machine.drives)
  /\ Listed([devices |-> devices, nodes |-> nodes], DevicesIn(machine))
  /\ DrivesListed

\* A device is added behind the others, with its file, or there is one already.
LEMMA RegisterLists ==
  ASSUME NEW D, NEW reg, Listed(reg, D), NEW d \in D
  PROVE  Listed(Register(reg, d), D)
<1>1. CASE \E i \in DOMAIN reg.devices : Id(reg.devices[i]) = Id(d)
  BY <1>1 DEF Register
<1>2. CASE ~ \E i \in DOMAIN reg.devices : Id(reg.devices[i]) = Id(d)
  <2> DEFINE more == Append(reg.devices, d)
             files == Mknod(reg.nodes, d)
  <2>1. Register(reg, d) = [devices |-> more, nodes |-> files]
    BY <1>2 DEF Register
  <2>2. /\ reg.devices \in Seq(D) /\ reg.nodes \in Seq({FileOf(e) : e \in D})
        /\ Len(reg.nodes) = IF Len(reg.devices) < NodeSlots THEN Len(reg.devices) ELSE NodeSlots
        /\ Len(reg.devices) \in Nat /\ Len(reg.nodes) \in Nat /\ NodeSlots \in Nat
    BY VfsAssumption DEF Listed
  <2>3. /\ more \in Seq(D) /\ Len(more) = Len(reg.devices) + 1
        /\ more[Len(reg.devices) + 1] = d
        /\ \A i \in 1 .. Len(reg.devices) : more[i] = reg.devices[i]
    BY <2>2
  <2>4. \A i, j \in 1 .. Len(more) : Id(more[i]) = Id(more[j]) => i = j
    <3>1. \A i \in 1 .. Len(reg.devices) : Id(reg.devices[i]) # Id(d)
      BY <1>2, <2>2
    <3>2. \A i \in 1 .. Len(more) : i \in 1 .. Len(reg.devices) \/ i = Len(reg.devices) + 1
      BY <2>2, <2>3
    <3> QED
      BY <2>3, <3>1, <3>2 DEF Listed
  <2> HIDE DEF more
  <2>5. CASE Len(reg.nodes) < NodeSlots
    <3>1. files = Append(reg.nodes, FileOf(d)) /\ FileOf(d) \in {FileOf(e) : e \in D}
      BY <2>5 DEF Mknod, FileOf
    <3>2. /\ files \in Seq({FileOf(e) : e \in D}) /\ Len(files) = Len(reg.nodes) + 1
          /\ files[Len(reg.nodes) + 1] = FileOf(d)
          /\ \A i \in 1 .. Len(reg.nodes) : files[i] = reg.nodes[i]
      BY <2>2, <3>1
    <3>3. Len(reg.nodes) = Len(reg.devices)
      BY <2>2, <2>5
    <3>4. \A i \in 1 .. Len(files) : i \in 1 .. Len(reg.nodes) \/ i = Len(reg.nodes) + 1
      BY <2>2, <3>2
    <3>5. \A i \in 1 .. Len(files) : files[i] = FileOf(more[i])
      BY <2>3, <3>2, <3>3, <3>4 DEF Listed
    <3>6. Len(files) = IF Len(more) < NodeSlots THEN Len(more) ELSE NodeSlots
      BY <2>2, <2>3, <2>5, <3>2, <3>3
    <3> HIDE DEF files
    <3> QED
      BY <2>1, <2>3, <2>4, <3>2, <3>5, <3>6 DEF Listed
  <2>6. CASE ~ (Len(reg.nodes) < NodeSlots)
    <3>1. files = reg.nodes
      BY <2>6 DEF Mknod
    <3>2. \A i \in 1 .. Len(reg.nodes) : i \in 1 .. Len(reg.devices)
      BY <2>2
    <3>3. Len(files) = IF Len(more) < NodeSlots THEN Len(more) ELSE NodeSlots
      BY <2>2, <2>3, <2>6, <3>1
    <3>4. \A i \in 1 .. Len(files) : files[i] = FileOf(more[i])
      BY <2>3, <3>1, <3>2 DEF Listed
    <3> HIDE DEF files
    <3> QED
      BY <2>1, <2>2, <2>3, <2>4, <3>1, <3>3, <3>4 DEF Listed
  <2> QED
    BY <2>5, <2>6
<1> QED
  BY <1>1, <1>2

\* No device is lost when another one is added.
LEMMA RegisterHas ==
  ASSUME NEW D, NEW reg, Listed(reg, D), NEW d \in D
  PROVE  /\ Has(Register(reg, d), d)
         /\ \A e : Has(reg, e) => Has(Register(reg, d), e)
<1>1. CASE \E i \in DOMAIN reg.devices : Id(reg.devices[i]) = Id(d)
  BY <1>1 DEF Register, Has
<1>2. CASE ~ \E i \in DOMAIN reg.devices : Id(reg.devices[i]) = Id(d)
  <2> DEFINE more == Append(reg.devices, d)
  <2>1. Register(reg, d).devices = more
    BY <1>2 DEF Register
  <2>2. reg.devices \in Seq(D) /\ Len(reg.devices) \in Nat
    BY DEF Listed
  <2>3. /\ DOMAIN more = 1 .. Len(reg.devices) + 1 /\ more[Len(reg.devices) + 1] = d
        /\ DOMAIN reg.devices = 1 .. Len(reg.devices)
        /\ \A i \in 1 .. Len(reg.devices) : more[i] = reg.devices[i]
    BY <2>2
  <2>4. /\ Len(reg.devices) + 1 \in DOMAIN more
        /\ \A i \in DOMAIN reg.devices : i \in DOMAIN more
    BY <2>2, <2>3
  <2> HIDE DEF more, Id
  <2> QED
    BY <2>1, <2>3, <2>4 DEF Has
<1> QED
  BY <1>1, <1>2

\* Devices registered one after the other.
IsRegistration(f, base, new, m) ==
  f = [n \in 0 .. m |-> IF n = 0 THEN base ELSE Register(f[n - 1], new[n])]

LEMMA RegistrationExists ==
  ASSUME NEW base, NEW new, NEW m \in Nat
  PROVE  \E f : IsRegistration(f, base, new, m)
<1> DEFINE S == {n \in Nat : ~ \E f : IsRegistration(f, base, new, n)}
<1> SUFFICES ASSUME S # {} PROVE FALSE
  OBVIOUS
<1>1. PICK n \in S : \A l \in S : n <= l
  <2>1. S \in SUBSET Nat
    OBVIOUS
  <2> HIDE DEF S
  <2> QED
    BY <2>1, LeastElement
<1>2. CASE n = 0
  <2> DEFINE one == [k \in 0 .. 0 |-> base]
  <2>1. one = [k \in 0 .. 0 |-> IF k = 0 THEN base ELSE Register(one[k - 1], new[k])]
    OBVIOUS
  <2>2. IsRegistration(one, base, new, 0)
    BY <2>1 DEF IsRegistration
  <2> QED
    BY <1>1, <1>2, <2>2
<1>3. CASE n # 0
  <2>1. n \in Nat /\ n - 1 \in Nat /\ n - 1 \notin S
    BY <1>1, <1>3
  <2>2. PICK f : IsRegistration(f, base, new, n - 1)
    BY <2>1
  <2> DEFINE h == [k \in 0 .. n |-> IF k = n THEN Register(f[n - 1], new[n]) ELSE f[k]]
  <2>3. \A k \in 0 .. n - 1 : f[k] = IF k = 0 THEN base ELSE Register(f[k - 1], new[k])
    BY <2>2 DEF IsRegistration
  <2>4. ASSUME NEW k \in 0 .. n
        PROVE  h[k] = IF k = 0 THEN base ELSE Register(h[k - 1], new[k])
    <3>1. CASE k = n
      <4>1. h[k] = Register(f[n - 1], new[n]) /\ h[n - 1] = f[n - 1]
        BY <1>3, <2>1, <3>1
      <4> QED
        BY <1>3, <3>1, <4>1
    <3>2. CASE k # n
      <4>1. k \in 0 .. n - 1 /\ h[k] = f[k] /\ (k # 0 => h[k - 1] = f[k - 1])
        BY <2>1, <3>2
      <4> QED
        BY <2>3, <4>1
    <3> QED
      BY <3>1, <3>2
  <2>5. h = [k \in 0 .. n |-> h[k]]
    OBVIOUS
  <2> HIDE DEF h
  <2>6. IsRegistration(h, base, new, n)
    BY <2>4, <2>5 DEF IsRegistration
  <2> QED
    BY <1>1, <2>6
<1> QED
  BY <1>2, <1>3

\* What a drive and its partitions are registered with, one after the other.
LEMMA RegisteredLists ==
  ASSUME BootInv, NEW new \in Seq(DevicesIn(machine)), Registered(new)
  PROVE  LET before == [devices |-> devices, nodes |-> nodes]
             after  == [devices |-> devices', nodes |-> nodes']
         IN  /\ Listed(after, DevicesIn(machine))
             /\ \A e : Has(before, e) => Has(after, e)
             /\ \A j \in 1 .. Len(new) : Has(after, new[j])
<1> DEFINE base == [devices |-> devices, nodes |-> nodes]
           reg[n \in 0 .. Len(new)] ==
             IF n = 0 THEN base ELSE Register(reg[n - 1], new[n])
           D == DevicesIn(machine)
           Holds(r, n) == /\ Listed(r, D) /\ \A e : Has(base, e) => Has(r, e)
                          /\ \A j \in 1 .. n : Has(r, new[j])
<1>1. Len(new) \in Nat /\ \A n \in 1 .. Len(new) : new[n] \in D
  OBVIOUS
<1>2. /\ devices' = reg[Len(new)].devices /\ nodes' = reg[Len(new)].nodes
  BY DEF Registered
<1>3. IsRegistration(reg, base, new, Len(new))
  <2>1. \E f : IsRegistration(f, base, new, Len(new))
    BY <1>1, RegistrationExists
  <2>2. reg = CHOOSE f : IsRegistration(f, base, new, Len(new))
    BY DEF IsRegistration
  <2> HIDE DEF reg, base
  <2> QED
    BY <2>1, <2>2
<1> HIDE DEF reg, D
<1>4. /\ reg[0] = base
      /\ \A n \in 1 .. Len(new) : reg[n] = Register(reg[n - 1], new[n])
  BY <1>1, <1>3 DEF IsRegistration
<1>5. Holds(reg[0], 0)
  BY <1>4 DEF BootInv, D
<1> HIDE DEF base
<1>6. Holds(reg[Len(new)], Len(new))
  <2> DEFINE S == {n \in 0 .. Len(new) : ~ Holds(reg[n], n)}
  <2> SUFFICES ASSUME S # {} PROVE FALSE
    BY <1>1
  <2>1. PICK n \in S : \A l \in S : n <= l
    <3>1. S \in SUBSET Nat
      BY <1>1
    <3> HIDE DEF S
    <3> QED
      BY <3>1, LeastElement
  <2>2. n # 0
    BY <1>5, <2>1
  <2>3. n \in 1 .. Len(new) /\ n - 1 \in 0 .. Len(new) /\ n - 1 \notin S
    BY <1>1, <2>1, <2>2
  <2>4. Holds(reg[n - 1], n - 1)
    BY <2>3
  <2>5. /\ reg[n] = Register(reg[n - 1], new[n]) /\ new[n] \in D
        /\ \A j \in 1 .. n : j = n \/ j \in 1 .. n - 1
    BY <1>1, <1>4, <2>3
  <2>6. Listed(reg[n], D)
    BY <2>4, <2>5, RegisterLists
  <2>7. Has(reg[n], new[n]) /\ \A e : Has(reg[n - 1], e) => Has(reg[n], e)
    BY <2>4, <2>5, RegisterHas
  <2>8. Holds(reg[n], n)
    BY <2>4, <2>5, <2>6, <2>7
  <2> QED
    BY <2>1, <2>8
<1>7. \A r, q : r.devices = q.devices /\ r.nodes = q.nodes =>
        /\ Listed(q, D) => Listed(r, D)
        /\ \A e : Has(q, e) => Has(r, e)
  BY DEF Listed, Has
<1> DEFINE after == [devices |-> devices', nodes |-> nodes']
<1>8. after.devices = reg[Len(new)].devices /\ after.nodes = reg[Len(new)].nodes
  BY <1>2
<1> HIDE DEF after
<1> QED
  BY <1>6, <1>7, <1>8 DEF base, D, after

LEMMA InitBoot == Init => BootInv
<1> SUFFICES ASSUME Init PROVE BootInv
  OBVIOUS
<1>1. machine \in Machines /\ probed = 0 /\ devices = <<>> /\ nodes = <<>>
  BY DEF Init
<1>2. PICK f \in Nat, d \in Nat : f = Len(machine.floppies) /\ d = Len(machine.drives)
  BY <1>1, MachineAssumption
<1>3. Listed([devices |-> devices, nodes |-> nodes], DevicesIn(machine))
  BY <1>1, VfsAssumption DEF Listed
<1>4. probed \in 0 .. f + d
  <2>1. f \in Nat /\ d \in Nat /\ probed = 0
    BY <1>1
  <2> QED
    BY <2>1
<1>5. DrivesListed
  <2>1. \A k \in DOMAIN machine.drives : k \in 1 .. d
    BY <1>1, <1>2, MachineAssumption
  <2>2. \A k \in 1 .. d : ~ (f + k <= 0)
    BY <1>2
  <2> QED
    BY <1>1, <1>2, <2>1, <2>2 DEF DrivesListed
<1> QED
  BY <1>1, <1>2, <1>3, <1>4, <1>5 DEF BootInv

LEMMA NextKeepsBoot == BootInv /\ [Next]_vars => BootInv'
<1> SUFFICES ASSUME BootInv, [Next]_vars PROVE BootInv'
  OBVIOUS
<1>1. /\ machine \in Machines /\ probed \in 0 .. Len(machine.floppies) + Len(machine.drives)
      /\ machine.floppies \in Seq(DevicesIn(machine))
      /\ machine.drives \in Seq(Range(machine.drives))
      /\ \A k \in DOMAIN machine.drives : DevicesOf(machine.drives[k]) \in Seq(DevicesIn(machine))
  BY MachineAssumption DEF BootInv
<1>2. /\ DOMAIN machine.floppies = 1 .. Len(machine.floppies) /\ Len(machine.floppies) \in Nat
      /\ DOMAIN machine.drives = 1 .. Len(machine.drives) /\ Len(machine.drives) \in Nat
  BY <1>1
<1>3. PICK f \in Nat, d \in Nat : f = Len(machine.floppies) /\ d = Len(machine.drives)
  BY <1>2
<1>4. CASE InitFloppy
  <2>1. /\ probed + 1 \in DOMAIN machine.floppies
        /\ Registered(<< machine.floppies[probed + 1] >>)
    BY <1>4 DEF InitFloppy
  <2>2. machine' = machine /\ probed' = probed + 1
    BY <2>1 DEF Registered
  <2>3. << machine.floppies[probed + 1] >> \in Seq(DevicesIn(machine))
    BY <1>1, <2>1
  <2>4. probed + 1 \in 1 .. f
    BY <1>2, <1>3, <2>1
  <2>5. probed' \in 0 .. f + d
    <3>1. probed + 1 \in 0 .. f + d
      BY <2>4
    <3> QED
      BY <2>2, <3>1, Zenon
  <2>6. probed' \in 0 .. Len(machine'.floppies) + Len(machine'.drives)
    BY <1>3, <2>2, <2>5
  <2>7. Listed([devices |-> devices', nodes |-> nodes'], DevicesIn(machine))
    BY <2>1, <2>3, RegisteredLists
  <2>8. DrivesListed'
    <3>1. \A k \in DOMAIN machine.drives : ~ (f + k <= probed + 1)
      BY <1>2, <2>4
    <3> QED
      BY <1>3, <2>2, <3>1 DEF DrivesListed
  <2> QED
    BY <1>1, <2>2, <2>6, <2>7, <2>8 DEF BootInv
<1>5. CASE InitDrive
  <2> DEFINE k == probed + 1 - Len(machine.floppies)
  <2>1. k \in DOMAIN machine.drives /\ Registered(DevicesOf(machine.drives[k]))
    BY <1>5 DEF InitDrive
  <2>2. machine' = machine /\ probed' = probed + 1
    BY <2>1 DEF Registered
  <2>3. DevicesOf(machine.drives[k]) \in Seq(DevicesIn(machine))
    BY <1>1, <2>1
  <2>4. probed + 1 - f \in 1 .. d /\ probed \in 0 .. f + d
    BY <1>1, <1>2, <1>3, <2>1
  <2>5. probed' \in 0 .. f + d
    <3>1. probed + 1 \in 0 .. f + d
      BY <2>4
    <3> QED
      BY <2>2, <3>1, Zenon
  <2>6. probed' \in 0 .. Len(machine'.floppies) + Len(machine'.drives)
    BY <1>3, <2>2, <2>5
  <2> DEFINE before == [devices |-> devices, nodes |-> nodes]
             after  == [devices |-> devices', nodes |-> nodes']
             new(j) == DevicesOf(machine.drives[j])
  <2>7. /\ Listed(after, DevicesIn(machine))
        /\ \A e : Has(before, e) => Has(after, e)
        /\ \A j \in 1 .. Len(new(k)) : Has(after, new(k)[j])
    BY <2>1, <2>3, RegisteredLists
  <2>8. \A j \in DOMAIN machine.drives : Len(machine.floppies) + j <= probed =>
          \A n \in 1 .. Len(new(j)) : Has(before, new(j)[n])
    BY DEF BootInv, DrivesListed
  <2>9. \A j \in DOMAIN machine.drives : f + j <= probed + 1 => f + j <= probed \/ j = k
    <3>1. \A j \in 1 .. d : f + j <= probed + 1 => f + j <= probed \/ j = probed + 1 - f
      BY <2>4
    <3>2. DOMAIN machine.drives = 1 .. d /\ k = probed + 1 - f
      BY <1>2, <1>3
    <3> HIDE DEF k
    <3> QED
      BY <3>1, <3>2
  <2> HIDE DEF before, after, new, k
  <2>10. ASSUME NEW j \in DOMAIN machine.drives, f + j <= probed + 1,
                NEW n \in 1 .. Len(new(j))
         PROVE  Has(after, new(j)[n])
    BY <1>3, <2>7, <2>8, <2>9, <2>10
  <2>11. DrivesListed'
    BY <1>3, <2>2, <2>10 DEF DrivesListed, after, new
  <2> QED
    BY <1>1, <2>2, <2>6, <2>7, <2>11 DEF BootInv, after
<1>6. CASE UNCHANGED <<machine, probed, devices, nodes>>
  BY <1>6 DEF BootInv, DrivesListed
<1>7. ASSUME NEW tag, RegisterFilesystem(tag) \/ UnregisterFilesystem(tag)
      PROVE  UNCHANGED <<machine, probed, devices, nodes>>
  BY <1>7 DEF RegisterFilesystem, UnregisterFilesystem
<1>8. ASSUME NEW file, NEW tag, NEW name, NEW remount, Mount(file, tag, name, remount)
      PROVE  UNCHANGED <<machine, probed, devices, nodes>>
  BY <1>8 DEF Mount
<1>9. ASSUME NEW n, Allocate(n) PROVE UNCHANGED <<machine, probed, devices, nodes>>
  BY <1>9 DEF Allocate
<1>10. CASE UNCHANGED vars
  BY <1>6, <1>10 DEF vars
<1> QED
  BY <1>4, <1>5, <1>6, <1>7, <1>8, <1>9, <1>10 DEF Next

\* A device is found by its numbers, which no other has.
LEMMA DeviceIsFound ==
  ASSUME BootInv, NEW i \in 1 .. Len(devices)
  PROVE  GetDevice(Id(devices[i])) = devices[i] /\ devices[i] # Nothing
<1>1. /\ devices \in Seq(DevicesIn(machine)) /\ machine \in Machines
      /\ \A j, k \in 1 .. Len(devices) : Id(devices[j]) = Id(devices[k]) => j = k
  BY DEF BootInv, Listed
<1>2. {j \in DOMAIN devices : Id(devices[j]) = Id(devices[i])} = {i}
  BY <1>1
<1>3. Min({i}) = i
  <2>1. i \in Nat
    BY <1>1
  <2> QED
    BY <2>1, MinIsFirst
<1>4. GetDevice(Id(devices[i])) = devices[i]
  <2> HIDE DEF Id
  <2> QED
    BY <1>2, <1>3 DEF GetDevice
<1> QED
  BY <1>1, <1>4, MachineAssumption

\* While devfs has room, a device's name leads to its own file.
LEMMA FileIsFound ==
  ASSUME BootInv, Len(nodes) < NodeSlots, NEW i \in 1 .. Len(devices)
  PROVE  DevfsFind(devices[i].name) = DeviceNode(Id(devices[i]))
<1> DEFINE D == DevicesIn(machine)
           found == {j \in DOMAIN nodes : nodes[j].name = devices[i].name}
<1>1. /\ devices \in Seq(D) /\ machine \in Machines
      /\ \A j, k \in 1 .. Len(devices) : Id(devices[j]) = Id(devices[k]) => j = k
      /\ nodes \in Seq({FileOf(d) : d \in D})
      /\ Len(nodes) = IF Len(devices) < NodeSlots THEN Len(devices) ELSE NodeSlots
      /\ \A j \in 1 .. Len(nodes) : nodes[j] = FileOf(devices[j])
  BY DEF BootInv, Listed
<1>2. /\ DOMAIN nodes = 1 .. Len(devices)
      /\ \A j \in 1 .. Len(devices) : /\ nodes[j].name = devices[j].name
                                      /\ nodes[j].id = Id(devices[j])
  <2>1. Len(nodes) = Len(devices) /\ DOMAIN nodes = 1 .. Len(nodes)
    BY <1>1, VfsAssumption
  <2>2. ASSUME NEW j \in 1 .. Len(devices)
        PROVE  nodes[j].name = devices[j].name /\ nodes[j].id = Id(devices[j])
    <3>1. nodes[j] = [name |-> devices[j].name, id |-> Id(devices[j])]
      BY <1>1, <2>1 DEF FileOf
    <3> HIDE DEF Id
    <3> QED
      BY <3>1
  <2> QED
    BY <2>1, <2>2
<1>3. \A j \in 1 .. Len(devices) :
        devices[j].name = devices[i].name => Id(devices[j]) = Id(devices[i])
  <2>1. \A j \in 1 .. Len(devices) : devices[j] \in D
    BY <1>1
  <2> HIDE DEF D, Id
  <2> QED
    BY <1>1, <2>1, MachineAssumption DEF D
<1>4. found = {i}
  BY <1>1, <1>2, <1>3
<1>5. Min({i}) = i
  <2>1. i \in Nat
    BY <1>1
  <2> QED
    BY <2>1, MinIsFirst
<1> QED
  BY <1>2, <1>4, <1>5 DEF DevfsFind
----------------------------------------------------------------------------
(* What the slots of both tables hold, and the mount of devfs *)

SystemSlot(s) == s.tag \in Tags \union {Nothing} /\ s.count \in 0 .. MaxCount

MountSlot(m) ==
  /\ m.system \in 0 .. SystemSlots
  /\ m.name \in Names \union {Nothing, "DEVICE"}

DevfsMount(m) == m.enabled /\ m.name = "DEVICE" /\ m.root = "devfs"

SlotInv ==
  /\ \A k \in Slots(SystemSlots) : SystemSlot(systems[k])
  /\ \A i \in Slots(MountSlots) : MountSlot(mounts[i])
  /\ DevfsMount(mounts[1])
  /\ super \in 0 .. MountSlots

LEMMA InitSlots == Init => SlotInv
<1> SUFFICES ASSUME Init PROVE SlotInv
  OBVIOUS
<1> DEFINE first == [NoMount EXCEPT !.enabled = TRUE, !.name = "DEVICE", !.system = 2,
                                    !.root = "devfs"]
<1>1. mounts = [i \in Slots(MountSlots) |-> IF i = 1 THEN first ELSE NoMount]
  BY DEF Init
<1>2. 1 \in Slots(MountSlots) /\ 2 \in 0 .. SystemSlots /\ 0 \in 0 .. SystemSlots
  BY VfsAssumption DEF Slots
<1>3. first.system = 2 /\ first.name = "DEVICE" /\ first.root = "devfs"
  BY DEF NoMount
<1>4. first.enabled
  BY DEF NoMount
<1> HIDE DEF first
<1>5. MountSlot(first) /\ MountSlot(NoMount)
  <2>1. NoMount.system = 0 /\ NoMount.name = Nothing
    BY DEF NoMount
  <2> QED
    BY <1>2, <1>3, <2>1 DEF MountSlot
<1>6. \A i \in Slots(MountSlots) : MountSlot(mounts[i])
  BY <1>1, <1>5
<1>7. DevfsMount(mounts[1])
  BY <1>1, <1>2, <1>3, <1>4 DEF DevfsMount
<1>8. ASSUME NEW k \in Slots(SystemSlots)
      PROVE  SystemSlot(systems[k])
  <2> DEFINE system(e, t, c) == [enabled |-> e, tag |-> t, count |-> c]
             systemAt(n) == CASE n = 1 -> system(TRUE, "cybfs", 0)
                              [] n = 2 -> system(TRUE, "devfs", 1)
                              [] n = 3 -> system(TRUE, "fat12", 0)
                              [] n = 4 -> system(TRUE, "ext2", 0)
                              [] OTHER -> NoSystem
  <2>1. systems[k] = systemAt(k)
    BY DEF Init
  <2>2. \A n \in {0, 1} : n \in 0 .. MaxCount
    BY VfsAssumption
  <2>3. SystemSlot(NoSystem)
    BY <2>2 DEF SystemSlot, NoSystem
  <2>4. 0 \in 0 .. MaxCount /\ 1 \in 0 .. MaxCount
    BY <2>2
  <2>5. SystemSlot(systemAt(k))
    <3>1. CASE k = 1
      BY <2>4, <3>1 DEF SystemSlot, Tags
    <3>2. CASE k = 2
      BY <2>4, <3>2 DEF SystemSlot, Tags
    <3>3. CASE k = 3
      BY <2>4, <3>3 DEF SystemSlot, Tags
    <3>4. CASE k = 4
      BY <2>4, <3>4 DEF SystemSlot, Tags
    <3>5. CASE k \notin {1, 2, 3, 4}
      BY <2>3, <3>5
    <3> QED
      BY <3>1, <3>2, <3>3, <3>4, <3>5
  <2> HIDE DEF systemAt
  <2> QED
    BY <2>1, <2>5
<1>9. super \in 0 .. MountSlots
  BY VfsAssumption DEF Init
<1> QED
  BY <1>6, <1>7, <1>8, <1>9 DEF SlotInv

\* An allocation leaves these parts of a slot.
LEMMA OverwrittenSlot ==
  ASSUME NEW m, MountRecord(m), NEW use
  PROVE  /\ MountSlot(m) => MountSlot(Overwritten(m, use))
         /\ DevfsMount(m) => DevfsMount(Overwritten(m, use))
BY OverwrittenKeeps DEF MountSlot, DevfsMount

\* A mount writes to another slot than the first, which has the name of devfs.
LEMMA MountKeepsSlots ==
  ASSUME TableInv, SlotInv, NEW file, NEW tag, NEW name \in Names, NEW remount \in BOOLEAN,
         Mount(file, tag, name, remount)
  PROVE  SlotInv'
<1> DEFINE sys  == SystemOf(tag)
           slot == SlotFor(name, remount)
<1>1. /\ sys # 0 /\ slot # 0 /\ systems[sys].count < MaxCount
      /\ systems' = [systems EXCEPT ![sys].count = @ + 1]
  BY DEF Mount
<1>2. PICK dev :
        mounts' = [[i \in DOMAIN mounts |-> Overwritten(mounts[i], MountUses(tag, dev))]
                     EXCEPT ![slot] = MountedIn(mounts[slot], name, sys, dev, CanMount(tag, dev))]
  BY DEF Mount
<1> DEFINE ok   == CanMount(tag, dev)
           new  == MountedIn(mounts[slot], name, sys, dev, ok)
           kept == [i \in DOMAIN mounts |-> Overwritten(mounts[i], MountUses(tag, dev))]
<1>3. sys \in Slots(SystemSlots)
  BY <1>1, SystemOfEnabled
<1>4. /\ slot \in Slots(MountSlots)
      /\ mounts[slot].enabled => mounts[slot].name = name
  BY <1>1, SlotForIsFirst
<1>5. /\ DOMAIN mounts = Slots(MountSlots) /\ DOMAIN systems = Slots(SystemSlots)
      /\ \A i \in Slots(MountSlots) : MountRecord(mounts[i])
      /\ \A k \in Slots(SystemSlots) : SystemRecord(systems[k])
  BY DEF TableInv, TablesTyped
<1>6. slot # 1
  BY <1>4, VfsAssumption DEF SlotInv, DevfsMount
<1>7. ok \in BOOLEAN
  BY DEF CanMount, FatMounts, ReadsSector, Ext2Mounts, ReadsBlock
<1> HIDE DEF ok, sys, slot
<1>8. /\ mounts'[slot] = new
      /\ \A i \in Slots(MountSlots) : i # slot => mounts'[i] = kept[i]
  BY <1>2, <1>4, <1>5 DEF ok
<1>9. MountSlot(new)
  <2>1. new.name = name /\ new.system = sys
    BY <1>4, <1>5, <1>7, MountedInRecord
  <2>2. sys \in 0 .. SystemSlots
    BY <1>3, VfsAssumption DEF Slots
  <2> HIDE DEF new
  <2> QED
    BY <2>1, <2>2 DEF MountSlot
<1>10. \A i \in Slots(MountSlots) :
         MountSlot(kept[i]) /\ (DevfsMount(mounts[i]) => DevfsMount(kept[i]))
  BY <1>5, OverwrittenSlot DEF SlotInv
<1> HIDE DEF new, kept
<1>11. /\ \A i \in Slots(MountSlots) : MountSlot(mounts'[i])
       /\ DevfsMount(mounts'[1])
  <2>1. 1 \in Slots(MountSlots)
    BY VfsAssumption DEF Slots
  <2> QED
    BY <1>6, <1>8, <1>9, <1>10, <2>1 DEF SlotInv
<1>12. ASSUME NEW k \in Slots(SystemSlots)
       PROVE  SystemSlot(systems'[k])
  <2>1. CASE k # sys
    BY <1>1, <1>5, <2>1 DEF SlotInv
  <2>2. CASE k = sys
    <3>1. /\ systems'[sys].tag = systems[sys].tag
          /\ systems'[sys].count = systems[sys].count + 1
      BY <1>1, <1>3, <1>5 DEF SystemRecord
    <3>2. systems[sys].count \in 0 .. MaxCount /\ MaxCount \in Nat
      BY <1>3, VfsAssumption DEF SlotInv, SystemSlot
    <3>3. systems[sys].count + 1 \in 0 .. MaxCount
      BY <1>1, <3>2
    <3> QED
      BY <1>3, <2>2, <3>1, <3>3 DEF SlotInv, SystemSlot
  <2> QED
    BY <2>1, <2>2
<1>13. super' \in 0 .. MountSlots
  <2>1. super' = slot \/ super' = super
    BY DEF Mount, slot
  <2>2. slot \in 0 .. MountSlots
    BY <1>4, VfsAssumption DEF Slots
  <2> QED
    BY <2>1, <2>2 DEF SlotInv
<1> QED
  BY <1>11, <1>12, <1>13 DEF SlotInv

LEMMA NextKeepsSlots == TableInv /\ SlotInv /\ [Next]_vars => SlotInv'
<1> SUFFICES ASSUME TableInv, SlotInv, [Next]_vars PROVE SlotInv'
  OBVIOUS
<1>1. /\ DOMAIN mounts = Slots(MountSlots) /\ DOMAIN systems = Slots(SystemSlots)
      /\ \A i \in Slots(MountSlots) : MountRecord(mounts[i])
      /\ \A k \in Slots(SystemSlots) : SystemRecord(systems[k])
      /\ 1 \in Slots(MountSlots)
  BY VfsAssumption DEF TableInv, TablesTyped, Slots
<1>2. CASE UNCHANGED <<systems, mounts, super>>
  BY <1>2 DEF SlotInv
<1>3. ASSUME NEW tag \in Reloaded, RegisterFilesystem(tag)
      PROVE  SlotInv'
  <2> DEFINE fresh == [enabled |-> TRUE, tag |-> tag, count |-> 0]
  <2>1. PICK s : systems' = [systems EXCEPT ![s] = fresh] /\ UNCHANGED <<mounts, super>>
    BY <1>3 DEF RegisterFilesystem
  <2>2. SystemSlot(fresh)
    <3>1. tag \in Tags /\ 0 \in 0 .. MaxCount
      BY VfsAssumption
    <3> QED
      BY <3>1 DEF SystemSlot
  <2> HIDE DEF fresh
  <2> QED
    BY <1>1, <2>1, <2>2 DEF SlotInv
<1>4. ASSUME NEW tag \in Reloaded, UnregisterFilesystem(tag)
      PROVE  SlotInv'
  <2>1. PICK s : /\ systems' = [systems EXCEPT ![s].enabled = FALSE]
                 /\ UNCHANGED <<mounts, super>>
    BY <1>4 DEF UnregisterFilesystem
  <2>2. \A k \in Slots(SystemSlots) : /\ systems'[k].tag = systems[k].tag
                                      /\ systems'[k].count = systems[k].count
    BY <1>1, <2>1 DEF SystemRecord
  <2> QED
    BY <2>1, <2>2 DEF SlotInv, SystemSlot
<1>5. ASSUME NEW n, Allocate(n) PROVE SlotInv'
  <2>1. /\ UNCHANGED <<systems, super>>
        /\ mounts' = [i \in DOMAIN mounts |-> Overwritten(mounts[i], Block(n))]
    BY <1>5 DEF Allocate
  <2>2. \A i \in Slots(MountSlots) : mounts'[i] = Overwritten(mounts[i], Block(n))
    BY <1>1, <2>1, SMTT(40)
  <2> QED
    BY <1>1, <2>1, <2>2, OverwrittenSlot DEF SlotInv
<1>6. CASE InitFloppy \/ InitDrive \/ UNCHANGED vars
  BY <1>2, <1>6 DEF InitFloppy, InitDrive, Registered, vars
<1>7. ASSUME NEW file, NEW tag, NEW name \in Names, NEW remount \in BOOLEAN,
             Mount(file, tag, name, remount)
      PROVE  SlotInv'
  BY <1>7, MountKeepsSlots
<1> QED
  BY <1>3, <1>4, <1>5, <1>6, <1>7 DEF Next
----------------------------------------------------------------------------
(* Opening the file of a device *)

\* The nodes on the way along a path.
IsPath(f, i, parts) ==
  f = [n \in 0 .. Len(parts) |-> IF n = 0 THEN SuperNode(i) ELSE Component(f[n - 1], parts[n])]

\* If there is a way along a path, it is the one that Lookup takes.
LEMMA LookupIsPath ==
  ASSUME NEW name, NEW i \in Nat, MountsNamed(name) = {i}, NEW parts, NEW way,
         IsPath(way, i, parts)
  PROVE  \E f : IsPath(f, i, parts) /\ Lookup(name, parts) = f[Len(parts)]
<1> DEFINE k == Min(MountsNamed(name))
           node[n \in 0 .. Len(parts)] ==
             IF n = 0 THEN SuperNode(k) ELSE Component(node[n - 1], parts[n])
<1>1. k = i
  BY MinIsFirst
<1>2. Lookup(name, parts) = node[Len(parts)]
  BY DEF Lookup
<1> HIDE DEF k
<1>3. IsPath(node, i, parts)
  <2>1. node = CHOOSE f : IsPath(f, i, parts)
    BY <1>1 DEF IsPath
  <2> HIDE DEF node
  <2> QED
    BY <2>1
<1> QED
  BY <1>2, <1>3

\* A path of no name leads to the supernode of its mount.
LEMMA LookupOfNone ==
  ASSUME NEW mount, NEW i \in Nat, MountsNamed(mount) = {i}
  PROVE  Lookup(mount, << >>) = SuperNode(i)
<1> DEFINE parts == << >>
           way   == [n \in 0 .. 0 |-> SuperNode(i)]
<1>1. Len(parts) = 0
  OBVIOUS
<1> HIDE DEF parts
<1>2. IsPath(way, i, parts)
  <2>1. way = [n \in 0 .. Len(parts) |->
                 IF n = 0 THEN SuperNode(i) ELSE Component(way[n - 1], parts[n])]
    BY <1>1
  <2> HIDE DEF way
  <2> QED
    BY <2>1 DEF IsPath
<1>3. PICK f : IsPath(f, i, parts) /\ Lookup(mount, parts) = f[Len(parts)]
  <2> HIDE DEF way
  <2> QED
    BY <1>2, LookupIsPath
<1>4. f[0] = SuperNode(i)
  BY <1>1, <1>3 DEF IsPath
<1> QED
  BY <1>1, <1>3, <1>4 DEF parts

\* A path of one name leads from the supernode of its mount to one more node.
LEMMA LookupOfOne ==
  ASSUME NEW mount, NEW i \in Nat, MountsNamed(mount) = {i}, NEW name
  PROVE  Lookup(mount, << name >>) = Component(SuperNode(i), name)
<1> DEFINE parts == << name >>
           way   == [n \in 0 .. 1 |->
                       IF n = 0 THEN SuperNode(i) ELSE Component(SuperNode(i), name)]
<1>1. Len(parts) = 1 /\ parts[1] = name /\ 0 .. 1 = {0, 1}
  OBVIOUS
<1> HIDE DEF parts
<1>2. IsPath(way, i, parts)
  <2>1. way[0] = SuperNode(i) /\ 1 - 1 = 0 /\ way[1] = Component(way[0], parts[1])
    BY <1>1
  <2>2. \A n \in 0 .. 1 :
          way[n] = IF n = 0 THEN SuperNode(i) ELSE Component(way[n - 1], parts[n])
    BY <1>1, <2>1
  <2>3. way = [n \in 0 .. 1 |-> way[n]]
    OBVIOUS
  <2> HIDE DEF way
  <2> QED
    BY <1>1, <2>2, <2>3 DEF IsPath
<1>3. PICK f : IsPath(f, i, parts) /\ Lookup(mount, parts) = f[Len(parts)]
  <2> HIDE DEF way
  <2> QED
    BY <1>2, LookupIsPath
<1>4. f[0] = SuperNode(i) /\ f[1] = Component(f[0], parts[1])
  BY <1>1, <1>3 DEF IsPath
<1> QED
  BY <1>1, <1>3, <1>4 DEF parts

\* The first mount is the one that is named after the devices.
LEMMA DevfsIsMounted == TableInv /\ SlotInv => MountsNamed("DEVICE") = {1}
<1> SUFFICES ASSUME TableInv, SlotInv PROVE MountsNamed("DEVICE") = {1}
  OBVIOUS
<1>1. 1 \in Slots(MountSlots) /\ DOMAIN mounts = Slots(MountSlots)
  BY VfsAssumption DEF TableInv, TablesTyped, Slots
<1>2. 1 \in Mounted /\ mounts[1].name = "DEVICE"
  BY <1>1 DEF SlotInv, DevfsMount, Mounted
<1> QED
  BY <1>2 DEF TableInv, NamesUnique, MountsNamed

\* A path begins at the root of its own mount, although all mounts of a file system
\* share its supernode and the last one of them has written itself to it, and that
\* root is of the system in the slot, also when the last mount over it failed
\* (vfs.c:225-263, 376-389, ext2.c:241-244).
THEOREM RootsBelong == Spec => []RootBelongs
<1>1. TableInv => RootBelongs
  <2> SUFFICES ASSUME TableInv, NEW i \in Mounted, mounts[i].root # Nothing
               PROVE  /\ mounts[i].root = Tag(mounts[i])
                      /\ Lookup(mounts[i].name, << >>).kind = "dir"
                      /\ Lookup(mounts[i].name, << >>).mount = i
    BY DEF RootBelongs
  <2>1. MountsNamed(mounts[i].name) = {i}
    BY DEF TableInv, NamesUnique, MountsNamed
  <2>2. i \in Nat
    BY SlotsAreNumbers, VfsAssumption DEF TableInv, TablesTyped, Mounted
  <2>3. Lookup(mounts[i].name, << >>) = SuperNode(i)
    BY <2>1, <2>2, LookupOfNone
  <2>4. SuperNode(i).kind = "dir" /\ SuperNode(i).mount = i
    BY DEF SuperNode, Node
  <2> QED
    BY <2>3, <2>4 DEF TableInv, RootTagged
<1> QED
  BY <1>1, InitTables, NextKeepsTables, PTL DEF Spec

\* Opening the file of a device comes to what devfs has under its name.
LEMMA OpenedInDevfs ==
  ASSUME TableInv, SlotInv, NEW name, name \notin {<< "." >>, << ".", "." >>}
  PROVE  Opened(name) = DeviceOf(DevfsFind(name))
<1>1. mounts[1].root = "devfs" /\ "devfs" # Nothing
  BY MachineAssumption DEF SlotInv, DevfsMount, Tags
<1>2. SuperNode(1) = Node("dir", 0, 1)
  BY <1>1 DEF SuperNode
<1>3. SuperNode(1).kind = "dir" /\ SuperNode(1).mount = 1
  BY <1>2 DEF Node
<1>4. FindDir(SuperNode(1), name) = DevfsFind(name)
  BY <1>1, <1>3 DEF FindDir
<1>5. Component(SuperNode(1), name) = DevfsFind(name)
  BY <1>3, <1>4 DEF Component
<1>6. Lookup("DEVICE", << name >>) = DevfsFind(name)
  BY <1>5, DevfsIsMounted, LookupOfOne
<1> QED
  BY <1>6 DEF Opened

----------------------------------------------------------------------------
(* What a read of a drive or a partition returns *)

\* Cylinder, head and sector lead back to the sector they were computed from.
LEMMA AtaSectorIsLba ==
  ASSUME NEW drive, NEW lba \in Nat, drive.lba48 \/ lba < Lba28
  PROVE  AtaSector(drive, lba) = lba
<1> PICK S \in Nat \ {0}, H \in Nat \ {0} : S = AtaSectors /\ H = AtaHeads
  BY BlockAssumption
<1>1. PICK q \in Nat, t \in 0 .. S - 1 : t = lba % S /\ lba = S * q + t
  <2>1. /\ lba \div S \in Nat /\ lba % S \in 0 .. S - 1
        /\ lba = S * (lba \div S) + (lba % S)
    BY DivMod
  <2> QED
    BY <2>1
<1>2. PICK c \in Nat, h \in 0 .. H - 1 : q = H * c + h
  <2>1. /\ q \div H \in Nat /\ q % H \in 0 .. H - 1
        /\ q = H * (q \div H) + (q % H)
    BY DivMod
  <2> QED
    BY <2>1
<1>3. PICK m \in Nat \ {0}, r \in Nat : m = H * S /\ r = S * h
  OBVIOUS
<1>4. r <= m - 1 /\ S * q = m * c + r
  <2>1. S * h + S <= S * H
    BY MultipleGrows
  <2>2. S * (H * c + h) = (H * S) * c + S * h
    OBVIOUS
  <2> QED
    BY <1>2, <1>3, <2>1, <2>2
<1>5. (S * q) \div m = c /\ (S * q) % m = r
  <2>1. r \in 0 .. m - 1
    BY <1>4
  <2>2. (m * c + r) \div m = c /\ (m * c + r) % m = r
    BY <2>1, Remainder
  <2> QED
    BY <1>4, <2>2
<1>6. r \div S = h
  <2>1. S * h + 0 = r /\ 0 \in 0 .. S - 1
    BY <1>3
  <2> QED
    BY <2>1, Remainder
<1>7. lba + 1 - (t + 1) = S * q
  BY <1>1
<1>8. (c * H + h) * S + (t + 1) - 1 = lba
  <2>1. (c * H + h) * S = S * q
    BY <1>2
  <2>2. PICK z \in Nat : z = S * q
    OBVIOUS
  <2>3. lba = z + t
    BY <1>1, <2>2
  <2>4. z + (t + 1) - 1 = lba
    BY <2>3
  <2> QED
    BY <2>1, <2>2, <2>4
<1>9. AtaSector(drive, lba)
        = IF lba >= Lba28 THEN IF drive.lba48 THEN lba ELSE Nothing
          ELSE IF drive.lba THEN lba ELSE (c * H + h) * S + (t + 1) - 1
  <2>1. /\ (lba % AtaSectors) + 1 = t + 1
        /\ (lba + 1 - (t + 1)) \div (AtaHeads * AtaSectors) = c
        /\ ((lba + 1 - (t + 1)) % (AtaHeads * AtaSectors)) \div AtaSectors = h
    BY <1>1, <1>3, <1>5, <1>6, <1>7
  <2> QED
    BY <2>1 DEF AtaSector
<1> QED
  BY <1>8, <1>9, BlockAssumption

\* A sector of the drive is read from its own place.
LEMMA SectorByteIsThere ==
  ASSUME NEW drive, drive.size \in Nat, drive.lba48 \/ drive.size <= Lba28,
         NEW s \in Nat, NEW i \in Nat, s * SectorSize + i < drive.size * SectorSize
  PROVE  SectorByte(drive, s + (i \div SectorSize), i % SectorSize)
           = << <<IDE, drive.minor>>, s * SectorSize + i >>
<1> PICK b \in Nat \ {0} : b = SectorSize
  BY BlockAssumption
<1>1. PICK q \in Nat, r \in 0 .. b - 1 : q = i \div b /\ r = i % b /\ i = b * q + r
  <2>1. i \div b \in Nat /\ i % b \in 0 .. b - 1 /\ i = b * (i \div b) + (i % b)
    BY DivMod
  <2> QED
    BY <2>1
<1>2. (s + q) * b + r = s * b + i
  <2>1. (s + q) * b = s * b + b * q
    OBVIOUS
  <2>2. PICK x \in Nat, y \in Nat : x = s * b /\ y = b * q
    OBVIOUS
  <2> QED
    BY <1>1, <2>1, <2>2
<1>3. s + q < drive.size
  <2> PICK z \in Nat : z = drive.size
    OBVIOUS
  <2>1. ASSUME z <= s + q PROVE FALSE
    <3>1. PICK k \in Nat : s + q = z + k
      <4>1. s + q - z \in Nat /\ s + q = z + (s + q - z)
        BY <2>1
      <4> QED
        BY <4>1
    <3>2. (s + q) * b = z * b + k * b /\ k * b \in Nat /\ z * b \in Nat
      BY <3>1
    <3>3. s * b + i < z * b /\ s * b + i \in Nat
      OBVIOUS
    <3> QED
      BY <1>2, <3>2, <3>3
  <2> QED
    BY <2>1
<1>4. AtaSector(drive, s + q) = s + q /\ s + q \in Nat /\ ~ (s + q >= drive.size)
  <2>1. drive.lba48 \/ s + q < Lba28
    BY <1>3, BlockAssumption
  <2> QED
    BY <1>3, <2>1, AtaSectorIsLba
<1>5. SectorByte(drive, s + q, r)
        = IF AtaSector(drive, s + q) = Nothing \/ s + q >= drive.size THEN Nothing
          ELSE << <<IDE, drive.minor>>, AtaSector(drive, s + q) * SectorSize + r >>
  BY DEF SectorByte
<1>6. s + q # Nothing
  BY BlockAssumption
<1>7. SectorByte(drive, s + q, r) = << <<IDE, drive.minor>>, (s + q) * b + r >>
  BY <1>4, <1>5, <1>6
<1> QED
  BY <1>1, <1>2, <1>7

\* A read from the beginning of a sector returns what the drive has there.
LEMMA DriveReadsBytes ==
  ASSUME NEW drive, drive.size \in Nat, drive.lba48 \/ drive.size <= Lba28,
         NEW s \in Nat, NEW n \in Nat, s * SectorSize + n <= drive.size * SectorSize
  PROVE  DriveRead(drive, s * SectorSize, n)
           = [n |-> n, data |-> BytesAt(<<IDE, drive.minor>>, s * SectorSize, n)]
<1> PICK b \in Nat \ {0} : b = SectorSize
  BY BlockAssumption
<1>1. (s * b) % b = 0 /\ (s * b) \div b = s
  <2>1. 0 \in 0 .. b - 1
    OBVIOUS
  <2>2. (b * s + 0) \div b = s /\ (b * s + 0) % b = 0
    BY <2>1, Remainder
  <2>3. b * s + 0 = s * b
    OBVIOUS
  <2> QED
    BY <2>2, <2>3
<1> DEFINE at    == s * b
           after == 0 .. n - 1
<1>2. DriveRead(drive, at, n)
        = [n |-> n, data |-> [i \in {} \union after |->
             IF i \in after THEN SectorByte(drive, s + ((i - 0) \div b), (i - 0) % b)
             ELSE SectorByte(drive, s, Uint8(0) + i)]]
  <2>1. ~ (n < 0) /\ ~ (0 > 0)
    OBVIOUS
  <2> HIDE DEF at
  <2>2. at % SectorSize = 0 /\ at \div SectorSize = s
    BY <1>1 DEF at
  <2> QED
    BY <2>1, <2>2 DEF DriveRead
<1>3. ASSUME NEW i \in after
      PROVE  SectorByte(drive, s + ((i - 0) \div b), (i - 0) % b)
               = << <<IDE, drive.minor>>, at + i >>
  <2>1. i \in Nat /\ i < n /\ i - 0 = i
    OBVIOUS
  <2>2. s * SectorSize + i < drive.size * SectorSize
    BY <2>1
  <2>3. SectorByte(drive, s + (i \div b), i % b) = << <<IDE, drive.minor>>, at + i >>
    BY <2>1, <2>2, SectorByteIsThere
  <2> QED
    BY <2>1, <2>3
<1> HIDE DEF at
<1>4. BytesAt(<<IDE, drive.minor>>, at, n)
        = [i \in after |-> << <<IDE, drive.minor>>, at + i >>]
  BY DEF BytesAt
<1> HIDE DEF after
<1>5. {} \union after = after
  OBVIOUS
<1> QED
  BY <1>2, <1>3, <1>4, <1>5 DEF at

----------------------------------------------------------------------------
(* The devices of a drive *)

TableOf(d)        == IF d.signed THEN TableAt(d, 0) ELSE << >>
PartitionOf(d, i) == Partition(d, d.minor * PartitionsPerDrive + i - 1, i - 1, TableOf(d)[i])
Extent            == [start : Nat, size : Nat]

LEMMA DrivesAreDrives ==
  ASSUME NEW m \in Machines, NEW k \in DOMAIN m.drives
  PROVE  LET d == m.drives[k]
         IN  /\ d.major = IDE /\ d.minor \in Nat /\ d.size \in Nat
             /\ d.lba48 \/ d.size <= Lba28
             /\ TableOf(d) \in Seq(Extent)
<1> DEFINE d == m.drives[k]
<1>1. d \in Range(m.drives)
  BY DEF Range
<1> HIDE DEF d
<1>2. /\ d.major = IDE /\ d.minor \in Nat /\ d.size \in Nat
      /\ d.lba48 \/ d.size <= Lba28
      /\ d.signed => TableAt(d, 0) \in Seq(Extent)
  BY <1>1, DriveAssumption DEF Extent
<1>3. TableOf(d) \in Seq(Extent)
  BY <1>2 DEF TableOf
<1> QED
  BY <1>2, <1>3 DEF d

\* The drive, and behind it its partitions in the order of the table.
LEMMA DevicesOfDrive ==
  ASSUME NEW d, TableOf(d) \in Seq(Extent)
  PROVE  /\ Len(DevicesOf(d)) = Len(TableOf(d)) + 1 /\ Len(TableOf(d)) \in Nat
         /\ DOMAIN DevicesOf(d) = 1 .. Len(TableOf(d)) + 1
         /\ DevicesOf(d)[1] = d
         /\ \A i \in 1 .. Len(TableOf(d)) : DevicesOf(d)[i + 1] = PartitionOf(d, i)
<1> DEFINE t  == TableOf(d)
           ps == [i \in DOMAIN t |-> PartitionOf(d, i)]
           D  == {d} \union {PartitionOf(d, i) : i \in DOMAIN t}
<1>1. DOMAIN t = 1 .. Len(t) /\ Len(t) \in Nat
  OBVIOUS
<1>2. DevicesOf(d) = << d >> \o ps
  BY DEF DevicesOf, TableOf, PartitionOf
<1> HIDE DEF t
<1>3. /\ ps \in Seq(D) /\ Len(ps) = Len(t)
      /\ \A i \in 1 .. Len(t) : ps[i] = PartitionOf(d, i)
  BY <1>1
<1>4. << d >> \in Seq(D) /\ Len(<< d >>) = 1 /\ << d >>[1] = d
  OBVIOUS
<1> HIDE DEF ps, D
<1>5. /\ << d >> \o ps \in Seq(D) /\ Len(<< d >> \o ps) = 1 + Len(t)
      /\ (<< d >> \o ps)[1] = d
      /\ \A i \in 1 .. Len(t) : (<< d >> \o ps)[i + 1] = ps[i]
  <2>1. \A i \in 1 .. Len(t) : i + 1 > 1 /\ i + 1 <= 1 + Len(t) /\ (i + 1) - 1 = i
                               /\ i + 1 \in 1 .. 1 + Len(t)
    BY <1>1
  <2>2. << d >> \o ps \in Seq(D) /\ Len(<< d >> \o ps) = 1 + Len(t)
    BY <1>1, <1>3, <1>4
  <2>3. (<< d >> \o ps)[1] = d
    BY <1>1, <1>3, <1>4
  <2>4. \A i \in 1 .. Len(t) : (<< d >> \o ps)[i + 1] = ps[i]
    BY <1>1, <1>3, <1>4, <2>1
  <2> QED
    BY <2>2, <2>3, <2>4
<1> QED
  BY <1>1, <1>2, <1>3, <1>5 DEF t

\* A device of a drive is the drive or one of its partitions.
LEMMA DriveOrPartition ==
  ASSUME NEW d, TableOf(d) \in Seq(Extent), NEW e \in Range(DevicesOf(d))
  PROVE  e = d \/ \E i \in 1 .. Len(TableOf(d)) : e = PartitionOf(d, i)
<1>1. PICK n \in 1 .. Len(TableOf(d)) + 1 : e = DevicesOf(d)[n]
  BY DevicesOfDrive DEF Range
<1>2. CASE n = 1
  BY <1>1, <1>2, DevicesOfDrive
<1>3. CASE n # 1
  <2>1. n - 1 \in 1 .. Len(TableOf(d)) /\ (n - 1) + 1 = n
    BY <1>3, DevicesOfDrive
  <2> QED
    BY <1>1, <2>1, DevicesOfDrive
<1> QED
  BY <1>2, <1>3

LEMMA PartitionFields ==
  ASSUME NEW d, NEW i
  PROVE  LET p == PartitionOf(d, i)
         IN  /\ p.major = HDC /\ p.minor = d.minor * PartitionsPerDrive + i - 1
             /\ p.name = Append(d.name, ToString(i - 1))
             /\ p.start = TableOf(d)[i].start /\ p.size = TableOf(d)[i].size
             /\ p.on = d.minor
BY DEF PartitionOf, Partition

\* The drive is what the minor number of a partition has above its own number.
LEMMA PartitionMinor ==
  ASSUME NEW a \in Nat, NEW i \in 1 .. PartitionsPerDrive
  PROVE  /\ (a * PartitionsPerDrive + i - 1) \div PartitionsPerDrive = a
         /\ (a * PartitionsPerDrive + i - 1) % PartitionsPerDrive = i - 1
<1> PICK b \in Nat \ {0} : b = PartitionsPerDrive
  BY BlockAssumption
<1>1. i - 1 \in 0 .. b - 1
  OBVIOUS
<1>2. (b * a + (i - 1)) \div b = a /\ (b * a + (i - 1)) % b = i - 1
  BY <1>1, Remainder
<1>3. b * a + (i - 1) = a * b + i - 1
  <2>1. PICK x \in Nat : x = b * a /\ x = a * b
    OBVIOUS
  <2>2. x + (i - 1) = x + i - 1
    BY <1>1
  <2> QED
    BY <2>1, <2>2
<1> QED
  BY <1>2, <1>3

\* What booting finds: a floppy drive, an IDE drive or a partition of one.
LEMMA KindsOfDevices ==
  ASSUME NEW m \in Machines, NEW e \in DevicesIn(m)
  PROVE  \/ e.major = FDC /\ e.size \in Nat
         \/ \E k \in DOMAIN m.drives :
              \/ e = m.drives[k] /\ e.major = IDE
              \/ \E i \in 1 .. Len(TableOf(m.drives[k])) :
                   e = PartitionOf(m.drives[k], i) /\ e.major = HDC
<1>1. CASE e \in Range(m.floppies)
  BY <1>1, DriveAssumption
<1>2. CASE \E k \in DOMAIN m.drives : e \in Range(DevicesOf(m.drives[k]))
  <2>1. PICK k \in DOMAIN m.drives : e \in Range(DevicesOf(m.drives[k]))
    BY <1>2
  <2>2. m.drives[k].major = IDE /\ TableOf(m.drives[k]) \in Seq(Extent)
    BY DrivesAreDrives
  <2>3. \/ e = m.drives[k]
        \/ \E i \in 1 .. Len(TableOf(m.drives[k])) : e = PartitionOf(m.drives[k], i)
    BY <2>1, <2>2, DriveOrPartition
  <2>4. \A i : PartitionOf(m.drives[k], i).major = HDC
    BY PartitionFields
  <2> QED
    BY <2>2, <2>3, <2>4
<1> QED
  BY <1>1, <1>2 DEF DevicesIn

\* No device has the numbers of a drive but itself.
LEMMA DriveAlone ==
  ASSUME NEW m \in Machines, NEW k \in DOMAIN m.drives, NEW e \in DevicesIn(m),
         e.major = IDE, e.minor = m.drives[k].minor
  PROVE  e = m.drives[k]
<1>1. FDC # IDE /\ HDC # IDE
  BY DEF FDC, IDE, HDC
<1>2. PICK l \in DOMAIN m.drives : e = m.drives[l]
  BY <1>1, KindsOfDevices
<1> QED
  BY <1>2, DriveAssumption

\* If no drive has more partitions than minor numbers, no device has the numbers
\* of a drive or of its partitions but itself.
LEMMA DevicesTellApart ==
  ASSUME BootInv, Numbered, NEW k \in DOMAIN machine.drives,
         NEW d \in Range(DevicesOf(machine.drives[k])), NEW e \in DevicesIn(machine),
         Id(d) = Id(e)
  PROVE  d = e
<1> DEFINE drive(l) == machine.drives[l]
           parts(l) == 1 .. Len(TableOf(drive(l)))
<1>1. machine \in Machines /\ d.major = e.major /\ d.minor = e.minor
  BY DEF BootInv, Id
<1>2. \A l \in DOMAIN machine.drives :
        /\ drive(l).major = IDE /\ drive(l).minor \in Nat
        /\ TableOf(drive(l)) \in Seq(Extent)
  BY <1>1, DrivesAreDrives
<1>3. ASSUME NEW l \in DOMAIN machine.drives
      PROVE  parts(l) \subseteq 1 .. PartitionsPerDrive
  <2>1. Len(DevicesOf(drive(l))) - 1 <= PartitionsPerDrive
    BY DEF Numbered
  <2>2. Len(DevicesOf(drive(l))) = Len(TableOf(drive(l))) + 1 /\ Len(TableOf(drive(l))) \in Nat
    BY <1>2, DevicesOfDrive
  <2> QED
    BY <2>1, <2>2, BlockAssumption
<1>4. \A l \in DOMAIN machine.drives : \A x \in Range(DevicesOf(drive(l))) :
        x = drive(l) \/ \E i \in parts(l) : x = PartitionOf(drive(l), i)
  BY <1>2, DriveOrPartition
<1>5. e \in Range(machine.floppies) \/
      \E l \in DOMAIN machine.drives : e \in Range(DevicesOf(drive(l)))
  BY DEF DevicesIn
<1>6. FDC # IDE /\ FDC # HDC /\ IDE # HDC
  BY DEF FDC, IDE, HDC
<1>7. \A x \in Range(machine.floppies) : x.major = FDC
  BY <1>1, DriveAssumption
<1>8. \A l, j \in DOMAIN machine.drives : drive(l).minor = drive(j).minor => l = j
  BY <1>1, DriveAssumption
<1> HIDE DEF drive, parts
<1>9. \A l, i : /\ PartitionOf(drive(l), i).major = HDC
                /\ PartitionOf(drive(l), i).minor = drive(l).minor * PartitionsPerDrive + i - 1
  BY PartitionFields
<1>10. PICK l \in DOMAIN machine.drives : e \in Range(DevicesOf(drive(l)))
  <2>1. d = drive(k) \/ \E i \in parts(k) : d = PartitionOf(drive(k), i)
    BY <1>4 DEF drive
  <2>2. d.major \in {IDE, HDC}
    BY <1>2, <1>9, <2>1
  <2> QED
    BY <1>1, <1>5, <1>6, <1>7, <2>2
<1>11. CASE d = drive(k)
  BY <1>1, <1>2, <1>4, <1>6, <1>8, <1>9, <1>10, <1>11
<1>12. ASSUME NEW i \in parts(k), d = PartitionOf(drive(k), i)
       PROVE  d = e
  <2>1. PICK j \in parts(l) : e = PartitionOf(drive(l), j)
    BY <1>1, <1>2, <1>4, <1>6, <1>9, <1>10, <1>12
  <2>2. i \in 1 .. PartitionsPerDrive /\ j \in 1 .. PartitionsPerDrive
    BY <1>3
  <2>3. drive(k).minor * PartitionsPerDrive + i - 1
          = drive(l).minor * PartitionsPerDrive + j - 1
    BY <1>1, <1>9, <1>12, <2>1
  <2>4. drive(k).minor = drive(l).minor
    BY <1>2, <2>2, <2>3, PartitionMinor
  <2>5. i - 1 = j - 1
    BY <1>2, <2>2, <2>3, PartitionMinor
  <2>6. k = l /\ i = j
    BY <1>8, <2>2, <2>4, <2>5
  <2> QED
    BY <1>12, <2>1, <2>6
<1> QED
  BY <1>4, <1>11, <1>12 DEF drive

\* After booting the devices of every drive have their numbers in the list.
LEMMA NumbersListed ==
  ASSUME BootInv, Booted, NEW k \in DOMAIN machine.drives,
         NEW n \in 1 .. Len(DevicesOf(machine.drives[k]))
  PROVE  \E j \in 1 .. Len(devices) : /\ Id(devices[j]) = Id(DevicesOf(machine.drives[k])[n])
                                      /\ devices[j] \in DevicesIn(machine)
<1> DEFINE d == DevicesOf(machine.drives[k])[n]
<1>1. machine \in Machines
  BY DEF BootInv
<1>2. Len(machine.floppies) + k <= probed
  <2>1. /\ DOMAIN machine.drives = 1 .. Len(machine.drives) /\ Len(machine.drives) \in Nat
        /\ Len(machine.floppies) \in Nat
    BY <1>1, MachineAssumption
  <2>2. PICK f \in Nat, c \in Nat : f = Len(machine.floppies) /\ c = Len(machine.drives)
    BY <2>1
  <2>3. k \in 1 .. c /\ probed = f + c
    BY <2>1, <2>2 DEF Booted
  <2>4. f + k <= f + c
    BY <2>3
  <2> QED
    BY <2>2, <2>3, <2>4
<1>3. Has([devices |-> devices, nodes |-> nodes], d)
  BY <1>2 DEF BootInv, DrivesListed
<1>4. devices \in Seq(DevicesIn(machine))
  BY DEF BootInv, Listed
<1>5. PICK j \in 1 .. Len(devices) : Id(devices[j]) = Id(d)
  BY <1>3, <1>4 DEF Has
<1>6. devices[j] \in DevicesIn(machine)
  BY <1>4
<1> QED
  BY <1>5, <1>6

\* A drive is in the list itself.
LEMMA DriveListed ==
  ASSUME BootInv, Booted, NEW k \in DOMAIN machine.drives
  PROVE  \E j \in 1 .. Len(devices) : devices[j] = machine.drives[k]
<1> DEFINE drive == machine.drives[k]
<1>1. machine \in Machines
  BY DEF BootInv
<1>2. drive.major = IDE /\ TableOf(drive) \in Seq(Extent)
  BY <1>1, DrivesAreDrives
<1>3. 1 \in 1 .. Len(DevicesOf(drive)) /\ DevicesOf(drive)[1] = drive
  BY <1>2, DevicesOfDrive
<1>4. PICK j \in 1 .. Len(devices) :
        Id(devices[j]) = Id(drive) /\ devices[j] \in DevicesIn(machine)
  BY <1>3, NumbersListed
<1>5. devices[j].major = drive.major /\ devices[j].minor = drive.minor
  BY <1>4 DEF Id
<1> QED
  BY <1>1, <1>2, <1>4, <1>5, DriveAlone

\* If the numbers tell the devices apart, all of them are.
LEMMA DriveDevicesListed ==
  ASSUME BootInv, Booted, Numbered, NEW k \in DOMAIN machine.drives,
         NEW n \in 1 .. Len(DevicesOf(machine.drives[k]))
  PROVE  \E j \in 1 .. Len(devices) : devices[j] = DevicesOf(machine.drives[k])[n]
<1> DEFINE d == DevicesOf(machine.drives[k])[n]
<1>1. PICK j \in 1 .. Len(devices) : Id(devices[j]) = Id(d) /\ devices[j] \in DevicesIn(machine)
  BY NumbersListed
<1>2. d \in Range(DevicesOf(machine.drives[k]))
  <2>1. machine \in Machines
    BY DEF BootInv
  <2>2. TableOf(machine.drives[k]) \in Seq(Extent)
    BY <2>1, DrivesAreDrives
  <2>3. n \in DOMAIN DevicesOf(machine.drives[k])
    BY <2>2, DevicesOfDrive
  <2> QED
    BY <2>3 DEF Range
<1> HIDE DEF d
<1>3. d = devices[j]
  BY <1>1, <1>2, DevicesTellApart
<1> QED
  BY <1>3 DEF d

\* What is left of a read in a partition with so many sectors.
LeftOf(sectors, at, size) ==
  IF size <= sectors * SectorSize - at THEN size ELSE sectors * SectorSize - at

\* A read of a partition, whose minor number leads to its drive, is a read of the
\* drive, behind where it starts.
LEMMA PartitionReadsBytes ==
  ASSUME BootInv, Booted, NEW k \in DOMAIN machine.drives,
         NEW i \in 1 .. Len(TableOf(machine.drives[k])),
         PartitionOf(machine.drives[k], i).minor \div PartitionsPerDrive
           = machine.drives[k].minor,
         NEW s \in 0 .. TableOf(machine.drives[k])[i].size, NEW size \in Nat
  PROVE  LET drive == machine.drives[k]
             p     == TableOf(drive)[i]
             at    == s * SectorSize
             n     == LeftOf(p.size, at, size)
         IN  p.start * SectorSize + at + n <= drive.size * SectorSize =>
               PartitionRead(devices, PartitionOf(drive, i), at, size)
                 = [n |-> n, data |-> BytesAt(<<IDE, drive.minor>>, p.start * SectorSize + at, n)]
<1> DEFINE drive == machine.drives[k]
           p     == TableOf(drive)[i]
           q     == PartitionOf(drive, i)
           at    == s * SectorSize
           left  == p.size * SectorSize - at
           n     == LeftOf(p.size, at, size)
           fits  == p.start * SectorSize + at + n <= drive.size * SectorSize
<1> SUFFICES ASSUME fits
             PROVE  PartitionRead(devices, q, at, size)
                      = [n |-> n, data |-> BytesAt(<<IDE, drive.minor>>,
                                                   p.start * SectorSize + at, n)]
  OBVIOUS
<1> PICK b \in Nat \ {0} : b = SectorSize
  BY BlockAssumption
<1>1. machine \in Machines /\ devices \in Seq(DevicesIn(machine))
      /\ DOMAIN devices = 1 .. Len(devices)
  <2>1. devices \in Seq(DevicesIn(machine))
    BY DEF BootInv, Listed
  <2> QED
    BY <2>1 DEF BootInv
<1>2. /\ drive.major = IDE /\ drive.minor \in Nat /\ drive.size \in Nat
      /\ drive.lba48 \/ drive.size <= Lba28
      /\ TableOf(drive) \in Seq(Extent)
  BY <1>1, DrivesAreDrives
<1>3. /\ Len(DevicesOf(drive)) = Len(TableOf(drive)) + 1 /\ Len(TableOf(drive)) \in Nat
      /\ DevicesOf(drive)[1] = drive
      /\ DOMAIN DevicesOf(drive) = 1 .. Len(TableOf(drive)) + 1
  BY <1>2, DevicesOfDrive
<1>4. p.start \in Nat /\ p.size \in Nat
  <2>1. p \in Extent
    BY <1>2
  <2> QED
    BY <2>1 DEF Extent
<1>5. q.start = p.start /\ q.size = p.size
      /\ q.minor \div PartitionsPerDrive = drive.minor
  BY PartitionFields
<1>6. PICK j \in 1 .. Len(devices) : devices[j] = drive
  BY DriveListed
<1> DEFINE drives == {x \in DOMAIN devices : /\ devices[x].major = IDE
                                             /\ devices[x].minor = q.minor \div PartitionsPerDrive}
<1>7. drives # {} /\ devices[Min(drives)] = drive
  <2>1. j \in drives
    BY <1>1, <1>2, <1>5, <1>6
  <2>2. drives \in SUBSET Nat
    BY <1>1, SMTT(40)
  <2>3. Min(drives) \in drives
    BY <2>1, <2>2, MinIsFirst
  <2>4. devices[Min(drives)].major = IDE /\ devices[Min(drives)].minor = drive.minor
    BY <1>5, <2>3
  <2>5. devices[Min(drives)] \in DevicesIn(machine)
    <3>1. Min(drives) \in 1 .. Len(devices)
      BY <1>1, <2>3
    <3> HIDE DEF drives
    <3> QED
      BY <1>1, <3>1, SMTT(40)
  <2> HIDE DEF drives
  <2>6. drive = devices[Min(drives)]
    BY <1>1, <2>4, <2>5, DriveAlone
  <2> QED
    BY <2>1, <2>6
<1> HIDE DEF drives, q, p, drive, fits
<1>8. PICK st \in Nat, sz \in Nat, ds \in Nat :
        st = p.start /\ sz = p.size /\ ds = drive.size
  BY <1>2, <1>4
<1>9. PICK x \in Nat, y \in Nat, z \in Nat, w \in Nat :
        /\ x = s * b /\ y = st * b /\ z = sz * b /\ w = ds * b
        /\ (st + s) * b = x + y /\ (st + sz) * b = y + z /\ x <= z
  <2>1. s \in Nat /\ s <= sz
    BY <1>8 DEF p, drive
  <2>2. sz * b = s * b + (sz - s) * b /\ (sz - s) * b \in Nat
    BY <2>1
  <2> QED
    BY <2>1, <2>2
<1>10. at = x /\ left = z - x /\ p.start * SectorSize = y
  BY <1>8, <1>9
<1> HIDE DEF left, at, n
<1>11. y + x + n <= w
  BY <1>8, <1>9, <1>10 DEF fits
<1>12. /\ n \in Nat /\ x + y + n <= w
       /\ InPartition(q, at, size) = n /\ ~ (n < 0)
       /\ ~ (at > (q.start + q.size) * SectorSize)
       /\ at + q.start * SectorSize = x + y
  <2>1. n \in Nat /\ x + y + n <= w
    <3>1. n = IF size <= z - x THEN size ELSE z - x
      BY <1>10 DEF n, left, LeftOf
    <3>2. n \in Nat
      BY <1>9, <3>1
    <3> QED
      BY <1>11, <3>2
  <2>2. InPartition(q, at, size) = IF x + size > z THEN z - x ELSE size
    BY <1>5, <1>8, <1>9, <1>10 DEF InPartition
  <2>3. InPartition(q, at, size) = n
    <3>1. left = z - x
      BY <1>10
    <3>2. n = IF size <= z - x THEN size ELSE z - x
      BY <3>1 DEF n, left, LeftOf
    <3>3. size <= z - x <=> ~ (x + size > z)
      OBVIOUS
    <3> QED
      BY <2>2, <3>2, <3>3
  <2>4. (q.start + q.size) * SectorSize = y + z /\ q.start * SectorSize = y
    BY <1>5, <1>8, <1>9
  <2>5. ~ (x > y + z)
    BY <1>9
  <2> QED
    BY <1>10, <2>1, <2>3, <2>4, <2>5
<1>13. PartitionRead(devices, q, at, size) = DriveRead(drive, (st + s) * SectorSize, n)
  BY <1>7, <1>9, <1>12 DEF PartitionRead, drives
<1>14. DriveRead(drive, (st + s) * SectorSize, n)
         = [n |-> n, data |-> BytesAt(<<IDE, drive.minor>>, (st + s) * SectorSize, n)]
  <2>1. s \in Nat /\ st + s \in Nat
    BY <1>8 DEF p, drive
  <2>2. (st + s) * SectorSize = x + y /\ drive.size * SectorSize = w
    BY <1>8, <1>9
  <2>3. (st + s) * SectorSize + n <= drive.size * SectorSize
    BY <1>12, <2>2
  <2>4. drive.size \in Nat /\ (drive.lba48 \/ drive.size <= Lba28) /\ n \in Nat
    BY <1>2, <1>12 DEF drive
  <2> QED
    BY <2>1, <2>3, <2>4, DriveReadsBytes
<1>15. (st + s) * SectorSize = p.start * SectorSize + at
  <2>1. (st + s) * SectorSize = x + y
    BY <1>9
  <2>2. x + y = y + x
    OBVIOUS
  <2> QED
    BY <1>10, <2>1, <2>2
<1> QED
  BY <1>13, <1>14, <1>15

----------------------------------------------------------------------------
(* The specification *)

BootedInv == TableInv /\ SlotInv /\ BootInv

LEMMA InitBooted == Init => BootedInv
BY InitTables, InitSlots, InitBoot DEF BootedInv

LEMMA NextKeepsBooted == BootedInv /\ [Next]_vars => BootedInv'
BY NextKeepsTables, NextKeepsSlots, NextKeepsBoot DEF BootedInv

\* Opening a device by its name comes to it.
LEMMA DeviceOpens == BootedInv => DeviceReachable
<1> SUFFICES ASSUME BootedInv, Len(nodes) < NodeSlots, NEW i \in DOMAIN devices
             PROVE  Opened(devices[i].name) = devices[i]
  BY DEF DeviceReachable
<1> BootInv
  BY DEF BootedInv
<1>1. /\ machine \in Machines /\ devices \in Seq(DevicesIn(machine))
      /\ i \in 1 .. Len(devices) /\ devices[i] \in DevicesIn(machine)
  BY DEF BootInv, Listed
<1>2. devices[i].name \notin {<< "." >>, << ".", "." >>}
  BY <1>1, MachineAssumption
<1>3. Opened(devices[i].name) = DeviceOf(DevfsFind(devices[i].name))
  BY <1>2, OpenedInDevfs DEF BootedInv
<1>4. DevfsFind(devices[i].name) = DeviceNode(Id(devices[i]))
  BY <1>1, FileIsFound
<1>5. DeviceOf(DeviceNode(Id(devices[i]))) = GetDevice(Id(devices[i]))
  BY DEF DeviceOf, DeviceNode
<1>6. GetDevice(Id(devices[i])) = devices[i]
  BY <1>1, DeviceIsFound
<1> QED
  BY <1>3, <1>4, <1>5, <1>6

\* The path that opens a device by its name, through the mount table, devfs and
\* the list of devices, ends at that device and no other, for any drives and
\* partitions and whatever has been mounted since (device.c:28-60, devfs.c:123-146,
\* vfs.c:242-320).
THEOREM DevicesAreReachable == Spec => []DeviceReachable
BY DeviceOpens, InitBooted, NextKeepsBooted, PTL DEF Spec

\* A read from the beginning of a sector, of a drive or a partition opened by its
\* name, returns the bytes that lie there, cut at the end of the partition: by
\* the file in devfs, the list of devices, the minor number that leads from a
\* partition to its drive, the sector in the table and its address as 48 bits, 28
\* bits or cylinder, head and sector (ide.c:392-442, ata.c:30-71,
\* partitions.c:104-140).
THEOREM BlockReadsRight == Spec => []BlockReadRight
<1>1. BootedInv => BlockReadRight
  <2> SUFFICES ASSUME BootedInv, Booted, Len(nodes) < NodeSlots, Numbered,
                      NEW k \in DOMAIN machine.drives
               PROVE  LET drive == machine.drives[k]
                          table == TableOf(drive)
                      IN  \A i \in 0 .. Len(table) :
                            LET name  == IF i = 0 THEN drive.name
                                         ELSE Append(drive.name, ToString(i - 1))
                                start == IF i = 0 THEN 0 ELSE table[i].start
                                end   == IF i = 0 THEN drive.size ELSE table[i].size
                                dev   == Opened(name)
                            IN  \A s \in 0 .. end, size \in 1 .. SectorSize + 1 :
                                  LET offset == s * SectorSize
                                      left   == end * SectorSize - offset
                                      n      == IF i = 0 \/ size <= left THEN size ELSE left
                                  IN  start * SectorSize + offset + size
                                        <= drive.size * SectorSize =>
                                        BlockRead(devices, dev, offset, size) =
                                          [n |-> n, data |-> Bytes(drive, start, offset, n)]
    BY DEF BlockReadRight, TableOf
  <2> DEFINE drive == machine.drives[k]
             table == TableOf(drive)
             all   == DevicesOf(drive)
  <2> BootInv
    BY DEF BootedInv
  <2>1. /\ drive.major = IDE /\ drive.minor \in Nat
        /\ drive.size \in Nat /\ (drive.lba48 \/ drive.size <= Lba28)
        /\ table \in Seq(Extent)
    <3>1. machine \in Machines
      BY DEF BootInv
    <3> QED
      BY <3>1, DrivesAreDrives
  <2>2. /\ Len(all) = Len(table) + 1 /\ Len(table) \in Nat /\ all[1] = drive
        /\ \A i \in 1 .. Len(table) : all[i + 1] = PartitionOf(drive, i)
    BY <2>1, DevicesOfDrive
  <2>3. \A n \in 1 .. Len(all) : Opened(all[n].name) = all[n]
    <3>1. DOMAIN devices = 1 .. Len(devices)
      <4>1. devices \in Seq(DevicesIn(machine))
        BY DEF BootInv, Listed
      <4> QED
        BY <4>1
    <3>2. DeviceReachable
      BY DeviceOpens
    <3> QED
      BY <3>1, <3>2, DriveDevicesListed DEF DeviceReachable
  <2>4. FDC # IDE /\ FDC # HDC /\ IDE # HDC
    BY DEF FDC, IDE, HDC
  <2>5. ASSUME NEW s \in 0 .. drive.size, NEW size \in 1 .. SectorSize + 1,
               0 * SectorSize + s * SectorSize + size <= drive.size * SectorSize
        PROVE  BlockRead(devices, Opened(drive.name), s * SectorSize, size)
                 = [n |-> size, data |-> Bytes(drive, 0, s * SectorSize, size)]
    <3>1. Opened(drive.name) = drive
      BY <2>2, <2>3
    <3>2. BlockRead(devices, drive, s * SectorSize, size)
            = DriveRead(drive, s * SectorSize, size)
      BY <2>1, <2>4 DEF BlockRead
    <3> PICK b \in Nat : b = SectorSize
      BY BlockAssumption
    <3>3. 0 * b + s * b = s * b /\ s \in Nat /\ size \in Nat
      BY <2>1
    <3>4. DriveRead(drive, s * SectorSize, size)
            = [n |-> size, data |-> BytesAt(<<IDE, drive.minor>>, s * SectorSize, size)]
      <4>1. s * SectorSize + size <= drive.size * SectorSize
        BY <2>5, <3>3
      <4> QED
        BY <2>1, <3>3, <4>1, DriveReadsBytes
    <3> QED
      BY <3>1, <3>2, <3>3, <3>4 DEF Bytes
  <2>6. ASSUME NEW i \in 1 .. Len(table), NEW s \in 0 .. table[i].size,
               NEW size \in 1 .. SectorSize + 1,
               table[i].start * SectorSize + s * SectorSize + size
                 <= drive.size * SectorSize
        PROVE  LET left == table[i].size * SectorSize - s * SectorSize
                   n    == IF size <= left THEN size ELSE left
               IN  BlockRead(devices, Opened(Append(drive.name, ToString(i - 1))),
                             s * SectorSize, size)
                     = [n |-> n, data |-> Bytes(drive, table[i].start, s * SectorSize, n)]
    <3>1. Opened(Append(drive.name, ToString(i - 1))) = PartitionOf(drive, i)
      <4>1. i + 1 \in 1 .. Len(all)
        BY <2>2
      <4>2. PartitionOf(drive, i).name = Append(drive.name, ToString(i - 1))
        BY PartitionFields
      <4>3. all[i + 1] = PartitionOf(drive, i) /\ Opened(all[i + 1].name) = all[i + 1]
        BY <2>2, <2>3, <4>1
      <4> HIDE DEF drive, all
      <4> QED
        BY <4>2, <4>3
    <3>2. BlockRead(devices, PartitionOf(drive, i), s * SectorSize, size)
            = PartitionRead(devices, PartitionOf(drive, i), s * SectorSize, size)
      <4>1. PartitionOf(drive, i).major = HDC
        BY PartitionFields
      <4> QED
        BY <2>4, <4>1 DEF BlockRead
    <3>3. size \in Nat
      BY BlockAssumption
    <3>4. PartitionOf(drive, i).minor \div PartitionsPerDrive = drive.minor
      <4>1. i \in 1 .. PartitionsPerDrive
        <5>1. Len(all) - 1 <= PartitionsPerDrive
          BY DEF Numbered
        <5> QED
          BY <2>2, <5>1, BlockAssumption
      <4>2. PartitionOf(drive, i).minor = drive.minor * PartitionsPerDrive + i - 1
        BY PartitionFields
      <4> QED
        BY <2>1, <4>1, <4>2, PartitionMinor
    <3> DEFINE left == table[i].size * SectorSize - s * SectorSize
               n    == IF size <= left THEN size ELSE left
    <3>5. table[i].start * SectorSize + s * SectorSize + n <= drive.size * SectorSize
      <4>1. table[i].start \in Nat /\ table[i].size \in Nat /\ s \in Nat /\ drive.size \in Nat
        <5>1. table[i] \in Extent
          BY <2>1
        <5> QED
          BY <2>1, <5>1 DEF Extent
      <4>2. /\ table[i].start * SectorSize \in Nat /\ table[i].size * SectorSize \in Nat
            /\ s * SectorSize \in Nat /\ drive.size * SectorSize \in Nat
        BY <4>1, BlockAssumption, SMTT(40)
      <4> QED
        BY <2>6, <3>3, <4>2, SMTT(40)
    <3>6. n = LeftOf(table[i].size, s * SectorSize, size)
      BY DEF LeftOf
    <3>7. PartitionRead(devices, PartitionOf(drive, i), s * SectorSize, size)
            = [n |-> LeftOf(table[i].size, s * SectorSize, size),
               data |-> BytesAt(<<IDE, drive.minor>>,
                                table[i].start * SectorSize + s * SectorSize,
                                LeftOf(table[i].size, s * SectorSize, size))]
      BY <3>3, <3>4, <3>5, <3>6, PartitionReadsBytes
    <3> QED
      BY <3>1, <3>2, <3>6, <3>7 DEF Bytes
  <2>7. \A i \in 0 .. Len(table) : i = 0 \/ i \in 1 .. Len(table)
    BY <2>2
  <2> QED
    BY <2>5, <2>6, <2>7, SMTT(40)
<1> QED
  BY <1>1, InitBooted, NextKeepsBooted, PTL DEF Spec
----------------------------------------------------------------------------
(* The volumes that are mounted *)

\* A mount of a system that reads a device was made after booting, with a device
\* that is in the list and holds a volume of that system.
VolumeMount(m) ==
  /\ Booted
  /\ \E j \in 1 .. Len(devices) : devices[j] = m.dev
  /\ Id(m.dev) \in DOMAIN VolumeOn /\ VolumeOn[Id(m.dev)].fs = m.root
  /\ m.root = "ext2" => Ext2Mounts(devices, m.dev, Volume(m))

\* A mount whose supernode was made by a system that reads a device.
Reads(m) == m.root \in OnDevice

\* Every such mount was made so.
VolumeInv == \A i \in Slots(MountSlots) : Reads(mounts[i]) => VolumeMount(mounts[i])

\* The mount of devfs reads no device.
LEMMA InitVolumes == Init => VolumeInv
<1> SUFFICES ASSUME Init, NEW i \in Slots(MountSlots), Reads(mounts[i]) PROVE FALSE
  BY DEF VolumeInv
<1> DEFINE first == [NoMount EXCEPT !.enabled = TRUE, !.name = "DEVICE", !.system = 2,
                                    !.root = "devfs"]
<1>1. mounts[i] = first \/ mounts[i] = NoMount
  <2>1. mounts = [k \in Slots(MountSlots) |-> IF k = 1 THEN first ELSE NoMount]
    BY DEF Init
  <2> QED
    BY <2>1
<1>2. NoMount.root = Nothing
  BY DEF NoMount
<1>3. first.root = "devfs"
  BY DEF NoMount
<1> HIDE DEF first
<1>4. Nothing \notin OnDevice
  BY MachineAssumption DEF OnDevice, Tags
<1> QED
  BY <1>1, <1>2, <1>3, <1>4 DEF Reads, OnDevice

\* While devices are found nothing is mounted from one.
LEMMA NothingIsMounted ==
  ASSUME BootInv, VolumeInv, InitFloppy \/ InitDrive
  PROVE  \A i \in Slots(MountSlots) : ~ Reads(mounts[i])
<1>1. /\ machine.floppies \in Seq(DevicesIn(machine))
      /\ machine.drives \in Seq(Range(machine.drives))
  BY MachineAssumption DEF BootInv
<1>2. PICK f \in Nat, c \in Nat : f = Len(machine.floppies) /\ c = Len(machine.drives)
  BY <1>1
<1>3. DOMAIN machine.floppies = 1 .. f /\ DOMAIN machine.drives = 1 .. c
  BY <1>1, <1>2
<1>4. probed + 1 \in 1 .. f \/ probed + 1 - f \in 1 .. c
  BY <1>2, <1>3 DEF InitFloppy, InitDrive
<1>5. probed \in 0 .. f + c
  BY <1>2 DEF BootInv
<1>6. ~ (probed = f + c)
  BY <1>4, <1>5
<1>7. ~ Booted
  BY <1>2, <1>6 DEF Booted
<1> QED
  BY <1>7 DEF VolumeInv, VolumeMount

\* The device a mount is given is in the list.
LEMMA OpenedIsListed ==
  ASSUME BootInv, NEW file, Opened(file) # Nothing
  PROVE  \E j \in 1 .. Len(devices) : devices[j] = Opened(file)
<1> DEFINE node  == Lookup("DEVICE", << file >>)
           found == {i \in DOMAIN devices : Id(devices[i]) = node.dev}
<1>1. Opened(file) = GetDevice(node.dev)
  BY DEF Opened, DeviceOf
<1>2. found # {} /\ Opened(file) = devices[Min(found)]
  BY <1>1 DEF GetDevice
<1>3. DOMAIN devices = 1 .. Len(devices)
  <2>1. devices \in Seq(DevicesIn(machine))
    BY DEF BootInv, Listed
  <2> QED
    BY <2>1
<1>4. found \in SUBSET Nat /\ found \subseteq 1 .. Len(devices)
  BY <1>3
<1>5. Min(found) \in found
  BY <1>2, <1>4, MinIsFirst
<1> QED
  BY <1>2, <1>4, <1>5

\* sys_mount: a system that reads a device is given one that has its volume.
LEMMA MountKeepsVolumes ==
  ASSUME TableInv, BootInv, VolumeInv, NEW file, NEW tag, NEW name, NEW remount \in BOOLEAN,
         Mount(file, tag, name, remount)
  PROVE  VolumeInv'
<1> DEFINE sys  == SystemOf(tag)
           slot == SlotFor(name, remount)
<1>1. /\ Booted /\ sys # 0 /\ slot # 0
      /\ UNCHANGED <<machine, probed, devices, nodes>>
  BY DEF Mount
<1>2. PICK dev :
        /\ tag \in OnDevice => /\ dev # Nothing /\ dev = Opened(file)
                               /\ Id(dev) \in DOMAIN VolumeOn /\ VolumeOn[Id(dev)].fs = tag
        /\ mounts' = [[i \in DOMAIN mounts |-> Overwritten(mounts[i], MountUses(tag, dev))]
                        EXCEPT ![slot] = MountedIn(mounts[slot], name, sys, dev,
                                                   CanMount(tag, dev))]
  BY DEF Mount
<1> DEFINE ok   == CanMount(tag, dev)
           new  == MountedIn(mounts[slot], name, sys, dev, ok)
           kept == [i \in DOMAIN mounts |-> Overwritten(mounts[i], MountUses(tag, dev))]
<1>3. slot \in Slots(MountSlots)
  BY <1>1, SlotForIsFirst
<1>4. /\ DOMAIN mounts = Slots(MountSlots)
      /\ \A i \in Slots(MountSlots) : MountRecord(mounts[i])
  BY DEF TableInv, TablesTyped
<1>5. ok \in BOOLEAN
  BY DEF CanMount, FatMounts, ReadsSector, Ext2Mounts, ReadsBlock
<1>6. systems[sys].tag = tag
  <2> DEFINE found == {i \in DOMAIN systems : systems[i].enabled /\ systems[i].tag = tag}
  <2>1. found # {} /\ sys = Min(found)
    BY <1>1 DEF SystemOf
  <2>2. found \in SUBSET Nat
    BY SlotsAreNumbers, VfsAssumption DEF TableInv, TablesTyped
  <2>3. sys \in found
    BY <2>1, <2>2, MinIsFirst
  <2> QED
    BY <2>3
<1>7. tag = "ext2" /\ ok => Ext2Mounts(devices, dev, VolumeOn[Id(dev)].volume)
  BY DEF CanMount
<1> HIDE DEF ok, sys, slot
<1>8. /\ mounts'[slot] = new
      /\ \A i \in Slots(MountSlots) : i # slot => mounts'[i] = kept[i]
  BY <1>2, <1>3, <1>4 DEF ok
<1>9. /\ new.dev = dev
      /\ new.root = IF ok THEN tag ELSE Nothing
  BY <1>3, <1>4, <1>5, <1>6, MountedInRecord
<1> HIDE DEF new
<1> SUFFICES ASSUME NEW i \in Slots(MountSlots), Reads(mounts'[i])
             PROVE  VolumeMount(mounts[i])'
  BY DEF VolumeInv, Reads
<1>10. CASE i # slot
  <2>1. mounts'[i].dev = mounts[i].dev /\ mounts'[i].root = mounts[i].root
    BY <1>4, <1>8, <1>10, OverwrittenKeeps
  <2>2. VolumeMount(mounts[i])
    BY <2>1 DEF VolumeInv, Reads
  <2> QED
    BY <1>1, <2>1, <2>2 DEF VolumeMount, Booted, Volume
<1>11. CASE i = slot
  <2>1. ok /\ new.root = tag
    BY <1>8, <1>9, <1>11, MachineAssumption DEF Reads, OnDevice, Tags
  <2>2. tag \in OnDevice
    BY <1>8, <1>11, <2>1 DEF Reads
  <2>3. \E j \in 1 .. Len(devices) : devices[j] = dev
    BY <1>2, <2>2, OpenedIsListed
  <2>4. mounts'[i].dev = dev /\ mounts'[i].root = tag
    BY <1>8, <1>9, <1>11, <2>1
  <2>5. tag = "ext2" => Ext2Mounts(devices, dev, VolumeOn[Id(dev)].volume)
    BY <1>7, <2>1
  <2> QED
    BY <1>1, <1>2, <2>2, <2>3, <2>4, <2>5 DEF VolumeMount, Booted, Volume
<1> QED
  BY <1>10, <1>11

\* Devices are found before anything is mounted from one, and none is taken away.
LEMMA NextKeepsVolumes ==
  TableInv /\ BootInv /\ VolumeInv /\ [Next]_vars => VolumeInv'
<1> SUFFICES ASSUME TableInv, BootInv, VolumeInv, [Next]_vars PROVE VolumeInv'
  OBVIOUS
<1>1. CASE InitFloppy \/ InitDrive
  <2>1. UNCHANGED mounts
    BY <1>1 DEF InitFloppy, InitDrive, Registered
  <2>2. \A i \in Slots(MountSlots) : ~ Reads(mounts[i])
    BY <1>1, NothingIsMounted
  <2> QED
    BY <2>1, <2>2, SMTT(40) DEF VolumeInv, Reads
<1>2. ASSUME NEW tag, RegisterFilesystem(tag) \/ UnregisterFilesystem(tag) PROVE VolumeInv'
  BY <1>2 DEF RegisterFilesystem, UnregisterFilesystem, VolumeInv, Reads, VolumeMount,
              Booted, Volume
<1>3. ASSUME NEW n, Allocate(n) PROVE VolumeInv'
  <2>1. /\ mounts' = [i \in DOMAIN mounts |-> Overwritten(mounts[i], Block(n))]
        /\ UNCHANGED <<machine, probed, devices, nodes, systems>>
    BY <1>3 DEF Allocate
  <2>2. DOMAIN mounts = Slots(MountSlots)
        /\ \A i \in Slots(MountSlots) : MountRecord(mounts[i])
    BY DEF TableInv, TablesTyped
  <2>3. \A i \in Slots(MountSlots) :
          mounts'[i].dev = mounts[i].dev /\ mounts'[i].root = mounts[i].root
    BY <2>1, <2>2, OverwrittenKeeps
  <2> QED
    BY <2>1, <2>3, ZenonT(60) DEF VolumeInv, Reads, VolumeMount, Booted, Volume
<1>4. CASE UNCHANGED vars
  BY <1>4 DEF vars, VolumeInv, Reads, VolumeMount, Booted, Volume
<1>5. ASSUME NEW file, NEW tag, NEW name, NEW remount \in BOOLEAN,
             Mount(file, tag, name, remount)
      PROVE  VolumeInv'
  BY <1>5, MountKeepsVolumes
<1> QED
  BY <1>1, <1>2, <1>3, <1>4, <1>5 DEF Next
----------------------------------------------------------------------------
(* What is lost of a FAT *)

\* The heap has gone past a number of its bytes, and a number of them are lost.
LossInv == \A i \in Slots(MountSlots) : mounts[i].heap \in Nat /\ mounts[i].lost \in Nat

\* What holds after every step, with the volumes.
MountedInv == BootedInv /\ VolumeInv /\ LossInv

\* A FAT has so many bytes.
LEMMA FatBytesNumber ==
  ASSUME VolumeInv, NEW i \in Slots(MountSlots), mounts[i].root = "fat12"
  PROVE  FatBytes(Volume(mounts[i])) \in Nat
<1>1. VolumeMount(mounts[i])
  BY DEF VolumeInv, Reads, OnDevice
<1>2. FatFormatted(Volume(mounts[i]))
  BY <1>1, VolumeAssumption DEF VolumeMount, Volume
<1>3. Volume(mounts[i]).spf \in Nat /\ SectorSize \in Nat
  BY <1>2, BlockAssumption DEF FatFormatted
<1> QED
  BY <1>3 DEF FatBytes

\* What is lost are never more bytes than there are, and never fewer than before.
LEMMA LostAfterNumber ==
  ASSUME NEW m, m.heap \in Nat, m.lost \in Nat, FatBytes(Volume(m)) \in Nat, NEW n \in Nat
  PROVE  LostAfter(m, n) \in Nat /\ m.lost <= LostAfter(m, n)
BY DEF LostAfter, Cut

\* An allocation takes and writes a number of bytes.
LEMMA OverwrittenLoss ==
  ASSUME VolumeInv, LossInv, NEW i \in Slots(MountSlots), MountRecord(mounts[i]),
         NEW use, use.taken \in Nat, use.written \in Nat
  PROVE  LET new == Overwritten(mounts[i], use) IN new.heap \in Nat /\ new.lost \in Nat
<1> DEFINE m == mounts[i]
<1>1. m.heap \in Nat /\ m.lost \in Nat
  BY DEF LossInv
<1>2. CASE m.root # "fat12"
  BY <1>1, <1>2 DEF Overwritten
<1>3. CASE m.root = "fat12"
  <2>1. FatBytes(Volume(m)) \in Nat
    BY <1>3, FatBytesNumber
  <2>2. LostAfter(m, use.written) \in Nat /\ Cut(m.heap + use.taken, FatBytes(Volume(m))) \in Nat
    BY <1>1, <2>1, LostAfterNumber DEF Cut
  <2> QED
    BY <1>3, <2>2 DEF Overwritten, MountRecord
<1> QED
  BY <1>2, <1>3

\* fat12_mount and ext2_mount take and write a number of bytes, too.
LEMMA MountUsesNumbers ==
  ASSUME NEW tag, NEW dev,
         tag = "fat12" => Id(dev) \in DOMAIN VolumeOn /\ VolumeOn[Id(dev)].fs = tag
  PROVE  MountUses(tag, dev).taken \in Nat /\ MountUses(tag, dev).written \in Nat
<1> DEFINE v == VolumeOn[Id(dev)].volume
<1>1. PICK b \in Nat \ {0} : b = SectorSize
  BY BlockAssumption
<1>2. CASE tag = "fat12"
  <2> DEFINE copied == {i \in 0 .. v.spf - 1 :
                          \A j \in 0 .. i : ReadsSector(devices, dev, FatOffset(v) + j)}
             taken  == FatInfoBytes + BpbBytes
  <2>1. v.spf \in Nat
    BY <1>2, VolumeAssumption DEF FatFormatted
  <2>2. Cardinality(copied) \in Nat
    <3>1. IsFiniteSet(0 .. v.spf - 1) /\ copied \in SUBSET (0 .. v.spf - 1)
      BY <2>1, FS_Interval
    <3> HIDE DEF copied
    <3> QED
      BY <3>1, FS_Subset, FS_CardinalityType
  <2>3. FatUses(devices, dev, v)
          = [taken |-> taken,
             written |-> IF ReadsSector(devices, dev, 0)
                         THEN taken + Cardinality(copied) * SectorSize ELSE taken]
    BY DEF FatUses
  <2>4. MountUses(tag, dev) = FatUses(devices, dev, v)
    BY <1>2 DEF MountUses
  <2> PICK c \in Nat : c = Cardinality(copied)
    BY <2>2
  <2>5. taken \in Nat /\ taken + c * b \in Nat
    BY <1>1, FatAssumption
  <2> HIDE DEF copied, taken
  <2> QED
    BY <1>1, <2>3, <2>4, <2>5
<1>3. CASE tag = "ext2"
  <2>1. BlockBytes \in Nat
    BY <1>1 DEF BlockBytes
  <2>2. BlockBytes \div InodesPerBlock \in Nat
    BY <2>1, DivMod, Ext2Assumption
  <2>3. Ext2Uses(devices, dev, v) \in Nat
    BY <2>1, <2>2, Ext2Assumption DEF Ext2Uses
  <2> QED
    BY <1>3, <2>3 DEF MountUses, Block
<1>4. CASE tag \notin {"fat12", "ext2"}
  BY <1>4 DEF MountUses, Block
<1> QED
  BY <1>2, <1>3, <1>4

LEMMA InitLoss == Init => LossInv
<1> SUFFICES ASSUME Init, NEW i \in Slots(MountSlots)
             PROVE  mounts[i].heap \in Nat /\ mounts[i].lost \in Nat
  BY DEF LossInv
<1> DEFINE first == [NoMount EXCEPT !.enabled = TRUE, !.name = "DEVICE", !.system = 2,
                                    !.root = "devfs"]
<1>1. mounts[i] = first \/ mounts[i] = NoMount
  <2>1. mounts = [k \in Slots(MountSlots) |-> IF k = 1 THEN first ELSE NoMount]
    BY DEF Init
  <2> QED
    BY <2>1
<1>2. first.heap = 0 /\ first.lost = 0 /\ NoMount.heap = 0 /\ NoMount.lost = 0
  BY DEF NoMount
<1> HIDE DEF first
<1> QED
  BY <1>1, <1>2

\* A new mount begins with a FAT that nothing lies over.
LEMMA MountKeepsLoss ==
  ASSUME TableInv, VolumeInv, LossInv, NEW file, NEW tag, NEW name, NEW remount \in BOOLEAN,
         Mount(file, tag, name, remount)
  PROVE  LossInv'
<1> DEFINE sys  == SystemOf(tag)
           slot == SlotFor(name, remount)
<1>1. slot # 0
  BY DEF Mount
<1>2. PICK dev :
        /\ tag \in OnDevice => Id(dev) \in DOMAIN VolumeOn /\ VolumeOn[Id(dev)].fs = tag
        /\ mounts' = [[i \in DOMAIN mounts |-> Overwritten(mounts[i], MountUses(tag, dev))]
                        EXCEPT ![slot] = MountedIn(mounts[slot], name, sys, dev,
                                                   CanMount(tag, dev))]
  BY DEF Mount
<1> DEFINE new  == MountedIn(mounts[slot], name, sys, dev, CanMount(tag, dev))
           kept == [i \in DOMAIN mounts |-> Overwritten(mounts[i], MountUses(tag, dev))]
<1>3. slot \in Slots(MountSlots)
  BY <1>1, SlotForIsFirst
<1>4. /\ DOMAIN mounts = Slots(MountSlots)
      /\ \A i \in Slots(MountSlots) : MountRecord(mounts[i])
  BY DEF TableInv, TablesTyped
<1>5. MountUses(tag, dev).taken \in Nat /\ MountUses(tag, dev).written \in Nat
  BY <1>2, MountUsesNumbers DEF OnDevice
<1>6. new.heap = 0 /\ new.lost = 0
  BY <1>3, <1>4 DEF MountRecord, MountedIn
<1> HIDE DEF sys, slot
<1>7. /\ mounts'[slot] = new
      /\ \A i \in Slots(MountSlots) : i # slot => mounts'[i] = kept[i]
  BY <1>2, <1>3, <1>4
<1>8. \A i \in Slots(MountSlots) : kept[i].heap \in Nat /\ kept[i].lost \in Nat
  BY <1>4, <1>5, OverwrittenLoss
<1> HIDE DEF new, kept
<1> QED
  BY <1>6, <1>7, <1>8 DEF LossInv

LEMMA NextKeepsLoss == TableInv /\ VolumeInv /\ LossInv /\ [Next]_vars => LossInv'
<1> SUFFICES ASSUME TableInv, VolumeInv, LossInv, [Next]_vars PROVE LossInv'
  OBVIOUS
<1>1. CASE UNCHANGED mounts
  BY <1>1 DEF LossInv
<1>2. CASE InitFloppy \/ InitDrive \/ UNCHANGED vars
  BY <1>1, <1>2 DEF InitFloppy, InitDrive, Registered, vars
<1>3. ASSUME NEW tag, RegisterFilesystem(tag) \/ UnregisterFilesystem(tag) PROVE LossInv'
  BY <1>1, <1>3 DEF RegisterFilesystem, UnregisterFilesystem
<1>4. ASSUME NEW n \in Blocks, Allocate(n) PROVE LossInv'
  <2>1. mounts' = [i \in DOMAIN mounts |-> Overwritten(mounts[i], Block(n))]
    BY <1>4 DEF Allocate
  <2>2. DOMAIN mounts = Slots(MountSlots)
        /\ \A i \in Slots(MountSlots) : MountRecord(mounts[i])
    BY DEF TableInv, TablesTyped
  <2>3. Block(n).taken \in Nat /\ Block(n).written \in Nat
    BY VfsAssumption DEF Block
  <2>4. \A i \in Slots(MountSlots) : mounts'[i] = Overwritten(mounts[i], Block(n))
    BY <2>1, <2>2, SMTT(40)
  <2> QED
    BY <2>2, <2>3, <2>4, OverwrittenLoss DEF LossInv
<1>5. ASSUME NEW file, NEW tag, NEW name, NEW remount \in BOOLEAN,
             Mount(file, tag, name, remount)
      PROVE  LossInv'
  BY <1>5, MountKeepsLoss
<1> QED
  BY <1>2, <1>3, <1>4, <1>5 DEF Next

\* MountedInv is inductive.
LEMMA InitMounted == Init => MountedInv
BY InitBooted, InitVolumes, InitLoss DEF MountedInv

LEMMA NextKeepsMounted == MountedInv /\ [Next]_vars => MountedInv'
BY NextKeepsBooted, NextKeepsVolumes, NextKeepsLoss DEF MountedInv, BootedInv

\* Every file of devfs leads to a device in the list, which keeps all that were
\* registered, no two of them with the same numbers (device.c:28-60, 79-97), and
\* the tables of file systems and mounts hold what sys_mount may put there.
THEOREM VfsTypeCorrect == Spec => []TypeOK
<1>1. MountedInv => TypeOK
  <2> SUFFICES ASSUME MountedInv PROVE TypeOK
    OBVIOUS
  <2> BootInv
    BY DEF MountedInv, BootedInv
  <2>1. /\ machine \in Machines /\ probed \in 0 .. Len(machine.floppies) + Len(machine.drives)
        /\ DOMAIN devices = 1 .. Len(devices)
        /\ \A i, j \in 1 .. Len(devices) : Id(devices[i]) = Id(devices[j]) => i = j
    <3>1. devices \in Seq(DevicesIn(machine))
      BY DEF BootInv, Listed
    <3>2. DOMAIN devices = 1 .. Len(devices)
      BY <3>1
    <3> HIDE DEF Id
    <3> QED
      BY <3>2 DEF BootInv, Listed
  <2>2. /\ nodes \in Seq({FileOf(d) : d \in DevicesIn(machine)})
        /\ Len(nodes) = IF Len(devices) < NodeSlots THEN Len(devices) ELSE NodeSlots
        /\ \A i \in 1 .. Len(nodes) : nodes[i] = FileOf(devices[i])
    BY DEF BootInv, Listed
  <2>3. /\ Len(nodes) <= NodeSlots /\ DOMAIN nodes = 1 .. Len(nodes)
        /\ \A i \in 1 .. Len(nodes) : i \in 1 .. Len(devices)
    <3>1. Len(devices) \in Nat
      BY DEF BootInv, Listed
    <3> QED
      BY <2>2, <3>1, VfsAssumption
  <2>4. ASSUME NEW i \in DOMAIN nodes
        PROVE  GetDevice(nodes[i].id) # Nothing
    <3>1. nodes[i].id = Id(devices[i])
      <4>1. nodes[i] = [name |-> devices[i].name, id |-> Id(devices[i])]
        BY <2>2, <2>3 DEF FileOf
      <4> HIDE DEF Id
      <4> QED
        BY <4>1
    <3> QED
      BY <2>1, <2>3, <3>1, DeviceIsFound
  <2>5. \A i \in DOMAIN systems : /\ systems[i].tag \in Tags \union {Nothing}
                                  /\ systems[i].enabled \in BOOLEAN
                                  /\ systems[i].count \in 0 .. MaxCount
    BY DEF MountedInv, BootedInv, TableInv, TablesTyped, SystemRecord, SlotInv, SystemSlot
  <2>6. \A i \in DOMAIN mounts :
          /\ mounts[i].enabled \in BOOLEAN /\ mounts[i].system \in 0 .. SystemSlots
          /\ mounts[i].name \in Names \union {Nothing, "DEVICE"}
          /\ mounts[i].heap \in Nat /\ mounts[i].lost \in Nat
    BY DEF MountedInv, BootedInv, TableInv, TablesTyped, MountRecord, SlotInv, MountSlot, LossInv
  <2>7. super \in 0 .. MountSlots
    BY DEF MountedInv, BootedInv, SlotInv
  <2> QED
    BY <2>1, <2>3, <2>4, <2>5, <2>6, <2>7 DEF TypeOK
<1> QED
  BY <1>1, InitMounted, NextKeepsMounted, PTL DEF Spec
----------------------------------------------------------------------------
(* What a read inside a sector returns *)

\* A position on a device is in a sector before its end.
LEMMA SectorOf ==
  ASSUME NEW pos \in Nat, pos % SectorSize = 0
  PROVE  pos \div SectorSize \in Nat /\ pos = (pos \div SectorSize) * SectorSize
<1> PICK b \in Nat \ {0} : b = SectorSize
  BY BlockAssumption
<1>1. pos \div b \in Nat /\ pos = b * (pos \div b) + (pos % b)
  BY DivMod
<1>2. pos = b * (pos \div b)
  BY <1>1
<1> QED
  BY <1>1, <1>2

\* If a sector begins before the end of a device, all of it is there.
LEMMA SectorFits ==
  ASSUME NEW s \in Nat, NEW e \in Nat, NEW b \in Nat
  PROVE  /\ s * b \in Nat /\ e * b \in Nat
         /\ s * b < e * b => s * b + b <= e * b
         /\ s * b <= e * b => s <= e \/ b = 0
<1>1. s * b \in Nat /\ e * b \in Nat
  OBVIOUS
<1>2. ASSUME s < e PROVE s * b + b <= e * b
  <2>1. PICK k \in Nat : e = s + 1 + k
    <3>1. e - s - 1 \in Nat /\ e = s + 1 + (e - s - 1)
      BY <1>2
    <3> QED
      BY <3>1
  <2>2. e * b = s * b + b + k * b /\ k * b \in Nat
    BY <2>1
  <2> QED
    BY <1>1, <2>2
<1>3. ASSUME e <= s PROVE e * b <= s * b
  <2>1. PICK k \in Nat : s = e + k
    <3>1. s - e \in Nat /\ s = e + (s - e)
      BY <1>3
    <3> QED
      BY <3>1
  <2>2. s * b = e * b + k * b /\ k * b \in Nat
    BY <2>1
  <2> QED
    BY <1>1, <2>2
<1>4. ASSUME s * b < e * b PROVE s * b + b <= e * b
  BY <1>1, <1>2, <1>3, <1>4
<1>5. ASSUME s * b <= e * b, b # 0 PROVE s <= e
  <2>1. ASSUME e < s PROVE FALSE
    <3>1. PICK k \in Nat : s = e + 1 + k
      <4>1. s - e - 1 \in Nat /\ s = e + 1 + (s - e - 1)
        BY <2>1
      <4> QED
        BY <4>1
    <3>2. s * b = e * b + b + k * b /\ k * b \in Nat
      BY <3>1
    <3> QED
      BY <1>1, <1>5, <3>2
  <2> QED
    BY <2>1
<1> QED
  BY <1>1, <1>4, <1>5

\* A read at the beginning of a sector comes back.
LEMMA DriveComesBack ==
  ASSUME NEW drive, NEW pos \in Nat, pos % SectorSize = 0, NEW n \in Nat
  PROVE  DriveRead(drive, pos, n).n = n
<1>1. ~ (n < 0) /\ ~ (0 > 0)
  OBVIOUS
<1> QED
  BY <1>1 DEF DriveRead

\* A read that returns a number comes back.
LEMMA ReadsAreNotRunaway ==
  ASSUME NEW r, r.n \in Nat PROVE r # Runaway
BY BlockAssumption DEF Runaway

\* What was read is what the device has from a position on, up to its end.
ReadsOf(dev, pos, n, r) ==
  /\ r # Runaway
  /\ \A i \in 0 .. n - 1 : pos + i < dev.size * SectorSize =>
       i \in DOMAIN r.data /\ r.data[i] = OnDisk(dev, pos + i)

\* A read that hands over the bytes the disk has from pos on reads what is there.
LEMMA BytesAreRead ==
  ASSUME NEW dev, NEW pos, NEW n, NEW r, r # Runaway,
         NEW disk, r = [n |-> n, data |-> BytesAt(disk, pos, n)],
         \A i \in 0 .. n - 1 : BytesAt(disk, pos, n)[i] = OnDisk(dev, pos + i)
  PROVE  ReadsOf(dev, pos, n, r)
<1>1. r.data = BytesAt(disk, pos, n)
  OBVIOUS
<1>2. DOMAIN BytesAt(disk, pos, n) = 0 .. n - 1
  BY DEF BytesAt
<1> QED
  BY <1>1, <1>2 DEF ReadsOf

\* The three kinds of devices: a floppy, a drive, a partition.
LEMMA FloppyReads ==
  ASSUME NEW dev, dev.major = FDC, dev.size \in Nat, NEW pos \in Nat, NEW n \in Nat,
         (pos % SectorSize) + n <= SectorSize, pos < dev.size * SectorSize
  PROVE  ReadsOf(dev, pos, n, FloppyRead(dev, pos, n))
<1>1. ~ (pos >= dev.size * SectorSize)
  <2> PICK b \in Nat : b = SectorSize
    BY BlockAssumption
  <2>1. dev.size * b \in Int
    OBVIOUS
  <2> QED
    BY <2>1
<1>2. ~ (n + (pos % SectorSize) > SectorSize)
  <2> PICK b \in Nat \ {0} : b = SectorSize
    BY BlockAssumption
  <2>1. pos % b \in Int
    BY DivMod
  <2> QED
    BY <2>1
<1>3. FloppyRead(dev, pos, n) = [n |-> n, data |-> BytesAt(<<FDC, dev.minor>>, pos, n)]
  BY <1>1, <1>2 DEF FloppyRead
<1>4. \A i \in 0 .. n - 1 : BytesAt(<<FDC, dev.minor>>, pos, n)[i] = OnDisk(dev, pos + i)
  BY DEF BytesAt, OnDisk, Id, FDC, HDC
<1>5. FloppyRead(dev, pos, n) # Runaway
  BY <1>3, ReadsAreNotRunaway
<1> QED
  BY <1>3, <1>4, <1>5, BytesAreRead

LEMMA DriveReads ==
  ASSUME NEW dev, dev.major = IDE, dev.size \in Nat, dev.lba48 \/ dev.size <= Lba28,
         NEW pos \in Nat, NEW n \in Nat, pos % SectorSize = 0, n <= SectorSize
  PROVE  ReadsOf(dev, pos, n, DriveRead(dev, pos, n))
<1> PICK b \in Nat \ {0} : b = SectorSize
  BY BlockAssumption
<1>1. PICK s \in Nat : pos = s * SectorSize
  BY SectorOf
<1>2. DriveRead(dev, pos, n) # Runaway
  BY DriveComesBack, ReadsAreNotRunaway
<1>3. CASE pos < dev.size * SectorSize
  <2>1. s * b + b <= dev.size * b /\ s * b \in Nat /\ dev.size * b \in Nat
    BY <1>1, <1>3, SectorFits
  <2>2. s * SectorSize + n <= dev.size * SectorSize
    BY <2>1
  <2>3. DriveRead(dev, pos, n) = [n |-> n, data |-> BytesAt(<<IDE, dev.minor>>, pos, n)]
    BY <1>1, <2>2, DriveReadsBytes
  <2>4. \A i \in 0 .. n - 1 : BytesAt(<<IDE, dev.minor>>, pos, n)[i] = OnDisk(dev, pos + i)
    BY DEF BytesAt, OnDisk, Id, IDE, HDC
  <2> QED
    BY <1>2, <2>3, <2>4, BytesAreRead
<1>4. CASE ~ (pos < dev.size * SectorSize)
  <2>1. dev.size * b \in Nat
    OBVIOUS
  <2>2. \A i \in 0 .. n - 1 : ~ (pos + i < dev.size * SectorSize)
    BY <1>4, <2>1
  <2> QED
    BY <1>2, <2>2 DEF ReadsOf
<1> QED
  BY <1>3, <1>4

LEMMA PartitionReads ==
  ASSUME BootInv, Booted, NEW k \in DOMAIN machine.drives,
         NEW i \in 1 .. Len(TableOf(machine.drives[k])),
         NEW dev, dev = PartitionOf(machine.drives[k], i),
         dev.minor \div PartitionsPerDrive = dev.on,
         dev.start + dev.size <= machine.drives[k].size,
         NEW pos \in Nat, NEW n \in Nat, pos % SectorSize = 0, pos <= dev.size * SectorSize
  PROVE  ReadsOf(dev, pos, n, PartitionRead(devices, dev, pos, n))
<1> DEFINE drive == machine.drives[k]
           p     == TableOf(drive)[i]
<1>1. PartitionOf(drive, i).minor \div PartitionsPerDrive = drive.minor
  <2>1. dev.on = drive.minor
    BY PartitionFields
  <2> QED
    BY <2>1
<1>2. \A t \in 0 .. p.size :
        LET len == LeftOf(p.size, t * SectorSize, n)
        IN  p.start * SectorSize + t * SectorSize + len <= drive.size * SectorSize =>
              PartitionRead(devices, PartitionOf(drive, i), t * SectorSize, n)
                = [n |-> len, data |-> BytesAt(<<IDE, drive.minor>>,
                                               p.start * SectorSize + t * SectorSize, len)]
  BY <1>1, PartitionReadsBytes
<1> PICK b \in Nat \ {0} : b = SectorSize
  BY BlockAssumption
<1>3. machine \in Machines
  BY DEF BootInv
<1>4. /\ drive.size \in Nat /\ p.start \in Nat /\ p.size \in Nat
  <2>1. drive.size \in Nat /\ TableOf(drive) \in Seq(Extent)
    BY <1>3, DrivesAreDrives
  <2>2. p \in Extent
    BY <2>1
  <2> QED
    BY <2>1, <2>2 DEF Extent
<1>5. /\ dev.major = HDC /\ dev.on = drive.minor /\ dev.start = p.start /\ dev.size = p.size
  BY PartitionFields
<1>6. PICK s \in Nat : pos = s * SectorSize
  BY SectorOf
<1> HIDE DEF drive, p
<1>7. PICK st \in Nat, sz \in Nat, ds \in Nat :
        st = p.start /\ sz = p.size /\ ds = drive.size /\ st + sz <= ds
  BY <1>4, <1>5 DEF drive
<1>8. s \in 0 .. sz
  <2>1. s * b <= sz * b
    BY <1>5, <1>6, <1>7
  <2>2. s <= sz
    BY <2>1, SectorFits
  <2> QED
    BY <2>2
<1>9. PICK x \in Nat, y \in Nat, z \in Nat, w \in Nat :
        x = s * b /\ y = st * b /\ z = sz * b /\ w = ds * b /\ y + z <= w /\ x <= z
  <2>1. PICK j \in Nat : ds = st + sz + j
    <3>1. ds - (st + sz) \in Nat /\ ds = st + sz + (ds - (st + sz))
      BY <1>7
    <3> QED
      BY <3>1
  <2>2. ds * b = st * b + sz * b + j * b /\ j * b \in Nat /\ st * b \in Nat /\ sz * b \in Nat
    BY <2>1
  <2>3. PICK l \in Nat : sz = s + l
    <3>1. sz - s \in Nat /\ sz = s + (sz - s)
      BY <1>8
    <3> QED
      BY <3>1
  <2>4. sz * b = s * b + l * b /\ l * b \in Nat /\ s * b \in Nat
    BY <2>3
  <2> QED
    BY <2>2, <2>4
<1> DEFINE left == p.size * SectorSize - s * SectorSize
           len  == LeftOf(p.size, s * SectorSize, n)
<1>10. left = z - x /\ dev.size * SectorSize = z /\ pos = x
      /\ dev.start * SectorSize = y /\ p.start * SectorSize = y /\ drive.size * SectorSize = w
  BY <1>5, <1>6, <1>7, <1>9
<1>11. len \in Nat /\ y + x + len <= w
  <2>1. len = IF n <= z - x THEN n ELSE z - x
    BY <1>10 DEF LeftOf
  <2> HIDE DEF len
  <2> QED
    BY <1>9, <2>1
<1>12. PartitionRead(devices, dev, pos, n)
         = [n |-> len, data |-> BytesAt(<<IDE, drive.minor>>, y + x, len)]
  <2>2. s \in 0 .. p.size
    BY <1>7, <1>8
  <2>3. p.start * SectorSize + s * SectorSize + len <= drive.size * SectorSize
    <3> HIDE DEF len
    <3>1. s * SectorSize = x
      BY <1>9
    <3> QED
      BY <1>10, <1>11, <3>1
  <2>4. PartitionRead(devices, dev, s * SectorSize, n)
          = [n |-> len, data |-> BytesAt(<<IDE, drive.minor>>,
                                         p.start * SectorSize + s * SectorSize, len)]
    <3>1. dev = PartitionOf(drive, i)
      BY DEF drive
    <3> QED
      BY <1>2, <2>2, <2>3, <3>1
  <2> HIDE DEF len
  <2>5. p.start * SectorSize + s * SectorSize = y + x
    BY <1>9, <1>10
  <2> QED
    BY <1>6, <2>4, <2>5
<1>13. ASSUME NEW j \in 0 .. n - 1, pos + j < dev.size * SectorSize
       PROVE  /\ j \in 0 .. len - 1
              /\ BytesAt(<<IDE, drive.minor>>, y + x, len)[j] = OnDisk(dev, pos + j)
  <2>1. x + j < z
    BY <1>10, <1>13
  <2>2. len = IF n <= z - x THEN n ELSE z - x
    BY <1>10 DEF LeftOf
  <2> HIDE DEF len
  <2>3. j \in 0 .. len - 1
    BY <1>9, <2>1, <2>2
  <2>4. BytesAt(<<IDE, drive.minor>>, y + x, len)[j] = << <<IDE, drive.minor>>, y + x + j >>
    BY <2>3 DEF BytesAt
  <2>5. OnDisk(dev, pos + j) = << <<IDE, drive.minor>>, y + (x + j) >>
    BY <1>5, <1>10 DEF OnDisk
  <2>6. y + x + j = y + (x + j)
    OBVIOUS
  <2> QED
    BY <2>3, <2>4, <2>5, <2>6
<1>14. DOMAIN BytesAt(<<IDE, drive.minor>>, y + x, len) = 0 .. len - 1
  BY DEF BytesAt
<1> HIDE DEF len
<1>15. PartitionRead(devices, dev, pos, n) # Runaway
  BY <1>11, <1>12, ReadsAreNotRunaway
<1>16. PartitionRead(devices, dev, pos, n).data = BytesAt(<<IDE, drive.minor>>, y + x, len)
  BY <1>12
<1> QED
  BY <1>13, <1>14, <1>15, <1>16 DEF ReadsOf

\* Every device has a size.
LEMMA DeviceHasSize ==
  ASSUME NEW m \in Machines, NEW e \in DevicesIn(m) PROVE e.size \in Nat
<1>1. CASE e.major = FDC /\ e.size \in Nat
  BY <1>1
<1>2. ASSUME NEW k \in DOMAIN m.drives, e = m.drives[k] PROVE e.size \in Nat
  BY <1>2, DrivesAreDrives
<1>3. ASSUME NEW k \in DOMAIN m.drives, NEW i \in 1 .. Len(TableOf(m.drives[k])),
             e = PartitionOf(m.drives[k], i)
      PROVE  e.size \in Nat
  <2>1. TableOf(m.drives[k]) \in Seq(Extent)
    BY DrivesAreDrives
  <2>2. TableOf(m.drives[k])[i] \in Extent
    BY <2>1
  <2>3. e.size = TableOf(m.drives[k])[i].size
    BY <1>3, PartitionFields
  <2> QED
    BY <2>2, <2>3 DEF Extent
<1> QED
  BY <1>1, <1>2, <1>3, KindsOfDevices

\* A read of a device that holds a volume, inside a sector.
LEMMA DeviceReads ==
  ASSUME BootInv, Booted, NEW j \in 1 .. Len(devices), NEW dev, dev = devices[j],
         Id(dev) \in DOMAIN VolumeOn,
         dev.major = HDC => dev.minor \div PartitionsPerDrive = dev.on,
         NEW pos \in Nat, NEW n \in Nat,
         dev.major = FDC \/ pos % SectorSize = 0,
         (pos % SectorSize) + n <= SectorSize,
         pos <= dev.size * SectorSize, dev.major = FDC => pos < dev.size * SectorSize
  PROVE  ReadsOf(dev, pos, n, BlockRead(devices, dev, pos, n))
<1>1. machine \in Machines /\ dev \in DevicesIn(machine)
  <2>1. devices \in Seq(DevicesIn(machine))
    BY DEF BootInv, Listed
  <2> QED
    BY <2>1 DEF BootInv
<1>2. FDC # IDE /\ FDC # HDC /\ IDE # HDC
  BY DEF FDC, IDE, HDC
<1>3. CASE dev.major = FDC /\ dev.size \in Nat
  <2>1. BlockRead(devices, dev, pos, n) = FloppyRead(dev, pos, n)
    BY <1>2, <1>3 DEF BlockRead
  <2> QED
    BY <1>3, <2>1, FloppyReads
<1>4. ASSUME NEW k \in DOMAIN machine.drives, dev = machine.drives[k], dev.major = IDE
      PROVE  ReadsOf(dev, pos, n, BlockRead(devices, dev, pos, n))
  <2>1. dev.size \in Nat /\ (dev.lba48 \/ dev.size <= Lba28)
    BY <1>1, <1>4, DrivesAreDrives
  <2>2. pos % SectorSize = 0 /\ n <= SectorSize
    BY <1>2, <1>4, BlockAssumption
  <2> QED
    BY <1>2, <1>4, <2>1, <2>2, DriveReads DEF BlockRead
<1>5. ASSUME NEW k \in DOMAIN machine.drives, NEW i \in 1 .. Len(TableOf(machine.drives[k])),
             dev = PartitionOf(machine.drives[k], i), dev.major = HDC
      PROVE  ReadsOf(dev, pos, n, BlockRead(devices, dev, pos, n))
  <2>1. dev \in Range(DevicesOf(machine.drives[k]))
    <3>1. TableOf(machine.drives[k]) \in Seq(Extent)
      BY <1>1, DrivesAreDrives
    <3>2. /\ DevicesOf(machine.drives[k])[i + 1] = dev
          /\ i + 1 \in DOMAIN DevicesOf(machine.drives[k])
      BY <1>5, <3>1, DevicesOfDrive
    <3> QED
      BY <3>2 DEF Range
  <2>2. dev.start + dev.size <= machine.drives[k].size
    BY <1>1, <1>5, <2>1, VolumeAssumption
  <2>3. pos % SectorSize = 0
    BY <1>2, <1>5
  <2>4. BlockRead(devices, dev, pos, n) = PartitionRead(devices, dev, pos, n)
    BY <1>2, <1>5 DEF BlockRead
  <2> QED
    BY <1>5, <2>2, <2>3, <2>4, PartitionReads
<1> QED
  BY <1>1, <1>3, <1>4, <1>5, KindsOfDevices
----------------------------------------------------------------------------
(* Chains of clusters *)

\* The way along a chain in the copy of the FAT, and in the FAT.
IsSkip(f, v, lost, start, n) ==
  f = [k \in 0 .. n |-> IF k = 0 THEN start ELSE NextCluster(v, lost, f[k - 1])]

\* The chain of a file by the format, as FileCluster follows it.
IsChain(f, v, file, n) ==
  f = [k \in 0 .. n |-> IF k = 0 THEN file.cluster ELSE v.next[f[k - 1]]]

\* There is one such function for every length, two of them agree, and so the n-th
\* cluster is what the (n - 1)-th leads to.
LEMMA SkipExists ==
  ASSUME NEW v, NEW lost, NEW start, NEW n \in Nat
  PROVE  \E f : IsSkip(f, v, lost, start, n)
<1> DEFINE S == {m \in Nat : ~ \E f : IsSkip(f, v, lost, start, m)}
<1> SUFFICES ASSUME S # {} PROVE FALSE
  OBVIOUS
<1>1. PICK m \in S : \A l \in S : m <= l
  <2>1. S \in SUBSET Nat
    OBVIOUS
  <2> HIDE DEF S
  <2> QED
    BY <2>1, LeastElement
<1>2. m # 0
  <2> DEFINE one == [k \in 0 .. 0 |-> start]
  <2>1. IsSkip(one, v, lost, start, 0)
    BY DEF IsSkip
  <2> QED
    BY <1>1, <2>1
<1>3. m \in Nat /\ m - 1 \in Nat /\ m - 1 \notin S
  BY <1>1, <1>2
<1>4. PICK f : IsSkip(f, v, lost, start, m - 1)
  BY <1>3
<1> DEFINE h == [k \in 0 .. m |-> IF k = m THEN NextCluster(v, lost, f[m - 1]) ELSE f[k]]
<1>5. ASSUME NEW k \in 0 .. m
      PROVE  h[k] = IF k = 0 THEN start ELSE NextCluster(v, lost, h[k - 1])
  <2>1. \A l \in 0 .. m - 1 : f[l] = IF l = 0 THEN start ELSE NextCluster(v, lost, f[l - 1])
    BY <1>4 DEF IsSkip
  <2>2. CASE k = 0
    BY <1>2, <1>3, <2>1, <2>2
  <2>3. CASE k # 0
    <3>1. k - 1 \in 0 .. m - 1 /\ k - 1 \in 0 .. m /\ k - 1 # m
      BY <1>3, <2>3
    <3>2. h[k - 1] = f[k - 1]
      BY <3>1
    <3>3. CASE k = m
      BY <1>2, <3>2, <3>3
    <3>4. CASE k # m
      <4>1. k \in 0 .. m - 1
        BY <1>3, <3>4
      <4> QED
        BY <2>1, <2>3, <3>2, <3>4, <4>1
    <3> QED
      BY <3>3, <3>4
  <2> QED
    BY <2>2, <2>3
<1>6. h = [k \in 0 .. m |-> h[k]]
  OBVIOUS
<1> HIDE DEF h
<1>7. IsSkip(h, v, lost, start, m)
  BY <1>5, <1>6 DEF IsSkip
<1> QED
  BY <1>1, <1>7

LEMMA SkipAgrees ==
  ASSUME NEW v, NEW lost, NEW start, NEW n \in Nat, NEW m \in 0 .. n, NEW f, NEW g,
         IsSkip(f, v, lost, start, m), IsSkip(g, v, lost, start, n)
  PROVE  \A k \in 0 .. m : f[k] = g[k]
<1> DEFINE S == {k \in 0 .. m : f[k] # g[k]}
<1> SUFFICES ASSUME S # {} PROVE FALSE
  OBVIOUS
<1>1. PICK k \in S : \A l \in S : k <= l
  <2>1. S \in SUBSET Nat
    OBVIOUS
  <2> HIDE DEF S
  <2> QED
    BY <2>1, LeastElement
<1>2. /\ \A l \in 0 .. m : f[l] = IF l = 0 THEN start ELSE NextCluster(v, lost, f[l - 1])
      /\ \A l \in 0 .. n : g[l] = IF l = 0 THEN start ELSE NextCluster(v, lost, g[l - 1])
  BY DEF IsSkip
<1>3. k \in 0 .. m /\ k \in 0 .. n /\ f[k] # g[k]
  BY <1>1
<1>4. k # 0
  BY <1>2, <1>3
<1>5. k - 1 \in 0 .. m /\ k - 1 \notin S
  BY <1>1, <1>4
<1>6. f[k - 1] = g[k - 1]
  BY <1>5
<1> QED
  BY <1>2, <1>3, <1>4, <1>6

LEMMA SkippedIs ==
  ASSUME NEW v, NEW lost, NEW start, NEW n \in Nat
  PROVE  \E f : IsSkip(f, v, lost, start, n) /\ Skipped(v, lost, start, n) = f[n]
<1> DEFINE Skip[k \in 0 .. n] == IF k = 0 THEN start ELSE NextCluster(v, lost, Skip[k - 1])
<1>1. Skip = CHOOSE f : IsSkip(f, v, lost, start, n)
  BY DEF IsSkip
<1>2. Skipped(v, lost, start, n) = Skip[n]
  BY DEF Skipped
<1> HIDE DEF Skip
<1>3. IsSkip(Skip, v, lost, start, n)
  BY <1>1, SkipExists
<1> QED
  BY <1>2, <1>3

\* The cluster n clusters behind one is the next of that n - 1 clusters behind it.
LEMMA SkippedZero ==
  ASSUME NEW v, NEW lost, NEW start
  PROVE  Skipped(v, lost, start, 0) = start
<1>1. PICK f : IsSkip(f, v, lost, start, 0) /\ Skipped(v, lost, start, 0) = f[0]
  BY SkippedIs
<1> QED
  BY <1>1 DEF IsSkip

LEMMA SkippedNext ==
  ASSUME NEW v, NEW lost, NEW start, NEW n \in Nat \ {0}
  PROVE  Skipped(v, lost, start, n) = NextCluster(v, lost, Skipped(v, lost, start, n - 1))
<1> n - 1 \in Nat /\ n - 1 \in 0 .. n - 1 /\ n - 1 \in 0 .. n /\ n \in 0 .. n
  OBVIOUS
<1>1. PICK f : IsSkip(f, v, lost, start, n - 1) /\ Skipped(v, lost, start, n - 1) = f[n - 1]
  BY SkippedIs
<1>2. PICK g : IsSkip(g, v, lost, start, n) /\ Skipped(v, lost, start, n) = g[n]
  BY SkippedIs
<1>3. f[n - 1] = g[n - 1]
  BY <1>1, <1>2, SkipAgrees
<1>4. g[n] = NextCluster(v, lost, g[n - 1])
  BY <1>2 DEF IsSkip
<1> QED
  BY <1>1, <1>2, <1>3, <1>4

\* The same for the chain by the format.
LEMMA ChainExists ==
  ASSUME NEW v, NEW file, NEW n \in Nat
  PROVE  \E f : IsChain(f, v, file, n)
<1> DEFINE S == {m \in Nat : ~ \E f : IsChain(f, v, file, m)}
<1> SUFFICES ASSUME S # {} PROVE FALSE
  OBVIOUS
<1>1. PICK m \in S : \A l \in S : m <= l
  <2>1. S \in SUBSET Nat
    OBVIOUS
  <2> HIDE DEF S
  <2> QED
    BY <2>1, LeastElement
<1>2. m # 0
  <2> DEFINE one == [k \in 0 .. 0 |-> file.cluster]
  <2>1. IsChain(one, v, file, 0)
    BY DEF IsChain
  <2> QED
    BY <1>1, <2>1
<1>3. m \in Nat /\ m - 1 \in Nat /\ m - 1 \notin S
  BY <1>1, <1>2
<1>4. PICK f : IsChain(f, v, file, m - 1)
  BY <1>3
<1> DEFINE h == [k \in 0 .. m |-> IF k = m THEN v.next[f[m - 1]] ELSE f[k]]
<1>5. ASSUME NEW k \in 0 .. m
      PROVE  h[k] = IF k = 0 THEN file.cluster ELSE v.next[h[k - 1]]
  <2>1. \A l \in 0 .. m - 1 : f[l] = IF l = 0 THEN file.cluster ELSE v.next[f[l - 1]]
    BY <1>4 DEF IsChain
  <2>2. CASE k = 0
    BY <1>2, <1>3, <2>1, <2>2
  <2>3. CASE k # 0
    <3>1. k - 1 \in 0 .. m - 1 /\ k - 1 \in 0 .. m /\ k - 1 # m
      BY <1>3, <2>3
    <3>2. h[k - 1] = f[k - 1]
      BY <3>1
    <3>3. CASE k = m
      BY <1>2, <3>2, <3>3
    <3>4. CASE k # m
      <4>1. k \in 0 .. m - 1
        BY <1>3, <3>4
      <4> QED
        BY <2>1, <2>3, <3>2, <3>4, <4>1
    <3> QED
      BY <3>3, <3>4
  <2> QED
    BY <2>2, <2>3
<1>6. h = [k \in 0 .. m |-> h[k]]
  OBVIOUS
<1> HIDE DEF h
<1>7. IsChain(h, v, file, m)
  BY <1>5, <1>6 DEF IsChain
<1> QED
  BY <1>1, <1>7

LEMMA ChainAgrees ==
  ASSUME NEW v, NEW file, NEW n \in Nat, NEW m \in 0 .. n, NEW f, NEW g,
         IsChain(f, v, file, m), IsChain(g, v, file, n)
  PROVE  \A k \in 0 .. m : f[k] = g[k]
<1> DEFINE S == {k \in 0 .. m : f[k] # g[k]}
<1> SUFFICES ASSUME S # {} PROVE FALSE
  OBVIOUS
<1>1. PICK k \in S : \A l \in S : k <= l
  <2>1. S \in SUBSET Nat
    OBVIOUS
  <2> HIDE DEF S
  <2> QED
    BY <2>1, LeastElement
<1>2. /\ \A l \in 0 .. m : f[l] = IF l = 0 THEN file.cluster ELSE v.next[f[l - 1]]
      /\ \A l \in 0 .. n : g[l] = IF l = 0 THEN file.cluster ELSE v.next[g[l - 1]]
  BY ZenonT(60) DEF IsChain
<1>3. k \in 0 .. m /\ k \in 0 .. n /\ f[k] # g[k]
  BY <1>1
<1>4. k # 0
  BY <1>2, <1>3
<1>5. k - 1 \in 0 .. m /\ k - 1 \notin S
  BY <1>1, <1>4
<1>6. f[k - 1] = g[k - 1]
  BY <1>5
<1> QED
  BY <1>2, <1>3, <1>4, <1>6

LEMMA FileClusterIs ==
  ASSUME NEW v, NEW file, NEW n \in Nat
  PROVE  \E f : IsChain(f, v, file, n) /\ FileCluster(v, file, n) = f[n]
<1> DEFINE Chain[k \in 0 .. n] == IF k = 0 THEN file.cluster ELSE v.next[Chain[k - 1]]
<1>1. Chain = CHOOSE f : IsChain(f, v, file, n)
  BY DEF IsChain
<1>2. FileCluster(v, file, n) = Chain[n]
  BY DEF FileCluster
<1> HIDE DEF Chain
<1>3. IsChain(Chain, v, file, n)
  BY <1>1, ChainExists
<1> QED
  BY <1>2, <1>3

\* The same of the clusters of a file.
LEMMA FileClusterZero ==
  ASSUME NEW v, NEW file
  PROVE  FileCluster(v, file, 0) = file.cluster
<1>1. PICK f : IsChain(f, v, file, 0) /\ FileCluster(v, file, 0) = f[0]
  BY FileClusterIs
<1> QED
  BY <1>1 DEF IsChain

LEMMA FileClusterNext ==
  ASSUME NEW v, NEW file, NEW n \in Nat \ {0}
  PROVE  FileCluster(v, file, n) = v.next[FileCluster(v, file, n - 1)]
<1> n - 1 \in Nat /\ n - 1 \in 0 .. n - 1 /\ n - 1 \in 0 .. n /\ n \in 0 .. n
  OBVIOUS
<1>1. PICK f : IsChain(f, v, file, n - 1) /\ FileCluster(v, file, n - 1) = f[n - 1]
  BY FileClusterIs
<1>2. PICK g : IsChain(g, v, file, n) /\ FileCluster(v, file, n) = g[n]
  BY FileClusterIs
<1>3. f[n - 1] = g[n - 1]
  BY <1>1, <1>2, ChainAgrees
<1>4. g[n] = v.next[g[n - 1]]
  BY <1>2 DEF IsChain
<1> QED
  BY <1>1, <1>2, <1>3, <1>4
----------------------------------------------------------------------------
(* A file whose clusters follow one another *)

\* The chains of a formatted volume.
LEMMA FormattedChains ==
  ASSUME NEW v, FatFormatted(v)
  PROVE  /\ DOMAIN v.next \subseteq 2 .. ReservedFrom - 1
         /\ \A c \in DOMAIN v.next : v.next[c] \in Nat
         /\ DOMAIN v.dirs \subseteq DOMAIN v.next
         /\ \A file \in FileEntries(v) :
              /\ file.size \in Nat
              /\ \A k \in 0 .. LastOf(file) : FileCluster(v, file, k) \in DOMAIN v.next
BY DEF FatFormatted

\* An entry of a FAT begins at a byte.
LEMMA EntryAtNumber == \A c \in Nat : EntryAt(c) \in Nat
<1> SUFFICES ASSUME NEW c \in Nat PROVE EntryAt(c) \in Nat
  OBVIOUS
<1>1. c \div 2 \in Nat
  BY DivMod
<1> QED
  BY <1>1 DEF EntryAt

\* A byte of a file is in one of its clusters.
LEMMA LastCluster ==
  ASSUME NEW file, file.size \in Nat, NEW i \in 0 .. file.size - 1
  PROVE  LastOf(file) \in Nat /\ i \div SectorSize \in 0 .. LastOf(file)
<1> PICK b \in Nat \ {0} : b = SectorSize
  BY BlockAssumption
<1> PICK e \in Nat : e = file.size - 1
  <2>1. file.size - 1 \in Nat
    OBVIOUS
  <2> QED
    BY <2>1
<1>1. e \div b \in Nat /\ i \div b \in Nat
  <2>1. i \in Nat
    OBVIOUS
  <2> QED
    BY <2>1, DivMod
<1>2. ~ (e \div b < i \div b)
  <2> SUFFICES ASSUME e \div b < i \div b PROVE FALSE
    OBVIOUS
  <2>1. e < i
    BY WordsGrow
  <2> QED
    BY <2>1
<1> QED
  BY <1>1, <1>2 DEF LastOf

\* The clusters of such a file have numbers that follow one another, and so has what
\* fat12_get_next_cluster leads to as long as the FAT is there.
LEMMA ContiguousClusters ==
  ASSUME NEW v, FatFormatted(v), NEW file \in FileEntries(v), Contiguous(v, file),
         LastOf(file) \in Nat
  PROVE  /\ file.cluster \in Nat
         /\ \A k \in 0 .. LastOf(file) : /\ FileCluster(v, file, k) = file.cluster + k
                                         /\ file.cluster + k \in DOMAIN v.next
                                         /\ file.cluster + k \in 2 .. ReservedFrom - 1
<1> DEFINE last == LastOf(file)
           S == {k \in 0 .. last : FileCluster(v, file, k) # file.cluster + k}
<1>1. /\ DOMAIN v.next \subseteq 2 .. ReservedFrom - 1
      /\ \A k \in 0 .. last : FileCluster(v, file, k) \in DOMAIN v.next
  BY FormattedChains
<1>2. /\ FileCluster(v, file, 0) = file.cluster
      /\ \A n \in Nat \ {0} : FileCluster(v, file, n) = v.next[FileCluster(v, file, n - 1)]
  BY FileClusterZero, FileClusterNext
<1>3. \A k \in 0 .. last - 1 : v.next[file.cluster + k] = file.cluster + k + 1
  BY DEF Contiguous
<1>4. 0 \in 0 .. last /\ file.cluster \in Nat
  BY <1>1, <1>2
<1>5. S = {}
  <2> SUFFICES ASSUME S # {} PROVE FALSE
    OBVIOUS
  <2>1. PICK k \in S : \A l \in S : k <= l
    <3>1. S \in SUBSET Nat
      OBVIOUS
    <3> HIDE DEF S
    <3> QED
      BY <3>1, LeastElement
  <2>2. k # 0
    BY <1>2, <1>4, <2>1
  <2>3. k - 1 \in Nat /\ k - 1 \in 0 .. last - 1 /\ k - 1 \notin S /\ (k - 1) + 1 = k
    BY <2>1, <2>2
  <2>4. FileCluster(v, file, k - 1) = file.cluster + (k - 1)
    BY <2>3
  <2>5. FileCluster(v, file, k) = file.cluster + (k - 1) + 1
    BY <1>2, <1>3, <2>3, <2>4
  <2> QED
    BY <1>4, <2>1, <2>5
<1> QED
  BY <1>1, <1>4, <1>5

LEMMA ContiguousSkips ==
  ASSUME NEW v, FatFormatted(v), NEW file \in FileEntries(v), Contiguous(v, file),
         LastOf(file) \in Nat, NEW lost \in Nat, NEW n \in 0 .. LastOf(file),
         \A k \in 0 .. n - 1 : EntryAt(file.cluster + k) >= lost
  PROVE  \A k \in 0 .. n : Skipped(v, lost, file.cluster, k) = file.cluster + k
<1> DEFINE S == {k \in 0 .. n : Skipped(v, lost, file.cluster, k) # file.cluster + k}
<1>1. /\ file.cluster \in Nat
      /\ \A k \in 0 .. n : file.cluster + k \in DOMAIN v.next
  BY ContiguousClusters
<1>2. /\ Skipped(v, lost, file.cluster, 0) = file.cluster
      /\ \A k \in Nat \ {0} : Skipped(v, lost, file.cluster, k)
                                 = NextCluster(v, lost, Skipped(v, lost, file.cluster, k - 1))
  BY SkippedZero, SkippedNext
<1>3. \A k \in 0 .. n - 1 : v.next[file.cluster + k] = file.cluster + k + 1
  BY DEF Contiguous
<1> SUFFICES ASSUME S # {} PROVE FALSE
  OBVIOUS
<1>4. PICK k \in S : \A l \in S : k <= l
  <2>1. S \in SUBSET Nat
    OBVIOUS
  <2> HIDE DEF S
  <2> QED
    BY <2>1, LeastElement
<1>5. k # 0
  BY <1>1, <1>2, <1>4
<1>6. k - 1 \in Nat /\ k - 1 \in 0 .. n - 1 /\ k - 1 \in 0 .. n /\ k - 1 \notin S
      /\ (k - 1) + 1 = k
  BY <1>4, <1>5
<1>7. Skipped(v, lost, file.cluster, k - 1) = file.cluster + (k - 1)
  BY <1>6
<1>8. NextCluster(v, lost, file.cluster + (k - 1)) = file.cluster + (k - 1) + 1
  <2> DEFINE c == file.cluster + (k - 1)
  <2>1. c \in DOMAIN v.next /\ v.next[c] = c + 1
    BY <1>1, <1>3, <1>6
  <2>2. EntryAt(c) >= lost /\ EntryAt(c) \in Nat
    <3>1. c \in Nat
      BY <1>1, <1>6
    <3> HIDE DEF c
    <3>2. EntryAt(c) \in Nat
      BY <3>1, DivMod DEF EntryAt
    <3> QED
      BY <1>6, <3>2 DEF c
  <2> HIDE DEF c
  <2>3. ~ (EntryAt(c) < lost)
    BY <2>2
  <2>4. NextCluster(v, lost, c) = c + 1
    BY <2>1, <2>3 DEF NextCluster
  <2> QED
    BY <2>4 DEF c
<1> QED
  BY <1>1, <1>2, <1>4, <1>6, <1>7, <1>8

\* Such a file lies at one place on its disk, DataOffset sectors behind which the
\* first cluster is.
LEMMA FileIsLinear ==
  ASSUME NEW v, FatFormatted(v), v.reserved = 1, NEW file \in FileEntries(v),
         Contiguous(v, file), LastOf(file) \in Nat
  PROVE  /\ DataOffset(v) + file.cluster \in Nat
         /\ \A i \in 0 .. file.size - 1 :
              FileByte(v, file, i) = (DataOffset(v) + file.cluster) * SectorSize + i
<1> PICK b \in Nat \ {0} : b = SectorSize
  BY BlockAssumption
<1>1. v.fats * v.spf \in Nat /\ Len(v.root) \in Nat
  <2>1. v.fats \in Nat /\ v.spf \in Nat /\ v.root \in Seq(Range(v.root))
    BY DEF FatFormatted
  <2>2. v.fats * v.spf \in Nat
    BY <2>1
  <2> QED
    BY <2>1, <2>2
<1>2. PICK x \in Nat, y \in Nat : x = v.fats * v.spf /\ y = Len(v.root)
  BY <1>1
<1>3. file.cluster \in Nat /\ file.cluster >= 2 /\ file.size \in Nat
  <2>1. file.cluster + 0 \in 2 .. ReservedFrom - 1 /\ file.cluster \in Nat
    BY ContiguousClusters
  <2> QED
    BY <2>1, FormattedChains
<1>4. PICK c \in Nat : c = DataOffset(v) + file.cluster /\ c = 1 + x + y + file.cluster - 2
  <2>1. DataOffset(v) = x + 1 + y - 2
    BY <1>2 DEF DataOffset, RootOffset
  <2>2. DataOffset(v) + file.cluster \in Nat
    BY <1>3, <2>1
  <2> QED
    BY <1>3, <2>1, <2>2
<1>5. ASSUME NEW i \in 0 .. file.size - 1
      PROVE  FileByte(v, file, i) = c * SectorSize + i
  <2>1. i \in Nat
    BY <1>3
  <2>2. PICK q \in Nat, r \in 0 .. b - 1 : q = i \div b /\ r = i % b /\ i = b * q + r
    <3>1. i \div b \in Nat /\ i % b \in 0 .. b - 1 /\ i = b * (i \div b) + (i % b)
      BY <2>1, DivMod
    <3> QED
      BY <3>1
  <2>3. FileCluster(v, file, q) = file.cluster + q
    BY <1>3, <2>2, LastCluster, ContiguousClusters
  <2>4. FileByte(v, file, i) = ((1 + x + y) + (file.cluster + q) - 2) * b + r
    BY <1>2, <2>2, <2>3 DEF FileByte
  <2>5. (1 + x + y) + (file.cluster + q) - 2 = c + q
    BY <1>3, <1>4
  <2>6. (c + q) * b + r = c * b + i
    <3>1. (c + q) * b = c * b + b * q /\ c * b \in Nat /\ b * q \in Nat
      OBVIOUS
    <3> QED
      BY <2>2, <3>1
  <2> QED
    BY <2>4, <2>5, <2>6
<1> QED
  BY <1>4, <1>5

\* (NumberLemmas) A set of numbers that has an upper bound has a greatest element.
LEMMA GreatestElement ==
  ASSUME NEW i \in Nat, NEW S \in SUBSET (0 .. i), S # {}
  PROVE  \E x \in S : \A y \in S : y <= x
<1> DEFINE T == {i - x : x \in S}
<1>1. T \in SUBSET Nat /\ T # {}
  <2>1. \A x \in S : i - x \in Nat
    <3>1. \A x \in S : x \in 0 .. i
      OBVIOUS
    <3> QED
      BY <3>1
  <2> QED
    BY <2>1
<1>2. PICK t \in T : \A u \in T : t <= u
  <2> HIDE DEF T
  <2> QED
    BY <1>1, LeastElement
<1>3. PICK x \in S : t = i - x
  BY <1>2
<1>4. ASSUME NEW y \in S PROVE y <= x
  <2>1. i - y \in T
    OBVIOUS
  <2>2. t <= i - y
    BY <1>2, <2>1
  <2>3. x \in 0 .. i /\ y \in 0 .. i
    OBVIOUS
  <2> QED
    BY <1>3, <2>2, <2>3
<1> QED
  BY <1>4

\* The last element of a set.
LEMMA MaxIsLast ==
  ASSUME NEW i \in Nat, NEW S \in SUBSET (0 .. i), S # {}
  PROVE  Max(S) \in S /\ \A y \in S : y <= Max(S)
<1>1. PICK x \in S : \A y \in S : y <= x
  BY GreatestElement
<1>2. \A y \in S : x >= y
  BY <1>1
<1> DEFINE z == Max(S)
<1>3. z \in S /\ \A y \in S : z >= y
  BY <1>2 DEF Max
<1> HIDE DEF z
<1>4. \A y \in S : y \in Nat
  OBVIOUS
<1>5. \A y \in S : y <= z
  BY <1>3, <1>4
<1> QED
  BY <1>3, <1>5 DEF z

----------------------------------------------------------------------------
(* The pieces of a read *)

\* Each piece lies in a sector, behind the first at its beginning.
LEMMA PieceInSector ==
  ASSUME NEW x \in Nat, NEW inside \in 0 .. SectorSize - 1, NEW size \in Nat \ {0},
         NEW p \in Pieces(inside, size), inside > 0 => SectorSize - inside <= size
  PROVE  LET pos == x * SectorSize + inside + p
             n   == PieceSize(inside, size, p)
         IN  /\ p \in Nat /\ p < size /\ n \in Nat /\ p + n <= size
             /\ (pos % SectorSize) + n <= SectorSize
             /\ inside = 0 => pos % SectorSize = 0
<1> DEFINE pos == x * SectorSize + inside + p
           n   == PieceSize(inside, size, p)
<1> PICK b \in Nat \ {0} : b = SectorSize
  BY BlockAssumption
<1> inside \in Nat /\ inside < b /\ size > 0
  OBVIOUS
<1>1. PICK y \in Nat : y = x * b
  OBVIOUS
<1>2. CASE p = 0 /\ inside > 0
  <2>1. n = b - inside
    BY <1>2 DEF PieceSize
  <2>2. (b * x + inside) % b = inside
    BY Remainder
  <2>3. b * x + inside = x * SectorSize + inside + p
    <3>1. b * x = y
      BY <1>1
    <3> QED
      BY <1>1, <1>2, <3>1
  <2>4. pos % SectorSize = inside
    BY <2>2, <2>3
  <2> HIDE DEF n, pos
  <2>5. n \in Nat /\ p + n <= size /\ (pos % SectorSize) + n <= SectorSize
    BY <1>2, <2>1, <2>4
  <2> QED
    BY <1>2, <2>5 DEF n, pos
<1>3. CASE ~ (p = 0 /\ inside > 0)
  <2> DEFINE first == IF inside > 0 THEN b - inside ELSE 0
  <2>1. p \in first .. size - 1 /\ (p - first) % b = 0
    BY <1>3 DEF Pieces
  <2>2. first \in Nat /\ (inside + first = b \/ inside + first = 0)
        /\ (inside = 0 => first = 0)
    OBVIOUS
  <2> HIDE DEF first
  <2>3. p \in Nat /\ p < size /\ p - first \in Nat
    BY <2>1, <2>2
  <2>4. PICK t \in Nat : p - first = t * b
    BY <2>1, <2>3, SectorOf
  <2>5. PICK e \in {0, 1} : inside + first = e * b
    BY <2>2
  <2>6. PICK z \in Nat : z = x + e + t
    OBVIOUS
  <2>7. pos = b * z + 0
    <3>1. b * z = x * b + e * b + t * b
      BY <2>5, <2>6
    <3>2. x * b \in Nat /\ e * b \in Nat /\ t * b \in Nat
      BY <2>5
    <3>3. pos = x * b + inside + p
      OBVIOUS
    <3>4. PICK u \in Nat, w \in Nat, r \in Nat : u = x * b /\ w = e * b /\ r = t * b
      BY <3>2
    <3>5. b * z = u + w + r /\ pos = u + inside + p /\ p - first = r /\ inside + first = w
      BY <2>4, <2>5, <3>1, <3>3, <3>4
    <3> HIDE DEF pos
    <3> QED
      BY <2>2, <2>3, <3>5
  <2>8. pos % b = 0
    <3>1. 0 \in 0 .. b - 1
      OBVIOUS
    <3>2. (b * z + 0) % b = 0
      BY <3>1, Remainder
    <3> QED
      BY <2>7, <3>2
  <2>9. n = IF size - p < b THEN size - p ELSE b
    BY <1>3 DEF PieceSize
  <2> HIDE DEF n, pos
  <2>10. n \in Nat /\ p + n <= size /\ (pos % SectorSize) + n <= SectorSize
    BY <2>3, <2>8, <2>9
  <2> QED
    BY <2>3, <2>8, <2>10 DEF n, pos
<1> QED
  BY <1>2, <1>3

\* They cover what was asked for: a byte lies in the last that begins before it.
LEMMA PiecesCover ==
  ASSUME NEW inside \in 0 .. SectorSize - 1, NEW size \in Nat \ {0},
         inside > 0 => SectorSize - inside <= size, NEW i \in 0 .. size - 1
  PROVE  LET p == Max({q \in Pieces(inside, size) : q <= i})
         IN  p \in Pieces(inside, size) /\ i - p \in 0 .. PieceSize(inside, size, p) - 1
<1> DEFINE P == Pieces(inside, size)
           S == {q \in P : q <= i}
           p == Max(S)
<1> PICK b \in Nat \ {0} : b = SectorSize
  BY BlockAssumption
<1> inside \in Nat /\ inside < b /\ size > 0 /\ i \in Nat /\ i < size
  OBVIOUS
<1> DEFINE first == IF inside > 0 THEN b - inside ELSE 0
<1>1. P = (IF inside > 0 THEN {0} ELSE {}) \union
          {q \in first .. size - 1 : (q - first) % b = 0}
  BY DEF Pieces
<1>2. first \in Nat /\ (inside > 0 => first > 0 /\ first <= size) /\ (inside = 0 => first = 0)
  OBVIOUS
<1>3. 0 % b = 0
  <2>1. 0 \in 0 .. b - 1 /\ b * 0 + 0 = 0
    OBVIOUS
  <2> QED
    BY <2>1, Remainder
<1>4. 0 \in P
  <2>1. CASE inside > 0
    BY <1>1, <2>1
  <2>2. CASE inside = 0
    <3>1. first = 0 /\ 0 \in 0 .. size - 1 /\ 0 - 0 = 0
      BY <2>2
    <3> QED
      BY <1>1, <1>3, <3>1
  <2> QED
    BY <2>1, <2>2
<1> HIDE DEF first
<1>5. \A q \in P : q \in 0 .. size - 1
  BY <1>1, <1>2
<1> HIDE DEF P
<1>6. S \in SUBSET (0 .. i) /\ S # {}
  BY <1>4, <1>5
<1>7. p \in S /\ \A q \in S : q <= p
  <2> HIDE DEF S
  <2> QED
    BY <1>6, MaxIsLast
<1> HIDE DEF p
<1>8. p \in P /\ p <= i /\ p \in Nat /\ \A q \in P : q <= i => q <= p
  BY <1>5, <1>7
<1> DEFINE n == PieceSize(inside, size, p)
<1>9. CASE p = 0 /\ inside > 0
  <2>1. n = first
    BY <1>9 DEF PieceSize, first
  <2>2. ~ (first <= i)
    <3> SUFFICES ASSUME first <= i PROVE FALSE
      OBVIOUS
    <3>1. first \in first .. size - 1 /\ first - first = 0
      BY <1>2
    <3>2. first \in P
      BY <1>1, <1>3, <3>1
    <3>3. first <= 0
      BY <1>8, <1>9, <3>2
    <3> QED
      BY <1>2, <1>9, <3>3
  <2> HIDE DEF n
  <2>3. i - p \in 0 .. n - 1
    BY <1>2, <1>8, <1>9, <2>1, <2>2
  <2> QED
    BY <1>8, <2>3 DEF P, S, p, n
<1>10. CASE ~ (p = 0 /\ inside > 0)
  <2>1. n = IF size - p < b THEN size - p ELSE b
    BY <1>10 DEF PieceSize
  <2>2. p \in first .. size - 1 /\ (p - first) % b = 0
    BY <1>1, <1>8, <1>10
  <2>3. p - first \in Nat
    BY <1>2, <2>2
  <2>4. PICK t \in Nat : p - first = t * b
    BY <2>2, <2>3, SectorOf
  <2>5. ((p + b) - first) % b = 0
    <3>1. 0 \in 0 .. b - 1
      OBVIOUS
    <3>2. (b * (t + 1) + 0) % b = 0
      BY <3>1, Remainder
    <3>3. b * (t + 1) + 0 = t * b + b
      OBVIOUS
    <3>4. PICK r \in Nat : r = t * b
      OBVIOUS
    <3>5. (p + b) - first = r + b
      BY <1>2, <1>8, <2>4, <3>4
    <3> QED
      BY <3>2, <3>3, <3>4, <3>5
  <2>6. ~ (p + b <= i)
    <3> SUFFICES ASSUME p + b <= i PROVE FALSE
      OBVIOUS
    <3>1. p + b \in first .. size - 1
      BY <1>2, <1>8, <2>2
    <3>2. p + b \in P
      BY <1>1, <2>5, <3>1
    <3>3. p + b <= p
      BY <1>8, <3>2
    <3> QED
      BY <1>8, <3>3
  <2> HIDE DEF n
  <2>7. i - p \in 0 .. n - 1
    BY <1>8, <2>1, <2>6
  <2> QED
    BY <1>8, <2>7 DEF P, S, p, n
<1> QED
  BY <1>9, <1>10
----------------------------------------------------------------------------
(* Reads of files *)

\* A mounted FAT12 volume is formatted, and its files lie on the device.
LEMMA FatMountHolds ==
  ASSUME MountedInv, NEW i \in FatMounted
  PROVE  LET m == mounts[i]
             v == Volume(m)
         IN  /\ Booted /\ FatFormatted(v)
             /\ m.heap \in Nat /\ m.lost \in Nat /\ FatBytes(v) \in Nat
             /\ Id(m.dev) \in DOMAIN VolumeOn
             /\ \E j \in 1 .. Len(devices) : devices[j] = m.dev
             /\ \A file \in FileEntries(v) :
                  \A k \in 0 .. file.size - 1 : FileByte(v, file, k) < m.dev.size * SectorSize
<1> DEFINE m == mounts[i]
           v == Volume(m)
<1>1. i \in Slots(MountSlots) /\ m.root = "fat12"
  BY DEF FatMounted, Mounted, MountedInv, BootedInv, TableInv, TablesTyped
<1>2. Reads(m)
  BY <1>1 DEF Reads, OnDevice
<1>3. /\ Booted /\ Id(m.dev) \in DOMAIN VolumeOn /\ VolumeOn[Id(m.dev)].fs = "fat12"
      /\ \E j \in 1 .. Len(devices) : devices[j] = m.dev
  BY <1>1, <1>2 DEF MountedInv, VolumeInv, VolumeMount
<1>4. m.heap \in Nat /\ m.lost \in Nat /\ FatBytes(v) \in Nat
  BY <1>1, FatBytesNumber DEF MountedInv, LossInv
<1>5. machine \in Machines /\ m.dev \in DevicesIn(machine)
  <2>1. devices \in Seq(DevicesIn(machine)) /\ machine \in Machines
    BY DEF MountedInv, BootedInv, BootInv, Listed
  <2> QED
    BY <1>3, <2>1
<1> HIDE DEF m
<1>6. FatFormatted(v)
  BY <1>3, VolumeAssumption DEF Volume
<1>7. \A file \in FileEntries(v) :
        \A k \in 0 .. file.size - 1 : FileByte(v, file, k) < m.dev.size * SectorSize
  BY <1>3, <1>5, VolumeAssumption DEF Volume
<1> QED
  BY <1>3, <1>4, <1>6, <1>7 DEF m

\* What a read asks of the mount, the volume, the file and the place for it to give
\* what is there.
Readable(m, v, lost, file, offset, size) ==
  /\ FatFormatted(v) /\ v.reserved = 1 /\ Id(m.dev) \in DOMAIN VolumeOn
  /\ \E j \in 1 .. Len(devices) : devices[j] = m.dev
  /\ file \in FileEntries(v) /\ Contiguous(v, file)
  /\ \A k \in 0 .. file.size - 1 : FileByte(v, file, k) < m.dev.size * SectorSize
  /\ offset \in 0 .. file.size - 1
  /\ m.dev.major = FDC \/ offset % SectorSize = 0
  /\ m.dev.major = HDC => m.dev.minor \div PartitionsPerDrive = m.dev.on
  /\ \A k \in 0 .. (offset \div SectorSize) - 1 :
       EntryAt(Skipped(v, 0, file.cluster, k)) >= lost
  /\ size \in 1 .. (file.size - offset) + 1
  /\ ~ (m.dev.major = FDC /\ FileByte(v, file, offset) + size > m.dev.size * SectorSize)

\* fat12_read from one mounted volume: every piece of the read begins in the sector
\* the file has there, and together they are all that was asked for.
LEMMA FatReadsFile ==
  ASSUME BootInv, Booted, NEW m, NEW v, NEW lost \in Nat, NEW file, NEW offset, NEW size,
         Readable(m, v, lost, file, offset, size)
  PROVE  LET n == IF size > file.size - offset THEN file.size - offset ELSE size
         IN  FatRead(devices, m.dev, v, lost, file, offset, size)
               = [n |-> n, data |-> [k \in 0 .. n - 1 |->
                    OnDisk(m.dev, FileByte(v, file, offset + k))]]
<1> PICK j \in 1 .. Len(devices) : devices[j] = m.dev
  BY DEF Readable
<1> SUFFICES
      ASSUME FatFormatted(v), v.reserved = 1, Id(m.dev) \in DOMAIN VolumeOn,
             file \in FileEntries(v), Contiguous(v, file),
             \A k \in 0 .. file.size - 1 : FileByte(v, file, k) < m.dev.size * SectorSize,
             offset \in 0 .. file.size - 1,
             m.dev.major = FDC \/ offset % SectorSize = 0,
             m.dev.major = HDC => m.dev.minor \div PartitionsPerDrive = m.dev.on,
             \A k \in 0 .. (offset \div SectorSize) - 1 :
               EntryAt(Skipped(v, 0, file.cluster, k)) >= lost,
             size \in 1 .. (file.size - offset) + 1,
             ~ (m.dev.major = FDC /\ FileByte(v, file, offset) + size > m.dev.size * SectorSize)
      PROVE  LET n == IF size > file.size - offset THEN file.size - offset ELSE size
             IN  FatRead(devices, m.dev, v, lost, file, offset, size)
                   = [n |-> n, data |-> [k \in 0 .. n - 1 |->
                        OnDisk(m.dev, FileByte(v, file, offset + k))]]
  BY DEF Readable
<1> PICK b \in Nat \ {0} : b = SectorSize
  BY BlockAssumption
<1>1. /\ file.size \in Nat /\ offset \in Nat /\ offset < file.size
      /\ size \in Nat \ {0} /\ size <= file.size - offset + 1
  <2>1. file.size \in Nat
    BY FormattedChains
  <2> QED
    BY <2>1, SMTT(40)
<1>2. PICK q \in Nat, inside \in 0 .. b - 1 :
        q = offset \div b /\ inside = offset % b /\ offset = b * q + inside
  <2>1. offset \div b \in Nat /\ offset % b \in 0 .. b - 1
        /\ offset = b * (offset \div b) + (offset % b)
    BY <1>1, DivMod
  <2> QED
    BY <2>1
<1>3. LastOf(file) \in Nat /\ q \in 0 .. LastOf(file)
  BY <1>1, <1>2, LastCluster
<1>4. Skipped(v, lost, file.cluster, q) = file.cluster + q
  <2>1. \A k \in 0 .. q : Skipped(v, 0, file.cluster, k) = file.cluster + k
    <3>1. \A k \in 0 .. q - 1 : EntryAt(file.cluster + k) >= 0
      <4>1. file.cluster \in Nat
        BY <1>3, ContiguousClusters
      <4>2. \A k \in 0 .. q - 1 : file.cluster + k \in Nat
        BY <4>1
      <4>3. ASSUME NEW k \in 0 .. q - 1
            PROVE  EntryAt(file.cluster + k) >= 0
        <5>1. EntryAt(file.cluster + k) \in Nat
          BY <4>2, EntryAtNumber
        <5> QED
          BY <5>1
      <4> QED
        BY <4>3
    <3>2. 0 \in Nat
      OBVIOUS
    <3> QED
      BY <1>3, <3>1, <3>2, ContiguousSkips
  <2>2. \A k \in 0 .. q - 1 : EntryAt(file.cluster + k) >= lost
    BY <1>2, <2>1
  <2>3. \A k \in 0 .. q : Skipped(v, lost, file.cluster, k) = file.cluster + k
    BY <1>3, <2>2, ContiguousSkips
  <2> QED
    BY <2>3
<1>5. /\ DataOffset(v) + file.cluster \in Nat
      /\ \A k \in 0 .. file.size - 1 :
           FileByte(v, file, k) = (DataOffset(v) + file.cluster) * SectorSize + k
  BY <1>3, FileIsLinear
<1>6. PICK c \in Nat : c = DataOffset(v) + file.cluster
  BY <1>5
<1>7. PICK x \in Nat : x = c + q
  OBVIOUS
<1> DEFINE at  == x * b + inside
           cut == IF size > file.size - offset THEN file.size - offset ELSE size
           end == m.dev.size * SectorSize
<1>8. /\ at \in Nat
      /\ \A k \in 0 .. file.size - offset - 1 :
           FileByte(v, file, offset + k) = at + k /\ at + k < end
  <2>1. x * b = c * b + b * q /\ c * b \in Nat /\ b * q \in Nat /\ x * b \in Nat
    <3>1. (c + q) * b = c * b + b * q /\ c * b \in Nat /\ b * q \in Nat
      BY SMTT(40)
    <3>2. c * b + b * q \in Nat
      BY <3>1
    <3> QED
      BY <1>7, <3>1, <3>2
  <2>2. PICK u \in Nat, w \in Nat : u = c * b /\ w = b * q
    BY <2>1
  <2>3. ASSUME NEW k \in 0 .. file.size - offset - 1
        PROVE  FileByte(v, file, offset + k) = at + k /\ at + k < end
    <3>1. offset + k \in 0 .. file.size - 1
      BY <1>1, SMTT(40)
    <3>2. FileByte(v, file, offset + k) = u + (offset + k)
      BY <1>5, <1>6, <2>2, <3>1
    <3>3. u + (offset + k) = at + k
      <4>1. at = u + w + inside /\ offset = w + inside /\ k \in Nat
        <5>1. x * b = u + w
          BY <2>1, <2>2
        <5>2. at = u + w + inside
          BY <5>1
        <5>3. offset = w + inside
          BY <1>2, <2>2
        <5>4. k \in Nat
          BY <1>1
        <5> QED
          BY <5>2, <5>3, <5>4
      <4>2. PICK z \in Int : z = at
        <5>1. u + w + inside \in Int
          OBVIOUS
        <5> QED
          BY <4>1, <5>1
      <4>3. z = u + w + inside
        BY <4>1, <4>2
      <4> HIDE DEF at
      <4>4. u + (offset + k) = z + k
        BY <4>1, <4>3
      <4> QED
        BY <4>2, <4>4
    <3> HIDE DEF at, end
    <3>4. FileByte(v, file, offset + k) < end
      BY <3>1 DEF end
    <3> QED
      BY <3>2, <3>3, <3>4
  <2>4. at \in Nat
    <3>1. PICK z \in Nat : z = x * b
      BY <2>1
    <3> HIDE DEF at
    <3>2. z + inside \in Nat
      OBVIOUS
    <3>3. at = x * b + inside
      BY DEF at
    <3> QED
      BY <3>1, <3>2, <3>3
  <2> QED
    BY <2>3, <2>4
<1> HIDE DEF at, end
<1>9. /\ cut \in Nat /\ cut > 0 /\ cut <= size /\ cut <= file.size - offset
      /\ size <= cut + 1
  BY <1>1, SMTT(80)
<1>10. FileByte(v, file, offset) = at
  <2>1. offset + 0 = offset /\ at + 0 = at /\ 0 \in 0 .. file.size - offset - 1
    BY <1>1, <1>8
  <2> QED
    BY <1>8, <2>1
<1>11. at + cut <= end /\ end \in Int /\ (m.dev.major = FDC => at + size <= end)
  <2>1. end \in Int
    <3>1. m.dev \in DevicesIn(machine) /\ machine \in Machines
      <4>1. devices \in Seq(DevicesIn(machine)) /\ machine \in Machines
        BY DEF BootInv, Listed
      <4> QED
        BY <4>1
    <3>2. m.dev.size \in Nat
      BY <3>1, DeviceHasSize
    <3> QED
      BY <3>2, BlockAssumption, SMTT(40) DEF end
  <2>2. cut - 1 \in 0 .. file.size - offset - 1
    BY <1>1, <1>9, SMTT(40)
  <2>3. at + (cut - 1) < end
    BY <1>8, <2>2
  <2>4. m.dev.major = FDC => ~ (at + size > end)
    BY <1>10 DEF end
  <2> HIDE DEF cut
  <2> QED
    BY <1>1, <1>8, <1>9, <2>1, <2>3, <2>4
<1>12. inside = 0 \/ m.dev.major = FDC
  BY <1>2
<1> DEFINE short   == cut + inside < SectorSize
           starts  == IF short THEN {0} ELSE Pieces(inside, size)
           Len1(p) == IF short THEN cut ELSE PieceSize(inside, size, p)
           Part(p) == BlockRead(devices, m.dev, at + p, Len1(p))
<1>13. at % SectorSize = inside
  <2>1. (b * x + inside) % b = inside
    BY Remainder
  <2>2. b * x + inside = at
    BY DEF at
  <2> QED
    BY <2>1, <2>2
<1>14. ASSUME NEW p \in starts
       PROVE  /\ p \in Nat /\ Len1(p) \in Nat
              /\ ReadsOf(m.dev, at + p, Len1(p), Part(p))
  <2>1. /\ p \in Nat /\ p < size /\ Len1(p) \in Nat
        /\ ((at + p) % SectorSize) + Len1(p) <= SectorSize
        /\ inside = 0 => (at + p) % SectorSize = 0
    <3>1. CASE short
      <4>1. p = 0 /\ Len1(p) = cut /\ at + p = at
        BY <1>8, <3>1
      <4> HIDE DEF cut
      <4> QED
        BY <1>1, <1>9, <1>13, <3>1, <4>1, SMTT(40)
    <3>2. CASE ~ short
      <4>1. p \in Pieces(inside, size) /\ Len1(p) = PieceSize(inside, size, p)
        BY <3>2
      <4>2. inside > 0 => SectorSize - inside <= size
        <5> HIDE DEF cut
        <5> QED
          BY <1>1, <1>9, <3>2, SMTT(40)
      <4>3. inside \in 0 .. SectorSize - 1
        OBVIOUS
      <4>4. /\ p \in Nat /\ p < size /\ PieceSize(inside, size, p) \in Nat
            /\ ((x * SectorSize + inside + p) % SectorSize) + PieceSize(inside, size, p)
                 <= SectorSize
            /\ inside = 0 => (x * SectorSize + inside + p) % SectorSize = 0
        <5> HIDE DEF short, starts, Len1, cut
        <5> QED
          BY <1>1, <4>1, <4>2, <4>3, PieceInSector, ZenonT(60)
      <4>5. x * SectorSize + inside + p = at + p
        BY DEF at
      <4> HIDE DEF short, starts, Len1, cut
      <4> QED
        BY <4>1, <4>4, <4>5
    <3> QED
      BY <3>1, <3>2
  <2> HIDE DEF cut, short, starts, Len1
  <2>2. at + p \in Nat /\ at + p <= end /\ (m.dev.major = FDC => at + p < end)
    BY <1>1, <1>8, <1>9, <1>11, <2>1, SMTT(40)
  <2>3. m.dev.major = FDC \/ (at + p) % SectorSize = 0
    BY <1>12, <2>1
  <2>4. ReadsOf(m.dev, at + p, Len1(p), BlockRead(devices, m.dev, at + p, Len1(p)))
    BY <2>1, <2>2, <2>3, DeviceReads DEF end
  <2> QED
    BY <2>1, <2>4
<1> DEFINE last(k) == Max({p \in starts : p <= k})
           byte(k) == IF k - last(k) \in DOMAIN Part(last(k)).data
                      THEN Part(last(k)).data[k - last(k)] ELSE Nothing
<1>15. ASSUME NEW k \in 0 .. cut - 1
       PROVE  byte(k) = OnDisk(m.dev, FileByte(v, file, offset + k))
  <2>1. last(k) \in starts /\ k - last(k) \in 0 .. Len1(last(k)) - 1
    <3>1. CASE short
      <4>1. starts = {0} /\ {p \in starts : p <= k} = {0}
        BY <1>9, <3>1
      <4>2. Max({0}) = 0
        <5>1. 0 \in Nat /\ {0} \in SUBSET (0 .. 0) /\ {0} # {}
          OBVIOUS
        <5>2. Max({0}) \in {0}
          BY <5>1, MaxIsLast
        <5> QED
          BY <5>2
      <4>3. last(k) = 0
        BY <4>1, <4>2
      <4>4. Len1(0) = cut /\ k - 0 = k
        BY <1>9, <3>1
      <4> QED
        BY <4>1, <4>3, <4>4
    <3>2. CASE ~ short
      <4>1. starts = Pieces(inside, size) /\ \A p : Len1(p) = PieceSize(inside, size, p)
        BY <3>2
      <4>2. inside > 0 => SectorSize - inside <= size
        <5> HIDE DEF cut
        <5> QED
          BY <1>1, <1>9, <3>2, SMTT(40)
      <4>3. k \in 0 .. size - 1
        <5> HIDE DEF cut
        <5> QED
          BY <1>1, <1>9
      <4> HIDE DEF short, starts, Len1, cut
      <4>4. LET p == Max({r \in Pieces(inside, size) : r <= k})
            IN  p \in Pieces(inside, size) /\ k - p \in 0 .. PieceSize(inside, size, p) - 1
        BY <1>1, <4>2, <4>3, PiecesCover
      <4> QED
        BY <4>1, <4>4
    <3> QED
      BY <3>1, <3>2
  <2> DEFINE p == last(k)
  <2> HIDE DEF last
  <2>2. p \in Nat /\ ReadsOf(m.dev, at + p, Len1(p), Part(p))
    BY <1>14, <2>1
  <2>3. k \in 0 .. file.size - offset - 1 /\ k \in Nat
    <3> HIDE DEF cut
    <3> QED
      BY <1>1, <1>9, SMTT(80)
  <2> HIDE DEF p, Part, Len1, cut, starts, short
  <2>4. k - p \in 0 .. Len1(p) - 1 /\ (at + p) + (k - p) = at + k
    BY <1>8, <2>1, <2>2, <2>3 DEF p
  <2>5. (at + p) + (k - p) < m.dev.size * SectorSize
    BY <1>8, <2>3, <2>4 DEF end
  <2>6. /\ k - p \in DOMAIN Part(p).data
        /\ Part(p).data[k - p] = OnDisk(m.dev, (at + p) + (k - p))
    BY <2>2, <2>4, <2>5 DEF ReadsOf
  <2> QED
    BY <1>8, <2>3, <2>4, <2>6 DEF p
<1>16. ~ (\E p \in starts : Part(p) = Runaway)
  BY <1>14, SMTT(40) DEF ReadsOf
<1>17. FatRead(devices, m.dev, v, lost, file, offset, size)
         = [n |-> cut, data |-> [k \in 0 .. cut - 1 |-> byte(k)]]
  <2>1. /\ ~ (size = 0 \/ offset > file.size)
        /\ (offset + size > file.size) = (size > file.size - offset)
    BY <1>1, SMTT(40)
  <2>2. file.cluster + q # Nothing /\ (DataOffset(v) + (file.cluster + q)) * b + inside = at
    <3>1. file.cluster \in Nat
      BY <1>3, ContiguousClusters
    <3>2. v.fats * v.spf + 1 + Len(v.root) - 2 \in Int
      <4>1. v.fats \in Nat /\ v.spf \in Nat /\ v.root \in Seq(Range(v.root))
        BY DEF FatFormatted
      <4>2. v.fats * v.spf \in Nat
        BY <4>1
      <4> QED
        BY <4>1, <4>2, SMTT(40)
    <3>3. DataOffset(v) \in Int
      BY <3>2 DEF DataOffset, RootOffset
    <3>4. DataOffset(v) + (file.cluster + q) = x
      BY <1>6, <1>7, <3>1, <3>3, SMTT(40)
    <3>5. file.cluster + q \in Nat
      BY <3>1
    <3> QED
      BY <3>4, <3>5, BlockAssumption DEF at
  <2>3. ~ (\E p \in starts : Part(p) = Runaway)
    BY <1>16
  <2> DEFINE cluster == Skipped(v, lost, file.cluster, offset \div SectorSize)
  <2>4. cluster = file.cluster + q
    BY <1>2, <1>4
  <2>5. (DataOffset(v) + cluster) * SectorSize + (offset % SectorSize) = at
    BY <1>2, <2>2, <2>4
  <2>6. offset % SectorSize = inside
    BY <1>2
  <2> HIDE DEF at, cluster
  <2> QED
    BY <2>1, <2>2, <2>3, <2>4, <2>5, <2>6, ZenonT(60) DEF FatRead, cluster
<1> HIDE DEF byte
<1> QED
  BY <1>15, <1>17

\* The same for every mount.
LEMMA FatReads == MountedInv => FatReadRight
<1> DEFINE Right(m, v, file, offset, size) ==
             LET left == file.size - offset
                 n    == IF size > left THEN left ELSE size
             IN  \/ m.dev.major = FDC /\ FileByte(v, file, offset) + size >
                                           m.dev.size * SectorSize
                 \/ FatRead(devices, m.dev, v, m.lost, file, offset, size) =
                      [n |-> n, data |-> [j \in 0 .. n - 1 |->
                         OnDisk(m.dev, FileByte(v, file, offset + j))]]
           Asked(m, v, file, offset) ==
             /\ m.dev.major = FDC \/ offset % SectorSize = 0
             /\ m.dev.major = HDC => m.dev.minor \div PartitionsPerDrive = m.dev.on
             /\ ChainKept(v, m.lost, file.cluster, offset \div SectorSize)
<1>1. ASSUME MountedInv, NEW i \in FatMounted,
             NEW m, m = mounts[i], NEW v, v = Volume(m), v.reserved = 1,
             NEW file \in {e \in FileEntries(v) : Contiguous(v, e)},
             NEW offset \in 0 .. file.size - 1, Asked(m, v, file, offset),
             NEW size \in 1 .. (file.size - offset) + 1
      PROVE  Right(m, v, file, offset, size)
  <2>1. /\ Booted /\ FatFormatted(v) /\ m.lost \in Nat /\ Id(m.dev) \in DOMAIN VolumeOn
        /\ \E j \in 1 .. Len(devices) : devices[j] = m.dev
        /\ \A e \in FileEntries(v) : \A k \in 0 .. e.size - 1 :
             FileByte(v, e, k) < m.dev.size * SectorSize
    BY <1>1, FatMountHolds
  <2>2. PICK j \in 1 .. Len(devices) : devices[j] = m.dev
    BY <2>1
  <2>3. \A k \in 0 .. (offset \div SectorSize) - 1 :
          EntryAt(Skipped(v, 0, file.cluster, k)) >= m.lost
    BY <1>1 DEF ChainKept
  <2>4. file \in FileEntries(v) /\ Contiguous(v, file) /\ BootInv
    BY <1>1 DEF MountedInv, BootedInv
  <2>5. CASE m.dev.major = FDC /\ FileByte(v, file, offset) + size > m.dev.size * SectorSize
    BY <2>5
  <2>6. CASE ~ (m.dev.major = FDC
                /\ FileByte(v, file, offset) + size > m.dev.size * SectorSize)
    <3>1. Readable(m, v, m.lost, file, offset, size)
      <4>1. \A k \in 0 .. file.size - 1 : FileByte(v, file, k) < m.dev.size * SectorSize
        BY <2>1, <2>4
      <4> QED
        BY <1>1, <2>1, <2>3, <2>4, <2>6, <4>1 DEF Readable
    <3>2. LET n == IF size > file.size - offset THEN file.size - offset ELSE size
          IN  FatRead(devices, m.dev, v, m.lost, file, offset, size)
                = [n |-> n, data |-> [k \in 0 .. n - 1 |->
                     OnDisk(m.dev, FileByte(v, file, offset + k))]]
      BY <2>1, <2>4, <3>1, FatReadsFile
    <3> QED
      BY <3>2
  <2> QED
    BY <2>5, <2>6
<1>2. ASSUME MountedInv, NEW i \in FatMounted
      PROVE  LET m == mounts[i]
                 v == Volume(m)
             IN  v.reserved = 1 =>
                 \A file \in {e \in FileEntries(v) : Contiguous(v, e)} :
                   \A offset \in 0 .. file.size - 1 :
                     Asked(m, v, file, offset) =>
                       \A size \in 1 .. (file.size - offset) + 1 : Right(m, v, file, offset, size)
  <2> HIDE DEF Right, Asked
  <2> QED
    BY <1>1, <1>2
<1> QED
  BY <1>2 DEF FatReadRight

\* fat12_read (vfs/fat12.c:200-293) returns the bytes of the file, on every volume of
\* the format and for every offset and size in a file whose clusters follow one
\* another, with what FatReadRight excepts.
THEOREM FileReadsRight == Spec => []FatReadRight
<1>1. MountedInv => FatReadRight
  BY FatReads
<1> QED
  BY <1>1, InitMounted, NextKeepsMounted, PTL DEF Spec
----------------------------------------------------------------------------
(* Searches of directories *)

\* What a search finds in a cluster with n more to go, if g is what it finds there.
SearchStep(v, lost, name, n, c, g) ==
  LET parsed == Parse(v.dirs[c], name)
      next   == NextCluster(v, lost, c)
  IN  IF parsed.result # "more" THEN parsed
      ELSE IF next = Nothing \/ n = 0 THEN Unknown
      ELSE IF next <= 2 \/ next >= ReservedFrom THEN Ended
      ELSE IF next \notin DOMAIN v.dirs THEN Unknown
      ELSE g[next]

\* The search along a chain of at most m clusters, as FindInChain defines it.
IsSearch(f, v, lost, name, m) ==
  f = [n \in 0 .. m |-> [c \in DOMAIN v.dirs |-> SearchStep(v, lost, name, n, c, f[n - 1])]]

\* There is such a function, and FindInChain is its value.
LEMMA SearchExists ==
  ASSUME NEW v, NEW lost, NEW name, NEW m \in Nat
  PROVE  \E f : IsSearch(f, v, lost, name, m)
<1> DEFINE S == {n \in Nat : ~ \E f : IsSearch(f, v, lost, name, n)}
<1> SUFFICES ASSUME S # {} PROVE FALSE
  OBVIOUS
<1>1. PICK n \in S : \A l \in S : n <= l
  <2>1. S \in SUBSET Nat
    OBVIOUS
  <2> HIDE DEF S
  <2> QED
    BY <2>1, LeastElement
<1>2. n # 0
  <2> DEFINE one == [k \in 0 .. 0 |-> [c \in DOMAIN v.dirs |->
                                         SearchStep(v, lost, name, 0, c, << >>)]]
  <2>1. ASSUME NEW c, NEW g
        PROVE  SearchStep(v, lost, name, 0, c, << >>) = SearchStep(v, lost, name, 0, c, g)
    BY DEF SearchStep
  <2>2. IsSearch(one, v, lost, name, 0)
    <3>1. one = [k \in 0 .. 0 |-> [c \in DOMAIN v.dirs |->
                                     SearchStep(v, lost, name, k, c, one[k - 1])]]
      BY <2>1
    <3> QED
      BY <3>1 DEF IsSearch
  <2> QED
    BY <1>1, <2>2
<1>3. n \in Nat /\ n - 1 \in Nat /\ n - 1 \notin S
  BY <1>1, <1>2
<1>4. PICK f : IsSearch(f, v, lost, name, n - 1)
  BY <1>3
<1> DEFINE Row(k, g) == [c \in DOMAIN v.dirs |-> SearchStep(v, lost, name, k, c, g)]
           h == [k \in 0 .. n |-> IF k = n THEN Row(n, f[n - 1]) ELSE f[k]]
<1>5. ASSUME NEW k \in 0 .. n
      PROVE  h[k] = Row(k, h[k - 1])
  <2>1. \A l \in 0 .. n - 1 : f[l] = Row(l, f[l - 1])
    BY <1>4 DEF IsSearch
  <2> HIDE DEF Row
  <2>2. CASE k = n
    <3>1. n - 1 \in 0 .. n /\ n - 1 # n
      BY <1>3
    <3>2. h[n - 1] = f[n - 1]
      BY <3>1
    <3> QED
      BY <2>2, <3>2
  <2>3. CASE k # n
    <3>1. k \in 0 .. n - 1
      BY <1>3, <2>3
    <3>2. CASE k = 0
      <4>1. h[0] = Row(0, f[0 - 1])
        BY <2>1, <2>3, <3>1, <3>2
      <4>2. ASSUME NEW c, NEW g1, NEW g2
            PROVE  SearchStep(v, lost, name, 0, c, g1) = SearchStep(v, lost, name, 0, c, g2)
        BY DEF SearchStep
      <4>3. Row(0, f[0 - 1]) = Row(0, h[0 - 1])
        BY <4>2 DEF Row
      <4> QED
        BY <3>2, <4>1, <4>3
    <3>3. CASE k # 0
      <4>1. k - 1 \in 0 .. n /\ k - 1 # n
        BY <1>3, <3>1, <3>3
      <4>2. h[k - 1] = f[k - 1]
        BY <4>1
      <4> QED
        BY <2>1, <2>3, <3>1, <4>2
    <3> QED
      BY <3>2, <3>3
  <2> QED
    BY <2>2, <2>3
<1>6. h = [k \in 0 .. n |-> h[k]]
  OBVIOUS
<1> HIDE DEF h
<1>7. IsSearch(h, v, lost, name, n)
  BY <1>5, <1>6 DEF IsSearch
<1> QED
  BY <1>1, <1>7

LEMMA FindInChainIs ==
  ASSUME NEW v, NEW lost, NEW start, NEW name, Cardinality(DOMAIN v.next) \in Nat
  PROVE  \E f : /\ IsSearch(f, v, lost, name, Cardinality(DOMAIN v.next))
                /\ FindInChain(v, lost, start, name) = f[Cardinality(DOMAIN v.next)][start]
<1> DEFINE m == Cardinality(DOMAIN v.next)
           Search[n \in 0 .. m] ==
             [c \in DOMAIN v.dirs |->
               LET parsed == Parse(v.dirs[c], name)
                   next   == NextCluster(v, lost, c)
               IN  IF parsed.result # "more" THEN parsed
                   ELSE IF next = Nothing \/ n = 0 THEN Unknown
                   ELSE IF next <= 2 \/ next >= ReservedFrom THEN Ended
                   ELSE IF next \notin DOMAIN v.dirs THEN Unknown
                   ELSE Search[n - 1][next]]
<1>1. Search = CHOOSE f : IsSearch(f, v, lost, name, m)
  BY Zenon DEF IsSearch, SearchStep
<1>2. FindInChain(v, lost, start, name) = Search[m][start]
  BY DEF FindInChain
<1> HIDE DEF Search
<1>3. IsSearch(Search, v, lost, name, m)
  BY <1>1, SearchExists
<1> QED
  BY <1>2, <1>3

\* A FAT has as many entries as a number tells.
LEMMA ChainsAreFinite ==
  ASSUME NEW v, FatFormatted(v)
  PROVE  Cardinality(DOMAIN v.next) \in Nat
<1>1. IsFiniteSet(2 .. ReservedFrom - 1)
  BY FatAssumption, FS_Interval
<1>2. DOMAIN v.next \subseteq 2 .. ReservedFrom - 1
  BY FormattedChains
<1>3. IsFiniteSet(DOMAIN v.next)
  BY <1>1, <1>2, FS_Subset
<1> QED
  BY <1>3, FS_CardinalityType

\* The first q + 1 clusters of a directory are there, and a search does not end in
\* the first q.
Passes(v, lost, start, name, q) ==
  /\ \A l \in 0 .. q : Skipped(v, lost, start, l) \in DOMAIN v.dirs
  /\ \A l \in 1 .. q : Skipped(v, lost, start, l) # 2
  /\ \A l \in 0 .. q - 1 :
       Parse(v.dirs[Skipped(v, lost, start, l)], name).result = "more"

\* The search goes on along the chain as long as it has found nothing, to what ends
\* it.
LEMMA SearchDescends ==
  ASSUME NEW v, FatFormatted(v), NEW lost, NEW name, NEW start,
         NEW q \in 0 .. Cardinality(DOMAIN v.next), Passes(v, lost, start, name, q),
         Parse(v.dirs[Skipped(v, lost, start, q)], name).result # "more"
  PROVE  FindInChain(v, lost, start, name) = Parse(v.dirs[Skipped(v, lost, start, q)], name)
<1> DEFINE m == Cardinality(DOMAIN v.next)
<1> m \in Nat /\ q \in 0 .. m
  BY ChainsAreFinite
<1>0. PICK f : IsSearch(f, v, lost, name, m) /\ FindInChain(v, lost, start, name) = f[m][start]
  BY FindInChainIs
<1> HIDE DEF m
<1> DEFINE C(l) == Skipped(v, lost, start, l)
           S == {l \in 0 .. q : f[m - l][C(l)] # f[m][start]}
<1>1. /\ \A c \in DOMAIN v.dirs : c \in 2 .. ReservedFrom - 1
      /\ ReservedFrom \in Nat
  BY FormattedChains, FatAssumption
<1> HIDE DEF C
<1>2. C(0) = start /\ \A n \in Nat \ {0} : C(n) = NextCluster(v, lost, C(n - 1))
  BY SkippedZero, SkippedNext DEF C
<1>3. \A n \in 0 .. m : \A c \in DOMAIN v.dirs :
        f[n][c] = SearchStep(v, lost, name, n, c, f[n - 1])
  <2>1. IsSearch(f, v, lost, name, m)
    BY <1>0
  <2>2. f = [n \in 0 .. m |-> [c \in DOMAIN v.dirs |->
                               SearchStep(v, lost, name, n, c, f[n - 1])]]
    BY <2>1 DEF IsSearch
  <2>3. ASSUME NEW n \in 0 .. m
        PROVE  f[n] = [c \in DOMAIN v.dirs |-> SearchStep(v, lost, name, n, c, f[n - 1])]
    BY <2>2
  <2> QED
    BY <2>3, ZenonT(60)
<1>4. S = {}
  <2> SUFFICES ASSUME S # {} PROVE FALSE
    OBVIOUS
  <2>1. PICK k \in S : \A l \in S : k <= l
    <3>1. S \in SUBSET Nat
      OBVIOUS
    <3> HIDE DEF S
    <3> QED
      BY <3>1, LeastElement
  <2>2. k # 0
    <3>1. m - 0 = m
      OBVIOUS
    <3> QED
      BY <1>2, <2>1, <3>1
  <2>3. /\ k \in Nat \ {0} /\ k \in 1 .. q /\ k - 1 \in 0 .. q - 1 /\ k - 1 \in 0 .. q
        /\ k - 1 \notin S /\ m - (k - 1) \in 0 .. m /\ m - (k - 1) # 0
        /\ (m - (k - 1)) - 1 = m - k
    BY <2>1, <2>2
  <2>4. f[m - (k - 1)][C(k - 1)] = f[m][start]
    BY <2>3
  <2>5. /\ C(k - 1) \in DOMAIN v.dirs /\ C(k) \in DOMAIN v.dirs /\ C(k) # 2
        /\ Parse(v.dirs[C(k - 1)], name).result = "more"
    BY <2>3 DEF C, Passes
  <2>6. C(k) = NextCluster(v, lost, C(k - 1))
    BY <1>2, <2>3
  <2>7. C(k) # Nothing /\ ~ (C(k) <= 2 \/ C(k) >= ReservedFrom)
    BY <1>1, <2>5, BlockAssumption
  <2>8. f[m - (k - 1)][C(k - 1)]
          = SearchStep(v, lost, name, m - (k - 1), C(k - 1), f[m - k])
    BY <1>3, <2>3, <2>5
  <2>9. SearchStep(v, lost, name, m - (k - 1), C(k - 1), f[m - k]) = f[m - k][C(k)]
    BY <2>3, <2>5, <2>6, <2>7 DEF SearchStep
  <2> QED
    BY <2>1, <2>4, <2>8, <2>9
<1>5. q \in 0 .. q /\ q \notin S /\ m - q \in 0 .. m
  BY <1>4
<1>6. C(q) \in DOMAIN v.dirs
  BY <1>5 DEF C, Passes
<1>7. f[m][start] = f[m - q][C(q)]
  BY <1>5
<1>8. f[m - q][C(q)] = SearchStep(v, lost, name, m - q, C(q), f[(m - q) - 1])
  BY <1>3, <1>5, <1>6
<1>9. SearchStep(v, lost, name, m - q, C(q), f[(m - q) - 1]) = Parse(v.dirs[C(q)], name)
  BY DEF SearchStep, C
<1> QED
  BY <1>0, <1>7, <1>8, <1>9 DEF C

\* In a sector, the first entry with a name is found before the end mark.
LEMMA ParseFinds ==
  ASSUME NEW s, s \in Seq(Range(s)), NEW name, NEW r \in DOMAIN s,
         \A i \in 1 .. r - 1 : s[i] # Nothing /\ s[i].name # name,
         s[r] # Nothing, s[r].name = name
  PROVE  Parse(s, name) = Found(s[r])
<1> DEFINE stops == {i \in DOMAIN s : s[i] = Nothing \/ s[i].name = name}
<1>1. DOMAIN s = 1 .. Len(s) /\ Len(s) \in Nat
  OBVIOUS
<1>2. stops \in SUBSET Nat /\ r \in stops
  BY <1>1
<1>3. \A i \in stops : ~ (i < r)
  BY <1>1
<1>4. Min(stops) = r
  <2> HIDE DEF stops
  <2>1. Min(stops) \in stops /\ Min(stops) <= r
    BY <1>2, MinIsFirst
  <2> DEFINE z == Min(stops)
  <2>2. z \in Nat /\ z <= r /\ ~ (z < r) /\ r \in Nat
    BY <1>2, <1>3, <2>1
  <2> HIDE DEF z
  <2>3. z = r
    BY <2>2
  <2> QED
    BY <2>3 DEF z
<1>5. stops # {}
  BY <1>2
<1> QED
  BY <1>4, <1>5 DEF Parse

\* A sector without the name and without the end mark is passed.
LEMMA ParsePasses ==
  ASSUME NEW s, NEW name, \A i \in DOMAIN s : s[i] # Nothing /\ s[i].name # name
  PROVE  Parse(s, name).result = "more"
BY DEF Parse

\* The sectors of directories of a formatted volume are full.
LEMMA SectorsAreFull ==
  ASSUME NEW v, FatFormatted(v)
  PROVE  /\ v.root \in Seq(Range(v.root)) /\ Len(v.root) \in Nat
         /\ \A n \in 1 .. Len(v.root) :
              v.root[n] \in Seq(Range(v.root[n])) /\ Len(v.root[n]) = EntriesPerDirSector
         /\ \A c \in DOMAIN v.dirs :
              v.dirs[c] \in Seq(Range(v.dirs[c])) /\ Len(v.dirs[c]) = EntriesPerDirSector
<1>1. v.root \in Seq(Range(v.root))
  BY DEF FatFormatted
<1>2. \A s \in DirSectors(v) : s \in Seq(Range(s)) /\ Len(s) = EntriesPerDirSector
  BY DEF FatFormatted
<1>3. \A n \in 1 .. Len(v.root) : v.root[n] \in DirSectors(v)
  <2>1. DOMAIN v.root = 1 .. Len(v.root)
    BY <1>1
  <2> QED
    BY <2>1 DEF DirSectors, Range
<1>4. \A c \in DOMAIN v.dirs : v.dirs[c] \in DirSectors(v)
  BY DEF DirSectors
<1>5. Len(v.root) \in Nat
  BY <1>1
<1> QED
  BY <1>1, <1>2, <1>3, <1>4, <1>5

\* In full sectors one after the other, the first entry with a name is at k, in
\* sector q.
FirstInSectors(rows, name, k, q) ==
  LET E(j) == rows[j \div EntriesPerDirSector][(j % EntriesPerDirSector) + 1]
  IN  /\ \A l \in 0 .. q : /\ rows[l] \in Seq(Range(rows[l]))
                            /\ Len(rows[l]) = EntriesPerDirSector
      /\ \A j \in 0 .. k - 1 : E(j) # Nothing /\ E(j).name # name
      /\ rows[q][(k % EntriesPerDirSector) + 1] # Nothing
      /\ rows[q][(k % EntriesPerDirSector) + 1].name = name

\* Of full sectors one after the other, all are passed before that with the first
\* entry with a name, in which it is found.
LEMMA SectorsHit ==
  ASSUME NEW rows, NEW name, NEW k \in Nat, NEW q \in Nat, q = k \div EntriesPerDirSector,
         FirstInSectors(rows, name, k, q)
  PROVE  /\ \A l \in 0 .. q - 1 : Parse(rows[l], name).result = "more"
         /\ Parse(rows[q], name) = Found(rows[q][(k % EntriesPerDirSector) + 1])
<1> PICK b \in Nat \ {0} : b = EntriesPerDirSector
  BY FatAssumption
<1>1. PICK s \in 0 .. b - 1 : s = k % b /\ k = b * q + s
  <2>1. k % b \in 0 .. b - 1 /\ k = b * (k \div b) + (k % b)
    BY DivMod
  <2> QED
    BY <2>1
<1>2. ASSUME NEW l \in Nat, NEW i \in 1 .. b, b * l + (i - 1) < k
      PROVE  rows[l][i] # Nothing /\ rows[l][i].name # name
  <2>1. i - 1 \in 0 .. b - 1 /\ (i - 1) + 1 = i
    OBVIOUS
  <2>2. (b * l + (i - 1)) \div b = l /\ (b * l + (i - 1)) % b = i - 1
    BY <2>1, Remainder
  <2>3. b * l \in Nat
    OBVIOUS
  <2>4. PICK j \in Nat : j = b * l + (i - 1)
    BY <2>1, <2>3
  <2>5. j \in 0 .. k - 1 /\ j \div b = l /\ (j % b) + 1 = i
    BY <1>2, <2>1, <2>2, <2>4
  <2> QED
    BY <2>5 DEF FirstInSectors
<1>3. b * q \in Nat /\ \A l \in 0 .. q - 1 : b * l \in Nat /\ b * l + b <= b * q
  <2>1. ASSUME NEW l \in 0 .. q - 1
        PROVE  b * l \in Nat /\ b * l + b <= b * q
    <3>1. l < q /\ l \in Nat /\ l \in Int /\ q \in Int
      OBVIOUS
    <3>2. b * l + b <= b * q
      BY <3>1, MultipleGrows
    <3>3. b * l \in Nat
      BY <3>1
    <3> QED
      BY <3>2, <3>3
  <2> QED
    BY <2>1
<1>4. ASSUME NEW l \in 0 .. q - 1 PROVE Parse(rows[l], name).result = "more"
  <2>1. l \in 0 .. q /\ l \in Nat
    OBVIOUS
  <2>2. DOMAIN rows[l] = 1 .. b
    BY <2>1 DEF FirstInSectors
  <2>3. PICK y \in Nat, z \in Nat : y = b * l /\ z = b * q /\ y + b <= z
    BY <1>3
  <2>4. \A i \in 1 .. b : y + (i - 1) < k
    <3>1. k = z + s
      BY <1>1, <2>3
    <3>2. y + b <= z
      BY <2>3
    <3>3. ASSUME NEW i \in 1 .. b PROVE y + (i - 1) < z + s
      BY <3>2
    <3> QED
      BY <3>1, <3>3
  <2>5. \A i \in 1 .. b : rows[l][i] # Nothing /\ rows[l][i].name # name
    BY <1>2, <2>1, <2>3, <2>4
  <2> QED
    BY <2>2, <2>5, ParsePasses
<1>5. Parse(rows[q], name) = Found(rows[q][s + 1])
  <2>1. q \in 0 .. q /\ s + 1 \in 1 .. b
    OBVIOUS
  <2>2. rows[q] \in Seq(Range(rows[q])) /\ DOMAIN rows[q] = 1 .. b
    BY <2>1 DEF FirstInSectors
  <2>3. PICK z \in Nat : z = b * q
    BY <1>3
  <2>4. \A i \in 1 .. s : i \in 1 .. b /\ z + (i - 1) < k
    <3>1. k = z + s
      BY <1>1, <2>3
    <3> QED
      BY <2>3, <3>1
  <2>5. \A i \in 1 .. (s + 1) - 1 : rows[q][i] # Nothing /\ rows[q][i].name # name
    <3>1. 1 .. (s + 1) - 1 = 1 .. s
      OBVIOUS
    <3> QED
      BY <1>2, <2>3, <2>4, <3>1
  <2>6. rows[q][s + 1] # Nothing /\ rows[q][s + 1].name = name
    BY <1>1 DEF FirstInSectors
  <2>7. s + 1 \in DOMAIN rows[q]
    BY <2>1, <2>2
  <2> QED
    BY <2>2, <2>5, <2>6, <2>7, ParseFinds, SMTT(40)
<1> QED
  BY <1>1, <1>4, <1>5

\* The entry with an index in a subdirectory, along the chain in memory.
ChainEntry(v, lost, dir, k) ==
  v.dirs[Skipped(v, lost, dir, k \div EntriesPerDirSector)][(k % EntriesPerDirSector) + 1]

\* The first entry with a name in a subdirectory is at k, in its cluster q, and the
\* chain is in memory up to it and does not pass cluster 2.
FirstInChain(v, lost, dir, name, k, q) ==
  /\ q = k \div EntriesPerDirSector
  /\ \A l \in 0 .. q : Skipped(v, lost, dir, l) \in DOMAIN v.dirs
  /\ \A l \in 1 .. q : Skipped(v, lost, dir, l) # 2
  /\ \A j \in 0 .. k - 1 : /\ ChainEntry(v, lost, dir, j) # Nothing
                            /\ ChainEntry(v, lost, dir, j).name # name
  /\ ChainEntry(v, lost, dir, k) # Nothing
  /\ ChainEntry(v, lost, dir, k).name = name

\* fat12_finddir (vfs/fat12.c) finds the first entry with a name in a subdirectory,
\* if the chain is in memory up to it and does not pass cluster 2.
LEMMA ChainHits ==
  ASSUME NEW v, FatFormatted(v), NEW lost, NEW dir, NEW name, NEW k \in Nat,
         NEW q \in 0 .. Cardinality(DOMAIN v.next), FirstInChain(v, lost, dir, name, k, q)
  PROVE  FindInChain(v, lost, dir, name) = Found(ChainEntry(v, lost, dir, k))
<1> DEFINE rows == [l \in 0 .. q |-> v.dirs[Skipped(v, lost, dir, l)]]
<1>1. q \in Nat /\ q = k \div EntriesPerDirSector
  BY ChainsAreFinite DEF FirstInChain
<1>2. \A l \in 0 .. q : rows[l] = v.dirs[Skipped(v, lost, dir, l)]
  OBVIOUS
<1> HIDE DEF rows
<1>3. \A l \in 0 .. q : rows[l] \in Seq(Range(rows[l])) /\ Len(rows[l]) = EntriesPerDirSector
  BY <1>2, SectorsAreFull DEF FirstInChain
<1>4. ASSUME NEW j \in 0 .. k
      PROVE  rows[j \div EntriesPerDirSector][(j % EntriesPerDirSector) + 1]
               = ChainEntry(v, lost, dir, j)
  <2> PICK b \in Nat \ {0} : b = EntriesPerDirSector
    BY FatAssumption
  <2>1. j \in Nat
    OBVIOUS
  <2>2. j \div b \in Nat
    BY <2>1, DivMod
  <2>3. ~ (q < j \div b)
    <3> SUFFICES ASSUME k \div b < j \div b PROVE FALSE
      BY <1>1
    <3>1. k < j
      BY <2>1, WordsGrow
    <3> QED
      BY <3>1
  <2>4. j \div b \in 0 .. q
    BY <1>1, <2>2, <2>3
  <2> QED
    BY <1>2, <2>4 DEF ChainEntry
<1>5. /\ \A j \in 0 .. k - 1 :
           LET e == rows[j \div EntriesPerDirSector][(j % EntriesPerDirSector) + 1]
           IN  e # Nothing /\ e.name # name
      /\ rows[q][(k % EntriesPerDirSector) + 1] = ChainEntry(v, lost, dir, k)
  <2>1. \A j \in 0 .. k - 1 : j \in 0 .. k
    OBVIOUS
  <2>2. k \in 0 .. k
    OBVIOUS
  <2>3. rows[q][(k % EntriesPerDirSector) + 1] = ChainEntry(v, lost, dir, k)
    BY <1>1, <1>4, <2>2
  <2> QED
    BY <1>4, <2>1, <2>3 DEF FirstInChain
<1>6. /\ \A l \in 0 .. q - 1 : Parse(rows[l], name).result = "more"
      /\ Parse(rows[q], name) = Found(ChainEntry(v, lost, dir, k))
  <2>1. FirstInSectors(rows, name, k, q)
    BY <1>3, <1>5 DEF FirstInSectors, FirstInChain
  <2>2. /\ \A l \in 0 .. q - 1 : Parse(rows[l], name).result = "more"
        /\ Parse(rows[q], name) = Found(rows[q][(k % EntriesPerDirSector) + 1])
    BY <1>1, <2>1, SectorsHit
  <2> QED
    BY <1>5, <2>2
<1>7. \A l \in 0 .. q - 1 :
        Parse(v.dirs[Skipped(v, lost, dir, l)], name).result = "more"
  <2>1. \A l \in 0 .. q - 1 : l \in 0 .. q
    BY <1>1
  <2> QED
    BY <1>2, <1>6, <2>1
<1>8. Passes(v, lost, dir, name, q)
  BY <1>7 DEF Passes, FirstInChain
<1>9. Parse(v.dirs[Skipped(v, lost, dir, q)], name) = Found(ChainEntry(v, lost, dir, k))
  <2>1. q \in 0 .. q
    BY <1>1
  <2> QED
    BY <1>2, <1>6, <2>1
<1>10. Parse(v.dirs[Skipped(v, lost, dir, q)], name).result # "more"
  BY <1>9 DEF Found
<1> QED
  BY <1>8, <1>9, <1>10, SearchDescends

\* The entry with an index in the root directory.
RootEntry(v, k) ==
  v.root[(k \div EntriesPerDirSector) + 1][(k % EntriesPerDirSector) + 1]

\* The same in the root directory, which lies in sectors that follow one another.
LEMMA RootHits ==
  ASSUME NEW v, FatFormatted(v), NEW name, NEW k \in Nat,
         k \div EntriesPerDirSector < Len(v.root),
         \A j \in 0 .. k - 1 : RootEntry(v, j) # Nothing /\ RootEntry(v, j).name # name,
         RootEntry(v, k) # Nothing, RootEntry(v, k).name = name
  PROVE  FindInRoot(v, name) = Found(RootEntry(v, k))
<1> PICK q \in Nat : q = k \div EntriesPerDirSector
  BY FatAssumption, DivMod
<1> DEFINE rows == [l \in 0 .. q |-> v.root[l + 1]]
           ends == {i \in DOMAIN v.root : Parse(v.root[i], name).result # "more"}
<1>1. /\ v.root \in Seq(Range(v.root)) /\ Len(v.root) \in Nat
      /\ \A n \in 1 .. Len(v.root) :
           v.root[n] \in Seq(Range(v.root[n])) /\ Len(v.root[n]) = EntriesPerDirSector
  BY SectorsAreFull
<1>2. /\ DOMAIN v.root = 1 .. Len(v.root)
      /\ \A l \in 0 .. q : rows[l] = v.root[l + 1] /\ l + 1 \in 1 .. Len(v.root)
  BY <1>1
<1> HIDE DEF rows
<1>3. \A l \in 0 .. q : rows[l] \in Seq(Range(rows[l])) /\ Len(rows[l]) = EntriesPerDirSector
  BY <1>1, <1>2
<1>4. ASSUME NEW j \in 0 .. k
      PROVE  rows[j \div EntriesPerDirSector][(j % EntriesPerDirSector) + 1] = RootEntry(v, j)
  <2> PICK b \in Nat \ {0} : b = EntriesPerDirSector
    BY FatAssumption
  <2>1. j \in Nat
    OBVIOUS
  <2>2. j \div b \in Nat
    BY <2>1, DivMod
  <2>3. ~ (q < j \div b)
    <3> SUFFICES ASSUME k \div b < j \div b PROVE FALSE
      OBVIOUS
    <3>1. k < j
      BY <2>1, WordsGrow
    <3> QED
      BY <3>1
  <2>4. j \div b \in 0 .. q
    BY <2>2, <2>3
  <2> QED
    BY <1>2, <2>4 DEF RootEntry
<1>5. /\ \A j \in 0 .. k - 1 :
           LET e == rows[j \div EntriesPerDirSector][(j % EntriesPerDirSector) + 1]
           IN  e # Nothing /\ e.name # name
      /\ rows[q][(k % EntriesPerDirSector) + 1] = RootEntry(v, k)
  <2>1. \A j \in 0 .. k - 1 : j \in 0 .. k
    OBVIOUS
  <2>2. k \in 0 .. k
    OBVIOUS
  <2> QED
    BY <1>4, <2>1, <2>2
<1>6. /\ \A l \in 0 .. q - 1 : Parse(rows[l], name).result = "more"
      /\ Parse(rows[q], name) = Found(RootEntry(v, k))
  <2>1. FirstInSectors(rows, name, k, q)
    BY <1>3, <1>5 DEF FirstInSectors
  <2>2. /\ \A l \in 0 .. q - 1 : Parse(rows[l], name).result = "more"
        /\ Parse(rows[q], name) = Found(rows[q][(k % EntriesPerDirSector) + 1])
    BY <2>1, SectorsHit
  <2> QED
    BY <1>5, <2>2
<1>7. /\ Parse(v.root[q + 1], name) = Found(RootEntry(v, k))
      /\ \A i \in 1 .. q : Parse(v.root[i], name).result = "more"
  <2>1. q \in 0 .. q
    OBVIOUS
  <2>2. ASSUME NEW i \in 1 .. q PROVE Parse(v.root[i], name).result = "more"
    <3>1. i - 1 \in 0 .. q - 1 /\ i - 1 \in 0 .. q /\ (i - 1) + 1 = i
      OBVIOUS
    <3> QED
      BY <1>2, <1>6, <3>1
  <2> QED
    BY <1>2, <1>6, <2>1, <2>2
<1>8. q + 1 \in ends /\ ends \in SUBSET Nat /\ \A i \in ends : ~ (i < q + 1)
  <2>1. q + 1 \in DOMAIN v.root
    BY <1>2
  <2>2. Found(RootEntry(v, k)).result # "more"
    BY DEF Found
  <2>3. ends \in SUBSET Nat
    BY <1>1, <1>2
  <2>4. ASSUME NEW i \in ends, i < q + 1 PROVE FALSE
    <3>1. i \in 1 .. q
      BY <1>1, <1>2, <2>4
    <3> QED
      BY <1>7, <3>1
  <2> QED
    BY <1>7, <2>1, <2>2, <2>3, <2>4
<1>9. Min(ends) = q + 1
  <2> HIDE DEF ends
  <2>1. Min(ends) \in ends /\ Min(ends) <= q + 1
    BY <1>8, MinIsFirst
  <2> DEFINE z == Min(ends)
  <2>2. z \in Nat /\ z <= q + 1 /\ ~ (z < q + 1)
    BY <1>8, <2>1
  <2> HIDE DEF z
  <2>3. z = q + 1
    BY <2>2
  <2> QED
    BY <2>3 DEF z
<1>10. ends # {}
  BY <1>8
<1> QED
  BY <1>7, <1>9, <1>10 DEF FindInRoot
----------------------------------------------------------------------------
(* The entries of a directory *)

\* What may stand in a directory.
EntriesOf(v) == {Nothing} \union UNION {Range(s) : s \in DirSectors(v)}

\* The entries from a cluster on with n more to go, if g gives those from the next.
MoreStep(v, n, c, g) ==
  v.dirs[c] \o IF n > 0 /\ v.next[c] \in DOMAIN v.dirs THEN g[v.next[c]] ELSE << Nothing >>

\* The entries along a chain, as FatEntries defines them.
IsMore(f, v, m) ==
  f = [n \in 0 .. m |-> [c \in DOMAIN v.dirs |-> MoreStep(v, n, c, f[n - 1])]]

\* There is such a function.
LEMMA MoreExists ==
  ASSUME NEW v, NEW m \in Nat
  PROVE  \E f : IsMore(f, v, m)
<1> DEFINE S == {n \in Nat : ~ \E f : IsMore(f, v, n)}
<1> SUFFICES ASSUME S # {} PROVE FALSE
  OBVIOUS
<1>1. PICK n \in S : \A l \in S : n <= l
  <2>1. S \in SUBSET Nat
    OBVIOUS
  <2> HIDE DEF S
  <2> QED
    BY <2>1, LeastElement
<1>2. n # 0
  <2> DEFINE one == [k \in 0 .. 0 |-> [c \in DOMAIN v.dirs |-> MoreStep(v, 0, c, << >>)]]
  <2>1. ASSUME NEW c, NEW g PROVE MoreStep(v, 0, c, << >>) = MoreStep(v, 0, c, g)
    BY DEF MoreStep
  <2>2. IsMore(one, v, 0)
    <3>1. one = [k \in 0 .. 0 |-> [c \in DOMAIN v.dirs |-> MoreStep(v, k, c, one[k - 1])]]
      BY <2>1
    <3> QED
      BY <3>1 DEF IsMore
  <2> QED
    BY <1>1, <2>2
<1>3. n \in Nat /\ n - 1 \in Nat /\ n - 1 \notin S
  BY <1>1, <1>2
<1>4. PICK f : IsMore(f, v, n - 1)
  BY <1>3
<1> DEFINE Row(k, g) == [c \in DOMAIN v.dirs |-> MoreStep(v, k, c, g)]
           h == [k \in 0 .. n |-> IF k = n THEN Row(n, f[n - 1]) ELSE f[k]]
<1>5. ASSUME NEW k \in 0 .. n
      PROVE  h[k] = Row(k, h[k - 1])
  <2>1. \A l \in 0 .. n - 1 : f[l] = Row(l, f[l - 1])
    BY <1>4 DEF IsMore
  <2> HIDE DEF Row
  <2>2. CASE k = n
    <3>1. n - 1 \in 0 .. n /\ n - 1 # n
      BY <1>3
    <3>2. h[n - 1] = f[n - 1]
      BY <3>1
    <3> QED
      BY <2>2, <3>2
  <2>3. CASE k # n
    <3>1. k \in 0 .. n - 1
      BY <1>3, <2>3
    <3>2. CASE k = 0
      <4>1. h[0] = Row(0, f[0 - 1])
        BY <2>1, <2>3, <3>1, <3>2
      <4>2. ASSUME NEW c, NEW g1, NEW g2
            PROVE  MoreStep(v, 0, c, g1) = MoreStep(v, 0, c, g2)
        BY DEF MoreStep
      <4>3. Row(0, f[0 - 1]) = Row(0, h[0 - 1])
        BY <4>2 DEF Row
      <4> QED
        BY <3>2, <4>1, <4>3
    <3>3. CASE k # 0
      <4>1. k - 1 \in 0 .. n /\ k - 1 # n
        BY <1>3, <3>1, <3>3
      <4>2. h[k - 1] = f[k - 1]
        BY <4>1
      <4> QED
        BY <2>1, <2>3, <3>1, <4>2
    <3> QED
      BY <3>2, <3>3
  <2> QED
    BY <2>2, <2>3
<1>6. h = [k \in 0 .. n |-> h[k]]
  OBVIOUS
<1> HIDE DEF h
<1>7. IsMore(h, v, n)
  BY <1>5, <1>6 DEF IsMore
<1> QED
  BY <1>1, <1>7

\* The entries of a subdirectory, and of the root, with an end mark.
LEMMA ChainEntriesAre ==
  ASSUME NEW v, NEW dir, dir # 0, Cardinality(DOMAIN v.next) \in Nat
  PROVE  \E f : /\ IsMore(f, v, Cardinality(DOMAIN v.next))
                /\ LET all == f[Cardinality(DOMAIN v.next)][dir]
                   IN  FatEntries(v, dir)
                         = SubSeq(all, 1, Min({i \in DOMAIN all : all[i] = Nothing}) - 1)
<1> DEFINE m == Cardinality(DOMAIN v.next)
           More[n \in 0 .. m] ==
             [c \in DOMAIN v.dirs |->
                v.dirs[c] \o IF n > 0 /\ v.next[c] \in DOMAIN v.dirs THEN More[n - 1][v.next[c]]
                             ELSE << Nothing >>]
           all == More[m][dir]
<1>1. More = CHOOSE f : IsMore(f, v, m)
  BY Zenon DEF IsMore, MoreStep
<1>2. FatEntries(v, dir) = SubSeq(all, 1, Min({i \in DOMAIN all : all[i] = Nothing}) - 1)
  BY DEF FatEntries
<1> HIDE DEF More
<1>3. IsMore(More, v, m)
  BY <1>1, MoreExists
<1> QED
  BY <1>2, <1>3

\* They are a sequence that ends with the mark.
LEMMA MoreTyped ==
  ASSUME NEW v, FatFormatted(v), NEW m \in Nat, NEW f, IsMore(f, v, m)
  PROVE  \A n \in 0 .. m : \A c \in DOMAIN v.dirs :
           /\ f[n][c] \in Seq(EntriesOf(v)) /\ Len(f[n][c]) > 0
           /\ f[n][c][Len(f[n][c])] = Nothing
<1> DEFINE T == EntriesOf(v)
           Ok(s) == s \in Seq(T) /\ Len(s) > 0 /\ s[Len(s)] = Nothing
           S == {n \in 0 .. m : ~ \A c \in DOMAIN v.dirs : Ok(f[n][c])}
<1> SUFFICES ASSUME S # {} PROVE FALSE
  OBVIOUS
<1>1. PICK n \in S : \A l \in S : n <= l
  <2>1. S \in SUBSET Nat
    OBVIOUS
  <2> HIDE DEF S
  <2> QED
    BY <2>1, LeastElement
<1>2. ASSUME NEW k \in 0 .. m, NEW c \in DOMAIN v.dirs
      PROVE  f[k][c] = MoreStep(v, k, c, f[k - 1])
  <2>1. f[k] = [d \in DOMAIN v.dirs |-> MoreStep(v, k, d, f[k - 1])]
    BY DEF IsMore
  <2> QED
    BY <2>1
<1>3. \A c \in DOMAIN v.dirs : v.dirs[c] \in Seq(T)
  <2>1. \A c \in DOMAIN v.dirs :
          v.dirs[c] \in Seq(Range(v.dirs[c])) /\ v.dirs[c] \in DirSectors(v)
    BY SectorsAreFull DEF DirSectors
  <2>2. \A c \in DOMAIN v.dirs : Range(v.dirs[c]) \subseteq T
    BY <2>1 DEF EntriesOf
  <2> HIDE DEF T
  <2> QED
    BY <2>1, <2>2
<1>4. Nothing \in T
  BY DEF EntriesOf
<1> HIDE DEF T
<1>5. ASSUME NEW s \in Seq(T), NEW t, Ok(t) PROVE Ok(s \o t)
  BY <1>5
<1>6. Ok(<< Nothing >>)
  BY <1>4
<1> HIDE DEF Ok
<1>7. ASSUME NEW c \in DOMAIN v.dirs PROVE Ok(f[n][c])
  <2>1. f[n][c] = MoreStep(v, n, c, f[n - 1])
    BY <1>1, <1>2
  <2>2. CASE n > 0 /\ v.next[c] \in DOMAIN v.dirs
    <3>1. n - 1 \in 0 .. m /\ n - 1 \notin S
      BY <1>1, <2>2
    <3>2. Ok(f[n - 1][v.next[c]])
      BY <2>2, <3>1
    <3>3. f[n][c] = v.dirs[c] \o f[n - 1][v.next[c]]
      BY <2>1, <2>2 DEF MoreStep
    <3> QED
      BY <1>3, <1>5, <3>2, <3>3
  <2>3. CASE ~ (n > 0 /\ v.next[c] \in DOMAIN v.dirs)
    <3>1. f[n][c] = v.dirs[c] \o << Nothing >>
      BY <2>1, <2>3 DEF MoreStep
    <3> QED
      BY <1>3, <1>5, <1>6, <3>1
  <2> QED
    BY <2>2, <2>3
<1> QED
  BY <1>1, <1>7

\* Behind the first sector are the entries from the next cluster on.
LEMMA MoreBehind ==
  ASSUME NEW v, FatFormatted(v), NEW m \in Nat, NEW f, IsMore(f, v, m),
         NEW n \in 0 .. m, NEW c \in DOMAIN v.dirs, NEW p \in DOMAIN f[n][c]
  PROVE  /\ p \in Nat \ {0}
         /\ p <= EntriesPerDirSector => f[n][c][p] = v.dirs[c][p]
         /\ p > EntriesPerDirSector /\ f[n][c][p] # Nothing =>
              /\ n > 0 /\ v.next[c] \in DOMAIN v.dirs
              /\ p - EntriesPerDirSector \in DOMAIN f[n - 1][v.next[c]]
              /\ f[n][c][p] = f[n - 1][v.next[c]][p - EntriesPerDirSector]
<1> DEFINE T == EntriesOf(v)
           head == v.dirs[c]
           tail == IF n > 0 /\ v.next[c] \in DOMAIN v.dirs THEN f[n - 1][v.next[c]]
                   ELSE << Nothing >>
<1>1. f[n][c] = head \o tail
  <2>1. f[n] = [d \in DOMAIN v.dirs |-> MoreStep(v, n, d, f[n - 1])]
    BY DEF IsMore
  <2> QED
    BY <2>1 DEF MoreStep
<1>2. head \in Seq(T) /\ Len(head) = EntriesPerDirSector
  <2>1. head \in Seq(Range(head)) /\ head \in DirSectors(v)
        /\ Len(head) = EntriesPerDirSector
    BY SectorsAreFull DEF DirSectors
  <2>2. Range(head) \subseteq T
    BY <2>1 DEF EntriesOf
  <2> HIDE DEF T, head
  <2> QED
    BY <2>1, <2>2
<1>3. tail \in Seq(T)
  <2>1. CASE n > 0 /\ v.next[c] \in DOMAIN v.dirs
    <3>1. n - 1 \in 0 .. m
      BY <2>1
    <3>2. f[n - 1][v.next[c]] \in Seq(T)
      BY <2>1, <3>1, MoreTyped
    <3> QED
      BY <2>1, <3>2
  <2>2. CASE ~ (n > 0 /\ v.next[c] \in DOMAIN v.dirs)
    <3>1. Nothing \in T
      BY DEF EntriesOf
    <3> HIDE DEF T
    <3> QED
      BY <2>2, <3>1
  <2> QED
    BY <2>1, <2>2
<1>4. ASSUME NEW x \in Seq(T), NEW y \in Seq(T), NEW i \in DOMAIN (x \o y)
      PROVE  /\ i \in Nat \ {0}
             /\ i <= Len(x) => (x \o y)[i] = x[i]
             /\ i > Len(x) => i - Len(x) \in DOMAIN y /\ (x \o y)[i] = y[i - Len(x)]
  OBVIOUS
<1> HIDE DEF T, head, tail
<1>5. /\ p \in Nat \ {0}
      /\ p <= EntriesPerDirSector => f[n][c][p] = head[p]
      /\ p > EntriesPerDirSector => /\ p - EntriesPerDirSector \in DOMAIN tail
                                    /\ f[n][c][p] = tail[p - EntriesPerDirSector]
  BY <1>1, <1>2, <1>3, <1>4
<1>6. ASSUME p > EntriesPerDirSector, f[n][c][p] # Nothing
      PROVE  n > 0 /\ v.next[c] \in DOMAIN v.dirs
  <2> SUFFICES ASSUME ~ (n > 0 /\ v.next[c] \in DOMAIN v.dirs) PROVE FALSE
    OBVIOUS
  <2>1. tail = << Nothing >>
    BY DEF tail
  <2>2. \A i \in DOMAIN tail : tail[i] = Nothing
    BY <2>1
  <2> QED
    BY <1>5, <1>6, <2>2
<1>7. n > 0 /\ v.next[c] \in DOMAIN v.dirs => tail = f[n - 1][v.next[c]]
  BY DEF tail
<1> QED
  BY <1>5, <1>6, <1>7 DEF head

\* The clusters of a directory, by the format.
DirCluster(v, dir, n) == FileCluster(v, [cluster |-> dir], n)

\* Each of them leads to the next.
LEMMA DirClusters ==
  ASSUME NEW v, NEW dir
  PROVE  /\ DirCluster(v, dir, 0) = dir
         /\ \A n \in Nat \ {0} : DirCluster(v, dir, n) = v.next[DirCluster(v, dir, n - 1)]
<1> DEFINE file == [cluster |-> dir]
<1>1. file.cluster = dir
  OBVIOUS
<1> HIDE DEF file
<1>2. FileCluster(v, file, 0) = dir
  BY <1>1, FileClusterZero
<1>3. \A n \in Nat \ {0} : FileCluster(v, file, n) = v.next[FileCluster(v, file, n - 1)]
  BY FileClusterNext
<1> QED
  BY <1>2, <1>3 DEF DirCluster, file

\* An entry lies in the cluster of its directory that its position leads to.
LEMMA MorePlace ==
  ASSUME NEW v, FatFormatted(v), NEW m \in Nat, NEW f, IsMore(f, v, m),
         NEW dir \in DOMAIN v.dirs, NEW p \in DOMAIN f[m][dir], f[m][dir][p] # Nothing
  PROVE  LET q == (p - 1) \div EntriesPerDirSector
         IN  /\ p \in Nat \ {0} /\ q \in 0 .. m
             /\ \A l \in 0 .. q : DirCluster(v, dir, l) \in DOMAIN v.dirs
             /\ f[m][dir][p] = v.dirs[DirCluster(v, dir, q)][((p - 1) % EntriesPerDirSector) + 1]
<1> PICK b \in Nat \ {0} : b = EntriesPerDirSector
  BY FatAssumption
<1> DEFINE C(l) == DirCluster(v, dir, l)
           e    == f[m][dir][p]
<1>1. p \in Nat \ {0} /\ p - 1 \in Nat
  <2>1. m \in 0 .. m
    OBVIOUS
  <2>2. p \in Nat \ {0}
    BY <2>1, MoreBehind
  <2> QED
    BY <2>2
<1>2. PICK q \in Nat, s \in 0 .. b - 1 :
        q = (p - 1) \div b /\ s = (p - 1) % b /\ p - 1 = b * q + s
  <2>1. (p - 1) \div b \in Nat /\ (p - 1) % b \in 0 .. b - 1
        /\ p - 1 = b * ((p - 1) \div b) + ((p - 1) % b)
    BY <1>1, DivMod
  <2> QED
    BY <2>1
<1> HIDE DEF C, e
<1> DEFINE Here(l) == /\ l <= m /\ C(l) \in DOMAIN v.dirs
                      /\ p - b * l \in DOMAIN f[m - l][C(l)]
                      /\ f[m - l][C(l)][p - b * l] = e
           S == {l \in 0 .. q : ~ Here(l)}
<1>3. C(0) = dir /\ \A n \in Nat \ {0} : C(n) = v.next[C(n - 1)]
  BY DirClusters DEF C
<1>4. Here(0)
  <2>1. p - b * 0 = p /\ m - 0 = m /\ 0 <= m
    BY <1>1
  <2> QED
    BY <1>3, <2>1 DEF e
<1>5. ASSUME NEW l \in 0 .. q - 1, Here(l) PROVE Here(l + 1)
  <2>1. l \in Nat /\ l < q /\ l \in Int /\ q \in Int
    OBVIOUS
  <2>2. b * l + b <= b * q
    BY <2>1, MultipleGrows
  <2>3. PICK y \in Nat, z \in Nat : y = b * l /\ z = b * q
    BY <2>1
  <2>4. b * (l + 1) = y + b
    <3>1. b * (l + 1) = b * l + b
      BY <2>1
    <3> QED
      BY <2>3, <3>1
  <2>5. p - y > b /\ p - y \in Int
    <3>1. y + b <= z /\ p - 1 = z + s
      BY <1>2, <2>2, <2>3
    <3> QED
      BY <1>1, <3>1
  <2>6. l <= m /\ C(l) \in DOMAIN v.dirs /\ p - y \in DOMAIN f[m - l][C(l)]
        /\ f[m - l][C(l)][p - y] = e
    BY <1>5, <2>3
  <2>7. m - l \in 0 .. m
    BY <2>1, <2>6
  <2>8. e # Nothing
    BY DEF e
  <2> DEFINE n == m - l
             x == p - y
  <2> HIDE DEF n, x, Here
  <2>9. /\ n > 0 /\ v.next[C(l)] \in DOMAIN v.dirs
        /\ x - b \in DOMAIN f[n - 1][v.next[C(l)]]
        /\ f[n][C(l)][x] = f[n - 1][v.next[C(l)]][x - b]
    <3>1. n \in 0 .. m /\ C(l) \in DOMAIN v.dirs /\ x \in DOMAIN f[n][C(l)]
          /\ f[n][C(l)][x] # Nothing /\ x > b
      BY <2>5, <2>6, <2>7, <2>8 DEF n, x
    <3> QED
      BY <3>1, MoreBehind
  <2>10. C(l + 1) = v.next[C(l)]
    <3>1. l + 1 \in Nat \ {0} /\ (l + 1) - 1 = l
      BY <2>1
    <3> QED
      BY <1>3, <3>1
  <2>11. n - 1 = m - (l + 1) /\ x - b = p - b * (l + 1) /\ l + 1 <= m
    <3>1. n > 0
      BY <2>9
    <3>2. n = m - l /\ x = p - y
      BY DEF n, x
    <3> QED
      BY <1>1, <2>1, <2>4, <3>1, <3>2
  <2>12. f[n - 1][C(l + 1)][x - b] = e
    BY <2>6, <2>9, <2>10 DEF n, x
  <2> QED
    BY <2>9, <2>10, <2>11, <2>12 DEF Here
<1> HIDE DEF Here
<1>6. S = {}
  <2> SUFFICES ASSUME S # {} PROVE FALSE
    OBVIOUS
  <2>1. PICK l \in S : \A k \in S : l <= k
    <3>1. S \in SUBSET Nat
      OBVIOUS
    <3> HIDE DEF S
    <3> QED
      BY <3>1, LeastElement
  <2>2. l # 0
    BY <1>4, <2>1
  <2>3. l - 1 \in 0 .. q - 1 /\ l - 1 \in 0 .. q /\ l - 1 \notin S /\ (l - 1) + 1 = l
    BY <2>1, <2>2
  <2>4. Here(l - 1)
    BY <2>3
  <2>5. Here(l)
    BY <1>5, <2>3, <2>4
  <2> QED
    BY <2>1, <2>5
<1>7. \A l \in 0 .. q : Here(l)
  BY <1>6
<1>8. q \in 0 .. m /\ \A l \in 0 .. q : C(l) \in DOMAIN v.dirs
  <2>1. q \in 0 .. q
    OBVIOUS
  <2> QED
    BY <1>7, <2>1 DEF Here
<1>9. e = v.dirs[C(q)][s + 1]
  <2>1. q \in 0 .. q
    OBVIOUS
  <2>2. C(q) \in DOMAIN v.dirs /\ p - b * q \in DOMAIN f[m - q][C(q)]
        /\ f[m - q][C(q)][p - b * q] = e
    BY <1>7, <2>1 DEF Here
  <2>3. PICK z \in Nat : z = b * q
    OBVIOUS
  <2>4. p - b * q = s + 1
    <3>1. p - 1 = z + s
      BY <1>2, <2>3
    <3>2. p - z = s + 1
      BY <1>1, <3>1
    <3> QED
      BY <2>3, <3>2
  <2>5. s + 1 <= b
    OBVIOUS
  <2>6. m - q \in 0 .. m
    BY <1>8
  <2> DEFINE n == m - q
             x == s + 1
  <2>7. n \in 0 .. m /\ x \in DOMAIN f[n][C(q)] /\ x <= EntriesPerDirSector
        /\ f[n][C(q)][x] = e
    BY <2>2, <2>4, <2>5, <2>6
  <2> HIDE DEF n, x
  <2>8. f[n][C(q)][x] = v.dirs[C(q)][x]
    BY <2>2, <2>7, MoreBehind
  <2> QED
    BY <2>7, <2>8 DEF x
<1> QED
  BY <1>1, <1>2, <1>8, <1>9 DEF C, e

\* What stands before the first end mark.
BeforeMark(all) == SubSeq(all, 1, Min({i \in DOMAIN all : all[i] = Nothing}) - 1)

\* It is a beginning of the sequence, without end marks.
LEMMA BeforeMarkIs ==
  ASSUME NEW T, NEW all \in Seq(T), Len(all) > 0, all[Len(all)] = Nothing
  PROVE  \E n \in Nat : /\ DOMAIN BeforeMark(all) = 1 .. n
                        /\ \A i \in 1 .. n : /\ i \in DOMAIN all /\ BeforeMark(all)[i] = all[i]
                                             /\ all[i] # Nothing
<1> DEFINE S == {i \in DOMAIN all : all[i] = Nothing}
           d == Min(S)
<1>1. S \in SUBSET Nat /\ S # {} /\ DOMAIN all = 1 .. Len(all) /\ Len(all) \in Nat
  <2>1. Len(all) \in DOMAIN all /\ DOMAIN all = 1 .. Len(all) /\ Len(all) \in Nat
    OBVIOUS
  <2> QED
    BY <2>1
<1>2. d \in S /\ \A j \in S : d <= j
  <2> HIDE DEF S
  <2> QED
    BY <1>1, MinIsFirst
<1>3. d \in 1 .. Len(all)
  BY <1>1, <1>2
<1>4. ASSUME NEW i \in 1 .. d - 1 PROVE i \in DOMAIN all /\ all[i] # Nothing
  <2>1. i \in DOMAIN all
    BY <1>1, <1>3
  <2>2. i \notin S
    <3> SUFFICES ASSUME i \in S PROVE FALSE
      OBVIOUS
    <3>1. d <= i
      BY <1>2
    <3> HIDE DEF d
    <3> QED
      BY <1>3, <3>1
  <2> QED
    BY <2>1, <2>2
<1> HIDE DEF d, S
<1>5. PICK n : n = d - 1
  OBVIOUS
<1>6. n \in Nat /\ n <= Len(all)
  BY <1>1, <1>3, <1>5
<1>7. BeforeMark(all) = SubSeq(all, 1, n)
  BY <1>5 DEF d, S, BeforeMark
<1>8. /\ DOMAIN SubSeq(all, 1, n) = 1 .. n
      /\ \A i \in 1 .. n : SubSeq(all, 1, n)[i] = all[i]
  BY <1>6
<1> QED
  BY <1>4, <1>5, <1>6, <1>7, <1>8

\* The chain in memory is that of the format, as far as it is kept.
LEMMA KeptChain ==
  ASSUME NEW v, FatFormatted(v), NEW lost \in Nat, NEW dir, NEW q \in Nat,
         \A l \in 0 .. q : DirCluster(v, dir, l) \in DOMAIN v.next,
         \A l \in 0 .. q - 1 : EntryAt(DirCluster(v, dir, l)) >= lost
  PROVE  \A l \in 0 .. q : Skipped(v, lost, dir, l) = DirCluster(v, dir, l)
<1> DEFINE C(l) == DirCluster(v, dir, l)
           K(l) == Skipped(v, lost, dir, l)
           S    == {l \in 0 .. q : K(l) # C(l)}
<1>1. C(0) = dir /\ \A n \in Nat \ {0} : C(n) = v.next[C(n - 1)]
  BY DirClusters
<1>2. K(0) = dir /\ \A n \in Nat \ {0} : K(n) = NextCluster(v, lost, K(n - 1))
  BY SkippedZero, SkippedNext
<1>3. \A c \in DOMAIN v.next : c \in Nat
  BY FormattedChains
<1> HIDE DEF C, K
<1> SUFFICES ASSUME S # {} PROVE FALSE
  BY DEF C, K
<1>4. PICK k \in S : \A l \in S : k <= l
  <2>1. S \in SUBSET Nat
    OBVIOUS
  <2> HIDE DEF S
  <2> QED
    BY <2>1, LeastElement
<1>5. k # 0
  BY <1>1, <1>2, <1>4
<1>6. k \in Nat \ {0} /\ k - 1 \in 0 .. q - 1 /\ k - 1 \in 0 .. q /\ k - 1 \notin S
  BY <1>4, <1>5
<1>7. K(k - 1) = C(k - 1)
  BY <1>6
<1>8. PICK c : c = C(k - 1)
  OBVIOUS
<1>9. c \in DOMAIN v.next /\ EntryAt(c) >= lost
  BY <1>6, <1>8 DEF C
<1>10. ~ (EntryAt(c) < lost)
  <2>1. c \in Nat
    BY <1>3, <1>9
  <2>2. EntryAt(c) \in Nat
    BY <2>1, DivMod DEF EntryAt
  <2> QED
    BY <1>9, <2>2
<1>11. NextCluster(v, lost, c) = v.next[c]
  BY <1>9, <1>10 DEF NextCluster
<1> QED
  BY <1>1, <1>2, <1>4, <1>6, <1>7, <1>8, <1>11

\* The entries of a subdirectory by the format are those along its chain.
LEMMA ChainEntries ==
  ASSUME NEW v, FatFormatted(v), NEW dir \in DOMAIN v.dirs, NEW k \in DOMAIN FatEntries(v, dir)
  PROVE  LET q == (k - 1) \div EntriesPerDirSector
         IN  /\ k \in Nat \ {0} /\ q \in 0 .. Cardinality(DOMAIN v.next)
             /\ \A l \in 0 .. q : DirCluster(v, dir, l) \in DOMAIN v.dirs
             /\ \A p \in 1 .. k :
                  /\ p \in DOMAIN FatEntries(v, dir)
                  /\ FatEntries(v, dir)[p] # Nothing
                  /\ FatEntries(v, dir)[p]
                       = v.dirs[DirCluster(v, dir, (p - 1) \div EntriesPerDirSector)]
                               [((p - 1) % EntriesPerDirSector) + 1]
<1> DEFINE m == Cardinality(DOMAIN v.next)
           E == FatEntries(v, dir)
<1>1. m \in Nat
  BY ChainsAreFinite
<1>2. dir # 0
  BY FormattedChains
<1>3. PICK f : /\ IsMore(f, v, m)
               /\ E = BeforeMark(f[m][dir])
  BY <1>1, <1>2, ChainEntriesAre, ZenonT(60) DEF BeforeMark
<1> HIDE DEF m, E
<1>4. /\ f[m][dir] \in Seq(EntriesOf(v)) /\ Len(f[m][dir]) > 0
      /\ f[m][dir][Len(f[m][dir])] = Nothing
  <2>1. IsMore(f, v, m) /\ m \in 0 .. m
    BY <1>1, <1>3
  <2> QED
    BY <1>1, <2>1, MoreTyped
<1>5. PICK n \in Nat : /\ DOMAIN E = 1 .. n
                       /\ \A i \in 1 .. n : /\ i \in DOMAIN f[m][dir] /\ E[i] = f[m][dir][i]
                                            /\ f[m][dir][i] # Nothing
  BY <1>3, <1>4, BeforeMarkIs
<1>6. ASSUME NEW p \in 1 .. n
      PROVE  LET q == (p - 1) \div EntriesPerDirSector
             IN  /\ q \in 0 .. m /\ E[p] # Nothing
                 /\ \A l \in 0 .. q : DirCluster(v, dir, l) \in DOMAIN v.dirs
                 /\ E[p] = v.dirs[DirCluster(v, dir, q)][((p - 1) % EntriesPerDirSector) + 1]
  <2>1. p \in DOMAIN f[m][dir] /\ f[m][dir][p] # Nothing /\ E[p] = f[m][dir][p]
    BY <1>5
  <2>2. IsMore(f, v, m)
    BY <1>3
  <2>3. LET q == (p - 1) \div EntriesPerDirSector
        IN  /\ q \in 0 .. m
            /\ \A l \in 0 .. q : DirCluster(v, dir, l) \in DOMAIN v.dirs
            /\ f[m][dir][p]
                 = v.dirs[DirCluster(v, dir, q)][((p - 1) % EntriesPerDirSector) + 1]
    BY <1>1, <2>1, <2>2, MorePlace
  <2> QED
    BY <2>1, <2>3
<1>7. k \in 1 .. n
  BY <1>5 DEF E
<1>8. k \in Nat \ {0} /\ \A p \in 1 .. k : p \in 1 .. n
  BY <1>7
<1> QED
  BY <1>5, <1>6, <1>7, <1>8 DEF E, m
----------------------------------------------------------------------------
(* Sequences one after the other *)

\* The function FlattenSeq is defined with, which joins the first m.
IsFlat(f, s, m) == f = [i \in 1 .. m |-> IF i = 1 THEN s[i] ELSE f[i - 1] \o s[i]]

\* There is such a function, and FlattenSeq is its value.
LEMMA FlatExists ==
  ASSUME NEW s, NEW m \in Nat
  PROVE  \E f : IsFlat(f, s, m)
<1> DEFINE S == {n \in Nat : ~ \E f : IsFlat(f, s, n)}
<1> SUFFICES ASSUME S # {} PROVE FALSE
  OBVIOUS
<1>1. PICK n \in S : \A l \in S : n <= l
  <2>1. S \in SUBSET Nat
    OBVIOUS
  <2> HIDE DEF S
  <2> QED
    BY <2>1, LeastElement
<1>2. n # 0
  <2> DEFINE none == [i \in 1 .. 0 |-> << >>]
  <2>1. none = [i \in 1 .. 0 |-> IF i = 1 THEN s[i] ELSE none[i - 1] \o s[i]]
    OBVIOUS
  <2>2. IsFlat(none, s, 0)
    BY <2>1 DEF IsFlat
  <2> QED
    BY <1>1, <2>2
<1>3. n \in Nat /\ n - 1 \in Nat /\ n - 1 \notin S
  BY <1>1, <1>2
<1>4. PICK f : IsFlat(f, s, n - 1)
  BY <1>3
<1> DEFINE h == [i \in 1 .. n |-> IF i # n THEN f[i]
                                  ELSE IF n = 1 THEN s[n] ELSE f[n - 1] \o s[n]]
<1>5. ASSUME NEW i \in 1 .. n
      PROVE  h[i] = IF i = 1 THEN s[i] ELSE h[i - 1] \o s[i]
  <2>1. \A l \in 1 .. n - 1 : f[l] = IF l = 1 THEN s[l] ELSE f[l - 1] \o s[l]
    BY <1>4 DEF IsFlat
  <2>2. i # 1 => i - 1 \in 1 .. n /\ i - 1 # n
    BY <1>3
  <2>3. i # 1 => h[i - 1] = f[i - 1]
    BY <2>2
  <2>4. CASE i = n
    BY <2>3, <2>4
  <2>5. CASE i # n
    <3>1. i \in 1 .. n - 1
      BY <1>3, <2>5
    <3> QED
      BY <2>1, <2>3, <2>5, <3>1
  <2> QED
    BY <2>4, <2>5
<1>6. h = [i \in 1 .. n |-> h[i]]
  OBVIOUS
<1> HIDE DEF h
<1>7. IsFlat(h, s, n)
  BY <1>5, <1>6 DEF IsFlat
<1> QED
  BY <1>1, <1>7

LEMMA FlattenIs ==
  ASSUME NEW s, Len(s) \in Nat \ {0}
  PROVE  \E f : IsFlat(f, s, Len(s)) /\ FlattenSeq(s) = f[Len(s)]
<1> DEFINE flatten[i \in 1 .. Len(s)] == IF i = 1 THEN s[i] ELSE flatten[i - 1] \o s[i]
<1>1. flatten = CHOOSE f : IsFlat(f, s, Len(s))
  BY DEF IsFlat
<1>2. FlattenSeq(s) = flatten[Len(s)]
  BY DEF FlattenSeq
<1> HIDE DEF flatten
<1>3. IsFlat(flatten, s, Len(s))
  BY <1>1, FlatExists
<1> QED
  BY <1>2, <1>3

\* What the sequences are made of, their flattening is made of.
LEMMA FlattenTyped ==
  ASSUME NEW T, NEW s \in Seq(Seq(T))
  PROVE  FlattenSeq(s) \in Seq(T)
<1>1. Len(s) \in Nat /\ \A i \in 1 .. Len(s) : s[i] \in Seq(T)
  OBVIOUS
<1>2. CASE Len(s) = 0
  <2>1. s = << >>
    BY <1>2
  <2>2. FlattenSeq(s) = s
    BY <1>2 DEF FlattenSeq
  <2>3. << >> \in Seq(T)
    OBVIOUS
  <2> QED
    BY <2>1, <2>2, <2>3
<1>3. CASE Len(s) # 0
  <2>1. PICK f : IsFlat(f, s, Len(s)) /\ FlattenSeq(s) = f[Len(s)]
    BY <1>1, <1>3, FlattenIs
  <2>2. IsFlat(f, s, Len(s))
    BY <2>1
  <2>3. \A i \in 1 .. Len(s) : f[i] = IF i = 1 THEN s[i] ELSE f[i - 1] \o s[i]
    BY <2>2 DEF IsFlat
  <2>4. f[1] \in Seq(T)
    <3>1. 1 \in 1 .. Len(s)
      BY <1>1, <1>3
    <3> QED
      BY <1>1, <2>3, <3>1
  <2>5. \A k \in 1 .. Len(s) - 1 : f[k] \in Seq(T) => f[k + 1] \in Seq(T)
    <3> SUFFICES ASSUME NEW k \in 1 .. Len(s) - 1, f[k] \in Seq(T) PROVE f[k + 1] \in Seq(T)
      OBVIOUS
    <3>1. k + 1 \in 1 .. Len(s) /\ k + 1 # 1 /\ (k + 1) - 1 = k
      BY <1>1
    <3>2. f[k + 1] = f[k] \o s[k + 1] /\ s[k + 1] \in Seq(T)
      BY <1>1, <2>3, <3>1
    <3> QED
      BY <3>2
  <2>6. \A k \in 1 .. Len(s) : f[k] \in Seq(T)
    BY <1>1, <2>4, <2>5, Stays
  <2> QED
    BY <1>1, <1>3, <2>1, <2>6
<1> QED
  BY <1>2, <1>3

\* The elements of two sequences that are joined.
LEMMA ConcatTyped ==
  ASSUME NEW T, NEW s \in Seq(T), NEW t \in Seq(T)
  PROVE  /\ s \o t \in Seq(T) /\ Len(s \o t) = Len(s) + Len(t)
         /\ \A i \in 1 .. Len(s) : (s \o t)[i] = s[i]
         /\ \A i \in 1 .. Len(t) : (s \o t)[Len(s) + i] = t[i]
OBVIOUS

\* If all are equally long, the place of an element is known.
LEMMA FlattenFull ==
  ASSUME NEW T, NEW s \in Seq(Seq(T)), NEW b \in Nat \ {0},
         \A i \in 1 .. Len(s) : Len(s[i]) = b
  PROVE  /\ FlattenSeq(s) \in Seq(T) /\ Len(FlattenSeq(s)) = b * Len(s)
         /\ \A p \in 1 .. b * Len(s) :
              FlattenSeq(s)[p] = s[((p - 1) \div b) + 1][((p - 1) % b) + 1]
<1>1. Len(s) \in Nat /\ \A i \in 1 .. Len(s) : s[i] \in Seq(T)
  OBVIOUS
<1>2. CASE Len(s) = 0
  <2>1. FlattenSeq(s) = s /\ s = << >>
    BY <1>2 DEF FlattenSeq
  <2>2. b * Len(s) = 0 /\ 1 .. 0 = {}
    BY <1>2
  <2> QED
    BY <1>2, <2>1, <2>2
<1>3. CASE Len(s) # 0
  <2>1. PICK f : IsFlat(f, s, Len(s)) /\ FlattenSeq(s) = f[Len(s)]
    BY <1>1, <1>3, FlattenIs
  <2>2. IsFlat(f, s, Len(s))
    BY <2>1
  <2>3. \A i \in 1 .. Len(s) : f[i] = IF i = 1 THEN s[i] ELSE f[i - 1] \o s[i]
    BY <2>2 DEF IsFlat
  <2> DEFINE Ok(i, t) == /\ t \in Seq(T) /\ Len(t) = b * i
                         /\ \A p \in 1 .. b * i : t[p] = s[((p - 1) \div b) + 1][((p - 1) % b) + 1]
             S == {i \in 1 .. Len(s) : ~ Ok(i, f[i])}
  <2>4. ASSUME NEW i \in 0 .. Len(s) - 1, NEW t, Ok(i, t) PROVE Ok(i + 1, t \o s[i + 1])
    <3>1. i \in Nat /\ i + 1 \in 1 .. Len(s)
      BY <1>1
    <3>2. s[i + 1] \in Seq(T) /\ Len(s[i + 1]) = b
      BY <1>1, <3>1
    <3>3. PICK y \in Nat : y = b * i
      BY <3>1
    <3>4. b * (i + 1) = y + b
      <4>1. b * (i + 1) = b * i + b
        BY <3>1
      <4> QED
        BY <3>3, <4>1
    <3>5. t \in Seq(T) /\ Len(t) = y
          /\ \A p \in 1 .. y : t[p] = s[((p - 1) \div b) + 1][((p - 1) % b) + 1]
      BY <2>4, <3>3
    <3> DEFINE u == t \o s[i + 1]
    <3>6. u \in Seq(T) /\ Len(u) = y + b
      <4>1. t \in Seq(T) /\ Len(t) = y
        BY <3>5
      <4> QED
        BY <3>2, <4>1, ConcatTyped
    <3>7. ASSUME NEW p \in 1 .. y + b
          PROVE  u[p] = s[((p - 1) \div b) + 1][((p - 1) % b) + 1]
      <4>1. CASE p <= y
        <5>1. u[p] = t[p] /\ p \in 1 .. y
          <6>1. p \in 1 .. y
            BY <4>1
          <6>2. t \in Seq(T) /\ p \in 1 .. Len(t)
            BY <3>5, <6>1
          <6> QED
            BY <3>2, <6>1, <6>2, ConcatTyped
        <5> QED
          BY <3>5, <5>1
      <4>2. CASE p > y
        <5>1. PICK x \in 0 .. b - 1 : p - 1 = y + x
          <6>1. (p - 1) - y \in 0 .. b - 1 /\ p - 1 = y + ((p - 1) - y)
            BY <4>2
          <6> QED
            BY <6>1
        <5>2. u[p] = s[i + 1][x + 1]
          <6>1. p = y + (x + 1) /\ x + 1 \in 1 .. b
            BY <5>1
          <6>2. t \in Seq(T) /\ Len(t) = y
            BY <3>5
          <6> QED
            BY <3>2, <6>1, <6>2, ConcatTyped
        <5>3. (b * i + x) \div b = i /\ (b * i + x) % b = x
          BY <3>1, Remainder
        <5>4. (p - 1) \div b = i /\ (p - 1) % b = x
          BY <3>3, <5>1, <5>3
        <5> QED
          BY <5>2, <5>4
      <4>3. p <= y \/ p > y
        OBVIOUS
      <4> QED
        BY <4>1, <4>2, <4>3
    <3> HIDE DEF u
    <3>8. Ok(i + 1, u)
      BY <3>4, <3>6, <3>7
    <3> QED
      BY <3>8 DEF u
  <2>5. Ok(0, << >>)
    <3>1. b * 0 = 0 /\ 1 .. 0 = {}
      OBVIOUS
    <3> QED
      BY <3>1
  <2> HIDE DEF Ok
  <2>6. S = {}
    <3> SUFFICES ASSUME S # {} PROVE FALSE
      OBVIOUS
    <3>1. PICK i \in S : \A l \in S : i <= l
      <4>1. S \in SUBSET Nat
        OBVIOUS
      <4> HIDE DEF S
      <4> QED
        BY <4>1, LeastElement
    <3>2. i \in 1 .. Len(s) /\ i - 1 \in 0 .. Len(s) - 1 /\ (i - 1) + 1 = i /\ i - 1 \notin S
      BY <1>1, <3>1
    <3>3. CASE i = 1
      <4>1. 0 \in 0 .. Len(s) - 1 /\ 0 + 1 = 1
        BY <1>1, <1>3
      <4>2. Ok(1, << >> \o s[1])
        BY <2>4, <2>5, <4>1
      <4>3. << >> \o s[1] = s[1]
        BY <1>1, <3>2, <3>3
      <4> QED
        BY <2>3, <3>1, <3>2, <3>3, <4>2, <4>3
    <3>4. CASE i # 1
      <4>1. i - 1 \in 1 .. Len(s)
        BY <3>2, <3>4
      <4>2. Ok(i - 1, f[i - 1])
        BY <3>2, <4>1
      <4>3. Ok((i - 1) + 1, f[i - 1] \o s[(i - 1) + 1])
        BY <2>4, <3>2, <4>2
      <4> QED
        BY <2>3, <3>1, <3>2, <3>4, <4>3
    <3> QED
      BY <3>3, <3>4
  <2>7. Len(s) \in 1 .. Len(s)
    BY <1>1, <1>3
  <2>8. Ok(Len(s), f[Len(s)])
    BY <2>6, <2>7
  <2> QED
    BY <2>1, <2>8 DEF Ok
<1> QED
  BY <1>2, <1>3

\* The entries of the root directory by the format are those of its sectors.
LEMMA RootEntries ==
  ASSUME NEW v, FatFormatted(v), NEW k \in DOMAIN FatEntries(v, 0)
  PROVE  /\ k \in Nat \ {0} /\ (k - 1) \div EntriesPerDirSector < Len(v.root)
         /\ \A p \in 1 .. k : /\ p \in DOMAIN FatEntries(v, 0)
                              /\ FatEntries(v, 0)[p] # Nothing
                              /\ FatEntries(v, 0)[p] = RootEntry(v, p - 1)
<1> PICK b \in Nat \ {0} : b = EntriesPerDirSector
  BY FatAssumption
<1> DEFINE T    == EntriesOf(v)
           flat == FlattenSeq(v.root)
           all  == flat \o << Nothing >>
           E    == FatEntries(v, 0)
<1>1. E = BeforeMark(all)
  BY DEF FatEntries, BeforeMark
<1>2. /\ v.root \in Seq(Seq(T)) /\ Len(v.root) \in Nat
      /\ \A i \in 1 .. Len(v.root) : Len(v.root[i]) = b
  <2>1. /\ v.root \in Seq(Range(v.root)) /\ Len(v.root) \in Nat
        /\ \A i \in 1 .. Len(v.root) :
             v.root[i] \in Seq(Range(v.root[i])) /\ Len(v.root[i]) = b
    BY SectorsAreFull
  <2>2. ASSUME NEW i \in 1 .. Len(v.root) PROVE v.root[i] \in Seq(T)
    <3>1. v.root[i] \in DirSectors(v)
      <4>1. DOMAIN v.root = 1 .. Len(v.root)
        BY <2>1
      <4> QED
        BY <4>1 DEF DirSectors, Range
    <3>2. Range(v.root[i]) \subseteq T
      BY <3>1 DEF EntriesOf
    <3> HIDE DEF T
    <3> QED
      BY <2>1, <3>2
  <2> HIDE DEF T
  <2>3. v.root \in Seq(Seq(T))
    BY <2>1, <2>2
  <2> QED
    BY <2>1, <2>3
<1> HIDE DEF T
<1>3. /\ flat \in Seq(T) /\ Len(flat) = b * Len(v.root)
      /\ \A p \in 1 .. b * Len(v.root) :
           flat[p] = v.root[((p - 1) \div b) + 1][((p - 1) % b) + 1]
  BY <1>2, FlattenFull, ZenonT(60)
<1>4. Nothing \in T
  BY DEF EntriesOf, T
<1> HIDE DEF flat, E
<1> PICK y \in Nat : y = b * Len(v.root)
  BY <1>2
<1>5. /\ all \in Seq(T) /\ Len(all) = y + 1 /\ all[y + 1] = Nothing
      /\ \A i \in 1 .. y : all[i] = flat[i]
  <2>1. << Nothing >> \in Seq(T) /\ Len(<< Nothing >>) = 1 /\ << Nothing >>[1] = Nothing
    BY <1>4
  <2>2. flat \in Seq(T) /\ Len(flat) = y
    BY <1>3
  <2>3. /\ all \in Seq(T) /\ Len(all) = Len(flat) + 1
        /\ \A i \in 1 .. Len(flat) : all[i] = flat[i]
        /\ \A i \in 1 .. 1 : all[Len(flat) + i] = << Nothing >>[i]
    BY <2>1, <2>2, ConcatTyped
  <2>4. 1 \in 1 .. 1
    OBVIOUS
  <2> HIDE DEF all
  <2> QED
    BY <2>1, <2>2, <2>3, <2>4
<1> HIDE DEF all
<1>6. PICK n \in Nat : /\ DOMAIN E = 1 .. n
                       /\ \A i \in 1 .. n : /\ i \in DOMAIN all /\ E[i] = all[i]
                                            /\ all[i] # Nothing
  <2>1. Len(all) > 0 /\ all[Len(all)] = Nothing /\ all \in Seq(T)
    BY <1>5
  <2> QED
    BY <1>1, <2>1, BeforeMarkIs
<1>7. ASSUME NEW p \in 1 .. n
      PROVE  /\ (p - 1) \div b < Len(v.root)
             /\ E[p] # Nothing /\ E[p] = RootEntry(v, p - 1)
  <2>1. p \in DOMAIN all /\ E[p] = all[p] /\ all[p] # Nothing
    BY <1>6
  <2>2. DOMAIN all = 1 .. y + 1 /\ p # y + 1
    <3>1. all \in Seq(T) /\ Len(all) = y + 1
      BY <1>5
    <3>2. DOMAIN all = 1 .. y + 1
      BY <3>1
    <3> QED
      BY <1>5, <2>1, <3>2
  <2>3. p \in 1 .. y
    BY <2>1, <2>2
  <2>4. E[p] = v.root[((p - 1) \div b) + 1][((p - 1) % b) + 1]
    BY <1>3, <1>5, <2>1, <2>3
  <2>5. (p - 1) \div b < Len(v.root)
    <3>1. PICK q \in Nat, s \in 0 .. b - 1 : q = (p - 1) \div b /\ p - 1 = b * q + s
      <4>1. p - 1 \in Nat
        OBVIOUS
      <4>2. (p - 1) \div b \in Nat /\ (p - 1) % b \in 0 .. b - 1
            /\ p - 1 = b * ((p - 1) \div b) + ((p - 1) % b)
        BY <4>1, DivMod
      <4> QED
        BY <4>2
    <3>2. PICK r \in Nat : r = Len(v.root)
      BY <1>2
    <3>3. ~ (r < q) /\ r # q
      <4>1. r < q \/ r = q => y <= b * q
        <5>1. ASSUME r < q PROVE y <= b * q
          <6>1. b * r + b <= b * q
            BY <5>1, MultipleGrows
          <6>2. y = b * r
            BY <3>2
          <6> QED
            BY <6>1, <6>2
        <5>2. r = q => y = b * q
          BY <3>2
        <5> QED
          BY <5>1, <5>2
      <4>2. PICK z \in Nat : z = b * q
        OBVIOUS
      <4>3. z < y
        BY <2>3, <3>1, <4>2
      <4> QED
        BY <4>1, <4>2, <4>3
    <3> QED
      BY <3>1, <3>2, <3>3
  <2> QED
    BY <2>1, <2>4, <2>5 DEF RootEntry
<1>8. k \in 1 .. n
  BY <1>6 DEF E
<1>9. k \in Nat \ {0} /\ \A p \in 1 .. k : p \in 1 .. n
  BY <1>8
<1> QED
  BY <1>6, <1>7, <1>8, <1>9 DEF E

\* Names in a directory of a formatted volume differ.
LEMMA NamesDiffer ==
  ASSUME NEW v, FatFormatted(v), NEW dir \in {0} \union DOMAIN v.dirs,
         NEW i \in DOMAIN FatEntries(v, dir), NEW j \in DOMAIN FatEntries(v, dir),
         FatEntries(v, dir)[i].name = FatEntries(v, dir)[j].name
  PROVE  i = j
BY DEF FatFormatted

\* fat12_finddir finds the entries of the root directory, and those of a subdirectory
\* to which its chain leads.
LEMMA RootFinds ==
  ASSUME NEW v, FatFormatted(v), NEW k \in DOMAIN FatEntries(v, 0)
  PROVE  FindInRoot(v, FatEntries(v, 0)[k].name) = Found(FatEntries(v, 0)[k])
<1> DEFINE E == FatEntries(v, 0)
           name == E[k].name
<1>1. /\ k \in Nat \ {0} /\ (k - 1) \div EntriesPerDirSector < Len(v.root)
      /\ \A p \in 1 .. k : /\ p \in DOMAIN E /\ E[p] # Nothing /\ E[p] = RootEntry(v, p - 1)
  BY RootEntries
<1>2. ASSUME NEW p \in 1 .. k - 1 PROVE E[p].name # name
  <2>1. p \in 1 .. k /\ p # k
    BY <1>1
  <2>2. p \in DOMAIN E /\ 0 \in {0} \union DOMAIN v.dirs
    BY <1>1, <2>1
  <2> QED
    BY <2>1, <2>2, NamesDiffer
<1> HIDE DEF E, name
<1>3. \A j \in 0 .. (k - 1) - 1 : RootEntry(v, j) # Nothing /\ RootEntry(v, j).name # name
  <2> SUFFICES ASSUME NEW j \in 0 .. (k - 1) - 1
               PROVE  RootEntry(v, j) # Nothing /\ RootEntry(v, j).name # name
    OBVIOUS
  <2>1. j + 1 \in 1 .. k - 1 /\ j + 1 \in 1 .. k /\ (j + 1) - 1 = j
    BY <1>1
  <2> QED
    BY <1>1, <1>2, <2>1
<1>4. E[k] = RootEntry(v, k - 1) /\ E[k] # Nothing /\ k - 1 \in Nat
  <2>1. k \in 1 .. k /\ k - 1 \in Nat
    BY <1>1
  <2> QED
    BY <1>1, <2>1
<1>5. RootEntry(v, k - 1) # Nothing /\ RootEntry(v, k - 1).name = name
  BY <1>4 DEF name
<1>6. (k - 1) \div EntriesPerDirSector < Len(v.root)
  BY <1>1
<1>7. FindInRoot(v, name) = Found(RootEntry(v, k - 1))
  BY <1>3, <1>4, <1>5, <1>6, RootHits
<1> QED
  BY <1>4, <1>7 DEF E, name

\* The search along the chain looks at the clusters the format gives the directory
\* as long as the FAT is there, and none of them is cluster 2.
LEMMA ChainFinds ==
  ASSUME NEW v, FatFormatted(v), NEW lost \in Nat, NEW dir \in DOMAIN v.dirs,
         NEW k \in DOMAIN FatEntries(v, dir), NEW q, q = (k - 1) \div EntriesPerDirSector,
         \A l \in 0 .. q - 1 : EntryAt(Skipped(v, 0, dir, l)) >= lost,
         \A l \in 1 .. q : Skipped(v, lost, dir, l) # 2
  PROVE  FindInChain(v, lost, dir, FatEntries(v, dir)[k].name) = Found(FatEntries(v, dir)[k])
<1> DEFINE E == FatEntries(v, dir)
           name == E[k].name
           C(l) == DirCluster(v, dir, l)
<1>1. /\ k \in Nat \ {0} /\ q \in 0 .. Cardinality(DOMAIN v.next)
      /\ \A l \in 0 .. q : C(l) \in DOMAIN v.dirs
      /\ \A p \in 1 .. k : /\ p \in DOMAIN E /\ E[p] # Nothing
                           /\ E[p] = v.dirs[C((p - 1) \div EntriesPerDirSector)]
                                           [((p - 1) % EntriesPerDirSector) + 1]
  BY ChainEntries
<1>2. ASSUME NEW p \in 1 .. k - 1 PROVE E[p].name # name
  <2>1. p \in 1 .. k /\ p # k
    BY <1>1
  <2>2. p \in DOMAIN E /\ dir \in {0} \union DOMAIN v.dirs
    BY <1>1, <2>1
  <2> QED
    BY <2>1, <2>2, NamesDiffer
<1> HIDE DEF E, name
<1>3. q \in Nat /\ \A l \in 0 .. q : C(l) \in DOMAIN v.next /\ C(l) \in Nat
  <2>1. DOMAIN v.dirs \subseteq DOMAIN v.next /\ DOMAIN v.next \subseteq Nat
    BY FormattedChains, FatAssumption
  <2>2. q \in Nat
    BY <1>1, ChainsAreFinite
  <2> QED
    BY <1>1, <2>1, <2>2
<1>4. \A l \in 0 .. q : Skipped(v, 0, dir, l) = C(l)
  <2>1. ASSUME NEW l \in 0 .. q - 1 PROVE EntryAt(C(l)) >= 0
    <3>1. l \in 0 .. q
      BY <1>3
    <3>2. C(l) \in Nat
      BY <1>3, <3>1
    <3> DEFINE c == C(l)
    <3> HIDE DEF c
    <3>3. c \in Nat
      BY <3>2 DEF c
    <3>4. EntryAt(c) \in Nat
      BY <3>3, DivMod DEF EntryAt
    <3>5. EntryAt(c) >= 0
      BY <3>4
    <3> QED
      BY <3>5 DEF c
  <2>2. 0 \in Nat
    OBVIOUS
  <2>3. q \in Nat /\ \A l \in 0 .. q : C(l) \in DOMAIN v.next
    BY <1>3
  <2>4. \A l \in 0 .. q - 1 : EntryAt(C(l)) >= 0
    BY <2>1
  <2> QED
    BY <2>2, <2>3, <2>4, KeptChain
<1>5. \A l \in 0 .. q : Skipped(v, lost, dir, l) = C(l)
  <2>1. \A l \in 0 .. q - 1 : EntryAt(C(l)) >= lost
    <3>1. \A l \in 0 .. q - 1 : l \in 0 .. q
      BY <1>3
    <3> QED
      BY <1>4, <3>1
  <2>2. q \in Nat
    BY <1>3
  <2>3. \A l \in 0 .. q : DirCluster(v, dir, l) \in DOMAIN v.next
    BY <1>3
  <2>4. \A l \in 0 .. q - 1 : EntryAt(DirCluster(v, dir, l)) >= lost
    BY <2>1
  <2> QED
    BY <2>2, <2>3, <2>4, KeptChain, ZenonT(120)
<1>6. ASSUME NEW p \in 1 .. k PROVE ChainEntry(v, lost, dir, p - 1) = E[p]
  <2> PICK b \in Nat \ {0} : b = EntriesPerDirSector
    BY FatAssumption
  <2>1. p - 1 \in Nat /\ k - 1 \in Nat
    BY <1>1
  <2>2. (p - 1) \div b \in Nat
    BY <2>1, DivMod
  <2>3. ~ (q < (p - 1) \div b)
    <3> SUFFICES ASSUME (k - 1) \div b < (p - 1) \div b PROVE FALSE
      OBVIOUS
    <3>1. k - 1 < p - 1
      BY <2>1, WordsGrow
    <3> QED
      BY <1>1, <3>1
  <2>4. (p - 1) \div b \in 0 .. q
    BY <1>3, <2>2, <2>3
  <2> QED
    BY <1>1, <1>5, <2>4 DEF ChainEntry
<1>7. k - 1 \in Nat /\ k \in 1 .. k
  BY <1>1
<1>8. FirstInChain(v, lost, dir, name, k - 1, q)
  <2>1. \A l \in 0 .. q : Skipped(v, lost, dir, l) \in DOMAIN v.dirs
    BY <1>1, <1>5
  <2>2. ASSUME NEW j \in 0 .. (k - 1) - 1
        PROVE  /\ ChainEntry(v, lost, dir, j) # Nothing
               /\ ChainEntry(v, lost, dir, j).name # name
    <3>1. j + 1 \in 1 .. k - 1 /\ j + 1 \in 1 .. k /\ (j + 1) - 1 = j
      BY <1>1
    <3>2. ChainEntry(v, lost, dir, j) = E[j + 1]
      BY <1>6, <3>1
    <3> QED
      BY <1>1, <1>2, <3>1, <3>2
  <2>3. ChainEntry(v, lost, dir, k - 1) # Nothing
        /\ ChainEntry(v, lost, dir, k - 1).name = name
    <3>1. ChainEntry(v, lost, dir, k - 1) = E[k] /\ E[k] # Nothing
      BY <1>1, <1>6, <1>7
    <3> QED
      BY <3>1 DEF name
  <2> QED
    BY <2>1, <2>2, <2>3 DEF FirstInChain
<1>9. FindInChain(v, lost, dir, name) = Found(ChainEntry(v, lost, dir, k - 1))
  BY <1>1, <1>7, <1>8, ChainHits
<1>10. ChainEntry(v, lost, dir, k - 1) = E[k]
  BY <1>6, <1>7
<1> QED
  BY <1>9, <1>10 DEF E, name

\* fat12_readdir gives the entries that fat12_finddir looks at.
LEMMA RootListed ==
  ASSUME NEW v, FatFormatted(v), NEW lost, NEW n \in Nat,
         \A k \in 0 .. n : FatReadDir(v, lost, 0, k) \notin {Nothing, Unknown}
  PROVE  FindInRoot(v, FatReadDir(v, lost, 0, n).name).result = "found"
<1> DEFINE name == RootEntry(v, n).name
           S    == {j \in 0 .. n : RootEntry(v, j).name = name}
<1>1. ASSUME NEW k \in 0 .. n
      PROVE  /\ k \div EntriesPerDirSector < Len(v.root)
             /\ FatReadDir(v, lost, 0, k) = RootEntry(v, k) /\ RootEntry(v, k) # Nothing
  <2>1. FatReadDir(v, lost, 0, k)
          = IF k \div EntriesPerDirSector < Len(v.root) THEN RootEntry(v, k) ELSE Unknown
    BY DEF FatReadDir, RootEntry
  <2>2. FatReadDir(v, lost, 0, k) # Unknown /\ FatReadDir(v, lost, 0, k) # Nothing
    OBVIOUS
  <2> QED
    BY <2>1, <2>2
<1>2. n \in 0 .. n
  OBVIOUS
<1> HIDE DEF name
<1>3. PICK k \in S : \A j \in S : k <= j
  <2>1. S \in SUBSET Nat /\ n \in S
    BY <1>2 DEF name
  <2> HIDE DEF S
  <2> QED
    BY <2>1, LeastElement
<1>4. k \in 0 .. n /\ k \in Nat /\ RootEntry(v, k).name = name
  BY <1>3
<1>5. \A j \in 0 .. k - 1 : RootEntry(v, j) # Nothing /\ RootEntry(v, j).name # name
  <2> SUFFICES ASSUME NEW j \in 0 .. k - 1
               PROVE  RootEntry(v, j) # Nothing /\ RootEntry(v, j).name # name
    OBVIOUS
  <2>1. j \in 0 .. n /\ ~ (k <= j)
    BY <1>4
  <2> QED
    BY <1>1, <1>3, <2>1
<1>6. RootEntry(v, k) # Nothing /\ k \div EntriesPerDirSector < Len(v.root)
  BY <1>1, <1>4
<1>7. FindInRoot(v, name) = Found(RootEntry(v, k))
  BY <1>4, <1>5, <1>6, RootHits
<1>8. FindInRoot(v, name).result = "found"
  BY <1>7 DEF Found
<1> QED
  BY <1>1, <1>2, <1>8 DEF name

\* The same along a chain: fat12_finddir follows it as fat12_readdir does, up to
\* cluster 2.
LEMMA ChainListed ==
  ASSUME NEW v, FatFormatted(v), NEW lost, NEW dir \in DOMAIN v.dirs,
         NEW n \in 0 .. Cardinality(DOMAIN v.next),
         \A l \in 1 .. n \div EntriesPerDirSector : Skipped(v, lost, dir, l) # 2,
         \A k \in 0 .. n : FatReadDir(v, lost, dir, k) \notin {Nothing, Unknown}
  PROVE  FindInChain(v, lost, dir, FatReadDir(v, lost, dir, n).name).result = "found"
<1> DEFINE name == ChainEntry(v, lost, dir, n).name
           S    == {j \in 0 .. n : ChainEntry(v, lost, dir, j).name = name}
<1>0. dir # 0 /\ n \in Nat
  BY FormattedChains, ChainsAreFinite
<1>1. ASSUME NEW k \in 0 .. n
      PROVE  /\ Skipped(v, lost, dir, k \div EntriesPerDirSector) \in DOMAIN v.dirs
             /\ FatReadDir(v, lost, dir, k) = ChainEntry(v, lost, dir, k)
             /\ ChainEntry(v, lost, dir, k) # Nothing
  <2>1. FatReadDir(v, lost, dir, k)
          = IF Skipped(v, lost, dir, k \div EntriesPerDirSector) \in DOMAIN v.dirs
            THEN ChainEntry(v, lost, dir, k) ELSE Unknown
    BY <1>0 DEF FatReadDir, ChainEntry
  <2>2. FatReadDir(v, lost, dir, k) # Unknown /\ FatReadDir(v, lost, dir, k) # Nothing
    OBVIOUS
  <2> QED
    BY <2>1, <2>2
<1>2. n \in 0 .. n
  BY <1>0
<1> HIDE DEF name
<1>3. PICK k \in S : \A j \in S : k <= j
  <2>1. S \in SUBSET Nat /\ n \in S
    BY <1>2 DEF name
  <2> HIDE DEF S
  <2> QED
    BY <2>1, LeastElement
<1>4. k \in 0 .. n /\ k \in Nat /\ ChainEntry(v, lost, dir, k).name = name
  BY <1>3
<1>5. \A j \in 0 .. k - 1 : /\ ChainEntry(v, lost, dir, j) # Nothing
                            /\ ChainEntry(v, lost, dir, j).name # name
  <2> SUFFICES ASSUME NEW j \in 0 .. k - 1
               PROVE  /\ ChainEntry(v, lost, dir, j) # Nothing
                      /\ ChainEntry(v, lost, dir, j).name # name
    OBVIOUS
  <2>1. j \in 0 .. n /\ ~ (k <= j)
    BY <1>0, <1>4
  <2> QED
    BY <1>1, <1>3, <2>1
<1>6. ChainEntry(v, lost, dir, k) # Nothing
  BY <1>1, <1>4
<1> PICK b \in Nat \ {0} : b = EntriesPerDirSector
  BY FatAssumption
<1>7. PICK q \in Nat, s \in 0 .. b - 1 : q = k \div b /\ k = b * q + s
  <2>1. k \div b \in Nat /\ k % b \in 0 .. b - 1 /\ k = b * (k \div b) + (k % b)
    BY <1>4, DivMod
  <2> QED
    BY <2>1
<1>8. q \in 0 .. Cardinality(DOMAIN v.next)
  <2>1. PICK y \in Nat : y = b * q /\ q <= y
    OBVIOUS
  <2>2. k = y + s
    BY <1>7, <2>1
  <2>3. q <= n
    BY <1>0, <1>4, <2>1, <2>2
  <2> QED
    BY <2>3, ChainsAreFinite
<1>9. ASSUME NEW l \in 0 .. q
      PROVE  /\ Skipped(v, lost, dir, l) \in DOMAIN v.dirs
             /\ l > 0 => l \in 1 .. n \div b
  <2>1. l \in Nat /\ l \in Int /\ q \in Int
    OBVIOUS
  <2>2. (b * l + 0) \div b = l
    <3>1. 0 \in 0 .. b - 1
      OBVIOUS
    <3> QED
      BY <2>1, <3>1, Remainder
  <2>3. PICK y \in Nat : y = b * l
    BY <2>1
  <2>4. PICK z \in Nat : z = b * q
    OBVIOUS
  <2>5. y <= z
    <3>1. CASE l = q
      BY <2>3, <2>4, <3>1
    <3>2. CASE l # q
      <4>1. l < q
        BY <3>2
      <4>2. b * l + b <= b * q
        BY <2>1, <4>1, MultipleGrows
      <4> QED
        BY <2>3, <2>4, <4>2
    <3> QED
      BY <3>1, <3>2
  <2>6. y \in 0 .. n
    <3>1. k = z + s
      BY <1>7, <2>4
    <3> QED
      BY <1>0, <1>4, <2>5, <3>1
  <2>7. y \div b = l
    BY <2>2, <2>3
  <2>8. Skipped(v, lost, dir, l) \in DOMAIN v.dirs
    BY <1>1, <2>6, <2>7
  <2>9. l > 0 => l \in 1 .. n \div b
    <3>1. n \div b \in Nat
      BY <1>0, DivMod
    <3>2. ~ (n \div b < y \div b)
      <4> SUFFICES ASSUME n \div b < y \div b PROVE FALSE
        OBVIOUS
      <4>1. n < y
        BY <1>0, WordsGrow
      <4> QED
        BY <1>0, <2>6, <4>1
    <3> QED
      BY <2>1, <2>7, <3>1, <3>2
  <2> QED
    BY <2>8, <2>9
<1>10. FirstInChain(v, lost, dir, name, k, q)
  <2>1. \A l \in 1 .. q : l \in 0 .. q /\ l > 0
    OBVIOUS
  <2>2. \A l \in 1 .. q : Skipped(v, lost, dir, l) # 2
    BY <1>9, <2>1
  <2> QED
    BY <1>4, <1>5, <1>6, <1>7, <1>9, <2>2 DEF FirstInChain
<1>11. FindInChain(v, lost, dir, name) = Found(ChainEntry(v, lost, dir, k))
  BY <1>4, <1>8, <1>10, ChainHits
<1>12. FindInChain(v, lost, dir, name).result = "found"
  BY <1>11 DEF Found
<1> QED
  BY <1>1, <1>2, <1>12 DEF name
----------------------------------------------------------------------------
(* Ext2: blocks, inodes and directories *)

\* A block begins with a sector, and has two.
LEMMA BlocksAreSectors ==
  ASSUME NEW k \in Nat
  PROVE  /\ BlockBytes \in Nat \ {0} /\ BlockBytes > SectorSize
         /\ k * BlockBytes \in Nat /\ (k * BlockBytes) % SectorSize = 0
         /\ (k + 1) * BlockBytes = k * BlockBytes + BlockBytes
         /\ \A s \in Nat : (k * BlockBytes + s * SectorSize) % SectorSize = 0
<1> PICK b \in Nat \ {0} : b = SectorSize
  BY BlockAssumption
<1>1. BlockBytes = 2 * b
  BY DEF BlockBytes
<1>2. \A i \in Nat : (b * i) % b = 0
  <2> SUFFICES ASSUME NEW i \in Nat PROVE (b * i) % b = 0
    OBVIOUS
  <2>1. (b * i + 0) % b = 0
    <3>1. 0 \in 0 .. b - 1
      OBVIOUS
    <3> QED
      BY <3>1, Remainder
  <2>2. b * i + 0 = b * i
    OBVIOUS
  <2> QED
    BY <2>1, <2>2
<1>3. k * (2 * b) = b * (2 * k) /\ 2 * k \in Nat /\ k * (2 * b) \in Nat
  OBVIOUS
<1>4. ASSUME NEW s \in Nat PROVE (k * BlockBytes + s * SectorSize) % SectorSize = 0
  <2>1. k * (2 * b) + s * b = b * (2 * k + s) /\ 2 * k + s \in Nat
    OBVIOUS
  <2> QED
    BY <1>1, <1>2, <2>1
<1>5. (k + 1) * (2 * b) = k * (2 * b) + 2 * b
  OBVIOUS
<1>6. (k * BlockBytes) % SectorSize = 0
  BY <1>1, <1>2, <1>3
<1> QED
  BY <1>1, <1>3, <1>4, <1>5, <1>6

\* No floppy has an Ext2 volume that is mounted: its driver reads no two sectors.
LEMMA NoExt2OnFloppy ==
  ASSUME NEW dev, NEW v, Ext2Mounts(devices, dev, v)
  PROVE  dev.major # FDC
<1> SUFFICES ASSUME dev.major = FDC PROVE FALSE
  OBVIOUS
<1>1. FloppyRead(dev, BlockBytes, BlockBytes).n = BlockBytes
  BY DEF Ext2Mounts, BlockRead, FDC, IDE, HDC
<1>2. BlockBytes \in Nat /\ BlockBytes > SectorSize /\ BlockBytes % SectorSize = 0
  <2>1. 1 \in Nat /\ 1 * BlockBytes = BlockBytes
    BY BlockAssumption DEF BlockBytes
  <2> QED
    BY <2>1, BlocksAreSectors
<1>3. Runaway.n = Nothing /\ Nothing \notin Nat
  BY BlockAssumption DEF Runaway
<1>4. FloppyRead(dev, BlockBytes, BlockBytes)
        = IF BlockBytes >= dev.size * SectorSize THEN Runaway
          ELSE [n |-> SectorSize,
                data |-> BytesAt(<<FDC, dev.minor>>, BlockBytes, SectorSize)]
  <2>1. BlockBytes + 0 > SectorSize /\ SectorSize - 0 = SectorSize
    BY <1>2, BlockAssumption
  <2> QED
    BY <1>2, <2>1 DEF FloppyRead
<1>5. SectorSize # BlockBytes
  BY <1>2, BlockAssumption
<1> QED
  BY <1>1, <1>2, <1>3, <1>4, <1>5

\* ext2_read_block reads the blocks that lie on the device.
LEMMA BlockIsRead ==
  ASSUME BootInv, NEW j \in 1 .. Len(devices), NEW dev, devices[j] = dev,
         NEW v, Ext2Mounts(devices, dev, v),
         NEW k \in Nat, (k + 1) * BlockBytes <= dev.size * SectorSize
  PROVE  ReadsBlock(devices, dev, k)
<1>1. machine \in Machines /\ dev \in DevicesIn(machine)
  <2>1. devices \in Seq(DevicesIn(machine))
    BY DEF BootInv, Listed
  <2> QED
    BY <2>1 DEF BootInv
<1>2. FDC # IDE /\ FDC # HDC /\ IDE # HDC
  BY DEF FDC, IDE, HDC
<1>3. dev.major # FDC
  BY NoExt2OnFloppy
<1>4. /\ BlockBytes \in Nat \ {0} /\ k * BlockBytes \in Nat /\ (k * BlockBytes) % SectorSize = 0
      /\ (k + 1) * BlockBytes = k * BlockBytes + BlockBytes
      /\ \A s \in Nat : (k * BlockBytes + s * SectorSize) % SectorSize = 0
  BY BlocksAreSectors
<1>5. CASE dev.major = IDE
  <2>1. DriveRead(dev, k * BlockBytes, BlockBytes).n = BlockBytes
    BY <1>4, DriveComesBack
  <2> QED
    BY <1>2, <1>5, <2>1 DEF ReadsBlock, BlockRead
<1>6. ASSUME NEW d \in DOMAIN machine.drives, NEW i \in 1 .. Len(TableOf(machine.drives[d])),
             dev = PartitionOf(machine.drives[d], i), dev.major = HDC
      PROVE  ReadsBlock(devices, dev, k)
  <2> DEFINE drives == {l \in DOMAIN devices :
                          /\ devices[l].major = IDE
                          /\ devices[l].minor = dev.minor \div PartitionsPerDrive}
  <2>1. drives # {}
    <3>1. PartitionRead(devices, dev, BlockBytes, BlockBytes).n = BlockBytes
      BY <1>2, <1>6 DEF Ext2Mounts, BlockRead
    <3>2. Runaway.n = Nothing /\ Nothing # BlockBytes /\ 0 # BlockBytes
      BY <1>4, BlockAssumption DEF Runaway
    <3> SUFFICES ASSUME drives = {} PROVE FALSE
      OBVIOUS
    <3>3. PartitionRead(devices, dev, BlockBytes, BlockBytes)
            = IF BlockBytes > (dev.start + dev.size) * SectorSize THEN [n |-> 0, data |-> << >>]
              ELSE Runaway
      BY DEF PartitionRead
    <3> QED
      BY <3>1, <3>2, <3>3
  <2>2. dev.start \in Nat /\ dev.size \in Nat
    <3>1. TableOf(machine.drives[d]) \in Seq(Extent)
      BY <1>1, DrivesAreDrives
    <3>2. TableOf(machine.drives[d])[i] \in Extent
      BY <3>1
    <3>3. /\ dev.start = TableOf(machine.drives[d])[i].start
          /\ dev.size = TableOf(machine.drives[d])[i].size
      BY <1>6, PartitionFields
    <3> QED
      BY <3>2, <3>3 DEF Extent
  <2>3. PICK b \in Nat \ {0} : b = SectorSize
    BY BlockAssumption
  <2>4. /\ dev.start * b \in Nat /\ dev.size * b \in Nat
        /\ (dev.start + dev.size) * b = dev.start * b + dev.size * b
    BY <2>2, SMTT(40)
  <2> DEFINE pos == k * BlockBytes + dev.start * SectorSize
  <2>5. pos \in Nat /\ pos % SectorSize = 0
    <3>1. pos % SectorSize = 0
      BY <1>4, <2>2
    <3>2. PICK x \in Nat, y \in Nat : x = k * BlockBytes /\ y = dev.start * b
      BY <1>4, <2>4
    <3>3. pos = x + y
      BY <2>3, <3>2
    <3> QED
      BY <3>1, <3>3
  <2> DEFINE at == k * BlockBytes
  <2>6. InPartition(dev, at, BlockBytes) = BlockBytes
    <3>1. at + BlockBytes <= dev.size * SectorSize
      BY <1>4
    <3>2. at + BlockBytes \in Nat /\ dev.size * SectorSize \in Nat
      BY <1>4, <2>3, <2>4
    <3> HIDE DEF at
    <3>3. ~ (at + BlockBytes > dev.size * SectorSize)
      BY <3>1, <3>2
    <3> QED
      BY <3>3 DEF InPartition
  <2>7. ~ (at > (dev.start + dev.size) * SectorSize)
    <3>1. PICK x \in Nat, y \in Nat, z \in Nat, w \in Nat :
            x = at /\ y = dev.start * b /\ z = dev.size * b /\ w = BlockBytes
      BY <1>4, <2>4
    <3>2. x + w <= z
      BY <1>4, <2>3, <3>1
    <3>3. ~ (x > y + z)
      BY <3>2
    <3> QED
      BY <2>3, <2>4, <3>1, <3>3
  <2>8. ~ (BlockBytes < 0)
    BY <1>4
  <2> DEFINE drive == devices[Min(drives)]
  <2>9. DriveRead(drive, pos, BlockBytes).n = BlockBytes
    <3> HIDE DEF drive, pos
    <3> QED
      BY <1>4, <2>5, DriveComesBack
  <2>10. PartitionRead(devices, dev, at, BlockBytes) = DriveRead(drive, pos, BlockBytes)
    BY <2>1, <2>6, <2>7, <2>8 DEF PartitionRead
  <2> HIDE DEF drive, pos
  <2>11. BlockRead(devices, dev, at, BlockBytes).n = BlockBytes
    BY <1>2, <1>6, <2>9, <2>10 DEF BlockRead
  <2> QED
    BY <2>11 DEF ReadsBlock
<1> QED
  BY <1>1, <1>3, <1>5, <1>6, KindsOfDevices

\* A mounted Ext2 volume is formatted, and its blocks can be read.
LEMMA Ext2MountHolds ==
  ASSUME MountedInv, NEW i \in Ext2Mounted
  PROVE  LET m == mounts[i]
             v == Volume(m)
         IN  /\ Ext2Formatted(v)
             /\ \A k \in Ext2Blocks(v) : ReadsBlock(devices, m.dev, k)
<1> DEFINE m == mounts[i]
           v == Volume(m)
<1>1. i \in Slots(MountSlots) /\ m.root = "ext2"
  BY DEF Ext2Mounted, Mounted, MountedInv, BootedInv, TableInv, TablesTyped
<1>2. Reads(m)
  BY <1>1 DEF Reads, OnDevice
<1>3. /\ Id(m.dev) \in DOMAIN VolumeOn /\ VolumeOn[Id(m.dev)].fs = "ext2"
      /\ \E j \in 1 .. Len(devices) : devices[j] = m.dev
      /\ Ext2Mounts(devices, m.dev, v)
  BY <1>1, <1>2 DEF MountedInv, VolumeInv, VolumeMount
<1> HIDE DEF m
<1>4. Ext2Formatted(v)
  BY <1>3, VolumeAssumption DEF Volume
<1>5. PICK j \in 1 .. Len(devices) : devices[j] = m.dev
  BY <1>3
<1>6. BootInv
  BY DEF MountedInv, BootedInv
<1>7. machine \in Machines /\ m.dev \in DevicesIn(machine)
  <2>1. devices \in Seq(DevicesIn(machine)) /\ machine \in Machines
    BY <1>6 DEF BootInv, Listed
  <2> QED
    BY <1>5, <2>1
<1>8. m.dev.major # FDC
  BY <1>3, NoExt2OnFloppy
<1>9. \A k \in Ext2Blocks(v) : (k + 1) * BlockBytes <= m.dev.size * SectorSize
  BY <1>3, <1>7, <1>8, VolumeAssumption DEF Volume
<1>10. ASSUME NEW k \in Ext2Blocks(v) PROVE ReadsBlock(devices, m.dev, k)
  <2>1. k \in Nat
    BY <1>4 DEF Ext2Formatted
  <2>2. (k + 1) * BlockBytes <= m.dev.size * SectorSize
    BY <1>9
  <2> QED
    BY <1>3, <1>5, <1>6, <2>1, <2>2, BlockIsRead
<1> QED
  BY <1>4, <1>10 DEF m

\* ext2_read_inode reads the inode with the number it is asked for.
LEMMA InodeIsRead ==
  ASSUME NEW v, Ext2Formatted(v), NEW dev, \A k \in Ext2Blocks(v) : ReadsBlock(devices, dev, k),
         NEW ino, Described(v, ino), \E p \in DOMAIN v.inode : v.inode[p].id = ino
  PROVE  /\ ReadInode(devices, dev, v, ino) = Ext2Inode(v, ino)
         /\ Ext2Inode(v, ino) # Nothing /\ Ext2Inode(v, ino).id = ino
<1> DEFINE group == (ino - 1) \div v.perGroup
           index == (ino - 1) % v.perGroup
           at    == << v.tables[group + 1] + index \div InodesPerBlock, index % InodesPerBlock >>
           place == CHOOSE p \in DOMAIN v.inode : v.inode[p].id = ino
<1>1. place \in DOMAIN v.inode /\ v.inode[place].id = ino
  OBVIOUS
<1>2. ino \in 1 .. v.inodeCount /\ place = at
  BY <1>1 DEF Ext2Formatted
<1>3. v.inodeCount \in Nat /\ v.perGroup \in Nat \ {0}
      /\ Nothing \notin DOMAIN v.inode /\ Nothing \notin Range(v.inode)
  BY DEF Ext2Formatted
<1>4. group \in Nat
  <2>1. ino - 1 \in Nat
    BY <1>2, <1>3
  <2> QED
    BY <1>3, <2>1, DivMod
<1> HIDE DEF place
<1>5. InodePlace(v, ino) = place
  <2>1. ino # 0 /\ ~ (ino > v.inodeCount)
    BY <1>2, <1>3
  <2>2. group <= GroupDescriptors
    BY DEF Described
  <2> HIDE DEF group
  <2>3. ~ (group > GroupDescriptors)
    BY <1>4, <2>2 DEF GroupDescriptors
  <2> QED
    BY <1>2, <2>1, <2>3 DEF InodePlace, group
<1>6. ReadsBlock(devices, dev, place[1])
  BY <1>1 DEF Ext2Blocks
<1>7. place # Nothing /\ v.inode[place] # Nothing
  BY <1>1, <1>3 DEF Range
<1>8. ReadInode(devices, dev, v, ino) = v.inode[place]
  BY <1>1, <1>5, <1>6, <1>7 DEF ReadInode
<1>9. Ext2Inode(v, ino) = v.inode[place]
  BY DEF Ext2Inode, place
<1> QED
  BY <1>1, <1>7, <1>8, <1>9

\* A directory has its blocks, and if it has no more than direct ones, all of them
\* are read.
LEMMA DirectoryBlocks ==
  ASSUME NEW v, Ext2Formatted(v), NEW ino \in Ext2Dirs(v), NEW inode, inode = Ext2Inode(v, ino)
  PROVE  /\ inode.blocks \in Nat /\ UsedBlocks(inode) \in Nat
         /\ UsedBlocks(inode) <= inode.blocks
         /\ inode.blocks <= DirectBlocks => UsedBlocks(inode) = inode.blocks
         /\ \A i \in 1 .. inode.blocks : inode.pointers[i] \in Ext2Blocks(v)
<1> DEFINE used == {i \in 1 .. inode.blocks :
                      \A j \in 1 .. i : j <= DirectBlocks /\ inode.pointers[j] # 0}
<1>1. /\ inode.blocks \in Nat
      /\ \A i \in 1 .. inode.blocks : inode.pointers[i] # 0
  BY DEF Ext2Formatted
<1>2. IsFiniteSet(1 .. inode.blocks) /\ Cardinality(1 .. inode.blocks) = inode.blocks
  <2>1. 1 \in Int /\ inode.blocks \in Int /\ (1 > inode.blocks <=> inode.blocks = 0)
    BY <1>1
  <2>2. inode.blocks - 1 + 1 = inode.blocks
    BY <1>1
  <2> QED
    BY <2>1, <2>2, FS_Interval
<1>3. used \in SUBSET (1 .. inode.blocks)
  OBVIOUS
<1>4. UsedBlocks(inode) = Cardinality(used)
  BY DEF UsedBlocks
<1>5. inode.blocks <= DirectBlocks => used = 1 .. inode.blocks
  <2> SUFFICES ASSUME inode.blocks <= DirectBlocks, NEW i \in 1 .. inode.blocks,
                      NEW j \in 1 .. i
               PROVE  j <= DirectBlocks /\ inode.pointers[j] # 0
    OBVIOUS
  <2>1. j \in 1 .. inode.blocks
    BY <1>1
  <2> QED
    BY <1>1, <2>1, Ext2Assumption
<1> HIDE DEF used
<1>6. IsFiniteSet(used) /\ Cardinality(used) \in Nat /\ Cardinality(used) <= inode.blocks
  <2>1. IsFiniteSet(used) /\ Cardinality(used) <= Cardinality(1 .. inode.blocks)
    BY <1>2, <1>3, FS_Subset
  <2>2. Cardinality(used) \in Nat
    BY <2>1, FS_CardinalityType
  <2> QED
    BY <1>2, <2>1, <2>2
<1>7. \A i \in 1 .. inode.blocks : inode.pointers[i] \in Ext2Blocks(v)
  BY DEF Ext2Blocks
<1> QED
  BY <1>1, <1>2, <1>4, <1>5, <1>6, <1>7

\* What is in memory of a directory is entries of its blocks.
LEMMA DirectoryTyped ==
  ASSUME NEW v, Ext2Formatted(v), NEW ino \in Ext2Dirs(v), NEW inode, inode = Ext2Inode(v, ino)
  PROVE  /\ \E T : DirectoryEntries(v, inode) \in Seq(T)
         /\ \A i \in DOMAIN DirectoryEntries(v, inode) :
              LET e == DirectoryEntries(v, inode)[i]
              IN  e # Nothing /\ (e.ino = 0 \/ \E p \in DOMAIN v.inode : v.inode[p].id = e.ino)
<1> DEFINE n       == UsedBlocks(inode)
           Part(i) == v.entries[inode.pointers[i]]
           Fits(e) == e # Nothing /\ (e.ino = 0 \/ \E p \in DOMAIN v.inode : v.inode[p].id = e.ino)
           T       == {e \in UNION {Range(Part(i)) : i \in 1 .. n} : Fits(e)}
           s       == [i \in 1 .. n |-> Part(i)]
<1>1. n \in Nat /\ n <= inode.blocks /\ inode.blocks \in Nat
  BY DirectoryBlocks
<1>2. \A i \in 1 .. inode.blocks :
        Part(i) \in Seq(Range(Part(i))) /\ \A e \in Range(Part(i)) : Fits(e)
  BY DEF Ext2Formatted
<1> HIDE DEF n, Part, Fits
<1>3. ASSUME NEW i \in 1 .. n PROVE Part(i) \in Seq(T)
  <2>1. i \in 1 .. inode.blocks
    BY <1>1
  <2>2. Part(i) \in Seq(Range(Part(i))) /\ \A e \in Range(Part(i)) : Fits(e)
    BY <1>2, <2>1
  <2>3. Range(Part(i)) \subseteq T
    BY <2>2
  <2> HIDE DEF T
  <2> QED
    BY <2>2, <2>3
<1> HIDE DEF T
<1>4. s \in Seq(Seq(T))
  BY <1>1, <1>3
<1>5. FlattenSeq(s) \in Seq(T)
  <2> HIDE DEF s
  <2> QED
    BY <1>4, FlattenTyped
<1>6. DirectoryEntries(v, inode) = FlattenSeq(s)
  BY DEF DirectoryEntries, n, Part
<1>7. \A i \in DOMAIN DirectoryEntries(v, inode) : DirectoryEntries(v, inode)[i] \in T
  <2> HIDE DEF s
  <2> QED
    BY <1>5, <1>6
<1>8. \A e \in T : Fits(e)
  BY DEF T
<1> QED
  BY <1>5, <1>6, <1>7, <1>8 DEF Fits

\* A directory whose blocks are read is in memory, unless it has too many; with no
\* more than direct ones it is there as the format has it.
LEMMA DirectoryInMemory ==
  ASSUME NEW v, Ext2Formatted(v), NEW dev, \A k \in Ext2Blocks(v) : ReadsBlock(devices, dev, k),
         NEW ino \in Ext2Dirs(v), NEW inode, inode = Ext2Inode(v, ino),
         inode.blocks <= DirectBlocks
  PROVE  /\ ReadsDirectory(devices, dev, inode)
         /\ DirectoryEntries(v, inode) = Ext2Entries(v, ino)
<1>1. /\ UsedBlocks(inode) = inode.blocks
      /\ \A i \in 1 .. inode.blocks : inode.pointers[i] \in Ext2Blocks(v)
  BY DirectoryBlocks
<1>2. ReadsDirectory(devices, dev, inode)
  BY <1>1 DEF ReadsDirectory
<1>3. DirectoryEntries(v, inode) = Ext2Entries(v, ino)
  BY <1>1 DEF DirectoryEntries, Ext2Entries
<1> QED
  BY <1>2, <1>3

\* The search stops at the first entry at which it may, and at none behind one with
\* the name.
LEMMA StopIs ==
  ASSUME NEW T, NEW entries \in Seq(T), NEW k \in DOMAIN entries, NEW name,
         ~ Differs(entries[k], name)
  PROVE  /\ \E i \in 1 .. k : /\ Stop(entries, name) = entries[i]
                               /\ ~ Differs(entries[i], name)
                               /\ \A j \in 1 .. i - 1 : Differs(entries[j], name)
         /\ (\A j \in 1 .. k - 1 : Differs(entries[j], name)) => Stop(entries, name) = entries[k]
<1> DEFINE stops == {i \in DOMAIN entries : ~ Differs(entries[i], name)}
<1>1. DOMAIN entries = 1 .. Len(entries) /\ Len(entries) \in Nat
  OBVIOUS
<1>2. stops \in SUBSET Nat /\ k \in stops /\ k \in Nat
  BY <1>1
<1>3. Min(stops) \in stops /\ \A i \in stops : Min(stops) <= i
  BY <1>2, MinIsFirst
<1>4. Stop(entries, name) = entries[Min(stops)]
  BY <1>2 DEF Stop
<1>5. PICK i \in stops : i = Min(stops) /\ i <= k
  BY <1>2, <1>3
<1>6. i \in 1 .. k
  BY <1>1, <1>2, <1>5
<1>7. ~ Differs(entries[i], name)
  BY <1>5
<1>8. ASSUME \A j \in 1 .. k - 1 : Differs(entries[j], name) PROVE i = k
  <2>1. i \notin 1 .. k - 1
    BY <1>7, <1>8
  <2> QED
    BY <1>2, <1>6, <2>1
<1>9. ASSUME NEW j \in 1 .. i - 1 PROVE Differs(entries[j], name)
  <2>1. j \in DOMAIN entries /\ ~ (i <= j)
    BY <1>1, <1>2, <1>6
  <2> QED
    BY <1>3, <1>5, <2>1
<1> QED
  BY <1>4, <1>5, <1>6, <1>7, <1>8, <1>9

\* An entry does not differ from its own name.
LEMMA SameName == \A e : ~ Differs(e, e.name)
BY DEF Differs

\* What is listed are the entries before the end of the directory.
LEMMA ListedBeforeEnd ==
  ASSUME NEW T, NEW entries \in Seq(T), NEW k \in DOMAIN BeforeEnd(entries)
  PROVE  /\ k \in DOMAIN entries
         /\ \A l \in 1 .. k : /\ l \in DOMAIN entries
                              /\ BeforeEnd(entries)[l] = entries[l] /\ entries[l].ino # 0
<1> DEFINE ends == {i \in DOMAIN entries : entries[i].ino = 0}
           last == Min(ends) - 1
<1>1. DOMAIN entries = 1 .. Len(entries) /\ Len(entries) \in Nat
  OBVIOUS
<1>2. CASE ends = {}
  <2>1. BeforeEnd(entries) = entries
    BY <1>2 DEF BeforeEnd
  <2>2. \A l \in 1 .. k : l \in DOMAIN entries
    BY <1>1, <2>1
  <2> QED
    BY <1>2, <2>1, <2>2
<1>3. CASE ends # {}
  <2>1. BeforeEnd(entries) = SubSeq(entries, 1, last)
    BY <1>3 DEF BeforeEnd
  <2>2. ends \in SUBSET Nat
    BY <1>1
  <2>3. Min(ends) \in ends /\ \A i \in ends : Min(ends) <= i
    BY <1>3, <2>2, MinIsFirst
  <2>4. PICK m \in 1 .. Len(entries) : m = Min(ends)
    BY <1>1, <2>3
  <2>5. SubSeq(entries, 1, m - 1) = [i \in 1 .. m - 1 |-> entries[i]]
    BY <1>1
  <2>6. k \in 1 .. m - 1 /\ \A l \in 1 .. m - 1 : BeforeEnd(entries)[l] = entries[l]
    BY <2>1, <2>4, <2>5
  <2>7. ASSUME NEW l \in 1 .. m - 1 PROVE l \in DOMAIN entries /\ l \notin ends
    <3>1. l \in 1 .. Len(entries) /\ ~ (m <= l)
      BY <1>1, <2>4
    <3> QED
      BY <1>1, <2>3, <2>4, <3>1
  <2>8. \A l \in 1 .. k : l \in 1 .. m - 1
    BY <2>4, <2>6
  <2> QED
    BY <2>6, <2>7, <2>8
<1> QED
  BY <1>2, <1>3

----------------------------------------------------------------------------
(* The files of devfs and the table of CybFS *)

\* Each entry of the table has a directory and name of its own.
LEMMA LayoutDiffers ==
  /\ DOMAIN CybfsLayout = 1 .. 41
  /\ \A i, j \in 1 .. 41 :
       CybfsLayout[i][1] = CybfsLayout[j][1] /\ CybfsLayout[i][2] = CybfsLayout[j][2] => i = j
<1>1. DOMAIN CybfsLayout = 1 .. 41
  BY DEF CybfsLayout
<1> DEFINE Of(k)   == CybfsLayout[k][1]
           Name(k) == CybfsLayout[k][2]
<1>2. /\ Of(1) = 0 /\ Of(4) = 0 /\ Of(7) = 0 /\ Of(10) = 0 /\ Of(13) = 0
      /\ Of(2) = 1 /\ Of(3) = 1 /\ Of(16) = 1 /\ Of(17) = 1 /\ Of(18) = 1 /\ Of(19) = 1
         /\ Of(20) = 1
      /\ Of(5) = 4 /\ Of(6) = 4
      /\ Of(8) = 7 /\ Of(9) = 7 /\ Of(38) = 7 /\ Of(39) = 7 /\ Of(40) = 7 /\ Of(41) = 7
      /\ Of(11) = 10 /\ Of(12) = 10 /\ Of(34) = 10 /\ Of(35) = 10 /\ Of(36) = 10
         /\ Of(37) = 10
      /\ Of(14) = 13 /\ Of(15) = 13 /\ Of(21) = 13 /\ Of(25) = 13 /\ Of(28) = 13
         /\ Of(31) = 13
      /\ Of(22) = 21 /\ Of(23) = 21 /\ Of(24) = 21
      /\ Of(26) = 25 /\ Of(27) = 25
      /\ Of(29) = 28 /\ Of(30) = 28
      /\ Of(32) = 32 /\ Of(33) = 32
  BY DEF CybfsLayout
<1>3. \A i, j \in {1, 4, 7, 10, 13} : Name(i) = Name(j) => i = j
  <2>1. /\ Name(1) = "SYSTEM" /\ Name(4) = "PROGRAM" /\ Name(7) = "DEVICE"
        /\ Name(10) = "INFO" /\ Name(13) = "USER"
    BY DEF CybfsLayout
  <2> HIDE DEF Name
  <2> QED
    BY <2>1
<1>4. \A i, j \in {2, 3, 16, 17, 18, 19, 20} : Name(i) = Name(j) => i = j
  <2>1. /\ Name(2) = "." /\ Name(3) = ".." /\ Name(16) = "kernel.bin"
        /\ Name(17) = "bootlvl1.bin" /\ Name(18) = "bootlvl2.bin" /\ Name(19) = "fat12.drv"
        /\ Name(20) = "cybfs.drv"
    BY DEF CybfsLayout
  <2> HIDE DEF Name
  <2> QED
    BY <2>1
<1>5. \A i, j \in {5, 6} : Name(i) = Name(j) => i = j
  <2>1. /\ Name(5) = "." /\ Name(6) = ".."
    BY DEF CybfsLayout
  <2> HIDE DEF Name
  <2> QED
    BY <2>1
<1>6. \A i, j \in {8, 9, 38, 39, 40, 41} : Name(i) = Name(j) => i = j
  <2>1. /\ Name(8) = "." /\ Name(9) = ".." /\ Name(38) = "FLOPPY0" /\ Name(39) = "FLOPPY1"
        /\ Name(40) = "FLOPPY2" /\ Name(41) = "FLOPPY3"
    BY DEF CybfsLayout
  <2> HIDE DEF Name
  <2> QED
    BY <2>1
<1>7. \A i, j \in {11, 12, 34, 35, 36, 37} : Name(i) = Name(j) => i = j
  <2>1. /\ Name(11) = "." /\ Name(12) = ".." /\ Name(34) = "cpu" /\ Name(35) = "memory"
        /\ Name(36) = "fdc" /\ Name(37) = "hdc"
    BY DEF CybfsLayout
  <2> HIDE DEF Name
  <2> QED
    BY <2>1
<1>8. \A i, j \in {14, 15, 21, 25, 28, 31} : Name(i) = Name(j) => i = j
  <2>1. /\ Name(14) = "." /\ Name(15) = ".." /\ Name(21) = "Joshua Thijssen"
        /\ Name(25) = "Bill Gates" /\ Name(28) = "Linus Torvalds" /\ Name(31) = "Steve Jobs"
    BY DEF CybfsLayout
  <2>2. /\ Name(14) # Name(15) /\ Name(14) # Name(21) /\ Name(14) # Name(25)
        /\ Name(14) # Name(28) /\ Name(14) # Name(31) /\ Name(15) # Name(21)
        /\ Name(15) # Name(25) /\ Name(15) # Name(28) /\ Name(15) # Name(31)
        /\ Name(21) # Name(25) /\ Name(21) # Name(28) /\ Name(21) # Name(31)
        /\ Name(25) # Name(28) /\ Name(25) # Name(31) /\ Name(28) # Name(31)
    BY <2>1, Zenon
  <2> HIDE DEF Name
  <2> QED
    BY <2>2
<1>9. \A i, j \in {22, 23, 24} : Name(i) = Name(j) => i = j
  <2>1. /\ Name(22) = "." /\ Name(23) = ".." /\ Name(24) = "helloworld.txt"
    BY DEF CybfsLayout
  <2> HIDE DEF Name
  <2> QED
    BY <2>1
<1>10. \A i, j \in {26, 27} : Name(i) = Name(j) => i = j
  <2>1. /\ Name(26) = "." /\ Name(27) = ".."
    BY DEF CybfsLayout
  <2> HIDE DEF Name
  <2> QED
    BY <2>1
<1>11. \A i, j \in {29, 30} : Name(i) = Name(j) => i = j
  <2>1. /\ Name(29) = "." /\ Name(30) = ".."
    BY DEF CybfsLayout
  <2> HIDE DEF Name
  <2> QED
    BY <2>1
<1>12. \A i, j \in {32, 33} : Name(i) = Name(j) => i = j
  <2>1. /\ Name(32) = "." /\ Name(33) = ".."
    BY DEF CybfsLayout
  <2> HIDE DEF Name
  <2> QED
    BY <2>1
<1> HIDE DEF Of, Name
<1>13. ASSUME NEW k \in 1 .. 41
       PROVE  \/ Of(k) = 0 /\ k \in {1, 4, 7, 10, 13}
              \/ Of(k) = 1 /\ k \in {2, 3, 16, 17, 18, 19, 20}
              \/ Of(k) = 4 /\ k \in {5, 6}
              \/ Of(k) = 7 /\ k \in {8, 9, 38, 39, 40, 41}
              \/ Of(k) = 10 /\ k \in {11, 12, 34, 35, 36, 37}
              \/ Of(k) = 13 /\ k \in {14, 15, 21, 25, 28, 31}
              \/ Of(k) = 21 /\ k \in {22, 23, 24}
              \/ Of(k) = 25 /\ k \in {26, 27}
              \/ Of(k) = 28 /\ k \in {29, 30}
              \/ Of(k) = 32 /\ k \in {32, 33}
  BY <1>2
<1>14. ASSUME NEW i \in 1 .. 41, NEW j \in 1 .. 41, Of(i) = Of(j), Name(i) = Name(j)
       PROVE  i = j
  <2>1. CASE Of(i) = 0
    <3>1. \A k \in 1 .. 41 : Of(k) = 0 => k \in {1, 4, 7, 10, 13}
      BY <1>13
    <3>2. i \in {1, 4, 7, 10, 13} /\ j \in {1, 4, 7, 10, 13}
      BY <1>14, <2>1, <3>1
    <3> QED
      BY <1>3, <1>14, <3>2
  <2>2. CASE Of(i) = 1
    <3>1. \A k \in 1 .. 41 : Of(k) = 1 => k \in {2, 3, 16, 17, 18, 19, 20}
      BY <1>13
    <3>2. i \in {2, 3, 16, 17, 18, 19, 20} /\ j \in {2, 3, 16, 17, 18, 19, 20}
      BY <1>14, <2>2, <3>1
    <3> QED
      BY <1>4, <1>14, <3>2
  <2>3. CASE Of(i) = 4
    <3>1. \A k \in 1 .. 41 : Of(k) = 4 => k \in {5, 6}
      BY <1>13
    <3>2. i \in {5, 6} /\ j \in {5, 6}
      BY <1>14, <2>3, <3>1
    <3> QED
      BY <1>5, <1>14, <3>2
  <2>4. CASE Of(i) = 7
    <3>1. \A k \in 1 .. 41 : Of(k) = 7 => k \in {8, 9, 38, 39, 40, 41}
      BY <1>13
    <3>2. i \in {8, 9, 38, 39, 40, 41} /\ j \in {8, 9, 38, 39, 40, 41}
      BY <1>14, <2>4, <3>1
    <3> QED
      BY <1>6, <1>14, <3>2
  <2>5. CASE Of(i) = 10
    <3>1. \A k \in 1 .. 41 : Of(k) = 10 => k \in {11, 12, 34, 35, 36, 37}
      BY <1>13
    <3>2. i \in {11, 12, 34, 35, 36, 37} /\ j \in {11, 12, 34, 35, 36, 37}
      BY <1>14, <2>5, <3>1
    <3> QED
      BY <1>7, <1>14, <3>2
  <2>6. CASE Of(i) = 13
    <3>1. \A k \in 1 .. 41 : Of(k) = 13 => k \in {14, 15, 21, 25, 28, 31}
      BY <1>13
    <3>2. i \in {14, 15, 21, 25, 28, 31} /\ j \in {14, 15, 21, 25, 28, 31}
      BY <1>14, <2>6, <3>1
    <3> QED
      BY <1>8, <1>14, <3>2
  <2>7. CASE Of(i) = 21
    <3>1. \A k \in 1 .. 41 : Of(k) = 21 => k \in {22, 23, 24}
      BY <1>13
    <3>2. i \in {22, 23, 24} /\ j \in {22, 23, 24}
      BY <1>14, <2>7, <3>1
    <3> QED
      BY <1>9, <1>14, <3>2
  <2>8. CASE Of(i) = 25
    <3>1. \A k \in 1 .. 41 : Of(k) = 25 => k \in {26, 27}
      BY <1>13
    <3>2. i \in {26, 27} /\ j \in {26, 27}
      BY <1>14, <2>8, <3>1
    <3> QED
      BY <1>10, <1>14, <3>2
  <2>9. CASE Of(i) = 28
    <3>1. \A k \in 1 .. 41 : Of(k) = 28 => k \in {29, 30}
      BY <1>13
    <3>2. i \in {29, 30} /\ j \in {29, 30}
      BY <1>14, <2>9, <3>1
    <3> QED
      BY <1>11, <1>14, <3>2
  <2>10. CASE Of(i) = 32
    <3>1. \A k \in 1 .. 41 : Of(k) = 32 => k \in {32, 33}
      BY <1>13
    <3>2. i \in {32, 33} /\ j \in {32, 33}
      BY <1>14, <2>10, <3>1
    <3> QED
      BY <1>12, <1>14, <3>2
  <2> QED
    BY <1>13, <2>1, <2>2, <2>3, <2>4, <2>5, <2>6, <2>7, <2>8, <2>9, <2>10
<1> QED
  BY <1>1, <1>14 DEF Of, Name

\* A device file is found by its name: those that have the same name are of the
\* same device.
LEMMA FilesAreFound ==
  ASSUME BootInv, NEW k \in DOMAIN nodes
  PROVE  DevfsFind(DevfsReadDir(k - 1)) = DeviceNode(nodes[k].id)
<1> DEFINE D     == DevicesIn(machine)
           name  == nodes[k].name
           found == {j \in DOMAIN nodes : nodes[j].name = name}
<1>1. /\ devices \in Seq(D) /\ machine \in Machines
      /\ nodes \in Seq({FileOf(d) : d \in D})
  BY DEF BootInv, Listed
<1>2. DOMAIN nodes = 1 .. Len(nodes) /\ Len(nodes) \in Nat
      /\ \A j \in DOMAIN nodes : nodes[j] \in {FileOf(d) : d \in D}
  <2> DEFINE F == {FileOf(d) : d \in D}
  <2> HIDE DEF F
  <2>1. nodes \in Seq(F)
    BY <1>1 DEF F
  <2>2. /\ DOMAIN nodes = 1 .. Len(nodes) /\ Len(nodes) \in Nat
        /\ \A j \in DOMAIN nodes : nodes[j] \in F
    BY <2>1
  <2> QED
    BY <2>2 DEF F
<1>3. (k - 1) + 1 = k /\ k \in Nat
  BY <1>2
<1>4. DevfsReadDir(k - 1) = name
  BY <1>3 DEF DevfsReadDir
<1>5. ASSUME NEW j \in DOMAIN nodes, nodes[j].name = name PROVE nodes[j].id = nodes[k].id
  <2>1. PICK d \in D : nodes[j] = FileOf(d)
    BY <1>2
  <2>2. PICK e \in D : nodes[k] = FileOf(e)
    BY <1>2
  <2>3. d.name = e.name => Id(d) = Id(e)
    BY <1>1, MachineAssumption
  <2>4. /\ nodes[j].name = d.name /\ nodes[j].id = Id(d)
        /\ nodes[k].name = e.name /\ nodes[k].id = Id(e)
    <3> HIDE DEF Id
    <3> QED
      BY <2>1, <2>2 DEF FileOf
  <2> QED
    BY <1>5, <2>3, <2>4
<1>6. found \in SUBSET Nat /\ k \in found
  BY <1>2
<1>7. Min(found) \in found
  BY <1>6, MinIsFirst
<1>8. DevfsFind(name) = DeviceNode(nodes[Min(found)].id)
  BY <1>6 DEF DevfsFind
<1>9. nodes[Min(found)].id = nodes[k].id
  BY <1>5, <1>7
<1> QED
  BY <1>4, <1>8, <1>9

\* cybfs_finddir finds what cybfs_readdir lists.
LEMMA LayoutIsFound ==
  ASSUME NEW dir, NEW k, CybfsReadDir(dir, k) # Nothing
  PROVE  CybfsFind(dir, << CybfsLayout[CybfsReadDir(dir, k)][2] >>) = CybfsReadDir(dir, k)
<1> DEFINE entries == {i \in DOMAIN CybfsLayout : CybfsLayout[i][1] = dir}
           at      == {i \in entries : Cardinality({j \in entries : j < i}) = k}
           i       == CybfsReadDir(dir, k)
           name    == CybfsLayout[i][2]
           found   == {j \in DOMAIN CybfsLayout :
                         CybfsLayout[j][1] = dir /\ << CybfsLayout[j][2] >> = << name >>}
<1>1. at # {} /\ i = Min(at)
  BY SMTT(40) DEF CybfsReadDir
<1>2. entries \in SUBSET (1 .. 41)
  BY LayoutDiffers
<1>3. at \in SUBSET Nat
  <2>1. at \subseteq entries
    OBVIOUS
  <2>2. entries \subseteq Nat
    <3> HIDE DEF entries
    <3> QED
      BY <1>2
  <2> HIDE DEF at, entries
  <2> QED
    BY <2>1, <2>2
<1>4. i \in at
  BY <1>1, <1>3, MinIsFirst, ZenonT(60)
<1> HIDE DEF i
<1>5. i \in 1 .. 41 /\ CybfsLayout[i][1] = dir
  BY <1>2, <1>4
<1>6. \A j \in found : j = i
  BY <1>5, LayoutDiffers, ZenonT(60)
<1>7. i \in found
  BY <1>5, LayoutDiffers
<1>8. found = {i}
  BY <1>6, <1>7
<1>9. Min({i}) = i
  <2>1. {i} \in SUBSET Nat /\ {i} # {}
    BY <1>5
  <2> QED
    BY <2>1, MinIsFirst
<1>10. CybfsFind(dir, << name >>) = i
  BY <1>7, <1>8, <1>9 DEF CybfsFind
<1> QED
  BY <1>10 DEF i

----------------------------------------------------------------------------
(* Searches and listings of what is mounted *)

\* Both searches of FAT12.
LEMMA FatFinds ==
  ASSUME MountedInv, NEW i \in FatMounted, NEW m, m = mounts[i], NEW v, v = Volume(m),
         NEW lost, lost = LostAfter(m, SectorSize),
         NEW dir \in {0} \union DOMAIN v.dirs, NEW k \in DOMAIN FatEntries(v, dir),
         \/ dir = 0
         \/ /\ ChainKept(v, lost, dir, (k - 1) \div EntriesPerDirSector)
            /\ ~ PassesTwo(v, lost, dir, (k - 1) \div EntriesPerDirSector)
  PROVE  FatFind(v, lost, dir, FatEntries(v, dir)[k].name) = Found(FatEntries(v, dir)[k])
<1>1. FatFormatted(v) /\ m.heap \in Nat /\ m.lost \in Nat /\ FatBytes(Volume(m)) \in Nat
  BY FatMountHolds
<1>2. lost \in Nat
  BY <1>1, LostAfterNumber, BlockAssumption
<1>3. CASE dir = 0
  BY <1>1, <1>3, RootFinds DEF FatFind
<1>4. CASE dir # 0
  <2> DEFINE q == (k - 1) \div EntriesPerDirSector
  <2>1. dir \in DOMAIN v.dirs
    BY <1>4
  <2>2. /\ \A l \in 0 .. q - 1 : EntryAt(Skipped(v, 0, dir, l)) >= lost
        /\ \A l \in 1 .. q : Skipped(v, lost, dir, l) # 2
    BY <1>4 DEF ChainKept, PassesTwo
  <2>3. FindInChain(v, lost, dir, FatEntries(v, dir)[k].name) = Found(FatEntries(v, dir)[k])
    BY <1>1, <1>2, <2>1, <2>2, ChainFinds
  <2> QED
    BY <1>4, <2>3 DEF FatFind
<1> QED
  BY <1>3, <1>4

\* As long as its entries are kept, a chain is the same after more of the FAT is lost.
LEMMA SameChain ==
  ASSUME NEW v, FatFormatted(v), NEW kept \in Nat, NEW lost \in Nat, lost <= kept,
         NEW dir, NEW q \in Nat, ChainKept(v, kept, dir, q)
  PROVE  \A l \in 0 .. q : Skipped(v, lost, dir, l) = Skipped(v, 0, dir, l)
<1> DEFINE A(l) == Skipped(v, 0, dir, l)
           K(l) == Skipped(v, lost, dir, l)
           S    == {l \in 0 .. q : K(l) # A(l)}
<1>1. A(0) = dir /\ \A n \in Nat \ {0} : A(n) = NextCluster(v, 0, A(n - 1))
  BY SkippedZero, SkippedNext
<1>2. K(0) = dir /\ \A n \in Nat \ {0} : K(n) = NextCluster(v, lost, K(n - 1))
  BY SkippedZero, SkippedNext
<1>3. \A l \in 0 .. q - 1 : EntryAt(A(l)) >= kept
  BY DEF ChainKept
<1> HIDE DEF A, K
<1> SUFFICES ASSUME S # {} PROVE FALSE
  BY DEF A, K
<1>4. PICK k \in S : \A l \in S : k <= l
  <2>1. S \in SUBSET Nat
    OBVIOUS
  <2> HIDE DEF S
  <2> QED
    BY <2>1, LeastElement
<1>5. k # 0
  BY <1>1, <1>2, <1>4
<1>6. k \in Nat \ {0} /\ k - 1 \in 0 .. q - 1 /\ k - 1 \in 0 .. q /\ k - 1 \notin S
  BY <1>4, <1>5
<1>7. PICK c : c = A(k - 1) /\ c = K(k - 1)
  BY <1>6
<1>8. NextCluster(v, lost, c) = NextCluster(v, 0, c)
  <2>1. CASE c \notin DOMAIN v.next
    BY <2>1 DEF NextCluster
  <2>2. CASE c \in DOMAIN v.next
    <3>1. c \in Nat
      BY <2>2, FormattedChains
    <3>2. EntryAt(c) \in Nat
      BY <3>1, DivMod DEF EntryAt
    <3>3. EntryAt(c) >= kept
      BY <1>3, <1>6, <1>7
    <3>4. ~ (EntryAt(c) < lost) /\ ~ (EntryAt(c) < 0)
      BY <3>2, <3>3
    <3> QED
      BY <3>4 DEF NextCluster
  <2> QED
    BY <2>1, <2>2
<1>9. K(k) = A(k)
  BY <1>1, <1>2, <1>6, <1>7, <1>8
<1> QED
  BY <1>4, <1>9

\* Both listings of FAT12: the search follows the chain that the listing followed
\* before the buffers of both were written.
LEMMA FatListed ==
  ASSUME MountedInv, NEW i \in FatMounted, NEW m, m = mounts[i], NEW v, v = Volume(m),
         NEW lost, lost = LostAfter(m, 2 * SectorSize),
         NEW dir \in {0} \union DOMAIN v.dirs, NEW n \in 0 .. Cardinality(DOMAIN v.next),
         \/ dir = 0
         \/ /\ ChainKept(v, lost, dir, n \div EntriesPerDirSector)
            /\ ~ PassesTwo(v, lost, dir, n \div EntriesPerDirSector),
         \A k \in 0 .. n : FatReadDir(v, m.lost, dir, k) \notin {Nothing, Unknown}
  PROVE  FatFind(v, lost, dir, FatReadDir(v, m.lost, dir, n).name).result = "found"
<1>1. FatFormatted(v) /\ m.heap \in Nat /\ m.lost \in Nat /\ FatBytes(Volume(m)) \in Nat
  BY FatMountHolds
<1>2. n \in Nat
  BY <1>1, ChainsAreFinite
<1>3. CASE dir = 0
  <2>1. \A k \in 0 .. n : FatReadDir(v, m.lost, 0, k) \notin {Nothing, Unknown}
    BY <1>3
  <2>2. FindInRoot(v, FatReadDir(v, m.lost, 0, n).name).result = "found"
    BY <1>1, <1>2, <2>1, RootListed
  <2> QED
    BY <1>3, <2>2 DEF FatFind
<1>4. CASE dir # 0
  <2>1. dir \in DOMAIN v.dirs
    BY <1>4
  <2>2. lost \in Nat /\ m.lost <= lost
    <3>1. 2 * SectorSize \in Nat
      BY BlockAssumption
    <3> QED
      BY <1>1, <3>1, LostAfterNumber
  <2> PICK b \in Nat \ {0} : b = EntriesPerDirSector
    BY FatAssumption
  <2> DEFINE far == n \div b
  <2>3. far \in Nat
    BY <1>2, DivMod
  <2>4. ChainKept(v, lost, dir, far)
    BY <1>4
  <2> HIDE DEF far
  <2>5. \A l \in 0 .. far : Skipped(v, lost, dir, l) = Skipped(v, m.lost, dir, l)
    <3>1. \A l \in 0 .. far : Skipped(v, m.lost, dir, l) = Skipped(v, 0, dir, l)
      BY <1>1, <2>2, <2>3, <2>4, SameChain
    <3>2. \A l \in 0 .. far : Skipped(v, lost, dir, l) = Skipped(v, 0, dir, l)
      BY <1>1, <2>2, <2>3, <2>4, SameChain
    <3> QED
      BY <3>1, <3>2
  <2>6. ASSUME NEW k \in 0 .. n
        PROVE  FatReadDir(v, lost, dir, k) = FatReadDir(v, m.lost, dir, k)
    <3>1. k \in Nat /\ k \div b \in Nat
      BY <1>2, DivMod
    <3>2. ~ (far < k \div b)
      BY <1>2, <3>1, WordsGrow DEF far
    <3>3. k \div b \in 0 .. far
      BY <2>3, <3>1, <3>2
    <3> QED
      BY <2>5, <3>3 DEF FatReadDir
  <2>7. \A l \in 1 .. n \div EntriesPerDirSector : Skipped(v, lost, dir, l) # 2
    BY <1>4 DEF PassesTwo
  <2>8. \A k \in 0 .. n : FatReadDir(v, lost, dir, k) \notin {Nothing, Unknown}
    BY <2>6
  <2>9. FindInChain(v, lost, dir, FatReadDir(v, lost, dir, n).name).result = "found"
    BY <1>1, <2>1, <2>7, <2>8, ChainListed
  <2>10. FatReadDir(v, lost, dir, n) = FatReadDir(v, m.lost, dir, n)
    BY <1>2, <2>6
  <2> QED
    BY <1>4, <2>9, <2>10 DEF FatFind
<1> QED
  BY <1>3, <1>4

\* In Ext2 the directory is in memory as the format has it, and the search stops at
\* the entry.
LEMMA Ext2Finds ==
  ASSUME MountedInv, NEW i \in Ext2Mounted, NEW m, m = mounts[i], NEW v, v = Volume(m),
         NEW dir \in Ext2Dirs(v), Described(v, dir), Ext2Inode(v, dir).blocks <= DirectBlocks,
         NEW k \in DOMAIN Ext2Entries(v, dir), NEW e, e = Ext2Entries(v, dir)[k],
         Described(v, e.ino), \A j \in 1 .. k - 1 : Differs(Ext2Entries(v, dir)[j], e.name)
  PROVE  /\ Ext2Find(devices, m.dev, v, dir, e.name) = FoundInode(e.ino)
         /\ ReadInode(devices, m.dev, v, e.ino).id = e.ino
<1> DEFINE inode   == Ext2Inode(v, dir)
           entries == DirectoryEntries(v, inode)
<1>1. Ext2Formatted(v) /\ \A l \in Ext2Blocks(v) : ReadsBlock(devices, m.dev, l)
  BY Ext2MountHolds
<1>2. \E p \in DOMAIN v.inode : v.inode[p].id = dir
  BY DEF Ext2Dirs
<1>3. ReadInode(devices, m.dev, v, dir) = inode /\ inode # Nothing
  BY <1>1, <1>2, InodeIsRead
<1>4. ReadsDirectory(devices, m.dev, inode) /\ entries = Ext2Entries(v, dir)
  BY <1>1, DirectoryInMemory
<1>5. PICK T : entries \in Seq(T)
  BY <1>1, DirectoryTyped
<1>6. /\ k \in DOMAIN entries /\ entries[k] = e
      /\ \A j \in 1 .. k - 1 : Differs(entries[j], e.name)
  BY <1>4
<1>7. e # Nothing /\ (e.ino = 0 \/ \E p \in DOMAIN v.inode : v.inode[p].id = e.ino)
  <2>1. \A j \in DOMAIN entries :
          /\ entries[j] # Nothing
          /\ entries[j].ino = 0 \/ \E p \in DOMAIN v.inode : v.inode[p].id = entries[j].ino
    BY <1>1, DirectoryTyped
  <2> HIDE DEF entries
  <2> QED
    BY <1>6, <2>1
<1>8. e.ino # 0
  BY DEF Described
<1>9. /\ ReadInode(devices, m.dev, v, e.ino) # Nothing
      /\ ReadInode(devices, m.dev, v, e.ino).id = e.ino
  BY <1>1, <1>7, <1>8, InodeIsRead
<1> HIDE DEF entries
<1>10. Stop(entries, e.name) = e
  <2>1. ~ Differs(entries[k], e.name)
    BY <1>6, SameName
  <2> QED
    BY <1>5, <1>6, <2>1, StopIs
<1>11. AtStop(devices, m.dev, v, e) = FoundInode(e.ino)
  BY <1>7, <1>8, <1>9 DEF AtStop
<1>12. Ext2Find(devices, m.dev, v, dir, e.name) = AtStop(devices, m.dev, v, Stop(entries, e.name))
  BY <1>3, <1>4 DEF Ext2Find, entries
<1> QED
  BY <1>9, <1>10, <1>11, <1>12

\* What Ext2 lists stands before the end of the directory, so the search stops at an
\* entry that has an inode.
LEMMA Ext2ListedFound ==
  ASSUME MountedInv, NEW i \in Ext2Mounted, NEW m, m = mounts[i], NEW v, v = Volume(m),
         NEW dir \in Ext2Dirs(v), Described(v, dir),
         NEW listed, listed = Ext2Listed(devices, m.dev, v, dir), NEW k \in DOMAIN listed
  PROVE  \E j \in 1 .. k :
           /\ \A l \in 1 .. j - 1 : Differs(listed[l], listed[k].name)
           /\ ~ Differs(listed[j], listed[k].name)
           /\ Ext2Find(devices, m.dev, v, dir, listed[k].name)
                = IF ReadInode(devices, m.dev, v, listed[j].ino) = Nothing THEN AnyInode
                  ELSE FoundInode(listed[j].ino)
<1> DEFINE inode   == Ext2Inode(v, dir)
           entries == DirectoryEntries(v, inode)
<1>1. Ext2Formatted(v) /\ \A l \in Ext2Blocks(v) : ReadsBlock(devices, m.dev, l)
  BY Ext2MountHolds
<1>2. \E p \in DOMAIN v.inode : v.inode[p].id = dir
  BY DEF Ext2Dirs
<1>3. ReadInode(devices, m.dev, v, dir) = inode /\ inode # Nothing
  BY <1>1, <1>2, InodeIsRead
<1>4. PICK T : entries \in Seq(T)
  BY <1>1, DirectoryTyped
<1>5. \A j \in DOMAIN entries : entries[j] # Nothing
  BY <1>1, DirectoryTyped
<1>6. ReadsDirectory(devices, m.dev, inode) /\ listed = BeforeEnd(entries)
  <2>1. listed = IF ~ ReadsDirectory(devices, m.dev, inode) THEN << >> ELSE BeforeEnd(entries)
    BY <1>3 DEF Ext2Listed
  <2>2. DOMAIN << >> = {}
    OBVIOUS
  <2> QED
    BY <2>1, <2>2
<1> PICK name : name = listed[k].name
  OBVIOUS
<1>7. Ext2Find(devices, m.dev, v, dir, name) = AtStop(devices, m.dev, v, Stop(entries, name))
  BY <1>3, <1>6 DEF Ext2Find
<1> HIDE DEF entries
<1>8. /\ k \in DOMAIN entries
      /\ \A l \in 1 .. k : /\ l \in DOMAIN entries
                           /\ listed[l] = entries[l] /\ entries[l].ino # 0
  BY <1>4, <1>6, ListedBeforeEnd
<1>9. DOMAIN entries = 1 .. Len(entries) /\ Len(entries) \in Nat
  BY <1>4
<1>10. k \in Nat /\ k \in 1 .. k
  BY <1>8, <1>9
<1>11. PICK j \in 1 .. k : /\ Stop(entries, name) = entries[j]
                          /\ ~ Differs(entries[j], name)
                          /\ \A l \in 1 .. j - 1 : Differs(entries[l], name)
  <2>1. ~ Differs(entries[k], name)
    BY <1>8, <1>10, SameName
  <2> QED
    BY <1>4, <1>8, <2>1, StopIs
<1>12. \A l \in 1 .. j - 1 : Differs(listed[l], name)
  <2>1. \A l \in 1 .. j - 1 : l \in 1 .. k
    BY <1>10
  <2> QED
    BY <1>8, <1>11, <2>1
<1>13. listed[j] = entries[j] /\ entries[j].ino # 0 /\ entries[j] # Nothing
  BY <1>5, <1>8
<1>14. AtStop(devices, m.dev, v, entries[j])
         = IF ReadInode(devices, m.dev, v, entries[j].ino) = Nothing THEN AnyInode
           ELSE FoundInode(entries[j].ino)
  BY <1>13 DEF AtStop
<1> QED
  BY <1>7, <1>11, <1>12, <1>13, <1>14

\* Together.
LEMMA FindsRight == MountedInv => FindRight
<1> SUFFICES ASSUME MountedInv PROVE FindRight
  OBVIOUS
<1>1. \A i \in FatMounted :
        LET v    == Volume(mounts[i])
            lost == LostAfter(mounts[i], SectorSize)
        IN  \A dir \in {0} \union DOMAIN v.dirs :
              LET entries == FatEntries(v, dir)
              IN  \A k \in DOMAIN entries :
                    LET n == (k - 1) \div EntriesPerDirSector
                    IN  \/ dir = 0
                        \/ ChainKept(v, lost, dir, n) /\ ~ PassesTwo(v, lost, dir, n)
                        => FatFind(v, lost, dir, entries[k].name) = Found(entries[k])
  <2> SUFFICES ASSUME NEW i \in FatMounted, NEW m, m = mounts[i], NEW v, v = Volume(m),
                      NEW lost, lost = LostAfter(m, SectorSize),
                      NEW dir \in {0} \union DOMAIN v.dirs, NEW k \in DOMAIN FatEntries(v, dir),
                      \/ dir = 0
                      \/ /\ ChainKept(v, lost, dir, (k - 1) \div EntriesPerDirSector)
                         /\ ~ PassesTwo(v, lost, dir, (k - 1) \div EntriesPerDirSector)
               PROVE  FatFind(v, lost, dir, FatEntries(v, dir)[k].name)
                        = Found(FatEntries(v, dir)[k])
    OBVIOUS
  <2> QED
    BY FatFinds
<1>2. \A i \in Ext2Mounted :
        LET m == mounts[i]
            v == Volume(m)
        IN  \A dir \in {d \in Ext2Dirs(v) : /\ Described(v, d)
                                           /\ Ext2Inode(v, d).blocks <= DirectBlocks} :
              LET entries == Ext2Entries(v, dir)
              IN  \A k \in DOMAIN entries :
                    /\ Described(v, entries[k].ino)
                    /\ \A j \in 1 .. k - 1 : Differs(entries[j], entries[k].name)
                    => /\ Ext2Find(devices, m.dev, v, dir, entries[k].name)
                            = FoundInode(entries[k].ino)
                       /\ ReadInode(devices, m.dev, v, entries[k].ino).id = entries[k].ino
  BY Ext2Finds
<1> QED
  BY <1>1, <1>2 DEF FindRight

LEMMA ListsRight == MountedInv => ListedIsFound
<1> SUFFICES ASSUME MountedInv PROVE ListedIsFound
  OBVIOUS
<1>1. \A k \in DOMAIN nodes : DevfsFind(DevfsReadDir(k - 1)) = DeviceNode(nodes[k].id)
  BY FilesAreFound DEF MountedInv, BootedInv
<1>2. \A dir \in {CybfsLayout[i][1] : i \in DOMAIN CybfsLayout}, k \in 0 .. 9 :
        LET i == CybfsReadDir(dir, k)
        IN  i # Nothing => CybfsFind(dir, << CybfsLayout[i][2] >>) = i
  BY LayoutIsFound
<1>3. \A i \in FatMounted :
        LET m == mounts[i]
            v == Volume(m)
            lost == LostAfter(m, 2 * SectorSize)
        IN  \A dir \in {0} \union DOMAIN v.dirs, n \in 0 .. Cardinality(DOMAIN v.next) :
              LET far == n \div EntriesPerDirSector
              IN  /\ \A k \in 0 .. n : FatReadDir(v, m.lost, dir, k) \notin {Nothing, Unknown}
                  /\ \/ dir = 0
                     \/ ChainKept(v, lost, dir, far) /\ ~ PassesTwo(v, lost, dir, far)
                  => FatFind(v, lost, dir, FatReadDir(v, m.lost, dir, n).name).result = "found"
  BY FatListed
<1> DEFINE Stopped(m, v, dir, listed, k) ==
             \E j \in 1 .. k :
               /\ \A l \in 1 .. j - 1 : Differs(listed[l], listed[k].name)
               /\ ~ Differs(listed[j], listed[k].name)
               /\ Ext2Find(devices, m.dev, v, dir, listed[k].name)
                    = IF ReadInode(devices, m.dev, v, listed[j].ino) = Nothing THEN AnyInode
                      ELSE FoundInode(listed[j].ino)
<1>4. ASSUME NEW i \in Ext2Mounted, NEW m, m = mounts[i], NEW v, v = Volume(m),
             NEW dir \in Ext2Dirs(v), Described(v, dir),
             NEW listed, listed = Ext2Listed(devices, m.dev, v, dir), NEW k \in DOMAIN listed
      PROVE  Stopped(m, v, dir, listed, k)
  BY <1>4, Ext2ListedFound
<1>5. \A i \in Ext2Mounted :
        LET m == mounts[i]
            v == Volume(m)
        IN  \A dir \in {d \in Ext2Dirs(v) : Described(v, d)} :
              LET listed == Ext2Listed(devices, m.dev, v, dir)
              IN  \A k \in DOMAIN listed : Stopped(m, v, dir, listed, k)
  <2> HIDE DEF Stopped
  <2> QED
    BY <1>4
<1> QED
  BY <1>1, <1>2, <1>3, <1>5 DEF ListedIsFound

\* A search of a directory, in FAT12 (vfs/fat12.c:420-515) and Ext2 (vfs/ext2.c:376-460),
\* finds the entry with the name, with what FindRight excepts: whatever the volumes
\* hold, wherever they lie and however much of a FAT is lost, by the buffer that the
\* search allocates before it follows the chain as well.
THEOREM SearchesFind == Spec => []FindRight
<1>1. MountedInv => FindRight
  BY FindsRight
<1> QED
  BY <1>1, InitMounted, NextKeepsMounted, PTL DEF Spec

\* The entry readdir of devfs, CybFS, FAT12 or Ext2 comes to, finddir of the same
\* system finds when it is called next, although both of FAT12 allocate a buffer; in
\* Ext2 it finds the first one its condition stops at (vfs/devfs.c, vfs/cybfs.c,
\* vfs/fat12.c:295-515, vfs/ext2.c:376-545), with what ListedIsFound excepts.
THEOREM ListingsComplete == Spec => []ListedIsFound
<1>1. MountedInv => ListedIsFound
  BY ListsRight
<1> QED
  BY <1>1, InitMounted, NextKeepsMounted, PTL DEF Spec
=============================================================================
