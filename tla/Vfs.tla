--------------------------------- MODULE Vfs ---------------------------------
(***************************************************************************)
(* The virtual file system (vfs.c) with what hangs on it: the registry of  *)
(* devices (device.c) and the nodes made for them (devfs.c), the devices   *)
(* that booting finds (floppy.c, ide.c, partitions.c), the table of file   *)
(* systems, the mounts, and the lookup of a path through devfs, CybFS,     *)
(* FAT12 and Ext2.                                                         *)
(*                                                                         *)
(* One task at a time is in the file system: it is called by the kernel at *)
(* boot, and by execve().  What may come between two calls is an           *)
(* allocation by anyone else.  A name is a sequence of strings, a path a   *)
(* mount with the names between its slashes.                               *)
(***************************************************************************)
EXTENDS Fat12, Ext2

CONSTANTS Machines,     \* floppy and IDE drives a machine may have, in order
          VolumeOn,     \* <<major, minor>> of a device -> what is on it
          SystemSlots,  \* VFS_MAX_FILESYSTEMS
          MountSlots,   \* VFS_MAX_MOUNTS
          NodeSlots,    \* device files devfs has room for
          Names,        \* names mounts are given
          MaxCount,     \* bound: mounts counted for a system
          Reloaded,     \* bound: file systems unregistered and registered again
          Blocks,       \* bound: sizes of the blocks others allocate
          NotThere      \* a name no directory has

Tags == {"cybfs", "devfs", "fat12", "ext2"}

\* The four systems the kernel registers have room, and the mount of devfs, which
\* keeps its name.
ASSUME VfsAssumption ==
  /\ SystemSlots \in Nat /\ SystemSlots >= 4
  /\ MountSlots \in Nat \ {0} /\ NodeSlots \in Nat /\ MaxCount \in Nat \ {0}
  /\ Reloaded \subseteq Tags /\ Blocks \subseteq Nat
  /\ "DEVICE" \notin Names

VARIABLES machine,  \* the drives of this machine
          probed,   \* how many of them booting has initialised
          devices,  \* ll_devices
          nodes,    \* devfs_nodes, from slot 1 on
          systems,  \* vfs_systems
          mounts,   \* vfs_mount_table
          super     \* ext2_supernode.mount: a slot, or 0

vars == <<machine, probed, devices, nodes, systems, mounts, super>>

OnDevice     == {"fat12", "ext2"}  \* systems that read the device they are given

NoSystem == [enabled |-> FALSE, tag |-> Nothing, count |-> 0]

\* A file system has one supernode for all its mounts: root names the file system
\* whose supernode the mount points to.  Of the FAT in memory the heap has gone
\* past so many bytes, and so many have been written over.
NoMount  == [enabled |-> FALSE, name |-> Nothing, system |-> 0, dev |-> Nothing,
             root |-> Nothing, heap |-> 0, lost |-> 0]

Slots(n)     == 1 .. n
Mounted      == {i \in DOMAIN mounts : mounts[i].enabled}
Id(dev)      == <<dev.major, dev.minor>>

\* The devices booting may find on a machine.
DevicesIn(m) == Range(m.floppies) \union
                UNION {Range(DevicesOf(m.drives[k])) : k \in DOMAIN m.drives}

\* A device is named by the numbers of its drive and of its partition, and a path
\* leads to its file; what is not there is none of them, and no supernode.
ASSUME MachineAssumption ==
  /\ Nothing \notin Tags
  /\ \A m \in Machines :
       /\ m.floppies \in Seq(DevicesIn(m)) /\ m.drives \in Seq(Range(m.drives))
       /\ \A k \in DOMAIN m.drives : DevicesOf(m.drives[k]) \in Seq(DevicesIn(m))
       /\ \A d \in DevicesIn(m) : d # Nothing /\ d.name \notin {<< "." >>, << ".", "." >>}
       /\ \A d, e \in DevicesIn(m) : d.name = e.name => Id(d) = Id(e)

\* A drive is numbered by its place on the controller, tells how many sectors it
\* has, no more than it takes addresses of, and its table leads to partitions.
\* The size of a floppy is that of its type.
ASSUME DriveAssumption ==
  \A m \in Machines :
    /\ \A d \in Range(m.floppies) : d.major = FDC /\ d.size \in Nat
    /\ \A k, l \in DOMAIN m.drives : m.drives[k].minor = m.drives[l].minor => k = l
    /\ \A d \in Range(m.drives) :
         /\ d.major = IDE /\ d.minor \in Nat /\ d.size \in Nat
         /\ d.lba48 \/ d.size <= Lba28
         /\ d.signed => TableAt(d, 0) \in Seq([start : Nat, size : Nat])

\* The volumes are formatted, and lie on their devices: the clusters of a file on
\* any, the blocks of an Ext2 volume on a partition (a floppy has none: its driver
\* reads no two sectors at once); and a partition with a volume lies on its drive.
ASSUME VolumeAssumption ==
  /\ \A id \in DOMAIN VolumeOn :
       /\ VolumeOn[id].fs = "fat12" => FatFormatted(VolumeOn[id].volume)
       /\ VolumeOn[id].fs = "ext2" => Ext2Formatted(VolumeOn[id].volume)
  /\ \A m \in Machines :
       /\ \A d \in {e \in DevicesIn(m) : Id(e) \in DOMAIN VolumeOn} :
            LET v   == VolumeOn[Id(d)].volume
                end == d.size * SectorSize
            IN  /\ VolumeOn[Id(d)].fs = "fat12" =>
                     \A file \in FileEntries(v) :
                       \A i \in 0 .. file.size - 1 : FileByte(v, file, i) < end
                /\ VolumeOn[Id(d)].fs = "ext2" /\ d.major # FDC =>
                     \A b \in Ext2Blocks(v) : (b + 1) * BlockBytes <= end
       /\ \A k \in DOMAIN m.drives : \A d \in Range(DevicesOf(m.drives[k])) :
            Id(d) \in DOMAIN VolumeOn /\ d.major = HDC => d.start + d.size <= m.drives[k].size

----------------------------------------------------------------------------
(* Directories *)

Node(kind, ino, mount) == [kind |-> kind, ino |-> ino, dev |-> Nothing, mount |-> mount]
Other(kind)            == Node(kind, Nothing, Nothing)

\* The mount of the node of a device is not set.
DeviceNode(id) == [kind |-> "block", ino |-> Nothing, dev |-> id, mount |-> Nothing]
Absent   == Other("absent")
\* finddir of FAT12 and CybFS takes no target: it returns the address of a node
\* of its own, and the node the caller has given stays as it was.
Unfilled == Other("unfilled")
AnyNode  == Other("unknown")
\* A supernode that is NULL is copied all the same.
Broken   == Other("broken")

\* cybfs_default_layout, by inode number: the directory and the name.
CybfsLayout ==
  << <<0, "SYSTEM">>, <<1, ".">>, <<1, "..">>, <<0, "PROGRAM">>, <<4, ".">>, <<4, "..">>,
     <<0, "DEVICE">>, <<7, ".">>, <<7, "..">>, <<0, "INFO">>, <<10, ".">>, <<10, "..">>,
     <<0, "USER">>, <<13, ".">>, <<13, "..">>, <<1, "kernel.bin">>, <<1, "bootlvl1.bin">>,
     <<1, "bootlvl2.bin">>, <<1, "fat12.drv">>, <<1, "cybfs.drv">>, <<13, "Joshua Thijssen">>,
     <<21, ".">>, <<21, "..">>, <<21, "helloworld.txt">>, <<13, "Bill Gates">>, <<25, ".">>,
     <<25, "..">>, <<13, "Linus Torvalds">>, <<28, ".">>, <<28, "..">>, <<13, "Steve Jobs">>,
     <<32, ".">>, <<32, "..">>, <<10, "cpu">>, <<10, "memory">>, <<10, "fdc">>, <<10, "hdc">>,
     <<7, "FLOPPY0">>, <<7, "FLOPPY1">>, <<7, "FLOPPY2">>, <<7, "FLOPPY3">> >>

\* cybfs_finddir, and the entry cybfs_readdir comes to: inode numbers in the order
\* of the table.
CybfsFind(ino, name) ==
  LET found == {i \in DOMAIN CybfsLayout : CybfsLayout[i][1] = ino /\ << CybfsLayout[i][2] >> = name}
  IN  IF found = {} THEN Nothing ELSE Min(found)

CybfsReadDir(ino, index) ==
  LET entries == {i \in DOMAIN CybfsLayout : CybfsLayout[i][1] = ino}
      at      == {i \in entries : Cardinality({j \in entries : j < i}) = index}
  IN  IF at = {} THEN Nothing ELSE Min(at)

\* devfs_finddir, in the only directory there is.
DevfsFind(name) ==
  LET found == {i \in DOMAIN nodes : nodes[i].name = name}
  IN  IF found = {} THEN Absent ELSE DeviceNode(nodes[Min(found)].id)

\* devfs_readdir.
DevfsReadDir(index) ==
  IF index + 1 \in DOMAIN nodes THEN nodes[index + 1].name ELSE Nothing

\* Mutant: the major number is not compared.
GetDeviceOfMinor(id) ==
  LET found == {i \in DOMAIN devices : devices[i].minor = id[2]}
  IN  IF found = {} THEN Nothing ELSE devices[Min(found)]

\* device_get_device.
GetDevice(id) ==
  LET found == {i \in DOMAIN devices : Id(devices[i]) = id}
  IN  IF found = {} THEN Nothing ELSE devices[Min(found)]

Volume(m) == VolumeOn[Id(m.dev)].volume
Tag(m)    == systems[m.system].tag

Ext2Kind(m, ino) ==
  IF ReadInode(devices, m.dev, Volume(m), ino).dir THEN "dir" ELSE "file"

\* The node has the mount of its directory.
Ext2Node(slot, found) ==
  CASE found = NoInode  -> Absent
    [] found = AnyInode -> AnyNode
    [] OTHER            -> Node(Ext2Kind(mounts[slot], found.ino), found.ino, slot)

Cut(n, most) == IF n > most THEN most ELSE n

\* The bytes of a FAT that are lost when n more are written to the heap.
LostAfter(m, n) ==
  LET over == Cut(m.heap + n, FatBytes(Volume(m)))
  IN  IF over > m.lost THEN over ELSE m.lost

\* vfs_finddir, by the mount of a node.  fat12_finddir reads the first sector of
\* the directory to a block it allocates, which lies over the FAT, and follows
\* the chain afterwards.
FindDir(node, name) ==
  LET m   == mounts[node.mount]
      fat == FatFind(Volume(m), LostAfter(m, SectorSize), node.ino, name)
  IN  CASE m.root = "devfs" -> DevfsFind(name)
        [] m.root = "cybfs" ->
             IF CybfsFind(node.ino, name) = Nothing THEN Absent ELSE Unfilled
        [] m.root = "fat12" -> IF fat = Ended THEN Absent ELSE Unfilled
        [] m.root = "ext2"  ->
             Ext2Node(node.mount, Ext2Find(devices, m.dev, Volume(m), node.ino, name))

\* readdir of FAT12 and CybFS takes no target either: it returns the address of an
\* entry of its own, and in the caller's there is whatever was.
AnyName == << "any name" >>

\* vfs_readdir: the name it leaves in the entry of its caller, or Nothing.
ReadDir(node, index) ==
  LET m     == mounts[node.mount]
      names == Ext2Listed(devices, m.dev, Volume(m), node.ino)
  IN  CASE m.root = "devfs" -> DevfsReadDir(index)
        [] m.root = "cybfs" ->
             IF CybfsReadDir(node.ino, index) = Nothing THEN Nothing ELSE AnyName
        [] m.root = "fat12" ->
             IF FatReadDir(Volume(m), m.lost, node.ino, index) = Nothing THEN Nothing ELSE AnyName
        [] m.root = "ext2"  ->
             IF index + 1 \in DOMAIN names THEN names[index + 1].name ELSE Nothing

----------------------------------------------------------------------------
(* Paths *)

\* vsf_get_mount looks for the first mount with the name.
MountsNamed(name) == {i \in Mounted : mounts[i].name = name}

\* Mutant: a mount that is in the supernode already is not set.
SuperNodeAsItIs(i) ==
  LET root == mounts[i].root
  IN  CASE root = Nothing -> Broken
        [] root = "ext2"  -> Node("dir", RootInode, super)
        [] OTHER          -> Node("dir", 0, i)

\* The copy of a supernode a path begins with is given the mount of the path.
SuperNode(i) ==
  LET root == mounts[i].root
  IN  CASE root = Nothing -> Broken
        [] root = "ext2"  -> Node("dir", RootInode, i)
        [] OTHER          -> Node("dir", 0, i)

\* One component in vfs_get_node_from_path.  The parent stops the kernel.
Component(node, name) ==
  IF node.kind \notin {"dir", "file", "block"} THEN node
  ELSE IF node.kind # "dir" THEN Absent
  ELSE IF name = << "." >> THEN node
  ELSE IF name = << ".", "." >> THEN Other("stopped")
  ELSE FindDir(node, name)

\* vfs_get_node_from_path.
Lookup(name, parts) ==
  LET node[n \in 0 .. Len(parts)] ==
        IF n = 0 THEN SuperNode(Min(MountsNamed(name))) ELSE Component(node[n - 1], parts[n])
  IN  IF MountsNamed(name) = {} THEN Absent ELSE node[Len(parts)]

DeviceOf(node) == IF node.kind = "block" THEN GetDevice(node.dev) ELSE Nothing

\* What the lookup of a device file comes to, in the list of devices.
Opened(name) == DeviceOf(Lookup("DEVICE", << name >>))

----------------------------------------------------------------------------
(* Booting: devices are found and registered *)

Init ==
  /\ machine \in Machines
  /\ probed = 0 /\ devices = << >> /\ nodes = << >>
  /\ systems = [i \in Slots(SystemSlots) |->
       CASE i = 1 -> [enabled |-> TRUE, tag |-> "cybfs", count |-> 0]
         [] i = 2 -> [enabled |-> TRUE, tag |-> "devfs", count |-> 1]
         [] i = 3 -> [enabled |-> TRUE, tag |-> "fat12", count |-> 0]
         [] i = 4 -> [enabled |-> TRUE, tag |-> "ext2", count |-> 0]
         [] OTHER -> NoSystem]
  /\ mounts = [i \in Slots(MountSlots) |->
       IF i = 1 THEN [NoMount EXCEPT !.enabled = TRUE, !.name = "DEVICE", !.system = 2,
                                     !.root = "devfs"]
       ELSE NoMount]
  /\ super = 0

\* devfs_mknod: the first free slot, if there is one.
Mknod(files, dev) ==
  IF Len(files) < NodeSlots THEN Append(files, [name |-> dev.name, id |-> Id(dev)]) ELSE files

\* Mutant: a device that is there already is registered again.
RegisterTwice(reg, dev) ==
  [devices |-> Append(reg.devices, dev), nodes |-> Mknod(reg.nodes, dev)]

\* device_register.
Register(reg, dev) ==
  IF \E i \in DOMAIN reg.devices : Id(reg.devices[i]) = Id(dev) THEN reg
  ELSE [devices |-> Append(reg.devices, dev), nodes |-> Mknod(reg.nodes, dev)]

Registered(new) ==
  LET reg[n \in 0 .. Len(new)] ==
        IF n = 0 THEN [devices |-> devices, nodes |-> nodes] ELSE Register(reg[n - 1], new[n])
  IN  /\ probed' = probed + 1
      /\ devices' = reg[Len(new)].devices /\ nodes' = reg[Len(new)].nodes
      /\ UNCHANGED <<machine, systems, mounts, super>>

\* fdc_init_drive.
InitFloppy ==
  LET n == probed + 1
  IN  n \in DOMAIN machine.floppies /\ Registered(<< machine.floppies[n] >>)

\* ide_init_drive.
InitDrive ==
  LET n == probed + 1 - Len(machine.floppies)
  IN  n \in DOMAIN machine.drives /\ Registered(DevicesOf(machine.drives[n]))

Booted == probed = Len(machine.floppies) + Len(machine.drives)
----------------------------------------------------------------------------
(* File systems and mounts *)

\* vfs_get_vfs_system: a slot of vfs_systems, or 0.
SystemOf(tag) ==
  LET found == {i \in DOMAIN systems : systems[i].enabled /\ systems[i].tag = tag}
  IN  IF found = {} THEN 0 ELSE Min(found)

\* vfs_register_filesystem: a file system may be there twice.
RegisterFilesystem(tag) ==
  LET free == {i \in DOMAIN systems : ~ systems[i].enabled}
  IN  /\ Booted /\ free # {}
      /\ systems' = [systems EXCEPT ![Min(free)] =
                       [enabled |-> TRUE, tag |-> tag, count |-> 0]]
      /\ UNCHANGED <<machine, probed, devices, nodes, mounts, super>>

\* Mutant: the count is not asked for.
MayUnregisterAlways(i) == TRUE

\* vfs_unregister_filesystem: only if nothing is mounted with it.
MayUnregister(i) == systems[i].count = 0

UnregisterFilesystem(tag) ==
  LET i == SystemOf(tag)
  IN  /\ Booted /\ i # 0 /\ MayUnregister(i)
      /\ systems' = [systems EXCEPT ![i].enabled = FALSE]
      /\ UNCHANGED <<machine, probed, devices, nodes, mounts, super>>

\* sys_mount: the slot for a mount: a free one, or the one of that name if it is
\* a remount.  0 is none.
SlotFor(name, remount) ==
  LET slots == {i \in DOMAIN mounts : \/ ~ mounts[i].enabled
                                      \/ remount /\ mounts[i].name = name}
  IN  IF slots = {} THEN 0 ELSE Min(slots)

\* The mount operation of a file system returns a supernode.
CanMount(tag, dev) ==
  CASE tag = "fat12" -> FatMounts(devices, dev, VolumeOn[Id(dev)].volume)
    [] tag = "ext2"  -> Ext2Mounts(devices, dev, VolumeOn[Id(dev)].volume)
    [] OTHER         -> TRUE

\* _heap_kmalloc: a block lies where the heap ended, and nothing is freed.  What is
\* taken and written lies over a FAT in memory.
Overwritten(m, use) ==
  IF m.root # "fat12" THEN m
  ELSE [m EXCEPT !.heap = Cut(@ + use.taken, FatBytes(Volume(m))),
                 !.lost = LostAfter(m, use.written)]

Block(n) == [taken |-> n, written |-> n]

\* What the mount operation of a file system does to the heap.
MountUses(tag, dev) ==
  CASE tag = "fat12" -> FatUses(devices, dev, VolumeOn[Id(dev)].volume)
    [] tag = "ext2"  -> Block(Ext2Uses(devices, dev, VolumeOn[Id(dev)].volume))
    [] OTHER         -> Block(0)

\* What sys_mount leaves in the slot: all but the supernode and the mark that
\* it is used is written before the mount operation is called.
MountedIn(old, name, sys, dev, ok) ==
  [old EXCEPT !.enabled = @ \/ ok, !.name = name, !.system = sys, !.dev = dev,
              !.root = IF ok THEN systems[sys].tag ELSE Nothing, !.heap = 0, !.lost = 0]

\* sys_mount.  A file system that reads a device is given one that holds it, the
\* others none.  If it returns early, nothing has changed.
Mount(file, tag, name, remount) ==
  LET sys  == SystemOf(tag)
      slot == SlotFor(name, remount)
  IN  /\ Booted
      /\ sys # 0 /\ (MountsNamed(name) # {} => remount) /\ slot # 0
      /\ systems[sys].count < MaxCount
      /\ \E dev \in {Opened(file)} :
           /\ IF tag \in OnDevice
              THEN dev # Nothing /\ Id(dev) \in DOMAIN VolumeOn /\ VolumeOn[Id(dev)].fs = tag
              ELSE file = Nothing
           /\ mounts' = [[i \in DOMAIN mounts |-> Overwritten(mounts[i], MountUses(tag, dev))]
                         EXCEPT ![slot] = MountedIn(mounts[slot], name, sys, dev,
                                                    CanMount(tag, dev))]
           /\ super' = IF tag = "ext2" /\ CanMount(tag, dev) THEN slot ELSE super
      /\ systems' = [systems EXCEPT ![sys].count = @ + 1]
      /\ UNCHANGED <<machine, probed, devices, nodes>>

\* kmalloc by anyone, also by finddir and readdir of FAT12 and Ext2.
Allocate(n) ==
  /\ mounts' = [i \in DOMAIN mounts |-> Overwritten(mounts[i], Block(n))] /\ mounts' # mounts
  /\ UNCHANGED <<machine, probed, devices, nodes, systems, super>>

Files == {Nothing, NotThere} \union {nodes[i].name : i \in DOMAIN nodes}

Next ==
  \/ InitFloppy
  \/ InitDrive
  \/ \E tag \in Reloaded : RegisterFilesystem(tag) \/ UnregisterFilesystem(tag)
  \/ \E file \in Files, tag \in Tags, name \in Names, remount \in BOOLEAN :
       Mount(file, tag, name, remount)
  \/ \E n \in Blocks : Allocate(n)

Spec == Init /\ [][Next]_vars

----------------------------------------------------------------------------
(* Properties *)

\* The tables hold what they may: devices have numbers of their own, files of
\* devices name devices, and a mount of a system that reads a device has one.
TypeOK ==
  /\ machine \in Machines /\ probed \in 0 .. Len(machine.floppies) + Len(machine.drives)
  /\ \A i, j \in DOMAIN devices : Id(devices[i]) = Id(devices[j]) => i = j
  /\ Len(nodes) <= NodeSlots /\ \A i \in DOMAIN nodes : GetDevice(nodes[i].id) # Nothing
  /\ \A i \in DOMAIN systems : /\ systems[i].tag \in Tags \union {Nothing}
                               /\ systems[i].enabled \in BOOLEAN
                               /\ systems[i].count \in 0 .. MaxCount
  /\ \A i \in DOMAIN mounts :
       /\ mounts[i].enabled \in BOOLEAN /\ mounts[i].system \in 0 .. SystemSlots
       /\ mounts[i].name \in Names \union {Nothing, "DEVICE"}
       /\ mounts[i].heap \in Nat /\ mounts[i].lost \in Nat
  /\ super \in 0 .. MountSlots

\* A file system is not taken away under a mount (vfs_unregister_filesystem
\* trusts a count that sys_mount keeps on every path, also on those that fail),
\* and a name stands for one mount, however often it was mounted again.
MountsBacked ==
  /\ \A i \in Mounted :
       /\ systems[mounts[i].system].enabled
       /\ Cardinality({j \in Mounted : mounts[j].system = mounts[i].system})
            <= systems[mounts[i].system].count
  /\ \A i, j \in Mounted : mounts[i].name = mounts[j].name => i = j

\* A path begins at the root of the mount it names: at the supernode of the file
\* system that is in the slot, also after a mount over another one that failed
\* (sys_mount writes system and device before it knows), and with that mount,
\* although a later mount of the same system has written its own to the supernode.
RootBelongs ==
  \A i \in Mounted : mounts[i].root # Nothing =>
    LET root == Lookup(mounts[i].name, << >>)
    IN  /\ mounts[i].root = Tag(mounts[i])
        /\ root.kind = "dir" /\ root.mount = i

\* device_register: every device in the list is found under its own name,
\* unless there was no room for its file.
DeviceReachable ==
  Len(nodes) < NodeSlots => \A i \in DOMAIN devices : Opened(devices[i].name) = devices[i]

\* The bytes a drive or partition has at an offset.
Bytes(drive, start, offset, n) ==
  BytesAt(<<IDE, drive.minor>>, start * SectorSize + offset, n)

\* Partitions beyond the sixteenth of a drive have minor numbers of the next.
Numbered == \A k \in DOMAIN machine.drives :
              Len(DevicesOf(machine.drives[k])) - 1 <= PartitionsPerDrive

\* A read from the beginning of a sector returns the bytes of the drive or
\* partition whose file was opened, no less than there are and none behind the
\* end, if no drive has more partitions than minor numbers.
BlockReadRight ==
  Booted /\ Len(nodes) < NodeSlots /\ Numbered =>
    \A k \in DOMAIN machine.drives :
      LET drive == machine.drives[k]
          table == IF drive.signed THEN TableAt(drive, 0) ELSE << >>
      IN  \A i \in 0 .. Len(table) :
            LET name  == IF i = 0 THEN drive.name ELSE Append(drive.name, ToString(i - 1))
                start == IF i = 0 THEN 0 ELSE table[i].start
                end   == IF i = 0 THEN drive.size ELSE table[i].size
                dev   == Opened(name)
            IN  \A s \in 0 .. end, size \in 1 .. SectorSize + 1 :
                  LET offset == s * SectorSize
                      left   == end * SectorSize - offset
                      n      == IF i = 0 \/ size <= left THEN size ELSE left
                  IN  start * SectorSize + offset + size <= drive.size * SectorSize =>
                        BlockRead(devices, dev, offset, size) =
                          [n |-> n, data |-> Bytes(drive, start, offset, n)]

\* The byte at a position of a device.
OnDisk(dev, position) ==
  IF dev.major = HDC THEN <<<<IDE, dev.on>>, dev.start * SectorSize + position>>
  ELSE <<Id(dev), position>>

FatMounted == {i \in Mounted : mounts[i].root = "fat12"}

\* The FAT entries of the first n clusters of a chain are still in memory.
ChainKept(v, lost, cluster, n) ==
  \A k \in 0 .. n - 1 : EntryAt(Skipped(v, 0, cluster, k)) >= lost

\* fat12_read: a read inside a file returns the bytes of the file at that
\* offset, as long as the part of the FAT it needs is in memory, the clusters of
\* the file follow one another and the disk takes reads inside a sector.  It
\* takes a partition whose minor number leads to its own drive, and nothing that
\* ends behind a floppy: all that was asked for is read, not what the file has.
FatReadRight ==
  \A i \in FatMounted :
    LET m == mounts[i]
        v == Volume(m)
    IN  v.reserved = 1 =>
        \A file \in {e \in FileEntries(v) : Contiguous(v, e)} :
          \A offset \in 0 .. file.size - 1 :
            LET left == file.size - offset
            IN  /\ m.dev.major = FDC \/ offset % SectorSize = 0
                /\ m.dev.major = HDC => m.dev.minor \div PartitionsPerDrive = m.dev.on
                /\ ChainKept(v, m.lost, file.cluster, offset \div SectorSize)
                => \A size \in 1 .. left + 1 :
                     LET n == IF size > left THEN left ELSE size
                     IN  \/ m.dev.major = FDC /\ FileByte(v, file, offset) + size >
                                                   m.dev.size * SectorSize
                         \/ FatRead(devices, m.dev, v, m.lost, file, offset, size) =
                              [n |-> n, data |-> [j \in 0 .. n - 1 |->
                                 OnDisk(m.dev, FileByte(v, file, offset + j))]]

Ext2Mounted == {i \in Mounted : mounts[i].root = "ext2"}

\* The first n clusters behind one are at some point cluster 2, where a search of a
\* directory ends, although it is data.
PassesTwo(v, lost, cluster, n) ==
  \E k \in 1 .. n : Skipped(v, lost, cluster, k) = 2

\* A search of a directory finds the entry with the name, and its inode, if
\* there is one (finddir of FAT12 and Ext2).  Excepted: what lies behind a part
\* of the FAT that is lost, by the buffer of the search at the latest, or in and
\* behind cluster 2, and in Ext2 inodes of groups that are not counted,
\* directories with more blocks than are read, and names behind one of the same
\* length or one they begin with.
FindRight ==
  /\ \A i \in FatMounted :
       LET v    == Volume(mounts[i])
           lost == LostAfter(mounts[i], SectorSize)
       IN  \A dir \in {0} \union DOMAIN v.dirs :
             LET entries == FatEntries(v, dir)
             IN  \A k \in DOMAIN entries :
                   LET n == (k - 1) \div EntriesPerDirSector
                   IN  \/ dir = 0
                       \/ ChainKept(v, lost, dir, n) /\ ~ PassesTwo(v, lost, dir, n)
                       => FatFind(v, lost, dir, entries[k].name) = Found(entries[k])
  /\ \A i \in Ext2Mounted :
       LET m == mounts[i]
           v == Volume(m)
       IN  \A dir \in {d \in Ext2Dirs(v) : Described(v, d) /\ Ext2Inode(v, d).blocks <= DirectBlocks} :
             LET entries == Ext2Entries(v, dir)
             IN  \A k \in DOMAIN entries :
                   /\ Described(v, entries[k].ino)
                   /\ \A j \in 1 .. k - 1 : Differs(entries[j], entries[k].name)
                   => /\ Ext2Find(devices, m.dev, v, dir, entries[k].name)
                           = FoundInode(entries[k].ino)
                      /\ ReadInode(devices, m.dev, v, entries[k].ino).id = entries[k].ino

\* readdir and finddir of a file system agree, called one after the other as in
\* readdir() of kernel.c: the entry the first comes to is one the second finds, in
\* FAT12 up to cluster 2 and to what is lost by the buffers of the two, in Ext2 the
\* one its search stops at first.  In devfs and Ext2 it is the one the caller has;
\* FAT12 and CybFS keep theirs to themselves (see ListingIsNamed).
ListedIsFound ==
  /\ \A k \in DOMAIN nodes : DevfsFind(DevfsReadDir(k - 1)) = DeviceNode(nodes[k].id)
  /\ \A dir \in {CybfsLayout[i][1] : i \in DOMAIN CybfsLayout}, k \in 0 .. 9 :
       LET i == CybfsReadDir(dir, k)
       IN  i # Nothing => CybfsFind(dir, << CybfsLayout[i][2] >>) = i
  /\ \A i \in FatMounted :
       LET m == mounts[i]
           v == Volume(m)
           lost == LostAfter(m, 2 * SectorSize)
           Entry(dir, k) == FatReadDir(v, m.lost, dir, k)
       IN  \A dir \in {0} \union DOMAIN v.dirs, n \in 0 .. Cardinality(DOMAIN v.next) :
             LET far == n \div EntriesPerDirSector
             IN  /\ \A k \in 0 .. n : Entry(dir, k) \notin {Nothing, Unknown}
                 /\ \/ dir = 0
                    \/ ChainKept(v, lost, dir, far) /\ ~ PassesTwo(v, lost, dir, far)
                 => FatFind(v, lost, dir, Entry(dir, n).name).result = "found"
  /\ \A i \in Ext2Mounted :
       LET m == mounts[i]
           v == Volume(m)
       IN  \A dir \in {d \in Ext2Dirs(v) : Described(v, d)} :
             LET listed == Ext2Listed(devices, m.dev, v, dir)
             IN  \A k \in DOMAIN listed : \E j \in 1 .. k :
                   /\ \A l \in 1 .. j - 1 : Differs(listed[l], listed[k].name)
                   /\ ~ Differs(listed[j], listed[k].name)
                   /\ Ext2Find(devices, m.dev, v, dir, listed[k].name)
                        = IF ReadInode(devices, m.dev, v, listed[j].ino) = Nothing THEN AnyInode
                          ELSE FoundInode(listed[j].ino)

\* "File cannot be found (huh?)" (readdir() of kernel.c): what a directory lists,
\* from the root of a mount on, can be looked up, as its entry has a name.
ListingIsNamed ==
  \A i \in Mounted : mounts[i].root # Nothing =>
    \A index \in 0 .. 9 : ReadDir(SuperNode(i), index) # AnyName

\* "Iterate until we find the correct name" (ext2_finddir): a name in the root
\* directory of an Ext2 file system leads to the inode of its entry.
LookupRight ==
  \A i \in Ext2Mounted : \A e \in Range(Ext2Entries(Volume(mounts[i]), RootInode)) :
    e.ino # 0 /\ e.name \notin {<< "." >>, << ".", "." >>}
    => Lookup(mounts[i].name, << e.name >>).ino = e.ino
=============================================================================
