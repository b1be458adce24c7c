-------------------------------- MODULE Ext2 --------------------------------
(***************************************************************************)
(* The Ext2 file system (vfs/ext2.c) as functions on a volume with blocks  *)
(* of 1024 bytes, that is 2 sectors: where an inode is, and the search of  *)
(* a directory, which is read into memory as a whole.                      *)
(*                                                                         *)
(* A volume v has v.inodeCount inodes in groups of v.perGroup, whose inode *)
(* tables start at the blocks v.tables; v.inode gives what is stored at a  *)
(* place <<block, index>>, v.entries the directory entries in a block.     *)
(* A name is a sequence of letters, an inode has its number with it.       *)
(***************************************************************************)
EXTENDS BlockDevices, FiniteSets

CONSTANTS InodesPerBlock,  \* 8
          DirectBlocks,    \* 12
          Ext2InfoBytes    \* the size of an ext2_info_t: 36

ASSUME Ext2Assumption ==
  InodesPerBlock \in Nat \ {0} /\ DirectBlocks \in Nat /\ Ext2InfoBytes \in Nat

RootInode  == 2
BlockBytes == 2 * SectorSize

\* ext2_read_block: the block was read in full.
ReadsBlock(devices, dev, block) ==
  BlockRead(devices, dev, block * BlockBytes, BlockBytes).n = BlockBytes

\* The number of descriptors, which is computed from the first data block: 2.
GroupDescriptors == 2

\* Mutant: inode numbers are counted from 0.
InodePlaceFromZero(v, ino) ==
  LET group == ino \div v.perGroup
      index == ino % v.perGroup
  IN  IF ino = 0 \/ ino > v.inodeCount \/ group > GroupDescriptors THEN Nothing
      ELSE <<v.tables[group + 1] + index \div InodesPerBlock, index % InodesPerBlock>>

\* ext2_read_inode: the block and the index in it, or nothing.
InodePlace(v, ino) ==
  LET group == (ino - 1) \div v.perGroup
      index == (ino - 1) % v.perGroup
  IN  IF ino = 0 \/ ino > v.inodeCount \/ group > GroupDescriptors THEN Nothing
      ELSE <<v.tables[group + 1] + index \div InodesPerBlock, index % InodesPerBlock>>

ReadInode(devices, dev, v, ino) ==
  LET place == InodePlace(v, ino)
  IN  IF place = Nothing THEN Nothing
      ELSE IF ~ ReadsBlock(devices, dev, place[1]) \/ place \notin DOMAIN v.inode
      THEN Nothing
      ELSE v.inode[place]

\* ext2_mount: superblock, descriptors and the root's inode can be read.
Ext2Mounts(devices, dev, v) ==
  /\ BlockRead(devices, dev, BlockBytes, BlockBytes).n = BlockBytes
  /\ ReadsBlock(devices, dev, 2)

\* The bytes ext2_mount allocates: for its record, the superblock, the
\* descriptors, and the root's inode with the block it is in.
Ext2Uses(devices, dev, v) ==
  LET super == Ext2InfoBytes + BlockBytes
  IN  IF BlockRead(devices, dev, BlockBytes, BlockBytes).n # BlockBytes THEN super
      ELSE IF ~ ReadsBlock(devices, dev, 2) THEN super + BlockBytes
      ELSE IF ReadInode(devices, dev, v, RootInode) = Nothing THEN super + 2 * BlockBytes
      ELSE super + 2 * BlockBytes + BlockBytes \div InodesPerBlock

\* The blocks of a directory that are read: those up to the first pointer that
\* is 0.
UsedBlocks(inode) ==
  Cardinality({i \in 1 .. inode.blocks :
                 \A j \in 1 .. i : j <= DirectBlocks /\ inode.pointers[j] # 0})

\* The directory comes to be in memory, unless it has more blocks than there are
\* pointers for, or one of them cannot be read.
ReadsDirectory(devices, dev, inode) ==
  /\ UsedBlocks(inode) # DirectBlocks \/ inode.blocks <= DirectBlocks
  /\ \A i \in 1 .. UsedBlocks(inode) : ReadsBlock(devices, dev, inode.pointers[i])

\* Its entries in memory.
DirectoryEntries(v, inode) ==
  FlattenSeq([i \in 1 .. UsedBlocks(inode) |-> v.entries[inode.pointers[i]]])

\* The condition under which the search goes on: all three have to hold.
Differs(entry, name) ==
  /\ entry.ino # 0
  /\ Len(entry.name) # Len(name)
  /\ ~ IsPrefix(entry.name, name)

\* What ext2_finddir can come to: an inode number, NULL, or no telling, if the
\* walk leaves the buffer or an inode that is not there is used.
FoundInode(ino) == [result |-> "found", ino |-> ino]
NoInode         == [result |-> "end", ino |-> Nothing]
AnyInode        == [result |-> "unknown", ino |-> Nothing]

\* The first entry the search stops at, or nothing.
Stop(entries, name) ==
  LET stops == {i \in DOMAIN entries : ~ Differs(entries[i], name)}
  IN  IF stops = {} THEN Nothing
      ELSE entries[Min(stops)]

AtStop(devices, dev, v, entry) ==
  IF entry = Nothing THEN AnyInode
  ELSE IF entry.ino = 0 THEN NoInode
  ELSE IF ReadInode(devices, dev, v, entry.ino) = Nothing THEN AnyInode
  ELSE FoundInode(entry.ino)

\* ext2_finddir.
Ext2Find(devices, dev, v, dirIno, name) ==
  LET dir == ReadInode(devices, dev, v, dirIno)
  IN  IF dir = Nothing THEN AnyInode
      ELSE IF ~ ReadsDirectory(devices, dev, dir) THEN NoInode
      ELSE AtStop(devices, dev, v, Stop(DirectoryEntries(v, dir), name))

\* The entries before the first that ends the directory.
BeforeEnd(entries) ==
  LET ends == {i \in DOMAIN entries : entries[i].ino = 0}
      last == Min(ends) - 1
  IN  IF ends = {} THEN entries ELSE SubSeq(entries, 1, last)

\* ext2_readdir: the entries there are until it returns NULL or leaves the
\* buffer, with the indices 0, 1 and so on.
Ext2Listed(devices, dev, v, dirIno) ==
  LET dir == ReadInode(devices, dev, v, dirIno)
  IN  IF dir = Nothing THEN << >>
      ELSE IF ~ ReadsDirectory(devices, dev, dir) THEN << >>
      ELSE BeforeEnd(DirectoryEntries(v, dir))
----------------------------------------------------------------------------
(* A volume by the format *)

\* The inode with a number, and the entries of a directory: those of its blocks.
Ext2Inode(v, ino) == v.inode[CHOOSE place \in DOMAIN v.inode : v.inode[place].id = ino]
Ext2Dirs(v)       == {ino \in {v.inode[p].id : p \in DOMAIN v.inode} : Ext2Inode(v, ino).dir}
Ext2Entries(v, ino) ==
  LET inode == Ext2Inode(v, ino)
  IN  FlattenSeq([i \in 1 .. inode.blocks |-> v.entries[inode.pointers[i]]])

\* The blocks of inode tables and directories.
Ext2Blocks(v) ==
  {place[1] : place \in DOMAIN v.inode} \union
  UNION {LET inode == Ext2Inode(v, ino) IN {inode.pointers[i] : i \in 1 .. inode.blocks} :
           ino \in Ext2Dirs(v)}

\* The groups whose descriptors ext2_mount counts.
Described(v, ino) == ino # 0 /\ (ino - 1) \div v.perGroup <= GroupDescriptors

\* What a formatted volume is: an inode lies in the table of its group, which
\* holds so many of them, a directory has a block for each pointer, and an entry
\* leads to an inode.
Ext2Formatted(v) ==
  /\ v.inodeCount \in Nat /\ v.perGroup \in Nat \ {0}
  /\ Ext2Blocks(v) \subseteq Nat
  /\ Nothing \notin DOMAIN v.inode /\ Nothing \notin Range(v.inode)
  /\ \A place \in DOMAIN v.inode :
       LET ino   == v.inode[place].id
           index == (ino - 1) % v.perGroup
       IN  /\ ino \in 1 .. v.inodeCount
           /\ place = << v.tables[(ino - 1) \div v.perGroup + 1] + index \div InodesPerBlock,
                         index % InodesPerBlock >>
  /\ \A ino \in Ext2Dirs(v) :
       LET inode == Ext2Inode(v, ino)
       IN  /\ inode.blocks \in Nat /\ inode.pointers \in Seq(Nat)
           /\ inode.blocks <= Len(inode.pointers)
           /\ \A i \in 1 .. inode.blocks :
                LET entries == v.entries[inode.pointers[i]]
                IN  /\ inode.pointers[i] # 0 /\ entries \in Seq(Range(entries))
                    /\ \A e \in Range(entries) :
                         /\ e # Nothing
                         /\ e.ino = 0 \/ \E p \in DOMAIN v.inode : v.inode[p].id = e.ino
=============================================================================
