-------------------------------- MODULE Fat12 --------------------------------
(***************************************************************************)
(* The FAT12 file system (vfs/fat12.c) as functions on a volume: where its *)
(* parts are, the search of a directory and the read of a range of a file. *)
(*                                                                         *)
(* A volume v has v.fats copies of a FAT of v.spf sectors behind           *)
(* v.reserved sectors, v.root, the sectors of its root directory, v.dirs,  *)
(* the sectors of its other directories by cluster, and v.next, the chains.*)
(* A directory sector is a sequence of entries; Nothing is the end mark.   *)
(* There are no hidden sectors, as on a floppy disk.                       *)
(*                                                                         *)
(* The copy of the FAT in memory lies in a block of 0 bytes: its size in   *)
(* bytes is kept in a byte.  What is allocated afterwards lies over it, so *)
(* its first bytes, as many as `lost' says, may be anything.               *)
(***************************************************************************)
EXTENDS BlockDevices, FiniteSets

CONSTANTS EntriesPerDirSector,  \* 16
          ReservedFrom,         \* cluster numbers that are not data: from 0xFF8
          FatInfoBytes,         \* the size of a fat12_fatinfo_t: 40
          BpbBytes              \* the size of a fat12_bpb_t: 64

ASSUME FatAssumption ==
  /\ EntriesPerDirSector \in Nat \ {0} /\ ReservedFrom \in Nat
  /\ FatInfoBytes \in Nat /\ BpbBytes \in Nat

\* The first sector of the root directory, as if one sector was reserved, and
\* of cluster 0, as clusters are counted from 2.
RootOffset(v) == v.fats * v.spf + 1
DataOffset(v) == RootOffset(v) + Len(v.root) - 2
FatOffset(v)  == v.reserved

\* The bytes of a FAT, and where in it the two of an entry begin.
FatBytes(v)      == v.spf * SectorSize
EntryAt(cluster) == cluster + cluster \div 2

ReadsSector(devices, dev, s) ==
  BlockRead(devices, dev, s * SectorSize, SectorSize).n = SectorSize

\* fat12_mount: the boot sector and the FAT can be read.
FatMounts(devices, dev, v) ==
  /\ ReadsSector(devices, dev, 0)
  /\ \A i \in 0 .. v.spf - 1 : ReadsSector(devices, dev, FatOffset(v) + i)

\* What becomes of the heap in fat12_mount: blocks are taken from it, and the
\* FAT is written behind them, up to the first sector that cannot be read.
FatUses(devices, dev, v) ==
  LET taken  == FatInfoBytes + BpbBytes
      copied == {i \in 0 .. v.spf - 1 :
                   \A j \in 0 .. i : ReadsSector(devices, dev, FatOffset(v) + j)}
  IN  [taken |-> taken,
       written |-> IF ReadsSector(devices, dev, 0)
                   THEN taken + Cardinality(copied) * SectorSize ELSE taken]

\* fat12_get_next_cluster, on the copy in memory.
NextCluster(v, lost, cluster) ==
  IF cluster \notin DOMAIN v.next \/ EntryAt(cluster) < lost
  THEN Nothing
  ELSE v.next[cluster]

Found(entry) == [result |-> "found", entry |-> entry]
Ended        == [result |-> "end", entry |-> Nothing]
Unknown      == [result |-> "unknown", entry |-> Nothing]

\* fat12_parse_directory_sector: the first entry that ends the search.
Parse(sector, name) ==
  LET stops == {i \in DOMAIN sector : sector[i] = Nothing \/ sector[i].name = name}
      first == Min(stops)
  IN  IF stops = {} THEN [result |-> "more", entry |-> Nothing]
      ELSE IF sector[first] = Nothing THEN Ended
      ELSE Found(sector[first])

\* Mutant: only the first sector of the root directory is read.
FindInFirstSector(v, name) ==
  LET parsed == Parse(v.root[1], name)
  IN  IF parsed.result = "more" THEN Ended ELSE parsed

\* fat12_finddir in the root directory.
FindInRoot(v, name) ==
  LET ends == {i \in DOMAIN v.root : Parse(v.root[i], name).result # "more"}
  IN  IF ends = {} THEN Ended ELSE Parse(v.root[Min(ends)], name)

\* fat12_finddir in a subdirectory: along its chain as long as there are
\* entries, the clusters are data and the FAT is there.
FindInChain(v, lost, start, name) ==
  LET Search[n \in 0 .. Cardinality(DOMAIN v.next)] ==
        [c \in DOMAIN v.dirs |->
           LET parsed == Parse(v.dirs[c], name)
               next   == NextCluster(v, lost, c)
           IN  IF parsed.result # "more" THEN parsed
               ELSE IF next = Nothing \/ n = 0 THEN Unknown
               ELSE IF next <= 2 \/ next >= ReservedFrom THEN Ended
               ELSE IF next \notin DOMAIN v.dirs THEN Unknown
               ELSE Search[n - 1][next]]
  IN  Search[Cardinality(DOMAIN v.next)][start]

FatFind(v, lost, cluster, name) ==
  IF cluster = 0 THEN FindInRoot(v, name) ELSE FindInChain(v, lost, cluster, name)

\* Mutant: the walk along the chain stops one cluster early.
SkippedOneLess(v, lost, start, n) ==
  LET Skip[k \in 0 .. n] == IF k = 0 THEN start ELSE NextCluster(v, lost, Skip[k - 1])
  IN  Skip[IF n = 0 THEN 0 ELSE n - 1]

\* The cluster n clusters behind one.
Skipped(v, lost, start, n) ==
  LET Skip[k \in 0 .. n] == IF k = 0 THEN start ELSE NextCluster(v, lost, Skip[k - 1])
  IN  Skip[n]

\* The entry with an index that fat12_readdir comes to, Nothing at the end mark,
\* Unknown if the sector is none of the directory's (the root is not bounded, the
\* end of a chain not noticed).  The chain is followed before anything is written
\* to the buffer that has been allocated.
FatReadDir(v, lost, cluster, index) ==
  LET n == index \div EntriesPerDirSector
      c == Skipped(v, lost, cluster, n)
      i == (index % EntriesPerDirSector) + 1
  IN  IF cluster = 0
      THEN IF n < Len(v.root) THEN v.root[n + 1][i] ELSE Unknown
      ELSE IF c \in DOMAIN v.dirs THEN v.dirs[c][i] ELSE Unknown

\* Where the reads of a call begin in the buffer: at 0, and behind a first part
\* up to the end of the cluster at every sector.
Pieces(inside, size) ==
  LET first == IF inside > 0 THEN SectorSize - inside ELSE 0
  IN  (IF inside > 0 THEN {0} ELSE {}) \union
      {p \in first .. size - 1 : (p - first) % SectorSize = 0}

PieceSize(inside, size, p) ==
  IF p = 0 /\ inside > 0 THEN SectorSize - inside
  ELSE IF size - p < SectorSize THEN size - p ELSE SectorSize

\* fat12_read: the chain is followed to the first cluster, what is behind it is
\* read from the sectors that follow.  The size is cut at the end of the file,
\* but all that was asked for is read if it reaches the end of the cluster.
FatRead(devices, dev, v, lost, file, offset, size) ==
  LET cut     == IF offset + size > file.size THEN file.size - offset ELSE size
      inside  == offset % SectorSize
      cluster == Skipped(v, lost, file.cluster, offset \div SectorSize)
      at      == (DataOffset(v) + cluster) * SectorSize + inside
      short   == cut + inside < SectorSize
      starts  == IF short THEN {0} ELSE Pieces(inside, size)
      Part(p) == BlockRead(devices, dev, at + p,
                           IF short THEN cut ELSE PieceSize(inside, size, p))
  IN  IF size = 0 \/ offset > file.size THEN [n |-> 0, data |-> << >>]
      ELSE IF cluster = Nothing THEN [n |-> cut, data |-> [i \in 0 .. cut - 1 |-> Nothing]]
      ELSE IF \E p \in starts : Part(p) = Runaway THEN Runaway
      ELSE [n |-> cut,
            data |-> [i \in 0 .. cut - 1 |->
              LET p == Max({q \in starts : q <= i})
                  d == Part(p).data
              IN  IF i - p \in DOMAIN d THEN d[i - p] ELSE Nothing]]

----------------------------------------------------------------------------
(* A volume by the format *)

\* The sectors of directories, and the entries of files in them.
DirSectors(v) == Range(v.root) \union {v.dirs[c] : c \in DOMAIN v.dirs}
FileEntries(v) ==
  {e \in UNION {Range(s) : s \in DirSectors(v)} : e # Nothing /\ ~ e.dir}

\* The clusters of a file, in the order of its bytes.
FileCluster(v, file, n) ==
  LET Chain[k \in 0 .. n] == IF k = 0 THEN file.cluster ELSE v.next[Chain[k - 1]]
  IN  Chain[n]

\* The last of them has the number that is 0 in the first.
LastOf(file) == (file.size - 1) \div SectorSize

\* Where byte i of a file is: in its chain, behind all that is reserved.
FileByte(v, file, i) ==
  LET data == v.reserved + v.fats * v.spf + Len(v.root)
  IN  (data + FileCluster(v, file, i \div SectorSize) - 2) * SectorSize + (i % SectorSize)

\* The clusters of a file follow one another.
Contiguous(v, file) ==
  \A k \in 0 .. LastOf(file) - 1 : v.next[file.cluster + k] = file.cluster + k + 1

\* The entries of a directory: along its chain up to the end mark.
FatEntries(v, cluster) ==
  LET More[n \in 0 .. Cardinality(DOMAIN v.next)] ==
        [c \in DOMAIN v.dirs |->
           v.dirs[c] \o IF n > 0 /\ v.next[c] \in DOMAIN v.dirs THEN More[n - 1][v.next[c]]
                        ELSE << Nothing >>]
      all == IF cluster = 0 THEN FlattenSeq(v.root) \o << Nothing >>
             ELSE More[Cardinality(DOMAIN v.next)][cluster]
  IN  SubSeq(all, 1, Min({i \in DOMAIN all : all[i] = Nothing}) - 1)

\* What a formatted volume is: its directories are full sectors of entries with
\* different names, chains are made of clusters that are data, and a file has as
\* many of them as its size takes.
FatFormatted(v) ==
  /\ v.fats \in Nat /\ v.spf \in Nat /\ v.reserved \in Nat
  /\ v.root \in Seq(Range(v.root))
  /\ \A s \in DirSectors(v) : s \in Seq(Range(s)) /\ Len(s) = EntriesPerDirSector
  /\ DOMAIN v.next \subseteq 2 .. ReservedFrom - 1
  /\ \A c \in DOMAIN v.next : v.next[c] \in Nat /\ EntryAt(c) + 1 < FatBytes(v)
  /\ DOMAIN v.dirs \subseteq DOMAIN v.next
  /\ \A file \in FileEntries(v) :
       /\ file.size \in Nat
       /\ \A k \in 0 .. LastOf(file) : FileCluster(v, file, k) \in DOMAIN v.next
  /\ \A dir \in {0} \union DOMAIN v.dirs :
       \A i, j \in DOMAIN FatEntries(v, dir) :
         FatEntries(v, dir)[i].name = FatEntries(v, dir)[j].name => i = j
=============================================================================
