---------------------------- MODULE BlockDevices ----------------------------
(***************************************************************************)
(* What a read of a block device puts into the caller's buffer: floppy     *)
(* drives (fdc_block_read), IDE drives (ide.c, ata.c) and partitions       *)
(* (partitions.c), and the devices a drive and its partition table lead    *)
(* to.  A byte is named by where it is on a disk, <<disk, position>>; a    *)
(* read yields the number it returns and a function from positions in the  *)
(* buffer to bytes.  A sector has SectorSize bytes (512), and a byte holds *)
(* numbers up to half of that (256).                                       *)
(***************************************************************************)
EXTENDS Integers, Sequences, TLC, SequencesExt

CONSTANTS SectorSize,
          AtaHeads, AtaSectors,  \* CHS geometry (16 and 63)
          Lba28,                 \* sectors that 28 bits can address
          PartitionsPerDrive,    \* minor numbers of a drive's partitions (16)
          Nesting,               \* bound: extended partitions in one another
          Nothing

ASSUME BlockAssumption ==
  /\ SectorSize \in Nat \ {0} /\ SectorSize % 2 = 0
  /\ AtaHeads \in Nat \ {0} /\ AtaSectors \in Nat \ {0} /\ Lba28 \in Nat
  /\ PartitionsPerDrive \in Nat \ {0} /\ Nesting \in Nat
  /\ Nothing \notin Nat

FDC == "fdc"   \* DEV_MAJOR_FDC
IDE == "ide"   \* DEV_MAJOR_IDE
HDC == "hdc"   \* DEV_MAJOR_HDC

Uint8(n) == n % (SectorSize \div 2)

\* n bytes of a disk from a position on.
BytesAt(disk, position, n) == [i \in 0 .. n - 1 |-> <<disk, position + i>>]

\* A read that does not come back: a seek to a cylinder the disk has not, or a
\* size below 0, which as an unsigned number is copied far behind the buffer.
Runaway == [n |-> Nothing, data |-> << >>]

\* fdc_block_read: up to the end of the sector.
FloppyRead(dev, offset, size) ==
  LET rest == offset % SectorSize
      n    == IF size + rest > SectorSize THEN SectorSize - rest ELSE size
  IN  IF offset >= dev.size * SectorSize THEN Runaway
      ELSE [n |-> n, data |-> BytesAt(<<FDC, dev.minor>>, offset, n)]

----------------------------------------------------------------------------
(* IDE drives *)

\* Mutant: the sector in the address is counted from 0.
AtaSectorFromZero(drive, lba) ==
  LET sect == lba % AtaSectors
      cyl  == (lba - sect) \div (AtaHeads * AtaSectors)
      head == ((lba - sect) % (AtaHeads * AtaSectors)) \div AtaSectors
  IN  IF lba >= Lba28 THEN IF drive.lba48 THEN lba ELSE Nothing
      ELSE IF drive.lba THEN lba
      ELSE (cyl * AtaHeads + head) * AtaSectors + sect - 1

\* The sector a drive accesses for the address ide_ata_access writes to its
\* registers: 48 bit, 28 bit or cylinder, head and sector.
AtaSector(drive, lba) ==
  LET sect == (lba % AtaSectors) + 1
      cyl  == (lba + 1 - sect) \div (AtaHeads * AtaSectors)
      head == ((lba + 1 - sect) % (AtaHeads * AtaSectors)) \div AtaSectors
  IN  IF lba >= Lba28 THEN IF drive.lba48 THEN lba ELSE Nothing
      ELSE IF drive.lba THEN lba
      ELSE (cyl * AtaHeads + head) * AtaSectors + sect - 1

\* ide_sector_read: a byte of one sector; behind the end of the drive what was
\* in the buffer before.  (Its result is not looked at.)
SectorByte(drive, lba, i) ==
  LET sector == AtaSector(drive, lba)
  IN  IF sector = Nothing \/ lba >= drive.size THEN Nothing
      ELSE <<<<IDE, drive.minor>>, sector * SectorSize + i>>

\* ide_block_read: the rest of the first sector if the offset is inside one,
\* then full sectors, then the beginning of the last.  The offset in the first
\* sector is kept in a byte, and counted as what was read of that sector.
DriveRead(drive, offset, size) ==
  LET inside == offset % SectorSize
      rest   == Uint8(inside)
      skip   == IF inside > 0 THEN rest ELSE 0
      first  == offset \div SectorSize
      lba    == IF inside > 0 THEN first + 1 ELSE first
      before == IF inside > 0 THEN 0 .. SectorSize - rest - 1 ELSE {}
      after  == skip .. size - 1
  IN  IF size < skip THEN Runaway
      ELSE [n |-> size, data |-> [i \in before \union after |->
              IF i \in after
              THEN SectorByte(drive, lba + ((i - skip) \div SectorSize), (i - skip) % SectorSize)
              ELSE SectorByte(drive, first, rest + i)]]

----------------------------------------------------------------------------
(* Partitions *)

\* The size that is left of a read in a partition; it may be below 0.
InPartition(p, offset, size) ==
  IF offset + size > p.size * SectorSize THEN p.size * SectorSize - offset ELSE size

\* ide_partition_block_read.  The drive is found through the minor number; a
\* drive that is not there is not noticed, its NULL pointer is followed.
PartitionRead(devices, p, offset, size) ==
  LET n      == InPartition(p, offset, size)
      drives == {i \in DOMAIN devices : /\ devices[i].major = IDE
                                        /\ devices[i].minor = p.minor \div PartitionsPerDrive}
  IN  IF offset > (p.start + p.size) * SectorSize THEN [n |-> 0, data |-> << >>]
      ELSE IF n < 0 \/ drives = {} THEN Runaway
      ELSE DriveRead(devices[Min(drives)], offset + p.start * SectorSize, n)

BlockRead(devices, dev, offset, size) ==
  CASE dev.major = FDC -> FloppyRead(dev, offset, size)
    [] dev.major = IDE -> DriveRead(dev, offset, size)
    [] dev.major = HDC -> PartitionRead(devices, dev, offset, size)

\* ide_read_partition_table: the partitions of the table in a sector, each
\* extended one followed by those of its own table, as it is met.
TableAt(drive, sector) ==
  LET Walk[n \in 0 .. Nesting] ==
        [s \in DOMAIN drive.tables |->
           FlattenSeq([i \in DOMAIN drive.tables[s] |->
             LET e == drive.tables[s][i]
                 p == [start |-> s + e.first, size |-> e.size]
             IN  IF e.type = "none" THEN << >>
                 ELSE IF e.type = "extended" /\ n > 0
                      THEN <<p>> \o Walk[n - 1][s + e.first]
                 ELSE <<p>>])]
  IN  Walk[Nesting][sector]

Partition(drive, minor, i, p) ==
  [major |-> HDC, minor |-> minor, name |-> Append(drive.name, ToString(i)),
   start |-> p.start, size |-> p.size, on |-> drive.minor]

\* The devices ide_init_drive and ide_read_partition_table register, in order.
DevicesOf(drive) ==
  LET parts == IF drive.signed THEN TableAt(drive, 0) ELSE << >>
  IN  <<drive>> \o [i \in DOMAIN parts |->
        Partition(drive, drive.minor * PartitionsPerDrive + i - 1, i - 1, parts[i])]
=============================================================================
