-------------------------------- MODULE MCVfs --------------------------------
(* Two machines and the four volumes on their devices, scaled down; file B    *)
(* ends where the floppy does.                                               *)
EXTENDS Vfs

Disk(minor, name, size, lba, tables) ==
  [major |-> IDE, minor |-> minor, name |-> << name >>, size |-> size, lba |-> lba,
   lba48 |-> lba, signed |-> TRUE, tables |-> tables]

FloppyDrive(minor, name) == [major |-> FDC, minor |-> minor, name |-> << name >>, size |-> 15]

Entry(type, first, size) == [type |-> type, first |-> first, size |-> size]

\* The first machine has as many partitions as minor numbers; the second, whose
\* drives are elsewhere, one more on its first drive, and in the end more devices
\* than devfs has room for.
MCMachines ==
  LET Small(minor, name) ==
        Disk(minor, name, 9, FALSE, 0 :> << Entry("primary", 1, 4), Entry("primary", 5, 4) >>)
      Large(minor, name, logical) ==
        Disk(minor, name, 52, TRUE,
             0 :> << Entry("none", 0, 0), Entry("primary", 2, 16), Entry("primary", 18, 26),
                     Entry("extended", 44, 6) >> @@ 44 :> logical)
  IN  { [floppies |-> << FloppyDrive(0, "FLOPPY0"), FloppyDrive(1, "FLOPPY1") >>,
         drives |-> << Large(0, "IDE0C0D0", << Entry("primary", 1, 2) >>),
                       Small(1, "IDE0C0D1") >>],
        [floppies |-> << >>,
         drives |-> << Large(2, "IDE0C1D0", << Entry("primary", 1, 2), Entry("primary", 3, 1) >>),
                       Small(3, "IDE0C1D1"),
                       Large(4, "IDE1C0D0", << Entry("primary", 1, 2) >>) >>] }

File(name, cluster, size) == [name |-> name, cluster |-> cluster, size |-> size, dir |-> FALSE]

FatVolume ==
  [fats |-> 2, spf |-> 3, reserved |-> 1,
   root |-> << << File(<<"A">>, 2, 10),
                  [name |-> <<"D">>, cluster |-> 6, size |-> 0, dir |-> TRUE] >>,
               << File(<<"B">>, 7, 4), Nothing >> >>,
   dirs |-> 6 :> << File(<<"X">>, 7, 3), File(<<"Y">>, 4, 2) >> @@
            5 :> << File(<<"Z">>, 3, 8), Nothing >>,
   next |-> 2 :> 3 @@ 3 :> 4 @@ 4 :> 99 @@ 5 :> 99 @@ 6 :> 5 @@ 7 :> 99]

Inode(id, dir, blocks, pointers) ==
  [id |-> id, dir |-> dir, blocks |-> blocks, pointers |-> pointers]

Named(ino, name) == [ino |-> ino, name |-> name]

Ext2Volume ==
  [inodeCount |-> 16, perGroup |-> 4, tables |-> << 3, 5, 7, 9 >>,
   inode |-> <<3, 1>> :> Inode(2, TRUE, 1, << 11 >>) @@
             <<4, 0>> :> Inode(3, FALSE, 0, << >>) @@
             <<5, 1>> :> Inode(6, TRUE, 2, << 12, 4 >>) @@
             <<7, 1>> :> Inode(10, FALSE, 0, << >>) @@
             <<9, 0>> :> Inode(13, FALSE, 0, << >>),
   entries |-> 11 :> << Named(2, <<".">>), Named(2, <<".", ".">>), Named(3, <<"a", "b", "c">>),
                        Named(6, <<"a", "b", "c", "d">>), Named(10, <<"v", "w", "x", "y", "z">>),
                        Named(0, << >>) >> @@
               12 :> << Named(6, <<".">>), Named(2, <<".", ".">>),
                        Named(13, <<"i", "n", "i", "t">>) >> @@
               4  :> << Named(10, <<"m", "a", "k", "e", "r">>) >>]

MCVolumeOn ==
  <<FDC, 0>> :> [fs |-> "fat12", volume |-> FatVolume] @@
  <<FDC, 1>> :> [fs |-> "ext2", volume |-> Ext2Volume] @@
  <<HDC, 0>> :> [fs |-> "fat12", volume |-> FatVolume] @@
  <<HDC, 1>> :> [fs |-> "ext2", volume |-> Ext2Volume]

\* Names are only compared.
NameSymmetry == Permutations(Names)
=============================================================================
