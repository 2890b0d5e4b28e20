------------------------------ MODULE MCFat16 -------------------------------
(***************************************************************************)
(* Sectors of four bytes, clusters of two sectors, entries of one byte:    *)
(* eight slots in a cluster.  A disk as vfat writes it, with the entries   *)
(* of long names and those of a directory and its parent, a file of one    *)
(* cluster, a file in two clusters that are apart and a directory with a   *)
(* program of its own; one whose root holds a deleted entry before the     *)
(* directory of programs; one where a deleted entry precedes the programs; *)
(* one with the names that are misread: eight characters with an           *)
(* extension, an extension of three with the attribute of a read-only      *)
(* file, a long name that reads like a file's; one with a directory of two *)
(* clusters; and one with an empty directory.                              *)
(***************************************************************************)
EXTENDS Fat16, TLC

Pad(s, n) == [i \in 1..n |-> IF i \in DOMAIN s THEN s[i] ELSE Space]
File(base, ext, attribute, first, size) ==
  [filename |-> Pad(base, 8), extension |-> Pad(ext, 3), attribute |-> attribute,
   rest |-> <<24>>, first |-> first, size |-> size]
Directory(base, first) == File(base, <<>>, 16, first, 0)

\* One slot of a long name, with its characters in 16 bits.
Long(a, b, c) ==
  [filename |-> <<65, a, 0, b, 0, c, 0, 0>>, extension |-> <<0, 255, 255>>, attribute |-> 15,
   rest |-> <<>>, first |-> 0, size |-> 4]

Row(start, entries) ==
  [a \in {start + (k - 1) * EntrySize : k \in DOMAIN entries} |->
     entries[((a - start) \div EntrySize) + 1]]
AtCluster(c, entries) == Row(cluster_to_sector(c) * SectorSize, entries)

Elf == <<69, 76, 70>>
BinName == <<66, 73, 78>>
Eight == <<65, 66, 67, 68, 69, 70, 71, 72>>
Itself(c) == <<Directory(<<46>>, c), Directory(<<46, 46>>, 0)>>

\* Files at clusters 2 and 3, of which the second goes on at 5, directories
\* at 4, 7 and 9.  The two bytes before the FAT end the boot sector.
Table == -1 :> 43605 @@ 0 :> 65528 @@ 1 :> 65535 @@ 2 :> 65535 @@ 3 :> 5 @@ 4 :> 65535 @@ 5 :> 65535
           @@ 6 :> 0 @@ 7 :> 8 @@ 8 :> 65535 @@ 9 :> 65535

BootSector == Row(0, <<File(<<235, 60, 144>>, <<>>, 0, 0, 0)>>)
RootOf(entries) == BootSector @@ Row(RootPos, entries)

BinAt(c) == <<Long(98, 105, 110), Directory(BinName, c)>>
S == File(<<83>>, Elf, ARCHIVED, 2, 7)
L == File(<<76>>, Elf, 0, 3, 19)
Gone == File(<<DELETED, 71>>, Elf, ARCHIVED, 5, 3)
Programs == Itself(4) \o <<Long(115, 46, 101), S, L, Directory(<<68>>, 9)>>
Sub == AtCluster(9, Itself(9) \o <<File(<<83>>, Elf, ARCHIVED, 3, 19)>>)

MCLayouts ==
  {[slots |-> slots, fat |-> Table] : slots \in
     {RootOf(BinAt(4) \o <<S>>) @@ AtCluster(4, Programs) @@ Sub,
      RootOf(<<Gone>> \o BinAt(4)) @@ AtCluster(4, Programs) @@ Sub,
      RootOf(BinAt(4)) @@ AtCluster(4, <<Gone, S, L>>),
      RootOf(BinAt(4)) @@
        AtCluster(4, <<File(Eight, Elf, ARCHIVED, 2, 7), File(<<83>>, Elf, 33, 2, 7),
                       Long(115, 46, 101), File(<<65, 83>>, <<>>, ARCHIVED, 3, 19)>>),
      RootOf(BinAt(7)) @@
        AtCluster(7, Itself(7) \o [k \in 1..5 |-> Long(98, 46, 101)]
                       \o <<Directory(<<68>>, 9), S, L>>) @@ Sub,
      RootOf(BinAt(9))}}

\* s.elf, bin/s.elf, bin/l.elf, bin/x.elf, bin/d/s.elf, bin/s.elf/s.elf, bin/d,
\* bin/x/s.elf, bin/../bin, bin/abcdefgh.elf, bin/abcdefghelf.elf and bin/as,
\* in lower case.
Bin == <<98, 105, 110>>
Named(base) == base \o <<46, 101, 108, 102>>
EightLower == <<97, 98, 99, 100, 101, 102, 103, 104>>
MCPaths ==
  {<<Named(<<115>>)>>, <<Bin, Named(<<115>>)>>, <<Bin, Named(<<108>>)>>, <<Bin, Named(<<120>>)>>,
   <<Bin, <<100>>, Named(<<115>>)>>, <<Bin, Named(<<115>>), Named(<<115>>)>>,
   <<Bin, <<100>> >>, <<Bin, <<120>>, Named(<<115>>)>>, <<Bin, <<46, 46>>, Bin>>,
   <<Bin, Named(EightLower)>>, <<Bin, Named(EightLower \o <<101, 108, 102>>)>>,
   <<Bin, <<97, 115>> >>}
=============================================================================
