------------------------------- MODULE Fat16 --------------------------------
(***************************************************************************)
(* Open files: src/fs/file.c over src/fs/fat/fat16.c over src/disk.        *)
(* A path is the sequence of names that parse_path made of it (see         *)
(* StartCommand); names are ASCII codes.  A byte of a file is its own      *)
(* address: what a read delivers shows where it came from.  A directory is *)
(* a row of slots on the disk, and the bytes that load_directory reads     *)
(* tell which slots it gets.                                               *)
(*                                                                         *)
(* All descriptors read through one stream (cluster_read_stream), whose    *)
(* position outlives the call.                                             *)
(***************************************************************************)
EXTENDS CString, FiniteSets, FiniteSetsExt

CONSTANTS
  SectorSize,          \* ZHIOS_DISK_SECTOR_SIZE (512 in the kernel)
  SectorsPerCluster,   \* of the FAT header (128 on the boot disk)
  EntrySize,           \* sizeof(struct Fat16Entry), 32
  RootStart,           \* root_directory.sector_pos
  DataStart,           \* root_directory.ending_sector_pos
  MaxDescriptors,      \* ZHIOS_MAX_FILE_DESCRIPTORS (256 in the kernel)
  Paths,               \* the paths that are opened
  Layouts,             \* disks: the slots with an entry, and the FAT
  MaxSlots,            \* bound: slots of a directory
  Lengths,             \* bound: sizes of a read, positions of a seek
  MaxPos               \* bound: how far a descriptor is read

ASSUME GeometryAssumption ==
  /\ SectorSize \in Nat \ {0}
  /\ SectorsPerCluster \in Nat \ {0}
  /\ EntrySize \in Nat \ {0} /\ SectorSize % EntrySize = 0
  /\ RootStart \in Nat /\ DataStart \in Nat /\ MaxSlots \in Nat
  /\ MaxDescriptors \in Nat \ {0}
  /\ Lengths \subseteq Nat
  /\ Paths \subseteq Seq(Seq(Byte))

ClusterSize == SectorsPerCluster * SectorSize
Fds == 1..MaxDescriptors

-----------------------------------------------------------------------------
(* The disk.                                                               *)

DELETED == 229       \* 0xE5
ARCHIVED == 32       \* ATTR_ARCHIVED, which is a space
Dot == 46

\* A Fat16Entry: rest are the bytes behind the attribute up to the first NUL.
\* The entries of long names, which vfat writes before the one of a file with
\* a lower-case name, have this form too, with NULs in the fields.
Entry == [filename : [1..8 -> 0..255], extension : [1..3 -> 0..255], attribute : 0..255,
          rest : Seq(Byte), first : Nat, size : Nat]

\* A disk that was never written holds zeros.
BLANK == [filename |-> [i \in 1..8 |-> NUL], extension |-> [i \in 1..3 |-> NUL],
          attribute |-> 0, rest |-> <<>>, first |-> 0, size |-> 0]

IsDirectory(e) == (e.attribute \div 16) % 2 = 1

\* The slot at an address, and the slots of a directory that begins there:
\* a name that begins with NUL ends it.
SlotAt(d, a) == IF a \in DOMAIN d.slots THEN d.slots[a] ELSE BLANK
Slots(d, start) ==
  {k \in 0..MaxSlots : \A j \in 0..k : SlotAt(d, start + j * EntrySize).filename[1] # NUL}

RootPos == RootStart * SectorSize
cluster_to_sector(cluster) == DataStart + (cluster - 2) * SectorsPerCluster

\* The root directory is not full, and every other directory ends.
ASSUME DiskAssumption ==
  \A d \in Layouts :
    /\ \A a \in DOMAIN d.slots : d.slots[a] \in Entry
    /\ MaxSlots \notin Slots(d, RootPos)
    /\ \A k \in Slots(d, RootPos) : RootPos + (k + 1) * EntrySize < DataStart * SectorSize
    /\ \A a \in DOMAIN d.slots : IsDirectory(d.slots[a]) =>
         MaxSlots \notin Slots(d, cluster_to_sector(d.slots[a].first) * SectorSize)

-----------------------------------------------------------------------------
CLOSED == [kind |-> "closed"]     \* file_descriptors[id - 1] = 0
NODATA == [kind |-> "nodata"]     \* a descriptor with private_data = 0
DIRECTORY == [kind |-> "directory"]   \* one whose item is no file
GARBAGE == -1                     \* a byte beyond disk_stream_read's buffer
EIO == 3
NOCALL == [op |-> "none"]

VARIABLES
  disk,      \* the disk's contents, one of Layouts
  fds,       \* file_descriptors, each with its Fat16Descriptor
  stream,    \* cluster_read_stream.pos
  state,     \* "ok", or "wild" after a null pointer was followed
  last       \* history: the last call, if it was an open or a read that succeeded

vars == <<disk, fds, stream, state, last>>

Opened(first, size, pos) ==
  [kind |-> "file", first |-> first, size |-> size, pos |-> pos]

\* fs_init and disk_search_and_init.
Init == /\ disk \in Layouts
        /\ fds = [fd \in Fds |-> CLOSED]
        /\ stream = 0
        /\ state = "ok"
        /\ last = NOCALL

-----------------------------------------------------------------------------
(* The stream: one sector at a time into a buffer of one sector.  The      *)
(* buffer is indexed from the position's offset, whatever is left of it.   *)

\* Mutant: the stream stays where the previous call left it.
SeekIgnored(pos, newpos) == pos

disk_stream_seek(pos, newpos) == newpos

Offset(pos) == pos % SectorSize

ReadSector(pos, n) ==
  [i \in 1..n |-> IF Offset(pos) + i <= SectorSize THEN pos + i - 1 ELSE GARBAGE]

\* Left[n] is the recursive call that has n bytes to go.
disk_stream_read(pos, total) ==
  LET Left[n \in 0..total] ==
        LET k == Min({n, SectorSize}) IN
        IF n = 0 THEN <<>> ELSE ReadSector(pos + total - n, k) \o Left[n - k]
  IN  Left[total]

-----------------------------------------------------------------------------
(* Clusters.                                                               *)

\* Entry 0 is looked up at the two bytes before the FAT.
get_fat_entry(cluster) == disk.fat[cluster - 1]

\* End of chain (twice), "bad", "reserved" (twice) and free, as tested.
Stops == {65528, 65535, 4087, 4080, 4086, 0}

\* An entry that stops the walk makes the cluster number -EIO, and the
\* caller computes a position from it.
get_cluster_for_offset(cluster, offset) ==
  LET Walk[k \in 0..(offset \div ClusterSize)] ==
        IF k = 0 THEN cluster
        ELSE LET c == Walk[k - 1] IN
             CASE c = -EIO                  -> -EIO
               [] get_fat_entry(c) \in Stops -> -EIO
               [] OTHER                     -> get_fat_entry(c)
  IN  Walk[offset \div ClusterSize]

StartPos(cluster, offset) ==
  cluster_to_sector(get_cluster_for_offset(cluster, offset)) * SectorSize
    + (offset % ClusterSize)

\* How often read_entries calls itself: once at least, also for no bytes.
Levels(size) == Max({1, (size + ClusterSize - 1) \div ClusterSize})

\* One level: r is what the levels before it have done, end where the read
\* is to end in the file.
ReadCluster(r, cluster, end) ==
  LET n  == Min({r.left, ClusterSize})
      at == disk_stream_seek(r.pos, StartPos(cluster, end - r.left))
  IN  [bytes |-> r.bytes \o disk_stream_read(at, n), left |-> r.left - n, pos |-> at + n]

\* After[k] is what k levels of the recursion have done, from pos of the stream.
read_entries(pos, cluster, offset, size) ==
  LET After[k \in 0..Levels(size)] ==
        IF k = 0 THEN [bytes |-> <<>>, left |-> size, pos |-> pos]
        ELSE ReadCluster(After[k - 1], cluster, offset + size)
  IN  After[Levels(size)]

-----------------------------------------------------------------------------
(* Directories.                                                            *)

\* The bytes of a Fat16Entry from the attribute and from the name on, and the
\* string that some bytes begin with.
FromAttribute(e) == <<e.attribute>> \o e.rest \o <<NUL>>
NameBytes(e) == e.filename \o e.extension \o FromAttribute(e)
UpToNul(bytes) == SubSeq(bytes, 1, SelectInSeq(bytes, LAMBDA b : b = NUL) - 1)

\* The fields are read as if a NUL ended them: a name of eight characters
\* runs on into the extension, an extension of three into the attribute.
get_fat16_filename(e) ==
  LET base == rstrip(UpToNul(NameBytes(e)))
  IN IF e.extension[1] \in {NUL, Space}
     THEN base
     ELSE rstrip(base \o <<Dot>> \o UpToNul(e.extension \o FromAttribute(e)))

\* Deleted entries are not counted.
get_total_entries_for_directory(start_sector) ==
  LET start == start_sector * SectorSize IN
  Cardinality({k \in Slots(disk, start) :
                 SlotAt(disk, start + k * EntrySize).filename[1] # DELETED})

\* But the entries taken are the first ones, the deleted ones included, and
\* from where read_entries finds them.  An empty directory is freed, and
\* still used: as long as its block is not taken it is empty.
load_directory(e, pos) ==
  LET total == get_total_entries_for_directory(cluster_to_sector(e.first))
      r     == read_entries(pos, e.first, 0, total * EntrySize)
  IN  [entries |-> [i \in 1..total |-> SlotAt(disk, r.bytes[(i - 1) * EntrySize + 1])],
       pos |-> r.pos]

\* The root directory lies in one piece.
init_root_directory ==
  [i \in 1..get_total_entries_for_directory(RootStart) |->
     SlotAt(disk, RootPos + (i - 1) * EntrySize)]

\* Mutant: names of one length are taken for the same.
MatchingByLength(entries, name) ==
  {i \in DOMAIN entries : Len(get_fat16_filename(entries[i])) = Len(name)}

SameName(filename, name) ==
  Len(filename) = Len(name) /\ EqualIgnoringCase(filename, name, Len(filename))

Matching(entries, name) ==
  {i \in DOMAIN entries : SameName(get_fat16_filename(entries[i]), name)}

\* An item, and where the shared stream is when it has been made.
new_fat16_item(e, pos) ==
  IF IsDirectory(e)
  THEN LET d == load_directory(e, pos)
       IN  [kind |-> "directory", entries |-> d.entries, pos |-> d.pos]
  ELSE [kind |-> "file", entry |-> e, pos |-> pos]

\* find_item_in_directory for one name of the path, below the item that the
\* names before it have led to.  Nothing may be found, nothing can be below a
\* file, and what is below nothing is looked for through a null pointer.
find_item_in_directory(item, name) ==
  CASE item.kind = "directory" ->
         LET found == Matching(item.entries, name) IN
         IF found = {} THEN [kind |-> "missing", pos |-> item.pos]
         ELSE new_fat16_item(item.entries[Min(found)], item.pos)
    [] item.kind = "file" -> [kind |-> "refused", pos |-> item.pos]
    [] item.kind = "missing" -> [kind |-> "lost", pos |-> item.pos]
    [] OTHER -> item

\* Found[k] is the item that the first k names lead to.
get_fat16_directory_item(path, pos) ==
  LET Found[k \in 0..Len(path)] ==
        IF k = 0 THEN [kind |-> "directory", entries |-> init_root_directory, pos |-> pos]
        ELSE find_item_in_directory(Found[k - 1], path[k])
  IN  Found

\* fat16_open: private data of a new descriptor, 0 if nothing was found.
fat16_open(item) ==
  CASE item.kind = "file" -> Opened(item.entry.first, item.entry.size, 0)
    [] item.kind = "directory" -> DIRECTORY
    [] OTHER -> NODATA

-----------------------------------------------------------------------------
(* The calls of file.c, on descriptors it returned.                        *)

FreeFds == {fd \in Fds : fds[fd] = CLOSED}

\* A full table gives descriptor 0.
new_file_descriptor(data, call) ==
  \/ /\ FreeFds # {}
     /\ fds' = [fds EXCEPT ![Min(FreeFds)] = data]
     /\ last' = call
  \/ /\ FreeFds = {}
     /\ last' = NOCALL
     /\ UNCHANGED fds

\* A missing file gets a descriptor like any other; a missing directory is
\* used through a null pointer.  For the paths that parse_path refuses see
\* StartCommand, for a disk without file system Boot; the loaders, the only
\* callers, pass no other mode.
fopen(path) ==
  LET item == get_fat16_directory_item(path, stream)[Len(path)] IN
  /\ state = "ok"
  /\ stream' = item.pos
  /\ \/ /\ item.kind = "lost"
        /\ state' = "wild"
        /\ UNCHANGED <<fds, last>>
     \/ /\ item.kind # "lost"
        /\ LET data == fat16_open(item) IN
           new_file_descriptor(data, [op |-> "open", path |-> path, got |-> data])
        /\ UNCHANGED state
  /\ UNCHANGED disk

\* fopen when an allocation fails: of the Fat16Descriptor, of the last item or
\* what it points to, or of another structure, whose null pointer is followed.
fopen_out_of_memory(path) ==
  LET parent == get_fat16_directory_item(path, stream)[Len(path) - 1]
      found  == Matching(parent.entries, path[Len(path)])
  IN
  /\ state = "ok"
  /\ \/ /\ new_file_descriptor(NODATA, NOCALL)
        /\ UNCHANGED <<stream, state>>
     \/ /\ parent.kind = "directory" /\ found # {}
        /\ \/ new_file_descriptor(NODATA, NOCALL)
           \/ /\ IsDirectory(parent.entries[Min(found)])
              /\ new_file_descriptor(DIRECTORY, NOCALL)
        /\ stream' = parent.pos
        /\ UNCHANGED state
     \/ /\ state' = "wild"
        /\ UNCHANGED <<fds, stream, last>>
  /\ UNCHANGED disk

IsOpen(fd) == state = "ok" /\ fds[fd].kind = "file"

\* The size of the file is not looked at.
fat16_read(fd, size) ==
  LET r == read_entries(stream, fds[fd].first, fds[fd].pos, size) IN
  /\ stream' = r.pos
  /\ last' = [op |-> "read", file |-> fds[fd], size |-> size, bytes |-> r.bytes]
  /\ fds' = [fds EXCEPT ![fd].pos = @ + size]

fread(fd, size) ==
  /\ IsOpen(fd)
  /\ \/ /\ size = 0                       \* refused
        /\ last' = NOCALL
        /\ UNCHANGED <<fds, stream>>
     \/ /\ size # 0
        /\ fds[fd].pos + size <= MaxPos
        /\ fat16_read(fd, size)
  /\ UNCHANGED <<disk, state>>

InFile(fd, offset) == offset < fds[fd].size

\* Both seek modes take the offset from the start of the file.
fseek(fd, offset) ==
  /\ IsOpen(fd)
  /\ InFile(fd, offset)
  /\ fds' = [fds EXCEPT ![fd].pos = offset]
  /\ last' = NOCALL
  /\ UNCHANGED <<disk, stream, state>>

fclose(fd) ==
  /\ IsOpen(fd)
  /\ fds' = [fds EXCEPT ![fd] = CLOSED]
  /\ last' = NOCALL
  /\ UNCHANGED <<disk, stream, state>>

\* Any use of a descriptor without private data follows a null pointer, and
\* fstat and fread take a Fat16Directory for a Fat16Entry.
UseNodata(fd) ==
  /\ state = "ok"
  /\ fds[fd] \in {NODATA, DIRECTORY}
  /\ state' = "wild"
  /\ UNCHANGED <<disk, fds, stream, last>>

Wild == state = "wild" /\ UNCHANGED vars

Next == \/ \E path \in Paths : fopen(path) \/ fopen_out_of_memory(path)
        \/ \E fd \in Fds, size \in Lengths : fread(fd, size)
        \/ \E fd \in Fds, offset \in Lengths : fseek(fd, offset)
        \/ \E fd \in Fds : fclose(fd) \/ UseNodata(fd)
        \/ Wild

Spec == Init /\ [][Next]_vars

-----------------------------------------------------------------------------
(* Properties.                                                             *)

\* A read that stays in the first cluster delivers the file's own bytes, as
\* many as were asked for, whoever used the shared stream before, as long as
\* it starts on a sector boundary or stays in one sector.  Otherwise stack
\* bytes may take their place (stream.c:40-45), but never another file's.
ReadsOwnBytes ==
  last.op = "read" =>
    LET base == (DataStart + (last.file.first - 2) * SectorsPerCluster) * SectorSize
        pos  == last.file.pos
        n    == last.size
        good == Offset(pos) = 0 \/ Offset(pos) + n <= SectorSize
    IN  pos + n <= ClusterSize =>
          /\ Len(last.bytes) = n
          /\ \A i \in 1..n : \/ last.bytes[i] = base + pos + i - 1
                             \/ ~good /\ last.bytes[i] = GARBAGE

\* By the rules of FAT: an entry that is no file or directory but a label or
\* a part of a long name, and the name of the others in two fields of fixed
\* length, padded with spaces.
IsLabel(e) == (e.attribute \div 8) % 2 = 1
Unpadded(field) ==
  LET used == {i \in DOMAIN field : field[i] # Space}
  IN SubSeq(field, 1, IF used = {} THEN 0 ELSE Max(used))
Meant(e) ==
  IF Unpadded(e.extension) = <<>> THEN Unpadded(e.filename)
  ELSE Unpadded(e.filename) \o <<Dot>> \o Unpadded(e.extension)
Lower(name) == [i \in DOMAIN name |-> to_lower_char(name[i])]

\* A directory without a cluster is the root.
ROOT == [BLANK EXCEPT !.attribute = 16]
DirectoryPos(e) ==
  IF e.first = 0 THEN RootPos ELSE cluster_to_sector(e.first) * SectorSize

SlotOf(e, k) == SlotAt(disk, DirectoryPos(e) + k * EntrySize)
Deleted(e) == e.filename[1] = DELETED
Contents(e) ==
  {x \in {SlotOf(e, k) : k \in Slots(disk, DirectoryPos(e))} : ~Deleted(x) /\ ~IsLabel(x)}
Below(entries) == UNION {Contents(e) : e \in {e \in entries : IsDirectory(e)}}

\* The entries that the first k names of a path lead to, for every k.
Denoted(path) ==
  LET After[k \in 0..Len(path)] ==
        IF k = 0 THEN {ROOT}
        ELSE {e \in Below(After[k - 1]) : Lower(Meant(e)) = Lower(path[k])}
  IN  After

\* get_fat16_filename finds the end of both fields: it takes the first space
\* for the padding.
Readable(e) ==
  /\ NUL \notin Range(e.filename) \cup Range(e.extension)
  /\ Space \notin Range(Unpadded(e.filename)) \cup Range(Unpadded(e.extension))
  /\ Len(Unpadded(e.filename)) < Len(e.filename) \/ Unpadded(e.extension) = <<>>
  /\ Len(Unpadded(e.extension)) < Len(e.extension) \/ e.attribute \in {0, ARCHIVED}

\* A directory in which a name can be looked up: its entries are readable or
\* labels that do not read like the name, none is deleted, and no two have
\* one name.
Orderly(e, name) ==
  LET slots == Slots(disk, DirectoryPos(e)) IN
  /\ \A k \in slots :
       LET x == SlotOf(e, k) IN
       /\ ~Deleted(x)
       /\ IF IsLabel(x) THEN ~SameName(get_fat16_filename(x), name) ELSE Readable(x)
  /\ \A j, k \in {k \in slots : ~IsLabel(SlotOf(e, k))} :
       Lower(Meant(SlotOf(e, j))) = Lower(Meant(SlotOf(e, k))) => j = k

\* A directory other than the root that ends in its first cluster.
InOneCluster(e) ==
  e.first # 0 /\ \A k \in Slots(disk, DirectoryPos(e)) : (k + 1) * EntrySize < ClusterSize

WayIsClear(path) ==
  \A k \in 0..(Len(path) - 1) : \A e \in Denoted(path)[k] :
    IsDirectory(e) => Orderly(e, path[k + 1]) /\ (k = 0 \/ InOneCluster(e))

\* fopen gives the file that the path denotes and no other, through any
\* number of directories and in any case of letters, and on a disk with long
\* names, as long as every directory on the way is orderly and ends in its
\* first cluster (fat16.c:188-217, 423-543, string.c:79-121).
OpensRightFile ==
  last.op = "open" /\ WayIsClear(last.path) =>
    LET right == {Opened(e.first, e.size, 0) :
                    e \in {e \in Denoted(last.path)[Len(last.path)] : ~IsDirectory(e)}}
    IN  {last.got} \ {NODATA, DIRECTORY} = right
=============================================================================
