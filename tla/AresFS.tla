------------------------------ MODULE AresFS --------------------------------
(***************************************************************************)
(* The file system of fs/aresfs.c on a disk that may fail and lose power.  *)
(*                                                                         *)
(* A call runs alone, so it is a function of the state it starts in and of *)
(* the sectors that fail while it runs (bad).  It is carried along as a    *)
(* record: the disk and the caches as they are by now, the inode the call  *)
(* holds in memory, its results, and every earlier disk (past), one per    *)
(* block written.  A call either completes or is cut short by a crash,     *)
(* which leaves one of those disks.                                        *)
(***************************************************************************)
EXTENDS Integers, Sequences, FiniteSets, SequencesExt

CONSTANTS
  INODE_TABLE_BLOCKS, INODES_PER_BLOCK, TOTAL_BLOCKS, BLOCK_SIZE,
  DIRECT_BLOCKS, INDIRECT_PTRS, DIRENTS_PER_BLOCK, MAX_OPEN_FILES,
  Path, DirPath,        \* paths of files and of directories, as sequences of names
  OpenFlags,            \* flags files are opened with
  Count,                \* sizes of reads and writes
  MaxTroubles           \* bound on crashes and calls that meet a bad sector

VARIABLES
  disk,                            \* what each block holds
  g_block_bitmap, g_inode_bitmap,  \* the caches: blocks and inodes in use
  g_mounted, g_fds,
  files,                           \* what each inode should read as, if known
  troubles,                        \* crashes and faults so far
  exposed                          \* an event after which blocks may be shared

cached == <<g_block_bitmap, g_inode_bitmap>>
vars == <<disk, cached, g_mounted, g_fds, files, troubles, exposed>>

-----------------------------------------------------------------------------
(* The layout of the disk. *)

SUPERBLOCK == 1
BLOCK_BITMAP == 2
INODE_BITMAP == 3
INODE_START == 4
DATA_START == INODE_START + INODE_TABLE_BLOCKS
INODE_COUNT == INODE_TABLE_BLOCKS * INODES_PER_BLOCK
Block == 0 .. TOTAL_BLOCKS - 1
Inode == 0 .. INODE_COUNT - 1
INVALID == 0
ROOT == 1

NoInode == [type |-> "none", size |-> 0,
            direct |-> [l \in 0 .. DIRECT_BLOCKS - 1 |-> 0], indirect |-> 0]
NewFile == [NoInode EXCEPT !.type = "file"]
NewDir(b) == [NoInode EXCEPT !.type = "dir", !.size = BLOCK_SIZE, !.direct[0] = b]

(* A data block is zero, or holds file data, pointers or directory         *)
(* entries; a zero block can be read as any of the three.                  *)
Zero == [kind |-> "zero", at |-> <<>>]
NoEntry == [inode |-> INVALID, name |-> ""]
Data(x) == IF x.kind = "data" THEN x.at ELSE [o \in 0 .. BLOCK_SIZE - 1 |-> 0]
Ptrs(x) == IF x.kind = "ptrs" THEN x.at ELSE [o \in 0 .. INDIRECT_PTRS - 1 |-> 0]
Dirents(x) == IF x.kind = "dir" THEN x.at ELSE [e \in 0 .. DIRENTS_PER_BLOCK - 1 |-> NoEntry]
DirBlock(self, parent) ==
  [kind |-> "dir",
   at |-> [Dirents(Zero) EXCEPT ![0] = [inode |-> self, name |-> "."],
                                ![1] = [inode |-> parent, name |-> ".."]]]

InodeBlock(i) == INODE_START + i \div INODES_PER_BLOCK
InodeAt(d, i) == d[InodeBlock(i)][i % INODES_PER_BLOCK]

-----------------------------------------------------------------------------
(* Block I/O and the bitmaps; a bitmap that cannot be written is ignored. *)

Readable(s, b) == b \in Block /\ <<"read", b>> \notin s.bad
Writable(s, b) == b \in Block /\ <<"write", b>> \notin s.bad

block_write(s, b, x) ==
  IF Writable(s, b) THEN [s EXCEPT !.disk[b] = x, !.past = Append(@, s.disk)] ELSE s

SetBlocks(s, used) == [block_write(s, BLOCK_BITMAP, used) EXCEPT !.blocks = used]
SetInodes(s, used) == [block_write(s, INODE_BITMAP, used) EXCEPT !.inodes = used]

Bits == 0 .. TOTAL_BLOCKS - 1

alloc_block(s) ==
  IF Bits \subseteq s.blocks
    THEN [s EXCEPT !.ret = 0]
    ELSE LET b == Min(Bits \ s.blocks)
         IN  [SetBlocks(s, s.blocks \cup {b}) EXCEPT !.ret = b]

free_block(s, b) ==
  IF b \in s.blocks \ {0} THEN SetBlocks(s, s.blocks \ {b}) ELSE s

alloc_inode(s) ==
  IF Inode \subseteq s.inodes
    THEN [s EXCEPT !.num = INVALID]
    ELSE LET i == Min(Inode \ s.inodes)
         IN  [SetInodes(s, s.inodes \cup {i}) EXCEPT !.num = i]

(* Mutant: a failed call keeps its inode. *)
free_inode_Mutant(s, i) == s

free_inode(s, i) ==
  IF i \in s.inodes \ {INVALID} THEN SetInodes(s, s.inodes \ {i}) ELSE s

inode_read_ok(s, i) == Readable(s, InodeBlock(i))

(* Reads the block of inodes, changes one, writes it back. *)
inode_write(s, i, ino) ==
  LET b == InodeBlock(i)
      ok == Readable(s, b) /\ Writable(s, b)
  IN  [ (IF ok THEN block_write(s, b, [s.disk[b] EXCEPT ![i % INODES_PER_BLOCK] = ino])
               ELSE s) EXCEPT !.ok = ok ]

-----------------------------------------------------------------------------
(* The blocks of a file. *)

Cleared(a) == IF a.ret = 0 THEN a ELSE block_write(a, a.ret, Zero)

(* Mutant: the new block is not cleared. *)
ZeroedBlock_Mutant(s) == alloc_block(s)

(* A block is allocated and cleared; nobody looks whether clearing worked. *)
ZeroedBlock(s) == Cleared(alloc_block(s))

SetDirect(a, l) == [a EXCEPT !.ino.direct[l] = a.ret]
SetIndirect(a) == [a EXCEPT !.ino.indirect = a.ret]
SetPtr(a, ind, ptrs, off) ==
  IF a.ret = 0 THEN a
  ELSE block_write(a, ind, [kind |-> "ptrs", at |-> [ptrs EXCEPT ![off] = a.ret]])

DirectBlock(s, l) ==
  IF s.ino.direct[l] # 0 THEN [s EXCEPT !.ret = s.ino.direct[l]]
                         ELSE SetDirect(ZeroedBlock(s), l)

IndirectBlock(s) ==
  IF s.ino.indirect # 0 THEN [s EXCEPT !.ret = s.ino.indirect]
                        ELSE SetIndirect(ZeroedBlock(s))

(* The block that entry off of ind_buf points to; s.ret is the indirect    *)
(* block.                                                                  *)
PointedBlock(s, ptrs, off) ==
  IF s.ret = 0 THEN s
  ELSE IF ptrs[off] # 0 THEN [s EXCEPT !.ret = ptrs[off]]
  ELSE SetPtr(ZeroedBlock(s), s.ret, ptrs, off)

(* inode_resolve_block with create: s.ret is the block, or 0.  The pointer *)
(* goes to the inode in memory, or to the indirect block on the disk.      *)
inode_resolve_block(s, l) ==
  LET off == l - DIRECT_BLOCKS
      ind == s.ino.indirect
  IN  IF l < DIRECT_BLOCKS THEN DirectBlock(s, l)
      ELSE IF off >= INDIRECT_PTRS \/ (ind # 0 /\ ~ Readable(s, ind)) THEN [s EXCEPT !.ret = 0]
      ELSE PointedBlock(IndirectBlock(s), Ptrs(IF ind # 0 THEN s.disk[ind] ELSE Zero), off)

(* Every block of the inode in memory is freed, then its pointers cleared. *)
inode_truncate(s) ==
  LET indirect == s.ino.indirect
      direct == [l \in 1 .. DIRECT_BLOCKS |-> s.ino.direct[l - 1]]
      ptrs == IF indirect # 0 /\ Readable(s, indirect)
                THEN [o \in 1 .. INDIRECT_PTRS |-> Ptrs(s.disk[indirect])[o - 1]]
                ELSE <<>>
  IN  [FoldLeft(free_block, s, direct \o ptrs \o <<indirect>>) EXCEPT !.ino = NewFile]

-----------------------------------------------------------------------------
(* Directories.  An entry has a place: its block's index and its slot. *)

Place == 0 .. DIRECT_BLOCKS * DIRENTS_PER_BLOCK - 1
BlockOf(d, i, k) == InodeAt(d, i).direct[k \div DIRENTS_PER_BLOCK]
EntryAt(d, i, k) == Dirents(d[BlockOf(d, i, k)])[k % DIRENTS_PER_BLOCK]

(* The places dir_walk visits: blocks it cannot read are passed over. *)
dir_walk(s, i) ==
  LET ino == InodeAt(s.disk, i)
      walked == {l \in 0 .. DIRECT_BLOCKS - 1 : ino.direct[l] # 0 /\ Readable(s, ino.direct[l])}
  IN  IF inode_read_ok(s, i) /\ ino.type = "dir"
        THEN {k \in Place : k \div DIRENTS_PER_BLOCK \in walked}
        ELSE {}

dir_find_entry(s, i, name) ==
  LET found == {k \in dir_walk(s, i) : /\ EntryAt(s.disk, i, k).inode # INVALID
                                       /\ EntryAt(s.disk, i, k).name = name}
  IN  IF found = {} THEN INVALID ELSE EntryAt(s.disk, i, Min(found)).inode

Fail(s) == [s EXCEPT !.ok = FALSE]

(* The new block b of entries becomes the directory's block l. *)
GrowDir(s, i, l, b, x) ==
  IF Writable(s, b)
    THEN inode_write(block_write(s, b, x), i,
                     [InodeAt(s.disk, i) EXCEPT !.direct[l] = b, !.size = @ + BLOCK_SIZE])
    ELSE Fail(free_block(s, b))

(* Every block is full, and a new one has been asked for. *)
AddInNewBlock(a, i, entry) ==
  IF a.ret = 0 THEN Fail(a)
  ELSE GrowDir(a, i, Min({l \in 0 .. DIRECT_BLOCKS - 1 : InodeAt(a.disk, i).direct[l] = 0}), a.ret,
               [kind |-> "dir", at |-> [Dirents(Zero) EXCEPT ![0] = entry]])

AddInBlock(s, b, slot, entry) ==
  [block_write(s, b, [kind |-> "dir", at |-> [Dirents(s.disk[b]) EXCEPT ![slot] = entry]])
     EXCEPT !.ok = Writable(s, b)]

AddInPlace(s, i, k, entry) == AddInBlock(s, BlockOf(s.disk, i, k), k % DIRENTS_PER_BLOCK, entry)

AddEntry(s, i, empty, entry) ==
  IF empty # {} THEN AddInPlace(s, i, Min(empty), entry)
  ELSE IF 0 \notin Range(InodeAt(s.disk, i).direct) THEN Fail(s)
  ELSE AddInNewBlock(alloc_block(s), i, entry)

dir_add_entry(s, i, name, child) ==
  IF \/ dir_find_entry(s, i, name) # INVALID
     \/ ~ inode_read_ok(s, i)
     \/ InodeAt(s.disk, i).type # "dir"
  THEN Fail(s)
  ELSE AddEntry(s, i, {k \in dir_walk(s, i) : EntryAt(s.disk, i, k).inode = INVALID},
                [inode |-> child, name |-> name])

lookup_path(s, path) ==
  FoldLeft(LAMBDA i, name : IF i = INVALID THEN INVALID ELSE dir_find_entry(s, i, name),
           ROOT, path)

(* The parent, if it exists and is a directory; the leaf is Last(path). *)
split_parent_leaf(s, path) ==
  LET Parent(i) == IF /\ i # INVALID
                      /\ Len(path) > 1 => inode_read_ok(s, i) /\ InodeAt(s.disk, i).type = "dir"
                   THEN i ELSE INVALID
  IN  Parent(lookup_path(s, Front(path)))

-----------------------------------------------------------------------------
(* The calls. *)

Fd == 0 .. MAX_OPEN_FILES - 1
Closed == [used |-> FALSE, inode_num |-> INVALID, pos |-> 0, flags |-> {}]
NoFds == [fd \in Fd |-> Closed]

Start(bad) ==
  [disk |-> disk, blocks |-> g_block_bitmap, inodes |-> g_inode_bitmap, fds |-> g_fds,
   past |-> <<>>, bad |-> bad, ok |-> TRUE, ret |-> 0, num |-> INVALID, ino |-> NoInode,
   done |-> 0, stop |-> "no"]

(* The descriptor, if there is one left. *)
fd_alloc(s, flags) ==
  LET unused == {fd \in Fd : ~ s.fds[fd].used}
  IN  IF unused = {} THEN Fail(s)
      ELSE [s EXCEPT !.fds[Min(unused)] =
              [used |-> TRUE, inode_num |-> s.num, flags |-> flags,
               pos |-> IF "APPEND" \in flags THEN s.ino.size ELSE 0]]

(* The steps of open with O_CREAT; each undoes the ones before if it fails. *)
Created(s, flags) == IF s.ok THEN fd_alloc(s, flags) ELSE Fail(free_inode(s, s.num))

CreateEntry(s, parent, path) ==
  IF s.ok THEN dir_add_entry(s, parent, Last(path), s.num) ELSE s

CreateInode(s, parent, path, flags) ==
  IF s.num = INVALID THEN Fail(s)
  ELSE Created(CreateEntry(inode_write([s EXCEPT !.ino = NewFile], s.num, NewFile), parent, path),
               flags)

Create(s, parent, path, flags) ==
  IF parent = INVALID THEN Fail(s) ELSE CreateInode(alloc_inode(s), parent, path, flags)

Truncated(s, flags) ==
  IF "TRUNC" \notin flags THEN s
  ELSE LET Save(e) == inode_write(e, e.num, e.ino) IN Save(inode_truncate(s))

OpenExisting(s, i, flags) ==
  LET Done(t) == IF t.ok THEN fd_alloc(t, flags) ELSE t
  IN  IF inode_read_ok(s, i) /\ InodeAt(s.disk, i).type = "file"
        THEN Done(Truncated([s EXCEPT !.num = i, !.ino = InodeAt(s.disk, i)], flags))
        ELSE Fail(s)

Open(s, path, flags) ==
  LET Found(i) == IF i # INVALID THEN OpenExisting(s, i, flags)
                  ELSE IF "CREAT" \in flags
                    THEN Create(s, split_parent_leaf(s, path), path, flags)
                  ELSE Fail(s)
  IN  Found(lookup_path(s, path))

(* The steps of mkdir: the inode s.num, the block s.ret, and the entry. *)
Made(s) == IF s.ok THEN s ELSE Fail(free_inode(free_block(s, s.ret), s.num))

MakeEntry(s, b, parent, path) ==
  LET Add(t) == IF t.ok THEN dir_add_entry(t, parent, Last(path), t.num) ELSE t
  IN  Made([Add(s) EXCEPT !.ret = b])

MakeBlock(s, parent, path) ==
  IF s.ret = 0 THEN Fail(free_inode(s, s.num))
  ELSE IF ~ Writable(s, s.ret) THEN Made(Fail(s))
  ELSE MakeEntry(inode_write(block_write(s, s.ret, DirBlock(s.num, parent)), s.num, NewDir(s.ret)),
                 s.ret, parent, path)

MakeInode(s, parent, path) ==
  IF s.num = INVALID THEN Fail(s) ELSE MakeBlock(alloc_block(s), parent, path)

Mkdir(s, path) ==
  LET In(parent) == IF parent = INVALID THEN Fail(s) ELSE MakeInode(alloc_inode(s), parent, path)
  IN  IF lookup_path(s, path) # INVALID THEN Fail(s) ELSE In(split_parent_leaf(s, path))

(* One turn of file_write_body's loop: the bytes at offsets here of the    *)
(* block r.ret.                                                            *)
PutBytes(r, here) ==
  LET partial == Cardinality(here) # BLOCK_SIZE
  IN  IF r.ret = 0 THEN [r EXCEPT !.stop = "break"]
      ELSE IF (partial /\ ~ Readable(r, r.ret)) \/ ~ Writable(r, r.ret)
        THEN [r EXCEPT !.stop = "return"]
      ELSE [block_write(r, r.ret,
              [kind |-> "data",
               at |-> [o \in 0 .. BLOCK_SIZE - 1 |->
                         IF o \in here THEN r.num ELSE Data(r.disk[r.ret])[o]]])
              EXCEPT !.done = @ + Cardinality(here)]

WriteBlock(s, l, pos, end) ==
  IF s.stop # "no" THEN s
  ELSE PutBytes(inode_resolve_block(s, l),
                {o \in 0 .. BLOCK_SIZE - 1 : l * BLOCK_SIZE + o \in pos .. end - 1})

max_size == (DIRECT_BLOCKS + INDIRECT_PTRS) * BLOCK_SIZE

(* The logical blocks of the bytes pos .. end - 1. *)
Logical(pos, end) ==
  [k \in 1 .. (end - 1) \div BLOCK_SIZE - pos \div BLOCK_SIZE + 1 |-> pos \div BLOCK_SIZE + k - 1]

(* The inode is written last, also when the disk is full; a block that     *)
(* cannot be written leaves it as it was.                                  *)
file_write_body(s, pos, count) ==
  LET end == Min({pos + count, max_size})
      Save(w) == IF w.stop = "return" THEN Fail(w)
                 ELSE inode_write(w, w.num, [w.ino EXCEPT !.size = Max({@, pos + w.done})])
  IN  IF pos >= max_size THEN Fail(s)
      ELSE Save(FoldLeft(LAMBDA t, l : WriteBlock(t, l, pos, end), s, Logical(pos, end)))

Write(s, fd, count) ==
  LET i == s.fds[fd].inode_num
      ino == InodeAt(s.disk, i)
      pos == IF "APPEND" \in s.fds[fd].flags THEN ino.size ELSE s.fds[fd].pos
      Move(w) == [w EXCEPT !.fds[fd].pos = IF w.ok THEN pos + w.done ELSE pos]
  IN  IF inode_read_ok(s, i)
        THEN Move(file_write_body([s EXCEPT !.num = i, !.ino = ino], pos, count))
        ELSE Fail(s)

(* inode_resolve_block without create: an unreadable indirect block is a   *)
(* hole.                                                                   *)
PhysicalBlock(s, ino, l) ==
  IF l < DIRECT_BLOCKS THEN ino.direct[l]
  ELSE IF ino.indirect = 0 \/ ~ Readable(s, ino.indirect) THEN 0
  ELSE Ptrs(s.disk[ino.indirect])[l - DIRECT_BLOCKS]

Read(s, fd, count) ==
  LET i == s.fds[fd].inode_num
      ino == InodeAt(s.disk, i)
      pos == s.fds[fd].pos
      end == Min({pos + count, ino.size})
      blocks == {PhysicalBlock(s, ino, l) : l \in Range(Logical(pos, end))} \ {0}
  IN  IF \/ ~ inode_read_ok(s, i)
         \/ pos < ino.size /\ \E b \in blocks : ~ Readable(s, b) THEN Fail(s)
      ELSE [s EXCEPT !.fds[fd].pos = Max({@, end})]

(* Mutant: fs_init formats whatever the mount says. *)
mount_ok_Mutant(s) == FALSE

mount_ok(s) ==
  /\ \A b \in {SUPERBLOCK, BLOCK_BITMAP, INODE_BITMAP} : Readable(s, b)
  /\ s.disk[SUPERBLOCK] = "valid"

(* Mutant: the loop ends one block early. *)
Reserved_Mutant == 0 .. DATA_START - 1

(* What format marks as used: the layout and the root's first block. *)
Reserved == 0 .. DATA_START

Format(s) ==
  LET Put(t, w) == IF t.ok /\ Writable(t, w.block) THEN block_write(t, w.block, w.data) ELSE Fail(t)
      At(b, x) == [block |-> b, data |-> x]
      empty == [k \in 0 .. INODES_PER_BLOCK - 1 |-> NoInode]
      Root(f) == IF f.ok THEN inode_write(f, ROOT, NewDir(DATA_START)) ELSE f
  IN  Put(Root(FoldLeft(Put, s,
             << At(SUPERBLOCK, "valid"), At(BLOCK_BITMAP, Reserved),
                At(INODE_BITMAP, {INVALID, ROOT}) >>
             \o [k \in 1 .. INODE_TABLE_BLOCKS |-> At(INODE_START + k - 1, empty)])),
          At(DATA_START, DirBlock(ROOT, ROOT)))

-----------------------------------------------------------------------------
(* Completion and crash. *)

Unknown == <<-1>>

(* What may fail during a call: nothing, or the reading or the writing of  *)
(* one sector, also when the driver tries again.                           *)
Bad(met) ==
  {{}} \cup (IF met < MaxTroubles THEN {{t} : t \in {"read", "write"} \X Block} ELSE {})

Met(bad) == IF bad = {} THEN 0 ELSE 1

Complete(s, lost) ==
  /\ disk' = s.disk
  /\ g_block_bitmap' = s.blocks /\ g_inode_bitmap' = s.inodes
  /\ g_fds' = s.fds
  /\ troubles' = troubles + Met(s.bad)
  /\ exposed' = lost
  /\ UNCHANGED g_mounted

(* The machine is off: what is in memory is gone. *)
Off ==
  /\ g_mounted' = FALSE
  /\ g_block_bitmap' = {} /\ g_inode_bitmap' = {}
  /\ g_fds' = NoFds

Stale(d, blocks, inodes) == d[BLOCK_BITMAP] # blocks \/ d[INODE_BITMAP] # inodes

(* Power is lost before the k-th write; cut says that the call must not be *)
(* cut between two writes.                                                 *)
Crash(s, cut) ==
  /\ troubles + Met(s.bad) < MaxTroubles
  /\ troubles' = troubles + Met(s.bad) + 1
  /\ \E k \in DOMAIN s.past :
       /\ disk' = s.past[k]
       /\ exposed' = \/ cut /\ k > 1
                     \/ s.bad # {}
                     \/ g_mounted /\ Stale(disk, g_block_bitmap, g_inode_bitmap)
  /\ Off

NoFiles == [i \in Inode |-> <<>>]

Init ==
  /\ disk = [b \in Block |->
               CASE b = SUPERBLOCK -> "junk"
                 [] b \in {BLOCK_BITMAP, INODE_BITMAP} -> {}
                 [] b \in INODE_START .. DATA_START - 1 ->
                      [k \in 0 .. INODES_PER_BLOCK - 1 |-> NoInode]
                 [] OTHER -> Zero]
  /\ g_block_bitmap = {} /\ g_inode_bitmap = {}
  /\ g_mounted = FALSE /\ g_fds = NoFds
  /\ files = NoFiles
  /\ troubles = 0 /\ exposed = FALSE

(* Once blocks may be shared anything may follow; the model stops there. *)
Ready == g_mounted /\ ~ exposed

(* fs_init mounts what it finds, and formats the disk if it cannot. *)
Mount ==
  /\ ~ g_mounted /\ ~ exposed
  /\ \E bad \in Bad(troubles) :
       /\ mount_ok(Start(bad))
       /\ troubles' = troubles + Met(bad)
  /\ g_mounted' = TRUE
  /\ g_block_bitmap' = disk[BLOCK_BITMAP] /\ g_inode_bitmap' = disk[INODE_BITMAP]
  /\ g_fds' = NoFds
  /\ UNCHANGED <<disk, files, exposed>>

MountOrFormat ==
  /\ ~ g_mounted /\ ~ exposed
  /\ \E bad \in Bad(troubles) :
       /\ ~ mount_ok(Start(bad))
       /\ \E s \in {Format(Start(worse)) : worse \in Bad(troubles + Met(bad))} :
            \/ /\ disk' = s.disk
               /\ troubles' = troubles + Met(bad) + Met(s.bad)
               /\ IF s.ok
                    THEN /\ g_mounted' = TRUE /\ exposed' = FALSE
                         /\ g_block_bitmap' = disk'[BLOCK_BITMAP]
                         /\ g_inode_bitmap' = disk'[INODE_BITMAP]
                         /\ g_fds' = NoFds
                    ELSE Off /\ exposed' = (s.past # <<>>)
               /\ files' = IF s.past # <<>> THEN NoFiles ELSE files
            \/ bad = {} /\ Crash(s, TRUE) /\ UNCHANGED files

Flush(s) ==
  SetInodes(SetBlocks(block_write(s, SUPERBLOCK, "valid"), s.blocks), s.inodes)

aresfs_unmount ==
  /\ Ready
  /\ \E s \in {Flush(Start(bad)) : bad \in Bad(troubles)} :
       /\ disk' = s.disk
       /\ troubles' = troubles + Met(s.bad)
       /\ exposed' = Stale(s.disk, g_block_bitmap, g_inode_bitmap)
  /\ Off
  /\ UNCHANGED files

(* Power is lost between two calls. *)
PowerOff ==
  /\ Ready
  /\ troubles < MaxTroubles /\ troubles' = troubles + 1
  /\ exposed' = Stale(disk, g_block_bitmap, g_inode_bitmap)
  /\ Off
  /\ UNCHANGED <<disk, files>>

(* The inode on the disk has blocks that are free. *)
Dangling(s, i) ==
  LET ino == InodeAt(s.disk, i)
  IN  ~ (Range(ino.direct) \cup {ino.indirect} \subseteq s.blocks)

(* A truncation that does not come to the writing of the inode leaves it   *)
(* dangling.                                                               *)
aresfs_open(path, flags) ==
  /\ Ready
  /\ \E s \in {Open(Start(bad), path, flags) : bad \in Bad(troubles)} :
       LET cut == "TRUNC" \in flags /\ lookup_path(Start(s.bad), path) # INVALID
       IN  \/ /\ Complete(s, Dangling(s, s.num))
              /\ files' = IF s.past # <<>> THEN [files EXCEPT ![s.num] = <<>>] ELSE files
           \/ /\ Crash(s, cut)
              /\ files' = [files EXCEPT ![s.num] = IF cut THEN Unknown ELSE <<>>]

aresfs_close(fd) ==
  /\ g_fds[fd].used /\ ~ exposed
  /\ g_fds' = [g_fds EXCEPT ![fd] = Closed]
  /\ UNCHANGED <<disk, cached, g_mounted, files, troubles, exposed>>

aresfs_read(fd, count) ==
  /\ Ready /\ g_fds[fd].used
  /\ "WRONLY" \notin g_fds[fd].flags
  /\ \E s \in {Read(Start(bad), fd, count) : bad \in Bad(troubles)} : Complete(s, FALSE)
  /\ UNCHANGED files

(* What the file should read as: bytes of the writer, zeroes in a gap. *)
Written(content, pos, n, i) ==
  [p \in 1 .. Max({Len(content), pos + n}) |->
     IF p \in pos + 1 .. pos + n THEN i
     ELSE IF p <= Len(content) THEN content[p] ELSE 0]

(* An indirect block whose pointers were not written holds anything. *)
aresfs_write(fd, count) ==
  /\ Ready /\ g_fds[fd].used
  /\ g_fds[fd].flags \cap {"WRONLY", "RDWR"} # {}
  /\ \E s \in {Write(Start(bad), fd, count) : bad \in Bad(troubles)} :
       LET i == g_fds[fd].inode_num
       IN  \/ /\ Complete(s, <<"write", s.ino.indirect>> \in s.bad)
              /\ files' = [files EXCEPT ![i] =
                   IF s.bad # {} \/ @ = Unknown THEN Unknown
                   ELSE IF ~ s.ok THEN @
                   ELSE Written(@, s.fds[fd].pos - s.done, s.done, i)]
           \/ /\ Crash(s, FALSE)
              /\ files' = [files EXCEPT ![i] = Unknown]

aresfs_mkdir(path) ==
  /\ Ready
  /\ \E s \in {Mkdir(Start(bad), path) : bad \in Bad(troubles)} :
       Complete(s, FALSE) \/ Crash(s, FALSE)
  /\ UNCHANGED files

Next ==
  \/ Mount
  \/ MountOrFormat
  \/ aresfs_unmount
  \/ PowerOff
  \/ \E path \in Path, flags \in OpenFlags : aresfs_open(path, flags)
  \/ \E fd \in Fd : aresfs_close(fd)
  \/ \E fd \in Fd, count \in Count : aresfs_read(fd, count)
  \/ \E fd \in Fd, count \in Count : aresfs_write(fd, count)
  \/ \E path \in DirPath : aresfs_mkdir(path)

Spec == Init /\ [][Next]_vars

-----------------------------------------------------------------------------
(* Properties. *)

Ino(i) == InodeAt(disk, i)

(* The pointers of inode i, as the disk has them: where, and to which block. *)
Refs(i) ==
  LET ino == Ino(i)
  IN  {r \in    {<<i, "direct", l, ino.direct[l]>> : l \in 0 .. DIRECT_BLOCKS - 1}
           \cup {<<i, "indirect", 0, ino.indirect>>}
           \cup (IF ino.indirect = 0 THEN {} ELSE
                 {<<i, "ptrs", o, Ptrs(disk[ino.indirect])[o]>> : o \in 0 .. INDIRECT_PTRS - 1})
       : r[4] # 0}

Entries(i) ==
  IF Ino(i).type # "dir" THEN {} ELSE
  {<<i, k, EntryAt(disk, i, k)>> : k \in {k \in Place : BlockOf(disk, i, k) # 0}}

Named == {e \in UNION {Entries(i) : i \in Inode} : e[3].inode # INVALID /\ e[3].name \notin {".", ".."}}

(* The inodes that a directory has an entry for. *)
Live == {ROOT} \cup {e[3].inode : e \in Named}

UsedBlocks == IF g_mounted THEN g_block_bitmap ELSE disk[BLOCK_BITMAP]
UsedInodes == IF g_mounted THEN g_inode_bitmap ELSE disk[INODE_BITMAP]
LiveRefs == UNION {Refs(i) : i \in Live}

TypeOK ==
  /\ g_block_bitmap \subseteq Block /\ g_inode_bitmap \subseteq Inode
  /\ g_mounted \in BOOLEAN /\ exposed \in BOOLEAN
  /\ \A fd \in Fd : g_fds[fd].inode_num \in Inode /\ g_fds[fd].pos \in 0 .. max_size
  /\ \A i \in Inode :
       /\ Ino(i).type \in {"none", "file", "dir"}
       /\ Ino(i).size \in 0 .. max_size
       /\ \A r \in Refs(i) : r[4] \in DATA_START .. TOTAL_BLOCKS - 1

(* No block belongs to two files or directories, or twice to one, and the  *)
(* bitmaps know every block and inode in use: after any crash between two  *)
(* block writes and any sector that could not be read or written, except   *)
(* where a truncation or a format was cut short, power was lost after the  *)
(* bitmaps could not be written, or an indirect block could not be.        *)
NoSharedBlocks ==
  /\ TypeOK
  /\ ~ exposed /\ disk[SUPERBLOCK] = "valid" =>
       /\ Live \subseteq UsedInodes
       /\ \A r \in LiveRefs : r[4] \in UsedBlocks
       /\ \A q, r \in LiveRefs : q[4] = r[4] => q = r

(* A file reads as what was written to it, with zeroes where nothing was:  *)
(* whatever happens to other files, and unless a write to this very file   *)
(* met a fault or was cut short.                                           *)
ContentsExact ==
  ~ exposed /\ disk[SUPERBLOCK] = "valid" =>
    \A i \in Live :
      Ino(i).type = "file" /\ files[i] # Unknown =>
        /\ Ino(i).size = Len(files[i])
        /\ \A p \in 1 .. Len(files[i]) :
             LET b == PhysicalBlock(Start({}), Ino(i), (p - 1) \div BLOCK_SIZE)
             IN  files[i][p] = IF b = 0 THEN 0 ELSE Data(disk[b])[(p - 1) % BLOCK_SIZE]

(* As long as the disk works nothing leaks, also when a call fails for     *)
(* want of an inode, a block, a directory slot or a descriptor: the caches *)
(* are what the disk has, used blocks and inodes are those in use, every   *)
(* file has one entry, and no directory has a name twice.                  *)
NothingLeaks ==
  g_mounted /\ troubles = 0 =>
    /\ ~ Stale(disk, g_block_bitmap, g_inode_bitmap)
    /\ g_inode_bitmap = {INVALID} \cup Live
    /\ g_block_bitmap = (0 .. DATA_START - 1) \cup {r[4] : r \in LiveRefs}
    /\ \A e, f \in Named : e[3].inode = f[3].inode \/ <<e[1], e[3].name>> = <<f[1], f[3].name>> => e = f

(* aresfs.h:134: fs_init "mounts an existing filesystem if one is present  *)
(* and otherwise formats and mounts a fresh one": after any unmount or     *)
(* crash the files are kept, unless a sector cannot be read at that very   *)
(* moment, which fs_init takes for an empty disk and formats.              *)
MountsExisting ==
  [][ ~ g_mounted /\ g_mounted' /\ disk[SUPERBLOCK] = "valid"
        => disk' = disk \/ troubles' > troubles ]_vars
=============================================================================
