---------------------------------- MODULE Fs ----------------------------------
(***************************************************************************)
(* WitFS on the RAM disk of Wittche OS (kernel/fs.c, kernel/ramdisk.c) and *)
(* the shell commands that use it (kernel/shell.c).                        *)
(*                                                                         *)
(* The shell is the only caller, so a command is one step, except write:   *)
(* fs_write allocates block by block into a private copy of the inode and  *)
(* stores the inode at the end, and each turn of its loop is a step.       *)
(*                                                                         *)
(* A data block is seen as directory entries (dirent) or as bytes; a block *)
(* is only read in the view its owner has cleared or written.  An entry of *)
(* inode 0 is unused and its name is not read.  The root's size counts its *)
(* entries.  Block number 0 in an inode means "no block".  The bitmaps and *)
(* the superblock's counters are those in memory: what the disk holds of   *)
(* them is read only by fs_init, right after fs_format wrote it.  Commands *)
(* that are refused change nothing and are left out, and so is the root    *)
(* itself as the target of write and rm: no name is "/".                   *)
(***************************************************************************)
EXTENDS Integers, Sequences, FiniteSets, FiniteSetsExt

CONSTANTS
  FS_MAX_INODES,       \* bits of the inode bitmap used (512)
  TABLE_INODES,        \* inodes of 80 bytes the 64 table blocks hold (384)
  FS_MAX_DATA_BLOCKS,  \* data blocks (1981)
  FS_DIRECT_BLOCKS,    \* blocks of an inode (10)
  ENTRIES,             \* directory entries of a block (16)
  FS_BLOCK_SIZE,       \* bytes of a block (512)
  Names,               \* names users type
  Stored,              \* Stored[n]: n cut to FS_MAX_FILENAME characters
  Texts,               \* texts users write: byte sequences
  MaxFormats           \* bound: format commands in one behaviour

ASSUME FsAssumption ==
  /\ {FS_MAX_DATA_BLOCKS, FS_DIRECT_BLOCKS, ENTRIES, FS_BLOCK_SIZE} \subseteq Nat \ {0}
  /\ {FS_MAX_INODES, TABLE_INODES, MaxFormats} \subseteq Nat
  /\ FS_DIRECT_BLOCKS * ENTRIES + 2 <= TABLE_INODES
  /\ TABLE_INODES <= FS_MAX_INODES
  /\ DOMAIN Stored = Names
  /\ Texts \subseteq Seq(Nat)

VARIABLES
  inode_bitmap,  \* inodes whose bit is set
  data_bitmap,   \* data blocks whose bit is set
  free_inodes,   \* superblock.free_inodes
  free_blocks,   \* superblock.free_blocks
  inodes,        \* the inode table on the disk
  dirent,        \* dirent[b][k]: entry k of data block b
  bytes,         \* bytes[b][o]: byte o of data block b
  fd,            \* the open file of a write command, with fs_write's locals
  formats        \* format commands so far

vars == <<inode_bitmap, data_bitmap, free_inodes, free_blocks, inodes, dirent, bytes, fd,
          formats>>
allocVars == <<inode_bitmap, data_bitmap, free_inodes, free_blocks>>

Inodes == 0..(FS_MAX_INODES - 1)
Blocks == 0..(FS_MAX_DATA_BLOCKS - 1)
Direct == 0..(FS_DIRECT_BLOCKS - 1)
Entry == 0..(ENTRIES - 1)
Offset == 0..(FS_BLOCK_SIZE - 1)
RootInode == 0

(* The bits of a mode.  The type bit of a directory is the permission bit  *)
(* "write", so a file passes the test for a directory.                     *)
FS_TYPE_FILE == {0}
FS_TYPE_DIR == {1}
FS_PERM_DEFAULT == {1, 2}
IsDir(mode) == FS_TYPE_DIR \subseteq mode

NoBlocks == [k \in Direct |-> 0]
NoInode == [mode |-> {}, size |-> 0, blocks |-> NoBlocks]
NewInode(type, first) ==
  [mode |-> type \union FS_PERM_DEFAULT, size |-> 0, blocks |-> [NoBlocks EXCEPT ![0] = first]]
Unused == [inode |-> 0, name |-> ""]
ZeroEntries == [k \in Entry |-> Unused]
ZeroBytes == [o \in Offset |-> 0]
Closed == [inode |-> RootInode, copy |-> NoInode, text |-> <<>>, position |-> 0]

AtPrompt == fd = Closed
Root == inodes[RootInode]
FreeInodes == Inodes \ inode_bitmap
FreeBlocks == Blocks \ data_bitmap

(* kernel_main: ramdisk_init clears the disk, fs_format writes an empty    *)
(* file system, fs_init mounts it.  The root's first block number is 0.    *)
Init ==
  /\ inode_bitmap = {RootInode}
  /\ data_bitmap = {0}
  /\ free_inodes = FS_MAX_INODES - 1
  /\ free_blocks = FS_MAX_DATA_BLOCKS - 1
  /\ inodes = [i \in Inodes |-> IF i = RootInode THEN NewInode(FS_TYPE_DIR, 0) ELSE NoInode]
  /\ dirent = [b \in Blocks |-> ZeroEntries]
  /\ bytes = [b \in Blocks |-> ZeroBytes]
  /\ fd = Closed
  /\ formats = 0

-----------------------------------------------------------------------------
(* The directory.                                                          *)

(* The blocks of an inode that a loop ending at the first 0 visits.        *)
Chain(blocks) == {k \in Direct : \A j \in 0..k : blocks[j] # 0}

(* Positions of directory entries, in the order of the scan.               *)
EntryAt(p) == dirent[Root.blocks[p \div ENTRIES]][p % ENTRIES]
Positions == {p \in 0..(FS_DIRECT_BLOCKS * ENTRIES - 1) : p \div ENTRIES \in Chain(Root.blocks)}
Linked == {p \in Positions : EntryAt(p).inode # 0}

(* path_lookup: the first entry of that name, while the root inode is a    *)
(* directory (it is not after rdformat).                                   *)
Matches(n) == {p \in Linked : IsDir(Root.mode) /\ EntryAt(p).name = n}
Exists(n) == Matches(n) # {}
Lookup(n) == EntryAt(Min(Matches(n))).inode

(* Where dir_add_entry finds room: in the first of the root's blocks that  *)
(* has an unused entry or does not exist yet.                              *)
Roomy == {k \in Direct : Root.blocks[k] = 0 \/ \E e \in Entry : dirent[Root.blocks[k]][e].inode = 0}

(* What dir_add_entry then has in its buffer.                              *)
Entries(k) == IF Root.blocks[k] = 0 THEN ZeroEntries ELSE dirent[Root.blocks[k]]

-----------------------------------------------------------------------------
(* Creating: touch, mkdir and the first half of write.                     *)

FirstInode_Last == Max(FreeInodes)
FirstInode == Min(FreeInodes)

(* The block fs_create takes for a directory of its own.                   *)
OwnBlocks(type) == IF type = FS_TYPE_DIR THEN {Min(FreeBlocks)} ELSE {}
OwnBlock(type) == IF type = FS_TYPE_DIR THEN Min(FreeBlocks) ELSE 0

(* The block dir_add_entry takes when the directory has to grow.           *)
GrownBlock_Again(own) == Min(FreeBlocks)
GrownBlock(own) == Min(FreeBlocks \ own)

CanStart(n, type) ==
  /\ AtPrompt
  /\ ~Exists(n)
  /\ FreeInodes # {}
  /\ type = FS_TYPE_DIR => FreeBlocks # {}

(* Whether dir_add_entry succeeds once fs_create has taken its blocks.     *)
CanLink(own) ==
  /\ IsDir(Root.mode)
  /\ Roomy # {}
  /\ Root.blocks[Min(Roomy)] = 0 => FreeBlocks \ own # {}

(* fs_create with dir_add_entry.  The bits, the counters, the root inode   *)
(* and the two blocks it may touch, at once.                               *)
Created(n, type) ==
  LET i == FirstInode
      own == OwnBlocks(type)
      k == Min(Roomy)
      at == IF Root.blocks[k] = 0 THEN GrownBlock(own) ELSE Root.blocks[k]
      taken == own \union ({at} \ data_bitmap)
      e == Min({x \in Entry : Entries(k)[x].inode = 0})
  IN  /\ inode_bitmap' = inode_bitmap \union {i}
      /\ free_inodes' = free_inodes - 1
      /\ data_bitmap' = data_bitmap \union taken
      /\ free_blocks' = free_blocks - Cardinality(taken)
      /\ inodes' = [inodes EXCEPT
                      ![i] = NewInode(type, OwnBlock(type)),
                      ![RootInode].blocks[k] = at,
                      ![RootInode].size = @ + 1]
      /\ dirent' = [b \in Blocks |->
                      IF b = at THEN [Entries(k) EXCEPT ![e] = [inode |-> i, name |-> Stored[n]]]
                      ELSE IF b \in own THEN ZeroEntries ELSE dirent[b]]
      /\ bytes' = [b \in Blocks |-> IF b \in taken THEN ZeroBytes ELSE bytes[b]]

Create(n, type) ==
  /\ CanStart(n, type)
  /\ CanLink(OwnBlocks(type))
  /\ Created(n, type)
  /\ UNCHANGED <<fd, formats>>

(* dir_add_entry fails and fs_create gives back the inode and the block it *)
(* had taken.  The inode it wrote and the block it cleared stay as they    *)
(* are on the disk.                                                        *)
CreateUndone_CountsDown(n, type) ==
  /\ CanStart(n, type)
  /\ ~CanLink(OwnBlocks(type))
  /\ free_inodes' = free_inodes - 1
  /\ inodes' = [inodes EXCEPT ![FirstInode] = NewInode(type, OwnBlock(type))]
  /\ UNCHANGED <<inode_bitmap, data_bitmap, free_blocks, dirent, bytes, fd, formats>>
CreateUndone(n, type) ==
  /\ CanStart(n, type)
  /\ ~CanLink(OwnBlocks(type))
  /\ inodes' = [inodes EXCEPT ![FirstInode] = NewInode(type, OwnBlock(type))]
  /\ dirent' = [b \in Blocks |-> IF b \in OwnBlocks(type) THEN ZeroEntries ELSE dirent[b]]
  /\ bytes' = [b \in Blocks |-> IF b \in OwnBlocks(type) THEN ZeroBytes ELSE bytes[b]]
  /\ UNCHANGED <<allocVars, fd, formats>>

(* cmd_touch and cmd_mkdir.                                                *)
Touch(n) == Create(n, FS_TYPE_FILE) \/ CreateUndone(n, FS_TYPE_FILE)
Mkdir(n) == Create(n, FS_TYPE_DIR) \/ CreateUndone(n, FS_TYPE_DIR)

-----------------------------------------------------------------------------
(* Removing: rm.                                                           *)

Gone_FirstOnly(inode) == {inode.blocks[0]} \ {0}
Gone(inode) == {inode.blocks[k] : k \in Chain(inode.blocks)}

(* dir_remove_entry for the entry at position p.                           *)
RemoveEntry(p) ==
  /\ dirent' = [dirent EXCEPT ![Root.blocks[p \div ENTRIES]][p % ENTRIES] = Unused]
  /\ inodes' = [inodes EXCEPT ![RootInode].size = @ - 1]

(* fs_unlink.  It does not tell files from directories.                    *)
Unlink(n) ==
  LET i == Lookup(n)
  IN  /\ inode_bitmap' = inode_bitmap \ {i}
      /\ free_inodes' = free_inodes + 1
      /\ data_bitmap' = data_bitmap \ Gone(inodes[i])
      /\ free_blocks' = free_blocks + Cardinality(Gone(inodes[i]))
      /\ RemoveEntry(Min(Matches(n)))

(* cmd_rm.                                                                 *)
Rm(n) ==
  /\ AtPrompt
  /\ Exists(n)
  /\ Unlink(n)
  /\ UNCHANGED <<bytes, fd, formats>>

-----------------------------------------------------------------------------
(* Writing: write.                                                         *)

Opened(i, inode, text) == [inode |-> i, copy |-> inode, text |-> text, position |-> 0]

(* cmd_write on a file there is: fs_open and the start of fs_write.        *)
WriteOld(n, text) ==
  /\ AtPrompt
  /\ Exists(n)
  /\ fd' = Opened(Lookup(n), inodes[Lookup(n)], text)
  /\ UNCHANGED <<allocVars, inodes, dirent, bytes, formats>>

(* cmd_write on a new file.  The file is opened by the name that was typed *)
(* and not found if the directory stored a shorter one.  (When fs_create   *)
(* fails the command is CreateUndone.)                                     *)
WriteNew(n, text) ==
  /\ CanStart(n, FS_TYPE_FILE)
  /\ CanLink({})
  /\ Created(n, FS_TYPE_FILE)
  /\ fd' = IF Stored[n] = n
             THEN Opened(FirstInode, NewInode(FS_TYPE_FILE, 0), text) ELSE Closed
  /\ UNCHANGED formats

Index == fd.position \div FS_BLOCK_SIZE
AtEnd == fd.position >= Len(fd.text)
Missing == fd.copy.blocks[Index] = 0
Least(a, b) == IF a < b THEN a ELSE b

BlocksLeft_AlwaysLess == free_blocks - 1
BlocksLeft == IF Missing THEN free_blocks - 1 ELSE free_blocks
NewSize_Truncates(size, end) == end
NewSize(size, end) == IF end > size THEN end ELSE size

(* One turn of fs_write's loop.                                            *)
WriteBlock ==
  /\ ~AtPrompt
  /\ ~AtEnd
  /\ Index \in Direct
  /\ Missing => FreeBlocks # {}
  /\ LET b == IF Missing THEN Min(FreeBlocks) ELSE fd.copy.blocks[Index]
         was == IF Missing THEN ZeroBytes ELSE bytes[b]
         off == fd.position % FS_BLOCK_SIZE
         n == Least(Len(fd.text) - fd.position, FS_BLOCK_SIZE - off)
     IN  /\ data_bitmap' = data_bitmap \union {b}
         /\ free_blocks' = BlocksLeft
         /\ bytes' = [bytes EXCEPT ![b] =
                        [o \in Offset |-> IF o \in off..(off + n - 1)
                                            THEN fd.text[fd.position + o - off + 1] ELSE was[o]]]
         /\ fd' = [fd EXCEPT !.position = @ + n,
                             !.copy.blocks[Index] = b,
                             !.copy.size = NewSize(@, fd.position + n)]
  /\ UNCHANGED <<inode_bitmap, free_inodes, inodes, dirent, formats>>

(* The loop is over: all is written, or the file is at its largest, or the *)
(* disk is full.  The inode is stored and the file closed.                 *)
WriteEnd ==
  /\ ~AtPrompt
  /\ (~AtEnd /\ Index \in Direct) => (Missing /\ FreeBlocks = {})
  /\ inodes' = [inodes EXCEPT ![fd.inode] = fd.copy]
  /\ fd' = Closed
  /\ UNCHANGED <<allocVars, dirent, bytes, formats>>

-----------------------------------------------------------------------------
(* Erasing: fsformat and rdformat.                                         *)

Format ==
  /\ AtPrompt
  /\ formats < MaxFormats
  /\ formats' = formats + 1

(* cmd_fsformat: fs_format and fs_init.  Of the disk only the root's inode *)
(* and block 0 are written anew.                                           *)
Fsformat ==
  /\ Format
  /\ inode_bitmap' = {RootInode}
  /\ data_bitmap' = {0}
  /\ free_inodes' = FS_MAX_INODES - 1
  /\ free_blocks' = FS_MAX_DATA_BLOCKS - 1
  /\ inodes' = [inodes EXCEPT ![RootInode] = NewInode(FS_TYPE_DIR, 0)]
  /\ dirent' = [dirent EXCEPT ![0] = ZeroEntries]
  /\ bytes' = [bytes EXCEPT ![0] = ZeroBytes]
  /\ UNCHANGED fd

(* cmd_rdformat clears the disk under the mounted file system.             *)
Rdformat ==
  /\ Format
  /\ inodes' = [i \in Inodes |-> NoInode]
  /\ dirent' = [b \in Blocks |-> ZeroEntries]
  /\ bytes' = [b \in Blocks |-> ZeroBytes]
  /\ UNCHANGED <<allocVars, fd>>

Next ==
  \/ \E n \in Names : Touch(n) \/ Mkdir(n) \/ Rm(n)
  \/ \E n \in Names, text \in Texts : WriteOld(n, text) \/ WriteNew(n, text)
  \/ WriteBlock
  \/ WriteEnd
  \/ Fsformat
  \/ Rdformat

Spec == Init /\ [][Next]_vars
-----------------------------------------------------------------------------
(* Properties.                                                             *)

InodeType == [mode : SUBSET (0..2), size : Nat, blocks : [Direct -> Blocks]]

TypeOK ==
  /\ inode_bitmap \subseteq Inodes
  /\ data_bitmap \subseteq Blocks
  /\ free_inodes \in 0..FS_MAX_INODES
  /\ free_blocks \in 0..FS_MAX_DATA_BLOCKS
  /\ \A i \in Inodes : inodes[i] \in InodeType
  /\ \A b \in Blocks, k \in Entry : dirent[b][k].inode \in Inodes
  /\ \A b \in Blocks, o \in Offset : bytes[b][o] \in Nat
  /\ fd.inode \in Inodes
  /\ fd.copy \in InodeType
  /\ fd.position \in 0..Len(fd.text)
  /\ formats \in 0..MaxFormats

(* The inode as the running command sees it: fs_write's copy, if it is the *)
(* file being written.                                                     *)
Current(i) == IF ~AtPrompt /\ i = fd.inode THEN fd.copy ELSE inodes[i]
Files == {EntryAt(p).inode : p \in Linked}
Owned(i) == {Current(i).blocks[k] : k \in Direct} \ {0}
Mounted == IsDir(Root.mode)

(* The bitmaps mark exactly what the directory reaches: the root, the      *)
(* linked inodes and their blocks (and block 0, which the format reserves  *)
(* and nothing uses).  So no failing step of a command leaks an inode or a *)
(* block, and nothing in use is marked free.                               *)
BitmapsExact ==
  Mounted => /\ inode_bitmap = {RootInode} \union Files
             /\ data_bitmap = {0} \union Owned(RootInode) \union UNION {Owned(i) : i \in Files}

(* No block is in two files, or twice in one; no inode has two entries.    *)
NothingShared ==
  Mounted =>
    /\ \A i, j \in {RootInode} \union Files, k, l \in Direct :
         (<<i, k>> # <<j, l>> /\ Current(i).blocks[k] # 0)
           => Current(i).blocks[k] # Current(j).blocks[l]
    /\ \A p, q \in Linked : p # q => EntryAt(p).inode # EntryAt(q).inode

(* The superblock's counters, which fs_get_stats reports, and the root's   *)
(* size are what they count.                                               *)
CountersExact ==
  /\ free_inodes = FS_MAX_INODES - Cardinality(inode_bitmap)
  /\ free_blocks = FS_MAX_DATA_BLOCKS - Cardinality(data_bitmap)
  /\ Mounted => Root.size = Cardinality(Linked)

(* The bitmap has more inodes than the table has room for: an inode behind *)
(* the table would overwrite data blocks.  None is ever written there, as  *)
(* the directory is full before.                                           *)
InodesInTable == \A i \in Inodes : inodes[i].mode # {} => i < TABLE_INODES

(* What fs_read returns of a whole file: it stops at a missing block.      *)
ReadFile(i) ==
  LET inode == Current(i)
      length == Least(inode.size, FS_BLOCK_SIZE * Cardinality(Chain(inode.blocks)))
  IN  [p \in 1..length |->
         bytes[inode.blocks[(p - 1) \div FS_BLOCK_SIZE]][(p - 1) % FS_BLOCK_SIZE]]

(* cmd_cat: what it shows of a file, if anything.                          *)
Cat(n) ==
  IF Exists(n) /\ inodes[Lookup(n)].mode = FS_TYPE_FILE
    THEN [shown |-> TRUE, text |-> ReadFile(Lookup(n))]
    ELSE [shown |-> FALSE, text |-> <<>>]

Map == INSTANCE FileMap
  WITH files <- [n \in {m \in Names : Exists(m)} |-> ReadFile(Lookup(n))]

(* Seen through path_lookup and fs_read, the disk is a map from names to   *)
(* contents: a command changes the file it names and no other, a write     *)
(* lays a prefix of its text over what was there, and what was removed or  *)
(* never written does not appear in a new file.                            *)
ImplementsFileMap == Map!Spec
=============================================================================
