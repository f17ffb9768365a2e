------------------------------- MODULE FsProofs -------------------------------
(***************************************************************************)
(* Proofs about module Fs: the consistency of WitFS for every size of the  *)
(* disk and of its tables, all names and all texts; then that what the     *)
(* commands make of it implements FileMap.                                 *)
(***************************************************************************)
EXTENDS Fs, KernelLemmas, FiniteSetTheorems, TLAPS

DirEntry == [inode : Inodes, name : {Stored[n] : n \in Names} \union {""}]
OpenFile == [inode : Inodes, copy : InodeType, text : Texts \union {<<>>}, position : Nat]

FsTypes ==
  /\ inode_bitmap \subseteq Inodes
  /\ data_bitmap \subseteq Blocks
  /\ inodes \in [Inodes -> InodeType]
  /\ dirent \in [Blocks -> [Entry -> DirEntry]]
  /\ bytes \in [Blocks -> [Offset -> Nat]]
  /\ fd \in OpenFile
  /\ fd.position <= Len(fd.text)
  /\ formats \in 0..MaxFormats

(* What holds of the bitmaps and the table whatever the disk contains: the *)
(* root's inode and block 0 stay taken, the counters are exact, and no     *)
(* more inodes are taken than the directory can link, which keeps them in  *)
(* the table.                                                              *)
Reserved ==
  /\ RootInode \in inode_bitmap
  /\ 0 \in data_bitmap
  /\ free_inodes = FS_MAX_INODES - Cardinality(inode_bitmap)
  /\ free_blocks = FS_MAX_DATA_BLOCKS - Cardinality(data_bitmap)
  /\ Cardinality(inode_bitmap) <= FS_DIRECT_BLOCKS * ENTRIES + 1
  /\ inode_bitmap \subseteq 0..(TABLE_INODES - 1)
  /\ InodesInTable

(* The blocks of an inode are numbered from the first, so that the loops   *)
(* that end at the first 0 see all of them.                                *)
NoHoles(blocks) == \A k, j \in Direct : (blocks[k] = 0 /\ k < j) => blocks[j] = 0

Contiguous ==
  /\ \A i \in Inodes : NoHoles(inodes[i].blocks)
  /\ NoHoles(fd.copy.blocks)

(* The file being written is linked, and all before the position is there. *)
Writing ==
  /\ ~AtPrompt => Mounted /\ fd.inode \in Files
  /\ \A j \in Direct : j * FS_BLOCK_SIZE < fd.position => fd.copy.blocks[j] # 0

(* The blocks of each inode as the running command sees them, and which    *)
(* inode each used entry of the directory links.                           *)
BlocksNow == [i \in Inodes |-> Current(i).blocks]
Links == [p \in Linked |-> EntryAt(p).inode]

Held(bl, i) == {bl[i][k] : k \in Direct} \ {0}

(* A tidy disk: IB and DB are the bitmaps, bl[i] the blocks of inode i,    *)
(* ent[p] the inode linked at position p.                                  *)
Tidy(IB, DB, bl, ent) ==
  /\ \A p, q \in DOMAIN ent : p # q => ent[p] # ent[q]
  /\ \A p \in DOMAIN ent : ent[p] # RootInode
  /\ IB = {RootInode} \union {ent[p] : p \in DOMAIN ent}
  /\ DB = {0} \union UNION {Held(bl, i) : i \in IB}
  /\ \A i, j \in IB, k, l \in Direct :
       ((i # j \/ k # l) /\ bl[i][k] # 0) => bl[i][k] # bl[j][l]

Consistent ==
  Mounted => /\ Tidy(inode_bitmap, data_bitmap, BlocksNow, Links)
             /\ Root.size = Cardinality(Linked)

FsInv == FsTypes /\ Reserved /\ Contiguous /\ Writing /\ Consistent

-----------------------------------------------------------------------------
(* Sizes.                                                                  *)

(* The constants, as the proofs use them.                                  *)
LEMMA FsSizes ==
  /\ FS_MAX_DATA_BLOCKS \in Nat \ {0} /\ FS_DIRECT_BLOCKS \in Nat \ {0}
  /\ ENTRIES \in Nat \ {0} /\ FS_BLOCK_SIZE \in Nat \ {0}
  /\ FS_MAX_INODES \in Nat /\ TABLE_INODES \in Nat /\ MaxFormats \in Nat
  /\ FS_DIRECT_BLOCKS * ENTRIES \in Nat
  /\ FS_DIRECT_BLOCKS * ENTRIES + 2 <= TABLE_INODES
  /\ TABLE_INODES <= FS_MAX_INODES
  /\ RootInode \in Inodes /\ 0 \in Blocks /\ 0 \in Direct
<1>1. FS_DIRECT_BLOCKS * ENTRIES \in Nat
  BY FsAssumption
<1> QED
  BY <1>1, FsAssumption DEF RootInode, Inodes, Blocks, Direct

(* The bitmaps are finite, and count no more than there is.                *)
LEMMA BitmapsFinite ==
  /\ IsFiniteSet(Inodes) /\ Cardinality(Inodes) = FS_MAX_INODES
  /\ IsFiniteSet(Blocks) /\ Cardinality(Blocks) = FS_MAX_DATA_BLOCKS
  /\ \A S \in SUBSET Inodes : IsFiniteSet(S) /\ Cardinality(S) \in 0..FS_MAX_INODES
  /\ \A S \in SUBSET Blocks : IsFiniteSet(S) /\ Cardinality(S) \in 0..FS_MAX_DATA_BLOCKS
<1>1. IsFiniteSet(Inodes) /\ Cardinality(Inodes) = FS_MAX_INODES
  <2>1. /\ IsFiniteSet(0..(FS_MAX_INODES - 1))
        /\ Cardinality(0..(FS_MAX_INODES - 1))
             = IF 0 > FS_MAX_INODES - 1 THEN 0 ELSE (FS_MAX_INODES - 1) - 0 + 1
    BY FsSizes, FS_Interval
  <2> QED
    BY <2>1, FsSizes DEF Inodes
<1>2. IsFiniteSet(Blocks) /\ Cardinality(Blocks) = FS_MAX_DATA_BLOCKS
  <2>1. /\ IsFiniteSet(0..(FS_MAX_DATA_BLOCKS - 1))
        /\ Cardinality(0..(FS_MAX_DATA_BLOCKS - 1))
             = IF 0 > FS_MAX_DATA_BLOCKS - 1 THEN 0 ELSE (FS_MAX_DATA_BLOCKS - 1) - 0 + 1
    BY FsSizes, FS_Interval
  <2> QED
    BY <2>1, FsSizes DEF Blocks
<1>3. \A S \in SUBSET Inodes : IsFiniteSet(S) /\ Cardinality(S) \in 0..FS_MAX_INODES
  <2> TAKE S \in SUBSET Inodes
  <2>1. IsFiniteSet(S) /\ Cardinality(S) <= FS_MAX_INODES
    BY <1>1, FS_Subset
  <2> QED
    BY <2>1, FS_CardinalityType, FsSizes
<1>4. \A S \in SUBSET Blocks : IsFiniteSet(S) /\ Cardinality(S) \in 0..FS_MAX_DATA_BLOCKS
  <2> TAKE S \in SUBSET Blocks
  <2>1. IsFiniteSet(S) /\ Cardinality(S) <= FS_MAX_DATA_BLOCKS
    BY <1>2, FS_Subset
  <2> QED
    BY <2>1, FS_CardinalityType, FsSizes
<1> QED
  BY <1>1, <1>2, <1>3, <1>4

-----------------------------------------------------------------------------
(* Positions of directory entries.                                         *)

All == 0..(FS_DIRECT_BLOCKS * ENTRIES - 1)
Row(p) == p \div ENTRIES
Col(p) == p % ENTRIES

(* A position is a block of the directory and an entry in it.              *)
LEMMA RowCol ==
  /\ \A p \in All : Row(p) \in Direct /\ Col(p) \in Entry
  /\ \A p, q \in All : Row(p) = Row(q) /\ Col(p) = Col(q) => p = q
  /\ \A k \in Direct, e \in Entry : \E p \in All : Row(p) = k /\ Col(p) = e
<1>1. ASSUME NEW p \in All
      PROVE  /\ Row(p) \in Direct /\ Col(p) \in Entry
             /\ p = Row(p) * ENTRIES + Col(p)
  <2>1. p \in Nat /\ p < FS_DIRECT_BLOCKS * ENTRIES
    BY FsSizes DEF All
  <2>2. /\ p \div ENTRIES \in Nat /\ p % ENTRIES \in 0..(ENTRIES - 1)
        /\ p \div ENTRIES < FS_DIRECT_BLOCKS
        /\ p = (p \div ENTRIES) * ENTRIES + (p % ENTRIES)
    BY <2>1, FsSizes, DivisionBounds
  <2>3. Row(p) \in Nat /\ Row(p) < FS_DIRECT_BLOCKS
    BY <2>2 DEF Row
  <2>4. Row(p) \in Direct
    BY <2>3, FsSizes DEF Direct
  <2> QED
    BY <2>2, <2>4 DEF Row, Col, Entry
<1>2. ASSUME NEW k \in Direct, NEW e \in Entry
      PROVE  \E p \in All : Row(p) = k /\ Col(p) = e
  <2>1. PICK p : p = k * ENTRIES + e
    OBVIOUS
  <2>2. k \in Nat /\ e \in Nat /\ e < ENTRIES /\ k <= FS_DIRECT_BLOCKS - 1 /\ ENTRIES \in Nat
    BY FsSizes DEF Direct, Entry
  <2>3. p \in Nat /\ k * ENTRIES <= p /\ p < (k + 1) * ENTRIES
    <3>1. k * ENTRIES \in Nat /\ (k + 1) * ENTRIES = k * ENTRIES + ENTRIES
      BY <2>2
    <3> QED
      BY <2>1, <2>2, <3>1
  <2>4. (k + 1) * ENTRIES <= FS_DIRECT_BLOCKS * ENTRIES
    BY <2>2, FsSizes
  <2>5. p \in All
    <3>1. (k + 1) * ENTRIES \in Nat
      BY <2>2
    <3> QED
      BY <2>3, <2>4, <3>1, FsSizes DEF All
  <2>6. /\ p \div ENTRIES \in Nat /\ p \div ENTRIES < k + 1 /\ k <= p \div ENTRIES
    <3>1. PICK m : m = k + 1
      OBVIOUS
    <3>2. m \in Nat /\ p < m * ENTRIES
      BY <2>2, <2>3, <3>1
    <3>3. p \div ENTRIES \in Nat /\ p \div ENTRIES < m
      BY <2>3, <3>2, FsSizes, DivisionBounds
    <3>4. k <= p \div ENTRIES
      BY <2>2, <2>3, FsSizes, DivisionBounds
    <3> QED
      BY <3>1, <3>3, <3>4
  <2>7. Row(p) = k
    BY <2>2, <2>6 DEF Row
  <2>8. Col(p) \in Int /\ p = k * ENTRIES + Col(p)
    BY <1>1, <2>5, <2>7 DEF Entry
  <2>9. Col(p) = e
    <3>1. k * ENTRIES \in Nat
      BY <2>2
    <3> QED
      BY <2>1, <2>2, <2>8, <3>1
  <2> QED
    BY <2>5, <2>7, <2>9
<1>3. ASSUME NEW p \in All, NEW q \in All, Row(p) = Row(q), Col(p) = Col(q)
      PROVE  p = q
  BY <1>1, <1>3
<1> QED
  BY <1>1, <1>2, <1>3

(* Without holes, the loop that ends at the first 0 sees every block.      *)
LEMMA ChainIs ==
  ASSUME NEW blocks, NoHoles(blocks)
  PROVE  Chain(blocks) = {k \in Direct : blocks[k] # 0}
<1>1. ASSUME NEW k \in Direct, blocks[k] # 0, NEW j \in 0..k PROVE blocks[j] # 0
  <2>1. j \in Direct /\ (j = k \/ j < k)
    BY FsSizes DEF Direct
  <2> QED
    BY <1>1, <2>1 DEF NoHoles
<1>2. \A k \in Direct : k \in 0..k
  BY FsSizes DEF Direct
<1> QED
  BY <1>1, <1>2 DEF Chain

(* The used entries of a directory with blocks rb on a disk with entries   *)
(* de, and the inodes they link.                                           *)
LinkedIn(rb, de) == {p \in All : rb[Row(p)] # 0 /\ de[rb[Row(p)]][Col(p)].inode # 0}
LinksIn(rb, de) == [p \in LinkedIn(rb, de) |-> de[rb[Row(p)]][Col(p)].inode]

(* The model's scan of the directory is that set, in this state ...        *)
LEMMA LinkedNow ==
  ASSUME NoHoles(Root.blocks)
  PROVE  Linked = LinkedIn(Root.blocks, dirent) /\ Links = LinksIn(Root.blocks, dirent)
<1>1. \A p \in All : p \div ENTRIES \in Chain(Root.blocks) <=> Root.blocks[Row(p)] # 0
  BY ChainIs, RowCol DEF Row
<1>2. Positions = {p \in All : Root.blocks[Row(p)] # 0}
  BY <1>1 DEF Positions, All
<1>3. \A p : EntryAt(p) = dirent[Root.blocks[Row(p)]][Col(p)]
  BY DEF EntryAt, Row, Col
<1>4. Linked = LinkedIn(Root.blocks, dirent)
  BY <1>2, <1>3 DEF Linked, LinkedIn
<1> QED
  BY <1>3, <1>4 DEF Links, LinksIn

(* ... and in the next.                                                    *)
LEMMA LinkedNext ==
  ASSUME NoHoles(Root.blocks)'
  PROVE  Linked' = LinkedIn(Root.blocks', dirent') /\ Links' = LinksIn(Root.blocks', dirent')
<1>0. NoHoles(Root.blocks')
  BY DEF NoHoles
<1>1. \A p \in All : p \div ENTRIES \in Chain(Root.blocks') <=> Root.blocks'[Row(p)] # 0
  BY <1>0, ChainIs, RowCol DEF Row
<1>2. Positions' = {p \in All : Root.blocks'[Row(p)] # 0}
  BY <1>1 DEF Positions, All, Chain
<1>3. \A p : EntryAt(p)' = dirent'[Root.blocks'[Row(p)]][Col(p)]
  BY DEF EntryAt, Row, Col
<1>4. Linked' = LinkedIn(Root.blocks', dirent')
  BY <1>2, <1>3 DEF Linked, LinkedIn
<1> QED
  BY <1>3, <1>4 DEF Links, LinksIn

(* The inode a position of the directory links, or 0.                      *)
Link(rb, de, p) == IF rb[Row(p)] = 0 THEN 0 ELSE de[rb[Row(p)]][Col(p)].inode

(* The used entries are the positions that link an inode.                  *)
LEMMA LinksAre ==
  ASSUME NEW rb, NEW de
  PROVE  /\ LinkedIn(rb, de) = {p \in All : Link(rb, de, p) # 0}
         /\ LinksIn(rb, de) = [p \in LinkedIn(rb, de) |-> Link(rb, de, p)]
<1>1. \A p : Link(rb, de, p) # 0 <=> (rb[Row(p)] # 0 /\ de[rb[Row(p)]][Col(p)].inode # 0)
  BY DEF Link
<1>2. LinkedIn(rb, de) = {p \in All : Link(rb, de, p) # 0}
  BY <1>1 DEF LinkedIn
<1>3. \A p \in LinkedIn(rb, de) : Link(rb, de, p) = de[rb[Row(p)]][Col(p)].inode
  BY DEF Link, LinkedIn
<1> QED
  BY <1>2, <1>3 DEF LinksIn

(* The links more have one more than the links less: inode i, at pos.      *)
OneMore(less, more, pos, i) ==
  /\ pos \notin DOMAIN less
  /\ DOMAIN more = DOMAIN less \union {pos}
  /\ more[pos] = i
  /\ \A p \in DOMAIN less : more[p] = less[p]

(* Directories that differ at one position, unused in the first.           *)
LEMMA OneLinkMore ==
  ASSUME NEW rb, NEW de, NEW rb2, NEW de2, NEW pos \in All, NEW i, i # 0,
         Link(rb, de, pos) = 0, Link(rb2, de2, pos) = i,
         \A p \in All : p # pos => Link(rb2, de2, p) = Link(rb, de, p)
  PROVE  /\ LinkedIn(rb2, de2) = LinkedIn(rb, de) \union {pos}
         /\ pos \notin LinkedIn(rb, de)
         /\ OneMore(LinksIn(rb, de), LinksIn(rb2, de2), pos, i)
<1>1. LinkedIn(rb2, de2) = LinkedIn(rb, de) \union {pos} /\ pos \notin LinkedIn(rb, de)
  BY LinksAre
<1>2. DOMAIN LinksIn(rb, de) = LinkedIn(rb, de) /\ DOMAIN LinksIn(rb2, de2) = LinkedIn(rb2, de2)
  BY DEF LinksIn
<1>3. \A p \in LinkedIn(rb, de) : LinksIn(rb, de)[p] = Link(rb, de, p)
  BY LinksAre
<1>4. \A p \in LinkedIn(rb2, de2) : LinksIn(rb2, de2)[p] = Link(rb2, de2, p)
  BY LinksAre
<1>5. \A p \in LinkedIn(rb, de) : p \in All /\ p # pos
  BY <1>1 DEF LinkedIn
<1> QED
  BY <1>1, <1>2, <1>3, <1>4, <1>5 DEF OneMore

(* No block of the directory is in it twice.                               *)
NoTwins(rb) == \A k, l \in Direct : (k # l /\ rb[k] # 0) => rb[k] # rb[l]

(* dir_add_entry in a block of the directory that has an unused entry.     *)
LEMMA EntryUsed ==
  ASSUME NEW rb, NoTwins(rb), NEW de, NEW de2, NEW k \in Direct, NEW e \in Entry, NEW i, i # 0,
         rb[k] # 0, de[rb[k]][e].inode = 0, de2[rb[k]][e].inode = i,
         \A x \in Entry : x # e => de2[rb[k]][x] = de[rb[k]][x],
         \A l \in Direct : (l # k /\ rb[l] # 0) => de2[rb[l]] = de[rb[l]]
  PROVE  \E pos \in All :
           /\ Row(pos) = k /\ Col(pos) = e
           /\ Link(rb, de, pos) = 0 /\ Link(rb, de2, pos) = i
           /\ \A p \in All : p # pos => Link(rb, de2, p) = Link(rb, de, p)
<1>1. PICK pos \in All : Row(pos) = k /\ Col(pos) = e
  BY RowCol
<1>2. Link(rb, de, pos) = 0 /\ Link(rb, de2, pos) = i
  BY <1>1 DEF Link
<1>3. ASSUME NEW p \in All, p # pos PROVE Link(rb, de2, p) = Link(rb, de, p)
  <2>1. Row(p) \in Direct /\ Col(p) \in Entry /\ (Row(p) # k \/ Col(p) # e)
    BY <1>1, <1>3, RowCol
  <2> QED
    BY <2>1 DEF Link
<1> QED
  BY <1>1, <1>2, <1>3

(* dir_add_entry in a new block.                                           *)
LEMMA EntryGrown ==
  ASSUME NEW rb, NEW rb2, NEW de, NEW de2, NEW k \in Direct, NEW e \in Entry, NEW i, i # 0,
         rb[k] = 0, rb2[k] # 0, de2[rb2[k]][e].inode = i,
         \A x \in Entry : x # e => de2[rb2[k]][x].inode = 0,
         \A l \in Direct : l # k => rb2[l] = rb[l],
         \A l \in Direct : (l # k /\ rb[l] # 0) => de2[rb[l]] = de[rb[l]]
  PROVE  \E pos \in All :
           /\ Link(rb, de, pos) = 0 /\ Link(rb2, de2, pos) = i
           /\ \A p \in All : p # pos => Link(rb2, de2, p) = Link(rb, de, p)
<1>1. PICK pos \in All : Row(pos) = k /\ Col(pos) = e
  BY RowCol
<1>2. Link(rb, de, pos) = 0 /\ Link(rb2, de2, pos) = i
  BY <1>1 DEF Link
<1>3. ASSUME NEW p \in All, p # pos PROVE Link(rb2, de2, p) = Link(rb, de, p)
  <2>1. Row(p) \in Direct /\ Col(p) \in Entry /\ (Row(p) # k \/ Col(p) # e)
    BY <1>1, <1>3, RowCol
  <2>2. CASE Row(p) # k
    BY <2>1, <2>2 DEF Link
  <2>3. CASE Row(p) = k
    <3>1. Link(rb, de, p) = 0
      BY <2>3 DEF Link
    <3>2. Link(rb2, de2, p) = 0
      BY <2>1, <2>3 DEF Link
    <3> QED
      BY <3>1, <3>2
  <2> QED
    BY <2>2, <2>3
<1> QED
  BY <1>1, <1>2, <1>3

-----------------------------------------------------------------------------
(* What keeps a disk tidy.                                                 *)

(* The blocks of inodes that are not taken do not matter.                  *)
LEMMA TidySame ==
  ASSUME NEW IB, NEW DB, NEW bl, NEW bl2, NEW ent, Tidy(IB, DB, bl, ent),
         \A i \in IB : bl2[i] = bl[i]
  PROVE  Tidy(IB, DB, bl2, ent)
<1>1. \A i \in IB : Held(bl2, i) = Held(bl, i)
  BY DEF Held
<1>2. UNION {Held(bl2, i) : i \in IB} = UNION {Held(bl, i) : i \in IB}
  BY <1>1
<1> QED
  BY <1>2 DEF Tidy

(* An inode gets a free block.                                             *)
LEMMA TidyGrow ==
  ASSUME NEW IB, NEW DB, NEW bl, NEW bl2, NEW ent, Tidy(IB, DB, bl, ent),
         NEW i \in IB, NEW k \in Direct, NEW b, bl[i][k] = 0, b \notin DB,
         bl2[i][k] = b,
         \A l \in Direct : l # k => bl2[i][l] = bl[i][l],
         \A j \in IB : j # i => bl2[j] = bl[j]
  PROVE  Tidy(IB, DB \union {b}, bl2, ent)
<1>1. DB = {0} \union UNION {Held(bl, j) : j \in IB}
  BY DEF Tidy
<1>2. b # 0 /\ \A j \in IB : b \notin Held(bl, j)
  BY <1>1
<1>3. \A j \in IB, l \in Direct : bl[j][l] # b
  BY <1>2 DEF Held
<1>4. Held(bl2, i) = Held(bl, i) \union {b}
  BY <1>2 DEF Held
<1>5. \A j \in IB : j # i => Held(bl2, j) = Held(bl, j)
  BY DEF Held
<1>6. UNION {Held(bl2, j) : j \in IB} = {b} \union UNION {Held(bl, j) : j \in IB}
  BY <1>4, <1>5
<1>7. ASSUME NEW j \in IB, NEW m \in IB, NEW l \in Direct, NEW h \in Direct,
             j # m \/ l # h, bl2[j][l] # 0
      PROVE  bl2[j][l] # bl2[m][h]
  <2>1. /\ bl2[j][l] = bl[j][l] \/ (j = i /\ l = k /\ bl2[j][l] = b)
        /\ bl2[m][h] = bl[m][h] \/ (m = i /\ h = k /\ bl2[m][h] = b)
    OBVIOUS
  <2>2. bl[j][l] # 0 => bl[j][l] # bl[m][h]
    BY <1>7 DEF Tidy
  <2> QED
    BY <1>3, <1>7, <2>1, <2>2
<1> QED
  BY <1>1, <1>6, <1>7 DEF Tidy

(* A free inode is taken for a file without blocks, and linked.            *)
LEMMA TidyNewFile ==
  ASSUME NEW IB, NEW DB, NEW bl, NEW bl2, NEW ent, NEW ent2, Tidy(IB, DB, bl, ent),
         NEW i, i \notin IB, NEW pos, OneMore(ent, ent2, pos, i),
         \A k \in Direct : bl2[i][k] = 0,
         \A j \in IB : bl2[j] = bl[j]
  PROVE  Tidy(IB \union {i}, DB, bl2, ent2)
<1>1. Held(bl2, i) = {}
  BY DEF Held
<1>2. \A j \in IB : Held(bl2, j) = Held(bl, j)
  BY DEF Held
<1>3. UNION {Held(bl2, j) : j \in IB \union {i}} = UNION {Held(bl, j) : j \in IB}
  BY <1>1, <1>2
<1>4. i # RootInode /\ \A p \in DOMAIN ent : ent[p] \in IB
  BY DEF Tidy
<1>5. /\ \A p, q \in DOMAIN ent2 : p # q => ent2[p] # ent2[q]
      /\ \A p \in DOMAIN ent2 : ent2[p] # RootInode
      /\ IB \union {i} = {RootInode} \union {ent2[p] : p \in DOMAIN ent2}
  BY <1>4 DEF OneMore, Tidy
<1>6. \A j, m \in IB \union {i}, l, h \in Direct :
        ((j # m \/ l # h) /\ bl2[j][l] # 0) => bl2[j][l] # bl2[m][h]
  BY DEF Tidy
<1> QED
  BY <1>3, <1>5, <1>6 DEF Tidy

(* A file is unlinked and its inode and its blocks given back.             *)
LEMMA TidyDrop ==
  ASSUME NEW IB, NEW DB, NEW bl, NEW bl2, NEW ent, NEW ent2, Tidy(IB, DB, bl, ent),
         NEW i, NEW pos, OneMore(ent2, ent, pos, i),
         \A j \in IB : j # i => bl2[j] = bl[j]
  PROVE  Tidy(IB \ {i}, DB \ Held(bl, i), bl2, ent2)
<1>1. i # RootInode /\ i \in IB
  BY DEF Tidy, OneMore
<1>2. \A p \in DOMAIN ent2 : ent2[p] # i
  BY DEF Tidy, OneMore
<1>3. /\ \A p, q \in DOMAIN ent2 : p # q => ent2[p] # ent2[q]
      /\ \A p \in DOMAIN ent2 : ent2[p] # RootInode
      /\ IB \ {i} = {RootInode} \union {ent2[p] : p \in DOMAIN ent2}
  BY <1>1, <1>2 DEF Tidy, OneMore
<1>4. \A j \in IB : j # i => Held(bl, j) \cap Held(bl, i) = {} /\ Held(bl2, j) = Held(bl, j)
  BY <1>1 DEF Tidy, Held
<1>5. 0 \notin Held(bl, i)
  BY DEF Held
<1>6. DB = {0} \union UNION {Held(bl, j) : j \in IB}
  BY DEF Tidy
<1>7. DB \ Held(bl, i) = {0} \union UNION {Held(bl2, j) : j \in IB \ {i}}
  BY <1>1, <1>4, <1>5, <1>6
<1>8. \A j, m \in IB \ {i}, l, h \in Direct :
        ((j # m \/ l # h) /\ bl2[j][l] # 0) => bl2[j][l] # bl2[m][h]
  BY DEF Tidy
<1> QED
  BY <1>3, <1>7, <1>8 DEF Tidy

-----------------------------------------------------------------------------
(* Counting.                                                               *)

(* As many inodes as the directory links, and the root.                    *)
LEMMA LinkedFew ==
  ASSUME NEW IB, NEW DB, NEW bl, NEW ent, Tidy(IB, DB, bl, ent),
         DOMAIN ent \subseteq All, ent = [p \in DOMAIN ent |-> ent[p]]
  PROVE  IsFiniteSet(IB) /\ Cardinality(IB) <= FS_DIRECT_BLOCKS * ENTRIES + 1
<1>1. IsFiniteSet(All) /\ Cardinality(All) = FS_DIRECT_BLOCKS * ENTRIES
  <2>1. PICK m \in Nat : m = FS_DIRECT_BLOCKS * ENTRIES
    BY FsSizes
  <2>2. IsFiniteSet(0..(m - 1)) /\ Cardinality(0..(m - 1)) = m
    <3>1. 0 \in Int /\ m - 1 \in Int
      OBVIOUS
    <3>2. /\ IsFiniteSet(0..(m - 1))
          /\ Cardinality(0..(m - 1)) = IF 0 > m - 1 THEN 0 ELSE (m - 1) - 0 + 1
      BY <3>1, FS_Interval
    <3> QED
      BY <3>2
  <2> QED
    BY <2>1, <2>2 DEF All
<1>2. PICK D : D = DOMAIN ent
  OBVIOUS
<1>3. PICK R : R = {ent[p] : p \in DOMAIN ent}
  OBVIOUS
<1>4. /\ IsFiniteSet(D)
      /\ Cardinality(D) \in Nat
      /\ Cardinality(D) <= FS_DIRECT_BLOCKS * ENTRIES
  BY <1>1, <1>2, FS_Subset, FS_CardinalityType
<1>5. ent \in Surjection(D, R)
  BY <1>2, <1>3 DEF Surjection
<1>6. IsFiniteSet(R) /\ Cardinality(R) <= Cardinality(D) /\ Cardinality(R) \in Nat
  BY <1>4, <1>5, FS_Surjection, FS_CardinalityType
<1>7. IB = R \union {RootInode}
  BY <1>3 DEF Tidy
<1>8. IsFiniteSet(IB) /\ Cardinality(IB) <= Cardinality(R) + 1
  <2>1. /\ IsFiniteSet(R \union {RootInode})
        /\ Cardinality(R \union {RootInode})
             = IF RootInode \in R THEN Cardinality(R) ELSE Cardinality(R) + 1
    BY <1>6, FS_AddElement
  <2> QED
    BY <1>6, <1>7, <2>1
<1>9. Cardinality(IB) \in Nat
  BY <1>8, FS_CardinalityType
<1> QED
  BY <1>4, <1>6, <1>8, <1>9, FsSizes

(* The first free inode is in the table when the directory can link all    *)
(* that are taken: the inodes before it are taken.                         *)
LEMMA FirstInTable ==
  ASSUME FsTypes, Reserved, FreeInodes # {}
  PROVE  /\ FirstInode \in Inodes /\ FirstInode \notin inode_bitmap
         /\ FirstInode # RootInode
         /\ FirstInode < TABLE_INODES
<1>1. FreeInodes \subseteq Nat
  BY FsSizes DEF FreeInodes, Inodes
<1>2. PICK m : m = FirstInode
  OBVIOUS
<1>3. m \in FreeInodes /\ \A y \in FreeInodes : m <= y
  BY <1>1, <1>2, LeastIs DEF FirstInode
<1>4. m \in Nat /\ m \in Inodes /\ m \notin inode_bitmap
  BY <1>1, <1>3 DEF FreeInodes
<1>5. 0..(m - 1) \subseteq inode_bitmap
  <2>1. ASSUME NEW y \in 0..(m - 1), y \notin inode_bitmap PROVE FALSE
    <3>1. y \in FreeInodes
      BY <1>4, <2>1, FsSizes DEF FreeInodes, Inodes
    <3> QED
      BY <1>3, <1>4, <2>1, <3>1
  <2> QED
    BY <2>1
<1>6. IsFiniteSet(0..(m - 1)) /\ Cardinality(0..(m - 1)) = m
  BY <1>4, FS_Interval
<1>7. IsFiniteSet(inode_bitmap) /\ Cardinality(inode_bitmap) \in Nat
  BY BitmapsFinite, FsSizes DEF FsTypes
<1>8. m <= Cardinality(inode_bitmap)
  BY <1>5, <1>6, <1>7, FS_Subset
<1>9. Cardinality(inode_bitmap) <= FS_DIRECT_BLOCKS * ENTRIES + 1
  BY DEF Reserved
<1>10. m < TABLE_INODES
  BY <1>4, <1>7, <1>8, <1>9, FsSizes
<1> QED
  BY <1>2, <1>4, <1>10 DEF Reserved

(* Bits that are set or cleared together with the counter.                 *)
LEMMA BitsCounted ==
  ASSUME NEW T, IsFiniteSet(T), NEW S \in SUBSET T, NEW U \in SUBSET T
  PROVE  /\ IsFiniteSet(S) /\ IsFiniteSet(U)
         /\ Cardinality(S) \in Nat /\ Cardinality(U) \in Nat
         /\ S \cap U = {} => Cardinality(S \union U) = Cardinality(S) + Cardinality(U)
         /\ U \subseteq S => Cardinality(S \ U) = Cardinality(S) - Cardinality(U)
<1>1. /\ IsFiniteSet(S) /\ IsFiniteSet(U)
      /\ Cardinality(S) \in Nat /\ Cardinality(U) \in Nat
  BY FS_Subset, FS_CardinalityType
<1>2. ASSUME S \cap U = {} PROVE Cardinality(S \union U) = Cardinality(S) + Cardinality(U)
  <2>1. Cardinality(S \cap U) = 0
    BY <1>2, FS_EmptySet
  <2>2. Cardinality(S \union U) = Cardinality(S) + Cardinality(U) - Cardinality(S \cap U)
    BY <1>1, FS_Union
  <2> QED
    BY <1>1, <2>1, <2>2
<1>3. ASSUME U \subseteq S PROVE Cardinality(S \ U) = Cardinality(S) - Cardinality(U)
  <2>1. S \cap U = U
    BY <1>3
  <2> QED
    BY <1>1, <2>1, FS_Difference
<1> QED
  BY <1>1, <1>2, <1>3

-----------------------------------------------------------------------------
(* The state between commands.                                             *)

(* What the proofs of the commands use of the invariant.                   *)
LEMMA FsFacts ==
  ASSUME FsInv
  PROVE  /\ NoHoles(Root.blocks)
         /\ Root \in InodeType /\ Root.blocks \in [Direct -> Blocks]
         /\ Linked = LinkedIn(Root.blocks, dirent) /\ Links = LinksIn(Root.blocks, dirent)
         /\ DOMAIN Links = Linked
         /\ \A b \in FreeBlocks : b \in Blocks /\ b # 0 /\ b \notin data_bitmap
         /\ AtPrompt => BlocksNow = [i \in Inodes |-> inodes[i].blocks]
<1>1. NoHoles(Root.blocks)
  BY FsSizes DEF FsInv, Contiguous, Root
<1>2. Root \in InodeType /\ Root.blocks \in [Direct -> Blocks]
  BY FsSizes DEF FsInv, FsTypes, Root, InodeType
<1>3. Linked = LinkedIn(Root.blocks, dirent) /\ Links = LinksIn(Root.blocks, dirent)
  BY <1>1, LinkedNow
<1>4. DOMAIN Links = Linked
  BY DEF Links
<1>5. \A b \in FreeBlocks : b \in Blocks /\ b # 0 /\ b \notin data_bitmap
  BY DEF FsInv, Reserved, FreeBlocks
<1>6. AtPrompt => BlocksNow = [i \in Inodes |-> inodes[i].blocks]
  BY DEF BlocksNow, Current
<1> QED
  BY <1>1, <1>2, <1>3, <1>4, <1>5, <1>6

(* ... and when the file system is mounted.                                *)
LEMMA MountedFacts ==
  ASSUME FsInv, Mounted
  PROVE  /\ Tidy(inode_bitmap, data_bitmap, BlocksNow, Links)
         /\ Root.size = Cardinality(Linked)
         /\ RootInode \in inode_bitmap /\ RootInode \notin Files
         /\ Files = {Links[p] : p \in Linked}
         /\ Files \subseteq inode_bitmap
         /\ \A i \in inode_bitmap, k \in Direct : BlocksNow[i][k] \in data_bitmap
         /\ BlocksNow[RootInode] = Root.blocks
         /\ NoTwins(Root.blocks)
<1>1. Tidy(inode_bitmap, data_bitmap, BlocksNow, Links) /\ Root.size = Cardinality(Linked)
  BY DEF FsInv, Consistent
<1>2. DOMAIN Links = Linked /\ \A p \in Linked : Links[p] = EntryAt(p).inode
  BY DEF Links
<1>3. Files = {Links[p] : p \in Linked}
  BY <1>2 DEF Files
<1>4. /\ RootInode \in inode_bitmap /\ RootInode \notin Files
      /\ Files \subseteq inode_bitmap
  BY <1>1, <1>2, <1>3 DEF Tidy
<1>5. ASSUME NEW i \in inode_bitmap, NEW k \in Direct PROVE BlocksNow[i][k] \in data_bitmap
  <2>1. data_bitmap = {0} \union UNION {Held(BlocksNow, j) : j \in inode_bitmap}
    BY <1>1 DEF Tidy
  <2>2. BlocksNow[i][k] = 0 \/ BlocksNow[i][k] \in Held(BlocksNow, i)
    BY DEF Held
  <2> QED
    BY <2>1, <2>2
<1>6. AtPrompt \/ fd.inode # RootInode
  BY <1>4 DEF FsInv, Writing
<1>7. BlocksNow[RootInode] = Root.blocks
  BY <1>6, FsSizes DEF BlocksNow, Current, Root
<1>8. NoTwins(Root.blocks)
  BY <1>1, <1>4, <1>7 DEF Tidy, NoTwins
<1> QED
  BY <1>1, <1>3, <1>4, <1>5, <1>7, <1>8

-----------------------------------------------------------------------------
(* Creating a file or a directory.                                         *)

DiskTypes ==
  /\ inode_bitmap \subseteq Inodes
  /\ data_bitmap \subseteq Blocks
  /\ inodes \in [Inodes -> InodeType]
  /\ dirent \in [Blocks -> [Entry -> DirEntry]]
  /\ bytes \in [Blocks -> [Offset -> Nat]]

(* What fs_create chooses: inode i, the blocks own for the directory it    *)
(* creates (block ob, or none), and entry e of the root's k-th block at.   *)
Chosen(i, own, ob, k, at, e) ==
  /\ i \in Inodes /\ i \notin inode_bitmap /\ i # RootInode /\ i < TABLE_INODES
  /\ own \subseteq FreeBlocks
  /\ (own = {} /\ ob = 0) \/ own = {ob}
  /\ k \in Direct
  /\ \A j \in Direct : j < k => Root.blocks[j] # 0
  /\ at \in Blocks /\ at # 0
  /\ \/ Root.blocks[k] = 0 /\ at \notin data_bitmap /\ at \notin own
     \/ Root.blocks[k] = at /\ at \in data_bitmap /\ dirent[at][e].inode = 0
  /\ e \in Entry

(* What it then does to the disk, under the name n.                        *)
Stores(n, i, own, ob, k, at, e) ==
  /\ inode_bitmap' = inode_bitmap \union {i}
  /\ free_inodes' = free_inodes - 1
  /\ data_bitmap' = data_bitmap \union (own \union ({at} \ data_bitmap))
  /\ free_blocks' = free_blocks - Cardinality(own \union ({at} \ data_bitmap))
  /\ inodes'[i].blocks = [NoBlocks EXCEPT ![0] = ob]
  /\ inodes'[RootInode].blocks = [Root.blocks EXCEPT ![k] = at]
  /\ inodes'[RootInode].size = Root.size + 1
  /\ inodes'[RootInode].mode = Root.mode
  /\ \A j \in Inodes : (j # RootInode /\ j # i) => inodes'[j] = inodes[j]
  /\ dirent'[at][e].inode = i
  /\ dirent'[at][e].name = Stored[n]
  /\ Root.blocks[k] = 0 => \A x \in Entry : x # e => dirent'[at][x].inode = 0
  /\ Root.blocks[k] # 0 => \A x \in Entry : x # e => dirent'[at][x] = dirent[at][x]
  /\ \A b \in Blocks : (b # at /\ b \notin own) => dirent'[b] = dirent[b]
  /\ \A b \in data_bitmap : bytes'[b] = bytes[b]

(* The values of a new inode, a new entry and a cleared block.             *)
LEMMA NewValues ==
  /\ NoBlocks \in [Direct -> Blocks] /\ \A k \in Direct : NoBlocks[k] = 0
  /\ NoInode \in InodeType /\ NoInode.blocks = NoBlocks /\ NoInode.size = 0 /\ NoInode.mode = {}
  /\ \A type \in {FS_TYPE_FILE, FS_TYPE_DIR}, b \in Blocks :
       /\ NewInode(type, b) \in InodeType
       /\ NewInode(type, b).blocks = [NoBlocks EXCEPT ![0] = b]
       /\ NewInode(type, b).size = 0
       /\ IsDir(NewInode(type, b).mode)
       /\ NoHoles(NewInode(type, b).blocks)
  /\ NoHoles(NoBlocks)
  /\ Unused \in DirEntry /\ Unused.inode = 0
  /\ ZeroEntries \in [Entry -> DirEntry] /\ \A k \in Entry : ZeroEntries[k].inode = 0
  /\ ZeroBytes \in [Offset -> Nat]
<1>1. NoBlocks \in [Direct -> Blocks] /\ \A k \in Direct : NoBlocks[k] = 0
  BY FsSizes DEF NoBlocks
<1>2. /\ NoInode \in InodeType /\ NoInode.blocks = NoBlocks
      /\ NoInode.size = 0 /\ NoInode.mode = {}
  BY <1>1 DEF NoInode, InodeType
<1>3. ASSUME NEW type \in {FS_TYPE_FILE, FS_TYPE_DIR}, NEW b \in Blocks
      PROVE  /\ NewInode(type, b) \in InodeType
             /\ NewInode(type, b).blocks = [NoBlocks EXCEPT ![0] = b]
             /\ NewInode(type, b).size = 0
             /\ IsDir(NewInode(type, b).mode)
             /\ NoHoles(NewInode(type, b).blocks)
  <2>1. [NoBlocks EXCEPT ![0] = b] \in [Direct -> Blocks]
    BY <1>1
  <2>2. type \union FS_PERM_DEFAULT \in SUBSET (0..2)
    BY DEF FS_TYPE_FILE, FS_TYPE_DIR, FS_PERM_DEFAULT
  <2>3. /\ NewInode(type, b).blocks = [NoBlocks EXCEPT ![0] = b]
        /\ NewInode(type, b).size = 0
        /\ NewInode(type, b).mode = type \union FS_PERM_DEFAULT
    BY DEF NewInode
  <2>4. NewInode(type, b) \in InodeType
    BY <2>1, <2>2 DEF NewInode, InodeType
  <2>5. IsDir(NewInode(type, b).mode)
    BY <2>3 DEF IsDir, FS_TYPE_DIR, FS_PERM_DEFAULT
  <2>6. NoHoles([NoBlocks EXCEPT ![0] = b])
    BY <1>1, FsSizes DEF NoHoles, Direct
  <2> QED
    BY <2>3, <2>4, <2>5, <2>6
<1>4. NoHoles(NoBlocks)
  BY <1>1 DEF NoHoles
<1>5. Unused \in DirEntry /\ Unused.inode = 0
  BY FsSizes DEF Unused, DirEntry, RootInode
<1>6. ZeroEntries \in [Entry -> DirEntry] /\ \A k \in Entry : ZeroEntries[k].inode = 0
  BY <1>5 DEF ZeroEntries
<1>7. ZeroBytes \in [Offset -> Nat]
  BY DEF ZeroBytes
<1> QED
  BY <1>1, <1>2, <1>3, <1>4, <1>5, <1>6, <1>7

(* The block fs_create takes for a directory of its own is free.           *)
LEMMA OwnFree ==
  ASSUME FsInv, NEW type \in {FS_TYPE_FILE, FS_TYPE_DIR},
         type = FS_TYPE_DIR => FreeBlocks # {}
  PROVE  /\ OwnBlocks(type) \subseteq FreeBlocks
         /\ (OwnBlocks(type) = {} /\ OwnBlock(type) = 0) \/ OwnBlocks(type) = {OwnBlock(type)}
         /\ OwnBlock(type) \in Blocks
<1>1. FreeBlocks \subseteq Nat
  BY FsSizes DEF FreeBlocks, Blocks
<1>2. CASE type = FS_TYPE_DIR
  BY <1>1, <1>2, LeastIs DEF OwnBlocks, OwnBlock, FreeBlocks
<1>3. CASE type # FS_TYPE_DIR
  BY <1>3, FsSizes DEF OwnBlocks, OwnBlock
<1> QED
  BY <1>2, <1>3

(* fs_create, as it chooses and stores.                                    *)
LEMMA CreateStores ==
  ASSUME FsInv, NEW n \in Names, NEW type \in {FS_TYPE_FILE, FS_TYPE_DIR},
         FreeInodes # {}, type = FS_TYPE_DIR => FreeBlocks # {},
         CanLink(OwnBlocks(type)), Created(n, type)
  PROVE  /\ Mounted
         /\ \E k, at, e :
              /\ Chosen(FirstInode, OwnBlocks(type), OwnBlock(type), k, at, e)
              /\ Stores(n, FirstInode, OwnBlocks(type), OwnBlock(type), k, at, e)
         /\ inodes'[FirstInode] = NewInode(type, OwnBlock(type))
         /\ DiskTypes'
<1>1. PICK i, own, ob, k, rb : /\ i = FirstInode /\ own = OwnBlocks(type) /\ ob = OwnBlock(type)
                               /\ k = Min(Roomy) /\ rb = Root.blocks
  OBVIOUS
<1>2. PICK at : at = IF rb[k] = 0 THEN GrownBlock(own) ELSE rb[k]
  OBVIOUS
<1>3. PICK buf : buf = Entries(k)
  OBVIOUS
<1>4. PICK e : e = Min({x \in Entry : buf[x].inode = 0})
  OBVIOUS
<1>5. PICK taken : taken = own \union ({at} \ data_bitmap)
  OBVIOUS
<1>6. /\ inode_bitmap' = inode_bitmap \union {i}
      /\ free_inodes' = free_inodes - 1
      /\ data_bitmap' = data_bitmap \union taken
      /\ free_blocks' = free_blocks - Cardinality(taken)
      /\ inodes' = [inodes EXCEPT
                      ![i] = NewInode(type, ob),
                      ![RootInode].blocks[k] = at,
                      ![RootInode].size = @ + 1]
      /\ dirent' = [b \in Blocks |->
                      IF b = at THEN [buf EXCEPT ![e] = [inode |-> i, name |-> Stored[n]]]
                      ELSE IF b \in own THEN ZeroEntries ELSE dirent[b]]
      /\ bytes' = [b \in Blocks |-> IF b \in taken THEN ZeroBytes ELSE bytes[b]]
  BY <1>1, <1>2, <1>3, <1>4, <1>5, Zenon DEF Created
<1>7. Mounted
  BY DEF CanLink, Mounted
<1>8. /\ FsTypes /\ 0 \in data_bitmap /\ RootInode \in Inodes
      /\ rb \in [Direct -> Blocks] /\ Root \in InodeType
  BY <1>1, FsFacts, FsSizes DEF FsInv, Reserved
<1>9. i \in Inodes /\ i \notin inode_bitmap /\ i # RootInode /\ i < TABLE_INODES
  BY <1>1, FirstInTable DEF FsInv
<1>10. /\ own \subseteq FreeBlocks /\ ob \in Blocks
       /\ (own = {} /\ ob = 0) \/ own = {ob}
  BY <1>1, OwnFree
<1>11. k \in Roomy /\ k \in Direct /\ \A j \in Direct : j < k => rb[j] # 0
  <2>1. Roomy # {} /\ Roomy \subseteq Nat
    BY FsSizes DEF CanLink, Roomy, Direct
  <2>2. k \in Roomy /\ \A j \in Roomy : k <= j
    BY <1>1, <2>1, LeastIs
  <2>3. k \in Nat /\ Direct \subseteq Nat
    BY <2>1, <2>2, FsSizes DEF Direct
  <2>4. ASSUME NEW j \in Direct, j < k PROVE rb[j] # 0
    <3>1. j \notin Roomy
      BY <2>2, <2>3, <2>4
    <3> QED
      BY <1>1, <3>1 DEF Roomy
  <2> QED
    BY <2>2, <2>4 DEF Roomy
<1>12. /\ at \in Blocks /\ at # 0
       /\ \/ rb[k] = 0 /\ at \notin data_bitmap /\ at \notin own
          \/ rb[k] # 0 /\ rb[k] = at /\ at \in data_bitmap
  <2>1. CASE rb[k] = 0
    <3>1. FreeBlocks \ own # {} /\ FreeBlocks \subseteq Nat
      BY <1>1, <2>1, FsSizes DEF CanLink, FreeBlocks, Blocks
    <3>2. at \in FreeBlocks \ own
      BY <1>2, <2>1, <3>1, LeastIs DEF GrownBlock
    <3> QED
      BY <1>8, <2>1, <3>2 DEF FreeBlocks
  <2>2. CASE rb[k] # 0
    <3>1. at = rb[k]
      BY <1>2, <2>2
    <3>2. rb[k] \in data_bitmap
      BY <1>1, <1>7, <1>11, MountedFacts
    <3> QED
      BY <1>8, <1>11, <2>2, <3>1, <3>2
  <2> QED
    BY <2>1, <2>2
<1>13. /\ buf \in [Entry -> DirEntry]
       /\ rb[k] = 0 => \A x \in Entry : buf[x].inode = 0
       /\ rb[k] # 0 => buf = dirent[at]
  <2>1. rb[k] = 0 => buf = ZeroEntries
    BY <1>1, <1>3 DEF Entries
  <2>2. rb[k] # 0 => buf = dirent[rb[k]]
    BY <1>1, <1>3 DEF Entries
  <2>3. dirent \in [Blocks -> [Entry -> DirEntry]]
    BY <1>8 DEF FsTypes
  <2> QED
    BY <1>12, <2>1, <2>2, <2>3, NewValues
<1>14. e \in Entry /\ buf[e].inode = 0
  <2> DEFINE F == {x \in Entry : buf[x].inode = 0}
  <2>1. F # {}
    <3>1. CASE rb[k] = 0
      BY <1>13, <3>1, FsSizes DEF Entry
    <3>2. CASE rb[k] # 0
      BY <1>1, <1>11, <1>12, <1>13, <3>2 DEF Roomy
    <3> QED
      BY <3>1, <3>2
  <2>2. F \subseteq Nat
    BY FsSizes DEF Entry
  <2>3. Min(F) \in F
    BY <2>1, <2>2, LeastIs
  <2> QED
    BY <1>4, <2>3
<1>15. [inode |-> i, name |-> Stored[n]] \in DirEntry
  BY <1>9 DEF DirEntry
<1>16. PICK root : root = [inodes[RootInode] EXCEPT !.blocks[k] = at, !.size = @ + 1]
  OBVIOUS
<1>17. /\ root \in InodeType
       /\ root.blocks = [rb EXCEPT ![k] = at]
       /\ root.size = Root.size + 1
       /\ root.mode = Root.mode
  <2>1. PICK r : r = inodes[RootInode]
    OBVIOUS
  <2>2. r \in InodeType /\ r.blocks = rb /\ Root = r
    BY <1>1, <1>8, <2>1 DEF Root
  <2>3. root = [r EXCEPT !.blocks[k] = at, !.size = @ + 1]
    BY <1>16, <2>1
  <2>4. PICK blocks : blocks = [rb EXCEPT ![k] = at]
    OBVIOUS
  <2>5. blocks \in [Direct -> Blocks]
    BY <1>8, <1>11, <1>12, <2>4
  <2>6. root = [mode |-> r.mode, size |-> r.size + 1, blocks |-> blocks]
    BY <2>2, <2>3, <2>4 DEF InodeType
  <2> QED
    BY <2>2, <2>4, <2>5, <2>6 DEF InodeType
<1>18. /\ inodes' \in [Inodes -> InodeType]
       /\ inodes'[i] = NewInode(type, ob)
       /\ inodes'[RootInode] = root
       /\ \A j \in Inodes : (j # RootInode /\ j # i) => inodes'[j] = inodes[j]
  <2>1. NewInode(type, ob) \in InodeType /\ inodes \in [Inodes -> InodeType]
    BY <1>8, <1>10, NewValues DEF FsTypes
  <2>2. inodes' = [inodes EXCEPT ![i] = NewInode(type, ob), ![RootInode] = root]
    BY <1>1, <1>6, <1>8, <1>9, <1>16, <1>17, <2>1 DEF Root
  <2> QED
    BY <1>8, <1>9, <1>17, <2>1, <2>2
<1>19. inodes'[i].blocks = [NoBlocks EXCEPT ![0] = ob]
  BY <1>10, <1>18, NewValues
<1>20. /\ dirent' \in [Blocks -> [Entry -> DirEntry]]
       /\ dirent'[at] = [buf EXCEPT ![e] = [inode |-> i, name |-> Stored[n]]]
       /\ \A b \in Blocks : (b # at /\ b \notin own) => dirent'[b] = dirent[b]
  <2>1. dirent \in [Blocks -> [Entry -> DirEntry]] /\ ZeroEntries \in [Entry -> DirEntry]
    BY <1>8, NewValues DEF FsTypes
  <2>2. [buf EXCEPT ![e] = [inode |-> i, name |-> Stored[n]]] \in [Entry -> DirEntry]
    BY <1>13, <1>15
  <2> QED
    BY <1>6, <1>12, <2>1, <2>2
<1>21. /\ dirent'[at][e].inode = i /\ dirent'[at][e].name = Stored[n]
       /\ \A x \in Entry : x # e => dirent'[at][x] = buf[x]
  BY <1>13, <1>14, <1>20
<1>22. Chosen(i, own, ob, k, at, e)
  BY <1>1, <1>9, <1>10, <1>11, <1>12, <1>13, <1>14 DEF Chosen
<1>23. Stores(n, i, own, ob, k, at, e)
  <2>1. Root.blocks[k] = 0 => \A x \in Entry : x # e => dirent'[at][x].inode = 0
    BY <1>1, <1>13, <1>21
  <2>2. Root.blocks[k] # 0 => \A x \in Entry : x # e => dirent'[at][x] = dirent[at][x]
    BY <1>1, <1>13, <1>21
  <2>3. \A b \in data_bitmap : bytes'[b] = bytes[b]
    BY <1>5, <1>6, <1>8, <1>10 DEF FsTypes, FreeBlocks
  <2> QED
    BY <1>1, <1>5, <1>6, <1>17, <1>18, <1>19, <1>20, <1>21, <2>1, <2>2, <2>3 DEF Stores
<1>24. DiskTypes'
  <2>1. inode_bitmap' \subseteq Inodes /\ data_bitmap' \subseteq Blocks
    BY <1>5, <1>6, <1>8, <1>9, <1>10, <1>12 DEF FsTypes, FreeBlocks
  <2>2. bytes' \in [Blocks -> [Offset -> Nat]]
    BY <1>6, <1>8, NewValues DEF FsTypes
  <2> QED
    BY <1>18, <1>20, <2>1, <2>2 DEF DiskTypes
<1> QED
  BY <1>1, <1>7, <1>18, <1>22, <1>23, <1>24

(* The disk after fs_create: an entry more, and all in order.              *)
LEMMA CreateLinks ==
  ASSUME FsInv, Mounted, AtPrompt, DiskTypes', NEW n, NEW i, NEW own, NEW ob, NEW k, NEW at,
         NEW e, Chosen(i, own, ob, k, at, e), Stores(n, i, own, ob, k, at, e)
  PROVE  /\ \A j \in Inodes : NoHoles(inodes'[j].blocks)
         /\ Linked' = LinkedIn(Root.blocks', dirent')
         /\ \E pos \in All : /\ pos \notin Linked
                             /\ Linked' = Linked \union {pos}
                             /\ OneMore(Links, Links', pos, i)
<1>1. PICK rb, rb2 : rb = Root.blocks /\ rb2 = inodes'[RootInode].blocks
  OBVIOUS
<1>2. /\ rb \in [Direct -> Blocks] /\ NoHoles(rb) /\ NoTwins(rb)
      /\ rb2 = [rb EXCEPT ![k] = at]
      /\ \A l \in Direct : rb[l] \in data_bitmap
  BY <1>1, FsFacts, MountedFacts DEF Stores
<1>3. /\ k \in Direct /\ at \in Blocks /\ at # 0
      /\ rb2[k] = at /\ \A l \in Direct : l # k => rb2[l] = rb[l]
      /\ \A j \in Direct : j < k => rb[j] # 0
      /\ i # 0 /\ e \in Entry /\ i \in Inodes
  BY <1>1, <1>2 DEF Chosen, RootInode
<1>4. NoHoles(rb2)
  <2>1. ASSUME NEW a \in Direct, NEW c \in Direct, rb2[a] = 0, a < c PROVE rb2[c] = 0
    <3>1. Direct \subseteq Nat /\ k \in Nat /\ a \in Nat /\ c \in Nat
      BY <1>3, FsSizes DEF Direct
    <3>2. a # k /\ rb[a] = 0
      BY <1>3, <2>1
    <3>3. k < a
      BY <1>3, <3>1, <3>2
    <3>4. c # k /\ rb[c] = 0
      BY <1>2, <2>1, <3>1, <3>2, <3>3 DEF NoHoles
    <3> QED
      BY <1>3, <3>4
  <2> QED
    BY <2>1 DEF NoHoles
<1>5. \A j \in Inodes : NoHoles(inodes'[j].blocks)
  <2>1. ASSUME NEW j \in Inodes PROVE NoHoles(inodes'[j].blocks)
    <3>1. CASE j = RootInode
      BY <1>1, <1>4, <3>1
    <3>2. CASE j = i
      <4>1. inodes'[i].blocks = [NoBlocks EXCEPT ![0] = ob]
        BY DEF Stores
      <4> QED
        BY <3>2, <4>1, NewValues, FsSizes DEF NoHoles, Direct
    <3>3. CASE j # RootInode /\ j # i
      BY <3>3 DEF Stores, FsInv, Contiguous
    <3> QED
      BY <3>1, <3>2, <3>3
  <2> QED
    BY <2>1
<1>6. NoHoles(Root.blocks)'
  BY <1>1, <1>4 DEF NoHoles, Root
<1>7. Linked' = LinkedIn(rb2, dirent') /\ Links' = LinksIn(rb2, dirent') /\ Root.blocks' = rb2
  BY <1>1, <1>6, LinkedNext DEF Root
<1>8. Linked = LinkedIn(rb, dirent) /\ Links = LinksIn(rb, dirent)
  BY <1>1, FsFacts
<1>9. \A l \in Direct : (l # k /\ rb[l] # 0) => dirent'[rb[l]] = dirent[rb[l]]
  <2>1. ASSUME NEW l \in Direct, l # k, rb[l] # 0 PROVE dirent'[rb[l]] = dirent[rb[l]]
    <3>1. rb[l] \notin own
      BY <1>2 DEF Chosen, FreeBlocks
    <3>2. rb[l] # at
      BY <1>1, <1>2, <1>3, <2>1 DEF Chosen, NoTwins
    <3>3. rb[l] \in Blocks
      BY <1>2
    <3> QED
      BY <3>1, <3>2, <3>3 DEF Stores
  <2> QED
    BY <2>1
<1>10. dirent'[at][e].inode = i
  BY DEF Stores
<1>11. \E pos \in All :
         /\ Link(rb, dirent, pos) = 0 /\ Link(rb2, dirent', pos) = i
         /\ \A p \in All : p # pos => Link(rb2, dirent', p) = Link(rb, dirent, p)
  <2>1. CASE rb[k] = 0
    <3>1. \A x \in Entry : x # e => dirent'[at][x].inode = 0
      BY <1>1, <2>1 DEF Stores
    <3>2. rb2[k] # 0 /\ dirent'[rb2[k]][e].inode = i
      BY <1>3, <1>10
    <3>3. \A x \in Entry : x # e => dirent'[rb2[k]][x].inode = 0
      BY <1>3, <3>1
    <3> QED
      BY <1>3, <1>9, <2>1, <3>2, <3>3, EntryGrown
  <2>2. CASE rb[k] # 0
    <3>1. rb[k] = at /\ dirent[at][e].inode = 0
      BY <1>1, <2>2 DEF Chosen
    <3>2. rb2 = rb
      BY <1>2, <1>3, <3>1
    <3>3. \A x \in Entry : x # e => dirent'[rb[k]][x] = dirent[rb[k]][x]
      BY <1>1, <2>2, <3>1 DEF Stores
    <3>4. dirent[rb[k]][e].inode = 0 /\ dirent'[rb[k]][e].inode = i
      BY <1>10, <3>1
    <3>5. PICK de, de2 : de = dirent /\ de2 = dirent'
      OBVIOUS
    <3>6. /\ NoTwins(rb) /\ k \in Direct /\ e \in Entry /\ i # 0
          /\ rb[k] # 0 /\ de[rb[k]][e].inode = 0 /\ de2[rb[k]][e].inode = i
          /\ \A x \in Entry : x # e => de2[rb[k]][x] = de[rb[k]][x]
          /\ \A l \in Direct : (l # k /\ rb[l] # 0) => de2[rb[l]] = de[rb[l]]
      BY <1>2, <1>3, <1>9, <2>2, <3>3, <3>4, <3>5
    <3>7. \E pos \in All :
           /\ Row(pos) = k /\ Col(pos) = e
           /\ Link(rb, de, pos) = 0 /\ Link(rb, de2, pos) = i
           /\ \A p \in All : p # pos => Link(rb, de2, p) = Link(rb, de, p)
      BY ONLY <3>6, EntryUsed
    <3> QED
      BY <3>2, <3>5, <3>7
  <2> QED
    BY <2>1, <2>2
<1>12. PICK pos \in All :
         /\ Link(rb, dirent, pos) = 0 /\ Link(rb2, dirent', pos) = i
         /\ \A p \in All : p # pos => Link(rb2, dirent', p) = Link(rb, dirent, p)
  BY <1>11
<1>13. /\ LinkedIn(rb2, dirent') = LinkedIn(rb, dirent) \union {pos}
       /\ pos \notin LinkedIn(rb, dirent)
       /\ OneMore(LinksIn(rb, dirent), LinksIn(rb2, dirent'), pos, i)
  BY <1>3, <1>12, OneLinkMore
<1> QED
  BY <1>5, <1>7, <1>8, <1>13

(* The file system after fs_create is in order.                            *)
LEMMA CreateKeeps ==
  ASSUME FsInv, Mounted, AtPrompt, DiskTypes', NEW n, NEW i, NEW own, NEW ob, NEW k, NEW at,
         NEW e, Chosen(i, own, ob, k, at, e), Stores(n, i, own, ob, k, at, e)
  PROVE  /\ Reserved' /\ Mounted'
         /\ \A j \in Inodes : NoHoles(inodes'[j].blocks)
         /\ Tidy(inode_bitmap', data_bitmap', [j \in Inodes |-> inodes'[j].blocks], Links')
         /\ Root.size' = Cardinality(Linked')
         /\ i \in Files'
<1>1. PICK pos \in All : /\ pos \notin Linked
                         /\ Linked' = Linked \union {pos}
                         /\ OneMore(Links, Links', pos, i)
  BY CreateLinks
<1>2. PICK IB, DB, DB1, bl, new :
        /\ IB = inode_bitmap /\ DB = data_bitmap /\ DB1 = DB \union ({at} \ DB)
        /\ bl = [j \in Inodes |-> inodes[j].blocks] /\ new = [j \in Inodes |-> inodes'[j].blocks]
  OBVIOUS
<1>3. /\ Tidy(IB, DB, bl, Links) /\ BlocksNow = bl
      /\ Root.size = Cardinality(Linked)
      /\ RootInode \in IB /\ IB \subseteq Inodes /\ RootInode \in Inodes
      /\ bl[RootInode] = Root.blocks /\ Root.blocks \in [Direct -> Blocks]
  BY <1>2, FsFacts, MountedFacts, FsSizes DEF FsInv, FsTypes
<1>4. /\ i \in Inodes /\ i \notin IB /\ i # RootInode
      /\ own \cap DB = {} /\ at \notin own /\ k \in Direct
      /\ (own = {} /\ ob = 0) \/ own = {ob}
      /\ new[i] = [NoBlocks EXCEPT ![0] = ob]
      /\ new[RootInode] = [Root.blocks EXCEPT ![k] = at]
      /\ \A j \in IB : j # RootInode => new[j] = bl[j]
  BY <1>2, <1>3 DEF Chosen, Stores, FreeBlocks
<1>5. Tidy(IB, DB1, new, Links)
  <2>1. CASE Root.blocks[k] = 0
    <3>1. at \notin DB /\ DB1 = DB \union {at}
      BY <1>2, <2>1 DEF Chosen
    <3>2. /\ bl[RootInode][k] = 0 /\ new[RootInode][k] = at
          /\ \A l \in Direct : l # k => new[RootInode][l] = bl[RootInode][l]
      BY <1>3, <1>4, <2>1
    <3> QED
      BY <1>3, <1>4, <3>1, <3>2, TidyGrow
  <2>2. CASE Root.blocks[k] # 0
    <3>1. at \in DB /\ Root.blocks[k] = at
      BY <1>2, <2>2 DEF Chosen
    <3>2. DB1 = DB /\ new[RootInode] = bl[RootInode]
      BY <1>2, <1>3, <1>4, <3>1
    <3>3. \A j \in IB : new[j] = bl[j]
      BY <1>4, <3>2
    <3> QED
      BY <1>3, <3>2, <3>3, TidySame
  <2> QED
    BY <2>1, <2>2
<1>6. PICK mid : mid = [new EXCEPT ![i] = NoBlocks]
  OBVIOUS
<1>7. /\ mid[i] = NoBlocks /\ \A j \in Inodes : j # i => mid[j] = new[j]
      /\ \A l \in Direct : mid[i][l] = 0
  BY <1>2, <1>4, <1>6, NewValues
<1>8. Tidy(IB \union {i}, DB1, mid, Links')
  <2>1. \A j \in IB : mid[j] = new[j]
    BY <1>3, <1>4, <1>7
  <2> QED
    BY <1>1, <1>4, <1>5, <1>7, <2>1, TidyNewFile
<1>9. Tidy(IB \union {i}, DB1 \union own, new, Links')
  <2>1. \A j \in IB \union {i} : j # i => new[j] = mid[j]
    BY <1>3, <1>4, <1>7
  <2>2. CASE own = {} /\ ob = 0
    <3>1. new[i] = mid[i]
      BY <1>4, <1>7, <2>2, NewValues, FsSizes
    <3>2. \A j \in IB \union {i} : new[j] = mid[j]
      BY <2>1, <3>1
    <3>3. DB1 \union own = DB1
      BY <2>2
    <3> QED
      BY <1>8, <3>2, <3>3, TidySame
  <2>3. CASE own = {ob}
    <3>1. /\ new[i][0] = ob /\ mid[i][0] = 0 /\ 0 \in Direct
          /\ \A l \in Direct : l # 0 => new[i][l] = mid[i][l]
      BY <1>4, <1>7, NewValues, FsSizes
    <3>2. ob \notin DB1 /\ DB1 \union own = DB1 \union {ob} /\ i \in IB \union {i}
      BY <1>2, <1>4, <2>3
    <3> QED
      BY <1>8, <2>1, <3>1, <3>2, TidyGrow
  <2> QED
    BY <1>4, <2>2, <2>3
<1>10. inode_bitmap' = IB \union {i} /\ data_bitmap' = DB1 \union own
  BY <1>2 DEF Stores
<1>11. Tidy(inode_bitmap', data_bitmap', new, Links')

  BY <1>9, <1>10
<1>12. Links' = [p \in Linked' |-> Links'[p]] /\ DOMAIN Links' = Linked' /\ Linked' \subseteq All
  <2>1. Linked' \subseteq All
    BY CreateLinks DEF LinkedIn
  <2> QED
    BY <2>1 DEF Links
<1>13. Cardinality(inode_bitmap') <= FS_DIRECT_BLOCKS * ENTRIES + 1
  <2>1. PICK ent : ent = Links'
    OBVIOUS
  <2>2. DOMAIN ent \subseteq All /\ ent = [p \in DOMAIN ent |-> ent[p]]
    BY <1>12, <2>1
  <2> QED
    BY <1>11, <2>1, <2>2, LinkedFew
<1>14. free_inodes' = FS_MAX_INODES - Cardinality(inode_bitmap')
  <2>1. IsFiniteSet(IB) /\ Cardinality(IB) \in Nat
    BY <1>3, BitmapsFinite, FsSizes
  <2>2. Cardinality(IB \union {i}) = Cardinality(IB) + 1
    BY <1>4, <2>1, FS_AddElement
  <2>3. free_inodes' = FS_MAX_INODES - Cardinality(IB) - 1
    BY <1>2 DEF Stores, FsInv, Reserved
  <2> QED
    BY <1>10, <2>1, <2>2, <2>3, FsSizes
<1>15. free_blocks' = FS_MAX_DATA_BLOCKS - Cardinality(data_bitmap')
  <2>1. PICK taken : taken = own \union ({at} \ DB)
    OBVIOUS
  <2>2. taken \subseteq Blocks /\ DB \subseteq Blocks /\ DB \cap taken = {}
    BY <1>2, <1>4, <2>1 DEF Chosen, FreeBlocks, FsInv, FsTypes
  <2>3. /\ Cardinality(DB \union taken) = Cardinality(DB) + Cardinality(taken)
        /\ Cardinality(DB) \in Nat /\ Cardinality(taken) \in Nat
    <3>1. IsFiniteSet(Blocks) /\ DB \in SUBSET Blocks /\ taken \in SUBSET Blocks
      BY <2>2, BitmapsFinite
    <3> QED
      BY <2>2, <3>1, BitsCounted
  <2>4. /\ data_bitmap' = DB \union taken
        /\ free_blocks' = free_blocks - Cardinality(taken)
        /\ free_blocks = FS_MAX_DATA_BLOCKS - Cardinality(DB)
    BY <1>2, <2>1 DEF Stores, FsInv, Reserved
  <2> QED
    BY <2>3, <2>4, FsSizes
<1>16. inode_bitmap' \subseteq 0..(TABLE_INODES - 1)
  <2>1. i \in 0..(TABLE_INODES - 1)
    BY FsSizes DEF Chosen, Inodes
  <2> QED
    BY <1>2, <1>10, <2>1 DEF FsInv, Reserved
<1>17. InodesInTable'
  <2>1. ASSUME NEW j \in Inodes, inodes'[j].mode # {} PROVE j < TABLE_INODES
    <3>1. CASE j = RootInode
      BY <3>1, FsSizes DEF RootInode
    <3>2. CASE j = i
      BY <3>2 DEF Chosen
    <3>3. CASE j # RootInode /\ j # i
      BY <2>1, <3>3 DEF Stores, FsInv, Reserved, InodesInTable
    <3> QED
      BY <3>1, <3>2, <3>3
  <2> QED
    BY <2>1 DEF InodesInTable
<1>18. Reserved'
  <2>1. RootInode \in inode_bitmap' /\ 0 \in data_bitmap'
    BY <1>2, <1>3, <1>10 DEF FsInv, Reserved
  <2> QED
    BY <1>13, <1>14, <1>15, <1>16, <1>17, <2>1 DEF Reserved
<1>19. Mounted'
  BY DEF Stores, Mounted, Root, IsDir
<1>20. Root.size' = Cardinality(Linked')
  <2>1. IsFiniteSet(Linked) /\ Cardinality(Linked) \in Nat
    <3>1. Linked \in SUBSET All
      BY FsFacts DEF LinkedIn
    <3>2. IsFiniteSet(All)
      BY FsSizes, FS_Interval DEF All
    <3> QED
      BY <3>1, <3>2, FS_Subset, FS_CardinalityType
  <2>2. Cardinality(Linked') = Cardinality(Linked) + 1
    BY <1>1, <2>1, FS_AddElement
  <2>3. Root.size' = Root.size + 1
    BY DEF Stores, Root
  <2> QED
    BY <1>3, <2>2, <2>3
<1>21. i \in Files'
  <2>1. pos \in Linked' /\ Links'[pos] = i
    BY <1>1 DEF OneMore
  <2>2. \A p \in Linked' : Links'[p] = EntryAt(p)'.inode
    BY DEF Links
  <2> QED
    BY <2>1, <2>2 DEF Files
<1> QED
  BY <1>2, <1>11, <1>18, <1>19, <1>20, <1>21, CreateLinks

-----------------------------------------------------------------------------
(* The disk between commands.                                              *)

TableBlocks == [j \in Inodes |-> inodes[j].blocks]

InOrder ==
  /\ DiskTypes
  /\ Reserved
  /\ \A j \in Inodes : NoHoles(inodes[j].blocks)
  /\ Mounted => /\ Tidy(inode_bitmap, data_bitmap, TableBlocks, Links)
                /\ Root.size = Cardinality(Linked)

(* At the prompt the disk is in order.                                     *)
LEMMA RestIsOrder ==
  ASSUME FsInv, AtPrompt
  PROVE  InOrder
<1>1. BlocksNow = TableBlocks
  BY FsFacts DEF TableBlocks
<1> QED
  BY <1>1 DEF FsInv, FsTypes, Contiguous, Consistent, InOrder, DiskTypes

(* The closed file.                                                        *)
LEMMA ClosedFile ==
  /\ Closed \in OpenFile /\ Closed.position = 0 /\ Len(Closed.text) = 0
  /\ Closed.copy.blocks = NoBlocks /\ Closed.inode = RootInode
<1>1. <<>> \in Texts \union {<<>>} /\ Len(<<>>) = 0
  OBVIOUS
<1> QED
  BY <1>1, NewValues, FsSizes DEF Closed, OpenFile

(* When a command ends with the disk in order, the invariant holds.        *)
LEMMA OrderIsRest ==
  ASSUME InOrder', fd' = Closed, formats' \in 0..MaxFormats
  PROVE  FsInv'
<1>1. BlocksNow' = TableBlocks'
  BY DEF BlocksNow, TableBlocks, Current, AtPrompt
<1>2. AtPrompt' /\ fd'.position = 0 /\ fd'.copy.blocks = NoBlocks
  BY ClosedFile DEF AtPrompt
<1>3. FsTypes'
  BY ClosedFile, FsSizes DEF InOrder, DiskTypes, FsTypes
<1>4. Contiguous'
  BY <1>2, NewValues DEF InOrder, Contiguous
<1>5. \A j \in Direct : ~(j * FS_BLOCK_SIZE < 0)
  <2>1. ASSUME NEW j \in Direct PROVE ~(j * FS_BLOCK_SIZE < 0)
    <3>1. j \in Nat /\ FS_BLOCK_SIZE \in Nat
      BY FsSizes DEF Direct
    <3>2. j * FS_BLOCK_SIZE \in Nat
      BY <3>1
    <3> QED
      BY <3>2
  <2> QED
    BY <2>1
<1>6. Writing'
  BY <1>2, <1>5 DEF Writing
<1>7. Consistent'
  BY <1>1 DEF InOrder, Consistent
<1> QED
  BY <1>3, <1>4, <1>6, <1>7 DEF FsInv, InOrder

(* A file is opened on a disk in order.                                    *)
LEMMA OrderIsOpen ==
  ASSUME InOrder', Mounted', formats' \in 0..MaxFormats,
         NEW i \in Inodes, i \in Files', NEW text \in Texts, fd' = Opened(i, inodes'[i], text)
  PROVE  FsInv'
<1>1. PICK copy : copy = inodes'[i]
  OBVIOUS
<1>2. copy \in InodeType /\ NoHoles(copy.blocks)
  BY <1>1 DEF InOrder, DiskTypes
<1>3. fd' = [inode |-> i, copy |-> copy, text |-> text, position |-> 0]
  BY <1>1 DEF Opened
<1>4. fd'.inode = i /\ fd'.copy = copy /\ fd'.position = 0 /\ fd'.text = text
  BY <1>3
<1>5. BlocksNow' = TableBlocks'
  <2>1. \A j \in Inodes : Current(j)'.blocks = inodes'[j].blocks
    BY <1>1, <1>4 DEF Current
  <2> QED
    BY <2>1 DEF BlocksNow, TableBlocks
<1>6. FsTypes'
  <2>1. fd' \in OpenFile
    BY <1>2, <1>3 DEF OpenFile
  <2>2. Len(text) \in Nat
    BY FsAssumption
  <2> QED
    BY <1>4, <2>1, <2>2 DEF InOrder, DiskTypes, FsTypes
<1>7. Contiguous'
  BY <1>2, <1>4 DEF InOrder, Contiguous
<1>8. \A j \in Direct : ~(j * FS_BLOCK_SIZE < 0)
  <2>1. ASSUME NEW j \in Direct PROVE ~(j * FS_BLOCK_SIZE < 0)
    <3>1. j \in Nat /\ FS_BLOCK_SIZE \in Nat
      BY FsSizes DEF Direct
    <3>2. j * FS_BLOCK_SIZE \in Nat
      BY <3>1
    <3> QED
      BY <3>2
  <2> QED
    BY <2>1
<1>9. Writing'
  BY <1>4, <1>8 DEF Writing
<1>10. Consistent'
  BY <1>5 DEF InOrder, Consistent
<1> QED
  BY <1>6, <1>7, <1>9, <1>10 DEF FsInv, InOrder

(* Two states of the disk with the same links.                             *)
LEMMA LinksSame ==
  ASSUME NEW rb, NEW de, NEW rb2, NEW de2,
         \A p \in All : Link(rb2, de2, p) = Link(rb, de, p)
  PROVE  LinkedIn(rb2, de2) = LinkedIn(rb, de) /\ LinksIn(rb2, de2) = LinksIn(rb, de)
<1>1. LinkedIn(rb2, de2) = LinkedIn(rb, de)
  BY LinksAre
<1>2. \A p \in LinkedIn(rb, de) : p \in All
  BY DEF LinkedIn
<1> QED
  BY <1>1, <1>2, LinksAre

-----------------------------------------------------------------------------
(* The commands keep the invariant.                                        *)

(* fs_create with dir_add_entry.                                           *)
LEMMA CreatedInOrder ==
  ASSUME FsInv, AtPrompt, NEW n \in Names, NEW type \in {FS_TYPE_FILE, FS_TYPE_DIR},
         FreeInodes # {}, type = FS_TYPE_DIR => FreeBlocks # {},
         CanLink(OwnBlocks(type)), Created(n, type)
  PROVE  /\ InOrder' /\ Mounted'
         /\ FirstInode \in Inodes /\ FirstInode \in Files'
         /\ inodes'[FirstInode] = NewInode(type, OwnBlock(type))
<1>1. PICK i, own, ob : i = FirstInode /\ own = OwnBlocks(type) /\ ob = OwnBlock(type)
  OBVIOUS
<1>2. /\ Mounted /\ DiskTypes' /\ inodes'[i] = NewInode(type, ob)
      /\ \E k, at, e : Chosen(i, own, ob, k, at, e) /\ Stores(n, i, own, ob, k, at, e)
  BY <1>1, CreateStores
<1>3. PICK k, at, e : Chosen(i, own, ob, k, at, e) /\ Stores(n, i, own, ob, k, at, e)
  BY <1>2
<1>4. /\ Reserved' /\ Mounted'
      /\ \A j \in Inodes : NoHoles(inodes'[j].blocks)
      /\ Tidy(inode_bitmap', data_bitmap', [j \in Inodes |-> inodes'[j].blocks], Links')
      /\ Root.size' = Cardinality(Linked')
      /\ i \in Files'
  BY <1>2, <1>3, CreateKeeps
<1>5. InOrder'
  BY <1>2, <1>4 DEF InOrder, TableBlocks
<1> QED
  BY <1>1, <1>2, <1>3, <1>4, <1>5 DEF Chosen

(* touch and mkdir.                                                        *)
LEMMA CreateStep ==
  ASSUME FsInv, NEW n \in Names, NEW type \in {FS_TYPE_FILE, FS_TYPE_DIR}, Create(n, type)
  PROVE  FsInv'
<1>1. /\ AtPrompt /\ FreeInodes # {} /\ (type = FS_TYPE_DIR => FreeBlocks # {})
      /\ CanLink(OwnBlocks(type)) /\ Created(n, type)
      /\ fd' = fd /\ formats' = formats
  BY DEF Create, CanStart
<1>2. InOrder'
  BY <1>1, CreatedInOrder
<1>3. fd' = Closed /\ formats' \in 0..MaxFormats
  BY <1>1 DEF AtPrompt, FsInv, FsTypes
<1> QED
  BY <1>2, <1>3, OrderIsRest

(* write on a new file.                                                    *)
LEMMA WriteNewStep ==
  ASSUME FsInv, NEW n \in Names, NEW text \in Texts, WriteNew(n, text)
  PROVE  FsInv'
<1>1. FS_TYPE_FILE # FS_TYPE_DIR
  <2>1. 0 \in FS_TYPE_FILE /\ 0 \notin FS_TYPE_DIR
    BY DEF FS_TYPE_FILE, FS_TYPE_DIR
  <2> QED
    BY <2>1
<1>2. PICK type : type = FS_TYPE_FILE
  OBVIOUS
<1>3. OwnBlocks(type) = {} /\ OwnBlock(type) = 0 /\ type # FS_TYPE_DIR
  BY <1>1, <1>2 DEF OwnBlocks, OwnBlock
<1>4. /\ AtPrompt /\ FreeInodes # {} /\ CanLink(OwnBlocks(type)) /\ Created(n, type)
      /\ fd' = IF Stored[n] = n THEN Opened(FirstInode, NewInode(type, 0), text) ELSE Closed
      /\ formats' = formats
  BY <1>2, <1>3 DEF WriteNew, CanStart
<1>5. /\ InOrder' /\ Mounted'
      /\ FirstInode \in Inodes /\ FirstInode \in Files'
      /\ inodes'[FirstInode] = NewInode(type, 0)
  <2>1. type \in {FS_TYPE_FILE, FS_TYPE_DIR} /\ (type = FS_TYPE_DIR => FreeBlocks # {})
    BY <1>2, <1>3
  <2> QED
    BY <1>3, <1>4, <2>1, CreatedInOrder
<1>6. formats' \in 0..MaxFormats
  BY <1>4 DEF FsInv, FsTypes
<1>7. CASE Stored[n] = n
  <2>1. PICK i : i = FirstInode
    OBVIOUS
  <2>2. fd' = Opened(i, inodes'[i], text)
    BY <1>4, <1>5, <1>7, <2>1
  <2> QED
    BY <1>5, <1>6, <2>1, <2>2, OrderIsOpen
<1>8. CASE Stored[n] # n
  BY <1>4, <1>5, <1>6, <1>8, OrderIsRest
<1> QED
  BY <1>7, <1>8

(* write on a file there is.                                               *)
LEMMA WriteOldStep ==
  ASSUME FsInv, NEW n \in Names, NEW text \in Texts, WriteOld(n, text)
  PROVE  FsInv'
<1>1. /\ AtPrompt /\ Exists(n)
      /\ fd' = Opened(Lookup(n), inodes[Lookup(n)], text)
      /\ inode_bitmap' = inode_bitmap /\ data_bitmap' = data_bitmap
      /\ free_inodes' = free_inodes /\ free_blocks' = free_blocks
      /\ inodes' = inodes /\ dirent' = dirent /\ bytes' = bytes /\ formats' = formats
  BY DEF WriteOld, allocVars
<1>2. PICK i : i = Lookup(n)
  OBVIOUS
<1>3. Mounted /\ Min(Matches(n)) \in Linked
  <2>1. Matches(n) # {} /\ Matches(n) \subseteq Linked
    BY <1>1 DEF Exists, Matches
  <2>2. Linked \subseteq Nat
    BY FsFacts, FsSizes DEF LinkedIn, All
  <2>3. Min(Matches(n)) \in Matches(n)
    BY <2>1, <2>2, LeastIs
  <2> QED
    BY <2>3 DEF Matches, Mounted
<1>4. i \in Files
  BY <1>2, <1>3 DEF Lookup, Files
<1>5. i \in Inodes
  BY <1>3, <1>4, MountedFacts DEF FsInv, FsTypes
<1>6. Root' = Root /\ Linked' = Linked /\ Links' = Links /\ Files' = Files /\ Mounted' = Mounted
  BY <1>1 DEF Root, Linked, Links, Files, Mounted, EntryAt, Positions
<1>7. InOrder'
  <2>1. InOrder
    BY <1>1, RestIsOrder
  <2>2. DiskTypes' /\ Reserved' /\ TableBlocks' = TableBlocks
    BY <1>1, <2>1 DEF InOrder, DiskTypes, Reserved, InodesInTable, TableBlocks
  <2> QED
    BY <1>1, <1>6, <2>1, <2>2 DEF InOrder
<1>8. formats' \in 0..MaxFormats /\ fd' = Opened(i, inodes'[i], text)
  BY <1>1, <1>2 DEF FsInv, FsTypes
<1> QED
  BY <1>3, <1>4, <1>5, <1>6, <1>7, <1>8, OrderIsOpen

(* A failed touch, mkdir or write: what is written belongs to no file.     *)
LEMMA UndoneStep ==
  ASSUME FsInv, NEW n \in Names, NEW type \in {FS_TYPE_FILE, FS_TYPE_DIR},
         CreateUndone(n, type)
  PROVE  FsInv'
<1>1. PICK i, own, ob : i = FirstInode /\ own = OwnBlocks(type) /\ ob = OwnBlock(type)
  OBVIOUS
<1>2. /\ AtPrompt /\ FreeInodes # {} /\ (type = FS_TYPE_DIR => FreeBlocks # {})
      /\ inodes' = [inodes EXCEPT ![i] = NewInode(type, ob)]
      /\ dirent' = [b \in Blocks |-> IF b \in own THEN ZeroEntries ELSE dirent[b]]
      /\ bytes' = [b \in Blocks |-> IF b \in own THEN ZeroBytes ELSE bytes[b]]
      /\ inode_bitmap' = inode_bitmap /\ data_bitmap' = data_bitmap
      /\ free_inodes' = free_inodes /\ free_blocks' = free_blocks
      /\ fd' = fd /\ formats' = formats
  BY <1>1 DEF CreateUndone, CanStart, allocVars
<1>3. InOrder /\ fd' = Closed /\ formats' \in 0..MaxFormats
  BY <1>2, RestIsOrder DEF AtPrompt, FsInv, FsTypes
<1>4. i \in Inodes /\ i \notin inode_bitmap /\ i # RootInode /\ i < TABLE_INODES
  BY <1>1, <1>2, FirstInTable DEF FsInv
<1>5. own \subseteq FreeBlocks /\ ob \in Blocks
  BY <1>1, <1>2, OwnFree
<1>6. PICK new : new = NewInode(type, ob)
  OBVIOUS
<1>7. new \in InodeType /\ NoHoles(new.blocks)
  BY <1>5, <1>6, NewValues
<1>8. /\ inodes' \in [Inodes -> InodeType] /\ inodes'[i] = new
      /\ \A j \in Inodes : j # i => inodes'[j] = inodes[j]
  BY <1>2, <1>3, <1>4, <1>6, <1>7 DEF InOrder, DiskTypes
<1>9. DiskTypes'
  <2>1. dirent' \in [Blocks -> [Entry -> DirEntry]] /\ bytes' \in [Blocks -> [Offset -> Nat]]
    BY <1>2, <1>3, NewValues DEF InOrder, DiskTypes
  <2> QED
    BY <1>2, <1>3, <1>8, <2>1 DEF InOrder, DiskTypes
<1>10. Reserved'
  <2>1. InodesInTable'
    BY <1>3, <1>4, <1>8 DEF InOrder, Reserved, InodesInTable
  <2> QED
    BY <1>2, <1>3, <2>1 DEF InOrder, Reserved
<1>11. \A j \in Inodes : NoHoles(inodes'[j].blocks)
  BY <1>3, <1>7, <1>8 DEF InOrder
<1>12. Root' = Root /\ Mounted' = Mounted
  BY <1>4, <1>8, FsSizes DEF Root, Mounted
<1>13. ASSUME Mounted
       PROVE  /\ Tidy(inode_bitmap', data_bitmap', TableBlocks', Links')
              /\ Root.size' = Cardinality(Linked')
  <2>1. Linked' = Linked /\ Links' = Links
    <3>1. PICK rb, de2 : rb = Root.blocks /\ de2 = dirent'
      OBVIOUS
    <3>2. \A l \in Direct : rb[l] \in data_bitmap /\ rb[l] \in Blocks /\ rb[l] \notin own
      BY <1>5, <1>13, <3>1, FsFacts, MountedFacts DEF FreeBlocks
    <3>3. \A l \in Direct : de2[rb[l]] = dirent[rb[l]]
      BY <1>2, <3>1, <3>2
    <3>4. \A p \in All : Link(rb, de2, p) = Link(rb, dirent, p)
      BY <3>3, RowCol DEF Link
    <3>5. LinkedIn(rb, de2) = LinkedIn(rb, dirent) /\ LinksIn(rb, de2) = LinksIn(rb, dirent)
      BY <3>4, LinksSame
    <3>6. NoHoles(Root.blocks)' /\ Root.blocks' = rb
      BY <1>11, <1>12, <3>1, FsSizes DEF Root, NoHoles
    <3> QED
      BY <3>1, <3>5, <3>6, LinkedNext, FsFacts
  <2>2. Tidy(inode_bitmap, data_bitmap, TableBlocks, Links) /\ inode_bitmap \subseteq Inodes
    BY <1>3, <1>13 DEF InOrder, DiskTypes
  <2>3. PICK bl, bl2 : bl = TableBlocks /\ bl2 = TableBlocks'
    OBVIOUS
  <2>4. \A j \in inode_bitmap : bl2[j] = bl[j]
    BY <1>4, <1>8, <2>2, <2>3 DEF TableBlocks
  <2>5. Tidy(inode_bitmap, data_bitmap, bl2, Links)
    BY <2>2, <2>3, <2>4, TidySame
  <2> QED
    BY <1>2, <1>3, <1>12, <1>13, <2>1, <2>3, <2>5 DEF InOrder
<1>14. InOrder'
  BY <1>9, <1>10, <1>11, <1>12, <1>13 DEF InOrder
<1> QED
  BY <1>3, <1>14, OrderIsRest

(* rm: the entry of that name is gone, the others stay.                    *)
LEMMA RmStep ==
  ASSUME FsInv, NEW n \in Names, Rm(n)
  PROVE  /\ FsInv' /\ Mounted /\ Mounted'
         /\ \E pos \in Linked : /\ EntryAt(pos).name = n
                               /\ Linked' = Linked \ {pos}
                               /\ \A p \in Linked' : EntryAt(p)' = EntryAt(p)
<1>1. PICK pos, i, rb : pos = Min(Matches(n)) /\ i = Lookup(n) /\ rb = Root.blocks
  OBVIOUS
<1>2. PICK gone : gone = Gone(inodes[i])
  OBVIOUS
<1>3. /\ AtPrompt /\ Exists(n)
      /\ inode_bitmap' = inode_bitmap \ {i} /\ free_inodes' = free_inodes + 1
      /\ data_bitmap' = data_bitmap \ gone /\ free_blocks' = free_blocks + Cardinality(gone)
      /\ dirent' = [dirent EXCEPT ![rb[Row(pos)]][Col(pos)] = Unused]
      /\ inodes' = [inodes EXCEPT ![RootInode].size = @ - 1]
      /\ bytes' = bytes /\ fd' = fd /\ formats' = formats
  BY <1>1, <1>2 DEF Rm, Unlink, RemoveEntry, Row, Col
<1>4. InOrder /\ fd' = Closed /\ formats' \in 0..MaxFormats
  BY <1>3, RestIsOrder DEF AtPrompt, FsInv, FsTypes
<1>5. /\ Mounted /\ pos \in Linked /\ pos \in All /\ i = EntryAt(pos).inode /\ i # 0
      /\ EntryAt(pos).name = n
  <2>1. Matches(n) # {} /\ Matches(n) \subseteq Linked
    BY <1>3 DEF Exists, Matches
  <2>2. Linked \subseteq Nat /\ Linked \subseteq All
    BY FsFacts, FsSizes DEF LinkedIn, All
  <2>3. Min(Matches(n)) \in Matches(n)
    BY <2>1, <2>2, LeastIs
  <2>4. Mounted /\ pos \in Linked /\ EntryAt(pos).name = n
    BY <1>1, <2>3 DEF Matches, Mounted
  <2> QED
    BY <1>1, <2>2, <2>4 DEF Lookup, Linked
<1>6. /\ rb \in [Direct -> Blocks] /\ NoTwins(rb) /\ NoHoles(rb)
      /\ Linked = LinkedIn(rb, dirent) /\ Links = LinksIn(rb, dirent)
      /\ Root \in InodeType /\ Root = inodes[RootInode] /\ RootInode \in Inodes
      /\ inodes \in [Inodes -> InodeType] /\ dirent \in [Blocks -> [Entry -> DirEntry]]
  BY <1>1, <1>5, FsFacts, MountedFacts, FsSizes DEF Root, FsInv, FsTypes
<1>7. PICK k, e : k = Row(pos) /\ e = Col(pos)
  OBVIOUS
<1>8. k \in Direct /\ e \in Entry /\ rb[k] # 0 /\ dirent[rb[k]][e].inode = i /\ rb[k] \in Blocks
  <2>1. k \in Direct /\ e \in Entry
    BY <1>5, <1>7, RowCol
  <2>2. rb[k] # 0
    BY <1>5, <1>6, <1>7 DEF LinkedIn
  <2>3. dirent[rb[k]][e].inode = i
    BY <1>1, <1>5, <1>7 DEF EntryAt, Row, Col
  <2> QED
    BY <1>6, <2>1, <2>2, <2>3
<1>9. PICK de2 : de2 = dirent'
  OBVIOUS
<1>10. /\ de2 \in [Blocks -> [Entry -> DirEntry]]
       /\ de2[rb[k]][e].inode = 0
       /\ \A x \in Entry : x # e => dirent[rb[k]][x] = de2[rb[k]][x]
       /\ \A l \in Direct : (l # k /\ rb[l] # 0) => dirent[rb[l]] = de2[rb[l]]
  <2>1. PICK b : b = rb[k]
    OBVIOUS
  <2>2. de2 = [dirent EXCEPT ![b][e] = Unused] /\ b \in Blocks /\ e \in Entry
    BY <1>3, <1>7, <1>8, <1>9, <2>1
  <2>3. Unused \in DirEntry /\ Unused.inode = 0
    BY NewValues
  <2>4. /\ de2 \in [Blocks -> [Entry -> DirEntry]]
        /\ de2[b][e] = Unused
        /\ \A x \in Entry : x # e => dirent[b][x] = de2[b][x]
        /\ \A c \in Blocks : c # b => dirent[c] = de2[c]
    BY <1>6, <2>2, <2>3
  <2>5. ASSUME NEW l \in Direct, l # k, rb[l] # 0 PROVE dirent[rb[l]] = de2[rb[l]]
    <3>1. rb[l] # b /\ rb[l] \in Blocks
      BY <1>6, <1>8, <2>1, <2>5 DEF NoTwins
    <3> QED
      BY <2>4, <3>1
  <2> QED
    BY <2>1, <2>3, <2>4, <2>5
<1>11. \E q \in All :
         /\ Row(q) = k /\ Col(q) = e
         /\ Link(rb, de2, q) = 0 /\ Link(rb, dirent, q) = i
         /\ \A p \in All : p # q => Link(rb, dirent, p) = Link(rb, de2, p)
  <2>1. PICK de : de = dirent
    OBVIOUS
  <2>2. /\ NoTwins(rb) /\ k \in Direct /\ e \in Entry /\ i # 0
        /\ rb[k] # 0 /\ de2[rb[k]][e].inode = 0 /\ de[rb[k]][e].inode = i
        /\ \A x \in Entry : x # e => de[rb[k]][x] = de2[rb[k]][x]
        /\ \A l \in Direct : (l # k /\ rb[l] # 0) => de[rb[l]] = de2[rb[l]]
    BY <1>5, <1>6, <1>8, <1>10, <2>1
  <2>3. \E q \in All :
         /\ Row(q) = k /\ Col(q) = e
         /\ Link(rb, de2, q) = 0 /\ Link(rb, de, q) = i
         /\ \A p \in All : p # q => Link(rb, de, p) = Link(rb, de2, p)
    BY ONLY <2>2, EntryUsed
  <2> QED
    BY <2>1, <2>3
<1>12. /\ Link(rb, de2, pos) = 0 /\ Link(rb, dirent, pos) = i
       /\ \A p \in All : p # pos => Link(rb, dirent, p) = Link(rb, de2, p)
  BY <1>5, <1>7, <1>11, RowCol
<1>13. /\ LinkedIn(rb, dirent) = LinkedIn(rb, de2) \union {pos}
       /\ pos \notin LinkedIn(rb, de2)
       /\ OneMore(LinksIn(rb, de2), LinksIn(rb, dirent), pos, i)
  BY <1>5, <1>12, OneLinkMore
<1>14. IsFiniteSet(Linked) /\ Cardinality(Linked) \in Nat
       /\ Cardinality(LinkedIn(rb, de2)) = Cardinality(Linked) - 1
       /\ Cardinality(Linked) >= 1
  <2>1. Linked \in SUBSET All
    BY <1>6 DEF LinkedIn
  <2>2. IsFiniteSet(All)
    BY FsSizes, FS_Interval DEF All
  <2>3. IsFiniteSet(Linked) /\ Cardinality(Linked) \in Nat
    BY <2>1, <2>2, FS_Subset, FS_CardinalityType
  <2>4. Cardinality(Linked) # 0
    BY <1>5, <2>3, FS_EmptySet
  <2>5. LinkedIn(rb, de2) = Linked \ {pos}
    BY <1>6, <1>13
  <2>6. Cardinality(Linked \ {pos}) = Cardinality(Linked) - 1
    BY <1>5, <2>3, FS_RemoveElement
  <2> QED
    BY <2>3, <2>4, <2>5, <2>6
<1>15. /\ inodes' \in [Inodes -> InodeType]
       /\ \A j \in Inodes : inodes'[j].blocks = inodes[j].blocks /\ inodes'[j].mode = inodes[j].mode
       /\ inodes'[RootInode].size = Cardinality(Linked) - 1
  <2>1. Root.size = Cardinality(Linked)
    BY <1>5, MountedFacts
  <2>2. PICK r : r = [inodes[RootInode] EXCEPT !.size = @ - 1]
    OBVIOUS
  <2>3. /\ r \in InodeType /\ r.blocks = inodes[RootInode].blocks
        /\ r.mode = inodes[RootInode].mode /\ r.size = Cardinality(Linked) - 1
    <3>1. PICK r0, c : r0 = inodes[RootInode] /\ c = Cardinality(Linked) - 1
      OBVIOUS
    <3>2. r0 \in InodeType /\ c \in Nat /\ r0.size - 1 = c
      BY <1>6, <1>14, <2>1, <3>1
    <3>3. r = [r0 EXCEPT !.size = @ - 1]
      BY <2>2, <3>1
    <3>4. r = [mode |-> r0.mode, size |-> c, blocks |-> r0.blocks]
      BY <3>2, <3>3 DEF InodeType
    <3> QED
      BY <3>1, <3>2, <3>4 DEF InodeType
  <2>4. inodes' = [inodes EXCEPT ![RootInode] = r]
    BY <1>3, <1>6, <2>2
  <2> QED
    BY <1>6, <2>3, <2>4
<1>16. /\ Root.blocks' = rb /\ Root.mode' = Root.mode
       /\ Root.size' = Cardinality(Linked) - 1
       /\ Mounted' /\ TableBlocks' = TableBlocks
       /\ \A j \in Inodes : NoHoles(inodes'[j].blocks)
  <2>1. /\ Root.blocks' = rb /\ Root.mode' = Root.mode
        /\ Root.size' = Cardinality(Linked) - 1
    BY <1>1, <1>6, <1>15 DEF Root
  <2>2. Mounted'
    BY <1>5, <2>1 DEF Mounted, IsDir
  <2>3. TableBlocks' = TableBlocks
    BY <1>15 DEF TableBlocks
  <2>4. \A j \in Inodes : NoHoles(inodes'[j].blocks)
    BY <1>4, <1>15 DEF InOrder
  <2> QED
    BY <2>1, <2>2, <2>3, <2>4
<1>17. Linked' = LinkedIn(rb, de2) /\ Links' = LinksIn(rb, de2)
  <2>1. NoHoles(Root.blocks)'
    BY <1>6, <1>16 DEF NoHoles
  <2> QED
    BY <1>9, <1>16, <2>1, LinkedNext
<1>18. PICK bl : bl = TableBlocks
  OBVIOUS
<1>19. Tidy(inode_bitmap, data_bitmap, bl, Links)
  BY <1>4, <1>5, <1>18 DEF InOrder
<1>20. i \in inode_bitmap /\ i # RootInode /\ i \in Inodes
  BY <1>5, <1>8, <1>19, FsFacts DEF Tidy, RootInode, Links, FsInv, FsTypes
<1>21. gone = Held(bl, i)
  <2>1. NoHoles(inodes[i].blocks) /\ bl[i] = inodes[i].blocks
    BY <1>4, <1>18, <1>20 DEF InOrder, TableBlocks
  <2>2. Chain(bl[i]) = {x \in Direct : bl[i][x] # 0}
    BY <2>1, ChainIs
  <2>3. gone = {bl[i][x] : x \in Chain(bl[i])}
    BY <1>2, <2>1 DEF Gone
  <2> QED
    BY <2>2, <2>3 DEF Held
<1>22. Tidy(inode_bitmap', data_bitmap', bl, Links')
  <2>1. OneMore(Links', Links, pos, i)
    BY <1>6, <1>13, <1>17
  <2>2. Tidy(inode_bitmap \ {i}, data_bitmap \ Held(bl, i), bl, Links')
    BY <1>19, <2>1, TidyDrop
  <2> QED
    BY <1>3, <1>21, <2>2
<1>23. gone \subseteq data_bitmap /\ 0 \notin gone
  BY <1>19, <1>20, <1>21 DEF Tidy, Held
<1>24. DiskTypes'
  BY <1>3, <1>4, <1>9, <1>10, <1>15 DEF InOrder, DiskTypes
<1>25. Reserved'
  <2>1. Reserved /\ inode_bitmap \subseteq Inodes /\ data_bitmap \subseteq Blocks
    BY <1>4 DEF InOrder, DiskTypes
  <2>2. /\ IsFiniteSet(inode_bitmap) /\ Cardinality(inode_bitmap) \in Nat
        /\ Cardinality(inode_bitmap \ {i}) = Cardinality(inode_bitmap) - 1
    BY <1>20, <2>1, BitmapsFinite, FsSizes, FS_RemoveElement
  <2>3. /\ Cardinality(data_bitmap) \in Nat /\ Cardinality(gone) \in Nat
        /\ Cardinality(data_bitmap \ gone) = Cardinality(data_bitmap) - Cardinality(gone)
    <3>1. IsFiniteSet(Blocks) /\ data_bitmap \in SUBSET Blocks /\ gone \in SUBSET Blocks
      BY <1>23, <2>1, BitmapsFinite
    <3> QED
      BY <1>23, <3>1, BitsCounted
  <2>4. /\ RootInode \in inode_bitmap' /\ 0 \in data_bitmap'
        /\ inode_bitmap' \subseteq 0..(TABLE_INODES - 1)
    BY <1>3, <1>20, <1>23, <2>1 DEF Reserved
  <2>5. free_inodes' = FS_MAX_INODES - Cardinality(inode_bitmap')
    BY <1>3, <2>1, <2>2, FsSizes DEF Reserved
  <2>6. free_blocks' = FS_MAX_DATA_BLOCKS - Cardinality(data_bitmap')
    BY <1>3, <2>1, <2>3, FsSizes DEF Reserved
  <2>7. Cardinality(inode_bitmap') <= FS_DIRECT_BLOCKS * ENTRIES + 1
    <3>1. Cardinality(inode_bitmap) <= FS_DIRECT_BLOCKS * ENTRIES + 1
      BY <2>1 DEF Reserved
    <3> QED
      BY <1>3, <2>2, <3>1, FsSizes
  <2>8. InodesInTable'
    BY <1>15, <2>1 DEF Reserved, InodesInTable
  <2> QED
    BY <2>4, <2>5, <2>6, <2>7, <2>8 DEF Reserved
<1>26. InOrder'
  BY <1>14, <1>16, <1>17, <1>18, <1>22, <1>24, <1>25 DEF InOrder
<1>27. Linked' = Linked \ {pos} /\ \A p \in Linked' : EntryAt(p)' = EntryAt(p)
  <2>1. Linked' = Linked \ {pos} /\ Linked' \subseteq All
    BY <1>6, <1>13, <1>17 DEF LinkedIn
  <2>2. ASSUME NEW p \in Linked' PROVE EntryAt(p)' = EntryAt(p)
    <3>1. /\ EntryAt(p)' = de2[rb[Row(p)]][Col(p)] /\ EntryAt(p) = dirent[rb[Row(p)]][Col(p)]
      BY <1>1, <1>9, <1>16 DEF EntryAt, Row, Col
    <3>2. /\ Row(p) \in Direct /\ Col(p) \in Entry /\ (Row(p) # k \/ Col(p) # e)
          /\ rb[Row(p)] # 0
      BY <1>5, <1>6, <1>7, <2>1, RowCol DEF LinkedIn
    <3> QED
      BY <1>10, <3>1, <3>2
  <2> QED
    BY <2>1, <2>2
<1> QED
  BY <1>4, <1>5, <1>16, <1>26, <1>27, OrderIsRest

(* What a turn of fs_write's loop writes: n bytes from offset off of the   *)
(* block of index ix, of the len bytes of which pos are written.           *)
Turn(pos, len, size, ix, off, n) ==
  ix = pos \div size /\ off = pos % size /\ n = Least(len - pos, size - off)

(* It stays in the block and in the text, and moves on.                    *)
LEMMA TurnBounds ==
  ASSUME NEW pos \in Nat, NEW len \in Nat, pos < len, NEW size \in Nat \ {0},
         NEW ix, NEW off, NEW n, Turn(pos, len, size, ix, off, n)
  PROVE  /\ ix \in Nat /\ off \in 0..(size - 1) /\ n \in Nat \ {0}
         /\ pos + n <= len /\ off + n <= size
         /\ \A j \in Nat : j < ix => j * size < pos
         /\ \A j \in Nat : j * size < pos + n => j <= ix
<1>1. ix \in Nat /\ off \in 0..(size - 1) /\ pos = ix * size + off
  BY DivisionBounds DEF Turn
<1>2. n \in Nat \ {0} /\ pos + n <= len /\ off + n <= size
  BY <1>1 DEF Turn, Least
<1>3. PICK full : full = ix * size
  OBVIOUS
<1>4. full \in Nat /\ pos = full + off
  BY <1>1, <1>3
<1>5. ASSUME NEW j \in Nat, j < ix PROVE j * size < pos
  <2>1. (j + 1) * size <= ix * size
    BY <1>1, <1>5
  <2>2. (j + 1) * size = j * size + size /\ j * size \in Nat
    OBVIOUS
  <2> QED
    BY <1>1, <1>3, <1>4, <2>1, <2>2
<1>6. ASSUME NEW j \in Nat, j * size < pos + n PROVE j <= ix
  <2>1. j >= ix + 1 => j * size >= (ix + 1) * size
    BY <1>1
  <2>2. (ix + 1) * size = full + size
    BY <1>1, <1>3
  <2>3. j * size \in Nat
    OBVIOUS
  <2>4. ~(j >= ix + 1)
    BY <1>1, <1>2, <1>4, <1>6, <2>1, <2>2, <2>3
  <2> QED
    BY <1>1, <2>4
<1> QED
  BY <1>1, <1>2, <1>5, <1>6

(* What the turn does to the file and to the disk: b is its block.         *)
Wrote(ix, off, n, b) ==
  /\ ix \in Direct /\ b \in Blocks /\ b # 0
  /\ fd.position < Len(fd.text)
  /\ Turn(fd.position, Len(fd.text), FS_BLOCK_SIZE, ix, off, n)
  /\ fd # Closed /\ fd' # Closed
  /\ fd'.inode = fd.inode /\ fd'.text = fd.text /\ fd'.position = fd.position + n
  /\ fd'.copy \in InodeType
  /\ fd'.copy.size = NewSize(fd.copy.size, fd.position + n)
  /\ fd'.copy.blocks = [fd.copy.blocks EXCEPT ![ix] = b]
  /\ \/ fd.copy.blocks[ix] = 0 /\ b \notin data_bitmap
     \/ fd.copy.blocks[ix] = b
  /\ \A o \in off..(off + n - 1) : bytes'[b][o] = fd.text[fd.position + o - off + 1]
  /\ fd.copy.blocks[ix] # 0 =>
       \A o \in Offset : o \notin off..(off + n - 1) => bytes'[b][o] = bytes[b][o]
  /\ \A c \in Blocks : c # b => bytes'[c] = bytes[c]
  /\ inodes' = inodes /\ dirent' = dirent

(* A turn of fs_write's loop.                                              *)
LEMMA WriteBlockStep ==
  ASSUME FsInv, WriteBlock
  PROVE  FsInv' /\ \E ix, off, n, b : Wrote(ix, off, n, b)
<1>1. PICK i, text, pos, ix, copy : /\ i = fd.inode /\ text = fd.text /\ pos = fd.position
                                    /\ ix = Index /\ copy = fd.copy
  OBVIOUS
<1>2. PICK off, b, was : /\ off = pos % FS_BLOCK_SIZE
                         /\ b = IF Missing THEN Min(FreeBlocks) ELSE fd.copy.blocks[Index]
                         /\ was = IF Missing THEN ZeroBytes ELSE bytes[b]
  OBVIOUS
<1>3. PICK n : n = Least(Len(text) - pos, FS_BLOCK_SIZE - off)
  OBVIOUS
<1>4. PICK line : line = [o \in Offset |-> IF o \in off..(off + n - 1)
                                             THEN text[pos + o - off + 1] ELSE was[o]]
  OBVIOUS
<1>5. /\ fd # Closed /\ ~(pos >= Len(text)) /\ ix \in Direct
      /\ (Missing => FreeBlocks # {})
      /\ data_bitmap' = data_bitmap \union {b}
      /\ free_blocks' = BlocksLeft
      /\ bytes' = [bytes EXCEPT ![b] = line]
      /\ fd' = [fd EXCEPT !.position = @ + n,
                          !.copy.blocks[Index] = b,
                          !.copy.size = NewSize(@, fd.position + n)]
      /\ inode_bitmap' = inode_bitmap /\ free_inodes' = free_inodes
      /\ inodes' = inodes /\ dirent' = dirent /\ formats' = formats
  BY <1>1, <1>2, <1>3, <1>4 DEF WriteBlock, AtPrompt, AtEnd
<1>6. /\ Mounted /\ i \in Files
      /\ \A j \in Direct : j * FS_BLOCK_SIZE < pos => copy.blocks[j] # 0
      /\ NoHoles(copy.blocks)
  BY <1>1, <1>5 DEF FsInv, Writing, Contiguous, AtPrompt
<1>7. i \in inode_bitmap /\ i # RootInode /\ i \in Inodes
  BY <1>6, MountedFacts DEF FsInv, FsTypes
<1>8. /\ fd = [inode |-> i, copy |-> copy, text |-> text, position |-> pos]
      /\ copy \in InodeType /\ text \in Texts \union {<<>>} /\ pos \in Nat
  BY <1>1 DEF FsInv, FsTypes, OpenFile
<1>9. text \in Seq(Nat) /\ Len(text) \in Nat /\ pos < Len(text)
  <2>1. text \in Seq(Nat)
    <3>1. <<>> \in Seq(Nat) /\ Texts \subseteq Seq(Nat)
      BY FsAssumption
    <3> QED
      BY <1>8, <3>1
  <2>2. Len(text) \in Nat
    BY <2>1
  <2> QED
    BY <1>5, <1>8, <2>1, <2>2
<1>10. /\ ix \in Nat /\ off \in 0..(FS_BLOCK_SIZE - 1) /\ n \in Nat \ {0}
       /\ pos + n <= Len(text) /\ off + n <= FS_BLOCK_SIZE
       /\ \A j \in Nat : j < ix => j * FS_BLOCK_SIZE < pos
       /\ \A j \in Nat : j * FS_BLOCK_SIZE < pos + n => j <= ix
  <2>1. PICK len : len = Len(text)
    OBVIOUS
  <2>2. /\ pos \in Nat /\ len \in Nat /\ pos < len /\ FS_BLOCK_SIZE \in Nat \ {0}
        /\ Turn(pos, len, FS_BLOCK_SIZE, ix, off, n)
    BY <1>1, <1>2, <1>3, <1>8, <1>9, <2>1, FsSizes DEF Index, Turn
  <2>3. /\ ix \in Nat /\ off \in 0..(FS_BLOCK_SIZE - 1) /\ n \in Nat \ {0}
        /\ pos + n <= len /\ off + n <= FS_BLOCK_SIZE
        /\ \A j \in Nat : j < ix => j * FS_BLOCK_SIZE < pos
        /\ \A j \in Nat : j * FS_BLOCK_SIZE < pos + n => j <= ix
    BY ONLY <2>2, TurnBounds
  <2> QED
    BY <2>1, <2>3
<1>11. /\ b \in Blocks /\ b # 0
       /\ \/ copy.blocks[ix] = 0 /\ b \notin data_bitmap /\ free_blocks' = free_blocks - 1
          \/ copy.blocks[ix] = b /\ b \in data_bitmap /\ free_blocks' = free_blocks
  <2>1. CASE Missing
    <3>1. FreeBlocks \subseteq Nat
      BY FsSizes DEF FreeBlocks, Blocks
    <3>2. b \in FreeBlocks
      BY <1>2, <1>5, <2>1, <3>1, LeastIs
    <3> QED
      BY <1>1, <1>5, <2>1, <3>2, FsFacts DEF Missing, BlocksLeft
  <2>2. CASE ~Missing
    <3>1. b = copy.blocks[ix] /\ b # 0 /\ b \in Blocks
      BY <1>1, <1>2, <1>5, <1>8, <2>2 DEF Missing, InodeType
    <3>2. BlocksNow[i] = copy.blocks
      BY <1>1, <1>5, <1>7 DEF BlocksNow, Current, AtPrompt
    <3>3. b \in data_bitmap
      BY <1>5, <1>6, <1>7, <3>1, <3>2, MountedFacts
    <3> QED
      BY <1>5, <2>2, <3>1, <3>3 DEF BlocksLeft
  <2> QED
    BY <2>1, <2>2
<1>12. PICK blocks : blocks = [copy.blocks EXCEPT ![ix] = b]
  OBVIOUS
<1>13. /\ blocks \in [Direct -> Blocks] /\ blocks[ix] = b
       /\ \A l \in Direct : l # ix => blocks[l] = copy.blocks[l]
  BY <1>5, <1>8, <1>11, <1>12 DEF InodeType
<1>14. /\ fd' \in OpenFile /\ fd'.inode = i /\ fd'.text = text /\ fd'.position = pos + n
       /\ fd'.copy \in InodeType /\ fd'.copy.blocks = blocks
       /\ fd'.copy.size = NewSize(copy.size, pos + n)
  <2>1. PICK size : size = NewSize(copy.size, pos + n)
    OBVIOUS
  <2>2. size \in Nat
    BY <1>8, <1>10, <2>1 DEF NewSize, InodeType
  <2>3. PICK new : new = [mode |-> copy.mode, size |-> size, blocks |-> blocks]
    OBVIOUS
  <2>4. new \in InodeType /\ new.blocks = blocks /\ new.size = size
    BY <1>8, <1>13, <2>2, <2>3 DEF InodeType
  <2>5. fd' = [inode |-> i, copy |-> new, text |-> text, position |-> pos + n]
    <3>1. copy = [mode |-> copy.mode, size |-> copy.size, blocks |-> copy.blocks]
      BY <1>8 DEF InodeType
    <3> QED
      BY <1>1, <1>5, <1>8, <1>12, <2>1, <2>3, <3>1
  <2> QED
    BY <1>7, <1>8, <1>10, <2>1, <2>4, <2>5 DEF OpenFile
<1>15. line \in [Offset -> Nat]
  <2>1. was \in [Offset -> Nat]
    BY <1>2, <1>11, NewValues DEF FsInv, FsTypes
  <2>2. ASSUME NEW o \in off..(off + n - 1) PROVE text[pos + o - off + 1] \in Nat
    <3>1. PICK x : x = pos + o - off + 1
      OBVIOUS
    <3>2. x \in 1..Len(text)
      BY <1>8, <1>9, <1>10, <2>2, <3>1
    <3>3. text[x] \in Nat
      BY <1>9, <3>2
    <3> QED
      BY <3>1, <3>3
  <2> QED
    BY <1>4, <2>1, <2>2
<1>16. FsTypes'
  <2>1. bytes' \in [Blocks -> [Offset -> Nat]]
    BY <1>5, <1>11, <1>15 DEF FsInv, FsTypes
  <2>2. data_bitmap' \subseteq Blocks
    BY <1>5, <1>11 DEF FsInv, FsTypes
  <2>3. fd'.position <= Len(fd'.text)
    BY <1>10, <1>14
  <2> QED
    BY <1>5, <1>14, <2>1, <2>2, <2>3 DEF FsInv, FsTypes
<1>17. Root' = Root /\ Linked' = Linked /\ Links' = Links /\ Files' = Files /\ Mounted' = Mounted
  BY <1>5 DEF Root, Linked, Links, Files, Mounted, EntryAt, Positions
<1>18. \A j \in Direct : j < ix => copy.blocks[j] # 0
  BY <1>6, <1>10, FsSizes DEF Direct
<1>19. Contiguous'
  <2>1. ASSUME NEW a \in Direct, NEW c \in Direct, blocks[a] = 0, a < c PROVE blocks[c] = 0
    <3>1. a \in Nat /\ c \in Nat /\ ix \in Nat
      BY <1>10, FsSizes DEF Direct
    <3>2. a # ix /\ copy.blocks[a] = 0
      BY <1>11, <1>13, <2>1
    <3>3. ~(a < ix)
      BY <1>18, <3>2
    <3>4. c # ix /\ copy.blocks[c] = 0
      BY <1>6, <2>1, <3>1, <3>2, <3>3 DEF NoHoles
    <3> QED
      BY <1>13, <3>4
  <2>2. NoHoles(fd'.copy.blocks)
    BY <1>14, <2>1 DEF NoHoles
  <2> QED
    BY <1>5, <2>2 DEF FsInv, Contiguous
<1>20. Writing'
  <2>1. ASSUME NEW j \in Direct, j * FS_BLOCK_SIZE < pos + n PROVE blocks[j] # 0
    <3>1. j \in Nat /\ j <= ix
      BY <1>10, <2>1, FsSizes DEF Direct
    <3>2. CASE j = ix
      BY <1>11, <1>13, <3>2
    <3>3. CASE j # ix
      BY <1>10, <1>13, <1>18, <3>1, <3>3
    <3> QED
      BY <3>2, <3>3
  <2> QED
    BY <1>6, <1>14, <1>17, <2>1 DEF Writing
<1>21. Reserved'
  <2>1. Reserved /\ data_bitmap \subseteq Blocks
    BY DEF FsInv, FsTypes
  <2>2. /\ IsFiniteSet(data_bitmap) /\ Cardinality(data_bitmap) \in Nat
    BY <2>1, BitmapsFinite, FsSizes
  <2>3. Cardinality(data_bitmap \union {b})
          = IF b \in data_bitmap THEN Cardinality(data_bitmap) ELSE Cardinality(data_bitmap) + 1
    BY <2>2, FS_AddElement
  <2>4. free_blocks' = FS_MAX_DATA_BLOCKS - Cardinality(data_bitmap')
    <3>1. PICK used, now : used = Cardinality(data_bitmap) /\ now = Cardinality(data_bitmap')
      OBVIOUS
    <3>2. free_blocks = FS_MAX_DATA_BLOCKS - used
      BY <2>1, <3>1 DEF Reserved
    <3>3. now = IF b \in data_bitmap THEN used ELSE used + 1
      BY <1>5, <2>3, <3>1
    <3>4. \/ now = used + 1 /\ free_blocks' = free_blocks - 1
          \/ now = used /\ free_blocks' = free_blocks
      BY <1>11, <3>3
    <3>5. used \in Nat /\ FS_MAX_DATA_BLOCKS \in Nat
      BY <2>2, <3>1, FsSizes
    <3> QED
      BY ONLY <3>1, <3>2, <3>4, <3>5
  <2> QED
    BY <1>5, <2>1, <2>4 DEF Reserved, InodesInTable
<1>22. PICK bl, bl2 : bl = BlocksNow /\ bl2 = BlocksNow'
  OBVIOUS
<1>23. /\ bl[i] = copy.blocks /\ bl2[i] = blocks
       /\ \A j \in inode_bitmap : j # i => bl2[j] = bl[j]
  <2>1. fd' # Closed
    BY <1>7, <1>14, ClosedFile
  <2>2. Current(i) = copy /\ Current(i)'.blocks = blocks
    BY <1>1, <1>5, <1>14, <2>1 DEF Current, AtPrompt
  <2>3. \A j \in Inodes : j # i => Current(j) = inodes[j] /\ Current(j)' = inodes[j]
    BY <1>1, <1>5, <1>14 DEF Current, AtPrompt
  <2>4. inode_bitmap \subseteq Inodes
    BY DEF FsInv, FsTypes
  <2> QED
    BY <1>7, <1>22, <2>2, <2>3, <2>4 DEF BlocksNow
<1>24. Tidy(inode_bitmap, data_bitmap, bl, Links) /\ Root.size = Cardinality(Linked)
  BY <1>6, <1>22, MountedFacts
<1>25. Tidy(inode_bitmap, data_bitmap \union {b}, bl2, Links)
  <2>1. CASE copy.blocks[ix] = 0
    <3>1. b \notin data_bitmap /\ bl[i][ix] = 0 /\ bl2[i][ix] = b
      BY <1>11, <1>13, <1>23, <2>1
    <3>2. \A l \in Direct : l # ix => bl2[i][l] = bl[i][l]
      BY <1>13, <1>23
    <3> QED
      BY <1>5, <1>7, <1>23, <1>24, <3>1, <3>2, TidyGrow
  <2>2. CASE copy.blocks[ix] # 0
    <3>1. copy.blocks[ix] = b /\ data_bitmap \union {b} = data_bitmap
      BY <1>11, <2>2
    <3>2. blocks = copy.blocks
      BY <1>5, <1>8, <1>12, <3>1 DEF InodeType
    <3>3. \A j \in inode_bitmap : bl2[j] = bl[j]
      BY <1>23, <3>2
    <3> QED
      BY <1>24, <3>1, <3>3, TidySame
  <2> QED
    BY <2>1, <2>2
<1>26. Consistent'
  BY <1>5, <1>17, <1>22, <1>24, <1>25 DEF Consistent
<1>27. Wrote(ix, off, n, b)
  <2>1. PICK by2 : by2 = bytes'
    OBVIOUS
  <2>2. /\ by2[b] = line /\ \A c \in Blocks : c # b => by2[c] = bytes[c]
    BY <1>5, <1>11, <2>1 DEF FsInv, FsTypes
  <2>3. \A o \in off..(off + n - 1) : o \in Offset
    BY <1>10, FsSizes DEF Offset
  <2>4. \A o \in off..(off + n - 1) : by2[b][o] = text[pos + o - off + 1]
    BY <1>4, <2>2, <2>3
  <2>5. copy.blocks[ix] # 0 =>
          \A o \in Offset : o \notin off..(off + n - 1) => by2[b][o] = bytes[b][o]
    BY <1>1, <1>2, <1>4, <2>2 DEF Missing
  <2>6. Turn(pos, Len(text), FS_BLOCK_SIZE, ix, off, n)
    BY <1>1, <1>2, <1>3 DEF Turn, Index
  <2>7. fd' # Closed
    BY <1>7, <1>14, ClosedFile
  <2> QED
    BY <1>1, <1>5, <1>9, <1>11, <1>12, <1>14, <2>1, <2>2, <2>4, <2>5, <2>6, <2>7 DEF Wrote
<1> QED
  BY <1>16, <1>19, <1>20, <1>21, <1>26, <1>27 DEF FsInv

(* The end of write: the inode is stored.                                  *)
LEMMA WriteEndStep ==
  ASSUME FsInv, WriteEnd
  PROVE  FsInv'
<1>1. PICK i, copy : i = fd.inode /\ copy = fd.copy
  OBVIOUS
<1>2. /\ fd # Closed /\ inodes' = [inodes EXCEPT ![i] = copy] /\ fd' = Closed
      /\ inode_bitmap' = inode_bitmap /\ data_bitmap' = data_bitmap
      /\ free_inodes' = free_inodes /\ free_blocks' = free_blocks
      /\ dirent' = dirent /\ bytes' = bytes /\ formats' = formats
  BY <1>1 DEF WriteEnd, AtPrompt, allocVars
<1>3. Mounted /\ i \in Files /\ NoHoles(copy.blocks) /\ copy \in InodeType
  BY <1>1, <1>2 DEF FsInv, FsTypes, OpenFile, Writing, Contiguous, AtPrompt
<1>4. i \in inode_bitmap /\ i # RootInode /\ i \in Inodes
  BY <1>3, MountedFacts DEF FsInv, FsTypes
<1>5. /\ inodes' \in [Inodes -> InodeType] /\ inodes'[i] = copy
      /\ \A j \in Inodes : j # i => inodes'[j] = inodes[j]
  BY <1>2, <1>3, <1>4 DEF FsInv, FsTypes
<1>6. DiskTypes'
  BY <1>2, <1>5 DEF FsInv, FsTypes, DiskTypes
<1>7. Reserved'
  <2>1. i < TABLE_INODES
    BY <1>4, FsSizes DEF FsInv, Reserved
  <2>2. InodesInTable'
    BY <1>5, <2>1 DEF FsInv, Reserved, InodesInTable
  <2> QED
    BY <1>2, <2>2 DEF FsInv, Reserved
<1>8. \A j \in Inodes : NoHoles(inodes'[j].blocks)
  BY <1>3, <1>5 DEF FsInv, Contiguous
<1>9. Root' = Root
  BY <1>4, <1>5, FsSizes DEF Root
<1>10. Linked' = Linked /\ Links' = Links /\ Mounted' = Mounted
  BY <1>2, <1>9 DEF Linked, Links, Mounted, EntryAt, Positions
<1>11. TableBlocks' = BlocksNow
  <2>1. \A j \in Inodes : Current(j) = inodes'[j]
    BY <1>1, <1>2, <1>5 DEF Current, AtPrompt
  <2> QED
    BY <2>1 DEF TableBlocks, BlocksNow
<1>12. InOrder'
  BY <1>2, <1>3, <1>6, <1>7, <1>8, <1>9, <1>10, <1>11, MountedFacts DEF InOrder
<1>13. formats' \in 0..MaxFormats
  BY <1>2 DEF FsInv, FsTypes
<1> QED
  BY <1>2, <1>12, <1>13, OrderIsRest

-----------------------------------------------------------------------------
(* Formatting.                                                             *)

(* A directory without blocks links nothing, and its disk is tidy.         *)
LEMMA EmptyDisk ==
  ASSUME NEW rb, \A k \in Direct : rb[k] = 0, NEW de, NEW bl, bl[RootInode] = rb
  PROVE  /\ LinkedIn(rb, de) = {}
         /\ Tidy({RootInode}, {0}, bl, LinksIn(rb, de))
<1>1. LinkedIn(rb, de) = {}
  BY RowCol DEF LinkedIn
<1>2. DOMAIN LinksIn(rb, de) = {}
  BY <1>1 DEF LinksIn
<1>3. Held(bl, RootInode) = {}
  BY DEF Held
<1>4. UNION {Held(bl, i) : i \in {RootInode}} = {}
  BY <1>3
<1> QED
  BY <1>1, <1>2, <1>4 DEF Tidy

(* The bitmaps of an empty disk.                                           *)
LEMMA EmptyBitmaps ==
  /\ {RootInode} \subseteq Inodes /\ {RootInode} \subseteq 0..(TABLE_INODES - 1)
  /\ {0} \subseteq Blocks
  /\ Cardinality({RootInode}) = 1 /\ Cardinality({0}) = 1
  /\ 1 <= FS_DIRECT_BLOCKS * ENTRIES + 1
<1>1. Cardinality({RootInode}) = 1 /\ Cardinality({0}) = 1
  BY FS_Singleton
<1> QED
  BY <1>1, FsSizes DEF RootInode

(* fsformat.                                                               *)
LEMMA FsformatStep ==
  ASSUME FsInv, Fsformat
  PROVE  FsInv'
<1>1. PICK root : root = NewInode(FS_TYPE_DIR, 0)
  OBVIOUS
<1>2. /\ AtPrompt /\ formats' = formats + 1 /\ formats < MaxFormats
      /\ inode_bitmap' = {RootInode} /\ data_bitmap' = {0}
      /\ free_inodes' = FS_MAX_INODES - 1 /\ free_blocks' = FS_MAX_DATA_BLOCKS - 1
      /\ inodes' = [inodes EXCEPT ![RootInode] = root]
      /\ dirent' = [dirent EXCEPT ![0] = ZeroEntries]
      /\ bytes' = [bytes EXCEPT ![0] = ZeroBytes]
      /\ fd' = fd
  BY <1>1 DEF Fsformat, Format
<1>3. InOrder /\ fd' = Closed /\ formats' \in 0..MaxFormats
  BY <1>2, RestIsOrder, FsSizes DEF AtPrompt, FsInv, FsTypes
<1>4. /\ root \in InodeType /\ root.size = 0 /\ IsDir(root.mode) /\ NoHoles(root.blocks)
      /\ \A k \in Direct : root.blocks[k] = 0
  BY <1>1, NewValues, FsSizes
<1>5. /\ inodes' \in [Inodes -> InodeType] /\ inodes'[RootInode] = root
      /\ \A j \in Inodes : j # RootInode => inodes'[j] = inodes[j]
  BY <1>2, <1>3, <1>4, FsSizes DEF InOrder, DiskTypes
<1>6. DiskTypes'
  BY <1>2, <1>3, <1>5, NewValues, EmptyBitmaps, FsSizes DEF InOrder, DiskTypes
<1>7. Reserved'
  <2>1. InodesInTable'
    BY <1>3, <1>5, FsSizes DEF InOrder, Reserved, InodesInTable, RootInode
  <2> QED
    BY <1>2, <2>1, EmptyBitmaps DEF Reserved
<1>8. \A j \in Inodes : NoHoles(inodes'[j].blocks)
  BY <1>3, <1>4, <1>5 DEF InOrder
<1>9. PICK rb : rb = root.blocks
  OBVIOUS
<1>10. Root' = root /\ Root.blocks' = rb
  BY <1>5, <1>9 DEF Root
<1>11. Linked' = LinkedIn(rb, dirent') /\ Links' = LinksIn(rb, dirent')
  <2>1. NoHoles(Root.blocks)'
    BY <1>4, <1>10 DEF NoHoles
  <2> QED
    BY <1>10, <2>1, LinkedNext
<1>12. Linked' = {} /\ Tidy({RootInode}, {0}, TableBlocks', Links')
  <2>1. PICK de, bl : de = dirent' /\ bl = TableBlocks'
    OBVIOUS
  <2>2. bl[RootInode] = rb /\ \A k \in Direct : rb[k] = 0
    BY <1>4, <1>5, <1>9, <2>1, FsSizes DEF TableBlocks
  <2>3. LinkedIn(rb, de) = {} /\ Tidy({RootInode}, {0}, bl, LinksIn(rb, de))
    BY <2>2, EmptyDisk
  <2> QED
    BY <1>11, <2>1, <2>3
<1>13. InOrder'
  <2>1. Root.size' = Cardinality(Linked')
    BY <1>4, <1>10, <1>12, FS_EmptySet
  <2> QED
    BY <1>2, <1>6, <1>7, <1>8, <1>12, <2>1 DEF InOrder
<1> QED
  BY <1>3, <1>13, OrderIsRest

(* rdformat: nothing is mounted any more.                                  *)
LEMMA RdformatStep ==
  ASSUME FsInv, Rdformat
  PROVE  FsInv'
<1>1. /\ AtPrompt /\ formats' = formats + 1 /\ formats < MaxFormats
      /\ inodes' = [i \in Inodes |-> NoInode]
      /\ dirent' = [b \in Blocks |-> ZeroEntries]
      /\ bytes' = [b \in Blocks |-> ZeroBytes]
      /\ inode_bitmap' = inode_bitmap /\ data_bitmap' = data_bitmap
      /\ free_inodes' = free_inodes /\ free_blocks' = free_blocks
      /\ fd' = fd
  BY DEF Rdformat, Format, allocVars
<1>2. InOrder /\ fd' = Closed /\ formats' \in 0..MaxFormats
  BY <1>1, RestIsOrder, FsSizes DEF AtPrompt, FsInv, FsTypes
<1>3. \A j \in Inodes : inodes'[j] = NoInode
  BY <1>1
<1>4. DiskTypes'
  BY <1>1, <1>2, NewValues DEF InOrder, DiskTypes
<1>5. Reserved'
  <2>1. InodesInTable'
    BY <1>3, NewValues DEF InodesInTable
  <2> QED
    BY <1>1, <1>2, <2>1 DEF InOrder, Reserved
<1>6. \A j \in Inodes : NoHoles(inodes'[j].blocks)
  BY <1>3, NewValues
<1>7. ~Mounted'
  BY <1>3, NewValues, FsSizes DEF Mounted, Root, IsDir, FS_TYPE_DIR
<1>8. InOrder'
  BY <1>4, <1>5, <1>6, <1>7 DEF InOrder
<1> QED
  BY <1>2, <1>8, OrderIsRest

(* The disk kernel_main formats.                                           *)
LEMMA FsInit == Init => FsInv
<1> SUFFICES ASSUME Init PROVE FsInv
  OBVIOUS
<1>1. PICK root : root = NewInode(FS_TYPE_DIR, 0)
  OBVIOUS
<1>2. /\ inode_bitmap = {RootInode} /\ data_bitmap = {0}
      /\ free_inodes = FS_MAX_INODES - 1 /\ free_blocks = FS_MAX_DATA_BLOCKS - 1
      /\ inodes = [i \in Inodes |-> IF i = RootInode THEN root ELSE NoInode]
      /\ dirent = [b \in Blocks |-> ZeroEntries] /\ bytes = [b \in Blocks |-> ZeroBytes]
      /\ fd = Closed /\ formats = 0
  BY <1>1 DEF Init
<1>3. /\ root \in InodeType /\ root.size = 0 /\ IsDir(root.mode) /\ NoHoles(root.blocks)
      /\ \A k \in Direct : root.blocks[k] = 0
  BY <1>1, NewValues, FsSizes
<1>4. /\ inodes \in [Inodes -> InodeType] /\ inodes[RootInode] = root
      /\ \A j \in Inodes : j # RootInode => inodes[j] = NoInode
  BY <1>2, <1>3, NewValues, FsSizes
<1>5. FsTypes
  BY <1>2, <1>4, NewValues, EmptyBitmaps, ClosedFile, FsSizes DEF FsTypes
<1>6. Reserved
  <2>1. InodesInTable
    BY <1>4, NewValues, FsSizes DEF InodesInTable, RootInode
  <2> QED
    BY <1>2, <2>1, EmptyBitmaps DEF Reserved
<1>7. Contiguous
  BY <1>2, <1>3, <1>4, NewValues, ClosedFile DEF Contiguous
<1>8. Writing
  <2>1. ASSUME NEW j \in Direct PROVE ~(j * FS_BLOCK_SIZE < 0)
    <3>1. j \in Nat /\ FS_BLOCK_SIZE \in Nat
      BY FsSizes DEF Direct
    <3>2. j * FS_BLOCK_SIZE \in Nat
      BY <3>1
    <3> QED
      BY <3>2
  <2> QED
    BY <1>2, <2>1, ClosedFile DEF Writing, AtPrompt
<1>9. Consistent
  <2>1. Root = root
    BY <1>4 DEF Root
  <2>2. Linked = LinkedIn(Root.blocks, dirent) /\ Links = LinksIn(Root.blocks, dirent)
    BY <1>3, <2>1, LinkedNow
  <2>3. BlocksNow[RootInode] = root.blocks
    BY <1>2, <2>1, FsSizes DEF BlocksNow, Current, AtPrompt, Root
  <2>4. Linked = {} /\ Tidy({RootInode}, {0}, BlocksNow, Links)
    BY <1>3, <2>1, <2>2, <2>3, EmptyDisk
  <2>5. Root.size = Cardinality(Linked)
    BY <1>3, <2>1, <2>4, FS_EmptySet
  <2> QED
    BY <1>2, <2>4, <2>5 DEF Consistent
<1> QED
  BY <1>5, <1>6, <1>7, <1>8, <1>9 DEF FsInv

(* A step that changes nothing.                                            *)
LEMMA FsStutter ==
  ASSUME FsInv, UNCHANGED vars
  PROVE  FsInv'
<1>1. /\ inode_bitmap' = inode_bitmap /\ data_bitmap' = data_bitmap
      /\ free_inodes' = free_inodes /\ free_blocks' = free_blocks
      /\ inodes' = inodes /\ dirent' = dirent /\ bytes' = bytes
      /\ fd' = fd /\ formats' = formats
  BY DEF vars
<1>2. Root' = Root /\ Linked' = Linked /\ Links' = Links /\ Files' = Files
      /\ Mounted' = Mounted /\ AtPrompt' = AtPrompt
  BY <1>1 DEF Root, Linked, Links, Files, Mounted, EntryAt, Positions, AtPrompt
<1>3. BlocksNow' = BlocksNow
  BY <1>1, <1>2 DEF BlocksNow, Current
<1>4. FsTypes' /\ Reserved' /\ Contiguous'
  BY <1>1 DEF FsInv, FsTypes, Reserved, InodesInTable, Contiguous
<1>5. Writing' /\ Consistent'
  BY <1>1, <1>2, <1>3 DEF FsInv, Writing, Consistent
<1> QED
  BY <1>4, <1>5 DEF FsInv

-----------------------------------------------------------------------------
(* Theorems.                                                               *)

(* The invariant: whatever is created, written, removed or erased, and     *)
(* between the turns of fs_write's loop, for every size of the disk.       *)
THEOREM FsInvariance == Spec => []FsInv
<1>1. ASSUME FsInv, [Next]_vars PROVE FsInv'
  <2>1. CASE UNCHANGED vars
    BY <1>1, <2>1, FsStutter
  <2>2. ASSUME NEW n \in Names, Touch(n) \/ Mkdir(n) PROVE FsInv'
    <3>1. PICK type \in {FS_TYPE_FILE, FS_TYPE_DIR} : Create(n, type) \/ CreateUndone(n, type)
      BY <2>2 DEF Touch, Mkdir
    <3> QED
      BY <1>1, <3>1, CreateStep, UndoneStep
  <2>3. ASSUME NEW n \in Names, Rm(n) PROVE FsInv'
    BY <1>1, <2>3, RmStep
  <2>4. ASSUME NEW n \in Names, NEW text \in Texts, WriteOld(n, text) \/ WriteNew(n, text)
        PROVE  FsInv'
    BY <1>1, <2>4, WriteOldStep, WriteNewStep
  <2>5. CASE WriteBlock
    BY <1>1, <2>5, WriteBlockStep
  <2>6. CASE WriteEnd
    BY <1>1, <2>6, WriteEndStep
  <2>7. CASE Fsformat
    BY <1>1, <2>7, FsformatStep
  <2>8. CASE Rdformat
    BY <1>1, <2>8, RdformatStep
  <2> QED
    BY <1>1, <2>1, <2>2, <2>3, <2>4, <2>5, <2>6, <2>7, <2>8 DEF Next
<1> QED
  BY <1>1, FsInit, PTL DEF Spec

(* Every value is what the code's types allow; a write never runs past the *)
(* end of its text.                                                        *)
THEOREM FsTypeCorrect == Spec => []TypeOK
<1>1. FsInv => TypeOK
  <2> SUFFICES ASSUME FsInv PROVE TypeOK
    OBVIOUS
  <2>1. FsTypes /\ Reserved
    BY DEF FsInv
  <2>2. free_inodes \in 0..FS_MAX_INODES /\ free_blocks \in 0..FS_MAX_DATA_BLOCKS
    <3>1. /\ Cardinality(inode_bitmap) \in 0..FS_MAX_INODES
          /\ Cardinality(data_bitmap) \in 0..FS_MAX_DATA_BLOCKS
      BY <2>1, BitmapsFinite DEF FsTypes
    <3> QED
      BY <2>1, <3>1, FsSizes DEF Reserved
  <2>3. \A b \in Blocks, k \in Entry : dirent[b][k].inode \in Inodes
    <3>1. ASSUME NEW b \in Blocks, NEW k \in Entry PROVE dirent[b][k] \in DirEntry
      BY <2>1 DEF FsTypes
    <3> QED
      BY <3>1 DEF DirEntry
  <2>4. \A b \in Blocks, o \in Offset : bytes[b][o] \in Nat
    BY <2>1 DEF FsTypes
  <2>5. fd.inode \in Inodes /\ fd.copy \in InodeType /\ fd.position \in 0..Len(fd.text)
    <3>1. fd \in OpenFile /\ fd.position <= Len(fd.text)
      BY <2>1 DEF FsTypes
    <3>2. <<>> \in Seq(Nat) /\ Texts \subseteq Seq(Nat)
      BY FsAssumption
    <3>3. fd.text \in Seq(Nat)
      BY <3>1, <3>2 DEF OpenFile
    <3>4. Len(fd.text) \in Nat
      BY <3>3
    <3> QED
      BY <3>1, <3>4 DEF OpenFile
  <2> QED
    BY <2>1, <2>2, <2>3, <2>4, <2>5 DEF FsTypes, TypeOK
<1> QED
  BY <1>1, FsInvariance, PTL

(* The bitmaps mark what the directory reaches and nothing else: no path   *)
(* through the commands, failed ones included, leaks an inode or a block   *)
(* or leaves one in use marked free.                                       *)
THEOREM NothingLeaks == Spec => []BitmapsExact
<1>1. FsInv => BitmapsExact
  <2> SUFFICES ASSUME FsInv, Mounted
               PROVE  /\ inode_bitmap = {RootInode} \union Files
                      /\ data_bitmap = {0} \union Owned(RootInode)
                                         \union UNION {Owned(i) : i \in Files}
    BY DEF BitmapsExact
  <2>1. inode_bitmap = {RootInode} \union Files
    BY FsFacts, MountedFacts DEF Tidy
  <2>2. data_bitmap = {0} \union UNION {Held(BlocksNow, i) : i \in inode_bitmap}
    BY MountedFacts DEF Tidy
  <2>3. \A i \in inode_bitmap : Held(BlocksNow, i) = Owned(i)
    BY DEF Held, Owned, BlocksNow, FsInv, FsTypes
  <2> QED
    BY <2>1, <2>2, <2>3
<1> QED
  BY <1>1, FsInvariance, PTL

(* No block is in two files or twice in one, no inode is linked twice.     *)
THEOREM NoBlockShared == Spec => []NothingShared
<1>1. FsInv => NothingShared
  <2> SUFFICES ASSUME FsInv, Mounted PROVE NothingShared
    BY DEF NothingShared
  <2>1. Tidy(inode_bitmap, data_bitmap, BlocksNow, Links) /\ DOMAIN Links = Linked
    BY FsFacts, MountedFacts
  <2>2. {RootInode} \union Files \subseteq inode_bitmap /\ inode_bitmap \subseteq Inodes
    BY MountedFacts DEF FsInv, FsTypes
  <2>3. \A i \in inode_bitmap : BlocksNow[i] = Current(i).blocks
    BY <2>2 DEF BlocksNow
  <2>4. ASSUME NEW i \in {RootInode} \union Files, NEW j \in {RootInode} \union Files,
               NEW k \in Direct, NEW l \in Direct,
               <<i, k>> # <<j, l>>, Current(i).blocks[k] # 0
        PROVE  Current(i).blocks[k] # Current(j).blocks[l]
    <3>1. i # j \/ k # l
      BY <2>4
    <3>2. i \in inode_bitmap /\ j \in inode_bitmap
      BY <2>2
    <3> QED
      BY <2>1, <2>3, <2>4, <3>1, <3>2 DEF Tidy
  <2>5. ASSUME NEW p \in Linked, NEW q \in Linked, p # q
        PROVE  EntryAt(p).inode # EntryAt(q).inode
    <3>1. Links[p] = EntryAt(p).inode /\ Links[q] = EntryAt(q).inode
      BY DEF Links
    <3> QED
      BY <2>1, <2>5, <3>1 DEF Tidy
  <2> QED
    BY <2>4, <2>5 DEF NothingShared
<1> QED
  BY <1>1, FsInvariance, PTL

(* What fs_get_stats reports, and the root's size, are what they count.    *)
THEOREM CountsRight == Spec => []CountersExact
<1>1. FsInv => CountersExact
  BY DEF FsInv, Reserved, Consistent, CountersExact
<1> QED
  BY <1>1, FsInvariance, PTL

(* No inode is written behind the table, though the bitmap has more bits   *)
(* than the table has inodes: the directory is full before.                *)
THEOREM TableNotOverrun == Spec => []InodesInTable
<1>1. FsInv => InodesInTable
  BY DEF FsInv, Reserved
<1> QED
  BY <1>1, FsInvariance, PTL

-----------------------------------------------------------------------------
(* What a file holds.                                                      *)

(* Byte p of a file, of those its size counts, and all of them.            *)
Byte(inode, by, p) == by[inode.blocks[(p - 1) \div FS_BLOCK_SIZE]][(p - 1) % FS_BLOCK_SIZE]
Content(inode, by) == [p \in 1..inode.size |-> Byte(inode, by, p)]

(* There is a block for every byte the size counts.                        *)
Covered(inode) ==
  /\ inode.size <= FS_DIRECT_BLOCKS * FS_BLOCK_SIZE
  /\ \A k \in Direct : k * FS_BLOCK_SIZE < inode.size => inode.blocks[k] # 0

(* The length fs_read finds.                                               *)
Length(inode) == Least(inode.size, FS_BLOCK_SIZE * Cardinality(Chain(inode.blocks)))

(* The block of a byte is one of the file's.                               *)
LEMMA ByteInBlock ==
  ASSUME NEW inode \in InodeType, Covered(inode), NEW p \in 1..inode.size
  PROVE  /\ (p - 1) \div FS_BLOCK_SIZE \in Direct
         /\ (p - 1) % FS_BLOCK_SIZE \in Offset
         /\ p - 1 = ((p - 1) \div FS_BLOCK_SIZE) * FS_BLOCK_SIZE + ((p - 1) % FS_BLOCK_SIZE)
         /\ inode.blocks[(p - 1) \div FS_BLOCK_SIZE] # 0
<1>1. PICK a, z : a = p - 1 /\ z = FS_BLOCK_SIZE
  OBVIOUS
<1>2. inode.size \in Nat
  BY DEF InodeType
<1>3. a \in Nat /\ a < inode.size /\ z \in Nat \ {0}
  BY <1>1, <1>2, FsSizes
<1>4. a < FS_DIRECT_BLOCKS * z
  <2>1. FS_DIRECT_BLOCKS * z \in Nat /\ inode.size <= FS_DIRECT_BLOCKS * z
    BY <1>1, <1>3, FsSizes DEF Covered
  <2> QED
    BY <1>2, <1>3, <2>1
<1>5. PICK q, r : q = a \div z /\ r = a % z
  OBVIOUS
<1>6. q \in Nat /\ r \in 0..(z - 1) /\ a = q * z + r /\ q < FS_DIRECT_BLOCKS
  BY <1>3, <1>4, <1>5, FsSizes, DivisionBounds
<1>7. q \in Direct
  BY <1>6, FsSizes DEF Direct
<1>8. q * z < inode.size
  <2>1. q * z \in Nat
    BY <1>3, <1>6
  <2> QED
    BY <1>2, <1>3, <1>6, <2>1
<1>9. inode.blocks[q] # 0
  BY <1>1, <1>7, <1>8 DEF Covered
<1> QED
  BY <1>1, <1>5, <1>6, <1>7, <1>9 DEF Offset

(* With a block for every byte, fs_read does not stop before the end.      *)
LEMMA CoveredLength ==
  ASSUME NEW inode \in InodeType, Covered(inode)
  PROVE  Length(inode) = inode.size
<1>1. PICK z, C, c : z = FS_BLOCK_SIZE /\ C = Chain(inode.blocks) /\ c = Cardinality(C)
  OBVIOUS
<1>2. IsFiniteSet(C) /\ c \in Nat /\ z \in Nat \ {0} /\ inode.size \in Nat
  <2>1. IsFiniteSet(Direct)
    BY FsSizes, FS_Interval DEF Direct
  <2>2. C \subseteq Direct
    BY <1>1 DEF Chain
  <2> QED
    BY <1>1, <2>1, <2>2, FS_Subset, FS_CardinalityType, FsSizes DEF InodeType
<1>3. inode.size <= z * c
  <2>1. CASE inode.size = 0
    <3>1. z * c \in Nat
      BY <1>2
    <3> QED
      BY <2>1, <3>1
  <2>2. CASE inode.size # 0
    <3>1. PICK p : p = inode.size
      OBVIOUS
    <3>2. p \in 1..inode.size
      BY <1>2, <2>2, <3>1
    <3>3. PICK q, r : q = (p - 1) \div z /\ r = (p - 1) % z
      OBVIOUS
    <3>4. q \in Direct /\ r \in 0..(z - 1) /\ p - 1 = q * z + r
      BY <1>1, <3>2, <3>3, ByteInBlock DEF Offset
    <3>5. q \in Nat /\ q * z \in Nat /\ r \in Nat
      BY <1>2, <3>4, FsSizes DEF Direct
    <3>6. ASSUME NEW j \in 0..q PROVE j \in Direct /\ inode.blocks[j] # 0
      <4>1. j \in Nat /\ j <= q /\ j \in Direct
        BY <3>4, <3>5, FsSizes DEF Direct
      <4>2. j * z <= q * z /\ j * z \in Nat
        BY <1>2, <3>5, <4>1
      <4>3. j * z < inode.size
        BY <1>2, <3>1, <3>2, <3>4, <3>5, <4>2
      <4> QED
        BY <1>1, <4>1, <4>3 DEF Covered
    <3>7. 0..q \subseteq C
      <4>1. ASSUME NEW k \in 0..q PROVE k \in Direct /\ \A j \in 0..k : inode.blocks[j] # 0
        <5>1. \A j \in 0..k : j \in 0..q
          BY <3>5
        <5> QED
          BY <3>6, <5>1
      <4> QED
        BY <1>1, <4>1 DEF Chain
    <3>8. Cardinality(0..q) = q + 1
      BY <3>5, FS_Interval
    <3>9. q + 1 <= c
      BY <1>1, <1>2, <3>7, <3>8, FS_Subset
    <3>10. z * (q + 1) <= z * c /\ z * (q + 1) = q * z + z
      BY <1>2, <3>5, <3>9
    <3>11. z * c \in Nat
      BY <1>2
    <3> QED
      BY <1>2, <3>1, <3>2, <3>4, <3>5, <3>10, <3>11
  <2> QED
    BY <2>1, <2>2
<1>4. z * c \in Nat
  BY <1>2
<1> QED
  BY <1>1, <1>2, <1>3, <1>4 DEF Length, Least

(* So it returns what the file holds, in this state ...                    *)
LEMMA ReadNow ==
  ASSUME NEW i, Current(i) \in InodeType, Covered(Current(i))
  PROVE  ReadFile(i) = Content(Current(i), bytes)
<1>1. PICK inode : inode = Current(i)
  OBVIOUS
<1>2. ReadFile(i) = [p \in 1..Length(inode) |-> Byte(inode, bytes, p)]
  BY <1>1, Zenon DEF ReadFile, Length, Byte
<1>3. Length(inode) = inode.size
  BY <1>1, CoveredLength
<1> QED
  BY <1>1, <1>2, <1>3, Zenon DEF Content

(* ... and in the next.                                                    *)
LEMMA ReadNext ==
  ASSUME NEW i, NEW inode \in InodeType, Covered(inode), Current(i)' = inode
  PROVE  ReadFile(i)' = Content(inode, bytes')
<1>1. ReadFile(i)' = [p \in 1..Length(inode) |-> Byte(inode, bytes', p)]
  BY Zenon DEF ReadFile, Length, Byte, Chain, Least
<1>2. Length(inode) = inode.size
  BY CoveredLength
<1> QED
  BY <1>1, <1>2, Zenon DEF Content

(* A file holds the same when its blocks do.                               *)
LEMMA ContentSame ==
  ASSUME NEW inode \in InodeType, Covered(inode), NEW by, NEW by2,
         \A k \in Direct : inode.blocks[k] # 0 => by2[inode.blocks[k]] = by[inode.blocks[k]]
  PROVE  Content(inode, by2) = Content(inode, by)
<1>1. \A p \in 1..inode.size : Byte(inode, by2, p) = Byte(inode, by, p)
  BY ByteInBlock DEF Byte
<1> QED
  BY <1>1 DEF Content
-----------------------------------------------------------------------------
(* The directory as a map.                                                 *)

(* The used entries, what fs_read returns for each inode, and the map from *)
(* names to contents that path_lookup and fs_read show.                    *)
Dir == [p \in Linked |-> EntryAt(p)]
Reads == [i \in Inodes |-> ReadFile(i)]
Contents == [n \in {m \in Names : Exists(m)} |-> ReadFile(Lookup(n))]

(* The same for a directory with entries dir and files that read rd.       *)
Seen(dir) == {m \in Names : \E p \in DOMAIN dir : dir[p].name = m}
First(dir, n) == Min({p \in DOMAIN dir : dir[p].name = n})
ViewOf(dir, rd) == [n \in Seen(dir) |-> rd[dir[First(dir, n)].inode]]

(* No two entries have the same name, of the names users type.             *)
Apart(dir) ==
  \A p, q \in DOMAIN dir : (dir[p].name \in Names /\ dir[p].name = dir[q].name) => p = q

(* What the map shows under the name of an entry.                          *)
LEMMA ViewAt ==
  ASSUME NEW dir, DOMAIN dir \subseteq Nat, Apart(dir), NEW rd
  PROVE  /\ DOMAIN ViewOf(dir, rd) = Seen(dir)
         /\ \A p \in DOMAIN dir : dir[p].name \in Names =>
              /\ dir[p].name \in Seen(dir)
              /\ ViewOf(dir, rd)[dir[p].name] = rd[dir[p].inode]
<1>1. ASSUME NEW p \in DOMAIN dir, dir[p].name \in Names
      PROVE  dir[p].name \in Seen(dir) /\ First(dir, dir[p].name) = p
  <2>1. PICK n : n = dir[p].name
    OBVIOUS
  <2>2. {q \in DOMAIN dir : dir[q].name = n} = {p}
    BY <1>1, <2>1 DEF Apart
  <2>3. {p} # {} /\ {p} \subseteq Nat
    OBVIOUS
  <2>4. Min({p}) = p
    BY <2>3, LeastIs
  <2> QED
    BY <1>1, <2>1, <2>2, <2>4 DEF First, Seen
<1> QED
  BY <1>1 DEF ViewOf

(* Directories with the same entries, and files that read the same.        *)
LEMMA ViewSame ==
  ASSUME NEW dir, DOMAIN dir \subseteq Nat, Apart(dir), NEW rd, NEW rd2,
         \A p \in DOMAIN dir : rd2[dir[p].inode] = rd[dir[p].inode]
  PROVE  ViewOf(dir, rd2) = ViewOf(dir, rd)
<1>1. ASSUME NEW n \in Seen(dir) PROVE ViewOf(dir, rd2)[n] = ViewOf(dir, rd)[n]
  <2>1. PICK p \in DOMAIN dir : dir[p].name = n /\ n \in Names
    BY DEF Seen
  <2>2. /\ ViewOf(dir, rd)[n] = rd[dir[p].inode]
        /\ ViewOf(dir, rd2)[n] = rd2[dir[p].inode]
    BY <2>1, ViewAt
  <2> QED
    BY <2>2
<1> QED
  BY <1>1 DEF ViewOf

(* The directory more has the entry ent at pos, and is otherwise less.     *)
Added(less, more, pos, ent) ==
  /\ pos \notin DOMAIN less
  /\ DOMAIN more = DOMAIN less \union {pos}
  /\ more[pos] = ent
  /\ \A p \in DOMAIN less : more[p] = less[p]

(* The map files with a file more.                                         *)
WithFile(files, n, text) ==
  [m \in DOMAIN files \union {n} |-> IF m = n THEN text ELSE files[m]]

(* A name is added.                                                        *)
LEMMA ViewAdd ==
  ASSUME NEW less, NEW more, DOMAIN more \subseteq Nat, Apart(less), NEW rd, NEW rd2,
         NEW pos, NEW ent, Added(less, more, pos, ent),
         ent.name \in Names, ent.name \notin Seen(less),
         \A p \in DOMAIN less : rd2[less[p].inode] = rd[less[p].inode]
  PROVE  /\ Apart(more)
         /\ ent.name \notin DOMAIN ViewOf(less, rd)
         /\ ViewOf(more, rd2) = WithFile(ViewOf(less, rd), ent.name, rd2[ent.inode])
<1>1. \A p \in DOMAIN less : less[p].name # ent.name
  BY DEF Seen
<1>2. DOMAIN less \subseteq Nat
  BY DEF Added
<1>3. Apart(more)
  BY <1>1 DEF Apart, Added
<1>4. Seen(more) = Seen(less) \union {ent.name}
  BY DEF Seen, Added
<1>5. DOMAIN ViewOf(less, rd) = Seen(less) /\ DOMAIN ViewOf(more, rd2) = Seen(more)
  BY DEF ViewOf
<1>6. ViewOf(more, rd2)[ent.name] = rd2[ent.inode]
  BY <1>3, ViewAt DEF Added
<1>7. ASSUME NEW m \in Seen(less) PROVE ViewOf(more, rd2)[m] = ViewOf(less, rd)[m]
  <2>1. PICK p \in DOMAIN less : less[p].name = m /\ m \in Names
    BY DEF Seen
  <2>2. p \in DOMAIN more /\ more[p] = less[p]
    BY DEF Added
  <2>3. ViewOf(less, rd)[m] = rd[less[p].inode]
    BY <1>2, <2>1, ViewAt
  <2>4. ViewOf(more, rd2)[m] = rd2[less[p].inode]
    BY <1>3, <2>1, <2>2, ViewAt
  <2> QED
    BY <2>3, <2>4
<1>8. ViewOf(more, rd2) = [m \in Seen(more) |-> ViewOf(more, rd2)[m]]
  BY DEF ViewOf
<1> QED
  BY <1>3, <1>4, <1>5, <1>6, <1>7, <1>8 DEF WithFile

(* An entry is added under a name that nobody types.                       *)
LEMMA ViewHidden ==
  ASSUME NEW less, NEW more, DOMAIN more \subseteq Nat, Apart(less), NEW rd, NEW rd2,
         NEW pos, NEW ent, Added(less, more, pos, ent), ent.name \notin Names,
         \A p \in DOMAIN less : rd2[less[p].inode] = rd[less[p].inode]
  PROVE  Apart(more) /\ ViewOf(more, rd2) = ViewOf(less, rd)
<1>1. DOMAIN less \subseteq Nat
  BY DEF Added
<1>2. Apart(more)
  BY DEF Apart, Added
<1>3. Seen(more) = Seen(less)
  BY DEF Seen, Added
<1>4. ASSUME NEW m \in Seen(less) PROVE ViewOf(more, rd2)[m] = ViewOf(less, rd)[m]
  <2>1. PICK p \in DOMAIN less : less[p].name = m /\ m \in Names
    BY DEF Seen
  <2>2. p \in DOMAIN more /\ more[p] = less[p]
    BY DEF Added
  <2>3. ViewOf(less, rd)[m] = rd[less[p].inode]
    BY <1>1, <2>1, ViewAt
  <2>4. ViewOf(more, rd2)[m] = rd2[less[p].inode]
    BY <1>2, <2>1, <2>2, ViewAt
  <2> QED
    BY <2>3, <2>4
<1> QED
  BY <1>2, <1>3, <1>4 DEF ViewOf

(* The map files with a file less.                                         *)
WithoutFile(files, n) == [m \in DOMAIN files \ {n} |-> files[m]]

(* A name is removed.                                                      *)
LEMMA ViewDrop ==
  ASSUME NEW less, NEW more, DOMAIN more \subseteq Nat, Apart(more), NEW rd, NEW rd2,
         NEW pos, NEW ent, Added(less, more, pos, ent), ent.name \in Names,
         \A p \in DOMAIN less : rd2[less[p].inode] = rd[less[p].inode]
  PROVE  /\ Apart(less)
         /\ ent.name \in DOMAIN ViewOf(more, rd)
         /\ ViewOf(less, rd2) = WithoutFile(ViewOf(more, rd), ent.name)
<1>1. Apart(less) /\ DOMAIN less \subseteq Nat
  BY DEF Apart, Added
<1>2. \A p \in DOMAIN less : less[p].name # ent.name
  BY DEF Apart, Added
<1>3. ent.name \in Seen(more) /\ Seen(less) = Seen(more) \ {ent.name}
  BY <1>2 DEF Seen, Added
<1>4. DOMAIN ViewOf(more, rd) = Seen(more)
  BY DEF ViewOf
<1>5. ASSUME NEW m \in Seen(less) PROVE ViewOf(less, rd2)[m] = ViewOf(more, rd)[m]
  <2>1. PICK p \in DOMAIN less : less[p].name = m /\ m \in Names
    BY DEF Seen
  <2>2. p \in DOMAIN more /\ more[p] = less[p]
    BY DEF Added
  <2>3. ViewOf(less, rd2)[m] = rd2[less[p].inode]
    BY <1>1, <2>1, ViewAt
  <2>4. ViewOf(more, rd)[m] = rd[less[p].inode]
    BY <2>1, <2>2, ViewAt
  <2> QED
    BY <2>3, <2>4
<1>6. ViewOf(less, rd2) = [m \in Seen(less) |-> ViewOf(less, rd2)[m]]
  BY DEF ViewOf
<1> QED
  BY <1>1, <1>3, <1>4, <1>5, <1>6 DEF WithoutFile

(* The map files with a file rewritten.                                    *)
Rewritten(files, n, text) == [files EXCEPT ![n] = text]

(* One file is written.                                                    *)
LEMMA ViewWrite ==
  ASSUME NEW dir, DOMAIN dir \subseteq Nat, Apart(dir), NEW rd, NEW rd2,
         NEW pos \in DOMAIN dir, dir[pos].name \in Names,
         \A p \in DOMAIN dir : p # pos => rd2[dir[p].inode] = rd[dir[p].inode]
  PROVE  /\ dir[pos].name \in DOMAIN ViewOf(dir, rd)
         /\ ViewOf(dir, rd)[dir[pos].name] = rd[dir[pos].inode]
         /\ ViewOf(dir, rd2)
              = Rewritten(ViewOf(dir, rd), dir[pos].name, rd2[dir[pos].inode])
<1>1. PICK n : n = dir[pos].name
  OBVIOUS
<1>2. DOMAIN ViewOf(dir, rd) = Seen(dir) /\ n \in Seen(dir)
  BY <1>1, ViewAt
<1>3. ViewOf(dir, rd)[n] = rd[dir[pos].inode] /\ ViewOf(dir, rd2)[n] = rd2[dir[pos].inode]
  BY <1>1, ViewAt
<1>4. ASSUME NEW m \in Seen(dir), m # n PROVE ViewOf(dir, rd2)[m] = ViewOf(dir, rd)[m]
  <2>1. PICK p \in DOMAIN dir : dir[p].name = m /\ m \in Names
    BY DEF Seen
  <2>2. /\ ViewOf(dir, rd)[m] = rd[dir[p].inode]
        /\ ViewOf(dir, rd2)[m] = rd2[dir[p].inode]
    BY <2>1, ViewAt
  <2> QED
    BY <1>1, <1>4, <2>1, <2>2
<1>5. /\ ViewOf(dir, rd2) = [m \in Seen(dir) |-> ViewOf(dir, rd2)[m]]
      /\ ViewOf(dir, rd) = [m \in Seen(dir) |-> ViewOf(dir, rd)[m]]
  BY DEF ViewOf
<1> QED
  BY <1>1, <1>2, <1>3, <1>4, <1>5 DEF Rewritten

(* The model's map is that view, in this state ...                         *)
LEMMA ContentsNow ==
  ASSUME FsInv
  PROVE  /\ DOMAIN Dir = Linked /\ DOMAIN Dir \subseteq Nat
         /\ \A p \in Linked : Dir[p] = EntryAt(p) /\ Dir[p] \in DirEntry /\ Dir[p].inode \in Inodes
         /\ Mounted => Contents = ViewOf(Dir, Reads)
         /\ ~Mounted => Contents = [n \in {} |-> <<>>]
<1>1. DOMAIN Dir = Linked /\ \A p \in Linked : Dir[p] = EntryAt(p)
  BY DEF Dir
<1>2. Linked \subseteq All /\ All \subseteq Nat
  BY FsFacts, FsSizes DEF LinkedIn, All
<1>3. ASSUME NEW p \in Linked PROVE EntryAt(p) \in DirEntry /\ EntryAt(p).inode \in Inodes
  <2>1. EntryAt(p) = dirent[Root.blocks[Row(p)]][Col(p)]
    BY DEF EntryAt, Row, Col
  <2>2. Row(p) \in Direct /\ Col(p) \in Entry /\ Root.blocks \in [Direct -> Blocks]
    BY <1>2, RowCol, FsFacts
  <2>3. EntryAt(p) \in DirEntry
    BY <2>1, <2>2 DEF FsInv, FsTypes
  <2> QED
    BY <2>3 DEF DirEntry
<1>4. ASSUME Mounted PROVE Contents = ViewOf(Dir, Reads)
  <2>1. \A n : Matches(n) = {p \in DOMAIN Dir : Dir[p].name = n}
    BY <1>1, <1>4 DEF Matches, Mounted
  <2>2. {m \in Names : Exists(m)} = Seen(Dir)
    BY <2>1 DEF Exists, Seen
  <2>3. ASSUME NEW n \in Seen(Dir) PROVE ReadFile(Lookup(n)) = Reads[Dir[First(Dir, n)].inode]
    <3>1. PICK p : p = Min(Matches(n))
      OBVIOUS
    <3>2. Matches(n) # {} /\ Matches(n) \subseteq Nat
      BY <1>1, <1>2, <2>1 DEF Seen
    <3>3. p \in Linked
      BY <1>1, <2>1, <3>1, <3>2, LeastIs
    <3>4. First(Dir, n) = p
      BY <2>1, <3>1 DEF First
    <3>5. PICK i : i = EntryAt(p).inode
      OBVIOUS
    <3>6. i \in Inodes /\ Lookup(n) = i /\ Dir[p].inode = i
      BY <1>1, <1>3, <3>1, <3>3, <3>5 DEF Lookup
    <3>7. Reads[i] = ReadFile(i)
      BY <3>6 DEF Reads
    <3> QED
      BY <3>4, <3>6, <3>7
  <2> QED
    BY <2>2, <2>3 DEF Contents, ViewOf
<1>5. ASSUME ~Mounted PROVE Contents = [n \in {} |-> <<>>]
  <2>1. {m \in Names : Exists(m)} = {}
    BY <1>5 DEF Exists, Matches, Mounted
  <2> QED
    BY <2>1 DEF Contents
<1> QED
  BY <1>1, <1>2, <1>3, <1>4, <1>5

(* ... and in the next.                                                    *)
LEMMA ContentsNext ==
  ASSUME FsInv'
  PROVE  /\ DOMAIN Dir' = Linked' /\ DOMAIN Dir' \subseteq Nat
         /\ \A p \in Linked' : Dir'[p] = EntryAt(p)' /\ Dir'[p].inode \in Inodes
         /\ Mounted' => Contents' = ViewOf(Dir', Reads')
         /\ ~Mounted' => Contents' = [n \in {} |-> <<>>]
<1>1. DOMAIN Dir' = Linked' /\ \A p \in Linked' : Dir'[p] = EntryAt(p)'
  BY DEF Dir
<1>2. Linked' \subseteq All /\ All \subseteq Nat /\ Root.blocks' \in [Direct -> Blocks]
  <2>1. NoHoles(Root.blocks)'
    BY FsSizes DEF FsInv, Contiguous, Root
  <2>2. Linked' \subseteq All
    BY <2>1, LinkedNext DEF LinkedIn
  <2>3. Root.blocks' \in [Direct -> Blocks]
    BY FsSizes DEF FsInv, FsTypes, Root, InodeType
  <2> QED
    BY <2>2, <2>3, FsSizes DEF All
<1>3. ASSUME NEW p \in Linked' PROVE EntryAt(p)'.inode \in Inodes
  <2>1. EntryAt(p)' = dirent'[Root.blocks'[Row(p)]][Col(p)]
    BY DEF EntryAt, Row, Col
  <2>2. Row(p) \in Direct /\ Col(p) \in Entry
    BY <1>2, RowCol
  <2>3. EntryAt(p)' \in DirEntry
    BY <1>2, <2>1, <2>2 DEF FsInv, FsTypes
  <2> QED
    BY <2>3 DEF DirEntry
<1>4. ASSUME Mounted' PROVE Contents' = ViewOf(Dir', Reads')
  <2>0. PICK dir, rd : dir = Dir' /\ rd = Reads'
    OBVIOUS
  <2>1. \A n : Matches(n)' = {p \in DOMAIN dir : dir[p].name = n}
    BY <1>1, <1>4, <2>0 DEF Matches, Mounted
  <2>2. {m \in Names : Exists(m)'} = Seen(dir)
    BY <2>1 DEF Exists, Seen
  <2>3. ASSUME NEW n \in Seen(dir) PROVE ReadFile(Lookup(n))' = rd[dir[First(dir, n)].inode]
    <3>1. PICK p : p = Min(Matches(n)')
      OBVIOUS
    <3>2. Matches(n)' # {} /\ Matches(n)' \subseteq Nat
      BY <1>1, <1>2, <2>0, <2>1 DEF Seen
    <3>3. p \in Linked'
      BY <1>1, <2>0, <2>1, <3>1, <3>2, LeastIs
    <3>4. First(dir, n) = p
      BY <2>1, <3>1 DEF First
    <3>5. PICK i : i = EntryAt(p)'.inode
      OBVIOUS
    <3>6. i \in Inodes /\ dir[p].inode = i
      BY <1>1, <1>3, <2>0, <3>3, <3>5
    <3>7. Lookup(n)' = i
      BY <3>1, <3>5 DEF Lookup
    <3>8. rd[i] = ReadFile(i)'
      BY <2>0, <3>6 DEF Reads
    <3>9. ReadFile(Lookup(n))' = ReadFile(i)'
      BY <3>7, Zenon DEF ReadFile, Current
    <3> QED
      BY <3>4, <3>6, <3>8, <3>9
  <2>4. Contents' = [n \in {m \in Names : Exists(m)'} |-> ReadFile(Lookup(n))']
    BY DEF Contents
  <2>5. Contents' = ViewOf(dir, rd)
    BY <2>2, <2>3, <2>4 DEF ViewOf
  <2> QED
    BY <2>0, <2>5
<1>5. ASSUME ~Mounted' PROVE Contents' = [n \in {} |-> <<>>]
  <2>1. {m \in Names : Exists(m)'} = {}
    BY <1>5 DEF Exists, Matches, Mounted
  <2> QED
    BY <2>1 DEF Contents
<1> QED
  BY <1>1, <1>2, <1>3, <1>4, <1>5

-----------------------------------------------------------------------------
(* The commands, seen as steps of the map.                                 *)

(* No name users type is what the directory stores of a longer one.        *)
NamesKept == \A n \in Names : Stored[n] = n \/ Stored[n] \notin Names

(* fs_write has laid the text before its position, and writes a file that  *)
(* has a name.                                                             *)
Laid ==
  ~AtPrompt =>
    /\ fd.text \in Texts
    /\ fd.position <= fd.copy.size
    /\ \A p \in 1..fd.position : Byte(fd.copy, bytes, p) = fd.text[p]
    /\ \E q \in Linked : EntryAt(q).name \in Names /\ EntryAt(q).inode = fd.inode

(* The names are apart and the files' blocks are there.                    *)
Sound == Mounted => Apart(Dir) /\ \A i \in Files : Covered(Current(i))

MapInv == FsInv /\ Sound /\ Laid

(* A linked file, in this state.                                           *)
LEMMA FileFacts ==
  ASSUME MapInv, Mounted, NEW p \in Linked, NEW i, i = Dir[p].inode
  PROVE  /\ i \in Files /\ i \in Inodes /\ i \in inode_bitmap /\ i # RootInode
         /\ Current(i) \in InodeType /\ Covered(Current(i))
         /\ Reads[i] = Content(Current(i), bytes)
         /\ \A k \in Direct : Current(i).blocks[k] \in data_bitmap
<1>1. FsInv /\ Sound
  BY DEF MapInv
<1>2. i = EntryAt(p).inode /\ i \in Inodes
  BY <1>1, ContentsNow
<1>3. i \in Files
  BY <1>2 DEF Files
<1>4. /\ i \in inode_bitmap /\ i # RootInode
      /\ \A k \in Direct : BlocksNow[i][k] \in data_bitmap
  BY <1>1, <1>3, MountedFacts
<1>5. \A k \in Direct : Current(i).blocks[k] \in data_bitmap
  BY <1>2, <1>4 DEF BlocksNow
<1>6. Current(i) \in InodeType
  BY <1>1, <1>2 DEF FsInv, FsTypes, OpenFile, Current
<1>7. Covered(Current(i))
  BY <1>1, <1>3 DEF Sound
<1>8. Reads[i] = Content(Current(i), bytes)
  <2>1. Reads[i] = ReadFile(i)
    BY <1>2 DEF Reads
  <2> QED
    BY <1>6, <1>7, <2>1, ReadNow
<1> QED
  BY <1>2, <1>3, <1>4, <1>5, <1>6, <1>7, <1>8

(* What fs_read returns of a file in the next state.                       *)
LEMMA ReadsNext ==
  ASSUME NEW i \in Inodes, NEW inode \in InodeType, Covered(inode), Current(i)' = inode
  PROVE  Reads'[i] = Content(inode, bytes')
<1>1. Reads'[i] = ReadFile(i)'
  BY DEF Reads
<1> QED
  BY <1>1, ReadNext

(* A file whose inode and blocks a step leaves alone.                      *)
LEMMA FileKept ==
  ASSUME MapInv, Mounted, NEW p \in Linked, NEW i, i = Dir[p].inode,
         Current(i)' = Current(i),
         \A k \in Direct : Current(i).blocks[k] # 0 =>
                             bytes'[Current(i).blocks[k]] = bytes[Current(i).blocks[k]]
  PROVE  Reads'[i] = Reads[i] /\ Covered(Current(i)')
<1>1. PICK inode, by2 : inode = Current(i) /\ by2 = bytes'
  OBVIOUS
<1>2. /\ i \in Inodes /\ inode \in InodeType /\ Covered(inode)
      /\ Reads[i] = Content(inode, bytes)
  BY <1>1, FileFacts
<1>3. Content(inode, by2) = Content(inode, bytes)
  BY <1>1, <1>2, ContentSame
<1>4. Reads'[i] = Content(inode, by2)
  BY <1>1, <1>2, ReadsNext
<1> QED
  BY <1>1, <1>2, <1>3, <1>4

(* A step that changes no name and no file's bytes.                        *)
LEMMA QuietStep ==
  ASSUME MapInv, FsInv', Mounted' = Mounted,
         Mounted => /\ Linked' = Linked
                    /\ \A p \in Linked : EntryAt(p)' = EntryAt(p)
                    /\ \A i \in Files : Current(i)' = Current(i)
                    /\ \A b \in data_bitmap : bytes'[b] = bytes[b]
  PROVE  Contents' = Contents /\ Sound'
<1>1. CASE ~Mounted
  BY <1>1, ContentsNow, ContentsNext DEF MapInv, Sound
<1>2. CASE Mounted
  <2>1. PICK dir, rd, rd2 : dir = Dir /\ rd = Reads /\ rd2 = Reads'
    OBVIOUS
  <2>2. /\ DOMAIN dir = Linked /\ DOMAIN dir \subseteq Nat
        /\ Contents = ViewOf(dir, rd) /\ Apart(dir)
        /\ \A p \in Linked : dir[p] = EntryAt(p)
    BY <1>2, <2>1, ContentsNow DEF MapInv, Sound
  <2>3. Dir' = dir
    BY <1>2, <2>1 DEF Dir
  <2>4. Contents' = ViewOf(dir, rd2)
    BY <1>2, <2>1, <2>3, ContentsNext
  <2>5. ASSUME NEW p \in Linked
        PROVE  rd2[dir[p].inode] = rd[dir[p].inode] /\ Covered(Current(dir[p].inode)')
    <3>1. PICK i : i = Dir[p].inode
      OBVIOUS
    <3>2. i \in Files
      BY <1>2, <3>1, FileFacts
    <3>3. i = dir[p].inode /\ Current(i)' = Current(i)
      BY <1>2, <2>1, <3>1, <3>2
    <3>4. \A k \in Direct : bytes'[Current(i).blocks[k]] = bytes[Current(i).blocks[k]]
      BY <1>2, <3>1, FileFacts
    <3>5. Reads'[i] = Reads[i] /\ Covered(Current(i)')
      BY <1>2, <3>1, <3>3, <3>4, FileKept
    <3> QED
      BY <2>1, <3>3, <3>5
  <2>6. Contents' = Contents
    BY <2>2, <2>4, <2>5, ViewSame
  <2>7. Files' = {dir[p].inode : p \in Linked}
    BY <1>2, <2>2 DEF Files
  <2>8. ASSUME NEW i \in Files' PROVE Covered(Current(i))'
    <3>1. PICK p \in Linked : i = dir[p].inode
      BY <2>7
    <3>2. Covered(Current(i)')
      BY <2>5, <3>1
    <3> QED
      BY <3>2 DEF Covered
  <2> QED
    BY <2>2, <2>3, <2>6, <2>8 DEF Sound, Apart
<1> QED
  BY <1>1, <1>2

(* A step that leaves all but the bookkeeping of formats alone.            *)
LEMMA StutterShown ==
  ASSUME MapInv, UNCHANGED vars
  PROVE  MapInv' /\ Contents' = Contents
<1>1. FsInv'
  BY FsStutter DEF MapInv
<1>2. inodes' = inodes /\ dirent' = dirent /\ bytes' = bytes /\ fd' = fd
  BY DEF vars
<1>3. Root' = Root /\ Linked' = Linked /\ Mounted' = Mounted /\ AtPrompt' = AtPrompt
      /\ \A p : EntryAt(p)' = EntryAt(p)
  BY <1>2 DEF Root, Linked, Mounted, EntryAt, Positions, AtPrompt
<1>4. \A i : Current(i)' = Current(i)
  BY <1>2, <1>3 DEF Current
<1>5. Contents' = Contents /\ Sound'
  BY <1>1, <1>2, <1>3, <1>4, QuietStep
<1>6. Laid'
  BY <1>2, <1>3 DEF MapInv, Laid, Byte
<1> QED
  BY <1>1, <1>5, <1>6 DEF MapInv

(* A failed touch, mkdir or write changes nothing users see.               *)
LEMMA UndoneShown ==
  ASSUME MapInv, NEW n \in Names, NEW type \in {FS_TYPE_FILE, FS_TYPE_DIR},
         CreateUndone(n, type)
  PROVE  MapInv' /\ Contents' = Contents
<1>1. FsInv /\ FsInv'
  BY UndoneStep DEF MapInv
<1>2. PICK i, own : i = FirstInode /\ own = OwnBlocks(type)
  OBVIOUS
<1>3. /\ AtPrompt /\ FreeInodes # {} /\ (type = FS_TYPE_DIR => FreeBlocks # {})
      /\ inodes' = [inodes EXCEPT ![i] = NewInode(type, OwnBlock(type))]
      /\ dirent' = [b \in Blocks |-> IF b \in own THEN ZeroEntries ELSE dirent[b]]
      /\ bytes' = [b \in Blocks |-> IF b \in own THEN ZeroBytes ELSE bytes[b]]
      /\ fd' = fd
  BY <1>2 DEF CreateUndone, CanStart
<1>4. /\ i \notin inode_bitmap /\ i # RootInode /\ own \cap data_bitmap = {}
      /\ data_bitmap \subseteq Blocks /\ inodes \in [Inodes -> InodeType]
  BY <1>1, <1>2, <1>3, FirstInTable, OwnFree DEF FsInv, FsTypes, FreeBlocks
<1>5. \A j \in Inodes : j # i => inodes'[j] = inodes[j]
  BY <1>3, <1>4
<1>6. Root' = Root /\ Mounted' = Mounted /\ AtPrompt' /\ Positions' = Positions
  BY <1>3, <1>4, <1>5, FsSizes DEF Root, Mounted, AtPrompt, Positions
<1>7. \A b \in data_bitmap : bytes'[b] = bytes[b] /\ dirent'[b] = dirent[b]
  BY <1>3, <1>4
<1>8. ASSUME Mounted
      PROVE  /\ Linked' = Linked
             /\ \A p \in Linked : EntryAt(p)' = EntryAt(p)
             /\ \A j \in Files : Current(j)' = Current(j)
  <2>1. ASSUME NEW p \in Positions PROVE EntryAt(p)' = EntryAt(p)
    <3>1. p \in All
      BY DEF Positions, All
    <3>2. Row(p) \in Direct /\ Root.blocks[Row(p)] \in data_bitmap
      BY <1>1, <1>8, <3>1, RowCol, MountedFacts
    <3>3. /\ EntryAt(p)' = dirent'[Root.blocks[Row(p)]][Col(p)]
          /\ EntryAt(p) = dirent[Root.blocks[Row(p)]][Col(p)]
      BY <1>6 DEF EntryAt, Row, Col
    <3> QED
      BY <1>7, <3>2, <3>3
  <2>2. Files \subseteq inode_bitmap /\ inode_bitmap \subseteq Inodes
    BY <1>1, <1>8, MountedFacts DEF FsInv, FsTypes
  <2>3. \A j \in Files : Current(j)' = Current(j)
    BY <1>3, <1>4, <1>5, <1>6, <2>2 DEF Current
  <2> QED
    BY <1>6, <2>1, <2>3 DEF Linked
<1>9. Contents' = Contents /\ Sound'
  BY <1>1, <1>6, <1>7, <1>8, QuietStep
<1> QED
  BY <1>1, <1>6, <1>9 DEF MapInv, Laid

(* The start of write on a file there is changes nothing users see.        *)
LEMMA WriteOldShown ==
  ASSUME MapInv, NEW n \in Names, NEW text \in Texts, WriteOld(n, text)
  PROVE  MapInv' /\ Contents' = Contents
<1>1. FsInv /\ FsInv'
  BY WriteOldStep DEF MapInv
<1>2. PICK i, pos : i = Lookup(n) /\ pos = Min(Matches(n))
  OBVIOUS
<1>3. /\ AtPrompt /\ Exists(n) /\ fd' = Opened(i, inodes[i], text)
      /\ inodes' = inodes /\ dirent' = dirent /\ bytes' = bytes
  BY <1>2 DEF WriteOld
<1>4. Root' = Root /\ Linked' = Linked /\ Mounted' = Mounted /\ \A p : EntryAt(p)' = EntryAt(p)
  BY <1>3 DEF Root, Linked, Mounted, EntryAt, Positions
<1>5. pos \in Linked /\ EntryAt(pos).name = n /\ EntryAt(pos).inode = i
  <2>1. Matches(n) # {} /\ Matches(n) \subseteq Nat
    BY <1>1, <1>3, ContentsNow DEF Exists, Matches
  <2>2. pos \in Matches(n)
    BY <1>2, <2>1, LeastIs
  <2> QED
    BY <1>2, <2>2 DEF Matches, Lookup
<1>6. /\ fd'.inode = i /\ fd'.copy = inodes[i] /\ fd'.text = text /\ fd'.position = 0
  BY <1>3 DEF Opened
<1>7. \A j : Current(j)' = Current(j)
  BY <1>3, <1>6 DEF Current
<1>8. Contents' = Contents /\ Sound'
  BY <1>1, <1>3, <1>4, <1>7, QuietStep
<1>9. Laid'
  <2>1. i \in Inodes /\ inodes[i].size \in Nat
    <3>1. i \in Inodes
      BY <1>1, <1>5, ContentsNow
    <3> QED
      BY <1>1, <3>1 DEF FsInv, FsTypes, InodeType
  <2>2. 0 <= inodes[i].size /\ \A p \in 1..0 : FALSE
    BY <2>1
  <2>3. \E q \in Linked' : EntryAt(q)'.name \in Names /\ EntryAt(q)'.inode = fd'.inode
    BY <1>4, <1>5, <1>6
  <2> QED
    BY <1>6, <2>2, <2>3 DEF Laid
<1> QED
  BY <1>1, <1>8, <1>9 DEF MapInv

(* The end of write: the stored inode is what the command saw.             *)
LEMMA WriteEndShown ==
  ASSUME MapInv, WriteEnd
  PROVE  MapInv' /\ Contents' = Contents
<1>1. FsInv /\ FsInv'
  BY WriteEndStep DEF MapInv
<1>2. PICK i : i = fd.inode
  OBVIOUS
<1>3. /\ fd # Closed /\ inodes' = [inodes EXCEPT ![i] = fd.copy] /\ fd' = Closed
      /\ dirent' = dirent /\ bytes' = bytes
  BY <1>2 DEF WriteEnd, AtPrompt
<1>4. Mounted /\ i \in Files
  BY <1>1, <1>2, <1>3 DEF FsInv, Writing, AtPrompt
<1>5. i \in Inodes /\ i # RootInode /\ inodes \in [Inodes -> InodeType] /\ Files \subseteq Inodes
  BY <1>1, <1>4, MountedFacts DEF FsInv, FsTypes
<1>6. Root' = Root
  BY <1>3, <1>5, FsSizes DEF Root
<1>7. Linked' = Linked /\ Mounted' = Mounted /\ \A p : EntryAt(p)' = EntryAt(p)
  BY <1>3, <1>6 DEF Linked, Mounted, EntryAt, Positions
<1>8. \A j \in Files : Current(j)' = Current(j)
  BY <1>2, <1>3, <1>5 DEF Current, AtPrompt
<1>9. Contents' = Contents /\ Sound'
  BY <1>1, <1>3, <1>7, <1>8, QuietStep
<1> QED
  BY <1>1, <1>3, <1>9 DEF MapInv, Laid, AtPrompt

(* fs_create adds an entry, and the others stay.                           *)
LEMMA CreateAdds ==
  ASSUME FsInv, Mounted, AtPrompt, DiskTypes', NEW n, NEW i, NEW own, NEW ob, NEW k, NEW at,
         NEW e, Chosen(i, own, ob, k, at, e), Stores(n, i, own, ob, k, at, e)
  PROVE  \E pos \in All : /\ pos \notin Linked
                          /\ Linked' = Linked \union {pos}
                          /\ EntryAt(pos)'.inode = i /\ EntryAt(pos)'.name = Stored[n]
                          /\ \A p \in Linked : EntryAt(p)' = EntryAt(p)
<1>1. PICK rb, rb2, de2 : rb = Root.blocks /\ rb2 = inodes'[RootInode].blocks /\ de2 = dirent'
  OBVIOUS
<1>2. /\ rb \in [Direct -> Blocks] /\ NoTwins(rb) /\ rb2 = [rb EXCEPT ![k] = at]
      /\ \A l \in Direct : rb[l] \in data_bitmap
      /\ Linked = LinkedIn(rb, dirent)
  BY <1>1, FsFacts, MountedFacts DEF Stores
<1>3. /\ k \in Direct /\ e \in Entry /\ at \in Blocks
      /\ rb2[k] = at /\ \A l \in Direct : l # k => rb2[l] = rb[l]
      /\ rb[k] # 0 => rb[k] = at /\ dirent[at][e].inode = 0
      /\ rb[k] = 0 => at \notin data_bitmap
  BY <1>1, <1>2 DEF Chosen
<1>4. \A p : /\ EntryAt(p)' = de2[rb2[Row(p)]][Col(p)]
             /\ EntryAt(p) = dirent[rb[Row(p)]][Col(p)]
  BY <1>1 DEF EntryAt, Root, Row, Col
<1>5. ASSUME NEW p \in Linked PROVE EntryAt(p)' = EntryAt(p)
  <2>1. /\ Row(p) \in Direct /\ Col(p) \in Entry /\ rb[Row(p)] # 0
        /\ dirent[rb[Row(p)]][Col(p)].inode # 0
    BY <1>2, RowCol DEF LinkedIn
  <2>2. CASE Row(p) = k
    <3>1. rb[k] = at /\ Col(p) # e /\ rb[k] # 0
      BY <1>3, <2>1, <2>2
    <3>2. de2[at][Col(p)] = dirent[at][Col(p)]
      BY <1>1, <2>1, <3>1 DEF Stores
    <3> QED
      BY <1>3, <1>4, <2>2, <3>1, <3>2
  <2>3. CASE Row(p) # k
    <3>1. PICK b : b = rb[Row(p)]
      OBVIOUS
    <3>2. b \in Blocks /\ b \in data_bitmap /\ b # at
      BY <1>2, <1>3, <2>1, <2>3, <3>1 DEF NoTwins
    <3>3. b \notin own
      BY <3>2 DEF Chosen, FreeBlocks
    <3>4. de2[b] = dirent[b]
      BY <1>1, <3>2, <3>3 DEF Stores
    <3> QED
      BY <1>3, <1>4, <2>1, <2>3, <3>1, <3>4
  <2> QED
    BY <2>2, <2>3
<1>6. PICK pos \in All : pos \notin Linked /\ Linked' = Linked \union {pos}
  BY CreateLinks
<1>7. PICK q \in All : Row(q) = k /\ Col(q) = e
  BY <1>3, RowCol
<1>8. EntryAt(q)'.inode = i /\ EntryAt(q)'.name = Stored[n]
  BY <1>1, <1>3, <1>4, <1>7 DEF Stores
<1>9. q \in Linked'
  <2>1. Linked' = LinkedIn(Root.blocks', dirent') /\ Root.blocks' = rb2
    BY <1>1, CreateLinks DEF Root
  <2>2. rb2[Row(q)] # 0 /\ de2[rb2[Row(q)]][Col(q)].inode # 0
    BY <1>3, <1>4, <1>7, <1>8 DEF Chosen, RootInode
  <2> QED
    BY <1>1, <1>7, <2>1, <2>2 DEF LinkedIn
<1>10. q = pos
  <2>1. ASSUME q \in Linked PROVE FALSE
    <3>1. EntryAt(q).inode = i
      BY <1>5, <1>8, <2>1
    <3>2. i \in inode_bitmap
      BY <2>1, <3>1, MountedFacts DEF Files
    <3> QED
      BY <3>2 DEF Chosen
  <2> QED
    BY <1>6, <1>9, <2>1
<1> QED
  BY <1>5, <1>6, <1>8, <1>10

(* fs_create adds an empty file, if the name is stored as it was typed.    *)
LEMMA CreatedShown ==
  ASSUME NamesKept, MapInv, FsInv', NEW n \in Names, NEW type \in {FS_TYPE_FILE, FS_TYPE_DIR},
         CanStart(n, type), CanLink(OwnBlocks(type)), Created(n, type),
         \A j \in Inodes : Current(j)' = inodes'[j]
  PROVE  /\ Sound'
         /\ IF Stored[n] = n
              THEN /\ n \notin DOMAIN Contents
                   /\ Contents' = WithFile(Contents, n, <<>>)
                   /\ \E q \in Linked' : EntryAt(q)'.name = n /\ EntryAt(q)'.inode = FirstInode
              ELSE Contents' = Contents
<1>1. /\ FsInv /\ Sound /\ AtPrompt /\ ~Exists(n) /\ FreeInodes # {}
      /\ (type = FS_TYPE_DIR => FreeBlocks # {})
  BY DEF MapInv, CanStart
<1>2. PICK i, own, ob : i = FirstInode /\ own = OwnBlocks(type) /\ ob = OwnBlock(type)
  OBVIOUS
<1>3. /\ Mounted /\ DiskTypes' /\ inodes'[i] = NewInode(type, ob)
      /\ \E k, at, e : Chosen(i, own, ob, k, at, e) /\ Stores(n, i, own, ob, k, at, e)
  BY <1>1, <1>2, CreateStores
<1>4. PICK k, at, e : Chosen(i, own, ob, k, at, e) /\ Stores(n, i, own, ob, k, at, e)
  BY <1>3
<1>5. PICK pos \in All : /\ pos \notin Linked
                         /\ Linked' = Linked \union {pos}
                         /\ EntryAt(pos)'.inode = i /\ EntryAt(pos)'.name = Stored[n]
                         /\ \A p \in Linked : EntryAt(p)' = EntryAt(p)
  BY <1>1, <1>3, <1>4, CreateAdds
<1>6. Mounted'
  BY <1>3, <1>4 DEF Stores, Mounted, Root, IsDir
<1>7. PICK dir, dir2, rd, rd2, ent : /\ dir = Dir /\ dir2 = Dir' /\ rd = Reads /\ rd2 = Reads'
                                     /\ ent = EntryAt(pos)'
  OBVIOUS
<1>8. /\ DOMAIN dir = Linked /\ \A p \in Linked : dir[p] = EntryAt(p)
      /\ Contents = ViewOf(dir, rd) /\ Apart(dir) /\ DOMAIN dir \subseteq Nat
  BY <1>1, <1>3, <1>7, ContentsNow DEF Sound
<1>9. /\ DOMAIN dir2 = Linked' /\ \A p \in Linked' : dir2[p] = EntryAt(p)'
      /\ Contents' = ViewOf(dir2, rd2) /\ DOMAIN dir2 \subseteq Nat
  BY <1>6, <1>7, ContentsNext
<1>10. Added(dir, dir2, pos, ent)
  <2>1. \A p \in Linked' : dir2[p] = EntryAt(p)'
    BY <1>9
  <2>2. \A p \in Linked : p \in Linked' /\ EntryAt(p)' = EntryAt(p)
    BY <1>5
  <2> QED
    BY <1>5, <1>7, <1>8, <1>9, <2>1, <2>2 DEF Added
<1>11. i \in Inodes /\ i \notin inode_bitmap /\ inodes \in [Inodes -> InodeType]
  BY <1>1, <1>4 DEF Chosen, FsInv, FsTypes
<1>12. ASSUME NEW p \in Linked
       PROVE  rd2[dir[p].inode] = rd[dir[p].inode] /\ Covered(Current(dir[p].inode)')
  <2>1. PICK j : j = Dir[p].inode
    OBVIOUS
  <2>2. /\ j \in Inodes /\ j \in inode_bitmap /\ j # RootInode
        /\ \A l \in Direct : Current(j).blocks[l] \in data_bitmap
    BY <1>3, <2>1, FileFacts
  <2>3. Current(j)' = Current(j)
    BY <1>1, <1>4, <1>11, <2>2 DEF Current, Stores
  <2>4. \A l \in Direct : bytes'[Current(j).blocks[l]] = bytes[Current(j).blocks[l]]
    BY <1>4, <2>2 DEF Stores
  <2>5. Reads'[j] = Reads[j] /\ Covered(Current(j)')
    BY <1>3, <2>1, <2>3, <2>4, FileKept
  <2> QED
    BY <1>7, <2>1, <2>5
<1>13. /\ Covered(inodes'[i]) /\ rd2[i] = <<>>
  <2>1. PICK new : new = NewInode(type, ob)
    OBVIOUS
  <2>2. new \in InodeType /\ new.size = 0
    BY <1>1, <1>2, <2>1, OwnFree, NewValues
  <2>3. Covered(new)
    <3>1. ASSUME NEW l \in Direct PROVE ~(l * FS_BLOCK_SIZE < 0)
      <4>1. l \in Nat /\ FS_BLOCK_SIZE \in Nat
        BY FsSizes DEF Direct
      <4>2. l * FS_BLOCK_SIZE \in Nat
        BY <4>1
      <4> QED
        BY <4>2
    <3>2. FS_DIRECT_BLOCKS * FS_BLOCK_SIZE \in Nat
      BY FsSizes
    <3> QED
      BY <2>2, <3>1, <3>2 DEF Covered
  <2>4. Current(i)' = new
    BY <1>3, <1>11, <2>1
  <2>5. rd2[i] = Content(new, bytes')
    BY <1>7, <1>11, <2>2, <2>3, <2>4, ReadsNext
  <2>6. Content(new, bytes') = <<>>
    BY <2>2 DEF Content
  <2> QED
    BY <1>3, <2>1, <2>3, <2>5, <2>6
<1>14. ASSUME NEW j \in Files' PROVE Covered(Current(j))'
  <2>1. PICK p \in Linked' : j = dir2[p].inode
    BY <1>9 DEF Files
  <2>2. CASE p = pos
    <3>1. j = i
      BY <1>5, <1>9, <2>1, <2>2
    <3>2. Covered(Current(j)')
      BY <1>11, <1>13, <3>1
    <3> QED
      BY <3>2 DEF Covered
  <2>3. CASE p # pos
    <3>1. p \in Linked /\ j = dir[p].inode
      BY <1>5, <1>8, <1>10, <2>1, <2>3 DEF Added
    <3>2. Covered(Current(j)')
      BY <1>12, <3>1
    <3> QED
      BY <3>2 DEF Covered
  <2> QED
    BY <2>2, <2>3
<1>15. ent.name = Stored[n] /\ ent.inode = i
  BY <1>5, <1>7
<1>16. Apart(dir2) => Sound'
  <2>1. Apart(dir2) => Apart(Dir)'
    BY <1>7 DEF Apart
  <2> QED
    BY <1>14, <2>1 DEF Sound
<1>17. CASE Stored[n] = n
  <2>1. n \notin Seen(dir)
    BY <1>1, <1>3, <1>8 DEF Exists, Matches, Mounted, Seen
  <2>2. ent.name = n /\ ent.inode = i
    BY <1>15, <1>17
  <2>3. /\ Apart(dir2) /\ n \notin DOMAIN ViewOf(dir, rd)
        /\ ViewOf(dir2, rd2) = WithFile(ViewOf(dir, rd), n, <<>>)
    <3>1. \A p \in DOMAIN dir : rd2[dir[p].inode] = rd[dir[p].inode]
      BY <1>8, <1>12
    <3>2. ent.name \in Names /\ ent.name \notin Seen(dir)
      BY <2>1, <2>2
    <3>3. /\ Apart(dir2) /\ ent.name \notin DOMAIN ViewOf(dir, rd)
          /\ ViewOf(dir2, rd2) = WithFile(ViewOf(dir, rd), ent.name, rd2[ent.inode])
      BY <1>8, <1>9, <1>10, <3>1, <3>2, ViewAdd
    <3> QED
      BY <1>13, <2>2, <3>3
  <2>4. \E q \in Linked' : EntryAt(q)'.name = n /\ EntryAt(q)'.inode = FirstInode
    BY <1>2, <1>5, <1>17
  <2> QED
    BY <1>8, <1>9, <1>16, <1>17, <2>3, <2>4
<1>18. CASE Stored[n] # n
  <2>1. Stored[n] \notin Names
    BY <1>18 DEF NamesKept
  <2>2. Apart(dir2) /\ ViewOf(dir2, rd2) = ViewOf(dir, rd)
    <3>1. \A p \in DOMAIN dir : rd2[dir[p].inode] = rd[dir[p].inode]
      BY <1>8, <1>12
    <3> QED
      BY <1>8, <1>9, <1>10, <1>15, <2>1, <3>1, ViewHidden
  <2> QED
    BY <1>8, <1>9, <1>16, <1>18, <2>2
<1> QED
  BY <1>17, <1>18

(* touch and mkdir.                                                        *)
LEMMA CreateShown ==
  ASSUME NamesKept, MapInv, NEW n \in Names, NEW type \in {FS_TYPE_FILE, FS_TYPE_DIR},
         Create(n, type)
  PROVE  /\ MapInv'
         /\ \/ Contents' = Contents
            \/ n \notin DOMAIN Contents /\ Contents' = WithFile(Contents, n, <<>>)
<1>1. FsInv'
  BY CreateStep DEF MapInv
<1>2. CanStart(n, type) /\ CanLink(OwnBlocks(type)) /\ Created(n, type) /\ fd' = fd
  BY DEF Create
<1>3. AtPrompt'
  BY <1>2 DEF CanStart, AtPrompt
<1>4. \A j \in Inodes : Current(j)' = inodes'[j]
  BY <1>3 DEF Current
<1> QED
  BY <1>1, <1>2, <1>3, <1>4, CreatedShown DEF MapInv, Laid

(* write on a new file, up to where it opens it.                           *)
LEMMA WriteNewShown ==
  ASSUME NamesKept, MapInv, NEW n \in Names, NEW text \in Texts, WriteNew(n, text)
  PROVE  /\ MapInv'
         /\ \/ Contents' = Contents
            \/ n \notin DOMAIN Contents /\ Contents' = WithFile(Contents, n, <<>>)
<1>1. FsInv /\ FsInv'
  BY WriteNewStep DEF MapInv
<1>2. FS_TYPE_FILE # FS_TYPE_DIR
  <2>1. 0 \in FS_TYPE_FILE /\ 0 \notin FS_TYPE_DIR
    BY DEF FS_TYPE_FILE, FS_TYPE_DIR
  <2> QED
    BY <2>1
<1>3. PICK type, i : type = FS_TYPE_FILE /\ i = FirstInode
  OBVIOUS
<1>4. OwnBlocks(type) = {} /\ OwnBlock(type) = 0 /\ type \in {FS_TYPE_FILE, FS_TYPE_DIR}
  BY <1>2, <1>3 DEF OwnBlocks, OwnBlock
<1>5. /\ CanStart(n, type) /\ CanLink(OwnBlocks(type)) /\ Created(n, type)
      /\ fd' = IF Stored[n] = n THEN Opened(i, NewInode(type, 0), text) ELSE Closed
  BY <1>3, <1>4 DEF WriteNew
<1>6. inodes'[i] = NewInode(type, 0)
  BY <1>1, <1>3, <1>4, <1>5, CreatedInOrder DEF CanStart
<1>7. \A j \in Inodes : Current(j)' = inodes'[j]
  <2>1. CASE Stored[n] = n
    <3>1. fd'.inode = i /\ fd'.copy = inodes'[i]
      BY <1>5, <1>6, <2>1 DEF Opened
    <3> QED
      BY <3>1 DEF Current
  <2>2. CASE Stored[n] # n
    BY <1>5, <2>2 DEF Current, AtPrompt
  <2> QED
    BY <2>1, <2>2
<1>8. /\ Sound'
      /\ IF Stored[n] = n
           THEN /\ n \notin DOMAIN Contents
                /\ Contents' = WithFile(Contents, n, <<>>)
                /\ \E q \in Linked' : EntryAt(q)'.name = n /\ EntryAt(q)'.inode = i
           ELSE Contents' = Contents
  BY <1>1, <1>3, <1>4, <1>5, <1>7, CreatedShown
<1>9. Laid'
  <2>1. CASE Stored[n] = n
    <3>1. /\ fd'.inode = i /\ fd'.copy = NewInode(type, 0)
          /\ fd'.text = text /\ fd'.position = 0
      BY <1>5, <2>1 DEF Opened
    <3>2. fd'.copy.size = 0
      BY <1>4, <3>1, NewValues, FsSizes
    <3>3. \A p \in 1..0 : FALSE
      OBVIOUS
    <3> QED
      BY <1>8, <2>1, <3>1, <3>2, <3>3 DEF Laid
  <2>2. CASE Stored[n] # n
    BY <1>5, <2>2 DEF Laid, AtPrompt
  <2> QED
    BY <2>1, <2>2
<1> QED
  BY <1>1, <1>8, <1>9 DEF MapInv

(* rm removes the file it names.                                           *)
LEMMA RmShown ==
  ASSUME MapInv, NEW n \in Names, Rm(n)
  PROVE  /\ MapInv'
         /\ n \in DOMAIN Contents /\ Contents' = WithoutFile(Contents, n)
<1>1. /\ FsInv /\ FsInv' /\ Mounted /\ Mounted'
      /\ \E pos \in Linked : /\ EntryAt(pos).name = n
                             /\ Linked' = Linked \ {pos}
                             /\ \A p \in Linked' : EntryAt(p)' = EntryAt(p)
  BY RmStep DEF MapInv
<1>2. PICK pos \in Linked : /\ EntryAt(pos).name = n
                            /\ Linked' = Linked \ {pos}
                            /\ \A p \in Linked' : EntryAt(p)' = EntryAt(p)
  BY <1>1
<1>3. /\ AtPrompt /\ bytes' = bytes /\ fd' = fd
      /\ inodes' = [inodes EXCEPT ![RootInode].size = @ - 1]
  BY DEF Rm, Unlink, RemoveEntry
<1>4. AtPrompt' /\ \A j \in Inodes : j # RootInode => Current(j)' = Current(j)
  <2>1. inodes \in [Inodes -> InodeType]
    BY <1>1 DEF FsInv, FsTypes
  <2>2. \A j \in Inodes : j # RootInode => inodes'[j] = inodes[j]
    BY <1>3, <2>1
  <2> QED
    BY <1>3, <2>2 DEF Current, AtPrompt
<1>5. PICK dir, dir2, rd, rd2, ent : /\ dir = Dir /\ dir2 = Dir' /\ rd = Reads /\ rd2 = Reads'
                                     /\ ent = EntryAt(pos)
  OBVIOUS
<1>6. /\ DOMAIN dir = Linked /\ \A p \in Linked : dir[p] = EntryAt(p)
      /\ Contents = ViewOf(dir, rd) /\ Apart(dir) /\ DOMAIN dir \subseteq Nat
  BY <1>1, <1>5, ContentsNow DEF MapInv, Sound
<1>7. /\ DOMAIN dir2 = Linked' /\ \A p \in Linked' : dir2[p] = EntryAt(p)'
      /\ Contents' = ViewOf(dir2, rd2)
  BY <1>1, <1>5, ContentsNext
<1>8. Added(dir2, dir, pos, ent)
  <2>1. \A p \in Linked' : dir[p] = dir2[p]
    BY <1>2, <1>6, <1>7
  <2> QED
    BY <1>2, <1>5, <1>6, <1>7, <2>1 DEF Added
<1>9. ASSUME NEW p \in Linked
      PROVE  rd2[dir[p].inode] = rd[dir[p].inode] /\ Covered(Current(dir[p].inode)')
  <2>1. PICK j : j = Dir[p].inode
    OBVIOUS
  <2>2. j \in Inodes /\ j # RootInode
    BY <1>1, <2>1, FileFacts
  <2>3. Reads'[j] = Reads[j] /\ Covered(Current(j)')
    BY <1>1, <1>3, <1>4, <2>1, <2>2, FileKept
  <2> QED
    BY <1>5, <2>1, <2>3
<1>10. /\ Apart(dir2) /\ n \in DOMAIN ViewOf(dir, rd)
       /\ ViewOf(dir2, rd2) = WithoutFile(ViewOf(dir, rd), n)
  <2>1. \A p \in DOMAIN dir2 : rd2[dir2[p].inode] = rd[dir2[p].inode]
    BY <1>2, <1>6, <1>7, <1>8, <1>9 DEF Added
  <2>2. ent.name = n
    BY <1>2, <1>5
  <2>3. /\ Apart(dir2) /\ ent.name \in DOMAIN ViewOf(dir, rd)
        /\ ViewOf(dir2, rd2) = WithoutFile(ViewOf(dir, rd), ent.name)
    BY <1>6, <1>8, <2>1, <2>2, ViewDrop
  <2> QED
    BY <2>2, <2>3
<1>11. Sound'
  <2>1. Apart(Dir)'
    BY <1>5, <1>10 DEF Apart
  <2>2. ASSUME NEW j \in Files' PROVE Covered(Current(j))'
    <3>1. PICK p \in Linked' : j = EntryAt(p)'.inode
      BY DEF Files
    <3>2. p \in Linked /\ j = dir[p].inode
      BY <1>2, <1>6, <3>1
    <3>3. Covered(Current(j)')
      BY <1>9, <3>2
    <3> QED
      BY <3>3 DEF Covered
  <2> QED
    BY <2>1, <2>2 DEF Sound
<1> QED
  BY <1>1, <1>4, <1>6, <1>7, <1>10, <1>11 DEF MapInv, Laid

(* A directory without entries shows nothing.                              *)
LEMMA ErasedShown ==
  ASSUME FsInv', AtPrompt', Mounted' => Linked' = {}
  PROVE  MapInv' /\ Contents' = [n \in {} |-> <<>>]
<1>1. CASE ~Mounted'
  BY <1>1, ContentsNext DEF MapInv, Sound, Laid
<1>2. CASE Mounted'
  <2>1. PICK dir, rd : dir = Dir' /\ rd = Reads'
    OBVIOUS
  <2>2. DOMAIN dir = {} /\ Contents' = ViewOf(dir, rd)
    BY <1>2, <2>1, ContentsNext
  <2>3. Seen(dir) = {}
    BY <2>2 DEF Seen
  <2>4. ViewOf(dir, rd) = [n \in {} |-> <<>>]
    BY <2>3 DEF ViewOf
  <2>5. Files' = {}
    BY <1>2 DEF Files
  <2>6. Apart(Dir)'
    BY <2>1, <2>2 DEF Apart
  <2> QED
    BY <1>2, <2>2, <2>4, <2>5, <2>6 DEF MapInv, Sound, Laid
<1> QED
  BY <1>1, <1>2

(* fsformat and rdformat.                                                  *)
LEMMA FormatShown ==
  ASSUME MapInv, Fsformat \/ Rdformat
  PROVE  MapInv' /\ Contents' = [n \in {} |-> <<>>]
<1>1. FsInv /\ FsInv'
  BY FsformatStep, RdformatStep DEF MapInv
<1>2. AtPrompt'
  BY DEF Fsformat, Rdformat, Format, AtPrompt
<1>3. CASE Fsformat
  <2>1. PICK root : root = NewInode(FS_TYPE_DIR, 0)
    OBVIOUS
  <2>2. inodes' = [inodes EXCEPT ![RootInode] = root] /\ inodes \in [Inodes -> InodeType]
    BY <1>1, <1>3, <2>1 DEF Fsformat, FsInv, FsTypes
  <2>3. Root' = root /\ NoHoles(root.blocks) /\ \A k \in Direct : root.blocks[k] = 0
    BY <2>1, <2>2, NewValues, FsSizes DEF Root
  <2>4. Linked' = LinkedIn(Root.blocks', dirent')
    BY <2>3, LinkedNext DEF NoHoles
  <2>5. Linked' = {}
    BY <2>3, <2>4, RowCol DEF LinkedIn
  <2> QED
    BY <1>1, <1>2, <2>5, ErasedShown
<1>4. CASE Rdformat
  <2>1. Root' = NoInode
    BY <1>4, FsSizes DEF Rdformat, Root
  <2>2. ~Mounted'
    BY <2>1, NewValues DEF Mounted, IsDir, FS_TYPE_DIR
  <2> QED
    BY <1>1, <1>2, <2>2, ErasedShown
<1> QED
  BY <1>3, <1>4

(* Where byte p lies when a turn of fs_write's loop writes n bytes from    *)
(* offset off of the block of index ix.                                    *)
LEMMA TurnPlace ==
  ASSUME NEW pos \in Nat, NEW len \in Nat, pos < len, NEW z \in Nat \ {0},
         NEW ix, NEW off, NEW n, Turn(pos, len, z, ix, off, n),
         NEW p \in Nat \ {0}, NEW q, NEW r, q = (p - 1) \div z, r = (p - 1) % z
  PROVE  /\ (p <= pos /\ q = ix) => r < off
         /\ (p > pos + n /\ q = ix) => r >= off + n
         /\ (p > pos /\ p <= pos + n) =>
              q = ix /\ r \in off..(off + n - 1) /\ p = pos + r - off + 1
<1>1. PICK a, full : a = p - 1 /\ full = ix * z
  OBVIOUS
<1>2. /\ ix \in Nat /\ off \in 0..(z - 1) /\ n \in Nat \ {0} /\ off + n <= z
      /\ pos = full + off /\ full \in Nat
  <2>1. ix \in Nat /\ off \in 0..(z - 1) /\ n \in Nat \ {0} /\ off + n <= z
    BY TurnBounds
  <2>2. pos = ix * z + off
    BY DivisionBounds DEF Turn
  <2>3. ix * z \in Nat
    BY <2>1
  <2> QED
    BY <1>1, <2>1, <2>2, <2>3
<1>3. a \in Nat /\ p = a + 1 /\ q = a \div z /\ r = a % z
  BY <1>1
<1>4. /\ q \in Nat /\ r \in 0..(z - 1) /\ a = q * z + r
      /\ \A m \in Nat : a < m * z => q < m
      /\ \A m \in Nat : m * z <= a => m <= q
  <2>1. /\ a \div z \in Nat /\ a % z \in 0..(z - 1) /\ a = (a \div z) * z + (a % z)
        /\ \A m \in Nat : a < m * z => a \div z < m
        /\ \A m \in Nat : m * z <= a => m <= a \div z
    BY <1>3, DivisionBounds
  <2> QED
    BY ONLY <1>3, <2>1, Zenon
<1>5. q = ix => a = full + r
  BY <1>1, <1>4
<1>6. ASSUME p > pos, p <= pos + n PROVE q = ix
  <2>1. full <= a /\ a < full + z
    BY <1>2, <1>3, <1>6
  <2>2. PICK m : m = ix + 1
    OBVIOUS
  <2>3. m \in Nat /\ m * z = full + z
    <3>1. ix \in Nat /\ z \in Nat
      BY <1>1, <1>2, FsSizes
    <3>2. (ix + 1) * z = ix * z + z
      BY <3>1, Multiples
    <3> QED
      BY <1>1, <2>2, <3>1, <3>2
  <2>4. q < m
    BY <1>4, <2>1, <2>3
  <2>5. ix <= q
    BY <1>1, <1>2, <1>4, <2>1
  <2> QED
    BY <1>2, <1>4, <2>2, <2>4, <2>5
<1>7. (p <= pos /\ q = ix) => r < off
  BY <1>2, <1>3, <1>4, <1>5
<1>8. (p > pos + n /\ q = ix) => r >= off + n
  BY <1>2, <1>3, <1>4, <1>5
<1>9. ASSUME p > pos, p <= pos + n PROVE r \in off..(off + n - 1) /\ p = pos + r - off + 1
  <2>1. a = full + r
    BY <1>5, <1>6, <1>9
  <2>2. r \in Nat
    BY <1>4
  <2> QED
    BY ONLY <1>2, <1>3, <1>9, <2>1, <2>2
<1> QED
  BY <1>6, <1>7, <1>8, <1>9

(* After the turn the text lies as far as it is written, and behind it is  *)
(* what was there; there is a block for every byte.                        *)
LEMMA TurnOverlays ==
  ASSUME MapInv, NEW ix, NEW off, NEW n, NEW b, Wrote(ix, off, n, b)
  PROVE  /\ Covered(fd'.copy)
         /\ fd.position + n \in 0..Len(fd.text)
         /\ fd.position + n <= fd'.copy.size
         /\ \A p \in 1..(fd.position + n) : Byte(fd'.copy, bytes', p) = fd.text[p]
         /\ \A p \in 1..fd.copy.size :
              p > fd.position + n => Byte(fd'.copy, bytes', p) = Byte(fd.copy, bytes, p)
<1>1. PICK z, i, text, pos, copy, new, by, by2 :
        /\ z = FS_BLOCK_SIZE /\ i = fd.inode /\ text = fd.text /\ pos = fd.position
        /\ copy = fd.copy /\ new = fd'.copy /\ by = bytes /\ by2 = bytes'
  OBVIOUS
<1>2. /\ FsInv /\ Mounted /\ i \in Files /\ Current(i) = copy
      /\ Covered(copy) /\ copy \in InodeType /\ NoHoles(copy.blocks)
      /\ \A j \in Direct : j * z < pos => copy.blocks[j] # 0
      /\ pos \in Nat /\ text \in Texts /\ pos <= copy.size
      /\ \A p \in 1..pos : Byte(copy, by, p) = text[p]
  <2>1. FsInv /\ Sound /\ Laid /\ ~AtPrompt
    BY DEF MapInv, Wrote, AtPrompt
  <2>2. Mounted /\ i \in Files /\ Current(i) = copy
    BY <1>1, <2>1 DEF FsInv, Writing, Current
  <2>3. copy \in InodeType /\ pos \in Nat
    BY <1>1, <2>1 DEF FsInv, FsTypes, OpenFile
  <2>4. NoHoles(copy.blocks) /\ \A j \in Direct : j * z < pos => copy.blocks[j] # 0
    BY <1>1, <2>1 DEF FsInv, Contiguous, Writing
  <2>5. text \in Texts /\ pos <= copy.size /\ \A p \in 1..pos : Byte(copy, by, p) = text[p]
    BY <1>1, <2>1 DEF Laid
  <2>6. Covered(copy)
    BY <2>1, <2>2 DEF Sound
  <2> QED
    BY <2>1, <2>2, <2>3, <2>4, <2>5, <2>6
<1>3. /\ ix \in Direct /\ b \in Blocks /\ b # 0 /\ pos < Len(text)
      /\ Turn(pos, Len(text), z, ix, off, n)
      /\ new \in InodeType /\ new.size = NewSize(copy.size, pos + n)
      /\ new.blocks = [copy.blocks EXCEPT ![ix] = b]
      /\ (copy.blocks[ix] = 0 /\ b \notin data_bitmap) \/ copy.blocks[ix] = b
      /\ \A o \in off..(off + n - 1) : by2[b][o] = text[pos + o - off + 1]
      /\ copy.blocks[ix] # 0 =>
           \A o \in Offset : o \notin off..(off + n - 1) => by2[b][o] = by[b][o]
      /\ \A c \in Blocks : c # b => by2[c] = by[c]
  BY <1>1 DEF Wrote
<1>4. PICK len : len = Len(text)
  OBVIOUS
<1>5. len \in Nat /\ z \in Nat \ {0} /\ copy.size \in Nat /\ copy.blocks \in [Direct -> Blocks]
  BY <1>1, <1>2, <1>4, FsAssumption, FsSizes DEF InodeType
<1>6. /\ ix \in Nat /\ off \in 0..(z - 1) /\ n \in Nat \ {0}
      /\ pos + n <= len /\ off + n <= z
      /\ \A j \in Nat : j < ix => j * z < pos
      /\ \A j \in Nat : j * z < pos + n => j <= ix
  BY <1>2, <1>3, <1>4, <1>5, TurnBounds
<1>7. /\ new.blocks[ix] = b /\ \A l \in Direct : l # ix => new.blocks[l] = copy.blocks[l]
      /\ \A l \in Direct : copy.blocks[l] # 0 => new.blocks[l] # 0
  BY <1>3, <1>5
<1>8. \A l \in Direct : (l # ix /\ copy.blocks[l] # 0) =>
        copy.blocks[l] # b /\ copy.blocks[l] \in Blocks
  <2>1. ASSUME NEW l \in Direct, l # ix, copy.blocks[l] # 0 PROVE copy.blocks[l] # b
    <3>1. i \in inode_bitmap /\ i \in Inodes
      BY <1>2, MountedFacts DEF FsInv, FsTypes
    <3>2. BlocksNow[i] = copy.blocks
      BY <1>2, <3>1 DEF BlocksNow
    <3>3. Tidy(inode_bitmap, data_bitmap, BlocksNow, Links) /\ copy.blocks[l] \in data_bitmap
      BY <1>2, <3>1, <3>2, MountedFacts
    <3>4. copy.blocks[l] # copy.blocks[ix]
      BY <1>3, <2>1, <3>1, <3>2, <3>3 DEF Tidy
    <3> QED
      BY <1>3, <3>3, <3>4
  <2> QED
    BY <1>5, <2>1
<1>9. new.size \in Nat /\ pos + n <= new.size /\ copy.size <= new.size
      /\ (new.size = pos + n \/ new.size = copy.size)
  BY <1>2, <1>3, <1>5, <1>6 DEF NewSize
<1>10. Covered(new)
  <2>1. new.size <= FS_DIRECT_BLOCKS * z
    <3>1. copy.size <= FS_DIRECT_BLOCKS * z /\ FS_DIRECT_BLOCKS * z \in Nat
      BY <1>1, <1>2, <1>5, FsSizes DEF Covered
    <3>2. pos + n <= FS_DIRECT_BLOCKS * z
      <4>1. PICK full, m : full = ix * z /\ m = ix + 1
        OBVIOUS
      <4>2. m \in Nat /\ m <= FS_DIRECT_BLOCKS /\ m * z = full + z /\ full \in Nat
        <5>1. m \in Nat /\ m <= FS_DIRECT_BLOCKS
          BY <1>3, <1>6, <4>1, FsSizes DEF Direct
        <5>2. ix * z \in Nat /\ (ix + 1) * z = ix * z + z
          BY <1>5, <1>6, Multiples
        <5>3. m * z = full + z /\ full \in Nat
          BY ONLY <4>1, <5>2, Zenon
        <5> QED
          BY <5>1, <5>3
      <4>3. m * z <= FS_DIRECT_BLOCKS * z
        BY <1>5, <4>2, FsSizes, Multiples
      <4>4. pos = full + off
        BY <1>2, <1>3, <1>5, <4>1, DivisionBounds DEF Turn
      <4> QED
        BY <1>2, <1>5, <1>6, <3>1, <4>2, <4>3, <4>4
    <3> QED
      BY <1>9, <3>1, <3>2
  <2>2. ASSUME NEW k \in Direct, k * z < new.size PROVE new.blocks[k] # 0
    <3>1. k \in Nat
      BY FsSizes DEF Direct
    <3>2. CASE k * z < copy.size
      BY <1>1, <1>2, <1>7, <3>2 DEF Covered
    <3>3. CASE ~(k * z < copy.size)
      <4>1. k * z < pos + n
        BY <1>9, <2>2, <3>3
      <4>2. k <= ix
        BY <1>6, <3>1, <4>1
      <4>3. CASE k = ix
        BY <1>3, <1>7, <4>3
      <4>4. CASE k # ix
        <5>1. k * z < pos
          BY <1>6, <3>1, <4>2, <4>4
        <5> QED
          BY <1>2, <1>7, <5>1
      <4> QED
        BY <4>3, <4>4
    <3> QED
      BY <3>2, <3>3
  <2> QED
    BY <1>1, <2>1, <2>2 DEF Covered
<1>11. ASSUME NEW p \in 1..new.size
       PROVE  /\ p <= pos + n => Byte(new, by2, p) = text[p]
              /\ (p > pos + n /\ p <= copy.size) => Byte(new, by2, p) = Byte(copy, by, p)
  <2>1. PICK q, r : q = (p - 1) \div z /\ r = (p - 1) % z
    OBVIOUS
  <2>2. p \in Nat \ {0}
    BY <1>9
  <2>3. q \in Direct /\ r \in Offset
    BY <1>1, <1>3, <1>10, <2>1, ByteInBlock
  <2>4. Byte(new, by2, p) = by2[new.blocks[q]][r] /\ Byte(copy, by, p) = by[copy.blocks[q]][r]
    BY <1>1, <2>1 DEF Byte
  <2>5. /\ (p <= pos /\ q = ix) => r < off
        /\ (p > pos + n /\ q = ix) => r >= off + n
        /\ (p > pos /\ p <= pos + n) =>
             q = ix /\ r \in off..(off + n - 1) /\ p = pos + r - off + 1
    BY <1>2, <1>3, <1>4, <1>5, <2>1, <2>2, TurnPlace
  <2>6. CASE p > pos /\ p <= pos + n
    <3>1. q = ix /\ r \in off..(off + n - 1) /\ p = pos + r - off + 1
      BY <2>5, <2>6
    <3>2. by2[b][r] = text[p]
      BY <1>3, <3>1
    <3> QED
      BY <1>7, <2>2, <2>4, <2>6, <3>1, <3>2, <1>2, <1>6
  <2>7. ASSUME p <= pos \/ (p > pos + n /\ p <= copy.size)
        PROVE  Byte(new, by2, p) = Byte(copy, by, p)
    <3>1. p \in 1..copy.size
      BY <1>2, <1>5, <2>2, <2>7
    <3>2. copy.blocks[q] # 0
      BY <1>1, <1>2, <2>1, <3>1, ByteInBlock
    <3>3. CASE q # ix
      BY <1>3, <1>7, <1>8, <2>3, <2>4, <3>2, <3>3
    <3>4. CASE q = ix
      <4>1. r \notin off..(off + n - 1)
        BY <1>6, <2>3, <2>5, <2>7, <3>4
      <4>2. copy.blocks[ix] = b /\ new.blocks[q] = b
        BY <1>3, <1>7, <3>2, <3>4
      <4>3. by2[b][r] = by[b][r]
        BY <1>3, <2>3, <3>2, <3>4, <4>1
      <4> QED
        BY <2>4, <3>4, <4>2, <4>3
    <3> QED
      BY <3>3, <3>4
  <2>8. p <= pos => Byte(copy, by, p) = text[p]
    BY <1>2, <2>2
  <2> QED
    BY <1>2, <1>6, <2>2, <2>6, <2>7, <2>8
<1>12. \A p \in 1..(pos + n) : p \in 1..new.size /\ p <= pos + n
  BY <1>2, <1>6, <1>9
<1>13. \A p \in 1..copy.size : p \in 1..new.size /\ p <= copy.size
  BY <1>5, <1>9
<1>14. /\ \A p \in 1..(pos + n) : Byte(new, by2, p) = text[p]
       /\ \A p \in 1..copy.size : p > pos + n => Byte(new, by2, p) = Byte(copy, by, p)
  BY <1>11, <1>12, <1>13
<1>15. pos + n \in 0..Len(text)
  BY <1>2, <1>4, <1>5, <1>6
<1> QED
  BY <1>1, <1>9, <1>10, <1>14, <1>15

(* A prefix of a text laid over a file's bytes.                            *)
LEMMA OverlayIs ==
  ASSUME NEW old \in Seq(Nat), NEW text \in Seq(Nat), NEW k \in 0..Len(text)
  PROVE  Map!Overlay(old, SubSeq(text, 1, k))
           = [p \in 1..NewSize(Len(old), k) |-> IF p <= k THEN text[p] ELSE old[p]]
<1>1. PICK s, l, len : s = SubSeq(text, 1, k) /\ l = Len(old) /\ len = Len(text)
  OBVIOUS
<1>2. l \in Nat /\ len \in Nat /\ k \in Nat /\ k <= len
  BY <1>1
<1>3. Len(s) = k /\ \A p \in 1..k : s[p] = text[p]
  <2>1. 1 \in 1..(Len(text) + 1) /\ k \in (1 - 1)..Len(text)
    BY <1>1, <1>2
  <2>2. /\ Len(SubSeq(text, 1, k)) = k - 1 + 1
        /\ \A p \in 1..(k - 1 + 1) : SubSeq(text, 1, k)[p] = text[1 + p - 1]
    BY <2>1, Part
  <2>3. k - 1 + 1 = k /\ \A p \in 1..k : 1 + p - 1 = p
    BY <1>2
  <2> QED
    BY <1>1, <2>2, <2>3
<1>4. Map!Overlay(old, s) = [p \in 1..(IF l < k THEN k ELSE l) |-> IF p <= k THEN s[p] ELSE old[p]]
  BY <1>1, <1>3 DEF Map!Overlay
<1>5. (IF l < k THEN k ELSE l) = NewSize(l, k) /\ NewSize(l, k) \in Nat
  BY <1>2 DEF NewSize
<1>6. \A p \in 1..NewSize(l, k) : p <= k => p \in 1..k
  BY <1>2, <1>5
<1> QED
  BY <1>1, <1>3, <1>4, <1>5, <1>6

(* A turn of fs_write's loop lays a prefix of the text over one file.      *)
LEMMA WriteBlockShown ==
  ASSUME MapInv, WriteBlock
  PROVE  /\ MapInv'
         /\ \E m \in Names, text \in Texts :
              /\ m \in DOMAIN Contents
              /\ \E k \in 0..Len(text) :
                   Contents' = [Contents EXCEPT
                                  ![m] = Map!Overlay(Contents[m], SubSeq(text, 1, k))]
<1>1. FsInv /\ FsInv' /\ Sound /\ Laid /\ \E ix, off, n, b : Wrote(ix, off, n, b)
  BY WriteBlockStep DEF MapInv
<1>2. PICK ix, off, n, b : Wrote(ix, off, n, b)
  BY <1>1
<1>3. PICK i, text, k, copy, new, by2 :
        /\ i = fd.inode /\ text = fd.text /\ k = fd.position + n
        /\ copy = fd.copy /\ new = fd'.copy /\ by2 = bytes'
  OBVIOUS
<1>4. /\ Covered(new) /\ k \in 0..Len(text) /\ k <= new.size
      /\ \A p \in 1..k : Byte(new, by2, p) = text[p]
      /\ \A p \in 1..copy.size : p > k => Byte(new, by2, p) = Byte(copy, bytes, p)
  BY <1>2, <1>3, TurnOverlays
<1>5. /\ ix \in Direct /\ b \in Blocks
      /\ fd # Closed /\ fd' # Closed /\ fd'.inode = i /\ fd'.text = text /\ fd'.position = k
      /\ new \in InodeType /\ new.size = NewSize(copy.size, k)
      /\ (copy.blocks[ix] = 0 /\ b \notin data_bitmap) \/ copy.blocks[ix] = b
      /\ b # 0 /\ \A c \in Blocks : c # b => by2[c] = bytes[c]
      /\ inodes' = inodes /\ dirent' = dirent
  BY <1>2, <1>3 DEF Wrote
<1>6. /\ Mounted /\ i \in Files /\ text \in Texts
      /\ Current(i) = copy /\ copy \in InodeType
      /\ \E q \in Linked : EntryAt(q).name \in Names /\ EntryAt(q).inode = i
  BY <1>1, <1>3, <1>5 DEF FsInv, FsTypes, OpenFile, Writing, Laid, Current, AtPrompt
<1>7. PICK q \in Linked : EntryAt(q).name \in Names /\ EntryAt(q).inode = i
  BY <1>6
<1>8. Root' = Root /\ Linked' = Linked /\ Mounted' /\ \A p : EntryAt(p)' = EntryAt(p)
  BY <1>5, <1>6 DEF Root, Linked, Mounted, EntryAt, Positions
<1>9. Current(i)' = new /\ \A j : j # i => Current(j)' = Current(j)
  BY <1>3, <1>5 DEF Current, AtPrompt
<1>10. PICK dir, rd, rd2 : dir = Dir /\ rd = Reads /\ rd2 = Reads'
  OBVIOUS
<1>11. /\ DOMAIN dir = Linked /\ \A p \in Linked : dir[p] = EntryAt(p) /\ dir[p].inode \in Inodes
       /\ Contents = ViewOf(dir, rd) /\ Apart(dir) /\ DOMAIN dir \subseteq Nat
  BY <1>1, <1>6, <1>10, ContentsNow DEF Sound
<1>12. Dir' = dir
  BY <1>8, <1>10 DEF Dir
<1>13. Contents' = ViewOf(dir, rd2)
  BY <1>1, <1>8, <1>10, <1>12, ContentsNext
<1>14. ASSUME NEW p \in Linked, p # q
       PROVE  rd2[dir[p].inode] = rd[dir[p].inode] /\ Covered(Current(dir[p].inode)')
  <2>1. PICK j : j = Dir[p].inode
    OBVIOUS
  <2>2. /\ j \in inode_bitmap /\ j \in Inodes /\ Current(j) \in InodeType
        /\ \A l \in Direct : Current(j).blocks[l] \in data_bitmap
    BY <1>6, <2>1, FileFacts
  <2>3. /\ Tidy(inode_bitmap, data_bitmap, BlocksNow, Links) /\ i \in inode_bitmap /\ i \in Inodes
    BY <1>1, <1>6, MountedFacts DEF FsInv, FsTypes
  <2>4. j # i
    <3>1. DOMAIN Links = Linked /\ Links[p] = EntryAt(p).inode /\ Links[q] = EntryAt(q).inode
      BY DEF Links
    <3>2. Links[p] # Links[q]
      BY <1>14, <2>3, <3>1 DEF Tidy
    <3> QED
      BY <1>7, <1>10, <1>11, <2>1, <3>1, <3>2
  <2>5. ASSUME NEW l \in Direct, Current(j).blocks[l] # 0 PROVE Current(j).blocks[l] # b
    <3>1. BlocksNow[j] = Current(j).blocks /\ BlocksNow[i] = copy.blocks
      BY <1>6, <2>2, <2>3 DEF BlocksNow
    <3>2. Current(j).blocks[l] # copy.blocks[ix]
      BY <1>5, <2>2, <2>3, <2>4, <2>5, <3>1 DEF Tidy
    <3> QED
      BY <1>5, <2>2, <3>2
  <2>6. \A l \in Direct : Current(j).blocks[l] # 0 =>
                            bytes'[Current(j).blocks[l]] = bytes[Current(j).blocks[l]]
    BY <1>3, <1>5, <2>2, <2>5 DEF InodeType
  <2>7. Reads'[j] = Reads[j] /\ Covered(Current(j)')
    BY <1>6, <1>9, <2>1, <2>4, <2>6, FileKept
  <2> QED
    BY <1>10, <2>1, <2>7
<1>15. rd[i] = Content(copy, bytes) /\ rd2[i] = Content(new, by2)
  <2>1. i = Dir[q].inode /\ i \in Inodes
    BY <1>7, <1>10, <1>11
  <2>2. rd[i] = Content(copy, bytes)
    BY <1>6, <1>10, <2>1, FileFacts
  <2>3. rd2[i] = Content(new, by2)
    BY <1>3, <1>4, <1>5, <1>9, <1>10, <2>1, ReadsNext
  <2> QED
    BY <2>2, <2>3
<1>16. Content(new, by2) = Map!Overlay(Content(copy, bytes), SubSeq(text, 1, k))
  <2>1. PICK old, size : old = Content(copy, bytes) /\ size = copy.size
    OBVIOUS
  <2>2. size \in Nat /\ Covered(copy)
    BY <1>1, <1>6, <2>1 DEF Sound, InodeType
  <2>3. old = [p \in 1..size |-> Byte(copy, bytes, p)]
    BY <2>1 DEF Content
  <2>4. ASSUME NEW p \in 1..size PROVE Byte(copy, bytes, p) \in Nat
    <3>1. PICK c, r : /\ c = copy.blocks[(p - 1) \div FS_BLOCK_SIZE]
                      /\ r = (p - 1) % FS_BLOCK_SIZE
      OBVIOUS
    <3>2. c \in Blocks /\ r \in Offset
      BY <1>6, <2>1, <2>2, <3>1, ByteInBlock DEF InodeType
    <3>3. bytes[c][r] \in Nat
      BY <1>1, <3>2 DEF FsInv, FsTypes
    <3> QED
      BY <3>1, <3>3 DEF Byte
  <2>5. old \in [1..size -> Nat]
    BY <2>3, <2>4
  <2>6. old \in Seq(Nat) /\ Len(old) = size
    BY <2>2, <2>5
  <2>7. text \in Seq(Nat)
    BY <1>6, FsAssumption
  <2>8. Map!Overlay(old, SubSeq(text, 1, k))
          = [p \in 1..NewSize(size, k) |-> IF p <= k THEN text[p] ELSE old[p]]
    BY <1>4, <2>6, <2>7, OverlayIs
  <2>9. k \in Nat
    BY <1>4, <2>7
  <2>10. ASSUME NEW p \in 1..NewSize(size, k)
         PROVE  Byte(new, by2, p) = IF p <= k THEN text[p] ELSE old[p]
    <3>1. CASE p <= k
      <4>1. p \in 1..k
        BY <2>2, <2>9, <3>1 DEF NewSize
      <4> QED
        BY <1>4, <3>1, <4>1
    <3>2. CASE ~(p <= k)
      <4>1. p \in 1..size /\ p > k
        BY <2>2, <2>9, <3>2 DEF NewSize
      <4>2. Byte(new, by2, p) = Byte(copy, bytes, p)
        BY <1>4, <2>1, <4>1
      <4> QED
        BY <2>3, <3>2, <4>1, <4>2
    <3> QED
      BY <3>1, <3>2
  <2>11. Content(new, by2) = [p \in 1..NewSize(size, k) |-> Byte(new, by2, p)]
    BY <1>5, <2>1 DEF Content
  <2> QED
    BY <2>1, <2>8, <2>10, <2>11
<1>17. PICK m : m = dir[q].name
  OBVIOUS
<1>18. /\ m \in DOMAIN ViewOf(dir, rd) /\ ViewOf(dir, rd)[m] = rd[i]
       /\ ViewOf(dir, rd2) = [ViewOf(dir, rd) EXCEPT ![m] = rd2[i]] /\ m \in Names
  <2>1. /\ q \in DOMAIN dir /\ dir[q].name \in Names /\ dir[q].inode = i
        /\ \A p \in DOMAIN dir : p # q => rd2[dir[p].inode] = rd[dir[p].inode]
    BY <1>7, <1>11, <1>14
  <2>2. /\ dir[q].name \in DOMAIN ViewOf(dir, rd)
        /\ ViewOf(dir, rd)[dir[q].name] = rd[dir[q].inode]
        /\ ViewOf(dir, rd2) = Rewritten(ViewOf(dir, rd), dir[q].name, rd2[dir[q].inode])
    BY <1>11, <2>1, ViewWrite
  <2> QED
    BY <1>17, <2>1, <2>2, Zenon DEF Rewritten
<1>19. Contents' = [Contents EXCEPT ![m] = Map!Overlay(Contents[m], SubSeq(text, 1, k))]
  BY <1>11, <1>13, <1>15, <1>16, <1>18, Zenon
<1>20. Sound'
  <2>1. Apart(Dir)'
    BY <1>11, <1>12 DEF Apart
  <2>2. ASSUME NEW j \in Files' PROVE Covered(Current(j))'
    <3>1. PICK p \in Linked : j = dir[p].inode
      BY <1>8, <1>11 DEF Files
    <3>2. Covered(Current(j)')
      BY <1>4, <1>7, <1>9, <1>11, <1>14, <3>1
    <3> QED
      BY <3>2 DEF Covered
  <2> QED
    BY <2>1, <2>2 DEF Sound
<1>21. Laid'
  <2>1. \A p \in 1..k : Byte(fd'.copy, bytes', p) = text[p]
    BY <1>3, <1>4
  <2>2. \E p \in Linked' : EntryAt(p)'.name \in Names /\ EntryAt(p)'.inode = fd'.inode
    BY <1>5, <1>7, <1>8
  <2> QED
    BY <1>3, <1>4, <1>5, <1>6, <2>1, <2>2 DEF Laid, Byte
<1> QED
  BY <1>1, <1>4, <1>6, <1>11, <1>18, <1>19, <1>20, <1>21 DEF MapInv

(* The disk kernel_main formats shows no files.                            *)
LEMMA MapStart == Init => MapInv /\ Contents = [n \in {} |-> <<>>]
<1> SUFFICES ASSUME Init PROVE MapInv /\ Contents = [n \in {} |-> <<>>]
  OBVIOUS
<1>1. FsInv /\ fd = Closed
  BY FsInit DEF Init
<1>2. Linked = {}
  <2>1. PICK root : root = NewInode(FS_TYPE_DIR, 0)
    OBVIOUS
  <2>2. Root = root
    BY <2>1, FsSizes DEF Init, Root
  <2>3. \A k \in Direct : Root.blocks[k] = 0
    BY <2>1, <2>2, NewValues, FsSizes
  <2> QED
    BY <1>1, <2>3, FsFacts, RowCol DEF LinkedIn
<1>3. DOMAIN Dir = {} /\ Files = {}
  BY <1>2 DEF Dir, Files
<1>4. MapInv
  BY <1>1, <1>3 DEF MapInv, Sound, Laid, Apart, AtPrompt
<1>5. {m \in Names : Exists(m)} = {}
  BY <1>2 DEF Exists, Matches
<1>6. Contents = [n \in {} |-> <<>>]
  BY <1>5 DEF Contents
<1> QED
  BY <1>4, <1>6

(* The empty map.                                                          *)
LEMMA EmptyMap == [n \in {} |-> <<>>] = <<>>
  OBVIOUS

(* WitFS implements a map from names to contents: for every size of the    *)
(* disk, a command changes the file it names and no other, between the     *)
(* turns of fs_write's loop a prefix of the text lies over what was there, *)
(* and what was removed or never written does not come back in a new file. *)
(* This needs that no name users type is what dir_add_entry stores of a    *)
(* longer one: two entries could else have the same name.                  *)
THEOREM WitFSImplementsFileMap ==
  ASSUME NamesKept
  PROVE  Spec => ImplementsFileMap
<1>1. Init => Map!Init
  BY MapStart, EmptyMap DEF Map!Init, Contents
<1>2. MapInv /\ [Next]_vars =>
        MapInv' /\ [Map!Next]_([n \in {m \in Names : Exists(m)} |-> ReadFile(Lookup(n))])
  <2> SUFFICES ASSUME MapInv, [Next]_vars
               PROVE  MapInv' /\ (Contents' = Contents \/ Map!Next)
    BY DEF Contents
  <2>0. Contents = [n \in {m \in Names : Exists(m)} |-> ReadFile(Lookup(n))]
    BY DEF Contents
  <2>1. CASE UNCHANGED vars
    BY <2>1, StutterShown
  <2>2. ASSUME NEW n \in Names, n \notin DOMAIN Contents, Contents' = WithFile(Contents, n, <<>>)
        PROVE  Contents' = Contents \/ Map!Next
    BY <2>2 DEF Map!Next, Map!Add, WithFile, Contents
  <2>3. ASSUME NEW n \in Names, Touch(n) \/ Mkdir(n)
        PROVE  MapInv' /\ (Contents' = Contents \/ Map!Next)
    <3>1. PICK type \in {FS_TYPE_FILE, FS_TYPE_DIR} : Create(n, type) \/ CreateUndone(n, type)
      BY <2>3 DEF Touch, Mkdir
    <3> QED
      BY <2>2, <3>1, CreateShown, UndoneShown
  <2>4. ASSUME NEW n \in Names, Rm(n)
        PROVE  MapInv' /\ (Contents' = Contents \/ Map!Next)
    <3>1. MapInv' /\ n \in DOMAIN Contents /\ Contents' = WithoutFile(Contents, n)
      BY <2>4, RmShown
    <3> QED
      BY <3>1 DEF Map!Next, Map!Remove, WithoutFile, Contents
  <2>5. ASSUME NEW n \in Names, NEW text \in Texts, WriteOld(n, text) \/ WriteNew(n, text)
        PROVE  MapInv' /\ (Contents' = Contents \/ Map!Next)
    BY <2>2, <2>5, WriteOldShown, WriteNewShown
  <2>6. CASE WriteBlock
    <3>1. PICK m \in Names, text \in Texts :
            /\ m \in DOMAIN Contents
            /\ \E k \in 0..Len(text) :
                 Contents' = [Contents EXCEPT
                                ![m] = Map!Overlay(Contents[m], SubSeq(text, 1, k))]
      BY <2>6, WriteBlockShown
    <3>2. Contents' = Contents \/ Map!Next
      BY <3>1 DEF Map!Next, Map!Write, Contents
    <3> QED
      BY <2>6, <3>2, WriteBlockShown
  <2>7. CASE WriteEnd
    BY <2>7, WriteEndShown
  <2>8. CASE Fsformat \/ Rdformat
    <3>1. MapInv' /\ Contents' = <<>>
      BY <2>8, FormatShown, EmptyMap
    <3> QED
      BY <3>1 DEF Map!Next, Map!Erase, Contents
  <2> QED
    BY <2>1, <2>3, <2>4, <2>5, <2>6, <2>7, <2>8 DEF Next
<1>3. Init => MapInv
  BY MapStart
<1> QED
  BY <1>1, <1>2, <1>3, PTL DEF Spec, ImplementsFileMap, Map!Spec
=============================================================================
