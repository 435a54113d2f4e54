------------------------------- MODULE Blkfs -------------------------------
(***************************************************************************)
(* YartFS, the on-disk file system (kernel/fs/blkfs.c), together with the   *)
(* part of the in-memory tree it persists (kernel/fs/vfs.c).                *)
(*                                                                          *)
(* The RAM tree is the source of truth.  blkfs_sync, called with nothing    *)
(* but its own vfs_lock, walks the tree and writes the dirty nodes, then    *)
(* the superblock, the bitmaps and the superblock again, and only after the *)
(* unlock asks the device to flush.  Every write goes to the device's       *)
(* volatile cache (disk); the device moves single blocks to the medium      *)
(* (stable) whenever it likes.  A crash keeps the medium and loses the rest.*)
(*                                                                          *)
(* One directory, the root, holds the files of File.  A file's content is a *)
(* sequence of block contents, so an inode is the sequence of its blocks.   *)
(* The dirents of the root fit one block.  All inodes share one block of    *)
(* the inode table, as the first 32 of a real volume do.                    *)
(***************************************************************************)
EXTENDS Integers, Sequences, FiniteSets, SequencesExt

CONSTANTS
  File,       \* the names in the root directory
  Val,        \* the contents of one block of a file
  Seed,       \* the files the initrd provides at every boot
  SeedVal,    \* what the initrd's copy holds, one block
  Zero,       \* a block of zeros
  MaxLen,     \* bound: blocks of a file
  NIno,       \* inodes of the volume, numbered from 1
  NBlk,       \* data blocks of the volume, numbered from 1
  DelMax,     \* the size of g_deleted (64 in the code)
  Fresh,      \* 1: the volume has just been formatted by this boot
  Stale,      \* 1: the disk was used before, its inode slots hold garbage
  CrashMid,   \* 1: power may fail while a sync or its flush is under way
  MaxFlush,   \* bound: syncs whose flush has not ended
  MaxOps      \* bound: changes to the tree and power failures

ASSUME BlkfsAssumption ==
  /\ Seed \subseteq File /\ SeedVal \in Val /\ Zero \in Val
  /\ NIno \in Nat \ {0} /\ NBlk \in Nat \ {0}
  /\ MaxLen \in Nat /\ DelMax \in Nat 
  /\ MaxFlush \in Nat \ {0} /\ MaxOps \in Nat
  /\ Fresh \in {0, 1} /\ Stale \in {0, 1} /\ CrashMid \in {0, 1}

VARIABLES
  child,      \* RAM: the root's children, in list order
  data,       \* RAM: v->data of each child
  ino,        \* RAM: v->ino of each child, 0 before the first persist
  dirty,      \* RAM: the children with v->dirty
  rootIno,    \* RAM: root->ino
  rootDirty,  \* RAM: 1 while root->dirty
  bbm,        \* RAM: g_bbitmap, the blocks marked used
  ibm,        \* RAM: g_ibitmap, the inodes marked used
  deleted,    \* RAM: g_deleted
  pc,         \* where the running blkfs_sync stands
  idx,        \* the child sync_tree visits next
  wrote,      \* 1 once this sync has written or freed something
  flushing,   \* syncs past their unlock, before the end of blk_flush
  disk,       \* what the device answers to a read
  stable,     \* what survives a power failure
  ops,        \* changes to the tree and power failures so far
  snap,       \* history: the tree at the last unlock of a sync that wrote
  goal,       \* history: the tree the running sync is writing
  kept,       \* history: files no sync has written since the last flush
  torn        \* history: 1 once power failed before a sync had returned

ram   == <<child, data, ino, dirty, rootIno, rootDirty, deleted>>
history == <<snap, goal, kept, torn>>
vars  == <<ram, bbm, ibm, pc, idx, wrote, flushing, disk, stable, ops,
          history>>

RootIno == 1
Ino == 1..NIno
Blk == 1..NBlk
NoBlocks == <<>>

\* The contents of a data block: dirents, file data or what was there before.
DirBlk(ents) == [kind |-> "dir", ents |-> ents, val |-> Zero]
FileBlk(v)   == [kind |-> "file", ents |-> <<>>, val |-> v]
Junk         == [kind |-> "junk", ents |-> <<>>, val |-> Zero]

\* The tree as a user sees it: the files there are, and their data.
Tree == [f \in ToSet(child) |-> data[f]]

\* What the initrd puts in the tree before the disk is mounted (vfs_init).
SeedTree == [f \in Seed |-> <<FileBlk(SeedVal)>>]

-----------------------------------------------------------------------------
(* Mounting *)

\* Faulty variant: a volume that was not left clean is not read.
DirentsOfClean(d) == LET bs == d.itab[RootIno]
                     IN IF bs = NoBlocks \/ d.sb = 1 THEN <<>> ELSE d.data[Head(bs)].ents

\* mount_dir reads the dirents of the root's blocks.  A block that holds
\* something else yields no entries (rec_len does not parse).
Dirents(d) == LET bs == d.itab[RootIno]
              IN IF bs = NoBlocks THEN <<>> ELSE d.data[Head(bs)].ents

\* A file's data is read through its inode; an inode of size 0 leaves what
\* the initrd put there.
FileData(d, e) ==
  LET bs == d.itab[e.ino]
  IN IF bs # NoBlocks THEN [i \in 1..Len(bs) |-> d.data[bs[i]]]
     ELSE IF e.name \in Seed THEN SeedTree[e.name] ELSE <<>>

\* The tree a mount of disk d builds on top of the initrd's.
Mounted(d) ==
  LET ents  == Dirents(d)
      names == {ents[i].name : i \in 1..Len(ents)}
      ent(f) == ents[CHOOSE i \in 1..Len(ents) :
                       /\ ents[i].name = f
                       /\ \A j \in i+1..Len(ents) : ents[j].name # f]
  IN [f \in names \cup Seed |->
        IF f \in names THEN FileData(d, ent(f)) ELSE SeedTree[f]]

-----------------------------------------------------------------------------
(* Allocation and the block map *)

\* The n lowest members of a set of numbers; all of it if it is smaller.
Lowest(S, n) == {b \in S : Cardinality({c \in S : c < b}) < n}

\* Faulty variant: the scan skips the inodes the disk's bitmap marks, which
\* those given out since the last sync are not.
AllocInoStale == LET free == Ino \ disk.ibm
                 IN IF free = {} THEN 0 ELSE CHOOSE i \in Lowest(free, 1) : TRUE

\* alloc_ino: the first inode whose bit is clear, 0 if there is none.
alloc_ino == LET free == Ino \ ibm
             IN IF free = {} THEN 0 ELSE CHOOSE i \in Lowest(free, 1) : TRUE

\* Faulty variant: shrinking gives back one block too many.
MapBlocksOffByOne(bs, n) ==
  LET stay  == SubSeq(bs, 1, IF n < Len(bs) THEN n ELSE Len(bs))
      held  == bbm \ {bs[i] : i \in {j \in 1..Len(bs) : j >= n /\ n < Len(bs)}}
      taken == Lowest(Blk \ held, n - Len(stay))
  IN [blocks |-> stay \o SetToSortSeq(taken, <), bbm |-> held \cup taken]

\* The block map persist_data works with and what it leaves of the bitmap:
\* blocks past n are given back, blocks missing up to n are taken lowest
\* first.  When the volume is full the map comes out too short.
MapBlocks(bs, n) ==
  LET stay  == SubSeq(bs, 1, IF n < Len(bs) THEN n ELSE Len(bs))
      held  == bbm \ {bs[i] : i \in n+1..Len(bs)}
      taken == Lowest(Blk \ held, n - Len(stay))
  IN [blocks |-> stay \o SetToSortSeq(taken, <), bbm |-> held \cup taken]

\* Contents cs written through the block map bs.
WriteBlocks(bs, cs) ==
  [b \in Blk |-> IF b \in ToSet(bs)
                 THEN cs[CHOOSE i \in 1..Len(bs) : bs[i] = b]
                 ELSE disk.data[b]]

-----------------------------------------------------------------------------
(* Boot *)

\* Bound: each change and each power failure counts.
Counted == ops < MaxOps /\ ops' = ops + 1

\* format() does not clear the inode table: the slots of a disk used before
\* still name blocks.
FormattedTable == [i \in Ino |-> IF Stale = 1 THEN <<1>> ELSE NoBlocks]

\* The medium as format() leaves it, or as the sync and the restart of a
\* first boot leave it: the root has its inode, and inode 1's bit is set (the
\* first node persisted took it; it is not one of File).
Volume ==
  [sb   |-> 0,
   bbm  |-> {},
   ibm  |-> IF Fresh = 1 THEN {} ELSE {RootIno},
   itab |-> IF Fresh = 1 THEN FormattedTable
            ELSE [FormattedTable EXCEPT ![RootIno] = NoBlocks],
   data |-> [b \in Blk |-> Junk]]

Init ==
  /\ child = SetToSeq(Seed)
  /\ data = [f \in File |-> IF f \in Seed THEN SeedTree[f] ELSE <<>>]
  /\ ino = [f \in File |-> 0]
  /\ dirty = {}
  /\ rootIno = IF Fresh = 1 THEN 0 ELSE RootIno
  /\ rootDirty = 0
  /\ deleted = <<>>
  /\ disk = Volume /\ stable = Volume
  /\ bbm = Volume.bbm /\ ibm = Volume.ibm
  /\ pc = "idle" /\ idx = 1 /\ wrote = 0 /\ flushing = 0
  /\ ops = 0 /\ snap = SeedTree /\ goal = SeedTree /\ kept = {} /\ torn = 0

\* blkfs_init on a formatted disk: the bitmaps are read, the tree is rebuilt
\* over the initrd's, every dirty flag is cleared.
Mount ==
  /\ pc = "off"
  /\ LET ents  == Dirents(disk)
         names == {ents[i].name : i \in 1..Len(ents)}
         tree  == Mounted(disk)
         ord   == SetToSeq(Seed)
         more  == SelectSeq([i \in 1..Len(ents) |-> ents[i].name],
                            LAMBDA f : f \notin Seed)
     IN /\ child' = ord \o more
        /\ data' = [f \in File |-> IF f \in DOMAIN tree THEN tree[f] ELSE <<>>]
        /\ ino' = [f \in File |->
                     IF f \in names
                     THEN ents[CHOOSE i \in 1..Len(ents) : ents[i].name = f].ino
                     ELSE 0]
        /\ snap' = tree /\ goal' = tree /\ kept' = {}
  /\ bbm' = disk.bbm /\ ibm' = disk.ibm
  /\ rootIno' = RootIno
  /\ pc' = "idle"
  /\ UNCHANGED <<dirty, rootDirty, deleted, idx, wrote, flushing, disk,
                 stable, ops, torn>>

\* Power fails.  RAM and the device's cache are lost.
Crash ==
  /\ pc # "off"
  /\ CrashMid = 1 \/ (pc = "idle" /\ flushing = 0)
  /\ pc' = "off"
  /\ torn' = IF pc = "idle" /\ flushing = 0 THEN torn ELSE 1
  /\ disk' = stable
  /\ child' = <<>> /\ dirty' = {} /\ rootDirty' = 0 /\ deleted' = <<>>
  /\ data' = [f \in File |-> <<>>] /\ ino' = [f \in File |-> 0]
  /\ rootIno' = 0 /\ bbm' = {} /\ ibm' = {}
  /\ idx' = 1 /\ wrote' = 0 /\ flushing' = 0
  /\ Counted
  /\ UNCHANGED <<stable, snap, goal, kept>>

-----------------------------------------------------------------------------
(* The tree: what system calls do under vfs_lock *)

\* vfs_create: the new node and its parent are dirty.
vfs_create(f) ==
  /\ pc = "idle" /\ f \notin ToSet(child)
  /\ child' = Append(child, f)
  /\ data' = [data EXCEPT ![f] = <<>>]
  /\ ino' = [ino EXCEPT ![f] = 0]
  /\ dirty' = dirty \cup {f}
  /\ rootDirty' = 1
  /\ Counted
  /\ UNCHANGED <<rootIno, deleted, bbm, ibm, pc, idx, wrote, flushing, disk,
                 stable, history>>

\* vfs_write of one block: a write past the end fills the gap with zeros.
vfs_write(f, i, v) ==
  /\ pc = "idle" /\ f \in ToSet(child)
  /\ data' = [data EXCEPT ![f] =
                [j \in 1..(IF i > Len(@) THEN i ELSE Len(@)) |->
                   IF j = i THEN FileBlk(v)
                   ELSE IF j <= Len(@) THEN @[j] ELSE FileBlk(Zero)]]
  /\ dirty' = dirty \cup {f}
  /\ Counted
  /\ UNCHANGED <<child, ino, rootIno, rootDirty, deleted, bbm, ibm, pc, idx,
                 wrote, flushing, disk, stable, history>>

\* vfs_truncate to n blocks.
vfs_truncate(f, n) ==
  /\ pc = "idle" /\ f \in ToSet(child)
  /\ data' = [data EXCEPT ![f] =
                [j \in 1..n |-> IF j <= Len(@) THEN @[j] ELSE FileBlk(Zero)]]
  /\ dirty' = dirty \cup {f}
  /\ Counted
  /\ UNCHANGED <<child, ino, rootIno, rootDirty, deleted, bbm, ibm, pc, idx,
                 wrote, flushing, disk, stable, history>>

\* blkfs_note_delete: the inode is queued for the next sync, if there is room.
blkfs_note_delete(i) ==
  deleted' = IF i \in ToSet(deleted) \/ Len(deleted) >= DelMax
             THEN deleted ELSE Append(deleted, i)

\* Faulty variant: the node stays on the list of dirty nodes.
UnlinkStaysDirty(f) ==
  /\ pc = "idle" /\ f \in ToSet(child)
  /\ IF ino[f] # 0 THEN blkfs_note_delete(ino[f]) ELSE UNCHANGED deleted
  /\ child' = SelectSeq(child, LAMBDA g : g # f)
  /\ data' = [data EXCEPT ![f] = <<>>]
  /\ ino' = [ino EXCEPT ![f] = 0]
  /\ rootDirty' = 1
  /\ Counted
  /\ UNCHANGED <<dirty, rootIno, bbm, ibm, pc, idx, wrote, flushing, disk,
                 stable, history>>

\* vfs_unlink: a node that has an inode is queued, the parent is dirty.
vfs_unlink(f) ==
  /\ pc = "idle" /\ f \in ToSet(child)
  /\ IF ino[f] # 0 THEN blkfs_note_delete(ino[f]) ELSE UNCHANGED deleted
  /\ child' = SelectSeq(child, LAMBDA g : g # f)
  /\ data' = [data EXCEPT ![f] = <<>>]
  /\ ino' = [ino EXCEPT ![f] = 0]
  /\ dirty' = dirty \ {f}
  /\ rootDirty' = 1
  /\ Counted
  /\ UNCHANGED <<rootIno, bbm, ibm, pc, idx, wrote, flushing, disk, stable,
                 history>>

-----------------------------------------------------------------------------
(* blkfs_sync: everything up to the unlock happens under vfs_lock *)

\* inode_free of every queued inode: its blocks and its bit are given back
\* in RAM, its slot is zeroed on disk.  g_deleted is emptied.
SyncDeletes ==
  /\ pc = "idle" /\ (deleted # <<>> \/ dirty # {} \/ rootDirty = 1)
  /\ LET gone == ToSet(deleted)
     IN /\ bbm' = bbm \ UNION {ToSet(disk.itab[i]) : i \in gone}
        /\ ibm' = ibm \ gone
        /\ disk' = [disk EXCEPT !.itab =
                      [i \in Ino |-> IF i \in gone THEN NoBlocks ELSE @[i]]]
  /\ wrote' = IF deleted = <<>> THEN 0 ELSE 1
  /\ deleted' = <<>>
  /\ pc' = "tree" /\ idx' = 1
  /\ goal' = Tree
  /\ kept' = LET clean == {f \in ToSet(child) \ dirty : ino[f] # 0}
             IN IF flushing = 0 THEN clean ELSE kept \cap clean
  /\ UNCHANGED <<child, data, ino, dirty, rootIno, rootDirty, flushing,
                 stable, snap, ops, torn>>

\* The block map a persist starts from: a node that had no inode starts
\* empty, any other reads its slot of the inode table.
OldMap(i, wasNew) == IF wasNew THEN NoBlocks ELSE disk.itab[i]

\* persist_node of an inode i with contents cs: data blocks, then the inode.
\* ok is false when blocks ran out; the inode is then not written.
Persist(i, wasNew, cs) ==
  LET m == MapBlocks(OldMap(i, wasNew), Len(cs))
      written == WriteBlocks(m.blocks, cs)
      ok == Len(m.blocks) = Len(cs)
  IN /\ bbm' = m.bbm
     /\ disk' = IF ok THEN [disk EXCEPT !.data = written, !.itab[i] = m.blocks]
                ELSE [disk EXCEPT !.data = written]
     /\ wrote' = IF ok THEN 1 ELSE wrote

Fits(i, wasNew, cs) ==
  Len(MapBlocks(OldMap(i, wasNew), Len(cs)).blocks) = Len(cs)

\* sync_tree visits the next child: a dirty one is persisted, taking an inode
\* the first time; success clears its flag and dirties the parent.
PersistChild ==
  /\ pc = "tree" /\ idx <= Len(child)
  /\ idx' = idx + 1
  /\ LET f == child[idx]
         wasNew == ino[f] = 0
         i == IF wasNew THEN alloc_ino ELSE ino[f]
     IN IF f \notin dirty \/ i = 0
        THEN UNCHANGED <<ino, ibm, bbm, disk, wrote, dirty, rootDirty>>
        ELSE /\ ino' = [ino EXCEPT ![f] = i]
             /\ ibm' = IF wasNew THEN ibm \cup {i} ELSE ibm
             /\ Persist(i, wasNew, data[f])
             /\ IF Fits(i, wasNew, data[f])
                THEN dirty' = dirty \ {f} /\ rootDirty' = 1
                ELSE UNCHANGED <<dirty, rootDirty>>
  /\ UNCHANGED <<child, data, rootIno, deleted, pc, flushing, stable, ops,
                 history>>

\* dir_build_entries: the children that have an inode, in list order.
dir_build_entries ==
  LET named == SelectSeq(child, LAMBDA f : ino[f] # 0)
  IN [k \in 1..Len(named) |-> [name |-> named[k], ino |-> ino[named[k]]]]

\* sync_tree comes back to the root.  The root's inode number is fixed, and
\* its bit in the bitmap is not set.  When nothing was written and nothing
\* deleted the sync returns.
PersistRoot ==
  /\ pc = "tree" /\ idx > Len(child)
  /\ LET ents == dir_build_entries
         cs == IF ents = <<>> THEN <<>> ELSE <<DirBlk(ents)>>
         wasNew == rootIno = 0
     IN IF rootDirty = 0
        THEN UNCHANGED <<rootIno, bbm, disk, wrote, rootDirty>>
        ELSE /\ rootIno' = RootIno
             /\ Persist(RootIno, wasNew, cs)
             /\ rootDirty' = IF Fits(RootIno, wasNew, cs) THEN 0 ELSE 1
  /\ pc' = IF wrote' = 1 THEN "mark" ELSE "idle"
  /\ idx' = 1
  /\ UNCHANGED <<child, data, ino, dirty, deleted, ibm, flushing, stable, ops,
                 history>>

\* The superblock is written with state = 1 ...
MarkDirty ==
  /\ pc = "mark"
  /\ disk' = [disk EXCEPT !.sb = 1]
  /\ pc' = "bitmaps"
  /\ UNCHANGED <<ram, bbm, ibm, idx, wrote, flushing, stable, ops, history>>

\* ... then the bitmaps and the group descriptors ...
flush_bitmaps ==
  /\ pc = "bitmaps"
  /\ disk' = [disk EXCEPT !.bbm = bbm, !.ibm = ibm]
  /\ pc' = "clean"
  /\ UNCHANGED <<ram, bbm, ibm, idx, wrote, flushing, stable, ops, history>>

\* ... then the superblock with state = 0; vfs_unlock, and on to blk_flush.
MarkClean ==
  /\ pc = "clean" /\ flushing < MaxFlush
  /\ disk' = [disk EXCEPT !.sb = 0]
  /\ flushing' = flushing + 1
  /\ pc' = "idle" /\ idx' = 1 /\ wrote' = 0
  /\ snap' = Tree
  /\ UNCHANGED <<ram, bbm, ibm, stable, goal, ops, kept, torn>>

\* Faulty variant: the flush is not sent to the device.
FlushSkipped ==
  /\ flushing > 0
  /\ flushing' = flushing - 1
  /\ UNCHANGED <<ram, bbm, ibm, pc, idx, wrote, disk, stable, ops, history>>

\* blk_flush returns: all the device had taken is on the medium.
FlushDone ==
  /\ flushing > 0
  /\ stable' = disk
  /\ flushing' = flushing - 1
  /\ UNCHANGED <<ram, bbm, ibm, pc, idx, wrote, disk, ops, history>>

\* The device moves one block of its cache to the medium.
DeviceWriteback ==
  /\ pc # "off" /\ CrashMid = 1
  /\ \/ stable' = [stable EXCEPT !.sb = disk.sb]
     \/ stable' = [stable EXCEPT !.bbm = disk.bbm]
     \/ stable' = [stable EXCEPT !.ibm = disk.ibm]
     \/ stable' = [stable EXCEPT !.itab = disk.itab]
     \/ \E b \in Blk : stable' = [stable EXCEPT !.data[b] = disk.data[b]]
  /\ stable' # stable
  /\ UNCHANGED <<ram, bbm, ibm, pc, idx, wrote, flushing, disk, ops, history>>

Next ==
  \/ \E f \in File :
       \/ vfs_create(f)
       \/ vfs_unlink(f)
       \/ \E i \in 1..MaxLen, v \in Val : vfs_write(f, i, v)
       \/ \E n \in 0..MaxLen : vfs_truncate(f, n)
  \/ SyncDeletes
  \/ PersistChild
  \/ PersistRoot
  \/ MarkDirty
  \/ flush_bitmaps
  \/ MarkClean
  \/ FlushDone
  \/ DeviceWriteback
  \/ Crash
  \/ Mount

Spec == Init /\ [][Next]_vars

-----------------------------------------------------------------------------
(* Properties *)

Contents == {FileBlk(v) : v \in Val} \cup {Junk}
Entry == [name : File, ino : Ino]
IsVolume(d) ==
  /\ d.sb \in {0, 1} /\ d.bbm \subseteq Blk /\ d.ibm \subseteq Ino
  /\ \A i \in Ino : d.itab[i] \in Seq(Blk) /\ Len(d.itab[i]) <= MaxLen + 1
  /\ \A b \in Blk : \/ d.data[b] \in Contents
                    \/ d.data[b].kind = "dir" /\ d.data[b].ents \in Seq(Entry)

\* Type invariant: blkfs_sync and mount keep block numbers, inode numbers and
\* dirents within the volume.
TypeOK ==
  /\ IsInjective(child) /\ ToSet(child) \subseteq File
  /\ \A f \in File : ino[f] \in Ino \cup {0} /\ Len(data[f]) <= MaxLen
  /\ dirty \subseteq ToSet(child)
  /\ rootIno \in {0, RootIno} /\ rootDirty \in {0, 1}
  /\ bbm \subseteq Blk /\ ibm \subseteq Ino
  /\ deleted \in Seq(Ino) /\ Len(deleted) <= DelMax
  /\ pc \in {"idle", "tree", "mark", "bitmaps", "clean", "off"}
  /\ idx \in 1..Cardinality(File) + 1 /\ wrote \in {0, 1}
  /\ flushing \in 0..MaxFlush
  /\ ops \in 0..MaxOps
  /\ IsVolume(disk) /\ IsVolume(stable)

\* Once a sync has returned, a power failure loses nothing it wrote: mounting
\* what is on the medium gives back the tree the sync saw, its new, changed,
\* shortened and deleted files included, whatever was written since.
SyncDurable ==
  pc = "idle" /\ flushing = 0 => Mounted(stable) = snap

\* Of every step: a power failure in the middle of a sync, or before its flush
\* has ended, spares the files that sync had no reason to write: they mount with the
\* data they had.  This is said of the first such failure only: the bitmaps
\* are not repaired by the mount after it.
UntouchedSurvive ==
  Crash /\ torn = 0 =>
    \A f \in kept : /\ f \in DOMAIN Mounted(stable)
                    /\ Mounted(stable)[f] = snap[f]

\* The inodes the tree or the delete queue refers to.
LiveInos == {RootIno} \cup ToSet(deleted) \cup
            {ino[f] : f \in {g \in ToSet(child) : ino[g] # 0}}

\* No block belongs to two inodes, and between syncs the bitmaps mark the
\* blocks and inodes something refers to: alloc_block never hands out a block
\* in use, and deleting and shortening files gives everything back.
BitmapsExact ==
  pc = "idle" =>
    /\ bbm = UNION {ToSet(disk.itab[i]) : i \in LiveInos}
    /\ ibm \subseteq LiveInos
    /\ \A i \in LiveInos, j \in LiveInos :
         i # j => ToSet(disk.itab[i]) \cap ToSet(disk.itab[j]) = {}

\* "INODES KEYED BY NUMBER (root = 1)": no two nodes of the tree have the
\* same inode number, the root included.
InodesDistinct ==
  \A f \in ToSet(child) :
    ino[f] # 0 => /\ rootIno # 0 => ino[f] # rootIno
                  /\ \A g \in ToSet(child) \ {f} : ino[g] # ino[f]

\* "A crash in between leaves state=1 on disk -> detected on next mount": a
\* medium that mounts to neither the tree of the last sync nor the tree of
\* the one that was cut short has state = 1.
CrashDetected ==
  pc = "off" => stable.sb = 1 \/ Mounted(stable) \in {snap, goal}

\* "load the disk's authoritative data": a file a sync gave an inode comes
\* back with the data that sync wrote.
DiskIsAuthoritative ==
  pc = "idle" /\ flushing = 0 =>
    \A k \in 1..Len(Dirents(stable)) :
      LET f == Dirents(stable)[k].name
      IN f \in DOMAIN snap => Mounted(stable)[f] = snap[f]

=============================================================================
