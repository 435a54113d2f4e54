------------------------------ MODULE MCBlkfs ------------------------------
(***************************************************************************)
(* Blkfs on two volumes: one on which a power failure comes between two    *)
(* syncs, and a smaller one on which it may come in the middle of a sync   *)
(* or of its flush.  A behaviour has one of them, chosen at the start.     *)
(***************************************************************************)
EXTENDS Blkfs

VARIABLE part      \* "whole" or "torn"

Torn == INSTANCE Blkfs WITH
  Val <- {SeedVal}, MaxLen <- 1, NIno <- 3, NBlk <- 3, CrashMid <- 1, MaxOps <- 5

DiskInit == (part = "whole" /\ Init) \/ (part = "torn" /\ Torn!Init)
DiskNext ==
  /\ part' = part
  /\ (part = "whole" /\ Next) \/ (part = "torn" /\ Torn!Next)

DiskSpec == DiskInit /\ [][DiskNext]_<<part, vars>>

(* File names are interchangeable as long as the initrd provides none of them. *)
Names == Permutations(File)

-----------------------------------------------------------------------------
(* Properties *)

(* What a sync wrote is what a mount after a power failure gives back. *)
WholeDurable == part = "whole" => SyncDurable

(* No block and no inode number is used twice, and the bitmaps mark exactly what
   the tree and the delete queue refer to. *)
VolumeSound == part = "whole" => TypeOK /\ BitmapsExact /\ InodesDistinct

(* A power failure in the middle of a sync spares the files it had no reason to
   write. *)
OthersSurvive == [][part = "torn" => Torn!UntouchedSurvive]_vars
=============================================================================
