------------------------------- MODULE MCVfs --------------------------------
(* The instances of Vfs for TLC, both with the root file system and /dev.    *)
(* MCVfs.cfg: a device that mounts there, is killed and mounts again until   *)
(* there is no mount left, and a program that makes and unlinks a file       *)
(* beside it.  MCVfsRace.cfg: two devices with one mount point and two       *)
(* programs with the same files, one of which has the mount point's name.    *)
(* LAST bounds the nodes made.                                             *)
EXTENDS Vfs, TLC

CONSTANTS LAST, Files

MCAddresses == 0 .. LAST
MCMountPoint == [d \in Devices |-> "tty0"]
MCFileNames == [u \in Users |-> Files]
MCSymmetry == Permutations(Devices) \cup Permutations(Users)
=============================================================================
