------------------------------ MODULE NodeInfo ------------------------------
(***************************************************************************)
(* NodeGetInfo (driver/node.go:364-453): how many volumes the driver says  *)
(* an instance can take, from the devices it has when it is asked.         *)
(*                                                                         *)
(* An instance is [platform, cores, nics, secondary, local, filesystems]:  *)
(* its kind, and how many devices it has that are not the driver's.  own   *)
(* is the number of secondary disks that the driver attached: their device *)
(* names start with "csi-" (encoding.go:24-28, controller.go:354).         *)
(***************************************************************************)
EXTENDS Integers

BootDisksCount == 1

\* Above so many cores an instance of the platform takes 14 disks
ManyCores == [v1 |-> 18, v2 |-> 20, v3 |-> 32]

Platforms == {"v1", "v2", "v3", "other"}

Instances == [platform : Platforms, cores : Nat, nics : Nat,
              secondary : Nat, local : Nat, filesystems : Nat]

DisksLimit(i) ==
    IF i.platform \in DOMAIN ManyCores /\ i.cores > ManyCores[i.platform] THEN 14 ELSE 8

\* nonCSISecondaryDisksCount; a disk of the driver is told by its name
Foreign(i) == i.local + i.filesystems + i.secondary

\* every secondary disk is taken for a foreign one
MaxVolumesPerNode_WithoutPrefix(i, own) ==
    DisksLimit(i) - BootDisksCount - (Foreign(i) + own)
        - (IF BootDisksCount + i.secondary + own + i.nics < 14 THEN 0 ELSE i.nics)

\* the boot disk is not counted
MaxVolumesPerNode_WithoutBootDisk(i, own) ==
    DisksLimit(i) - Foreign(i)
        - (IF BootDisksCount + i.secondary + own + i.nics < 14 THEN 0 ELSE i.nics)

MaxVolumesPerNode(i, own) ==
    DisksLimit(i) - BootDisksCount - Foreign(i)
        - (IF BootDisksCount + i.secondary + own + i.nics < 14 THEN 0 ELSE i.nics)

=============================================================================
