------------------------------ MODULE MCPlugin ------------------------------
(* The instances the run of the plugin is about. *)
EXTENDS Plugin

CONSTANTS c1, c2

Machine(platform, cores, nics, secondary, local, filesystems) ==
    [platform |-> platform, cores |-> cores, nics |-> nics,
     secondary |-> secondary, local |-> local, filesystems |-> filesystems]

(***************************************************************************)
(* One with many NICs, which count from the fifth disk of the driver on,   *)
(* one of a platform that is not listed, and one so full that its limit    *)
(* comes out zero.                                                         *)
(***************************************************************************)
ThreeMachines == {Machine("v3", 33, 8, 0, 0, 0),
                  Machine("other", 4, 1, 2, 1, 0),
                  Machine("v1", 18, 1, 3, 2, 2)}

=============================================================================
