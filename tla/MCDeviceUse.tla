---------------------------- MODULE MCDeviceUse ----------------------------
(***************************************************************************)
(* Instances of DeviceUse for TLC: the mount table of MCMountTable with    *)
(* users.                                                                  *)
(***************************************************************************)
EXTENDS DeviceUse, MCMountTable
=============================================================================
