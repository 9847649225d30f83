---------------------------- MODULE MCDeviceLink ----------------------------
(***************************************************************************)
(* Instances of DeviceLink for TLC: one device, one room.                  *)
(***************************************************************************)
EXTENDS DeviceLink, TLC

LinkSymmetry == Permutations(Keys)
=============================================================================
