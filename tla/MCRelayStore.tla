---------------------------- MODULE MCRelayStore ----------------------------
(***************************************************************************)
(* Instances of RelayStore for TLC.  The .cfg files give the sets as model *)
(* values; symmetry permutes the values no definition tells apart.         *)
(***************************************************************************)
EXTENDS RelayStore, TLC

StoreSymmetry ==
  Permutations(Rooms) \cup Permutations(Devices) \cup Permutations(Keys)
    \cup Permutations(Texts) \cup Permutations(Users \ {Admin})
=============================================================================
