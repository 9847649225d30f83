----------------------------- MODULE MCVoiceRoom -----------------------------
(* Bounds and symmetry for checking VoiceRoom.                              *)
EXTENDS VoiceRoom, TLC

PeerSymmetry == Permutations(Peers)
=============================================================================
