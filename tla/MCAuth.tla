------------------------------- MODULE MCAuth -------------------------------
(* Instances of Auth for TLC.  Requests and tokens are interchangeable; the *)
(* symmetry is used for safety only.                                        *)
EXTENDS Auth, TLC

AuthSymmetry == Permutations(Requests) \cup Permutations(Tokens)
=============================================================================
