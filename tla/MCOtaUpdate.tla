----------------------------- MODULE MCOtaUpdate -----------------------------
(* Packages to check OtaUpdate with: two images signed with the same        *)
(* sequence, images signed again, and one that fails to start.              *)
EXTENDS OtaUpdate

CONSTANTS img1, img2, img3

P(n, i) == [sequence |-> n, image |-> i]
TestReleases == {P(1, img1), P(1, img2), P(2, img1), P(2, img2), P(3, img3),
                 P(4, img1)}
TestBroken == {P(3, img3)}
=============================================================================
