-------------------------- MODULE MCOAuthLoopback --------------------------
(* Instance of OAuthLoopback for TLC: request slots are model values.      *)
EXTENDS OAuthLoopback, TLC

CONSTANTS r1, r2, r3

MCReq2 == {r1, r2}
MCReq3 == {r1, r2, r3}

MCSymmetry == Permutations(MCReq3)
=============================================================================
