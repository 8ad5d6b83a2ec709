--------------------------- MODULE MCRegistration ---------------------------
(***************************************************************************)
(* Instances of Registration for TLC: two runs of one wallet.               *)
(***************************************************************************)
EXTENDS Registration, TLC

CONSTANTS r1, r2

Pilot == 3..6
Given == {0, 2, 5}
=============================================================================
