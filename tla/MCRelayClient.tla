--------------------------- MODULE MCRelayClient ---------------------------
(***************************************************************************)
(* Instances of RelayClient for TLC: two clients that take the same role.  *)
(***************************************************************************)
EXTENDS RelayClient, TLC

CONSTANTS p, q

Everybody == {p, q}
RoleOf == (p :> "payer") @@ (q :> "payer")

\* Two parties race for a role; one of them then posts with a stop time.
Race == (p :> <<"claim", "bounded">>) @@ (q :> <<"claim">>)
============================================================================
