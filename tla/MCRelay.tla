------------------------------ MODULE MCRelay ------------------------------
(***************************************************************************)
(* Instances of Relay for TLC: two clients, one reader, a host and two     *)
(* party keys.  The coordinator vouched for both keys as the initiator and *)
(* for one of them as the responder too, so that a second enrollment of a  *)
(* role and one key enrolling for both roles can both be tried.            *)
(***************************************************************************)
EXTENDS RelayRefinement, TLC

CONSTANTS c1, c2, r1, h, k1, k2

MCClients == {c1, c2}
MCReaders == {r1}

Post(r, k, kd) == [role |-> r, key |-> k, kind |-> kd]
MCVouched == {<<"initiator", k1>>, <<"initiator", k2>>, <<"responder", k1>>}

\* The host, two keys that contend for a role, one of them for both, and a party's message.
MCPosts == {Post("host", h, "other"), Post("initiator", k1, "enrollment"),
            Post("initiator", k2, "enrollment"), Post("responder", k1, "enrollment"),
            Post("initiator", k1, "other")}

\* One sender is enough where only the queue and the file matter.
MCOnePost == {Post("host", h, "other")}

Symmetry == Permutations(MCClients)
============================================================================
