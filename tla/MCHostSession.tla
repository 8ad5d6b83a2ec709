--------------------------- MODULE MCHostSession ---------------------------
(***************************************************************************)
(* Instances of HostSession for TLC: the initiator has a second client.     *)
(***************************************************************************)
EXTENDS HostSession

MCSettings == {<<"off", "required_existing_or_fresh">>, <<"observe", "not_required">>,
               <<"enforce", "not_required">>, <<"enforce", "required_existing_or_fresh">>}

TwoClients == [initiator |-> <<"i1", "i2">>, responder |-> <<"r1">>]
=============================================================================
