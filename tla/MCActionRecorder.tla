-------------------------- MODULE MCActionRecorder --------------------------
(***************************************************************************)
(* The responder's recorder on a short handshake: three steps of setup, the      *)
(* join, one registration, one commitment and the certificate.                *)
(***************************************************************************)
EXTENDS ActionRecorder

MCSetup == <<"init", "policy", "inspect">>

MCFollow ==
  [init |-> <<>>, policy |-> <<>>, inspect |-> <<"register">>, register |-> <<"acceptance">>,
   acceptance |-> <<"verify-certificate">>] @@ ("verify-certificate" :> <<>>)
=============================================================================
