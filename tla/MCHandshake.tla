---------------------------- MODULE MCHandshake ----------------------------
(***************************************************************************)
(* Instances of Handshake for TLC, and the mutants of its definitions.      *)
(***************************************************************************)
EXTENDS Handshake, TLC

CONSTANTS p1, p2, q

RolesOfThree == (p1 :> "payer") @@ (p2 :> "payer") @@ (q :> "payee")

ThrottleHints == {2, 9}
Gaps == {1, 2}

MandateOf(amount, until, run) ==
  [amount |-> amount, payer |-> "payer", payee |-> "payee", from |-> 0, until |-> until,
   subjectRun |-> run, signedBy |-> "payer"]

RequestOf(m, signedBy) ==
  [amount |-> m.amount, payer |-> m.payer, payee |-> m.payee, from |-> m.from,
   until |-> m.until, subjectRun |-> m.subjectRun, signedBy |-> signedBy,
   mandateDigest |-> m]

TermsOf(running, trouble, options, amounts, mandate, payeeOwner, signedBy) ==
  [processes |-> running, faults |-> trouble,
   descriptor |-> [payer |-> "payer", payee |-> "payee", options |-> options,
                   signedBy |-> signedBy, mandateDigest |-> mandate,
                   requestDigest |-> RequestOf(mandate, "payee")],
   amounts |-> amounts, mandate |-> mandate, request |-> RequestOf(mandate, "payee"),
   owner |-> ("payer" :> "payer") @@ ("payee" :> payeeOwner)]

\* Two parties with two faults; two processes of the payer with two faults; and
\* all three.  The other sessions cannot be authorised, each for another reason.
SomeTerms ==
  LET usual == MandateOf(1, 20, "stakeholder")
      Pair == {p1, q}
  IN {TermsOf(Pair, 2, <<1, 2>>, {1}, usual, "payee", "repository"),
      TermsOf({p1, p2}, 2, <<1, 2>>, {1, 2}, usual, "payee", "repository"),
      TermsOf({p1, p2, q}, 0, <<1, 2>>, {1}, usual, "payee", "repository"),
      TermsOf(Pair, 0, <<1>>, {1, 2}, MandateOf(1, 20, "rehearsal"), "payee", "repository"),
      TermsOf(Pair, 0, <<1>>, {1}, MandateOf(1, 2, "stakeholder"), "payee", "repository"),
      TermsOf(Pair, 0, <<1, 2>>, {2}, usual, "payee", "repository"),
      TermsOf(Pair, 0, <<1>>, {1}, usual, "somebody", "repository"),
      TermsOf(Pair, 0, <<1, 1>>, {1}, usual, "payee", "repository"),
      TermsOf(Pair, 0, <<1>>, {1}, usual, "payee", "somebody")}
=============================================================================
