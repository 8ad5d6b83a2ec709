------------------------------ MODULE Verdict ------------------------------
(***************************************************************************)
(* The verifier of a session (src/core/verdict.mjs, payer-mandate.mjs and   *)
(* payment-request.mjs): it reads what both parties published, derives the   *)
(* transitions again from the ledger, and authorises or says why not.        *)
(*                                                                         *)
(* A verification reads the ledger twice, for the transitions and for the    *)
(* audit, and anything may happen in between.                               *)
(***************************************************************************)
EXTENDS RoleRunner

VARIABLES
  verdict   \* the verification: what it does next, what it read, what it said

NoVerdict == [pc |-> "idle", how |-> "none", live |-> <<>>, code |-> "none"]

VerdictInit == verdict = NoVerdict

\* The two ways to run it: verifyBilateralAuthorization, verifyRehearsal.
Hows == {"authorization", "rehearsal"}

Conclude(code) == verdict' = [verdict EXCEPT !.pc = "done", !.code = code]

----------------------------------------------------------------------------
\* The commercial intent.

\* verifyPayerMandate: signed by the payer, and about the descriptor's parties.
VerifiedMandate(m) ==
  /\ m.signedBy = m.payer /\ m.from < m.until
  /\ m.payer = descriptor.payer /\ m.payee = descriptor.payee

\* verifyPaymentRequest: signed by the payee, for this mandate and inside it.
VerifiedRequest(r, m) ==
  /\ VerifiedMandate(m)
  /\ r.signedBy = r.payee /\ r.mandateDigest = m
  /\ r.from < r.until /\ r.from >= m.from /\ r.until <= m.until
  /\ r.amount = m.amount /\ r.payer = m.payer /\ r.payee = m.payee
  /\ r.subjectRun = m.subjectRun

\* descriptorIntentAmount: the mandate's amount is one of those offered.
CommercialIntentPolicy ==
  /\ descriptor.mandateDigest = terms.mandate
  /\ descriptor.requestDigest = terms.request
  /\ VerifiedRequest(terms.request, terms.mandate)
  /\ terms.mandate.amount \in Offered(descriptor)

\* A faulty variant: any amount that was offered will do.
IntentOfAnyAmount(proposal) ==
  IF \A t \in {terms.mandate, terms.request} :
       proposal.time >= t.from /\ proposal.time < t.until
  THEN "ok" ELSE "EXPIRED"

\* verifyCommercialIntentAtAnchor: what is wrong with the proposal, if anything.
IntentAtAnchor(proposal) ==
  IF proposal.message.amount # terms.mandate.amount THEN "FAILED"
  ELSE IF \A t \in {terms.mandate, terms.request} :
            proposal.time >= t.from /\ proposal.time < t.until
  THEN "ok" ELSE "EXPIRED"

----------------------------------------------------------------------------
\* What both parties published.

\* reorderedPartyClone: valid, but for the order of the transitions.
Reordered(r) ==
  LET ts == r.transitions
      Sorted == {o \in [DOMAIN ts -> DOMAIN ts] :
                   \A k \in DOMAIN ts : ts[o[k]].message.kind = Kinds[k]}
  IN \E o \in Sorted : (\E k \in DOMAIN ts : o[k] # k)
                       /\ ValidPartyResult([r EXCEPT !.transitions = [k \in DOMAIN ts |-> ts[o[k]]]])

\* loadPartyPackages and verifyPartyTriple: what is wrong with a package, if anything.
PartyPackage(role) ==
  LET r == package[role].result[1]
  IN IF ~IsComplete(role) THEN "FAILED"
     ELSE IF ValidPartyResult(r) THEN "ok"
     ELSE IF Reordered(r) THEN "REORDERED"
     ELSE "MALFORMED"

Published(role) == package[role].result[1]

\* A faulty variant: the payee must have seen the acknowledgment.
PackageMatchesWhole(role, live) ==
  LET ts == Published(role).transitions
  IN IF ts # live THEN "BINDING_MISMATCH" ELSE "ok"

\* assertPackagesMatch: what is wrong with a package against the ledger.
PackageMatches(role, live) ==
  LET ts == Published(role).transitions
  IN IF Published(role).role # role \/ ~EnoughTransitions(role, Len(ts)) THEN "FAILED"
     ELSE IF \E k \in DOMAIN ts : ts[k] # live[k] THEN "BINDING_MISMATCH"
     ELSE "ok"

----------------------------------------------------------------------------
\* The ledger.

\* assertVerifiedLiveAppend: what is wrong with an entry after those before it.
LiveAppend(live, entry) ==
  IF \E k \in DOMAIN live : live[k].id = entry.id THEN "DUPLICATE"
  ELSE IF live # <<>> /\ live[Len(live)].height >= entry.height THEN "REORDERED"
  ELSE "ok"

\* verifyTransition of one message, appended to the transitions read so far.
ReadTransition(read, message) ==
  LET found == ClassifySearch(message)
      anchor == AnchorOf(message)
      entry == Entry(message, anchor, blocks[anchor.height])
  IN IF found = "absent" THEN [read EXCEPT !.code = "EXPIRED"]
     ELSE IF found # "found" THEN [read EXCEPT !.code = found]
     ELSE IF terms.owner[Author(message)] # Author(message) THEN [read EXCEPT !.code = "FAILED"]
     ELSE IF LiveAppend(read.live, entry) # "ok" THEN
            [read EXCEPT !.code = LiveAppend(read.live, entry)]
     ELSE [read EXCEPT !.live = Append(@, entry)]

\* liveProposalDigest and verifyLiveTransitions: the transitions, or what is
\* wrong with them.
LiveTransitions ==
  LET found == Search("proposal")
      digest == (CHOOSE a \in found : TRUE).digest
      nothing == [live |-> <<>>, code |-> "ok"]
      first == ReadTransition(nothing, digest)
      second == ReadTransition(first, BuildAcceptance(first.live[1]))
      third == ReadTransition(second, BuildAcknowledgment(second.live[2], second.live[1]))
  IN IF found = {} THEN [nothing EXCEPT !.code = "MISSING"]
     ELSE IF Cardinality(found) > 1 THEN [nothing EXCEPT !.code = "DUPLICATE"]
     ELSE IF ~IsRecoverable(descriptor, digest) THEN [nothing EXCEPT !.code = "AMOUNT_UNRESOLVED"]
     ELSE IF first.code # "ok" THEN first
     ELSE IF second.code # "ok" THEN second
     ELSE third

\* auditTransitions: the gateway counts one anchor of each slot.
AuditTransitions == \A slot \in Slots : Cardinality(Search(slot)) = 1

\* verifierUpperBound: the time of the next block, or the live bound when that
\* block cannot be read.
VerifierUpperBound(entry, answered) ==
  IF answered /\ entry.height < Height THEN blocks[entry.height + 1]
  ELSE LiveUpperBound(entry.time)

\* verifyIdentity: the package is signed, by the agent's owner.
VerifyIdentity(role) ==
  LET party == descriptor[role]
      signature == Published(role).signature
  IN /\ signature.by = party
     /\ signature.over = SignaturePreimage(role, Published(role).transitions)
     /\ terms.owner[party] = party

----------------------------------------------------------------------------
\* runVerification.

\* What the reads of the second half can fail with.
AuditFailures == {"FAILED", "ANCHOR_UNVERIFIED"}

\* Everything up to the packages' comparison with the ledger.
ReadLive ==
  /\ verdict.pc = "idle"
  /\ \A role \in Roles : package[role].stage # "none"
  /\ \E how \in Hows :
       LET packages == [role \in Roles |-> PartyPackage(role)]
           read == LiveTransitions
           done(code) == [NoVerdict EXCEPT !.pc = "done", !.how = how, !.code = code]
       IN \/ Fault /\ \E code \in VerifyFailures : verdict' = done(code)
          \/ /\ NoFault
             /\ verdict' =
                  IF ~CommercialIntentPolicy \/ ~VerifiedEnvelope(descriptor) THEN done("FAILED")
                  ELSE IF packages["payer"] # "ok" THEN done(packages["payer"])
                  ELSE IF packages["payee"] # "ok" THEN done(packages["payee"])
                  ELSE IF read.code # "ok" THEN done(read.code)
                  ELSE IF IntentAtAnchor(read.live[1]) # "ok" THEN done(IntentAtAnchor(read.live[1]))
                  ELSE IF PackageMatches("payer", read.live) # "ok" THEN
                         done(PackageMatches("payer", read.live))
                  ELSE IF PackageMatches("payee", read.live) # "ok" THEN
                         done(PackageMatches("payee", read.live))
                  ELSE [NoVerdict EXCEPT !.pc = "audit", !.how = how, !.live = read.live]
  /\ UNCHANGED <<ledgerVars, directoryVars, terms, proc>>

\* createVerdict, or the rehearsal's result.
Emit ==
  IF verdict.how = "authorization"
  THEN IF terms.mandate.subjectRun = "stakeholder" THEN "AUTHORIZED"
       ELSE "REHEARSAL_NOT_AUTHORIZABLE"
  ELSE IF terms.mandate.subjectRun = "rehearsal" THEN "REHEARSAL_PASSED"
       ELSE "REHEARSAL_SUBJECT_MISMATCH"

\* The audit, the bounds and the identities.
Audit ==
  /\ verdict.pc = "audit"
  /\ \/ Fault /\ \E code \in AuditFailures : Conclude(code)
     \/ \E answered \in BOOLEAN :
          /\ IF answered THEN NoFault ELSE Fault
          /\ LET deadline == Deadline(verdict.live[1])
                 late == \E k \in 2..3 : ~IsWithinDeadline(
                           VerifierUpperBound(verdict.live[k], answered), deadline)
             IN Conclude(IF ~AuditTransitions THEN "DUPLICATE"
                         ELSE IF late THEN "EXPIRED"
                         ELSE IF ~(\A role \in Roles : VerifyIdentity(role)) THEN "FAILED"
                         ELSE Emit)
  /\ UNCHANGED <<ledgerVars, directoryVars, terms, proc>>

VerdictStep == ReadLive \/ Audit

=============================================================================
