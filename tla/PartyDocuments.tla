--------------------------- MODULE PartyDocuments ---------------------------
(***************************************************************************)
(* The documents of one bilateral session: the signed descriptor, the       *)
(* three transitions that each name their predecessor's anchor, the block    *)
(* time arithmetic and the result either party publishes                     *)
(* (src/core/descriptor.mjs, messages.mjs, blocktime.mjs, evidence.mjs).     *)
(*                                                                         *)
(* A digest is the document it is taken of: two digests are equal when the   *)
(* documents are.  There is one session, so its digest is left out.          *)
(***************************************************************************)
EXTENDS Integers, Sequences, FiniteSets

CONSTANTS
  Expiry,   \* EXPIRY_WINDOW_MS
  Slack     \* LIVE_UPPER_BOUND_SLACK_MS

ASSUME DocumentsAssumption == Expiry \in Nat /\ Slack \in Nat

----------------------------------------------------------------------------
\* The descriptor.

\* validateAmountOptions: in strictly increasing order, so no amount twice.
ValidAmountOptions(options) ==
  options # <<>> /\ \A i \in 2..Len(options) : options[i - 1] < options[i]

\* validateDescriptorSnapshot.
ValidDescriptor(d) == d.payer # d.payee /\ ValidAmountOptions(d.options)

\* verifyDescriptorEnvelope: signed with the key the repository publishes.
VerifiedEnvelope(d) == ValidDescriptor(d) /\ d.signedBy = "repository"

Offered(d) == {d.options[i] : i \in DOMAIN d.options}

----------------------------------------------------------------------------
\* Transitions.

Kinds == <<"proposal", "acceptance", "acknowledgment">>
Slots == {Kinds[k] : k \in 1..3}

\* authoritativeTriple: what one transition says of another's anchor.
Triple(entry) ==
  [kind |-> entry.message.kind, id |-> entry.id, height |-> entry.height,
   hash |-> entry.message]

\* validateAmount: one of the currencies' amounts, never moved.
ValidAmount(amount) == amount \in Nat \ {0}

\* frozenHead: what a transition has in common with its predecessor.
HeadOf(m) == [amount |-> m.amount, payer |-> m.payer, payee |-> m.payee]

Transition(kind, head, predecessor, proposal) ==
  [kind |-> kind, amount |-> head.amount, payer |-> head.payer, payee |-> head.payee,
   predecessor |-> predecessor, proposal |-> proposal]

\* buildProposal.
BuildProposal(d, amount) == 
  Transition("proposal", [amount |-> amount, payer |-> d.payer, payee |-> d.payee], <<>>, <<>>)

\* buildAcceptance.
BuildAcceptance(proposal) ==
  Transition("acceptance", HeadOf(proposal.message), <<Triple(proposal)>>, <<>>)

\* buildAcknowledgment.
BuildAcknowledgment(acceptance, proposal) ==
  Transition("acknowledgment", HeadOf(acceptance.message), <<Triple(acceptance)>>,
             <<Triple(proposal)>>)

\* The transition that follows those verified so far.
Following(seen) ==
  IF Len(seen) = 1 THEN BuildAcceptance(seen[1]) ELSE BuildAcknowledgment(seen[2], seen[1])

\* validateTripleSnapshot.
ValidTriple(t, kind) == Len(t) = 1 /\ t[1].kind = kind

\* validateTransitionSnapshot.
ValidTransition(m) ==
  /\ m.payer # m.payee /\ ValidAmount(m.amount)
  /\ \/ m.kind = "proposal" /\ m.predecessor = <<>>
     \/ m.kind = "acceptance" /\ ValidTriple(m.predecessor, "proposal")
     \/ /\ m.kind = "acknowledgment"
        /\ ValidTriple(m.predecessor, "acceptance") /\ ValidTriple(m.proposal, "proposal")

\* Who signs a transition.
Author(m) == IF m.kind = "acceptance" THEN m.payee ELSE m.payer

\* recoverProposalByDigest: the options whose proposal has this digest.
ProposalMatches(d, digest) ==
  {i \in DOMAIN d.options : BuildProposal(d, d.options[i]) = digest}

\* selectUniqueProposalMatch.
IsRecoverable(d, digest) == Cardinality(ProposalMatches(d, digest)) = 1

----------------------------------------------------------------------------
\* Block time.

\* deadlineMs: of a proposal's block time.
Deadline(proposal) == proposal.time + Expiry

\* liveUpperBoundMs.
LiveUpperBound(time) == time + Slack

\* isWithinDeadline.
IsWithinDeadline(upper, deadline) == upper <= deadline

----------------------------------------------------------------------------
\* Party results.

\* freezeTransition: a verified transition as a party keeps it.
Entry(message, anchor, time) ==
  [message |-> message, id |-> anchor.id, height |-> anchor.height, time |-> time]

\* The entry's part of validateTransitionEntries that looks at its predecessor.
Succeeds(previous, entry) ==
  /\ previous.height < entry.height /\ previous.time < entry.time
  /\ previous.id # entry.id
  /\ HeadOf(previous.message) = HeadOf(entry.message)
  /\ entry.message.predecessor = <<Triple(previous)>>

\* validateTransitionEntries.
ValidTransitionEntries(ts) ==
  /\ \A k \in DOMAIN ts : ts[k].message.kind = Kinds[k] /\ ValidTransition(ts[k].message)
  /\ \A k \in 2..Len(ts) :
       /\ Succeeds(ts[k - 1], ts[k])
       /\ IsWithinDeadline(LiveUpperBound(ts[k].time), Deadline(ts[1]))
  /\ Len(ts) = 3 => ts[3].message.proposal = <<Triple(ts[1])>>

\* buildPartySignaturePreimage: the messages the party wrote itself.
SignaturePreimage(role, ts) ==
  [role |-> role,
   messages |-> IF role = "payer" THEN <<ts[1].message, ts[3].message>>
                ELSE <<ts[2].message>>]

\* evidenceResult, with the signature of signatureFor.
PartyResult(role, ts, address) ==
  [role |-> role, transitions |-> ts, ackObserved |-> Len(ts) = 3,
   signature |-> [by |-> address, over |-> SignaturePreimage(role, ts)]]

\* What a party may publish as LOCAL_OK.
EnoughTransitions(role, n) == n \in (IF role = "payer" THEN {3} ELSE {2, 3})

\* validatePartyResultSnapshot.
ValidPartyResult(r) ==
  /\ EnoughTransitions(r.role, Len(r.transitions))
  /\ ValidTransitionEntries(r.transitions)
  /\ r.ackObserved <=> Len(r.transitions) = 3
  /\ r.signature.by = r.transitions[1].message[r.role]

=============================================================================
