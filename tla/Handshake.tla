----------------------------- MODULE Handshake -----------------------------
(***************************************************************************)
(* One bilateral session: the processes of the payer and of the payee, the  *)
(* ledger they meet on and the verifier of what they publish.                *)
(***************************************************************************)
EXTENDS Verdict

vars == <<ledgerVars, directoryVars, runnerVars, verdict>>

Init == LedgerInit /\ DirectoryInit /\ RunnerInit /\ VerdictInit

Next ==
  \/ LedgerStep /\ UNCHANGED <<directoryVars, runnerVars, verdict>>
  \/ \E p \in Processes : RunnerStep(p) /\ UNCHANGED verdict
  \/ \E p \in Processes : RunAgain(p) /\ UNCHANGED verdict
  \/ VerdictStep

Spec == Init /\ [][Next]_vars

----------------------------------------------------------------------------
TypeOK ==
  /\ LedgerTypes /\ DirectoryTypes
  /\ \A p \in Processes :
       /\ Len(proc[p].seen) <= 3 /\ proc[p].tries < MaxDispatches
       /\ At(p, "ended") <=> proc[p].code # "none"
  /\ faults <= terms.faults
  /\ verdict.pc \in {"idle", "audit", "done"}

\* Nothing reaches the ledger before the write-intent marker for it is durable:
\* whatever is anchored, or may still be, is named by the marker that a process
\* which is run again will find (createWriteIntentMarker before logAction).
WriteAhead ==
  \A write \in anchors \cup wire : marker[write.slot] = Written(write.digest)

\* A slot is anchored once, whichever kind of gateway there is.
OneAnchorPerSlot ==
  \A slot \in Slots :
    Cardinality(Search(slot)) + Cardinality({w \in wire : w.slot = slot}) <= 1

\* Two parties that both say LOCAL_OK are never contradicted by the verifier
\* about what was anchored: it may find the session late, or about another
\* amount, or fail to read, and nothing else.
Confirmable ==
  verdict.pc = "done" /\ (\A role \in Roles : IsComplete(role))
    => verdict.code \notin {"MISSING", "DUPLICATE", "REORDERED", "MALFORMED",
                            "BINDING_MISMATCH", "AMOUNT_UNRESOLVED"}

\* What an authorisation says is so: three transitions, each anchored once and
\* after the one before, that name one another; within the mandate, the request
\* and the deadline; of the mandate's amount; for the stakeholder's run only.
AuthorizedIsSound ==
  verdict.code = "AUTHORIZED" =>
    LET a == [k \in 1..3 |-> CHOOSE x \in Search(Kinds[k]) : TRUE]
    IN /\ \A k \in 1..3 : Cardinality(Search(Kinds[k])) = 1
       /\ a[1].height < a[2].height /\ a[2].height < a[3].height
       /\ \A k \in 2..3 : a[k].digest.predecessor[1].hash = a[k - 1].digest
       /\ blocks[a[3].height] <= blocks[a[1].height] + Expiry
       /\ a[3].digest.amount = terms.mandate.amount
       /\ blocks[a[1].height] < terms.request.until
       /\ terms.mandate.subjectRun = "stakeholder"
       /\ \A role \in Roles : IsComplete(role)

\* A result that is complete stays as it is, whoever runs the role again.
PackageIsFinal ==
  [][\A role \in Roles : IsComplete(role) => package'[role] = package[role]]_package

=============================================================================
