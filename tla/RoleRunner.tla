----------------------------- MODULE RoleRunner -----------------------------
(***************************************************************************)
(* The processes of the two roles (src/core/roles-core.mjs, over runner.mjs *)
(* and protocol.mjs): each verifies the identities, anchors its own          *)
(* transitions and waits for its peer's, and publishes what it has seen.     *)
(*                                                                         *)
(* A read of the service may fail as ClockchainClient says, a process may    *)
(* be killed between any two steps and run again, and a role may be run by   *)
(* two processes at once.                                                   *)
(***************************************************************************)
EXTENDS Ledger, OutputDirectory, ClockchainClient

CONSTANTS
  Processes,      \* the processes
  RoleOf,         \* the role each runs
  Terms,          \* bound: what a session may be about, the processes that run, and
                  \* how many calls fail and processes are killed
  MaxDispatches   \* MAX_WRITE_DISPATCH_ATTEMPTS

ASSUME RunnerAssumption ==
  /\ RoleOf \in [Processes -> Roles]
  /\ MaxDispatches \in Nat \ {0}
  /\ \A t \in Terms : t.processes \subseteq Processes /\ t.faults \in Nat

VARIABLES
  terms,       \* the signed descriptor, mandate and request, and the agents' owners
  proc,        \* what each process does next and what it knows
  faults

runnerVars == <<terms, proc, faults>>

descriptor == terms.descriptor

\* A process that does not run.
Idle == [pc |-> "idle", message |-> <<>>, seen |-> <<>>,
         last |-> "empty", tries |-> 0, code |-> "none"]

RunnerInit ==
  /\ terms \in Terms
  /\ proc = [p \in Processes |-> Idle]
  /\ faults = 0

At(p, pc) == proc[p].pc = pc
Message(p) == proc[p].message[1]
Slot(p) == Message(p).kind
Address(p) == descriptor[RoleOf[p]]

\* The process goes on at another point.
Goto(p, pc) == proc' = [proc EXCEPT ![p].pc = pc]

\* The role ends; what the process knew is gone.
Exit(p, code) == proc' = [proc EXCEPT ![p] = [Idle EXCEPT !.pc = "ended", !.code = code]]

\* failStateMachine: the role ends, with a terminal code.
Fail(p, code) == Exit(p, code)

\* Something goes wrong once more.
Fault == faults < terms.faults /\ faults' = faults + 1
NoFault == UNCHANGED faults

\* searchOnce and singleSearchRecord: what a failed read of this tool ends with.
SearchFailure(outcome) == IF outcome = "rate" THEN "RATE_BLOCKED" ELSE "FAILED"
AnchorFailure(outcome) == IF outcome = "rate" THEN "RATE_BLOCKED" ELSE "ANCHOR_UNVERIFIED"

\* What a transition's verification can end with when a read fails.
VerifyFailures ==
  {SearchFailure(o) : o \in ReadFailures("search_actions") \cup ReadFailures("resolve_agent")}
  \cup {AnchorFailure(o) : o \in ReadFailures("verify_cross_party") \cup ReadFailures("get_block")}

\* classifySearch: what a search that is answered says of a message.
ClassifySearch(message) ==
  LET found == Search(message.kind)
  IN IF found = {} THEN "absent"
     ELSE IF Cardinality(found) > 1 THEN "DUPLICATE"
     ELSE IF \E a \in found : a.digest # message THEN "BINDING_MISMATCH"
     ELSE "found"

\* The anchor of a message that was found.
AnchorOf(message) == CHOOSE a \in Search(message.kind) : TRUE

\* verifyTransition, freezeTransition and assertLater once every read succeeded.
Verification(message, seen) ==
  LET found == ClassifySearch(message)
      anchor == AnchorOf(message)
      entry == Entry(message, anchor, blocks[anchor.height])
  IN IF found = "absent" THEN "EXPIRED"
     ELSE IF found # "found" THEN found
     ELSE IF terms.owner[Author(message)] # Author(message) THEN "FAILED"
     ELSE IF seen # <<>> /\ ~IsWithinDeadline(LiveUpperBound(entry.time), Deadline(seen[1]))
            THEN "EXPIRED"
     ELSE IF seen # <<>> /\ seen[Len(seen)].height >= entry.height THEN "FAILED"
     ELSE "verified"

----------------------------------------------------------------------------
\* Starting.

\* verifyIdentityBindings.
IdentitiesMatch ==
  \A role \in Roles : terms.owner[descriptor[role]] = descriptor[role]

\* runPayerRole and runPayeeRole up to their first transition.
Start(p) ==
  /\ At(p, "idle") /\ p \in terms.processes
  /\ UNCHANGED <<ledgerVars, directoryVars, terms>>
  /\ \/ /\ Fault
        /\ Fail(p, "FAILED")
     \/ /\ NoFault
        /\ IF ~VerifiedEnvelope(descriptor) \/ ~IdentitiesMatch THEN Fail(p, "FAILED")
           ELSE IF RoleOf[p] = "payee" THEN Goto(p, "discover")
           ELSE \E amount \in terms.amounts :
                  IF amount \notin Offered(descriptor) THEN Fail(p, "AMOUNT_UNRESOLVED")
                  ELSE proc' = [proc EXCEPT ![p].pc = "inspect",
                                  ![p].message = <<BuildProposal(descriptor, amount)>>]

\* discoverProposal: one search for the payer's proposal.
Discover(p) ==
  /\ At(p, "discover")
  /\ UNCHANGED <<ledgerVars, directoryVars, terms>>
  /\ \/ /\ Fault
        /\ \E outcome \in ReadFailures("search_actions") :
             IF outcome \in {"rate", "network"}
             THEN proc' = [proc EXCEPT ![p].last = outcome]
             ELSE Fail(p, "FAILED")
     \/ /\ NoFault
        /\ LET found == Search("proposal")
               digest == (CHOOSE a \in found : TRUE).digest
           IN IF found = {} THEN proc' = [proc EXCEPT ![p].last = "empty"]
              ELSE IF Cardinality(found) > 1 THEN Fail(p, "DUPLICATE")
              ELSE IF ~IsRecoverable(descriptor, digest) THEN Fail(p, "AMOUNT_UNRESOLVED")
              ELSE proc' = [proc EXCEPT ![p].pc = "poll", ![p].message = <<digest>>,
                              ![p].last = "empty"]

\* The process is killed, or has failed, and is run again.
RunAgain(p) ==
  /\ ~At(p, "idle") /\ ~(At(p, "ended") /\ proc[p].code = "ok")
  /\ Fault
  /\ proc' = [proc EXCEPT ![p] = Idle]
  /\ UNCHANGED <<ledgerVars, directoryVars, terms>>

----------------------------------------------------------------------------
\* writeOrAdoptTransition.

Inspect(p) ==
  /\ At(p, "inspect")
  /\ LET m == InspectMarker(Message(p))
     IN CASE m = "absent" -> Goto(p, "search")
          [] m = "mine" -> Goto(p, "adopt")
          [] m = "other" -> Fail(p, "BINDING_MISMATCH")
          [] OTHER -> Fail(p, "FAILED")
  /\ UNCHANGED <<ledgerVars, directoryVars, terms, faults>>

\* searchOnce before the write ("search"), when a marker is there already
\* ("adopt"), and between two attempts to write ("reconcile").
SearchOnce(p) ==
  /\ \E pc \in {"search", "adopt", "reconcile"} : At(p, pc)
  /\ UNCHANGED <<ledgerVars, directoryVars, terms>>
  /\ \/ /\ Fault
        /\ \E outcome \in ReadFailures("search_actions") :
             Fail(p, IF At(p, "reconcile") THEN "AMBIGUOUS_WRITE" ELSE SearchFailure(outcome))
     \/ /\ NoFault
        /\ LET found == ClassifySearch(Message(p))
           IN IF found = "found" THEN Goto(p, "verify")
              ELSE IF found # "absent" THEN
                     Fail(p, IF At(p, "reconcile") THEN "AMBIGUOUS_WRITE" ELSE found)
              ELSE IF At(p, "search") THEN Goto(p, "create")
              ELSE IF At(p, "reconcile") THEN Goto(p, "dispatch")
              \* pendingOutcome has no transition, which the role cannot go on with.
              ELSE Fail(p, "FAILED")

\* A faulty variant: the write is sent before the marker is synced.
CreateUnsynced(p) ==
  /\ At(p, "create")
  /\ \/ OpenMarker(Slot(p)) /\ Goto(p, "dispatch")
     \/ marker[Slot(p)] # Absent /\ Goto(p, "adopt") /\ UNCHANGED directoryVars
  /\ UNCHANGED <<ledgerVars, terms, faults>>

\* createWriteIntentMarker, up to the open that may find another's marker.
CreateWriteIntentMarker(p) ==
  /\ At(p, "create")
  /\ \/ OpenMarker(Slot(p)) /\ Goto(p, "fill")
     \/ marker[Slot(p)] # Absent /\ Goto(p, "adopt") /\ UNCHANGED directoryVars
  /\ UNCHANGED <<ledgerVars, terms, faults>>

SyncMarker(p) ==
  /\ At(p, "fill")
  /\ FillMarker(Message(p))
  /\ Goto(p, "dispatch")
  /\ UNCHANGED <<ledgerVars, terms, faults>>

\* What the gateway may do with the requests of one call.
Received(write, sent) ==
  \/ sent = 0 /\ UNCHANGED ledgerVars
  \/ sent > 0 /\ (LogNow(write) \/ LogLater(write) \/ UNCHANGED ledgerVars)

\* A faulty variant: sends the write again without a search.
UnansweredBlindly(p) ==
  IF proc[p].tries + 1 >= MaxDispatches THEN Fail(p, "AMBIGUOUS_WRITE")
  ELSE proc' = [proc EXCEPT ![p].tries = @ + 1]

\* What the runner does with a write that was not answered.
Unanswered(p) ==
  IF proc[p].tries + 1 >= MaxDispatches THEN Fail(p, "AMBIGUOUS_WRITE")
  ELSE proc' = [proc EXCEPT ![p].pc = "reconcile", ![p].tries = @ + 1]

\* One call of log_action: answered with a height, answered without one since it
\* is anchored later, or not answered.
Dispatch(p) ==
  LET write == [slot |-> Slot(p), digest |-> Message(p)]
  IN /\ At(p, "dispatch")
     /\ UNCHANGED <<directoryVars, terms>>
     /\ \E call \in WriteCalls :
          IF call.outcome = "ok"
          THEN \/ NoFault /\ LogNow(write) /\ Goto(p, "verify")
               \/ Fault /\ LogLater(write) /\ Fail(p, "AMBIGUOUS_WRITE")
          ELSE \/ Fault /\ Received(write, call.sent) /\ Unanswered(p)
               \* A ledger at its bound takes nothing.
               \/ Height = MaxBlocks /\ NoFault /\ UNCHANGED ledgerVars /\ Unanswered(p)

----------------------------------------------------------------------------
\* pollForTransition.

\* pollingSearch: one search for the peer's transition.
Poll(p) ==
  /\ At(p, "poll")
  /\ UNCHANGED <<ledgerVars, directoryVars, terms>>
  /\ \/ /\ Fault
        /\ \E outcome \in ReadFailures("search_actions") :
             IF outcome \in {"rate", "network"}
             THEN proc' = [proc EXCEPT ![p].last = outcome]
             ELSE Fail(p, "FAILED")
     \/ /\ NoFault
        /\ LET found == ClassifySearch(Message(p))
           IN CASE found = "absent" -> proc' = [proc EXCEPT ![p].last = "empty"]
                [] found = "found" -> proc' = [proc EXCEPT ![p].pc = "verify", ![p].last = "empty"]
                [] OTHER -> Fail(p, found)

\* May the role go on without this transition: the payee, without the acknowledgment.
MayDoWithout(p) == RoleOf[p] = "payee" /\ Len(proc[p].seen) = 2

\* What ends the poll of a role: a transition that comes too late is no failure
\* of a role that may do without it.
PollFails(p, code) ==
  IF code = "EXPIRED" /\ MayDoWithout(p) THEN Goto(p, "sign") ELSE Fail(p, code)

\* terminalForPollObservation: the poll's duration is over.
PollEnds(p) ==
  /\ At(p, "poll") \/ At(p, "discover")
  /\ PollFails(p, CASE proc[p].last = "rate" -> "RATE_BLOCKED"
                    [] proc[p].last = "network" -> "FAILED"
                    [] OTHER -> "EXPIRED")
  /\ UNCHANGED <<ledgerVars, directoryVars, terms, faults>>

\* Is this process the one that writes the transition.
Writes(role, n) == IF role = "payer" THEN n \in {1, 3} ELSE n = 2

\* The role goes on to its next transition, or to its result.
Proceed(p, seen) ==
  proc' = [proc EXCEPT
    ![p].seen = seen, ![p].tries = 0, ![p].last = "empty",
    ![p].message = IF Len(seen) = 3 THEN @ ELSE <<Following(seen)>>,
    ![p].pc = IF Len(seen) = 3 THEN "sign"
              ELSE IF ~Writes(RoleOf[p], Len(seen) + 1) THEN "poll"
              ELSE IF RoleOf[p] = "payee" THEN "decide" ELSE "inspect"]

\* verifiedOutcome.
Verify(p) ==
  LET seen == proc[p].seen
      result == Verification(Message(p), seen)
      anchor == AnchorOf(Message(p))
  IN /\ At(p, "verify")
     /\ UNCHANGED <<ledgerVars, directoryVars, terms>>
     /\ \/ Fault /\ \E code \in VerifyFailures : Fail(p, code)
        \/ /\ NoFault
           /\ IF result = "verified"
              THEN Proceed(p, Append(seen, Entry(Message(p), anchor, blocks[anchor.height])))
              ELSE IF Writes(RoleOf[p], Len(seen) + 1) THEN Fail(p, result)
              ELSE PollFails(p, result)

\* The payee looks at its clock and at the proposal, and may decline.
Decide(p) ==
  /\ At(p, "decide")
  /\ \/ /\ blocks[Height] <= Deadline(proc[p].seen[1])
        /\ Goto(p, "inspect")
     \/ /\ blocks[Height] + 1 > Deadline(proc[p].seen[1])
        /\ Fail(p, "EXPIRED")
     \/ Fail(p, "FAILED")
  /\ UNCHANGED <<ledgerVars, directoryVars, terms, faults>>

----------------------------------------------------------------------------
\* publishPartyEvidence and writePartyResult.

Result(p) == PartyResult(RoleOf[p], proc[p].seen, Address(p))

\* signatureFor and the checks before anything is linked.
Sign(p) ==
  /\ At(p, "sign")
  /\ IF ValidPartyResult(Result(p)) /\ NothingPublished(RoleOf[p])
     THEN Goto(p, "json")
     ELSE Fail(p, "FAILED")
  /\ UNCHANGED <<ledgerVars, directoryVars, terms, faults>>

\* One step of the publication, which fails on a name that exists.
Link(p, pc, then, step) ==
  /\ At(p, pc)
  /\ \/ step /\ Goto(p, then)
     \/ package[RoleOf[p]].stage # (CASE pc = "json" -> "none" [] pc = "markdown" -> "json"
                                      [] OTHER -> "both")
        /\ Fail(p, "FAILED") /\ UNCHANGED directoryVars
  /\ UNCHANGED <<ledgerVars, terms, faults>>

\* writePartyResult.
WritePartyResult(p) ==
  \/ Link(p, "json", "markdown", LinkJson(RoleOf[p], Result(p)))
  \/ Link(p, "markdown", "marker", LinkMarkdown(RoleOf[p]))
  \/ /\ At(p, "marker")
     /\ Complete(RoleOf[p])
     /\ Exit(p, "ok")
     /\ UNCHANGED <<ledgerVars, terms, faults>>

RunnerStep(p) ==
  \/ Start(p) \/ Discover(p)
  \/ Inspect(p) \/ SearchOnce(p) \/ CreateWriteIntentMarker(p) \/ SyncMarker(p) \/ Dispatch(p)
  \/ Poll(p) \/ PollEnds(p) \/ Verify(p) \/ Decide(p)
  \/ Sign(p) \/ WritePartyResult(p)

=============================================================================
