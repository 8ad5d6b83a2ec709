---------------------------- MODULE HostSession ----------------------------
(***************************************************************************)
(* One hosted session of the v2 agent handshake: the host's runner            *)
(* (src/agent-handshake/v2/host.mjs) over its ports                          *)
(* (src/agent-handshake/v2/production-adapter.mjs), from the opening of the    *)
(* session to its certificate, or to the failure both parties hear of.        *)
(*                                                                         *)
(* Time passes between any two steps.  Everything the host sends is tried     *)
(* again until its stop time, may be taken without an answer, and may be      *)
(* refused; every read may fail.  Two clients may speak for one role.         *)
(***************************************************************************)
EXTENDS HostFunding, HostMonitor

CONSTANTS
  Keys,          \* role -> the keys that sign for it, the party's own first
  Extra,         \* kinds of message a role's second client posts
  Settings,      \* <<binding mode, identityPolicy.erc8004>> of the sessions
  ClaimWindow,   \* from the minting of an invitation to the end of its claims
  ValidFor,      \* validForSeconds of an agreement
  Budget,        \* retry budget of a snapshot and of the result
  MaxAhead,      \* bound: messages of the parties the host has not gone on with
  MaxExtra,      \* bound: messages of second clients
  MaxFaults      \* bound: calls that fail, are refused or lose their answer

\* What a party posts; the coordinator posts the enrollments.
Kinds == {"created", "claimed", "identity", "ready", "proposal", "acceptance", "anchors",
          "evidence"}

ASSUME HostAssumption ==
  /\ \A role \in Roles : 1 \in DOMAIN Keys[role]
  /\ Extra \subseteq Kinds \cup {"enrollment"}
  /\ ClaimWindow \in Nat \ {0} /\ ValidFor \in Nat \ {0} /\ Budget \in Nat \ {0}
  /\ MaxAhead \in Nat /\ MaxExtra \in Nat /\ MaxFaults \in Nat
  /\ Settings \subseteq {"off", "observe", "enforce"}
                   \X {"not_required", "required_fresh", "required_existing_or_fresh"}

VARIABLES
  host,      \* the runner: its step, what it waits for, what it is reporting
  policy,    \* identityPolicy of the session's terms
  invitation,\* the coordinator's: when it ends and when it was redeemed (-1 before)
  posted,    \* <<kind, role>> the parties have posted
  extra,     \* messages of second clients so far
  relay,     \* what the host's calls left there: notices, descriptor, result
  faults,
  trouble    \* what went wrong between the host and the relay

envVars == <<policy, invitation, posted, extra>>
outVars == <<relay, faults, trouble>>
vars == <<now, mode, inboxVars, fundingVars, monitorVars, host, envVars, outVars>>

----------------------------------------------------------------------------
\* The steps of a session, in order.  A step that is fresh reads the clock first.

Step(phase, op, arg, role, isFresh) ==
  [phase |-> phase, op |-> op, arg |-> arg, role |-> role, isFresh |-> isFresh]

Show(phase, arg, isFresh) == Step(phase, "show", arg, "host", isFresh)
Await(phase, kind, role) == Step(phase, "await", kind, role, FALSE)
Ask(phase, arg, isFresh) == Step(phase, "ask", arg, "host", isFresh)

\* loadAgentHandshakeV2Session, runAgentHandshakeV2HostSession and
\* prepareAgentHandshakeV2Identities.
Script == <<
  Ask("open", "block", FALSE), Step("open", "create", "session", "host", FALSE),
  Show("start", "start", FALSE),
  Await("claim", "claimed", "responder"), Show("claim", "claimed", FALSE),
  Await("prepare", "identity", "initiator"), Show("prepare", "identity", FALSE),
  Await("prepare", "identity", "responder"), Show("prepare", "identity", FALSE),
  Ask("prepare", "existing", FALSE), Ask("prepare", "reserve", TRUE),
  Step("prepare", "fund", "transaction", "initiator", TRUE),
  Step("prepare", "record", "funding", "initiator", FALSE),
  Step("prepare", "fund", "transaction", "responder", TRUE),
  Step("prepare", "record", "funding", "responder", FALSE),
  Await("prepare", "ready", "initiator"), Await("prepare", "ready", "responder"),
  Ask("prepare", "registrations", FALSE), Show("agree", "parties", TRUE),
  Await("agree", "proposal", "initiator"), Show("agree", "proposal", TRUE),
  Await("agree", "acceptance", "responder"), Show("agree", "acceptance", TRUE),
  Step("agree", "record", "descriptor", "host", TRUE),
  Await("agree", "anchors", "initiator"), Show("agree", "anchors", TRUE),
  Await("agree", "evidence", "initiator"), Show("agree", "evidence", TRUE),
  Await("agree", "evidence", "responder"), Show("agree", "evidence", TRUE),
  Show("agree", "verifying", TRUE), Ask("verdict", "verdict", TRUE),
  Step("agree", "publish", "result", "host", TRUE), Show("agree", "issued", FALSE) >>

\* The step the runner is at.
Doing == Script[host.pc]

\* prepareAgentHandshakeV2Identities passes over what its policy does not ask for.
Skipped ==
  \/ Doing.arg = "existing" /\ policy # "required_existing_or_fresh"
  \/ Doing.arg = "reserve" /\ seats = {}
  \/ Doing.arg \in {"transaction", "funding"} /\ Doing.role \notin seats
  \/ Doing.arg = "registrations" /\ policy = "not_required"

----------------------------------------------------------------------------
\* The clock against the stops (H-REQ-07); 0 stands for an expiry not yet known.

Bounded(expiry) == IF expiry = 0 THEN Deadline ELSE Min({Deadline, expiry})

\* lapsed: the deadline, the key's validity and the verified agreement.
Lapsed == now >= Bounded(host.agreement)

\* protocolStopMs: the ports know the agreement from the descriptor on.
ProtocolStop == Bounded(host.learned)

\* The stop time of a snapshot and of the result.
BudgetStop == Min({Deadline, now + Budget})

Init ==
  /\ \E setting \in Settings : mode = setting[1] /\ policy = setting[2]
  /\ InboxInit /\ FundingInit /\ MonitorInit
  /\ host = [pc |-> 1, at |-> "ready", until |-> 0, why |-> "none", strict |-> FALSE,
             next |-> "none", notified |-> FALSE, agreement |-> 0, learned |-> 0]
  /\ seats = IF policy = "required_fresh" THEN Roles ELSE {}
  /\ invitation = [exp |-> 0, at |-> -1]
  /\ posted = {} /\ extra = 0
  /\ relay = [notices |-> {}, descriptor |-> FALSE, result |-> FALSE]
  /\ faults = 0 /\ trouble = {}

Fault == faults < MaxFaults /\ faults' = faults + 1

----------------------------------------------------------------------------
\* Where the runner goes.  Each operator gives the next host and monitor.

Advance ==
  host' = IF host.pc = Len(Script) THEN [host EXCEPT !.at = "stopped"]
          ELSE [host EXCEPT !.pc = @ + 1, !.at = "ready", !.until = 0]

Stop(code) == host' = [host EXCEPT !.at = "stopped", !.why = code]

\* ports.failed, then notifySessionFailed; a strict one is not caught.
Tell(code, isStrict) ==
  /\ host' = [host EXCEPT !.at = "failed", !.why = code, !.until = BudgetStop,
                          !.strict = isStrict, !.next = "none"]
  /\ DraftFailure(code)

\* notifySessionFailed: at most once in a session, whatever becomes of it.
Notify(code, next) ==
  host' = IF host.notified THEN [host EXCEPT !.at = "stopped"]
          ELSE [host EXCEPT !.at = "notify", !.why = code, !.until = Deadline,
                            !.next = next, !.notified = TRUE]

\* How an error of a step ends the session, by the phase it is thrown in.
Throw(code) ==
  CASE Doing.phase = "claim" /\ code \in {"invitation_expired", "binding_invalid"} ->
         Tell(code, FALSE)
    [] Doing.phase = "prepare" ->
         Tell(IF Doing.arg \in {"reserve", "transaction", "funding"}
              THEN "funding_unavailable" ELSE "preparation_failed", FALSE)
    [] Doing.phase = "verdict" -> Tell("verdict_invalid", TRUE)
    [] OTHER -> Stop(code) /\ UNCHANGED monitorVars

\* A faulty variant: the runner tells what the port has published.
ThrowPublished(code) ==
  IF Doing.phase = "prepare" THEN Tell("preparation_failed", FALSE)
  ELSE Stop(code) /\ UNCHANGED monitorVars

\* alreadyPublished: the runner rethrows what the port has published.
AfterPublished(code) == Stop(code) /\ UNCHANGED monitorVars

----------------------------------------------------------------------------
Ready(op) ==
  host.at = "ready" /\ Doing.op = op /\ ~Skipped /\ ~(Doing.isFresh /\ Lapsed)

In(op) == host.at = "call" /\ Doing.op = op

Call(stop) == host' = [host EXCEPT !.at = "call", !.until = stop]

Skip ==
  /\ host.at = "ready" /\ Skipped
  /\ Advance /\ UNCHANGED monitorVars
  /\ UNCHANGED <<now, mode, inboxVars, fundingVars, envVars, outVars>>

\* fresh: a lapse is told, strictly, under its own name.
Lapse ==
  /\ host.at = "ready" /\ ~Skipped /\ Doing.isFresh /\ Lapsed
  /\ Tell("lapsed", TRUE)
  /\ UNCHANGED <<now, mode, inboxVars, fundingVars, envVars, outVars>>

\* An answer the host waits for, from the chain, the budget or the verdict.  What
\* "existing" answers is whose identity has still to be made.
AskReturns ==
  /\ Ready("ask")
  /\ Advance
  /\ seats' \in IF Doing.arg = "existing" THEN SUBSET Roles ELSE {seats}
  /\ reserved' = (reserved \/ Doing.arg = "reserve")
  /\ UNCHANGED <<now, mode, inboxVars, work, aborted, broadcasts, monitorVars,
                 envVars, outVars>>

\* The answer fails, or says that what was verified is not so.
AskFails ==
  /\ Ready("ask") /\ Fault
  /\ Throw("invalid")
  /\ UNCHANGED <<now, mode, inboxVars, fundingVars, envVars, relay, trouble>>

----------------------------------------------------------------------------
\* The waits for a party's message.

\* verifyAgentHandshakeV2Proposal: inside the agreement it proposes, at this clock.
InAgreement(m) == now \in m.at .. m.exp - 1

\* verifyAgentHandshakeV2Acceptance: of the proposal, verified again at this clock.
StillAgreed == now < host.agreement

\* awaitInvitationClaimed: a claim inside the minted window, which is the enrollment's
\* when that is enforced.
Claim(m) ==
  LET redeemed == bound'["responder"][1]
      window == IF mode = "enforce" THEN Min({redeemed.exp, Deadline})
                ELSE IF minted' # 0 THEN minted' ELSE InvitationEnd
  IN IF mode = "enforce" /\ m.at # redeemed.at THEN Throw("binding_invalid")
     ELSE IF m.at >= window THEN Throw("invitation_expired")
     ELSE Advance /\ UNCHANGED monitorVars

\* A message that was waited for is verified, and the host goes on.
Accept(m) ==
  CASE m.kind = "claimed" -> Claim(m)
    [] m.kind = "proposal" /\ InAgreement(m) ->
         /\ host' = [host EXCEPT !.pc = @ + 1, !.at = "ready", !.until = 0,
                                 !.agreement = m.exp]
         /\ UNCHANGED monitorVars
    [] (m.kind = "proposal" /\ ~InAgreement(m)) \/ (m.kind = "acceptance" /\ ~StillAgreed) ->
         Throw("invalid")
    [] OTHER -> Advance /\ UNCHANGED monitorVars

\* A wait goes on with what it has read: waitForMessage and the port around it.
GoOn(w, rest) ==
  /\ Keep(w, rest)
  /\ IF w.fatal THEN Throw("binding_invalid")
     ELSE IF w.got # <<>> THEN Accept(w.got[1])
     ELSE Call(w.until) /\ UNCHANGED monitorVars
  /\ UNCHANGED <<now, mode, fundingVars, envVars, outVars>>

\* What earlier waits put aside is considered first.
BeginAwait ==
  /\ Ready("await")
  /\ LET stop == IF Doing.arg = "claimed" THEN InvitationEnd ELSE Deadline
     IN GoOn(ConsiderAll(Wait(Doing.arg, Doing.role, stop), deferred), unread)

\* A poll answers with everything past the cursor.
Poll ==
  /\ In("await") /\ now < host.until /\ unread # <<>>
  /\ LET w == [Wait(Doing.arg, Doing.role, host.until) EXCEPT !.deferred = deferred]
     IN GoOn(ConsiderAll(w, unread), <<>>)

\* SessionEnded: an invitation that was minted and not claimed has expired.
AwaitExpires ==
  /\ In("await") /\ now >= host.until
  /\ Throw(IF Doing.arg = "claimed" /\ minted # 0 THEN "invitation_expired" ELSE "ended")
  /\ UNCHANGED <<now, mode, inboxVars, fundingVars, envVars, outVars>>

\* A poll fails, or what was awaited does not verify.
AwaitFails ==
  /\ In("await") /\ Fault
  /\ Throw("invalid")
  /\ UNCHANGED <<now, mode, inboxVars, fundingVars, envVars, relay, trouble>>

----------------------------------------------------------------------------
\* Calls to the relay.  retryBeforeStop tries until the stop time.

BeginShow ==
  /\ Ready("show")
  /\ DraftStep(Doing.arg = "issued") /\ Call(BudgetStop)
  /\ UNCHANGED <<now, mode, inboxVars, fundingVars, envVars, outVars>>

\* loadAgentHandshakeV2Session: not once the invitation window has closed.
BeginCreate ==
  /\ Ready("create")
  /\ IF now < InvitationEnd THEN Call(InvitationEnd) /\ UNCHANGED monitorVars
     ELSE Stop("ended") /\ UNCHANGED monitorVars
  /\ UNCHANGED <<now, mode, inboxVars, fundingVars, envVars, outVars>>

\* publishDescriptor and the funding record: a protocol message.
BeginRecord ==
  /\ Ready("record") /\ UNCHANGED monitorVars
  /\ LET known == IF Doing.arg = "descriptor" THEN host.agreement ELSE host.learned
     IN host' = [host EXCEPT !.at = "call", !.learned = known, !.until = Bounded(known)]
  /\ UNCHANGED <<now, mode, inboxVars, fundingVars, envVars, outVars>>

\* publishResult, of a certificate issued at a fresh read.
BeginPublish ==
  /\ Ready("publish") /\ UNCHANGED monitorVars
  /\ Call(BudgetStop)
  /\ UNCHANGED <<now, mode, inboxVars, fundingVars, envVars, outVars>>

Showing == In("show") \/ host.at \in {"failed", "rejected"}
Sending == In("create") \/ In("record") \/ In("publish") \/ host.at = "notify"

\* What the relay has when it has taken the call.
Taken ==
  relay' = IF host.at = "notify" THEN [relay EXCEPT !.notices = @ \cup {host.why}]
           ELSE IF Doing.arg = "descriptor" THEN [relay EXCEPT !.descriptor = TRUE]
           ELSE IF Doing.arg = "result" THEN [relay EXCEPT !.result = TRUE]
           ELSE relay

\* The notice is over, sent or not.  A failure the snapshot of which was refused goes
\* on to its own notice; any other is rethrown.
Notified ==
  IF host.next # "none" THEN Notify(host.next, "none") /\ UNCHANGED monitorVars
  ELSE AfterPublished(host.why)

ShowAnswered ==
  /\ Showing /\ now < host.until
  /\ Confirmed
  /\ IF host.at = "call" THEN Advance ELSE Notify(host.why, host.next)
  /\ UNCHANGED <<now, mode, inboxVars, fundingVars, envVars, outVars>>

\* The relay refuses a snapshot: handleSnapshotRejection publishes that failure and
\* tells the parties; a refusal of that snapshot is only logged.
ShowRefused ==
  /\ Showing /\ now < host.until /\ Fault
  /\ trouble' = trouble \cup {"refused"}
  /\ LET code == "snapshot_rejected"
         next == IF host.at = "failed" /\ ~host.strict THEN host.why ELSE host.next
     IN IF host.at = "rejected" \/ accepted = <<>>
        THEN Notify(code, next) /\ UNCHANGED monitorVars
        ELSE /\ host' = [host EXCEPT !.at = "rejected", !.why = code, !.next = next,
                                     !.until = BudgetStop]
             /\ DraftFailureAfterRejection(code)
  /\ UNCHANGED <<now, mode, inboxVars, fundingVars, envVars, relay>>

\* The relay has the snapshot, and the host does not know.
ShowUnanswered ==
  /\ Showing /\ now < host.until /\ Fault
  /\ Unanswered
  /\ trouble' = trouble \cup {"lost"}
  /\ UNCHANGED <<now, mode, inboxVars, fundingVars, envVars, host, relay>>

\* RENDEZVOUS_UNAVAILABLE.
ShowGivesUp ==
  /\ Showing /\ now >= host.until
  /\ CASE host.at = "call" -> Throw("unavailable")
       [] host.at = "failed" /\ host.strict -> Stop("unavailable") /\ UNCHANGED monitorVars
       [] OTHER -> Notify(host.why, host.next) /\ UNCHANGED monitorVars
  /\ trouble' = trouble \cup {"unavailable"}
  /\ UNCHANGED <<now, mode, inboxVars, fundingVars, envVars, relay, faults>>

SendAnswered ==
  /\ Sending /\ now < host.until
  /\ Taken
  /\ IF host.at = "notify" THEN Notified ELSE Advance /\ UNCHANGED monitorVars
  /\ UNCHANGED <<now, mode, inboxVars, fundingVars, envVars, faults, trouble>>

SendUnanswered ==
  /\ Sending /\ now < host.until /\ Fault
  /\ Taken
  /\ trouble' = trouble \cup {"lost"}
  /\ UNCHANGED <<now, mode, inboxVars, fundingVars, envVars, monitorVars, host>>

\* The stop time has come, or the relay refuses: a notice is only logged.
SendGivesUp ==
  /\ Sending
  /\ \/ now >= host.until /\ UNCHANGED faults
     \/ now < host.until /\ Fault
  /\ IF host.at = "notify" THEN Notified ELSE Throw("unavailable")
  /\ trouble' = trouble \cup {"unavailable"}
  /\ UNCHANGED <<now, mode, inboxVars, fundingVars, envVars, relay>>

----------------------------------------------------------------------------
\* fundIdentity.

BeginFund ==
  /\ Ready("fund")
  /\ BeginFunding(Doing.role, ProtocolStop) /\ Call(ProtocolStop)
  /\ UNCHANGED <<now, mode, inboxVars, monitorVars, envVars, outVars>>

\* The work of the step, which nothing but the clock and the abort stops.
FundWork ==
  /\ \E r \in Roles :
       \/ (Prepare(r, ProtocolStop) \/ DropUnsent(r, ProtocolStop) \/ Receipt(r)
            \/ Broadcast(r, ProtocolStop, TRUE)) /\ UNCHANGED faults
       \/ (Broadcast(r, ProtocolStop, FALSE) \/ WorkFails(r)) /\ Fault
  /\ UNCHANGED <<now, mode, inboxVars, monitorVars, host, envVars, relay, trouble>>

\* A faulty variant: a step without its timer.
FundSettlesAlone ==
  /\ In("fund")
  /\ \/ /\ work[Doing.role] = "funded" /\ UNCHANGED fundingVars
        /\ Advance /\ UNCHANGED monitorVars
     \/ work[Doing.role] = "dropped" /\ UNCHANGED fundingVars /\ Throw("unavailable")
  /\ UNCHANGED <<now, mode, inboxVars, envVars, outVars>>

\* The step is over: it settled, or its timer did.
FundSettles ==
  /\ In("fund")
  /\ \/ /\ work[Doing.role] = "funded" /\ UNCHANGED fundingVars
        /\ Advance /\ UNCHANGED monitorVars
     \/ work[Doing.role] = "dropped" /\ UNCHANGED fundingVars /\ Throw("unavailable")
     \/ Abort(Doing.role, ProtocolStop) /\ Throw("unavailable")
  /\ UNCHANGED <<now, mode, inboxVars, envVars, outVars>>

----------------------------------------------------------------------------
\* What goes on around the host.

\* Time passes, until the host has stopped and so has the work it started.
Tick ==
  /\ now < Deadline /\ now' = now + 1
  /\ host.at # "stopped" \/ \E r \in Roles : work[r] \notin {"idle", "funded", "dropped"}
  /\ UNCHANGED <<mode, inboxVars, fundingVars, monitorVars, host, envVars, outVars>>

\* A session the parties can find, before it is over; a later post changes nothing here.
Open == host.pc > 2 /\ host.at # "stopped" /\ now < Deadline

Enrolled(role, at, exp) ==
  IF mode # "off" THEN Posted(Message("enrollment", role, Keys[role][1], at, exp))
  ELSE UNCHANGED inboxVars

\* The coordinator mints the invitation, and redeems it later, in its window or not.
Coordinate ==
  /\ Open
  /\ \/ /\ invitation.exp = 0 /\ now < InvitationEnd
        /\ invitation' = [invitation EXCEPT !.exp = now + ClaimWindow]
        /\ Enrolled("initiator", now, now + ClaimWindow)
     \/ /\ invitation.exp # 0 /\ invitation.at = -1
        /\ invitation' = [invitation EXCEPT !.at = now]
        /\ Enrolled("responder", now, invitation.exp)
  /\ UNCHANGED <<now, mode, fundingVars, monitorVars, host, policy, posted, extra, outVars>>

\* What a party has seen before it posts a message.
May(kind, role) ==
  CASE kind = "created" -> role = "initiator" /\ invitation.exp # 0
    [] kind = "claimed" -> role = "responder" /\ invitation.at # -1
    [] kind = "identity" ->
         <<IF role = "initiator" THEN "created" ELSE "claimed", role>> \in posted
    [] kind = "ready" -> <<"identity", role>> \in posted
    [] kind = "proposal" -> role = "initiator" /\ \A r \in Roles : <<"ready", r>> \in posted
    [] kind = "acceptance" -> role = "responder" /\ <<"proposal", "initiator">> \in posted
    [] kind = "anchors" -> /\ role = "initiator" /\ relay.descriptor
                           /\ <<"acceptance", "responder">> \in posted
    [] kind = "evidence" -> <<"anchors", "initiator">> \in posted

Said(kind, role, key) ==
  LET at == CASE kind \in {"claimed", "enrollment"} -> invitation.at
              [] kind = "proposal" -> now
              [] OTHER -> 0
      exp == CASE kind \in {"created", "enrollment"} -> invitation.exp
               [] kind = "proposal" -> now + ValidFor
               [] OTHER -> 0
  IN Message(kind, role, key, at, exp)

Party ==
  /\ Open /\ Len(unread) + Len(deferred) < MaxAhead
  /\ \E kind \in Kinds, role \in Roles :
       /\ <<kind, role>> \notin posted /\ May(kind, role)
       /\ posted' = posted \cup {<<kind, role>>}
       /\ Posted(Said(kind, role, Keys[role][1]))
  /\ UNCHANGED <<now, mode, fundingVars, monitorVars, host, policy, invitation, extra,
                 outVars>>

\* A second client of a role, started anew under a key of its own, which the
\* coordinator may come to enroll as well.
SecondClient ==
  /\ Open /\ extra < MaxExtra /\ extra' = extra + 1
  /\ \E kind \in Extra, role \in Roles : \E i \in DOMAIN Keys[role] \ {1} :
       /\ IF kind = "enrollment" THEN mode # "off" /\ invitation.at # -1
          ELSE May(kind, role)
       /\ Posted(Said(kind, role, Keys[role][i]))
  /\ UNCHANGED <<now, mode, fundingVars, monitorVars, host, policy, invitation, posted,
                 outVars>>

----------------------------------------------------------------------------
\* What the host does whether or not the relay and the parties answer.
HostStep ==
  \/ Skip \/ Lapse \/ AskReturns \/ BeginAwait \/ AwaitExpires
  \/ BeginShow \/ BeginCreate \/ BeginRecord \/ BeginPublish
  \/ ShowGivesUp \/ SendGivesUp
  \/ BeginFund \/ FundSettles

Next ==
  \/ HostStep \/ Tick
  \/ AskFails \/ Poll \/ AwaitFails
  \/ ShowAnswered \/ ShowRefused \/ ShowUnanswered \/ SendAnswered \/ SendUnanswered
  \/ FundWork
  \/ Coordinate \/ Party \/ SecondClient

Spec == Init /\ [][Next]_vars /\ WF_vars(HostStep) /\ WF_vars(Tick)

----------------------------------------------------------------------------
\* What the host promises to tell; enrollments that disagree after the claim, messages
\* that do not verify and waits that end with the session stop it without a word.
Promised ==
  \/ host.why \in {"invitation_expired", "funding_unavailable", "preparation_failed",
                   "lapsed", "verdict_invalid", "snapshot_rejected"}
  \/ host.why = "binding_invalid" /\ Doing.phase = "claim"

\* However a session ends, it ends once: at most one notice, of the failure the
\* snapshot shows unless an answer was lost; none that contradicts a published
\* result, except that the relay refused the snapshot of it; and a failure the host
\* tells of reaches the parties on both channels when the relay was in reach.
OneEnding ==
  /\ Cardinality(relay.notices) <= 1
  /\ \A code \in relay.notices :
       /\ "lost" \notin trouble => ShownFailure \in {"none", code}
       /\ relay.result => code = "snapshot_rejected"
  /\ (host.at = "stopped" /\ Promised /\ trouble = {}) =>
       relay.notices = {host.why} /\ ShownFailure = host.why

\* Nothing is sent from the funding wallet but once for each role to be funded, on a
\* reservation, while its step is awaited and the session lasts.
FundingStops ==
  [][\A r \in Roles : broadcasts'[r] # broadcasts[r] =>
       /\ r \in seats /\ reserved /\ broadcasts[r] = 0
       /\ now < Deadline /\ In("fund") /\ Doing.role = r]_vars

\* Enforced, a role speaks with the one key the coordinator enrolled first: whatever
\* its second client posts, and is enrolled for, none of it is gone on with.  A host that
\* only observes goes on with it, and has logged every such message, in whatever order the
\* enrollment and the message came (observeMessage, admitMessage).
OneSpeaker ==
  \A speech \in taken :
    LET first == speech[3] = Keys[speech[2]][1]
    IN /\ mode = "enforce" => first
       /\ mode = "observe" /\ ~first => speech \in flagged

\* Every session ends, whatever the relay, the parties and the chain do.
SessionEnds == <>(host.at = "stopped")

=============================================================================
