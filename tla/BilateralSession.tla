-------------------------- MODULE BilateralSession --------------------------
(***************************************************************************)
(* One session of the first protocol, end to end: the host                 *)
(* (src/bin/clockchain-host.mjs, src/src/roles/host.mjs), and any number of *)
(* payer and requestor kits that follow its link (src/bin/payer.mjs,        *)
(* src/bin/requestor.mjs, src/src/roles/).  They meet only in the relay's   *)
(* log, where anybody may speak for a role; who holds a seat is settled by   *)
(* the order of the log and by whom the host funds.                         *)
(*                                                                         *)
(* A kit is one process with the keys it generated, so it stands for its     *)
(* address too; a person who starts again has another kit.  A post is one     *)
(* step (RelayClient has its races), but a lost answer may leave it twice.     *)
(* What the roles anchor is Handshake's matter and here a count of the         *)
(* transitions on the ledger; a wait that times out, a call that fails and a   *)
(* process that dies are one step, Fail, possible wherever the code may stop.  *)
(***************************************************************************)
EXTENDS Integers, Sequences, FiniteSets, SequencesExt

CONSTANTS
  Payers, Requestors,   \* the kits that follow the link, by role
  Nobody,               \* no kit
  Repeated,             \* bound: the kinds of post whose answer may be lost
  MaxFaults             \* bound: how many posts are repeated and waits, calls, processes fail

Kits  == Payers \cup Requestors
Roles == {"payer", "requestor"}
RoleOf(k) == IF k \in Payers THEN "payer" ELSE "requestor"

ASSUME KitAssumption ==
  Payers \cap Requestors = {} /\ Nobody \notin Kits /\ MaxFaults \in Nat

VARIABLES
  log,       \* the relay's messages: [kind, role, from, body]
  evidence,  \* whose package the relay holds for each role
  result,    \* the certificate the relay holds, as <<parties>>
  paid,      \* whom the treasury paid, in order
  registry,  \* the registered addresses, a kit's agent id being its place
  ledger,    \* how many of the three transitions are anchored
  kit,       \* each kit: its stage, agent id, what it read of its peer, its certificate
  host,      \* the host: its stage, the messages it took, the role it is funding, who
             \* has each seat, their agent ids, the mandate's parties, whose packages it has
  failed,    \* how many have timed out, failed or died so far
  repeats    \* posts repeated so far

vars == <<log, evidence, result, paid, registry, ledger, kit, host, failed, repeats>>
relay == <<log, evidence, result>>
chain == <<paid, registry, ledger>>

Party(address, agent) == [address |-> address, agent |-> agent]

----------------------------------------------------------------------------
\* Reading and writing the log.

Oldest(places) == CHOOSE i \in places : \A j \in places : i <= j
Of(kind, role) == {i \in DOMAIN log : log[i].kind = kind /\ log[i].role = role}
OfKind(kind) == {i \in DOMAIN log : log[i].kind = kind}

Say(kind, role, from, body) ==
  log' = Append(log, [kind |-> kind, role |-> role, from |-> from, body |-> body])

\* An append whose answer was lost: the sender reads the log again, finds the number
\* taken and posts its message under the next.
Again(kind) == kind \in Repeated /\ repeats + failed < MaxFaults /\ repeats' = repeats + 1

Fails == repeats + failed < MaxFaults /\ failed' = failed + 1

At(k, stage) == kit[k].at = stage
Goes(k, stage) == kit' = [kit EXCEPT ![k].at = stage]
HostAt(stage) == host.at = stage

Init ==
  /\ log = <<>> /\ evidence = [r \in Roles |-> Nobody] /\ result = <<>>
  /\ paid = <<>> /\ registry = <<>> /\ ledger = 0
  /\ kit = [k \in Kits |-> [at |-> "invited", agent |-> 0, heard |-> <<>>, result |-> <<>>]]
  /\ host = [at |-> "funding", taken |-> {}, role |-> "payer", seat |-> [r \in Roles |-> Nobody],
             agent |-> [r \in Roles |-> 0], parties |-> <<>>, got |-> [r \in Roles |-> Nobody]]
  /\ failed = 0 /\ repeats = 0

----------------------------------------------------------------------------
\* The kits.

\* What a kit posts at a stage, and the stage after it.
Posts(k) ==
  CASE At(k, "claiming")   -> <<"identity_ready", k, "unfunded">>
    [] At(k, "registered") -> <<"party_ready", Party(k, kit[k].agent),
                                IF k \in Payers THEN "rostering" ELSE "invoicing">>
    [] At(k, "offering")   -> <<"mandate", [payer |-> Party(k, kit[k].agent),
                                            requestor |-> kit[k].heard[1]], "waiting">>
    [] At(k, "requesting") -> <<"payment_request", kit[k].heard[1], "waiting">>
    [] At(k, "entering")   -> <<"watching", Nobody, "running">>
    [] At(k, "reporting")  -> <<"anchor_report", Nobody, "uploading">>
    [] OTHER -> <<>>

\* postNext by a kit.
Post(k) ==
  /\ Posts(k) # <<>>
  /\ Say(Posts(k)[1], RoleOf(k), k, Posts(k)[2])
  /\ \/ Goes(k, Posts(k)[3]) /\ UNCHANGED repeats
     \/ Again(Posts(k)[1]) /\ UNCHANGED kit
  /\ UNCHANGED <<evidence, result, chain, host, failed>>

\* roleAlreadySeated: advisory, before a key exists; only the own role's claims count.
Look(k) ==
  /\ At(k, "invited")
  /\ Goes(k, IF Of("identity_ready", RoleOf(k)) = {} THEN "claiming" ELSE "outseated")
  /\ UNCHANGED <<relay, chain, host, failed, repeats>>

\* A faulty variant: the other role's funding is taken for the own seat's.
ConcernsAnyRole(k, m) == TRUE

\* classifyFundingRecord: a record of the other role is skipped.
Concerns(k, m) == m.body = k \/ RoleOf(m.body) = RoleOf(k)

\* awaitFundingRecord, selectFundingRecord: the first that concerns the kit decides.
ReadFunding(k) ==
  LET records == {i \in OfKind("funding_record") : Concerns(k, log[i])}
  IN /\ At(k, "unfunded") /\ records # {}
     /\ Goes(k, IF log[Oldest(records)].body = k THEN "funded" ELSE "outseated")
     /\ UNCHANGED <<relay, chain, host, failed, repeats>>

\* A faulty variant: the id of the registry's first mint.
FirstId(minted) == 1

\* The id of the mint in the receipt of the kit's own registration.
ReceiptId(minted) == Len(minted)

\* The registration, and the id read back from its receipt.  Gas is what the host paid.
Register(k) ==
  /\ At(k, "funded") /\ k \in ToSet(paid)
  /\ registry' = Append(registry, k)
  /\ kit' = [kit EXCEPT ![k].at = "registered", ![k].agent = ReceiptId(registry')]
  /\ UNCHANGED <<relay, paid, ledger, host, failed, repeats>>

\* selectRequestorRoster: the first requestor that claimed, and the first word after it
\* from the same key about the same address.
ReadRoster(k) ==
  LET claims == Of("identity_ready", "requestor")
      first == Oldest(claims)
      ready == {i \in Of("party_ready", "requestor") :
                  /\ i > first /\ log[i].from = log[first].from
                  /\ log[i].body.address = log[first].body}
  IN /\ At(k, "rostering") /\ claims # {} /\ ready # {}
     /\ kit' = [kit EXCEPT ![k].at = "offering", ![k].heard = <<log[Oldest(ready)].body>>]
     /\ UNCHANGED <<relay, chain, host, failed, repeats>>

\* awaitKind("mandate"): the request repeats the mandate's terms (buildRequest).
ReadMandate(k) ==
  /\ At(k, "invoicing") /\ OfKind("mandate") # {}
  /\ kit' = [kit EXCEPT ![k].at = "requesting",
                        ![k].heard = <<log[Oldest(OfKind("mandate"))].body>>]
  /\ UNCHANGED <<relay, chain, host, failed, repeats>>

\* awaitKind("handshake_required"), and for the payer awaitKind("watching").
ReadTerms(k) ==
  /\ At(k, "waiting") /\ OfKind("handshake_required") # {}
  /\ Goes(k, IF k \in Payers THEN "opening" ELSE "entering")
  /\ UNCHANGED <<relay, chain, host, failed, repeats>>

ReadWatching(k) ==
  /\ At(k, "opening") /\ OfKind("watching") # {}
  /\ Goes(k, "running")
  /\ UNCHANGED <<relay, chain, host, failed, repeats>>

\* verifyIdentityBindings: the parties own the identities they are named with.
Owned(parties) ==
  \A r \in Roles : /\ parties[r].agent \in DOMAIN registry
                  /\ registry[parties[r].agent] = parties[r].address

Required == log[Oldest(OfKind("handshake_required"))].body

\* runPayerRole and runPayeeRole: the payer anchors the first and the third transition,
\* the requestor the second between them.  Neither looks whether the terms name itself.
Anchor(k) ==
  /\ At(k, "running") /\ Owned(Required)
  /\ IF k \in Payers THEN ledger \in {0, 2} ELSE ledger = 1
  /\ ledger' = ledger + 1
  /\ UNCHANGED <<relay, paid, registry, kit, host, failed, repeats>>

\* The payer's package has the three transitions; the requestor's may do without the
\* third, which it does not wait for as long as the session.
FinishRole(k) ==
  /\ At(k, "running") /\ Owned(Required)
  /\ ledger >= IF k \in Payers THEN 3 ELSE 2
  /\ Goes(k, IF k \in Payers THEN "reporting" ELSE "uploading")
  /\ UNCHANGED <<relay, chain, host, failed, repeats>>

\* "The board can lag": a report that could not be posted is forgotten.
SkipReport(k) ==
  /\ At(k, "reporting") /\ Goes(k, "uploading")
  /\ UNCHANGED <<relay, chain, host, failed, repeats>>

Upload(k) ==
  /\ At(k, "uploading")
  /\ evidence' = [evidence EXCEPT ![RoleOf(k)] = k]
  /\ Goes(k, "closing")
  /\ UNCHANGED <<log, result, chain, host, failed, repeats>>

\* getResult: the certificate, once it is there.
Close(k) ==
  /\ At(k, "closing") /\ result # <<>>
  /\ kit' = [kit EXCEPT ![k].at = "done", ![k].result = result]
  /\ UNCHANGED <<relay, chain, host, failed, repeats>>

\* The payer went on without a report on the board, which no waiting brings any more.
Unreported == OfKind("anchor_report") = {} /\ \E k \in Payers : kit[k].at \in {"uploading", "closing", "done"}

\* The 5 minutes for the certificate are up: the kit ends without it, complete but told
\* nothing.  That is a fault, except when the host is still in its 12 minutes for a report
\* that nobody posted: then it is what the two budgets lead to.
CloseWithout(k) ==
  /\ At(k, "closing") /\ Goes(k, "done")
  /\ \/ Fails
     \/ Unreported /\ result = <<>> /\ UNCHANGED failed
  /\ UNCHANGED <<relay, chain, host, repeats>>

Ended(k) == kit[k].at \in {"outseated", "stopped", "done"}

Fail(k) ==
  /\ ~Ended(k) /\ Goes(k, "stopped") /\ Fails
  /\ UNCHANGED <<relay, chain, host, repeats>>

KitStep(k) ==
  \/ Post(k) \/ Look(k) \/ ReadFunding(k) \/ Register(k) \/ ReadRoster(k) \/ ReadMandate(k)
  \/ ReadTerms(k) \/ ReadWatching(k) \/ Anchor(k) \/ FinishRole(k) \/ SkipReport(k)
  \/ Upload(k) \/ Close(k)

----------------------------------------------------------------------------
\* The host.

\* A faulty variant: a wait throws away what it does not want.
NotPast == {i \in DOMAIN log : \A j \in host.taken : i > j}

\* The messages a wait may take: those past the cursor, and of those before it the ones
\* that no wait took, which are handed from wait to wait as its buffer.
Unread == DOMAIN log \ host.taken

\* The claims of the seats that are still free (fundIdentitySeats).
Claims == {i \in Unread : log[i].kind = "identity_ready" /\ host.seat[log[i].role] = Nobody}

HostOnly == UNCHANGED <<relay, chain, kit, failed, repeats>>

\* consider, of fundIdentitySeats: the seat is taken, and funded before the next message.
Seat ==
  /\ HostAt("funding") /\ Claims # {}
  /\ LET i == Oldest(Claims) IN
       host' = [host EXCEPT !.at = "paying", !.taken = @ \cup {i}, !.role = log[i].role,
                            !.seat[log[i].role] = log[i].from]
  /\ HostOnly

\* fundSeat: the treasury's payment is mined, and then its record is posted.
Pay ==
  /\ HostAt("paying")
  /\ paid' = Append(paid, host.seat[host.role])
  /\ host' = [host EXCEPT !.at = "recording"]
  /\ UNCHANGED <<relay, registry, ledger, kit, failed, repeats>>

Record ==
  /\ HostAt("recording")
  /\ Say("funding_record", "host", Nobody, host.seat[host.role])
  /\ \/ /\ host' = [host EXCEPT !.at = IF \A r \in Roles : host.seat[r] # Nobody
                                        THEN "registering" ELSE "funding"]
        /\ UNCHANGED repeats
     \/ Again("funding_record") /\ UNCHANGED host
  /\ UNCHANGED <<evidence, result, chain, kit, failed>>

\* The word of a seat's own key about its own address (bindPartyReady).
Ready == {i \in Unread :
            /\ log[i].kind = "party_ready" /\ host.agent[log[i].role] = 0
            /\ log[i].from = host.seat[log[i].role]
            /\ log[i].body.address = host.seat[log[i].role]}

BindReady ==
  /\ HostAt("registering") /\ Ready # {}
  /\ LET i == Oldest(Ready)
         agent == [host.agent EXCEPT ![log[i].role] = log[i].body.agent]
     IN host' = [host EXCEPT !.agent = agent, !.taken = @ \cup {i},
                             !.at = IF \A r \in Roles : agent[r] # 0 THEN "mandate" ELSE @]
  /\ HostOnly

\* awaitOneRoleMessage for the mandate, whose terms the descriptor will have, and for
\* the request.
TakeMandate ==
  LET places == Of("mandate", "payer") \cap Unread
  IN /\ HostAt("mandate") /\ places # {}
     /\ host' = [host EXCEPT !.at = "request", !.taken = @ \cup {Oldest(places)},
                             !.parties = <<log[Oldest(places)].body>>]
     /\ HostOnly

TakeRequest ==
  LET places == Of("payment_request", "requestor") \cap Unread
  IN /\ HostAt("request") /\ places # {}
     /\ host' = [host EXCEPT !.at = "requiring", !.taken = @ \cup {Oldest(places)}]
     /\ HostOnly

\* The signed descriptor (buildDescriptor): its parties are the mandate's.
Require ==
  /\ HostAt("requiring")
  /\ Say("handshake_required", "host", Nobody, host.parties[1])
  /\ \/ host' = [host EXCEPT !.at = "report"] /\ UNCHANGED repeats
     \/ Again("handshake_required") /\ UNCHANGED host
  /\ UNCHANGED <<evidence, result, chain, kit, failed>>

\* The payer's anchor report arrives: whether or not it can be read (applyAnchorReport), the
\* host goes on to the evidence.
TakeReport ==
  LET places == Of("anchor_report", "payer") \cap Unread
  IN /\ HostAt("report") /\ places # {}
     /\ host' = [host EXCEPT !.at = "evidence", !.taken = @ \cup {Oldest(places)}]
     /\ HostOnly

\* No report was posted, and ANCHOR_REPORT_BUDGET_MS is over.  So is the time for the
\* evidence, which is the same: it is looked for once, and a package missing is FailHost.
ReportTimesOut ==
  /\ HostAt("report") /\ OfKind("anchor_report") = {} /\ \A r \in Roles : evidence[r] # Nobody
  /\ host' = [host EXCEPT !.at = "verifying", !.got = evidence]
  /\ HostOnly

\* Any other end of that wait is swallowed too, with time left for the evidence.
LoseReport ==
  /\ HostAt("report")
  /\ host' = [host EXCEPT !.at = "evidence"] /\ Fails
  /\ UNCHANGED <<relay, chain, kit, repeats>>

\* downloadEvidencePackages: in any order, each when it is there.
Download(r) ==
  /\ HostAt("evidence") /\ evidence[r] # Nobody /\ host.got[r] = Nobody
  /\ LET got == [host.got EXCEPT ![r] = evidence[r]]
     IN host' = [host EXCEPT !.got = got,
                             !.at = IF \A s \in Roles : got[s] # Nobody THEN "verifying" ELSE @]
  /\ HostOnly

\* verifyBilateralAuthorization: the three transitions, and packages signed by the
\* descriptor's parties, who own their identities.  Any other outcome is thrown (FailHost).
Verify ==
  /\ HostAt("verifying") /\ ledger = 3 /\ Owned(host.parties[1])
  /\ \A r \in Roles : host.got[r] = host.parties[1][r].address
  /\ host' = [host EXCEPT !.at = "certifying"]
  /\ HostOnly

\* The certificate names whom the host seated, and not what the descriptor says.
Certify ==
  /\ HostAt("certifying")
  /\ result' = <<[r \in Roles |-> Party(host.seat[r], host.agent[r])]>>
  /\ host' = [host EXCEPT !.at = "complete"]
  /\ UNCHANGED <<log, evidence, chain, kit, failed, repeats>>

\* CERTIFICATE_NOT_ISSUED: "the verdict above stands".
SkipCertificate ==
  /\ HostAt("certifying")
  /\ host' = [host EXCEPT !.at = "complete"] /\ Fails
  /\ UNCHANGED <<relay, chain, kit, repeats>>

\* SessionEnded, any other error, or the death of the process.
FailHost ==
  /\ host.at \notin {"complete", "stopped"}
  /\ host' = [host EXCEPT !.at = "stopped"] /\ Fails
  /\ UNCHANGED <<relay, chain, kit, repeats>>

HostStep ==
  \/ Seat \/ Pay \/ Record \/ BindReady \/ TakeMandate \/ TakeRequest \/ Require
  \/ TakeReport \/ ReportTimesOut \/ (\E r \in Roles : Download(r)) \/ Verify \/ Certify

----------------------------------------------------------------------------
Next ==
  \/ \E k \in Kits : KitStep(k) \/ CloseWithout(k) \/ Fail(k)
  \/ HostStep \/ LoseReport \/ SkipCertificate \/ FailHost

Spec == Init /\ [][Next]_vars

\* Every process goes on while it can, which the host's wait for the report ends with;
\* no other wait is owed its timeout, and no answer its loss.
FairSpec == Spec /\ WF_vars(HostStep) /\ \A k \in Kits : WF_vars(KitStep(k))

----------------------------------------------------------------------------
Parties == [address : Kits, agent : Nat]
Terms == [Roles -> Parties]
Certificates == Seq([Roles -> [address : Kits \cup {Nobody}, agent : Nat]])
Kinds == {"identity_ready", "funding_record", "party_ready", "mandate", "payment_request",
          "handshake_required", "watching", "anchor_report"}
Stages == {"invited", "claiming", "unfunded", "funded", "registered", "rostering", "invoicing",
           "offering", "requesting", "waiting", "opening", "entering", "running", "reporting",
           "uploading", "closing", "done", "outseated", "stopped"}
HostStages == {"funding", "paying", "recording", "registering", "mandate", "request",
               "requiring", "report", "evidence", "verifying", "certifying", "complete", "stopped"}

Minds == [at : Stages, agent : Nat, heard : Seq(Parties \cup Terms), result : Certificates]
HostMinds == [at : HostStages, taken : SUBSET Nat, role : Roles,
              seat : [Roles -> Kits \cup {Nobody}], agent : [Roles -> Nat],
              parties : Seq(Terms), got : [Roles -> Kits \cup {Nobody}]]

\* What a message of a kind says.
Body(kind) ==
  CASE kind \in {"identity_ready", "funding_record"} -> Kits
    [] kind = "party_ready" -> Parties
    [] kind \in {"mandate", "payment_request", "handshake_required"} -> Terms
    [] OTHER -> {Nobody}

\* A message is in the name of its sender's role, and only kits claim and register.
Messages ==
  {m \in [kind : Kinds, role : Roles \cup {"host"}, from : Kits \cup {Nobody},
          body : Kits \cup Parties \cup Terms \cup {Nobody}] :
     /\ m.body \in Body(m.kind)
     /\ m.role = IF m.from = Nobody THEN "host" ELSE RoleOf(m.from)
     /\ m.kind \in {"identity_ready", "party_ready"} => m.from \in Kits}

KitOK ==
  /\ kit \in [Kits -> Minds]
  /\ \A k \in Kits : /\ kit[k].at \in {"rostering", "offering"} => k \in Payers
                     /\ At(k, "offering") => kit[k].heard # <<>> /\ kit[k].heard[1] \in Parties
                     /\ At(k, "requesting") => kit[k].heard # <<>> /\ kit[k].heard[1] \in Terms

HostOK ==
  /\ host \in HostMinds /\ host.taken \subseteq DOMAIN log
  /\ host.at \in {"paying", "recording"} => host.seat[host.role] # Nobody
  /\ host.at \in {"request", "requiring"} => host.parties # <<>>

\* Type invariant: a message says what its kind does, and who is about to speak has
\* what to say.
TypeOK ==
  /\ log \in Seq(Messages) /\ KitOK /\ HostOK
  /\ evidence \in [Roles -> Kits \cup {Nobody}] /\ result \in Certificates
  /\ paid \in Seq(Kits) /\ registry \in Seq(Kits) /\ ledger \in Nat
  /\ failed \in Nat /\ repeats \in Nat

\* The host, the payer and the requestor mean the same two parties, though each finds the
\* others in the log for itself: the descriptor's, which come from the payer's roster, are
\* those the host seated, paid and saw registered, and so are the certificate's
\* and those whose packages it verified (selectRequestorRoster, fundIdentitySeats, bindPartyReady).
SeatsAgree ==
  LET seated == [r \in Roles |-> Party(host.seat[r], host.agent[r])]
  IN /\ \A i \in OfKind("handshake_required") : log[i].body = seated
     /\ OfKind("handshake_required") # {} =>
          \A r \in Roles : host.seat[r] \in ToSet(paid) /\ registry[host.agent[r]] = host.seat[r]
     /\ result # <<>> => result = <<seated>> /\ host.got = host.seat

\* "Only one can authorize per session": of the kits of a role one is paid, once, and no
\* other registers; and a kit that stops because its seat is taken had a rival of its own
\* role before it and has spent nothing (roleAlreadySeated, classifyFundingRecord).
LosersSpendNothing ==
  /\ \A i, j \in DOMAIN paid : RoleOf(paid[i]) = RoleOf(paid[j]) => i = j
  /\ ToSet(registry) \subseteq ToSet(paid)
  /\ \A k \in Kits : At(k, "outseated") =>
       /\ k \notin ToSet(paid)
       /\ LET claims == Of("identity_ready", RoleOf(k))
          IN claims # {} /\ log[Oldest(claims)].from # k

\* Unless something fails, the session comes to its verdict, the certificate is published
\* and both parties end holding it, however their messages interleave and whoever else
\* races for a seat; nobody waits for a message already sent.  With one exception, named
\* Unreported: a report lost on its way to the board costs the parties the certificate
\* when they stop asking, after 5 minutes, before the host stops waiting, after 12.
Concludes ==
  <>(failed > 0 \/ /\ HostAt("complete") /\ result # <<>>
                   /\ \A r \in Roles : \E k \in Kits :
                        /\ RoleOf(k) = r /\ At(k, "done")
                        /\ kit[k].result # <<>> \/ Unreported)
=============================================================================
