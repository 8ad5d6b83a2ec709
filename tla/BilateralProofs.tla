-------------------------- MODULE BilateralProofs --------------------------
(***************************************************************************)
(* Theorems about BilateralSession, for any number of kits that race for the *)
(* two seats, any interleaving of their messages, any repeated posts and      *)
(* failures: the three parties mean the same payer and requestor, and only     *)
(* these are paid and register.                                              *)
(***************************************************************************)
EXTENDS BilateralSession, TLAPS, SequenceTheorems, WellFoundedInduction

----------------------------------------------------------------------------
(* The invariant                                                           *)

Claimed(r) == Of("identity_ready", r) # {}
First(r) == log[Oldest(Of("identity_ready", r))].from

SeatInv ==
  \A r \in Roles :
    /\ host.seat[r] # Nobody => RoleOf(host.seat[r]) = r /\ Claimed(r) /\ host.seat[r] = First(r)
    /\ host.seat[r] = Nobody => Of("identity_ready", r) \cap host.taken = {}

PaidInv ==
  /\ \A i \in DOMAIN paid : paid[i] = host.seat[RoleOf(paid[i])]
  /\ \A i, j \in DOMAIN paid : paid[i] = paid[j] => i = j
  /\ HostAt("paying") => host.seat[host.role] \notin ToSet(paid)
  /\ HostAt("recording") => host.seat[host.role] \in ToSet(paid)
  /\ \A i \in OfKind("funding_record") : log[i].body \in ToSet(paid)
  /\ ToSet(registry) \subseteq ToSet(paid)

Unregistered == {"invited", "claiming", "unfunded", "funded"}

KitInv ==
  \A k \in Kits :
    /\ At(k, "invited") => \A i \in DOMAIN log : log[i].from # k
    /\ kit[k].at \in Unregistered => kit[k].agent = 0
    /\ kit[k].at \in {"registered", "rostering", "offering"} => kit[k].agent # 0
    /\ kit[k].agent # 0 => kit[k].agent \in DOMAIN registry /\ registry[kit[k].agent] = k
    /\ At(k, "outseated") => Claimed(RoleOf(k)) /\ First(RoleOf(k)) # k

LogInv ==
  \A i \in DOMAIN log :
    /\ log[i].kind = "identity_ready" => log[i].body = log[i].from
    /\ log[i].kind = "party_ready" =>
         kit[log[i].from].agent # 0 /\ log[i].body = Party(log[i].from, kit[log[i].from].agent)

\* The parties as they know themselves, and whether both are seated and registered.
Seated == [r \in Roles |-> Party(host.seat[r], kit[host.seat[r]].agent)]
BothSeated == \A r \in Roles : host.seat[r] \in Kits /\ kit[host.seat[r]].agent # 0

Late == {"mandate", "request", "requiring", "report", "evidence", "verifying", "certifying", "complete"}
Agreed == {"request", "requiring", "report", "evidence", "verifying"}

\* Whoever speaks of both parties means these.
TermsInv ==
  /\ \A k \in Kits : At(k, "offering") => BothSeated /\ kit[k].heard[1] = Seated["requestor"]
  /\ \A i \in OfKind("mandate") : BothSeated /\ log[i].body = Seated
  /\ host.parties # <<>> => BothSeated /\ host.parties[1] = Seated
  /\ \A i \in OfKind("handshake_required") :
       BothSeated /\ log[i].body = Seated /\ \A r \in Roles : host.agent[r] # 0

\* What the host knows at each stage.
HostInv ==
  /\ \A r \in Roles : host.agent[r] # 0 =>
       host.seat[r] \in Kits /\ host.agent[r] = kit[host.seat[r]].agent
  /\ HostAt("funding") => \E r \in Roles : host.seat[r] = Nobody
  /\ host.at \in Late => \A r \in Roles : host.agent[r] # 0
  /\ host.at \in Agreed => host.parties # <<>>
  /\ HostAt("certifying") => host.got = host.seat
  /\ result # <<>> => /\ HostAt("complete") /\ host.got = host.seat
                      /\ result = <<[r \in Roles |-> Party(host.seat[r], host.agent[r])]>>

IInv == TypeOK /\ SeatInv /\ PaidInv /\ KitInv /\ LogInv /\ TermsInv /\ HostInv

----------------------------------------------------------------------------
(* The oldest message of a kind                                            *)

LEMMA OldestIsLeast ==
  ASSUME NEW T, T \subseteq Nat, T # {}
  PROVE  Oldest(T) \in T /\ \A y \in T : Oldest(T) <= y
<1> DEFINE R == OpToRel(<, Nat)
<1>1. IsWellFoundedOn(R, Nat)
  BY NatLessThanWellFounded
<1> HIDE DEF R
<1>2. PICK x \in T : \A y \in T : ~ (<<y, x>> \in R)
  BY <1>1, WFMin
<1>3. \A y \in T : ~(y < x)
  BY <1>2 DEF R, OpToRel
<1>4. \A y \in T : x <= y
  <2>1. \A y \in T : x \in Nat /\ y \in Nat
    OBVIOUS
  <2>2. QED BY <1>3, <2>1
<1>5. QED BY <1>4 DEF Oldest

LEMMA LeastIsOldest ==
  ASSUME NEW T, T \subseteq Nat, NEW i \in T, \A y \in T : i <= y
  PROVE  Oldest(T) = i
<1>1. Oldest(T) \in T /\ \A y \in T : Oldest(T) <= y
  BY OldestIsLeast
<1>2. Oldest(T) <= i /\ i <= Oldest(T) /\ i \in Nat /\ Oldest(T) \in Nat
  BY <1>1
<1>3. QED BY <1>2

\* The log only grows.
Grows == log' = log \/ \E m \in Messages : log' = Append(log, m)

LEMMA LogStays ==
  ASSUME log \in Seq(Messages), Grows
  PROVE  /\ log' \in Seq(Messages)
         /\ DOMAIN log \subseteq Nat /\ DOMAIN log' \subseteq Nat
         /\ DOMAIN log \subseteq DOMAIN log'
         /\ \A i \in DOMAIN log : log'[i] = log[i]
         /\ \A i \in DOMAIN log, j \in DOMAIN log' \ DOMAIN log : i < j
<1>1. CASE log' = log
  BY <1>1
<1>2. ASSUME NEW m \in Messages, log' = Append(log, m)
      PROVE  /\ log' \in Seq(Messages) /\ Len(log') = Len(log) + 1
             /\ \A i \in DOMAIN log : log'[i] = log[i]
  BY <1>2, AppendProperties
<1>3. DOMAIN log = 1..Len(log) /\ Len(log) \in Nat
  BY LenProperties
<1>4. log' \in Seq(Messages) => DOMAIN log' = 1..Len(log')
  BY LenProperties
<1>5. QED BY <1>1, <1>2, <1>3, <1>4 DEF Grows

\* So what is the oldest of a kind and a role stays so.
LEMMA FirstStays ==
  ASSUME log \in Seq(Messages), Grows, NEW kind, NEW role, Of(kind, role) # {}
  PROVE  Of(kind, role)' # {} /\ Oldest(Of(kind, role))' = Oldest(Of(kind, role))
         /\ Oldest(Of(kind, role)) \in DOMAIN log
<1> DEFINE S == Of(kind, role)
           T == {i \in DOMAIN log' : log'[i].kind = kind /\ log'[i].role = role}
<1>1. S \subseteq T /\ S \subseteq Nat /\ T \subseteq Nat /\ S \subseteq DOMAIN log
  BY LogStays DEF Of
<1>2. \A i \in S, j \in T \ S : i < j
  BY LogStays DEF Of
<1>3. Oldest(S) \in S /\ \A y \in S : Oldest(S) <= y
  BY <1>1, OldestIsLeast
<1>4. Oldest(T) \in T /\ \A y \in T : Oldest(T) <= y
  BY <1>1, <1>3, OldestIsLeast
<1>5. Oldest(T) \in Nat /\ Oldest(S) \in Nat
  BY <1>1, <1>3, <1>4
<1>6. Oldest(T) = Oldest(S)
  <2> HIDE DEF S, T
  <2>1. Oldest(T) \in S
    BY <1>1, <1>2, <1>3, <1>4, <1>5
  <2>2. QED BY <2>1, <1>1, <1>3, <1>4, <1>5
<1>7. T # {} /\ Of(kind, role)' = T /\ Oldest(Of(kind, role))' = Oldest(T)
  BY <1>4 DEF Of, Oldest
<1>8. QED BY <1>1, <1>3, <1>6, <1>7

----------------------------------------------------------------------------
(* Types                                                                   *)

\* What a kit may say, and where it goes after it.
Speech ==
  {<<"claiming", "identity_ready", "unfunded">>,
   <<"registered", "party_ready", "rostering">>, <<"registered", "party_ready", "invoicing">>,
   <<"offering", "mandate", "waiting">>, <<"requesting", "payment_request", "waiting">>,
   <<"entering", "watching", "running">>, <<"reporting", "anchor_report", "uploading">>}

LEMMA PostCases ==
  ASSUME NEW k \in Kits, Posts(k) # <<>>
  PROVE  /\ <<kit[k].at, Posts(k)[1], Posts(k)[3]>> \in Speech
         /\ Posts(k)[3] = "rostering" => k \in Payers
         /\ Posts(k)[1] = "identity_ready" => Posts(k)[2] = k
         /\ Posts(k)[1] = "party_ready" => Posts(k)[2] = Party(k, kit[k].agent)
         /\ Posts(k)[1] = "mandate" =>
              Posts(k)[2] = [payer |-> Party(k, kit[k].agent), requestor |-> kit[k].heard[1]]
         /\ Posts(k)[1] = "payment_request" => Posts(k)[2] = kit[k].heard[1]
         /\ Posts(k)[1] \in {"watching", "anchor_report"} => Posts(k)[2] = Nobody
<1>1. CASE At(k, "claiming")
  BY <1>1 DEF Posts, At, Speech
<1>2. CASE At(k, "registered")
  BY <1>2 DEF Posts, At, Speech
<1>3. CASE At(k, "offering")
  BY <1>3 DEF Posts, At, Speech
<1>4. CASE At(k, "requesting")
  BY <1>4 DEF Posts, At, Speech
<1>5. CASE At(k, "entering")
  BY <1>5 DEF Posts, At, Speech
<1>6. CASE At(k, "reporting")
  BY <1>6 DEF Posts, At, Speech
<1>7. QED BY <1>1, <1>2, <1>3, <1>4, <1>5, <1>6 DEF Posts

LEMMA PartyType == \A k \in Kits, a \in Nat : Party(k, a) \in Parties
BY DEF Party, Parties

LEMMA RoleType == \A k : RoleOf(k) \in Roles
BY DEF RoleOf, Roles

\* The mandate's terms, as a function of the roles.
LEMMA TermsType ==
  ASSUME NEW a \in Parties, NEW b \in Parties
  PROVE  /\ [payer |-> a, requestor |-> b] = [r \in Roles |-> IF r = "payer" THEN a ELSE b]
         /\ [payer |-> a, requestor |-> b] \in Terms
<1>1. [payer |-> a, requestor |-> b] = [r \in Roles |-> IF r = "payer" THEN a ELSE b]
  BY SMT DEF Roles
<1>2. [r \in Roles |-> IF r = "payer" THEN a ELSE b] \in Terms
  BY DEF Terms
<1>3. QED BY <1>1, <1>2

\* What a kit posts is a message.
LEMMA SpeechType ==
  ASSUME TypeOK, NEW k \in Kits, Posts(k) # <<>>
  PROVE  [kind |-> Posts(k)[1], role |-> RoleOf(k), from |-> k, body |-> Posts(k)[2]] \in Messages
<1>1. kit[k] \in Minds /\ kit[k].agent \in Nat
  BY DEF TypeOK, KitOK, Minds
<1>2. Party(k, kit[k].agent) \in Parties
  BY <1>1, PartyType
<1>3. /\ Posts(k)[1] = "mandate" => kit[k].heard[1] \in Parties
      /\ Posts(k)[1] = "payment_request" => kit[k].heard[1] \in Terms
  BY PostCases DEF TypeOK, KitOK, At, Speech
<1>4. Posts(k)[1] = "mandate" => Posts(k)[2] \in Terms
  BY <1>2, <1>3, PostCases, TermsType
<1>5. Posts(k)[2] \in Body(Posts(k)[1])
  BY <1>2, <1>3, <1>4, PostCases DEF Body, Speech
<1>6. Posts(k)[2] \in Kits \cup Parties \cup Terms \cup {Nobody}
  BY <1>2, <1>3, <1>4, PostCases DEF Speech
<1>7. Posts(k)[1] \in Kinds /\ k # Nobody
  BY PostCases, KitAssumption DEF Speech, Kinds
<1> HIDE DEF Kinds
<1>8. QED BY <1>5, <1>6, <1>7, RoleType DEF Messages

\* What is said is the last word of the log.
LEMMA SayType ==
  ASSUME log \in Seq(Messages), NEW m \in Messages, log' = Append(log, m)
  PROVE  /\ log' \in Seq(Messages) /\ Grows
         /\ \A i \in DOMAIN log' \ DOMAIN log : log'[i] = m
<1>1. /\ log' \in Seq(Messages) /\ Len(log') = Len(log) + 1 /\ log'[Len(log) + 1] = m
  BY AppendProperties
<1>2. DOMAIN log = 1..Len(log) /\ DOMAIN log' = 1..Len(log') /\ Len(log) \in Nat
  BY <1>1, LenProperties
<1>3. \A i \in DOMAIN log' : i \in DOMAIN log \/ i = Len(log) + 1
  BY <1>1, <1>2
<1>4. QED BY <1>1, <1>3 DEF Grows

LEMMA BodyType ==
  ASSUME TypeOK
  PROVE  /\ \A i \in OfKind("party_ready") : log[i].body \in Parties
         /\ \A i \in OfKind("mandate") : log[i].body \in Terms
         /\ \A i \in OfKind("handshake_required") : log[i].body \in Terms
         /\ \A i \in OfKind("funding_record") : log[i].body \in Kits
         /\ \A i \in DOMAIN log : i \in Nat
<1>1. \A i \in DOMAIN log : i \in Nat /\ log[i] \in Messages
  BY DEF TypeOK
<1>11. \A i \in DOMAIN log : log[i].body \in Body(log[i].kind)
  BY <1>1 DEF Messages
<1>2. /\ Body("party_ready") = Parties /\ Body("funding_record") = Kits
      /\ Body("mandate") = Terms /\ Body("handshake_required") = Terms
  BY DEF Body
<1>3. QED BY <1>1, <1>11, <1>2 DEF OfKind

\* A kit that changes its mind.
LEMMA MindKept ==
  ASSUME KitOK, NEW k \in Kits, NEW m \in Minds, kit' = [kit EXCEPT ![k] = m],
         m.at \in {"rostering", "offering"} => k \in Payers,
         m.at = "offering" => m.heard # <<>> /\ m.heard[1] \in Parties,
         m.at = "requesting" => m.heard # <<>> /\ m.heard[1] \in Terms
  PROVE  KitOK' /\ kit'[k] = m /\ \A q \in Kits : q # k => kit'[q] = kit[q]
<1>1. /\ kit' \in [Kits -> Minds] /\ kit'[k] = m
      /\ \A q \in Kits : q # k => kit'[q] = kit[q]
  BY DEF KitOK
<1>2. \A q \in Kits : /\ kit'[q].at \in {"rostering", "offering"} => q \in Payers
                      /\ kit'[q].at = "offering" => kit'[q].heard # <<>> /\ kit'[q].heard[1] \in Parties
                      /\ kit'[q].at = "requesting" => kit'[q].heard # <<>> /\ kit'[q].heard[1] \in Terms
  <2>1. TAKE q \in Kits
  <2>2. CASE q = k
    BY <1>1, <2>2
  <2>3. CASE q # k
    BY <1>1, <2>3 DEF KitOK, At
  <2>4. QED BY <2>2, <2>3
<1>3. KitOK'
  BY <1>1, <1>2 DEF KitOK, At, Kits, Minds, Parties, Terms, Certificates, Stages
<1>4. QED BY <1>1, <1>3

\* A kit that only goes on.
LEMMA GoesOn ==
  ASSUME KitOK, NEW k \in Kits, NEW stage \in Stages, Goes(k, stage),
         stage \notin {"offering", "requesting"}, stage = "rostering" => k \in Payers
  PROVE  KitOK' /\ kit'[k] = [kit[k] EXCEPT !.at = stage] /\ \A q \in Kits : q # k => kit'[q] = kit[q]
<1> DEFINE m == [kit[k] EXCEPT !.at = stage]
<1>1. m \in Minds /\ m.at = stage
  BY DEF KitOK, Minds
<1>2. kit' = [kit EXCEPT ![k] = m]
  BY DEF Goes
<1> HIDE DEF m
<1>3. KitOK' /\ kit'[k] = m /\ \A q \in Kits : q # k => kit'[q] = kit[q]
  BY <1>1, <1>2, MindKept
<1>4. QED BY <1>3 DEF m

\* A step of one kit leaves the others as they are, and its own mind well formed.
LEMMA KitStepType ==
  ASSUME TypeOK, NEW k \in Kits, KitStep(k) \/ CloseWithout(k) \/ Fail(k)
  PROVE  KitOK' /\ \A q \in Kits : q # k => kit'[q] = kit[q]
<1> KitOK /\ kit[k] \in Minds
  BY DEF TypeOK, KitOK
<1>1. CASE Post(k)
  <2>1. /\ Posts(k)[3] \in Stages \ {"offering", "requesting"}
        /\ Posts(k)[3] = "rostering" => k \in Payers
    BY <1>1, PostCases DEF Speech, Stages, Post
  <2>2. CASE UNCHANGED kit
    BY <2>2 DEF KitOK, At, Kits, Minds, Parties, Terms, Certificates, Stages
  <2>3. QED BY <1>1, <2>1, <2>2, GoesOn DEF Post
<1>2. CASE Look(k)
  BY <1>2, GoesOn DEF Look, Stages
<1>3. CASE ReadFunding(k)
  BY <1>3, GoesOn DEF ReadFunding, Stages
<1>4. CASE Register(k)
  <2> DEFINE m == [kit[k] EXCEPT !.at = "registered", !.agent = ReceiptId(registry')]
  <2>1. ReceiptId(registry') \in Nat
    BY <1>4, AppendProperties, LenProperties DEF Register, ReceiptId, TypeOK
  <2>2. m \in Minds /\ m.at = "registered" /\ kit' = [kit EXCEPT ![k] = m]
    BY <1>4, <2>1 DEF Register, Minds, Stages
  <2> HIDE DEF m
  <2>3. QED BY <2>2, MindKept
<1>5. CASE ReadRoster(k)
  <2> DEFINE claims == Of("identity_ready", "requestor")
             first == Oldest(claims)
             ready == {i \in Of("party_ready", "requestor") :
                         /\ i > first /\ log[i].from = log[first].from
                         /\ log[i].body.address = log[first].body}
             p == log[Oldest(ready)].body
             m == [kit[k] EXCEPT !.at = "offering", !.heard = <<p>>]
  <2>1. ready # {} /\ kit' = [kit EXCEPT ![k] = m] /\ At(k, "rostering")
    BY <1>5 DEF ReadRoster
  <2>2. ready \subseteq OfKind("party_ready") /\ ready \subseteq Nat
    BY DEF Of, OfKind, TypeOK
  <2> HIDE DEF ready
  <2>3. Oldest(ready) \in OfKind("party_ready")
    BY <2>1, <2>2, OldestIsLeast
  <2>4. p \in Parties
    BY <2>3, BodyType
  <2> HIDE DEF p
  <2>5. m \in Minds /\ m.at = "offering" /\ m.heard = <<p>> /\ k \in Payers
    <3>1. <<p>> \in Seq(Parties \cup Terms)
      BY <2>4
    <3>2. k \in Payers
      BY <2>1 DEF KitOK, At
    <3>3. QED BY <3>1, <3>2 DEF Minds, Stages
  <2> HIDE DEF m
  <2>6. m.heard[1] \in Parties /\ m.heard # <<>>
    BY <2>4, <2>5
  <2>7. QED BY <2>1, <2>5, <2>6, MindKept
<1>6. CASE ReadMandate(k)
  <2> DEFINE t == log[Oldest(OfKind("mandate"))].body
             m == [kit[k] EXCEPT !.at = "requesting", !.heard = <<t>>]
  <2>1. OfKind("mandate") # {} /\ kit' = [kit EXCEPT ![k] = m]
    BY <1>6 DEF ReadMandate
  <2>2. Oldest(OfKind("mandate")) \in OfKind("mandate")
    <3>1. OfKind("mandate") \subseteq Nat
      BY BodyType DEF OfKind
    <3>2. QED BY <2>1, <3>1, OldestIsLeast
  <2>3. t \in Terms
    BY <2>2, BodyType
  <2> HIDE DEF t
  <2>4. m \in Minds /\ m.at = "requesting" /\ m.heard = <<t>>
    <3>1. <<t>> \in Seq(Parties \cup Terms)
      BY <2>3
    <3>2. QED BY <3>1 DEF Minds, Stages
  <2> HIDE DEF m
  <2>5. m.heard[1] \in Terms /\ m.heard # <<>>
    BY <2>3, <2>4
  <2>6. QED BY <2>1, <2>4, <2>5, MindKept
<1>7. CASE ReadTerms(k)
  BY <1>7, GoesOn DEF ReadTerms, Stages
<1>8. CASE ReadWatching(k)
  BY <1>8, GoesOn DEF ReadWatching, Stages
<1>9. CASE Anchor(k)
  BY <1>9 DEF Anchor, KitOK, At, Kits, Minds, Parties, Terms, Certificates, Stages
<1>10. CASE FinishRole(k)
  BY <1>10, GoesOn DEF FinishRole, Stages
<1>11. CASE SkipReport(k)
  BY <1>11, GoesOn DEF SkipReport, Stages
<1>12. CASE Upload(k)
  BY <1>12, GoesOn DEF Upload, Stages
<1>13. CASE Close(k)
  <2> DEFINE m == [kit[k] EXCEPT !.at = "done", !.result = result]
  <2>1. m \in Minds /\ m.at = "done" /\ kit' = [kit EXCEPT ![k] = m]
    BY <1>13 DEF Close, Minds, Stages, TypeOK
  <2> HIDE DEF m
  <2>2. QED BY <2>1, MindKept
<1>14. CASE CloseWithout(k) \/ Fail(k)
  BY <1>14, GoesOn DEF CloseWithout, Fail, Stages
<1>15. QED
  BY <1>1, <1>2, <1>3, <1>4, <1>5, <1>6, <1>7, <1>8, <1>9, <1>10, <1>11, <1>12, <1>13, <1>14
     DEF KitStep

LEMMA RecordSays ==
  ASSUME TypeOK, Record
  PROVE  /\ log' \in Seq(Messages) /\ Grows
         /\ \A i \in DOMAIN log' \ DOMAIN log :
              log'[i] = [kind |-> "funding_record", role |-> "host", from |-> Nobody,
                         body |-> host.seat[host.role]]
<1> DEFINE body == host.seat[host.role]
           m == [kind |-> "funding_record", role |-> "host", from |-> Nobody, body |-> body]
<1>1. body \in Kits
  BY DEF TypeOK, HostOK, HostMinds, Record, HostAt
<1>2. body \in Body("funding_record")
  BY <1>1 DEF Body
<1>3. m \in Messages
  BY <1>1, <1>2 DEF Messages, Kinds
<1>4. log' = Append(log, m) /\ log \in Seq(Messages)
  BY DEF Record, TypeOK, Say
<1> HIDE DEF m
<1>5. /\ log' \in Seq(Messages) /\ Grows
      /\ \A i \in DOMAIN log' \ DOMAIN log : log'[i] = m
  BY <1>3, <1>4, SayType
<1>6. QED BY <1>5 DEF m

LEMMA RequireSays ==
  ASSUME TypeOK, Require
  PROVE  /\ log' \in Seq(Messages) /\ Grows
         /\ \A i \in DOMAIN log' \ DOMAIN log :
              log'[i] = [kind |-> "handshake_required", role |-> "host", from |-> Nobody,
                         body |-> host.parties[1]]
<1> DEFINE body == host.parties[1]
           m == [kind |-> "handshake_required", role |-> "host", from |-> Nobody, body |-> body]
<1>1. body \in Terms
  BY DEF TypeOK, HostOK, HostMinds, Require, HostAt
<1>2. body \in Body("handshake_required")
  BY <1>1 DEF Body
<1>3. m \in Messages
  BY <1>1, <1>2 DEF Messages, Kinds
<1>4. log' = Append(log, m) /\ log \in Seq(Messages)
  BY DEF Require, TypeOK, Say
<1> HIDE DEF m
<1>5. /\ log' \in Seq(Messages) /\ Grows
      /\ \A i \in DOMAIN log' \ DOMAIN log : log'[i] = m
  BY <1>3, <1>4, SayType
<1>6. QED BY <1>5 DEF m

LEMMA PostSays ==
  ASSUME TypeOK, NEW k \in Kits, Post(k)
  PROVE  /\ log' \in Seq(Messages) /\ Grows
         /\ \A i \in DOMAIN log' \ DOMAIN log :
              log'[i] = [kind |-> Posts(k)[1], role |-> RoleOf(k), from |-> k, body |-> Posts(k)[2]]
<1> DEFINE m == [kind |-> Posts(k)[1], role |-> RoleOf(k), from |-> k, body |-> Posts(k)[2]]
<1>1. Posts(k) # <<>> /\ log' = Append(log, m) /\ log \in Seq(Messages)
  BY DEF Post, Say, TypeOK
<1>2. m \in Messages
  BY <1>1, SpeechType
<1> HIDE DEF m
<1>3. /\ log' \in Seq(Messages) /\ Grows
      /\ \A i \in DOMAIN log' \ DOMAIN log : log'[i] = m
  BY <1>1, <1>2, SayType
<1>4. QED BY <1>3 DEF m

\* Every other step leaves the log alone.
Silent ==
  \/ \E k \in Kits : \/ Look(k) \/ ReadFunding(k) \/ Register(k) \/ ReadRoster(k) \/ ReadMandate(k)
                     \/ ReadTerms(k) \/ ReadWatching(k) \/ Anchor(k) \/ FinishRole(k)
                     \/ SkipReport(k) \/ Upload(k) \/ Close(k) \/ CloseWithout(k) \/ Fail(k)
  \/ Seat \/ Pay \/ BindReady \/ TakeMandate \/ TakeRequest \/ TakeReport
  \/ ReportTimesOut \/ LoseReport \/ (\E r \in Roles : Download(r)) \/ Verify \/ Certify \/ SkipCertificate \/ FailHost

LEMMA SilentQuiet == Silent => UNCHANGED log
BY DEF Silent, relay, HostOnly, Look, ReadFunding, Register, ReadRoster, ReadMandate, ReadTerms,
  ReadWatching, Anchor, FinishRole, SkipReport, Upload, Close, CloseWithout, Fail, Seat, Pay,
  BindReady, TakeMandate, TakeRequest, TakeReport, ReportTimesOut, LoseReport, Download, Verify,
  Certify, SkipCertificate, FailHost

LEMMA Speakers == Next => Silent \/ Record \/ Require \/ \E k \in Kits : Post(k)
BY DEF Next, KitStep, HostStep, Silent

LEMMA LogStep ==
  ASSUME TypeOK, [Next]_vars
  PROVE  log' \in Seq(Messages) /\ Grows
<1>1. CASE UNCHANGED log
  BY <1>1 DEF TypeOK, Grows
<1>2. CASE Record
  BY <1>2, RecordSays
<1>3. CASE Require
  BY <1>3, RequireSays
<1>4. CASE \E k \in Kits : Post(k)
  BY <1>4, PostSays
<1>5. QED BY <1>1, <1>2, <1>3, <1>4, SilentQuiet, Speakers DEF vars

\* The host.
LEMMA HostStepType ==
  ASSUME TypeOK, HostStep \/ LoseReport \/ SkipCertificate \/ FailHost
  PROVE  HostOK'
<1> /\ host \in HostMinds /\ host.taken \subseteq DOMAIN log /\ HostOK /\ log \in Seq(Messages)
  BY DEF TypeOK, HostOK
<1>0. DOMAIN log \subseteq DOMAIN log' /\ DOMAIN log' \subseteq Nat
  <2>1. Grows
    BY LogStep DEF Next
  <2>2. QED BY <2>1, LogStays
<1> SUFFICES /\ host' \in HostMinds /\ host'.taken \subseteq DOMAIN log'
             /\ host'.at \in {"paying", "recording"} => host'.seat[host'.role] # Nobody
             /\ host'.at \in {"request", "requiring"} => host'.parties # <<>>
  BY DEF HostOK, HostAt, HostMinds, Kits, Certificates, Terms, Parties, HostStages
<1>1. CASE Seat
  <2> DEFINE i == Oldest(Claims)
  <2>1. i \in Claims
    <3>1. Claims # {}
      BY <1>1 DEF Seat
    <3>2. Claims \subseteq DOMAIN log
      BY DEF Claims, Unread
    <3>3. DOMAIN log \subseteq Nat
      OBVIOUS
    <3>4. QED BY <3>1, <3>2, <3>3, OldestIsLeast
  <2>2. i \in DOMAIN log /\ i \in Nat /\ log[i] \in Messages /\ log[i].kind = "identity_ready"
    <3> HIDE DEF i
    <3>1. i \in DOMAIN log /\ log[i].kind = "identity_ready"
      BY ONLY <2>1 DEF Claims, Unread
    <3>2. log \in Seq(Messages)
      OBVIOUS
    <3>3. QED BY ONLY <3>1, <3>2
  <2>3. log[i].from \in Kits /\ log[i].role = RoleOf(log[i].from)
    BY <2>2, KitAssumption DEF Messages
  <2>4. log[i].role \in Roles
    BY <2>3, RoleType
  <2> DEFINE seat == [host.seat EXCEPT ![log[i].role] = log[i].from]
  <2>5. seat \in [Roles -> Kits \cup {Nobody}] /\ seat[log[i].role] # Nobody
    BY <2>3, <2>4, KitAssumption DEF HostMinds
  <2>6. host' = [host EXCEPT !.at = "paying", !.taken = @ \cup {i}, !.role = log[i].role, !.seat = seat]
    BY <1>1 DEF Seat
  <2> HIDE DEF i, seat
  <2>7. QED BY <2>2, <2>4, <2>5, <2>6, <1>0 DEF HostMinds, HostStages
<1>2. CASE Pay \/ ReportTimesOut \/ LoseReport \/ Certify \/ SkipCertificate \/ FailHost \/ Verify
  BY <1>2, <1>0 DEF Pay, ReportTimesOut, LoseReport, Certify, SkipCertificate, FailHost, Verify,
                    TypeOK, HostOK, HostAt, HostMinds, HostStages
<1>3. CASE Record
  BY <1>3, <1>0 DEF Record, HostOK, HostAt, HostMinds, HostStages
<1>4. CASE BindReady
  <2> DEFINE i == Oldest(Ready)
             agent == [host.agent EXCEPT ![log[i].role] = log[i].body.agent]
  <2>1. i \in Ready
    <3>1. Ready \subseteq Nat /\ Ready # {}
      BY <1>4, <1>0 DEF BindReady, Ready, Unread
    <3>2. QED BY <3>1, OldestIsLeast
  <2>2. i \in OfKind("party_ready") /\ i \in DOMAIN log
    BY <2>1 DEF Ready, Unread, OfKind
  <2>3. log[i].body.agent \in Nat
    BY <2>2, BodyType DEF Parties
  <2>4. agent \in [Roles -> Nat]
    BY <2>3 DEF HostMinds
  <2>5. host' = [host EXCEPT !.agent = agent, !.taken = @ \cup {i},
                             !.at = IF \A r \in Roles : agent[r] # 0 THEN "mandate" ELSE @]
    BY <1>4 DEF BindReady
  <2> HIDE DEF i, agent
  <2>6. host'.at \in {"mandate", "registering"} /\ host'.at \in HostStages
    BY <1>4, <2>5 DEF BindReady, HostAt, HostMinds, HostStages
  <2>7. QED BY <2>2, <2>4, <2>5, <2>6, <1>0 DEF HostMinds
<1>5. CASE TakeMandate
  <2> DEFINE places == Of("mandate", "payer") \cap Unread
             i == Oldest(places)
             t == log[i].body
  <2>1. i \in places
    <3>1. places \subseteq Nat /\ places # {}
      BY <1>5, <1>0 DEF TakeMandate, Unread
    <3>2. QED BY <3>1, OldestIsLeast
  <2>2. i \in OfKind("mandate") /\ i \in DOMAIN log
    BY <2>1 DEF Of, OfKind
  <2>3. t \in Terms
    BY <2>2, BodyType
  <2>4. host' = [host EXCEPT !.at = "request", !.taken = @ \cup {i}, !.parties = <<t>>]
    BY <1>5 DEF TakeMandate
  <2> HIDE DEF i, t
  <2>5. <<t>> \in Seq(Terms)
    BY <2>3
  <2>6. QED BY <2>2, <2>4, <2>5, <1>0 DEF HostMinds, HostStages
<1>6. CASE TakeRequest
  <2> DEFINE places == Of("payment_request", "requestor") \cap Unread
             i == Oldest(places)
  <2>1. i \in places
    <3>1. places \subseteq Nat /\ places # {}
      BY <1>6, <1>0 DEF TakeRequest, Unread
    <3>2. QED BY <3>1, OldestIsLeast
  <2>2. i \in DOMAIN log /\ host' = [host EXCEPT !.at = "requiring", !.taken = @ \cup {i}]
    BY <1>6, <2>1 DEF TakeRequest, Of
  <2> HIDE DEF i
  <2>3. host.parties # <<>>
    BY <1>6 DEF TakeRequest, HostOK, HostAt
  <2>4. QED BY <2>2, <2>3, <1>0 DEF HostMinds, HostStages
<1>10. CASE TakeReport
  <2> DEFINE places == Of("anchor_report", "payer") \cap Unread
             i == Oldest(places)
  <2>1. i \in places
    <3>1. places \subseteq Nat /\ places # {}
      BY <1>10, <1>0 DEF TakeReport, Unread
    <3>2. QED BY <3>1, OldestIsLeast
  <2>2. i \in DOMAIN log /\ host' = [host EXCEPT !.at = "evidence", !.taken = @ \cup {i}]
    BY <1>10, <2>1 DEF TakeReport, Of
  <2> HIDE DEF i
  <2>3. QED BY <2>2, <1>0 DEF HostMinds, HostStages
<1>7. CASE Require
  BY <1>7, <1>0 DEF Require, HostOK, HostAt, HostMinds, HostStages
<1>8. ASSUME NEW r \in Roles, Download(r)
      PROVE  /\ host' \in HostMinds /\ host'.taken \subseteq DOMAIN log'
             /\ host'.at \in {"evidence", "verifying"}
  <2> DEFINE got == [host.got EXCEPT ![r] = evidence[r]]
  <2>1. got \in [Roles -> Kits \cup {Nobody}]
    BY DEF TypeOK, HostMinds
  <2>2. host' = [host EXCEPT !.got = got,
                             !.at = IF \A s \in Roles : got[s] # Nobody THEN "verifying" ELSE @]
    BY <1>8 DEF Download
  <2> HIDE DEF got
  <2>3. host'.at \in {"evidence", "verifying"} /\ host'.at \in HostStages
    BY <1>8, <2>2 DEF Download, HostAt, HostMinds, HostStages
  <2>4. QED BY <2>1, <2>2, <2>3, <1>0 DEF HostMinds
<1>9. QED
  BY <1>1, <1>2, <1>3, <1>4, <1>5, <1>6, <1>7, <1>8, <1>10 DEF HostStep

LEMMA OthersQuiet ==
  /\ HostStep \/ LoseReport \/ SkipCertificate \/ FailHost => UNCHANGED <<kit, registry>>
  /\ \A k \in Kits : KitStep(k) \/ CloseWithout(k) \/ Fail(k) => UNCHANGED <<host, paid, result>>
<1>1. HostStep \/ LoseReport \/ SkipCertificate \/ FailHost => UNCHANGED <<kit, registry>>
  BY DEF HostStep, chain, HostOnly, Seat, Pay, Record, Require, BindReady, TakeMandate, TakeRequest,
         TakeReport, ReportTimesOut, LoseReport, Download, Verify, Certify, SkipCertificate, FailHost
<1>2. \A k \in Kits : KitStep(k) \/ CloseWithout(k) \/ Fail(k) => UNCHANGED <<host, paid, result>>
  BY DEF KitStep, relay, chain, Post, Look, ReadFunding, Register, ReadRoster, ReadMandate,
         ReadTerms, ReadWatching, Anchor, FinishRole, SkipReport, Upload, Close, CloseWithout, Fail
<1>3. QED BY <1>1, <1>2

\* The chain, the certificate, the packages and the counters.
LEMMA RestType ==
  ASSUME TypeOK, Next
  PROVE  /\ evidence' \in [Roles -> Kits \cup {Nobody}] /\ result' \in Certificates
         /\ paid' \in Seq(Kits) /\ registry' \in Seq(Kits) /\ ledger' \in Nat
         /\ failed' \in Nat /\ repeats' \in Nat
<1> /\ evidence \in [Roles -> Kits \cup {Nobody}] /\ result \in Certificates
    /\ paid \in Seq(Kits) /\ registry \in Seq(Kits) /\ ledger \in Nat
    /\ failed \in Nat /\ repeats \in Nat
  BY DEF TypeOK
<1>1. ASSUME NEW k \in Kits, KitStep(k) \/ CloseWithout(k) \/ Fail(k)
      PROVE  /\ evidence' \in [Roles -> Kits \cup {Nobody}]
             /\ registry' \in Seq(Kits) /\ ledger' \in Nat /\ failed' \in Nat /\ repeats' \in Nat
  <2>1. CASE Register(k)
    BY <2>1, AppendProperties DEF Register, relay
  <2>2. CASE Upload(k)
    BY <2>2, RoleType DEF Upload, chain
  <2>3. CASE ~Register(k) /\ ~Upload(k)
    BY <1>1, <2>3 DEF KitStep, relay, chain, Again, Fails, Post, Look, ReadFunding, ReadRoster,
       ReadMandate, ReadTerms, ReadWatching, Anchor, FinishRole, SkipReport, Close, CloseWithout, Fail
  <2>4. QED BY <2>1, <2>2, <2>3
<1>2. ASSUME HostStep \/ LoseReport \/ SkipCertificate \/ FailHost
      PROVE  /\ evidence' \in [Roles -> Kits \cup {Nobody}] /\ result' \in Certificates
             /\ paid' \in Seq(Kits) /\ ledger' \in Nat /\ failed' \in Nat /\ repeats' \in Nat
  <2>1. CASE Pay
    <3>1. host.seat[host.role] \in Kits
      BY <2>1 DEF Pay, TypeOK, HostOK, HostMinds, HostAt
    <3>2. QED BY <2>1, <3>1, AppendProperties DEF Pay, relay
  <2>2. CASE Certify
    <3>1. [r \in Roles |-> Party(host.seat[r], host.agent[r])]
            \in [Roles -> [address : Kits \cup {Nobody}, agent : Nat]]
      BY DEF TypeOK, HostOK, HostMinds, Party
    <3>2. result' \in Certificates
      BY <2>2, <3>1 DEF Certify, Certificates
    <3>3. QED BY <2>2, <3>2 DEF Certify, chain
  <2>3. CASE Record \/ Require
    BY <2>3 DEF chain, Again, Record, Require
  <2>4. CASE LoseReport \/ SkipCertificate \/ FailHost
    BY <2>4 DEF relay, chain, Fails, LoseReport, SkipCertificate, FailHost
  <2>5. CASE Seat \/ BindReady \/ TakeMandate \/ TakeRequest \/ TakeReport \/ ReportTimesOut \/ Verify
    BY <2>5 DEF relay, chain, HostOnly, Seat, BindReady, TakeMandate, TakeRequest, TakeReport,
                ReportTimesOut, Verify
  <2>6. CASE \E r \in Roles : Download(r)
    BY <2>6 DEF relay, chain, HostOnly, Download
  <2>7. QED BY <1>2, <2>1, <2>2, <2>3, <2>4, <2>5, <2>6 DEF HostStep
<1>3. QED BY <1>1, <1>2, OthersQuiet DEF Next

LEMMA TypeKeeps ==
  ASSUME TypeOK, [Next]_vars
  PROVE  TypeOK'
<1>1. CASE UNCHANGED vars
  BY <1>1 DEF vars, TypeOK, KitOK, HostOK, At, HostAt
<1>2. ASSUME NEW k \in Kits, KitStep(k) \/ CloseWithout(k) \/ Fail(k)
      PROVE  TypeOK'
  <2>1. KitOK' /\ UNCHANGED host
    BY <1>2, KitStepType, OthersQuiet
  <2>2. log' \in Seq(Messages) /\ DOMAIN log \subseteq DOMAIN log'
    BY <1>2, LogStep, LogStays DEF Next, TypeOK
  <2>3. HostOK'
    BY <2>1, <2>2 DEF TypeOK, HostOK, HostAt
  <2>4. Next
    BY <1>2 DEF Next
  <2>5. QED BY <2>1, <2>2, <2>3, <2>4, RestType DEF TypeOK
<1>3. ASSUME HostStep \/ LoseReport \/ SkipCertificate \/ FailHost
      PROVE  TypeOK'
  <2>1. HostOK' /\ UNCHANGED kit
    BY <1>3, HostStepType, OthersQuiet
  <2>2. KitOK'
    BY <2>1 DEF TypeOK, KitOK, At
  <2>3. Next
    BY <1>3 DEF Next
  <2>4. log' \in Seq(Messages)
    BY <2>3, LogStep
  <2>5. QED BY <2>1, <2>2, <2>3, <2>4, RestType DEF TypeOK
<1>4. QED BY <1>1, <1>2, <1>3 DEF Next

LEMMA InitType == Init => TypeOK
<1> SUFFICES ASSUME Init PROVE TypeOK
  OBVIOUS
<1>1. KitOK
  BY DEF Init, KitOK, At, Minds, Stages, Certificates
<1>2. HostOK
  BY DEF Init, HostOK, HostAt, HostMinds, HostStages, Roles
<1>3. QED BY <1>1, <1>2 DEF Init, TypeOK, Certificates

----------------------------------------------------------------------------
(* What a step changes                                                     *)

LEMMA KitFrame ==
  ASSUME TypeOK, NEW k \in Kits, NEW q \in Kits, KitStep(q) \/ CloseWithout(q) \/ Fail(q)
  PROVE  /\ kit'[k].agent = kit[k].agent \/ Register(k)
         /\ kit'[k].at = "invited" => At(k, "invited")
         /\ kit'[k].at \in Unregistered => kit[k].at \in Unregistered /\ ~Register(k)
         /\ kit'[k].at \in {"registered", "rostering"} =>
              kit[k].at \in {"registered", "rostering"} \/ Register(k)
         /\ kit'[k].at = "offering" =>
              ReadRoster(k) \/ (At(k, "offering") /\ kit'[k].heard = kit[k].heard)
         /\ kit'[k].at = "outseated" => At(k, "outseated") \/ Look(k) \/ ReadFunding(k)
<1> kit \in [Kits -> Minds] /\ kit[k] \in Minds
  BY DEF TypeOK, KitOK
<1>1. CASE k # q
  <2>1. kit'[k] = kit[k]
    BY <1>1, KitStepType
  <2>2. ~Register(k)
    <3>1. SUFFICES ASSUME Register(k) PROVE FALSE
      OBVIOUS
    <3>2. kit'[k].at = "registered" /\ kit[k].at = "funded"
      BY <3>1 DEF Register, At, Minds
    <3>3. QED BY <2>1, <3>2
  <2>3. QED BY <2>1, <2>2 DEF At
<1>2. CASE k = q
  <2>1. CASE Post(k)
    <3>1. CASE UNCHANGED kit
      <4>1. ~Register(k)
        BY <2>1, <3>1 DEF Register, At, Minds
      <4>2. QED BY <3>1, <4>1 DEF At
    <3>2. CASE Goes(k, Posts(k)[3])
      <4>1. /\ <<kit[k].at, Posts(k)[1], Posts(k)[3]>> \in Speech
            /\ kit'[k].at = Posts(k)[3] /\ kit'[k].agent = kit[k].agent
        BY <2>1, <3>2, PostCases DEF Post, Goes, Minds
      <4>2. ~Register(k)
        BY <4>1 DEF Register, At, Speech
      <4>3. QED BY <4>1, <4>2 DEF Speech, Unregistered, At
    <3>3. QED BY <2>1, <3>1, <3>2 DEF Post
  <2>2. CASE Register(k)
    <3>1. kit'[k].at = "registered"
      BY <2>2 DEF Register, Minds
    <3>2. ~ (kit'[k].at \in Unregistered)
      BY <3>1 DEF Unregistered
    <3>3. QED BY <2>2, <3>1, <3>2
  <2>3. CASE ReadRoster(k)
    <3>1. kit'[k].at = "offering" /\ kit'[k].agent = kit[k].agent
      BY <2>3 DEF ReadRoster, Minds
    <3>2. QED BY <2>3, <3>1 DEF Unregistered
  <2>4. CASE ReadMandate(k)
    <3>1. kit'[k].at = "requesting" /\ kit'[k].agent = kit[k].agent
      BY <2>4 DEF ReadMandate, Minds
    <3>2. QED BY <3>1 DEF Unregistered
  <2>5. CASE Look(k) \/ ReadFunding(k)
    <3>1. /\ kit'[k].at \in {"claiming", "funded", "outseated"} /\ kit'[k].agent = kit[k].agent
          /\ kit[k].at \in Unregistered
      BY <2>5 DEF Look, ReadFunding, Goes, At, Unregistered, Minds
    <3>2. ~Register(k)
      <4>1. Register(k) => kit'[k].at = "registered"
        BY DEF Register, Minds
      <4>2. QED BY <3>1, <4>1
    <3>3. QED BY <2>5, <3>1, <3>2 DEF Unregistered
  <2>6. CASE Anchor(k)
    <3>1. kit' = kit /\ ~Register(k)
      BY <2>6 DEF Anchor, Register, At, Minds
    <3>2. QED BY <3>1 DEF At
  <2>7. CASE \/ ReadTerms(k) \/ ReadWatching(k) \/ FinishRole(k) \/ SkipReport(k) \/ Upload(k)
             \/ Close(k) \/ CloseWithout(k) \/ Fail(k)
    <3>1. /\ kit'[k].at \in {"opening", "entering", "running", "reporting", "uploading", "closing",
                             "done", "stopped"}
          /\ kit'[k].agent = kit[k].agent
      BY <2>7 DEF ReadTerms, ReadWatching, FinishRole, SkipReport, Upload, Close, CloseWithout, Fail,
                  Goes, Minds
    <3>2. QED BY <3>1 DEF Unregistered
  <2>8. QED
    BY <1>1, <1>2, <2>1, <2>2, <2>3, <2>4, <2>5, <2>6, <2>7 DEF KitStep
<1>3. QED BY <1>1, <1>2

LEMMA HostFrame ==
  ASSUME TypeOK, HostStep \/ LoseReport \/ SkipCertificate \/ FailHost
  PROVE  /\ Seat \/ (host'.seat = host.seat /\ host'.role = host.role)
         /\ BindReady \/ host'.agent = host.agent
         /\ TakeMandate \/ host'.parties = host.parties
         /\ (\E r \in Roles : Download(r)) \/ ReportTimesOut \/ host'.got = host.got
         /\ Pay \/ paid' = paid
         /\ Certify \/ result' = result
<1> host \in HostMinds
  BY DEF TypeOK, HostOK
<1>1. CASE Seat \/ BindReady \/ TakeMandate \/ TakeRequest \/ TakeReport \/ ReportTimesOut \/ Verify
  BY <1>1 DEF Seat, BindReady, TakeMandate, TakeRequest, TakeReport, ReportTimesOut, Verify, HostOnly,
              relay, chain, HostMinds
<1>2. CASE Pay \/ Certify
  BY <1>2 DEF Pay, Certify, relay, chain, HostMinds
<1>5. CASE Record
  <2>1. /\ host' = host \/ \E at : host' = [host EXCEPT !.at = at]
        /\ paid' = paid /\ result' = result
    BY <1>5 DEF Record, chain
  <2>2. /\ host'.seat = host.seat /\ host'.role = host.role /\ host'.agent = host.agent
        /\ host'.parties = host.parties /\ host'.got = host.got
    BY <2>1 DEF HostMinds
  <2>3. QED BY <2>1, <2>2
<1>7. CASE Require
  <2>1. /\ host' = host \/ host' = [host EXCEPT !.at = "report"]
        /\ paid' = paid /\ result' = result
    BY <1>7 DEF Require, chain
  <2>2. QED BY <2>1 DEF HostMinds
<1>6. CASE LoseReport \/ SkipCertificate \/ FailHost
  BY <1>6 DEF LoseReport, SkipCertificate, FailHost, relay, chain, HostMinds
<1>3. CASE \E r \in Roles : Download(r)
  BY <1>3 DEF Download, HostOnly, relay, chain, HostMinds
<1>4. QED BY <1>1, <1>2, <1>3, <1>5, <1>6, <1>7 DEF HostStep

\* Where the host goes.
HostEdges ==
  {<<"funding", "paying">>, <<"paying", "recording">>, <<"recording", "funding">>,
   <<"recording", "registering">>, <<"registering", "mandate">>, <<"mandate", "request">>,
   <<"request", "requiring">>, <<"requiring", "report">>, <<"report", "evidence">>,
   <<"report", "verifying">>, <<"evidence", "verifying">>, <<"verifying", "certifying">>, <<"certifying", "complete">>}

LEMMA HostGoes ==
  ASSUME TypeOK, HostStep \/ LoseReport \/ SkipCertificate \/ FailHost
  PROVE  \/ host'.at = host.at
         \/ host'.at = "stopped" /\ host.at # "complete"
         \/ <<host.at, host'.at>> \in HostEdges
<1> host \in HostMinds
  BY DEF TypeOK, HostOK
<1>1. CASE Seat \/ TakeMandate \/ TakeRequest \/ TakeReport \/ ReportTimesOut \/ Verify
  BY <1>1 DEF Seat, TakeMandate, TakeRequest, TakeReport, ReportTimesOut, Verify, HostAt, HostMinds,
              HostEdges
<1>2. CASE Pay \/ Record \/ Require \/ Certify \/ LoseReport \/ SkipCertificate \/ FailHost
  BY <1>2 DEF Pay, Record, Require, Certify, LoseReport, SkipCertificate, FailHost, HostAt, HostMinds,
              HostEdges
<1>3. CASE BindReady
  BY <1>3 DEF BindReady, HostAt, HostMinds, HostEdges
<1>4. CASE \E r \in Roles : Download(r)
  BY <1>4 DEF Download, HostAt, HostMinds, HostEdges
<1>5. QED BY <1>1, <1>2, <1>3, <1>4 DEF HostStep

----------------------------------------------------------------------------
(* The seats                                                               *)

\* Who claimed a seat first stays so.
LEMMA FirstClaimStays ==
  ASSUME TypeOK, Grows, NEW r, Claimed(r)
  PROVE  Claimed(r)' /\ First(r)' = First(r)
<1>1. /\ Of("identity_ready", r)' # {}
      /\ Oldest(Of("identity_ready", r))' = Oldest(Of("identity_ready", r))
      /\ Oldest(Of("identity_ready", r)) \in DOMAIN log
  BY FirstStays DEF TypeOK, Claimed
<1>2. \A i \in DOMAIN log : log'[i] = log[i]
  BY LogStays DEF TypeOK
<1>3. QED BY <1>1, <1>2 DEF Claimed, First

LEMMA FirstType ==
  ASSUME TypeOK, NEW r, Claimed(r)
  PROVE  /\ Oldest(Of("identity_ready", r)) \in Of("identity_ready", r)
         /\ First(r) \in Kits /\ RoleOf(First(r)) = r
<1>1. Of("identity_ready", r) \subseteq Nat
  BY BodyType DEF Of
<1>2. Oldest(Of("identity_ready", r)) \in Of("identity_ready", r)
  BY <1>1, OldestIsLeast DEF Claimed
<1>3. \A i \in Of("identity_ready", r) : log[i].from \in Kits /\ log[i].role = RoleOf(log[i].from)
  <2>1. \A i \in DOMAIN log : log[i] \in Messages
    BY DEF TypeOK
  <2>2. QED BY <2>1, KitAssumption DEF Of, Messages
<1>4. QED BY <1>2, <1>3 DEF First, Of

\* As long as no seat is given, and no claim taken, a longer log changes nothing.
LEMMA SeatStays ==
  ASSUME TypeOK, SeatInv, Grows, host'.seat = host.seat,
         \A i \in host'.taken \ host.taken : i \in DOMAIN log /\ log[i].kind # "identity_ready"
  PROVE  SeatInv'
<1>1. SUFFICES ASSUME NEW r \in Roles
      PROVE  /\ host.seat[r] # Nobody =>
                  RoleOf(host.seat[r]) = r /\ Claimed(r)' /\ host.seat[r] = First(r)'
             /\ host.seat[r] = Nobody => Of("identity_ready", r)' \cap host'.taken = {}
  BY DEF SeatInv
<1>2. ASSUME host.seat[r] # Nobody
      PROVE  RoleOf(host.seat[r]) = r /\ Claimed(r)' /\ host.seat[r] = First(r)'
  BY <1>2, FirstClaimStays DEF SeatInv
<1>3. ASSUME host.seat[r] = Nobody, NEW i \in Of("identity_ready", r)', i \in host'.taken
      PROVE  FALSE
  <2>1. i \in DOMAIN log
    BY <1>3 DEF TypeOK, HostOK
  <2>2. i \in Of("identity_ready", r)
    BY <1>3, <2>1, LogStays DEF Of, TypeOK
  <2>3. i \in host.taken
    BY <1>3, <2>2 DEF Of
  <2>4. QED BY <1>3, <2>2, <2>3 DEF SeatInv
<1>4. QED BY <1>2, <1>3

\* The seat goes to the first that claimed it.
LEMMA SeatGoesToFirst ==
  ASSUME TypeOK, SeatInv, Seat
  PROVE  /\ SeatInv' /\ host'.role \in Roles /\ host.seat[host'.role] = Nobody
         /\ Claimed(host'.role)
         /\ host'.seat = [host.seat EXCEPT ![host'.role] = First(host'.role)]
         /\ host'.at = "paying"
<1> DEFINE i == Oldest(Claims)
           r == log[i].role
<1>1. Claims \subseteq Nat /\ Claims # {}
  BY BodyType DEF Seat, Claims, Unread
<1>2. i \in Claims /\ \A j \in Claims : i <= j
  BY <1>1, OldestIsLeast
<1>3. i \in Of("identity_ready", r) /\ i \in Nat /\ host.seat[r] = Nobody
  BY <1>1, <1>2 DEF Claims, Unread, Of
<1>4. r \in Roles
  <2>1. log[i] \in Messages /\ log[i].kind = "identity_ready"
    <3> HIDE DEF i
    <3>1. i \in DOMAIN log /\ log[i].kind = "identity_ready"
      BY ONLY <1>2 DEF Claims, Unread
    <3>2. log \in Seq(Messages)
      BY DEF TypeOK
    <3>3. QED BY ONLY <3>1, <3>2
  <2>2. log[i].role = RoleOf(log[i].from)
    BY <2>1, KitAssumption DEF Messages
  <2>3. QED BY <2>2, RoleType
<1>5. Of("identity_ready", r) \subseteq Claims
  <2>1. Of("identity_ready", r) \cap host.taken = {}
    BY <1>3, <1>4 DEF SeatInv
  <2>2. QED BY <1>3, <2>1 DEF Of, Claims, Unread
<1>6. Oldest(Of("identity_ready", r)) = i
  BY <1>1, <1>2, <1>3, <1>5, LeastIsOldest
<1>7. Claimed(r) /\ First(r) = log[i].from
  BY <1>3, <1>6 DEF Claimed, First
<1>8. /\ host' = [host EXCEPT !.at = "paying", !.taken = @ \cup {i}, !.role = r,
                              !.seat[r] = log[i].from]
      /\ UNCHANGED log
  BY DEF Seat, HostOnly, relay
<1>9. host \in HostMinds
  BY DEF TypeOK, HostOK
<1>10. /\ host'.at = "paying" /\ host'.taken = host.taken \cup {i} /\ host'.role = r
       /\ host'.seat = [host.seat EXCEPT ![r] = First(r)]
  BY <1>7, <1>8, <1>9 DEF HostMinds
<1> HIDE DEF i, r
<1>11. SeatInv'
  <2>1. SUFFICES ASSUME NEW s \in Roles
        PROVE  /\ host'.seat[s] # Nobody =>
                    RoleOf(host'.seat[s]) = s /\ Claimed(s)' /\ host'.seat[s] = First(s)'
               /\ host'.seat[s] = Nobody => Of("identity_ready", s)' \cap host'.taken = {}
    BY DEF SeatInv
  <2>2. /\ Claimed(s)' <=> Claimed(s)
        /\ First(s)' = First(s)
        /\ Of("identity_ready", s)' = Of("identity_ready", s)
    BY <1>8 DEF Claimed, First, Of
  <2>3. CASE s = r
    <3>1. host'.seat[s] = First(s) /\ First(s) \in Kits /\ RoleOf(First(s)) = s
      BY <1>4, <1>7, <1>9, <1>10, <2>3, FirstType DEF HostMinds
    <3>2. First(s) # Nobody
      BY <3>1, KitAssumption
    <3>3. QED BY <1>7, <2>2, <2>3, <3>1, <3>2
  <2>4. CASE s # r
    <3>1. host'.seat[s] = host.seat[s]
      BY <1>4, <1>9, <1>10, <2>4 DEF HostMinds
    <3>2. i \notin Of("identity_ready", s)
      BY <1>3, <2>4 DEF Of
    <3>3. QED BY <1>10, <2>2, <3>1, <3>2 DEF SeatInv
  <2>5. QED BY <2>3, <2>4
<1>12. QED BY <1>3, <1>4, <1>7, <1>10, <1>11

LEMMA SeatKeeps ==
  ASSUME TypeOK, SeatInv, [Next]_vars
  PROVE  SeatInv'
<1>1. Grows
  BY LogStep
<1>2. CASE UNCHANGED host
  BY <1>1, <1>2, SeatStays
<1>3. CASE Seat
  BY <1>3, SeatGoesToFirst
<1>4. CASE BindReady
  <2> DEFINE i == Oldest(Ready)
  <2>1. i \in Ready
    <3>1. Ready \subseteq Nat /\ Ready # {}
      BY <1>4, BodyType DEF BindReady, Ready, Unread
    <3>2. QED BY <3>1, OldestIsLeast
  <2>2. i \in DOMAIN log /\ log[i].kind = "party_ready"
    BY <2>1 DEF Ready, Unread
  <2>3. host'.seat = host.seat /\ host'.taken = host.taken \cup {i}
    BY <1>4 DEF BindReady, TypeOK, HostOK, HostMinds
  <2> HIDE DEF i
  <2>4. QED BY <1>1, <2>2, <2>3, SeatStays
<1>5. CASE TakeMandate \/ TakeRequest \/ TakeReport
  <2>1. PICK i \in DOMAIN log : /\ log[i].kind # "identity_ready"
                                /\ host'.seat = host.seat /\ host'.taken = host.taken \cup {i}
    <3>1. CASE TakeMandate
      <4> DEFINE places == Of("mandate", "payer") \cap Unread
      <4>1. places \subseteq Nat /\ places # {}
        BY <3>1, BodyType DEF TakeMandate, Unread
      <4>2. Oldest(places) \in places
        BY <4>1, OldestIsLeast
      <4>3. Oldest(places) \in DOMAIN log /\ log[Oldest(places)].kind # "identity_ready"
        BY <4>2 DEF Of
      <4>4. host'.seat = host.seat /\ host'.taken = host.taken \cup {Oldest(places)}
        BY <3>1 DEF TakeMandate, TypeOK, HostOK, HostMinds
      <4>5. QED BY <4>3, <4>4
    <3>2. CASE TakeRequest
      <4> DEFINE places == Of("payment_request", "requestor") \cap Unread
      <4>1. places \subseteq Nat /\ places # {}
        BY <3>2, BodyType DEF TakeRequest, Unread
      <4>2. Oldest(places) \in places
        BY <4>1, OldestIsLeast
      <4>3. Oldest(places) \in DOMAIN log /\ log[Oldest(places)].kind # "identity_ready"
        BY <4>2 DEF Of
      <4>4. host'.seat = host.seat /\ host'.taken = host.taken \cup {Oldest(places)}
        BY <3>2 DEF TakeRequest, TypeOK, HostOK, HostMinds
      <4>5. QED BY <4>3, <4>4
    <3>4. CASE TakeReport
      <4> DEFINE places == Of("anchor_report", "payer") \cap Unread
      <4>1. places \subseteq Nat /\ places # {}
        BY <3>4, BodyType DEF TakeReport, Unread
      <4>2. Oldest(places) \in places
        BY <4>1, OldestIsLeast
      <4>3. Oldest(places) \in DOMAIN log /\ log[Oldest(places)].kind # "identity_ready"
        BY <4>2 DEF Of
      <4>4. host'.seat = host.seat /\ host'.taken = host.taken \cup {Oldest(places)}
        BY <3>4 DEF TakeReport, TypeOK, HostOK, HostMinds
      <4>5. QED BY <4>3, <4>4
    <3>3. QED BY <1>5, <3>1, <3>2, <3>4
  <2>2. QED BY <1>1, <2>1, SeatStays
<1>6. CASE \/ Pay \/ Record \/ Require \/ ReportTimesOut \/ LoseReport \/ Verify \/ Certify
           \/ SkipCertificate \/ FailHost \/ \E r \in Roles : Download(r)
  <2>1. host'.seat = host.seat /\ host'.taken = host.taken
    <3> host \in HostMinds
      BY DEF TypeOK, HostOK
    <3>1. CASE \/ Pay \/ ReportTimesOut \/ LoseReport \/ Verify \/ Certify
               \/ SkipCertificate \/ FailHost
      BY <3>1 DEF Pay, ReportTimesOut, LoseReport, Verify, Certify, SkipCertificate, FailHost, HostMinds
    <3>2. CASE Record
      BY <3>2 DEF Record, HostMinds
    <3>3. CASE Require
      BY <3>3 DEF Require, HostMinds
    <3>4. CASE \E r \in Roles : Download(r)
      BY <3>4 DEF Download, HostMinds
    <3>5. QED BY <1>6, <3>1, <3>2, <3>3, <3>4
  <2>2. QED BY <1>1, <2>1, SeatStays
<1>7. QED
  BY <1>2, <1>3, <1>4, <1>5, <1>6, OthersQuiet DEF Next, HostStep, vars

----------------------------------------------------------------------------
(* Payments and registrations                                              *)

LEMMA Registers ==
  ASSUME TypeOK, NEW k \in Kits, Register(k)
  PROVE  /\ registry' \in Seq(Kits) /\ Len(registry') = Len(registry) + 1
         /\ \A i \in DOMAIN registry : i \in DOMAIN registry' /\ registry'[i] = registry[i]
         /\ registry'[Len(registry')] = k /\ kit'[k].agent = Len(registry')
         /\ Len(registry') \in DOMAIN registry' /\ Len(registry') # 0
<1>1. registry' = Append(registry, k) /\ registry \in Seq(Kits)
  BY DEF Register, TypeOK
<1>2. /\ registry' \in Seq(Kits) /\ Len(registry') = Len(registry) + 1
      /\ \A i \in 1..Len(registry) : registry'[i] = registry[i]
      /\ registry'[Len(registry) + 1] = k
  BY <1>1, AppendProperties
<1>3. DOMAIN registry = 1..Len(registry) /\ DOMAIN registry' = 1..Len(registry') /\ Len(registry) \in Nat
  BY <1>1, <1>2, LenProperties
<1>4. kit'[k].agent = Len(registry')
  BY DEF Register, ReceiptId, TypeOK, KitOK, Minds
<1>5. QED BY <1>2, <1>3, <1>4

\* What is registered stays so, and an agent id that a kit has it keeps.
LEMMA AgentStays ==
  ASSUME TypeOK, KitInv, [Next]_vars
  PROVE  /\ \A k \in Kits : kit[k].agent # 0 => kit'[k].agent = kit[k].agent
         /\ \A i \in DOMAIN registry : i \in DOMAIN registry' /\ registry'[i] = registry[i]
<1>1. CASE \E k \in Kits : Register(k)
  <2>1. PICK k \in Kits : Register(k)
    BY <1>1
  <2>2. kit[k].agent = 0
    BY <2>1 DEF Register, At, KitInv, Unregistered
  <2>3. \A q \in Kits : q # k => kit'[q] = kit[q]
    BY <2>1, KitStepType DEF KitStep
  <2>4. QED BY <2>1, <2>2, <2>3, Registers
<1>2. ASSUME ~ \E k \in Kits : Register(k)
      PROVE  (\A k \in Kits : kit'[k].agent = kit[k].agent) /\ registry' = registry
  <2>1. CASE UNCHANGED vars
    BY <2>1 DEF vars
  <2>2. ASSUME NEW q \in Kits, KitStep(q) \/ CloseWithout(q) \/ Fail(q)
        PROVE  (\A k \in Kits : kit'[k].agent = kit[k].agent) /\ registry' = registry
    <3>1. \A k \in Kits : kit'[k].agent = kit[k].agent
      BY <1>2, <2>2, KitFrame
    <3>2. registry' = registry
      BY <1>2, <2>2 DEF KitStep, relay, chain, Post, Look, ReadFunding, ReadRoster, ReadMandate,
         ReadTerms, ReadWatching, Anchor, FinishRole, SkipReport, Upload, Close, CloseWithout, Fail
    <3>3. QED BY <3>1, <3>2
  <2>3. QED BY <2>1, <2>2, OthersQuiet DEF Next
<1>3. QED BY <1>1, <1>2

\* The seats' holders are paid, each once.
LEMMA PaidKeeps ==
  ASSUME TypeOK, SeatInv, PaidInv, [Next]_vars
  PROVE  PaidInv'
<1> paid \in Seq(Kits) /\ DOMAIN paid \subseteq Nat /\ host \in HostMinds
  BY DEF TypeOK, HostOK
<1>1. ASSUME NEW k \in Kits, KitStep(k) \/ CloseWithout(k) \/ Fail(k)
      PROVE  PaidInv'
  <2>1. UNCHANGED <<host, paid>>
    BY <1>1, OthersQuiet
  <2>2. \A i \in OfKind("funding_record")' : log'[i].body \in ToSet(paid)
    <3>1. CASE Post(k)
      <4>1. Posts(k)[1] # "funding_record"
        BY <3>1, PostCases DEF Post, Speech
      <4>2. QED BY <3>1, <4>1, PostSays, LogStays DEF OfKind, PaidInv, TypeOK
    <3>2. CASE UNCHANGED log
      BY <3>2 DEF OfKind, PaidInv
    <3>3. QED
      <4>1. ~Post(k) => Silent
        BY <1>1 DEF KitStep, Silent
      <4>2. QED BY <3>1, <3>2, <4>1, SilentQuiet
  <2>3. ToSet(registry') \subseteq ToSet(paid)
    <3>1. CASE Register(k)
      <4>1. k \in ToSet(paid)
        BY <3>1 DEF Register
      <4>2. \A i \in DOMAIN registry' : i \in DOMAIN registry \/ i = Len(registry')
        BY <3>1, Registers, LenProperties DEF TypeOK
      <4>3. QED BY <3>1, <4>1, <4>2, Registers DEF ToSet, PaidInv
    <3>2. CASE ~Register(k)
      <4>1. registry' = registry
        BY <1>1, <3>2 DEF KitStep, relay, chain, Post, Look, ReadFunding, ReadRoster, ReadMandate,
           ReadTerms, ReadWatching, Anchor, FinishRole, SkipReport, Upload, Close, CloseWithout, Fail
      <4>2. QED BY <4>1 DEF PaidInv
    <3>3. QED BY <3>1, <3>2
  <2>4. QED BY <2>1, <2>2, <2>3 DEF PaidInv, HostAt
<1>2. CASE Seat
  <2> DEFINE r == host'.role
  <2>1. /\ r \in Roles /\ host.seat[r] = Nobody /\ Claimed(r) /\ host'.at = "paying"
        /\ host'.seat = [host.seat EXCEPT ![r] = First(r)]
    BY <1>2, SeatGoesToFirst
  <2>2. UNCHANGED <<log, paid, registry>>
    BY <1>2 DEF Seat, HostOnly, relay, chain
  <2>3. \A i \in DOMAIN paid : RoleOf(paid[i]) \in Roles /\ RoleOf(paid[i]) # r
    <3>1. \A i \in DOMAIN paid : paid[i] \in Kits /\ paid[i] = host.seat[RoleOf(paid[i])]
      BY DEF PaidInv
    <3>2. QED BY <2>1, <3>1, RoleType, KitAssumption
  <2>4. /\ \A s \in Roles : s # r => host'.seat[s] = host.seat[s]
        /\ host'.seat[r] = First(r)
    BY <2>1 DEF HostMinds
  <2> HIDE DEF r
  <2>5. First(r) \notin ToSet(paid)
    BY <2>1, <2>3, FirstType DEF ToSet
  <2>6. \A i \in DOMAIN paid : paid[i] = host'.seat[RoleOf(paid[i])]
    BY <2>3, <2>4 DEF PaidInv
  <2>7. host'.seat[host'.role] \notin ToSet(paid)
    BY <2>4, <2>5 DEF r
  <2>8. QED BY <2>1, <2>2, <2>6, <2>7 DEF PaidInv, HostAt, OfKind
<1>3. CASE Pay
  <2> DEFINE k == host.seat[host.role]
  <2>1. k \in Kits /\ RoleOf(k) = host.role /\ k \notin ToSet(paid)
    BY <1>3 DEF Pay, HostAt, TypeOK, HostOK, HostMinds, SeatInv, PaidInv
  <2>2. /\ paid' = Append(paid, k) /\ host' = [host EXCEPT !.at = "recording"]
        /\ UNCHANGED <<log, registry>>
    BY <1>3 DEF Pay, relay
  <2>3. host'.seat = host.seat /\ host'.at = "recording" /\ host'.role = host.role
    BY <2>2 DEF HostMinds
  <2> HIDE DEF k
  <2>4. /\ Len(paid') = Len(paid) + 1 /\ paid' \in Seq(Kits)
        /\ \A i \in 1..Len(paid) : paid'[i] = paid[i]
        /\ paid'[Len(paid) + 1] = k
    BY <2>1, <2>2, AppendProperties
  <2>5. DOMAIN paid = 1..Len(paid) /\ DOMAIN paid' = 1..Len(paid') /\ Len(paid) \in Nat
    BY <2>4, LenProperties
  <2>6. ToSet(paid) \subseteq ToSet(paid') /\ k \in ToSet(paid')
    BY <2>4, <2>5 DEF ToSet
  <2>7. \A i \in DOMAIN paid' : i \in DOMAIN paid \/ i = Len(paid) + 1
    BY <2>4, <2>5
  <2>8. \A i \in DOMAIN paid' : paid'[i] = host'.seat[RoleOf(paid'[i])]
    BY <2>1, <2>3, <2>4, <2>5, <2>7 DEF PaidInv, k
  <2>9. \A i, j \in DOMAIN paid' : paid'[i] = paid'[j] => i = j
    BY <2>1, <2>4, <2>5, <2>7 DEF PaidInv, ToSet
  <2>10. /\ \A i \in OfKind("funding_record")' : log'[i].body \in ToSet(paid')
         /\ ToSet(registry') \subseteq ToSet(paid')
    BY <2>2, <2>6 DEF PaidInv, OfKind
  <2>11. host'.seat[host'.role] = k
    BY <2>3 DEF k
  <2>12. QED BY <2>3, <2>6, <2>8, <2>9, <2>10, <2>11 DEF PaidInv, HostAt
<1>4. CASE Record
  <2>1. UNCHANGED <<paid, registry>> /\ host'.seat = host.seat /\ host'.role = host.role
    <3>1. ~Seat /\ ~Pay
      BY <1>4 DEF Record, Seat, Pay, HostAt
    <3>2. QED BY <1>4, <3>1, HostFrame DEF HostStep, Record, chain
  <2>2. host'.at \in {"recording", "funding", "registering"}
    BY <1>4 DEF Record, HostAt, HostMinds
  <2>3. host.seat[host.role] \in ToSet(paid)
    BY <1>4 DEF Record, PaidInv
  <2>4. \A i \in OfKind("funding_record")' : log'[i].body \in ToSet(paid)
    BY <1>4, <2>3, RecordSays, LogStays DEF OfKind, PaidInv, TypeOK
  <2>5. QED BY <2>1, <2>2, <2>3, <2>4 DEF PaidInv, HostAt
<1>5. CASE /\ HostStep \/ LoseReport \/ SkipCertificate \/ FailHost
           /\ ~Seat /\ ~Pay /\ ~Record
  <2>1. host'.seat = host.seat /\ host'.role = host.role /\ paid' = paid /\ registry' = registry
    BY <1>5, HostFrame, OthersQuiet
  <2>2. host'.at \in {"paying", "recording"} => host'.at = host.at
    <3>1. HostAt("paying") => FailHost
      BY <1>5 DEF HostStep, HostAt, Seat, Pay, Record, Require, BindReady, TakeMandate, TakeRequest,
                  TakeReport, ReportTimesOut, LoseReport, Download, Verify, Certify,
                  SkipCertificate, FailHost
    <3>2. HostAt("funding") => FailHost
      BY <1>5 DEF HostStep, HostAt, Seat, Pay, Record, Require, BindReady, TakeMandate, TakeRequest,
                  TakeReport, ReportTimesOut, LoseReport, Download, Verify, Certify,
                  SkipCertificate, FailHost
    <3>3. FailHost => host'.at = "stopped"
      BY DEF FailHost, HostMinds
    <3>4. QED BY <1>5, <3>1, <3>2, <3>3, HostGoes DEF HostEdges, HostAt
  <2>3. \A i \in OfKind("funding_record")' : log'[i].body \in ToSet(paid)
    <3>1. CASE Require
      BY <3>1, RequireSays, LogStays DEF OfKind, PaidInv, TypeOK
    <3>2. CASE UNCHANGED log
      BY <3>2 DEF OfKind, PaidInv
    <3>3. QED
      <4>1. ~Require => Silent
        BY <1>5 DEF HostStep, Silent
      <4>2. QED BY <3>1, <3>2, <4>1, SilentQuiet
  <2>4. QED BY <2>1, <2>2, <2>3 DEF PaidInv, HostAt
<1>6. CASE UNCHANGED vars
  BY <1>6 DEF vars, PaidInv, HostAt, OfKind
<1>7. QED BY <1>1, <1>2, <1>3, <1>4, <1>5, <1>6 DEF Next

----------------------------------------------------------------------------
(* The kits and what they say                                              *)

\* A new message of a claim or of readiness is a kit's own.
LEMMA NewWord ==
  ASSUME TypeOK, [Next]_vars, NEW i \in DOMAIN log' \ DOMAIN log
  PROVE  \/ log'[i].from = Nobody /\ log'[i].kind \in {"funding_record", "handshake_required"}
         \/ \E k \in Kits : /\ Post(k) /\ log'[i].from = k /\ log'[i].kind = Posts(k)[1]
                            /\ log'[i].role = RoleOf(k) /\ log'[i].body = Posts(k)[2]
<1>1. CASE UNCHANGED log
  BY <1>1
<1>2. CASE Record
  BY <1>2, RecordSays
<1>3. CASE Require
  BY <1>3, RequireSays
<1>4. CASE \E k \in Kits : Post(k)
  BY <1>4, PostSays
<1>5. QED BY <1>1, <1>2, <1>3, <1>4, SilentQuiet, Speakers DEF vars

LEMMA LogKeeps ==
  ASSUME TypeOK, KitInv, LogInv, [Next]_vars
  PROVE  LogInv'
<1> SUFFICES ASSUME NEW i \in DOMAIN log'
             PROVE  /\ log'[i].kind = "identity_ready" => log'[i].body = log'[i].from
                    /\ log'[i].kind = "party_ready" =>
                         /\ kit'[log'[i].from].agent # 0
                         /\ log'[i].body = Party(log'[i].from, kit'[log'[i].from].agent)
  BY DEF LogInv
<1>1. CASE i \in DOMAIN log
  <2>1. log'[i] = log[i] /\ log[i] \in Messages
    BY <1>1, LogStep, LogStays DEF TypeOK
  <2>2. log[i].kind = "party_ready" => log[i].from \in Kits
    BY <2>1 DEF Messages
  <2>3. QED BY <1>1, <2>1, <2>2, AgentStays DEF LogInv
<1>2. ASSUME i \notin DOMAIN log, NEW k \in Kits, Post(k), log'[i].from = k,
             log'[i].kind = Posts(k)[1], log'[i].body = Posts(k)[2]
      PROVE  /\ log'[i].kind = "identity_ready" => log'[i].body = log'[i].from
             /\ log'[i].kind = "party_ready" =>
                  /\ kit'[log'[i].from].agent # 0
                  /\ log'[i].body = Party(log'[i].from, kit'[log'[i].from].agent)
  <2>1. Posts(k)[1] = "party_ready" => kit[k].agent # 0
    BY <1>2, PostCases DEF Post, Speech, KitInv
  <2>2. QED BY <1>2, <2>1, PostCases, AgentStays DEF Post
<1>3. QED BY <1>1, <1>2, NewWord

\* A kit that lost: its rival holds the seat and claimed it first.
LEMMA LostToFirst ==
  ASSUME TypeOK, SeatInv, PaidInv, KitInv, NEW k \in Kits,
         Look(k) \/ ReadFunding(k), kit'[k].at = "outseated"
  PROVE  Claimed(RoleOf(k)) /\ First(RoleOf(k)) # k
<1> kit \in [Kits -> Minds] /\ kit[k] \in Minds
  BY DEF TypeOK, KitOK
<1>1. CASE Look(k)
  <2>1. Claimed(RoleOf(k))
    BY <1>1 DEF Look, Goes, Claimed, Minds
  <2>2. First(RoleOf(k)) # k
    BY <1>1, <2>1, FirstType DEF Look, KitInv, First, Of
  <2>3. QED BY <2>1, <2>2
<1>2. CASE ReadFunding(k)
  <2> DEFINE records == {i \in OfKind("funding_record") : Concerns(k, log[i])}
             w == log[Oldest(records)].body
  <2>1. records # {} /\ w # k
    BY <1>2 DEF ReadFunding, Goes, Minds
  <2>2. Oldest(records) \in records
    <3>1. records \subseteq Nat
      BY BodyType DEF OfKind
    <3>2. QED BY <2>1, <3>1, OldestIsLeast
  <2>3. w \in ToSet(paid) /\ RoleOf(w) = RoleOf(k)
    BY <2>1, <2>2 DEF PaidInv, Concerns
  <2>4. w \in Kits /\ w = host.seat[RoleOf(k)]
    <3>1. PICK i \in DOMAIN paid : paid[i] = w
      BY <2>3 DEF ToSet
    <3>2. paid \in Seq(Kits) /\ paid[i] = host.seat[RoleOf(paid[i])]
      BY DEF PaidInv, TypeOK
    <3> HIDE DEF w
    <3>3. QED BY ONLY i \in DOMAIN paid, <2>3, <3>1, <3>2
  <2>5. QED BY <2>1, <2>4, RoleType, KitAssumption DEF SeatInv
<1>3. QED BY <1>1, <1>2

LEMMA KitKeeps ==
  ASSUME TypeOK, SeatInv, PaidInv, KitInv, [Next]_vars
  PROVE  KitInv'
<1> SUFFICES ASSUME NEW k \in Kits
      PROVE  /\ kit'[k].at = "invited" => \A i \in DOMAIN log' : log'[i].from # k
             /\ kit'[k].at \in Unregistered => kit'[k].agent = 0
             /\ kit'[k].at \in {"registered", "rostering", "offering"} => kit'[k].agent # 0
             /\ kit'[k].agent # 0 => kit'[k].agent \in DOMAIN registry' /\ registry'[kit'[k].agent] = k
             /\ kit'[k].at = "outseated" => Claimed(RoleOf(k))' /\ First(RoleOf(k))' # k
  BY DEF KitInv, At
<1>1. /\ Register(k) \/ kit'[k].agent = kit[k].agent
      /\ kit'[k].at = "invited" => At(k, "invited")
      /\ kit'[k].at \in Unregistered => kit[k].at \in Unregistered /\ ~Register(k)
      /\ kit'[k].at \in {"registered", "rostering"} =>
           kit[k].at \in {"registered", "rostering"} \/ Register(k)
      /\ kit'[k].at = "offering" => ReadRoster(k) \/ At(k, "offering")
      /\ kit'[k].at = "outseated" => At(k, "outseated") \/ Look(k) \/ ReadFunding(k)
  <2>1. ASSUME NEW q \in Kits, KitStep(q) \/ CloseWithout(q) \/ Fail(q)
        PROVE  <1>1!:
    BY <2>1, KitFrame
  <2>2. CASE UNCHANGED kit
    <3>1. ~Register(k)
      BY <2>2 DEF Register, At, TypeOK, KitOK, Minds
    <3>2. QED BY <2>2, <3>1 DEF At
  <2>3. QED BY <2>1, <2>2, OthersQuiet DEF Next, vars
<1>2. kit'[k].at = "invited" => \A i \in DOMAIN log' : log'[i].from # k
  <2>1. SUFFICES ASSUME At(k, "invited"), NEW i \in DOMAIN log' PROVE log'[i].from # k
    BY <1>1
  <2>2. CASE i \in DOMAIN log
    BY <2>1, <2>2, LogStep, LogStays DEF TypeOK, KitInv
  <2>3. ~Post(k)
    BY <2>1, PostCases DEF Post, Speech, At
  <2>4. QED BY <2>2, <2>3, NewWord, KitAssumption
<1>3. kit'[k].at \in Unregistered => kit'[k].agent = 0
  BY <1>1 DEF KitInv
<1>4. kit'[k].at \in {"registered", "rostering", "offering"} => kit'[k].agent # 0
  <2>1. Register(k) => kit'[k].agent # 0
    BY Registers
  <2>2. ReadRoster(k) => kit[k].agent # 0
    BY DEF ReadRoster, At, KitInv
  <2>3. kit[k].at \in {"registered", "rostering", "offering"} => kit[k].agent # 0
    BY DEF KitInv
  <2>4. kit[k].agent # 0 => kit'[k].agent # 0
    BY AgentStays
  <2>5. QED BY <1>1, <2>1, <2>2, <2>3, <2>4 DEF At
<1>5. kit'[k].agent # 0 => kit'[k].agent \in DOMAIN registry' /\ registry'[kit'[k].agent] = k
  <2>1. CASE Register(k)
    BY <2>1, Registers
  <2>2. CASE kit'[k].agent = kit[k].agent
    BY <2>2, AgentStays DEF KitInv
  <2>3. QED BY <1>1, <2>1, <2>2
<1>6. kit'[k].at = "outseated" => Claimed(RoleOf(k))' /\ First(RoleOf(k))' # k
  <2>1. SUFFICES ASSUME kit'[k].at = "outseated"
        PROVE  Claimed(RoleOf(k)) /\ First(RoleOf(k)) # k
    BY FirstClaimStays, LogStep
  <2>2. CASE At(k, "outseated")
    BY <2>2 DEF KitInv
  <2>3. QED BY <1>1, <2>1, <2>2, LostToFirst
<1>7. QED BY <1>2, <1>3, <1>4, <1>5, <1>6

----------------------------------------------------------------------------
(* The two parties                                                         *)

\* A kit that is registered holds its role's seat.
LEMMA Holder ==
  ASSUME TypeOK, PaidInv, KitInv, NEW k \in Kits, kit[k].agent # 0
  PROVE  host.seat[RoleOf(k)] = k
<1>1. k \in ToSet(registry)
  BY DEF KitInv, ToSet
<1>2. PICK i \in DOMAIN paid : paid[i] = k
  BY <1>1 DEF PaidInv, ToSet
<1>3. QED BY <1>2 DEF PaidInv

\* A seat is given once.
LEMMA SeatLasts ==
  ASSUME TypeOK, SeatInv, [Next]_vars
  PROVE  \A r \in Roles : host.seat[r] # Nobody => host'.seat[r] = host.seat[r]
<1>1. CASE Seat
  BY <1>1, SeatGoesToFirst DEF TypeOK, HostOK, HostMinds
<1>2. CASE host'.seat = host.seat
  BY <1>2
<1>3. QED BY <1>1, <1>2, HostFrame, OthersQuiet DEF Next, vars

LEMMA SeatedStays ==
  ASSUME TypeOK, SeatInv, KitInv, [Next]_vars, BothSeated
  PROVE  BothSeated' /\ Seated' = Seated
<1>1. \A r \in Roles : /\ host'.seat[r] = host.seat[r] /\ host.seat[r] \in Kits
                       /\ kit'[host.seat[r]].agent = kit[host.seat[r]].agent
                       /\ kit[host.seat[r]].agent # 0
  BY SeatLasts, AgentStays, KitAssumption DEF BothSeated
<1>2. BothSeated'
  BY <1>1 DEF BothSeated
<1>3. Seated' = [r \in Roles |-> Party(host'.seat[r], kit'[host'.seat[r]].agent)]
  BY DEF Seated
<1>4. QED BY <1>1, <1>2, <1>3 DEF Seated

\* The payer's roster: the first requestor that claimed is the one that registered.
LEMMA RosterIsSeated ==
  ASSUME IInv, NEW k \in Kits, ReadRoster(k)
  PROVE  BothSeated /\ kit'[k].heard[1] = Seated["requestor"]
<1> TypeOK /\ KitInv /\ PaidInv /\ LogInv
  BY DEF IInv
<1> DEFINE claims == Of("identity_ready", "requestor")
           first == Oldest(claims)
           ready == {i \in Of("party_ready", "requestor") :
                       /\ i > first /\ log[i].from = log[first].from
                       /\ log[i].body.address = log[first].body}
           i == Oldest(ready)
           q == log[i].from
<1>1. ready # {} /\ kit'[k].heard = <<log[i].body>> /\ At(k, "rostering")
  BY DEF ReadRoster, TypeOK, KitOK, Minds
<1>2. i \in ready
  <2>1. ready \subseteq Nat
    BY BodyType DEF Of
  <2>2. QED BY <1>1, <2>1, OldestIsLeast
<1>3. i \in DOMAIN log /\ log[i].kind = "party_ready" /\ log[i].role = "requestor"
  BY <1>2 DEF Of
<1> HIDE DEF i
<1>4. q \in Kits /\ RoleOf(q) = "requestor"
  <2>1. log[i] \in Messages
    BY <1>3 DEF TypeOK
  <2>2. QED BY <1>3, <2>1, KitAssumption DEF Messages
<1>5. kit[q].agent # 0 /\ log[i].body = Party(q, kit[q].agent)
  BY <1>3 DEF LogInv
<1>6. host.seat["requestor"] = q
  BY <1>4, <1>5, Holder
<1>7. k \in Payers /\ kit[k].agent # 0
  BY <1>1 DEF KitInv, TypeOK, KitOK, At
<1>8. host.seat["payer"] = k
  BY <1>7, Holder DEF RoleOf
<1>9. BothSeated
  BY <1>4, <1>5, <1>6, <1>7, <1>8 DEF BothSeated, Roles
<1>10. Seated["requestor"] = Party(q, kit[q].agent)
  BY <1>6 DEF Seated, Roles
<1>11. QED BY <1>1, <1>5, <1>9, <1>10

\* The mandate's parties are the payer that speaks and the requestor it found.
LEMMA MandateIsSeated ==
  ASSUME IInv, NEW k \in Kits, Post(k), Posts(k)[1] = "mandate"
  PROVE  BothSeated /\ Posts(k)[2] = Seated
<1> TypeOK /\ KitInv /\ PaidInv /\ TermsInv
  BY DEF IInv
<1>1. /\ At(k, "offering")
      /\ Posts(k)[2] = [payer |-> Party(k, kit[k].agent), requestor |-> kit[k].heard[1]]
  BY PostCases DEF Post, Speech, At
<1>2. BothSeated /\ kit[k].heard[1] = Seated["requestor"] /\ kit[k].agent # 0 /\ k \in Payers
  BY <1>1 DEF TermsInv, KitInv, TypeOK, KitOK, At
<1>3. host.seat["payer"] = k
  BY <1>2, Holder DEF RoleOf
<1>4. Seated["payer"] = Party(k, kit[k].agent)
  BY <1>3 DEF Seated, Roles
<1>5. Party(k, kit[k].agent) \in Parties /\ kit[k].heard[1] \in Parties
  BY <1>1, PartyType DEF TypeOK, KitOK, Minds
<1>6. Posts(k)[2] = [r \in Roles |-> IF r = "payer" THEN Seated["payer"] ELSE Seated["requestor"]]
  BY <1>1, <1>2, <1>4, <1>5, TermsType
<1>7. [r \in Roles |-> IF r = "payer" THEN Seated["payer"] ELSE Seated["requestor"]] = Seated
  BY DEF Seated, Roles
<1>8. QED BY <1>2, <1>6, <1>7

\* The host binds the agent that its seat's holder has.
LEMMA Binds ==
  ASSUME TypeOK, LogInv, BindReady
  PROVE  \E r \in Roles : /\ host.seat[r] \in Kits /\ kit[host.seat[r]].agent # 0
                          /\ host'.agent = [host.agent EXCEPT ![r] = kit[host.seat[r]].agent]
<1> DEFINE i == Oldest(Ready)
           r == log[i].role
<1>1. i \in Ready
  <2>1. Ready \subseteq Nat /\ Ready # {}
    BY BodyType DEF BindReady, Ready, Unread
  <2>2. QED BY <2>1, OldestIsLeast
<1>2. /\ i \in DOMAIN log /\ log[i].kind = "party_ready" /\ log[i].from = host.seat[r]
  BY <1>1 DEF Ready, Unread
<1>3. host'.agent = [host.agent EXCEPT ![r] = log[i].body.agent]
  BY DEF BindReady, TypeOK, HostOK, HostMinds
<1> HIDE DEF i
<1>4. log[i].from \in Kits /\ r \in Roles
  <2>1. log[i] \in Messages
    BY <1>2 DEF TypeOK
  <2>2. QED BY <1>2, <2>1, RoleType, KitAssumption DEF Messages
<1>5. kit[log[i].from].agent # 0 /\ log[i].body.agent = kit[log[i].from].agent
  <2>1. kit[log[i].from].agent # 0 /\ log[i].body = Party(log[i].from, kit[log[i].from].agent)
    BY <1>2 DEF LogInv
  <2>2. QED BY <2>1 DEF Party
<1>6. QED BY <1>2, <1>3, <1>4, <1>5

LEMMA TermsKeeps ==
  ASSUME IInv, [Next]_vars
  PROVE  TermsInv'
<1> TypeOK /\ SeatInv /\ PaidInv /\ KitInv /\ LogInv /\ TermsInv /\ HostInv
  BY DEF IInv
<1>1. BothSeated => BothSeated' /\ Seated' = Seated
  BY SeatedStays
<1>2. ASSUME NEW k \in Kits, kit'[k].at = "offering"
      PROVE  BothSeated' /\ kit'[k].heard[1] = Seated["requestor"]'
  <2>1. ReadRoster(k) \/ (At(k, "offering") /\ kit'[k].heard = kit[k].heard)
    BY <1>2, KitFrame, OthersQuiet DEF Next, vars, At
  <2>2. CASE ReadRoster(k)
    BY <1>1, <2>2, RosterIsSeated
  <2>3. CASE At(k, "offering") /\ kit'[k].heard = kit[k].heard
    BY <1>1, <2>3 DEF TermsInv
  <2>4. QED BY <2>1, <2>2, <2>3
<1>3. ASSUME NEW i \in OfKind("mandate")'
      PROVE  BothSeated' /\ log'[i].body = Seated'
  <2>1. CASE i \in DOMAIN log
    <3>1. log'[i] = log[i]
      BY <2>1, LogStep, LogStays DEF TypeOK
    <3>2. i \in OfKind("mandate")
      BY <1>3, <2>1, <3>1 DEF OfKind
    <3>3. QED BY <1>1, <3>1, <3>2 DEF TermsInv
  <2>2. CASE i \notin DOMAIN log
    <3>1. i \in DOMAIN log' \ DOMAIN log /\ log'[i].kind = "mandate"
      BY <1>3, <2>2 DEF OfKind
    <3>2. PICK k \in Kits : Post(k) /\ Posts(k)[1] = "mandate" /\ log'[i].body = Posts(k)[2]
      BY <3>1, NewWord
    <3>3. QED BY <1>1, <3>2, MandateIsSeated
  <2>3. QED BY <2>1, <2>2
<1>4. ASSUME host'.parties # <<>>
      PROVE  BothSeated' /\ host'.parties[1] = Seated'
  <2>1. CASE TakeMandate
    <3> DEFINE places == Of("mandate", "payer") \cap Unread
    <3>1. places # {} /\ host'.parties = <<log[Oldest(places)].body>>
      BY <2>1 DEF TakeMandate, TypeOK, HostOK, HostMinds
    <3>2. Oldest(places) \in places
      <4>1. places \subseteq Nat
        BY BodyType DEF Unread
      <4>2. QED BY <3>1, <4>1, OldestIsLeast
    <3>3. Oldest(places) \in OfKind("mandate")
      BY <3>2 DEF Of, OfKind
    <3> HIDE DEF places
    <3>4. BothSeated /\ log[Oldest(places)].body = Seated
      BY <3>3 DEF TermsInv
    <3>5. QED BY <1>1, <3>1, <3>4
  <2>2. CASE host'.parties = host.parties
    BY <1>1, <1>4, <2>2 DEF TermsInv
  <2>3. QED BY <2>1, <2>2, HostFrame, OthersQuiet DEF Next, vars
<1>5. ASSUME NEW i \in OfKind("handshake_required")'
      PROVE  BothSeated' /\ log'[i].body = Seated' /\ \A r \in Roles : host'.agent[r] # 0
  <2>1. BothSeated /\ log'[i].body = Seated /\ \A r \in Roles : host.agent[r] # 0
    <3>1. CASE i \in DOMAIN log
      <4>1. log'[i] = log[i]
        BY <3>1, LogStep, LogStays DEF TypeOK
      <4>2. i \in OfKind("handshake_required")
        BY <1>5, <3>1, <4>1 DEF OfKind
      <4>3. QED BY <4>1, <4>2 DEF TermsInv
    <3>2. CASE i \notin DOMAIN log
      <4>1. i \in DOMAIN log' \ DOMAIN log /\ log'[i].kind = "handshake_required"
        BY <1>5, <3>2 DEF OfKind
      <4>2. \A k \in Kits : Post(k) => Posts(k)[1] # "handshake_required"
        BY PostCases DEF Post, Speech
      <4>3. Require
        <5>1. CASE UNCHANGED log
          BY <4>1, <5>1
        <5>2. CASE Record
          BY <4>1, <5>2, RecordSays
        <5>3. CASE \E k \in Kits : Post(k)
          BY <4>1, <4>2, <5>3, PostSays
        <5>4. QED BY <5>1, <5>2, <5>3, SilentQuiet, Speakers DEF vars
      <4>4. log'[i].body = host.parties[1] /\ host.parties # <<>> /\ HostAt("requiring")
        BY <4>1, <4>3, RequireSays DEF Require, HostInv, HostAt, Agreed
      <4>5. QED BY <4>4 DEF TermsInv, HostInv, HostAt, Late
    <3>3. QED BY <3>1, <3>2
  <2>2. \A r \in Roles : host'.agent[r] # 0
    <3>1. CASE BindReady
      <4>1. PICK r \in Roles : /\ kit[host.seat[r]].agent # 0
                               /\ host'.agent = [host.agent EXCEPT ![r] = kit[host.seat[r]].agent]
        BY <3>1, Binds
      <4>2. QED BY <2>1, <4>1 DEF TypeOK, HostOK, HostMinds
    <3>2. CASE host'.agent = host.agent
      BY <2>1, <3>2
    <3>3. QED BY <3>1, <3>2, HostFrame, OthersQuiet DEF Next, vars
  <2>3. QED BY <1>1, <2>1, <2>2
<1>6. QED BY <1>2, <1>3, <1>4, <1>5 DEF TermsInv, At

LEMMA HostKeeps ==
  ASSUME IInv, [Next]_vars
  PROVE  HostInv'
<1> TypeOK /\ SeatInv /\ PaidInv /\ KitInv /\ LogInv /\ TermsInv /\ HostInv /\ host \in HostMinds
  BY DEF IInv, TypeOK, HostOK
<1>0. /\ \/ host'.at = host.at
         \/ host'.at = "stopped" /\ host.at # "complete"
         \/ <<host.at, host'.at>> \in HostEdges
      /\ Seat \/ host'.seat = host.seat
      /\ BindReady \/ host'.agent = host.agent
      /\ TakeMandate \/ host'.parties = host.parties
      /\ (\E r \in Roles : Download(r)) \/ ReportTimesOut \/ host'.got = host.got
      /\ Certify \/ result' = result
  BY HostFrame, HostGoes, OthersQuiet DEF Next, vars
<1>1. ASSUME NEW r \in Roles, host'.agent[r] # 0
      PROVE  host'.seat[r] \in Kits /\ host'.agent[r] = kit'[host'.seat[r]].agent
  <2>1. host.seat[r] \in Kits /\ host'.agent[r] = kit[host.seat[r]].agent
    <3>1. CASE BindReady
      <4>1. PICK s \in Roles : /\ host.seat[s] \in Kits
                               /\ host'.agent = [host.agent EXCEPT ![s] = kit[host.seat[s]].agent]
        BY <3>1, Binds
      <4>2. CASE r = s
        BY <4>1, <4>2 DEF HostMinds
      <4>3. CASE r # s
        BY <1>1, <4>1, <4>3 DEF HostMinds, HostInv
      <4>4. QED BY <4>2, <4>3
    <3>2. CASE host'.agent = host.agent
      BY <1>1, <3>2 DEF HostInv
    <3>3. QED BY <1>0, <3>1, <3>2
  <2>2. host'.seat[r] = host.seat[r]
    BY <2>1, SeatLasts, KitAssumption
  <2>3. kit'[host.seat[r]].agent = kit[host.seat[r]].agent
    BY <1>1, <2>1, AgentStays
  <2>4. QED BY <2>1, <2>2, <2>3
<1>2. host'.at = "funding" => \E r \in Roles : host'.seat[r] = Nobody
  <2>1. CASE Record
    <3>1. host'.seat = host.seat /\ (host'.at = "funding" => \E r \in Roles : host.seat[r] = Nobody)
      BY <2>1 DEF Record, HostAt, HostMinds
    <3>2. QED BY <3>1
  <2>2. CASE ~Record
    <3>1. host'.at = "funding" => HostAt("funding") /\ ~Seat
      <4>1. Seat => host'.at = "paying"
        BY SeatGoesToFirst
      <4>2. HostAt("recording") /\ host'.at = "funding" => FALSE
        <5>1. SUFFICES ASSUME HostAt("recording"), host'.at = "funding" PROVE FALSE
          OBVIOUS
        <5>2. FailHost
          BY <2>2, <5>1, OthersQuiet DEF Next, vars, HostStep, HostAt, Seat, Pay, Require, BindReady,
             TakeMandate, TakeRequest, TakeReport, ReportTimesOut, LoseReport, Download,
             Verify, Certify, SkipCertificate
        <5>3. QED BY <5>1, <5>2 DEF FailHost
      <4>3. QED BY <1>0, <4>1, <4>2 DEF HostEdges, HostAt
    <3>2. QED BY <1>0, <3>1 DEF HostInv
  <2>3. QED BY <2>1, <2>2
<1>3. host'.at \in Late => \A r \in Roles : host'.agent[r] # 0
  <2>1. CASE BindReady
    <3>1. host'.at \in Late => \A r \in Roles : host'.agent[r] # 0
      BY <2>1 DEF BindReady, HostAt, HostMinds, Late
    <3>2. QED BY <3>1
  <2>2. CASE ~BindReady
    <3>1. host'.at \in Late => host.at \in Late
      <4>1. HostAt("registering") => host'.at \in {"registering", "stopped"}
        BY <2>2, OthersQuiet DEF Next, vars, HostStep, HostAt, HostMinds, Seat, Pay, Record, Require,
           TakeMandate, TakeRequest, TakeReport, ReportTimesOut, LoseReport, Download, Verify,
           Certify, SkipCertificate, FailHost
      <4>2. QED BY <1>0, <4>1 DEF HostEdges, HostAt, Late
    <3>2. QED BY <1>0, <2>2, <3>1 DEF HostInv
  <2>3. QED BY <2>1, <2>2
<1>4. host'.at \in Agreed => host'.parties # <<>>
  <2>1. CASE TakeMandate
    BY <2>1 DEF TakeMandate, HostMinds
  <2>2. CASE ~TakeMandate
    <3>1. host'.at \in Agreed => host.at \in Agreed
      <4>1. HostAt("mandate") => host'.at \in {"mandate", "stopped"}
        BY <2>2, OthersQuiet DEF Next, vars, HostStep, HostAt, HostMinds, Seat, Pay, Record, Require,
           BindReady, TakeRequest, TakeReport, ReportTimesOut, LoseReport, Download, Verify,
           Certify, SkipCertificate, FailHost
      <4>2. QED BY <1>0, <4>1 DEF HostEdges, HostAt, Agreed
    <3>2. QED BY <1>0, <2>2, <3>1 DEF HostInv
  <2>3. QED BY <2>1, <2>2
<1>5. host'.at \in {"certifying", "complete"} =>
        ~Seat /\ ~ReportTimesOut /\ ~ \E r \in Roles : Download(r)
  <2>1. Seat => host'.at = "paying"
    BY SeatGoesToFirst
  <2>2. \A r \in Roles : Download(r) => host'.at \in {"evidence", "verifying"}
    BY DEF Download, HostAt, HostMinds
  <2>3. ReportTimesOut => host'.at = "verifying"
    BY DEF ReportTimesOut, HostMinds
  <2>4. QED BY <2>1, <2>2, <2>3
<1>6. host'.at = "certifying" => host'.got = host'.seat
  <2>1. CASE Verify
    <3>1. host.parties[1] = Seated /\ host'.got = host.got /\ host'.seat = host.seat
          /\ \A r \in Roles : host.got[r] = host.parties[1][r].address
      BY <2>1 DEF Verify, HostAt, HostInv, TermsInv, Agreed, HostMinds
    <3>2. \A r \in Roles : host.got[r] = host.seat[r]
      BY <3>1 DEF Seated, Party
    <3>3. QED BY <3>1, <3>2 DEF HostMinds
  <2>2. CASE ~Verify
    <3>1. host'.at = "certifying" => HostAt("certifying")
      <4>1. HostAt("verifying") => host'.at \in {"verifying", "stopped"}
        BY <2>2, OthersQuiet DEF Next, vars, HostStep, HostAt, HostMinds, Seat, Pay, Record, Require,
           BindReady, TakeMandate, TakeRequest, TakeReport, ReportTimesOut, LoseReport,
           Download, Certify, SkipCertificate, FailHost
      <4>2. QED BY <1>0, <4>1 DEF HostEdges, HostAt
    <3>2. QED BY <1>0, <1>5, <3>1 DEF HostInv
  <2>3. QED BY <2>1, <2>2
<1>7. ASSUME result' # <<>>
      PROVE  /\ host'.at = "complete" /\ host'.got = host'.seat
             /\ result' = <<[r \in Roles |-> Party(host'.seat[r], host'.agent[r])]>>
  <2>1. CASE Certify
    <3>1. /\ host'.at = "complete" /\ host'.got = host.got /\ host'.seat = host.seat
          /\ host'.agent = host.agent /\ HostAt("certifying")
          /\ result' = <<[r \in Roles |-> Party(host.seat[r], host.agent[r])]>>
      BY <2>1 DEF Certify, HostMinds
    <3>2. QED BY <3>1 DEF HostInv
  <2>2. CASE ~Certify
    <3>1. HostAt("complete") /\ result' = result
      BY <1>0, <1>7, <2>2 DEF HostInv
    <3>2. host'.at = "complete" /\ ~BindReady
      BY <1>0, <3>1 DEF HostAt, HostEdges, BindReady
    <3>3. host'.got = host.got /\ host'.seat = host.seat /\ host'.agent = host.agent
      BY <1>0, <1>5, <3>2
    <3>4. QED BY <1>7, <3>1, <3>2, <3>3 DEF HostInv
  <2>3. QED BY <2>1, <2>2
<1>8. QED BY <1>1, <1>2, <1>3, <1>4, <1>6, <1>7 DEF HostInv, HostAt

----------------------------------------------------------------------------
(* The theorems                                                            *)

LEMMA InitInductive == Init => IInv
<1> SUFFICES ASSUME Init PROVE IInv
  OBVIOUS
<1>1. TypeOK
  BY InitType
<1>2. log = <<>> /\ paid = <<>> /\ registry = <<>> /\ result = <<>> /\ DOMAIN log = {} /\ DOMAIN paid = {}
  BY DEF Init
<1>3. SeatInv
  BY <1>2 DEF Init, SeatInv, Of
<1>4. PaidInv
  BY <1>2 DEF Init, PaidInv, HostAt, OfKind, ToSet
<1>5. KitInv
  BY <1>2 DEF Init, KitInv, At, Unregistered
<1>6. LogInv
  BY <1>2 DEF LogInv
<1>7. TermsInv
  BY <1>2 DEF Init, TermsInv, At, OfKind
<1>8. HostInv
  BY <1>2 DEF Init, HostInv, HostAt, Late, Agreed, Roles
<1>9. QED BY <1>1, <1>3, <1>4, <1>5, <1>6, <1>7, <1>8 DEF IInv

LEMMA StepInductive == IInv /\ [Next]_vars => IInv'
BY TypeKeeps, SeatKeeps, PaidKeeps, KitKeeps, LogKeeps, TermsKeeps, HostKeeps DEF IInv

\* The state is well formed: every message says what its kind does, and whoever speaks
\* next has what to say (src/src/roles/session.mjs, postNext).
THEOREM SessionTypes == Spec => []TypeOK
<1>1. IInv => TypeOK
  BY DEF IInv
<1>2. QED BY <1>1, InitInductive, StepInductive, PTL DEF Spec

\* Host, payer and requestor mean the same two parties, however many kits race for the
\* seats: those of the terms are seated, paid and registered, and of the certificate.
THEOREM SeatsAgreed == Spec => []SeatsAgree
<1>1. IInv => SeatsAgree
  <2> SUFFICES ASSUME IInv PROVE SeatsAgree
    OBVIOUS
  <2> DEFINE seated == [r \in Roles |-> Party(host.seat[r], host.agent[r])]
  <2>1. ASSUME NEW i \in OfKind("handshake_required")
        PROVE  /\ log[i].body = seated
               /\ \A r \in Roles : host.seat[r] \in ToSet(paid) /\ registry[host.agent[r]] = host.seat[r]
    <3>1. log[i].body = Seated /\ \A r \in Roles : /\ host.seat[r] \in Kits /\ host.agent[r] # 0
                                                   /\ host.agent[r] = kit[host.seat[r]].agent
      BY <2>1 DEF IInv, TermsInv, HostInv
    <3>2. \A r \in Roles : registry[host.agent[r]] = host.seat[r] /\ host.agent[r] \in DOMAIN registry
      BY <3>1 DEF IInv, KitInv
    <3>3. \A r \in Roles : host.seat[r] \in ToSet(paid)
      BY <3>2 DEF IInv, PaidInv, ToSet
    <3>4. Seated = seated
      BY <3>1 DEF Seated
    <3>5. QED BY <3>1, <3>2, <3>3, <3>4
  <2>2. result # <<>> => result = <<seated>> /\ host.got = host.seat
    BY DEF IInv, HostInv
  <2>3. QED BY <2>1, <2>2 DEF SeatsAgree
<1>2. QED BY <1>1, InitInductive, StepInductive, PTL DEF Spec

\* Only one of a role is paid, once, and registers; a kit that is told its seat is taken
\* had a rival before it and has spent nothing.
THEOREM LosersSpent == Spec => []LosersSpendNothing
<1>1. IInv => LosersSpendNothing
  <2> SUFFICES ASSUME IInv PROVE LosersSpendNothing
    OBVIOUS
  <2>1. \A i, j \in DOMAIN paid : RoleOf(paid[i]) = RoleOf(paid[j]) => i = j
    BY DEF IInv, PaidInv
  <2>2. ToSet(registry) \subseteq ToSet(paid)
    BY DEF IInv, PaidInv
  <2>3. ASSUME NEW k \in Kits, At(k, "outseated")
        PROVE  /\ k \notin ToSet(paid)
               /\ Of("identity_ready", RoleOf(k)) # {}
               /\ log[Oldest(Of("identity_ready", RoleOf(k)))].from # k
    <3>1. Claimed(RoleOf(k)) /\ First(RoleOf(k)) # k
      BY <2>3 DEF IInv, KitInv
    <3>2. k \in ToSet(paid) => host.seat[RoleOf(k)] = k
      BY DEF IInv, PaidInv, ToSet
    <3>3. host.seat[RoleOf(k)] # k
      BY <3>1, RoleType, KitAssumption DEF IInv, SeatInv
    <3>4. QED BY <3>1, <3>2, <3>3 DEF Claimed, First
  <2>4. QED BY <2>1, <2>2, <2>3 DEF LosersSpendNothing
<1>2. QED BY <1>1, InitInductive, StepInductive, PTL DEF Spec

\* Who was given a seat keeps it, and a registered agent its id (fundIdentitySeats).
SeatsLast ==
  [][/\ \A r \in Roles : host.seat[r] # Nobody => host'.seat[r] = host.seat[r]
     /\ \A k \in Kits : kit[k].agent # 0 => kit'[k].agent = kit[k].agent]_vars

\* A seat is given once and for all, as is an agent id, in every session.
THEOREM SeatsAreKept == Spec => SeatsLast
<1>1. IInv /\ [Next]_vars =>
        /\ \A r \in Roles : host.seat[r] # Nobody => host'.seat[r] = host.seat[r]
        /\ \A k \in Kits : kit[k].agent # 0 => kit'[k].agent = kit[k].agent
  BY SeatLasts, AgentStays DEF IInv
<1>2. QED BY <1>1, InitInductive, StepInductive, PTL DEF Spec, SeatsLast

=============================================================================
