------------------------- MODULE HostSessionProofs -------------------------
(***************************************************************************)
(* Theorems about HostSession, for any keys, settings and deadlines, any      *)
(* interleaving of the parties, the relay and the clock, and any failures:     *)
(* the host goes on with the first key enrolled for a role, funds an identity  *)
(* once and in time, and ends a session once.                                *)
(***************************************************************************)
EXTENDS HostSession, TLAPS, FiniteSetTheorems, SequenceTheorems, WellFoundedInduction

----------------------------------------------------------------------------
\* The inductive invariant: what the variables hold.

AllKinds == Kinds \cup {"enrollment"}
AllKeys == UNION {{Keys[role][i] : i \in DOMAIN Keys[role]} : role \in Roles}
Messages == [kind : AllKinds, role : Roles, key : AllKeys, at : Int, exp : Nat]
Boxes == {s \in Seq(Messages) : Len(s) <= 1}
Speeches == AllKinds \X Roles \X AllKeys

Codes == {"none", "invalid", "ended", "unavailable", "binding_invalid", "invitation_expired",
          "funding_unavailable", "preparation_failed", "lapsed", "verdict_invalid",
          "snapshot_rejected"}
Snapshots == [stage : Nat, failure : Codes, certified : BOOLEAN]
Screens == {s \in Seq(Snapshots) : Len(s) <= 1}

Waits ==
  [kind : AllKinds, role : Roles, until : Nat, deferred : Seq(Messages),
   bound : [Roles -> Boxes], minted : Nat, got : Boxes, fatal : BOOLEAN, flawed : BOOLEAN,
   flagged : SUBSET Speeches]

HostOK ==
  host \in [pc : 1..34, at : {"ready", "call", "failed", "rejected", "notify", "stopped"},
            until : Nat, why : Codes, strict : BOOLEAN, next : Codes, notified : BOOLEAN,
            agreement : Nat, learned : Nat]

InboxOK ==
  /\ mode \in {"off", "observe", "enforce"}
  /\ unread \in Seq(Messages) /\ deferred \in Seq(Messages)
  /\ bound \in [Roles -> Boxes] /\ minted \in Nat /\ flawed \in BOOLEAN
  /\ flagged \subseteq Speeches /\ taken \subseteq Speeches

FundingOK ==
  /\ seats \subseteq Roles /\ reserved \in BOOLEAN /\ aborted \subseteq Roles
  /\ work \in [Roles -> {"idle", "open", "prepare", "sign", "send", "sent", "funded",
                         "dropped"}]
  /\ broadcasts \in [Roles -> Nat]

\* Every variable holds what its declaration says.
TypeOK ==
  /\ now \in Nat /\ InboxOK /\ FundingOK /\ HostOK
  /\ draft \in Snapshots /\ accepted \in Screens /\ shown \in Screens
  /\ invitation \in [exp : Nat, at : Int]
  /\ relay \in [notices : SUBSET Codes, descriptor : BOOLEAN, result : BOOLEAN]
  /\ trouble \subseteq {"lost", "refused", "unavailable"}

----------------------------------------------------------------------------
\* The inductive invariant: the enrollments.

Enrolls(m, role) == m.kind = "enrollment" /\ m.role = role
Proper(m, role) == Enrolls(m, role) /\ m.key = Keys[role][1]

\* The coordinator has enrolled the role.
EnrolledIn(inv, role) == IF role = "initiator" THEN inv.exp # 0 ELSE inv.at # -1
EnrolledYet(role) == EnrolledIn(invitation, role)

\* The host still learns enrollments.
Listening == /\ host.at \in {"ready", "call"} /\ ~flawed
             /\ now < Deadline /\ mode # "off"

\* The bindings are of the keys enrolled first.
Bound(b) == \A role \in Roles : b[role] # <<>> => b[role][1].key = Keys[role][1]

\* The first enrollment of a role that is not bound is the coordinator's own.
FirstProper(messages, b) ==
  \A role \in Roles : b[role] = <<>> =>
    \A i \in DOMAIN messages : Enrolls(messages[i], role) =>
      \E j \in 1..i : Proper(messages[j], role)

SpeakInv ==
  /\ OneSpeaker /\ Bound(bound)
  /\ invitation.at # -1 => invitation.exp # 0
  /\ \A i \in DOMAIN deferred : deferred[i].kind \notin Announcements
  /\ Listening => /\ FirstProper(unread, bound)
                  /\ \A role \in Roles : EnrolledYet(role) /\ bound[role] = <<>> =>
                       \E j \in DOMAIN unread : Proper(unread[j], role)

----------------------------------------------------------------------------
\* The inductive invariant: the funding.

\* Where the identity of a role is funded.
FundStep(role) == IF role = "initiator" THEN 12 ELSE 14

\* Before its step nothing of a role's work has begun; while it has not been aborted,
\* work that may still send is awaited, and has not sent.
FundInv ==
  /\ host.pc > 11 => seats = {} \/ reserved
  /\ \A role \in Roles :
       /\ host.pc < FundStep(role) \/ (host.pc = FundStep(role) /\ host.at = "ready") =>
            work[role] = "idle" /\ broadcasts[role] = 0 /\ role \notin aborted
       /\ work[role] \in {"open", "prepare", "sign", "send"} /\ role \notin aborted =>
            /\ role \in seats /\ reserved /\ broadcasts[role] = 0
            /\ In("fund") /\ Doing.role = role

----------------------------------------------------------------------------
\* The inductive invariant: the ending.

Failure(screen) == IF screen = <<>> THEN "none" ELSE screen[1].failure

EndInv ==
  /\ host.at \in {"ready", "call"} =>
       /\ host.why = "none" /\ draft.failure = "none" /\ ShownFailure = "none"
  /\ host.at \in {"ready", "call", "failed"} => host.next = "none"
  /\ host.at \in {"ready", "call", "failed", "rejected"} =>
       ~host.notified /\ relay.notices = {} /\ Failure(accepted) = "none"
  /\ host.at \in {"failed", "rejected"} =>
       /\ draft.failure = host.why
       /\ "lost" \notin trouble => ShownFailure = "none"
  /\ host.at = "rejected" => host.why = "snapshot_rejected" /\ trouble # {}
  /\ host.at = "notify" =>
       /\ host.notified
       /\ "lost" \notin trouble => ShownFailure \in {"none", host.why}
       /\ trouble = {} => ShownFailure = host.why
  /\ relay.notices \subseteq {host.why}
  /\ relay.result =>
       /\ host.pc \in {33, 34} /\ host.at # "failed"
       /\ host.pc = 33 => host.at \in {"call", "stopped"}
       /\ host.at \in {"rejected", "notify"} \/ relay.notices # {} =>
            host.why = "snapshot_rejected"

IInv == TypeOK /\ SpeakInv /\ FundInv /\ EndInv /\ OneEnding

----------------------------------------------------------------------------
(* The clock and the script                                                *)

LEMMA MinOfTwo ==
  ASSUME NEW a \in Int, NEW b \in Int
  PROVE  /\ Min({a, b}) \in {a, b} /\ Min({a, b}) <= a /\ Min({a, b}) <= b
         /\ Max({a, b}) \in {a, b} /\ a <= Max({a, b}) /\ b <= Max({a, b})
<1>1. \E x \in {a, b} : \A y \in {a, b} : x <= y
  <2>1. CASE a <= b
    BY <2>1
  <2>2. CASE b <= a
    BY <2>2
  <2>3. QED BY <2>1, <2>2
<1>2. \E x \in {a, b} : \A y \in {a, b} : x >= y
  <2>1. CASE a <= b
    BY <2>1
  <2>2. CASE b <= a
    BY <2>2
  <2>3. QED BY <2>1, <2>2
<1>3. Min({a, b}) \in {a, b} /\ \A y \in {a, b} : Min({a, b}) <= y
  BY <1>1 DEF Min
<1>4. Max({a, b}) \in {a, b} /\ \A y \in {a, b} : Max({a, b}) >= y
  BY <1>2 DEF Max
<1>5. QED BY <1>3, <1>4

LEMMA ScriptLength == Len(Script) = 34
BY DEF Script

\* What the proofs use of the steps of a session.
LEMMA ScriptFacts ==
  ASSUME NEW p \in 1..34
  PROVE  /\ Script[p].op = "fund" => /\ Script[p].role \in Roles /\ p = FundStep(Script[p].role)
                                     /\ Script[p].arg = "transaction"
         /\ Script[p].arg = "existing" => p = 10
         /\ (Script[p].arg = "reserve" <=> p = 11)
         /\ (Script[p].arg = "result" <=> p = 33)
         /\ (Script[p].op = "publish" <=> p = 33)
         /\ Script[p].op = "await" => /\ Script[p].arg \in Kinds \ Announcements
                                      /\ Script[p].role \in Roles
         /\ Script[p].arg = "claimed" => Script[p].phase = "claim"
         /\ p \in {33, 34} => Script[p].phase = "agree" /\ Script[p].op # "await"
         /\ p = 34 => Script[p].op = "show" /\ ~Script[p].isFresh
<1> DEFINE S == Script[p]
<1>1. S.op = "fund" => /\ S.role \in Roles /\ p = FundStep(S.role) /\ S.arg = "transaction"
  BY SMTT(60) DEF Script, Step, Show, Await, Ask, Roles, FundStep
<1>2. /\ S.arg = "existing" => p = 10
      /\ (S.arg = "reserve" <=> p = 11)
      /\ (S.arg = "result" <=> p = 33)
  BY SMTT(60) DEF Script, Step, Show, Await, Ask
<1>3. (S.op = "publish" <=> p = 33)
  BY SMTT(60) DEF Script, Step, Show, Await, Ask
<1>4. S.op = "await" => S.arg \in Kinds \ Announcements /\ S.role \in Roles
  BY SMTT(60) DEF Script, Step, Show, Await, Ask, Announcements, Roles, Kinds
<1>5. S.arg = "claimed" => S.phase = "claim"
  BY SMTT(60) DEF Script, Step, Show, Await, Ask
<1>6. p \in {33, 34} => S.phase = "agree" /\ S.op # "await"
  BY SMTT(60) DEF Script, Step, Show, Await, Ask
<1>7. p = 34 => S.op = "show" /\ ~S.isFresh
  BY SMTT(60) DEF Script, Step, Show, Await, Ask
<1>8. QED BY <1>1, <1>2, <1>3, <1>4, <1>5, <1>6, <1>7

LEMMA BoxProperties ==
  /\ \A b \in Boxes : b # <<>> => b[1] \in Messages /\ ToSet(b) = {b[1]}
  /\ \A m \in Messages : <<m>> \in Boxes /\ <<m>> # <<>> /\ <<m>>[1] = m /\ ToSet(<<m>>) = {m}
  /\ <<>> \in Boxes /\ ToSet(<<>>) = {}
<1>1. ASSUME NEW b \in Boxes, b # <<>>
      PROVE  b[1] \in Messages /\ ToSet(b) = {b[1]}
  <2>0. b \in Seq(Messages) /\ Len(b) <= 1
    BY DEF Boxes
  <2>1. Len(b) = 1 /\ DOMAIN b = 1..1
    <3>1. Len(b) \in Nat \ {0}
      BY <1>1, <2>0, EmptySeq
    <3>2. DOMAIN b = 1..Len(b)
      BY <2>0, LenProperties
    <3>3. QED BY <2>0, <3>1, <3>2
  <2>2. b[1] \in Messages
    BY <2>0, <2>1, ElementOfSeq
  <2>3. QED BY <2>1, <2>2 DEF ToSet
<1>2. \A m \in Messages : <<m>> \in Boxes /\ <<m>> # <<>> /\ <<m>>[1] = m /\ ToSet(<<m>>) = {m}
  BY DEF Boxes, ToSet
<1>3. <<>> \in Boxes /\ ToSet(<<>>) = {}
  BY DEF Boxes, ToSet
<1>4. QED BY <1>1, <1>2, <1>3

----------------------------------------------------------------------------
(* What one message tells a wait                                           *)

\* What a message may change of what a wait has learned of the enrollments.
Learns(w, v, m) ==
  /\ v \in Waits /\ v.kind = w.kind /\ v.role = w.role
  /\ w.flawed => v.flawed
  /\ w.flagged \subseteq v.flagged
  /\ \A role \in Roles :
       \/ v.bound[role] = w.bound[role]
       \/ /\ w.bound[role] = <<>> /\ Enrolls(m, role) /\ v.bound[role] = <<m>>
          /\ mode # "off" /\ ~w.flawed /\ ~(now >= Deadline)

LEMMA FlagLearns ==
  ASSUME NEW w \in Waits, NEW m \in Messages
  PROVE  /\ Learns(w, Flag(w, m), m)
         /\ Flag(w, m).got = w.got /\ Flag(w, m).deferred = w.deferred
         /\ Flag(w, m).fatal = w.fatal /\ Flag(w, m).flawed = w.flawed
         /\ Flag(w, m).bound = w.bound
         /\ mode = "observe" => Speech(m) \in Flag(w, m).flagged
<1>1. Speech(m) \in Speeches
  BY DEF Speech, Speeches, Messages
<1>2. [w EXCEPT !.flagged = @ \cup {Speech(m)}] \in Waits
  BY <1>1 DEF Waits
<1>3. Flag(w, m) \in Waits
  BY <1>2 DEF Flag
<1>4. /\ Flag(w, m).got = w.got /\ Flag(w, m).deferred = w.deferred
      /\ Flag(w, m).fatal = w.fatal /\ Flag(w, m).flawed = w.flawed
      /\ Flag(w, m).bound = w.bound /\ Flag(w, m).kind = w.kind /\ Flag(w, m).role = w.role
      /\ w.flagged \subseteq Flag(w, m).flagged
      /\ mode = "observe" => Speech(m) \in Flag(w, m).flagged
  BY DEF Flag, Waits
<1>5. QED BY <1>3, <1>4 DEF Learns

\* An enrollment that comes in time binds its role, unless the bindings are at an end.
LEMMA ObserveLearns ==
  ASSUME NEW w \in Waits, NEW m \in Messages, m.kind = "enrollment", mode # "off"
  PROVE  /\ Learns(w, Observe(w, m), m)
         /\ Observe(w, m).got = w.got /\ Observe(w, m).deferred = w.deferred
         /\ ~(now >= Deadline) => Observe(w, m).flawed \/ Observe(w, m).bound[m.role] # <<>>
<1> DEFINE v == Observe(w, m)
<1>0. m.role \in Roles /\ w.bound \in [Roles -> Boxes]
  BY DEF Messages, Waits
<1>1. CASE ~w.flawed /\ (m \in ToSet(w.bound[m.role]) \/ now >= Deadline)
  <2>1. v = w
    BY <1>1 DEF Observe
  <2>2. m \in ToSet(w.bound[m.role]) => w.bound[m.role] # <<>>
    BY BoxProperties
  <2>3. QED BY <1>1, <2>1, <2>2 DEF Learns
<1>2. CASE /\ ~(~w.flawed /\ (m \in ToSet(w.bound[m.role]) \/ now >= Deadline))
           /\ ~w.flawed /\ w.bound[m.role] = <<>> /\ Agree(w, m)
  <2>1. v = [w EXCEPT !.bound[m.role] = <<m>>]
    BY <1>2 DEF Observe
  <2>2. <<m>> \in Boxes /\ <<m>> # <<>>
    BY BoxProperties
  <2>3. v \in Waits
    BY <1>0, <2>1, <2>2 DEF Waits
  <2>4. /\ v.got = w.got /\ v.deferred = w.deferred /\ v.kind = w.kind /\ v.role = w.role
        /\ v.flawed = w.flawed /\ v.flagged = w.flagged
        /\ v.bound = [w.bound EXCEPT ![m.role] = <<m>>]
    BY <2>1 DEF Waits
  <2>5. \A role \in Roles : v.bound[role] = IF role = m.role THEN <<m>> ELSE w.bound[role]
    BY <1>0, <2>4
  <2>6. QED BY <1>0, <1>2, <2>2, <2>3, <2>4, <2>5 DEF Learns, Enrolls
<1>3. CASE /\ ~(~w.flawed /\ (m \in ToSet(w.bound[m.role]) \/ now >= Deadline))
           /\ ~(~w.flawed /\ w.bound[m.role] = <<>> /\ Agree(w, m))
  <2> DEFINE f == Flag(w, m)
  <2>1. v = [f EXCEPT !.flawed = TRUE]
    BY <1>3 DEF Observe
  <2>2. /\ Learns(w, f, m) /\ f.got = w.got /\ f.deferred = w.deferred /\ f.bound = w.bound
        /\ f \in Waits /\ f.kind = w.kind /\ f.role = w.role /\ w.flagged \subseteq f.flagged
    BY FlagLearns DEF Learns
  <2> HIDE DEF f
  <2>3. /\ v \in Waits /\ v.flawed /\ v.got = f.got /\ v.deferred = f.deferred
        /\ v.bound = f.bound /\ v.kind = f.kind /\ v.role = f.role /\ v.flagged = f.flagged
    BY <2>1, <2>2 DEF Waits
  <2>4. QED BY <2>2, <2>3 DEF Learns
<1>4. QED BY <1>1, <1>2, <1>3

LEMMA MessageLearns ==
  ASSUME NEW w \in Waits, NEW m \in Messages, mode \in {"off", "observe", "enforce"}
  PROVE  LET v == ObserveMessage(w, m)
         IN /\ Learns(w, v, m) /\ v.got = w.got /\ v.deferred = w.deferred
            /\ m.kind = "enrollment" /\ mode # "off" /\ ~(now >= Deadline) =>
                 v.flawed \/ v.bound[m.role] # <<>>
            /\ m.kind # "enrollment" /\ mode = "observe" => Admits(v, m) \/ Speech(m) \in v.flagged
<1> DEFINE v == ObserveMessage(w, m)
<1>1. CASE mode = "off" \/ (mode = "enforce" /\ m.kind # "enrollment")
  <2>1. v = w
    BY <1>1 DEF ObserveMessage
  <2>2. QED BY <1>1, <2>1 DEF Learns
<1>2. CASE mode # "off" /\ m.kind = "enrollment"
  <2> DEFINE s == Observe(w, m)
  <2>1. v = [s EXCEPT !.fatal = (mode = "enforce" /\ s.flawed)]
    BY <1>2 DEF ObserveMessage
  <2>2. /\ Learns(w, s, m) /\ s.got = w.got /\ s.deferred = w.deferred
        /\ ~(now >= Deadline) => s.flawed \/ s.bound[m.role] # <<>>
    BY <1>2, ObserveLearns
  <2>3. s \in Waits
    BY <2>2 DEF Learns
  <2> HIDE DEF s
  <2>4. s.flawed \in BOOLEAN
    BY <2>3 DEF Waits
  <2>5. /\ v \in Waits /\ v.flawed = s.flawed /\ v.got = s.got /\ v.deferred = s.deferred
        /\ v.bound = s.bound /\ v.kind = s.kind /\ v.role = s.role /\ v.flagged = s.flagged
    BY <2>1, <2>3, <2>4 DEF Waits
  <2>6. QED BY <1>2, <2>2, <2>5 DEF Learns
<1>3. CASE mode = "observe" /\ m.kind # "enrollment" /\ Admits(w, m)
  <2>1. v = w
    BY <1>3 DEF ObserveMessage
  <2>2. QED BY <1>3, <2>1 DEF Learns
<1>4. CASE mode = "observe" /\ m.kind # "enrollment" /\ ~Admits(w, m)
  <2>1. v = Flag(w, m)
    BY <1>4 DEF ObserveMessage
  <2>2. QED BY <1>4, <2>1, FlagLearns
<1>5. QED BY <1>1, <1>2, <1>3, <1>4

\* The wait goes on for longer, and is otherwise what it was.
LEMMA ExtendLearns ==
  ASSUME NEW w \in Waits, NEW m \in Messages, mode = "enforce" => Admits(w, m)
  PROVE  LET v == Extend(w, m)
         IN /\ v \in Waits /\ v.kind = w.kind /\ v.role = w.role /\ v.got = w.got
            /\ v.deferred = w.deferred /\ v.bound = w.bound /\ v.flawed = w.flawed
            /\ v.flagged = w.flagged
<1> DEFINE enforced == mode = "enforce"
           telling == IF enforced THEN Announcements ELSE {"created"}
           window == IF enforced THEN w.bound["initiator"][1].exp ELSE m.exp
           ends == Min({window, Deadline})
           v == Extend(w, m)
<1>1. CASE w.kind # "claimed" \/ m.role # "initiator" \/ m.kind \notin telling
  <2>1. v = w
    BY <1>1 DEF Extend
  <2>2. QED BY <2>1
<1>2. CASE /\ ~(w.kind # "claimed" \/ m.role # "initiator" \/ m.kind \notin telling)
           /\ enforced /\ m.kind = "created" /\ m.exp # window
  <2>1. v = [w EXCEPT !.fatal = TRUE]
    BY <1>2 DEF Extend
  <2>2. QED BY <2>1 DEF Waits
<1>3. CASE /\ ~(w.kind # "claimed" \/ m.role # "initiator" \/ m.kind \notin telling)
           /\ ~(enforced /\ m.kind = "created" /\ m.exp # window)
  <2>1. v = [w EXCEPT !.minted = ends, !.until = Max({@, Min({Deadline, ends + Grace})})]
    BY <1>3 DEF Extend
  <2>2. window \in Nat
    <3>1. CASE enforced
      <4>1. w.bound["initiator"] # <<>> /\ w.bound["initiator"] \in Boxes
        BY <1>3, <3>1 DEF Admits, Waits, Roles
      <4>2. QED BY <3>1, <4>1, BoxProperties DEF Messages
    <3>2. CASE ~enforced
      BY <3>2 DEF Messages
    <3>3. QED BY <3>1, <3>2
  <2> HIDE DEF window
  <2>a. Deadline \in Nat /\ Grace \in Nat
    BY InboxAssumption
  <2>b. window \in Int /\ Deadline \in Int
    BY <2>a, <2>2
  <2>c. ends \in {window, Deadline}
    BY <2>b, MinOfTwo
  <2>3. ends \in Nat
    BY <2>2, <2>a, <2>c
  <2> HIDE DEF ends
  <2> DEFINE last == ends + Grace
             limit == Min({Deadline, last})
  <2>4. last \in Nat /\ last \in Int
    BY <2>3, <2>a
  <2> HIDE DEF last
  <2>d. limit \in {Deadline, last}
    BY <2>b, <2>4, MinOfTwo
  <2>5. limit \in Nat /\ limit \in Int
    BY <2>a, <2>4, <2>d
  <2>6. w.until \in Nat /\ w.until \in Int
    BY DEF Waits
  <2> HIDE DEF limit
  <2>e. Max({w.until, limit}) \in {w.until, limit}
    BY <2>5, <2>6, MinOfTwo
  <2>7. Max({w.until, limit}) \in Nat
    BY <2>5, <2>6, <2>e
  <2> DEFINE later == Max({w.until, limit})
  <2>8. v = [w EXCEPT !.minted = ends, !.until = later]
    BY <2>1 DEF limit, last
  <2> HIDE DEF later
  <2>9. later \in Nat
    BY <2>7 DEF later
  <2>10. QED BY <2>3, <2>8, <2>9 DEF Waits
<1>4. QED BY <1>1, <1>2, <1>3

\* A message that is taken is the speech of the key its role is bound to, or is flagged
\* by a host that observes.
Spoken(w, m) == w.bound[m.role] # <<>> /\ m.key = w.bound[m.role][1].key

Right(w, m) ==
  /\ mode = "enforce" => Spoken(w, m)
  /\ mode = "observe" => Spoken(w, m) \/ Speech(m) \in w.flagged

\* What becomes of a wait that considers one message: it learns, may take the message
\* when that is right, and may put it aside when it is no announcement.
LEMMA ConsiderStep ==
  ASSUME NEW w \in Waits, NEW m \in Messages, mode \in {"off", "observe", "enforce"},
         w.kind \notin Announcements, NEW v, v = Consider(w, m)
  PROVE  /\ Learns(w, v, m)
         /\ m.kind = "enrollment" /\ mode # "off" /\ ~(now >= Deadline) =>
              v.fatal \/ v.flawed \/ v.bound[m.role] # <<>>
         /\ v.got = w.got \/ (v.got = <<m>> /\ m.kind = w.kind /\ m.role = w.role /\ Right(v, m))
         /\ w.fatal => v = w
         /\ v.deferred = w.deferred
              \/ (v.deferred = Append(w.deferred, m) /\ m.kind \notin Announcements)
<1> DEFINE seen == ObserveMessage(w, m)
           told == Extend(seen, m)
<1>1. /\ Learns(w, seen, m) /\ seen.got = w.got /\ seen.deferred = w.deferred
      /\ m.kind = "enrollment" /\ mode # "off" /\ ~(now >= Deadline) =>
           seen.flawed \/ seen.bound[m.role] # <<>>
      /\ m.kind # "enrollment" /\ mode = "observe" => Admits(seen, m) \/ Speech(m) \in seen.flagged
  BY MessageLearns
<1>2. seen \in Waits /\ seen.kind = w.kind /\ seen.role = w.role
  BY <1>1 DEF Learns
<1>3. ASSUME AdmitMessage(seen, m)
      PROVE  /\ told \in Waits /\ told.kind = seen.kind /\ told.role = seen.role
             /\ told.got = seen.got /\ told.deferred = seen.deferred
             /\ told.bound = seen.bound /\ told.flawed = seen.flawed
             /\ told.flagged = seen.flagged
  BY <1>2, <1>3, ExtendLearns DEF AdmitMessage
<1>4. w.fatal => v = w
  BY DEF Consider
<1>5. ~w.fatal /\ (seen.fatal \/ ~AdmitMessage(seen, m)) => v = seen
  BY DEF Consider
<1>6. ~w.fatal /\ ~seen.fatal /\ AdmitMessage(seen, m) =>
        v = IF told.fatal THEN told
            ELSE IF m.kind = told.kind /\ m.role = told.role /\ told.got = <<>>
            THEN [told EXCEPT !.got = <<m>>]
            ELSE IF m.kind \in Announcements THEN told
            ELSE [told EXCEPT !.deferred = Append(@, m)]
  BY <1>2, <1>3 DEF Consider
<1> HIDE DEF seen, told
<1>7. CASE w.fatal
  BY <1>4, <1>7 DEF Learns
<1>8. CASE ~w.fatal /\ (seen.fatal \/ ~AdmitMessage(seen, m))
  BY <1>1, <1>5, <1>8
<1>9. CASE ~w.fatal /\ ~seen.fatal /\ AdmitMessage(seen, m)
  <2>1. Learns(w, told, m)
    BY <1>1, <1>3, <1>9 DEF Learns
  <2>2. CASE told.fatal
    BY <1>1, <1>2, <1>3, <1>6, <1>9, <2>1, <2>2
  <2>3. CASE ~told.fatal /\ m.kind = told.kind /\ m.role = told.role /\ told.got = <<>>
    <3>1. v = [told EXCEPT !.got = <<m>>] /\ <<m>> \in Boxes
      BY <1>6, <1>9, <2>3, BoxProperties
    <3>2. /\ v \in Waits /\ v.kind = told.kind /\ v.role = told.role /\ v.got = <<m>>
          /\ v.deferred = told.deferred /\ v.bound = told.bound /\ v.flawed = told.flawed
          /\ v.flagged = told.flagged
      BY <1>3, <1>9, <3>1 DEF Waits
    <3>3. Learns(w, v, m)
      BY <2>1, <3>2 DEF Learns
    <3>4. m.kind # "enrollment"
      BY <1>2, <1>3, <1>9, <2>3 DEF Announcements
    <3>5. Admits(seen, m) => Spoken(v, m)
      BY <1>3, <1>9, <3>2 DEF Admits, Spoken
    <3>6. Right(v, m)
      BY <1>1, <1>3, <1>9, <3>2, <3>4, <3>5 DEF Right, AdmitMessage
    <3>7. QED BY <1>1, <1>2, <1>3, <1>9, <2>3, <3>2, <3>3, <3>4, <3>6
  <2>4. CASE /\ ~told.fatal /\ ~(m.kind = told.kind /\ m.role = told.role /\ told.got = <<>>)
             /\ m.kind \in Announcements
    BY <1>1, <1>2, <1>3, <1>6, <1>9, <2>1, <2>4
  <2>5. CASE /\ ~told.fatal /\ ~(m.kind = told.kind /\ m.role = told.role /\ told.got = <<>>)
             /\ m.kind \notin Announcements
    <3>1. v = [told EXCEPT !.deferred = Append(@, m)]
      BY <1>6, <1>9, <2>5
    <3>2. told.deferred \in Seq(Messages) /\ Append(told.deferred, m) \in Seq(Messages)
      BY <1>3, <1>9, AppendProperties DEF Waits
    <3>3. /\ v \in Waits /\ v.kind = told.kind /\ v.role = told.role /\ v.got = told.got
          /\ v.deferred = Append(told.deferred, m) /\ v.bound = told.bound
          /\ v.flawed = told.flawed /\ v.flagged = told.flagged
      BY <1>3, <1>9, <3>1, <3>2 DEF Waits
    <3>4. Learns(w, v, m)
      BY <2>1, <3>3 DEF Learns
    <3>5. m.kind # "enrollment"
      BY <2>5 DEF Announcements
    <3>6. QED BY <1>1, <1>2, <1>3, <1>9, <2>5, <3>3, <3>4, <3>5
  <2>6. QED BY <2>2, <2>3, <2>4, <2>5
<1>10. QED BY <1>7, <1>8, <1>9

----------------------------------------------------------------------------
(* A batch of messages                                                     *)

\* Induction over the positions of a log, as the least element of a set.
LEMMA LeastOf ==
  ASSUME NEW T, T \subseteq Nat, T # {}
  PROVE  \E x \in T : \A y \in T : x <= y
<1> DEFINE R == OpToRel(<, Nat)
<1>1. IsWellFoundedOn(R, Nat)
  BY NatLessThanWellFounded
<1> HIDE DEF R
<1>2. PICK x \in T : \A y \in T : ~ (<<y, x>> \in R)
  BY <1>1, WFMin
<1>3. \A y \in T : ~(y < x)
  BY <1>2 DEF R, OpToRel
<1>4. \A y \in T : x \in Nat /\ y \in Nat
  OBVIOUS
<1>5. \A y \in T : x <= y
  BY <1>3, <1>4
<1>6. QED BY <1>5

\* What a wait is after each of the first k messages.
Course(f, w, messages, k) ==
  f = [n \in 0..k |-> IF n = 0 THEN w ELSE Consider(f[n - 1], messages[n])]

LEMMA CourseExists ==
  ASSUME NEW w, NEW messages, NEW k \in Nat
  PROVE  \E f : Course(f, w, messages, k)
<1> DEFINE T == {n \in Nat : ~ \E f : Course(f, w, messages, n)}
<1>1. ASSUME T # {}
      PROVE  FALSE
  <2>1. PICK x \in T : \A y \in T : x <= y
    BY <1>1, LeastOf
  <2>2. x # 0
    <3> DEFINE g == [n \in 0..0 |-> w]
    <3>1. g = [n \in 0..0 |-> IF n = 0 THEN w ELSE Consider(g[n - 1], messages[n])]
      OBVIOUS
    <3>2. Course(g, w, messages, 0)
      BY <3>1 DEF Course
    <3>3. QED BY <3>2
  <2>3. x - 1 \in Nat /\ x - 1 \notin T
    BY <2>1, <2>2
  <2>4. PICK f : Course(f, w, messages, x - 1)
    BY <2>3
  <2> DEFINE g == [n \in 0..x |-> IF n = x THEN Consider(f[x - 1], messages[x]) ELSE f[n]]
  <2>5. \A n \in 0..(x - 1) : f[n] = IF n = 0 THEN w ELSE Consider(f[n - 1], messages[n])
    BY <2>4 DEF Course
  <2>6. \A n \in 0..x : g[n] = IF n = 0 THEN w ELSE Consider(g[n - 1], messages[n])
    <3> TAKE n \in 0..x
    <3>1. CASE n = x
      BY <2>2, <2>3, <3>1
    <3>2. CASE n # x
      <4>1. n \in 0..(x - 1) /\ g[n] = f[n]
        BY <2>3, <3>2
      <4>2. n # 0 => n - 1 \in 0..x /\ n - 1 # x /\ g[n - 1] = f[n - 1]
        BY <2>3, <4>1
      <4>3. QED BY <2>5, <4>1, <4>2
    <3>3. QED BY <3>1, <3>2
  <2>7. g = [n \in 0..x |-> IF n = 0 THEN w ELSE Consider(g[n - 1], messages[n])]
    BY <2>6
  <2>8. Course(g, w, messages, x)
    BY <2>7 DEF Course
  <2>9. QED BY <2>8
<1>2. QED BY <1>1

LEMMA ConsiderAllIs ==
  ASSUME NEW w, NEW messages, Len(messages) \in Nat
  PROVE  \E f : Course(f, w, messages, Len(messages)) /\ ConsiderAll(w, messages) = f[Len(messages)]
<1> DEFINE f == CHOOSE f : Course(f, w, messages, Len(messages))
<1>1. Course(f, w, messages, Len(messages))
  BY CourseExists
<1>2. ConsiderAll(w, messages) = f[Len(messages)]
  BY DEF ConsiderAll, Course
<1>3. QED BY <1>1, <1>2

\* What a wait has learned after a batch.
Knows(w, v, messages, n) ==
  /\ v \in Waits /\ v.kind = w.kind /\ v.role = w.role
  /\ w.flawed => v.flawed
  /\ w.flagged \subseteq v.flagged
  /\ Bound(v.bound)
  /\ \A role \in Roles :
       /\ w.bound[role] # <<>> => v.bound[role] # <<>>
       /\ mode # "off" /\ ~(now >= Deadline) =>
            \A i \in 1..n : Enrolls(messages[i], role) => v.fatal \/ v.flawed \/ v.bound[role] # <<>>
  /\ v.got # <<>> => v.got[1].kind = w.kind /\ v.got[1].role = w.role /\ Right(v, v.got[1])
  /\ \A i \in DOMAIN v.deferred : v.deferred[i].kind \notin Announcements

LEMMA KnowsStep ==
  ASSUME NEW w \in Waits, NEW messages \in Seq(Messages), mode \in {"off", "observe", "enforce"},
         w.kind \notin Announcements,
         mode # "off" /\ ~w.flawed /\ ~(now >= Deadline) => FirstProper(messages, w.bound),
         NEW n \in 1..Len(messages), NEW u, NEW v, v = Consider(u, messages[n]),
         Knows(w, u, messages, n - 1)
  PROVE  Knows(w, v, messages, n)
<1> DEFINE m == messages[n]
<1>1. m \in Messages /\ u \in Waits /\ u.kind = w.kind /\ n \in DOMAIN messages
  BY LenProperties, ElementOfSeq DEF Knows
<1>2. /\ Learns(u, v, m)
      /\ m.kind = "enrollment" /\ mode # "off" /\ ~(now >= Deadline) =>
           v.fatal \/ v.flawed \/ v.bound[m.role] # <<>>
      /\ v.got = u.got \/ (v.got = <<m>> /\ m.kind = u.kind /\ m.role = u.role /\ Right(v, m))
      /\ u.fatal => v = u
      /\ v.deferred = u.deferred
           \/ (v.deferred = Append(u.deferred, m) /\ m.kind \notin Announcements)
  BY <1>1, ConsiderStep
<1> HIDE DEF m
<1>3. v \in Waits /\ v.kind = w.kind /\ v.role = w.role /\ (w.flawed => v.flawed)
      /\ w.flagged \subseteq v.flagged
  BY <1>2 DEF Learns, Knows
<1>4. <<m>> # <<>> /\ <<m>>[1] = m
  BY <1>1, BoxProperties
<1>5. Bound(v.bound)
  <2> SUFFICES ASSUME NEW role \in Roles, v.bound[role] # <<>>
               PROVE  v.bound[role][1].key = Keys[role][1]
    BY DEF Bound
  <2>1. CASE v.bound[role] = u.bound[role]
    BY <2>1 DEF Knows, Bound
  <2>2. CASE /\ u.bound[role] = <<>> /\ Enrolls(m, role) /\ v.bound[role] = <<m>>
             /\ mode # "off" /\ ~u.flawed /\ ~(now >= Deadline) /\ ~u.fatal
    <3>1. w.bound[role] = <<>> /\ ~w.flawed
      BY <2>2 DEF Knows
    <3>2. PICK j \in 1..n : Proper(messages[j], role)
      BY <1>1, <2>2, <3>1 DEF FirstProper, m
    <3>3. j = n
      <4>1. j # n => j \in 1..(n - 1)
        BY <1>1, LenProperties
      <4>2. j \notin 1..(n - 1)
        BY <2>2, <3>2 DEF Knows, Proper
      <4>3. QED BY <4>1, <4>2
    <3>4. QED BY <1>4, <2>2, <3>2, <3>3 DEF Proper, m
  <2>3. u.fatal => v.bound[role] = u.bound[role]
    BY <1>2
  <2>4. QED BY <1>2, <2>1, <2>2, <2>3 DEF Learns
<1>6. ASSUME NEW role \in Roles
      PROVE  /\ w.bound[role] # <<>> => v.bound[role] # <<>>
             /\ mode # "off" /\ ~(now >= Deadline) =>
                  \A i \in 1..n : Enrolls(messages[i], role) => v.fatal \/ v.flawed \/ v.bound[role] # <<>>
  <2>1. u.bound[role] # <<>> => v.bound[role] # <<>>
    BY <1>2 DEF Learns
  <2>2. w.bound[role] # <<>> => v.bound[role] # <<>>
    BY <2>1 DEF Knows
  <2>3. ASSUME mode # "off", ~(now >= Deadline), NEW i \in 1..n, Enrolls(messages[i], role)
        PROVE  v.fatal \/ v.flawed \/ v.bound[role] # <<>>
    <3>1. CASE i = n
      BY <1>2, <2>3, <3>1 DEF Enrolls, m
    <3>2. CASE i # n
      <4>1. i \in 1..(n - 1)
        BY <3>2
      <4>2. u.fatal \/ u.flawed \/ u.bound[role] # <<>>
        BY <2>3, <4>1 DEF Knows
      <4>3. u.fatal => v.fatal
        BY <1>2
      <4>4. u.flawed => v.flawed
        BY <1>2 DEF Learns
      <4>5. QED BY <2>1, <4>2, <4>3, <4>4
    <3>3. QED BY <3>1, <3>2
  <2>4. QED BY <2>2, <2>3
<1>7. v.got # <<>> => v.got[1].kind = w.kind /\ v.got[1].role = w.role /\ Right(v, v.got[1])
  <2>1. CASE v.got = u.got /\ v.got # <<>>
    <3> DEFINE g == u.got[1]
    <3>1. g.kind = w.kind /\ g.role = w.role /\ Right(u, g) /\ g \in Messages
      BY <1>1, <2>1, BoxProperties DEF Knows, Waits
    <3> HIDE DEF g
    <3>2. Spoken(u, g) => Spoken(v, g)
      <4>1. g.role \in Roles
        BY <3>1 DEF Messages
      <4>2. u.bound[g.role] # <<>> => v.bound[g.role] = u.bound[g.role]
        BY <1>2, <4>1 DEF Learns
      <4>3. QED BY <4>2 DEF Spoken
    <3>3. u.flagged \subseteq v.flagged
      BY <1>2 DEF Learns
    <3>4. Right(v, g)
      BY <3>1, <3>2, <3>3 DEF Right
    <3>5. QED BY <2>1, <3>1, <3>4 DEF g
  <2>2. CASE v.got = <<m>> /\ m.kind = u.kind /\ m.role = u.role /\ Right(v, m)
    BY <1>4, <2>2 DEF Knows
  <2>3. QED BY <1>2, <2>1, <2>2
<1>8. \A i \in DOMAIN v.deferred : v.deferred[i].kind \notin Announcements
  <2>1. CASE v.deferred = u.deferred
    BY <2>1 DEF Knows
  <2>2. CASE v.deferred = Append(u.deferred, m) /\ m.kind \notin Announcements
    <3>1. u.deferred \in Seq(Messages)
      BY <1>1 DEF Waits
    <3>2. /\ DOMAIN v.deferred = 1..(Len(u.deferred) + 1) /\ Len(u.deferred) \in Nat
          /\ DOMAIN u.deferred = 1..Len(u.deferred)
          /\ \A i \in 1..Len(u.deferred) : v.deferred[i] = u.deferred[i]
          /\ v.deferred[Len(u.deferred) + 1] = m
      BY <1>1, <2>2, <3>1, AppendProperties, LenProperties
    <3>3. QED BY <2>2, <3>2 DEF Knows
  <2>3. QED BY <1>2, <2>1, <2>2
<1>9. QED BY <1>3, <1>5, <1>6, <1>7, <1>8 DEF Knows

\* After a whole batch: the bindings are of the first keys, every enrollment in the batch
\* has left its role bound or ended the bindings, and what is taken is right.
LEMMA BatchKnown ==
  ASSUME NEW w \in Waits, NEW messages \in Seq(Messages), mode \in {"off", "observe", "enforce"},
         w.kind \notin Announcements, w.got = <<>>, Bound(w.bound),
         mode # "off" /\ ~w.flawed /\ ~(now >= Deadline) => FirstProper(messages, w.bound),
         \A i \in DOMAIN w.deferred : w.deferred[i].kind \notin Announcements
  PROVE  Knows(w, ConsiderAll(w, messages), messages, Len(messages))
<1>1. Len(messages) \in Nat
  BY LenProperties
<1>2. PICK f : Course(f, w, messages, Len(messages)) /\ ConsiderAll(w, messages) = f[Len(messages)]
  BY <1>1, ConsiderAllIs
<1>3. \A n \in 0..Len(messages) : f[n] = IF n = 0 THEN w ELSE Consider(f[n - 1], messages[n])
  BY <1>2 DEF Course
<1>4. Knows(w, f[0], messages, 0)
  <2>1. f[0] = w
    BY <1>1, <1>3
  <2>2. QED BY <2>1 DEF Knows
<1> DEFINE T == {n \in Nat : n \in 0..Len(messages) /\ ~Knows(w, f[n], messages, n)}
<1>5. ASSUME T # {}
      PROVE  FALSE
  <2>1. PICK x \in T : \A y \in T : x <= y
    BY <1>5, LeastOf
  <2>2. x \in 1..Len(messages) /\ x - 1 \in 0..Len(messages) /\ x - 1 \in Nat
    BY <1>1, <1>4, <2>1
  <2>3. Knows(w, f[x - 1], messages, x - 1)
    BY <2>1, <2>2
  <2>4. f[x] = Consider(f[x - 1], messages[x])
    BY <1>3, <2>2
  <2>5. Knows(w, f[x], messages, x)
    BY <2>2, <2>3, <2>4, KnowsStep
  <2>6. QED BY <2>1, <2>5
<1>6. Len(messages) \notin T
  BY <1>5
<1>7. QED BY <1>1, <1>2, <1>6

----------------------------------------------------------------------------
(* Where the runner goes                                                   *)

LEMMA Stops ==
  ASSUME now \in Nat, HostOK
  PROVE  /\ BudgetStop \in Nat /\ ProtocolStop \in Nat /\ ProtocolStop <= Deadline
         /\ \A expiry \in Nat : Bounded(expiry) \in Nat /\ Bounded(expiry) <= Deadline
         /\ Deadline \in Nat /\ InvitationEnd \in Nat
<1>1. Deadline \in Nat /\ InvitationEnd \in Nat /\ Budget \in Nat /\ Deadline \in Int
  BY InboxAssumption, HostAssumption
<1>2. ASSUME NEW expiry \in Nat
      PROVE  Bounded(expiry) \in Nat /\ Bounded(expiry) <= Deadline
  <2>1. CASE expiry = 0
    BY <1>1, <2>1 DEF Bounded
  <2>2. CASE expiry # 0
    <3>1. expiry \in Int
      OBVIOUS
    <3>2. Min({Deadline, expiry}) \in {Deadline, expiry} /\ Min({Deadline, expiry}) <= Deadline
      BY <1>1, <3>1, MinOfTwo
    <3>3. QED BY <1>1, <2>2, <3>2 DEF Bounded
  <2>3. QED BY <2>1, <2>2
<1>3. BudgetStop \in Nat
  <2> DEFINE later == now + Budget
  <2>1. later \in Nat /\ later \in Int
    BY <1>1
  <2> HIDE DEF later
  <2>2. Min({Deadline, later}) \in {Deadline, later}
    BY <1>1, <2>1, MinOfTwo
  <2>3. BudgetStop = Min({Deadline, later})
    BY DEF BudgetStop, later
  <2>4. QED BY <1>1, <2>1, <2>2, <2>3
<1>4. host.learned \in Nat
  BY DEF HostOK
<1>5. QED BY <1>1, <1>2, <1>3, <1>4 DEF ProtocolStop

\* How a step may move the runner: on to a call or to the next step, or out of the script
\* for good.
Runs == {"ready", "call"}

HostMoves ==
  /\ HostOK'
  /\ \/ host' = host
     \/ host'.pc = host.pc /\ host'.at \notin Runs
     \/ host'.pc = host.pc /\ host.at \in Runs /\ host'.at = "call"
     \/ host'.pc = host.pc + 1 /\ host.at \in Runs /\ host'.at = "ready"

LEMMA AdvanceMoves ==
  ASSUME HostOK, Advance, host.at \in Runs
  PROVE  HostMoves
<1>1. CASE host.pc = 34
  BY <1>1, ScriptLength DEF Advance, HostOK, HostMoves, Runs
<1>2. CASE host.pc # 34
  <2>1. host' = [host EXCEPT !.pc = @ + 1, !.at = "ready", !.until = 0]
    BY <1>2, ScriptLength DEF Advance
  <2>2. host.pc + 1 \in 1..34
    BY <1>2 DEF HostOK
  <2>3. QED BY <2>1, <2>2 DEF HostOK, HostMoves
<1>3. QED BY <1>1, <1>2

LEMMA StopMoves ==
  ASSUME HostOK, NEW code \in Codes, Stop(code)
  PROVE  HostMoves /\ host'.at = "stopped" /\ host'.why = code /\ host'.pc = host.pc
BY DEF Stop, HostOK, HostMoves, Runs

LEMMA CallMoves ==
  ASSUME HostOK, NEW stop \in Nat, Call(stop), host.at \in Runs
  PROVE  HostMoves /\ host' = [host EXCEPT !.at = "call", !.until = stop]
BY DEF Call, HostOK, HostMoves

LEMMA TellMoves ==
  ASSUME TypeOK, NEW code \in Codes, NEW isStrict \in BOOLEAN, Tell(code, isStrict)
  PROVE  /\ HostMoves /\ host'.at = "failed" /\ host'.why = code /\ host'.next = "none"
         /\ host'.notified = host.notified /\ host'.pc = host.pc
         /\ draft' \in Snapshots /\ draft'.failure = code /\ UNCHANGED <<accepted, shown>>
<1>1. BudgetStop \in Nat
  BY Stops DEF TypeOK
<1> HIDE DEF BudgetStop
<1>2. "none" \in Codes
  BY DEF Codes
<1>3. /\ host' = [host EXCEPT !.at = "failed", !.why = code, !.until = BudgetStop,
                              !.strict = isStrict, !.next = "none"]
      /\ draft' = [draft EXCEPT !.failure = code] /\ UNCHANGED <<accepted, shown>>
  BY DEF Tell, DraftFailure
<1>4. draft' \in Snapshots /\ draft'.failure = code
  BY <1>3 DEF TypeOK, Snapshots
<1>5. HostMoves /\ host'.at = "failed" /\ host'.why = code /\ host'.next = "none"
      /\ host'.notified = host.notified /\ host'.pc = host.pc
  BY <1>1, <1>2, <1>3 DEF TypeOK, HostOK, HostMoves, Runs
<1>6. QED BY <1>3, <1>4, <1>5

LEMMA NotifyMoves ==
  ASSUME HostOK, NEW code \in Codes, NEW next \in Codes, Notify(code, next)
  PROVE  /\ HostMoves /\ host'.pc = host.pc
         /\ host.notified => host' = [host EXCEPT !.at = "stopped"]
         /\ ~host.notified => /\ host'.at = "notify" /\ host'.why = code /\ host'.next = next
                              /\ host'.notified
<1>1. Deadline \in Nat
  BY InboxAssumption
<1>2. CASE host.notified
  BY <1>2 DEF Notify, HostOK, HostMoves, Runs
<1>3. CASE ~host.notified
  BY <1>1, <1>3 DEF Notify, HostOK, HostMoves, Runs
<1>4. QED BY <1>2, <1>3

\* An error of a step is told, or stops the session under its own name.
Told == \E code \in Codes \ {"none"}, isStrict \in BOOLEAN : Tell(code, isStrict)

LEMMA ThrowIs ==
  ASSUME NEW code \in Codes, Throw(code)
  PROVE  \/ Told /\ Doing.phase # "agree"
         \/ /\ Stop(code) /\ UNCHANGED monitorVars
            /\ ~(Doing.phase = "claim" /\ code \in {"invitation_expired", "binding_invalid"})
<1>0. \A c \in Codes \ {"none"} : Tell(c, TRUE) \/ Tell(c, FALSE) => Told
  BY DEF Told
<1>1. CASE Doing.phase = "claim" /\ code \in {"invitation_expired", "binding_invalid"}
  <2>1. Tell(code, FALSE)
    BY <1>1 DEF Throw
  <2>2. code \in Codes \ {"none"}
    BY <1>1
  <2>3. QED BY <1>0, <1>1, <2>1, <2>2
<1>2. CASE Doing.phase = "prepare"
  <2> DEFINE c == IF Doing.arg \in {"reserve", "transaction", "funding"}
                  THEN "funding_unavailable" ELSE "preparation_failed"
  <2>1. Tell(c, FALSE)
    BY <1>2 DEF Throw
  <2>2. c \in Codes \ {"none"}
    BY DEF Codes
  <2> HIDE DEF c
  <2>3. QED BY <1>0, <1>2, <2>1, <2>2
<1>3. CASE Doing.phase = "verdict"
  <2>1. Tell("verdict_invalid", TRUE)
    BY <1>3 DEF Throw
  <2>2. "verdict_invalid" \in Codes \ {"none"}
    BY DEF Codes
  <2>3. QED BY <1>0, <1>3, <2>1, <2>2
<1>4. CASE /\ ~(Doing.phase = "claim" /\ code \in {"invitation_expired", "binding_invalid"})
           /\ Doing.phase # "prepare" /\ Doing.phase # "verdict"
  BY <1>4 DEF Throw
<1>5. QED BY <1>1, <1>2, <1>3, <1>4

LEMMA ThrowMoves ==
  ASSUME TypeOK, NEW code \in Codes, Throw(code)
  PROVE  /\ HostMoves /\ host'.at \in {"failed", "stopped"} /\ host'.pc = host.pc
         /\ draft' \in Snapshots /\ UNCHANGED <<accepted, shown>>
<1>1. ASSUME NEW told \in Codes, NEW isStrict \in BOOLEAN, Tell(told, isStrict)
      PROVE  /\ HostMoves /\ host'.at \in {"failed", "stopped"} /\ host'.pc = host.pc
             /\ draft' \in Snapshots /\ UNCHANGED <<accepted, shown>>
  BY <1>1, TellMoves
<1>2. ASSUME Stop(code), UNCHANGED monitorVars
      PROVE  /\ HostMoves /\ host'.at \in {"failed", "stopped"} /\ host'.pc = host.pc
             /\ draft' \in Snapshots /\ UNCHANGED <<accepted, shown>>
  BY <1>2, StopMoves DEF TypeOK, monitorVars
<1>3. QED BY <1>1, <1>2, ThrowIs DEF Told

----------------------------------------------------------------------------
(* What a wait reads                                                       *)

LEMMA WaitTyped ==
  ASSUME TypeOK, host.pc \in 1..34, Doing.op = "await", NEW stop \in Nat
  PROVE  LET w == Wait(Doing.arg, Doing.role, stop)
         IN /\ w \in Waits /\ w.kind = Doing.arg /\ w.role = Doing.role
            /\ w.got = <<>> /\ w.bound = bound /\ w.flawed = flawed /\ w.deferred = <<>>
            /\ w.flagged = flagged
            /\ Doing.arg \in Kinds \ Announcements /\ Doing.role \in Roles
<1>1. Doing.arg \in Kinds \ Announcements /\ Doing.role \in Roles
  BY ScriptFacts DEF Doing
<1>2. <<>> \in Seq(Messages) /\ <<>> \in Boxes
  BY EmptySeq, BoxProperties
<1>3. /\ bound \in [Roles -> Boxes] /\ minted \in Nat /\ flawed \in BOOLEAN
      /\ flagged \in SUBSET Speeches
  BY DEF TypeOK, InboxOK
<1> HIDE DEF Doing
<1>4. QED BY <1>1, <1>2, <1>3 DEF Wait, Waits, AllKinds

LEMMA AwaitReads ==
  ASSUME TypeOK, SpeakInv, Doing.op = "await", NEW stop \in Nat
  PROVE  LET w == Wait(Doing.arg, Doing.role, stop)
         IN Knows(w, ConsiderAll(w, deferred), deferred, Len(deferred))
<1> DEFINE w == Wait(Doing.arg, Doing.role, stop)
<1>1. /\ w \in Waits /\ w.kind = Doing.arg /\ w.got = <<>> /\ w.bound = bound
      /\ w.flawed = flawed /\ w.deferred = <<>> /\ Doing.arg \in Kinds \ Announcements
  BY WaitTyped DEF TypeOK, HostOK
<1>2. deferred \in Seq(Messages) /\ mode \in {"off", "observe", "enforce"}
  BY DEF TypeOK, InboxOK
<1>3. Bound(bound) /\ \A i \in DOMAIN deferred : deferred[i].kind \notin Announcements
  BY DEF SpeakInv
<1>4. FirstProper(deferred, bound)
  BY <1>3 DEF FirstProper, Enrolls, Announcements
<1> HIDE DEF w
<1>5. \A i \in DOMAIN w.deferred : w.deferred[i].kind \notin Announcements
  BY <1>1
<1>6. QED BY <1>1, <1>2, <1>3, <1>4, <1>5, BatchKnown DEF w

LEMMA PollReads ==
  ASSUME TypeOK, SpeakInv, Doing.op = "await", host.at \in Runs
  PROVE  LET w == [Wait(Doing.arg, Doing.role, host.until) EXCEPT !.deferred = deferred]
         IN /\ Knows(w, ConsiderAll(w, unread), unread, Len(unread))
            /\ w.kind = Doing.arg /\ w.role = Doing.role /\ w.bound = bound /\ w.flawed = flawed
            /\ w.flagged = flagged
<1> DEFINE s == Wait(Doing.arg, Doing.role, host.until)
           w == [s EXCEPT !.deferred = deferred]
<1>1. /\ s \in Waits /\ s.kind = Doing.arg /\ s.role = Doing.role /\ s.got = <<>>
      /\ s.bound = bound /\ s.flawed = flawed /\ s.flagged = flagged
      /\ Doing.arg \in Kinds \ Announcements
  BY WaitTyped DEF TypeOK, HostOK
<1>2. deferred \in Seq(Messages) /\ unread \in Seq(Messages)
      /\ mode \in {"off", "observe", "enforce"}
  BY DEF TypeOK, InboxOK
<1> HIDE DEF s
<1>3. /\ w \in Waits /\ w.kind = Doing.arg /\ w.role = Doing.role /\ w.got = <<>>
      /\ w.bound = bound /\ w.flawed = flawed /\ w.flagged = flagged /\ w.deferred = deferred
  BY <1>1, <1>2 DEF Waits
<1>4. Bound(bound) /\ \A i \in DOMAIN deferred : deferred[i].kind \notin Announcements
  BY DEF SpeakInv
<1>5. mode # "off" /\ ~flawed /\ ~(now >= Deadline) => FirstProper(unread, bound)
  <2>1. ~(now >= Deadline) => now < Deadline
    BY InboxAssumption DEF TypeOK
  <2>2. QED BY <2>1 DEF SpeakInv, Listening, Runs
<1> HIDE DEF w
<1>6. w.kind \notin Announcements
  BY <1>1, <1>3
<1>7. QED BY <1>2, <1>3, <1>4, <1>5, <1>6, BatchKnown DEF w, s

LEMMA AcceptMoves ==
  ASSUME TypeOK, NEW m \in Messages, Accept(m), m.kind = Doing.arg, Doing.op = "await",
         host.at \in Runs
  PROVE  /\ HostMoves
         /\ draft' \in Snapshots /\ UNCHANGED <<accepted, shown>>
<1>1. HostOK /\ host.pc \in 1..34 /\ draft \in Snapshots /\ "invalid" \in Codes
      /\ "binding_invalid" \in Codes /\ "invitation_expired" \in Codes /\ m.exp \in Nat
  BY DEF TypeOK, HostOK, Codes, Messages
<1>2. host.pc # 34
  BY <1>1, ScriptFacts DEF Doing
<1>3. ASSUME NEW code \in Codes, Throw(code)
      PROVE  HostMoves /\ draft' \in Snapshots /\ UNCHANGED <<accepted, shown>>
  BY <1>3, ThrowMoves
<1>4. ASSUME Advance, UNCHANGED monitorVars
      PROVE  HostMoves /\ draft' \in Snapshots /\ UNCHANGED <<accepted, shown>>
  BY <1>1, <1>4, AdvanceMoves DEF monitorVars
<1>5. CASE m.kind = "claimed"
  <2>1. Claim(m)
    BY <1>5 DEF Accept
  <2>2. \/ Throw("binding_invalid") \/ Throw("invitation_expired")
        \/ Advance /\ UNCHANGED monitorVars
    BY <2>1 DEF Claim
  <2>3. QED BY <1>1, <1>3, <1>4, <2>2
<1>6. CASE m.kind = "proposal" /\ InAgreement(m)
  <2>1. /\ host' = [host EXCEPT !.pc = @ + 1, !.at = "ready", !.until = 0, !.agreement = m.exp]
        /\ UNCHANGED monitorVars
    BY <1>6 DEF Accept
  <2>2. host.pc + 1 \in 1..34
    BY <1>1, <1>2
  <2>3. HostMoves
    BY <1>1, <2>1, <2>2 DEF HostOK, HostMoves
  <2>4. QED BY <1>1, <2>1, <2>3 DEF monitorVars
<1>7. CASE (m.kind = "proposal" /\ ~InAgreement(m)) \/ (m.kind = "acceptance" /\ ~StillAgreed)
  <2>1. Throw("invalid")
    BY <1>7 DEF Accept
  <2>2. QED BY <1>1, <1>3, <2>1
<1>8. CASE /\ m.kind # "claimed" /\ ~(m.kind = "proposal" /\ InAgreement(m))
           /\ ~((m.kind = "proposal" /\ ~InAgreement(m)) \/ (m.kind = "acceptance" /\ ~StillAgreed))
  <2>1. Advance /\ UNCHANGED monitorVars
    BY <1>8 DEF Accept
  <2>2. QED BY <1>4, <2>1
<1>9. QED BY <1>5, <1>6, <1>7, <1>8

----------------------------------------------------------------------------
(* Types                                                                   *)

LEMMA ScreenProperties ==
  /\ \A b \in Screens : b # <<>> => b[1] \in Snapshots
  /\ \A s \in Snapshots : <<s>> \in Screens /\ <<s>> # <<>> /\ <<s>>[1] = s
<1>1. ASSUME NEW b \in Screens, b # <<>>
      PROVE  b[1] \in Snapshots
  <2>0. b \in Seq(Snapshots) /\ Len(b) <= 1
    BY DEF Screens
  <2>1. Len(b) \in Nat \ {0}
    BY <1>1, <2>0, EmptySeq
  <2>2. QED BY <2>0, <2>1, ElementOfSeq
<1>2. \A s \in Snapshots : <<s>> \in Screens /\ <<s>> # <<>> /\ <<s>>[1] = s
  BY DEF Screens
<1>3. QED BY <1>1, <1>2

RelayOK == relay \in [notices : SUBSET Codes, descriptor : BOOLEAN, result : BOOLEAN]
TroubleOK == trouble \subseteq {"lost", "refused", "unavailable"}
MonitorOK == draft \in Snapshots /\ accepted \in Screens /\ shown \in Screens

\* Most steps are of the runner and of what it sends.
LEMMA QuietTypes ==
  ASSUME TypeOK, UNCHANGED <<now, mode, inboxVars, fundingVars, envVars>>,
         HostOK', MonitorOK', RelayOK', TroubleOK'
  PROVE  TypeOK'
<1>1. InboxOK'
  BY DEF TypeOK, InboxOK, inboxVars
<1>2. FundingOK'
  BY DEF TypeOK, FundingOK, fundingVars
<1>3. invitation' = invitation /\ now' = now
  BY DEF envVars
<1>4. QED BY <1>1, <1>2, <1>3 DEF TypeOK, MonitorOK, RelayOK, TroubleOK

LEMMA SameMonitor ==
  ASSUME TypeOK
  PROVE  /\ UNCHANGED monitorVars => MonitorOK'
         /\ draft' \in Snapshots /\ UNCHANGED <<accepted, shown>> => MonitorOK'
         /\ UNCHANGED relay => RelayOK'
         /\ UNCHANGED trouble => TroubleOK'
         /\ UNCHANGED host => HostMoves
         /\ HostOK /\ host.pc \in 1..34
<1>1. HostOK /\ host.pc \in 1..34
  BY DEF TypeOK, HostOK
<1>2. UNCHANGED host => HostMoves
  BY <1>1 DEF HostMoves, HostOK
<1>3. QED BY <1>1, <1>2 DEF TypeOK, monitorVars, MonitorOK, RelayOK, TroubleOK

LEMMA TypesOfSteps ==
  ASSUME TypeOK, Skip \/ Lapse \/ AskFails \/ AwaitExpires \/ AwaitFails
  PROVE  TypeOK' /\ HostMoves
<1>1. HostOK /\ host.pc \in 1..34
  BY SameMonitor
<1>2. CASE Skip
  <2>1. HostMoves
    BY <1>1, <1>2, AdvanceMoves DEF Skip, Runs
  <2>2. MonitorOK' /\ RelayOK' /\ TroubleOK'
    BY <1>2, SameMonitor DEF Skip, outVars
  <2>3. UNCHANGED <<now, mode, inboxVars, fundingVars, envVars>>
    BY <1>2 DEF Skip
  <2>4. QED BY <2>1, <2>2, <2>3, QuietTypes DEF HostMoves
<1>3. CASE Lapse
  <2>1. Tell("lapsed", TRUE) /\ "lapsed" \in Codes
    BY <1>3 DEF Lapse, Codes
  <2>2. HostMoves /\ MonitorOK'
    BY <2>1, TellMoves, SameMonitor
  <2>3. RelayOK' /\ TroubleOK'
    BY <1>3, SameMonitor DEF Lapse, outVars
  <2>4. UNCHANGED <<now, mode, inboxVars, fundingVars, envVars>>
    BY <1>3 DEF Lapse
  <2>5. QED BY <2>2, <2>3, <2>4, QuietTypes DEF HostMoves
<1>4. CASE AskFails \/ AwaitExpires \/ AwaitFails
  <2>1. PICK code \in {"invalid", "ended", "invitation_expired"} : Throw(code)
    BY <1>4 DEF AskFails, AwaitExpires, AwaitFails
  <2>2. code \in Codes
    BY DEF Codes
  <2>3. HostMoves /\ MonitorOK'
    BY <2>1, <2>2, ThrowMoves, SameMonitor
  <2>4. RelayOK' /\ TroubleOK'
    BY <1>4, SameMonitor DEF AskFails, AwaitExpires, AwaitFails, outVars
  <2>5. UNCHANGED <<now, mode, inboxVars, fundingVars, envVars>>
    BY <1>4 DEF AskFails, AwaitExpires, AwaitFails
  <2>6. QED BY <2>3, <2>4, <2>5, QuietTypes DEF HostMoves
<1>5. QED BY <1>2, <1>3, <1>4

LEMMA TypesOfBegin ==
  ASSUME TypeOK, BeginShow \/ BeginCreate \/ BeginRecord \/ BeginPublish
  PROVE  TypeOK' /\ HostMoves
<1>1. HostOK /\ host.pc \in 1..34 /\ draft \in Snapshots
  BY SameMonitor DEF TypeOK
<1>2. BudgetStop \in Nat /\ InvitationEnd \in Nat /\ \A expiry \in Nat : Bounded(expiry) \in Nat
  BY Stops DEF TypeOK
<1>3. UNCHANGED <<now, mode, inboxVars, fundingVars, envVars>> /\ RelayOK' /\ TroubleOK'
      /\ host.at \in Runs
  BY SameMonitor DEF BeginShow, BeginCreate, BeginRecord, BeginPublish, outVars, Ready, Runs
<1> HIDE DEF BudgetStop, Bounded
<1>4. CASE BeginShow
  <2>1. HostMoves
    BY <1>1, <1>2, <1>3, <1>4, CallMoves DEF BeginShow
  <2> DEFINE certified == draft.certified \/ (Doing.arg = "issued")
             stage == draft.stage + 1
  <2>2. draft' = [draft EXCEPT !.stage = stage, !.certified = certified]
        /\ UNCHANGED <<accepted, shown>>
    BY <1>4 DEF BeginShow, DraftStep
  <2>3. certified \in BOOLEAN
    BY DEF Snapshots
  <2>4. stage \in Nat
    BY <1>1 DEF Snapshots
  <2> HIDE DEF certified, stage
  <2>5. draft' \in Snapshots
    BY <1>1, <2>2, <2>3, <2>4 DEF Snapshots
  <2>6. MonitorOK'
    BY <2>2, <2>5, SameMonitor
  <2>7. QED BY <1>3, <2>1, <2>6, QuietTypes DEF HostMoves
<1>5. CASE BeginCreate
  <2>1. MonitorOK' /\ (Call(InvitationEnd) \/ Stop("ended")) /\ "ended" \in Codes
    BY <1>5, SameMonitor DEF BeginCreate, Codes
  <2>2. HostMoves
    BY <1>1, <1>2, <1>3, <2>1, CallMoves, StopMoves
  <2>3. QED BY <1>3, <2>1, <2>2, QuietTypes DEF HostMoves
<1>6. CASE BeginRecord
  <2>1. PICK known \in Nat :
          host' = [host EXCEPT !.at = "call", !.learned = known, !.until = Bounded(known)]
    BY <1>1, <1>6 DEF BeginRecord, HostOK
  <2>2. HostMoves
    BY <1>1, <1>2, <1>3, <2>1 DEF HostOK, HostMoves
  <2>3. MonitorOK'
    BY <1>6, SameMonitor DEF BeginRecord
  <2>4. QED BY <1>3, <2>2, <2>3, QuietTypes DEF HostMoves
<1>7. CASE BeginPublish
  <2>1. MonitorOK' /\ Call(BudgetStop)
    BY <1>7, SameMonitor DEF BeginPublish
  <2>2. HostMoves
    BY <1>1, <1>2, <1>3, <2>1, CallMoves
  <2>3. QED BY <1>3, <2>1, <2>2, QuietTypes DEF HostMoves
<1>8. QED BY <1>4, <1>5, <1>6, <1>7

LEMMA NotifiedIs ==
  ASSUME Notified
  PROVE  /\ UNCHANGED monitorVars
         /\ host.next # "none" => Notify(host.next, "none")
         /\ host.next = "none" => Stop(host.why)
BY DEF Notified, AfterPublished

LEMMA TypesOfShow ==
  ASSUME TypeOK, ShowAnswered \/ ShowRefused \/ ShowUnanswered \/ ShowGivesUp
  PROVE  TypeOK' /\ HostMoves
<1>1. HostOK /\ host.pc \in 1..34 /\ draft \in Snapshots /\ accepted \in Screens /\ shown \in Screens
      /\ trouble \subseteq {"lost", "refused", "unavailable"}
      /\ <<draft>> \in Screens /\ host.why \in Codes /\ host.next \in Codes
      /\ "none" \in Codes /\ "snapshot_rejected" \in Codes /\ "unavailable" \in Codes
  BY SameMonitor, ScreenProperties DEF TypeOK, HostOK, Codes
<1>2. BudgetStop \in Nat
  BY Stops DEF TypeOK
<1> HIDE DEF BudgetStop
<1>3. UNCHANGED <<now, mode, inboxVars, fundingVars, envVars>> /\ RelayOK' /\ TroubleOK'
      /\ host.at \in {"call", "failed", "rejected"}
  <2>1. UNCHANGED <<now, mode, inboxVars, fundingVars, envVars>> /\ UNCHANGED relay
        /\ host.at \in {"call", "failed", "rejected"}
    BY DEF ShowAnswered, ShowRefused, ShowUnanswered, ShowGivesUp, outVars, Showing, In
  <2>2. trouble' = trouble \/ \E t \in {"lost", "refused", "unavailable"} : trouble' = trouble \cup {t}
    BY DEF ShowAnswered, ShowRefused, ShowUnanswered, ShowGivesUp, outVars
  <2>3. TroubleOK'
    BY <1>1, <2>2 DEF TroubleOK
  <2>4. QED BY <2>1, <2>3, SameMonitor
<1>4. CASE ShowAnswered
  <2>1. MonitorOK'
    BY <1>1, <1>4 DEF ShowAnswered, Confirmed, MonitorOK
  <2>2. CASE host.at = "call"
    <3>1. Advance
      BY <1>4, <2>2 DEF ShowAnswered
    <3>2. QED BY <1>1, <1>3, <2>1, <2>2, <3>1, AdvanceMoves, QuietTypes DEF Runs, HostMoves
  <2>3. CASE host.at # "call"
    <3>1. Notify(host.why, host.next)
      BY <1>4, <2>3 DEF ShowAnswered
    <3>2. QED BY <1>1, <1>3, <2>1, <3>1, NotifyMoves, QuietTypes DEF HostMoves
  <2>4. QED BY <2>2, <2>3
<1>5. CASE ShowRefused
  <2> DEFINE next == IF host.at = "failed" /\ ~host.strict THEN host.why ELSE host.next
  <2>1. next \in Codes
    BY <1>1
  <2>2. \/ Notify("snapshot_rejected", next) /\ UNCHANGED monitorVars
        \/ /\ host' = [host EXCEPT !.at = "rejected", !.why = "snapshot_rejected",
                                   !.next = next, !.until = BudgetStop]
           /\ DraftFailureAfterRejection("snapshot_rejected")
    BY <1>5 DEF ShowRefused
  <2> HIDE DEF next
  <2>3. CASE Notify("snapshot_rejected", next) /\ UNCHANGED monitorVars
    BY <1>1, <1>3, <2>1, <2>3, NotifyMoves, SameMonitor, QuietTypes DEF HostMoves
  <2>4. CASE /\ host' = [host EXCEPT !.at = "rejected", !.why = "snapshot_rejected",
                                     !.next = next, !.until = BudgetStop]
             /\ DraftFailureAfterRejection("snapshot_rejected")
    <3>1. HostMoves
      BY <1>1, <1>2, <2>1, <2>4 DEF HostOK, HostMoves, Runs
    <3>2. accepted # <<>> /\ draft' = [accepted[1] EXCEPT !.failure = "snapshot_rejected"]
          /\ UNCHANGED <<accepted, shown>>
      BY <2>4 DEF DraftFailureAfterRejection
    <3>3. accepted[1] \in Snapshots
      BY <1>1, <3>2, ScreenProperties
    <3>4. draft' \in Snapshots
      BY <1>1, <3>2, <3>3 DEF Snapshots
    <3>5. MonitorOK'
      BY <3>2, <3>4, SameMonitor
    <3>6. QED BY <1>3, <3>1, <3>5, QuietTypes DEF HostMoves
  <2>5. QED BY <2>2, <2>3, <2>4
<1>6. CASE ShowUnanswered
  <2>1. MonitorOK'
    BY <1>1, <1>6 DEF ShowUnanswered, Unanswered, MonitorOK
  <2>2. HostMoves
    BY <1>6, SameMonitor DEF ShowUnanswered
  <2>3. QED BY <1>3, <2>1, <2>2, QuietTypes DEF HostMoves
<1>7. CASE ShowGivesUp
  <2>1. \/ Throw("unavailable") \/ (Stop("unavailable") /\ UNCHANGED monitorVars)
        \/ (Notify(host.why, host.next) /\ UNCHANGED monitorVars)
    BY <1>7 DEF ShowGivesUp
  <2>2. CASE Throw("unavailable")
    BY <1>1, <1>3, <2>2, ThrowMoves, SameMonitor, QuietTypes DEF HostMoves
  <2>3. CASE Stop("unavailable") /\ UNCHANGED monitorVars
    BY <1>1, <1>3, <2>3, StopMoves, SameMonitor, QuietTypes DEF HostMoves
  <2>4. CASE Notify(host.why, host.next) /\ UNCHANGED monitorVars
    BY <1>1, <1>3, <2>4, NotifyMoves, SameMonitor, QuietTypes DEF HostMoves
  <2>5. QED BY <2>1, <2>2, <2>3, <2>4
<1>8. QED BY <1>4, <1>5, <1>6, <1>7

LEMMA TypesOfSend ==
  ASSUME TypeOK, SendAnswered \/ SendUnanswered \/ SendGivesUp
  PROVE  TypeOK' /\ HostMoves
<1>1. HostOK /\ host.pc \in 1..34 /\ host.why \in Codes /\ host.next \in Codes
      /\ trouble \subseteq {"lost", "refused", "unavailable"} /\ RelayOK
      /\ "none" \in Codes /\ "unavailable" \in Codes
  BY SameMonitor DEF TypeOK, HostOK, Codes, RelayOK
<1>2. UNCHANGED <<now, mode, inboxVars, fundingVars, envVars>>
      /\ host.at \in {"call", "notify"}
  BY DEF SendAnswered, SendUnanswered, SendGivesUp, Sending, In
<1>3. TroubleOK'
  BY <1>1 DEF SendAnswered, SendUnanswered, SendGivesUp, TroubleOK
<1>4. RelayOK'
  <2>1. CASE Taken
    BY <1>1, <2>1 DEF Taken, RelayOK
  <2>2. CASE UNCHANGED relay
    BY <2>2, SameMonitor
  <2>3. QED BY <2>1, <2>2 DEF SendAnswered, SendUnanswered, SendGivesUp
<1>5. \/ UNCHANGED <<host, monitorVars>>
      \/ host.at = "notify" /\ Notified
      \/ host.at # "notify" /\ Advance /\ UNCHANGED monitorVars
      \/ host.at # "notify" /\ Throw("unavailable")
  BY DEF SendAnswered, SendUnanswered, SendGivesUp
<1>6. HostMoves /\ MonitorOK'
  <2>1. CASE UNCHANGED <<host, monitorVars>>
    BY <2>1, SameMonitor
  <2>2. CASE host.at = "notify" /\ Notified
    BY <1>1, <2>2, NotifiedIs, NotifyMoves, StopMoves, SameMonitor
  <2>3. CASE host.at # "notify" /\ Advance /\ UNCHANGED monitorVars
    BY <1>1, <1>2, <2>3, AdvanceMoves, SameMonitor DEF Runs
  <2>4. CASE host.at # "notify" /\ Throw("unavailable")
    BY <1>1, <2>4, ThrowMoves, SameMonitor
  <2>5. QED BY <1>5, <2>1, <2>2, <2>3, <2>4
<1>7. QED BY <1>2, <1>3, <1>4, <1>6, QuietTypes DEF HostMoves

LEMMA TypesOfReading ==
  ASSUME TypeOK, Doing.op = "await", host.at \in Runs,
         NEW w \in Waits, NEW rest \in Seq(Messages), GoOn(w, rest),
         w.got # <<>> => w.got[1].kind = Doing.arg
  PROVE  TypeOK' /\ HostMoves
<1>1. HostOK /\ "binding_invalid" \in Codes /\ w.until \in Nat /\ w.got \in Boxes
  BY SameMonitor DEF Codes, Waits
<1>2. /\ Keep(w, rest)
      /\ \/ Throw("binding_invalid")
         \/ w.got # <<>> /\ Accept(w.got[1])
         \/ Call(w.until) /\ UNCHANGED monitorVars
      /\ UNCHANGED <<now, mode, fundingVars, envVars, outVars>>
  BY DEF GoOn
<1>3. HostMoves /\ MonitorOK'
  <2>1. CASE Throw("binding_invalid")
    BY <1>1, <2>1, ThrowMoves, SameMonitor
  <2>2. CASE w.got # <<>> /\ Accept(w.got[1])
    BY <1>1, <2>2, BoxProperties, AcceptMoves, SameMonitor
  <2>3. CASE Call(w.until) /\ UNCHANGED monitorVars
    BY <1>1, <2>3, CallMoves, SameMonitor
  <2>4. QED BY <1>2, <2>1, <2>2, <2>3
<1>4. InboxOK'
  <2>1. \A m \in ToSet(w.got) : Speech(m) \in Speeches
    <3> SUFFICES ASSUME NEW m \in ToSet(w.got)
                 PROVE  Speech(m) \in Speeches
      OBVIOUS
    <3>1. w.got # <<>> /\ m = w.got[1]
      BY <1>1, BoxProperties
    <3>2. m \in Messages
      BY <1>1, <3>1, BoxProperties
    <3>3. QED BY <3>2 DEF Speech, Speeches, Messages
  <2>2. {Speech(m) : m \in ToSet(w.got)} \subseteq Speeches
    BY <2>1
  <2> HIDE DEF Speech
  <2>3. taken' \subseteq Speeches
    <3>1. taken' = taken \/ taken' = taken \cup {Speech(m) : m \in ToSet(w.got)}
      BY <1>2 DEF Keep
    <3>2. taken \subseteq Speeches
      BY DEF TypeOK, InboxOK
    <3>3. QED BY <2>2, <3>1, <3>2
  <2>4. /\ unread' = rest /\ deferred' = w.deferred /\ bound' = w.bound /\ minted' = w.minted
        /\ flawed' = w.flawed /\ flagged' = w.flagged /\ mode' = mode
    BY <1>2 DEF Keep
  <2>5. /\ w.deferred \in Seq(Messages) /\ w.bound \in [Roles -> Boxes] /\ w.minted \in Nat
        /\ w.flawed \in BOOLEAN /\ w.flagged \subseteq Speeches
    BY DEF Waits
  <2>6. QED BY <2>3, <2>4, <2>5 DEF TypeOK, InboxOK
<1>5. FundingOK' /\ RelayOK' /\ TroubleOK' /\ now' = now /\ invitation' = invitation
  BY <1>2, SameMonitor DEF TypeOK, FundingOK, fundingVars, envVars, outVars
<1>6. HostOK'
  BY <1>3 DEF HostMoves
<1>7. QED BY <1>3, <1>4, <1>5, <1>6 DEF TypeOK, MonitorOK, RelayOK, TroubleOK

\* What a wait has read, at its beginning or at a poll.
LEMMA ReadingIs ==
  ASSUME TypeOK, SpeakInv, BeginAwait \/ Poll
  PROVE  /\ Doing.op = "await" /\ host.at \in Runs
         /\ \E w, messages, rest :
              /\ GoOn(w, rest) /\ rest \in Seq(Messages) /\ messages \in Seq(Messages)
              /\ \/ messages = deferred /\ rest = unread
                 \/ messages = unread /\ rest = <<>>
              /\ \E u : /\ u.kind = Doing.arg /\ u.role = Doing.role /\ u.bound = bound
                        /\ u.flawed = flawed /\ u.flagged = flagged
                        /\ Knows(u, w, messages, Len(messages))
<1>1. unread \in Seq(Messages) /\ deferred \in Seq(Messages) /\ <<>> \in Seq(Messages)
      /\ HostOK /\ host.until \in Nat
  BY EmptySeq DEF TypeOK, InboxOK, HostOK
<1>2. CASE BeginAwait
  <2>1. Doing.op = "await" /\ host.at \in Runs
    BY <1>2 DEF BeginAwait, Ready, Runs
  <2> DEFINE stop == IF Doing.arg = "claimed" THEN InvitationEnd ELSE Deadline
             u == Wait(Doing.arg, Doing.role, stop)
             w == ConsiderAll(u, deferred)
  <2>2. GoOn(w, unread)
    BY <1>2 DEF BeginAwait
  <2>3. stop \in Nat
    BY InboxAssumption
  <2> HIDE DEF stop
  <2>4. Knows(u, w, deferred, Len(deferred))
    BY <2>1, <2>3, AwaitReads
  <2>5. /\ u.kind = Doing.arg /\ u.role = Doing.role /\ u.bound = bound
        /\ u.flawed = flawed /\ u.flagged = flagged
    BY <2>1, <2>3, WaitTyped DEF TypeOK, HostOK
  <2> HIDE DEF u, w
  <2>6. QED BY <1>1, <2>1, <2>2, <2>4, <2>5
<1>3. CASE Poll
  <2>1. Doing.op = "await" /\ host.at \in Runs
    BY <1>3 DEF Poll, In, Runs
  <2> DEFINE u == [Wait(Doing.arg, Doing.role, host.until) EXCEPT !.deferred = deferred]
             w == ConsiderAll(u, unread)
  <2>2. GoOn(w, <<>>)
    BY <1>3 DEF Poll
  <2>3. /\ Knows(u, w, unread, Len(unread)) /\ u.kind = Doing.arg /\ u.role = Doing.role
        /\ u.bound = bound /\ u.flawed = flawed /\ u.flagged = flagged
    BY <2>1, PollReads
  <2> HIDE DEF u, w
  <2>4. QED BY <1>1, <2>1, <2>2, <2>3
<1>4. QED BY <1>2, <1>3

LEMMA TypesOfAwait ==
  ASSUME TypeOK, SpeakInv, BeginAwait \/ Poll
  PROVE  TypeOK' /\ HostMoves
<1>1. Doing.op = "await" /\ host.at \in Runs
  BY ReadingIs
<1>2. PICK w, messages, rest :
        /\ GoOn(w, rest) /\ rest \in Seq(Messages)
        /\ \E u : u.kind = Doing.arg /\ Knows(u, w, messages, Len(messages))
  BY ReadingIs
<1>3. w \in Waits /\ (w.got # <<>> => w.got[1].kind = Doing.arg)
  BY <1>2 DEF Knows
<1>4. QED BY <1>1, <1>2, <1>3, TypesOfReading

LEMMA TypesOfAsk ==
  ASSUME TypeOK, AskReturns
  PROVE  TypeOK' /\ HostMoves
<1>1. HostMoves
  BY SameMonitor, AdvanceMoves DEF AskReturns, Ready, Runs
<1>2. InboxOK' /\ MonitorOK' /\ RelayOK' /\ TroubleOK' /\ now' = now /\ invitation' = invitation
  BY SameMonitor DEF AskReturns, TypeOK, InboxOK, inboxVars, envVars, outVars
<1>3. FundingOK'
  <2>1. seats' \subseteq Roles
    BY DEF AskReturns, TypeOK, FundingOK
  <2>2. reserved' = (reserved \/ (Doing.arg = "reserve")) /\ UNCHANGED <<work, aborted, broadcasts>>
    BY DEF AskReturns
  <2>3. reserved' \in BOOLEAN
    BY <2>2
  <2>4. QED BY <2>1, <2>2, <2>3 DEF TypeOK, FundingOK
<1>4. QED BY <1>1, <1>2, <1>3 DEF TypeOK, MonitorOK, RelayOK, TroubleOK, HostMoves

LEMMA TypesOfFunding ==
  ASSUME TypeOK, BeginFund \/ FundWork \/ FundSettles
  PROVE  TypeOK' /\ HostMoves
<1>1. HostOK /\ host.pc \in 1..34 /\ FundingOK /\ ProtocolStop \in Nat /\ "unavailable" \in Codes
  BY SameMonitor, Stops DEF TypeOK, Codes
<1> HIDE DEF ProtocolStop
<1>2. InboxOK' /\ RelayOK' /\ TroubleOK' /\ now' = now /\ invitation' = invitation
  BY SameMonitor
     DEF BeginFund, FundWork, FundSettles, TypeOK, InboxOK, inboxVars, envVars, outVars
<1>3. CASE BeginFund
  <2>1. Doing.op = "fund" /\ host.at \in Runs
    BY <1>3 DEF BeginFund, Ready, Runs
  <2>2. Doing.role \in Roles
    BY <1>1, <2>1, ScriptFacts DEF Doing
  <2>3. work' = [work EXCEPT ![Doing.role] = "open"] /\ UNCHANGED <<seats, reserved, aborted, broadcasts>>
        /\ Call(ProtocolStop) /\ UNCHANGED monitorVars
    BY <1>3 DEF BeginFund, BeginFunding
  <2>4. FundingOK'
    BY <1>1, <2>2, <2>3 DEF FundingOK
  <2>5. HostMoves /\ MonitorOK'
    BY <1>1, <2>1, <2>3, CallMoves, SameMonitor
  <2>6. QED BY <1>2, <2>4, <2>5 DEF TypeOK, MonitorOK, RelayOK, TroubleOK, HostMoves
<1>4. CASE FundWork
  <2>1. PICK r \in Roles :
          \/ Prepare(r, ProtocolStop) \/ DropUnsent(r, ProtocolStop) \/ Receipt(r)
          \/ (\E answered \in BOOLEAN : Broadcast(r, ProtocolStop, answered))
          \/ WorkFails(r)
    BY <1>4 DEF FundWork
  <2>2. /\ \E to \in {"prepare", "sign", "send", "sent", "funded", "dropped"} :
             work' = [work EXCEPT ![r] = to]
        /\ UNCHANGED <<seats, reserved, aborted>>
        /\ broadcasts' = broadcasts \/ broadcasts' = [broadcasts EXCEPT ![r] = @ + 1]
    BY <2>1 DEF Prepare, DropUnsent, Receipt, Broadcast, WorkFails, Move
  <2>3. FundingOK'
    BY <1>1, <2>2 DEF FundingOK
  <2>4. HostMoves /\ MonitorOK'
    BY <1>4, SameMonitor DEF FundWork
  <2>5. QED BY <1>2, <2>3, <2>4 DEF TypeOK, MonitorOK, RelayOK, TroubleOK, HostMoves
<1>5. CASE FundSettles
  <2>1. Doing.op = "fund" /\ host.at \in Runs
    BY <1>5 DEF FundSettles, In, Runs
  <2>2. Doing.role \in Roles
    BY <1>1, <2>1, ScriptFacts DEF Doing
  <2>3. /\ \/ UNCHANGED fundingVars
           \/ aborted' = aborted \cup {Doing.role} /\ UNCHANGED <<seats, reserved, work, broadcasts>>
        /\ (Advance /\ UNCHANGED monitorVars) \/ Throw("unavailable")
    BY <1>5 DEF FundSettles, Abort
  <2>4. FundingOK'
    BY <1>1, <2>2, <2>3 DEF FundingOK, fundingVars
  <2>5. HostMoves /\ MonitorOK'
    BY <1>1, <2>1, <2>3, AdvanceMoves, ThrowMoves, SameMonitor
  <2>6. QED BY <1>2, <2>4, <2>5 DEF TypeOK, MonitorOK, RelayOK, TroubleOK, HostMoves
<1>6. QED BY <1>3, <1>4, <1>5

\* What the coordinator and the parties post, from their first clients or from others.
Post(m) ==
  /\ m \in Messages /\ Posted(m)
  /\ \/ /\ m.kind = "enrollment" /\ mode # "off" /\ m.key = Keys[m.role][1]
        /\ EnrolledIn(invitation', m.role)
     \/ m.kind # "enrollment"
     \/ m.kind = "enrollment" /\ mode # "off" /\ invitation.at # -1

LEMMA EnvironmentIs ==
  ASSUME TypeOK, Coordinate \/ Party \/ SecondClient
  PROVE  /\ UNCHANGED <<now, mode, fundingVars, monitorVars, host, outVars>>
         /\ host.at # "stopped" /\ now < Deadline
         /\ invitation' \in [exp : Nat, at : Int]
         /\ \/ invitation' = invitation /\ \E m : Post(m)
            \/ \E role \in Roles :
                 /\ ~EnrolledYet(role) /\ EnrolledYet(role)'
                 /\ \A r \in Roles : r # role => (EnrolledYet(r)' <=> EnrolledYet(r))
                 /\ role = "responder" => EnrolledYet("initiator")
                 /\ IF mode = "off" THEN UNCHANGED inboxVars
                    ELSE \E m : Post(m) /\ Proper(m, role)
<1>1. /\ now \in Nat /\ Deadline \in Nat /\ ClaimWindow \in Nat \ {0} /\ ValidFor \in Nat
      /\ invitation \in [exp : Nat, at : Int]
  BY InboxAssumption, HostAssumption DEF TypeOK
<1>2. \A role \in Roles : \A i \in DOMAIN Keys[role] : Keys[role][i] \in AllKeys
  BY DEF AllKeys
<1>3. \A role \in Roles : Keys[role][1] \in AllKeys
  BY <1>2, HostAssumption
<1>4. ASSUME NEW kind \in AllKinds, NEW role \in Roles, NEW key \in AllKeys,
             NEW at \in Int, NEW exp \in Nat
      PROVE  LET m == Message(kind, role, key, at, exp)
             IN /\ m \in Messages /\ m.kind = kind /\ m.role = role /\ m.key = key
  BY DEF Message, Messages
<1>5. ASSUME NEW kind \in AllKinds, NEW role \in Roles, NEW key \in AllKeys
      PROVE  /\ Said(kind, role, key) \in Messages /\ Said(kind, role, key).kind = kind
             /\ Said(kind, role, key).role = role /\ Said(kind, role, key).key = key
  <2> DEFINE at == CASE kind \in {"claimed", "enrollment"} -> invitation.at
                     [] kind = "proposal" -> now
                     [] OTHER -> 0
             exp == CASE kind \in {"created", "enrollment"} -> invitation.exp
                      [] kind = "proposal" -> now + ValidFor
                      [] OTHER -> 0
  <2>1. at \in Int
    BY <1>1
  <2>2. exp \in Nat
    BY <1>1
  <2>3. Said(kind, role, key) = Message(kind, role, key, at, exp)
    BY DEF Said
  <2> HIDE DEF at, exp
  <2>4. QED BY <1>4, <2>1, <2>2, <2>3
<1>6. "enrollment" \in AllKinds /\ Kinds \subseteq AllKinds /\ "enrollment" \notin Kinds
      /\ "initiator" \in Roles /\ "responder" \in Roles
  BY DEF AllKinds, Kinds, Roles
<1>7. CASE Coordinate
  <2>1. /\ UNCHANGED <<now, mode, fundingVars, monitorVars, host, outVars>>
        /\ host.at # "stopped" /\ now < Deadline
    BY <1>7 DEF Coordinate, Open
  <2>2. CASE /\ invitation.exp = 0 /\ now < InvitationEnd
             /\ invitation' = [invitation EXCEPT !.exp = now + ClaimWindow]
             /\ Enrolled("initiator", now, now + ClaimWindow)
    <3> DEFINE end == now + ClaimWindow
               m == Message("enrollment", "initiator", Keys["initiator"][1], now, end)
    <3>1. end \in Nat /\ end # 0 /\ now \in Int
      BY <1>1
    <3>2. /\ invitation' = [invitation EXCEPT !.exp = end]
          /\ IF mode # "off" THEN Posted(m) ELSE UNCHANGED inboxVars
      BY <2>2 DEF Enrolled
    <3> HIDE DEF end
    <3>3. m \in Messages /\ m.kind = "enrollment" /\ m.role = "initiator"
          /\ m.key = Keys["initiator"][1]
      BY <1>3, <1>4, <1>6, <3>1
    <3> HIDE DEF m
    <3>4. /\ invitation' \in [exp : Nat, at : Int] /\ invitation'.exp = end
          /\ invitation'.at = invitation.at
      BY <1>1, <3>1, <3>2
    <3>5. ~EnrolledYet("initiator") /\ EnrolledYet("initiator")'
          /\ (EnrolledYet("responder")' <=> EnrolledYet("responder"))
      BY <2>2, <3>1, <3>4 DEF EnrolledYet, EnrolledIn
    <3>6. mode # "off" => Post(m) /\ Proper(m, "initiator")
      BY <3>2, <3>3, <3>5 DEF Post, Proper, Enrolls, EnrolledYet
    <3>7. \A r \in Roles : r # "initiator" => r = "responder"
      BY DEF Roles
    <3>8. QED BY <1>6, <2>1, <3>2, <3>4, <3>5, <3>6, <3>7
  <2>3. CASE /\ invitation.exp # 0 /\ invitation.at = -1
             /\ invitation' = [invitation EXCEPT !.at = now]
             /\ Enrolled("responder", now, invitation.exp)
    <3> DEFINE m == Message("enrollment", "responder", Keys["responder"][1], now, invitation.exp)
    <3>1. now \in Int /\ now # -1 /\ invitation.exp \in Nat
      BY <1>1
    <3>2. IF mode # "off" THEN Posted(m) ELSE UNCHANGED inboxVars
      BY <2>3 DEF Enrolled
    <3>3. m \in Messages /\ m.kind = "enrollment" /\ m.role = "responder"
          /\ m.key = Keys["responder"][1]
      BY <1>3, <1>4, <1>6, <3>1
    <3> HIDE DEF m
    <3>4. /\ invitation' \in [exp : Nat, at : Int] /\ invitation'.at = now
          /\ invitation'.exp = invitation.exp
      BY <1>1, <2>3, <3>1
    <3>5. ~EnrolledYet("responder") /\ EnrolledYet("responder")' /\ EnrolledYet("initiator")
          /\ (EnrolledYet("initiator")' <=> EnrolledYet("initiator"))
      BY <2>3, <3>1, <3>4 DEF EnrolledYet, EnrolledIn
    <3>6. mode # "off" => Post(m) /\ Proper(m, "responder")
      BY <3>2, <3>3, <3>5 DEF Post, Proper, Enrolls, EnrolledYet
    <3>7. \A r \in Roles : r # "responder" => r = "initiator"
      BY DEF Roles
    <3>8. QED BY <1>6, <2>1, <3>2, <3>4, <3>5, <3>6, <3>7
  <2>4. QED BY <1>7, <2>2, <2>3 DEF Coordinate
<1>8. CASE Party
  <2>1. PICK kind \in Kinds, role \in Roles : Posted(Said(kind, role, Keys[role][1]))
    BY <1>8 DEF Party
  <2> DEFINE m == Said(kind, role, Keys[role][1])
  <2>2. m \in Messages /\ m.kind # "enrollment"
    BY <1>3, <1>5, <1>6
  <2>3. Post(m)
    BY <2>1, <2>2 DEF Post
  <2>4. QED BY <1>1, <1>8, <2>3 DEF Party, Open
<1>9. CASE SecondClient
  <2>0. PICK kind \in Extra, role \in Roles : \E i \in DOMAIN Keys[role] \ {1} :
          /\ kind = "enrollment" => mode # "off" /\ invitation.at # -1
          /\ Posted(Said(kind, role, Keys[role][i]))
    BY <1>9 DEF SecondClient
  <2>1. PICK i \in DOMAIN Keys[role] \ {1} :
          /\ kind = "enrollment" => mode # "off" /\ invitation.at # -1
          /\ Posted(Said(kind, role, Keys[role][i]))
    BY <2>0
  <2>2. kind \in AllKinds /\ Keys[role][i] \in AllKeys
    BY <1>2, HostAssumption DEF AllKinds
  <2> DEFINE m == Said(kind, role, Keys[role][i])
  <2>3. m \in Messages /\ m.kind = kind
    BY <1>5, <2>2
  <2> HIDE DEF m
  <2>4. Post(m)
    BY <2>1, <2>3 DEF Post, m
  <2>5. QED BY <1>1, <1>9, <2>4 DEF SecondClient, Open
<1>10. QED BY <1>7, <1>8, <1>9

LEMMA TypesOfTick ==
  ASSUME TypeOK, Tick
  PROVE  TypeOK' /\ HostMoves
<1>1. HostMoves /\ MonitorOK' /\ RelayOK' /\ TroubleOK'
  BY SameMonitor DEF Tick, outVars
<1>2. now' \in Nat /\ InboxOK' /\ FundingOK' /\ invitation' = invitation
  BY DEF Tick, TypeOK, InboxOK, FundingOK, inboxVars, fundingVars, envVars
<1>3. QED BY <1>1, <1>2 DEF TypeOK, MonitorOK, RelayOK, TroubleOK, HostMoves

LEMMA TypesOfPosting ==
  ASSUME TypeOK, Coordinate \/ Party \/ SecondClient
  PROVE  TypeOK' /\ HostMoves
<1>1. /\ UNCHANGED <<now, mode, fundingVars, monitorVars, host, outVars>>
      /\ invitation' \in [exp : Nat, at : Int]
      /\ UNCHANGED inboxVars \/ \E m : Post(m)
  BY EnvironmentIs
<1>2. HostMoves /\ MonitorOK' /\ RelayOK' /\ TroubleOK'
  BY <1>1, SameMonitor DEF outVars
<1>3. InboxOK'
  <2>1. CASE UNCHANGED inboxVars
    BY <1>1, <2>1 DEF TypeOK, InboxOK, inboxVars
  <2>2. ASSUME NEW m, Post(m)
        PROVE  InboxOK'
    <3>1. m \in Messages /\ unread' = Append(unread, m)
          /\ UNCHANGED <<deferred, bound, minted, flawed, flagged, taken>>
      BY <2>2 DEF Post, Posted
    <3>2. unread' \in Seq(Messages)
      BY <3>1, AppendProperties DEF TypeOK, InboxOK
    <3>3. QED BY <1>1, <3>1, <3>2 DEF TypeOK, InboxOK
  <2>3. QED BY <1>1, <2>1, <2>2
<1>4. FundingOK' /\ now' \in Nat
  BY <1>1 DEF TypeOK, FundingOK, fundingVars
<1>5. QED BY <1>1, <1>2, <1>3, <1>4 DEF TypeOK, MonitorOK, RelayOK, TroubleOK, HostMoves

LEMMA TypesKept ==
  ASSUME TypeOK, SpeakInv, [Next]_vars
  PROVE  TypeOK' /\ HostMoves
<1>1. CASE UNCHANGED vars
  <2>1. /\ UNCHANGED <<now, mode, inboxVars, fundingVars, envVars>> /\ UNCHANGED monitorVars
        /\ UNCHANGED <<relay, trouble, host>>
    BY <1>1 DEF vars, outVars
  <2>2. QED BY <2>1, SameMonitor, QuietTypes DEF HostMoves
<1>2. CASE Next
  BY <1>2, TypesOfSteps, TypesOfBegin, TypesOfShow, TypesOfSend, TypesOfAwait, TypesOfAsk,
     TypesOfFunding, TypesOfTick, TypesOfPosting
     DEF Next, HostStep
<1>3. QED BY <1>1, <1>2

----------------------------------------------------------------------------
(* One speaker                                                             *)

LEMMA SpeakOfReading ==
  ASSUME TypeOK, SpeakInv, BeginAwait \/ Poll
  PROVE  SpeakInv'
<1>1. PICK w, messages, rest :
        /\ GoOn(w, rest) /\ rest \in Seq(Messages) /\ messages \in Seq(Messages)
        /\ \/ messages = deferred /\ rest = unread
           \/ messages = unread /\ rest = <<>>
        /\ \E u : /\ u.kind = Doing.arg /\ u.role = Doing.role /\ u.bound = bound
                  /\ u.flawed = flawed /\ u.flagged = flagged
                  /\ Knows(u, w, messages, Len(messages))
  BY ReadingIs
<1>2. PICK u : /\ u.bound = bound /\ u.flawed = flawed /\ u.flagged = flagged
               /\ Knows(u, w, messages, Len(messages))
  BY <1>1
<1>3. /\ unread' = rest /\ deferred' = w.deferred /\ bound' = w.bound /\ flawed' = w.flawed
      /\ flagged' = w.flagged
      /\ taken' = IF w.fatal THEN taken ELSE taken \cup {Speech(m) : m \in ToSet(w.got)}
      /\ now' = now /\ mode' = mode /\ invitation' = invitation
  BY <1>1 DEF GoOn, Keep, envVars
<1>4. HostMoves /\ now \in Nat /\ Deadline \in Nat
  BY TypesOfAwait, InboxAssumption DEF TypeOK
<1>5. Bound(bound')
  BY <1>2, <1>3 DEF Knows
<1>6. \A i \in DOMAIN deferred' : deferred'[i].kind \notin Announcements
  BY <1>2, <1>3 DEF Knows
<1>7. w \in Waits
  BY <1>2 DEF Knows
<1>8. OneSpeaker'
  <2> SUFFICES ASSUME NEW speech \in taken'
               PROVE  LET first == speech[3] = Keys[speech[2]][1]
                      IN /\ mode = "enforce" => first
                         /\ mode = "observe" /\ ~first => speech \in flagged'
    BY <1>3 DEF OneSpeaker
  <2>1. flagged \subseteq flagged'
    BY <1>2, <1>3 DEF Knows
  <2>2. CASE speech \in taken
    BY <2>1, <2>2 DEF SpeakInv, OneSpeaker
  <2>3. CASE speech \notin taken
    <3>1. PICK m \in ToSet(w.got) : speech = Speech(m)
      BY <1>3, <2>3
    <3>2. w.got # <<>> /\ m = w.got[1] /\ m \in Messages
      BY <1>7, <3>1, BoxProperties DEF Waits
    <3>3. Right(w, m)
      BY <1>2, <3>2 DEF Knows
    <3>4. m.role \in Roles /\ speech[3] = m.key /\ speech[2] = m.role
      BY <3>1, <3>2 DEF Speech, Messages
    <3>5. Spoken(w, m) => m.key = Keys[m.role][1]
      BY <1>3, <1>5, <3>4 DEF Spoken, Bound
    <3>6. QED BY <1>3, <3>1, <3>3, <3>4, <3>5 DEF Right
  <2>4. QED BY <2>2, <2>3
<1>9. ASSUME Listening'
      PROVE  /\ FirstProper(unread', bound')
             /\ \A role \in Roles : EnrolledYet(role)' /\ bound'[role] = <<>> =>
                  \E j \in DOMAIN unread' : Proper(unread'[j], role)
  <2>1. Listening /\ ~(now >= Deadline)
    BY <1>2, <1>3, <1>4, <1>9 DEF Knows, Listening, HostMoves, Runs
  <2>2. \A role \in Roles : bound'[role] = <<>> => bound[role] = <<>>
    BY <1>2, <1>3 DEF Knows
  <2>3. CASE messages = deferred /\ rest = unread
    BY <1>3, <2>1, <2>2, <2>3 DEF SpeakInv, FirstProper, EnrolledYet
  <2>4. CASE messages = unread /\ rest = <<>>
    <3>1. ~w.fatal
      <4>1. w.fatal => Throw("binding_invalid")
        BY <1>1 DEF GoOn
      <4>2. "binding_invalid" \in Codes
        BY DEF Codes
      <4>3. Throw("binding_invalid") => host'.at \notin Runs
        BY <4>2, ThrowMoves DEF Runs
      <4>4. QED BY <1>9, <4>1, <4>3 DEF Listening, Runs
    <3>2. DOMAIN unread' = {}
      BY <1>3, <2>4
    <3>3. ASSUME NEW role \in Roles, EnrolledYet(role), bound'[role] = <<>>
          PROVE  FALSE
      <4>1. PICK j \in DOMAIN unread : Proper(unread[j], role)
        BY <2>1, <2>2, <3>3 DEF SpeakInv
      <4>2. j \in 1..Len(messages) /\ Enrolls(messages[j], role)
        BY <2>4, <4>1, <1>1, LenProperties DEF Proper
      <4>3. w.fatal \/ w.flawed \/ w.bound[role] # <<>>
        BY <1>2, <2>1, <4>2 DEF Knows, Listening
      <4>4. QED BY <1>3, <1>9, <3>1, <3>3, <4>3 DEF Listening
    <3>4. FirstProper(unread', bound')
      BY <3>2 DEF FirstProper
    <3>5. QED BY <1>3, <3>3, <3>4 DEF EnrolledYet
  <2>5. QED BY <1>1, <2>3, <2>4
<1>10. QED BY <1>3, <1>5, <1>6, <1>8, <1>9 DEF SpeakInv

LEMMA SpeakOfPosting ==
  ASSUME TypeOK, SpeakInv, Coordinate \/ Party \/ SecondClient
  PROVE  SpeakInv'
<1>1. /\ UNCHANGED <<now, mode, host>>
      /\ invitation \in [exp : Nat, at : Int] /\ invitation' \in [exp : Nat, at : Int]
      /\ \/ invitation' = invitation /\ \E m : Post(m)
         \/ \E role \in Roles :
              /\ ~EnrolledYet(role) /\ EnrolledYet(role)'
              /\ \A r \in Roles : r # role => (EnrolledYet(r)' <=> EnrolledYet(r))
              /\ role = "responder" => EnrolledYet("initiator")
              /\ IF mode = "off" THEN UNCHANGED inboxVars
                 ELSE \E m : Post(m) /\ Proper(m, role)
  BY EnvironmentIs DEF TypeOK
<1>2. UNCHANGED <<deferred, bound, flawed, flagged, taken>>
  BY <1>1 DEF Post, Posted, inboxVars
<1>3. OneSpeaker' /\ Bound(bound)' /\ \A i \in DOMAIN deferred' : deferred'[i].kind \notin Announcements
  BY <1>1, <1>2 DEF SpeakInv, OneSpeaker, Bound
<1>4. invitation'.at # -1 => invitation'.exp # 0
  <2>1. \A r \in Roles : r = "initiator" \/ r = "responder"
    BY DEF Roles
  <2>2. "initiator" \in Roles /\ "responder" \in Roles
    BY DEF Roles
  <2>3. EnrolledYet("responder") => EnrolledYet("initiator")
    BY DEF SpeakInv, EnrolledYet, EnrolledIn
  <2>4. EnrolledYet("responder")' => EnrolledYet("initiator")'
    BY <1>1, <2>1, <2>2, <2>3 DEF EnrolledYet
  <2>5. QED BY <2>4 DEF EnrolledYet, EnrolledIn
<1>5. Listening' => Listening
  BY <1>1, <1>2 DEF Listening
<1>6. ASSUME Listening, NEW m, Post(m), \A r \in Roles : EnrolledYet(r)' => EnrolledYet(r) \/ Proper(m, r)
      PROVE  /\ FirstProper(unread', bound')
             /\ \A role \in Roles : EnrolledYet(role)' /\ bound'[role] = <<>> =>
                  \E j \in DOMAIN unread' : Proper(unread'[j], role)
  <2> DEFINE last == Len(unread) + 1
  <2>1. m \in Messages /\ unread \in Seq(Messages) /\ unread' = Append(unread, m)
    BY <1>6 DEF Post, Posted, TypeOK, InboxOK
  <2>2. /\ Len(unread) \in Nat /\ DOMAIN unread = 1..Len(unread)
        /\ unread' \in Seq(Messages) /\ Len(unread') = last
        /\ \A i \in 1..Len(unread) : unread'[i] = unread[i]
        /\ unread'[last] = m
    BY <2>1, AppendProperties, LenProperties
  <2>3. DOMAIN unread' = 1..last
    BY <2>2, LenProperties
  <2>4. ASSUME NEW role \in Roles, bound[role] = <<>>, EnrolledYet(role)
        PROVE  \E j \in DOMAIN unread : Proper(unread[j], role)
    BY <1>6, <2>4 DEF SpeakInv
  <2>5. ASSUME NEW role \in Roles, bound[role] = <<>>, EnrolledYet(role)'
        PROVE  \E j \in DOMAIN unread' : Proper(unread'[j], role)
    <3>1. CASE EnrolledYet(role)
      <4>1. PICK j \in DOMAIN unread : Proper(unread[j], role)
        BY <2>4, <2>5, <3>1
      <4>2. j \in DOMAIN unread' /\ unread'[j] = unread[j]
        BY <2>2, <2>3, <4>1
      <4>3. QED BY <4>1, <4>2
    <3>2. CASE Proper(m, role)
      BY <2>2, <2>3, <3>2
    <3>3. QED BY <1>6, <2>5, <3>1, <3>2
  <2>6. FirstProper(unread', bound')
    <3> SUFFICES ASSUME NEW role \in Roles, bound[role] = <<>>,
                        NEW i \in DOMAIN unread', Enrolls(unread'[i], role)
                 PROVE  \E j \in 1..i : Proper(unread'[j], role)
      BY <1>2 DEF FirstProper
    <3>1. CASE i \in DOMAIN unread
      <4>1. Enrolls(unread[i], role)
        BY <2>2, <3>1
      <4>2. PICK j \in 1..i : Proper(unread[j], role)
        BY <1>6, <3>1, <4>1 DEF SpeakInv, FirstProper
      <4>3. j \in 1..Len(unread)
        BY <2>2, <3>1
      <4>4. QED BY <2>2, <4>2, <4>3
    <3>2. CASE i \notin DOMAIN unread
      <4>1. i = last /\ Enrolls(m, role) /\ m.role = role
        BY <2>2, <2>3, <3>2 DEF Enrolls
      <4>2. CASE m.key = Keys[m.role][1]
        <5>1. Proper(unread'[i], role) /\ i \in 1..i
          BY <2>2, <4>1, <4>2 DEF Proper
        <5>2. QED BY <5>1
      <4>3. CASE m.key # Keys[m.role][1]
        <5>1. invitation.at # -1
          <6>1. m.kind = "enrollment"
            BY <4>1 DEF Enrolls
          <6>2. QED BY <1>6, <4>3, <6>1 DEF Post
        <5>2. EnrolledYet(role)
          BY <5>1 DEF EnrolledYet, EnrolledIn, SpeakInv
        <5>3. PICK j \in DOMAIN unread : Proper(unread[j], role)
          BY <2>4, <5>2
        <5>4. j \in 1..i /\ unread'[j] = unread[j]
          BY <2>2, <4>1, <5>3
        <5>5. QED BY <5>3, <5>4
      <4>4. QED BY <4>2, <4>3
    <3>3. QED BY <3>1, <3>2
  <2>7. QED BY <1>2, <2>5, <2>6
<1>7. ASSUME Listening'
      PROVE  /\ FirstProper(unread', bound')
             /\ \A role \in Roles : EnrolledYet(role)' /\ bound'[role] = <<>> =>
                  \E j \in DOMAIN unread' : Proper(unread'[j], role)
  <2>1. Listening /\ mode # "off"
    BY <1>5, <1>7 DEF Listening
  <2>2. PICK m : Post(m) /\ \A r \in Roles : EnrolledYet(r)' => EnrolledYet(r) \/ Proper(m, r)
    <3>1. CASE invitation' = invitation /\ \E m : Post(m)
      <4>1. \A r \in Roles : EnrolledYet(r)' <=> EnrolledYet(r)
        BY <3>1 DEF EnrolledYet
      <4>2. QED BY <3>1, <4>1
    <3>2. ASSUME NEW role \in Roles,
                 \A r \in Roles : r # role => (EnrolledYet(r)' <=> EnrolledYet(r)),
                 \E m : Post(m) /\ Proper(m, role)
          PROVE  \E m : Post(m) /\ \A r \in Roles : EnrolledYet(r)' => EnrolledYet(r) \/ Proper(m, r)
      BY <3>2
    <3>3. QED BY <1>1, <2>1, <3>1, <3>2
  <2>3. QED BY <1>6, <2>1, <2>2
<1>8. QED BY <1>3, <1>4, <1>7 DEF SpeakInv

LEMMA SpeakOfRest ==
  ASSUME TypeOK, SpeakInv, [Next]_vars,
         ~(BeginAwait \/ Poll), ~(Coordinate \/ Party \/ SecondClient)
  PROVE  SpeakInv'
<1>1. HostMoves
  BY TypesKept
<1>2. UNCHANGED <<mode, inboxVars, invitation>> /\ (now' = now \/ now' = now + 1)
  <2>1. CASE UNCHANGED vars
    BY <2>1 DEF vars, envVars
  <2>2. CASE Tick
    BY <2>2 DEF Tick, envVars
  <2>3. CASE BeginFund \/ FundWork \/ FundSettles \/ AskReturns \/ Skip \/ Lapse \/ AskFails
               \/ AwaitExpires \/ AwaitFails
    BY <2>3 DEF BeginFund, FundWork, FundSettles, AskReturns, Skip, Lapse, AskFails,
                AwaitExpires, AwaitFails, envVars
  <2>4. CASE BeginShow \/ BeginCreate \/ BeginRecord \/ BeginPublish
    BY <2>4 DEF BeginShow, BeginCreate, BeginRecord, BeginPublish, envVars
  <2>5. CASE ShowAnswered \/ ShowRefused \/ ShowUnanswered \/ ShowGivesUp
    BY <2>5 DEF ShowAnswered, ShowRefused, ShowUnanswered, ShowGivesUp, envVars
  <2>6. CASE SendAnswered \/ SendUnanswered \/ SendGivesUp
    BY <2>6 DEF SendAnswered, SendUnanswered, SendGivesUp, envVars
  <2>7. QED BY <2>1, <2>2, <2>3, <2>4, <2>5, <2>6 DEF Next, HostStep
<1>3. UNCHANGED <<mode, unread, deferred, bound, flawed, flagged, taken, invitation>>
  BY <1>2 DEF inboxVars
<1>4. Listening' => Listening
  <2>1. now' < Deadline => now < Deadline
    BY <1>2, InboxAssumption DEF TypeOK
  <2>2. host'.at \in Runs => host.at \in Runs
    BY <1>1 DEF HostMoves
  <2>3. QED BY <1>3, <2>1, <2>2 DEF Listening, Runs
<1>5. \A role : EnrolledYet(role)' <=> EnrolledYet(role)
  BY <1>3 DEF EnrolledYet
<1>6. OneSpeaker' /\ Bound(bound)' /\ (invitation'.at # -1 => invitation'.exp # 0)
      /\ \A i \in DOMAIN deferred' : deferred'[i].kind \notin Announcements
  BY <1>3 DEF SpeakInv, OneSpeaker, Bound
<1>7. Listening' => /\ FirstProper(unread', bound')
                    /\ \A role \in Roles : EnrolledYet(role)' /\ bound'[role] = <<>> =>
                         \E j \in DOMAIN unread' : Proper(unread'[j], role)
  BY <1>3, <1>4, <1>5 DEF SpeakInv
<1>8. QED BY <1>6, <1>7 DEF SpeakInv

LEMMA SpeakKept ==
  ASSUME TypeOK, SpeakInv, [Next]_vars
  PROVE  SpeakInv'
BY SpeakOfReading, SpeakOfPosting, SpeakOfRest

----------------------------------------------------------------------------
(* The funding                                                             *)

\* Who moves the runner while it waits for an answer or funds an identity.
LEMMA WhoMoves ==
  ASSUME [Next]_vars, host.at \in Runs, host' # host
  PROVE  /\ Doing.op = "ask" => Skip \/ Lapse \/ AskReturns \/ AskFails
         /\ Doing.op = "fund" => Skip \/ Lapse \/ BeginFund \/ FundSettles
<1>1. Next
  BY DEF vars
<1> HIDE DEF Doing
<1>2. CASE Skip \/ Lapse \/ AskReturns \/ AskFails \/ BeginFund \/ FundSettles
  BY <1>2 DEF AskReturns, AskFails, BeginFund, FundSettles, Ready, In
<1>3. CASE BeginAwait \/ Poll \/ AwaitExpires \/ AwaitFails
  BY <1>3 DEF BeginAwait, Poll, AwaitExpires, AwaitFails, Ready, In
<1>4. CASE BeginShow \/ BeginCreate \/ BeginRecord \/ BeginPublish
  BY <1>4 DEF BeginShow, BeginCreate, BeginRecord, BeginPublish, Ready
<1>5. CASE ShowAnswered \/ ShowRefused \/ ShowUnanswered \/ ShowGivesUp
  BY <1>5 DEF ShowAnswered, ShowRefused, ShowUnanswered, ShowGivesUp, Showing, In, Runs
<1>6. CASE SendAnswered \/ SendUnanswered \/ SendGivesUp
  BY <1>6 DEF SendAnswered, SendUnanswered, SendGivesUp, Sending, In, Runs
<1>7. CASE FundWork \/ Tick \/ Coordinate \/ Party \/ SecondClient
  BY <1>7 DEF FundWork, Tick, Coordinate, Party, SecondClient
<1>8. QED BY <1>1, <1>2, <1>3, <1>4, <1>5, <1>6, <1>7 DEF Next, HostStep

Working == {"open", "prepare", "sign", "send"}

\* The role's step is still to begin.
Before(role) == host.pc < FundStep(role) \/ (host.pc = FundStep(role) /\ host.at = "ready")

\* Work that may send is awaited.
Awaited(role) ==
  /\ role \in seats /\ reserved /\ broadcasts[role] = 0
  /\ In("fund") /\ Doing.role = role

LEMMA FundInvIs ==
  FundInv <=>
    /\ host.pc > 11 => seats = {} \/ reserved
    /\ \A role \in Roles :
         /\ Before(role) => work[role] = "idle" /\ broadcasts[role] = 0 /\ role \notin aborted
         /\ work[role] \in Working /\ role \notin aborted => Awaited(role)
BY DEF FundInv, Before, Working, Awaited

LEMMA BeforeStays ==
  ASSUME TypeOK, HostMoves, NEW role \in Roles, Before(role)'
  PROVE  Before(role)
<1>1. host.pc \in Nat /\ FundStep(role) \in Nat
  BY DEF TypeOK, HostOK, FundStep
<1>2. host'.pc < FundStep(role) \/ (host'.pc = FundStep(role) /\ host'.at = "ready")
  BY DEF Before
<1> HIDE DEF FundStep
<1>3. CASE host' = host
  BY <1>2, <1>3 DEF Before
<1>4. CASE host'.pc = host.pc /\ host'.at # "ready"
  BY <1>2, <1>4 DEF Before
<1>5. CASE host'.pc = host.pc + 1
  BY <1>1, <1>2, <1>5 DEF Before
<1>6. QED BY <1>3, <1>4, <1>5 DEF HostMoves, Runs

LEMMA FundStepOf ==
  /\ \A role \in Roles : FundStep(role) > 11
  /\ \A r, s \in Roles : FundStep(r) = FundStep(s) => r = s
BY DEF FundStep, Roles

\* The runner leaves the step of the reservation with one, or with nobody to fund.
LEMMA ReservationKept ==
  ASSUME TypeOK, FundInv, HostMoves, [Next]_vars, host'.pc > 11
  PROVE  seats' = {} \/ reserved'
<1>1. host.pc \in 1..34 /\ (host.pc > 11 => seats = {} \/ reserved)
  BY DEF TypeOK, HostOK, FundInv
<1>2. UNCHANGED <<seats, reserved>> \/ AskReturns
  BY DEF Next, HostStep, vars, fundingVars, Skip, Lapse, AskFails, BeginAwait, Poll, GoOn,
         AwaitExpires, AwaitFails, BeginShow, BeginCreate, BeginRecord, BeginPublish,
         ShowAnswered, ShowRefused, ShowUnanswered, ShowGivesUp, SendAnswered, SendUnanswered,
         SendGivesUp, BeginFund, BeginFunding, FundWork, Prepare, DropUnsent, Receipt, Broadcast,
         WorkFails, FundSettles, Abort, Tick, Coordinate, Party, SecondClient
<1>3. Doing.arg = "reserve" <=> host.pc = 11
  BY <1>1, ScriptFacts DEF Doing
<1>4. Doing.arg = "existing" => host.pc = 10
  BY <1>1, ScriptFacts DEF Doing
<1>5. CASE AskReturns
  <2>1. /\ seats' \in IF Doing.arg = "existing" THEN SUBSET Roles ELSE {seats}
        /\ reserved' = (reserved \/ (Doing.arg = "reserve"))
    BY <1>5 DEF AskReturns
  <2>2. host.pc > 10
    BY <1>1 DEF HostMoves
  <2>3. seats' = seats
    BY <1>4, <2>1, <2>2
  <2>4. CASE host.pc = 11
    <3>1. reserved'
      BY <1>3, <2>1, <2>4
    <3>2. QED BY <3>1
  <2>5. CASE host.pc # 11
    <3>1. host.pc > 11
      BY <1>1, <2>2, <2>5
    <3>2. seats = {} \/ reserved
      BY <1>1, <3>1
    <3>3. reserved => reserved'
      BY <2>1
    <3>4. QED BY <2>3, <3>2, <3>3
  <2>6. QED BY <2>4, <2>5
<1>6. CASE UNCHANGED <<seats, reserved>> /\ ~AskReturns
  <2>1. CASE host.pc > 11
    BY <1>1, <1>6, <2>1
  <2>2. CASE ~(host.pc > 11)
    <3>1. host.pc = 11 /\ host.at \in Runs /\ host' # host /\ host'.pc # host.pc
      BY <1>1, <2>2 DEF HostMoves
    <3>2. Doing.op = "ask"
      BY <3>1 DEF Doing, Script, Ask, Step
    <3>3. Skip \/ Lapse \/ AskFails
      BY <1>6, <3>1, <3>2, WhoMoves
    <3>4. ~Lapse /\ ~AskFails
      <4>1. "lapsed" \in Codes /\ "invalid" \in Codes
        BY DEF Codes
      <4>2. Lapse => host'.pc = host.pc
        BY <4>1, TellMoves DEF Lapse
      <4>3. AskFails => host'.pc = host.pc
        BY <4>1, ThrowMoves DEF AskFails
      <4>4. QED BY <3>1, <4>2, <4>3
    <3>5. Skipped /\ Doing.arg = "reserve"
      BY <1>3, <3>1, <3>3, <3>4 DEF Skip
    <3>6. seats = {}
      BY <3>5 DEF Skipped
    <3>7. QED BY <1>6, <3>6
  <2>3. QED BY <2>1, <2>2
<1>7. QED BY <1>2, <1>5, <1>6

\* A step that leaves the work alone leaves what is awaited to be awaited.
LEMMA FundOfRest ==
  ASSUME TypeOK, FundInv, HostMoves, [Next]_vars,
         ~(AskReturns \/ BeginFund \/ FundWork \/ FundSettles)
  PROVE  FundInv'
<1>1. UNCHANGED fundingVars
  BY DEF Next, HostStep, vars, Skip, Lapse, AskFails, BeginAwait, Poll, GoOn,
         AwaitExpires, AwaitFails, BeginShow, BeginCreate, BeginRecord, BeginPublish,
         ShowAnswered, ShowRefused, ShowUnanswered, ShowGivesUp, SendAnswered, SendUnanswered,
         SendGivesUp, Tick, Coordinate, Party, SecondClient
<1>2. UNCHANGED <<seats, reserved, work, aborted, broadcasts>>
  BY <1>1 DEF fundingVars
<1>3. ASSUME NEW role \in Roles
      PROVE  /\ Before(role)' => /\ work'[role] = "idle" /\ broadcasts'[role] = 0
                                 /\ role \notin aborted'
             /\ work'[role] \in Working /\ role \notin aborted' => Awaited(role)'
  <2>1. Before(role)' => Before(role)
    BY BeforeStays
  <2>2. ASSUME work[role] \in Working, role \notin aborted
        PROVE  Awaited(role)'
    <3>1. Awaited(role)
      BY <2>2, FundInvIs
    <3>2. host' = host
      <4>1. host' # host => Skip \/ Lapse
        BY <3>1, WhoMoves DEF Awaited, In, Runs
      <4>2. host.at = "call"
        BY <3>1 DEF Awaited, In
      <4>3. QED BY <4>1, <4>2 DEF Skip, Lapse
    <3>3. QED BY <1>2, <3>1, <3>2 DEF Awaited, In, Doing
  <2>3. QED BY <1>2, <2>1, <2>2, FundInvIs
<1>4. host'.pc > 11 => seats' = {} \/ reserved'
  BY ReservationKept
<1>5. QED BY <1>3, <1>4 DEF FundInv, Before, Working, Awaited

\* Before a step begins, nothing of any role's work may send.
LEMMA NothingAtReady ==
  ASSUME FundInv, host.at = "ready"
  PROVE  \A role \in Roles : ~(work[role] \in Working /\ role \notin aborted)
BY FundInvIs DEF Awaited, In

LEMMA FundOfAsk ==
  ASSUME TypeOK, FundInv, HostMoves, [Next]_vars, AskReturns
  PROVE  FundInv'
<1>1. host.at = "ready" /\ UNCHANGED <<work, aborted, broadcasts>>
  BY DEF AskReturns, Ready
<1>2. ASSUME NEW role \in Roles
      PROVE  /\ Before(role)' => /\ work'[role] = "idle" /\ broadcasts'[role] = 0
                                 /\ role \notin aborted'
             /\ ~(work'[role] \in Working /\ role \notin aborted')
  BY <1>1, BeforeStays, NothingAtReady, FundInvIs
<1>3. host'.pc > 11 => seats' = {} \/ reserved'
  BY ReservationKept
<1>4. QED BY <1>2, <1>3 DEF FundInv, Before, Working, Awaited

LEMMA FundOfBegin ==
  ASSUME TypeOK, FundInv, HostMoves, [Next]_vars, BeginFund
  PROVE  FundInv'
<1> DEFINE r == Doing.role
<1>1. host.at = "ready" /\ Doing.op = "fund" /\ ~Skipped /\ host.pc \in 1..34
  BY DEF BeginFund, Ready, TypeOK, HostOK
<1>2. r \in Roles /\ host.pc = FundStep(r) /\ Doing.arg = "transaction"
  BY <1>1, ScriptFacts DEF Doing
<1>3. r \in seats
  BY <1>1, <1>2 DEF Skipped
<1>4. reserved
  <2>1. host.pc > 11
    BY <1>2, FundStepOf
  <2>2. QED BY <1>3, <2>1 DEF FundInv
<1>5. /\ work' = [work EXCEPT ![r] = "open"] /\ UNCHANGED <<seats, reserved, aborted, broadcasts>>
      /\ host' = [host EXCEPT !.at = "call", !.until = ProtocolStop]
  BY DEF BeginFund, BeginFunding, Call
<1>6. host'.pc = host.pc /\ host'.at = "call"
  BY <1>5 DEF TypeOK, HostOK
<1>7. Doing' = Doing
  BY <1>6 DEF Doing
<1>8. broadcasts[r] = 0 /\ Before(r)
  BY <1>1, <1>2, FundInvIs DEF Before
<1>9. ASSUME NEW role \in Roles
      PROVE  /\ Before(role)' => /\ work'[role] = "idle" /\ broadcasts'[role] = 0
                                 /\ role \notin aborted'
             /\ work'[role] \in Working /\ role \notin aborted' => Awaited(role)'
  <2>1. CASE role = r
    <3>1. ~Before(role)'
      <4>1. FundStep(r) \in Nat
        BY DEF FundStep
      <4> HIDE DEF FundStep
      <4>2. QED BY <1>2, <1>6, <2>1, <4>1 DEF Before
    <3>2. Awaited(role)'
      BY <1>1, <1>3, <1>4, <1>5, <1>6, <1>7, <1>8, <2>1 DEF Awaited, In
    <3>3. QED BY <3>1, <3>2
  <2>2. CASE role # r
    <3>1. work'[role] = work[role]
      BY <1>2, <1>5, <2>2 DEF TypeOK, FundingOK
    <3>2. QED BY <1>1, <1>5, <3>1, BeforeStays, NothingAtReady, FundInvIs
  <2>3. QED BY <2>1, <2>2
<1>10. host'.pc > 11 => seats' = {} \/ reserved'
  BY ReservationKept
<1>11. QED BY <1>9, <1>10 DEF FundInv, Before, Working, Awaited

LEMMA FundOfWork ==
  ASSUME TypeOK, FundInv, HostMoves, [Next]_vars, FundWork
  PROVE  FundInv'
<1>1. PICK r \in Roles :
        \/ Prepare(r, ProtocolStop) \/ DropUnsent(r, ProtocolStop) \/ Receipt(r)
        \/ (\E answered \in BOOLEAN : Broadcast(r, ProtocolStop, answered))
        \/ WorkFails(r)
  BY DEF FundWork
<1>2. host' = host /\ UNCHANGED <<seats, reserved, aborted>>
  BY <1>1 DEF FundWork, Prepare, DropUnsent, Receipt, Broadcast, WorkFails
<1>3. work[r] # "idle"
  BY <1>1 DEF Prepare, DropUnsent, Receipt, Broadcast, MaySend, WorkFails
<1>4. ~Before(r)
  BY <1>3, FundInvIs
<1>5. \A role \in Roles : role # r => work'[role] = work[role] /\ broadcasts'[role] = broadcasts[role]
  BY <1>1 DEF Prepare, DropUnsent, Receipt, Broadcast, WorkFails, Move, TypeOK, FundingOK
<1>6. work'[r] \in Working => work[r] \in Working /\ broadcasts' = broadcasts
  BY <1>1 DEF Prepare, DropUnsent, Receipt, Broadcast, WorkFails, Move, TypeOK, FundingOK, Working
<1>7. ASSUME NEW role \in Roles
      PROVE  /\ Before(role)' => /\ work'[role] = "idle" /\ broadcasts'[role] = 0
                                 /\ role \notin aborted'
             /\ work'[role] \in Working /\ role \notin aborted' => Awaited(role)'
  <2>1. Before(role)' => Before(role)
    BY BeforeStays
  <2>2. CASE role = r
    <3>1. work'[role] \in Working /\ role \notin aborted' => Awaited(role) /\ broadcasts' = broadcasts
      BY <1>2, <1>6, <2>2, FundInvIs
    <3>2. QED BY <1>2, <1>4, <2>1, <2>2, <3>1 DEF Awaited, In, Doing
  <2>3. CASE role # r
    <3>1. work'[role] = work[role] /\ broadcasts'[role] = broadcasts[role]
      BY <1>5, <2>3
    <3>2. work'[role] \in Working /\ role \notin aborted' => Awaited(role)
      BY <1>2, <3>1, FundInvIs
    <3>3. QED BY <1>2, <2>1, <3>1, <3>2, FundInvIs DEF Awaited, In, Doing
  <2>4. QED BY <2>2, <2>3
<1>8. host'.pc > 11 => seats' = {} \/ reserved'
  BY ReservationKept
<1>9. QED BY <1>7, <1>8 DEF FundInv, Before, Working, Awaited

LEMMA FundOfSettling ==
  ASSUME TypeOK, FundInv, HostMoves, [Next]_vars, FundSettles
  PROVE  FundInv'
<1> DEFINE r == Doing.role
<1>1. host.at = "call" /\ Doing.op = "fund" /\ host.pc \in 1..34
  BY DEF FundSettles, In, TypeOK, HostOK
<1>2. r \in Roles /\ host.pc = FundStep(r)
  BY <1>1, ScriptFacts DEF Doing
<1>3. ~Before(r)
  <2>1. FundStep(r) \in Nat
    BY DEF FundStep
  <2> HIDE DEF FundStep
  <2>2. QED BY <1>1, <1>2, <2>1 DEF Before
<1>4. /\ UNCHANGED <<seats, reserved, work, broadcasts>>
      /\ \/ work[r] \in {"funded", "dropped"} /\ aborted' = aborted
         \/ aborted' = aborted \cup {r}
  BY DEF FundSettles, Abort, fundingVars
<1>5. ASSUME NEW role \in Roles
      PROVE  /\ Before(role)' => /\ work'[role] = "idle" /\ broadcasts'[role] = 0
                                 /\ role \notin aborted'
             /\ ~(work'[role] \in Working /\ role \notin aborted')
  <2>1. Before(role)' => Before(role)
    BY BeforeStays
  <2>2. CASE role = r
    BY <1>3, <1>4, <2>1, <2>2 DEF Working
  <2>3. CASE role # r
    <3>1. ~Awaited(role)
      BY <2>3 DEF Awaited
    <3>2. QED BY <1>4, <2>1, <2>3, <3>1, FundInvIs
  <2>4. QED BY <2>2, <2>3
<1>6. host'.pc > 11 => seats' = {} \/ reserved'
  BY ReservationKept
<1>7. QED BY <1>5, <1>6 DEF FundInv, Before, Working, Awaited

LEMMA FundKept ==
  ASSUME TypeOK, FundInv, HostMoves, [Next]_vars
  PROVE  FundInv'
BY FundOfAsk, FundOfBegin, FundOfWork, FundOfSettling, FundOfRest

\* What sends is awaited, and in time.
LEMMA SendsInTime ==
  ASSUME TypeOK, FundInv, [Next]_vars, NEW role \in Roles, broadcasts'[role] # broadcasts[role]
  PROVE  /\ role \in seats /\ reserved /\ broadcasts[role] = 0
         /\ now < Deadline /\ In("fund") /\ Doing.role = role
<1>1. FundWork
  BY DEF Next, HostStep, vars, fundingVars, Skip, Lapse, AskReturns, AskFails, BeginAwait, Poll, GoOn,
         AwaitExpires, AwaitFails, BeginShow, BeginCreate, BeginRecord, BeginPublish,
         ShowAnswered, ShowRefused, ShowUnanswered, ShowGivesUp, SendAnswered, SendUnanswered,
         SendGivesUp, BeginFund, BeginFunding, FundSettles, Abort, Tick, Coordinate, Party,
         SecondClient
<1>2. PICK r \in Roles, answered \in BOOLEAN : Broadcast(r, ProtocolStop, answered)
  BY <1>1 DEF FundWork, Prepare, DropUnsent, Receipt, WorkFails
<1>3. role = r
  BY <1>2 DEF Broadcast, TypeOK, FundingOK
<1>4. work[role] = "send" /\ now < ProtocolStop /\ role \notin aborted
  BY <1>2, <1>3 DEF Broadcast, MaySend, TimeLeft
<1>5. Awaited(role)
  BY <1>4, FundInvIs DEF Working
<1>6. ProtocolStop <= Deadline /\ ProtocolStop \in Nat /\ Deadline \in Nat /\ now \in Nat
  BY Stops DEF TypeOK
<1> HIDE DEF ProtocolStop
<1>7. now < Deadline
  BY <1>4, <1>6
<1>8. QED BY <1>5, <1>7 DEF Awaited

----------------------------------------------------------------------------
(* One ending                                                              *)

EndKept == EndInv' /\ OneEnding'

\* OneEnding, but for what the invariant says of it anyway.
LEMMA EndingIs ==
  ASSUME EndInv', RelayOK',
         "lost" \notin trouble' /\ relay'.notices # {} => ShownFailure' \in {"none", host'.why},
         (host'.at = "stopped" /\ Promised' /\ trouble' = {}) =>
           relay'.notices = {host'.why} /\ ShownFailure' = host'.why
  PROVE  EndKept
<1>1. relay'.notices \subseteq {host'.why}
  BY DEF EndInv
<1>2. Cardinality(relay.notices)' <= 1
  <2>1. relay'.notices = {} \/ relay'.notices = {host'.why}
    BY <1>1
  <2>2. Cardinality({}) = 0 /\ Cardinality({host'.why}) = 1
    BY FS_EmptySet, FS_Singleton
  <2>3. QED BY <2>1, <2>2
<1>3. \A code \in relay'.notices : /\ "lost" \notin trouble' => ShownFailure' \in {"none", code}
                                   /\ relay'.result => code = "snapshot_rejected"
  BY <1>1 DEF EndInv
<1>4. OneEnding'
  BY <1>2, <1>3 DEF OneEnding
<1>5. QED BY <1>4 DEF EndKept

\* Nobody has failed.
NoFailure == draft.failure = "none" /\ ShownFailure = "none" /\ Failure(accepted) = "none"

LEMMA RunningIs ==
  ASSUME EndInv, host.at \in Runs
  PROVE  /\ NoFailure /\ host.why = "none" /\ host.next = "none" /\ ~host.notified
         /\ relay.notices = {}
         /\ relay.result => (host.pc = 33 /\ host.at = "call") \/ host.pc = 34
BY DEF EndInv, NoFailure, Runs

\* The runner goes on in the script, or is at its end.
Proceeds ==
  /\ host.at \in Runs
  /\ host'.why = host.why /\ host'.next = host.next /\ host'.notified = host.notified
  /\ \/ host'.pc = host.pc /\ host'.at \in {"call", "stopped"}
     \/ host'.pc = host.pc + 1 /\ host'.at = "ready"

LEMMA EndOfProceeding ==
  ASSUME TypeOK, HostOK', RelayOK', EndInv, Proceeds, NoFailure',
         relay'.notices = relay.notices, relay'.result => relay.result \/ host.pc = 33
  PROVE  EndKept
<1>1. /\ host.why = "none" /\ host.next = "none" /\ ~host.notified /\ relay.notices = {}
      /\ relay.result => (host.pc = 33 /\ host.at = "call") \/ host.pc = 34
  BY RunningIs DEF Proceeds
<1>2. /\ host'.why = "none" /\ host'.next = "none" /\ ~host'.notified /\ relay'.notices = {}
      /\ host'.at \in {"ready", "call", "stopped"}
  BY <1>1 DEF Proceeds
<1>3. host'.pc \in 1..34 /\ host.pc \in 1..34
  BY DEF TypeOK, HostOK
<1>4. relay'.result => host'.pc \in {33, 34} /\ (host'.pc = 33 => host'.at \in {"call", "stopped"})
  BY <1>1, <1>3 DEF Proceeds
<1>5. EndInv'
  BY <1>2, <1>4 DEF EndInv, NoFailure, Failure, ShownFailure
<1>6. ~Promised'
  BY <1>2 DEF Promised
<1>7. QED BY <1>2, <1>5, <1>6, EndingIs

LEMMA EndOfStop ==
  ASSUME TypeOK, RelayOK', EndInv, host.at \in {"ready", "call", "failed"}, NEW code, Stop(code),
         UNCHANGED <<relay, monitorVars>>, ~Promised'
  PROVE  EndKept
<1>1. /\ host' = [host EXCEPT !.at = "stopped", !.why = code]
      /\ host'.at = "stopped" /\ host'.pc = host.pc /\ host'.notified = host.notified
  BY DEF Stop, TypeOK, HostOK
<1>2. relay' = relay /\ relay.notices = {} /\ (relay.result => host.pc \in {33, 34})
  BY DEF EndInv
<1>3. EndInv'
  BY <1>1, <1>2 DEF EndInv
<1>4. QED BY <1>1, <1>2, <1>3, EndingIs

LEMMA EndOfTelling ==
  ASSUME TypeOK, RelayOK', EndInv, host.at \in Runs, ~relay.result, UNCHANGED relay,
         NEW code \in Codes \ {"none"}, NEW isStrict \in BOOLEAN, Tell(code, isStrict)
  PROVE  EndKept
<1>1. /\ host'.at = "failed" /\ host'.why = code /\ host'.next = "none"
      /\ host'.notified = host.notified /\ draft'.failure = code /\ UNCHANGED <<accepted, shown>>
  BY TellMoves
<1>2. NoFailure /\ ~host.notified /\ relay.notices = {}
  BY RunningIs
<1>3. EndInv'
  BY <1>1, <1>2 DEF EndInv, NoFailure, Failure, ShownFailure
<1>4. QED BY <1>1, <1>2, <1>3, EndingIs

\* What a step throws, and the phase in which an expired invitation is.
Thrown(code) ==
  \/ code \in {"invalid", "ended", "unavailable", "binding_invalid"}
  \/ code = "invitation_expired" /\ Doing.phase = "claim"

LEMMA EndOfThrow ==
  ASSUME TypeOK, RelayOK', EndInv, host.at \in Runs, UNCHANGED relay,
         NEW code, Thrown(code), Throw(code)
  PROVE  EndKept
<1>1. code \in Codes /\ host.pc \in 1..34
  BY DEF Thrown, Codes, TypeOK, HostOK
<1>2. ASSUME NEW told \in Codes \ {"none"}, NEW isStrict \in BOOLEAN, Tell(told, isStrict),
             Doing.phase # "agree"
      PROVE  EndKept
  <2>1. ~relay.result
    <3>1. relay.result => host.pc \in {33, 34}
      BY DEF EndInv
    <3>2. host.pc \in {33, 34} => Doing.phase = "agree"
      BY <1>1, ScriptFacts DEF Doing
    <3>3. QED BY <1>2, <3>1, <3>2
  <2>2. QED BY <1>2, <2>1, EndOfTelling
<1>3. ASSUME Stop(code), UNCHANGED monitorVars,
             ~(Doing.phase = "claim" /\ code \in {"invitation_expired", "binding_invalid"})
      PROVE  EndKept
  <2>1. host'.why = code /\ host'.pc = host.pc
    BY <1>1, <1>3, StopMoves DEF TypeOK
  <2>2. ~Promised'
    BY <1>3, <2>1 DEF Promised, Thrown, Doing
  <2>3. QED BY <1>3, <2>2, EndOfStop DEF Runs
<1>4. QED BY <1>1, <1>2, <1>3, ThrowIs DEF Told

LEMMA AdvanceProceeds ==
  ASSUME HostOK, Advance, host.at \in Runs
  PROVE  Proceeds
<1>1. CASE host.pc = 34
  BY <1>1, ScriptLength DEF Advance, HostOK, Proceeds
<1>2. CASE host.pc # 34
  <2>1. host' = [host EXCEPT !.pc = @ + 1, !.at = "ready", !.until = 0]
    BY <1>2, ScriptLength DEF Advance
  <2>2. QED BY <2>1 DEF HostOK, Proceeds
<1>3. QED BY <1>1, <1>2

LEMMA CallProceeds ==
  ASSUME HostOK, NEW stop, Call(stop), host.at \in Runs
  PROVE  Proceeds
BY DEF Call, HostOK, Proceeds

LEMMA SameFailures ==
  ASSUME NoFailure
  PROVE  /\ UNCHANGED monitorVars => NoFailure'
         /\ draft' \in Snapshots /\ draft'.failure = "none" /\ UNCHANGED <<accepted, shown>> => NoFailure'
         /\ UNCHANGED draft /\ UNCHANGED accepted /\ shown' = <<draft>> => NoFailure'
         /\ UNCHANGED draft /\ accepted' = <<draft>> /\ shown' = <<draft>> => NoFailure'
BY DEF NoFailure, Failure, ShownFailure, monitorVars

\* Steps that have nothing to do with the relay.
LEMMA EndOfSteps ==
  ASSUME TypeOK, HostOK', RelayOK', EndInv,
         Skip \/ Lapse \/ AskReturns \/ AskFails \/ AwaitExpires \/ AwaitFails \/ BeginFund
              \/ FundSettles
  PROVE  EndKept
<1>1. HostOK /\ host.pc \in 1..34 /\ host.at \in Runs /\ UNCHANGED relay
  BY SameMonitor
     DEF Skip, Lapse, AskReturns, AskFails, AwaitExpires, AwaitFails, BeginFund, FundSettles,
         Ready, In, Runs, outVars
<1>2. NoFailure
  BY <1>1, RunningIs
<1>3. ASSUME Advance, UNCHANGED monitorVars
      PROVE  EndKept
  BY <1>1, <1>2, <1>3, SameFailures, AdvanceProceeds, EndOfProceeding
<1>4. ASSUME NEW stop, Call(stop), UNCHANGED monitorVars
      PROVE  EndKept
  BY <1>1, <1>2, <1>4, SameFailures, CallProceeds, EndOfProceeding
<1>5. ASSUME NEW code, Thrown(code), Throw(code)
      PROVE  EndKept
  BY <1>1, <1>5, EndOfThrow
<1>6. CASE Skip \/ AskReturns
  BY <1>3, <1>6 DEF Skip, AskReturns
<1>7. CASE Lapse
  <2>1. Tell("lapsed", TRUE) /\ "lapsed" \in Codes \ {"none"} /\ host.at = "ready" /\ Doing.isFresh
    BY <1>7 DEF Lapse, Codes
  <2>2. ~relay.result
    <3>1. relay.result => host.pc = 34
      BY <2>1, RunningIs DEF Runs
    <3>2. host.pc # 34
      BY <1>1, <2>1, ScriptFacts DEF Doing
    <3>3. QED BY <3>1, <3>2
  <2>3. QED BY <1>1, <2>1, <2>2, EndOfTelling
<1>8. CASE AskFails \/ AwaitFails
  BY <1>5, <1>8 DEF AskFails, AwaitFails, Thrown
<1>9. CASE AwaitExpires
  <2>1. Doing.arg = "claimed" => Doing.phase = "claim"
    BY <1>1, ScriptFacts DEF Doing
  <2> DEFINE code == IF Doing.arg = "claimed" /\ minted # 0 THEN "invitation_expired" ELSE "ended"
  <2>2. Throw(code)
    BY <1>9 DEF AwaitExpires
  <2>3. Thrown(code)
    BY <2>1 DEF Thrown
  <2> HIDE DEF code
  <2>4. QED BY <1>5, <2>2, <2>3
<1>10. CASE BeginFund
  BY <1>4, <1>10 DEF BeginFund
<1>11. CASE FundSettles
  <2>1. (Advance /\ UNCHANGED monitorVars) \/ Throw("unavailable")
    BY <1>11 DEF FundSettles
  <2>2. QED BY <1>3, <1>5, <2>1 DEF Thrown
<1>12. QED BY <1>6, <1>7, <1>8, <1>9, <1>10, <1>11

LEMMA EndOfReading ==
  ASSUME TypeOK, SpeakInv, HostOK', RelayOK', EndInv, BeginAwait \/ Poll
  PROVE  EndKept
<1>1. HostOK /\ host.pc \in 1..34 /\ host.at \in Runs
  BY SameMonitor, ReadingIs
<1>2. NoFailure
  BY <1>1, RunningIs
<1>3. PICK w, messages, rest :
        /\ GoOn(w, rest)
        /\ \E u : u.kind = Doing.arg /\ Knows(u, w, messages, Len(messages))
  BY ReadingIs
<1>4. w \in Waits /\ (w.got # <<>> => w.got[1].kind = Doing.arg)
  BY <1>3 DEF Knows
<1>5. /\ \/ Throw("binding_invalid")
         \/ w.got # <<>> /\ Accept(w.got[1])
         \/ Call(w.until) /\ UNCHANGED monitorVars
      /\ UNCHANGED relay
  BY <1>3 DEF GoOn, outVars
<1>6. ASSUME NEW code, Thrown(code), Throw(code)
      PROVE  EndKept
  BY <1>1, <1>5, <1>6, EndOfThrow
<1>7. ASSUME Advance, UNCHANGED monitorVars
      PROVE  EndKept
  BY <1>1, <1>2, <1>5, <1>7, SameFailures, AdvanceProceeds, EndOfProceeding
<1>8. CASE Throw("binding_invalid")
  BY <1>6, <1>8 DEF Thrown
<1>9. CASE Call(w.until) /\ UNCHANGED monitorVars
  BY <1>1, <1>2, <1>5, <1>9, SameFailures, CallProceeds, EndOfProceeding
<1>10. CASE w.got # <<>> /\ Accept(w.got[1])
  <2> DEFINE m == w.got[1]
  <2>1. m.kind = Doing.arg /\ Accept(m)
    BY <1>4, <1>10
  <2> HIDE DEF m
  <2>2. m.kind = "claimed" => Doing.phase = "claim"
    <3>1. host.pc \in 1..34
      BY <1>1
    <3>2. Script[host.pc].arg = "claimed" => Script[host.pc].phase = "claim"
      BY ONLY <3>1, ScriptFacts
    <3>3. QED BY ONLY <2>1, <3>2 DEF Doing
  <2>3. CASE m.kind = "claimed"
    <3>1. Claim(m)
      BY <2>1, <2>3 DEF Accept
    <3>2. \/ Throw("binding_invalid") \/ Throw("invitation_expired")
          \/ Advance /\ UNCHANGED monitorVars
      BY <3>1 DEF Claim
    <3>3. QED BY <1>6, <1>7, <2>2, <2>3, <3>2 DEF Thrown
  <2>4. CASE m.kind = "proposal" /\ InAgreement(m)
    <3>1. /\ host' = [host EXCEPT !.pc = @ + 1, !.at = "ready", !.until = 0, !.agreement = m.exp]
          /\ UNCHANGED monitorVars
      BY <2>1, <2>4 DEF Accept
    <3>2. Proceeds
      BY <1>1, <3>1 DEF HostOK, Proceeds
    <3>3. QED BY <1>2, <1>5, <3>1, <3>2, SameFailures, EndOfProceeding
  <2>5. CASE (m.kind = "proposal" /\ ~InAgreement(m)) \/ (m.kind = "acceptance" /\ ~StillAgreed)
    <3>1. Throw("invalid")
      BY <2>1, <2>5 DEF Accept
    <3>2. QED BY <1>6, <3>1 DEF Thrown
  <2>6. CASE /\ m.kind # "claimed" /\ ~(m.kind = "proposal" /\ InAgreement(m))
             /\ ~((m.kind = "proposal" /\ ~InAgreement(m)) \/ (m.kind = "acceptance" /\ ~StillAgreed))
    <3>1. Advance /\ UNCHANGED monitorVars
      BY <2>1, <2>6 DEF Accept
    <3>2. QED BY <1>7, <3>1
  <2>7. QED BY <2>3, <2>4, <2>5, <2>6
<1>11. QED BY <1>5, <1>8, <1>9, <1>10

LEMMA EndOfBegin ==
  ASSUME TypeOK, HostOK', RelayOK', EndInv, BeginShow \/ BeginCreate \/ BeginRecord \/ BeginPublish
  PROVE  EndKept
<1>1. HostOK /\ host.pc \in 1..34 /\ host.at \in Runs /\ UNCHANGED relay
  BY SameMonitor DEF BeginShow, BeginCreate, BeginRecord, BeginPublish, outVars, Ready, Runs
<1>2. NoFailure
  BY <1>1, RunningIs
<1>3. CASE BeginShow
  <2>1. Call(BudgetStop) /\ UNCHANGED <<accepted, shown>>
        /\ draft' = [draft EXCEPT !.stage = @ + 1, !.certified = @ \/ (Doing.arg = "issued")]
    BY <1>3 DEF BeginShow, DraftStep
  <2>2. draft'.failure = "none"
    BY <1>2, <2>1 DEF TypeOK, Snapshots, NoFailure
  <2>3. NoFailure'
    BY <1>2, <2>1, <2>2 DEF NoFailure, ShownFailure, Failure
  <2>4. QED BY <1>1, <2>1, <2>3, CallProceeds, EndOfProceeding
<1>4. CASE BeginCreate
  <2>1. UNCHANGED monitorVars /\ (Call(InvitationEnd) \/ Stop("ended"))
    BY <1>4 DEF BeginCreate
  <2>2. CASE Call(InvitationEnd)
    BY <1>1, <1>2, <2>1, <2>2, SameFailures, CallProceeds, EndOfProceeding
  <2>3. CASE Stop("ended")
    <3>1. host'.why = "ended"
      BY <1>1, <2>3, StopMoves DEF Codes
    <3>2. ~Promised'
      BY <3>1 DEF Promised
    <3>3. QED BY <1>1, <2>1, <2>3, <3>2, EndOfStop DEF Runs
  <2>4. QED BY <2>1, <2>2, <2>3
<1>5. CASE BeginRecord
  <2>1. UNCHANGED monitorVars
        /\ \E known : host' = [host EXCEPT !.at = "call", !.learned = known, !.until = Bounded(known)]
    BY <1>5 DEF BeginRecord
  <2>2. Proceeds
    BY <1>1, <2>1 DEF HostOK, Proceeds
  <2>3. QED BY <1>1, <1>2, <2>1, <2>2, SameFailures, EndOfProceeding
<1>6. CASE BeginPublish
  BY <1>1, <1>2, <1>6, SameFailures, CallProceeds, EndOfProceeding DEF BeginPublish
<1>7. QED BY <1>3, <1>4, <1>5, <1>6

\* The snapshot of a failure, or its refusal, goes over to the notice.
LEMMA EndOfNotify ==
  ASSUME TypeOK, RelayOK', EndInv, host.at \in {"call", "failed", "rejected"}, UNCHANGED relay,
         NEW code \in Codes, NEW next \in Codes, Notify(code, next),
         "lost" \notin trouble' => ShownFailure' \in {"none", code},
         trouble' = {} => ShownFailure' = code,
         relay.result => code = "snapshot_rejected" /\ host.pc # 33
  PROVE  EndKept
<1>1. ~host.notified /\ relay.notices = {} /\ (relay.result => host.pc \in {33, 34})
  BY DEF EndInv
<1>2. host'.at = "notify" /\ host'.why = code /\ host'.next = next /\ host'.notified
      /\ host'.pc = host.pc
  BY <1>1, NotifyMoves DEF TypeOK
<1>3. EndInv'
  BY <1>1, <1>2 DEF EndInv
<1>4. QED BY <1>1, <1>2, <1>3, EndingIs

LEMMA EndOfShow ==
  ASSUME TypeOK, HostOK', RelayOK', EndInv,
         ShowAnswered \/ ShowRefused \/ ShowUnanswered \/ ShowGivesUp
  PROVE  EndKept
<1>1. /\ HostOK /\ host.pc \in 1..34 /\ host.why \in Codes /\ host.next \in Codes
      /\ "snapshot_rejected" \in Codes /\ "none" \in Codes /\ "unavailable" \in Codes
      /\ draft \in Snapshots /\ accepted \in Screens /\ <<draft>> # <<>> /\ <<draft>>[1] = draft
  BY SameMonitor, ScreenProperties DEF TypeOK, HostOK, Codes
<1>2. UNCHANGED relay /\ (In("show") \/ host.at \in {"failed", "rejected"})
  BY DEF ShowAnswered, ShowRefused, ShowUnanswered, ShowGivesUp, Showing, outVars
<1>3. host.at \in {"call", "failed", "rejected"} /\ host.at \notin {"ready", "notify", "stopped"}
  BY <1>2 DEF In
<1>4. host.at = "call" => NoFailure /\ host.at \in Runs
  BY RunningIs DEF Runs
<1>5. host.at \in {"failed", "rejected"} =>
        /\ draft.failure = host.why /\ ("lost" \notin trouble => ShownFailure = "none")
        /\ Failure(accepted) = "none" /\ ~host.notified /\ relay.notices = {}
  BY DEF EndInv
<1>6. relay.result => host.at # "failed" /\ host.pc # 33 /\ (host.at = "rejected" => host.why = "snapshot_rejected")
  <2>1. host.pc = 33 => Doing.op = "publish"
    BY ScriptFacts DEF Doing
  <2>2. host.pc = 33 => ~In("show")
    BY <2>1 DEF In
  <2>3. QED BY <1>2, <1>3, <2>2 DEF EndInv
<1>7. CASE ShowAnswered
  <2>1. shown' = <<draft>> /\ accepted' = <<draft>> /\ UNCHANGED draft /\ UNCHANGED trouble
    BY <1>7 DEF ShowAnswered, Confirmed, outVars
  <2>2. CASE host.at = "call"
    <3>1. Advance
      BY <1>7, <2>2 DEF ShowAnswered
    <3>2. QED BY <1>1, <1>2, <1>4, <2>1, <2>2, <3>1, SameFailures, AdvanceProceeds, EndOfProceeding
  <2>3. CASE host.at # "call"
    <3>1. Notify(host.why, host.next)
      BY <1>7, <2>3 DEF ShowAnswered
    <3>2. ShownFailure' = host.why
      BY <1>1, <1>3, <1>5, <2>1, <2>3 DEF ShownFailure
    <3>3. relay.result => host.why = "snapshot_rejected" /\ host.pc # 33
      BY <1>3, <1>6, <2>3
    <3>4. QED BY <1>1, <1>2, <1>3, <3>1, <3>2, <3>3, EndOfNotify
  <2>4. QED BY <2>2, <2>3
<1>8. CASE ShowRefused
  <2> DEFINE next == IF host.at = "failed" /\ ~host.strict THEN host.why ELSE host.next
  <2>1. next \in Codes
    BY <1>1
  <2>2. \/ Notify("snapshot_rejected", next) /\ UNCHANGED monitorVars
        \/ /\ host' = [host EXCEPT !.at = "rejected", !.why = "snapshot_rejected",
                                   !.next = next, !.until = BudgetStop]
           /\ DraftFailureAfterRejection("snapshot_rejected")
    BY <1>8 DEF ShowRefused
  <2> HIDE DEF next
  <2>3. trouble' = trouble \cup {"refused"}
    BY <1>8 DEF ShowRefused
  <2>4. UNCHANGED <<accepted, shown>>
    BY <2>2 DEF monitorVars, DraftFailureAfterRejection
  <2>5. "lost" \notin trouble' => ShownFailure' = "none"
    BY <1>3, <1>4, <1>5, <2>3, <2>4 DEF NoFailure, ShownFailure
  <2>6. trouble' # {}
    BY <2>3
  <2>7. CASE Notify("snapshot_rejected", next) /\ UNCHANGED monitorVars
    BY <1>1, <1>2, <1>3, <1>6, <2>1, <2>5, <2>6, <2>7, EndOfNotify
  <2>8. CASE /\ host' = [host EXCEPT !.at = "rejected", !.why = "snapshot_rejected",
                                     !.next = next, !.until = BudgetStop]
             /\ DraftFailureAfterRejection("snapshot_rejected")
    <3>1. /\ host'.at = "rejected" /\ host'.why = "snapshot_rejected" /\ host'.pc = host.pc
          /\ host'.notified = host.notified
      BY <1>1, <2>8 DEF HostOK
    <3>2. accepted # <<>> /\ draft' = [accepted[1] EXCEPT !.failure = "snapshot_rejected"]
      BY <2>8 DEF DraftFailureAfterRejection
    <3>3. draft'.failure = "snapshot_rejected"
      BY <1>1, <3>2, ScreenProperties DEF Snapshots
    <3>4. ~host.notified /\ relay.notices = {} /\ Failure(accepted) = "none"
      BY <1>3 DEF EndInv
    <3>5. Failure(accepted)' = "none"
      BY <2>4, <3>4 DEF Failure
    <3>6. relay'.result => host'.pc \in {33, 34} /\ host'.pc # 33
      BY <1>2, <1>6, <3>1 DEF EndInv
    <3>7. EndInv'
      BY <1>2, <2>5, <2>6, <3>1, <3>3, <3>4, <3>5, <3>6 DEF EndInv
    <3>8. QED BY <1>2, <3>1, <3>4, <3>7, EndingIs
  <2>9. QED BY <2>2, <2>7, <2>8
<1>9. CASE ShowUnanswered
  <2>1. /\ shown' = <<draft>> /\ UNCHANGED <<draft, accepted>> /\ host' = host
        /\ trouble' = trouble \cup {"lost"}
    BY <1>9 DEF ShowUnanswered, Unanswered
  <2>2. ShownFailure' = draft.failure
    BY <1>1, <2>1 DEF ShownFailure
  <2>3. host.at = "call" => ShownFailure' = "none"
    BY <1>4, <2>2 DEF NoFailure
  <2>4. EndInv'
    BY <1>2, <1>3, <2>1, <2>3 DEF EndInv, Failure
  <2>5. QED BY <1>3, <2>1, <2>4, EndingIs
<1>10. CASE ShowGivesUp
  <2>1. trouble' = trouble \cup {"unavailable"} /\ trouble' # {}
    BY <1>10 DEF ShowGivesUp
  <2>2. CASE host.at = "call"
    <3>1. Throw("unavailable")
      BY <1>10, <2>2 DEF ShowGivesUp
    <3>2. QED BY <1>2, <1>4, <2>2, <3>1, EndOfThrow DEF Thrown
  <2>3. CASE host.at = "failed" /\ host.strict
    <3>1. Stop("unavailable") /\ UNCHANGED monitorVars
      BY <1>10, <2>3 DEF ShowGivesUp
    <3>2. host'.why = "unavailable"
      BY <1>1, <3>1, StopMoves
    <3>3. ~Promised'
      BY <3>2 DEF Promised
    <3>4. QED BY <1>2, <2>3, <3>1, <3>3, EndOfStop
  <2>4. CASE host.at # "call" /\ ~(host.at = "failed" /\ host.strict)
    <3>1. Notify(host.why, host.next) /\ UNCHANGED monitorVars
      BY <1>10, <2>4 DEF ShowGivesUp
    <3>2. "lost" \notin trouble' => ShownFailure' = "none"
      BY <1>3, <1>5, <2>1, <2>4, <3>1 DEF ShownFailure, monitorVars
    <3>3. relay.result => host.why = "snapshot_rejected" /\ host.pc # 33
      BY <1>3, <1>6, <2>4
    <3>4. QED BY <1>1, <1>2, <1>3, <2>1, <3>1, <3>2, <3>3, EndOfNotify
  <2>5. QED BY <2>2, <2>3, <2>4
<1>11. QED BY <1>7, <1>8, <1>9, <1>10

LEMMA EndOfSend ==
  ASSUME TypeOK, HostOK', RelayOK', EndInv, SendAnswered \/ SendUnanswered \/ SendGivesUp
  PROVE  EndKept
<1>1. HostOK /\ host.pc \in 1..34 /\ host.why \in Codes /\ "none" \in Codes /\ "unavailable" \in Codes
      /\ host.next \in Codes /\ RelayOK
  BY SameMonitor DEF TypeOK, HostOK, Codes, RelayOK
<1>2. Doing.arg = "result" <=> host.pc = 33
  BY <1>1, ScriptFacts DEF Doing
<1>3. host.at = "notify" \/ host.at = "call"
  BY DEF SendAnswered, SendUnanswered, SendGivesUp, Sending, In
<1>4. CASE host.at = "call"
  <2>1. NoFailure /\ host.at \in Runs
    BY <1>4, RunningIs DEF Runs
  <2>2. Taken => relay'.notices = relay.notices /\ (relay'.result => relay.result \/ host.pc = 33)
    BY <1>1, <1>2, <1>4 DEF Taken, RelayOK
  <2>3. CASE SendAnswered
    <3>1. Advance /\ UNCHANGED monitorVars /\ Taken
      BY <1>4, <2>3 DEF SendAnswered
    <3>2. QED BY <1>1, <2>1, <2>2, <3>1, SameFailures, AdvanceProceeds, EndOfProceeding
  <2>4. CASE SendUnanswered
    <3>1. UNCHANGED <<host, monitorVars>> /\ Taken
      BY <2>4 DEF SendUnanswered
    <3>2. Proceeds
      BY <1>4, <2>1, <3>1 DEF Proceeds
    <3>3. QED BY <1>1, <2>1, <2>2, <3>1, <3>2, SameFailures, EndOfProceeding
  <2>5. CASE SendGivesUp
    <3>1. Throw("unavailable") /\ UNCHANGED relay
      BY <1>4, <2>5 DEF SendGivesUp
    <3>2. QED BY <2>1, <3>1, EndOfThrow DEF Thrown
  <2>6. QED BY <2>3, <2>4, <2>5
<1>5. CASE host.at = "notify"
  <2>1. /\ host.notified /\ ("lost" \notin trouble => ShownFailure \in {"none", host.why})
        /\ (trouble = {} => ShownFailure = host.why)
        /\ relay.notices \subseteq {host.why}
        /\ relay.result => host.pc = 34 /\ host.why = "snapshot_rejected"
    BY <1>5 DEF EndInv
  <2>2. Taken => relay'.notices = {host.why} /\ relay'.result = relay.result
    BY <1>1, <1>5, <2>1 DEF Taken, RelayOK
  <2>3. Notified => /\ host'.at = "stopped" /\ host'.why = host.why /\ host'.pc = host.pc
                    /\ UNCHANGED monitorVars
    <3> SUFFICES ASSUME Notified
                 PROVE  /\ host'.at = "stopped" /\ host'.why = host.why /\ host'.pc = host.pc
                        /\ UNCHANGED monitorVars
      OBVIOUS
    <3>1. CASE host.next # "none"
      <4>1. host' = [host EXCEPT !.at = "stopped"] /\ UNCHANGED monitorVars
        BY <1>1, <2>1, <3>1, NotifiedIs, NotifyMoves
      <4>2. QED BY <1>1, <4>1 DEF HostOK
    <3>2. CASE host.next = "none"
      BY <1>1, <3>2, NotifiedIs, StopMoves
    <3>3. QED BY <3>1, <3>2
  <2>4. UNCHANGED monitorVars
    BY <1>5, <2>3 DEF SendAnswered, SendUnanswered, SendGivesUp
  <2>5. ShownFailure' = ShownFailure
    BY <2>4 DEF monitorVars, ShownFailure
  <2>6. CASE SendAnswered
    <3>1. /\ host'.at = "stopped" /\ host'.why = host.why /\ host'.pc = host.pc
          /\ relay'.notices = {host.why} /\ relay'.result = relay.result
          /\ trouble' = trouble
      BY <1>5, <2>2, <2>3, <2>6 DEF SendAnswered
    <3>2. EndInv'
      BY <2>1, <3>1 DEF EndInv
    <3>3. QED BY <2>1, <2>5, <3>1, <3>2, EndingIs
  <2>7. CASE SendUnanswered
    <3>1. /\ host' = host /\ relay'.notices = {host.why} /\ relay'.result = relay.result
          /\ trouble' = trouble \cup {"lost"}
      BY <2>2, <2>7 DEF SendUnanswered
    <3>2. EndInv'
      BY <1>5, <2>1, <3>1 DEF EndInv
    <3>3. QED BY <1>5, <3>1, <3>2, EndingIs
  <2>8. CASE SendGivesUp
    <3>1. /\ host'.at = "stopped" /\ host'.why = host.why /\ host'.pc = host.pc
          /\ relay' = relay /\ trouble' = trouble \cup {"unavailable"} /\ trouble' # {}
      BY <1>5, <2>3, <2>8 DEF SendGivesUp
    <3>2. EndInv'
      BY <2>1, <3>1 DEF EndInv
    <3>3. QED BY <2>1, <2>5, <3>1, <3>2, EndingIs
  <2>9. QED BY <2>6, <2>7, <2>8
<1>6. QED BY <1>3, <1>4, <1>5

LEMMA EndOfRest ==
  ASSUME EndInv, OneEnding, UNCHANGED <<host, monitorVars, relay, trouble>>
  PROVE  EndKept
<1>1. UNCHANGED <<host, draft, accepted, shown, relay, trouble>>
  BY DEF monitorVars
<1>2. EndInv'
  BY <1>1 DEF EndInv, ShownFailure, Failure
<1>3. OneEnding'
  BY <1>1 DEF OneEnding, Promised, ShownFailure, Doing
<1>4. QED BY <1>2, <1>3 DEF EndKept

LEMMA EndStays ==
  ASSUME TypeOK, TypeOK', SpeakInv, EndInv, OneEnding, [Next]_vars
  PROVE  EndInv' /\ OneEnding'
<1>1. HostOK' /\ RelayOK'
  BY DEF TypeOK, RelayOK
<1>2. UNCHANGED vars => EndKept
  BY EndOfRest DEF vars, outVars
<1>3. FundWork \/ Tick \/ Coordinate \/ Party \/ SecondClient => EndKept
  BY EndOfRest, EnvironmentIs DEF FundWork, Tick, outVars
<1>4. EndKept
  BY <1>1, <1>2, <1>3, EndOfSteps, EndOfReading, EndOfBegin, EndOfShow, EndOfSend
     DEF Next, HostStep
<1>5. QED BY <1>4 DEF EndKept

----------------------------------------------------------------------------
(* The theorems                                                            *)

LEMMA InvInitially ==
  ASSUME Init
  PROVE  IInv
<1>1. /\ now = 0 /\ unread = <<>> /\ deferred = <<>> /\ taken = {} /\ flawed = FALSE /\ flagged = {}
      /\ bound = [r \in Roles |-> <<>>] /\ minted = 0
      /\ reserved = FALSE /\ aborted = {}
      /\ work = [r \in Roles |-> "idle"] /\ broadcasts = [r \in Roles |-> 0]
      /\ draft = Snapshot(0, "none", FALSE) /\ accepted = <<>> /\ shown = <<>>
      /\ host = [pc |-> 1, at |-> "ready", until |-> 0, why |-> "none", strict |-> FALSE,
                 next |-> "none", notified |-> FALSE, agreement |-> 0, learned |-> 0]
      /\ seats = IF policy = "required_fresh" THEN Roles ELSE {}
      /\ invitation = [exp |-> 0, at |-> -1]
      /\ relay = [notices |-> {}, descriptor |-> FALSE, result |-> FALSE] /\ trouble = {}
  BY DEF Init, InboxInit, FundingInit, MonitorInit
<1>2. mode \in {"off", "observe", "enforce"}
  <2>1. PICK setting \in Settings : mode = setting[1]
    BY DEF Init
  <2>2. setting \in {"off", "observe", "enforce"}
                      \X {"not_required", "required_fresh", "required_existing_or_fresh"}
    BY <2>1, HostAssumption
  <2>3. QED BY <2>1, <2>2
<1>3. InboxOK
  BY <1>1, <1>2, BoxProperties, EmptySeq DEF InboxOK
<1>4. FundingOK
  BY <1>1 DEF FundingOK
<1>5. HostOK
  BY <1>1 DEF HostOK, Codes
<1>6. draft \in Snapshots /\ accepted \in Screens /\ shown \in Screens
  BY <1>1 DEF Snapshot, Snapshots, Screens, Codes
<1>7. TypeOK
  <2>1. now \in Nat /\ trouble \subseteq {"lost", "refused", "unavailable"}
    BY <1>1
  <2>2. invitation \in [exp : Nat, at : Int]
    BY <1>1
  <2>3. relay \in [notices : SUBSET Codes, descriptor : BOOLEAN, result : BOOLEAN]
    BY <1>1
  <2>4. QED BY <1>3, <1>4, <1>5, <1>6, <2>1, <2>2, <2>3 DEF TypeOK
<1>8. SpeakInv
  BY <1>1 DEF SpeakInv, OneSpeaker, Bound, FirstProper, EnrolledYet, EnrolledIn, Roles
<1>9. FundInv
  BY <1>1 DEF FundInv
<1>10. EndInv
  BY <1>1 DEF EndInv, Snapshot, Failure, ShownFailure
<1>11. OneEnding
  BY <1>1, FS_EmptySet DEF OneEnding
<1>12. QED BY <1>7, <1>8, <1>9, <1>10, <1>11 DEF IInv

LEMMA InvKept ==
  ASSUME IInv, [Next]_vars
  PROVE  IInv'
<1>1. TypeOK' /\ HostMoves
  BY TypesKept DEF IInv
<1>2. QED BY <1>1, SpeakKept, FundKept, EndStays DEF IInv

\* Everything above holds in every state of a session.
THEOREM Invariant == Spec => []IInv
<1>1. Init => IInv
  BY InvInitially
<1>2. IInv /\ [Next]_vars => IInv'
  BY InvKept
<1>3. QED BY <1>1, <1>2, PTL DEF Spec

\* Every variable of the session holds what its declaration says, for any keys, settings,
\* deadlines and bounds.
THEOREM SessionTypes == Spec => []TypeOK
<1>1. IInv => TypeOK
  BY DEF IInv
<1>2. QED BY <1>1, Invariant, PTL

\* A host that enforces the coordinator's enrollments goes on with nothing but what the
\* first key enrolled for a role has said, and one that observes has logged the rest
\* (createSenderBindings, observeMessage, admitMessage).
THEOREM SpeakersAreFirst == Spec => []OneSpeaker
<1>1. IInv => OneSpeaker
  BY DEF IInv, SpeakInv
<1>2. QED BY <1>1, Invariant, PTL

\* The funding wallet sends once for a role to be funded, on a reservation, while its step
\* is awaited and before the deadline (fundingStep, fetchBeforeStop).
THEOREM FundingIsAwaited == Spec => FundingStops
<1>1. IInv /\ [Next]_vars =>
        [\A r \in Roles : broadcasts'[r] # broadcasts[r] =>
           /\ r \in seats /\ reserved /\ broadcasts[r] = 0
           /\ now < Deadline /\ In("fund") /\ Doing.role = r]_vars
  BY SendsInTime DEF IInv
<1>2. QED BY <1>1, Invariant, PTL DEF Spec, FundingStops

\* A session ends once: one notice at most, of the failure the snapshot shows, none that
\* contradicts a published result, and every failure the host promises to tell is told on
\* both channels when nothing was lost (notifySessionFailed, handleSnapshotRejection).
THEOREM SessionsEndOnce == Spec => []OneEnding
<1>1. IInv => OneEnding
  BY DEF IInv
<1>2. QED BY <1>1, Invariant, PTL
=============================================================================
