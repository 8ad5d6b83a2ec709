------------------------- MODULE RelayClientProofs -------------------------
(***************************************************************************)
(* Theorems about RelayClient, for every set of clients, every script of   *)
(* calls and a network that loses and delays what it likes: types, the     *)
(* order of a client's messages, one claim per role, and that a call none  *)
(* of whose answers was lost did exactly what it reports.                  *)
(***************************************************************************)
EXTENDS RelayClient, TLAPS, SequenceTheorems

----------------------------------------------------------------------------
(* Types                                                                   *)

Wires == [envelope : Envelopes, awaited : BOOLEAN]

\* What a client in a call signs is an envelope.
LEMMA EnvelopeType ==
  ASSUME TypeOK, NEW c \in Clients, NEW n \in Nat \ {0}
  PROVE  /\ Envelope(c, n) \in Envelopes
         /\ Envelope(c, n).client = c /\ Envelope(c, n).role = Role[c]
         /\ Envelope(c, n).seq = n /\ Envelope(c, n).call = Len(done[c]) + 1
         /\ Envelope(c, n).kind = IF How(c) = "claim" THEN "role_claim" ELSE "other"
<1>1. Len(done[c]) \in Nat
  BY DEF TypeOK
<1>2. QED BY <1>1 DEF Envelope, Envelopes

\* A step of one client that does not end its call keeps the types.
LEMMA MoveType ==
  ASSUME TypeOK, NEW c \in Clients, NEW s \in States, state' = [state EXCEPT ![c] = s],
         UNCHANGED done, log' \in Seq(Envelopes), wire' \subseteq Wires, failures' \in Nat,
         s.pc \in {"send", "wait"} \/ (s.pc = "failed" /\ s.failedAt = "send") => s.seq > 0,
         s.pc # "idle", s.pc = "failed" => s.failedAt # "none",
         Len(done[c]) < Len(Script[c]), s.conflicts < Limit(c)
  PROVE  TypeOK'
<1>1. /\ state' \in [Clients -> States] /\ state'[c] = s
      /\ \A d \in Clients : d # c => state'[d] = state[d]
  BY DEF TypeOK
<1>2. Signed(c)' => s.seq > 0
  BY <1>1 DEF Signed, At
<1>3. \A d \in Clients : d # c => (Signed(d)' <=> Signed(d))
  BY <1>1 DEF Signed, At
<1>4. \A d \in Clients : How(d)' = How(d)
  BY DEF How
<1>5. \A d \in Clients : Signed(d)' => state'[d].seq > 0
  BY <1>1, <1>2, <1>3 DEF TypeOK
<1>6. \A d \in Clients : At(d, "failed")' => state'[d].failedAt # "none"
  BY <1>1 DEF TypeOK, At
<1>7. \A d \in Clients : ~At(d, "idle")' =>
        /\ Len(done'[d]) < Len(Script[d])
        /\ state'[d].conflicts < IF How(d)' = "claim" THEN MaxAttempts ELSE MaxConflicts
  BY <1>1, <1>4 DEF TypeOK, At, Limit
<1>8. \A d \in Clients : At(d, "idle")' => state'[d].conflicts = 0
  BY <1>1 DEF TypeOK, At
<1>9. QED BY <1>1, <1>5, <1>6, <1>7, <1>8 DEF TypeOK, Wires

\* The end of a call keeps the types.
LEMMA EndType ==
  ASSUME TypeOK, NEW c \in Clients, ~At(c, "idle"), NEW r \in Results,
         done' = [done EXCEPT ![c] = Append(@, r)], state' = [state EXCEPT ![c] = Idle],
         UNCHANGED log, wire' \subseteq Wires, failures' \in Nat
  PROVE  TypeOK'
<1>1. /\ done[c] \in Seq(Results) /\ Len(done[c]) < Len(Script[c])
      /\ Script[c] \in Seq(Hows)
  BY ClientAssumption DEF TypeOK
<1>2. Append(done[c], r) \in Seq(Results) /\ Len(Append(done[c], r)) = Len(done[c]) + 1
  BY <1>1, AppendProperties
<1>3. Idle \in States /\ Idle.pc = "idle" /\ Idle.conflicts = 0
  BY DEF Idle, States
<1>4. /\ done' \in [Clients -> Seq(Results)] /\ done'[c] = Append(done[c], r)
      /\ \A d \in Clients : d # c => done'[d] = done[d]
  BY <1>2 DEF TypeOK
<1>5. /\ state' \in [Clients -> States] /\ state'[c] = Idle
      /\ \A d \in Clients : d # c => state'[d] = state[d]
  BY <1>3 DEF TypeOK
<1>6. \A d \in Clients : Len(done'[d]) <= Len(Script[d])
  BY <1>1, <1>2, <1>4 DEF TypeOK
<1>7. \A d \in Clients : Signed(d)' => state'[d].seq > 0
  BY <1>3, <1>5 DEF TypeOK, Signed, At
<1>8. \A d \in Clients : At(d, "failed")' => state'[d].failedAt # "none"
  BY <1>3, <1>5 DEF TypeOK, At
<1>9. \A d \in Clients : ~At(d, "idle")' =>
        /\ Len(done'[d]) < Len(Script[d])
        /\ state'[d].conflicts < IF How(d)' = "claim" THEN MaxAttempts ELSE MaxConflicts
  BY <1>3, <1>4, <1>5 DEF TypeOK, At, How
<1>10. \A d \in Clients : At(d, "idle")' => state'[d].conflicts = 0
  BY <1>3, <1>5 DEF TypeOK, At
<1>11. QED BY <1>4, <1>5, <1>6, <1>7, <1>8, <1>9, <1>10 DEF TypeOK, Wires

\* What End and BreakOff record is a result.
LEMMA ResultType ==
  ASSUME TypeOK, NEW c \in Clients, NEW outcome \in Outcomes, NEW lost \in BOOLEAN
  PROVE  /\ [outcome |-> outcome, seq |-> state[c].seq, lost |-> lost] \in Results
         /\ state[c].lost \in BOOLEAN
BY DEF TypeOK, States, Results

\* A state whose message is signed anew, or that is to read again.
Signing(x, n, b)  == [x EXCEPT !.pc = "send", !.seq = n, !.late = b]
Rereading(x, n, b) == [x EXCEPT !.pc = "read", !.answer = "none", !.conflicts = n, !.late = b]

LEMMA NewRequest ==
  ASSUME NEW x \in States, NEW n \in Nat, NEW b \in BOOLEAN
  PROVE  /\ Signing(x, n, b) \in States /\ Signing(x, n, b).pc = "send"
         /\ Signing(x, n, b).seq = n /\ Signing(x, n, b).conflicts = x.conflicts
         /\ Rereading(x, n, b) \in States /\ Rereading(x, n, b).pc = "read"
         /\ Rereading(x, n, b).conflicts = n
BY DEF States, Signing, Rereading

\* Every step keeps the types.
LEMMA TypeStep ==
  ASSUME TypeOK, [Next]_vars
  PROVE  TypeOK'
<1>0. /\ log \in Seq(Envelopes) /\ Len(log) \in Nat /\ wire \subseteq Wires
      /\ state \in [Clients -> States] /\ failures \in Nat
      /\ \A c \in Clients : state[c] \in States
      /\ \A c \in Clients : ~At(c, "idle") =>
           Len(done[c]) < Len(Script[c]) /\ state[c].conflicts < Limit(c)
      /\ \A c \in Clients : Limit(c) \in Nat /\ Limit(c) > 0
      /\ \A c \in Clients : Signed(c) => state[c].seq > 0
      /\ \A c \in Clients : At(c, "failed") => state[c].failedAt # "none"
  BY ClientAssumption DEF TypeOK, Limit, Wires
<1>a. \A c \in Clients : StillLate(c) \in BOOLEAN
  BY <1>0 DEF StillLate, States
<1>1. ASSUME NEW c \in Clients, ~At(c, "idle"), NEW outcome \in Outcomes, End(c, outcome),
             UNCHANGED <<log, wire, failures>>
      PROVE  TypeOK'
  BY <1>0, <1>1, EndType, ResultType DEF End
<1>2. ASSUME NEW c \in Clients, Begin(c)
      PROVE  TypeOK'
  <2>1. [state[c] EXCEPT !.pc = "read"] \in States
    BY <1>0 DEF States
  <2>2. state' = [state EXCEPT ![c] = [state[c] EXCEPT !.pc = "read"]]
    BY <1>0, <1>2 DEF Begin
  <2>3. state[c].conflicts = 0
    BY <1>2 DEF Begin, TypeOK
  <2>4. QED BY <1>0, <1>2, <2>1, <2>2, <2>3, MoveType DEF Begin, States
<1>3. ASSUME NEW c \in Clients, Elapse(c)
      PROVE  TypeOK'
  <2>1. [state[c] EXCEPT !.late = TRUE] \in States
    BY <1>0 DEF States
  <2>2. state' = [state EXCEPT ![c] = [state[c] EXCEPT !.late = TRUE]]
    BY <1>0, <1>3 DEF Elapse
  <2>3. QED BY <1>0, <1>3, <2>1, <2>2, MoveType DEF Elapse, States, Signed, At
<1>4. ASSUME NEW c \in Clients, Expire(c)
      PROVE  TypeOK'
  BY <1>1, <1>4 DEF Expire, At, Outcomes
<1>5. ASSUME NEW c \in Clients, Read(c)
      PROVE  TypeOK'
  <2>1. CASE End(c, "bound")
    BY <1>1, <1>5, <2>1 DEF Read, At, Outcomes
  <2>2. CASE /\ state' = [state EXCEPT ![c].pc = "send", ![c].seq = Len(log) + 1,
                                      ![c].late = StillLate(c)]
             /\ UNCHANGED done
    <3> DEFINE s == Signing(state[c], Len(log) + 1, StillLate(c))
    <3>1. s \in States /\ s.pc = "send" /\ s.seq = Len(log) + 1 /\ s.conflicts = state[c].conflicts
      <4>1. state[c] \in States /\ StillLate(c) \in BOOLEAN /\ Len(log) + 1 \in Nat
        BY <1>0, <1>a
      <4>2. QED BY <4>1, NewRequest
    <3>2. state' = [state EXCEPT ![c] = s]
      BY <1>0, <2>2 DEF Signing
    <3> HIDE DEF s
    <3>3. ~At(c, "idle") /\ UNCHANGED <<log, wire, failures>>
      BY <1>5 DEF Read, At
    <3>4. s.seq > 0 /\ Len(done[c]) < Len(Script[c]) /\ s.conflicts < Limit(c)
      BY <1>0, <3>1, <3>3
    <3>5. log' \in Seq(Envelopes) /\ wire' \subseteq Wires /\ failures' \in Nat
      BY <1>0, <3>3
    <3>6. QED BY <2>2, <3>1, <3>2, <3>4, <3>5, MoveType
  <2>3. QED BY <1>5, <2>1, <2>2 DEF Read
<1>6. failures' \in Nat \/ ~Failure
  BY <1>0, ClientAssumption DEF Failure
<1>7. ASSUME NEW c \in Clients, FailRead(c)
      PROVE  TypeOK'
  <2>1. [state[c] EXCEPT !.pc = "failed", !.failedAt = "read"] \in States
    BY <1>0 DEF States
  <2>2. state' = [state EXCEPT ![c] = [state[c] EXCEPT !.pc = "failed", !.failedAt = "read"]]
    BY <1>0, <1>7 DEF FailRead
  <2>3. QED BY <1>0, <1>6, <1>7, <2>1, <2>2, MoveType DEF FailRead, States, At
<1>8. ASSUME NEW c \in Clients, Send(c)
      PROVE  TypeOK'
  <2> DEFINE s == [state[c] EXCEPT !.pc = "wait"]
  <2>1. s \in States /\ s.pc = "wait" /\ s.seq = state[c].seq /\ s.conflicts = state[c].conflicts
    BY <1>0 DEF States
  <2>2. state' = [state EXCEPT ![c] = s]
    BY <1>0, <1>8 DEF Send
  <2>3. state[c].seq > 0
    BY <1>0, <1>8 DEF Send, Signed
  <2>4. state[c].seq \in Nat \ {0}
    BY <1>0, <2>3 DEF States
  <2>5. Envelope(c, state[c].seq) \in Envelopes
    BY <2>4, EnvelopeType
  <2>6. wire' \subseteq Wires
    <3>1. [envelope |-> Envelope(c, state[c].seq), awaited |-> TRUE] \in Wires
      BY <2>5 DEF Wires
    <3>2. QED BY <1>0, <1>8, <3>1 DEF Send
  <2> HIDE DEF s
  <2>7. QED BY <1>0, <1>8, <2>1, <2>2, <2>3, <2>6, MoveType DEF Send, At
<1>9. \A c \in Clients : LetGo(c) \subseteq Wires
  BY <1>0 DEF LetGo, Wires
<1>10. ASSUME NEW c \in Clients, FailSend(c)
       PROVE  TypeOK'
  <2> DEFINE s == [state[c] EXCEPT !.pc = "failed", !.failedAt = "send", !.answer = "none", !.lost = TRUE]
  <2>1. s \in States /\ s.pc = "failed" /\ s.failedAt = "send"
        /\ s.seq = state[c].seq /\ s.conflicts = state[c].conflicts
    BY <1>0 DEF States
  <2>2. state' = [state EXCEPT ![c] = s]
    BY <1>0, <1>10 DEF FailSend
  <2>3. state[c].seq > 0
    BY <1>0, <1>10 DEF FailSend, Signed
  <2> HIDE DEF s
  <2>4. QED BY <1>0, <1>6, <1>9, <1>10, <2>1, <2>2, <2>3, MoveType DEF FailSend, At
<1>11. ASSUME NEW c \in Clients, BreakOff(c)
       PROVE  TypeOK'
  <2> DEFINE lost == state[c].lost \/ At(c, "wait")
             x == [outcome |-> "failed", seq |-> state[c].seq, lost |-> lost]
  <2>1. lost \in BOOLEAN
    BY ResultType DEF Outcomes, At
  <2>2. x \in Results
    <3> HIDE DEF lost
    <3>1. QED BY <2>1, ResultType DEF Outcomes
  <2>3. ~At(c, "idle")
    BY <1>11 DEF BreakOff, At
  <2>4. /\ state' = [state EXCEPT ![c] = Idle] /\ UNCHANGED log
        /\ wire' = LetGo(c) /\ Failure
        /\ done' = [done EXCEPT ![c] = Append(@, x)]
    BY <1>11 DEF BreakOff
  <2> HIDE DEF x
  <2>5. QED BY <1>0, <1>6, <1>9, <2>2, <2>3, <2>4, EndType
<1>12. ASSUME NEW c \in Clients, Accepted(c)
       PROVE  TypeOK'
  BY <1>1, <1>12 DEF Accepted, At, Outcomes
<1>13. ASSUME NEW c \in Clients, Conflicted(c)
       PROVE  TypeOK'
  <2>1. CASE End(c, "no_position")
    BY <1>1, <1>13, <2>1 DEF Conflicted, At, Outcomes
  <2>2. CASE ~End(c, "no_position")
    <3> DEFINE s == Rereading(state[c], state[c].conflicts + 1, StillLate(c))
    <3>0. state[c].conflicts \in Nat /\ state[c].conflicts + 1 \in Nat
      BY <1>0 DEF States
    <3>1. s \in States /\ s.pc = "read" /\ s.conflicts = state[c].conflicts + 1
      <4> DEFINE n == state[c].conflicts + 1
      <4>1. state[c] \in States /\ StillLate(c) \in BOOLEAN /\ n \in Nat
        BY <1>0, <1>a, <3>0
      <4> HIDE DEF n
      <4>2. /\ Rereading(state[c], n, StillLate(c)) \in States
            /\ Rereading(state[c], n, StillLate(c)).pc = "read"
            /\ Rereading(state[c], n, StillLate(c)).conflicts = n
        BY <4>1, NewRequest
      <4>3. QED BY <4>2 DEF n
    <3>2. state' = [state EXCEPT ![c] = s] /\ UNCHANGED <<log, wire, done, failures>>
      BY <1>0, <1>13, <2>2 DEF Conflicted, Rereading
    <3>3. s.conflicts < Limit(c)
      BY <1>13, <2>2, <3>1 DEF Conflicted
    <3> HIDE DEF s
    <3>4. QED BY <1>0, <1>13, <3>1, <3>2, <3>3, MoveType DEF Conflicted, At
  <2>3. QED BY <2>1, <2>2
<1>14. ASSUME NEW c \in Clients, Retry(c)
       PROVE  TypeOK'
  <2>1. At(c, "failed") /\ ~At(c, "idle") /\ UNCHANGED <<log, wire, failures>>
    BY <1>14 DEF Retry, At
  <2>2. CASE state[c].late
    BY <1>1, <1>14, <2>1, <2>2 DEF Retry, Outcomes
  <2>3. CASE ~state[c].late /\ How(c) = "bounded"
    <3> DEFINE s == [state[c] EXCEPT !.pc = "read", !.failedAt = "none", !.conflicts = 0]
    <3>1. s \in States /\ s.pc = "read" /\ s.conflicts = 0
      BY <1>0 DEF States
    <3>2. state' = [state EXCEPT ![c] = s] /\ UNCHANGED done
      BY <1>0, <1>14, <2>3 DEF Retry
    <3> HIDE DEF s
    <3>3. QED BY <1>0, <2>1, <3>1, <3>2, MoveType
  <2>4. CASE ~state[c].late /\ How(c) # "bounded"
    <3> DEFINE s == [state[c] EXCEPT !.pc = state[c].failedAt, !.failedAt = "none"]
    <3>1. state[c].failedAt \in {"read", "send"}
      BY <1>0, <2>1 DEF States
    <3>2. s \in States /\ s.pc = state[c].failedAt /\ s.conflicts = state[c].conflicts
          /\ s.seq = state[c].seq
      BY <1>0, <3>1 DEF States
    <3>3. state' = [state EXCEPT ![c] = s] /\ UNCHANGED done
      BY <1>0, <1>14, <2>4 DEF Retry
    <3>4. s.pc = "send" => state[c].seq > 0
      BY <1>0, <2>1, <3>2 DEF Signed
    <3> HIDE DEF s
    <3>5. QED BY <1>0, <2>1, <3>1, <3>2, <3>3, <3>4, MoveType
  <2>5. QED BY <2>2, <2>3, <2>4
<1>15. ASSUME NEW r \in wire, Deliver(r)
       PROVE  TypeOK'
  <2>1. log' \in Seq(Envelopes)
    <3>1. r.envelope \in Envelopes
      BY <1>0 DEF Wires
    <3>2. CASE Lands(r.envelope)
      BY <1>0, <3>1, <3>2, AppendProperties DEF Lands, Session!Post
    <3>3. QED BY <1>0, <1>15, <3>2 DEF Deliver
  <2>2. wire' \subseteq Wires /\ UNCHANGED <<done, failures>>
    BY <1>0, <1>15 DEF Deliver
  <2>3. \A c \in Clients : /\ state'[c] \in States /\ state'[c].pc = state[c].pc
                           /\ state'[c].seq = state[c].seq /\ state'[c].failedAt = state[c].failedAt
                           /\ state'[c].conflicts = state[c].conflicts
    <3>1. CASE UNCHANGED state
      BY <1>0, <3>1
    <3>2. CASE \E a \in {"ok", "SEQ_CONFLICT"} : state' = [state EXCEPT ![r.envelope.client].answer = a]
      <4>1. PICK a \in {"ok", "SEQ_CONFLICT"} : state' = [state EXCEPT ![r.envelope.client].answer = a]
        BY <3>2
      <4>2. TAKE c \in Clients
      <4>3. state'[c] = state[c] \/ state'[c] = [state[c] EXCEPT !.answer = a]
        BY <1>0, <4>1
      <4>4. QED BY <1>0, <4>3 DEF States
    <3>3. QED BY <1>15, <3>1, <3>2 DEF Deliver
  <2>4. state' \in [Clients -> States]
    BY <1>0, <1>15, <2>3 DEF Deliver
  <2>5. QED BY <2>1, <2>2, <2>3, <2>4 DEF TypeOK, Signed, At, How, Wires
<1>16. CASE UNCHANGED vars
  BY <1>16 DEF vars, TypeOK, Signed, At, How
<1>17. QED
  BY <1>2, <1>3, <1>4, <1>5, <1>7, <1>8, <1>10, <1>11, <1>12, <1>13, <1>14, <1>15, <1>16
  DEF Next, Proceed

\* Types, no call past the end of its script, and never more conflicts than the
\* limit admits.
THEOREM ClientTypes == Spec => []TypeOK
<1>1. Init => TypeOK
  <2> SUFFICES ASSUME Init PROVE TypeOK
    OBVIOUS
  <2>1. Idle \in States /\ Idle.pc = "idle" /\ Idle.conflicts = 0
    BY DEF Idle, States
  <2>2. \A c \in Clients : state[c] = Idle /\ done[c] = <<>> /\ Len(done[c]) = 0
    BY DEF Init
  <2>3. \A c \in Clients : Script[c] \in Seq(Hows)
    BY ClientAssumption
  <2>4. \A c \in Clients : Len(Script[c]) \in Nat
    BY <2>3, LenProperties
  <2>5. state \in [Clients -> States] /\ done \in [Clients -> Seq(Results)]
    BY <2>1 DEF Init
  <2>6. QED BY <2>1, <2>2, <2>4, <2>5 DEF Init, TypeOK, Signed, At
<1>2. TypeOK /\ [Next]_vars => TypeOK'
  BY TypeStep
<1>3. QED BY <1>1, <1>2, PTL DEF Spec

----------------------------------------------------------------------------
(* The order of a client's messages, and claims                            *)

IsClaim(i, role) == log[i].kind = "role_claim" /\ log[i].role = role

\* A post on the wire, or one that will still be sent, has a number that is next
\* at most; what must not precede it has no lower number.
NumberInv ==
  /\ \A i \in DOMAIN log : log[i].call <= Len(done[log[i].client]) + 1
  /\ \A r \in wire :
       /\ r.envelope.seq <= Len(log) + 1
       /\ r.envelope.call <= Len(done[r.envelope.client]) + 1
       /\ \A i \in DOMAIN log :
            log[i].client = r.envelope.client /\ log[i].call > r.envelope.call =>
              i >= r.envelope.seq
       /\ r.envelope.kind = "role_claim" =>
            \A i \in DOMAIN log : IsClaim(i, r.envelope.role) => i >= r.envelope.seq
  /\ \A c \in Clients : Signed(c) =>
       /\ state[c].seq <= Len(log) + 1
       /\ How(c) = "claim" => \A i \in DOMAIN log : IsClaim(i, Role[c]) => i >= state[c].seq

\* The fields of messages in the log and of posts on the wire.
LEMMA MessageFields ==
  ASSUME TypeOK
  PROVE  /\ log \in Seq(Envelopes) /\ Len(log) \in Nat /\ DOMAIN log = 1 .. Len(log)
         /\ \A i \in DOMAIN log : log[i].client \in Clients /\ log[i].call \in Nat
         /\ \A r \in wire : /\ r.envelope \in Envelopes /\ r.envelope.client \in Clients
                            /\ r.envelope.call \in Nat /\ r.envelope.seq \in Nat
         /\ \A c \in Clients : Len(done[c]) \in Nat /\ state[c] \in States /\ state[c].seq \in Nat
<1>1. \A e \in Envelopes : e.client \in Clients /\ e.call \in Nat /\ e.seq \in Nat
  BY DEF Envelopes
<1>2. log \in Seq(Envelopes) /\ \A i \in DOMAIN log : log[i] \in Envelopes
  BY DEF TypeOK
<1>3. \A r \in wire : r.envelope \in Envelopes
  BY DEF TypeOK
<1>4. \A c \in Clients : Len(done[c]) \in Nat /\ state[c] \in States
  <2>1. \A c \in Clients : done[c] \in Seq(Results) /\ state[c] \in States
    BY DEF TypeOK
  <2>2. QED BY <2>1, LenProperties
<1>5. \A c \in Clients : state[c].seq \in Nat
  BY <1>4 DEF States
<1>6. QED BY <1>1, <1>2, <1>3, <1>4, <1>5

\* NumberInv survives a step that adds nothing to the log, puts nothing new on
\* the wire and signs nothing.
LEMMA QuietStep ==
  ASSUME TypeOK, NumberInv, UNCHANGED log,
         \A c \in Clients : Len(done[c]) <= Len(done'[c]) /\ Len(done'[c]) \in Nat,
         \A r \in wire' : \E q \in wire : r.envelope = q.envelope,
         \A c \in Clients : Signed(c)' =>
           Signed(c) /\ state'[c].seq = state[c].seq /\ (How(c)' = "claim" => How(c) = "claim")
  PROVE  NumberInv'
<1>1. \A i \in DOMAIN log : log[i].call <= Len(done'[log[i].client]) + 1
  BY MessageFields DEF NumberInv
<1>2. ASSUME NEW r \in wire'
      PROVE  /\ r.envelope.seq <= Len(log) + 1
             /\ r.envelope.call <= Len(done'[r.envelope.client]) + 1
             /\ \A i \in DOMAIN log :
                  log[i].client = r.envelope.client /\ log[i].call > r.envelope.call =>
                    i >= r.envelope.seq
             /\ r.envelope.kind = "role_claim" =>
                  \A i \in DOMAIN log : IsClaim(i, r.envelope.role) => i >= r.envelope.seq
  <2>1. PICK q \in wire : r.envelope = q.envelope
    BY <1>2
  <2>2. q.envelope.client \in Clients /\ q.envelope.call \in Nat
    BY MessageFields
  <2>3. Len(done[q.envelope.client]) <= Len(done'[q.envelope.client])
        /\ Len(done[q.envelope.client]) \in Nat /\ Len(done'[q.envelope.client]) \in Nat
    BY <2>2, MessageFields
  <2>4. q.envelope.call <= Len(done'[q.envelope.client]) + 1
    BY <2>2, <2>3 DEF NumberInv
  <2>5. QED BY <2>1, <2>4 DEF NumberInv
<1>3. \A c \in Clients : Signed(c)' =>
        /\ state'[c].seq <= Len(log) + 1
        /\ How(c)' = "claim" => \A i \in DOMAIN log : IsClaim(i, Role[c]) => i >= state'[c].seq
  BY DEF NumberInv
<1>4. QED BY <1>1, <1>2, <1>3 DEF NumberInv, IsClaim

\* Every step keeps NumberInv, the order and the claims.
LEMMA NumberStep ==
  ASSUME TypeOK, TypeOK', NumberInv, PostsInOrder, OneClaim, [Next]_vars
  PROVE  NumberInv' /\ PostsInOrder' /\ OneClaim'
<1>0. /\ \A c \in Clients : Len(done[c]) \in Nat /\ Len(done'[c]) \in Nat
      /\ state \in [Clients -> States] /\ done \in [Clients -> Seq(Results)]
  BY DEF TypeOK
<1>1. ASSUME UNCHANGED log, NumberInv'
      PROVE  NumberInv' /\ PostsInOrder' /\ OneClaim'
  BY <1>1 DEF PostsInOrder, OneClaim
\* A step of client c that leaves its message and the wire as they are.
<1>2. ASSUME NEW c \in Clients, UNCHANGED <<log, done>>,
             \A r \in wire' : \E q \in wire : r.envelope = q.envelope,
             \A d \in Clients : d # c => state'[d] = state[d],
             Signed(c)' => Signed(c) /\ state'[c].seq = state[c].seq
      PROVE  NumberInv' /\ PostsInOrder' /\ OneClaim'
  <2>1. \A d \in Clients : Signed(d)' =>
          Signed(d) /\ state'[d].seq = state[d].seq /\ (How(d)' = "claim" => How(d) = "claim")
    BY <1>2 DEF Signed, At, How
  <2>2. QED BY <1>0, <1>1, <1>2, <2>1, QuietStep
\* The call of client c ends.
<1>3. ASSUME NEW c \in Clients, state' = [state EXCEPT ![c] = Idle],
             NEW x, done' = [done EXCEPT ![c] = Append(@, x)], UNCHANGED log,
             \A r \in wire' : \E q \in wire : r.envelope = q.envelope
      PROVE  NumberInv' /\ PostsInOrder' /\ OneClaim'
  <2>1. ~Signed(c)'
    BY <1>0, <1>3 DEF Signed, At, Idle
  <2>2. \A d \in Clients : Signed(d)' =>
          Signed(d) /\ state'[d].seq = state[d].seq /\ (How(d)' = "claim" => How(d) = "claim")
    <3>1. \A d \in Clients : d # c => state'[d] = state[d] /\ done'[d] = done[d]
      BY <1>0, <1>3
    <3>2. QED BY <2>1, <3>1 DEF Signed, At, How
  <2>3. \A d \in Clients : Len(done[d]) <= Len(done'[d])
    <3>1. done'[c] = Append(done[c], x) /\ \A d \in Clients : d # c => done'[d] = done[d]
      BY <1>0, <1>3
    <3>2. Len(Append(done[c], x)) = Len(done[c]) + 1
      <4>1. done[c] \in Seq(Results)
        BY <1>0
      <4>2. QED BY <4>1
    <3>3. \A d \in Clients : Len(done[d]) \in Nat
      BY MessageFields
    <3>4. ASSUME NEW d \in Clients PROVE Len(done[d]) <= Len(done'[d])
      <4>1. CASE d = c
        <5>1. done'[d] = Append(done[c], x)
          BY <3>1, <4>1
        <5>2. QED BY <3>2, <3>3, <4>1, <5>1
      <4>2. CASE d # c
        <5>1. done'[d] = done[d]
          BY <3>1, <4>2
        <5>2. QED BY <3>3, <5>1
      <4>3. QED BY <4>1, <4>2
    <3>5. QED BY <3>4
  <2>4. QED BY <1>0, <1>1, <1>3, <2>2, <2>3, QuietStep
<1>4. ASSUME NEW c \in Clients, NEW outcome, End(c, outcome), UNCHANGED <<log, wire>>
      PROVE  NumberInv' /\ PostsInOrder' /\ OneClaim'
  BY <1>3, <1>4 DEF End
<1>5. ASSUME NEW c \in Clients, Begin(c) \/ Elapse(c) \/ FailRead(c)
      PROVE  NumberInv' /\ PostsInOrder' /\ OneClaim'
  <2>1. UNCHANGED <<log, wire, done>> /\ \A d \in Clients : d # c => state'[d] = state[d]
    BY <1>0, <1>5 DEF Begin, Elapse, FailRead
  <2>2. state[c] \in States
    BY <1>0
  <2>3. CASE Begin(c)
    <3>1. state'[c] = [state[c] EXCEPT !.pc = "read"]
      BY <1>0, <2>3 DEF Begin
    <3>2. state'[c].pc = "read"
      BY <2>2, <3>1 DEF States
    <3>3. QED BY <1>2, <2>1, <3>2 DEF Signed, At
  <2>4. CASE Elapse(c)
    <3>1. state'[c] = [state[c] EXCEPT !.late = TRUE]
      BY <1>0, <2>4 DEF Elapse
    <3>2. /\ state'[c].pc = state[c].pc /\ state'[c].seq = state[c].seq
          /\ state'[c].failedAt = state[c].failedAt
      BY <2>2, <3>1 DEF States
    <3>3. QED BY <1>2, <2>1, <3>2 DEF Signed, At
  <2>5. CASE FailRead(c)
    <3>1. state'[c] = [state[c] EXCEPT !.pc = "failed", !.failedAt = "read"]
      BY <1>0, <2>5 DEF FailRead
    <3>2. state'[c].pc = "failed" /\ state'[c].failedAt = "read"
      BY <2>2, <3>1 DEF States
    <3>3. QED BY <1>2, <2>1, <3>2 DEF Signed, At
  <2>6. QED BY <1>5, <2>3, <2>4, <2>5
<1>6. ASSUME NEW c \in Clients, Expire(c) \/ Accepted(c)
      PROVE  NumberInv' /\ PostsInOrder' /\ OneClaim'
  BY <1>4, <1>6 DEF Expire, Accepted
<1>7. ASSUME NEW c \in Clients, Read(c)
      PROVE  NumberInv' /\ PostsInOrder' /\ OneClaim'
  <2>1. CASE End(c, "bound")
    BY <1>4, <1>7, <2>1 DEF Read
  <2>2. CASE ~End(c, "bound")
    <3>1. /\ state' = [state EXCEPT ![c].pc = "send", ![c].seq = Len(log) + 1, ![c].late = StillLate(c)]
          /\ UNCHANGED <<log, wire, done>>
          /\ How(c) = "claim" => ~Claimed(c)
      BY <1>7, <2>2 DEF Read
    <3>2. state'[c].seq = Len(log) + 1 /\ \A d \in Clients : d # c => state'[d] = state[d]
      <4>1. state'[c] = Signing(state[c], Len(log) + 1, StillLate(c))
            /\ \A d \in Clients : d # c => state'[d] = state[d]
        BY <1>0, <3>1 DEF Signing
      <4>2. state[c] \in States
        BY <1>0
      <4>3. Signing(state[c], Len(log) + 1, StillLate(c)).seq = Len(log) + 1
        BY <4>2 DEF Signing, States
      <4>4. QED BY <4>1, <4>3
    <3>3. How(c) = "claim" => \A i \in DOMAIN log : ~IsClaim(i, Role[c])
      BY <3>1 DEF Claimed, IsClaim
    <3>4. \A d \in Clients : Signed(d)' =>
            /\ state'[d].seq <= Len(log) + 1
            /\ How(d)' = "claim" => \A i \in DOMAIN log : IsClaim(i, Role[d]) => i >= state'[d].seq
      <4>1. TAKE d \in Clients
      <4>2. CASE d = c
        BY <3>1, <3>2, <3>3, <4>2, MessageFields DEF How
      <4>3. CASE d # c
        BY <3>1, <3>2, <4>3 DEF NumberInv, Signed, At, How
      <4>4. QED BY <4>2, <4>3
    <3>5. NumberInv'
      BY <3>1, <3>4 DEF NumberInv, IsClaim
    <3>6. QED BY <1>1, <3>1, <3>5
  <2>3. QED BY <2>1, <2>2
<1>8. ASSUME NEW c \in Clients, Send(c)
      PROVE  NumberInv' /\ PostsInOrder' /\ OneClaim'
  <2> DEFINE e == Envelope(c, state[c].seq)
  <2>1. /\ UNCHANGED <<log, done>> /\ Signed(c) /\ state[c].seq > 0
        /\ wire' = wire \cup {[envelope |-> e, awaited |-> TRUE]}
    BY <1>8 DEF Send, Signed, TypeOK
  <2>2. /\ e.client = c /\ e.role = Role[c] /\ e.seq = state[c].seq
        /\ e.call = Len(done[c]) + 1 /\ (e.kind = "role_claim" => How(c) = "claim")
    <3>1. state[c].seq \in Nat \ {0}
      BY <2>1, MessageFields
    <3>2. QED BY <3>1, EnvelopeType
  <2> HIDE DEF e
  <2>3. /\ e.seq <= Len(log) + 1
        /\ e.call <= Len(done[e.client]) + 1
        /\ \A i \in DOMAIN log : log[i].client = e.client /\ log[i].call > e.call => i >= e.seq
        /\ e.kind = "role_claim" => \A i \in DOMAIN log : IsClaim(i, e.role) => i >= e.seq
    BY <1>0, <2>1, <2>2, MessageFields DEF NumberInv
  <2>4. \A d \in Clients : Signed(d)' => Signed(d) /\ state'[d].seq = state[d].seq
    <3>1. \A d \in Clients : d # c => state'[d] = state[d]
      BY <1>0, <1>8 DEF Send
    <3>2. state'[c].seq = state[c].seq
      <4>1. state'[c] = [state[c] EXCEPT !.pc = "wait"] /\ state[c] \in States
        BY <1>0, <1>8 DEF Send
      <4>2. QED BY <4>1 DEF States
    <3>3. QED BY <2>1, <3>1, <3>2 DEF Signed, At
  <2>5. \A d \in Clients : How(d)' = How(d)
    BY <2>1 DEF How
  <2>6. \A r \in wire' : r \in wire \/ r.envelope = e
    BY <2>1
  <2>7. NumberInv'
    BY <2>1, <2>3, <2>4, <2>5, <2>6 DEF NumberInv, IsClaim
  <2>8. QED BY <1>1, <2>1, <2>7
<1>9. ASSUME NEW c \in Clients
      PROVE  \A r \in LetGo(c) : \E q \in wire : r.envelope = q.envelope
  <2>1. SUFFICES ASSUME NEW q \in wire
                 PROVE  [q EXCEPT !.awaited = FALSE].envelope = q.envelope
    BY DEF LetGo
  <2>2. q \in Wires
    BY DEF TypeOK, Wires
  <2>3. QED BY <2>2 DEF Wires
<1>10. ASSUME NEW c \in Clients, FailSend(c) \/ BreakOff(c)
       PROVE  NumberInv' /\ PostsInOrder' /\ OneClaim'
  <2>1. CASE BreakOff(c)
    BY <1>3, <1>9, <2>1 DEF BreakOff
  <2>2. CASE FailSend(c)
    <3>1. state'[c] = [state[c] EXCEPT !.pc = "failed", !.failedAt = "send", !.answer = "none", !.lost = TRUE]
          /\ state[c] \in States /\ \A d \in Clients : d # c => state'[d] = state[d]
      BY <1>0, <2>2 DEF FailSend
    <3>2. state'[c].seq = state[c].seq
      BY <3>1 DEF States
    <3>3. Signed(c)
      BY <2>2 DEF FailSend, Signed
    <3>4. QED BY <1>2, <1>9, <2>2, <3>1, <3>2, <3>3 DEF FailSend
  <2>3. QED BY <1>10, <2>1, <2>2
<1>11. ASSUME NEW c \in Clients, Conflicted(c)
       PROVE  NumberInv' /\ PostsInOrder' /\ OneClaim'
  <2>1. CASE End(c, "no_position")
    BY <1>4, <1>11, <2>1 DEF Conflicted
  <2>2. CASE ~End(c, "no_position")
    <3>1. state'[c] = Rereading(state[c], state[c].conflicts + 1, StillLate(c))
          /\ state[c] \in States /\ \A d \in Clients : d # c => state'[d] = state[d]
      BY <1>0, <1>11, <2>2 DEF Conflicted, Rereading
    <3>2. state'[c].pc = "read"
      BY <3>1 DEF States, Rereading
    <3>3. ~Signed(c)'
      BY <3>2 DEF Signed, At
    <3>4. QED BY <1>2, <1>11, <2>2, <3>1, <3>3 DEF Conflicted
  <2>3. QED BY <2>1, <2>2
<1>12. ASSUME NEW c \in Clients, Retry(c)
       PROVE  NumberInv' /\ PostsInOrder' /\ OneClaim'
  <2>1. At(c, "failed") /\ UNCHANGED <<log, wire>> /\ state[c] \in States
    BY <1>0, <1>12 DEF Retry
  <2>2. CASE state[c].late
    BY <1>4, <1>12, <2>1, <2>2 DEF Retry
  <2>3. CASE ~state[c].late /\ How(c) = "bounded"
    <3>1. state'[c] = [state[c] EXCEPT !.pc = "read", !.failedAt = "none", !.conflicts = 0]
          /\ UNCHANGED done /\ \A d \in Clients : d # c => state'[d] = state[d]
      BY <1>0, <1>12, <2>3 DEF Retry
    <3>2. state'[c].pc = "read"
      BY <2>1, <3>1 DEF States
    <3>3. QED BY <1>2, <2>1, <3>1, <3>2 DEF Signed, At
  <2>4. CASE ~state[c].late /\ How(c) # "bounded"
    <3>1. state'[c] = [state[c] EXCEPT !.pc = state[c].failedAt, !.failedAt = "none"]
          /\ UNCHANGED done /\ \A d \in Clients : d # c => state'[d] = state[d]
      BY <1>0, <1>12, <2>4 DEF Retry
    <3>2. /\ state'[c].pc = state[c].failedAt /\ state'[c].failedAt = "none"
          /\ state'[c].seq = state[c].seq
      BY <2>1, <3>1 DEF States
    <3>3. state[c].failedAt \in {"none", "read", "send"}
      BY <2>1 DEF States
    <3>4. Signed(c)' => Signed(c)
      BY <2>1, <3>2, <3>3 DEF Signed, At
    <3>5. QED BY <1>2, <2>1, <3>1, <3>2, <3>4
  <2>5. QED BY <2>2, <2>3, <2>4
<1>13. ASSUME NEW r \in wire, Deliver(r)
       PROVE  NumberInv' /\ PostsInOrder' /\ OneClaim'
  <2>1. /\ wire' = wire \ {r} /\ UNCHANGED done
        /\ \A c \in Clients : How(c)' = How(c)
    BY <1>13 DEF Deliver, How
  <2>2. \A c \in Clients : (Signed(c)' <=> Signed(c)) /\ state'[c].seq = state[c].seq
    <3>1. SUFFICES ASSUME NEW c \in Clients
                   PROVE  /\ state'[c].pc = state[c].pc /\ state'[c].seq = state[c].seq
                          /\ state'[c].failedAt = state[c].failedAt
      BY DEF Signed, At
    <3>2. state'[c] = state[c] \/ \E a : state'[c] = [state[c] EXCEPT !.answer = a]
      BY <1>0, <1>13 DEF Deliver
    <3>3. state[c] \in States
      BY <1>0
    <3>4. QED BY <3>2, <3>3 DEF States
  <2>3. CASE UNCHANGED log
    <3>1. NumberInv'
      BY <1>0, <2>1, <2>2, <2>3, QuietStep
    <3>2. QED BY <1>1, <2>3, <3>1
  <2>4. CASE Lands(r.envelope)
    <3> DEFINE n == Len(log) + 1
               e == r.envelope
    <3>1. /\ e.seq = n /\ log' = Append(log, e) /\ e \in Envelopes /\ n \in Nat
          /\ e.client \in Clients /\ e.call \in Nat
      BY <2>4, MessageFields DEF Lands, Session!Post
    <3>2. /\ DOMAIN log = 1 .. Len(log) /\ DOMAIN log' = 1 .. n /\ Len(log') = n
          /\ log'[n] = e /\ \A i \in DOMAIN log : log'[i] = log[i]
      BY <3>1, MessageFields, AppendProperties
    <3>3. \A i \in DOMAIN log :
            /\ i \in Int /\ i < n
            /\ (log[i].client = e.client => log[i].call <= e.call)
            /\ (e.kind = "role_claim" => ~IsClaim(i, e.role))
      BY <3>1, <3>2, MessageFields DEF NumberInv
    <3>4. \A i \in DOMAIN log' : i = n \/ i \in DOMAIN log
      BY <3>1, <3>2, MessageFields
    <3> HIDE DEF n, e
    <3>5. PostsInOrder'
      <4>1. SUFFICES ASSUME NEW i \in DOMAIN log', NEW j \in DOMAIN log', i < j,
                            log'[i].client = log'[j].client
                     PROVE  log'[i].call <= log'[j].call
        BY DEF PostsInOrder
      <4>2. i \in DOMAIN log
        BY <3>1, <3>2, <3>3, <3>4, <4>1
      <4>3. CASE j = n
        BY <3>2, <3>3, <4>1, <4>2, <4>3
      <4>4. CASE j \in DOMAIN log
        BY <3>2, <4>1, <4>2, <4>4 DEF PostsInOrder
      <4>5. QED BY <3>4, <4>3, <4>4
    <3>6. OneClaim'
      <4>1. SUFFICES ASSUME NEW i \in DOMAIN log', NEW j \in DOMAIN log',
                            log'[i].kind = "role_claim", log'[j].kind = "role_claim",
                            log'[i].role = log'[j].role
                     PROVE  i = j
        BY DEF OneClaim
      <4>2. \A k \in DOMAIN log : ~(log[k].kind = "role_claim" /\ e.kind = "role_claim"
                                     /\ log[k].role = e.role)
        BY <3>3 DEF IsClaim
      <4>3. CASE i \in DOMAIN log /\ j \in DOMAIN log
        BY <3>2, <4>1, <4>3 DEF OneClaim
      <4>4. CASE i = n /\ j \in DOMAIN log
        BY <3>2, <4>1, <4>2, <4>4
      <4>5. CASE i \in DOMAIN log /\ j = n
        BY <3>2, <4>1, <4>2, <4>5
      <4>6. QED BY <3>4, <4>3, <4>4, <4>5
    <3>7. \A i \in DOMAIN log' : log'[i].call <= Len(done'[log'[i].client]) + 1
      BY <2>1, <3>2, <3>4 DEF NumberInv, e
    <3>8. ASSUME NEW q \in wire'
          PROVE  /\ q.envelope.seq <= Len(log') + 1
                 /\ q.envelope.call <= Len(done'[q.envelope.client]) + 1
                 /\ \A i \in DOMAIN log' :
                      log'[i].client = q.envelope.client /\ log'[i].call > q.envelope.call =>
                        i >= q.envelope.seq
                 /\ q.envelope.kind = "role_claim" =>
                      \A i \in DOMAIN log' : IsClaim(i, q.envelope.role)' => i >= q.envelope.seq
      <4>1. q \in wire /\ q.envelope.seq \in Nat /\ q.envelope.seq <= n
        BY <2>1, MessageFields DEF NumberInv, n
      <4>2. q.envelope.seq <= Len(log') + 1
        BY <3>1, <3>2, <4>1
      <4>3. n >= q.envelope.seq
        BY <3>1, <4>1
      <4>4. QED BY <2>1, <3>2, <3>4, <4>1, <4>2, <4>3 DEF NumberInv, IsClaim
    <3>9. \A c \in Clients : Signed(c)' =>
            /\ state'[c].seq <= Len(log') + 1
            /\ How(c)' = "claim" => \A i \in DOMAIN log' : IsClaim(i, Role[c])' => i >= state'[c].seq
      <4>1. SUFFICES ASSUME NEW c \in Clients, Signed(c)'
                     PROVE  /\ state'[c].seq <= Len(log') + 1
                            /\ How(c)' = "claim" =>
                                 \A i \in DOMAIN log' : IsClaim(i, Role[c])' => i >= state'[c].seq
        OBVIOUS
      <4>2. /\ state'[c].seq = state[c].seq /\ state[c].seq \in Nat /\ state[c].seq <= n
            /\ How(c)' = How(c)
            /\ How(c) = "claim" => \A i \in DOMAIN log : IsClaim(i, Role[c]) => i >= state[c].seq
        BY <2>1, <2>2, <4>1, MessageFields DEF NumberInv, n
      <4>3. n >= state[c].seq /\ state[c].seq <= Len(log') + 1
        BY <3>1, <3>2, <4>2
      <4>4. QED BY <3>2, <3>4, <4>2, <4>3 DEF IsClaim
    <3>10. NumberInv'
      BY <3>7, <3>8, <3>9 DEF NumberInv
    <3>11. QED BY <3>5, <3>6, <3>10
  <2>5. QED BY <1>13, <2>3, <2>4 DEF Deliver
<1>14. CASE UNCHANGED vars
  BY <1>14 DEF vars, NumberInv, IsClaim, PostsInOrder, OneClaim, Signed, At, How
<1>15. QED
  BY <1>5, <1>6, <1>7, <1>8, <1>10, <1>11, <1>12, <1>13, <1>14 DEF Next, Proceed

\* NumberInv holds together with the two properties it is there for.
LEMMA NumbersOrderClaims == Spec => [](NumberInv /\ PostsInOrder /\ OneClaim)
<1>1. Init => NumberInv /\ PostsInOrder /\ OneClaim
  <2> SUFFICES ASSUME Init PROVE NumberInv /\ PostsInOrder /\ OneClaim
    OBVIOUS
  <2>1. DOMAIN log = {} /\ wire = {} /\ \A c \in Clients : ~Signed(c)
    BY DEF Init, Signed, At, Idle
  <2>2. QED BY <2>1 DEF NumberInv, PostsInOrder, OneClaim
<1>2. TypeOK /\ TypeOK' /\ NumberInv /\ PostsInOrder /\ OneClaim /\ [Next]_vars
      => NumberInv' /\ PostsInOrder' /\ OneClaim'
  BY NumberStep
<1>3. QED BY <1>1, <1>2, ClientTypes, PTL DEF Spec

\* A late arrival of an abandoned post never overtakes a newer post of its client.
THEOREM PostsKeepOrder == Spec => []PostsInOrder
BY NumbersOrderClaims, PTL

\* However many clients race for a role and however often their claims are sent,
\* the log holds at most one claim of it.
THEOREM RoleClaimedOnce == Spec => []OneClaim
BY NumbersOrderClaims, PTL

----------------------------------------------------------------------------
(* What a call whose answers all came reports                              *)

\* What is under way of a client, and of its k-th call; what is in the log of it.
Posts(c)     == {r \in wire : r.envelope.client = c}
Sent(c, k)   == {r \in Posts(c) : r.envelope.call = k}
Logged(c, k) == {i \in DOMAIN log : Of(log[i], c, k)}

\* The request a client waits for.
Own(c) == [envelope |-> Envelope(c, state[c].seq), awaited |-> TRUE]
Unanswered(c) == At(c, "wait") /\ state[c].answer = "none"

\* An answer is held only while it is waited for, and a request that failed may
\* have arrived; a request anyone waits for is the client's present one; a call
\* that lost no answer has under way nothing but the request it waits for, and in
\* the log nothing but the message it was told is there; a finished one has
\* nothing under way, and in the log what it reports.
Honest(c) ==
  /\ At(c, "wait") \/ state[c].answer = "none"
  /\ At(c, "idle") => ~state[c].lost
  /\ At(c, "failed") /\ state[c].failedAt = "send" => state[c].lost
  /\ \A r \in Posts(c) : r.awaited => Unanswered(c) /\ r = Own(c)
  /\ ~state[c].lost =>
       /\ \A r \in Sent(c, Len(done[c]) + 1) : Unanswered(c) /\ r = Own(c)
       /\ Logged(c, Len(done[c]) + 1) = IF state[c].answer = "ok" THEN {state[c].seq} ELSE {}
  /\ \A k \in DOMAIN done[c] : ~done[c][k].lost =>
       /\ Sent(c, k) = {}
       /\ Logged(c, k) = IF done[c][k].outcome = "ok" THEN {done[c][k].seq} ELSE {}

HonestInv == \A c \in Clients : Honest(c)

\* No message is of a later call than the present one.
LEMMA NoLaterCall ==
  ASSUME TypeOK, NumberInv, NEW c \in Clients, NEW k \in Nat, k > Len(done[c]) + 1
  PROVE  Sent(c, k) = {} /\ Logged(c, k) = {}
<1>1. Len(done[c]) \in Nat
  BY MessageFields
<1>2. \A r \in wire : r.envelope.client = c => r.envelope.call <= Len(done[c]) + 1
  BY DEF NumberInv
<1>3. \A i \in DOMAIN log : log[i].client = c => log[i].call <= Len(done[c]) + 1
  BY DEF NumberInv
<1>4. QED BY <1>1, <1>2, <1>3 DEF Sent, Posts, Logged, Of

\* A client to which nothing happens, or only time passes.
LEMMA Elsewhere ==
  ASSUME NEW c \in Clients, Honest(c), done'[c] = done[c],
         state'[c].pc = state[c].pc, state'[c].seq = state[c].seq,
         state'[c].answer = state[c].answer, state'[c].failedAt = state[c].failedAt,
         state'[c].lost = state[c].lost,
         Posts(c)' = Posts(c), \A k : Logged(c, k)' = Logged(c, k)
  PROVE  Honest(c)'
<1>1. Own(c)' = Own(c) /\ (Unanswered(c)' <=> Unanswered(c))
  BY DEF Own, Envelope, How, Unanswered, At
<1>2. \A k : Sent(c, k)' = Sent(c, k)
  BY DEF Sent
<1>3. QED BY <1>1, <1>2 DEF Honest, At

\* A client that waits for nothing goes on with its call.
LEMMA GoesOn ==
  ASSUME NEW c \in Clients, Honest(c), UNCHANGED <<log, wire>>, done'[c] = done[c],
         ~Unanswered(c), state[c].answer # "ok",
         state'[c].answer = "none", state'[c].lost = state[c].lost,
         ~At(c, "idle")', At(c, "failed")' /\ state'[c].failedAt = "send" => state[c].lost
  PROVE  Honest(c)'
<1>1. \A r \in Posts(c) : ~r.awaited
  BY DEF Honest
<1>2. ~state[c].lost => Sent(c, Len(done[c]) + 1) = {} /\ Logged(c, Len(done[c]) + 1) = {}
  BY DEF Honest
<1>3. Posts(c)' = Posts(c) /\ \A k : Logged(c, k)' = Logged(c, k) /\ Sent(c, k)' = Sent(c, k)
  BY DEF Posts, Logged, Sent
<1>4. QED BY <1>1, <1>2, <1>3 DEF Honest

\* A client's call ends with a result that is true unless something was lost.
LEMMA CallEnds ==
  ASSUME TypeOK, NumberInv, NEW c \in Clients, Honest(c), UNCHANGED log,
         NEW x, done'[c] = Append(done[c], x), state'[c] = Idle,
         \A r \in Posts(c)' : ~r.awaited,
         \A k : Sent(c, k) = {} => Sent(c, k)' = {},
         ~x.lost => /\ ~state[c].lost /\ ~Unanswered(c)
                    /\ IF x.outcome = "ok" THEN state[c].answer = "ok" /\ x.seq = state[c].seq
                       ELSE state[c].answer # "ok"
  PROVE  Honest(c)'
<1>0. PICK n : n = Len(done[c])
  OBVIOUS
<1>1. n \in Nat /\ done[c] \in Seq(Results)
  BY <1>0 DEF TypeOK
<1>2. /\ Len(done'[c]) = n + 1 /\ done'[c][n + 1] = x
      /\ DOMAIN done[c] = 1 .. n /\ DOMAIN done'[c] = 1 .. (n + 1)
      /\ \A k \in 1 .. n : done'[c][k] = done[c][k]
  BY <1>0, <1>1
<1>3. \A k : Logged(c, k)' = Logged(c, k)
  BY DEF Logged
<1>4. Sent(c, n + 2)' = {} /\ Logged(c, n + 2)' = {}
  <2>1. Sent(c, n + 2) = {} /\ Logged(c, n + 2) = {}
    BY <1>0, <1>1, NoLaterCall
  <2>2. QED BY <2>1, <1>3
<1>5. ~x.lost => /\ Sent(c, n + 1)' = {}
                 /\ Logged(c, n + 1)' = IF x.outcome = "ok" THEN {x.seq} ELSE {}
  <2>1. ASSUME ~x.lost PROVE Sent(c, n + 1) = {}
    BY <1>0, <2>1 DEF Honest
  <2>2. ASSUME ~x.lost PROVE Logged(c, n + 1) = IF x.outcome = "ok" THEN {x.seq} ELSE {}
    BY <1>0, <2>2 DEF Honest
  <2>3. QED BY <1>3, <2>1, <2>2
<1>6. /\ ~At(c, "wait")' /\ At(c, "idle")' /\ ~At(c, "failed")'
      /\ state'[c].answer = "none" /\ ~state'[c].lost
  BY DEF Idle, At
<1>7. \A k \in 1 .. n : ~done'[c][k].lost =>
        /\ Sent(c, k)' = {}
        /\ Logged(c, k)' = IF done'[c][k].outcome = "ok" THEN {done'[c][k].seq} ELSE {}
  BY <1>0, <1>2, <1>3 DEF Honest
<1>8. \A k \in DOMAIN done'[c] : k \in 1 .. n \/ k = n + 1
  BY <1>1, <1>2
<1>9. Len(done'[c]) + 1 = n + 2
  BY <1>1, <1>2
<1>10. \A k \in DOMAIN done'[c] : ~done'[c][k].lost =>
        /\ Sent(c, k)' = {}
        /\ Logged(c, k)' = IF done'[c][k].outcome = "ok" THEN {done'[c][k].seq} ELSE {}
  BY <1>2, <1>5, <1>7, <1>8
<1>11. QED BY <1>4, <1>6, <1>9, <1>10 DEF Honest

\* What the relay's append adds to a call's messages.
LEMMA LoggedAppend ==
  ASSUME TypeOK, NEW m \in Envelopes, log' = Append(log, m), NEW c, NEW k
  PROVE  Logged(c, k)' = IF Of(m, c, k) THEN Logged(c, k) \cup {Len(log) + 1} ELSE Logged(c, k)
<1>1. /\ DOMAIN log = 1 .. Len(log) /\ Len(log) \in Nat
      /\ DOMAIN log' = 1 .. (Len(log) + 1) /\ log'[Len(log) + 1] = m
      /\ \A i \in 1 .. Len(log) : log'[i] = log[i]
  BY AppendProperties DEF TypeOK
<1>2. \A i : i \in 1 .. (Len(log) + 1) <=> i \in 1 .. Len(log) \/ i = Len(log) + 1
  BY <1>1
<1>3. QED BY <1>1, <1>2 DEF Logged, Of

\* A post of one client arrives, or is turned away.
LEMMA Arrives ==
  ASSUME TypeOK, HonestInv, NEW r \in wire, Deliver(r), NEW c \in Clients
  PROVE  Honest(c)'
<1>1. PICK m : m = r.envelope
  OBVIOUS
<1>2. /\ m \in Envelopes /\ m.client \in Clients /\ state \in [Clients -> States]
      /\ state[c] \in States
  BY <1>1, MessageFields DEF TypeOK
<1>3. /\ done' = done /\ wire' = wire \ {r}
      /\ \/ m.seq = Len(log) + 1 /\ log' = Append(log, m)
         \/ m.seq # Len(log) + 1 /\ log' = log
  BY <1>1 DEF Deliver, Lands, Session!Post
<1>4. \A k : ~Of(m, c, k) => Logged(c, k)' = Logged(c, k)
  <2>1. CASE log' = Append(log, m)
    BY <1>2, <2>1, LoggedAppend
  <2>2. CASE log' = log
    BY <2>2 DEF Logged
  <2>3. QED BY <1>3, <2>1, <2>2
<1>5. CASE m.client # c
  <2>1. Posts(c)' = Posts(c) /\ \A k : Logged(c, k)' = Logged(c, k)
    BY <1>1, <1>3, <1>4, <1>5 DEF Posts, Of
  <2>2. state'[c] = state[c]
    BY <1>1, <1>2, <1>5 DEF Deliver
  <2>3. QED BY <1>3, <2>1, <2>2, Elsewhere DEF HonestInv
<1>6. CASE m.client = c
  <2>0. /\ Honest(c) /\ r \in Posts(c) /\ Posts(c)' = Posts(c) \ {r}
        /\ \A k : Sent(c, k)' = Sent(c, k) \ {r}
        /\ r \in Sent(c, m.call) /\ done'[c] = done[c] /\ Len(done[c]) \in Nat
        /\ DOMAIN done[c] = 1 .. Len(done[c])
    <3>1. Posts(c)' = Posts(c) \ {r} /\ r \in Posts(c)
      BY <1>1, <1>3, <1>6 DEF Posts
    <3>2. done[c] \in Seq(Results)
      BY DEF TypeOK
    <3>3. QED BY <1>1, <1>3, <3>1, <3>2 DEF Sent, HonestInv
  <2>1. CASE r.awaited
    <3>1. Unanswered(c) /\ r = Own(c)
      BY <2>0, <2>1 DEF Honest
    <3>2. m.seq = state[c].seq /\ m.call = Len(done[c]) + 1
      BY <1>1, <3>1 DEF Own, Envelope
    <3>3. \E a \in {"ok", "SEQ_CONFLICT"} :
            /\ state'[c] = [state[c] EXCEPT !.answer = a]
            /\ a = "ok" => m.seq = Len(log) + 1 /\ log' = Append(log, m)
            /\ a # "ok" => log' = log
      BY <1>1, <1>2, <1>6, <2>1 DEF Deliver, Lands, Session!Post
    <3>4. PICK a \in {"ok", "SEQ_CONFLICT"} :
            /\ state'[c] = [state[c] EXCEPT !.answer = a]
            /\ a = "ok" => m.seq = Len(log) + 1 /\ log' = Append(log, m)
            /\ a # "ok" => log' = log
      BY <3>3
    <3>5. /\ state'[c].pc = "wait" /\ state'[c].answer = a /\ state'[c].seq = state[c].seq
          /\ state'[c].lost = state[c].lost
      BY <1>2, <3>1, <3>4 DEF States, Unanswered, At
    <3>6. \A q \in Posts(c)' : ~q.awaited
      BY <2>0, <3>1 DEF Honest
    <3>7. PICK n : n = Len(done[c]) + 1
      OBVIOUS
    <3>8. \A k \in DOMAIN done[c] : ~Of(m, c, k)
      BY <2>0, <3>2 DEF Of
    <3>9. Of(m, c, n)
      BY <1>6, <3>2, <3>7 DEF Of
    <3>10. ~state[c].lost => /\ Sent(c, n)' = {}
                             /\ Logged(c, n)' = IF a = "ok" THEN {state[c].seq} ELSE {}
      <4>1. ASSUME ~state[c].lost
            PROVE  Logged(c, n) = {} /\ \A q \in Sent(c, n) : q = r
        BY <2>0, <3>1, <3>7, <4>1 DEF Honest, Unanswered
      <4>2. CASE a = "ok"
        BY <1>2, <2>0, <3>2, <3>4, <3>9, <4>1, <4>2, LoggedAppend
      <4>3. CASE a # "ok"
        <5>1. Logged(c, n)' = Logged(c, n)
          BY <3>4, <4>3 DEF Logged
        <5>2. QED BY <2>0, <4>1, <4>3, <5>1
      <4>4. QED BY <4>2, <4>3
    <3>11. \A k \in DOMAIN done'[c] : ~done'[c][k].lost =>
            /\ Sent(c, k)' = {}
            /\ Logged(c, k)' = IF done'[c][k].outcome = "ok" THEN {done'[c][k].seq} ELSE {}
      BY <1>4, <2>0, <3>8 DEF Honest
    <3>12. /\ At(c, "wait")' /\ ~At(c, "idle")' /\ ~At(c, "failed")'
           /\ Len(done'[c]) + 1 = n
      BY <2>0, <3>5, <3>7 DEF At
    <3>13. QED BY <3>5, <3>6, <3>10, <3>11, <3>12 DEF Honest
  <2>2. CASE ~r.awaited
    <3>1. state'[c] = state[c]
      BY <1>1, <1>6, <2>2 DEF Deliver
    <3>2. PICK n : n = Len(done[c]) + 1
      OBVIOUS
    <3>3. ~state[c].lost => ~Of(m, c, n)
      <4>1. ASSUME ~state[c].lost, m.call = n PROVE FALSE
        <5>1. r = Own(c)
          BY <2>0, <3>2, <4>1 DEF Honest
        <5>2. QED BY <2>2, <5>1 DEF Own
      <4>2. QED BY <4>1 DEF Of
    <3>4. \A k \in DOMAIN done[c] : ~done[c][k].lost => ~Of(m, c, k)
      BY <2>0 DEF Honest, Of
    <3>5. Own(c)' = Own(c) /\ (Unanswered(c)' <=> Unanswered(c))
      BY <2>0, <3>1 DEF Own, Envelope, How, Unanswered, At
    <3>6. ~state[c].lost =>
            /\ \A q \in Sent(c, n)' : Unanswered(c) /\ q = Own(c)
            /\ Logged(c, n)' = IF state[c].answer = "ok" THEN {state[c].seq} ELSE {}
      BY <1>4, <2>0, <3>2, <3>3 DEF Honest
    <3>7. \A k \in DOMAIN done'[c] : ~done'[c][k].lost =>
            /\ Sent(c, k)' = {}
            /\ Logged(c, k)' = IF done'[c][k].outcome = "ok" THEN {done'[c][k].seq} ELSE {}
      BY <1>4, <2>0, <3>4 DEF Honest
    <3>8. \A q \in Posts(c)' : q.awaited => Unanswered(c)' /\ q = Own(c)'
      BY <2>0, <3>5 DEF Honest
    <3>9. Len(done'[c]) + 1 = n
      BY <2>0, <3>2
    <3>10. /\ At(c, "wait")' \/ state'[c].answer = "none"
           /\ At(c, "idle")' => ~state'[c].lost
           /\ At(c, "failed")' /\ state'[c].failedAt = "send" => state'[c].lost
      BY <2>0, <3>1 DEF Honest, At
    <3>11. QED BY <3>1, <3>5, <3>6, <3>7, <3>8, <3>9, <3>10 DEF Honest
  <2>3. QED BY <2>1, <2>2
<1>7. QED BY <1>5, <1>6

\* Letting go of a client's requests leaves them on the wire, awaited by nobody,
\* and the others' as they are.
LEMMA LetsGo ==
  ASSUME TypeOK, NEW c \in Clients, wire' = LetGo(c)
  PROVE  /\ \A r \in Posts(c)' : ~r.awaited
         /\ \A k : Sent(c, k) = {} => Sent(c, k)' = {}
         /\ \A d \in Clients : d # c => Posts(d)' = Posts(d)
<1>1. \A r \in wire : /\ [r EXCEPT !.awaited = FALSE].envelope = r.envelope
                      /\ [r EXCEPT !.awaited = FALSE].awaited = FALSE
  BY DEF TypeOK
<1>2. \A r \in Posts(c)' : ~r.awaited /\ \E q \in Posts(c) : r.envelope = q.envelope
  <2>1. SUFFICES ASSUME NEW r \in LetGo(c), r.envelope.client = c
                 PROVE  ~r.awaited /\ \E q \in Posts(c) : r.envelope = q.envelope
    BY DEF Posts
  <2>2. PICK q \in wire : r = IF q.envelope.client = c THEN [q EXCEPT !.awaited = FALSE] ELSE q
    BY DEF LetGo
  <2>3. q.envelope.client = c
    BY <1>1, <2>1, <2>2
  <2>4. QED BY <1>1, <2>2, <2>3 DEF Posts
<1>3. ASSUME NEW d \in Clients, d # c PROVE Posts(d)' = Posts(d)
  <2>1. \A r \in LetGo(c) : r.envelope.client = d => r \in wire
    BY <1>1, <1>3 DEF LetGo
  <2>2. \A r \in wire : r.envelope.client = d => r \in LetGo(c)
    BY <1>1, <1>3 DEF LetGo
  <2>3. QED BY <2>1, <2>2 DEF Posts
<1>4. \A k : Sent(c, k) = {} => Sent(c, k)' = {}
  BY <1>2 DEF Sent
<1>5. QED BY <1>2, <1>3, <1>4

\* Every step keeps HonestInv.
LEMMA HonestStep ==
  ASSUME TypeOK, NumberInv, HonestInv, [Next]_vars
  PROVE  HonestInv'
<1>0. /\ state \in [Clients -> States] /\ done \in [Clients -> Seq(Results)]
      /\ \A c \in Clients : state[c] \in States /\ Honest(c)
  BY DEF TypeOK, HonestInv
\* What a step of client c means for the others.
<1>1. ASSUME NEW c \in Clients, UNCHANGED log, \A d \in Clients : d # c => Posts(d)' = Posts(d),
             \A d \in Clients : d # c => state'[d] = state[d] /\ done'[d] = done[d], Honest(c)'
      PROVE  HonestInv'
  <2>1. \A d \in Clients : \A k : Logged(d, k)' = Logged(d, k)
    BY <1>1 DEF Logged
  <2>2. ASSUME NEW d \in Clients, d # c PROVE Honest(d)'
    BY <1>0, <1>1, <2>1, <2>2, Elsewhere
  <2>3. QED BY <1>1, <2>2 DEF HonestInv
<1>2. ASSUME NEW c \in Clients, UNCHANGED <<log, wire>>,
             \A d \in Clients : d # c => state'[d] = state[d] /\ done'[d] = done[d], Honest(c)'
      PROVE  HonestInv'
  BY <1>1, <1>2 DEF Posts
<1>3. ASSUME NEW c \in Clients, NEW outcome, End(c, outcome), UNCHANGED <<log, wire>>,
             ~Unanswered(c), ~At(c, "idle"),
             outcome = "ok" <=> state[c].answer = "ok"
      PROVE  HonestInv'
  <2> DEFINE x == [outcome |-> outcome, seq |-> state[c].seq, lost |-> state[c].lost]
  <2>1. /\ done'[c] = Append(done[c], x) /\ state'[c] = Idle
        /\ \A d \in Clients : d # c => state'[d] = state[d] /\ done'[d] = done[d]
    BY <1>0, <1>3 DEF End
  <2>2. x.outcome = outcome /\ x.seq = state[c].seq /\ x.lost = state[c].lost
    OBVIOUS
  <2>3. Posts(c)' = Posts(c) /\ \A k : Sent(c, k)' = Sent(c, k)
    BY <1>3 DEF Posts, Sent
  <2>4. \A r \in Posts(c)' : ~r.awaited
    BY <1>0, <1>3, <2>3 DEF Honest
  <2> HIDE DEF x
  <2>5. Honest(c)'
    BY <1>0, <1>3, <2>1, <2>2, <2>3, <2>4, CallEnds
  <2>6. QED BY <1>2, <1>3, <2>1, <2>5
\* Away from a wait no answer is held.
<1>4. \A c \in Clients : ~At(c, "wait") => ~Unanswered(c) /\ state[c].answer = "none"
  BY <1>0 DEF Honest, Unanswered
<1>5. ASSUME NEW c \in Clients, NEW s, state' = [state EXCEPT ![c] = s], UNCHANGED <<log, wire, done>>,
             ~Unanswered(c), state[c].answer # "ok", s.answer = "none", s.lost = state[c].lost,
             s.pc # "idle", s.pc = "failed" /\ s.failedAt = "send" => state[c].lost
      PROVE  HonestInv'
  <2>1. state'[c] = s /\ \A d \in Clients : d # c => state'[d] = state[d] /\ done'[d] = done[d]
    BY <1>0, <1>5
  <2>2. Honest(c)'
    BY <1>0, <1>5, <2>1, GoesOn DEF At
  <2>3. QED BY <1>2, <1>5, <2>1, <2>2
<1>6. ASSUME NEW c \in Clients, Begin(c) PROVE HonestInv'
  <2> DEFINE s == [state[c] EXCEPT !.pc = "read"]
  <2>1. s.pc = "read" /\ s.answer = state[c].answer /\ s.lost = state[c].lost
    BY <1>0 DEF States
  <2>2. /\ state' = [state EXCEPT ![c] = s] /\ UNCHANGED <<log, wire, done>>
        /\ ~At(c, "wait")
    BY <1>0, <1>6 DEF Begin, At
  <2> HIDE DEF s
  <2>3. QED BY <1>4, <1>5, <2>1, <2>2
<1>7. ASSUME NEW c \in Clients, Elapse(c) PROVE HonestInv'
  <2>1. /\ UNCHANGED <<log, wire, done>> /\ state'[c] = [state[c] EXCEPT !.late = TRUE]
        /\ \A d \in Clients : d # c => state'[d] = state[d] /\ done'[d] = done[d]
    BY <1>0, <1>7 DEF Elapse
  <2>2. /\ state'[c].pc = state[c].pc /\ state'[c].seq = state[c].seq
        /\ state'[c].answer = state[c].answer /\ state'[c].failedAt = state[c].failedAt
        /\ state'[c].lost = state[c].lost
    BY <1>0, <2>1 DEF States
  <2>3. Posts(c)' = Posts(c) /\ \A k : Logged(c, k)' = Logged(c, k)
    BY <2>1 DEF Posts, Logged
  <2>4. Honest(c)'
    BY <1>0, <2>1, <2>2, <2>3, Elsewhere
  <2>5. QED BY <1>2, <2>1, <2>4
<1>8. ASSUME NEW c \in Clients, Expire(c) PROVE HonestInv'
  <2>1. ~At(c, "wait") /\ ~At(c, "idle") /\ End(c, "unavailable") /\ UNCHANGED <<log, wire>>
    BY <1>8 DEF Expire, At
  <2>2. QED BY <1>3, <1>4, <2>1
<1>9. ASSUME NEW c \in Clients, Read(c) PROVE HonestInv'
  <2>1. ~At(c, "wait") /\ ~At(c, "idle") /\ UNCHANGED <<log, wire>>
    BY <1>9 DEF Read, At
  <2>2. CASE End(c, "bound")
    BY <1>3, <1>4, <2>1, <2>2
  <2>3. CASE ~End(c, "bound")
    <3> DEFINE s == Signing(state[c], Len(log) + 1, StillLate(c))
    <3>1. s.pc = "send" /\ s.answer = state[c].answer /\ s.lost = state[c].lost
      BY <1>0 DEF States, Signing
    <3>2. state' = [state EXCEPT ![c] = s] /\ UNCHANGED done
      BY <1>0, <1>9, <2>3 DEF Read, Signing
    <3> HIDE DEF s
    <3>3. QED BY <1>4, <1>5, <2>1, <3>1, <3>2
  <2>4. QED BY <2>2, <2>3
<1>10. ASSUME NEW c \in Clients, FailRead(c) PROVE HonestInv'
  <2> DEFINE s == [state[c] EXCEPT !.pc = "failed", !.failedAt = "read"]
  <2>1. /\ s.pc = "failed" /\ s.failedAt = "read" /\ s.answer = state[c].answer
        /\ s.lost = state[c].lost
    BY <1>0 DEF States
  <2>2. /\ state' = [state EXCEPT ![c] = s] /\ UNCHANGED <<log, wire, done>>
        /\ ~At(c, "wait")
    BY <1>0, <1>10 DEF FailRead, At
  <2> HIDE DEF s
  <2>3. QED BY <1>4, <1>5, <2>1, <2>2
<1>11. ASSUME NEW c \in Clients, Send(c) PROVE HonestInv'
  <2>1. /\ At(c, "send") /\ ~Unanswered(c) /\ state[c].answer = "none"
        /\ wire' = wire \cup {Own(c)} /\ UNCHANGED <<log, done>>
        /\ state'[c] = [state[c] EXCEPT !.pc = "wait"]
        /\ \A d \in Clients : d # c => state'[d] = state[d] /\ done'[d] = done[d]
    <3>1. At(c, "send") /\ ~At(c, "wait")
      BY <1>11 DEF Send, At
    <3>2. QED BY <1>0, <1>4, <1>11, <3>1 DEF Send, Own
  <2>2. /\ state'[c].pc = "wait" /\ state'[c].answer = "none" /\ state'[c].seq = state[c].seq
        /\ state'[c].lost = state[c].lost /\ done'[c] = done[c]
    BY <1>0, <2>1 DEF States
  <2>3. Own(c)' = Own(c) /\ Unanswered(c)'
    BY <2>2 DEF Own, Envelope, How, Unanswered, At
  <2>4. Own(c).envelope.client = c /\ Own(c).envelope.call = Len(done[c]) + 1
    BY DEF Own, Envelope
  <2>5. /\ Posts(c)' = Posts(c) \cup {Own(c)}
        /\ \A d \in Clients : d # c => Posts(d)' = Posts(d)
    BY <2>1, <2>4 DEF Posts
  <2>6. /\ \A k : k # Len(done[c]) + 1 => Sent(c, k)' = Sent(c, k)
        /\ \A k : \A r \in Sent(c, k)' : r \in Sent(c, k) \/ r = Own(c)
    BY <2>4, <2>5 DEF Sent
  <2>7. \A k : Logged(c, k)' = Logged(c, k)
    BY <2>1 DEF Logged
  <2>8. PICK n : n = Len(done[c]) + 1
    OBVIOUS
  <2>9. \A r \in Posts(c)' : r.awaited => r = Own(c)
    BY <1>0, <2>1, <2>5 DEF Honest
  <2>10. ~state[c].lost => (\A r \in Sent(c, n)' : r = Own(c)) /\ Logged(c, n)' = {}
    BY <1>0, <2>1, <2>6, <2>7, <2>8 DEF Honest
  <2>11. \A k \in DOMAIN done[c] : ~done[c][k].lost =>
           /\ Sent(c, k)' = {}
           /\ Logged(c, k)' = IF done[c][k].outcome = "ok" THEN {done[c][k].seq} ELSE {}
    <3>1. \A k \in DOMAIN done[c] : k # Len(done[c]) + 1
      BY <1>0
    <3>2. QED BY <1>0, <2>6, <2>7, <3>1 DEF Honest
  <2>12. /\ At(c, "wait")' /\ ~At(c, "idle")' /\ ~At(c, "failed")' /\ Len(done'[c]) + 1 = n
    BY <2>2, <2>8 DEF At
  <2>13. Honest(c)'
    BY <2>2, <2>3, <2>9, <2>10, <2>11, <2>12 DEF Honest
  <2>14. QED BY <1>1, <2>1, <2>5, <2>13
<1>12. ASSUME NEW c \in Clients, FailSend(c) PROVE HonestInv'
  <2>1. /\ wire' = LetGo(c) /\ UNCHANGED <<log, done>>
        /\ state'[c] = [state[c] EXCEPT !.pc = "failed", !.failedAt = "send", !.answer = "none",
                                        !.lost = TRUE]
        /\ \A d \in Clients : d # c => state'[d] = state[d] /\ done'[d] = done[d]
    BY <1>0, <1>12 DEF FailSend
  <2>2. state'[c].pc = "failed" /\ state'[c].answer = "none" /\ state'[c].lost
    BY <1>0, <2>1 DEF States
  <2>3. /\ \A r \in Posts(c)' : ~r.awaited
        /\ \A k : Sent(c, k) = {} => Sent(c, k)' = {}
        /\ \A d \in Clients : d # c => Posts(d)' = Posts(d)
    BY <2>1, LetsGo
  <2>4. \A k : Logged(c, k)' = Logged(c, k)
    BY <2>1 DEF Logged
  <2>5. \A k \in DOMAIN done[c] : ~done[c][k].lost =>
          /\ Sent(c, k)' = {}
          /\ Logged(c, k)' = IF done[c][k].outcome = "ok" THEN {done[c][k].seq} ELSE {}
    BY <1>0, <2>3, <2>4 DEF Honest
  <2>6. Honest(c)'
    <3>1. done'[c] = done[c]
      BY <2>1
    <3>2. ~At(c, "idle")'
      BY <2>2 DEF At
    <3>3. QED BY <2>2, <2>3, <2>5, <3>1, <3>2 DEF Honest
  <2>7. QED BY <1>1, <2>1, <2>3, <2>6
<1>13. ASSUME NEW c \in Clients, BreakOff(c) PROVE HonestInv'
  <2> DEFINE lost == state[c].lost \/ At(c, "wait")
             x == [outcome |-> "failed", seq |-> state[c].seq, lost |-> lost]
  <2>1. /\ wire' = LetGo(c) /\ UNCHANGED log
        /\ done'[c] = Append(done[c], x) /\ state'[c] = Idle
        /\ \A d \in Clients : d # c => state'[d] = state[d] /\ done'[d] = done[d]
    BY <1>0, <1>13 DEF BreakOff
  <2>2. x.outcome = "failed" /\ x.lost = lost
    OBVIOUS
  <2>3. /\ \A r \in Posts(c)' : ~r.awaited
        /\ \A k : Sent(c, k) = {} => Sent(c, k)' = {}
        /\ \A d \in Clients : d # c => Posts(d)' = Posts(d)
    BY <2>1, LetsGo
  <2>4. ~x.lost => ~state[c].lost /\ ~Unanswered(c) /\ state[c].answer = "none"
    BY <1>4, <2>2
  <2> HIDE DEF x
  <2>5. Honest(c)'
    BY <1>0, <2>1, <2>2, <2>3, <2>4, CallEnds
  <2>6. QED BY <1>1, <2>1, <2>3, <2>5
<1>14. ASSUME NEW c \in Clients, Accepted(c) PROVE HonestInv'
  <2>1. /\ ~Unanswered(c) /\ ~At(c, "idle") /\ state[c].answer = "ok"
        /\ End(c, "ok") /\ UNCHANGED <<log, wire>>
    BY <1>14 DEF Accepted, Unanswered, At
  <2>2. QED BY <1>3, <2>1
<1>15. ASSUME NEW c \in Clients, Conflicted(c) PROVE HonestInv'
  <2>1. /\ ~Unanswered(c) /\ ~At(c, "idle") /\ state[c].answer # "ok" /\ UNCHANGED <<log, wire>>
    BY <1>15 DEF Conflicted, Unanswered, At
  <2>2. CASE End(c, "no_position")
    BY <1>3, <2>1, <2>2
  <2>3. CASE ~End(c, "no_position")
    <3> DEFINE s == Rereading(state[c], state[c].conflicts + 1, StillLate(c))
    <3>1. s.pc = "read" /\ s.answer = "none" /\ s.lost = state[c].lost
      BY <1>0 DEF States, Rereading
    <3>2. state' = [state EXCEPT ![c] = s] /\ UNCHANGED done
      BY <1>0, <1>15, <2>3 DEF Conflicted, Rereading
    <3> HIDE DEF s
    <3>3. QED BY <1>5, <2>1, <3>1, <3>2
  <2>4. QED BY <2>2, <2>3
<1>16. ASSUME NEW c \in Clients, Retry(c) PROVE HonestInv'
  <2>1. ~At(c, "wait") /\ ~At(c, "idle") /\ At(c, "failed") /\ UNCHANGED <<log, wire>>
    BY <1>16 DEF Retry, At
  <2>2. CASE state[c].late
    <3>1. End(c, "unavailable")
      BY <1>16, <2>2 DEF Retry
    <3>2. QED BY <1>3, <1>4, <2>1, <3>1
  <2>3. CASE ~state[c].late /\ How(c) = "bounded"
    <3> DEFINE s == [state[c] EXCEPT !.pc = "read", !.failedAt = "none", !.conflicts = 0]
    <3>1. s.pc = "read" /\ s.answer = state[c].answer /\ s.lost = state[c].lost
      BY <1>0 DEF States
    <3>2. state' = [state EXCEPT ![c] = s] /\ UNCHANGED done
      BY <1>0, <1>16, <2>3 DEF Retry
    <3> HIDE DEF s
    <3>3. QED BY <1>4, <1>5, <2>1, <3>1, <3>2
  <2>4. CASE ~state[c].late /\ How(c) # "bounded"
    <3> DEFINE s == [state[c] EXCEPT !.pc = state[c].failedAt, !.failedAt = "none"]
    <3>1. /\ s.pc = state[c].failedAt /\ s.failedAt = "none" /\ s.answer = state[c].answer
          /\ s.lost = state[c].lost /\ state[c].failedAt \in {"none", "read", "send"}
      BY <1>0 DEF States
    <3>2. state' = [state EXCEPT ![c] = s] /\ UNCHANGED done
      BY <1>0, <1>16, <2>4 DEF Retry
    <3> HIDE DEF s
    <3>3. QED BY <1>4, <1>5, <2>1, <3>1, <3>2
  <2>5. QED BY <2>2, <2>3, <2>4
<1>17. ASSUME NEW r \in wire, Deliver(r) PROVE HonestInv'
  BY <1>17, Arrives DEF HonestInv
<1>18. CASE UNCHANGED vars
  BY <1>18 DEF vars, HonestInv, Honest, Posts, Sent, Logged, Own, Envelope, How, Unanswered, At
<1>19. QED
  BY <1>6, <1>7, <1>8, <1>9, <1>10, <1>11, <1>12, <1>13, <1>14, <1>15, <1>16, <1>17, <1>18
  DEF Next, Proceed

\* What clients report is what the log and the wire hold of their calls.
THEOREM CallsAreHonest == Spec => []HonestInv
<1>1. Init => HonestInv
  <2> SUFFICES ASSUME Init, NEW c \in Clients PROVE Honest(c)
    BY DEF HonestInv
  <2>1. /\ state[c].pc = "idle" /\ state[c].answer = "none" /\ ~state[c].lost
        /\ DOMAIN log = {} /\ DOMAIN done[c] = {} /\ wire = {}
    BY DEF Init, Idle
  <2>2. Posts(c) = {} /\ \A k : Sent(c, k) = {} /\ Logged(c, k) = {}
    BY <2>1 DEF Posts, Sent, Logged
  <2>3. QED BY <2>1, <2>2 DEF Honest, At
<1>2. TypeOK /\ NumberInv /\ HonestInv /\ [Next]_vars => HonestInv'
  BY HonestStep
<1>3. QED BY <1>1, <1>2, ClientTypes, NumbersOrderClaims, PTL DEF Spec

\* A call none of whose answers was lost did exactly what it reports, although
\* conflicts made it read and sign again and abandoned posts arrive late.
THEOREM ReportsAreTrue == Spec => []UnlostIsHonest
<1>1. HonestInv => UnlostIsHonest
  BY DEF HonestInv, Honest, UnlostIsHonest, Logged
<1>2. QED BY <1>1, CallsAreHonest, PTL
=============================================================================
