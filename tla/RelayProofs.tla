---------------------------- MODULE RelayProofs ----------------------------
(***************************************************************************)
(* Theorems about Relay, for every set of clients, readers and keys, every *)
(* bound and any number of crashes: types, wake-ups and expiry; then       *)
(* sender binding; then the gapless, durable log; then that the relay      *)
(* implements Mailbox.                                                     *)
(*                                                                         *)
(* And about RelayLedger with its RelayDirectory, for any runs, visitors,  *)
(* snapshots and restarts: what the token is spent on, and where the alias *)
(* leads.                                                                  *)
(***************************************************************************)
EXTENDS RelayRefinement, TLAPS, SequenceTheorems, FiniteSetTheorems, SequencesExt,
        NaturalsInduction, WellFoundedInduction

\* The run directory and the ledger read-through have constants and a state of their own,
\* None apart.
CONSTANTS RunNames, Legacy, Snapshots, Times, HistoryLimit, MaxPuts, MaxRestarts, Visitors,
          Anchors, Heights, MaxRequests
VARIABLES order, held, journal, opening, puts, restarts, token, cache, asking, requests,
          mints, rivals, spent, published

Page == INSTANCE RelayLedger WITH Sessions <- RunNames

----------------------------------------------------------------------------
(* Types                                                                   *)

Files == [exists : BOOLEAN, lines : Seq(Records), tail : {"whole", "fragment", "bare"}]

\* A record of the journal has the fields of its type.
LEMMA RecordFields ==
  ASSUME NEW rec \in Records
  PROVE  /\ rec.type \in {"created", "message", "put"}
         /\ rec.type = "created" => rec.authorized \in BOOLEAN
         /\ rec.type = "message" => rec.envelope \in Envelopes
         /\ rec.type = "put" => rec.slot \in Slots /\ rec.value \in Values
BY DEF Records

\* An envelope has a known role, a key and a positive sequence number.
LEMMA EnvelopeFields ==
  ASSUME NEW e \in Envelopes
  PROVE  /\ e.role \in Roles /\ e.key \in Keys /\ e.kind \in Kinds
         /\ e.seq \in 1 .. MaxSeq
BY DEF Envelopes

\* An append, whatever became of it, leaves a well-formed file.
LEMMA WriteType ==
  ASSUME NEW f \in Files, NEW rec \in Records, NEW leaves \in Leftovers
  PROVE  Write(f, rec, leaves) \in Files
<1>1. SubSeq(f.lines, 1, Len(f.lines) - 1) \in Seq(Records)
  <2>1. f.lines \in Seq(Records) /\ Len(f.lines) \in Nat
    BY DEF Files
  <2>2. \A i \in 1 .. Len(f.lines) - 1 : f.lines[i] \in Records
    BY <2>1
  <2>3. QED BY <2>1, <2>2, SubSeqProperties
<1> DEFINE whole == IF f.tail = "bare"
                    THEN SubSeq(f.lines, 1, Len(f.lines) - 1) ELSE f.lines
<1>2. whole \in Seq(Records) /\ Append(whole, rec) \in Seq(Records)
  BY <1>1 DEF Files
<1> HIDE DEF whole
<1>3. CASE leaves = "nothing"
  BY <1>3 DEF Write, Files
<1>4. CASE leaves = "line"
  BY <1>2, <1>4 DEF Write, Files, whole
<1>5. CASE leaves = "bare" /\ f.tail = "whole"
  BY <1>2, <1>5 DEF Write, Files, whole
<1>6. CASE leaves = "fragment" \/ (leaves = "bare" /\ f.tail # "whole")
  BY <1>2, <1>6 DEF Write, Files, whole
<1>7. QED BY <1>3, <1>4, <1>5, <1>6 DEF Leftovers

\* Applying a record keeps a session well-formed.
LEMMA ApplyType ==
  ASSUME NEW s \in Sessions, NEW rec \in Records
  PROVE  ApplyRecord(s, rec) \in Sessions
<1>1. CASE rec.type = "created"
  BY <1>1, RecordFields DEF ApplyRecord, Sessions
<1>2. CASE rec.type = "put"
  <2>1. [s.slots EXCEPT ![rec.slot] = rec.value] \in [Slots -> Values \cup {None}]
    BY <1>2, RecordFields DEF Sessions
  <2>2. QED BY <1>2, <2>1 DEF ApplyRecord, Sessions
<1>3. CASE rec.type = "message"
  <2>1. rec.envelope \in Envelopes
    BY <1>3, RecordFields
  <2>2. Store(s, rec.envelope) \in Sessions
    <3>1. Append(s.messages, rec.envelope) \in Seq(Envelopes)
      BY <2>1 DEF Sessions
    <3>2. rec.envelope.seq \in 0 .. MaxSeq
      BY <2>1, EnvelopeFields
    <3>3. Bind(s.bindings, rec.envelope) \in [Parties -> Keys \cup {None}]
      BY <2>1, EnvelopeFields DEF Bind, IsEnrollment, Sessions
    <3>4. QED BY <3>1, <3>2, <3>3 DEF Store, Sessions
  <2>3. QED BY <1>3, <2>2 DEF ApplyRecord
<1>4. QED BY <1>1, <1>2, <1>3, RecordFields

\* A fresh session is well-formed.
LEMMA FreshType ==
  ASSUME NEW auth \in BOOLEAN
  PROVE  CreateSessionState(auth) \in Sessions
BY RelayAssumption DEF CreateSessionState, Sessions

\* Removing the first client of a non-empty queue leaves a queue.
LEMMA QueueTail ==
  ASSUME NEW q \in Seq(Clients), q # <<>>
  PROVE  Head(q) \in Clients /\ Tail(q) \in Seq(Clients)
BY HeadTailProperties

LEMMA AfterType ==
  ASSUME NEW m \in Seq(Envelopes), NEW n
  PROVE  After(m, n) \subseteq Envelopes
BY DEF After

\* What is under way agrees with the phase: the lock is only used while the
\* session is open, and an append under the lock has a request to answer.
PhaseInv ==
  /\ creating # None => phase = "serving" /\ ~known
  /\ queue # <<>> => phase = "serving" /\ known
  /\ writing # None => queue # <<>>
  /\ phase = "replaying" => ~known

LEMMA InitType == Init => TypeOK /\ PhaseInv
<1> SUFFICES ASSUME Init PROVE TypeOK /\ PhaseInv
  OBVIOUS
<1>1. session \in Sessions
  BY FreshType DEF Init
<1>2. file \in Files
  BY DEF Init, Files
<1>3. highest \in Time \cup {-1} /\ read \in Nat /\ crashes \in Nat /\ queue \in Seq(Clients)
  BY DEF Init
<1>4. TypeOK
  BY <1>1, <1>2, <1>3 DEF Init, TypeOK, Files
<1>5. PhaseInv
  BY DEF Init, PhaseInv
<1>6. QED BY <1>4, <1>5

LEMMA StepPhase == TypeOK /\ PhaseInv /\ [Next]_vars => PhaseInv'
<1> SUFFICES ASSUME TypeOK, PhaseInv, [Next]_vars PROVE PhaseInv'
  OBVIOUS
<1> USE DEF PhaseInv, memory
<1>1. ASSUME NEW auth \in Modes, BeginCreate(auth) PROVE PhaseInv'
  BY <1>1 DEF BeginCreate
<1>2. CASE FinishCreate \/ FailCreate
  BY <1>2 DEF FinishCreate, FailCreate
<1>4. CASE \E c \in Clients, e \in Submitted, t \in Time : ReceivePost(c, e, t)
  <2>1. queue' # <<>>
    BY <1>4 DEF ReceivePost, TypeOK
  <2>2. QED BY <1>4, <2>1 DEF ReceivePost
<1>5. ASSUME NEW c \in Clients, NEW s \in Slots, NEW v \in Values, ReceivePut(c, s, v)
      PROVE  PhaseInv'
  <2>1. queue' # <<>>
    <3>1. queue \in Seq(Clients) /\ queue' = Append(queue, c)
      BY <1>5 DEF ReceivePut, TypeOK
    <3>2. QED BY <3>1
  <2>2. QED BY <1>5, <2>1 DEF ReceivePut
<1>6. CASE \/ \E e \in Submitted, t \in Time : RefusePost(e, t)
           \/ \E r \in Readers, n \in 0 .. MaxSeq : Poll(r, n)
           \/ \E r \in Readers : EndPoll(r)
  BY <1>6 DEF RefusePost, Poll, EndPoll
<1>7. CASE \E t \in Time : Admit(t) \/ Refuse(t)
  BY <1>7 DEF Admit, Refuse, Answer
<1>8. CASE CompletePost \/ CompletePut \/ FailAppend
  BY <1>8 DEF CompletePost, CompletePut, FailAppend, Answer
<1>9. CASE Crash
  BY <1>9 DEF Crash
<1>a. CASE ReplayLine
  BY <1>a DEF ReplayLine
<1>b. CASE FinishReplay
  BY <1>b DEF FinishReplay
<1>10. CASE UNCHANGED vars
  BY <1>10 DEF vars
<1>11. QED
  BY <1>1, <1>2, <1>4, <1>5, <1>6, <1>7, <1>8, <1>9, <1>a, <1>b, <1>10
  DEF Next, Request, Work, Restart

LEMMA StepType == TypeOK /\ PhaseInv /\ [Next]_vars => TypeOK'
<1> SUFFICES ASSUME TypeOK, PhaseInv, [Next]_vars PROVE TypeOK'
  OBVIOUS
<1> USE RelayAssumption
<1>0. file \in Files /\ session \in Sessions
  BY DEF TypeOK, Files
<1>t. \A t \in Time : Tick(t) => highest' \in Time \cup {-1}
  BY DEF Tick, TypeOK, Time
<1>1. ASSUME NEW auth \in Modes, BeginCreate(auth) PROVE TypeOK'
  BY <1>1 DEF BeginCreate, TypeOK, memory
<1>2. CASE FinishCreate
  <2>1. creating \in Records /\ creating.authorized \in BOOLEAN
    BY <1>2 DEF FinishCreate, TypeOK, Records
  <2>2. file' \in Files
    BY <1>2, <1>0, <2>1, WriteType DEF FinishCreate, Leftovers
  <2>3. session' \in Sessions
    BY <1>2, <2>1, FreshType DEF FinishCreate
  <2>4. QED BY <1>2, <2>2, <2>3 DEF FinishCreate, TypeOK, Files
<1>3. CASE FailCreate
  <2>1. creating \in Records
    BY <1>3 DEF FailCreate, TypeOK, Records
  <2>2. file' \in Files
    BY <1>3, <1>0, <2>1, WriteType DEF FailCreate
  <2>3. QED BY <1>3, <2>2 DEF FailCreate, TypeOK, Files, memory
<1>4. ASSUME NEW c \in Clients, NEW e \in Submitted, NEW t \in Time, ReceivePost(c, e, t)
      PROVE  TypeOK'
  <2>1. [type |-> "message", envelope |-> e] \in Requests
    BY DEF Requests, Submitted
  <2>2. inflight' \in [Clients -> Requests \cup {None}] /\ queue' \in Seq(Clients)
    BY <1>4, <2>1 DEF ReceivePost, TypeOK
  <2>3. highest' \in Time \cup {-1}
    BY <1>4, <1>t DEF ReceivePost, TypeOK
  <2>4. QED BY <1>4, <2>2, <2>3 DEF ReceivePost, TypeOK, memory
<1>5. ASSUME NEW e \in Submitted, NEW t \in Time, RefusePost(e, t) PROVE TypeOK'
  BY <1>5, <1>t DEF RefusePost, TypeOK, memory
<1>6. ASSUME NEW c \in Clients, NEW s \in Slots, NEW v \in Values, ReceivePut(c, s, v)
      PROVE  TypeOK'
  <2>1. [type |-> "put", slot |-> s, value |-> v] \in Requests
    BY DEF Requests
  <2>2. inflight' \in [Clients -> Requests \cup {None}] /\ queue' \in Seq(Clients)
    BY <1>6, <2>1 DEF ReceivePut, TypeOK
  <2>3. QED BY <1>6, <2>2 DEF ReceivePut, TypeOK, memory
<1>7. ASSUME NEW r \in Readers, NEW n \in 0 .. MaxSeq, Poll(r, n) PROVE TypeOK'
  <2>1. told' \subseteq Envelopes
    BY <1>7, <1>0, AfterType DEF Poll, TypeOK, Sessions
  <2>2. polls' \in [Readers -> (0 .. MaxSeq) \cup {None}]
    BY <1>7 DEF Poll, TypeOK
  <2>3. QED BY <1>7, <2>1, <2>2 DEF Poll, TypeOK, memory
<1>a. ASSUME queue # <<>>, Answer(Head(queue))
      PROVE  inflight' \in [Clients -> Requests \cup {None}] /\ queue' \in Seq(Clients)
  <2>1. Head(queue) \in Clients /\ Tail(queue) \in Seq(Clients)
    BY <1>a, QueueTail DEF TypeOK
  <2>2. QED BY <1>a, <2>1 DEF Answer, TypeOK
<1>8. ASSUME NEW t \in Time, Admit(t) PROVE TypeOK'
  <2>1. inflight[Head(queue)] \in Requests \cup {None}
    BY <1>8, QueueTail DEF Admit, TypeOK
  <2>2. highest' \in Time \cup {-1}
    BY <1>8, <1>t DEF Admit, TypeOK
  <2>3. QED BY <1>8, <2>1, <2>2 DEF Admit, TypeOK, memory
<1>9. ASSUME NEW t \in Time, Refuse(t) PROVE TypeOK'
  <2>1. highest' \in Time \cup {-1}
    BY <1>9, <1>t DEF Refuse, TypeOK
  <2>2. QED BY <1>9, <1>a, <2>1 DEF Refuse, TypeOK, memory
<1>10. CASE CompletePost
  <2>1. queue # <<>> /\ writing \in Records /\ writing.envelope \in Envelopes
    BY <1>10 DEF CompletePost, PhaseInv, TypeOK, Requests, Records
  <2>2. file' \in Files
    BY <1>10, <1>0, <2>1, WriteType DEF CompletePost, Leftovers
  <2>3. Append(session.messages, writing.envelope) \in Seq(Envelopes)
    BY <1>0, <2>1 DEF Sessions
  <2>4. session' \in Sessions
    <3>1. Bind(session.bindings, writing.envelope) \in [Parties -> Keys \cup {None}]
      BY <1>0, <2>1, EnvelopeFields DEF Bind, IsEnrollment, Sessions
    <3>2. writing.envelope.seq \in 0 .. MaxSeq
      BY <2>1, EnvelopeFields
    <3>3. QED BY <1>10, <1>0, <2>3, <3>1, <3>2 DEF CompletePost, Sessions
  <2>5. told' \subseteq Envelopes
    <3> DEFINE e == writing.envelope
               msgs == Append(session.messages, e)
    <3>1. UNION {After(msgs, polls[r]) : r \in Awakened(e.seq)} \subseteq Envelopes
      BY <2>3, AfterType
    <3>2. told' = told \cup {e} \cup UNION {After(msgs, polls[r]) : r \in Awakened(e.seq)}
      BY <1>10 DEF CompletePost
    <3>3. told \subseteq Envelopes /\ e \in Envelopes
      BY <2>1 DEF TypeOK
    <3> HIDE DEF e, msgs
    <3>4. QED BY <3>1, <3>2, <3>3
  <2>6. inflight' \in [Clients -> Requests \cup {None}] /\ queue' \in Seq(Clients)
    BY <1>10, <2>1, <1>a DEF CompletePost
  <2>7. polls' \in [Readers -> (0 .. MaxSeq) \cup {None}]
    BY <1>10 DEF CompletePost, TypeOK
  <2>8. QED BY <1>10, <2>2, <2>4, <2>5, <2>6, <2>7 DEF CompletePost, TypeOK, Files
<1>11. CASE CompletePut
  <2>1. queue # <<>> /\ writing \in Records /\ writing.slot \in Slots /\ writing.value \in Values
    BY <1>11 DEF CompletePut, PhaseInv, TypeOK, Requests, Records
  <2>2. file' \in Files
    BY <1>11, <1>0, <2>1, WriteType DEF CompletePut, Leftovers
  <2>3. session' \in Sessions
    <3>1. [session.slots EXCEPT ![writing.slot] = writing.value] \in [Slots -> Values \cup {None}]
      BY <1>0, <2>1 DEF Sessions
    <3>2. QED BY <1>11, <1>0, <3>1 DEF CompletePut, Sessions
  <2>4. inflight' \in [Clients -> Requests \cup {None}] /\ queue' \in Seq(Clients)
    BY <1>11, <2>1, <1>a DEF CompletePut
  <2>5. QED BY <1>11, <2>2, <2>3, <2>4 DEF CompletePut, TypeOK, Files
<1>12. CASE FailAppend
  <2>1. queue # <<>> /\ writing \in Records
    BY <1>12 DEF FailAppend, PhaseInv, TypeOK, Requests, Records
  <2>2. file' \in Files
    BY <1>12, <1>0, <2>1, WriteType DEF FailAppend
  <2>3. inflight' \in [Clients -> Requests \cup {None}] /\ queue' \in Seq(Clients)
    BY <1>12, <2>1, <1>a DEF FailAppend
  <2>4. QED BY <1>12, <2>2, <2>3 DEF FailAppend, TypeOK, Files, memory
<1>13. ASSUME NEW r \in Readers, EndPoll(r) PROVE TypeOK'
  <2>1. told' \subseteq Envelopes
    BY <1>13, <1>0, AfterType DEF EndPoll, TypeOK, Sessions
  <2>2. QED BY <1>13, <2>1 DEF EndPoll, TypeOK, memory
<1>14. CASE Crash
  <2>1. file' \in Files
    <3>1. CASE creating = None /\ writing = None
      BY <1>14, <1>0, <3>1 DEF Crash
    <3>2. CASE creating # None
      <4>1. creating \in Records
        BY <3>2 DEF TypeOK, Records
      <4>2. QED BY <1>14, <1>0, <3>2, <4>1, WriteType DEF Crash
    <3>3. CASE creating = None /\ writing # None
      <4>1. writing \in Records
        BY <3>3 DEF TypeOK, Requests, Records
      <4>2. QED BY <1>14, <1>0, <3>3, <4>1, WriteType DEF Crash
    <3>4. QED BY <3>1, <3>2, <3>3
  <2>2. session' \in Sessions
    BY <1>14, FreshType DEF Crash
  <2>3. /\ queue' \in Seq(Clients) /\ read' \in Nat /\ crashes' \in Nat
        /\ highest' \in Time \cup {-1}
    BY <1>14 DEF Crash, TypeOK
  <2>4. QED BY <1>14, <2>1, <2>2, <2>3 DEF Crash, TypeOK, Files
<1>15. CASE ReplayLine
  <2>1. file.lines[read + 1] \in Records
    BY <1>15, <1>0 DEF ReplayLine, TypeOK, Files
  <2>2. session' \in Sessions
    BY <1>15, <1>0, <2>1, ApplyType DEF ReplayLine
  <2>3. QED BY <1>15, <2>2 DEF ReplayLine, TypeOK
<1>16. CASE FinishReplay
  BY <1>16 DEF FinishReplay, TypeOK
<1>17. CASE UNCHANGED vars
  BY <1>17 DEF vars, TypeOK
<1>18. QED
  BY <1>1, <1>2, <1>3, <1>4, <1>5, <1>6, <1>7, <1>8, <1>9, <1>10, <1>11, <1>12,
     <1>13, <1>14, <1>15, <1>16, <1>17 DEF Next, Request, Work, Restart

\* Every reachable state is well-formed, whatever appends leave in the file.
THEOREM TypeCorrect == Spec => [](TypeOK /\ PhaseInv)
<1>1. TypeOK /\ PhaseInv /\ [Next]_vars => (TypeOK /\ PhaseInv)'
  BY StepPhase, StepType
<1>2. QED BY InitType, <1>1, PTL DEF Spec

----------------------------------------------------------------------------
(* Long polls and expired enrollments                                      *)

\* A restarting relay has no open long poll, a serving one none that missed a
\* message.
PollInv == NoLostWakeup /\ (phase = "replaying" => \A r \in Readers : polls[r] = None)

LEMMA StepPolls == TypeOK /\ PhaseInv /\ PollInv /\ [Next]_vars => PollInv'
<1> SUFFICES ASSUME TypeOK, PhaseInv, PollInv, [Next]_vars PROVE PollInv'
  OBVIOUS
<1> DEFINE m == session.messages
<1>0. /\ m \in Seq(Envelopes) /\ Len(m) \in Nat /\ DOMAIN m = 1 .. Len(m)
      /\ session \in Sessions /\ polls \in [Readers -> (0 .. MaxSeq) \cup {None}]
  BY DEF TypeOK, Sessions
\* Steps of a serving relay that append nothing and open no poll.
<1>q. ASSUME UNCHANGED phase, session'.messages = m \/ session' = session,
             \A r \in Readers : polls'[r] = polls[r] \/ polls'[r] = None
      PROVE  PollInv'
  BY <1>q DEF PollInv, NoLostWakeup
<1>1. CASE \E auth \in Modes : BeginCreate(auth)
  BY <1>1, <1>q DEF BeginCreate, memory
<1>2. CASE FailCreate \/ FailAppend
  BY <1>2, <1>q DEF FailCreate, FailAppend, memory
<1>3. CASE FinishCreate
  BY <1>3 DEF FinishCreate, CreateSessionState, PollInv, NoLostWakeup, After
<1>4. CASE \/ \E c \in Clients, e \in Submitted, t \in Time : ReceivePost(c, e, t)
           \/ \E e \in Submitted, t \in Time : RefusePost(e, t)
           \/ \E c \in Clients, s \in Slots, v \in Values : ReceivePut(c, s, v)
           \/ \E t \in Time : Admit(t) \/ Refuse(t)
  BY <1>4, <1>q DEF ReceivePost, RefusePost, ReceivePut, Admit, Refuse, memory
<1>5. ASSUME NEW r \in Readers, NEW n \in 0 .. MaxSeq, Poll(r, n) PROVE PollInv'
  <2>1. /\ UNCHANGED <<phase, session>> /\ phase = "serving"
        /\ polls' = polls \/ (After(m, n) = {} /\ polls' = [polls EXCEPT ![r] = n])
    BY <1>5 DEF Poll, memory
  <2>2. QED BY <1>0, <2>1 DEF PollInv, NoLostWakeup
<1>6. ASSUME NEW r \in Readers, EndPoll(r) PROVE PollInv'
  BY <1>0, <1>6, <1>q DEF EndPoll, memory
<1>7. CASE CompletePut
  <2>1. session'.messages = m
    BY <1>0, <1>7 DEF CompletePut, Sessions
  <2>2. QED BY <1>7, <1>q, <2>1 DEF CompletePut
<1>8. CASE CompletePost
  <2> DEFINE e == writing.envelope
             A == Append(m, e)
  <2>1. e \in Envelopes /\ phase = "serving"
    BY <1>8 DEF CompletePost, TypeOK, Requests, PhaseInv
  <2>2. /\ session'.messages = A /\ UNCHANGED phase
        /\ polls' = [r \in Readers |-> IF r \in Awakened(e.seq) THEN None ELSE polls[r]]
    BY <1>0, <1>8 DEF CompletePost, Sessions
  <2> HIDE DEF e
  <2>3. DOMAIN A = 1 .. Len(m) + 1 /\ A[Len(m) + 1] = e /\ \A i \in 1 .. Len(m) : A[i] = m[i]
    BY <1>0, <2>1
  <2> HIDE DEF A
  <2>4. ASSUME NEW r \in Readers, polls'[r] # None PROVE After(A, polls'[r]) = {}
    <3>1. polls'[r] = polls[r] /\ r \notin Awakened(e.seq)
      BY <2>2, <2>4
    <3>2. ~(e.seq > polls[r])
      BY <2>4, <3>1 DEF Awakened
    <3>3. After(m, polls[r]) = {}
      BY <2>1, <2>4, <3>1 DEF PollInv, NoLostWakeup
    <3>4. \A i \in 1 .. Len(m) : ~(m[i].seq > polls[r])
      BY <1>0, <3>3 DEF After
    <3>5. \A i \in DOMAIN A : ~(A[i].seq > polls[r])
      <4> TAKE i \in DOMAIN A
      <4>1. i \in 1 .. Len(m) \/ i = Len(m) + 1
        BY <1>0, <2>3
      <4>2. CASE i \in 1 .. Len(m)
        BY <2>3, <3>4, <4>2
      <4>3. CASE i = Len(m) + 1
        BY <2>3, <3>2, <4>3
      <4>4. QED BY <4>1, <4>2, <4>3
    <3>6. QED BY <3>1, <3>5 DEF After
  <2>5. QED BY <2>1, <2>2, <2>4 DEF PollInv, NoLostWakeup
<1>9. CASE Crash
  BY <1>9 DEF Crash, PollInv, NoLostWakeup
<1>10. CASE ReplayLine
  BY <1>10 DEF ReplayLine, PollInv, NoLostWakeup
<1>11. CASE FinishReplay
  BY <1>11 DEF FinishReplay, PollInv, NoLostWakeup
<1>12. CASE UNCHANGED vars
  BY <1>12, <1>q DEF vars
<1>13. QED
  BY <1>1, <1>2, <1>3, <1>4, <1>5, <1>6, <1>7, <1>8, <1>9, <1>10, <1>11, <1>12
  DEF Next, Request, Work, Restart

\* A long poll never sleeps on a message the log holds: the check of
\* waitForMessages and the wake-up of notifyWaiters leave no gap between them.
THEOREM WakeupsKept == Spec => []NoLostWakeup
<1>1. Init => PollInv
  BY DEF Init, PollInv, NoLostWakeup
<1>2. TypeOK /\ PhaseInv /\ PollInv /\ [Next]_vars => PollInv'
  BY StepPolls
<1>3. PollInv => NoLostWakeup
  BY DEF PollInv
<1>4. QED BY <1>1, <1>2, <1>3, TypeCorrect, PTL DEF Spec

\* A clock that has reached the session deadline admits no enrollment for the
\* rest of the incarnation, even if the wall clock steps back: the locked
\* section judges freshness on the non-decreasing clock.
THEOREM ExpiryIsFinal == Spec => ExpiredStaysExpired
<1> DEFINE A == (highest >= Deadline /\ writing = None /\ writing' # None
                 /\ writing'.type = "message" /\ session.authorized)
                  => ~IsEnrollment(writing'.envelope)
<1>1. ASSUME TypeOK, [Next]_vars PROVE A
  <2> SUFFICES ASSUME highest >= Deadline, writing = None, writing' # None,
                      writing'.type = "message", session.authorized,
                      IsEnrollment(writing'.envelope)
               PROVE  FALSE
    OBVIOUS
  <2>1. PICK t \in Time : Admit(t)
    BY <1>1 DEF Next, Request, Work, Restart, BeginCreate, FinishCreate, FailCreate,
                ReceivePost, RefusePost, ReceivePut, Refuse, CompletePost, CompletePut,
                FailAppend, Poll, EndPoll, Crash, ReplayLine, FinishReplay, vars
  <2>2. /\ highest' = (IF t > highest THEN t ELSE highest)
        /\ Admits(session, writing'.envelope, highest')
    BY <2>1 DEF Admit, ReadsClock, Tick
  <2>3. highest \in Int /\ t \in Int /\ Deadline \in Int
    BY <1>1, RelayAssumption DEF TypeOK, Time
  <2>4. ~(highest' < Deadline)
    BY <2>2, <2>3
  <2>5. QED BY <2>2, <2>4 DEF Admits, Current
<1>2. QED BY <1>1, TypeCorrect, PTL DEF Spec, ExpiredStaysExpired

----------------------------------------------------------------------------
(***************************************************************************)
(* An opted-in session's log authorises its own senders, whatever appends  *)
(* leave in the file and however often the relay restarts.                 *)
(*                                                                         *)
(* Unlike those about durability this theorem needs no assumption about    *)
(* the file system: torn and fused lines may lose messages, but replay     *)
(* repeats the binding check on every line, so what is left still binds.   *)
(* Two facts make it inductive: the bindings of the session are exactly    *)
(* the enrollments of its log, and no session-created line follows another *)
(* line, so replay never opts a session in over messages it did not check. *)
(***************************************************************************)

\* The first n messages hold an enrollment of key k for role r.
Enrols(m, n, r, k) ==
  \E j \in 1 .. n : IsEnrollment(m[j]) /\ m[j].role = r /\ m[j].key = k

\* The messages before the i-th authorise it.
Speaks(m, i) ==
  /\ m[i].role = "host" => m[i].key = HostKey
  /\ IsEnrollment(m[i]) => /\ \A k \in Keys : ~Enrols(m, i - 1, m[i].role, k)
                           /\ ~Enrols(m, i - 1, Other(m[i].role), m[i].key)
  /\ m[i].role \in Parties /\ ~IsEnrollment(m[i]) => Enrols(m, i - 1, m[i].role, m[i].key)

Bound(s) ==
  /\ s.authorized => \A i \in 1 .. Len(s.messages) : Speaks(s.messages, i)
  /\ \A r \in Parties, k \in Keys :
       s.bindings[r] = k <=> s.authorized /\ Enrols(s.messages, Len(s.messages), r, k)

CreatedOnly(L)  == \A i \in 1 .. Len(L) : L[i].type = "created"
CreatedFirst(L) == \A j \in 1 .. Len(L) : L[j].type = "created" =>
                     \A i \in 1 .. j : L[i].type = "created"

\* A request under way passed the check its session makes before the lock,
\* and the one being appended the check under the lock.
Signed(request) ==
  request # None /\ request.type = "message" /\ session.authorized
    => (request.envelope.role = "host" => request.envelope.key = HostKey)

Allowed(request) ==
  request # None /\ request.type = "message" => ReplayAdmits(session, request.envelope)

BindingInv ==
  /\ Bound(session)
  /\ CreatedFirst(file.lines)
  /\ file.lines # <<>> => file.exists
  /\ phase = "serving" /\ ~known => CreatedOnly(file.lines)
  /\ phase = "replaying" /\ session.messages # <<>> =>
       \E j \in 1 .. read : file.lines[j].type # "created"
  /\ ~known => \A c \in Clients : inflight[c] = None
  /\ \A c \in Clients : Signed(inflight[c])
  /\ Allowed(writing)

----------------------------------------------------------------------------
(* Lemmas about the file                                                   *)

\* What an append can do to the lines: nothing, drop the unterminated last
\* one, and add its own.
LEMMA WriteLines ==
  ASSUME NEW f \in Files, NEW rec \in Records, NEW leaves \in Leftovers
  PROVE  /\ Write(f, rec, leaves).exists
         /\ \E base \in {f.lines, SubSeq(f.lines, 1, Len(f.lines) - 1)} :
              Write(f, rec, leaves).lines \in {base, Append(base, rec)}
<1>1. CASE leaves = "nothing"
  BY <1>1 DEF Write, Files
<1>2. CASE leaves = "line"
  BY <1>2 DEF Write, Files
<1>3. CASE leaves = "bare"
  BY <1>3 DEF Write, Files
<1>4. CASE leaves = "fragment"
  BY <1>4 DEF Write, Files
<1>5. QED BY <1>1, <1>2, <1>3, <1>4 DEF Leftovers

\* session-created lines stay in front when only they precede a new one.
LEMMA WriteCreated ==
  ASSUME NEW f \in Files, NEW rec \in Records, NEW leaves \in Leftovers,
         CreatedFirst(f.lines), rec.type = "created" => CreatedOnly(f.lines)
  PROVE  /\ CreatedFirst(Write(f, rec, leaves).lines)
         /\ rec.type = "created" => CreatedOnly(Write(f, rec, leaves).lines)
<1> DEFINE L == f.lines
           S == SubSeq(L, 1, Len(L) - 1)
<1>0. L \in Seq(Records) /\ Len(L) \in Nat
  BY DEF Files
<1>1. /\ S \in Seq(Records) /\ Len(S) \in Nat /\ Len(S) <= Len(L)
      /\ \A i \in 1 .. Len(S) : S[i] = L[i]
  <2>1. CASE L = <<>>
    BY <2>1
  <2>2. CASE L # <<>>
    <3>1. Len(L) \in Nat /\ Len(L) >= 1
      BY <1>0, <2>2
    <3>2. /\ S \in Seq(Records) /\ Len(S) = Len(L) - 1
          /\ \A i \in 1 .. Len(L) - 1 : S[i] = L[i]
      BY <1>0, <3>1
    <3>3. QED BY <3>1, <3>2
  <2>3. QED BY <2>1, <2>2
<1> HIDE DEF S
<1>2. PICK base \in {L, S} : Write(f, rec, leaves).lines \in {base, Append(base, rec)}
  BY WriteLines DEF S
<1>3. /\ base \in Seq(Records) /\ Len(base) \in Nat /\ Len(base) <= Len(L)
      /\ \A i \in 1 .. Len(base) : base[i] = L[i]
  BY <1>0, <1>1, <1>2
<1>4. CreatedFirst(base) /\ (rec.type = "created" => CreatedOnly(base))
  <2>1. \A i \in 1 .. Len(base) : i \in 1 .. Len(L) /\ base[i] = L[i]
    BY <1>0, <1>3
  <2>2. \A j \in 1 .. Len(base) : \A i \in 1 .. j : i \in 1 .. Len(base)
    BY <1>3
  <2>3. CreatedFirst(base)
    BY <2>1, <2>2 DEF CreatedFirst
  <2>4. rec.type = "created" => CreatedOnly(base)
    BY <2>1 DEF CreatedOnly
  <2>5. QED BY <2>3, <2>4
<1> DEFINE A == Append(base, rec)
<1>5. /\ Len(A) = Len(base) + 1 /\ A[Len(base) + 1] = rec
      /\ \A i \in 1 .. Len(base) : A[i] = base[i]
  BY <1>3
<1> HIDE DEF A
<1>6. CreatedFirst(A) /\ (rec.type = "created" => CreatedOnly(A))
  <2>1. /\ \A j \in 1 .. Len(A) : j \in 1 .. Len(base) \/ j = Len(base) + 1
        /\ \A i \in 1 .. Len(base) + 1 : i \in 1 .. Len(base) \/ i = Len(base) + 1
        /\ \A j \in 1 .. Len(base) : \A i \in 1 .. j : i \in 1 .. Len(base)
    BY <1>3, <1>5
  <2>2. rec.type = "created" => CreatedOnly(A)
    BY <1>4, <1>5, <2>1 DEF CreatedOnly
  <2>3. ASSUME NEW j \in 1 .. Len(A), A[j].type = "created", NEW i \in 1 .. j
        PROVE  A[i].type = "created"
    <3>1. CASE j \in 1 .. Len(base)
      BY <1>4, <1>5, <2>1, <2>3, <3>1 DEF CreatedFirst
    <3>2. CASE j = Len(base) + 1
      <4>1. CreatedOnly(base) /\ rec.type = "created"
        BY <1>4, <1>5, <2>3, <3>2
      <4>2. i \in 1 .. Len(base) \/ i = Len(base) + 1
        BY <2>1, <3>2
      <4>3. QED BY <1>5, <4>1, <4>2 DEF CreatedOnly
    <3>3. QED BY <2>1, <3>1, <3>2
  <2>4. CreatedFirst(A)
    BY <2>3 DEF CreatedFirst
  <2>5. QED BY <2>2, <2>4
<1>7. QED BY <1>2, <1>4, <1>6 DEF A

----------------------------------------------------------------------------
(* Lemmas about sessions                                                   *)

LEMMA PartnerOf ==
  ASSUME NEW r \in Parties
  PROVE  Other(r) \in Parties /\ Other(r) # r
<1>1. \E o \in Parties : o # r
  BY DEF Parties
<1>2. QED BY <1>1 DEF Other

LEMMA FreshBound ==
  ASSUME NEW auth \in BOOLEAN
  PROVE  Bound(CreateSessionState(auth))
BY RelayAssumption DEF Bound, CreateSessionState, Enrols

\* Only the log, the bindings and the opt-in matter.
LEMMA SameBound ==
  ASSUME NEW s \in Sessions, NEW t \in Sessions, Bound(s),
         t.messages = s.messages, t.bindings = s.bindings, t.authorized = s.authorized
  PROVE  Bound(t)
BY DEF Bound

\* A message that passed the check keeps the log speaking for itself, and the
\* bindings its enrollments.
LEMMA StoreBound ==
  ASSUME NEW s \in Sessions, NEW e \in Envelopes, Bound(s), ReplayAdmits(s, e),
         NEW t \in Sessions, t.authorized = s.authorized,
         t.messages = Append(s.messages, e),
         t.bindings = IF s.authorized THEN Bind(s.bindings, e) ELSE s.bindings
  PROVE  Bound(t)
<1> DEFINE m == s.messages
           n == Len(m)
           A == Append(m, e)
<1>1. /\ n \in Nat /\ Len(A) = n + 1 /\ A[n + 1] = e
      /\ \A i \in 1 .. n : A[i] = m[i]
  BY DEF Sessions
<1>2. s.bindings \in [Parties -> Keys \cup {None}] /\ s.authorized \in BOOLEAN
  BY DEF Sessions
<1>3. e.role \in Roles /\ e.key \in Keys
  BY EnvelopeFields
<1> HIDE DEF m, n, A
<1>4. \A k \in 0 .. n : \A r, x : Enrols(A, k, r, x) <=> Enrols(m, k, r, x)
  BY <1>1 DEF Enrols
<1>5. \A r, x : Enrols(A, n + 1, r, x) <=>
                  Enrols(m, n, r, x) \/ (IsEnrollment(e) /\ e.role = r /\ e.key = x)
  <2> TAKE r, x
  <2>1. Enrols(A, n + 1, r, x) =>
          Enrols(m, n, r, x) \/ (IsEnrollment(e) /\ e.role = r /\ e.key = x)
    BY <1>1 DEF Enrols
  <2>2. Enrols(m, n, r, x) => Enrols(A, n + 1, r, x)
    BY <1>1 DEF Enrols
  <2>3. IsEnrollment(e) /\ e.role = r /\ e.key = x => Enrols(A, n + 1, r, x)
    <3>1. n + 1 \in 1 .. n + 1
      BY <1>1
    <3>2. QED BY <1>1, <3>1 DEF Enrols
  <2>4. QED BY <2>1, <2>2, <2>3
\* While the session is not opted in, nothing is bound and nothing is claimed.
<1>6. CASE ~s.authorized
  BY <1>6 DEF Bound
<1>7. CASE s.authorized
  <2>1. t.bindings = Bind(s.bindings, e) /\ t.authorized /\ t.messages = A
    BY <1>7 DEF A, m
  <2>2. \A i \in 1 .. n : Speaks(m, i)
    BY <1>7 DEF Bound, m, n
  <2>3. \A r \in Parties, k \in Keys : s.bindings[r] = k <=> Enrols(m, n, r, k)
    BY <1>7 DEF Bound, m, n
  <2>4. /\ e.role = "host" => e.key = HostKey
        /\ BindingAdmits(s.bindings, e)
    BY <1>7 DEF ReplayAdmits
  <2>5. \A i \in 1 .. n : Speaks(A, i)
    <3> TAKE i \in 1 .. n
    <3>1. i - 1 \in 0 .. n /\ A[i] = m[i]
      BY <1>1
    <3>2. Speaks(m, i)
      BY <2>2
    <3>3. QED BY <1>4, <3>1, <3>2 DEF Speaks
  <2>6. Speaks(A, n + 1)
    <3>1. (n + 1) - 1 = n /\ n \in 0 .. n
      <4>1. n \in Nat
        BY <1>1
      <4>2. QED BY ONLY <4>1
    <3>2. \A r, x : Enrols(A, (n + 1) - 1, r, x) <=> Enrols(m, n, r, x)
      BY <1>4, <3>1
    <3>3. ASSUME IsEnrollment(e)
          PROVE  /\ \A k \in Keys : ~Enrols(m, n, e.role, k)
                 /\ ~Enrols(m, n, Other(e.role), e.key)
      <4>1. e.role \in Parties /\ Other(e.role) \in Parties /\ e.role # "host"
        BY <3>3, PartnerOf DEF IsEnrollment, Parties
      <4>2. s.bindings[e.role] = None /\ s.bindings[Other(e.role)] # e.key
        BY <2>4, <3>3, <4>1 DEF BindingAdmits
      <4>3. None \notin Keys
        BY RelayAssumption
      <4>4. QED BY <1>3, <2>3, <4>1, <4>2, <4>3
    <3>4. ASSUME e.role \in Parties, ~IsEnrollment(e) PROVE Enrols(m, n, e.role, e.key)
      <4>1. e.role # "host"
        BY <3>4 DEF Parties
      <4>2. QED BY <1>3, <2>3, <2>4, <3>4, <4>1 DEF BindingAdmits
    <3>5. QED BY <1>1, <2>4, <3>2, <3>3, <3>4 DEF Speaks
  <2>7. \A i \in 1 .. n + 1 : Speaks(A, i)
    BY <1>1, <2>5, <2>6
  <2>8. ASSUME NEW r \in Parties, NEW k \in Keys
        PROVE  t.bindings[r] = k <=> Enrols(A, n + 1, r, k)
    <3>1. CASE IsEnrollment(e) /\ r = e.role
      <4>1. t.bindings[r] = e.key
        BY <1>2, <2>1, <3>1 DEF Bind
      <4>2. s.bindings[r] = None /\ None \notin Keys
        BY <2>4, <3>1, RelayAssumption DEF BindingAdmits, IsEnrollment, Parties
      <4>3. ~Enrols(m, n, r, k)
        BY <2>3, <4>2
      <4>4. QED BY <1>5, <3>1, <4>1, <4>3
    <3>2. CASE ~(IsEnrollment(e) /\ r = e.role)
      <4>1. t.bindings[r] = s.bindings[r]
        BY <1>2, <2>1, <3>2 DEF Bind
      <4>2. QED BY <1>5, <2>3, <3>2, <4>1
    <3>3. QED BY <3>1, <3>2
  <2>9. QED BY <1>1, <2>1, <2>7, <2>8 DEF Bound
<1>8. QED BY <1>2, <1>6, <1>7

----------------------------------------------------------------------------
(* The invariant                                                           *)

LEMMA InitBinding == Init => BindingInv
<1> SUFFICES ASSUME Init PROVE BindingInv
  OBVIOUS
<1>1. /\ file.lines = <<>> /\ phase = "serving" /\ writing = None
      /\ \A c \in Clients : inflight[c] = None
  BY DEF Init
<1>2. Bound(session)
  BY FreshBound DEF Init
<1>3. CreatedOnly(file.lines) /\ CreatedFirst(file.lines)
  BY <1>1 DEF CreatedOnly, CreatedFirst
<1>4. QED BY <1>1, <1>2, <1>3 DEF BindingInv, Signed, Allowed

LEMMA StepBinding ==
  ASSUME TypeOK, PhaseInv, BindingInv, [Next]_vars
  PROVE  BindingInv'
<1> DEFINE L == file.lines
<1>0. /\ file \in Files /\ L \in Seq(Records) /\ Len(L) \in Nat /\ session \in Sessions
      /\ FailLeaves \subseteq Leftovers /\ CrashLeaves \subseteq Leftovers
      /\ "line" \in Leftovers
  BY RelayAssumption DEF TypeOK, Files, Leftovers
<1>s. session' \in Sessions
  BY StepType DEF TypeOK
\* Steps that touch neither memory nor journal.
<1>q. ASSUME UNCHANGED <<phase, known, session, file, read>>,
             Allowed(writing'), \A c \in Clients : Signed(inflight'[c]),
             ~known => UNCHANGED inflight
      PROVE  BindingInv'
  BY <1>q DEF BindingInv, Signed, Allowed
<1>n. Allowed(None) /\ Allowed(writing)
  BY DEF Allowed, BindingInv
<1>k. (writing # None => queue # <<>>) /\ (queue # <<>> => phase = "serving" /\ known)
  BY DEF PhaseInv
<1>a. ASSUME queue # <<>>, Answer(Head(queue)) PROVE \A c \in Clients : Signed(inflight'[c])
  BY <1>a DEF Answer, Signed, BindingInv, TypeOK
<1>1. ASSUME NEW auth \in Modes, BeginCreate(auth) PROVE BindingInv'
  BY <1>1, <1>q, <1>n DEF BeginCreate, memory, BindingInv
<1>2. CASE FinishCreate \/ FailCreate
  <2>1. /\ creating # None /\ phase = "serving" /\ ~known /\ writing = None
        /\ \A c \in Clients : inflight[c] = None
    BY <1>2 DEF FinishCreate, FailCreate, PhaseInv, BindingInv
  <2>2. creating \in Records /\ creating.type = "created" /\ creating.authorized \in BOOLEAN
    BY <2>1 DEF TypeOK, Records
  <2>3. PICK leaves \in Leftovers : file' = Write(file, creating, leaves)
    BY <1>0, <1>2 DEF FinishCreate, FailCreate
  <2>4. /\ CreatedFirst(file'.lines) /\ CreatedOnly(file'.lines)
    BY <1>0, <2>1, <2>2, <2>3, WriteCreated DEF BindingInv
  <2>5. file'.exists
    BY <1>0, <2>2, <2>3, WriteLines
  <2>6. Bound(session')
    BY <1>2, <2>2, FreshBound DEF FinishCreate, FailCreate, memory, BindingInv
  <2>7. /\ phase' = "serving" /\ writing' = None
        /\ \A c \in Clients : inflight'[c] = None
    BY <1>2, <2>1 DEF FinishCreate, FailCreate
  <2>8. QED BY <2>4, <2>5, <2>6, <2>7 DEF BindingInv, Signed, Allowed
<1>3. ASSUME NEW c \in Clients, NEW e \in Submitted, NEW t \in Time, ReceivePost(c, e, t)
      PROVE  BindingInv'
  <2>1. Signed([type |-> "message", envelope |-> e])
    BY <1>3 DEF ReceivePost, Signed, Verifies
  <2>2. \A d \in Clients : Signed(inflight'[d])
    BY <1>3, <2>1 DEF ReceivePost, TypeOK, BindingInv
  <2>3. QED BY <1>3, <1>q, <1>n, <2>2 DEF ReceivePost, memory
<1>4. ASSUME NEW e \in Submitted, NEW t \in Time, RefusePost(e, t) PROVE BindingInv'
  BY <1>4, <1>q, <1>n DEF RefusePost, memory, BindingInv
<1>5. ASSUME NEW c \in Clients, NEW s \in Slots, NEW v \in Values, ReceivePut(c, s, v)
      PROVE  BindingInv'
  <2>1. Signed([type |-> "put", slot |-> s, value |-> v])
    BY DEF Signed
  <2>2. \A d \in Clients : Signed(inflight'[d])
    BY <1>5, <2>1 DEF ReceivePut, TypeOK, BindingInv
  <2>3. QED BY <1>5, <1>q, <1>n, <2>2 DEF ReceivePut, memory
<1>6. ASSUME NEW r \in Readers, (\E n \in 0 .. MaxSeq : Poll(r, n)) \/ EndPoll(r)
      PROVE  BindingInv'
  BY <1>6, <1>q, <1>n DEF Poll, EndPoll, memory, BindingInv
<1>7. ASSUME NEW t \in Time, Admit(t) PROVE BindingInv'
  <2> DEFINE request == inflight[Head(queue)]
  <2>1. Head(queue) \in Clients /\ writing' = request
    BY <1>7, QueueTail DEF Admit, TypeOK
  <2>2. Signed(request)
    BY <2>1 DEF BindingInv
  <2>3. Allowed(writing')
    <3>1. SUFFICES ASSUME request # None, request.type = "message"
                   PROVE  ReplayAdmits(session, request.envelope)
      BY <2>1 DEF Allowed
    <3>2. Admits(session, request.envelope, highest')
      BY <1>7, <3>1 DEF Admit
    <3>3. QED BY <2>2, <3>1, <3>2 DEF Signed, Admits, ReplayAdmits
  <2>4. QED BY <1>7, <1>q, <2>3 DEF Admit, memory, BindingInv
<1>8. ASSUME NEW t \in Time, Refuse(t) PROVE BindingInv'
  BY <1>8, <1>q, <1>n, <1>a, <1>k DEF Refuse, memory
\* An append under the lock, whatever it leaves.
<1>w. ASSUME writing # None, NEW leaves \in Leftovers, file' = Write(file, writing, leaves)
      PROVE  file'.exists /\ CreatedFirst(file'.lines)
  <2>1. writing \in Records /\ writing.type # "created"
    BY <1>w DEF TypeOK, Requests, Records
  <2>2. file'.exists
    BY <1>0, <1>w, <2>1, WriteLines
  <2>3. QED BY <1>0, <1>w, <2>1, <2>2, WriteCreated DEF BindingInv
<1>9. ASSUME CompletePost \/ CompletePut PROVE BindingInv'
  <2>1. /\ writing # None /\ writing \in Requests /\ queue # <<>>
        /\ phase = "serving" /\ known
    BY <1>9, <1>k DEF CompletePost, CompletePut, TypeOK
  <2>2. file'.exists /\ CreatedFirst(file'.lines)
    BY <1>0, <1>9, <1>w DEF CompletePost, CompletePut
  <2>3. Bound(session')
    <3>1. CASE CompletePut
      <4>1. session'.messages = session.messages /\ session'.bindings = session.bindings
            /\ session'.authorized = session.authorized
        BY <1>0, <3>1 DEF CompletePut, Sessions
      <4>2. QED BY <1>0, <1>s, <4>1, SameBound DEF BindingInv
    <3>2. CASE CompletePost
      <4> DEFINE e == writing.envelope
      <4>1. e \in Envelopes /\ ReplayAdmits(session, e)
        BY <2>1, <3>2 DEF CompletePost, Requests, BindingInv, Allowed
      <4>2. /\ session'.authorized = session.authorized
            /\ session'.messages = Append(session.messages, e)
            /\ session'.bindings = IF session.authorized THEN Bind(session.bindings, e)
                                   ELSE session.bindings
        BY <1>0, <3>2 DEF CompletePost, Sessions
      <4> HIDE DEF e
      <4>3. QED BY <1>0, <1>s, <4>1, <4>2, StoreBound DEF BindingInv
    <3>3. QED BY <1>9, <3>1, <3>2
  <2>4. session'.authorized = session.authorized
    BY <1>0, <1>9 DEF CompletePost, CompletePut, Sessions
  <2>5. /\ phase' = "serving" /\ known' /\ writing' = None
        /\ \A c \in Clients : Signed(inflight'[c])
    BY <1>9, <1>a, <2>1 DEF CompletePost, CompletePut
  <2>6. QED BY <2>2, <2>3, <2>4, <2>5 DEF BindingInv, Signed, Allowed
<1>10. CASE FailAppend
  <2>1. /\ writing # None /\ queue # <<>> /\ phase = "serving" /\ known
        /\ Answer(Head(queue))
    BY <1>10, <1>k DEF FailAppend
  <2>2. file'.exists /\ CreatedFirst(file'.lines)
    BY <1>0, <1>10, <1>w DEF FailAppend
  <2>3. QED BY <1>10, <1>a, <2>1, <2>2 DEF FailAppend, memory, BindingInv, Signed, Allowed
<1>11. CASE Crash
  <2>1. /\ phase' = "replaying" /\ known' = FALSE /\ writing' = None
        /\ session' = CreateSessionState(FALSE)
        /\ \A c \in Clients : inflight'[c] = None
    BY <1>11 DEF Crash
  <2>2. Bound(session') /\ session'.messages = <<>>
    BY <2>1, FreshBound DEF CreateSessionState
  <2>3. CreatedFirst(file'.lines) /\ (file'.lines # <<>> => file'.exists)
    <3>1. CASE creating = None /\ writing = None
      BY <1>11, <3>1 DEF Crash, BindingInv
    <3>2. CASE creating # None
      <4>1. creating \in Records /\ CreatedOnly(L)
        BY <3>2 DEF TypeOK, Records, PhaseInv, BindingInv
      <4>2. PICK leaves \in Leftovers : file' = Write(file, creating, leaves)
        BY <1>0, <1>11, <3>2 DEF Crash
      <4>3. file'.exists
        BY <1>0, <4>1, <4>2, WriteLines
      <4>4. QED BY <1>0, <4>1, <4>2, <4>3, WriteCreated DEF BindingInv
    <3>3. CASE creating = None /\ writing # None
      BY <1>0, <1>11, <1>w, <3>3 DEF Crash
    <3>4. QED BY <3>1, <3>2, <3>3
  <2>4. QED BY <2>1, <2>2, <2>3 DEF BindingInv, Signed, Allowed
<1>12. CASE ReplayLine
  <2> DEFINE rec == L[read + 1]
  <2>1. /\ phase = "replaying" /\ ~known /\ writing = None /\ read \in Nat
        /\ read < Len(L) /\ session' = ApplyRecord(session, rec)
        /\ \A c \in Clients : inflight[c] = None
    BY <1>12 DEF ReplayLine, PhaseInv, BindingInv, TypeOK
  <2>2. read + 1 \in 1 .. Len(L) /\ rec \in Records
    BY <1>0, <2>1
  <2>3. UNCHANGED <<phase, known, file, writing, inflight>> /\ read' = read + 1
    BY <1>12 DEF ReplayLine
  <2> HIDE DEF rec
  <2>4. /\ Bound(session')
        /\ session'.messages # <<>> =>
             session.messages # <<>> \/ rec.type # "created"
    <3>1. CASE rec.type = "created"
      <4>1. /\ session'.messages = session.messages /\ session'.bindings = session.bindings
            /\ session'.authorized = (session.authorized \/ rec.authorized)
        BY <1>0, <2>1, <3>1 DEF ApplyRecord, Sessions
      <4>2. session.messages = <<>>
        <5>1. \A i \in 1 .. read + 1 : L[i].type = "created"
          BY <2>2, <3>1 DEF BindingInv, CreatedFirst, rec
        <5>2. \A i \in 1 .. read : L[i].type = "created"
          BY <2>1, <5>1
        <5>3. QED BY <2>1, <5>2 DEF BindingInv
      <4>3. QED BY <4>1, <4>2 DEF BindingInv, Bound, Enrols
    <3>2. CASE rec.type = "put"
      <4>1. /\ session'.messages = session.messages /\ session'.bindings = session.bindings
            /\ session'.authorized = session.authorized
        BY <1>0, <2>1, <3>2 DEF ApplyRecord, Sessions
      <4>2. QED BY <1>0, <1>s, <3>2, <4>1, SameBound DEF BindingInv
    <3>3. CASE rec.type = "message"
      <4> DEFINE e == rec.envelope
      <4>1. e \in Envelopes /\ Bound(session)
        BY <2>2, <3>3, RecordFields DEF BindingInv
      <4>2. CASE ~ReplayAdmits(session, e)
        BY <2>1, <3>3, <4>1, <4>2 DEF ApplyRecord
      <4>3. CASE ReplayAdmits(session, e)
        <5>1. session' = Store(session, e)
          BY <2>1, <3>3, <4>3 DEF ApplyRecord
        <5> HIDE DEF e
        <5>2. /\ session'.authorized = session.authorized
              /\ session'.messages = Append(session.messages, e)
              /\ session'.bindings = IF session.authorized THEN Bind(session.bindings, e)
                                     ELSE session.bindings
          BY <1>0, <5>1 DEF Store, Sessions
        <5>3. Bound(session')
          BY <1>0, <1>s, <4>1, <4>3, <5>2, StoreBound
        <5>4. QED BY <3>3, <5>3
      <4>4. QED BY <4>2, <4>3
    <3>4. QED BY <2>2, <3>1, <3>2, <3>3, RecordFields
  <2>5. session'.messages # <<>> => \E j \in 1 .. read + 1 : L[j].type # "created"
    BY <2>1, <2>4 DEF BindingInv, rec
  <2>6. QED BY <2>1, <2>3, <2>4, <2>5 DEF BindingInv, Signed, Allowed
<1>13. CASE FinishReplay
  <2>1. /\ phase = "replaying" /\ ~known /\ writing = None
        /\ \A c \in Clients : inflight[c] = None
    BY <1>13 DEF FinishReplay, PhaseInv, BindingInv
  <2>2. /\ phase' = "serving" /\ UNCHANGED <<session, file, writing, inflight>>
        /\ known' = file.exists
    BY <1>13 DEF FinishReplay
  <2>3. ~known' => CreatedOnly(L)
    BY <2>2 DEF BindingInv, CreatedOnly
  <2>4. QED BY <2>1, <2>2, <2>3 DEF BindingInv, Signed, Allowed
<1>14. CASE UNCHANGED vars
  BY <1>14 DEF vars, BindingInv, Signed, Allowed
<1>15. QED
  BY <1>1, <1>2, <1>3, <1>4, <1>5, <1>6, <1>7, <1>8, <1>9, <1>10, <1>11, <1>12,
     <1>13, <1>14 DEF Next, Request, Work, Restart

\* A party's messages follow an enrollment of the same key for its role, a role
\* is enrolled once, no key holds both roles and the host's messages bear the
\* host key -- in every reachable state, with no assumption on what failed or
\* interrupted appends leave behind (bindingFor, replayAdmits).
THEOREM SendersBound == Spec => []SenderBound
<1>1. TypeOK /\ PhaseInv /\ BindingInv /\ [Next]_vars => BindingInv'
  BY StepBinding
<1>2. TypeOK /\ BindingInv => SenderBound
  <2> SUFFICES ASSUME TypeOK, BindingInv, session.authorized,
                      NEW i \in DOMAIN session.messages
               PROVE  Speaks(session.messages, i)
    BY DEF SenderBound, Speaks, Enrols
  <2>1. DOMAIN session.messages = 1 .. Len(session.messages)
    BY DEF TypeOK, Sessions
  <2>2. QED BY <2>1 DEF BindingInv, Bound
<1>3. QED BY InitBinding, TypeCorrect, <1>1, <1>2, PTL DEF Spec

----------------------------------------------------------------------------
(***************************************************************************)
(* The relay's log is gapless, durable and speaks for itself, for every    *)
(* number of clients, keys, messages and crashes, provided an append that  *)
(* fails leaves nothing in the file and one cut off by a crash leaves      *)
(* nothing or the whole line.                                              *)
(*                                                                         *)
(* The properties are not inductive: what memory holds after a restart     *)
(* depends on what the journal holds, so the invariant says (1) the journal*)
(* could have been written by admitting its lines one at a time, and (2)   *)
(* memory reflects a prefix of it -- all of it while the relay serves, the *)
(* lines read so far while it restarts.  Applying the next line to a       *)
(* session that reflects the lines before it is one lemma, used both for   *)
(* replay and for a request admitted under the lock.                       *)
(***************************************************************************)

\* What an interrupted append may leave, for the theorems about durability.
CleanWrites == FailLeaves \subseteq {"nothing"} /\ CrashLeaves \subseteq {"nothing", "line"}

OptedIn(L) == Len(L) >= 1 /\ L[1].type = "created" /\ L[1].authorized

\* The first n lines of a journal hold an enrollment of key k for role r.
EnrolledIn(L, n, r, k) ==
  \E j \in 1 .. n : /\ L[j].type = "message" /\ IsEnrollment(L[j].envelope)
                    /\ L[j].envelope.role = r /\ L[j].envelope.key = k

\* A record that may follow the first n lines of journal L.
Numbered(L, n, e) ==
  /\ \A j \in 1 .. n : L[j].type = "message" => L[j].envelope.seq < e.seq
  /\ e.seq = 1 \/ \E j \in 1 .. n : L[j].type = "message" /\ L[j].envelope.seq = e.seq - 1

Authorised(L, n, e) ==
  /\ e.role = "host" => e.key = HostKey
  /\ IsEnrollment(e) => /\ \A k \in Keys : ~EnrolledIn(L, n, e.role, k)
                        /\ ~EnrolledIn(L, n, Other(e.role), e.key)
  /\ e.role \in Parties /\ ~IsEnrollment(e) => EnrolledIn(L, n, e.role, e.key)

Fits(L, n, rec) ==
  /\ rec.type = "created" => n = 0
  /\ rec.type = "message" =>
       /\ Numbered(L, n, rec.envelope)
       /\ n >= 1 /\ OptedIn(L) => Authorised(L, n, rec.envelope)

Journal(L) == \A i \in DOMAIN L : Fits(L, i - 1, L[i])

\* The envelopes a journal holds.
Journalled(L) == {L[j].envelope : j \in {i \in DOMAIN L : L[i].type = "message"}}

\* Session s is what the first p lines of journal L say.
Gapless(s) ==
  /\ \A i \in DOMAIN s.messages : s.messages[i].seq = i
  /\ s.lastSeq = Len(s.messages)

Holds(s, L, p) ==
  /\ \A j \in 1 .. p : L[j].type = "message" =>
       /\ L[j].envelope.seq <= s.lastSeq
       /\ s.messages[L[j].envelope.seq] = L[j].envelope
  /\ \A n \in 1 .. s.lastSeq :
       \E j \in 1 .. p : L[j].type = "message" /\ L[j].envelope = s.messages[n]

Bindings(s, L, p) ==
  /\ s.authorized <=> p >= 1 /\ OptedIn(L)
  /\ \A r \in Parties, k \in Keys :
       s.bindings[r] = k <=> s.authorized /\ EnrolledIn(L, p, r, k)

Reflects(s, L, p) == Gapless(s) /\ Holds(s, L, p) /\ Bindings(s, L, p)

\* The inductive invariant.
HostKeyed(request) ==
  request # None /\ request.type = "message" /\ session.authorized
    => (request.envelope.role = "host" => request.envelope.key = HostKey)

Admitted(s, request) ==
  request.type = "message" =>
    LET e == request.envelope IN
    /\ e.seq = s.lastSeq + 1
    /\ s.authorized => ReplayAdmits(s, e)

Progress == IF phase = "serving" THEN Len(file.lines) ELSE read

DurabilityInv ==
  /\ file.tail = "whole"
  /\ Journal(file.lines)
  /\ Progress \in 0 .. Len(file.lines)
  /\ Reflects(session, file.lines, Progress)
  /\ file.lines # <<>> => file.exists
  /\ phase = "serving" /\ ~known => file.lines = <<>>
  /\ ~known => \A c \in Clients : inflight[c] = None
  /\ \A c \in Clients : HostKeyed(inflight[c])
  /\ writing # None => Admitted(session, writing)
  /\ told \subseteq Journalled(file.lines)

----------------------------------------------------------------------------
(* Lemmas about journals                                                   *)

LEMMA OtherParty ==
  ASSUME NEW r \in Parties
  PROVE  Other(r) \in Parties /\ Other(r) # r
<1>1. \E o \in Parties : o # r
  BY DEF Parties
<1>2. QED BY <1>1 DEF Other

\* One more line does not change what the lines before it are.
LEMMA AppendKeeps ==
  ASSUME NEW L \in Seq(Records), NEW rec \in Records
  PROVE  /\ Append(L, rec) \in Seq(Records)
         /\ Len(Append(L, rec)) = Len(L) + 1
         /\ \A j \in 1 .. Len(L) : Append(L, rec)[j] = L[j]
         /\ Append(L, rec)[Len(L) + 1] = rec
         /\ Len(L) >= 1 => (OptedIn(Append(L, rec)) <=> OptedIn(L))
         /\ \A n \in 0 .. Len(L) : \A r, k :
              EnrolledIn(Append(L, rec), n, r, k) <=> EnrolledIn(L, n, r, k)
<1> DEFINE A == Append(L, rec)
<1>1. /\ A \in Seq(Records) /\ Len(A) = Len(L) + 1 /\ Len(L) \in Nat
      /\ \A j \in 1 .. Len(L) : A[j] = L[j]
      /\ A[Len(L) + 1] = rec
  OBVIOUS
<1> HIDE DEF A
<1>2. Len(L) >= 1 => (OptedIn(A) <=> OptedIn(L))
  BY <1>1 DEF OptedIn
<1>3. \A n \in 0 .. Len(L) : \A j \in 1 .. n : A[j] = L[j]
  BY <1>1
<1>4. \A n \in 0 .. Len(L) : \A r, k : EnrolledIn(A, n, r, k) <=> EnrolledIn(L, n, r, k)
  BY <1>3 DEF EnrolledIn
<1>5. QED BY <1>1, <1>2, <1>4 DEF A

\* Fits speaks of the lines before it only.
LEMMA FitsPrefix ==
  ASSUME NEW L \in Seq(Records), NEW rec \in Records, NEW n \in 0 .. Len(L), NEW x
  PROVE  Fits(Append(L, rec), n, x) <=> Fits(L, n, x)
<1> DEFINE A == Append(L, rec)
<1>1. /\ \A j \in 1 .. n : A[j] = L[j]
      /\ n >= 1 => (OptedIn(A) <=> OptedIn(L))
      /\ \A r, k : EnrolledIn(A, n, r, k) <=> EnrolledIn(L, n, r, k)
  BY AppendKeeps
<1> HIDE DEF A
<1>2. Numbered(A, n, x.envelope) <=> Numbered(L, n, x.envelope)
  BY <1>1 DEF Numbered
<1>3. Authorised(A, n, x.envelope) <=> Authorised(L, n, x.envelope)
  BY <1>1 DEF Authorised
<1>4. QED BY <1>1, <1>2, <1>3 DEF Fits, A

\* A journal extended by a line that fits is a journal.
LEMMA AppendJournal ==
  ASSUME NEW L \in Seq(Records), NEW rec \in Records, Journal(L), Fits(L, Len(L), rec)
  PROVE  Journal(Append(L, rec))
<1> DEFINE A == Append(L, rec)
<1> SUFFICES ASSUME NEW i \in 1 .. Len(L) + 1 PROVE Fits(A, i - 1, A[i])
  BY AppendKeeps DEF Journal
<1>1. CASE i = Len(L) + 1
  BY <1>1, AppendKeeps, FitsPrefix
<1>2. CASE i \in 1 .. Len(L)
  <2>1. Fits(L, i - 1, L[i])
    BY <1>2 DEF Journal
  <2>2. QED BY <1>2, <2>1, AppendKeeps, FitsPrefix
<1>3. QED BY <1>1, <1>2

\* What reflects a prefix of a journal still does when the journal grows.
LEMMA ReflectsPrefix ==
  ASSUME NEW L \in Seq(Records), NEW rec \in Records, NEW s \in Sessions,
         NEW p \in 0 .. Len(L), Reflects(s, L, p)
  PROVE  Reflects(s, Append(L, rec), p)
<1> DEFINE A == Append(L, rec)
<1>1. /\ \A j \in 1 .. p : A[j] = L[j]
      /\ p >= 1 => (OptedIn(A) <=> OptedIn(L))
      /\ \A r, k : EnrolledIn(A, p, r, k) <=> EnrolledIn(L, p, r, k)
  BY AppendKeeps
<1> HIDE DEF A
<1>2. Holds(s, A, p)
  BY <1>1 DEF Reflects, Holds
<1>3. Bindings(s, A, p)
  BY <1>1 DEF Reflects, Bindings
<1>4. QED BY <1>2, <1>3 DEF Reflects, A

----------------------------------------------------------------------------
(* Applying the next line                                                  *)

\* Replay admits the next message of a journal, and it is the next in number.
LEMMA NextMessageAdmitted ==
  ASSUME NEW L \in Seq(Records), Journal(L), NEW s \in Sessions,
         NEW p \in 0 .. Len(L) - 1, Reflects(s, L, p), L[p + 1].type = "message"
  PROVE  /\ L[p + 1].envelope.seq = s.lastSeq + 1
         /\ ReplayAdmits(s, L[p + 1].envelope)
<1> DEFINE e == L[p + 1].envelope
<1>1. L[p + 1] \in Records /\ Fits(L, p, L[p + 1])
  <2>1. p + 1 \in DOMAIN L /\ (p + 1) - 1 = p
    OBVIOUS
  <2>2. QED BY <2>1 DEF Journal
<1>2. e \in Envelopes /\ e.seq \in Nat /\ e.seq >= 1 /\ e.role \in Roles /\ e.key \in Keys
  BY <1>1, RecordFields, EnvelopeFields
<1>3. e.seq = s.lastSeq + 1
  <2>1. Numbered(L, p, e)
    BY <1>1 DEF Fits
  <2>2. s.lastSeq \in Nat /\ s.lastSeq = Len(s.messages)
    BY DEF Sessions, Reflects, Gapless
  <2>3. s.lastSeq < e.seq
    <3>1. CASE s.lastSeq = 0
      BY <1>2, <3>1
    <3>2. CASE s.lastSeq >= 1
      <4>1. s.lastSeq \in 1 .. s.lastSeq /\ s.messages[s.lastSeq].seq = s.lastSeq
        BY <2>2, <3>2 DEF Reflects, Gapless, Sessions
      <4>2. PICK j \in 1 .. p : L[j].type = "message" /\ L[j].envelope = s.messages[s.lastSeq]
        BY <4>1 DEF Reflects, Holds
      <4>3. QED BY <2>1, <4>1, <4>2 DEF Numbered
    <3>3. QED BY <2>2, <3>1, <3>2
  <2>4. e.seq - 1 <= s.lastSeq
    BY <1>2, <2>1, <2>2 DEF Numbered, Reflects, Holds
  <2>5. QED BY <1>2, <2>2, <2>3, <2>4
<1>4. ReplayAdmits(s, e)
  <2>1. CASE ~s.authorized
    BY <2>1 DEF ReplayAdmits
  <2>2. CASE s.authorized
    <3>1. Authorised(L, p, e)
      BY <1>1, <2>2 DEF Fits, Reflects, Bindings
    <3>2. \A r \in Parties, k \in Keys : s.bindings[r] = k <=> EnrolledIn(L, p, r, k)
      BY <2>2 DEF Reflects, Bindings
    <3>3. CASE e.role = "host"
      BY <3>1, <3>3 DEF ReplayAdmits, BindingAdmits, Authorised
    <3>4. CASE e.role \in Parties /\ IsEnrollment(e)
      <4>1. s.bindings[e.role] \in Keys \cup {None}
        BY <3>4 DEF Sessions
      <4>2. s.bindings[e.role] = None
        BY <3>1, <3>2, <3>4, <4>1 DEF Authorised
      <4>3. s.bindings[Other(e.role)] # e.key
        BY <1>2, <3>1, <3>2, <3>4, OtherParty DEF Authorised
      <4>4. e.role # "host"
        BY <3>4 DEF Parties
      <4>5. QED BY <3>4, <4>2, <4>3, <4>4 DEF ReplayAdmits, BindingAdmits
    <3>5. CASE e.role \in Parties /\ ~IsEnrollment(e)
      <4>1. s.bindings[e.role] = e.key
        BY <1>2, <3>1, <3>2, <3>5 DEF Authorised
      <4>2. e.role # "host"
        BY <3>5 DEF Parties
      <4>3. QED BY <3>5, <4>1, <4>2 DEF ReplayAdmits, BindingAdmits
    <3>6. QED BY <1>2, <3>3, <3>4, <3>5 DEF Roles
  <2>3. QED BY <2>1, <2>2
<1>5. QED BY <1>3, <1>4

\* A session that reflects the lines before a line reflects them and the line
\* once the line is applied.
LEMMA ApplyReflects ==
  ASSUME NEW L \in Seq(Records), Journal(L), NEW s \in Sessions,
         NEW p \in 0 .. Len(L) - 1, Reflects(s, L, p)
  PROVE  Reflects(ApplyRecord(s, L[p + 1]), L, p + 1)
<1> DEFINE rec == L[p + 1]
           t == ApplyRecord(s, rec)
<1>1. rec \in Records /\ Fits(L, p, rec)
  <2>1. p + 1 \in DOMAIN L /\ (p + 1) - 1 = p
    OBVIOUS
  <2>2. QED BY <2>1 DEF Journal
<1>2. \A r, k : EnrolledIn(L, p + 1, r, k) <=>
        \/ EnrolledIn(L, p, r, k)
        \/ /\ rec.type = "message" /\ IsEnrollment(rec.envelope)
           /\ rec.envelope.role = r /\ rec.envelope.key = k
  BY DEF EnrolledIn
<1>3. p >= 1 => (s.authorized <=> OptedIn(L))
  BY DEF Reflects, Bindings
<1>4. CASE rec.type = "created"
  <2>1. p = 0
    BY <1>1, <1>4 DEF Fits
  <2>2. s.messages = <<>> /\ s.lastSeq = 0 /\ ~s.authorized
    BY <2>1 DEF Reflects, Holds, Gapless, Bindings, Sessions
  <2>3. t = [s EXCEPT !.authorized = @ \/ rec.authorized]
    BY <1>4 DEF ApplyRecord
  <2>4. /\ t.messages = <<>> /\ t.lastSeq = 0 /\ t.bindings = s.bindings
        /\ t.authorized = rec.authorized
    BY <1>1, <1>4, <2>2, <2>3, RecordFields DEF Sessions
  <2>5. \A r \in Parties, k \in Keys : s.bindings[r] # k
    BY <2>2 DEF Reflects, Bindings
  <2>6. \A r, k : ~EnrolledIn(L, 1, r, k)
    BY <1>2, <1>4, <2>1 DEF EnrolledIn
  <2>7. t.authorized <=> 1 >= 1 /\ OptedIn(L)
    BY <1>4, <2>1, <2>4 DEF OptedIn
  <2>8. Gapless(t) /\ Holds(t, L, 1)
    BY <1>4, <2>1, <2>4 DEF Gapless, Holds
  <2>9. Bindings(t, L, 1)
    BY <2>4, <2>5, <2>6, <2>7 DEF Bindings
  <2>10. QED BY <2>1, <2>8, <2>9 DEF Reflects
<1>5. CASE rec.type = "put"
  <2>1. t = [s EXCEPT !.slots[rec.slot] = rec.value]
    BY <1>5 DEF ApplyRecord
  <2>2. /\ t.messages = s.messages /\ t.lastSeq = s.lastSeq
        /\ t.bindings = s.bindings /\ t.authorized = s.authorized
    BY <2>1 DEF Sessions
  <2>3. \A r, k : EnrolledIn(L, p + 1, r, k) <=> EnrolledIn(L, p, r, k)
    BY <1>2, <1>5
  <2>4. s.authorized <=> OptedIn(L)
    BY <1>3, <1>5 DEF OptedIn, Reflects, Bindings
  <2>5. Gapless(t)
    BY <2>2 DEF Reflects, Gapless
  <2>6. Holds(t, L, p + 1)
    <3>1. \A j \in 1 .. p + 1 : L[j].type = "message" => j \in 1 .. p
      BY <1>5
    <3>2. QED BY <2>2, <3>1 DEF Reflects, Holds
  <2>7. Bindings(t, L, p + 1)
    BY <2>2, <2>3, <2>4 DEF Reflects, Bindings
  <2>8. QED BY <2>5, <2>6, <2>7 DEF Reflects
<1>6. CASE rec.type = "message"
  <2> DEFINE e == rec.envelope
  <2>1. e.seq = s.lastSeq + 1 /\ ReplayAdmits(s, e)
    BY <1>6, NextMessageAdmitted
  <2>2. t = Store(s, e)
    BY <1>6, <2>1 DEF ApplyRecord
  <2>3. e \in Envelopes /\ e.role \in Roles /\ e.key \in Keys
    BY <1>1, <1>6, RecordFields, EnvelopeFields
  <2>4. s.lastSeq \in Nat /\ s.lastSeq = Len(s.messages) /\ s.messages \in Seq(Envelopes)
    BY DEF Sessions, Reflects, Gapless
  <2>5. /\ t.messages = Append(s.messages, e) /\ t.lastSeq = s.lastSeq + 1
        /\ t.authorized = s.authorized
        /\ t.bindings = IF s.authorized THEN Bind(s.bindings, e) ELSE s.bindings
    BY <2>1, <2>2, <2>4 DEF Store, Sessions
  <2>6. /\ Len(t.messages) = s.lastSeq + 1 /\ t.messages[s.lastSeq + 1] = e
        /\ \A i \in 1 .. s.lastSeq : t.messages[i] = s.messages[i]
    BY <2>3, <2>4, <2>5
  <2> HIDE DEF t, e, rec
  <2>7. Gapless(t)
    <3>1. \A i \in 1 .. s.lastSeq : s.messages[i].seq = i
      BY <2>4 DEF Reflects, Gapless
    <3>2. t.messages \in Seq(Envelopes)
      BY <2>3, <2>4, <2>5
    <3>3. DOMAIN t.messages = 1 .. s.lastSeq + 1
      BY <2>6, <3>2
    <3>4. QED BY <2>1, <2>4, <2>5, <2>6, <3>1, <3>3 DEF Gapless
  <2>8. Holds(t, L, p + 1)
    <3>1. ASSUME NEW j \in 1 .. p + 1, L[j].type = "message"
          PROVE  L[j].envelope.seq <= t.lastSeq /\ t.messages[L[j].envelope.seq] = L[j].envelope
      <4>1. CASE j = p + 1
        BY <2>1, <2>4, <2>5, <2>6, <4>1 DEF e, rec
      <4>2. CASE j \in 1 .. p
        <5>1. /\ L[j].envelope.seq <= s.lastSeq
              /\ s.messages[L[j].envelope.seq] = L[j].envelope
          BY <3>1, <4>2 DEF Reflects, Holds
        <5>2. L[j] \in Records
          BY <4>2
        <5>3. L[j].envelope.seq \in Nat /\ L[j].envelope.seq >= 1
          BY <3>1, <5>2, RecordFields, EnvelopeFields
        <5>4. QED BY <2>4, <2>5, <2>6, <5>1, <5>3
      <4>3. QED BY <4>1, <4>2
    <3>2. ASSUME NEW n \in 1 .. t.lastSeq
          PROVE  \E j \in 1 .. p + 1 : L[j].type = "message" /\ L[j].envelope = t.messages[n]
      <4>1. CASE n = s.lastSeq + 1
        BY <1>6, <2>6, <4>1 DEF e, rec
      <4>2. CASE n \in 1 .. s.lastSeq
        <5>1. PICK j \in 1 .. p : L[j].type = "message" /\ L[j].envelope = s.messages[n]
          BY <4>2 DEF Reflects, Holds
        <5>2. QED BY <2>6, <4>2, <5>1
      <4>3. QED BY <2>4, <2>5, <4>1, <4>2
    <3>3. QED BY <3>1, <3>2 DEF Holds
  <2>9. Bindings(t, L, p + 1)
    <3>1. t.authorized <=> OptedIn(L)
      BY <1>3, <1>6, <2>5 DEF OptedIn, Reflects, Bindings, rec
    <3>2. ASSUME NEW r \in Parties, NEW k \in Keys, t.authorized
          PROVE  t.bindings[r] = k <=> EnrolledIn(L, p + 1, r, k)
      <4>1. s.bindings[r] = k <=> EnrolledIn(L, p, r, k)
        BY <2>5, <3>2 DEF Reflects, Bindings
      <4>2. CASE ~(IsEnrollment(e) /\ e.role = r)
        <5>1. t.bindings[r] = s.bindings[r]
          BY <2>5, <4>2 DEF Bind, Sessions
        <5>2. QED BY <1>2, <4>1, <4>2, <5>1 DEF e
      <4>3. CASE IsEnrollment(e) /\ e.role = r
        <5>1. s.bindings[r] = None
          BY <2>1, <2>5, <3>2, <4>3 DEF ReplayAdmits, BindingAdmits, Parties
        <5>2. t.bindings[r] = e.key
          BY <2>5, <3>2, <4>3 DEF Bind, Sessions
        <5>3. ~EnrolledIn(L, p, r, k)
          BY <4>1, <5>1, RelayAssumption
        <5>4. QED BY <1>2, <1>6, <4>3, <5>2, <5>3 DEF e
      <4>4. QED BY <4>2, <4>3
    <3>3. ASSUME NEW r \in Parties, NEW k \in Keys, ~t.authorized
          PROVE  t.bindings[r] # k
      BY <2>5, <3>3 DEF Reflects, Bindings
    <3>4. QED BY <3>1, <3>2, <3>3 DEF Bindings
  <2>10. QED BY <2>7, <2>8, <2>9 DEF Reflects, t, rec
<1>7. rec.type \in {"created", "put", "message"}
  <2> HIDE DEF rec
  <2>1. QED BY <1>1, RecordFields
<1>8. QED BY <1>4, <1>5, <1>6, <1>7

\* A message the locked section admits fits a journal the session reflects.
LEMMA AdmittedFits ==
  ASSUME NEW L \in Seq(Records), NEW s \in Sessions, Reflects(s, L, Len(L)),
         NEW rec \in Requests, Admitted(s, rec)
  PROVE  Fits(L, Len(L), rec)
<1>1. CASE rec.type = "put"
  BY <1>1 DEF Fits
<1>2. CASE rec.type = "message"
  <2> DEFINE e == rec.envelope
  <2>1. e \in Envelopes /\ e.seq = s.lastSeq + 1 /\ (s.authorized => ReplayAdmits(s, e))
    BY <1>2 DEF Admitted, Requests
  <2>2. e.role \in Roles /\ e.key \in Keys
    BY <2>1, EnvelopeFields
  <2>3. s.lastSeq \in Nat /\ s.lastSeq = Len(s.messages)
    BY DEF Sessions, Reflects, Gapless
  <2> HIDE DEF e
  <2>4. Numbered(L, Len(L), e)
    <3>1. ASSUME NEW j \in 1 .. Len(L), L[j].type = "message"
          PROVE  L[j].envelope.seq < e.seq
      <4>1. L[j].envelope.seq <= s.lastSeq
        BY <3>1 DEF Reflects, Holds
      <4>2. L[j].envelope.seq \in Nat
        BY <3>1, RecordFields, EnvelopeFields
      <4>3. QED BY <2>1, <2>3, <4>1, <4>2
    <3>2. ASSUME s.lastSeq >= 1
          PROVE  \E j \in 1 .. Len(L) : L[j].type = "message" /\ L[j].envelope.seq = e.seq - 1
      <4>1. s.lastSeq \in 1 .. s.lastSeq /\ s.messages[s.lastSeq].seq = s.lastSeq
        <5>1. s.messages \in Seq(Envelopes)
          BY DEF Sessions
        <5>2. s.lastSeq \in DOMAIN s.messages
          BY <2>3, <3>2, <5>1
        <5>3. QED BY <2>3, <3>2, <5>2 DEF Reflects, Gapless
      <4>2. PICK j \in 1 .. Len(L) : L[j].type = "message" /\ L[j].envelope = s.messages[s.lastSeq]
        BY <4>1 DEF Reflects, Holds
      <4>3. QED BY <2>1, <2>3, <4>1, <4>2
    <3>3. QED BY <2>1, <2>3, <3>1, <3>2 DEF Numbered
  <2>5. ASSUME Len(L) >= 1, OptedIn(L) PROVE Authorised(L, Len(L), e)
    <3>1. s.authorized /\ ReplayAdmits(s, e)
      BY <2>1, <2>5 DEF Reflects, Bindings
    <3>2. \A r \in Parties, k \in Keys : s.bindings[r] = k <=> EnrolledIn(L, Len(L), r, k)
      BY <3>1 DEF Reflects, Bindings
    <3>3. (e.role = "host" => e.key = HostKey) /\ BindingAdmits(s.bindings, e)
      BY <3>1 DEF ReplayAdmits
    <3>4. ASSUME IsEnrollment(e)
          PROVE  /\ \A k \in Keys : ~EnrolledIn(L, Len(L), e.role, k)
                 /\ ~EnrolledIn(L, Len(L), Other(e.role), e.key)
      <4>1. e.role \in Parties /\ e.role # "host"
        BY <3>4 DEF IsEnrollment, Parties
      <4>2. s.bindings[e.role] = None /\ s.bindings[Other(e.role)] # e.key
        BY <3>3, <3>4, <4>1 DEF BindingAdmits
      <4>3. Other(e.role) \in Parties
        BY <4>1, OtherParty
      <4>4. QED BY <2>2, <3>2, <4>1, <4>2, <4>3, RelayAssumption
    <3>5. ASSUME e.role \in Parties, ~IsEnrollment(e)
          PROVE  EnrolledIn(L, Len(L), e.role, e.key)
      <4>1. e.role # "host"
        BY <3>5 DEF Parties
      <4>2. s.bindings[e.role] = e.key
        BY <3>3, <3>5, <4>1 DEF BindingAdmits
      <4>3. QED BY <2>2, <3>2, <3>5, <4>2
    <3>6. QED BY <3>3, <3>4, <3>5 DEF Authorised
  <2>6. QED BY <1>2, <2>4, <2>5 DEF Fits, e
<1>3. QED BY <1>1, <1>2 DEF Requests

----------------------------------------------------------------------------
(* The invariant is inductive                                              *)

\* A clean append of a record that fits, by a session that reflects the whole
\* journal: what CompletePost, CompletePut, FinishCreate and Crash share.
LEMMA CleanAppend ==
  ASSUME NEW f \in Files, f.tail = "whole", NEW rec
  PROVE  /\ Write(f, rec, "line") = [exists |-> TRUE, tail |-> "whole", lines |-> Append(f.lines, rec)]
         /\ Write(f, rec, "nothing") = [f EXCEPT !.exists = TRUE]
BY DEF Write, Files

LEMMA FreshReflects ==
  ASSUME NEW L \in Seq(Records)
  PROVE  Reflects(CreateSessionState(FALSE), L, 0)
<1> DEFINE s == CreateSessionState(FALSE)
<1>1. /\ s.messages = <<>> /\ s.lastSeq = 0 /\ s.authorized = FALSE
      /\ \A r \in Parties : s.bindings[r] = None
  BY DEF CreateSessionState
<1> HIDE DEF s
<1>2. Gapless(s) /\ Holds(s, L, 0)
  BY <1>1 DEF Gapless, Holds
<1>3. Bindings(s, L, 0)
  BY <1>1, RelayAssumption DEF Bindings
<1>4. QED BY <1>2, <1>3 DEF Reflects, s

LEMMA JournalledGrows ==
  ASSUME NEW L \in Seq(Records), NEW rec \in Records
  PROVE  /\ Journalled(L) \subseteq Journalled(Append(L, rec))
         /\ rec.type = "message" => rec.envelope \in Journalled(Append(L, rec))
<1> DEFINE A == Append(L, rec)
<1>1. /\ DOMAIN L = 1 .. Len(L) /\ DOMAIN A = 1 .. Len(L) + 1 /\ Len(L) \in Nat
      /\ \A j \in 1 .. Len(L) : A[j] = L[j]
      /\ A[Len(L) + 1] = rec
  BY AppendKeeps
<1> HIDE DEF A
<1>2. QED BY <1>1 DEF Journalled, A

\* A session that reflects the whole journal serves exactly what it holds.
LEMMA ServesJournalled ==
  ASSUME NEW L \in Seq(Records), NEW s \in Sessions, Reflects(s, L, Len(L))
  PROVE  Entries(s.messages) = Journalled(L)
<1>1. /\ DOMAIN s.messages = 1 .. s.lastSeq /\ s.lastSeq \in Nat
      /\ DOMAIN L = 1 .. Len(L)
  BY DEF Sessions, Reflects, Gapless
<1>2. Entries(s.messages) \subseteq Journalled(L)
  BY <1>1 DEF Entries, Journalled, Reflects, Holds
<1>3. ASSUME NEW j \in 1 .. Len(L), L[j].type = "message"
      PROVE  L[j].envelope \in Entries(s.messages)
  <2>1. L[j].envelope.seq \in Nat /\ L[j].envelope.seq >= 1
    BY <1>3, RecordFields, EnvelopeFields
  <2>2. /\ L[j].envelope.seq <= s.lastSeq
        /\ s.messages[L[j].envelope.seq] = L[j].envelope
    BY <1>3 DEF Reflects, Holds
  <2>3. L[j].envelope.seq \in DOMAIN s.messages
    BY <1>1, <2>1, <2>2
  <2>4. QED BY <2>2, <2>3 DEF Entries
<1>4. QED BY <1>1, <1>2, <1>3 DEF Journalled

\* An admitted request lands: the longer journal is one, and applying the
\* request to the session keeps memory and journal together.
LEMMA Landing ==
  ASSUME NEW L \in Seq(Records), Journal(L), NEW s \in Sessions, Reflects(s, L, Len(L)),
         NEW rec \in Requests, Admitted(s, rec)
  PROVE  /\ Journal(Append(L, rec))
         /\ Reflects(ApplyRecord(s, rec), Append(L, rec), Len(L) + 1)
<1> DEFINE A == Append(L, rec)
<1>1. rec \in Records
  BY DEF Requests, Records
<1>2. Journal(A)
  BY <1>1, AdmittedFits, AppendJournal
<1>3. Reflects(s, A, Len(L))
  BY <1>1, ReflectsPrefix
<1>4. A \in Seq(Records) /\ Len(L) \in 0 .. Len(A) - 1 /\ A[Len(L) + 1] = rec
  BY <1>1, AppendKeeps
<1> HIDE DEF A
<1>5. Reflects(ApplyRecord(s, A[Len(L) + 1]), A, Len(L) + 1)
  BY <1>2, <1>3, <1>4, ApplyReflects
<1>6. QED BY <1>2, <1>4, <1>5 DEF A

LEMMA InitDurable == Init => DurabilityInv
<1> SUFFICES ASSUME Init PROVE DurabilityInv
  OBVIOUS
<1>1. /\ file.lines = <<>> /\ file.tail = "whole" /\ phase = "serving"
      /\ session = CreateSessionState(FALSE) /\ writing = None /\ told = {}
      /\ \A c \in Clients : inflight[c] = None
  BY DEF Init
<1>2. <<>> \in Seq(Records) /\ Len(<<>>) = 0 /\ DOMAIN <<>> = {}
  OBVIOUS
<1>3. Reflects(session, file.lines, 0)
  BY <1>1, <1>2, FreshReflects
<1>4. Journal(file.lines)
  BY <1>1, <1>2 DEF Journal
<1>5. Progress = 0 /\ Len(file.lines) = 0
  BY <1>1, <1>2 DEF Progress
<1>6. Reflects(session, file.lines, Progress) /\ Progress \in 0 .. Len(file.lines)
  BY <1>3, <1>5
<1>7. QED BY <1>1, <1>4, <1>6 DEF DurabilityInv, HostKeyed

LEMMA StepDurable ==
  ASSUME CleanWrites, TypeOK, PhaseInv, DurabilityInv, [Next]_vars
  PROVE  DurabilityInv'
<1> DEFINE L == file.lines
<1>0. /\ file \in Files /\ L \in Seq(Records) /\ session \in Sessions
      /\ file.tail = "whole" /\ Journal(L)
  BY DEF TypeOK, Files, DurabilityInv
\* Steps that touch neither memory nor journal.
<1>q. ASSUME UNCHANGED <<phase, known, session, file, read, told>>,
             writing' = None \/ writing' = writing,
             \A c \in Clients : HostKeyed(inflight'[c]), ~known => UNCHANGED inflight
      PROVE  DurabilityInv'
  BY <1>q DEF DurabilityInv, Progress, HostKeyed
<1>1. ASSUME NEW auth \in Modes, BeginCreate(auth) PROVE DurabilityInv'
  BY <1>1, <1>q DEF BeginCreate, memory, DurabilityInv
<1>2. CASE FinishCreate
  <2>1. /\ phase = "serving" /\ ~known /\ writing = None /\ L = <<>>
        /\ \A c \in Clients : inflight[c] = None
    BY <1>2 DEF FinishCreate, PhaseInv, DurabilityInv
  <2>2. creating \in Records /\ creating.type = "created" /\ creating.authorized \in BOOLEAN
    BY <1>2 DEF FinishCreate, TypeOK, Records
  <2> DEFINE A == Append(L, creating)
  <2>3. file' = [exists |-> TRUE, tail |-> "whole", lines |-> A]
    BY <1>2, <1>0, CleanAppend DEF FinishCreate
  <2>4. A \in Seq(Records) /\ Len(A) = 1 /\ A[1] = creating
    BY <2>1, <2>2, AppendKeeps
  <2>5. Journal(A)
    BY <1>0, <2>1, <2>2, AppendJournal DEF Fits
  <2>6. Reflects(session', A, 1)
    <3>1. Reflects(CreateSessionState(FALSE), A, 0)
      BY <2>4, FreshReflects
    <3>2. CreateSessionState(FALSE) \in Sessions
      BY FreshType
    <3> HIDE DEF A
    <3>3. Reflects(ApplyRecord(CreateSessionState(FALSE), A[1]), A, 1)
      <4>1. 0 \in 0 .. Len(A) - 1 /\ A[0 + 1] = A[1] /\ 0 + 1 = 1
        BY <2>4
      <4>2. QED BY <2>4, <2>5, <3>1, <3>2, <4>1, ApplyReflects
    <3>4. ApplyRecord(CreateSessionState(FALSE), creating) = CreateSessionState(creating.authorized)
      BY <2>2 DEF ApplyRecord, CreateSessionState
    <3>5. QED BY <1>2, <2>4, <3>3, <3>4 DEF FinishCreate
  <2>7. told' \subseteq Journalled(A)
    BY <1>0, <1>2, <2>2, JournalledGrows DEF FinishCreate, DurabilityInv
  <2>8. /\ phase' = "serving" /\ known' = TRUE /\ writing' = None
        /\ \A c \in Clients : inflight'[c] = None
    BY <1>2, <2>1 DEF FinishCreate
  <2> HIDE DEF A
  <2>9. file'.lines = A /\ file'.tail = "whole" /\ file'.exists
    BY <2>3
  <2>10. Progress' = 1
    BY <2>4, <2>8, <2>9 DEF Progress
  <2>11. Reflects(session', file'.lines, Progress') /\ Progress' \in 0 .. Len(file'.lines)
    BY <2>4, <2>6, <2>9, <2>10
  <2>12. QED BY <2>5, <2>7, <2>8, <2>9, <2>11 DEF DurabilityInv, HostKeyed
<1>3. CASE FailCreate
  <2>1. file' = [file EXCEPT !.exists = TRUE]
    BY <1>3, <1>0, CleanAppend DEF FailCreate, CleanWrites
  <2>2. file'.lines = L /\ file'.tail = "whole" /\ file'.exists
    BY <1>0, <2>1 DEF Files
  <2>3. QED BY <1>3, <2>2 DEF FailCreate, memory, DurabilityInv, Progress, HostKeyed
<1>4. ASSUME NEW c \in Clients, NEW e \in Submitted, NEW t \in Time, ReceivePost(c, e, t)
      PROVE  DurabilityInv'
  <2>1. HostKeyed([type |-> "message", envelope |-> e])
    BY <1>4 DEF ReceivePost, HostKeyed, Verifies
  <2>2. \A d \in Clients : HostKeyed(inflight'[d])
    BY <1>4, <2>1 DEF ReceivePost, TypeOK, DurabilityInv
  <2>3. QED BY <1>4, <1>q, <2>2 DEF ReceivePost, memory
<1>5. ASSUME NEW e \in Submitted, NEW t \in Time, RefusePost(e, t) PROVE DurabilityInv'
  BY <1>5, <1>q DEF RefusePost, memory, DurabilityInv
<1>6. ASSUME NEW c \in Clients, NEW s \in Slots, NEW v \in Values, ReceivePut(c, s, v)
      PROVE  DurabilityInv'
  <2>1. HostKeyed([type |-> "put", slot |-> s, value |-> v])
    BY DEF HostKeyed
  <2>2. \A d \in Clients : HostKeyed(inflight'[d])
    BY <1>6, <2>1 DEF ReceivePut, TypeOK, DurabilityInv
  <2>3. QED BY <1>6, <1>q, <2>2 DEF ReceivePut, memory
\* Reading the log tells only what the journal holds.
<1>r. ASSUME phase = "serving" PROVE Entries(session.messages) = Journalled(L)
  BY <1>r, <1>0, ServesJournalled DEF DurabilityInv, Progress
<1>7. ASSUME NEW r \in Readers, (\E n \in 0 .. MaxSeq : Poll(r, n)) \/ EndPoll(r)
      PROVE  DurabilityInv'
  <2>1. \A n : After(session.messages, n) \subseteq Entries(session.messages)
    BY DEF After, Entries
  <2>2. told' \subseteq Journalled(L)
    BY <1>7, <1>r, <2>1 DEF Poll, EndPoll, DurabilityInv
  <2>3. QED BY <1>7, <2>2 DEF Poll, EndPoll, memory, DurabilityInv, Progress, HostKeyed
<1>a. ASSUME queue # <<>>, Answer(Head(queue))
      PROVE  \A c \in Clients : HostKeyed(inflight'[c])
  BY <1>a DEF Answer, HostKeyed, DurabilityInv, TypeOK
<1>k. queue # <<>> => known
  BY DEF PhaseInv
<1>8. ASSUME NEW t \in Time, Admit(t) PROVE DurabilityInv'
  <2> DEFINE request == inflight[Head(queue)]
  <2>1. Head(queue) \in Clients /\ writing' = request
    BY <1>8, QueueTail DEF Admit, TypeOK
  <2>2. HostKeyed(request)
    BY <2>1 DEF DurabilityInv
  <2>3. writing' # None => Admitted(session, writing')
    <3>1. SUFFICES ASSUME request # None, request.type = "message"
                   PROVE  Admitted(session, request)
      BY <2>1 DEF Admitted
    <3>2. Admits(session, request.envelope, highest')
      BY <1>8, <3>1 DEF Admit
    <3>3. QED BY <2>2, <3>1, <3>2 DEF HostKeyed, Admits, Admitted, ReplayAdmits
  <2>4. QED BY <1>8, <2>3 DEF Admit, memory, DurabilityInv, Progress, HostKeyed
<1>9. ASSUME NEW t \in Time, Refuse(t) PROVE DurabilityInv'
  BY <1>9, <1>a, <1>k, <1>q DEF Refuse, memory
<1>10. ASSUME CompletePost \/ CompletePut PROVE DurabilityInv'
  <2>1. /\ writing # None /\ writing \in Requests /\ writing \in Records /\ queue # <<>>
        /\ phase = "serving" /\ known
    BY <1>10 DEF CompletePost, CompletePut, TypeOK, PhaseInv, Requests, Records
  <2>2. Reflects(session, L, Len(L)) /\ Admitted(session, writing)
    BY <2>1 DEF DurabilityInv, Progress
  <2> DEFINE A == Append(L, writing)
  <2>3. file' = [exists |-> TRUE, tail |-> "whole", lines |-> A]
    BY <1>10, <1>0, CleanAppend DEF CompletePost, CompletePut
  <2>4. Journal(A) /\ Reflects(ApplyRecord(session, writing), A, Len(L) + 1)
    BY <1>0, <2>1, <2>2, Landing
  <2>5. session' = ApplyRecord(session, writing)
    <3>1. CASE CompletePut
      BY <3>1 DEF CompletePut, ApplyRecord
    <3>2. CASE CompletePost
      <4> DEFINE e == writing.envelope
      <4>1. writing.type = "message" /\ e \in Envelopes
        BY <2>1, <3>2 DEF CompletePost, Requests
      <4>2. e.seq = session.lastSeq + 1 /\ ReplayAdmits(session, e)
        BY <2>2, <4>1 DEF Admitted, ReplayAdmits
      <4>3. session.lastSeq \in Nat
        BY <1>0 DEF Sessions
      <4>4. ApplyRecord(session, writing) = Store(session, e)
        BY <4>1, <4>2 DEF ApplyRecord
      <4> HIDE DEF e
      <4>5. (IF e.seq > session.lastSeq THEN e.seq ELSE session.lastSeq) = e.seq
        BY <4>2, <4>3
      <4>6. Store(session, e) =
              [session EXCEPT !.messages = Append(session.messages, e), !.lastSeq = e.seq,
                 !.bindings = IF session.authorized THEN Bind(session.bindings, e)
                              ELSE session.bindings]
        BY <4>5 DEF Store
      <4>7. QED BY <3>2, <4>4, <4>6 DEF CompletePost, e
    <3>3. QED BY <1>10, <3>1, <3>2
  <2>6. Len(A) = Len(L) + 1 /\ A \in Seq(Records) /\ Len(A) \in Nat
    BY <1>0, <2>1, AppendKeeps
  <2>7. session'.authorized = session.authorized /\ session' \in Sessions
    <3>1. session' \in Sessions
      BY <1>0, <2>1, <2>5, ApplyType
    <3>2. session'.authorized = session.authorized
      BY <1>0, <1>10 DEF CompletePost, CompletePut, Sessions
    <3>3. QED BY <3>1, <3>2
  <2>8. told' \subseteq Journalled(A)
    <3>1. Entries(session'.messages) = Journalled(A)
      <4> HIDE DEF A
      <4>1. QED BY <2>4, <2>5, <2>6, <2>7, ServesJournalled
    <3>2. told \subseteq Journalled(A)
      BY <1>0, <2>1, JournalledGrows DEF DurabilityInv
    <3>3. CASE CompletePut
      BY <3>2, <3>3 DEF CompletePut
    <3>4. CASE CompletePost
      <4>1. writing.envelope \in Journalled(A)
        BY <1>0, <2>1, <3>4, JournalledGrows DEF CompletePost
      <4> DEFINE msgs == Append(session.messages, writing.envelope)
                 woke == Awakened(writing.envelope.seq)
      <4>2. session'.messages = msgs
        BY <1>0, <3>4 DEF CompletePost, Sessions
      <4>3. told' = told \cup {writing.envelope} \cup UNION {After(msgs, polls[r]) : r \in woke}
        BY <3>4 DEF CompletePost
      <4> HIDE DEF msgs, woke
      <4>4. UNION {After(msgs, polls[r]) : r \in woke} \subseteq Entries(msgs)
        BY DEF After, Entries
      <4>5. QED BY <3>1, <3>2, <4>1, <4>2, <4>3, <4>4
    <3>5. QED BY <1>10, <3>3, <3>4
  <2>9. /\ phase' = "serving" /\ known' /\ writing' = None /\ UNCHANGED read
        /\ Answer(Head(queue))
    BY <1>10, <2>1 DEF CompletePost, CompletePut
  <2>10. \A c \in Clients : HostKeyed(inflight'[c])
    BY <2>1, <2>9, <1>a
  <2> HIDE DEF A
  <2>11. QED BY <2>3, <2>4, <2>5, <2>6, <2>7, <2>8, <2>9, <2>10
         DEF DurabilityInv, Progress, HostKeyed
<1>11. CASE FailAppend
  <2>1. file' = [file EXCEPT !.exists = TRUE]
    BY <1>11, <1>0, CleanAppend DEF FailAppend, CleanWrites
  <2>2. file'.lines = L /\ file'.tail = "whole" /\ file'.exists
    BY <1>0, <2>1 DEF Files
  <2>3. queue # <<>> /\ known
    BY <1>11 DEF FailAppend, PhaseInv
  <2>4. \A c \in Clients : HostKeyed(inflight'[c])
    BY <1>11, <1>a, <2>3 DEF FailAppend
  <2>5. QED BY <1>11, <2>2, <2>3, <2>4 DEF FailAppend, memory, DurabilityInv, Progress, HostKeyed
<1>12. CASE Crash
  <2>1. /\ phase' = "replaying" /\ known' = FALSE /\ writing' = None /\ read' = 0
        /\ session' = CreateSessionState(FALSE) /\ told' = told
        /\ \A c \in Clients : inflight'[c] = None
    BY <1>12 DEF Crash
  <2> DEFINE CleanFile(f) == /\ f \in Files /\ f.tail = "whole" /\ Journal(f.lines)
                             /\ f.lines # <<>> => f.exists
                             /\ Journalled(L) \subseteq Journalled(f.lines)
  \* The append cut off, if any, was of a line that fits.
  <2>2. ASSUME NEW rec \in Records, Fits(L, Len(L), rec),
               NEW leaves \in {"nothing", "line"}, file' = Write(file, rec, leaves)
        PROVE  CleanFile(file')
    <3>1. CASE leaves = "nothing"
      <4>1. file' = [file EXCEPT !.exists = TRUE]
        BY <1>0, <2>2, <3>1, CleanAppend
      <4>2. file'.lines = L /\ file'.tail = "whole" /\ file'.exists /\ file' \in Files
        BY <1>0, <4>1 DEF Files
      <4>3. QED BY <1>0, <4>2
    <3>2. CASE leaves = "line"
      <4>1. file' = [exists |-> TRUE, tail |-> "whole", lines |-> Append(L, rec)]
        BY <1>0, <2>2, <3>2, CleanAppend
      <4>2. /\ file'.lines = Append(L, rec) /\ file'.tail = "whole" /\ file'.exists
            /\ Append(L, rec) \in Seq(Records)
        BY <1>0, <4>1
      <4>3. file' \in Files
        BY <4>1, <4>2 DEF Files
      <4>4. Journal(Append(L, rec)) /\ Journalled(L) \subseteq Journalled(Append(L, rec))
        BY <1>0, <2>2, AppendJournal, JournalledGrows
      <4>5. QED BY <4>2, <4>3, <4>4
    <3>3. QED BY <3>1, <3>2
  <2>3. CleanFile(file')
    <3>1. CASE creating = None /\ writing = None
      <4>1. file' = file
        BY <1>12, <3>1 DEF Crash
      <4>2. QED BY <1>0, <4>1 DEF DurabilityInv
    <3>2. CASE creating # None
      <4>1. creating \in Records /\ creating.type = "created"
        BY <3>2 DEF TypeOK, Records
      <4>2. L = <<>> /\ Len(L) = 0
        BY <3>2 DEF PhaseInv, DurabilityInv
      <4>3. Fits(L, Len(L), creating)
        BY <4>1, <4>2 DEF Fits
      <4>4. PICK leaves \in CrashLeaves : file' = Write(file, creating, leaves)
        BY <1>12, <3>2 DEF Crash
      <4>5. leaves \in {"nothing", "line"}
        BY DEF CleanWrites
      <4> HIDE DEF CleanFile
      <4>6. QED BY <2>2, <4>1, <4>3, <4>4, <4>5
    <3>3. CASE creating = None /\ writing # None
      <4>1. writing \in Records /\ writing \in Requests /\ phase = "serving"
        BY <3>3 DEF TypeOK, PhaseInv, Requests, Records
      <4>2. Reflects(session, L, Len(L)) /\ Admitted(session, writing)
        BY <3>3, <4>1 DEF DurabilityInv, Progress
      <4>3. Fits(L, Len(L), writing)
        BY <1>0, <4>1, <4>2, AdmittedFits
      <4>4. PICK leaves \in CrashLeaves : file' = Write(file, writing, leaves)
        BY <1>12, <3>3 DEF Crash
      <4>5. leaves \in {"nothing", "line"}
        BY DEF CleanWrites
      <4> HIDE DEF CleanFile
      <4>6. QED BY <2>2, <4>1, <4>3, <4>4, <4>5
    <3>4. QED BY <3>1, <3>2, <3>3
  <2>4. file'.lines \in Seq(Records) /\ Len(file'.lines) \in Nat
    BY <2>3 DEF Files
  <2>5. Progress' = 0
    BY <2>1 DEF Progress
  <2>6. Reflects(session', file'.lines, Progress') /\ Progress' \in 0 .. Len(file'.lines)
    <3> HIDE DEF CleanFile
    <3>1. Reflects(CreateSessionState(FALSE), file'.lines, 0)
      BY <2>4, FreshReflects
    <3>2. Reflects(session', file'.lines, Progress')
      BY <2>1, <2>5, <3>1
    <3>3. QED BY <2>4, <2>5, <3>2
  <2>7. told' \subseteq Journalled(file'.lines)
    <3>1. told \subseteq Journalled(L)
      BY DEF DurabilityInv
    <3>2. Journalled(L) \subseteq Journalled(file'.lines)
      BY <2>3
    <3>3. QED BY <2>1, <3>1, <3>2
  <2>8. file'.tail = "whole" /\ Journal(file'.lines) /\ (file'.lines # <<>> => file'.exists)
    BY <2>3
  <2>9. \A c \in Clients : HostKeyed(inflight'[c])
    BY <2>1 DEF HostKeyed
  <2> HIDE DEF CleanFile
  <2>10. QED BY <2>1, <2>6, <2>7, <2>8, <2>9 DEF DurabilityInv, Progress, HostKeyed
<1>13. CASE ReplayLine
  <2>1. /\ phase = "replaying" /\ ~known /\ writing = None /\ read \in 0 .. Len(L) - 1
        /\ \A c \in Clients : inflight[c] = None
    BY <1>13 DEF ReplayLine, PhaseInv, DurabilityInv, Progress, TypeOK
  <2>2. Reflects(session', L, read + 1)
    <3>1. Reflects(session, L, read)
      BY <2>1 DEF DurabilityInv, Progress
    <3>2. QED BY <1>0, <1>13, <2>1, <3>1, ApplyReflects DEF ReplayLine
  <2>3. UNCHANGED <<phase, known, file, writing, inflight, told>> /\ Progress' = read + 1
    BY <1>13, <2>1 DEF ReplayLine, Progress
  <2>4. Reflects(session', file'.lines, Progress') /\ Progress' \in 0 .. Len(file'.lines)
    BY <1>0, <2>1, <2>2, <2>3
  <2>5. QED BY <2>1, <2>3, <2>4 DEF DurabilityInv, HostKeyed
<1>14. CASE FinishReplay
  <2>1. /\ phase = "replaying" /\ read = Len(L) /\ writing = None /\ ~known
        /\ \A c \in Clients : inflight[c] = None
    BY <1>14 DEF FinishReplay, PhaseInv, DurabilityInv
  <2>2. /\ phase' = "serving" /\ UNCHANGED <<session, file, writing, inflight, told>>
        /\ known' = file.exists
    BY <1>14 DEF FinishReplay
  <2>3. Progress' = Progress
    BY <2>1, <2>2 DEF Progress
  <2>4. QED BY <2>1, <2>2, <2>3 DEF DurabilityInv, HostKeyed
<1>15. CASE UNCHANGED vars
  BY <1>15 DEF vars, DurabilityInv, Progress, HostKeyed
<1>20. QED
  BY <1>1, <1>2, <1>3, <1>4, <1>5, <1>6, <1>7, <1>8, <1>9, <1>10, <1>11, <1>12,
     <1>13, <1>14, <1>15 DEF Next, Request, Work, Restart

----------------------------------------------------------------------------
(* The theorems                                                            *)

\* A relay that serves reflects its whole journal.
LEMMA ServingReflects ==
  ASSUME TypeOK, DurabilityInv, phase = "serving"
  PROVE  Reflects(session, file.lines, Len(file.lines))
BY DEF DurabilityInv, Progress

\* The journal could have been written by admitting its lines one at a time,
\* and memory reflects the lines read: handlePostMessage's lock, its
\* journal-before-memory order and the replay of a restart, all together.
THEOREM JournalGoverns ==
  ASSUME CleanWrites
  PROVE  Spec => []DurabilityInv
<1>1. TypeOK /\ PhaseInv /\ DurabilityInv /\ [Next]_vars => DurabilityInv'
  BY StepDurable
<1>2. QED BY InitDurable, TypeCorrect, <1>1, PTL DEF Spec

\* Sequence numbers are 1, 2, 3 ... in every state, restarts included, for any
\* number of clients, keys and crashes.
THEOREM GaplessLog ==
  ASSUME CleanWrites
  PROVE  Spec => []LogGapless
<1>1. DurabilityInv => LogGapless
  BY DEF DurabilityInv, Reflects, Gapless, LogGapless
<1>2. QED BY JournalGoverns, <1>1, PTL

\* A message acknowledged or served once is served by every later incarnation.
THEOREM Durable ==
  ASSUME CleanWrites
  PROVE  Spec => []ToldSurvives
<1>1. TypeOK /\ DurabilityInv => ToldSurvives
  <2> SUFFICES ASSUME TypeOK, DurabilityInv, phase = "serving"
               PROVE  told \subseteq Entries(session.messages)
    BY DEF ToldSurvives
  <2>1. file.lines \in Seq(Records) /\ session \in Sessions
    BY DEF TypeOK
  <2>2. Entries(session.messages) = Journalled(file.lines)
    BY <2>1, ServingReflects, ServesJournalled
  <2>3. QED BY <2>2 DEF DurabilityInv
<1>2. QED BY JournalGoverns, TypeCorrect, <1>1, PTL

----------------------------------------------------------------------------
(* Replay                                                                  *)

LEMMA Least ==
  ASSUME NEW T, T \subseteq Nat, T # {}
  PROVE  \E x \in T : \A y \in T : x <= y
<1> DEFINE R == OpToRel(<, Nat)
<1>1. IsWellFoundedOn(R, Nat)
  BY NatLessThanWellFounded
<1> HIDE DEF R
<1>2. PICK x \in T : \A y \in T : ~ (<<y, x>> \in R)
  BY <1>1, WFMin
<1>3. \A y \in T : ~(y < x)
  BY <1>2 DEF R, OpToRel
<1>4. QED BY <1>3

\* Induction, for a set.
LEMMA Inducts ==
  ASSUME NEW S, 0 \in S, \A n \in Nat : n \in S => n + 1 \in S
  PROVE  \A n \in Nat : n \in S
<1> DEFINE T == {n \in Nat : n \notin S}
<1>1. SUFFICES ASSUME T # {}
               PROVE  FALSE
  OBVIOUS
<1>2. T \subseteq Nat
  OBVIOUS
<1> HIDE DEF T
<1>3. PICK x \in T : \A y \in T : x <= y
  BY <1>1, <1>2, Least
<1> USE DEF T
<1>4. x \in Nat /\ x \notin S /\ x # 0
  OBVIOUS
<1>5. x - 1 \in Nat /\ (x - 1) + 1 = x
  BY <1>4
<1>6. x - 1 \notin S
  BY <1>4, <1>5
<1>7. x - 1 \in T
  BY <1>5, <1>6
<1>8. QED BY <1>3, <1>4, <1>7

\* The sessions a replay of the first n lines goes through.
Runs(run, L, n) ==
  run = [k \in 0 .. n |-> IF k = 0 THEN CreateSessionState(FALSE)
                          ELSE ApplyRecord(run[k - 1], L[k])]

LEMMA RunExists ==
  ASSUME NEW L
  PROVE  \A n \in Nat : \E run : Runs(run, L, n)
<1> DEFINE S == {n \in Nat : \E run : Runs(run, L, n)}
           fresh == CreateSessionState(FALSE)
<1>1. 0 \in S
  <2> DEFINE run == [k \in 0 .. 0 |-> fresh]
  <2>1. run = [k \in 0 .. 0 |-> IF k = 0 THEN fresh ELSE ApplyRecord(run[k - 1], L[k])]
    OBVIOUS
  <2>2. Runs(run, L, 0)
    BY <2>1 DEF Runs
  <2> HIDE DEF run
  <2>3. QED BY <2>2
<1>2. ASSUME NEW n \in Nat, n \in S
      PROVE  n + 1 \in S
  <2>1. PICK run : Runs(run, L, n)
    BY <1>2
  <2> DEFINE longer == [k \in 0 .. n + 1 |-> IF k = n + 1 THEN ApplyRecord(run[n], L[n + 1])
                                             ELSE run[k]]
             step(k) == IF k = 0 THEN fresh ELSE ApplyRecord(longer[k - 1], L[k])
  <2> HIDE DEF fresh
  <2>2. \A k \in 0 .. n : run[k] = IF k = 0 THEN fresh ELSE ApplyRecord(run[k - 1], L[k])
    BY <2>1 DEF Runs, fresh
  <2>3. ASSUME NEW k \in 0 .. n + 1
        PROVE  longer[k] = step(k)
    <3>1. CASE k = n + 1
      <4>1. k # 0 /\ k - 1 = n /\ n \in 0 .. n + 1 /\ n # n + 1
        BY <3>1
      <4>2. longer[k - 1] = run[n]
        BY <4>1
      <4>3. QED BY <3>1, <4>1, <4>2
    <3>2. CASE k # n + 1 /\ k # 0
      <4>1. k \in 0 .. n /\ k - 1 \in 0 .. n + 1 /\ k - 1 # n + 1
        BY <3>2
      <4>2. longer[k - 1] = run[k - 1] /\ longer[k] = run[k]
        BY <3>2, <4>1
      <4>3. QED BY <2>2, <3>2, <4>1, <4>2
    <3>3. CASE k = 0
      BY <2>2, <3>3
    <3>4. QED BY <3>1, <3>2, <3>3
  <2>4. longer = [k \in 0 .. n + 1 |-> longer[k]]
    OBVIOUS
  <2> HIDE DEF longer
  <2>5. longer = [k \in 0 .. n + 1 |-> step(k)]
    BY <2>3, <2>4
  <2>6. Runs(longer, L, n + 1)
    BY <2>5 DEF Runs, fresh
  <2>7. n + 1 \in Nat
    OBVIOUS
  <2>8. QED BY <2>6, <2>7
<1> HIDE DEF S
<1>3. \A n \in Nat : n \in S
  BY <1>1, <1>2, Inducts
<1>4. QED BY <1>3 DEF S

\* Lines that agree are replayed alike.
LEMMA RunsAgree ==
  ASSUME NEW L, NEW K, NEW n \in Nat, NEW m \in Nat, n <= m, \A k \in 1 .. n : K[k] = L[k],
         NEW run, Runs(run, L, n), NEW other, Runs(other, K, m)
  PROVE  \A k \in 0 .. n : other[k] = run[k]
<1> DEFINE S == {k \in Nat : k <= n => other[k] = run[k]}
           fresh == CreateSessionState(FALSE)
<1> HIDE DEF fresh
<1>1. \A k \in 0 .. n : run[k] = IF k = 0 THEN fresh ELSE ApplyRecord(run[k - 1], L[k])
  BY DEF Runs, fresh
<1>2. \A k \in 0 .. m : other[k] = IF k = 0 THEN fresh ELSE ApplyRecord(other[k - 1], K[k])
  BY DEF Runs, fresh
<1>3. 0 \in S
  BY <1>1, <1>2
<1>4. ASSUME NEW k \in Nat, k \in S
      PROVE  k + 1 \in S
  <2>1. CASE k + 1 <= n
    <3>1. k + 1 \in 0 .. n /\ k + 1 \in 1 .. n /\ k + 1 \in 0 .. m /\ k + 1 # 0 /\ (k + 1) - 1 = k
      BY <2>1
    <3>2. other[k] = run[k]
      BY <1>4, <2>1
    <3>3. other[k + 1] = ApplyRecord(other[k], K[k + 1]) /\ run[k + 1] = ApplyRecord(run[k], L[k + 1])
      BY <1>1, <1>2, <3>1
    <3>4. other[k + 1] = run[k + 1]
      BY <3>1, <3>2, <3>3
    <3>5. QED BY <3>4
  <2>2. CASE ~(k + 1 <= n)
    BY <2>2
  <2>3. QED BY <2>1, <2>2
<1> HIDE DEF S
<1>5. \A k \in Nat : k \in S
  BY <1>3, <1>4, Inducts
<1>6. QED BY <1>5 DEF S

\* What replaying a journal comes to.
LEMMA ReplayIs ==
  ASSUME NEW L \in Seq(Records)
  PROVE  \E run : Runs(run, L, Len(L)) /\ Replay(L) = run[Len(L)]
<1> DEFINE n == Len(L)
           run == CHOOSE r : Runs(r, L, n)
<1>1. n \in Nat
  OBVIOUS
<1>2. Runs(run, L, n)
  <2> HIDE DEF n
  <2>1. \E r : Runs(r, L, n)
    BY <1>1, RunExists
  <2>2. QED BY <2>1
<1>3. Replay(L) = run[n]
  BY Zenon DEF Replay, Runs
<1>4. QED BY <1>2, <1>3

\* No lines: a session nobody spoke in.
LEMMA ReplayNothing == Replay(<<>>) = CreateSessionState(FALSE)
<1>1. <<>> \in Seq(Records) /\ Len(<<>>) = 0
  OBVIOUS
<1>2. PICK run : Runs(run, <<>>, 0) /\ Replay(<<>>) = run[0]
  BY <1>1, ReplayIs
<1>3. QED BY <1>2 DEF Runs

\* One more line is applied to what the lines before it came to.
LEMMA ReplayOneMore ==
  ASSUME NEW L \in Seq(Records), NEW rec \in Records
  PROVE  Replay(Append(L, rec)) = ApplyRecord(Replay(L), rec)
<1> DEFINE A == Append(L, rec)
           n == Len(L)
<1>1. /\ A \in Seq(Records) /\ Len(A) = n + 1 /\ n \in Nat
      /\ \A k \in 1 .. n : A[k] = L[k]
      /\ A[n + 1] = rec
  OBVIOUS
<1>2. PICK run : Runs(run, L, n) /\ Replay(L) = run[n]
  BY ReplayIs
<1> HIDE DEF A
<1>3. PICK other : Runs(other, A, n + 1) /\ Replay(A) = other[n + 1]
  BY <1>1, ReplayIs
<1> HIDE DEF n
<1>4. n + 1 \in Nat /\ n <= n + 1
  BY <1>1
<1>5. other[n] = run[n]
  BY <1>1, <1>2, <1>3, <1>4, RunsAgree
<1>6. other[n + 1] = ApplyRecord(other[n], A[n + 1])
  <2>1. n + 1 \in 0 .. n + 1 /\ n + 1 # 0 /\ (n + 1) - 1 = n
    BY <1>1
  <2>2. QED BY <1>3, <2>1 DEF Runs
<1>7. Replay(A) = ApplyRecord(Replay(L), rec)
  BY <1>1, <1>2, <1>3, <1>5, <1>6
<1>8. QED BY <1>7 DEF A

----------------------------------------------------------------------------
(* Steps of the mailbox                                                    *)

LEMMA ShowsNothing ==
  ASSUME Visible' = Visible, IsOpen' = IsOpen
  PROVE  UNCHANGED RelayMailbox!mvars
BY DEF RelayMailbox!mvars

LEMMA ShowsOpen ==
  ASSUME NEW auth \in BOOLEAN, ~IsOpen, Visible = CreateSessionState(FALSE),
         IsOpen', Visible' = CreateSessionState(auth)
  PROVE  RelayMailbox!MNext
<1>1. /\ Visible.messages = <<>> /\ Visible.slots = [s \in Slots |-> None]
      /\ Visible'.messages = <<>> /\ Visible'.slots = [s \in Slots |-> None]
      /\ Visible'.authorized = auth
  BY DEF CreateSessionState
<1>2. RelayMailbox!Open
  BY <1>1 DEF RelayMailbox!Open
<1>3. QED BY <1>2 DEF RelayMailbox!MNext

LEMMA ShowsPut ==
  ASSUME IsOpen, IsOpen', NEW slot \in Slots, NEW value \in Values,
         Visible'.authorized = Visible.authorized, Visible'.messages = Visible.messages,
         Visible'.slots = [Visible.slots EXCEPT ![slot] = value]
  PROVE  RelayMailbox!MNext
<1>1. RelayMailbox!Put(slot, value)
  BY DEF RelayMailbox!Put
<1>2. QED BY <1>1 DEF RelayMailbox!MNext

LEMMA ShowsPost ==
  ASSUME IsOpen, IsOpen', NEW e \in Submitted,
         e.seq = Len(Visible.messages) + 1, Visible.authorized => RelayMailbox!Authorised(e),
         Visible'.authorized = Visible.authorized, Visible'.slots = Visible.slots,
         Visible'.messages = Append(Visible.messages, e)
  PROVE  RelayMailbox!MNext
<1>1. RelayMailbox!Post(e)
  BY DEF RelayMailbox!Post
<1>2. QED BY <1>1 DEF RelayMailbox!MNext

\* What a request under way was checked for before it queued.
Vetted(authorized, request) ==
  request # None /\ request.type = "message" =>
    /\ request.envelope \in Submitted
    /\ authorized /\ IsEnrollment(request.envelope) =>
         <<request.envelope.role, request.envelope.key>> \in Vouched

\* The lock's check is the mailbox's: the bindings are the log's enrollments.
LEMMA LogAuthorises ==
  ASSUME phase = "serving", TypeOK, Bound(session), session.authorized, NEW e \in Envelopes,
         ReplayAdmits(session, e), IsEnrollment(e) => <<e.role, e.key>> \in Vouched
  PROVE  RelayMailbox!Authorised(e)
<1> DEFINE m == session.messages
           n == Len(m)
<1>0. Visible.messages = m
  BY DEF Visible
<1>1. /\ m \in Seq(Envelopes) /\ DOMAIN m = 1 .. n /\ n \in Nat
      /\ session.bindings \in [Parties -> Keys \cup {None}]
  BY DEF TypeOK, Sessions
<1>2. \A r \in Parties, k \in Keys : session.bindings[r] = k <=> Enrols(m, n, r, k)
  BY DEF Bound
<1>3. (e.role = "host" => e.key = HostKey) /\ BindingAdmits(session.bindings, e)
  BY DEF ReplayAdmits
<1>4. e.role \in Roles /\ e.key \in Keys /\ e.kind \in Kinds
  BY EnvelopeFields
<1> HIDE DEF n
<1> USE <1>0
<1>5. CASE e.role = "host"
  <2>1. e.key = HostKey
    BY <1>3, <1>5
  <2>2. QED BY <1>5, <2>1 DEF RelayMailbox!Authorised
<1>6. CASE e.role \in Parties /\ e.kind = "enrollment"
  <2>1. IsEnrollment(e) /\ e.role # "host"
    BY <1>6 DEF IsEnrollment, Parties
  <2>2. session.bindings[e.role] = None /\ session.bindings[Other(e.role)] # e.key
    BY <1>3, <1>6, <2>1 DEF BindingAdmits
  <2>3. ASSUME NEW i \in 1 .. n, m[i].kind = "enrollment", m[i].role # "host"
        PROVE  m[i].role # e.role /\ m[i].key # e.key
    <3>1. m[i] \in Envelopes
      BY <1>1
    <3>2. m[i].role \in Parties /\ m[i].key \in Keys
      BY <2>3, <3>1, EnvelopeFields DEF Roles
    <3>3. Enrols(m, n, m[i].role, m[i].key)
      BY <2>3, <3>2 DEF Enrols, IsEnrollment
    <3>4. session.bindings[m[i].role] = m[i].key
      BY <1>2, <3>2, <3>3
    <3>5. m[i].role # e.role
      BY <2>2, <3>2, <3>4, RelayAssumption
    <3>6. m[i].role = Other(e.role)
      BY <1>6, <3>2, <3>5, OtherParty DEF Parties
    <3>7. QED BY <2>2, <3>4, <3>5, <3>6
  <2>4. <<e.role, e.key>> \in Vouched
    BY <2>1
  <2>5. \A i \in DOMAIN m : m[i].kind = "enrollment" /\ m[i].role # "host" =>
          m[i].role # e.role /\ m[i].key # e.key
    BY <1>1, <2>3
  <2>6. QED BY <1>6, <2>1, <2>4, <2>5 DEF RelayMailbox!Authorised
<1>7. CASE e.role \in Parties /\ e.kind # "enrollment"
  <2>1. ~IsEnrollment(e) /\ e.role # "host"
    BY <1>7 DEF IsEnrollment, Parties
  <2>2. session.bindings[e.role] = e.key
    BY <1>3, <1>7, <2>1 DEF BindingAdmits
  <2>3. PICK j \in 1 .. n : IsEnrollment(m[j]) /\ m[j].role = e.role /\ m[j].key = e.key
    BY <1>2, <1>4, <1>7, <2>2 DEF Enrols
  <2>4. RelayMailbox!Enrolled(e.role, e.key)
    BY <1>1, <2>3 DEF RelayMailbox!Enrolled, IsEnrollment
  <2>5. QED BY <1>7, <2>1, <2>4 DEF RelayMailbox!Authorised
<1>8. QED BY <1>4, <1>5, <1>6, <1>7 DEF Roles

\* What is in the file once a clean append has landed is what the mailbox shows next.
LEMMA Lands ==
  ASSUME phase = "serving", known, TypeOK, Bound(session), Gapless(session),
         writing # None, Admitted(session, writing), Allowed(writing),
         Vetted(session.authorized, writing),
         IsOpen', Visible' = ApplyRecord(session, writing)
  PROVE  RelayMailbox!MNext
<1>1. Visible = session /\ IsOpen /\ session \in Sessions /\ writing \in Requests
  BY DEF Visible, IsOpen, TypeOK
<1>2. CASE writing.type = "put"
  <2>1. writing.slot \in Slots /\ writing.value \in Values
    BY <1>1, <1>2 DEF Requests
  <2>2. Visible' = [session EXCEPT !.slots[writing.slot] = writing.value]
    BY <1>2 DEF ApplyRecord
  <2>3. /\ Visible'.authorized = session.authorized /\ Visible'.messages = session.messages
        /\ Visible'.slots = [session.slots EXCEPT ![writing.slot] = writing.value]
    BY <1>1, <2>2 DEF Sessions
  <2>4. QED BY <1>1, <2>1, <2>3, ShowsPut
<1>3. CASE writing.type = "message"
  <2> DEFINE e == writing.envelope
  <2>1. e \in Submitted /\ e \in Envelopes
    BY <1>3 DEF Vetted, Submitted
  <2>2. ReplayAdmits(session, e) /\ e.seq = session.lastSeq + 1
    BY <1>3 DEF Allowed, Admitted
  <2>3. Visible' = Store(session, e)
    BY <1>3, <2>2 DEF ApplyRecord
  <2>4. /\ Visible'.authorized = session.authorized /\ Visible'.slots = session.slots
        /\ Visible'.messages = Append(session.messages, e)
    BY <1>1, <2>3 DEF Store, Sessions
  <2>5. e.seq = Len(session.messages) + 1
    BY <2>2 DEF Gapless
  <2>6. session.authorized => RelayMailbox!Authorised(e)
    <3>1. session.authorized /\ IsEnrollment(e) => <<e.role, e.key>> \in Vouched
      BY <1>3 DEF Vetted
    <3> HIDE DEF e
    <3>2. QED BY <2>1, <2>2, <3>1, LogAuthorises
  <2> HIDE DEF e
  <2>7. QED BY <1>1, <2>1, <2>4, <2>5, <2>6, ShowsPost
<1>4. QED BY <1>1, <1>2, <1>3 DEF Requests

----------------------------------------------------------------------------
(* Every step is one of the mailbox, or hidden                             *)

LinesRead == IF phase = "serving" THEN file.lines ELSE SubSeq(file.lines, 1, read)

\* Memory is what the lines read so far come to.
RefinementInv ==
  /\ known => file.exists
  /\ session = Replay(LinesRead)
  /\ \A c \in Clients : Vetted(session.authorized, inflight[c])
  /\ Vetted(session.authorized, writing)

Shown == RelayMailbox!MNext \/ UNCHANGED RelayMailbox!mvars

\* A step that leaves memory and journal alone.
LEMMA Unseen ==
  ASSUME RefinementInv, UNCHANGED <<phase, known, session, file, read>>,
         \A c \in Clients : Vetted(session.authorized, inflight'[c]),
         Vetted(session.authorized, writing')
  PROVE  RefinementInv' /\ Shown
<1>1. Visible' = Visible /\ IsOpen' = IsOpen /\ LinesRead' = LinesRead
  BY DEF Visible, IsOpen, LinesRead
<1>2. Shown
  BY <1>1, ShowsNothing DEF Shown
<1>3. RefinementInv'
  BY <1>1 DEF RefinementInv
<1>4. QED BY <1>2, <1>3

LEMMA AnswerVetted ==
  ASSUME TypeOK, RefinementInv, queue # <<>>, Answer(Head(queue))
  PROVE  \A c \in Clients : Vetted(session.authorized, inflight'[c])
BY DEF Answer, Vetted, RefinementInv, TypeOK

\* What a completed append does to memory is what replaying its line would do.
LEMMA CompletionApplies ==
  ASSUME TypeOK, writing # None, Admitted(session, writing), Allowed(writing),
         CompletePost \/ CompletePut
  PROVE  session' = ApplyRecord(session, writing)
<1>1. session \in Sessions /\ writing \in Requests
  BY DEF TypeOK
<1>2. CASE CompletePut
  BY <1>2 DEF CompletePut, ApplyRecord
<1>3. CASE CompletePost
  <2> DEFINE e == writing.envelope
  <2>1. writing.type = "message" /\ e \in Envelopes
    BY <1>1, <1>3 DEF CompletePost, Requests
  <2>2. e.seq = session.lastSeq + 1 /\ ReplayAdmits(session, e)
    BY <2>1 DEF Admitted, Allowed
  <2>3. session.lastSeq \in Nat
    BY <1>1 DEF Sessions
  <2>4. ApplyRecord(session, writing) = Store(session, e)
    BY <2>1, <2>2 DEF ApplyRecord
  <2> HIDE DEF e
  <2>5. (IF e.seq > session.lastSeq THEN e.seq ELSE session.lastSeq) = e.seq
    BY <2>2, <2>3
  <2>6. Store(session, e) =
          [session EXCEPT !.messages = Append(session.messages, e), !.lastSeq = e.seq,
             !.bindings = IF session.authorized THEN Bind(session.bindings, e)
                          ELSE session.bindings]
    BY <2>5 DEF Store
  <2>7. QED BY <1>3, <2>4, <2>6 DEF CompletePost, e
<1>4. QED BY <1>2, <1>3

LEMMA FreshCreated ==
  ASSUME NEW rec, rec.type = "created", rec.authorized \in BOOLEAN
  PROVE  ApplyRecord(CreateSessionState(FALSE), rec) = CreateSessionState(rec.authorized)
BY DEF ApplyRecord, CreateSessionState

LEMMA CrashedFile ==
  ASSUME TypeOK, Crash
  PROVE  file' \in Files
<1>1. file \in Files
  BY DEF TypeOK, Files
<1>2. creating # None => creating \in Records
  BY DEF TypeOK, Records
<1>3. writing # None => writing \in Records
  BY DEF TypeOK, Requests, Records
<1>4. QED BY <1>1, <1>2, <1>3, WriteType, RelayAssumption DEF Crash

LEMMA InitRefines ==
  ASSUME Init
  PROVE  RefinementInv /\ RelayMailbox!MInit
<1>1. /\ phase = "serving" /\ ~known /\ file.lines = <<>> /\ session = CreateSessionState(FALSE)
      /\ writing = None /\ \A c \in Clients : inflight[c] = None
  BY DEF Init
<1>2. RefinementInv
  BY <1>1, ReplayNothing DEF RefinementInv, LinesRead, Vetted
<1>3. ~IsOpen /\ Visible.messages = <<>> /\ Visible.slots = [s \in Slots |-> None]
  BY <1>1 DEF IsOpen, Visible, CreateSessionState
<1>4. RelayMailbox!MInit
  BY <1>3 DEF RelayMailbox!MInit
<1>5. QED BY <1>2, <1>4

LEMMA StepRefines ==
  ASSUME CleanWrites, TypeOK, PhaseInv, BindingInv, DurabilityInv, RefinementInv, [Next]_vars
  PROVE  RefinementInv' /\ Shown
<1> DEFINE L == file.lines
           fresh == CreateSessionState(FALSE)
<1>0. /\ file \in Files /\ L \in Seq(Records) /\ session \in Sessions /\ file.tail = "whole"
      /\ L # <<>> => file.exists
  BY DEF TypeOK, Files, DurabilityInv
<1>s. phase = "serving" => session = Replay(L) /\ Gapless(session) /\ Bound(session)
  BY DEF RefinementInv, LinesRead, DurabilityInv, Reflects, BindingInv
<1>c. phase = "serving" /\ ~known => L = <<>> /\ session = fresh
  BY <1>s, ReplayNothing DEF DurabilityInv
<1>w. writing # None =>
        /\ phase = "serving" /\ known /\ queue # <<>> /\ file.exists
        /\ writing \in Requests /\ writing \in Records
        /\ Admitted(session, writing) /\ Allowed(writing) /\ Vetted(session.authorized, writing)
  BY DEF PhaseInv, TypeOK, Requests, Records, DurabilityInv, BindingInv, RefinementInv
<1>i. ~known => \A c \in Clients : inflight[c] = None
  BY DEF DurabilityInv
<1>n. \A a : Vetted(a, None)
  BY DEF Vetted
<1> HIDE DEF L, fresh
<1>1. ASSUME NEW auth \in Modes, BeginCreate(auth) PROVE RefinementInv' /\ Shown
  BY <1>1, Unseen DEF BeginCreate, memory, RefinementInv
<1>2. CASE FinishCreate
  <2>1. /\ phase = "serving" /\ ~known /\ writing = None
        /\ creating.type = "created" /\ creating.authorized \in BOOLEAN
    BY <1>2 DEF FinishCreate, PhaseInv, TypeOK
  <2>2. file' = [exists |-> TRUE, tail |-> "whole", lines |-> Append(L, creating)]
    BY <1>0, <1>2, CleanAppend DEF FinishCreate, L
  <2>3. creating \in Records
    BY <1>2 DEF FinishCreate, TypeOK, Records
  <2>4. Replay(Append(L, creating)) = CreateSessionState(creating.authorized)
    BY <1>0, <1>c, <2>1, <2>3, ReplayOneMore, ReplayNothing, FreshCreated DEF fresh
  <2>5. /\ phase' = "serving" /\ known' /\ session' = CreateSessionState(creating.authorized)
        /\ writing' = None /\ inflight' = inflight
    BY <1>2, <2>1 DEF FinishCreate
  <2>6. file'.exists /\ file'.lines = Append(L, creating)
    BY <2>2
  <2>7. RefinementInv'
    BY <1>i, <1>n, <2>1, <2>4, <2>5, <2>6 DEF RefinementInv, LinesRead
  <2>8. /\ ~IsOpen /\ IsOpen' /\ Visible = fresh
        /\ Visible' = CreateSessionState(creating.authorized)
    BY <1>c, <2>1, <2>5 DEF IsOpen, Visible
  <2>9. Shown
    BY <2>1, <2>8, ShowsOpen DEF Shown, fresh
  <2>10. QED BY <2>7, <2>9
<1>f. ASSUME file' = [file EXCEPT !.exists = TRUE], UNCHANGED <<phase, known, session, read>>,
             phase = "serving",
             \A c \in Clients : Vetted(session.authorized, inflight'[c]), writing' = None
      PROVE  RefinementInv' /\ Shown
  <2>1. file'.exists /\ file'.lines = L
    BY <1>0, <1>f DEF Files, L
  <2>2. Visible' = Visible /\ IsOpen' = IsOpen /\ LinesRead' = LinesRead
    BY <1>f, <2>1 DEF Visible, IsOpen, LinesRead, L
  <2>3. Shown
    BY <2>2, ShowsNothing DEF Shown
  <2>4. QED BY <1>f, <1>n, <2>1, <2>2, <2>3 DEF RefinementInv
<1>3. CASE FailCreate
  <2>1. file' = [file EXCEPT !.exists = TRUE]
    BY <1>3, <1>0, CleanAppend DEF FailCreate, CleanWrites
  <2>2. phase = "serving" /\ writing' = None
    BY <1>3, <1>w DEF FailCreate, PhaseInv
  <2>3. QED BY <1>3, <1>f, <2>1, <2>2 DEF FailCreate, memory, RefinementInv
<1>4. ASSUME NEW c \in Clients, NEW e \in Submitted, NEW t \in Time, ReceivePost(c, e, t)
      PROVE  RefinementInv' /\ Shown
  <2>1. Vetted(session.authorized, [type |-> "message", envelope |-> e])
    BY <1>4 DEF ReceivePost, Vetted, Verifies
  <2>2. \A d \in Clients : Vetted(session.authorized, inflight'[d])
    BY <1>4, <2>1 DEF ReceivePost, TypeOK, RefinementInv
  <2>3. QED BY <1>4, <2>2, Unseen DEF ReceivePost, memory, RefinementInv
<1>5. ASSUME NEW e \in Submitted, NEW t \in Time, RefusePost(e, t)
      PROVE  RefinementInv' /\ Shown
  BY <1>5, Unseen DEF RefusePost, memory, RefinementInv
<1>6. ASSUME NEW c \in Clients, NEW s \in Slots, NEW v \in Values, ReceivePut(c, s, v)
      PROVE  RefinementInv' /\ Shown
  <2>1. Vetted(session.authorized, [type |-> "put", slot |-> s, value |-> v])
    BY DEF Vetted
  <2>2. \A d \in Clients : Vetted(session.authorized, inflight'[d])
    BY <1>6, <2>1 DEF ReceivePut, TypeOK, RefinementInv
  <2>3. QED BY <1>6, <2>2, Unseen DEF ReceivePut, memory, RefinementInv
<1>7. ASSUME NEW r \in Readers, (\E n \in 0 .. MaxSeq : Poll(r, n)) \/ EndPoll(r)
      PROVE  RefinementInv' /\ Shown
  BY <1>7, Unseen DEF Poll, EndPoll, memory, RefinementInv
<1>8. ASSUME NEW t \in Time, Admit(t) PROVE RefinementInv' /\ Shown
  <2>1. Head(queue) \in Clients /\ writing' = inflight[Head(queue)]
    BY <1>8, QueueTail DEF Admit, TypeOK
  <2>2. Vetted(session.authorized, writing')
    BY <2>1 DEF RefinementInv
  <2>3. QED BY <1>8, <2>2, Unseen DEF Admit, memory, RefinementInv
<1>9. ASSUME NEW t \in Time, Refuse(t) PROVE RefinementInv' /\ Shown
  <2>1. \A c \in Clients : Vetted(session.authorized, inflight'[c])
    BY <1>9, AnswerVetted DEF Refuse
  <2>2. QED BY <1>9, <2>1, Unseen DEF Refuse, memory, RefinementInv
<1>10. CASE CompletePost \/ CompletePut
  <2>1. writing # None /\ Answer(Head(queue)) /\ writing' = None /\ UNCHANGED <<phase, known, read>>
    BY <1>10 DEF CompletePost, CompletePut
  <2>2. file' = [exists |-> TRUE, tail |-> "whole", lines |-> Append(L, writing)]
    BY <1>10, <1>0, CleanAppend DEF CompletePost, CompletePut, L
  <2>3. session' = ApplyRecord(session, writing)
    BY <1>10, <1>w, <2>1, CompletionApplies
  <2>4. Replay(Append(L, writing)) = session'
    BY <1>0, <1>s, <1>w, <2>1, <2>3, ReplayOneMore
  <2>5. file'.exists /\ file'.lines = Append(L, writing)
    BY <2>2
  <2>6. phase' = "serving" /\ known' /\ IsOpen' /\ Visible' = ApplyRecord(session, writing)
    BY <1>w, <2>1, <2>3 DEF IsOpen, Visible
  <2>7. Shown
    BY <1>s, <1>w, <2>1, <2>6, Lands DEF Shown
  <2>8. session'.authorized = session.authorized
    BY <1>0, <1>10 DEF CompletePost, CompletePut, Sessions
  <2>9. \A c \in Clients : Vetted(session'.authorized, inflight'[c])
    BY <1>w, <2>1, <2>8, AnswerVetted
  <2>10. RefinementInv'
    BY <1>n, <2>1, <2>4, <2>5, <2>6, <2>9 DEF RefinementInv, LinesRead
  <2>11. QED BY <2>7, <2>10
<1>11. CASE FailAppend
  <2>1. file' = [file EXCEPT !.exists = TRUE]
    BY <1>11, <1>0, CleanAppend DEF FailAppend, CleanWrites
  <2>2. \A c \in Clients : Vetted(session.authorized, inflight'[c])
    BY <1>11, <1>w, AnswerVetted DEF FailAppend
  <2>3. QED BY <1>11, <1>f, <1>w, <2>1, <2>2 DEF FailAppend, memory
<1>12. CASE Crash
  <2>1. /\ phase = "serving" /\ phase' = "replaying" /\ ~known' /\ writing' = None /\ read' = 0
        /\ session' = fresh /\ \A c \in Clients : inflight'[c] = None
    BY <1>12 DEF Crash, fresh
  <2>2. file' \in Files
    BY <1>12, CrashedFile
  <2>3. LinesRead' = <<>>
    <3>1. file'.lines \in Seq(Records)
      BY <2>2 DEF Files
    <3>2. SubSeq(file'.lines, 1, 0) = <<>>
      BY <3>1
    <3>3. QED BY <2>1, <3>2 DEF LinesRead
  <2>4. RefinementInv'
    BY <1>n, <2>1, <2>3, ReplayNothing DEF RefinementInv, fresh
  <2>g. SUFFICES Shown
    BY <2>4
  <2>5. Visible = session /\ IsOpen = known /\ Visible' = Replay(file'.lines) /\ IsOpen' = file'.exists
    BY <2>1 DEF Visible, IsOpen
  <2>6. ASSUME file'.lines = L, file'.exists
        PROVE  Shown
    <3>1. Visible' = session /\ IsOpen'
      BY <1>s, <2>1, <2>5, <2>6
    <3>2. CASE known
      BY <2>5, <3>1, <3>2, ShowsNothing DEF Shown
    <3>3. CASE ~known
      <4>1. Visible = fresh /\ Visible' = fresh /\ ~IsOpen
        BY <1>c, <2>1, <2>5, <3>1, <3>3
      <4>2. QED BY <3>1, <4>1, ShowsOpen DEF Shown, fresh
    <3>4. QED BY <3>2, <3>3
  <2>7. CASE creating = None /\ writing = None
    <3>1. file' = file
      BY <1>12, <2>7 DEF Crash
    <3>2. CASE file.exists
      BY <2>6, <3>1, <3>2 DEF L
    <3>3. CASE ~file.exists
      <4>1. ~known /\ Visible' = Visible
        BY <1>s, <2>1, <2>5, <3>1, <3>3 DEF RefinementInv, L
      <4>2. IsOpen' = IsOpen
        BY <2>5, <3>1, <3>3, <4>1 DEF TypeOK
      <4>3. QED BY <4>1, <4>2, ShowsNothing DEF Shown
    <3>4. QED BY <3>2, <3>3
  <2>8. ASSUME NEW rec \in Records, NEW leaves \in CrashLeaves, file' = Write(file, rec, leaves)
        PROVE  \/ file'.lines = L /\ file'.exists
               \/ file'.lines = Append(L, rec) /\ file'.exists
    <3>1. leaves \in {"nothing", "line"}
      BY DEF CleanWrites
    <3>2. CASE leaves = "nothing"
      <4>1. file' = [file EXCEPT !.exists = TRUE]
        BY <1>0, <2>8, <3>2, CleanAppend
      <4>2. QED BY <1>0, <4>1 DEF Files, L
    <3>3. CASE leaves = "line"
      <4>1. file' = [exists |-> TRUE, tail |-> "whole", lines |-> Append(L, rec)]
        BY <1>0, <2>8, <3>3, CleanAppend DEF L
      <4>2. QED BY <4>1
    <3>4. QED BY <3>1, <3>2, <3>3
  <2>9. CASE creating # None
    <3>1. /\ creating \in Records /\ creating.type = "created" /\ creating.authorized \in BOOLEAN
          /\ ~known
      BY <2>9 DEF TypeOK, Records, PhaseInv
    <3>2. \E leaves \in CrashLeaves : file' = Write(file, creating, leaves)
      BY <1>12, <2>9 DEF Crash
    <3>3. CASE file'.lines = Append(L, creating) /\ file'.exists
      <4>1. Visible' = CreateSessionState(creating.authorized)
        BY <1>0, <1>c, <2>1, <2>5, <3>1, <3>3, ReplayOneMore, ReplayNothing, FreshCreated DEF fresh
      <4>2. Visible = fresh /\ ~IsOpen /\ IsOpen'
        BY <1>c, <2>1, <2>5, <3>1, <3>3
      <4>3. QED BY <3>1, <4>1, <4>2, ShowsOpen DEF Shown, fresh
    <3>4. QED BY <2>6, <2>8, <3>1, <3>2, <3>3
  <2>10. CASE creating = None /\ writing # None
    <3>1. \E leaves \in CrashLeaves : file' = Write(file, writing, leaves)
      BY <1>12, <2>10 DEF Crash
    <3>2. CASE file'.lines = Append(L, writing) /\ file'.exists
      <4>1. Visible' = ApplyRecord(session, writing) /\ IsOpen'
        BY <1>0, <1>s, <1>w, <2>5, <2>10, <3>2, ReplayOneMore
      <4>2. QED BY <1>s, <1>w, <2>10, <4>1, Lands DEF Shown
    <3>3. QED BY <1>w, <2>6, <2>8, <2>10, <3>1, <3>2
  <2>11. QED BY <2>7, <2>9, <2>10
<1>13. CASE ReplayLine
  <2>1. /\ phase = "replaying" /\ ~known /\ read \in Nat /\ read < Len(L) /\ writing = None
        /\ \A c \in Clients : inflight[c] = None
    BY <1>13, <1>i, <1>w DEF ReplayLine, PhaseInv, TypeOK, L
  <2>2. /\ session' = ApplyRecord(session, L[read + 1]) /\ read' = read + 1
        /\ UNCHANGED <<phase, known, file, writing, inflight>>
    BY <1>13 DEF ReplayLine, L
  <2> DEFINE before == SubSeq(L, 1, read)
  <2>3. /\ read + 1 \in 1 .. Len(L) /\ Len(L) \in Nat
    BY <1>0, <2>1
  <2>4. L[read + 1] \in Records
    BY <1>0, <2>3
  <2>5. before \in Seq(Records)
    <3>1. \A k \in 1 .. read : L[k] \in Records
      <4>1. \A k \in 1 .. read : k \in 1 .. Len(L)
        BY <2>1, <2>3
      <4>2. QED BY <1>0, <4>1
    <3>2. QED BY <1>0, <2>1, <3>1, SubSeqProperties
  <2>6. SubSeq(L, 1, read + 1) = Append(before, L[read + 1])
    BY <1>0, <2>1, <2>3
  <2>7. session = Replay(before) /\ LinesRead' = Append(before, L[read + 1])
    BY <2>1, <2>2, <2>6 DEF RefinementInv, LinesRead, L
  <2> HIDE DEF before
  <2>8. session' = Replay(LinesRead')
    BY <2>2, <2>4, <2>5, <2>7, ReplayOneMore
  <2>9. RefinementInv'
    BY <1>n, <2>1, <2>2, <2>8 DEF RefinementInv
  <2>10. Visible' = Visible /\ IsOpen' = IsOpen
    BY <2>1, <2>2 DEF Visible, IsOpen
  <2>11. QED BY <2>9, <2>10, ShowsNothing DEF Shown
<1>14. CASE FinishReplay
  <2>1. /\ phase = "replaying" /\ read = Len(L) /\ writing = None /\ ~known
        /\ \A c \in Clients : inflight[c] = None
    BY <1>14, <1>i, <1>w DEF FinishReplay, PhaseInv, L
  <2>2. /\ phase' = "serving" /\ UNCHANGED <<session, file, writing, inflight>>
        /\ known' = file.exists
    BY <1>14 DEF FinishReplay
  <2>3. SubSeq(L, 1, Len(L)) = L
    BY <1>0
  <2>4. LinesRead = L /\ LinesRead' = L
    BY <2>1, <2>2, <2>3 DEF LinesRead, L
  <2>5. session = Replay(L)
    BY <2>4 DEF RefinementInv
  <2>6. RefinementInv'
    BY <1>n, <2>1, <2>2, <2>4, <2>5 DEF RefinementInv
  <2>7. Visible' = Visible /\ IsOpen' = IsOpen
    BY <2>1, <2>2, <2>5 DEF Visible, IsOpen, L
  <2>8. QED BY <2>6, <2>7, ShowsNothing DEF Shown
<1>15. CASE UNCHANGED vars
  BY <1>15, Unseen DEF vars, memory, RefinementInv
<1>20. QED
  BY <1>1, <1>2, <1>3, <1>4, <1>5, <1>6, <1>7, <1>8, <1>9, <1>10, <1>11, <1>12,
     <1>13, <1>14, <1>15 DEF Next, Request, Work, Restart

\* The relay implements the mailbox: every step of it, crashes, restarts and failed appends
\* included, is a step of the mailbox or cannot be seen there.
THEOREM Implements ==
  ASSUME CleanWrites
  PROVE  Spec => ImplementsMailbox
<1>1. Init => RefinementInv /\ RelayMailbox!MInit
  BY InitRefines
<1>2. TypeOK /\ PhaseInv /\ BindingInv /\ DurabilityInv /\ RefinementInv /\ [Next]_vars
        => RefinementInv' /\ [RelayMailbox!MNext]_(RelayMailbox!mvars)
  BY StepRefines DEF Shown
<1>3. Spec => []BindingInv
  BY InitBinding, TypeCorrect, StepBinding, PTL DEF Spec
<1>4. Spec => [](TypeOK /\ PhaseInv) /\ []DurabilityInv
  BY TypeCorrect, JournalGoverns, PTL
<1>5. QED BY <1>1, <1>2, <1>3, <1>4, PTL DEF Spec, ImplementsMailbox, RelayMailbox!MSpec

----------------------------------------------------------------------------
(* Orders                                                                  *)

\* A strict total order of L, as a set of pairs.
Orders(B, L) ==
  /\ \A x \in L : <<x, x>> \notin B
  /\ \A x, y, z \in L : <<x, y>> \in B /\ <<y, z>> \in B => <<x, z>> \in B
  /\ \A x, y \in L : x # y => <<x, y>> \in B \/ <<y, x>> \in B

\* A sequence of a finite set has each of its elements once, and is as long as the set.
LEMMA SeqsOf ==
  ASSUME NEW L, IsFiniteSet(L), NEW q \in SetToSeqs(L)
  PROVE  /\ q \in Seq(L) /\ Len(q) = Cardinality(L) /\ Cardinality(L) \in Nat
         /\ \A x \in L : \E i \in DOMAIN q : q[i] = x
         /\ \A i, j \in DOMAIN q : q[i] = q[j] => i = j
<1> DEFINE n == Cardinality(L)
<1>1. n \in Nat
  BY FS_CardinalityType
<1>2. q \in [1 .. n -> L] /\ \A i, j \in 1 .. n : i # j => q[i] # q[j]
  BY DEF SetToSeqs
<1> HIDE DEF n
<1>3. q \in Injection(1 .. n, L)
  BY <1>2 DEF Injection, IsInjective
<1>4. IsFiniteSet(1 .. n) /\ Cardinality(1 .. n) = n
  BY <1>1, FS_Interval
<1>5. Cardinality(1 .. n) = Cardinality(L)
  BY <1>4 DEF n
<1>6. q \in Surjection(1 .. n, L)
  BY <1>3, <1>5, FS_Injection
<1>7. \A x \in L : \E i \in 1 .. n : q[i] = x
  BY <1>6 DEF Surjection
<1>8. q \in Seq(L) /\ Len(q) = n /\ DOMAIN q = 1 .. n
  BY <1>1, <1>2
<1>9. QED BY <1>1, <1>2, <1>7, <1>8 DEF n

\* A finite set can be listed in any strict total order.
LEMMA Sorts ==
  ASSUME NEW L, IsFiniteSet(L), NEW B, Orders(B, L)
  PROVE  \E q \in SetToSeqs(L) : \A i, j \in DOMAIN q : i < j => <<q[i], q[j]>> \in B
<1> DEFINE n == Cardinality(L)
           Lower(x) == {y \in L : <<y, x>> \in B}
           rank == [x \in L |-> Cardinality(Lower(x)) + 1]
<1>1. n \in Nat
  BY FS_CardinalityType
<1>2. ASSUME NEW x \in L
      PROVE  /\ IsFiniteSet(Lower(x)) /\ Cardinality(Lower(x)) \in Nat
             /\ Cardinality(Lower(x)) < n
  <2>1. Lower(x) \in SUBSET L /\ x \notin Lower(x)
    BY DEF Orders
  <2>2. IsFiniteSet(Lower(x)) /\ Cardinality(Lower(x)) <= n /\ (n = Cardinality(Lower(x)) => L = Lower(x))
    BY <2>1, FS_Subset
  <2>3. Cardinality(Lower(x)) \in Nat
    BY <2>2, FS_CardinalityType
  <2>4. Cardinality(Lower(x)) # n
    BY <2>1, <2>2
  <2> HIDE DEF n, Lower
  <2>5. QED BY ONLY <1>1, <2>2, <2>3, <2>4
<1>3. ASSUME NEW x \in L, NEW y \in L, <<x, y>> \in B
      PROVE  Cardinality(Lower(x)) < Cardinality(Lower(y))
  <2>1. Lower(x) \in SUBSET Lower(y) /\ x \in Lower(y) /\ x \notin Lower(x)
    BY <1>3 DEF Orders
  <2>2. /\ Cardinality(Lower(x)) <= Cardinality(Lower(y))
        /\ Cardinality(Lower(y)) = Cardinality(Lower(x)) => Lower(y) = Lower(x)
    BY <1>2, <2>1, FS_Subset
  <2>3. Cardinality(Lower(x)) # Cardinality(Lower(y))
    BY <2>1, <2>2
  <2>4. Cardinality(Lower(x)) \in Nat /\ Cardinality(Lower(y)) \in Nat
    BY <1>2
  <2> HIDE DEF Lower
  <2>5. QED BY ONLY <2>2, <2>3, <2>4
<1>4. rank \in [L -> 1 .. n]
  <2>1. ASSUME NEW x \in L
        PROVE  Cardinality(Lower(x)) + 1 \in 1 .. n
    <3> DEFINE lower == Cardinality(Lower(x))
    <3>1. lower \in Nat /\ lower < n
      BY <1>2
    <3> HIDE DEF lower, n
    <3>2. lower + 1 \in 1 .. n
      BY ONLY <1>1, <3>1
    <3>3. QED BY <3>2 DEF lower
  <2> HIDE DEF n, Lower
  <2>2. QED BY <2>1
<1>5. ASSUME NEW x \in L, NEW y \in L, <<x, y>> \in B
      PROVE  rank[x] < rank[y]
  <2>1. Cardinality(Lower(x)) < Cardinality(Lower(y))
    BY <1>3, <1>5
  <2>2. Cardinality(Lower(x)) \in Nat /\ Cardinality(Lower(y)) \in Nat
    BY <1>2
  <2>3. QED BY <2>1, <2>2
<1> HIDE DEF rank
<1>6. ASSUME NEW x \in L, NEW y \in L, rank[x] = rank[y]
      PROVE  x = y
  <2>1. rank[x] \in Nat /\ rank[y] \in Nat
    BY <1>1, <1>4
  <2>2. ~(<<x, y>> \in B) /\ ~(<<y, x>> \in B)
    BY <1>5, <1>6, <2>1
  <2>3. QED BY <2>2 DEF Orders
<1>7. rank \in Injection(L, 1 .. n)
  BY <1>4, <1>6 DEF Injection, IsInjective
<1>8. IsFiniteSet(1 .. n) /\ Cardinality(1 .. n) = n
  BY <1>1, FS_Interval
<1>9. rank \in Surjection(L, 1 .. n)
  BY <1>7, <1>8, FS_Injection
<1>10. \A i \in 1 .. n : \E x \in L : rank[x] = i
  BY <1>9 DEF Surjection
<1> DEFINE q == [i \in 1 .. n |-> CHOOSE x \in L : rank[x] = i]
<1>11. \A i \in 1 .. n : q[i] \in L /\ rank[q[i]] = i
  BY <1>10
<1>12. q \in [1 .. n -> L] /\ DOMAIN q = 1 .. n
  BY <1>11
<1> HIDE DEF q
<1>13. \A i, j \in 1 .. n : i # j => q[i] # q[j]
  BY <1>11
<1>14. q \in SetToSeqs(L)
  BY <1>12, <1>13 DEF SetToSeqs
<1>15. ASSUME NEW i \in 1 .. n, NEW j \in 1 .. n, i < j
       PROVE  <<q[i], q[j]>> \in B
  <2>1. q[i] \in L /\ q[j] \in L /\ q[i] # q[j] /\ rank[q[i]] = i /\ rank[q[j]] = j
    BY <1>11, <1>13, <1>15
  <2>2. ~(<<q[j], q[i]>> \in B)
    BY <1>5, <1>15, <2>1
  <2>3. QED BY <2>1, <2>2 DEF Orders
<1>16. QED BY <1>12, <1>14, <1>15

\* A finite set that is not empty has a first element in any strict total order.
LEMMA First ==
  ASSUME NEW L, IsFiniteSet(L), L # {}, NEW B, Orders(B, L)
  PROVE  \E x \in L : \A y \in L \ {x} : <<x, y>> \in B
<1>1. PICK q \in SetToSeqs(L) : \A i, j \in DOMAIN q : i < j => <<q[i], q[j]>> \in B
  BY Sorts
<1>2. /\ q \in Seq(L) /\ \A x \in L : \E i \in DOMAIN q : q[i] = x
  BY SeqsOf
<1>3. 1 \in DOMAIN q /\ q[1] \in L
  BY <1>2
<1>4. \A y \in L \ {q[1]} : \E i \in DOMAIN q : q[i] = y /\ 1 < i
  BY <1>2, <1>3
<1>5. QED BY <1>1, <1>3, <1>4

----------------------------------------------------------------------------
(* The run directory and the ledger read-through                           *)

\* What may be held of a run, or read of it, or be on the way into its journal.
RunStates(s) == [at : Nat, listed : BOOLEAN, snapshot : {<<>>} \cup {<<x>> : x \in Snapshots[s]}]
Cells(s) == {<<>>} \cup {<<x>> : x \in RunStates(s)}

Recallable == {s \in RunNames : journal[s] # <<>> \/ opening[s] # <<>>}

\* The map lists the runs that are held, each once; and a restart would read of each the
\* same beginning, and a snapshot if it has one.
RunsOK ==
  /\ held = [s \in RunNames |-> held[s]] /\ journal = [s \in RunNames |-> journal[s]]
  /\ opening = [s \in RunNames |-> opening[s]]
  /\ \A s \in RunNames : held[s] \in Cells(s) /\ journal[s] \in Cells(s) /\ opening[s] \in Cells(s)
  /\ IsFiniteSet(Recallable)
  /\ order \in Seq(RunNames)
  /\ \A i, j \in DOMAIN order : order[i] = order[j] => i = j
  /\ \A s \in RunNames : held[s] # <<>> <=> \E i \in DOMAIN order : order[i] = s
  /\ \A s \in RunNames : opening[s] # <<>> => held[s] = <<>> /\ opening[s][1].snapshot = <<>>
  /\ \A s \in RunNames : held[s] # <<>> =>
       /\ journal[s] # <<>> /\ journal[s][1].at = held[s][1].at
       /\ journal[s][1].listed = held[s][1].listed
       /\ held[s][1].snapshot # <<>> => journal[s][1].snapshot # <<>>

\* What a slot shows has been published.
ShownBy(slot) ==
  slot # <<>> => slot[1].snapshot = <<>> \/ slot[1].snapshot[1].anchors \subseteq published

PublishedOK == \A s \in RunNames : ShownBy(held[s]) /\ ShownBy(journal[s])

PageAsks == [at : {"client", "file", "mint", "ledger"}, key : Page!Keys, anchor : Anchors \cup {None}]

\* A request goes on with an anchor that was published, and so does what is kept of it.
AskingOK ==
  /\ asking \in [Visitors -> {<<>>} \cup {<<r>> : r \in PageAsks}]
  /\ \A v \in Visitors : asking[v] # <<>> =>
       \/ asking[v][1].key.of = "agent"
       \/ asking[v][1].anchor \in published /\ Page!NamedBy(asking[v][1].key, asking[v][1].anchor)

SpentOK ==
  /\ \A key \in spent : \E anchor \in published : Page!NamedBy(key, anchor)
  /\ \A entry \in cache : entry.anchor \in published /\ Page!NamedBy(entry.key, entry.anchor)

\* The visitors that may still mint.
Minting == {v \in Visitors : Page!Looking(v)}

\* Without a token nothing was minted; and of those that have minted or still may, only
\* the first found nobody looking.
MintsOK ==
  /\ token \in BOOLEAN /\ mints \in Nat /\ rivals \in Nat
  /\ token \/ mints = 0
  /\ mints + Cardinality(Minting) <= 1 + rivals

RunsInv == RunsOK /\ PublishedOK /\ AskingOK /\ SpentOK /\ MintsOK

\* The instance counts and lists sets as this module does.
LEMMA SameSets ==
  ASSUME NEW S
  PROVE  /\ Page!IsFiniteSet(S) <=> IsFiniteSet(S)
         /\ Page!Cardinality(S) = Cardinality(S)
         /\ Page!SetToSeqs(S) = SetToSeqs(S)
<1>1. Page!IsFiniteSet(S) <=> IsFiniteSet(S)
  BY DEF Page!IsFiniteSet, IsFiniteSet
<1>2. Page!Cardinality(S) = Cardinality(S)
  BY DEF Page!Cardinality, Cardinality, Page!IsFiniteSet, IsFiniteSet
<1>3. Page!SetToSeqs(S) = SetToSeqs(S)
  BY <1>2 DEF Page!SetToSeqs, SetToSeqs
<1>4. QED BY <1>1, <1>2, <1>3

\* What the slots of a run hold.
LEMMA SlotFacts ==
  ASSUME Page!DirectoryAssumption, NEW s \in RunNames, NEW x \in Cells(s), x # <<>>
  PROVE  /\ x = <<x[1]>> /\ x[1] \in RunStates(s)
         /\ x[1].at \in Nat /\ x[1].listed \in BOOLEAN
         /\ x[1].snapshot # <<>> => /\ x[1].snapshot[1] \in Snapshots[s]
                                    /\ x[1].snapshot = <<x[1].snapshot[1]>>
                                    /\ x[1].snapshot[1].begun \in Nat
BY DEF Cells, RunStates, Page!DirectoryAssumption

LEMMA InitRuns ==
  ASSUME Page!DirectoryAssumption, Page!LedgerAssumption, Page!Init
  PROVE  RunsInv
<1>. USE DEF Page!Init, Page!DirectoryInit
<1>1. \A s \in RunNames : held[s] = IF s \in Legacy THEN <<Page!State(0, TRUE)>> ELSE <<>>
  OBVIOUS
<1>2. \A s \in RunNames : journal[s] = held[s] /\ opening[s] = <<>>
  OBVIOUS
<1>3. \A s \in RunNames : Page!State(0, TRUE) \in RunStates(s)
  BY DEF Page!State, RunStates
<1>4. \A s \in RunNames : held[s] \in Cells(s) /\ journal[s] \in Cells(s) /\ opening[s] \in Cells(s)
  BY <1>1, <1>2, <1>3 DEF Cells
<1>5. Legacy \subseteq RunNames /\ IsFiniteSet(Legacy) /\ order \in SetToSeqs(Legacy)
  BY SameSets DEF Page!DirectoryAssumption
<1>6. Recallable = Legacy
  BY <1>1, <1>2, <1>5 DEF Recallable
<1>7. /\ order \in Seq(Legacy)
      /\ \A s \in Legacy : \E i \in DOMAIN order : order[i] = s
      /\ \A i, j \in DOMAIN order : order[i] = order[j] => i = j
  BY <1>5, SeqsOf
<1>8. \A i \in DOMAIN order : order[i] \in Legacy
  BY <1>7
<1>9. order \in [1 .. Len(order) -> RunNames] /\ Len(order) \in Nat
  BY <1>5, <1>7, <1>8
<1>10. order \in Seq(RunNames)
  BY <1>9
<1>11. RunsOK
  <2>1. /\ held = [s \in RunNames |-> held[s]] /\ journal = [s \in RunNames |-> journal[s]]
        /\ opening = [s \in RunNames |-> opening[s]]
    OBVIOUS
  <2>2. \A s \in RunNames : held[s] # <<>> <=> s \in Legacy
    BY <1>1
  <2>3. \A s \in RunNames : held[s] # <<>> <=> \E i \in DOMAIN order : order[i] = s
    BY <1>7, <1>8, <2>2
  <2>4. \A s \in RunNames : held[s] # <<>> => held[s][1].snapshot = <<>>
    BY <1>1 DEF Page!State
  <2>5. IsFiniteSet(Recallable)
    BY <1>5, <1>6
  <2> HIDE DEF Page!Init, Page!DirectoryInit
  <2>6. QED BY <1>2, <1>4, <1>7, <1>10, <2>1, <2>3, <2>4, <2>5 DEF RunsOK
<1>12. PublishedOK
  BY <1>1, <1>2 DEF PublishedOK, ShownBy, Page!State
<1>13. AskingOK /\ SpentOK
  BY DEF AskingOK, SpentOK
<1>14. MintsOK
  <2>1. Minting = {}
    BY DEF Minting, Page!Looking, Page!At
  <2>2. Cardinality(Minting) = 0
    BY <2>1, FS_EmptySet
  <2>3. token = FALSE /\ mints = 0 /\ rivals = 0
    OBVIOUS
  <2> HIDE DEF Page!Init, Page!DirectoryInit
  <2>4. mints \in Nat /\ rivals \in Nat /\ mints + Cardinality(Minting) <= 1 + rivals
    BY <2>2, <2>3
  <2>5. QED BY ONLY <2>3, <2>4 DEF MintsOK
<1>15. QED BY <1>11, <1>12, <1>13, <1>14 DEF RunsInv

\* The steps of the directory keep its invariant.
LEMMA BeginOpenRuns ==
  ASSUME Page!DirectoryAssumption, RunsOK, NEW s \in RunNames, Page!BeginOpen(s)
  PROVE  RunsOK'
<1>1. PICK at \in Times, listed \in BOOLEAN : opening' = [opening EXCEPT ![s] = <<Page!State(at, listed)>>]
  BY DEF Page!BeginOpen
<1>2. Page!State(at, listed) \in RunStates(s) /\ Page!State(at, listed).snapshot = <<>>
  BY DEF Page!State, RunStates, Page!DirectoryAssumption
<1>3. /\ opening'[s] = <<Page!State(at, listed)>> /\ opening'[s] \in Cells(s)
      /\ \A t \in RunNames \ {s} : opening'[t] = opening[t]
      /\ opening' = [t \in RunNames |-> opening'[t]]
  BY <1>1, <1>2 DEF RunsOK, Cells
<1>4. held[s] = <<>> /\ UNCHANGED <<order, held, journal>>
  BY DEF Page!BeginOpen, Page!Held
<1>5. Recallable' = Recallable \cup {s}
  BY <1>3, <1>4 DEF Recallable
<1>6. IsFiniteSet(Recallable')
  BY <1>5, FS_AddElement DEF RunsOK
<1>7. QED BY <1>2, <1>3, <1>4, <1>6 DEF RunsOK

LEMMA FailOpenRuns ==
  ASSUME Page!DirectoryAssumption, RunsOK, NEW s \in RunNames, Page!FailOpen(s)
  PROVE  RunsOK'
<1>1. PICK left \in {journal[s], opening[s]} : journal' = [journal EXCEPT ![s] = left]
  BY DEF Page!FailOpen
<1>2. /\ opening[s] # <<>> /\ opening' = [opening EXCEPT ![s] = <<>>] /\ UNCHANGED <<order, held>>
  BY DEF Page!FailOpen
<1>3. left \in Cells(s) /\ <<>> \in Cells(s)
  BY <1>1 DEF RunsOK, Cells
<1>4. /\ journal'[s] = left /\ left \in Cells(s) /\ opening'[s] = <<>> /\ opening'[s] \in Cells(s)
      /\ \A t \in RunNames \ {s} : journal'[t] = journal[t] /\ opening'[t] = opening[t]
      /\ opening' = [t \in RunNames |-> opening'[t]] /\ journal' = [t \in RunNames |-> journal'[t]]
  BY <1>1, <1>2, <1>3 DEF RunsOK
<1>5. held[s] = <<>>
  BY <1>2 DEF RunsOK
<1>6. Recallable' \in SUBSET Recallable
  BY <1>1, <1>2, <1>4 DEF Recallable
<1>7. IsFiniteSet(Recallable')
  BY <1>6, FS_Subset DEF RunsOK
<1>8. QED BY <1>2, <1>4, <1>5, <1>7 DEF RunsOK

LEMMA FinishOpenRuns ==
  ASSUME Page!DirectoryAssumption, RunsOK, NEW s \in RunNames, Page!FinishOpen(s)
  PROVE  RunsOK'
<1>1. /\ opening[s] # <<>> /\ opening' = [opening EXCEPT ![s] = <<>>]
      /\ journal' = [journal EXCEPT ![s] = opening[s]]
      /\ held' = [held EXCEPT ![s] = opening[s]]
      /\ order' = Append(order, s)
  BY DEF Page!FinishOpen
<1>2. /\ journal'[s] = opening[s] /\ held'[s] = opening[s]
      /\ opening'[s] = <<>> /\ opening'[s] \in Cells(s)
      /\ \A t \in RunNames \ {s} : journal'[t] = journal[t] /\ held'[t] = held[t] /\ opening'[t] = opening[t]
      /\ opening' = [t \in RunNames |-> opening'[t]] /\ journal' = [t \in RunNames |-> journal'[t]]
      /\ held' = [t \in RunNames |-> held'[t]]
  BY <1>1 DEF RunsOK, Cells
<1>3. held[s] = <<>>
  BY <1>1 DEF RunsOK
<1>4. Recallable' \in SUBSET Recallable
  BY <1>1, <1>2 DEF Recallable
<1>5. IsFiniteSet(Recallable')
  BY <1>4, FS_Subset DEF RunsOK
<1>6. order \in Seq(RunNames) /\ \A i \in DOMAIN order : order[i] # s
  BY <1>3 DEF RunsOK
<1>7. /\ order' \in Seq(RunNames) /\ DOMAIN order' = 1 .. Len(order) + 1 /\ DOMAIN order = 1 .. Len(order)
      /\ order'[Len(order) + 1] = s /\ \A i \in DOMAIN order : order'[i] = order[i]
      /\ Len(order) \in Nat
  BY <1>1, <1>6
<1>8. \A i, j \in DOMAIN order' : order'[i] = order'[j] => i = j
  BY <1>6, <1>7 DEF RunsOK
<1>9. \A t \in RunNames : held'[t] # <<>> <=> \E i \in DOMAIN order' : order'[i] = t
  <2>1. Len(order) + 1 \in DOMAIN order' /\ \A i \in DOMAIN order : i \in DOMAIN order'
    BY <1>7
  <2>2. \A i \in DOMAIN order' : i = Len(order) + 1 \/ i \in DOMAIN order
    BY <1>7
  <2>3. \A t \in RunNames \ {s} : (\E i \in DOMAIN order' : order'[i] = t) <=> \E i \in DOMAIN order : order[i] = t
    BY <1>7, <2>1, <2>2
  <2>4. held'[s] # <<>> /\ \E i \in DOMAIN order' : order'[i] = s
    BY <1>1, <1>2, <1>7, <2>1
  <2>5. \A t \in RunNames : held[t] # <<>> <=> \E i \in DOMAIN order : order[i] = t
    BY DEF RunsOK
  <2>6. \A t \in RunNames \ {s} : held'[t] # <<>> <=> \E i \in DOMAIN order' : order'[i] = t
    BY ONLY <1>2, <2>3, <2>5
  <2>7. QED BY ONLY <2>4, <2>6
<1>10. QED BY <1>1, <1>2, <1>3, <1>5, <1>7, <1>8, <1>9 DEF RunsOK

LEMMA PutRuns ==
  ASSUME Page!DirectoryAssumption, RunsOK, NEW s \in RunNames, Page!PutSnapshot(s)
  PROVE  /\ RunsOK' /\ held[s] # <<>>
         /\ \E x \in Snapshots[s] :
              /\ journal'[s] # <<>> /\ journal'[s][1].snapshot = <<x>>
              /\ held'[s] = held[s] \/ (held'[s] # <<>> /\ held'[s][1].snapshot = <<x>>)
         /\ \A t \in RunNames \ {s} : journal'[t] = journal[t] /\ held'[t] = held[t]
<1>. DEFINE put(slot, x) == <<[slot[1] EXCEPT !.snapshot = <<x>>]>>
<1>1. PICK x \in Snapshots[s] :
        /\ journal' = [journal EXCEPT ![s] = put(journal[s], x)]
        /\ held' = [held EXCEPT ![s] = put(held[s], x)] \/ held' = held
  BY DEF Page!PutSnapshot, RunsOK
<1>2. held[s] # <<>> /\ journal[s] # <<>> /\ UNCHANGED <<order, opening>>
  BY DEF Page!PutSnapshot, Page!Held, RunsOK
<1>3. held[s] \in Cells(s) /\ journal[s] \in Cells(s)
  BY DEF RunsOK
<1>4. ASSUME NEW slot \in Cells(s), slot # <<>>
      PROVE  /\ put(slot, x) \in Cells(s) /\ put(slot, x) # <<>> /\ put(slot, x)[1].snapshot = <<x>>
             /\ put(slot, x)[1].at = slot[1].at /\ put(slot, x)[1].listed = slot[1].listed
  <2>1. slot[1] \in RunStates(s)
    BY <1>4, SlotFacts
  <2>2. [slot[1] EXCEPT !.snapshot = <<x>>] \in RunStates(s)
    BY <2>1 DEF RunStates
  <2>3. QED BY <2>1, <2>2 DEF RunStates, Cells
<1>5. /\ put(journal[s], x) \in Cells(s) /\ put(journal[s], x) # <<>>
      /\ put(journal[s], x)[1].snapshot = <<x>>
      /\ put(journal[s], x)[1].at = journal[s][1].at /\ put(journal[s], x)[1].listed = journal[s][1].listed
  BY <1>2, <1>3, <1>4
<1>6. /\ put(held[s], x) \in Cells(s) /\ put(held[s], x) # <<>> /\ put(held[s], x)[1].snapshot = <<x>>
      /\ put(held[s], x)[1].at = held[s][1].at /\ put(held[s], x)[1].listed = held[s][1].listed
  BY <1>2, <1>3, <1>4
<1> HIDE DEF put
<1>7. /\ journal'[s] = put(journal[s], x)
      /\ held'[s] = put(held[s], x) \/ held'[s] = held[s]
      /\ \A t \in RunNames \ {s} : journal'[t] = journal[t] /\ held'[t] = held[t]
      /\ held' = [t \in RunNames |-> held'[t]] /\ journal' = [t \in RunNames |-> journal'[t]]
  BY <1>1 DEF RunsOK
<1>8. Recallable' = Recallable
  BY <1>2, <1>5, <1>7 DEF Recallable
<1>9. \A t \in RunNames : held'[t] # <<>> <=> held[t] # <<>>
  BY <1>2, <1>6, <1>7
<1>10. RunsOK'
  <2>1. \A t \in RunNames : held'[t] # <<>> =>
          /\ journal'[t] # <<>> /\ journal'[t][1].at = held'[t][1].at
          /\ journal'[t][1].listed = held'[t][1].listed
          /\ held'[t][1].snapshot # <<>> => journal'[t][1].snapshot # <<>>
    <3>2. /\ journal'[s] # <<>> /\ journal'[s][1].at = held'[s][1].at
          /\ journal'[s][1].listed = held'[s][1].listed
          /\ journal'[s][1].snapshot # <<>>
      <4>1. journal[s][1].at = held[s][1].at /\ journal[s][1].listed = held[s][1].listed
        BY <1>2 DEF RunsOK
      <4>2. <<x>> # <<>>
        OBVIOUS
      <4>3. QED BY <1>5, <1>6, <1>7, <4>1, <4>2
    <3>3. QED BY <1>7, <3>2 DEF RunsOK
  <2>2. \A t \in RunNames : held'[t] \in Cells(t) /\ journal'[t] \in Cells(t)
    BY <1>5, <1>6, <1>7 DEF RunsOK
  <2>3. QED BY <1>2, <1>7, <1>8, <1>9, <2>1, <2>2 DEF RunsOK
<1>11. QED BY <1>2, <1>5, <1>6, <1>7, <1>10

LEMMA RestartRuns ==
  ASSUME Page!DirectoryAssumption, RunsOK, Page!Restart
  PROVE  /\ RunsOK' /\ held' = journal'
         /\ \A s \in RunNames : \/ journal'[s] = journal[s]
                                \/ journal'[s] = opening[s] /\ opening[s] # <<>>
<1>1. PICK written \in SUBSET {s \in RunNames : opening[s] # <<>>} :
        journal' = [s \in RunNames |-> IF s \in written THEN opening[s] ELSE journal[s]]
  BY DEF Page!Restart
<1>2. /\ held' = [s \in RunNames |-> journal'[s]]
      /\ order' \in SetToSeqs({s \in RunNames : journal'[s] # <<>>})
      /\ opening' = [s \in RunNames |-> <<>>]
  BY SameSets DEF Page!Restart, Page!Replay
<1>3. \A s \in RunNames : journal'[s] = IF s \in written THEN opening[s] ELSE journal[s]
  BY <1>1
<1>4. held' = journal'
  BY <1>1, <1>2
<1>5. \A s \in RunNames : \/ journal'[s] = journal[s]
                          \/ journal'[s] = opening[s] /\ opening[s] # <<>>
  BY <1>3
<1>6. \A s \in RunNames : held'[s] \in Cells(s) /\ journal'[s] \in Cells(s) /\ opening'[s] \in Cells(s)
  <2>1. \A s \in RunNames : journal'[s] \in Cells(s) /\ <<>> \in Cells(s)
    BY <1>5 DEF RunsOK, Cells
  <2>2. \A s \in RunNames : held'[s] = journal'[s] /\ opening'[s] = <<>>
    BY <1>2
  <2>3. QED BY <2>1, <2>2
<1> DEFINE kept == {s \in RunNames : journal'[s] # <<>>}
<1>7. kept \in SUBSET Recallable /\ Recallable' \in SUBSET Recallable
  BY <1>2, <1>5 DEF Recallable
<1>8. IsFiniteSet(kept) /\ IsFiniteSet(Recallable')
  BY <1>7, FS_Subset DEF RunsOK
<1>9. /\ order' \in Seq(kept)
      /\ \A s \in kept : \E i \in DOMAIN order' : order'[i] = s
      /\ \A i, j \in DOMAIN order' : order'[i] = order'[j] => i = j
  BY <1>2, <1>8, SeqsOf
<1>10. \A i \in DOMAIN order' : order'[i] \in kept
  BY <1>9
<1>11. order' \in [1 .. Len(order') -> RunNames] /\ Len(order') \in Nat
  BY <1>9, <1>10
<1>12. order' \in Seq(RunNames)
  BY <1>11
<1>13. \A s \in RunNames : held'[s] # <<>> <=> \E i \in DOMAIN order' : order'[i] = s
  BY <1>4, <1>9, <1>10
<1>14. \A s \in RunNames : opening'[s] = <<>>
  BY <1>2
<1>15. /\ held' = [s \in RunNames |-> held'[s]] /\ journal' = [s \in RunNames |-> journal'[s]]
       /\ opening' = [s \in RunNames |-> opening'[s]]
  BY <1>1, <1>2
<1> HIDE DEF kept
<1>16. QED BY <1>4, <1>5, <1>6, <1>8, <1>9, <1>12, <1>13, <1>14, <1>15 DEF RunsOK

\* What is shown has been published, and stays so.
LEMMA HoldPublished ==
  ASSUME Page!DirectoryAssumption, RunsOK, PublishedOK, Page!Hold
  PROVE  RunsOK' /\ PublishedOK' /\ published \subseteq published'
<1>1. PICK s \in RunNames : \/ Page!BeginOpen(s) \/ Page!FinishOpen(s) \/ Page!FailOpen(s)
                            \/ Page!PutSnapshot(s)
  BY DEF Page!Hold, Page!DirectoryStep
<1>2. RunsOK'
  BY <1>1, BeginOpenRuns, FinishOpenRuns, FailOpenRuns, PutRuns
<1>3. published' = published \cup
        UNION {journal'[t][1].snapshot[1].anchors :
                 t \in {u \in RunNames : journal'[u] # <<>> /\ journal'[u][1].snapshot # <<>>}}
  BY DEF Page!Hold
<1>4. published \subseteq published'
  BY <1>3
<1>5. ASSUME NEW t \in RunNames
      PROVE  ShownBy(journal[t])'
  BY <1>3 DEF ShownBy
<1>6. ASSUME NEW t \in RunNames
      PROVE  ShownBy(held[t])'
  <2>1. CASE held'[t] = held[t]
    BY <1>4, <2>1 DEF PublishedOK, ShownBy
  <2>2. CASE held'[t] # held[t]
    <3>1. Page!FinishOpen(s) \/ Page!PutSnapshot(s)
      BY <1>1, <2>2 DEF Page!BeginOpen, Page!FailOpen
    <3>2. CASE Page!FinishOpen(s)
      <4>1. held'[t] = opening[s] /\ t = s /\ opening[s] # <<>>
        BY <2>2, <3>2 DEF Page!FinishOpen, RunsOK
      <4>2. held'[t][1].snapshot = <<>>
        BY <4>1 DEF RunsOK
      <4>3. QED BY <4>2 DEF ShownBy
    <3>3. CASE Page!PutSnapshot(s)
      <4>1. t = s
        BY <2>2, <3>3, PutRuns
      <4>2. PICK x \in Snapshots[s] :
              /\ journal'[s] # <<>> /\ journal'[s][1].snapshot = <<x>>
              /\ held'[s] # <<>> /\ held'[s][1].snapshot = <<x>>
        BY <2>2, <3>3, <4>1, PutRuns
      <4>3. x.anchors \subseteq published'
        BY <1>5, <4>1, <4>2 DEF ShownBy
      <4>4. QED BY <4>1, <4>2, <4>3 DEF ShownBy
    <3>4. QED BY <3>1, <3>2, <3>3
  <2>3. QED BY <2>1, <2>2
<1>7. QED BY <1>2, <1>4, <1>5, <1>6 DEF PublishedOK

\* An anchor that was published stays so, and so does what rests on it.
LEMMA MorePublished ==
  ASSUME AskingOK, SpentOK, published \subseteq published', UNCHANGED <<asking, cache, spent>>
  PROVE  AskingOK' /\ SpentOK'
<1>1. AskingOK'
  BY DEF AskingOK
<1>2. SpentOK'
  BY DEF SpentOK
<1>3. QED BY <1>1, <1>2

\* The anchors a request finds are published, and of what is asked for.
LEMMA FoundIsPublished ==
  ASSUME Page!DirectoryAssumption, Page!LedgerAssumption, RunsOK, PublishedOK,
         NEW key, NEW anchor \in Page!FindAnchored(key)
  PROVE  anchor \in published /\ anchor \in Anchors /\ Page!NamedBy(key, anchor)
<1>1. PICK s \in RunNames : /\ held[s] # <<>> /\ held[s][1].snapshot # <<>>
                            /\ anchor \in held[s][1].snapshot[1].anchors
  BY DEF Page!FindAnchored, Page!Shown, Page!Held
<1>2. held[s][1].snapshot[1] \in Snapshots[s]
  BY <1>1, SlotFacts DEF RunsOK
<1>3. anchor \in Anchors
  BY <1>1, <1>2 DEF Page!LedgerAssumption
<1>4. anchor \in published
  BY <1>1 DEF PublishedOK, ShownBy
<1>5. QED BY <1>3, <1>4 DEF Page!FindAnchored

\* A visitor's step changes its own request only.
LEMMA Asks ==
  ASSUME Page!DirectoryAssumption, Page!LedgerAssumption, RunsOK, PublishedOK, AskingOK,
         NEW v \in Visitors, NEW key \in Page!Keys, Page!Ask(v, key)
  PROVE  /\ AskingOK' /\ UNCHANGED <<token, cache, mints, rivals, spent, published>>
         /\ Minting' = Minting
<1> DEFINE request(anchor) == [at |-> "client", key |-> key, anchor |-> anchor]
<1>1. UNCHANGED <<token, cache, mints, rivals, spent, published>> /\ asking[v] = <<>>
  BY DEF Page!Ask
<1>2. \/ asking' = asking
      \/ key.of = "agent" /\ asking' = [asking EXCEPT ![v] = <<request(None)>>]
      \/ \E anchor \in Page!FindAnchored(key) : asking' = [asking EXCEPT ![v] = <<request(anchor)>>]
  BY DEF Page!Ask
<1>3. CASE asking' = asking
  BY <1>1, <1>3 DEF AskingOK, Minting, Page!Looking, Page!At
<1>4. ASSUME NEW anchor \in Anchors \cup {None},
             key.of = "agent" \/ (anchor \in published /\ Page!NamedBy(key, anchor)),
             asking' = [asking EXCEPT ![v] = <<request(anchor)>>]
      PROVE  AskingOK' /\ Minting' = Minting
  <2>1. request(anchor) \in PageAsks
    BY DEF PageAsks
  <2>2. /\ asking'[v] = <<request(anchor)>> /\ \A u \in Visitors \ {v} : asking'[u] = asking[u]
        /\ asking' \in [Visitors -> {<<>>} \cup {<<r>> : r \in PageAsks}]
    BY <1>4, <2>1 DEF AskingOK
  <2>3. asking'[v][1].at = "client" /\ asking'[v][1].key = key /\ asking'[v][1].anchor = anchor
    BY <2>2
  <2>4. AskingOK'
    BY <1>1, <1>4, <2>2, <2>3 DEF AskingOK
  <2>5. Minting' = Minting
    BY <1>1, <2>2, <2>3 DEF Minting, Page!Looking, Page!At
  <2>6. QED BY <2>4, <2>5
<1>5. CASE key.of = "agent" /\ asking' = [asking EXCEPT ![v] = <<request(None)>>]
  BY <1>1, <1>4, <1>5
<1>6. CASE \E anchor \in Page!FindAnchored(key) : asking' = [asking EXCEPT ![v] = <<request(anchor)>>]
  BY <1>1, <1>4, <1>6, FoundIsPublished
<1>7. QED BY <1>1, <1>2, <1>3, <1>5, <1>6

\* A request that goes on, goes on with what it found.
LEMMA GoesOn ==
  ASSUME AskingOK, NEW v \in Visitors, asking[v] # <<>>, UNCHANGED published,
         \/ Page!Answer(v)
         \/ \E at \in {"client", "file", "mint", "ledger"} : Page!Goto(v, at)
  PROVE  /\ AskingOK' /\ \A u \in Visitors \ {v} : asking'[u] = asking[u]
         /\ Page!Answer(v) => asking'[v] = <<>>
         /\ \A at : Page!Goto(v, at) => asking'[v] # <<>> /\ asking'[v][1].at = at
<1>1. PICK r \in PageAsks : asking[v] = <<r>>
  BY DEF AskingOK
<1>2. CASE Page!Answer(v)
  <2>1. asking' = [asking EXCEPT ![v] = <<>>]
    BY <1>2 DEF Page!Answer
  <2>2. asking'[v] = <<>> /\ \A u \in Visitors \ {v} : asking'[u] = asking[u]
    BY <2>1 DEF AskingOK
  <2>3. AskingOK'
    BY <2>1, <2>2 DEF AskingOK
  <2>4. \A at : ~Page!Goto(v, at)
    BY <1>1, <2>2 DEF Page!Goto, AskingOK
  <2>5. QED BY <2>2, <2>3, <2>4
<1>3. ASSUME NEW at \in {"client", "file", "mint", "ledger"}, Page!Goto(v, at)
      PROVE  /\ AskingOK' /\ asking'[v] # <<>> /\ asking'[v][1].at = at
             /\ \A u \in Visitors \ {v} : asking'[u] = asking[u]
  <2>1. asking' = [asking EXCEPT ![v] = <<[r EXCEPT !.at = at]>>]
    <3>1. asking' = [asking EXCEPT ![v] = [asking[v] EXCEPT ![1] = [asking[v][1] EXCEPT !.at = at]]]
      BY <1>3 DEF Page!Goto
    <3>2. [<<r>> EXCEPT ![1] = [<<r>>[1] EXCEPT !.at = at]] = <<[r EXCEPT !.at = at]>>
      OBVIOUS
    <3>3. QED BY <1>1, <3>1, <3>2
  <2>2. [r EXCEPT !.at = at] \in PageAsks /\ [r EXCEPT !.at = at].key = r.key
        /\ [r EXCEPT !.at = at].anchor = r.anchor /\ [r EXCEPT !.at = at].at = at
    BY DEF PageAsks
  <2>3. /\ asking'[v] = <<[r EXCEPT !.at = at]>> /\ \A u \in Visitors \ {v} : asking'[u] = asking[u]
        /\ asking' \in [Visitors -> {<<>>} \cup {<<q>> : q \in PageAsks}]
    BY <2>1, <2>2 DEF AskingOK
  <2>4. asking'[v] # <<>> /\ asking'[v][1] = [r EXCEPT !.at = at]
    BY <2>3
  <2>5. \/ r.key.of = "agent"
        \/ r.anchor \in published /\ Page!NamedBy(r.key, r.anchor)
    <3>1. asking[v] # <<>> /\ asking[v][1] = r
      BY <1>1
    <3>2. \/ asking[v][1].key.of = "agent"
          \/ asking[v][1].anchor \in published /\ Page!NamedBy(asking[v][1].key, asking[v][1].anchor)
      BY <3>1 DEF AskingOK
    <3>3. QED BY ONLY <3>1, <3>2
  <2>6. asking'[v][1].key = r.key /\ asking'[v][1].anchor = r.anchor
    BY <2>2, <2>4
  <2>7. AskingOK'
    BY <2>3, <2>5, <2>6 DEF AskingOK
  <2>8. QED BY <2>2, <2>3, <2>4, <2>7
<1>4. ASSUME NEW at, Page!Goto(v, at)
      PROVE  asking'[v] # <<>> /\ asking'[v][1].at = at
  BY <1>1, <1>4 DEF Page!Goto, AskingOK
<1>5. ASSUME Page!Answer(v)
      PROVE  asking'[v] = <<>>
  BY <1>5 DEF Page!Answer, AskingOK
<1>6. QED BY <1>2, <1>3, <1>4, <1>5

\* Once there is a token nobody joins those that may mint, and who has minted leaves.
LEMMA StepKeeps ==
  ASSUME Page!DirectoryAssumption, Page!LedgerAssumption, RunsInv, NEW v \in Visitors, Page!Step(v)
  PROVE  /\ AskingOK' /\ SpentOK' /\ MintsOK' /\ UNCHANGED <<order, held, journal, opening, published>>
<1>1. UNCHANGED <<order, held, journal, opening, published>>
  BY DEF Page!Step, Page!Ask, Page!NeedToken, Page!ReadTokenFile, Page!Mint, Page!ReadLedger,
         Page!directoryVars
<1>2. IsFiniteSet(Minting) /\ Cardinality(Minting) \in Nat
  <2>1. Minting \in SUBSET Visitors /\ IsFiniteSet(Visitors)
    BY SameSets DEF Minting, Page!LedgerAssumption
  <2>2. QED BY <2>1, FS_Subset, FS_CardinalityType
<1>3. ASSUME Minting' \in SUBSET Minting
      PROVE  Cardinality(Minting') \in Nat /\ Cardinality(Minting') <= Cardinality(Minting)
  BY <1>2, <1>3, FS_Subset, FS_CardinalityType
<1>4. mints \in Nat /\ rivals \in Nat /\ mints + Cardinality(Minting) <= 1 + rivals
  BY DEF RunsInv, MintsOK
<1>5. token \in BOOLEAN /\ (token \/ mints = 0)
  BY DEF RunsInv, MintsOK
<1>6. ASSUME token' \in BOOLEAN, mints' \in Nat, rivals' \in Nat, token' \/ mints' = 0,
              mints' + Cardinality(Minting') <= 1 + rivals'
       PROVE  MintsOK'
  BY <1>6 DEF MintsOK
<1>7. ASSUME UNCHANGED <<cache, spent, published>>
       PROVE  SpentOK'
  BY <1>7 DEF RunsInv, SpentOK
<1>8. ASSUME NEW key \in Page!Keys, Page!Ask(v, key)
      PROVE  AskingOK' /\ SpentOK' /\ MintsOK'
  <2>1. /\ AskingOK' /\ UNCHANGED <<token, cache, mints, rivals, spent, published>> /\ Minting' = Minting
    BY <1>8, Asks DEF RunsInv
  <2>2. QED BY <2>1 DEF RunsInv, SpentOK, MintsOK
<1>9. CASE Page!NeedToken(v)
  <2>1. /\ asking[v] # <<>> /\ UNCHANGED <<token, cache, mints, spent, published>>
        /\ Page!Goto(v, IF token THEN "ledger" ELSE "file")
    BY <1>9 DEF Page!NeedToken, Page!At
  <2>2. /\ AskingOK' /\ \A u \in Visitors \ {v} : asking'[u] = asking[u]
        /\ asking'[v][1].at = IF token THEN "ledger" ELSE "file"
    BY <2>1, GoesOn DEF RunsInv
  <2>3. rivals' = IF ~token /\ \E w \in Visitors : Page!Looking(w) THEN rivals + 1 ELSE rivals
    BY <1>9 DEF Page!NeedToken
  <2>4. Minting' = IF token THEN Minting ELSE Minting \cup {v}
    BY <1>9, <2>1, <2>2, GoesOn DEF RunsInv, Minting, Page!Looking, Page!At, Page!NeedToken
  <2>5. CASE token
    <3>1. Minting' = Minting /\ rivals' = rivals
      BY <2>3, <2>4, <2>5
    <3>2. MintsOK'
      BY <1>4, <1>5, <1>6, <2>1, <3>1
    <3>3. QED BY <1>1, <1>7, <2>1, <2>2, <3>2
  <2>6. CASE ~token
    <3>1. mints = 0 /\ mints' = 0 /\ token' = token
      BY <1>5, <2>1, <2>6
    <3>2. Cardinality(Minting') <= 1 + rivals' /\ rivals' \in Nat /\ Cardinality(Minting') \in Nat
      <4>1. v \notin Minting /\ Minting' = Minting \cup {v}
        BY <1>9, <2>4, <2>6 DEF Minting, Page!Looking, Page!At, Page!NeedToken
      <4>2. Cardinality(Minting') = Cardinality(Minting) + 1
        BY <1>2, <4>1, FS_AddElement
      <4>3. CASE \E w \in Visitors : Page!Looking(w)
        BY <1>2, <1>4, <2>3, <2>6, <3>1, <4>2, <4>3
      <4>4. CASE ~\E w \in Visitors : Page!Looking(w)
        <5>1. Minting = {} /\ rivals' = rivals
          BY <2>3, <4>4 DEF Minting
        <5>2. Cardinality(Minting) = 0
          BY <5>1, FS_EmptySet
        <5>3. QED BY <1>4, <4>2, <5>1, <5>2
      <4>5. QED BY <4>3, <4>4
    <3>3. MintsOK'
      BY <1>5, <1>6, <2>6, <3>1, <3>2
    <3>4. QED BY <1>1, <1>7, <2>1, <2>2, <3>3
  <2>7. QED BY <2>5, <2>6
<1>10. CASE Page!ReadTokenFile(v)
  <2>1. /\ asking[v] # <<>> /\ asking[v][1].at = "file" /\ UNCHANGED <<cache, mints, rivals, spent, published>>
        /\ \/ token' = TRUE /\ Page!Goto(v, "ledger")
           \/ token' = token /\ Page!Goto(v, "mint")
    BY <1>10 DEF Page!ReadTokenFile, Page!At
  <2>2. AskingOK' /\ \A u \in Visitors \ {v} : asking'[u] = asking[u]
    BY <2>1, GoesOn DEF RunsInv
  <2>3. Minting' \in SUBSET Minting
    BY <2>1, <2>2 DEF Minting, Page!Looking, Page!At
  <2>4. mints' = mints /\ token' \in BOOLEAN /\ (token' \/ mints' = 0)
    BY <2>1, <1>5
  <2>5. mints' + Cardinality(Minting') <= 1 + rivals'
    BY <1>2, <1>3, <1>4, <2>1, <2>3, <2>4
  <2>6. MintsOK'
    BY <1>4, <1>6, <2>1, <2>4, <2>5
  <2>7. QED BY <1>1, <1>7, <2>1, <2>2, <2>6
<1>11. CASE Page!Mint(v)
  <2>1. /\ asking[v] # <<>> /\ asking[v][1].at = "mint" /\ UNCHANGED <<cache, rivals, spent, published>>
        /\ \/ token' = TRUE /\ mints' = mints + 1 /\ Page!Goto(v, "ledger")
           \/ token' = token /\ mints' = mints /\ Page!Answer(v)
    BY <1>11 DEF Page!Mint, Page!At, Page!KeepToken
  <2>2. AskingOK' /\ \A u \in Visitors \ {v} : asking'[u] = asking[u]
    BY <2>1, GoesOn DEF RunsInv
  <2>3. v \in Minting /\ Minting' = Minting \ {v}
    <3>1. v \in Minting
      BY <2>1 DEF Minting, Page!Looking, Page!At
    <3>2. asking'[v] = <<>> \/ asking'[v][1].at = "ledger"
      BY <2>1, GoesOn DEF RunsInv
    <3>3. QED BY <2>2, <3>1, <3>2 DEF Minting, Page!Looking, Page!At
  <2>4. Cardinality(Minting') = Cardinality(Minting) - 1
    BY <1>2, <2>3, FS_RemoveElement
  <2>5. token' \in BOOLEAN /\ (token' \/ mints' = 0) /\ (mints' = mints \/ mints' = mints + 1)
    BY <2>1, <1>5
  <2>6. mints' \in Nat /\ mints' + Cardinality(Minting') <= 1 + rivals'
    BY <1>2, <1>4, <2>1, <2>4, <2>5
  <2>7. MintsOK'
    BY <1>4, <1>6, <2>1, <2>5, <2>6
  <2>8. QED BY <1>1, <1>7, <2>1, <2>2, <2>7
<1>12. CASE Page!ReadLedger(v)
  <2>1. /\ asking[v] # <<>> /\ UNCHANGED <<token, mints, rivals, published>> /\ Page!Answer(v)
    BY <1>12 DEF Page!ReadLedger, Page!At
  <2>2. AskingOK' /\ (\A u \in Visitors \ {v} : asking'[u] = asking[u]) /\ asking'[v] = <<>>
    BY <2>1, GoesOn DEF RunsInv
  <2>3. Minting' \in SUBSET Minting
    BY <2>2 DEF Minting, Page!Looking, Page!At
  <2>4. MintsOK'
    BY <1>2, <1>3, <1>4, <1>5, <1>6, <2>1, <2>3
  <2> DEFINE request == asking[v][1]
             kept == IF request.key.of = "agent" THEN {}
                     ELSE {[key |-> request.key, anchor |-> request.anchor]}
  <2>5. /\ spent' = spent \cup {entry.key : entry \in kept}
        /\ cache' \subseteq cache \cup kept
    BY <1>12 DEF Page!ReadLedger
  <2>6. \A entry \in kept : entry.anchor \in published /\ Page!NamedBy(entry.key, entry.anchor)
    BY <2>1 DEF RunsInv, AskingOK
  <2> HIDE DEF kept
  <2>7. SpentOK'
    BY <2>1, <2>5, <2>6 DEF RunsInv, SpentOK
  <2>8. QED BY <1>1, <2>2, <2>4, <2>7
<1>13. QED BY <1>1, <1>8, <1>9, <1>10, <1>11, <1>12 DEF Page!Step

LEMMA NextRuns ==
  ASSUME Page!DirectoryAssumption, Page!LedgerAssumption, RunsInv, [Page!Next]_(Page!vars)
  PROVE  RunsInv'
<1>1. CASE Page!Hold
  <2>1. RunsOK' /\ PublishedOK' /\ published \subseteq published'
    BY <1>1, HoldPublished DEF RunsInv
  <2>2. UNCHANGED <<token, cache, asking, mints, rivals, spent>>
    BY <1>1 DEF Page!Hold
  <2>3. AskingOK' /\ SpentOK'
    BY <2>1, <2>2, MorePublished DEF RunsInv
  <2>4. MintsOK'
    BY <2>2 DEF RunsInv, MintsOK, Minting, Page!Looking, Page!At
  <2>5. QED BY <2>1, <2>3, <2>4 DEF RunsInv
<1>2. CASE Page!RestartAll
  <2>1. /\ Page!Restart /\ token' = FALSE /\ cache' = {} /\ mints' = 0 /\ rivals' = 0
        /\ asking' = [v \in Visitors |-> <<>>] /\ UNCHANGED <<spent, published>>
    BY <1>2 DEF Page!RestartAll
  <2>2. /\ RunsOK' /\ held' = journal'
        /\ \A s \in RunNames : \/ journal'[s] = journal[s]
                               \/ journal'[s] = opening[s] /\ opening[s][1].snapshot = <<>>
    BY <2>1, RestartRuns DEF RunsInv, RunsOK
  <2>3. PublishedOK'
    BY <2>1, <2>2 DEF RunsInv, PublishedOK, ShownBy
  <2>4. AskingOK' /\ SpentOK'
    BY <2>1 DEF RunsInv, AskingOK, SpentOK
  <2>5. MintsOK'
    <3>1. Minting' = {}
      BY <2>1 DEF Minting, Page!Looking, Page!At
    <3>2. Cardinality(Minting') = 0
      BY <3>1, FS_EmptySet
    <3>3. token' = FALSE /\ mints' = 0 /\ rivals' = 0
      BY <2>1
    <3>4. mints' \in Nat /\ rivals' \in Nat /\ mints' + Cardinality(Minting') <= 1 + rivals'
      BY <3>2, <3>3
    <3>5. QED BY ONLY <3>3, <3>4 DEF MintsOK
  <2>6. QED BY <2>2, <2>3, <2>4, <2>5 DEF RunsInv
<1>3. ASSUME NEW v \in Visitors, Page!Step(v)
      PROVE  RunsInv'
  <2>1. AskingOK' /\ SpentOK' /\ MintsOK' /\ UNCHANGED <<order, held, journal, opening, published>>
    BY <1>3, StepKeeps
  <2>2. RunsOK'
    BY <2>1 DEF RunsInv, RunsOK, Recallable
  <2>3. PublishedOK'
    BY <2>1 DEF RunsInv, PublishedOK, ShownBy
  <2>4. QED BY <2>1, <2>2, <2>3 DEF RunsInv
<1>4. CASE UNCHANGED Page!vars
  BY <1>4 DEF Page!vars, Page!directoryVars, Page!ledgerVars, RunsInv, RunsOK, PublishedOK, ShownBy,
              Recallable, AskingOK, SpentOK, MintsOK, Minting, Page!Looking, Page!At
<1>5. QED BY <1>1, <1>2, <1>3, <1>4 DEF Page!Next

\* The runs a relay holds and what it reads of the ledger for them.
THEOREM RunsInductive ==
  ASSUME Page!DirectoryAssumption, Page!LedgerAssumption
  PROVE  Page!Spec => []RunsInv
<1>1. Page!Init => RunsInv
  BY InitRuns
<1>2. RunsInv /\ [Page!Next]_(Page!vars) => RunsInv'
  BY NextRuns
<1>3. QED BY <1>1, <1>2, PTL DEF Page!Spec

\* The token is spent on what the runs have anchored, what is kept is shown with such an
\* anchor, and beyond the first token of a process only a request that looked for one
\* while another did has minted.
THEOREM TokenSpentOnRuns ==
  ASSUME Page!DirectoryAssumption, Page!LedgerAssumption
  PROVE  Page!Spec => []Page!SpentOnRuns
<1>1. RunsInv => Page!SpentOnRuns
  <2> SUFFICES ASSUME RunsInv
               PROVE  mints <= 1 + rivals
    BY DEF RunsInv, SpentOK, Page!SpentOnRuns
  <2>1. IsFiniteSet(Minting)
    <3>1. Minting \in SUBSET Visitors /\ IsFiniteSet(Visitors)
      BY SameSets DEF Minting, Page!LedgerAssumption
    <3>2. QED BY <3>1, FS_Subset
  <2>2. Cardinality(Minting) \in Nat
    BY <2>1, FS_CardinalityType
  <2>3. QED BY <2>2 DEF RunsInv, MintsOK
<1>2. QED BY <1>1, RunsInductive, PTL

\* A run that is listed began at some time, and has its place in the map.
LEMMA ListedFacts ==
  ASSUME Page!DirectoryAssumption, RunsOK
  PROVE  /\ IsFiniteSet(Page!Listed) /\ Page!Listed \subseteq RunNames
         /\ \A s \in Page!Listed : Page!StartedAt(s) \in Nat /\ Page!Position(s) \in Nat
         /\ \A s, t \in Page!Listed : Page!Position(s) = Page!Position(t) => s = t
<1>1. Page!Listed \in SUBSET Recallable /\ IsFiniteSet(Recallable)
  BY DEF Page!Listed, Page!Held, RunsOK, Recallable
<1>2. IsFiniteSet(Page!Listed) /\ Page!Listed \subseteq RunNames
  BY <1>1, FS_Subset DEF Page!Listed
<1>3. ASSUME NEW s \in Page!Listed
      PROVE  /\ Page!StartedAt(s) \in Nat
             /\ Page!Position(s) \in DOMAIN order /\ order[Page!Position(s)] = s
  <2>1. s \in RunNames /\ held[s] # <<>> /\ held[s] \in Cells(s)
    BY <1>3 DEF Page!Listed, Page!Held, RunsOK
  <2>2. Page!StartedAt(s) \in Nat
    BY <2>1, SlotFacts DEF Page!StartedAt
  <2>3. \E i \in DOMAIN order : order[i] = s
    BY <2>1 DEF RunsOK
  <2>4. Page!Position(s) \in DOMAIN order /\ order[Page!Position(s)] = s
    BY <2>3 DEF Page!Position
  <2>5. QED BY <2>2, <2>4
<1>4. DOMAIN order \subseteq Nat
  BY DEF RunsOK
<1>5. QED BY <1>2, <1>3, <1>4

\* The alias leads to a run as new as any, and the run list starts with one as new.
LEMMA NewestIs ==
  ASSUME Page!DirectoryAssumption
  PROVE  RunsOK /\ Page!Listed # {} =>
           LET head == Head(Page!RunList)
           IN /\ Page!Newest \in Page!Listed /\ head \in Page!Listed
              /\ \A t \in Page!Listed : /\ Page!StartedAt(t) \in Nat
                                        /\ Page!StartedAt(t) <= Page!StartedAt(Page!Newest)
                                        /\ Page!StartedAt(t) <= Page!StartedAt(head)
<1> SUFFICES ASSUME RunsOK, Page!Listed # {}
             PROVE  LET head == Head(Page!RunList)
                    IN /\ Page!Newest \in Page!Listed /\ head \in Page!Listed
                       /\ \A t \in Page!Listed : /\ Page!StartedAt(t) \in Nat
                                                 /\ Page!StartedAt(t) <= Page!StartedAt(Page!Newest)
                                                 /\ Page!StartedAt(t) <= Page!StartedAt(head)
  OBVIOUS
<1> DEFINE L == Page!Listed
           Later(s, t) == \/ Page!StartedAt(t) < Page!StartedAt(s)
                          \/ /\ Page!StartedAt(t) = Page!StartedAt(s)
                             /\ Page!Position(t) < Page!Position(s)
           Down == {p \in L \X L : Later(p[1], p[2])}
           Up == {p \in L \X L : Page!Before(p[1], p[2])}
<1>1. /\ IsFiniteSet(L)
      /\ \A s \in L : Page!StartedAt(s) \in Nat /\ Page!Position(s) \in Nat
      /\ \A s, t \in L : Page!Position(s) = Page!Position(t) => s = t
  BY ListedFacts
<1>2. Orders(Down, L)
  BY <1>1 DEF Orders
<1>3. Orders(Up, L)
  BY <1>1 DEF Orders, Page!Before
<1>4. \E s \in L : \A t \in L \ {s} : Later(s, t)
  <2> HIDE DEF Down
  <2>1. PICK s \in L : \A t \in L \ {s} : <<s, t>> \in Down
    BY <1>1, <1>2, First
  <2>2. QED BY <2>1 DEF Down
<1>5. Page!Newest \in L /\ \A t \in L \ {Page!Newest} : Later(Page!Newest, t)
  BY <1>4 DEF Page!Newest
<1>6. \A t \in L : Page!StartedAt(t) <= Page!StartedAt(Page!Newest)
  BY <1>1, <1>5
<1> DEFINE InOrder(q) == \A i, j \in DOMAIN q : i < j => Page!Before(q[i], q[j])
           runs == CHOOSE q \in Page!SetToSeqs(L) : InOrder(q)
<1>7. \E q \in SetToSeqs(L) : InOrder(q)
  <2> HIDE DEF Up
  <2>1. PICK q \in SetToSeqs(L) : \A i, j \in DOMAIN q : i < j => <<q[i], q[j]>> \in Up
    BY <1>1, <1>3, Sorts
  <2>2. QED BY <2>1 DEF Up
<1>8. Page!SetToSeqs(L) = SetToSeqs(L)
  BY SameSets
<1>9. runs \in SetToSeqs(L) /\ InOrder(runs)
  BY <1>7, <1>8
<1>10. Page!RunList = SubSeq(runs, 1, IF Len(runs) < HistoryLimit THEN Len(runs) ELSE HistoryLimit)
  BY DEF Page!RunList
<1> HIDE DEF runs
<1>11. /\ runs \in Seq(L) /\ \A x \in L : \E i \in DOMAIN runs : runs[i] = x
  BY <1>1, <1>9, SeqsOf
<1>12. Len(runs) \in Nat /\ Len(runs) >= 1 /\ DOMAIN runs = 1 .. Len(runs) /\ runs[1] \in L
  BY <1>11
<1>13. HistoryLimit \in Nat /\ HistoryLimit >= 1
  BY DEF Page!DirectoryAssumption
<1>14. Head(Page!RunList) = runs[1]
  BY <1>10, <1>11, <1>12, <1>13
<1>15. ASSUME NEW t \in L
       PROVE  Page!StartedAt(t) <= Page!StartedAt(runs[1])
  <2>1. PICK i \in DOMAIN runs : runs[i] = t
    BY <1>11
  <2>2. CASE i = 1
    BY <1>1, <2>1, <2>2
  <2>3. CASE i # 1
    <3>1. 1 \in DOMAIN runs /\ 1 < i
      BY <1>12, <2>3
    <3>2. Page!Before(runs[1], t)
      BY <1>9, <2>1, <3>1
    <3>3. QED BY <1>1, <1>12, <3>2 DEF Page!Before
  <2>4. QED BY <2>2, <2>3
<1>16. QED BY <1>1, <1>5, <1>6, <1>12, <1>14, <1>15

\* A run that is listed stays listed, and is not told to have begun earlier.
LEMMA StaysListed ==
  ASSUME Page!DirectoryAssumption, Page!LedgerAssumption, RunsInv, [Page!Next]_(Page!vars),
         NEW s \in Page!Listed
  PROVE  s \in Page!Listed' /\ Page!StartedAt(s) <= Page!StartedAt(s)'
<1> DEFINE Same(slot) ==
             /\ slot # <<>> /\ slot[1].listed = held[s][1].listed /\ slot[1].at = held[s][1].at
             /\ held[s][1].snapshot # <<>> => slot[1].snapshot # <<>>
<1>1. s \in RunNames /\ held[s] # <<>> /\ held[s][1].listed /\ held[s] \in Cells(s)
  BY DEF Page!Listed, Page!Held, RunsInv, RunsOK
<1>2. RunsInv'
  BY NextRuns
<1>3. Same(held[s]) /\ Same(journal[s])
  BY <1>1 DEF RunsInv, RunsOK
<1>4. Same(held'[s])
  <2>1. CASE Page!Hold
    <3>1. PICK t \in RunNames : \/ Page!BeginOpen(t) \/ Page!FinishOpen(t) \/ Page!FailOpen(t)
                                \/ Page!PutSnapshot(t)
      BY <2>1 DEF Page!Hold, Page!DirectoryStep
    <3>2. CASE held'[s] = held[s]
      BY <1>3, <3>2
    <3>3. CASE held'[s] # held[s]
      <4>1. ~Page!BeginOpen(t) /\ ~Page!FailOpen(t)
        BY <3>3 DEF Page!BeginOpen, Page!FailOpen
      <4>2. ~Page!FinishOpen(t)
        BY <1>1, <3>3 DEF Page!FinishOpen, RunsInv, RunsOK
      <4>3. Page!PutSnapshot(t) /\ t = s
        <5>1. RunsOK /\ Page!PutSnapshot(t)
          BY <3>1, <4>1, <4>2 DEF RunsInv
        <5>2. \A u \in RunNames \ {t} : held'[u] = held[u]
          BY <5>1, PutRuns
        <5>3. QED BY <1>1, <3>3, <5>1, <5>2
      <4>4. PICK x \in Snapshots[s] :
              \/ held' = [held EXCEPT ![s] = <<[held[s][1] EXCEPT !.snapshot = <<x>>]>>]
              \/ held' = held
        BY <4>3 DEF Page!PutSnapshot
      <4>5. held'[s] = <<[held[s][1] EXCEPT !.snapshot = <<x>>]>>
        BY <1>1, <3>3, <4>4 DEF RunsInv, RunsOK
      <4>6. held[s][1] \in RunStates(s)
        BY <1>1, SlotFacts
      <4>7. QED BY <4>5, <4>6 DEF RunStates
    <3>4. QED BY <3>2, <3>3
  <2>2. CASE Page!RestartAll
    <3>1. held'[s] = journal'[s] /\ (journal'[s] = journal[s] \/ opening[s] # <<>>)
      BY <1>1, <2>2, RestartRuns DEF RunsInv, Page!RestartAll
    <3>2. held'[s] = journal[s]
      BY <1>1, <3>1 DEF RunsInv, RunsOK
    <3>3. QED BY <1>3, <3>2
  <2>3. ASSUME NEW v \in Visitors, Page!Step(v)
        PROVE  Same(held'[s])
    BY <1>3, <2>3, StepKeeps
  <2>4. CASE UNCHANGED Page!vars
    BY <1>3, <2>4 DEF Page!vars, Page!directoryVars
  <2>5. QED BY <2>1, <2>2, <2>3, <2>4 DEF Page!Next
<1>5. held'[s] \in Cells(s)
  BY <1>1, <1>2 DEF RunsInv, RunsOK
<1>6. s \in Page!Listed'
  BY <1>1, <1>4 DEF Page!Listed, Page!Held
<1>7. /\ held[s][1].snapshot # <<>> => held[s][1].snapshot[1] \in Snapshots[s]
      /\ held'[s][1].snapshot # <<>> => held'[s][1].snapshot[1] \in Snapshots[s]
      /\ held[s][1].at \in Nat
  BY <1>1, <1>4, <1>5, SlotFacts
<1>8. \A x, y \in Snapshots[s] : x.begun = y.begun /\ x.begun \in Nat
  BY <1>1 DEF Page!DirectoryAssumption
<1>9. Page!StartedAt(s) = IF held[s][1].at # 0 THEN held[s][1].at
                          ELSE IF held[s][1].snapshot # <<>> THEN held[s][1].snapshot[1].begun ELSE 0
  BY DEF Page!StartedAt
<1>10. Page!StartedAt(s)' = IF held'[s][1].at # 0 THEN held'[s][1].at
                            ELSE IF held'[s][1].snapshot # <<>> THEN held'[s][1].snapshot[1].begun ELSE 0
  BY DEF Page!StartedAt
<1>11. QED BY <1>4, <1>6, <1>7, <1>8, <1>9, <1>10

\* The alias never goes back, and the run list starts where it leads.
THEOREM AliasStays ==
  ASSUME Page!DirectoryAssumption, Page!LedgerAssumption
  PROVE  Page!Spec => Page!NewestStays
<1> DEFINE Stays ==
             Page!Discovery("current") # None =>
               /\ Page!Monitored("current")' = Page!Discovery("current")'
               /\ Page!Discovery("current")' # None
               /\ Page!StartedAt(Page!Newest)' >= Page!StartedAt(Page!Newest)
               /\ Page!StartedAt(Head(Page!RunList))' = Page!StartedAt(Page!Newest)'
<1>1. ASSUME RunsInv, [Page!Next]_(Page!vars)
      PROVE  Stays
  <2>1. CASE Page!Listed = {}
    BY <2>1 DEF Page!Discovery, Page!Newest
  <2>2. CASE Page!Listed # {}
    <3>1. RunsOK /\ RunsOK'
      BY <1>1, NextRuns DEF RunsInv
    <3>2. Page!Newest \in Page!Listed
      BY <2>2, <3>1, NewestIs
    <3>3. /\ Page!Newest \in Page!Listed'
          /\ \A s \in Page!Listed : s \in Page!Listed' /\ Page!StartedAt(s) <= Page!StartedAt(s)'
      BY <1>1, <3>2, StaysListed
    <3>4. (RunsOK /\ Page!Listed # {} =>
             LET head == Head(Page!RunList)
             IN /\ Page!Newest \in Page!Listed /\ head \in Page!Listed
                /\ \A t \in Page!Listed : /\ Page!StartedAt(t) \in Nat
                                          /\ Page!StartedAt(t) <= Page!StartedAt(Page!Newest)
                                          /\ Page!StartedAt(t) <= Page!StartedAt(head))'
      BY NewestIs, PTL
    <3>5. /\ Page!Newest' \in Page!Listed'
          /\ Page!StartedAt(Page!Newest)' \in Nat /\ Page!StartedAt(Head(Page!RunList))' \in Nat
          /\ Page!StartedAt(Page!Newest)' = Page!StartedAt(Head(Page!RunList))'
      BY <3>1, <3>3, <3>4
    <3>6. Page!StartedAt(Page!Newest) <= Page!StartedAt(Page!Newest)'
      BY <3>1, <3>2, <3>3, <3>4, NewestIs
    <3>7. Page!Newest' # None
      BY <3>5 DEF Page!Listed, Page!DirectoryAssumption
    <3>8. Page!Monitored("current")' = Page!Newest' /\ Page!Discovery("current")' = Page!Newest'
      BY DEF Page!Monitored, Page!Discovery
    <3>9. QED BY <3>5, <3>6, <3>7, <3>8
  <2>3. QED BY <2>1, <2>2
<1>2. RunsInv /\ [Page!Next]_(Page!vars) =>
        [Page!Discovery("current") # None =>
           /\ Page!Monitored("current")' = Page!Discovery("current")'
           /\ Page!Discovery("current")' # None
           /\ Page!StartedAt(Page!Newest)' >= Page!StartedAt(Page!Newest)
           /\ Page!StartedAt(Head(Page!RunList))' = Page!StartedAt(Page!Newest)']_(Page!vars)
  BY <1>1
<1>3. QED BY <1>2, RunsInductive, PTL DEF Page!Spec, Page!NewestStays

=============================================================================
