------------------------------- MODULE Relay -------------------------------
(***************************************************************************)
(* One session of the rendezvous relay (src/relay/server.mjs).             *)
(*                                                                         *)
(* The relay is a mailbox: it keeps a sequence-numbered message log and a  *)
(* few last-write-wins slots (evidence per payment role, the monitor       *)
(* snapshot, the result certificate).  Every mutation is journalled to an  *)
(* append-only JSONL file before it reaches memory, and a restarted relay  *)
(* rebuilds memory by reading that file line by line.  An opted-in session *)
(* additionally binds each party role to one sender key.                   *)
(*                                                                         *)
(* Sessions share nothing but the process, so one session is modelled; the *)
(* directory of sessions is another module's business.                     *)
(*                                                                         *)
(* What an append that did not succeed leaves in the file is a parameter:  *)
(*   "nothing"   no byte reached the file                                  *)
(*   "fragment"  a proper prefix of the line, not parsable as JSON         *)
(*   "bare"      the whole JSON text but not its newline                   *)
(*   "line"      the whole line                                            *)
(***************************************************************************)
EXTENDS Integers, Sequences

CONSTANTS
  Clients,      \* HTTP clients that mutate the session, one request each at a time
  Readers,      \* HTTP clients that long-poll the message log
  Posts,        \* what clients post: records [role, key, kind]
  Vouched,      \* the <<role, key>> pairs the coordinator signed an enrollment for
  HostKey,      \* the host key named by the relay authorization
  Slots,        \* evidence roles, snapshot, result: the last-write-wins slots
  Values,       \* what is put in a slot
  None,         \* "no value", as null in the code
  Modes,        \* which registrations clients make: opted in (TRUE), legacy (FALSE)
  MaxSeq,       \* bound: the largest sequence number a client submits
  MaxTime,      \* bound: clock reads are 0 .. MaxTime
  Deadline,     \* sessionDeadlineMs of every enrollment
  IssuedAt,     \* issuedAtMs of every enrollment, less the allowed skew
  FailLeaves,   \* what a rejected append may leave in the file
  CrashLeaves,  \* what an append cut off by a crash may leave in the file
  MaxCrashes,   \* bound: the number of crashes
  MaxLines      \* bound: no new request once the journal has this many lines

Parties == {"initiator", "responder"}
Roles   == Parties \cup {"host"}
Kinds   == {"enrollment", "other"}
Time    == 0 .. MaxTime
Keys    == {p.key : p \in Posts} \cup {HostKey}
Leftovers == {"nothing", "fragment", "bare", "line"}

ASSUME RelayAssumption ==
  /\ Posts \subseteq [role : Roles, key : Keys, kind : Kinds]
  /\ None \notin Keys
  /\ None \notin Values
  /\ Modes \subseteq BOOLEAN
  /\ MaxSeq \in Nat /\ MaxTime \in Nat /\ MaxCrashes \in Nat /\ MaxLines \in Nat
  /\ Deadline \in Int /\ IssuedAt \in Int
  /\ FailLeaves \subseteq Leftovers
  /\ CrashLeaves \subseteq Leftovers

VARIABLES
  phase,     \* "serving", or "replaying" while loadExistingSessions runs
  known,     \* is the id in the sessions map
  creating,  \* the session-created record being journalled (pendingSessionIds), or None
  session,   \* the in-memory session state
  file,      \* the journal: does it exist, its lines, what its last line lacks
  inflight,  \* each client's request, from the read of its body to the answer
  queue,     \* the session lock: clients in the order they asked for it
  writing,   \* the record the head of the queue is appending, or None
  read,      \* replay: the number of journal lines read so far
  highest,   \* the non-decreasing clock's mark; -1 before its first read
  polls,     \* each reader's open long poll: its "after" cursor, or None
  told,      \* history: envelopes acknowledged to a sender or served to a reader
  crashes    \* the number of crashes so far

vars == <<phase, known, creating, session, file, inflight, queue, writing,
          read, highest, polls, told, crashes>>
memory == <<known, session>>

----------------------------------------------------------------------------
(* Data                                                                    *)

Envelopes == [role : Roles, key : Keys, kind : Kinds, seq : 1 .. MaxSeq]
Submitted == {e \in Envelopes : [role |-> e.role, key |-> e.key, kind |-> e.kind] \in Posts}

Records ==
       [type : {"created"}, authorized : BOOLEAN]
  \cup [type : {"message"}, envelope : Envelopes]
  \cup [type : {"put"}, slot : Slots, value : Values]

\* A request in flight is the record it asks the relay to journal.
Requests == [type : {"message"}, envelope : Envelopes]
       \cup [type : {"put"}, slot : Slots, value : Values]

Sessions == [authorized : BOOLEAN,
             messages   : Seq(Envelopes),
             lastSeq    : 0 .. MaxSeq,
             bindings   : [Parties -> Keys \cup {None}],
             slots      : [Slots -> Values \cup {None}]]

CreateSessionState(auth) ==
  [authorized |-> auth,
   messages   |-> <<>>,
   lastSeq    |-> 0,
   bindings   |-> [r \in Parties |-> None],
   slots      |-> [s \in Slots |-> None]]

----------------------------------------------------------------------------
(* The journal file                                                        *)

\* What the file holds after one more append left `leaves' of `record'.  Bytes
\* are only ever added at the end, so an append after an unterminated line
\* fuses with it: the fused line does not parse, and replay skips it.
Write(f, record, leaves) ==
  LET whole == IF f.tail = "bare"
               THEN SubSeq(f.lines, 1, Len(f.lines) - 1) ELSE f.lines
      fused == f.tail # "whole"
  IN CASE leaves = "nothing" -> [f EXCEPT !.exists = TRUE]
       [] leaves = "line" ->
            [exists |-> TRUE, tail |-> "whole",
             lines |-> IF fused THEN whole ELSE Append(whole, record)]
       [] leaves = "bare" /\ ~fused ->
            [exists |-> TRUE, tail |-> "bare", lines |-> Append(whole, record)]
       [] OTHER -> [exists |-> TRUE, tail |-> "fragment", lines |-> whole]

----------------------------------------------------------------------------
(* Sender binding                                                          *)

Other(r) == CHOOSE o \in Parties : o # r

IsEnrollment(e) == e.role \in Parties /\ e.kind = "enrollment"

\* isSenderEnrollmentCurrent at time t.
Current(t) == IssuedAt <= t /\ t < Deadline

\* The check made before the lock: the host key, and for an enrollment the
\* coordinator's signature over this role and key and its freshness.
Verifies(e, t) ==
  /\ e.role = "host" => e.key = HostKey
  /\ IsEnrollment(e) => <<e.role, e.key>> \in Vouched /\ Current(t)

\* Faulty variants: one key may take both roles; a role may be taken again.
AdmitsBothRoles(bindings, e) ==
  \/ e.role = "host"
  \/ IsEnrollment(e) /\ bindings[e.role] = None
  \/ e.role \in Parties /\ ~IsEnrollment(e) /\ bindings[e.role] = e.key
AdmitsRebinding(bindings, e) ==
  \/ e.role = "host"
  \/ IsEnrollment(e) /\ bindings[Other(e.role)] # e.key
  \/ e.role \in Parties /\ ~IsEnrollment(e) /\ bindings[e.role] = e.key

\* The check made under the lock, against what is bound by then.
BindingAdmits(bindings, e) ==
  \/ e.role = "host"
  \/ IsEnrollment(e) /\ bindings[e.role] = None /\ bindings[Other(e.role)] # e.key
  \/ e.role \in Parties /\ ~IsEnrollment(e) /\ bindings[e.role] = e.key

Bind(bindings, e) ==
  IF IsEnrollment(e) THEN [bindings EXCEPT ![e.role] = e.key] ELSE bindings

\* Replay repeats the host-key check and the binding check, not the freshness.
ReplayAdmits(s, e) ==
  ~s.authorized \/ ((e.role = "host" => e.key = HostKey) /\ BindingAdmits(s.bindings, e))

----------------------------------------------------------------------------
(* Applying a journalled record to memory                                  *)

\* A faulty variant: replay forgets to bind the sender of an enrollment.
StoreUnbound(s, e) ==
  [s EXCEPT !.messages = Append(@, e),
            !.lastSeq  = IF e.seq > @ THEN e.seq ELSE @]

Store(s, e) ==
  [s EXCEPT !.messages = Append(@, e),
            !.lastSeq  = IF e.seq > @ THEN e.seq ELSE @,
            !.bindings = IF s.authorized THEN Bind(@, e) ELSE @]

ApplyRecord(s, record) ==
  CASE record.type = "created" -> [s EXCEPT !.authorized = @ \/ record.authorized]
    [] record.type = "put" -> [s EXCEPT !.slots[record.slot] = record.value]
    [] OTHER -> IF ReplayAdmits(s, record.envelope)
                THEN Store(s, record.envelope) ELSE s

----------------------------------------------------------------------------
Init ==
  /\ phase = "serving"
  /\ known = FALSE
  /\ creating = None
  /\ session = CreateSessionState(FALSE)
  /\ file = [exists |-> FALSE, lines |-> <<>>, tail |-> "whole"]
  /\ inflight = [c \in Clients |-> None]
  /\ queue = <<>>
  /\ writing = None
  /\ read = 0
  /\ highest = -1
  /\ polls = [r \in Readers |-> None]
  /\ told = {}
  /\ crashes = 0

----------------------------------------------------------------------------
(* Session registration                                                    *)

\* Bounds the model, not the relay.
Room == Len(file.lines) < MaxLines

\* The id is reserved before the first await, so a second registration of it
\* is refused with SESSION_EXISTS (which changes nothing) from here on.
BeginCreate(auth) ==
  /\ phase = "serving" /\ ~known /\ creating = None /\ Room
  /\ creating' = [type |-> "created", authorized |-> auth]
  /\ UNCHANGED <<phase, memory, file, inflight, queue, writing, read, highest,
                 polls, told, crashes>>

\* The session is published only once its creation is journalled.
FinishCreate ==
  /\ creating # None
  /\ file' = Write(file, creating, "line")
  /\ known' = TRUE
  /\ session' = CreateSessionState(creating.authorized)
  /\ creating' = None
  /\ UNCHANGED <<phase, inflight, queue, writing, read, highest, polls, told,
                 crashes>>

\* A failed append releases the id and leaves nothing behind in memory.
FailCreate ==
  /\ creating # None
  /\ \E leaves \in FailLeaves : file' = Write(file, creating, leaves)
  /\ creating' = None
  /\ UNCHANGED <<phase, memory, inflight, queue, writing, read, highest, polls,
                 told, crashes>>

----------------------------------------------------------------------------
(* Mutating requests: verify, queue for the lock, check, journal, apply     *)

\* A faulty variant: the clock may step back.
TickBack(t) == highest' = t

Tick(t) == highest' = IF t > highest THEN t ELSE highest

\* The body is read and validated before the lock.  An opted-in session also
\* reads its clock and checks signatures here; a refusal changes nothing else.
ReceivePost(c, e, t) ==
  /\ phase = "serving" /\ known /\ inflight[c] = None /\ Room
  /\ IF session.authorized
     THEN Tick(t) /\ Verifies(e, highest')
     ELSE UNCHANGED highest
  /\ inflight' = [inflight EXCEPT ![c] = [type |-> "message", envelope |-> e]]
  /\ queue' = Append(queue, c)
  /\ UNCHANGED <<phase, memory, creating, file, writing, read, polls, told, crashes>>

RefusePost(e, t) ==
  /\ phase = "serving" /\ known /\ session.authorized
  /\ Tick(t) /\ ~Verifies(e, highest')
  /\ UNCHANGED <<phase, memory, creating, file, inflight, queue, writing, read,
                 polls, told, crashes>>

ReceivePut(c, slot, value) ==
  /\ phase = "serving" /\ known /\ inflight[c] = None /\ Room
  /\ inflight' = [inflight EXCEPT ![c] = [type |-> "put", slot |-> slot, value |-> value]]
  /\ queue' = Append(queue, c)
  /\ UNCHANGED <<phase, memory, creating, file, writing, read, highest, polls,
                 told, crashes>>

\* What the locked section decides for a message, with the clock at `now'.
Admits(s, e, now) ==
  /\ s.authorized => (IsEnrollment(e) => Current(now)) /\ BindingAdmits(s.bindings, e)
  /\ e.seq = s.lastSeq + 1

\* Only an enrollment of an opted-in session reads the clock again.
ReadsClock(request) ==
  request.type = "message" /\ session.authorized /\ IsEnrollment(request.envelope)

Answer(c) ==
  /\ inflight' = [inflight EXCEPT ![c] = None]
  /\ queue' = Tail(queue)

\* The lock is granted in queue order; an admitted request starts its append.
Admit(t) ==
  /\ phase = "serving" /\ queue # <<>> /\ writing = None
  /\ LET request == inflight[Head(queue)] IN
       /\ IF ReadsClock(request) THEN Tick(t) ELSE UNCHANGED highest
       /\ request.type = "message" => Admits(session, request.envelope, highest')
       /\ writing' = request
  /\ UNCHANGED <<phase, memory, creating, file, inflight, queue, read, polls,
                 told, crashes>>

\* BINDING_MISMATCH, ROLE_ALREADY_BOUND or SEQ_CONFLICT: nothing is journalled.
Refuse(t) ==
  /\ phase = "serving" /\ queue # <<>> /\ writing = None
  /\ LET request == inflight[Head(queue)] IN
       /\ IF ReadsClock(request) THEN Tick(t) ELSE UNCHANGED highest
       /\ request.type = "message" /\ ~Admits(session, request.envelope, highest')
  /\ Answer(Head(queue))
  /\ UNCHANGED <<phase, memory, creating, file, writing, read, polls, told, crashes>>

\* A faulty variant: off by one, the next message wakes nobody.
AwakenedLate(n) == {r \in Readers : polls[r] # None /\ n > polls[r] + 1}

\* The readers whose long poll a message with sequence number n answers, and
\* the messages after a cursor.
Awakened(n) == {r \in Readers : polls[r] # None /\ n > polls[r]}
After(messages, cursor) ==
  {messages[i] : i \in {j \in DOMAIN messages : messages[j].seq > cursor}}

\* The append succeeded: memory changes, waiting readers are answered with
\* everything after their cursor, and the sender is told.
CompletePost ==
  /\ writing # None /\ writing.type = "message"
  /\ LET e    == writing.envelope
         woke == Awakened(e.seq)
         msgs == Append(session.messages, e)
     IN /\ session' = [session EXCEPT
                         !.messages = msgs,
                         !.lastSeq  = e.seq,
                         !.bindings = IF session.authorized THEN Bind(@, e) ELSE @]
        /\ polls' = [r \in Readers |-> IF r \in woke THEN None ELSE polls[r]]
        /\ told' = told \cup {e} \cup UNION {After(msgs, polls[r]) : r \in woke}
  /\ file' = Write(file, writing, "line")
  /\ writing' = None
  /\ Answer(Head(queue))
  /\ UNCHANGED <<phase, known, creating, read, highest, crashes>>

CompletePut ==
  /\ writing # None /\ writing.type = "put"
  /\ session' = [session EXCEPT !.slots[writing.slot] = writing.value]
  /\ file' = Write(file, writing, "line")
  /\ writing' = None
  /\ Answer(Head(queue))
  /\ UNCHANGED <<phase, known, creating, read, highest, polls, told, crashes>>

\* A faulty variant: the lock stays with the request whose append failed.
FailAppendHoldingLock ==
  /\ writing # None
  /\ \E leaves \in FailLeaves : file' = Write(file, writing, leaves)
  /\ writing' = None
  /\ UNCHANGED <<phase, memory, creating, inflight, queue, read, highest, polls,
                 told, crashes>>

\* The append failed: the request is refused, memory is as before, and the
\* lock passes to the next request.
FailAppend ==
  /\ writing # None
  /\ \E leaves \in FailLeaves : file' = Write(file, writing, leaves)
  /\ writing' = None
  /\ Answer(Head(queue))
  /\ UNCHANGED <<phase, memory, creating, read, highest, polls, told, crashes>>

----------------------------------------------------------------------------
(* Reading the log                                                         *)

\* Messages after the cursor are answered at once; otherwise the poll waits.
Poll(r, cursor) ==
  /\ phase = "serving" /\ known /\ polls[r] = None
  /\ LET found == After(session.messages, cursor)
     IN IF found # {} THEN told' = told \cup found /\ UNCHANGED polls
                      ELSE polls' = [polls EXCEPT ![r] = cursor] /\ UNCHANGED told
  /\ UNCHANGED <<phase, memory, creating, file, inflight, queue, writing, read,
                 highest, crashes>>

\* The wait ran out or the reader closed the connection.
EndPoll(r) ==
  /\ phase = "serving" /\ polls[r] # None
  /\ told' = told \cup After(session.messages, polls[r])
  /\ polls' = [polls EXCEPT ![r] = None]
  /\ UNCHANGED <<phase, memory, creating, file, inflight, queue, writing, read,
                 highest, crashes>>

----------------------------------------------------------------------------
(* Crash and restart                                                       *)

\* Everything in memory is gone, the clock's mark included; the append under
\* way, if any, leaves what it got to.  (A session's creation and its first
\* locked append never overlap: the id is unknown until the creation landed.)
Crash ==
  /\ phase = "serving" /\ crashes < MaxCrashes
  /\ LET cut == IF creating # None THEN creating ELSE writing IN
       IF cut = None THEN UNCHANGED file
       ELSE \E leaves \in CrashLeaves : file' = Write(file, cut, leaves)
  /\ phase' = "replaying"
  /\ known' = FALSE
  /\ creating' = None
  /\ session' = CreateSessionState(FALSE)
  /\ inflight' = [c \in Clients |-> None]
  /\ queue' = <<>>
  /\ writing' = None
  /\ read' = 0
  /\ highest' = -1
  /\ polls' = [r \in Readers |-> None]
  /\ crashes' = crashes + 1
  /\ UNCHANGED told

ReplayLine ==
  /\ phase = "replaying" /\ read < Len(file.lines)
  /\ session' = ApplyRecord(session, file.lines[read + 1])
  /\ read' = read + 1
  /\ UNCHANGED <<phase, known, creating, file, inflight, queue, writing, highest,
                 polls, told, crashes>>

\* A journal file that exists makes the id known, whatever it held.
FinishReplay ==
  /\ phase = "replaying" /\ read = Len(file.lines)
  /\ phase' = "serving"
  /\ known' = file.exists
  /\ read' = 0
  /\ UNCHANGED <<creating, session, file, inflight, queue, writing, highest, polls,
                 told, crashes>>

----------------------------------------------------------------------------
Request ==
  \/ \E auth \in Modes : BeginCreate(auth)
  \/ \E c \in Clients, e \in Submitted, t \in Time : ReceivePost(c, e, t)
  \/ \E e \in Submitted, t \in Time : RefusePost(e, t)
  \/ \E c \in Clients, s \in Slots, v \in Values : ReceivePut(c, s, v)
  \/ \E r \in Readers, n \in 0 .. MaxSeq : Poll(r, n)

\* The event loop and the file system: what the process does by itself.
Work ==
  \/ FinishCreate \/ FailCreate
  \/ \E t \in Time : Admit(t) \/ Refuse(t)
  \/ CompletePost \/ CompletePut \/ FailAppend

Restart == ReplayLine \/ FinishReplay

Next ==
  \/ Request
  \/ Work
  \/ \E r \in Readers : EndPoll(r)
  \/ Crash
  \/ Restart

Spec == Init /\ [][Next]_vars

\* Pending work is done: promises settle, appends return, replay goes on.
\* Nothing is assumed about clients, readers or crashes.
FairSpec == Spec /\ WF_vars(Work) /\ WF_vars(Restart)

----------------------------------------------------------------------------
(* Properties                                                              *)

Entries(s) == {s[i] : i \in DOMAIN s}

TypeOK ==
  /\ phase \in {"serving", "replaying"}
  /\ known \in BOOLEAN
  /\ creating \in [type : {"created"}, authorized : BOOLEAN] \cup {None}
  /\ session \in Sessions
  /\ file \in [exists : BOOLEAN, lines : Seq(Records),
               tail : {"whole", "fragment", "bare"}]
  /\ inflight \in [Clients -> Requests \cup {None}]
  /\ queue \in Seq(Clients)
  /\ writing \in Requests \cup {None}
  /\ read \in Nat
  /\ highest \in Time \cup {-1}
  /\ polls \in [Readers -> (0 .. MaxSeq) \cup {None}]
  /\ told \subseteq Envelopes
  /\ crashes \in Nat

\* The log a reader sees is numbered 1, 2, 3 ... with no duplicate and no gap,
\* after any interleaving of requests and any restarts: what handlePostMessage's
\* lock is for (a duplicate makes every later client read fail).
LogGapless ==
  /\ \A i \in DOMAIN session.messages : session.messages[i].seq = i
  /\ session.lastSeq = Len(session.messages)

\* An envelope the relay ever acknowledged to its sender or served to a reader
\* is served by every later incarnation: the journal-before-memory rule.
ToldSurvives ==
  phase = "serving" => told \subseteq Entries(session.messages)

\* In an opted-in session the log speaks for itself: a party's message is
\* preceded by an enrollment of the same key for that role, a role enrolls once,
\* one key never holds both roles, and the host's messages bear the host key.
SenderBound ==
  session.authorized =>
    \A i \in DOMAIN session.messages :
      LET e == session.messages[i]
          Earlier(r, k) == \E j \in 1 .. i - 1 :
             /\ IsEnrollment(session.messages[j])
             /\ session.messages[j].role = r /\ session.messages[j].key = k
      IN /\ e.role = "host" => e.key = HostKey
         /\ IsEnrollment(e) => /\ \A k \in Keys : ~Earlier(e.role, k)
                               /\ ~Earlier(Other(e.role), e.key)
         /\ e.role \in Parties /\ ~IsEnrollment(e) => Earlier(e.role, e.key)

\* A long poll never sleeps on a message that is already there.
NoLostWakeup ==
  phase = "serving" =>
    \A r \in Readers : polls[r] # None => After(session.messages, polls[r]) = {}

\* Once this incarnation has read a time at or past the session deadline, no
\* enrollment starts its append, whatever the clock reads afterwards.
ExpiredStaysExpired ==
  [][ (highest >= Deadline /\ writing = None /\ writing' # None
        /\ writing'.type = "message" /\ session.authorized)
      => ~IsEnrollment(writing'.envelope) ]_vars

\* Every request is answered (or lost with the process), and a crashed relay
\* comes back: one failed append cannot wedge the session's queue.
RequestsAnswered ==
  /\ \A c \in Clients : inflight[c] # None ~> inflight[c] = None
  /\ phase = "replaying" ~> phase = "serving"
============================================================================
