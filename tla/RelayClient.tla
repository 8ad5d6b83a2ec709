---------------------------- MODULE RelayClient ----------------------------
(***************************************************************************)
(* Clients that post to one relay session over a connection that may fail  *)
(* (src/relay/client.mjs, and postNext of src/roles/session.mjs).          *)
(*                                                                         *)
(* A call reads the log, signs its message with the next free sequence     *)
(* number and posts it; a conflict makes it read again, a network failure  *)
(* makes it try again, until a retry budget or a stop time has run out.    *)
(* A request whose client gave up waiting may still reach the relay.       *)
(*                                                                         *)
(* The relay is Mailbox, the specification Relay is shown to implement, of *)
(* a session that is open and not opted in.                                *)
(***************************************************************************)
EXTENDS Integers, Sequences

CONSTANTS
  Clients,
  Role,         \* the role each client posts as
  Script,       \* the calls each client makes, one after the other
  MaxConflicts, \* postNext's limit on conflicts
  MaxAttempts,  \* claimRole's limit on attempts
  MaxLog,       \* bound: a log of this many messages grows no more
  Endless,      \* "no bound"
  MaxFailures   \* bound: reads and posts that fail, or Endless

\* What a client calls: claimRole, postNext with a stop time, or postNext with
\* the relay client's retry budget.
Hows == {"claim", "bounded", "budgeted"}

ASSUME ClientAssumption ==
  /\ Script \in [Clients -> Seq(Hows)]
  /\ MaxConflicts \in Nat \ {0} /\ MaxAttempts \in Nat \ {0} /\ MaxLog \in Nat
  /\ MaxFailures \in Nat \/ MaxFailures = Endless

VARIABLES
  log,    \* the session's messages
  wire,   \* posts on their way to the relay: envelopes, and is anyone waiting
  state,  \* each client's call: what it does next and what it knows
  done,   \* the results of each client's calls so far
  failures

vars == <<log, wire, state, done, failures>>

----------------------------------------------------------------------------
\* The kind of the call a client is in.
How(c) == Script[c][Len(done[c]) + 1]

\* What it signs.
Envelope(c, n) ==
  [client |-> c, role |-> Role[c], call |-> Len(done[c]) + 1,
   kind |-> IF How(c) = "claim" THEN "role_claim" ELSE "other",
   seq |-> n]

Envelopes == [client : Clients, role : {Role[c] : c \in Clients}, call : Nat \ {0},
              kind : {"role_claim", "other"}, seq : Nat \ {0}]

Session == INSTANCE Mailbox WITH
  open <- "legacy", box <- <<>>, Vouched <- {}, HostKey <- "host",
  Slots <- {}, Values <- {}, None <- "none"

At(c, pc) == state[c].pc = pc

\* Has the client signed the message it is posting.
Signed(c) == At(c, "send") \/ At(c, "wait") \/ (At(c, "failed") /\ state[c].failedAt = "send")

Idle == [pc |-> "idle", seq |-> 0, answer |-> "none", failedAt |-> "none",
         conflicts |-> 0, late |-> FALSE, lost |-> FALSE]

Init ==
  /\ log = <<>>
  /\ wire = {}
  /\ state = [c \in Clients |-> Idle]
  /\ done = [c \in Clients |-> <<>>]
  /\ failures = 0

\* The network fails once more.
Failure ==
  IF MaxFailures = Endless THEN UNCHANGED failures
  ELSE failures < MaxFailures /\ failures' = failures + 1

\* The call ends; what it leaves on the wire may still arrive.
End(c, outcome) ==
  /\ done' = [done EXCEPT ![c] = Append(@, [outcome |-> outcome, seq |-> state[c].seq,
                                            lost |-> state[c].lost])]
  /\ state' = [state EXCEPT ![c] = Idle]

\* The next call of the script.
Begin(c) ==
  /\ At(c, "idle") /\ Len(done[c]) < Len(Script[c])
  /\ state' = [state EXCEPT ![c].pc = "read"]
  /\ UNCHANGED <<log, wire, done, failures>>

\* The retry budget of the request under way, or the time to the stop time of
\* the whole call, runs out.
Elapse(c) ==
  /\ ~At(c, "idle") /\ ~state[c].late
  /\ state' = [state EXCEPT ![c].late = TRUE]
  /\ UNCHANGED <<log, wire, done, failures>>

\* timeLeft refuses at and after the stop time.
TimeLeft(c) == How(c) = "bounded" => ~state[c].late

\* A stop time holds for the whole call, a retry budget for one request.
StillLate(c) == IF How(c) = "bounded" THEN state[c].late ELSE FALSE

Expire(c) ==
  /\ At(c, "read") \/ At(c, "send")
  /\ ~TimeLeft(c)
  /\ End(c, "unavailable")
  /\ UNCHANGED <<log, wire, failures>>

\* A faulty variant: only the first attempt looks for a claim.
ClaimedAtFirst(c) ==
  state[c].conflicts = 0 /\ \E i \in DOMAIN log : log[i].kind = "role_claim" /\ log[i].role = Role[c]

Claimed(c) ==
  \E i \in DOMAIN log : log[i].kind = "role_claim" /\ log[i].role = Role[c]

\* The whole log is read.  A role that somebody claimed is not claimed again;
\* otherwise the message is signed with the number after the highest one.
Read(c) ==
  /\ At(c, "read") /\ TimeLeft(c)
  /\ IF How(c) = "claim" /\ Claimed(c)
     THEN End(c, "bound")
     ELSE /\ state' = [state EXCEPT ![c].pc = "send", ![c].seq = Len(log) + 1,
                                    ![c].late = StillLate(c)]
          /\ UNCHANGED done
  /\ UNCHANGED <<log, wire, failures>>

\* The read fails.
FailRead(c) ==
  /\ At(c, "read") /\ TimeLeft(c)
  /\ state' = [state EXCEPT ![c].pc = "failed", ![c].failedAt = "read"]
  /\ UNCHANGED <<log, wire, done>>
  /\ Failure

Send(c) ==
  /\ At(c, "send") /\ TimeLeft(c)
  /\ wire' = wire \cup {[envelope |-> Envelope(c, state[c].seq), awaited |-> TRUE]}
  /\ state' = [state EXCEPT ![c].pc = "wait"]
  /\ UNCHANGED <<log, done, failures>>

\* A faulty variant: the number of the last message is taken as well.
LandsTwice(e) == e.seq \in {Len(log), Len(log) + 1} /\ log' = Append(log, e)

\* The relay appends the message if its number is the next one.
Lands(e) == Session!Post(e)

Deliver(r) ==
  /\ \/ /\ Len(log) < MaxLog
        /\ Lands(r.envelope)
        /\ state' = IF r.awaited THEN [state EXCEPT ![r.envelope.client].answer = "ok"] ELSE state
     \/ /\ r.envelope.seq # Len(log) + 1
        /\ state' = IF r.awaited THEN [state EXCEPT ![r.envelope.client].answer = "SEQ_CONFLICT"]
                    ELSE state
        /\ UNCHANGED log
  /\ wire' = wire \ {r}
  /\ UNCHANGED <<done, failures>>

\* Nobody waits any more for what this client sent.
LetGo(c) == {IF r.envelope.client = c THEN [r EXCEPT !.awaited = FALSE] ELSE r : r \in wire}

\* The request times out, its connection breaks, its answer is lost, or the
\* relay reports an internal error.
FailSend(c) ==
  /\ At(c, "wait")
  /\ wire' = LetGo(c)
  /\ state' = [state EXCEPT ![c].pc = "failed", ![c].failedAt = "send",
                            ![c].answer = "none", ![c].lost = TRUE]
  /\ UNCHANGED <<log, done>>
  /\ Failure

\* The answer is of a kind that is not retried: not JSON, or a rate limit.
BreakOff(c) ==
  /\ At(c, "wait") \/ (At(c, "read") /\ TimeLeft(c))
  /\ wire' = LetGo(c)
  /\ done' = [done EXCEPT ![c] = Append(@, [outcome |-> "failed", seq |-> state[c].seq,
                                            lost |-> state[c].lost \/ At(c, "wait")])]
  /\ state' = [state EXCEPT ![c] = Idle]
  /\ UNCHANGED log
  /\ Failure

Accepted(c) ==
  /\ At(c, "wait") /\ state[c].answer = "ok"
  /\ End(c, "ok")
  /\ UNCHANGED <<log, wire, failures>>

\* A faulty variant: a conflict is taken for the echo of one's own message.
ConflictedHappily(c) ==
  /\ At(c, "wait") /\ state[c].answer = "SEQ_CONFLICT"
  /\ End(c, "ok")
  /\ UNCHANGED <<log, wire, failures>>

Limit(c) == IF How(c) = "claim" THEN MaxAttempts ELSE MaxConflicts

\* Somebody took the number: read again and take the next one, a few times.
Conflicted(c) ==
  /\ At(c, "wait") /\ state[c].answer = "SEQ_CONFLICT"
  /\ IF state[c].conflicts + 1 < Limit(c)
     THEN /\ state' = [state EXCEPT ![c].pc = "read", ![c].answer = "none",
                                    ![c].conflicts = @ + 1,
                                    ![c].late = StillLate(c)]
          /\ UNCHANGED done
     ELSE End(c, "no_position")
  /\ UNCHANGED <<log, wire, failures>>

\* A faulty variant: the budget is never looked at.
RetryForEver(c) ==
  /\ At(c, "failed")
  /\ state' = [state EXCEPT ![c].pc = state[c].failedAt, ![c].failedAt = "none"]
  /\ UNCHANGED <<log, wire, done, failures>>

\* After a failure: with a budget the same request is sent again until the budget
\* has run out; with a stop time the whole attempt starts again until then.
Retry(c) ==
  /\ At(c, "failed")
  /\ IF state[c].late THEN End(c, "unavailable")
     ELSE /\ state' = IF How(c) = "bounded"
                      THEN [state EXCEPT ![c].pc = "read", ![c].failedAt = "none",
                                         ![c].conflicts = 0]
                      ELSE [state EXCEPT ![c].pc = state[c].failedAt, ![c].failedAt = "none"]
          /\ UNCHANGED done
  /\ UNCHANGED <<log, wire, failures>>

Proceed(c) ==
  \/ Begin(c) \/ Expire(c) \/ Read(c) \/ FailRead(c) \/ Send(c) \/ FailSend(c)
  \/ BreakOff(c) \/ Accepted(c) \/ Conflicted(c) \/ Retry(c)

Next ==
  \/ \E c \in Clients : Proceed(c) \/ Elapse(c)
  \/ \E r \in wire : Deliver(r)

Spec == Init /\ [][Next]_vars

\* Every request ends, with an answer or at its timeout, and time passes; nothing
\* is assumed of the network, which may lose everything.
FairSpec == Spec /\ \A c \in Clients : WF_vars(Proceed(c)) /\ WF_vars(Elapse(c))

----------------------------------------------------------------------------
(* Properties                                                              *)

Outcomes == {"ok", "bound", "unavailable", "failed", "no_position"}
Results == [outcome : Outcomes, seq : Nat, lost : BOOLEAN]
States == [pc : {"idle", "read", "send", "wait", "failed"}, seq : Nat,
           answer : {"none", "ok", "SEQ_CONFLICT"}, failedAt : {"none", "read", "send"},
           conflicts : Nat, late : BOOLEAN, lost : BOOLEAN]

TypeOK ==
  /\ log \in Seq(Envelopes)
  /\ wire \subseteq [envelope : Envelopes, awaited : BOOLEAN]
  /\ state \in [Clients -> States]
  /\ done \in [Clients -> Seq(Results)]
  /\ failures \in Nat
  /\ \A c \in Clients : Len(done[c]) <= Len(Script[c])
  /\ \A c \in Clients : Signed(c) => state[c].seq > 0
  /\ \A c \in Clients : At(c, "failed") => state[c].failedAt # "none"
  /\ \A c \in Clients : At(c, "idle") => state[c].conflicts = 0
  /\ \A c \in Clients : ~At(c, "idle") =>
       /\ Len(done[c]) < Len(Script[c])
       /\ state[c].conflicts < IF How(c) = "claim" THEN MaxAttempts ELSE MaxConflicts

\* Is message e the one of client c's k-th call?
Of(e, c, k) == e.client = c /\ e.call = k

\* A call none of whose answers was lost did exactly what it reports: one message
\* if it succeeded, none if it did not, however many conflicts it met.
UnlostIsHonest ==
  \A c \in Clients : \A k \in DOMAIN done[c] :
    LET copies == {i \in DOMAIN log : Of(log[i], c, k)}
    IN ~done[c][k].lost =>
         IF done[c][k].outcome = "ok" THEN copies = {done[c][k].seq} ELSE copies = {}

\* The messages of a client are in the log in the order of its calls: a late
\* arrival of an abandoned post never overtakes a newer one.
PostsInOrder ==
  \A i, j \in DOMAIN log :
    i < j /\ log[i].client = log[j].client => log[i].call <= log[j].call

\* A role is claimed at most once, however many clients race for it and however
\* often their claims are sent.
OneClaim ==
  \A i, j \in DOMAIN log :
    log[i].kind = "role_claim" /\ log[j].kind = "role_claim" /\ log[i].role = log[j].role => i = j

\* Every call ends, whatever the network loses.
CallsEnd == \A c \in Clients : []<>At(c, "idle")
============================================================================
