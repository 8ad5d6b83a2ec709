----------------------------- MODULE HostInbox -----------------------------
(***************************************************************************)
(* How the host of a session reads what the parties post: one wait at a time *)
(* over the relay's log (src/roles/host.mjs, awaitRoleMessages), with what no *)
(* wait wanted yet kept for the next, and with the senders the coordinator    *)
(* enrolled (src/agent-handshake/v2/relay-enrollment.mjs,                     *)
(* createSenderBindings) when the host enforces them.                         *)
(*                                                                         *)
(* A message is its kind, the role it names, the key that signed it, a time   *)
(* and an expiry.  Envelopes are verified by the relay before they are here.  *)
(***************************************************************************)
EXTENDS Integers, Sequences, FiniteSets, SequencesExt

CONSTANTS
  Deadline,       \* sessionDeadlineMs, also the end of the host key's validity
  InvitationEnd,  \* invitationExpiresAtMs: the cutoff for minting an invitation
  Grace           \* how long past the minted window a claim is looked for

ASSUME InboxAssumption ==
  /\ InvitationEnd \in Nat \ {0} /\ Deadline \in Nat /\ Grace \in Nat
  /\ InvitationEnd < Deadline

VARIABLES
  now,       \* the clock of the host
  mode,      \* "off", or "observe" or "enforce" sender enrollments
  unread,    \* messages past the cursor, oldest first
  deferred,  \* messages read and not wanted yet
  bound,     \* the first enrollment of each role, as <<message>>
  minted,    \* when the invitation's claim window ends, 0 before it is known
  flawed,    \* a second enrollment or one that disagrees ended the bindings
  flagged,   \* <<kind, role, key>> of the messages logged as violations by a host that
             \* observes; what one that enforces logs it has refused, and is left out
  taken      \* <<kind, role, key>> of the messages the host went on with

inboxVars == <<unread, deferred, bound, minted, flawed, flagged, taken>>

Roles == {"initiator", "responder"}
Other(role) == IF role = "initiator" THEN "responder" ELSE "initiator"

Message(kind, role, key, at, exp) ==
  [kind |-> kind, role |-> role, key |-> key, at |-> at, exp |-> exp]

InboxInit ==
  /\ now = 0
  /\ unread = <<>> /\ deferred = <<>> /\ taken = {} /\ flawed = FALSE /\ flagged = {}
  /\ bound = [r \in Roles |-> <<>>] /\ minted = 0

----------------------------------------------------------------------------
\* The enrollments.  A wait in progress is a record of what it wants and of what it
\* has learned so far.

Wait(kind, role, stop) ==
  [kind |-> kind, role |-> role, until |-> stop, deferred |-> <<>>, bound |-> bound,
   minted |-> minted, got |-> <<>>, fatal |-> FALSE, flawed |-> flawed, flagged |-> flagged]

Speech(m) == <<m.kind, m.role, m.key>>
Announcements == {"created", "enrollment"}

\* bindingViolation
Flag(w, m) == IF mode = "observe" THEN [w EXCEPT !.flagged = @ \cup {Speech(m)}] ELSE w

\* The coordinator's two enrollments are of one invitation, for two keys.
Agree(w, m) ==
  w.bound[Other(m.role)] = <<>>
    \/ LET other == w.bound[Other(m.role)][1] IN other.key # m.key /\ other.exp = m.exp

\* observe: the first verified enrollment of a role binds it; a second one or one that
\* disagrees with the other role's ends the bindings, and every later one is refused.
Observe(w, m) ==
  IF ~w.flawed /\ (m \in ToSet(w.bound[m.role]) \/ now >= Deadline) THEN w
  ELSE IF ~w.flawed /\ w.bound[m.role] = <<>> /\ Agree(w, m)
  THEN [w EXCEPT !.bound[m.role] = <<m>>]
  ELSE [Flag(w, m) EXCEPT !.flawed = TRUE]

\* A faulty variant: any key will do once the role is enrolled.
AdmitsRole(w, m) == w.bound[m.role] # <<>>

\* admits: signed by the key enrolled for the role it names.
Admits(w, m) == ~w.flawed /\ w.bound[m.role] # <<>> /\ m.key = w.bound[m.role][1].key

\* observeMessage: an enrollment is learned, and enforced its failure ends the session; of
\* anything else a host that only observes logs what enforcement would refuse.
ObserveMessage(w, m) ==
  CASE mode = "off" -> w
    [] mode # "off" /\ m.kind = "enrollment" ->
         LET seen == Observe(w, m) IN [seen EXCEPT !.fatal = mode = "enforce" /\ seen.flawed]
    [] mode = "enforce" /\ m.kind # "enrollment" -> w
    [] mode = "observe" /\ m.kind # "enrollment" ->
         IF Admits(w, m) THEN w ELSE Flag(w, m)

\* admitMessage: enforced, only what the bindings admit is considered.
AdmitMessage(w, m) == mode # "enforce" \/ Admits(w, m)

\* extendClaimDeadline: a minted invitation is waited for until its own window ends.
\* Enforced, the window is the enrollment's, and the message must agree with it.
Extend(w, m) ==
  LET enforced == mode = "enforce"
      telling == IF enforced THEN Announcements ELSE {"created"}
      window == IF enforced THEN w.bound["initiator"][1].exp ELSE m.exp
      ends == Min({window, Deadline})
  IN IF w.kind # "claimed" \/ m.role # "initiator" \/ m.kind \notin telling THEN w
     ELSE IF enforced /\ m.kind = "created" /\ m.exp # window
     THEN [w EXCEPT !.fatal = TRUE]
     ELSE [w EXCEPT !.minted = ends,
                    !.until = Max({@, Min({Deadline, ends + Grace})})]

----------------------------------------------------------------------------
\* consider: one message.  What is not admitted is dropped for good; the first
\* message of the wanted kind and role is taken, and the others wait their turn.
\* Announcements have told what they have to tell and are not kept.
Consider(w, m) ==
  LET seen == ObserveMessage(w, m)
      told == Extend(seen, m)
  IN IF w.fatal THEN w
     ELSE IF seen.fatal THEN seen
     ELSE IF ~AdmitMessage(seen, m) THEN seen
     ELSE IF told.fatal THEN told
     ELSE IF m.kind = w.kind /\ m.role = w.role /\ told.got = <<>>
     THEN [told EXCEPT !.got = <<m>>]
     ELSE IF m.kind \in Announcements THEN told
     ELSE [told EXCEPT !.deferred = Append(@, m)]

\* A batch of messages, in the order of the log.
ConsiderAll(w, messages) ==
  LET after[n \in 0..Len(messages)] ==
        IF n = 0 THEN w ELSE Consider(after[n - 1], messages[n])
  IN after[Len(messages)]

\* What a wait leaves behind: the messages of the batch are read.
Keep(w, rest) ==
  /\ unread' = rest
  /\ deferred' = w.deferred /\ bound' = w.bound /\ minted' = w.minted
  /\ flawed' = w.flawed /\ flagged' = w.flagged
  /\ taken' = IF w.fatal THEN taken ELSE taken \cup {Speech(m) : m \in ToSet(w.got)}

\* A party's post reached the log.
Posted(m) ==
  /\ unread' = Append(unread, m)
  /\ UNCHANGED <<deferred, bound, minted, flawed, flagged, taken>>
=============================================================================
