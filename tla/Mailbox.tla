------------------------------ MODULE Mailbox ------------------------------
(***************************************************************************)
(* What one relay session promises its clients, with no journal, no lock,  *)
(* no crash and no memory to lose: an append-only log whose n-th entry has *)
(* sequence number n, and last-write-wins slots.  In an opted-in session   *)
(* an entry may be appended only if the log itself authorises its sender.  *)
(***************************************************************************)
EXTENDS Integers, Sequences

CONSTANTS Envelopes,  \* records [role, key, kind, seq]
          Vouched,    \* the <<role, key>> pairs the coordinator vouched for
          HostKey, Slots, Values, None

VARIABLES open,  \* "no", or how the session was registered: "legacy", "opted-in"
          log,   \* every message posted, in order
          box    \* the last value put in each slot
mvars == <<open, log, box>>

MInit ==
  /\ open = "no"
  /\ log = <<>>
  /\ box = [s \in Slots |-> None]

Open ==
  /\ open = "no"
  /\ open' \in {"legacy", "opted-in"}
  /\ UNCHANGED <<log, box>>

\* The key the log has enrolled for a role, if any.
Enrolled(role, key) ==
  \E i \in DOMAIN log : log[i].role = role /\ log[i].key = key /\ log[i].kind = "enrollment"

Authorised(e) ==
  CASE e.role = "host" -> e.key = HostKey
    [] e.role # "host" /\ e.kind = "enrollment" ->
         /\ <<e.role, e.key>> \in Vouched
         /\ \A i \in DOMAIN log :
              log[i].kind = "enrollment" /\ log[i].role # "host" =>
                log[i].role # e.role /\ log[i].key # e.key
    [] OTHER -> Enrolled(e.role, e.key)

Post(e) ==
  /\ open # "no"
  /\ e.seq = Len(log) + 1
  /\ open = "opted-in" => Authorised(e)
  /\ log' = Append(log, e)
  /\ UNCHANGED <<open, box>>

Put(slot, value) ==
  /\ open # "no"
  /\ box' = [box EXCEPT ![slot] = value]
  /\ UNCHANGED <<open, log>>

MNext ==
  \/ Open
  \/ \E e \in Envelopes : Post(e)
  \/ \E s \in Slots, v \in Values : Put(s, v)

MSpec == MInit /\ [][MNext]_mvars
============================================================================
