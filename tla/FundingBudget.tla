--------------------------- MODULE FundingBudget ---------------------------
(***************************************************************************)
(* The public identity funding budget                                      *)
(* (src/agent-handshake/v2/funding-budget.mjs).                            *)
(*                                                                         *)
(* Before a host funds the seats of a session it reserves them: one reserve*)
(* at a time per host process, against ceilings per session, per rolling   *)
(* hour and per UTC day, recorded in a ledger file that every host process *)
(* on the machine shares.  The store appends the reservation only if the   *)
(* file still reads as it did when the ceilings were checked, and drops    *)
(* records that no ceiling counts any more by renaming a shorter file over *)
(* the ledger.                                                             *)
(*                                                                         *)
(* The ledger is a set of records: their order is never looked at, and two *)
(* reservations differ in session, address or time.                        *)
(***************************************************************************)
EXTENDS Integers, Sequences, FiniteSets, FiniteSetsExt

CONSTANTS
  Hosts,          \* host processes sharing the ledger file
  Sessions,       \* handshake sessions
  Addresses,      \* session key addresses
  Requests,       \* what each host reserves: a set of records [session, addresses]
  Opens,          \* when each session opens
  Lifetime,       \* a reservation reads the ledger within this time of its
                  \* session's opening: a session is far shorter than an hour
  Hour, Day,      \* HOUR_MS and the length of a UTC day, in ticks
  SeatCents, SessionCents, HourCents, DayCents,
  QueueLimit,     \* queued calls beyond this are refused
  MaxRecords,     \* LEDGER_MAX_BYTES, in records
  InitLedgers,    \* what the file may hold at the start
  None,           \* "no job"
  MaxTime,        \* bound: the clock reads 0 .. MaxTime
  MaxCalls,       \* bound: calls of reserve
  MaxFailures     \* bound: failed writes and crashes

Time == 0 .. MaxTime
Records == [session : Sessions, address : Addresses, cents : {1, 2}, at : Time]
Calls == [session : Sessions, addresses : SUBSET Addresses]
Jobs == [step : {"load", "compare", "append", "tidy", "rename", "stage", "install",
                 "confirm", "finish"},
         at : Time, basis : SUBSET Records]

ASSUME FundingAssumption ==
  /\ Requests \in [Hosts -> SUBSET Calls]
  /\ Opens \in [Sessions -> Time]
  /\ Hour \in Nat \ {0} /\ Day \in Nat \ {0} /\ Hour <= Day /\ Lifetime \in 0 .. Hour
  /\ SeatCents = 1 /\ SessionCents \in Nat /\ HourCents \in Nat /\ DayCents \in Nat
  /\ QueueLimit \in Nat \ {0} /\ MaxRecords \in Nat
  /\ InitLedgers \subseteq SUBSET Records
  /\ None \notin Jobs
  /\ MaxTime \in Nat /\ MaxCalls \in Nat /\ MaxFailures \in Nat

VARIABLES
  clock,     \* Date.now
  ledger,    \* the file: its records, and whether it still parses
  queue,     \* each host's calls of reserve, the first one being served
  job,       \* what the first one is about to do: [step, at, basis], or None
  granted,   \* history: the record sets of the reservations granted, in order,
             \* the first being what the file held at the start
  calls, failures

vars == <<clock, ledger, queue, job, granted, calls, failures>>

----------------------------------------------------------------------------
(* Windows and ceilings                                                    *)

DayStart(t) == (t \div Day) * Day
Cents(records) == MapThenSumSet(LAMBDA e : e.cents, records)

InSession(records, s) == {e \in records : e.session = s}
InHour(records, t)    == {e \in records : e.at > t - Hour}
InDay(records, t)     == {e \in records : e.at >= DayStart(t)}

\* The records a reservation adds.
Additions(r, t) ==
  {[session |-> r.session, address |-> a, cents |-> SeatCents, at |-> t] : a \in r.addresses}

\* Faulty variants: no look at earlier reservations of the same seat; the hour's
\* ceiling compared before the new seats are counted.
AffordableTwice(records, r, t) ==
  LET new == SeatCents * Cardinality(r.addresses)
  IN /\ Cents(InHour(records, t)) + new <= HourCents
     /\ Cents(InDay(records, t)) + new <= DayCents
AffordableLate(records, r, t) ==
  LET new == SeatCents * Cardinality(r.addresses)
  IN /\ \A e \in InSession(records, r.session) : e.address \notin r.addresses
     /\ Cents(InSession(records, r.session)) + new <= SessionCents
     /\ Cents(InHour(records, t)) <= HourCents
     /\ Cents(InDay(records, t)) + new <= DayCents

Affordable(records, r, t) ==
  LET new == SeatCents * Cardinality(r.addresses)
  IN /\ \A e \in InSession(records, r.session) : e.address \notin r.addresses
     /\ Cents(InSession(records, r.session)) + new <= SessionCents
     /\ Cents(InHour(records, t)) + new <= HourCents
     /\ Cents(InDay(records, t)) + new <= DayCents

\* What a rewrite of the ledger keeps beside the additions of request r.
Cutoff(t) == IF t - Hour < DayStart(t) THEN t - Hour ELSE DayStart(t)

\* A faulty variant: only the current day is kept.
RetainedToday(records, r, t) ==
  {e \in records : e.at >= DayStart(t) \/ e.session = r.session}

Retained(records, r, t) ==
  {e \in records : e.at >= Cutoff(t) \/ e.session = r.session}

----------------------------------------------------------------------------
Request(p)  == Head(queue[p])
New(p)      == Additions(Request(p), job[p].at)
Kept(p)     == Retained(job[p].basis, Request(p), job[p].at) \cup New(p)
AsRead(p)   == ledger.parses /\ ledger.records = job[p].basis
At(p, step) == job[p] # None /\ job[p].step = step

Go(p, step) == job' = [job EXCEPT ![p].step = step]

\* The promise settles and the next call in the queue may start.
Settle(p) ==
  /\ job' = [job EXCEPT ![p] = None]
  /\ queue' = [queue EXCEPT ![p] = Tail(@)]

\* The promise rejects with FundingBudgetError: nothing is granted.
Refuse(p) == Settle(p) /\ UNCHANGED granted

Init ==
  /\ clock = 0
  /\ ledger \in [records : InitLedgers, parses : {TRUE}]
  /\ queue = [p \in Hosts |-> <<>>]
  /\ job = [p \in Hosts |-> None]
  /\ granted = <<ledger.records>>
  /\ calls = 0 /\ failures = 0

\* The sessions of a host's calls that have yet to read the ledger.
Unread(p) ==
  {queue[p][i].session : i \in {i \in DOMAIN queue[p] : i > 1 \/ job[p] = None \/ At(p, "load")}}

\* The wall clock moves on, but not past the end of a session that still has a
\* call waiting.
Tick ==
  /\ clock < MaxTime
  /\ \A p \in Hosts : \A s \in Unread(p) : clock < Opens[s] + Lifetime
  /\ clock' = clock + 1
  /\ UNCHANGED <<ledger, queue, job, granted, calls, failures>>

\* A call of reserve by the host of an open session; one more than the queue
\* holds is refused at once, which changes nothing.
Call(p, r) ==
  /\ calls < MaxCalls /\ Len(queue[p]) < QueueLimit
  /\ Opens[r.session] <= clock /\ clock <= Opens[r.session] + Lifetime
  /\ queue' = [queue EXCEPT ![p] = Append(@, r)]
  /\ calls' = calls + 1
  /\ UNCHANGED <<clock, ledger, job, granted, failures>>

\* The call gets its turn: with no address to fund it is done, otherwise it
\* reads the clock and starts to read the ledger.
Start(p) ==
  /\ job[p] = None /\ queue[p] # <<>>
  /\ IF Request(p).addresses = {}
     THEN Settle(p)
     ELSE /\ job' = [job EXCEPT ![p] = [step |-> "load", at |-> clock, basis |-> {}]]
          /\ UNCHANGED queue
  /\ UNCHANGED <<clock, ledger, granted, calls, failures>>

\* The ledger is read and the ceilings are checked in one go; a file that does
\* not parse, or is too long to read, refuses everybody.
Load(p) ==
  /\ At(p, "load")
  /\ IF /\ ledger.parses /\ Cardinality(ledger.records) <= MaxRecords
        /\ Affordable(ledger.records, Request(p), job[p].at)
     THEN /\ job' = [job EXCEPT ![p].step = "compare", ![p].basis = ledger.records]
          /\ UNCHANGED <<queue, granted>>
     ELSE Refuse(p)
  /\ UNCHANGED <<clock, ledger, calls, failures>>

\* save reads the file again and refuses if it is not what was checked; a
\* file that would become too long is rewritten instead of appended to.
Compare(p) ==
  /\ At(p, "compare")
  /\ IF ~AsRead(p) THEN Refuse(p)
     ELSE /\ Go(p, IF Cardinality(job[p].basis) + Cardinality(New(p)) > MaxRecords
                   THEN "stage" ELSE "append")
          /\ UNCHANGED <<queue, granted>>
  /\ UNCHANGED <<clock, ledger, calls, failures>>

\* The additions are written and synced: from here on the reservation is
\* durable.  Records that no longer count are then dropped, as a best effort.
AppendRecords(p) ==
  /\ At(p, "append")
  /\ ledger' = [ledger EXCEPT !.records = @ \cup New(p)]
  /\ job' = [job EXCEPT ![p].basis = @ \cup New(p),
                        ![p].step = IF Kept(p) = job[p].basis \cup New(p)
                                    THEN "finish" ELSE "tidy"]
  /\ UNCHANGED <<clock, queue, granted, calls, failures>>

\* What a write that did not succeed leaves: some of the lines, and perhaps a
\* part of one, after which the file does not parse.
Torn(p) ==
  \E written \in SUBSET New(p), parses \in BOOLEAN :
    ledger' = [records |-> ledger.records \cup written, parses |-> ledger.parses /\ parses]

FailAppend(p) ==
  /\ At(p, "append") /\ failures < MaxFailures
  /\ Torn(p) /\ Refuse(p)
  /\ failures' = failures + 1
  /\ UNCHANGED <<clock, calls>>

\* A shorter file is staged; it replaces the ledger only if that still reads as
\* the append left it.  Any trouble skips the rewrite.
Tidy(p) ==
  /\ At(p, "tidy")
  /\ \/ AsRead(p) /\ Go(p, "rename")
     \/ ~AsRead(p) /\ Go(p, "finish")
     \/ failures < MaxFailures /\ Go(p, "finish")
  /\ UNCHANGED <<clock, ledger, queue, granted, calls, failures>>

Rename(p) ==
  /\ At(p, "rename")
  /\ ledger' = [records |-> Kept(p), parses |-> TRUE]
  /\ Go(p, "finish")
  /\ UNCHANGED <<clock, queue, granted, calls, failures>>

\* The boundary path: retained records and additions are staged together, and
\* installed by one rename if the ledger still reads as it was checked.
Stage(p) ==
  /\ At(p, "stage")
  /\ IF AsRead(p) THEN Go(p, "install") /\ UNCHANGED <<queue, granted>> ELSE Refuse(p)
  /\ UNCHANGED <<clock, ledger, calls, failures>>

FailStage(p) ==
  /\ At(p, "stage") /\ failures < MaxFailures
  /\ Refuse(p)
  /\ failures' = failures + 1
  /\ UNCHANGED <<clock, ledger, calls>>

Install(p) ==
  /\ At(p, "install")
  /\ ledger' = [records |-> Kept(p), parses |-> TRUE]
  /\ Go(p, "confirm")
  /\ UNCHANGED <<clock, queue, granted, calls, failures>>

\* The rewritten file must read back as it was written.
Confirm(p) ==
  /\ At(p, "confirm")
  /\ IF ledger.parses /\ ledger.records = Kept(p)
     THEN Go(p, "finish") /\ UNCHANGED <<queue, granted>>
     ELSE Refuse(p)
  /\ UNCHANGED <<clock, ledger, calls, failures>>

Grant(p) ==
  /\ At(p, "finish")
  /\ granted' = Append(granted, New(p))
  /\ Settle(p)
  /\ UNCHANGED <<clock, ledger, calls, failures>>

\* The alert callback throws or the last look at the file fails: the caller is
\* refused although its reservation is in the ledger.
RefuseDurable(p) ==
  /\ At(p, "finish") /\ failures < MaxFailures
  /\ Refuse(p)
  /\ failures' = failures + 1
  /\ UNCHANGED <<clock, ledger, calls>>

\* The host process dies and loses its queue; a write under way may be torn.
Crash(p) ==
  /\ failures < MaxFailures /\ queue[p] # <<>>
  /\ IF At(p, "append") THEN Torn(p) ELSE UNCHANGED ledger
  /\ queue' = [queue EXCEPT ![p] = <<>>]
  /\ job' = [job EXCEPT ![p] = None]
  /\ failures' = failures + 1
  /\ UNCHANGED <<clock, granted, calls>>

Serve(p) ==
  \/ Start(p) \/ Load(p) \/ Compare(p) \/ AppendRecords(p) \/ FailAppend(p)
  \/ Tidy(p) \/ Rename(p) \/ Stage(p) \/ FailStage(p) \/ Install(p) \/ Confirm(p)
  \/ Grant(p) \/ RefuseDurable(p)

Next ==
  \/ Tick
  \/ \E p \in Hosts : \E r \in Requests[p] : Call(p, r)
  \/ \E p \in Hosts : Serve(p) \/ Crash(p)

Spec == Init /\ [][Next]_vars

----------------------------------------------------------------------------
(* Properties                                                              *)

TypeOK ==
  /\ clock \in Time
  /\ ledger \in [records : SUBSET Records, parses : BOOLEAN]
  /\ queue \in [Hosts -> Seq(Calls)]
  /\ job \in [Hosts -> Jobs \cup {None}]
  /\ \A p \in Hosts : job[p] # None => queue[p] # <<>>
  /\ granted \in Seq(SUBSET Records)
  /\ \A i \in DOMAIN granted : i > 1 => \A e \in granted[i] : e.cents = SeatCents
  /\ calls \in Nat /\ failures \in Nat

\* The cents of the granted records that a test picks.
Spent(Picks(_)) ==
  MapThenSumSet(LAMBDA i : Cents({e \in granted[i] : Picks(e)}), DOMAIN granted)

\* "At most 0.20 per rolling hour ... across the public v2 surface": in every
\* hour, not only in those that end at a reservation.
HourCeiling ==
  \A t \in Time : Spent(LAMBDA e : t - Hour < e.at /\ e.at <= t) <= HourCents

\* ... and at most DAY_CENTS per UTC day.
DayCeiling ==
  \A t \in Time : Spent(LAMBDA e : DayStart(t) = DayStart(e.at)) <= DayCents

\* "At most 0.02 per required_fresh session", whatever mixture of one-seat and
\* two-seat reservations, refusals and retries it makes.
SessionCeiling ==
  \A s \in Sessions : Spent(LAMBDA e : e.session = s) <= SessionCents

\* With one host process every ceiling holds, in every hour, day and session.
Ceilings == HourCeiling /\ DayCeiling /\ SessionCeiling

\* "At most 0.01 Sepolia ETH per address, once per session address": no seat is
\* granted twice, though its record may have been dropped or refused after it
\* was written.
SeatOnce ==
  \A i, j \in DOMAIN granted : i # j =>
    \A e \in granted[i], f \in granted[j] : e.session = f.session => e.address # f.address

\* A granted reservation stays in the ledger for as long as a ceiling counts it,
\* whatever later reservations, failures and rewrites do.
GrantsCounted ==
  \A i \in DOMAIN granted : \A e \in granted[i] :
    e.at >= Cutoff(clock) => e \in ledger.records
============================================================================
