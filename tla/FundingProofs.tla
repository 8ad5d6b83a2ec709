---------------------------- MODULE FundingProofs ----------------------------
(***************************************************************************)
(* Theorems about FundingBudget: its types for any number of host          *)
(* processes, and for a single one that what it granted stays counted,     *)
(* that no seat is granted twice, and that no ceiling is exceeded,         *)
(* whatever is refused, fails or crashes.                                  *)
(*                                                                         *)
(* And about FundingJournal, for any number of runs, recipients, signed    *)
(* transactions and inode numbers: what the journal says happened,         *)
(* happened, and what a caller was shown stays recorded unless an update   *)
(* was renamed over another.                                               *)
(***************************************************************************)
EXTENDS FundingBudget, TLAPS, SequenceTheorems, FiniteSetTheorems, NaturalsInduction,
        WellFoundedInduction

\* The funding journal has constants and a state of its own, None apart.
CONSTANTS Runs, Order, Levels, Txs, Misfits, Inodes, Minimum, Target, Maximum, Fee, Funds,
          FirstNonce, MaxEvents
VARIABLES plan, file, leftover, handle, op, told, raced, chain, outside

Journal == INSTANCE FundingJournal

----------------------------------------------------------------------------
(* Types                                                                   *)

\* The records of a reservation are records of the ledger, a seat each.
LEMMA AdditionsType ==
  ASSUME NEW r \in Calls, NEW t \in Time
  PROVE  /\ Additions(r, t) \subseteq Records
         /\ \A e \in Additions(r, t) : e.cents = SeatCents /\ e.at = t
                                       /\ e.session = r.session /\ e.address \in r.addresses
BY FundingAssumption DEF Additions, Records, Calls

\* What a job works on is well typed.
LEMMA JobFacts ==
  ASSUME TypeOK, NEW p \in Hosts, job[p] # None
  PROVE  /\ job[p] \in Jobs /\ job[p].at \in Time /\ job[p].basis \subseteq Records
         /\ queue[p] # <<>> /\ Request(p) \in Calls /\ Tail(queue[p]) \in Seq(Calls)
         /\ New(p) \subseteq Records /\ Kept(p) \subseteq Records
         /\ \A e \in New(p) : e.cents = SeatCents /\ e.at = job[p].at
                              /\ e.session = Request(p).session
                              /\ e.address \in Request(p).addresses
<1>1. job[p] \in Jobs /\ queue[p] \in Seq(Calls) /\ queue[p] # <<>>
  BY DEF TypeOK
<1>2. job[p].at \in Time /\ job[p].basis \subseteq Records
  BY <1>1 DEF Jobs
<1>3. Request(p) \in Calls /\ Tail(queue[p]) \in Seq(Calls)
  BY <1>1 DEF Request
<1>4. /\ New(p) \subseteq Records
      /\ \A e \in New(p) : e.cents = SeatCents /\ e.at = job[p].at
                           /\ e.session = Request(p).session
                           /\ e.address \in Request(p).addresses
  BY <1>2, <1>3, AdditionsType DEF New
<1>5. Kept(p) \subseteq Records
  BY <1>2, <1>4 DEF Kept, Retained
<1>6. QED BY <1>1, <1>2, <1>3, <1>4, <1>5

\* A job may go on to any step with any set of records.
LEMMA JobUpdate ==
  ASSUME NEW j \in Jobs, NEW b \in SUBSET Records,
         NEW s \in {"load", "compare", "append", "tidy", "rename", "stage", "install",
                    "confirm", "finish"}
  PROVE  [j EXCEPT !.step = s, !.basis = b] \in Jobs /\ [j EXCEPT !.basis = b, !.step = s] \in Jobs
BY DEF Jobs

\* A job's later steps look at the ledger, or are refused, and change nothing
\* else of what is granted or waited for.
LEMMA JobGoesOn ==
  ASSUME TypeOK, NEW p \in Hosts, ~Refuse(p),
         Compare(p) \/ AppendRecords(p) \/ Tidy(p) \/ Rename(p) \/ Stage(p) \/ Install(p)
         \/ Confirm(p)
  PROVE  /\ UNCHANGED <<queue, granted>>
         /\ job'[p].at = job[p].at /\ job'[p].step # "load" /\ job'[p] # None
<1>0. /\ job[p] # None /\ None \notin Jobs /\ job \in [Hosts -> Jobs \cup {None}]
  BY FundingAssumption DEF TypeOK, Compare, AppendRecords, Tidy, Rename, Stage, Install, Confirm, At
<1>1. /\ UNCHANGED <<queue, granted>>
      /\ \/ \E s \in {"append", "stage", "rename", "finish", "install", "confirm"} : Go(p, s)
         \/ \E s \in {"finish", "tidy"} :
              job' = [job EXCEPT ![p].basis = @ \cup New(p), ![p].step = s]
  BY DEF Compare, AppendRecords, Tidy, Rename, Stage, Install, Confirm
<1>2. CASE \E s \in {"append", "stage", "rename", "finish", "install", "confirm"} : Go(p, s)
  <2>1. PICK s \in {"append", "stage", "rename", "finish", "install", "confirm"} :
          job' = [job EXCEPT ![p].step = s]
    BY <1>2 DEF Go
  <2>2. job'[p] = [job[p] EXCEPT !.step = s] /\ job[p] \in Jobs
    BY <1>0, <2>1
  <2>3. [job[p] EXCEPT !.step = s] \in Jobs
    BY <2>2 DEF Jobs
  <2>4. QED BY <1>0, <1>1, <2>2, <2>3 DEF Jobs
<1>3. CASE \E s \in {"finish", "tidy"} :
             job' = [job EXCEPT ![p].basis = @ \cup New(p), ![p].step = s]
  <2>1. PICK s \in {"finish", "tidy"} :
          job' = [job EXCEPT ![p].basis = @ \cup New(p), ![p].step = s]
    BY <1>3
  <2>2. /\ job'[p] = [job[p] EXCEPT !.basis = @ \cup New(p), !.step = s]
        /\ job[p] \in Jobs /\ job[p].basis \cup New(p) \in SUBSET Records
    BY <1>0, <2>1, JobFacts
  <2>3. [job[p] EXCEPT !.basis = job[p].basis \cup New(p), !.step = s] \in Jobs
    BY <2>2, JobUpdate
  <2>4. QED BY <1>0, <1>1, <2>2, <2>3 DEF Jobs
<1>4. QED BY <1>1, <1>2, <1>3

\* Every step of the specification keeps the types.
LEMMA TypeStep ==
  ASSUME TypeOK, [Next]_vars
  PROVE  TypeOK'
<1> USE FundingAssumption
<1> DEFINE R == SUBSET Records
           Ledgers == [records : R, parses : BOOLEAN]
<1>0. /\ clock \in Time /\ ledger \in Ledgers /\ queue \in [Hosts -> Seq(Calls)]
      /\ job \in [Hosts -> Jobs \cup {None}] /\ granted \in Seq(R)
      /\ \A p \in Hosts : job[p] # None => queue[p] # <<>>
      /\ calls \in Nat /\ failures \in Nat
  BY DEF TypeOK
<1>1. ASSUME NEW p \in Hosts, job[p] # None, Settle(p), UNCHANGED granted, ledger' \in Ledgers,
             UNCHANGED clock, calls' \in Nat, failures' \in Nat
      PROVE  TypeOK'
  BY <1>0, <1>1, JobFacts DEF TypeOK, Settle
<1>2. ASSUME NEW p \in Hosts, job[p] # None, NEW j \in Jobs, job' = [job EXCEPT ![p] = j],
             UNCHANGED <<clock, queue, granted, calls, failures>>, ledger' \in Ledgers
      PROVE  TypeOK'
  BY <1>0, <1>2 DEF TypeOK
<1>3. ASSUME NEW p \in Hosts, job[p] # None, NEW step \in {"load", "compare", "append", "tidy",
             "rename", "stage", "install", "confirm", "finish"}
      PROVE  [job[p] EXCEPT !.step = step] \in Jobs
  BY <1>3, JobFacts DEF Jobs
<1>4. CASE Tick
  BY <1>0, <1>4 DEF Tick, TypeOK, Time
<1>5. ASSUME NEW p \in Hosts, NEW r \in Requests[p], Call(p, r)
      PROVE  TypeOK'
  <2>1. r \in Calls
    OBVIOUS
  <2>2. Append(queue[p], r) \in Seq(Calls) /\ Append(queue[p], r) # <<>>
    BY <1>0, <2>1, AppendProperties
  <2>3. QED BY <1>0, <1>5, <2>2 DEF Call, TypeOK
<1>6. ASSUME NEW p \in Hosts, Start(p)
      PROVE  TypeOK'
  <2>1. CASE Request(p).addresses = {}
    <3>1. Tail(queue[p]) \in Seq(Calls)
      BY <1>0, <1>6 DEF Start
    <3>2. UNCHANGED <<clock, ledger, granted, calls, failures>> /\ job' = [job EXCEPT ![p] = None]
          /\ queue' = [queue EXCEPT ![p] = Tail(queue[p])]
      BY <1>6, <2>1 DEF Start, Settle
    <3>3. queue' \in [Hosts -> Seq(Calls)] /\ job' \in [Hosts -> Jobs \cup {None}]
      BY <1>0, <3>1, <3>2
    <3>4. \A o \in Hosts : job'[o] # None => queue'[o] # <<>>
      BY <1>0, <3>2
    <3>5. QED BY <1>0, <3>2, <3>3, <3>4 DEF TypeOK
  <2>2. CASE Request(p).addresses # {}
    <3> DEFINE j == [step |-> "load", at |-> clock, basis |-> {}]
    <3>1. j \in Jobs
      BY <1>0 DEF Jobs
    <3>2. UNCHANGED <<clock, ledger, queue, granted, calls, failures>> /\ queue[p] # <<>>
          /\ job' = [job EXCEPT ![p] = j]
      BY <1>6, <2>2 DEF Start
    <3> HIDE DEF j
    <3>3. job' \in [Hosts -> Jobs \cup {None}] /\ \A o \in Hosts : job'[o] # None => queue[o] # <<>>
      BY <1>0, <3>1, <3>2
    <3>4. QED BY <1>0, <3>2, <3>3 DEF TypeOK
  <2>3. QED BY <2>1, <2>2
<1>7. ASSUME NEW p \in Hosts, Load(p)
      PROVE  TypeOK'
  <2>1. job[p] # None /\ UNCHANGED <<clock, ledger, calls, failures>>
    BY <1>7 DEF Load, At
  <2>2. CASE Refuse(p)
    BY <1>0, <1>1, <2>1, <2>2 DEF Refuse
  <2>3. CASE job' = [job EXCEPT ![p].step = "compare", ![p].basis = ledger.records]
             /\ UNCHANGED <<queue, granted>>
    <3>1. [job[p] EXCEPT !.step = "compare", !.basis = ledger.records] \in Jobs
      <4>1. ledger.records \in SUBSET Records /\ job[p] \in Jobs
        BY <1>0, <2>1, JobFacts
      <4>2. QED BY <4>1, JobUpdate
    <3>2. job' = [job EXCEPT ![p] = [job[p] EXCEPT !.step = "compare", !.basis = ledger.records]]
      BY <1>0, <2>3
    <3>3. UNCHANGED <<clock, queue, granted, calls, failures>> /\ ledger' \in Ledgers
      BY <1>0, <2>1, <2>3
    <3>4. QED BY <1>2, <2>1, <3>1, <3>2, <3>3
  <2>4. QED BY <1>7, <2>2, <2>3 DEF Load
<1>8. ASSUME NEW p \in Hosts, job[p] # None, UNCHANGED <<clock, ledger, calls, failures>>,
             \/ Refuse(p)
             \/ /\ \E step \in {"append", "rename", "stage", "install", "finish"} : Go(p, step)
                /\ UNCHANGED <<queue, granted>>
      PROVE  TypeOK'
  <2>1. CASE Refuse(p)
    BY <1>0, <1>1, <1>8, <2>1 DEF Refuse
  <2>2. ASSUME NEW step \in {"append", "rename", "stage", "install", "finish"}, Go(p, step),
               UNCHANGED <<queue, granted>>
        PROVE  TypeOK'
    <3>1. job' = [job EXCEPT ![p] = [job[p] EXCEPT !.step = step]]
      BY <1>0, <2>2 DEF Go
    <3>2. QED BY <1>0, <1>2, <1>3, <1>8, <2>2, <3>1
  <2>3. QED BY <1>8, <2>1, <2>2
<1>9. ASSUME NEW p \in Hosts, Compare(p) \/ Tidy(p) \/ Stage(p) \/ Confirm(p)
      PROVE  TypeOK'
  <2>1. job[p] # None
    BY <1>9 DEF Compare, Tidy, Stage, Confirm, At
  <2>2. CASE Compare(p)
    BY <1>8, <2>1, <2>2 DEF Compare
  <2>3. CASE Tidy(p)
    BY <1>8, <2>1, <2>3 DEF Tidy
  <2>4. CASE Stage(p)
    BY <1>8, <2>1, <2>4 DEF Stage
  <2>5. CASE Confirm(p)
    BY <1>8, <2>1, <2>5 DEF Confirm
  <2>6. QED BY <1>9, <2>2, <2>3, <2>4, <2>5
<1>10. ASSUME NEW p \in Hosts, AppendRecords(p)
       PROVE  TypeOK'
  <2>1. job[p] # None
    BY <1>10 DEF AppendRecords, At
  <2> DEFINE step == IF Kept(p) = job[p].basis \cup New(p) THEN "finish" ELSE "tidy"
             j == [job[p] EXCEPT !.basis = @ \cup New(p), !.step = step]
  <2>2. j \in Jobs
    <3>1. job[p].basis \cup New(p) \in SUBSET Records /\ job[p] \in Jobs
      BY <2>1, JobFacts
    <3>2. QED BY <3>1, JobUpdate
  <2>3. job' = [job EXCEPT ![p] = j]
    BY <1>0, <1>10 DEF AppendRecords
  <2>4. ledger' \in Ledgers
    BY <1>0, <1>10, <2>1, JobFacts DEF AppendRecords
  <2> HIDE DEF j
  <2>5. UNCHANGED <<clock, queue, granted, calls, failures>>
    BY <1>10 DEF AppendRecords
  <2>6. QED BY <1>2, <2>1, <2>2, <2>3, <2>4, <2>5
<1>11. ASSUME NEW p \in Hosts, job[p] # None, Torn(p)
       PROVE  ledger' \in Ledgers
  BY <1>0, <1>11, JobFacts DEF Torn
<1>12. ASSUME NEW p \in Hosts, FailAppend(p) \/ FailStage(p) \/ RefuseDurable(p)
       PROVE  TypeOK'
  <2>1. job[p] # None
    BY <1>12 DEF FailAppend, FailStage, RefuseDurable, At
  <2>2. CASE FailAppend(p)
    BY <1>0, <1>1, <1>11, <2>1, <2>2 DEF FailAppend, Refuse
  <2>3. CASE FailStage(p)
    BY <1>0, <1>1, <2>1, <2>3 DEF FailStage, Refuse
  <2>4. CASE RefuseDurable(p)
    BY <1>0, <1>1, <2>1, <2>4 DEF RefuseDurable, Refuse
  <2>5. QED BY <1>12, <2>2, <2>3, <2>4
<1>13. ASSUME NEW p \in Hosts, Rename(p) \/ Install(p)
       PROVE  TypeOK'
  <2>1. job[p] # None /\ ledger' \in Ledgers
    <3>1. job[p] # None /\ ledger' = [records |-> Kept(p), parses |-> TRUE]
      BY <1>13 DEF Rename, Install, At
    <3>2. Kept(p) \in SUBSET Records
      BY <3>1, JobFacts
    <3>3. QED BY <3>1, <3>2
  <2>2. \E step \in {"finish", "confirm"} : job' = [job EXCEPT ![p] = [job[p] EXCEPT !.step = step]]
    BY <1>0, <1>13 DEF Rename, Install, Go
  <2>3. QED BY <1>2, <1>3, <1>13, <2>1, <2>2 DEF Rename, Install
<1>14. ASSUME NEW p \in Hosts, Grant(p)
       PROVE  TypeOK'
  <2>1. job[p] # None
    BY <1>14 DEF Grant, At
  <2>2. /\ granted' \in Seq(R)
        /\ \A i \in DOMAIN granted' : i > 1 => \A e \in granted'[i] : e.cents = SeatCents
    <3>1. /\ New(p) \in R /\ granted' = Append(granted, New(p))
          /\ \A e \in New(p) : e.cents = SeatCents
      BY <1>14, <2>1, JobFacts DEF Grant
    <3>2. \A i \in DOMAIN granted : i > 1 => \A e \in granted[i] : e.cents = SeatCents
      BY DEF TypeOK
    <3>3. QED BY <1>0, <3>1, <3>2, AppendProperties
  <2>3. QED BY <1>0, <1>14, <2>1, <2>2, JobFacts DEF Grant, Settle, TypeOK
<1>15. ASSUME NEW p \in Hosts, Crash(p)
       PROVE  TypeOK'
  <2>1. ledger' \in Ledgers
    BY <1>0, <1>11, <1>15 DEF Crash, At
  <2>2. QED BY <1>0, <1>15, <2>1 DEF Crash, TypeOK
<1>16. CASE UNCHANGED vars
  BY <1>16 DEF vars, TypeOK
<1>17. QED
  BY <1>4, <1>5, <1>6, <1>7, <1>9, <1>10, <1>12, <1>13, <1>14, <1>15, <1>16 DEF Next, Serve

\* The variables keep their types, new records are written at the amount of one
\* seat, and a host has a job only for a call in its queue.
THEOREM BudgetTypes == Spec => []TypeOK
<1>1. Init => TypeOK
  <2> SUFFICES ASSUME Init PROVE TypeOK
    OBVIOUS
  <2>1. ledger \in [records : SUBSET Records, parses : BOOLEAN] /\ clock \in Time
    <3>1. /\ ledger \in [records : InitLedgers, parses : {TRUE}]
          /\ InitLedgers \subseteq SUBSET Records
      BY FundingAssumption DEF Init
    <3>2. clock = 0 /\ MaxTime \in Nat
      BY FundingAssumption DEF Init
    <3>3. clock \in Time
      BY <3>2 DEF Time
    <3> HIDE DEF Time
    <3>4. QED BY <3>1, <3>3
  <2>2. granted \in Seq(SUBSET Records) /\ DOMAIN granted = {1}
    <3>1. ledger.records \in SUBSET Records /\ granted = <<ledger.records>>
      BY <2>1 DEF Init
    <3>2. QED BY <3>1
  <2>3. queue \in [Hosts -> Seq(Calls)]
    <3>1. <<>> \in Seq(Calls)
      OBVIOUS
    <3>2. QED BY <3>1 DEF Init
  <2>4. QED BY <2>1, <2>2, <2>3 DEF Init, TypeOK
<1>2. TypeOK /\ [Next]_vars => TypeOK'
  BY TypeStep
<1>3. QED BY <1>1, <1>2, PTL DEF Spec

----------------------------------------------------------------------------
(* One host process: what it granted stays counted                         *)

OneHost == \A p, q \in Hosts : p = q

\* From the check of the ceilings to the last rewrite the ledger is what the job
\* read, and once its records are written they stay in it.
LedgerInv ==
  \A p \in Hosts : job[p] # None =>
    /\ job[p].at <= clock
    /\ job[p].step \in {"compare", "append", "tidy", "rename", "stage", "install"} =>
         job[p].basis = ledger.records
    /\ job[p].step \in {"tidy", "rename", "confirm", "finish"} => New(p) \subseteq ledger.records

\* A day starts no later than an earlier one.
LEMMA DayStartMonotone ==
  ASSUME NEW t \in Nat, NEW u \in Nat, t <= u
  PROVE  DayStart(t) \in Int /\ DayStart(u) \in Int /\ DayStart(t) <= DayStart(u)
<1> DEFINE x == t \div Day
           y == u \div Day
<1>1. Day \in Int /\ Day > 0
  BY FundingAssumption
<1>2. x \in Int /\ y \in Int
  BY <1>1
<1>3. Day * x <= t /\ u < Day * y + Day
  BY <1>1
<1> HIDE DEF x, y
<1>4. x <= y
  <2>1. SUFFICES ASSUME y + 1 <= x PROVE FALSE
    BY <1>2
  <2>2. Day * (y + 1) <= Day * x
    BY <1>1, <1>2, <2>1
  <2>3. Day * (y + 1) = Day * y + Day
    BY <1>1, <1>2
  <2>4. Day * x \in Int /\ Day * y \in Int
    BY <1>1, <1>2
  <2>5. QED BY <1>1, <1>3, <2>2, <2>3, <2>4
<1>5. x * Day <= y * Day /\ x * Day \in Int /\ y * Day \in Int
  BY <1>1, <1>2, <1>4
<1>6. QED BY <1>5 DEF DayStart, x, y

\* What a later rewrite may drop is older than what an earlier one may drop, and
\* always more than an hour old.
LEMMA CutoffMonotone ==
  ASSUME NEW t \in Nat, NEW u \in Nat, t <= u
  PROVE  /\ Cutoff(t) \in Int /\ Cutoff(u) \in Int
         /\ Cutoff(t) <= Cutoff(u) /\ Cutoff(u) <= u - Hour
BY DayStartMonotone, FundingAssumption DEF Cutoff

\* Grants stay counted over a step that drops no record a ceiling counts.
LEMMA CountedStep ==
  ASSUME TypeOK, TypeOK', GrantsCounted, clock <= clock', UNCHANGED granted,
         \A e \in ledger.records : e.at >= Cutoff(clock') => e \in ledger'.records
  PROVE  GrantsCounted'
<1>1. clock \in Nat /\ clock' \in Nat
  BY FundingAssumption DEF TypeOK, Time
<1>2. Cutoff(clock) \in Int /\ Cutoff(clock') \in Int /\ Cutoff(clock) <= Cutoff(clock')
  BY <1>1, CutoffMonotone
<1>3. \A i \in DOMAIN granted : \A e \in granted[i] : e.at \in Int
  <2>1. SUFFICES ASSUME NEW i \in DOMAIN granted, NEW e \in granted[i] PROVE e.at \in Int
    OBVIOUS
  <2>2. e \in Records
    BY DEF TypeOK
  <2>3. QED BY <2>2, FundingAssumption DEF Records, Time
<1>4. QED BY <1>2, <1>3 DEF GrantsCounted

\* A rewrite keeps every record of its basis that a ceiling counts.
LEMMA RewriteKeeps ==
  ASSUME TypeOK, LedgerInv, NEW p \in Hosts, At(p, "rename") \/ At(p, "install")
  PROVE  \A e \in ledger.records : e.at >= Cutoff(clock) => e \in Kept(p)
<1>1. job[p].at \in Nat /\ clock \in Nat /\ job[p].at <= clock
  BY FundingAssumption, JobFacts DEF TypeOK, Time, LedgerInv, At
<1>2. /\ Cutoff(job[p].at) \in Int /\ Cutoff(clock) \in Int
      /\ Cutoff(job[p].at) <= Cutoff(clock)
  BY <1>1, CutoffMonotone
<1>3. job[p].basis = ledger.records
  BY DEF LedgerInv, At
<1>4. SUFFICES ASSUME NEW e \in ledger.records, e.at >= Cutoff(clock)
               PROVE  e \in Kept(p)
  OBVIOUS
<1>5. e \in Records
  BY DEF TypeOK
<1>6. e.at \in Int
  BY <1>5, FundingAssumption DEF Records, Time
<1>7. QED BY <1>2, <1>3, <1>4, <1>6 DEF Kept, Retained

\* With one host no step comes between a job and the ledger it read.
LEMMA LedgerStep ==
  ASSUME OneHost, TypeOK, TypeOK', LedgerInv, GrantsCounted, [Next]_vars
  PROVE  LedgerInv' /\ GrantsCounted'
<1> USE FundingAssumption
<1>0. /\ clock \in Nat /\ ledger \in [records : SUBSET Records, parses : BOOLEAN]
      /\ queue \in [Hosts -> Seq(Calls)] /\ job \in [Hosts -> Jobs \cup {None}]
      /\ granted \in Seq(SUBSET Records)
  BY DEF TypeOK, Time
<1>1. ASSUME NEW p \in Hosts, job'[p] = None PROVE LedgerInv'
  BY <1>1 DEF LedgerInv, OneHost
<1>2. ASSUME NEW p \in Hosts, Settle(p) \/ job' = [job EXCEPT ![p] = None] PROVE LedgerInv'
  BY <1>0, <1>1, <1>2 DEF Settle
<1>3. ASSUME NEW p \in Hosts, NEW j, job' = [job EXCEPT ![p] = j], UNCHANGED queue,
             j.at = job[p].at
      PROVE  job'[p] = j /\ New(p)' = New(p)
  BY <1>0, <1>3 DEF New, Request
<1>4. CASE Tick
  <2>1. LedgerInv'
    BY <1>0, <1>4, JobFacts DEF Tick, LedgerInv, New, Request, Time
  <2>2. GrantsCounted'
    BY <1>0, <1>4, CountedStep DEF Tick
  <2>3. QED BY <2>1, <2>2
<1>5. ASSUME NEW p \in Hosts, NEW r \in Requests[p], Call(p, r)
      PROVE  LedgerInv' /\ GrantsCounted'
  <2>1. ASSUME job[p] # None PROVE New(p)' = New(p)
    <3>1. Head(Append(queue[p], r)) = Head(queue[p])
      BY <1>0, <2>1, JobFacts, AppendProperties
    <3>2. QED BY <1>0, <1>5, <3>1 DEF Call, New, Request
  <2>2. LedgerInv'
    BY <1>5, <2>1 DEF Call, LedgerInv, OneHost
  <2>3. QED BY <1>0, <1>5, <2>2, CountedStep DEF Call
<1>6. ASSUME NEW p \in Hosts, Start(p)
      PROVE  LedgerInv' /\ GrantsCounted'
  <2>1. GrantsCounted'
    BY <1>0, <1>6, CountedStep DEF Start
  <2>2. CASE Settle(p)
    BY <1>2, <2>1, <2>2
  <2>3. CASE job' = [job EXCEPT ![p] = [step |-> "load", at |-> clock, basis |-> {}]]
    <3>1. job'[p].at = clock /\ job'[p].step = "load"
      BY <1>0, <2>3
    <3>2. QED BY <1>0, <1>6, <2>1, <3>1 DEF Start, LedgerInv, OneHost
  <2>4. QED BY <1>6, <2>2, <2>3 DEF Start
<1>7. ASSUME NEW p \in Hosts, UNCHANGED <<clock, ledger>>, Refuse(p)
      PROVE  LedgerInv' /\ GrantsCounted'
  BY <1>0, <1>2, <1>7, CountedStep DEF Refuse
<1>8. ASSUME NEW p \in Hosts, Load(p)
      PROVE  LedgerInv' /\ GrantsCounted'
  <2>1. CASE Refuse(p)
    BY <1>7, <1>8, <2>1 DEF Load
  <2>2. CASE job' = [job EXCEPT ![p].step = "compare", ![p].basis = ledger.records]
             /\ UNCHANGED <<queue, granted>>
    <3>1. /\ job'[p].step = "compare" /\ job'[p].basis = ledger.records
          /\ job'[p].at = job[p].at
      BY <1>0, <1>8, <2>2, JobFacts DEF Load, At, Jobs
    <3>2. job[p] # None /\ UNCHANGED <<clock, ledger>>
      BY <1>8 DEF Load, At
    <3>3. LedgerInv'
      BY <3>1, <3>2 DEF LedgerInv, OneHost
    <3>4. QED BY <1>0, <2>2, <3>2, <3>3, CountedStep
  <2>3. QED BY <1>8, <2>1, <2>2 DEF Load
<1>9. ASSUME NEW p \in Hosts, job[p] # None, UNCHANGED <<clock, ledger, queue, granted>>,
             NEW from \in {"compare", "tidy", "stage", "confirm"},
             NEW to \in {"append", "stage", "rename", "finish", "install"},
             job[p].step = from, Go(p, to),
             to \in {"append", "stage", "install", "rename"} =>
               from \in {"compare", "stage", "tidy"},
             to \in {"rename", "finish"} => from = "tidy" \/ New(p) \subseteq ledger.records
      PROVE  LedgerInv' /\ GrantsCounted'
  <2>1. job'[p].step = to /\ job'[p].basis = job[p].basis /\ job'[p].at = job[p].at
    BY <1>0, <1>9, JobFacts DEF Go, Jobs
  <2>2. New(p)' = New(p)
    BY <1>9, <2>1 DEF New, Request
  <2>3. LedgerInv'
    BY <1>9, <2>1, <2>2 DEF LedgerInv, OneHost
  <2>4. QED BY <1>0, <1>9, <2>3, CountedStep
<1>10. ASSUME NEW p \in Hosts, Compare(p) \/ Tidy(p) \/ Stage(p) \/ Confirm(p)
       PROVE  LedgerInv' /\ GrantsCounted'
  <2>1. job[p] # None /\ UNCHANGED <<clock, ledger>>
    BY <1>10 DEF Compare, Tidy, Stage, Confirm, At
  <2>2. CASE Refuse(p)
    BY <1>7, <2>1, <2>2
  <2>3. CASE Compare(p) /\ ~Refuse(p)
    BY <1>9, <2>1, <2>3 DEF Compare, At
  <2>4. CASE Tidy(p)
    BY <1>9, <2>1, <2>4 DEF Tidy, At
  <2>5. CASE Stage(p) /\ ~Refuse(p)
    BY <1>9, <2>1, <2>5 DEF Stage, At
  <2>6. CASE Confirm(p) /\ ~Refuse(p)
    BY <1>9, <2>1, <2>6 DEF Confirm, At, LedgerInv
  <2>7. QED BY <1>10, <2>2, <2>3, <2>4, <2>5, <2>6
<1>11. ASSUME NEW p \in Hosts, AppendRecords(p)
       PROVE  LedgerInv' /\ GrantsCounted'
  <2>1. /\ job[p] # None /\ job[p].step = "append" /\ UNCHANGED <<clock, queue, granted>>
        /\ job[p].basis = ledger.records
    BY <1>11 DEF AppendRecords, At, LedgerInv
  <2>2. ledger'.records = ledger.records \cup New(p)
    BY <1>0, <1>11 DEF AppendRecords
  <2>3. /\ job'[p].basis = job[p].basis \cup New(p) /\ job'[p].at = job[p].at
        /\ job'[p].step \in {"finish", "tidy"}
    BY <1>0, <1>11, <2>1, JobFacts DEF AppendRecords, Jobs
  <2>4. New(p)' = New(p)
    BY <2>1, <2>3 DEF New, Request
  <2>5. LedgerInv'
    BY <2>1, <2>2, <2>3, <2>4 DEF LedgerInv, OneHost
  <2>6. QED BY <1>0, <2>1, <2>2, <2>5, CountedStep
<1>12. ASSUME NEW p \in Hosts, Rename(p) \/ Install(p)
       PROVE  LedgerInv' /\ GrantsCounted'
  <2>1. /\ job[p] # None /\ UNCHANGED <<clock, queue, granted>> /\ ledger'.records = Kept(p)
        /\ At(p, "rename") \/ At(p, "install")
    BY <1>12 DEF Rename, Install, At
  <2>2. job'[p].at = job[p].at /\ job'[p].step \in {"finish", "confirm"}
    BY <1>0, <1>12, <2>1, JobFacts DEF Rename, Install, Go, Jobs
  <2>3. New(p)' = New(p) /\ New(p) \subseteq Kept(p)
    BY <2>1, <2>2 DEF New, Request, Kept
  <2>4. LedgerInv'
    BY <2>1, <2>2, <2>3 DEF LedgerInv, OneHost
  <2>5. QED BY <1>0, <2>1, <2>4, CountedStep, RewriteKeeps
<1>13. ASSUME NEW p \in Hosts, Grant(p)
       PROVE  LedgerInv' /\ GrantsCounted'
  <2>1. /\ New(p) \subseteq ledger.records /\ granted' = Append(granted, New(p))
        /\ UNCHANGED <<clock, ledger>> /\ Settle(p)
    BY <1>13 DEF Grant, LedgerInv, At
  <2>2. \A i \in DOMAIN granted' :
          granted'[i] = New(p) \/ (i \in DOMAIN granted /\ granted'[i] = granted[i])
    <3>1. New(p) \in SUBSET Records
      BY <1>13, JobFacts DEF Grant, At
    <3>2. QED BY <1>0, <2>1, <3>1, AppendProperties
  <2>3. GrantsCounted'
    BY <2>1, <2>2 DEF GrantsCounted
  <2>4. QED BY <1>2, <2>1, <2>3
<1>14. ASSUME NEW p \in Hosts, FailAppend(p) \/ FailStage(p) \/ RefuseDurable(p) \/ Crash(p)
       PROVE  LedgerInv' /\ GrantsCounted'
  <2>1. LedgerInv'
    BY <1>2, <1>14 DEF FailAppend, FailStage, RefuseDurable, Crash, Refuse
  <2>2. UNCHANGED <<clock, granted>>
    BY <1>14 DEF FailAppend, FailStage, RefuseDurable, Crash, Refuse
  <2>3. ledger.records \subseteq ledger'.records
    BY <1>14 DEF FailAppend, FailStage, RefuseDurable, Crash, Torn
  <2>4. QED BY <1>0, <2>1, <2>2, <2>3, CountedStep
<1>15. CASE UNCHANGED vars
  BY <1>15 DEF vars, LedgerInv, GrantsCounted, New, Request
<1>16. QED
  BY <1>4, <1>5, <1>6, <1>8, <1>10, <1>11, <1>12, <1>13, <1>14, <1>15 DEF Next, Serve

\* A single host process never loses sight of what it granted: every granted
\* record is in the ledger for as long as a ceiling counts it.
THEOREM GrantsStayCounted ==
  ASSUME OneHost
  PROVE  Spec => []GrantsCounted
<1>1. Init => LedgerInv /\ GrantsCounted
  BY DEF Init, LedgerInv, GrantsCounted
<1>2. TypeOK /\ TypeOK' /\ LedgerInv /\ GrantsCounted /\ [Next]_vars => LedgerInv' /\ GrantsCounted'
  BY LedgerStep
<1>3. QED BY <1>1, <1>2, BudgetTypes, PTL DEF Spec

----------------------------------------------------------------------------
(* One host process: no seat is granted twice                              *)

\* No record of the initial ledger is older than its session.
InitFresh == \A L \in InitLedgers : \A e \in L : Opens[e.session] <= e.at

\* Calls and jobs belong to sessions that are open, a call that has yet to read
\* the ledger to one that has not ended, and once a job has read the ledger the
\* seats it asks for have not been granted.
SeatInv ==
  /\ \A p \in Hosts :
       /\ \A i \in DOMAIN queue[p] : Opens[queue[p][i].session] <= clock
       /\ \A s \in Unread(p) : clock <= Opens[s] + Lifetime
       /\ job[p] # None => Opens[Request(p).session] <= job[p].at
       /\ job[p] # None /\ job[p].step # "load" =>
            \A i \in DOMAIN granted : \A e \in granted[i] :
              e.session = Request(p).session => e.address \notin Request(p).addresses
  /\ \A i \in DOMAIN granted : \A e \in granted[i] : Opens[e.session] <= e.at

\* Every granted record of a session whose host may still read the ledger is in
\* the ledger.
LEMMA SessionCounted ==
  ASSUME TypeOK, GrantsCounted, SeatInv, NEW p \in Hosts, NEW i \in DOMAIN granted,
         NEW e \in granted[i], e.session \in Unread(p)
  PROVE  e \in ledger.records
<1>1. /\ clock \in Nat /\ Hour \in Nat /\ Lifetime \in Nat /\ Lifetime <= Hour
      /\ Opens \in [Sessions -> Time] /\ Time \subseteq Nat
  BY FundingAssumption DEF TypeOK, Time
<1>2. e \in Records
  BY DEF TypeOK
<1>3. e.session \in Sessions /\ e.at \in Nat
  BY <1>1, <1>2 DEF Records
<1>4. Opens[e.session] \in Nat /\ Opens[e.session] <= e.at /\ clock <= Opens[e.session] + Lifetime
  BY <1>1, <1>3 DEF SeatInv
<1>5. Cutoff(clock) \in Int /\ Cutoff(clock) <= clock - Hour
  BY <1>1, CutoffMonotone
<1>6. e.at >= Cutoff(clock)
  BY <1>1, <1>3, <1>4, <1>5
<1>7. QED BY <1>6 DEF GrantsCounted

\* With one host SeatInv and SeatOnce are kept by every step.
LEMMA SeatStep ==
  ASSUME OneHost, TypeOK, GrantsCounted, SeatInv, SeatOnce, [Next]_vars
  PROVE  SeatInv' /\ SeatOnce'
<1> USE FundingAssumption
<1>0. /\ clock \in Nat /\ ledger \in [records : SUBSET Records, parses : BOOLEAN]
      /\ queue \in [Hosts -> Seq(Calls)] /\ job \in [Hosts -> Jobs \cup {None}]
      /\ granted \in Seq(SUBSET Records)
      /\ Lifetime \in Nat /\ \A s \in Sessions : Opens[s] \in Nat
  BY DEF TypeOK, Time
<1>1. ASSUME NEW q \in Seq(Calls), q # <<>>
      PROVE  /\ Tail(q) \in Seq(Calls) /\ 1 \in DOMAIN q /\ Head(q) = q[1]
             /\ \A i \in DOMAIN Tail(q) : i + 1 \in DOMAIN q /\ Tail(q)[i] = q[i + 1] /\ i + 1 > 1
  BY <1>1
\* A call is answered: those behind it keep waiting.
<1>2. ASSUME NEW p \in Hosts, queue[p] # <<>>, Settle(p), UNCHANGED clock,
             \A i \in DOMAIN granted' : \A e \in granted'[i] : Opens[e.session] <= e.at
      PROVE  SeatInv'
  <2>1. /\ job'[p] = None /\ queue'[p] = Tail(queue[p])
        /\ queue[p] \in Seq(Calls)
    BY <1>0, <1>2 DEF Settle
  <2>2. \A i \in DOMAIN queue'[p] :
          i + 1 \in DOMAIN queue[p] /\ queue'[p][i] = queue[p][i + 1] /\ i + 1 > 1
    BY <1>1, <1>2, <2>1
  <2>3. Unread(p)' \subseteq Unread(p)
    BY <2>2 DEF Unread
  <2>4. \A i \in DOMAIN queue'[p] : Opens[queue'[p][i].session] <= clock
    BY <2>2 DEF SeatInv
  <2>5. QED BY <1>2, <2>1, <2>3, <2>4 DEF SeatInv, OneHost
\* A job goes on.
<1>3. ASSUME NEW p \in Hosts, job[p] # None, job'[p] # None, UNCHANGED <<clock, queue, granted>>,
             job'[p].at = job[p].at, job[p].step # "load", job'[p].step # "load"
      PROVE  SeatInv' /\ SeatOnce'
  <2>1. Request(p)' = Request(p) /\ Unread(p)' \subseteq Unread(p)
    BY <1>3 DEF Request, Unread, At
  <2>2. SeatInv'
    BY <1>3, <2>1 DEF SeatInv, OneHost
  <2>3. QED BY <1>3, <2>2 DEF SeatOnce
<1>4. CASE Tick
  <2>1. \A p \in Hosts : Request(p)' = Request(p) /\ Unread(p)' = Unread(p)
    BY <1>4 DEF Tick, Request, Unread, At
  <2>2. clock' = clock + 1
    BY <1>4 DEF Tick
  <2>3. \A p \in Hosts : \A i \in DOMAIN queue[p] : queue[p][i].session \in Sessions
    <3>1. SUFFICES ASSUME NEW p \in Hosts, NEW i \in DOMAIN queue[p]
                   PROVE  queue[p][i].session \in Sessions
      OBVIOUS
    <3>2. queue[p] \in Seq(Calls)
      BY <1>0
    <3>3. queue[p][i] \in Calls
      BY <3>2
    <3>4. QED BY <3>3 DEF Calls
  <2>4. \A p \in Hosts : \A i \in DOMAIN queue[p] : Opens[queue[p][i].session] <= clock'
    <3>1. SUFFICES ASSUME NEW p \in Hosts, NEW i \in DOMAIN queue[p]
                   PROVE  Opens[queue[p][i].session] <= clock'
      OBVIOUS
    <3>2. Opens[queue[p][i].session] <= clock /\ Opens[queue[p][i].session] \in Nat
      BY <1>0, <2>3 DEF SeatInv
    <3>3. QED BY <1>0, <2>2, <3>2
  <2>5. \A p \in Hosts : \A s \in Unread(p) : clock' <= Opens[s] + Lifetime
    <3>1. SUFFICES ASSUME NEW p \in Hosts, NEW s \in Unread(p)
                   PROVE  clock' <= Opens[s] + Lifetime
      OBVIOUS
    <3>2. s \in Sessions
      BY <2>3 DEF Unread
    <3>3. clock < Opens[s] + Lifetime
      BY <1>4 DEF Tick
    <3>4. Opens[s] \in Nat
      BY <1>0, <3>2
    <3>5. QED BY <1>0, <2>2, <3>3, <3>4
  <2>6. QED BY <1>4, <2>1, <2>4, <2>5 DEF Tick, SeatInv, SeatOnce
<1>5. ASSUME NEW p \in Hosts, NEW r \in Requests[p], Call(p, r)
      PROVE  SeatInv' /\ SeatOnce'
  <2>1. /\ r \in Calls /\ queue[p] \in Seq(Calls) /\ queue'[p] = Append(queue[p], r)
        /\ UNCHANGED <<clock, job, granted>>
        /\ Opens[r.session] <= clock /\ clock <= Opens[r.session] + Lifetime
    BY <1>0, <1>5 DEF Call
  <2>2. \A i \in DOMAIN queue'[p] :
          queue'[p][i] = r \/ (i \in DOMAIN queue[p] /\ queue'[p][i] = queue[p][i])
    BY <2>1, AppendProperties
  <2>3. \A s \in Unread(p)' : s = r.session \/ s \in Unread(p)
    BY <2>1, <2>2 DEF Unread, At
  <2>4. job[p] # None => Request(p)' = Request(p)
    <3>1. job[p] # None => queue[p] # <<>>
      BY DEF TypeOK
    <3>2. QED BY <2>1, <3>1, AppendProperties DEF Request
  <2>5. SeatInv'
    BY <2>1, <2>2, <2>3, <2>4 DEF SeatInv, OneHost
  <2>6. QED BY <2>1, <2>5 DEF SeatOnce
<1>6. ASSUME NEW p \in Hosts, Start(p)
      PROVE  SeatInv' /\ SeatOnce'
  <2>1. queue[p] # <<>> /\ job[p] = None /\ UNCHANGED <<clock, granted>>
    BY <1>6 DEF Start
  <2>2. SeatOnce'
    BY <2>1 DEF SeatOnce
  <2>3. CASE Settle(p)
    BY <1>2, <2>1, <2>2, <2>3 DEF SeatInv
  <2>4. CASE /\ job' = [job EXCEPT ![p] = [step |-> "load", at |-> clock, basis |-> {}]]
             /\ UNCHANGED queue
    <3>1. job'[p].at = clock /\ job'[p].step = "load"
      BY <1>0, <2>4
    <3>2. Unread(p)' \subseteq Unread(p) /\ Request(p)' = Request(p)
      BY <2>1, <2>4 DEF Unread, Request
    <3>3. Opens[Request(p).session] <= clock
      BY <1>0, <1>1, <2>1 DEF Request, SeatInv
    <3>4. QED BY <2>1, <2>2, <2>4, <3>1, <3>2, <3>3 DEF SeatInv, OneHost
  <2>5. QED BY <1>6, <2>3, <2>4 DEF Start
<1>7. ASSUME NEW p \in Hosts, job[p] # None, Refuse(p), UNCHANGED clock
      PROVE  SeatInv' /\ SeatOnce'
  <2>1. UNCHANGED granted /\ Settle(p) /\ queue[p] # <<>>
    BY <1>7, JobFacts DEF Refuse
  <2>2. QED BY <1>2, <1>7, <2>1 DEF SeatInv, SeatOnce
<1>8. ASSUME NEW p \in Hosts, Load(p)
      PROVE  SeatInv' /\ SeatOnce'
  <2>1. job[p] # None /\ job[p].step = "load" /\ UNCHANGED clock /\ queue[p] # <<>>
    BY <1>8, JobFacts DEF Load, At
  <2>2. CASE Refuse(p)
    BY <1>7, <2>1, <2>2
  <2>3. CASE ~Refuse(p)
    <3>1. /\ Affordable(ledger.records, Request(p), job[p].at)
          /\ job' = [job EXCEPT ![p].step = "compare", ![p].basis = ledger.records]
          /\ UNCHANGED <<queue, granted>>
      BY <1>8, <2>3 DEF Load
    <3>2. job'[p].at = job[p].at /\ job'[p].step = "compare"
      BY <1>0, <2>1, <3>1, JobFacts DEF Jobs
    <3>3. Request(p)' = Request(p) /\ Unread(p)' \subseteq Unread(p)
      BY <2>1, <3>1 DEF Request, Unread, At
    <3>4. Request(p).session \in Unread(p)
      <4>1. queue[p] \in Seq(Calls)
        BY <1>0
      <4>2. 1 \in DOMAIN queue[p] /\ Request(p) = queue[p][1]
        BY <1>1, <2>1, <4>1 DEF Request
      <4>3. QED BY <2>1, <4>2 DEF Unread, At
    <3>5. \A e \in ledger.records :
            e.session = Request(p).session => e.address \notin Request(p).addresses
      BY <3>1 DEF Affordable, InSession
    <3>6. \A i \in DOMAIN granted : \A e \in granted[i] :
            e.session = Request(p).session => e.address \notin Request(p).addresses
      BY <3>4, <3>5, SessionCounted
    <3>7. SeatInv'
      BY <2>1, <3>1, <3>2, <3>3, <3>6 DEF SeatInv, OneHost
    <3>8. QED BY <3>1, <3>7 DEF SeatOnce
  <2>4. QED BY <2>2, <2>3
<1>9. ASSUME NEW p \in Hosts,
             Compare(p) \/ AppendRecords(p) \/ Tidy(p) \/ Rename(p) \/ Stage(p) \/ Install(p)
             \/ Confirm(p)
      PROVE  SeatInv' /\ SeatOnce'
  <2>1. job[p] # None /\ job[p].step # "load" /\ UNCHANGED clock
    BY <1>9 DEF Compare, AppendRecords, Tidy, Rename, Stage, Install, Confirm, At
  <2>2. CASE Refuse(p)
    BY <1>7, <2>1, <2>2
  <2>3. CASE ~Refuse(p)
    BY <1>3, <1>9, <2>1, <2>3, JobGoesOn
  <2>4. QED BY <2>2, <2>3
<1>10. ASSUME NEW p \in Hosts, Grant(p)
       PROVE  SeatInv' /\ SeatOnce'
  <2>1. /\ job[p] # None /\ job[p].step = "finish" /\ UNCHANGED clock /\ queue[p] # <<>>
        /\ Settle(p) /\ granted' = Append(granted, New(p)) /\ New(p) \in SUBSET Records
        /\ \A e \in New(p) : /\ e.at = job[p].at /\ e.session = Request(p).session
                              /\ e.address \in Request(p).addresses
    BY <1>10, JobFacts DEF Grant, At
  <2>2. \A i \in DOMAIN granted' :
          \/ i = Len(granted) + 1 /\ granted'[i] = New(p)
          \/ i \in DOMAIN granted /\ granted'[i] = granted[i]
    BY <1>0, <2>1, AppendProperties
  <2>3. \A e \in New(p) : Opens[e.session] <= e.at
    BY <2>1 DEF SeatInv
  <2>4. SeatInv'
    BY <1>2, <2>1, <2>2, <2>3 DEF SeatInv
  <2>5. \A i \in DOMAIN granted : \A e \in granted[i], f \in New(p) :
          e.session = f.session => e.address # f.address
    BY <2>1 DEF SeatInv
  <2>6. SeatOnce'
    BY <2>2, <2>5 DEF SeatOnce
  <2>7. QED BY <2>4, <2>6
<1>11. ASSUME NEW p \in Hosts, FailAppend(p) \/ FailStage(p) \/ RefuseDurable(p)
       PROVE  SeatInv' /\ SeatOnce'
  BY <1>7, <1>11 DEF FailAppend, FailStage, RefuseDurable, At
<1>12. ASSUME NEW p \in Hosts, Crash(p)
       PROVE  SeatInv' /\ SeatOnce'
  <2>1. /\ queue'[p] = <<>> /\ job'[p] = None /\ UNCHANGED <<clock, granted>>
    BY <1>0, <1>12 DEF Crash
  <2>2. DOMAIN queue'[p] = {} /\ Unread(p)' = {}
    BY <2>1 DEF Unread
  <2>3. SeatInv'
    BY <2>1, <2>2 DEF SeatInv, OneHost
  <2>4. QED BY <2>1, <2>3 DEF SeatOnce
<1>13. CASE UNCHANGED vars
  BY <1>13 DEF vars, SeatInv, SeatOnce, Request, Unread, At
<1>14. QED
  BY <1>4, <1>5, <1>6, <1>8, <1>9, <1>10, <1>11, <1>12, <1>13 DEF Next, Serve

\* At the start nothing is asked for, and nothing is granted twice.
LEMMA SeatInit ==
  ASSUME InitFresh, Init
  PROVE  SeatInv /\ SeatOnce
<1>1. granted = <<ledger.records>> /\ ledger.records \in InitLedgers
  BY DEF Init
<1>2. DOMAIN granted = {1} /\ granted[1] \in InitLedgers
  BY <1>1
<1>3. \A p \in Hosts : job[p] = None /\ DOMAIN queue[p] = {} /\ Unread(p) = {}
  BY DEF Init, Unread
<1>4. QED BY <1>2, <1>3 DEF SeatInv, SeatOnce, InitFresh

\* A single host process grants no seat of a session twice, although records are
\* dropped from the ledger and calls are refused after their records were written.
THEOREM SeatsGrantedOnce ==
  ASSUME OneHost, InitFresh
  PROVE  Spec => []SeatOnce
<1>1. Init => SeatInv /\ SeatOnce
  BY SeatInit
<1>2. TypeOK /\ GrantsCounted /\ SeatInv /\ SeatOnce /\ [Next]_vars => SeatInv' /\ SeatOnce'
  BY SeatStep
<1>3. QED BY <1>1, <1>2, BudgetTypes, GrantsStayCounted, PTL DEF Spec

----------------------------------------------------------------------------
(* Sums over finite sets                                                   *)

\* A finite set's family of subsets has a least member.
LEMMA LeastSet ==
  ASSUME NEW X, IsFiniteSet(X), NEW T \in SUBSET (SUBSET X), T # {}
  PROVE  \E A \in T : \A B \in T : B \subseteq A => B = A
<1>1. IsWellFoundedOn(StrictSubsetOrdering(X), SUBSET X)
  BY FS_StrictSubsetOrderingWellFounded, FS_FiniteSubsetsOfFinite
<1>2. PICK A \in T : \A B \in T : ~(<<B, A>> \in StrictSubsetOrdering(X))
  BY <1>1, WFMin
<1>3. QED BY <1>2 DEF StrictSubsetOrdering

\* The element with which a sum goes on.
Pick(s) == CHOOSE x \in s : TRUE

\* f gives the sum of the weights w of every subset of S, as a fold computes it.
Sums(f, w, S) ==
  f = [s \in SUBSET S |-> IF s = {} THEN 0 ELSE w[Pick(s)] + f[s \ {Pick(s)}]]

\* What such a family of sums is, set by set.
LEMMA SumsAre ==
  ASSUME NEW f, NEW w, NEW S, Sums(f, w, S)
  PROVE  /\ f[{}] = 0
         /\ \A s \in SUBSET S : s # {} =>
              /\ Pick(s) \in s /\ s \ {Pick(s)} \in SUBSET S
              /\ f[s] = w[Pick(s)] + f[s \ {Pick(s)}]
<1>1. \A s : s # {} => Pick(s) \in s
  BY DEF Pick
<1>2. {} \in SUBSET S
  OBVIOUS
<1>3. \A s \in SUBSET S : f[s] = IF s = {} THEN 0 ELSE w[Pick(s)] + f[s \ {Pick(s)}]
  BY DEF Sums
<1>4. QED BY <1>1, <1>2, <1>3

\* The sum of a set does not depend on what it is taken from.
LEMMA SumsAgree ==
  ASSUME NEW S, NEW T, IsFiniteSet(S), S \subseteq T, NEW w,
         NEW f, NEW g, Sums(f, w, S), Sums(g, w, T)
  PROVE  \A s \in SUBSET S : f[s] = g[s]
<1> DEFINE D == {x \in SUBSET S : f[x] # g[x]}
<1>1. SUFFICES ASSUME D # {} PROVE FALSE
  OBVIOUS
<1>2. D \in SUBSET (SUBSET S)
  OBVIOUS
<1> HIDE DEF D
<1>3. PICK d \in D : \A e \in D : e \subseteq d => e = d
  BY <1>1, <1>2, LeastSet
<1>4. d \in SUBSET S /\ d \in SUBSET T /\ f[d] # g[d]
  BY <1>3 DEF D
<1>5. d # {}
  BY <1>4, SumsAre
<1>6. PICK p : p = Pick(d)
  OBVIOUS
<1>7. p \in d /\ f[d] = w[p] + f[d \ {p}] /\ g[d] = w[p] + g[d \ {p}]
  BY <1>4, <1>5, <1>6, SumsAre
<1>8. d \ {p} \notin D
  BY <1>3, <1>7
<1>9. f[d \ {p}] = g[d \ {p}]
  BY <1>4, <1>8 DEF D
<1>10. QED BY <1>4, <1>7, <1>9

\* Only the weights in the set matter.
LEMMA SumsAlike ==
  ASSUME NEW S, NEW w, NEW v, \A x \in S : v[x] = w[x], NEW f
  PROVE  Sums(f, v, S) <=> Sums(f, w, S)
<1>1. \A s \in SUBSET S : s # {} => v[Pick(s)] = w[Pick(s)]
  <2>1. \A s : s # {} => Pick(s) \in s
    BY DEF Pick
  <2>2. QED BY <2>1
<1>2. [s \in SUBSET S |-> IF s = {} THEN 0 ELSE v[Pick(s)] + f[s \ {Pick(s)}]]
    = [s \in SUBSET S |-> IF s = {} THEN 0 ELSE w[Pick(s)] + f[s \ {Pick(s)}]]
  BY <1>1
<1>3. QED BY <1>2 DEF Sums

\* Every finite set has its sums.
LEMMA SumsExist ==
  ASSUME NEW S, IsFiniteSet(S), NEW w
  PROVE  \E f : Sums(f, w, S)
<1> DEFINE D == {x \in SUBSET S : ~\E f : Sums(f, w, x)}
<1>1. SUFFICES ASSUME D # {} PROVE FALSE
  <2>1. S \in SUBSET S
    OBVIOUS
  <2>2. QED BY <2>1
<1>2. D \in SUBSET (SUBSET S)
  OBVIOUS
<1> HIDE DEF D
<1>3. PICK A \in D : \A B \in D : B \subseteq A => B = A
  BY <1>1, <1>2, LeastSet
<1>4. A \in SUBSET S /\ ~\E f : Sums(f, w, A)
  BY <1>3 DEF D
<1>5. \A B \in SUBSET A : B # A => \E f : Sums(f, w, B)
  BY <1>3, <1>4 DEF D
<1> DEFINE sum(B) == CHOOSE f : Sums(f, w, B)
           total(B) == sum(B)[B]
           g == [s \in SUBSET A |-> IF s = {} THEN 0 ELSE w[Pick(s)] + total(s \ {Pick(s)})]
<1>6. \A B \in SUBSET A : B # A => Sums(sum(B), w, B)
  BY <1>5
<1> HIDE DEF sum
<1>7. ASSUME NEW B \in SUBSET A, B # A PROVE g[B] = total(B)
  <2>1. Sums(sum(B), w, B) /\ B \in SUBSET B
    BY <1>6, <1>7
  <2>2. CASE B = {}
    BY <2>1, <2>2, SumsAre
  <2>3. CASE B # {}
    <3>1. PICK p : p = Pick(B)
      OBVIOUS
    <3>2. p \in B /\ sum(B)[B] = w[p] + sum(B)[B \ {p}]
      BY <2>1, <2>3, <3>1, SumsAre
    <3>3. Sums(sum(B \ {p}), w, B \ {p})
      <4>1. B \ {p} \in SUBSET A /\ B \ {p} # A
        BY <1>7, <3>2
      <4>2. QED BY <1>6, <4>1
    <3>4. IsFiniteSet(B \ {p})
      <4>1. B \ {p} \in SUBSET S
        BY <1>4, <1>7
      <4>2. QED BY <4>1, FS_Subset
    <3>5. sum(B \ {p})[B \ {p}] = sum(B)[B \ {p}]
      <4>1. PICK C : C = B \ {p}
        OBVIOUS
      <4>2. Sums(sum(C), w, C) /\ Sums(sum(B), w, B) /\ C \in SUBSET C /\ C \in SUBSET B
            /\ IsFiniteSet(C)
        BY <2>1, <3>3, <3>4, <4>1
      <4>3. sum(C)[C] = sum(B)[C]
        BY <4>2, SumsAgree
      <4>4. QED BY <4>1, <4>3
    <3>6. QED BY <1>7, <2>3, <3>1, <3>2, <3>5
  <2>4. QED BY <2>2, <2>3
<1>8. \A s \in SUBSET A : s # {} => g[s \ {Pick(s)}] = total(s \ {Pick(s)})
  <2>1. SUFFICES ASSUME NEW s \in SUBSET A, s # {} PROVE g[s \ {Pick(s)}] = total(s \ {Pick(s)})
    OBVIOUS
  <2>2. Pick(s) \in s
    BY <2>1 DEF Pick
  <2>3. s \ {Pick(s)} \in SUBSET A /\ s \ {Pick(s)} # A
    BY <2>1, <2>2
  <2> HIDE DEF g, total
  <2>4. QED BY <1>7, <2>3
<1>9. g = [s \in SUBSET A |-> IF s = {} THEN 0 ELSE w[Pick(s)] + g[s \ {Pick(s)}]]
  <2>1. \A s \in SUBSET A : (IF s = {} THEN 0 ELSE w[Pick(s)] + total(s \ {Pick(s)}))
                          = (IF s = {} THEN 0 ELSE w[Pick(s)] + g[s \ {Pick(s)}])
    BY <1>8
  <2>2. g = [s \in SUBSET A |-> IF s = {} THEN 0 ELSE w[Pick(s)] + total(s \ {Pick(s)})]
    OBVIOUS
  <2> HIDE DEF g, total
  <2>3. QED BY <2>1, <2>2
<1> HIDE DEF g
<1>10. Sums(g, w, A)
  BY <1>9 DEF Sums
<1>11. QED BY <1>4, <1>10

\* The sum of the weights w over S.
SumOf(w, S) == (CHOOSE f : Sums(f, w, S))[S]

\* A sum is the same wherever it is looked up.
LEMMA SumIs ==
  ASSUME NEW T, IsFiniteSet(T), NEW S \in SUBSET T, NEW w, NEW f, Sums(f, w, T)
  PROVE  SumOf(w, S) = f[S]
<1>1. IsFiniteSet(S) /\ S \in SUBSET S
  BY FS_Subset
<1>2. PICK h : h = CHOOSE g : Sums(g, w, S)
  OBVIOUS
<1>3. Sums(h, w, S)
  BY <1>1, <1>2, SumsExist
<1>4. h[S] = f[S]
  BY <1>1, <1>3, SumsAgree
<1>5. QED BY <1>2, <1>4 DEF SumOf

\* Weights that agree on a set have the same sum.
LEMMA SumSame ==
  ASSUME NEW S, NEW w, NEW v, \A x \in S : v[x] = w[x]
  PROVE  SumOf(w, S) = SumOf(v, S)
<1>1. \A f : Sums(f, v, S) <=> Sums(f, w, S)
  BY SumsAlike
<1>2. (CHOOSE f : Sums(f, v, S)) = (CHOOSE f : Sums(f, w, S))
  BY <1>1
<1>3. QED BY <1>2 DEF SumOf

\* The empty sum is zero.
LEMMA SumEmpty == \A w : SumOf(w, {}) = 0
<1>1. SUFFICES ASSUME NEW w PROVE SumOf(w, {}) = 0
  OBVIOUS
<1>2. IsFiniteSet({})
  BY FS_EmptySet
<1>3. PICK f : Sums(f, w, {})
  BY <1>2, SumsExist
<1>4. {} \in SUBSET {}
  OBVIOUS
<1>5. SumOf(w, {}) = f[{}]
  BY <1>2, <1>3, <1>4, SumIs
<1>6. QED BY <1>3, <1>5, SumsAre

\* What a sum is, whichever element is taken first.
LEMMA SumNat ==
  ASSUME NEW S, IsFiniteSet(S), NEW w, \A x \in S : w[x] \in Nat
  PROVE  SumOf(w, S) \in Nat
<1>1. PICK f : Sums(f, w, S)
  BY SumsExist
<1> DEFINE D == {x \in SUBSET S : f[x] \notin Nat}
<1>2. ASSUME D # {} PROVE FALSE
  <2>1. D \in SUBSET (SUBSET S)
    OBVIOUS
  <2> HIDE DEF D
  <2>2. PICK d \in D : \A e \in D : e \subseteq d => e = d
    BY <1>2, <2>1, LeastSet
  <2>3. d \in SUBSET S /\ f[d] \notin Nat
    BY <2>2 DEF D
  <2>4. d # {}
    BY <1>1, <2>3, SumsAre
  <2>5. PICK p : p = Pick(d)
    OBVIOUS
  <2>6. p \in d /\ f[d] = w[p] + f[d \ {p}] /\ w[p] \in Nat
    BY <1>1, <2>3, <2>4, <2>5, SumsAre
  <2>7. d \ {p} \notin D
    BY <2>2, <2>6
  <2>8. f[d \ {p}] \in Nat
    BY <2>3, <2>7 DEF D
  <2>9. QED BY <2>3, <2>6, <2>8
<1>3. S \in SUBSET S
  OBVIOUS
<1>4. f[S] \in Nat
  BY <1>2, <1>3
<1>5. QED BY <1>1, <1>3, <1>4, SumIs

\* Any element may be taken out of a sum first.
LEMMA SumTakes ==
  ASSUME NEW S, IsFiniteSet(S), NEW w, \A x \in S : w[x] \in Nat, NEW a \in S
  PROVE  SumOf(w, S) = w[a] + SumOf(w, S \ {a})
<1>1. PICK f : Sums(f, w, S)
  BY SumsExist
<1>2. ASSUME NEW s \in SUBSET S PROVE f[s] = SumOf(w, s) /\ f[s] \in Nat
  <2>1. IsFiniteSet(s) /\ \A x \in s : w[x] \in Nat
    BY FS_Subset
  <2>2. SumOf(w, s) = f[s]
    BY <1>1, <2>1, SumIs
  <2>3. QED BY <2>1, <2>2, SumNat
<1> DEFINE D == {s \in SUBSET S : \E x \in s : f[s] # w[x] + f[s \ {x}]}
<1>3. ASSUME D # {} PROVE FALSE
  <2>1. D \in SUBSET (SUBSET S)
    OBVIOUS
  <2> HIDE DEF D
  <2>2. PICK d \in D : \A e \in D : e \subseteq d => e = d
    BY <1>3, <2>1, LeastSet
  <2>3. PICK x \in d : f[d] # w[x] + f[d \ {x}]
    BY <2>2 DEF D
  <2>4. PICK p : p = Pick(d)
    OBVIOUS
  <2>5. d \in SUBSET S /\ d # {} /\ p \in d /\ f[d] = w[p] + f[d \ {p}]
    <3>1. d \in SUBSET S /\ d # {}
      BY <2>2, <2>3 DEF D
    <3>2. QED BY <1>1, <2>4, <3>1, SumsAre
  <2>6. x # p
    BY <2>3, <2>5
  <2>7. d \ {p} \notin D /\ d \ {x} \notin D /\ d \ {p} \in SUBSET S /\ d \ {x} \in SUBSET S
    BY <2>2, <2>3, <2>5
  <2>8. /\ f[d \ {p}] = w[x] + f[(d \ {p}) \ {x}]
        /\ f[d \ {x}] = w[p] + f[(d \ {x}) \ {p}]
    BY <2>3, <2>5, <2>6, <2>7 DEF D
  <2>9. PICK rest : rest = (d \ {p}) \ {x}
    OBVIOUS
  <2>10. rest = (d \ {x}) \ {p} /\ rest \in SUBSET S
    BY <2>5, <2>9
  <2>11. f[rest] \in Nat /\ w[x] \in Nat /\ w[p] \in Nat
    BY <1>2, <2>3, <2>5, <2>10
  <2>12. QED BY <2>3, <2>5, <2>8, <2>9, <2>10, <2>11
<1>4. S \in SUBSET S /\ S \ {a} \in SUBSET S
  OBVIOUS
<1>5. f[S] = w[a] + f[S \ {a}]
  BY <1>3, <1>4
<1>6. QED BY <1>2, <1>4, <1>5

\* Sums over disjoint sets add up.
LEMMA SumAdds ==
  ASSUME NEW T, IsFiniteSet(T), NEW w, \A x \in T : w[x] \in Nat,
         NEW A \in SUBSET T, NEW B \in SUBSET T, A \cap B = {}
  PROVE  SumOf(w, A \cup B) = SumOf(w, A) + SumOf(w, B)
<1>1. \A s \in SUBSET T : IsFiniteSet(s) /\ SumOf(w, s) \in Nat
  <2>1. SUFFICES ASSUME NEW s \in SUBSET T PROVE IsFiniteSet(s) /\ SumOf(w, s) \in Nat
    OBVIOUS
  <2>2. IsFiniteSet(s) /\ \A x \in s : w[x] \in Nat
    BY FS_Subset
  <2>3. QED BY <2>2, SumNat
<1> DEFINE D == {s \in SUBSET A : SumOf(w, s \cup B) # SumOf(w, s) + SumOf(w, B)}
<1>2. ASSUME D # {} PROVE FALSE
  <2>1. D \in SUBSET (SUBSET A) /\ IsFiniteSet(A)
    BY <1>1
  <2> HIDE DEF D
  <2>2. PICK d \in D : \A e \in D : e \subseteq d => e = d
    BY <1>2, <2>1, LeastSet
  <2>3. d \in SUBSET A /\ SumOf(w, d \cup B) # SumOf(w, d) + SumOf(w, B)
    BY <2>2 DEF D
  <2>4. d # {}
    <3>1. SUFFICES ASSUME d = {} PROVE FALSE
      OBVIOUS
    <3>2. d \cup B = B /\ SumOf(w, d) = 0 /\ SumOf(w, B) \in Nat
      BY <1>1, <3>1, SumEmpty
    <3>3. SumOf(w, d \cup B) = SumOf(w, B)
      BY <3>2
    <3>4. SumOf(w, d) + SumOf(w, B) = SumOf(w, B)
      BY <3>2
    <3>5. QED BY <2>3, <3>3, <3>4
  <2>5. PICK a : a \in d
    BY <2>4
  <2>6. PICK less : less = d \ {a}
    OBVIOUS
  <2>7. less \notin D /\ less \in SUBSET A
    BY <2>2, <2>3, <2>5, <2>6
  <2>8. SumOf(w, less \cup B) = SumOf(w, less) + SumOf(w, B)
    BY <2>7 DEF D
  <2>9. d \in SUBSET T /\ d \cup B \in SUBSET T /\ a \in d \cup B /\ (d \cup B) \ {a} = less \cup B
    BY <2>3, <2>5, <2>6
  <2>10. SumOf(w, d) = w[a] + SumOf(w, less)
    BY <1>1, <2>5, <2>6, <2>9, SumTakes
  <2>11. SumOf(w, d \cup B) = w[a] + SumOf(w, less \cup B)
    BY <1>1, <2>9, SumTakes
  <2>12. /\ w[a] \in Nat /\ SumOf(w, less) \in Nat /\ SumOf(w, B) \in Nat
    BY <1>1, <2>5, <2>7, <2>9
  <2>13. QED BY <2>3, <2>8, <2>10, <2>11, <2>12
<1>3. A \in SUBSET A
  OBVIOUS
<1>4. QED BY <1>2, <1>3

\* A larger set has no smaller sum, and a union no more than both sums.
LEMMA SumMonotone ==
  ASSUME NEW T, IsFiniteSet(T), NEW w, \A x \in T : w[x] \in Nat,
         NEW A \in SUBSET T, NEW B \in SUBSET T
  PROVE  /\ SumOf(w, A) \in Nat /\ SumOf(w, B) \in Nat /\ SumOf(w, A \cup B) \in Nat
         /\ A \subseteq B => SumOf(w, A) <= SumOf(w, B)
         /\ SumOf(w, A \cup B) <= SumOf(w, A) + SumOf(w, B)
<1>1. \A s \in SUBSET T : SumOf(w, s) \in Nat
  <2>1. SUFFICES ASSUME NEW s \in SUBSET T PROVE SumOf(w, s) \in Nat
    OBVIOUS
  <2>2. IsFiniteSet(s) /\ \A x \in s : w[x] \in Nat
    BY FS_Subset
  <2>3. QED BY <2>2, SumNat
<1>2. PICK more : more = B \ A
  OBVIOUS
<1>3. more \in SUBSET T /\ A \cap more = {} /\ A \cup more = A \cup B /\ A \cup B \in SUBSET T
  BY <1>2
<1>4. SumOf(w, A \cup B) = SumOf(w, A) + SumOf(w, more)
  BY <1>3, SumAdds
<1>5. PICK both : both = A \cap B
  OBVIOUS
<1>6. both \in SUBSET T /\ both \cap more = {} /\ both \cup more = B
  BY <1>2, <1>5
<1>7. SumOf(w, B) = SumOf(w, both) + SumOf(w, more)
  BY <1>3, <1>6, SumAdds
<1>8. /\ SumOf(w, A) \in Nat /\ SumOf(w, more) \in Nat /\ SumOf(w, both) \in Nat
      /\ SumOf(w, B) \in Nat /\ SumOf(w, A \cup B) \in Nat
  BY <1>1, <1>3, <1>6
<1>9. A \subseteq B => A \cup B = B
  OBVIOUS
<1>10. QED BY <1>4, <1>7, <1>8, <1>9

----------------------------------------------------------------------------
(* Induction                                                                *)

\* A set of numbers has a least one.
LEMMA Least ==
  ASSUME NEW T, T \subseteq Nat, T # {}
  PROVE  \E x \in T : \A y \in T : x <= y
<1> DEFINE R == OpToRel(<, Nat)
<1>1. IsWellFoundedOn(R, Nat)
  BY NatLessThanWellFounded
<1> HIDE DEF R
<1>2. PICK x \in T : \A y \in T : ~ (<<y, x>> \in R)
  BY <1>1, WFMin
<1>3. \A y \in T : ~(y < x)
  BY <1>2 DEF R, OpToRel
<1>4. QED BY <1>3

\* Induction, for a set.
LEMMA Inducts ==
  ASSUME NEW S, 0 \in S, \A n \in Nat : n \in S => n + 1 \in S
  PROVE  \A n \in Nat : n \in S
<1> DEFINE T == {n \in Nat : n \notin S}
<1>1. SUFFICES ASSUME T # {}
               PROVE  FALSE
  OBVIOUS
<1>2. T \subseteq Nat
  OBVIOUS
<1> HIDE DEF T
<1>3. PICK x \in T : \A y \in T : x <= y
  BY <1>1, <1>2, Least
<1> USE DEF T
<1>4. x \in Nat /\ x \notin S /\ x # 0
  OBVIOUS
<1>5. x - 1 \in Nat /\ (x - 1) + 1 = x
  BY <1>4
<1>6. x - 1 \notin S
  BY <1>4, <1>5
<1>7. x - 1 \in T
  BY <1>5, <1>6
<1>8. QED BY <1>3, <1>4, <1>7

----------------------------------------------------------------------------
(* The cents of records, and of what was granted                           *)

\* What a record costs.
Worth == [e \in Records |-> e.cents]

\* The cents of a set of records, which the code adds up in a loop, are a sum.
LEMMA CentsIs ==
  ASSUME NEW S \in SUBSET Records
  PROVE  Cents(S) = SumOf(Worth, S)
<1> DEFINE step(f) == [s \in SUBSET S |-> IF s = {} THEN 0 ELSE Pick(s).cents + f[s \ {Pick(s)}]]
<1>1. Cents(S) = (CHOOSE f : f = step(f))[S]
  BY DEF Cents, MapThenSumSet, MapThenFoldSet, Pick
<1>2. \A s \in SUBSET S : s # {} => Pick(s).cents = Worth[Pick(s)]
  <2>1. \A s : s # {} => Pick(s) \in s
    BY DEF Pick
  <2>2. QED BY <2>1 DEF Worth
<1>3. ASSUME NEW f PROVE f = step(f) <=> Sums(f, Worth, S)
  BY <1>2 DEF Sums
<1> HIDE DEF step
<1>4. (CHOOSE f : f = step(f)) = (CHOOSE f : Sums(f, Worth, S))
  BY <1>3
<1>5. QED BY <1>1, <1>4 DEF SumOf

\* The records of the hours, days and sessions a ceiling is about.
HourOf(t)    == {e \in Records : t - Hour < e.at /\ e.at <= t}
DayOf(t)     == {e \in Records : DayStart(t) = DayStart(e.at)}
SessionOf(s) == {e \in Records : e.session = s}

\* What each grant takes of them.
Parts(W) == [i \in DOMAIN granted |-> Cents(granted[i] \cap W)]

\* What is spent in a window is the sum of what the grants take of it.
LEMMA SpentIs ==
  ASSUME TypeOK
  PROVE  /\ \A t : Spent(LAMBDA e : t - Hour < e.at /\ e.at <= t)
                     = SumOf(Parts(HourOf(t)), DOMAIN granted)
         /\ \A t : Spent(LAMBDA e : DayStart(t) = DayStart(e.at))
                     = SumOf(Parts(DayOf(t)), DOMAIN granted)
         /\ \A s : Spent(LAMBDA e : e.session = s)
                     = SumOf(Parts(SessionOf(s)), DOMAIN granted)
<1> DEFINE D == DOMAIN granted
<1>0. \A i \in D : granted[i] \subseteq Records
  BY DEF TypeOK
<1>p. \A s \in SUBSET D : s # {} => Pick(s) \in D
  <2>1. \A s : s # {} => Pick(s) \in s
    BY DEF Pick
  <2>2. QED BY <2>1
<1>1. ASSUME NEW t
      PROVE  Spent(LAMBDA e : t - Hour < e.at /\ e.at <= t) = SumOf(Parts(HourOf(t)), D)
  <2> DEFINE take(i) == Cents({e \in granted[i] : t - Hour < e.at /\ e.at <= t})
             step(f) == [s \in SUBSET D |-> IF s = {} THEN 0 ELSE take(Pick(s)) + f[s \ {Pick(s)}]]
  <2>1. Spent(LAMBDA e : t - Hour < e.at /\ e.at <= t) = (CHOOSE f : f = step(f))[D]
    BY DEF Spent, MapThenSumSet, MapThenFoldSet, Pick
  <2>2. \A i \in D : take(i) = Parts(HourOf(t))[i]
    <3>1. \A i \in D : {e \in granted[i] : t - Hour < e.at /\ e.at <= t} = granted[i] \cap HourOf(t)
      BY <1>0 DEF HourOf
    <3>2. QED BY <3>1 DEF Parts
  <2> HIDE DEF take, D
  <2>3. ASSUME NEW f PROVE f = step(f) <=> Sums(f, Parts(HourOf(t)), D)
    BY <1>p, <2>2 DEF Sums
  <2> HIDE DEF step
  <2>4. (CHOOSE f : f = step(f)) = (CHOOSE f : Sums(f, Parts(HourOf(t)), D))
    BY <2>3
  <2>5. QED BY <2>1, <2>4 DEF SumOf
<1>2. ASSUME NEW t
      PROVE  Spent(LAMBDA e : DayStart(t) = DayStart(e.at)) = SumOf(Parts(DayOf(t)), D)
  <2> DEFINE take(i) == Cents({e \in granted[i] : DayStart(t) = DayStart(e.at)})
             step(f) == [s \in SUBSET D |-> IF s = {} THEN 0 ELSE take(Pick(s)) + f[s \ {Pick(s)}]]
  <2>1. Spent(LAMBDA e : DayStart(t) = DayStart(e.at)) = (CHOOSE f : f = step(f))[D]
    BY DEF Spent, MapThenSumSet, MapThenFoldSet, Pick
  <2>2. \A i \in D : take(i) = Parts(DayOf(t))[i]
    <3>1. \A i \in D : {e \in granted[i] : DayStart(t) = DayStart(e.at)} = granted[i] \cap DayOf(t)
      BY <1>0 DEF DayOf
    <3>2. QED BY <3>1 DEF Parts
  <2> HIDE DEF take, D
  <2>3. ASSUME NEW f PROVE f = step(f) <=> Sums(f, Parts(DayOf(t)), D)
    BY <1>p, <2>2 DEF Sums
  <2> HIDE DEF step
  <2>4. (CHOOSE f : f = step(f)) = (CHOOSE f : Sums(f, Parts(DayOf(t)), D))
    BY <2>3
  <2>5. QED BY <2>1, <2>4 DEF SumOf
<1>3. ASSUME NEW t
      PROVE  Spent(LAMBDA e : e.session = t) = SumOf(Parts(SessionOf(t)), D)
  <2> DEFINE take(i) == Cents({e \in granted[i] : e.session = t})
             step(f) == [s \in SUBSET D |-> IF s = {} THEN 0 ELSE take(Pick(s)) + f[s \ {Pick(s)}]]
  <2>1. Spent(LAMBDA e : e.session = t) = (CHOOSE f : f = step(f))[D]
    BY DEF Spent, MapThenSumSet, MapThenFoldSet, Pick
  <2>2. \A i \in D : take(i) = Parts(SessionOf(t))[i]
    <3>1. \A i \in D : {e \in granted[i] : e.session = t} = granted[i] \cap SessionOf(t)
      BY <1>0 DEF SessionOf
    <3>2. QED BY <3>1 DEF Parts
  <2> HIDE DEF take, D
  <2>3. ASSUME NEW f PROVE f = step(f) <=> Sums(f, Parts(SessionOf(t)), D)
    BY <1>p, <2>2 DEF Sums
  <2> HIDE DEF step
  <2>4. (CHOOSE f : f = step(f)) = (CHOOSE f : Sums(f, Parts(SessionOf(t)), D))
    BY <2>3
  <2>5. QED BY <2>1, <2>4 DEF SumOf
<1>4. QED BY <1>1, <1>2, <1>3

\* What was granted, all together.
Granted == UNION {granted[i] : i \in DOMAIN granted}

\* No record was granted twice.
Apart == \A i, j \in DOMAIN granted : i # j => granted[i] \cap granted[j] = {}

\* A record's cents are a number.
LEMMA WorthNat ==
  ASSUME NEW S \in SUBSET Records
  PROVE  \A e \in S : Worth[e] \in Nat
BY DEF Worth, Records

\* How the cents of two sets of records and of their union compare.
LEMMA CentsAdd ==
  ASSUME IsFiniteSet(Records), NEW A \in SUBSET Records, NEW B \in SUBSET Records
  PROVE  /\ Cents(A) \in Nat /\ Cents(B) \in Nat /\ Cents(A \cup B) \in Nat
         /\ A \subseteq B => Cents(A) <= Cents(B)
         /\ Cents(A \cup B) <= Cents(A) + Cents(B)
         /\ A \cap B = {} => Cents(A \cup B) = Cents(A) + Cents(B)
<1>1. \A x \in Records : Worth[x] \in Nat
  BY WorthNat
<1>2. A \cup B \in SUBSET Records
  OBVIOUS
<1>3. /\ Cents(A) = SumOf(Worth, A) /\ Cents(B) = SumOf(Worth, B)
      /\ Cents(A \cup B) = SumOf(Worth, A \cup B)
  BY <1>2, CentsIs
<1>4. A \cap B = {} => SumOf(Worth, A \cup B) = SumOf(Worth, A) + SumOf(Worth, B)
  BY <1>1, SumAdds
<1>5. /\ SumOf(Worth, A) \in Nat /\ SumOf(Worth, B) \in Nat /\ SumOf(Worth, A \cup B) \in Nat
      /\ A \subseteq B => SumOf(Worth, A) <= SumOf(Worth, B)
      /\ SumOf(Worth, A \cup B) <= SumOf(Worth, A) + SumOf(Worth, B)
  BY <1>1, SumMonotone
<1>6. QED BY <1>3, <1>4, <1>5

\* Grants that have no record in common spend what their union is worth.
LEMMA PartsAddUp ==
  ASSUME TypeOK, Apart, IsFiniteSet(Records), NEW W \in SUBSET Records
  PROVE  SumOf(Parts(W), DOMAIN granted) = Cents(Granted \cap W)
<1> DEFINE n == Len(granted)
           first(k) == UNION {granted[i] : i \in 1 .. k}
           S == {k \in Nat : k <= n => SumOf(Parts(W), 1 .. k) = Cents(first(k) \cap W)}
<1>1. /\ granted \in Seq(SUBSET Records) /\ n \in Nat /\ DOMAIN granted = 1 .. n
      /\ \A i \in 1 .. n : granted[i] \in SUBSET Records
  BY DEF TypeOK
<1>2. \A A \in SUBSET Records : Cents(A) = SumOf(Worth, A) /\ Cents(A) \in Nat
  BY CentsIs, CentsAdd
<1>3. \A i \in 1 .. n : Parts(W)[i] = Cents(granted[i] \cap W) /\ Parts(W)[i] \in Nat
  BY <1>1, <1>2 DEF Parts
<1>4. 0 \in S
  <2>1. 1 .. 0 = {} /\ first(0) \cap W = {} /\ {} \in SUBSET Records
    OBVIOUS
  <2>2. SumOf(Parts(W), 1 .. 0) = 0 /\ Cents(first(0) \cap W) = 0
    BY <1>2, <2>1, SumEmpty
  <2>3. QED BY <2>2
<1>5. ASSUME NEW k \in Nat, k \in S PROVE k + 1 \in S
  <2>1. SUFFICES ASSUME k + 1 <= n
                 PROVE  SumOf(Parts(W), 1 .. (k + 1)) = Cents(first(k + 1) \cap W)
    OBVIOUS
  <2>2. SumOf(Parts(W), 1 .. k) = Cents(first(k) \cap W)
    BY <1>1, <1>5, <2>1
  <2>3. /\ k + 1 \in 1 .. (k + 1) /\ (1 .. (k + 1)) \ {k + 1} = 1 .. k
        /\ \A i \in 1 .. (k + 1) : i \in 1 .. n
    BY <1>1, <2>1
  <2>4. SumOf(Parts(W), 1 .. (k + 1)) = Parts(W)[k + 1] + SumOf(Parts(W), 1 .. k)
    <3>1. IsFiniteSet(1 .. (k + 1))
      BY FS_Interval
    <3>2. \A i \in 1 .. (k + 1) : Parts(W)[i] \in Nat
      BY <1>3, <2>3
    <3>3. SumOf(Parts(W), 1 .. (k + 1))
            = Parts(W)[k + 1] + SumOf(Parts(W), (1 .. (k + 1)) \ {k + 1})
      BY <2>3, <3>1, <3>2, SumTakes
    <3>4. QED BY <2>3, <3>3
  <2>5. first(k + 1) = first(k) \cup granted[k + 1]
    <3>1. \A i : i \in 1 .. (k + 1) <=> i \in 1 .. k \/ i = k + 1
      OBVIOUS
    <3>2. QED BY <3>1
  <2>6. first(k) \cap granted[k + 1] = {}
    <3>1. \A i \in 1 .. k : granted[i] \cap granted[k + 1] = {}
      <4>1. \A i \in 1 .. k : i \in DOMAIN granted /\ k + 1 \in DOMAIN granted /\ i # k + 1
        BY <1>1, <2>3
      <4>2. QED BY <4>1 DEF Apart
    <3>2. QED BY <3>1
  <2>7. first(k) \in SUBSET Records /\ granted[k + 1] \in SUBSET Records
    BY <1>1, <2>3
  <2>8. PICK A : A = first(k) \cap W
    OBVIOUS
  <2>9. PICK B : B = granted[k + 1] \cap W
    OBVIOUS
  <2>10. /\ A \in SUBSET Records /\ B \in SUBSET Records /\ A \cap B = {}
         /\ first(k + 1) \cap W = A \cup B /\ A \cup B \in SUBSET Records
    <3> HIDE DEF first
    <3>1. QED BY <2>5, <2>6, <2>7, <2>8, <2>9
  <2>11. SumOf(Worth, A \cup B) = SumOf(Worth, A) + SumOf(Worth, B)
    BY <2>10, WorthNat, SumAdds
  <2>12. Cents(first(k + 1) \cap W) = Cents(A) + Cents(B)
    BY <1>2, <2>10, <2>11
  <2>13. Parts(W)[k + 1] = Cents(B) /\ Cents(A) \in Nat /\ Cents(B) \in Nat
    BY <1>2, <1>3, <2>3, <2>9, <2>10
  <2> HIDE DEF first
  <2>14. QED BY <2>2, <2>4, <2>8, <2>12, <2>13
<1> HIDE DEF S
<1>6. n \in S
  BY <1>1, <1>4, <1>5, Inducts
<1>7. SumOf(Parts(W), 1 .. n) = Cents(first(n) \cap W)
  BY <1>6 DEF S
<1>8. QED BY <1>1, <1>7 DEF Granted

\* Sums of ones count.
LEMMA SumCounts ==
  ASSUME NEW S, IsFiniteSet(S), NEW w, \A x \in S : w[x] = 1
  PROVE  SumOf(w, S) = Cardinality(S)
<1> DEFINE D == {s \in SUBSET S : SumOf(w, s) # Cardinality(s)}
<1>1. ASSUME D # {} PROVE FALSE
  <2>1. D \in SUBSET (SUBSET S)
    OBVIOUS
  <2> HIDE DEF D
  <2>2. PICK d \in D : \A e \in D : e \subseteq d => e = d
    BY <1>1, <2>1, LeastSet
  <2>3. d \in SUBSET S /\ SumOf(w, d) # Cardinality(d)
    BY <2>2 DEF D
  <2>4. IsFiniteSet(d) /\ \A x \in d : w[x] \in Nat
    BY <2>3, FS_Subset
  <2>5. d # {}
    BY <2>3, SumEmpty, FS_EmptySet
  <2>6. PICK a : a \in d
    BY <2>5
  <2>7. d \ {a} \notin D
    BY <2>2, <2>6
  <2>8. SumOf(w, d \ {a}) = Cardinality(d \ {a})
    BY <2>3, <2>7 DEF D
  <2>9. SumOf(w, d) = w[a] + SumOf(w, d \ {a}) /\ w[a] = 1
    BY <2>3, <2>4, <2>6, SumTakes
  <2>10. Cardinality(d \ {a}) = Cardinality(d) - 1 /\ Cardinality(d) \in Nat
    BY <2>4, <2>6, FS_RemoveElement, FS_CardinalityType
  <2>11. QED BY <2>3, <2>8, <2>9, <2>10
<1>2. S \in SUBSET S
  OBVIOUS
<1>3. QED BY <1>1, <1>2

\* There are finitely many sessions and session keys.
FiniteWorld == IsFiniteSet(Sessions) /\ IsFiniteSet(Addresses)

\* With finitely many sessions and addresses there are finitely many records.
LEMMA RecordsFinite ==
  ASSUME FiniteWorld
  PROVE  IsFiniteSet(Records)
<1> DEFINE X == (Sessions \X Addresses) \X ({1, 2} \X Time)
           f == [x \in X |-> [session |-> x[1][1], address |-> x[1][2],
                              cents |-> x[2][1], at |-> x[2][2]]]
<1>1. IsFiniteSet({1, 2}) /\ IsFiniteSet(Time)
  <2>1. MaxTime \in Int /\ 0 \in Int /\ 1 \in Int /\ 2 \in Int
    BY FundingAssumption
  <2>2. IsFiniteSet(1 .. 2)
    BY <2>1, FS_Interval
  <2>3. IsFiniteSet(0 .. MaxTime)
    BY <2>1, FS_Interval
  <2>4. {1, 2} = 1 .. 2
    OBVIOUS
  <2>5. QED BY <2>2, <2>3, <2>4 DEF Time
<1>2. IsFiniteSet(X)
  <2>1. IsFiniteSet(Sessions \X Addresses) /\ IsFiniteSet({1, 2} \X Time)
    BY <1>1, FS_Product DEF FiniteWorld
  <2>2. QED BY <2>1, FS_Product
<1>3. f \in [X -> Records]
  BY DEF Records
<1>4. ASSUME NEW e \in Records PROVE \E x \in X : f[x] = e
  <2>1. PICK x : x = <<<<e.session, e.address>>, <<e.cents, e.at>>>>
    OBVIOUS
  <2>2. x \in X
    BY <2>1 DEF Records
  <2>3. f[x] = e
    BY <2>1, <2>2 DEF Records
  <2>4. QED BY <2>2, <2>3
<1> HIDE DEF f, X
<1>5. f \in Surjection(X, Records)
  BY <1>3, <1>4 DEF Surjection
<1>6. QED BY <1>2, <1>5, FS_Surjection

\* A reservation costs a seat an address.
LEMMA NewCents ==
  ASSUME FiniteWorld, TypeOK, NEW p \in Hosts, job[p] # None
  PROVE  /\ Cardinality(Request(p).addresses) \in Nat
         /\ Cents(New(p)) \in Nat
         /\ Cents(New(p)) <= SeatCents * Cardinality(Request(p).addresses)
<1> DEFINE A == Request(p).addresses
           f == [a \in A |-> [session |-> Request(p).session, address |-> a,
                              cents |-> SeatCents, at |-> job[p].at]]
<1>1. New(p) \in SUBSET Records /\ A \in SUBSET Addresses /\ IsFiniteSet(Records)
      /\ \A e \in New(p) : e.cents = 1
  BY JobFacts, RecordsFinite, FundingAssumption DEF Calls
<1>2. IsFiniteSet(A) /\ IsFiniteSet(New(p))
  BY <1>1, FS_Subset DEF FiniteWorld
<1>3. New(p) = {f[a] : a \in A}
  BY DEF New, Additions
<1> HIDE DEF A
<1>4. f \in Surjection(A, New(p))
  <2>1. f \in [A -> New(p)]
    BY <1>3
  <2> HIDE DEF f
  <2>2. QED BY <1>3, <2>1 DEF Surjection
<1> HIDE DEF f
<1>5. Cardinality(New(p)) <= Cardinality(A)
  BY <1>2, <1>4, FS_Surjection
<1>6. Cardinality(A) \in Nat /\ Cardinality(New(p)) \in Nat
  BY <1>2, FS_CardinalityType
<1>7. Cents(New(p)) = Cardinality(New(p))
  <2>1. \A e \in New(p) : Worth[e] = 1
    BY <1>1 DEF Worth
  <2>2. SumOf(Worth, New(p)) = Cardinality(New(p))
    BY <1>2, <2>1, SumCounts
  <2>3. QED BY <1>1, <2>2, CentsIs
<1>8. SeatCents = 1
  BY FundingAssumption
<1>9. QED BY <1>5, <1>6, <1>7, <1>8 DEF A

----------------------------------------------------------------------------
(* One host process: no ceiling is exceeded                                *)

\* The windows that have a ceiling, each with its ceiling.
Bounds ==
  {<<HourOf(t), HourCents>> : t \in Time} \cup {<<DayOf(t), DayCents>> : t \in Time}
  \cup {<<SessionOf(s), SessionCents>> : s \in Sessions}

\* What the file holds at the start is within every ceiling.
InitWithin == \A L \in InitLedgers : \A b \in Bounds : Cents(L \cap b[1]) <= b[2]

\* Whatever was granted, in any window, is within its ceiling.
WithinCeilings == \A b \in Bounds : Cents(Granted \cap b[1]) <= b[2]

\* A job that is about to read the ledger will find there every grant that one
\* of its ceilings counts; once it has read it there is room for its records
\* in every window they fall in.
RoomKept ==
  \A p \in Hosts : job[p] # None =>
    IF job[p].step = "load"
    THEN \A e \in Granted : e.at >= Cutoff(job[p].at) => e \in ledger.records
    ELSE \A b \in Bounds : New(p) \cap b[1] # {} =>
           Cents(Granted \cap b[1]) + Cents(New(p)) <= b[2]

\* A window is a set of records, its ceiling a number.
LEMMA BoundFacts ==
  ASSUME NEW b \in Bounds
  PROVE  b[1] \in SUBSET Records /\ b[2] \in Nat
BY FundingAssumption DEF Bounds, HourOf, DayOf, SessionOf

\* Whatever was granted is a record of some grant.
LEMMA GrantedFacts ==
  ASSUME TypeOK
  PROVE  /\ Granted \in SUBSET Records
         /\ \A e : e \in Granted <=> \E i \in DOMAIN granted : e \in granted[i]
BY DEF TypeOK, Granted

\* A day starts no later than any of its moments.
LEMMA DayStartBefore ==
  ASSUME NEW t \in Nat
  PROVE  DayStart(t) \in Int /\ DayStart(t) <= t
<1> DEFINE x == t \div Day
<1>1. Day \in Int /\ Day > 0
  BY FundingAssumption
<1>2. x \in Int /\ Day * x <= t /\ Day * x = x * Day /\ x * Day \in Int
  BY <1>1
<1> HIDE DEF x
<1>3. DayStart(t) = x * Day
  BY DEF DayStart, x
<1>4. QED BY <1>2, <1>3

\* What a job found when it read the ledger and could afford its records is
\* everything granted in the windows they fall in.
LEMMA RoomFound ==
  ASSUME FiniteWorld, TypeOK, GrantsCounted, SeatInv, RoomKept, NEW p \in Hosts,
         At(p, "load"), Affordable(ledger.records, Request(p), job[p].at),
         NEW b \in Bounds, New(p) \cap b[1] # {}
  PROVE  Cents(Granted \cap b[1]) + Cents(New(p)) <= b[2]
<1> DEFINE at == job[p].at
           L == ledger.records
           n == Cardinality(Request(p).addresses)
<1>1. /\ job[p] # None /\ job[p].step = "load"
      /\ \A e \in Granted : e.at >= Cutoff(at) => e \in L
  BY DEF At, RoomKept
<1>2. /\ Hour \in Nat /\ Time \subseteq Nat /\ at \in Time /\ L \in SUBSET Records
      /\ New(p) \subseteq Records /\ Granted \in SUBSET Records
      /\ \A e \in New(p) : e.at = at /\ e.session = Request(p).session
  BY <1>1, FundingAssumption, JobFacts, GrantedFacts DEF TypeOK, Time
<1>3. /\ Cutoff(at) \in Int /\ DayStart(at) \in Int
      /\ Cutoff(at) <= at - Hour /\ Cutoff(at) <= DayStart(at)
  <2>1. at \in Nat /\ Hour \in Nat
    BY <1>2
  <2> HIDE DEF at
  <2>2. DayStart(at) \in Int /\ at - Hour \in Int
    BY <2>1, DayStartBefore
  <2>3. QED BY <2>1, <2>2 DEF Cutoff
<1>4. IsFiniteSet(Records)
  BY RecordsFinite
<1>5. n \in Nat /\ Cents(New(p)) \in Nat /\ Cents(New(p)) <= SeatCents * n
  BY <1>1, NewCents
<1>6. SeatCents * n \in Nat
  BY <1>5, FundingAssumption
\* It is enough to find the grants of the window among the records that were
\* counted against the same ceiling.
<1>7. ASSUME NEW F \in SUBSET Records, Granted \cap b[1] \subseteq F,
             Cents(F) + SeatCents * n <= b[2]
      PROVE  Cents(Granted \cap b[1]) + Cents(New(p)) <= b[2]
  <2>1. Granted \cap b[1] \in SUBSET Records /\ b[2] \in Nat
    BY <1>2, BoundFacts
  <2>2. Cents(Granted \cap b[1]) \in Nat /\ Cents(F) \in Nat /\ Cents(Granted \cap b[1]) <= Cents(F)
    BY <1>4, <1>7, <2>1, CentsAdd
  <2> DEFINE x == Cents(Granted \cap b[1])
             y == Cents(F)
             z == Cents(New(p))
             s == SeatCents * n
             l == b[2]
  <2>3. /\ x \in Nat /\ y \in Nat /\ z \in Nat /\ s \in Nat /\ l \in Nat
        /\ x <= y /\ z <= s /\ y + s <= l
    BY <1>5, <1>6, <1>7, <2>1, <2>2
  <2> HIDE DEF x, y, z, s, l
  <2>4. x + z <= l
    BY <2>3
  <2>5. QED BY <2>4 DEF x, z, l
<1>8. PICK a \in New(p) : a \in b[1]
  OBVIOUS
<1>9. a.at = at /\ a.session = Request(p).session /\ a \in Records
  BY <1>2, <1>8
<1>10. \A e \in Records : e.at \in Nat
  BY <1>2 DEF Records
<1>11. CASE \E t \in Time : b = <<HourOf(t), HourCents>>
  <2>1. PICK t \in Time : b = <<HourOf(t), HourCents>>
    BY <1>11
  <2>2. at <= t /\ t \in Nat
    BY <1>2, <1>8, <1>9, <2>1 DEF HourOf
  <2>3. ASSUME NEW e \in Granted \cap b[1] PROVE e \in InHour(L, at)
    <3>1. e \in Granted /\ e.at \in Nat /\ t - Hour < e.at
      BY <1>2, <1>10, <2>1, <2>3 DEF HourOf
    <3>2. e.at > at - Hour /\ e.at >= Cutoff(at)
      <4>1. at \in Nat /\ Hour \in Nat /\ Cutoff(at) \in Int /\ Cutoff(at) <= at - Hour
        BY <1>2, <1>3
      <4> HIDE DEF at
      <4>2. QED BY <2>2, <3>1, <4>1
    <3>3. QED BY <1>1, <3>1, <3>2 DEF InHour
  <2>4. InHour(L, at) \in SUBSET Records
    BY <1>2 DEF InHour
  <2>5. Cents(InHour(L, at)) + SeatCents * n <= b[2]
    BY <2>1 DEF Affordable
  <2>6. QED BY <1>7, <2>3, <2>4, <2>5
<1>12. CASE \E t \in Time : b = <<DayOf(t), DayCents>>
  <2>1. PICK t \in Time : b = <<DayOf(t), DayCents>>
    BY <1>12
  <2>2. DayStart(t) = DayStart(at)
    BY <1>8, <1>9, <2>1 DEF DayOf
  <2>3. ASSUME NEW e \in Granted \cap b[1] PROVE e \in InDay(L, at)
    <3>1. e \in Granted /\ e.at \in Nat /\ DayStart(t) = DayStart(e.at)
      BY <1>2, <1>10, <2>1, <2>3 DEF DayOf
    <3>2. e.at >= DayStart(at) /\ e.at >= Cutoff(at)
      BY <1>3, <2>2, <3>1, DayStartBefore
    <3>3. QED BY <1>1, <3>1, <3>2 DEF InDay
  <2>4. InDay(L, at) \in SUBSET Records
    BY <1>2 DEF InDay
  <2>5. Cents(InDay(L, at)) + SeatCents * n <= b[2]
    BY <2>1 DEF Affordable
  <2>6. QED BY <1>7, <2>3, <2>4, <2>5
<1>13. CASE \E s \in Sessions : b = <<SessionOf(s), SessionCents>>
  <2>1. PICK s \in Sessions : b = <<SessionOf(s), SessionCents>>
    BY <1>13
  <2>2. Request(p).session = s
    BY <1>8, <1>9, <2>1 DEF SessionOf
  <2>3. s \in Unread(p)
    <3>1. queue[p] \in Seq(Calls) /\ queue[p] # <<>>
      BY <1>1, JobFacts DEF TypeOK
    <3>2. 1 \in DOMAIN queue[p] /\ Request(p) = queue[p][1]
      BY <3>1 DEF Request
    <3>3. QED BY <2>2, <3>2 DEF Unread
  <2>4. ASSUME NEW e \in Granted \cap b[1] PROVE e \in InSession(L, Request(p).session)
    <3>1. e \in Granted /\ e.session = s
      BY <2>1, <2>4 DEF SessionOf
    <3>2. PICK i \in DOMAIN granted : e \in granted[i]
      BY <3>1, GrantedFacts
    <3>3. e \in L
      BY <2>3, <3>1, <3>2, SessionCounted
    <3>4. QED BY <2>2, <3>1, <3>3 DEF InSession
  <2>5. InSession(L, Request(p).session) \in SUBSET Records
    BY <1>2 DEF InSession
  <2>6. Cents(InSession(L, Request(p).session)) + SeatCents * n <= b[2]
    BY <2>1 DEF Affordable
  <2>7. QED BY <1>7, <2>4, <2>5, <2>6
<1>14. QED BY <1>11, <1>12, <1>13 DEF Bounds

\* With one host every step keeps within the ceilings, and keeps the room that
\* was found.
LEMMA CeilingStep ==
  ASSUME OneHost, FiniteWorld, TypeOK, GrantsCounted, SeatInv, WithinCeilings, RoomKept,
         [Next]_vars
  PROVE  WithinCeilings' /\ RoomKept'
<1> USE FundingAssumption
<1>0. /\ ledger \in [records : SUBSET Records, parses : BOOLEAN]
      /\ queue \in [Hosts -> Seq(Calls)] /\ job \in [Hosts -> Jobs \cup {None}]
      /\ granted \in Seq(SUBSET Records)
  BY DEF TypeOK
<1>1. ASSUME UNCHANGED granted PROVE Granted' = Granted /\ WithinCeilings'
  BY <1>1 DEF Granted, WithinCeilings
<1>2. ASSUME NEW p \in Hosts, job'[p] = None PROVE RoomKept'
  BY <1>2 DEF RoomKept, OneHost
<1>3. ASSUME UNCHANGED <<ledger, job, granted>>,
             \A p \in Hosts : job[p] # None => Request(p)' = Request(p)
      PROVE  WithinCeilings' /\ RoomKept'
  <2>1. \A p \in Hosts : job[p] # None => New(p)' = New(p)
    BY <1>3 DEF New
  <2>2. QED BY <1>1, <1>3, <2>1 DEF RoomKept
\* A job that has read the ledger goes on.
<1>4. ASSUME NEW p \in Hosts, job[p] # None, job'[p] # None, UNCHANGED <<queue, granted>>,
             job'[p].at = job[p].at, job[p].step # "load", job'[p].step # "load"
      PROVE  WithinCeilings' /\ RoomKept'
  <2>1. New(p)' = New(p)
    BY <1>4 DEF New, Request
  <2>2. QED BY <1>1, <1>4, <2>1 DEF RoomKept, OneHost
<1>5. ASSUME NEW p \in Hosts, Refuse(p)
      PROVE  WithinCeilings' /\ RoomKept'
  <2>1. UNCHANGED granted /\ job'[p] = None
    BY <1>0, <1>5 DEF Refuse, Settle
  <2>2. QED BY <1>1, <1>2, <2>1
<1>6. CASE Tick
  BY <1>3, <1>6 DEF Tick, Request
<1>7. ASSUME NEW p \in Hosts, NEW r \in Requests[p], Call(p, r)
      PROVE  WithinCeilings' /\ RoomKept'
  <2>1. /\ r \in Calls /\ queue[p] \in Seq(Calls) /\ queue' = [queue EXCEPT ![p] = Append(@, r)]
        /\ UNCHANGED <<ledger, job, granted>>
    BY <1>0, <1>7 DEF Call
  <2>2. job[p] # None => queue[p] # <<>>
    BY DEF TypeOK
  <2>3. job[p] # None => Head(Append(queue[p], r)) = Head(queue[p])
    BY <2>1, <2>2, AppendProperties
  <2>4. \A q \in Hosts : job[q] # None => Request(q)' = Request(q)
    BY <1>0, <2>1, <2>3 DEF Request
  <2>5. QED BY <1>3, <2>1, <2>4
<1>8. ASSUME NEW p \in Hosts, Start(p)
      PROVE  WithinCeilings' /\ RoomKept'
  <2>1. job[p] = None /\ UNCHANGED <<ledger, granted>>
    BY <1>8 DEF Start
  <2>2. CASE Settle(p)
    BY <1>5, <2>1, <2>2 DEF Refuse
  <2>3. CASE job' = [job EXCEPT ![p] = [step |-> "load", at |-> clock, basis |-> {}]]
    <3>1. job'[p].at = clock /\ job'[p].step = "load"
      BY <1>0, <2>3
    <3>2. \A e \in Granted : e.at >= Cutoff(clock) => e \in ledger.records
      BY GrantedFacts DEF GrantsCounted
    <3>3. RoomKept'
      BY <1>1, <2>1, <3>1, <3>2 DEF RoomKept, OneHost
    <3>4. QED BY <1>1, <2>1, <3>3
  <2>4. QED BY <1>8, <2>2, <2>3 DEF Start
<1>9. ASSUME NEW p \in Hosts, Load(p)
      PROVE  WithinCeilings' /\ RoomKept'
  <2>1. CASE ~Refuse(p)
    <3>1. /\ At(p, "load") /\ Affordable(ledger.records, Request(p), job[p].at)
          /\ job' = [job EXCEPT ![p].step = "compare", ![p].basis = ledger.records]
          /\ UNCHANGED <<queue, granted>> /\ job[p] # None
      BY <1>9, <2>1 DEF Load, At
    <3>2. job'[p].at = job[p].at /\ job'[p].step = "compare"
      BY <1>0, <3>1, JobFacts DEF Jobs
    <3>3. New(p)' = New(p)
      BY <3>1, <3>2 DEF New, Request
    <3>4. \A b \in Bounds : New(p) \cap b[1] # {} =>
            Cents(Granted \cap b[1]) + Cents(New(p)) <= b[2]
      BY <3>1, RoomFound
    <3>5. RoomKept'
      BY <1>1, <3>1, <3>2, <3>3, <3>4 DEF RoomKept, OneHost
    <3>6. QED BY <1>1, <3>1, <3>5
  <2>2. QED BY <1>5, <2>1
<1>10. ASSUME NEW p \in Hosts,
              Compare(p) \/ AppendRecords(p) \/ Tidy(p) \/ Rename(p) \/ Stage(p) \/ Install(p)
              \/ Confirm(p)
       PROVE  WithinCeilings' /\ RoomKept'
  <2>1. job[p] # None /\ job[p].step # "load"
    BY <1>10 DEF Compare, AppendRecords, Tidy, Rename, Stage, Install, Confirm, At
  <2>2. QED BY <1>4, <1>5, <1>10, <2>1, JobGoesOn
<1>11. ASSUME NEW p \in Hosts, Grant(p)
       PROVE  WithinCeilings' /\ RoomKept'
  <2>1. /\ job[p] # None /\ job[p].step = "finish" /\ granted' = Append(granted, New(p))
        /\ job'[p] = None
    BY <1>0, <1>11 DEF Grant, At, Settle
  <2>2. New(p) \in SUBSET Records /\ Granted \in SUBSET Records
    BY <2>1, JobFacts, GrantedFacts
  <2>3. Granted' = Granted \cup New(p)
    <3>1. /\ DOMAIN granted' = DOMAIN granted \cup {Len(granted) + 1}
          /\ granted'[Len(granted) + 1] = New(p)
          /\ \A i \in DOMAIN granted : granted'[i] = granted[i]
      BY <1>0, <2>1, <2>2, AppendProperties
    <3>2. QED BY <3>1 DEF Granted
  <2>4. SUFFICES ASSUME NEW b \in Bounds PROVE Cents(Granted' \cap b[1]) <= b[2]
    BY <1>2, <2>1 DEF WithinCeilings
  <2>5. b[1] \in SUBSET Records /\ b[2] \in Nat /\ IsFiniteSet(Records)
    BY BoundFacts, RecordsFinite
  <2>6. CASE New(p) \cap b[1] = {}
    <3>1. Granted' \cap b[1] = Granted \cap b[1]
      BY <2>3, <2>6
    <3>2. QED BY <3>1 DEF WithinCeilings
  <2>7. CASE New(p) \cap b[1] # {}
    <3> DEFINE A == Granted \cap b[1]
               B == New(p) \cap b[1]
    <3>1. A \in SUBSET Records /\ B \in SUBSET Records /\ B \subseteq New(p)
      BY <2>2
    <3>2. /\ Cents(A) \in Nat /\ Cents(B) \in Nat /\ Cents(A \cup B) \in Nat
          /\ Cents(A \cup B) <= Cents(A) + Cents(B)
      BY <2>5, <3>1, CentsAdd
    <3>3. Cents(New(p)) \in Nat /\ Cents(B) <= Cents(New(p))
      BY <2>2, <2>5, <3>1, CentsAdd
    <3>4. Cents(A) + Cents(New(p)) <= b[2]
      BY <2>1, <2>7 DEF RoomKept
    <3>5. Granted' \cap b[1] = A \cup B
      BY <2>3
    <3> HIDE DEF A, B
    <3>6. Cents(A \cup B) <= b[2]
      BY <2>5, <3>2, <3>3, <3>4
    <3>7. QED BY <3>5, <3>6
  <2>8. QED BY <2>6, <2>7
<1>12. ASSUME NEW p \in Hosts, FailAppend(p) \/ FailStage(p) \/ RefuseDurable(p)
       PROVE  WithinCeilings' /\ RoomKept'
  BY <1>5, <1>12 DEF FailAppend, FailStage, RefuseDurable
<1>13. ASSUME NEW p \in Hosts, Crash(p)
       PROVE  WithinCeilings' /\ RoomKept'
  <2>1. job'[p] = None /\ UNCHANGED granted
    BY <1>0, <1>13 DEF Crash
  <2>2. QED BY <1>1, <1>2, <2>1
<1>14. CASE UNCHANGED vars
  BY <1>3, <1>14 DEF vars, Request
<1>15. QED
  BY <1>6, <1>7, <1>8, <1>9, <1>10, <1>11, <1>12, <1>13, <1>14 DEF Next, Serve

\* What was granted is worth what was spent, because nothing was granted twice.
LEMMA CeilingsKept ==
  ASSUME FiniteWorld, TypeOK, SeatOnce, WithinCeilings
  PROVE  Ceilings
<1>1. IsFiniteSet(Records)
  BY RecordsFinite
<1>2. Apart
  BY DEF SeatOnce, Apart
<1>3. ASSUME NEW b \in Bounds PROVE SumOf(Parts(b[1]), DOMAIN granted) <= b[2]
  <2>1. b[1] \in SUBSET Records
    BY BoundFacts
  <2>2. SumOf(Parts(b[1]), DOMAIN granted) = Cents(Granted \cap b[1])
    BY <1>1, <1>2, <2>1, PartsAddUp
  <2>3. QED BY <2>2 DEF WithinCeilings
<1>4. HourCeiling
  <2>1. SUFFICES ASSUME NEW t \in Time
                 PROVE  Spent(LAMBDA e : t - Hour < e.at /\ e.at <= t) <= HourCents
    BY DEF HourCeiling
  <2>2. <<HourOf(t), HourCents>> \in Bounds
    BY DEF Bounds
  <2>3. SumOf(Parts(HourOf(t)), DOMAIN granted) <= HourCents
    BY <1>3, <2>2
  <2>4. QED BY <2>3, SpentIs
<1>5. DayCeiling
  <2>1. SUFFICES ASSUME NEW t \in Time
                 PROVE  Spent(LAMBDA e : DayStart(t) = DayStart(e.at)) <= DayCents
    BY DEF DayCeiling
  <2>2. <<DayOf(t), DayCents>> \in Bounds
    BY DEF Bounds
  <2>3. SumOf(Parts(DayOf(t)), DOMAIN granted) <= DayCents
    BY <1>3, <2>2
  <2>4. QED BY <2>3, SpentIs
<1>6. SessionCeiling
  <2>1. SUFFICES ASSUME NEW s \in Sessions
                 PROVE  Spent(LAMBDA e : e.session = s) <= SessionCents
    BY DEF SessionCeiling
  <2>2. <<SessionOf(s), SessionCents>> \in Bounds
    BY DEF Bounds
  <2>3. SumOf(Parts(SessionOf(s)), DOMAIN granted) <= SessionCents
    BY <1>3, <2>2
  <2>4. QED BY <2>3, SpentIs
<1>7. QED BY <1>4, <1>5, <1>6 DEF Ceilings

\* With a single host process the grants of every rolling hour, of every day and
\* of every session stay within the ceilings, whatever is refused, fails, is
\* dropped from the ledger or crashes.
THEOREM CeilingsHold ==
  ASSUME OneHost, InitFresh, InitWithin, FiniteWorld
  PROVE  Spec => []Ceilings
<1>1. Init => WithinCeilings /\ RoomKept
  <2> SUFFICES ASSUME Init PROVE WithinCeilings /\ RoomKept
    OBVIOUS
  <2>1. granted = <<ledger.records>> /\ ledger.records \in InitLedgers
        /\ \A p \in Hosts : job[p] = None
    BY DEF Init
  <2>2. DOMAIN granted = {1} /\ granted[1] = ledger.records
    BY <2>1
  <2>3. Granted = ledger.records
    BY <2>2 DEF Granted
  <2>4. QED BY <2>1, <2>3 DEF InitWithin, WithinCeilings, RoomKept
<1>2. Init => SeatInv
  BY SeatInit
<1>3. TypeOK /\ GrantsCounted /\ SeatInv /\ SeatOnce /\ [Next]_vars => SeatInv'
  BY SeatStep
<1>4. TypeOK /\ GrantsCounted /\ SeatInv /\ WithinCeilings /\ RoomKept /\ [Next]_vars
      => WithinCeilings' /\ RoomKept'
  BY CeilingStep
<1>5. TypeOK /\ SeatOnce /\ WithinCeilings => Ceilings
  BY CeilingsKept
<1>6. QED
  BY <1>1, <1>2, <1>3, <1>4, <1>5, BudgetTypes, GrantsStayCounted, SeatsGrantedOnce, PTL DEF Spec

----------------------------------------------------------------------------
(* The journal: types                                                      *)

JournalPoints == {"creating", "checked", "written", "compared", "renamed"}
JournalFiles == [ino : Inodes \cup {None}, doc : Journal!Documents \cup {None}]
Handles == [ino : Inodes \cup {None}, doc : Journal!Documents]
Updates == [at : JournalPoints, doc : Journal!Documents, ino : Inodes \cup {None}, outrun : BOOLEAN]

JournalTypes ==
  /\ file \in JournalFiles \cup {None}
  /\ handle \in [Runs -> Handles \cup {None}]
  /\ op \in [Runs -> Updates \cup {None}]
  /\ told \subseteq Journal!JournalTransfers
  /\ raced \in BOOLEAN

----------------------------------------------------------------------------
(* The journal: the invariant                                              *)

\* What the node knows of a recipient: who has not been paid is short of the target.
Account(a) ==
  /\ DOMAIN a = {"held", "used", "sent", "mined", "paid"}
  /\ a.paid \in BOOLEAN
  /\ ~a.paid => a.held \in Int /\ a.held < Target
  /\ a.mined # None => a.mined.tx \in a.sent
  /\ a.mined # None /\ a.mined.ok /\ a.mined.tx \notin Misfits => a.paid

ChainInv == DOMAIN chain = Journal!Recipients /\ \A r \in Journal!Recipients : Account(chain[r])

True(t) ==
  /\ t.hash # None => t.hash \in chain[t.to].sent \ Misfits
  /\ t.state = "FUNDED" => chain[t.to].paid

Truthful(doc) == \A t \in Journal!ToSet(doc.transfers) : True(t)

\* Not the file alone is true: so is every handle, however stale, and every update under way.
TruthInv ==
  /\ Journal!Whole(file) => Truthful(file.doc)
  /\ \A w \in Runs : handle[w] # None => Truthful(handle[w].doc)
  /\ \A w \in Runs : op[w] # None => Truthful(op[w].doc)

Continued(transfers, doc) ==
  \A t \in transfers : \E u \in Journal!ToSet(doc.transfers) : Journal!Continues(u, t)

Pending(w) == op[w] # None /\ op[w].at \in {"checked", "written", "compared"}
Creating(w) == op[w] # None /\ op[w].at = "creating"

\* An update that was not outrun goes on from what the file holds; a file is filled once.
KeptInv ==
  /\ told # {} => Journal!Whole(file) /\ Continued(told, file.doc)
  /\ \A w \in Runs : handle[w] # None => Journal!ToSet(handle[w].doc.transfers) \subseteq told
  /\ \A w \in Runs : Pending(w) /\ ~op[w].outrun =>
       Journal!Whole(file) /\ Continued(Journal!ToSet(file.doc.transfers), op[w].doc)
  /\ \A w \in Runs : Creating(w) => file.doc = Journal!Torn
  /\ \A v, w \in Runs : Creating(v) /\ Creating(w) => v = w

FileInv == \A w \in Runs : op[w] # None => file # None

JournalInv ==
  /\ JournalTypes
  /\ FileInv
  /\ ChainInv
  /\ TruthInv
  /\ ~raced => KeptInv
----------------------------------------------------------------------------
(* The journal: lemmas                                                     *)

\* To continue is to continue what it continued.
LEMMA ContinuesTransitive ==
  ASSUME NEW t \in Journal!JournalTransfers, NEW u \in Journal!JournalTransfers, NEW v \in Journal!JournalTransfers,
         Journal!Continues(u, t), Journal!Continues(v, u)
  PROVE  Journal!Continues(v, t)
<1>1. \A s \in DOMAIN Journal!Rank : Journal!Rank[s] \in Int
  BY DEF Journal!Rank
<1>. QED
  BY <1>1 DEF Journal!Continues, Journal!SameTransfer, Journal!JournalTransfers

LEMMA ContinuesItself ==
  ASSUME NEW t \in Journal!JournalTransfers
  PROVE  Journal!Continues(t, t)
<1>1. \A s \in DOMAIN Journal!Rank : Journal!Rank[s] \in Int
  BY DEF Journal!Rank
<1>. QED
  BY <1>1 DEF Journal!Continues, Journal!SameTransfer, Journal!JournalTransfers

LEMMA TransfersTyped ==
  ASSUME NEW doc \in Journal!Documents
  PROVE  Journal!ToSet(doc.transfers) \subseteq Journal!JournalTransfers
BY ElementOfSeq DEF Journal!Documents, Journal!ToSet

LEMMA KeptTwice ==
  ASSUME NEW T \in SUBSET Journal!JournalTransfers, NEW d \in Journal!Documents, NEW e \in Journal!Documents,
         Continued(T, d), Continued(Journal!ToSet(d.transfers), e)
  PROVE  Continued(T, e)
<1> SUFFICES ASSUME NEW t \in T PROVE \E v \in Journal!ToSet(e.transfers) : Journal!Continues(v, t)
  BY DEF Continued
<1>1. PICK u \in Journal!ToSet(d.transfers) : Journal!Continues(u, t)
  BY DEF Continued
<1>2. PICK v \in Journal!ToSet(e.transfers) : Journal!Continues(v, u)
  BY DEF Continued
<1>3. t \in Journal!JournalTransfers /\ u \in Journal!JournalTransfers /\ v \in Journal!JournalTransfers
  BY TransfersTyped
<1>. QED
  BY <1>1, <1>2, <1>3, ContinuesTransitive

LEMMA KeptItself ==
  ASSUME NEW d \in Journal!Documents
  PROVE  Continued(Journal!ToSet(d.transfers), d)
BY TransfersTyped, ContinuesItself DEF Continued

\* What a verdict rests on.
LEMMA ObservedMeans ==
  ASSUME NEW t, NEW seen, Journal!Verdict(t, seen) = "OBSERVED"
  PROVE  seen.tx # None /\ seen.tx \notin Misfits
BY DEF Journal!Verdict, Journal!ByTransaction, Journal!ValidTransaction

LEMMA FundedMeans ==
  ASSUME NEW t, NEW seen, Journal!Verdict(t, seen) = "FUNDED"
  PROVE  seen.rich \/ (seen.receipt # None /\ Journal!ValidReceipt(t, seen.tx, seen.receipt))
BY DEF Journal!Verdict, Journal!ByTransaction

\* Accounts only learn: a transaction sent stays sent and a recipient paid stays paid.
Learns ==
  \A r \in Journal!Recipients :
    chain[r].sent \subseteq chain'[r].sent /\ (chain[r].paid => chain'[r].paid)

LEMMA TrueStays ==
  ASSUME NEW t \in Journal!JournalTransfers, Learns, True(t)
  PROVE  True(t)'
BY DEF Learns, True, Journal!JournalTransfers

LEMMA TruthStays ==
  ASSUME JournalTypes, TruthInv, Learns, UNCHANGED <<file, handle, op>>
  PROVE  TruthInv'
<1>1. \A doc \in Journal!Documents : Truthful(doc) => Truthful(doc)'
  BY TrueStays, TransfersTyped DEF Truthful
<1>2. Journal!Whole(file) => file.doc \in Journal!Documents
  BY DEF JournalTypes, Journal!Whole, JournalFiles, Journal!Torn
<1>3. \A w \in Runs : handle[w] # None => handle[w].doc \in Journal!Documents
  BY DEF JournalTypes, Handles
<1>4. \A w \in Runs : op[w] # None => op[w].doc \in Journal!Documents
  BY DEF JournalTypes, Updates
<1>. QED
  BY <1>1, <1>2, <1>3, <1>4 DEF TruthInv, Journal!Whole
----------------------------------------------------------------------------
(* The chain                                                               *)

\* One recipient's account changes, and stays as the invariant wants it.
LEMMA AccountChanges ==
  ASSUME ChainInv, NEW r \in Journal!Recipients, NEW a, chain' = [chain EXCEPT ![r] = a], Account(a),
         chain[r].sent \subseteq a.sent, chain[r].paid => a.paid
  PROVE  ChainInv' /\ Learns
BY DEF ChainInv, Learns, Account

LEMMA RivalChanges ==
  ASSUME ChainInv, NEW r \in Journal!Recipients, Journal!Rival(r)
  PROVE  ChainInv' /\ Learns
<1>1. PICK tx \in Txs : chain' = [chain EXCEPT ![r].sent = @ \cup {tx}]
  BY DEF Journal!Rival
<1> DEFINE a == [chain[r] EXCEPT !.sent = @ \cup {tx}]
<1>2. chain' = [chain EXCEPT ![r] = a]
  BY <1>1
<1>3. Account(chain[r])
  BY DEF ChainInv
<1>4. Account(a) /\ chain[r].sent \subseteq a.sent /\ (chain[r].paid => a.paid)
  BY <1>3 DEF Account
<1> HIDE DEF a
<1>. QED
  BY <1>2, <1>4, AccountChanges

LEMMA SendChanges ==
  ASSUME ChainInv, NEW r, NEW tx, chain' = [chain EXCEPT ![r].sent = @ \cup {tx}]
  PROVE  ChainInv' /\ Learns
<1>1. CASE r \in Journal!Recipients
  <2> DEFINE a == [chain[r] EXCEPT !.sent = @ \cup {tx}]
  <2>2. chain' = [chain EXCEPT ![r] = a]
    OBVIOUS
  <2>3. Account(chain[r])
    BY <1>1 DEF ChainInv
  <2>4. Account(a) /\ chain[r].sent \subseteq a.sent /\ (chain[r].paid => a.paid)
    BY <2>3 DEF Account
  <2> HIDE DEF a
  <2>. QED
    BY <1>1, <2>2, <2>4, AccountChanges
<1>2. CASE r \notin Journal!Recipients
  BY <1>2 DEF ChainInv, Learns
<1>. QED
  BY <1>1, <1>2

LEMMA GiftChanges ==
  ASSUME ChainInv, NEW r \in Journal!Recipients, Journal!Gift(r)
  PROVE  ChainInv' /\ Learns
<1> DEFINE a == [chain[r] EXCEPT !.held = Target, !.paid = TRUE]
<1>1. chain' = [chain EXCEPT ![r] = a]
  BY DEF Journal!Gift
<1>2. Account(chain[r])
  BY DEF ChainInv
<1>3. Account(a) /\ chain[r].sent \subseteq a.sent /\ (chain[r].paid => a.paid)
  BY <1>2 DEF Account
<1> HIDE DEF a
<1>. QED
  BY <1>1, <1>3, AccountChanges

LEMMA SpendChanges ==
  ASSUME Journal!JournalAssumption, ChainInv, NEW r \in Journal!Recipients, Journal!Spend(r)
  PROVE  ChainInv' /\ Learns
<1> DEFINE a == [chain[r] EXCEPT !.held = @ - 1, !.used = TRUE]
<1>1. chain' = [chain EXCEPT ![r] = a]
  BY DEF Journal!Spend
<1>2. Account(chain[r])
  BY DEF ChainInv
<1>3. Account(a) /\ chain[r].sent \subseteq a.sent /\ (chain[r].paid => a.paid)
  BY <1>2 DEF Account, Journal!JournalAssumption
<1> HIDE DEF a
<1>. QED
  BY <1>1, <1>3, AccountChanges

LEMMA MineChanges ==
  ASSUME ChainInv, NEW r \in Journal!Recipients, Journal!Mine(r)
  PROVE  ChainInv' /\ Learns
<1>1. PICK tx \in chain[r].sent, ok \in BOOLEAN :
        LET pays == ok /\ tx \notin Misfits
        IN chain' = [chain EXCEPT ![r].mined = [tx |-> tx, ok |-> ok],
                                  ![r].held = @ + (IF pays THEN Journal!ValueOf(r) ELSE 0),
                                  ![r].paid = @ \/ pays]
  BY DEF Journal!Mine
<1> DEFINE pays == ok /\ tx \notin Misfits
           got == IF pays THEN Journal!ValueOf(r) ELSE 0
           a == [chain[r] EXCEPT !.mined = [tx |-> tx, ok |-> ok], !.held = @ + got,
                                 !.paid = @ \/ pays]
<1>2. chain' = [chain EXCEPT ![r] = a]
  BY <1>1
<1>3. Account(chain[r])
  BY DEF ChainInv
<1>4. Account(a) /\ chain[r].sent \subseteq a.sent /\ (chain[r].paid => a.paid)
  BY <1>3 DEF Account
<1> HIDE DEF a
<1>. QED
  BY <1>2, <1>4, AccountChanges

LEMMA ChainStepChanges ==
  ASSUME Journal!JournalAssumption, ChainInv, Journal!ChainStep
  PROVE  ChainInv' /\ Learns
BY RivalChanges, GiftChanges, SpendChanges, MineChanges DEF Journal!ChainStep, Journal!Outside
----------------------------------------------------------------------------
(* The journal: its updates                                                *)

\* An update starts with a valid document that is true and goes on from the handle's.
LEMMA BeginKeeps ==
  ASSUME JournalInv, NEW w \in Runs, Journal!Idle(w), NEW doc, Journal!Begin(w, doc),
         doc \in Journal!Documents => Truthful(doc) /\ Continued(Journal!ToSet(handle[w].doc.transfers), doc)
  PROVE  JournalInv'
<1> DEFINE new == [at |-> "checked", doc |-> doc, ino |-> None, outrun |-> FALSE]
<1>1. doc \in Journal!Documents /\ Journal!Whole(file) /\ file.doc = handle[w].doc
  BY DEF Journal!Begin, Journal!Accepts, Journal!ValidDocument
<1>2. op' = [op EXCEPT ![w] = new] /\ UNCHANGED <<file, handle, told, raced, chain>>
  BY DEF Journal!Begin
<1>3. new \in Updates
  BY <1>1 DEF Updates, JournalPoints
<1>4. JournalTypes'
  BY <1>2, <1>3 DEF JournalInv, JournalTypes
<1>5. op'[w] = new /\ \A v \in Runs : v # w => op'[v] = op[v]
  BY <1>2 DEF JournalInv, JournalTypes
<1>6. new.doc = doc /\ new.at = "checked" /\ file # None
  BY <1>1 DEF Journal!Whole
<1> HIDE DEF new
<1>7. FileInv'
  BY <1>2, <1>5, <1>6 DEF JournalInv, FileInv
<1>8. ChainInv' /\ Learns
  BY <1>2 DEF JournalInv, ChainInv, Account, Learns
<1>9. Truthful(doc)'
  BY <1>1, <1>2 DEF Truthful, True
<1>10. TruthInv'
  BY <1>2, <1>5, <1>6, <1>9 DEF JournalInv, TruthInv, Truthful, True, Journal!Whole
<1>11. KeptInv => KeptInv'
  BY <1>1, <1>2, <1>5, <1>6 DEF KeptInv, Pending, Creating, Continued, Journal!Whole
<1>. QED
  BY <1>2, <1>4, <1>7, <1>8, <1>10, <1>11 DEF JournalInv

\* Appending an intent, and putting a transfer's new state in its place, lose nothing.
LEMMA AppendKeeps ==
  ASSUME NEW T \in Seq(Journal!JournalTransfers), NEW t, NEW doc \in Journal!Documents,
         doc.transfers = Append(T, t), t.hash = None, t.state = "BROADCAST_INTENT",
         \A u \in Journal!ToSet(T) : True(u)
  PROVE  Truthful(doc) /\ Continued(Journal!ToSet(T), doc)
<1>1. \A i \in DOMAIN doc.transfers :
        \/ i \in DOMAIN T /\ doc.transfers[i] = T[i]
        \/ doc.transfers[i] = t
  BY DEF Journal!Documents
<1>2. \A i \in DOMAIN T : i \in DOMAIN doc.transfers /\ doc.transfers[i] = T[i]
  BY DEF Journal!Documents
<1>3. True(t)
  BY DEF True
<1>4. Truthful(doc)
  BY <1>1, <1>3 DEF Truthful, Journal!ToSet
<1>5. Continued(Journal!ToSet(T), doc)
  BY <1>2, ElementOfSeq, ContinuesItself DEF Continued, Journal!ToSet
<1>. QED
  BY <1>4, <1>5

LEMMA PutKeeps ==
  ASSUME NEW T \in Seq(Journal!JournalTransfers), NEW t \in Journal!ToSet(T), NEW new, NEW doc \in Journal!Documents,
         doc.transfers = Journal!With(T, t, new), True(new), Journal!Continues(new, t),
         \A u \in Journal!ToSet(T) : True(u)
  PROVE  Truthful(doc) /\ Continued(Journal!ToSet(T), doc)
<1>1. /\ DOMAIN doc.transfers = DOMAIN T
      /\ \A i \in DOMAIN T : doc.transfers[i] = IF T[i] = t THEN new ELSE T[i]
  BY DEF Journal!With
<1>2. Truthful(doc)
  BY <1>1 DEF Truthful, Journal!ToSet
<1>3. Continued(Journal!ToSet(T), doc)
  BY <1>1, ElementOfSeq, ContinuesItself DEF Continued, Journal!ToSet
<1>. QED
  BY <1>2, <1>3

LEMMA HandleKnows ==
  ASSUME JournalInv, NEW w \in Runs, Journal!Idle(w)
  PROVE  /\ handle[w].doc.transfers \in Seq(Journal!JournalTransfers)
         /\ Journal!Known(w) \subseteq Journal!JournalTransfers
         /\ \A t \in Journal!Known(w) : True(t)
<1>1. handle[w].doc \in Journal!Documents
  BY DEF JournalInv, JournalTypes, Journal!Idle, Handles
<1>. QED
  BY <1>1, TransfersTyped DEF JournalInv, TruthInv, Truthful, Journal!Idle, Journal!Known, Journal!Documents

LEMMA RecordIntentKeeps ==
  ASSUME JournalInv, NEW w \in Runs, Journal!Idle(w), NEW t, Journal!RecordIntent(w, t),
         t.hash = None, t.state = "BROADCAST_INTENT"
  PROVE  JournalInv'
<1> DEFINE T == handle[w].doc.transfers
           doc == [state |-> "BROADCAST_INTENT", transfers |-> Append(T, t)]
<1>1. CASE \E u \in Journal!Known(w) : Journal!SameTransfer(t, u)
  <2>1. t \in Journal!Known(w) /\ told' = Journal!Told({t}) /\ UNCHANGED <<file, handle, op, raced, chain>>
    BY <1>1 DEF Journal!RecordIntent
  <2>2. told' \subseteq Journal!JournalTransfers
    BY <2>1, HandleKnows DEF Journal!Told, JournalInv, JournalTypes
  <2>3. JournalTypes' /\ FileInv' /\ ChainInv' /\ TruthInv'
    BY <2>1, <2>2 DEF JournalInv, JournalTypes, FileInv, ChainInv, Account, TruthInv, Truthful, True, Journal!Whole
  <2>4. ~raced => told' = told /\ KeptInv
    BY <2>1 DEF JournalInv, KeptInv, Journal!Told, Journal!Known, Journal!Idle
  <2>5. ~raced => KeptInv'
    BY <2>1, <2>4 DEF KeptInv, Continued, Pending, Creating, Journal!Whole
  <2>. QED
    BY <2>1, <2>3, <2>5 DEF JournalInv
<1>2. CASE ~\E u \in Journal!Known(w) : Journal!SameTransfer(t, u)
  <2>1. Journal!Begin(w, doc)
    BY <1>2 DEF Journal!RecordIntent
  <2>2. T \in Seq(Journal!JournalTransfers) /\ \A u \in Journal!ToSet(T) : True(u)
    BY HandleKnows DEF Journal!Known
  <2>3. doc.transfers = Append(T, t)
    OBVIOUS
  <2> HIDE DEF doc, T
  <2>4. doc \in Journal!Documents => Truthful(doc) /\ Continued(Journal!ToSet(T), doc)
    BY <2>2, <2>3, AppendKeeps
  <2>. QED
    BY <2>1, <2>4, BeginKeeps DEF T
<1>. QED
  BY <1>1, <1>2

LEMMA PutTransfer ==
  ASSUME JournalInv, NEW w \in Runs, Journal!Idle(w), NEW t \in Journal!Known(w), NEW new, Journal!Put(w, t, new),
         True(new), Journal!Continues(new, t)
  PROVE  JournalInv'
<1> DEFINE T == handle[w].doc.transfers
           doc == [state |-> Journal!Highest(Journal!With(T, t, new)), transfers |-> Journal!With(T, t, new)]
<1>1. Journal!Begin(w, doc)
  BY DEF Journal!Put
<1>2. T \in Seq(Journal!JournalTransfers) /\ t \in Journal!ToSet(T) /\ \A u \in Journal!ToSet(T) : True(u)
  BY HandleKnows DEF Journal!Known
<1>3. doc.transfers = Journal!With(T, t, new)
  OBVIOUS
<1> HIDE DEF doc, T
<1>4. doc \in Journal!Documents => Truthful(doc) /\ Continued(Journal!ToSet(T), doc)
  BY <1>2, <1>3, PutKeeps
<1>. QED
  BY <1>1, <1>4, BeginKeeps DEF T

LEMMA RecordObservedKeeps ==
  ASSUME JournalInv, NEW w \in Runs, Journal!Idle(w), NEW t \in Journal!Known(w), NEW tx,
         Journal!RecordObserved(w, t, tx), tx \in chain[t.to].sent \ Misfits
  PROVE  JournalInv'
<1> DEFINE new == [t EXCEPT !.state = "TRANSACTION_OBSERVED", !.hash = tx]
<1>1. t \in Journal!JournalTransfers /\ t.state # "FUNDED" /\ t.hash \in {None, tx} /\ Journal!Put(w, t, new)
  BY HandleKnows DEF Journal!RecordObserved
<1>2. /\ new.to = t.to /\ new.nonce = t.nonce /\ new.digest = t.digest /\ new.hash = tx
      /\ new.state = "TRANSACTION_OBSERVED"
  BY <1>1 DEF Journal!JournalTransfers
<1>3. t.state \in {"BROADCAST_INTENT", "TRANSACTION_OBSERVED"}
  BY <1>1 DEF Journal!JournalTransfers, Journal!Rank
<1> HIDE DEF new
<1>4. True(new)
  BY <1>2 DEF True
<1>5. Journal!Continues(new, t)
  BY <1>1, <1>2, <1>3 DEF Journal!Continues, Journal!SameTransfer, Journal!Rank
<1>. QED
  BY <1>1, <1>4, <1>5, PutTransfer

LEMMA RecordFundedKeeps ==
  ASSUME JournalInv, NEW w \in Runs, Journal!Idle(w), NEW t \in Journal!Known(w), Journal!RecordFunded(w, t),
         chain[t.to].paid
  PROVE  JournalInv'
<1> DEFINE new == [t EXCEPT !.state = "FUNDED"]
<1>1. t \in Journal!JournalTransfers /\ True(t) /\ Journal!Put(w, t, new)
  BY HandleKnows DEF Journal!RecordFunded
<1>2. /\ new.to = t.to /\ new.nonce = t.nonce /\ new.digest = t.digest /\ new.hash = t.hash
      /\ new.state = "FUNDED"
  BY <1>1 DEF Journal!JournalTransfers
<1>3. t.state \in {"BROADCAST_INTENT", "TRANSACTION_OBSERVED", "FUNDED"}
  BY <1>1 DEF Journal!JournalTransfers, Journal!Rank
<1> HIDE DEF new
<1>4. True(new)
  BY <1>1, <1>2 DEF True
<1>5. Journal!Continues(new, t)
  BY <1>2, <1>3 DEF Journal!Continues, Journal!SameTransfer, Journal!Rank
<1>. QED
  BY <1>1, <1>4, <1>5, PutTransfer
\* What a recovery records is what its answers show, however late they are.
LEMMA RecoverKeeps ==
  ASSUME Journal!JournalAssumption, JournalInv, NEW w \in Runs, Journal!Recover(w)
  PROVE  JournalInv'
<1>1. Journal!Idle(w)
  BY DEF Journal!Recover
<1>2. PICK t \in Journal!Known(w) : \E seen \in Journal!Facts(t.to) :
        \/ /\ Journal!Verdict(t, seen) = "OBSERVED"
           /\ Journal!RecordObserved(w, t, seen.tx)
        \/ /\ Journal!Verdict(t, seen) = "FUNDED"
           /\ ~seen.rich /\ seen.receipt # None
           /\ Journal!RecordObserved(w, t, seen.receipt.tx)
        \/ /\ Journal!Verdict(t, seen) = "FUNDED"
           /\ Journal!RecordFunded(w, t)
  BY DEF Journal!Recover
<1>3. PICK seen \in Journal!Facts(t.to) :
        \/ /\ Journal!Verdict(t, seen) = "OBSERVED"
           /\ Journal!RecordObserved(w, t, seen.tx)
        \/ /\ Journal!Verdict(t, seen) = "FUNDED"
           /\ ~seen.rich /\ seen.receipt # None
           /\ Journal!RecordObserved(w, t, seen.receipt.tx)
        \/ /\ Journal!Verdict(t, seen) = "FUNDED"
           /\ Journal!RecordFunded(w, t)
  BY <1>2
<1>4. Account(chain[t.to])
  BY <1>1, HandleKnows DEF JournalInv, ChainInv, Journal!JournalTransfers
<1>5. /\ seen.tx \in {None} \cup chain[t.to].sent /\ seen.receipt \in {None, chain[t.to].mined}
      /\ seen.rich => chain[t.to].held >= Target
  BY DEF Journal!Facts
<1>6. seen.rich => chain[t.to].paid
  BY <1>4, <1>5 DEF Account, Journal!JournalAssumption
<1>7. seen.receipt # None /\ Journal!ValidReceipt(t, seen.tx, seen.receipt) =>
        chain[t.to].paid /\ seen.receipt.tx \in chain[t.to].sent \ Misfits
  BY <1>4, <1>5 DEF Account, Journal!ValidReceipt
<1>8. CASE Journal!Verdict(t, seen) = "OBSERVED" /\ Journal!RecordObserved(w, t, seen.tx)
  BY <1>1, <1>5, <1>8, ObservedMeans, RecordObservedKeeps
<1>9. CASE Journal!Verdict(t, seen) = "FUNDED" /\ ~seen.rich /\ Journal!RecordObserved(w, t, seen.receipt.tx)
  BY <1>1, <1>7, <1>9, FundedMeans, RecordObservedKeeps
<1>10. CASE Journal!Verdict(t, seen) = "FUNDED" /\ Journal!RecordFunded(w, t)
  BY <1>1, <1>6, <1>7, <1>10, FundedMeans, RecordFundedKeeps
<1>. QED
  BY <1>3, <1>8, <1>9, <1>10

----------------------------------------------------------------------------
(* The journal: the invariant is kept                                      *)

LEMMA InitJournal ==
  ASSUME Journal!JournalAssumption, Journal!Init
  PROVE  JournalInv
<1>1. JournalTypes /\ FileInv
  BY DEF Journal!Init, JournalTypes, FileInv
<1>2. PICK held \in [Journal!Recipients -> Levels] :
        chain = [r \in Journal!Recipients |->
                   [held |-> held[r], used |-> FALSE, sent |-> {}, mined |-> None,
                    paid |-> held[r] >= Target]]
  BY DEF Journal!Init
<1>3. ChainInv
  <2> SUFFICES ASSUME NEW r \in Journal!Recipients PROVE Account(chain[r])
    BY <1>2 DEF ChainInv
  <2> DEFINE enough == held[r] >= Target
  <2>1. enough \in BOOLEAN /\ held[r] \in Int /\ (~enough => held[r] < Target)
    <3>1. Levels \subseteq Int /\ Target \in Int
      BY DEF Journal!JournalAssumption
    <3>2. held[r] \in Int
      BY <3>1
    <3>3. QED BY <3>1, <3>2
  <2>2. chain[r] = [held |-> held[r], used |-> FALSE, sent |-> {}, mined |-> None,
                    paid |-> enough]
    BY <1>2
  <2> HIDE DEF enough
  <2>. QED
    BY <2>1, <2>2 DEF Account
<1>4. TruthInv /\ KeptInv
  BY DEF Journal!Init, TruthInv, KeptInv, Journal!Whole, Pending, Creating
<1>. QED
  BY <1>1, <1>3, <1>4 DEF JournalInv

\* A step of the chain alone.
LEMMA ChainKeeps ==
  ASSUME JournalInv, ChainInv', Learns, UNCHANGED <<file, handle, op, told, raced>>
  PROVE  JournalInv'
<1>1. TruthInv'
  BY TruthStays DEF JournalInv
<1>2. JournalTypes' /\ FileInv' /\ (KeptInv => KeptInv')
  BY DEF JournalInv, JournalTypes, FileInv, KeptInv, Continued, Pending, Creating, Journal!Whole
<1>. QED
  BY <1>1, <1>2 DEF JournalInv

LEMMA BlankIsValid == Journal!Blank \in Journal!Documents /\ Truthful(Journal!Blank)
BY EmptySeq DEF Journal!Blank, Journal!Documents, Journal!Rank, Truthful, Journal!ToSet

LEMMA Real ==
  ASSUME Journal!JournalAssumption
  PROVE  /\ \A d \in Journal!Documents : d # None
         /\ \A f \in JournalFiles : f # None
BY DEF JournalFiles, Journal!JournalAssumption

LEMMA NextKeeps ==
  ASSUME Journal!JournalAssumption, JournalInv, [Journal!Next]_(Journal!vars)
  PROVE  JournalInv'
<1> USE DEF JournalInv
<1>0. CASE UNCHANGED Journal!vars
  BY <1>0 DEF Journal!vars, JournalTypes, FileInv, ChainInv, Account, TruthInv, Truthful, True, KeptInv, Continued,
              Pending, Creating, Journal!Whole
<1>1. CASE Journal!ChainStep
  BY <1>1, ChainStepChanges, ChainKeeps DEF Journal!ChainStep
<1>2. ASSUME NEW w \in Runs, Journal!Open(w) PROVE JournalInv'
  <2>1. /\ op[w] = None /\ Journal!Whole(file) /\ handle' = [handle EXCEPT ![w] = file]
        /\ told' = Journal!Told(Journal!ToSet(file.doc.transfers)) /\ UNCHANGED <<file, op, raced, chain>>
    BY <1>2 DEF Journal!Open
  <2>2. file \in Handles /\ file.doc \in Journal!Documents
    BY <2>1 DEF JournalTypes, Journal!Whole, JournalFiles, Handles, Journal!Torn
  <2>3. JournalTypes'
    BY <2>1, <2>2, TransfersTyped DEF JournalTypes, Journal!Told
  <2>4. handle'[w] = file /\ \A v \in Runs : v # w => handle'[v] = handle[v]
    BY <2>1 DEF JournalTypes
  <2>5. FileInv' /\ ChainInv' /\ TruthInv'
    BY <2>1, <2>4 DEF FileInv, ChainInv, Account, TruthInv, Truthful, True, Journal!Whole
  <2>6. ASSUME ~raced, KeptInv PROVE KeptInv'
    <3>1. told' = told \cup Journal!ToSet(file.doc.transfers)
      BY <2>1, <2>6 DEF Journal!Told
    <3>2. Continued(told', file.doc)
      BY <2>2, <2>6, <3>1, KeptItself DEF KeptInv, Continued
    <3>. QED
      BY <2>1, <2>4, <2>6, <3>1, <3>2 DEF KeptInv, Continued, Pending, Creating, Journal!Whole
  <2>. QED
    BY <2>1, <2>3, <2>5, <2>6
<1>3. ASSUME NEW w \in Runs, Journal!Create(w) PROVE JournalInv'
  <2>1. PICK ino \in Inodes :
          /\ file' = [ino |-> ino, doc |-> Journal!Torn]
          /\ op' = [op EXCEPT ![w] = [at |-> "creating", doc |-> Journal!Blank, ino |-> ino,
                                      outrun |-> FALSE]]
    BY <1>3 DEF Journal!Create
  <2>2. file = None /\ UNCHANGED <<handle, told, raced, chain>>
    BY <1>3 DEF Journal!Create
  <2>3. file' \in JournalFiles /\ file'.doc = Journal!Torn
    BY <2>1 DEF JournalFiles, Journal!Torn
  <2> DEFINE new == [at |-> "creating", doc |-> Journal!Blank, ino |-> ino, outrun |-> FALSE]
  <2>4. new \in Updates /\ new.at = "creating" /\ new.doc = Journal!Blank
    BY BlankIsValid DEF Updates, JournalPoints
  <2>5. op' = [op EXCEPT ![w] = new]
    BY <2>1
  <2> HIDE DEF new
  <2>6. op'[w] = new /\ \A v \in Runs : v # w => op'[v] = op[v]
    BY <2>5 DEF JournalTypes
  <2>7. JournalTypes'
    BY <2>2, <2>3, <2>4, <2>5 DEF JournalTypes
  <2>8. FileInv'
    BY <2>3, Real DEF FileInv
  <2>9. Truthful(Journal!Blank)'
    BY <2>2, BlankIsValid DEF Truthful, True
  <2>10. ChainInv' /\ TruthInv'
    BY <2>2, <2>3, <2>4, <2>6, <2>9 DEF ChainInv, Account, TruthInv, Truthful, True, Journal!Whole
  <2>11. \A v \in Runs : op[v] = None
    BY <2>2 DEF FileInv
  <2>12. KeptInv => KeptInv'
    BY <2>2, <2>3, <2>4, <2>6, <2>11 DEF KeptInv, Continued, Pending, Creating, Journal!Whole
  <2>. QED
    BY <2>2, <2>7, <2>8, <2>10, <2>12
<1>4. ASSUME NEW w \in Runs, Journal!Fill(w) PROVE JournalInv'
  <2>1. /\ Creating(w) /\ file' = [file EXCEPT !.doc = Journal!Blank]
        /\ op' = [op EXCEPT ![w].at = "renamed"] /\ UNCHANGED <<handle, told, raced, chain>>
    BY <1>4 DEF Journal!Fill, Creating
  <2>2. file \in JournalFiles /\ op[w] \in Updates
    BY <2>1 DEF JournalTypes, FileInv, Creating
  <2>3. file' \in JournalFiles /\ file'.doc = Journal!Blank
    BY <2>1, <2>2, BlankIsValid DEF JournalFiles
  <2> DEFINE new == [op[w] EXCEPT !.at = "renamed"]
  <2>4. new \in Updates /\ new.at = "renamed" /\ new.doc = op[w].doc
    BY <2>2 DEF Updates, JournalPoints
  <2>5. op' = [op EXCEPT ![w] = new]
    BY <2>1
  <2> HIDE DEF new
  <2>6. op'[w] = new /\ \A v \in Runs : v # w => op'[v] = op[v]
    BY <2>5 DEF JournalTypes
  <2>7. JournalTypes'
    BY <2>1, <2>3, <2>4, <2>5 DEF JournalTypes
  <2>8. FileInv'
    BY <2>3, Real DEF FileInv
  <2>9. Truthful(Journal!Blank)'
    BY <2>1, BlankIsValid DEF Truthful, True
  <2>10. ChainInv' /\ TruthInv'
    BY <2>1, <2>3, <2>4, <2>6, <2>9 DEF ChainInv, Account, TruthInv, Truthful, True, Journal!Whole, Creating
  <2>11. KeptInv => KeptInv'
    BY <2>1, <2>3, <2>4, <2>6 DEF KeptInv, Continued, Pending, Creating, Journal!Whole
  <2>. QED
    BY <2>1, <2>7, <2>8, <2>10, <2>11
<1>5. ASSUME NEW w \in Runs, Journal!Write(w) PROVE JournalInv'
  <2>1. PICK ino \in Inodes : op' = [op EXCEPT ![w].at = "written", ![w].ino = ino]
    BY <1>5 DEF Journal!Write
  <2>2. op[w] # None /\ op[w].at = "checked" /\ UNCHANGED <<file, handle, told, raced, chain>>
    BY <1>5 DEF Journal!Write
  <2>3. op[w] \in Updates
    BY <2>2 DEF JournalTypes
  <2> DEFINE new == [op[w] EXCEPT !.at = "written", !.ino = ino]
  <2>4. /\ new \in Updates /\ new.at = "written" /\ new.doc = op[w].doc
        /\ new.outrun = op[w].outrun
    BY <2>3 DEF Updates, JournalPoints
  <2>5. op' = [op EXCEPT ![w] = new]
    BY <2>1, <2>3 DEF Updates, JournalTypes
  <2> HIDE DEF new
  <2>6. op'[w] = new /\ \A v \in Runs : v # w => op'[v] = op[v]
    BY <2>5 DEF JournalTypes
  <2>7. JournalTypes'
    BY <2>2, <2>4, <2>5 DEF JournalTypes
  <2>8. FileInv' /\ ChainInv' /\ TruthInv' /\ (KeptInv => KeptInv')
    BY <2>2, <2>4, <2>6
       DEF FileInv, ChainInv, Account, TruthInv, Truthful, True, KeptInv, Continued, Pending, Creating,
           Journal!Whole
  <2>. QED
    BY <2>2, <2>7, <2>8
<1>6. ASSUME NEW w \in Runs, Journal!Compare(w) PROVE JournalInv'
  <2>2. /\ op[w] # None /\ op[w].at = "written" /\ UNCHANGED <<file, handle, told, raced, chain>>
        /\ op' = [op EXCEPT ![w].at = "compared"]
    BY <1>6 DEF Journal!Compare
  <2>3. op[w] \in Updates
    BY <2>2 DEF JournalTypes
  <2> DEFINE new == [op[w] EXCEPT !.at = "compared"]
  <2>4. /\ new \in Updates /\ new.at = "compared" /\ new.doc = op[w].doc
        /\ new.outrun = op[w].outrun
    BY <2>3 DEF Updates, JournalPoints
  <2>5. op' = [op EXCEPT ![w] = new]
    BY <2>2
  <2> HIDE DEF new
  <2>6. op'[w] = new /\ \A v \in Runs : v # w => op'[v] = op[v]
    BY <2>5 DEF JournalTypes
  <2>7. JournalTypes'
    BY <2>2, <2>4, <2>5 DEF JournalTypes
  <2>8. FileInv' /\ ChainInv' /\ TruthInv' /\ (KeptInv => KeptInv')
    BY <2>2, <2>4, <2>6
       DEF FileInv, ChainInv, Account, TruthInv, Truthful, True, KeptInv, Continued, Pending, Creating,
           Journal!Whole
  <2>. QED
    BY <2>2, <2>7, <2>8
<1>7. ASSUME NEW w \in Runs, Journal!Replace(w) PROVE JournalInv'
  <2>1. /\ op[w] # None /\ op[w].at = "compared" /\ UNCHANGED <<handle, chain>>
        /\ file' = [ino |-> op[w].ino, doc |-> op[w].doc]
        /\ raced' = (raced \/ op[w].outrun) /\ told' = IF raced' THEN {} ELSE told
    BY <1>7 DEF Journal!Replace
  <2>2. op[w] \in Updates
    BY <2>1 DEF JournalTypes
  <2>3. file' \in JournalFiles /\ file'.doc = op[w].doc /\ op[w].doc \in Journal!Documents
    BY <2>1, <2>2 DEF Updates, JournalFiles
  <2>4. op' = [v \in Runs |->
                 CASE v = w -> [op[w] EXCEPT !.at = "renamed"]
                   [] v # w /\ op[v] # None -> [op[v] EXCEPT !.outrun = TRUE]
                   [] OTHER -> op[v]]
    BY <1>7 DEF Journal!Replace
  <2>5. op'[w] \in Updates /\ op'[w].at = "renamed" /\ op'[w].doc = op[w].doc
    BY <2>2, <2>4 DEF Updates, JournalPoints
  <2>6. ASSUME NEW v \in Runs, v # w, op[v] # None
        PROVE  /\ op'[v] \in Updates /\ op'[v].at = op[v].at /\ op'[v].doc = op[v].doc
               /\ op'[v].outrun
    <3>1. op[v] \in Updates
      BY <2>6 DEF JournalTypes
    <3>2. op'[v] = [op[v] EXCEPT !.outrun = TRUE]
      BY <2>4, <2>6
    <3>. QED
      BY <3>1, <3>2 DEF Updates
  <2>7. ASSUME NEW v \in Runs, v # w, op[v] = None PROVE op'[v] = None
    BY <2>4, <2>7
  <2>8. JournalTypes'
    <3>1. DOMAIN op' = Runs /\ op' = [v \in Runs |-> op'[v]]
      BY <2>4
    <3>2. \A v \in Runs : op'[v] \in Updates \cup {None}
      BY <2>5, <2>6, <2>7
    <3>3. op' \in [Runs -> Updates \cup {None}]
      BY <3>1, <3>2
    <3>4. raced' \in BOOLEAN
      BY <2>1, <2>2 DEF JournalTypes, Updates
    <3>. QED
      BY <2>1, <2>3, <3>3, <3>4 DEF JournalTypes
  <2>9. FileInv'
    BY <2>3, Real DEF FileInv
  <2>10. ChainInv' /\ TruthInv'
    BY <2>1, <2>3, <2>5, <2>6, <2>7
       DEF ChainInv, Account, TruthInv, Truthful, True, Journal!Whole
  <2>11. ASSUME ~raced, ~raced', KeptInv PROVE KeptInv'
    <3>1. ~op[w].outrun /\ told' = told
      BY <2>1, <2>11
    <3>2. Pending(w) /\ Journal!Whole(file) /\ Continued(Journal!ToSet(file.doc.transfers), op[w].doc)
      BY <2>1, <2>11, <3>1 DEF KeptInv, Pending
    <3>3. file.doc \in Journal!Documents
      BY <3>2 DEF JournalTypes, Journal!Whole, JournalFiles, Journal!Torn
    <3>4. told # {} => Journal!Whole(file)' /\ Continued(told', file'.doc)
      <4>1. Journal!Whole(file)'
        BY <2>3, Real DEF Journal!Whole, Journal!Torn
      <4>2. told # {} => Continued(told, op[w].doc)
        BY <2>3, <2>11, <3>2, <3>3, KeptTwice DEF KeptInv, JournalTypes
      <4>. QED
        BY <2>3, <3>1, <4>1, <4>2
    <3>5. \A v \in Runs : ~Creating(v)
      BY <2>11, <3>2 DEF KeptInv, Journal!Whole
    <3>6. \A v \in Runs : ~(Pending(v) /\ ~op[v].outrun)' /\ ~Creating(v)'
      BY <2>5, <2>6, <2>7, <3>5 DEF Pending, Creating
    <3>. QED
      BY <2>1, <2>11, <3>1, <3>4, <3>6 DEF KeptInv, Continued, Journal!Whole
  <2>. QED
    BY <2>1, <2>8, <2>9, <2>10, <2>11
<1>8. ASSUME NEW w \in Runs, Journal!ReadBack(w) PROVE JournalInv'
  <2>1. /\ op[w] # None /\ op[w].at = "renamed" /\ op' = [op EXCEPT ![w] = None]
        /\ UNCHANGED <<file, raced, chain>>
    BY <1>8 DEF Journal!ReadBack
  <2>2. op[w] \in Updates /\ file \in JournalFiles
    BY <2>1 DEF JournalTypes, FileInv
  <2>3. op'[w] = None /\ \A v \in Runs : v # w => op'[v] = op[v]
    BY <2>1 DEF JournalTypes
  <2>4. op' \in [Runs -> Updates \cup {None}]
    BY <2>1 DEF JournalTypes
  <2>5. CASE file.doc = op[w].doc
    <3>1. handle' = [handle EXCEPT ![w] = file] /\ told' = Journal!Told(Journal!ToSet(file.doc.transfers))
      BY <1>8, <2>5 DEF Journal!ReadBack
    <3>2. file \in Handles /\ file.doc \in Journal!Documents /\ Journal!Whole(file)
      BY <2>2, <2>5, Real DEF JournalFiles, Handles, Updates, Journal!Whole, Journal!Torn
    <3>3. JournalTypes'
      BY <2>1, <2>4, <3>1, <3>2, TransfersTyped DEF JournalTypes, Journal!Told
    <3>4. handle'[w] = file /\ \A v \in Runs : v # w => handle'[v] = handle[v]
      BY <3>1 DEF JournalTypes
    <3>5. FileInv' /\ ChainInv' /\ TruthInv'
      BY <2>1, <2>3, <3>2, <3>4 DEF FileInv, ChainInv, Account, TruthInv, Truthful, True, Journal!Whole
    <3>6. ASSUME ~raced, KeptInv PROVE KeptInv'
      <4>1. told' = told \cup Journal!ToSet(file.doc.transfers)
        BY <3>1, <3>6 DEF Journal!Told
      <4>2. Continued(told', file.doc)
        BY <3>2, <3>6, <4>1, KeptItself DEF KeptInv, Continued
      <4>. QED
        BY <2>1, <2>3, <3>2, <3>4, <3>6, <4>1, <4>2 DEF KeptInv, Continued, Pending, Creating, Journal!Whole
    <3>. QED
      BY <2>1, <3>3, <3>5, <3>6
  <2>6. CASE file.doc # op[w].doc
    <3>1. UNCHANGED <<handle, told>>
      BY <1>8, <2>6 DEF Journal!ReadBack
    <3>2. JournalTypes' /\ FileInv' /\ ChainInv' /\ TruthInv' /\ (KeptInv => KeptInv')
      BY <2>1, <2>3, <2>4, <3>1
         DEF JournalTypes, FileInv, ChainInv, Account, TruthInv, Truthful, True, KeptInv, Continued, Pending,
             Creating, Journal!Whole
    <3>. QED
      BY <2>1, <3>2
  <2>. QED
    BY <2>5, <2>6
<1>9. ASSUME NEW w \in Runs, Journal!Abandon(w) PROVE JournalInv'
  <2>1. /\ op' = [op EXCEPT ![w] = None] /\ handle' \in {handle, [handle EXCEPT ![w] = None]}
        /\ UNCHANGED <<file, told, raced, chain>>
    BY <1>9 DEF Journal!Abandon
  <2>2. op'[w] = None /\ \A v \in Runs : v # w => op'[v] = op[v]
    BY <2>1 DEF JournalTypes
  <2>3. \A v \in Runs : handle'[v] \in {handle[v], None}
    BY <2>1 DEF JournalTypes
  <2>4. JournalTypes'
    BY <2>1 DEF JournalTypes
  <2>5. FileInv' /\ ChainInv' /\ TruthInv' /\ (KeptInv => KeptInv')
    BY <2>1, <2>2, <2>3
       DEF FileInv, ChainInv, Account, TruthInv, Truthful, True, KeptInv, Continued, Pending, Creating,
           Journal!Whole
  <2>. QED
    BY <2>1, <2>4, <2>5
<1>10. ASSUME NEW w \in Runs, Journal!Intend(w) PROVE JournalInv'
  <2>1. PICK i \in DOMAIN plan, tx \in Txs \ Misfits :
          Journal!RecordIntent(w, [to |-> plan[i].to, nonce |-> plan[i].nonce, digest |-> tx,
                           hash |-> None, state |-> "BROADCAST_INTENT"])
    BY <1>10 DEF Journal!Intend
  <2>2. Journal!Idle(w)
    BY <1>10 DEF Journal!Intend
  <2> DEFINE t == [to |-> plan[i].to, nonce |-> plan[i].nonce, digest |-> tx, hash |-> None,
                   state |-> "BROADCAST_INTENT"]
  <2>3. Journal!RecordIntent(w, t) /\ t.hash = None /\ t.state = "BROADCAST_INTENT"
    BY <2>1
  <2> HIDE DEF t
  <2>. QED
    BY <2>2, <2>3, RecordIntentKeeps
<1>11. ASSUME NEW w \in Runs, Journal!Send(w) PROVE JournalInv'
  <2>1. PICK t \in Journal!Known(w) : chain' = [chain EXCEPT ![t.to].sent = @ \cup {t.digest}]
    BY <1>11 DEF Journal!Send
  <2>2. ChainInv' /\ Learns
    BY <2>1, SendChanges
  <2>. QED
    BY <1>11, <2>2, ChainKeeps DEF Journal!Send
<1>12. ASSUME NEW w \in Runs, Journal!Recover(w) PROVE JournalInv'
  BY <1>12, RecoverKeeps
<1>. QED
  BY <1>0, <1>1, <1>2, <1>3, <1>4, <1>5, <1>6, <1>7, <1>8, <1>9, <1>10, <1>11, <1>12
     DEF Journal!Next, Journal!RunStep

----------------------------------------------------------------------------
(* The journal: theorems                                                   *)

\* Whatever the runs, the node and the other payers do, every document of the journal, in the
\* file, in a stale handle or in an update under way, is well formed and true, and no update
\* that was not outrun forgets what a caller was shown.
THEOREM JournalInductive ==
  ASSUME Journal!JournalAssumption
  PROVE  Journal!Spec => []JournalInv
<1>. QED
  BY InitJournal, NextKeeps, PTL DEF Journal!Spec

\* A transfer recorded as observed was sent and pays what it should, and one recorded as
\* funded reached its recipient, however late the answers were that it rests on
\* (classifyFundingRecovery).
THEOREM JournalIsTrue ==
  ASSUME Journal!JournalAssumption
  PROVE  Journal!Spec => []Journal!RecordsAreTrue
<1>1. JournalInv => Journal!RecordsAreTrue
  BY DEF JournalInv, TruthInv, Truthful, True, Journal!RecordsAreTrue
<1>. QED
  BY <1>1, JournalInductive, PTL

\* What a caller was shown stays recorded, as long as no update is renamed over one that it
\* had not read (update, openFundingJournal).
THEOREM JournalKeeps ==
  ASSUME Journal!JournalAssumption
  PROVE  Journal!Spec => []Journal!RecordsKept
<1>1. JournalInv => Journal!RecordsKept
  BY DEF JournalInv, KeptInv, Continued, Journal!RecordsKept
<1>. QED
  BY <1>1, JournalInductive, PTL
=============================================================================
