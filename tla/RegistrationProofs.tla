------------------------- MODULE RegistrationProofs -------------------------
(***************************************************************************)
(* Theorems about Registration, for any number of runs of one wallet, any   *)
(* fees, failures and kills: nothing registers the agent that no checkpoint *)
(* names, the metadata is set once, a run that reports an identity has one, *)
(* and what a lost run leaves suffices to finish.                          *)
(***************************************************************************)
EXTENDS Registration, TLAPS, FiniteSetTheorems, SequenceTheorems, WellFoundedInduction

----------------------------------------------------------------------------
(* Types                                                                   *)

Transactions ==
  [call : {"register", "metadata"}, nonce : Nat, fee : Nat, name : DisplayNames \cup {"wallet"}]

Maybe(S) == {<<>>} \cup {<<x>> : x \in S}

Documents ==
  [kind : {"intent", "recovery"}, register : Transactions, metadata : Maybe(Transactions)]

Files == {Absent, Torn} \cup {Whole(x) : x \in Documents}

Points ==
  {"idle", "failed", "ok", "create", "fill", "registry", "nonce", "register", "receipt",
   "finalize", "recheck", "count", "metadata", "settle"}

States ==
  [pc : Points, record : Maybe(Documents), tx : Maybe(Transactions), file : Names, then : Points]

Types ==
  /\ files \in [Names -> Files]
  /\ pool \subseteq Transactions /\ mined \in Seq([tx : Transactions, ok : BOOLEAN])
  /\ run \in [Runs -> States] /\ nameOf \in [Runs -> DisplayNames]

----------------------------------------------------------------------------
(* The invariant                                                           *)

\* A metadata transaction leaves only when those before it were reverted.
Earlier(t) == t.nonce >= 1 /\ \A k \in 2..t.nonce : k \in DOMAIN mined /\ ~mined[k].ok

\* A record's metadata transaction, if it has one, is one of those.
Sound(record) == record.metadata # <<>> => Earlier(record.metadata[1])

Named(tx) == \E n \in Checkpoints : Readable(n) /\ Content(n).register = tx

Done(call, name) ==
  \E i \in DOMAIN mined : mined[i].ok /\ mined[i].tx.call = call /\ mined[i].tx.name = name

Saving(s, then) == s.pc \in {"create", "fill"} /\ s.then = then

\* What a run in state s under a name knows.
Good(s, name) ==
  /\ s.pc \in {"create", "fill", "finalize", "count", "metadata", "recheck"} => s.record # <<>>
  /\ s.pc \in {"register", "receipt", "metadata", "recheck", "settle"} => s.tx # <<>>
  /\ s.pc \notin {"idle", "failed", "ok"} /\ ~Saving(s, "idle") => s.file \in Checkpoints
  /\ s.record # <<>> => Sound(s.record[1])
  /\ Saving(s, "register") \/ s.pc = "register" => s.tx # <<>> /\ s.tx[1].call = "register"
  /\ Saving(s, "register") => s.record[1].register = s.tx[1]
  /\ s.pc = "register" => Named(s.tx[1])
  /\ s.pc \in {"create", "fill"} => s.then \in {"idle", "register", "registry", "settle"}
  /\ Saving(s, "settle") => s.tx # <<>>
  /\ s.pc = "metadata" => s.tx[1].call = "metadata" /\ Earlier(s.tx[1])
  /\ s.pc = "recheck" => s.tx = s.record[1].metadata
  /\ s.pc = "count" /\ s.record[1].metadata # <<>> => Settled(s.record[1].metadata[1], FALSE)
  /\ s.pc \in {"count", "recheck", "metadata", "settle", "ok"} \/ Saving(s, "settle")
       => Done("register", name)
  /\ s.pc = "ok" => Done("metadata", name)

\* A file that is being written is nobody else's.
Exclusive ==
  /\ \A r \in Runs : At(r, "fill") => files[run[r].file] = Torn
  /\ \A r, q \in Runs : r # q /\ At(r, "fill") /\ At(q, "fill") => run[r].file # run[q].file

SoundFiles == \A n \in Names : Readable(n) => Sound(Content(n))

SentOK(t) == IF t.call = "register" THEN Named(t) ELSE Earlier(t)

Chain ==
  /\ \A i \in DOMAIN mined : mined[i].tx.nonce = i - 1 /\ SentOK(mined[i].tx)
  /\ \A t \in pool : SentOK(t)

Inductive ==
  /\ Types /\ Exclusive /\ SoundFiles /\ Chain
  /\ \A r \in Runs : Good(run[r], nameOf[r])

----------------------------------------------------------------------------
(* The newest checkpoint                                                   *)

LEMMA Least ==
  ASSUME NEW T, T \subseteq Nat, T # {}
  PROVE  \E x \in T : \A y \in T : x <= y
<1> DEFINE R == OpToRel(<, Nat)
<1>1. IsWellFoundedOn(R, Nat)
  BY NatLessThanWellFounded
<1> HIDE DEF R
<1>2. PICK x \in T : \A y \in T : ~ (<<y, x>> \in R)
  BY <1>1, WFMin
<1>3. \A y \in T : ~(y < x)
  BY <1>2 DEF R, OpToRel
<1>4. QED BY <1>3

LEMMA LatestType ==
  /\ Latest \in Names
  /\ Latest = 0 \/ Exists(Latest)
  /\ \A m \in Checkpoints : Exists(m) => m <= Latest
<1> DEFINE P(n) == /\ n = 0 \/ Exists(n)
                   /\ \A m \in Checkpoints : Exists(m) => m <= n
<1>1. \E n \in Names : P(n)
  <2>1. CASE \A m \in Checkpoints : ~Exists(m)
    <3>1. 0 \in Names /\ P(0)
      BY <2>1 DEF Names, WalletFile
    <3>2. QED BY <3>1
  <2>2. CASE \E m \in Checkpoints : Exists(m)
    <3> DEFINE T == {k \in Nat : k <= MaxFiles /\ MaxFiles - k \in Checkpoints /\ Exists(MaxFiles - k)}
    <3>1. PICK m \in Checkpoints : Exists(m)
      BY <2>2
    <3>2. /\ MaxFiles - m \in Nat /\ MaxFiles - m <= MaxFiles
          /\ MaxFiles - (MaxFiles - m) = m
      BY FilesAssumption DEF Checkpoints
    <3>3. T \subseteq Nat /\ T # {}
      BY <3>1, <3>2
    <3>4. PICK x \in T : \A y \in T : x <= y
      <4> HIDE DEF T
      <4>1. QED BY <3>3, Least
    <3> DEFINE n == MaxFiles - x
    <3>5. n \in Checkpoints /\ Exists(n)
      BY <3>4
    <3>6. ASSUME NEW k \in Checkpoints, Exists(k)
          PROVE  k <= n
      <4>1. /\ MaxFiles - k \in Nat /\ MaxFiles - k <= MaxFiles
            /\ MaxFiles - (MaxFiles - k) = k
        BY FilesAssumption DEF Checkpoints
      <4>2. MaxFiles - k \in T
        BY <3>6, <4>1
      <4>3. x <= MaxFiles - k
        BY <3>4, <4>2
      <4>4. x \in Nat /\ k \in Nat /\ MaxFiles \in Nat
        BY FilesAssumption DEF Checkpoints
      <4>5. QED BY <4>3, <4>4
    <3> HIDE DEF n
    <3>7. QED BY <3>5, <3>6 DEF Names
  <2>3. QED BY <2>1, <2>2
<1>2. Latest = CHOOSE n \in Names : P(n)
  BY DEF Latest
<1> HIDE DEF P
<1>3. Latest \in Names /\ P(Latest)
  BY <1>1, <1>2
<1>4. QED BY <1>3 DEF P

----------------------------------------------------------------------------
(* What lasts                                                              *)

\* What is recorded stays, and the chain grows.
KeepFiles == \A n \in Names : Readable(n) => files'[n] = files[n]
Grows == mined' = mined \/ \E x \in [tx : Transactions, ok : BOOLEAN] : mined' = Append(mined, x)

LEMMA MinedStays ==
  ASSUME Types, Grows
  PROVE  /\ mined' \in Seq([tx : Transactions, ok : BOOLEAN])
         /\ DOMAIN mined \subseteq DOMAIN mined'
         /\ \A i \in DOMAIN mined : mined'[i] = mined[i]
<1>1. CASE mined' = mined
  BY <1>1 DEF Types
<1>2. ASSUME NEW x \in [tx : Transactions, ok : BOOLEAN], mined' = Append(mined, x)
      PROVE  /\ mined' \in Seq([tx : Transactions, ok : BOOLEAN])
             /\ DOMAIN mined \subseteq DOMAIN mined'
             /\ \A i \in DOMAIN mined : mined'[i] = mined[i]
  BY <1>2, AppendProperties DEF Types
<1>3. QED BY <1>1, <1>2 DEF Grows

LEMMA FactsStay ==
  ASSUME Types, Grows, KeepFiles
  PROVE  /\ \A t \in Transactions : Earlier(t) => Earlier(t)'
         /\ \A x \in Documents : Sound(x) => Sound(x)'
         /\ \A t : Named(t) => Named(t)'
         /\ \A t : SentOK(t) /\ t \in Transactions => SentOK(t)'
         /\ \A call, name : Done(call, name) => Done(call, name)'
         /\ \A t, ok : Settled(t, ok) => Settled(t, ok)'
<1>1. \A t \in Transactions : Earlier(t) => Earlier(t)'
  BY MinedStays DEF Earlier
<1>2. \A x \in Documents : Sound(x) => Sound(x)'
  BY <1>1 DEF Sound, Documents, Maybe
<1>3. \A t : Named(t) => Named(t)'
  BY DEF Named, KeepFiles, Readable, Content, Names
<1>4. \A call, name : Done(call, name) => Done(call, name)'
  BY MinedStays DEF Done
<1>5. \A t, ok : Settled(t, ok) => Settled(t, ok)'
  BY MinedStays DEF Settled
<1>6. \A t : SentOK(t) /\ t \in Transactions => SentOK(t)'
  BY <1>1, <1>3 DEF SentOK
<1>7. QED BY <1>1, <1>2, <1>3, <1>4, <1>5, <1>6

LEMMA GoodStays ==
  ASSUME Types, Grows, KeepFiles, NEW s \in States, NEW name, Good(s, name)
  PROVE  Good(s, name)'
<1>1. s.record # <<>> => s.record[1] \in Documents
  BY DEF States, Maybe
<1>2. s.tx # <<>> => s.tx[1] \in Transactions
  BY DEF States, Maybe
<1>3. s.record # <<>> => (Sound(s.record[1]) => Sound(s.record[1])')
  BY <1>1, FactsStay
<1>4. s.tx # <<>> => (Earlier(s.tx[1]) => Earlier(s.tx[1])')
  BY <1>2, FactsStay
<1>5. Named(s.tx[1]) => Named(s.tx[1])'
  BY FactsStay
<1>6. /\ Done("register", name) => Done("register", name)'
      /\ Done("metadata", name) => Done("metadata", name)'
      /\ Settled(s.record[1].metadata[1], FALSE) => Settled(s.record[1].metadata[1], FALSE)'
  BY FactsStay
<1>7. QED BY <1>3, <1>4, <1>5, <1>6 DEF Good, Saving

----------------------------------------------------------------------------
(* Steps of one run                                                        *)

\* What a run's state means is in the files and the chain: a run in the state s is as good as s.
LEMMA GoodOfRun ==
  ASSUME UNCHANGED <<files, mined, nameOf>>, NEW q \in Runs, NEW s, run'[q] = s, Good(s, nameOf[q])
  PROVE  Good(run[q], nameOf[q])'
<1>1. Sound(s.record[1]) => Sound(run[q].record[1])'
  BY DEF Sound, Earlier
<1>2. Named(s.tx[1]) => Named(run[q].tx[1])'
  BY DEF Named, Readable, Content
<1>3. Earlier(s.tx[1]) => Earlier(run[q].tx[1])'
  BY DEF Earlier
<1>4. /\ Done("register", nameOf[q]) => Done("register", nameOf[q])'
      /\ Done("metadata", nameOf[q]) => Done("metadata", nameOf[q])'
  BY DEF Done
<1>5. /\ Saving(run[q], "idle")' <=> Saving(s, "idle")
      /\ Saving(run[q], "register")' <=> Saving(s, "register")
      /\ Saving(run[q], "settle")' <=> Saving(s, "settle")
  BY DEF Saving
<1>6. QED BY <1>1, <1>2, <1>3, <1>4, <1>5 DEF Good, Settled

\* The same, when the files and the chain may have changed and s is good now.
LEMMA GoodNow ==
  ASSUME NEW q \in Runs, NEW s, run'[q] = s, Good(s, nameOf[q])'
  PROVE  Good(run[q], nameOf[q])'
<1>1. Sound(s.record[1])' => Sound(run[q].record[1])'
  BY DEF Sound, Earlier
<1>2. Named(s.tx[1])' => Named(run[q].tx[1])'
  BY DEF Named
<1>3. Earlier(s.tx[1])' => Earlier(run[q].tx[1])'
  BY DEF Earlier
<1>4. /\ Saving(run[q], "idle")' <=> Saving(s, "idle")
      /\ Saving(run[q], "register")' <=> Saving(s, "register")
      /\ Saving(run[q], "settle")' <=> Saving(s, "settle")
  BY DEF Saving
<1>5. QED BY <1>1, <1>2, <1>3, <1>4 DEF Good, Settled

\* A step of a run that changes no file.
LEMMA MoveKeeps ==
  ASSUME Inductive, NEW r \in Runs, NEW s \in States, Good(s, nameOf[r]), s.pc # "fill",
         run' = [run EXCEPT ![r] = s], UNCHANGED <<files, mined, nameOf>>,
         pool' \subseteq Transactions, \A t \in pool' : SentOK(t)
  PROVE  Inductive'
<1>1. Types /\ Grows /\ KeepFiles
  BY DEF Inductive, Grows, KeepFiles
<1>2. /\ run' \in [Runs -> States] /\ run'[r] = s
      /\ \A q \in Runs : q # r => run'[q] = run[q]
  BY DEF Inductive, Types
<1>3. Types'
  BY <1>2 DEF Inductive, Types
<1>4. \A q \in Runs : Good(run'[q], nameOf[q])
  BY <1>2 DEF Inductive
<1>5. \A q \in Runs : Good(run[q], nameOf[q])'
  BY <1>4, GoodOfRun
<1>6. Exclusive'
  BY <1>2 DEF Inductive, Exclusive, At
<1>7. SoundFiles'
  BY DEF Inductive, SoundFiles, Sound, Earlier, Readable, Content
<1>8. Chain'
  BY DEF Inductive, Chain, SentOK, Named, Earlier, Readable, Content
<1>9. QED BY <1>3, <1>5, <1>6, <1>7, <1>8 DEF Inductive

\* The same, when the chain is left alone.
LEMMA QuietKeeps ==
  ASSUME Inductive, NEW r \in Runs, NEW s \in States, Good(s, nameOf[r]), s.pc # "fill",
         run' = [run EXCEPT ![r] = s], UNCHANGED <<files, registryVars, nameOf>>
  PROVE  Inductive'
<1>1. UNCHANGED <<files, mined, nameOf>> /\ pool' \subseteq Transactions /\ \A t \in pool' : SentOK(t)
  BY DEF registryVars, Inductive, Types, Chain
<1>2. QED BY <1>1, MoveKeeps

\* A run that fails or is killed.
LEMMA EndedState ==
  ASSUME NEW pc \in {"idle", "failed"}, NEW name
  PROVE  /\ [Idle EXCEPT !.pc = pc] \in States /\ [Idle EXCEPT !.pc = pc].pc = pc
         /\ Good([Idle EXCEPT !.pc = pc], name)
<1> DEFINE s == [Idle EXCEPT !.pc = pc]
<1>1. s \in States /\ s.pc = pc /\ s.record = <<>>
  BY DEF Idle, States, Points, Maybe, Names, WalletFile
<1> HIDE DEF s
<1>2. Good(s, name)
  BY <1>1 DEF Good, Saving
<1>3. QED BY <1>1, <1>2 DEF s

LEMMA FailKeeps ==
  ASSUME Inductive, NEW r \in Runs, Fail(r), UNCHANGED <<files, mined, nameOf>>,
         pool' \subseteq Transactions, \A t \in pool' : SentOK(t)
  PROVE  Inductive'
<1> DEFINE s == [Idle EXCEPT !.pc = "failed"]
<1>1. s \in States /\ s.pc = "failed" /\ Good(s, nameOf[r])
  BY EndedState
<1>2. run' = [run EXCEPT ![r] = s]
  BY DEF Fail
<1> HIDE DEF s
<1>3. QED BY <1>1, <1>2, MoveKeeps

LEMMA QuietFailKeeps ==
  ASSUME Inductive, NEW r \in Runs, Fail(r), UNCHANGED <<files, registryVars, nameOf>>
  PROVE  Inductive'
<1>1. UNCHANGED <<files, mined, nameOf>> /\ pool' \subseteq Transactions /\ \A t \in pool' : SentOK(t)
  BY DEF registryVars, Inductive, Types, Chain
<1>2. QED BY <1>1, FailKeeps

\* What is known of a run.
LEMMA RunFacts ==
  ASSUME Inductive, NEW r \in Runs
  PROVE  /\ run[r] \in States /\ Good(run[r], nameOf[r]) /\ nameOf[r] \in DisplayNames
         /\ run[r].record # <<>> => Record(r) \in Documents /\ run[r].record = <<Record(r)>>
         /\ run[r].tx # <<>> => Tx(r) \in Transactions /\ run[r].tx = <<Tx(r)>>
BY DEF Inductive, Types, States, Maybe, Record, Tx

LEMMA InitializeKeeps ==
  ASSUME Inductive, NEW r \in Runs, Initialize(r)
  PROVE  Inductive'
<1> DEFINE s == [Idle EXCEPT !.pc = "create", !.record = <<WalletRecord>>,
                             !.file = WalletFile, !.then = "idle"]
<1>1. WalletRecord \in Documents /\ WalletRecord.metadata = <<>>
  BY DEF WalletRecord, Intent, RegisterTx, Documents, Transactions, Maybe
<1>2. s \in States /\ s.pc = "create" /\ s.then = "idle" /\ s.record = <<WalletRecord>>
  BY <1>1 DEF Idle, States, Points, Maybe, Names, WalletFile
<1>3. run' = [run EXCEPT ![r] = s] /\ UNCHANGED <<files, registryVars, nameOf>>
  BY DEF Initialize
<1> HIDE DEF s
<1>4. Good(s, nameOf[r])
  BY <1>1, <1>2 DEF Good, Saving, Sound
<1>5. QED BY <1>2, <1>3, <1>4, QuietKeeps

LEMMA ContentType ==
  ASSUME Inductive, NEW n \in Names, Readable(n)
  PROVE  Content(n) \in Documents /\ Sound(Content(n)) /\ files[n] = Whole(Content(n))
<1>1. PICK x \in Documents : files[n] = Whole(x)
  BY DEF Inductive, Types, Files, Readable
<1>2. Content(n) = x
  BY <1>1 DEF Content, Whole
<1>3. QED BY <1>1, <1>2 DEF Inductive, SoundFiles

LEMMA StartKeeps ==
  ASSUME Inductive, NEW r \in Runs, Start(r)
  PROVE  Inductive'
<1>0. UNCHANGED <<files, registryVars, nameOf>> /\ Latest \in Names /\ Latest < MaxFiles
  BY LatestType DEF Start
<1>a. Latest + 1 \in Checkpoints /\ Latest + 1 \in Names
  BY <1>0, FilesAssumption DEF Names, Checkpoints, WalletFile
<1>1. CASE run' = [run EXCEPT ![r] = [Idle EXCEPT !.pc = "failed"]]
  BY <1>0, <1>1, QuietFailKeeps DEF Fail
<1>2. CASE run' = [run EXCEPT ![r] = [[Idle EXCEPT !.file = Latest + 1] EXCEPT !.pc = "registry"]]
  <2> DEFINE n == Latest + 1
             s == [[Idle EXCEPT !.file = n] EXCEPT !.pc = "registry"]
  <2>1. s \in States /\ s.pc = "registry" /\ s.record = <<>> /\ s.file = n
    <3> HIDE DEF n
    <3>1. n \in Names
      BY <1>a DEF n
    <3>2. QED BY <3>1 DEF Idle, States, Points, Maybe
  <2>2. run' = [run EXCEPT ![r] = s]
    BY <1>2
  <2> HIDE DEF s
  <2>3. Good(s, nameOf[r])
    BY <1>a, <2>1 DEF Good, Saving
  <2>4. QED BY <1>0, <2>1, <2>2, <2>3, QuietKeeps
<1>3. CASE /\ Readable(Latest)
           /\ run' = [run EXCEPT ![r] = [[Idle EXCEPT !.file = Latest + 1]
                                           EXCEPT !.pc = "registry", !.record = <<Content(Latest)>>]]
  <2> DEFINE n == Latest + 1
             x == Content(Latest)
             s == [[Idle EXCEPT !.file = n] EXCEPT !.pc = "registry", !.record = <<x>>]
  <2>1. x \in Documents /\ Sound(x)
    BY <1>0, <1>3, ContentType
  <2>2. run' = [run EXCEPT ![r] = s]
    BY <1>3
  <2>3. s \in States /\ s.pc = "registry" /\ s.record = <<x>> /\ s.file = n
    <3>1. n \in Names
      BY <1>a
    <3> HIDE DEF n, x
    <3>2. QED BY <2>1, <3>1 DEF Idle, States, Points, Maybe
  <2> HIDE DEF s, x
  <2>4. Good(s, nameOf[r])
    BY <1>a, <2>1, <2>3 DEF Good, Saving
  <2>5. QED BY <1>0, <2>2, <2>3, <2>4, QuietKeeps
<1>4. QED BY <1>1, <1>2, <1>3 DEF Start

\* A run that goes on elsewhere.
LEMMA GotoKeeps ==
  ASSUME Inductive, NEW r \in Runs, NEW pc \in Points \ {"fill"}, Goto(r, pc),
         Good([run[r] EXCEPT !.pc = pc], nameOf[r]), UNCHANGED <<files, registryVars, nameOf>>
  PROVE  Inductive'
<1> DEFINE s == [run[r] EXCEPT !.pc = pc]
<1>1. s \in States /\ s.pc = pc
  BY RunFacts DEF States
<1>2. run' = [run EXCEPT ![r] = s]
  BY RunFacts DEF Goto
<1> HIDE DEF s
<1>3. Good(s, nameOf[r])
  BY DEF s
<1>4. QED BY <1>1, <1>2, <1>3, QuietKeeps

LEMMA GoneOn ==
  ASSUME Inductive, NEW r \in Runs, NEW pc \in Points
  PROVE  LET s == [run[r] EXCEPT !.pc = pc]
         IN s.pc = pc /\ s.record = run[r].record /\ s.tx = run[r].tx /\ s.file = run[r].file
            /\ s.then = run[r].then
BY RunFacts DEF States

LEMMA VerifyRegistryKeeps ==
  ASSUME Inductive, NEW r \in Runs, VerifyRegistry(r)
  PROVE  Inductive'
<1>1. At(r, "registry") /\ UNCHANGED <<files, registryVars, nameOf>>
  BY DEF VerifyRegistry
<1>2. PICK pc \in {"finalize", "nonce"} : Goto(r, pc) /\ (pc = "finalize" => run[r].record # <<>>)
  BY DEF VerifyRegistry
<1> DEFINE s == [run[r] EXCEPT !.pc = pc]
<1>3. s.pc = pc /\ s.record = run[r].record /\ s.file = run[r].file
  BY GoneOn DEF Points
<1> HIDE DEF s
<1>4. Good(s, nameOf[r])
  BY <1>1, <1>2, <1>3, RunFacts DEF Good, Saving, At
<1>5. QED BY <1>1, <1>2, <1>4, GotoKeeps DEF s, Points

LEMMA EndKeeps ==
  ASSUME Inductive, NEW r \in Runs, ReadFails(r) \/ Kill(r)
  PROVE  Inductive'
<1>1. CASE ReadFails(r)
  BY <1>1, QuietFailKeeps DEF ReadFails
<1>2. CASE Kill(r)
  <2>1. [Idle EXCEPT !.pc = "idle"] = Idle
    BY DEF Idle
  <2>2. Idle \in States /\ Idle.pc = "idle" /\ Good(Idle, nameOf[r])
    BY <2>1, EndedState
  <2>3. run' = [run EXCEPT ![r] = Idle] /\ UNCHANGED <<files, registryVars, nameOf>>
    BY <1>2 DEF Kill
  <2>4. QED BY <2>2, <2>3, QuietKeeps
<1>3. QED BY <1>1, <1>2

----------------------------------------------------------------------------
(* Files                                                                   *)

\* A step of a run that changes one file, which nobody can read.
LEMMA FileKeeps ==
  ASSUME Inductive, NEW r \in Runs, NEW s \in States, NEW n \in Names, NEW f \in Files,
         files' = [files EXCEPT ![n] = f], ~Readable(n),
         f = Absent \/ f = Torn \/ \E x \in Documents : f = Whole(x) /\ Sound(x),
         run' = [run EXCEPT ![r] = s], UNCHANGED <<registryVars, nameOf>>,
         Good(s, nameOf[r])',
         s.pc = "fill" => s.file = n /\ f = Torn,
         \A q \in Runs : q # r /\ At(q, "fill") => run[q].file # n
  PROVE  Inductive'
<1>1. /\ run' \in [Runs -> States] /\ run'[r] = s
      /\ \A q \in Runs : q # r => run'[q] = run[q]
  BY DEF Inductive, Types
<1>2. /\ files' \in [Names -> Files] /\ files'[n] = f
      /\ \A m \in Names : m # n => files'[m] = files[m]
  BY DEF Inductive, Types
<1>3. Types /\ Grows /\ KeepFiles
  BY <1>2 DEF Inductive, Grows, KeepFiles, registryVars
<1>4. Types'
  BY <1>1, <1>2 DEF Inductive, Types, registryVars
<1>5. \A c \in States : \A name : Good(c, name) => Good(c, name)'
  BY <1>3, GoodStays
<1>6. \A q \in Runs : Good(run[q], nameOf[q])'
  <2>1. ASSUME NEW q \in Runs, q # r
        PROVE  Good(run[q], nameOf[q])'
    <3>1. run'[q] = run[q] /\ run[q] \in States /\ Good(run[q], nameOf[q]) /\ nameOf' = nameOf
      BY <1>1, <2>1, RunFacts
    <3>2. Good(run'[q], nameOf'[q])
      BY <3>1
    <3>3. run'[q] \in States
      BY <3>1
    <3>4. QED BY <1>5, <3>2, <3>3
  <2>2. Good(run[r], nameOf[r])'
    <3>1. run'[r] = s /\ nameOf'[r] = nameOf[r]
      BY <1>1
    <3>2. QED BY <3>1, GoodNow
  <2>3. QED BY <2>1, <2>2
<1>7. Exclusive'
  <2>1. ASSUME NEW q \in Runs, At(q, "fill")'
        PROVE  files'[run'[q].file] = Torn /\ (q # r => At(q, "fill") /\ run'[q] = run[q] /\ run[q].file # n)
    <3>1. CASE q = r
      BY <1>1, <1>2, <2>1, <3>1 DEF At
    <3>2. CASE q # r
      <4>1. At(q, "fill") /\ run'[q] = run[q] /\ run[q].file # n /\ run[q].file \in Names
        BY <1>1, <2>1, <3>2, RunFacts DEF At, States
      <4>2. files[run[q].file] = Torn
        BY <4>1 DEF Inductive, Exclusive
      <4>3. QED BY <1>2, <4>1, <4>2
    <3>3. QED BY <3>1, <3>2
  <2>2. At(r, "fill")' => run'[r].file = n
    BY <1>1 DEF At
  <2>3. QED BY <2>1, <2>2 DEF Inductive, Exclusive
<1>8. SoundFiles'
  <2>1. \A x \in Documents : Sound(x) => Sound(x)'
    BY <1>3, FactsStay
  <2>2. ASSUME NEW m \in Names, m # n, Readable(m)'
        PROVE  Sound(Content(m))'
    <3>1. files'[m] = files[m] /\ Readable(m)
      BY <1>2, <2>2 DEF Readable
    <3>2. Content(m) \in Documents /\ Sound(Content(m))
      BY <3>1, ContentType
    <3>3. Content(m)' = Content(m)
      BY <3>1 DEF Content
    <3>4. Sound(Content(m)')
      BY <3>2, <3>3
    <3>5. QED BY <2>1, <3>2, <3>3, <3>4
  <2>3. ASSUME Readable(n)'
        PROVE  Sound(Content(n))'
    <3>1. PICK x \in Documents : f = Whole(x) /\ Sound(x)
      BY <1>2, <2>3 DEF Readable
    <3>2. Content(n)' = x
      BY <1>2, <3>1 DEF Content, Whole
    <3>3. QED BY <2>1, <3>1, <3>2
  <2>4. QED BY <2>2, <2>3 DEF SoundFiles
<1>9. Chain'
  <2>1. \A t \in Transactions : SentOK(t) => SentOK(t)'
    BY <1>3, FactsStay
  <2>2. UNCHANGED <<mined, pool>>
    BY DEF registryVars
  <2>3. \A i \in DOMAIN mined : mined[i].tx \in Transactions
    <3>1. mined \in Seq([tx : Transactions, ok : BOOLEAN])
      BY DEF Inductive, Types
    <3>2. DOMAIN mined = 1..Len(mined)
      BY <3>1
    <3>3. \A i \in DOMAIN mined : mined[i] \in [tx : Transactions, ok : BOOLEAN]
      BY <3>1, <3>2, ElementOfSeq
    <3>4. QED BY <3>3
  <2>4. pool \subseteq Transactions
    BY DEF Inductive, Types
  <2>5. QED BY <2>1, <2>2, <2>3, <2>4 DEF Inductive, Chain
<1>10. QED BY <1>4, <1>6, <1>7, <1>8, <1>9 DEF Inductive

LEMMA CreateKeeps ==
  ASSUME Inductive, NEW r \in Runs, CreateCheckpoint(r)
  PROVE  Inductive'
<1>0. At(r, "create") /\ UNCHANGED <<registryVars, nameOf>>
  BY DEF CreateCheckpoint
<1>1. CASE Fail(r) /\ UNCHANGED files
  BY <1>0, <1>1, QuietFailKeeps
<1>2. CASE Create(run[r].file) /\ Goto(r, "fill")
  <2>1. PICK n, s : n = run[r].file /\ s = [run[r] EXCEPT !.pc = "fill"]
    OBVIOUS
  <2>2. n \in Names /\ s \in States
    BY <2>1, RunFacts DEF States, Points
  <2>3. s.pc = "fill" /\ s.record = run[r].record /\ s.tx = run[r].tx /\ s.file = n
        /\ s.then = run[r].then /\ run[r].file = n
    BY <2>1, GoneOn DEF Points
  <2>4. files' = [files EXCEPT ![n] = Torn] /\ files[n] = Absent /\ Torn \in Files
    BY <1>2, <2>1 DEF Create, Exists, Files
  <2>5. run' = [run EXCEPT ![r] = s]
    BY <1>2, <2>1, RunFacts DEF Goto
  <2>6. ~Readable(n) /\ Absent # Torn
    BY <2>4 DEF Readable, Absent, Torn
  <2>7. \A q \in Runs : q # r /\ At(q, "fill") => run[q].file # n
    BY <2>4, <2>6 DEF Inductive, Exclusive
  <2>8. Good(run[r], nameOf[r]) /\ run[r].pc = "create"
    BY <1>0, RunFacts DEF At
  <2>9. Good(s, nameOf[r])
    BY <2>3, <2>8 DEF Good, Saving
  <2>10. Types /\ Grows /\ KeepFiles
    <3>1. \A m \in Names : m # n => files'[m] = files[m]
      BY <2>4 DEF Inductive, Types
    <3>2. QED BY <1>0, <2>6, <3>1 DEF Inductive, Grows, KeepFiles, registryVars
  <2>11. Good(s, nameOf[r])'
    <3>1. \A c \in States : \A name : Good(c, name) => Good(c, name)'
      BY <2>10, GoodStays
    <3>2. Good(s, nameOf'[r])
      BY <1>0, <2>9
    <3>3. QED BY <2>2, <3>1, <3>2
  <2>12. QED BY <1>0, <2>2, <2>3, <2>4, <2>5, <2>6, <2>7, <2>11, FileKeeps
<1>3. QED BY <1>1, <1>2 DEF CreateCheckpoint

LEMMA FillKeeps ==
  ASSUME Inductive, NEW r \in Runs, FillCheckpoint(r)
  PROVE  Inductive'
<1>0. /\ run[r].pc = "fill" /\ UNCHANGED <<registryVars, nameOf>>
      /\ run[r] \in States /\ Good(run[r], nameOf[r])
  BY RunFacts DEF FillCheckpoint, At
<1>1. run[r].record # <<>> /\ Record(r) \in Documents /\ Sound(Record(r))
  BY <1>0, RunFacts DEF Good, Record
<1>2. PICK n, x : n = run[r].file /\ x = Record(r)
  OBVIOUS
<1>3. n \in Names /\ files[n] = Torn /\ ~Readable(n)
  BY <1>0, <1>2 DEF States, Inductive, Exclusive, At, Readable
<1>4. \A q \in Runs : q # r /\ At(q, "fill") => run[q].file # n
  BY <1>0, <1>2 DEF Inductive, Exclusive, At
<1>5. ASSUME NEW f \in {Absent, Torn, Whole(x)}, files' = [files EXCEPT ![n] = f]
      PROVE  KeepFiles /\ files'[n] = f /\ f \in Files
             /\ (f = Absent \/ f = Torn \/ \E y \in Documents : f = Whole(y) /\ Sound(y))
  <2>1. \A m \in Names : m # n => files'[m] = files[m]
    BY <1>5 DEF Inductive, Types
  <2>2. KeepFiles
    BY <1>3, <2>1 DEF KeepFiles
  <2>3. files'[n] = f
    BY <1>3, <1>5 DEF Inductive, Types
  <2>4. QED BY <1>1, <1>2, <2>2, <2>3 DEF Files
<1>6. ASSUME GiveUp(run[r].file, Record(r)), Fail(r)
      PROVE  Inductive'
  <2>1. PICK f \in {Absent, Torn, Whole(x)} : files' = [files EXCEPT ![n] = f]
    BY <1>2, <1>6 DEF GiveUp
  <2>2. PICK s : s = [Idle EXCEPT !.pc = "failed"]
    OBVIOUS
  <2>3. s \in States /\ s.pc = "failed" /\ Good(s, nameOf[r])
    BY <2>2, EndedState
  <2>4. Good(s, nameOf[r])'
    <3>1. Types /\ Grows /\ KeepFiles
      BY <1>0, <1>5, <2>1 DEF Inductive, Grows, registryVars
    <3>2. \A c \in States : \A name : Good(c, name) => Good(c, name)'
      BY <3>1, GoodStays
    <3>3. Good(s, nameOf'[r])
      BY <1>0, <2>3
    <3>4. QED BY <2>3, <3>2, <3>3
  <2>5. run' = [run EXCEPT ![r] = s]
    BY <1>6, <2>2 DEF Fail
  <2>6. f \in Files /\ (f = Absent \/ f = Torn \/ \E y \in Documents : f = Whole(y) /\ Sound(y))
    BY <1>5, <2>1
  <2>7. QED BY <1>0, <1>3, <1>4, <2>1, <2>3, <2>4, <2>5, <2>6, FileKeeps
<1>7. ASSUME Fill(run[r].file, Record(r)),
             run' = [run EXCEPT ![r].pc = run[r].then, ![r].then = "idle",
                                ![r].file = IF @ < MaxFiles THEN @ + 1 ELSE @]
      PROVE  Inductive'
  <2>1. PICK f : f = Whole(x)
    OBVIOUS
  <2>2. files' = [files EXCEPT ![n] = f] /\ f \in {Absent, Torn, Whole(x)}
    BY <1>2, <1>7, <2>1 DEF Fill
  <2>3. /\ KeepFiles /\ files'[n] = f /\ f \in Files
        /\ (f = Absent \/ f = Torn \/ \E y \in Documents : f = Whole(y) /\ Sound(y))
    BY <1>5, <2>2
  <2>4. PICK m : m = IF n < MaxFiles THEN n + 1 ELSE n
    OBVIOUS
  <2>5. m \in Names /\ m \in Checkpoints
    BY <1>3, <2>4, FilesAssumption DEF Names, WalletFile, Checkpoints
  <2>6. PICK s : s = [run[r] EXCEPT !.pc = run[r].then, !.then = "idle", !.file = m]
    OBVIOUS
  <2>7. /\ s \in States /\ s.pc = run[r].then /\ s.then = "idle" /\ s.file = m
        /\ s.record = run[r].record /\ s.tx = run[r].tx
    <3>1. run[r].then \in Points
      BY <1>0 DEF States
    <3>2. "idle" \in Points
      BY DEF Points
    <3>3. QED BY <1>0, <2>5, <2>6, <3>1, <3>2 DEF States
  <2>8. run' = [run EXCEPT ![r] = s]
    BY <1>0, <1>2, <1>7, <2>4, <2>6 DEF Inductive, Types, States
  <2>9. run[r].then \in {"idle", "register", "registry", "settle"}
    BY <1>0 DEF Good
  <2>10. s.pc = "register" => Named(s.tx[1])'
    <3>1. SUFFICES ASSUME s.pc = "register"
                   PROVE  Named(s.tx[1])'
      OBVIOUS
    <3>2. Saving(run[r], "register") /\ ~Saving(run[r], "idle")
      BY <1>0, <2>7, <3>1 DEF Saving
    <3>3. run[r].record[1].register = run[r].tx[1] /\ n \in Checkpoints
      BY <1>0, <1>2, <3>2 DEF Good
    <3>4. Readable(n)' /\ Content(n)' = x
      BY <2>1, <2>3 DEF Readable, Content, Whole, Absent, Torn
    <3>5. x.register = s.tx[1]
      BY <1>2, <2>7, <3>3 DEF Record
    <3>6. QED BY <3>3, <3>4, <3>5 DEF Named
  <2>11. Types /\ Grows /\ KeepFiles
    BY <1>0, <2>3 DEF Inductive, Grows, registryVars
  <2>12. Sound(s.record[1])'
    <3>1. s.record[1] = x /\ x \in Documents /\ Sound(x)
      BY <1>1, <1>2, <2>7 DEF Record
    <3>2. \A y \in Documents : Sound(y) => Sound(y)'
      BY <2>11, FactsStay
    <3>3. QED BY <3>1, <3>2
  <2>13. s.pc = "settle" => s.tx # <<>> /\ Done("register", nameOf[r])'
    <3>1. SUFFICES ASSUME s.pc = "settle"
                   PROVE  s.tx # <<>> /\ Done("register", nameOf[r])'
      OBVIOUS
    <3>2. Saving(run[r], "settle")
      BY <1>0, <2>7, <3>1 DEF Saving
    <3>3. run[r].tx # <<>> /\ Done("register", nameOf[r])
      BY <1>0, <3>2 DEF Good
    <3>4. Done("register", nameOf'[r])
      BY <1>0, <3>3
    <3>5. \A call, name : Done(call, name) => Done(call, name)'
      BY <2>11, FactsStay
    <3>6. QED BY <2>7, <3>3, <3>4, <3>5
  <2>14. s.pc = "register" => s.tx # <<>> /\ s.tx[1].call = "register"
    BY <1>0, <2>7 DEF Good, Saving
  <2>15. Good(s, nameOf[r])'
    BY <2>5, <2>7, <2>9, <2>10, <2>12, <2>13, <2>14 DEF Good, Saving
  <2>16. s.pc # "fill"
    BY <2>7, <2>9
  <2>17. QED BY <1>0, <1>3, <1>4, <2>2, <2>3, <2>7, <2>8, <2>15, <2>16, FileKeeps
<1>8. QED BY <1>6, <1>7 DEF FillCheckpoint

----------------------------------------------------------------------------
(* registerIdentity                                                        *)

LEMMA RecordIntentKeeps ==
  ASSUME Inductive, NEW r \in Runs, run[r].pc = "nonce", RecordIntent(r),
         UNCHANGED <<files, registryVars, nameOf>>
  PROVE  Inductive'
<1>1. CASE Fail(r)
  BY <1>1, QuietFailKeeps
<1>2. ASSUME NEW fee \in Fees, NEW tx, tx = RegisterTx(nameOf[r], fee),
             run' = [run EXCEPT ![r].pc = "create", ![r].record = <<Intent(tx)>>,
                                ![r].tx = <<tx>>, ![r].then = "register"]
      PROVE  Inductive'
  <2>1. PICK x : x = Intent(tx)
    OBVIOUS
  <2>2. tx \in Transactions /\ tx.call = "register"
    BY <1>2, RunFacts, RegistrationAssumption DEF RegisterTx, Transactions
  <2>3. x \in Documents /\ x.register = tx /\ x.metadata = <<>>
    BY <2>1, <2>2 DEF Intent, Documents, Maybe
  <2>4. PICK s : s = [run[r] EXCEPT !.pc = "create", !.record = <<x>>, !.tx = <<tx>>,
                                    !.then = "register"]
    OBVIOUS
  <2>5. /\ s \in States /\ s.pc = "create" /\ s.then = "register" /\ s.record = <<x>>
        /\ s.tx = <<tx>> /\ s.file = run[r].file
    <3>1. <<x>> \in Maybe(Documents) /\ <<tx>> \in Maybe(Transactions)
      BY <2>2, <2>3 DEF Maybe
    <3>2. "create" \in Points /\ "register" \in Points
      BY DEF Points
    <3>3. run[r] \in States
      BY RunFacts
    <3>4. QED BY <2>4, <3>1, <3>2, <3>3 DEF States
  <2>6. run' = [run EXCEPT ![r] = s]
    BY <1>2, <2>1, <2>4 DEF Inductive, Types, States
  <2>7. run[r].file \in Checkpoints
    BY RunFacts DEF Good, Saving
  <2>8. Good(s, nameOf[r])
    BY <2>2, <2>3, <2>5, <2>7 DEF Good, Saving, Sound
  <2>9. QED BY <2>5, <2>6, <2>8, QuietKeeps
<1>3. QED BY <1>1, <1>2 DEF RecordIntent

LEMMA TakeUpKeeps ==
  ASSUME Inductive, NEW r \in Runs, run[r].pc = "nonce", TakeUpIntent(r),
         UNCHANGED <<files, registryVars, nameOf>>
  PROVE  Inductive'
<1>1. CASE Fail(r)
  BY <1>1, QuietFailKeeps
<1>2. ASSUME NEW tx, tx = Record(r).register, run[r].record # <<>>,
             run' = [run EXCEPT ![r].pc = "receipt", ![r].tx = <<tx>>]
      PROVE  Inductive'
  <2>1. tx \in Transactions
    BY <1>2, RunFacts DEF Documents
  <2>2. PICK s : s = [run[r] EXCEPT !.pc = "receipt", !.tx = <<tx>>]
    OBVIOUS
  <2>3. /\ s \in States /\ s.pc = "receipt" /\ s.tx = <<tx>> /\ s.file = run[r].file
        /\ s.record = run[r].record
    <3>1. <<tx>> \in Maybe(Transactions) /\ "receipt" \in Points /\ run[r] \in States
      BY <2>1, RunFacts DEF Maybe, Points
    <3>2. QED BY <2>2, <3>1 DEF States
  <2>4. run' = [run EXCEPT ![r] = s]
    BY <1>2, <2>2 DEF Inductive, Types, States
  <2>5. run[r].file \in Checkpoints /\ Good(run[r], nameOf[r])
    BY RunFacts DEF Good, Saving
  <2>6. Good(s, nameOf[r])
    BY <2>3, <2>5 DEF Good, Saving
  <2>7. QED BY <2>3, <2>4, <2>6, QuietKeeps
<1>3. QED BY <1>1, <1>2 DEF TakeUpIntent, IntendedTransaction

LEMMA ReadNonceKeeps ==
  ASSUME Inductive, NEW r \in Runs, ReadNonce(r)
  PROVE  Inductive'
BY RecordIntentKeeps, TakeUpKeeps DEF ReadNonce, At

\* What the node takes is as what it has.
LEMMA TakeFacts ==
  ASSUME Inductive, NEW tx \in Transactions, SentOK(tx), Take(tx)
  PROVE  /\ UNCHANGED mined
         /\ pool' \subseteq Transactions
         /\ \A t \in pool' : SentOK(t)
BY DEF Take, Inductive, Types, Chain

LEMMA FailedSendKeeps ==
  ASSUME Inductive, NEW r \in Runs, Fail(r), UNCHANGED <<files, nameOf>>, Tx(r) \in Transactions,
         SentOK(Tx(r)), Take(Tx(r)) \/ UNCHANGED registryVars
  PROVE  Inductive'
<1>1. CASE UNCHANGED registryVars
  BY <1>1, QuietFailKeeps
<1>2. CASE Take(Tx(r))
  <2>1. UNCHANGED mined /\ pool' \subseteq Transactions /\ \A t \in pool' : SentOK(t)
    BY <1>2, TakeFacts
  <2>2. QED BY <2>1, FailKeeps
<1>3. QED BY <1>1, <1>2

LEMMA BroadcastRegisterKeeps ==
  ASSUME Inductive, NEW r \in Runs, BroadcastRegister(r)
  PROVE  Inductive'
<1>0. run[r].pc = "register" /\ UNCHANGED <<files, nameOf>> /\ Good(run[r], nameOf[r])
  BY RunFacts DEF BroadcastRegister, At
<1>1. Tx(r) \in Transactions /\ SentOK(Tx(r))
  BY <1>0, RunFacts DEF Good, SentOK, Tx
<1>2. CASE Fail(r) /\ (Take(Tx(r)) \/ UNCHANGED registryVars)
  BY <1>0, <1>1, <1>2, FailedSendKeeps
<1>3. CASE Take(Tx(r)) /\ Goto(r, "receipt")
  <2>1. UNCHANGED mined /\ pool' \subseteq Transactions /\ \A t \in pool' : SentOK(t)
    BY <1>1, <1>3, TakeFacts
  <2>2. PICK s : s = [run[r] EXCEPT !.pc = "receipt"]
    OBVIOUS
  <2>3. s \in States
    BY <2>2, RunFacts DEF States, Points
  <2>4. s.pc = "receipt" /\ s.record = run[r].record /\ s.tx = run[r].tx /\ s.file = run[r].file
    BY <2>2, GoneOn DEF Points
  <2>5. run' = [run EXCEPT ![r] = s]
    BY <1>3, <2>2, RunFacts DEF Goto
  <2>6. Good(s, nameOf[r])
    BY <1>0, <2>4 DEF Good, Saving
  <2>7. UNCHANGED <<files, mined, nameOf>>
    BY <1>0, <2>1
  <2>8. QED BY <2>1, <2>3, <2>4, <2>5, <2>6, <2>7, MoveKeeps
<1>4. QED BY <1>2, <1>3 DEF BroadcastRegister, Send

\* A run is left creating the checkpoint x, what follows named by then.
Saves(r, x, then) ==
  \E s \in States :
    /\ s.pc = "create" /\ s.then = then /\ s.record = <<x>> /\ s.tx = run[r].tx
    /\ s.file = run[r].file /\ run' = [run EXCEPT ![r] = s]

\* A checkpoint that is about to be written.
LEMMA SavingState ==
  ASSUME Inductive, NEW r \in Runs, NEW x \in Documents, NEW then \in Points,
         Save(r, x, then)
  PROVE  Saves(r, x, then)
<1>1. PICK s : s = [run[r] EXCEPT !.pc = "create", !.record = <<x>>, !.then = then]
  OBVIOUS
<1>2. <<x>> \in Maybe(Documents) /\ "create" \in Points /\ run[r] \in States
  BY RunFacts DEF Maybe, Points
<1>3. /\ s \in States /\ s.pc = "create" /\ s.then = then /\ s.record = <<x>>
      /\ s.tx = run[r].tx /\ s.file = run[r].file
  BY <1>1, <1>2 DEF States
<1>4. run' = [run EXCEPT ![r] = s]
  BY <1>1 DEF Save, Inductive, Types, States
<1>5. QED BY <1>3, <1>4 DEF Saves

LEMMA AwaitRegisterKeeps ==
  ASSUME Inductive, NEW r \in Runs, AwaitRegister(r)
  PROVE  Inductive'
<1>0. /\ run[r].pc = "receipt" /\ UNCHANGED <<files, registryVars, nameOf>>
      /\ Good(run[r], nameOf[r])
  BY RunFacts DEF AwaitRegister, At
<1>1. CASE Fail(r)
  BY <1>0, <1>1, QuietFailKeeps
<1>2. CASE Save(r, Recovery(Tx(r)), "registry")
  <2>1. PICK x : x = Recovery(Tx(r))
    OBVIOUS
  <2>2. Tx(r) \in Transactions
    BY <1>0, RunFacts DEF Good
  <2>3. x \in Documents /\ x.metadata = <<>>
    BY <2>1, <2>2 DEF Recovery, Documents, Maybe
  <2>4. "registry" \in Points /\ Save(r, x, "registry") /\ Inductive
    BY <1>2, <2>1 DEF Points
  <2>5. PICK s \in States :
           /\ s.pc = "create" /\ s.then = "registry" /\ s.record = <<x>> /\ s.tx = run[r].tx
           /\ s.file = run[r].file /\ run' = [run EXCEPT ![r] = s]
    <3>1. Saves(r, x, "registry")
      BY ONLY r \in Runs, <2>3, <2>4, SavingState
    <3>2. QED BY <3>1 DEF Saves
  <2>6. Good(s, nameOf[r])
    BY <1>0, <2>3, <2>5 DEF Good, Saving, Sound
  <2>7. QED BY <1>0, <2>5, <2>6, QuietKeeps
<1>3. QED BY <1>1, <1>2 DEF AwaitRegister

----------------------------------------------------------------------------
(* finalizeIdentityRegistration                                            *)

LEMMA FinalizeKeeps ==
  ASSUME Inductive, NEW r \in Runs, Finalize(r)
  PROVE  Inductive'
<1>0. /\ run[r].pc = "finalize" /\ UNCHANGED <<files, registryVars, nameOf>>
      /\ Good(run[r], nameOf[r]) /\ run[r] \in States
      /\ run[r].record # <<>> /\ run[r].file \in Checkpoints
  BY RunFacts DEF Finalize, At, Good, Saving
<1>1. CASE Fail(r)
  BY <1>0, <1>1, QuietFailKeeps
<1>2. ASSUME RegistrationEvidence(Record(r).register, nameOf[r])
      PROVE  Done("register", nameOf[r])
  <2>1. PICK i \in DOMAIN mined : mined[i] = [tx |-> Record(r).register, ok |-> TRUE]
    BY <1>2 DEF RegistrationEvidence, RegisteredEvent, SuccessfulReceipt, Settled
  <2>2. mined[i].ok /\ mined[i].tx = Record(r).register
    BY <2>1
  <2>3. QED BY <1>2, <2>2 DEF RegistrationEvidence, RegisteredEvent, CallMatches, Done
<1>3. CASE /\ RegistrationEvidence(Record(r).register, nameOf[r])
           /\ Record(r).metadata = <<>> /\ Goto(r, "count")
  <2>1. PICK s : s = [run[r] EXCEPT !.pc = "count"]
    OBVIOUS
  <2>2. s.pc = "count" /\ s.record = run[r].record /\ s.file = run[r].file
    BY <2>1, GoneOn DEF Points
  <2>3. Good(s, nameOf[r])
    BY <1>0, <1>2, <1>3, <2>2 DEF Good, Saving, Record
  <2>4. "count" \in Points \ {"fill"}
    BY DEF Points
  <2>5. QED BY <1>0, <1>3, <2>1, <2>3, <2>4, GotoKeeps
<1>4. CASE /\ RegistrationEvidence(Record(r).register, nameOf[r]) /\ Record(r).metadata # <<>>
           /\ run' = [run EXCEPT ![r].pc = "recheck", ![r].tx = Record(r).metadata]
  <2>1. PICK md : md = Record(r).metadata
    OBVIOUS
  <2>2. PICK s : s = [run[r] EXCEPT !.pc = "recheck", !.tx = md]
    OBVIOUS
  <2>3. /\ s \in States /\ s.pc = "recheck" /\ s.tx = md /\ s.record = run[r].record
        /\ s.file = run[r].file
    <3>1. md \in Maybe(Transactions) /\ "recheck" \in Points
      BY <1>0, <2>1, RunFacts DEF Documents, Points
    <3>2. QED BY <1>0, <2>2, <3>1 DEF States
  <2>4. run' = [run EXCEPT ![r] = s]
    BY <1>4, <2>1, <2>2 DEF Inductive, Types, States
  <2>5. Good(s, nameOf[r])
    BY <1>0, <1>2, <1>4, <2>1, <2>3 DEF Good, Saving, Record
  <2>6. QED BY <1>0, <2>3, <2>4, <2>5, QuietKeeps
<1>5. QED BY <1>1, <1>3, <1>4 DEF Finalize

LEMMA ReadbackKeeps ==
  ASSUME Inductive, NEW r \in Runs, Readback(r), Done("register", nameOf[r]),
         UNCHANGED <<files, registryVars, nameOf>>
  PROVE  Inductive'
<1>1. CASE Fail(r)
  BY <1>1, QuietFailKeeps
<1>2. CASE /\ \E i \in DOMAIN mined : mined[i].ok /\ CallMatches(mined[i].tx, "metadata", nameOf[r])
           /\ Goto(r, "ok")
  <2>1. PICK s : s = [run[r] EXCEPT !.pc = "ok"]
    OBVIOUS
  <2>2. s.pc = "ok" /\ s.record = run[r].record
    BY <2>1, GoneOn DEF Points
  <2>3. Done("metadata", nameOf[r])
    BY <1>2 DEF Done, CallMatches
  <2>4. Good(s, nameOf[r])
    BY <2>2, <2>3, RunFacts DEF Good, Saving
  <2>5. "ok" \in Points \ {"fill"}
    BY DEF Points
  <2>6. QED BY <1>2, <2>1, <2>4, <2>5, GotoKeeps
<1>3. QED BY <1>1, <1>2 DEF Readback

LEMMA RecheckKeeps ==
  ASSUME Inductive, NEW r \in Runs, Recheck(r)
  PROVE  Inductive'
<1>0. /\ run[r].pc = "recheck" /\ UNCHANGED <<files, registryVars, nameOf>>
      /\ Good(run[r], nameOf[r]) /\ Done("register", nameOf[r])
  BY RunFacts DEF Recheck, At, Good
<1>1. CASE Fail(r)
  BY <1>0, <1>1, QuietFailKeeps
<1>2. CASE Readback(r)
  BY <1>0, <1>2, ReadbackKeeps
<1>3. CASE Settled(Tx(r), FALSE) /\ Goto(r, "count")
  <2>1. PICK s : s = [run[r] EXCEPT !.pc = "count"]
    OBVIOUS
  <2>2. s.pc = "count" /\ s.record = run[r].record /\ s.file = run[r].file
    BY <2>1, GoneOn DEF Points
  <2>3. Tx(r) = run[r].record[1].metadata[1]
    BY <1>0 DEF Good, Tx
  <2>4. Good(s, nameOf[r])
    BY <1>0, <1>3, <2>2, <2>3 DEF Good, Saving
  <2>5. "count" \in Points \ {"fill"}
    BY DEF Points
  <2>6. QED BY <1>0, <1>3, <2>1, <2>4, <2>5, GotoKeeps
<1>4. QED BY <1>1, <1>2, <1>3 DEF Recheck

\* The nonce that is safe is the one after transactions that were all reverted.
LEMMA SafeNonceFacts ==
  ASSUME Inductive, NEW r \in Runs, run[r].pc = "count", NEW nonce, SafeNonce(r, nonce)
  PROVE  /\ nonce \in Nat /\ nonce >= 1
         /\ \A k \in 2..nonce : k \in DOMAIN mined /\ ~mined[k].ok
<1>0. Good(run[r], nameOf[r]) /\ run[r].record # <<>> /\ Record(r) \in Documents
  BY RunFacts DEF Good
<1>1. CASE Record(r).metadata = <<>>
  BY <1>1 DEF SafeNonce
<1>2. CASE Record(r).metadata # <<>>
  <2>1. PICK m \in Transactions : m = Record(r).metadata[1]
    BY <1>0, <1>2 DEF Documents, Maybe
  <2>2. m.nonce \in Nat /\ nonce = m.nonce + 1
    BY <1>2, <2>1 DEF SafeNonce, Transactions
  <2>3. Earlier(m) /\ Settled(m, FALSE)
    BY <1>0, <1>2, <2>1 DEF Good, Sound, Record
  <2>4. PICK i \in DOMAIN mined : mined[i] = [tx |-> m, ok |-> FALSE]
    BY <2>3 DEF Settled
  <2>5. i \in Nat
    <3>1. mined \in Seq([tx : Transactions, ok : BOOLEAN])
      BY DEF Inductive, Types
    <3>2. QED BY <3>1
  <2>6. mined[i].tx = m /\ mined[i].ok = FALSE /\ mined[i].tx.nonce = i - 1
    BY <2>4 DEF Inductive, Chain
  <2>7. i = nonce
    BY <2>2, <2>5, <2>6
  <2>8. QED BY <2>2, <2>3, <2>6, <2>7 DEF Earlier
<1>3. QED BY <1>1, <1>2

LEMMA PrepareMetadataKeeps ==
  ASSUME Inductive, NEW r \in Runs, run[r].pc = "count", NEW nonce, PrepareMetadata(r, nonce),
         UNCHANGED <<files, registryVars, nameOf>>
  PROVE  Inductive'
<1>0. /\ Good(run[r], nameOf[r]) /\ run[r] \in States /\ run[r].record # <<>>
      /\ run[r].file \in Checkpoints /\ Done("register", nameOf[r]) /\ nameOf[r] \in DisplayNames
  BY RunFacts DEF Good, Saving
<1>1. CASE Fail(r)
  BY <1>1, QuietFailKeeps
<1>2. ASSUME NEW fee \in Fees, SafeNonce(r, nonce), NEW tx, tx = MetadataTx(nameOf[r], nonce, fee),
             run' = [run EXCEPT ![r].pc = "metadata", ![r].tx = <<tx>>]
      PROVE  Inductive'
  <2>1. /\ nonce \in Nat /\ nonce >= 1
        /\ \A k \in 2..nonce : k \in DOMAIN mined /\ ~mined[k].ok
    BY <1>2, SafeNonceFacts
  <2>2. tx \in Transactions /\ tx.call = "metadata" /\ tx.nonce = nonce
    BY <1>0, <1>2, <2>1, RegistrationAssumption DEF MetadataTx, Transactions
  <2>3. Earlier(tx)
    BY <2>1, <2>2 DEF Earlier
  <2>4. PICK s : s = [run[r] EXCEPT !.pc = "metadata", !.tx = <<tx>>]
    OBVIOUS
  <2>5. /\ s \in States /\ s.pc = "metadata" /\ s.tx = <<tx>> /\ s.record = run[r].record
        /\ s.file = run[r].file
    <3>1. <<tx>> \in Maybe(Transactions) /\ "metadata" \in Points
      BY <2>2 DEF Maybe, Points
    <3>2. QED BY <1>0, <2>4, <3>1 DEF States
  <2>6. run' = [run EXCEPT ![r] = s]
    BY <1>2, <2>4 DEF Inductive, Types, States
  <2>7. Good(s, nameOf[r])
    BY <1>0, <2>2, <2>3, <2>5 DEF Good, Saving
  <2>8. QED BY <2>5, <2>6, <2>7, QuietKeeps
<1>3. QED BY <1>1, <1>2 DEF PrepareMetadata

LEMMA CountMetadataKeeps ==
  ASSUME Inductive, NEW r \in Runs, CountMetadata(r)
  PROVE  Inductive'
<1>1. run[r].pc = "count" /\ UNCHANGED <<files, registryVars, nameOf>>
  BY DEF CountMetadata, At
<1>2. PICK nonce : PrepareMetadata(r, nonce)
  BY DEF CountMetadata
<1>3. QED BY <1>1, <1>2, PrepareMetadataKeeps

LEMMA BroadcastMetadataKeeps ==
  ASSUME Inductive, NEW r \in Runs, BroadcastMetadata(r)
  PROVE  Inductive'
<1>0. /\ run[r].pc = "metadata" /\ UNCHANGED <<files, nameOf>> /\ Good(run[r], nameOf[r])
      /\ run[r].record # <<>> /\ run[r].tx # <<>> /\ run[r].file \in Checkpoints
      /\ Done("register", nameOf[r])
  BY RunFacts DEF BroadcastMetadata, At, Good, Saving
<1>1. /\ Tx(r) \in Transactions /\ SentOK(Tx(r)) /\ Earlier(Tx(r)) /\ Record(r) \in Documents
  BY <1>0, RunFacts DEF Good, SentOK, Tx
<1>2. CASE Fail(r) /\ (Take(Tx(r)) \/ UNCHANGED registryVars)
  BY <1>0, <1>1, <1>2, FailedSendKeeps
<1>3. CASE Take(Tx(r)) /\ Save(r, WithMetadataTransaction(Record(r), Tx(r)), "settle")
  <2>1. UNCHANGED mined /\ pool' \subseteq Transactions /\ \A t \in pool' : SentOK(t)
    BY <1>1, <1>3, TakeFacts
  <2>2. PICK x : x = WithMetadataTransaction(Record(r), Tx(r))
    OBVIOUS
  <2>3. <<Tx(r)>> \in Maybe(Transactions)
    BY <1>1 DEF Maybe
  <2>4. x \in Documents /\ x.metadata = <<Tx(r)>>
    BY <1>1, <2>2, <2>3 DEF WithMetadataTransaction, Documents
  <2>5. "settle" \in Points
    BY DEF Points
  <2>6. PICK s \in States :
           /\ s.pc = "create" /\ s.then = "settle" /\ s.record = <<x>> /\ s.tx = run[r].tx
           /\ s.file = run[r].file /\ run' = [run EXCEPT ![r] = s]
    <3>1. Saves(r, x, "settle")
      BY <1>3, <2>2, <2>4, <2>5, SavingState
    <3>2. QED BY <3>1 DEF Saves
  <2>7. Sound(x)
    BY <1>1, <2>4 DEF Sound
  <2>8. Good(s, nameOf[r])
    BY <1>0, <2>6, <2>7 DEF Good, Saving
  <2>9. UNCHANGED <<files, mined, nameOf>> /\ s.pc # "fill"
    BY <1>0, <2>1, <2>6
  <2>10. QED BY <2>1, <2>6, <2>8, <2>9, MoveKeeps
<1>4. QED BY <1>2, <1>3 DEF BroadcastMetadata, Send

LEMMA AwaitMetadataKeeps ==
  ASSUME Inductive, NEW r \in Runs, AwaitMetadata(r)
  PROVE  Inductive'
<1>0. /\ run[r].pc = "settle" /\ UNCHANGED <<files, registryVars, nameOf>>
      /\ Done("register", nameOf[r])
  BY RunFacts DEF AwaitMetadata, At, Good
<1>1. CASE Fail(r)
  BY <1>0, <1>1, QuietFailKeeps
<1>2. CASE Readback(r)
  BY <1>0, <1>2, ReadbackKeeps
<1>3. QED BY <1>1, <1>2 DEF AwaitMetadata

----------------------------------------------------------------------------
(* The chain, and the whole                                                *)

LEMMA ChainStepKeeps ==
  ASSUME Inductive, ChainStep
  PROVE  Inductive'
<1>0. UNCHANGED <<files, run, nameOf>>
  BY DEF ChainStep
<1>1. PICK tx \in pool, ok \in BOOLEAN :
         /\ tx.nonce = Len(mined) /\ pool' = pool \ {tx}
         /\ mined' = Append(mined, [tx |-> tx, ok |-> ok])
  BY DEF ChainStep, Mine
<1>2. /\ tx \in Transactions /\ SentOK(tx) /\ pool \subseteq Transactions
      /\ mined \in Seq([tx : Transactions, ok : BOOLEAN])
  BY DEF Inductive, Types, Chain
<1>3. PICK e \in [tx : Transactions, ok : BOOLEAN] : e.tx = tx /\ mined' = Append(mined, e)
  BY <1>1, <1>2
<1>4. Types /\ Grows /\ KeepFiles
  BY <1>0, <1>3 DEF Inductive, Grows, KeepFiles
<1>5. /\ mined' \in Seq([tx : Transactions, ok : BOOLEAN])
      /\ Len(mined) \in Nat /\ DOMAIN mined = 1..Len(mined)
      /\ DOMAIN mined' = 1..(Len(mined) + 1)
      /\ mined'[Len(mined) + 1] = e /\ \A i \in DOMAIN mined : mined'[i] = mined[i]
  BY <1>2, <1>3, AppendProperties
<1>6. Types'
  BY <1>0, <1>1, <1>5 DEF Inductive, Types
<1>7. \A t \in Transactions : SentOK(t) => SentOK(t)'
  BY <1>4, FactsStay
<1>8. Chain'
  <2>1. ASSUME NEW i \in DOMAIN mined'
        PROVE  (mined[i].tx.nonce = i - 1 /\ SentOK(mined[i].tx))'
    <3>1. CASE i = Len(mined) + 1
      <4>1. mined'[i].tx = tx /\ tx.nonce = i - 1
        BY <1>1, <1>3, <1>5, <3>1
      <4>2. SentOK(tx)'
        BY <1>2, <1>7
      <4>3. QED BY <4>1, <4>2 DEF SentOK, Named, Earlier, Readable, Content
    <3>2. CASE i \in DOMAIN mined
      <4>1. mined'[i] = mined[i] /\ mined[i] \in [tx : Transactions, ok : BOOLEAN]
        BY <1>2, <1>5, <3>2, ElementOfSeq
      <4>2. mined[i].tx \in Transactions /\ SentOK(mined[i].tx) /\ mined[i].tx.nonce = i - 1
        BY <3>2, <4>1 DEF Inductive, Chain
      <4>3. PICK t : t = mined[i].tx
        OBVIOUS
      <4>4. SentOK(t)' /\ mined'[i].tx = t
        BY <1>7, <4>1, <4>2, <4>3
      <4>5. QED BY <4>2, <4>3, <4>4 DEF SentOK, Named, Earlier, Readable, Content
    <3>3. QED BY <1>5, <3>1, <3>2
  <2>2. \A t \in pool' : SentOK(t)'
    BY <1>1, <1>2, <1>7 DEF Inductive, Chain
  <2>3. QED BY <2>1, <2>2 DEF Chain
<1>9. \A q \in Runs : Good(run[q], nameOf[q])'
  <2>1. \A c \in States : \A name : Good(c, name) => Good(c, name)'
    BY <1>4, GoodStays
  <2>2. \A q \in Runs : run'[q] \in States /\ Good(run'[q], nameOf'[q])
    BY <1>0, RunFacts
  <2>3. QED BY <2>1, <2>2
<1>10. Exclusive'
  BY <1>0 DEF Inductive, Exclusive, At
<1>11. SoundFiles'
  <2>1. \A x \in Documents : Sound(x) => Sound(x)'
    BY <1>4, FactsStay
  <2>2. ASSUME NEW n \in Names, Readable(n)'
        PROVE  Sound(Content(n))'
    <3>1. PICK x : x = Content(n)
      OBVIOUS
    <3>2. x \in Documents /\ Sound(x) /\ Content(n)' = x
      BY <1>0, <2>2, <3>1, ContentType DEF Readable, Content
    <3>3. QED BY <2>1, <3>2
  <2>3. QED BY <2>2 DEF SoundFiles
<1>12. QED BY <1>6, <1>8, <1>9, <1>10, <1>11 DEF Inductive

LEMMA InductiveInit ==
  ASSUME Init
  PROVE  Inductive
<1>1. Idle \in States /\ Idle.pc = "idle" /\ \A name : Good(Idle, name)
  <2>1. [Idle EXCEPT !.pc = "idle"] = Idle
    BY DEF Idle
  <2>2. QED BY <2>1, EndedState
<1>2. run = [r \in Runs |-> Idle] /\ pool = {} /\ mined = <<>> /\ nameOf \in [Runs -> DisplayNames]
      /\ files = [n \in Names |-> Absent]
  BY DEF Init, FilesInit, RegistryInit
<1>3. Types
  BY <1>1, <1>2 DEF Types, Files
<1>4. Exclusive /\ SoundFiles /\ Chain
  BY <1>1, <1>2 DEF Exclusive, SoundFiles, Chain, Readable, At
<1>5. QED BY <1>1, <1>2, <1>3, <1>4 DEF Inductive

LEMMA StutterKeeps ==
  ASSUME Inductive, UNCHANGED vars
  PROVE  Inductive'
<1>1. UNCHANGED <<files, pool, mined, run, nameOf>>
  BY DEF vars, registryVars, runVars
<1>2. ASSUME NEW q \in Runs
      PROVE  Good(run[q], nameOf[q])'
  <2>1. PICK s : s = run[q]
    OBVIOUS
  <2>2. run'[q] = s /\ Good(s, nameOf[q])
    BY <1>1, <2>1 DEF Inductive
  <2>3. QED BY <1>1, <2>2, GoodOfRun
<1>3. Types' /\ Exclusive'
  BY <1>1 DEF Inductive, Types, Exclusive, At
<1>4. SoundFiles'
  BY <1>1 DEF Inductive, SoundFiles, Sound, Earlier, Readable, Content
<1>5. Chain'
  BY <1>1 DEF Inductive, Chain, SentOK, Named, Earlier, Readable, Content
<1>6. QED BY <1>2, <1>3, <1>4, <1>5 DEF Inductive

LEMMA InductiveStep ==
  ASSUME Inductive, [Next]_vars
  PROVE  Inductive'
<1>1. CASE ChainStep
  BY <1>1, ChainStepKeeps
<1>2. CASE UNCHANGED vars
  BY <1>2, StutterKeeps
<1>3. ASSUME NEW r \in Runs, RunStep(r)
      PROVE  Inductive'
  BY <1>3, InitializeKeeps, StartKeeps, VerifyRegistryKeeps, EndKeeps, CreateKeeps, FillKeeps,
     ReadNonceKeeps, BroadcastRegisterKeeps, AwaitRegisterKeeps, FinalizeKeeps, RecheckKeeps,
     CountMetadataKeeps, BroadcastMetadataKeeps, AwaitMetadataKeeps DEF RunStep
<1>4. QED BY <1>1, <1>2, <1>3 DEF Next

\* Whatever runs there are and wherever they are killed, every transaction the node
\* has is one its records account for: a registration that a checkpoint names, or
\* metadata that follows nothing but reverted metadata (registerIdentity,
\* registration.mjs:1545-1775; finalizeIdentityRegistration, 1226-1444).
THEOREM RegistrationInductive == Spec => []Inductive
<1>1. Init => Inductive
  BY InductiveInit
<1>2. Inductive /\ [Next]_vars => Inductive'
  BY InductiveStep
<1>3. QED BY <1>1, <1>2, PTL DEF Spec

\* Nothing can register the agent that no checkpoint names: the intent is on disk
\* before the transaction leaves (registerIdentity and its intent checkpoint).
THEOREM RegistrationNamed == Spec => []IntentFirst
<1>1. Inductive => IntentFirst
  BY DEF Inductive, Chain, SentOK, Named, IntentFirst, Sent, Recorded
<1>2. QED BY <1>1, RegistrationInductive, PTL

\* However many runs finish the registration, the metadata is set once
\* (finalizeIdentityRegistration's nonce check).
THEOREM MetadataOnce == Spec => []SetOnce
<1>1. ASSUME Inductive, NEW i \in DOMAIN mined, NEW j \in DOMAIN mined, i < j, mined[i].ok,
             mined[i].tx.call = "metadata", mined[j].tx.call = "metadata"
      PROVE  FALSE
  <2>1. mined \in Seq([tx : Transactions, ok : BOOLEAN])
    BY <1>1 DEF Inductive, Types
  <2>2. i \in Nat /\ j \in Nat
    BY <2>1
  <2>3. mined[i].tx.nonce = i - 1 /\ mined[j].tx.nonce = j - 1 /\ Earlier(mined[i].tx)
        /\ Earlier(mined[j].tx)
    BY <1>1 DEF Inductive, Chain, SentOK
  <2>4. i \in 2..(j - 1)
    BY <1>1, <2>2, <2>3 DEF Earlier
  <2>5. QED BY <1>1, <2>3, <2>4 DEF Earlier
<1>2. ASSUME Inductive
      PROVE  SetOnce
  <2>1. \A i \in DOMAIN mined : i \in Int
    <3>1. mined \in Seq([tx : Transactions, ok : BOOLEAN])
      BY <1>2 DEF Inductive, Types
    <3>2. QED BY <3>1
  <2>2. QED BY <1>1, <1>2, <2>1 DEF SetOnce
<1>3. QED BY <1>2, RegistrationInductive, PTL

\* A run that reports an identity has registered it and set its metadata, under its
\* name (finalizeIdentityRegistration's readback).
THEOREM ReportedIsTrue == Spec => []CompletedIsTrue
<1>1. ASSUME Inductive, NEW r \in Runs, At(r, "ok")
      PROVE  Done("register", nameOf[r]) /\ Done("metadata", nameOf[r])
  BY <1>1, RunFacts DEF Good, At
<1>2. Inductive => CompletedIsTrue
  BY <1>1 DEF CompletedIsTrue, Done
<1>3. QED BY <1>2, RegistrationInductive, PTL

----------------------------------------------------------------------------
(* What a run that was lost leaves to the next                             *)

\* A run that has read or writes checkpoints; the others write the wallet, or nothing.
Working(s) == s.pc \notin {"idle", "failed", "ok"} /\ ~Saving(s, "idle")

\* The node took nothing.
Untouched == pool = {} /\ mined = <<>>

\* The node took tx last, and before it nothing that still waits.
LastSent(tx) ==
  \/ pool = {tx} /\ Len(mined) = tx.nonce
  \/ pool = {} /\ Len(mined) = tx.nonce + 1 /\ mined[Len(mined)].tx = tx

\* What a checkpoint says is all that was sent.
Fits(x) ==
  IF x.kind = "intent" THEN x.register.nonce = 0 /\ (Untouched \/ LastSent(x.register))
  ELSE IF x.metadata = <<>> THEN pool = {} /\ Len(mined) = 1
  ELSE LastSent(x.metadata[1])

Newest(k, S) == k \in S /\ Exists(k) /\ \A m \in S : Exists(m) => m <= k

\* The newest of these checkpoints, if it can be read, says what was sent.
Covered(S) ==
  \/ (\A m \in S : ~Exists(m)) /\ Untouched
  \/ \E k \in S : Newest(k, S) /\ (Readable(k) => Fits(Content(k)))

\* A run's record is the newest checkpoint, which says what was sent.
Synced(s) ==
  IF s.record = <<>> THEN (\A m \in Checkpoints : ~Exists(m)) /\ Untouched
  ELSE /\ \E k \in Checkpoints : Newest(k, Checkpoints) /\ files[k] = Whole(s.record[1])
       /\ Fits(s.record[1])

\* What a run in state s knows, if nothing happened that checkpoints do not cover.
Knows(s) ==
  /\ \A m \in Checkpoints : Exists(m) => m <= s.file
  /\ s.pc \notin {"create", "fill"} => Synced(s)
  /\ s.pc \in {"create", "fill"} => Fits(s.record[1])
  /\ s.pc = "create" /\ s.then # "settle" => Covered(Checkpoints)
  /\ s.pc = "fill" /\ s.then # "settle" => Covered(Checkpoints \ {s.file})
  /\ Saving(s, "register") \/ s.pc \in {"register", "receipt"} =>
       s.record # <<>> /\ s.record[1].kind = "intent" /\ s.tx = <<s.record[1].register>>
  /\ Saving(s, "register") \/ s.pc = "register" => Untouched
  /\ s.pc = "nonce" => s.record = <<>> \/ s.record[1].kind = "intent"
  /\ s.pc \in {"finalize", "recheck", "count", "metadata"} =>
       s.record # <<>> /\ s.record[1].kind = "recovery"
  /\ s.pc = "metadata" => pool = {} /\ s.tx[1].nonce = Len(mined)

\* A registration that was reverted is one of the slips.
Reverts == slips = {} => \A i \in DOMAIN mined : mined[i].tx.call = "register" => mined[i].ok

\* One run at a time is at work, and it, or the files, say what was sent.
Calm ==
  /\ \A r \in Runs : Saving(run[r], "idle") => run[r].file = WalletFile
  /\ \A r \in Runs : Working(run[r]) => Readable(WalletFile)
  /\ slips = {} =>
       /\ \A r, q \in Runs : Working(run[r]) /\ Working(run[q]) => r = q
       /\ (\A r \in Runs : ~Working(run[r])) => Covered(Checkpoints)
       /\ \A r \in Runs : Working(run[r]) => Knows(run[r])

\* What a run in the state c knows, the run that is in it knows.
LEMMA KnowsOfRun ==
  ASSUME NEW q \in Runs, NEW c, run'[q] = c, Knows(c)'
  PROVE  Knows(run[q])'
<1>1. Fits(c.record[1])' => Fits(run[q].record[1])'
  BY DEF Fits, LastSent
<1>2. Synced(c)' => Synced(run[q])'
  BY <1>1 DEF Synced
<1>3. Covered(Checkpoints \ {c.file})' => Covered(Checkpoints \ {run[q].file})'
  BY DEF Covered, Newest
<1>4. Saving(run[q], "register")' <=> Saving(c, "register")
  BY DEF Saving
<1>5. QED BY <1>1, <1>2, <1>3, <1>4 DEF Knows

\* What the steps of a run can make of it.
LEMMA QuietCalm ==
  ASSUME UNCHANGED <<files, pool, mined>>
  PROVE  /\ \A s : Knows(s) => Knows(s)'
         /\ Covered(Checkpoints) => Covered(Checkpoints)'
         /\ \A n : Readable(n) => Readable(n)'
<1>1. \A x : Fits(x) => Fits(x)'
  BY DEF Fits, LastSent, Untouched
<1>2. \A n : (Exists(n) => Exists(n)') /\ (Exists(n)' => Exists(n)) /\ (Readable(n) => Readable(n)')
             /\ (Readable(n)' => Readable(n)) /\ Content(n)' = Content(n)
  BY DEF Exists, Readable, Content
<1>3. Untouched => Untouched'
  BY DEF Untouched
<1>4. \A S : Covered(S) => Covered(S)'
  BY <1>1, <1>2, <1>3 DEF Covered, Newest
<1>5. \A s : Synced(s) => Synced(s)'
  BY <1>1, <1>2, <1>3 DEF Synced, Newest
<1>6. \A s : Knows(s) => Knows(s)'
  BY <1>1, <1>2, <1>3, <1>4, <1>5 DEF Knows
<1>7. QED BY <1>2, <1>4, <1>6

LEMMA SyncedCovers ==
  ASSUME NEW s, Synced(s)
  PROVE  Covered(Checkpoints)
<1>1. CASE s.record = <<>>
  BY <1>1 DEF Synced, Covered
<1>2. CASE s.record # <<>>
  <2>1. PICK k \in Checkpoints : Newest(k, Checkpoints) /\ files[k] = Whole(s.record[1])
    BY <1>2 DEF Synced
  <2>2. Fits(s.record[1])
    BY <1>2 DEF Synced
  <2>3. Content(k) = s.record[1]
    BY <2>1 DEF Content, Whole
  <2>4. QED BY <2>1, <2>2, <2>3 DEF Covered
<1>3. QED BY <1>1, <1>2

\* A working run moves on, or ends.
LEMMA CalmMoves ==
  ASSUME Inductive, Calm, NEW r \in Runs, NEW s \in States, run' = [run EXCEPT ![r] = s],
         Working(run[r]), KeepFiles, slips \subseteq slips', ~Saving(s, "idle"),
         slips = {} /\ slips' = {} /\ Working(s) => Knows(s)',
         slips = {} /\ slips' = {} /\ ~Working(s) => Covered(Checkpoints)'
  PROVE  Calm'
<1>1. run'[r] = s /\ \A q \in Runs : q # r => run'[q] = run[q]
  BY DEF Inductive, Types
<1>2. \A n \in Names : Readable(n) => Readable(n)'
  BY DEF KeepFiles, Readable
<1>3. WalletFile \in Names
  BY DEF Names
<1>4. (\A q \in Runs : Saving(run[q], "idle") => run[q].file = WalletFile)'
  BY <1>1 DEF Calm
<1>5. Readable(WalletFile)'
  BY <1>2, <1>3 DEF Calm
<1>6. ASSUME slips' = {}
      PROVE  /\ \A q, p \in Runs : Working(run'[q]) /\ Working(run'[p]) => q = p
             /\ (\A q \in Runs : ~Working(run'[q])) => Covered(Checkpoints)'
             /\ \A q \in Runs : (Working(run[q]) => Knows(run[q]))'
  <2>1. slips = {}
    BY <1>6
  <2>2. \A q \in Runs : q # r => ~Working(run'[q])
    BY <1>1, <2>1 DEF Calm
  <2>3. Working(s) => Knows(s)'
    BY <1>6, <2>1
  <2>4. ~Working(s) => Covered(Checkpoints)'
    BY <1>6, <2>1
  <2>5. \A q \in Runs : Working(run'[q]) => q = r /\ run'[q] = s
    BY <1>1, <2>2
  <2>6. ASSUME NEW q \in Runs, Working(run[q])'
        PROVE  Knows(run[q])'
    <3>1. q = r /\ run'[q] = s
      BY <2>5, <2>6 DEF Working, Saving
    <3>2. Knows(s)'
      BY <2>3, <2>5, <2>6, <3>1 DEF Working, Saving
    <3>3. QED BY <3>1, <3>2, KnowsOfRun
  <2>7. QED BY <1>1, <2>4, <2>5, <2>6
<1>7. QED BY <1>4, <1>5, <1>6 DEF Calm, Working, Saving

\* A run that works on no checkpoint, and will not.
LEMMA CalmAside ==
  ASSUME Inductive, Calm, NEW r \in Runs, NEW s \in States, run' = [run EXCEPT ![r] = s],
         ~Working(run[r]), ~Working(s), Saving(s, "idle") => s.file = WalletFile,
         UNCHANGED <<pool, mined>>, \A n \in Checkpoints : files'[n] = files[n],
         KeepFiles, slips \subseteq slips'
  PROVE  Calm'
<1>1. run'[r] = s /\ \A q \in Runs : q # r => run'[q] = run[q]
  BY DEF Inductive, Types
<1>2. \A n \in Names : Readable(n) => Readable(n)'
  BY DEF KeepFiles, Readable
<1>3. WalletFile \in Names
  BY DEF Names
<1>4. (\A q \in Runs : Saving(run[q], "idle") => run[q].file = WalletFile)'
  BY <1>1 DEF Calm
<1>5. \A q \in Runs : Working(run'[q]) => Working(run[q]) /\ run'[q] = run[q]
  BY <1>1
<1>6. \A q \in Runs : Working(run'[q]) => Readable(WalletFile)'
  BY <1>2, <1>3, <1>5 DEF Calm
<1>7. \A x : Fits(x) => Fits(x)'
  BY DEF Fits, LastSent, Untouched
<1>8. \A n \in Checkpoints :
             (Exists(n) => Exists(n)') /\ (Exists(n)' => Exists(n)) /\ (Readable(n) => Readable(n)')
             /\ (Readable(n)' => Readable(n)) /\ Content(n)' = Content(n)
  BY DEF Exists, Readable, Content
<1>9. Untouched => Untouched'
  BY DEF Untouched
<1>10. \A S \in SUBSET Checkpoints : Covered(S) => Covered(S)'
  BY <1>7, <1>8, <1>9 DEF Covered, Newest
<1>11. \A c : Synced(c) => Synced(c)'
  BY <1>7, <1>8, <1>9 DEF Synced, Newest
<1>12. \A c : Knows(c) => Knows(c)'
  BY <1>7, <1>8, <1>9, <1>10, <1>11 DEF Knows
<1>13. ASSUME slips' = {}
      PROVE  /\ \A q, p \in Runs : Working(run'[q]) /\ Working(run'[p]) => q = p
             /\ (\A q \in Runs : ~Working(run'[q])) => Covered(Checkpoints)'
             /\ \A q \in Runs : (Working(run[q]) => Knows(run[q]))'
  <2>1. slips = {}
    BY <1>13
  <2>2. \A q, p \in Runs : Working(run'[q]) /\ Working(run'[p]) => q = p
    BY <1>5, <2>1 DEF Calm
  <2>3. (\A q \in Runs : ~Working(run'[q])) => \A q \in Runs : ~Working(run[q])
    BY <1>1
  <2>4. (\A q \in Runs : ~Working(run'[q])) => Covered(Checkpoints)'
    BY <1>10, <2>1, <2>3 DEF Calm
  <2>5. \A q \in Runs : Working(run'[q]) => Knows(run'[q])
    BY <1>5, <2>1 DEF Calm
  <2>6. \A q \in Runs : (Working(run[q]) => Knows(run[q]))'
    <3>1. TAKE q \in Runs
    <3>2. SUFFICES ASSUME Working(run[q])'
                   PROVE  Knows(run[q])'
      OBVIOUS
    <3>3. Working(run'[q])
      BY <3>2 DEF Working, Saving
    <3>4. PICK c : c = run'[q]
      OBVIOUS
    <3>5. Knows(c)
      BY <2>5, <3>3, <3>4
    <3>6. Knows(c)'
      BY <1>12, <3>5
    <3>7. QED BY <3>4, <3>6, KnowsOfRun
  <2>7. QED BY <2>2, <2>4, <2>6
<1>14. QED BY <1>4, <1>6, <1>13 DEF Calm, Working, Saving

LEMMA QuietMove ==
  ASSUME Inductive, Calm, NEW r \in Runs, NEW s \in States, run' = [run EXCEPT ![r] = s],
         Working(run[r]), UNCHANGED <<files, pool, mined>>, slips \subseteq slips',
         ~Saving(s, "idle"),
         slips = {} /\ slips' = {} /\ Working(s) => Knows(s),
         slips = {} /\ slips' = {} /\ ~Working(s) => Covered(Checkpoints)
  PROVE  Calm'
<1>1. KeepFiles
  BY DEF KeepFiles
<1>2. Knows(s) => Knows(s)'
  BY QuietCalm
<1>3. Covered(Checkpoints) => Covered(Checkpoints)'
  BY QuietCalm
<1>4. slips = {} /\ slips' = {} /\ Working(s) => Knows(s)'
  BY <1>2
<1>5. slips = {} /\ slips' = {} /\ ~Working(s) => Covered(Checkpoints)'
  BY <1>3
<1>6. QED BY <1>1, <1>4, <1>5, CalmMoves

\* A run that ends.
LEMMA Ends ==
  ASSUME NEW pc \in {"idle", "failed"}
  PROVE  LET s == [Idle EXCEPT !.pc = pc]
         IN s \in States /\ s.pc = pc /\ ~Working(s) /\ ~Saving(s, "idle")
<1> DEFINE s == [Idle EXCEPT !.pc = pc]
<1>1. s \in States /\ s.pc = pc
  BY EndedState
<1> HIDE DEF s
<1>2. ~Working(s) /\ ~Saving(s, "idle")
  BY <1>1 DEF Working, Saving
<1>3. QED BY <1>1, <1>2 DEF s

LEMMA FailCalm ==
  ASSUME Inductive, Calm, NEW r \in Runs, Working(run[r]), Fail(r),
         UNCHANGED <<files, pool, mined>>, slips \subseteq slips',
         slips = {} /\ slips' = {} => Covered(Checkpoints)
  PROVE  Calm'
<1> DEFINE s == [Idle EXCEPT !.pc = "failed"]
<1>1. s \in States /\ ~Working(s) /\ ~Saving(s, "idle")
  BY Ends
<1>2. run' = [run EXCEPT ![r] = s]
  BY DEF Fail
<1> HIDE DEF s
<1>3. QED BY <1>1, <1>2, QuietMove

LEMMA KnowsCovers ==
  ASSUME NEW s, Knows(s), s.pc # "fill", ~Saving(s, "settle")
  PROVE  Covered(Checkpoints)
<1>1. CASE s.pc = "create"
  BY <1>1 DEF Knows, Saving
<1>2. CASE s.pc # "create"
  BY <1>2, SyncedCovers DEF Knows
<1>3. QED BY <1>1, <1>2

\* What is known of a run at work when nothing slipped.
LEMMA AtWork ==
  ASSUME Calm, slips = {}, NEW r \in Runs, Working(run[r])
  PROVE  Knows(run[r])
BY DEF Calm

LEMMA InitializeCalm ==
  ASSUME Inductive, Calm, NEW r \in Runs, Initialize(r)
  PROVE  Calm'
<1> DEFINE s == [Idle EXCEPT !.pc = "create", !.record = <<WalletRecord>>,
                             !.file = WalletFile, !.then = "idle"]
<1>1. WalletRecord \in Documents
  BY DEF WalletRecord, Intent, RegisterTx, Documents, Transactions, Maybe
<1>2. s \in States /\ s.pc = "create" /\ s.then = "idle" /\ s.file = WalletFile
  BY <1>1 DEF Idle, States, Points, Maybe, Names, WalletFile
<1>3. /\ run' = [run EXCEPT ![r] = s] /\ UNCHANGED <<files, pool, mined, slips>>
      /\ ~Working(run[r])
  BY DEF Initialize, registryVars, Active, Working
<1> HIDE DEF s
<1>4. ~Working(s) /\ (Saving(s, "idle") => s.file = WalletFile)
  BY <1>2 DEF Working, Saving
<1>5. KeepFiles
  BY <1>3 DEF KeepFiles
<1>6. QED BY <1>2, <1>3, <1>4, <1>5, CalmAside

\* A run takes up what the newest checkpoint says.
LEMMA TakesUp ==
  ASSUME Inductive, Covered(Checkpoints), Latest < MaxFiles, NEW s,
         s.pc = "registry", s.file = Latest + 1,
         IF Latest = 0 THEN s.record = <<>>
         ELSE Readable(Latest) /\ s.record = <<Content(Latest)>>
  PROVE  Knows(s)
<1>0. Latest \in Nat
  BY LatestType, FilesAssumption DEF Names, WalletFile, Checkpoints
<1>1. \A m \in Checkpoints : Exists(m) => m <= s.file
  <2>1. TAKE m \in Checkpoints
  <2>2. HAVE Exists(m)
  <2>3. m <= Latest /\ m \in Nat
    BY <2>2, LatestType, FilesAssumption DEF Checkpoints
  <2>4. QED BY <1>0, <2>3
<1>2. Synced(s)
  <2>1. CASE Latest = 0
    <3>1. \A m \in Checkpoints : ~Exists(m)
      <4>1. TAKE m \in Checkpoints
      <4>2. m \in Nat /\ m >= 1
        BY FilesAssumption DEF Checkpoints
      <4>3. QED BY <2>1, <4>2, LatestType
    <3>2. Untouched
      BY <3>1 DEF Covered, Newest
    <3>3. QED BY <2>1, <3>1, <3>2 DEF Synced
  <2>2. CASE Latest # 0
    <3>1. Latest \in Checkpoints /\ Exists(Latest) /\ Latest \in Names
      BY <2>2, LatestType DEF Names, WalletFile
    <3>2. Newest(Latest, Checkpoints)
      BY <3>1, LatestType DEF Newest
    <3>3. PICK k \in Checkpoints : Newest(k, Checkpoints) /\ (Readable(k) => Fits(Content(k)))
      BY <3>1 DEF Covered
    <3>4. k = Latest
      <4>1. k <= Latest /\ Latest <= k /\ k \in Nat
        BY <3>1, <3>2, <3>3, FilesAssumption DEF Newest, Checkpoints
      <4>2. QED BY <1>0, <4>1
    <3>5. files[Latest] = Whole(Content(Latest))
      BY <2>2, <3>1, ContentType
    <3>6. Fits(Content(Latest)) /\ s.record = <<Content(Latest)>>
      BY <2>2, <3>3, <3>4
    <3>7. s.record # <<>> /\ s.record[1] = Content(Latest)
      BY <3>6
    <3>8. QED BY <3>1, <3>2, <3>5, <3>6, <3>7 DEF Synced
  <2>3. QED BY <2>1, <2>2
<1>3. QED BY <1>1, <1>2 DEF Knows, Saving

LEMMA StartCalm ==
  ASSUME Inductive, Calm, NEW r \in Runs, Start(r)
  PROVE  Calm'
<1>0. /\ UNCHANGED <<files, pool, mined>> /\ ~Working(run[r]) /\ slips \subseteq slips'
      /\ slips' = {} => slips = {} /\ \A q \in Runs : ~Working(run[q])
      /\ Latest < MaxFiles /\ KeepFiles
  BY DEF Start, registryVars, Active, Working, KeepFiles
<1>1. CASE run' = [run EXCEPT ![r] = [Idle EXCEPT !.pc = "failed"]]
  <2> DEFINE s == [Idle EXCEPT !.pc = "failed"]
  <2>1. s \in States /\ ~Working(s) /\ ~Saving(s, "idle") /\ run' = [run EXCEPT ![r] = s]
    BY <1>1, Ends
  <2> HIDE DEF s
  <2>2. QED BY <1>0, <2>1, CalmAside
<1>2. ASSUME NEW s \in States, run' = [run EXCEPT ![r] = s], Readable(WalletFile),
             s.pc = "registry", s.file = Latest + 1,
             IF Latest = 0 THEN s.record = <<>>
             ELSE Readable(Latest) /\ s.record = <<Content(Latest)>>
      PROVE  Calm'
  <2>1. run'[r] = s /\ \A q \in Runs : q # r => run'[q] = run[q]
    BY <1>2 DEF Inductive, Types
  <2>2. Working(s) /\ ~Saving(s, "idle")
    BY <1>2 DEF Working, Saving
  <2>3. slips' = {} => Knows(s)
    BY <1>0, <1>2, TakesUp DEF Calm
  <2>4. slips' = {} => Knows(s)'
    BY <1>0, <2>3, QuietCalm
  <2>5. Readable(WalletFile)'
    BY <1>0, <1>2 DEF Readable
  <2>6. (\A q \in Runs : Saving(run[q], "idle") => run[q].file = WalletFile)'
    BY <2>1, <2>2 DEF Calm
  <2>7. ASSUME slips' = {}
        PROVE  /\ \A q, p \in Runs : Working(run'[q]) /\ Working(run'[p]) => q = p
               /\ Working(run'[r])
    BY <1>0, <2>1, <2>2, <2>7
  <2>8. ASSUME slips' = {}, NEW q \in Runs, Working(run[q])'
        PROVE  Knows(run[q])'
    <3>1. q = r /\ run'[q] = s
      BY <1>0, <2>1, <2>8 DEF Working, Saving
    <3>2. QED BY <2>4, <2>8, <3>1, KnowsOfRun
  <2>9. QED BY <2>5, <2>6, <2>7, <2>8 DEF Calm, Working, Saving
<1>3. CASE /\ Latest = 0 /\ Readable(WalletFile)
           /\ run' = [run EXCEPT ![r] = [[Idle EXCEPT !.file = Latest + 1] EXCEPT !.pc = "registry"]]
  <2> DEFINE n == Latest + 1
             s == [[Idle EXCEPT !.file = n] EXCEPT !.pc = "registry"]
  <2>1. s \in States /\ s.pc = "registry" /\ s.record = <<>> /\ s.file = n
    <3>1. n \in Names
      BY <1>3, FilesAssumption DEF Names, Checkpoints, WalletFile
    <3> HIDE DEF n
    <3>2. QED BY <3>1 DEF Idle, States, Points, Maybe
  <2>2. run' = [run EXCEPT ![r] = s]
    BY <1>3
  <2> HIDE DEF s
  <2>3. QED BY <1>2, <1>3, <2>1, <2>2
<1>4. CASE /\ Latest # 0 /\ Readable(WalletFile) /\ Readable(Latest)
           /\ run' = [run EXCEPT ![r] = [[Idle EXCEPT !.file = Latest + 1]
                                           EXCEPT !.pc = "registry", !.record = <<Content(Latest)>>]]
  <2> DEFINE n == Latest + 1
             x == Content(Latest)
             s == [[Idle EXCEPT !.file = n] EXCEPT !.pc = "registry", !.record = <<x>>]
  <2>1. x \in Documents
    BY <1>4, ContentType, LatestType
  <2>2. run' = [run EXCEPT ![r] = s]
    BY <1>4
  <2>3. s \in States /\ s.pc = "registry" /\ s.record = <<x>> /\ s.file = n
    <3>1. n \in Names
      BY <1>0, LatestType, FilesAssumption DEF Names, Checkpoints, WalletFile
    <3> HIDE DEF n, x
    <3>2. QED BY <2>1, <3>1 DEF Idle, States, Points, Maybe
  <2> HIDE DEF s
  <2>4. QED BY <1>2, <1>4, <2>2, <2>3
<1>5. QED BY <1>1, <1>3, <1>4 DEF Start

\* A run that goes on with the record it has.
LEMMA GotoCalm ==
  ASSUME Inductive, Calm, NEW r \in Runs, NEW pc \in {"nonce", "finalize", "count", "ok"},
         Goto(r, pc), Working(run[r]), run[r].pc \notin {"create", "fill"},
         UNCHANGED <<files, pool, mined>>, slips \subseteq slips',
         pc = "nonce" => run[r].record = <<>> \/ run[r].record[1].kind = "intent",
         pc \in {"finalize", "count"} =>
           run[r].record # <<>> /\ run[r].record[1].kind = "recovery"
  PROVE  Calm'
<1> DEFINE s == [run[r] EXCEPT !.pc = pc]
<1>1. s \in States /\ s.pc = pc /\ s.record = run[r].record /\ s.file = run[r].file
  BY RunFacts, GoneOn DEF States, Points
<1>2. run' = [run EXCEPT ![r] = s]
  BY RunFacts DEF Goto
<1> HIDE DEF s
<1>3. ~Saving(s, "idle")
  BY <1>1 DEF Saving
<1>4. ASSUME slips = {}
      PROVE  Knows(s) /\ Covered(Checkpoints)
  <2>1. Knows(run[r])
    BY <1>4, AtWork
  <2>2. Synced(run[r])
    BY <2>1 DEF Knows
  <2>3. Synced(s) /\ Covered(Checkpoints)
    BY <1>1, <2>2, SyncedCovers DEF Synced
  <2>4. \A m \in Checkpoints : Exists(m) => m <= s.file
    BY <1>1, <2>1 DEF Knows
  <2>5. QED BY <1>1, <2>3, <2>4 DEF Knows, Saving
<1>5. QED BY <1>1, <1>2, <1>3, <1>4, QuietMove

LEMMA VerifyRegistryCalm ==
  ASSUME Inductive, Calm, NEW r \in Runs, VerifyRegistry(r)
  PROVE  Calm'
<1>1. /\ run[r].pc = "registry" /\ UNCHANGED <<files, pool, mined, slips>>
      /\ Working(run[r])
  BY DEF VerifyRegistry, registryVars, At, Working, Saving
<1>2. run[r].record # <<>> => Record(r).kind \in {"intent", "recovery"}
  BY RunFacts DEF Documents
<1>3. CASE run[r].record # <<>> /\ Record(r).kind = "recovery"
  BY <1>1, <1>3, GotoCalm DEF VerifyRegistry, Record
<1>4. CASE ~(run[r].record # <<>> /\ Record(r).kind = "recovery")
  BY <1>1, <1>2, <1>4, GotoCalm DEF VerifyRegistry, Record
<1>5. QED BY <1>3, <1>4

LEMMA ReadFailsCalm ==
  ASSUME Inductive, Calm, NEW r \in Runs, ReadFails(r)
  PROVE  Calm'
<1>1. /\ Fail(r) /\ UNCHANGED <<files, pool, mined, slips>> /\ Working(run[r])
      /\ run[r].pc \notin {"create", "fill"}
  BY DEF ReadFails, registryVars, Active, At, Working, Saving
<1>2. slips = {} => Covered(Checkpoints)
  BY <1>1, AtWork, KnowsCovers DEF Saving
<1>3. QED BY <1>1, <1>2, FailCalm

\* A checkpoint that is being written is the newest, and can not be read.
LEMMA FillingCovers ==
  ASSUME Inductive, NEW r \in Runs, Knows(run[r]), run[r].pc = "fill", Working(run[r])
  PROVE  Covered(Checkpoints)
<1>1. files[run[r].file] = Torn /\ run[r].file \in Checkpoints
  BY RunFacts DEF Inductive, Exclusive, At, Good, Working, Saving
<1>2. Exists(run[r].file) /\ ~Readable(run[r].file)
  BY <1>1 DEF Exists, Readable, Absent, Torn
<1>3. Newest(run[r].file, Checkpoints)
  BY <1>1, <1>2 DEF Newest, Knows
<1>4. QED BY <1>1, <1>2, <1>3 DEF Covered

LEMMA KillCalm ==
  ASSUME Inductive, Calm, NEW r \in Runs, Kill(r)
  PROVE  Calm'
<1>0. /\ run' = [run EXCEPT ![r] = Idle] /\ UNCHANGED <<files, pool, mined>>
      /\ slips \subseteq slips' /\ (slips' = {} => run[r].then # "settle")
  BY DEF Kill, registryVars, Slip
<1>1. Idle \in States /\ Idle.pc = "idle" /\ ~Working(Idle) /\ ~Saving(Idle, "idle")
  <2>1. [Idle EXCEPT !.pc = "idle"] = Idle
    BY DEF Idle
  <2>2. QED BY <2>1, Ends
<1>2. CASE Working(run[r])
  <2>1. slips = {} /\ slips' = {} => Covered(Checkpoints)
    <3>1. SUFFICES ASSUME slips = {}, slips' = {}
                   PROVE  Covered(Checkpoints)
      OBVIOUS
    <3>2. Knows(run[r])
      BY <1>2, <3>1, AtWork
    <3>3. CASE run[r].pc = "fill"
      BY <1>2, <3>2, <3>3, FillingCovers
    <3>4. CASE run[r].pc # "fill"
      BY <1>0, <3>1, <3>2, <3>4, KnowsCovers DEF Saving
    <3>5. QED BY <3>3, <3>4
  <2>2. QED BY <1>0, <1>1, <1>2, <2>1, QuietMove
<1>3. CASE ~Working(run[r])
  <2>1. KeepFiles /\ \A n \in Checkpoints : files'[n] = files[n]
    BY <1>0 DEF KeepFiles
  <2>2. QED BY <1>0, <1>1, <1>3, <2>1, CalmAside
<1>4. QED BY <1>2, <1>3

\* A run that fails in writing the wallet, whatever it leaves of it.
LEMMA FailAside ==
  ASSUME Inductive, Calm, NEW r \in Runs, ~Working(run[r]), Fail(r), KeepFiles,
         \A n \in Checkpoints : files'[n] = files[n], UNCHANGED <<pool, mined>>,
         slips \subseteq slips'
  PROVE  Calm'
<1> DEFINE s == [Idle EXCEPT !.pc = "failed"]
<1>1. s \in States /\ ~Working(s) /\ ~Saving(s, "idle")
  BY Ends
<1>2. run' = [run EXCEPT ![r] = s]
  BY DEF Fail
<1> HIDE DEF s
<1>3. QED BY <1>1, <1>2, CalmAside

\* Names beside the newest.
LEMMA OtherNames ==
  ASSUME NEW n \in Checkpoints, \A m \in Checkpoints : m # n => files'[m] = files[m],
         UNCHANGED <<pool, mined>>
  PROVE  Covered(Checkpoints \ {n}) => Covered(Checkpoints \ {n})'
<1>1. \A x : Fits(x) => Fits(x)'
  BY DEF Fits, LastSent, Untouched
<1>2. \A m \in Checkpoints \ {n} :
           /\ Exists(m) => Exists(m)'
           /\ Exists(m)' => Exists(m)
           /\ Readable(m)' => Readable(m)
           /\ Content(m)' = Content(m)
  BY DEF Exists, Readable, Content
<1>3. Untouched => Untouched'
  BY DEF Untouched
<1>4. QED BY <1>1, <1>2, <1>3 DEF Covered, Newest

\* The newest name does not matter while there is no such file.
LEMMA WithoutAbsent ==
  ASSUME NEW n \in Checkpoints, ~Exists(n)
  PROVE  /\ Covered(Checkpoints) => Covered(Checkpoints \ {n})
         /\ Covered(Checkpoints \ {n}) => Covered(Checkpoints)
BY DEF Covered, Newest

LEMMA CreateCalm ==
  ASSUME Inductive, Calm, NEW r \in Runs, CreateCheckpoint(r)
  PROVE  Calm'
<1>0. /\ run[r].pc = "create" /\ UNCHANGED <<pool, mined>> /\ slips \subseteq slips'
      /\ run[r] \in States
  BY RunFacts DEF CreateCheckpoint, At, Slip, registryVars
<1>1. CASE Fail(r) /\ Slip(r) /\ UNCHANGED files
  <2>1. KeepFiles
    BY <1>1 DEF KeepFiles
  <2>2. CASE Working(run[r])
    <3>1. slips = {} /\ slips' = {} => Covered(Checkpoints)
      BY <1>0, <1>1, <2>2, AtWork, KnowsCovers DEF Slip, Saving
    <3>2. QED BY <1>0, <1>1, <2>2, <3>1, FailCalm
  <2>3. CASE ~Working(run[r])
    BY <1>0, <1>1, <2>1, <2>3, FailAside
  <2>4. QED BY <2>2, <2>3
<1>2. CASE Create(run[r].file) /\ Goto(r, "fill")
  <2>1. PICK n, s : n = run[r].file /\ s = [run[r] EXCEPT !.pc = "fill"]
    OBVIOUS
  <2>2. n \in Names /\ s \in States
    BY <2>1, RunFacts DEF States, Points
  <2>3. s.pc = "fill" /\ s.record = run[r].record /\ s.tx = run[r].tx /\ s.file = n
        /\ s.then = run[r].then /\ run[r].file = n
    BY <2>1, GoneOn DEF Points
  <2>4. files' = [files EXCEPT ![n] = Torn] /\ ~Exists(n) /\ files[n] = Absent
    BY <1>2, <2>1 DEF Create, Exists
  <2>5. run' = [run EXCEPT ![r] = s]
    BY <1>2, <2>1, RunFacts DEF Goto
  <2>6. \A m \in Names : m # n => files'[m] = files[m]
    BY <2>4 DEF Inductive, Types
  <2>7. KeepFiles
    BY <2>4, <2>6 DEF KeepFiles, Readable
  <2>8. CASE ~Working(run[r])
    <3>1. Saving(run[r], "idle") /\ run[r].file = WalletFile
      BY <1>0, <2>8 DEF Working, Calm
    <3>2. \A m \in Checkpoints : files'[m] = files[m]
      BY <2>3, <2>6, <3>1, FilesAssumption DEF Names, Checkpoints, WalletFile
    <3>3. ~Working(s) /\ s.file = WalletFile
      BY <1>0, <2>3, <3>1 DEF Working, Saving
    <3>4. QED BY <1>0, <2>2, <2>5, <2>7, <2>8, <3>2, <3>3, CalmAside
  <2>9. CASE Working(run[r])
    <3>1. ~Saving(s, "idle") /\ Working(s) /\ n \in Checkpoints
      BY <1>0, <2>3, <2>9, RunFacts DEF Working, Saving, Good
    <3>2. ASSUME slips = {}
          PROVE  Knows(s)'
      <4>1. Knows(run[r])
        BY <2>9, <3>2, AtWork
      <4>2. \A x : Fits(x) => Fits(x)'
        BY <1>0 DEF Fits, LastSent, Untouched
      <4>3. Untouched => Untouched'
        BY <1>0 DEF Untouched
      <4>4. Fits(s.record[1])'
        BY <1>0, <2>3, <4>1, <4>2 DEF Knows
      <4>5. (\A m \in Checkpoints : Exists(m) => m <= s.file)'
        <5>1. \A m \in Checkpoints : m # n => (Exists(m)' => Exists(m))
          BY <2>6 DEF Exists, Names
        <5>2. n <= n
          BY <3>1, FilesAssumption DEF Checkpoints
        <5>3. QED BY <2>3, <4>1, <5>1, <5>2 DEF Knows
      <4>6. s.then # "settle" => Covered(Checkpoints \ {n})'
        <5>1. SUFFICES ASSUME s.then # "settle"
                       PROVE  Covered(Checkpoints \ {n})'
          OBVIOUS
        <5>2. Covered(Checkpoints)
          BY <1>0, <2>3, <4>1, <5>1 DEF Knows
        <5>3. Covered(Checkpoints \ {n})
          BY <2>4, <3>1, <5>2, WithoutAbsent
        <5>4. \A m \in Checkpoints : m # n => files'[m] = files[m]
          BY <2>6 DEF Names
        <5>5. QED BY <1>0, <3>1, <5>3, <5>4, OtherNames
      <4>7. Saving(s, "register") => /\ s.record # <<>> /\ s.record[1].kind = "intent"
                                     /\ s.tx = <<s.record[1].register>> /\ Untouched'
        BY <1>0, <2>3, <4>1, <4>3 DEF Knows, Saving
      <4>8. QED BY <2>3, <4>4, <4>5, <4>6, <4>7 DEF Knows
    <3>3. QED BY <1>0, <2>2, <2>5, <2>7, <2>9, <3>1, <3>2, CalmMoves
  <2>10. QED BY <2>8, <2>9
<1>3. QED BY <1>1, <1>2 DEF CreateCheckpoint

LEMMA FillCalm ==
  ASSUME Inductive, Calm, NEW r \in Runs, FillCheckpoint(r)
  PROVE  Calm'
<1>0. /\ run[r].pc = "fill" /\ UNCHANGED <<pool, mined>> /\ slips \subseteq slips'
      /\ run[r] \in States /\ Good(run[r], nameOf[r])
  BY RunFacts DEF FillCheckpoint, At, Slip, registryVars
<1>1. PICK n, x : n = run[r].file /\ x = Record(r)
  OBVIOUS
<1>2. n \in Names /\ files[n] = Torn /\ ~Readable(n) /\ Exists(n)
  BY <1>0, <1>1 DEF States, Inductive, Exclusive, At, Readable, Exists, Torn, Absent
<1>3. Working(run[r]) => n \in Checkpoints
  BY <1>0, <1>1 DEF Good, Working, Saving
<1>4. ~Working(run[r]) => Saving(run[r], "idle") /\ n = WalletFile
  BY <1>0, <1>1 DEF Working, Calm
<1>5. ASSUME NEW f, files' = [files EXCEPT ![n] = f]
      PROVE  /\ files'[n] = f /\ KeepFiles
             /\ \A m \in Names : m # n => files'[m] = files[m]
             /\ ~Working(run[r]) => \A m \in Checkpoints : files'[m] = files[m]
  <2>1. files'[n] = f /\ \A m \in Names : m # n => files'[m] = files[m]
    BY <1>2, <1>5 DEF Inductive, Types
  <2>2. KeepFiles
    BY <1>2, <2>1 DEF KeepFiles
  <2>3. 0 \notin Checkpoints
    BY FilesAssumption DEF Checkpoints
  <2>4. QED BY <1>4, <2>1, <2>2, <2>3 DEF Names, WalletFile
<1>6. \A y : Fits(y) => Fits(y)'
  BY <1>0 DEF Fits, LastSent, Untouched
<1>7. ASSUME Working(run[r]), Knows(run[r]), files' = [files EXCEPT ![n] = Whole(x)]
      PROVE  /\ Newest(n, Checkpoints)' /\ files'[n] = Whole(x)
             /\ x = run[r].record[1] /\ Fits(x)' /\ Covered(Checkpoints)'
             /\ \A m \in Checkpoints : Exists(m)' => m <= n
  <2>1. n \in Checkpoints /\ files'[n] = Whole(x) /\ x = run[r].record[1]
    BY <1>1, <1>3, <1>5, <1>7 DEF Record
  <2>2. \A m \in Checkpoints : Exists(m)' => Exists(m)
    BY <1>2, <1>5, <1>7 DEF Exists, Names
  <2>3. \A m \in Checkpoints : Exists(m)' => m <= n
    BY <1>1, <1>7, <2>2 DEF Knows
  <2>4. Newest(n, Checkpoints)'
    BY <2>1, <2>3 DEF Newest, Exists, Whole, Absent
  <2>5. Fits(x)'
    BY <1>0, <1>6, <1>7, <2>1 DEF Knows
  <2>6. Content(n)' = x
    BY <2>1 DEF Content, Whole
  <2>7. Fits(Content(n))'
    BY <2>5, <2>6 DEF Fits, Untouched, LastSent
  <2>8. Covered(Checkpoints)'
    BY <2>1, <2>4, <2>7 DEF Covered
  <2>9. QED BY <2>1, <2>3, <2>4, <2>5, <2>8
<1>8. ASSUME GiveUp(run[r].file, Record(r)), Fail(r), Slip(r)
      PROVE  Calm'
  <2>1. PICK f \in {Absent, Torn, Whole(x)} : files' = [files EXCEPT ![n] = f]
    BY <1>1, <1>8 DEF GiveUp
  <2>2. CASE ~Working(run[r])
    BY <1>0, <1>5, <1>8, <2>1, <2>2, FailAside
  <2>3. CASE Working(run[r])
    <3>1. ASSUME slips = {}, slips' = {}
          PROVE  Covered(Checkpoints)'
      <4>1. Knows(run[r]) /\ run[r].then # "settle"
        BY <1>8, <2>3, <3>1, AtWork DEF Slip
      <4>2. CASE f = Absent
        <5>1. Covered(Checkpoints \ {n})
          BY <1>0, <1>1, <4>1 DEF Knows
        <5>2. \A m \in Checkpoints : m # n => files'[m] = files[m]
          BY <1>5, <2>1 DEF Names
        <5>3. Covered(Checkpoints \ {n})'
          BY <1>0, <1>3, <2>3, <5>1, <5>2, OtherNames
        <5>4. ~Exists(n)'
          BY <1>5, <2>1, <4>2 DEF Exists
        <5>5. QED BY <1>3, <2>3, <5>3, <5>4 DEF Covered, Newest
      <4>3. CASE f = Torn
        <5>1. UNCHANGED files
          BY <1>2, <2>1, <4>3 DEF Inductive, Types
        <5>2. Covered(Checkpoints)
          BY <1>0, <2>3, <4>1, FillingCovers
        <5>3. QED BY <1>0, <5>1, <5>2, QuietCalm
      <4>4. CASE f = Whole(x)
        BY <1>7, <2>1, <2>3, <4>1, <4>4
      <4>5. QED BY <4>2, <4>3, <4>4
    <3>2. PICK s : s = [Idle EXCEPT !.pc = "failed"]
      OBVIOUS
    <3>3. s \in States /\ ~Working(s) /\ ~Saving(s, "idle") /\ run' = [run EXCEPT ![r] = s]
      BY <1>8, <3>2, Ends DEF Fail
    <3>4. QED BY <1>0, <1>5, <2>1, <2>3, <3>1, <3>3, CalmMoves
  <2>4. QED BY <2>2, <2>3
<1>9. ASSUME Fill(run[r].file, Record(r)),
             run' = [run EXCEPT ![r].pc = run[r].then, ![r].then = "idle",
                                ![r].file = IF @ < MaxFiles THEN @ + 1 ELSE @]
      PROVE  Calm'
  <2>1. files' = [files EXCEPT ![n] = Whole(x)]
    BY <1>1, <1>9 DEF Fill
  <2>2. PICK m : m = IF n < MaxFiles THEN n + 1 ELSE n
    OBVIOUS
  <2>3. n \in Nat /\ m \in Nat /\ m \in Names /\ n <= m
    BY <1>2, <2>2, FilesAssumption DEF Names, WalletFile, Checkpoints
  <2>4. PICK s : s = [run[r] EXCEPT !.pc = run[r].then, !.then = "idle", !.file = m]
    OBVIOUS
  <2>5. /\ s \in States /\ s.pc = run[r].then /\ s.then = "idle" /\ s.file = m
        /\ s.record = run[r].record /\ s.tx = run[r].tx
    <3>1. run[r].then \in Points
      BY <1>0 DEF States
    <3>2. "idle" \in Points
      BY DEF Points
    <3>3. QED BY <1>0, <2>3, <2>4, <3>1, <3>2 DEF States
  <2>6. run' = [run EXCEPT ![r] = s]
    BY <1>0, <1>1, <1>9, <2>2, <2>4 DEF Inductive, Types, States
  <2>7. run[r].then \in {"idle", "register", "registry", "settle"}
    BY <1>0 DEF Good
  <2>8. CASE ~Working(run[r])
    <3>1. s.pc = "idle" /\ ~Working(s) /\ ~Saving(s, "idle")
      BY <1>4, <2>5, <2>8 DEF Saving, Working
    <3>2. QED BY <1>0, <1>5, <2>1, <2>5, <2>6, <2>8, <3>1, CalmAside
  <2>9. CASE Working(run[r])
    <3>1. run[r].then # "idle" /\ Working(s) /\ ~Saving(s, "idle")
      BY <1>0, <2>5, <2>7, <2>9 DEF Saving, Working
    <3>2. ASSUME slips = {}
          PROVE  Knows(s)'
      <4>1. Knows(run[r])
        BY <2>9, <3>2, AtWork
      <4>2. /\ Newest(n, Checkpoints)' /\ files'[n] = Whole(x)
            /\ s.record[1] = x /\ Fits(x)' /\ n \in Checkpoints
            /\ \A k \in Checkpoints : Exists(k)' => k <= n
        BY <1>3, <1>7, <2>1, <2>5, <2>9, <4>1
      <4>3. s.record # <<>>
        BY <1>0, <2>5 DEF Good
      <4>4. Synced(s)'
        BY <4>2, <4>3 DEF Synced, Newest, Exists
      <4>5. (\A k \in Checkpoints : Exists(k) => k <= s.file)'
        <5>1. \A k \in Checkpoints : k \in Nat
          BY FilesAssumption DEF Checkpoints
        <5>2. QED BY <2>3, <2>5, <4>2, <5>1
      <4>6. s.pc = "register" => /\ s.record[1].kind = "intent" /\ Untouched'
                                 /\ s.tx = <<s.record[1].register>>
        BY <1>0, <2>5, <4>1 DEF Knows, Saving, Untouched
      <4>7. QED BY <2>5, <2>7, <3>1, <4>3, <4>4, <4>5, <4>6 DEF Knows, Saving
    <3>3. QED BY <1>0, <1>5, <2>1, <2>5, <2>6, <2>9, <3>1, <3>2, CalmMoves
  <2>10. QED BY <2>8, <2>9
<1>10. QED BY <1>8, <1>9 DEF FillCheckpoint

----------------------------------------------------------------------------
(* What the node says is pending                                           *)

LEMMA PendingNothing ==
  ASSUME Types, pool = {}
  PROVE  PendingNonce = Len(mined)
<1>1. Len(mined) \in Nat
  BY DEF Types
<1>2. Cardinality(pool) = 0
  BY FS_EmptySet
<1> DEFINE P(n) == /\ n >= Len(mined)
                   /\ \A m \in Len(mined)..(n - 1) : \E t \in pool : t.nonce = m
                   /\ \A t \in pool : t.nonce # n
<1>3. PendingNonce = CHOOSE n \in 0..(Len(mined) + Cardinality(pool)) : P(n)
  BY DEF PendingNonce
<1>4. Len(mined) \in 0..(Len(mined) + Cardinality(pool)) /\ P(Len(mined))
  BY <1>1, <1>2
<1>5. \A n \in 0..(Len(mined) + Cardinality(pool)) : P(n) => n = Len(mined)
  BY <1>1, <1>2
<1> HIDE DEF P
<1>6. QED BY <1>3, <1>4, <1>5

LEMMA PendingOne ==
  ASSUME Types, NEW tx, pool = {tx}, tx.nonce = Len(mined)
  PROVE  PendingNonce = Len(mined) + 1
<1>1. Len(mined) \in Nat
  BY DEF Types
<1>2. Cardinality(pool) = 1
  BY FS_Singleton
<1> DEFINE P(n) == /\ n >= Len(mined)
                   /\ \A m \in Len(mined)..(n - 1) : \E t \in pool : t.nonce = m
                   /\ \A t \in pool : t.nonce # n
<1>3. PendingNonce = CHOOSE n \in 0..(Len(mined) + Cardinality(pool)) : P(n)
  BY DEF PendingNonce
<1>4. Len(mined) + 1 \in 0..(Len(mined) + Cardinality(pool)) /\ P(Len(mined) + 1)
  BY <1>1, <1>2
<1>5. \A n \in 0..(Len(mined) + Cardinality(pool)) : P(n) => n = Len(mined) + 1
  <2>1. TAKE n \in 0..(Len(mined) + Cardinality(pool))
  <2>2. HAVE P(n)
  <2>3. n # Len(mined) /\ n >= Len(mined) /\ n <= Len(mined) + 1 /\ n \in Nat
    BY <1>1, <1>2, <2>2
  <2>4. QED BY <1>1, <2>3
<1> HIDE DEF P
<1>6. QED BY <1>3, <1>4, <1>5

\* When nothing is pending, what the checkpoint says was not sent.
LEMMA PendingZero ==
  ASSUME Types, NEW s, Synced(s), s.record = <<>> \/ s.record[1].kind = "intent",
         PendingNonce = 0
  PROVE  Untouched
<1>1. CASE s.record = <<>>
  BY <1>1 DEF Synced
<1>2. CASE s.record # <<>>
  <2>1. Fits(s.record[1]) /\ s.record[1].kind = "intent"
    BY <1>2 DEF Synced
  <2> DEFINE tx == s.record[1].register
  <2>2. tx.nonce = 0 /\ (Untouched \/ LastSent(tx))
    BY <2>1 DEF Fits
  <2> HIDE DEF tx
  <2>3. CASE pool = {tx} /\ Len(mined) = tx.nonce
    BY <2>2, <2>3, PendingOne
  <2>4. CASE pool = {} /\ Len(mined) = tx.nonce + 1
    BY <2>2, <2>4, PendingNothing
  <2>5. QED BY <2>2, <2>3, <2>4 DEF LastSent
<1>3. QED BY <1>1, <1>2

----------------------------------------------------------------------------
(* Registering                                                             *)

LEMMA RecordIntentCalm ==
  ASSUME Inductive, Calm, NEW r \in Runs, run[r].pc = "nonce", RecordIntent(r),
         UNCHANGED <<files, pool, mined>>, slips \subseteq slips', slips' = {} => PendingNonce = 0
  PROVE  Calm'
<1>0. Working(run[r])
  BY DEF Working, Saving
<1>a. slips = {} => Knows(run[r]) /\ Synced(run[r]) /\ Covered(Checkpoints)
  BY <1>0, AtWork, SyncedCovers DEF Knows
<1>1. CASE Fail(r)
  BY <1>0, <1>1, <1>a, FailCalm
<1>2. ASSUME NEW fee \in Fees, NEW tx, tx = RegisterTx(nameOf[r], fee),
             run' = [run EXCEPT ![r].pc = "create", ![r].record = <<Intent(tx)>>,
                                ![r].tx = <<tx>>, ![r].then = "register"]
      PROVE  Calm'
  <2>1. PICK x : x = Intent(tx)
    OBVIOUS
  <2>2. tx \in Transactions /\ tx.nonce = 0
    BY <1>2, RunFacts, RegistrationAssumption DEF RegisterTx, Transactions
  <2>3. x \in Documents /\ x.register = tx /\ x.kind = "intent"
    BY <2>1, <2>2 DEF Intent, Documents, Maybe
  <2>4. PICK s : s = [run[r] EXCEPT !.pc = "create", !.record = <<x>>, !.tx = <<tx>>,
                                    !.then = "register"]
    OBVIOUS
  <2>5. /\ s \in States /\ s.pc = "create" /\ s.then = "register" /\ s.record = <<x>>
        /\ s.tx = <<tx>> /\ s.file = run[r].file
    <3>1. <<x>> \in Maybe(Documents) /\ <<tx>> \in Maybe(Transactions)
      BY <2>2, <2>3 DEF Maybe
    <3>2. "create" \in Points /\ "register" \in Points
      BY DEF Points
    <3>3. run[r] \in States
      BY RunFacts
    <3>4. QED BY <2>4, <3>1, <3>2, <3>3 DEF States
  <2>6. run' = [run EXCEPT ![r] = s]
    BY <1>2, <2>1, <2>4 DEF Inductive, Types, States
  <2>7. ~Saving(s, "idle") /\ Working(s) /\ s.record[1] = x /\ s.record # <<>>
    BY <2>5 DEF Saving, Working
  <2>8. ASSUME slips = {}, slips' = {}
        PROVE  Knows(s)
    <3>1. Knows(run[r]) /\ Synced(run[r]) /\ Covered(Checkpoints)
      BY <1>a, <2>8
    <3>2. Untouched
      BY <2>8, <3>1, PendingZero DEF Knows, Inductive
    <3>3. Fits(x)
      BY <2>2, <2>3, <3>2 DEF Fits
    <3>4. QED BY <2>3, <2>5, <2>7, <3>1, <3>2, <3>3 DEF Knows, Saving
  <2>9. QED BY <1>0, <2>5, <2>6, <2>7, <2>8, QuietMove
<1>3. QED BY <1>1, <1>2 DEF RecordIntent

LEMMA TakeUpCalm ==
  ASSUME Inductive, Calm, NEW r \in Runs, run[r].pc = "nonce", TakeUpIntent(r),
         UNCHANGED <<files, pool, mined>>, slips \subseteq slips'
  PROVE  Calm'
<1>0. Working(run[r])
  BY DEF Working, Saving
<1>a. slips = {} => Knows(run[r]) /\ Synced(run[r]) /\ Covered(Checkpoints)
  BY <1>0, AtWork, SyncedCovers DEF Knows
<1>1. CASE Fail(r)
  BY <1>0, <1>1, <1>a, FailCalm
<1>2. ASSUME NEW tx, tx = Record(r).register, run[r].record # <<>>,
             run' = [run EXCEPT ![r].pc = "receipt", ![r].tx = <<tx>>]
      PROVE  Calm'
  <2>1. tx \in Transactions
    BY <1>2, RunFacts DEF Documents
  <2>2. PICK s : s = [run[r] EXCEPT !.pc = "receipt", !.tx = <<tx>>]
    OBVIOUS
  <2>3. /\ s \in States /\ s.pc = "receipt" /\ s.tx = <<tx>> /\ s.file = run[r].file
        /\ s.record = run[r].record
    <3>1. <<tx>> \in Maybe(Transactions) /\ "receipt" \in Points /\ run[r] \in States
      BY <2>1, RunFacts DEF Maybe, Points
    <3>2. QED BY <2>2, <3>1 DEF States
  <2>4. run' = [run EXCEPT ![r] = s]
    BY <1>2, <2>2 DEF Inductive, Types, States
  <2>5. ~Saving(s, "idle") /\ Working(s)
    BY <2>3 DEF Saving, Working
  <2>6. ASSUME slips = {}
        PROVE  Knows(s)
    <3>1. Knows(run[r]) /\ Synced(run[r])
      BY <1>a, <2>6
    <3>2. Synced(s)
      BY <2>3, <3>1 DEF Synced
    <3>3. s.record[1].kind = "intent" /\ tx = s.record[1].register
      BY <1>2, <2>3, <3>1 DEF Knows, Record
    <3>4. QED BY <1>2, <2>3, <3>1, <3>2, <3>3 DEF Knows, Saving
  <2>7. QED BY <1>0, <2>3, <2>4, <2>5, <2>6, QuietMove
<1>3. QED BY <1>1, <1>2 DEF TakeUpIntent, IntendedTransaction

LEMMA ReadNonceCalm ==
  ASSUME Inductive, Calm, NEW r \in Runs, ReadNonce(r)
  PROVE  Calm'
<1>0. run[r].pc = "nonce" /\ UNCHANGED <<files, pool, mined>>
  BY DEF ReadNonce, At, registryVars
<1>1. CASE UNCHANGED slips /\ IF PendingNonce = 0 THEN RecordIntent(r) ELSE TakeUpIntent(r)
  BY <1>0, <1>1, RecordIntentCalm, TakeUpCalm
<1>2. CASE /\ slips' = slips \cup {"lag"}
           /\ IF Len(mined) = 0 THEN RecordIntent(r) ELSE TakeUpIntent(r)
  <2>1. slips \subseteq slips' /\ slips' # {}
    BY <1>2
  <2>2. QED BY <1>0, <1>2, <2>1, RecordIntentCalm, TakeUpCalm
<1>3. QED BY <1>1, <1>2 DEF ReadNonce

\* The record of a run whose transaction the node took says so.
LEMMA TookIntent ==
  ASSUME Types, NEW s, Knows(s), s.pc = "register", Take(s.tx[1])
  PROVE  Fits(s.record[1])'
<1>1. s.record[1].kind = "intent" /\ s.tx = <<s.record[1].register>> /\ Untouched
  BY DEF Knows
<1>2. s.record # <<>> /\ Fits(s.record[1])
  BY DEF Knows, Synced
<1>3. s.record[1].register.nonce = 0 /\ s.tx[1] = s.record[1].register
  BY <1>1, <1>2 DEF Fits
<1>4. pool' = {s.tx[1]} /\ mined' = mined /\ Len(mined) = 0
  BY <1>1 DEF Take, Untouched
<1>5. QED BY <1>1, <1>3, <1>4 DEF Fits, LastSent

\* The record a run works from stays true of the files.
LEMMA SyncedStays ==
  ASSUME NEW s, Synced(s), s.record # <<>>, UNCHANGED files, Fits(s.record[1])'
  PROVE  Synced(s)' /\ Covered(Checkpoints)'
<1>1. PICK k \in Checkpoints : Newest(k, Checkpoints) /\ files[k] = Whole(s.record[1])
  BY DEF Synced
<1>2. Newest(k, Checkpoints)'
  BY <1>1 DEF Newest, Exists
<1>3. files'[k] = Whole(s.record[1])
  BY <1>1
<1>4. Synced(s)'
  BY <1>2, <1>3 DEF Synced
<1>5. Content(k)' = s.record[1]
  BY <1>3 DEF Content, Whole
<1>6. Fits(Content(k))'
  BY <1>5 DEF Fits, Untouched, LastSent
<1>7. QED BY <1>2, <1>4, <1>6 DEF Covered

LEMMA FailMoves ==
  ASSUME Inductive, Calm, NEW r \in Runs, Working(run[r]), Fail(r), UNCHANGED files,
         slips \subseteq slips', slips = {} /\ slips' = {} => Covered(Checkpoints)'
  PROVE  Calm'
<1> DEFINE s == [Idle EXCEPT !.pc = "failed"]
<1>1. s \in States /\ ~Working(s) /\ ~Saving(s, "idle")
  BY Ends
<1>2. run' = [run EXCEPT ![r] = s] /\ KeepFiles
  BY DEF Fail, KeepFiles
<1> HIDE DEF s
<1>3. QED BY <1>1, <1>2, CalmMoves

LEMMA BroadcastRegisterCalm ==
  ASSUME Inductive, Calm, NEW r \in Runs, BroadcastRegister(r)
  PROVE  Calm'
<1>0. /\ run[r].pc = "register" /\ UNCHANGED files /\ Working(run[r]) /\ slips \subseteq slips'
      /\ run[r].record # <<>> \/ slips # {}
  <2>1. run[r].pc = "register" /\ UNCHANGED files /\ Working(run[r]) /\ slips \subseteq slips'
    BY DEF BroadcastRegister, At, Working, Saving, Send
  <2>2. slips = {} => run[r].record # <<>>
    BY <2>1, AtWork DEF Knows
  <2>3. QED BY <2>1, <2>2
<1>a. slips = {} => Knows(run[r]) /\ Synced(run[r]) /\ Covered(Checkpoints)
  BY <1>0, AtWork, SyncedCovers DEF Knows
<1>b. PICK c : c = run[r]
  OBVIOUS
<1>c. slips = {} /\ Take(Tx(r)) => Fits(c.record[1])' /\ Synced(c)' /\ Covered(Checkpoints)'
  <2>1. SUFFICES ASSUME slips = {}, Take(Tx(r))
                 PROVE  Fits(c.record[1])' /\ Synced(c)' /\ Covered(Checkpoints)'
    OBVIOUS
  <2>2. Fits(c.record[1])'
    BY <1>0, <1>a, <1>b, <2>1, TookIntent DEF Tx, Inductive
  <2>3. QED BY <1>0, <1>a, <1>b, <2>1, <2>2, SyncedStays
<1>1. CASE Fail(r) /\ UNCHANGED registryVars
  BY <1>0, <1>1, <1>a, FailCalm DEF registryVars
<1>2. CASE Fail(r) /\ Take(Tx(r))
  BY <1>0, <1>2, <1>c, FailMoves
<1>3. CASE Take(Tx(r)) /\ Goto(r, "receipt")
  <2>1. PICK s : s = [run[r] EXCEPT !.pc = "receipt"]
    OBVIOUS
  <2>2. s.pc = "receipt" /\ s.record = c.record /\ s.file = c.file /\ s.tx = c.tx
    BY <1>b, <2>1, GoneOn DEF Points
  <2>3. s \in States /\ run' = [run EXCEPT ![r] = s]
    BY <1>3, <2>1, RunFacts DEF Goto, States, Points
  <2>4. Working(s) /\ ~Saving(s, "idle") /\ KeepFiles
    BY <1>0, <2>2 DEF Working, Saving, KeepFiles
  <2>5. ASSUME slips = {}
        PROVE  Knows(s)'
    <3>1. Knows(c) /\ c.pc = "register" /\ c.record # <<>>
      BY <1>0, <1>a, <1>b, <2>5
    <3>2. Synced(s)'
      BY <1>3, <1>c, <2>2, <2>5 DEF Synced, Fits, LastSent, Untouched
    <3>3. (\A m \in Checkpoints : Exists(m) => m <= s.file)'
      BY <1>0, <2>2, <3>1 DEF Knows, Exists
    <3>4. s.record # <<>> /\ s.record[1].kind = "intent" /\ s.tx = <<s.record[1].register>>
      BY <2>2, <3>1 DEF Knows
    <3>5. QED BY <2>2, <3>2, <3>3, <3>4 DEF Knows, Saving
  <2>6. QED BY <1>0, <2>3, <2>4, <2>5, CalmMoves
<1>4. QED BY <1>1, <1>2, <1>3 DEF BroadcastRegister, Send

LEMMA AwaitRegisterCalm ==
  ASSUME Inductive, Calm, NEW r \in Runs, AwaitRegister(r)
  PROVE  Calm'
<1>0. run[r].pc = "receipt" /\ UNCHANGED <<files, pool, mined, slips>> /\ Working(run[r])
  BY DEF AwaitRegister, At, Working, Saving, registryVars
<1>a. slips = {} => Knows(run[r]) /\ Synced(run[r]) /\ Covered(Checkpoints)
  BY <1>0, AtWork, SyncedCovers DEF Knows
<1>1. CASE Fail(r)
  BY <1>0, <1>1, <1>a, FailCalm
<1>2. CASE RegisteredEvent(Tx(r), nameOf[r]) /\ Save(r, Recovery(Tx(r)), "registry")
  <2>1. PICK x : x = Recovery(Tx(r))
    OBVIOUS
  <2>2. Tx(r) \in Transactions
    BY <1>0, RunFacts DEF Good
  <2>3. x \in Documents /\ x.metadata = <<>> /\ x.kind = "recovery"
    BY <2>1, <2>2 DEF Recovery, Documents, Maybe
  <2>4. "registry" \in Points
    BY DEF Points
  <2>5. PICK s \in States :
           /\ s.pc = "create" /\ s.then = "registry" /\ s.record = <<x>> /\ s.tx = run[r].tx
           /\ s.file = run[r].file /\ run' = [run EXCEPT ![r] = s]
    <3>1. Saves(r, x, "registry")
      BY <1>2, <2>1, <2>3, <2>4, SavingState
    <3>2. QED BY <3>1 DEF Saves
  <2>6. Working(s) /\ ~Saving(s, "idle") /\ s.record[1] = x /\ s.record # <<>>
    BY <2>5 DEF Working, Saving
  <2>7. ASSUME slips = {}
        PROVE  Knows(s)
    <3>1. Knows(run[r]) /\ Synced(run[r]) /\ Covered(Checkpoints)
      BY <1>a, <2>7
    <3>2. PICK tx : tx = Tx(r)
      OBVIOUS
    <3>3. /\ run[r].record # <<>> /\ run[r].record[1].kind = "intent"
          /\ run[r].record[1].register = tx
      BY <1>0, <3>1, <3>2 DEF Knows, Tx
    <3>4. tx.nonce = 0 /\ (Untouched \/ LastSent(tx))
      BY <3>1, <3>3 DEF Synced, Fits
    <3>5. PICK i \in DOMAIN mined : mined[i] = [tx |-> tx, ok |-> TRUE]
      BY <1>2, <3>2 DEF RegisteredEvent, SuccessfulReceipt, Settled
    <3>6. mined # <<>> /\ Len(mined) \in Nat /\ Len(mined) # 0
      <4>1. mined \in Seq([tx : Transactions, ok : BOOLEAN])
        BY DEF Inductive, Types
      <4>2. QED BY <3>5, <4>1
    <3>7. pool = {} /\ Len(mined) = 1
      BY <3>4, <3>6 DEF Untouched, LastSent
    <3>8. Fits(x)
      BY <2>3, <3>7 DEF Fits
    <3>9. QED BY <2>5, <2>6, <3>1, <3>8 DEF Knows, Saving
  <2>8. QED BY <1>0, <2>5, <2>6, <2>7, QuietMove
<1>3. QED BY <1>1, <1>2 DEF AwaitRegister

----------------------------------------------------------------------------
(* Finishing                                                               *)

LEMMA FinalizeCalm ==
  ASSUME Inductive, Calm, NEW r \in Runs, Finalize(r)
  PROVE  Calm'
<1>0. /\ run[r].pc = "finalize" /\ UNCHANGED <<files, pool, mined, slips>> /\ Working(run[r])
      /\ run[r].record # <<>> /\ run[r] \in States
  BY RunFacts DEF Finalize, At, Working, Saving, registryVars, Good
<1>a. slips = {} => Knows(run[r]) /\ Synced(run[r]) /\ Covered(Checkpoints)
  BY <1>0, AtWork, SyncedCovers DEF Knows
<1>1. CASE Fail(r)
  BY <1>0, <1>1, <1>a, FailCalm
<1>2. ASSUME NEW s \in States, run' = [run EXCEPT ![r] = s], s.pc \in {"count", "recheck"},
             s.record = run[r].record, s.file = run[r].file
      PROVE  Calm'
  <2>1. Working(s) /\ ~Saving(s, "idle")
    BY <1>2 DEF Working, Saving
  <2>2. ASSUME slips = {}
        PROVE  Knows(s)
    <3>1. Knows(run[r]) /\ Synced(run[r])
      BY <1>a, <2>2
    <3>2. Synced(s)
      BY <1>2, <3>1 DEF Synced
    <3>3. s.record # <<>> /\ s.record[1].kind = "recovery"
      BY <1>0, <1>2, <3>1 DEF Knows
    <3>4. QED BY <1>2, <3>1, <3>2, <3>3 DEF Knows, Saving
  <2>3. QED BY <1>0, <1>2, <2>1, <2>2, QuietMove
<1>3. CASE Goto(r, "count")
  <2>1. PICK s : s = [run[r] EXCEPT !.pc = "count"]
    OBVIOUS
  <2>2. /\ s.pc = "count" /\ s.record = run[r].record /\ s.file = run[r].file
        /\ s \in States /\ run' = [run EXCEPT ![r] = s]
    BY <1>0, <1>3, <2>1, GoneOn DEF Points, Goto, States
  <2>3. QED BY <1>2, <2>2
<1>4. CASE run' = [run EXCEPT ![r].pc = "recheck", ![r].tx = Record(r).metadata]
  <2>1. PICK md : md = Record(r).metadata
    OBVIOUS
  <2>2. PICK s : s = [run[r] EXCEPT !.pc = "recheck", !.tx = md]
    OBVIOUS
  <2>3. /\ s \in States /\ s.pc = "recheck" /\ s.record = run[r].record /\ s.file = run[r].file
    <3>1. md \in Maybe(Transactions) /\ "recheck" \in Points
      BY <1>0, <2>1, RunFacts DEF Documents, Points
    <3>2. QED BY <1>0, <2>2, <3>1 DEF States
  <2>4. run' = [run EXCEPT ![r] = s]
    BY <1>4, <2>1, <2>2 DEF Inductive, Types, States
  <2>5. QED BY <1>2, <2>3, <2>4
<1>5. QED BY <1>1, <1>3, <1>4 DEF Finalize

LEMMA ReadbackCalm ==
  ASSUME Inductive, Calm, NEW r \in Runs, Readback(r), run[r].pc \in {"recheck", "settle"},
         UNCHANGED <<files, pool, mined, slips>>
  PROVE  Calm'
<1>1. Working(run[r])
  BY DEF Working, Saving
<1>2. slips = {} => Covered(Checkpoints)
  BY <1>1, AtWork, SyncedCovers DEF Knows
<1>3. CASE Fail(r)
  BY <1>1, <1>2, <1>3, FailCalm
<1>4. CASE Goto(r, "ok")
  BY <1>1, <1>4, GotoCalm
<1>5. QED BY <1>3, <1>4 DEF Readback

LEMMA RecheckCalm ==
  ASSUME Inductive, Calm, NEW r \in Runs, Recheck(r)
  PROVE  Calm'
<1>0. run[r].pc = "recheck" /\ UNCHANGED <<files, pool, mined, slips>> /\ Working(run[r])
  BY DEF Recheck, At, Working, Saving, registryVars
<1>a. slips = {} => Knows(run[r]) /\ Covered(Checkpoints)
  BY <1>0, AtWork, SyncedCovers DEF Knows
<1>1. CASE Fail(r)
  BY <1>0, <1>1, <1>a, FailCalm
<1>2. CASE Readback(r)
  BY <1>0, <1>2, ReadbackCalm
<1>3. CASE Goto(r, "count")
  <2>1. PICK s : s = [run[r] EXCEPT !.pc = "count"]
    OBVIOUS
  <2>2. /\ s.pc = "count" /\ s.record = run[r].record /\ s.file = run[r].file
        /\ s \in States /\ run' = [run EXCEPT ![r] = s]
    BY <1>0, <1>3, <2>1, GoneOn, RunFacts DEF Points, Goto, States
  <2>3. Working(s) /\ ~Saving(s, "idle")
    BY <2>2 DEF Working, Saving
  <2>4. ASSUME slips = {}
        PROVE  Knows(s)
    <3>1. Knows(run[r]) /\ Synced(run[r])
      BY <1>0, <1>a, <2>4 DEF Knows
    <3>2. Synced(s)
      BY <2>2, <3>1 DEF Synced
    <3>3. s.record # <<>> /\ s.record[1].kind = "recovery"
      BY <1>0, <2>2, <3>1 DEF Knows
    <3>4. QED BY <2>2, <3>1, <3>2, <3>3 DEF Knows, Saving
  <2>5. QED BY <1>0, <2>2, <2>3, <2>4, QuietMove
<1>4. QED BY <1>1, <1>2, <1>3 DEF Recheck

LEMMA AwaitMetadataCalm ==
  ASSUME Inductive, Calm, NEW r \in Runs, AwaitMetadata(r)
  PROVE  Calm'
<1>0. run[r].pc = "settle" /\ UNCHANGED <<files, pool, mined, slips>> /\ Working(run[r])
  BY DEF AwaitMetadata, At, Working, Saving, registryVars
<1>1. CASE Fail(r)
  <2>1. slips = {} => Covered(Checkpoints)
    BY <1>0, AtWork, SyncedCovers DEF Knows
  <2>2. QED BY <1>0, <1>1, <2>1, FailCalm
<1>2. CASE Readback(r)
  BY <1>0, <1>2, ReadbackCalm
<1>3. QED BY <1>1, <1>2 DEF AwaitMetadata

\* The safe nonce is the next one to be mined.
LEMMA SafeIsNext ==
  ASSUME Inductive, NEW r \in Runs, Knows(run[r]), run[r].pc = "count", NEW nonce,
         SafeNonce(r, nonce)
  PROVE  pool = {} /\ nonce = Len(mined)
<1>0. /\ run[r].record # <<>> /\ Record(r).kind = "recovery" /\ Fits(Record(r))
      /\ Record(r) \in Documents /\ Good(run[r], nameOf[r])
  BY RunFacts DEF Knows, Synced, Record
<1>1. CASE Record(r).metadata = <<>>
  BY <1>0, <1>1 DEF Fits, SafeNonce
<1>2. CASE Record(r).metadata # <<>>
  <2>1. PICK m \in Transactions : m = Record(r).metadata[1]
    BY <1>0, <1>2 DEF Documents, Maybe
  <2>2. m.nonce \in Nat /\ nonce = m.nonce + 1 /\ LastSent(m)
    BY <1>0, <1>2, <2>1 DEF SafeNonce, Transactions, Fits
  <2>3. Settled(m, FALSE)
    BY <1>0, <1>2, <2>1 DEF Good, Record
  <2>4. PICK i \in DOMAIN mined : mined[i] = [tx |-> m, ok |-> FALSE]
    BY <2>3 DEF Settled
  <2>5. i \in 1..Len(mined) /\ Len(mined) \in Nat
    <3>1. mined \in Seq([tx : Transactions, ok : BOOLEAN])
      BY DEF Inductive, Types
    <3>2. QED BY <3>1
  <2>6. mined[i].tx = m /\ mined[i].tx.nonce = i - 1
    BY <2>4 DEF Inductive, Chain
  <2>7. i = nonce
    BY <2>2, <2>5, <2>6
  <2>8. Len(mined) # m.nonce
    BY <2>2, <2>5, <2>7
  <2>9. QED BY <2>2, <2>8 DEF LastSent
<1>3. QED BY <1>1, <1>2

LEMMA CountMetadataCalm ==
  ASSUME Inductive, Calm, NEW r \in Runs, CountMetadata(r)
  PROVE  Calm'
<1>0. /\ run[r].pc = "count" /\ UNCHANGED <<files, pool, mined>> /\ Working(run[r])
      /\ slips \subseteq slips'
  BY DEF CountMetadata, At, Working, Saving, registryVars
<1>a. slips = {} => Knows(run[r]) /\ Covered(Checkpoints)
  BY <1>0, AtWork, SyncedCovers DEF Knows
<1>b. PICK nonce : PrepareMetadata(r, nonce)
  BY DEF CountMetadata
<1>1. CASE Fail(r)
  BY <1>0, <1>1, <1>a, FailCalm
<1>2. ASSUME NEW fee \in Fees, SafeNonce(r, nonce), NEW tx, tx = MetadataTx(nameOf[r], nonce, fee),
             run' = [run EXCEPT ![r].pc = "metadata", ![r].tx = <<tx>>]
      PROVE  Calm'
  <2>1. nonce \in Nat
    BY <1>0, <1>2, SafeNonceFacts
  <2>2. tx \in Transactions /\ tx.nonce = nonce
    BY <1>2, <2>1, RunFacts, RegistrationAssumption DEF MetadataTx, Transactions
  <2>3. PICK s : s = [run[r] EXCEPT !.pc = "metadata", !.tx = <<tx>>]
    OBVIOUS
  <2>4. /\ s \in States /\ s.pc = "metadata" /\ s.tx = <<tx>> /\ s.record = run[r].record
        /\ s.file = run[r].file
    <3>1. <<tx>> \in Maybe(Transactions) /\ "metadata" \in Points /\ run[r] \in States
      BY <2>2, RunFacts DEF Maybe, Points
    <3>2. QED BY <2>3, <3>1 DEF States
  <2>5. run' = [run EXCEPT ![r] = s]
    BY <1>2, <2>3 DEF Inductive, Types, States
  <2>6. Working(s) /\ ~Saving(s, "idle")
    BY <2>4 DEF Working, Saving
  <2>7. ASSUME slips = {}
        PROVE  Knows(s)
    <3>1. Knows(run[r]) /\ Synced(run[r])
      BY <1>0, <1>a, <2>7 DEF Knows
    <3>2. Synced(s)
      BY <2>4, <3>1 DEF Synced
    <3>3. s.record # <<>> /\ s.record[1].kind = "recovery"
      BY <1>0, <2>4, <3>1 DEF Knows
    <3>4. pool = {} /\ s.tx[1].nonce = Len(mined)
      BY <1>0, <1>2, <2>2, <2>4, <3>1, SafeIsNext
    <3>5. QED BY <2>4, <3>1, <3>2, <3>3, <3>4 DEF Knows, Saving
  <2>8. QED BY <1>0, <2>4, <2>5, <2>6, <2>7, QuietMove
<1>3. QED BY <1>b, <1>1, <1>2 DEF PrepareMetadata

LEMMA BroadcastMetadataCalm ==
  ASSUME Inductive, Calm, NEW r \in Runs, BroadcastMetadata(r)
  PROVE  Calm'
<1>0. /\ run[r].pc = "metadata" /\ UNCHANGED files /\ Working(run[r]) /\ slips \subseteq slips'
      /\ run[r].record # <<>> /\ run[r].tx # <<>> /\ Tx(r).call = "metadata"
  <2>1. run[r].pc = "metadata" /\ UNCHANGED files /\ Working(run[r]) /\ slips \subseteq slips'
    BY DEF BroadcastMetadata, At, Working, Saving, Send
  <2>2. Good(run[r], nameOf[r])
    BY RunFacts
  <2>3. QED BY <2>1, <2>2 DEF Good, Tx
<1>1. /\ Tx(r) \in Transactions /\ Record(r) \in Documents
  BY <1>0, RunFacts
<1>a. slips = {} => Knows(run[r]) /\ Covered(Checkpoints)
  BY <1>0, AtWork, SyncedCovers DEF Knows
<1>2. CASE Fail(r) /\ UNCHANGED registryVars
  BY <1>0, <1>2, <1>a, FailCalm DEF registryVars
<1>3. CASE Fail(r) /\ slips' # {}
  BY <1>0, <1>3, FailMoves
<1>4. CASE Take(Tx(r)) /\ Save(r, WithMetadataTransaction(Record(r), Tx(r)), "settle")
  <2>1. PICK x, tx : tx = Tx(r) /\ x = WithMetadataTransaction(Record(r), tx)
    OBVIOUS
  <2>2. <<tx>> \in Maybe(Transactions)
    BY <1>1, <2>1 DEF Maybe
  <2>3. x \in Documents /\ x.metadata = <<tx>> /\ x.kind = Record(r).kind
    BY <1>1, <2>1, <2>2 DEF WithMetadataTransaction, Documents
  <2>4. "settle" \in Points
    BY DEF Points
  <2>5. PICK s \in States :
           /\ s.pc = "create" /\ s.then = "settle" /\ s.record = <<x>> /\ s.tx = run[r].tx
           /\ s.file = run[r].file /\ run' = [run EXCEPT ![r] = s]
    <3>1. Saves(r, x, "settle")
      BY <1>4, <2>1, <2>3, <2>4, SavingState
    <3>2. QED BY <3>1 DEF Saves
  <2>6. Working(s) /\ ~Saving(s, "idle") /\ KeepFiles /\ s.record[1] = x
    BY <1>0, <2>5 DEF Working, Saving, KeepFiles
  <2>7. ASSUME slips = {}
        PROVE  Knows(s)'
    <3>1. Knows(run[r])
      BY <1>a, <2>7
    <3>2. pool = {} /\ tx.nonce = Len(mined) /\ x.kind = "recovery"
      BY <1>0, <2>1, <2>3, <3>1 DEF Knows, Tx, Record
    <3>3. pool' = {tx} /\ mined' = mined
      BY <1>4, <2>1, <3>2 DEF Take
    <3>4. x.metadata # <<>> /\ x.metadata[1] = tx
      BY <2>3
    <3>5. Fits(x)'
      BY <3>2, <3>3, <3>4 DEF Fits, LastSent
    <3>6. (\A m \in Checkpoints : Exists(m) => m <= s.file)'
      BY <1>0, <2>5, <3>1 DEF Knows, Exists
    <3>7. QED BY <2>5, <2>6, <3>5, <3>6 DEF Knows, Saving
  <2>8. QED BY <1>0, <2>5, <2>6, <2>7, CalmMoves
<1>5. slips \cup {"unrecorded"} # {}
  OBVIOUS
<1>6. QED BY <1>0, <1>2, <1>3, <1>4, <1>5 DEF BroadcastMetadata, Send

\* What is mined was sent: the checkpoints say no less than before.
LEMMA MinedFits ==
  ASSUME Inductive, ChainStep
  PROVE  ~Untouched /\ pool # {} /\ \A x : Fits(x) => Fits(x)'
<1>1. PICK tx \in pool, ok \in BOOLEAN :
         /\ tx.nonce = Len(mined) /\ pool' = pool \ {tx}
         /\ mined' = Append(mined, [tx |-> tx, ok |-> ok])
  BY DEF ChainStep, Mine
<1>2. ~Untouched /\ pool # {}
  BY <1>1 DEF Untouched
<1>3. PICK e \in [tx : Transactions, ok : BOOLEAN] : e.tx = tx /\ mined' = Append(mined, e)
  BY <1>1 DEF Inductive, Types
<1>4. Len(mined') = Len(mined) + 1 /\ mined'[Len(mined) + 1] = e /\ Len(mined) \in Nat
  BY <1>3, AppendProperties DEF Inductive, Types
<1>5. ASSUME NEW t, LastSent(t)
      PROVE  LastSent(t)'
  <2>1. pool = {t} /\ Len(mined) = t.nonce
    BY <1>2, <1>5 DEF LastSent
  <2>2. t = tx /\ pool' = {}
    BY <1>1, <2>1
  <2>3. Len(mined') = t.nonce + 1 /\ mined'[Len(mined')].tx = t
    BY <1>3, <1>4, <2>1, <2>2
  <2>4. QED BY <2>2, <2>3 DEF LastSent
<1>6. ASSUME NEW x, Fits(x)
      PROVE  Fits(x)'
  <2>1. CASE x.kind = "intent"
    BY <1>2, <1>5, <1>6, <2>1 DEF Fits
  <2>2. CASE x.kind # "intent" /\ x.metadata = <<>>
    BY <1>2, <1>6, <2>2 DEF Fits
  <2>3. CASE x.kind # "intent" /\ x.metadata # <<>>
    BY <1>5, <1>6, <2>3 DEF Fits
  <2>4. QED BY <2>1, <2>2, <2>3
<1>7. QED BY <1>2, <1>6

LEMMA ChainStepCalm ==
  ASSUME Inductive, Calm, ChainStep
  PROVE  Calm'
<1>0. UNCHANGED <<files, run>> /\ (slips' = {} => slips = {})
  BY DEF ChainStep
<1>1. ~Untouched /\ pool # {} /\ \A x : Fits(x) => Fits(x)'
  BY MinedFits
<1>2. \A n : (Exists(n) => Exists(n)') /\ (Exists(n)' => Exists(n)) /\ (Readable(n) => Readable(n)')
             /\ (Readable(n)' => Readable(n)) /\ Content(n)' = Content(n)
  BY <1>0 DEF Exists, Readable, Content
<1>3. \A S : Covered(S) => Covered(S)'
  BY <1>1, <1>2 DEF Covered, Newest
<1>4. \A s : Synced(s) => Synced(s)'
  BY <1>0, <1>1, <1>2 DEF Synced, Newest
<1>5. \A s : Knows(s) => Knows(s)'
  BY <1>1, <1>2, <1>3, <1>4 DEF Knows
<1>6. ASSUME slips = {}, NEW q \in Runs, Working(run[q])
      PROVE  Knows(run[q])'
  <2>1. PICK c : c = run[q]
    OBVIOUS
  <2>2. Knows(c)'
    BY <1>5, <1>6, <2>1, AtWork
  <2>3. run'[q] = c
    BY <1>0, <2>1
  <2>4. QED BY <2>2, <2>3, KnowsOfRun
<1>7. QED BY <1>0, <1>2, <1>3, <1>6 DEF Calm, Working, Saving

LEMMA CalmInit ==
  ASSUME Init
  PROVE  Calm
<1>1. /\ run = [r \in Runs |-> Idle] /\ pool = {} /\ mined = <<>>
      /\ files = [n \in Names |-> Absent] /\ Idle.pc = "idle"
  BY DEF Init, FilesInit, RegistryInit, Idle
<1>2. \A r \in Runs : ~Working(run[r]) /\ ~Saving(run[r], "idle")
  BY <1>1 DEF Working, Saving
<1>3. Covered(Checkpoints)
  BY <1>1 DEF Covered, Untouched, Exists, Names
<1>4. QED BY <1>2, <1>3 DEF Calm

LEMMA CalmStep ==
  ASSUME Inductive, Calm, [Next]_vars
  PROVE  Calm'
<1>1. CASE ChainStep
  BY <1>1, ChainStepCalm
<1>2. CASE UNCHANGED vars
  <2>1. UNCHANGED <<files, pool, mined, run, slips>>
    BY <1>2 DEF vars, registryVars, runVars
  <2>2. /\ \A c : Knows(c) => Knows(c)'
        /\ Covered(Checkpoints) => Covered(Checkpoints)'
        /\ \A n : Readable(n) => Readable(n)'
    BY <2>1, QuietCalm
  <2>3. ASSUME slips = {}, NEW q \in Runs, Working(run[q])
        PROVE  Knows(run[q])'
    <3>1. PICK c : c = run[q]
      OBVIOUS
    <3>2. Knows(c)'
      BY <2>2, <2>3, <3>1, AtWork
    <3>3. run'[q] = c
      BY <2>1, <3>1
    <3>4. QED BY <3>2, <3>3, KnowsOfRun
  <2>4. QED BY <2>1, <2>2, <2>3 DEF Calm, Working, Saving
<1>3. ASSUME NEW r \in Runs, RunStep(r)
      PROVE  Calm'
  BY <1>3, InitializeCalm, StartCalm, VerifyRegistryCalm, ReadFailsCalm, KillCalm, CreateCalm,
     FillCalm, ReadNonceCalm, BroadcastRegisterCalm, AwaitRegisterCalm, FinalizeCalm, RecheckCalm,
     CountMetadataCalm, BroadcastMetadataCalm, AwaitMetadataCalm DEF RunStep
<1>4. QED BY <1>1, <1>2, <1>3 DEF Next

\* A slip is never forgotten, and only the chain reverts what was sent.
LEMMA RevertsStep ==
  ASSUME Inductive, Reverts, [Next]_vars
  PROVE  Reverts'
<1>1. CASE UNCHANGED mined /\ (slips' = {} => slips = {})
  BY <1>1 DEF Reverts
<1>2. CASE ChainStep
  <2>1. PICK tx \in pool, ok \in BOOLEAN :
           /\ mined' = Append(mined, [tx |-> tx, ok |-> ok])
           /\ \/ ok /\ slips' = slips
              \/ slips' = slips \cup IF mined'[Len(mined')].tx.call = "register"
                                    THEN {"reverted"} ELSE {}
    BY <1>2 DEF ChainStep, Mine
  <2>2. /\ mined \in Seq([tx : Transactions, ok : BOOLEAN])
        /\ [tx |-> tx, ok |-> ok] \in [tx : Transactions, ok : BOOLEAN]
    BY DEF Inductive, Types
  <2>3. PICK e \in [tx : Transactions, ok : BOOLEAN] : e = [tx |-> tx, ok |-> ok]
    BY <2>2
  <2>4. /\ DOMAIN mined' = DOMAIN mined \cup {Len(mined) + 1} /\ Len(mined') = Len(mined) + 1
        /\ mined'[Len(mined) + 1] = e /\ \A i \in DOMAIN mined : mined'[i] = mined[i]
    BY <2>1, <2>2, <2>3
  <2>5. SUFFICES ASSUME slips' = {}
                 PROVE  \A i \in DOMAIN mined' : mined'[i].tx.call = "register" => mined'[i].ok
    BY DEF Reverts
  <2>6. slips = {} /\ (e.tx.call = "register" => e.ok)
    BY <2>1, <2>3, <2>4, <2>5
  <2>7. QED BY <2>4, <2>6 DEF Reverts
<1>3. ASSUME NEW r \in Runs, RunStep(r)
      PROVE  UNCHANGED mined /\ (slips' = {} => slips = {})
  BY <1>3 DEF RunStep, Initialize, Start, VerifyRegistry, ReadFails, Kill, CreateCheckpoint,
       FillCheckpoint, ReadNonce, BroadcastRegister, AwaitRegister, Finalize, Recheck,
       CountMetadata, BroadcastMetadata, AwaitMetadata, Send, Take, Slip, registryVars
<1>4. CASE UNCHANGED vars
  BY <1>1, <1>4 DEF vars, registryVars, runVars
<1>5. QED BY <1>1, <1>2, <1>3, <1>4 DEF Next

\* Checkpoints that cover the chain suffice.
LEMMA CoveredSuffices ==
  ASSUME Inductive, Reverts, slips = {}, Covered(Checkpoints), Untorn
  PROVE  CanBeTakenUp
<1>0. Len(mined) \in Nat /\ mined \in Seq([tx : Transactions, ok : BOOLEAN]) /\ Types
  BY DEF Inductive, Types
<1>1. CASE Latest = 0
  <2>1. \A m \in Checkpoints : ~Exists(m)
    <3>1. TAKE m \in Checkpoints
    <3>2. m \in Nat /\ m >= 1
      BY FilesAssumption DEF Checkpoints
    <3>3. QED BY <1>1, <3>2, LatestType
  <2>2. pool = {} /\ mined = <<>>
    BY <2>1 DEF Covered, Newest, Untouched
  <2>3. PendingNonce = 0
    BY <1>0, <2>2, PendingNothing
  <2>4. QED BY <1>1, <2>3 DEF CanBeTakenUp
<1>3. CASE Latest # 0 /\ Readable(Latest)
  <2>1. Latest \in Checkpoints /\ Exists(Latest) /\ Latest \in Names
    BY <1>3, LatestType DEF Names, WalletFile
  <2>2. PICK k \in Checkpoints : Newest(k, Checkpoints) /\ (Readable(k) => Fits(Content(k)))
    BY <2>1 DEF Covered
  <2>3. k = Latest
    <3>1. k <= Latest /\ Latest <= k /\ k \in Nat /\ Latest \in Nat
      BY <2>1, <2>2, LatestType, FilesAssumption DEF Newest, Checkpoints
    <3>2. QED BY <3>1
  <2>4. PICK x : x = Content(Latest)
    OBVIOUS
  <2>5. Fits(x) /\ x \in Documents
    BY <1>3, <2>1, <2>2, <2>3, <2>4, ContentType
  <2>6. CASE x.kind = "intent"
    <3>1. Untouched => PendingNonce = 0
      BY <1>0, PendingNothing DEF Untouched
    <3>2. LastSent(x.register) => Known(x.register)
      BY <2>5, <2>6, <1>0 DEF LastSent, Known, Fits
    <3>3. ASSUME Settled(x.register, FALSE)
          PROVE  FALSE
      <4>1. PICK i \in DOMAIN mined : mined[i] = [tx |-> x.register, ok |-> FALSE]
        BY <3>3 DEF Settled
      <4>2. mined[i].tx = x.register /\ mined[i].ok = FALSE
        BY <4>1
      <4>3. x.register.nonce = 0 /\ SentOK(x.register)
        BY <2>5, <2>6, <4>2 DEF Fits, Inductive, Chain
      <4>4. x.register.call = "register"
        BY <4>3 DEF SentOK, Earlier
      <4>5. QED BY <4>2, <4>4 DEF Reverts
    <3>4. PendingNonce = 0 \/ (Known(x.register) /\ ~Settled(x.register, FALSE))
      BY <2>5, <2>6, <3>1, <3>2, <3>3 DEF Fits
    <3>5. QED BY <1>3, <2>4, <2>6, <3>4 DEF CanBeTakenUp
  <2>7. CASE x.kind # "intent" /\ x.metadata = <<>>
    <3>1. PendingNonce = 1
      BY <1>0, <2>5, <2>7, PendingNothing DEF Fits
    <3>2. QED BY <1>3, <2>4, <2>7, <3>1 DEF CanBeTakenUp
  <2>8. CASE x.kind # "intent" /\ x.metadata # <<>>
    <3>1. PICK m \in Transactions : m = x.metadata[1]
      BY <2>5, <2>8 DEF Documents, Maybe
    <3>2. LastSent(m) /\ m.nonce \in Nat
      BY <2>5, <2>8, <3>1 DEF Fits, Transactions
    <3>3. Known(m)
      <4>1. CASE pool = {m}
        BY <4>1 DEF Known
      <4>2. CASE Len(mined) = m.nonce + 1 /\ mined[Len(mined)].tx = m
        <5>1. Len(mined) \in DOMAIN mined
          BY <1>0, <3>2, <4>2
        <5>2. QED BY <4>2, <5>1 DEF Known
      <4>3. QED BY <3>2, <4>1, <4>2 DEF LastSent
    <3>4. ASSUME Settled(m, FALSE)
          PROVE  PendingNonce = m.nonce + 1
      <4>1. PICK i \in DOMAIN mined : mined[i] = [tx |-> m, ok |-> FALSE]
        BY <3>4 DEF Settled
      <4>2. i \in 1..Len(mined)
        BY <1>0
      <4>3. m.nonce = i - 1
        BY <4>1 DEF Inductive, Chain
      <4>4. Len(mined) # m.nonce
        BY <1>0, <4>2, <4>3
      <4>5. pool = {} /\ Len(mined) = m.nonce + 1
        BY <3>2, <4>4 DEF LastSent
      <4>6. QED BY <1>0, <4>5, PendingNothing
    <3>5. QED BY <1>3, <2>4, <2>8, <3>1, <3>3, <3>4 DEF CanBeTakenUp
  <2>9. QED BY <2>6, <2>7, <2>8
<1>4. QED BY <1>1, <1>3 DEF Untorn

\* When no run is active, the newest checkpoint suffices to finish the registration,
\* whatever failed and wherever a run was killed, unless one of the things the
\* checkpoints do not cover happened: the newest is torn, runs overlapped, the node
\* lagged, metadata was sent and not recorded, or the registration was reverted
\* (latestCheckpoint, completeRegistrationFromIntent and finalizeIdentityRegistration).
THEOREM TakenUpAgain == Spec => []Resumable
<1>1. Init => Inductive /\ Calm /\ Reverts
  <2>1. Init => mined = <<>>
    BY DEF Init, RegistryInit
  <2>2. Init => Reverts
    BY <2>1 DEF Reverts
  <2>3. QED BY <2>2, InductiveInit, CalmInit
<1>2. Inductive /\ Calm /\ Reverts /\ [Next]_vars => Inductive' /\ Calm' /\ Reverts'
  BY InductiveStep, CalmStep, RevertsStep
<1>3. Inductive /\ Calm /\ Reverts => Resumable
  <2> SUFFICES ASSUME Inductive, Calm, Reverts, \A r \in Runs : ~Active(r), Untorn, slips = {}
               PROVE  CanBeTakenUp
    BY DEF Resumable
  <2>1. \A r \in Runs : ~Working(run[r])
    BY DEF Active, Working
  <2>2. QED BY <2>1, CoveredSuffices DEF Calm
<1>4. QED BY <1>1, <1>2, <1>3, PTL DEF Spec

===============================================================================
