--------------------------- MODULE FundingJournal ---------------------------
(***************************************************************************)
(* The funding journal of src/core/funding: a private file in which a run  *)
(* of the funding program records what it is about to send, what it saw    *)
(* sent and what arrived, and the functions that plan the transfers        *)
(* (record.mjs) and judge, after a restart, how far each one came          *)
(* (classifyFundingRecovery).  Every update replaces the whole file by a   *)
(* rename; the file is recognised by its inode number and its bytes, and   *)
(* there is no lock.                                                       *)
(*                                                                         *)
(* Any number of runs open the journal and keep the handle they were       *)
(* given.  A signed transaction stands for its digest and for its hash.    *)
(* The chain, the recipients and the program that calls the journal are    *)
(* external.                                                               *)
(***************************************************************************)
EXTENDS Integers, FiniteSets, SequencesExt

CONSTANTS Runs,         \* runs of the program that hold or open the journal
          Order,        \* the recipients, in the order of the funding record
          Levels,       \* balances a recipient may have at the start
          Txs,          \* signed transactions that may take a transfer's nonce
          Misfits,      \* those with another recipient or value
          Inodes,       \* inode numbers, used again once they are free
          None,
          Minimum, Target, Maximum, Fee, Funds, FirstNonce,
          MaxEvents     \* bounds the transfers and what others do to their accounts, together

Recipients == ToSet(Order)
Torn == None

Rank == [PLANNED |-> 0, BROADCAST_INTENT |-> 1, TRANSACTION_OBSERVED |-> 2, FUNDED |-> 3]

\* What validateTransfer and validateJournalDocument let into a journal.
JournalTransfers ==
  [to : Recipients, nonce : Nat, digest : Txs, hash : Txs \cup {None},
   state : DOMAIN Rank \ {"PLANNED"}]

Documents == [state : DOMAIN Rank, transfers : Seq(JournalTransfers)]

ASSUME JournalAssumption ==
  /\ Levels \subseteq Int /\ Target \in Int
  /\ None \notin Documents /\ None \notin [ino : Inodes \cup {None}, doc : Documents \cup {None}]

VARIABLES plan,      \* the planned transfers
          file,      \* the journal: its inode number and what it holds
          leftover,  \* inode numbers of temporary files nobody will remove
          handle,    \* per run, the document and identity it was given last
          op,        \* per run, the update or the creation under way
          told,      \* every recorded transfer some caller was shown
          raced,     \* some update was put in place over one that it had not read
          chain,     \* per recipient, what the node knows
          outside

vars == <<plan, file, leftover, handle, op, told, raced, chain, outside>>

-----------------------------------------------------------------------------
\* planFundingTransfers: who has less than the minimum is filled up to the target, at
\* consecutive nonces, when the account pays for all of it.
Needy(held) == SelectSeq(Order, LAMBDA r : held[r] < Minimum)

Transfers(held) ==
  [i \in DOMAIN Needy(held) |->
     [to |-> Needy(held)[i], nonce |-> FirstNonce + i - 1, value |-> Target - held[Needy(held)[i]]]]

Cost(transfers) == FoldLeft(LAMBDA sum, t : sum + t.value + Fee, 0, transfers)

Acceptable(held) == \A r \in Recipients : held[r] <= Maximum

Plan(held) ==
  IF Acceptable(held) /\ Cost(Transfers(held)) <= Funds THEN Transfers(held) ELSE <<>>

-----------------------------------------------------------------------------
Highest(transfers) ==
  CHOOSE s \in DOMAIN Rank :
    /\ s = "PLANNED" \/ \E t \in ToSet(transfers) : t.state = s
    /\ \A t \in ToSet(transfers) : Rank[t.state] <= Rank[s]

Blank == [state |-> "PLANNED", transfers |-> <<>>]

SameTransfer(t, u) == t.to = u.to /\ t.nonce = u.nonce

\* validateJournalDocument
ValidDocument(doc) ==
  /\ doc \in Documents
  /\ \A i, j \in DOMAIN doc.transfers :
       i # j => ~SameTransfer(doc.transfers[i], doc.transfers[j])
  /\ doc.state = Highest(doc.transfers)

Whole(f) == f # None /\ f.doc # Torn

\* Faulty variant of Accepts: the journal is recognised by its identity alone.
AcceptsIdentity(w, doc) ==
  /\ Whole(file)
  /\ file.ino = handle[w].ino
  /\ ValidDocument(doc)

\* What stops an update before it writes: a journal that is not the file the handle was made
\* from, or not its bytes, and a new document that is not valid.
Accepts(w, doc) ==
  /\ Whole(file)
  /\ file.ino = handle[w].ino
  /\ file.doc = handle[w].doc
  /\ ValidDocument(doc)

Told(transfers) == IF raced THEN told ELSE told \cup transfers

Temporary(w) == IF op[w] # None /\ op[w].at \in {"written", "compared"} THEN {op[w].ino} ELSE {}
Temporaries == leftover \cup UNION {Temporary(w) : w \in Runs}
InUse == Temporaries \cup (IF file = None THEN {} ELSE {file.ino})

-----------------------------------------------------------------------------
\* openFundingJournal: with a temporary file in the directory, whoever's it is, nobody opens.
Open(w) ==
  /\ op[w] = None
  /\ Temporaries = {}
  /\ Whole(file)
  /\ handle' = [handle EXCEPT ![w] = file]
  /\ told' = Told(ToSet(file.doc.transfers))
  /\ UNCHANGED <<plan, file, leftover, op, raced, chain, outside>>

Create(w) ==
  /\ op[w] = None
  /\ Temporaries = {}
  /\ file = None
  /\ \E ino \in Inodes :
       /\ file' = [ino |-> ino, doc |-> Torn]
       /\ op' = [op EXCEPT ![w] = [at |-> "creating", doc |-> Blank, ino |-> ino, outrun |-> FALSE]]
  /\ UNCHANGED <<plan, leftover, handle, told, raced, chain, outside>>

Fill(w) ==
  /\ op[w] # None /\ op[w].at = "creating"
  /\ file' = [file EXCEPT !.doc = Blank]
  /\ op' = [op EXCEPT ![w].at = "renamed"]
  /\ UNCHANGED <<plan, leftover, handle, told, raced, chain, outside>>

-----------------------------------------------------------------------------
\* A handle's update, from the first read to the answer.
Begin(w, doc) ==
  /\ Accepts(w, doc)
  /\ op' = [op EXCEPT ![w] = [at |-> "checked", doc |-> doc, ino |-> None, outrun |-> FALSE]]
  /\ UNCHANGED <<plan, file, leftover, handle, told, raced, chain, outside>>

Write(w) ==
  /\ op[w] # None /\ op[w].at = "checked"
  /\ \E ino \in Inodes \ InUse :
       op' = [op EXCEPT ![w].at = "written", ![w].ino = ino]
  /\ UNCHANGED <<plan, file, leftover, handle, told, raced, chain, outside>>

Compare(w) ==
  /\ op[w] # None /\ op[w].at = "written"
  /\ file.ino = handle[w].ino
  /\ op' = [op EXCEPT ![w].at = "compared"]
  /\ UNCHANGED <<plan, file, leftover, handle, told, raced, chain, outside>>

Replace(w) ==
  /\ op[w] # None /\ op[w].at = "compared"
  /\ file' = [ino |-> op[w].ino, doc |-> op[w].doc]
  /\ raced' = (raced \/ op[w].outrun)
  /\ told' = IF raced' THEN {} ELSE told
  /\ op' = [v \in Runs |->
              CASE v = w -> [op[w] EXCEPT !.at = "renamed"]
                [] v # w /\ op[v] # None -> [op[v] EXCEPT !.outrun = TRUE]
                [] OTHER -> op[v]]
  /\ UNCHANGED <<plan, leftover, handle, chain, outside>>

\* The file is read again, and the call answers only when it holds what was written.
ReadBack(w) ==
  /\ op[w] # None /\ op[w].at = "renamed"
  /\ op' = [op EXCEPT ![w] = None]
  /\ IF file.doc = op[w].doc
     THEN /\ handle' = [handle EXCEPT ![w] = file]
          /\ told' = Told(ToSet(file.doc.transfers))
     ELSE UNCHANGED <<handle, told>>
  /\ UNCHANGED <<plan, file, leftover, raced, chain, outside>>

\* A failing step, a journal found replaced, or the end of the run: the temporary file is
\* removed if it can be and a file being created stays as it is; a run that goes on keeps its
\* old handle.
Abandon(w) ==
  /\ op[w] # None
  /\ op' = [op EXCEPT ![w] = None]
  /\ leftover' \in {leftover, leftover \cup Temporary(w)}
  /\ handle' \in {handle, [handle EXCEPT ![w] = None]}
  /\ UNCHANGED <<plan, file, told, raced, chain, outside>>

-----------------------------------------------------------------------------
\* classifyFundingRecovery, over what the caller saw of the recipient, of the transaction at
\* the transfer's nonce and of its receipt.
ValidTransaction(t, tx) ==
  tx \notin Misfits /\ (t.hash # None => tx = t.hash)

\* Faulty variant of ValidReceipt: any receipt of the right transaction will do.
ValidIfMined(t, tx, receipt) ==
  /\ receipt.tx \notin Misfits
  /\ tx # None => receipt.tx = tx
  /\ t.hash # None => receipt.tx = t.hash

ValidReceipt(t, tx, receipt) ==
  /\ receipt.ok
  /\ receipt.tx \notin Misfits
  /\ tx # None => receipt.tx = tx
  /\ t.hash # None => receipt.tx = t.hash

ByTransaction(t, tx, receipt) ==
  CASE tx # None /\ ~ValidTransaction(t, tx) -> "refused"
    [] receipt # None /\ ~ValidReceipt(t, tx, receipt) -> "refused"
    [] OTHER -> CASE receipt # None -> "FUNDED"
                  [] tx # None -> IF t.state = "TRANSACTION_OBSERVED" THEN "WAIT" ELSE "OBSERVED"
                  [] OTHER -> "refused"

Verdict(t, seen) ==
  CASE seen.rich -> IF seen.used THEN "refused" ELSE "FUNDED"
    [] OTHER -> ByTransaction(t, seen.tx, seen.receipt)

\* External: what a node may answer, now or when it was asked: each answer may be behind.
Facts(r) ==
  {[rich |-> rich, used |-> chain[r].used, tx |-> tx, receipt |-> receipt] :
     rich \in {b \in BOOLEAN : b => chain[r].held >= Target},
     tx \in {None} \cup chain[r].sent, receipt \in {None, chain[r].mined}}

-----------------------------------------------------------------------------
\* The three records.  One that finds its transfer already there answers from the handle.
Idle(w) == handle[w] # None /\ op[w] = None
Known(w) == ToSet(handle[w].doc.transfers)

RecordIntent(w, t) ==
  IF \E u \in Known(w) : SameTransfer(t, u)
  THEN /\ t \in Known(w)
       /\ told' = Told({t})
       /\ UNCHANGED <<plan, file, leftover, handle, op, raced, chain, outside>>
  ELSE Begin(w, [state |-> "BROADCAST_INTENT", transfers |-> Append(handle[w].doc.transfers, t)])

With(transfers, t, new) == [i \in DOMAIN transfers |-> IF transfers[i] = t THEN new ELSE transfers[i]]

Put(w, t, new) ==
  LET transfers == With(handle[w].doc.transfers, t, new)
  IN Begin(w, [state |-> Highest(transfers), transfers |-> transfers])

RecordObserved(w, t, tx) ==
  /\ t.state # "FUNDED"
  /\ t.hash \in {None, tx}
  /\ Put(w, t, [t EXCEPT !.state = "TRANSACTION_OBSERVED", !.hash = tx])

RecordFunded(w, t) ==
  /\ t.state # "BROADCAST_INTENT"
  /\ Put(w, t, [t EXCEPT !.state = "FUNDED"])

-----------------------------------------------------------------------------
\* External: the program that calls the journal.  It records its intent, sends what it
\* intended, and records what its recovery finds.
Intend(w) ==
  /\ Idle(w)
  /\ \E i \in DOMAIN plan, tx \in Txs \ Misfits :
       RecordIntent(w, [to |-> plan[i].to, nonce |-> plan[i].nonce, digest |-> tx, hash |-> None,
                        state |-> "BROADCAST_INTENT"])

Send(w) ==
  /\ Idle(w)
  /\ \E t \in Known(w) :
       /\ t.state = "BROADCAST_INTENT"
       /\ chain' = [chain EXCEPT ![t.to].sent = @ \cup {t.digest}]
  /\ UNCHANGED <<plan, file, leftover, handle, op, told, raced, outside>>

Recover(w) ==
  /\ Idle(w)
  /\ \E t \in Known(w) : \E seen \in Facts(t.to) :
       \/ /\ Verdict(t, seen) = "OBSERVED"
          /\ RecordObserved(w, t, seen.tx)
       \/ /\ Verdict(t, seen) = "FUNDED"
          /\ ~seen.rich /\ seen.receipt # None
          /\ RecordObserved(w, t, seen.receipt.tx)
       \/ /\ Verdict(t, seen) = "FUNDED"
          /\ RecordFunded(w, t)

-----------------------------------------------------------------------------
\* External: the chain.  Another transaction may take the nonce, a recipient may be paid by
\* somebody else, and may start to spend.
ValueOf(r) == FoldLeft(LAMBDA v, t : IF t.to = r THEN t.value ELSE v, 0, plan)

Rival(r) ==
  /\ chain[r].sent # {}
  /\ \E tx \in Txs \ chain[r].sent : chain' = [chain EXCEPT ![r].sent = @ \cup {tx}]

Earlier(r) == {q \in Recipients : \E i, j \in DOMAIN plan : i < j /\ plan[i].to = q /\ plan[j].to = r}

Mine(r) ==
  /\ chain[r].mined = None
  /\ \A q \in Earlier(r) : chain[q].mined # None
  /\ \E tx \in chain[r].sent, ok \in BOOLEAN :
       LET pays == ok /\ tx \notin Misfits
       IN chain' = [chain EXCEPT ![r].mined = [tx |-> tx, ok |-> ok],
                                 ![r].held = @ + (IF pays THEN ValueOf(r) ELSE 0),
                                 ![r].paid = @ \/ pays]

Gift(r) ==
  /\ chain[r].held < Target
  /\ chain' = [chain EXCEPT ![r].held = Target, ![r].paid = TRUE]

Spend(r) ==
  /\ chain[r].held > 0 /\ ~chain[r].used
  /\ chain' = [chain EXCEPT ![r].held = @ - 1, ![r].used = TRUE]

Outside(r) ==
  /\ Len(plan) + outside < MaxEvents
  /\ outside' = outside + 1
  /\ Rival(r) \/ Gift(r) \/ Spend(r)

ChainStep ==
  /\ \E r \in Recipients : Outside(r) \/ (Mine(r) /\ UNCHANGED outside)
  /\ UNCHANGED <<plan, file, leftover, handle, op, told, raced>>

-----------------------------------------------------------------------------
Init ==
  /\ file = None
  /\ leftover = {}
  /\ handle = [w \in Runs |-> None]
  /\ op = [w \in Runs |-> None]
  /\ told = {}
  /\ raced = FALSE
  /\ outside = 0
  /\ \E held \in [Recipients -> Levels] :
       /\ plan = Plan(held)
       /\ chain = [r \in Recipients |->
                     [held |-> held[r], used |-> FALSE, sent |-> {}, mined |-> None,
                      paid |-> held[r] >= Target]]

RunStep(w) ==
  \/ Open(w) \/ Create(w) \/ Fill(w)
  \/ Write(w) \/ Compare(w) \/ Replace(w) \/ ReadBack(w) \/ Abandon(w)
  \/ Intend(w) \/ Send(w) \/ Recover(w)

Next == ChainStep \/ \E w \in Runs : RunStep(w)

Spec == Init /\ [][Next]_vars

-----------------------------------------------------------------------------
Continues(u, t) ==
  /\ SameTransfer(u, t)
  /\ u.digest = t.digest
  /\ t.hash # None => u.hash = t.hash
  /\ Rank[u.state] >= Rank[t.state]

\* What a caller was shown stays recorded, with the digest and hash it had and never set back,
\* over stale handles, failed updates, crashes and inode numbers that come back; unless an
\* update was renamed over one that it had not read, which the check before the rename does
\* not exclude (update, openFundingJournal).
RecordsKept ==
  ~raced => \A t \in told : Whole(file) /\ \E u \in ToSet(file.doc.transfers) : Continues(u, t)

\* What the journal says happened, happened, although the answers it rests on were late and
\* other transactions took the nonce: an observed transaction was sent and pays this transfer,
\* and a transfer recorded as funded reached its recipient, or somebody else's payment did
\* (classifyFundingRecovery, recordTransactionObserved, recordFunded).
RecordsAreTrue ==
  Whole(file) =>
    \A t \in ToSet(file.doc.transfers) :
      /\ t.hash # None => t.hash \in chain[t.to].sent \ Misfits
      /\ t.state = "FUNDED" => chain[t.to].paid
=============================================================================
