--------------------------- MODULE RelayDirectory ---------------------------
(***************************************************************************)
(* The runs a relay holds (src/relay/server.mjs): the permanent alias         *)
(* "current", the run list, and the snapshots that narrate a run.             *)
(*                                                                         *)
(* Inside one session Relay says how a request is queued, journalled and      *)
(* applied; here an append is one step, which succeeds or fails.  One that    *)
(* fails leaves nothing in the journal or the whole line, which a restart     *)
(* reads.                                                                   *)
(***************************************************************************)
EXTENDS Integers, Sequences, FiniteSets, SequencesExt, TLC

CONSTANTS
  Sessions,     \* session ids
  Legacy,       \* those journalled before publishedAtMs was recorded
  Snapshots,    \* what the host of a session puts, by session
  Times,        \* what the wall clock may say
  None,
  HistoryLimit, \* RUN_HISTORY_LIMIT
  MaxPuts, MaxRestarts   \* bounds: snapshots that are put, restarts

ASSUME DirectoryAssumption ==
  /\ Legacy \subseteq Sessions /\ IsFiniteSet(Legacy) /\ None \notin Sessions
  /\ Times \subseteq Nat \ {0}
  /\ \A s \in Sessions : \A x \in Snapshots[s] : x.begun \in Nat /\ x.schema \in {"v1", "v2"}
  /\ \A s \in Sessions : \A x, y \in Snapshots[s] : x.begun = y.begun   \* as timing.createdAtMs does
  /\ HistoryLimit \in Nat \ {0} /\ MaxPuts \in Nat /\ MaxRestarts \in Nat

VARIABLES
  order,    \* the sessions map, in the order of insertion
  held,     \* what it holds of each session, as <<state>>
  journal,  \* what a restart would read of each session, as <<state>>
  opening,  \* the creations being journalled (pendingSessionIds), as <<state>>
  puts, restarts

directoryVars == <<order, held, journal, opening, puts, restarts>>

\* createSessionState: whether there is a discovery document, and since when.
State(at, listed) == [at |-> at, listed |-> listed, snapshot |-> <<>>]

DirectoryInit ==
  /\ order \in SetToSeqs(Legacy)
  /\ held = [s \in Sessions |-> IF s \in Legacy THEN <<State(0, TRUE)>> ELSE <<>>]
  /\ journal = held
  /\ opening = [s \in Sessions |-> <<>>]
  /\ puts = 0 /\ restarts = 0

Held(s) == held[s] # <<>>

----------------------------------------------------------------------------
\* sessionStartedAtMs: the snapshot knows when a run without a time began.
StartedAt(s) ==
  LET state == held[s][1]
  IN IF state.at # 0 THEN state.at
     ELSE IF state.snapshot # <<>> THEN state.snapshot[1].begun ELSE 0

Listed == {s \in Sessions : Held(s) /\ held[s][1].listed}

Position(s) == CHOOSE i \in DOMAIN order : order[i] = s

\* newestPublishedSession: of those that began at the same time, the last inserted.
Newest ==
  IF Listed = {} THEN None
  ELSE CHOOSE s \in Listed :
         \A t \in Listed \ {s} :
           StartedAt(t) < StartedAt(s) \/ (StartedAt(t) = StartedAt(s) /\ Position(t) < Position(s))

\* handleDiscovery: "current" is resolved, any other id is a session's.
Discovery(id) ==
  IF id = "current" THEN Newest ELSE IF id \in Listed THEN id ELSE None

\* handleSnapshot, by the same rule.
Monitored(id) ==
  IF id = "current" THEN Newest ELSE IF id \in Sessions /\ Held(id) THEN id ELSE None

\* handleRuns: newest first; those that began at the same time stay in order.
Before(s, t) ==
  StartedAt(s) > StartedAt(t) \/ (StartedAt(s) = StartedAt(t) /\ Position(s) < Position(t))

RunList ==
  LET runs == CHOOSE q \in SetToSeqs(Listed) : \A i, j \in DOMAIN q : i < j => Before(q[i], q[j])
  IN SubSeq(runs, 1, IF Len(runs) < HistoryLimit THEN Len(runs) ELSE HistoryLimit)

----------------------------------------------------------------------------
\* handleCreateSession up to its append: the id is reserved, and the time is set.
BeginOpen(s) ==
  /\ ~Held(s) /\ opening[s] = <<>>
  /\ \E at \in Times, listed \in BOOLEAN : opening' = [opening EXCEPT ![s] = <<State(at, listed)>>]
  /\ UNCHANGED <<order, held, journal, puts, restarts>>

FinishOpen(s) ==
  /\ opening[s] # <<>>
  /\ journal' = [journal EXCEPT ![s] = opening[s]]
  /\ held' = [held EXCEPT ![s] = opening[s]]
  /\ order' = Append(order, s)
  /\ opening' = [opening EXCEPT ![s] = <<>>]
  /\ UNCHANGED <<puts, restarts>>

FailOpen(s) ==
  /\ opening[s] # <<>>
  /\ \E left \in {journal[s], opening[s]} : journal' = [journal EXCEPT ![s] = left]
  /\ opening' = [opening EXCEPT ![s] = <<>>]
  /\ UNCHANGED <<order, held, puts, restarts>>

\* handlePutSnapshot: a snapshot of this session, journal before memory.
PutSnapshot(s) ==
  /\ Held(s) /\ puts < MaxPuts /\ puts' = puts + 1
  /\ \E snapshot \in Snapshots[s] :
       LET put(state) == <<[state[1] EXCEPT !.snapshot = <<snapshot>>]>>
       IN \/ /\ journal' = [journal EXCEPT ![s] = put(@)]
             /\ held' = [held EXCEPT ![s] = put(@)]
          \/ /\ journal' = [journal EXCEPT ![s] = put(@)]
             /\ UNCHANGED held
  /\ UNCHANGED <<order, opening, restarts>>

\* A faulty variant: the time of the creation is not journalled.
ReplayUndated(state) ==
  IF state = <<>> THEN <<>> ELSE <<[state[1] EXCEPT !.at = 0]>>

\* applyJournalRecord, for the records of one session.
Replay(state) == state

\* The process dies and a new one reads the journals, in the directory's order; a
\* creation that was being journalled may have reached its file.
Restart ==
  /\ restarts < MaxRestarts /\ restarts' = restarts + 1
  /\ \E written \in SUBSET {s \in Sessions : opening[s] # <<>>} :
       journal' = [s \in Sessions |-> IF s \in written THEN opening[s] ELSE journal[s]]
  /\ held' = [s \in Sessions |-> Replay(journal'[s])]
  /\ order' \in SetToSeqs({s \in Sessions : journal'[s] # <<>>})
  /\ opening' = [s \in Sessions |-> <<>>]
  /\ UNCHANGED puts

DirectoryStep == \E s \in Sessions : BeginOpen(s) \/ FinishOpen(s) \/ FailOpen(s) \/ PutSnapshot(s)

=============================================================================
