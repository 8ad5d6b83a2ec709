---------------------------- MODULE HostMonitor ----------------------------
(***************************************************************************)
(* The snapshots a host publishes on the relay                              *)
(* (src/monitor/agent-snapshot-v2-producer.mjs).  The state is changed before *)
(* it is sent, so three of them are told apart: what the next snapshot says,  *)
(* the last one the relay confirmed, and the one the relay shows, which may   *)
(* be newer when an answer was lost.                                        *)
(***************************************************************************)
EXTENDS Integers, Sequences

VARIABLES
  draft,     \* state
  accepted,  \* lastAccepted, as <<snapshot>>
  shown      \* what the relay shows, as <<snapshot>>

monitorVars == <<draft, accepted, shown>>

\* stage counts the steps recorded.
Snapshot(stage, failure, certified) ==
  [stage |-> stage, failure |-> failure, certified |-> certified]

MonitorInit == draft = Snapshot(0, "none", FALSE) /\ accepted = <<>> /\ shown = <<>>

\* start, invitationClaimed, identityClaimed, partiesReady, proposalSigned,
\* acceptanceSigned, anchorsRecorded, evidenceReceived, checkerStage and
\* certificateIssued, up to flush.
DraftStep(certified) ==
  /\ draft' = [draft EXCEPT !.stage = @ + 1, !.certified = @ \/ certified]
  /\ UNCHANGED <<accepted, shown>>

\* failed, up to flush.
DraftFailure(reasonCode) ==
  draft' = [draft EXCEPT !.failure = reasonCode] /\ UNCHANGED <<accepted, shown>>

\* failedAfterRejection, up to flush: on top of the last snapshot the relay took.
DraftFailureAfterRejection(reasonCode) ==
  /\ accepted # <<>>
  /\ draft' = [accepted[1] EXCEPT !.failure = reasonCode]
  /\ UNCHANGED <<accepted, shown>>

\* flush: the relay took the snapshot and said so.
Confirmed == shown' = <<draft>> /\ accepted' = <<draft>> /\ UNCHANGED draft

\* The relay took the snapshot, and its answer is lost.
Unanswered == shown' = <<draft>> /\ UNCHANGED <<draft, accepted>>

ShownFailure == IF shown = <<>> THEN "none" ELSE shown[1].failure
=============================================================================
