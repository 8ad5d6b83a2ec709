---------------------------- MODULE Continuation ----------------------------
(***************************************************************************)
(* The trusted follow-up of a completed action (createCheckpointCompletion-    *)
(* Handler of harness/checkpoint-completion.mjs): the calls to the coordinator  *)
(* that the operation of the action asks for, one step each, and the actions    *)
(* their answers add to the queue.                                          *)
(*                                                                         *)
(* The coordinator is external: it holds what it was sent and asks for the      *)
(* steps that follow it; its answers may be lost, late, malformed or errors.    *)
(***************************************************************************)
EXTENDS RecorderQueue

CONSTANTS
  Follow,       \* the steps a coordinator asks for once it has the outcome of a step
  AdvanceCalls  \* ADVANCE_MAX_CALLS

Commitments == {"proposal", "acceptance"}
Signed == Commitments \cup {"identity_claim", "evidence"}

\* OPERATIONS, with the signing one by what it signs: a step is of one of these.
Operations == {"init", "policy", "inspect", "register", "verify-certificate"} \cup Signed

ASSUME ContinuationAssumption ==
  /\ AdvanceCalls \in Nat \ {0} /\ DOMAIN Follow \subseteq Operations
  /\ \A s \in DOMAIN Follow : Follow[s] \in Seq(DOMAIN Follow)

VARIABLES
  bound,       \* whether the role's access is bound
  kept,        \* checkpointState: the commitments whose checkpoint was acknowledged
  coordinator  \* what the coordinator has: the outcomes of steps, the checkpoints; its offer

continuationVars == <<actions, bound, kept, coordinator>>

\* CONTINUATION_TOOL_BY_OPERATION, with the checkpoint before a commitment's submission.
FirstCall(op) ==
  CASE op = "inspect" -> "join"
    [] op = "register" -> "advance"
    [] op \in Commitments -> "checkpoint"
    [] op \in Signed \ Commitments -> "submit"
    [] op = "verify-certificate" -> "verify"
    [] OTHER -> "accepted"

\* The coordinator once it has the outcome of op.
Has(op) == [coordinator EXCEPT !.done = @ \cup {op},
                               !.offer = IF op \in coordinator.done THEN @ ELSE Follow[op]]

Working(a, place) == a \in DOMAIN actions /\ actions[a].work = place
Work(a, place) == actions' = [actions EXCEPT ![a].work = place]

\* requeueTrusted of an answer that must carry steps: they are recorded before the
\* follow-up moves on, and an answer without any fails it.
Requeue(a, steps) ==
  actions' = [Recorded(actions, steps, TRUE) EXCEPT ![a].work = IF steps = <<>> THEN "failed" ELSE "accepted"]

\* A call fails, or is answered with an error or not as it should be, with or without effect.
CallFails(a, effect) ==
  Work(a, "failed") /\ coordinator' \in {coordinator, effect} /\ UNCHANGED <<bound, kept>>

\* handler: setup operations need no follow-up; every other needs the bound access, a
\* result, a wallet and a client that are as they should be, and an acceptance the
\* checkpoint of the proposal.
Start(a) ==
  /\ Working(a, "start")
  /\ LET op == actions[a].step
         free == op \in {"init", "policy"}
         ready == bound /\ (op = "acceptance" => "proposal" \in kept)
     IN \/ (free \/ ready) /\ Work(a, FirstCall(op))
        \/ ~free /\ Work(a, "failed")
  /\ UNCHANGED <<bound, kept, coordinator>>

\* agent_handshake_join.
Join(a) ==
  LET op == actions[a].step
  IN /\ Working(a, "join")
     /\ \/ CallFails(a, Has(op))
        \/ coordinator' = Has(op) /\ Requeue(a, Has(op).offer) /\ UNCHANGED <<bound, kept>>

\* A faulty variant: the artifact is submitted whatever became of its checkpoint.
SubmitAnyway(a) ==
  LET op == actions[a].step
      held == [coordinator EXCEPT !.checkpoints = @ \cup {op}]
  IN /\ Working(a, "checkpoint")
     /\ Work(a, "submit") /\ coordinator' \in {coordinator, held} /\ kept' = kept \cup {op} /\ UNCHANGED bound

\* createCommitmentCheckpoint and agent_handshake_submit_checkpoint: only a checkpoint the
\* coordinator acknowledges by its digest is kept, and only then is the artifact submitted.
Checkpoint(a) ==
  LET op == actions[a].step
      held == [coordinator EXCEPT !.checkpoints = @ \cup {op}]
  IN /\ Working(a, "checkpoint")
     /\ \/ CallFails(a, held)
        \/ Work(a, "submit") /\ coordinator' = held /\ kept' = kept \cup {op} /\ UNCHANGED bound

\* agent_handshake_submit; what its answer carries the next call brings as well.
Submit(a) ==
  LET op == actions[a].step
  IN /\ Working(a, "submit")
     /\ \/ CallFails(a, Has(op))
        \/ Work(a, "advance") /\ coordinator' = Has(op) /\ UNCHANGED <<bound, kept>>

\* What agent_handshake_next may answer: steps or none, a wait that is due as documented
\* or not, a stage, and whether it names this role's session.
Answers(offer) ==
  [steps : {<<>>, offer}, wait : {"none", "due", "other"},
   stage : {"none", "waiting", "party_ready", "acting"}, ours : BOOLEAN]

\* classifyNextResult: steps without a wait, under a stage unless they are the verification
\* of the certificate; a wait as its stage has it; the sign to ask again at once.
Classify(answer) ==
  IF ~answer.ours \/ (answer.steps # <<>> /\ answer.wait # "none") THEN "malformed"
  ELSE IF answer.steps # <<>> THEN
         IF answer.stage # "none" \/ answer.steps = <<"verify-certificate">> THEN "action" ELSE "malformed"
  ELSE IF answer.wait # "none" THEN IF answer.wait = "due" /\ answer.stage = "waiting" THEN "wait" ELSE "malformed"
  ELSE IF answer.stage = "party_ready" THEN "continue" ELSE "malformed"

\* A faulty variant: a wait or a continue ends the follow-up as well as steps do.
AdvanceOnce(a) ==
  LET seen == IF actions[a].step = "register" THEN Has("register") ELSE coordinator
  IN /\ Working(a, "advance")
     /\ \/ CallFails(a, seen)
        \/ /\ \E answer \in Answers(seen.offer) : Classify(answer) # "malformed"
           /\ Work(a, "accepted") /\ coordinator' = seen /\ UNCHANGED <<bound, kept>>

\* advanceNext, one agent_handshake_next: a wait or a continue is followed by another call
\* while calls and time are left; steps end it; anything else fails it.
Advance(a) ==
  LET seen == IF actions[a].step = "register" THEN Has("register") ELSE coordinator
      calls == actions[a].calls + 1
  IN /\ Working(a, "advance")
     /\ \/ CallFails(a, seen)
        \/ /\ coordinator' = seen
           /\ \E answer \in Answers(seen.offer) :
                IF Classify(answer) = "action" THEN Requeue(a, answer.steps)
                ELSE IF Classify(answer) = "malformed" \/ calls = AdvanceCalls THEN Work(a, "failed")
                ELSE actions' = [actions EXCEPT ![a].calls = calls]
           /\ UNCHANGED <<bound, kept>>

\* verifyCertificate: the helper's result, the certificate it was given and this role's part
\* in it agree, or they do not.
VerifyCertificate(a) ==
  /\ Working(a, "verify")
  /\ Work(a, "accepted") \/ Work(a, "failed")
  /\ UNCHANGED <<bound, kept, coordinator>>

\* The handler's next step.
Handle(a) ==
  Start(a) \/ Join(a) \/ Checkpoint(a) \/ Submit(a) \/ Advance(a) \/ VerifyCertificate(a)
=============================================================================
