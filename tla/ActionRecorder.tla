--------------------------- MODULE ActionRecorder ---------------------------
(***************************************************************************)
(* The verified-release action recorder of one role                           *)
(* (harness/verified-release-action-recorder.mjs): the queue of retained        *)
(* actions, the wrapper processes that run the helper for the one that is       *)
(* pending, the completion socket where a wrapper reports the helper's result,   *)
(* and the follow-up (Continuation) that decides whether it is accepted.         *)
(*                                                                         *)
(* Wrappers are started by calls of the model's tool, which drain the queue, and   *)
(* by executeAuthorizedAction.  Two of them at most are under way at once.  The   *)
(* tool's server runs one call at a time and a client awaits its own; but nothing *)
(* in the recorder keeps a third out, and with a third past its look before the   *)
(* first claims, OneByOne is lost: the rename guards a file, not the helper.      *)
(***************************************************************************)
EXTENDS Continuation

CONSTANTS
  Callers,     \* who starts wrappers, each one after another
  Tools,       \* those of them that are the model's tool
  Setup,       \* the steps of the invitation, which the model's stream shows first
  Attempts,    \* the attempts to report a completion
  DrainBound   \* DRAIN_BOUND

ASSUME RecorderAssumption == Setup \in Seq(DOMAIN Follow) /\ Attempts \in Nat \ {0} /\ DrainBound \in Nat \ {0}

\* At most two callers.
ASSUME CallersAssumption ==
  Tools \subseteq Callers /\ \A u, v, w \in Callers : u = v \/ v = w \/ u = w

VARIABLES
  wrapper,      \* by caller: where its wrapper is, for which action, the attempt, the drained
  sent,         \* the completion reports on their way to the socket: [action, attempt]
  held          \* those the socket holds until their completion ends

vars == <<actions, bound, kept, coordinator, wrapper, sent, held>>

Idle == [at |-> "idle", action |-> 0, attempt |-> 0, drained |-> 0]

Init ==
  /\ actions = <<>> /\ bound = FALSE /\ kept = {}
  /\ coordinator = [done |-> {}, checkpoints |-> {}, offer |-> Setup]
  /\ wrapper = [w \in Callers |-> Idle]
  /\ sent = {} /\ held = {}

At(w, place) == wrapper[w].at = place
Go(w, place) == wrapper' = [wrapper EXCEPT ![w].at = place]

\* stop(): the process exits; a running file it has stays.
Stop(w) == wrapper' = [wrapper EXCEPT ![w] = Idle]

----------------------------------------------------------------------------
\* processLine: the model's stream shows an answer of the coordinator; the role access is
\* bound before the steps it shows are recorded.
Stream ==
  /\ bound' \in {bound, TRUE}
  /\ actions' = Recorded(actions, coordinator.offer, FALSE)
  /\ UNCHANGED <<kept, coordinator, wrapper, sent, held>>

\* The counterpart's proposal: its checkpoint is in the state the two roles' handlers share.
PeerProposes ==
  /\ \E s \in DOMAIN Follow : s = "acceptance"
  /\ kept' = kept \cup {"proposal"}
  /\ UNCHANGED <<actions, bound, coordinator, wrapper, sent, held>>

\* The five minutes of a pending action pass.
Expire ==
  /\ \E a \in In(actions, "pending") : actions' = [actions EXCEPT ![a].expired = TRUE]
  /\ UNCHANGED <<bound, kept, coordinator, wrapper, sent, held>>

----------------------------------------------------------------------------
\* A call of the tool; or executeAuthorizedAction with the descriptor of the one action
\* that is pending and not consumed.
Call(w) ==
  /\ At(w, "idle")
  /\ w \notin Tools => \E a \in DOMAIN actions : In(actions, "pending") = {a} /\ ~actions[a].consumed
  /\ Go(w, "look")
  /\ UNCHANGED <<continuationVars, sent, held>>

\* The wrapper's main: nothing may be running ...
Look(w) ==
  /\ At(w, "look")
  /\ IF In(actions, "running") = {} THEN Go(w, "pick") ELSE Stop(w)
  /\ UNCHANGED <<continuationVars, sent, held>>

\* ... and exactly one action pending ...
Pick(w) ==
  /\ At(w, "pick")
  /\ \/ /\ In(actions, "pending") = {}
        /\ Stop(w)
     \/ \E a \in DOMAIN actions :
          /\ In(actions, "pending") = {a}
          /\ wrapper' = [wrapper EXCEPT ![w].at = "claim", ![w].action = a]
  /\ UNCHANGED <<continuationVars, sent, held>>

\* A faulty variant: the wrapper does not see that another one has taken the file.
ClaimTaken(w) ==
  LET a == wrapper[w].action
  IN /\ At(w, "claim")
     /\ \/ ~actions[a].expired /\ actions' = [actions EXCEPT ![a].file = "running"] /\ Go(w, "mark")
        \/ Stop(w) /\ UNCHANGED actions
     /\ UNCHANGED <<bound, kept, coordinator, sent, held>>

\* ... which is not consumed, nor expired, nor already taken, with the release's assets as
\* they should be: its file becomes running.
Claim(w) ==
  LET a == wrapper[w].action
  IN /\ At(w, "claim")
     /\ \/ /\ ~actions[a].consumed /\ ~actions[a].expired /\ actions[a].file = "pending"
           /\ actions' = [actions EXCEPT ![a].file = "running"] /\ Go(w, "mark")
        \/ Stop(w) /\ UNCHANGED actions
     /\ UNCHANGED <<bound, kept, coordinator, sent, held>>

\* It is marked consumed and the helper starts.
Mark(w) ==
  /\ At(w, "mark")
  /\ actions' = [actions EXCEPT ![wrapper[w].action].consumed = TRUE]
  /\ Go(w, "helping")
  /\ UNCHANGED <<bound, kept, coordinator, sent, held>>

\* The helper ends with a result, or not as it should.
HelperEnds(w) ==
  /\ At(w, "helping")
  /\ \/ wrapper' = [wrapper EXCEPT ![w].at = "send", ![w].attempt = 1]
     \/ Stop(w)
  /\ UNCHANGED <<continuationVars, sent, held>>

\* completeOnce: the report reaches the socket.
Send(w) ==
  /\ At(w, "send")
  /\ sent' = sent \cup {[action |-> wrapper[w].action, attempt |-> wrapper[w].attempt]}
  /\ Go(w, "await")
  /\ UNCHANGED <<continuationVars, held>>

\* complete: the transport fails or the attempt takes too long; another one follows while
\* there are attempts and time left. The report may reach the socket all the same.
Retry(w) ==
  /\ wrapper[w].at \in {"send", "await"}
  /\ \/ /\ wrapper[w].attempt < Attempts
        /\ wrapper' = [wrapper EXCEPT ![w].at = "send", ![w].attempt = @ + 1]
     \/ Stop(w)
  /\ sent' \in {sent, {c \in sent : c.action # wrapper[w].action}}
  /\ UNCHANGED <<continuationVars, held>>

\* The result is accepted: the wrapper removes its running file and prints the result. The
\* tool looks for a promoted action and runs it too, up to DRAIN_BOUND; the other returns.
Finish(w) ==
  LET a == wrapper[w].action
      drains == w \in Tools /\ In(actions, "pending") # {} /\ wrapper[w].drained + 1 < DrainBound
  IN /\ At(w, "print")
     /\ actions' = [actions EXCEPT ![a].file = "gone"]
     /\ wrapper' = [wrapper EXCEPT ![w] =
                      IF drains THEN [Idle EXCEPT !.at = "look", !.drained = wrapper[w].drained + 1] ELSE Idle]
     /\ UNCHANGED <<bound, kept, coordinator, sent, held>>

----------------------------------------------------------------------------
\* The wrapper that awaits one of these reports of an action has its answer.
Told(a, answered, accepted) ==
  wrapper' = [w \in Callers |->
    IF wrapper[w].at = "await" /\ [action |-> wrapper[w].action, attempt |-> wrapper[w].attempt] \in answered
    THEN IF accepted THEN [wrapper[w] EXCEPT !.at = "print"] ELSE Idle
    ELSE wrapper[w]]

\* The reports the socket holds for an action until its completion ends.
Held(a) == {c \in held : c.action = a}

\* The socket takes a report, an action's in the order they were sent. The first begins the
\* follow-up; one that finds it under way is held; one that finds it ended is answered.
Receive ==
  \E c \in sent :
    /\ \A d \in sent : d.action = c.action => c.attempt <= d.attempt
    /\ sent' = sent \ {c}
    /\ CASE actions[c.action].state = "pending" ->
              /\ actions' = [actions EXCEPT ![c.action].state = "active", ![c.action].work = "start"]
              /\ held' = held \cup {c} /\ UNCHANGED wrapper
         [] actions[c.action].state = "active" -> held' = held \cup {c} /\ UNCHANGED <<actions, wrapper>>
         [] actions[c.action].state = "consumed" ->
              actions' = Promote(actions, TRUE) /\ Told(c.action, {c}, TRUE) /\ UNCHANGED held
         [] OTHER -> Told(c.action, {c}, FALSE) /\ UNCHANGED <<actions, held>>
    /\ UNCHANGED <<bound, kept, coordinator>>

\* A faulty variant: what the completion queued is left for the next record to promote.
EndsUnpromoted(a, state) ==
  /\ a \in DOMAIN actions /\ actions[a].state = "active"
  /\ actions' = [actions EXCEPT ![a].state = state]
  /\ Told(a, Held(a), state = "consumed")
  /\ held' = held \ Held(a)
  /\ UNCHANGED <<bound, kept, coordinator, sent>>

\* A completion ends and every report held for it is answered; an accepted one is answered
\* only once onConsumed has promoted the next action.
Ends(a, state) ==
  /\ a \in DOMAIN actions /\ actions[a].state = "active"
  /\ LET ended == [actions EXCEPT ![a].state = state]
     IN actions' = IF state = "consumed" THEN Promote(ended, TRUE) ELSE ended
  /\ Told(a, Held(a), state = "consumed")
  /\ held' = held \ Held(a)
  /\ UNCHANGED <<bound, kept, coordinator, sent>>

\* With its follow-up; or when its 60 seconds are over, while the follow-up goes on.
Settle(a) ==
  \/ Working(a, "accepted") /\ Ends(a, "consumed")
  \/ Working(a, "failed") /\ Ends(a, "failed")

Deadline(a) == Ends(a, "failed")

----------------------------------------------------------------------------
WrapperStep(w) ==
  Call(w) \/ Look(w) \/ Pick(w) \/ Claim(w) \/ Mark(w) \/ HelperEnds(w) \/ Send(w) \/ Retry(w) \/ Finish(w)

ActionStep(a) == (Handle(a) /\ UNCHANGED <<wrapper, sent, held>>) \/ Settle(a) \/ Deadline(a)

Next ==
  \/ Stream \/ PeerProposes \/ Expire \/ Receive
  \/ \E w \in Callers : WrapperStep(w)
  \/ \E a \in DOMAIN actions : ActionStep(a)

Spec == Init /\ [][Next]_vars

----------------------------------------------------------------------------
\* Helpers run one at a time and in the order their actions were recorded, whichever of the
\* two callers gets there first: an action is marked consumed only when no other helper runs and
\* every earlier action is consumed (main of the wrapper, promoteNextAction).
OneByOne ==
  [][\A a \in DOMAIN actions :
       actions'[a].consumed /\ ~actions[a].consumed =>
         /\ \A w \in Callers : wrapper[w].at # "helping"
         /\ \A b \in 1 .. a - 1 : actions[b].consumed]_vars

\* No step of the trusted channel is stranded: when nothing is pending and nothing running,
\* no action it recorded is still queued (onConsumed, promoteNextAction, requeueTrusted).
NotStranded ==
  In(actions, "pending") \cup In(actions, "running") = {} =>
    \A a \in In(actions, "queued") : ~actions[a].trusted

\* What a wrapper reports as executed has been followed up: the coordinator has the
\* outcome of the step, and the steps it asks for next are recorded and the first of them
\* not left behind (createCompletionSocket, handler).
ReportedIsDone ==
  \A w \in Callers : At(w, "print") =>
    LET op == actions[wrapper[w].action].step
    IN op \notin {"init", "policy", "verify-certificate"} =>
         op \in coordinator.done /\ \A s \in ToSet(Follow[op]) : Known(actions, s)

\* The coordinator has no commitment without its checkpoint, whatever answers were lost or
\* late, and the checkpoint of an acceptance only after this role had the proposal's
\* (handler: the checkpoint before the submit).
CheckpointFirst ==
  /\ coordinator.done \cap Commitments \subseteq coordinator.checkpoints
  /\ "acceptance" \in coordinator.checkpoints => "proposal" \in kept
=============================================================================
