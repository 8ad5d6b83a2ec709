---------------------------- MODULE LocalAdapter ----------------------------
(***************************************************************************)
(* The local adapter (src/local-adapter/server.mjs, tool-result.mjs): an MCP  *)
(* server on the agent's machine.  It passes the agent's tool calls on to the  *)
(* coordinator, stages the helper steps their results carry, and runs one      *)
(* staged step per call of authorize_local_action.                           *)
(*                                                                         *)
(* The agent calls without waiting for earlier answers, the coordinator        *)
(* answers in any order, repeats itself, or does not answer.                 *)
(***************************************************************************)
EXTENDS AgentHelper, SequencesExt

CONSTANTS
  HelperSteps, \* the helper steps a result may carry
  Results,     \* the tool results a coordinator may send
  MaxStaged,   \* MAX_STAGED_STEPS
  StagedTtl,   \* STAGED_STEP_TTL_MS
  Directories, \* the state directories an adapter may start over
  MaxCalls,    \* bound: calls of the agent
  MaxTime      \* bound: the clock

\* A tool result: the JSON texts of its content and its structured parts, each with the
\* helper steps in it.
ToolResult ==
  [items : Seq([json : BOOLEAN, steps : Seq(HelperSteps)]), structured : Seq(Seq(HelperSteps)),
   error : BOOLEAN, shaped : BOOLEAN]

ASSUME AdapterAssumption ==
  /\ MaxStaged \in Nat \ {0} /\ StagedTtl \in Nat
  /\ Results \subseteq ToolResult
  /\ \A d \in Directories : Directory(d)
  /\ MaxCalls \in Nat /\ MaxTime \in Nat

VARIABLES
  queue,   \* the staged steps, oldest first, each with its time and number
  staged,  \* how many steps were ever staged
  calls,   \* the agent's calls, in the order they came
  turns    \* the calls of authorize_local_action not answered

vars == <<now, dir, helpers, queue, staged, calls, turns>>

----------------------------------------------------------------------------
\* Helper steps and the results that carry them.  A step is what it asks for, the
\* release it is pinned to, and the policy or the request in its payload.

\* validateHelperStep: every structural check, then the release, then the payload.
Structural(step) ==
  /\ step.exact /\ step.op \in Operations
  /\ (step.op \in PayloadOperations) = (step.payload # "none")

PayloadBinds(step) ==
  \/ step.op \notin PayloadOperations
  \/ step.op = "policy" /\ step.policy.role = step.role /\ step.payload = "bound"
  \/ step.op \in {"sign", "verify-certificate"} /\ step.payload = "bound"

ValidateHelperStep(step) ==
  FirstOf(<< <<~Structural(step), "refused">>, <<step.release # "pinned", "upgrade">>,
             <<~PayloadBinds(step), "refused">> >>)

\* normalizeUpstreamToolResult: the result has the shape of one, its values are data of
\* bounded depth, every JSON text says what structuredContent says, and plain text is the
\* coordinator's own error and nothing else.
Normal(result) ==
  /\ result.shaped
  /\ \A i \in DOMAIN result.items, j \in DOMAIN result.structured :
       result.items[i].json => result.items[i].steps = result.structured[j]
  /\ (\E i \in DOMAIN result.items : ~result.items[i].json) =>
       result.error /\ Len(result.items) = 1 /\ result.structured = <<>>

\* collectHelperStepCandidates: of every view, in order.
Candidates(result) ==
  FlattenSeq([i \in DOMAIN result.items |-> result.items[i].steps]) \o FlattenSeq(result.structured)

\* What a result is refused with before anything of it is staged.
Refusal(result) ==
  LET steps == Candidates(result)
  IN FirstOf(<< <<~Normal(result), "refused">> >> \o
             [i \in DOMAIN steps |-> <<ValidateHelperStep(steps[i]) # "ok", ValidateHelperStep(steps[i])>>])

\* stageToolResult, one step: what is staged already keeps its place; past the limit
\* the rest of the result is refused.
Stage(stage, step) ==
  IF stage.full \/ (\E i \in DOMAIN stage.queue : stage.queue[i].step = step) THEN stage
  ELSE IF Len(stage.queue) >= MaxStaged THEN [stage EXCEPT !.full = TRUE]
  ELSE [queue |-> Append(stage.queue, [step |-> step, at |-> now, number |-> stage.count + 1]),
        count |-> stage.count + 1, full |-> FALSE]

StageAll(result) ==
  LET steps == Candidates(result)
      after[i \in 0 .. Len(steps)] ==
        IF i = 0 THEN [queue |-> queue, count |-> staged, full |-> FALSE]
        ELSE Stage(after[i - 1], steps[i])
  IN after[Len(steps)]

----------------------------------------------------------------------------
\* Calls.  An answer is what the agent is told: a result shown, a refusal, an error,
\* no staged action, or the outcome of a helper.

Pending == [says |-> "pending", steps |-> <<>>]
Says(kind) == [says |-> kind, steps |-> <<>>]
Shows(steps) == [says |-> "shown", steps |-> steps]

Answers(c, answer) == calls' = [calls EXCEPT ![c].answer = answer]
Open(c) == c \in DOMAIN calls /\ calls[c].answer = Pending

Init ==
  /\ now = 0 /\ dir \in Directories
  /\ helpers = <<>> /\ queue = <<>> /\ staged = 0 /\ calls = <<>> /\ turns = {}

\* handleToolsCall begins: "up" for a tool of the coordinator, "run" for the adapter's own.
Call(kind) ==
  /\ Len(calls) < MaxCalls
  /\ calls' = Append(calls, [kind |-> kind, answer |-> Pending])
  /\ turns' = IF kind = "run" THEN turns \cup {Len(calls) + 1} ELSE turns
  /\ UNCHANGED <<now, dir, helpers, queue, staged>>

\* The coordinator's result arrives: it is refused whole, or staged and then shown.
Relay(c, result) ==
  LET refusal == Refusal(result)
      stage == StageAll(result)
  IN /\ Open(c) /\ calls[c].kind = "up"
     /\ \/ /\ refusal # "ok"
           /\ Answers(c, Says(refusal)) /\ UNCHANGED <<queue, staged>>
        \/ /\ refusal = "ok"
           /\ queue' = stage.queue /\ staged' = stage.count
           /\ Answers(c, IF stage.full THEN Says("refused") ELSE Shows(Candidates(result)))
     /\ UNCHANGED <<now, dir, helpers, turns>>

\* upstreamRequest fails, is answered with an error, or its time is up.
UpstreamFails(c) ==
  /\ Open(c) /\ calls[c].kind = "up"
  /\ Answers(c, Says("error"))
  /\ UNCHANGED <<now, dir, helpers, queue, staged, turns>>

----------------------------------------------------------------------------
\* authorize_local_action.

\* A faulty variant: a call does not wait for the one before it.
AnyTurn(c) == c \in turns

\* pendingExecution: executions follow one another in the order of the calls.
Turn(c) == c \in turns /\ \A d \in turns : c <= d

\* A faulty variant: a refused execution breaks the chain.
ChainBroken(c, kind) == IF kind = "refused" THEN turns ELSE turns \ {c}

\* The next call's turn comes however this one ended.
NextTurn(c, kind) == turns \ {c}

\* An execution ends with an answer of this kind.
Ends(c, kind) == Answers(c, Says(kind)) /\ turns' = NextTurn(c, kind)

\* The queue from its first step on that is not too old.
Fresh ==
  LET kept == {i \in DOMAIN queue : now - queue[i].at <= StagedTtl}
  IN IF kept = {} THEN <<>>
     ELSE SubSeq(queue, Min(kept), Len(queue))

\* executeStagedAction up to the helper: there is nothing to run, the assets or the state
\* directory are not as they should be, or the helper starts.
Begin(c) ==
  /\ Open(c) /\ Turn(c) /\ (\A k \in DOMAIN helpers : helpers[k].call # c)
  /\ \/ Fresh = <<>> /\ queue' = <<>> /\ Ends(c, "nothing") /\ UNCHANGED helpers
     \/ Fresh # <<>> /\ queue' = Tail(Fresh) /\ Ends(c, "refused") /\ UNCHANGED helpers
     \/ /\ Fresh # <<>> /\ queue' = Tail(Fresh)
        /\ helpers' = Append(helpers, Spawned(c, Head(Fresh))) /\ UNCHANGED <<calls, turns>>
  /\ UNCHANGED <<now, dir, staged>>

\* The helper takes a step, or stops short of its result: killed at HELPER_RUN_BUDGET_MS,
\* among others.
HelperStep(k) ==
  /\ Running(k) /\ (Dispatch(k) \/ Stops(k))
  /\ UNCHANGED <<now, queue, staged, calls, turns>>

\* The helper has ended: its record is passed on, unless it is not the record of this
\* operation or the process failed after printing it.
Finish(k) ==
  /\ ~Running(k) /\ Open(helpers[k].call)
  /\ \/ Ends(helpers[k].call, helpers[k].out)
     \/ helpers[k].out = "done" /\ \E kind \in {"failed", "refused"} : Ends(helpers[k].call, kind)
  /\ UNCHANGED <<now, dir, helpers, queue, staged>>

Tick ==
  /\ now < MaxTime /\ now' = now + 1
  /\ UNCHANGED <<dir, helpers, queue, staged, calls, turns>>

----------------------------------------------------------------------------
Next ==
  \/ \E kind \in {"up", "run"} : Call(kind)
  \/ \E c \in DOMAIN calls : (\E result \in Results : Relay(c, result)) \/ UpstreamFails(c) \/ Begin(c)
  \/ \E k \in DOMAIN helpers : HelperStep(k) \/ Finish(k)
  \/ Tick

Spec == Init /\ [][Next]_vars

\* An upstream call ends after UPSTREAM_RPC_BUDGET_MS and a helper run after
\* HELPER_RUN_BUDGET_MS; what is then to be done in the adapter's own process is done.
Fairness ==
  \A c \in 1..MaxCalls :
    /\ WF_vars(c \in DOMAIN calls /\ (UpstreamFails(c) \/ Begin(c)))
    /\ WF_vars(c \in DOMAIN helpers /\ (HelperStep(c) \/ Finish(c)))

FairSpec == Spec /\ Fairness

----------------------------------------------------------------------------
\* Type invariant: every staged step and every run has its number, time and answer kind.
TypeOK ==
  /\ now \in 0..MaxTime /\ staged \in Nat
  /\ \A file \in {"wallet", "policy"} : dir[file] \in {"absent", "torn", "whole"}
  /\ \A i \in DOMAIN queue : queue[i].number \in 1..staged /\ queue[i].at \in 0..now
  /\ \A c \in DOMAIN calls :
       calls[c].answer.says \in {"pending", "shown", "refused", "upgrade", "error", "nothing",
                                 "done", "failed", "expired", "invalid"}
  /\ turns \subseteq DOMAIN calls
  /\ \A k \in DOMAIN helpers : helpers[k].call \in DOMAIN calls /\ helpers[k].entry.number \in 1..staged

\* The agent's calls run the staged steps one at a time and in the order the coordinator
\* gave them, however the calls and the coordinator's answers overlap (pendingExecution).
InTurn ==
  \A k \in DOMAIN helpers, l \in DOMAIN helpers :
    k < l => ~Running(k) /\ helpers[k].entry.number < helpers[l].entry.number

\* What the agent was told is done stays so, though the coordinator repeats steps, and a
\* repeated one runs again: the wallet exists, the policy is the one committed then, and a
\* signature left the helper before every bound of its request and checkpoint (H-REQ-07).
DoneIsSo ==
  \A k \in DOMAIN helpers :
    LET run == helpers[k]
        step == run.entry.step
    IN calls[run.call].answer.says = "done" =>
         /\ Whole("wallet")
         /\ step.op = "policy" => dir.committed = <<step.policy>>
         /\ step.op = "register" => dir.identity
         /\ step.op = "sign" =>
              /\ dir.committed = <<step.request.policy>>
              /\ \A bound \in Bounds(step.request, run.checkpoint) : run.read < bound

\* Every call of the agent is answered: neither a coordinator that does not answer nor a
\* helper that hangs, fails or is refused holds up the calls behind it.
CallsAnswered == \A c \in 1..MaxCalls : c \in DOMAIN calls ~> c \in DOMAIN calls /\ ~Open(c)
=============================================================================
