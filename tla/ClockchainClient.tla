-------------------------- MODULE ClockchainClient --------------------------
(***************************************************************************)
(* One call of a tool of the hosted Clockchain service                     *)
(* (src/core/clockchain.mjs): the request, the retries and the waits        *)
(* between them, and what the caller is told.                              *)
(*                                                                         *)
(* A call is a function of the service's replies to its requests, so that  *)
(* the modules that call the service see every way a call can end and how  *)
(* many requests it took.                                                  *)
(***************************************************************************)
EXTENDS Integers, FiniteSets

CONSTANTS
  MaxAttempts,     \* requests one read call may send
  MaxTotalWait,    \* how long one call may wait between its requests
  MaxRetryAfter,   \* the longest wait the service may ask for
  RateLimitFloor,  \* the wait after a throttle that names none
  MaxBackoff,      \* the longest wait after a network failure
  Hints            \* waits the service asks for, bounded for TLC

ASSUME ClockchainClientAssumption ==
  /\ MaxAttempts \in Nat \ {0}
  /\ {MaxTotalWait, MaxRetryAfter, RateLimitFloor, MaxBackoff} \cup Hints \subseteq Nat

----------------------------------------------------------------------------
WriteTools == {"log_action"}
ReadRetryTools == {"resolve_agent", "verify_cross_party", "search_actions", "get_block",
                   "generate_audit_trail"}

NoHint == -1

\* What the service does with one request: never answers, answers with a status
\* that is no success, or with a body the parsers below read.
Replies ==
  [how : {"timeout", "transport", "oversize", "401", "5xx", "4xx", "malformed", "otherId",
          "rpcError", "toolError", "badPayload", "ok"}, hint : {NoHint}]
  \cup [how : {"429", "throttled"}, hint : {NoHint} \cup Hints]

\* readBoundedText: a body beyond the limit, or none, is refused.
BodyFits(reply) == reply.how # "oversize"

\* fetchBounded: no answer is a network failure, whoever gave up first.
FetchBounded(reply) ==
  IF reply.how \in {"timeout", "transport"} THEN "network"
  ELSE IF ~BodyFits(reply) THEN "protocol"
  ELSE "answered"

\* parseSseJsonRpc: exactly one well-formed envelope must bear the request's id.
ParsesAsJsonRpc(reply) == reply.how \notin {"malformed", "otherId", "rpcError"}

\* assertNotRateLimited: a throttle inside a successful answer is a throttle.
ThrottledInBody(reply) == reply.how = "throttled"

\* parseToolResult.
ToolResult(reply) ==
  IF ~ParsesAsJsonRpc(reply) THEN "protocol"
  ELSE IF ThrottledInBody(reply) THEN "rate"
  ELSE IF reply.how = "toolError" THEN "protocol"
  ELSE "ok"

\* assertLogActionResult, assertSearchActionsResult, assertBlockResult and
\* assertAuditTrailResult: a payload without the fields the caller reads.
AssertResult(outcome, reply) ==
  IF outcome = "ok" /\ reply.how = "badPayload" THEN "protocol" ELSE outcome

\* What one reply says, before any retry.
Classify(reply) ==
  IF FetchBounded(reply) # "answered" THEN FetchBounded(reply)
  ELSE CASE reply.how = "401" -> "configuration"
         [] reply.how = "429" -> "rate"
         [] reply.how = "5xx" -> "network"
         [] reply.how = "4xx" -> "protocol"
         [] OTHER -> ToolResult(reply)

----------------------------------------------------------------------------
\* parseRetryAfter and throttleHintMs: the wait asked for, never above the limit.
RetryAfter(reply) ==
  IF reply.hint = NoHint THEN RateLimitFloor
  ELSE IF reply.hint > MaxRetryAfter THEN MaxRetryAfter
  ELSE reply.hint

\* backoffDelay: doubles from one attempt to the next.
Backoff(attempt) == IF 2 ^ attempt > MaxBackoff THEN MaxBackoff ELSE 2 ^ attempt

MayRetry(tool) == tool \in ReadRetryTools

\* waitBeforeRetry: may the call wait this long and try again.
WaitBeforeRetry(tool, attempt, waited, delay) ==
  /\ MayRetry(tool)
  /\ attempt + 1 < MaxAttempts
  /\ waited + delay <= MaxTotalWait

\* One turn of call's loop.
Attempt(tool, attempt, s, reply) ==
  LET outcome == Classify(reply)
      delay == IF outcome = "rate" THEN RetryAfter(reply) ELSE Backoff(attempt)
  IN IF outcome \in {"network", "rate"} /\ WaitBeforeRetry(tool, attempt, s.waited, delay)
     THEN [sent |-> s.sent + 1, waited |-> s.waited + delay, outcome |-> "again"]
     ELSE [sent |-> s.sent + 1, waited |-> s.waited,
           outcome |-> AssertResult(outcome, reply)]

\* A call that is given these replies, in turn.
Call(tool, replies) ==
  LET after[n \in 0..MaxAttempts] ==
        IF n = 0 THEN [sent |-> 0, waited |-> 0, outcome |-> "again"]
        ELSE IF after[n - 1].outcome # "again" THEN after[n - 1]
        ELSE Attempt(tool, n - 1, after[n - 1], replies[n])
      last == after[MaxAttempts]
  IN IF last.outcome = "again" THEN [last EXCEPT !.outcome = "network"] ELSE last

\* Every way a call of a tool can end.
Calls == [tool \in WriteTools \cup ReadRetryTools |->
            {Call(tool, replies) : replies \in [1..MaxAttempts -> Replies]}]

Outcomes(tool) == {c.outcome : c \in Calls[tool]}

\* What can go wrong with a read of this tool.
ReadFailures(tool) == Outcomes(tool) \ {"ok"}

\* Requests a call of the write tool may have put on the wire, and its outcome.
WriteCalls == {[sent |-> c.sent, outcome |-> c.outcome] : c \in Calls["log_action"]}

=============================================================================
