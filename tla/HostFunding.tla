---------------------------- MODULE HostFunding ----------------------------
(***************************************************************************)
(* Funding the identities of a session's parties                            *)
(* (src/agent-handshake/v2/production-adapter.mjs, fundingTimeLeft to         *)
(* defaultFundIdentity).  The work of a step runs beside the timer that ends   *)
(* it: once the timer fires the host goes on, and the work stops only where    *)
(* it looks.                                                                *)
(***************************************************************************)
EXTENDS HostInbox

VARIABLES
  seats,      \* the roles whose identity is to be funded
  reserved,   \* the budget granted the session's reservation
  work,       \* where the work of each role's step is
  aborted,    \* roles whose step the timer has ended
  broadcasts  \* transactions sent for each role

fundingVars == <<seats, reserved, work, aborted, broadcasts>>

FundingInit ==
  /\ reserved = FALSE /\ aborted = {}
  /\ work = [r \in Roles |-> "idle"] /\ broadcasts = [r \in Roles |-> 0]

\* fundingTimeLeft.
TimeLeft(stop) == now < stop

\* fundingStep begins: a step is not started with no time left.
BeginFunding(role, stop) ==
  /\ TimeLeft(stop)
  /\ work' = [work EXCEPT ![role] = "open"]
  /\ UNCHANGED <<seats, reserved, aborted, broadcasts>>

Move(role, to) == work' = [work EXCEPT ![role] = to]

\* The timer of a step fires: what is in flight is aborted.
Abort(role, stop) ==
  /\ work[role] \notin {"idle", "funded"} /\ ~TimeLeft(stop)
  /\ aborted' = aborted \cup {role}
  /\ UNCHANGED <<seats, reserved, work, broadcasts>>

\* openFundingWallet, prepareTransactionRequest and signTransaction return: the
\* clock is read after each, and the work ends when no time is left.
Prepare(role, stop) ==
  /\ \/ work[role] = "open" /\ Move(role, IF TimeLeft(stop) THEN "prepare" ELSE "dropped")
     \/ work[role] = "prepare" /\ Move(role, IF TimeLeft(stop) THEN "sign" ELSE "dropped")
     \/ work[role] = "sign" /\ Move(role, IF TimeLeft(stop) THEN "send" ELSE "dropped")
  /\ UNCHANGED <<seats, reserved, aborted, broadcasts>>

\* A faulty variant: the request leaves, however late it is.
SendAnyway(role, stop) == work[role] = "send"

\* fetchBeforeStop: no request starts once the time is up or the step was aborted.
MaySend(role, stop) ==
  work[role] = "send" /\ TimeLeft(stop) /\ role \notin aborted

\* sendRawTransaction, and the node's answer, which may be lost.
Broadcast(role, stop, answered) ==
  /\ MaySend(role, stop)
  /\ broadcasts' = [broadcasts EXCEPT ![role] = @ + 1]
  /\ Move(role, IF answered THEN "sent" ELSE "dropped")
  /\ UNCHANGED <<seats, reserved, aborted>>

DropUnsent(role, stop) ==
  /\ work[role] = "send" /\ ~MaySend(role, stop)
  /\ Move(role, "dropped")
  /\ UNCHANGED <<seats, reserved, aborted, broadcasts>>

\* waitForTransactionReceipt.
Receipt(role) ==
  /\ work[role] = "sent" /\ role \notin aborted
  /\ Move(role, "funded")
  /\ UNCHANGED <<seats, reserved, aborted, broadcasts>>

\* A request of the work fails.
WorkFails(role) ==
  /\ work[role] \notin {"idle", "funded", "dropped"}
  /\ Move(role, "dropped")
  /\ UNCHANGED <<seats, reserved, aborted, broadcasts>>
=============================================================================
