--------------------------- MODULE MCLocalAdapter ---------------------------
\* The local adapter of a responder over three moments: the coordinator gives the steps of
\* one session, again and out of order, and results that are to be refused.
EXTENDS LocalAdapter

Committed == Policy("responder", 2, TRUE)
Other == Policy("responder", 3, FALSE)

Plain(op) ==
  [op |-> op, role |-> "responder", release |-> "pinned", exact |-> TRUE, payload |-> "none"]

PolicyOf(policy) ==
  [op |-> "policy", role |-> "responder", release |-> "pinned", exact |-> TRUE,
   payload |-> "bound", policy |-> policy]

Asked(op, request) ==
  [op |-> op, role |-> "responder", release |-> "pinned", exact |-> TRUE,
   payload |-> "bound", request |-> request]

Request(what) ==
  [what |-> what, sound |-> TRUE, policy |-> Committed, deadline |-> 3, keyFrom |-> 0, keyUntil |-> 3,
   window |-> <<>>, proposal |-> <<>>, descriptor |-> <<>>]

Acceptance ==
  [Request("acceptance") EXCEPT
     !.window = <<[issued |-> 0, expires |-> 2]>>,
     !.proposal = <<[sound |-> TRUE, issued |-> 0, expires |-> 2]>>]

Evidence == [Request("evidence") EXCEPT !.descriptor = <<2>>]

Text(steps) == [json |-> TRUE, steps |-> steps]
Shown(steps) == [items |-> <<Text(steps)>>, structured |-> <<>>, error |-> FALSE, shaped |-> TRUE]
Mirrored(steps) == [Shown(steps) EXCEPT !.structured = <<steps>>]

MCResults ==
  {Mirrored(<<Plain("init")>>),
   Shown(<<PolicyOf(Committed), Plain("inspect"), Plain("register")>>),
   Shown(<<Asked("sign", Acceptance), PolicyOf(Other)>>),
   Shown(<<Plain("register"), Asked("sign", Evidence)>>),
   Shown(<<Asked("verify-certificate", Request("certificate"))>>),
   Shown(<<[Plain("inspect") EXCEPT !.release = "newer"]>>),
   [items |-> <<[json |-> FALSE, steps |-> <<>>]>>, structured |-> <<>>, error |-> TRUE, shaped |-> TRUE],
   [Shown(<<>>) EXCEPT !.shaped = FALSE],
   [Mirrored(<<Plain("inspect")>>) EXCEPT !.structured = <<<<Plain("register")>>>>]}

MCHelperSteps ==
  UNION {{steps[i] : i \in DOMAIN steps} : steps \in {Candidates(result) : result \in MCResults}}

\* A fresh directory, one with a wallet, and one of a party that has committed its policy.
MCDirectories ==
  {EmptyDir, [EmptyDir EXCEPT !.wallet = "whole"]} \cup
  {[EmptyDir EXCEPT !.wallet = "whole", !.policy = "whole", !.committed = <<policy>>] :
     policy \in {Committed, Other}}
=============================================================================
