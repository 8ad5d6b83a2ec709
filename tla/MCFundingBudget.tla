-------------------------- MODULE MCFundingBudget --------------------------
(***************************************************************************)
(* Instances of FundingBudget for TLC.  A session has two seats of 1 cent; *)
(* an hour is 2 ticks, a day 4, and the hour's ceiling admits three seats, *)
(* so that two sessions in an hour contend for the last seat.              *)
(***************************************************************************)
EXTENDS FundingBudget, TLC

CONSTANTS h1, s0, s1, s2, s3, a1, a2   \* s0 is a session of the past

Seats(s, as) == [session |-> s, addresses |-> as]
Legacy(s, t) == [session |-> s, address |-> a1, cents |-> 2, at |-> t]
Stale(s)     == [session |-> s, address |-> a1, cents |-> 1, at |-> 0]

\* One host that is asked for anything: both seats, one, and none.
OneHost == {h1}
AllRequests == [p \in OneHost |->
  {Seats(s, {a1, a2}) : s \in {s1, s2, s3}} \cup {Seats(s2, {a1}), Seats(s3, {a2}), Seats(s3, {})}]

\* Sessions that open one tick after another.
Staggered == (s0 :> 0) @@ (s1 :> 0) @@ (s2 :> 2) @@ (s3 :> 4)

WithLegacy == {{}, {Legacy(s1, 0)}, {Stale(s0)}}
============================================================================
