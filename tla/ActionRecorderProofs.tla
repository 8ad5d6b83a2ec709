------------------------ MODULE ActionRecorderProofs ------------------------
(***************************************************************************)
(* Theorems about ActionRecorder, for any steps, any number of attempts,   *)
(* calls and drains: helpers run one at a time and in order, no trusted    *)
(* action is stranded, what is reported as executed has been followed up,  *)
(* and no commitment is submitted before its checkpoint.                   *)
(*                                                                         *)
(* And about LocalAdapter with its AgentHelper, for any results, calls and *)
(* directories: types, that the staged steps run one at a time and in      *)
(* order, and that what the agent was told is done is so.                  *)
(***************************************************************************)
EXTENDS ActionRecorder, TLAPS, SequenceTheorems, NaturalsInduction, WellFoundedInduction

\* The local adapter has constants and a state of its own.
CONSTANTS HelperSteps, Results, MaxStaged, StagedTtl, Directories, MaxCalls, MaxTime
VARIABLES now, dir, helpers, queue, stagedEver, toolCalls, turns

Adapter == INSTANCE LocalAdapter WITH calls <- toolCalls, staged <- stagedEver

----------------------------------------------------------------------------
(* The invariant                                                            *)

Steps == DOMAIN Follow
Free == {"init", "policy", "verify-certificate"}

Acts ==
  [step : Steps, trusted : BOOLEAN, file : {"queued", "pending", "running", "gone"},
   consumed : BOOLEAN, expired : BOOLEAN, state : {"pending", "active", "consumed", "failed"},
   work : {"none", "start", "join", "checkpoint", "submit", "advance", "verify", "accepted", "failed"},
   calls : Nat]

\* A wrapper has an action from its claim on, and its running file until it ends.
Holding == {"mark", "helping", "send", "await", "print"}
Looking == {"pick", "claim"}
Places == Holding \cup Looking \cup {"idle", "look"}

Reports == [action : Nat, attempt : Nat]

RecorderOK ==
  /\ coordinator \in [done : SUBSET Steps, checkpoints : SUBSET Steps, offer : Seq(Steps)]
  /\ bound \in BOOLEAN
  /\ wrapper \in [Callers -> [at : Places, action : Nat, attempt : Nat, drained : Nat]]
  /\ sent \in SUBSET Reports /\ held \in SUBSET Reports

\* The retained actions: no step twice; files move on in the order of their actions; and
\* none is taken before those in front of it have been accepted.
QueueOK(list) ==
  /\ list \in Seq(Acts)
  /\ \A a, b \in DOMAIN list : list[a].step = list[b].step => a = b
  /\ \A a, b \in DOMAIN list :
       a < b /\ list[b].file # "queued" => list[a].file \in {"running", "gone"}
  /\ \A a, b \in DOMAIN list :
       a < b /\ list[b].file \in {"running", "gone"} => list[a].state = "consumed"
  /\ \A a \in DOMAIN list :
       /\ list[a].file \in {"queued", "pending"} => list[a].state = "pending" /\ ~list[a].consumed
       /\ list[a].file = "gone" => list[a].state = "consumed"
       /\ list[a].state = "pending" <=> list[a].work = "none"
       /\ list[a].state # "pending" => list[a].consumed
       /\ list[a].state = "consumed" => list[a].work = "accepted"

\* A trusted action that is queued waits for one that is pending or not yet accepted.
Awaited(list) ==
  (\E a \in DOMAIN list : list[a].file = "queued" /\ list[a].trusted) =>
    \E r \in DOMAIN list :
      list[r].file = "pending" \/ (list[r].file = "running" /\ list[r].state # "consumed")

\* The reports of an action that is running and marked.
ReportsOK ==
  /\ \A c \in sent \cup held :
       /\ c.action \in DOMAIN actions
       /\ actions[c.action].file = "running" /\ actions[c.action].consumed
  /\ \A c \in held : actions[c.action].state = "active"
  /\ \A c \in held, d \in sent : c.action = d.action => c.attempt < d.attempt

\* What a wrapper holds, and what it has reported of it.
HoldsOK ==
  /\ \A w \in Callers : ~At(w, "idle") /\ ~At(w, "look") /\ ~At(w, "pick") => wrapper[w].action \in DOMAIN actions
  /\ \A w \in Callers : wrapper[w].at \in Holding =>
       /\ actions[wrapper[w].action].file = "running"
       /\ wrapper[w].at \in {"mark", "helping"} => actions[wrapper[w].action].state = "pending"
       /\ wrapper[w].at # "mark" => actions[wrapper[w].action].consumed
       /\ At(w, "print") => actions[wrapper[w].action].state = "consumed"
       /\ \A c \in sent \cup held : c.action = wrapper[w].action =>
            /\ wrapper[w].at \in {"send", "await"}
            /\ IF At(w, "send") THEN c.attempt < wrapper[w].attempt ELSE c.attempt <= wrapper[w].attempt
  /\ \A v, w \in Callers : wrapper[v].at \in Holding /\ wrapper[w].at \in Holding
                           /\ wrapper[v].action = wrapper[w].action => v = w

\* A wrapper that has found nothing running: there is one running file at most by now, none
\* while the other is as far; and a pending action follows accepted ones.
LookingOK ==
  \A w \in Callers : wrapper[w].at \in Looking =>
    /\ \A r, s \in In(actions, "running") : r = s
    /\ (\A v \in Callers : wrapper[v].at \in Looking) => In(actions, "running") = {}
    /\ In(actions, "pending") # {} => \A r \in In(actions, "running") : actions[r].state = "consumed"

Busy == {"start", "join", "checkpoint", "submit", "advance", "verify"}

\* How far a follow-up is, and what the coordinator has of it.
FollowedOK ==
  /\ \A s \in coordinator.done : \E a \in DOMAIN actions : actions[a].step = s /\ actions[a].work # "none"
  /\ \A a \in DOMAIN actions :
       LET op == actions[a].step
           work == actions[a].work
       IN /\ work \in Busy /\ op \in coordinator.done => coordinator.offer = Follow[op]
          /\ work = "accepted" /\ op \notin Free =>
               op \in coordinator.done /\ \A s \in ToSet(Follow[op]) : Known(actions, s)
          /\ work = "join" => op = "inspect"
          /\ work = "checkpoint" => op \in Commitments /\ (op = "acceptance" => "proposal" \in kept)
          /\ work = "submit" => op \in Signed /\ (op \in Commitments => op \in coordinator.checkpoints)
          /\ work = "advance" => op = "register" \/ (op \in Signed /\ op \in coordinator.done)
          /\ work = "verify" => op = "verify-certificate"

IInv ==
  /\ RecorderOK /\ QueueOK(actions) /\ Awaited(actions)
  /\ ReportsOK /\ HoldsOK /\ LookingOK /\ FollowedOK /\ CheckpointFirst

\* A set of numbers has a least one.
LEMMA LeastNumber ==
  ASSUME NEW T, T \subseteq Nat, T # {}
  PROVE  \E x \in T : \A y \in T : x <= y
<1> DEFINE R == OpToRel(<, Nat)
<1>1. IsWellFoundedOn(R, Nat)
  BY NatLessThanWellFounded
<1> HIDE DEF R
<1>2. PICK x \in T : \A y \in T : ~ (<<y, x>> \in R)
  BY <1>1, WFMin
<1>3. \A y \in T : ~(y < x)
  BY <1>2 DEF R, OpToRel
<1>4. \A y \in T : x \in Nat /\ y \in Nat
  OBVIOUS
<1>5. \A y \in T : x <= y
  BY <1>3, <1>4
<1>6. QED BY <1>5

----------------------------------------------------------------------------
(* Recording and promoting                                                  *)

LEMMA InNone ==
  ASSUME NEW list, NEW place
  PROVE  In(list, place) = {} <=> \A a \in DOMAIN list : list[a].file # place
BY DEF In

\* A list's actions are actions, and a list is as long as its domain says.
LEMMA ListFacts ==
  ASSUME NEW list \in Seq(Acts)
  PROVE  /\ Len(list) \in Nat /\ DOMAIN list = 1 .. Len(list)
         /\ \A a \in DOMAIN list : a \in Nat /\ list[a] \in Acts
OBVIOUS

\* What recording and promoting leave of a list: its actions are where they were, but for
\* queued ones that are pending, and new ones follow.
Grows(list, later) ==
  /\ later \in Seq(Acts)
  /\ \A a \in DOMAIN list :
       /\ a \in DOMAIN later
       /\ later[a].step = list[a].step /\ later[a].trusted = list[a].trusted
       /\ later[a].consumed = list[a].consumed /\ later[a].state = list[a].state
       /\ later[a].work = list[a].work
       /\ later[a].file = list[a].file \/ (list[a].file = "queued" /\ later[a].file = "pending")
  /\ \A a \in DOMAIN later \ DOMAIN list :
       /\ later[a].file \in {"queued", "pending"} /\ later[a].state = "pending"
       /\ later[a].work = "none" /\ ~later[a].consumed

\* Nothing has become pending beside what was, or is running.
Unforced(list, later) ==
  In(later, "pending") # {} => In(list, "pending") # {} \/ In(list, "running") = {}

LEMMA GrowsOn ==
  ASSUME NEW list, NEW next, NEW later, Grows(list, next), Grows(next, later)
  PROVE  Grows(list, later)
<1>1. \A a \in DOMAIN list :
        /\ a \in DOMAIN later
        /\ later[a].step = list[a].step /\ later[a].trusted = list[a].trusted
        /\ later[a].consumed = list[a].consumed /\ later[a].state = list[a].state
        /\ later[a].work = list[a].work
        /\ later[a].file = list[a].file \/ (list[a].file = "queued" /\ later[a].file = "pending")
  BY DEF Grows
<1>2. ASSUME NEW a \in DOMAIN later \ DOMAIN list
      PROVE  /\ later[a].file \in {"queued", "pending"} /\ later[a].state = "pending"
             /\ later[a].work = "none" /\ ~later[a].consumed
  <2>1. CASE a \in DOMAIN next
    BY <1>2, <2>1 DEF Grows
  <2>2. CASE a \notin DOMAIN next
    BY <1>2, <2>2 DEF Grows
  <2>3. QED BY <2>1, <2>2
<1>3. QED BY <1>1, <1>2 DEF Grows

\* What is running is the same.
LEMMA GrowsRunning ==
  ASSUME NEW list, NEW later, Grows(list, later)
  PROVE  In(later, "running") = In(list, "running")
<1>1. \A a \in In(later, "running") : a \in In(list, "running")
  BY DEF Grows, In
<1>2. \A a \in In(list, "running") : a \in In(later, "running")
  BY DEF Grows, In
<1>3. QED BY <1>1, <1>2

LEMMA GrowsKnown ==
  ASSUME NEW list, NEW later, Grows(list, later), NEW step, Known(list, step)
  PROVE  Known(later, step)
BY DEF Grows, Known

LEMMA GrowsItself ==
  ASSUME NEW list \in Seq(Acts)
  PROVE  Grows(list, list) /\ Unforced(list, list)
BY DEF Grows, Unforced

\* Promotion: the first queued action, if any, when nothing is pending, nor running unless
\* it is forced.
LEMMA PromoteIs ==
  ASSUME NEW list, QueueOK(list), NEW force \in BOOLEAN
  PROVE  \/ /\ Promote(list, force) = list
            /\ \/ In(list, "pending") # {}
               \/ ~force /\ In(list, "running") # {}
               \/ In(list, "queued") = {}
         \/ /\ In(list, "pending") = {}
            /\ ~force => In(list, "running") = {}
            /\ \E a \in DOMAIN list :
                 /\ list[a].file = "queued"
                 /\ \A b \in DOMAIN list : list[b].file = "queued" => a <= b
                 /\ Promote(list, force) = [list EXCEPT ![a].file = "pending"]
<1> DEFINE Q == In(list, "queued")
<1>1. CASE In(list, "pending") # {} \/ (~force /\ In(list, "running") # {}) \/ Q = {}
  BY <1>1 DEF Promote
<1>2. CASE ~(In(list, "pending") # {} \/ (~force /\ In(list, "running") # {}) \/ Q = {})
  <2>1. Q \subseteq Nat /\ Q # {} /\ \A a \in Q : a \in DOMAIN list /\ list[a].file = "queued"
    BY <1>2, ListFacts DEF QueueOK, In
  <2>2. \E x \in Q : \A y \in Q : x <= y
    <3> HIDE DEF Q
    <3>1. QED BY <2>1, LeastNumber
  <2>3. PICK a : a = CHOOSE x \in Q : \A y \in Q : x <= y
    OBVIOUS
  <2>4. a \in Q /\ \A y \in Q : a <= y
    BY <2>2, <2>3
  <2>5. Promote(list, force) = [list EXCEPT ![a].file = "pending"]
    BY <1>2, <2>3 DEF Promote
  <2>6. \A b \in DOMAIN list : list[b].file = "queued" => a <= b
    BY <2>4 DEF In
  <2>7. QED BY <1>2, <2>1, <2>4, <2>5, <2>6
<1>3. QED BY <1>1, <1>2

LEMMA PromoteOK ==
  ASSUME NEW list, QueueOK(list), NEW force \in BOOLEAN
  PROVE  /\ QueueOK(Promote(list, force)) /\ Grows(list, Promote(list, force))
         /\ DOMAIN Promote(list, force) = DOMAIN list
         /\ ~force => Unforced(list, Promote(list, force))
         /\ force \/ Awaited(list) => Awaited(Promote(list, force))
<1>0. list \in Seq(Acts) /\ \A a \in DOMAIN list : a \in Nat /\ list[a] \in Acts
  BY ListFacts DEF QueueOK
<1> DEFINE later == Promote(list, force)
<1>1. CASE later = list /\ (In(list, "pending") # {} \/ (~force /\ In(list, "running") # {})
                           \/ In(list, "queued") = {})
  <2>1. Grows(list, later) /\ Unforced(list, later)
    BY <1>0, <1>1, GrowsItself
  <2>2. force => Awaited(list)
    BY <1>1 DEF Awaited, In
  <2>3. QED BY <1>1, <2>1, <2>2
<1>2. ASSUME In(list, "pending") = {}, ~force => In(list, "running") = {},
             NEW a \in DOMAIN list, list[a].file = "queued",
             \A b \in DOMAIN list : list[b].file = "queued" => a <= b,
             later = [list EXCEPT ![a].file = "pending"]
      PROVE  /\ QueueOK(later) /\ Grows(list, later) /\ DOMAIN later = DOMAIN list
             /\ ~force => Unforced(list, later) /\ Awaited(later)
             /\ Awaited(later)
  <2>1. [list[a] EXCEPT !.file = "pending"] \in Acts
    <3>1. list[a] \in Acts
      BY <1>0
    <3>2. QED BY ONLY <3>1 DEF Acts
  <2>2. later \in Seq(Acts) /\ DOMAIN later = DOMAIN list
    BY <1>0, <1>2, <2>1
  <2>3. /\ later[a].file = "pending" /\ later[a].step = list[a].step
        /\ later[a].trusted = list[a].trusted /\ later[a].consumed = list[a].consumed
        /\ later[a].state = list[a].state /\ later[a].work = list[a].work
        /\ \A b \in DOMAIN list : b # a => later[b] = list[b]
    BY <1>0, <1>2 DEF Acts
  <2> HIDE DEF later
  <2>4. \A b \in DOMAIN list : list[b].file \in {"queued", "running", "gone"}
    <3>1. \A b \in DOMAIN list : list[b].file \in {"queued", "pending", "running", "gone"}
      BY <1>0 DEF Acts
    <3>2. QED BY <1>2, <3>1, InNone
  <2>5. \A b, c \in DOMAIN later : b < c /\ later[c].file # "queued" => later[b].file \in {"running", "gone"}
    <3>1. SUFFICES ASSUME NEW b \in DOMAIN list, NEW c \in DOMAIN list, b < c, later[c].file # "queued"
                   PROVE  later[b].file \in {"running", "gone"}
      BY <2>2
    <3>2. CASE c = a
      <4>1. b # a /\ list[b].file # "queued"
        BY <1>0, <1>2, <3>1, <3>2
      <4>2. QED BY <2>3, <2>4, <4>1
    <3>3. CASE c # a
      <4>1. list[b].file \in {"running", "gone"}
        BY <2>3, <3>1, <3>3 DEF QueueOK
      <4>2. b # a
        BY <1>2, <4>1
      <4>3. QED BY <2>3, <4>1, <4>2
    <3>4. QED BY <3>2, <3>3
  <2>6. \A b, c \in DOMAIN later : b < c /\ later[c].file \in {"running", "gone"} => later[b].state = "consumed"
    <3>1. SUFFICES ASSUME NEW b \in DOMAIN list, NEW c \in DOMAIN list, b < c,
                          later[c].file \in {"running", "gone"}
                   PROVE  later[b].state = "consumed"
      BY <2>2
    <3>2. c # a /\ later[c] = list[c]
      BY <2>3, <3>1
    <3>3. list[b].state = "consumed"
      BY <3>1, <3>2 DEF QueueOK
    <3>4. QED BY <2>3, <3>3
  <2>7. \A b \in DOMAIN later :
          /\ later[b].file \in {"queued", "pending"} => later[b].state = "pending" /\ ~later[b].consumed
          /\ later[b].file = "gone" => later[b].state = "consumed"
          /\ later[b].state = "pending" <=> later[b].work = "none"
          /\ later[b].state # "pending" => later[b].consumed
          /\ later[b].state = "consumed" => later[b].work = "accepted"
    BY <1>2, <2>2, <2>3 DEF QueueOK
  <2>8. \A b, c \in DOMAIN later : later[b].step = later[c].step => b = c
    BY <2>2, <2>3 DEF QueueOK
  <2>9. QueueOK(later)
    BY <2>2, <2>5, <2>6, <2>7, <2>8 DEF QueueOK
  <2>10. Grows(list, later)
    BY <1>2, <2>2, <2>3 DEF Grows
  <2>11. ~force => Unforced(list, later)
    BY <1>2 DEF Unforced
  <2>12. Awaited(later)
    BY <1>2, <2>2, <2>3 DEF Awaited
  <2>13. QED BY <2>2, <2>9, <2>10, <2>11, <2>12
<1>3. QED BY <1>1, <1>2, PromoteIs

\* A promotion that is forced leaves nothing queued beside nothing pending.
LEMMA PromoteForced ==
  ASSUME NEW list, QueueOK(list), In(list, "pending") = {}
  PROVE  In(Promote(list, TRUE), "pending") # {} \/ In(list, "queued") = {}
<1>1. SUFFICES ASSUME In(list, "queued") # {} PROVE In(Promote(list, TRUE), "pending") # {}
  OBVIOUS
<1>2. PICK a \in DOMAIN list : Promote(list, TRUE) = [list EXCEPT ![a].file = "pending"]
  BY <1>1, PromoteIs
<1>3. list \in Seq(Acts) /\ list[a] \in Acts
  BY ListFacts DEF QueueOK
<1>4. a \in In(Promote(list, TRUE), "pending")
  BY <1>2, <1>3 DEF In, Acts
<1>5. QED BY <1>4

----------------------------------------------------------------------------
(* A batch of steps                                                         *)

\* An action that is running and has not been accepted: what is queued can wait for it.
Unaccepted(list) == \E r \in DOMAIN list : list[r].file = "running" /\ list[r].state # "consumed"

LEMMA GrowsUnaccepted ==
  ASSUME NEW list, NEW later, Grows(list, later), Unaccepted(list)
  PROVE  Unaccepted(later)
BY DEF Grows, Unaccepted

LEMMA UnforcedOn ==
  ASSUME NEW list, NEW next, NEW later, Grows(list, next), Grows(next, later),
         Unforced(list, next), Unforced(next, later)
  PROVE  Unforced(list, later)
BY GrowsRunning DEF Unforced

\* An action that is staged: a queue is one still, and what is trusted is awaited when it
\* can be promoted or is behind one that has not been accepted.
LEMMA AppendOK ==
  ASSUME NEW list, QueueOK(list), NEW step \in Steps, NEW trusted \in BOOLEAN, ~Known(list, step)
  PROVE  LET later == Append(list, Retained(step, trusted))
         IN /\ QueueOK(later) /\ Grows(list, later) /\ Known(later, step)
            /\ In(later, "pending") = In(list, "pending")
            /\ Awaited(list) /\ (~trusted \/ Unaccepted(list)) => Awaited(later)
            /\ In(later, "queued") # {}
<1> DEFINE later == Append(list, Retained(step, trusted))
           n == Len(list) + 1
<1>0. list \in Seq(Acts) /\ Len(list) \in Nat /\ DOMAIN list = 1 .. Len(list)
      /\ \A a \in DOMAIN list : a \in Nat /\ list[a] \in Acts
  BY ListFacts DEF QueueOK
<1>1. Retained(step, trusted) \in Acts
  BY DEF Acts, Retained
<1>2. /\ later \in Seq(Acts) /\ DOMAIN later = DOMAIN list \cup {n} /\ n \notin DOMAIN list
      /\ \A a \in DOMAIN list : later[a] = list[a] /\ a < n
      /\ later[n] = Retained(step, trusted)
  BY <1>0, <1>1
<1>3. /\ later[n].step = step /\ later[n].trusted = trusted /\ later[n].file = "queued"
      /\ ~later[n].consumed /\ later[n].state = "pending" /\ later[n].work = "none"
  BY <1>2 DEF Retained
<1>4. n \in Nat
  BY <1>0
<1> HIDE DEF later, n
<1>5. \A a, b \in DOMAIN later : later[a].step = later[b].step => a = b
  BY <1>2, <1>3 DEF QueueOK, Known
<1>6. \A a, b \in DOMAIN later :
        a < b /\ later[b].file # "queued" => a \in DOMAIN list /\ b \in DOMAIN list
  BY <1>0, <1>2, <1>3, <1>4
<1>7. \A a, b \in DOMAIN later : a < b /\ later[b].file # "queued" => later[a].file \in {"running", "gone"}
  BY <1>2, <1>6 DEF QueueOK
<1>8. \A a, b \in DOMAIN later :
        a < b /\ later[b].file \in {"running", "gone"} => later[a].state = "consumed"
  BY <1>2, <1>6 DEF QueueOK
<1>9. \A a \in DOMAIN later :
        /\ later[a].file \in {"queued", "pending"} => later[a].state = "pending" /\ ~later[a].consumed
        /\ later[a].file = "gone" => later[a].state = "consumed"
        /\ later[a].state = "pending" <=> later[a].work = "none"
        /\ later[a].state # "pending" => later[a].consumed
        /\ later[a].state = "consumed" => later[a].work = "accepted"
  BY <1>2, <1>3 DEF QueueOK
<1>10. QueueOK(later)
  BY <1>2, <1>5, <1>7, <1>8, <1>9 DEF QueueOK
<1>11. Grows(list, later)
  BY <1>2, <1>3 DEF Grows
<1>12. In(later, "pending") = In(list, "pending") /\ In(later, "queued") # {}
  <2>1. \A a : a \in In(later, "pending") <=> a \in In(list, "pending")
    BY <1>2, <1>3 DEF In
  <2>2. n \in In(later, "queued")
    BY <1>2, <1>3 DEF In
  <2>3. QED BY <2>1, <2>2
<1>13. Known(later, step)
  BY <1>2, <1>3 DEF Known
<1>14. Awaited(list) /\ (~trusted \/ Unaccepted(list)) => Awaited(later)
  BY <1>2, <1>3 DEF Awaited, Unaccepted
<1>15. QED BY <1>10, <1>11, <1>12, <1>13, <1>14 DEF later

\* recordRetainedAction.
LEMMA RecordOneOK ==
  ASSUME NEW list, QueueOK(list), NEW step \in Steps, NEW trusted \in BOOLEAN
  PROVE  LET later == RecordOne(list, step, trusted)
         IN /\ QueueOK(later) /\ Grows(list, later) /\ Unforced(list, later) /\ Known(later, step)
            /\ Awaited(list) /\ (~trusted \/ Unaccepted(list)) => Awaited(later)
<1>0. list \in Seq(Acts)
  BY DEF QueueOK
<1>1. CASE Known(list, step)
  BY <1>0, <1>1, GrowsItself DEF RecordOne
<1>2. CASE ~Known(list, step)
  <2> DEFINE staged == Append(list, Retained(step, trusted))
             later == Promote(staged, FALSE)
  <2>1. /\ QueueOK(staged) /\ Grows(list, staged) /\ Known(staged, step)
        /\ In(staged, "pending") = In(list, "pending")
        /\ Awaited(list) /\ (~trusted \/ Unaccepted(list)) => Awaited(staged)
    BY <1>2, AppendOK
  <2>2. RecordOne(list, step, trusted) = later
    BY <1>2 DEF RecordOne
  <2> HIDE DEF staged
  <2>3. /\ QueueOK(later) /\ Grows(staged, later) /\ Unforced(staged, later)
        /\ Awaited(staged) => Awaited(later)
    BY <2>1, PromoteOK
  <2> HIDE DEF later
  <2>4. Grows(list, later) /\ Known(later, step)
    BY <2>1, <2>3, GrowsOn, GrowsKnown
  <2>5. Unforced(list, later)
    <3>1. Unforced(list, staged)
      BY <2>1 DEF Unforced
    <3>2. QED BY <2>1, <2>3, <3>1, UnforcedOn
  <2>6. QED BY <2>1, <2>2, <2>3, <2>4, <2>5
<1>3. QED BY <1>1, <1>2

\* The list after each of the first k steps.
Course(f, list, steps, trusted, k) ==
  f = [i \in 0 .. k |-> IF i = 0 THEN list ELSE RecordOne(f[i - 1], steps[i], trusted)]

LEMMA CourseExists ==
  ASSUME NEW list, NEW steps, NEW trusted, NEW k \in Nat
  PROVE  \E f : Course(f, list, steps, trusted, k)
<1> DEFINE T == {n \in Nat : ~ \E f : Course(f, list, steps, trusted, n)}
<1>1. ASSUME T # {}
      PROVE  FALSE
  <2>1. PICK x \in T : \A y \in T : x <= y
    BY <1>1, LeastNumber
  <2>2. x # 0
    <3> DEFINE g == [n \in 0 .. 0 |-> list]
    <3>1. g = [n \in 0 .. 0 |-> IF n = 0 THEN list ELSE RecordOne(g[n - 1], steps[n], trusted)]
      OBVIOUS
    <3>2. Course(g, list, steps, trusted, 0)
      BY <3>1 DEF Course
    <3>3. QED BY <2>1, <3>2
  <2>3. x \in Nat /\ x - 1 \in Nat /\ x - 1 < x
    BY <2>1, <2>2
  <2>4. PICK f : Course(f, list, steps, trusted, x - 1)
    BY <2>1, <2>3
  <2> DEFINE g == [n \in 0 .. x |-> IF n = x THEN RecordOne(f[x - 1], steps[x], trusted) ELSE f[n]]
  <2>5. \A n \in 0 .. x - 1 :
          f[n] = IF n = 0 THEN list ELSE RecordOne(f[n - 1], steps[n], trusted)
    BY <2>4 DEF Course
  <2>6. \A n \in 0 .. x : g[n] = IF n = 0 THEN list ELSE RecordOne(g[n - 1], steps[n], trusted)
    <3>1. SUFFICES ASSUME NEW n \in 0 .. x
                   PROVE  g[n] = IF n = 0 THEN list ELSE RecordOne(g[n - 1], steps[n], trusted)
      OBVIOUS
    <3>2. CASE n = x
      <4>1. g[n] = RecordOne(f[x - 1], steps[x], trusted) /\ g[n - 1] = f[x - 1] /\ n # 0
        BY <2>2, <2>3, <3>2
      <4>2. QED BY <3>2, <4>1
    <3>3. CASE n # x
      <4>1. n \in 0 .. x - 1 /\ g[n] = f[n]
        BY <2>3, <3>1, <3>3
      <4>2. n # 0 => g[n - 1] = f[n - 1]
        BY <2>3, <3>1, <3>3
      <4>3. QED BY <2>5, <4>1, <4>2
    <3>4. QED BY <3>2, <3>3
  <2>7. g = [n \in 0 .. x |-> IF n = 0 THEN list ELSE RecordOne(g[n - 1], steps[n], trusted)]
    <3>1. g = [n \in 0 .. x |-> g[n]]
      OBVIOUS
    <3> HIDE DEF g
    <3>2. QED BY <2>6, <3>1
  <2> HIDE DEF g
  <2>8. Course(g, list, steps, trusted, x)
    BY <2>7 DEF Course
  <2>9. QED BY <2>1, <2>8
<1>2. QED BY <1>1

\* A batch that is recorded: every step of it is known, and the queue is as good as before.
LEMMA RecordedOK ==
  ASSUME NEW list, QueueOK(list), NEW steps \in Seq(Steps), NEW trusted \in BOOLEAN
  PROVE  LET later == Recorded(list, steps, trusted)
         IN /\ QueueOK(later) /\ Grows(list, later) /\ Unforced(list, later)
            /\ \A s \in ToSet(steps) : Known(later, s)
            /\ Awaited(list) /\ (~trusted \/ Unaccepted(list)) => Awaited(later)
<1>0. Len(steps) \in Nat /\ \A i \in 1 .. Len(steps) : steps[i] \in Steps
  OBVIOUS
<1> DEFINE after == CHOOSE f : Course(f, list, steps, trusted, Len(steps))
<1>1. Recorded(list, steps, trusted) = after[Len(steps)]
  BY DEF Recorded, Course
<1>2. Course(after, list, steps, trusted, Len(steps))
  BY <1>0, CourseExists
<1> HIDE DEF after
<1>3. after[0] = list /\ \A i \in 1 .. Len(steps) : after[i] = RecordOne(after[i - 1], steps[i], trusted)
  BY <1>0, <1>2 DEF Course
<1> DEFINE Good(i) ==
      /\ QueueOK(after[i]) /\ Grows(list, after[i]) /\ Unforced(list, after[i])
      /\ \A j \in 1 .. i : Known(after[i], steps[j])
      /\ Awaited(list) /\ (~trusted \/ Unaccepted(list)) => Awaited(after[i])
<1> DEFINE T == {i \in 0 .. Len(steps) : ~Good(i)}
<1>4. Good(0)
  BY <1>3, GrowsItself DEF QueueOK
<1>5. ASSUME NEW i \in 1 .. Len(steps), Good(i - 1)
      PROVE  Good(i)
  <2> DEFINE last == after[i - 1]
  <2>1. /\ QueueOK(last) /\ Grows(list, last) /\ Unforced(list, last)
        /\ \A j \in 1 .. i - 1 : Known(last, steps[j])
        /\ Awaited(list) /\ (~trusted \/ Unaccepted(list)) => Awaited(last)
    BY <1>5
  <2>2. after[i] = RecordOne(last, steps[i], trusted) /\ steps[i] \in Steps
    BY <1>0, <1>3, <1>5
  <2> HIDE DEF last
  <2>3. /\ QueueOK(after[i]) /\ Grows(last, after[i]) /\ Unforced(last, after[i])
        /\ Known(after[i], steps[i])
        /\ Awaited(last) /\ (~trusted \/ Unaccepted(last)) => Awaited(after[i])
    BY <2>1, <2>2, RecordOneOK
  <2>4. Grows(list, after[i]) /\ Unforced(list, after[i])
    BY <2>1, <2>3, GrowsOn, UnforcedOn
  <2>5. \A j \in 1 .. i : Known(after[i], steps[j])
    <3>1. SUFFICES ASSUME NEW j \in 1 .. i PROVE Known(after[i], steps[j])
      OBVIOUS
    <3>2. CASE j = i
      BY <2>3, <3>2
    <3>3. CASE j # i
      <4>1. j \in 1 .. i - 1
        BY <3>1, <3>3, <1>5
      <4>2. QED BY <2>1, <2>3, <4>1, GrowsKnown
    <3>4. QED BY <3>2, <3>3
  <2>6. Unaccepted(list) => Unaccepted(last)
    BY <2>1, GrowsUnaccepted
  <2>7. QED BY <2>1, <2>3, <2>4, <2>5, <2>6
<1> HIDE DEF Good
<1>6. ASSUME T # {} PROVE FALSE
  <2>1. T \subseteq Nat
    BY <1>0
  <2>2. PICK x \in T : \A y \in T : x <= y
    BY <1>6, <2>1, LeastNumber
  <2>3. x \in 0 .. Len(steps) /\ ~Good(x)
    BY <2>2
  <2>4. x \in 1 .. Len(steps) /\ x - 1 \in 0 .. Len(steps) /\ x - 1 < x
    BY <1>0, <1>4, <2>3
  <2>5. x - 1 \notin T
    BY <2>2, <2>4
  <2>6. Good(x - 1)
    BY <2>4, <2>5
  <2>7. QED BY <1>5, <2>3, <2>4, <2>6
<1>7. Good(Len(steps))
  <2>1. Len(steps) \in 0 .. Len(steps)
    BY <1>0
  <2>2. QED BY <1>6, <2>1
<1>8. \A s \in ToSet(steps) : \E j \in 1 .. Len(steps) : s = steps[j]
  BY DEF ToSet
<1>9. QED BY <1>1, <1>7, <1>8 DEF Good

----------------------------------------------------------------------------
(* One action changes                                                       *)

\* later is list but for the action a, which is of the same step.
Changed(list, later, a) ==
  /\ later \in Seq(Acts) /\ DOMAIN later = DOMAIN list /\ a \in DOMAIN list
  /\ \A b \in DOMAIN list : b # a => later[b] = list[b]
  /\ later[a].step = list[a].step /\ later[a].trusted = list[a].trusted

\* later is list with the record r for the action a.
Puts(list, later, a, r) ==
  later = [list EXCEPT ![a] = r]

\* Where the follow-up of a running action can stand.
Standings == Busy \cup {"accepted", "failed"}

\* later is list with the follow-up of the action a at work.
PutsWork(list, later, a, work) ==
  later = [list EXCEPT ![a].work = work]

LEMMA SetRecord ==
  ASSUME NEW list \in Seq(Acts), NEW a \in DOMAIN list, NEW r \in Acts,
         r.step = list[a].step, r.trusted = list[a].trusted,
         NEW later, Puts(list, later, a, r)
  PROVE  Changed(list, later, a) /\ later[a] = r
BY DEF Changed, Puts

\* A file that moves.
LEMMA SetFile ==
  ASSUME NEW list \in Seq(Acts), NEW a \in DOMAIN list, NEW file \in {"queued", "pending", "running", "gone"}
  PROVE  LET later == [list EXCEPT ![a].file = file]
         IN /\ Changed(list, later, a)
            /\ later[a].file = file /\ later[a].consumed = list[a].consumed
            /\ later[a].state = list[a].state /\ later[a].work = list[a].work
<1> DEFINE r == [list[a] EXCEPT !.file = file]
<1>1. list[a] \in Acts
  OBVIOUS
<1>2. file \in {"queued", "pending", "running", "gone"}
  OBVIOUS
<1>3. /\ r \in Acts /\ r.step = list[a].step /\ r.trusted = list[a].trusted
      /\ r.file = file /\ r.consumed = list[a].consumed
      /\ r.state = list[a].state /\ r.work = list[a].work
  BY ONLY <1>1, <1>2 DEF Acts, Busy
<1>4. [list EXCEPT ![a].file = file] = [list EXCEPT ![a] = r]
  OBVIOUS
<1> HIDE DEF r
<1>5. Changed(list, [list EXCEPT ![a] = r], a) /\ [list EXCEPT ![a] = r][a] = r
  BY <1>3, SetRecord DEF Puts
<1>6. QED BY <1>3, <1>4, <1>5

\* The time of an action that is up.
LEMMA SetExpired ==
  ASSUME NEW list \in Seq(Acts), NEW a \in DOMAIN list
  PROVE  LET later == [list EXCEPT ![a].expired = TRUE]
         IN /\ Changed(list, later, a)
            /\ later[a].file = list[a].file /\ later[a].consumed = list[a].consumed
            /\ later[a].state = list[a].state /\ later[a].work = list[a].work
<1> DEFINE r == [list[a] EXCEPT !.expired = TRUE]
<1>1. list[a] \in Acts
  OBVIOUS
<1>3. /\ r \in Acts /\ r.step = list[a].step /\ r.trusted = list[a].trusted
      /\ r.file = list[a].file /\ r.consumed = list[a].consumed
      /\ r.state = list[a].state /\ r.work = list[a].work
  BY ONLY <1>1 DEF Acts, Busy
<1>4. [list EXCEPT ![a].expired = TRUE] = [list EXCEPT ![a] = r]
  OBVIOUS
<1> HIDE DEF r
<1>5. Changed(list, [list EXCEPT ![a] = r], a) /\ [list EXCEPT ![a] = r][a] = r
  BY <1>3, SetRecord DEF Puts
<1>6. QED BY <1>3, <1>4, <1>5

\* The mark of an action.
LEMMA SetMarked ==
  ASSUME NEW list \in Seq(Acts), NEW a \in DOMAIN list
  PROVE  LET later == [list EXCEPT ![a].consumed = TRUE]
         IN /\ Changed(list, later, a)
            /\ later[a].file = list[a].file /\ later[a].consumed = TRUE
            /\ later[a].state = list[a].state /\ later[a].work = list[a].work
<1> DEFINE r == [list[a] EXCEPT !.consumed = TRUE]
<1>1. list[a] \in Acts
  OBVIOUS
<1>3. /\ r \in Acts /\ r.step = list[a].step /\ r.trusted = list[a].trusted
      /\ r.file = list[a].file /\ r.consumed = TRUE
      /\ r.state = list[a].state /\ r.work = list[a].work
  BY ONLY <1>1 DEF Acts, Busy
<1>4. [list EXCEPT ![a].consumed = TRUE] = [list EXCEPT ![a] = r]
  OBVIOUS
<1> HIDE DEF r
<1>5. Changed(list, [list EXCEPT ![a] = r], a) /\ [list EXCEPT ![a] = r][a] = r
  BY <1>3, SetRecord DEF Puts
<1>6. QED BY <1>3, <1>4, <1>5

\* A follow-up that moves.
LEMMA SetWork ==
  ASSUME NEW list \in Seq(Acts), NEW a \in DOMAIN list, NEW work \in Standings,
         NEW later, PutsWork(list, later, a, work)
  PROVE  /\ Changed(list, later, a)
         /\ later[a].file = list[a].file /\ later[a].consumed = list[a].consumed
         /\ later[a].state = list[a].state /\ later[a].work = work
<1> DEFINE r == [list[a] EXCEPT !.work = work]
<1>1. list[a] \in Acts
  OBVIOUS
<1>2. work \in Busy \cup {"accepted", "failed"}
  BY DEF Standings
<1>3. /\ r \in Acts /\ r.step = list[a].step /\ r.trusted = list[a].trusted
      /\ r.file = list[a].file /\ r.consumed = list[a].consumed
      /\ r.state = list[a].state /\ r.work = work
  BY ONLY <1>1, <1>2 DEF Acts, Busy
<1>4. Puts(list, later, a, r)
  BY DEF Puts, PutsWork
<1> HIDE DEF r
<1>5. Changed(list, later, a) /\ later[a] = r
  BY <1>3, <1>4, SetRecord
<1>6. QED BY <1>3, <1>5

\* A call that is counted.
LEMMA SetCalls ==
  ASSUME NEW list \in Seq(Acts), NEW a \in DOMAIN list, NEW calls \in Nat
  PROVE  LET later == [list EXCEPT ![a].calls = calls]
         IN /\ Changed(list, later, a)
            /\ later[a].file = list[a].file /\ later[a].consumed = list[a].consumed
            /\ later[a].state = list[a].state /\ later[a].work = list[a].work
<1> DEFINE r == [list[a] EXCEPT !.calls = calls]
<1>1. list[a] \in Acts
  OBVIOUS
<1>2. calls \in Nat
  OBVIOUS
<1>3. /\ r \in Acts /\ r.step = list[a].step /\ r.trusted = list[a].trusted
      /\ r.file = list[a].file /\ r.consumed = list[a].consumed
      /\ r.state = list[a].state /\ r.work = list[a].work
  BY ONLY <1>1, <1>2 DEF Acts, Busy
<1>4. [list EXCEPT ![a].calls = calls] = [list EXCEPT ![a] = r]
  OBVIOUS
<1> HIDE DEF r
<1>5. Changed(list, [list EXCEPT ![a] = r], a) /\ [list EXCEPT ![a] = r][a] = r
  BY <1>3, SetRecord DEF Puts
<1>6. QED BY <1>3, <1>4, <1>5

\* A change that a queue allows: the file goes on when it may, and the rest fits together.
LEMMA ChangeOK ==
  ASSUME NEW list, QueueOK(list), NEW later, NEW a, Changed(list, later, a),
         list[a].state = "consumed" => later[a].state = "consumed",
         \/ later[a].file = list[a].file
         \/ /\ list[a].file = "pending" /\ later[a].file = "running"
            /\ \A b \in DOMAIN list : b < a => list[b].state = "consumed"
         \/ list[a].file = "running" /\ later[a].file = "gone",
         later[a].file \in {"queued", "pending"} => later[a].state = "pending" /\ ~later[a].consumed,
         later[a].file = "gone" => later[a].state = "consumed",
         later[a].state = "pending" <=> later[a].work = "none",
         later[a].state # "pending" => later[a].consumed,
         later[a].state = "consumed" => later[a].work = "accepted"
  PROVE  QueueOK(later)
<1>0. /\ later \in Seq(Acts) /\ DOMAIN later = DOMAIN list /\ a \in DOMAIN list
      /\ \A b \in DOMAIN list : b # a => later[b] = list[b]
      /\ later[a].step = list[a].step
      /\ \A b \in DOMAIN list : b \in Nat
  BY ListFacts DEF Changed, QueueOK
<1>1. \A b, c \in DOMAIN later : later[b].step = later[c].step => b = c
  BY <1>0 DEF QueueOK
<1>2. ASSUME NEW b \in DOMAIN list, NEW c \in DOMAIN list, b < c, later[c].file # "queued"
      PROVE  later[b].file \in {"running", "gone"}
  <2>1. list[c].file # "queued"
    BY <1>0, <1>2
  <2>2. list[b].file \in {"running", "gone"}
    BY <1>2, <2>1 DEF QueueOK
  <2>3. QED BY <1>0, <2>2
<1>3. ASSUME NEW b \in DOMAIN list, NEW c \in DOMAIN list, b < c, later[c].file \in {"running", "gone"}
      PROVE  later[b].state = "consumed"
  <2>1. list[b].state = "consumed"
    <3>1. CASE list[c].file \in {"running", "gone"}
      BY <1>3, <3>1 DEF QueueOK
    <3>2. CASE list[c].file \notin {"running", "gone"}
      BY <1>0, <1>3, <3>2
    <3>3. QED BY <3>1, <3>2
  <2>2. QED BY <1>0, <2>1
<1>4. \A b \in DOMAIN later :
       /\ later[b].file \in {"queued", "pending"} => later[b].state = "pending" /\ ~later[b].consumed
       /\ later[b].file = "gone" => later[b].state = "consumed"
       /\ later[b].state = "pending" <=> later[b].work = "none"
       /\ later[b].state # "pending" => later[b].consumed
       /\ later[b].state = "consumed" => later[b].work = "accepted"
  <2>1. SUFFICES ASSUME NEW b \in DOMAIN list
        PROVE /\ later[b].file \in {"queued", "pending"} => later[b].state = "pending" /\ ~later[b].consumed
              /\ later[b].file = "gone" => later[b].state = "consumed"
              /\ later[b].state = "pending" <=> later[b].work = "none"
              /\ later[b].state # "pending" => later[b].consumed
              /\ later[b].state = "consumed" => later[b].work = "accepted"
    BY <1>0
  <2>2. CASE b = a
    BY <2>2
  <2>3. CASE b # a
    BY <1>0, <2>3 DEF QueueOK
  <2>4. QED BY <2>2, <2>3
<1>5. QED BY <1>0, <1>1, <1>2, <1>3, <1>4 DEF QueueOK

\* What is awaited is awaited on, unless the change takes what it waits for.
LEMMA ChangeAwaited ==
  ASSUME NEW list, Awaited(list), NEW later, NEW a, Changed(list, later, a),
         later[a].file = "queued" => list[a].file = "queued",
         \/ list[a].file = "pending" => later[a].file = "pending"
         \/ later[a].file = "running" /\ later[a].state # "consumed",
         list[a].file = "running" /\ list[a].state # "consumed" =>
           later[a].file = "running" /\ later[a].state # "consumed"
  PROVE  Awaited(later)
BY DEF Changed, Awaited

\* At most one follow-up is under way, of an action that is running and not accepted.
LEMMA OneBusy ==
  ASSUME QueueOK(actions), NEW a \in DOMAIN actions, actions[a].work \in Busy
  PROVE  /\ actions[a].state \in {"active", "failed"} /\ actions[a].file = "running"
         /\ actions[a].consumed
         /\ \A b \in DOMAIN actions : actions[b].work \in Busy => b = a
<1>1. ASSUME NEW b \in DOMAIN actions, actions[b].work \in Busy
      PROVE  actions[b].state \in {"active", "failed"} /\ actions[b].file = "running" /\ actions[b].consumed
  <2>1. actions[b] \in Acts /\ actions[b].work # "none" /\ actions[b].work # "accepted"
    BY <1>1, ListFacts DEF QueueOK, Busy
  <2>2. actions[b].state # "pending" /\ actions[b].state # "consumed"
    BY <2>1 DEF QueueOK
  <2>3. actions[b].file # "queued" /\ actions[b].file # "pending" /\ actions[b].file # "gone"
    BY <2>2 DEF QueueOK
  <2>4. actions[b].consumed
    BY <2>2 DEF QueueOK
  <2>5. QED BY <2>1, <2>2, <2>3, <2>4 DEF Acts
<1>2. ASSUME NEW b \in DOMAIN actions, actions[b].work \in Busy
      PROVE  b = a
  <2>1. a \in Nat /\ b \in Nat
    BY ListFacts DEF QueueOK
  <2>2. ~(a < b) /\ ~(b < a)
    BY <1>1, <1>2 DEF QueueOK
  <2>3. QED BY <2>1, <2>2
<1>3. QED BY <1>1, <1>2

----------------------------------------------------------------------------
(* What the wrappers know                                                   *)

Wrappers == [at : Places, action : Nat, attempt : Nat, drained : Nat]

\* Marks, files and completions are as they were, but for what is staged or promoted.
Alike(list, later) ==
  /\ \A a \in DOMAIN list :
       /\ a \in DOMAIN later
       /\ later[a].consumed = list[a].consumed /\ later[a].state = list[a].state
       /\ later[a].file = list[a].file \/ (list[a].file = "queued" /\ later[a].file = "pending")
  /\ \A a \in DOMAIN later \ DOMAIN list : later[a].file \in {"queued", "pending"}

LEMMA AlikeRunning ==
  ASSUME NEW list, NEW later, Alike(list, later)
  PROVE  In(later, "running") = In(list, "running")
<1>1. \A a \in In(later, "running") : a \in In(list, "running")
  BY DEF Alike, In
<1>2. \A a \in In(list, "running") : a \in In(later, "running")
  BY DEF Alike, In
<1>3. QED BY <1>1, <1>2

LEMMA WrappersKept ==
  ASSUME ReportsOK, HoldsOK, LookingOK, Alike(actions, actions'), Unforced(actions, actions'),
         UNCHANGED <<wrapper, sent, held>>
  PROVE  ReportsOK' /\ HoldsOK' /\ LookingOK'
<1>1. ReportsOK'
  BY DEF ReportsOK, Alike
<1>2. HoldsOK'
  BY DEF HoldsOK, Alike, At, Holding
<1>3. LookingOK'
  <2>1. In(actions', "running") = In(actions, "running")
    BY AlikeRunning
  <2>2. \A r \in In(actions, "running") : actions'[r].state = actions[r].state
    BY DEF Alike, In
  <2>3. In(actions', "pending") # {} => In(actions, "pending") # {} \/ In(actions', "running") = {}
    BY <2>1 DEF Unforced
  <2>4. QED BY <2>1, <2>2, <2>3 DEF LookingOK
<1>4. QED BY <1>1, <1>2, <1>3

\* What the follow-ups have come to is kept while none of them moves, but for one that begins.
LEMMA FollowedKept ==
  ASSUME QueueOK(actions), FollowedOK, CheckpointFirst, UNCHANGED coordinator, kept \subseteq kept',
         \A a \in DOMAIN actions :
           /\ a \in DOMAIN actions' /\ actions'[a].step = actions[a].step
           /\ \/ actions'[a].work = actions[a].work
              \/ actions[a].work = "none" /\ actions'[a].work = "start",
         \A a \in DOMAIN actions' \ DOMAIN actions : actions'[a].work = "none"
  PROVE  FollowedOK' /\ CheckpointFirst'
<1>1. CheckpointFirst'
  BY DEF CheckpointFirst
<1>2. \A s \in coordinator'.done : \E a \in DOMAIN actions' : actions'[a].step = s /\ actions'[a].work # "none"
  BY DEF FollowedOK
<1>3. ASSUME NEW a \in DOMAIN actions', NEW op, op = actions'[a].step, NEW work, work = actions'[a].work
      PROVE  /\ work \in Busy /\ op \in coordinator'.done => coordinator'.offer = Follow[op]
             /\ work = "accepted" /\ op \notin Free =>
                  op \in coordinator'.done /\ \A s \in ToSet(Follow[op]) : Known(actions', s)
             /\ work = "join" => op = "inspect"
             /\ work = "checkpoint" => op \in Commitments /\ (op = "acceptance" => "proposal" \in kept')
             /\ work = "submit" => op \in Signed /\ (op \in Commitments => op \in coordinator'.checkpoints)
             /\ work = "advance" => op = "register" \/ (op \in Signed /\ op \in coordinator'.done)
             /\ work = "verify" => op = "verify-certificate"
  <2>1. CASE a \notin DOMAIN actions
    BY <1>3, <2>1 DEF Busy
  <2>2. CASE a \in DOMAIN actions /\ actions[a].work = "none" /\ work = "start"
    <3>1. op \notin coordinator.done
      <4>1. SUFFICES ASSUME op \in coordinator.done PROVE FALSE
        OBVIOUS
      <4>2. PICK b \in DOMAIN actions : actions[b].step = op /\ actions[b].work # "none"
        BY <4>1 DEF FollowedOK
      <4>3. b = a
        BY <1>3, <2>2, <4>2 DEF QueueOK
      <4>4. QED BY <2>2, <4>2, <4>3
    <3>2. QED BY <2>2, <3>1 DEF Busy
  <2>3. CASE a \in DOMAIN actions /\ work = actions[a].work
    <3>1. op = actions[a].step
      BY <1>3, <2>3
    <3>2. \A s : Known(actions, s) => Known(actions', s)
      BY DEF Known
    <3>3. /\ work \in Busy /\ op \in coordinator.done => coordinator.offer = Follow[op]
          /\ work = "accepted" /\ op \notin Free =>
               op \in coordinator.done /\ \A s \in ToSet(Follow[op]) : Known(actions, s)
          /\ work = "join" => op = "inspect"
          /\ work = "checkpoint" => op \in Commitments /\ (op = "acceptance" => "proposal" \in kept)
          /\ work = "submit" => op \in Signed /\ (op \in Commitments => op \in coordinator.checkpoints)
          /\ work = "advance" => op = "register" \/ (op \in Signed /\ op \in coordinator.done)
          /\ work = "verify" => op = "verify-certificate"
      BY <2>3, <3>1 DEF FollowedOK
    <3>4. QED BY <3>2, <3>3
  <2>4. QED BY <1>3, <2>1, <2>2, <2>3
<1>4. QED BY <1>1, <1>2, <1>3 DEF FollowedOK

\* What Grows says of all that.
LEMMA GrowsAlike ==
  ASSUME NEW list, NEW later, Grows(list, later)
  PROVE  Alike(list, later)
BY DEF Grows, Alike

LEMMA WrapperFacts ==
  ASSUME RecorderOK, NEW w \in Callers
  PROVE  /\ wrapper[w] \in Wrappers /\ Idle \in Wrappers
         /\ \A place \in Places : Go(w, place) =>
              /\ wrapper' \in [Callers -> Wrappers] /\ wrapper'[w].at = place
              /\ wrapper'[w].action = wrapper[w].action /\ wrapper'[w].attempt = wrapper[w].attempt
              /\ \A v \in Callers : v # w => wrapper'[v] = wrapper[v]
         /\ Stop(w) =>
              /\ wrapper' \in [Callers -> Wrappers] /\ wrapper'[w] = Idle /\ wrapper'[w].at = "idle"
              /\ \A v \in Callers : v # w => wrapper'[v] = wrapper[v]
<1>1. wrapper \in [Callers -> Wrappers] /\ wrapper[w] \in Wrappers
  BY DEF RecorderOK, Wrappers
<1>2. Idle \in Wrappers /\ Idle.at = "idle"
  BY DEF Idle, Wrappers, Places
<1>3. ASSUME NEW place \in Places, Go(w, place)
      PROVE  /\ wrapper' \in [Callers -> Wrappers] /\ wrapper'[w].at = place
             /\ wrapper'[w].action = wrapper[w].action /\ wrapper'[w].attempt = wrapper[w].attempt
             /\ \A v \in Callers : v # w => wrapper'[v] = wrapper[v]
  <2> DEFINE r == [wrapper[w] EXCEPT !.at = place]
  <2>1. r \in Wrappers /\ r.at = place /\ r.action = wrapper[w].action /\ r.attempt = wrapper[w].attempt
    BY ONLY <1>1, <1>3 DEF Wrappers
  <2>2. wrapper' = [wrapper EXCEPT ![w] = r]
    BY <1>3 DEF Go
  <2> HIDE DEF r
  <2>3. QED BY <1>1, <2>1, <2>2
<1>4. Stop(w) =>
        /\ wrapper' \in [Callers -> Wrappers] /\ wrapper'[w] = Idle /\ wrapper'[w].at = "idle"
        /\ \A v \in Callers : v # w => wrapper'[v] = wrapper[v]
  BY <1>1, <1>2 DEF Stop
<1>5. QED BY <1>1, <1>2, <1>3, <1>4

\* A wrapper that stops leaves its running file and its reports.
LEMMA StopOK ==
  ASSUME ReportsOK, HoldsOK, LookingOK, RecorderOK, NEW w \in Callers, Stop(w),
         actions' = actions, sent' \subseteq sent, held' = held
  PROVE  ReportsOK' /\ HoldsOK' /\ LookingOK' /\ wrapper' \in [Callers -> Wrappers]
<1>1. /\ wrapper' \in [Callers -> Wrappers] /\ wrapper'[w].at = "idle"
      /\ \A v \in Callers : v # w => wrapper'[v] = wrapper[v]
  BY WrapperFacts
<1>2. ReportsOK'
  BY DEF ReportsOK
<1>3. HoldsOK'
  BY <1>1 DEF HoldsOK, At, Holding
<1>4. LookingOK'
  BY <1>1 DEF LookingOK, Looking
<1>5. QED BY <1>1, <1>2, <1>3, <1>4

----------------------------------------------------------------------------
(* The steps of the wrappers                                                *)

\* A step that leaves the actions and their follow-ups alone.
LEMMA QuietOK ==
  ASSUME IInv, UNCHANGED continuationVars, wrapper' \in [Callers -> Wrappers],
         sent' \in SUBSET Reports, held' \in SUBSET Reports, ReportsOK', HoldsOK', LookingOK'
  PROVE  IInv'
<1>1. UNCHANGED <<actions, bound, kept, coordinator>>
  BY DEF continuationVars
<1>2. RecorderOK'
  BY <1>1 DEF IInv, RecorderOK, Wrappers
<1>3. QueueOK(actions') /\ Awaited(actions')
  BY <1>1 DEF IInv
<1>4. FollowedOK' /\ CheckpointFirst'
  BY <1>1 DEF IInv, FollowedOK, CheckpointFirst, Known
<1>5. QED BY <1>2, <1>3, <1>4 DEF IInv

LEMMA CallStep ==
  ASSUME IInv, NEW w \in Callers, Call(w)
  PROVE  IInv'
<1>1. /\ wrapper' \in [Callers -> Wrappers] /\ wrapper'[w].at = "look"
      /\ \A v \in Callers : v # w => wrapper'[v] = wrapper[v]
  BY WrapperFacts DEF IInv, Call, Places
<1>2. UNCHANGED continuationVars /\ UNCHANGED <<sent, held, actions>>
  BY DEF Call, continuationVars
<1>3. ReportsOK'
  BY <1>2 DEF IInv, ReportsOK
<1>4. HoldsOK'
  BY <1>1, <1>2 DEF IInv, HoldsOK, At, Holding
<1>5. LookingOK'
  BY <1>1, <1>2 DEF IInv, LookingOK, Looking
<1>6. QED BY <1>1, <1>2, <1>3, <1>4, <1>5, QuietOK DEF IInv, RecorderOK

LEMMA StopQuietly ==
  ASSUME IInv, NEW w \in Callers, Stop(w), UNCHANGED continuationVars, sent' \subseteq sent,
         held' = held
  PROVE  IInv'
<1>1. actions' = actions
  BY DEF continuationVars
<1>2. ReportsOK' /\ HoldsOK' /\ LookingOK' /\ wrapper' \in [Callers -> Wrappers]
  BY <1>1, StopOK DEF IInv
<1>3. QED BY <1>2, QuietOK DEF IInv, RecorderOK

LEMMA LookStep ==
  ASSUME IInv, NEW w \in Callers, Look(w)
  PROVE  IInv'
<1>1. UNCHANGED continuationVars /\ UNCHANGED <<sent, held, actions>>
  BY DEF Look, continuationVars
<1>2. CASE In(actions, "running") = {} /\ Go(w, "pick")
  <2>1. /\ wrapper' \in [Callers -> Wrappers] /\ wrapper'[w].at = "pick"
        /\ \A v \in Callers : v # w => wrapper'[v] = wrapper[v]
    BY <1>2, WrapperFacts DEF IInv, Places, Looking
  <2>2. ReportsOK'
    BY <1>1 DEF IInv, ReportsOK
  <2>3. HoldsOK'
    BY <1>1, <2>1 DEF IInv, HoldsOK, At, Holding
  <2>4. LookingOK'
    BY <1>1, <1>2, <2>1 DEF IInv, LookingOK, Looking
  <2>5. QED BY <1>1, <2>1, <2>2, <2>3, <2>4, QuietOK DEF IInv, RecorderOK
<1>3. CASE Stop(w)
  BY <1>1, <1>3, StopQuietly
<1>4. QED BY <1>2, <1>3 DEF Look

LEMMA PickStep ==
  ASSUME IInv, NEW w \in Callers, Pick(w)
  PROVE  IInv'
<1>1. UNCHANGED continuationVars /\ UNCHANGED <<sent, held, actions>>
  BY DEF Pick, continuationVars
<1>2. ASSUME NEW a \in DOMAIN actions, In(actions, "pending") = {a},
             wrapper' = [wrapper EXCEPT ![w].at = "claim", ![w].action = a]
      PROVE  IInv'
  <2>0. wrapper \in [Callers -> Wrappers] /\ wrapper[w] \in Wrappers /\ a \in Nat
    BY <1>2, ListFacts DEF IInv, RecorderOK, Wrappers, QueueOK
  <2> DEFINE r == [wrapper[w] EXCEPT !.at = "claim", !.action = a]
  <2>1. r \in Wrappers /\ r.at = "claim" /\ r.action = a
    BY ONLY <2>0 DEF Wrappers, Places, Looking
  <2>2. wrapper' = [wrapper EXCEPT ![w] = r]
    BY <1>2
  <2> HIDE DEF r
  <2>3. /\ wrapper' \in [Callers -> Wrappers] /\ wrapper'[w].at = "claim" /\ wrapper'[w].action = a
        /\ \A v \in Callers : v # w => wrapper'[v] = wrapper[v]
    BY <2>0, <2>1, <2>2
  <2>4. At(w, "pick")
    BY DEF Pick
  <2>5. ReportsOK'
    BY <1>1 DEF IInv, ReportsOK
  <2>6. HoldsOK'
    BY <1>1, <1>2, <2>3 DEF IInv, HoldsOK, At, Holding
  <2>7. LookingOK'
    <3>1. \A v \in Callers : wrapper'[v].at \in Looking <=> wrapper[v].at \in Looking
      BY <2>3, <2>4 DEF Looking, At
    <3>2. QED BY <1>1, <3>1 DEF IInv, LookingOK
  <2>8. QED BY <1>1, <2>3, <2>5, <2>6, <2>7, QuietOK DEF IInv, RecorderOK
<1>3. CASE Stop(w)
  BY <1>1, <1>3, StopQuietly
<1>4. QED BY <1>2, <1>3 DEF Pick

LEMMA HelperEndsStep ==
  ASSUME IInv, NEW w \in Callers, HelperEnds(w)
  PROVE  IInv'
<1>1. UNCHANGED continuationVars /\ UNCHANGED <<sent, held, actions>> /\ At(w, "helping")
  BY DEF HelperEnds, continuationVars
<1>2. CASE wrapper' = [wrapper EXCEPT ![w].at = "send", ![w].attempt = 1]
  <2>0. wrapper \in [Callers -> Wrappers] /\ wrapper[w] \in Wrappers
    BY DEF IInv, RecorderOK, Wrappers
  <2> DEFINE r == [wrapper[w] EXCEPT !.at = "send", !.attempt = 1]
  <2>1. r \in Wrappers /\ r.at = "send" /\ r.action = wrapper[w].action /\ r.attempt = 1
    BY ONLY <2>0 DEF Wrappers, Places, Holding
  <2>2. wrapper' = [wrapper EXCEPT ![w] = r]
    BY <1>2
  <2> HIDE DEF r
  <2>3. /\ wrapper' \in [Callers -> Wrappers] /\ wrapper'[w].at = "send"
        /\ wrapper'[w].action = wrapper[w].action
        /\ \A v \in Callers : v # w => wrapper'[v] = wrapper[v]
    BY <2>0, <2>1, <2>2
  <2>4. \A c \in sent \cup held : c.action # wrapper[w].action
    BY <1>1 DEF IInv, HoldsOK, At, Holding
  <2>5. ReportsOK'
    BY <1>1 DEF IInv, ReportsOK
  <2>6. HoldsOK'
    BY <1>1, <2>3, <2>4 DEF IInv, HoldsOK, At, Holding
  <2>7. LookingOK'
    BY <1>1, <2>3 DEF IInv, LookingOK, Looking, At
  <2>8. QED BY <1>1, <2>3, <2>5, <2>6, <2>7, QuietOK DEF IInv, RecorderOK
<1>3. CASE Stop(w)
  BY <1>1, <1>3, StopQuietly
<1>4. QED BY <1>2, <1>3 DEF HelperEnds

LEMMA SendStep ==
  ASSUME IInv, NEW w \in Callers, Send(w)
  PROVE  IInv'
<1> DEFINE c == [action |-> wrapper[w].action, attempt |-> wrapper[w].attempt]
<1>1. UNCHANGED continuationVars /\ UNCHANGED <<held, actions>> /\ At(w, "send") /\ sent' = sent \cup {c}
  BY DEF Send, continuationVars
<1>2. /\ wrapper' \in [Callers -> Wrappers] /\ wrapper'[w].at = "await"
      /\ wrapper'[w].action = wrapper[w].action /\ wrapper'[w].attempt = wrapper[w].attempt
      /\ \A v \in Callers : v # w => wrapper'[v] = wrapper[v]
  BY WrapperFacts DEF IInv, Send, Places, Holding
<1>3. wrapper[w] \in Wrappers
  BY WrapperFacts DEF IInv
<1>4. c \in Reports /\ c.action = wrapper[w].action /\ c.attempt = wrapper[w].attempt
      /\ wrapper[w].attempt \in Nat
  BY <1>3 DEF Reports, Wrappers
<1> HIDE DEF c
<1>5. /\ c.action \in DOMAIN actions /\ actions[c.action].file = "running" /\ actions[c.action].consumed
      /\ \A d \in sent \cup held : d.action = c.action => d.attempt < c.attempt
  BY <1>1, <1>4 DEF IInv, HoldsOK, At, Holding
<1>6. ReportsOK'
  BY <1>1, <1>5 DEF IInv, ReportsOK
<1>7. HoldsOK'
  <2>1. \A v \in Callers : v # w /\ wrapper[v].at \in Holding => wrapper[v].action # c.action
    BY <1>1, <1>4 DEF IInv, HoldsOK, At, Holding
  <2>2. \A d \in sent' \cup held' : d.action = wrapper'[w].action => d.attempt <= wrapper'[w].attempt
    <3>1. SUFFICES ASSUME NEW d \in sent' \cup held', d.action = c.action
                   PROVE  d.attempt <= c.attempt
      BY <1>2, <1>4
    <3>2. CASE d = c
      BY <1>4, <3>2
    <3>3. CASE d # c
      <4>1. d \in sent \cup held /\ d \in Reports
        BY <1>1, <3>1, <3>3 DEF IInv, RecorderOK
      <4>2. QED BY <1>4, <1>5, <3>1, <4>1 DEF Reports
    <3>4. QED BY <3>2, <3>3
  <2>3. QED BY <1>1, <1>2, <1>5, <2>1, <2>2 DEF IInv, HoldsOK, At, Holding
<1>8. LookingOK'
  BY <1>1, <1>2 DEF IInv, LookingOK, Looking
<1>9. sent' \in SUBSET Reports /\ held' \in SUBSET Reports
  BY <1>1, <1>4 DEF IInv, RecorderOK
<1>10. QED BY <1>1, <1>2, <1>6, <1>7, <1>8, <1>9, QuietOK

LEMMA RetryStep ==
  ASSUME IInv, NEW w \in Callers, Retry(w)
  PROVE  IInv'
<1>1. UNCHANGED continuationVars /\ UNCHANGED <<held, actions>> /\ wrapper[w].at \in {"send", "await"}
      /\ sent' \subseteq sent
  BY DEF Retry, continuationVars
<1>2. CASE wrapper' = [wrapper EXCEPT ![w].at = "send", ![w].attempt = @ + 1]
  <2>0. wrapper \in [Callers -> Wrappers] /\ wrapper[w] \in Wrappers
    BY DEF IInv, RecorderOK, Wrappers
  <2>9. PICK n \in Nat : n = wrapper[w].attempt + 1 /\ wrapper[w].attempt \in Nat
    BY <2>0 DEF Wrappers
  <2> DEFINE r == [wrapper[w] EXCEPT !.at = "send", !.attempt = n]
  <2>10. n \in Nat
    OBVIOUS
  <2>1. r \in Wrappers /\ r.at = "send" /\ r.action = wrapper[w].action /\ r.attempt = n
    BY ONLY <2>0, <2>10 DEF Wrappers, Places, Holding
  <2>2. wrapper' = [wrapper EXCEPT ![w] = r]
    BY <1>2, <2>9
  <2> HIDE DEF r
  <2>3. /\ wrapper' \in [Callers -> Wrappers] /\ wrapper'[w].at = "send"
        /\ wrapper'[w].action = wrapper[w].action /\ wrapper'[w].attempt = wrapper[w].attempt + 1
        /\ \A v \in Callers : v # w => wrapper'[v] = wrapper[v]
    BY <2>0, <2>1, <2>2, <2>9
  <2>4. ASSUME NEW c \in sent \cup held, c.action = wrapper[w].action
        PROVE  c.attempt < wrapper[w].attempt + 1
    <3>1. c.attempt \in Nat
      BY DEF IInv, RecorderOK, Reports
    <3>2. c.attempt <= wrapper[w].attempt \/ c.attempt < wrapper[w].attempt
      BY <1>1, <2>4 DEF IInv, HoldsOK, Holding, At
    <3>3. QED BY <2>9, <3>1, <3>2
  <2>5. ReportsOK'
    BY <1>1 DEF IInv, ReportsOK
  <2>6. HoldsOK'
    BY <1>1, <2>3, <2>4 DEF IInv, HoldsOK, At, Holding
  <2>7. LookingOK'
    BY <1>1, <2>3 DEF IInv, LookingOK, Looking, At
  <2>8. QED BY <1>1, <2>3, <2>5, <2>6, <2>7, QuietOK DEF IInv, RecorderOK
<1>3. CASE Stop(w)
  BY <1>1, <1>3, StopQuietly
<1>4. QED BY <1>2, <1>3 DEF Retry

\* A running file is of an action the wrapper found alone pending: those before it have
\* been accepted.
LEMMA ClaimStep ==
  ASSUME IInv, NEW w \in Callers, Claim(w)
  PROVE  IInv'
<1> DEFINE a == wrapper[w].action
<1>1. UNCHANGED <<bound, kept, coordinator, sent, held>> /\ At(w, "claim")
  BY DEF Claim
<1>2. CASE actions[a].file = "pending" /\ actions' = [actions EXCEPT ![a].file = "running"] /\ Go(w, "mark")
  <2>0. a \in DOMAIN actions
    BY <1>1 DEF IInv, HoldsOK, At
  <2>1. actions \in Seq(Acts) /\ QueueOK(actions) /\ \A b \in DOMAIN actions : b \in Nat
    BY ListFacts DEF IInv, QueueOK
  <2>2. /\ Changed(actions, actions', a) /\ actions'[a].file = "running"
        /\ actions'[a].consumed = actions[a].consumed /\ actions'[a].state = actions[a].state
        /\ actions'[a].work = actions[a].work
    BY <1>2, <2>0, <2>1, SetFile
  <2>3. actions[a].state = "pending" /\ ~actions[a].consumed /\ actions[a].work = "none"
    BY <1>2, <2>0, <2>1 DEF QueueOK
  <2>4. \A r \in In(actions, "running") : actions[r].state = "consumed"
    <3>1. wrapper[w].at \in Looking /\ a \in In(actions, "pending")
      BY <1>1, <1>2, <2>0 DEF At, Looking, In
    <3>2. QED BY <3>1 DEF IInv, LookingOK
  <2>5. \A b \in DOMAIN actions : b < a => actions[b].state = "consumed"
    <3>1. SUFFICES ASSUME NEW b \in DOMAIN actions, b < a PROVE actions[b].state = "consumed"
      OBVIOUS
    <3>2. actions[b].file \in {"running", "gone"}
      BY <1>2, <2>0, <2>1, <3>1 DEF QueueOK
    <3>3. CASE actions[b].file = "running"
      BY <2>4, <3>3 DEF In
    <3>4. CASE actions[b].file = "gone"
      BY <2>1, <3>4 DEF QueueOK
    <3>5. QED BY <3>2, <3>3, <3>4
  <2>6. QueueOK(actions')
    <3>1. actions[a].state = "consumed" => actions'[a].state = "consumed"
      BY <2>2, <2>3
    <3>2. QED BY <1>2, <2>1, <2>2, <2>3, <2>5, <3>1, ChangeOK
  <2>7. Awaited(actions')
    BY <1>2, <2>2, <2>3, ChangeAwaited DEF IInv
  <2>8. In(actions', "pending") = {}
    <3>1. SUFFICES ASSUME NEW b \in DOMAIN actions, actions'[b].file = "pending" PROVE FALSE
      BY <2>2 DEF In, Changed
    <3>2. b # a /\ actions[b].file = "pending"
      BY <2>2, <3>1 DEF Changed
    <3>3. b < a \/ a < b
      BY <2>0, <2>1, <3>2
    <3>4. QED BY <1>2, <2>0, <2>1, <3>2, <3>3 DEF QueueOK
  <2>9. /\ wrapper' \in [Callers -> Wrappers] /\ wrapper'[w].at = "mark"
        /\ wrapper'[w].action = a
        /\ \A v \in Callers : v # w => wrapper'[v] = wrapper[v]
    BY <1>2, WrapperFacts DEF IInv, Places, Holding
  <2>10. \A v \in Callers : wrapper[v].at \in Holding => wrapper[v].action # a
    BY <1>2 DEF IInv, HoldsOK
  <2>11. \A c \in sent \cup held : c.action # a
    BY <1>2 DEF IInv, ReportsOK
  <2> HIDE DEF a
  <2>12. /\ DOMAIN actions' = DOMAIN actions
         /\ \A b \in DOMAIN actions : b # a => actions'[b] = actions[b]
         /\ actions'[a].step = actions[a].step
    BY <2>2 DEF Changed
  <2>13. ReportsOK'
    BY <1>1, <2>11, <2>12 DEF IInv, ReportsOK
  <2>14. HoldsOK'
    <3>1. ASSUME NEW v \in Callers, v # w
          PROVE  /\ ~At(v, "idle")' /\ ~At(v, "look")' /\ ~At(v, "pick")' => wrapper'[v].action \in DOMAIN actions'
                 /\ wrapper'[v].at \in Holding =>
                      /\ actions'[wrapper'[v].action].file = "running"
                      /\ wrapper'[v].at \in {"mark", "helping"} => actions'[wrapper'[v].action].state = "pending"
                      /\ wrapper'[v].at # "mark" => actions'[wrapper'[v].action].consumed
                      /\ At(v, "print")' => actions'[wrapper'[v].action].state = "consumed"
                      /\ \A c \in sent' \cup held' : c.action = wrapper'[v].action =>
                           /\ wrapper'[v].at \in {"send", "await"}
                           /\ IF At(v, "send")' THEN c.attempt < wrapper'[v].attempt ELSE c.attempt <= wrapper'[v].attempt
      <4>1. wrapper'[v] = wrapper[v] /\ sent' = sent /\ held' = held
        BY <1>1, <2>9, <3>1
      <4>2. wrapper[v].at \in Holding => actions'[wrapper[v].action] = actions[wrapper[v].action]
        BY <2>10, <2>12, <3>1 DEF IInv, HoldsOK, At, Holding
      <4>3. QED BY <2>12, <3>1, <4>1, <4>2 DEF IInv, HoldsOK, At
    <3>2. /\ a \in DOMAIN actions' /\ actions'[a].file = "running" /\ actions'[a].state = "pending"
      BY <2>0, <2>2, <2>3, <2>12
    <3>3. \A u, v \in Callers : wrapper'[u].at \in Holding /\ wrapper'[v].at \in Holding
                                /\ wrapper'[u].action = wrapper'[v].action => u = v
      BY <2>9, <2>10 DEF IInv, HoldsOK
    <3>4. QED BY <1>1, <2>9, <2>11, <3>1, <3>2, <3>3 DEF HoldsOK, At
  <2>15. LookingOK'
    <3>1. SUFFICES ASSUME NEW v \in Callers, wrapper'[v].at \in Looking
          PROVE  /\ \A r, s \in In(actions', "running") : r = s
                 /\ (\A u \in Callers : wrapper'[u].at \in Looking) => In(actions', "running") = {}
      BY <2>8 DEF LookingOK
    <3>2. v # w /\ wrapper[v].at \in Looking /\ wrapper'[w].at \notin Looking
      BY <2>9, <3>1 DEF Looking
    <3>3. \A u \in Callers : wrapper[u].at \in Looking
      <4>1. \A u \in Callers : u = v \/ u = w
        BY <3>1, <3>2, CallersAssumption
      <4>2. wrapper[w].at \in Looking
        BY <1>1 DEF At, Looking
      <4>3. QED BY <3>2, <4>1, <4>2
    <3>4. In(actions, "running") = {}
      BY <3>2, <3>3 DEF IInv, LookingOK
    <3>5. \A r \in In(actions', "running") : r = a
      BY <2>12, <3>4 DEF In
    <3>6. QED BY <3>2, <3>5
  <2>16. FollowedOK' /\ CheckpointFirst'
    <3>1. \A b \in DOMAIN actions :
           /\ b \in DOMAIN actions' /\ actions'[b].step = actions[b].step
           /\ actions'[b].work = actions[b].work
      BY <2>2, <2>12
    <3>2. \A b \in DOMAIN actions' \ DOMAIN actions : actions'[b].work = "none"
      BY <2>12
    <3>3. QED BY <1>1, <2>1, <3>1, <3>2, FollowedKept DEF IInv
  <2>17. RecorderOK'
    BY <1>1, <2>9 DEF IInv, RecorderOK, Wrappers
  <2>18. QED BY <2>6, <2>7, <2>13, <2>14, <2>15, <2>16, <2>17 DEF IInv
<1>3. CASE Stop(w) /\ UNCHANGED actions
  BY <1>1, <1>3, StopQuietly DEF continuationVars
<1>4. QED BY <1>2, <1>3 DEF Claim

\* A change of one action that moves no file and no completion.
LEMMA StillFollowed ==
  ASSUME IInv, UNCHANGED <<coordinator, kept>>, NEW a, Changed(actions, actions', a),
         actions'[a].work = actions[a].work
         \/ (actions[a].work = "none" /\ actions'[a].work = "start")
  PROVE  FollowedOK' /\ CheckpointFirst'
<1>1. \A b \in DOMAIN actions :
       /\ b \in DOMAIN actions' /\ actions'[b].step = actions[b].step
       /\ \/ actions'[b].work = actions[b].work
          \/ actions[b].work = "none" /\ actions'[b].work = "start"
  BY DEF Changed
<1>2. \A b \in DOMAIN actions' \ DOMAIN actions : actions'[b].work = "none"
  BY DEF Changed
<1>3. QED BY <1>1, <1>2, FollowedKept DEF IInv

\* The mark: with it the helper starts.
LEMMA MarkStep ==
  ASSUME IInv, NEW w \in Callers, Mark(w)
  PROVE  IInv'
<1> DEFINE a == wrapper[w].action
<1>1. /\ UNCHANGED <<bound, kept, coordinator, sent, held>> /\ At(w, "mark")
      /\ actions' = [actions EXCEPT ![a].consumed = TRUE] /\ Go(w, "helping")
  BY DEF Mark
<1>2. a \in DOMAIN actions /\ actions[a].file = "running" /\ actions[a].state = "pending"
  BY <1>1 DEF IInv, HoldsOK, At, Holding
<1>3. actions \in Seq(Acts) /\ QueueOK(actions)
  BY DEF IInv, QueueOK
<1>4. /\ Changed(actions, actions', a) /\ actions'[a].file = "running"
      /\ actions'[a].consumed /\ actions'[a].state = actions[a].state
      /\ actions'[a].work = actions[a].work
  BY <1>1, <1>2, <1>3, SetMarked
<1>5. actions[a].work = "none"
  BY <1>2, <1>3 DEF QueueOK
<1>6. QueueOK(actions')
  BY <1>2, <1>3, <1>4, <1>5, ChangeOK
<1>7. Awaited(actions')
  BY <1>2, <1>4, ChangeAwaited DEF IInv
<1>8. FollowedOK' /\ CheckpointFirst'
  BY <1>1, <1>4, StillFollowed
<1>9. /\ wrapper' \in [Callers -> Wrappers] /\ wrapper'[w].at = "helping"
      /\ wrapper'[w].action = a
      /\ \A v \in Callers : v # w => wrapper'[v] = wrapper[v]
  BY <1>1, WrapperFacts DEF IInv, Places, Holding
<1>10. \A c \in sent \cup held : c.action # a
  BY <1>1 DEF IInv, HoldsOK, At, Holding
<1>11. \A v \in Callers : v # w /\ wrapper[v].at \in Holding => wrapper[v].action # a
  BY <1>1 DEF IInv, HoldsOK, At, Holding
<1> HIDE DEF a
<1>12. /\ DOMAIN actions' = DOMAIN actions
       /\ \A b \in DOMAIN actions : b # a => actions'[b] = actions[b]
       /\ \A b \in DOMAIN actions : actions'[b].file = actions[b].file /\ actions'[b].state = actions[b].state
                                    /\ (actions[b].consumed => actions'[b].consumed)
  BY <1>2, <1>4 DEF Changed
<1>13. ReportsOK'
  BY <1>1, <1>12 DEF IInv, ReportsOK
<1>14. HoldsOK'
  BY <1>1, <1>2, <1>4, <1>9, <1>10, <1>11, <1>12 DEF IInv, HoldsOK, At, Holding
<1>15. LookingOK'
  <2>1. In(actions', "running") = In(actions, "running") /\ In(actions', "pending") = In(actions, "pending")
        /\ \A r \in In(actions, "running") : actions'[r].state = actions[r].state
    BY <1>12 DEF In
  <2>2. \A v \in Callers : wrapper'[v].at \in Looking <=> wrapper[v].at \in Looking
    BY <1>1, <1>9 DEF Looking, At
  <2>3. QED BY <2>1, <2>2 DEF IInv, LookingOK
<1>16. RecorderOK'
  BY <1>1, <1>9 DEF IInv, RecorderOK, Wrappers
<1>17. QED BY <1>6, <1>7, <1>8, <1>13, <1>14, <1>15, <1>16 DEF IInv

\* The end of a wrapper whose result was accepted: nobody waits for its running file.
LEMMA FinishStep ==
  ASSUME IInv, NEW w \in Callers, Finish(w)
  PROVE  IInv'
<1> DEFINE a == wrapper[w].action
<1>1. /\ UNCHANGED <<bound, kept, coordinator, sent, held>> /\ At(w, "print")
      /\ actions' = [actions EXCEPT ![a].file = "gone"]
  BY DEF Finish
<1>2. a \in DOMAIN actions /\ actions[a].file = "running" /\ actions[a].state = "consumed" /\ actions[a].consumed
  BY <1>1 DEF IInv, HoldsOK, At, Holding
<1>3. actions \in Seq(Acts) /\ QueueOK(actions)
  BY DEF IInv, QueueOK
<1>4. /\ Changed(actions, actions', a) /\ actions'[a].file = "gone"
      /\ actions'[a].consumed = actions[a].consumed /\ actions'[a].state = actions[a].state
      /\ actions'[a].work = actions[a].work
  BY <1>1, <1>2, <1>3, SetFile
<1>5. actions[a].work = "accepted"
  BY <1>2, <1>3 DEF QueueOK
<1>6. QueueOK(actions')
  BY <1>2, <1>3, <1>4, <1>5, ChangeOK
<1>7. Awaited(actions')
  BY <1>2, <1>4, ChangeAwaited DEF IInv
<1>8. FollowedOK' /\ CheckpointFirst'
  BY <1>1, <1>4, StillFollowed
<1>9. PICK n \in Nat : n = wrapper[w].drained + 1
  BY WrapperFacts DEF IInv, Wrappers
<1>10. wrapper \in [Callers -> Wrappers] /\ wrapper[w] \in Wrappers /\ Idle \in Wrappers
  BY WrapperFacts DEF IInv, RecorderOK, Wrappers
<1> DEFINE r == [Idle EXCEPT !.at = "look", !.drained = n]
<1>11. r \in Wrappers /\ r.at = "look"
  <2>1. n \in Nat
    OBVIOUS
  <2>2. QED BY ONLY <2>1 DEF Wrappers, Idle, Places
<1>12. wrapper' = [wrapper EXCEPT ![w] = r] \/ wrapper' = [wrapper EXCEPT ![w] = Idle]
  BY <1>9 DEF Finish
<1> HIDE DEF r
<1>13. /\ wrapper' \in [Callers -> Wrappers] /\ wrapper'[w].at \in {"look", "idle"}
       /\ \A v \in Callers : v # w => wrapper'[v] = wrapper[v]
  <2>1. Idle.at = "idle"
    BY DEF Idle
  <2>2. QED BY <1>10, <1>11, <1>12, <2>1
<1>14. \A c \in sent \cup held : c.action # a
  BY <1>1 DEF IInv, HoldsOK, At, Holding
<1>15. \A v \in Callers : v # w /\ wrapper[v].at \in Holding => wrapper[v].action # a
  BY <1>1 DEF IInv, HoldsOK, At, Holding
<1> HIDE DEF a
<1>16. DOMAIN actions' = DOMAIN actions /\ \A b \in DOMAIN actions : b # a => actions'[b] = actions[b]
  BY <1>4 DEF Changed
<1>17. ReportsOK'
  BY <1>1, <1>14, <1>16 DEF IInv, ReportsOK
<1>18. HoldsOK'
  BY <1>1, <1>13, <1>15, <1>16 DEF IInv, HoldsOK, At, Holding
<1>19. LookingOK'
  <2>1. \A v \in Callers : wrapper'[v].at \in Looking <=> wrapper[v].at \in Looking
    BY <1>1, <1>13 DEF Looking, At
  <2>2. In(actions', "running") \subseteq In(actions, "running")
        /\ \A b \in In(actions', "running") : actions'[b].state = actions[b].state
    BY <1>4, <1>16 DEF In
  <2>3. In(actions', "pending") = In(actions, "pending")
    BY <1>2, <1>4, <1>16 DEF In
  <2>4. QED BY <2>1, <2>2, <2>3 DEF IInv, LookingOK
<1>20. RecorderOK'
  BY <1>1, <1>13 DEF IInv, RecorderOK, Wrappers
<1>21. QED BY <1>6, <1>7, <1>8, <1>17, <1>18, <1>19, <1>20 DEF IInv

----------------------------------------------------------------------------
(* The socket                                                               *)

LEMMA ToldFacts ==
  ASSUME RecorderOK, NEW a, NEW answered, NEW accepted \in BOOLEAN, Told(a, answered, accepted)
  PROVE  /\ wrapper' \in [Callers -> Wrappers]
         /\ \A w \in Callers :
              \/ wrapper'[w] = wrapper[w]
              \/ /\ wrapper[w].at = "await"
                 /\ [action |-> wrapper[w].action, attempt |-> wrapper[w].attempt] \in answered
                 /\ \/ ~accepted /\ wrapper'[w].at = "idle"
                    \/ /\ accepted /\ wrapper'[w].at = "print" /\ wrapper'[w].action = wrapper[w].action
<1> DEFINE new(w) ==
      IF wrapper[w].at = "await" /\ [action |-> wrapper[w].action, attempt |-> wrapper[w].attempt] \in answered
      THEN IF accepted THEN [wrapper[w] EXCEPT !.at = "print"] ELSE Idle
      ELSE wrapper[w]
<1>1. wrapper' = [w \in Callers |-> new(w)]
  BY DEF Told
<1>2. ASSUME NEW w \in Callers
      PROVE  /\ new(w) \in Wrappers
             /\ \/ new(w) = wrapper[w]
                \/ /\ wrapper[w].at = "await"
                   /\ [action |-> wrapper[w].action, attempt |-> wrapper[w].attempt] \in answered
                   /\ \/ ~accepted /\ new(w).at = "idle"
                      \/ accepted /\ new(w).at = "print" /\ new(w).action = wrapper[w].action
  <2>1. wrapper[w] \in Wrappers /\ Idle \in Wrappers /\ Idle.at = "idle"
    BY WrapperFacts DEF Idle
  <2>2. /\ [wrapper[w] EXCEPT !.at = "print"] \in Wrappers
        /\ [wrapper[w] EXCEPT !.at = "print"].at = "print"
        /\ [wrapper[w] EXCEPT !.at = "print"].action = wrapper[w].action
    BY ONLY <2>1 DEF Wrappers, Places, Holding
  <2>3. QED BY <2>1, <2>2
<1> HIDE DEF new
<1>3. \A w \in Callers : wrapper'[w] = new(w)
  BY <1>1
<1>4. wrapper' \in [Callers -> Wrappers]
  BY <1>1, <1>2
<1>5. QED BY <1>2, <1>3, <1>4

\* Answers, to reports of a whose completion has ended: nothing else becomes of the actions
\* than that one may be promoted, and those who are answered leave no report.
Tells(a, answered, accepted) ==
  /\ Told(a, answered, accepted)
  /\ sent' \subseteq sent /\ held' \subseteq held
  /\ \A c \in held' : c.action # a
  /\ \A c \in answered : c.action = a
  /\ \A w \in Callers :
       /\ wrapper[w].at = "await"
       /\ [action |-> wrapper[w].action, attempt |-> wrapper[w].attempt] \in answered
       => \A c \in sent' : c.action # a
  /\ \A b \in DOMAIN actions :
       /\ b \in DOMAIN actions' /\ actions'[b].consumed = actions[b].consumed
       /\ actions'[b].file = actions[b].file
          \/ (actions[b].file = "queued" /\ actions'[b].file = "pending")
       /\ b # a => actions'[b].state = actions[b].state
  /\ \A b \in DOMAIN actions' : b \in DOMAIN actions
  /\ accepted => actions'[a].state = "consumed"
  /\ accepted \/ In(actions', "pending") = In(actions, "pending")
  /\ actions[a].file = "running" /\ actions[a].state # "pending"
  /\ actions[a].state = "consumed" => actions'[a].state = "consumed"

\* Whoever awaited one of the reports has its answer, and those left are nobody's.
LEMMA TellOK ==
  ASSUME RecorderOK, ReportsOK, HoldsOK, LookingOK,
         NEW a \in DOMAIN actions, NEW answered, NEW accepted \in BOOLEAN,
         Tells(a, answered, accepted)
  PROVE  ReportsOK' /\ HoldsOK' /\ LookingOK' /\ wrapper' \in [Callers -> Wrappers]
<1> USE DEF Tells
<1>1. /\ wrapper' \in [Callers -> Wrappers]
      /\ \A w \in Callers :
           \/ wrapper'[w] = wrapper[w]
           \/ /\ wrapper[w].at = "await"
              /\ [action |-> wrapper[w].action, attempt |-> wrapper[w].attempt] \in answered
              /\ wrapper[w].action = a
              /\ \/ ~accepted /\ wrapper'[w].at = "idle"
                 \/ accepted /\ wrapper'[w].at = "print" /\ wrapper'[w].action = a
  <2>1. \A w \in Callers : [action |-> wrapper[w].action, attempt |-> wrapper[w].attempt].action = wrapper[w].action
    OBVIOUS
  <2>2. QED BY <2>1, ToldFacts
<1>2. ReportsOK'
  <2>1. \A c \in sent' \cup held' : c \in sent \cup held
    OBVIOUS
  <2>2. \A c \in sent' \cup held' :
          c.action \in DOMAIN actions' /\ actions'[c.action].file = "running" /\ actions'[c.action].consumed
    BY <2>1 DEF ReportsOK
  <2>3. \A c \in held' : actions'[c.action].state = "active"
    BY DEF ReportsOK
  <2>4. \A c \in held', d \in sent' : c.action = d.action => c.attempt < d.attempt
    BY DEF ReportsOK
  <2>5. QED BY <2>2, <2>3, <2>4 DEF ReportsOK
<1>3. ASSUME NEW w \in Callers
      PROVE  /\ ~At(w, "idle")' /\ ~At(w, "look")' /\ ~At(w, "pick")' => wrapper'[w].action \in DOMAIN actions'
             /\ wrapper'[w].at \in Holding =>
                  /\ wrapper[w].at \in Holding /\ wrapper'[w].action = wrapper[w].action
                  /\ actions'[wrapper'[w].action].file = "running"
                  /\ wrapper'[w].at \in {"mark", "helping"} => actions'[wrapper'[w].action].state = "pending"
                  /\ wrapper'[w].at # "mark" => actions'[wrapper'[w].action].consumed
                  /\ At(w, "print")' => actions'[wrapper'[w].action].state = "consumed"
                  /\ \A c \in sent' \cup held' : c.action = wrapper'[w].action =>
                       /\ wrapper'[w].at \in {"send", "await"}
                       /\ IF At(w, "send")' THEN c.attempt < wrapper'[w].attempt ELSE c.attempt <= wrapper'[w].attempt
  <2>1. CASE wrapper'[w] = wrapper[w]
    <3>1. ~At(w, "idle")' /\ ~At(w, "look")' /\ ~At(w, "pick")' => wrapper'[w].action \in DOMAIN actions'
      BY <2>1 DEF HoldsOK, At
    <3>2. ASSUME wrapper[w].at \in Holding
          PROVE  /\ wrapper[w].action \in DOMAIN actions
                 /\ actions'[wrapper[w].action].file = "running"
                 /\ wrapper[w].at \in {"mark", "helping"} => actions'[wrapper[w].action].state = "pending"
                 /\ wrapper[w].at # "mark" => actions'[wrapper[w].action].consumed
                 /\ At(w, "print") => actions'[wrapper[w].action].state = "consumed"
      <4>1. /\ wrapper[w].action \in DOMAIN actions /\ actions[wrapper[w].action].file = "running"
            /\ wrapper[w].at \in {"mark", "helping"} => actions[wrapper[w].action].state = "pending"
            /\ wrapper[w].at # "mark" => actions[wrapper[w].action].consumed
            /\ At(w, "print") => actions[wrapper[w].action].state = "consumed"
        BY <3>2 DEF HoldsOK, At, Holding
      <4>2. QED BY <4>1
    <3>3. \A c \in sent' \cup held' : c \in sent \cup held
      OBVIOUS
    <3>4. wrapper[w].at \in Holding =>
            \A c \in sent' \cup held' : c.action = wrapper[w].action =>
                 /\ wrapper[w].at \in {"send", "await"}
                 /\ IF At(w, "send") THEN c.attempt < wrapper[w].attempt ELSE c.attempt <= wrapper[w].attempt
      BY <3>3 DEF HoldsOK
    <3>5. QED BY <2>1, <3>1, <3>2, <3>4 DEF At
  <2>2. CASE wrapper'[w].at = "idle"
    BY <2>2 DEF At, Holding
  <2>3. CASE /\ accepted /\ wrapper'[w].at = "print" /\ wrapper'[w].action = a /\ wrapper[w].action = a
             /\ wrapper[w].at = "await"
             /\ [action |-> wrapper[w].action, attempt |-> wrapper[w].attempt] \in answered
    <3>1. \A c \in sent' \cup held' : c.action # a
      BY <2>3
    <3>2. actions[a].consumed
      BY <2>3 DEF HoldsOK, Holding, At
    <3>3. QED BY <2>3, <3>1, <3>2 DEF At, Holding
  <2>4. QED BY <1>1, <2>1, <2>2, <2>3
<1>4. HoldsOK'
  <2>1. \A v, w \in Callers : wrapper'[v].at \in Holding /\ wrapper'[w].at \in Holding
                              /\ wrapper'[v].action = wrapper'[w].action => v = w
    BY <1>3 DEF HoldsOK
  <2>2. QED BY <1>3, <2>1 DEF HoldsOK
<1>5. LookingOK'
  <2>1. \A w \in Callers : wrapper'[w].at \in Looking <=> wrapper[w].at \in Looking
    BY <1>1 DEF Looking
  <2>2. In(actions', "running") = In(actions, "running")
    <3>1. \A b : b \in In(actions', "running") <=> b \in In(actions, "running")
      BY DEF In
    <3>2. QED BY <3>1
  <2>3. ASSUME NEW w \in Callers, wrapper[w].at \in Looking, In(actions', "pending") # {},
               NEW r \in In(actions, "running")
        PROVE  actions'[r].state = "consumed"
    <3>1. r \in DOMAIN actions
      BY <2>3 DEF In
    <3>2. a \in In(actions, "running")
      BY DEF In
    <3>3. r = a
      BY <2>3, <3>2 DEF LookingOK
    <3>4. CASE accepted
      BY <3>3, <3>4
    <3>5. CASE ~accepted
      <4>1. actions[a].state = "consumed"
        BY <2>3, <3>2, <3>5 DEF LookingOK
      <4>2. QED BY <3>3, <4>1
    <3>6. QED BY <3>4, <3>5
  <2>4. QED BY <2>1, <2>2, <2>3 DEF LookingOK
<1>6. QED BY <1>1, <1>2, <1>4, <1>5

\* A report is the same when its action and its attempt are.
LEMMA SameReport ==
  ASSUME NEW c \in Reports, NEW d \in Reports, c.action = d.action, c.attempt = d.attempt
  PROVE  c = d
BY DEF Reports

LEMMA ReceiveStep ==
  ASSUME IInv, Receive
  PROVE  IInv'
<1>1. PICK c \in sent :
        /\ \A d \in sent : d.action = c.action => c.attempt <= d.attempt
        /\ sent' = sent \ {c}
        /\ CASE actions[c.action].state = "pending" ->
                  /\ actions' = [actions EXCEPT ![c.action].state = "active", ![c.action].work = "start"]
                  /\ held' = held \cup {c} /\ UNCHANGED wrapper
             [] actions[c.action].state = "active" -> held' = held \cup {c} /\ UNCHANGED <<actions, wrapper>>
             [] actions[c.action].state = "consumed" ->
                  actions' = Promote(actions, TRUE) /\ Told(c.action, {c}, TRUE) /\ UNCHANGED held
             [] OTHER -> Told(c.action, {c}, FALSE) /\ UNCHANGED <<actions, held>>
        /\ UNCHANGED <<bound, kept, coordinator>>
  BY DEF Receive
<1> DEFINE a == c.action
<1>2. /\ a \in DOMAIN actions /\ actions[a].file = "running" /\ actions[a].consumed
      /\ actions \in Seq(Acts) /\ QueueOK(actions) /\ actions[a] \in Acts
      /\ c \in Reports /\ c.attempt \in Nat
  BY <1>1 DEF IInv, ReportsOK, QueueOK, RecorderOK, Reports
<1>3. \A d \in sent' : d.action = a => c.attempt < d.attempt
  <2>1. SUFFICES ASSUME NEW d \in sent, d # c, d.action = a PROVE c.attempt < d.attempt
    BY <1>1
  <2>2. d \in Reports /\ d.attempt \in Nat /\ c.attempt <= d.attempt
    BY <1>1, <2>1 DEF IInv, RecorderOK, Reports
  <2>3. c.attempt # d.attempt
    BY <1>2, <2>1, <2>2, SameReport
  <2>4. QED BY <1>2, <2>2, <2>3
<1>4. \A w \in Callers :
        /\ wrapper[w].at = "await"
        /\ [action |-> wrapper[w].action, attempt |-> wrapper[w].attempt] \in {c}
        => \A d \in sent' : d.action # a
  <2>1. SUFFICES ASSUME NEW w \in Callers, wrapper[w].at = "await",
                        [action |-> wrapper[w].action, attempt |-> wrapper[w].attempt] = c,
                        NEW d \in sent', d.action = a
                 PROVE  FALSE
    OBVIOUS
  <2>2. wrapper[w].action = a /\ wrapper[w].attempt = c.attempt
    BY <2>1
  <2>3. d \in sent /\ d.attempt <= c.attempt
    BY <1>1, <2>1, <2>2 DEF IInv, HoldsOK, Holding, At
  <2>4. d.attempt \in Nat /\ c.attempt < d.attempt
    BY <1>3, <2>1, <2>3 DEF IInv, RecorderOK, Reports
  <2>5. QED BY <1>2, <2>3, <2>4
<1>5. \A d \in {c} : d.action = a
  OBVIOUS
<1>6. sent' \in SUBSET Reports /\ sent' \subseteq sent
  BY <1>1 DEF IInv, RecorderOK
<1> HIDE DEF a
<1>7. CASE actions[a].state = "pending"
  <2>1. /\ actions' = [actions EXCEPT ![a].state = "active", ![a].work = "start"]
        /\ held' = held \cup {c} /\ UNCHANGED wrapper
    BY <1>1, <1>7 DEF a
  <2>2. /\ Changed(actions, actions', a) /\ actions'[a].file = "running"
        /\ actions'[a].consumed /\ actions'[a].state = "active"
        /\ actions'[a].work = "start"
    <3> DEFINE r == [actions[a] EXCEPT !.state = "active", !.work = "start"]
    <3>1. actions[a] \in Acts
      BY <1>2
    <3>2. /\ r \in Acts /\ r.step = actions[a].step /\ r.trusted = actions[a].trusted
          /\ r.file = actions[a].file /\ r.consumed = actions[a].consumed
          /\ r.state = "active" /\ r.work = "start"
      BY ONLY <3>1 DEF Acts
    <3>3. actions' = [actions EXCEPT ![a] = r]
      BY <2>1
    <3> HIDE DEF r
    <3>4. Puts(actions, actions', a, r)
      BY <3>3 DEF Puts
    <3>5. Changed(actions, actions', a) /\ actions'[a] = r
      <4>1. /\ actions \in Seq(Acts) /\ a \in DOMAIN actions
            /\ r \in Acts /\ r.step = actions[a].step /\ r.trusted = actions[a].trusted
        BY <1>2, <3>2
      <4>2. QED BY ONLY <3>4, <4>1, SetRecord
    <3>6. QED BY <1>2, <3>2, <3>5
  <2>3. actions[a].work = "none"
    BY <1>2, <1>7 DEF QueueOK
  <2>4. QueueOK(actions')
    BY <1>2, <1>7, <2>2, ChangeOK
  <2>5. Awaited(actions')
    BY <1>2, <2>2, ChangeAwaited DEF IInv
  <2>6. FollowedOK' /\ CheckpointFirst'
    BY <1>1, <2>2, <2>3, StillFollowed
  <2>7. /\ DOMAIN actions' = DOMAIN actions
        /\ \A b \in DOMAIN actions : b # a => actions'[b] = actions[b]
    BY <2>2 DEF Changed
  <2>8. ReportsOK'
    <3>1. \A d \in sent' \cup held' : d \in sent \cup held
      BY <1>1, <2>1
    <3>2. \A d \in sent' \cup held' :
            d.action \in DOMAIN actions' /\ actions'[d.action].file = "running" /\ actions'[d.action].consumed
      BY <1>2, <2>2, <2>7, <3>1 DEF IInv, ReportsOK
    <3>3. \A d \in held' : actions'[d.action].state = "active"
      BY <1>2, <1>5, <2>1, <2>2, <2>7 DEF IInv, ReportsOK
    <3>4. \A d \in held', e \in sent' : d.action = e.action => d.attempt < e.attempt
      <4>1. SUFFICES ASSUME NEW d \in held', NEW e \in sent', d.action = e.action PROVE d.attempt < e.attempt
        OBVIOUS
      <4>2. CASE d = c
        BY <1>3, <1>5, <4>1, <4>2
      <4>3. CASE d # c
        BY <1>6, <2>1, <4>1, <4>3 DEF IInv, ReportsOK
      <4>4. QED BY <4>2, <4>3
    <3>5. QED BY <3>2, <3>3, <3>4 DEF ReportsOK
  <2>9. HoldsOK'
    <3>1. \A d \in sent' \cup held' : d \in sent \cup held
      BY <1>1, <2>1
    <3>2. \A w \in Callers : wrapper[w].at \in {"mark", "helping", "print"} => wrapper[w].action # a
      <4>1. SUFFICES ASSUME NEW w \in Callers, wrapper[w].at \in {"mark", "helping", "print"}, wrapper[w].action = a
                     PROVE  FALSE
        OBVIOUS
      <4>2. c \in sent /\ c.action = wrapper[w].action
        BY <1>1, <1>5, <4>1
      <4>3. QED BY <4>1, <4>2 DEF IInv, HoldsOK, Holding
    <3>3. ASSUME NEW w \in Callers
          PROVE  /\ ~At(w, "idle") /\ ~At(w, "look") /\ ~At(w, "pick") => wrapper[w].action \in DOMAIN actions'
                 /\ wrapper[w].at \in Holding =>
                    /\ actions'[wrapper[w].action].file = "running"
                    /\ wrapper[w].at \in {"mark", "helping"} => actions'[wrapper[w].action].state = "pending"
                    /\ wrapper[w].at # "mark" => actions'[wrapper[w].action].consumed
                    /\ At(w, "print") => actions'[wrapper[w].action].state = "consumed"
                    /\ \A d \in sent' \cup held' : d.action = wrapper[w].action =>
                         /\ wrapper[w].at \in {"send", "await"}
                         /\ IF At(w, "send") THEN d.attempt < wrapper[w].attempt ELSE d.attempt <= wrapper[w].attempt
      <4>1. ~At(w, "idle") /\ ~At(w, "look") /\ ~At(w, "pick") => wrapper[w].action \in DOMAIN actions'
        BY <2>7 DEF IInv, HoldsOK
      <4>2. wrapper[w].at \in Holding =>
              /\ wrapper[w].action \in DOMAIN actions
              /\ actions[wrapper[w].action].file = "running"
              /\ wrapper[w].at \in {"mark", "helping"} => actions[wrapper[w].action].state = "pending"
              /\ wrapper[w].at # "mark" => actions[wrapper[w].action].consumed
              /\ At(w, "print") => actions[wrapper[w].action].state = "consumed"
              /\ \A d \in sent' \cup held' : d.action = wrapper[w].action =>
                   /\ wrapper[w].at \in {"send", "await"}
                   /\ IF At(w, "send") THEN d.attempt < wrapper[w].attempt ELSE d.attempt <= wrapper[w].attempt
        BY <3>1 DEF IInv, HoldsOK, Holding, At
      <4>3. CASE wrapper[w].action = a
        BY <2>2, <3>2, <4>1, <4>2, <4>3 DEF At
      <4>4. CASE wrapper[w].action # a
        BY <2>7, <4>1, <4>2, <4>4
      <4>5. QED BY <4>3, <4>4
    <3>4. QED BY <2>1, <3>3 DEF IInv, HoldsOK, At
  <2>10. LookingOK'
    <3>1. /\ In(actions', "running") = In(actions, "running")
          /\ In(actions', "pending") = In(actions, "pending")
      <4>1. \A b \in DOMAIN actions : actions'[b].file = actions[b].file
        BY <1>2, <2>2, <2>7
      <4>2. QED BY <2>7, <4>1 DEF In
    <3>2. a \in In(actions, "running")
      BY <1>2 DEF In
    <3>3. \A w \in Callers : wrapper[w].at \in Looking => In(actions, "pending") = {}
      BY <1>7, <3>2 DEF IInv, LookingOK
    <3>4. QED BY <2>1, <3>1, <3>3 DEF IInv, LookingOK
  <2>11. RecorderOK'
    BY <1>1, <1>2, <1>6, <2>1 DEF IInv, RecorderOK
  <2>12. QED BY <2>4, <2>5, <2>6, <2>8, <2>9, <2>10, <2>11 DEF IInv
<1>8. CASE actions[a].state = "active"
  <2>1. held' = held \cup {c} /\ UNCHANGED <<actions, wrapper>>
    BY <1>1, <1>8 DEF a
  <2>2. \A d \in sent' \cup held' : d \in sent \cup held
    BY <1>1, <2>1
  <2>3. ReportsOK'
    <3>1. \A d \in sent' \cup held' :
            d.action \in DOMAIN actions' /\ actions'[d.action].file = "running" /\ actions'[d.action].consumed
      BY <2>1, <2>2 DEF IInv, ReportsOK
    <3>2. \A d \in held' : actions'[d.action].state = "active"
      BY <1>5, <1>8, <2>1 DEF IInv, ReportsOK
    <3>3. \A d \in held', e \in sent' : d.action = e.action => d.attempt < e.attempt
      <4>1. SUFFICES ASSUME NEW d \in held', NEW e \in sent', d.action = e.action PROVE d.attempt < e.attempt
        OBVIOUS
      <4>2. CASE d = c
        BY <1>3, <1>5, <4>1, <4>2
      <4>3. CASE d # c
        BY <1>6, <2>1, <4>1, <4>3 DEF IInv, ReportsOK
      <4>4. QED BY <4>2, <4>3
    <3>4. QED BY <3>1, <3>2, <3>3 DEF ReportsOK
  <2>4. HoldsOK'
    BY <2>1, <2>2 DEF IInv, HoldsOK, At
  <2>5. LookingOK'
    BY <2>1 DEF IInv, LookingOK
  <2>6. UNCHANGED continuationVars /\ held' \in SUBSET Reports /\ wrapper' \in [Callers -> Wrappers]
    BY <1>1, <1>2, <2>1 DEF continuationVars, IInv, RecorderOK, Wrappers
  <2>7. QED BY <1>6, <2>3, <2>4, <2>5, <2>6, QuietOK
<1>9. \A d \in held : actions[a].state # "active" => d.action # a
  BY DEF IInv, ReportsOK
<1>10. CASE actions[a].state = "consumed"
  <2>1. actions' = Promote(actions, TRUE) /\ Told(a, {c}, TRUE) /\ UNCHANGED held
    BY <1>1, <1>10 DEF a
  <2>2. /\ QueueOK(actions') /\ Grows(actions, actions') /\ DOMAIN actions' = DOMAIN actions
        /\ Awaited(actions')
    BY <1>2, <2>1, PromoteOK
  <2>3. \A b \in DOMAIN actions :
          /\ b \in DOMAIN actions' /\ actions'[b].consumed = actions[b].consumed
          /\ actions'[b].file = actions[b].file
             \/ (actions[b].file = "queued" /\ actions'[b].file = "pending")
          /\ actions'[b].state = actions[b].state
          /\ actions'[b].step = actions[b].step /\ actions'[b].work = actions[b].work
    BY <2>2 DEF Grows
  <2>4. ReportsOK' /\ HoldsOK' /\ LookingOK' /\ wrapper' \in [Callers -> Wrappers]
    <3>1. \A d \in held' : d.action # a
      BY <1>9, <1>10, <2>1
    <3>2. /\ \A b \in DOMAIN actions' : b \in DOMAIN actions
          /\ actions'[a].state = "consumed" /\ held' \subseteq held
      BY <1>2, <1>10, <2>1, <2>2, <2>3
    <3>3. RecorderOK /\ ReportsOK /\ HoldsOK /\ LookingOK
      BY DEF IInv
    <3>4. actions[a].state # "pending"
      BY <1>10
    <3>5. Tells(a, {c}, TRUE)
      BY <1>2, <1>4, <1>5, <1>6, <2>1, <2>3, <3>1, <3>2, <3>4 DEF Tells
    <3>6. QED BY <1>2, <3>3, <3>5, TellOK
  <2>5. FollowedOK' /\ CheckpointFirst'
    <3>1. \A b \in DOMAIN actions' \ DOMAIN actions : actions'[b].work = "none"
      BY <2>2
    <3>2. QED BY <1>1, <1>2, <2>3, <3>1, FollowedKept DEF IInv
  <2>6. RecorderOK'
    BY <1>1, <1>6, <2>1, <2>4 DEF IInv, RecorderOK, Wrappers
  <2>7. QED BY <2>2, <2>4, <2>5, <2>6 DEF IInv
<1>11. CASE actions[a].state = "failed"
  <2>1. Told(a, {c}, FALSE) /\ UNCHANGED <<actions, held>>
    BY <1>1, <1>11 DEF a
  <2>2. ReportsOK' /\ HoldsOK' /\ LookingOK' /\ wrapper' \in [Callers -> Wrappers]
    <3>1. \A d \in held' : d.action # a
      BY <1>9, <1>11, <2>1
    <3>2. \A b \in DOMAIN actions :
            /\ b \in DOMAIN actions' /\ actions'[b].consumed = actions[b].consumed
            /\ actions'[b].file = actions[b].file
               \/ (actions[b].file = "queued" /\ actions'[b].file = "pending")
            /\ b # a => actions'[b].state = actions[b].state
      BY <2>1
    <3>3. RecorderOK /\ ReportsOK /\ HoldsOK /\ LookingOK
      BY DEF IInv
    <3>4. /\ \A b \in DOMAIN actions' : b \in DOMAIN actions
          /\ In(actions', "pending") = In(actions, "pending")
          /\ actions[a].state # "pending"
          /\ actions[a].state = "consumed" => actions'[a].state = "consumed"
          /\ held' \subseteq held
      BY <1>11, <2>1
    <3>5. Tells(a, {c}, FALSE)
      BY <1>2, <1>4, <1>5, <1>6, <2>1, <3>1, <3>2, <3>4 DEF Tells
    <3>6. QED BY <1>2, <3>3, <3>5, TellOK
  <2>3. UNCHANGED continuationVars /\ held' \in SUBSET Reports
    BY <1>1, <2>1 DEF continuationVars, IInv, RecorderOK
  <2>4. QED BY <1>6, <2>2, <2>3, QuietOK
<1>12. QED BY <1>2, <1>7, <1>8, <1>10, <1>11 DEF Acts

\* A completion that ends, accepted only with its follow-up.
LEMMA EndedOK ==
  ASSUME IInv, NEW a \in DOMAIN actions, actions[a].state = "active", NEW state \in {"consumed", "failed"},
         state = "consumed" => actions[a].work = "accepted",
         NEW ended, ended = [actions EXCEPT ![a].state = state]
  PROVE  /\ QueueOK(ended) /\ Changed(actions, ended, a)
         /\ ended[a].consumed = actions[a].consumed /\ ended[a].work = actions[a].work
         /\ actions[a].file = "running" /\ actions[a].work # "none" /\ actions[a].consumed
         /\ ended[a].file = "running" /\ ended[a].state = state
<1> DEFINE r == [actions[a] EXCEPT !.state = state]
<1>1. actions \in Seq(Acts) /\ QueueOK(actions) /\ actions[a] \in Acts /\ state \in {"consumed", "failed"}
  BY ListFacts DEF IInv, QueueOK
<1>2. actions[a].file = "running" /\ actions[a].work # "none" /\ actions[a].consumed
  <2>1. actions[a].file \in {"queued", "pending", "running", "gone"}
    BY <1>1 DEF Acts
  <2>2. QED BY <1>1, <2>1 DEF QueueOK
<1>3. /\ r \in Acts /\ r.step = actions[a].step /\ r.trusted = actions[a].trusted
      /\ r.file = actions[a].file /\ r.consumed = actions[a].consumed
      /\ r.state = state /\ r.work = actions[a].work
  BY ONLY <1>1 DEF Acts
<1>4. Puts(actions, ended, a, r)
  BY DEF Puts
<1> HIDE DEF r
<1>5. Changed(actions, ended, a) /\ ended[a] = r
  BY ONLY a \in DOMAIN actions, <1>1, <1>3, <1>4, SetRecord
<1>6. QueueOK(ended)
  BY <1>1, <1>2, <1>3, <1>5, ChangeOK
<1>7. QED BY <1>2, <1>3, <1>5, <1>6

\* The end of a completion: accepted only with its follow-up, and what waits is promoted
\* before anyone is answered.
LEMMA EndsStep ==
  ASSUME IInv, NEW a, NEW state \in {"consumed", "failed"}, Ends(a, state),
         state = "consumed" => actions[a].work = "accepted"
  PROVE  IInv'
<1> DEFINE ended == [actions EXCEPT ![a].state = state]
<1>1. /\ a \in DOMAIN actions /\ actions[a].state = "active"
      /\ actions' = IF state = "consumed" THEN Promote(ended, TRUE) ELSE ended
      /\ Told(a, Held(a), state = "consumed") /\ held' = held \ Held(a)
      /\ UNCHANGED <<bound, kept, coordinator, sent>>
  BY DEF Ends
<1>2. actions \in Seq(Acts) /\ QueueOK(actions)
  BY DEF IInv, QueueOK
<1>3. /\ QueueOK(ended) /\ Changed(actions, ended, a)
      /\ ended[a].consumed = actions[a].consumed /\ ended[a].work = actions[a].work
      /\ actions[a].file = "running" /\ actions[a].work # "none" /\ actions[a].consumed
      /\ ended[a].file = "running" /\ ended[a].state = state
  BY <1>1, EndedOK
<1> HIDE DEF ended
<1>6. /\ DOMAIN ended = DOMAIN actions
      /\ \A b \in DOMAIN actions : b # a => ended[b] = actions[b]
      /\ ended[a].step = actions[a].step
  BY <1>3 DEF Changed
<1>7. /\ QueueOK(actions') /\ Grows(ended, actions') /\ DOMAIN actions' = DOMAIN actions
      /\ Awaited(actions')
  <2>1. CASE state = "consumed"
    <3>1. actions' = Promote(ended, TRUE)
      BY <1>1, <2>1
    <3>2. QED BY <1>3, <1>6, <3>1, PromoteOK
  <2>2. CASE state = "failed"
    <3>1. actions' = ended
      BY <1>1, <2>2
    <3>2. Awaited(ended)
      BY <1>1, <1>3, <2>2, ChangeAwaited DEF IInv
    <3>3. Grows(ended, ended)
      BY <1>3, GrowsItself DEF QueueOK
    <3>4. QED BY <1>3, <1>6, <3>1, <3>2, <3>3
  <2>3. QED BY <2>1, <2>2
<1>8. ASSUME NEW b \in DOMAIN actions
      PROVE  /\ b \in DOMAIN actions' /\ actions'[b].consumed = actions[b].consumed
             /\ actions'[b].file = actions[b].file
                \/ (actions[b].file = "queued" /\ actions'[b].file = "pending")
             /\ b # a => actions'[b].state = actions[b].state
             /\ actions'[b].step = actions[b].step /\ actions'[b].work = actions[b].work
  <2>1. /\ b \in DOMAIN actions' /\ actions'[b].consumed = ended[b].consumed
        /\ actions'[b].file = ended[b].file
           \/ (ended[b].file = "queued" /\ actions'[b].file = "pending")
        /\ actions'[b].state = ended[b].state
        /\ actions'[b].step = ended[b].step /\ actions'[b].work = ended[b].work
    BY <1>6, <1>7, <1>8 DEF Grows
  <2>2. CASE b = a
    BY <1>3, <1>6, <2>1, <2>2
  <2>3. CASE b # a
    BY <1>6, <2>1, <2>3
  <2>4. QED BY <2>2, <2>3
<1>9. actions'[a].state = state
  BY <1>1, <1>3, <1>6, <1>7 DEF Grows
<1>10. ReportsOK' /\ HoldsOK' /\ LookingOK' /\ wrapper' \in [Callers -> Wrappers]
  <2> DEFINE accepted == state = "consumed"
  <2>1. accepted \in BOOLEAN /\ Told(a, Held(a), accepted)
    BY <1>1
  <2>2. /\ sent' \subseteq sent /\ held' \subseteq held
        /\ \A c \in held' : c.action # a
        /\ \A c \in Held(a) : c \in held /\ c.action = a
    BY <1>1 DEF Held
  <2>3. \A w \in Callers :
          /\ wrapper[w].at = "await"
          /\ [action |-> wrapper[w].action, attempt |-> wrapper[w].attempt] \in Held(a)
          => \A c \in sent' : c.action # a
    <3>1. SUFFICES ASSUME NEW w \in Callers, wrapper[w].at = "await", NEW c \in held,
                          [action |-> wrapper[w].action, attempt |-> wrapper[w].attempt] = c, c.action = a,
                          NEW d \in sent, d.action = a
                   PROVE  FALSE
      BY <1>1, <2>2
    <3>2. wrapper[w].action = a /\ wrapper[w].attempt = c.attempt
      BY <3>1
    <3>3. d.attempt <= c.attempt
      BY <3>1, <3>2 DEF IInv, HoldsOK, Holding, At
    <3>4. c.attempt < d.attempt
      BY <3>1 DEF IInv, ReportsOK
    <3>5. d.attempt \in Nat /\ c.attempt \in Nat
      BY <3>1 DEF IInv, RecorderOK, Reports
    <3>6. QED BY <3>3, <3>4, <3>5
  <2>4. accepted \/ In(actions', "pending") = In(actions, "pending")
    <3>1. SUFFICES ASSUME state = "failed" PROVE In(actions', "pending") = In(actions, "pending")
      OBVIOUS
    <3>2. actions' = ended
      BY <1>1, <3>1
    <3>3. \A b \in DOMAIN actions : ended[b].file = actions[b].file
      BY <1>3, <1>6
    <3>4. QED BY <1>6, <3>2, <3>3 DEF In
  <2>5. /\ accepted => actions'[a].state = "consumed"
        /\ actions[a].state # "pending"
        /\ actions[a].state = "consumed" => actions'[a].state = "consumed"
    BY <1>1, <1>9
  <2>6. RecorderOK /\ ReportsOK /\ HoldsOK /\ LookingOK
    BY DEF IInv
  <2>7. /\ \A b \in DOMAIN actions :
            /\ b \in DOMAIN actions' /\ actions'[b].consumed = actions[b].consumed
            /\ actions'[b].file = actions[b].file
               \/ (actions[b].file = "queued" /\ actions'[b].file = "pending")
            /\ b # a => actions'[b].state = actions[b].state
        /\ \A b \in DOMAIN actions' : b \in DOMAIN actions
    BY <1>7, <1>8
  <2> HIDE DEF accepted
  <2>8. Tells(a, Held(a), accepted)
    BY <1>1, <1>3, <2>1, <2>2, <2>3, <2>4, <2>5, <2>7 DEF Tells
  <2>9. QED BY <1>1, <2>1, <2>6, <2>8, TellOK
<1>11. FollowedOK' /\ CheckpointFirst'
  <2>1. \A b \in DOMAIN actions' \ DOMAIN actions : actions'[b].work = "none"
    BY <1>7
  <2>2. QED BY <1>1, <1>2, <1>8, <2>1, FollowedKept DEF IInv
<1>12. RecorderOK'
  <2>1. sent' \in SUBSET Reports /\ held' \in SUBSET Reports
    BY <1>1 DEF IInv, RecorderOK
  <2>2. QED BY <1>1, <1>10, <2>1 DEF IInv, RecorderOK, Wrappers
<1>13. QED BY <1>7, <1>10, <1>11, <1>12 DEF IInv

----------------------------------------------------------------------------
(* The stream, the counterpart and the clock                                *)

\* A queue that only grows, with nothing pending that was not beside something running,
\* while wrappers and follow-ups stay.
LEMMA GrownOK ==
  ASSUME IInv, QueueOK(actions'), Awaited(actions'), Grows(actions, actions'),
         Unforced(actions, actions'), bound' \in BOOLEAN,
         UNCHANGED <<kept, coordinator, wrapper, sent, held>>
  PROVE  IInv'
<1>1. ReportsOK' /\ HoldsOK' /\ LookingOK'
  BY GrowsAlike, WrappersKept DEF IInv
<1>2. FollowedOK' /\ CheckpointFirst'
  <2>1. /\ \A b \in DOMAIN actions :
             /\ b \in DOMAIN actions' /\ actions'[b].step = actions[b].step
             /\ actions'[b].work = actions[b].work
        /\ \A b \in DOMAIN actions' \ DOMAIN actions : actions'[b].work = "none"
    BY DEF Grows
  <2>2. QED BY <2>1, FollowedKept DEF IInv
<1>3. RecorderOK'
  BY DEF IInv, RecorderOK
<1>4. QED BY <1>1, <1>2, <1>3 DEF IInv

LEMMA StreamStep ==
  ASSUME IInv, Stream
  PROVE  IInv'
<1>1. /\ actions' = Recorded(actions, coordinator.offer, FALSE)
      /\ bound' \in BOOLEAN /\ UNCHANGED <<kept, coordinator, wrapper, sent, held>>
  BY DEF Stream, IInv, RecorderOK
<1>2. coordinator.offer \in Seq(Steps) /\ QueueOK(actions) /\ Awaited(actions)
  BY DEF IInv, RecorderOK
<1>3. QueueOK(actions') /\ Awaited(actions') /\ Grows(actions, actions') /\ Unforced(actions, actions')
  BY <1>1, <1>2, RecordedOK
<1>4. QED BY <1>1, <1>3, GrownOK

LEMMA PeerStep ==
  ASSUME IInv, PeerProposes
  PROVE  IInv'
<1>1. UNCHANGED <<actions, bound, coordinator, wrapper, sent, held>> /\ kept \subseteq kept'
  BY DEF PeerProposes
<1>2. QueueOK(actions') /\ Awaited(actions')
  BY <1>1 DEF IInv
<1>3. ReportsOK' /\ HoldsOK' /\ LookingOK'
  BY <1>1 DEF IInv, ReportsOK, HoldsOK, LookingOK, At
<1>4. FollowedOK' /\ CheckpointFirst'
  BY <1>1, FollowedKept DEF IInv
<1>5. RecorderOK'
  BY <1>1 DEF IInv, RecorderOK
<1>6. QED BY <1>2, <1>3, <1>4, <1>5 DEF IInv

LEMMA ExpireStep ==
  ASSUME IInv, Expire
  PROVE  IInv'
<1>1. UNCHANGED <<bound, kept, coordinator, wrapper, sent, held>>
  BY DEF Expire
<1>2. PICK a \in DOMAIN actions : actions' = [actions EXCEPT ![a].expired = TRUE]
  BY DEF Expire, In
<1>3. actions \in Seq(Acts) /\ QueueOK(actions) /\ actions[a] \in Acts
  BY DEF IInv, QueueOK
<1>4. /\ Changed(actions, actions', a)
      /\ actions'[a].file = actions[a].file /\ actions'[a].consumed = actions[a].consumed
      /\ actions'[a].state = actions[a].state /\ actions'[a].work = actions[a].work
  BY <1>2, <1>3, SetExpired
<1>5. QueueOK(actions')
  <2>1. /\ actions[a].file \in {"queued", "pending"} => actions[a].state = "pending" /\ ~actions[a].consumed
        /\ actions[a].file = "gone" => actions[a].state = "consumed"
        /\ actions[a].state = "pending" <=> actions[a].work = "none"
        /\ actions[a].state # "pending" => actions[a].consumed
        /\ actions[a].state = "consumed" => actions[a].work = "accepted"
    BY <1>3 DEF QueueOK
  <2>2. QED BY <1>3, <1>4, <2>1, ChangeOK
<1>6. Awaited(actions')
  BY <1>4, ChangeAwaited DEF IInv
<1>7. /\ DOMAIN actions' = DOMAIN actions
      /\ \A b \in DOMAIN actions :
           /\ actions'[b].file = actions[b].file /\ actions'[b].consumed = actions[b].consumed
           /\ actions'[b].state = actions[b].state
  BY <1>4 DEF Changed
<1>8. ReportsOK' /\ HoldsOK' /\ LookingOK'
  <2>1. Alike(actions, actions') /\ Unforced(actions, actions')
    BY <1>7 DEF Alike, Unforced, In
  <2>2. QED BY <1>1, <2>1, WrappersKept DEF IInv
<1>9. FollowedOK' /\ CheckpointFirst'
  BY <1>1, <1>4, StillFollowed
<1>10. RecorderOK'
  BY <1>1 DEF IInv, RecorderOK
<1>11. QED BY <1>5, <1>6, <1>8, <1>9, <1>10 DEF IInv

LEMMA SettleStep ==
  ASSUME IInv, NEW a, Settle(a) \/ Deadline(a)
  PROVE  IInv'
BY EndsStep DEF Settle, Deadline, Working

----------------------------------------------------------------------------
(* The follow-up                                                            *)

\* The follow-up of a moves to a place; beside that the queue may grow.
Advances(a, place) ==
  /\ QueueOK(actions') /\ Awaited(actions')
  /\ Alike(actions, actions') /\ Unforced(actions, actions')
  /\ \A b \in DOMAIN actions :
       actions'[b].step = actions[b].step /\ (b # a => actions'[b].work = actions[b].work)
  /\ \A b \in DOMAIN actions' \ DOMAIN actions : actions'[b].work = "none"
  /\ actions'[a].work = place

\* A change of the action alone.
LEMMA AdvancesAlone ==
  ASSUME IInv, NEW a \in DOMAIN actions, actions[a].work \in Busy,
         NEW place \in Standings, Changed(actions, actions', a),
         actions'[a].file = actions[a].file, actions'[a].consumed = actions[a].consumed,
         actions'[a].state = actions[a].state, actions'[a].work = place
  PROVE  Advances(a, place)
<1>1. QueueOK(actions) /\ Awaited(actions)
  BY DEF IInv
<1>2. actions[a].state \in {"active", "failed"} /\ actions[a].file = "running" /\ actions[a].consumed
  BY <1>1, OneBusy
<1>3. QueueOK(actions')
  <2>1. place # "none"
    BY DEF Busy, Standings
  <2>2. QED BY <1>1, <1>2, <2>1, ChangeOK
<1>4. Awaited(actions')
  BY <1>1, <1>2, ChangeAwaited
<1>5. /\ DOMAIN actions' = DOMAIN actions
      /\ \A b \in DOMAIN actions :
           /\ actions'[b].file = actions[b].file /\ actions'[b].consumed = actions[b].consumed
           /\ actions'[b].state = actions[b].state /\ actions'[b].step = actions[b].step
           /\ b # a => actions'[b].work = actions[b].work
  BY DEF Changed
<1>6. Alike(actions, actions') /\ Unforced(actions, actions')
  BY <1>5 DEF Alike, Unforced, In
<1>7. QED BY <1>3, <1>4, <1>5, <1>6 DEF Advances

LEMMA WorkOK ==
  ASSUME IInv, NEW a \in DOMAIN actions, actions[a].work \in Busy,
         NEW place \in Standings, Work(a, place)
  PROVE  Advances(a, place)
<1>1. actions \in Seq(Acts)
  BY DEF IInv, QueueOK
<1>2. PutsWork(actions, actions', a, place)
  BY DEF Work, PutsWork
<1>3. /\ Changed(actions, actions', a)
      /\ actions'[a].file = actions[a].file /\ actions'[a].consumed = actions[a].consumed
      /\ actions'[a].state = actions[a].state /\ actions'[a].work = place
  BY ONLY a \in DOMAIN actions, place \in Standings, <1>1, <1>2, SetWork
<1>4. QED BY <1>3, AdvancesAlone

LEMMA CallsOK ==
  ASSUME IInv, NEW a \in DOMAIN actions, actions[a].work \in Busy, NEW n \in Nat,
         actions' = [actions EXCEPT ![a].calls = n]
  PROVE  Advances(a, actions[a].work)
<1>1. actions \in Seq(Acts)
  BY DEF IInv, QueueOK
<1>2. /\ Changed(actions, actions', a)
      /\ actions'[a].file = actions[a].file /\ actions'[a].consumed = actions[a].consumed
      /\ actions'[a].state = actions[a].state /\ actions'[a].work = actions[a].work
  BY <1>1, SetCalls
<1>3. QED BY <1>2, AdvancesAlone DEF Standings

\* The steps of an answer are recorded while the action they follow is running and not
\* accepted: what is queued of them waits for it.
LEMMA RequeueOK ==
  ASSUME IInv, NEW a \in DOMAIN actions, actions[a].work \in Busy, NEW steps \in Seq(Steps), Requeue(a, steps)
  PROVE  /\ Advances(a, IF steps = <<>> THEN "failed" ELSE "accepted")
         /\ \A s \in ToSet(steps) : Known(actions', s)
<1> DEFINE mid == Recorded(actions, steps, TRUE)
           place == IF steps = <<>> THEN "failed" ELSE "accepted"
<1>1. QueueOK(actions) /\ Awaited(actions)
  BY DEF IInv
<1>2. actions[a].state \in {"active", "failed"} /\ actions[a].file = "running" /\ actions[a].consumed
  BY <1>1, OneBusy
<1>3. Unaccepted(actions)
  BY <1>2 DEF Unaccepted
<1>4. /\ QueueOK(mid) /\ Grows(actions, mid) /\ Unforced(actions, mid) /\ Awaited(mid)
      /\ \A s \in ToSet(steps) : Known(mid, s)
  BY <1>1, <1>3, RecordedOK
<1>5. PutsWork(mid, actions', a, place)
  BY DEF Requeue, PutsWork
<1>6. place \in Standings
  BY DEF Standings
<1> HIDE DEF mid, place
<1>7. /\ mid \in Seq(Acts) /\ a \in DOMAIN mid /\ mid[a].file = "running" /\ mid[a].consumed
      /\ mid[a].state \in {"active", "failed"}
  BY <1>2, <1>4 DEF Grows
<1>8. /\ Changed(mid, actions', a) /\ actions'[a].file = mid[a].file /\ actions'[a].consumed = mid[a].consumed
      /\ actions'[a].state = mid[a].state /\ actions'[a].work = place
  <2>1. mid \in Seq(Acts) /\ a \in DOMAIN mid
    BY <1>7
  <2>2. QED BY ONLY <1>5, <1>6, <2>1, SetWork
<1>9. QueueOK(actions')
  <2>1. place # "none"
    BY <1>6 DEF Busy, Standings
  <2>2. QED BY <1>4, <1>7, <1>8, <2>1, ChangeOK
<1>10. Awaited(actions')
  BY <1>4, <1>7, <1>8, ChangeAwaited
<1>11. /\ DOMAIN actions' = DOMAIN mid
       /\ \A b \in DOMAIN mid :
            /\ actions'[b].file = mid[b].file /\ actions'[b].consumed = mid[b].consumed
            /\ actions'[b].state = mid[b].state /\ actions'[b].step = mid[b].step
            /\ b # a => actions'[b].work = mid[b].work
  BY <1>8 DEF Changed
<1>12. Alike(actions, actions')
  BY <1>4, <1>11 DEF Alike, Grows
<1>13. Unforced(actions, actions')
  <2>1. In(actions', "pending") = In(mid, "pending")
    BY <1>11 DEF In
  <2>2. QED BY <1>4, <2>1 DEF Unforced
<1>14. /\ \A b \in DOMAIN actions :
            actions'[b].step = actions[b].step /\ (b # a => actions'[b].work = actions[b].work)
       /\ \A b \in DOMAIN actions' \ DOMAIN actions : actions'[b].work = "none"
  <2>1. ASSUME NEW b \in DOMAIN actions
        PROVE  actions'[b].step = actions[b].step /\ (b # a => actions'[b].work = actions[b].work)
    <3>1. b \in DOMAIN mid /\ mid[b].step = actions[b].step /\ mid[b].work = actions[b].work
      BY <1>4 DEF Grows
    <3>2. QED BY <1>11, <3>1
  <2>2. ASSUME NEW b \in DOMAIN actions' \ DOMAIN actions
        PROVE  actions'[b].work = "none"
    <3>1. b \in DOMAIN mid /\ mid[b].work = "none"
      BY <1>4, <1>11 DEF Grows
    <3>2. b # a
      OBVIOUS
    <3>3. QED BY <1>11, <3>1, <3>2
  <2>3. QED BY <2>1, <2>2
<1>15. \A s \in ToSet(steps) : Known(actions', s)
  BY <1>4, <1>11 DEF Known
<1>16. QED BY <1>8, <1>9, <1>10, <1>12, <1>13, <1>14, <1>15 DEF Advances, place

\* What a follow-up at a place has come to.
Fits(op, place) ==
  /\ place = "accepted" /\ op \notin Free =>
       op \in coordinator'.done /\ \A s \in ToSet(Follow[op]) : Known(actions', s)
  /\ place = "join" => op = "inspect"
  /\ place = "checkpoint" => op \in Commitments /\ (op = "acceptance" => "proposal" \in kept')
  /\ place = "submit" => op \in Signed /\ (op \in Commitments => op \in coordinator'.checkpoints)
  /\ place = "advance" => op = "register" \/ (op \in Signed /\ op \in coordinator'.done)
  /\ place = "verify" => op = "verify-certificate"

\* The coordinator, before and after a call for op.
Hears(op) ==
  /\ coordinator' \in [done : SUBSET Steps, checkpoints : SUBSET Steps, offer : Seq(Steps)]
  /\ coordinator.checkpoints \subseteq coordinator'.checkpoints
  /\ coordinator.done \subseteq coordinator'.done
  /\ coordinator'.done \subseteq coordinator.done \cup {op}
  /\ op \in coordinator.done \/ op \notin coordinator'.done => coordinator'.offer = coordinator.offer
  /\ op \notin coordinator.done /\ op \in coordinator'.done => coordinator'.offer = Follow[op]

LEMMA HandleOK ==
  ASSUME IInv, NEW a \in DOMAIN actions, actions[a].work \in Busy,
         NEW place \in Standings, Advances(a, place),
         UNCHANGED <<wrapper, sent, held>>, bound' \in BOOLEAN, kept \subseteq kept',
         Hears(actions[a].step), Fits(actions[a].step, place), CheckpointFirst'
  PROVE  IInv'
<1> DEFINE op == actions[a].step
<1>1. QueueOK(actions) /\ \A b \in DOMAIN actions : actions[b].work \in Busy => b = a
  BY OneBusy DEF IInv
<1>2. ReportsOK' /\ HoldsOK' /\ LookingOK'
  BY WrappersKept DEF IInv, Advances
<1>3. place # "none"
  BY DEF Busy, Standings
<1>4. \A s \in coordinator'.done : \E b \in DOMAIN actions' : actions'[b].step = s /\ actions'[b].work # "none"
  <2>1. SUFFICES ASSUME NEW s \in coordinator'.done
                 PROVE  \E b \in DOMAIN actions' : actions'[b].step = s /\ actions'[b].work # "none"
    OBVIOUS
  <2>2. \A b \in DOMAIN actions : b \in DOMAIN actions' /\ actions'[b].step = actions[b].step
    BY DEF Advances, Alike
  <2>3. CASE s = op
    BY <1>3, <2>2, <2>3 DEF Advances
  <2>4. CASE s # op
    <3>1. s \in coordinator.done
      BY <2>1, <2>4 DEF Hears
    <3>2. PICK b \in DOMAIN actions : actions[b].step = s /\ actions[b].work # "none"
      BY <3>1 DEF IInv, FollowedOK
    <3>3. QED BY <2>2, <2>4, <3>2 DEF Advances
  <2>5. QED BY <2>3, <2>4
<1>5. ASSUME NEW b \in DOMAIN actions', NEW o, o = actions'[b].step, NEW work, work = actions'[b].work
      PROVE  /\ work \in Busy /\ o \in coordinator'.done => coordinator'.offer = Follow[o]
             /\ work = "accepted" /\ o \notin Free =>
                  o \in coordinator'.done /\ \A s \in ToSet(Follow[o]) : Known(actions', s)
             /\ work = "join" => o = "inspect"
             /\ work = "checkpoint" => o \in Commitments /\ (o = "acceptance" => "proposal" \in kept')
             /\ work = "submit" => o \in Signed /\ (o \in Commitments => o \in coordinator'.checkpoints)
             /\ work = "advance" => o = "register" \/ (o \in Signed /\ o \in coordinator'.done)
             /\ work = "verify" => o = "verify-certificate"
  <2>1. CASE b \notin DOMAIN actions
    <3>1. work = "none"
      BY <1>5, <2>1 DEF Advances
    <3>2. QED BY <3>1 DEF Busy
  <2>2. CASE b = a
    <3>1. o = op /\ work = place
      BY <1>5, <2>2 DEF Advances
    <3>2. work \in Busy /\ o \in coordinator'.done => coordinator'.offer = Follow[o]
      <4>1. op \in coordinator.done => coordinator.offer = Follow[op]
        BY DEF IInv, FollowedOK
      <4>2. QED BY <3>1, <4>1 DEF Hears
    <3>3. QED BY <3>1, <3>2 DEF Fits
  <2>3. CASE b \in DOMAIN actions /\ b # a
    <3>1. o = actions[b].step /\ work = actions[b].work /\ work \notin Busy
      BY <1>1, <1>5, <2>3 DEF Advances
    <3>2. \A s : Known(actions, s) => Known(actions', s)
      BY DEF Known, Advances, Alike
    <3>3. work = "accepted" /\ o \notin Free =>
            o \in coordinator.done /\ \A s \in ToSet(Follow[o]) : Known(actions, s)
      BY <2>3, <3>1 DEF IInv, FollowedOK
    <3>4. QED BY <3>1, <3>2, <3>3 DEF Busy, Hears
  <2>4. QED BY <2>1, <2>2, <2>3
<1>6. FollowedOK'
  BY <1>4, <1>5 DEF FollowedOK
<1>7. RecorderOK'
  BY DEF IInv, RecorderOK, Hears
<1>8. QED BY <1>2, <1>6, <1>7 DEF IInv, Advances

\* A busy follow-up's action, of a step that is an operation.
LEMMA BusyFacts ==
  ASSUME IInv, NEW a, NEW place \in Busy, Working(a, place)
  PROVE  /\ a \in DOMAIN actions /\ actions[a].work \in Busy /\ actions[a].step \in Steps
         /\ actions[a].step \in Operations /\ Follow[actions[a].step] \in Seq(Steps)
<1>1. a \in DOMAIN actions /\ actions[a].work \in Busy
  BY DEF Working
<1>2. actions[a].step \in Steps
  BY <1>1, ListFacts DEF IInv, QueueOK, Acts
<1>3. QED BY <1>1, <1>2, ContinuationAssumption DEF Steps

\* The coordinator has the outcome of op, or heard nothing of it.
LEMMA HasHears ==
  ASSUME IInv, NEW op \in Steps, coordinator' \in {coordinator, Has(op)}
  PROVE  /\ Hears(op) /\ coordinator'.checkpoints = coordinator.checkpoints
         /\ coordinator' = Has(op) =>
              op \in coordinator'.done /\ (op \notin coordinator.done => coordinator'.offer = Follow[op])
<1> DEFINE Form == [done : SUBSET Steps, checkpoints : SUBSET Steps, offer : Seq(Steps)]
           offer == IF op \in coordinator.done THEN coordinator.offer ELSE Follow[op]
           had == [coordinator EXCEPT !.done = coordinator.done \cup {op}, !.offer = offer]
<1>1. coordinator \in Form
  BY DEF IInv, RecorderOK
<1>2. offer \in Seq(Steps)
  BY <1>1, ContinuationAssumption DEF Steps
<1>3. Has(op) = had
  BY DEF Has
<1>4. op \in Steps
  OBVIOUS
<1> HIDE DEF offer
<1>5. /\ had \in Form /\ had.done = coordinator.done \cup {op}
      /\ had.checkpoints = coordinator.checkpoints /\ had.offer = offer
  BY ONLY <1>1, <1>2, <1>4
<1> HIDE DEF had
<1>6. CASE coordinator' = coordinator
  BY <1>1, <1>3, <1>5, <1>6 DEF Hears, offer
<1>7. CASE coordinator' = had
  BY <1>1, <1>3, <1>5, <1>7 DEF Hears, offer
<1>8. QED BY <1>3, <1>6, <1>7

\* The checkpoint of a commitment, kept by the coordinator, or lost on its way.
LEMMA CheckpointHears ==
  ASSUME IInv, NEW op \in Steps, NEW with, with = [coordinator EXCEPT !.checkpoints = @ \cup {op}],
         coordinator' \in {coordinator, with}
  PROVE  /\ Hears(op) /\ coordinator'.done = coordinator.done
         /\ coordinator'.checkpoints \subseteq coordinator.checkpoints \cup {op}
         /\ coordinator' = with => op \in coordinator'.checkpoints
<1> DEFINE Form == [done : SUBSET Steps, checkpoints : SUBSET Steps, offer : Seq(Steps)]
<1>1. coordinator \in Form
  BY DEF IInv, RecorderOK
<1>2. op \in Steps /\ with = [coordinator EXCEPT !.checkpoints = coordinator.checkpoints \cup {op}]
  OBVIOUS
<1>3. /\ with \in Form /\ with.done = coordinator.done
      /\ with.checkpoints = coordinator.checkpoints \cup {op} /\ with.offer = coordinator.offer
  BY ONLY <1>1, <1>2
<1>4. CASE coordinator' = coordinator
  BY <1>1, <1>3, <1>4 DEF Hears
<1>5. CASE coordinator' = with
  BY <1>1, <1>3, <1>5 DEF Hears
<1>6. QED BY <1>4, <1>5

LEMMA CallFailsOK ==
  ASSUME IInv, NEW a \in DOMAIN actions, actions[a].work \in Busy, NEW effect, CallFails(a, effect),
         UNCHANGED <<wrapper, sent, held>>, Hears(actions[a].step), CheckpointFirst'
  PROVE  IInv'
<1>1. Work(a, "failed") /\ UNCHANGED <<bound, kept>>
  BY DEF CallFails
<1>2. Advances(a, "failed")
  BY <1>1, WorkOK DEF Standings
<1>3. Fits(actions[a].step, "failed")
  BY DEF Fits
<1>4. bound' \in BOOLEAN /\ kept \subseteq kept'
  BY <1>1 DEF IInv, RecorderOK
<1>5. QED BY <1>2, <1>3, <1>4, HandleOK DEF Standings

LEMMA StartStep ==
  ASSUME IInv, NEW a, Start(a), UNCHANGED <<wrapper, sent, held>>
  PROVE  IInv'
<1> DEFINE op == actions[a].step
<1>1. Working(a, "start") /\ UNCHANGED <<bound, kept, coordinator>>
  BY DEF Start
<1>2. /\ a \in DOMAIN actions /\ actions[a].work \in Busy /\ op \in Steps /\ op \in Operations
  BY <1>1, BusyFacts DEF Busy
<1>3. Hears(op)
  BY <1>1, <1>2, HasHears
<1>4. CheckpointFirst'
  BY <1>1 DEF IInv, CheckpointFirst
<1>5. bound' \in BOOLEAN /\ kept \subseteq kept'
  BY <1>1 DEF IInv, RecorderOK
<1>6. CASE Work(a, "failed")
  <2>1. Fits(op, "failed")
    BY DEF Fits
  <2>2. QED BY <1>1, <1>2, <1>3, <1>4, <1>5, <1>6, <2>1, WorkOK, HandleOK DEF Standings
<1>7. ASSUME op \in {"init", "policy"} \/ (op = "acceptance" => "proposal" \in kept), Work(a, FirstCall(op))
      PROVE  IInv'
  <2>1. FirstCall(op) \in Standings
    BY DEF FirstCall, Busy, Standings
  <2>2. Fits(op, FirstCall(op))
    <3>1. CASE op = "inspect"
      BY <3>1 DEF Fits, FirstCall
    <3>2. CASE op = "register"
      BY <3>2 DEF Fits, FirstCall
    <3>3. CASE op \in Commitments
      BY <1>1, <1>7, <3>3 DEF Fits, FirstCall, Commitments
    <3>4. CASE op \in Signed \ Commitments
      BY <3>4 DEF Fits, FirstCall, Signed, Commitments
    <3>5. CASE op \in Free
      BY <3>5 DEF Fits, FirstCall, Free, Signed, Commitments
    <3>6. QED BY <1>2, <3>1, <3>2, <3>3, <3>4, <3>5 DEF Operations, Free
  <2> DEFINE place == FirstCall(op)
  <2>3. place \in Standings /\ Fits(op, place) /\ Work(a, place)
    BY <1>7, <2>1, <2>2
  <2> HIDE DEF place
  <2>4. Advances(a, place)
    BY <1>2, <2>3, WorkOK
  <2>5. QED BY <1>1, <1>2, <1>3, <1>4, <1>5, <2>3, <2>4, HandleOK
<1>8. QED BY <1>6, <1>7 DEF Start

LEMMA JoinStep ==
  ASSUME IInv, NEW a, Join(a), UNCHANGED <<wrapper, sent, held>>
  PROVE  IInv'
<1> DEFINE op == actions[a].step
<1>1. Working(a, "join") /\ coordinator' \in {coordinator, Has(op)}
  BY DEF Join, CallFails
<1>2. /\ a \in DOMAIN actions /\ actions[a].work \in Busy /\ op \in Steps /\ Follow[op] \in Seq(Steps)
  BY <1>1, BusyFacts DEF Busy
<1>3. op = "inspect"
  BY <1>1, <1>2 DEF IInv, FollowedOK, Working
<1>4. /\ Hears(op) /\ coordinator'.checkpoints = coordinator.checkpoints
      /\ coordinator' = Has(op) =>
           op \in coordinator'.done /\ (op \notin coordinator.done => coordinator'.offer = Follow[op])
  BY <1>1, <1>2, HasHears
<1>5. kept' = kept /\ bound' = bound
  BY DEF Join, CallFails
<1>6. CheckpointFirst'
  <2>1. op \notin Commitments
    BY <1>3 DEF Commitments
  <2>2. QED BY <1>4, <1>5, <2>1 DEF IInv, CheckpointFirst, Hears
<1>7. CASE CallFails(a, Has(op))
  BY <1>2, <1>4, <1>6, <1>7, CallFailsOK
<1>8. CASE coordinator' = Has(op) /\ Requeue(a, Has(op).offer)
  <2>1. Has(op).offer = coordinator'.offer
    BY <1>8
  <2>2. coordinator'.offer = Follow[op]
    <3>1. op \in coordinator.done => coordinator.offer = Follow[op]
      BY <1>1, <1>2 DEF IInv, FollowedOK
    <3>2. QED BY <1>4, <1>8, <3>1 DEF Hears
  <2>3. Requeue(a, Follow[op])
    BY <1>8, <2>1, <2>2
  <2> DEFINE place == IF Follow[op] = <<>> THEN "failed" ELSE "accepted"
  <2>4. Advances(a, place) /\ \A s \in ToSet(Follow[op]) : Known(actions', s)
    BY <1>2, <2>3, RequeueOK
  <2>5. place \in {"failed", "accepted"}
    OBVIOUS
  <2> HIDE DEF place
  <2>6. Fits(op, place)
    BY <1>4, <1>8, <2>4, <2>5 DEF Fits
  <2>7. bound' \in BOOLEAN /\ kept \subseteq kept'
    BY <1>5 DEF IInv, RecorderOK
  <2>8. QED BY <1>2, <1>4, <1>6, <2>4, <2>5, <2>6, <2>7, HandleOK DEF Standings
<1>9. QED BY <1>7, <1>8 DEF Join

LEMMA CheckpointStep ==
  ASSUME IInv, NEW a, Checkpoint(a), UNCHANGED <<wrapper, sent, held>>
  PROVE  IInv'
<1> DEFINE op == actions[a].step
           with == [coordinator EXCEPT !.checkpoints = @ \cup {op}]
<1>1. Working(a, "checkpoint") /\ coordinator' \in {coordinator, with}
  BY DEF Checkpoint, CallFails
<1>2. a \in DOMAIN actions /\ actions[a].work \in Busy /\ op \in Steps
  BY <1>1, BusyFacts DEF Busy
<1>3. op \in Commitments /\ (op = "acceptance" => "proposal" \in kept)
  BY <1>1, <1>2 DEF IInv, FollowedOK, Working
<1>4. PICK w : w = with
  OBVIOUS
<1>5. /\ Hears(op) /\ coordinator'.done = coordinator.done
      /\ coordinator'.checkpoints \subseteq coordinator.checkpoints \cup {op}
      /\ coordinator' = w => op \in coordinator'.checkpoints
  BY <1>1, <1>2, <1>4, CheckpointHears
<1> HIDE DEF with
<1>6. kept \subseteq kept' /\ bound' = bound
  BY DEF Checkpoint, CallFails
<1>7. CheckpointFirst'
  BY <1>3, <1>5, <1>6 DEF IInv, CheckpointFirst, Hears
<1>8. CASE CallFails(a, with)
  BY <1>2, <1>5, <1>7, <1>8, CallFailsOK
<1>9. CASE Work(a, "submit") /\ coordinator' = with
  <2>1. Advances(a, "submit")
    BY <1>2, <1>9, WorkOK DEF Standings, Busy
  <2>2. Fits(op, "submit")
    BY <1>3, <1>4, <1>5, <1>9 DEF Fits, Signed
  <2>3. bound' \in BOOLEAN
    BY <1>6 DEF IInv, RecorderOK
  <2>4. "submit" \in Busy
    BY DEF Busy
  <2>5. QED BY <1>2, <1>5, <1>6, <1>7, <2>1, <2>2, <2>3, <2>4, HandleOK DEF Standings
<1>10. QED BY <1>8, <1>9 DEF Checkpoint, with

LEMMA SubmitStep ==
  ASSUME IInv, NEW a, Submit(a), UNCHANGED <<wrapper, sent, held>>
  PROVE  IInv'
<1> DEFINE op == actions[a].step
<1>1. Working(a, "submit") /\ coordinator' \in {coordinator, Has(op)}
  BY DEF Submit, CallFails
<1>2. a \in DOMAIN actions /\ actions[a].work \in Busy /\ op \in Steps
  BY <1>1, BusyFacts DEF Busy
<1>3. op \in Signed /\ (op \in Commitments => op \in coordinator.checkpoints)
  BY <1>1, <1>2 DEF IInv, FollowedOK, Working
<1>4. /\ Hears(op) /\ coordinator'.checkpoints = coordinator.checkpoints
      /\ coordinator' = Has(op) => op \in coordinator'.done
  BY <1>1, <1>2, HasHears
<1>5. kept' = kept /\ bound' = bound
  BY DEF Submit, CallFails
<1>6. CheckpointFirst'
  BY <1>3, <1>4, <1>5 DEF IInv, CheckpointFirst, Hears
<1>7. CASE CallFails(a, Has(op))
  BY <1>2, <1>4, <1>6, <1>7, CallFailsOK
<1>8. CASE Work(a, "advance") /\ coordinator' = Has(op)
  <2>1. Advances(a, "advance")
    BY <1>2, <1>8, WorkOK DEF Standings, Busy
  <2>2. Fits(op, "advance")
    BY <1>3, <1>4, <1>8 DEF Fits
  <2>3. bound' \in BOOLEAN /\ kept \subseteq kept'
    BY <1>5 DEF IInv, RecorderOK
  <2>4. "advance" \in Busy
    BY DEF Busy
  <2>5. QED BY <1>2, <1>4, <1>6, <2>1, <2>2, <2>3, <2>4, HandleOK DEF Standings
<1>9. QED BY <1>7, <1>8 DEF Submit

LEMMA AdvanceStep ==
  ASSUME IInv, NEW a, Advance(a), UNCHANGED <<wrapper, sent, held>>
  PROVE  IInv'
<1> DEFINE op == actions[a].step
           seen == IF op = "register" THEN Has("register") ELSE coordinator
           calls == actions[a].calls + 1
<1>1. Working(a, "advance") /\ coordinator' \in {coordinator, seen} /\ kept' = kept /\ bound' = bound
  BY DEF Advance, CallFails
<1>2. /\ a \in DOMAIN actions /\ actions[a].work = "advance" /\ actions[a].work \in Busy
      /\ op \in Steps /\ Follow[op] \in Seq(Steps)
  BY <1>1, BusyFacts DEF Busy, Working
<1>3. op = "register" \/ (op \in Signed /\ op \in coordinator.done)
  BY <1>2 DEF IInv, FollowedOK
<1>4. /\ Hears(op) /\ coordinator'.checkpoints = coordinator.checkpoints
      /\ coordinator' = Has(op) =>
           op \in coordinator'.done /\ (op \notin coordinator.done => coordinator'.offer = Follow[op])
  <2>1. coordinator' \in {coordinator, Has(op)}
    BY <1>1
  <2>2. QED BY <1>2, <2>1, HasHears
<1>5. CheckpointFirst'
  <2>1. op \notin Commitments \/ op \in coordinator.done
    BY <1>3 DEF Commitments
  <2>2. QED BY <1>1, <1>4, <2>1 DEF IInv, CheckpointFirst, Hears
<1>6. bound' \in BOOLEAN /\ kept \subseteq kept'
  BY <1>1 DEF IInv, RecorderOK
<1>7. CASE CallFails(a, seen)
  BY <1>2, <1>4, <1>5, <1>7, CallFailsOK
<1>8. ASSUME coordinator' = seen, NEW answer \in Answers(seen.offer),
             IF Classify(answer) = "action" THEN Requeue(a, answer.steps)
             ELSE IF Classify(answer) = "malformed" \/ calls = AdvanceCalls THEN Work(a, "failed")
             ELSE actions' = [actions EXCEPT ![a].calls = calls]
      PROVE  IInv'
  <2>1. op \in coordinator'.done /\ coordinator'.offer = Follow[op]
    <3>1. op \in coordinator.done => coordinator.offer = Follow[op]
      BY <1>2 DEF IInv, FollowedOK
    <3>2. CASE op = "register"
      BY <1>4, <1>8, <3>1, <3>2 DEF Hears
    <3>3. CASE op # "register"
      BY <1>3, <1>8, <3>1, <3>3
    <3>4. QED BY <3>2, <3>3
  <2>2. answer.steps \in {<<>>, Follow[op]}
    BY <1>8, <2>1 DEF Answers
  <2>3. CASE Work(a, "failed")
    <3>1. Fits(op, "failed")
      BY DEF Fits
    <3>2. Advances(a, "failed")
      BY <1>2, <2>3, WorkOK DEF Standings
    <3>3. QED BY <1>2, <1>4, <1>5, <1>6, <3>1, <3>2, HandleOK DEF Standings
  <2>4. CASE Classify(answer) = "action" /\ Requeue(a, answer.steps)
    <3>1. answer.steps # <<>>
      BY <2>4 DEF Classify
    <3>2. Requeue(a, Follow[op]) /\ Follow[op] # <<>>
      BY <2>2, <2>4, <3>1
    <3>3. Advances(a, "accepted") /\ \A s \in ToSet(Follow[op]) : Known(actions', s)
      BY <1>2, <3>2, RequeueOK
    <3>4. Fits(op, "accepted")
      BY <2>1, <3>3 DEF Fits
    <3>5. QED BY <1>2, <1>4, <1>5, <1>6, <3>3, <3>4, HandleOK DEF Standings
  <2>5. CASE actions' = [actions EXCEPT ![a].calls = calls]
    <3>1. calls \in Nat
      <4>1. actions[a] \in Acts
        BY <1>2, ListFacts DEF IInv, QueueOK
      <4>2. QED BY <4>1 DEF Acts
    <3>2. Advances(a, "advance")
      <4> HIDE DEF calls
      <4>1. QED BY <1>2, <2>5, <3>1, CallsOK
    <3>3. Fits(op, "advance")
      BY <1>3, <2>1 DEF Fits
    <3>4. "advance" \in Busy
      BY DEF Busy
    <3>5. QED BY <1>2, <1>4, <1>5, <1>6, <3>2, <3>3, <3>4, HandleOK DEF Standings
  <2>6. QED BY <1>8, <2>3, <2>4, <2>5
<1>9. QED BY <1>7, <1>8 DEF Advance

LEMMA VerifyStep ==
  ASSUME IInv, NEW a, VerifyCertificate(a), UNCHANGED <<wrapper, sent, held>>
  PROVE  IInv'
<1> DEFINE op == actions[a].step
<1>1. Working(a, "verify") /\ UNCHANGED <<bound, kept, coordinator>>
  BY DEF VerifyCertificate
<1>2. a \in DOMAIN actions /\ actions[a].work \in Busy /\ op \in Steps
  BY <1>1, BusyFacts DEF Busy
<1>3. op = "verify-certificate"
  BY <1>1, <1>2 DEF IInv, FollowedOK, Working
<1>4. Hears(op)
  BY <1>1, <1>2, HasHears
<1>5. CheckpointFirst' /\ bound' \in BOOLEAN /\ kept \subseteq kept'
  BY <1>1 DEF IInv, CheckpointFirst, RecorderOK
<1>6. PICK place \in {"accepted", "failed"} : Work(a, place)
  BY DEF VerifyCertificate
<1>7. Advances(a, place)
  BY <1>2, <1>6, WorkOK DEF Standings
<1>8. Fits(op, place)
  BY <1>3, <1>6 DEF Fits, Free
<1>9. QED BY <1>1, <1>2, <1>4, <1>5, <1>7, <1>8, HandleOK DEF Standings

----------------------------------------------------------------------------
(* Every step, and what follows                                             *)

LEMMA InitIInv == Init => IInv
<1> SUFFICES ASSUME Init PROVE IInv
  OBVIOUS
<1>1. actions = <<>> /\ DOMAIN actions = {} /\ actions \in Seq(Acts)
  BY DEF Init
<1>2. Setup \in Seq(Steps)
  BY RecorderAssumption DEF Steps
<1>3. RecorderOK
  <2>1. Idle \in Wrappers
    BY DEF Idle, Wrappers, Places
  <2>2. QED BY <1>2, <2>1 DEF Init, RecorderOK, Wrappers
<1>4. QueueOK(actions) /\ Awaited(actions)
  BY <1>1 DEF QueueOK, Awaited
<1>5. \A w \in Callers : wrapper[w].at = "idle"
  BY DEF Init, Idle
<1>6. ReportsOK /\ HoldsOK /\ LookingOK
  BY <1>5 DEF Init, ReportsOK, HoldsOK, LookingOK, At, Holding, Looking
<1>7. FollowedOK /\ CheckpointFirst
  BY <1>1 DEF Init, FollowedOK, CheckpointFirst
<1>8. QED BY <1>3, <1>4, <1>6, <1>7 DEF IInv

LEMMA NextIInv == IInv /\ [Next]_vars => IInv'
<1> SUFFICES ASSUME IInv, [Next]_vars PROVE IInv'
  OBVIOUS
<1>1. CASE Stream
  BY <1>1, StreamStep
<1>2. CASE PeerProposes
  BY <1>2, PeerStep
<1>3. CASE Expire
  BY <1>3, ExpireStep
<1>4. CASE Receive
  BY <1>4, ReceiveStep
<1>5. ASSUME NEW w \in Callers, WrapperStep(w)
      PROVE  IInv'
  BY <1>5, CallStep, LookStep, PickStep, ClaimStep, MarkStep, HelperEndsStep, SendStep, RetryStep,
     FinishStep DEF WrapperStep
<1>6. ASSUME NEW a \in DOMAIN actions, ActionStep(a)
      PROVE  IInv'
  <2>1. CASE Handle(a) /\ UNCHANGED <<wrapper, sent, held>>
    BY <2>1, StartStep, JoinStep, CheckpointStep, SubmitStep, AdvanceStep, VerifyStep DEF Handle
  <2>2. CASE Settle(a) \/ Deadline(a)
    BY <2>2, SettleStep
  <2>3. QED BY <1>6, <2>1, <2>2 DEF ActionStep
<1>7. CASE UNCHANGED vars
  <2>1. UNCHANGED continuationVars /\ UNCHANGED <<actions, wrapper, sent, held>>
    BY <1>7 DEF vars, continuationVars
  <2>2. ReportsOK' /\ HoldsOK' /\ LookingOK'
    BY <2>1 DEF IInv, ReportsOK, HoldsOK, LookingOK, At
  <2>3. QED BY <2>1, <2>2, QuietOK DEF IInv, RecorderOK, Wrappers
<1>8. QED BY <1>1, <1>2, <1>3, <1>4, <1>5, <1>6, <1>7 DEF Next

\* The recorder's types, its queue and what its wrappers and follow-ups know of it.
THEOREM RecorderInductive == Spec => []IInv
<1>1. Init => IInv
  BY InitIInv
<1>2. IInv /\ [Next]_vars => IInv'
  BY NextIInv
<1>3. QED BY <1>1, <1>2, PTL DEF Spec

\* When nothing is pending and nothing running, no trusted action is still queued.
THEOREM NobodyStranded == Spec => []NotStranded
<1>1. IInv => NotStranded
  <2>1. SUFFICES ASSUME Awaited(actions), In(actions, "pending") \cup In(actions, "running") = {},
                        NEW a \in In(actions, "queued"), actions[a].trusted
                 PROVE  FALSE
    BY DEF IInv, NotStranded
  <2>2. a \in DOMAIN actions /\ actions[a].file = "queued"
    BY <2>1 DEF In
  <2>3. PICK r \in DOMAIN actions : actions[r].file = "pending" \/ actions[r].file = "running"
    BY <2>1, <2>2 DEF Awaited
  <2>4. r \in In(actions, "pending") \cup In(actions, "running")
    BY <2>3 DEF In
  <2>5. QED BY <2>1, <2>4
<1>2. QED BY <1>1, RecorderInductive, PTL

\* What a wrapper reports as executed has been followed up.
THEOREM ReportsAreDone == Spec => []ReportedIsDone
<1>1. IInv => ReportedIsDone
  <2>1. SUFFICES ASSUME IInv, NEW w \in Callers, At(w, "print"), NEW op, op = actions[wrapper[w].action].step,
                        op \notin Free
                 PROVE  op \in coordinator.done /\ \A s \in ToSet(Follow[op]) : Known(actions, s)
    BY DEF ReportedIsDone, Free
  <2>2. PICK a \in DOMAIN actions : a = wrapper[w].action /\ actions[a].state = "consumed"
    BY <2>1 DEF IInv, HoldsOK, At, Holding
  <2>3. actions[a].work = "accepted"
    BY <2>1, <2>2 DEF IInv, QueueOK
  <2>4. QED BY <2>1, <2>2, <2>3 DEF IInv, FollowedOK
<1>2. QED BY <1>1, RecorderInductive, PTL

\* No commitment without its checkpoint, and none of an acceptance before the proposal's.
THEOREM CheckpointsFirst == Spec => []CheckpointFirst
<1>1. IInv => CheckpointFirst
  BY DEF IInv
<1>2. QED BY <1>1, RecorderInductive, PTL

\* The follow-up marks nothing.
LEMMA HandleMarksNone ==
  ASSUME IInv, NEW a \in DOMAIN actions, Handle(a)
  PROVE  \A b \in DOMAIN actions : actions'[b].consumed = actions[b].consumed
<1>1. actions \in Seq(Acts) /\ QueueOK(actions) /\ actions[a] \in Acts /\ actions[a].step \in Steps
  <2>1. actions \in Seq(Acts) /\ QueueOK(actions) /\ actions[a] \in Acts
    BY ListFacts DEF IInv, QueueOK
  <2>2. QED BY <2>1 DEF Acts
<1>2. ASSUME NEW list \in Seq(Acts), a \in DOMAIN list, NEW place, actions' = [list EXCEPT ![a].work = place]
      PROVE  \A b \in DOMAIN list : actions'[b].consumed = list[b].consumed
  <2>1. list[a] \in Acts
    BY <1>2
  <2>2. [list[a] EXCEPT !.work = place].consumed = list[a].consumed
    BY ONLY <2>1 DEF Acts
  <2>3. actions' = [list EXCEPT ![a] = [list[a] EXCEPT !.work = place]]
    BY <1>2
  <2>4. QED BY <1>2, <2>2, <2>3
<1>3. ASSUME NEW place, Work(a, place)
      PROVE  \A b \in DOMAIN actions : actions'[b].consumed = actions[b].consumed
  BY <1>1, <1>2, <1>3 DEF Work
<1>4. ASSUME NEW steps \in Seq(Steps), Requeue(a, steps)
      PROVE  \A b \in DOMAIN actions : actions'[b].consumed = actions[b].consumed
  <2> DEFINE mid == Recorded(actions, steps, TRUE)
  <2>1. Grows(actions, mid)
    BY <1>1, RecordedOK
  <2>2. actions' = [mid EXCEPT ![a].work = IF steps = <<>> THEN "failed" ELSE "accepted"]
    BY <1>4 DEF Requeue
  <2> HIDE DEF mid
  <2>3. \A b \in DOMAIN mid : actions'[b].consumed = mid[b].consumed
    BY <1>2, <2>1, <2>2 DEF Grows
  <2>4. QED BY <2>1, <2>3 DEF Grows
<1>5. ASSUME NEW calls, actions' = [actions EXCEPT ![a].calls = calls]
      PROVE  \A b \in DOMAIN actions : actions'[b].consumed = actions[b].consumed
  <2>1. [actions[a] EXCEPT !.calls = calls].consumed = actions[a].consumed
    BY ONLY <1>1 DEF Acts
  <2>2. actions' = [actions EXCEPT ![a] = [actions[a] EXCEPT !.calls = calls]]
    BY <1>5
  <2>3. QED BY <1>1, <2>1, <2>2
<1>6. ASSUME NEW op \in Steps, coordinator' \in {coordinator, Has(op)}
      PROVE  coordinator'.offer \in Seq(Steps)
  BY <1>6, HasHears DEF Hears
<1>7. CASE Start(a)
  BY <1>3, <1>7 DEF Start
<1>8. CASE Join(a)
  <2>1. CASE Work(a, "failed")
    BY <1>3, <2>1
  <2>2. CASE coordinator' = Has(actions[a].step) /\ Requeue(a, Has(actions[a].step).offer)
    <3>1. Has(actions[a].step).offer \in Seq(Steps)
      BY <1>1, <1>6, <2>2
    <3>2. QED BY <1>4, <2>2, <3>1
  <2>3. QED BY <1>8, <2>1, <2>2 DEF Join, CallFails
<1>9. CASE Checkpoint(a)
  BY <1>3, <1>9 DEF Checkpoint, CallFails
<1>10. CASE Submit(a)
  BY <1>3, <1>10 DEF Submit, CallFails
<1>11. CASE Advance(a)
  <2> DEFINE seen == IF actions[a].step = "register" THEN Has("register") ELSE coordinator
             calls == actions[a].calls + 1
  <2>1. CASE Work(a, "failed")
    BY <1>3, <2>1
  <2>2. CASE actions' = [actions EXCEPT ![a].calls = calls]
    BY <1>5, <2>2
  <2>3. ASSUME coordinator' = seen, NEW answer \in Answers(seen.offer), Requeue(a, answer.steps)
        PROVE  \A b \in DOMAIN actions : actions'[b].consumed = actions[b].consumed
    <3>1. coordinator' \in {coordinator, Has(actions[a].step)}
      BY <2>3
    <3>2. seen.offer \in Seq(Steps)
      BY <1>1, <1>6, <2>3, <3>1
    <3>3. answer.steps \in {<<>>, seen.offer}
      BY <2>3 DEF Answers
    <3> HIDE DEF seen
    <3>4. answer.steps \in Seq(Steps)
      <4>1. <<>> \in Seq(Steps)
        OBVIOUS
      <4> HIDE DEF Steps
      <4>2. QED BY <3>2, <3>3, <4>1
    <3>5. QED BY <1>4, <2>3, <3>4
  <2>4. QED BY <1>11, <2>1, <2>2, <2>3 DEF Advance, CallFails
<1>12. CASE VerifyCertificate(a)
  BY <1>3, <1>12 DEF VerifyCertificate
<1>13. QED BY <1>7, <1>8, <1>9, <1>10, <1>11, <1>12 DEF Handle

\* Only a wrapper marks an action, the one it has claimed.
LEMMA OnlyMarks ==
  ASSUME IInv, [Next]_vars, NEW a \in DOMAIN actions, actions'[a].consumed, ~actions[a].consumed
  PROVE  \E w \in Callers : Mark(w) /\ a = wrapper[w].action
<1> DEFINE Same == actions'[a].consumed = actions[a].consumed
<1>1. actions \in Seq(Acts) /\ QueueOK(actions) /\ \A b \in DOMAIN actions : actions[b] \in Acts
  BY ListFacts DEF IInv, QueueOK
<1>2. CASE Stream
  <2>1. coordinator.offer \in Seq(Steps)
    BY DEF IInv, RecorderOK
  <2>2. Grows(actions, actions')
    BY <1>1, <1>2, <2>1, RecordedOK DEF Stream
  <2>3. QED BY <2>2 DEF Grows
<1>3. CASE PeerProposes
  BY <1>3 DEF PeerProposes
<1>4. CASE Expire
  <2>1. PICK b \in DOMAIN actions : actions' = [actions EXCEPT ![b].expired = TRUE]
    BY <1>4 DEF Expire, In
  <2>2. Changed(actions, actions', b) /\ actions'[b].consumed = actions[b].consumed
    BY <1>1, <2>1, SetExpired
  <2>3. QED BY <2>2 DEF Changed
<1>5. CASE Receive
  <2>1. PICK c \in sent :
          \/ actions' = [actions EXCEPT ![c.action].state = "active", ![c.action].work = "start"]
          \/ actions' = actions
          \/ actions' = Promote(actions, TRUE)
    BY <1>5 DEF Receive
  <2>2. CASE actions' = [actions EXCEPT ![c.action].state = "active", ![c.action].work = "start"]
    <3> DEFINE r == [actions[c.action] EXCEPT !.state = "active", !.work = "start"]
    <3>1. c.action \in DOMAIN actions /\ actions[c.action] \in Acts
      BY <1>1 DEF IInv, ReportsOK
    <3>2. r.consumed = actions[c.action].consumed
      BY ONLY <3>1 DEF Acts
    <3>3. actions' = [actions EXCEPT ![c.action] = r]
      BY <2>2
    <3>4. QED BY <1>1, <3>1, <3>2, <3>3
  <2>3. CASE actions' = actions
    BY <2>3
  <2>4. CASE actions' = Promote(actions, TRUE)
    BY <1>1, <2>4, PromoteOK DEF Grows
  <2>5. QED BY <2>1, <2>2, <2>3, <2>4
<1>6. ASSUME NEW w \in Callers, WrapperStep(w)
      PROVE  Same \/ (Mark(w) /\ a = wrapper[w].action)
  <2>1. CASE Mark(w)
    <3>1. wrapper[w].action \in DOMAIN actions
      BY <2>1 DEF Mark, IInv, HoldsOK, At
    <3>2. a # wrapper[w].action => Same
      BY <1>1, <2>1, <3>1 DEF Mark
    <3>3. QED BY <2>1, <3>2
  <2>2. ASSUME NEW b \in DOMAIN actions, NEW file \in {"running", "gone"},
               actions' = [actions EXCEPT ![b].file = file]
        PROVE  Same
    <3>1. [actions[b] EXCEPT !.file = file].consumed = actions[b].consumed
      <4>1. actions[b] \in Acts
        BY <1>1
      <4>2. QED BY ONLY <4>1 DEF Acts
    <3>2. actions' = [actions EXCEPT ![b] = [actions[b] EXCEPT !.file = file]]
      BY <2>2
    <3>3. QED BY <1>1, <3>1, <3>2
  <2>3. CASE Claim(w)
    <3>1. wrapper[w].action \in DOMAIN actions
      BY <2>3 DEF Claim, IInv, HoldsOK, At
    <3>2. QED BY <2>2, <2>3, <3>1 DEF Claim
  <2>4. CASE Finish(w)
    <3>1. wrapper[w].action \in DOMAIN actions
      BY <2>4 DEF Finish, IInv, HoldsOK, At
    <3>2. QED BY <2>2, <2>4, <3>1 DEF Finish
  <2>5. CASE actions' = actions
    BY <2>5
  <2>6. QED BY <1>6, <2>1, <2>3, <2>4, <2>5
        DEF WrapperStep, Call, Look, Pick, HelperEnds, Send, Retry, continuationVars
<1>7. ASSUME NEW b \in DOMAIN actions, ActionStep(b)
      PROVE  Same
  <2>1. CASE Handle(b)
    BY <2>1, HandleMarksNone
  <2>2. ASSUME NEW state \in {"consumed", "failed"}, Ends(b, state), state = "consumed" => actions[b].work = "accepted"
        PROVE  Same
    <3> DEFINE ended == [actions EXCEPT ![b].state = state]
    <3>4. actions[b].state = "active" /\ actions' = IF state = "consumed" THEN Promote(ended, TRUE) ELSE ended
      BY <2>2 DEF Ends
    <3>5. QueueOK(ended) /\ Changed(actions, ended, b) /\ ended[b].consumed = actions[b].consumed
      BY <2>2, <3>4, EndedOK
    <3> HIDE DEF ended
    <3>6. \A c \in DOMAIN actions : ended[c].consumed = actions[c].consumed
      BY <3>5 DEF Changed
    <3>8. CASE state = "consumed"
      <4>1. actions' = Promote(ended, TRUE)
        BY <3>4, <3>8
      <4>2. Grows(ended, actions') /\ a \in DOMAIN ended
        BY <3>5, <4>1, PromoteOK DEF Changed
      <4>3. QED BY <3>6, <4>2 DEF Grows
    <3>9. CASE state = "failed"
      BY <3>4, <3>6, <3>9
    <3>10. QED BY <3>8, <3>9
  <2>3. QED BY <1>7, <2>1, <2>2 DEF ActionStep, Settle, Deadline, Working
<1>8. CASE UNCHANGED vars
  BY <1>8 DEF vars
<1>9. QED BY <1>2, <1>3, <1>4, <1>5, <1>6, <1>7, <1>8 DEF Next

\* An action is marked only when no other helper runs and every earlier one is marked.
THEOREM MarkedInOrder == Spec => OneByOne
<1>1. ASSUME IInv, [Next]_vars, NEW a \in DOMAIN actions, actions'[a].consumed, ~actions[a].consumed
      PROVE  /\ \A w \in Callers : wrapper[w].at # "helping"
             /\ \A b \in 1 .. a - 1 : actions[b].consumed
  <2>1. PICK w \in Callers : Mark(w) /\ a = wrapper[w].action
    BY <1>1, OnlyMarks
  <2>2. wrapper[w].at = "mark" /\ actions[a].file = "running" /\ actions[a].state = "pending"
    BY <1>1, <2>1 DEF Mark, At, IInv, HoldsOK, Holding
  <2>3. QueueOK(actions) /\ Len(actions) \in Nat /\ DOMAIN actions = 1 .. Len(actions)
    BY <1>1, ListFacts DEF IInv, QueueOK
  <2>4. ASSUME NEW v \in Callers, wrapper[v].at = "helping"
        PROVE  FALSE
    <3>1. PICK b \in DOMAIN actions :
            b = wrapper[v].action /\ actions[b].file = "running" /\ actions[b].state = "pending"
      BY <1>1, <2>4 DEF IInv, HoldsOK, At, Holding
    <3>2. a = b
      <4>1. ~(a < b) /\ ~(b < a)
        BY <2>2, <2>3, <3>1 DEF QueueOK
      <4>2. QED BY <2>3, <4>1
    <3>3. v = w
      BY <1>1, <2>1, <2>2, <2>4, <3>1, <3>2 DEF IInv, HoldsOK, Holding
    <3>4. QED BY <2>2, <2>4, <3>3
  <2>5. ASSUME NEW b \in 1 .. a - 1
        PROVE  actions[b].consumed
    <3>1. b \in DOMAIN actions /\ b < a
      BY <2>3
    <3>2. actions[b].state = "consumed"
      BY <2>2, <2>3, <3>1 DEF QueueOK
    <3>3. QED BY <2>3, <3>1, <3>2 DEF QueueOK
  <2>6. QED BY <2>4, <2>5
<1>2. IInv /\ [Next]_vars =>
        [\A a \in DOMAIN actions :
           actions'[a].consumed /\ ~actions[a].consumed =>
             /\ \A w \in Callers : wrapper[w].at # "helping"
             /\ \A b \in 1 .. a - 1 : actions[b].consumed]_vars
  BY <1>1
<1>3. QED BY <1>2, RecorderInductive, PTL DEF Spec, OneByOne

----------------------------------------------------------------------------
(* The local adapter: the invariant                                         *)

Entries == [step : HelperSteps, at : Nat, number : Nat]
AnswerKinds == {"pending", "shown", "refused", "upgrade", "error", "nothing",
                "done", "failed", "expired", "invalid"}
ToolAnswers == [says : AnswerKinds, steps : Seq(HelperSteps)]
ToolCalls == [kind : {"up", "run"}, answer : ToolAnswers]
RunFields == {"call", "entry", "at", "read", "checkpoint", "out"}
Outcomes == {"none", "done", "failed", "expired", "invalid"}

\* A sequence of anything.
IsSequence(s) == s \in Seq({s[i] : i \in DOMAIN s})

AdapterTypes ==
  /\ now \in 0 .. MaxTime /\ Adapter!Directory(dir) /\ toolCalls \in Seq(ToolCalls)
  /\ turns = {c \in DOMAIN toolCalls :
                toolCalls[c].kind = "run" /\ toolCalls[c].answer = Adapter!Pending}
  /\ IsSequence(helpers)
  /\ \A k \in DOMAIN helpers :
       /\ DOMAIN helpers[k] = RunFields /\ helpers[k].out \in Outcomes
       /\ helpers[k].entry \in Entries /\ helpers[k].call \in DOMAIN toolCalls

\* Staged steps are numbered on, and the queue holds the youngest.
NumberedIn(list, count) ==
  /\ list \in Seq(Entries) /\ count \in Nat
  /\ \A i \in DOMAIN list : list[i].number \in 1 .. count /\ list[i].at <= now
  /\ \A i, j \in DOMAIN list : i < j => list[i].number < list[j].number
  /\ \A k \in DOMAIN helpers :
       /\ helpers[k].entry.number \in 1 .. count
       /\ \A i \in DOMAIN list : helpers[k].entry.number < list[i].number

Numbered ==
  /\ NumberedIn(queue, stagedEver)
  /\ \A k, l \in DOMAIN helpers : k < l => helpers[k].entry.number < helpers[l].entry.number

\* Only the youngest run may still be unanswered, and its call has waited longest.
Chained ==
  /\ \A k \in DOMAIN helpers :
       /\ toolCalls[helpers[k].call].kind = "run"
       /\ Adapter!Running(k) => Adapter!Open(helpers[k].call)
       /\ Adapter!Open(helpers[k].call) =>
            k = Len(helpers) /\ \A d \in turns : helpers[k].call <= d
       /\ toolCalls[helpers[k].call].answer.says = "done" => helpers[k].out = "done"
  /\ \A k, l \in DOMAIN helpers : helpers[k].call = helpers[l].call => k = l

\* What a run relies on while it is under way over directory d, and what is so once it is
\* done.
Agreed(step, d) == d.policy = "whole" /\ d.committed = <<step.request.policy>>

UnderWay(run, d) ==
  /\ run.entry.step.op = "policy" /\ run.at = "write" => d.wallet = "whole" /\ d.policy = "torn"
  /\ run.entry.step.op = "register" /\ run.at = "write" => d.identity
  /\ run.entry.step.op = "sign" /\ run.at # "start" => Agreed(run.entry.step, d)

InTime(run) ==
  \A limit \in Adapter!Bounds(run.entry.step.request, run.checkpoint) : run.read < limit

Achieved(run, d) ==
  /\ d.wallet = "whole"
  /\ run.entry.step.op = "policy" => d.policy = "whole" /\ d.committed = <<run.entry.step.policy>>
  /\ run.entry.step.op = "register" => d.identity
  /\ run.entry.step.op = "sign" => Agreed(run.entry.step, d) /\ InTime(run)

Kept ==
  \A k \in DOMAIN helpers :
    /\ helpers[k].out = "none" => UnderWay(helpers[k], dir)
    /\ helpers[k].out = "done" => Achieved(helpers[k], dir)

AdapterInv == AdapterTypes /\ Numbered /\ Chained /\ Kept

----------------------------------------------------------------------------
(* The first rule that applies                                              *)

Verdicts == {"ok", "refused", "upgrade"}

LEMMA FirstOfIs ==
  ASSUME NEW rules, NEW n \in Nat, DOMAIN rules = 1 .. n
  PROVE  \/ Adapter!FirstOf(rules) = "ok" /\ \A i \in 1 .. n : ~rules[i][1]
         \/ \E i \in 1 .. n : Adapter!FirstOf(rules) = rules[i][2]
<1> DEFINE hits == {i \in DOMAIN rules : rules[i][1]}
<1>1. CASE hits = {}
  <2>1. Adapter!FirstOf(rules) = "ok"
    BY <1>1 DEF Adapter!FirstOf
  <2>2. \A i \in 1 .. n : ~rules[i][1]
    BY <1>1
  <2>3. QED BY <2>1, <2>2
<1>2. CASE hits # {}
  <2>1. Adapter!FirstOf(rules) = rules[Adapter!Min(hits)][2]
    BY <1>2 DEF Adapter!FirstOf
  <2>2. hits \subseteq Nat /\ hits \subseteq 1 .. n
    OBVIOUS
  <2> HIDE DEF hits
  <2>3. \E x \in hits : \A y \in hits : x <= y
    BY <1>2, <2>2, LeastNumber
  <2>4. Adapter!Min(hits) \in hits
    BY <2>3 DEF Adapter!Min
  <2>5. QED BY <2>1, <2>2, <2>4
<1>3. QED BY <1>1, <1>2

LEMMA CheckedIs ==
  ASSUME NEW request, NEW policy, NEW t
  PROVE  LET checked == Adapter!CheckedRequest(request, policy, t)
         IN checked \in {"ok", "expired", "invalid"} /\ (checked = "ok" => request.policy = policy)
<1> DEFINE rules == <<
      <<~Adapter!Complete(request) \/ request.policy # policy, "invalid">>,
      <<t >= request.deadline, "expired">>,
      <<~Adapter!KeyHolds(request, t), "invalid">>,
      <<request.descriptor # <<>> /\ request.descriptor[1] > request.deadline, "invalid">>,
      <<request.window # <<>> /\ t >= request.window[1].expires, "expired">>,
      <<request.window # <<>> /\ ~Adapter!WindowFits(request, policy, t), "invalid">>,
      <<request.proposal # <<>> /\ ~Adapter!ProposalAgrees(request, policy, t), "invalid">> >>
<1>1. Adapter!CheckedRequest(request, policy, t) = Adapter!FirstOf(rules)
  BY DEF Adapter!CheckedRequest
<1>2. /\ DOMAIN rules = 1 .. 7
      /\ rules[1][2] = "invalid" /\ rules[2][2] = "expired" /\ rules[3][2] = "invalid"
      /\ rules[4][2] = "invalid" /\ rules[5][2] = "expired" /\ rules[6][2] = "invalid"
      /\ rules[7][2] = "invalid"
  OBVIOUS
<1>3. ~rules[1][1] => request.policy = policy
  OBVIOUS
<1> HIDE DEF rules
<1>4. \A i \in 1 .. 7 : rules[i][2] \in {"expired", "invalid"}
  <2>1. \A i \in 1 .. 7 : i = 1 \/ i = 2 \/ i = 3 \/ i = 4 \/ i = 5 \/ i = 6 \/ i = 7
    OBVIOUS
  <2>2. QED BY <1>2, <2>1
<1>5. 1 \in 1 .. 7 /\ 7 \in Nat
  OBVIOUS
<1>6. \/ Adapter!FirstOf(rules) = "ok" /\ \A i \in 1 .. 7 : ~rules[i][1]
      \/ \E i \in 1 .. 7 : Adapter!FirstOf(rules) = rules[i][2]
  BY <1>2, <1>5, FirstOfIs
<1>7. QED BY <1>1, <1>3, <1>4, <1>5, <1>6

LEMMA ValidateIs ==
  ASSUME NEW step
  PROVE  Adapter!ValidateHelperStep(step) \in Verdicts
<1> DEFINE rules == << <<~Adapter!Structural(step), "refused">>, <<step.release # "pinned", "upgrade">>,
                       <<~Adapter!PayloadBinds(step), "refused">> >>
<1>1. Adapter!ValidateHelperStep(step) = Adapter!FirstOf(rules)
  BY DEF Adapter!ValidateHelperStep
<1>2. /\ DOMAIN rules = 1 .. 3
      /\ rules[1][2] = "refused" /\ rules[2][2] = "upgrade" /\ rules[3][2] = "refused"
  OBVIOUS
<1> HIDE DEF rules
<1>3. \A i \in 1 .. 3 : rules[i][2] \in Verdicts
  <2>1. \A i \in 1 .. 3 : i = 1 \/ i = 2 \/ i = 3
    OBVIOUS
  <2>2. QED BY <1>2, <2>1 DEF Verdicts
<1>4. \/ Adapter!FirstOf(rules) = "ok" \/ \E i \in 1 .. 3 : Adapter!FirstOf(rules) = rules[i][2]
  <2>1. 3 \in Nat
    OBVIOUS
  <2>2. QED BY <1>2, <2>1, FirstOfIs
<1>5. QED BY <1>1, <1>3, <1>4 DEF Verdicts

----------------------------------------------------------------------------
(* A result's helper steps                                                  *)

\* A sequence of sequences joined up to the k-th.
Joins(f, seqs, k) ==
  f = [i \in 1 .. k |-> IF i = 1 THEN seqs[i] ELSE f[i - 1] \o seqs[i]]

LEMMA JoinsExists ==
  ASSUME NEW seqs, NEW k \in Nat
  PROVE  \E f : Joins(f, seqs, k)
<1> DEFINE T == {n \in Nat : ~ \E f : Joins(f, seqs, n)}
<1>1. ASSUME T # {}
      PROVE  FALSE
  <2>1. PICK x \in T : \A y \in T : x <= y
    BY <1>1, LeastNumber
  <2>2. x # 0
    <3> DEFINE g == [n \in 1 .. 0 |-> <<>>]
    <3>1. g = [n \in 1 .. 0 |-> IF n = 1 THEN seqs[n] ELSE g[n - 1] \o seqs[n]]
      OBVIOUS
    <3>2. Joins(g, seqs, 0)
      BY <3>1 DEF Joins
    <3>3. QED BY <2>1, <3>2
  <2>3. x \in Nat /\ x - 1 \in Nat /\ x - 1 < x
    BY <2>1, <2>2
  <2>4. PICK f : Joins(f, seqs, x - 1)
    BY <2>1, <2>3
  <2> DEFINE last == IF x = 1 THEN seqs[x] ELSE f[x - 1] \o seqs[x]
             g == [n \in 1 .. x |-> IF n = x THEN last ELSE f[n]]
  <2>5. \A n \in 1 .. x - 1 : f[n] = IF n = 1 THEN seqs[n] ELSE f[n - 1] \o seqs[n]
    BY <2>4 DEF Joins
  <2>6. \A n \in 1 .. x : g[n] = IF n = 1 THEN seqs[n] ELSE g[n - 1] \o seqs[n]
    <3>1. SUFFICES ASSUME NEW n \in 1 .. x
                   PROVE  g[n] = IF n = 1 THEN seqs[n] ELSE g[n - 1] \o seqs[n]
      OBVIOUS
    <3>2. n # 1 => n - 1 \in 1 .. x /\ n - 1 # x /\ g[n - 1] = f[n - 1]
      BY <2>3, <3>1
    <3>3. CASE n = x
      BY <3>1, <3>2, <3>3
    <3>4. CASE n # x
      <4>1. n \in 1 .. x - 1 /\ g[n] = f[n]
        BY <2>3, <3>1, <3>4
      <4> HIDE DEF g
      <4>2. QED BY <2>5, <3>2, <4>1
    <3>5. QED BY <3>3, <3>4
  <2>7. g = [n \in 1 .. x |-> IF n = 1 THEN seqs[n] ELSE g[n - 1] \o seqs[n]]
    <3>1. g = [n \in 1 .. x |-> g[n]]
      OBVIOUS
    <3> HIDE DEF g
    <3>2. QED BY <2>6, <3>1
  <2> HIDE DEF g
  <2>8. Joins(g, seqs, x)
    BY <2>7 DEF Joins
  <2>9. QED BY <2>1, <2>8
<1>2. QED BY <1>1

LEMMA FlattenIs ==
  ASSUME NEW S, NEW seqs \in Seq(Seq(S))
  PROVE  Adapter!FlattenSeq(seqs) \in Seq(S)
<1> DEFINE f == CHOOSE g : Joins(g, seqs, Len(seqs))
<1>0. Len(seqs) \in Nat /\ \A i \in 1 .. Len(seqs) : seqs[i] \in Seq(S)
  OBVIOUS
<1>1. CASE Len(seqs) = 0
  <2>1. seqs = <<>>
    BY <1>1
  <2>2. QED BY <1>1, <2>1 DEF Adapter!FlattenSeq
<1>2. CASE Len(seqs) # 0
  <2>1. Adapter!FlattenSeq(seqs) = f[Len(seqs)]
    BY <1>2 DEF Adapter!FlattenSeq, Joins
  <2>2. Joins(f, seqs, Len(seqs))
    BY <1>0, JoinsExists
  <2> HIDE DEF f
  <2>3. \A i \in 1 .. Len(seqs) : f[i] = IF i = 1 THEN seqs[i] ELSE f[i - 1] \o seqs[i]
    BY <2>2 DEF Joins
  <2> DEFINE T == {i \in 1 .. Len(seqs) : f[i] \notin Seq(S)}
  <2>4. ASSUME T # {} PROVE FALSE
    <3>0. T \subseteq Nat
      BY <1>0
    <3>1. PICK x \in T : \A y \in T : x <= y
      BY <2>4, <3>0, LeastNumber
    <3>2. x \in 1 .. Len(seqs) /\ seqs[x] \in Seq(S) /\ f[x] \notin Seq(S)
      BY <1>0, <3>1
    <3>3. CASE x = 1
      BY <2>3, <3>2, <3>3
    <3>4. CASE x # 1
      <4>1. x - 1 \in 1 .. Len(seqs) /\ x - 1 < x
        BY <1>0, <3>2, <3>4
      <4>2. f[x - 1] \in Seq(S)
        BY <3>1, <4>1
      <4>3. f[x - 1] \o seqs[x] \in Seq(S)
        BY <3>2, <4>2
      <4>4. QED BY <2>3, <3>2, <3>4, <4>3
    <3>5. QED BY <3>3, <3>4
  <2>5. Len(seqs) \in 1 .. Len(seqs)
    BY <1>0, <1>2
  <2>6. QED BY <2>1, <2>4, <2>5
<1>3. QED BY <1>1, <1>2

LEMMA CandidatesAre ==
  ASSUME Adapter!AdapterAssumption, NEW result \in Results
  PROVE  Adapter!Candidates(result) \in Seq(HelperSteps)
<1>1. /\ result.items \in Seq([json : BOOLEAN, steps : Seq(HelperSteps)])
      /\ result.structured \in Seq(Seq(HelperSteps))
  BY DEF Adapter!AdapterAssumption, Adapter!ToolResult
<1> DEFINE seqs == [i \in DOMAIN result.items |-> result.items[i].steps]
<1>2. seqs \in Seq(Seq(HelperSteps))
  <2>1. Len(result.items) \in Nat /\ DOMAIN result.items = 1 .. Len(result.items)
    BY <1>1
  <2>2. \A i \in 1 .. Len(result.items) : result.items[i].steps \in Seq(HelperSteps)
    <3>1. \A i \in 1 .. Len(result.items) : result.items[i] \in [json : BOOLEAN, steps : Seq(HelperSteps)]
      BY <1>1, ElementOfSeq
    <3>2. \A item \in [json : BOOLEAN, steps : Seq(HelperSteps)] : item.steps \in Seq(HelperSteps)
      OBVIOUS
    <3>3. QED BY <3>1, <3>2
  <2>3. seqs \in [1 .. Len(result.items) -> Seq(HelperSteps)]
    BY <2>1, <2>2
  <2> HIDE DEF seqs
  <2>4. QED BY <2>1, <2>3, SeqDef
<1>3. Adapter!FlattenSeq(seqs) \in Seq(HelperSteps)
  <2> HIDE DEF seqs
  <2>1. QED BY <1>2, FlattenIs
<1>4. Adapter!FlattenSeq(result.structured) \in Seq(HelperSteps)
  BY <1>1, FlattenIs
<1>5. Adapter!Candidates(result) = Adapter!FlattenSeq(seqs) \o Adapter!FlattenSeq(result.structured)
  BY DEF Adapter!Candidates
<1> HIDE DEF seqs
<1>6. QED BY <1>3, <1>4, <1>5

LEMMA RefusalIs ==
  ASSUME Adapter!AdapterAssumption, NEW result \in Results
  PROVE  Adapter!Refusal(result) \in Verdicts
<1> DEFINE steps == Adapter!Candidates(result)
           verdict == [i \in DOMAIN steps |->
                         <<Adapter!ValidateHelperStep(steps[i]) # "ok", Adapter!ValidateHelperStep(steps[i])>>]
           first == << <<~Adapter!Normal(result), "refused">> >>
           rules == first \o verdict
<1>1. steps \in Seq(HelperSteps)
  BY CandidatesAre
<1>2. Adapter!Refusal(result) = Adapter!FirstOf(rules)
  BY DEF Adapter!Refusal
<1> HIDE DEF steps
<1>3. verdict \in Seq(BOOLEAN \X Verdicts)
  <2>1. Len(steps) \in Nat /\ DOMAIN steps = 1 .. Len(steps)
    BY <1>1
  <2>2. \A i \in DOMAIN steps :
          <<Adapter!ValidateHelperStep(steps[i]) # "ok", Adapter!ValidateHelperStep(steps[i])>>
            \in BOOLEAN \X Verdicts
    BY ValidateIs
  <2>3. verdict \in [1 .. Len(steps) -> BOOLEAN \X Verdicts]
    BY <2>1, <2>2
  <2> HIDE DEF verdict
  <2>4. QED BY <2>1, <2>3, SeqDef
<1>4. first \in Seq(BOOLEAN \X Verdicts)
  <2>1. PICK x : x = <<~Adapter!Normal(result), "refused">>
    OBVIOUS
  <2>2. x \in BOOLEAN \X Verdicts
    BY <2>1, Zenon DEF Verdicts
  <2>3. first = <<x>>
    BY <2>1
  <2> HIDE DEF first
  <2>4. QED BY <2>2, <2>3
<1> HIDE DEF verdict, first
<1>5. rules \in Seq(BOOLEAN \X Verdicts)
  BY <1>3, <1>4
<1> HIDE DEF rules
<1>6. Len(rules) \in Nat /\ DOMAIN rules = 1 .. Len(rules) /\ \A i \in 1 .. Len(rules) : rules[i][2] \in Verdicts
  BY <1>5
<1>7. \/ Adapter!FirstOf(rules) = "ok" \/ \E i \in 1 .. Len(rules) : Adapter!FirstOf(rules) = rules[i][2]
  BY <1>6, FirstOfIs
<1>8. QED BY <1>2, <1>6, <1>7 DEF Verdicts

----------------------------------------------------------------------------
(* Staging, and the queue's young part                                      *)

StageRecord(s) == s = [queue |-> s.queue, count |-> s.count, full |-> s.full] /\ s.full \in BOOLEAN

LEMMA StageOne ==
  ASSUME now \in Nat, NEW s, StageRecord(s), NumberedIn(s.queue, s.count), NEW step \in HelperSteps
  PROVE  LET later == Adapter!Stage(s, step)
         IN StageRecord(later) /\ NumberedIn(later.queue, later.count)
<1> DEFINE later == Adapter!Stage(s, step)
           entry == [step |-> step, at |-> now, number |-> s.count + 1]
           longer == Append(s.queue, entry)
<1> SUFFICES StageRecord(later) /\ NumberedIn(later.queue, later.count)
  OBVIOUS
<1>1. CASE later = s
  BY <1>1
<1>2. CASE later = [s EXCEPT !.full = TRUE]
  <2>1. later = [queue |-> s.queue, count |-> s.count, full |-> TRUE]
    BY <1>2 DEF StageRecord
  <2> HIDE DEF later
  <2>2. later.queue = s.queue /\ later.count = s.count /\ later.full = TRUE
    BY <2>1
  <2>3. QED BY <2>1, <2>2 DEF StageRecord
<1>3. CASE later = [queue |-> longer, count |-> s.count + 1, full |-> FALSE]
  <2>1. s.count \in Nat /\ s.queue \in Seq(Entries)
    BY DEF NumberedIn
  <2>2. entry \in Entries /\ entry.at = now /\ entry.number = s.count + 1
    BY <2>1 DEF Entries
  <2> HIDE DEF entry
  <2>3. /\ longer \in Seq(Entries) /\ Len(longer) = Len(s.queue) + 1
        /\ longer[Len(s.queue) + 1] = entry
        /\ \A i \in 1 .. Len(s.queue) : longer[i] = s.queue[i]
    BY <2>1, <2>2, AppendProperties
  <2> HIDE DEF longer
  <2>4. /\ DOMAIN longer = 1 .. Len(s.queue) + 1 /\ DOMAIN s.queue = 1 .. Len(s.queue)
        /\ Len(s.queue) \in Nat
    BY <2>1, <2>3
  <2>5. \A i \in DOMAIN longer : i \in DOMAIN s.queue \/ i = Len(s.queue) + 1
    BY <2>4
  <2>6. \A i \in DOMAIN s.queue : s.queue[i].number \in 1 .. s.count /\ s.queue[i].at <= now
    BY DEF NumberedIn
  <2>7. \A i \in DOMAIN longer : longer[i].number \in 1 .. s.count + 1 /\ longer[i].at <= now
    BY <2>1, <2>2, <2>3, <2>4, <2>5, <2>6
  <2>8. \A i, j \in DOMAIN longer : i < j => longer[i].number < longer[j].number
    <3>1. SUFFICES ASSUME NEW i \in DOMAIN longer, NEW j \in DOMAIN longer, i < j
                   PROVE  longer[i].number < longer[j].number
      OBVIOUS
    <3>2. i \in DOMAIN s.queue /\ longer[i] = s.queue[i]
      BY <2>3, <2>4, <3>1
    <3>3. CASE j \in DOMAIN s.queue
      <4>1. longer[j] = s.queue[j]
        BY <2>3, <2>4, <3>3
      <4>2. QED BY <3>1, <3>2, <3>3, <4>1 DEF NumberedIn
    <3>4. CASE j = Len(s.queue) + 1
      <4>1. longer[j].number = s.count + 1 /\ s.queue[i].number \in 1 .. s.count
        BY <2>2, <2>3, <2>6, <3>2, <3>4
      <4>2. QED BY <2>1, <3>2, <4>1
    <3>5. QED BY <2>5, <3>3, <3>4
  <2>9. ASSUME NEW k \in DOMAIN helpers
        PROVE  /\ helpers[k].entry.number \in 1 .. s.count + 1
               /\ \A i \in DOMAIN longer : helpers[k].entry.number < longer[i].number
    <3>1. /\ helpers[k].entry.number \in 1 .. s.count
          /\ \A i \in DOMAIN s.queue : helpers[k].entry.number < s.queue[i].number
      BY <2>9 DEF NumberedIn
    <3>2. longer[Len(s.queue) + 1].number = s.count + 1
      BY <2>2, <2>3
    <3>3. \A i \in DOMAIN s.queue : longer[i] = s.queue[i]
      BY <2>3, <2>4
    <3>4. helpers[k].entry.number \in Int /\ helpers[k].entry.number < s.count + 1
          /\ helpers[k].entry.number \in 1 .. s.count + 1
      BY <2>1, <3>1
    <3>5. QED BY <2>5, <3>1, <3>2, <3>3, <3>4
  <2>10. later.queue = longer /\ later.count = s.count + 1 /\ later.full = FALSE
         /\ later = [queue |-> later.queue, count |-> later.count, full |-> later.full]
    BY <1>3
  <2> HIDE DEF later
  <2>11. NumberedIn(longer, s.count + 1)
    BY <2>1, <2>3, <2>7, <2>8, <2>9 DEF NumberedIn
  <2>12. QED BY <2>10, <2>11 DEF StageRecord
<1>4. later = s \/ later = [s EXCEPT !.full = TRUE]
      \/ later = [queue |-> longer, count |-> s.count + 1, full |-> FALSE]
  BY DEF Adapter!Stage
<1>5. QED BY <1>1, <1>2, <1>3, <1>4

\* The stage after each of the first k steps.
Stages(f, start, steps, k) ==
  f = [i \in 0 .. k |-> IF i = 0 THEN start ELSE Adapter!Stage(f[i - 1], steps[i])]

LEMMA StagesExist ==
  ASSUME NEW start, NEW steps, NEW k \in Nat
  PROVE  \E f : Stages(f, start, steps, k)
<1> DEFINE T == {n \in Nat : ~ \E f : Stages(f, start, steps, n)}
<1>1. ASSUME T # {}
      PROVE  FALSE
  <2>1. PICK x \in T : \A y \in T : x <= y
    BY <1>1, LeastNumber
  <2>2. x # 0
    <3> DEFINE g == [n \in 0 .. 0 |-> start]
    <3>1. g = [n \in 0 .. 0 |-> IF n = 0 THEN start ELSE Adapter!Stage(g[n - 1], steps[n])]
      OBVIOUS
    <3>2. Stages(g, start, steps, 0)
      BY <3>1 DEF Stages
    <3>3. QED BY <2>1, <3>2
  <2>3. x \in Nat /\ x - 1 \in Nat /\ x - 1 < x
    BY <2>1, <2>2
  <2>4. PICK f : Stages(f, start, steps, x - 1)
    BY <2>1, <2>3
  <2> DEFINE g == [n \in 0 .. x |-> IF n = x THEN Adapter!Stage(f[x - 1], steps[x]) ELSE f[n]]
  <2>5. \A n \in 0 .. x - 1 : f[n] = IF n = 0 THEN start ELSE Adapter!Stage(f[n - 1], steps[n])
    BY <2>4 DEF Stages
  <2>6. \A n \in 0 .. x : g[n] = IF n = 0 THEN start ELSE Adapter!Stage(g[n - 1], steps[n])
    <3>1. SUFFICES ASSUME NEW n \in 0 .. x
                   PROVE  g[n] = IF n = 0 THEN start ELSE Adapter!Stage(g[n - 1], steps[n])
      OBVIOUS
    <3>2. CASE n = x
      <4>1. g[n] = Adapter!Stage(f[x - 1], steps[x]) /\ g[n - 1] = f[x - 1] /\ n # 0
        BY <2>2, <2>3, <3>2
      <4>2. QED BY <3>2, <4>1
    <3>3. CASE n # x
      <4>1. n \in 0 .. x - 1 /\ g[n] = f[n]
        BY <2>3, <3>1, <3>3
      <4>2. n # 0 => g[n - 1] = f[n - 1]
        BY <2>3, <3>1, <3>3
      <4>3. QED BY <2>5, <4>1, <4>2
    <3>4. QED BY <3>2, <3>3
  <2>7. g = [n \in 0 .. x |-> IF n = 0 THEN start ELSE Adapter!Stage(g[n - 1], steps[n])]
    <3>1. g = [n \in 0 .. x |-> g[n]]
      OBVIOUS
    <3> HIDE DEF g
    <3>2. QED BY <2>6, <3>1
  <2> HIDE DEF g
  <2>8. Stages(g, start, steps, x)
    BY <2>7 DEF Stages
  <2>9. QED BY <2>1, <2>8
<1>2. QED BY <1>1

LEMMA StagedIs ==
  ASSUME Adapter!AdapterAssumption, NEW result \in Results, now \in Nat, NumberedIn(queue, stagedEver)
  PROVE  NumberedIn(Adapter!StageAll(result).queue, Adapter!StageAll(result).count)
<1> DEFINE steps == Adapter!Candidates(result)
           start == [queue |-> queue, count |-> stagedEver, full |-> FALSE]
           after == CHOOSE f : Stages(f, start, steps, Len(steps))
<1>1. Adapter!StageAll(result) = after[Len(steps)]
  BY DEF Adapter!StageAll, Stages
<1>2. steps \in Seq(HelperSteps)
  BY CandidatesAre
<1> HIDE DEF steps
<1>3. Len(steps) \in Nat /\ \A i \in 1 .. Len(steps) : steps[i] \in HelperSteps
  BY <1>2
<1>4. Stages(after, start, steps, Len(steps))
  <2> HIDE DEF start
  <2>1. QED BY <1>3, StagesExist
<1> HIDE DEF after
<1>5. after[0] = start /\ \A i \in 1 .. Len(steps) : after[i] = Adapter!Stage(after[i - 1], steps[i])
  <2> HIDE DEF start
  <2>1. QED BY <1>3, <1>4 DEF Stages
<1> DEFINE Good(i) == StageRecord(after[i]) /\ NumberedIn(after[i].queue, after[i].count)
           T == {i \in 0 .. Len(steps) : ~Good(i)}
<1>6. Good(0)
  BY <1>5 DEF StageRecord
<1>7. ASSUME NEW i \in 1 .. Len(steps), Good(i - 1) PROVE Good(i)
  BY <1>3, <1>5, <1>7, StageOne
<1> HIDE DEF Good
<1>8. ASSUME T # {} PROVE FALSE
  <2>1. T \subseteq Nat
    BY <1>3
  <2>2. PICK x \in T : \A y \in T : x <= y
    BY <1>8, <2>1, LeastNumber
  <2>3. x \in 0 .. Len(steps) /\ ~Good(x)
    BY <2>2
  <2>4. x \in 1 .. Len(steps) /\ x - 1 \in 0 .. Len(steps) /\ x - 1 < x
    BY <1>3, <1>6, <2>3
  <2>5. x - 1 \notin T
    BY <2>2, <2>4
  <2>6. Good(x - 1)
    BY <2>4, <2>5
  <2>7. QED BY <1>7, <2>3, <2>4, <2>6
<1>9. Good(Len(steps))
  <2>1. Len(steps) \in 0 .. Len(steps)
    BY <1>3
  <2>2. QED BY <1>8, <2>1
<1>10. QED BY <1>1, <1>9 DEF Good

LEMMA FreshIs ==
  ASSUME NumberedIn(queue, stagedEver), Adapter!Fresh # <<>>
  PROVE  LET rest == Tail(Adapter!Fresh)
             first == Head(Adapter!Fresh)
         IN /\ NumberedIn(rest, stagedEver)
            /\ first \in Entries /\ first.number \in 1 .. stagedEver
            /\ \A k \in DOMAIN helpers : helpers[k].entry.number < first.number
            /\ \A i \in DOMAIN rest : first.number < rest[i].number
<1> DEFINE young == {i \in DOMAIN queue : now - queue[i].at <= StagedTtl}
           m == Adapter!Min(young)
           fresh == SubSeq(queue, m, Len(queue))
<1>1. young # {} /\ Adapter!Fresh = fresh
  BY DEF Adapter!Fresh
<1>2. queue \in Seq(Entries) /\ Len(queue) \in Nat /\ DOMAIN queue = 1 .. Len(queue)
  BY DEF NumberedIn
<1>3. m \in 1 .. Len(queue)
  <2>1. young \subseteq Nat /\ young \subseteq 1 .. Len(queue)
    BY <1>2
  <2> HIDE DEF young
  <2>2. \E x \in young : \A y \in young : x <= y
    BY <1>1, <2>1, LeastNumber
  <2>3. m \in young
    BY <2>2 DEF Adapter!Min
  <2>4. QED BY <2>1, <2>3
<1> HIDE DEF m
<1>4. /\ fresh \in Seq(Entries) /\ Len(fresh) = Len(queue) - m + 1
      /\ \A i \in 1 .. Len(fresh) : fresh[i] = queue[m + i - 1]
  BY <1>2, <1>3, SubSeqProperties
<1> HIDE DEF fresh
<1>5. Len(fresh) \in Nat /\ Len(fresh) >= 1 /\ fresh # <<>> /\ DOMAIN fresh = 1 .. Len(fresh)
  BY <1>2, <1>3, <1>4
<1> DEFINE rest == Tail(fresh)
<1>6. Head(fresh) = queue[m]
  BY <1>3, <1>4, <1>5
<1>7. /\ rest \in Seq(Entries) /\ Len(rest) = Len(fresh) - 1
      /\ \A i \in 1 .. Len(rest) : rest[i] = fresh[i + 1]
  BY <1>4, <1>5, HeadTailProperties
<1> HIDE DEF rest
<1>8. DOMAIN rest = 1 .. Len(rest)
  BY <1>7
<1>9. \A i \in DOMAIN rest : m + i \in DOMAIN queue /\ m < m + i /\ rest[i] = queue[m + i]
  <2>1. SUFFICES ASSUME NEW i \in DOMAIN rest
                 PROVE  m + i \in DOMAIN queue /\ m < m + i /\ rest[i] = queue[m + i]
    OBVIOUS
  <2>2. i \in 1 .. Len(queue) - m /\ i + 1 \in 1 .. Len(fresh)
    BY <1>2, <1>3, <1>4, <1>7, <1>8
  <2>3. rest[i] = fresh[i + 1] /\ fresh[i + 1] = queue[m + (i + 1) - 1]
    BY <1>4, <1>7, <1>8, <2>2
  <2>4. m + (i + 1) - 1 = m + i /\ m + i \in 1 .. Len(queue) /\ m < m + i
    BY <1>2, <1>3, <2>2
  <2>5. QED BY <1>2, <2>3, <2>4
<1>10. m \in DOMAIN queue /\ queue[m] \in Entries
  BY <1>2, <1>3
<1>11. \A i, j \in DOMAIN rest : i < j => m + i < m + j
  BY <1>3, <1>7, <1>8
<1>12. NumberedIn(rest, stagedEver)
  <2>1. \A i \in DOMAIN rest : rest[i].number \in 1 .. stagedEver /\ rest[i].at <= now
    BY <1>9 DEF NumberedIn
  <2>2. \A i, j \in DOMAIN rest : i < j => rest[i].number < rest[j].number
    BY <1>9, <1>11 DEF NumberedIn
  <2>3. \A k \in DOMAIN helpers :
          /\ helpers[k].entry.number \in 1 .. stagedEver
          /\ \A i \in DOMAIN rest : helpers[k].entry.number < rest[i].number
    BY <1>9 DEF NumberedIn
  <2>4. stagedEver \in Nat
    BY DEF NumberedIn
  <2>5. QED BY <1>7, <2>1, <2>2, <2>3, <2>4 DEF NumberedIn
<1>13. /\ queue[m].number \in 1 .. stagedEver
       /\ \A k \in DOMAIN helpers : helpers[k].entry.number < queue[m].number
       /\ \A i \in DOMAIN rest : queue[m].number < rest[i].number
  BY <1>9, <1>10 DEF NumberedIn
<1>14. QED BY <1>1, <1>6, <1>10, <1>12, <1>13 DEF rest

----------------------------------------------------------------------------
(* Calls and answers                                                        *)

LEMMA AnswersAre ==
  /\ Adapter!Pending \in ToolAnswers
  /\ \A kind \in AnswerKinds : Adapter!Says(kind) \in ToolAnswers
  /\ \A kind \in AnswerKinds \ {"pending"} : Adapter!Says(kind) # Adapter!Pending
  /\ \A kind : Adapter!Says(kind).says = kind
  /\ \A steps \in Seq(HelperSteps) :
       /\ Adapter!Shows(steps) \in ToolAnswers /\ Adapter!Shows(steps).says = "shown"
       /\ Adapter!Shows(steps) # Adapter!Pending
<1>1. \A kind : Adapter!Says(kind) = [says |-> kind, steps |-> <<>>]
  BY DEF Adapter!Says
<1>2. \A steps : Adapter!Shows(steps) = [says |-> "shown", steps |-> steps]
  BY DEF Adapter!Shows
<1>3. Adapter!Pending = [says |-> "pending", steps |-> <<>>]
  BY DEF Adapter!Pending
<1>4. <<>> \in Seq(HelperSteps)
  OBVIOUS
<1>5. \A kind \in AnswerKinds, steps \in Seq(HelperSteps) : [says |-> kind, steps |-> steps] \in ToolAnswers
  BY DEF ToolAnswers
<1>6. "pending" \in AnswerKinds /\ "shown" \in AnswerKinds
  BY DEF AnswerKinds
<1>7. QED BY <1>1, <1>2, <1>3, <1>4, <1>5, <1>6

LEMMA AnsweredIs ==
  ASSUME toolCalls \in Seq(ToolCalls), NEW c \in DOMAIN toolCalls, NEW a \in ToolAnswers,
         toolCalls' = [toolCalls EXCEPT ![c].answer = a]
  PROVE  /\ toolCalls' \in Seq(ToolCalls) /\ DOMAIN toolCalls' = DOMAIN toolCalls
         /\ toolCalls'[c].answer = a
         /\ \A d \in DOMAIN toolCalls : toolCalls'[d].kind = toolCalls[d].kind
         /\ \A d \in DOMAIN toolCalls : d # c => toolCalls'[d] = toolCalls[d]
<1>1. Len(toolCalls) \in Nat /\ DOMAIN toolCalls = 1 .. Len(toolCalls)
      /\ \A d \in DOMAIN toolCalls : toolCalls[d] \in ToolCalls
  BY ElementOfSeq
<1> DEFINE r == [toolCalls[c] EXCEPT !.answer = a]
<1>2. r \in ToolCalls /\ r.answer = a /\ r.kind = toolCalls[c].kind
  BY <1>1 DEF ToolCalls
<1>3. toolCalls' = [toolCalls EXCEPT ![c] = r]
  OBVIOUS
<1> HIDE DEF r
<1>4. DOMAIN toolCalls' = DOMAIN toolCalls /\ toolCalls'[c] = r
      /\ \A d \in DOMAIN toolCalls : d # c => toolCalls'[d] = toolCalls[d]
  BY <1>3
<1>5. toolCalls' \in Seq(ToolCalls)
  <2>1. toolCalls \in Seq(ToolCalls) /\ c \in 1 .. Len(toolCalls)
    BY <1>1
  <2>2. QED BY <1>2, <1>3, <2>1, ExceptSeq
<1>6. QED BY <1>2, <1>4, <1>5

\* What a call's answer leaves as it was.
LEMMA AnsweredOK ==
  ASSUME AdapterInv, NEW c \in DOMAIN toolCalls, toolCalls[c].answer = Adapter!Pending,
         NEW a \in ToolAnswers, a # Adapter!Pending, toolCalls' = [toolCalls EXCEPT ![c].answer = a],
         turns' = turns \ {c}, helpers' = helpers,
         \A k \in DOMAIN helpers : helpers[k].call = c => ~Adapter!Running(k),
         a.says = "done" => \A k \in DOMAIN helpers : helpers[k].call = c => helpers[k].out = "done"
  PROVE  /\ toolCalls' \in Seq(ToolCalls) /\ DOMAIN toolCalls' = DOMAIN toolCalls
         /\ turns' = {d \in DOMAIN toolCalls' :
                        toolCalls'[d].kind = "run" /\ toolCalls'[d].answer = Adapter!Pending}
         /\ Chained'
<1>1. /\ toolCalls' \in Seq(ToolCalls) /\ DOMAIN toolCalls' = DOMAIN toolCalls
      /\ toolCalls'[c].answer = a
      /\ \A d \in DOMAIN toolCalls : toolCalls'[d].kind = toolCalls[d].kind
      /\ \A d \in DOMAIN toolCalls : d # c => toolCalls'[d] = toolCalls[d]
  BY AnsweredIs DEF AdapterInv, AdapterTypes
<1>2. turns = {d \in DOMAIN toolCalls :
                 toolCalls[d].kind = "run" /\ toolCalls[d].answer = Adapter!Pending}
  BY DEF AdapterInv, AdapterTypes
<1>3. turns' = {d \in DOMAIN toolCalls' :
                  toolCalls'[d].kind = "run" /\ toolCalls'[d].answer = Adapter!Pending}
  BY <1>1, <1>2
<1>4. Chained'
  <2>1. \A k \in DOMAIN helpers : helpers[k].call \in DOMAIN toolCalls
    BY DEF AdapterInv, AdapterTypes
  <2>2. \A d \in DOMAIN toolCalls : (Adapter!Open(d))' <=> d # c /\ Adapter!Open(d)
    BY <1>1 DEF Adapter!Open
  <2>3. ASSUME NEW k \in DOMAIN helpers
        PROVE  /\ toolCalls'[helpers[k].call].kind = "run"
               /\ Adapter!Running(k) => (Adapter!Open(helpers[k].call))'
               /\ (Adapter!Open(helpers[k].call))' =>
                     k = Len(helpers) /\ \A d \in turns' : helpers[k].call <= d
               /\ toolCalls'[helpers[k].call].answer.says = "done" => helpers[k].out = "done"
    <3>1. /\ toolCalls[helpers[k].call].kind = "run"
          /\ Adapter!Running(k) => Adapter!Open(helpers[k].call)
          /\ Adapter!Open(helpers[k].call) =>
                k = Len(helpers) /\ \A d \in turns : helpers[k].call <= d
          /\ toolCalls[helpers[k].call].answer.says = "done" => helpers[k].out = "done"
      BY <2>3 DEF AdapterInv, Chained
    <3>2. (Adapter!Open(helpers[k].call))' <=> helpers[k].call # c /\ Adapter!Open(helpers[k].call)
      BY <1>1, <2>1, <2>3 DEF Adapter!Open
    <3>3. QED BY <1>1, <2>1, <2>3, <3>1, <3>2
  <2>4. QED BY <2>3 DEF AdapterInv, Chained, Adapter!Running
<1>5. QED BY <1>1, <1>3, <1>4

\* What depends on the queue, and on the directory, alone.
LEMMA NumberedSame ==
  ASSUME Numbered, UNCHANGED <<now, helpers, queue, stagedEver>>
  PROVE  Numbered'
BY DEF Numbered, NumberedIn

LEMMA KeptSame ==
  ASSUME Kept, UNCHANGED <<dir, helpers>>
  PROVE  Kept'
BY DEF Kept

LEMMA TypesSame ==
  ASSUME AdapterTypes, UNCHANGED <<dir, helpers>>, now' \in 0 .. MaxTime,
         toolCalls' \in Seq(ToolCalls), DOMAIN toolCalls \subseteq DOMAIN toolCalls',
         turns' = {d \in DOMAIN toolCalls' :
                     toolCalls'[d].kind = "run" /\ toolCalls'[d].answer = Adapter!Pending}
  PROVE  AdapterTypes'
<1>1. Adapter!Directory(dir)' <=> Adapter!Directory(dir)
  BY DEF Adapter!Directory, Adapter!EmptyDir
<1>2. IsSequence(helpers)' <=> IsSequence(helpers)
  BY DEF IsSequence
<1>3. \A k \in DOMAIN helpers : helpers[k].call \in DOMAIN toolCalls'
  BY DEF AdapterTypes
<1>4. (Adapter!Pending)' = Adapter!Pending
  BY DEF Adapter!Pending
<1>5. QED BY <1>1, <1>2, <1>3, <1>4 DEF AdapterTypes

LEMMA AdapterStarts ==
  ASSUME Adapter!AdapterAssumption, Adapter!Init
  PROVE  AdapterInv
<1>1. /\ now = 0 /\ Adapter!Directory(dir) /\ helpers = <<>> /\ queue = <<>> /\ stagedEver = 0
      /\ toolCalls = <<>> /\ turns = {} /\ MaxTime \in Nat
  BY DEF Adapter!Init, Adapter!AdapterAssumption
<1>2. DOMAIN helpers = {} /\ DOMAIN queue = {} /\ DOMAIN toolCalls = {}
  BY <1>1
<1>3. AdapterTypes
  <2>1. IsSequence(helpers)
    BY <1>1 DEF IsSequence
  <2>2. QED BY <1>1, <1>2, <2>1 DEF AdapterTypes
<1>4. Numbered
  BY <1>1, <1>2 DEF Numbered, NumberedIn
<1>5. Chained /\ Kept
  BY <1>2 DEF Chained, Kept
<1>6. QED BY <1>3, <1>4, <1>5 DEF AdapterInv

LEMMA CallKeeps ==
  ASSUME AdapterInv, NEW kind \in {"up", "run"}, Adapter!Call(kind)
  PROVE  AdapterInv'
<1> DEFINE n == Len(toolCalls) + 1
           call == [kind |-> kind, answer |-> Adapter!Pending]
<1>1. /\ toolCalls' = Append(toolCalls, call)
      /\ turns' = IF kind = "run" THEN turns \cup {n} ELSE turns
      /\ UNCHANGED <<now, dir, helpers, queue, stagedEver>>
  BY DEF Adapter!Call
<1>2. toolCalls \in Seq(ToolCalls) /\ Len(toolCalls) \in Nat /\ DOMAIN toolCalls = 1 .. Len(toolCalls)
      /\ n \in Nat /\ n \notin DOMAIN toolCalls
  BY DEF AdapterInv, AdapterTypes
<1>3. call \in ToolCalls /\ call.kind = kind /\ call.answer = Adapter!Pending
  BY AnswersAre DEF ToolCalls
<1> HIDE DEF call
<1>4. /\ toolCalls' \in Seq(ToolCalls) /\ Len(toolCalls') = n /\ toolCalls'[n] = call
      /\ \A c \in DOMAIN toolCalls : toolCalls'[c] = toolCalls[c]
  BY <1>1, <1>2, <1>3, AppendProperties
<1>5. DOMAIN toolCalls' = DOMAIN toolCalls \cup {n}
  BY <1>2, <1>4
<1>6. turns = {c \in DOMAIN toolCalls :
                 toolCalls[c].kind = "run" /\ toolCalls[c].answer = Adapter!Pending}
  BY DEF AdapterInv, AdapterTypes
<1> HIDE DEF n
<1>7. turns' = {c \in DOMAIN toolCalls' :
                  toolCalls'[c].kind = "run" /\ toolCalls'[c].answer = Adapter!Pending}
  <2>1. \A c \in DOMAIN toolCalls :
          c \in turns' <=> toolCalls'[c].kind = "run" /\ toolCalls'[c].answer = Adapter!Pending
    BY <1>1, <1>2, <1>4, <1>6
  <2>2. n \in turns' <=> toolCalls'[n].kind = "run" /\ toolCalls'[n].answer = Adapter!Pending
    BY <1>1, <1>2, <1>3, <1>4, <1>6
  <2>3. turns' \subseteq DOMAIN toolCalls'
    BY <1>1, <1>5, <1>6
  <2>4. QED BY <1>5, <2>1, <2>2, <2>3
<1>8. AdapterTypes'
  BY <1>1, <1>4, <1>5, <1>7, TypesSame DEF AdapterInv, AdapterTypes
<1>9. Chained'
  <2>1. \A k \in DOMAIN helpers : helpers[k].call \in DOMAIN toolCalls
    BY DEF AdapterInv, AdapterTypes
  <2>2. \A c \in DOMAIN toolCalls : c < n
    BY <1>2 DEF n
  <2>3. ASSUME NEW k \in DOMAIN helpers
        PROVE  /\ toolCalls'[helpers[k].call].kind = "run"
               /\ Adapter!Running(k) => (Adapter!Open(helpers[k].call))'
               /\ (Adapter!Open(helpers[k].call))' =>
                     k = Len(helpers) /\ \A d \in turns' : helpers[k].call <= d
               /\ toolCalls'[helpers[k].call].answer.says = "done" => helpers[k].out = "done"
    <3>1. /\ toolCalls[helpers[k].call].kind = "run"
          /\ Adapter!Running(k) => Adapter!Open(helpers[k].call)
          /\ Adapter!Open(helpers[k].call) =>
                k = Len(helpers) /\ \A d \in turns : helpers[k].call <= d
          /\ toolCalls[helpers[k].call].answer.says = "done" => helpers[k].out = "done"
      BY <2>3 DEF AdapterInv, Chained
    <3>2. toolCalls'[helpers[k].call] = toolCalls[helpers[k].call]
      BY <1>4, <2>1
    <3>3. (Adapter!Open(helpers[k].call))' <=> Adapter!Open(helpers[k].call)
      BY <1>1, <1>5, <2>1, <3>2 DEF Adapter!Open, Adapter!Pending
    <3>4. helpers[k].call \in DOMAIN toolCalls /\ helpers[k].call <= n
      BY <1>2, <2>1, <2>2
    <3>5. \A d \in turns' : d \in turns \/ d = n
      BY <1>1
    <3>6. QED BY <3>1, <3>2, <3>3, <3>4, <3>5
  <2>4. QED BY <1>1, <2>3 DEF AdapterInv, Chained, Adapter!Running
<1>10. QED BY <1>1, <1>8, <1>9, NumberedSame, KeptSame DEF AdapterInv

\* A call that is answered, whatever becomes of the queue.
LEMMA AnswerKeeps ==
  ASSUME AdapterInv, NEW c \in DOMAIN toolCalls, toolCalls[c].answer = Adapter!Pending,
         NEW a \in ToolAnswers, a # Adapter!Pending, toolCalls' = [toolCalls EXCEPT ![c].answer = a],
         turns' = turns \ {c}, UNCHANGED <<now, dir, helpers>>, NumberedIn(queue', stagedEver'),
         \A k \in DOMAIN helpers : helpers[k].call = c => ~Adapter!Running(k),
         a.says = "done" => \A k \in DOMAIN helpers : helpers[k].call = c => helpers[k].out = "done"
  PROVE  AdapterInv'
<1>1. /\ toolCalls' \in Seq(ToolCalls) /\ DOMAIN toolCalls' = DOMAIN toolCalls
      /\ turns' = {d \in DOMAIN toolCalls' :
                     toolCalls'[d].kind = "run" /\ toolCalls'[d].answer = Adapter!Pending}
      /\ Chained'
  BY AnsweredOK
<1>2. AdapterTypes'
  BY <1>1, TypesSame DEF AdapterInv, AdapterTypes
<1>3. Numbered'
  BY DEF AdapterInv, Numbered, NumberedIn
<1>4. QED BY <1>1, <1>2, <1>3, KeptSame DEF AdapterInv

\* No run belongs to a call of a coordinator's tool.
LEMMA UpHasNoRun ==
  ASSUME AdapterInv, NEW c \in DOMAIN toolCalls, toolCalls[c].kind = "up"
  PROVE  (\A k \in DOMAIN helpers : helpers[k].call # c) /\ turns \ {c} = turns
<1>1. \A k \in DOMAIN helpers : helpers[k].call # c
  BY DEF AdapterInv, Chained
<1>2. c \notin turns
  BY DEF AdapterInv, AdapterTypes
<1>3. QED BY <1>1, <1>2

LEMMA RelayKeeps ==
  ASSUME Adapter!AdapterAssumption, AdapterInv, NEW c \in DOMAIN toolCalls, NEW result \in Results,
         Adapter!Relay(c, result)
  PROVE  AdapterInv'
<1>1. /\ toolCalls[c].answer = Adapter!Pending /\ toolCalls[c].kind = "up"
      /\ UNCHANGED <<now, dir, helpers, turns>>
  BY DEF Adapter!Relay, Adapter!Open
<1>2. (\A k \in DOMAIN helpers : helpers[k].call # c) /\ turns' = turns \ {c}
  BY <1>1, UpHasNoRun
<1>3. NumberedIn(queue, stagedEver) /\ now \in Nat
  BY DEF AdapterInv, Numbered, AdapterTypes
<1>4. CASE /\ Adapter!Refusal(result) # "ok" /\ Adapter!Answers(c, Adapter!Says(Adapter!Refusal(result)))
           /\ UNCHANGED <<queue, stagedEver>>
  <2>1. PICK kind : kind = Adapter!Refusal(result)
    OBVIOUS
  <2>2. kind \in {"refused", "upgrade"}
    BY <1>4, <2>1, RefusalIs DEF Verdicts
  <2>3. /\ Adapter!Says(kind) \in ToolAnswers /\ Adapter!Says(kind) # Adapter!Pending
        /\ Adapter!Says(kind).says # "done"
    BY <2>2, AnswersAre DEF AnswerKinds
  <2>4. toolCalls' = [toolCalls EXCEPT ![c].answer = Adapter!Says(kind)]
    BY <1>4, <2>1 DEF Adapter!Answers
  <2>5. QED BY <1>1, <1>2, <1>3, <1>4, <2>3, <2>4, AnswerKeeps
<1>5. CASE /\ Adapter!Refusal(result) = "ok"
           /\ queue' = Adapter!StageAll(result).queue /\ stagedEver' = Adapter!StageAll(result).count
           /\ Adapter!Answers(c, IF Adapter!StageAll(result).full THEN Adapter!Says("refused")
                                 ELSE Adapter!Shows(Adapter!Candidates(result)))
  <2>1. PICK a : a = IF Adapter!StageAll(result).full THEN Adapter!Says("refused")
                     ELSE Adapter!Shows(Adapter!Candidates(result))
    OBVIOUS
  <2>2. a \in ToolAnswers /\ a # Adapter!Pending /\ a.says # "done"
    BY <2>1, AnswersAre, CandidatesAre DEF AnswerKinds
  <2>3. toolCalls' = [toolCalls EXCEPT ![c].answer = a]
    BY <1>5, <2>1 DEF Adapter!Answers
  <2>4. NumberedIn(queue', stagedEver')
    BY <1>3, <1>5, StagedIs
  <2>5. QED BY <1>1, <1>2, <2>2, <2>3, <2>4, AnswerKeeps
<1>6. QED BY <1>4, <1>5 DEF Adapter!Relay

LEMMA UpstreamFailsKeeps ==
  ASSUME AdapterInv, NEW c \in DOMAIN toolCalls, Adapter!UpstreamFails(c)
  PROVE  AdapterInv'
<1>1. /\ toolCalls[c].answer = Adapter!Pending /\ toolCalls[c].kind = "up"
      /\ toolCalls' = [toolCalls EXCEPT ![c].answer = Adapter!Says("error")]
      /\ UNCHANGED <<now, dir, helpers, queue, stagedEver, turns>>
  BY DEF Adapter!UpstreamFails, Adapter!Open, Adapter!Answers
<1>2. (\A k \in DOMAIN helpers : helpers[k].call # c) /\ turns' = turns \ {c}
  BY <1>1, UpHasNoRun
<1>3. /\ Adapter!Says("error") \in ToolAnswers /\ Adapter!Says("error") # Adapter!Pending
      /\ Adapter!Says("error").says # "done"
  BY AnswersAre DEF AnswerKinds
<1>4. NumberedIn(queue', stagedEver')
  BY <1>1 DEF AdapterInv, Numbered, NumberedIn
<1>5. QED BY <1>1, <1>2, <1>3, <1>4, AnswerKeeps

LEMMA FinishKeeps ==
  ASSUME AdapterInv, NEW k \in DOMAIN helpers, Adapter!Finish(k)
  PROVE  AdapterInv'
<1> DEFINE c == helpers[k].call
<1>1. /\ helpers[k].out # "none" /\ c \in DOMAIN toolCalls /\ toolCalls[c].answer = Adapter!Pending
      /\ UNCHANGED <<now, dir, helpers, queue, stagedEver>>
  BY DEF Adapter!Finish, Adapter!Running, Adapter!Open
<1>2. PICK kind : /\ kind = helpers[k].out \/ (helpers[k].out = "done" /\ kind \in {"failed", "refused"})
                  /\ Adapter!Ends(c, kind)
  BY DEF Adapter!Finish
<1>3. toolCalls' = [toolCalls EXCEPT ![c].answer = Adapter!Says(kind)] /\ turns' = turns \ {c}
  BY <1>2 DEF Adapter!Ends, Adapter!Answers, Adapter!NextTurn
<1>4. kind \in AnswerKinds \ {"pending"} /\ (kind = "done" => helpers[k].out = "done")
  BY <1>1, <1>2 DEF AdapterInv, AdapterTypes, Outcomes, AnswerKinds
<1>5. \A l \in DOMAIN helpers : helpers[l].call = c => l = k
  BY DEF AdapterInv, Chained
<1>6. /\ Adapter!Says(kind) \in ToolAnswers /\ Adapter!Says(kind) # Adapter!Pending
      /\ Adapter!Says(kind).says = kind
  BY <1>4, AnswersAre
<1>7. NumberedIn(queue', stagedEver')
  BY <1>1 DEF AdapterInv, Numbered, NumberedIn
<1>8. \A l \in DOMAIN helpers : helpers[l].call = c =>
        ~Adapter!Running(l) /\ (kind = "done" => helpers[l].out = "done")
  BY <1>1, <1>4, <1>5 DEF Adapter!Running
<1> HIDE DEF c
<1>9. QED BY <1>1, <1>3, <1>6, <1>7, <1>8, AnswerKeeps

LEMMA TickKeeps ==
  ASSUME Adapter!AdapterAssumption, AdapterInv, Adapter!Tick
  PROVE  AdapterInv'
<1>1. /\ now' = now + 1 /\ now < MaxTime
      /\ UNCHANGED <<dir, helpers, queue, stagedEver, toolCalls, turns>>
  BY DEF Adapter!Tick
<1>2. now \in Nat /\ MaxTime \in Nat /\ now' \in 0 .. MaxTime
  BY <1>1 DEF AdapterInv, AdapterTypes, Adapter!AdapterAssumption
<1>3. AdapterTypes'
  BY <1>1, <1>2, TypesSame DEF AdapterInv, AdapterTypes
<1>4. \A i \in DOMAIN queue : queue[i].at \in Nat /\ queue[i].at <= now
  <2>1. \A i \in DOMAIN queue : queue[i] \in Entries
    BY DEF AdapterInv, Numbered, NumberedIn
  <2>2. QED BY <2>1 DEF Entries, AdapterInv, Numbered, NumberedIn
<1>5. \A i \in DOMAIN queue : queue[i].at <= now'
  BY <1>1, <1>2, <1>4
<1>6. Numbered'
  BY <1>1, <1>5 DEF AdapterInv, Numbered, NumberedIn
<1>7. Chained'
  BY <1>1 DEF AdapterInv, Chained, Adapter!Running, Adapter!Open, Adapter!Pending
<1>8. QED BY <1>1, <1>3, <1>6, <1>7, KeptSame DEF AdapterInv

----------------------------------------------------------------------------
(* A turn begins                                                            *)

LEMMA AppendAnything ==
  ASSUME NEW s, IsSequence(s), NEW e
  PROVE  LET longer == Append(s, e)
         IN /\ IsSequence(longer) /\ Len(s) \in Nat /\ DOMAIN s = 1 .. Len(s)
            /\ Len(longer) = Len(s) + 1 /\ DOMAIN longer = 1 .. Len(s) + 1
            /\ longer[Len(s) + 1] = e /\ \A i \in DOMAIN s : longer[i] = s[i]
<1> DEFINE S == {s[i] : i \in DOMAIN s} \cup {e}
           longer == Append(s, e)
<1>1. s \in Seq({s[i] : i \in DOMAIN s})
  BY DEF IsSequence
<1>2. s \in Seq(S)
  BY <1>1, SeqMonotonic
<1>3. e \in S
  OBVIOUS
<1> HIDE DEF S
<1>4. /\ longer \in Seq(S) /\ Len(longer) = Len(s) + 1
      /\ \A i \in 1 .. Len(s) : longer[i] = s[i]
      /\ longer[Len(s) + 1] = e
  BY <1>2, <1>3, AppendProperties
<1>5. Len(s) \in Nat /\ DOMAIN s = 1 .. Len(s) /\ DOMAIN longer = 1 .. Len(s) + 1
  BY <1>2, <1>4
<1> HIDE DEF longer
<1>6. IsSequence(longer)
  <2>1. longer \in [1 .. Len(longer) -> {longer[i] : i \in DOMAIN longer}] /\ Len(longer) \in Nat
    BY <1>4
  <2>2. QED BY <2>1, SeqDef DEF IsSequence
<1>7. QED BY <1>4, <1>5, <1>6 DEF longer

\* While a call waits for its turn, no run is under way.
LEMMA TurnIsFree ==
  ASSUME AdapterInv, NEW c \in DOMAIN toolCalls, Adapter!Turn(c),
         \A k \in DOMAIN helpers : helpers[k].call # c
  PROVE  \A k \in DOMAIN helpers : ~Adapter!Open(helpers[k].call) /\ ~Adapter!Running(k)
<1>1. SUFFICES ASSUME NEW k \in DOMAIN helpers, Adapter!Open(helpers[k].call) PROVE FALSE
  BY DEF AdapterInv, Chained
<1>2. /\ turns = {d \in DOMAIN toolCalls :
                    toolCalls[d].kind = "run" /\ toolCalls[d].answer = Adapter!Pending}
      /\ DOMAIN toolCalls \subseteq Nat
  BY DEF AdapterInv, AdapterTypes
<1>3. helpers[k].call \in turns
  BY <1>1, <1>2 DEF AdapterInv, Chained, Adapter!Open
<1>4. c \in turns /\ c <= helpers[k].call
  BY <1>3 DEF Adapter!Turn
<1>5. helpers[k].call <= c
  BY <1>1, <1>4 DEF AdapterInv, Chained
<1>6. c = helpers[k].call
  BY <1>2, <1>3, <1>4, <1>5
<1>7. QED BY <1>1, <1>6

LEMMA SpawnKeeps ==
  ASSUME AdapterInv, NEW c \in DOMAIN toolCalls, toolCalls[c].answer = Adapter!Pending,
         Adapter!Turn(c), \A k \in DOMAIN helpers : helpers[k].call # c, Adapter!Fresh # <<>>,
         queue' = Tail(Adapter!Fresh), helpers' = Append(helpers, Adapter!Spawned(c, Head(Adapter!Fresh))),
         UNCHANGED <<now, dir, stagedEver, toolCalls, turns>>
  PROVE  AdapterInv'
<1> DEFINE n == Len(helpers) + 1
           run == Adapter!Spawned(c, Head(Adapter!Fresh))
           first == Head(Adapter!Fresh)
<1>1. run = [call |-> c, entry |-> first, at |-> "start", read |-> now, checkpoint |-> <<>>, out |-> "none"]
  BY DEF Adapter!Spawned
<1>2. /\ NumberedIn(queue', stagedEver)
      /\ first \in Entries /\ first.number \in 1 .. stagedEver
      /\ \A k \in DOMAIN helpers : helpers[k].entry.number < first.number
      /\ \A i \in DOMAIN queue' : first.number < queue'[i].number
  <2>1. NumberedIn(queue, stagedEver)
    BY DEF AdapterInv, Numbered
  <2>2. QED BY <2>1, FreshIs
<1> HIDE DEF first
<1>3. /\ DOMAIN run = RunFields /\ run.call = c /\ run.entry = first /\ run.at = "start" /\ run.out = "none"
  BY <1>1 DEF RunFields
<1> HIDE DEF run
<1>4. /\ IsSequence(helpers') /\ Len(helpers) \in Nat /\ DOMAIN helpers = 1 .. Len(helpers)
      /\ Len(helpers') = n /\ DOMAIN helpers' = 1 .. n
      /\ helpers'[n] = run /\ \A k \in DOMAIN helpers : helpers'[k] = helpers[k]
  <2>1. IsSequence(helpers)
    BY DEF AdapterInv, AdapterTypes
  <2>2. helpers' = Append(helpers, run)
    BY DEF run, first
  <2>3. QED BY <2>1, <2>2, AppendAnything
<1>5. n \in Nat /\ (\A k \in DOMAIN helpers : k < n) /\ \A k \in DOMAIN helpers' : k \in DOMAIN helpers \/ k = n
  BY <1>4
<1> HIDE DEF n
<1>6. \A k \in DOMAIN helpers : ~Adapter!Open(helpers[k].call) /\ ~Adapter!Running(k)
  BY TurnIsFree
<1>7. AdapterTypes'
  <2>1. \A k \in DOMAIN helpers' :
          /\ DOMAIN helpers'[k] = RunFields /\ helpers'[k].out \in Outcomes
          /\ helpers'[k].entry \in Entries /\ helpers'[k].call \in DOMAIN toolCalls
    BY <1>2, <1>3, <1>4, <1>5 DEF AdapterInv, AdapterTypes, Outcomes
  <2>2. Adapter!Directory(dir)'
    BY DEF AdapterInv, AdapterTypes, Adapter!Directory, Adapter!EmptyDir
  <2>3. IsSequence(helpers)'
    BY <1>4 DEF IsSequence
  <2>4. QED BY <2>1, <2>2, <2>3 DEF AdapterInv, AdapterTypes, Adapter!Pending
<1>8. Numbered'
  <2>1. \A k \in DOMAIN helpers' :
          /\ helpers'[k].entry.number \in 1 .. stagedEver
          /\ \A i \in DOMAIN queue' : helpers'[k].entry.number < queue'[i].number
    BY <1>2, <1>3, <1>4, <1>5 DEF NumberedIn
  <2>2. \A k, l \in DOMAIN helpers' : k < l => helpers'[k].entry.number < helpers'[l].entry.number
    <3>1. SUFFICES ASSUME NEW k \in DOMAIN helpers', NEW l \in DOMAIN helpers', k < l
                   PROVE  helpers'[k].entry.number < helpers'[l].entry.number
      OBVIOUS
    <3>2. k \in DOMAIN helpers
      BY <1>4, <3>1
    <3>3. CASE l \in DOMAIN helpers
      BY <1>4, <3>1, <3>2, <3>3 DEF AdapterInv, Numbered
    <3>4. CASE l = n
      BY <1>2, <1>3, <1>4, <3>2, <3>4
    <3>5. QED BY <1>5, <3>3, <3>4
  <2>3. QED BY <1>2, <2>1, <2>2 DEF Numbered, NumberedIn
<1>9. Chained'
  <2>1. \A k \in DOMAIN helpers :
          /\ toolCalls[helpers[k].call].kind = "run"
          /\ ~Adapter!Open(helpers[k].call) /\ helpers[k].out # "none"
          /\ toolCalls[helpers[k].call].answer.says = "done" => helpers[k].out = "done"
    BY <1>6 DEF AdapterInv, Chained, Adapter!Running
  <2>2. /\ toolCalls[c].kind = "run" /\ toolCalls[c].answer.says # "done"
        /\ Adapter!Open(c) /\ \A d \in turns : c <= d
    BY DEF AdapterInv, AdapterTypes, Adapter!Turn, Adapter!Open, Adapter!Pending
  <2>3. \A d : Adapter!Open(d)' <=> Adapter!Open(d)
    BY DEF Adapter!Open, Adapter!Pending
  <2>4. ASSUME NEW k \in DOMAIN helpers'
        PROVE  /\ toolCalls'[helpers'[k].call].kind = "run"
               /\ helpers'[k].out = "none" => Adapter!Open(helpers'[k].call)
               /\ Adapter!Open(helpers'[k].call) =>
                    k = Len(helpers') /\ \A d \in turns' : helpers'[k].call <= d
               /\ toolCalls'[helpers'[k].call].answer.says = "done" => helpers'[k].out = "done"
    <3>1. CASE k \in DOMAIN helpers
      BY <1>4, <2>1, <3>1
    <3>2. CASE k = n
      BY <1>3, <1>4, <2>2, <3>2
    <3>3. QED BY <1>5, <2>4, <3>1, <3>2
  <2>5. \A k, l \in DOMAIN helpers' : helpers'[k].call = helpers'[l].call => k = l
    BY <1>3, <1>4, <1>5 DEF AdapterInv, Chained
  <2>6. \A k \in DOMAIN helpers' :
          /\ Adapter!Running(k)' <=> helpers'[k].out = "none"
          /\ Adapter!Open(helpers[k].call)' <=> Adapter!Open(helpers'[k].call)
    BY <2>3 DEF Adapter!Running, Adapter!Open, Adapter!Pending
  <2>7. QED BY <2>4, <2>5, <2>6 DEF Chained
<1>10. Kept'
  <2>1. ASSUME NEW k \in DOMAIN helpers'
        PROVE  /\ helpers'[k].out = "none" => UnderWay(helpers'[k], dir)
               /\ helpers'[k].out = "done" => Achieved(helpers'[k], dir)
    <3>1. CASE k \in DOMAIN helpers
      BY <1>4, <3>1 DEF AdapterInv, Kept
    <3>2. CASE k = n
      BY <1>3, <1>4, <3>2 DEF UnderWay
    <3>3. QED BY <1>5, <2>1, <3>1, <3>2
  <2>2. QED BY <2>1 DEF Kept
<1>11. QED BY <1>7, <1>8, <1>9, <1>10 DEF AdapterInv

LEMMA BeginKeeps ==
  ASSUME AdapterInv, NEW c \in DOMAIN toolCalls, Adapter!Begin(c)
  PROVE  AdapterInv'
<1>1. /\ toolCalls[c].answer = Adapter!Pending /\ Adapter!Turn(c)
      /\ \A k \in DOMAIN helpers : helpers[k].call # c
      /\ UNCHANGED <<now, dir, stagedEver>>
  BY DEF Adapter!Begin, Adapter!Open
<1>2. NumberedIn(queue, stagedEver) /\ stagedEver \in Nat
  BY DEF AdapterInv, Numbered, NumberedIn
<1>3. ASSUME NEW kind \in {"nothing", "refused"}, Adapter!Ends(c, kind), UNCHANGED helpers,
             NumberedIn(queue', stagedEver)
      PROVE  AdapterInv'
  <2>1. toolCalls' = [toolCalls EXCEPT ![c].answer = Adapter!Says(kind)] /\ turns' = turns \ {c}
    BY <1>3 DEF Adapter!Ends, Adapter!Answers, Adapter!NextTurn
  <2>2. /\ Adapter!Says(kind) \in ToolAnswers /\ Adapter!Says(kind) # Adapter!Pending
        /\ Adapter!Says(kind).says # "done"
    BY <1>3, AnswersAre DEF AnswerKinds
  <2>3. QED BY <1>1, <1>3, <2>1, <2>2, AnswerKeeps
<1>4. CASE Adapter!Fresh = <<>> /\ queue' = <<>> /\ Adapter!Ends(c, "nothing") /\ UNCHANGED helpers
  <2>1. NumberedIn(<<>>, stagedEver)
    BY <1>2 DEF NumberedIn
  <2>2. QED BY <1>3, <1>4, <2>1
<1>5. CASE /\ Adapter!Fresh # <<>> /\ queue' = Tail(Adapter!Fresh)
           /\ Adapter!Ends(c, "refused") /\ UNCHANGED helpers
  <2>1. NumberedIn(queue', stagedEver)
    BY <1>2, <1>5, FreshIs
  <2>2. QED BY <1>3, <1>5, <2>1
<1>6. CASE /\ Adapter!Fresh # <<>> /\ queue' = Tail(Adapter!Fresh)
           /\ helpers' = Append(helpers, Adapter!Spawned(c, Head(Adapter!Fresh)))
           /\ UNCHANGED <<toolCalls, turns>>
  BY <1>1, <1>6, SpawnKeeps
<1>7. QED BY <1>4, <1>5, <1>6 DEF Adapter!Begin

----------------------------------------------------------------------------
(* Steps of a helper                                                        *)

\* The run k is now p; and the directory keeps what it had.
Moved(k, p) ==
  /\ helpers' = [helpers EXCEPT ![k] = p]
  /\ DOMAIN p = RunFields /\ p.out \in Outcomes
  /\ p.call = helpers[k].call /\ p.entry = helpers[k].entry

DirectoryStays ==
  /\ Adapter!Directory(dir')
  /\ dir.wallet = "whole" => dir'.wallet = "whole"
  /\ dir.policy = "whole" => dir'.policy = "whole" /\ dir'.committed = dir.committed
  /\ dir.identity => dir'.identity

Carries(p) ==
  /\ p.out = "none" => UnderWay(p, dir')
  /\ p.out = "done" => Achieved(p, dir')

LEMMA PrintsIs ==
  ASSUME AdapterTypes, NEW k \in DOMAIN helpers, NEW out \in Outcomes, Adapter!Prints(k, out)
  PROVE  \E p : Moved(k, p) /\ p.out = out /\ p.read = now /\ p.at = helpers[k].at
                /\ p.checkpoint = helpers[k].checkpoint
<1> DEFINE p == [helpers[k] EXCEPT !.out = out, !.read = now]
<1>1. DOMAIN helpers[k] = RunFields
  BY DEF AdapterTypes
<1>2. /\ DOMAIN p = RunFields /\ p.out = out /\ p.read = now /\ p.at = helpers[k].at
      /\ p.checkpoint = helpers[k].checkpoint /\ p.call = helpers[k].call /\ p.entry = helpers[k].entry
  BY <1>1 DEF RunFields
<1>3. helpers' = [helpers EXCEPT ![k] = p]
  BY DEF Adapter!Prints, Adapter!Becomes
<1> HIDE DEF p
<1>4. QED BY <1>2, <1>3 DEF Moved

LEMMA MovesIs ==
  ASSUME AdapterTypes, NEW k \in DOMAIN helpers, NEW place, Adapter!MovesTo(k, place)
  PROVE  \E p : Moved(k, p) /\ p.out = helpers[k].out /\ p.at = place
<1> DEFINE p == [helpers[k] EXCEPT !.at = place, !.read = now]
<1>1. DOMAIN helpers[k] = RunFields /\ helpers[k].out \in Outcomes
  BY DEF AdapterTypes
<1>2. /\ DOMAIN p = RunFields /\ p.out = helpers[k].out /\ p.at = place
      /\ p.call = helpers[k].call /\ p.entry = helpers[k].entry
  BY <1>1 DEF RunFields
<1>3. helpers' = [helpers EXCEPT ![k] = p]
  BY DEF Adapter!MovesTo, Adapter!Becomes
<1> HIDE DEF p
<1>4. QED BY <1>1, <1>2, <1>3 DEF Moved

LEMMA SameDirectory ==
  ASSUME AdapterTypes, UNCHANGED dir
  PROVE  DirectoryStays
BY DEF AdapterTypes, DirectoryStays

\* A run that ends short of its result has nothing to show.
LEMMA Fails ==
  ASSUME AdapterTypes, NEW k \in DOMAIN helpers, NEW out \in Outcomes \ {"none", "done"},
         Adapter!Prints(k, out), UNCHANGED dir
  PROVE  DirectoryStays /\ \E p : Moved(k, p) /\ Carries(p)
BY PrintsIs, SameDirectory DEF Carries

LEMMA DirectoryFields ==
  ASSUME AdapterTypes
  PROVE  /\ DOMAIN dir = {"wallet", "policy", "committed", "identity"}
         /\ dir.wallet \in {"absent", "torn", "whole"} /\ dir.policy \in {"absent", "torn", "whole"}
         /\ dir.policy = "whole" => dir.committed = <<dir.committed[1]>>
<1>1. DOMAIN Adapter!EmptyDir = {"wallet", "policy", "committed", "identity"}
  BY DEF Adapter!EmptyDir
<1>2. QED BY <1>1 DEF AdapterTypes, Adapter!Directory

LEMMA InitStepKeeps ==
  ASSUME AdapterTypes, NEW k \in DOMAIN helpers, Adapter!Running(k), Adapter!InitStep(k),
         helpers[k].entry.step.op = "init"
  PROVE  DirectoryStays /\ \E p : Moved(k, p) /\ Carries(p)
<1>0. helpers[k].out = "none" /\ "failed" \in Outcomes \ {"none", "done"} /\ "done" \in Outcomes
  BY DEF Adapter!Running, Outcomes
<1>1. CASE Adapter!Creates(k, "wallet")
  <2>1. dir.wallet = "absent" /\ dir' = [dir EXCEPT !["wallet"] = "torn"] /\ Adapter!MovesTo(k, "write")
    BY <1>1 DEF Adapter!Creates
  <2>2. DirectoryStays
    BY <2>1, DirectoryFields DEF DirectoryStays, Adapter!Directory, Adapter!EmptyDir
  <2>3. PICK p : Moved(k, p) /\ p.out = "none"
    BY <1>0, <2>1, MovesIs
  <2>4. Carries(p)
    BY <2>3 DEF Carries, UnderWay, Moved
  <2>5. QED BY <2>2, <2>3, <2>4
<1>2. CASE dir' = [dir EXCEPT !.wallet = "whole"] /\ Adapter!Prints(k, "done")
  <2>1. DirectoryStays /\ dir'.wallet = "whole"
    BY <1>2, DirectoryFields DEF DirectoryStays, Adapter!Directory, Adapter!EmptyDir
  <2>2. PICK p : Moved(k, p) /\ p.out = "done"
    BY <1>0, <1>2, PrintsIs
  <2>3. Carries(p)
    BY <2>1, <2>2 DEF Carries, Achieved, Moved
  <2>4. QED BY <2>1, <2>2, <2>3
<1>3. CASE Adapter!Prints(k, "failed") /\ UNCHANGED dir
  BY <1>0, <1>3, Fails
<1>4. QED BY <1>1, <1>2, <1>3 DEF Adapter!InitStep

LEMMA PolicyStepKeeps ==
  ASSUME AdapterTypes, Kept, NEW k \in DOMAIN helpers, Adapter!Running(k), Adapter!PolicyStep(k),
         helpers[k].entry.step.op = "policy"
  PROVE  DirectoryStays /\ \E p : Moved(k, p) /\ Carries(p)
<1>0. helpers[k].out = "none" /\ "failed" \in Outcomes \ {"none", "done"} /\ "done" \in Outcomes
  BY DEF Adapter!Running, Outcomes
<1>1. CASE Adapter!Whole("wallet") /\ Adapter!Creates(k, "policy")
  <2>1. /\ dir.wallet = "whole" /\ dir.policy = "absent" /\ dir' = [dir EXCEPT !["policy"] = "torn"]
        /\ Adapter!MovesTo(k, "write")
    BY <1>1 DEF Adapter!Creates, Adapter!Whole
  <2>2. DirectoryStays /\ dir'.wallet = "whole" /\ dir'.policy = "torn"
    BY <2>1, DirectoryFields DEF DirectoryStays, Adapter!Directory, Adapter!EmptyDir
  <2>3. PICK p : Moved(k, p) /\ p.out = "none"
    BY <1>0, <2>1, MovesIs
  <2>4. Carries(p)
    BY <2>2, <2>3 DEF Carries, UnderWay, Moved
  <2>5. QED BY <2>2, <2>3, <2>4
<1>2. CASE /\ Adapter!AtPlace(k, "write") /\ Adapter!Prints(k, "done")
           /\ dir' = [dir EXCEPT !.policy = "whole", !.committed = <<Adapter!Step(k).policy>>]
  <2>1. dir.wallet = "whole" /\ dir.policy = "torn"
    BY <1>0, <1>2 DEF Kept, UnderWay, Adapter!AtPlace
  <2>2. PICK policy : policy = helpers[k].entry.step.policy
    OBVIOUS
  <2>3. dir' = [dir EXCEPT !.policy = "whole", !.committed = <<policy>>]
    BY <1>2, <2>2 DEF Adapter!Step
  <2>4. /\ DOMAIN dir' = DOMAIN dir /\ dir'.wallet = "whole" /\ dir'.policy = "whole"
        /\ dir'.committed = <<policy>> /\ dir'.identity = dir.identity
    BY <2>1, <2>3, DirectoryFields
  <2>5. dir'.committed = <<dir'.committed[1]>>
    BY <2>4
  <2>6. DirectoryStays
    BY <2>1, <2>4, <2>5, DirectoryFields DEF DirectoryStays, Adapter!Directory, Adapter!EmptyDir
  <2>7. PICK p : Moved(k, p) /\ p.out = "done"
    BY <1>0, <1>2, PrintsIs
  <2>8. Carries(p)
    BY <2>2, <2>4, <2>7 DEF Carries, Achieved, Moved
  <2>9. QED BY <2>6, <2>7, <2>8
<1>3. CASE Adapter!Prints(k, "failed") /\ UNCHANGED dir
  BY <1>0, <1>3, Fails
<1>4. QED BY <1>1, <1>2, <1>3 DEF Adapter!PolicyStep

LEMMA RegisterStepKeeps ==
  ASSUME AdapterTypes, Kept, NEW k \in DOMAIN helpers, Adapter!Running(k), Adapter!Ready(k),
         Adapter!RegisterStep(k), helpers[k].entry.step.op = "register"
  PROVE  DirectoryStays /\ \E p : Moved(k, p) /\ Carries(p)
<1>0. helpers[k].out = "none" /\ "failed" \in Outcomes \ {"none", "done"} /\ "done" \in Outcomes
      /\ dir.wallet = "whole"
  BY DEF Adapter!Running, Outcomes, Adapter!Ready, Adapter!Whole
<1>1. CASE dir' = [dir EXCEPT !.identity = TRUE] /\ Adapter!MovesTo(k, "write")
  <2>1. DirectoryStays /\ dir'.identity = TRUE
    BY <1>1, DirectoryFields DEF DirectoryStays, Adapter!Directory, Adapter!EmptyDir
  <2>2. PICK p : Moved(k, p) /\ p.out = "none"
    BY <1>0, <1>1, MovesIs
  <2>3. Carries(p)
    BY <2>1, <2>2 DEF Carries, UnderWay, Moved
  <2>4. QED BY <2>1, <2>2, <2>3
<1>2. CASE Adapter!AtPlace(k, "write") /\ Adapter!Prints(k, "done") /\ UNCHANGED dir
  <2>1. dir.identity
    BY <1>0, <1>2 DEF Kept, UnderWay, Adapter!AtPlace
  <2>2. PICK p : Moved(k, p) /\ p.out = "done"
    BY <1>0, <1>2, PrintsIs
  <2>3. Carries(p)
    BY <1>0, <1>2, <2>1, <2>2 DEF Carries, Achieved, Moved
  <2>4. QED BY <1>2, <2>2, <2>3, SameDirectory
<1>3. CASE Adapter!Prints(k, "failed") /\ UNCHANGED dir
  BY <1>0, <1>3, Fails
<1>4. QED BY <1>1, <1>2, <1>3 DEF Adapter!RegisterStep

LEMMA SignStepKeeps ==
  ASSUME AdapterTypes, Kept, NEW k \in DOMAIN helpers, Adapter!Running(k), Adapter!Ready(k),
         Adapter!SignStep(k), helpers[k].entry.step.op = "sign"
  PROVE  DirectoryStays /\ \E p : Moved(k, p) /\ Carries(p)
<1> DEFINE request == helpers[k].entry.step.request
           checked == Adapter!CheckedRequest(request, dir.committed[1], now)
           onTime == Adapter!Releasable(request, helpers[k].checkpoint)
           expiry == Adapter!CheckpointExpiry(request, dir.committed[1])
           later == [helpers[k] EXCEPT !.at = "signed", !.read = now, !.checkpoint = <<expiry>>]
<1>0. /\ helpers[k].out = "none" /\ {"failed", "expired", "invalid"} \subseteq Outcomes \ {"none", "done"}
      /\ "done" \in Outcomes /\ dir.wallet = "whole" /\ dir.policy = "whole" /\ DOMAIN helpers[k] = RunFields
  BY DEF Adapter!Running, Outcomes, Adapter!Ready, Adapter!Whole, Adapter!Step, AdapterTypes
<1>1. UNCHANGED dir
  BY DEF Adapter!SignStep
<1>2. DirectoryStays
  BY <1>1, SameDirectory
<1>3. CASE Adapter!AtPlace(k, "start") /\ checked # "ok" /\ Adapter!Prints(k, checked)
  <2>1. checked \in {"expired", "invalid"}
    BY <1>3, CheckedIs
  <2> HIDE DEF checked
  <2>2. QED BY <1>0, <1>1, <1>3, <2>1, Fails
<1>4. CASE Adapter!AtPlace(k, "start") /\ checked = "ok" /\ Adapter!MovesTo(k, "checked")
  <2>1. request.policy = dir.committed[1]
    BY <1>4, CheckedIs
  <2>2. dir.committed = <<request.policy>>
    BY <1>0, <2>1, DirectoryFields
  <2>3. PICK p : Moved(k, p) /\ p.out = "none"
    BY <1>0, <1>4, MovesIs
  <2>4. Carries(p)
    BY <1>0, <1>1, <2>2, <2>3 DEF Carries, UnderWay, Moved, Agreed
  <2>5. QED BY <1>2, <2>3, <2>4
<1>5. CASE ~Adapter!AtPlace(k, "start") /\ ~onTime /\ Adapter!Prints(k, "expired")
  BY <1>0, <1>1, <1>5, Fails
<1>6. ASSUME ~Adapter!AtPlace(k, "start")
      PROVE  Agreed(helpers[k].entry.step, dir)
  BY <1>0, <1>6 DEF Kept, UnderWay, Adapter!AtPlace
<1>7. ASSUME ~Adapter!AtPlace(k, "start"), NEW place, Adapter!MovesTo(k, place)
      PROVE  \E p : Moved(k, p) /\ Carries(p)
  <2>1. PICK p : Moved(k, p) /\ p.out = "none"
    BY <1>0, <1>7, MovesIs
  <2>2. Carries(p)
    BY <1>1, <1>6, <1>7, <2>1 DEF Carries, UnderWay, Moved
  <2>3. QED BY <2>1, <2>2
<1>8. ASSUME ~Adapter!AtPlace(k, "start"), onTime, Adapter!Prints(k, "done")
      PROVE  \E p : Moved(k, p) /\ Carries(p)
  <2>1. PICK p : Moved(k, p) /\ p.out = "done" /\ p.read = now /\ p.checkpoint = helpers[k].checkpoint
    BY <1>0, <1>8, PrintsIs
  <2>2. InTime(p)
    BY <1>8, <2>1 DEF InTime, Moved, Adapter!Releasable
  <2>3. Carries(p)
    BY <1>0, <1>1, <1>6, <1>8, <2>1, <2>2 DEF Carries, Achieved, Moved
  <2>4. QED BY <2>1, <2>3
<1>9. CASE ~Adapter!AtPlace(k, "start") /\ Adapter!Becomes(k, later)
  <2>1. /\ DOMAIN later = RunFields /\ later.out = "none"
        /\ later.call = helpers[k].call /\ later.entry = helpers[k].entry
    BY <1>0 DEF RunFields
  <2>2. helpers' = [helpers EXCEPT ![k] = later]
    BY <1>9 DEF Adapter!Becomes
  <2> HIDE DEF later
  <2>3. Moved(k, later) /\ Carries(later)
    BY <1>1, <1>6, <1>9, <2>1, <2>2 DEF Carries, UnderWay, Moved, Outcomes
  <2>4. QED BY <1>2, <2>3
<1>10. \A place \in {"checked", "signing", "signed", "checkpointing"} :
         Adapter!AtPlace(k, place) => ~Adapter!AtPlace(k, "start")
  BY DEF Adapter!AtPlace
<1>11. \/ Adapter!AtPlace(k, "start") /\ checked # "ok" /\ Adapter!Prints(k, checked)
       \/ Adapter!AtPlace(k, "start") /\ checked = "ok" /\ Adapter!MovesTo(k, "checked")
       \/ ~Adapter!AtPlace(k, "start") /\ ~onTime /\ Adapter!Prints(k, "expired")
       \/ Adapter!AtPlace(k, "checked") /\ Adapter!MovesTo(k, "signing")
       \/ Adapter!AtPlace(k, "signing") /\ onTime /\ Adapter!Prints(k, "done")
       \/ Adapter!AtPlace(k, "signing") /\ Adapter!Becomes(k, later)
       \/ Adapter!AtPlace(k, "signed") /\ Adapter!MovesTo(k, "checkpointing")
       \/ Adapter!AtPlace(k, "checkpointing") /\ onTime /\ Adapter!Prints(k, "done")
  BY DEF Adapter!SignStep, Adapter!Step
<1> HIDE DEF checked, onTime, later
<1>12. QED BY <1>2, <1>3, <1>4, <1>5, <1>7, <1>8, <1>9, <1>10, <1>11

LEMMA OtherStepKeeps ==
  ASSUME AdapterTypes, NEW k \in DOMAIN helpers, Adapter!Ready(k), NEW out \in {"done", "failed"},
         Adapter!Prints(k, out), UNCHANGED dir, helpers[k].entry.step.op \in {"inspect", "verify-certificate"}
  PROVE  DirectoryStays /\ \E p : Moved(k, p) /\ Carries(p)
<1>1. dir.wallet = "whole" /\ out \in Outcomes
  BY DEF Adapter!Ready, Adapter!Whole, Outcomes
<1>2. PICK p : Moved(k, p) /\ p.out = out
  BY <1>1, PrintsIs
<1>3. Carries(p)
  BY <1>1, <1>2 DEF Carries, Achieved, Moved
<1>4. QED BY <1>2, <1>3, SameDirectory

LEMMA HelperStepIs ==
  ASSUME AdapterTypes, Kept, NEW k \in DOMAIN helpers, Adapter!HelperStep(k)
  PROVE  DirectoryStays /\ \E p : Moved(k, p) /\ Carries(p)
<1> DEFINE op == helpers[k].entry.step.op
<1>1. Adapter!Running(k) /\ (Adapter!Dispatch(k) \/ Adapter!Stops(k))
  BY DEF Adapter!HelperStep
<1>2. "failed" \in Outcomes \ {"none", "done"}
  BY DEF Outcomes
<1>3. CASE Adapter!Prints(k, "failed") /\ UNCHANGED dir
  BY <1>2, <1>3, Fails
<1>4. CASE op = "init" /\ Adapter!InitStep(k)
  BY <1>1, <1>4, InitStepKeeps
<1>5. CASE op = "policy" /\ Adapter!PolicyStep(k)
  BY <1>1, <1>5, PolicyStepKeeps
<1>6. CASE op = "inspect" /\ Adapter!Ready(k) /\ Adapter!Prints(k, "done") /\ UNCHANGED dir
  BY <1>6, OtherStepKeeps
<1>7. CASE op = "register" /\ Adapter!Ready(k) /\ Adapter!RegisterStep(k)
  BY <1>1, <1>7, RegisterStepKeeps
<1>8. CASE op = "sign" /\ Adapter!Ready(k) /\ Adapter!SignStep(k)
  BY <1>1, <1>8, SignStepKeeps
<1>9. CASE op = "verify-certificate" /\ Adapter!Ready(k) /\ Adapter!VerifyStep(k)
  <2>1. PICK out \in {"done", "failed"} : Adapter!Prints(k, out) /\ UNCHANGED dir
    BY <1>9 DEF Adapter!VerifyStep
  <2>2. QED BY <1>9, <2>1, OtherStepKeeps
<1>10. \/ Adapter!Prints(k, "failed") /\ UNCHANGED dir
       \/ op = "init" /\ Adapter!InitStep(k)
       \/ op = "policy" /\ Adapter!PolicyStep(k)
       \/ Adapter!Ready(k) /\ Adapter!ReadyStep(k)
  BY <1>1 DEF Adapter!Dispatch, Adapter!Stops, Adapter!Step
<1>11. Adapter!ReadyStep(k) =>
         \/ op = "inspect" /\ Adapter!Prints(k, "done") /\ UNCHANGED dir
         \/ op = "register" /\ Adapter!RegisterStep(k)
         \/ op = "sign" /\ Adapter!SignStep(k)
         \/ op = "verify-certificate" /\ Adapter!VerifyStep(k)
  BY DEF Adapter!ReadyStep, Adapter!Step
<1>12. QED BY <1>3, <1>4, <1>5, <1>6, <1>7, <1>8, <1>9, <1>10, <1>11

LEMMA HelperStepKeeps ==
  ASSUME AdapterInv, NEW k \in DOMAIN helpers, Adapter!HelperStep(k)
  PROVE  AdapterInv'
<1>1. helpers[k].out = "none" /\ UNCHANGED <<now, queue, stagedEver, toolCalls, turns>>
  BY DEF Adapter!HelperStep, Adapter!Running
<1>2. DirectoryStays /\ \E p : Moved(k, p) /\ Carries(p)
  BY HelperStepIs DEF AdapterInv
<1>3. PICK p : Moved(k, p) /\ Carries(p)
  BY <1>2
<1>4. /\ DOMAIN helpers' = DOMAIN helpers /\ helpers'[k] = p
      /\ \A l \in DOMAIN helpers : l # k => helpers'[l] = helpers[l]
  BY <1>3 DEF Moved
<1>5. \A l \in DOMAIN helpers :
        helpers'[l].call = helpers[l].call /\ helpers'[l].entry = helpers[l].entry
  BY <1>3, <1>4 DEF Moved
<1>6. IsSequence(helpers') /\ Len(helpers') = Len(helpers)
  <2>1. helpers \in Seq({helpers[i] : i \in DOMAIN helpers})
    BY DEF AdapterInv, AdapterTypes, IsSequence
  <2>2. Len(helpers) \in Nat /\ DOMAIN helpers = 1 .. Len(helpers)
        /\ helpers = [i \in 1 .. Len(helpers) |-> helpers[i]]
    BY <2>1
  <2>3. helpers' = [i \in 1 .. Len(helpers) |-> helpers'[i]]
    BY <1>3, <2>2 DEF Moved
  <2>4. helpers' \in [1 .. Len(helpers) -> {helpers'[i] : i \in DOMAIN helpers'}]
    BY <2>2, <2>3
  <2>5. helpers' \in Seq({helpers'[i] : i \in DOMAIN helpers'})
    BY <2>2, <2>4, SeqDef
  <2>6. DOMAIN helpers' = 1 .. Len(helpers') /\ Len(helpers') \in Nat
    BY <2>5
  <2>7. Len(helpers') = Len(helpers)
    BY <1>4, <2>2, <2>6
  <2>8. QED BY <2>5, <2>7 DEF IsSequence
<1>7. AdapterTypes'
  <2>1. \A l \in DOMAIN helpers' :
          /\ DOMAIN helpers'[l] = RunFields /\ helpers'[l].out \in Outcomes
          /\ helpers'[l].entry \in Entries /\ helpers'[l].call \in DOMAIN toolCalls
    BY <1>3, <1>4, <1>5 DEF AdapterInv, AdapterTypes, Moved
  <2>2. Adapter!Directory(dir)'
    BY <1>2 DEF DirectoryStays, Adapter!Directory, Adapter!EmptyDir
  <2>3. IsSequence(helpers)'
    BY <1>6 DEF IsSequence
  <2>4. QED BY <1>1, <2>1, <2>2, <2>3 DEF AdapterInv, AdapterTypes, Adapter!Pending
<1>8. Numbered'
  BY <1>1, <1>4, <1>5 DEF AdapterInv, Numbered, NumberedIn
<1>9. \A l \in DOMAIN helpers : l # k => helpers[l].out # "none"
  BY <1>1 DEF AdapterInv, Chained, Adapter!Running
<1>10. Chained'
  <2>1. \A l \in DOMAIN helpers : Adapter!Open(helpers[l].call)' <=> Adapter!Open(helpers[l].call)
    BY <1>1, <1>5 DEF Adapter!Open, Adapter!Pending
  <2>2. ASSUME NEW l \in DOMAIN helpers
        PROVE  /\ toolCalls[helpers[l].call].kind = "run"
               /\ helpers'[l].out = "none" => Adapter!Open(helpers[l].call)
               /\ Adapter!Open(helpers[l].call) =>
                    l = Len(helpers) /\ \A d \in turns : helpers[l].call <= d
               /\ toolCalls[helpers[l].call].answer.says = "done" => helpers'[l].out = "done"
    <3>1. /\ toolCalls[helpers[l].call].kind = "run"
          /\ helpers[l].out = "none" => Adapter!Open(helpers[l].call)
          /\ Adapter!Open(helpers[l].call) =>
               l = Len(helpers) /\ \A d \in turns : helpers[l].call <= d
          /\ toolCalls[helpers[l].call].answer.says = "done" => helpers[l].out = "done"
      BY <2>2 DEF AdapterInv, Chained, Adapter!Running
    <3>2. l # k => helpers'[l].out = helpers[l].out
      BY <1>4, <2>2
    <3>3. l = k => toolCalls[helpers[l].call].answer.says # "done"
      BY <1>1, <3>1
    <3>4. l = k => Adapter!Open(helpers[l].call)
      BY <1>1, <3>1
    <3>5. QED BY <3>1, <3>2, <3>3, <3>4
  <2>3. \A l \in DOMAIN helpers' :
          /\ Adapter!Running(l)' <=> helpers'[l].out = "none"
          /\ Adapter!Open(helpers[l].call)' <=> Adapter!Open(helpers[l].call)
    BY <1>4, <2>1 DEF Adapter!Running, Adapter!Open, Adapter!Pending
  <2>4. QED BY <1>1, <1>4, <1>5, <1>6, <2>2, <2>3 DEF AdapterInv, Chained
<1>11. Kept'
  <2>1. ASSUME NEW l \in DOMAIN helpers
        PROVE  /\ helpers'[l].out = "none" => UnderWay(helpers'[l], dir')
               /\ helpers'[l].out = "done" => Achieved(helpers'[l], dir')
    <3>1. CASE l = k
      BY <1>3, <1>4, <3>1 DEF Carries
    <3>2. CASE l # k
      <4>1. helpers'[l] = helpers[l] /\ helpers[l].out # "none"
        BY <1>4, <1>9, <2>1, <3>2
      <4>2. helpers[l].out = "done" => Achieved(helpers[l], dir)
        BY <2>1 DEF AdapterInv, Kept
      <4>3. Achieved(helpers[l], dir) => Achieved(helpers[l], dir')
        BY <1>2 DEF Achieved, Agreed, DirectoryStays
      <4>4. QED BY <4>1, <4>2, <4>3
    <3>3. QED BY <3>1, <3>2
  <2>2. QED BY <1>4, <2>1 DEF Kept
<1>12. QED BY <1>7, <1>8, <1>10, <1>11 DEF AdapterInv

----------------------------------------------------------------------------
(* The local adapter: the theorems                                          *)

LEMMA AdapterSteps ==
  ASSUME Adapter!AdapterAssumption, AdapterInv, [Adapter!Next]_(Adapter!vars)
  PROVE  AdapterInv'
<1>1. CASE UNCHANGED Adapter!vars
  <2>1. UNCHANGED <<now, dir, helpers, queue, stagedEver, toolCalls, turns>>
    BY <1>1 DEF Adapter!vars
  <2>2. AdapterTypes'
    BY <2>1, TypesSame DEF AdapterInv, AdapterTypes
  <2>3. Chained'
    BY <2>1 DEF AdapterInv, Chained, Adapter!Running, Adapter!Open, Adapter!Pending
  <2>4. QED BY <2>1, <2>2, <2>3, NumberedSame, KeptSame DEF AdapterInv
<1>2. CASE Adapter!Next
  BY <1>2, CallKeeps, RelayKeeps, UpstreamFailsKeeps, BeginKeeps, HelperStepKeeps, FinishKeeps, TickKeeps
     DEF Adapter!Next
<1>3. QED BY <1>1, <1>2

\* The invariant of the local adapter holds in every state it can reach.
THEOREM AdapterInductive ==
  ASSUME Adapter!AdapterAssumption
  PROVE  Adapter!Spec => []AdapterInv
BY AdapterStarts, AdapterSteps, PTL DEF Adapter!Spec

\* Types: every staged step and every run has its number and time, every answer its kind.
THEOREM AdapterTyped ==
  ASSUME Adapter!AdapterAssumption
  PROVE  Adapter!Spec => []Adapter!TypeOK
<1>1. AdapterInv => Adapter!TypeOK
  <2>1. SUFFICES ASSUME AdapterInv PROVE Adapter!TypeOK
    OBVIOUS
  <2>2. /\ now \in 0 .. MaxTime /\ stagedEver \in Nat /\ turns \subseteq DOMAIN toolCalls
        /\ \A k \in DOMAIN helpers :
             helpers[k].call \in DOMAIN toolCalls /\ helpers[k].entry.number \in 1 .. stagedEver
    BY <2>1 DEF AdapterInv, AdapterTypes, Numbered, NumberedIn
  <2>3. \A i \in DOMAIN queue : queue[i].number \in 1 .. stagedEver /\ queue[i].at \in 0 .. now
    <3>1. \A i \in DOMAIN queue : queue[i] \in Entries /\ queue[i].number \in 1 .. stagedEver /\ queue[i].at <= now
      BY <2>1 DEF AdapterInv, Numbered, NumberedIn
    <3>2. QED BY <2>2, <3>1 DEF Entries
  <2>4. \A c \in DOMAIN toolCalls : toolCalls[c].answer.says \in AnswerKinds
    <3>1. \A c \in DOMAIN toolCalls : toolCalls[c] \in ToolCalls
      BY <2>1, ElementOfSeq DEF AdapterInv, AdapterTypes
    <3>2. QED BY <3>1 DEF ToolCalls, ToolAnswers
  <2>5. \A file \in {"wallet", "policy"} : dir[file] \in {"absent", "torn", "whole"}
    BY <2>1, DirectoryFields DEF AdapterInv
  <2>6. QED BY <2>2, <2>3, <2>4, <2>5 DEF Adapter!TypeOK, AnswerKinds
<1>2. QED BY <1>1, AdapterInductive, PTL

\* The agent's calls run the staged steps one at a time and in the order the coordinator
\* gave them, whatever overlaps (pendingExecution).
THEOREM StepsInTurn ==
  ASSUME Adapter!AdapterAssumption
  PROVE  Adapter!Spec => []Adapter!InTurn
<1>1. AdapterInv => Adapter!InTurn
  <2>1. SUFFICES ASSUME AdapterInv, NEW k \in DOMAIN helpers, NEW l \in DOMAIN helpers, k < l
                 PROVE  ~Adapter!Running(k) /\ helpers[k].entry.number < helpers[l].entry.number
    BY DEF Adapter!InTurn
  <2>2. helpers[k].entry.number < helpers[l].entry.number
    BY <2>1 DEF AdapterInv, Numbered
  <2>3. DOMAIN helpers = 1 .. Len(helpers) /\ Len(helpers) \in Nat
    BY <2>1 DEF AdapterInv, AdapterTypes, IsSequence
  <2>4. Adapter!Running(k) => k = Len(helpers)
    BY <2>1 DEF AdapterInv, Chained
  <2>5. QED BY <2>1, <2>2, <2>3, <2>4
<1>2. QED BY <1>1, AdapterInductive, PTL

\* What the agent was told is done stays so: the wallet exists, the policy is the one
\* committed then, and a signature left before every bound of its request and checkpoint.
THEOREM DoneStays ==
  ASSUME Adapter!AdapterAssumption
  PROVE  Adapter!Spec => []Adapter!DoneIsSo
<1>1. AdapterInv => Adapter!DoneIsSo
  <2>1. SUFFICES ASSUME AdapterInv, NEW k \in DOMAIN helpers,
                        toolCalls[helpers[k].call].answer.says = "done"
                 PROVE  LET run == helpers[k]
                            step == run.entry.step
                        IN /\ Adapter!Whole("wallet")
                           /\ step.op = "policy" => dir.committed = <<step.policy>>
                           /\ step.op = "register" => dir.identity
                           /\ step.op = "sign" =>
                                /\ dir.committed = <<step.request.policy>>
                                /\ \A limit \in Adapter!Bounds(step.request, run.checkpoint) : run.read < limit
    BY DEF Adapter!DoneIsSo
  <2>2. Achieved(helpers[k], dir)
    BY <2>1 DEF AdapterInv, Chained, Kept
  <2>3. QED BY <2>2 DEF Achieved, Agreed, InTime, Adapter!Whole
<1>2. QED BY <1>1, AdapterInductive, PTL

=============================================================================
