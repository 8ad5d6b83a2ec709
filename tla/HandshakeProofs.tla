-------------------------- MODULE HandshakeProofs --------------------------
(***************************************************************************)
(* Theorems about Handshake, for any number of processes of either role,   *)
(* any ledger and any failures of the service: a write is announced before *)
(* it can reach the ledger, a slot is anchored once, a complete result     *)
(* stays as it is, two parties that completed are not contradicted and an  *)
(* authorisation says what is so.                                          *)
(***************************************************************************)
EXTENDS Handshake, TLAPS, FiniteSetTheorems, SequenceTheorems

----------------------------------------------------------------------------
(* The invariant                                                           *)

\* What a process of a role is, whatever its fields hold.
IsState(s) ==
  \E pc, message, seen, last, tries, code :
    s = [pc |-> pc, message |-> message, seen |-> seen,
         last |-> last, tries |-> tries, code |-> code]

\* Where the message of a process is one it composed itself.
Composing == {"inspect", "search", "adopt", "create", "fill", "dispatch", "reconcile", "decide"}

\* Where a process goes on to write the slot of its message.
Holding == {"fill", "dispatch", "reconcile"}

Holds(p) == proc[p].pc \in Holding

Shape ==
  /\ marker = [slot \in Slots |-> marker[slot]]
  /\ proc = [p \in Processes |-> proc[p]]
  /\ \A p \in Processes : IsState(proc[p])
  /\ \A p \in Processes : proc[p].pc \in Composing => Slot(p) \in Slots
  /\ gateway \in Gateways

\* Every write is the one its marker names.
Announced ==
  \A write \in anchors \cup wire :
    write.slot \in Slots /\ marker[write.slot] = Written(write.digest)

\* Who may still write has the marker, unread by anybody until it is filled.
HoldsMarker ==
  \A p \in Processes :
    /\ At(p, "fill") => marker[Slot(p)] = Torn
    /\ At(p, "dispatch") \/ At(p, "reconcile") => marker[Slot(p)] = Written(Message(p))

\* One process writes a slot.
SoleWriter ==
  \A p, q \in Processes : Holds(p) /\ Holds(q) /\ p # q => Slot(p) # Slot(q)

\* A gateway without keys is sent nothing that it anchored already.
SearchedFirst ==
  gateway = "prompt" =>
    /\ wire = {}
    /\ \A p \in Processes : At(p, "dispatch") => Search(Slot(p)) = {}

\* OneAnchorPerSlot, element by element.
Single ==
  /\ \A x, y \in anchors : x.slot = y.slot => x = y
  /\ \A x, y \in wire : x.slot = y.slot => x = y
  /\ \A x \in anchors, y \in wire : x.slot # y.slot

Inductive == Shape /\ Announced /\ HoldsMarker /\ SoleWriter /\ SearchedFirst /\ Single

----------------------------------------------------------------------------
(* Steps that write nothing                                                *)

LEMMA StateOf ==
  ASSUME Inductive, NEW p \in Processes
  PROVE  IsState(proc[p])
BY DEF Inductive, Shape

\* A state with another value of one field is a state, of the same pc and message.
LEMMA PcField ==
  ASSUME NEW s, IsState(s), NEW x
  PROVE  /\ IsState([s EXCEPT !.pc = x])
         /\ [s EXCEPT !.pc = x].pc = x
         /\ [s EXCEPT !.pc = x].message = s.message
<1>1. PICK pc, message, seen, last, tries, code :
        s = [pc |-> pc, message |-> message, seen |-> seen,
             last |-> last, tries |-> tries, code |-> code]
  BY DEF IsState
<1>2. [s EXCEPT !.pc = x]
        = [pc |-> x, message |-> message, seen |-> seen,
           last |-> last, tries |-> tries, code |-> code]
  BY <1>1
<1>3. IsState([s EXCEPT !.pc = x])
  BY <1>2, Zenon DEF IsState
<1>4. QED BY <1>1, <1>2, <1>3

LEMMA CodeField ==
  ASSUME NEW s, IsState(s), NEW x
  PROVE  /\ IsState([s EXCEPT !.code = x])
         /\ [s EXCEPT !.code = x].pc = s.pc
         /\ [s EXCEPT !.code = x].message = s.message
<1>1. PICK pc, message, seen, last, tries, code :
        s = [pc |-> pc, message |-> message, seen |-> seen,
             last |-> last, tries |-> tries, code |-> code]
  BY DEF IsState
<1>2. [s EXCEPT !.code = x]
        = [pc |-> pc, message |-> message, seen |-> seen,
           last |-> last, tries |-> tries, code |-> x]
  BY <1>1
<1>3. IsState([s EXCEPT !.code = x])
  BY <1>2, Zenon DEF IsState
<1>4. QED BY <1>1, <1>2, <1>3

LEMMA LastField ==
  ASSUME NEW s, IsState(s), NEW x
  PROVE  /\ IsState([s EXCEPT !.last = x])
         /\ [s EXCEPT !.last = x].pc = s.pc
         /\ [s EXCEPT !.last = x].message = s.message
<1>1. PICK pc, message, seen, last, tries, code :
        s = [pc |-> pc, message |-> message, seen |-> seen,
             last |-> last, tries |-> tries, code |-> code]
  BY DEF IsState
<1>2. [s EXCEPT !.last = x]
        = [pc |-> pc, message |-> message, seen |-> seen,
           last |-> x, tries |-> tries, code |-> code]
  BY <1>1
<1>3. IsState([s EXCEPT !.last = x])
  BY <1>2, Zenon DEF IsState
<1>4. QED BY <1>1, <1>2, <1>3

LEMMA TriesField ==
  ASSUME NEW s, IsState(s), NEW x
  PROVE  /\ IsState([s EXCEPT !.tries = x])
         /\ [s EXCEPT !.tries = x].pc = s.pc
         /\ [s EXCEPT !.tries = x].message = s.message
<1>1. PICK pc, message, seen, last, tries, code :
        s = [pc |-> pc, message |-> message, seen |-> seen,
             last |-> last, tries |-> tries, code |-> code]
  BY DEF IsState
<1>2. [s EXCEPT !.tries = x]
        = [pc |-> pc, message |-> message, seen |-> seen,
           last |-> last, tries |-> x, code |-> code]
  BY <1>1
<1>3. IsState([s EXCEPT !.tries = x])
  BY <1>2, Zenon DEF IsState
<1>4. QED BY <1>1, <1>2, <1>3

LEMMA MessageField ==
  ASSUME NEW s, IsState(s), NEW x
  PROVE  /\ IsState([s EXCEPT !.message = x])
         /\ [s EXCEPT !.message = x].pc = s.pc
         /\ [s EXCEPT !.message = x].message = x
<1>1. PICK pc, message, seen, last, tries, code :
        s = [pc |-> pc, message |-> message, seen |-> seen,
             last |-> last, tries |-> tries, code |-> code]
  BY DEF IsState
<1>2. [s EXCEPT !.message = x]
        = [pc |-> pc, message |-> x, seen |-> seen,
           last |-> last, tries |-> tries, code |-> code]
  BY <1>1
<1>3. IsState([s EXCEPT !.message = x])
  BY <1>2, Zenon DEF IsState
<1>4. QED BY <1>1, <1>2, <1>3

LEMMA SeenField ==
  ASSUME NEW s, IsState(s), NEW x
  PROVE  /\ IsState([s EXCEPT !.seen = x])
         /\ [s EXCEPT !.seen = x].pc = s.pc
         /\ [s EXCEPT !.seen = x].message = s.message
<1>1. PICK pc, message, seen, last, tries, code :
        s = [pc |-> pc, message |-> message, seen |-> seen,
             last |-> last, tries |-> tries, code |-> code]
  BY DEF IsState
<1>2. [s EXCEPT !.seen = x]
        = [pc |-> pc, message |-> message, seen |-> x,
           last |-> last, tries |-> tries, code |-> code]
  BY <1>1
<1>3. IsState([s EXCEPT !.seen = x])
  BY <1>2, Zenon DEF IsState
<1>4. QED BY <1>1, <1>2, <1>3

\* What a role that ends is left with.
LEMMA EndedState ==
  ASSUME NEW code
  PROVE  /\ IsState(Idle) /\ Idle.pc = "idle"
         /\ IsState([Idle EXCEPT !.pc = "ended", !.code = code])
         /\ [Idle EXCEPT !.pc = "ended", !.code = code].pc = "ended"
<1>1. IsState(Idle) /\ Idle.pc = "idle"
  BY DEF IsState, Idle
<1> DEFINE e == [Idle EXCEPT !.pc = "ended"]
<1>2. IsState(e) /\ e.pc = "ended"
  BY <1>1, PcField
<1>3. [Idle EXCEPT !.pc = "ended", !.code = code] = [e EXCEPT !.code = code]
  BY DEF Idle
<1> HIDE DEF e
<1>4. IsState([e EXCEPT !.code = code]) /\ [e EXCEPT !.code = code].pc = "ended"
  BY <1>2, CodeField
<1>5. IsState([Idle EXCEPT !.pc = "ended", !.code = code])
      /\ [Idle EXCEPT !.pc = "ended", !.code = code].pc = "ended"
  BY <1>3, <1>4, Zenon
<1>6. QED BY <1>1, <1>5, Zenon

\* A process that does not hold a slot after a step, or held it before.
LEMMA MoveKeeps ==
  ASSUME Inductive, NEW p \in Processes, NEW s, IsState(s),
         proc' = [proc EXCEPT ![p] = s],
         UNCHANGED <<marker, anchors, wire, gateway>>,
         s.pc \in Composing => s.message[1].kind \in Slots,
         s.pc \in Holding =>
           /\ s.message = proc[p].message
           /\ {s.pc, proc[p].pc} \subseteq {"dispatch", "reconcile"}
           /\ s.pc = "dispatch" => Search(Slot(p)) = {}
  PROVE  Inductive'
<1>1. proc'[p] = s /\ \A q \in Processes : q # p => proc'[q] = proc[q]
  BY DEF Inductive, Shape
<1>2. Shape'
  BY <1>1 DEF Inductive, Shape, Slot, Message
<1>3. Announced' /\ Single'
  BY DEF Inductive, Announced, Single
<1>4. HoldsMarker'
  BY <1>1 DEF Inductive, HoldsMarker, At, Slot, Message, Holding
<1>5. SoleWriter'
  BY <1>1 DEF Inductive, SoleWriter, Holds, Slot, Message, Holding
<1>6. SearchedFirst'
  BY <1>1 DEF Inductive, SearchedFirst, At, Slot, Message, Holding, Search
<1>7. QED BY <1>2, <1>3, <1>4, <1>5, <1>6 DEF Inductive

\* A process that goes on to a point where it holds nothing, its message unchanged.
LEMMA GotoKeeps ==
  ASSUME Inductive, NEW p \in Processes, NEW pc, Goto(p, pc), pc \notin Holding,
         pc \in Composing => proc[p].pc \in Composing,
         UNCHANGED <<marker, anchors, wire, gateway>>
  PROVE  Inductive'
<1> DEFINE s == [proc[p] EXCEPT !.pc = pc]
<1>1. proc' = [proc EXCEPT ![p] = s] /\ IsState(proc[p])
  BY DEF Goto, Inductive, Shape
<1>2. IsState(s) /\ s.pc = pc /\ s.message = proc[p].message
  BY <1>1, PcField
<1>3. s.pc \in Composing => s.message[1].kind \in Slots
  BY <1>2 DEF Inductive, Shape, Slot, Message
<1> HIDE DEF s
<1>4. QED BY <1>1, <1>2, <1>3, MoveKeeps

\* A role that ends.
LEMMA ExitKeeps ==
  ASSUME Inductive, NEW p \in Processes, NEW code, Exit(p, code),
         UNCHANGED <<marker, anchors, wire, gateway>>
  PROVE  Inductive'
<1> DEFINE s == [Idle EXCEPT !.pc = "ended", !.code = code]
<1>1. IsState(s) /\ s.pc = "ended" /\ s.pc \notin Composing \cup Holding
  BY EndedState DEF Composing, Holding
<1>2. proc' = [proc EXCEPT ![p] = s]
  BY DEF Exit
<1> HIDE DEF s
<1>3. QED BY <1>1, <1>2, MoveKeeps

LEMMA FailKeeps ==
  ASSUME Inductive, NEW p \in Processes, NEW code, Fail(p, code),
         UNCHANGED <<marker, anchors, wire, gateway>>
  PROVE  Inductive'
BY ExitKeeps DEF Fail

\* Two changes of one process are one change of it.
LEMMA TwoChanges ==
  ASSUME Inductive, NEW p \in Processes, NEW a, NEW b
  PROVE  /\ [proc EXCEPT ![p].pc = a, ![p].message = b]
              = [proc EXCEPT ![p] = [[proc[p] EXCEPT !.pc = a] EXCEPT !.message = b]]
         /\ [proc EXCEPT ![p].pc = a, ![p].last = b]
              = [proc EXCEPT ![p] = [[proc[p] EXCEPT !.pc = a] EXCEPT !.last = b]]
         /\ [proc EXCEPT ![p].pc = a, ![p].tries = b]
              = [proc EXCEPT ![p] = [[proc[p] EXCEPT !.pc = a] EXCEPT !.tries = b]]
         /\ [proc EXCEPT ![p].last = b] = [proc EXCEPT ![p] = [proc[p] EXCEPT !.last = b]]
BY DEF Inductive, Shape

----------------------------------------------------------------------------
(* The steps of a process                                                  *)

Same == UNCHANGED <<marker, anchors, wire, gateway>>

LEMMA StartKeeps ==
  ASSUME Inductive, NEW p \in Processes, Start(p)
  PROVE  Inductive'
<1>0. Same
  BY DEF Start, Same, ledgerVars, directoryVars
<1>1. CASE Fail(p, "FAILED")
  BY <1>0, <1>1, FailKeeps DEF Same
<1>2. CASE Goto(p, "discover")
  BY <1>0, <1>2, GotoKeeps DEF Same, Holding, Composing
<1>3. CASE Fail(p, "AMOUNT_UNRESOLVED")
  BY <1>0, <1>3, FailKeeps DEF Same
<1>4. ASSUME NEW amount,
             proc' = [proc EXCEPT ![p].pc = "inspect",
                        ![p].message = <<BuildProposal(descriptor, amount)>>]
      PROVE  Inductive'
  <2> DEFINE m == <<BuildProposal(descriptor, amount)>>
             t == [proc[p] EXCEPT !.pc = "inspect"]
             s == [t EXCEPT !.message = m]
  <2>1. proc' = [proc EXCEPT ![p] = s]
    BY <1>4, TwoChanges
  <2>2. m[1].kind = "proposal" /\ m[1].kind \in Slots
    BY DEF BuildProposal, Transition, Slots, Kinds
  <2> HIDE DEF m
  <2>3. IsState(t) /\ t.pc = "inspect"
    BY StateOf, PcField
  <2> HIDE DEF t
  <2>4. IsState(s) /\ s.pc = "inspect" /\ s.message = m
    BY <2>3, MessageField
  <2> HIDE DEF s
  <2>5. QED BY <1>0, <2>1, <2>2, <2>4, MoveKeeps DEF Same, Holding
<1>5. QED BY <1>1, <1>2, <1>3, <1>4 DEF Start

\* A search that finds nothing yet.
LEMMA LastKeeps ==
  ASSUME Inductive, NEW p \in Processes, NEW x, proc[p].pc \notin Holding,
         proc' = [proc EXCEPT ![p].last = x], Same
  PROVE  Inductive'
<1> DEFINE s == [proc[p] EXCEPT !.last = x]
<1>1. proc' = [proc EXCEPT ![p] = s]
  BY TwoChanges
<1>2. IsState(s) /\ s.pc = proc[p].pc /\ s.message = proc[p].message
  BY StateOf, LastField
<1>3. s.pc \in Composing => s.message[1].kind \in Slots
  BY <1>2 DEF Inductive, Shape, Slot, Message
<1> HIDE DEF s
<1>4. QED BY <1>1, <1>2, <1>3, MoveKeeps DEF Same

LEMMA DiscoverKeeps ==
  ASSUME Inductive, NEW p \in Processes, Discover(p)
  PROVE  Inductive'
<1>0. Same /\ proc[p].pc \notin Holding
  BY DEF Discover, Same, ledgerVars, directoryVars, At, Holding
<1>1. ASSUME NEW x, proc' = [proc EXCEPT ![p].last = x]
      PROVE  Inductive'
  BY <1>0, <1>1, LastKeeps
<1>2. ASSUME NEW code, Fail(p, code)
      PROVE  Inductive'
  BY <1>0, <1>2, FailKeeps DEF Same
<1>3. ASSUME NEW m, proc' = [proc EXCEPT ![p].pc = "poll", ![p].message = m, ![p].last = "empty"]
      PROVE  Inductive'
  <2> DEFINE t == [[proc[p] EXCEPT !.pc = "poll"] EXCEPT !.message = m]
             s == [t EXCEPT !.last = "empty"]
  <2>1. proc' = [proc EXCEPT ![p] = s]
    BY <1>3 DEF Inductive, Shape
  <2>2. IsState([proc[p] EXCEPT !.pc = "poll"]) /\ [proc[p] EXCEPT !.pc = "poll"].pc = "poll"
    BY StateOf, PcField
  <2>3. IsState(t) /\ t.pc = "poll"
    BY <2>2, MessageField
  <2> HIDE DEF t
  <2>4. IsState(s) /\ s.pc = "poll" /\ s.pc \notin Composing \cup Holding
    BY <2>3, LastField DEF Composing, Holding
  <2> HIDE DEF s
  <2>5. QED BY <1>0, <2>1, <2>4, MoveKeeps DEF Same
<1>4. QED BY <1>1, <1>2, <1>3 DEF Discover

LEMMA RunAgainKeeps ==
  ASSUME Inductive, NEW p \in Processes, RunAgain(p)
  PROVE  Inductive'
<1>1. proc' = [proc EXCEPT ![p] = Idle] /\ Same
  BY DEF RunAgain, Same, ledgerVars, directoryVars
<1>2. IsState(Idle) /\ Idle.pc \notin Composing \cup Holding
  BY EndedState DEF Composing, Holding
<1>3. QED BY <1>1, <1>2, MoveKeeps DEF Same

LEMMA InspectKeeps ==
  ASSUME Inductive, NEW p \in Processes, Inspect(p)
  PROVE  Inductive'
<1>0. Same /\ proc[p].pc \in Composing
  BY DEF Inspect, Same, ledgerVars, directoryVars, At, Composing
<1>1. ASSUME NEW pc \in {"search", "adopt"}, Goto(p, pc)
      PROVE  Inductive'
  BY <1>0, <1>1, GotoKeeps DEF Same, Holding
<1>2. ASSUME NEW code, Fail(p, code)
      PROVE  Inductive'
  BY <1>0, <1>2, FailKeeps DEF Same
<1>3. \/ \E pc \in {"search", "adopt"} : Goto(p, pc)
      \/ \E code : Fail(p, code)
  BY DEF Inspect
<1>4. QED BY <1>1, <1>2, <1>3

LEMMA SearchOnceKeeps ==
  ASSUME Inductive, NEW p \in Processes, SearchOnce(p)
  PROVE  Inductive'
<1>0. Same /\ proc[p].pc \in {"search", "adopt", "reconcile"}
  BY DEF SearchOnce, Same, ledgerVars, directoryVars, At
<1>1. ASSUME NEW code, Fail(p, code)
      PROVE  Inductive'
  BY <1>0, <1>1, FailKeeps DEF Same
<1>2. ASSUME NEW pc \in {"verify", "create"}, Goto(p, pc)
      PROVE  Inductive'
  BY <1>0, <1>2, GotoKeeps DEF Same, Holding, Composing
<1>3. CASE At(p, "reconcile") /\ ClassifySearch(Message(p)) = "absent" /\ Goto(p, "dispatch")
  <2> DEFINE s == [proc[p] EXCEPT !.pc = "dispatch"]
  <2>1. proc' = [proc EXCEPT ![p] = s]
    BY <1>3 DEF Goto, Inductive, Shape
  <2>2. IsState(s) /\ s.pc = "dispatch" /\ s.message = proc[p].message
    BY StateOf, PcField
  <2>3. Search(Slot(p)) = {}
    BY <1>3 DEF ClassifySearch, Slot
  <2>4. s.message[1].kind \in Slots
    BY <1>0, <2>2 DEF Inductive, Shape, Slot, Message, Composing
  <2> HIDE DEF s
  <2>5. QED BY <1>0, <1>3, <2>1, <2>2, <2>3, <2>4, MoveKeeps DEF Same, At
<1>4. \/ \E code : Fail(p, code)
      \/ \E pc \in {"verify", "create"} : Goto(p, pc)
      \/ At(p, "reconcile") /\ ClassifySearch(Message(p)) = "absent" /\ Goto(p, "dispatch")
  BY DEF SearchOnce
<1>5. QED BY <1>1, <1>2, <1>3, <1>4

\* The process that opens the marker is the only one that holds the slot.
LEMMA CreateKeeps ==
  ASSUME Inductive, NEW p \in Processes, CreateWriteIntentMarker(p)
  PROVE  Inductive'
<1>0. proc[p].pc = "create" /\ UNCHANGED <<anchors, wire, gateway>>
      /\ IsState(proc[p]) /\ Slot(p) \in Slots
  BY DEF CreateWriteIntentMarker, ledgerVars, At, Inductive, Shape, Composing
<1>1. CASE Goto(p, "adopt") /\ UNCHANGED directoryVars
  BY <1>0, <1>1, GotoKeeps DEF directoryVars, Holding, Composing
<1>2. CASE OpenMarker(Slot(p)) /\ Goto(p, "fill")
  <2> DEFINE s == [proc[p] EXCEPT !.pc = "fill"]
  <2>1. IsState(s) /\ s.pc = "fill" /\ s.message = proc[p].message
    BY <1>0, PcField
  <2>2. proc' = [proc EXCEPT ![p] = s]
    BY <1>2 DEF Goto, Inductive, Shape
  <2> HIDE DEF s
  <2>3. /\ proc'[p] = s /\ (\A q \in Processes : q # p => proc'[q] = proc[q])
        /\ proc' = [q \in Processes |-> proc'[q]]
    BY <2>2 DEF Inductive, Shape
  <2>4. /\ marker[Slot(p)] = Absent /\ marker' = [marker EXCEPT ![Slot(p)] = Torn]
        /\ marker'[Slot(p)] = Torn /\ marker' = [slot \in Slots |-> marker'[slot]]
        /\ \A slot \in Slots : slot # Slot(p) => marker'[slot] = marker[slot]
    BY <1>0, <1>2 DEF OpenMarker, Inductive, Shape
  <2>5. Absent # Torn /\ \A digest : Absent # Written(digest)
    BY DEF Absent, Torn, Written
  <2>6. \A q \in Processes : Slot(q)' = Slot(q) /\ Message(q)' = Message(q)
    BY <2>1, <2>3 DEF Slot, Message
  <2>7. \A q \in Processes : q # p /\ Holds(q) => Slot(q) # Slot(p)
    BY <2>4, <2>5 DEF Inductive, HoldsMarker, Holds, Holding, At
  <2>8. Shape'
    BY <1>0, <2>1, <2>3, <2>4, <2>6 DEF Inductive, Shape
  <2>9. Announced' /\ Single'
    BY <1>0, <2>4, <2>5 DEF Inductive, Announced, Single
  <2>10. HoldsMarker'
    BY <2>1, <2>3, <2>4, <2>6, <2>7 DEF Inductive, HoldsMarker, Holds, Holding, Shape, Composing, At
  <2>11. SoleWriter'
    BY <2>3, <2>6, <2>7 DEF Inductive, SoleWriter, Holds
  <2>12. SearchedFirst'
    BY <1>0, <2>1, <2>3, <2>6 DEF Inductive, SearchedFirst, At, Search
  <2>13. QED BY <2>8, <2>9, <2>10, <2>11, <2>12 DEF Inductive
<1>3. QED BY <1>1, <1>2 DEF CreateWriteIntentMarker

LEMMA SyncKeeps ==
  ASSUME Inductive, NEW p \in Processes, SyncMarker(p)
  PROVE  Inductive'
<1>0. /\ proc[p].pc = "fill" /\ UNCHANGED <<anchors, wire, gateway>>
      /\ IsState(proc[p]) /\ Slot(p) \in Slots /\ marker[Slot(p)] = Torn /\ Holds(p)
  BY DEF SyncMarker, ledgerVars, At, Inductive, Shape, Composing, HoldsMarker, Holds, Holding
<1> DEFINE s == [proc[p] EXCEPT !.pc = "dispatch"]
<1>1. IsState(s) /\ s.pc = "dispatch" /\ s.message = proc[p].message
  BY <1>0, PcField
<1>2. proc' = [proc EXCEPT ![p] = s]
  BY DEF SyncMarker, Goto, Inductive, Shape
<1> HIDE DEF s
<1>3. /\ proc'[p] = s /\ (\A q \in Processes : q # p => proc'[q] = proc[q])
      /\ proc' = [q \in Processes |-> proc'[q]]
  BY <1>2 DEF Inductive, Shape
<1>4. /\ marker' = [marker EXCEPT ![Slot(p)] = Written(Message(p))]
      /\ marker'[Slot(p)] = Written(Message(p)) /\ marker' = [slot \in Slots |-> marker'[slot]]
      /\ \A slot \in Slots : slot # Slot(p) => marker'[slot] = marker[slot]
  BY <1>0 DEF SyncMarker, FillMarker, Inductive, Shape, Slot
<1>5. \A digest : Torn # Written(digest)
  BY DEF Torn, Written
<1>6. \A q \in Processes : Slot(q)' = Slot(q) /\ Message(q)' = Message(q)
  BY <1>1, <1>3 DEF Slot, Message
<1>7. \A q \in Processes : q # p /\ Holds(q) => Slot(q) # Slot(p)
  BY <1>0 DEF Inductive, SoleWriter
<1>8. \A write \in anchors \cup wire : write.slot # Slot(p)
  BY <1>0, <1>5 DEF Inductive, Announced
<1>9. Shape'
  BY <1>0, <1>1, <1>3, <1>4, <1>6 DEF Inductive, Shape
<1>10. Announced' /\ Single'
  BY <1>0, <1>4, <1>8 DEF Inductive, Announced, Single
<1>11. HoldsMarker'
  BY <1>1, <1>3, <1>4, <1>6, <1>7 DEF Inductive, HoldsMarker, Holds, Holding, Shape, Composing, At
<1>12. SoleWriter'
  BY <1>3, <1>6, <1>7 DEF Inductive, SoleWriter, Holds
<1>13. Search(Slot(p)) = {}
  BY <1>8 DEF Search
<1>14. SearchedFirst'
  BY <1>0, <1>1, <1>3, <1>6, <1>13 DEF Inductive, SearchedFirst, At, Search
<1>15. QED BY <1>9, <1>10, <1>11, <1>12, <1>14 DEF Inductive

----------------------------------------------------------------------------
(* The ledger                                                              *)

\* A slot is fresh where the gateway anchors or takes a write of its holder.
LEMMA FreshSlot ==
  ASSUME Inductive, NEW p \in Processes, At(p, "dispatch"), ~KnownKey(Slot(p))
  PROVE  \A x \in anchors \cup wire : x.slot # Slot(p)
<1>1. CASE gateway = "dedup"
  BY <1>1 DEF KnownKey, Search
<1>2. CASE gateway = "prompt"
  BY <1>2 DEF Inductive, SearchedFirst, Search
<1>3. QED BY <1>1, <1>2 DEF Inductive, Shape, Gateways

\* What the ledger is left with when it takes a write of a process.
LEMMA LedgerEffect ==
  ASSUME Inductive, NEW p \in Processes, At(p, "dispatch"),
         NEW write, write = [slot |-> Slot(p), digest |-> Message(p)],
         LogNow(write) \/ LogLater(write) \/ UNCHANGED ledgerVars
  PROVE  /\ Announced' <=> \A x \in anchors' \cup wire' :
                             x.slot \in Slots /\ marker'[x.slot] = Written(x.digest)
         /\ gateway' = gateway
         /\ \/ UNCHANGED <<anchors, wire>>
            \/ /\ \A x \in anchors \cup wire : x.slot # Slot(p)
               /\ wire' = wire
               /\ \E a : /\ a.slot = Slot(p) /\ a.digest = Message(p)
                        /\ anchors' = anchors \cup {a}
            \/ /\ \A x \in anchors \cup wire : x.slot # Slot(p)
               /\ gateway = "dedup" /\ anchors' = anchors
               /\ wire' = wire \cup {write}
<1>1. CASE LogNow(write) /\ ~KnownKey(Slot(p))
  <2> DEFINE a == [slot |-> write.slot, digest |-> write.digest,
                   height |-> Height + 1, id |-> Height + 1]
  <2>1. anchors' = anchors \cup {a} /\ UNCHANGED <<wire, gateway>>
    BY <1>1 DEF LogNow, AnchorNow
  <2>2. a.slot = Slot(p) /\ a.digest = Message(p)
    OBVIOUS
  <2> HIDE DEF a
  <2>3. QED BY <1>1, <2>1, <2>2, FreshSlot DEF Announced
<1>2. CASE LogNow(write) /\ KnownKey(Slot(p))
  BY <1>2 DEF LogNow, ledgerVars, Announced
<1>3. CASE LogLater(write)
  BY <1>3, FreshSlot DEF LogLater, Announced
<1>4. CASE UNCHANGED ledgerVars
  BY <1>4 DEF ledgerVars, Announced
<1>5. QED BY <1>1, <1>2, <1>3, <1>4

\* A process that has sent its write and goes on without the right to send it at once.
LEMMA SentKeeps ==
  ASSUME Inductive, NEW p \in Processes, At(p, "dispatch"), NEW s, IsState(s),
         proc' = [proc EXCEPT ![p] = s], marker' = marker,
         s.pc \in {"verify", "ended"} \/ (s.pc = "reconcile" /\ s.message = proc[p].message),
         NEW write, write = [slot |-> Slot(p), digest |-> Message(p)],
         LogNow(write) \/ LogLater(write) \/ UNCHANGED ledgerVars
  PROVE  Inductive'
<1>1. proc'[p] = s /\ (\A q \in Processes : q # p => proc'[q] = proc[q])
      /\ proc' = [q \in Processes |-> proc'[q]]
  BY DEF Inductive, Shape
<1>2. /\ Slot(p) \in Slots /\ marker[Slot(p)] = Written(Message(p)) /\ Holds(p)
  BY DEF Inductive, Shape, HoldsMarker, Holds, Holding, Composing, At
<1>3. \A q \in Processes : q # p => Slot(q)' = Slot(q) /\ Message(q)' = Message(q)
  BY <1>1 DEF Slot, Message
<1>4. s.pc = "reconcile" => Slot(p)' = Slot(p) /\ Message(p)' = Message(p)
  BY <1>1 DEF Slot, Message
<1>5. write.slot = Slot(p) /\ write.digest = Message(p)
  OBVIOUS
<1>6. \A q \in Processes : q # p /\ Holds(q) => Slot(q) # Slot(p)
  BY <1>2 DEF Inductive, SoleWriter
<1>7. gateway' = gateway
  BY LedgerEffect
<1>8. \/ UNCHANGED <<anchors, wire>>
      \/ /\ \A x \in anchors \cup wire : x.slot # Slot(p)
         /\ wire' = wire
         /\ \E a : /\ a.slot = Slot(p) /\ a.digest = Message(p)
                  /\ anchors' = anchors \cup {a}
      \/ /\ \A x \in anchors \cup wire : x.slot # Slot(p)
         /\ gateway = "dedup" /\ anchors' = anchors
         /\ wire' = wire \cup {write}
  BY LedgerEffect
<1>9. Shape'
  BY <1>1, <1>2, <1>3, <1>4, <1>7 DEF Inductive, Shape, Composing
<1>10. Announced'
  BY <1>2, <1>5, <1>8 DEF Inductive, Announced
<1>11. Single'
  BY <1>5, <1>8 DEF Inductive, Single
<1>12. HoldsMarker'
  BY <1>1, <1>2, <1>3, <1>4 DEF Inductive, HoldsMarker, At
<1>13. SoleWriter'
  BY <1>1, <1>2, <1>3, <1>4 DEF Inductive, SoleWriter, Holds, Holding
<1>14. \A q \in Processes : At(q, "dispatch")' => q # p /\ At(q, "dispatch") /\ Holds(q)
  BY <1>1 DEF At, Holds, Holding
<1>15. SearchedFirst'
  BY <1>3, <1>5, <1>6, <1>7, <1>8, <1>14 DEF Inductive, SearchedFirst, Search
<1>16. QED BY <1>9, <1>10, <1>11, <1>12, <1>13, <1>15 DEF Inductive

LEMMA DispatchKeeps ==
  ASSUME Inductive, NEW p \in Processes, Dispatch(p)
  PROVE  Inductive'
<1> DEFINE write == [slot |-> Slot(p), digest |-> Message(p)]
<1>1. At(p, "dispatch") /\ marker' = marker /\ IsState(proc[p])
  BY DEF Dispatch, directoryVars, Inductive, Shape
<1>2. \/ LogNow(write) /\ Goto(p, "verify")
      \/ LogLater(write) /\ Fail(p, "AMBIGUOUS_WRITE")
      \/ (LogNow(write) \/ LogLater(write) \/ UNCHANGED ledgerVars) /\ Unanswered(p)
  BY DEF Dispatch, Received
<1> HIDE DEF write
<1>3. LogNow(write) \/ LogLater(write) \/ UNCHANGED ledgerVars
  BY <1>2
<1>4. write = [slot |-> Slot(p), digest |-> Message(p)]
  BY DEF write
<1>5. ASSUME NEW s, IsState(s), proc' = [proc EXCEPT ![p] = s],
             s.pc \in {"verify", "ended"} \/ (s.pc = "reconcile" /\ s.message = proc[p].message)
      PROVE  Inductive'
  BY <1>1, <1>3, <1>4, <1>5, SentKeeps
<1>6. CASE Goto(p, "verify")
  <2> DEFINE s == [proc[p] EXCEPT !.pc = "verify"]
  <2>1. IsState(s) /\ s.pc = "verify"
    BY <1>1, PcField
  <2>2. proc' = [proc EXCEPT ![p] = s]
    BY <1>6 DEF Goto, Inductive, Shape
  <2> HIDE DEF s
  <2>3. QED BY <1>5, <2>1, <2>2
<1>7. CASE Fail(p, "AMBIGUOUS_WRITE")
  <2> DEFINE s == [Idle EXCEPT !.pc = "ended", !.code = "AMBIGUOUS_WRITE"]
  <2>1. IsState(s) /\ s.pc = "ended"
    BY EndedState
  <2>2. proc' = [proc EXCEPT ![p] = s]
    BY <1>7 DEF Fail, Exit
  <2> HIDE DEF s
  <2>3. QED BY <1>5, <2>1, <2>2
<1>8. CASE proc' = [proc EXCEPT ![p].pc = "reconcile", ![p].tries = @ + 1]
  <2> DEFINE n == proc[p].tries + 1
             t == [proc[p] EXCEPT !.pc = "reconcile"]
             s == [t EXCEPT !.tries = n]
  <2>1. proc' = [proc EXCEPT ![p] = s]
    BY <1>1, <1>8 DEF Inductive, Shape, IsState
  <2> HIDE DEF n
  <2>2. IsState(t) /\ t.pc = "reconcile" /\ t.message = proc[p].message
    BY <1>1, PcField
  <2> HIDE DEF t
  <2>3. IsState(s) /\ s.pc = t.pc /\ s.message = t.message
    BY <2>2, TriesField, Zenon
  <2> HIDE DEF s
  <2>4. QED BY <1>5, <2>1, <2>2, <2>3
<1>9. QED BY <1>2, <1>6, <1>7, <1>8 DEF Unanswered

\* The ledger's own steps: a block, or a write that was taken is anchored.
LEMMA LedgerKeeps ==
  ASSUME Inductive, LedgerStep, UNCHANGED <<directoryVars, proc>>
  PROVE  Inductive'
<1>0. UNCHANGED <<marker, proc, gateway>>
  BY DEF LedgerStep, SealEmpty, LandLate, directoryVars
<1>1. CASE SealEmpty
  BY <1>0, <1>1 DEF SealEmpty, Inductive, Shape, Announced, HoldsMarker, SoleWriter, SearchedFirst,
     Single, Search, At, Slot, Message, Holds
<1>2. CASE LandLate
  <2>1. PICK write \in wire : AnchorNow(write) /\ wire' = wire \ {write}
    BY <1>2 DEF LandLate
  <2> DEFINE a == [slot |-> write.slot, digest |-> write.digest,
                   height |-> Height + 1, id |-> Height + 1]
  <2>2. anchors' = anchors \cup {a}
    BY <2>1 DEF AnchorNow
  <2>3. a.slot = write.slot /\ a.digest = write.digest
    OBVIOUS
  <2> HIDE DEF a
  <2>4. Shape' /\ HoldsMarker' /\ SoleWriter'
    BY <1>0 DEF Inductive, Shape, HoldsMarker, SoleWriter, At, Slot, Message, Holds
  <2>5. Announced'
    BY <1>0, <2>1, <2>2, <2>3 DEF Inductive, Announced
  <2>6. Single'
    BY <2>1, <2>2, <2>3 DEF Inductive, Single
  <2>7. SearchedFirst'
    BY <1>0 DEF Inductive, SearchedFirst
  <2>8. QED BY <2>4, <2>5, <2>6, <2>7 DEF Inductive
<1>3. QED BY <1>1, <1>2 DEF LedgerStep

----------------------------------------------------------------------------
(* The remaining steps of a process                                        *)

LEMMA PollKeeps ==
  ASSUME Inductive, NEW p \in Processes, Poll(p)
  PROVE  Inductive'
<1>0. Same /\ proc[p].pc \notin Holding
  BY DEF Poll, Same, ledgerVars, directoryVars, At, Holding
<1>1. ASSUME NEW x, proc' = [proc EXCEPT ![p].last = x]
      PROVE  Inductive'
  BY <1>0, <1>1, LastKeeps
<1>2. ASSUME NEW code, Fail(p, code)
      PROVE  Inductive'
  BY <1>0, <1>2, FailKeeps DEF Same
<1>3. CASE proc' = [proc EXCEPT ![p].pc = "verify", ![p].last = "empty"]
  <2> DEFINE t == [proc[p] EXCEPT !.pc = "verify"]
             s == [t EXCEPT !.last = "empty"]
  <2>1. proc' = [proc EXCEPT ![p] = s]
    BY <1>3, TwoChanges
  <2>2. IsState(t) /\ t.pc = "verify"
    BY StateOf, PcField
  <2> HIDE DEF t
  <2>3. IsState(s) /\ s.pc = "verify" /\ s.pc \notin Composing \cup Holding
    BY <2>2, LastField DEF Composing, Holding
  <2> HIDE DEF s
  <2>4. QED BY <1>0, <2>1, <2>3, MoveKeeps DEF Same
<1>4. QED BY <1>1, <1>2, <1>3 DEF Poll

\* The end of a poll, and of a verification that does not succeed.
LEMMA PollFailsKeeps ==
  ASSUME Inductive, NEW p \in Processes, NEW code, PollFails(p, code), Same
  PROVE  Inductive'
<1>1. CASE Goto(p, "sign")
  BY <1>1, GotoKeeps DEF Same, Holding, Composing
<1>2. CASE Fail(p, code)
  BY <1>2, FailKeeps DEF Same
<1>3. QED BY <1>1, <1>2 DEF PollFails

LEMMA PollEndsKeeps ==
  ASSUME Inductive, NEW p \in Processes, PollEnds(p)
  PROVE  Inductive'
<1>1. Same
  BY DEF PollEnds, Same, ledgerVars, directoryVars
<1>2. \E code : PollFails(p, code)
  BY DEF PollEnds
<1>3. QED BY <1>1, <1>2, PollFailsKeeps

LEMMA VerifyKeeps ==
  ASSUME Inductive, NEW p \in Processes, Verify(p)
  PROVE  Inductive'
<1>0. Same
  BY DEF Verify, Same, ledgerVars, directoryVars
<1>1. ASSUME NEW code, Fail(p, code)
      PROVE  Inductive'
  BY <1>0, <1>1, FailKeeps DEF Same
<1>2. ASSUME NEW code, PollFails(p, code)
      PROVE  Inductive'
  BY <1>0, <1>2, PollFailsKeeps
<1>3. ASSUME NEW seen, Proceed(p, seen)
      PROVE  Inductive'
  <2> DEFINE m  == IF Len(seen) = 3 THEN proc[p].message ELSE <<Following(seen)>>
             pc == IF Len(seen) = 3 THEN "sign"
                   ELSE IF ~Writes(RoleOf[p], Len(seen) + 1) THEN "poll"
                   ELSE IF RoleOf[p] = "payee" THEN "decide" ELSE "inspect"
             a == [proc[p] EXCEPT !.seen = seen]
             b == [a EXCEPT !.tries = 0]
             c == [b EXCEPT !.last = "empty"]
             d == [c EXCEPT !.message = m]
             s == [d EXCEPT !.pc = pc]
  <2>1. proc' = [proc EXCEPT ![p] = s]
    BY <1>3 DEF Proceed, Inductive, Shape, IsState
  <2>2. pc \notin Holding /\ (pc \in Composing => m = <<Following(seen)>>)
    BY DEF Holding, Composing
  <2>3. Following(seen).kind \in Slots
    BY DEF Following, BuildAcceptance, BuildAcknowledgment, Transition, Slots, Kinds
  <2>4. m = <<Following(seen)>> => m[1].kind \in Slots
    BY <2>3
  <2> HIDE DEF m, pc
  <2>5. IsState(a)
    BY StateOf, SeenField
  <2> HIDE DEF a
  <2>6. IsState(b)
    BY <2>5, TriesField
  <2> HIDE DEF b
  <2>7. IsState(c)
    BY <2>6, LastField
  <2> HIDE DEF c
  <2>8. IsState(d) /\ d.message = m
    BY <2>7, MessageField, Zenon
  <2> HIDE DEF d
  <2>9. IsState(s) /\ s.pc = pc /\ s.message = d.message
    BY <2>8, PcField, Zenon
  <2> HIDE DEF s
  <2>10. QED BY <1>0, <2>1, <2>2, <2>4, <2>8, <2>9, MoveKeeps DEF Same
<1>4. QED BY <1>1, <1>2, <1>3 DEF Verify

LEMMA DecideKeeps ==
  ASSUME Inductive, NEW p \in Processes, Decide(p)
  PROVE  Inductive'
<1>0. Same /\ proc[p].pc = "decide"
  BY DEF Decide, Same, ledgerVars, directoryVars, At
<1>1. CASE Goto(p, "inspect")
  BY <1>0, <1>1, GotoKeeps DEF Same, Holding, Composing
<1>2. ASSUME NEW code, Fail(p, code)
      PROVE  Inductive'
  BY <1>0, <1>2, FailKeeps DEF Same
<1>3. QED BY <1>1, <1>2 DEF Decide

LEMMA SignKeeps ==
  ASSUME Inductive, NEW p \in Processes, Sign(p)
  PROVE  Inductive'
<1>0. Same
  BY DEF Sign, Same, ledgerVars, directoryVars
<1>1. CASE Goto(p, "json")
  BY <1>0, <1>1, GotoKeeps DEF Same, Holding, Composing
<1>2. CASE Fail(p, "FAILED")
  BY <1>0, <1>2, FailKeeps DEF Same
<1>3. QED BY <1>1, <1>2 DEF Sign

LEMMA PublishKeeps ==
  ASSUME Inductive, NEW p \in Processes, WritePartyResult(p)
  PROVE  Inductive'
<1>0. Same
  BY DEF WritePartyResult, Link, LinkJson, LinkMarkdown, Complete, Same, ledgerVars, directoryVars
<1>1. ASSUME NEW pc \in {"markdown", "marker"}, Goto(p, pc)
      PROVE  Inductive'
  BY <1>0, <1>1, GotoKeeps DEF Same, Holding, Composing
<1>2. ASSUME NEW code, Exit(p, code)
      PROVE  Inductive'
  BY <1>0, <1>2, ExitKeeps DEF Same
<1>3. (\E pc \in {"markdown", "marker"} : Goto(p, pc)) \/ (\E code : Exit(p, code))
  BY DEF WritePartyResult, Link, Fail
<1>4. QED BY <1>1, <1>2, <1>3

----------------------------------------------------------------------------
(* The theorems                                                            *)

LEMMA InductiveInit ==
  ASSUME Init
  PROVE  Inductive
<1>1. /\ proc = [p \in Processes |-> Idle] /\ marker = [slot \in Slots |-> Absent]
      /\ anchors = {} /\ wire = {} /\ gateway \in Gateways
  BY DEF Init, RunnerInit, DirectoryInit, LedgerInit
<1>2. IsState(Idle) /\ Idle.pc = "idle"
  BY EndedState
<1>3. \A p \in Processes : proc[p] = Idle
  BY <1>1
<1>4. QED BY <1>1, <1>2, <1>3 DEF Inductive, Shape, Announced, HoldsMarker, SoleWriter, SearchedFirst,
       Single, At, Holds, Holding, Composing

LEMMA InductiveStep ==
  ASSUME Inductive, [Next]_vars
  PROVE  Inductive'
<1>0. ASSUME UNCHANGED <<marker, anchors, wire, gateway, proc>>
      PROVE  Inductive'
  BY <1>0 DEF Inductive, Shape, Announced, HoldsMarker, SoleWriter, SearchedFirst, Single,
     Search, At, Slot, Message, Holds
<1>1. CASE UNCHANGED vars
  BY <1>0, <1>1 DEF vars, ledgerVars, directoryVars, runnerVars
<1>2. CASE LedgerStep /\ UNCHANGED <<directoryVars, runnerVars, verdict>>
  BY <1>2, LedgerKeeps DEF runnerVars
<1>3. ASSUME NEW p \in Processes, RunnerStep(p)
      PROVE  Inductive'
  BY <1>3, StartKeeps, DiscoverKeeps, InspectKeeps, SearchOnceKeeps, CreateKeeps, SyncKeeps,
     DispatchKeeps, PollKeeps, PollEndsKeeps, VerifyKeeps, DecideKeeps, SignKeeps, PublishKeeps
     DEF RunnerStep
<1>4. ASSUME NEW p \in Processes, RunAgain(p)
      PROVE  Inductive'
  BY <1>4, RunAgainKeeps
<1>5. CASE VerdictStep
  BY <1>0, <1>5 DEF VerdictStep, ReadLive, Audit, ledgerVars, directoryVars
<1>6. QED BY <1>1, <1>2, <1>3, <1>4, <1>5 DEF Next

\* The invariant holds of every run.
THEOREM HandshakeInductive == Spec => []Inductive
<1>1. Init => Inductive
  BY InductiveInit
<1>2. Inductive /\ [Next]_vars => Inductive'
  BY InductiveStep
<1>3. QED BY <1>1, <1>2, PTL DEF Spec

\* Whatever is anchored, or may still be, is named by the marker of its slot, which a
\* process that is run again finds.
THEOREM WritesAreAnnounced == Spec => []WriteAhead
<1>1. Inductive => WriteAhead
  BY DEF Inductive, Announced, WriteAhead
<1>2. QED BY <1>1, HandshakeInductive, PTL

LEMMA AtMostOne ==
  ASSUME NEW S, \A x, y \in S : x = y
  PROVE  Cardinality(S) \in Nat /\ Cardinality(S) <= 1 /\ (Cardinality(S) = 0 <=> S = {})
<1>1. CASE S = {}
  BY <1>1, FS_EmptySet
<1>2. CASE S # {}
  <2>1. PICK x : S = {x}
    BY <1>2
  <2>2. Cardinality(S) = 1
    BY <2>1, FS_Singleton
  <2>3. QED BY <1>2, <2>2
<1>3. QED BY <1>1, <1>2

\* However often processes are killed and run again, and whichever gateway there is, a
\* slot has one anchor, or one write that may still become one, and no more.
THEOREM AnchoredOnce == Spec => []OneAnchorPerSlot
<1>1. Inductive => OneAnchorPerSlot
  <2>1. SUFFICES ASSUME Inductive, NEW slot \in Slots
                 PROVE  Cardinality(Search(slot)) + Cardinality({w \in wire : w.slot = slot}) <= 1
    BY DEF OneAnchorPerSlot
  <2> DEFINE A == Search(slot)
             W == {w \in wire : w.slot = slot}
  <2>2. (\A x, y \in A : x = y) /\ (\A x, y \in W : x = y) /\ (A = {} \/ W = {})
    BY <2>1 DEF Inductive, Single, Search
  <2> HIDE DEF A, W
  <2>3. /\ Cardinality(A) \in Nat /\ Cardinality(A) <= 1 /\ (Cardinality(A) = 0 <=> A = {})
        /\ Cardinality(W) \in Nat /\ Cardinality(W) <= 1 /\ (Cardinality(W) = 0 <=> W = {})
    BY <2>2, AtMostOne
  <2>4. Cardinality(A) + Cardinality(W) <= 1
    BY <2>2, <2>3
  <2>5. QED BY <2>4 DEF A, W
<1>2. QED BY <1>1, HandshakeInductive, PTL

----------------------------------------------------------------------------
(* Results                                                                 *)

PackageShape == package = [role \in Roles |-> package[role]]

Final == \A role \in Roles : IsComplete(role) => package'[role] = package[role]

LEMMA FinalStep ==
  ASSUME PackageShape, [Next]_vars
  PROVE  PackageShape' /\ Final
<1>1. CASE UNCHANGED package
  BY <1>1 DEF PackageShape, Final
<1>2. ASSUME NEW p \in Processes, NEW result, LinkJson(RoleOf[p], result)
      PROVE  PackageShape' /\ Final
  BY <1>2, RunnerAssumption DEF PackageShape, Final, LinkJson, IsComplete
<1>3. ASSUME NEW p \in Processes, LinkMarkdown(RoleOf[p])
      PROVE  PackageShape' /\ Final
  BY <1>3, RunnerAssumption DEF PackageShape, Final, LinkMarkdown, IsComplete
<1>4. ASSUME NEW p \in Processes, Complete(RoleOf[p])
      PROVE  PackageShape' /\ Final
  BY <1>4, RunnerAssumption DEF PackageShape, Final, Complete, IsComplete
<1>5. ASSUME NEW p \in Processes, RunnerStep(p)
      PROVE  \/ UNCHANGED package
             \/ \E result : LinkJson(RoleOf[p], result)
             \/ LinkMarkdown(RoleOf[p]) \/ Complete(RoleOf[p])
  BY <1>5 DEF RunnerStep, Start, Discover, Inspect, SearchOnce, CreateWriteIntentMarker, SyncMarker,
     Dispatch, Poll, PollEnds, Verify, Decide, Sign, WritePartyResult, Link, OpenMarker, FillMarker,
     directoryVars
<1>6. ASSUME NEW p \in Processes, RunnerStep(p)
      PROVE  PackageShape' /\ Final
  BY <1>1, <1>2, <1>3, <1>4, <1>5, <1>6
<1>7. \/ UNCHANGED package
      \/ \E p \in Processes : RunnerStep(p)
  BY DEF Next, vars, directoryVars, VerdictStep, ReadLive, Audit, RunAgain
<1>8. QED BY <1>1, <1>6, <1>7

\* A complete result is never touched again, whoever runs the role.
THEOREM CompleteStays == Spec => PackageIsFinal
<1>1. Init => PackageShape
  BY DEF Init, DirectoryInit, PackageShape
<1>2. PackageShape /\ [Next]_vars => PackageShape'
  BY FinalStep
<1>3. PackageShape /\ [Next]_vars => [Final]_package
  BY FinalStep
<1>4. Spec => []PackageShape
  BY <1>1, <1>2, PTL DEF Spec
<1>5. Spec => [][Final]_package
  BY <1>3, <1>4, PTL DEF Spec
<1>6. QED BY <1>5 DEF PackageIsFinal, Final

----------------------------------------------------------------------------
(* What the parties know, and the verdict                                  *)

\* The ledger: a block is later than the one before it, an anchor is in a block.
LedgerInv ==
  /\ blocks \in Seq(Nat) /\ blocks # <<>>
  /\ \A i \in 1..(Len(blocks) - 1) : blocks[i] < blocks[i + 1]
  /\ \A a \in anchors : a.height \in 1..Len(blocks) /\ a.id = a.height

\* An entry is what the anchor of its slot says.
Anchored(e, kind, as, bs) ==
  /\ e.message.kind = kind
  /\ \E a \in as : a.slot = kind /\ e = Entry(a.digest, a, bs[a.height])

Accepts(e, f) == e.message = BuildAcceptance(f)
Acknowledges(e, f, g) == e.message = BuildAcknowledgment(f, g)

\* Transitions that are anchored and name one another.
Genuine(ts, as, bs) ==
  \/ ts = <<>>
  \/ \E e : ts = <<e>> /\ Anchored(e, "proposal", as, bs)
  \/ \E e, f : /\ ts = <<e, f>>
               /\ Anchored(e, "proposal", as, bs)
               /\ Anchored(f, "acceptance", as, bs) /\ Accepts(f, e)
  \/ \E e, f, g : /\ ts = <<e, f, g>>
                  /\ Anchored(e, "proposal", as, bs)
                  /\ Anchored(f, "acceptance", as, bs) /\ Accepts(f, e)
                  /\ Anchored(g, "acknowledgment", as, bs) /\ Acknowledges(g, f, e)

\* The payee goes on with a proposal that one of the options makes.
Recovered(role, ts, d) ==
  role = "payee" /\ ts # <<>> => IsRecoverable(d, ts[1].message)

\* The message that follows the transitions seen so far.
Follows(role, m, ts, d) ==
  \/ ts = <<>> /\ m.kind = "proposal" /\ (role = "payee" => IsRecoverable(d, m))
  \/ \E e : ts = <<e>> /\ m = BuildAcceptance(e)
  \/ \E e, f : ts = <<e, f>> /\ m = BuildAcknowledgment(f, e)

\* Where a process has a message to write or to find.
Working == Composing \cup {"poll", "verify"}

\* Where it has none yet.
Starting == {"idle", "discover"}

\* What a process of a role knows.
Knows(role, s, as, bs, d) ==
  /\ Genuine(s.seen, as, bs) /\ Recovered(role, s.seen, d)
  /\ s.pc \in Starting => s.seen = <<>>
  /\ s.pc \in Working => \E m : s.message = <<m>> /\ Follows(role, m, s.seen, d)
  /\ s.pc = "json" => ValidPartyResult(PartyResult(role, s.seen, d[role]))

ProcessInv == \A p \in Processes : Knows(RoleOf[p], proc[p], anchors, blocks, descriptor)

\* What is published of a role is what a process of it knew.
Honest(role, result, as, bs, d) ==
  \E r : /\ result = <<r>> /\ r.role = role /\ ValidPartyResult(r)
         /\ Genuine(r.transitions, as, bs) /\ Recovered(role, r.transitions, d)

PackageInv ==
  \A role \in Roles : \E stage, result :
    /\ package[role] = [stage |-> stage, result |-> result]
    /\ stage # "none" => Honest(role, result, anchors, blocks, descriptor)

IsVerdict(v) == \E pc, how, live, code : v = [pc |-> pc, how |-> how, live |-> live, code |-> code]

\* The transitions a verification found, in their order and as the mandate has them.
Found(ts, as, bs) ==
  \E e, f, g :
    /\ ts = <<e, f, g>> /\ Genuine(ts, as, bs)
    /\ e.height < f.height /\ f.height < g.height
    /\ e.message.amount = terms.mandate.amount /\ e.time < terms.request.until

Timely(ts) == ts[3].time <= Deadline(ts[1])

\* What would contradict two honest parties.
Refuted == {"MISSING", "DUPLICATE", "REORDERED", "MALFORMED", "BINDING_MISMATCH",
            "AMOUNT_UNRESOLVED"}

VerdictInv ==
  /\ IsVerdict(verdict)
  /\ verdict.code \notin Refuted
  /\ verdict.pc # "done" => verdict.code = "none"
  /\ verdict.pc = "audit" \/ verdict.code = "AUTHORIZED" =>
       /\ Found(verdict.live, anchors, blocks)
       /\ \A role \in Roles : IsComplete(role)
  /\ verdict.code = "AUTHORIZED" =>
       Timely(verdict.live) /\ terms.mandate.subjectRun = "stakeholder"

Knowing == LedgerInv /\ ProcessInv /\ PackageShape /\ PackageInv /\ VerdictInv

----------------------------------------------------------------------------
(* The ledger only grows                                                   *)

Grows ==
  /\ anchors \subseteq anchors' /\ Len(blocks) <= Len(blocks')
  /\ \A i \in 1..Len(blocks) : blocks'[i] = blocks[i]

LEMMA SealGrows ==
  ASSUME LedgerInv, NEW gap \in Nat, gap > 0, Seal(gap)
  PROVE  /\ blocks' \in Seq(Nat) /\ blocks' # <<>> /\ Len(blocks') = Len(blocks) + 1
         /\ \A i \in 1..Len(blocks) : blocks'[i] = blocks[i]
         /\ \A i \in 1..(Len(blocks') - 1) : blocks'[i] < blocks'[i + 1]
<1> DEFINE n == Len(blocks)
           t == blocks[n] + gap
<1>1. blocks \in Seq(Nat) /\ n \in Nat /\ n >= 1 /\ blocks[n] \in Nat
  BY DEF LedgerInv
<1>2. t \in Nat /\ blocks[n] < t /\ blocks' = Append(blocks, t)
  BY <1>1 DEF Seal, Height
<1> HIDE DEF t
<1>3. /\ blocks' \in Seq(Nat) /\ Len(blocks') = n + 1 /\ blocks'[n + 1] = t
      /\ \A i \in 1..n : blocks'[i] = blocks[i]
  BY <1>1, <1>2, AppendProperties
<1>4. blocks' # <<>>
  BY <1>1, <1>3
<1>5. ASSUME NEW i \in 1..n
      PROVE  blocks'[i] < blocks'[i + 1]
  <2>1. CASE i = n
    BY <1>1, <1>2, <1>3, <2>1
  <2>2. CASE i # n
    <3>1. i \in 1..(n - 1) /\ i + 1 \in 1..n
      BY <1>1, <2>2
    <3>2. blocks[i] < blocks[i + 1]
      BY <3>1 DEF LedgerInv
    <3>3. QED BY <1>3, <3>1, <3>2
  <2>3. QED BY <2>1, <2>2
<1>6. Len(blocks') - 1 = n
  BY <1>1, <1>3
<1>7. QED BY <1>3, <1>4, <1>5, <1>6

LEMMA SealEmptyGrows ==
  ASSUME LedgerInv, SealEmpty
  PROVE  LedgerInv' /\ Grows
<1>1. PICK gap \in BlockGaps : Seal(gap)
  BY DEF SealEmpty
<1>2. gap \in Nat /\ gap > 0 /\ anchors' = anchors
  BY LedgerAssumption DEF SealEmpty
<1>3. /\ blocks' \in Seq(Nat) /\ blocks' # <<>> /\ Len(blocks') = Len(blocks) + 1
      /\ \A i \in 1..Len(blocks) : blocks'[i] = blocks[i]
      /\ \A i \in 1..(Len(blocks') - 1) : blocks'[i] < blocks'[i + 1]
  BY <1>1, <1>2, SealGrows
<1>4. Len(blocks) \in Nat /\ \A a \in anchors : a.height \in 1..Len(blocks) /\ a.id = a.height
  BY DEF LedgerInv
<1>5. Grows
  BY <1>2, <1>3, <1>4 DEF Grows
<1>6. \A a \in anchors' : a.height \in 1..Len(blocks') /\ a.id = a.height
  BY <1>2, <1>3, <1>4
<1>7. QED BY <1>3, <1>5, <1>6 DEF LedgerInv

LEMMA AnchorGrows ==
  ASSUME LedgerInv, NEW write, AnchorNow(write)
  PROVE  LedgerInv' /\ Grows
<1> DEFINE a == [slot |-> write.slot, digest |-> write.digest,
                 height |-> Height + 1, id |-> Height + 1]
<1>1. Seal(Cadence) /\ anchors' = anchors \cup {a}
  BY DEF AnchorNow
<1>2. Cadence \in Nat /\ Cadence > 0
  BY LedgerAssumption
<1>3. /\ blocks' \in Seq(Nat) /\ blocks' # <<>> /\ Len(blocks') = Len(blocks) + 1
      /\ \A i \in 1..Len(blocks) : blocks'[i] = blocks[i]
      /\ \A i \in 1..(Len(blocks') - 1) : blocks'[i] < blocks'[i + 1]
  BY <1>1, <1>2, SealGrows
<1>4. Len(blocks) \in Nat /\ \A b \in anchors : b.height \in 1..Len(blocks) /\ b.id = b.height
  BY DEF LedgerInv
<1>5. a.height = Len(blocks) + 1 /\ a.id = a.height
  BY DEF Height
<1> HIDE DEF a
<1>6. Grows
  BY <1>1, <1>3, <1>4 DEF Grows
<1>7. \A b \in anchors' : b.height \in 1..Len(blocks') /\ b.id = b.height
  BY <1>1, <1>3, <1>4, <1>5
<1>8. QED BY <1>3, <1>6, <1>7 DEF LedgerInv

LEMMA LedgerGrows ==
  ASSUME LedgerInv, [Next]_vars
  PROVE  LedgerInv' /\ Grows
<1>1. CASE UNCHANGED <<blocks, anchors>>
  <2>1. Len(blocks) \in Nat
    BY DEF LedgerInv
  <2>2. QED BY <1>1, <2>1 DEF LedgerInv, Grows
<1>2. ASSUME NEW write, LogNow(write) \/ LogLater(write) \/ UNCHANGED ledgerVars
      PROVE  UNCHANGED <<blocks, anchors>> \/ AnchorNow(write)
  BY <1>2 DEF LogNow, LogLater, ledgerVars
<1>3. ASSUME NEW p \in Processes, Dispatch(p)
      PROVE  \E write : LogNow(write) \/ LogLater(write) \/ UNCHANGED ledgerVars
  BY <1>3 DEF Dispatch, Received
<1>4. ASSUME NEW p \in Processes, RunnerStep(p)
      PROVE  UNCHANGED ledgerVars \/ Dispatch(p)
  BY <1>4 DEF RunnerStep, Start, Discover, Inspect, SearchOnce, CreateWriteIntentMarker, SyncMarker,
     Poll, PollEnds, Verify, Decide, Sign, WritePartyResult, Link
<1>5. CASE LedgerStep
  BY <1>5, SealEmptyGrows, AnchorGrows DEF LedgerStep, LandLate
<1>6. ASSUME NEW p \in Processes, RunnerStep(p)
      PROVE  LedgerInv' /\ Grows
  BY <1>1, <1>2, <1>3, <1>4, <1>6, AnchorGrows DEF ledgerVars
<1>7. UNCHANGED <<blocks, anchors>> \/ LedgerStep \/ \E p \in Processes : RunnerStep(p)
  BY DEF Next, vars, ledgerVars, VerdictStep, ReadLive, Audit, RunAgain
<1>8. QED BY <1>1, <1>5, <1>6, <1>7

\* What an anchor says it says for ever.
LEMMA AnchoredStays ==
  ASSUME LedgerInv, Grows, NEW e, NEW kind, Anchored(e, kind, anchors, blocks)
  PROVE  Anchored(e, kind, anchors', blocks')
<1>1. PICK a \in anchors : a.slot = kind /\ e = Entry(a.digest, a, blocks[a.height])
  BY DEF Anchored
<1>2. a \in anchors' /\ blocks'[a.height] = blocks[a.height]
  BY <1>1 DEF LedgerInv, Grows
<1>3. e = Entry(a.digest, a, blocks'[a.height])
  BY <1>1, <1>2
<1>4. QED BY <1>1, <1>2, <1>3 DEF Anchored

LEMMA GenuineStays ==
  ASSUME LedgerInv, Grows, NEW ts, Genuine(ts, anchors, blocks)
  PROVE  Genuine(ts, anchors', blocks')
<1>1. \A e, kind : Anchored(e, kind, anchors, blocks) => Anchored(e, kind, anchors', blocks')
  BY AnchoredStays
<1>2. QED BY <1>1, Zenon DEF Genuine

----------------------------------------------------------------------------
(* What a process learns                                                   *)

KnowsNow(p, s) == Knows(RoleOf[p], s, anchors, blocks, descriptor)

\* A step after which a process knows what it says.
Learns(p) == \E s : proc' = [proc EXCEPT ![p] = s] /\ KnowsNow(p, s)

\* A step that leaves the message and what was seen alone.
LEMMA KnowsOn ==
  ASSUME NEW role, NEW s, NEW t, NEW as, NEW bs, NEW d, Knows(role, s, as, bs, d),
         t.seen = s.seen, t.message = s.message, t.pc # "json",
         t.pc \in Working => s.pc \in Working, t.pc \in Starting => s.pc \in Starting
  PROVE  Knows(role, t, as, bs, d)
BY DEF Knows

\* Who has not begun knows nothing, truly.
LEMMA KnowsNothing ==
  ASSUME NEW role, NEW s, NEW as, NEW bs, NEW d, s.seen = <<>>, s.pc \notin Working, s.pc # "json"
  PROVE  Knows(role, s, as, bs, d)
BY DEF Knows, Genuine, Recovered

LEMMA ExitLearns ==
  ASSUME NEW p \in Processes, NEW code, Exit(p, code)
  PROVE  Learns(p)
<1> DEFINE s == [Idle EXCEPT !.pc = "ended", !.code = code]
<1>1. s.pc = "ended" /\ s.seen = <<>>
  BY DEF Idle
<1>2. proc' = [proc EXCEPT ![p] = s]
  BY DEF Exit
<1> HIDE DEF s
<1>3. KnowsNow(p, s)
  BY <1>1, KnowsNothing DEF KnowsNow, Working, Composing
<1>4. QED BY <1>2, <1>3 DEF Learns

LEMMA FailLearns ==
  ASSUME NEW p \in Processes, NEW code, Fail(p, code)
  PROVE  Learns(p)
BY ExitLearns DEF Fail

LEMMA GotoLearns ==
  ASSUME Inductive, ProcessInv, NEW p \in Processes, NEW pc, Goto(p, pc), pc # "json",
         pc \in Working => proc[p].pc \in Working, pc \in Starting => proc[p].pc \in Starting
  PROVE  Learns(p)
<1> DEFINE s == [proc[p] EXCEPT !.pc = pc]
<1>1. proc' = [proc EXCEPT ![p] = s]
  BY DEF Goto, Inductive, Shape
<1>2. s.seen = proc[p].seen /\ s.message = proc[p].message /\ s.pc = pc
  BY DEF Inductive, Shape, IsState
<1> HIDE DEF s
<1>3. KnowsNow(p, s)
  BY <1>2, KnowsOn DEF ProcessInv, KnowsNow
<1>4. QED BY <1>1, <1>3 DEF Learns

LEMMA LastLearns ==
  ASSUME Inductive, ProcessInv, NEW p \in Processes, NEW x, proc[p].pc # "json",
         proc' = [proc EXCEPT ![p].last = x]
  PROVE  Learns(p)
<1> DEFINE s == [proc[p] EXCEPT !.last = x]
<1>1. proc' = [proc EXCEPT ![p] = s]
  BY DEF Inductive, Shape
<1>2. s.seen = proc[p].seen /\ s.message = proc[p].message /\ s.pc = proc[p].pc
  BY DEF Inductive, Shape, IsState
<1> HIDE DEF s
<1>3. KnowsNow(p, s)
  BY <1>2, KnowsOn DEF ProcessInv, KnowsNow
<1>4. QED BY <1>1, <1>3 DEF Learns

\* Before it has seen anything, a process has its first message to write or to find.
LEMMA FirstLearns ==
  ASSUME NEW p \in Processes, NEW s, proc' = [proc EXCEPT ![p] = s],
         s.seen = <<>>, s.pc # "json", NEW m, s.message = <<m>>, m.kind = "proposal",
         RoleOf[p] = "payee" => IsRecoverable(descriptor, m)
  PROVE  Learns(p)
<1>1. Genuine(s.seen, anchors, blocks) /\ Recovered(RoleOf[p], s.seen, descriptor)
  BY DEF Genuine, Recovered
<1>2. Follows(RoleOf[p], m, s.seen, descriptor)
  BY DEF Follows
<1>3. KnowsNow(p, s)
  BY <1>1, <1>2 DEF Knows, KnowsNow
<1>4. QED BY <1>3 DEF Learns

LEMMA NothingSeen ==
  ASSUME ProcessInv, NEW p \in Processes, proc[p].pc \in Starting
  PROVE  proc[p].seen = <<>>
BY DEF ProcessInv, Knows

LEMMA StartLearns ==
  ASSUME Inductive, ProcessInv, NEW p \in Processes, Start(p)
  PROVE  Learns(p)
<1>1. CASE Fail(p, "FAILED") \/ Fail(p, "AMOUNT_UNRESOLVED")
  BY <1>1, FailLearns
<1>2. CASE Goto(p, "discover")
  BY <1>2, GotoLearns DEF Working, Composing, Starting, Start, At
<1>3. ASSUME NEW amount, RoleOf[p] # "payee",
             proc' = [proc EXCEPT ![p].pc = "inspect",
                        ![p].message = <<BuildProposal(descriptor, amount)>>]
      PROVE  Learns(p)
  <2> DEFINE m == BuildProposal(descriptor, amount)
             s == [proc[p] EXCEPT !.pc = "inspect", !.message = <<m>>]
  <2>1. proc' = [proc EXCEPT ![p] = s]
    BY <1>3 DEF Inductive, Shape
  <2>2. m.kind = "proposal"
    BY DEF BuildProposal, Transition
  <2> HIDE DEF m
  <2>3. s.seen = proc[p].seen /\ s.message = <<m>> /\ s.pc = "inspect"
    BY DEF Inductive, Shape, IsState
  <2>4. s.seen = <<>>
    BY <2>3, NothingSeen DEF Starting, Start, At
  <2> HIDE DEF s
  <2>5. QED BY <1>3, <2>1, <2>2, <2>3, <2>4, FirstLearns
<1>4. QED BY <1>1, <1>2, <1>3 DEF Start

LEMMA RecoverableKind ==
  ASSUME NEW d, NEW m, IsRecoverable(d, m)
  PROVE  m.kind = "proposal"
<1>1. ProposalMatches(d, m) # {}
  BY FS_EmptySet DEF IsRecoverable
<1>2. \A amount : BuildProposal(d, amount).kind = "proposal"
  BY DEF BuildProposal, Transition
<1>3. QED BY <1>1, <1>2 DEF ProposalMatches

LEMMA DiscoverLearns ==
  ASSUME Inductive, ProcessInv, NEW p \in Processes, Discover(p)
  PROVE  Learns(p)
<1>0. proc[p].pc = "discover"
  BY DEF Discover, At
<1>1. ASSUME NEW code, Fail(p, code)
      PROVE  Learns(p)
  BY <1>1, FailLearns
<1>2. ASSUME NEW x, proc' = [proc EXCEPT ![p].last = x]
      PROVE  Learns(p)
  BY <1>0, <1>2, LastLearns
<1>3. ASSUME NEW m, IsRecoverable(descriptor, m),
             proc' = [proc EXCEPT ![p].pc = "poll", ![p].message = <<m>>, ![p].last = "empty"]
      PROVE  Learns(p)
  <2> DEFINE s == [proc[p] EXCEPT !.pc = "poll", !.message = <<m>>, !.last = "empty"]
  <2>1. proc' = [proc EXCEPT ![p] = s]
    BY <1>3 DEF Inductive, Shape
  <2>2. m.kind = "proposal"
    BY <1>3, RecoverableKind
  <2>3. s.seen = proc[p].seen /\ s.message = <<m>> /\ s.pc = "poll"
    BY DEF Inductive, Shape, IsState
  <2>4. s.seen = <<>>
    BY <1>0, <2>3, NothingSeen DEF Starting
  <2> HIDE DEF s
  <2>5. QED BY <1>3, <2>1, <2>2, <2>3, <2>4, FirstLearns
<1>4. QED BY <1>1, <1>2, <1>3 DEF Discover

LEMMA InspectLearns ==
  ASSUME Inductive, ProcessInv, NEW p \in Processes, Inspect(p)
  PROVE  Learns(p)
<1>1. ASSUME NEW code, Fail(p, code)
      PROVE  Learns(p)
  BY <1>1, FailLearns
<1>2. ASSUME NEW pc \in {"search", "adopt"}, Goto(p, pc)
      PROVE  Learns(p)
  BY <1>2, GotoLearns DEF Working, Composing, Starting, Inspect, At
<1>3. (\E code : Fail(p, code)) \/ (\E pc \in {"search", "adopt"} : Goto(p, pc))
  BY DEF Inspect
<1>4. QED BY <1>1, <1>2, <1>3

LEMMA SearchOnceLearns ==
  ASSUME Inductive, ProcessInv, NEW p \in Processes, SearchOnce(p)
  PROVE  Learns(p)
<1>1. ASSUME NEW code, Fail(p, code)
      PROVE  Learns(p)
  BY <1>1, FailLearns
<1>2. ASSUME NEW pc \in {"verify", "create", "dispatch"}, Goto(p, pc)
      PROVE  Learns(p)
  BY <1>2, GotoLearns DEF Working, Composing, Starting, SearchOnce, At
<1>3. (\E code : Fail(p, code)) \/ (\E pc \in {"verify", "create", "dispatch"} : Goto(p, pc))
  BY DEF SearchOnce
<1>4. QED BY <1>1, <1>2, <1>3

LEMMA MarkerLearns ==
  ASSUME Inductive, ProcessInv, NEW p \in Processes, CreateWriteIntentMarker(p) \/ SyncMarker(p)
  PROVE  Learns(p)
<1>1. \E pc \in {"fill", "adopt", "dispatch"} : Goto(p, pc)
  BY DEF CreateWriteIntentMarker, SyncMarker
<1>2. proc[p].pc \in Working
  BY DEF CreateWriteIntentMarker, SyncMarker, At, Working, Composing
<1>3. QED BY <1>1, <1>2, GotoLearns DEF Working, Composing, Starting

LEMMA DispatchLearns ==
  ASSUME Inductive, ProcessInv, NEW p \in Processes, Dispatch(p)
  PROVE  Learns(p)
<1>0. proc[p].pc = "dispatch"
  BY DEF Dispatch, At
<1>1. CASE Fail(p, "AMBIGUOUS_WRITE")
  BY <1>1, FailLearns
<1>2. CASE Goto(p, "verify")
  BY <1>0, <1>2, GotoLearns DEF Working, Composing, Starting
<1>3. ASSUME NEW n, proc' = [proc EXCEPT ![p].pc = "reconcile", ![p].tries = n]
      PROVE  Learns(p)
  <2> DEFINE s == [proc[p] EXCEPT !.pc = "reconcile", !.tries = n]
  <2>1. proc' = [proc EXCEPT ![p] = s]
    BY <1>3 DEF Inductive, Shape
  <2>2. s.seen = proc[p].seen /\ s.message = proc[p].message /\ s.pc = "reconcile"
    BY DEF Inductive, Shape, IsState
  <2> HIDE DEF s
  <2>3. KnowsNow(p, s)
    BY <1>0, <2>2, KnowsOn DEF ProcessInv, KnowsNow, Working, Composing, Starting
  <2>4. QED BY <2>1, <2>3 DEF Learns
<1>4. CASE Unanswered(p)
  <2>1. CASE proc' = [proc EXCEPT ![p].pc = "reconcile", ![p].tries = @ + 1]
    <3> DEFINE n == proc[p].tries + 1
    <3>1. proc' = [proc EXCEPT ![p].pc = "reconcile", ![p].tries = n]
      BY <2>1 DEF Inductive, Shape, IsState
    <3> HIDE DEF n
    <3>2. QED BY <1>3, <3>1
  <2>2. QED BY <1>1, <1>4, <2>1 DEF Unanswered
<1>5. QED BY <1>1, <1>2, <1>4 DEF Dispatch

LEMMA PollLearns ==
  ASSUME Inductive, ProcessInv, NEW p \in Processes, Poll(p)
  PROVE  Learns(p)
<1>0. proc[p].pc = "poll"
  BY DEF Poll, At
<1>1. ASSUME NEW code, Fail(p, code)
      PROVE  Learns(p)
  BY <1>1, FailLearns
<1>2. ASSUME NEW x, proc' = [proc EXCEPT ![p].last = x]
      PROVE  Learns(p)
  BY <1>0, <1>2, LastLearns
<1>3. CASE proc' = [proc EXCEPT ![p].pc = "verify", ![p].last = "empty"]
  <2> DEFINE s == [proc[p] EXCEPT !.pc = "verify", !.last = "empty"]
  <2>1. proc' = [proc EXCEPT ![p] = s]
    BY <1>3 DEF Inductive, Shape
  <2>2. s.seen = proc[p].seen /\ s.message = proc[p].message /\ s.pc = "verify"
    BY DEF Inductive, Shape, IsState
  <2> HIDE DEF s
  <2>3. KnowsNow(p, s)
    BY <1>0, <2>2, KnowsOn DEF ProcessInv, KnowsNow, Working, Composing, Starting
  <2>4. QED BY <2>1, <2>3 DEF Learns
<1>4. QED BY <1>1, <1>2, <1>3 DEF Poll

LEMMA PollFailsLearns ==
  ASSUME Inductive, ProcessInv, NEW p \in Processes, NEW code, PollFails(p, code)
  PROVE  Learns(p)
<1>1. CASE Fail(p, code)
  BY <1>1, FailLearns
<1>2. CASE Goto(p, "sign")
  BY <1>2, GotoLearns DEF Working, Composing, Starting
<1>3. QED BY <1>1, <1>2 DEF PollFails

\* What a transition that is found says.
LEMMA FoundIs ==
  ASSUME NEW m, ClassifySearch(m) = "found"
  PROVE  /\ AnchorOf(m) \in anchors /\ AnchorOf(m).slot = m.kind /\ AnchorOf(m).digest = m
         /\ Anchored(Entry(m, AnchorOf(m), blocks[AnchorOf(m).height]), m.kind, anchors, blocks)
<1> DEFINE a == AnchorOf(m)
           e == Entry(m, a, blocks[a.height])
<1>1. Search(m.kind) # {} /\ \A x \in Search(m.kind) : x.digest = m
  BY DEF ClassifySearch
<1>2. a \in Search(m.kind)
  BY <1>1 DEF AnchorOf
<1>3. a \in anchors /\ a.slot = m.kind /\ a.digest = m
  BY <1>1, <1>2 DEF Search
<1> HIDE DEF a
<1>4. e.message = m
  BY DEF Entry
<1>5. Anchored(e, m.kind, anchors, blocks)
  BY <1>3, <1>4 DEF Anchored
<1>6. QED BY <1>3, <1>5 DEF a

LEMMA AppendTuples ==
  ASSUME NEW e, NEW f, NEW n
  PROVE  Append(<<e>>, n) = <<e, n>> /\ Append(<<e, f>>, n) = <<e, f, n>>
<1> DEFINE T == {e, f, n}
<1>1. <<e>> \in Seq(T) /\ <<e, n>> \in Seq(T) /\ <<e, f>> \in Seq(T) /\ <<e, f, n>> \in Seq(T) /\ n \in T
  OBVIOUS
<1>2. Append(<<e>>, n) = <<e, n>>
  <2>1. Append(<<e>>, n) \in Seq(T) /\ Len(Append(<<e>>, n)) = 2 /\ Append(<<e>>, n)[1] = e /\ Append(<<e>>, n)[2] = n
    BY <1>1, AppendProperties
  <2> DEFINE a == Append(<<e>>, n)
  <2>2. \A i \in 1..Len(a) : a[i] = <<e, n>>[i]
    BY <2>1
  <2> HIDE DEF a
  <2>3. QED BY <1>1, <2>1, <2>2, SeqEqual DEF a
<1>3. Append(<<e, f>>, n) = <<e, f, n>>
  <2>1. Append(<<e, f>>, n) \in Seq(T) /\ Len(Append(<<e, f>>, n)) = 3 /\ Append(<<e, f>>, n)[1] = e /\ Append(<<e, f>>, n)[2] = f  /\ Append(<<e, f>>, n)[3] = n
    BY <1>1, AppendProperties
  <2> DEFINE a == Append(<<e, f>>, n)
  <2>2. \A i \in 1..Len(a) : a[i] = <<e, f, n>>[i]
    BY <2>1
  <2> HIDE DEF a
  <2>3. QED BY <1>1, <2>1, <2>2, SeqEqual DEF a
<1>4. QED BY <1>2, <1>3

\* What was seen, and the transition that follows it.
LEMMA GenuineNext ==
  ASSUME NEW role, NEW ts, NEW m, NEW n, NEW as, NEW bs, NEW d,
         Genuine(ts, as, bs), Recovered(role, ts, d), Follows(role, m, ts, d),
         n.message = m, Anchored(n, m.kind, as, bs),
         NEW us, us = Append(ts, n)
  PROVE  /\ Genuine(us, as, bs) /\ Recovered(role, us, d) /\ us # <<>>
         /\ Len(us) # 3 => Follows(role, Following(us), us, d)
<1>1. CASE ts = <<>>
  <2>1. us = <<n>> /\ Len(us) = 1 /\ us[1] = n
    BY <1>1
  <2>2. m.kind = "proposal" /\ (role = "payee" => IsRecoverable(d, m))
    <3>1. \A e : <<>> # <<e>>
      OBVIOUS
    <3>2. \A e, f : <<>> # <<e, f>>
      OBVIOUS
    <3>3. QED BY <1>1, <3>1, <3>2 DEF Follows
  <2>3. Following(us) = BuildAcceptance(n)
    BY <2>1 DEF Following
  <2>4. Genuine(us, as, bs)
    BY <2>1, <2>2, Zenon DEF Genuine
  <2>5. Recovered(role, us, d)
    BY <2>1, <2>2 DEF Recovered
  <2>6. Follows(role, Following(us), us, d)
    BY <2>1, <2>3, Zenon DEF Follows
  <2>7. us # <<>>
    BY <2>1
  <2>8. QED BY <2>4, <2>5, <2>6, <2>7
<1>2. ASSUME NEW e, ts = <<e>>, m = BuildAcceptance(e)
      PROVE  /\ Genuine(us, as, bs) /\ Recovered(role, us, d) /\ us # <<>>
             /\ Len(us) # 3 => Follows(role, Following(us), us, d)
  <2>1. us = <<e, n>> /\ Len(us) = 2 /\ us[1] = e /\ us[2] = n /\ us # <<>>
    BY <1>2, AppendTuples
  <2>2. m.kind = "acceptance"
    BY <1>2 DEF BuildAcceptance, Transition
  <2>3. Anchored(e, "proposal", as, bs)
    BY <1>2 DEF Genuine
  <2>4. Recovered(role, us, d)
    BY <1>2, <2>1 DEF Recovered
  <2>5. Following(us) = BuildAcknowledgment(n, e)
    BY <2>1 DEF Following
  <2>6. Accepts(n, e)
    BY <1>2 DEF Accepts
  <2>7. Genuine(us, as, bs)
    BY <2>1, <2>2, <2>3, <2>6, Zenon DEF Genuine
  <2>8. Follows(role, Following(us), us, d)
    BY <2>1, <2>5, Zenon DEF Follows
  <2>9. QED BY <2>1, <2>4, <2>7, <2>8
<1>3. ASSUME NEW e, NEW f, ts = <<e, f>>, m = BuildAcknowledgment(f, e)
      PROVE  /\ Genuine(us, as, bs) /\ Recovered(role, us, d) /\ us # <<>>
             /\ Len(us) # 3 => Follows(role, Following(us), us, d)
  <2>0. us = <<e, f, n>>
    BY <1>3, AppendTuples, Zenon
  <2>1. us = <<e, f, n>> /\ Len(us) = 3 /\ us[1] = e /\ us # <<>>
    BY <2>0
  <2>2. m.kind = "acknowledgment"
    BY <1>3 DEF BuildAcknowledgment, Transition
  <2>3. Anchored(e, "proposal", as, bs) /\ Anchored(f, "acceptance", as, bs) /\ Accepts(f, e)
    BY <1>3 DEF Genuine
  <2>4. Recovered(role, us, d)
    BY <1>3, <2>1 DEF Recovered
  <2>5. Acknowledges(n, f, e)
    BY <1>3 DEF Acknowledges
  <2>6. Genuine(us, as, bs)
    BY <2>1, <2>2, <2>3, <2>5, Zenon DEF Genuine
  <2>7. QED BY <2>1, <2>4, <2>6
<1>4. QED BY <1>1, <1>2, <1>3 DEF Follows

LEMMA ProceedLearns ==
  ASSUME Inductive, ProcessInv, NEW p \in Processes, NEW us, Proceed(p, us),
         Genuine(us, anchors, blocks), Recovered(RoleOf[p], us, descriptor), us # <<>>,
         Len(us) # 3 => Follows(RoleOf[p], Following(us), us, descriptor)
  PROVE  Learns(p)
<1> DEFINE m == IF Len(us) = 3 THEN proc[p].message ELSE <<Following(us)>>
           pc == IF Len(us) = 3 THEN "sign"
                 ELSE IF ~Writes(RoleOf[p], Len(us) + 1) THEN "poll"
                 ELSE IF RoleOf[p] = "payee" THEN "decide" ELSE "inspect"
           s == [proc[p] EXCEPT !.seen = us, !.tries = 0, !.last = "empty",
                                !.message = m, !.pc = pc]
<1>1. proc' = [proc EXCEPT ![p] = s]
  BY DEF Proceed, Inductive, Shape, IsState
<1>2. pc \in Working => Len(us) # 3
  BY DEF Working, Composing
<1>3. pc \notin Starting /\ pc # "json"
  BY DEF Starting
<1>4. pc \in Working => m = <<Following(us)>>
  BY <1>2
<1> HIDE DEF m, pc
<1>5. s.seen = us /\ s.message = m /\ s.pc = pc
  BY DEF Inductive, Shape, IsState
<1> HIDE DEF s
<1>6. KnowsNow(p, s)
  BY <1>2, <1>3, <1>4, <1>5 DEF KnowsNow, Knows
<1>7. QED BY <1>1, <1>6 DEF Learns

LEMMA VerifyLearns ==
  ASSUME Inductive, ProcessInv, NEW p \in Processes, Verify(p)
  PROVE  Learns(p)
<1> DEFINE m == Message(p)
           ts == proc[p].seen
           e == Entry(m, AnchorOf(m), blocks[AnchorOf(m).height])
<1>1. ASSUME NEW code, Fail(p, code)
      PROVE  Learns(p)
  BY <1>1, FailLearns
<1>2. ASSUME NEW code, PollFails(p, code)
      PROVE  Learns(p)
  BY <1>2, PollFailsLearns
<1>3. CASE Verification(m, ts) = "verified" /\ Proceed(p, Append(ts, e))
  <2>1. ClassifySearch(m) = "found"
    BY <1>3 DEF Verification, ClassifySearch
  <2>2. Anchored(e, m.kind, anchors, blocks) /\ e.message = m
    BY <2>1, FoundIs DEF Entry
  <2>3. proc[p].pc \in Working
    BY DEF Verify, At, Working
  <2>4. /\ Genuine(ts, anchors, blocks) /\ Recovered(RoleOf[p], ts, descriptor)
        /\ \E x : proc[p].message = <<x>> /\ Follows(RoleOf[p], x, ts, descriptor)
    BY <2>3 DEF ProcessInv, Knows
  <2>5. Follows(RoleOf[p], m, ts, descriptor)
    BY <2>4 DEF Message
  <2> HIDE DEF m, e, ts
  <2> DEFINE us == Append(ts, e)
  <2>6. /\ Genuine(us, anchors, blocks) /\ Recovered(RoleOf[p], us, descriptor) /\ us # <<>>
        /\ Len(us) # 3 => Follows(RoleOf[p], Following(us), us, descriptor)
    BY <2>2, <2>4, <2>5, GenuineNext
  <2>7. Proceed(p, us)
    BY <1>3
  <2> HIDE DEF us
  <2>8. QED BY <2>6, <2>7, ProceedLearns
<1>4. QED BY <1>1, <1>2, <1>3 DEF Verify

LEMMA DecideLearns ==
  ASSUME Inductive, ProcessInv, NEW p \in Processes, Decide(p)
  PROVE  Learns(p)
<1>1. ASSUME NEW code, Fail(p, code)
      PROVE  Learns(p)
  BY <1>1, FailLearns
<1>2. CASE Goto(p, "inspect")
  BY <1>2, GotoLearns DEF Working, Composing, Starting, Decide, At
<1>3. QED BY <1>1, <1>2 DEF Decide

LEMMA SignLearns ==
  ASSUME Inductive, ProcessInv, NEW p \in Processes, Sign(p)
  PROVE  Learns(p)
<1>1. CASE Fail(p, "FAILED")
  BY <1>1, FailLearns
<1>2. CASE Goto(p, "json") /\ ValidPartyResult(Result(p))
  <2> DEFINE s == [proc[p] EXCEPT !.pc = "json"]
  <2>1. proc' = [proc EXCEPT ![p] = s]
    BY <1>2 DEF Goto, Inductive, Shape
  <2>2. s.seen = proc[p].seen /\ s.message = proc[p].message /\ s.pc = "json"
    BY DEF Inductive, Shape, IsState
  <2> HIDE DEF s
  <2>3. ValidPartyResult(PartyResult(RoleOf[p], s.seen, descriptor[RoleOf[p]]))
    BY <1>2, <2>2 DEF Result, Address
  <2>4. Genuine(s.seen, anchors, blocks) /\ Recovered(RoleOf[p], s.seen, descriptor)
    BY <2>2 DEF ProcessInv, Knows
  <2>5. KnowsNow(p, s)
    BY <2>2, <2>3, <2>4 DEF KnowsNow, Knows, Working, Composing, Starting
  <2>6. QED BY <2>1, <2>5 DEF Learns
<1>3. QED BY <1>1, <1>2 DEF Sign

LEMMA PublishLearns ==
  ASSUME Inductive, ProcessInv, NEW p \in Processes, WritePartyResult(p)
  PROVE  Learns(p)
<1>1. ASSUME NEW code, Exit(p, code)
      PROVE  Learns(p)
  BY <1>1, ExitLearns
<1>2. ASSUME NEW pc \in {"markdown", "marker"}, Goto(p, pc)
      PROVE  Learns(p)
  BY <1>2, GotoLearns DEF Working, Composing, Starting
<1>3. (\E code : Exit(p, code)) \/ (\E pc \in {"markdown", "marker"} : Goto(p, pc))
  BY DEF WritePartyResult, Link, Fail
<1>4. QED BY <1>1, <1>2, <1>3

LEMMA AgainLearns ==
  ASSUME NEW p \in Processes, RunAgain(p)
  PROVE  Learns(p)
<1>1. proc' = [proc EXCEPT ![p] = Idle] /\ Idle.seen = <<>> /\ Idle.pc = "idle"
  BY DEF RunAgain, Idle
<1>2. KnowsNow(p, Idle)
  BY <1>1, KnowsNothing DEF KnowsNow, Working, Composing
<1>3. QED BY <1>1, <1>2 DEF Learns

LEMMA KnowledgeKept ==
  ASSUME Inductive, LedgerInv, ProcessInv, [Next]_vars
  PROVE  ProcessInv'
<1>1. Grows /\ descriptor' = descriptor
  BY LedgerGrows DEF Next, vars, runnerVars, RunnerStep, Start, Discover, Inspect, SearchOnce,
     CreateWriteIntentMarker, SyncMarker, Dispatch, Poll, PollEnds, Verify, Decide, Sign,
     WritePartyResult, Link, RunAgain, VerdictStep, ReadLive, Audit, descriptor
<1>2. ASSUME NEW role, NEW s, Knows(role, s, anchors, blocks, descriptor)
      PROVE  Knows(role, s, anchors', blocks', descriptor')
  BY <1>1, <1>2, GenuineStays DEF Knows
<1>3. CASE UNCHANGED proc
  BY <1>2, <1>3 DEF ProcessInv
<1>4. ASSUME NEW p \in Processes, RunnerStep(p) \/ RunAgain(p)
      PROVE  ProcessInv'
  <2>1. Learns(p)
    BY <1>4, StartLearns, DiscoverLearns, InspectLearns, SearchOnceLearns, MarkerLearns,
       DispatchLearns, PollLearns, VerifyLearns, DecideLearns, SignLearns, PublishLearns,
       PollFailsLearns, AgainLearns DEF RunnerStep, PollEnds
  <2>2. PICK s : proc' = [proc EXCEPT ![p] = s] /\ KnowsNow(p, s)
    BY <2>1 DEF Learns
  <2>3. \A q \in Processes : (q = p /\ proc'[q] = s) \/ proc'[q] = proc[q]
    BY <2>2 DEF Inductive, Shape
  <2>4. \A q \in Processes : Knows(RoleOf[q], proc'[q], anchors, blocks, descriptor)
    BY <2>2, <2>3 DEF ProcessInv, KnowsNow
  <2>5. QED BY <1>2, <2>4 DEF ProcessInv
<1>5. UNCHANGED proc \/ \E p \in Processes : RunnerStep(p) \/ RunAgain(p)
  BY DEF Next, vars, runnerVars, VerdictStep, ReadLive, Audit
<1>6. QED BY <1>3, <1>4, <1>5

----------------------------------------------------------------------------
(* What is published                                                       *)

HonestNow(role, result) == Honest(role, result, anchors, blocks, descriptor)

LEMMA TermsStay ==
  ASSUME [Next]_vars
  PROVE  terms' = terms /\ descriptor' = descriptor
BY DEF Next, vars, runnerVars, RunnerStep, Start, Discover, Inspect, SearchOnce,
   CreateWriteIntentMarker, SyncMarker, Dispatch, Poll, PollEnds, Verify, Decide, Sign,
   WritePartyResult, Link, RunAgain, VerdictStep, ReadLive, Audit, descriptor

LEMMA PackageIs ==
  ASSUME NEW p \in Processes, RunnerStep(p)
  PROVE  \/ UNCHANGED package
         \/ At(p, "json") /\ LinkJson(RoleOf[p], Result(p))
         \/ LinkMarkdown(RoleOf[p]) \/ Complete(RoleOf[p])
BY DEF RunnerStep, Start, Discover, Inspect, SearchOnce, CreateWriteIntentMarker, SyncMarker,
   Dispatch, Poll, PollEnds, Verify, Decide, Sign, WritePartyResult, Link, OpenMarker, FillMarker,
   directoryVars

\* A package of one role that is honest, and those of the others.
LEMMA PackageChanges ==
  ASSUME PackageShape, PackageInv, NEW role \in Roles, NEW stage, NEW result, HonestNow(role, result),
         package' = [package EXCEPT ![role] = [stage |-> stage, result |-> result]]
  PROVE  \A r \in Roles : \E st, res :
           /\ package'[r] = [stage |-> st, result |-> res]
           /\ st # "none" => HonestNow(r, res)
<1>1. SUFFICES ASSUME NEW r \in Roles
               PROVE  \E st, res : /\ package'[r] = [stage |-> st, result |-> res]
                                   /\ st # "none" => HonestNow(r, res)
  OBVIOUS
<1>2. CASE r = role
  <2>1. package'[r] = [stage |-> stage, result |-> result]
    BY <1>2 DEF PackageShape
  <2>2. QED BY <1>2, <2>1, Zenon
<1>3. CASE r # role
  <2>1. package'[r] = package[r]
    BY <1>3 DEF PackageShape
  <2>2. QED BY <2>1 DEF PackageInv, HonestNow
<1>4. QED BY <1>2, <1>3

LEMMA PublishHonestly ==
  ASSUME Inductive, ProcessInv, PackageShape, PackageInv, NEW p \in Processes, RunnerStep(p)
  PROVE  \A r \in Roles : \E st, res :
           /\ package'[r] = [stage |-> st, result |-> res]
           /\ st # "none" => HonestNow(r, res)
<1> DEFINE role == RoleOf[p]
<1>1. role \in Roles
  BY RunnerAssumption
<1>2. CASE UNCHANGED package
  BY <1>2 DEF PackageInv, HonestNow
<1>3. CASE At(p, "json") /\ LinkJson(role, Result(p))
  <2> DEFINE r == PartyResult(role, proc[p].seen, descriptor[role])
  <2>1. r.role = role /\ r.transitions = proc[p].seen /\ Result(p) = r
    BY DEF PartyResult, Result, Address
  <2>2. /\ ValidPartyResult(r) /\ Genuine(proc[p].seen, anchors, blocks)
        /\ Recovered(role, proc[p].seen, descriptor)
    BY <1>3 DEF ProcessInv, Knows, At
  <2>3. package' = [package EXCEPT ![role] = [stage |-> "json", result |-> <<r>>]]
    BY <1>3, <2>1 DEF LinkJson
  <2> HIDE DEF r
  <2>4. HonestNow(role, <<r>>)
    BY <2>1, <2>2 DEF HonestNow, Honest
  <2> HIDE DEF role
  <2>5. QED BY <1>1, <2>3, <2>4, PackageChanges
<1>4. ASSUME NEW stage, package[role].stage # "none",
             package' = [package EXCEPT ![role].stage = stage]
      PROVE  \A r \in Roles : \E st, res :
               /\ package'[r] = [stage |-> st, result |-> res]
               /\ st # "none" => HonestNow(r, res)
  <2>1. PICK st, res : /\ package[role] = [stage |-> st, result |-> res]
                       /\ st # "none" => HonestNow(role, res)
    BY <1>1 DEF PackageInv, HonestNow
  <2>2. HonestNow(role, res)
    BY <1>4, <2>1
  <2> DEFINE x == [stage |-> stage, result |-> res]
  <2>3. [package[role] EXCEPT !.stage = stage] = x
    BY <2>1
  <2>4. package' = [package EXCEPT ![role] = [package[role] EXCEPT !.stage = stage]]
    BY <1>4
  <2> HIDE DEF role
  <2>5. package' = [package EXCEPT ![role] = x]
    BY <2>3, <2>4, Zenon
  <2>6. QED BY <1>1, <2>2, <2>5, PackageChanges
<1>5. CASE LinkMarkdown(role) \/ Complete(role)
  BY <1>4, <1>5 DEF LinkMarkdown, Complete
<1>6. QED BY <1>2, <1>3, <1>5, PackageIs

LEMMA PackagesKept ==
  ASSUME Inductive, LedgerInv, ProcessInv, PackageShape, PackageInv, [Next]_vars
  PROVE  PackageInv'
<1>1. Grows /\ descriptor' = descriptor
  BY LedgerGrows, TermsStay
<1>2. ASSUME NEW role, NEW result, HonestNow(role, result)
      PROVE  Honest(role, result, anchors', blocks', descriptor')
  BY <1>1, <1>2, GenuineStays DEF Honest, HonestNow
<1>3. \A r \in Roles : \E st, res :
        /\ package'[r] = [stage |-> st, result |-> res]
        /\ st # "none" => HonestNow(r, res)
  <2>1. CASE UNCHANGED package
    BY <2>1 DEF PackageInv, HonestNow
  <2>2. UNCHANGED package \/ \E p \in Processes : RunnerStep(p)
    BY DEF Next, vars, directoryVars, VerdictStep, ReadLive, Audit, RunAgain
  <2>3. QED BY <2>1, <2>2, PublishHonestly
<1>4. QED BY <1>2, <1>3 DEF PackageInv

----------------------------------------------------------------------------
(* What the verifier finds                                                 *)

AnchoredNow(e, kind) == Anchored(e, kind, anchors, blocks)

\* There is one entry of a slot, in a block that was sealed.
LEMMA EntryIs ==
  ASSUME Inductive, LedgerInv, NEW e, NEW kind, AnchoredNow(e, kind)
  PROVE  /\ e.height \in Nat /\ e.id = e.height /\ e.height \in 1..Len(blocks)
         /\ e.time = blocks[e.height] /\ e.time \in Nat /\ e.message.kind = kind
         /\ \E a \in anchors : /\ Search(kind) = {a} /\ e = Entry(a.digest, a, blocks[a.height])
                               /\ a.digest = e.message /\ a.height = e.height
<1>1. PICK a \in anchors : a.slot = kind /\ e = Entry(a.digest, a, blocks[a.height])
  BY DEF AnchoredNow, Anchored
<1>2. /\ e.height = a.height /\ e.id = a.id /\ e.time = blocks[a.height] /\ e.message = a.digest
      /\ e.message.kind = kind
  BY <1>1 DEF Entry, AnchoredNow, Anchored
<1>3. Search(kind) = {a}
  BY <1>1 DEF Search, Inductive, Single
<1>4. a.height \in 1..Len(blocks) /\ a.id = a.height /\ Len(blocks) \in Nat
  BY DEF LedgerInv
<1>5. blocks[a.height] \in Nat
  BY <1>4, ElementOfSeq DEF LedgerInv
<1>6. QED BY <1>1, <1>2, <1>3, <1>4, <1>5

LEMMA EntryUnique ==
  ASSUME Inductive, LedgerInv, NEW e, NEW f, NEW kind, AnchoredNow(e, kind), AnchoredNow(f, kind)
  PROVE  e = f
<1>1. PICK a \in anchors : Search(kind) = {a} /\ e = Entry(a.digest, a, blocks[a.height])
  BY EntryIs
<1>2. PICK b \in anchors : Search(kind) = {b} /\ f = Entry(b.digest, b, blocks[b.height])
  BY EntryIs
<1>3. a = b
  BY <1>1, <1>2
<1>4. QED BY <1>1, <1>2, <1>3

\* An entry that was read next.
ReadNext(read, l, m, e) ==
  /\ read = [live |-> Append(l, e), code |-> "ok"]
  /\ AnchoredNow(e, m.kind) /\ e.message = m
  /\ l # <<>> => ~(l[Len(l)].height >= e.height)

LEMMA ReadIs ==
  ASSUME NEW l, NEW m, NEW read, read = [live |-> l, code |-> "ok"],
         NEW next, next = ReadTransition(read, m), next.code = "ok"
  PROVE  \E e : ReadNext(next, l, m, e)
<1> DEFINE e == Entry(m, AnchorOf(m), blocks[AnchorOf(m).height])
<1>1. ClassifySearch(m) = "found" /\ LiveAppend(l, e) = "ok"
      /\ next = [read EXCEPT !.live = Append(@, e)]
  <2>1. ClassifySearch(m) \in {"absent", "DUPLICATE", "BINDING_MISMATCH", "found"}
    BY DEF ClassifySearch
  <2>2. LiveAppend(l, e) \in {"DUPLICATE", "REORDERED", "ok"}
    BY DEF LiveAppend
  <2>3. read.live = l /\ \A c : [read EXCEPT !.code = c].code = c
    OBVIOUS
  <2>4. \/ \E c \in {"EXPIRED", ClassifySearch(m), "FAILED", LiveAppend(l, e)} :
             c # "ok" /\ next = [read EXCEPT !.code = c]
        \/ /\ ClassifySearch(m) = "found" /\ LiveAppend(l, e) = "ok"
           /\ next = [read EXCEPT !.live = Append(@, e)]
    BY <2>1, <2>2, <2>3 DEF ReadTransition
  <2>5. QED BY <2>3, <2>4
<1>2. AnchoredNow(e, m.kind) /\ e.message = m
  BY <1>1, FoundIs DEF AnchoredNow, Entry
<1>3. l # <<>> => ~(l[Len(l)].height >= e.height)
  BY <1>1 DEF LiveAppend
<1> HIDE DEF e
<1>4. [read EXCEPT !.live = Append(@, e)] = [live |-> Append(l, e), code |-> "ok"]
  OBVIOUS
<1>5. QED BY <1>1, <1>2, <1>3, <1>4 DEF ReadNext

\* Transitions in the order of their blocks.
InOrder(ts) ==
  \E e, f, g : ts = <<e, f, g>> /\ e.height < f.height /\ f.height < g.height

LEMMA LiveIs ==
  ASSUME Inductive, LedgerInv, LiveTransitions.code = "ok"
  PROVE  Genuine(LiveTransitions.live, anchors, blocks) /\ InOrder(LiveTransitions.live)
<1> DEFINE digest == (CHOOSE a \in Search("proposal") : TRUE).digest
           nothing == [live |-> <<>>, code |-> "ok"]
           first == ReadTransition(nothing, digest)
           second == ReadTransition(first, BuildAcceptance(first.live[1]))
           third == ReadTransition(second, BuildAcknowledgment(second.live[2], second.live[1]))
<1>1. /\ IsRecoverable(descriptor, digest)
      /\ first.code = "ok" /\ second.code = "ok" /\ third.code = "ok" /\ LiveTransitions = third
  BY DEF LiveTransitions
<1>2. digest.kind = "proposal"
  BY <1>1, RecoverableKind
<1>3. nothing = [live |-> <<>>, code |-> "ok"] /\ first = ReadTransition(nothing, digest)
  OBVIOUS
<1> HIDE DEF digest, nothing, first
<1>4. PICK e : ReadNext(first, <<>>, digest, e)
  BY <1>1, <1>3, ReadIs, Zenon
<1>5. first = [live |-> <<e>>, code |-> "ok"] /\ first.live[1] = e /\ AnchoredNow(e, "proposal")
  BY <1>2, <1>4 DEF ReadNext
<1> DEFINE m == BuildAcceptance(e)
<1>6. m.kind = "acceptance" /\ second = ReadTransition(first, m)
  BY <1>5 DEF BuildAcceptance, Transition
<1> HIDE DEF m, second
<1>7. PICK f : ReadNext(second, <<e>>, m, f)
  BY <1>1, <1>5, <1>6, ReadIs, Zenon
<1>8. second = [live |-> <<e, f>>, code |-> "ok"] /\ AnchoredNow(f, "acceptance") /\ f.message = m
  BY <1>6, <1>7, AppendTuples, Zenon DEF ReadNext
<1>9. second.live[1] = e /\ second.live[2] = f
  BY <1>8
<1>10. ~(e.height >= f.height)
  BY <1>7 DEF ReadNext
<1> DEFINE n == BuildAcknowledgment(f, e)
<1>11. n.kind = "acknowledgment" /\ third = ReadTransition(second, n)
  BY <1>9 DEF BuildAcknowledgment, Transition
<1> HIDE DEF n, third
<1>12. PICK g : ReadNext(third, <<e, f>>, n, g)
  BY <1>1, <1>8, <1>11, ReadIs, Zenon
<1>13. third = [live |-> <<e, f, g>>, code |-> "ok"] /\ AnchoredNow(g, "acknowledgment")
       /\ g.message = n
  BY <1>11, <1>12, AppendTuples, Zenon DEF ReadNext
<1>14. ~(f.height >= g.height)
  BY <1>12 DEF ReadNext
<1>15. e.height < f.height /\ f.height < g.height
  <2>1. e.height \in Nat /\ f.height \in Nat /\ g.height \in Nat
    BY <1>5, <1>8, <1>13, EntryIs
  <2>2. QED BY <1>10, <1>14, <2>1
<1>16. LiveTransitions.live = <<e, f, g>>
  BY <1>1, <1>13
<1>17. Accepts(f, e) /\ Acknowledges(g, f, e)
  BY <1>8, <1>13 DEF Accepts, Acknowledges, m, n
<1>18. Genuine(<<e, f, g>>, anchors, blocks)
  BY <1>5, <1>8, <1>13, <1>17, Zenon DEF Genuine, AnchoredNow
<1>19. InOrder(<<e, f, g>>)
  BY <1>15, Zenon DEF InOrder
<1>20. QED BY <1>16, <1>18, <1>19

----------------------------------------------------------------------------
(* What the verifier says                                                  *)

\* An entry that succeeds those read so far is read next, unless its author is not the
\* owner of the agent.
LEMMA ReadOne ==
  ASSUME Inductive, LedgerInv, NEW l, NEW m, NEW e, NEW read,
         read = [live |-> l, code |-> "ok"], AnchoredNow(e, m.kind), e.message = m,
         \A k \in DOMAIN l : l[k].id # e.id,
         l # <<>> => ~(l[Len(l)].height >= e.height)
  PROVE  \/ ReadTransition(read, m).code = "FAILED"
         \/ ReadTransition(read, m) = [live |-> Append(l, e), code |-> "ok"]
<1>1. PICK a \in anchors : /\ Search(m.kind) = {a} /\ e = Entry(a.digest, a, blocks[a.height])
                           /\ a.digest = m
  BY EntryIs
<1>2. AnchorOf(m) = a
  BY <1>1 DEF AnchorOf
<1>3. Cardinality({a}) = 1
  BY FS_Singleton
<1>4. ClassifySearch(m) = "found"
  BY <1>1, <1>3 DEF ClassifySearch
<1>5. Entry(m, AnchorOf(m), blocks[AnchorOf(m).height]) = e
  BY <1>1, <1>2
<1>6. LiveAppend(l, e) = "ok"
  BY DEF LiveAppend
<1>7. [read EXCEPT !.live = Append(@, e)] = [live |-> Append(l, e), code |-> "ok"]
      /\ [read EXCEPT !.code = "FAILED"].code = "FAILED" /\ read.live = l
  OBVIOUS
<1>8. QED BY <1>4, <1>5, <1>6, <1>7 DEF ReadTransition

\* What the payer published, entry by entry.
LEMMA PayerIs ==
  ASSUME NEW result, HonestNow("payer", result)
  PROVE  \E e, f, g : /\ result[1].transitions = <<e, f, g>> /\ result[1].role = "payer"
                      /\ AnchoredNow(e, "proposal") /\ AnchoredNow(f, "acceptance")
                      /\ AnchoredNow(g, "acknowledgment")
                      /\ Accepts(f, e) /\ Acknowledges(g, f, e)
                      /\ e.height < f.height /\ f.height < g.height
                      /\ EnoughTransitions("payer", 3)
<1>1. PICK r : /\ result = <<r>> /\ r.role = "payer" /\ ValidPartyResult(r)
               /\ Genuine(r.transitions, anchors, blocks)
  BY DEF HonestNow, Honest
<1>2. Len(r.transitions) = 3 /\ ValidTransitionEntries(r.transitions)
      /\ EnoughTransitions("payer", 3)
  BY <1>1 DEF ValidPartyResult, EnoughTransitions
<1>3. PICK e, f, g : /\ r.transitions = <<e, f, g>>
                     /\ AnchoredNow(e, "proposal") /\ AnchoredNow(f, "acceptance")
                     /\ AnchoredNow(g, "acknowledgment")
                     /\ Accepts(f, e) /\ Acknowledges(g, f, e)
  BY <1>1, <1>2 DEF Genuine, AnchoredNow
<1>4. e.height < f.height /\ f.height < g.height
  <2>1. Succeeds(<<e, f, g>>[2 - 1], <<e, f, g>>[2]) /\ Succeeds(<<e, f, g>>[3 - 1], <<e, f, g>>[3])
    BY <1>2, <1>3 DEF ValidTransitionEntries
  <2>2. QED BY <2>1 DEF Succeeds
<1>5. QED BY <1>1, <1>2, <1>3, <1>4

\* What the payee published is what the payer did, or the first two of it.
LEMMA PayeeIs ==
  ASSUME Inductive, LedgerInv, NEW result, HonestNow("payee", result), NEW e, NEW f, NEW g,
         AnchoredNow(e, "proposal"), AnchoredNow(f, "acceptance"), AnchoredNow(g, "acknowledgment")
  PROVE  /\ result[1].role = "payee" /\ IsRecoverable(descriptor, e.message)
         /\ result[1].transitions \in {<<e, f>>, <<e, f, g>>}
<1>1. PICK r : /\ result = <<r>> /\ r.role = "payee" /\ ValidPartyResult(r)
               /\ Genuine(r.transitions, anchors, blocks)
               /\ Recovered("payee", r.transitions, descriptor)
  BY DEF HonestNow, Honest
<1>2. Len(r.transitions) \in {2, 3}
  BY <1>1 DEF ValidPartyResult, EnoughTransitions
<1>3. \/ \E x, y : /\ r.transitions = <<x, y>>
                   /\ AnchoredNow(x, "proposal") /\ AnchoredNow(y, "acceptance")
      \/ \E x, y, z : /\ r.transitions = <<x, y, z>> /\ AnchoredNow(x, "proposal")
                      /\ AnchoredNow(y, "acceptance") /\ AnchoredNow(z, "acknowledgment")
  BY <1>1, <1>2 DEF Genuine, AnchoredNow
<1>4. r.transitions \in {<<e, f>>, <<e, f, g>>}
  BY <1>3, EntryUnique
<1>5. r.transitions # <<>> /\ r.transitions[1] = e
  BY <1>4
<1>6. QED BY <1>1, <1>4, <1>5 DEF Recovered

\* Both parties being honest, the ledger says what the payer does, or an author is not an
\* owner.
LEMMA LiveOfHonest ==
  ASSUME Inductive, LedgerInv, NEW e, NEW f, NEW g, IsRecoverable(descriptor, e.message),
         AnchoredNow(e, "proposal"), AnchoredNow(f, "acceptance"), AnchoredNow(g, "acknowledgment"),
         Accepts(f, e), Acknowledges(g, f, e), e.height < f.height, f.height < g.height
  PROVE  \/ LiveTransitions.code = "FAILED"
         \/ LiveTransitions = [live |-> <<e, f, g>>, code |-> "ok"]
<1> DEFINE digest == (CHOOSE a \in Search("proposal") : TRUE).digest
           nothing == [live |-> <<>>, code |-> "ok"]
           first == ReadTransition(nothing, digest)
           m == BuildAcceptance(first.live[1])
           second == ReadTransition(first, m)
           n == BuildAcknowledgment(second.live[2], second.live[1])
           third == ReadTransition(second, n)
<1>1. PICK a \in anchors : Search("proposal") = {a} /\ a.digest = e.message
  BY EntryIs
<1>2. digest = e.message /\ digest.kind = "proposal" /\ Search("proposal") # {}
  BY <1>1, EntryIs
<1>3. Cardinality(Search("proposal")) = 1
  BY <1>1, FS_Singleton
<1>4. LiveTransitions = IF first.code # "ok" THEN first ELSE IF second.code # "ok" THEN second
                        ELSE third
  BY <1>2, <1>3 DEF LiveTransitions
<1>5. /\ e.id # f.id /\ e.id # g.id /\ f.id # g.id
      /\ ~(e.height >= f.height) /\ ~(f.height >= g.height)
  <2>1. /\ e.height \in Nat /\ f.height \in Nat /\ g.height \in Nat
        /\ e.id = e.height /\ f.id = f.height /\ g.id = g.height
    BY EntryIs
  <2>2. QED BY <2>1
<1>6. first.code = "FAILED" \/ first = [live |-> <<e>>, code |-> "ok"]
  <2>1. first.code = "FAILED" \/ first = [live |-> Append(<<>>, e), code |-> "ok"]
    <3>1. nothing = [live |-> <<>>, code |-> "ok"]
      OBVIOUS
    <3>2. (\A k \in DOMAIN <<>> : <<>>[k].id # e.id) /\ ~(<<>> # <<>>)
      OBVIOUS
    <3> HIDE DEF nothing, digest
    <3>3. QED BY <1>2, <3>1, <3>2, ReadOne
  <2> HIDE DEF first
  <2>2. QED BY <2>1
<1>7. ASSUME first = [live |-> <<e>>, code |-> "ok"]
      PROVE  second.code = "FAILED" \/ second = [live |-> <<e, f>>, code |-> "ok"]
  <2>1. m = f.message /\ f.message.kind = "acceptance"
    BY <1>7, EntryIs DEF Accepts
  <2>2. (\A k \in DOMAIN <<e>> : <<e>>[k].id # f.id) /\ ~(<<e>>[Len(<<e>>)].height >= f.height)
    BY <1>5
  <2> HIDE DEF first, m
  <2>3. second.code = "FAILED" \/ second = [live |-> Append(<<e>>, f), code |-> "ok"]
    BY <1>7, <2>1, <2>2, ReadOne
  <2> HIDE DEF second
  <2>4. QED BY <2>3, AppendTuples, Zenon
<1>8. ASSUME second = [live |-> <<e, f>>, code |-> "ok"]
      PROVE  third.code = "FAILED" \/ third = [live |-> <<e, f, g>>, code |-> "ok"]
  <2>1. n = g.message /\ g.message.kind = "acknowledgment"
    BY <1>8, EntryIs DEF Acknowledges
  <2>2. /\ \A k \in DOMAIN <<e, f>> : <<e, f>>[k].id # g.id
        /\ ~(<<e, f>>[Len(<<e, f>>)].height >= g.height)
    BY <1>5
  <2> HIDE DEF second, n
  <2>3. third.code = "FAILED" \/ third = [live |-> Append(<<e, f>>, g), code |-> "ok"]
    BY <1>8, <2>1, <2>2, ReadOne
  <2> HIDE DEF third
  <2>4. QED BY <2>3, AppendTuples, Zenon
<1> HIDE DEF first, second, third
<1>9. QED BY <1>4, <1>6, <1>7, <1>8

\* What a package is found to be.
LEMMA PackageSays ==
  ASSUME PackageInv, NEW role \in Roles
  PROVE  \/ PartyPackage(role) = "FAILED"
         \/ /\ PartyPackage(role) = "ok" /\ IsComplete(role)
            /\ HonestNow(role, package[role].result)
<1>1. CASE ~IsComplete(role)
  BY <1>1 DEF PartyPackage
<1>2. CASE IsComplete(role)
  <2>0. PICK stage, result : /\ package[role] = [stage |-> stage, result |-> result]
                             /\ stage # "none" => HonestNow(role, result)
    BY DEF PackageInv, HonestNow
  <2>1. HonestNow(role, package[role].result)
    BY <1>2, <2>0 DEF IsComplete
  <2>2. ValidPartyResult(package[role].result[1])
    BY <2>1 DEF HonestNow, Honest
  <2>3. QED BY <1>2, <2>1, <2>2 DEF PartyPackage
<1>3. QED BY <1>1, <1>2

\* Of two honest packages the verifier finds nothing to object to.
LEMMA PackagesMatch ==
  ASSUME Inductive, LedgerInv, PackageInv,
         PartyPackage("payer") = "ok", PartyPackage("payee") = "ok"
  PROVE  /\ LiveTransitions.code \in {"ok", "FAILED"}
         /\ LiveTransitions.code = "ok" =>
              /\ PackageMatches("payer", LiveTransitions.live) = "ok"
              /\ PackageMatches("payee", LiveTransitions.live) = "ok"
<1> DEFINE payer == package["payer"].result
           payee == package["payee"].result
<1>1. HonestNow("payer", payer) /\ HonestNow("payee", payee)
  BY PackageSays DEF Roles
<1> HIDE DEF payer, payee
<1>2. PICK e, f, g : /\ payer[1].transitions = <<e, f, g>> /\ payer[1].role = "payer"
                     /\ AnchoredNow(e, "proposal") /\ AnchoredNow(f, "acceptance")
                     /\ AnchoredNow(g, "acknowledgment")
                     /\ Accepts(f, e) /\ Acknowledges(g, f, e)
                     /\ e.height < f.height /\ f.height < g.height
                     /\ EnoughTransitions("payer", 3)
  BY <1>1, PayerIs
<1>3. /\ payee[1].role = "payee" /\ IsRecoverable(descriptor, e.message)
      /\ payee[1].transitions \in {<<e, f>>, <<e, f, g>>}
  BY <1>1, <1>2, PayeeIs
<1>4. \/ LiveTransitions.code = "FAILED"
      \/ LiveTransitions = [live |-> <<e, f, g>>, code |-> "ok"]
  BY <1>2, <1>3, LiveOfHonest
<1>5. PackageMatches("payer", <<e, f, g>>) = "ok"
  BY <1>2 DEF PackageMatches, Published, payer
<1>6. PackageMatches("payee", <<e, f, g>>) = "ok"
  <2>1. EnoughTransitions("payee", 2) /\ EnoughTransitions("payee", 3)
    BY DEF EnoughTransitions
  <2>2. Published("payee") = payee[1]
    BY DEF Published, payee
  <2>3. CASE payee[1].transitions = <<e, f>>
    <3>1. Len(<<e, f>>) = 2 /\ \A k \in DOMAIN <<e, f>> : <<e, f>>[k] = <<e, f, g>>[k]
      OBVIOUS
    <3>2. QED BY <1>3, <2>1, <2>2, <2>3, <3>1 DEF PackageMatches
  <2>4. CASE payee[1].transitions = <<e, f, g>>
    <3>1. Len(<<e, f, g>>) = 3
      OBVIOUS
    <3>2. QED BY <1>3, <2>1, <2>2, <2>4, <3>1 DEF PackageMatches
  <2>5. QED BY <1>3, <2>3, <2>4
<1>7. CASE LiveTransitions.code = "FAILED"
  BY <1>7
<1>8. CASE LiveTransitions = [live |-> <<e, f, g>>, code |-> "ok"]
  <2>1. LiveTransitions.code = "ok" /\ LiveTransitions.live = <<e, f, g>>
    BY <1>8
  <2>2. QED BY <1>5, <1>6, <2>1
<1>9. QED BY <1>4, <1>7, <1>8

FoundNow(ts) == Found(ts, anchors, blocks)

\* What a verification says that is neither an authorisation nor a contradiction.
Plain == {"none", "FAILED", "RATE_BLOCKED", "ANCHOR_UNVERIFIED", "EXPIRED",
          "REHEARSAL_NOT_AUTHORIZABLE", "REHEARSAL_PASSED", "REHEARSAL_SUBJECT_MISMATCH"}

\* A verdict with another field is a verdict.
LEMMA AtStage ==
  ASSUME NEW v, IsVerdict(v), NEW x
  PROVE  LET w == [v EXCEPT !.pc = x]
         IN /\ IsVerdict(w) /\ w.pc = x
            /\ w.how = v.how /\ w.live = v.live /\ w.code = v.code
<1>1. PICK pc, how, live, code : v = [pc |-> pc, how |-> how, live |-> live, code |-> code]
  BY DEF IsVerdict
<1>2. [v EXCEPT !.pc = x] = [pc |-> x, how |-> how, live |-> live, code |-> code]
  BY <1>1
<1>3. IsVerdict([v EXCEPT !.pc = x])
  BY <1>2, Zenon DEF IsVerdict
<1>4. QED BY <1>1, <1>2, <1>3

LEMMA InWay ==
  ASSUME NEW v, IsVerdict(v), NEW x
  PROVE  LET w == [v EXCEPT !.how = x]
         IN /\ IsVerdict(w) /\ w.how = x
            /\ w.pc = v.pc /\ w.live = v.live /\ w.code = v.code
<1>1. PICK pc, how, live, code : v = [pc |-> pc, how |-> how, live |-> live, code |-> code]
  BY DEF IsVerdict
<1>2. [v EXCEPT !.how = x] = [pc |-> pc, how |-> x, live |-> live, code |-> code]
  BY <1>1
<1>3. IsVerdict([v EXCEPT !.how = x])
  BY <1>2, Zenon DEF IsVerdict
<1>4. QED BY <1>1, <1>2, <1>3

LEMMA WithLive ==
  ASSUME NEW v, IsVerdict(v), NEW x
  PROVE  LET w == [v EXCEPT !.live = x]
         IN /\ IsVerdict(w) /\ w.live = x
            /\ w.pc = v.pc /\ w.how = v.how /\ w.code = v.code
<1>1. PICK pc, how, live, code : v = [pc |-> pc, how |-> how, live |-> live, code |-> code]
  BY DEF IsVerdict
<1>2. [v EXCEPT !.live = x] = [pc |-> pc, how |-> how, live |-> x, code |-> code]
  BY <1>1
<1>3. IsVerdict([v EXCEPT !.live = x])
  BY <1>2, Zenon DEF IsVerdict
<1>4. QED BY <1>1, <1>2, <1>3

LEMMA WithCode ==
  ASSUME NEW v, IsVerdict(v), NEW x
  PROVE  LET w == [v EXCEPT !.code = x]
         IN /\ IsVerdict(w) /\ w.code = x
            /\ w.pc = v.pc /\ w.how = v.how /\ w.live = v.live
<1>1. PICK pc, how, live, code : v = [pc |-> pc, how |-> how, live |-> live, code |-> code]
  BY DEF IsVerdict
<1>2. [v EXCEPT !.code = x] = [pc |-> pc, how |-> how, live |-> live, code |-> x]
  BY <1>1
<1>3. IsVerdict([v EXCEPT !.code = x])
  BY <1>2, Zenon DEF IsVerdict
<1>4. QED BY <1>1, <1>2, <1>3

\* Before any verification.
LEMMA Blank == IsVerdict(NoVerdict) /\ NoVerdict.code = "none"
<1>1. IsVerdict(NoVerdict)
  BY Zenon DEF IsVerdict, NoVerdict
<1>2. QED BY <1>1 DEF NoVerdict

\* What a verification may come to.
IsDone(w, code) == IsVerdict(w) /\ w.pc = "done" /\ w.code = code
IsFound(w, code, live) ==
  IsVerdict(w) /\ w.pc = "audit" /\ w.code = code /\ w.live = live

\* A verification that is over.
LEMMA DoneIs ==
  ASSUME NEW v, IsVerdict(v), NEW how, NEW code, NEW w,
         w = [v EXCEPT !.pc = "done", !.how = how, !.code = code]
  PROVE  IsDone(w, code)
<1> DEFINE v1 == [v EXCEPT !.pc = "done"]
           v2 == [v1 EXCEPT !.how = how]
           v3 == [v2 EXCEPT !.code = code]
<1>1. IsVerdict(v1) /\ v1.pc = "done"
  BY AtStage, Zenon
<1>2. v3 = w
  OBVIOUS
<1> HIDE DEF v1
<1>3. IsVerdict(v2) /\ v2.pc = "done"
  BY ONLY <1>1, InWay, Zenon
<1> HIDE DEF v2
<1>4. IsVerdict(v3) /\ v3.pc = "done" /\ v3.code = code
  BY ONLY <1>3, WithCode, Zenon
<1> HIDE DEF v3
<1>5. QED BY <1>2, <1>4 DEF IsDone

\* A verification that found the transitions.
LEMMA FoundIt ==
  ASSUME NEW v, IsVerdict(v), NEW how, NEW live, NEW w,
         w = [v EXCEPT !.pc = "audit", !.how = how, !.live = live]
  PROVE  IsFound(w, v.code, live)
<1> DEFINE v1 == [v EXCEPT !.pc = "audit"]
           v2 == [v1 EXCEPT !.how = how]
           v3 == [v2 EXCEPT !.live = live]
<1>1. IsVerdict(v1) /\ v1.pc = "audit" /\ v1.code = v.code
  BY AtStage, Zenon
<1>2. v3 = w
  OBVIOUS
<1> HIDE DEF v1
<1>3. IsVerdict(v2) /\ v2.pc = "audit" /\ v2.code = v.code
  BY ONLY <1>1, InWay, Zenon
<1> HIDE DEF v2
<1>4. IsVerdict(v3) /\ v3.pc = "audit" /\ v3.code = v.code /\ v3.live = live
  <2>1. IsVerdict(v2)
    BY <1>3
  <2>2. IsVerdict(v3) /\ v3.pc = v2.pc /\ v3.code = v2.code /\ v3.live = live
    BY ONLY <2>1, WithLive, Zenon
  <2> HIDE DEF v3
  <2>3. QED BY ONLY <1>3, <2>2, Zenon
<1> HIDE DEF v3
<1>5. QED BY <1>2, <1>4 DEF IsFound

\* A verification that concludes from what it found.
LEMMA ConcludedIs ==
  ASSUME NEW v, IsVerdict(v), NEW code, NEW w, w = [v EXCEPT !.pc = "done", !.code = code]
  PROVE  IsDone(w, code) /\ w.live = v.live
<1> DEFINE v1 == [v EXCEPT !.pc = "done"]
           v2 == [v1 EXCEPT !.code = code]
<1>1. IsVerdict(v1) /\ v1.pc = "done" /\ v1.live = v.live
  BY AtStage, Zenon
<1>2. v2 = w
  OBVIOUS
<1> HIDE DEF v1
<1>3. IsVerdict(v2) /\ v2.pc = "done" /\ v2.code = code /\ v2.live = v.live
  <2>1. IsVerdict(v1)
    BY <1>1
  <2>2. IsVerdict(v2) /\ v2.pc = v1.pc /\ v2.code = code /\ v2.live = v1.live
    BY ONLY <2>1, WithCode, Zenon
  <2> HIDE DEF v2
  <2>3. QED BY ONLY <1>1, <2>2, Zenon
<1> HIDE DEF v2
<1>4. QED BY <1>2, <1>3 DEF IsDone

LEMMA ReadLiveSays ==
  ASSUME Inductive, LedgerInv, PackageInv, VerdictInv, ReadLive
  PROVE  /\ IsVerdict(verdict')
         /\ \/ verdict'.pc = "done" /\ verdict'.code \in Plain
            \/ /\ verdict'.pc = "audit" /\ verdict'.code = "none" /\ FoundNow(verdict'.live)
               /\ \A role \in Roles : IsComplete(role)
<1> DEFINE read == LiveTransitions
           Done(how, code) == [NoVerdict EXCEPT !.pc = "done", !.how = how, !.code = code]
           Says(v) == /\ IsVerdict(v)
                      /\ \/ v.pc = "done" /\ v.code \in Plain
                         \/ /\ v.pc = "audit" /\ v.code = "none" /\ FoundNow(v.live)
                            /\ \A role \in Roles : IsComplete(role)
<1>1. ASSUME NEW how, NEW code \in Plain, verdict' = Done(how, code)
      PROVE  Says(verdict')
  <2>1. IsDone(verdict', code)
    <3>1. verdict' = [NoVerdict EXCEPT !.pc = "done", !.how = how, !.code = code]
      BY <1>1
    <3>2. IsVerdict(NoVerdict)
      BY Blank
    <3> HIDE DEF Done, Says, read
    <3>3. QED BY <3>1, <3>2, DoneIs
  <2>2. QED BY <1>1, <2>1 DEF IsDone
<1>2. ASSUME NEW how, PartyPackage("payer") = "ok", PartyPackage("payee") = "ok",
             read.code = "ok", IntentAtAnchor(read.live[1]) = "ok",
             verdict' = [NoVerdict EXCEPT !.pc = "audit", !.how = how, !.live = read.live]
      PROVE  Says(verdict')
  <2>1. IsFound(verdict', "none", read.live)
    <3>1. verdict' = [NoVerdict EXCEPT !.pc = "audit", !.how = how, !.live = read.live]
      BY <1>2
    <3>2. IsVerdict(NoVerdict) /\ NoVerdict.code = "none"
      BY Blank
    <3> HIDE DEF Done, Says, read
    <3>3. QED BY <3>1, <3>2, FoundIt
  <2>2. Genuine(read.live, anchors, blocks) /\ InOrder(read.live)
    BY <1>2, LiveIs
  <2>3. PICK e, f, g : read.live = <<e, f, g>> /\ e.height < f.height /\ f.height < g.height
    BY <2>2 DEF InOrder
  <2>4. IntentAtAnchor(e) = "ok"
    BY <1>2, <2>3
  <2>5. e.message.amount = terms.mandate.amount /\ e.time < terms.request.until
    BY <2>4 DEF IntentAtAnchor
  <2>6. FoundNow(read.live)
    BY <2>2, <2>3, <2>5 DEF FoundNow, Found
  <2>7. \A role \in Roles : IsComplete(role)
    BY <1>2, PackageSays DEF Roles
  <2>8. QED BY <2>1, <2>6, <2>7 DEF IsFound
<1>3. PICK how \in Hows :
        \/ \E code \in VerifyFailures : verdict' = Done(how, code)
        \/ verdict' =
             IF ~CommercialIntentPolicy \/ ~VerifiedEnvelope(descriptor) THEN Done(how, "FAILED")
             ELSE IF PartyPackage("payer") # "ok" THEN Done(how, PartyPackage("payer"))
             ELSE IF PartyPackage("payee") # "ok" THEN Done(how, PartyPackage("payee"))
             ELSE IF read.code # "ok" THEN Done(how, read.code)
             ELSE IF IntentAtAnchor(read.live[1]) # "ok"
                    THEN Done(how, IntentAtAnchor(read.live[1]))
             ELSE IF PackageMatches("payer", read.live) # "ok" THEN
                    Done(how, PackageMatches("payer", read.live))
             ELSE IF PackageMatches("payee", read.live) # "ok" THEN
                    Done(how, PackageMatches("payee", read.live))
             ELSE [NoVerdict EXCEPT !.pc = "audit", !.how = how, !.live = read.live]
  BY DEF ReadLive, Roles
<1>4. VerifyFailures \subseteq Plain
  BY DEF VerifyFailures, SearchFailure, AnchorFailure, Plain
<1>5. PartyPackage("payer") \in {"ok", "FAILED"} /\ PartyPackage("payee") \in {"ok", "FAILED"}
  BY PackageSays DEF Roles
<1>6. IntentAtAnchor(read.live[1]) \in {"ok", "FAILED", "EXPIRED"}
  BY DEF IntentAtAnchor
<1>7. PartyPackage("payer") = "ok" /\ PartyPackage("payee") = "ok" =>
        /\ read.code \in {"ok", "FAILED"}
        /\ read.code = "ok" => /\ PackageMatches("payer", read.live) = "ok"
                               /\ PackageMatches("payee", read.live) = "ok"
  BY PackagesMatch
<1>8. "FAILED" \in Plain /\ "EXPIRED" \in Plain
  BY DEF Plain
<1> HIDE DEF Done, read
<1>9. \/ \E code \in Plain : verdict' = Done(how, code)
      \/ /\ PartyPackage("payer") = "ok" /\ PartyPackage("payee") = "ok" /\ read.code = "ok"
         /\ IntentAtAnchor(read.live[1]) = "ok"
         /\ verdict' = [NoVerdict EXCEPT !.pc = "audit", !.how = how, !.live = read.live]
  BY <1>3, <1>4, <1>5, <1>6, <1>7, <1>8
<1> HIDE DEF Says
<1>10. Says(verdict')
  BY <1>1, <1>2, <1>9
<1>11. QED BY <1>10 DEF Says

\* A slot of a transition that was found has one anchor.
LEMMA AuditHolds ==
  ASSUME Inductive, LedgerInv, NEW e, NEW f, NEW g,
         AnchoredNow(e, "proposal"), AnchoredNow(f, "acceptance"), AnchoredNow(g, "acknowledgment")
  PROVE  AuditTransitions
<1>1. \A x, kind : AnchoredNow(x, kind) => Cardinality(Search(kind)) = 1
  <2>1. SUFFICES ASSUME NEW x, NEW kind, AnchoredNow(x, kind)
                 PROVE  Cardinality(Search(kind)) = 1
    OBVIOUS
  <2>2. PICK a \in anchors : Search(kind) = {a}
    BY <2>1, EntryIs
  <2>3. QED BY <2>2, FS_Singleton
<1>2. /\ Cardinality(Search("proposal")) = 1 /\ Cardinality(Search("acceptance")) = 1
      /\ Cardinality(Search("acknowledgment")) = 1
  BY <1>1
<1>3. Slots = {"proposal", "acceptance", "acknowledgment"}
  BY DEF Slots, Kinds
<1>4. QED BY <1>2, <1>3 DEF AuditTransitions

\* The bound of an entry's time is not below it.
LEMMA BoundAbove ==
  ASSUME Inductive, LedgerInv, NEW e, NEW kind, AnchoredNow(e, kind), NEW answered \in BOOLEAN
  PROVE  VerifierUpperBound(e, answered) \in Nat /\ VerifierUpperBound(e, answered) >= e.time
<1>1. e.height \in 1..Len(blocks) /\ e.time = blocks[e.height] /\ e.time \in Nat
  BY EntryIs
<1>2. Len(blocks) \in Nat
  BY DEF LedgerInv
<1>3. CASE answered /\ e.height < Height
  <2>1. e.height \in 1..(Len(blocks) - 1) /\ e.height + 1 \in 1..Len(blocks)
    BY <1>1, <1>2, <1>3 DEF Height
  <2>2. blocks[e.height] < blocks[e.height + 1]
    BY <2>1 DEF LedgerInv
  <2>3. blocks[e.height + 1] \in Nat
    BY <2>1, ElementOfSeq DEF LedgerInv
  <2>4. VerifierUpperBound(e, answered) = blocks[e.height + 1]
    BY <1>3 DEF VerifierUpperBound
  <2>5. QED BY <1>1, <2>2, <2>3, <2>4
<1>4. CASE ~(answered /\ e.height < Height)
  <2>1. VerifierUpperBound(e, answered) = e.time + Slack
    BY <1>4 DEF VerifierUpperBound, LiveUpperBound
  <2>2. QED BY <1>1, <2>1, DocumentsAssumption
<1>5. QED BY <1>3, <1>4

\* What was found in time was anchored in time.
LEMMA TimelyIs ==
  ASSUME Inductive, LedgerInv, NEW e, NEW f, NEW g, NEW answered \in BOOLEAN,
         AnchoredNow(e, "proposal"), AnchoredNow(g, "acknowledgment"),
         IsWithinDeadline(VerifierUpperBound(g, answered), Deadline(e))
  PROVE  Timely(<<e, f, g>>)
<1>1. /\ VerifierUpperBound(g, answered) \in Nat /\ VerifierUpperBound(g, answered) >= g.time
      /\ g.time \in Nat /\ e.time \in Nat
  BY BoundAbove, EntryIs
<1>2. Deadline(e) \in Nat
  BY <1>1, DocumentsAssumption DEF Deadline
<1>3. g.time <= Deadline(e)
  BY <1>1, <1>2 DEF IsWithinDeadline
<1>4. <<e, f, g>>[3] = g /\ <<e, f, g>>[1] = e
  OBVIOUS
<1>5. QED BY <1>3, <1>4 DEF Timely

\* What the audit says of transitions that were found.
LEMMA AuditSays ==
  ASSUME Inductive, LedgerInv, VerdictInv, Audit
  PROVE  \E code \in Plain \cup {"AUTHORIZED"} :
           /\ IsDone(verdict', code) /\ verdict'.live = verdict.live
           /\ code = "AUTHORIZED" =>
                Timely(verdict.live) /\ terms.mandate.subjectRun = "stakeholder"
<1>1. PICK e, f, g : /\ verdict.live = <<e, f, g>> /\ Genuine(verdict.live, anchors, blocks)
                     /\ e.height < f.height /\ f.height < g.height
  BY DEF Audit, VerdictInv, Found
<1>2. AnchoredNow(e, "proposal") /\ AnchoredNow(f, "acceptance") /\ AnchoredNow(g, "acknowledgment")
  BY <1>1 DEF Genuine, AnchoredNow
<1>3. AuditTransitions
  BY <1>2, AuditHolds
<1>4. /\ verdict.live[1] = e /\ verdict.live[3] = g
  BY <1>1
<1>5. PICK code : /\ verdict' = [verdict EXCEPT !.pc = "done", !.code = code]
                  /\ \/ code \in AuditFailures
                     \/ \E answered \in BOOLEAN :
                          code \in {"EXPIRED", "FAILED"}
                          \/ (/\ code = Emit
                              /\ IsWithinDeadline(VerifierUpperBound(g, answered), Deadline(e)))
  <2>1. CASE \E code \in AuditFailures : Conclude(code)
    BY <2>1 DEF Conclude
  <2>2. ASSUME NEW answered \in BOOLEAN, NEW late, NEW identified,
               late <=> \E k \in 2..3 : ~IsWithinDeadline(
                 VerifierUpperBound(verdict.live[k], answered), Deadline(verdict.live[1])),
               Conclude(IF ~AuditTransitions THEN "DUPLICATE" ELSE IF late THEN "EXPIRED"
                        ELSE IF ~identified THEN "FAILED" ELSE Emit)
        PROVE  \E code :
                 /\ verdict' = [verdict EXCEPT !.pc = "done", !.code = code]
                 /\ \/ code \in {"EXPIRED", "FAILED"}
                    \/ /\ code = Emit
                       /\ IsWithinDeadline(VerifierUpperBound(g, answered), Deadline(e))
    <3>1. CASE late
      BY <1>3, <2>2, <3>1 DEF Conclude
    <3>2. CASE ~late
      <4>1. IsWithinDeadline(VerifierUpperBound(g, answered), Deadline(e))
        BY <1>4, <2>2, <3>2
      <4>2. CASE identified
        BY <1>3, <2>2, <3>2, <4>1, <4>2 DEF Conclude
      <4>3. CASE ~identified
        BY <1>3, <2>2, <3>2, <4>3 DEF Conclude
      <4>4. QED BY <4>2, <4>3
    <3>3. QED BY <3>1, <3>2
  <2>3. QED BY <2>1, <2>2 DEF Audit
<1>6. IsDone(verdict', code) /\ verdict'.live = verdict.live
  BY <1>5, ConcludedIs DEF VerdictInv
<1>7. code \in Plain \cup {"AUTHORIZED"}
  BY <1>5 DEF Emit, Plain, AuditFailures
<1>8. ASSUME code = "AUTHORIZED"
      PROVE  Timely(verdict.live) /\ terms.mandate.subjectRun = "stakeholder"
  <2>1. code = Emit /\ \E answered \in BOOLEAN :
                         IsWithinDeadline(VerifierUpperBound(g, answered), Deadline(e))
    BY <1>5, <1>8 DEF AuditFailures
  <2>2. terms.mandate.subjectRun = "stakeholder"
    BY <1>8, <2>1 DEF Emit
  <2>3. Timely(verdict.live)
    BY <1>1, <1>2, <2>1, TimelyIs
  <2>4. QED BY <2>2, <2>3
<1>9. QED BY <1>6, <1>7, <1>8

\* What was found is found for ever.
LEMMA FoundStays ==
  ASSUME LedgerInv, Grows, terms' = terms, NEW ts, Found(ts, anchors, blocks)
  PROVE  Found(ts, anchors, blocks)'
<1>1. PICK e, f, g :
        /\ ts = <<e, f, g>> /\ Genuine(ts, anchors, blocks)
        /\ e.height < f.height /\ f.height < g.height
        /\ e.message.amount = terms.mandate.amount /\ e.time < terms.request.until
  BY DEF Found
<1>2. Genuine(ts, anchors', blocks')
  BY <1>1, GenuineStays
<1>3. /\ ts = <<e, f, g>> /\ Genuine(ts, anchors', blocks')
      /\ e.height < f.height /\ f.height < g.height
      /\ e.message.amount = terms'.mandate.amount /\ e.time < terms'.request.until
  BY <1>1, <1>2
<1>4. QED BY <1>3, Zenon DEF Found

LEMMA VerdictKept ==
  ASSUME Inductive, LedgerInv, PackageShape, PackageInv, VerdictInv, [Next]_vars
  PROVE  VerdictInv'
<1>1. /\ Grows /\ terms' = terms
      /\ \A role \in Roles : IsComplete(role) => IsComplete(role)'
  BY LedgerGrows, TermsStay, FinalStep DEF Final, IsComplete
<1>2. \A ts : Found(ts, anchors, blocks) => Found(ts, anchors, blocks)'
  BY <1>1, FoundStays
<1>3. "AUTHORIZED" \notin Plain /\ Plain \cap Refuted = {} /\ "AUTHORIZED" \notin Refuted
      /\ "none" \notin Refuted
  BY DEF Plain, Refuted
<1>4. CASE UNCHANGED verdict
  BY <1>1, <1>2, <1>4 DEF VerdictInv
<1>5. CASE ReadLive
  <2>1. /\ IsVerdict(verdict')
        /\ \/ verdict'.pc = "done" /\ verdict'.code \in Plain
           \/ /\ verdict'.pc = "audit" /\ verdict'.code = "none" /\ FoundNow(verdict'.live)
              /\ \A role \in Roles : IsComplete(role)
    BY <1>5, ReadLiveSays
  <2>2. CASE verdict'.pc = "done" /\ verdict'.code \in Plain
    BY <1>3, <2>1, <2>2 DEF VerdictInv
  <2>3. CASE /\ verdict'.pc = "audit" /\ verdict'.code = "none" /\ FoundNow(verdict'.live)
             /\ \A role \in Roles : IsComplete(role)
    BY <1>1, <1>2, <1>3, <2>1, <2>3 DEF VerdictInv, FoundNow
  <2>4. QED BY <2>1, <2>2, <2>3
<1>6. CASE Audit
  <2>1. PICK code \in Plain \cup {"AUTHORIZED"} :
           /\ IsDone(verdict', code) /\ verdict'.live = verdict.live
           /\ code = "AUTHORIZED" =>
                Timely(verdict.live) /\ terms.mandate.subjectRun = "stakeholder"
    BY <1>6, AuditSays
  <2>2. Found(verdict.live, anchors, blocks) /\ \A role \in Roles : IsComplete(role)
    BY <1>6 DEF VerdictInv, Audit
  <2>3. Found(verdict.live, anchors, blocks)' /\ \A role \in Roles : IsComplete(role)'
    BY <1>1, <1>2, <2>1, <2>2
  <2>4. QED BY <1>1, <1>3, <2>1, <2>3 DEF VerdictInv, IsDone
<1>7. UNCHANGED verdict \/ ReadLive \/ Audit
  BY DEF Next, vars, VerdictStep
<1>8. QED BY <1>4, <1>5, <1>6, <1>7

LEMMA KnowingInit ==
  ASSUME Init
  PROVE  Knowing
<1>1. LedgerInv
  <2>1. blocks = <<0>> /\ anchors = {}
    BY DEF Init, LedgerInit
  <2>2. blocks \in Seq(Nat) /\ blocks # <<>> /\ \A i \in 1..(Len(blocks) - 1) : blocks[i] < blocks[i + 1]
    BY <2>1
  <2>3. QED BY <2>1, <2>2 DEF LedgerInv
<1>2. ProcessInv
  <2>1. SUFFICES ASSUME NEW p \in Processes
                 PROVE  Knows(RoleOf[p], proc[p], anchors, blocks, descriptor)
    BY DEF ProcessInv
  <2>2. proc[p] = Idle
    BY DEF Init, RunnerInit
  <2>3. proc[p].pc = "idle" /\ proc[p].seen = <<>>
    BY <2>2 DEF Idle
  <2>4. QED BY <2>3 DEF Knows, Genuine, Recovered, Working, Composing
<1>3. PackageShape /\ PackageInv
  <2>1. package = [role \in Roles |-> [stage |-> "none", result |-> <<>>]]
    BY DEF Init, DirectoryInit, NoPackage
  <2>2. PackageShape
    BY <2>1 DEF PackageShape
  <2>3. \A role \in Roles : package[role] = [stage |-> "none", result |-> <<>>]
    BY <2>1
  <2>4. \A role \in Roles : \E stage, result :
          package[role] = [stage |-> stage, result |-> result] /\ stage = "none"
    BY <2>3, Zenon
  <2>5. QED BY <2>2, <2>4 DEF PackageInv
<1>4. VerdictInv
  <2>1. verdict = NoVerdict
    BY DEF Init, VerdictInit
  <2>2. verdict.pc = "idle" /\ verdict.code = "none"
    BY <2>1 DEF NoVerdict
  <2>3. QED BY <2>1, <2>2, Blank DEF VerdictInv, Refuted
<1>5. QED BY <1>1, <1>2, <1>3, <1>4 DEF Knowing

LEMMA KnowingStep ==
  ASSUME Inductive, Knowing, [Next]_vars
  PROVE  Knowing'
<1>1. LedgerInv'
  BY LedgerGrows DEF Knowing
<1>2. ProcessInv'
  BY KnowledgeKept DEF Knowing
<1>3. PackageShape' /\ PackageInv'
  BY FinalStep, PackagesKept DEF Knowing
<1>4. VerdictInv'
  BY VerdictKept DEF Knowing
<1>5. QED BY <1>1, <1>2, <1>3, <1>4 DEF Knowing

\* What a process has seen is anchored, what is published is what a process saw, and what
\* is said of the session is so.
THEOREM WhatIsKnown == Spec => []Knowing
<1>1. Init => Knowing
  BY KnowingInit
<1>2. Inductive /\ Knowing /\ [Next]_vars => Knowing'
  BY KnowingStep
<1>3. QED BY <1>1, <1>2, HandshakeInductive, PTL DEF Spec

\* An authorisation, once it is out, stays true: three transitions that name one another,
\* each the only anchor of its slot, in order, in time, of the mandate's amount, and for
\* the stakeholder's run.
THEOREM AuthorizedSoundly == Spec => []AuthorizedIsSound
<1>1. ASSUME Inductive, Knowing
      PROVE  AuthorizedIsSound
  <2> DEFINE a == [k \in 1..3 |-> CHOOSE x \in Search(Kinds[k]) : TRUE]
  <2>1. SUFFICES ASSUME verdict.code = "AUTHORIZED"
                 PROVE  /\ \A k \in 1..3 : Cardinality(Search(Kinds[k])) = 1
                        /\ a[1].height < a[2].height /\ a[2].height < a[3].height
                        /\ \A k \in 2..3 : a[k].digest.predecessor[1].hash = a[k - 1].digest
                        /\ blocks[a[3].height] <= blocks[a[1].height] + Expiry
                        /\ a[3].digest.amount = terms.mandate.amount
                        /\ blocks[a[1].height] < terms.request.until
                        /\ terms.mandate.subjectRun = "stakeholder"
                        /\ \A role \in Roles : IsComplete(role)
    BY DEF AuthorizedIsSound
  <2>2. /\ Found(verdict.live, anchors, blocks) /\ Timely(verdict.live)
        /\ terms.mandate.subjectRun = "stakeholder" /\ \A role \in Roles : IsComplete(role)
    BY <1>1, <2>1 DEF Knowing, VerdictInv
  <2>3. PICK e, f, g :
          /\ verdict.live = <<e, f, g>> /\ Genuine(verdict.live, anchors, blocks)
          /\ e.height < f.height /\ f.height < g.height
          /\ e.message.amount = terms.mandate.amount /\ e.time < terms.request.until
    BY <2>2 DEF Found
  <2>4. /\ AnchoredNow(e, "proposal") /\ AnchoredNow(f, "acceptance") /\ Accepts(f, e)
        /\ AnchoredNow(g, "acknowledgment") /\ Acknowledges(g, f, e)
    BY <2>3 DEF Genuine, AnchoredNow
  <2>5. ASSUME NEW k \in 1..3, NEW x, AnchoredNow(x, Kinds[k])
        PROVE  /\ Cardinality(Search(Kinds[k])) = 1 /\ a[k].height = x.height
               /\ a[k].digest = x.message /\ blocks[a[k].height] = x.time
    <3>1. PICK b \in anchors : Search(Kinds[k]) = {b} /\ b.digest = x.message
                               /\ b.height = x.height
      BY <1>1, <2>5, EntryIs DEF Knowing
    <3>2. x.time = blocks[x.height]
      BY <1>1, <2>5, EntryIs DEF Knowing
    <3>3. a[k] = b
      BY <3>1
    <3>4. QED BY <3>1, <3>2, <3>3, FS_Singleton
  <2>6. /\ Kinds[1] = "proposal" /\ Kinds[2] = "acceptance" /\ Kinds[3] = "acknowledgment"
    BY DEF Kinds
  <2>7. /\ a[1].height = e.height /\ a[1].digest = e.message /\ blocks[a[1].height] = e.time
        /\ a[2].height = f.height /\ a[2].digest = f.message
        /\ a[3].height = g.height /\ a[3].digest = g.message /\ blocks[a[3].height] = g.time
    <3> HIDE DEF a
    <3>1. QED BY <2>4, <2>5, <2>6
  <2>8. \A k \in 1..3 : Cardinality(Search(Kinds[k])) = 1
    <3> HIDE DEF a
    <3>1. \A k \in 1..3 : k = 1 \/ k = 2 \/ k = 3
      OBVIOUS
    <3>2. /\ Cardinality(Search(Kinds[1])) = 1 /\ Cardinality(Search(Kinds[2])) = 1
          /\ Cardinality(Search(Kinds[3])) = 1
      BY <2>4, <2>5, <2>6
    <3>3. QED BY <3>1, <3>2
  <2> HIDE DEF a
  <2>9. /\ f.message.predecessor[1].hash = e.message
        /\ g.message.predecessor[1].hash = f.message
        /\ g.message.amount = f.message.amount /\ f.message.amount = e.message.amount
    BY <2>4 DEF Accepts, Acknowledges, BuildAcceptance, BuildAcknowledgment, Transition, Triple,
       HeadOf
  <2>10. g.time <= e.time + Expiry
    BY <2>2, <2>3 DEF Timely, Deadline
  <2>11. \A k \in 2..3 : a[k].digest.predecessor[1].hash = a[k - 1].digest
    <3>1. \A k \in 2..3 : k = 2 \/ k = 3
      OBVIOUS
    <3>2. QED BY <2>7, <2>9, <3>1
  <2>12. QED BY <2>2, <2>3, <2>7, <2>8, <2>9, <2>10, <2>11
<1>2. QED BY <1>1, HandshakeInductive, WhatIsKnown, PTL

\* Two parties that completed are never contradicted: whatever the verifier says, it is not
\* that the ledger holds something else than they published.
THEOREM NeverContradicted == Spec => []Confirmable
<1>1. Knowing => Confirmable
  BY DEF Knowing, VerdictInv, Refuted, Confirmable
<1>2. QED BY <1>1, WhatIsKnown, PTL

=============================================================================
