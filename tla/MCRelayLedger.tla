---------------------------- MODULE MCRelayLedger ----------------------------
(***************************************************************************)
(* An instance of RelayLedger for TLC: an older run, journalled without a time, *)
(* and a new one, which narrates itself in the older schema, with two blocks,  *)
(* or in the newer one, where the anchors are kept elsewhere; two visitors,    *)
(* who are alike.                                                           *)
(***************************************************************************)
EXTENDS RelayLedger

CONSTANTS old, new, v1, v2

Block(height) == [height |-> height, id |-> 10 + height]

MCAnchors == {Block(1), Block(2)}

MCSnapshots ==
  (old :> {[schema |-> "v1", begun |-> 1, anchors |-> {Block(1)}]})
  @@ (new :> {[schema |-> "v1", begun |-> 2, anchors |-> {Block(1), Block(2)}],
              [schema |-> "v2", begun |-> 2, anchors |-> {Block(2)}]})

Swap == Permutations(Visitors)

=============================================================================
