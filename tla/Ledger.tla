------------------------------- MODULE Ledger -------------------------------
(***************************************************************************)
(* The Clockchain service as a session uses it: blocks that are sealed with *)
(* a time, and hashes anchored in them under a reference id.                *)
(*                                                                         *)
(* This is code of another system.  What is assumed of it is what the       *)
(* callers in src/core rely on: an anchor never changes, a search finds     *)
(* every anchor of the reference id, block times increase, and one of two   *)
(* kinds of gateway accepts writes (see Gateways).                          *)
(***************************************************************************)
EXTENDS PartyDocuments

CONSTANTS
  MaxBlocks,   \* bound: blocks that are sealed
  Cadence,     \* the usual time between two blocks
  BlockGaps    \* times that may pass before an empty block

ASSUME LedgerAssumption ==
  MaxBlocks \in Nat \ {0} /\ Cadence \in Nat \ {0} /\ BlockGaps \subseteq Nat \ {0}

VARIABLES
  blocks,    \* the times of the blocks, by height
  anchors,   \* what is anchored: slot, digest, height, id
  wire,      \* writes the gateway took and has not anchored yet
  gateway    \* which kind of gateway this is

ledgerVars == <<blocks, anchors, wire, gateway>>

\* A gateway either anchors at most one write of an idempotency key, at any time
\* after it took it; or knows no keys, and anchors a write at once or never.
Gateways == {"dedup", "prompt"}

LedgerInit ==
  /\ blocks = <<0>>
  /\ anchors = {} /\ wire = {}
  /\ gateway \in Gateways

Height == Len(blocks)

\* search_actions, generate_audit_trail: the anchors under a reference id.
Search(slot) == {a \in anchors : a.slot = slot}

Seal(gap) ==
  /\ Height < MaxBlocks
  /\ blocks' = Append(blocks, blocks[Height] + gap)

\* An empty block is sealed.
SealEmpty ==
  /\ \E gap \in BlockGaps : Seal(gap)
  /\ UNCHANGED <<anchors, wire, gateway>>

\* A write is anchored, in a block of its own.
AnchorNow(write) ==
  /\ Seal(Cadence)
  /\ anchors' = anchors \cup {[slot |-> write.slot, digest |-> write.digest,
                               height |-> Height + 1, id |-> Height + 1]}

\* Has the gateway this write's idempotency key already.
KnownKey(slot) == gateway = "dedup" /\ (Search(slot) # {} \/ \E w \in wire : w.slot = slot)

\* log_action: the write is anchored before the answer.
LogNow(write) ==
  IF KnownKey(write.slot) THEN UNCHANGED ledgerVars
  ELSE AnchorNow(write) /\ UNCHANGED <<wire, gateway>>

\* log_action: the write is taken and may be anchored later.
LogLater(write) ==
  /\ gateway = "dedup" /\ ~KnownKey(write.slot)
  /\ wire' = wire \cup {write}
  /\ UNCHANGED <<blocks, anchors, gateway>>

\* A write that was taken is anchored.
LandLate ==
  \E write \in wire :
    /\ AnchorNow(write)
    /\ wire' = wire \ {write}
    /\ UNCHANGED gateway

LedgerStep == SealEmpty \/ LandLate

LedgerTypes ==
  /\ blocks \in Seq(Nat) /\ Height \in 1..MaxBlocks
  /\ gateway \in Gateways
  /\ \A w \in wire : w.slot \in Slots /\ w.digest.kind = w.slot
  /\ \A a \in anchors : a.slot \in Slots /\ a.height \in 2..Height /\ a.id = a.height

=============================================================================
