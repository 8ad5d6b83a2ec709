------------------------------ MODULE Registry ------------------------------
(***************************************************************************)
(* The chain and the identity registry on it, as one account's              *)
(* registration uses them (src/core/registration.mjs through viem).          *)
(*                                                                         *)
(* This is code of other systems.  Assumed of it: transactions of an account *)
(* are mined in the order of their nonces, a transaction replaces a waiting  *)
(* one of its nonce only for a higher fee, and what is mined stays.          *)
(***************************************************************************)
EXTENDS Integers, Sequences, FiniteSets

CONSTANTS
  Grants   \* what the account may have been given, in the unit of the fees

ASSUME RegistryAssumption == Grants \subseteq Nat

VARIABLES
  pool,      \* transactions that wait to be mined
  mined,     \* mined ones, by nonce, and whether they succeeded
  balance

registryVars == <<pool, mined, balance>>

RegistryInit == pool = {} /\ mined = <<>> /\ balance \in Grants

Accepts(tx) ==
  /\ tx.nonce >= Len(mined)
  /\ \A t \in pool : t.nonce = tx.nonce => t.fee < tx.fee

Take(tx) ==
  /\ Accepts(tx)
  /\ pool' = {t \in pool : t.nonce # tx.nonce} \cup {tx}
  /\ UNCHANGED <<mined, balance>>

Mine(ok) ==
  \E tx \in pool :
    /\ tx.nonce = Len(mined) /\ tx.fee <= balance
    /\ pool' = pool \ {tx}
    /\ mined' = Append(mined, [tx |-> tx, ok |-> ok])
    /\ balance' = balance - tx.fee

\* getTransaction.
Known(tx) == tx \in pool \/ \E i \in DOMAIN mined : mined[i].tx = tx

\* waitForTransactionReceipt.
Settled(tx, ok) == \E i \in DOMAIN mined : mined[i] = [tx |-> tx, ok |-> ok]

\* getTransactionCount of the pending block.
PendingNonce ==
  CHOOSE n \in 0..(Len(mined) + Cardinality(pool)) :
    /\ n >= Len(mined)
    /\ \A m \in Len(mined)..(n - 1) : \E t \in pool : t.nonce = m
    /\ \A t \in pool : t.nonce # n

=============================================================================
