---------------------------- MODULE Registration ----------------------------
(***************************************************************************)
(* Registering an agent's identity (src/core/registration.mjs), as the       *)
(* wallet bridge runs it (wallet-bridge.mjs): a transaction that registers,  *)
(* one that sets the final metadata, and checkpoints from which a run that    *)
(* was killed, or failed, is taken up again.                                 *)
(*                                                                         *)
(* A run may be killed between any two steps, any request may fail, with or  *)
(* without having been taken, and two runs may work on one wallet at once.   *)
(***************************************************************************)
EXTENDS PrivateFiles, Registry

CONSTANTS
  Runs,         \* runs of the command
  DisplayNames, \* what a run may call the agent
  Fees,         \* what the node may quote
  PilotRange,   \* balances a registration may start with
  Reserve,      \* fees kept back for the metadata
  MaxFaults     \* bound: requests that fail, runs that are killed

ASSUME RegistrationAssumption ==
  /\ Fees \subseteq Nat \ {0} /\ PilotRange \subseteq Nat
  /\ Reserve \in Nat /\ MaxFaults \in Nat

VARIABLES
  run,       \* what each run does next and what it knows
  nameOf,    \* the name each run was given
  faults,
  slips      \* what happened that the checkpoints do not cover

runVars == <<run, nameOf, faults, slips>>

vars == <<files, registryVars, runVars>>

----------------------------------------------------------------------------
\* Transactions and checkpoints.

RegisterTx(name, fee) == [call |-> "register", nonce |-> 0, fee |-> fee, name |-> name]
MetadataTx(name, nonce, fee) ==
  [call |-> "metadata", nonce |-> nonce, fee |-> fee, name |-> name]

\* createRegistrationIntent: enough to sign the same transaction again.
Intent(tx) == [kind |-> "intent", register |-> tx, metadata |-> <<>>]

\* createRecovery.
Recovery(tx) == [kind |-> "recovery", register |-> tx, metadata |-> <<>>]

\* A faulty variant: keeps the transaction that was reverted.
KeepMetadataTransaction(record, tx) ==
  IF record.metadata = <<>> THEN [record EXCEPT !.metadata = <<tx>>] ELSE record

\* withoutMetadataTransaction and withMetadataTransaction.
WithMetadataTransaction(record, tx) == [record EXCEPT !.metadata = <<tx>>]

\* validateRegistrationIntent: the first transaction of the wallet, under this name.
ValidIntent(record, name) ==
  record.kind = "intent" /\ record.register.nonce = 0 /\ record.register.name = name

\* validateRecovery: of this agent, under this name.
ValidRecovery(record, name) == record.kind = "recovery" /\ record.register.name = name

\* validateRegistrationCheckpoint: one of the two.
ValidCheckpoint(record, name) == ValidIntent(record, name) \/ ValidRecovery(record, name)

\* recoverIntendedRegisterHash: signing the intent again gives the same transaction.
IntendedTransaction(record) == record.register

WalletRecord == Intent(RegisterTx("wallet", 0))

----------------------------------------------------------------------------
\* What the node's answers are held against.

\* validateTransactionEnvelope: the node knows the transaction, under its nonce.
InEnvelope(tx, nonce) == Known(tx) /\ tx.nonce = nonce

\* validateExactTransactionCall.
CallMatches(tx, call, name) == tx.call = call /\ tx.name = name

\* A faulty variant: any receipt of the transaction will do.
ReceiptOf(tx) == Settled(tx, TRUE) \/ Settled(tx, FALSE)

\* validateReceipt.
SuccessfulReceipt(tx) == Settled(tx, TRUE)

\* parseRegisteredAgentId: the registry's event, for the document that was sent.
RegisteredEvent(tx, name) == SuccessfulReceipt(tx) /\ CallMatches(tx, "register", name)

\* verifyRegistrationRecoveryEvidence.
RegistrationEvidence(tx, name) == InEnvelope(tx, 0) /\ RegisteredEvent(tx, name)

\* verifyMetadataTransactionEvidence.
MetadataEvidence(tx, name) == InEnvelope(tx, tx.nonce) /\ CallMatches(tx, "metadata", name)

----------------------------------------------------------------------------
Idle == [pc |-> "idle", record |-> <<>>, tx |-> <<>>, file |-> 0, then |-> "idle"]

Init ==
  /\ FilesInit /\ RegistryInit
  /\ run = [r \in Runs |-> Idle]
  /\ nameOf \in [Runs -> DisplayNames]
  /\ faults = 0 /\ slips = {}

At(r, pc) == run[r].pc = pc
Active(r) == run[r].pc \notin {"idle", "failed", "ok"}
Record(r) == run[r].record[1]
Tx(r) == run[r].tx[1]

Goto(r, pc) == run' = [run EXCEPT ![r].pc = pc]
Fail(r) == run' = [run EXCEPT ![r] = [Idle EXCEPT !.pc = "failed"]]

Fault == faults < MaxFaults /\ faults' = faults + 1
NoFault == UNCHANGED faults

\* Saves a checkpoint, the next in number, and then goes on.
Save(r, record, then) ==
  run' = [run EXCEPT ![r].pc = "create", ![r].record = <<record>>, ![r].then = then]

\* The steps of a run that can no longer be taken up from the checkpoints: the
\* metadata was sent and is not recorded.
Slip(r) ==
  slips' = slips \cup IF run[r].then = "settle" THEN {"unrecorded"} ELSE {}

----------------------------------------------------------------------------
\* initializeWallet.
Initialize(r) ==
  /\ ~Active(r) /\ ~Exists(WalletFile)
  /\ run' = [run EXCEPT ![r] = [Idle EXCEPT !.pc = "create", !.record = <<WalletRecord>>,
                                              !.file = WalletFile, !.then = "idle"]]
  /\ UNCHANGED <<files, registryVars, nameOf, faults, slips>>

\* registerWalletIdentity up to registerIdentity or finalizeIdentityRegistration:
\* readWallet and latestCheckpoint.
Start(r) ==
  /\ ~Active(r) /\ ~At(r, "ok") /\ Latest < MaxFiles
  /\ LET n == Latest
         begin == [Idle EXCEPT !.file = n + 1]
     IN run' = [run EXCEPT ![r] =
          IF ~Readable(WalletFile) THEN [Idle EXCEPT !.pc = "failed"]
          ELSE IF n = 0 THEN [begin EXCEPT !.pc = "registry"]
          ELSE IF ~Readable(n) \/ ~ValidCheckpoint(Content(n), nameOf[r]) THEN
                 [Idle EXCEPT !.pc = "failed"]
          ELSE [begin EXCEPT !.pc = "registry", !.record = <<Content(n)>>]]
  /\ slips' = slips \cup IF \E s \in Runs : Active(s) THEN {"overlap"} ELSE {}
  /\ UNCHANGED <<files, registryVars, nameOf, faults>>

\* verifyOfficialRegistry: the chain, the contract's code and its version; then
\* finalizeIdentityRegistration from a recovery, registerIdentity otherwise.
VerifyRegistry(r) ==
  /\ At(r, "registry")
  /\ Goto(r, IF run[r].record # <<>> /\ Record(r).kind = "recovery" THEN "finalize"
                                                                   ELSE "nonce")
  /\ UNCHANGED <<files, registryVars, nameOf, faults, slips>>

\* Any read fails: the node, the registry's code and version, the fees or the gas.
ReadFails(r) ==
  /\ Active(r) /\ ~(\E pc \in {"create", "fill", "register", "metadata"} : At(r, pc))
  /\ Fault
  /\ Fail(r)
  /\ UNCHANGED <<files, registryVars, nameOf, slips>>

\* The run is killed.
Kill(r) ==
  /\ Active(r)
  /\ Fault
  /\ run' = [run EXCEPT ![r] = Idle]
  /\ Slip(r)
  /\ UNCHANGED <<files, registryVars, nameOf>>

----------------------------------------------------------------------------
\* writePrivateFile.

CreateCheckpoint(r) ==
  /\ At(r, "create")
  /\ \/ Create(run[r].file) /\ Goto(r, "fill") /\ UNCHANGED <<faults, slips>>
     \/ Exists(run[r].file) /\ Fail(r) /\ Slip(r) /\ UNCHANGED <<files, faults>>
     \/ Fault /\ Fail(r) /\ Slip(r) /\ UNCHANGED files
  /\ UNCHANGED <<registryVars, nameOf>>

FillCheckpoint(r) ==
  /\ At(r, "fill")
  /\ \/ /\ Fill(run[r].file, Record(r))
        /\ run' = [run EXCEPT ![r].pc = run[r].then, ![r].then = "idle",
                              ![r].file = IF @ < MaxFiles THEN @ + 1 ELSE @]
        /\ UNCHANGED <<faults, slips>>
     \/ Fault /\ GiveUp(run[r].file, Record(r)) /\ Fail(r) /\ Slip(r)
  /\ UNCHANGED <<registryVars, nameOf>>

----------------------------------------------------------------------------
\* registerIdentity.

\* The balance the registration needs, at the quoted fee.
FundsRegistration(fee) == balance \in PilotRange /\ balance >= (1 + Reserve) * fee

\* A faulty variant: registers first and then records what was sent.
RegisterAnew(r) ==
  \E fee \in Fees :
    IF FundsRegistration(fee)
    THEN run' = [run EXCEPT ![r].pc = "register", ![r].tx = <<RegisterTx(nameOf[r], fee)>>]
    ELSE Fail(r)

\* The node's pending nonce is zero: quotes, checks and the intent checkpoint.
RecordIntent(r) ==
  \E fee \in Fees :
    LET tx == RegisterTx(nameOf[r], fee)
    IN IF FundsRegistration(fee)
       THEN run' = [run EXCEPT ![r].pc = "create", ![r].record = <<Intent(tx)>>,
                               ![r].tx = <<tx>>, ![r].then = "register"]
       ELSE Fail(r)

\* completeRegistrationFromIntent: the transaction an earlier run announced.
TakeUpIntent(r) ==
  IF run[r].record = <<>> THEN Fail(r)
  ELSE LET tx == IntendedTransaction(Record(r))
       IN IF InEnvelope(tx, 0) /\ CallMatches(tx, "register", nameOf[r])
          THEN run' = [run EXCEPT ![r].pc = "receipt", ![r].tx = <<tx>>]
          ELSE Fail(r)

\* registerIdentity up to the broadcast.  A node that lags behind the pool says
\* nothing is pending.
ReadNonce(r) ==
  /\ At(r, "nonce")
  /\ \/ /\ NoFault /\ UNCHANGED slips
        /\ IF PendingNonce = 0 THEN RecordIntent(r) ELSE TakeUpIntent(r)
     \/ /\ Fault /\ PendingNonce # Len(mined)
        /\ slips' = slips \cup {"lag"}
        /\ IF Len(mined) = 0 THEN RecordIntent(r) ELSE TakeUpIntent(r)
  /\ UNCHANGED <<files, registryVars, nameOf>>

\* writeContract: taken and answered, refused, or failed with or without being taken.
Send(r, then) ==
  \/ Take(Tx(r)) /\ then /\ UNCHANGED <<faults, slips>>
  \/ ~Accepts(Tx(r)) /\ Fail(r) /\ UNCHANGED <<registryVars, faults, slips>>
  \/ Fault /\ Fail(r) /\ UNCHANGED <<registryVars, slips>>
  \/ /\ Fault /\ Fail(r) /\ Take(Tx(r))
     /\ slips' = slips \cup IF Tx(r).call = "metadata" THEN {"unrecorded"} ELSE {}

BroadcastRegister(r) ==
  /\ At(r, "register")
  /\ Send(r, Goto(r, "receipt"))
  /\ UNCHANGED <<files, nameOf>>

\* The receipt of the registration, and the recovery checkpoint.
AwaitRegister(r) ==
  /\ At(r, "receipt")
  /\ \/ RegisteredEvent(Tx(r), nameOf[r]) /\ Save(r, Recovery(Tx(r)), "registry")
     \/ ~SuccessfulReceipt(Tx(r)) /\ Tx(r) \notin pool /\ Fail(r)
  /\ UNCHANGED <<files, registryVars, nameOf, faults, slips>>

----------------------------------------------------------------------------
\* finalizeIdentityRegistration.

\* verifyRegistrationRecoveryEvidence, and the metadata transaction if there is one.
Finalize(r) ==
  /\ At(r, "finalize")
  /\ IF ~RegistrationEvidence(Record(r).register, nameOf[r]) THEN Fail(r)
     ELSE IF Record(r).metadata = <<>> THEN Goto(r, "count")
     ELSE IF ~MetadataEvidence(Record(r).metadata[1], nameOf[r]) THEN Fail(r)
     ELSE run' = [run EXCEPT ![r].pc = "recheck", ![r].tx = Record(r).metadata]
  /\ UNCHANGED <<files, registryVars, nameOf, faults, slips>>

\* verifyFinalReadback: the registry shows the document of this name.
Readback(r) ==
  IF \E i \in DOMAIN mined : mined[i].ok /\ CallMatches(mined[i].tx, "metadata", nameOf[r])
  THEN Goto(r, "ok") ELSE Fail(r)

\* The receipt of a metadata transaction an earlier run sent.
Recheck(r) ==
  /\ At(r, "recheck")
  /\ \/ SuccessfulReceipt(Tx(r)) /\ Readback(r)
     \/ Settled(Tx(r), FALSE) /\ Goto(r, "count")
     \/ ~Known(Tx(r)) /\ Fail(r)
  /\ UNCHANGED <<files, registryVars, nameOf, faults, slips>>

\* A faulty variant: the next free nonce, whatever was sent before.
AnyNonce(r, nonce) == nonce > 0

\* The pending nonce must be the one after what is known to be mined.
SafeNonce(r, nonce) ==
  nonce = IF Record(r).metadata = <<>> THEN 1 ELSE Record(r).metadata[1].nonce + 1

\* Nonce, balance, fees and gas of the metadata transaction.
PrepareMetadata(r, nonce) ==
  \E fee \in Fees :
    IF SafeNonce(r, nonce) /\ balance >= fee
    THEN run' = [run EXCEPT ![r].pc = "metadata",
                            ![r].tx = <<MetadataTx(nameOf[r], nonce, fee)>>]
    ELSE Fail(r)

CountMetadata(r) ==
  /\ At(r, "count")
  /\ \/ NoFault /\ UNCHANGED slips /\ PrepareMetadata(r, PendingNonce)
     \/ /\ Fault /\ PendingNonce # Len(mined)
        /\ slips' = slips \cup {"lag"}
        /\ PrepareMetadata(r, Len(mined))
  /\ UNCHANGED <<files, registryVars, nameOf>>

\* The metadata transaction is sent, and then recorded.
BroadcastMetadata(r) ==
  /\ At(r, "metadata")
  /\ Send(r, Save(r, WithMetadataTransaction(Record(r), Tx(r)), "settle"))
  /\ UNCHANGED <<files, nameOf>>

\* The receipt of the metadata transaction.
AwaitMetadata(r) ==
  /\ At(r, "settle")
  /\ \/ MetadataEvidence(Tx(r), nameOf[r]) /\ SuccessfulReceipt(Tx(r)) /\ Readback(r)
     \/ ~SuccessfulReceipt(Tx(r)) /\ Tx(r) \notin pool /\ Fail(r)
  /\ UNCHANGED <<files, registryVars, nameOf, faults, slips>>

----------------------------------------------------------------------------
\* The chain moves on: what is mined may revert.  A registration that did has used the
\* first nonce, and its receipt is refused by every later run (validateReceipt).
ChainStep ==
  /\ \/ Mine(TRUE) /\ NoFault /\ UNCHANGED slips
     \/ /\ Mine(FALSE) /\ Fault
        /\ slips' = slips \cup
             IF mined'[Len(mined')].tx.call = "register" THEN {"reverted"} ELSE {}
  /\ UNCHANGED <<files, run, nameOf>>

RunStep(r) ==
  \/ Initialize(r) \/ Start(r) \/ VerifyRegistry(r) \/ ReadFails(r) \/ Kill(r)
  \/ CreateCheckpoint(r) \/ FillCheckpoint(r)
  \/ ReadNonce(r) \/ BroadcastRegister(r) \/ AwaitRegister(r)
  \/ Finalize(r) \/ Recheck(r) \/ CountMetadata(r) \/ BroadcastMetadata(r) \/ AwaitMetadata(r)

Next == ChainStep \/ \E r \in Runs : RunStep(r)

Spec == Init /\ [][Next]_vars

----------------------------------------------------------------------------
Sent == pool \cup {mined[i].tx : i \in DOMAIN mined}
Recorded == {Content(n) : n \in {m \in Checkpoints : Readable(m)}}

TypeOK ==
  /\ \A n \in Names : files[n].how \in {"absent", "torn", "whole"}
  /\ \A r \in Runs :
       /\ run[r].file \in Names
       /\ At(r, "register") \/ At(r, "metadata") => run[r].tx # <<>>
       /\ At(r, "finalize") => Record(r).kind = "recovery"
  /\ \A i \in DOMAIN mined : mined[i].tx.nonce = i - 1
  /\ \A t \in pool : t.nonce >= Len(mined)

\* Nothing can register the agent that no checkpoint names: the intent is durable
\* before its transaction leaves, for every run and wherever it is killed.
IntentFirst ==
  \A t \in Sent : t.call = "register" =>
    \E record \in Recorded : record.register = t

\* However many runs finish the registration, the metadata is set once.
SetOnce ==
  \A i, j \in DOMAIN mined :
    mined[i].ok /\ mined[j].ok /\ mined[i].tx.call = "metadata" /\ mined[j].tx.call = "metadata"
      => i = j

\* A run that reports an identity has registered it and set its metadata, under
\* the name it was given.
CompletedIsTrue ==
  \A r \in Runs : At(r, "ok") =>
    \A call \in {"register", "metadata"} :
      \E i \in DOMAIN mined :
        mined[i].ok /\ mined[i].tx.call = call /\ mined[i].tx.name = nameOf[r]

\* What the next run needs to find to finish the registration: the first nonce, or the
\* registration it announced, waiting or mined with success; and then the metadata that
\* was sent last, or the nonce after it if it was reverted.
CanBeTakenUp ==
  LET n == Latest
      record == Content(n)
      nonce == IF record.metadata = <<>> THEN 1 ELSE record.metadata[1].nonce + 1
  IN IF n = 0 THEN PendingNonce = 0
     ELSE IF record.kind = "intent"
     THEN PendingNonce = 0 \/ (Known(record.register) /\ ~Settled(record.register, FALSE))
     ELSE IF record.metadata = <<>> THEN PendingNonce = 1
     ELSE /\ Known(record.metadata[1])
          /\ Settled(record.metadata[1], FALSE) => PendingNonce = nonce

\* The newest checkpoint was written to its end.
Untorn == Latest = 0 \/ Readable(Latest)

\* When no run is active, the newest checkpoint suffices to finish, whatever failed
\* and wherever a run was killed; the exceptions are a checkpoint torn by a kill, two
\* runs at once, a node that lags, a run lost between sending the metadata and
\* recording it, and a registration that was mined and reverted, which no run can
\* finish and none can send again.
Resumable ==
  (\A r \in Runs : ~Active(r)) /\ Untorn /\ slips = {} => CanBeTakenUp

=============================================================================
