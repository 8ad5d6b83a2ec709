---------------------------- MODULE PrivateFiles ----------------------------
(***************************************************************************)
(* The private files of one wallet (src/core/private-path.mjs): the wallet  *)
(* itself and the numbered checkpoints of its registration                  *)
(* (wallet-bridge.mjs).  A file is created exclusively, then written and     *)
(* synced; whoever dies in between leaves a file nobody can read.            *)
(***************************************************************************)
EXTENDS Integers

CONSTANTS
  MaxFiles   \* bound: checkpoints that are written

ASSUME FilesAssumption == MaxFiles \in Nat \ {0}

VARIABLES files

\* The wallet is file 0; checkpointName gives the checkpoints their numbers.
WalletFile == 0
Checkpoints == 1..MaxFiles
Names == {WalletFile} \cup Checkpoints

Absent == [how |-> "absent", content |-> <<>>]
Torn == [how |-> "torn", content |-> <<>>]
Whole(record) == [how |-> "whole", content |-> <<record>>]

FilesInit == files = [n \in Names |-> Absent]

Exists(n) == files[n] # Absent

\* readPrivateText: an empty file is no private file.
Readable(n) == files[n] \notin {Absent, Torn}

Content(n) == files[n].content[1]

\* writePrivateFile up to the exclusive open.
Create(n) == ~Exists(n) /\ files' = [files EXCEPT ![n] = Torn]

\* writePrivateFile, once what it wrote is synced and checked.
Fill(n, record) == files' = [files EXCEPT ![n] = Whole(record)]

\* unlinkCreatedTarget: the file is taken away, or left as it is, empty or whole,
\* when its directory is no longer the one it was created in.
GiveUp(n, record) ==
  \E left \in {Absent, Torn, Whole(record)} : files' = [files EXCEPT ![n] = left]

\* latestCheckpoint: the newest number there is, 0 when there is none.
Latest ==
  CHOOSE n \in Names :
    /\ n = 0 \/ Exists(n)
    /\ \A m \in Checkpoints : Exists(m) => m <= n

=============================================================================
