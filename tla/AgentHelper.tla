---------------------------- MODULE AgentHelper ----------------------------
(***************************************************************************)
(* The pinned helper of one role (src/agent-cli): a process that carries out  *)
(* one operation in the role's state directory, prints one result and exits.  *)
(* The directory holds a wallet and a policy, each created once and whole or   *)
(* torn; signing reads the clock before and after every signature.            *)
(*                                                                         *)
(* Not kept apart: what a document says beyond its times and the policy it is  *)
(* bound to, whose agreement is the field "sound"; the steps of a registration *)
(* are those of module Registration.                                         *)
(***************************************************************************)
EXTENDS Integers, Sequences, FiniteSetsExt

VARIABLES
  now,     \* the machine's clock
  dir,     \* the state directory: wallet, policy, identity
  helpers  \* the runs of the helper, in the order they were started

Operations == {"init", "policy", "inspect", "register", "sign", "verify-certificate"}
PayloadOperations == {"policy", "sign", "verify-certificate"}
Commitments == {"proposal", "acceptance"}

\* A policy: the role it is for, how long an agreement under it is valid, and
\* whether it asks for a registered identity.
Policy(role, validFor, identity) == [role |-> role, validFor |-> validFor, identity |-> identity]

EmptyDir == [wallet |-> "absent", policy |-> "absent", committed |-> <<>>, identity |-> FALSE]

Whole(file) == dir[file] = "whole"

\* A directory a helper may be started over: what is committed is what its policy says.
Directory(d) ==
  /\ DOMAIN d = DOMAIN EmptyDir
  /\ d.wallet \in {"absent", "torn", "whole"} /\ d.policy \in {"absent", "torn", "whole"}
  /\ d.policy = "whole" => d.committed = <<d.committed[1]>>

----------------------------------------------------------------------------
\* The first rule that applies, "ok" when none does.
FirstOf(rules) ==
  LET hits == {i \in DOMAIN rules : rules[i][1]}
  IN IF hits = {} THEN "ok" ELSE rules[Min(hits)][2]

\* Which parts a signing request carries depends on what is to be signed.
Complete(request) ==
  /\ request.sound
  /\ (request.what \in Commitments) = (request.window # <<>>)
  /\ (request.what = "acceptance") = (request.proposal # <<>>)
  /\ (request.what = "evidence") = (request.descriptor # <<>>)

\* verifyPinnedHostSessionKey: the host's key is valid now and not past the session.
KeyHolds(request, t) == t \in request.keyFrom .. request.keyUntil - 1 /\ request.keyUntil <= request.deadline

\* assertPayloadBinding: the window of a commitment is open, inside the session and as
\* long as the policy allows, a proposal's exactly so.
WindowFits(request, policy, t) ==
  LET window == request.window[1]
      length == window.expires - window.issued
  IN /\ window.issued <= t
     /\ window.expires <= request.deadline
     /\ length \in 1..policy.validFor
     /\ request.what = "proposal" => length = policy.validFor

\* H-REQ-02: the carried proposal is open and shares the acceptance's expiry.
ProposalAgrees(request, policy, t) ==
  LET proposal == request.proposal[1]
      window == request.window[1]
  IN /\ proposal.sound
     /\ t \in proposal.issued .. proposal.expires - 1
     /\ proposal.expires = proposal.issued + policy.validFor
     /\ proposal.expires = window.expires
     /\ proposal.issued <= window.issued

\* validateAgentSigningRequest, against the committed policy and one clock reading.
CheckedRequest(request, policy, t) ==
  FirstOf(<<
    <<~Complete(request) \/ request.policy # policy, "invalid">>,
    <<t >= request.deadline, "expired">>,
    <<~KeyHolds(request, t), "invalid">>,
    <<request.descriptor # <<>> /\ request.descriptor[1] > request.deadline, "invalid">>,
    <<request.window # <<>> /\ t >= request.window[1].expires, "expired">>,
    <<request.window # <<>> /\ ~WindowFits(request, policy, t), "invalid">>,
    <<request.proposal # <<>> /\ ~ProposalAgrees(request, policy, t), "invalid">> >>)

\* signingBounds, and the checkpoint's own expiry where there is one.
Bounds(request, checkpoint) ==
  {request.deadline, request.keyUntil} \cup {request.window[i].expires : i \in DOMAIN request.window}
    \cup {checkpoint[i] : i \in DOMAIN checkpoint}

\* releasable.
Releasable(request, checkpoint) == \A bound \in Bounds(request, checkpoint) : now < bound

\* The commitment checkpoint ends with the agreement's length or the session.
CheckpointExpiry(request, policy) ==
  IF now + policy.validFor < request.deadline THEN now + policy.validFor ELSE request.deadline

----------------------------------------------------------------------------
\* One run of the helper: what was asked of it, how far it is, when it last read the
\* clock, when its checkpoint expires, and what it printed.

Spawned(call, entry) ==
  [call |-> call, entry |-> entry, at |-> "start", read |-> now,
   checkpoint |-> <<>>, out |-> "none"]

Step(k) == helpers[k].entry.step
Running(k) == helpers[k].out = "none"
AtPlace(k, place) == helpers[k].at = place

Becomes(k, process) == helpers' = [helpers EXCEPT ![k] = process]
MovesTo(k, place) == Becomes(k, [helpers[k] EXCEPT !.at = place, !.read = now])
Prints(k, out) == Becomes(k, [helpers[k] EXCEPT !.out = out, !.read = now])

\* writePrivateFile creates the file, exclusively, and then fills it.
Creates(k, file) == dir[file] = "absent" /\ dir' = [dir EXCEPT ![file] = "torn"] /\ MovesTo(k, "write")

\* initializeWallet.
InitStep(k) ==
  \/ AtPlace(k, "start") /\ Creates(k, "wallet")
  \/ AtPlace(k, "start") /\ dir.wallet # "absent" /\ Prints(k, "failed") /\ UNCHANGED dir
  \/ AtPlace(k, "write") /\ dir' = [dir EXCEPT !.wallet = "whole"] /\ Prints(k, "done")

\* A faulty variant: a policy that is there already is replaced.
PolicyReplaced(k) ==
  /\ AtPlace(k, "start") /\ Whole("wallet")
  /\ dir' = [dir EXCEPT !.policy = "whole", !.committed = <<Step(k).policy>>] /\ Prints(k, "done")

\* inspectWallet, then commitAgentPolicy.
PolicyStep(k) ==
  \/ AtPlace(k, "start") /\ Whole("wallet") /\ Creates(k, "policy")
  \/ /\ AtPlace(k, "start") /\ (~Whole("wallet") \/ dir.policy # "absent")
     /\ Prints(k, "failed") /\ UNCHANGED dir
  \/ /\ AtPlace(k, "write")
     /\ dir' = [dir EXCEPT !.policy = "whole", !.committed = <<Step(k).policy>>] /\ Prints(k, "done")

\* The wallet and, from register on, the policy are read; a torn file is no file.
Ready(k) ==
  /\ Whole("wallet") /\ dir.policy # "torn"
  /\ Step(k).op # "inspect" => Whole("policy")

\* The party of the committed policy: registered where the policy asks for it.
Party == dir.committed[1].identity => dir.identity

\* registerWalletIdentity, where the policy asks for an identity; the run may end
\* between the registration and the answer.
RegisterStep(k) ==
  \/ /\ AtPlace(k, "start") /\ dir.committed[1].identity
     /\ dir' = [dir EXCEPT !.identity = TRUE] /\ MovesTo(k, "write")
  \/ /\ AtPlace(k, "start") /\ ~dir.committed[1].identity
     /\ Prints(k, "failed") /\ UNCHANGED dir
  \/ AtPlace(k, "write") /\ Prints(k, "done") /\ UNCHANGED dir

\* executeAgentSigningRequest: each step reads the clock once, and past a bound ends
\* the run; a commitment is signed first, then its checkpoint.
SignStep(k) ==
  LET request == Step(k).request
      policy == dir.committed[1]
      checked == CheckedRequest(request, policy, now)
      onTime == Releasable(request, helpers[k].checkpoint)
      expiry == CheckpointExpiry(request, policy)
  IN /\ UNCHANGED dir
     /\ \/ AtPlace(k, "start") /\ checked # "ok" /\ Prints(k, checked)
        \/ AtPlace(k, "start") /\ checked = "ok" /\ MovesTo(k, "checked")
        \/ ~AtPlace(k, "start") /\ ~onTime /\ Prints(k, "expired")
        \/ AtPlace(k, "checked") /\ onTime /\ MovesTo(k, "signing")
        \/ /\ AtPlace(k, "signing") /\ onTime /\ request.what \notin Commitments
           /\ Prints(k, "done")
        \/ /\ AtPlace(k, "signing") /\ onTime /\ request.what \in Commitments
           /\ Becomes(k, [helpers[k] EXCEPT !.at = "signed", !.read = now, !.checkpoint = <<expiry>>])
        \/ AtPlace(k, "signed") /\ onTime /\ MovesTo(k, "checkpointing")
        \/ AtPlace(k, "checkpointing") /\ onTime /\ Prints(k, "done")

\* verifyAgentHandshakeV2Result.
VerifyStep(k) ==
  LET request == Step(k).request
  IN /\ Prints(k, IF request.sound /\ Party /\ now < request.deadline THEN "done" ELSE "failed")
     /\ UNCHANGED dir

\* What dispatch does for an operation that reads the directory.
ReadyStep(k) ==
  \/ Step(k).op = "inspect" /\ Prints(k, "done") /\ UNCHANGED dir
  \/ Step(k).op = "register" /\ RegisterStep(k)
  \/ Step(k).op = "sign" /\ SignStep(k)
  \/ Step(k).op = "verify-certificate" /\ VerifyStep(k)

\* dispatch: one step of the k-th run.
Dispatch(k) ==
  \/ Step(k).op = "init" /\ InitStep(k)
  \/ Step(k).op = "policy" /\ PolicyStep(k)
  \/ Step(k).op \notin {"init", "policy"} /\ ~Ready(k) /\ Prints(k, "failed") /\ UNCHANGED dir
  \/ Step(k).op \notin {"init", "policy"} /\ Ready(k) /\ ReadyStep(k)

\* The signer, the disk or the network fails, or the process is killed.
Stops(k) == Prints(k, "failed") /\ UNCHANGED dir
=============================================================================
