-------------------------- MODULE OutputDirectory --------------------------
(***************************************************************************)
(* The private directory of a role (src/core/runner.mjs and evidence.mjs):  *)
(* a write-intent marker for each transition the role anchors, and the      *)
(* party result, which is complete once its completion marker is there.     *)
(*                                                                         *)
(* Two processes run for one role share its directory, and what is in it    *)
(* outlives them.                                                          *)
(***************************************************************************)
EXTENDS PartyDocuments

VARIABLES
  marker,     \* the write-intent marker of each slot
  package     \* how far the party result of each role is, and its content

directoryVars == <<marker, package>>

Roles == {"payer", "payee"}

Absent == [how |-> "absent", digest |-> <<>>]
Torn == [how |-> "torn", digest |-> <<>>]
Written(digest) == [how |-> "written", digest |-> <<digest>>]

Stages == {"none", "json", "both", "complete"}
NoPackage == [stage |-> "none", result |-> <<>>]

DirectoryInit ==
  /\ marker = [slot \in Slots |-> Absent]
  /\ package = [role \in Roles |-> NoPackage]

----------------------------------------------------------------------------
\* inspectMarker: absent, this write's, another write's, or no marker at all.
InspectMarker(message) ==
  LET m == marker[message.kind]
  IN CASE m = Absent -> "absent"
       [] m = Written(message) -> "mine"
       [] m = Torn -> "unreadable"
       [] OTHER -> "other"

\* createWriteIntentMarker opens the marker, which must not exist...
OpenMarker(slot) ==
  /\ marker[slot] = Absent
  /\ marker' = [marker EXCEPT ![slot] = Torn]
  /\ UNCHANGED package

\* ...and then writes and syncs it.
FillMarker(message) ==
  /\ marker' = [marker EXCEPT ![message.kind] = Written(message)]
  /\ UNCHANGED package

----------------------------------------------------------------------------
\* assertAbsent: nothing may be published here before.
NothingPublished(role) == package[role] = NoPackage

\* A faulty variant: a copy instead of a link, which replaces what is there.
CopyJson(role, result) ==
  /\ package' = [package EXCEPT ![role] = [stage |-> "json", result |-> <<result>>]]
  /\ UNCHANGED marker

\* link: fails on a name that exists.
LinkJson(role, result) ==
  /\ package[role].stage = "none"
  /\ package' = [package EXCEPT ![role] = [stage |-> "json", result |-> <<result>>]]
  /\ UNCHANGED marker

LinkMarkdown(role) ==
  /\ package[role].stage = "json"
  /\ package' = [package EXCEPT ![role].stage = "both"]
  /\ UNCHANGED marker

\* completionMarkerBytes, written last.
Complete(role) ==
  /\ package[role].stage = "both"
  /\ package' = [package EXCEPT ![role].stage = "complete"]
  /\ UNCHANGED marker

IsComplete(role) == package[role].stage = "complete"

DirectoryTypes ==
  /\ \A slot \in Slots : marker[slot].how \in {"absent", "torn", "written"}
  /\ \A role \in Roles :
       /\ package[role].stage \in Stages
       /\ package[role].stage = "none" <=> package[role].result = <<>>

=============================================================================
