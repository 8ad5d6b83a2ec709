---------------------------- MODULE RecorderQueue ----------------------------
(***************************************************************************)
(* The retained actions of one role and their files (the directories queued,  *)
(* pending and running of harness/verified-release-action-recorder.mjs).       *)
(***************************************************************************)
EXTENDS Integers, Sequences, FiniteSets, SequencesExt

VARIABLE actions  \* the retained actions, in the order they were recorded

\* An action: the helper step, whether the recorder had it from the trusted channel, where
\* its file is, whether it is marked consumed, whether its time is up, the state of its
\* completion, and how far its trusted follow-up is.
Retained(step, trusted) ==
  [step |-> step, trusted |-> trusted, file |-> "queued", consumed |-> FALSE, expired |-> FALSE,
   state |-> "pending", work |-> "none", calls |-> 0]

In(list, place) == {a \in DOMAIN list : list[a].file = place}

\* promoteNextAction: the oldest queued action becomes pending when none is, and, unless
\* forced, none is running.
Promote(list, force) ==
  IF In(list, "pending") # {} \/ (~force /\ In(list, "running") # {}) \/ In(list, "queued") = {} THEN list
  ELSE LET next == CHOOSE a \in In(list, "queued") : \A b \in In(list, "queued") : a <= b
       IN [list EXCEPT ![next].file = "pending"]

Known(list, step) == \E a \in DOMAIN list : list[a].step = step

\* recordRetainedAction: a command that is retained is left as it is, and nothing is
\* promoted for it; any other is staged last and promoted if it can be.
RecordOne(list, step, trusted) ==
  IF Known(list, step) THEN list ELSE Promote(Append(list, Retained(step, trusted)), FALSE)

\* recordTrustedHelperSteps, and the steps of the stream: one after another.
Recorded(list, steps, trusted) ==
  LET after[i \in 0 .. Len(steps)] ==
        IF i = 0 THEN list ELSE RecordOne(after[i - 1], steps[i], trusted)
  IN after[Len(steps)]
=============================================================================
