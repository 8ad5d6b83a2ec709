-------------------------- MODULE RelayRefinement --------------------------
(***************************************************************************)
(* The relay, journal, crashes and restarts included, implements Mailbox.  *)
(*                                                                         *)
(* While it serves, the mailbox is what is in memory.  While it is down it *)
(* is what the journal would replay to, so a crash may at most make an     *)
(* append durable whose caller never heard of it, and reading the journal  *)
(* back is a stuttering step.                                              *)
(***************************************************************************)
EXTENDS Relay

\* Memory as a restart would rebuild it from these lines.
Replay(lines) ==
  LET after[n \in 0 .. Len(lines)] ==
        IF n = 0 THEN CreateSessionState(FALSE) ELSE ApplyRecord(after[n - 1], lines[n])
  IN after[Len(lines)]

Visible == IF phase = "serving" THEN session ELSE Replay(file.lines)
IsOpen  == IF phase = "serving" THEN known ELSE file.exists

RelayMailbox == INSTANCE Mailbox WITH
  Envelopes <- Submitted,
  open <- IF ~IsOpen THEN "no" ELSE IF Visible.authorized THEN "opted-in" ELSE "legacy",
  log  <- Visible.messages,
  box  <- Visible.slots

\* Every step of the relay is a mailbox step or invisible in the mailbox.
ImplementsMailbox == RelayMailbox!MSpec

============================================================================
