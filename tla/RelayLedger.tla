---------------------------- MODULE RelayLedger ----------------------------
(***************************************************************************)
(* The relay's read-through to the ledger (src/relay/server.mjs, handleBlock, *)
(* handleVerify and handleAgent): blocks and receipts that a run it holds has  *)
(* anchored, read once with the relay's own token and then served from memory. *)
(* The token is read from a file or minted, on the first request that needs   *)
(* it; requests overlap while they wait for it and for the ledger.             *)
(***************************************************************************)
EXTENDS RelayDirectory

CONSTANTS
  Visitors,      \* readers of the page, one request each at a time
  Anchors,       \* what a run may have anchored: records [height, id]
  Heights,       \* what a visitor may ask for
  MaxRequests    \* bound: requests of all the visitors

ASSUME LedgerAssumption ==
  /\ IsFiniteSet(Visitors)
  /\ \A s \in Sessions : \A x \in Snapshots[s] : x.anchors \subseteq Anchors
  /\ MaxRequests \in Nat

VARIABLES
  token,      \* cachedLedgerToken: is there one
  cache,      \* blockCache: the keys answered before, with the anchor they are shown with
  asking,     \* each visitor's request, as <<request>>
  requests,
  mints,      \* history: tokens minted by this process
  rivals,     \* history: requests that looked for a token while another was looking
  spent,      \* history: the keys read from the ledger, but for agents
  published   \* history: the anchors in snapshots that were put

ledgerVars == <<token, cache, asking, requests, mints, rivals, spent, published>>

vars == <<directoryVars, ledgerVars>>

\* A block is asked for by its height, a receipt by its id, an agent by its number.
BlockKey(height) == [of |-> "block", x |-> height]
VerifyKey(id) == [of |-> "verify", x |-> id]
AgentKey == [of |-> "agent", x |-> 0]

Keys == {BlockKey(h) : h \in Heights} \cup {VerifyKey(a.id) : a \in Anchors} \cup {AgentKey}

NamedBy(key, anchor) ==
  CASE key.of = "block"  -> anchor.height = key.x
    [] key.of = "verify" -> anchor.id = key.x
    [] OTHER             -> FALSE

Init ==
  /\ DirectoryInit
  /\ token = FALSE /\ cache = {} /\ mints = 0 /\ rivals = 0
  /\ spent = {} /\ published = {} /\ requests = 0
  /\ asking = [v \in Visitors |-> <<>>]

\* The anchors of the sessions in memory: only a snapshot of the older schema keeps
\* them where these two look.
Shown ==
  UNION {held[s][1].snapshot[1].anchors :
           s \in {t \in Sessions : /\ Held(t) /\ held[t][1].snapshot # <<>>
                                   /\ held[t][1].snapshot[1].schema = "v1"}}

\* A faulty variant: any anchor that is shown will do.
FindAnyAnchored(key) == Shown

\* findAnchoredBlock, findAnchorByLedgerId: the first there is.
FindAnchored(key) == {anchor \in Shown : NamedBy(key, anchor)}

----------------------------------------------------------------------------
At(v, at) == asking[v] # <<>> /\ asking[v][1].at = at
Goto(v, at) == asking' = [asking EXCEPT ![v][1].at = at]
Answer(v) == asking' = [asking EXCEPT ![v] = <<>>]

\* The request up to its first await: it is answered from memory, refused, or waits
\* for a client of the ledger with the anchor it found.
Ask(v, key) ==
  /\ asking[v] = <<>> /\ requests < MaxRequests /\ requests' = requests + 1
  /\ LET request(anchor) == [at |-> "client", key |-> key, anchor |-> anchor]
     IN IF key.of = "agent" THEN asking' = [asking EXCEPT ![v] = <<request(None)>>]
        ELSE IF \E entry \in cache : entry.key = key THEN UNCHANGED asking
        ELSE IF FindAnchored(key) = {} THEN UNCHANGED asking
        ELSE \E anchor \in FindAnchored(key) : asking' = [asking EXCEPT ![v] = <<request(anchor)>>]
  /\ UNCHANGED <<token, cache, mints, rivals, spent, published, directoryVars>>

\* Waiting for the file, or for the service that mints a token.
Looking(v) == At(v, "file") \/ At(v, "mint")

\* ledgerClientFor, and ledgerToken up to its first await: a token, or the file is read,
\* whether or not another request is looking for a token.
NeedToken(v) ==
  /\ At(v, "client")
  /\ Goto(v, IF token THEN "ledger" ELSE "file")
  /\ rivals' = IF ~token /\ \E w \in Visitors : Looking(w) THEN rivals + 1 ELSE rivals
  /\ UNCHANGED <<token, cache, requests, mints, spent, published, directoryVars>>

\* There may be a file by now, or none that can be read.
ReadTokenFile(v) ==
  /\ At(v, "file")
  /\ \/ token' = TRUE /\ Goto(v, "ledger")
     \/ Goto(v, "mint") /\ UNCHANGED token
  /\ UNCHANGED <<cache, requests, mints, rivals, spent, published, directoryVars>>

\* cachedLedgerToken is set.
KeepToken == token' = TRUE

\* mintDemoToken: a token, or any refusal of the service, which ends the request.
Mint(v) ==
  /\ At(v, "mint")
  /\ \/ KeepToken /\ mints' = mints + 1 /\ Goto(v, "ledger")
     \/ Answer(v) /\ UNCHANGED <<token, mints>>
  /\ UNCHANGED <<cache, requests, rivals, spent, published, directoryVars>>

\* The ledger is read.  The answer is kept with the anchor that was found before; for
\* a receipt it must be the one that was asked for (assertCrossPartyVerification).
\* An agent's answer is not kept, nor is a failed read.
ReadLedger(v) ==
  /\ At(v, "ledger")
  /\ LET request == asking[v][1]
         kept == IF request.key.of = "agent" THEN {}
                 ELSE {[key |-> request.key, anchor |-> request.anchor]}
     IN /\ spent' = spent \cup {entry.key : entry \in kept}
        /\ \/ cache' = {entry \in cache : entry.key # request.key} \cup kept
           \/ UNCHANGED cache
  /\ Answer(v)
  /\ UNCHANGED <<token, requests, mints, rivals, published, directoryVars>>

Step(v) ==
  \/ \E key \in Keys : Ask(v, key)
  \/ NeedToken(v) \/ ReadTokenFile(v) \/ Mint(v) \/ ReadLedger(v)

\* A step of the directory, and what is published by it.
Hold ==
  /\ DirectoryStep
  /\ published' = published \cup
       UNION {journal'[s][1].snapshot[1].anchors :
                s \in {t \in Sessions : journal'[t] # <<>> /\ journal'[t][1].snapshot # <<>>}}
  /\ UNCHANGED <<token, cache, asking, requests, mints, rivals, spent>>

\* What a process keeps of the ledger dies with it.
RestartAll ==
  /\ Restart
  /\ token' = FALSE /\ cache' = {} /\ mints' = 0 /\ rivals' = 0
  /\ asking' = [v \in Visitors |-> <<>>]
  /\ UNCHANGED <<requests, spent, published>>

Next == Hold \/ RestartAll \/ \E v \in Visitors : Step(v)

Spec == Init /\ [][Next]_vars

----------------------------------------------------------------------------
TypeOK ==
  /\ \A s \in Sessions : Held(s) <=> s \in Range(order)
  /\ IsInjective(order)
  /\ \A v \in Visitors : asking[v] # <<>> => asking[v][1].key \in Keys

\* The alias that the invitation and the projector follow never goes back to a run
\* that began earlier, nor to none, through failed creations, changed snapshots and
\* restarts; and the run list starts with a run of the same moment
\* (newestPublishedSession, handleRuns, applyJournalRecord).
NewestStays ==
  [][Discovery("current") # None =>
       /\ Monitored("current")' = Discovery("current")' /\ Discovery("current")' # None
       /\ StartedAt(Newest)' >= StartedAt(Newest)
       /\ StartedAt(Head(RunList))' = StartedAt(Newest)']_vars

\* The relay's token is spent on what the runs it held have anchored; what it answers
\* from memory is shown with an anchor of a run, of that block or receipt; and a token
\* is minted at most once per restart of the relay (handleBlock, handleVerify,
\* ledgerToken).  The code says the last of itself without an exception, and there is one:
\* nothing keeps apart the requests that look for the first token, and each that does so
\* while another is looking may mint one more.
SpentOnRuns ==
  /\ \A key \in spent : \E anchor \in published : NamedBy(key, anchor)
  /\ \A entry \in cache : entry.anchor \in published /\ NamedBy(entry.key, entry.anchor)
  /\ mints <= 1 + rivals

=============================================================================
