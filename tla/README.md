# Clockchain handshake: TLA+ models, checks and proofs

This directory holds the formal models of the Clockchain handshake program: TLA+
modules translated from the code under `src/`, the TLC configurations that check
them on small instances, and theorems about them with proofs checked by TLAPS.
`PROJECT.json` is the index: components, runs, mutants, the map from definitions to
source lines, findings, hazards and theorems. Paths below are relative to the
program's `src/src/` unless they start with `src/`.

## 1. The system

Two agents (an *initiator*, who pays, and a *responder*, who asks to be paid) and a
*host* conduct a handshake without a shared account: they exchange signed messages
through a rendezvous *relay*, register fresh on-chain identities with gas the host
gives them, anchor three commitments on a ledger, and the host publishes a verdict
and a result certificate. No payment is ever executed by this program.

| component | state it keeps | operations | interacts with | hard because |
|---|---|---|---|---|
| relay session (`relay/server.mjs`) | message log, slots, sender bindings in memory; an append-only journal on disk | create, post, put, poll, replay | everybody, over HTTP | concurrent requests, crash in mid-append, long polls, clock |
| relay run directory (same file) | map of sessions, ids being created | list, `current` alias | the monitor pages | ordering after restart |
| relay ledger read-through (same file) | token, cache of answers | block, verify, agent | ledger service, visitors | overlapping requests, changing snapshots |
| relay client (`relay/client.mjs`) | none | signed post, poll, retry, claim a role | relay | lost answers, retries, deadlines |
| session roles and host loop (`roles/`, `src/bin/`) | seats, messages taken, party agents; each kit's identity and what it read of its peer | claim a seat, fund seats, register, offer a mandate, bind terms, report anchors, certify | relay, wallet, registry, ledger | rivals for a seat, messages that come early, a host and kits that read one log by themselves |
| v2 host session (`agent-handshake/v2/host.mjs`, `production-adapter.mjs`) | phase of one session, its deadline | enroll, invite, fund, verify, publish, fail | relay, budget, wallet, ledger | a deadline that can pass between any two awaits |
| sender bindings (`agent-handshake/v2/relay-enrollment.mjs`) | role to key bindings re-derived by the host | observe, admit, freeze | relay messages | agreement with the relay's own bindings |
| funding budget (`agent-handshake/v2/funding-budget.mjs`) | a shared ledger file of reservations | reserve | v2 host | queueing, concurrent processes, compaction, time windows |
| funding journal (`core/funding/`) | a journal file of seat transfers | broadcast intent, observe, confirm | wallet, chain | crash between broadcast and record |
| registration (`core/registration.mjs`) | intent and recovery checkpoints | register, set metadata, recover | chain, private files | crash between broadcast and checkpoint |
| runner (`core/runner.mjs`), clockchain client (`core/clockchain.mjs`) | run checkpoints; pending anchors | run a role; submit, poll, verify | ledger service | resumption, retries |
| verdict, evidence, documents (`core/`, `agent-handshake/`) | a published result package | validate, publish, verify against the ledger | runner, ledger service | reads that are not one moment's |
| wallet bridge, private files (`core/`) | wallet and numbered checkpoint files | create, register, inspect, sign | registration, disk | torn files, two runs of one wallet |
| local adapter, agent CLI (`local-adapter/`, `agent-cli/`) | staged steps; a role's state directory | tool calls, authorise a step; init, policy, register, sign | the agent, the coordinator | overlapping calls, repeated steps, clock |
| release harness (`harness/`) | queued, pending and running action files | record, promote, run, complete | wrappers, coordinator | races of processes, lost answers |
| monitor, agent CLI, demos, launchers, entry points | none of consequence | rendering, argument parsing, process start | | presentation and I/O |

What makes each of the first components correct:

* **relay session** - the log is numbered 1, 2, 3 ... without duplicate or gap; what
  it acknowledged or served survives every restart; memory is what a restart would
  rebuild; an opted-in log authorises its own senders; no reader sleeps on a message
  that is there; an expired enrollment stays expired; every request is answered.
* **run directory and ledger read-through** - `current` never goes back to an older
  run; the relay's token is spent on what its runs anchored.
* **relay client** - a post reported as done is in the log, once unless an
  answer was lost; messages keep their sender's order; a role is claimed once; every
  call ends.
* **session roles and host loop** - host, payer and requestor mean the same two parties;
  one kit of a role is paid and no other spends anything; unless something fails, the
  session ends with a certificate both parties hold; what is told to the board only must
  not decide that (it does: section 11).
* **funding budget** - the spending windows hold for every interleaving of
  reservations; a granted reservation is durable; no seat is granted twice.
* **funding journal** - what was recorded stays, and what is recorded happened.
* **registration** - nothing is sent that no checkpoint names, the metadata is set once,
  and the newest checkpoint suffices to finish.
* **runner and verdict** - no write without its durable marker, one anchor per slot, a
  published result is final, and an authorisation means what it says.
* **v2 host session** - it ends, once and in one way on every channel; no funds leave
  after the stop; each role is one client.
* **local adapter** - staged steps run one at a time in order, what is done stays done,
  nothing is run or released late, every call is answered.
* **release harness** - actions run one at a time in order, none is stranded, and what is
  reported has been followed up.

## 2. Plan

Done, in this order: `Relay` with the abstract `Mailbox` and their proofs;
`FundingBudget`; `RelayClient` over `Mailbox`; `Handshake` (ledger service, client,
runner, evidence, verifier) with proofs; `Registration` over `Registry` and
`PrivateFiles` with proofs; `HostSession` with the sender bindings, the monitor and the
funding steps, with proofs; `LocalAdapter` with the helper, with proofs; `ActionRecorder`
with its queue and follow-up, with proofs; `RelayDirectory` and `RelayLedger`, with proofs;
`BilateralSession` with proofs.

Left, most important first:

1. The v1 agent handshake, whose host is the earlier form of `HostSession`.
2. The composition of `HostSession` with `FundingBudget`: the first takes a reservation
   as granted or refused, the second is what decides.

## 3. The relay

### Modules

| module | what it is |
|---|---|
| `Relay` | one session of the relay: state, one action per handler step, properties |
| `MCRelay` | its instances: two clients, one reader, host key `h`, party keys `k1`, `k2` |
| `Mailbox` | what the session promises, with no journal, lock or crash |
| `RelayRefinement` | `Relay` implements `Mailbox` |
| `RelayProofs` | type correctness, no lost wake-up, expiry; sender binding under every file-system failure; gapless log and durability; the relay implements `Mailbox`; the theorems about the run directory and the ledger read-through (below) |

### State and actions

`session` is the object `createSessionState` returns; `known` says whether its id is in
the sessions map and `creating` holds a registration whose journal append is under
way (`pendingSessionIds`). `file` is the journal: its complete lines and whether the
last one is unterminated. `queue`, `inflight` and `writing` are the promise chain of
`withSessionLock`: the requests that asked for the lock, in order, and the record the
head of the queue is appending. `highest` is the mark of the non-decreasing clock,
`polls` the waiters. `told` is a history variable: the envelopes ever acknowledged
to a sender or served to a reader.

A handler is split exactly where it awaits. `ReceivePost` is everything up to the
lock (body, shape, signature, freshness on a first clock reading); `Admit` or
`Refuse` is the locked section up to the append; `CompletePost` is the append's
success with everything that follows it synchronously (memory, waiters, answer), and
`FailAppend` its failure. `Crash` loses all memory and cuts an append under way
short; `ReplayLine` and `FinishReplay` are `loadExistingSessions`, which ends before
the server listens.

Messages are abstracted to role, key, kind (enrollment or not) and sequence number;
a valid enrollment is one whose role and key the coordinator vouched for. What a
failed or interrupted append leaves in the file is a parameter (`FailLeaves`,
`CrashLeaves`): nothing, a fragment of the line, the line without its newline, or the
whole line.

### Runs

| run | what it shows | bounds |
|---|---|---|
| `RelayDurable` (module `MCRelay`) | nothing told is lost, sender binding, no lost wake-up, expiry, refinement of `Mailbox`, requests are answered and restarts end | both kinds of session, 2 clients, 1 reader, 5 kinds of post, one slot, clock readings 0..2 that may step back, sequence numbers to 2, 3 journal lines, 1 crash |
| `RelayTornLine` | *violated*: see findings | torn lines, 2 crashes |

The bounds are the smallest in which the interesting cases meet: two enrollments
racing for a role and one key trying both roles, a post queued behind another's
append, a crash in mid-append followed by further posts and reads. The bounded quantities are those
the theorems then let range over all values. The configurations switch deadlock
checking off because the bounds themselves (sequence numbers, journal lines) stop
the model; `RequestsAnswered` is what rules out a stuck relay.

Fairness: `FairSpec` asks weak fairness of `Work` (promises settle, appends return,
the lock passes on) and of `Restart`. That is what Node's event loop and a file
system that answers give; nothing is assumed of clients, readers or crashes.
Symmetry is used for the two clients where no liveness property is checked
(`RelayTornLine`).

### Proofs

`RelayProofs` proves, of the session, `TypeOK` together with `PhaseInv` (the lock is used only while the
session is open, an append under the lock has a request to answer), then
`NoLostWakeup` and `ExpiredStaysExpired`, for every value of the constants.

It then proves `LogGapless` and `ToldSurvives` under the named assumption
`CleanWrites`: a failed append leaves nothing in the file, an interrupted one
nothing or the whole line. Neither property is inductive, because what memory holds
after a restart depends on the file. The invariant `DurabilityInv` says that the
journal could have been written by admitting its lines one at a time (`Journal`) and
that memory reflects a prefix of it (`Reflects`): all of it while the relay serves,
the lines read so far while it restarts. That the log is gapless is proved only (`GaplessLog`): the
refinement of `Mailbox`, which appends the next number, already checks it. The central lemma `ApplyReflects` (applying
the next line to a session that reflects the lines before it) serves both replay
and the admission of a request. The violated run shows that `CleanWrites` cannot be
dropped.

`SenderBound` is proved with no such assumption: replay repeats the binding
check on every line, so whatever survives still authorises its own senders. Its
invariant says that the session's bindings are exactly the enrollments of its log
and that no session-created line follows another line.

`Implements` proves, under `CleanWrites`, that every step of the relay is a step of the
mailbox or invisible in it. The mapping shows the memory of a relay that serves and the
replay of its journal otherwise. `ReplayIs` proves that memory is the replay of the lines
read: the recursive function exists, is one, and takes one line more at a time
(`ReplayOneMore`), by induction on a set of numbers (`Inducts`). While it serves, only the
completion of a create, a post or a put shows, and `AnswerVetted` says that what is then
admitted was checked when the lock was taken. A crash may make the line under way durable,
which shows as one post or put nobody heard of (`Lands`); replay and restart show nothing.
That an opted-in log authorises the next line (`LogAuthorises`) is where the mailbox's own
condition meets the relay's bindings: they are the enrollments of the log. Only liveness
(`RequestsAnswered`) is model-checked.

### Finding and observation

* **A torn line swallows the next one** (finding). `replayJournal` skips a partial trailing
  line but does not terminate it. The first append after the restart lands on the
  same line, the fused line does not parse, and the restart after that drops a
  message that had been acknowledged and served (`RelayTornLine`).
* **A rejected append may have landed** (observation; no run). If `appendFile` fails after
  its bytes reached the file, memory does not advance, the next post takes the same
  sequence number, and a restart serves both: the duplicate the session lock exists to
  rule out (`server.mjs:769-771` and `:560-563`). The theorem `SendersBound` allows such
  appends: sender binding survives them.

### Not modelled

A journalled authorization that no longer validates (it refuses everything); request
bodies that never arrive; other sessions, which share no state with this one; a
crash while the journal is being replayed (replay writes nothing, so it only starts
again); static files.

### The run directory and the ledger read-through

`RelayDirectory` holds the sessions of a process in the order of the map (`order`,
`held`), what a restart would read of each (`journal`) and the creations whose first
line is being appended (`opening`). An append is one step here, for `Relay` has the steps
inside a session; one that fails leaves nothing or the whole line. `Newest`, `RunList`,
`Discovery` and `Monitored` are what the handlers answer. `RelayLedger` adds visitors
whose requests (`asking`) wait for the token, read from its file or minted, and for the
ledger, with everything else happening in between; `cache` is `blockCache`.

`RelayLedger` (run and module) checks that the alias `current` never goes back
(`NewestStays`) and that the token is spent on what some run of this relay has
published, shown with an anchor that names it, and is minted once since a restart, with
one exception, which the property counts: a request that looks for a token while another
one is looking (`rivals`) may mint one more (`SpentOnRuns`). Bounds: an old run journalled without a time and a new one,
two snapshots of the new one (a v2 snapshot keeps its anchors under another name, so
they are never served), 2 times, 2 snapshots put, 1 restart, 2 symmetric visitors with 3
requests. Safety only; it stops at its bounds, so deadlock is not checked.

`RelayProofs` proves both for any runs, snapshots, visitors and restarts, through an instance
(`Page`) with constants and variables of its own, from `DirectoryAssumption` and
`LedgerAssumption` (finitely many runs without a time and visitors; the snapshots of one run
agree on when it began, as `timing.createdAtMs` does). The invariant `RunsInv` says that the map
lists the runs held, each once, and that a restart would read the same beginning of each
(`RunsOK`); that what is shown was published, so that a request goes on with an anchor that
stays published when the snapshot is replaced (`PublishedOK`, `AskingOK`); and that the mints
and the visitors who may still mint are together at most one more than the rivals, because
whoever starts looking without being a rival finds nobody looking, and nothing minted since
the restart or the token kept (`MintsOK`). For `NewestStays`, a listed run stays listed and is not
told to have begun earlier (`StaysListed`), and `NewestIs` says that the alias, and the head of
the run list, began as late as any run listed: both are choices in a strict total order, and
`Sorts` and `First` show, by counting what precedes each element, that a finite set can be
listed in such an order.

Observations: of two runs of one moment the list shows the first inserted first, while
`current` takes the last (`>=`), against the comment that both agree (`:895-897`); after a
restart, ties follow the directory's order; `publishedAtMs` is `Date.now()`, so a run opened
after the clock was set back is not current; the comment that a token is minted at most
once per relay restart (`:1016-1019`) does not hold when the first requests overlap:
`ledgerToken` caches the token after the mint and not the promise of it, so each of them
mints, which is why `SpentOnRuns` has its exception; `/v1/agents` reads any id
with the token; a cached answer keeps the anchor it was first shown with.

## 4. The funding budget

### Modules

| module | what it is |
|---|---|
| `FundingBudget` | host processes, their queues, the shared ledger file, properties |
| `MCFundingBudget` | its instance: one host that is asked for anything |
| `FundingProofs` | types; for one host, grants stay counted, seats are granted once and no ceiling is exceeded; the theorems about the journal (below) |

### State and actions

`ledger` is the file: its records as a set (no ceiling looks at their order) and
whether it still parses. `queue[p]` is the chain of `reserve` calls in host process
`p` (`tail`, `queued`), the first one being served; `job[p]` is what that one is about
to do, with the time it read (`atMs`) and the records it works on (`basis`).
`granted` is a history variable: the record sets of the reservations that were
granted, the first entry being what the file held at the start.

One action per file operation, because each is an `await` during which another
process may write: `Load` (with the ceilings, checked synchronously after it),
`Compare` (`save`'s second read), `AppendRecords`, then the best-effort compaction
`Tidy` and `Rename`, or, when the file would become too long, `Stage`, `Install` and
`Confirm`; `Grant` answers. `FailAppend`, `FailStage` and `RefuseDurable` are the
failures, `Crash` the death of the process; a failed or interrupted append leaves
any part of its records, and perhaps a torn line.

Amounts are in cents as in the code, with smaller ceilings; an hour is 2 ticks and a
day 4. Sizes are counted in records instead of bytes.

### Runs

| run | what it shows | bounds |
|---|---|---|
| `BudgetOneHost` | the three ceilings, once per seat, grants stay counted | 3 sessions, 6 kinds of call, 4 calls, clock 0..5, 1 failure or crash, ledgers with and without old and double-priced records; at most 3 records are appended to, a longer ledger is rewritten |

The hour ceiling admits three seats and a session has two, so two sessions in an
hour contend; six ticks cover a day boundary, an hour across it and the expiry of
records. Legacy records carry two cents (`amountCents`). Calls are bounded, so the
system stops and deadlock checking is off. Safety only.

Two assumptions about the environment: the wall clock does not go back (the code
reads `Date.now`; a jump far ahead and back makes a compaction drop records that
count after the correction), and a call reads the ledger within `Lifetime` of its
session's opening, at most an hour (a session lasts ten minutes). Without the
second a reservation of a long-ended session could be compacted away and repeated.

### Proofs

`FundingProofs` proves `TypeOK` for any number of processes. For one process
(`OneHost`) it proves `GrantsCounted`, which is not inductive: a rename keeps what the
job read, so the invariant `LedgerInv` says that from the check of the ceilings on
the ledger is what the job read, that its clock reading is not in the future, and
that what it wrote is there. The arithmetic is in `CutoffMonotone`: what a later
compaction may drop is older. `SeatsGrantedOnce` rests on it: within a session's
lifetime its granted records count, so the duplicate check sees them (`SessionCounted`),
and while a job is between that check and its grant its seats are ungranted
(`SeatInv`). The observations below show that `OneHost` cannot be dropped.

`CeilingsHold` proves the three ceilings. Two more facts are invariant (`WithinCeilings`,
`RoomKept`): what was granted in a window is worth no more than its ceiling, and a job that
has checked the ceilings still finds room for its records in every window they fall in,
because nothing else is granted meanwhile. That it found the room is `RoomFound`: every grant
of the window is among the records it counted, by `GrantsCounted` for an hour and a day and
by `SessionCounted` for a session. `Ceilings` itself adds up the grants one by one; since no
record was granted twice (`SeatOnce`) that is the worth of their union (`PartsAddUp`).
Amounts are sums over finite sets, which the community modules define by a choice of a
recursive function: the lemmas from `LeastSet` to `SumMonotone` show, by least
counterexamples, that the function exists, that it is one, and how sums of unions and subsets
compare. Besides `OneHost` the theorem assumes that there are finitely many sessions and keys
(`FiniteWorld`) and that the ledger is within the ceilings at the start (`InitWithin`), with no
record older than its session (`InitFresh`, as for `SeatsGrantedOnce`).

### Observations

The model has any number of host processes; with two it shows, in a few steps, what the
code does and its documents deny. Neither is among the runs, which check one process.

* **Two host processes pass the ceilings together.** The queue is per process; `save`
  compares and then appends, in two operations, with nothing that locks the file, so two
  processes may each be granted the last seat of an hour (`funding-budget.mjs:247`). The design
  document says reservations are made atomically
  (`src/docs/superpowers/specs/2026-08-10-zero-plugin-live-erc8004-agent-handshake-design.md:459-463`).
* **A compaction can remove a granted reservation.** The comments at
  `funding-budget.mjs:190-192` and `:341-344` say the last comparison prevents it; another
  process's append may come between it and the rename (`:345-346`).
* The design document puts the day's ceiling at 1.00 ETH, the code at 3.00 (`DAY_CENTS`,
  with a dated comment).

### The funding journal

`FundingJournal` models `core/funding/`: `file` is the journal, its inode number and the
records it holds; `handle[w]` is what a run was given when it last opened or updated it;
`op[w]` is the update or creation under way; `chain` is, per recipient, what the node
knows. An update (`recordBroadcastIntent`, `recordTransactionObserved`, `recordFunded`)
builds a document from the handle (`Put`), writes a temporary file, compares the
journal's inode and bytes with the handle, and renames: the last two are separate steps,
a freed inode number may come back, and each step may fail or be the last of a run. Signed
transactions are model values: `t1` pays what it should, the misfit `x` does not. The
caller, the recipients and the chain are external: no program of the repository calls the
journal, and the model calls it as its tests do, judging each transfer after a restart
with `classifyFundingRecovery` (`Verdict`) on answers that may be old. What
`validateTransfer` and `validateJournalDocument` let into a journal is a set
(`JournalTransfers`, `Documents`), and an update that is not in it ends there.

| run | what it shows | bounds |
|---|---|---|
| `FundingJournal` | what a caller was shown stays recorded and never goes back, unless an update was renamed over one it had not read; an observed transaction was sent and pays its transfer, and a funded one was paid | 2 runs, 2 recipients at 3 initial balances (none, short, at the target), funds 6 for targets of 2 and a fee of 1, 2 transactions, 3 symmetric inode numbers, 2 events among transfers and gifts |

Three inode numbers let one be freed and used again while a stale handle remembers it.
Nothing is fair: these are safety properties; the program may stop at any step.

### Proofs

`FundingProofs` also proves both properties of the journal, for any runs, recipients,
transactions and inode numbers. The budget and the journal share no state: the module speaks of
the journal through an instance (`Journal!Spec`), over constants and variables of its own, and
its theorems assume what `FundingJournal` does (`JournalAssumption`: balances are integers
and `None` is no document and no file). `RecordsAreTrue` alone is not inductive: a document reaches the file from a
stale handle through an update that was begun long before. `JournalInv` therefore asks the
same of every handle and every update under way (`TruthInv`), and of each account that a
mined transaction was sent, that a mined one that pays left the recipient paid, and that a
recipient who was not paid is short of the target (`ChainInv`), which is what a verdict by
balance rests on. A step of the chain only adds (`Learns`), so what was true stays true.
`RecordsKept` needs `KeptInv`: every handle's transfers were shown to somebody, and an
update that was not outrun continues every transfer the file holds; with the transitivity
of `Continues` the rename then loses nothing. Of the comparisons the proof uses one, that
of the bytes at the start of an update; the inode number, compared there and again before
the rename, only narrows the window of the property's exception.

Observations: without a lock an update can be renamed over one it has not read (the
property's exception, `raced`); a temporary file left by a crash or a failed unlink makes
every later opening fail (`STALE_TEMP`), and a torn creation leaves a journal that is
invalid for ever; `recordBroadcastIntent` sets the whole document to `BROADCAST_INTENT`, so
its own validation refuses it once another transfer has been observed; a mined
transaction found from `BROADCAST_INTENT` is classified as funded, and `recordFunded` refuses it
until its hash has been recorded; the balance is looked at before the hash, so a transfer
can be funded under the hash of a replaced transaction.

## 5. The relay client

### Modules

| module | what it is |
|---|---|
| `RelayClient` | clients, the posts between them and the relay, and `Mailbox` as the relay |
| `MCRelayClient` | its instances: two clients of one role with their scripts of calls |
| `RelayClientProofs` | types, order of a client's posts, one claim per role |

### State and actions

`Script[c]` is what client `c` calls, one after the other: `claimRole` ("claim"),
`postNext` with a stop time ("bounded") or with the client's retry budget ("budgeted").
`state[c]` is the call under way: the next request (`read`, `send`), the request that
waits for its answer (`wait`) or has just failed (`failed`), the number it signed,
conflicts so far, and `late`, whether its budget or stop time has run out. `wire`
holds the posts on their way; one that is no longer `awaited` was given up at its
timeout and may still arrive. `log` is `Mailbox`'s log of an open legacy session and
`Lands` is its `Post`: what holds here holds of any relay that implements `Mailbox`,
as `Relay` does. `done` is a history variable: what each call reported.

A budget is one request's (`withRetry`), so it starts again with every read and every
post, and its expiry is looked at only after a failure; a stop time is the whole
call's (`retryBeforeStop`) and is looked at before each request. With a budget the
same envelope is sent again; with a stop time the attempt starts again with a read.

### Runs

| run | what it shows | bounds |
|---|---|---|
| `ClientRace` | calls without a lost answer are honest, order of posts, one claim per role, every call ends | 2 clients of one role that both claim it, one of them with a bounded post after, 2 conflicts or attempts, any number of failures, 2 messages |

Two clients with three calls are enough for a number to be taken, taken again and
free, and for a post to be given up and to arrive after a newer one of its sender.
Once the log is full the relay still answers conflicts, and posts that would fit are
lost. A budgeted post differs from a claim only in not looking for a claim, so it has
no place of its own in this run. The code's limits are 8 conflicts and 3 attempts; two
already give a retry and a refusal. The scripts are finite, so the system stops and
deadlock checking is off.

Fairness: weak fairness of each client's `Proceed` (every request ends, with an answer
or at its timeout) and of `Elapse` (time passes). Nothing is assumed of `Deliver`: the
network may lose everything, and failures have no bound (`Endless`).

### Proofs

`RelayClientProofs` proves `TypeOK`, `PostsInOrder` and `OneClaim` for any clients,
scripts and limits. The latter two are not inductive: a post sent long ago may arrive
now. The invariant `NumberInv` says why it does no harm. A post on the wire has a
number that is free at best, and whatever must not come before it - a later message
of the same client, a claim of the same role - has that number or a higher one, for
it was not in the log the post was signed against. Since the relay takes only the
next number, the late post either lands before those or not at all.

`UnlostIsHonest` follows from `HonestInv`, which says of each call what is on the wire: a request
somebody waits for is the client's present one, an attempt that is over has either left
nothing behind or has been counted as lost, and of a call that lost no answer the log holds a
message exactly when the client was told so. Only liveness (`CallsEnd`) is model-checked. That nothing is sent after a stop time is
the guard of `Send`, which compares immediately before the write, so no property repeats it.

### Observation

A client may conflict with itself. After a lost answer the retry of the same envelope
meets the message it posted itself; `postNext` takes the conflict for the peer's
(`roles/session.mjs:455-457`) and posts the body again under the next number. The
model does the same, and `UnlostIsHonest` is the part that holds: without a lost
answer there is one copy.

### Not modelled

Requests that create sessions or publish documents (one retried request each),
heartbeats, and opted-in sessions, where the relay refuses a claim on other grounds.

## 6. The bilateral handshake

### Modules

| module | what it is |
|---|---|
| `PartyDocuments` | descriptor, the three transitions, their deadlines, the party result (`core/descriptor.mjs`, `messages.mjs`, `protocol.mjs`, `blocktime.mjs`, `evidence.mjs`) |
| `Ledger` | external: the Clockchain service, blocks, anchors, writes on their way |
| `ClockchainClient` | one call of a tool with its retries, as a function of the service's replies (`core/clockchain.mjs`) |
| `OutputDirectory` | a role's private directory: write-intent markers, the party result |
| `RoleRunner` | the processes of both roles (`core/roles-core.mjs`, `runner.mjs`) |
| `Verdict` | the verifier (`core/verdict.mjs`, `payer-mandate.mjs`, `payment-request.mjs`) |
| `Handshake`, `MCHandshake` | the composition, and its instances |
| `HandshakeProofs` | markers before writes, one anchor per slot, complete results are final |

### State and actions

`proc[p]` is what process `p` does next (`pc`), the message it works on, what it has `seen`
verified, how often it dispatched (`tries`) and how it ended. `marker[slot]` and `package`
outlive it; two processes may run for one role. A process verifies the identities
(`Start`), takes over what an earlier one left (`Discover`), and for a slot of its own goes
through `Inspect`, `SearchOnce`, `CreateWriteIntentMarker`, `SyncMarker`, `Dispatch` and
`Unanswered` (`writeOrAdoptTransition`); it waits for its peer's with `Poll`, checks each
anchor with `Verify`, and publishes in `Sign` and `WritePartyResult`, one step per link.
`RunAgain` is a kill or a rerun at any point. `wire` holds writes the gateway took and has
not anchored. A digest is the document it is taken of. The verifier reads twice
(`ReadLive`, `Audit`) and anything may happen in between.

`ClockchainClient` computes every way a call may end and how many requests it sent; its
replies cover statuses, throttling hints, malformed payloads, lost and late answers.

### Runs

| run | what it shows | bounds |
|---|---|---|
| `Handshake` | no write without its durable marker; one anchor per slot; two `LOCAL_OK` are never contradicted; an authorisation means what it says; a complete result is final | three processes in the combinations payer-payee and payer-payer with two faults and all three with none; 5 blocks; six further sessions that must be refused, each for its own reason; 3 dispatches; replies with throttle hints below and above the limit |

Two payers are what can race for a marker and a package; five blocks hold three anchors,
an empty block and a late one. The limits of the client are small, in the code's
proportions. Safety only: the service may never answer.

### Proofs

`HandshakeProofs` proves `WriteAhead`, `OneAnchorPerSlot` and `PackageIsFinal` for any
processes, terms and failures. `OneAnchorPerSlot` is not inductive: a write may be on its way while its process
is killed. `Inductive` adds that whatever is anchored or under way is named by its marker
(`Announced`), that who may still write holds that marker, whole or being written
(`HoldsMarker`), that no two processes hold one slot (`SoleWriter`), and that a gateway
without idempotency keys is sent nothing that a search would have found
(`SearchedFirst`). Markers are created exclusively, so who finds one never writes.

`NeverContradicted` and `AuthorizedSoundly` are about what processes know, which nothing above
limits. The invariant `Knowing` follows a fact from the ledger to the verdict: blocks increase
and every anchor lies in a block that is closed, so what a query returned stays true; what a
process has seen of the transcript is `Genuine`, anchored link by link on what it names as its
predecessor; every published package is `Honest`, an account of such a transcript; and a
verifier that reads two honest packages finds exactly the payer's three links on the ledger
(`LiveOfHonest`). Hence a package is never contradicted, and a verdict that survived the audit
holds three anchors `Found` on the ledger, of the right roles, in order and `Timely`.

### Not modelled

Parsing, canonicalisation, redaction, pinned directory inodes, provenance files, the demo
token, rendering, and the rehearsal's comparison documents.

## 7. Registering an identity

`Registration` models `core/registration.mjs` as `core/wallet-bridge.mjs` runs it, over
`PrivateFiles` (a file is created exclusively, then filled; who dies in between leaves it
torn) and `Registry` (external: an account's transactions are mined by nonce, one may be
replaced at a higher fee, may revert, and the node may lag behind its pool). `run[r]` is
what a run does next, the checkpoint it works from and the transaction it sent;
`CreateCheckpoint` and `FillCheckpoint` are a save, after which the run goes on with
`then`. A registration is announced by an intent (`RecordIntent`), sent
(`BroadcastRegister`), and followed by a recovery checkpoint (`AwaitRegister`); the
metadata is sent and then recorded (`BroadcastMetadata`). `Start` takes up the newest
checkpoint. Runs are killed (`Kill`) and reads fail (`ReadFails`) anywhere.

| run | what it shows | bounds |
|---|---|---|
| `Onboarding` | nothing registers the agent that no checkpoint names; the metadata is set once; what is reported is on chain; the newest checkpoint suffices to finish | 2 runs under 2 names, 2 fees, 2 faults, 4 checkpoints, 3 balances |

`Resumable` names its exceptions: a checkpoint torn by a kill (`Untorn`), and the `slips`,
which are two runs at once, a node that lags, a run lost between sending the metadata and
recording it, and a registration that was mined and reverted. Each really does leave a
wallet that the program refuses to go on with. A reverted registration is refused by every
later run (`validateReceipt`, `registration.mjs:1496`), and as it used the first nonce it
cannot be sent again; reverted metadata, by contrast, is sent at the next nonce.

`RegistrationProofs` proves `IntentFirst`, `SetOnce` and `CompletedIsTrue` for any number of
runs, fees and faults. The invariant `Inductive` relates what each run knows to the files
and the chain (`Good`): a run about to register holds a transaction some readable
checkpoint names; metadata is sent only at a nonce below which every metadata transaction
was reverted (`Earlier`), so of two that succeed one would precede the other. A file that
is being filled is nobody else's (`Exclusive`). 
`TakenUpAgain` proves `Resumable`. While nothing on its list of slips has happened (`Calm`), at
most one run is at work, and either it knows, or the newest checkpoint says, everything that
was sent: the registration at the nonce of its intent, and after it at most one metadata
transaction that has not reverted. Each step of a run keeps this (one lemma per step,
`StartCalm` to `BroadcastMetadataCalm`); a kill or a failed read that does not leaves a slip.
While none is left no registration has been reverted (`Reverts`), so the one the newest
checkpoint names is waiting, or mined with a receipt that will be accepted.

Not modelled: documents and URIs beyond the name they carry, gas arithmetic, permissions
and access lists, inspecting a wallet and signing bytes (they change nothing).

## 8. The hosted session (v2)

| module | what it is |
|---|---|
| `HostInbox` | waits over the relay's log, sender bindings, what a wait leaves for the next (`roles/host.mjs`, `relay-enrollment.mjs`) |
| `HostFunding` | a funding step and the timer that ends it (`production-adapter.mjs`) |
| `HostMonitor` | the snapshots a host publishes (`monitor/agent-snapshot-v2-producer.mjs`) |
| `HostSession`, `MCHostSession` | the runner (`agent-handshake/v2/host.mjs`) over its ports, and its instance |
| `HostSessionProofs` | types, one speaker per role, funding only while it is awaited, one ending |

`Script` is the runner's sequence of steps, each an `Ask` (a read), a `Show` (a snapshot), an
`Await` (a party's message) or a step that sends; `host` says at which step it is, what
it waits for, until when, and which failure it is reporting. Time passes between any two
steps. `fresh` steps end in `Lapse` when the deadline, the key or the agreement has passed.
A send is tried again until its stop (`ShowGivesUp`, `SendGivesUp`), may be taken without
an answer, and may be refused: a refused snapshot is itself reported (`ShowRefused`). The
three binding modes are modelled: with `enforce` only the enrolled key is heard and a
second enrollment ends the session; with `observe` everything is taken and what enforce
would refuse is logged (`flagged`); with `off` enrollments are not read. A funding
step's work goes on beside its timer (`FundWork`, `FundSettles`).

| run | what it shows | bounds |
|---|---|---|
| `HostSession` | a session ends (`SessionEnds`), once and in one way on every channel (`OneEnding`), on what one client of each role said (`OneSpeaker`), and nothing leaves the wallet after its step (`FundingStops`) | deadline 4, invitation window 1 and grace 1, a second client of the initiator with one message or enrollment, 1 fault, 2 messages ahead; four settings of mode and identity policy |

The policy `required_fresh` takes the steps of `required_existing_or_fresh` when no
identity exists; `off` with `not_required` only has fewer steps. Fairness: weak fairness
of the host's own steps and of time, which Node's event loop and timers give; nothing of
the relay, the parties, the chain or the coordinator.

`HostSessionProofs` proves `OneSpeaker`, `FundingStops` and `OneEnding` for any kinds of
message, keys, deadlines, failures and second clients, from `InboxAssumption` and
`HostAssumption` (times are in order; every role has a first key; a second client posts
kinds the parties have). None is inductive. The invariant `IInv`, which TLC finds true of
every state of the run, has a part for each:

* `SpeakInv`: bindings are of the keys enrolled first, because in what the host has not
  read the first enrollment of an unbound role is the coordinator's own, and a role it has
  enrolled is bound or has its enrollment unread. The host considers messages in batches,
  a recursive function of the batch: `CourseExists` and `ConsiderAllIs` show that its
  course is one message after the other, by a least counterexample (`LeastOf`), and
  `BatchKnown` that a batch leaves every role enrolled in it bound, or the session flawed.
* `FundInv`: before its step a role's work is idle; work that has not been aborted and may
  still send is awaited, on a granted reservation, and has not sent. With `Stops` (a
  funding step ends no later than the session) a broadcast is in time (`SendsInTime`).
* `EndInv`: at each stage of the runner, which failure it carries, whether it has told of
  one, and what the snapshot it drafted, the last one accepted and the one shown say; the
  result is out only at the last two steps.

Only model-checked: `SessionEnds` (liveness).

Observations: a binding failure, a message that does not verify, or an agreement found
expired while an acceptance is verified ends the session without a word to the parties,
although `host.mjs:264-267` says that a lapse ends it through its failure path; when the
result is published and the relay then refuses the last snapshot, a failure is shown and told
beside the result (`OneEnding` names that case).

Not modelled: the content of documents beyond their times, the scan for an existing
identity, a clock that jumps back (it stops the host), configuration; enrollments that do
not verify, which are ignored.

## 9. The local adapter and its helper

`AgentHelper` models `agent-cli/`: one operation on the role's state directory (a wallet
and a policy, each created once, whole or torn), with the clock read before and after
every signature. `LocalAdapter` models `local-adapter/server.mjs`: the agent's calls are
passed on (`Relay`), the steps in their results staged (`StageAll`), and one staged step is
run per call of `authorize_local_action` (`Begin`, `HelperStep`, `Finish`), in the turn
order of the promise chain (`turns`: the calls still waiting, the oldest of which is next).

| run | what it shows | bounds |
|---|---|---|
| `LocalAdapter` | steps run one at a time in the order given; what the agent was told is done stays so, and was signed in time; every call is answered | 3 calls, 2 staged steps at once, clock 0..3, a lifetime of 1 in the queue, 9 results of the coordinator, 4 directories |

Fairness: an upstream call ends after its 30 seconds and a helper after its 120, and the
adapter then does what is left; nothing is assumed of the coordinator. One session and
one role's directory are modelled, and a clock that does not go back.

`ActionRecorderProofs` (the other executor on the agent's machine, §10) proves both safety
properties and the types, over an instance of `LocalAdapter`, for any results, directories
and bounds (`AdapterAssumption`: results are sequences of helper steps, and a whole policy
file is what was committed). The invariant is `AdapterInv`: staged steps are numbered on, the
queue holds the youngest and every run an older one (`Numbered`); only the youngest run may
still be unanswered, and its call is the one that has waited longest (`Chained`), so no run
is under way when a turn begins (`TurnIsFree`); a run that has created its file finds it torn
and a run that signs finds the committed policy its request names, because nothing else can
be running (`UnderWay`), and what a run achieved no later run takes back (`DirectoryStays`).
Staging is a recursive function over the steps of a result, whose existence and effect are
proved by the least step that breaks them (`StagesExist`, `StagedIs`). Only model-checked:
`CallsAnswered` (liveness).

Observations: a result that does not fit the queue is refused after some of its steps were
staged (`stageToolResult`, `server.mjs:543-546`), against the comment that a refusal stages
nothing (`:530-531`), and no property here speaks of it; a step repeated while it runs is
staged and run again.

Not modelled: the listing of tools, initialization, the pinned assets' download, and the
bytes of a result beyond the steps its views carry.

## 10. The release harness

`RecorderQueue` is the list of retained actions and their files (queued, pending, running),
`Continuation` the trusted follow-up of a completed action
(`harness/checkpoint-completion.mjs`: join, checkpoint, submit, advance, certificate), and
`ActionRecorder` the wrappers that run helpers, the completion socket and the promotion
of the next action (`harness/verified-release-action-recorder.mjs`). `Callers` start wrapper
processes, some as calls of the model's tool (`Tools`), which go on to the next action, and
some with `executeAuthorizedAction`; a report may be sent again while the first is held.

There are at most two callers (`CallersAssumption`). The tool's server runs one call at a
time, and a client awaits each of its own, which makes one of each kind; but nothing in the
recorder enforces it, and the order of helpers depends on it. A wrapper that has seen
nothing running may pick and claim much later. With two, while one is between its look and
its claim only the other can move the queue. With three (a tool call and two of
`executeAuthorizedAction` that overlap) two of them may look before the third claims, and
then claim one action after another while the helper of the first still runs: TLC finds
`OneByOne` violated when a third caller is allowed.

| run | what it shows | bounds |
|---|---|---|
| `ActionRecorder` | helpers run one at a time in order; no trusted step is stranded; what is reported as executed has been followed up; no commitment is sent without its checkpoint | the responder's steps of one handshake, 2 callers (one of each kind), 2 attempts, 2 calls of advance, 3 actions drained |

Deadlock is checked here: the recorder can always take a step. Safety only.

`ActionRecorderProofs` proves all four for any steps, attempts and drained actions and for at
most two callers, from `RecorderAssumption`, `CallersAssumption` and `ContinuationAssumption`. The invariant `IInv`, which TLC finds
true of every state of the run, has these parts:

* `QueueOK`: files move on in the order of their actions. Nothing is promoted or taken before
  what was recorded ahead of it was accepted, and of two follow-ups at most one is under way,
  so what the coordinator answers is recorded while the step it answers is still running.
* `Awaited`: behind a queued trusted step there is one that is pending, or running and not yet
  accepted, whose completion will promote it. Hence `NotStranded`.
* `FollowedOK`: an accepted step's outcome is with the coordinator, and what it asks for next is
  recorded; with `ReportsOK`, by which a wrapper that reports had its step accepted, this is
  `ReportedIsDone`.
* `HoldsOK` and `LookingOK`: who claims a file, who waits for an answer, and whose answer; and
  that nothing runs when every caller is between its look and its claim, which needs that
  there are two of them (`ClaimStep`).

`CheckpointFirst` is a part of its own. `OneByOne` follows because a step that marks an action
marks the claimed one (`OnlyMarks`), and all in front of a claimed action are accepted. What the
stream records is a recursive function of the steps it reads (`Recorded`); `CourseExists` shows,
by a least counterexample, that there is one, and the lemmas after it that recording keeps the
queue.

Observations: `executeAuthorizedAction` checks the pending action and its wrapper looks for
it again (`:774-777`); a record that arrives from the stream between the acceptance of a
completion and the removal of its running file is not promoted until the next record;
`stop()` of a wrapper leaves its running file behind; an expired pending action blocks the
queue; the helper process has no timeout; the client promise caches a failed connection;
the last call of `advance` may run its own 30 seconds past the 60 the comment promises.

Not modelled: download and check of the release's assets, the contents of results, the
transport to the coordinator, and the rest of `testing/fresh-agent-client.mjs`.

## 11. The first protocol's session

`BilateralSession` is one session end to end: the host (`src/bin/clockchain-host.mjs`,
`roles/host.mjs`) and any number of payer and requestor kits that follow its link
(`src/bin/payer.mjs`, `src/bin/requestor.mjs`, `roles/`). They meet in the relay's log
only: `log` holds the messages, `evidence` and `result` the documents put, `paid`,
`registry` and `ledger` the chain. `kit[k]` is the stage a kit is at, its agent id and what
it has read of its peer; `host` the stage of the host, the messages its waits have taken,
and who is seated (`seat`) under which agent id. A post is one step (`RelayClient` has its
races), which a lost answer may double (`Again`); a wait that times out, a call that fails
and a process that dies are one step (`Fail`, `FailHost`) where the code may stop. A kit
looks for a rival's claim before it claims (`Look`), waits for its funding
(`ReadFunding`), registers (`Register`) and reads its peer from the log: the payer picks
the requestor by itself (`ReadRoster`), the host by its waits (`Seat`, `BindReady`).

| run | what it shows | bounds |
|---|---|---|
| `BilateralSession` | host and kits mean the same two parties (`SeatsAgree`); one kit of a role is paid, once, and a rival spends nothing (`LosersSpendNothing`); unless something fails, the session ends with a certificate both parties hold, or may have given up on when the board's report was lost (`Concludes`) | one payer, 2 requestors, a funding record that may be posted twice, 1 fault |

Two requestors are a race for a seat; which of the roles it is does not matter to the
host, and the payer's own choice of its requestor is what can disagree with it. Fairness:
weak fairness of the host's steps and of each kit's, that is, of processes that run and of
waits that look at the log again, and of the end of the host's 12 minutes for the anchor
report (`ReportTimesOut`); no failure is fair, and no other timeout. The session stops, so
deadlock checking is off.

`Concludes` has one exception, named `Unreported`. A report that could not be posted is
forgotten by the payer (`payer.mjs:267-269`, `SkipReport`), for it is for the board only; but
the host waits for it as long as it would for the evidence (`clockchain-host.mjs:61, 364-372`),
while a kit asks for the certificate for 5 minutes only (`payer.mjs:283`,
`requestor.mjs:236`). So the host comes to its verdict and publishes the certificate, and
both kits may by then have ended without it (`CloseWithout`), with nothing else having
failed. `docs/two-agent-execution-plan.md:310, 551` says that narration must never fail
or outrank the run, and `:338` that both kits save the certificate; `HANDOFF.md:145-160`
records a rehearsal that stopped in that wait. The
evidence's time is then over as well, so it is looked for once; a package that is late counts
as a failure, as every other timeout does.

`BilateralProofs` proves both safety properties and `SeatsLast` (no step gives a seat to
another) for any kits and failures. The invariant rests on one fact: while a seat is free,
no claim of its role has been taken by the host's waits, so `Seat` takes the first claim of
the log, and that is the one the payer's roster selects (`SeatInv`). Whoever is paid
holds a seat, and whoever registers was paid (`PaidInv`); a kit knows its own agent id
(`KitInv`) and says nothing else (`LogInv`); hence mandate, descriptor and certificate name
the holders of the seats under the ids they registered (`TermsInv`, `HostInv`). Only
model-checked: `Concludes` (liveness).

Observation: `runPayerRole` and `runPayeeRole` check that the parties named in the terms own
their identities, not that the terms name the kit that runs them.

Not modelled: the board's snapshots, the pace of waiting, documents that are malformed, a
host that goes on to serve the next session (it shares nothing with the last).

## 12. What is proved, and what is not

The theorems are listed in `PROJECT.json`, in eight modules: `RelayProofs` (session, run directory and ledger read-through),
`FundingProofs` (budget and journal), `RelayClientProofs`, `HandshakeProofs`,
`RegistrationProofs`, `HostSessionProofs`, `ActionRecorderProofs` (release harness and
local adapter) and `BilateralProofs`. They hold for every value
of the constants that the named assumptions allow, plus `CleanWrites` (three of the relay's:
the gapless log, durability and the refinement), `OneHost` (three of the budget's) and what
the budget's last two assume of the ledger at the start.

Every safety property a passing run checks is proved. Model-checked only are the liveness
properties (the provers know no fairness): `RequestsAnswered`, `CallsEnd`, `SessionEnds`,
`CallsAnswered` and `Concludes`.

## 13. Not modelled

`PROJECT.json` lists every component with the reason. Whole components left out: the v1
agent handshake (the earlier form of what `HostSession` models), the Hermes launcher and
clean room, the command-line entry points, the demos and scripts. They are container and
process orchestration, argument parsing and presentation. Documents, canonicalisation
and signatures are pure functions whose verdicts are parameters of the models.
