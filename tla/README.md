# sceneboard: a TLA+ model of the board service

This directory holds the TLA+ development kept beside sceneboard: modules that
model the parts of the system, TLC configurations that check them on small
instances, and theorems checked by TLAPS. `PROJECT.json` is the machine-readable
index: components, runs, mutants, the map from definitions to source lines,
findings, hazards and theorems.

Check a configuration with `tlc -config Delivery.cfg MCDelivery`, a proof module
with `tlapm BoardLedger_proofs.tla`. Section 3 lists the configurations, section 5 the proofs.

## 1. The system

A *board* is a versioned document shared by people and agents. The back end
(`sceneboard-be`, NestJS over MySQL and Redis) keeps the durable state and serves
HTTP and server-sent events. The web front end (`sceneboard-fe`) and the MCP
server (`sceneboard-mcp`) are its clients, through `packages/board-sdk`. Artifacts,
small programs that agents publish to a board, run in sandboxed frames under
`packages/artifact-runtime` and `packages/board-ui`.

| Component | State it keeps | Hard behaviour | What makes it correct |
|---|---|---|---|
| board mutations and event log (`revisions`) | head, revisions, catalogue, outbox, idempotency records | writers race for a head, answers are lost and retried, counters at their limit | no lost update, one effect per key, a log without holes, no schema downgrade |
| revision retention (`revisions/retention`) | payloads, holds, lease and fence, items of a run | a worker that lost its lease, appends, holds and restores between its steps | what is new or held stays readable, a cut is marked |
| board lifecycle (`boards`) | board row, archive mark | archive against mutations in flight | an archived board is frozen |
| interactions (HITL) | interaction rows | five ways to settle race; clocks differ | settled once, in time, with matching event and record |
| interaction waits | generations and waiters of one process | wake-up between probe and sleep, a commit in another process | no reader sleeps through a change |
| event stream server and client (`sse`, `board-sdk`) | handlers, signed cursors; reconciler and view | cut against subscription, reconnects, stale and refused cursors | the view is a prefix of the log and never goes back |
| event dispatch and fan-out (`events`, `redis`) | outbox status, Redis leases; generations over one subscription | crash between publish and mark; set-up against tear-down | at least one hint per event; nobody is cut off |
| stream health, presence, rate limits | counters, Redis keys | flapping, late releases, the turn of a window, lost replies | readiness, lists and limits say what happened |
| memberships, invitations, access policy | members, invitations, capability epoch | a right withdrawn while it is used, lock cycles | edits under the access of their commit |
| shares (`shares`) | link, password credential, recovery records, holds; sessions of viewers | three transactions that die in between; password changes during an admission | the link tells the truth; who is inside knew the password |
| exports | reservations, leases, holds, browsers, audits, render sessions | aborts, late answers, timers, crashes | what is counted is what exists |
| media | objects, ownerships, quota, receipts, cleanup items | deletion against new references, retried uploads | nothing referred to is deleted, the quota is exact |
| sessions, API keys, pairing | families, cookies over tabs; keys; pairings and grants | reuse detection against concurrent tabs; revocation during use; double claim | single use, no lasting credential |
| MCP pairing owner | profile lease, credential store | overlapping calls, closing, two processes | the lease is owned, a credential is stored or told lost |
| database (`database`) | schema ledger, pooled connections | a migration cut at any statement; a slow rollback on a connection given back | rows tell the schema; a transaction is whole |
| artifact runtime, board UI, web front end | ports, frames, timers, slots | messages that cross, timers, faults of the framed script | protocols hold |

How they meet. Every transaction that changes a board locks the board's row
first, so the transactions of one board are serial; they append to its outbox
under a sequence number kept in the head row. The dispatcher turns outbox rows
into Redis hints; stream handlers take hints, or their own one-second poll, as the
occasion to read the head and write the missing range. A client applies frames to
its view, fetches the board over HTTP on a revision event, and reconnects with
the cursor of its last frame. A change of members or of the share appends a
resynchronisation event to the same outbox. Settling an interaction appends an
event and notifies the waiters of the process that did it. Retention cuts the
payloads of revisions that shares, exports and restores hold.

## 2. Modules

| Module | Models | Source |
|---|---|---|
| `BoardLog` | abstract: what a board promises to callers and streams | |
| `BoardLedger` | the rows of one board and its transactions | `revisions`, `boards`, `artifacts` |
| `HitlInteractions` | interactions, extending `BoardLedger` with rows, a clock and the sweep | `interactions` |
| `HitlWait` | readers of one interaction and the wait coordinator | `interactions/application` |
| `BoardStream` | log, stream handler, connection and client of one board | `sse`, `packages/board-sdk` |
| `AtLeastOnce`, `OutboxDispatcher` | abstract channel; dispatchers of all servers over outbox and leases | `events` |
| `EventFanout` | the hint channel of a board in one process, await by await | `events`, `redis` |
| `StreamHealth`, `Presence` | readiness; leases of tabs and what streams write of them | `sse`, `presence` |
| `SharePublication`, `ShareAdmission` | the link with its recovery records; viewers of a protected link | `shares` |
| `RateLimits` | windows, the guard over several buckets, the memory of full buckets | `rate-limit`, `api-keys` |
| `ApiKeys` | keys of an account, statement by statement | `api-keys`, `grants` |
| `SessionRenewal` | the cookie of a browser: tabs and server | `sceneboard-fe/lib/auth`, `auth` |
| `BoardMembers` | invitations, memberships and edits, lock by lock | `invitations`, `memberships`, `grants` |
| `PairingGrants`, `PairingOwner` | pairing on the server; the agent's process | `pairing`, `grants`, `sceneboard-mcp` |
| `ExportAdmission`, `ExportRenderer`, `ExportRenderSession` | an export from admission to audit; the renders of a process; who may read a bundle | `exports` |
| `ArtifactBridge`, `ArtifactNavigation`, `ClipboardCapability`, `PublicArtifactSlots` | an artifact in its frames; wheel and pan; clipboard writes; packages of a shared page | `artifact-runtime`, `board-ui`, `sceneboard-fe` |
| `MediaIngestion`, `RevisionRetention` | uploaded images; retained payloads | `media`, `revisions/retention` |
| `Migrations`, `OwnedTransactions` | commands on the schema; transactions on a pool | `database` |
| `*_proofs` | theorems about one component, or about several of one run (section 5) | |
| `MC*` | the instances of the runs | |

Conventions. A variable is a table, a Redis key, a field of a service or the place
where a process is, and the comment beside it says which. An action is what runs
without interruption: one committed transaction where the code holds one lock
throughout, one statement or lock where transactions can meet in between, one
stretch between two awaits in an event loop, one script in Redis, one message
taken from a port. History variables are named as such. Bounds are CONSTANTS
called `Max...`, and limits of the code (`Quota`, `Window`, `Retained`, ...)
keep the name of the code where it has one.

Some choices need a word.

*BoardLedger.* The access policy locks the board's row before anything of the
board is read and holds it until commit, so a transaction of a board is one
action, and what interleaves is what happens before the lock: a request is any
record of a small set, sent against any existing head, again and again. `Answer`
loses the answer or delivers it. `CreateRevision` is the whole of
`applyNewOrReplay` for a new request.

*HitlInteractions* extends the ledger, so an interaction's transactions allocate
sequences and write records of the same board as everything else. A process reads
its clock before it waits for the lock: a transaction may work with any time up
to `MaxSkew` behind the latest. The sweep keeps the batch it read without locks.

*BoardStream.* `log` stands for the outbox of `BoardLedger`: contiguous and append-only,
which section 5 proves, so that reading a range and its head is one step. `view` is the
set of events the shown board reflects, which is more than the code knows
about itself.

*Transactions of accounts, members, pairings and keys* lock several rows one
after the other; there each lock is a step, a cycle of waits is a deadlock of the
database, and the rollback and the code's retry of it are modelled.

*Caches, timers and lost answers.* A timer fires at any moment, also while its answer is on
the way; a command to Redis may take effect without an answer.

*Harnesses.* Components that do not read each other's state are checked side by side in
one MC module: a variable `part`, chosen in the initial state, says which of the instances
moves, the others stay where they start. The states are then the sum of the
components' states, not their product, and nothing is lost, since no
property relates two parts. A component with a theorem is extended instead of instantiated
(all of `MCDelivery`, `MCShares`, `MCAccounts`, `MCPairing`, `MCArtifacts` and `MCStorage`, in `MCLiveness` `OutboxDispatcher`): its properties are
checked under the names they have in their module, which are those the theorems state, and what a part of it is
spared is a conjunct `Bounds` of its steps in the harness. Each other property of such a module names the
parts it speaks of and the properties it gathers, which are stated and commented
in the module of the component.

## 3. Runs

| Run | Module, configuration | What it asks |
|---|---|---|
| `board_ledger` | `MCBoardLedger`, `BoardLedger.cfg` | do racing mutations, restores, artifacts, archiving and access changes keep one chain, act once, and leave a log that tells the tables? does the ledger implement `BoardLog`? |
| `hitl_races` | `MCHitlInteractions`, `HitlInteractions_races.cfg` | is an interaction settled once, in time, as its event and record say? |
| `hitl_expiry` | `MCHitlInteractions`, `HitlInteractions_expiry.cfg` | is every overdue interaction settled in the end? |
| `delivery` | `MCDelivery`, `Delivery.cfg` | views follow the log; no wake-up is lost; subscribers do not cut each other off; readiness and presence say what happened |
| `shares` | `MCShares`, `Shares.cfg` | link and recovery; grants of viewers; lock-outs; limits |
| `accounts` | `MCAccounts`, `Accounts.cfg` | keys in use while revoked; tabs that renew one session; members who edit while their access changes |
| `pairing` | `MCPairing`, `Pairing.cfg` | does a pairing give one credential that ends with its session? is the profile's lease owned? |
| `artifacts` | `MCArtifacts`, `Artifacts.cfg` | exports, renders and render sessions; bridge, navigation, clipboard and slots |
| `storage` | `MCStorage`, `Storage.cfg` | images and quotas; retained revisions; migrations; pooled transactions |
| `liveness` | `MCLiveness`, `Liveness.cfg` | what must happen in the end, unless a client is stopped or an agent stops asking; hints and marks tell of each other while it does |
| `board_stream_resync`, `board_stream_cursor` | `BoardStream` | findings 1 and 2 |

Every property has a mutant in `PROJECT.json`: a defect of the kind the code could have,
under which its run fails. Deadlock is not checked: a board at its limit, an answered call,
a stopped client and a used-up bound have nothing left to do.

### Bounds

A race needs two actors, and a bystander whose work must not be touched a third; a retry
needs one more use of the same key than the first; a limit must be small enough to be reached.

- *Ledger.* Four revisions, three keys, a sequence limit of 4 that is reached, so that
  every allocation fails somewhere; restores and schema changes have a head of each version
  and one revision to go back to. Two answers are remembered in the part that compares them.
- *Interactions.* Two make a supersession and a sweep with a candidate left over
  (`SweepLimit` 1). An expiry of 2 with a skew of 1 has a clock before, at and after it.
- *Delivery.* A replay window of 2 under a log of 4 has cursors inside and beyond it; two
  changes of the signing key outdate a cursor of the previous one. Four listeners, each of which may leave or abort at any moment, make a
  generation that ends while the next is set up, and one that finds what an aborted or rejected set-up left. Two events, one of them corrupt, two
  dispatchers, one fault (in `liveness`). A user with two tabs, one of which reconnects, and a cap of 1.
- *Shares.* Three requests under two keys and two revisions: a plan, its retry and a rival.
  Two viewers: one at a time makes two tries while the owner changes everything (grants), and both
  fail and are locked out under one password (locks). Time runs to the end of a lock, a
  family and a window and beyond; a second of `RateLimits`
  is two ticks, so that rounding is seen.
- *Accounts and pairing.* Two transactions meet at every pair of statements; three keys
  under a quota of 2; two invitations of one account; two tabs that make three sessions, or two where something is lost;
  two families; two processes of a profile. Of the three keys, which are named in the order they are
  issued, requests use one while one manager works (`KeysBounds`), and two managers work while none is used. Each part of
  `pairing` runs the transactions it asks about (`UsesOf`): one pairing through its whole life,
  one whose session ends or whose account changes its password after the approval, and two under a quota of one.
- *Exports and artifacts.* Two jobs for one board and one slot of a process; one crash, one
  retry (that the hold of a revision keeps other processes out too is in the theorem, and two
  processes only there). Three chunks under a window of credit; the budget of messages (4) is larger than
  the burst (2) and is exhausted. Three switches of navigation cross three intents in flight.
- *Storage.* One image on two boards stored twice, with two cleanup items, and two images of a board under
  two keys, two uploads at a time and a quota of one (the two cases of `Slice`). A
  history of four revisions of which two are retained, two runs, one hold. Three migrations,
  of every kind of statement, processes of two builds, two cuts. Three transactions on two
  connections.

The constants `Max...` bound only the exploration; raising them repeats the same
meetings. `MaxSequence` and the quotas are limits of the code made small.

Symmetry is used for names that are only compared, in runs without liveness properties.

### Fairness

`HitlFairSpec`: the clock ticks, the sweep's timer fires (weak), and a candidate tried
again and again is some day not met by a failing transaction (strong). In `MCLiveness` the
fairness of a part is the one of what runs by itself: event loops, timers, poll intervals,
the client's reconnection, the database answering a statement (all weak). Users, commits,
crashes, cuts and faults are never fair. Four assumptions are not the code's to keep and
are the antecedents of the properties that need them: the pool serves who asks
(`PoolIsFair`), an operator starts an interrupted deployment again
(`DeploymentGoesOn`), an agent goes on asking for the status of its pairing (`AgentPolls`) and the
server answers one that does (`ServerAnswers`). Without `AgentPolls` the lease of a profile may stay
out: no timer gives it back, only a later call, the teardown or the end of the process.

`CatchesUp` is a promise to clients that were not stopped. The client connects again after a lost or
recycled connection and after 429, but every other error answer to its opening is final
(`OpenFails`, `OpenRefused`; `GivenUpFor` lists the ends): it shows where it stopped until the page is
loaded again. Such an answer may come at any opening and is never fair.
The stream part leaves out resynchronisation events and ageing cursors, which stop a
client for good: those are the two findings.

## 4. Findings

1. *A stored resynchronisation event stops the streams of its board.* The server gives
   every stored event a cursor (`board-stream-cut.service.ts:136`), `stream.resync.required`
   included; the client accepts that event only without one (`event-reconciler.ts:195`,
   `sse-frame-parser.ts:168`) and treats the frame as a protocol violation, which is terminal. The
   intended reading is the one of `event-reconciler.test.ts:195`. Run `board_stream_resync`.
2. *A cursor older than 15 minutes stops the stream that resumes with it.* The server
   answers with a snapshot (`board-stream-cut.service.ts:72`), the client's reconciler awaits none
   when it resumes (`event-reconciler.ts:201`). Only durable frames carry cursors, so an
   idle board never renews them. The same holds of a cursor more than 1,000 events behind.
   Run `board_stream_cursor`.

The other properties of the stream are stated so that a client stopped in one of these
ways satisfies them: they say what the view shows, not that it goes on.

Other disagreements were met while modelling and are listed here without a run. The
properties of the runs are stated, or their instances chosen, so that they hold in spite of them; the first
five are steps of the models and named exceptions of their properties.

- *Fan-out.* `RedisService.subscribe` stores the listener set of a channel before SUBSCRIBE
  succeeds and leaves it there when the command is rejected (`redis.service.ts:80`): the next
  caller finds the set, is told that it is subscribed, and hears nothing. The unsubscriber deletes
  whatever set the channel has when it is empty (`redis.service.ts:89`): the tear-down of an aborted
  set-up can delete the still empty set of the next one, whose listeners are then registered where
  nobody looks. Streams live by their poll in both cases. `outbox-dispatcher.service.test.ts:212`
  and `:271` read as if neither happened. In `NobodyIsCutOff` the first is the disjunct of `Reached`
  about the SUBSCRIBE that made the set, the second `Strayed`.
- *Transactions.* The deadlines of a transaction and of its connection are timers of their own
  (`transaction.ts:37`, `:98`; `mysql.service.ts:80`). If the inner one fires a turn before the outer, the
  ROLLBACK is queued (`transaction.ts:103`) on a connection that the operation may still write to: its
  next write can be carried out behind the ROLLBACK, outside any transaction, though the caller is told
  that the operation was aborted. It takes a caller that owns both waits
  (`board-access-policy.service.ts:269`); an export that keeps its transaction passes no ownership
  (`export-authorization.policy.ts:42`), so the case is narrow. `AllOrNothing` allows one write alone to a request whose
  own deadline came first (`DeadlineInside`, `Undo`).
- *Exports.* A renewal of the global lease that takes effect without an answer extends the member in
  Redis, while the release gives up at the expiry before it (`export-admission.service.ts:311`, `:336`): if
  Redis does not answer the release either, the job is over and its member takes a slot for up to
  180 seconds more. `GivenBack` allows it for a member that Redis set or extended unheard (`ghosts`) and no other.
- *Bridge.* The host answers a request for the clipboard in whatever step it is
  (`use-artifact-bridge.ts:385`), the runner takes the answer only when it is active and otherwise
  disposes itself with a protocol error (`outer.ts:316`). A script that asks before it is ready ends its own
  run. `ProtocolKept` allows this refusal, in a run which the page has not shown as active.
- *Retention, shares.* A share may pin a revision whose references an item has already detached: it looks
  for the payload only (`share.repository.ts:400`). The barrier then keeps the rest of it, but the
  projection answers 503 (`public-share-projection.repository.ts:91`, `:304`, `:319`). `HeldIsReadable`
  promises the references to the holds that found them; an export looks for them and refuses
  (`export-projection.service.ts:496`, `:605`).
- *Media.* `reconcileBoardQuota` (`media.repository.ts:365`) sums active ownerships only, while the
  quota is charged until release: it takes a quarantine for a damaged row. An upload of an
  image whose ownership was released or whose object is quarantined fails with
  `row_integrity` (`media.repository.ts:642`) until the object is deleted.
- *Navigation.* The end of a pan that crosses the switching off is dropped by the admission
  (`navigation-admission.ts:16`); the pan shown to the host stays open and later intents are
  refused until one of the same pointer ends (compare `artifact-navigation-scheduler.test.ts:101`).
- *Pairing, server.* A poll that read the ended family of the session that asked may expire a
  pairing that was approved from a live one meanwhile; claim locks the pairing before user and session, decide
  after them (`retention-operations.md:11` names one order). The database resolves the deadlock.
- *Pairing, agent.* A token that was stored but whose first connection failed is answered as not
  recoverable at the next status (`pairing-session.owner.ts:340`). Overlapping status calls, or
  closing while a save is under way, write the store without the lease.
- *Retention.* A restore of a revision that is half way to being cut ends in `row_integrity`; the
  runbook (`sceneboard-retention-runbook.md:27`) allows success or not found. The operator's
  resume of a quarantined item leaves the phase the run reads as it was.
- *Shares.* An update that names the revision already pinned leaves before and after alike: if it dies
  once applied, its record can never be reconciled. The same holds of a record that was quarantined after it was
  applied: `complete()` refuses its phase. Compare `share-recovery.test.ts:11`, `:14`, `:20`.
  `OutcomeTruthful` and `Reconcilable` name both cases, which the run reaches, as exceptions.

Behaviour that no text of the repository speaks of:

- *Sessions.* A reload while a renewal is served ends the family: the rotated cookie comes again.
- *Members.* Accepting an invitation again after the removal of the member answers with
  the inactive membership.
- *Rate limits.* In the last millisecond of a window the script may see no time to live, and
  the request is answered SERVICE_UNAVAILABLE.
- *Keys.* Revocation locks owner, then key; a request that uses the key locks key, then owner. The
  deadlock is broken by the database; the request is retried, the revocation is not.
- *Exports.* `retryCleanup` takes a `false` of the broker's renewal for a renewal.
- *Bridge.* After an invalid message of the artifact the runner no longer listens to its port.
- *Clipboard.* The answer "timeout" may be followed by the write.
- *Presence.* The expiry of a lease moves no version; a loss of Redis restarts the counter.

## 5. Proofs

A theorem holds for every value of the constants that meets its assumption. `BoardLedger` and
`HitlInteractions` state theirs as ASSUME (`LedgerAssumption`, `NullAssumption`, `HitlAssumption`,
`QuestionAssumption`); the other components define one (`...Assumption`) which is the hypothesis of the theorem
and which the MC module of the run assumes. TLC evaluates all of them. They say that bounds are
numbers, that an absent row or request is not a row or request, that limits are not zero, that requests are
well formed and that sets whose members are counted are finite.

| Theorem | Property of a run | Gathers |
|---|---|---|
| `BoardLedger_proofs`: `ChainAlwaysHolds` | `ChainHolds` | `RevisionChain`, `NoLostUpdate`, `CatalogFollowsHead` |
| `KeysAlwaysActOnce` | `KeyActsOnce` | `ExactlyOnce`, `RepliesAgree`, `ConflictIsFinal` |
| `LogTellsTheState` | `LogTellsState` | `TypeOK`, `LogContiguous`, `RevisionsAnnounced`, `ResyncNamesDurableHead`, `ArtifactLogMatchesState` |
| `HistoryAlwaysKept` | `HistoryIsKept` | `AppendOnly`, `ArchivedIsFrozen`, `SchemaNeverDowngrades` |
| `LedgerImplementsLog` | `ImplementsLog` | the refinement of `BoardLog` |
| `QuestionsAreSettledOnceAndTold` | `SettledOnceAndTold` | `HitlLogMatchesState`, `SettledInTime`, `SuccessorsLive`, `RecordsMatchInteractions`, `SettledOnce`, `ArchivedOnlyExpires` |
| `Delivery_proofs`: `ViewAlwaysFollowsLog` | `ViewFollowsLog` | `ViewIsPrefix`, `FramesContinue`, `NeverOutOfSequence`, `ViewNeverRegresses` |
| `NoAnswerEverMissed` | `NoAnswerMissed` | `NoLostWakeup`, `UnchangedIsTrue` |
| `SetupsAlwaysKeepApart` | `SetupsKeepApart` | `NobodyIsCutOff`, `NothingLeaks`, `ServerForgets` |
| `ReadinessAlwaysFollows` | `ReadinessFollowsSamples` | `FollowsSamples`, `QuarantineIsFinal` |
| `PresenceAlwaysTold` | `PresenceIsTold` | `LatestStreamIsPresent`, `ListsComplete`, `VersionTellsSet`, `RefusedOnlyAtCap` |
| `OutboxDispatcher_proofs`: `HintsAreAccountedFor` | `HintsAccountedFor` | `DuplicatesNeedLapse`, the refinement of `AtLeastOnce` (its safety) |
| `Shares_proofs`: `InsideAlwaysKnewPassword` | `InsideKnewPassword` | `GrantsAreCurrent`, `GrantedKnewPassword`, `ContextKnewLink` |
| `LocksAreAlwaysEarned` | `LocksAreEarned` | `LocksNeedFailures`, `LocksLast` |
| `LinkAlwaysTellsTruth` | `LinkTellsTruth` | `OpenFrozen`, `OneHoldPerPublication`, `HoldsFollowRecords`, `PinAvailable`, `OutcomeTruthful`, `Reconcilable`, `AccessGenerationMoves` |
| `LimitsAlwaysAsTold` | `LimitsAsTold` | `AtMostTwice`, `RetryAfterEndsWindow`, `MemoryEndsWithWindow`, `FailureWorkIsBounded` |
| `Pairing_proofs`: `CredentialsAlwaysEnd` | `CredentialsEnd` | `PendingIsApproved`, `OneCredential`, `NothingOutlivesFamily`, `SessionsStandForPassword`, `QuotaKept`, `FetchedBeforeTheEnd` |
| `LeaseIsAlwaysOwned` | `LeaseIsOwned` | `LeaseIsAccounted`, `LossIsTold`, `SavedUnderLease`, `ReportedIsStored` |
| `Accounts_proofs`: `SessionIsAlwaysOne` | `SessionIsOne` | `OneActive`, `StoreTellsJar`, `BoundToItsSession`, `RenewsWhatWasAsked`, `NeverTakenForTheft` |
| `AccessAlwaysCurrent` | `AccessIsCurrent` | `AuthorizationHolds`, `EditsAuthorized`, `ChangesAnnounced`, `RoleChangedByOwner`, `NewestInvitationOnly` |
| `KeysAlwaysHold` | `KeysHold` | `QuotaHolds`, `CommitsWhileActive`, `NoWorkAfterExpiry`, `WalkIsComplete` |
| `Artifacts_proofs`: `ExportsAlwaysAccounted` | `ExportsAccounted` | `OneAtATime`, `HeldAlone`, `BrowserIsCounted`, `AuditTellsTruth`, `GivenBack` |
| `RendersAlwaysAccounted` | `RendersAccounted` | `BrowsersCounted`, `HeldWhileRendered`, `NoRenewalAfterDispose`, `LeaseIsClean` |
| `OneClaimIsAlwaysServed` | `OneClaimIsServed` | `ServedWithinBudget`, `OneClaimServes`, `LeftOnlyByClaim` |
| `SlotsAreAlwaysExact` | `SlotsAreExact` | `SlotsExact`, `QueueServed`, `PackageCleared` |
| `BridgeAlwaysKeepsProtocol` | `BridgeKeepsProtocol` | `ActiveIsCertified`, `ProtocolKept`, `PackageGivenBack`, `NoVainWait` |
| `ClipboardIsAlwaysGuarded` | `ClipboardIsGuarded` | `WritesByGesture`, `WritesUnderStandingAccess` |
| `NavigationIsAlwaysOrdered` | `NavigationIsOrdered` | `DropsOnlyAfterOff`, `PendingIsArmed`, `OffIsEmpty` |
| `Storage_proofs`: `RowsTellTheSchema` | `LedgerTellsTruth` | `LedgerTrue`, `ServesItsSchema`, `RunsAlone`, `StuckForCause` |
| `RevisionsAlwaysRetained` | `RevisionsAreRetained` | `NewestStay`, `HeldIsReadable`, `BoundaryMarked`, `PhasesTell`, `FencedOut` |
| `TransactionsAlwaysWhole` | `TransactionsAreWhole` | `AllOrNothing`, `AnswersHold`, `NeverMixed` |
| `ImagesAlwaysAccounted` | `ImagesAreAccounted` | `QuotaMatches`, `ReferencedIsKept`, `ReceiptsHold`, `LeasedIsActive`, `QuarantineHasItem` |

Every group contains the type invariant of its module. A property of the table is the definition that the run
checks; `SessionRenewal` says what was lost, and `Migrations` whether a schema was there
before, in a variable, so that one theorem and one run speak of both cases. What is stated is seldom inductive; the inductive
invariant of a module opens its proofs and is explained there. The arguments in short:

**The ledger**, in five stages. Each part of a group is a theorem of its own.

1. `IInv` (types, the log without a hole, the catalogue) is inductive: a new row is
   written at the sequence after the head's, which `LogContiguous` says is free, and
   the head row moves in the same transaction.
2. From it, every step extends the tables (`Extends`, lemma `NextExtends`): stored events, revisions and
   completed records stay as they are. `RevisionChain`, `NoLostUpdate` and `ExactlyOnce` speak of
   stored rows only, so a step can break them only with the row it adds; `HInv` adds them to `IInv`, and the
   one action that adds a revision is checked against each. `NoLostUpdate` and
   `ExactlyOnce` read the record under a revision's key, which could otherwise be replaced later.
3. The answers need `AInv`. Neither `RepliesAgree` nor `ConflictIsFinal` is inductive: two answers of
   success agree because each repeats the record of its key (`SuccessesRecorded`), and a
   refusal is final because the revision it quoted was stored and was not the head when it
   was refused (`ConflictsLost`).
4. The log needs `EInv`: `RevisionsAnnounced` only says that every revision has its event, and a new
   event could name a revision that was announced before unless every event of a
   creation names a stored one (`CreationsNamed`). `StepKinds` sorts the actions by what they append:
   nothing, a creation, a status, a resynchronisation; each part of `EInv` is then
   checked against four kinds of steps instead of eight actions.
5. The refinement mapping takes the outbox to the sequence of revisions it announces (`Entries`)
   and a record to the revision it was based on and the one it made (`Taken`). A mutation
   maps to `Write`, an artifact control to `Control`, an archive to `Close`, a resynchronisation to
   `Notice`, replays and refusals to stuttering. `EInv` is needed for `Write`, whose revision must not have
   been announced.

**Interactions** (`QInv`) stand on the ledger's `IInv`: that a new event is about one question and no other needs the
log without holes. That the row names its events is not inductive: a question that is settled gains one, and
the one it was open with must be that of its creation (`OpenAsCreated`).

**The stream** (`SInv`). That the view is a prefix of the log says nothing of the frames that will change it.
The frames written and not read, followed by those the handler has still to write, are one chain, each
continuing the one before it; the chain starts where the client stands and ends where the handler
believes to be. A cut, a restart or a refused cursor takes the whole chain with it, and the next one starts at
the cursor the client kept, which is where its view ends. The reconciler therefore never meets a gap or a repetition.

**Waits** (`WInv`). A reader sleeps on the generation it captured before it looked, and it looked while the question
was open: a settlement since then has moved the generation, and a reader that finds it moved looks again.

**The fan-out** (`FInv`). A generation that is open is the current one and has members, and what is in the set of the channel
is set up and not torn down. The set-up of the open generation is the last in the queue (`OrderFits`), so nobody replaces the
set it finds or makes; only a tear-down can, and one that finds its generation in the set leaves the set to the others. So the
open generation is in the set of the channel unless a tear-down missed its own set and went astray (`ReachFits`); and the server
sends hints to a set once its SUBSCRIBE was answered. That it stops to needs more, which holds until a command
fails (`Unharmed`). The two exceptions of the property are the two defects of section 4.

**Readiness** (`RInv` of `Delivery_proofs`). The two counters say how many of the newest samples are old, or young; only
comparisons with two and three are ever made, so that forgetting the oldest sample loses nothing.

**Presence** (`TabInv`). A lease is the one of the stream of its tab that was opened last, and the set of a user holds only
tabs of that user. What a stream wrote is of a version that has been; tabs leave without a new version only by expiry;
and the version counts openings and ends, so that an equal version means that no tab came or left otherwise.

**The dispatchers** (`OInv`). A hint is published on the strength of a lease that was won, perhaps long ago: for
every event, hints and the dispatchers that still hold a lease of it are no more than the lapses and the lease
that is out (`LeasesCover`). Every action is a commit, a hint, a mark or a stutter of `AtLeastOnce`; the mark
needs that a dispatcher which is about to mark has hinted.

**Admission** (`AInv`). Grants exist only while the link has a password and name its generation; a change of
the owner drops them or finds none. What a viewer verified is what its password was compared with, and the last check
before the grant compares it again. For the locks, the failures of a key are injected into the admissions that
were wrong: each counts once, whatever is retried.

**The link** (`LInv`). At most one recovery record is open, nothing else changes the link while it is, and the link is
where that record says: before or after the change, as the idempotency row of the change tells. What was planned from
a link that nobody touched since still fits when it is applied.

**The limits** (`ToldInv`). Of the passes through the first bucket of a guard, those of the open window are the last
ones and no more than it counted, so a pass and the one that comes a limit later are of different windows: two windows
touch any stretch as long as one. A server remembers a full bucket for less than a second beyond its window; and who is
refused in a window finds the bucket remembered, so that each caller counts at most once more in it.

**Pairing** (`PInv`). A transaction locks row after row, but decides on what the rows hold when it has them
all. So the invariant needs nothing of the locks: each action is one of a few moves of one pairing with its
grant, or the end of a session, and each move keeps what `PairingSound` says of that pairing. The quota counts
over all pairings: a creation counts them with the rows it locked and opens one, every other move opens none.

**The profile's lease** (`LeaseInv`). Session, proof and lease of a process come and go together; a proof that was
overwritten belongs to a pairing that is over, was reported or lost its process. A status call is about the pairing its
process shows, unless the process went on meanwhile (`astray`): what such a call may still do is stated as it is.

**Sessions** (`IInv` = `LInv`, and `CInv` while nothing was lost; the steps are sorted by that into `Work` and `Trouble`). A call that may change the cookies holds the
lock alone and has put *unknown* into the store until its last answer is read (`Announced`), so the store never vouches
for cookies that are being replaced. An answer that tells a tab what its session is set the cookies too
(`RequestFits`). `NeverTakenForTheft` holds until an answer is lost or a page left (the history `lost`): then a rotated
credential is in the browser only until the answer that replaces it is read (`Replaced`).

**Members** (`MInv`). Invitations are used in the order of their numbers and the pending one of an account is its newest,
which every later lock finds unchanged or not pending. An edit that was authorized holds the row of the board until its
commit, and every change of access needs that row. Who lost a deadlock holds nothing and starts again.

**Keys** (`KInv`). Who is about to insert found room under the quota and has held the row of the owner since; time only
takes from what is active. A request holds its key from its first check and the owner from its second to its end. The
walk needs no induction: rows are numbered as they are inserted, so a key that is not on a page is older than the last
one of it (`PageIsNewest`); what the walk has passed was emitted, what it has not is beyond its boundary, and
a new key is on the side of what the walk does not promise.

**Migrations** (`IInv`, `AInv`). That the row a run writes leaves no hole needs the lock, and the rows that were there
when it was taken (`Sound`). A step of one process leaves the others sound because it has the lock
or leaves lock and rows alone, and nothing is taken back (`Frame`, lemma `OthersSound`). Runs do not mix since, without a
cut and on an empty database, what is there and has no row was done by the run with the lock (`NothingElse`).

**Retention** (`RInv`). Each hold says whether it found the references (`whole`), and an item takes nothing of a revision
that is held, since the barrier is looked at in the transaction that takes (`TakesOnly`). An item is planned for a revision that is old, and a revision that is old stays so. While the
lease of a run lasts nobody else moves its items; a run that lost it finds its fence passed before it writes. The boundary
is marked in the transaction that takes the payload, in whatever order the payloads go.

**Transactions** (`TInv`). A connection carries at most one statement of a request that waits for it, after at most one
ROLLBACK that nobody waits for; so what a request does next is done after everything a former owner left behind. A
transaction that was given up before its connection has one statement more, in one of four ways (`Overruns`): a write before or
behind its ROLLBACK, a COMMIT before it, or nothing. The write behind is the one that can stay alone (`Stray`).

**Images** (`MediaInv`). That a deletion meets no reference needs the version. While an item works on an ownership whose
version it knows, the ownership is in quarantine, where no mutation may name it, and once the item has looked the board has no
reference to it (`ItemFits`); whoever changes the row moves the version past it. An item of an object that was stored again
has another `life` and stays without effect. An owned image has an active object and an object that is gone has no rows (`RowsFit`),
so an upload that stores it again finds none. The quota is the cardinality of what a board owns, moved by one with each row.

**Exports** (`AdmissionInv`). Whatever lets a job work (a lease, a slot, a browser, a locked revision) stands behind its
reservation, which it has from the first step to the last one of its release (`Entered`, `Left`); reservations of a process
are for different boards. The lock of the revision lasts from the projection to the commit that stores the hold, so a second
job meets the lock or the hold (`HeldByOne`). What the row says is what the job decided once (`Decided`). The only members
that outlive their job are those that Redis set or extended unheard (`ghosts`).

**Renders** (`RendererInv`). A cleanup leaves nothing open or asked for, and who passed its end has nothing left to come;
slot and hold are given back after that. **Render sessions** (`SessionInv`). A session that is gone does not come back,
so whoever was served was charged to one claim, as often as the session counted while it was there.

**Packages** (`SlotsInv`). Whoever waits does so once and only while every slot is taken, so a release gives
its slots to different handles. That a sum of slots stays right is a bijection between the handles that are granted and
the first places of the queue (`ReleaseKeeps`).

**The bridge** (`BridgeInv`). While the package is handed over at most one question or answer is on its way, and `HandsOver`
lists which. From then on (`Runs`) the runner is sent nothing before it is active but results of requests the script sent early
(`LatePosts`), which excludes a control it would have to refuse; it ends at such a result while its readiness was not announced,
so that the page never shows the run as active; readiness is announced once and is in one place at a time (`ReadyOnce`), which excludes a message the host has no
waiter for; and what the host waits for, or the word that the runner is gone, is on its way (`SomethingComes`), which is
why no timer waits in vain.

**The clipboard** (`ClipboardInv`). A gesture is in one place: a turn of the frame, an announcement under way, the one that
the dispatcher remembers, or a write. The page's access changes only with its epoch.

**Navigation** (`NavigationInv`). Until navigation is switched off the intents on their way lead, one after the other, from
the pan the admission has open to the pan the scheduler has open (`Chained`).

Every safety property of a run that passes is a theorem. Checked by TLC only is liveness
(`OverdueIsSettled`, the run `liveness`): the prover does not treat fairness and ENABLED here.

## 6. Not modelled, and what could follow

Left out: rendering and layout, document transforms, parsers, encodings, hashing and the
rendered bytes (data the models abstract to values); mail, object storage, the browser and
the database itself (external, modelled as they are used); release, installation and
certification scripts; generated bundles of the MCP plugin.

Left out of modelled components, and why:

- history reads, the MCP connection endpoint, share analytics: reads, or single
  statements that nothing else reads. The counter of share analytics checks its event against
  a list (`share-analytics-event.service.ts:324`) that differs from the CHECK of its table
  (`023_d9_share_analytics.up.sql:80`).
- the projection served to viewers of a share: a read of the pinned revision, whose payload is
  there by `PinAvailable`, and whose references are what `HeldIsReadable` says of holds.
- presentation sessions: they keep the page and the strokes of a presenter in Redis, under a version that
  an update must name, a cap on the sessions of a room and an idle and a hard expiry
  (`public-presentation-session.service.ts:33`). A start and an end are one script each; an update reads,
  then writes by a script that compares the version, and publishes. No model has them.
- e-mail verification, password reset and the lifetimes of sessions; the deletion of rows
  that ended long ago.
- back-pressure, keepalives and admission limits of streams (429 is a connection lost); records are read whole, and
  a client is not stopped by its own page; `stream.error` frames, which the client takes as final and the
  server never sends; the reconnection of the Redis client.
- decoding of images and the backup certificates, other than as a reason for a failed deletion.
- scopes and token format of API keys; which surface has which limit.

Hazards known and without a property, since no promise of the code speaks of them: a candidate
whose transaction throws ends the tick of the sweep (`hitl-expiry-sweep.service.ts:51`;
`OverdueIsSettled` assumes that this does not last); the map of generations of the wait
coordinator grows; the stream client's count of attempts is never reset and a record cut off at the end
of a stream is a protocol error; an account waits for a board in one transaction and a board
for an account in another (`invitation.service.ts:353`, the rollback is modelled in `BoardMembers`).

Next: `BoardStream` over the
events of `BoardLedger` instead of its own `Commit`; the presentation sessions.
