---------------------------- MODULE BoardLedger ----------------------------
(***************************************************************************)
(* The durable state of one board and the transactions that change it:     *)
(* scene and document mutations, artifact publication and stop, membership *)
(* and share invalidations, and archiving.                                 *)
(*                                                                         *)
(* Every transaction first locks the board's row (board-access-policy, or  *)
(* lockBoardByPk for invitations) and holds it until it commits or rolls   *)
(* back, so the transactions of a board are serial and one transaction is  *)
(* one action.  What is concurrent is everything before the lock: a caller *)
(* prepares its request against a head it saw earlier, may lose the answer *)
(* and send the request again, and may be overtaken by others.             *)
(***************************************************************************)
EXTENDS Naturals, FiniteSets

CONSTANTS
  RevisionIds,      \* public revision ids (UUIDs)
  Scopes,           \* <<principal, idempotency key>> pairs
  Auths,            \* grant and scopes a request is authorised with
  Args,             \* command arguments: payloads, source revisions, artifacts
  Artifacts,        \* artifact versions
  Interactions,     \* ids of questions put to a person (HitlInteractions)
  Requests,         \* the requests callers may send
  None,             \* SQL NULL, or the absence of a row
  V3WriteEnabled,   \* the v3WriteEnabled switch of BoardMutationService
  MaxSequence,      \* MAX_SAFE_SEQUENCE
  MaxReplies        \* bound on the answers remembered by `replies`

SceneOperations == {"scene.replace", "scene.clear", "scene.restore", "document.replace"}
ArtifactOperations == {"artifact.publish", "artifact.stop"}
HitlOperations == {"hitl.request", "hitl.respond"}
ControlOperations == ArtifactOperations \cup HitlOperations
Operations == SceneOperations \cup ControlOperations \cup {"board.archive"}
HitlStates == {"open", "answered", "superseded", "cancelled", "expired"}
SchemaVersions == 1..3

RequestType ==
  [scope : Scopes, auth : Auths, op : Operations, expected : RevisionIds \cup {None},
   arg : Args, selector : SchemaVersions]

ASSUME LedgerAssumption ==
  /\ None \notin RevisionIds \cup Artifacts \cup Interactions
  /\ Requests \subseteq RequestType
  /\ \A q \in Requests :
       /\ q.op = "document.replace" => q.selector \in {2, 3}
       /\ q.op \in ArtifactOperations => q.arg \in Artifacts
       /\ q.op \in HitlOperations => q.arg \in Interactions
       /\ q.op = "board.archive" => q.expected = None
  /\ V3WriteEnabled \in BOOLEAN
  /\ MaxSequence \in Nat \ {0}
  /\ MaxReplies \in Nat

VARIABLES
  head,        \* board_heads: head revision, its number, last event sequence
  archived,    \* boards.archived_at is set
  revisions,   \* board_revisions by revision id
  catalog,     \* board_revision_catalog: absent, retained or head
  outbox,      \* board_event_outbox by sequence number
  records,     \* board_idempotency_records by scope code and scope
  artifacts,   \* artifact_runtime_states by artifact version
  replies      \* answers that reached their callers

vars == <<head, archived, revisions, catalog, outbox, records, artifacts, replies>>

----------------------------------------------------------------------------
(* Identity of a request and the rows it leaves behind *)

\* The documentSchemaVersion selector is part of the command of
\* document.replace only; for scene operations it is not fingerprinted.
Fingerprint(q) ==
  [auth |-> q.auth, expected |-> q.expected, op |-> q.op, arg |-> q.arg,
   schema |-> IF q.op = "document.replace" THEN q.selector ELSE 1]

FingerprintType ==
  [auth : Auths, expected : RevisionIds \cup {None}, op : Operations, arg : Args,
   schema : SchemaVersions]

ScopeCode(q) == IF q.op = "board.archive" THEN "A" ELSE "M"
RecordKey(q) == <<ScopeCode(q), q.scope>>
RecordKeys == {"A", "M"} \X Scopes

\* `event` is the sequence of the one event the result names, 0 for none.
ResultType == [revision : RevisionIds \cup {None}, event : 0..MaxSequence]
RecordType == [fingerprint : FingerprintType, status : {"P", "C"}, result : ResultType]
RevisionType ==
  [number : 1..MaxSequence, previous : RevisionIds \cup {None},
   source : RevisionIds \cup {None}, schema : SchemaVersions,
   scope : Scopes \cup {None}]
EventType ==
  [type : {"board.revision.created", "artifact.status.changed", "hitl.updated",
           "stream.resync.required"},
   subject : RevisionIds \cup Artifacts \cup Interactions,
   state : {"created", "ready", "stopped", "head"} \cup HitlStates]

\* An empty column is told from every row that could fill it.
ASSUME NullAssumption ==
  None \notin RevisionType \cup EventType \cup RecordType \cup ResultType

Outcomes == {"applied", "replayed", "REVISION_CONFLICT", "IDEMPOTENCY_KEY_REUSED"}
ReplyType ==
  [key : RecordKeys, fingerprint : FingerprintType, outcome : Outcomes,
   result : ResultType \cup {None}]

Existing == {r \in RevisionIds : revisions[r] # None}
Sequences == 1..MaxSequence

Known(q) == records[RecordKey(q)] # None

\* A caller can only quote a head that a snapshot or a result has shown it.
Sendable(q) == q.expected \in Existing \cup {None}

\* The commit is acknowledged, or the acknowledgement is lost: the process
\* dies, the deadline fires, or the connection breaks after the commit.
Answer(q, outcome, result) ==
  \/ UNCHANGED replies
  \/ /\ Cardinality(replies) < MaxReplies
     /\ replies' = replies \cup {[key |-> RecordKey(q), fingerprint |-> Fingerprint(q),
                                  outcome |-> outcome, result |-> result]}

Complete(q, result) ==
  records' = [records EXCEPT ![RecordKey(q)] =
                [fingerprint |-> Fingerprint(q), status |-> "C", result |-> result]]

RevisionCreated(id) ==
  [type |-> "board.revision.created", subject |-> id, state |-> "created"]

NextSequence == head.seq + 1

AppendEvent(type, subject, state) ==
  outbox' = [outbox EXCEPT ![NextSequence] =
               [type |-> type, subject |-> subject, state |-> state]]

----------------------------------------------------------------------------
(* Initial state: the transaction of BoardCreateService has committed. *)

Init ==
  \E r \in RevisionIds :
    /\ head = [rev |-> r, num |-> 1, seq |-> 1]
    /\ archived = FALSE
    /\ revisions = [i \in RevisionIds |->
         IF i = r THEN [number |-> 1, previous |-> None, source |-> None,
                        schema |-> 1, scope |-> None]
         ELSE None]
    /\ catalog = [i \in RevisionIds |-> IF i = r THEN "head" ELSE "absent"]
    /\ outbox = [n \in Sequences |->
         IF n = 1 THEN [type |-> "board.revision.created", subject |-> r,
                        state |-> "created"]
         ELSE None]
    /\ records = [k \in RecordKeys |-> None]
    /\ artifacts = [a \in Artifacts |-> "absent"]
    /\ replies = {}

----------------------------------------------------------------------------
(* Scene and document mutations: BoardMutationService.applyNewOrReplay *)

HeadSchema == revisions[head.rev].schema

UpgradeRequired(q) == HeadSchema = 3 /\ q.selector # 3
DocumentVersionMismatch(q) == HeadSchema = 2 /\ q.op \in {"scene.replace", "scene.clear"}
VersionAdmitted(q) == ~UpgradeRequired(q) /\ (q.selector = 3 => V3WriteEnabled)

\* The restored revision must still be in the catalog, and a V3 source
\* cannot be copied under an older selector.
Restorable(q) ==
  q.op = "scene.restore" =>
    /\ q.arg \in RevisionIds
    /\ catalog[q.arg] # "absent"
    /\ revisions[q.arg].schema = 3 => q.selector = 3

\* Mutant: a restored scene is copied onto a V2 head without adaptation.
StoredSchema_Copied(q) ==
  CASE q.selector = 3 -> 3
    [] q.selector # 3 /\ q.op \in {"scene.replace", "scene.clear"} -> 1
    [] q.selector # 3 /\ q.op = "document.replace" -> 2
    [] q.selector # 3 /\ q.op = "scene.restore" -> revisions[q.arg].schema

\* Schema version of the checkpoint the mutation stores.
StoredSchema(q) ==
  CASE q.selector = 3 -> 3
    [] q.selector # 3 /\ q.op \in {"scene.replace", "scene.clear"} -> 1
    [] q.selector # 3 /\ q.op = "document.replace" -> 2
    [] q.selector # 3 /\ q.op = "scene.restore" ->
         IF revisions[q.arg].schema = 1 /\ HeadSchema = 2
         THEN 2 ELSE revisions[q.arg].schema

PersistCatalog(id) ==
  catalog' = [i \in RevisionIds |->
                IF i = id THEN "head"
                ELSE IF catalog[i] = "head" THEN "retained" ELSE catalog[i]]

\* Mutant: a write based on an older revision is accepted.
BasedOnHead_Any(q) == q.expected \in Existing
BasedOnHead(q) == q.expected = head.rev

AdvanceHead(id) == head' = [rev |-> id, num |-> head.num + 1, seq |-> NextSequence]

CreateRevision(q, id) ==
  LET result == [revision |-> id, event |-> NextSequence] IN
  /\ q.op \in SceneOperations
  /\ ~archived
  /\ ~Known(q)
  /\ VersionAdmitted(q)
  /\ BasedOnHead(q)
  /\ ~DocumentVersionMismatch(q)
  /\ head.num < MaxSequence /\ head.seq < MaxSequence
  /\ Restorable(q)
  /\ id \notin Existing          \* a colliding id is regenerated and retried
  /\ revisions' = [revisions EXCEPT ![id] =
       [number |-> head.num + 1, previous |-> head.rev,
        source |-> IF q.op = "scene.restore" THEN q.arg ELSE None,
        schema |-> StoredSchema(q), scope |-> q.scope]]
  /\ PersistCatalog(id)
  /\ AdvanceHead(id)
  /\ AppendEvent("board.revision.created", id, "created")
  /\ Complete(q, result)
  /\ Answer(q, "applied", result)
  /\ UNCHANGED <<archived, artifacts>>

----------------------------------------------------------------------------
(* Control mutations: ControlMutationRepository under ArtifactApplicationService *)

\* Mutant: an archived board accepts control mutations.
ControlAdmitted_Archived(q) == ~Known(q) /\ BasedOnHead(q)
ControlAdmitted(q) == ~archived /\ ~Known(q) /\ BasedOnHead(q)

AllocateSequence == head.seq < MaxSequence /\ head' = [head EXCEPT !.seq = NextSequence]

PublishArtifact(q) ==
  LET result == [revision |-> None, event |-> NextSequence] IN
  /\ q.op = "artifact.publish"
  /\ ControlAdmitted(q)
  /\ AllocateSequence
  /\ artifacts[q.arg] = "absent"       \* version ids are unique per artifact
  /\ artifacts' = [artifacts EXCEPT ![q.arg] = "ready"]
  /\ AppendEvent("artifact.status.changed", q.arg, "ready")
  /\ Complete(q, result)
  /\ Answer(q, "applied", result)
  /\ UNCHANGED <<archived, revisions, catalog>>

StopReadyArtifact(q) ==
  LET result == [revision |-> None, event |-> NextSequence] IN
  /\ q.op = "artifact.stop"
  /\ ControlAdmitted(q)
  /\ artifacts[q.arg] = "ready"
  /\ AllocateSequence
  /\ artifacts' = [artifacts EXCEPT ![q.arg] = "stopped"]
  /\ AppendEvent("artifact.status.changed", q.arg, "stopped")
  /\ Complete(q, result)
  /\ Answer(q, "applied", result)
  /\ UNCHANGED <<archived, revisions, catalog>>

\* Stopping a stopped artifact succeeds, completes its record and emits nothing.
StopStoppedArtifact(q) ==
  LET result == [revision |-> None, event |-> 0] IN
  /\ q.op = "artifact.stop"
  /\ ControlAdmitted(q)
  /\ artifacts[q.arg] = "stopped"
  /\ Complete(q, result)
  /\ Answer(q, "applied", result)
  /\ UNCHANGED <<head, archived, revisions, catalog, outbox, artifacts>>

----------------------------------------------------------------------------
(* Archiving, replays, refusals, invalidations *)

Archive(q) ==
  LET result == [revision |-> head.rev, event |-> 0] IN
  /\ q.op = "board.archive"
  /\ ~Known(q)
  /\ ~archived
  /\ archived' = TRUE
  /\ Complete(q, result)
  /\ Answer(q, "applied", result)
  /\ UNCHANGED <<head, revisions, catalog, outbox, artifacts>>

\* Operations other than board.archive are refused on an archived board
\* before their record is read.
ReachesRecord(q) == q.op = "board.archive" \/ ~archived

\* The stored rows a replay is checked against before it is returned.
ReplayIntact(q) ==
  LET result == records[RecordKey(q)].result IN
  /\ records[RecordKey(q)].status = "C"
  /\ q.op \in SceneOperations =>
       /\ catalog[result.revision] # "absent"
       /\ outbox[result.event] = RevisionCreated(result.revision)
  /\ q.op \in ControlOperations /\ result.event # 0 => outbox[result.event] # None
  /\ q.op = "board.archive" => result.revision \in Existing

StoredResult(q) == records[RecordKey(q)].result

Replay(q) ==
  /\ ReachesRecord(q)
  /\ Known(q)
  /\ records[RecordKey(q)].fingerprint = Fingerprint(q)
  /\ ReplayIntact(q)
  /\ Answer(q, "replayed", StoredResult(q))
  /\ UNCHANGED <<head, archived, revisions, catalog, outbox, records, artifacts>>

RefuseReuse(q) ==
  /\ ReachesRecord(q)
  /\ Known(q)
  /\ records[RecordKey(q)].fingerprint # Fingerprint(q)
  /\ Answer(q, "IDEMPOTENCY_KEY_REUSED", None)
  /\ UNCHANGED <<head, archived, revisions, catalog, outbox, records, artifacts>>

\* Mutant: the head is compared before the record is looked up.
RefuseConflict_First(q) ==
  /\ q.op # "board.archive"
  /\ ~archived
  /\ q.expected # head.rev
  /\ Answer(q, "REVISION_CONFLICT", None)
  /\ UNCHANGED <<head, archived, revisions, catalog, outbox, records, artifacts>>

RefuseConflict(q) ==
  /\ q.op # "board.archive"
  /\ ~archived
  /\ ~Known(q)
  /\ q.op \in SceneOperations => VersionAdmitted(q)
  /\ ~BasedOnHead(q)
  /\ Answer(q, "REVISION_CONFLICT", None)
  /\ UNCHANGED <<head, archived, revisions, catalog, outbox, records, artifacts>>

\* Mutant: the event names the revision before the head.
AppendInvalidation_Previous ==
  /\ ~archived
  /\ AllocateSequence
  /\ revisions[head.rev].previous # None
  /\ AppendEvent("stream.resync.required", revisions[head.rev].previous, "head")
  /\ UNCHANGED <<archived, revisions, catalog, records, artifacts, replies>>

\* A change of membership or of the board's share: the clients of the board
\* must resynchronise.
AppendInvalidation ==
  /\ ~archived
  /\ AllocateSequence
  /\ AppendEvent("stream.resync.required", head.rev, "head")
  /\ UNCHANGED <<archived, revisions, catalog, records, artifacts, replies>>

Handle(q) ==
  \/ \E id \in RevisionIds : CreateRevision(q, id)
  \/ PublishArtifact(q)
  \/ StopReadyArtifact(q)
  \/ StopStoppedArtifact(q)
  \/ Archive(q)
  \/ Replay(q)
  \/ RefuseReuse(q)
  \/ RefuseConflict(q)

Next ==
  \/ \E q \in Requests : Sendable(q) /\ Handle(q)
  \/ AppendInvalidation

Spec == Init /\ [][Next]_vars

----------------------------------------------------------------------------
(* Properties *)

\* The rows have the shape the schema of the tables gives them.
TypeOK ==
  /\ head \in [rev : RevisionIds, num : Sequences, seq : Sequences]
  /\ archived \in BOOLEAN
  /\ revisions \in [RevisionIds -> RevisionType \cup {None}]
  /\ catalog \in [RevisionIds -> {"absent", "retained", "head"}]
  /\ outbox \in [Sequences -> EventType \cup {None}]
  /\ records \in [RecordKeys -> RecordType \cup {None}]
  /\ artifacts \in [Artifacts -> {"absent", "ready", "stopped"}]
  /\ replies \subseteq ReplyType

\* The event log of a board has no hole and no event past the sequence its
\* head names: a stream that replays the range (cursor, head.seq] finds every
\* row of it (board-event-outbox.repository listContiguousEvents).
LogContiguous == \A n \in Sequences : (outbox[n] # None) <=> (n <= head.seq)

\* The revisions form one chain that ends in the head: numbers are not reused
\* and every later revision was built on the one numbered just before it.
RevisionChain ==
  /\ head.rev \in Existing
  /\ revisions[head.rev].number = head.num
  /\ \A r \in Existing : revisions[r].number <= head.num
  /\ \A r, s \in Existing : revisions[r].number = revisions[s].number => r = s
  /\ \A r \in Existing : revisions[r].number > 1 =>
       /\ revisions[r].previous \in Existing
       /\ revisions[revisions[r].previous].number = revisions[r].number - 1

\* No lost update: every revision replaced exactly the revision its author had
\* seen as head, however long the request waited for the lock of the board.
NoLostUpdate ==
  \A r \in Existing : revisions[r].scope # None =>
    LET record == records[<<"M", revisions[r].scope>>] IN
    record # None /\ record.fingerprint.expected = revisions[r].previous

\* The catalogue lists exactly the stored revisions and marks as head the one
\* the head row names, which is what a restore and a replay rely on.
CatalogFollowsHead ==
  \A r \in RevisionIds : /\ (catalog[r] = "head") <=> (r = head.rev)
                         /\ (catalog[r] # "absent") <=> (r \in Existing)

CreatedAt(n, r) == outbox[n] = RevisionCreated(r)

\* Every revision is announced by exactly one event, the log announces them in
\* the order of their numbers, and announces nothing that does not exist.
RevisionsAnnounced ==
  /\ \A r \in Existing : \E n \in Sequences : CreatedAt(n, r)
  /\ \A m, n \in Sequences : \A r, s \in RevisionIds :
       CreatedAt(m, r) /\ CreatedAt(n, s) =>
         /\ r \in Existing
         /\ m < n => revisions[r].number < revisions[s].number

\* A resync event names the head that was durable when it was appended, which
\* a client compares with the head of the snapshot it fetches next.
ResyncNamesDurableHead ==
  \A n \in Sequences : outbox[n] # None /\ outbox[n].type = "stream.resync.required" =>
    \E m \in 1..(n - 1) :
      /\ CreatedAt(m, outbox[n].subject)
      /\ \A k \in (m + 1)..(n - 1) : outbox[k].type # "board.revision.created"

\* A client that folds the status events of an artifact ends in its stored
\* status.
ArtifactLogMatchesState ==
  \A a \in Artifacts :
    LET events == {n \in Sequences : /\ outbox[n] # None
                                     /\ outbox[n].type = "artifact.status.changed"
                                     /\ outbox[n].subject = a}
    IN IF events = {} THEN artifacts[a] = "absent"
       ELSE \E n \in events : /\ \A m \in events : m <= n
                              /\ outbox[n].state = artifacts[a]

\* However often a request is sent, its key stands for at most one revision,
\* the completed record names that revision and the event that announced it,
\* and no record is left pending.
ExactlyOnce ==
  /\ \A k \in RecordKeys : records[k] # None => records[k].status = "C"
  /\ \A r \in Existing : revisions[r].scope # None =>
       LET key == <<"M", revisions[r].scope>> IN
       /\ records[key] # None
       /\ records[key].fingerprint.op \in SceneOperations
       /\ records[key].result.revision = r
       /\ records[key].result.event \in Sequences
       /\ CreatedAt(records[key].result.event, r)

\* All answers of success to one key carry the same result, whether the first
\* answer was lost or not.
RepliesAgree ==
  \A x, y \in replies :
    x.key = y.key /\ x.result # None /\ y.result # None => x.result = y.result

\* A refusal for a revision conflict is final: the refused request did not
\* take effect before, under a lost answer, and does not take effect later.
ConflictIsFinal ==
  \A x \in replies : x.outcome = "REVISION_CONFLICT" =>
    /\ x.fingerprint.expected # head.rev
    /\ records[x.key] # None => records[x.key].fingerprint # x.fingerprint

\* Rows of the log, the revisions and the records are never rewritten.
AppendOnly ==
  [][/\ \A n \in Sequences : outbox[n] # None => outbox'[n] = outbox[n]
     /\ \A r \in Existing : revisions'[r] = revisions[r]
     /\ \A k \in RecordKeys : records[k] # None => records'[k] = records[k]]_vars

\* The schema version of the head never goes back, whatever revision is
\* restored and whatever version the client speaks.
SchemaNeverDowngrades == [][revisions'[head'.rev].schema >= HeadSchema]_vars

\* Nothing is written to the history or the log of an archived board.
ArchivedIsFrozen ==
  [][archived => archived' /\ UNCHANGED <<head, revisions, outbox, artifacts>>]_vars

----------------------------------------------------------------------------
(* The properties, grouped by what they are about *)

\* No update is lost: the revisions are one numbered chain, each was made on
\* the revision its author had seen as head, however long the request waited
\* for the lock of the board, and the catalogue marks the end of the chain.
ChainHolds == RevisionChain /\ NoLostUpdate /\ CatalogFollowsHead

\* A key acts once: one key makes at most one revision, every answer to it
\* tells the same, whichever answers were lost, and a refusal for a conflict
\* is final.
KeyActsOnce == ExactlyOnce /\ RepliesAgree /\ ConflictIsFinal

\* The log tells the state: no hole up to the head's sequence, the revisions
\* announced once and in their order, each resynchronisation naming the head
\* that was durable at its place, the last status of an artifact the stored one.
LogTellsState ==
  TypeOK /\ LogContiguous /\ RevisionsAnnounced /\ ResyncNamesDurableHead
    /\ ArtifactLogMatchesState

\* No step rewrites a stored row, writes to the history of an archived board
\* or gives the head an older schema than it has.
HistoryIsKept == AppendOnly /\ ArchivedIsFrozen /\ SchemaNeverDowngrades

----------------------------------------------------------------------------
(* The board as the log of BoardLog *)

Entry(n) == IF outbox[n].type = "board.revision.created" THEN outbox[n].subject ELSE None
Entries == [n \in 1..head.seq |-> Entry(n)]
Taken ==
  [k \in RecordKeys |->
     IF records[k] = None THEN None
     ELSE [base |-> records[k].fingerprint.expected,
           made |-> IF records[k].fingerprint.op \in SceneOperations
                    THEN records[k].result.revision ELSE None]]

Log == INSTANCE BoardLog WITH Revisions <- RevisionIds, Keys <- RecordKeys,
                              head <- head.rev, closed <- archived,
                              taken <- Taken, log <- Entries

\* Every transaction of the board is one step of the abstract log or changes
\* nothing a caller or a stream can tell: no update is lost, no key acts twice,
\* nothing is announced out of order, no request acts on an archived board.
ImplementsLog == Log!Spec
=============================================================================
