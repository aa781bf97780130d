------------------------- MODULE BoardLedger_proofs -------------------------
(* Theorems about BoardLedger for every set of revisions, keys, artifacts   *)
(* and requests, and every limit of the event sequence: the chain, the      *)
(* answers, the event log, and that the ledger implements the log of BoardLog; *)
(* and about HitlInteractions, for every set of questions, every expiry,    *)
(* skew and clock: they are settled once, in time and as their events and   *)
(* records say.  Only the last part uses the assumptions about questions.   *)
EXTENDS HitlInteractions, Sequences, TLAPS

(***************************************************************************)
(* What the transactions are built from                                    *)
(***************************************************************************)

\* A request has a well-formed fingerprint and a well-formed record key.
LEMMA RequestTyped ==
  ASSUME NEW q \in Requests
  PROVE  /\ Fingerprint(q) \in FingerprintType
         /\ RecordKey(q) \in RecordKeys
         /\ q \in RequestType
  <1>1. q \in RequestType
    BY LedgerAssumption
  <1>2. Fingerprint(q) \in FingerprintType
    BY <1>1 DEF Fingerprint, FingerprintType, RequestType, SchemaVersions
  <1>3. RecordKey(q) \in RecordKeys
    BY <1>1 DEF RecordKey, RecordKeys, ScopeCode, RequestType
  <1>4. QED
    BY <1>1, <1>2, <1>3

\* An answer keeps the remembered answers well formed.
LEMMA AnswerTyped ==
  ASSUME NEW q \in Requests, NEW outcome \in Outcomes, NEW result \in ResultType \cup {None},
         replies \subseteq ReplyType, Answer(q, outcome, result)
  PROVE  replies' \subseteq ReplyType
  <1>1. [key |-> RecordKey(q), fingerprint |-> Fingerprint(q),
         outcome |-> outcome, result |-> result] \in ReplyType
    BY RequestTyped DEF ReplyType
  <1>2. QED
    BY <1>1 DEF Answer

\* A completed record is well formed and no other record changes.
LEMMA CompleteTyped ==
  ASSUME NEW q \in Requests, NEW result \in ResultType,
         records \in [RecordKeys -> RecordType \cup {None}], Complete(q, result)
  PROVE  records' \in [RecordKeys -> RecordType \cup {None}]
  <1>1. [fingerprint |-> Fingerprint(q), status |-> "C", result |-> result] \in RecordType
    BY RequestTyped DEF RecordType
  <1>2. QED
    BY <1>1, RequestTyped DEF Complete

\* Appending at the next sequence number extends a log without holes by one.
LEMMA AppendKeepsLog ==
  ASSUME TypeOK, LogContiguous, head.seq < MaxSequence,
         NEW type, NEW subject, NEW state,
         [type |-> type, subject |-> subject, state |-> state] \in EventType,
         AppendEvent(type, subject, state), head'.seq = NextSequence
  PROVE  /\ outbox' \in [Sequences -> EventType \cup {None}]
         /\ LogContiguous'
         /\ NextSequence \in Sequences
  <1> DEFINE row == [type |-> type, subject |-> subject, state |-> state]
  <1>1. /\ head.seq \in Nat /\ NextSequence = head.seq + 1 /\ MaxSequence \in Nat
        /\ NextSequence \in Sequences
    BY LedgerAssumption DEF TypeOK, Sequences, NextSequence
  <1>2. row # None
    BY NullAssumption
  <1>3. /\ outbox' \in [Sequences -> EventType \cup {None}]
        /\ outbox'[NextSequence] = row
        /\ \A n \in Sequences : n # NextSequence => outbox'[n] = outbox[n]
    BY <1>1 DEF TypeOK, AppendEvent
  <1>4. ASSUME NEW n \in Sequences
        PROVE  (outbox'[n] # None) <=> (n <= head'.seq)
    <2>1. CASE n = NextSequence
      BY <2>1, <1>1, <1>2, <1>3
    <2>2. CASE n # NextSequence
      BY <2>2, <1>1, <1>3 DEF LogContiguous, Sequences
    <2>3. QED
      BY <2>1, <2>2
  <1>5. QED
    BY <1>1, <1>3, <1>4 DEF LogContiguous, Sequences

(***************************************************************************)
(* The inductive invariant                                                 *)
(*                                                                         *)
(* TypeOK alone is not inductive: a restore copies the schema version of a *)
(* catalogued revision, which is a number only because the catalogue lists *)
(* stored revisions, and an event is appended in bounds only because the   *)
(* log ends where the head row says.                                       *)
(***************************************************************************)

IInv == TypeOK /\ LogContiguous /\ CatalogFollowsHead

\* The board as created satisfies the inductive invariant.
LEMMA InitIInv == Init => IInv
  <1> SUFFICES ASSUME NEW r \in RevisionIds,
                 /\ head = [rev |-> r, num |-> 1, seq |-> 1]
                 /\ archived = FALSE
                 /\ revisions = [i \in RevisionIds |->
                      IF i = r THEN [number |-> 1, previous |-> None, source |-> None,
                                     schema |-> 1, scope |-> None]
                      ELSE None]
                 /\ catalog = [i \in RevisionIds |-> IF i = r THEN "head" ELSE "absent"]
                 /\ outbox = [n \in Sequences |->
                      IF n = 1 THEN [type |-> "board.revision.created", subject |-> r,
                                     state |-> "created"]
                      ELSE None]
                 /\ records = [k \in RecordKeys |-> None]
                 /\ artifacts = [a \in Artifacts |-> "absent"]
                 /\ replies = {}
               PROVE  IInv
    BY DEF Init
  <1> DEFINE first == [number |-> 1, previous |-> None, source |-> None,
                       schema |-> 1, scope |-> None]
             event == [type |-> "board.revision.created", subject |-> r, state |-> "created"]
  <1>1. 1 \in Sequences /\ MaxSequence \in Nat
    BY LedgerAssumption DEF Sequences
  <1>2. first \in RevisionType /\ event \in EventType
    BY <1>1 DEF RevisionType, EventType, SchemaVersions, Sequences
  <1>3. first # None /\ event # None
    BY <1>2, NullAssumption
  <1>4. TypeOK
    BY <1>1, <1>2 DEF TypeOK
  <1>5. LogContiguous
    BY <1>1, <1>3 DEF LogContiguous, Sequences
  <1>6. CatalogFollowsHead
    BY <1>3 DEF CatalogFollowsHead, Existing
  <1>7. QED
    BY <1>4, <1>5, <1>6 DEF IInv

\* The schema version a mutation stores is a schema version.
LEMMA StoredSchemaTyped ==
  ASSUME IInv, NEW q \in Requests, q.op \in SceneOperations, Restorable(q)
  PROVE  StoredSchema(q) \in SchemaVersions
  <1>1. CASE q.op = "scene.restore"
    <2>1. q.arg \in Existing
      BY <1>1 DEF IInv, CatalogFollowsHead, Restorable
    <2>2. revisions[q.arg] \in RevisionType
      BY <2>1 DEF IInv, TypeOK, Existing
    <2>3. revisions[q.arg].schema \in SchemaVersions
      BY <2>2 DEF RevisionType
    <2>4. QED
      BY <1>1, <2>3 DEF StoredSchema, SchemaVersions
  <1>2. CASE q.op # "scene.restore"
    BY <1>2 DEF StoredSchema, SceneOperations, SchemaVersions
  <1>3. QED
    BY <1>1, <1>2

\* A scene mutation or a restore keeps the inductive invariant.
LEMMA CreateRevisionIInv ==
  ASSUME IInv, NEW q \in Requests, NEW id \in RevisionIds, CreateRevision(q, id)
  PROVE  IInv'
  <1> DEFINE result == [revision |-> id, event |-> NextSequence]
             row == [number |-> head.num + 1, previous |-> head.rev,
                     source |-> IF q.op = "scene.restore" THEN q.arg ELSE None,
                     schema |-> StoredSchema(q), scope |-> q.scope]
  <1>1. /\ q.op \in SceneOperations /\ Restorable(q) /\ id \notin Existing
        /\ head.num < MaxSequence /\ head.seq < MaxSequence
        /\ revisions' = [revisions EXCEPT ![id] = row]
        /\ PersistCatalog(id) /\ AdvanceHead(id)
        /\ AppendEvent("board.revision.created", id, "created")
        /\ Complete(q, result) /\ Answer(q, "applied", result)
        /\ UNCHANGED <<archived, artifacts>>
    BY DEF CreateRevision
  <1>2. /\ head' = [rev |-> id, num |-> head.num + 1, seq |-> NextSequence]
        /\ head.rev \in RevisionIds /\ head.num \in Nat /\ head.seq \in Nat
        /\ MaxSequence \in Nat /\ head.num + 1 \in Sequences
    BY <1>1, LedgerAssumption DEF AdvanceHead, IInv, TypeOK, Sequences
  <1>3. [type |-> "board.revision.created", subject |-> id, state |-> "created"] \in EventType
    BY DEF EventType
  <1>4. /\ outbox' \in [Sequences -> EventType \cup {None}]
        /\ LogContiguous' /\ NextSequence \in Sequences
    BY <1>1, <1>2, <1>3, AppendKeepsLog DEF IInv
  <1>5. row \in RevisionType
    <2>1. q.scope \in Scopes
      BY RequestTyped DEF RequestType
    <2>2. q.op = "scene.restore" => q.arg \in RevisionIds
      BY <1>1 DEF Restorable
    <2>3. StoredSchema(q) \in SchemaVersions
      BY <1>1, StoredSchemaTyped
    <2>4. QED
      BY <1>2, <2>1, <2>2, <2>3 DEF RevisionType, Sequences
  <1>6. revisions' \in [RevisionIds -> RevisionType \cup {None}]
    BY <1>1, <1>5 DEF IInv, TypeOK
  <1>7. result \in ResultType
    BY <1>4 DEF ResultType, Sequences
  <1>8. records' \in [RecordKeys -> RecordType \cup {None}]
    BY <1>1, <1>7, CompleteTyped DEF IInv, TypeOK
  <1>9. replies' \subseteq ReplyType
    BY <1>1, <1>7, AnswerTyped DEF IInv, TypeOK, Outcomes
  <1>10. catalog' \in [RevisionIds -> {"absent", "retained", "head"}]
    BY <1>1 DEF PersistCatalog, IInv, TypeOK
  <1>11. TypeOK'
    BY <1>1, <1>2, <1>4, <1>6, <1>8, <1>9, <1>10 DEF IInv, TypeOK
  <1>12. CatalogFollowsHead'
    <2>1. row # None
      BY <1>5, NullAssumption
    <2>2. SUFFICES ASSUME NEW r \in RevisionIds
                   PROVE  /\ (catalog'[r] = "head") <=> (r = id)
                          /\ (catalog'[r] # "absent") <=> (revisions'[r] # None)
      BY <1>2 DEF CatalogFollowsHead, Existing
    <2>3. catalog'[r] = IF r = id THEN "head"
                        ELSE IF catalog[r] = "head" THEN "retained" ELSE catalog[r]
      BY <1>1 DEF PersistCatalog
    <2>4. revisions'[r] = IF r = id THEN row ELSE revisions[r]
      BY <1>1 DEF IInv, TypeOK
    <2>5. (catalog[r] # "absent") <=> (revisions[r] # None)
      BY DEF IInv, CatalogFollowsHead, Existing
    <2>6. QED
      BY <2>1, <2>3, <2>4, <2>5
  <1>13. QED
    BY <1>4, <1>11, <1>12 DEF IInv

\* A control mutation that appends an event and changes one artifact at most.
LEMMA ControlIInv ==
  ASSUME IInv, NEW q \in Requests, NEW a \in Artifacts, NEW s \in {"ready", "stopped"},
         AllocateSequence,
         artifacts' = [artifacts EXCEPT ![a] = s],
         AppendEvent("artifact.status.changed", a, s),
         Complete(q, [revision |-> None, event |-> NextSequence]),
         Answer(q, "applied", [revision |-> None, event |-> NextSequence]),
         UNCHANGED <<archived, revisions, catalog>>
  PROVE  IInv'
  <1>1. /\ head.seq < MaxSequence /\ head' = [head EXCEPT !.seq = NextSequence]
        /\ head \in [rev : RevisionIds, num : Sequences, seq : Sequences]
    BY DEF AllocateSequence, IInv, TypeOK
  <1>2. head'.seq = NextSequence /\ head'.rev = head.rev /\ head'.num = head.num
    BY <1>1
  <1>3. [type |-> "artifact.status.changed", subject |-> a, state |-> s] \in EventType
    BY DEF EventType
  <1>4. /\ outbox' \in [Sequences -> EventType \cup {None}]
        /\ LogContiguous' /\ NextSequence \in Sequences
    BY <1>1, <1>2, <1>3, AppendKeepsLog DEF IInv
  <1>5. [revision |-> None, event |-> NextSequence] \in ResultType
    BY <1>4 DEF ResultType, Sequences
  <1>6. /\ records' \in [RecordKeys -> RecordType \cup {None}]
        /\ replies' \subseteq ReplyType
    BY <1>5, CompleteTyped, AnswerTyped DEF IInv, TypeOK, Outcomes
  <1>7. TypeOK'
    BY <1>1, <1>4, <1>6 DEF IInv, TypeOK
  <1>8. CatalogFollowsHead'
    BY <1>2 DEF IInv, CatalogFollowsHead, Existing
  <1>9. QED
    BY <1>4, <1>7, <1>8 DEF IInv

\* A transaction that only completes a record and may close the board.
LEMMA RecordOnlyIInv ==
  ASSUME IInv, NEW q \in Requests, NEW r \in RevisionIds \cup {None},
         archived' \in BOOLEAN,
         Complete(q, [revision |-> r, event |-> 0]),
         Answer(q, "applied", [revision |-> r, event |-> 0]),
         UNCHANGED <<head, revisions, catalog, outbox, artifacts>>
  PROVE  IInv'
  <1>1. [revision |-> r, event |-> 0] \in ResultType
    BY LedgerAssumption DEF ResultType
  <1>2. /\ records' \in [RecordKeys -> RecordType \cup {None}]
        /\ replies' \subseteq ReplyType
    BY <1>1, CompleteTyped, AnswerTyped DEF IInv, TypeOK, Outcomes
  <1>3. QED
    BY <1>2 DEF IInv, TypeOK, LogContiguous, CatalogFollowsHead, Existing

\* A transaction that is rolled back after it has read: only an answer is left.
LEMMA AnswerOnlyIInv ==
  ASSUME IInv, replies' \subseteq ReplyType,
         UNCHANGED <<head, archived, revisions, catalog, outbox, records, artifacts>>
  PROVE  IInv'
  BY DEF IInv, TypeOK, LogContiguous, CatalogFollowsHead, Existing

\* Every transaction a request can run keeps the inductive invariant.
LEMMA HandleIInv ==
  ASSUME IInv, NEW q \in Requests, Handle(q)
  PROVE  IInv'
  <1>1. ASSUME NEW id \in RevisionIds, CreateRevision(q, id) PROVE IInv'
    BY <1>1, CreateRevisionIInv
  <1>2. CASE PublishArtifact(q)
    <2>1. q.arg \in Artifacts
      BY <1>2, LedgerAssumption DEF PublishArtifact, ArtifactOperations
    <2>2. QED
      BY <1>2, <2>1, ControlIInv DEF PublishArtifact
  <1>3. CASE StopReadyArtifact(q)
    <2>1. q.arg \in Artifacts
      BY <1>3, LedgerAssumption DEF StopReadyArtifact, ArtifactOperations
    <2>2. QED
      BY <1>3, <2>1, ControlIInv DEF StopReadyArtifact
  <1>4. CASE StopStoppedArtifact(q)
    BY <1>4, RecordOnlyIInv DEF StopStoppedArtifact, IInv, TypeOK
  <1>5. CASE Archive(q)
    <2>1. head.rev \in RevisionIds
      BY DEF IInv, TypeOK
    <2>2. QED
      BY <1>5, <2>1, RecordOnlyIInv DEF Archive
  <1>6. CASE Replay(q)
    <2>1. /\ records[RecordKey(q)] # None
          /\ records \in [RecordKeys -> RecordType \cup {None}]
      BY <1>6 DEF Replay, Known, IInv, TypeOK
    <2>2. StoredResult(q) \in ResultType
      BY <2>1, RequestTyped DEF StoredResult, RecordType
    <2>3. replies' \subseteq ReplyType
      BY <1>6, <2>2, AnswerTyped DEF Replay, IInv, TypeOK, Outcomes
    <2>4. QED
      BY <1>6, <2>3, AnswerOnlyIInv DEF Replay
  <1>7. CASE RefuseReuse(q)
    <2>1. replies' \subseteq ReplyType
      BY <1>7, AnswerTyped DEF RefuseReuse, IInv, TypeOK, Outcomes
    <2>2. QED
      BY <1>7, <2>1, AnswerOnlyIInv DEF RefuseReuse
  <1>8. CASE RefuseConflict(q)
    <2>1. replies' \subseteq ReplyType
      BY <1>8, AnswerTyped DEF RefuseConflict, IInv, TypeOK, Outcomes
    <2>2. QED
      BY <1>8, <2>1, AnswerOnlyIInv DEF RefuseConflict
  <1>9. QED
    BY <1>1, <1>2, <1>3, <1>4, <1>5, <1>6, <1>7, <1>8 DEF Handle

\* The events that follow a change of access keep the inductive invariant.
LEMMA InvalidationIInv ==
  ASSUME IInv, AppendInvalidation
  PROVE  IInv'
  <1>1. /\ head.seq < MaxSequence /\ head' = [head EXCEPT !.seq = NextSequence]
        /\ head \in [rev : RevisionIds, num : Sequences, seq : Sequences]
        /\ AppendEvent("stream.resync.required", head.rev, "head")
        /\ UNCHANGED <<archived, revisions, catalog, records, artifacts, replies>>
    BY DEF AppendInvalidation, AllocateSequence, IInv, TypeOK
  <1>2. head'.seq = NextSequence /\ head'.rev = head.rev
    BY <1>1
  <1>3. [type |-> "stream.resync.required", subject |-> head.rev, state |-> "head"]
          \in EventType
    BY <1>1 DEF EventType
  <1>4. /\ outbox' \in [Sequences -> EventType \cup {None}]
        /\ LogContiguous' /\ NextSequence \in Sequences
    BY <1>1, <1>2, <1>3, AppendKeepsLog DEF IInv
  <1>5. TypeOK'
    BY <1>1, <1>4 DEF IInv, TypeOK
  <1>6. CatalogFollowsHead'
    BY <1>1, <1>2 DEF IInv, CatalogFollowsHead, Existing
  <1>7. QED
    BY <1>4, <1>5, <1>6 DEF IInv

\* Every step keeps the inductive invariant.
LEMMA NextIInv == IInv /\ [Next]_vars => IInv'
  <1> SUFFICES ASSUME IInv, [Next]_vars PROVE IInv'
    OBVIOUS
  <1>1. ASSUME NEW q \in Requests, Handle(q) PROVE IInv'
    BY <1>1, HandleIInv
  <1>2. CASE AppendInvalidation
    BY <1>2, InvalidationIInv
  <1>3. CASE UNCHANGED vars
    BY <1>3 DEF vars, IInv, TypeOK, LogContiguous, CatalogFollowsHead, Existing
  <1>4. QED
    BY <1>1, <1>2, <1>3 DEF Next

\* The inductive invariant holds in every reachable state.
LEMMA Invariance == Spec => []IInv
  BY InitIInv, NextIInv, PTL DEF Spec

\* Every row keeps the shape its table gives it, whatever requests callers
\* send and however they are retried.
THEOREM TypeCorrect == Spec => []TypeOK
  BY Invariance, PTL DEF IInv

\* The event log has no hole: a stream that replays from a cursor finds every
\* event up to the sequence the head row names.
THEOREM LogHasNoHole == Spec => []LogContiguous
  BY Invariance, PTL DEF IInv

\* The catalogue lists exactly the stored revisions and marks the head.
THEOREM CatalogCorrect == Spec => []CatalogFollowsHead
  BY Invariance, PTL DEF IInv

(***************************************************************************)
(* Rows are only added                                                     *)
(***************************************************************************)

Extends ==
  /\ \A n \in Sequences : outbox[n] # None => outbox'[n] = outbox[n]
  /\ \A r \in Existing : revisions'[r] = revisions[r]
  /\ \A k \in RecordKeys : records[k] # None => records'[k] = records[k]

\* A record that appears in a step has been completed in the same step.
AddsCompleted ==
  \A k \in RecordKeys : records[k] = None /\ records'[k] # None => records'[k].status = "C"

\* The row after the last event of the log was free.
LEMMA AppendExtends ==
  ASSUME IInv, head.seq < MaxSequence, NEW type, NEW subject, NEW state,
         AppendEvent(type, subject, state)
  PROVE  /\ \A n \in Sequences : outbox[n] # None => outbox'[n] = outbox[n]
         /\ outbox'[NextSequence] = [type |-> type, subject |-> subject, state |-> state]
  <1>1. /\ head.seq \in Nat /\ MaxSequence \in Nat /\ NextSequence = head.seq + 1
        /\ NextSequence \in Sequences /\ outbox \in [Sequences -> EventType \cup {None}]
    BY LedgerAssumption DEF IInv, TypeOK, Sequences, NextSequence
  <1>2. outbox[NextSequence] = None
    BY <1>1 DEF IInv, LogContiguous
  <1>3. QED
    BY <1>1, <1>2 DEF AppendEvent

\* A record is completed under a key that had none.
LEMMA CompleteExtends ==
  ASSUME IInv, NEW q \in Requests, NEW result, ~Known(q), Complete(q, result)
  PROVE  /\ \A k \in RecordKeys : records[k] # None => records'[k] = records[k]
         /\ records'[RecordKey(q)] =
              [fingerprint |-> Fingerprint(q), status |-> "C", result |-> result]
         /\ AddsCompleted
  <1>1. records \in [RecordKeys -> RecordType \cup {None}] /\ RecordKey(q) \in RecordKeys
    BY RequestTyped DEF IInv, TypeOK
  <1>2. QED
    BY <1>1 DEF Complete, Known, AddsCompleted

\* A revision is added to the ones stored, with one event after the last.
LEMMA CreateRevisionExtends ==
  ASSUME IInv, NEW q \in Requests, NEW id \in RevisionIds, CreateRevision(q, id)
  PROVE  Extends /\ AddsCompleted
  <1>1. /\ id \notin Existing /\ head.seq < MaxSequence /\ ~Known(q)
        /\ AppendEvent("board.revision.created", id, "created")
        /\ Complete(q, [revision |-> id, event |-> NextSequence])
    BY DEF CreateRevision
  <1>2. \A r \in Existing : revisions'[r] = revisions[r]
    BY <1>1 DEF CreateRevision, IInv, TypeOK, Existing
  <1>3. \A n \in Sequences : outbox[n] # None => outbox'[n] = outbox[n]
    BY <1>1, AppendExtends
  <1>4. QED
    BY <1>1, <1>2, <1>3, CompleteExtends DEF Extends

\* The other transactions leave the revisions and the head revision alone.
LEMMA OtherSteps ==
  ASSUME IInv, NEW q \in Requests, Handle(q),
         ~ \E id \in RevisionIds : CreateRevision(q, id)
  PROVE  /\ Extends /\ AddsCompleted
         /\ UNCHANGED revisions /\ head'.rev = head.rev /\ head'.num = head.num
  <1> USE DEF Extends
  <1>1. ASSUME AllocateSequence PROVE /\ head.seq < MaxSequence
                                      /\ head'.rev = head.rev /\ head'.num = head.num
    BY <1>1 DEF AllocateSequence, IInv, TypeOK
  <1>2. ASSUME ControlAdmitted(q) PROVE ~Known(q)
    BY <1>2 DEF ControlAdmitted
  <1>3. CASE PublishArtifact(q)
    BY <1>1, <1>2, <1>3, AppendExtends, CompleteExtends DEF PublishArtifact
  <1>4. CASE StopReadyArtifact(q)
    BY <1>1, <1>2, <1>4, AppendExtends, CompleteExtends DEF StopReadyArtifact
  <1>5. CASE StopStoppedArtifact(q)
    BY <1>2, <1>5, CompleteExtends DEF StopStoppedArtifact
  <1>6. CASE Archive(q)
    BY <1>6, CompleteExtends DEF Archive
  <1>7. CASE Replay(q) \/ RefuseReuse(q) \/ RefuseConflict(q)
    BY <1>7 DEF Replay, RefuseReuse, RefuseConflict, AddsCompleted
  <1>8. QED
    BY <1>3, <1>4, <1>5, <1>6, <1>7 DEF Handle

\* Every transaction but the one that makes a revision leaves the revisions alone.
LEMMA OtherNext ==
  ASSUME IInv, [Next]_vars,
         ~ \E q \in Requests, id \in RevisionIds : CreateRevision(q, id)
  PROVE  /\ Extends /\ AddsCompleted
         /\ UNCHANGED revisions /\ head'.rev = head.rev /\ head'.num = head.num
  <1>1. ASSUME NEW q \in Requests, Handle(q)
        PROVE  /\ Extends /\ AddsCompleted
               /\ UNCHANGED revisions /\ head'.rev = head.rev /\ head'.num = head.num
    BY <1>1, OtherSteps
  <1>2. CASE AppendInvalidation
    <2>1. /\ head.seq < MaxSequence /\ head'.rev = head.rev /\ head'.num = head.num
          /\ AppendEvent("stream.resync.required", head.rev, "head")
          /\ UNCHANGED <<revisions, records>>
      BY <1>2 DEF AppendInvalidation, AllocateSequence, IInv, TypeOK
    <2>2. QED
      BY <2>1, AppendExtends DEF Extends, AddsCompleted
  <1>3. CASE UNCHANGED vars
    BY <1>3 DEF vars, Extends, AddsCompleted
  <1>4. QED
    BY <1>1, <1>2, <1>3 DEF Next

\* No step rewrites a stored row, and new records are completed ones.
LEMMA NextExtends == IInv /\ [Next]_vars => Extends /\ AddsCompleted
  BY OtherNext, CreateRevisionExtends

\* Rows of the log, the revisions and the records are never rewritten.
THEOREM RowsAreNeverRewritten == Spec => AppendOnly
  <1>1. IInv /\ [Next]_vars =>
          [/\ \A n \in Sequences : outbox[n] # None => outbox'[n] = outbox[n]
           /\ \A r \in Existing : revisions'[r] = revisions[r]
           /\ \A k \in RecordKeys : records[k] # None => records'[k] = records[k]]_vars
    BY NextExtends DEF Extends
  <1>2. QED
    BY <1>1, Invariance, PTL DEF Spec, AppendOnly

(***************************************************************************)
(* The history of the board                                                *)
(***************************************************************************)

HInv == IInv /\ RevisionChain /\ NoLostUpdate /\ ExactlyOnce

\* The history invariant holds of the board as created.
LEMMA InitHInv == Init => HInv
  <1> SUFFICES ASSUME Init PROVE RevisionChain /\ NoLostUpdate /\ ExactlyOnce
    BY InitIInv DEF HInv
  <1>1. PICK r \in RevisionIds :
          /\ head = [rev |-> r, num |-> 1, seq |-> 1]
          /\ revisions = [i \in RevisionIds |->
               IF i = r THEN [number |-> 1, previous |-> None, source |-> None,
                              schema |-> 1, scope |-> None]
               ELSE None]
          /\ records = [k \in RecordKeys |-> None]
    BY DEF Init
  <1> DEFINE first == [number |-> 1, previous |-> None, source |-> None,
                       schema |-> 1, scope |-> None]
  <1>2. first # None
    <2>1. IInv
      BY InitIInv
    <2>2. catalog[r] = "head"
      BY <1>1, <2>1 DEF IInv, CatalogFollowsHead
    <2>3. revisions[r] # None
      BY <2>1, <2>2 DEF IInv, CatalogFollowsHead, Existing
    <2>4. QED
      BY <1>1, <2>3
  <1>3. Existing = {r} /\ revisions[r] = first
    BY <1>1, <1>2 DEF Existing
  <1>4. QED
    BY <1>1, <1>3 DEF RevisionChain, NoLostUpdate, ExactlyOnce

\* A step that leaves the revisions alone and only adds rows.
LEMMA OtherHInv ==
  ASSUME HInv, IInv', Extends, AddsCompleted,
         UNCHANGED revisions, head'.rev = head.rev, head'.num = head.num
  PROVE  HInv'
  <1>1. Existing' = Existing
    BY DEF Existing
  <1>2. RevisionChain'
    BY <1>1 DEF HInv, RevisionChain
  <1>3. ASSUME NEW r \in Existing, revisions[r].scope # None
        PROVE  <<"M", revisions[r].scope>> \in RecordKeys
    <2>1. revisions[r] \in RevisionType
      BY <1>3 DEF HInv, IInv, TypeOK, Existing
    <2>2. QED
      BY <1>3, <2>1 DEF RevisionType, RecordKeys
  <1>4. NoLostUpdate'
    BY <1>1, <1>3 DEF HInv, NoLostUpdate, Extends
  <1>5. ExactlyOnce'
    <2>1. \A k \in RecordKeys : records'[k] # None => records'[k].status = "C"
      BY DEF HInv, ExactlyOnce, Extends, AddsCompleted
    <2>2. ASSUME NEW r \in Existing, revisions[r].scope # None,
                 NEW key, key = <<"M", revisions[r].scope>>
          PROVE  /\ records'[key] # None
                 /\ records'[key].fingerprint.op \in SceneOperations
                 /\ records'[key].result.revision = r
                 /\ records'[key].result.event \in Sequences
                 /\ outbox'[records'[key].result.event] = RevisionCreated(r)
      <3>1. /\ key \in RecordKeys /\ records[key] # None
            /\ records[key].fingerprint.op \in SceneOperations
            /\ records[key].result.revision = r
            /\ records[key].result.event \in Sequences
            /\ outbox[records[key].result.event] = RevisionCreated(r)
        BY <1>3, <2>2 DEF HInv, ExactlyOnce, CreatedAt
      <3>2. RevisionCreated(r) # None
        <4>1. RevisionCreated(r) \in EventType
          BY DEF RevisionCreated, EventType, Existing
        <4>2. QED
          BY <4>1, NullAssumption
      <3>3. outbox'[records[key].result.event] = outbox[records[key].result.event]
        BY <3>1, <3>2 DEF Extends
      <3>4. records'[key] = records[key]
        BY <3>1 DEF Extends
      <3>5. QED
        BY <3>1, <3>3, <3>4
    <2>3. QED
      BY <1>1, <2>1, <2>2 DEF ExactlyOnce, CreatedAt, RevisionCreated
  <1>6. QED
    BY <1>2, <1>4, <1>5 DEF HInv

\* The created revision continues the chain: its number is new, its parent is
\* the head it replaces.
LEMMA CreateKeepsChain ==
  ASSUME HInv, NEW q \in Requests, NEW id \in RevisionIds, CreateRevision(q, id)
  PROVE  RevisionChain'
  <1> DEFINE row == [number |-> head.num + 1, previous |-> head.rev,
                     source |-> IF q.op = "scene.restore" THEN q.arg ELSE None,
                     schema |-> StoredSchema(q), scope |-> q.scope]
  <1>1. /\ revisions' = [revisions EXCEPT ![id] = row] /\ id \notin Existing
        /\ head' = [rev |-> id, num |-> head.num + 1, seq |-> NextSequence]
        /\ head.num \in Nat
    BY DEF CreateRevision, AdvanceHead, HInv, IInv, TypeOK, Sequences
  <1>2. IInv'
    BY CreateRevisionIInv DEF HInv
  <1>3. /\ revisions'[id] = row
        /\ \A r \in RevisionIds : r # id => revisions'[r] = revisions[r]
    BY <1>1 DEF HInv, IInv, TypeOK
  <1>4. revisions'[id] # None
    BY <1>1, <1>2 DEF IInv, CatalogFollowsHead, Existing
  <1>5. /\ Existing' = Existing \cup {id}
        /\ \A r \in Existing : r # id /\ revisions'[r] = revisions[r]
    BY <1>1, <1>3, <1>4 DEF Existing
  <1>6. \A r \in Existing : revisions[r].number \in Nat /\ revisions[r].number <= head.num
    BY DEF HInv, IInv, TypeOK, RevisionChain, Existing, RevisionType
  <1>7. head.rev \in Existing /\ revisions[head.rev].number = head.num
    BY DEF HInv, RevisionChain
  <1>8. \A r \in Existing' : revisions'[r].number <= head'.num
    BY <1>1, <1>3, <1>5, <1>6
  <1>9. \A r, s \in Existing' : revisions'[r].number = revisions'[s].number => r = s
    BY <1>1, <1>3, <1>5, <1>6 DEF HInv, RevisionChain
  <1>10. ASSUME NEW r \in Existing', revisions'[r].number > 1
         PROVE  /\ revisions'[r].previous \in Existing'
                /\ revisions'[revisions'[r].previous].number = revisions'[r].number - 1
    <2>1. CASE r = id
      BY <2>1, <1>1, <1>3, <1>5, <1>7
    <2>2. CASE r \in Existing
      BY <2>2, <1>5, <1>10 DEF HInv, RevisionChain
    <2>3. QED
      BY <2>1, <2>2, <1>5
  <1>11. QED
    BY <1>1, <1>3, <1>5, <1>8, <1>9, <1>10 DEF RevisionChain

\* The record of the created revision is the only one that changes, and no
\* earlier revision was made under its key.
LEMMA CreateKeepsRecords ==
  ASSUME HInv, NEW q \in Requests, NEW id \in RevisionIds, CreateRevision(q, id)
  PROVE  NoLostUpdate' /\ ExactlyOnce'
  <1> DEFINE record == [fingerprint |-> Fingerprint(q), status |-> "C",
                        result |-> [revision |-> id, event |-> NextSequence]]
             key == <<"M", q.scope>>
  <1>1. /\ q.op \in SceneOperations /\ ~Known(q) /\ BasedOnHead(q) /\ id \notin Existing
        /\ head.seq < MaxSequence
        /\ AppendEvent("board.revision.created", id, "created")
        /\ Complete(q, [revision |-> id, event |-> NextSequence])
    BY DEF CreateRevision
  <1>2. Extends /\ AddsCompleted /\ IInv'
    BY CreateRevisionExtends, CreateRevisionIInv DEF HInv
  <1>3. RecordKey(q) = key /\ key \in RecordKeys
    BY <1>1, RequestTyped DEF RecordKey, ScopeCode, SceneOperations, RecordKeys, RequestType
  <1>4. records[key] = None /\ records'[key] = record
    BY <1>1, <1>3, CompleteExtends DEF Known, HInv
  <1>5. /\ revisions'[id].scope = q.scope /\ revisions'[id].previous = head.rev
        /\ Existing' = Existing \cup {id}
    <2>1. /\ revisions'[id] # None
          /\ revisions'[id].scope = q.scope /\ revisions'[id].previous = head.rev
          /\ \A r \in RevisionIds : r # id => revisions'[r] = revisions[r]
      <3>1. head'.rev = id
        BY DEF CreateRevision, AdvanceHead
      <3>2. QED
        BY <1>2, <3>1 DEF CreateRevision, HInv, IInv, TypeOK, CatalogFollowsHead, Existing
    <2>2. QED
      BY <2>1 DEF Existing
  <1>6. /\ NextSequence \in Sequences /\ outbox'[NextSequence] = RevisionCreated(id)
    BY <1>1, AppendExtends, LedgerAssumption
       DEF RevisionCreated, HInv, IInv, TypeOK, Sequences, NextSequence
  <1>7. record # None
    <2>1. record \in RecordType
      BY <1>6, RequestTyped DEF RecordType, ResultType, Sequences
    <2>2. QED
      BY <2>1, NullAssumption
  <1>8. ASSUME NEW r \in Existing, revisions[r].scope # None,
               NEW k, k = <<"M", revisions[r].scope>>
        PROVE  /\ revisions'[r] = revisions[r]
               /\ records'[k] = records[k] /\ records[k] # None
               /\ records[k].fingerprint.expected = revisions[r].previous
               /\ records[k].fingerprint.op \in SceneOperations
               /\ records[k].result.revision = r
               /\ records[k].result.event \in Sequences
               /\ outbox'[records[k].result.event] = RevisionCreated(r)
    <2>1. revisions'[r] = revisions[r]
      BY <1>2 DEF Extends
    <2>2. k \in RecordKeys
      <3>1. revisions[r] \in RevisionType
        BY DEF HInv, IInv, TypeOK, Existing
      <3>2. QED
        BY <1>8, <3>1 DEF RevisionType, RecordKeys
    <2>3. /\ records[k] # None
          /\ records[k].fingerprint.expected = revisions[r].previous
          /\ records[k].fingerprint.op \in SceneOperations
          /\ records[k].result.revision = r
          /\ records[k].result.event \in Sequences
          /\ outbox[records[k].result.event] = RevisionCreated(r)
      BY <1>8 DEF HInv, NoLostUpdate, ExactlyOnce, CreatedAt
    <2>4. RevisionCreated(r) # None
      <3>1. RevisionCreated(r) \in EventType
        BY DEF RevisionCreated, EventType, Existing
      <3>2. QED
        BY <3>1, NullAssumption
    <2>5. QED
      BY <1>2, <2>1, <2>2, <2>3, <2>4 DEF Extends
  <1>9. NoLostUpdate'
    <2>1. ASSUME NEW r \in Existing', revisions'[r].scope # None
          PROVE  /\ records'[<<"M", revisions'[r].scope>>] # None
                 /\ records'[<<"M", revisions'[r].scope>>].fingerprint.expected
                      = revisions'[r].previous
      <3>1. CASE r = id
        BY <3>1, <1>1, <1>4, <1>5, <1>7 DEF Fingerprint, BasedOnHead
      <3>2. CASE r \in Existing
        BY <3>2, <2>1, <1>2, <1>8 DEF Extends
      <3>3. QED
        BY <3>1, <3>2, <1>5
    <2>2. QED
      BY <2>1 DEF NoLostUpdate
  <1>10. ExactlyOnce'
    <2>1. \A k \in RecordKeys : records'[k] # None => records'[k].status = "C"
      BY <1>2 DEF HInv, ExactlyOnce, Extends, AddsCompleted
    <2>2. ASSUME NEW r \in Existing', revisions'[r].scope # None,
                 NEW k, k = <<"M", revisions'[r].scope>>
          PROVE  /\ records'[k] # None
                 /\ records'[k].fingerprint.op \in SceneOperations
                 /\ records'[k].result.revision = r
                 /\ records'[k].result.event \in Sequences
                 /\ outbox'[records'[k].result.event] = RevisionCreated(r)
      <3>1. CASE r = id
        BY <2>2, <3>1, <1>1, <1>4, <1>5, <1>6, <1>7 DEF Fingerprint
      <3>2. CASE r \in Existing
        BY <2>2, <3>2, <1>2, <1>8 DEF Extends
      <3>3. QED
        BY <3>1, <3>2, <1>5
    <2>3. QED
      BY <2>1, <2>2 DEF ExactlyOnce, CreatedAt, RevisionCreated
  <1>11. QED
    BY <1>9, <1>10

\* Every step keeps the history invariant.
LEMMA NextHInv == HInv /\ [Next]_vars => HInv'
  <1> SUFFICES ASSUME HInv, [Next]_vars PROVE HInv'
    OBVIOUS
  <1>1. IInv /\ IInv'
    BY NextIInv DEF HInv
  <1>2. ASSUME NEW q \in Requests, NEW id \in RevisionIds, CreateRevision(q, id)
        PROVE  HInv'
    BY <1>1, <1>2, CreateKeepsChain, CreateKeepsRecords DEF HInv
  <1>3. CASE ~ \E q \in Requests, id \in RevisionIds : CreateRevision(q, id)
    BY <1>1, <1>3, OtherNext, OtherHInv
  <1>4. QED
    BY <1>2, <1>3

\* The history invariant holds in every reachable state.
LEMMA HistoryInvariance == Spec => []HInv
  BY InitHInv, NextHInv, PTL DEF Spec

\* The revisions of a board form one chain that ends in its head.
THEOREM OneChain == Spec => []RevisionChain
  BY HistoryInvariance, PTL DEF HInv

\* Every revision replaced exactly the revision its author had seen as head:
\* concurrent writers never overwrite each other's work unseen.
THEOREM NoUpdateIsLost == Spec => []NoLostUpdate
  BY HistoryInvariance, PTL DEF HInv

\* However often and in whatever order requests are sent, one idempotency key
\* makes at most one revision and its record names it.
THEOREM KeysActOnce == Spec => []ExactlyOnce
  BY HistoryInvariance, PTL DEF HInv

----------------------------------------------------------------------------
(* What the callers of a board may conclude from the answers they got, what *)
(* archiving ends, and what a restore may not undo.                         *)

(***************************************************************************)
(* Archiving and schema versions                                           *)
(***************************************************************************)

\* Nothing is written to the history or the log of an archived board, whatever
\* requests are still under way when it is archived.
THEOREM ArchivingIsFinal == Spec => ArchivedIsFrozen
  <1>1. ASSUME NEW q \in Requests, Handle(q), archived
        PROVE  archived' /\ UNCHANGED <<head, revisions, outbox, artifacts>>
    <2>1. CASE Replay(q) \/ RefuseReuse(q)
      BY <1>1, <2>1 DEF Replay, RefuseReuse
    <2>2. QED
      BY <1>1, <2>1 DEF Handle, CreateRevision, PublishArtifact, StopReadyArtifact,
                        StopStoppedArtifact, ControlAdmitted, Archive, RefuseConflict
  <1>2. [Next]_vars =>
          [archived => archived' /\ UNCHANGED <<head, revisions, outbox, artifacts>>]_vars
    BY <1>1 DEF Next, AppendInvalidation
  <1>3. QED
    BY <1>2, PTL DEF Spec, ArchivedIsFrozen

\* A mutation stores no older schema version than the head has.
LEMMA StoredSchemaGrows ==
  ASSUME IInv, NEW q \in Requests, q.op \in SceneOperations, Restorable(q),
         VersionAdmitted(q), ~DocumentVersionMismatch(q), HeadSchema \in SchemaVersions
  PROVE  StoredSchema(q) >= HeadSchema
  <1>1. q.selector \in SchemaVersions /\ (q.op = "document.replace" => q.selector \in {2, 3})
    BY LedgerAssumption DEF RequestType
  <1>2. q.selector # 3 => HeadSchema \in {1, 2}
    BY DEF VersionAdmitted, UpgradeRequired, SchemaVersions
  <1>3. CASE q.op = "scene.restore"
    <2>1. q.arg \in Existing
      BY <1>3 DEF IInv, CatalogFollowsHead, Restorable
    <2>2. revisions[q.arg] \in RevisionType
      BY <2>1 DEF IInv, TypeOK, Existing
    <2>3. revisions[q.arg].schema \in 1..3
      BY <2>2 DEF RevisionType, SchemaVersions
    <2>4. QED
      BY <1>1, <1>2, <1>3, <2>3 DEF StoredSchema, SchemaVersions
  <1>4. CASE q.op # "scene.restore"
    BY <1>1, <1>2, <1>4 DEF StoredSchema, SceneOperations, SchemaVersions, DocumentVersionMismatch
  <1>5. QED
    BY <1>3, <1>4

\* The schema version of the head never goes back, whichever revision a restore
\* copies and whichever version its caller speaks.
THEOREM SchemaOnlyGrows == Spec => SchemaNeverDowngrades
  <1>1. ASSUME HInv, [Next]_vars
        PROVE  revisions'[head'.rev].schema >= HeadSchema
    <2>1. HeadSchema \in SchemaVersions /\ IInv
      <3>1. head.rev \in Existing
        BY <1>1 DEF HInv, RevisionChain
      <3>2. revisions[head.rev] \in RevisionType
        BY <1>1, <3>1 DEF HInv, IInv, TypeOK, Existing
      <3>3. QED
        BY <1>1, <3>2 DEF HeadSchema, RevisionType, HInv
    <2>2. ASSUME NEW q \in Requests, NEW id \in RevisionIds, CreateRevision(q, id)
          PROVE  revisions'[head'.rev].schema >= HeadSchema
      <3>1. head'.rev = id /\ revisions'[id].schema = StoredSchema(q)
        BY <2>1, <2>2 DEF CreateRevision, AdvanceHead, IInv, TypeOK
      <3>2. StoredSchema(q) >= HeadSchema
        BY <2>1, <2>2, StoredSchemaGrows DEF CreateRevision
      <3>3. QED
        BY <3>1, <3>2
    <2>3. CASE ~ \E q \in Requests, id \in RevisionIds : CreateRevision(q, id)
      <3>1. revisions'[head'.rev].schema = HeadSchema
        BY <1>1, <2>1, <2>3, OtherNext DEF HeadSchema
      <3>2. QED
        BY <2>1, <3>1 DEF SchemaVersions
    <2>4. QED
      BY <2>2, <2>3
  <1>2. HInv /\ [Next]_vars => [revisions'[head'.rev].schema >= HeadSchema]_vars
    BY <1>1
  <1>3. QED
    BY <1>2, HistoryInvariance, PTL DEF Spec, SchemaNeverDowngrades

(***************************************************************************)
(* Answers                                                                 *)
(*                                                                         *)
(* An answer of success carries the result its record keeps, and a request *)
(* refused for a conflict quoted a revision that was stored when it was    *)
(* refused: such a revision never becomes the head again.                  *)
(***************************************************************************)

SuccessesRecorded ==
  \A x \in replies : x.result # None =>
    records[x.key] # None /\ records[x.key].result = x.result

ConflictsLost ==
  \A x \in replies : x.outcome = "REVISION_CONFLICT" =>
    /\ x.fingerprint.op # "board.archive"
    /\ x.fingerprint.expected \in Existing \cup {None}
    /\ x.fingerprint.expected # head.rev
    /\ records[x.key] # None => records[x.key].fingerprint # x.fingerprint

AInv == HInv /\ SuccessesRecorded /\ ConflictsLost

\* A step moves the head to no revision that was stored before it, and records
\* only requests that quoted the head it found, or that quote none.
TakesHead ==
  /\ head'.rev = head.rev \/ head'.rev \in RevisionIds \ Existing
  /\ \A k \in RecordKeys : records[k] = None /\ records'[k] # None =>
       \/ records'[k].fingerprint.op = "board.archive"
       \/ records'[k].fingerprint.expected = head.rev

\* The answer of one transaction, and what it rests on.
Told(q, outcome, result) ==
  [key |-> RecordKey(q), fingerprint |-> Fingerprint(q), outcome |-> outcome,
   result |-> result]

Honest(q, outcome, result) ==
  /\ Answer(q, outcome, result)
  /\ result # None =>
       records'[RecordKey(q)] # None /\ records'[RecordKey(q)].result = result
  /\ outcome = "REVISION_CONFLICT" =>
       /\ q.op # "board.archive"
       /\ q.expected # head'.rev
       /\ records'[RecordKey(q)] = None

\* A record that a request completes is the request's own.
LEMMA CompleteTakesHead ==
  ASSUME IInv, NEW q \in Requests, NEW result, Complete(q, result),
         q.op = "board.archive" \/ BasedOnHead(q)
  PROVE  \A k \in RecordKeys : records[k] = None /\ records'[k] # None =>
           \/ records'[k].fingerprint.op = "board.archive"
           \/ records'[k].fingerprint.expected = head.rev
  <1>1. records \in [RecordKeys -> RecordType \cup {None}]
    BY DEF IInv, TypeOK
  <1>2. QED
    BY <1>1 DEF Complete, BasedOnHead, Fingerprint

\* Every transaction takes the head it found.
LEMMA HandleTakesHead ==
  ASSUME IInv, NEW q \in Requests, Handle(q)
  PROVE  TakesHead
  <1>1. ASSUME AllocateSequence PROVE head'.rev = head.rev
    BY <1>1 DEF AllocateSequence, IInv, TypeOK
  <1>2. ASSUME NEW id \in RevisionIds, CreateRevision(q, id) PROVE TakesHead
    <2>1. head'.rev = id /\ id \notin Existing
      BY <1>2 DEF CreateRevision, AdvanceHead, IInv, TypeOK
    <2>2. QED
      BY <1>2, <2>1, CompleteTakesHead DEF CreateRevision, TakesHead
  <1>3. CASE PublishArtifact(q)
    BY <1>1, <1>3, CompleteTakesHead DEF PublishArtifact, ControlAdmitted, TakesHead
  <1>4. CASE StopReadyArtifact(q)
    BY <1>1, <1>4, CompleteTakesHead DEF StopReadyArtifact, ControlAdmitted, TakesHead
  <1>5. CASE StopStoppedArtifact(q)
    BY <1>5, CompleteTakesHead DEF StopStoppedArtifact, ControlAdmitted, TakesHead
  <1>6. CASE Archive(q)
    BY <1>6, CompleteTakesHead DEF Archive, TakesHead
  <1>7. CASE Replay(q) \/ RefuseReuse(q) \/ RefuseConflict(q)
    BY <1>7 DEF Replay, RefuseReuse, RefuseConflict, TakesHead
  <1>8. QED
    BY <1>2, <1>3, <1>4, <1>5, <1>6, <1>7 DEF Handle

\* A completed record is stored with its result.
LEMMA CompleteRecords ==
  ASSUME IInv, NEW q \in Requests, NEW result \in ResultType, Complete(q, result)
  PROVE  records'[RecordKey(q)] # None /\ records'[RecordKey(q)].result = result
  <1>1. /\ records \in [RecordKeys -> RecordType \cup {None}]
        /\ [fingerprint |-> Fingerprint(q), status |-> "C", result |-> result] \in RecordType
    BY RequestTyped DEF IInv, TypeOK, RecordType
  <1>2. QED
    BY <1>1, RequestTyped, NullAssumption DEF Complete

\* Every transaction answers with the result it recorded, with the recorded
\* result of an earlier one, or refuses without leaving a record.
LEMMA HandleHonest ==
  ASSUME IInv, NEW q \in Requests, Handle(q)
  PROVE  \E outcome \in Outcomes, result \in ResultType \cup {None} :
           Honest(q, outcome, result)
  <1> DEFINE Goal == \E outcome \in Outcomes, result \in ResultType \cup {None} :
                       Honest(q, outcome, result)
  <1>1. ASSUME NEW result \in ResultType, Complete(q, result), Answer(q, "applied", result)
        PROVE  Goal
    <2>1. Honest(q, "applied", result)
      BY <1>1, CompleteRecords DEF Honest
    <2>2. QED
      BY <2>1 DEF Outcomes
  <1>2. /\ head.rev \in RevisionIds /\ head.seq \in Nat /\ MaxSequence \in Nat
        /\ head.seq < MaxSequence => NextSequence \in 0..MaxSequence
    BY LedgerAssumption DEF IInv, TypeOK, Sequences, NextSequence
  <1>3. ASSUME NEW id \in RevisionIds, CreateRevision(q, id)
        PROVE  Goal
    <2>1. [revision |-> id, event |-> NextSequence] \in ResultType
      BY <1>2, <1>3 DEF CreateRevision, ResultType
    <2>2. QED
      BY <1>1, <1>3, <2>1 DEF CreateRevision
  <1>4. CASE PublishArtifact(q) \/ StopReadyArtifact(q)
    <2>1. [revision |-> None, event |-> NextSequence] \in ResultType
      BY <1>2, <1>4 DEF PublishArtifact, StopReadyArtifact, AllocateSequence, ResultType
    <2>2. /\ Complete(q, [revision |-> None, event |-> NextSequence])
          /\ Answer(q, "applied", [revision |-> None, event |-> NextSequence])
      BY <1>4 DEF PublishArtifact, StopReadyArtifact
    <2>3. QED
      BY <1>1, <2>1, <2>2
  <1>5. CASE StopStoppedArtifact(q)
    <2>1. [revision |-> None, event |-> 0] \in ResultType
      BY <1>2 DEF ResultType
    <2>2. QED
      BY <1>1, <1>5, <2>1 DEF StopStoppedArtifact
  <1>6. CASE Archive(q)
    <2>1. [revision |-> head.rev, event |-> 0] \in ResultType
      BY <1>2 DEF ResultType
    <2>2. QED
      BY <1>1, <1>6, <2>1 DEF Archive
  <1>7. CASE Replay(q)
    <2>1. records[RecordKey(q)] \in RecordType /\ records[RecordKey(q)] # None
      BY <1>7, RequestTyped DEF Replay, Known, IInv, TypeOK
    <2>2. StoredResult(q) \in ResultType
      BY <2>1 DEF StoredResult, RecordType
    <2>3. Honest(q, "replayed", StoredResult(q))
      BY <1>7, <2>1 DEF Replay, StoredResult, Honest
    <2>4. QED
      BY <2>2, <2>3 DEF Outcomes
  <1>8. CASE RefuseReuse(q)
    BY <1>8 DEF RefuseReuse, Honest, Outcomes
  <1>9. CASE RefuseConflict(q)
    BY <1>9 DEF RefuseConflict, Honest, Outcomes, Known, BasedOnHead
  <1>10. QED
    BY <1>3, <1>4, <1>5, <1>6, <1>7, <1>8, <1>9 DEF Handle

\* The answers of success stay those of the records after every step.
LEMMA SuccessesStep ==
  ASSUME AInv, Extends, NEW x \in replies, x.result # None
  PROVE  records'[x.key] # None /\ records'[x.key].result = x.result
  <1>1. x.key \in RecordKeys
    BY DEF AInv, HInv, IInv, TypeOK, ReplyType
  <1>2. QED
    BY <1>1 DEF AInv, SuccessesRecorded, Extends

\* A request refused for a conflict stays refused.
LEMMA ConflictsStep ==
  ASSUME AInv, Extends, TakesHead, NEW x \in replies, x.outcome = "REVISION_CONFLICT"
  PROVE  /\ x.fingerprint.op # "board.archive"
         /\ x.fingerprint.expected \in Existing' \cup {None}
         /\ x.fingerprint.expected # head'.rev
         /\ records'[x.key] # None => records'[x.key].fingerprint # x.fingerprint
  <1>1. /\ x.fingerprint.op # "board.archive"
        /\ x.fingerprint.expected \in Existing \cup {None}
        /\ x.fingerprint.expected # head.rev
        /\ records[x.key] # None => records[x.key].fingerprint # x.fingerprint
    BY DEF AInv, ConflictsLost
  <1>2. x.key \in RecordKeys
    BY DEF AInv, HInv, IInv, TypeOK, ReplyType
  <1>3. Existing \subseteq Existing'
    BY DEF Extends, Existing
  <1>4. x.fingerprint.expected # head'.rev
    BY <1>1, LedgerAssumption DEF TakesHead
  <1>5. records'[x.key] # None => records'[x.key].fingerprint # x.fingerprint
    BY <1>1, <1>2 DEF TakesHead, Extends
  <1>6. QED
    BY <1>1, <1>3, <1>4, <1>5

\* Every step keeps what the answers say true.
LEMMA NextAInv == AInv /\ [Next]_vars => AInv'
  <1> SUFFICES ASSUME AInv, [Next]_vars PROVE AInv'
    OBVIOUS
  <1>1. HInv' /\ Extends /\ IInv
    BY NextHInv, NextExtends DEF AInv, HInv
  <1>2. ASSUME NEW q \in Requests, Sendable(q), Handle(q)
        PROVE  SuccessesRecorded' /\ ConflictsLost'
    <2>1. TakesHead
      BY <1>1, <1>2, HandleTakesHead
    <2>2. PICK outcome \in Outcomes, result \in ResultType \cup {None} :
            Honest(q, outcome, result)
      BY <1>1, <1>2, HandleHonest
    <2>3. replies' \subseteq replies \cup {Told(q, outcome, result)}
      BY <2>2 DEF Honest, Answer, Told
    <2>4. SuccessesRecorded'
      BY <1>1, <2>2, <2>3, SuccessesStep DEF SuccessesRecorded, Told, Honest
    <2>5. outcome = "REVISION_CONFLICT" =>
            /\ Fingerprint(q).op # "board.archive"
            /\ Fingerprint(q).expected \in Existing' \cup {None}
            /\ Fingerprint(q).expected # head'.rev
            /\ records'[RecordKey(q)] = None
      <3>1. Existing \subseteq Existing'
        BY <1>1 DEF Extends, Existing
      <3>2. QED
        BY <1>2, <2>2, <3>1 DEF Honest, Fingerprint, Sendable
    <2>6. ConflictsLost'
      <3>1. ASSUME NEW x \in replies', x.outcome = "REVISION_CONFLICT"
            PROVE  /\ x.fingerprint.op # "board.archive"
                   /\ x.fingerprint.expected \in Existing' \cup {None}
                   /\ x.fingerprint.expected # head'.rev
                   /\ records'[x.key] # None => records'[x.key].fingerprint # x.fingerprint
        <4>1. CASE x \in replies
          BY <1>1, <2>1, <3>1, <4>1, ConflictsStep
        <4>2. CASE x = Told(q, outcome, result)
          BY <2>5, <3>1, <4>2 DEF Told
        <4>3. QED
          BY <2>3, <4>1, <4>2
      <3>2. QED
        BY <3>1 DEF ConflictsLost
    <2>7. QED
      BY <2>4, <2>6
  <1>3. CASE AppendInvalidation \/ UNCHANGED vars
    <2>1. head'.rev = head.rev /\ UNCHANGED <<revisions, records, replies>>
      BY <1>1, <1>3 DEF AppendInvalidation, AllocateSequence, vars, IInv, TypeOK
    <2>2. SuccessesRecorded /\ ConflictsLost
      BY DEF AInv
    <2>3. SuccessesRecorded'
      BY <2>1, <2>2 DEF SuccessesRecorded
    <2>4. ConflictsLost'
      BY <2>1, <2>2 DEF ConflictsLost, Existing
    <2>5. QED
      BY <1>1, <2>3, <2>4 DEF AInv
  <1>4. QED
    BY <1>1, <1>2, <1>3 DEF Next, AInv

\* What the answers say is true in every reachable state.
LEMMA AnswersInvariance == Spec => []AInv
  <1>1. Init => AInv
    BY InitHInv DEF Init, AInv, SuccessesRecorded, ConflictsLost
  <1>2. QED
    BY <1>1, NextAInv, PTL DEF Spec

\* All answers of success to one key carry the same result, however many of
\* them were lost and whatever happened to the board in between.
THEOREM RetriesAgree == Spec => []RepliesAgree
  <1>1. AInv => RepliesAgree
    BY DEF AInv, SuccessesRecorded, RepliesAgree
  <1>2. QED
    BY <1>1, AnswersInvariance, PTL

\* A request that was refused for a conflict has not taken effect under a lost
\* answer, and never takes effect.
THEOREM RefusalIsFinal == Spec => []ConflictIsFinal
  <1>1. AInv => ConflictIsFinal
    BY DEF AInv, ConflictsLost, ConflictIsFinal
  <1>2. QED
    BY <1>1, AnswersInvariance, PTL

----------------------------------------------------------------------------
(* What the event log of a board tells its readers, and the refinement. *)

(***************************************************************************)
(* Steps by what they append                                               *)
(***************************************************************************)

\* The log has `row` as its new last event.
Appended(row) ==
  /\ row \in EventType
  /\ NextSequence \in Sequences /\ head'.seq = NextSequence
  /\ outbox'[NextSequence] = row
  /\ \A n \in Sequences : outbox[n] # None <=> n < NextSequence
  /\ \A n \in Sequences : n # NextSequence => outbox'[n] = outbox[n]
  /\ outbox' \in [Sequences -> EventType \cup {None}]

StatusRow(a, s) == [type |-> "artifact.status.changed", subject |-> a, state |-> s]
ResyncRow == [type |-> "stream.resync.required", subject |-> head.rev, state |-> "head"]

KeepsHead == UNCHANGED revisions /\ head'.rev = head.rev

QuietStep == KeepsHead /\ UNCHANGED <<outbox, artifacts>> /\ head'.seq = head.seq
ResyncStep == KeepsHead /\ Appended(ResyncRow) /\ UNCHANGED artifacts
StatusStep(a, s) ==
  KeepsHead /\ Appended(StatusRow(a, s)) /\ artifacts' = [artifacts EXCEPT ![a] = s]
CreateStep(id) ==
  /\ Appended(RevisionCreated(id)) /\ UNCHANGED artifacts
  /\ id \in RevisionIds \ Existing /\ Existing' = Existing \cup {id}
  /\ revisions'[id].number = head.num + 1
  /\ \A r \in Existing : revisions'[r] = revisions[r]

\* An event appended at the next sequence number is the new last event.
LEMMA AppendIsLast ==
  ASSUME IInv, head.seq < MaxSequence, head'.seq = NextSequence,
         NEW type, NEW subject, NEW state,
         [type |-> type, subject |-> subject, state |-> state] \in EventType,
         AppendEvent(type, subject, state)
  PROVE  Appended([type |-> type, subject |-> subject, state |-> state])
  <1>1. /\ head.seq \in Nat /\ MaxSequence \in Nat /\ NextSequence = head.seq + 1
        /\ NextSequence \in Sequences /\ outbox \in [Sequences -> EventType \cup {None}]
    BY LedgerAssumption DEF IInv, TypeOK, Sequences, NextSequence
  <1>2. \A n \in Sequences : outbox[n] # None <=> n < NextSequence
    BY <1>1 DEF IInv, LogContiguous, Sequences
  <1>3. QED
    BY <1>1, <1>2 DEF AppendEvent, Appended

\* The step that makes a revision announces it.
LEMMA CreateIsStep ==
  ASSUME IInv, NEW q \in Requests, NEW id \in RevisionIds, CreateRevision(q, id)
  PROVE  CreateStep(id)
  <1>1. /\ id \notin Existing /\ head.seq < MaxSequence
        /\ head'.seq = NextSequence /\ head'.rev = id
        /\ AppendEvent("board.revision.created", id, "created")
    BY DEF CreateRevision, AdvanceHead
  <1>2. RevisionCreated(id) \in EventType
    BY DEF RevisionCreated, EventType
  <1>3. Appended(RevisionCreated(id))
    BY <1>1, <1>2, AppendIsLast DEF RevisionCreated
  <1>4. IInv' /\ Extends
    BY CreateRevisionIInv, CreateRevisionExtends
  <1>5. /\ revisions'[id].number = head.num + 1
        /\ \A r \in RevisionIds : r # id => revisions'[r] = revisions[r]
    BY DEF CreateRevision, IInv, TypeOK
  <1>6. revisions'[id] # None
    BY <1>1, <1>4 DEF IInv, CatalogFollowsHead, Existing
  <1>7. Existing' = Existing \cup {id}
    BY <1>5, <1>6 DEF Existing
  <1>8. UNCHANGED artifacts
    BY DEF CreateRevision
  <1>9. QED
    BY <1>1, <1>3, <1>4, <1>5, <1>7, <1>8 DEF CreateStep, Extends

\* Every transaction is one of the four kinds of steps.
LEMMA HandleKinds ==
  ASSUME IInv, NEW q \in Requests, Handle(q)
  PROVE  \/ QuietStep
         \/ \E a \in Artifacts, s \in {"ready", "stopped"} : StatusStep(a, s)
         \/ \E id \in RevisionIds : CreateStep(id)
  <1>1. ASSUME AllocateSequence
        PROVE  head.seq < MaxSequence /\ head'.seq = NextSequence /\ head'.rev = head.rev
    BY <1>1 DEF AllocateSequence, IInv, TypeOK
  <1>2. q.op \in ArtifactOperations => q.arg \in Artifacts
    BY LedgerAssumption
  <1>3. ASSUME NEW a \in Artifacts, NEW s \in {"ready", "stopped"}
        PROVE  StatusRow(a, s) \in EventType
    BY DEF StatusRow, EventType
  <1>4. ASSUME NEW id \in RevisionIds, CreateRevision(q, id) PROVE CreateStep(id)
    BY <1>4, CreateIsStep
  <1>5. CASE PublishArtifact(q)
    <2>1. /\ q.arg \in Artifacts /\ AllocateSequence /\ UNCHANGED revisions
          /\ artifacts' = [artifacts EXCEPT ![q.arg] = "ready"]
          /\ AppendEvent("artifact.status.changed", q.arg, "ready")
      BY <1>2, <1>5 DEF PublishArtifact, ArtifactOperations
    <2>2. Appended(StatusRow(q.arg, "ready"))
      BY <1>1, <1>3, <2>1, AppendIsLast DEF StatusRow
    <2>3. StatusStep(q.arg, "ready")
      BY <1>1, <2>1, <2>2 DEF StatusStep, KeepsHead
    <2>4. QED
      BY <2>1, <2>3
  <1>6. CASE StopReadyArtifact(q)
    <2>1. /\ q.arg \in Artifacts /\ AllocateSequence /\ UNCHANGED revisions
          /\ artifacts' = [artifacts EXCEPT ![q.arg] = "stopped"]
          /\ AppendEvent("artifact.status.changed", q.arg, "stopped")
      BY <1>2, <1>6 DEF StopReadyArtifact, ArtifactOperations
    <2>2. Appended(StatusRow(q.arg, "stopped"))
      BY <1>1, <1>3, <2>1, AppendIsLast DEF StatusRow
    <2>3. StatusStep(q.arg, "stopped")
      BY <1>1, <2>1, <2>2 DEF StatusStep, KeepsHead
    <2>4. QED
      BY <2>1, <2>3
  <1>7. CASE StopStoppedArtifact(q) \/ Archive(q) \/ Replay(q) \/ RefuseReuse(q) \/ RefuseConflict(q)
    BY <1>7 DEF StopStoppedArtifact, Archive, Replay, RefuseReuse, RefuseConflict, QuietStep, KeepsHead
  <1>8. QED
    BY <1>4, <1>5, <1>6, <1>7 DEF Handle

\* Every step is one of the four kinds.
LEMMA StepKinds ==
  ASSUME IInv, [Next]_vars
  PROVE  \/ QuietStep
         \/ ResyncStep
         \/ \E a \in Artifacts, s \in {"ready", "stopped"} : StatusStep(a, s)
         \/ \E id \in RevisionIds : CreateStep(id)
  <1>1. ASSUME NEW q \in Requests, Handle(q)
        PROVE  \/ QuietStep
               \/ \E a \in Artifacts, s \in {"ready", "stopped"} : StatusStep(a, s)
               \/ \E id \in RevisionIds : CreateStep(id)
    BY <1>1, HandleKinds
  <1>2. CASE AppendInvalidation
    <2>1. /\ head.seq < MaxSequence /\ head'.seq = NextSequence /\ head'.rev = head.rev
          /\ head.rev \in RevisionIds
          /\ AppendEvent("stream.resync.required", head.rev, "head")
          /\ UNCHANGED <<revisions, artifacts>>
      BY <1>2 DEF AppendInvalidation, AllocateSequence, IInv, TypeOK
    <2>2. ResyncRow \in EventType
      BY <2>1 DEF ResyncRow, EventType
    <2>3. Appended(ResyncRow)
      BY <2>1, <2>2, AppendIsLast DEF ResyncRow
    <2>4. QED
      BY <2>1, <2>3 DEF ResyncStep, KeepsHead
  <1>3. CASE UNCHANGED vars
    BY <1>3 DEF vars, QuietStep, KeepsHead
  <1>4. QED
    BY <1>1, <1>2, <1>3 DEF Next

(***************************************************************************)
(* The log tells the state                                                 *)
(*                                                                         *)
(* That a resynchronisation names the durable head follows from the order  *)
(* of the creation events, which follows from the chain of revisions; and  *)
(* that every creation event names its revision is needed to compare them. *)
(***************************************************************************)

CreationsNamed ==
  \A n \in Sequences : outbox[n] # None /\ outbox[n].type = "board.revision.created" =>
    outbox[n].subject \in RevisionIds /\ CreatedAt(n, outbox[n].subject)

EInv ==
  HInv /\ CreationsNamed /\ RevisionsAnnounced /\ ResyncNamesDurableHead
    /\ ArtifactLogMatchesState

\* A row of the log is not NULL, and a revision's row names it.
LEMMA CreationRow ==
  ASSUME NEW r \in RevisionIds
  PROVE  RevisionCreated(r) \in EventType /\ RevisionCreated(r) # None
  <1>1. RevisionCreated(r) \in EventType
    BY DEF RevisionCreated, EventType
  <1>2. QED
    BY <1>1, NullAssumption

\* Earlier rows are the same in the next state, and earlier.
LEMMA AppendedRows ==
  ASSUME NEW row, Appended(row)
  PROVE  /\ row # None /\ outbox'[NextSequence] = row /\ NextSequence \in Sequences
         /\ \A n \in Sequences : outbox'[n] # None <=> n <= NextSequence
         /\ \A n \in Sequences : n < NextSequence => outbox'[n] = outbox[n] /\ outbox[n] # None
         /\ \A n \in Sequences : outbox'[n] # None => n = NextSequence \/ n < NextSequence
         /\ Sequences \subseteq Nat /\ outbox[NextSequence] = None
  <1>1. Sequences \subseteq Nat
    BY DEF Sequences
  <1>2. row # None
    BY NullAssumption DEF Appended
  <1>3. QED
    BY <1>1, <1>2 DEF Appended

\* The creations of the log keep their names.
LEMMA CreationsNamedStep ==
  ASSUME EInv, [Next]_vars
  PROVE  CreationsNamed'
  <1>1. IInv
    BY DEF EInv, HInv
  <1>2. CASE QuietStep
    BY <1>2 DEF QuietStep, EInv, CreationsNamed, CreatedAt, RevisionCreated
  <1>3. ASSUME NEW row, Appended(row),
               row.type = "board.revision.created" =>
                 row.subject \in RevisionIds /\ row = RevisionCreated(row.subject)
        PROVE  CreationsNamed'
    <2>1. ASSUME NEW n \in Sequences, outbox'[n] # None,
                 outbox'[n].type = "board.revision.created"
          PROVE  outbox'[n].subject \in RevisionIds
                   /\ outbox'[n] = RevisionCreated(outbox'[n].subject)
      <3>1. CASE n = NextSequence
        BY <1>3, <2>1, <3>1, AppendedRows
      <3>2. CASE n < NextSequence
        BY <1>3, <2>1, <3>2, AppendedRows DEF EInv, CreationsNamed, CreatedAt
      <3>3. QED
        BY <1>3, <2>1, <3>1, <3>2, AppendedRows
    <2>2. QED
      BY <2>1 DEF CreationsNamed, CreatedAt, RevisionCreated
  <1>4. CASE ResyncStep
    BY <1>3, <1>4 DEF ResyncStep, ResyncRow
  <1>5. ASSUME NEW a \in Artifacts, NEW s \in {"ready", "stopped"}, StatusStep(a, s)
        PROVE  CreationsNamed'
    BY <1>3, <1>5 DEF StatusStep, StatusRow
  <1>6. ASSUME NEW id \in RevisionIds, CreateStep(id) PROVE CreationsNamed'
    BY <1>3, <1>6 DEF CreateStep, RevisionCreated
  <1>7. QED
    BY <1>1, <1>2, <1>4, <1>5, <1>6, StepKinds

\* A step that appends no creation keeps the announcements.
LEMMA OtherAnnounced ==
  ASSUME RevisionsAnnounced, KeepsHead, NEW row, Appended(row),
         row.type # "board.revision.created"
  PROVE  RevisionsAnnounced'
  <1>1. \A n \in Sequences, r \in RevisionIds :
          (outbox'[n] = RevisionCreated(r)) <=> CreatedAt(n, r)
    <2>1. SUFFICES ASSUME NEW n \in Sequences, NEW r \in RevisionIds
                   PROVE  (outbox'[n] = RevisionCreated(r)) <=> CreatedAt(n, r)
      OBVIOUS
    <2>2. CASE n = NextSequence
      <3>1. outbox'[n] # RevisionCreated(r)
        BY <2>2, AppendedRows DEF RevisionCreated
      <3>2. outbox[n] # RevisionCreated(r)
        BY <2>2, AppendedRows, CreationRow
      <3>3. QED
        BY <3>1, <3>2 DEF CreatedAt
    <2>3. CASE n # NextSequence
      BY <2>3 DEF Appended, CreatedAt
    <2>4. QED
      BY <2>2, <2>3
  <1>2. Existing' = Existing
    BY DEF KeepsHead, Existing
  <1>3. \A r \in Existing : r \in RevisionIds
    BY DEF Existing
  <1>4. \A r \in Existing' : \E n \in Sequences : outbox'[n] = RevisionCreated(r)
    BY <1>1, <1>2, <1>3 DEF RevisionsAnnounced
  <1>5. \A m, n \in Sequences : \A r, s \in RevisionIds :
          outbox'[m] = RevisionCreated(r) /\ outbox'[n] = RevisionCreated(s) =>
            /\ r \in Existing'
            /\ m < n => revisions'[r].number < revisions'[s].number
    BY <1>1, <1>2 DEF RevisionsAnnounced, KeepsHead
  <1>6. QED
    BY <1>4, <1>5 DEF RevisionsAnnounced, CreatedAt, RevisionCreated

\* A new revision is announced after all others, and has the greatest number.
LEMMA CreateAnnounced ==
  ASSUME HInv, RevisionsAnnounced, NEW id \in RevisionIds, CreateStep(id)
  PROVE  RevisionsAnnounced'
  <1>1. /\ Appended(RevisionCreated(id)) /\ id \notin Existing /\ Existing' = Existing \cup {id}
        /\ revisions'[id].number = head.num + 1
        /\ \A r \in Existing : revisions'[r] = revisions[r]
    BY DEF CreateStep
  <1>2. head.num \in Nat /\ \A r \in Existing : revisions[r].number \in Nat
                                                /\ revisions[r].number <= head.num
    BY DEF HInv, IInv, TypeOK, RevisionChain, RevisionType, Existing, Sequences
  <1>3. ASSUME NEW n \in Sequences, NEW r \in RevisionIds, outbox'[n] = RevisionCreated(r)
        PROVE  \/ n = NextSequence /\ r = id
               \/ n < NextSequence /\ CreatedAt(n, r) /\ r \in Existing
    <2>1. outbox'[n] # None
      BY <1>3, CreationRow
    <2>2. CASE n = NextSequence
      BY <1>1, <1>3, <2>2, AppendedRows DEF RevisionCreated
    <2>3. CASE n < NextSequence
      <3>1. CreatedAt(n, r)
        BY <1>1, <1>3, <2>3, AppendedRows DEF CreatedAt
      <3>2. r \in Existing
        BY <3>1 DEF RevisionsAnnounced
      <3>3. QED
        BY <2>3, <3>1, <3>2
    <2>4. QED
      BY <1>1, <2>1, <2>2, <2>3, AppendedRows
  <1>4. ASSUME NEW r \in Existing' PROVE \E n \in Sequences : outbox'[n] = RevisionCreated(r)
    <2>1. CASE r = id
      BY <1>1, <2>1, AppendedRows
    <2>2. CASE r \in Existing
      <3>1. PICK n \in Sequences : outbox[n] = RevisionCreated(r)
        BY <2>2 DEF RevisionsAnnounced, CreatedAt
      <3>2. outbox[n] # None
        BY <2>2, <3>1, CreationRow DEF Existing
      <3>3. outbox'[n] = outbox[n]
        BY <1>1, <3>2, AppendedRows DEF Appended
      <3>4. QED
        BY <3>1, <3>3
    <2>3. QED
      BY <1>1, <2>1, <2>2
  <1>5. ASSUME NEW m \in Sequences, NEW n \in Sequences, NEW r \in RevisionIds, NEW s \in RevisionIds,
               outbox'[m] = RevisionCreated(r), outbox'[n] = RevisionCreated(s)
        PROVE  /\ r \in Existing'
               /\ m < n => revisions'[r].number < revisions'[s].number
    <2>1. r \in Existing'
      BY <1>1, <1>3, <1>5
    <2>2. ASSUME m < n PROVE revisions'[r].number < revisions'[s].number
      <3>1. m < NextSequence /\ CreatedAt(m, r) /\ r \in Existing
        <4>1. Sequences \subseteq Nat /\ NextSequence \in Sequences
          BY <1>1, AppendedRows
        <4>2. QED
          BY <1>3, <1>5, <2>2, <4>1
      <3>2. CASE s = id
        BY <1>1, <1>2, <3>1, <3>2
      <3>3. CASE CreatedAt(n, s) /\ s \in Existing
        BY <1>1, <2>2, <3>1, <3>3 DEF RevisionsAnnounced
      <3>4. QED
        BY <1>3, <1>5, <3>2, <3>3
    <2>3. QED
      BY <2>1, <2>2
  <1>6. QED
    BY <1>4, <1>5 DEF RevisionsAnnounced, CreatedAt, RevisionCreated

\* What a resynchronisation names: the last revision announced before it.
DurableAt(n, r) ==
  \E m \in 1..(n - 1) :
    /\ CreatedAt(m, r)
    /\ \A k \in (m + 1)..(n - 1) : outbox[k].type # "board.revision.created"

\* The head is the last revision announced.
LEMMA HeadIsDurable ==
  ASSUME EInv, NextSequence \in Sequences,
         \A n \in Sequences : outbox[n] # None <=> n < NextSequence
  PROVE  DurableAt(NextSequence, head.rev)
  <1>1. Sequences = 1..MaxSequence /\ MaxSequence \in Nat /\ NextSequence \in Nat
    BY LedgerAssumption DEF Sequences
  <1>2. /\ head.rev \in Existing /\ head.rev \in RevisionIds
        /\ revisions[head.rev].number = head.num
    BY DEF EInv, HInv, RevisionChain, Existing
  <1>3. PICK m \in Sequences : CreatedAt(m, head.rev)
    BY <1>2 DEF EInv, RevisionsAnnounced
  <1>4. m \in 1..(NextSequence - 1)
    <2>1. outbox[m] # None
      BY <1>2, <1>3, CreationRow DEF CreatedAt
    <2>2. QED
      BY <1>1, <2>1
  <1>5. ASSUME NEW k \in (m + 1)..(NextSequence - 1)
        PROVE  outbox[k].type # "board.revision.created"
    <2>1. k \in Sequences /\ m < k /\ outbox[k] # None
      BY <1>1, <1>4, <1>5
    <2>2. SUFFICES ASSUME outbox[k].type = "board.revision.created" PROVE FALSE
      OBVIOUS
    <2>3. PICK s \in RevisionIds : CreatedAt(k, s)
      BY <2>1, <2>2 DEF EInv, CreationsNamed
    <2>4. s \in Existing /\ revisions[head.rev].number < revisions[s].number
      BY <1>2, <1>3, <2>1, <2>3 DEF EInv, RevisionsAnnounced
    <2>5. revisions[s].number \in Nat /\ revisions[s].number <= head.num /\ head.num \in Nat
      BY <2>4 DEF EInv, HInv, IInv, TypeOK, RevisionChain, RevisionType, Existing, Sequences
    <2>6. QED
      BY <1>2, <2>4, <2>5
  <1>6. QED
    BY <1>3, <1>4, <1>5 DEF DurableAt

\* Every resynchronisation names the head that was durable at its place.
LEMMA ResyncStepKeeps ==
  ASSUME EInv, [Next]_vars
  PROVE  ResyncNamesDurableHead'
  <1>1. IInv
    BY DEF EInv, HInv
  <1>2. CASE QuietStep
    BY <1>2 DEF QuietStep, EInv, ResyncNamesDurableHead, CreatedAt, RevisionCreated
  <1>3. ASSUME NEW row, Appended(row),
               row.type = "stream.resync.required" => row.subject = head.rev
        PROVE  ResyncNamesDurableHead'
    <2>1. Sequences = 1..MaxSequence /\ MaxSequence \in Nat
      BY LedgerAssumption DEF Sequences
    <2>2. ASSUME NEW n \in Sequences, outbox'[n] # None,
                 outbox'[n].type = "stream.resync.required"
          PROVE  DurableAt(n, outbox'[n].subject) /\ n <= NextSequence
      <3>1. CASE n = NextSequence
        <4>1. outbox'[n].subject = head.rev
          BY <1>3, <2>2, <3>1, AppendedRows
        <4>2. DurableAt(NextSequence, head.rev)
          BY <1>3, HeadIsDurable DEF Appended
        <4>3. QED
          BY <2>1, <3>1, <4>1, <4>2
      <3>2. CASE n < NextSequence
        BY <1>3, <2>1, <2>2, <3>2, AppendedRows
           DEF EInv, ResyncNamesDurableHead, DurableAt, Appended
      <3>3. QED
        BY <1>3, <2>2, <3>1, <3>2, AppendedRows
    <2>3. ASSUME NEW n \in Sequences, n <= NextSequence, NEW r, DurableAt(n, r)
          PROVE  \E m \in 1..(n - 1) :
                   /\ outbox'[m] = RevisionCreated(r)
                   /\ \A k \in (m + 1)..(n - 1) : outbox'[k].type # "board.revision.created"
      <3>1. \A k \in 1..(n - 1) : outbox'[k] = outbox[k]
        BY <1>3, <2>1, <2>3 DEF Appended
      <3>2. PICK m \in 1..(n - 1) :
              /\ CreatedAt(m, r)
              /\ \A k \in (m + 1)..(n - 1) : outbox[k].type # "board.revision.created"
        BY <2>3 DEF DurableAt
      <3>3. outbox'[m] = RevisionCreated(r)
        BY <3>1, <3>2 DEF CreatedAt
      <3>4. ASSUME NEW k \in (m + 1)..(n - 1)
            PROVE  outbox'[k].type # "board.revision.created"
        <4>1. k \in 1..(n - 1)
          BY <2>1, <3>2, <3>4
        <4>2. QED
          BY <3>1, <3>2, <3>4, <4>1
      <3>5. QED
        BY <3>2, <3>3, <3>4
    <2>4. QED
      BY <2>2, <2>3 DEF ResyncNamesDurableHead, CreatedAt, RevisionCreated
  <1>4. CASE ResyncStep
    BY <1>3, <1>4 DEF ResyncStep, ResyncRow
  <1>5. ASSUME NEW a \in Artifacts, NEW s \in {"ready", "stopped"}, StatusStep(a, s)
        PROVE  ResyncNamesDurableHead'
    BY <1>3, <1>5 DEF StatusStep, StatusRow
  <1>6. ASSUME NEW id \in RevisionIds, CreateStep(id) PROVE ResyncNamesDurableHead'
    BY <1>3, <1>6 DEF CreateStep, RevisionCreated
  <1>7. QED
    BY <1>1, <1>2, <1>4, <1>5, <1>6, StepKinds

\* The status events of an artifact, and what the stored status has to do with
\* the last of them.
StatusEvents(a) ==
  {n \in Sequences : /\ outbox[n] # None
                     /\ outbox[n].type = "artifact.status.changed"
                     /\ outbox[n].subject = a}

ToldBy(events, a) ==
  IF events = {} THEN artifacts[a] = "absent"
  ELSE \E n \in events : /\ \A m \in events : m <= n
                         /\ outbox[n].state = artifacts[a]

\* A step that appends no status of an artifact keeps its events.
LEMMA OtherStatus ==
  ASSUME NEW a, NEW row, Appended(row),
         row.type # "artifact.status.changed" \/ row.subject # a,
         artifacts'[a] = artifacts[a], ToldBy(StatusEvents(a), a)
  PROVE  ToldBy(StatusEvents(a), a)'
  <1>1. StatusEvents(a)' = StatusEvents(a)
    <2>1. ASSUME NEW n \in Sequences
          PROVE  n \in StatusEvents(a)' <=> n \in StatusEvents(a)
      <3>1. CASE n = NextSequence
        BY <3>1, AppendedRows DEF StatusEvents
      <3>2. CASE n # NextSequence
        BY <3>2 DEF StatusEvents, Appended
      <3>3. QED
        BY <3>1, <3>2
    <2>2. QED
      BY <2>1 DEF StatusEvents
  <1>2. \A n \in StatusEvents(a) : outbox'[n] = outbox[n]
    BY AppendedRows DEF StatusEvents, Appended
  <1>3. QED
    BY <1>1, <1>2 DEF ToldBy

\* The status that is appended is the last one and the stored one.
LEMMA NewStatus ==
  ASSUME NEW a \in Artifacts, NEW s \in {"ready", "stopped"}, StatusStep(a, s), IInv
  PROVE  ToldBy(StatusEvents(a), a)'
  <1>1. Appended(StatusRow(a, s)) /\ artifacts'[a] = s
    BY DEF StatusStep, IInv, TypeOK
  <1>2. NextSequence \in StatusEvents(a)' /\ outbox'[NextSequence].state = s
    BY <1>1, AppendedRows DEF StatusEvents, StatusRow
  <1>3. \A m \in StatusEvents(a)' : m <= NextSequence
    BY <1>1, AppendedRows DEF StatusEvents
  <1>4. QED
    BY <1>1, <1>2, <1>3 DEF ToldBy

\* The last status event of an artifact tells its stored status.
LEMMA ArtifactStep ==
  ASSUME EInv, [Next]_vars
  PROVE  ArtifactLogMatchesState'
  <1>1. IInv /\ \A a \in Artifacts : ToldBy(StatusEvents(a), a)
    BY DEF EInv, HInv, ArtifactLogMatchesState, ToldBy, StatusEvents
  <1>2. SUFFICES ASSUME NEW a \in Artifacts PROVE ToldBy(StatusEvents(a), a)'
    BY DEF ArtifactLogMatchesState, ToldBy, StatusEvents
  <1>3. CASE QuietStep
    BY <1>1, <1>3 DEF QuietStep, ToldBy, StatusEvents
  <1>4. CASE ResyncStep
    BY <1>1, <1>4, OtherStatus DEF ResyncStep, ResyncRow
  <1>5. ASSUME NEW b \in Artifacts, NEW s \in {"ready", "stopped"}, StatusStep(b, s)
        PROVE  ToldBy(StatusEvents(a), a)'
    <2>1. CASE a = b
      BY <1>1, <1>5, <2>1, NewStatus
    <2>2. CASE a # b
      <3>1. Appended(StatusRow(b, s)) /\ artifacts'[a] = artifacts[a]
        BY <1>1, <1>5, <2>2 DEF StatusStep, IInv, TypeOK
      <3>2. QED
        BY <1>1, <2>2, <3>1, OtherStatus DEF StatusRow
    <2>3. QED
      BY <2>1, <2>2
  <1>6. ASSUME NEW id \in RevisionIds, CreateStep(id) PROVE ToldBy(StatusEvents(a), a)'
    BY <1>1, <1>6, OtherStatus DEF CreateStep, RevisionCreated
  <1>7. QED
    BY <1>1, <1>3, <1>4, <1>5, <1>6, StepKinds

\* The invariant of the log holds of the board as created.
LEMMA InitEInv == Init => EInv
  <1> SUFFICES ASSUME Init PROVE EInv
    OBVIOUS
  <1>1. HInv /\ IInv
    BY InitHInv, InitIInv
  <1>2. PICK r \in RevisionIds :
          /\ head = [rev |-> r, num |-> 1, seq |-> 1]
          /\ outbox = [n \in Sequences |->
               IF n = 1 THEN [type |-> "board.revision.created", subject |-> r,
                              state |-> "created"]
               ELSE None]
          /\ artifacts = [a \in Artifacts |-> "absent"]
          /\ catalog = [i \in RevisionIds |-> IF i = r THEN "head" ELSE "absent"]
    BY DEF Init
  <1>3. /\ 1 \in Sequences /\ outbox[1] = RevisionCreated(r)
        /\ \A n \in Sequences : outbox[n] # None <=> n = 1
    <2>1. 1 \in Sequences
      BY LedgerAssumption DEF Sequences
    <2>2. outbox[1] = RevisionCreated(r)
      BY <1>2, <2>1 DEF RevisionCreated
    <2>3. QED
      BY <1>2, <2>1, <2>2, CreationRow
  <1>4. Existing = {r}
    <2>1. \A i \in RevisionIds : (catalog[i] # "absent") <=> (i = r)
      BY <1>2
    <2>2. QED
      BY <1>1, <2>1 DEF IInv, CatalogFollowsHead, Existing
  <1>5. CreationsNamed /\ RevisionsAnnounced
    <2>1. CreationsNamed
      BY <1>3 DEF CreationsNamed, CreatedAt, RevisionCreated
    <2>2. ASSUME NEW n \in Sequences, NEW s \in RevisionIds, CreatedAt(n, s)
          PROVE  n = 1 /\ s = r
      <3>1. n = 1
        BY <1>3, <2>2, CreationRow DEF CreatedAt
      <3>2. QED
        BY <1>3, <2>2, <3>1 DEF CreatedAt, RevisionCreated
    <2>3. QED
      BY <1>3, <1>4, <2>1, <2>2 DEF RevisionsAnnounced, CreatedAt
  <1>6. ResyncNamesDurableHead /\ ArtifactLogMatchesState
    BY <1>2, <1>3 DEF ResyncNamesDurableHead, ArtifactLogMatchesState, RevisionCreated
  <1>7. QED
    BY <1>1, <1>5, <1>6 DEF EInv

\* Every step keeps the invariant of the log.
LEMMA NextEInv == EInv /\ [Next]_vars => EInv'
  <1> SUFFICES ASSUME EInv, [Next]_vars PROVE EInv'
    OBVIOUS
  <1>1. HInv /\ IInv /\ RevisionsAnnounced
    BY DEF EInv, HInv
  <1>2. HInv'
    BY <1>1, NextHInv
  <1>3. RevisionsAnnounced'
    <2>1. CASE QuietStep
      BY <1>1, <2>1 DEF QuietStep, KeepsHead, RevisionsAnnounced, CreatedAt, RevisionCreated,
                        Existing
    <2>2. CASE ResyncStep
      BY <1>1, <2>2, OtherAnnounced DEF ResyncStep, ResyncRow
    <2>3. ASSUME NEW a \in Artifacts, NEW s \in {"ready", "stopped"}, StatusStep(a, s)
          PROVE  RevisionsAnnounced'
      BY <1>1, <2>3, OtherAnnounced DEF StatusStep, StatusRow
    <2>4. ASSUME NEW id \in RevisionIds, CreateStep(id) PROVE RevisionsAnnounced'
      BY <1>1, <2>4, CreateAnnounced
    <2>5. QED
      BY <1>1, <2>1, <2>2, <2>3, <2>4, StepKinds
  <1>4. QED
    BY <1>2, <1>3, CreationsNamedStep, ResyncStepKeeps, ArtifactStep DEF EInv

\* The invariant of the log holds in every reachable state.
LEMMA EventsInvariance == Spec => []EInv
  BY InitEInv, NextEInv, PTL DEF Spec

(***************************************************************************)
(* The ledger implements the log                                           *)
(***************************************************************************)

\* Appending a row appends its entry to the log.
LEMMA EntriesAppend ==
  ASSUME IInv, NEW row, Appended(row)
  PROVE  Entries' = Append(Entries, IF row.type = "board.revision.created"
                                    THEN row.subject ELSE None)
  <1> DEFINE e == IF row.type = "board.revision.created" THEN row.subject ELSE None
  <1>1. /\ head.seq \in Nat /\ head'.seq = head.seq + 1 /\ NextSequence = head.seq + 1
        /\ 1..head.seq \subseteq Sequences
    BY LedgerAssumption DEF IInv, TypeOK, Appended, NextSequence, Sequences
  <1>2. /\ Entries = [n \in 1..head.seq |-> Entry(n)]
        /\ Entries' = [n \in 1..(head.seq + 1) |-> Entry(n)']
    BY <1>1 DEF Entries
  <1>3. \A n \in 1..head.seq : Entry(n)' = Entry(n)
    BY <1>1 DEF Entry, Appended
  <1>4. ASSUME NEW n, n = NextSequence PROVE Entry(n)' = e
    BY <1>4 DEF Entry, Appended
  <1>5. Entries \in Seq({Entry(n) : n \in 1..head.seq}) /\ Len(Entries) = head.seq
    <2>1. PICK k : k = head.seq
      OBVIOUS
    <2>2. k \in Nat /\ Entries = [n \in 1..k |-> Entry(n)]
      BY <1>1, <1>2, <2>1
    <2>3. Entries \in [1..k -> {Entry(n) : n \in 1..k}]
      BY <2>2
    <2>4. PICK S : S = {Entry(n) : n \in 1..k}
      OBVIOUS
    <2>5. Entries \in Seq(S) /\ Len(Entries) = k
      BY <2>2, <2>3, <2>4
    <2>6. QED
      BY <2>1, <2>4, <2>5
  <1>6. Entries' = [n \in 1..(head.seq + 1) |-> IF n = head.seq + 1 THEN e ELSE Entries[n]]
    <2>1. ASSUME NEW n \in 1..(head.seq + 1)
          PROVE  Entry(n)' = IF n = head.seq + 1 THEN e ELSE Entries[n]
      <3>1. CASE n = head.seq + 1
        BY <1>1, <1>4, <3>1
      <3>2. CASE n # head.seq + 1
        <4>1. n \in 1..head.seq
          BY <1>1, <3>2
        <4>2. QED
          BY <1>2, <1>3, <3>2, <4>1
      <3>3. QED
        BY <3>1, <3>2
    <2>2. QED
      BY <1>2, <2>1
  <1>7. Append(Entries, e) =
          [n \in 1..(head.seq + 1) |-> IF n = head.seq + 1 THEN e ELSE Entries[n]]
    BY <1>1, <1>5
  <1>8. QED
    BY <1>6, <1>7

\* Completing a record takes its key in the log.
LEMMA CompleteTakes ==
  ASSUME IInv, NEW q \in Requests, NEW result \in ResultType, ~Known(q), Complete(q, result)
  PROVE  /\ RecordKey(q) \in RecordKeys /\ Taken[RecordKey(q)] = None
         /\ Taken' = [Taken EXCEPT ![RecordKey(q)] =
                        [base |-> q.expected,
                         made |-> IF q.op \in SceneOperations THEN result.revision ELSE None]]
  <1> DEFINE record == [fingerprint |-> Fingerprint(q), status |-> "C", result |-> result]
  <1>1. /\ RecordKey(q) \in RecordKeys /\ record \in RecordType
        /\ records \in [RecordKeys -> RecordType \cup {None}]
    BY RequestTyped DEF IInv, TypeOK, RecordType
  <1>2. record # None
    BY <1>1, NullAssumption
  <1>3. record.fingerprint.expected = q.expected /\ record.fingerprint.op = q.op
    BY DEF Fingerprint
  <1>4. records' = [records EXCEPT ![RecordKey(q)] = record] /\ records[RecordKey(q)] = None
    BY DEF Complete, Known
  <1>5. ASSUME NEW k \in RecordKeys
        PROVE  Taken'[k] = IF k = RecordKey(q)
                           THEN [base |-> q.expected,
                                 made |-> IF q.op \in SceneOperations THEN result.revision
                                          ELSE None]
                           ELSE Taken[k]
    <2>1. CASE k = RecordKey(q)
      <3>1. records'[k] = record
        BY <1>1, <1>4, <2>1
      <3>2. QED
        BY <1>2, <1>3, <2>1, <3>1 DEF Taken
    <2>2. CASE k # RecordKey(q)
      <3>1. records'[k] = records[k]
        BY <1>1, <1>4, <2>2
      <3>2. QED
        BY <2>2, <3>1 DEF Taken
    <2>3. QED
      BY <2>1, <2>2
  <1>6. Taken[RecordKey(q)] = None
    BY <1>1, <1>4 DEF Taken
  <1>7. QED
    BY <1>1, <1>5, <1>6 DEF Taken

\* A step that appends nothing leaves the log alone.
LEMMA EntriesKept ==
  ASSUME UNCHANGED outbox, head'.seq = head.seq
  PROVE  Entries' = Entries
  BY DEF Entries, Entry

\* The log of the board as created holds its first revision.
LEMMA InitImplements == Init => Log!Init
  <1> SUFFICES ASSUME Init PROVE Log!Init
    OBVIOUS
  <1>1. PICK r \in RevisionIds :
          /\ head = [rev |-> r, num |-> 1, seq |-> 1] /\ archived = FALSE
          /\ outbox = [n \in Sequences |->
               IF n = 1 THEN [type |-> "board.revision.created", subject |-> r,
                              state |-> "created"]
               ELSE None]
          /\ records = [k \in RecordKeys |-> None]
    BY DEF Init
  <1>2. 1 \in Sequences
    BY LedgerAssumption DEF Sequences
  <1>3. Entry(1) = r
    BY <1>1, <1>2 DEF Entry
  <1>4. Entries = <<head.rev>>
    BY <1>1, <1>3 DEF Entries
  <1>5. Taken = [k \in RecordKeys |-> None]
    BY <1>1 DEF Taken
  <1>6. QED
    BY <1>1, <1>4, <1>5 DEF Log!Init

\* No revision is announced before it is made.
LEMMA NotAnnounced ==
  ASSUME EInv, NEW id \in RevisionIds \ Existing
  PROVE  id \notin Log!Announced
  <1>1. SUFFICES ASSUME NEW n \in 1..head.seq, Entry(n) = id, id # None PROVE FALSE
    BY DEF Log!Announced, Entries
  <1>2. n \in Sequences /\ outbox[n] # None
    BY LedgerAssumption DEF EInv, HInv, IInv, TypeOK, LogContiguous, Sequences
  <1>3. outbox[n].type = "board.revision.created" /\ outbox[n].subject = id
    BY <1>1 DEF Entry
  <1>4. QED
    BY <1>2, <1>3 DEF EInv, CreationsNamed, RevisionsAnnounced

\* Every transaction is a step of the log or leaves it alone.
LEMMA HandleImplements ==
  ASSUME EInv, NEW q \in Requests, Handle(q)
  PROVE  Log!Next \/ UNCHANGED Log!vars
  <1> DEFINE k == RecordKey(q)
  <1>1. IInv
    BY DEF EInv, HInv
  <1>2. ASSUME AllocateSequence PROVE head.seq < MaxSequence /\ head'.rev = head.rev
    BY <1>1, <1>2 DEF AllocateSequence, IInv, TypeOK
  <1>3. head.seq < MaxSequence => NextSequence \in 0..MaxSequence
    BY <1>1, LedgerAssumption DEF IInv, TypeOK, Sequences, NextSequence
  <1>4. ASSUME NEW id \in RevisionIds, CreateRevision(q, id) PROVE Log!Write(k, id)
    <2>1. /\ ~archived /\ archived' = archived /\ ~Known(q) /\ q.expected = head.rev
          /\ q.op \in SceneOperations /\ id \notin Existing /\ head'.rev = id
          /\ Complete(q, [revision |-> id, event |-> NextSequence])
          /\ head.seq < MaxSequence
      BY <1>4 DEF CreateRevision, BasedOnHead, AdvanceHead
    <2>2. [revision |-> id, event |-> NextSequence] \in ResultType
      BY <1>3, <2>1 DEF ResultType
    <2>3. /\ k \in RecordKeys /\ Taken[k] = None
          /\ Taken' = [Taken EXCEPT ![k] = [base |-> head.rev, made |-> id]]
      BY <1>1, <2>1, <2>2, CompleteTakes
    <2>4. Appended(RevisionCreated(id))
      BY <1>1, <1>4, CreateIsStep DEF CreateStep
    <2>5. Entries' = Append(Entries, id)
      BY <1>1, <2>4, EntriesAppend DEF RevisionCreated
    <2>6. id \notin Log!Announced
      BY <2>1, NotAnnounced
    <2>7. QED
      BY <2>1, <2>3, <2>5, <2>6 DEF Log!Write, Log!Take
  <1>5. ASSUME ControlAdmitted(q), NEW result \in ResultType, Complete(q, result),
               q.op \in ArtifactOperations, UNCHANGED archived, head'.rev = head.rev,
               Entries' = Entries \/ Entries' = Append(Entries, None)
        PROVE  Log!Control(k)
    <2>1. ~archived /\ ~Known(q) /\ q.expected = head.rev /\ q.op \notin SceneOperations
      BY <1>5 DEF ControlAdmitted, BasedOnHead, ArtifactOperations, SceneOperations
    <2>2. /\ k \in RecordKeys /\ Taken[k] = None
          /\ Taken' = [Taken EXCEPT ![k] = [base |-> head.rev, made |-> None]]
      BY <1>1, <1>5, <2>1, CompleteTakes
    <2>3. QED
      BY <1>5, <2>1, <2>2 DEF Log!Control, Log!Take
  <1>6. ASSUME NEW a \in Artifacts, NEW s \in {"ready", "stopped"}, AllocateSequence,
               AppendEvent("artifact.status.changed", a, s)
        PROVE  Entries' = Append(Entries, None)
    <2>1. head'.seq = NextSequence
      BY <1>1, <1>6 DEF AllocateSequence, IInv, TypeOK
    <2>2. StatusRow(a, s) \in EventType
      BY DEF StatusRow, EventType
    <2>3. Appended(StatusRow(a, s))
      BY <1>1, <1>2, <1>6, <2>1, <2>2, AppendIsLast DEF StatusRow
    <2>4. QED
      BY <1>1, <2>3, EntriesAppend DEF StatusRow
  <1>7. q.op \in ArtifactOperations => q.arg \in Artifacts
    BY LedgerAssumption
  <1>8. ASSUME AllocateSequence
        PROVE  [revision |-> None, event |-> NextSequence] \in ResultType
    BY <1>2, <1>3, <1>8 DEF ResultType
  <1>14. k \in RecordKeys
    BY RequestTyped
  <1>9. CASE PublishArtifact(q)
    <2>1. /\ q.op \in ArtifactOperations /\ ControlAdmitted(q) /\ AllocateSequence
          /\ AppendEvent("artifact.status.changed", q.arg, "ready")
          /\ Complete(q, [revision |-> None, event |-> NextSequence]) /\ UNCHANGED archived
      BY <1>9 DEF PublishArtifact, ArtifactOperations
    <2>2. Log!Control(k)
      BY <1>2, <1>5, <1>6, <1>7, <1>8, <2>1
    <2>3. QED
      BY <1>14, <2>2 DEF Log!Next
  <1>10. CASE StopReadyArtifact(q)
    <2>1. /\ q.op \in ArtifactOperations /\ ControlAdmitted(q) /\ AllocateSequence
          /\ AppendEvent("artifact.status.changed", q.arg, "stopped")
          /\ Complete(q, [revision |-> None, event |-> NextSequence]) /\ UNCHANGED archived
      BY <1>10 DEF StopReadyArtifact, ArtifactOperations
    <2>2. Log!Control(k)
      BY <1>2, <1>5, <1>6, <1>7, <1>8, <2>1
    <2>3. QED
      BY <1>14, <2>2 DEF Log!Next
  <1>11. CASE StopStoppedArtifact(q)
    <2>1. /\ q.op \in ArtifactOperations /\ ControlAdmitted(q)
          /\ Complete(q, [revision |-> None, event |-> 0])
          /\ UNCHANGED <<head, archived, outbox>>
      BY <1>11 DEF StopStoppedArtifact, ArtifactOperations
    <2>2. [revision |-> None, event |-> 0] \in ResultType
      BY LedgerAssumption DEF ResultType
    <2>3. Entries' = Entries
      BY <2>1, EntriesKept
    <2>4. Log!Control(k)
      BY <1>5, <2>1, <2>2, <2>3
    <2>5. QED
      BY <1>14, <2>4 DEF Log!Next
  <1>12. CASE Archive(q)
    <2>1. /\ q.op = "board.archive" /\ ~Known(q) /\ ~archived /\ archived' = TRUE
          /\ Complete(q, [revision |-> head.rev, event |-> 0])
          /\ UNCHANGED <<head, outbox>>
      BY <1>12 DEF Archive
    <2>2. q.expected = None /\ q.op \notin SceneOperations
      BY <2>1, LedgerAssumption DEF SceneOperations
    <2>3. [revision |-> head.rev, event |-> 0] \in ResultType
      BY <1>1, LedgerAssumption DEF IInv, TypeOK, ResultType
    <2>4. /\ k \in RecordKeys /\ Taken[k] = None
          /\ Taken' = [Taken EXCEPT ![k] = [base |-> None, made |-> None]]
      BY <1>1, <2>1, <2>2, <2>3, CompleteTakes
    <2>5. Log!Close(k)
      BY <2>1, <2>4, EntriesKept DEF Log!Close, Log!Take
    <2>6. QED
      BY <2>4, <2>5 DEF Log!Next
  <1>13. CASE Replay(q) \/ RefuseReuse(q) \/ RefuseConflict(q)
    <2>1. UNCHANGED <<head, archived, outbox, records>>
      BY <1>13 DEF Replay, RefuseReuse, RefuseConflict
    <2>2. QED
      BY <2>1, EntriesKept DEF Log!vars, Taken
  <1>15. QED
    BY <1>4, <1>9, <1>10, <1>11, <1>12, <1>13, <1>14 DEF Handle, Log!Next

\* Every step of the ledger is a step of the log or leaves it alone.
LEMMA NextImplements == EInv /\ [Next]_vars => [Log!Next]_(Log!vars)
  <1> SUFFICES ASSUME EInv, [Next]_vars PROVE Log!Next \/ UNCHANGED Log!vars
    OBVIOUS
  <1>1. IInv
    BY DEF EInv, HInv
  <1>2. ASSUME NEW q \in Requests, Handle(q) PROVE Log!Next \/ UNCHANGED Log!vars
    BY <1>2, HandleImplements
  <1>3. CASE AppendInvalidation
    <2>1. /\ head.seq < MaxSequence /\ head'.seq = NextSequence /\ head'.rev = head.rev
          /\ AppendEvent("stream.resync.required", head.rev, "head")
          /\ UNCHANGED <<archived, records>>
      BY <1>1, <1>3 DEF AppendInvalidation, AllocateSequence, IInv, TypeOK
    <2>2. ResyncRow \in EventType
      BY <1>1 DEF ResyncRow, EventType, IInv, TypeOK
    <2>3. Appended(ResyncRow)
      BY <1>1, <2>1, <2>2, AppendIsLast DEF ResyncRow
    <2>4. Entries' = Append(Entries, None)
      BY <1>1, <2>3, EntriesAppend DEF ResyncRow
    <2>5. Taken' = Taken
      BY <2>1 DEF Taken
    <2>6. QED
      BY <2>1, <2>4, <2>5 DEF Log!Next, Log!Notice
  <1>4. CASE UNCHANGED vars
    BY <1>4, EntriesKept DEF vars, Log!vars, Taken
  <1>5. QED
    BY <1>2, <1>3, <1>4 DEF Next

(***************************************************************************)
(* The theorems                                                            *)
(***************************************************************************)

\* Whatever the order in which requests reach the lock of the board, the
\* revisions are one chain and none was made on a head its author had not seen.
THEOREM ChainAlwaysHolds == Spec => []ChainHolds
  <1>1. HInv => ChainHolds
    BY DEF HInv, IInv, ChainHolds
  <1>2. QED
    BY <1>1, HistoryInvariance, PTL

\* However often a request is sent again, its key acts once, and all the
\* answers to it tell the same.
THEOREM KeysAlwaysActOnce == Spec => []KeyActsOnce
  <1>1. ExactlyOnce /\ RepliesAgree /\ ConflictIsFinal => KeyActsOnce
    BY DEF KeyActsOnce
  <1>2. QED
    BY <1>1, KeysActOnce, RetriesAgree, RefusalIsFinal, PTL

\* A stream that replays the log learns the state: no hole, each revision
\* announced once and in order, the durable head named by a resynchronisation,
\* the stored status of each artifact told last.
THEOREM LogTellsTheState == Spec => []LogTellsState
  <1>1. EInv => LogTellsState
    BY DEF EInv, HInv, IInv, LogTellsState
  <1>2. QED
    BY <1>1, EventsInvariance, PTL

\* No step rewrites a row, touches an archived board or makes the schema of
\* the head older.
THEOREM HistoryAlwaysKept == Spec => HistoryIsKept
  BY RowsAreNeverRewritten, ArchivingIsFinal, SchemaOnlyGrows DEF HistoryIsKept

\* The ledger of rows, keys and sequence numbers implements the log that the
\* board promises.
THEOREM LedgerImplementsLog == Spec => ImplementsLog
  BY InitImplements, NextImplements, EventsInvariance, PTL DEF Spec, Log!Spec, ImplementsLog

-----------------------------------------------------------------------------
(***************************************************************************)
(* The questions: the inductive invariant                                  *)
(*                                                                         *)
(* That the row of a question names the events about it is not inductive:  *)
(* a question that is settled gains an event, and the one it was open with *)
(* must be the one of its creation.  That a new event is about nothing      *)
(* else needs the log without holes of the ledger.                         *)
(***************************************************************************)

OpenAsCreated ==
  \A i \in Asked : interactions[i].state = "open" =>
    interactions[i].stateSequence = interactions[i].createdSequence

QInv ==
  /\ IInv /\ HitlTypeOK
  /\ HitlLogMatchesState /\ OpenAsCreated /\ SettledInTime /\ SuccessorsLive
  /\ RecordsMatchInteractions

QuestionRow(i, s) == [type |-> "hitl.updated", subject |-> i, state |-> s]

\* The events about a question, and what they and its row tell each other.
EventsOf(i) ==
  {n \in Sequences : outbox[n] # None /\ outbox[n].type = "hitl.updated" /\ outbox[n].subject = i}
RowTold(i) ==
  /\ EventsOf(i) = {interactions[i].createdSequence, interactions[i].stateSequence}
  /\ interactions[i].createdSequence <= interactions[i].stateSequence
  /\ outbox[interactions[i].createdSequence].state = "open"
  /\ outbox[interactions[i].stateSequence].state = interactions[i].state

\* The log matches the rows when it does for every question.
LEMMA LogByQuestion ==
  HitlLogMatchesState <=>
    \A i \in Interactions : IF i \in Asked THEN RowTold(i) ELSE EventsOf(i) = {}
  BY DEF HitlLogMatchesState, RowTold, EventsOf

\* A row of a question that was asked has its type.
LEMMA AskedTyped ==
  ASSUME HitlTypeOK, NEW i \in Asked
  PROVE  /\ i \in Interactions /\ interactions[i] \in InteractionType
         /\ interactions[i].createdAt \in 0..MaxTime
         /\ interactions[i].stateUpdatedAt \in Times
         /\ interactions[i].createdSequence \in Sequences
         /\ interactions[i].stateSequence \in Sequences
  BY DEF HitlTypeOK, Asked, InteractionType, Sequences

\* An appended event is about the question it names and no other.
LEMMA AppendedEvents ==
  ASSUME NEW row, Appended(row), NEW i
  PROVE  /\ EventsOf(i)' = IF row.type = "hitl.updated" /\ row.subject = i
                           THEN EventsOf(i) \cup {NextSequence} ELSE EventsOf(i)
         /\ \A n \in EventsOf(i) : n < NextSequence /\ outbox'[n] = outbox[n]
  <1>1. row # None
    BY NullAssumption DEF Appended
  <1>2. \A n \in Sequences : n # NextSequence => outbox'[n] = outbox[n]
    BY DEF Appended
  <1>3. outbox'[NextSequence] = row /\ NextSequence \in Sequences /\ outbox[NextSequence] = None
    BY LedgerAssumption DEF Appended, Sequences
  <1>4. \A n \in EventsOf(i) : n < NextSequence /\ outbox'[n] = outbox[n]
    BY <1>2, <1>3 DEF Appended, EventsOf
  <1>5. CASE row.type = "hitl.updated" /\ row.subject = i
    BY <1>1, <1>2, <1>3, <1>4, <1>5 DEF EventsOf
  <1>6. CASE ~(row.type = "hitl.updated" /\ row.subject = i)
    BY <1>1, <1>2, <1>3, <1>4, <1>6 DEF EventsOf
  <1>7. QED
    BY <1>4, <1>5, <1>6

\* A question whose row and events stay as they are keeps matching the log.
LEMMA RowStaysTold ==
  ASSUME NEW i \in Interactions, interactions'[i] = interactions[i],
         EventsOf(i)' = EventsOf(i), \A n \in EventsOf(i) : outbox'[n] = outbox[n],
         IF i \in Asked THEN RowTold(i) ELSE EventsOf(i) = {}
  PROVE  IF i \in Asked' THEN RowTold(i)' ELSE EventsOf(i)' = {}
  BY DEF Asked, RowTold

\* Where the successor of a superseded question is.
SuccessorLives(i) ==
  LET j == interactions[i].successor IN
  /\ j \in Asked
  /\ interactions[j].createdAt > interactions[i].createdAt
  /\ interactions[j].createdSequence < interactions[i].stateSequence
  /\ IsOpen(j) \/ interactions[j].stateSequence > interactions[i].stateSequence

\* A superseded question whose successor stays as it is keeps it.
LEMMA SuccessorStays ==
  ASSUME QInv, NEW i \in Asked, interactions[i].state = "superseded",
         interactions'[i] = interactions[i],
         interactions'[interactions[i].successor] = interactions[interactions[i].successor]
  PROVE  SuccessorLives(i)'
  BY DEF QInv, SuccessorsLive, SuccessorLives, Asked, IsOpen

(***************************************************************************)
(* Steps of the ledger                                                     *)
(***************************************************************************)

\* A record the ledger completes is not about a question.
LEMMA HandleOtherRecords ==
  ASSUME IInv, NEW q \in Requests, Handle(q), NEW k \in RecordKeys,
         records[k] = None, records'[k] # None
  PROVE  records'[k].fingerprint.op \notin HitlOperations
  <1>1. records \in [RecordKeys -> RecordType \cup {None}]
    BY DEF IInv, TypeOK
  <1>2. ASSUME NEW result, Complete(q, result), q.op \notin HitlOperations
        PROVE  records'[k].fingerprint.op \notin HitlOperations
    BY <1>1, <1>2 DEF Complete, Fingerprint
  <1>3. ASSUME NEW id \in RevisionIds, CreateRevision(q, id)
        PROVE  records'[k].fingerprint.op \notin HitlOperations
    BY <1>2, <1>3 DEF CreateRevision, SceneOperations, HitlOperations
  <1>4. CASE PublishArtifact(q)
    BY <1>2, <1>4 DEF PublishArtifact, HitlOperations
  <1>5. CASE StopReadyArtifact(q)
    BY <1>2, <1>5 DEF StopReadyArtifact, HitlOperations
  <1>6. CASE StopStoppedArtifact(q)
    BY <1>2, <1>6 DEF StopStoppedArtifact, HitlOperations
  <1>7. CASE Archive(q)
    BY <1>2, <1>7 DEF Archive, HitlOperations
  <1>8. QED
    BY <1>3, <1>4, <1>5, <1>6, <1>7 DEF Handle, Replay, RefuseReuse, RefuseConflict

\* No step of the ledger completes a record about a question.
LEMMA LedgerRecords ==
  ASSUME IInv, [Next]_vars, NEW k \in RecordKeys, records[k] = None, records'[k] # None
  PROVE  records'[k].fingerprint.op \notin HitlOperations
  BY HandleOtherRecords DEF Next, AppendInvalidation, vars

\* A step of the ledger says nothing of any question.
LEMMA LedgerEvents ==
  ASSUME IInv, [Next]_vars, NEW i \in Interactions
  PROVE  EventsOf(i)' = EventsOf(i) /\ \A n \in EventsOf(i) : outbox'[n] = outbox[n]
  <1>1. CASE QuietStep
    BY <1>1 DEF QuietStep, EventsOf
  <1>2. CASE ResyncStep
    BY <1>2, AppendedEvents DEF ResyncStep, ResyncRow
  <1>3. ASSUME NEW a \in Artifacts, NEW s \in {"ready", "stopped"}, StatusStep(a, s)
        PROVE  EventsOf(i)' = EventsOf(i) /\ \A n \in EventsOf(i) : outbox'[n] = outbox[n]
    BY <1>3, AppendedEvents DEF StatusStep, StatusRow
  <1>4. ASSUME NEW id \in RevisionIds, CreateStep(id)
        PROVE  EventsOf(i)' = EventsOf(i) /\ \A n \in EventsOf(i) : outbox'[n] = outbox[n]
    BY <1>4, AppendedEvents DEF CreateStep, RevisionCreated
  <1>5. QED
    BY <1>1, <1>2, <1>3, <1>4, StepKinds

\* A step of the ledger keeps the invariant of the questions.
LEMMA LedgerKeeps ==
  ASSUME QInv, [Next]_vars, UNCHANGED <<interactions, sweep>>, now' \in 0..MaxTime
  PROVE  QInv'
  <1>1. IInv' /\ Extends
    BY NextIInv, NextExtends DEF QInv
  <1>2. HitlTypeOK'
    BY <1>1 DEF QInv, IInv, HitlTypeOK
  <1>3. HitlLogMatchesState'
    <2>1. ASSUME NEW i \in Interactions
          PROVE  IF i \in Asked' THEN RowTold(i)' ELSE EventsOf(i)' = {}
      BY LogByQuestion, LedgerEvents, RowStaysTold DEF QInv
    <2>2. QED
      BY <2>1, LogByQuestion DEF HitlLogMatchesState, RowTold, EventsOf
  <1>4. OpenAsCreated' /\ SettledInTime' /\ SuccessorsLive'
    BY DEF QInv, OpenAsCreated, SettledInTime, SuccessorsLive, Asked, IsOpen, ExpiresAt
  <1>5. RecordsMatchInteractions'
    <2>1. ASSUME NEW k \in RecordKeys, records'[k] # None,
                 records'[k].fingerprint.op \in HitlOperations
          PROVE  records'[k] = records[k] /\ records[k] # None
      BY <1>1, <2>1, LedgerRecords DEF QInv, Extends
    <2>2. QED
      BY <2>1 DEF QInv, RecordsMatchInteractions, Asked
  <1>6. QED
    BY <1>1, <1>2, <1>3, <1>4, <1>5 DEF QInv

(***************************************************************************)
(* Steps that tell a question's state                                      *)
(***************************************************************************)

\* A transaction appends an event about a question and leaves the rest of the board.
Tells(i, s) ==
  /\ AllocateSequence /\ AppendEvent("hitl.updated", i, s)
  /\ UNCHANGED <<archived, revisions, catalog, artifacts>>

\* A transaction that appends an event about a question keeps the ledger's invariant.
LEMMA ToldKeepsLedger ==
  ASSUME IInv, NEW i \in Interactions, NEW s \in HitlStates, Tells(i, s),
         records' \in [RecordKeys -> RecordType \cup {None}], replies' \subseteq ReplyType
  PROVE  IInv' /\ Appended(QuestionRow(i, s)) /\ NextSequence \in Sequences
  <1>1. /\ head.seq < MaxSequence /\ head' = [head EXCEPT !.seq = NextSequence]
        /\ head \in [rev : RevisionIds, num : Sequences, seq : Sequences]
        /\ AppendEvent("hitl.updated", i, s)
        /\ UNCHANGED <<archived, revisions, catalog, artifacts>>
    BY DEF Tells, AllocateSequence, IInv, TypeOK
  <1>2. head'.seq = NextSequence /\ head'.rev = head.rev
    BY <1>1
  <1>3. QuestionRow(i, s) \in EventType
    BY DEF QuestionRow, EventType
  <1>4. Appended(QuestionRow(i, s))
    BY <1>1, <1>2, <1>3, AppendIsLast DEF QuestionRow
  <1>5. /\ outbox' \in [Sequences -> EventType \cup {None}]
        /\ LogContiguous' /\ NextSequence \in Sequences
    BY <1>1, <1>2, <1>3, AppendKeepsLog DEF IInv, QuestionRow
  <1>6. TypeOK'
    BY <1>1, <1>5 DEF IInv, TypeOK
  <1>7. CatalogFollowsHead'
    BY <1>1, <1>2 DEF IInv, CatalogFollowsHead, Existing
  <1>8. QED
    BY <1>4, <1>5, <1>6, <1>7 DEF IInv

\* The record a question's transaction completes is about the question.
Recorded(q, i, n) ==
  /\ records'[RecordKey(q)].fingerprint.op = q.op
  /\ records'[RecordKey(q)].fingerprint.arg = i
  /\ records'[RecordKey(q)].result.event = n
  /\ \A k \in RecordKeys : k # RecordKey(q) => records'[k] = records[k]

\* Completing a request records it about the question and the event it names.
LEMMA CompleteAbout ==
  ASSUME IInv, NEW q \in Requests, NextSequence \in Sequences,
         Complete(q, [revision |-> None, event |-> NextSequence]),
         Answer(q, "applied", [revision |-> None, event |-> NextSequence])
  PROVE  /\ Recorded(q, q.arg, NextSequence)
         /\ records' \in [RecordKeys -> RecordType \cup {None}] /\ replies' \subseteq ReplyType
  <1>1. [revision |-> None, event |-> NextSequence] \in ResultType
    BY DEF ResultType, Sequences
  <1>2. /\ records' \in [RecordKeys -> RecordType \cup {None}]
        /\ replies' \subseteq ReplyType
    BY <1>1, CompleteTyped, AnswerTyped DEF IInv, TypeOK, Outcomes
  <1>3. records \in [RecordKeys -> RecordType \cup {None}] /\ RecordKey(q) \in RecordKeys
    BY RequestTyped DEF IInv, TypeOK
  <1>4. Recorded(q, q.arg, NextSequence)
    BY <1>3 DEF Complete, Recorded, Fingerprint
  <1>5. QED
    BY <1>2, <1>4

\* The next sequence is one if one is left.
LEMMA NextIsSequence ==
  ASSUME IInv, AllocateSequence
  PROVE  NextSequence \in Sequences
  BY LedgerAssumption DEF IInv, TypeOK, AllocateSequence, NextSequence, Sequences

\* A question is asked by a row of its own, with the first event about it.
LEMMA AskKeeps ==
  ASSUME QInv, NEW q \in Requests, NEW t \in Clocks, RequestInteraction(q, t), UNCHANGED now
  PROVE  QInv'
  <1> DEFINE i == q.arg
             row == [state |-> "open", createdBy |-> q.auth, createdAt |-> t,
                     stateUpdatedAt |-> t, createdSequence |-> NextSequence,
                     stateSequence |-> NextSequence, successor |-> None]
  <1>1. /\ i \in Interactions /\ i \notin Asked /\ Tells(i, "open")
        /\ interactions' = [interactions EXCEPT ![i] = row]
        /\ Complete(q, [revision |-> None, event |-> NextSequence])
        /\ Answer(q, "applied", [revision |-> None, event |-> NextSequence])
        /\ q.op = "hitl.request" /\ UNCHANGED sweep /\ AllocateSequence
    BY LedgerAssumption DEF RequestInteraction, Tells, Asked, HitlOperations
  <1>2. NextSequence \in Sequences
    BY <1>1, NextIsSequence DEF QInv
  <1>3. /\ Recorded(q, i, NextSequence)
        /\ records' \in [RecordKeys -> RecordType \cup {None}] /\ replies' \subseteq ReplyType
    BY <1>1, <1>2, CompleteAbout DEF QInv
  <1>4. IInv' /\ Appended(QuestionRow(i, "open"))
    BY <1>1, <1>3, ToldKeepsLedger DEF QInv, HitlStates
  <1>5. t \in 0..MaxTime /\ t \in Times
    BY HitlAssumption DEF QInv, HitlTypeOK, Clocks, Times
  <1>6. row \in InteractionType /\ row # None
    <2>1. q.auth \in Auths
      BY RequestTyped DEF RequestType
    <2>2. row \in InteractionType
      BY <1>2, <1>5, <2>1 DEF InteractionType, HitlStates, Sequences
    <2>3. QED
      BY <2>2, QuestionAssumption
  <1>7. /\ interactions \in [Interactions -> InteractionType \cup {None}]
        /\ interactions'[i] = row /\ \A j \in Interactions : j # i => interactions'[j] = interactions[j]
        /\ Asked' = Asked \cup {i}
    BY <1>1, <1>6 DEF QInv, HitlTypeOK, Asked
  <1> HIDE DEF row
  <1>8. HitlTypeOK'
    BY <1>1, <1>4, <1>6 DEF QInv, IInv, HitlTypeOK
  <1>9. /\ row.state = "open" /\ row.createdAt = t /\ row.stateUpdatedAt = t
        /\ row.createdSequence = NextSequence /\ row.stateSequence = NextSequence
    BY DEF row
  <1>10. HitlLogMatchesState'
    <2>1. ASSUME NEW j \in Interactions, j # i
          PROVE  IF j \in Asked' THEN RowTold(j)' ELSE EventsOf(j)' = {}
      <3>1. EventsOf(j)' = EventsOf(j) /\ \A n \in EventsOf(j) : outbox'[n] = outbox[n]
        BY <1>4, <2>1, AppendedEvents DEF QuestionRow
      <3>2. QED
        BY <1>7, <2>1, <3>1, LogByQuestion, RowStaysTold DEF QInv
    <2>2. RowTold(i)'
      <3>1. EventsOf(i) = {} /\ EventsOf(i)' = EventsOf(i) \cup {NextSequence}
        BY <1>1, <1>4, AppendedEvents, LogByQuestion DEF QInv, QuestionRow
      <3>2. outbox'[NextSequence].state = "open"
        BY <1>4 DEF Appended, QuestionRow
      <3>3. NextSequence \in Nat
        BY <1>2, LedgerAssumption DEF Sequences
      <3>4. QED
        BY <1>7, <1>9, <3>1, <3>2, <3>3 DEF RowTold
    <2>3. QED
      BY <1>7, <2>1, <2>2, LogByQuestion DEF HitlLogMatchesState, RowTold, EventsOf
  <1>11. OpenAsCreated' /\ SettledInTime'
    BY <1>7, <1>9 DEF QInv, OpenAsCreated, SettledInTime, ExpiresAt, Asked
  <1>12. SuccessorsLive'
    <2>1. ASSUME NEW k \in Asked, interactions[k].state = "superseded"
          PROVE  SuccessorLives(k)'
      <3>1. interactions[k].successor \in Asked
        BY <2>1 DEF QInv, SuccessorsLive
      <3>2. /\ interactions'[interactions[k].successor] = interactions[interactions[k].successor]
            /\ interactions'[k] = interactions[k]
        BY <1>1, <1>7, <3>1 DEF Asked
      <3>3. QED
        BY <2>1, <3>2, SuccessorStays
    <2>2. ASSUME NEW k \in Asked', interactions'[k].state = "superseded"
          PROVE  k \in Asked /\ interactions[k].state = "superseded"
      BY <1>1, <1>7, <1>9, <2>2 DEF Asked
    <2>3. QED
      BY <2>1, <2>2 DEF SuccessorsLive, SuccessorLives
  <1>13. RecordsMatchInteractions'
    <2>1. ASSUME NEW k \in RecordKeys, k # RecordKey(q), records'[k] # None,
                 records'[k].fingerprint.op \in HitlOperations
          PROVE  /\ records[k] = records'[k] /\ records[k].fingerprint.arg \in Asked
                 /\ interactions'[records[k].fingerprint.arg] = interactions[records[k].fingerprint.arg]
      <3>1. records[k] = records'[k]
        BY <1>3, <2>1 DEF Recorded
      <3>2. records[k].fingerprint.arg \in Asked
        BY <2>1, <3>1 DEF QInv, RecordsMatchInteractions
      <3>3. QED
        BY <1>1, <1>7, <3>1, <3>2 DEF Asked
    <2>2. QED
      BY <1>1, <1>3, <1>7, <1>9, <2>1 DEF QInv, RecordsMatchInteractions, Recorded, Asked
  <1>14. QED
    BY <1>4, <1>8, <1>10, <1>11, <1>12, <1>13 DEF QInv

(***************************************************************************)
(* Steps that settle a question                                            *)
(***************************************************************************)

\* A time and a successor that fit the state a question is settled in.
Fits(i, state, time, successor) ==
  /\ state \in HitlStates \ {"open"} /\ time \in Times /\ successor \in Interactions \cup {None}
  /\ state = "expired" => time = ExpiresAt(i)
  /\ state # "expired" => interactions[i].createdAt < time /\ time < ExpiresAt(i)
  /\ state = "superseded" =>
       /\ successor \in Asked /\ successor # i /\ IsOpen(successor)
       /\ interactions[successor].createdAt > interactions[i].createdAt

\* The record of an answer is completed as the question is answered, or none is.
RecordsFit(i, state) ==
  \/ UNCHANGED records
  \/ \E q \in Requests : q.op = "hitl.respond" /\ state = "answered" /\ Recorded(q, i, NextSequence)

\* Whoever settles an open question.
LEMMA SettleKeeps ==
  ASSUME QInv, NEW i \in Asked, IsOpen(i), NEW state, NEW time, NEW successor,
         Fits(i, state, time, successor), Settle(i, state, time, successor),
         RecordsFit(i, state),
         records' \in [RecordKeys -> RecordType \cup {None}], replies' \subseteq ReplyType,
         UNCHANGED <<archived, revisions, catalog, artifacts, now>>,
         sweep' \in [at : 0..MaxTime, batch : SUBSET Interactions]
  PROVE  QInv'
  <1> DEFINE old == interactions[i]
             row == [old EXCEPT !.state = state, !.stateUpdatedAt = time,
                                !.successor = successor, !.stateSequence = NextSequence]
  <1>1. /\ AllocateSequence /\ interactions' = [interactions EXCEPT ![i] = row]
        /\ AppendEvent("hitl.updated", i, state)
    BY DEF Settle
  <1>2. NextSequence \in Sequences
    BY <1>1, NextIsSequence DEF QInv
  <1>3. i \in Interactions /\ old \in InteractionType /\ old.state = "open"
    BY AskedTyped DEF QInv, IsOpen
  <1>4. IInv' /\ Appended(QuestionRow(i, state))
    BY <1>1, <1>3, ToldKeepsLedger DEF QInv, Tells, Fits
  <1>5. /\ row \in InteractionType /\ row # None
        /\ row.state = state /\ row.stateUpdatedAt = time /\ row.successor = successor
        /\ row.stateSequence = NextSequence /\ row.createdSequence = old.createdSequence
        /\ row.createdAt = old.createdAt
    <2>1. NextSequence \in 1..MaxSequence
      BY <1>2 DEF Sequences
    <2>2. row \in InteractionType
      BY <1>3, <2>1 DEF InteractionType, Fits
    <2>3. QED
      BY <1>3, <2>2, QuestionAssumption DEF InteractionType
  <1>6. /\ interactions \in [Interactions -> InteractionType \cup {None}]
        /\ interactions'[i] = row /\ \A j \in Interactions : j # i => interactions'[j] = interactions[j]
        /\ Asked' = Asked
    BY <1>1, <1>3, <1>5 DEF QInv, HitlTypeOK, Asked
  <1> HIDE DEF row
  <1>7. HitlTypeOK'
    BY <1>1, <1>4, <1>5, <1>6 DEF QInv, IInv, HitlTypeOK
  <1>8. RowTold(i) /\ EventsOf(i) = {old.createdSequence}
    <2>1. RowTold(i) /\ old.stateSequence = old.createdSequence
      BY <1>3, LogByQuestion DEF QInv, OpenAsCreated
    <2>2. QED
      BY <2>1 DEF RowTold
  <1>9. HitlLogMatchesState'
    <2>1. ASSUME NEW j \in Interactions, j # i
          PROVE  IF j \in Asked' THEN RowTold(j)' ELSE EventsOf(j)' = {}
      <3>1. EventsOf(j)' = EventsOf(j) /\ \A n \in EventsOf(j) : outbox'[n] = outbox[n]
        BY <1>4, <2>1, AppendedEvents DEF QuestionRow
      <3>2. QED
        BY <1>6, <2>1, <3>1, LogByQuestion, RowStaysTold DEF QInv
    <2>2. RowTold(i)'
      <3>1. /\ EventsOf(i)' = EventsOf(i) \cup {NextSequence}
            /\ \A n \in EventsOf(i) : n < NextSequence /\ outbox'[n] = outbox[n]
        BY <1>4, AppendedEvents DEF QuestionRow
      <3>2. outbox'[NextSequence].state = state
        BY <1>4 DEF Appended, QuestionRow
      <3>3. old.createdSequence < NextSequence /\ outbox'[old.createdSequence] = outbox[old.createdSequence]
        BY <1>8, <3>1
      <3>4. old.createdSequence \in Nat /\ NextSequence \in Nat
        BY <1>2, <1>3, LedgerAssumption DEF InteractionType, Sequences
      <3>5. old.createdSequence <= NextSequence
        BY <3>3, <3>4
      <3>6. outbox'[old.createdSequence].state = "open"
        BY <1>8, <3>3 DEF RowTold
      <3>7. QED
        BY <1>5, <1>6, <1>8, <3>1, <3>2, <3>5, <3>6 DEF RowTold
    <2>3. QED
      BY <1>3, <1>6, <2>1, <2>2, LogByQuestion DEF HitlLogMatchesState, RowTold, EventsOf
  <1>10. OpenAsCreated'
    BY <1>3, <1>5, <1>6 DEF QInv, OpenAsCreated, Asked, Fits
  <1>11. SettledInTime'
    BY <1>3, <1>5, <1>6 DEF QInv, SettledInTime, ExpiresAt, Asked, Fits
  <1>12. SuccessorsLive'
    <2>1. ASSUME NEW k \in Asked, k # i, interactions[k].state = "superseded"
          PROVE  SuccessorLives(k)'
      <3>1. interactions[k].successor \in Asked /\ interactions'[k] = interactions[k]
        BY <1>6, <2>1 DEF QInv, SuccessorsLive, Asked
      <3>2. CASE interactions[k].successor # i
        BY <1>6, <2>1, <3>1, <3>2, SuccessorStays DEF Asked
      <3>3. CASE interactions[k].successor = i
        <4>1. k \in Interactions /\ EventsOf(k) = {interactions[k].createdSequence, interactions[k].stateSequence}
          BY LogByQuestion DEF QInv, RowTold, Asked
        <4>2. interactions[k].stateSequence < NextSequence
          BY <1>4, <4>1, AppendedEvents
        <4>3. interactions[k].stateSequence \in Nat /\ NextSequence \in Nat
          BY <1>2, AskedTyped, LedgerAssumption DEF QInv, Sequences
        <4>4. NextSequence > interactions[k].stateSequence
          BY <4>2, <4>3
        <4>5. /\ old.createdAt > interactions[k].createdAt
              /\ old.createdSequence < interactions[k].stateSequence
          BY <2>1, <3>3 DEF QInv, SuccessorsLive
        <4>6. QED
          BY <1>5, <1>6, <3>1, <3>3, <4>4, <4>5 DEF SuccessorLives
      <3>4. QED
        BY <3>2, <3>3
    <2>2. ASSUME state = "superseded" PROVE SuccessorLives(i)'
      <3>1. /\ successor \in Asked /\ successor # i /\ IsOpen(successor)
            /\ interactions[successor].createdAt > old.createdAt
            /\ interactions'[successor] = interactions[successor]
        BY <1>6, <2>2 DEF Fits, Asked
      <3>2. EventsOf(successor) = {interactions[successor].createdSequence, interactions[successor].stateSequence}
        BY <3>1, LogByQuestion DEF QInv, RowTold, Asked
      <3>3. interactions[successor].createdSequence < NextSequence
        BY <1>4, <3>2, AppendedEvents
      <3>4. QED
        BY <1>5, <1>6, <3>1, <3>3 DEF SuccessorLives, IsOpen
    <2>3. QED
      BY <1>5, <1>6, <2>1, <2>2 DEF SuccessorsLive, SuccessorLives, Asked
  <1>13. RecordsMatchInteractions'
    <2> DEFINE Match(k) ==
          /\ records[k].fingerprint.arg \in Asked
          /\ records[k].fingerprint.op = "hitl.request" =>
               interactions[records[k].fingerprint.arg].createdSequence = records[k].result.event
          /\ records[k].fingerprint.op = "hitl.respond" =>
               /\ interactions[records[k].fingerprint.arg].state = "answered"
               /\ interactions[records[k].fingerprint.arg].stateSequence = records[k].result.event
    <2>1. ASSUME NEW k \in RecordKeys, records'[k] = records[k], records[k] # None,
                 records[k].fingerprint.op \in HitlOperations
          PROVE  Match(k)'
      <3>1. Match(k)
        BY <2>1 DEF QInv, RecordsMatchInteractions
      <3>2. CASE records[k].fingerprint.arg = i
        BY <1>3, <1>5, <1>6, <2>1, <3>1, <3>2
      <3>3. CASE records[k].fingerprint.arg # i
        BY <1>6, <2>1, <3>1, <3>3 DEF Asked
      <3>4. QED
        BY <3>2, <3>3
    <2>2. ASSUME NEW q \in Requests, q.op = "hitl.respond", state = "answered",
                 Recorded(q, i, NextSequence)
          PROVE  Match(RecordKey(q))'
      BY <1>5, <1>6, <2>2 DEF Recorded
    <2>3. QED
      <3>1. CASE UNCHANGED records
        BY <2>1, <3>1 DEF RecordsMatchInteractions
      <3>2. ASSUME NEW q \in Requests, q.op = "hitl.respond", state = "answered",
                   Recorded(q, i, NextSequence)
            PROVE  RecordsMatchInteractions'
        <4>1. ASSUME NEW k \in RecordKeys, records'[k] # None,
                     records'[k].fingerprint.op \in HitlOperations
              PROVE  Match(k)'
          BY <2>1, <2>2, <3>2, <4>1 DEF Recorded
        <4>2. QED
          BY <4>1 DEF RecordsMatchInteractions
      <3>3. QED
        BY <3>1, <3>2 DEF RecordsFit
  <1>14. QED
    BY <1>4, <1>7, <1>9, <1>10, <1>11, <1>12, <1>13 DEF QInv

(***************************************************************************)
(* Every step                                                              *)
(***************************************************************************)

\* What a step may do to the questions.
Changes ==
  \/ UNCHANGED interactions
  \/ \E i \in Interactions \ Asked, row \in InteractionType :
       ~archived /\ interactions' = [interactions EXCEPT ![i] = row]
  \/ \E i \in Asked : /\ IsOpen(i) /\ \A j \in Interactions : j # i => interactions'[j] = interactions[j]
                      /\ archived => interactions'[i].state = "expired"

\* The time of an expiry is one.
LEMMA ExpiryFits ==
  ASSUME QInv, NEW i \in Asked
  PROVE  Fits(i, "expired", ExpiresAt(i), None)
  <1>1. interactions[i].createdAt \in 0..MaxTime /\ Expiry \in Nat /\ MaxTime \in Nat
    BY AskedTyped, HitlAssumption DEF QInv
  <1>2. ExpiresAt(i) \in Times
    BY <1>1 DEF ExpiresAt, Times
  <1>3. QED
    BY <1>2 DEF Fits, HitlStates

\* An operation in time is dated after the creation.
LEMMA OperationFits ==
  ASSUME QInv, NEW i \in Asked, NEW t \in Clocks, InTime(i, OperationTime(i, t)),
         NEW state \in {"answered", "cancelled"}
  PROVE  Fits(i, state, OperationTime(i, t), None)
  <1>1. interactions[i].createdAt \in 0..MaxTime /\ Expiry \in Nat /\ MaxTime \in Nat /\ t \in Nat
    BY AskedTyped, HitlAssumption DEF QInv, Clocks, HitlTypeOK
  <1>2. /\ OperationTime(i, t) \in Nat /\ interactions[i].createdAt < OperationTime(i, t)
        /\ OperationTime(i, t) < ExpiresAt(i)
    BY <1>1 DEF OperationTime, InTime
  <1>3. OperationTime(i, t) \in Times
    BY <1>1, <1>2 DEF Times, ExpiresAt
  <1>4. QED
    BY <1>2, <1>3 DEF Fits, HitlStates

\* Settling changes no other question.
LEMMA SettleChanges ==
  ASSUME QInv, NEW i \in Asked, IsOpen(i), NEW state, NEW time, NEW successor,
         Settle(i, state, time, successor), archived => state = "expired"
  PROVE  Changes
  <1>1. interactions \in [Interactions -> InteractionType \cup {None}]
        /\ interactions[i] \in InteractionType /\ i \in Interactions
    BY AskedTyped DEF QInv, HitlTypeOK
  <1>2. interactions'[i].state = state /\ \A j \in Interactions : j # i => interactions'[j] = interactions[j]
    BY <1>1 DEF Settle, InteractionType
  <1>3. QED
    BY <1>2 DEF Changes

\* Expiring an open question, whoever finds it overdue.
LEMMA ExpireKeeps ==
  ASSUME QInv, NEW i, IsOpen(i), ExpireLocked(i), UNCHANGED records, replies' = replies,
         UNCHANGED <<archived, revisions, catalog, artifacts, now>>,
         sweep' \in [at : 0..MaxTime, batch : SUBSET Interactions]
  PROVE  QInv' /\ Changes
  <1>1. i \in Asked /\ Settle(i, "expired", ExpiresAt(i), None)
    BY DEF IsOpen, ExpireLocked
  <1>2. /\ records' \in [RecordKeys -> RecordType \cup {None}] /\ replies' \subseteq ReplyType
        /\ RecordsFit(i, "expired")
    BY DEF QInv, IInv, TypeOK, RecordsFit
  <1>3. QED
    BY <1>1, <1>2, ExpiryFits, SettleKeeps, SettleChanges

\* Transactions of requests.
LEMMA RequestKeeps ==
  ASSUME QInv, NEW q \in Requests, NEW t \in Clocks, UNCHANGED now,
         RequestInteraction(q, t) \/ RespondInteraction(q, t) \/ RespondTooLate(q, t)
  PROVE  QInv' /\ Changes
  <1> DEFINE i == q.arg
  <1>1. CASE RequestInteraction(q, t)
    <2>1. QInv' /\ q.auth \in Auths /\ t \in 0..MaxTime /\ t \in Times
      BY <1>1, AskKeeps, RequestTyped, HitlAssumption
         DEF RequestType, QInv, HitlTypeOK, Clocks, Times
    <2>2. /\ i \in Interactions \ Asked /\ ~archived /\ NextSequence \in Sequences
          /\ interactions' = [interactions EXCEPT ![i] =
               [state |-> "open", createdBy |-> q.auth, createdAt |-> t, stateUpdatedAt |-> t,
                createdSequence |-> NextSequence, stateSequence |-> NextSequence,
                successor |-> None]]
      BY <1>1, LedgerAssumption, NextIsSequence
         DEF RequestInteraction, HitlOperations, Asked, ControlAdmitted, QInv
    <2>3. [state |-> "open", createdBy |-> q.auth, createdAt |-> t, stateUpdatedAt |-> t,
           createdSequence |-> NextSequence, stateSequence |-> NextSequence,
           successor |-> None] \in InteractionType
      BY <2>1, <2>2 DEF InteractionType, HitlStates, Sequences
    <2>4. QED
      BY <2>1, <2>2, <2>3 DEF Changes
  <1>2. CASE RespondInteraction(q, t)
    <2>1. /\ i \in Asked /\ IsOpen(i) /\ InTime(i, OperationTime(i, t)) /\ ~archived
          /\ Settle(i, "answered", OperationTime(i, t), None) /\ AllocateSequence
          /\ Complete(q, [revision |-> None, event |-> NextSequence])
          /\ Answer(q, "applied", [revision |-> None, event |-> NextSequence])
          /\ q.op = "hitl.respond" /\ UNCHANGED <<archived, revisions, catalog, artifacts, sweep>>
      BY <1>2 DEF RespondInteraction, IsOpen, ControlAdmitted, Settle
    <2>2. /\ Recorded(q, i, NextSequence)
          /\ records' \in [RecordKeys -> RecordType \cup {None}] /\ replies' \subseteq ReplyType
      BY <2>1, NextIsSequence, CompleteAbout DEF QInv
    <2>3. RecordsFit(i, "answered") /\ sweep' \in [at : 0..MaxTime, batch : SUBSET Interactions]
      BY <2>1, <2>2 DEF RecordsFit, QInv, HitlTypeOK
    <2>4. Fits(i, "answered", OperationTime(i, t), None)
      BY <2>1, OperationFits
    <2>5. QED
      BY <2>1, <2>2, <2>3, <2>4, SettleKeeps, SettleChanges
  <1>3. CASE RespondTooLate(q, t)
    <2>1. /\ IsOpen(i) /\ ExpireLocked(i) /\ UNCHANGED <<archived, revisions, catalog, artifacts>>
          /\ UNCHANGED records /\ replies' = replies
          /\ sweep' \in [at : 0..MaxTime, batch : SUBSET Interactions]
      BY <1>3 DEF RespondTooLate, AbandonPending, QInv, HitlTypeOK
    <2>2. QED
      BY <2>1, ExpireKeeps
  <1>4. QED
    BY <1>1, <1>2, <1>3

\* Transactions of the lifecycle.
LEMMA LifecycleKeeps ==
  ASSUME QInv, NEW i \in Interactions, NEW auth \in Auths, NEW expected \in Existing,
         NEW cursor \in Times, NEW t \in Clocks, UNCHANGED now,
         Lifecycle(i, auth, expected, cursor, t)
  PROVE  QInv' /\ Changes
  <1>1. sweep \in [at : 0..MaxTime, batch : SUBSET Interactions] /\ records' = records =>
          /\ records' \in [RecordKeys -> RecordType \cup {None}]
          /\ \A state : RecordsFit(i, state)
    BY DEF QInv, IInv, TypeOK, RecordsFit
  <1>2. sweep \in [at : 0..MaxTime, batch : SUBSET Interactions] /\ replies \subseteq ReplyType
    BY DEF QInv, IInv, TypeOK, HitlTypeOK
  <1>3. CASE LifecycleTooLate(i, auth, expected, cursor, t)
    BY <1>2, <1>3, ExpireKeeps DEF LifecycleTooLate, LifecycleAdmitted
  <1>4. CASE CancelInteraction(i, auth, expected, cursor, t)
    <2>1. /\ i \in Asked /\ IsOpen(i) /\ InTime(i, OperationTime(i, t)) /\ ~archived
          /\ Settle(i, "cancelled", OperationTime(i, t), None)
          /\ UNCHANGED <<archived, revisions, catalog, records, artifacts, replies, sweep>>
      BY <1>4 DEF CancelInteraction, LifecycleAdmitted
    <2>2. Fits(i, "cancelled", OperationTime(i, t), None)
      BY <2>1, OperationFits
    <2>3. QED
      BY <1>1, <1>2, <2>1, <2>2, SettleKeeps, SettleChanges
  <1>5. ASSUME NEW j \in Interactions, SupersedeInteraction(i, j, auth, expected, cursor, t)
        PROVE  QInv' /\ Changes
    <2>1. /\ i \in Asked /\ IsOpen(i) /\ InTime(i, OperationTime(i, t)) /\ ~archived
          /\ Settle(i, "superseded", OperationTime(i, t), j) /\ SuccessorAdmitted(i, j, OperationTime(i, t))
          /\ UNCHANGED <<archived, revisions, catalog, records, artifacts, replies, sweep>>
      BY <1>5 DEF SupersedeInteraction, LifecycleAdmitted
    <2>2. Fits(i, "cancelled", OperationTime(i, t), None)
      BY <2>1, OperationFits
    <2>3. Fits(i, "superseded", OperationTime(i, t), j)
      BY <2>1, <2>2 DEF Fits, HitlStates, SuccessorAdmitted, IsOpen
    <2>4. QED
      BY <1>1, <1>2, <2>1, <2>3, SettleKeeps, SettleChanges
  <1>6. QED
    BY <1>3, <1>4, <1>5 DEF Lifecycle

\* A step that changes neither a row nor the ledger.
LEMMA QuietKeeps ==
  ASSUME QInv, UNCHANGED <<vars, interactions>>, now' \in 0..MaxTime,
         sweep' \in [at : 0..MaxTime, batch : SUBSET Interactions]
  PROVE  QInv' /\ Changes
  <1>1. IInv'
    BY NextIInv DEF QInv
  <1>2. HitlTypeOK'
    BY <1>1 DEF QInv, IInv, HitlTypeOK
  <1>3. QED
    BY <1>1, <1>2 DEF vars, QInv, HitlLogMatchesState, OpenAsCreated, SettledInTime, SuccessorsLive,
                      RecordsMatchInteractions, Asked, IsOpen, ExpiresAt, Changes

\* The sweep, which reads without locks and expires one by one.
LEMMA SweepKeeps ==
  ASSUME QInv, UNCHANGED now,
         \/ \E t \in Clocks : SweepScan(t)
         \/ \E i \in Interactions : SweepExpire(i) \/ SweepSkip(i)
         \/ SweepAbort
  PROVE  QInv' /\ Changes
  <1>1. sweep \in [at : 0..MaxTime, batch : SUBSET Interactions] /\ now \in 0..MaxTime /\ MaxTime \in Nat
    BY HitlAssumption DEF QInv, HitlTypeOK
  <1>2. ASSUME NEW t \in Clocks, SweepScan(t) PROVE QInv' /\ Changes
    <2>1. t \in 0..MaxTime /\ Due(t) \subseteq Interactions
      BY <1>1 DEF Clocks, Due, Asked
    <2>2. sweep' \in [at : 0..MaxTime, batch : SUBSET Interactions]
      BY <1>2, <2>1 DEF SweepScan
    <2>3. QED
      BY <1>1, <1>2, <2>2, QuietKeeps DEF SweepScan
  <1>3. ASSUME NEW i \in Interactions, SweepExpire(i) PROVE QInv' /\ Changes
    <2>1. sweep' \in [at : 0..MaxTime, batch : SUBSET Interactions]
      BY <1>1, <1>3 DEF SweepExpire
    <2>2. QED
      BY <1>3, <2>1, ExpireKeeps DEF SweepExpire, StillDue
  <1>4. ASSUME NEW i \in Interactions, SweepSkip(i) PROVE QInv' /\ Changes
    <2>1. sweep' \in [at : 0..MaxTime, batch : SUBSET Interactions]
      BY <1>1, <1>4 DEF SweepSkip
    <2>2. QED
      BY <1>1, <1>4, <2>1, QuietKeeps DEF SweepSkip
  <1>5. CASE SweepAbort
    <2>1. sweep' \in [at : 0..MaxTime, batch : SUBSET Interactions]
      BY <1>1, <1>5 DEF SweepAbort
    <2>2. QED
      BY <1>1, <1>5, <2>1, QuietKeeps DEF SweepAbort
  <1>6. QED
    BY <1>2, <1>3, <1>4, <1>5

\* Every step keeps the invariant and changes one question at most.
LEMMA NextQInv == QInv /\ [HitlNext]_allVars => QInv' /\ Changes
  <1> SUFFICES ASSUME QInv, [HitlNext]_allVars PROVE QInv' /\ Changes
    OBVIOUS
  <1>1. now \in 0..MaxTime /\ MaxTime \in Nat
        /\ sweep \in [at : 0..MaxTime, batch : SUBSET Interactions]
    BY HitlAssumption DEF QInv, HitlTypeOK
  <1>2. CASE Next /\ UNCHANGED <<hitlVars, now>>
    BY <1>1, <1>2, LedgerKeeps DEF hitlVars, Changes
  <1>3. ASSUME NEW t \in Clocks, Transaction(t), UNCHANGED now PROVE QInv' /\ Changes
    <2>1. ASSUME NEW i \in Interactions, ExpireOnRead(i, t) PROVE QInv' /\ Changes
      BY <1>1, <1>3, <2>1, ExpireKeeps DEF ExpireOnRead
    <2>2. QED
      BY <1>3, <2>1, RequestKeeps, LifecycleKeeps, SweepKeeps DEF Transaction
  <1>4. CASE ((\E i \in Interactions : SweepExpire(i) \/ SweepSkip(i)) \/ SweepAbort) /\ UNCHANGED now
    BY <1>4, SweepKeeps
  <1>5. CASE Tick
    <2>1. now' \in 0..MaxTime
      BY <1>1, <1>5 DEF Tick
    <2>2. QED
      BY <1>1, <1>5, <2>1, QuietKeeps DEF Tick, hitlVars
  <1>6. CASE UNCHANGED allVars
    BY <1>1, <1>6, QuietKeeps DEF allVars, hitlVars
  <1>7. QED
    BY <1>2, <1>3, <1>4, <1>5, <1>6 DEF HitlNext

\* A board without questions.
LEMMA InitQInv == HitlInit => QInv
  <1> SUFFICES ASSUME HitlInit PROVE QInv
    OBVIOUS
  <1>1. IInv /\ Asked = {}
    BY InitIInv DEF HitlInit, Asked
  <1>2. HitlTypeOK
    BY <1>1, HitlAssumption DEF HitlInit, HitlTypeOK, IInv
  <1>3. \A n \in Sequences : outbox[n] = None \/ outbox[n].type # "hitl.updated"
    BY DEF HitlInit, Init
  <1>4. HitlLogMatchesState
    BY <1>1, <1>3, LogByQuestion DEF EventsOf
  <1>5. RecordsMatchInteractions
    BY DEF HitlInit, Init, RecordsMatchInteractions
  <1>6. QED
    BY <1>1, <1>2, <1>4, <1>5 DEF QInv, OpenAsCreated, SettledInTime, SuccessorsLive

(***************************************************************************)
(* The theorem                                                             *)
(***************************************************************************)

\* What a step changes, and on an archived board.
LEMMA ChangesSettleOnce ==
  ASSUME QInv, Changes
  PROVE  /\ \A i \in Asked : ~IsOpen(i) => interactions'[i] = interactions[i]
         /\ archived => \A i \in Interactions : interactions'[i] # interactions[i] =>
                          IsOpen(i) /\ interactions'[i].state = "expired"
  <1>1. interactions \in [Interactions -> InteractionType \cup {None}] /\ Asked \subseteq Interactions
    BY DEF QInv, HitlTypeOK, Asked
  <1>2. QED
    BY <1>1 DEF Changes

\* A question is settled once and told truly: event, row and record agree, in time and
\* with a live successor, whichever of answer, cancel, supersede, read and sweep was first,
\* for any number of questions, requests and processes with their own clocks.
THEOREM QuestionsAreSettledOnceAndTold == HitlSpec => SettledOnceAndTold
  <1>1. HitlInit => QInv
    BY InitQInv
  <1>2. QInv /\ [HitlNext]_allVars => QInv'
    BY NextQInv
  <1>3. QInv => HitlTypeOK /\ HitlLogMatchesState /\ SettledInTime /\ SuccessorsLive
                  /\ RecordsMatchInteractions
    BY DEF QInv
  <1>4. QInv /\ [HitlNext]_allVars =>
          /\ [\A i \in Asked : ~IsOpen(i) => interactions'[i] = interactions[i]]_allVars
          /\ [archived => \A i \in Interactions : interactions'[i] # interactions[i] =>
                 IsOpen(i) /\ interactions'[i].state = "expired"]_allVars
    BY NextQInv, ChangesSettleOnce
  <1>5. QED
    BY <1>1, <1>2, <1>3, <1>4, PTL DEF HitlSpec, SettledOnceAndTold, SettledOnce, ArchivedOnlyExpires
=============================================================================
