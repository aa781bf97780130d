-------------------------- MODULE RevisionRetention --------------------------
(***************************************************************************)
(* Reclaiming the payloads of old revisions of one board.  A worker takes  *)
(* the board's lease for a run, plans the candidates and takes every item  *)
(* through its phases, one transaction each, while other transactions      *)
(* append revisions, hold revisions and restore them.  Losing the lease    *)
(* ends the run for good (RetentionService, RetentionRecoveryService,      *)
(* RetentionLockService, the operator's script).                           *)
(***************************************************************************)
EXTENDS Naturals, FiniteSets

CONSTANTS
  Workers,
  Retained,       \* newest revisions that are never candidates (32)
  MaxAttempts,    \* failures that quarantine an item (10)
  MaxRevision, MaxRuns, MaxHolds    \* bounds: revisions, leases taken, holds at once

RetentionAssumption ==
  {Retained, MaxAttempts, MaxRevision, MaxRuns, MaxHolds} \subseteq Nat \ {0}

VARIABLES
  head,
  catalog,      \* revisions listed in board_revision_catalog
  truncated,    \* rows of the catalog that are marked truncated_before
  payload, refs,        \* revisions with a payload, with their references
  holds,        \* active rows of board_revision_holds, and whether the references were
                \* there when each was taken
  lease,        \* the row of board_retention_leases
  runs,         \* leases taken so far: run and fence of the next one
  worker,       \* by worker: the run it believes to own
  item,         \* by run and revision: the row of board_retention_run_items
  restore       \* a scene.restore command under way

content == <<catalog, truncated, payload, refs>>
retentionVars == <<head, content, holds, lease, runs, worker, item, restore>>

Revisions == 1..MaxRevision
Items == (1..MaxRuns) \X Revisions
NoRestore == [stage |-> "idle", rev |-> 0]

RetentionInit ==
  /\ head = 1
  /\ catalog = {1} /\ payload = {1} /\ refs = {1} /\ truncated = {}
  /\ holds = {}
  /\ lease = [run |-> 0, live |-> FALSE]
  /\ runs = 0
  /\ worker = [w \in Workers |-> 0]
  /\ item = [i \in Items |-> [phase |-> "none", attempts |-> 0]]
  /\ restore = NoRestore

----------------------------------------------------------------------------
(* Other transactions of the board *)

\* persistRevisionBundle
AppendRevision ==
  /\ head < MaxRevision
  /\ head' = head + 1
  /\ catalog' = catalog \cup {head + 1}
  /\ payload' = payload \cup {head + 1}
  /\ refs' = refs \cup {head + 1}
  /\ UNCHANGED <<truncated, holds, lease, runs, worker, item, restore>>

\* What a reader of a revision with its references answers: of the source of a
\* restore, of the projection that a share shows, of that of an export.
Readable(rev) ==
  IF rev \notin catalog THEN "not_found"
  ELSE IF rev \in payload /\ rev \in refs THEN "ok" ELSE "row_integrity"

\* A share looks for the payload only (lockRevision), so that it may come to hold a
\* revision whose references are detached; an export looks for the references too.
Hold(kind, rev) ==
  /\ rev \in catalog \cap payload /\ Cardinality(holds) < MaxHolds
  /\ kind = "export" => rev \in refs
  /\ holds' = holds \cup {[kind |-> kind, rev |-> rev, whole |-> rev \in refs]}
  /\ UNCHANGED <<head, content, lease, runs, worker, item, restore>>

LetGo(h) ==
  /\ h \in holds
  /\ holds' = holds \ {h}
  /\ UNCHANGED <<head, content, lease, runs, worker, item, restore>>

PrepareRestore(rev) ==
  /\ restore.stage = "idle" /\ rev <= head
  /\ restore' = [stage |-> IF Readable(rev) = "ok" THEN "prepared" ELSE Readable(rev), rev |-> rev]
  /\ UNCHANGED <<head, content, holds, lease, runs, worker, item>>

\* The rows are read again in the transaction that appends the revision.
RevalidateRestore ==
  /\ restore.stage = "prepared" /\ head < MaxRevision
  /\ restore' = [restore EXCEPT !.stage =
       IF Readable(restore.rev) = "ok" THEN "ok" ELSE "row_integrity"]
  /\ IF Readable(restore.rev) = "ok"
     THEN /\ head' = head + 1
          /\ catalog' = catalog \cup {head + 1}
          /\ payload' = payload \cup {head + 1}
          /\ refs' = refs \cup {head + 1}
     ELSE UNCHANGED <<head, catalog, payload, refs>>
  /\ UNCHANGED <<truncated, holds, lease, runs, worker, item>>

----------------------------------------------------------------------------
(* Lease and plan *)

Old(rev) ==
  Cardinality(catalog) > Retained /\ rev + Retained <= head /\ rev # head

Held(rev) == \E h \in holds : h.rev = rev

Candidates == {rev \in catalog \cap payload : Old(rev) /\ ~Held(rev)}

Plan(w) ==
  /\ ~lease.live /\ runs < MaxRuns
  /\ runs' = runs + 1
  /\ lease' = [run |-> runs + 1, live |-> TRUE]
  /\ worker' = [worker EXCEPT ![w] = runs + 1]
  /\ item' = [i \in Items |-> IF i[1] = runs + 1 /\ i[2] \in Candidates
                              THEN [phase |-> "planned", attempts |-> 0] ELSE item[i]]
  /\ UNCHANGED <<head, content, holds, restore>>

\* assertOwned; a worker that renews keeps its lease, so it lapses only when
\* the worker is late.
OwnsLease(w) == worker[w] > 0 /\ lease.run = worker[w] /\ lease.live

LeaseLapses ==
  /\ lease.live
  /\ lease' = [lease EXCEPT !.live = FALSE]
  /\ UNCHANGED <<head, content, holds, runs, worker, item, restore>>

----------------------------------------------------------------------------
(* The phases of an item *)

MoveTo(i, phase) == item' = [item EXCEPT ![i].phase = phase]

DetachReferences(i) ==
  /\ item[i].phase = "planned"
  /\ refs' = refs \ {i[2]}
  /\ MoveTo(i, "refs_detached")
  /\ UNCHANGED <<catalog, truncated, payload>>

ClearPayload(i) ==
  /\ item[i].phase = "refs_detached"
  /\ payload' = payload \ {i[2]}
  /\ MoveTo(i, "payload_cleared")
  /\ UNCHANGED <<catalog, truncated, refs>>

OldestOf(set) == CHOOSE rev \in set : \A other \in set : rev <= other

\* The oldest row is marked once the one before it is gone.
Boundary(rev) ==
  IF rev = OldestOf(catalog) THEN {OldestOf(catalog \ {rev})} ELSE {}

RemoveCatalog(i) ==
  LET rev == i[2] IN
  /\ item[i].phase = "payload_cleared"
  /\ IF rev \in catalog \ {head}
     THEN /\ catalog' = catalog \ {rev}
          /\ truncated' = (truncated \cup Boundary(rev)) \ {rev}
     ELSE UNCHANGED <<catalog, truncated>>
  /\ MoveTo(i, "catalog_removed")
  /\ UNCHANGED <<payload, refs>>

\* Mutant: the barrier is looked at when the item is planned only.
Barrier_Planned(i) == item[i].phase = "planned" /\ Held(i[2])
Barrier(i) == Held(i[2])

AppendAudit(i) ==
  /\ item[i].phase = "catalog_removed"
  /\ MoveTo(i, "complete")
  /\ UNCHANGED content

Advance(w, i) ==
  /\ OwnsLease(w) /\ i[1] = worker[w]
  /\ \/ ~Barrier(i) /\ (DetachReferences(i) \/ ClearPayload(i) \/ RemoveCatalog(i))
     \/ AppendAudit(i)
  /\ UNCHANGED <<head, holds, lease, runs, worker, restore>>

\* The operator's resume sets a recovery row back, which no step of a run reads.
RecordFailure(w, i) ==
  /\ OwnsLease(w) /\ i[1] = worker[w]
  /\ item[i].phase \notin {"none", "complete", "quarantined"}
  /\ item' = [item EXCEPT ![i].attempts = @ + 1,
                ![i].phase = IF item[i].attempts + 1 >= MaxAttempts THEN "quarantined" ELSE @]
  /\ UNCHANGED <<head, content, holds, lease, runs, worker, restore>>

RetentionNext ==
  \/ AppendRevision \/ RevalidateRestore \/ LeaseLapses
  \/ \E rev \in Revisions : \/ PrepareRestore(rev)
                            \/ \E kind \in {"published", "export"} : Hold(kind, rev)
  \/ \E h \in holds : LetGo(h)
  \/ \E w \in Workers : Plan(w) \/ \E i \in Items : Advance(w, i) \/ RecordFailure(w, i)

RetentionSpec == RetentionInit /\ [][RetentionNext]_retentionVars

----------------------------------------------------------------------------
(* Properties *)

Phases == {"none", "planned", "refs_detached", "payload_cleared", "catalog_removed",
           "complete", "quarantined"}

RetentionTypeOK ==
  /\ head \in Revisions /\ head \in catalog /\ catalog \subseteq 1..head
  /\ truncated \subseteq catalog /\ payload \subseteq 1..head /\ refs \subseteq 1..head
  /\ \A i \in Items : item[i].phase \in Phases /\ item[i].attempts \in 0..MaxAttempts
  /\ lease.run \in 0..runs /\ \A w \in Workers : worker[w] \in 0..runs
  /\ restore.stage \in {"idle", "prepared", "ok", "not_found", "row_integrity"}

\* The newest revisions stay whole, whatever several runs one after the other
\* planned at different heads.
NewestStay ==
  \A rev \in 1..head : rev + Retained > head => rev \in catalog \cap payload \cap refs

\* A revision that could be read when it was held can be read as long as it is held,
\* even when an item of it was planned before.  Only the hold of a share may come
\* when an item has detached the references: that revision keeps its payload and
\* its place in the history, but its projection cannot be read.
HeldIsReadable ==
  \A h \in holds :
    IF h.whole THEN Readable(h.rev) = "ok"
    ELSE h.kind = "published" /\ h.rev \in catalog \cap payload

\* A reader of the history is told that older revisions are gone, also when
\* holds make the removals go out of order.
BoundaryMarked == OldestOf(catalog) > 1 <=> OldestOf(catalog) \in truncated

\* The phase of an item says how much of its revision is gone.
PhasesTell ==
  \A i \in Items :
    /\ item[i].phase \notin {"none", "planned", "quarantined"} => i[2] \notin refs
    /\ item[i].phase \in {"payload_cleared", "catalog_removed", "complete"} => i[2] \notin payload
    /\ item[i].phase \in {"catalog_removed", "complete"} => i[2] \notin catalog

\* A worker that lost its lease, to time or to another worker, changes nothing.
FencedOut ==
  \A i \in Items : item'[i] # item[i] /\ item[i].phase # "none" =>
       lease.live /\ lease.run = i[1]

\* The newest and the held revisions stay as whole as they were, a reader is told where
\* the history was cut, and a worker without its lease changes nothing (RetentionService).
RevisionsAreRetained ==
  /\ [](RetentionTypeOK /\ NewestStay /\ HeldIsReadable /\ BoundaryMarked /\ PhasesTell)
  /\ [][FencedOut]_retentionVars
=============================================================================
