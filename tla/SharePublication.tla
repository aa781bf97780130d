---------------------------- MODULE SharePublication ----------------------------
(***************************************************************************)
(* The share link of one board.  An owner's request runs as three          *)
(* transactions (SharePublicationService): it plans a transition, which    *)
(* writes a recovery record and holds the revisions involved, applies it,  *)
(* and completes the record.  Password operations and the archiving of the *)
(* board do all three in one transaction.  A request may die between its   *)
(* transactions; then the lease of its record lapses and an operator may   *)
(* claim the record and reconcile it with what he finds                    *)
(* (ShareTransitionRecoveryService).                                       *)
(***************************************************************************)
EXTENDS Naturals, FiniteSets

CONSTANTS
  Requests, Revisions, Keys, None,
  Operator,       \* claims records whose lease has lapsed
  HeadRevision,   \* its payload is always there
        \* the head revision, whose payload is always there
  MaxFailures,    \* failures that quarantine a record (10)
  MaxRecorded,    \* failures of a record stop here
  MaxVersion      \* the version of the share stops here

ShareAssumption ==
  /\ HeadRevision \in Revisions
  /\ {None, Operator} \cap Requests = {} /\ None # Operator
  /\ None \notin {"committed", "aborted"}
  /\ {MaxFailures, MaxRecorded, MaxVersion} \subseteq Nat

VARIABLES
  link,        \* the row of board_shares with its password credential
  archived,     \* the board is archived
  available,    \* revisions whose payload is stored
  holds,        \* unreleased rows of board_revision_holds
  record,       \* by request: its row of share_transition_recovery
  idem,         \* rows of share_request_idempotency
  req           \* by request: its stage and its input

linkVars == <<link, archived, available, holds, record, idem, req>>

Publishing == {"create", "republish"}
Changing == {"update", "rotate", "revoke"}
Password == {"enable", "regenerate", "disable"}

\* A token or a password is named after the request that issued it.
Absent == [status |-> "absent", policy |-> "L", pin |-> HeadRevision, pub |-> 0, acc |-> 0,
           token |-> None, version |-> 0, cred |-> None]

NoRecord == [phase |-> "none", outcome |-> None, owner |-> None, lapsed |-> FALSE,
             before |-> Absent, after |-> Absent, revs |-> {}, attempts |-> 0]

LinkInit ==
  /\ link = Absent
  /\ archived = FALSE
  /\ available = Revisions
  /\ holds = {}
  /\ record = [r \in Requests |-> NoRecord]
  /\ idem = {}
  /\ req = [r \in Requests |-> [stage |-> "new", op |-> None, pin |-> HeadRevision, key |-> None]]

----------------------------------------------------------------------------
(* What the operations do to the share *)

\* The state the plan predicts.
Planned(op, s, pin, r) ==
  LET moved == op \in Publishing \/ (op = "update" /\ pin # s.pin) IN
  [status  |-> IF op = "revoke" THEN "revoked" ELSE "active",
   policy  |-> IF op \in Changing \ {"revoke"} THEN s.policy ELSE "L",
   pin     |-> pin,
   pub     |-> IF moved THEN s.pub + 1 ELSE s.pub,
   acc     |-> IF op = "update" THEN s.acc ELSE s.acc + 1,
   token   |-> IF op \in Publishing \cup {"rotate"} THEN r ELSE s.token,
   version |-> IF op = "update" /\ ~moved THEN s.version ELSE s.version + 1,
   cred    |-> IF op \in Changing \ {"revoke"} THEN s.cred ELSE None]

Published(s, pin, r) ==
  [s EXCEPT !.status = "active", !.policy = "L", !.pin = pin, !.pub = @ + 1,
            !.acc = @ + 1, !.token = r, !.version = @ + 1]

Rotated(s, r) == [s EXCEPT !.token = r, !.acc = @ + 1, !.version = @ + 1]

Closed(s, status) ==
  [s EXCEPT !.status = status, !.policy = "L", !.cred = None, !.version = @ + 1,
            !.acc = IF s.status = "active" THEN @ + 1 ELSE @]

\* The state the statements of the repository write.
Applied(op, s, pin, r) ==
  CASE op \in Publishing -> Published(s, pin, r)
    [] op = "update" -> IF pin = s.pin THEN s
                        ELSE [s EXCEPT !.pin = pin, !.pub = @ + 1, !.version = @ + 1]
    [] op = "rotate" -> Rotated(s, r)
    [] op = "revoke" -> Closed(s, "revoked")

WithPassword(op, s, r) ==
  IF op = "disable" /\ s.policy = "L" THEN s
  ELSE [s EXCEPT !.policy = IF op = "disable" THEN "L" ELSE "P",
                 !.cred = IF op = "disable" THEN None ELSE r,
                 !.acc = @ + 1, !.version = @ + 1]

----------------------------------------------------------------------------
(* Holds and recovery records *)

PublicationHold(s) == [kind |-> "published", holder |-> s.pub, rev |-> s.pin]
RecoveryHolds(r) == {[kind |-> "recovery", holder |-> r, rev |-> v] : v \in record[r].revs}

Open(r) == record[r].phase \notin {"none", "complete"}

NothingOpen == \A r \in Requests : ~Open(r)

\* Mutant: the holds of publications stay as they are.
HoldsOf_Keep(s, held) == held
HoldsOf(s, held) == {h \in held : h.kind = "recovery"} \cup
                    (IF s.status = "active" THEN {PublicationHold(s)} ELSE {})

----------------------------------------------------------------------------
(* Requests of the owner *)

Fits(op, pin) ==
  CASE op = "create"    -> link.status = "absent"
    [] op = "republish" -> link.status = "revoked"
    [] op = "update"    -> link.status = "active"
    [] op \in {"rotate", "revoke"} -> link.status = "active" /\ pin = link.pin
    [] op = "enable"    -> link.status = "active" /\ link.policy = "L" /\ pin = link.pin
    [] op = "regenerate" -> link.status = "active" /\ link.policy = "P" /\ pin = link.pin
    [] op = "disable"   -> link.status = "active" /\ pin = link.pin

\* A publication is looked up under either name when it is planned, and under
\* its own when it is applied.
Answered(ops, key) == \E e \in idem : e.key = key /\ e.op \in ops
SameKind(op) == IF op \in Publishing THEN Publishing ELSE {op}

Stage(r, stage) == req' = [req EXCEPT ![r].stage = stage]

HeldByPlan(op, s, pin) == IF op = "create" THEN {pin} ELSE {s.pin, pin}

PlanTransition(r, op, pin, key) ==
  LET revs == HeldByPlan(op, link, pin) IN
  /\ req[r].stage = "new" /\ ~archived
  /\ ~Answered(SameKind(op), key) /\ Fits(op, pin)
  /\ op \in Publishing \cup {"update"} => pin \in available
  /\ NothingOpen /\ link.version < MaxVersion
  /\ req' = [req EXCEPT ![r] = [stage |-> "planned", op |-> op, pin |-> pin, key |-> key]]
  /\ record' = [record EXCEPT ![r] =
       [NoRecord EXCEPT !.phase = "planned", !.owner = r, !.before = link,
                        !.after = Planned(op, link, pin, r), !.revs = revs]]
  /\ holds' = holds \cup {[kind |-> "recovery", holder |-> r, rev |-> v] : v \in revs}
  /\ UNCHANGED <<link, archived, available, idem>>

\* A request whose key was answered before.
Replay(r) ==
  /\ req[r].stage = "new"
  /\ \E e \in idem : e.by # r
  /\ Stage(r, "done")
  /\ UNCHANGED <<link, archived, available, holds, record, idem>>

MayApply(r) == link = record[r].before /\ record[r].phase = "planned"

ApplyTransition(r) ==
  LET i == req[r]
      next == Applied(i.op, link, i.pin, r) IN
  /\ i.stage = "planned" /\ ~archived
  /\ ~Answered({i.op}, i.key)
  /\ MayApply(r)
  /\ i.pin \in available
  /\ link' = next
  /\ holds' = HoldsOf(next, holds)
  /\ idem' = idem \cup {[op |-> i.op, key |-> i.key, by |-> r]}
  /\ record' = [record EXCEPT ![r].phase = "core_applied", ![r].owner = r, ![r].lapsed = FALSE]
  /\ Stage(r, "applied")
  /\ UNCHANGED <<archived, available>>

CanComplete(r, owner) ==
  record[r].phase = "core_applied" /\ record[r].owner = owner /\ record[r].after = link

Without(r) == holds \ RecoveryHolds(r)

Finish(r, outcome) ==
  /\ record' = [record EXCEPT ![r].phase = "complete", ![r].outcome = outcome,
                              ![r].owner = None, ![r].lapsed = FALSE]
  /\ holds' = Without(r)

CompleteCleanUp(r) ==
  /\ req[r].stage = "applied" /\ ~archived
  /\ CanComplete(r, r)
  /\ Finish(r, "committed")
  /\ Stage(r, "done")
  /\ UNCHANGED <<link, archived, available, idem>>

\* A process dies, or the request is refused and its transaction rolled back.
GiveUp(r) ==
  /\ req[r].stage \in {"planned", "applied"}
  /\ Stage(r, "dead")
  /\ UNCHANGED <<link, archived, available, holds, record, idem>>

ChangePassword(r, op, key) ==
  LET next == WithPassword(op, link, r) IN
  /\ req[r].stage = "new" /\ ~archived
  /\ ~Answered({op}, key) /\ Fits(op, link.pin)
  /\ next # link => NothingOpen
  /\ link.version < MaxVersion
  /\ link' = next
  /\ idem' = idem \cup {[op |-> op, key |-> key, by |-> r]}
  /\ record' = IF next = link THEN record
               ELSE [record EXCEPT ![r] = [NoRecord EXCEPT !.phase = "complete",
                                             !.outcome = "committed", !.before = link,
                                             !.after = next, !.revs = {link.pin}]]
  /\ Stage(r, "done")
  /\ UNCHANGED <<archived, available, holds>>

ArchiveBoard ==
  /\ ~archived
  /\ (link.status = "absent" \/ NothingOpen)
  /\ archived' = TRUE
  /\ link' = IF link.status = "absent" THEN link ELSE Closed(link, "archived")
  /\ holds' = IF link.status = "absent" THEN holds ELSE HoldsOf(link', holds)
  /\ UNCHANGED <<available, record, idem, req>>

----------------------------------------------------------------------------
(* The operator and the reclamation of revisions *)

LeaseLapses(r) ==
  /\ Open(r) /\ record[r].owner # None /\ ~record[r].lapsed
  /\ record' = [record EXCEPT ![r].lapsed = TRUE]
  /\ UNCHANGED <<link, archived, available, holds, idem, req>>

Claim(r) ==
  /\ Open(r)
  /\ record[r].owner \in {None, Operator} \/ record[r].lapsed
  /\ record' = [record EXCEPT ![r].owner = Operator, ![r].lapsed = FALSE,
                  ![r].attempts = IF @ < MaxFailures THEN @ + 1 ELSE MaxFailures]
  /\ UNCHANGED <<link, archived, available, holds, idem, req>>

\* What the operator finds; a share that the transition leaves as it is looks
\* like its state before it.
Observed(r) ==
  IF link = record[r].before THEN "before"
  ELSE IF link = record[r].after THEN "after" ELSE "neither"

\* decideShareRecoveryAction; safe_abort and resume_core both abort.
Decision(r) ==
  LET seen == Observed(r) IN
  CASE record[r].phase = "planned" ->
         IF seen = "before" THEN "abort" ELSE IF seen = "after" THEN "adopt" ELSE "quarantine"
    [] record[r].phase = "quarantined" ->
         IF seen = "before" THEN "abort" ELSE IF seen = "after" THEN "cleanup" ELSE "quarantine"
    [] OTHER -> IF seen = "after" THEN "cleanup" ELSE "quarantine"

\* The decisions that end in a record that is complete.  Quarantine throws, and
\* so does a clean-up whose preconditions fail: the transaction is rolled back.
Succeeds(r) ==
  \/ Decision(r) \in {"abort", "adopt"}
  \/ Decision(r) = "cleanup" /\ CanComplete(r, Operator)

Reconcile(r) ==
  /\ Open(r) /\ record[r].owner = Operator
  /\ Succeeds(r)
  /\ Finish(r, IF Decision(r) = "abort" THEN "aborted" ELSE "committed")
  /\ UNCHANGED <<link, archived, available, idem, req>>

Quarantines(r) == record[r].attempts + 1 >= MaxFailures

RecordRecoveryFailure(r) ==
  /\ Open(r) /\ record[r].attempts < MaxRecorded
  /\ record' = [record EXCEPT ![r].attempts = @ + 1,
                  ![r].phase = IF Quarantines(r) THEN "quarantined" ELSE @,
                  ![r].owner = IF Quarantines(r) THEN None ELSE @,
                  ![r].lapsed = @ /\ ~Quarantines(r)]
  /\ UNCHANGED <<link, archived, available, holds, idem, req>>

\* The payload of a revision is reclaimed when nothing holds it.
Reclaim(v) ==
  /\ v \in available \ {HeadRevision}
  /\ \A h \in holds : h.rev # v
  /\ available' = available \ {v}
  /\ UNCHANGED <<link, archived, holds, record, idem, req>>

LinkNext ==
  \/ \E r \in Requests :
       \/ \E key \in Keys :
            \/ \E op \in Publishing \cup Changing, pin \in Revisions : PlanTransition(r, op, pin, key)
            \/ \E op \in Password : ChangePassword(r, op, key)
       \/ Replay(r) \/ ApplyTransition(r) \/ CompleteCleanUp(r) \/ GiveUp(r)
       \/ LeaseLapses(r) \/ Claim(r) \/ Reconcile(r) \/ RecordRecoveryFailure(r)
  \/ ArchiveBoard
  \/ \E v \in Revisions : Reclaim(v)

LinkSpec == LinkInit /\ [][LinkNext]_linkVars

----------------------------------------------------------------------------
(* Properties *)

Statuses == {"absent", "active", "revoked", "archived"}

LinkTypeOK ==
  /\ link.status \in Statuses /\ link.policy \in {"L", "P"}
  /\ link.version \in 0..MaxVersion + 1
  /\ (link.policy = "P") <=> (link.cred # None)
  /\ link.policy = "P" => link.status = "active"
  /\ available \subseteq Revisions /\ HeadRevision \in available
  /\ \A r \in Requests :
       /\ record[r].phase \in {"none", "planned", "core_applied", "quarantined", "complete"}
       /\ (record[r].phase = "complete") <=> (record[r].outcome # None)
       /\ req[r].stage \in {"new", "planned", "applied", "done", "dead"}
  /\ archived => link.status \in {"absent", "archived"}

\* While a transition is under way nobody else moves the share: an open record
\* finds it in the state it had before, or in the one it was meant to reach.
OpenFrozen ==
  \A r \in Requests :
    /\ record[r].phase = "planned" => link = record[r].before
    /\ record[r].phase = "core_applied" => link = record[r].after

\* A published revision is held under the generation that published it, and
\* under no other: neither an earlier one nor one of a share that was closed.
OneHoldPerPublication ==
  {h \in holds : h.kind = "published"} =
    IF link.status = "active" THEN {PublicationHold(link)} ELSE {}

\* Recovery holds last exactly as long as their record is open.
HoldsFollowRecords ==
  {h \in holds : h.kind = "recovery"} = UNION {RecoveryHolds(r) : r \in {q \in Requests : Open(q)}}

\* What a link shows is never reclaimed while the link is active, whatever dies
\* between the steps of its publication.
PinAvailable == link.status = "active" => link.pin \in available

\* An update that names the revision pinned already changes nothing to tell by.
Changes(r) == record[r].before # record[r].after

\* The outcome the operator or the request records is what happened.
OutcomeTruthful ==
  \A r \in Requests : record[r].phase = "complete" /\ Changes(r) =>
    ((record[r].outcome = "committed") <=> \E e \in idem : e.by = r)

\* A record the operator has claimed can be reconciled, unless it was
\* quarantined after it was applied, which complete() refuses.
Reconcilable ==
  \A r \in Requests :
    Open(r) /\ record[r].owner = Operator /\ Changes(r)
      /\ (record[r].phase = "quarantined" => link = record[r].before)
    => Succeeds(r)

\* Whoever was let in under an old link, password or publication is compared
\* with the access generation: it moves whenever one of them ends.
AccessGenerationMoves ==
  (link.token # link'.token \/ link.cred # link'.cred
     \/ (link.status = "active" /\ link'.status # "active"))
  => link'.acc > link.acc

\* Whatever dies between the steps of a publication, the link shows a pinned
\* and stored revision, its holds match it and its open transitions, what was
\* told happened, and old links stay dead (share-transition recovery).
LinkTellsTruth ==
  /\ [](/\ LinkTypeOK /\ OpenFrozen /\ OneHoldPerPublication /\ HoldsFollowRecords
        /\ PinAvailable /\ OutcomeTruthful /\ Reconcilable)
  /\ [][AccessGenerationMoves]_linkVars
=============================================================================
