------------------------- MODULE HitlInteractions -------------------------
(***************************************************************************)
(* Questions put to a person on a board (human-in-the-loop interactions):  *)
(* asked, answered, cancelled and superseded by transactions of the board, *)
(* expired by whoever meets them after their time, and swept in the        *)
(* background.  The transactions run on the ledger of BoardLedger.         *)
(*                                                                         *)
(* A process reads its clock before it locks the board, so the time a      *)
(* transaction works with may be up to MaxSkew behind the latest clock.    *)
(***************************************************************************)
EXTENDS BoardLedger

CONSTANTS
  Users,        \* the auths of signed-in users; the others are MCP grants
  Expiry,       \* EXPIRY_MS
  MaxSkew,      \* bound on clock skew plus the wait for the board's lock
  MaxTime,      \* bound on the clock
  SweepLimit    \* candidates one sweep takes (100 in the code)

ASSUME HitlAssumption ==
  /\ Users \subseteq Auths
  /\ Expiry \in Nat /\ Expiry > 1
  /\ MaxSkew \in Nat
  /\ MaxTime \in Nat
  /\ SweepLimit \in Nat \ {0}

VARIABLES
  interactions,   \* board_hitl_interactions by hitl_request_id
  now,            \* the latest of the clocks
  sweep           \* the running sweep: its time and its remaining candidates

hitlVars == <<interactions, sweep>>
allVars == <<vars, hitlVars, now>>

Times == 0..(MaxTime + Expiry)
InteractionType ==
  [state : HitlStates, createdBy : Auths, createdAt : 0..MaxTime, stateUpdatedAt : Times,
   createdSequence : 1..MaxSequence, stateSequence : 1..MaxSequence,
   successor : Interactions \cup {None}]

\* An empty row is told from every row of a question.
ASSUME QuestionAssumption == None \notin InteractionType

Asked == {i \in Interactions : interactions[i] # None}
IsOpen(i) == i \in Asked /\ interactions[i].state = "open"
ExpiresAt(i) == interactions[i].createdAt + Expiry

\* A clock that some process has read for the transaction it runs now.
Clocks == {t \in 0..now : t + MaxSkew >= now}

\* A state change is dated after the creation, whatever the clocks say: waiting
\* readers compare stateUpdatedAt with the one they know.
OperationTime(i, t) ==
  IF t > interactions[i].createdAt THEN t ELSE interactions[i].createdAt + 1

HitlInit ==
  /\ Init
  /\ interactions = [i \in Interactions |-> None]
  /\ now = 0
  /\ sweep = [at |-> 0, batch |-> {}]

----------------------------------------------------------------------------
(* The update of an interaction's row, and the event that announces it *)

Settle(i, state, time, successor) ==
  /\ AllocateSequence
  /\ interactions' = [interactions EXCEPT
       ![i].state = state, ![i].stateUpdatedAt = time, ![i].successor = successor,
       ![i].stateSequence = NextSequence]
  /\ AppendEvent("hitl.updated", i, state)

\* HitlExpiryService.expireLocked
ExpireLocked(i) == Settle(i, "expired", ExpiresAt(i), None)

----------------------------------------------------------------------------
(* InteractionCommandService: ask and answer *)

RequestInteraction(q, t) ==
  LET i == q.arg
      result == [revision |-> None, event |-> NextSequence] IN
  /\ q.op = "hitl.request"
  /\ ControlAdmitted(q)
  /\ AllocateSequence
  /\ interactions[i] = None          \* otherwise HITL_ID_CONFLICT
  /\ interactions' = [interactions EXCEPT ![i] =
       [state |-> "open", createdBy |-> q.auth, createdAt |-> t, stateUpdatedAt |-> t,
        createdSequence |-> NextSequence, stateSequence |-> NextSequence,
        successor |-> None]]
  /\ AppendEvent("hitl.updated", i, "open")
  /\ Complete(q, result)
  /\ Answer(q, "applied", result)
  /\ UNCHANGED <<archived, revisions, catalog, artifacts, sweep>>

InTime(i, time) == time < ExpiresAt(i)

RespondInteraction(q, t) ==
  LET i == q.arg
      time == OperationTime(i, t)
      result == [revision |-> None, event |-> NextSequence] IN
  /\ q.op = "hitl.respond"
  /\ ControlAdmitted(q)
  /\ IsOpen(i)
  /\ InTime(i, time)
  /\ Settle(i, "answered", time, None)
  /\ Complete(q, result)
  /\ Answer(q, "applied", result)
  /\ UNCHANGED <<archived, revisions, catalog, artifacts, sweep>>

AbandonPending(q) == UNCHANGED records

\* An answer that comes too late commits the expiry and is refused.
RespondTooLate(q, t) ==
  LET i == q.arg IN
  /\ q.op = "hitl.respond"
  /\ ControlAdmitted(q)
  /\ IsOpen(i)
  /\ ~InTime(i, OperationTime(i, t))
  /\ ExpireLocked(i)
  /\ AbandonPending(q)
  /\ UNCHANGED <<archived, revisions, catalog, artifacts, replies, sweep>>

----------------------------------------------------------------------------
(* InteractionLifecycleService: cancel and supersede *)

\* A caller of the lifecycle quotes the head and the state it has seen.  The
\* calls carry no idempotency key; repeating one that succeeded changes nothing.
Owns(auth, i) == auth \in Users \/ interactions[i].createdBy = auth

LifecycleAdmitted(i, auth, expected, cursor) ==
  /\ ~archived
  /\ expected = head.rev
  /\ i \in Asked /\ Owns(auth, i)
  /\ IsOpen(i)
  /\ cursor = interactions[i].stateUpdatedAt

LifecycleTooLate(i, auth, expected, cursor, t) ==
  /\ LifecycleAdmitted(i, auth, expected, cursor)
  /\ ~InTime(i, OperationTime(i, t))
  /\ ExpireLocked(i)
  /\ UNCHANGED <<archived, revisions, catalog, records, artifacts, replies, sweep>>

CancelInteraction(i, auth, expected, cursor, t) ==
  /\ LifecycleAdmitted(i, auth, expected, cursor)
  /\ InTime(i, OperationTime(i, t))
  /\ Settle(i, "cancelled", OperationTime(i, t), None)
  /\ UNCHANGED <<archived, revisions, catalog, records, artifacts, replies, sweep>>

SuccessorAdmitted(i, j, time) ==
  /\ j # i
  /\ IsOpen(j)
  /\ interactions[j].createdAt > interactions[i].createdAt
  /\ ExpiresAt(j) > time

SupersedeInteraction(i, j, auth, expected, cursor, t) ==
  LET time == OperationTime(i, t) IN
  /\ LifecycleAdmitted(i, auth, expected, cursor)
  /\ InTime(i, time)
  /\ SuccessorAdmitted(i, j, time)
  /\ Owns(auth, j)
  /\ Settle(i, "superseded", time, j)
  /\ UNCHANGED <<archived, revisions, catalog, records, artifacts, replies, sweep>>

----------------------------------------------------------------------------
(* Expiry on read and in the background, which archiving does not stop *)

\* HitlExpiryService.expireForAuthorizedRead
ExpireOnRead(i, t) ==
  /\ IsOpen(i)
  /\ t >= ExpiresAt(i)
  /\ ExpireLocked(i)
  /\ UNCHANGED <<archived, revisions, catalog, records, artifacts, replies, sweep>>

Due(t) == {i \in Asked : IsOpen(i) /\ ExpiresAt(i) <= t}

\* The earliest candidates, read without locks; they are revisited one by one.
SweepScan(t) ==
  /\ sweep.batch = {}
  /\ \E batch \in SUBSET Due(t) :
       /\ batch # {}
       /\ Cardinality(batch) <= SweepLimit
       /\ batch = Due(t) \/ Cardinality(batch) = SweepLimit
       /\ \A i \in batch, j \in Due(t) \ batch : ExpiresAt(i) <= ExpiresAt(j)
       /\ sweep' = [at |-> t, batch |-> batch]
  /\ UNCHANGED <<vars, interactions>>

\* Mutant: the candidate is expired as it was read.
StillDue_Stale(i) == TRUE
StillDue(i) == IsOpen(i) /\ ExpiresAt(i) <= sweep.at
\* Mutant: the sweep locks active boards only.
SweepLocks_Active == ~archived
SweepLocks == TRUE

NextCandidate(i) ==
  /\ i \in sweep.batch
  /\ \A j \in sweep.batch : ExpiresAt(i) <= ExpiresAt(j)

SweepExpire(i) ==
  /\ NextCandidate(i)
  /\ SweepLocks
  /\ StillDue(i)
  /\ ExpireLocked(i)
  /\ sweep' = [sweep EXCEPT !.batch = @ \ {i}]
  /\ UNCHANGED <<archived, revisions, catalog, records, artifacts, replies>>

SweepSkip(i) ==
  /\ NextCandidate(i)
  /\ SweepLocks
  /\ ~StillDue(i)
  /\ sweep' = [sweep EXCEPT !.batch = @ \ {i}]
  /\ UNCHANGED <<vars, interactions>>

\* One failing transaction, or a restart, ends the sweep: the candidates after
\* it wait for the next one.
SweepAbort ==
  /\ sweep.batch # {}
  /\ sweep' = [sweep EXCEPT !.batch = {}]
  /\ UNCHANGED <<vars, interactions>>

----------------------------------------------------------------------------

Lifecycle(i, auth, expected, cursor, t) ==
  \/ LifecycleTooLate(i, auth, expected, cursor, t)
  \/ CancelInteraction(i, auth, expected, cursor, t)
  \/ \E j \in Interactions : SupersedeInteraction(i, j, auth, expected, cursor, t)

Transaction(t) ==
  \/ \E q \in Requests : Sendable(q) /\ RequestInteraction(q, t)
  \/ \E q \in Requests : Sendable(q) /\ RespondInteraction(q, t)
  \/ \E q \in Requests : Sendable(q) /\ RespondTooLate(q, t)
  \/ \E i \in Interactions, auth \in Auths, expected \in Existing, cursor \in Times :
       Lifecycle(i, auth, expected, cursor, t)
  \/ \E i \in Interactions : ExpireOnRead(i, t)
  \/ SweepScan(t)

Tick ==
  /\ now < MaxTime
  /\ now' = now + 1
  /\ UNCHANGED <<vars, hitlVars>>

HitlNext ==
  \/ Next /\ UNCHANGED <<hitlVars, now>>
  \/ (\E t \in Clocks : Transaction(t)) /\ UNCHANGED now
  \/ (\E i \in Interactions : SweepExpire(i) \/ SweepSkip(i)) /\ UNCHANGED now
  \/ SweepAbort /\ UNCHANGED now
  \/ Tick

HitlSpec == HitlInit /\ [][HitlNext]_allVars

\* Time passes and the sweep's timer fires.  A sweep fails when a transaction
\* does, on a deadlock or a lost connection; it does not fail for ever at the
\* same candidate.
HitlFairness ==
  /\ WF_allVars(Tick)
  /\ WF_allVars((\E t \in Clocks : SweepScan(t)) /\ UNCHANGED now)
  /\ \A i \in Interactions : SF_allVars((SweepExpire(i) \/ SweepSkip(i)) /\ UNCHANGED now)

HitlFairSpec == HitlSpec /\ HitlFairness

----------------------------------------------------------------------------
(* Properties *)

\* The rows have the shape of board_hitl_interactions, and those of the ledger
\* keep theirs.
HitlTypeOK ==
  /\ TypeOK
  /\ interactions \in [Interactions -> InteractionType \cup {None}]
  /\ now \in 0..MaxTime
  /\ sweep \in [at : 0..MaxTime, batch : SUBSET Interactions]

\* A client that folds the events of an interaction ends in its stored state,
\* and the row names the event that put it there, which a repeated cancel or
\* supersede returns (tryReplay, eventIdAtSequence).
HitlLogMatchesState ==
  \A i \in Interactions :
    LET events == {n \in Sequences : /\ outbox[n] # None
                                     /\ outbox[n].type = "hitl.updated"
                                     /\ outbox[n].subject = i}
    IN IF i \notin Asked THEN events = {}
       ELSE LET row == interactions[i] IN
            /\ events = {row.createdSequence, row.stateSequence}
            /\ row.createdSequence <= row.stateSequence
            /\ outbox[row.createdSequence].state = "open"
            /\ outbox[row.stateSequence].state = row.state

\* A question is settled once: whoever loses the race of answer, cancel,
\* supersede, read and sweep, changes nothing.
SettledOnce ==
  [][\A i \in Asked : ~IsOpen(i) => interactions'[i] = interactions[i]]_allVars

\* Settling moves the cursor of every reader that waits, and an answer, a
\* cancellation or a supersession is dated before the expiry (the check
\* constraint chk_hitl_state_shape).
SettledInTime ==
  \A i \in Asked :
    LET row == interactions[i] IN
    /\ row.state = "open" => row.stateUpdatedAt = row.createdAt
    /\ row.state = "expired" => row.stateUpdatedAt = ExpiresAt(i)
    /\ row.state \in {"answered", "cancelled", "superseded"} =>
         row.createdAt < row.stateUpdatedAt /\ row.stateUpdatedAt < ExpiresAt(i)

\* Following the successors of a superseded question leads forward in time to
\* a question that was still open when its predecessor was dropped.
SuccessorsLive ==
  \A i \in Asked : interactions[i].state = "superseded" =>
    LET j == interactions[i].successor IN
    /\ j \in Asked
    /\ interactions[j].createdAt > interactions[i].createdAt
    /\ interactions[j].createdSequence < interactions[i].stateSequence
    /\ IsOpen(j) \/ interactions[j].stateSequence > interactions[i].stateSequence

\* A completed record and the question it is about tell the same story: who was
\* told that the answer was taken can rely on it, and an answer that came too
\* late left no record that a retry would replay as a success.
RecordsMatchInteractions ==
  \A k \in RecordKeys :
    records[k] # None /\ records[k].fingerprint.op \in HitlOperations =>
      LET i == records[k].fingerprint.arg IN
      /\ i \in Asked
      /\ records[k].fingerprint.op = "hitl.request" =>
           interactions[i].createdSequence = records[k].result.event
      /\ records[k].fingerprint.op = "hitl.respond" =>
           /\ interactions[i].state = "answered"
           /\ interactions[i].stateSequence = records[k].result.event

\* On an archived board nothing happens to a question but its expiry.
ArchivedOnlyExpires ==
  [][archived => \A i \in Interactions : interactions'[i] # interactions[i] =>
       IsOpen(i) /\ interactions'[i].state = "expired"]_allVars

\* A question is settled once and told truly: the event, the row and the record
\* of the one who settled it agree, in time and with a live successor, whichever
\* of answer, cancel, supersede, read and sweep was first.
SettledOnceAndTold ==
  /\ [](HitlTypeOK /\ HitlLogMatchesState /\ SettledInTime /\ SuccessorsLive
          /\ RecordsMatchInteractions)
  /\ SettledOnce
  /\ ArchivedOnlyExpires

\* A question whose time is over on every clock does not stay open, be its
\* board archived, its sweep interrupted or its readers gone (unless the board
\* has used up its sequence numbers).
OverdueIsSettled ==
  \A i \in Interactions :
    (IsOpen(i) /\ ExpiresAt(i) + MaxSkew <= now) ~> (~IsOpen(i) \/ head.seq = MaxSequence)
=============================================================================
