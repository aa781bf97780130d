------------------------------ MODULE ApiKeys ------------------------------
(* The API keys of one account (sceneboard-be/src/api-keys): issued under a    *)
(* quota, listed page by page, revoked, and used by requests whose transaction *)
(* checks the key before and after its work (grants/board-access-policy.      *)
(* service.ts).  Every step between two statements of a transaction is a step  *)
(* of its own; a row stays locked until the transaction ends.  Time is the     *)
(* clock of the database.                                                      *)
EXTENDS Integers, FiniteSets

CONSTANTS
    Keys,
    Managers,       \* management requests of the owner
    Clients,        \* requests with a key
    Quota,          \* active keys an account may have (10)
    Life,           \* ticks a key lives
    PageSize,
    Attempts,       \* tokens tried for one key (5)
    Retries,        \* retries of a transaction (3)
    None,
    MaxTime         \* bound

KeyRow == [created : 0 .. MaxTime, expires : Nat, status : {"active", "revoked"}, id : Nat]
Place == [created : 0 .. MaxTime, id : Nat]

ApiKeysAssumption ==
    /\ Quota \in Nat \ {0} /\ Life \in Nat \ {0} /\ PageSize \in Nat \ {0}
    /\ Attempts \in Nat \ {0} /\ Retries \in Nat /\ MaxTime \in Nat
    /\ IsFiniteSet(Keys) /\ Managers \cap Clients = {}
    /\ None \notin Managers \cup Clients \cup KeyRow \cup Place

VARIABLES
    now,
    ownerActive,
    row,            \* account_api_keys; None before the insert
    userLock,       \* who holds the row of the owner
    keyLock,
    manager,
    client,
    listing         \* the owner's walk through the list

keysVars == <<now, ownerActive, row, userLock, keyLock, manager, client, listing>>

IdleManager == [stage |-> "idle", key |-> None, at |-> 0, attempt |-> 0]
IdleClient == [stage |-> "idle", key |-> None, at |-> 0, retry |-> 0, applied |-> 0]
Using(k, retry) == [stage |-> "begin", key |-> k, at |-> 0, retry |-> retry, applied |-> 0]
NoListing == [open |-> FALSE, boundary |-> None, emitted |-> {}, twice |-> {}, present |-> {}]

Management == [stage : {"idle", "issue", "count", "insert", "revoke", "update"},
               key : Keys \cup {None}, at : 0 .. MaxTime, attempt : 0 .. Attempts - 1]
KeyUse == [stage : {"idle", "begin", "key", "user", "apply", "done", "key again", "user again", "commit"},
           key : Keys \cup {None}, at : 0 .. MaxTime, retry : 0 .. Retries, applied : 0 .. MaxTime]
Walk == [open : BOOLEAN, boundary : Place \cup {None}, emitted : SUBSET Keys, twice : SUBSET Keys,
         present : SUBSET Keys]

KeysInit ==
    /\ now = 0 /\ ownerActive = TRUE
    /\ row = [k \in Keys |-> None]
    /\ userLock = None /\ keyLock = [k \in Keys |-> None]
    /\ manager = [m \in Managers |-> IdleManager]
    /\ client = [c \in Clients |-> IdleClient]
    /\ listing = NoListing

Existing == {k \in Keys : row[k] # None}
Usable(k) == row[k] # None /\ row[k].status = "active" /\ row[k].expires > now

Release(p) ==
    /\ userLock' = IF userLock = p THEN None ELSE userLock
    /\ keyLock' = [k \in Keys |-> IF keyLock[k] = p THEN None ELSE keyLock[k]]

-----------------------------------------------------------------------------
(* Issue                                                                     *)

IssueStart(m) ==
    /\ manager[m].stage = "idle"
    /\ manager' = [manager EXCEPT ![m] = [IdleManager EXCEPT !.stage = "issue"]]
    /\ UNCHANGED <<now, ownerActive, row, userLock, keyLock, client, listing>>

\* lockOwner
LockOwner(p) == userLock = None /\ userLock' = p

\* The owner's row, then the clock.
IssueLock(m) ==
    /\ manager[m].stage = "issue" /\ LockOwner(m)
    /\ manager' = [manager EXCEPT ![m] = [@ EXCEPT !.stage = "count", !.at = now]]
    /\ UNCHANGED <<now, ownerActive, row, keyLock, client, listing>>

ActiveAt(t) == {k \in Existing : row[k].status = "active" /\ row[k].expires > t}

IssueCount(m) ==
    /\ manager[m].stage = "count"
    /\ IF ownerActive /\ Cardinality(ActiveAt(manager[m].at)) < Quota
       THEN manager' = [manager EXCEPT ![m].stage = "insert"] /\ UNCHANGED <<userLock, keyLock>>
       ELSE manager' = [manager EXCEPT ![m] = IdleManager] /\ Release(m)
    /\ UNCHANGED <<now, ownerActive, row, client, listing>>

AnotherToken(issue) ==
    IF issue.attempt + 1 = Attempts THEN IdleManager
    ELSE [IdleManager EXCEPT !.stage = "issue", !.attempt = issue.attempt + 1]

\* A token whose locator is taken ends the transaction with nothing inserted and
\* the next one is tried.
IssueInsert(m) ==
    LET at == manager[m].at IN
    /\ manager[m].stage = "insert"
    /\ \/ /\ \E k \in Keys \ Existing :
                row' = [row EXCEPT ![k] = [created |-> at, expires |-> at + Life,
                                           status |-> "active", id |-> Cardinality(Existing) + 1]]
          /\ manager' = [manager EXCEPT ![m] = IdleManager]
       \/ /\ Existing # {}
          /\ manager' = [manager EXCEPT ![m] = AnotherToken(@)]
          /\ UNCHANGED row
    /\ Release(m)
    /\ UNCHANGED <<now, ownerActive, client, listing>>

-----------------------------------------------------------------------------
(* Revocation                                                                *)

RevokeStart(m) ==
    /\ manager[m].stage = "idle"
    /\ \E k \in Existing : manager' = [manager EXCEPT ![m] =
                             [IdleManager EXCEPT !.stage = "revoke", !.key = k]]
    /\ UNCHANGED <<now, ownerActive, row, userLock, keyLock, client, listing>>

RevokeLock(m) ==
    /\ manager[m].stage = "revoke" /\ userLock = None
    /\ IF ownerActive
       THEN userLock' = m /\ manager' = [manager EXCEPT ![m].stage = "update"]
       ELSE manager' = [manager EXCEPT ![m] = IdleManager] /\ UNCHANGED userLock
    /\ UNCHANGED <<now, ownerActive, row, keyLock, client, listing>>

\* The key's row is read FOR UPDATE.
RevokeUpdate(m) ==
    LET k == manager[m].key IN
    /\ manager[m].stage = "update" /\ keyLock[k] = None
    /\ row' = [row EXCEPT ![k].status = "revoked"]
    /\ manager' = [manager EXCEPT ![m] = IdleManager]
    /\ Release(m)
    /\ UNCHANGED <<now, ownerActive, client, listing>>

\* The account is disabled, by a transaction outside this code.
Disable ==
    /\ ownerActive /\ userLock = None /\ ownerActive' = FALSE
    /\ UNCHANGED <<now, row, userLock, keyLock, manager, client, listing>>

-----------------------------------------------------------------------------
(* The list, newest first, one signed boundary per page                      *)

Beyond(k, boundary) ==
    \/ boundary = None
    \/ row[k].created < boundary.created
    \/ row[k].created = boundary.created /\ row[k].id < boundary.id

Newer(k, l) ==
    \/ row[k].created > row[l].created
    \/ row[k].created = row[l].created /\ row[k].id > row[l].id

Listed == {k \in Existing : row[k].status # "revoked"}

Turn(page, more, boundary) ==
    listing' = [open |-> more, boundary |-> boundary, emitted |-> listing.emitted \cup page,
                twice |-> listing.twice \cup (listing.emitted \cap page),
                present |-> IF listing.open THEN listing.present ELSE Listed]

\* One row more than the page is read, to know whether there is a next.
ListPage ==
    LET rest == {k \in Listed : Beyond(k, listing.boundary)}
        page == {k \in rest : Cardinality({l \in rest : Newer(l, k)}) < PageSize}
    IN
    /\ userLock = None /\ ownerActive
    /\ listing.open \/ listing = NoListing
    /\ \/ page = rest /\ Turn(page, FALSE, None)
       \/ /\ page # rest
          /\ \E last \in page :
               /\ \A k \in page : k = last \/ Newer(k, last)
               /\ Turn(page, TRUE, [created |-> row[last].created, id |-> row[last].id])
    /\ UNCHANGED <<now, ownerActive, row, userLock, keyLock, manager, client>>

-----------------------------------------------------------------------------
(* A request with a key                                                      *)

ClientTo(c, stage) == client' = [client EXCEPT ![c].stage = stage]

\* The answer UNAUTHENTICATED; the transaction is rolled back.
Denied(c) == client' = [client EXCEPT ![c] = IdleClient] /\ Release(c)

\* resolveBearer: one read, without locks.
ResolveBearer(c) ==
    /\ client[c].stage = "idle" /\ ownerActive
    /\ \E k \in Existing :
         /\ Usable(k)
         /\ client' = [client EXCEPT ![c] = Using(k, 0)]
    /\ UNCHANGED <<now, ownerActive, row, userLock, keyLock, manager, listing>>

\* recheckActive begins: its clock is that of the statement, which may wait.
Recheck(c) ==
    /\ client[c].stage \in {"begin", "done"}
    /\ client' = [client EXCEPT ![c] = [@ EXCEPT !.at = now,
                    !.stage = IF client[c].stage = "begin" THEN "key" ELSE "key again"]]
    /\ UNCHANGED <<now, ownerActive, row, userLock, keyLock, manager, listing>>

\* The row of the key, or none of it when it has expired.
RecheckKey(c) ==
    LET k == client[c].key IN
    /\ client[c].stage \in {"key", "key again"}
    /\ IF row[k].expires > client[c].at
       THEN /\ keyLock[k] \in {None, c} /\ keyLock' = [keyLock EXCEPT ![k] = c]
            /\ UNCHANGED userLock
            /\ ClientTo(c, IF client[c].stage = "key" THEN "user" ELSE "user again")
       ELSE Denied(c)
    /\ UNCHANGED <<now, ownerActive, row, manager, listing>>

\* Mutant: the owner is read without a lock.
LockUser_Reads(c) == UNCHANGED userLock
LockUser(c) == userLock \in {None, c} /\ userLock' = c

\* Then the row of its owner; both must be active.
RecheckUser(c) ==
    LET k == client[c].key IN
    /\ client[c].stage \in {"user", "user again"}
    /\ IF ownerActive /\ row[k].status = "active"
       THEN /\ LockUser(c) /\ UNCHANGED keyLock
            /\ ClientTo(c, IF client[c].stage = "user" THEN "apply" ELSE "commit")
       ELSE userLock \in {None, c} /\ Denied(c)
    /\ UNCHANGED <<now, ownerActive, row, manager, listing>>

AfterApply == "done"

\* The work of the request.
Apply(c) ==
    /\ client[c].stage = "apply"
    /\ client' = [client EXCEPT ![c] = [@ EXCEPT !.stage = AfterApply, !.applied = now]]
    /\ UNCHANGED <<now, ownerActive, row, userLock, keyLock, manager, listing>>

CommitWork(c) ==
    /\ client[c].stage = "commit"
    /\ client' = [client EXCEPT ![c] = IdleClient] /\ Release(c)
    /\ UNCHANGED <<now, ownerActive, row, manager, listing>>

-----------------------------------------------------------------------------
(* InnoDB                                                                    *)

\* A revocation waits for the key of a request that waits for the owner.
Entangled(m, c) ==
    /\ manager[m].stage = "update" /\ userLock = m /\ keyLock[manager[m].key] = c
    /\ client[c].stage \in {"user", "user again"}

AnotherTry(t) ==
    IF t.retry = Retries THEN IdleClient
    ELSE Using(t.key, t.retry + 1)

\* One of the two is rolled back.  A request is tried again, a revocation fails.
Victim(m, c) ==
    /\ Entangled(m, c)
    /\ \/ manager' = [manager EXCEPT ![m] = IdleManager] /\ Release(m) /\ UNCHANGED client
       \/ /\ client' = [client EXCEPT ![c] = AnotherTry(@)]
          /\ Release(c) /\ UNCHANGED manager
    /\ UNCHANGED <<now, ownerActive, row, listing>>

Tick ==
    /\ now < MaxTime /\ now' = now + 1
    /\ UNCHANGED <<ownerActive, row, userLock, keyLock, manager, client, listing>>

ManagerStep(m) ==
    \/ IssueLock(m) \/ IssueCount(m) \/ IssueInsert(m)
    \/ RevokeLock(m) \/ RevokeUpdate(m)
ClientStep(c) ==
    Recheck(c) \/ RecheckKey(c) \/ RecheckUser(c) \/ Apply(c) \/ CommitWork(c)

KeysNext ==
    \/ \E m \in Managers : IssueStart(m) \/ RevokeStart(m) \/ ManagerStep(m)
    \/ \E c \in Clients : ResolveBearer(c) \/ ClientStep(c)
    \/ \E m \in Managers, c \in Clients : Victim(m, c)
    \/ Disable \/ ListPage \/ Tick

KeysSpec == KeysInit /\ [][KeysNext]_keysVars

-----------------------------------------------------------------------------
(* Properties                                                                *)

\* The state is well formed; a row is locked only by a transaction that goes on.
KeysTypeOK ==
    /\ now \in 0 .. MaxTime /\ ownerActive \in BOOLEAN
    /\ row \in [Keys -> KeyRow \cup {None}]
    /\ \A k \in Existing : row[k].expires = row[k].created + Life /\ row[k].id \in 1 .. Cardinality(Keys)
    /\ userLock \in Managers \cup Clients \cup {None} /\ keyLock \in [Keys -> Clients \cup {None}]
    /\ manager \in [Managers -> Management] /\ client \in [Clients -> KeyUse] /\ listing \in Walk
    /\ \A m \in Managers : manager[m].stage \in {"count", "insert", "update"} <=> userLock = m
    /\ \A c \in Clients :
         /\ client[c].stage \in {"apply", "done", "key again", "user again", "commit"}
              <=> userLock = c
         /\ \A k \in Keys : keyLock[k] = c => client[c].stage \notin {"idle", "begin", "key"}

\* An account never has more keys that work than its quota, however its requests
\* for keys overlap.
QuotaHolds == Cardinality({k \in Keys : Usable(k)}) <= Quota

\* What a request did is committed only while its key is not revoked and its
\* owner is active, at the commit itself.
CommitsWhileActive ==
    \A c \in Clients :
        client[c].stage = "commit" => ownerActive /\ row[client[c].key].status = "active"

\* Work done once the key had expired is not committed, however long the request
\* waited for it.
NoWorkAfterExpiry ==
    \A c \in Clients :
        client[c].stage = "commit" => client[c].applied < row[client[c].key].expires

\* A walk through the pages lists every key that was there when it began, and is
\* not revoked since, and none twice, while keys are issued and revoked.
WalkIsComplete ==
    /\ listing.twice = {}
    /\ ~listing.open => listing.present \cap Listed \subseteq listing.emitted

\* Keys stay within the quota, a walk through their pages misses none, and work
\* is committed only under a key and an owner in force at the commit, however
\* the requests wait for each other.
KeysHold == KeysTypeOK /\ QuotaHolds /\ CommitsWhileActive /\ NoWorkAfterExpiry /\ WalkIsComplete
=============================================================================
