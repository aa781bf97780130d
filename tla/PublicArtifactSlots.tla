-------------------------- MODULE PublicArtifactSlots --------------------------
(* The packages of the artifacts on a shared board's page (sceneboard-fe/lib/ *)
(* api/public-share-artifact.ts): a store admits two handshakes at a time, a  *)
(* handle holds its slot from the fetch of its package until the artifact     *)
(* runs, fails or is abandoned.  Between a grant and what the handle does     *)
(* with it other tasks run.                                                   *)
EXTENDS Naturals, Sequences, FiniteSets

CONSTANTS
    Handles,       \* load handles, one for each artifact opened
    MaxActive      \* PUBLIC_ARTIFACT_ACTIVE_HANDSHAKES_MAX_V1

SlotsAssumption == MaxActive \in Nat \ {0}

VARIABLES
    st,            \* where #load of a handle is
    left,          \* handles disposed
    slotted,       \* handles with #holdsSlot
    package,       \* the package of a handle
    active,        \* store: #active
    waiters,       \* store: #waiters
    closed         \* store: #disposed

slotsVars == <<st, left, slotted, package, active, waiters, closed>>

SlotsTypeOK ==
    /\ st \in [Handles -> {"idle", "waiting", "granted", "fetching", "certified", "over"}]
    /\ left \subseteq Handles /\ slotted \subseteq Handles
    /\ package \in [Handles -> {"none", "held", "cleared"}]
    /\ active \in 0 .. MaxActive
    /\ waiters \in Seq(Handles) /\ closed \in BOOLEAN

SlotsInit ==
    /\ st = [h \in Handles |-> "idle"] /\ left = {} /\ slotted = {}
    /\ package = [h \in Handles |-> "none"]
    /\ active = 0 /\ waiters = <<>> /\ closed = FALSE

\* release: a slot is given back, and the waiters are served in order.
Freed == IF active > 0 THEN active - 1 ELSE 0

Grants(queue) ==
    IF closed \/ Freed >= MaxActive THEN 0
    ELSE IF Len(queue) < MaxActive - Freed THEN Len(queue) ELSE MaxActive - Freed

Release(queue, states) ==
    LET n == Grants(queue) IN
    /\ active' = Freed + n
    /\ waiters' = SubSeq(queue, n + 1, Len(queue))
    /\ st' = [h \in Handles |-> IF h \in {queue[i] : i \in 1 .. n} THEN "granted" ELSE states[h]]

Cleared(b) == IF b = "held" THEN "cleared" ELSE b

\* dispose of a handle: it leaves the queue, and gives its slot back if it has one.
Leaves(h) ==
    IF \E i \in DOMAIN waiters : waiters[i] = h
    THEN LET index == CHOOSE i \in DOMAIN waiters : waiters[i] = h
         IN  SubSeq(waiters, 1, index - 1) \o SubSeq(waiters, index + 1, Len(waiters))
    ELSE waiters


\* Mutant: a slot is given back for a handle that only asked for one.
GivesBack_Asked(h) == h \in slotted \/ st[h] = "granted"
GivesBack(h) == h \in slotted


\* A fetch under way is aborted, and fails or answers later all the same.
States(h) == [st EXCEPT ![h] = IF @ \in {"granted", "fetching"} THEN @ ELSE "over"]

DisposeTo(h, states) ==
    /\ h \notin left /\ left' = left \cup {h}
    /\ slotted' = slotted \ {h} /\ package' = [package EXCEPT ![h] = Cleared(@)]
    /\ IF GivesBack(h) THEN Release(Leaves(h), states)
       ELSE st' = states /\ waiters' = Leaves(h) /\ UNCHANGED active
    /\ UNCHANGED closed

\* readMetadata, the first time: the handle asks for a slot.
AskSlot(h) ==
    /\ h \notin left /\ st[h] = "idle" /\ ~closed
    /\ IF active < MaxActive
       THEN active' = active + 1 /\ st' = [st EXCEPT ![h] = "granted"] /\ UNCHANGED waiters
       ELSE waiters' = Append(waiters, h) /\ st' = [st EXCEPT ![h] = "waiting"] /\ UNCHANGED active
    /\ UNCHANGED <<left, slotted, package, closed>>

\* Mutant: #load does not look again after the grant.
Abandoned_Unseen(h) == FALSE
\* A handle disposed since its grant gives the slot back.
Abandoned(h) == h \in left


Continue(h) ==
    /\ st[h] = "granted"
    /\ IF Abandoned(h)
       THEN Release(waiters, [st EXCEPT ![h] = "over"]) /\ UNCHANGED slotted
       ELSE /\ slotted' = slotted \cup {h} /\ st' = [st EXCEPT ![h] = "fetching"]
            /\ UNCHANGED <<active, waiters>>
    /\ UNCHANGED <<left, package, closed>>

\* A load that was under way when its handle was disposed.
Superseded(h) == h \in left

\* The package arrived and decodes; for a handle disposed since it is cleared.
Certify(h) ==
    /\ st[h] = "fetching"
    /\ IF Superseded(h)
       THEN st' = [st EXCEPT ![h] = "over"] /\ package' = [package EXCEPT ![h] = "cleared"]
       ELSE st' = [st EXCEPT ![h] = "certified"] /\ package' = [package EXCEPT ![h] = "held"]
    /\ UNCHANGED <<left, slotted, active, waiters, closed>>

\* The fetch fails, or the package is another one.
FetchFails(h) ==
    /\ st[h] = "fetching"
    /\ \/ DisposeTo(h, [st EXCEPT ![h] = "over"])
       \/ /\ h \in left /\ st' = [st EXCEPT ![h] = "over"]
          /\ UNCHANGED <<left, slotted, package, active, waiters, closed>>

\* The artifact runs, its host gives up or is unmounted.
GiveUp(h) == DisposeTo(h, States(h))

\* The page leaves the projection: whoever waits is rejected, every handle is
\* disposed.
CloseStore ==
    /\ ~closed /\ closed' = TRUE
    /\ left' = Handles /\ slotted' = {} /\ active' = 0 /\ waiters' = <<>>
    /\ st' = [h \in Handles |-> IF st[h] \in {"granted", "fetching"} THEN st[h] ELSE "over"]
    /\ package' = [h \in Handles |-> Cleared(package[h])]

SlotsNext ==
    \/ \E h \in Handles :
         AskSlot(h) \/ Continue(h) \/ Certify(h) \/ FetchFails(h) \/ GiveUp(h)
    \/ CloseStore

SlotsSpec == SlotsInit /\ [][SlotsNext]_slotsVars

(* ------------------------------ properties ------------------------------- *)

\* The count of active handshakes is the number of handles that have a slot or
\* were just granted one: no slot leaks and none is given back twice, whenever
\* handles are abandoned.
SlotsExact ==
    ~closed => active = Cardinality(slotted \cup {h \in Handles : st[h] = "granted"})

\* Nobody waits while a slot is free, and only handles that still want one wait.
QueueServed ==
    /\ waiters # <<>> => active = MaxActive
    /\ \A i \in DOMAIN waiters :
         waiters[i] \notin left /\ st[waiters[i]] = "waiting"

\* A handle that is disposed keeps no package.
PackageCleared == \A h \in left : package[h] # "held"

\* Handshakes of a shared board hold exactly the slots that are counted, and nobody
\* waits beside a free one (the store of public artifacts).
SlotsAreExact == SlotsTypeOK /\ SlotsExact /\ QueueServed /\ PackageCleared

\* Every handle that waits is granted a slot or leaves.
WaitersServed == \A h \in Handles : (st[h] = "waiting") ~> (st[h] # "waiting")
=============================================================================
