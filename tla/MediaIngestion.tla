--------------------------- MODULE MediaIngestion ---------------------------
(* Uploaded images (src/sceneboard-be/src/media): one object for equal       *)
(* bytes, one ownership of it for each board, the quota charged for it, the  *)
(* idempotency rows that answer a retried upload, and the cleanup that takes *)
(* an image nobody names any more away from its board and then deletes it.   *)
(*                                                                           *)
(* An upload is two transactions with a decode between them; every advance   *)
(* of a cleanup item is one transaction under its run's fence, so that a     *)
(* worker whose fence is stale changes nothing and is not modelled.  An      *)
(* image stands for its canonical bytes and for the fingerprint of the       *)
(* request that carries them; its length is one unit.  "life" tells the      *)
(* object rows of one image apart; its version says no more than its state.  *)
EXTENDS Integers, FiniteSets

CONSTANTS
    Boards,         \* boards, with one uploading account each
    Images,         \* canonical images
    Keys,           \* idempotency keys
    Uploads,        \* requests of the upload endpoint in flight
    CleanupItems,   \* cleanup items an operator may create
    NoItem,         \* an item that was not created yet
    NoRow,          \* no row of the kind
    Quota,          \* images a board may hold (536870912 bytes)
    MaxActiveJobs,  \* decodes of this process at one time (2)
    MaxFailures,    \* failures that quarantine an item (10)
    MaxLives,       \* bound: object rows of an image
    MaxVersion      \* bound: versions of an ownership

VARIABLES
    object,      \* of an image: its row of media_objects
    ownership,   \* of a board and an image: its row of board_media
    used,        \* of a board: used_bytes of its row of board_media_quota
    receipt,     \* of a board and a key: its row of media_ingest_idempotency
    named,       \* the ownerships a stored revision names (board_revision_media_refs)
    upload,      \* the requests in flight
    cleanup      \* media_cleanup_items

mediaVars == <<object, ownership, used, receipt, named, upload, cleanup>>

Live == {"active", "quarantined"}
Final == {"complete", "quarantined"}
CleanupPhases == {"intent", "ownership_quarantined", "refs_rechecked", "ownership_released",
                  "object_quarantined", "object_deleted"} \cup Final

Object == [life : 0 .. MaxLives, state : {"none", "active", "quarantined"}]
Ownership == [status : Live \cup {"released"}, lapsed : BOOLEAN, version : 1 .. MaxVersion]
Receipt == [image : Images, kind : {"active", "expired"}]
Reference == [board : Boards, image : Images, life : 1 .. MaxLives]
Request == [board : Boards, key : Keys, image : Images, step : {"decoding", "decoded"}]
Response == [answer : {"none", "created", "replayed", "conflict", "expired", "quota", "limited",
            "undecodable", "row_integrity"}]
Item == [board : Boards, image : Images, life : 1 .. MaxLives, version : 1 .. MaxVersion,
         phase : CleanupPhases, attempts : 0 .. MaxFailures, due : BOOLEAN]

ASSUME MediaAssumption ==
    /\ IsFiniteSet(Images)
    /\ {Quota, MaxActiveJobs, MaxFailures, MaxLives, MaxVersion} \subseteq Nat \ {0}
    /\ NoItem \notin Item /\ NoRow \notin Ownership \cup Receipt

MediaTypeOK ==
    /\ object \in [Images -> Object]
    /\ ownership \in [Boards \X Images -> Ownership \cup {NoRow}]
    /\ used \in [Boards -> 0 .. Quota]
    /\ receipt \in [Boards \X Keys -> Receipt \cup {NoRow}]
    /\ named \subseteq Reference
    /\ upload \in [Uploads -> Request \cup Response]
    /\ cleanup \in [CleanupItems -> Item \cup {NoItem}]

MediaInit ==
    /\ object = [i \in Images |-> [life |-> 0, state |-> "none"]]
    /\ ownership = [bi \in Boards \X Images |-> NoRow]
    /\ used = [b \in Boards |-> 0]
    /\ receipt = [bk \in Boards \X Keys |-> NoRow]
    /\ named = {}
    /\ upload = [u \in Uploads |-> [answer |-> "none"]]
    /\ cleanup = [n \in CleanupItems |-> NoItem]

HasRow(b, i) == ownership[<<b, i>>] # NoRow
Owns(b, i, status) == HasRow(b, i) /\ ownership[<<b, i>>].status = status
Owners(i) == {b \in Boards : HasRow(b, i) /\ ownership[<<b, i>>].status \in Live}
Answered(u) == upload[u] \in Response
In(u, step) == upload[u] \in Request /\ upload[u].step = step
ActiveJobs == Cardinality({u \in Uploads : In(u, "decoding")})
Respond(u, answer) == [upload EXCEPT ![u] = [answer |-> answer]]

-----------------------------------------------------------------------------
(* replay: a row with another fingerprint is a conflict, one whose ownership *)
(* was taken away is expired; otherwise the answer is given again and the    *)
(* lease of the ownership renewed.                                           *)
ReplayAnswer(b, k, i) ==
    CASE receipt[<<b, k>>].image # i -> "conflict"
      [] receipt[<<b, k>>].image = i /\ receipt[<<b, k>>].kind = "expired" -> "expired"
      [] receipt[<<b, k>>].image = i /\ receipt[<<b, k>>].kind = "active" ->
           IF object[i].state # "active" THEN "row_integrity"
           ELSE IF Owns(b, i, "active") THEN "replayed" ELSE "expired"

Replay(u, b, k, i) ==
    LET answer == ReplayAnswer(b, k, i)
    IN  /\ upload' = Respond(u, answer)
        /\ IF answer = "replayed"
           THEN /\ ownership[<<b, i>>].version < MaxVersion
                /\ ownership' = [ownership EXCEPT ![<<b, i>>].lapsed = FALSE,
                                                  ![<<b, i>>].version = @ + 1]
           ELSE UNCHANGED ownership
        /\ UNCHANGED <<object, used, receipt, named, cleanup>>

\* ingest: the first transaction answers a known key; an unknown one goes on to
\* the decoder, of which a process runs a fixed number.
Receive(u, b, k, i) ==
    /\ Answered(u)
    /\ IF receipt[<<b, k>>] # NoRow
       THEN Replay(u, b, k, i)
       ELSE /\ upload' = IF ActiveJobs < MaxActiveJobs
                         THEN [upload EXCEPT ![u] = [board |-> b, key |-> k, image |-> i,
                                                     step |-> "decoding"]]
                         ELSE Respond(u, "limited")
            /\ UNCHANGED <<object, ownership, used, receipt, named, cleanup>>

\* decode: the canonical bytes, or an error of the decoder or its deadline.
Decode(u) ==
    /\ In(u, "decoding")
    /\ \/ upload' = [upload EXCEPT ![u].step = "decoded"]
       \/ upload' = Respond(u, "undecodable")
    /\ UNCHANGED <<object, ownership, used, receipt, named, cleanup>>

\* The rows lockOrCreateObject and lockOrCreateOwnership refuse to build on.
Unusable(b, i) ==
    \/ object[i].state = "quarantined"
    \/ HasRow(b, i) /\ ownership[<<b, i>>].status # "active"

\* lockOrCreateObject, lockOrCreateOwnership, chargeQuota and the idempotency row.
\* An ownership that is there already is used as it is, with the lease it has.
Store(u, b, k, i) ==
    LET created == ~HasRow(b, i)
    IN  /\ object[i].state = "none" => object[i].life < MaxLives
        /\ IF created /\ used[b] + 1 > Quota
           THEN /\ upload' = Respond(u, "quota")
                /\ UNCHANGED <<object, ownership, used, receipt>>
           ELSE /\ object' = IF object[i].state = "none"
                             THEN [object EXCEPT ![i] = [life |-> @.life + 1, state |-> "active"]]
                             ELSE object
                /\ ownership' = IF created
                                THEN [ownership EXCEPT ![<<b, i>>] = [status |-> "active",
                                        lapsed |-> FALSE, version |-> 1]]
                                ELSE ownership
                /\ used' = IF created THEN [used EXCEPT ![b] = @ + 1] ELSE used
                /\ receipt' = [receipt EXCEPT ![<<b, k>>] = [image |-> i, kind |-> "active"]]
                /\ upload' = Respond(u, "created")
        /\ UNCHANGED <<named, cleanup>>

\* ingest: the second transaction looks the key up again.
Commit(u) ==
    LET b == upload[u].board
        k == upload[u].key
        i == upload[u].image
    IN  /\ In(u, "decoded")
        /\ \/ /\ receipt[<<b, k>>] # NoRow
              /\ Replay(u, b, k, i)
           \/ /\ receipt[<<b, k>>] = NoRow
              /\ Unusable(b, i)
              /\ upload' = Respond(u, "row_integrity")
              /\ UNCHANGED <<object, ownership, used, receipt, named, cleanup>>
           \/ /\ receipt[<<b, k>>] = NoRow
              /\ ~Unusable(b, i)
              /\ Store(u, b, k, i)

-----------------------------------------------------------------------------
Lease(b, i) ==
    /\ HasRow(b, i)
    /\ ~ownership[<<b, i>>].lapsed
    /\ ownership' = [ownership EXCEPT ![<<b, i>>].lapsed = TRUE]
    /\ UNCHANGED <<object, used, receipt, named, upload, cleanup>>

\* assertOwnedByBoard and insertMediaReferences: a board mutation stores a
\* revision that names an image; the lease plays no part in it.
Mutate(b, i) ==
    /\ Owns(b, i, "active")
    /\ named' = named \cup {[board |-> b, image |-> i, life |-> object[i].life]}
    /\ UNCHANGED <<object, ownership, used, receipt, upload, cleanup>>

\* Revision retention deletes the references of the revisions it removes.
Prune(r) ==
    /\ r \in named
    /\ named' = named \ {r}
    /\ UNCHANGED <<object, ownership, used, receipt, upload, cleanup>>

-----------------------------------------------------------------------------
\* An operator records the intent, with the versions the rows have now.
Intend(n, b, i) ==
    /\ cleanup[n] = NoItem
    /\ Owns(b, i, "active")
    /\ object[i].state = "active"
    /\ cleanup' = [cleanup EXCEPT ![n] =
                       [board |-> b, image |-> i, life |-> object[i].life,
                        version |-> ownership[<<b, i>>].version, phase |-> "intent",
                        attempts |-> 0, due |-> FALSE]]
    /\ UNCHANGED <<object, ownership, used, receipt, named, upload>>

At(n, phase) == cleanup[n] # NoItem /\ cleanup[n].phase = phase
Transition(n, phase, version) == [cleanup EXCEPT ![n].phase = phase, ![n].version = version]

\* The ownership row the item names, still in the version it expects.
Expected(n, statuses) ==
    LET x == cleanup[n]
    IN  /\ HasRow(x.board, x.image)
        /\ object[x.image].life = x.life
        /\ ownership[<<x.board, x.image>>].status \in statuses
        /\ ownership[<<x.board, x.image>>].version = x.version

\* lockExpectedObject
ObjectIs(n, state) ==
    object[cleanup[n].image].life = cleanup[n].life /\ object[cleanup[n].image].state = state

\* hasAnyExactMediaRef; a strong hold is always on a revision that has the reference.
Referenced(n) == \E r \in named : r.image = cleanup[n].image /\ r.life = cleanup[n].life

SetStatus(n, status) ==
    [ownership EXCEPT ![<<cleanup[n].board, cleanup[n].image>>].status = status,
                      ![<<cleanup[n].board, cleanup[n].image>>].version = @ + 1]

QuarantineOwnership(n) ==
    LET x == cleanup[n]
    IN  /\ At(n, "intent")
        /\ Expected(n, {"active"})
        /\ ownership[<<x.board, x.image>>].lapsed
        /\ x.version < MaxVersion
        /\ ownership' = SetStatus(n, "quarantined")
        /\ cleanup' = Transition(n, "ownership_quarantined", x.version + 1)
        /\ UNCHANGED <<object, used, receipt, named, upload>>

\* Mutant: the references are not looked at again.
RecheckReferences_Skipped(n) ==
    /\ At(n, "ownership_quarantined")
    /\ cleanup' = Transition(n, "refs_rechecked", cleanup[n].version)
    /\ UNCHANGED <<object, ownership, used, receipt, named, upload>>
\* A reference of any board to the object gives the ownership back.
RecheckReferences(n) ==
    LET x == cleanup[n]
    IN  /\ At(n, "ownership_quarantined")
        /\ \/ /\ Referenced(n)
              /\ Expected(n, {"quarantined"})
              /\ x.version < MaxVersion
              /\ ownership' = SetStatus(n, "active")
              /\ cleanup' = Transition(n, "complete", x.version + 1)
           \/ /\ ~Referenced(n)
              /\ cleanup' = Transition(n, "refs_rechecked", x.version)
              /\ UNCHANGED ownership
        /\ UNCHANGED <<object, used, receipt, named, upload>>

\* releaseExpiredOwnership: the receipts expire and the quota is given back.
ReleaseOwnership(n) ==
    LET x == cleanup[n]
    IN  /\ At(n, "refs_rechecked")
        /\ Expected(n, Live)
        /\ ownership[<<x.board, x.image>>].lapsed
        /\ used[x.board] >= 1
        /\ x.version < MaxVersion
        /\ receipt' = [bk \in DOMAIN receipt |->
                         IF bk[1] = x.board /\ receipt[bk] # NoRow /\ receipt[bk].image = x.image
                         THEN [receipt[bk] EXCEPT !.kind = "expired"] ELSE receipt[bk]]
        /\ ownership' = SetStatus(n, "released")
        /\ used' = [used EXCEPT ![x.board] = @ - 1]
        /\ cleanup' = Transition(n, "ownership_released", x.version + 1)
        /\ UNCHANGED <<object, named, upload>>

QuarantineObject(n) ==
    LET x == cleanup[n]
    IN  /\ At(n, "ownership_released")
        /\ ObjectIs(n, "active")
        /\ \/ /\ Owners(x.image) # {}
              /\ cleanup' = Transition(n, "complete", x.version)
              /\ UNCHANGED object
           \/ /\ Owners(x.image) = {}
              /\ ~Referenced(n)
              /\ object' = [object EXCEPT ![x.image].state = "quarantined"]
              /\ cleanup' = Transition(n, "object_quarantined", x.version)
        /\ UNCHANGED <<ownership, used, receipt, named, upload>>

\* Seven days pass after the object was quarantined.
Due(n) ==
    /\ At(n, "object_quarantined")
    /\ ~cleanup[n].due
    /\ cleanup' = [cleanup EXCEPT ![n].due = TRUE]
    /\ UNCHANGED <<object, ownership, used, receipt, named, upload>>

\* With a backup certificate of the object (one that is missing, lapsed or not the
\* latest fails the transaction, see Fail).  The released ownerships go first.
DeleteObject(n) ==
    LET x == cleanup[n]
    IN  /\ At(n, "object_quarantined")
        /\ x.due
        /\ ObjectIs(n, "quarantined")
        /\ Owners(x.image) = {}
        /\ ~Referenced(n)
        /\ object' = [object EXCEPT ![x.image].state = "none"]
        /\ ownership' = [bi \in DOMAIN ownership |->
                           IF bi[2] = x.image THEN NoRow ELSE ownership[bi]]
        /\ cleanup' = Transition(n, "object_deleted", x.version)
        /\ UNCHANGED <<used, receipt, named, upload>>

CompleteItem(n) ==
    /\ At(n, "object_deleted")
    /\ cleanup' = Transition(n, "complete", cleanup[n].version)
    /\ UNCHANGED <<object, ownership, used, receipt, named, upload>>

\* recordFailure: after an advance that threw, for whatever reason; the last
\* failure leaves the item, and the rows it quarantined, for an operator.
Fail(n) ==
    /\ cleanup[n] # NoItem
    /\ cleanup[n].phase \notin Final
    /\ LET attempts == cleanup[n].attempts + 1
       IN  cleanup' = [cleanup EXCEPT ![n].attempts = attempts,
                                      ![n].phase = IF attempts >= MaxFailures THEN "quarantined" ELSE @]
    /\ UNCHANGED <<object, ownership, used, receipt, named, upload>>

AdvanceItem(n) ==
    \/ QuarantineOwnership(n) \/ RecheckReferences(n) \/ ReleaseOwnership(n)
    \/ QuarantineObject(n) \/ DeleteObject(n) \/ CompleteItem(n)

MediaNext ==
    \/ \E u \in Uploads, b \in Boards, k \in Keys, i \in Images : Receive(u, b, k, i)
    \/ \E u \in Uploads : Decode(u) \/ Commit(u)
    \/ \E b \in Boards, i \in Images : Lease(b, i) \/ Mutate(b, i)
    \/ \E r \in named : Prune(r)
    \/ \E n \in CleanupItems, b \in Boards, i \in Images : Intend(n, b, i)
    \/ \E n \in CleanupItems : AdvanceItem(n) \/ Due(n) \/ Fail(n)

MediaSpec == MediaInit /\ [][MediaNext]_mediaVars

-----------------------------------------------------------------------------
(* The quota of a board is what its ownerships hold, the quarantined ones    *)
(* included: charged once for an image however often and under however many  *)
(* keys it is uploaded, given back once however the cleanup goes.            *)
QuotaMatches ==
    \A b \in Boards : used[b] = Cardinality({i \in Images : b \in Owners(i)})

(* An image a stored revision names is never lost: its board still owns it   *)
(* and the object is there.  A mutation that commits while the cleanup looks *)
(* for references is seen by it, or is refused.                              *)
ReferencedIsKept ==
    \A r \in named :
        /\ object[r.image] = [life |-> r.life, state |-> "active"]
        /\ r.board \in Owners(r.image)

(* A receipt that is not expired is for an image its board still owns: a     *)
(* retry is never told that an image was stored which the cleanup has taken. *)
ReceiptsHold ==
    \A bk \in DOMAIN receipt :
        receipt[bk] # NoRow /\ receipt[bk].kind = "active"
            => /\ bk[1] \in Owners(receipt[bk].image)
               /\ object[receipt[bk].image].state = "active"

(* An ownership whose lease still runs is not in the hands of a cleanup: a   *)
(* replay that renews the lease while an item is pending stops that item.    *)
LeasedIsActive ==
    \A bi \in DOMAIN ownership :
        ownership[bi] # NoRow /\ ~ownership[bi].lapsed => ownership[bi].status = "active"

(* An ownership stays quarantined only while an item is working on it, or is *)
(* waiting for an operator: no sequence of items forgets one.                *)
QuarantineHasItem ==
    \A b \in Boards, i \in Images :
        Owns(b, i, "quarantined") =>
            \E n \in CleanupItems :
                /\ cleanup[n] # NoItem
                /\ cleanup[n].board = b /\ cleanup[n].image = i /\ cleanup[n].life = object[i].life
                /\ cleanup[n].phase \in {"ownership_quarantined", "refs_rechecked", "quarantined"}

(* What the images promise: the quota of a board is what it owns, an image a *)
(* stored revision names is never lost, and a retried upload is told the     *)
(* truth, whatever a cleanup that goes on beside it has reached.             *)
ImagesAreAccounted ==
    /\ MediaTypeOK /\ QuotaMatches /\ ReferencedIsKept
    /\ ReceiptsHold /\ LeasedIsActive /\ QuarantineHasItem
=============================================================================
