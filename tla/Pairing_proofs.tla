----------------------------- MODULE Pairing_proofs -----------------------------
(* Pairing, on the board server and in the processes of the agent: credentials  *)
(* end with what they were granted for, for every set of sessions, pairings     *)
(* and requests, every quota and every number of password changes; and the      *)
(* lease of a profile is owned, for every set of processes, calls and codes.    *)
EXTENDS PairingGrants, PairingOwner, FiniteSetTheorems, TLAPS

(***************************************************************************)
(* The inductive invariant                                                 *)
(*                                                                         *)
(* A grant is found by the session it was granted for only if it names it, *)
(* and while it waits to be fetched by that of its pairing too; a session  *)
(* that approves has been opened.  A request that creates a pairing has a  *)
(* number of its own.  No part of it needs the locks: a transaction acts    *)
(* on what its rows hold when it has them all.                             *)
(***************************************************************************)

PairingType ==
  [state : {"none", "created", "pending", "approved", "redeemed", "denied", "cancelled",
            "expired", "locked"},
   source : Families \cup {NoFamily}, failures : 0 .. MaxFailures]
GrantType ==
  [status : {"none", "pending", "active", "revoked", "expired"},
   lifetime : {"session", "persistent"}, source : Families \cup {NoFamily}]
FamilyType == [status : {"none", "live", "lapsed", "ended"}, stands : 0 .. MaxPasswords]

\* Nothing of a pairing works that came from the session f.
FreeOf(p, f) ==
  /\ ~(pairing[p].state = "approved" /\ pairing[p].source = f)
  /\ ~(Usable(p) /\ grant[p].source = f)

\* A pairing with its grant, its credentials and the session they came from.
PairingSound(p) ==
  /\ pairing[p] \in PairingType /\ grant[p] \in GrantType
  /\ pairing[p].state = "approved" <=> grant[p].status = "pending"
  /\ pairing[p].state \in {"none", "created", "pending"} => grant[p].status = "none"
  /\ active[p] = IF grant[p].status = "active" THEN 1 ELSE 0
  /\ pairing[p].state = "approved" =>
       pairing[p].source \in Families /\ family[pairing[p].source].status # "none"
  /\ pairing[p].state = "created" => pairing[p].failures < MaxFailures
  /\ grant[p].source # NoFamily => grant[p].lifetime = "session"
  /\ grant[p].status = "pending" /\ grant[p].lifetime = "session" =>
       grant[p].source = pairing[p].source
  /\ \A f \in Families : family[f].status = "ended" => FreeOf(p, f)

Creates(x) == Busy(x) /\ tx[x].kind = "create"

\* What a request was begun with.
RequestSound(x) ==
  Busy(x) =>
    /\ tx[x].kind \notin {"end", "password", "login"} => tx[x].p \in Pairings
    /\ tx[x].kind \in {"create", "approve", "deny", "end", "password", "login"} => tx[x].f \in Families
    /\ tx[x].kind = "create" =>
         /\ pairing[tx[x].p].state = "none"
         /\ \A y \in Requests : Creates(y) /\ tx[y].p = tx[x].p => x = y

TablesInv ==
  /\ family \in [Families -> FamilyType] /\ password \in 1 .. MaxPasswords
  /\ pairing \in [Pairings -> PairingType] /\ grant \in [Pairings -> GrantType]
  /\ active \in [Pairings -> 0 .. 2] /\ due \in [Pairings -> BOOLEAN]
  /\ \A p \in Pairings : PairingSound(p)
  /\ SessionsStandForPassword /\ QuotaKept

RequestsInv ==
  /\ tx \in [Requests -> Transaction \cup {Idle}] /\ lock \in [Rows -> Requests \cup {Idle}]
  /\ \A x \in Requests : RequestSound(x)

PInv == TablesInv /\ RequestsInv

\* The invariant has what the runs check.
LEMMA PInvPromises ==
  PInv => /\ TypeOK /\ PendingIsApproved /\ OneCredential
          /\ NothingOutlivesFamily /\ SessionsStandForPassword /\ QuotaKept
  BY DEF PInv, TablesInv, RequestsInv, PairingSound, FreeOf, Usable, TypeOK,
         PendingIsApproved, OneCredential, NothingOutlivesFamily, FamilyType, PairingType, GrantType

(***************************************************************************)
(* What a transaction may do to one pairing                                *)
(***************************************************************************)

Over_ == {"denied", "cancelled", "expired", "locked"}
KeepsGrant(p) == grant'[p] = grant[p] /\ active'[p] = active[p]
EndsGrant(p) ==
  /\ \E s \in {"expired", "revoked"} : grant'[p] = [grant[p] EXCEPT !.status = s]
  /\ active'[p] = 0

Stays(p) == pairing'[p] = pairing[p] /\ KeepsGrant(p)
Opens(p) ==
  /\ pairing[p].state = "none" /\ KeepsGrant(p)
  /\ \E f \in Families : pairing'[p] = [state |-> "created", source |-> f, failures |-> 0]
Claimed(p) ==
  /\ pairing[p].state = "created" /\ KeepsGrant(p)
  /\ \/ pairing'[p] = [pairing[p] EXCEPT !.state = "pending"]
     \/ pairing'[p] = [pairing[p] EXCEPT !.failures = pairing[p].failures + 1,
                                         !.state = IF pairing[p].failures + 1 = MaxFailures
                                                   THEN "locked" ELSE "created"]
Approved(p) ==
  /\ pairing[p].state = "pending" /\ active'[p] = active[p]
  /\ \E f \in Families, l \in {"session", "persistent"} :
       /\ family[f].status \in {"live", "lapsed"}
       /\ pairing'[p] = [pairing[p] EXCEPT !.state = "approved", !.source = f]
       /\ grant'[p] = [status |-> "pending", lifetime |-> l,
                       source |-> IF l = "session" THEN f ELSE NoFamily]
Redeemed(p) ==
  /\ pairing[p].state = "approved" /\ active'[p] = active[p] + 1
  /\ pairing'[p] = [pairing[p] EXCEPT !.state = "redeemed"]
  /\ grant'[p] = [grant[p] EXCEPT !.status = "active"]
Closed(p) ==
  /\ pairing[p].state \in Open
  /\ \E s \in Over_ : pairing'[p] = [pairing[p] EXCEPT !.state = s]
  /\ IF pairing[p].state = "approved" THEN EndsGrant(p) ELSE KeepsGrant(p)
Withdraws(p) == grant[p].status = "active" /\ pairing'[p] = pairing[p] /\ EndsGrant(p)

Moves(p) == Claimed(p) \/ Approved(p) \/ Redeemed(p) \/ Closed(p) \/ Withdraws(p)

\* Families that have been opened stay so, and one that ends frees its pairings.
FamiliesMove(p) ==
  /\ \A f \in Families : family[f].status # "none" => family'[f].status # "none"
  /\ \A f \in Families : family'[f].status = "ended" => family[f].status = "ended" \/ FreeOf(p, f)'

\* Whatever happens to a pairing, it stays sound.
LEMMA MovesKeepSound ==
  ASSUME PairingGrantsAssumption, NEW p \in Pairings, PairingSound(p), FamiliesMove(p),
         Stays(p) \/ Opens(p) \/ Moves(p)
  PROVE  PairingSound(p)'
  <1> USE DEF PairingSound, FreeOf, Usable, FamiliesMove, KeepsGrant, PairingType, GrantType, NoFamily
  <1>1. CASE Stays(p)
    BY <1>1 DEF Stays
  <1>2. CASE Opens(p)
    BY <1>2 DEF Opens, PairingGrantsAssumption
  <1>3. CASE Claimed(p)
    <2>1. CASE pairing'[p] = [pairing[p] EXCEPT !.state = "pending"]
      BY <1>3, <2>1 DEF Claimed
    <2>2. CASE pairing'[p] = [pairing[p] EXCEPT !.failures = pairing[p].failures + 1,
                                !.state = IF pairing[p].failures + 1 = MaxFailures
                                          THEN "locked" ELSE "created"]
      <3>1. /\ pairing[p].failures + 1 \in 0 .. MaxFailures
            /\ pairing[p].failures + 1 # MaxFailures => pairing[p].failures + 1 < MaxFailures
        BY <1>3 DEF Claimed, PairingGrantsAssumption
      <3>2. /\ pairing'[p].state \in {"locked", "created"}
            /\ pairing'[p].state = "created" => pairing'[p].failures < MaxFailures
            /\ pairing'[p] \in PairingType
        BY <2>2, <3>1
      <3>3. QED
        BY <1>3, <3>2 DEF Claimed
    <2>3. QED
      BY <1>3, <2>1, <2>2 DEF Claimed
  <1>4. CASE Approved(p)
    <2>1. PICK f \in Families, l \in {"session", "persistent"} :
            /\ family[f].status \in {"live", "lapsed"}
            /\ pairing'[p] = [pairing[p] EXCEPT !.state = "approved", !.source = f]
            /\ grant'[p] = [status |-> "pending", lifetime |-> l,
                            source |-> IF l = "session" THEN f ELSE NoFamily]
      BY <1>4 DEF Approved
    <2>2. pairing'[p].state = "approved" /\ pairing'[p].source = f /\ pairing'[p] \in PairingType
      <3>1. pairing[p] \in PairingType
        OBVIOUS
      <3>2. QED
        BY ONLY <2>1, <3>1 DEF PairingType
    <2>7. grant'[p].status = "pending" /\ grant'[p].lifetime = l
      BY <2>1
    <2>6. grant'[p] \in GrantType /\ grant'[p].source = (IF l = "session" THEN f ELSE NoFamily)
      BY <2>1
    <2>3. family'[f].status \notin {"none", "ended"} /\ f # NoFamily
      BY <2>1, <2>2 DEF PairingGrantsAssumption
    <2>4. active'[p] = 0
      BY <1>4 DEF Approved
    <2>5. QED
      <3>1. \A g \in Families : family'[g].status = "ended" => FreeOf(p, g)'
        <4>1. 0 \notin Families
          BY DEF PairingGrantsAssumption
        <4>2. QED
          BY <2>2, <2>3, <2>6, <4>1
      <3>2. QED
        BY <2>2, <2>3, <2>4, <2>6, <2>7, <3>1
  <1>5. CASE Redeemed(p)
    BY <1>5 DEF Redeemed
  <1>6. CASE Closed(p)
    BY <1>6 DEF Closed, EndsGrant, Over_, Open
  <1>7. CASE Withdraws(p)
    BY <1>7 DEF Withdraws, EndsGrant
  <1>8. QED
    BY <1>1, <1>2, <1>3, <1>4, <1>5, <1>6, <1>7 DEF Moves

(***************************************************************************)
(* What that does to the tables and to the requests                        *)
(***************************************************************************)

\* The tables are functions of the pairings after a step as before it.
Shaped ==
  /\ pairing' = [p \in Pairings |-> pairing'[p]]
  /\ grant' = [p \in Pairings |-> grant'[p]]
  /\ active' = [p \in Pairings |-> active'[p]]

OpenPairings == {p \in Pairings : pairing[p].state \in Open}

\* No more pairings are open than before, unless one is created.
LEMMA OpenOnlyFalls ==
  ASSUME PairingGrantsAssumption, NEW S \in SUBSET Pairings, OpenPairings' \subseteq S,
         Cardinality(S) <= MaxActive
  PROVE  QuotaKept'
  <1>1. IsFiniteSet(S)
    BY FS_Subset DEF PairingGrantsAssumption
  <1>2. Cardinality(OpenPairings') <= Cardinality(S) /\ Cardinality(OpenPairings') \in Nat
        /\ Cardinality(S) \in Nat
    BY <1>1, FS_Subset, FS_CardinalityType
  <1>3. Cardinality(OpenPairings') <= MaxActive
    BY <1>2 DEF PairingGrantsAssumption
  <1>4. QED
    BY <1>3 DEF QuotaKept, OpenPairings

\* Neither does the quota notice what happens to pairings that are there.
LEMMA MovesKeepQuota ==
  ASSUME PairingGrantsAssumption, QuotaKept, \A p \in Pairings : Stays(p) \/ Moves(p)
  PROVE  QuotaKept'
  <1>1. ASSUME NEW p \in Pairings, pairing'[p].state \in Open, ~(pairing[p].state \in Open)
        PROVE  FALSE
    <2>1. \A s : [pairing[p] EXCEPT !.state = s].state \in {s, pairing[p].state}
      OBVIOUS
    <2>2. QED
      BY <1>1, <2>1 DEF Stays, Moves, Claimed, Approved, Redeemed, Closed, Withdraws, Open
  <1>2. OpenPairings' \subseteq OpenPairings /\ OpenPairings \in SUBSET Pairings
    BY <1>1 DEF OpenPairings
  <1>3. QED
    BY <1>2, OpenOnlyFalls DEF QuotaKept, OpenPairings

\* The parts of the tables that a transaction writes besides the pairings.
OthersTyped ==
  /\ family' \in [Families -> FamilyType] /\ password' \in 1 .. MaxPasswords
  /\ due' \in [Pairings -> BOOLEAN] /\ SessionsStandForPassword'

\* The tables follow from what happens to each pairing, the sessions and the quota.
LEMMA TablesFollow ==
  ASSUME PairingGrantsAssumption, TablesInv, Shaped, OthersTyped, QuotaKept',
         \A p \in Pairings : FamiliesMove(p) /\ (Stays(p) \/ Opens(p) \/ Moves(p))
  PROVE  TablesInv'
  <1>1. \A p \in Pairings : PairingSound(p)'
    BY MovesKeepSound DEF TablesInv
  <1>2. /\ pairing' \in [Pairings -> PairingType] /\ grant' \in [Pairings -> GrantType]
        /\ active' \in [Pairings -> 0 .. 2]
    <2>1. \A p \in Pairings : pairing'[p] \in PairingType /\ grant'[p] \in GrantType
                              /\ active'[p] \in 0 .. 2
      BY <1>1 DEF PairingSound
    <2>2. QED
      BY <2>1 DEF Shaped
  <1>3. QED
    BY <1>1, <1>2 DEF TablesInv, OthersTyped

\* A transaction that leaves the sessions alone.
LEMMA SessionsAside ==
  ASSUME PairingGrantsAssumption, TablesInv, Shaped, UNCHANGED <<family, password>>,
         due' \in [Pairings -> BOOLEAN], \A p \in Pairings : Stays(p) \/ Moves(p)
  PROVE  TablesInv'
  <1>1. OthersTyped /\ \A p \in Pairings : FamiliesMove(p)
    BY DEF TablesInv, OthersTyped, SessionsStandForPassword, FamiliesMove
  <1>2. QED
    BY <1>1, MovesKeepQuota, TablesFollow DEF TablesInv

\* A transaction that ends leaves the other requests as they were.
LEMMA ReleaseKeeps ==
  ASSUME RequestsInv, NEW x \in Requests, Release(x),
         \A p \in Pairings : \/ pairing'[p].state = "none" \/ pairing[p].state # "none"
                             \/ Creates(x) /\ tx[x].p = p
  PROVE  RequestsInv'
  <1>1. /\ tx' \in [Requests -> Transaction \cup {Idle}] /\ tx'[x] = Idle
        /\ \A y \in Requests : y # x => tx'[y] = tx[y]
    BY DEF RequestsInv, Release
  <1>2. lock' \in [Rows -> Requests \cup {Idle}]
    BY DEF RequestsInv, Release
  <1>3. ASSUME NEW y \in Requests PROVE RequestSound(y)'
    <2>1. CASE y = x
      BY <1>1, <2>1 DEF RequestSound, Busy
    <2>2. CASE y # x /\ ~Creates(y)
      BY <1>1, <2>2 DEF RequestsInv, RequestSound, Busy, Creates
    <2>3. CASE y # x /\ Creates(y)
      <3>1. /\ tx[y].p \in Pairings /\ pairing[tx[y].p].state = "none"
            /\ \A z \in Requests : Creates(z) /\ tx[z].p = tx[y].p => y = z
        BY <2>3 DEF RequestsInv, RequestSound, Creates
      <3>2. pairing'[tx[y].p].state = "none"
        BY <2>3, <3>1
      <3>3. \A z \in Requests : Creates(z)' /\ tx'[z].p = tx'[y].p => y = z
        BY <1>1, <2>3, <3>1 DEF Creates, Busy
      <3>4. QED
        BY <1>1, <2>3, <3>1, <3>2, <3>3 DEF RequestsInv, RequestSound, Creates, Busy
    <2>4. QED
      BY <2>1, <2>2, <2>3
  <1>4. QED
    BY <1>1, <1>2, <1>3 DEF RequestsInv

\* A credential is handed out only by a redemption, of an approval that is sound.
LEMMA MovesFetchInTime ==
  ASSUME PairingGrantsAssumption, TablesInv,
         \A p \in Pairings : Stays(p) \/ Opens(p) \/ Moves(p)
  PROVE  FetchedBeforeTheEnd
  <1>1. SUFFICES ASSUME NEW p \in Pairings, grant[p].status = "pending", grant'[p].status = "active"
                 PROVE  family[pairing[p].source].status \in {"live", "lapsed"}
    BY DEF FetchedBeforeTheEnd
  <1>2. PairingSound(p) /\ pairing[p].state = "approved"
    BY <1>1 DEF TablesInv, PairingSound
  <1>3. /\ pairing[p].source \in Families /\ family[pairing[p].source].status # "none"
        /\ family[pairing[p].source].status # "ended"
    BY <1>2 DEF PairingSound, FreeOf
  <1>4. family[pairing[p].source] \in FamilyType
    BY <1>3 DEF TablesInv
  <1>5. QED
    BY <1>3, <1>4 DEF FamilyType

Kept == PInv' /\ FetchedBeforeTheEnd

\* What a transaction commits that creates nothing.
LEMMA CommitKeeps ==
  ASSUME PairingGrantsAssumption, PInv, NEW x \in Requests, Release(x), Shaped,
         UNCHANGED <<family, password>>, due' \in [Pairings -> BOOLEAN],
         \A p \in Pairings : Stays(p) \/ Moves(p)
  PROVE  Kept
  <1>1. \A p \in Pairings : pairing[p].state = "none" => pairing'[p].state = "none"
    BY DEF Stays, Moves, Claimed, Approved, Redeemed, Closed, Withdraws, Open
  <1>2. QED
    BY <1>1, SessionsAside, ReleaseKeeps, MovesFetchInTime DEF PInv, Kept

(***************************************************************************)
(* The transactions                                                        *)
(***************************************************************************)

\* The rows of a pairing have their types.
LEMMA Typed ==
  ASSUME PInv, NEW p \in Pairings
  PROVE  PairingSound(p) /\ pairing[p] \in PairingType /\ grant[p] \in GrantType
  BY DEF PInv, TablesInv

\* Pairings that expire close, with their pending grants.
LEMMA ExpireCloses ==
  ASSUME PInv, NEW S \in SUBSET Pairings, \A p \in S : pairing[p].state \in Open, Expire(S)
  PROVE  Shaped /\ \A p \in Pairings : Stays(p) \/ Moves(p)
  <1>1. Shaped
    BY DEF Expire, Moved, Ended, Withdrawn, Shaped
  <1>2. ASSUME NEW p \in S PROVE Closed(p)
    BY <1>2 DEF Expire, Moved, Ended, Withdrawn, Closed, EndsGrant, KeepsGrant, Over_
  <1>3. ASSUME NEW p \in Pairings \ S PROVE Stays(p)
    BY <1>3 DEF Expire, Moved, Ended, Withdrawn, Stays, KeepsGrant
  <1>4. QED
    BY <1>1, <1>2, <1>3 DEF Moves

\* A grant that is in use ends, its pairing stays as it is.
LEMMA GrantEnds ==
  ASSUME PInv, NEW p \in Pairings, grant[p].status = "active",
         NEW s \in {"expired", "revoked"},
         grant' = Ended({p}, s), active' = Withdrawn({p}), UNCHANGED pairing
  PROVE  Shaped /\ \A q \in Pairings : Stays(q) \/ Moves(q)
  <1>1. Shaped
    BY DEF Ended, Withdrawn, Shaped, PInv, TablesInv
  <1>2. Withdraws(p)
    BY DEF Ended, Withdrawn, Withdraws, EndsGrant
  <1>3. \A q \in Pairings : q # p => Stays(q)
    BY DEF Ended, Withdrawn, Stays, KeepsGrant
  <1>4. QED
    BY <1>1, <1>2, <1>3 DEF Moves

\* A transaction that changes no pairing.
LEMMA NothingMoves ==
  ASSUME PInv, UNCHANGED <<pairing, grant, active>>
  PROVE  Shaped /\ \A p \in Pairings : Stays(p) \/ Moves(p)
  BY DEF PInv, TablesInv, Shaped, Stays, KeepsGrant

\* A claim, with the code or with a wrong one.
LEMMA ClaimKeeps ==
  ASSUME PairingGrantsAssumption, PInv, NEW x \in Requests, Claim(x)
  PROVE  Kept
  <1> DEFINE p == tx[x].p
  <1>1. p \in Pairings /\ Release(x) /\ UNCHANGED <<family, password>>
    BY DEF PInv, RequestsInv, RequestSound, Claim, Committing, Nothing
  <1>2. due' \in [Pairings -> BOOLEAN]
    BY DEF PInv, TablesInv, Claim, Clear, Nothing
  <1>3. Shaped /\ \A q \in Pairings : Stays(q) \/ Moves(q)
    <2>1. CASE Nothing
      BY <2>1, NothingMoves DEF Nothing
    <2>2. CASE pairing[p].state = "created" /\ Expire({p})
      BY <1>1, <2>2, ExpireCloses DEF Open
    <2>3. CASE /\ pairing[p].state = "created" /\ pairing' = Moved({p}, "pending")
               /\ UNCHANGED <<grant, active>>
      <3>1. Claimed(p) /\ Shaped /\ \A q \in Pairings : q # p => Stays(q)
        BY <1>1, <2>3 DEF Claimed, Moved, Shaped, Stays, KeepsGrant, PInv, TablesInv
      <3>2. QED
        BY <1>1, <3>1 DEF Moves
    <2>4. CASE /\ pairing[p].state = "created" /\ UNCHANGED <<grant, active>>
               /\ pairing' = [pairing EXCEPT ![p].failures = @ + 1,
                                ![p].state = IF pairing[p].failures + 1 = MaxFailures
                                             THEN "locked" ELSE "created"]
      <3>1. /\ pairing' = [q \in Pairings |-> pairing'[q]]
            /\ \A q \in Pairings : q # p => pairing'[q] = pairing[q]
            /\ pairing'[p] = [pairing[p] EXCEPT !.failures = pairing[p].failures + 1,
                                 !.state = IF pairing[p].failures + 1 = MaxFailures
                                           THEN "locked" ELSE "created"]
        BY <1>1, <2>4 DEF PInv, TablesInv
      <3>2. Claimed(p) /\ Shaped /\ \A q \in Pairings : q # p => Stays(q)
        BY <2>4, <3>1 DEF Claimed, Shaped, Stays, KeepsGrant, PInv, TablesInv
      <3>3. QED
        BY <1>1, <3>2 DEF Moves
    <2>5. QED
      BY <2>1, <2>2, <2>3, <2>4 DEF Claim
  <1>4. QED
    BY <1>1, <1>2, <1>3, CommitKeeps

\* An approval or a denial.
LEMMA DecideKeeps ==
  ASSUME PairingGrantsAssumption, PInv, NEW x \in Requests, Decide(x)
  PROVE  Kept
  <1> DEFINE p == tx[x].p
             f == tx[x].f
             l == tx[x].lifetime
  <1>1. p \in Pairings /\ f \in Families /\ l \in {"session", "persistent"}
        /\ Release(x) /\ UNCHANGED <<family, password>>
    BY DEF PInv, RequestsInv, RequestSound, Decide, Committing, Nothing, Transaction, Busy
  <1>2. due' \in [Pairings -> BOOLEAN]
    BY DEF PInv, TablesInv, Decide, Clear, Nothing
  <1>3. Shaped /\ \A q \in Pairings : Stays(q) \/ Moves(q)
    <2>1. CASE Nothing
      BY <2>1, NothingMoves DEF Nothing
    <2>2. CASE pairing[p].state = "pending" /\ Expire({p})
      BY <1>1, <2>2, ExpireCloses DEF Open
    <2>3. CASE /\ pairing[p].state = "pending" /\ pairing' = Moved({p}, "denied")
               /\ UNCHANGED <<grant, active>>
      <3>1. Closed(p) /\ Shaped /\ \A q \in Pairings : q # p => Stays(q)
        BY <1>1, <2>3 DEF Closed, Open, Over_, Moved, Shaped, Stays, KeepsGrant, PInv, TablesInv
      <3>2. QED
        BY <1>1, <3>1 DEF Moves
    <2>4. CASE /\ pairing[p].state = "pending" /\ Alive(x, f) /\ UNCHANGED active
               /\ pairing' = [pairing EXCEPT ![p].state = "approved", ![p].source = f]
               /\ grant' = [grant EXCEPT ![p] = [status |-> "pending", lifetime |-> l,
                              source |-> IF l = "session" THEN f ELSE NoFamily]]
      <3>1. /\ pairing' = [q \in Pairings |-> pairing'[q]] /\ grant' = [q \in Pairings |-> grant'[q]]
            /\ \A q \in Pairings : q # p => pairing'[q] = pairing[q] /\ grant'[q] = grant[q]
            /\ pairing'[p] = [pairing[p] EXCEPT !.state = "approved", !.source = f]
            /\ grant'[p] = [status |-> "pending", lifetime |-> l,
                              source |-> IF l = "session" THEN f ELSE NoFamily]
        BY <1>1, <2>4 DEF PInv, TablesInv
      <3>2. family[f].status \in {"live", "lapsed"}
        BY <2>4 DEF Alive
      <3>3. Approved(p)
        BY <1>1, <2>4, <3>1, <3>2 DEF Approved
      <3>4. Shaped /\ \A q \in Pairings : q # p => Stays(q)
        BY <2>4, <3>1 DEF Shaped, Stays, KeepsGrant, PInv, TablesInv
      <3>5. QED
        BY <1>1, <3>3, <3>4 DEF Moves
    <2>5. QED
      BY <2>1, <2>2, <2>3, <2>4 DEF Decide
  <1>4. QED
    BY <1>1, <1>2, <1>3, CommitKeeps

\* A pairing that is found over is open.
LEMMA OverIsOpen ==
  ASSUME NEW x, NEW p, Over(x, p)
  PROVE  pairing[p].state \in Open
  BY DEF Over, Open

\* A look at a pairing, by its owner or its tool.
LEMMA LookKeeps ==
  ASSUME PairingGrantsAssumption, PInv, NEW x \in Requests, Look(x)
  PROVE  Kept
  <1> DEFINE p == tx[x].p
  <1>1. p \in Pairings /\ Release(x) /\ UNCHANGED <<family, password, due>>
    BY DEF PInv, RequestsInv, RequestSound, Look, Committing
  <1>2. Shaped /\ \A q \in Pairings : Stays(q) \/ Moves(q)
    BY <1>1, OverIsOpen, ExpireCloses, NothingMoves DEF Look
  <1>3. QED
    BY <1>1, <1>2, CommitKeeps DEF PInv, TablesInv

\* A redemption.
LEMMA RedeemKeeps ==
  ASSUME PairingGrantsAssumption, PInv, NEW x \in Requests, Redeem(x)
  PROVE  Kept
  <1> DEFINE p == tx[x].p
  <1>1. p \in Pairings /\ Release(x) /\ UNCHANGED <<family, password>>
    BY DEF PInv, RequestsInv, RequestSound, Redeem, Committing, Nothing
  <1>2. due' \in [Pairings -> BOOLEAN]
    BY DEF PInv, TablesInv, Redeem, Clear, Nothing
  <1>3. Shaped /\ \A q \in Pairings : Stays(q) \/ Moves(q)
    <2>1. CASE Nothing
      BY <2>1, NothingMoves DEF Nothing
    <2>2. CASE Over(x, p) /\ Expire({p})
      BY <1>1, <2>2, OverIsOpen, ExpireCloses
    <2>3. CASE /\ pairing[p].state = "approved" /\ pairing' = Moved({p}, "redeemed")
               /\ grant' = Ended({p}, "active") /\ active' = [active EXCEPT ![p] = @ + 1]
      <3>1. Redeemed(p) /\ Shaped /\ \A q \in Pairings : q # p => Stays(q)
        BY <1>1, <2>3 DEF Redeemed, Moved, Ended, Shaped, Stays, KeepsGrant, PInv, TablesInv
      <3>2. QED
        BY <1>1, <3>1 DEF Moves
    <2>4. QED
      BY <2>1, <2>2, <2>3 DEF Redeem
  <1>4. QED
    BY <1>1, <1>2, <1>3, CommitKeeps

\* A cancellation by the owner.
LEMMA CancelKeeps ==
  ASSUME PairingGrantsAssumption, PInv, NEW x \in Requests, Cancel(x)
  PROVE  Kept
  <1> DEFINE p == tx[x].p
             G == {q \in {p} : pairing[q].state = "approved"}
  <1>1. p \in Pairings /\ Release(x) /\ UNCHANGED <<family, password, due>>
    BY DEF PInv, RequestsInv, RequestSound, Cancel, Committing
  <1>2. Shaped /\ \A q \in Pairings : Stays(q) \/ Moves(q)
    <2>1. CASE Over(x, p) /\ Expire({p})
      BY <1>1, <2>1, OverIsOpen, ExpireCloses
    <2>2. CASE UNCHANGED <<pairing, grant, active>>
      BY <2>2, NothingMoves
    <2>3. CASE /\ pairing[p].state \in Open /\ pairing' = Moved({p}, "cancelled")
               /\ grant' = Ended(G, "revoked") /\ active' = Withdrawn(G)
      <3>1. Closed(p)
        BY <1>1, <2>3 DEF Closed, Over_, Moved, Ended, Withdrawn, EndsGrant, KeepsGrant, PInv, TablesInv
      <3>2. Shaped /\ \A q \in Pairings : q # p => Stays(q)
        BY <1>1, <2>3 DEF Moved, Ended, Withdrawn, Shaped, Stays, KeepsGrant
      <3>3. QED
        BY <1>1, <3>1, <3>2 DEF Moves
    <2>4. QED
      BY <2>1, <2>2, <2>3 DEF Cancel
  <1>3. QED
    BY <1>1, <1>2, CommitKeeps DEF PInv, TablesInv

\* A revocation, of a grant that waits or is in use.
LEMMA RevokeKeeps ==
  ASSUME PairingGrantsAssumption, PInv, NEW x \in Requests, Revoke(x)
  PROVE  Kept
  <1> DEFINE p == tx[x].p
             A == {q \in {p} : pairing[q].state = "approved"}
  <1>1. p \in Pairings /\ Release(x) /\ UNCHANGED <<family, password, due>>
    BY DEF PInv, RequestsInv, RequestSound, Revoke, Committing, Nothing
  <1>2. Shaped /\ \A q \in Pairings : Stays(q) \/ Moves(q)
    <2>1. CASE Nothing
      BY <2>1, NothingMoves DEF Nothing
    <2>2. ASSUME NEW s \in {"expired", "revoked"}, NEW over \in Over_, Usable(p),
                 grant' = Ended({p}, s), active' = Withdrawn({p}), pairing' = Moved(A, over)
          PROVE  Shaped /\ \A q \in Pairings : Stays(q) \/ Moves(q)
      <3>1. Shaped /\ \A q \in Pairings : q # p => Stays(q)
        BY <1>1, <2>2 DEF Moved, Ended, Withdrawn, Shaped, Stays, KeepsGrant
      <3>2. EndsGrant(p)
        BY <1>1, <2>2 DEF Ended, Withdrawn, EndsGrant
      <3>3. CASE pairing[p].state = "approved"
        BY <1>1, <2>2, <3>1, <3>2, <3>3 DEF Moves, Closed, Open, Moved
      <3>4. CASE pairing[p].state # "approved"
        <4>1. grant[p].status = "active" /\ pairing'[p] = pairing[p]
          BY <1>1, <2>2, <3>4, Typed DEF PairingSound, Usable, Moved
        <4>2. QED
          BY <3>1, <3>2, <4>1 DEF Moves, Withdraws
      <3>5. QED
        BY <3>3, <3>4
    <2>3. QED
      BY <2>1, <2>2 DEF Revoke, Over_
  <1>3. QED
    BY <1>1, <1>2, CommitKeeps DEF PInv, TablesInv

\* A rotation, and the use of a credential, end a grant that is found over.
LEMMA UseKeeps ==
  ASSUME PairingGrantsAssumption, PInv, NEW x \in Requests, Rotate(x) \/ Resolve(x)
  PROVE  Kept
  <1> DEFINE p == tx[x].p
  <1>1. p \in Pairings /\ Release(x) /\ UNCHANGED <<family, password, pairing, due>>
    BY DEF PInv, RequestsInv, RequestSound, Rotate, Resolve, Committing
  <1>2. Shaped /\ \A q \in Pairings : Stays(q) \/ Moves(q)
    BY <1>1, GrantEnds, NothingMoves DEF Rotate, Resolve
  <1>3. QED
    BY <1>1, <1>2, CommitKeeps DEF PInv, TablesInv

\* The retention run.
LEMMA RetainKeeps ==
  ASSUME PairingGrantsAssumption, PInv, NEW x \in Requests, Retain(x)
  PROVE  Kept
  <1> DEFINE p == tx[x].p
  <1>1. p \in Pairings /\ Release(x) /\ UNCHANGED <<family, password, due>>
    BY DEF PInv, RequestsInv, RequestSound, Retain, Committing
  <1>2. Shaped /\ \A q \in Pairings : Stays(q) \/ Moves(q)
    <2>1. CASE pairing[p].state \in Open /\ Expire({p})
      BY <1>1, <2>1, ExpireCloses
    <2>2. QED
      BY <1>1, <2>1, GrantEnds, NothingMoves DEF Retain
  <1>3. QED
    BY <1>1, <1>2, CommitKeeps DEF PInv, TablesInv

\* A sign-in, with the password of today.
LEMMA LoginKeeps ==
  ASSUME PairingGrantsAssumption, PInv, NEW x \in Requests, Login(x)
  PROVE  Kept
  <1> DEFINE f == tx[x].f
  <1>1. f \in Families /\ Release(x) /\ UNCHANGED <<password, pairing, grant, active, due>>
        /\ tx[x].hash \in 1 .. MaxPasswords /\ MaxPasswords \in Nat
    BY DEF PInv, RequestsInv, RequestSound, Login, Committing, Transaction, Busy, PairingGrantsAssumption
  <1>2. Shaped /\ \A p \in Pairings : Stays(p)
    BY <1>1, NothingMoves DEF PInv, TablesInv, Shaped, Stays, KeepsGrant
  <1>3. CASE UNCHANGED family
    BY <1>1, <1>2, <1>3, CommitKeeps DEF PInv, TablesInv
  <1>4. CASE /\ tx[x].hash = password /\ family[f].status = "none"
             /\ family' = [family EXCEPT ![f] = [status |-> "live", stands |-> tx[x].hash]]
    <2>1. /\ family' \in [Families -> FamilyType] /\ family'[f].status = "live"
          /\ family'[f].stands = password
          /\ \A g \in Families : g # f => family'[g] = family[g]
      BY <1>1, <1>4 DEF PInv, TablesInv, FamilyType
    <2>2. OthersTyped /\ \A p \in Pairings : FamiliesMove(p)
      BY <1>1, <1>4, <2>1 DEF OthersTyped, PInv, TablesInv, SessionsStandForPassword, FamiliesMove
    <2>3. TablesInv' /\ RequestsInv'
      BY <1>1, <1>2, <2>2, TablesFollow, MovesKeepQuota, ReleaseKeeps DEF PInv, TablesInv
    <2>4. QED
      BY <1>2, <2>3, MovesFetchInTime DEF PInv, Kept
  <1>5. QED
    BY <1>3, <1>4 DEF Login

\* What ends with some sessions is all that came from them.
LEMMA SessionsFree ==
  ASSUME PairingGrantsAssumption, PInv, NEW S \in SUBSET Families,
         pairing' = Moved(ApprovedFrom(S), "expired"),
         grant' = Ended(GrantsFrom(S), "expired"), active' = Withdrawn(GrantsFrom(S))
  PROVE  /\ Shaped /\ \A p \in Pairings : Stays(p) \/ Moves(p)
         /\ \A p \in Pairings, f \in S : FreeOf(p, f)'
  <1>1. Shaped
    BY DEF Moved, Ended, Withdrawn, Shaped
  <1>2. ASSUME NEW p \in Pairings PROVE Stays(p) \/ Moves(p)
    <2>1. CASE p \in ApprovedFrom(S)
      <3>1. pairing[p].state = "approved" /\ p \in GrantsFrom(S)
        BY <2>1, Typed DEF ApprovedFrom, GrantsFrom, Usable, PairingSound
      <3>2. Closed(p)
        BY <2>1, <3>1 DEF Moved, Ended, Withdrawn, Closed, EndsGrant, Over_, Open
      <3>3. QED
        BY <3>2 DEF Moves
    <2>2. CASE p \notin ApprovedFrom(S) /\ p \in GrantsFrom(S)
      <3>1. grant[p].status = "active"
        BY <2>2, Typed DEF ApprovedFrom, GrantsFrom, Usable, PairingSound
      <3>2. Withdraws(p)
        BY <2>2, <3>1 DEF Moved, Ended, Withdrawn, Withdraws, EndsGrant
      <3>3. QED
        BY <3>2 DEF Moves
    <2>3. CASE p \notin ApprovedFrom(S) /\ p \notin GrantsFrom(S)
      BY <2>3 DEF Moved, Ended, Withdrawn, Stays, KeepsGrant
    <2>4. QED
      BY <2>1, <2>2, <2>3
  <1>3. ASSUME NEW p \in Pairings, NEW f \in S PROVE FreeOf(p, f)'
    <2>1. f # NoFamily
      BY DEF PairingGrantsAssumption, NoFamily
    <2>2. ~(pairing'[p].state = "approved" /\ pairing'[p].source = f)
      <3>1. CASE p \in ApprovedFrom(S)
        BY <3>1, Typed DEF Moved, PairingType
      <3>2. CASE p \notin ApprovedFrom(S)
        BY <3>2 DEF Moved, ApprovedFrom
      <3>3. QED
        BY <3>1, <3>2
    <2>3. ~(grant'[p].status \in {"pending", "active"} /\ grant'[p].source = f)
      <3>1. CASE p \in GrantsFrom(S)
        BY <3>1, Typed DEF Ended, GrantType
      <3>2. CASE p \notin GrantsFrom(S)
        BY <2>1, <3>2, Typed DEF Ended, GrantsFrom, Usable, PairingSound
      <3>3. QED
        BY <3>1, <3>2
    <2>4. QED
      BY <2>2, <2>3 DEF FreeOf, Usable
  <1>4. QED
    BY <1>1, <1>2, <1>3

\* A step that ends the sessions of S and what came from them.
LEMMA SessionsEnd ==
  ASSUME PairingGrantsAssumption, PInv, NEW S \in SUBSET Families, NEW x \in Requests, Release(x),
         pairing' = Moved(ApprovedFrom(S), "expired"),
         grant' = Ended(GrantsFrom(S), "expired"), active' = Withdrawn(GrantsFrom(S)),
         OthersTyped,
         \A f \in Families : family[f].status # "none" => family'[f].status # "none",
         \A f \in Families : family'[f].status = "ended" => family[f].status = "ended" \/ f \in S
  PROVE  Kept
  <1>1. Shaped /\ \A p \in Pairings : FamiliesMove(p) /\ (Stays(p) \/ Moves(p))
    BY SessionsFree DEF FamiliesMove
  <1>2. TablesInv'
    BY <1>1, MovesKeepQuota, TablesFollow DEF PInv, TablesInv
  <1>3. \A p \in Pairings : pairing[p].state = "none" => pairing'[p].state = "none"
    BY <1>1 DEF Stays, Moves, Claimed, Approved, Redeemed, Closed, Withdraws, Open
  <1>4. RequestsInv'
    BY <1>3, ReleaseKeeps DEF PInv
  <1>5. QED
    BY <1>1, <1>2, <1>4, MovesFetchInTime DEF PInv, Kept

\* The end of a session, by logout or for a reused token.
LEMMA EndFamilyKeeps ==
  ASSUME PairingGrantsAssumption, PInv, NEW x \in Requests, EndFamily(x)
  PROVE  Kept
  <1> DEFINE f == tx[x].f
  <1>1. f \in Families /\ Release(x)
    BY DEF PInv, RequestsInv, RequestSound, EndFamily, Committing
  <1>2. /\ family' \in [Families -> FamilyType] /\ family'[f].status = "ended"
        /\ \A g \in Families : g # f => family'[g] = family[g]
    BY <1>1 DEF EndFamily, PInv, TablesInv, FamilyType
  <1>3. OthersTyped
    BY <1>2 DEF OthersTyped, EndFamily, PInv, TablesInv, SessionsStandForPassword
  <1>4. QED
    BY <1>1, <1>2, <1>3, SessionsEnd DEF EndFamily

\* A password change, which ends every other session.
LEMMA ChangePasswordKeeps ==
  ASSUME PairingGrantsAssumption, PInv, NEW x \in Requests, ChangePassword(x)
  PROVE  Kept
  <1> DEFINE f == tx[x].f
             working == {g \in Others(f) : family[g].status \in {"live", "lapsed"}}
  <1>1. f \in Families /\ Release(x)
    BY DEF PInv, RequestsInv, RequestSound, ChangePassword, Committing
  <1>2. CASE Nothing
    BY <1>1, <1>2, NothingMoves, CommitKeeps DEF Nothing, PInv, TablesInv
  <1>3. CASE ~Nothing
    <2>1. /\ family[f].status \in {"live", "lapsed"} /\ password # MaxPasswords
          /\ password' = password + 1 /\ UNCHANGED due
          /\ family' = [g \in Families |->
                          IF g \in working THEN [family[g] EXCEPT !.status = "ended"]
                          ELSE IF g = f THEN [family[g] EXCEPT !.stands = password + 1]
                          ELSE family[g]]
          /\ pairing' = Moved(ApprovedFrom(Others(f)), "expired")
          /\ grant' = Ended(GrantsFrom(Others(f)), "expired")
          /\ active' = Withdrawn(GrantsFrom(Others(f)))
      BY <1>3 DEF ChangePassword
    <2>2. password' \in 1 .. MaxPasswords /\ password' \in 0 .. MaxPasswords
      <3>1. password \in 1 .. MaxPasswords /\ MaxPasswords \in Nat
        BY DEF PInv, TablesInv, PairingGrantsAssumption
      <3>2. QED
        BY ONLY <2>1, <3>1
    <2>3. \A g \in Families :
            /\ family[g] \in FamilyType
            /\ g \in working => family'[g] = [family[g] EXCEPT !.status = "ended"] /\ g # f
            /\ g = f => family'[g] = [family[g] EXCEPT !.stands = password + 1]
            /\ g # f /\ g \notin working =>
                 family'[g] = family[g] /\ family[g].status \notin {"live", "lapsed"}
      BY <2>1 DEF PInv, TablesInv, Others
    <2>4. \A g \in Families :
            /\ family'[g] \in FamilyType
            /\ family[g].status # "none" => family'[g].status # "none"
            /\ family'[g].status = "ended" => family[g].status = "ended" \/ g \in Others(f)
            /\ family'[g].status \in {"live", "lapsed"} => family'[g].stands = password'
      BY <2>1, <2>2, <2>3 DEF FamilyType, Others
    <2>5. OthersTyped
      BY <2>1, <2>2, <2>4 DEF OthersTyped, PInv, TablesInv, SessionsStandForPassword
    <2>6. QED
      BY <1>1, <2>1, <2>4, <2>5, SessionsEnd DEF Others
  <1>4. QED
    BY <1>2, <1>3

\* A creation, which expires what is overdue first and counts what is left.
LEMMA CreateKeeps ==
  ASSUME PairingGrantsAssumption, PInv, NEW x \in Requests, Create(x)
  PROVE  Kept
  <1> DEFINE p == tx[x].p
             f == tx[x].f
             gone == Overdue(x)
             left == {q \in Pairings \ gone : pairing[q].state \in Open}
             A == {q \in gone : pairing[q].state = "approved"}
  <1>1. /\ p \in Pairings /\ f \in Families /\ Release(x) /\ Creates(x)
        /\ pairing[p].state = "none"
    BY DEF PInv, RequestsInv, RequestSound, Create, Committing, Creates
  <1>2. gone \in SUBSET Pairings /\ (\A q \in gone : pairing[q].state \in Open) /\ p \notin gone
    BY <1>1 DEF Overdue, Open
  <1>3. CASE Nothing
    BY <1>1, <1>3, NothingMoves, CommitKeeps DEF Nothing, PInv, TablesInv
  <1>4. CASE ~Nothing /\ Cardinality(left) >= MaxActive
    <2>1. Expire(gone) /\ UNCHANGED <<family, password, due>>
      BY <1>4 DEF Create, Expire
    <2>2. QED
      BY <1>1, <1>2, <2>1, ExpireCloses, CommitKeeps DEF PInv, TablesInv
  <1>5. CASE ~Nothing /\ ~(Cardinality(left) >= MaxActive)
    <2>1. /\ pairing' = [Moved(gone, "expired") EXCEPT
                           ![p] = [state |-> "created", source |-> f, failures |-> 0]]
          /\ grant' = Ended(A, "expired") /\ active' = Withdrawn(A)
          /\ UNCHANGED <<family, password, due>>
      BY <1>5 DEF Create
    <2>2. /\ Shaped /\ pairing'[p] = [state |-> "created", source |-> f, failures |-> 0]
          /\ \A q \in Pairings \ {p} :
               pairing'[q] = IF q \in gone THEN [pairing[q] EXCEPT !.state = "expired"] ELSE pairing[q]
      BY <1>1, <2>1 DEF Shaped, Moved, Ended, Withdrawn
    <2>3. Opens(p)
      BY <1>1, <1>2, <2>1, <2>2 DEF Opens, Ended, Withdrawn, KeepsGrant
    <2>4. ASSUME NEW q \in gone PROVE Moves(q)
      BY <1>2, <2>1, <2>2, <2>4 DEF Moves, Closed, Ended, Withdrawn, EndsGrant, KeepsGrant, Over_
    <2>5. ASSUME NEW q \in Pairings \ (gone \cup {p}) PROVE Stays(q)
      BY <2>1, <2>2, <2>5 DEF Stays, Ended, Withdrawn, KeepsGrant
    <2>6. \A q \in Pairings : /\ Stays(q) \/ Opens(q) \/ Moves(q)
                              /\ q = p \/ Stays(q) \/ Moves(q)
      BY <2>3, <2>4, <2>5
    <2>7. QuotaKept'
      <3>1. IsFiniteSet(left) /\ Cardinality(left) \in Nat /\ p \notin left
        BY <1>1, FS_Subset, FS_CardinalityType DEF PairingGrantsAssumption, Open
      <3>2. Cardinality(left \cup {p}) <= MaxActive
        <4>1. Cardinality(left \cup {p}) = Cardinality(left) + 1
          BY <3>1, FS_AddElement
        <4>2. MaxActive \in Nat /\ ~(Cardinality(left) >= MaxActive)
          BY <1>5 DEF PairingGrantsAssumption
        <4>3. QED
          BY ONLY <3>1, <4>1, <4>2
      <3>3. OpenPairings' \subseteq left \cup {p}
        <4>1. ASSUME NEW q \in Pairings \ {p}, pairing'[q].state \in Open PROVE q \in left
          <5>1. q \notin gone
            BY <2>2, <4>1, Typed DEF PairingType, Open
          <5>2. QED
            BY <2>2, <4>1, <5>1
        <4>2. QED
          BY <4>1 DEF OpenPairings
      <3>4. QED
        BY <1>1, <3>2, <3>3, OpenOnlyFalls
    <2>8. TablesInv'
      <3>1. OthersTyped /\ \A q \in Pairings : FamiliesMove(q)
        BY <2>1 DEF OthersTyped, FamiliesMove, PInv, TablesInv, SessionsStandForPassword
      <3>2. QED
        BY <2>2, <2>6, <2>7, <3>1, TablesFollow DEF PInv
    <2>9. RequestsInv'
      <3>1. \A q \in Pairings : q # p /\ pairing[q].state = "none" => pairing'[q].state = "none"
        BY <2>6 DEF Stays, Moves, Claimed, Approved, Redeemed, Closed, Withdraws, Open
      <3>2. QED
        BY <1>1, <3>1, ReleaseKeeps DEF PInv
    <2>10. QED
      BY <2>6, <2>8, <2>9, MovesFetchInTime DEF PInv, Kept
  <1>6. QED
    BY <1>3, <1>4, <1>5

(***************************************************************************)
(* The other steps                                                         *)
(***************************************************************************)

\* A step that changes no table.
LEMMA TablesStay ==
  ASSUME PairingGrantsAssumption, PInv, UNCHANGED tables
  PROVE  TablesInv' /\ FetchedBeforeTheEnd
  <1>1. TablesInv'
    BY DEF tables, PInv, TablesInv, PairingSound, FreeOf, Usable, SessionsStandForPassword, QuotaKept
  <1>2. FetchedBeforeTheEnd
    BY DEF tables, FetchedBeforeTheEnd
  <1>3. QED
    BY <1>1, <1>2

\* A request begins, with what it is given and what it reads.
LEMMA BeginKeeps ==
  ASSUME PairingGrantsAssumption, PInv, NEW x \in Requests, NEW t, Begin(x, t),
         t.kind \in Kinds, t.f \in Families \cup {NoFamily}, t.p \in Pairings \cup {0},
         t.lifetime \in {"session", "persistent"}, t.link \subseteq Families,
         t.kind \notin {"end", "password", "login"} => t.p \in Pairings,
         t.kind \in {"create", "approve", "deny", "end", "password", "login"} => t.f \in Families,
         t.kind = "create" => Fresh(t.p)
  PROVE  Kept
  <1> DEFINE r == [kind |-> t.kind, f |-> t.f, p |-> t.p, lifetime |-> t.lifetime,
                   link |-> t.link, late |-> {p \in Pairings : due[p]},
                   lapsed |-> {f \in Families : family[f].status = "lapsed"},
                   hash |-> IF t.kind \in {"login", "password"} THEN password ELSE 1]
  <1>1. r \in Transaction
    <2>1. (IF t.kind \in {"login", "password"} THEN password ELSE 1) \in 1 .. MaxPasswords
      BY DEF PInv, TablesInv, PairingGrantsAssumption
    <2>2. QED
      BY <2>1 DEF Transaction
  <1>2. tx' = [tx EXCEPT ![x] = r] /\ UNCHANGED <<tables, lock>> /\ ~Busy(x)
    BY DEF Begin
  <1>3. r.kind = t.kind /\ r.f = t.f /\ r.p = t.p
    OBVIOUS
  <1> HIDE DEF r
  <1>4. /\ tx' \in [Requests -> Transaction \cup {Idle}] /\ tx'[x] = r
        /\ \A y \in Requests : y # x => tx'[y] = tx[y]
    BY <1>1, <1>2 DEF PInv, RequestsInv
  <1>5. ASSUME NEW y \in Requests PROVE RequestSound(y)'
    <2>1. CASE y = x
      <3>1. t.kind = "create" => pairing'[t.p].state = "none" /\
              \A z \in Requests : Creates(z)' /\ tx'[z].p = t.p => z = x
        BY <1>2, <1>4 DEF tables, Fresh, Creates, Busy
      <3>2. QED
        BY <1>3, <1>4, <2>1, <3>1 DEF RequestSound, Creates
    <2>2. CASE y # x
      <3>1. tx'[y] = tx[y] /\ pairing' = pairing /\ RequestSound(y)
        BY <1>2, <1>4, <2>2 DEF tables, PInv, RequestsInv
      <3>2. Creates(y) /\ t.kind = "create" => tx[y].p # t.p
        BY DEF Fresh, Creates
      <3>3. \A z \in Requests : Creates(y) /\ Creates(z)' /\ tx'[z].p = tx[y].p => y = z
        BY <1>3, <1>4, <3>1, <3>2 DEF RequestSound, Creates, Busy
      <3>4. QED
        BY <3>1, <3>3 DEF RequestSound, Creates, Busy
    <2>3. QED
      BY <2>1, <2>2
  <1>6. RequestsInv'
    BY <1>2, <1>4, <1>5 DEF PInv, RequestsInv
  <1>7. QED
    BY <1>2, <1>6, TablesStay DEF PInv, Kept

\* What a request reads of the families it will look up are families.
LEMMA LinksAreFamilies ==
  ASSUME PInv, NEW p \in Pairings
  PROVE  Linked(p) \subseteq Families /\ Sources(p) \subseteq Families
  BY Typed DEF Linked, Sources, PairingType, GrantType

\* Whoever begins, gives what its kind needs.
LEMMA BeginsKeep ==
  ASSUME PairingGrantsAssumption, PInv, NEW x \in Requests,
         BeginOwner(x) \/ BeginTool(x) \/ BeginSession(x) \/ BeginRetention(x)
  PROVE  Kept
  <1>1. ASSUME NEW kind \in Kinds \ {"create", "approve", "deny", "end", "password", "login"},
               NEW f \in Families \cup {NoFamily}, NEW p \in Pairings, NEW link \in SUBSET Families,
               Begin(x, Plain(kind, f, p, link))
        PROVE  Kept
    BY <1>1, BeginKeeps DEF Plain
  <1>2. ASSUME NEW f \in Families, NEW p \in Pairings, Fresh(p), Begin(x, Plain("create", f, p, {}))
        PROVE  Kept
    BY <1>2, BeginKeeps DEF Plain, Kinds
  <1>3. ASSUME NEW f \in Families, NEW p \in Pairings, NEW l \in {"session", "persistent"},
               \/ Begin(x, Plain("deny", f, p, {}))
               \/ Begin(x, [Plain("approve", f, p, {}) EXCEPT !.lifetime = l])
        PROVE  Kept
    BY <1>3, BeginKeeps DEF Plain, Kinds
  <1>4. ASSUME NEW f \in Families, NEW kind \in {"end", "password", "login"},
               Begin(x, Plain(kind, f, 0, {}))
        PROVE  Kept
    BY <1>4, BeginKeeps DEF Plain, Kinds
  <1>5. CASE BeginOwner(x)
    <2>1. ASSUME NEW f \in Families, NEW p \in Pairings, NEW kind \in {"revoke", "rotate"},
                 Begin(x, Plain(kind, f, p, Sources(p) \cup (IF pairing[p].state = "approved"
                                                             THEN Linked(p) ELSE {})))
          PROVE  Kept
      BY <1>1, <2>1, LinksAreFamilies DEF Kinds
    <2>2. ASSUME NEW f \in Families, NEW p \in Pairings, NEW kind \in {"status", "cancel"},
                 Begin(x, Plain(kind, f, p, Linked(p)))
          PROVE  Kept
      BY <1>1, <2>2, LinksAreFamilies DEF Kinds
    <2>3. QED
      BY <1>2, <1>3, <1>5, <2>1, <2>2 DEF BeginOwner
  <1>6. CASE BeginTool(x)
    <2>1. ASSUME NEW p \in Pairings, NEW kind \in {"poll", "redeem"},
                 Begin(x, Plain(kind, NoFamily, p, Linked(p)))
          PROVE  Kept
      BY <1>1, <2>1, LinksAreFamilies DEF Kinds
    <2>2. ASSUME NEW p \in Pairings, NEW kind \in {"claim", "resolve"},
                 Begin(x, Plain(kind, NoFamily, p, {}))
          PROVE  Kept
      BY <1>1, <2>2 DEF Kinds
    <2>3. QED
      BY <1>6, <2>1, <2>2 DEF BeginTool
  <1>7. CASE BeginSession(x)
    BY <1>4, <1>7 DEF BeginSession
  <1>8. CASE BeginRetention(x)
    BY <1>1, <1>8, LinksAreFamilies DEF BeginRetention, Kinds
  <1>9. QED
    BY <1>5, <1>6, <1>7, <1>8

\* A lock is taken, and a transaction is rolled back.
LEMMA LocksKeep ==
  ASSUME PairingGrantsAssumption, PInv, NEW x \in Requests, Lock(x) \/ RollBack(x)
  PROVE  Kept
  <1>1. CASE Lock(x)
    <2>1. lock' \in [Rows -> Requests \cup {Idle}] /\ UNCHANGED <<tables, tx>>
      BY <1>1 DEF Lock, PInv, RequestsInv
    <2>2. RequestsInv'
      BY <2>1 DEF tables, PInv, RequestsInv, RequestSound, Creates, Busy
    <2>3. QED
      BY <2>1, <2>2, TablesStay DEF PInv, Kept
  <1>2. CASE RollBack(x)
    BY <1>2, ReleaseKeeps, TablesStay DEF RollBack, tables, PInv, Kept
  <1>3. QED
    BY <1>1, <1>2

\* Time passes: a session lapses, a deadline falls.
LEMMA TimeKeeps ==
  ASSUME PairingGrantsAssumption, PInv,
         (\E f \in Families : Lapse(f)) \/ (\E p \in Pairings : Fall(p))
  PROVE  Kept
  <1>1. ASSUME NEW f \in Families, Lapse(f) PROVE Kept
    <2>1. /\ family' \in [Families -> FamilyType] /\ family[f].status = "live"
          /\ family'[f].status = "lapsed" /\ family'[f].stands = family[f].stands
          /\ \A g \in Families : g # f => family'[g] = family[g]
          /\ UNCHANGED <<password, pairing, grant, active, due, tx, lock>>
      BY <1>1 DEF Lapse, PInv, TablesInv, FamilyType
    <2>2. OthersTyped /\ Shaped /\ \A p \in Pairings : FamiliesMove(p) /\ Stays(p)
      BY <2>1, NothingMoves DEF OthersTyped, PInv, TablesInv, SessionsStandForPassword, FamiliesMove,
                                Stays, KeepsGrant
    <2>3. TablesInv'
      BY <2>2, MovesKeepQuota, TablesFollow DEF PInv, TablesInv
    <2>4. RequestsInv'
      BY <2>1 DEF PInv, RequestsInv, RequestSound, Creates, Busy
    <2>5. QED
      BY <2>2, <2>3, <2>4, MovesFetchInTime DEF PInv, Kept
  <1>2. ASSUME NEW p \in Pairings, Fall(p) PROVE Kept
    <2>1. /\ due' \in [Pairings -> BOOLEAN]
          /\ UNCHANGED <<family, password, pairing, grant, active, tx, lock>>
      BY <1>2 DEF Fall, PInv, TablesInv
    <2>2. TablesInv' /\ FetchedBeforeTheEnd
      BY <2>1, NothingMoves, SessionsAside, MovesFetchInTime DEF PInv
    <2>3. RequestsInv'
      BY <2>1 DEF PInv, RequestsInv, RequestSound, Creates, Busy
    <2>4. QED
      BY <2>2, <2>3 DEF PInv, Kept
  <1>3. QED
    BY <1>1, <1>2

\* Every step keeps the invariant and hands out credentials in time.
LEMMA NextKeeps ==
  ASSUME PairingGrantsAssumption
  PROVE  PInv /\ [Next]_vars => PInv' /\ (FetchedBeforeTheEnd \/ UNCHANGED vars)
  <1> SUFFICES ASSUME PInv, [Next]_vars PROVE Kept \/ (PInv' /\ UNCHANGED vars)
    BY DEF Kept
  <1>1. ASSUME NEW x \in Requests,
               \/ BeginOwner(x) \/ BeginTool(x) \/ BeginSession(x) \/ BeginRetention(x)
               \/ Lock(x) \/ RollBack(x)
               \/ Create(x) \/ Claim(x) \/ Decide(x) \/ Look(x) \/ Redeem(x) \/ Cancel(x)
               \/ EndFamily(x) \/ ChangePassword(x) \/ Login(x)
               \/ Revoke(x) \/ Rotate(x) \/ Resolve(x) \/ Retain(x)
        PROVE  Kept
    BY <1>1, BeginsKeep, LocksKeep, CreateKeeps, ClaimKeeps, DecideKeeps, LookKeeps, RedeemKeeps,
       CancelKeeps, EndFamilyKeeps, ChangePasswordKeeps, LoginKeeps, RevokeKeeps, UseKeeps, RetainKeeps
  <1>2. CASE UNCHANGED vars
    <2>1. UNCHANGED tables /\ UNCHANGED <<tx, lock>>
      BY <1>2 DEF vars, tables
    <2>2. RequestsInv'
      BY <2>1 DEF tables, PInv, RequestsInv, RequestSound, Creates, Busy
    <2>3. QED
      BY <1>2, <2>1, <2>2, TablesStay DEF PInv
  <1>3. QED
    BY <1>1, <1>2, TimeKeeps DEF Next

\* The first session is open, and nothing was granted.
LEMMA InitPInv == ASSUME PairingGrantsAssumption PROVE Init => PInv
  <1> SUFFICES ASSUME Init PROVE PInv
    OBVIOUS
  <1>1. family \in [Families -> FamilyType] /\ SessionsStandForPassword
    BY DEF Init, FamilyType, SessionsStandForPassword, PairingGrantsAssumption
  <1>2. QuotaKept
    <2>1. {p \in Pairings : pairing[p].state \in Open} = {}
      BY DEF Init, Open
    <2>2. QED
      <3>1. Cardinality({p \in Pairings : pairing[p].state \in Open}) = 0
        BY <2>1, FS_EmptySet
      <3>2. QED
        BY <3>1 DEF QuotaKept, PairingGrantsAssumption
  <1>3. \A p \in Pairings : PairingSound(p)
    BY DEF Init, PairingSound, PairingType, GrantType, NoGrant, NoFamily, FreeOf, Usable,
           PairingGrantsAssumption
  <1>4. TablesInv
    BY <1>1, <1>2, <1>3 DEF Init, TablesInv, PairingType, GrantType, NoGrant, NoFamily,
                            PairingGrantsAssumption
  <1>5. RequestsInv
    BY DEF Init, RequestsInv, RequestSound, Busy
  <1>6. QED
    BY <1>4, <1>5 DEF PInv

\* A pairing has at most one working credential, which ends with the session it was
\* approved from and with a password change, and no user has more pairings open than the
\* quota, for any number of requests that look, lock and decide at a time
\* (pairing and grant services).
THEOREM CredentialsAlwaysEnd ==
  ASSUME PairingGrantsAssumption
  PROVE  Spec => CredentialsEnd
  <1>1. Init => PInv
    BY InitPInv
  <1>2. PInv /\ [Next]_vars => PInv' /\ [FetchedBeforeTheEnd]_vars
    BY NextKeeps
  <1>3. PInv => /\ TypeOK /\ PendingIsApproved /\ OneCredential
                /\ NothingOutlivesFamily /\ SessionsStandForPassword /\ QuotaKept
    BY PInvPromises
  <1>4. QED
    BY <1>1, <1>2, <1>3, PTL DEF Spec, CredentialsEnd

(***************************************************************************)
(* The agent's side: the lease of a profile                                *)
(*                                                                         *)
(* A session, its proof and its lease go together, and only a status call  *)
(* about it, its end and its process's end take them apart: a proof that    *)
(* was overwritten belongs to a pairing that is over, was reported or lost  *)
(* its process, so that no credential is given out for it in silence.  A    *)
(* status call is about the pairing its process shows, unless the process   *)
(* went astray; so two calls that write the store have the same lease.      *)
(***************************************************************************)

CallType ==
  [pc : {"idle", "acquire", "claim", "ask", "got", "redeem", "save", "check", "probe"},
   pairing : Codes \cup {None},
   seen : ServerStates \cup {"none", "invalid", "error"},
   again : BOOLEAN, uses : 0 .. MaxUses]

\* A pairing whose proof was overwritten is over, was reported, or lost its
\* process; one that a process made is shown by it until then.
CodeSound(x) ==
  /\ madeBy[x] = None => x \notin wiped /\ server[x] # "redeemed"
  /\ madeBy[x] # None => server[x] # "free"
  /\ madeBy[x] # None => session[madeBy[x]] = x \/ x \in wiped \/ madeBy[x] \in ended
  /\ x \in wiped => told[x] # {} \/ madeBy[x] \in ended \/ server[x] = "ended"

ProcessSound(p) ==
  session[p] # None =>
    holder = session[p] /\ session[p] \notin wiped /\ madeBy[session[p]] = p

\* A status call is about a pairing of its process, which is shown and which no
\* other call is about, unless the process went astray.
CallSound(c) ==
  /\ At(c, "claim") <=> holder = c
  /\ call[c].pc \in {"idle", "acquire", "claim"} <=> call[c].pairing = None
  /\ call[c].pairing # None =>
       /\ madeBy[call[c].pairing] = ProcessOf[c]
       /\ At(c, "got") /\ call[c].seen = "invalid" => call[c].pairing \in wiped
       /\ At(c, "got") /\ call[c].seen = "ended" => server[call[c].pairing] = "ended"
       /\ At(c, "probe") /\ astray = {} => store = call[c].pairing
       /\ ProcessOf[c] \notin astray =>
            /\ session[ProcessOf[c]] = call[c].pairing
            /\ \A d \in Calls : ProcessOf[d] = ProcessOf[c] /\ call[d].pairing # None => d = c

HolderSound ==
  holder \in Codes => madeBy[holder] # None /\ session[madeBy[holder]] = holder

LeaseInv ==
  /\ OwnerTypeOK
  /\ \A x \in Codes : CodeSound(x)
  /\ \A p \in Processes : ProcessSound(p)
  /\ \A c \in Calls : CallSound(c)
  /\ HolderSound

-----------------------------------------------------------------------------
(* What the calls' records become                                            *)

LEMMA DoneKeeps ==
  ASSUME PairingOwnerAssumption, NEW c \in Calls, call \in [Calls -> CallType], call' = Done(c)
  PROVE  /\ call' \in [Calls -> CallType]
         /\ call'[c].pc = "idle" /\ call'[c].pairing = None
         /\ \A d \in Calls \ {c} : call'[d] = call[d]
  BY DEF Done, Resting, CallType, PairingOwnerAssumption

LEMMA GotoKeeps ==
  ASSUME NEW c \in Calls, call \in [Calls -> CallType],
         NEW pc \in {"idle", "acquire", "claim", "ask", "got", "redeem", "save", "check", "probe"},
         call' = Goto(c, pc)
  PROVE  /\ call' \in [Calls -> CallType]
         /\ call'[c].pc = pc /\ call'[c].pairing = call[c].pairing /\ call'[c].seen = call[c].seen
         /\ \A d \in Calls \ {c} : call'[d] = call[d]
  BY DEF Goto, CallType

LEMMA AskAgainKeeps ==
  ASSUME NEW c \in Calls, call \in [Calls -> CallType], call' = AskAgain(c)
  PROVE  /\ call' \in [Calls -> CallType]
         /\ call'[c].pc = "ask" /\ call'[c].pairing = call[c].pairing
         /\ \A d \in Calls \ {c} : call'[d] = call[d]
  BY DEF AskAgain, CallType

LEMMA AskingKeeps ==
  ASSUME NEW c \in Calls, call \in [Calls -> CallType], NEW x \in Codes, call' = Asking(c, x)
  PROVE  /\ call' \in [Calls -> CallType]
         /\ call'[c].pc = "ask" /\ call'[c].pairing = x
         /\ \A d \in Calls \ {c} : call'[d] = call[d]
  <1>1. [call[c] EXCEPT !.pc = "ask", !.pairing = x] \in CallType
    BY DEF CallType
  <1>2. QED
    BY <1>1 DEF Asking, CallType

-----------------------------------------------------------------------------
(* Steps that leave session, proofs and lease as they are                    *)

Owned == <<session, wiped, holder, madeBy, ended, astray>>

ServerGoesOn ==
  \A x \in Codes :
    \/ server'[x] = server[x]
    \/ server[x] \in {"pending", "approved"} /\ server'[x] \in {"approved", "ended"}
    \/ server'[x] = "redeemed" /\ server[x] = "approved" /\ madeBy[x] # None

\* A call stays, ends, is refused the lease or goes on about its pairing.
CallGoesOn(c) ==
  \/ call'[c] = call[c]
  \/ ~At(c, "claim") /\ call'[c].pc = "idle" /\ call'[c].pairing = None
  \/ At(c, "idle") /\ call'[c].pc = "acquire" /\ call'[c].pairing = None
  \/ /\ call[c].pairing # None /\ call'[c].pairing = call[c].pairing
     /\ call'[c].pc \notin {"idle", "acquire", "claim"}
     /\ call'[c].pc = "got" =>
          /\ call'[c].seen = "invalid" => call[c].pairing \in wiped
          /\ call'[c].seen = "ended" => server[call[c].pairing] = "ended"
     /\ call'[c].pc = "probe" => store' = call[c].pairing

StoreGoesOn == store' = store \/ \E c \in Calls : At(c, "save") /\ store' = call[c].pairing

LEMMA QuietKeeps ==
  ASSUME PairingOwnerAssumption, LeaseInv, OwnerTypeOK', UNCHANGED Owned, ServerGoesOn,
         \A x \in Codes : told[x] \subseteq told'[x], StoreGoesOn,
         \A c \in Calls : CallGoesOn(c)
  PROVE  LeaseInv'
  <1>1. \A x \in Codes : CodeSound(x)'
    BY DEF LeaseInv, CodeSound, Owned, ServerGoesOn
  <1>2. \A p \in Processes : ProcessSound(p)'
    BY DEF LeaseInv, ProcessSound, Owned
  <1>3. HolderSound'
    BY DEF LeaseInv, HolderSound, Owned
  <1>4. ASSUME NEW c \in Calls PROVE CallSound(c)'
    <2>1. CallSound(c) /\ CallGoesOn(c)
      BY DEF LeaseInv
    <2>2. At(c, "claim")' <=> holder' = c
      BY <2>1 DEF CallSound, CallGoesOn, At, Owned
    <2>3. call'[c].pc \in {"idle", "acquire", "claim"} <=> call'[c].pairing = None
      BY <2>1 DEF CallSound, CallGoesOn, At
    <2>4. ASSUME call'[c].pairing # None
          PROVE  call'[c].pairing = call[c].pairing /\ call[c].pairing \in Codes
      BY <2>1, <2>4 DEF CallGoesOn, LeaseInv, OwnerTypeOK
    <2>5. ASSUME call'[c].pairing # None PROVE madeBy'[call'[c].pairing] = ProcessOf[c]
      BY <2>1, <2>4, <2>5 DEF CallSound, Owned
    <2>6. ASSUME call'[c].pairing # None, At(c, "got")'
          PROVE  /\ call'[c].seen = "invalid" => call'[c].pairing \in wiped'
                 /\ call'[c].seen = "ended" => server'[call'[c].pairing] = "ended"
      BY <2>1, <2>4, <2>6 DEF CallSound, CallGoesOn, At, Owned, ServerGoesOn
    <2>7. ASSUME call'[c].pairing # None, At(c, "probe")', astray' = {}
          PROVE  store' = call'[c].pairing
      <3>1. CASE store' = store
        BY <2>1, <2>4, <2>7, <3>1 DEF CallSound, CallGoesOn, At, Owned
      <3>2. CASE store' # store
        <4>1. PICK d \in Calls : At(d, "save") /\ store' = call[d].pairing
          BY <3>2 DEF StoreGoesOn
        <4>2. call[d].pairing # None /\ call[c].pairing # None /\ astray = {}
          BY <2>4, <2>7, <4>1 DEF CallSound, LeaseInv, At, Owned
        <4>3. /\ session[ProcessOf[d]] = call[d].pairing /\ ProcessOf[d] \in Processes
              /\ session[ProcessOf[c]] = call[c].pairing /\ ProcessOf[c] \in Processes
          BY <4>2 DEF CallSound, LeaseInv, PairingOwnerAssumption
        <4>4. holder = call[d].pairing /\ holder = call[c].pairing
          BY <4>2, <4>3 DEF ProcessSound, LeaseInv
        <4>5. QED
          BY <2>4, <2>7, <4>1, <4>4
      <3>3. QED
        BY <3>1, <3>2
    <2>8. ASSUME call'[c].pairing # None, ProcessOf[c] \notin astray'
          PROVE  /\ session'[ProcessOf[c]] = call'[c].pairing
                 /\ \A d \in Calls : ProcessOf[d] = ProcessOf[c] /\ call'[d].pairing # None => d = c
      BY <2>1, <2>4, <2>8 DEF CallSound, CallGoesOn, Owned
    <2>9. QED
      BY <2>2, <2>3, <2>5, <2>6, <2>7, <2>8 DEF CallSound
  <1>5. QED
    BY <1>1, <1>2, <1>3, <1>4 DEF LeaseInv

-----------------------------------------------------------------------------
(* The end of a session, by a status call, by closing and by death           *)

LEMMA TeardownKeeps ==
  ASSUME PairingOwnerAssumption, LeaseInv, NEW c \in Calls, call[c].pairing # None,
         Teardown(c), call' = Done(c), UNCHANGED <<server, attempts, store, madeBy, ended, astray>>,
         told' \in [Codes -> SUBSET {"redeemed", "unrecoverable"}],
         \A x \in Codes : told[x] \subseteq told'[x],
         \/ call[c].pairing \in wiped \/ server[call[c].pairing] = "ended"
         \/ told'[call[c].pairing] # {}
  PROVE  LeaseInv'
  <1> DEFINE x == call[c].pairing
             p == ProcessOf[c]
  <1>1. /\ x \in Codes /\ p \in Processes /\ madeBy[x] = p /\ None \notin Processes
        /\ session \in [Processes -> Codes \cup {None}] /\ ~At(c, "claim")
    BY DEF LeaseInv, OwnerTypeOK, CallSound, PairingOwnerAssumption, At
  <1>2. /\ session'[p] = IF session[p] = x THEN None ELSE session[p]
        /\ \A q \in Processes : q # p => session'[q] = session[q]
        /\ session' \in [Processes -> Codes \cup {None}]
    BY <1>1 DEF Teardown
  <1>3. wiped' = wiped \cup {x} /\ holder' = IF holder = x THEN None ELSE holder
    BY DEF Teardown
  <1>4. /\ call' \in [Calls -> CallType]
        /\ call'[c].pc = "idle" /\ call'[c].pairing = None
        /\ \A d \in Calls \ {c} : call'[d] = call[d]
    BY DoneKeeps DEF LeaseInv, OwnerTypeOK, CallType
  <1> HIDE DEF x, p
  <1>5. OwnerTypeOK'
    BY <1>1, <1>2, <1>3, <1>4 DEF LeaseInv, OwnerTypeOK, CallType
  <1>6. holder = x => session[p] = x
    BY <1>1 DEF LeaseInv, HolderSound
  <1>7. \A q \in Processes : session[q] = x => q = p
    BY <1>1 DEF LeaseInv, ProcessSound, PairingOwnerAssumption
  <1>8. ASSUME NEW y \in Codes PROVE CodeSound(y)'
    <2>1. CASE y = x
      BY <1>1, <1>3, <2>1 DEF LeaseInv, CodeSound, x
    <2>2. CASE y # x
      BY <1>1, <1>2, <1>3, <2>2 DEF LeaseInv, CodeSound, OwnerTypeOK
    <2>3. QED
      BY <2>1, <2>2
  <1>9. ASSUME NEW q \in Processes PROVE ProcessSound(q)'
    BY <1>1, <1>2, <1>3, <1>7 DEF LeaseInv, ProcessSound
  <1>10. HolderSound'
    BY <1>1, <1>2, <1>3, <1>6 DEF LeaseInv, HolderSound, OwnerTypeOK, PairingOwnerAssumption
  <1>11. ASSUME NEW d \in Calls PROVE CallSound(d)'
    <2>1. CASE d = c
      BY <1>1, <1>3, <1>4, <2>1 DEF LeaseInv, CallSound, At, PairingOwnerAssumption
    <2>2. CASE d # c
      <3>1. CallSound(d) /\ call'[d] = call[d] /\ (holder' = d <=> holder = d)
        BY <1>1, <1>3, <1>4, <2>2 DEF LeaseInv, PairingOwnerAssumption
      <3>2. ASSUME call[d].pairing # None, ProcessOf[d] \notin astray
            PROVE  session'[ProcessOf[d]] = session[ProcessOf[d]]
        <4>1. ProcessOf[d] # p
          BY <2>2, <3>1, <3>2 DEF CallSound, p
        <4>2. QED
          BY <1>2, <4>1 DEF PairingOwnerAssumption
      <3>3. \A e \in Calls : call'[e].pairing # None => call[e].pairing # None
        BY <1>4
      <3>4. QED
        BY <1>3, <3>1, <3>2, <3>3 DEF CallSound, At
    <2>3. QED
      BY <2>1, <2>2
  <1>12. QED
    BY <1>5, <1>8, <1>9, <1>10, <1>11 DEF LeaseInv

LEMMA CloseKeeps ==
  ASSUME PairingOwnerAssumption, LeaseInv, NEW p \in Processes, Close(p)
  PROVE  LeaseInv'
  <1>1. /\ session' = [session EXCEPT ![p] = None]
        /\ holder' = IF holder = session[p] THEN None ELSE holder
        /\ wiped' = wiped \cup ({session[p]} \ {None})
        /\ ended' = ended \cup {p} /\ astray' = astray \cup ({p} \cap Polling)
        /\ UNCHANGED <<server, attempts, store, call, told, madeBy>>
    BY DEF Close
  <1>2. /\ session \in [Processes -> Codes \cup {None}] /\ session'[p] = None
        /\ \A q \in Processes : q # p => session'[q] = session[q]
    BY <1>1 DEF LeaseInv, OwnerTypeOK
  <1>3. OwnerTypeOK'
    BY <1>1 DEF LeaseInv, OwnerTypeOK
  <1>4. session[p] # None => madeBy[session[p]] = p /\ holder = session[p]
    BY DEF LeaseInv, ProcessSound
  <1>5. ASSUME NEW y \in Codes PROVE CodeSound(y)'
    BY <1>1, <1>2, <1>4 DEF LeaseInv, CodeSound, OwnerTypeOK, PairingOwnerAssumption
  <1>6. ASSUME NEW q \in Processes PROVE ProcessSound(q)'
    BY <1>1, <1>2, <1>4 DEF LeaseInv, ProcessSound, OwnerTypeOK
  <1>7. HolderSound'
    BY <1>1, <1>2, <1>4 DEF LeaseInv, HolderSound, OwnerTypeOK, PairingOwnerAssumption
  <1>8. ASSUME NEW d \in Calls PROVE CallSound(d)'
    <2>1. CallSound(d) /\ call' = call
      BY <1>1 DEF LeaseInv
    <2>2. holder' = d <=> holder = d
      BY <1>1, <1>2 DEF PairingOwnerAssumption
    <2>3. ASSUME call[d].pairing # None, ProcessOf[d] \notin astray'
          PROVE  session'[ProcessOf[d]] = session[ProcessOf[d]] /\ ProcessOf[d] \notin astray
      BY <1>1, <1>2, <2>3 DEF Polling, PairingOwnerAssumption
    <2>4. astray' = {} => astray = {}
      BY <1>1
    <2>5. QED
      BY <1>1, <2>1, <2>2, <2>3, <2>4 DEF CallSound, At
  <1>9. QED
    BY <1>3, <1>5, <1>6, <1>7, <1>8 DEF LeaseInv

LEMMA ExitKeeps ==
  ASSUME PairingOwnerAssumption, LeaseInv, NEW p \in Processes, Exit(p)
  PROVE  LeaseInv'
  <1> DEFINE its == {c \in Calls : ProcessOf[c] = p}
             held == its \cup {x \in Codes : madeBy[x] = p}
  <1>1. /\ session' = [session EXCEPT ![p] = None]
        /\ holder' = IF holder \in held THEN None ELSE holder
        /\ call' = [c \in Calls |-> IF c \in its THEN Resting(call[c].uses) ELSE call[c]]
        /\ ended' = ended \cup {p}
        /\ UNCHANGED <<server, attempts, wiped, store, told, madeBy, astray>>
    BY DEF Exit
  <1>2. /\ session \in [Processes -> Codes \cup {None}] /\ session'[p] = None
        /\ \A q \in Processes : q # p => session'[q] = session[q]
    BY <1>1 DEF LeaseInv, OwnerTypeOK
  <1>3. /\ call' \in [Calls -> CallType]
        /\ \A c \in Calls : IF c \in its THEN call'[c].pc = "idle" /\ call'[c].pairing = None
                            ELSE call'[c] = call[c]
    BY <1>1 DEF LeaseInv, OwnerTypeOK, CallType, Resting
  <1>4. OwnerTypeOK'
    BY <1>1, <1>3 DEF LeaseInv, OwnerTypeOK, CallType
  <1>5. ASSUME NEW y \in Codes PROVE CodeSound(y)'
    BY <1>1, <1>2 DEF LeaseInv, CodeSound, OwnerTypeOK, PairingOwnerAssumption
  <1>6. ASSUME NEW q \in Processes PROVE ProcessSound(q)'
    <2>1. CASE q = p
      BY <1>2, <2>1 DEF ProcessSound
    <2>2. ASSUME q # p, session[q] # None PROVE holder \notin held
      BY <2>2 DEF LeaseInv, ProcessSound, OwnerTypeOK, PairingOwnerAssumption
    <2>3. QED
      BY <1>1, <1>2, <2>1, <2>2 DEF LeaseInv, ProcessSound
  <1>7. HolderSound'
    BY <1>1, <1>2 DEF LeaseInv, HolderSound, OwnerTypeOK, PairingOwnerAssumption
  <1>8. ASSUME NEW d \in Calls PROVE CallSound(d)'
    <2>1. CallSound(d)
      BY DEF LeaseInv
    <2>2. CASE d \in its
      BY <1>1, <1>3, <2>2 DEF CallSound, At, PairingOwnerAssumption
    <2>3. CASE d \notin its
      <3>1. call'[d] = call[d] /\ ProcessOf[d] # p
        BY <1>3, <2>3
      <3>2. holder' = d <=> holder = d
        BY <1>1, <2>3 DEF PairingOwnerAssumption
      <3>3. \A e \in Calls : call'[e].pairing # None => call[e].pairing # None
        BY <1>3
      <3>4. QED
        BY <1>1, <1>2, <2>1, <3>1, <3>2, <3>3 DEF CallSound, At, PairingOwnerAssumption
    <2>4. QED
      BY <2>2, <2>3
  <1>9. QED
    BY <1>4, <1>5, <1>6, <1>7, <1>8 DEF LeaseInv

-----------------------------------------------------------------------------
(* Steps of a request, and the start of a status call                        *)

\* Nobody has a session while a request has the lease or the lease is free.
LEMMA NoSessionBesides ==
  ASSUME PairingOwnerAssumption, LeaseInv, holder \notin Codes
  PROVE  /\ \A p \in Processes : session[p] = None
         /\ \A c \in Calls : call[c].pairing # None => ProcessOf[c] \in astray
  <1>1. \A p \in Processes : session[p] = None
    BY DEF LeaseInv, ProcessSound, OwnerTypeOK
  <1>2. QED
    BY <1>1 DEF LeaseInv, CallSound, PairingOwnerAssumption

LEMMA RequestAcquireKeeps ==
  ASSUME PairingOwnerAssumption, LeaseInv, NEW c \in Calls, RequestAcquire(c)
  PROVE  LeaseInv'
  <1> USE DEF RequestAcquire
  <1>0. call \in [Calls -> CallType] /\ CallSound(c) /\ c \notin Codes /\ c # None
    BY DEF LeaseInv, OwnerTypeOK, CallType, PairingOwnerAssumption
  <1>1. CASE holder = None
    <2>1. /\ holder' = c /\ call' = Goto(c, "claim")
          /\ UNCHANGED <<server, session, attempts, wiped, store, told, madeBy, ended, astray>>
      BY <1>1
    <2>2. /\ call' \in [Calls -> CallType]
          /\ call'[c].pc = "claim" /\ call'[c].pairing = None
          /\ \A d \in Calls \ {c} : call'[d] = call[d]
      BY <1>0, <2>1, GotoKeeps DEF CallSound, At
    <2>3. OwnerTypeOK'
      BY <2>1, <2>2 DEF LeaseInv, OwnerTypeOK, CallType
    <2>4. \A x \in Codes : CodeSound(x)'
      BY <2>1 DEF LeaseInv, CodeSound
    <2>5. \A p \in Processes : ProcessSound(p)'
      BY <1>0, <1>1, <2>1, NoSessionBesides DEF ProcessSound, PairingOwnerAssumption
    <2>6. HolderSound'
      BY <1>0, <2>1 DEF HolderSound
    <2>7. ASSUME NEW d \in Calls PROVE CallSound(d)'
      <3>1. CallSound(d) /\ (d # c => call'[d] = call[d])
        BY <2>2 DEF LeaseInv
      <3>2. \A e \in Calls : call'[e].pairing = call[e].pairing
        BY <1>0, <2>2 DEF CallSound, At
      <3>3. QED
        BY <1>1, <2>1, <2>2, <3>1, <3>2 DEF CallSound, At, PairingOwnerAssumption
    <2>8. QED
      BY <2>3, <2>4, <2>5, <2>6, <2>7 DEF LeaseInv
  <1>2. CASE holder # None
    <2>1. call' = Done(c)
          /\ UNCHANGED <<server, session, attempts, wiped, holder, store, told, madeBy, ended, astray>>
      BY <1>2
    <2>2. /\ call' \in [Calls -> CallType]
          /\ call'[c].pc = "idle" /\ call'[c].pairing = None
          /\ \A d \in Calls \ {c} : call'[d] = call[d]
      BY <1>0, <2>1, DoneKeeps
    <2>3. OwnerTypeOK'
      BY <2>1, <2>2 DEF LeaseInv, OwnerTypeOK, CallType
    <2>4. \A d \in Calls : CallGoesOn(d)
      BY <2>2 DEF CallGoesOn, At
    <2>5. QED
      BY <2>1, <2>3, <2>4, QuietKeeps DEF Owned, ServerGoesOn, StoreGoesOn
  <1>3. QED
    BY <1>1, <1>2

LEMMA RequestFailsKeeps ==
  ASSUME PairingOwnerAssumption, LeaseInv, NEW c \in Calls, RequestFails(c)
  PROVE  LeaseInv'
  <1>1. /\ At(c, "claim") /\ holder' = None /\ call' = Done(c)
        /\ UNCHANGED <<server, session, attempts, wiped, store, told, madeBy, ended, astray>>
    BY DEF RequestFails
  <1>2. holder = c /\ call[c].pairing = None /\ c \notin Codes /\ c # None /\ None \notin Codes
    BY <1>1 DEF LeaseInv, CallSound, PairingOwnerAssumption, At
  <1>3. /\ call' \in [Calls -> CallType]
        /\ call'[c].pc = "idle" /\ call'[c].pairing = None
        /\ \A d \in Calls \ {c} : call'[d] = call[d]
    BY <1>1, DoneKeeps DEF LeaseInv, OwnerTypeOK, CallType
  <1>4. OwnerTypeOK'
    BY <1>1, <1>3 DEF LeaseInv, OwnerTypeOK, CallType
  <1>5. \A x \in Codes : CodeSound(x)'
    BY <1>1 DEF LeaseInv, CodeSound
  <1>6. \A p \in Processes : ProcessSound(p)'
    BY <1>1, <1>2, NoSessionBesides DEF ProcessSound
  <1>7. HolderSound'
    BY <1>1, <1>2 DEF HolderSound
  <1>8. ASSUME NEW d \in Calls PROVE CallSound(d)'
    <2>1. CallSound(d) /\ \A e \in Calls : call'[e].pairing = call[e].pairing
      BY <1>2, <1>3 DEF LeaseInv
    <2>2. QED
      BY <1>1, <1>2, <1>3, <2>1 DEF CallSound, At, PairingOwnerAssumption
  <1>9. QED
    BY <1>4, <1>5, <1>6, <1>7, <1>8 DEF LeaseInv

LEMMA RequestClaimKeeps ==
  ASSUME PairingOwnerAssumption, LeaseInv, NEW c \in Calls, RequestClaim(c)
  PROVE  LeaseInv'
  <1> DEFINE p == ProcessOf[c]
  <1>1. /\ At(c, "claim") /\ call' = Done(c)
        /\ UNCHANGED <<attempts, wiped, store, told, ended, astray>>
    BY DEF RequestClaim
  <1>2. PICK x \in Codes :
          /\ server[x] = "free" /\ server' = [server EXCEPT ![x] = "pending"]
          /\ \/ /\ holder' = x /\ session' = [session EXCEPT ![p] = x]
                /\ madeBy' = [madeBy EXCEPT ![x] = p]
             \/ holder' = Unknown /\ UNCHANGED <<session, madeBy>>
    BY DEF RequestClaim
  <1>3. /\ holder = c /\ call[c].pairing = None /\ c \notin Codes /\ c # None
        /\ None \notin Codes /\ p \in Processes /\ None \notin Processes /\ None \notin Calls
    BY <1>1 DEF LeaseInv, CallSound, PairingOwnerAssumption, At
  <1> HIDE DEF p
  <1>4. /\ call' \in [Calls -> CallType]
        /\ call'[c].pc = "idle" /\ call'[c].pairing = None
        /\ \A d \in Calls \ {c} : call'[d] = call[d]
    BY <1>1, DoneKeeps DEF LeaseInv, OwnerTypeOK, CallType
  <1>5. madeBy[x] = None /\ x \notin wiped
    BY <1>2 DEF LeaseInv, CodeSound
  <1>6. /\ \A q \in Processes : session[q] = None
        /\ \A d \in Calls : call[d].pairing # None => ProcessOf[d] \in astray
    BY <1>3, NoSessionBesides
  <1>7. /\ server \in [Codes -> ServerStates] /\ session \in [Processes -> Codes \cup {None}]
        /\ madeBy \in [Codes -> Processes \cup {None}]
    BY DEF LeaseInv, OwnerTypeOK
  <1>8. OwnerTypeOK'
    <2>1. /\ server' \in [Codes -> ServerStates] /\ session' \in [Processes -> Codes \cup {None}]
          /\ madeBy' \in [Codes -> Processes \cup {None}] /\ holder' \in Codes \cup {None}
      BY <1>2, <1>3, <1>7 DEF ServerStates, Unknown
    <2>2. QED
      BY <1>1, <1>4, <2>1 DEF LeaseInv, OwnerTypeOK, CallType
  <1>9. /\ server'[x] = "pending" /\ \A y \in Codes : y # x => server'[y] = server[y]
        /\ \A y \in Codes : y # x => madeBy'[y] = madeBy[y]
        /\ \A y \in Codes : madeBy[y] # None => madeBy'[y] = madeBy[y]
    BY <1>2, <1>5, <1>7
  <1>10. \/ /\ holder' = x /\ session'[p] = x /\ madeBy'[x] = p
            /\ \A q \in Processes : q # p => session'[q] = None
         \/ holder' = None /\ session' = session /\ madeBy' = madeBy
    BY <1>2, <1>3, <1>6, <1>7 DEF Unknown
  <1>11. ASSUME NEW y \in Codes PROVE CodeSound(y)'
    <2>1. CASE y = x
      BY <1>1, <1>3, <1>5, <1>9, <1>10, <2>1 DEF CodeSound
    <2>2. CASE y # x
      <3>1. CodeSound(y) /\ (madeBy[y] # None => madeBy[y] \in Processes)
        BY <1>7 DEF LeaseInv
      <3>2. madeBy[y] # None => session[madeBy[y]] # y
        BY <1>6, <1>3, <3>1
      <3>3. QED
        BY <1>1, <1>9, <2>2, <3>1, <3>2 DEF CodeSound
    <2>3. QED
      BY <2>1, <2>2
  <1>12. ASSUME NEW q \in Processes PROVE ProcessSound(q)'
    BY <1>1, <1>3, <1>5, <1>6, <1>10 DEF ProcessSound
  <1>13. HolderSound'
    BY <1>3, <1>10 DEF HolderSound
  <1>14. ASSUME NEW d \in Calls PROVE CallSound(d)'
    <2>1. CallSound(d) /\ \A e \in Calls : call'[e].pairing = call[e].pairing
      BY <1>3, <1>4 DEF LeaseInv
    <2>2. call[d].pairing # None =>
            /\ call[d].pairing \in Codes /\ madeBy[call[d].pairing] # None
            /\ ProcessOf[d] \in astray
      BY <1>3, <1>6, <2>1 DEF CallSound, LeaseInv, OwnerTypeOK, PairingOwnerAssumption
    <2>3. holder' \notin Calls
      BY <1>3, <1>10 DEF PairingOwnerAssumption
    <2>4. call[d].pairing # x
      BY <1>5, <2>2, <1>3
    <2>5. QED
      BY <1>1, <1>3, <1>4, <1>9, <2>1, <2>2, <2>3, <2>4 DEF CallSound, At
  <1>15. QED
    BY <1>8, <1>11, <1>12, <1>13, <1>14 DEF LeaseInv

LEMMA StatusStartKeeps ==
  ASSUME PairingOwnerAssumption, LeaseInv, NEW c \in Calls, StatusStart(c)
  PROVE  LeaseInv'
  <1> DEFINE p == ProcessOf[c]
             x == session[p]
  <1>1. /\ At(c, "idle") /\ x # None /\ call' = Asking(c, x)
        /\ astray' = astray \cup ({p} \cap Polling)
        /\ UNCHANGED <<server, session, attempts, wiped, holder, store, told, madeBy, ended>>
    BY DEF StatusStart, CanStart
  <1>2. p \in Processes /\ x \in Codes /\ call[c].pairing = None /\ holder # c
    BY <1>1 DEF LeaseInv, CallSound, OwnerTypeOK, PairingOwnerAssumption, At
  <1>3. /\ call' \in [Calls -> CallType]
        /\ call'[c].pc = "ask" /\ call'[c].pairing = x
        /\ \A d \in Calls \ {c} : call'[d] = call[d]
    BY <1>1, <1>2, AskingKeeps DEF LeaseInv, OwnerTypeOK, CallType
  <1>4. madeBy[x] = p
    BY <1>1, <1>2 DEF LeaseInv, ProcessSound
  <1> HIDE DEF x, p
  <1>5. OwnerTypeOK'
    BY <1>1, <1>2, <1>3 DEF LeaseInv, OwnerTypeOK, CallType
  <1>6. \A y \in Codes : CodeSound(y)'
    BY <1>1 DEF LeaseInv, CodeSound
  <1>7. \A q \in Processes : ProcessSound(q)'
    BY <1>1 DEF LeaseInv, ProcessSound
  <1>8. HolderSound'
    BY <1>1 DEF LeaseInv, HolderSound
  <1>9. ASSUME NEW d \in Calls PROVE CallSound(d)'
    <2>1. astray' = {} => astray = {}
      BY <1>1
    <2>2. CASE d = c
      <3>1. ASSUME p \notin astray', NEW e \in Calls, ProcessOf[e] = p, call'[e].pairing # None
            PROVE  e = c
        <4>1. ASSUME e # c PROVE p \in Polling
          BY <1>3, <3>1, <4>1 DEF Polling
        <4>2. QED
          BY <1>1, <3>1, <4>1
      <3>2. session[p] = x /\ ProcessOf[c] = p
        BY DEF x, p
      <3>3. QED
        BY <1>1, <1>2, <1>3, <1>4, <2>2, <3>1, <3>2 DEF CallSound, At, PairingOwnerAssumption
    <2>3. CASE d # c
      <3>1. CallSound(d) /\ call'[d] = call[d]
        BY <1>3, <2>3 DEF LeaseInv
      <3>2. ASSUME call[d].pairing # None, ProcessOf[d] \notin astray'
            PROVE  ProcessOf[d] # p /\ ProcessOf[d] \notin astray
        BY <1>1, <3>2 DEF Polling
      <3>3. ASSUME call[d].pairing # None, ProcessOf[d] \notin astray',
                   NEW e \in Calls, ProcessOf[e] = ProcessOf[d], call'[e].pairing # None
            PROVE  e = d
        <4>1. e # c
          BY <3>2, <3>3 DEF p
        <4>2. QED
          BY <1>3, <3>1, <3>2, <3>3, <4>1 DEF CallSound
      <3>4. QED
        BY <1>1, <2>1, <3>1, <3>2, <3>3 DEF CallSound, At
    <2>4. QED
      BY <2>2, <2>3
  <1>10. QED
    BY <1>5, <1>6, <1>7, <1>8, <1>9 DEF LeaseInv

-----------------------------------------------------------------------------
(* Steps of a status call                                                    *)

Working == {"ask", "got", "redeem", "save", "check", "probe"}

LEMMA WorkingCall ==
  ASSUME PairingOwnerAssumption, LeaseInv, NEW c \in Calls, call[c].pc \in Working
  PROVE  /\ call \in [Calls -> CallType] /\ call[c].pairing \in Codes /\ call[c].pairing # None
         /\ madeBy[call[c].pairing] = ProcessOf[c] /\ ProcessOf[c] # None
         /\ ~At(c, "claim")
  BY DEF LeaseInv, OwnerTypeOK, CallSound, CallType, Working, At, PairingOwnerAssumption

\* The other calls stay when one of them moves.
LEMMA OthersGoOn ==
  ASSUME NEW c \in Calls, CallGoesOn(c), \A d \in Calls \ {c} : call'[d] = call[d]
  PROVE  \A d \in Calls : CallGoesOn(d)
  BY DEF CallGoesOn

LEMMA EndGoesOn ==
  ASSUME PairingOwnerAssumption, NEW c \in Calls, call \in [Calls -> CallType], ~At(c, "claim"),
         call' = Done(c)
  PROVE  call' \in [Calls -> CallType] /\ \A d \in Calls : CallGoesOn(d)
  BY DoneKeeps, OthersGoOn DEF CallGoesOn

LEMMA MoveGoesOn ==
  ASSUME NEW c \in Calls, call \in [Calls -> CallType], call[c].pairing # None,
         NEW pc \in Working \ {"got"}, call' = Goto(c, pc), pc = "probe" => store' = call[c].pairing
  PROVE  call' \in [Calls -> CallType] /\ \A d \in Calls : CallGoesOn(d)
  BY GotoKeeps, OthersGoOn DEF CallGoesOn, Working

LEMMA RepeatGoesOn ==
  ASSUME NEW c \in Calls, call \in [Calls -> CallType], call[c].pairing # None,
         call' = AskAgain(c)
  PROVE  call' \in [Calls -> CallType] /\ \A d \in Calls : CallGoesOn(d)
  BY AskAgainKeeps, OthersGoOn DEF CallGoesOn

LEMMA RequestStartKeeps ==
  ASSUME PairingOwnerAssumption, LeaseInv, NEW c \in Calls, RequestStart(c)
  PROVE  LeaseInv'
  <1>1. /\ At(c, "idle") /\ call[c].uses < MaxUses
        /\ call' = [call EXCEPT ![c] = [@ EXCEPT !.pc = "acquire", !.uses = call[c].uses + 1]]
        /\ UNCHANGED <<server, session, attempts, wiped, holder, store, told, madeBy, ended, astray>>
    BY DEF RequestStart, CanStart
  <1>2. call \in [Calls -> CallType] /\ call[c].pairing = None /\ MaxUses \in Nat
    BY <1>1 DEF LeaseInv, OwnerTypeOK, CallType, CallSound, At, PairingOwnerAssumption
  <1>3. call[c].uses + 1 \in 0 .. MaxUses
    BY <1>1, <1>2 DEF CallType
  <1> DEFINE more == [call[c] EXCEPT !.pc = "acquire", !.uses = call[c].uses + 1]
  <1>4. /\ call' \in [Calls -> CallType] /\ call'[c].pc = "acquire" /\ call'[c].pairing = None
        /\ \A d \in Calls \ {c} : call'[d] = call[d]
    <2>1. call[c] \in CallType
      BY <1>2
    <2>2. more \in CallType /\ more.pc = "acquire" /\ more.pairing = None
      BY <1>2, <1>3, <2>1 DEF CallType
    <2>3. call' = [call EXCEPT ![c] = more]
      BY <1>1
    <2>4. QED
      BY <1>2, <2>2, <2>3
  <1>5. \A d \in Calls : CallGoesOn(d)
    BY <1>1, <1>4 DEF CallGoesOn
  <1>6. OwnerTypeOK'
    BY <1>1, <1>4 DEF LeaseInv, OwnerTypeOK, CallType
  <1>7. QED
    BY <1>1, <1>5, <1>6, QuietKeeps DEF Owned, ServerGoesOn, StoreGoesOn

LEMMA AskKeeps ==
  ASSUME PairingOwnerAssumption, LeaseInv, NEW c \in Calls, Ask(c)
  PROVE  LeaseInv'
  <1> DEFINE x == call[c].pairing
  <1>1. /\ At(c, "ask")
        /\ UNCHANGED <<server, session, attempts, wiped, holder, store, told, madeBy, ended, astray>>
    BY DEF Ask
  <1>2. PICK seen \in {IF x \in wiped THEN "invalid" ELSE server[x], "error"} :
          call' = [call EXCEPT ![c] = [@ EXCEPT !.pc = "got", !.seen = seen]]
    BY DEF Ask
  <1>3. call \in [Calls -> CallType] /\ x \in Codes /\ x # None
    BY <1>1, WorkingCall DEF Working, At
  <1>4. server \in [Codes -> ServerStates]
    BY DEF LeaseInv, OwnerTypeOK
  <1>5. seen \in ServerStates \cup {"none", "invalid", "error"}
    BY <1>2, <1>3, <1>4
  <1>6. /\ call' \in [Calls -> CallType] /\ call'[c].pc = "got" /\ call'[c].pairing = x
        /\ call'[c].seen = seen /\ \A d \in Calls \ {c} : call'[d] = call[d]
    <2>1. [call[c] EXCEPT !.pc = "got", !.seen = seen] \in CallType
      BY <1>3, <1>5 DEF CallType
    <2>2. QED
      BY <1>2, <1>3, <2>1 DEF CallType
  <1>7. /\ seen = "invalid" => x \in wiped
        /\ seen = "ended" => server[x] = "ended"
    BY <1>2, <1>3, <1>4 DEF ServerStates
  <1>8. CallGoesOn(c)
    BY <1>3, <1>6, <1>7 DEF CallGoesOn
  <1>9. \A d \in Calls : CallGoesOn(d)
    BY <1>6, <1>8, OthersGoOn
  <1>10. OwnerTypeOK'
    BY <1>1, <1>6 DEF LeaseInv, OwnerTypeOK, CallType
  <1>11. QED
    BY <1>1, <1>9, <1>10, QuietKeeps DEF Owned, ServerGoesOn, StoreGoesOn

LEMMA ToldMore ==
  ASSUME LeaseInv, NEW x \in Codes,
         NEW what \in {"redeemed", "unrecoverable"}, told' = [told EXCEPT ![x] = @ \cup {what}]
  PROVE  /\ told' \in [Codes -> SUBSET {"redeemed", "unrecoverable"}]
         /\ \A y \in Codes : told[y] \subseteq told'[y]
         /\ told'[x] # {}
         /\ \A y \in Codes : "redeemed" \in told'[y] \ told[y] => what = "redeemed" /\ y = x
  <1>1. told \in [Codes -> SUBSET {"redeemed", "unrecoverable"}]
    BY DEF LeaseInv, OwnerTypeOK
  <1>2. /\ told'[x] = told[x] \cup {what} /\ \A y \in Codes : y # x => told'[y] = told[y]
        /\ told' \in [Codes -> SUBSET {"redeemed", "unrecoverable"}]
    BY <1>1
  <1>3. QED
    BY <1>2

LEMMA ResolveStatusKeeps ==
  ASSUME PairingOwnerAssumption, LeaseInv, NEW c \in Calls, ResolveStatus(c)
  PROVE  LeaseInv' /\ ReportedIsStored
  <1> DEFINE x == call[c].pairing
  <1>1. At(c, "got") /\ UNCHANGED <<server, store, madeBy, ended, astray>>
    BY DEF ResolveStatus
  <1>2. /\ call \in [Calls -> CallType] /\ x \in Codes /\ x # None /\ ~At(c, "claim")
        /\ CallSound(c) /\ told \in [Codes -> SUBSET {"redeemed", "unrecoverable"}]
    BY <1>1, WorkingCall DEF Working, At, LeaseInv, OwnerTypeOK
  <1>3. /\ call[c].seen = "invalid" => x \in wiped
        /\ call[c].seen = "ended" => server[x] = "ended"
    BY <1>1, <1>2 DEF CallSound
  <1> HIDE DEF x
  <1>4. CASE ResolveError(c)
    <2>1. UNCHANGED <<session, attempts, wiped, holder, told>>
      BY <1>4 DEF ResolveError
    <2>2. call' \in [Calls -> CallType] /\ \A d \in Calls : CallGoesOn(d)
      BY <1>2, <1>4, EndGoesOn, MoveGoesOn DEF ResolveError, Working, x
    <2>3. OwnerTypeOK'
      BY <1>1, <2>1, <2>2 DEF LeaseInv, OwnerTypeOK, CallType
    <2>4. QED
      BY <1>1, <2>1, <2>2, <2>3, QuietKeeps DEF Owned, ServerGoesOn, StoreGoesOn, ReportedIsStored
  <1>5. CASE ResolveInvalid(c)
    <2>1. /\ call[c].seen = "invalid" /\ call' = Done(c) /\ UNCHANGED <<attempts, told>>
          /\ IF call[c].again THEN UNCHANGED <<session, wiped, holder>> ELSE Teardown(c)
      BY <1>5 DEF ResolveInvalid
    <2>2. CASE call[c].again
      <3>1. UNCHANGED <<session, wiped, holder>>
        BY <2>1, <2>2
      <3>2. call' \in [Calls -> CallType] /\ \A d \in Calls : CallGoesOn(d)
        BY <1>2, <2>1, EndGoesOn
      <3>3. OwnerTypeOK'
        BY <1>1, <2>1, <3>1, <3>2 DEF LeaseInv, OwnerTypeOK, CallType
      <3>4. QED
        BY <1>1, <2>1, <3>1, <3>2, <3>3, QuietKeeps DEF Owned, ServerGoesOn, StoreGoesOn, ReportedIsStored
    <2>3. CASE ~call[c].again
      <3>1. Teardown(c)
        BY <2>1, <2>3
      <3>2. QED
        BY <1>1, <1>2, <1>3, <2>1, <3>1, TeardownKeeps DEF x, ReportedIsStored
    <2>4. QED
      BY <2>2, <2>3
  <1>6. CASE ResolveOver(c)
    <2>1. Teardown(c) /\ call' = Done(c) /\ UNCHANGED <<attempts, told>> /\ call[c].seen = "ended"
      BY <1>6 DEF ResolveOver
    <2>2. QED
      BY <1>1, <1>2, <1>3, <2>1, TeardownKeeps DEF x, ReportedIsStored
  <1>7. CASE ResolveRedeemed(c)
    <2>1. /\ Teardown(c) /\ call' = Done(c) /\ UNCHANGED attempts
          /\ told' = [told EXCEPT ![x] = @ \cup {"unrecoverable"}]
      BY <1>7 DEF ResolveRedeemed, ToldRedeemed, x
    <2>2. /\ told' \in [Codes -> SUBSET {"redeemed", "unrecoverable"}]
          /\ \A y \in Codes : told[y] \subseteq told'[y]
          /\ told'[x] # {} /\ ReportedIsStored
      BY <1>2, <2>1, ToldMore DEF ReportedIsStored
    <2>3. QED
      BY <1>1, <1>2, <2>1, <2>2, TeardownKeeps DEF x
  <1>8. CASE ResolveApproved(c)
    <2>1. /\ UNCHANGED <<session, wiped, holder, told>>
          /\ IF MayRedeem(x)
             THEN attempts' = [attempts EXCEPT ![x] = @ + 1] /\ call' = Goto(c, "redeem")
             ELSE call' = Done(c) /\ UNCHANGED attempts
      BY <1>8 DEF ResolveApproved, x
    <2>2. call' \in [Calls -> CallType] /\ \A d \in Calls : CallGoesOn(d)
      BY <1>2, <2>1, EndGoesOn, MoveGoesOn DEF Working, x
    <2>3. attempts' \in [Codes -> 0 .. 2]
      BY <1>2, <2>1 DEF LeaseInv, OwnerTypeOK, MayRedeem
    <2>4. OwnerTypeOK'
      BY <1>1, <2>1, <2>2, <2>3 DEF LeaseInv, OwnerTypeOK, CallType
    <2>5. QED
      BY <1>1, <2>1, <2>2, <2>4, QuietKeeps DEF Owned, ServerGoesOn, StoreGoesOn, ReportedIsStored
  <1>9. QED
    BY <1>4, <1>5, <1>6, <1>7, <1>8 DEF ResolveStatus

LEMMA RedeemTokenKeeps ==
  ASSUME PairingOwnerAssumption, LeaseInv, NEW c \in Calls, RedeemToken(c)
  PROVE  LeaseInv'
  <1> DEFINE x == call[c].pairing
  <1>1. /\ At(c, "redeem")
        /\ UNCHANGED <<session, attempts, wiped, holder, store, told, madeBy, ended, astray>>
        /\ call' \in {Goto(c, "save"), AskAgain(c), Done(c)}
        /\ \/ server[x] = "approved" /\ server' = [server EXCEPT ![x] = "redeemed"]
           \/ server' = server
    BY DEF RedeemToken
  <1>2. /\ call \in [Calls -> CallType] /\ x \in Codes /\ x # None /\ ~At(c, "claim")
        /\ madeBy[x] # None /\ server \in [Codes -> ServerStates]
    BY <1>1, WorkingCall DEF Working, At, LeaseInv, OwnerTypeOK
  <1>3. call' \in [Calls -> CallType] /\ \A d \in Calls : CallGoesOn(d)
    BY <1>1, <1>2, EndGoesOn, MoveGoesOn, RepeatGoesOn DEF Working
  <1>4. ServerGoesOn /\ server' \in [Codes -> ServerStates]
    BY <1>1, <1>2 DEF ServerGoesOn, ServerStates
  <1>5. OwnerTypeOK'
    BY <1>1, <1>3, <1>4 DEF LeaseInv, OwnerTypeOK, CallType
  <1>6. QED
    BY <1>1, <1>3, <1>4, <1>5, QuietKeeps DEF Owned, StoreGoesOn

LEMMA SaveKeeps ==
  ASSUME PairingOwnerAssumption, LeaseInv, NEW c \in Calls, Save(c)
  PROVE  LeaseInv'
  <1>1. /\ At(c, "save")
        /\ \/ store' = call[c].pairing /\ call' = Goto(c, "check")
           \/ call' = Done(c) /\ UNCHANGED store
        /\ UNCHANGED <<server, session, attempts, wiped, holder, told, madeBy, ended, astray>>
    BY DEF Save
  <1>2. /\ call \in [Calls -> CallType] /\ call[c].pairing \in Codes /\ call[c].pairing # None
        /\ ~At(c, "claim")
    BY <1>1, WorkingCall DEF Working, At
  <1>3. call' \in [Calls -> CallType] /\ \A d \in Calls : CallGoesOn(d)
    BY <1>1, <1>2, EndGoesOn, MoveGoesOn DEF Working
  <1>4. OwnerTypeOK'
    BY <1>1, <1>2, <1>3 DEF LeaseInv, OwnerTypeOK, CallType
  <1>5. StoreGoesOn
    BY <1>1 DEF StoreGoesOn
  <1>6. QED
    BY <1>1, <1>3, <1>4, <1>5, QuietKeeps DEF Owned, ServerGoesOn

LEMMA CheckKeeps ==
  ASSUME PairingOwnerAssumption, LeaseInv, NEW c \in Calls, Check(c)
  PROVE  LeaseInv' /\ ReportedIsStored
  <1> DEFINE x == call[c].pairing
  <1>1. /\ At(c, "check")
        /\ \/ store = x /\ call' = Goto(c, "probe") /\ UNCHANGED told
           \/ call' = Done(c) /\ told' = [told EXCEPT ![x] = @ \cup {"unrecoverable"}]
        /\ UNCHANGED <<server, session, attempts, wiped, holder, store, madeBy, ended, astray>>
    BY DEF Check, ToldRedeemed
  <1>2. /\ call \in [Calls -> CallType] /\ x \in Codes /\ x # None /\ ~At(c, "claim")
        /\ told \in [Codes -> SUBSET {"redeemed", "unrecoverable"}]
    BY <1>1, WorkingCall DEF Working, At, LeaseInv, OwnerTypeOK
  <1>3. call' \in [Calls -> CallType] /\ \A d \in Calls : CallGoesOn(d)
    BY <1>1, <1>2, EndGoesOn, MoveGoesOn DEF Working
  <1>4. /\ told' \in [Codes -> SUBSET {"redeemed", "unrecoverable"}]
        /\ \A y \in Codes : told[y] \subseteq told'[y]
        /\ ReportedIsStored
    <2>1. CASE UNCHANGED told
      BY <1>2, <2>1 DEF ReportedIsStored
    <2>2. CASE told' = [told EXCEPT ![x] = @ \cup {"unrecoverable"}]
      BY <1>2, <2>2, ToldMore DEF ReportedIsStored
    <2>3. QED
      BY <1>1, <2>1, <2>2
  <1>5. OwnerTypeOK'
    BY <1>1, <1>3, <1>4 DEF LeaseInv, OwnerTypeOK, CallType
  <1>6. QED
    BY <1>1, <1>3, <1>4, <1>5, QuietKeeps DEF Owned, ServerGoesOn, StoreGoesOn

LEMMA ProbeKeeps ==
  ASSUME PairingOwnerAssumption, LeaseInv, NEW c \in Calls, Probe(c)
  PROVE  LeaseInv' /\ ReportedIsStored
  <1> DEFINE x == call[c].pairing
  <1>1. /\ At(c, "probe") /\ call' = Done(c) /\ UNCHANGED <<server, attempts, store, madeBy, ended, astray>>
        /\ \/ Teardown(c) /\ told' = [told EXCEPT ![x] = @ \cup {"redeemed"}]
           \/ UNCHANGED <<session, wiped, holder, told>>
    BY DEF Probe
  <1>2. /\ call \in [Calls -> CallType] /\ x \in Codes /\ x # None /\ ~At(c, "claim")
        /\ CallSound(c) /\ told \in [Codes -> SUBSET {"redeemed", "unrecoverable"}]
    BY <1>1, WorkingCall DEF Working, At, LeaseInv, OwnerTypeOK
  <1>3. CASE Teardown(c) /\ told' = [told EXCEPT ![x] = @ \cup {"redeemed"}]
    <2>1. /\ told' \in [Codes -> SUBSET {"redeemed", "unrecoverable"}]
          /\ \A y \in Codes : told[y] \subseteq told'[y]
          /\ told'[x] # {}
          /\ \A y \in Codes : "redeemed" \in told'[y] \ told[y] => y = x
      BY <1>2, <1>3, ToldMore
    <2>2. astray = {} => store = x
      BY <1>1, <1>2 DEF CallSound
    <2>3. QED
      BY <1>1, <1>2, <1>3, <2>1, <2>2, TeardownKeeps DEF ReportedIsStored
  <1>4. CASE UNCHANGED <<session, wiped, holder, told>>
    <2>1. call' \in [Calls -> CallType] /\ \A d \in Calls : CallGoesOn(d)
      BY <1>1, <1>2, EndGoesOn
    <2>2. OwnerTypeOK'
      BY <1>1, <1>4, <2>1 DEF LeaseInv, OwnerTypeOK, CallType
    <2>3. QED
      BY <1>1, <1>2, <1>4, <2>1, <2>2, QuietKeeps DEF Owned, ServerGoesOn, StoreGoesOn, ReportedIsStored
  <1>5. QED
    BY <1>1, <1>3, <1>4

LEMMA ServerKeeps ==
  ASSUME PairingOwnerAssumption, LeaseInv, NEW x \in Codes, Approve(x) \/ RunsOut(x)
  PROVE  LeaseInv'
  <1>1. /\ UNCHANGED <<session, attempts, wiped, holder, store, call, told, madeBy, ended, astray>>
        /\ \/ server[x] = "pending" /\ server' = [server EXCEPT ![x] = "approved"]
           \/ server[x] \in {"pending", "approved"} /\ server' = [server EXCEPT ![x] = "ended"]
    BY DEF Approve, RunsOut
  <1>2. server \in [Codes -> ServerStates]
    BY DEF LeaseInv, OwnerTypeOK
  <1>3. ServerGoesOn /\ server' \in [Codes -> ServerStates]
    BY <1>1, <1>2 DEF ServerGoesOn, ServerStates
  <1>4. OwnerTypeOK'
    BY <1>1, <1>3 DEF LeaseInv, OwnerTypeOK
  <1>5. QED
    BY <1>1, <1>3, <1>4, QuietKeeps DEF Owned, StoreGoesOn, CallGoesOn

-----------------------------------------------------------------------------
(* The theorem                                                               *)

LEMMA OwnerNextKeeps ==
  ASSUME PairingOwnerAssumption
  PROVE  LeaseInv /\ [OwnerNext]_ownerVars => LeaseInv' /\ [ReportedIsStored]_ownerVars
  <1> SUFFICES ASSUME LeaseInv, [OwnerNext]_ownerVars PROVE LeaseInv' /\ [ReportedIsStored]_ownerVars
    OBVIOUS
  <1>1. ASSUME UNCHANGED told PROVE ReportedIsStored
    BY <1>1 DEF ReportedIsStored
  <1>2. CASE UNCHANGED ownerVars
    <2>1. LeaseInv'
      BY <1>2 DEF ownerVars, LeaseInv, OwnerTypeOK, CodeSound, ProcessSound, CallSound, HolderSound, At
    <2>2. QED
      BY <1>2, <2>1
  <1>3. ASSUME NEW c \in Calls, CallStep(c) PROVE LeaseInv' /\ ReportedIsStored
    <2>1. CASE RequestStart(c)
      BY <1>1, <2>1, RequestStartKeeps DEF RequestStart
    <2>2. CASE RequestAcquire(c)
      BY <1>1, <2>2, RequestAcquireKeeps DEF RequestAcquire
    <2>3. CASE RequestFails(c)
      BY <1>1, <2>3, RequestFailsKeeps DEF RequestFails
    <2>4. CASE RequestClaim(c)
      BY <1>1, <2>4, RequestClaimKeeps DEF RequestClaim
    <2>5. CASE StatusStart(c)
      BY <1>1, <2>5, StatusStartKeeps DEF StatusStart
    <2>6. CASE Ask(c)
      BY <1>1, <2>6, AskKeeps DEF Ask
    <2>7. CASE ResolveStatus(c)
      BY <2>7, ResolveStatusKeeps
    <2>8. CASE RedeemToken(c)
      BY <1>1, <2>8, RedeemTokenKeeps DEF RedeemToken
    <2>9. CASE Save(c)
      BY <1>1, <2>9, SaveKeeps DEF Save
    <2>10. CASE Check(c)
      BY <2>10, CheckKeeps
    <2>11. CASE Probe(c)
      BY <2>11, ProbeKeeps
    <2>12. QED
      BY <1>3, <2>1, <2>2, <2>3, <2>4, <2>5, <2>6, <2>7, <2>8, <2>9, <2>10, <2>11 DEF CallStep
  <1>4. ASSUME NEW x \in Codes, Approve(x) \/ RunsOut(x) PROVE LeaseInv' /\ ReportedIsStored
    BY <1>1, <1>4, ServerKeeps DEF Approve, RunsOut
  <1>5. ASSUME NEW p \in Processes, Close(p) PROVE LeaseInv' /\ ReportedIsStored
    BY <1>1, <1>5, CloseKeeps DEF Close
  <1>6. ASSUME NEW p \in Processes, Exit(p) PROVE LeaseInv' /\ ReportedIsStored
    BY <1>1, <1>6, ExitKeeps DEF Exit
  <1>7. QED
    BY <1>2, <1>3, <1>4, <1>5, <1>6 DEF OwnerNext

LEMMA OwnerStarts == ASSUME PairingOwnerAssumption PROVE OwnerInit => LeaseInv
  <1> SUFFICES ASSUME OwnerInit PROVE LeaseInv
    OBVIOUS
  <1>1. call \in [Calls -> CallType] /\ \A c \in Calls : call[c].pc = "idle" /\ call[c].pairing = None
    BY DEF OwnerInit, Resting, CallType, PairingOwnerAssumption
  <1>2. OwnerTypeOK
    BY <1>1 DEF OwnerInit, OwnerTypeOK, CallType, ServerStates
  <1>3. QED
    BY <1>1, <1>2 DEF OwnerInit, LeaseInv, CodeSound, ProcessSound, CallSound, HolderSound, At,
                      PairingOwnerAssumption

LEMMA LeaseInvPromises ==
  ASSUME PairingOwnerAssumption
  PROVE  LeaseInv => OwnerTypeOK /\ LeaseIsAccounted /\ LossIsTold /\ SavedUnderLease
  <1> SUFFICES ASSUME LeaseInv
               PROVE  OwnerTypeOK /\ LeaseIsAccounted /\ LossIsTold /\ SavedUnderLease
    OBVIOUS
  <1>1. LeaseIsAccounted
    BY DEF LeaseInv, LeaseIsAccounted, ProcessSound, HolderSound, CallSound, OwnerTypeOK
  <1>2. LossIsTold
    BY DEF LeaseInv, LossIsTold, CodeSound
  <1>3. SavedUnderLease
    BY DEF LeaseInv, SavedUnderLease, CallSound, ProcessSound, At, PairingOwnerAssumption
  <1>4. QED
    BY <1>1, <1>2, <1>3 DEF LeaseInv

\* The lease of a profile belongs to the pairing that is shown, a credential that was
\* given out is stored under it and reported, or told to be lost, for any number of
\* processes that call, close and die as they please (the MCP server's pairing owner).
THEOREM LeaseIsAlwaysOwned ==
  ASSUME PairingOwnerAssumption
  PROVE  OwnerSpec => LeaseIsOwned
  <1>1. OwnerInit => LeaseInv
    BY OwnerStarts
  <1>2. LeaseInv /\ [OwnerNext]_ownerVars => LeaseInv' /\ [ReportedIsStored]_ownerVars
    BY OwnerNextKeeps
  <1>3. LeaseInv => OwnerTypeOK /\ LeaseIsAccounted /\ LossIsTold /\ SavedUnderLease
    BY LeaseInvPromises
  <1>4. QED
    BY <1>1, <1>2, <1>3, PTL DEF OwnerSpec, LeaseIsOwned
=============================================================================
