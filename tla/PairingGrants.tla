---------------------------- MODULE PairingGrants ----------------------------
(* How a tool is given access to the boards of a user, and how it loses it:   *)
(* pairing requests, the grants they end in and the credentials of those      *)
(* (sceneboard-be/src/pairing, src/grants), under the transactions that end   *)
(* the sessions they were approved from: logout and reuse                     *)
(* (auth/sessions.repository.ts), a password change                           *)
(* (auth/password-change.repository.ts) and the retention run                 *)
(* (maintenance/security-retention.service.ts).                               *)
(*                                                                            *)
(* The transactions run at READ COMMITTED: what a transaction reads without   *)
(* FOR UPDATE may be changed before it locks the rows it writes.  Each locks  *)
(* its rows one after the other, in the order of its statements, and acts     *)
(* when it has them all.  One user owns everything; the grant of a pairing    *)
(* has its number.                                                            *)
EXTENDS Integers, FiniteSets, Sequences, FiniteSetsExt, SequencesExt

CONSTANTS
    Families,      \* session families of the user, numbers
    Pairings,      \* pairing requests, numbers
    Requests,      \* transactions that run at a time
    Idle,          \* no transaction
    MaxActive,     \* pairings that are not over, of one user (5)
    MaxFailures,   \* wrong codes a pairing survives (5)
    MaxPasswords,  \* bound: passwords the user ever has
    Uses,          \* bound: the kinds of transaction that are begun
    Clocks         \* bound: what passes with time, "session" and "deadline"

PairingGrantsAssumption ==
    /\ Families \subseteq Nat \ {0} /\ Pairings \subseteq Nat \ {0} /\ IsFiniteSet(Pairings)
    /\ MaxActive \in Nat \ {0} /\ MaxFailures \in Nat \ {0} /\ MaxPasswords \in Nat \ {0}

VARIABLES
    family,     \* of a family: its status, and the password it stands for
    password,   \* the password of the user, a number
    pairing,    \* of a pairing: state, session family it depends on, wrong codes
    grant,      \* of a pairing's grant: status, lifetime and source family
    active,     \* of a grant: how many credentials work
    due,        \* of a pairing or its active grant: the deadline has passed
    tx,         \* of a request: its transaction
    lock        \* of a row: the request that holds it, or Idle

vars == <<family, password, pairing, grant, active, due, tx, lock>>
tables == <<family, password, pairing, grant, active, due>>

NoFamily == 0
Kinds == {"create", "claim", "approve", "deny", "poll", "redeem", "status", "cancel", "end",
          "password", "login", "revoke", "rotate", "resolve", "expirePairing", "expireGrant"}
Transaction == [kind : Kinds, f : Families \cup {NoFamily}, p : Pairings \cup {0},
                lifetime : {"session", "persistent"}, link : SUBSET Families,
                late : SUBSET Pairings, lapsed : SUBSET Families, hash : 1 .. MaxPasswords]
User == <<"user", 0>>
Rows == {User} \cup ({"family"} \X Families) \cup ({"pairing", "grant", "credential"} \X Pairings)

TypeOK ==
    /\ family \in [Families -> [status : {"none", "live", "lapsed", "ended"},
                                stands : 0 .. MaxPasswords]]
    /\ password \in 1 .. MaxPasswords
    /\ pairing \in [Pairings -> [state : {"none", "created", "pending", "approved", "redeemed",
                                          "denied", "cancelled", "expired", "locked"},
                                 source : Families \cup {NoFamily}, failures : 0 .. MaxFailures]]
    /\ grant \in [Pairings -> [status : {"none", "pending", "active", "revoked", "expired"},
                               lifetime : {"session", "persistent"},
                               source : Families \cup {NoFamily}]]
    /\ active \in [Pairings -> 0 .. 2]
    /\ due \in [Pairings -> BOOLEAN]
    /\ tx \in [Requests -> Transaction \cup {Idle}]
    /\ lock \in [Rows -> Requests \cup {Idle}]

NoGrant == [status |-> "none", lifetime |-> "persistent", source |-> NoFamily]

Init ==
    /\ family \in [Families -> {[status |-> "none", stands |-> 0], [status |-> "live", stands |-> 1]}]
    /\ password = 1
    /\ pairing = [p \in Pairings |-> [state |-> "none", source |-> NoFamily, failures |-> 0]]
    /\ grant = [p \in Pairings |-> NoGrant]
    /\ active = [p \in Pairings |-> 0]
    /\ due = [p \in Pairings |-> FALSE]
    /\ tx = [x \in Requests |-> Idle]
    /\ lock = [r \in Rows |-> Idle]

-----------------------------------------------------------------------------
(* What a transaction knows.  It compares deadlines with the time its request *)
(* began.                                                                     *)

Open == {"created", "pending", "approved"}
Late(x, p) == p \in tx[x].late /\ due[p]
Alive(x, f) == f \in Families /\ (family[f].status = "live"
                                    \/ (family[f].status = "lapsed" /\ f \notin tx[x].lapsed))
\* hasLiveFamilySession, of the family whose link was read
FamilyLive(x) == \E f \in tx[x].link : Alive(x, f)
Usable(p) == grant[p].status \in {"pending", "active"}
\* The pairings and the grants that end with the families fs.
ApprovedFrom(fs) == {p \in Pairings : pairing[p].state = "approved" /\ pairing[p].source \in fs}
\* Mutant: only what was redeemed is looked for.
GrantsFrom_Redeemed(fs) == {p \in Pairings : grant[p].status = "active" /\ grant[p].lifetime = "session"
                                               /\ grant[p].source \in fs}
GrantsFrom(fs) == {p \in Pairings : Usable(p) /\ ((grant[p].lifetime = "session" /\ grant[p].source \in fs)
                                                    \/ p \in ApprovedFrom(fs))}
Others(f) == Families \ {f}
Overdue(x) == {p \in Pairings : pairing[p].state \in Open /\ Late(x, p)}

-----------------------------------------------------------------------------
(* The rows a transaction locks, in order.  A later part of the list depends  *)
(* on what the rows locked before it hold.                                    *)

In(class, S) == [i \in DOMAIN SetToSortSeq(S, <) |-> <<class, SetToSortSeq(S, <)[i]>>]
Linked(p) == {pairing[p].source} \ {NoFamily}
Sources(p) == {grant[p].source} \ {NoFamily}
GrantRows(S) == In("grant", S) \o In("credential", S)
\* lockPairingFamily, lockClientPairing (which joins the user and the source session)
\* and lockGrantForPairing
PairingRows(x, p) ==
    In("family", tx[x].link) \o In("pairing", {p}) \o <<User>> \o In("family", Linked(p))
      \o (IF pairing[p].state = "approved" THEN GrantRows({p}) ELSE <<>>)

Plan(x) ==
    LET t == tx[x]
        p == t.p
    IN  CASE t.kind = "create" ->
               <<User>> \o In("family", {t.f}) \o In("pairing", Overdue(x))
                 \o GrantRows({q \in Overdue(x) : pairing[q].state = "approved"})
          [] t.kind = "claim" ->
               IF pairing[p].state # "created" THEN <<>>
               ELSE In("pairing", {p}) \o <<User>> \o In("family", Linked(p))
          [] t.kind \in {"approve", "deny"} ->
               <<User>> \o In("family", {t.f}) \o In("pairing", {p})
          [] t.kind \in {"poll", "redeem", "status", "cancel", "expirePairing"} ->
               PairingRows(x, p)
          [] t.kind = "end" ->
               In("family", {t.f}) \o In("pairing", ApprovedFrom({t.f})) \o GrantRows(GrantsFrom({t.f}))
          [] t.kind = "password" ->
               <<User>> \o In("family", Families) \o In("pairing", ApprovedFrom(Others(t.f)))
                 \o GrantRows(GrantsFrom(Others(t.f)))
          [] t.kind = "login" -> <<User>>
          [] t.kind \in {"revoke", "rotate"} ->
               In("family", t.link)
                 \o In("pairing", {q \in {p} : pairing[q].state = "approved"})
                 \o In("grant", {p}) \o <<User>> \o In("family", Sources(p)) \o In("credential", {p})
          [] t.kind = "resolve" ->
               IF active[p] = 0 THEN <<>>
               ELSE In("credential", {p}) \o In("grant", {p}) \o <<User>> \o In("family", Sources(p))
          [] t.kind = "expireGrant" ->
               In("family", t.link) \o In("grant", {p}) \o <<User>> \o In("family", Sources(p))
                 \o In("credential", {p})

Missing(x) == SelectSeq(Plan(x), LAMBDA r : lock[r] # x)
Busy(x) == tx[x] # Idle

Lock(x) ==
    /\ Busy(x) /\ Missing(x) # <<>>
    /\ lock[Head(Missing(x))] = Idle
    /\ lock' = [lock EXCEPT ![Head(Missing(x))] = x]
    /\ UNCHANGED <<tables, tx>>

Release(x) ==
    /\ tx' = [tx EXCEPT ![x] = Idle]
    /\ lock' = [r \in Rows |-> IF lock[r] = x THEN Idle ELSE lock[r]]

\* A failure, of the mandatory audit among others, and the victim of a deadlock.
RollBack(x) == Busy(x) /\ Release(x) /\ UNCHANGED tables

Committing(x, kinds) == Busy(x) /\ tx[x].kind \in kinds /\ Missing(x) = <<>> /\ Release(x)

-----------------------------------------------------------------------------
(* The start of a request: what it reads without a lock.                      *)

Begin(x, t) ==
    /\ ~Busy(x) /\ t.kind \in Uses
    /\ tx' = [tx EXCEPT ![x] = [kind |-> t.kind, f |-> t.f, p |-> t.p, lifetime |-> t.lifetime,
                                link |-> t.link, late |-> {p \in Pairings : due[p]},
                                lapsed |-> {f \in Families : family[f].status = "lapsed"},
                                hash |-> IF t.kind \in {"login", "password"} THEN password ELSE 1]]
    /\ UNCHANGED <<tables, lock>>

Plain(kind, f, p, link) ==
    [kind |-> kind, f |-> f, p |-> p, lifetime |-> "persistent", link |-> link]
Fresh(p) == pairing[p].state = "none" /\ \A x \in Requests : Busy(x) => ~(tx[x].kind = "create" /\ tx[x].p = p)
SignedIn(f) == family[f].status = "live"

\* By the user, in a session.
BeginOwner(x) ==
    \E f \in Families, p \in Pairings :
      /\ SignedIn(f)
      /\ \/ Fresh(p) /\ Begin(x, Plain("create", f, p, {}))
         \/ /\ pairing[p].state \in Open
            /\ \/ \E kind \in {"status", "cancel"} : Begin(x, Plain(kind, f, p, Linked(p)))
               \/ Begin(x, Plain("deny", f, p, {}))
               \/ \E l \in {"session", "persistent"} :
                    Begin(x, [Plain("approve", f, p, {}) EXCEPT !.lifetime = l])
         \/ /\ Usable(p)
            /\ \E kind \in {"revoke", "rotate"} :
                 Begin(x, Plain(kind, f, p, Sources(p) \cup (IF pairing[p].state = "approved"
                                                             THEN Linked(p) ELSE {})))

\* By the tool that pairs, and with the credential it was given.
BeginTool(x) ==
    \E p \in Pairings :
      \/ pairing[p].state = "created" /\ Begin(x, Plain("claim", NoFamily, p, {}))
      \/ /\ pairing[p].state \in {"pending", "approved"}
         /\ \E kind \in {"poll", "redeem"} : Begin(x, Plain(kind, NoFamily, p, Linked(p)))
      \/ active[p] > 0 /\ Begin(x, Plain("resolve", NoFamily, p, {}))

\* Of the session: signing in, a password change, and whatever ends a family.
BeginSession(x) ==
    \E f \in Families :
      \/ family[f].status = "none" /\ Begin(x, Plain("login", f, 0, {}))
      \/ SignedIn(f) /\ password < MaxPasswords /\ Begin(x, Plain("password", f, 0, {}))
      \/ family[f].status \in {"live", "lapsed"} /\ Begin(x, Plain("end", f, 0, {}))

\* The retention run.
BeginRetention(x) ==
    \E p \in Pairings :
      /\ due[p]
      /\ \/ pairing[p].state \in Open /\ Begin(x, Plain("expirePairing", NoFamily, p, Linked(p)))
         \/ grant[p].status = "active" /\ Begin(x, Plain("expireGrant", NoFamily, p, Sources(p)))

-----------------------------------------------------------------------------
(* What a transaction does with its rows.                                     *)

Ended(S, status) == [p \in Pairings |-> IF p \in S THEN [grant[p] EXCEPT !.status = status] ELSE grant[p]]
Withdrawn(S) == [p \in Pairings |-> IF p \in S THEN 0 ELSE active[p]]
Moved(S, state) == [p \in Pairings |-> IF p \in S THEN [pairing[p] EXCEPT !.state = state] ELSE pairing[p]]
Clear(p) == due' = [due EXCEPT ![p] = FALSE]

\* A pairing that is over takes its pending grant with it.
Expire(S) ==
    LET G == {p \in S : pairing[p].state = "approved"}
    IN  /\ pairing' = Moved(S, "expired")
        /\ grant' = Ended(G, "expired")
        /\ active' = Withdrawn(G)

Nothing == UNCHANGED <<family, password, pairing, grant, active, due>>

\* create: what is overdue is expired first and stays so when the quota is reached.
Create(x) ==
    LET p == tx[x].p
        gone == Overdue(x)
        count == Cardinality({q \in Pairings \ gone : pairing[q].state \in Open})
    IN  /\ Committing(x, {"create"})
        /\ IF ~Alive(x, tx[x].f) THEN Nothing
           ELSE /\ IF count >= MaxActive
                   THEN pairing' = Moved(gone, "expired")
                   ELSE pairing' = [Moved(gone, "expired") EXCEPT
                                      ![p] = [state |-> "created", source |-> tx[x].f, failures |-> 0]]
                /\ grant' = Ended({q \in gone : pairing[q].state = "approved"}, "expired")
                /\ active' = Withdrawn({q \in gone : pairing[q].state = "approved"})
                /\ UNCHANGED <<family, password, due>>

\* claim: with the code, or with a wrong one that has its locator.
Claim(x) ==
    LET p == tx[x].p
    IN  /\ Committing(x, {"claim"})
        /\ \/ pairing[p].state # "created" /\ Nothing
           \/ /\ pairing[p].state = "created" /\ Late(x, p)
              /\ Expire({p})
              /\ UNCHANGED <<family, password, due>>
           \/ /\ pairing[p].state = "created" /\ ~Late(x, p)
              /\ pairing' = Moved({p}, "pending")
              /\ Clear(p)
              /\ UNCHANGED <<family, password, grant, active>>
           \/ /\ pairing[p].state = "created" /\ ~Late(x, p)
              /\ pairing' = [pairing EXCEPT ![p].failures = @ + 1,
                                            ![p].state = IF pairing[p].failures + 1 = MaxFailures
                                                         THEN "locked" ELSE "created"]
              /\ UNCHANGED <<family, password, grant, active, due>>

\* decide, by a session that may be of another family than the one that asked.
Decide(x) ==
    LET t == tx[x]
        p == t.p
    IN  /\ Committing(x, {"approve", "deny"})
        /\ IF ~Alive(x, t.f) \/ pairing[p].state # "pending" THEN Nothing
           ELSE IF Late(x, p) THEN Expire({p}) /\ UNCHANGED <<family, password, due>>
           ELSE IF t.kind = "deny"
           THEN pairing' = Moved({p}, "denied") /\ UNCHANGED <<family, password, grant, active, due>>
           ELSE /\ pairing' = [pairing EXCEPT ![p].state = "approved", ![p].source = t.f]
                /\ grant' = [grant EXCEPT ![p] = [status |-> "pending", lifetime |-> t.lifetime,
                               source |-> IF t.lifetime = "session" THEN t.f ELSE NoFamily]]
                /\ Clear(p)
                /\ UNCHANGED <<family, password, active>>

\* applyOwnerLazyExpiry and its like for the tool: whether the pairing is found over.
Over(x, p) ==
    \/ pairing[p].state \in {"created", "pending"} /\ Late(x, p)
    \/ pairing[p].state = "approved" /\ (Late(x, p) \/ ~FamilyLive(x))

\* clientStatus, ownerStatus
Look(x) ==
    LET p == tx[x].p
    IN  /\ Committing(x, {"poll", "status"})
        /\ IF Over(x, p) THEN Expire({p}) ELSE UNCHANGED <<pairing, grant, active>>
        /\ UNCHANGED <<family, password, due>>

Redeem(x) ==
    LET p == tx[x].p
    IN  /\ Committing(x, {"redeem"})
        /\ IF Over(x, p) THEN Expire({p}) /\ UNCHANGED <<family, password, due>>
           ELSE IF pairing[p].state # "approved" THEN Nothing
           ELSE /\ pairing' = Moved({p}, "redeemed")
                /\ grant' = Ended({p}, "active")
                /\ active' = [active EXCEPT ![p] = @ + 1]
                /\ Clear(p)
                /\ UNCHANGED <<family, password>>

Cancel(x) ==
    LET p == tx[x].p
        G == {q \in {p} : pairing[q].state = "approved"}
    IN  /\ Committing(x, {"cancel"})
        /\ IF Over(x, p) THEN Expire({p})
           ELSE IF pairing[p].state \notin Open THEN UNCHANGED <<pairing, grant, active>>
           ELSE /\ pairing' = Moved({p}, "cancelled")
                /\ grant' = Ended(G, "revoked")
                /\ active' = Withdrawn(G)
        /\ UNCHANGED <<family, password, due>>

\* terminalizeFamily
EndFamily(x) ==
    LET f == tx[x].f
    IN  /\ Committing(x, {"end"})
        /\ family' = [family EXCEPT ![f].status = "ended"]
        /\ pairing' = Moved(ApprovedFrom({f}), "expired")
        /\ grant' = Ended(GrantsFrom({f}), "expired")
        /\ active' = Withdrawn(GrantsFrom({f}))
        /\ UNCHANGED <<password, due>>

\* commit of a password change: every other family of the user ends.
ChangePassword(x) ==
    LET f == tx[x].f
        working == {g \in Others(f) : family[g].status \in {"live", "lapsed"}}
    IN  /\ Committing(x, {"password"})
        /\ IF tx[x].hash # password \/ family[f].status \notin {"live", "lapsed"} \/ password = MaxPasswords
           THEN Nothing
           ELSE /\ password' = password + 1
                /\ family' = [g \in Families |->
                                IF g \in working THEN [family[g] EXCEPT !.status = "ended"]
                                ELSE IF g = f THEN [family[g] EXCEPT !.stands = password + 1]
                                ELSE family[g]]
                /\ pairing' = Moved(ApprovedFrom(Others(f)), "expired")
                /\ grant' = Ended(GrantsFrom(Others(f)), "expired")
                /\ active' = Withdrawn(GrantsFrom(Others(f)))
                /\ UNCHANGED due

\* commitLogin: only while the password is the one that was verified.
Login(x) ==
    LET f == tx[x].f
    IN  /\ Committing(x, {"login"})
        /\ IF tx[x].hash = password /\ family[f].status = "none"
           THEN family' = [family EXCEPT ![f] = [status |-> "live", stands |-> tx[x].hash]]
           ELSE UNCHANGED family
        /\ UNCHANGED <<password, pairing, grant, active, due>>

\* revoke of a grant, pending or active
Revoke(x) ==
    LET p == tx[x].p
        needs == grant[p].status = "pending" \/ grant[p].lifetime = "session"
        gone == Late(x, p) \/ (needs /\ ~FamilyLive(x))
        over == IF gone THEN "expired" ELSE "cancelled"
    IN  /\ Committing(x, {"revoke"})
        /\ IF ~Usable(p) THEN Nothing
           ELSE /\ grant' = Ended({p}, IF gone THEN "expired" ELSE "revoked")
                /\ active' = Withdrawn({p})
                /\ pairing' = Moved({q \in {p} : pairing[q].state = "approved"}, over)
                /\ UNCHANGED <<family, password, due>>

\* rotate: one credential for another.
Rotate(x) ==
    LET p == tx[x].p
        gone == Late(x, p) \/ (grant[p].lifetime = "session" /\ ~FamilyLive(x))
    IN  /\ Committing(x, {"rotate"})
        /\ IF grant[p].status = "active" /\ gone
           THEN grant' = Ended({p}, "expired") /\ active' = Withdrawn({p})
           ELSE UNCHANGED <<grant, active>>
        /\ UNCHANGED <<family, password, pairing, due>>

\* resolve of a bearer credential: a grant found over is ended.
Resolve(x) ==
    LET p == tx[x].p
        gone == Late(x, p) \/ (grant[p].lifetime = "session" /\ ~Alive(x, grant[p].source))
    IN  /\ Committing(x, {"resolve"})
        /\ IF grant[p].status = "active" /\ active[p] > 0 /\ gone
           THEN grant' = Ended({p}, "expired") /\ active' = Withdrawn({p})
           ELSE UNCHANGED <<grant, active>>
        /\ UNCHANGED <<family, password, pairing, due>>

\* expirePairing and expireGrant of the retention run look at the link again.
Retain(x) ==
    LET t == tx[x]
        p == t.p
    IN  /\ Committing(x, {"expirePairing", "expireGrant"})
        /\ \/ /\ t.kind = "expirePairing"
              /\ IF Linked(p) = t.link /\ pairing[p].state \in Open /\ Late(x, p)
                 THEN Expire({p}) ELSE UNCHANGED <<pairing, grant, active>>
           \/ /\ t.kind = "expireGrant"
              /\ IF Sources(p) = t.link /\ grant[p].status = "active" /\ Late(x, p)
                 THEN grant' = Ended({p}, "expired") /\ active' = Withdrawn({p})
                 ELSE UNCHANGED <<grant, active>>
              /\ UNCHANGED pairing
        /\ UNCHANGED <<family, password, due>>

-----------------------------------------------------------------------------
(* Time passes.                                                               *)

Lapse(f) ==
    /\ "session" \in Clocks
    /\ family[f].status = "live"
    /\ family' = [family EXCEPT ![f].status = "lapsed"]
    /\ UNCHANGED <<password, pairing, grant, active, due, tx, lock>>
Fall(p) ==
    /\ "deadline" \in Clocks
    /\ pairing[p].state \in Open \/ grant[p].status = "active"
    /\ ~due[p]
    /\ due' = [due EXCEPT ![p] = TRUE]
    /\ UNCHANGED <<family, password, pairing, grant, active, tx, lock>>

Next ==
    \/ \E x \in Requests :
         \/ BeginOwner(x) \/ BeginTool(x) \/ BeginSession(x) \/ BeginRetention(x)
         \/ Lock(x) \/ RollBack(x)
         \/ Create(x) \/ Claim(x) \/ Decide(x) \/ Look(x) \/ Redeem(x) \/ Cancel(x)
         \/ EndFamily(x) \/ ChangePassword(x) \/ Login(x)
         \/ Revoke(x) \/ Rotate(x) \/ Resolve(x) \/ Retain(x)
    \/ \E f \in Families : Lapse(f)
    \/ \E p \in Pairings : Fall(p)

Spec == Init /\ [][Next]_vars

-----------------------------------------------------------------------------
(* A pairing is approved exactly while its grant is pending: the code throws  *)
(* wherever it finds one without the other.                                   *)
PendingIsApproved == \A p \in Pairings : pairing[p].state = "approved" <=> grant[p].status = "pending"

(* An active grant has one credential that works, and no other grant has any: *)
(* a credential never outlives its grant.                                     *)
OneCredential == \A p \in Pairings : active[p] = IF grant[p].status = "active" THEN 1 ELSE 0

(* Nothing that was granted for the time of a session, and nothing approved   *)
(* from it that was not fetched yet, works once the session has ended,        *)
(* however the approval and the end were interleaved.                         *)
NothingOutlivesFamily ==
    \A f \in Families, p \in Pairings :
      family[f].status = "ended" =>
        /\ ~(pairing[p].state = "approved" /\ pairing[p].source = f)
        /\ ~(grant[p].status \in {"pending", "active"} /\ grant[p].source = f)

(* After a password change no session works that was opened with a password   *)
(* before it, save the one it was changed from.                               *)
SessionsStandForPassword ==
    \A f \in Families : family[f].status \in {"live", "lapsed"} => family[f].stands = password

(* A user never has more pairings open than the quota, however many requests  *)
(* create one at a time.                                                      *)
QuotaKept == Cardinality({p \in Pairings : pairing[p].state \in Open}) <= MaxActive

(* A credential is never handed out for an approval whose session has ended,  *)
(* though the family was looked up before the rows were locked.               *)
FetchedBeforeTheEnd ==
    \A p \in Pairings : grant[p].status = "pending" /\ grant'[p].status = "active"
                          => family[pairing[p].source].status \in {"live", "lapsed"}

(* A pairing has at most one working credential, which ends with what it was  *)
(* granted for, under every interleaving of requests that look, lock and      *)
(* decide.                                                                    *)
CredentialsEnd ==
    /\ [](/\ TypeOK /\ PendingIsApproved /\ OneCredential
          /\ NothingOutlivesFamily /\ SessionsStandForPassword /\ QuotaKept)
    /\ [][FetchedBeforeTheEnd]_vars
=============================================================================
