---------------------------- MODULE BoardMembers ----------------------------
(* Who may work on a board: invitations, memberships and the edits they allow *)
(* (sceneboard-be/src/invitations, src/memberships and                        *)
(* grants/board-access-policy.service.ts).                                    *)
(*                                                                            *)
(* Every operation is one READ COMMITTED transaction that locks its rows one  *)
(* after the other, in the order of its statements.  The database rolls one   *)
(* of the transactions of a cycle of waits back: those that run under the     *)
(* access policy are tried again, four times in all, an acceptance is not.    *)
(* The owner of the board works in one session; an account has one address.   *)
EXTENDS Integers, FiniteSets, Sequences

CONSTANTS
    Accounts,      \* who may be invited
    Invites,       \* invitations, numbers in the order they are issued
    Requests,      \* requests that are served at a time
    Idle,          \* no request
    MaxAttempts,   \* how often the access policy tries a transaction (4)
    MaxVersion     \* bound: how often a membership changes

VARIABLES
    invite,    \* of an invitation: account, role, state and whether it is overdue
    mailed,    \* invitations whose token was sent
    member,    \* of an account: state, role and version of its membership
    epoch,     \* the capability epoch of the board, which every change announces
    archived,  \* the board is archived
    edits,     \* of an account: its last edit was committed by this request
    tx,        \* of a request: its transaction
    lock       \* of a row: the request that holds it, or Idle

membersVars == <<invite, mailed, member, epoch, archived, edits, tx, lock>>
memberTables == <<invite, mailed, member, epoch, archived, edits>>

Roles == {"editor", "viewer"}
Owner == "owner"
NoInvite == 0
Board == <<"board">>
User(a) == <<"user", a>>
Row(i) == <<"invite", i>>
Membership(a) == <<"membership", a>>
Rows == {Board} \cup {User(a) : a \in Accounts \cup {Owner}} \cup {Row(i) : i \in Invites}
          \cup {Membership(a) : a \in Accounts}
OwnerKinds == {"issue", "resend", "revoke", "update", "remove", "archive"}
Kinds == OwnerKinds \cup {"accept", "edit", "send"}
NoMember == [state |-> "none", role |-> "viewer", version |-> 0]
Transaction == [kind : Kinds, a : Accounts, i : Invites \cup {NoInvite}, role : Roles,
                version : 0 .. MaxVersion, attempt : 1 .. MaxAttempts, authorized : BOOLEAN,
                seen : [state : {"none", "active", "inactive"}, role : Roles, version : 0 .. MaxVersion],
                epoch : Nat]

MembersAssumption ==
    /\ Accounts # {} /\ Idle \notin Requests \cup Transaction
    /\ Invites \subseteq Nat \ {0} /\ MaxAttempts \in Nat \ {0} /\ MaxVersion \in Nat

Busy(x) == tx[x] # Idle
Unused == {i \in Invites : invite[i].state = "none"}
\* The unique key of an address that is invited.
Pending(a) == {i \in Invites : invite[i].state = "pending" /\ invite[i].to = a}

MembersTypeOK ==
    /\ invite \in [Invites -> [to : Accounts, role : Roles, late : BOOLEAN,
                     state : {"none", "pending", "accepted", "revoked", "expired", "superseded"}]]
    /\ mailed \subseteq Invites
    /\ member \in [Accounts -> [state : {"none", "active", "inactive"}, role : Roles,
                                version : 0 .. MaxVersion]]
    /\ epoch \in Nat
    /\ archived \in BOOLEAN
    /\ edits \in [Accounts -> Requests \cup {Idle}]
    /\ tx \in [Requests -> Transaction \cup {Idle}]
    /\ lock \in [Rows -> Requests \cup {Idle}]
    /\ \A a \in Accounts : Cardinality(Pending(a)) <= 1
    /\ \A r \in Rows : lock[r] # Idle => Busy(lock[r])

MembersInit ==
    /\ invite = [i \in Invites |-> [to |-> CHOOSE a \in Accounts : TRUE, role |-> "viewer",
                                    late |-> FALSE, state |-> "none"]]
    /\ mailed = {}
    /\ member = [a \in Accounts |-> NoMember]
    /\ epoch = 0
    /\ archived = FALSE
    /\ edits = [a \in Accounts |-> Idle]
    /\ tx = [x \in Requests |-> Idle]
    /\ lock = [r \in Rows |-> Idle]

-----------------------------------------------------------------------------
(* The rows of a transaction.  The policy locks the account and the board,    *)
(* and an account whose membership is locked is locked by its join.           *)

Policy(a) == <<User(a), Board>>
Held(a) == IF member[a].state = "none" THEN <<>> ELSE <<Membership(a)>>
Identity(a) == IF Pending(a) = {} THEN <<>> ELSE <<Row(CHOOSE i \in Pending(a) : TRUE)>>

EditRows(a) == Policy(a) \o Held(a)

Plan(x) ==
    LET t == tx[x]
    IN  CASE t.kind = "send" -> <<>>
          [] t.kind = "archive" -> Policy(Owner)
          [] t.kind = "issue" -> Policy(Owner) \o Identity(t.a) \o <<User(t.a)>>
          [] t.kind \in {"resend", "revoke"} -> Policy(Owner) \o <<Row(t.i)>>
          [] t.kind \in {"update", "remove"} -> Policy(Owner) \o <<Membership(t.a), User(t.a)>>
          [] t.kind = "accept" -> <<Board, Row(t.i), User(t.a)>> \o Held(t.a)
          [] t.kind = "edit" -> EditRows(t.a)

\* The rows a transaction has still to lock, and the one it asks for.
Missing(x) == {n \in DOMAIN Plan(x) : lock[Plan(x)[n]] # x}
Wanted(x) == Plan(x)[CHOOSE n \in Missing(x) : \A k \in Missing(x) : n <= k]
Waits(x) == Busy(x) /\ Missing(x) # {} /\ lock[Wanted(x)] \notin {x, Idle}
Blocker(x) == lock[Wanted(x)]

\* The request n waits ahead of x, or Idle.
InCycle(x) ==
    LET ahead[n \in 0 .. Cardinality(Requests)] ==
          IF n = 0 THEN x
          ELSE IF ahead[n - 1] # Idle /\ Waits(ahead[n - 1]) THEN Blocker(ahead[n - 1]) ELSE Idle
    IN  \E n \in 1 .. Cardinality(Requests) : ahead[n] = x

Unlocked(x) == [r \in Rows |-> IF lock[r] = x THEN Idle ELSE lock[r]]
EndTx(x) == tx' = [tx EXCEPT ![x] = Idle] /\ lock' = Unlocked(x)

Lock(x) ==
    /\ Busy(x) /\ Missing(x) # {}
    /\ lock[Wanted(x)] = Idle /\ lock' = [lock EXCEPT ![Wanted(x)] = x]
    /\ UNCHANGED <<memberTables, tx>>

\* isRetryableTransactionError
TriedAgain(t) == t.kind # "accept" /\ t.attempt < MaxAttempts
Again(x) == [tx[x] EXCEPT !.attempt = @ + 1, !.authorized = FALSE]

\* The victim of a deadlock.
Broken(x) ==
    /\ Waits(x) /\ InCycle(x)
    /\ IF TriedAgain(tx[x]) THEN tx' = [tx EXCEPT ![x] = Again(x)] ELSE tx' = [tx EXCEPT ![x] = Idle]
    /\ lock' = Unlocked(x)
    /\ UNCHANGED memberTables

\* Any other failure; of "send", the mail is lost.
RollBack(x) == Busy(x) /\ EndTx(x) /\ UNCHANGED memberTables

-----------------------------------------------------------------------------
Begin(x, t) ==
    /\ ~Busy(x)
    /\ tx' = [tx EXCEPT ![x] = t]
    /\ UNCHANGED <<memberTables, lock>>

New(kind, a, i, role, version) ==
    [kind |-> kind, a |-> a, i |-> i, role |-> role, version |-> version, attempt |-> 1,
     authorized |-> FALSE, seen |-> NoMember, epoch |-> 0]

BeginOwner(x) ==
    \/ \E a \in Accounts, r \in Roles : Unused # {} /\ Begin(x, New("issue", a, NoInvite, r, 0))
    \/ \E i \in Invites \ Unused, kind \in {"resend", "revoke"} :
         Begin(x, New(kind, invite[i].to, i, "viewer", 0))
    \/ \E a \in Accounts :
         /\ member[a].state = "active"
         /\ \/ \E r \in Roles : Begin(x, New("update", a, NoInvite, r, member[a].version))
            \/ Begin(x, New("remove", a, NoInvite, "viewer", member[a].version))
    \/ \E a \in Accounts : ~archived /\ Begin(x, New("archive", a, NoInvite, "viewer", 0))
BeginAccept(x) == \E i \in mailed : Begin(x, New("accept", invite[i].to, i, "viewer", 0))
BeginEdit(x) == \E a \in Accounts : member[a].state # "none" /\ Begin(x, New("edit", a, NoInvite, "viewer", 0))

-----------------------------------------------------------------------------
Committing(x, kind) == Busy(x) /\ tx[x].kind = kind /\ Missing(x) = {}

Put(i, state) == [invite EXCEPT ![i].state = state]
Expired(S) == [i \in Invites |-> IF i \in S THEN [invite[i] EXCEPT !.state = "expired"] ELSE invite[i]]
\* The number a new invitation gets.
Newest == {i \in Unused : \A j \in Unused : i <= j}
Issued(inv, i, a, role) == [inv EXCEPT ![i] = [to |-> a, role |-> role, late |-> FALSE, state |-> "pending"]]
\* The token is sent when the transaction has committed.
ThenSend(x, i) ==
    /\ tx' = [tx EXCEPT ![x] = New("send", tx[x].a, i, "viewer", 0)]
    /\ lock' = Unlocked(x)

Issue(x) ==
    LET a == tx[x].a
        over == {i \in Pending(a) : invite[i].late}
    IN  /\ Committing(x, "issue")
        /\ \/ /\ archived \/ Pending(a) # over \/ Unused = {}
              /\ EndTx(x) /\ UNCHANGED invite
           \/ /\ ~archived /\ Pending(a) = over
              /\ \E n \in Newest :
                   /\ invite' = Issued(Expired(over), n, a, tx[x].role)
                   /\ ThenSend(x, n)
        /\ UNCHANGED <<mailed, member, epoch, archived, edits>>

Resend(x) ==
    LET i == tx[x].i
    IN  /\ Committing(x, "resend")
        /\ \/ /\ archived \/ invite[i].state # "pending"
              /\ EndTx(x) /\ UNCHANGED invite
           \/ /\ ~archived /\ invite[i].state = "pending" /\ invite[i].late
              /\ EndTx(x) /\ invite' = Put(i, "expired")
           \/ /\ ~archived /\ invite[i].state = "pending" /\ ~invite[i].late
              /\ \E n \in Newest :
                   /\ invite' = Issued(Put(i, "superseded"), n, invite[i].to, invite[i].role)
                   /\ ThenSend(x, n)
        /\ UNCHANGED <<mailed, member, epoch, archived, edits>>

Mail(x) ==
    /\ Committing(x, "send")
    /\ mailed' = mailed \cup {tx[x].i}
    /\ EndTx(x)
    /\ UNCHANGED <<invite, member, epoch, archived, edits>>

Revoke(x) ==
    LET i == tx[x].i
    IN  /\ Committing(x, "revoke")
        /\ IF archived \/ invite[i].state # "pending" THEN UNCHANGED invite
           ELSE invite' = Put(i, IF invite[i].late THEN "expired" ELSE "revoked")
        /\ EndTx(x)
        /\ UNCHANGED <<mailed, member, epoch, archived, edits>>

Activated(m, role) == [state |-> "active", role |-> role, version |-> m.version + 1]
Deactivated(m) == [m EXCEPT !.state = "inactive", !.version = m.version + 1]

\* What was accepted is answered again and changes nothing.
Accept(x) ==
    LET i == tx[x].i
        a == tx[x].a
        stays == member[a].state = "active"
    IN  /\ Committing(x, "accept")
        /\ \/ /\ archived \/ invite[i].state # "pending"
                 \/ (~invite[i].late /\ IF stays THEN member[a].role # invite[i].role
                                        ELSE member[a].version = MaxVersion)
              /\ UNCHANGED <<invite, member, epoch>>
           \/ /\ ~archived /\ invite[i].state = "pending" /\ invite[i].late
              /\ invite' = Put(i, "expired")
              /\ UNCHANGED <<member, epoch>>
           \/ /\ ~archived /\ invite[i].state = "pending" /\ ~invite[i].late
              /\ IF stays THEN member[a].role = invite[i].role /\ UNCHANGED member
                 ELSE /\ member[a].version < MaxVersion
                      /\ member' = [member EXCEPT ![a] = Activated(@, invite[i].role)]
              /\ invite' = Put(i, "accepted")
              /\ epoch' = epoch + 1
        /\ EndTx(x)
        /\ UNCHANGED <<mailed, archived, edits>>

\* The version the owner saw is still that of the membership.
Current(t) == ~archived /\ member[t.a].state = "active" /\ member[t.a].version = t.version
                /\ t.version < MaxVersion

UpdateMember(x) ==
    LET t == tx[x]
    IN  /\ Committing(x, "update")
        /\ IF Current(t) /\ member[t.a].role # t.role
           THEN /\ member' = [member EXCEPT ![t.a] = Activated(@, t.role)]
                /\ epoch' = epoch + 1
           ELSE UNCHANGED <<member, epoch>>
        /\ EndTx(x)
        /\ UNCHANGED <<invite, mailed, archived, edits>>

RemoveMember(x) ==
    LET t == tx[x]
    IN  /\ Committing(x, "remove")
        /\ IF Current(t)
           THEN /\ member' = [member EXCEPT ![t.a] = Deactivated(@)]
                /\ epoch' = epoch + 1
           ELSE UNCHANGED <<member, epoch>>
        /\ EndTx(x)
        /\ UNCHANGED <<invite, mailed, archived, edits>>

Archive(x) ==
    /\ Committing(x, "archive")
    /\ archived' = TRUE
    /\ EndTx(x)
    /\ UNCHANGED <<invite, mailed, member, epoch, edits>>

-----------------------------------------------------------------------------
(* An edit of a member: authorize, apply, recheck.                            *)

\* Mutant: a membership that is no longer active counts.
MayEdit_Inactive(a) == member[a].role = "editor"
\* findActive and the matrix of roles
MayEdit(a) == member[a].state = "active" /\ member[a].role = "editor"

Authorize(x) ==
    LET a == tx[x].a
    IN  /\ Committing(x, "edit") /\ ~tx[x].authorized
        /\ IF MayEdit(a) /\ ~archived
           THEN /\ tx' = [tx EXCEPT ![x] = [@ EXCEPT !.authorized = TRUE, !.seen = member[a],
                                                    !.epoch = epoch]]
                /\ UNCHANGED lock
           ELSE EndTx(x)
        /\ UNCHANGED memberTables

StillHolds(x) == member[tx[x].a] = tx[x].seen /\ epoch = tx[x].epoch

Edit(x) ==
    /\ Committing(x, "edit") /\ tx[x].authorized
    /\ IF StillHolds(x) THEN edits' = [edits EXCEPT ![tx[x].a] = x] ELSE UNCHANGED edits
    /\ EndTx(x)
    /\ UNCHANGED <<invite, mailed, member, epoch, archived>>

-----------------------------------------------------------------------------
Expire(i) ==
    /\ invite[i].state = "pending" /\ ~invite[i].late
    /\ invite' = [invite EXCEPT ![i].late = TRUE]
    /\ UNCHANGED <<mailed, member, epoch, archived, edits, tx, lock>>
\* A member reads what was edited, and the next edit is told from the last.
Read(a) ==
    /\ edits[a] # Idle
    /\ edits' = [edits EXCEPT ![a] = Idle]
    /\ UNCHANGED <<invite, mailed, member, epoch, archived, tx, lock>>

Transact(x) ==
    \/ Issue(x) \/ Resend(x) \/ Mail(x) \/ Revoke(x) \/ Accept(x)
    \/ UpdateMember(x) \/ RemoveMember(x) \/ Archive(x)
    \/ Authorize(x) \/ Edit(x)

MembersNext ==
    \/ \E x \in Requests :
         \/ BeginOwner(x) \/ BeginAccept(x) \/ BeginEdit(x)
         \/ Lock(x) \/ Broken(x) \/ RollBack(x) \/ Transact(x)
    \/ \E i \in Invites : Expire(i)
    \/ \E a \in Accounts : Read(a)

MembersSpec == MembersInit /\ [][MembersNext]_membersVars

-----------------------------------------------------------------------------
(* No edit is committed by an account that is not an editor at that moment,   *)
(* whatever its owner changed since the request began or was tried again.     *)
EditsAuthorized ==
    \A a \in Accounts : edits'[a] \notin {edits[a], Idle}
                          => member[a].state = "active" /\ member[a].role = "editor"

(* First lock wins: a change of a member's role, a removal or an acceptance   *)
(* is done before an edit is authorized or after it has committed, so that    *)
(* the recheck at its end never has to undo what was applied.                 *)
AuthorizationHolds == \A x \in Requests : Busy(x) /\ tx[x].authorized => StillHolds(x)

(* A membership begins only with the newest invitation of its account, while  *)
(* that one is pending and not overdue: a token that was revoked, replaced or *)
(* accepted before gives nothing, however late its request is served.         *)
NewestInvitationOnly ==
    \A a \in Accounts : member[a].state # "active" /\ member'[a].state = "active" =>
      \E i \in Invites :
        /\ invite[i].to = a /\ invite[i].state = "pending" /\ ~invite[i].late
        /\ invite'[i].state = "accepted"
        /\ \A j \in Invites : invite[j].state # "none" /\ invite[j].to = a => j <= i

(* The role of a member changes only by its owner: an invitation with another *)
(* role that is accepted late does not change it.                             *)
RoleChangedByOwner ==
    \A a \in Accounts :
      member[a].state = "active" /\ member'[a].state = "active" /\ member[a].role # member'[a].role
        => \E x \in Requests : Busy(x) /\ tx[x].kind = "update" /\ ~Busy(x)'

(* No change of access goes by without a new epoch, by which open streams and *)
(* authorizations learn of it.                                                *)
ChangesAnnounced == member' # member => epoch' > epoch

(* Edits are committed only under the access of that moment, and access comes *)
(* only from the newest invitation and the owner, announced with a new epoch. *)
AccessIsCurrent ==
    /\ [](MembersTypeOK /\ AuthorizationHolds)
    /\ [][/\ EditsAuthorized /\ ChangesAnnounced /\ RoleChangedByOwner
          /\ NewestInvitationOnly]_membersVars
=============================================================================
