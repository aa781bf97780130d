--------------------------- MODULE ShareAdmission ---------------------------
(***************************************************************************)
(* Viewers of one protected link.  A viewer presents a reference to the    *)
(* share and a password; the admission reads the share, verifies the       *)
(* password outside any transaction and then locks the share and writes a  *)
(* grant for the viewer's cookie family (PasswordShareService.admit).      *)
(* Meanwhile the owner rotates the link, changes the password or closes    *)
(* the share.  Wrong passwords are counted in Redis per link and per       *)
(* address, with one retry of a call whose reply is lost.  With a grant a  *)
(* viewer opens a context and reads the pinned revision through it         *)
(* (PublicShareResolver, PublicContextStore).  A tick is 15 minutes.       *)
(***************************************************************************)
EXTENDS Naturals, FiniteSets

CONSTANTS
  Viewers,
  FamilyTtl,       \* 30 minutes
  LockTtl,         \* 15 minutes, for counting failures and for a lock
  LinkLimit,       \* 5 failures lock a link
  AddressLimit,    \* 10 failures lock an address
  MaxGen, MaxTries, MaxTime      \* bounds: owner's changes, admissions, ticks

AdmissionAssumption ==
  /\ {FamilyTtl, LockTtl, LinkLimit, AddressLimit, MaxGen, MaxTries, MaxTime} \subseteq Nat
  /\ LinkLimit > 0 /\ AddressLimit > 0 /\ MaxTime > 0

VARIABLES
  now,
  share,        \* the row of board_shares with its credential
  issued,       \* links, passwords and credential rows issued so far
  families,     \* rows of share_password_session_families
  grants,       \* rows of share_password_session_grants
  cookie,       \* by viewer: the family its cookie names
  fails,        \* the counting script's sorted sets, one entry per nonce
  locks,        \* the counting script's locks: a key and when it ends
  context,      \* by viewer: the stored context it last opened
  try,          \* by viewer: the admission under way
  tries, wrong  \* history: admissions so far, those with a wrong password

vars == <<now, share, issued, families, grants, cookie, fails, locks, context, try, tries, wrong>>

\* A link or a password is a number; 0 is a password that was never issued.
NoTry == [stage |-> "idle", id |-> 0, ref |-> [kind |-> "secret", n |-> 0], pw |-> 0,
          seen |-> [cver |-> 0, cred |-> 0], sent |-> 0]
NoContext == [until |-> 0, pin |-> 0, pub |-> 0, acc |-> 0, tok |-> 0, cred |-> 0]

Init ==
  /\ now = 1
  /\ share = [active |-> TRUE, policy |-> "L", tok |-> 1, acc |-> 1, cver |-> 0, cred |-> 0,
              pub |-> 1, pin |-> 1]
  /\ issued = [tok |-> 1, cred |-> 0]
  /\ families = {} /\ grants = {} /\ fails = {} /\ locks = {} /\ wrong = {}
  /\ cookie = [v \in Viewers |-> 0]
  /\ context = [v \in Viewers |-> NoContext]
  /\ try = [v \in Viewers |-> NoTry]
  /\ tries = 0

----------------------------------------------------------------------------
(* The owner *)

Rotate(s) == [s EXCEPT !.tok = issued.tok + 1, !.acc = @ + 1]

Regenerate(s) == [s EXCEPT !.cred = issued.cred + 1, !.cver = @ + 1, !.acc = @ + 1]

Enable(s) == [s EXCEPT !.policy = "P", !.cred = issued.cred + 1, !.cver = 1, !.acc = @ + 1]
Disable(s) == [s EXCEPT !.policy = "L", !.cred = 0, !.cver = 0, !.acc = @ + 1]
Revoke(s) == [Disable(s) EXCEPT !.active = FALSE]
Republish(s, pin) == [s EXCEPT !.active = TRUE, !.tok = issued.tok + 1, !.acc = @ + 1,
                               !.pub = @ + 1, !.pin = pin]
UpdatePin(s, pin) == [s EXCEPT !.pub = @ + 1, !.pin = pin]

\* invalidatePasswordAccess is called wherever a link or a password ends.
Invalidated(next) ==
  IF (share.cred # next.cred /\ share.cred # 0) \/ (share.tok # next.tok /\ share.active)
  THEN {} ELSE grants

OwnerActs(next) ==
  /\ share' = next
  /\ issued' = [tok |-> IF next.tok > issued.tok THEN next.tok ELSE issued.tok,
                cred |-> IF next.cred > issued.cred THEN next.cred ELSE issued.cred]
  /\ grants' = Invalidated(next)
  /\ UNCHANGED <<now, families, cookie, fails, locks, context, try, tries, wrong>>

Owner ==
  /\ share.acc + share.pub < MaxGen
  /\ \/ share.active /\ OwnerActs(Rotate(share))
     \/ share.active /\ share.policy = "P" /\ OwnerActs(Regenerate(share))
     \/ share.active /\ share.policy = "L" /\ OwnerActs(Enable(share))
     \/ share.active /\ share.policy = "P" /\ OwnerActs(Disable(share))
     \/ share.active /\ OwnerActs(Revoke(share))
     \/ \E pin \in 1..2 : \/ ~share.active /\ OwnerActs(Republish(share, pin))
                          \/ share.active /\ pin # share.pin /\ OwnerActs(UpdatePin(share, pin))

----------------------------------------------------------------------------
(* The counting script *)

KeysOf(ref) == {<<"link", ref>>, <<"address">>}
Locked(keys) == \E l \in locks : l.key \in keys /\ l.until > now

LimitOf(key) == IF key = <<"address">> THEN AddressLimit ELSE LinkLimit
Recent(key, events) == {e \in events : e.key = key /\ e.at + LockTtl > now}

\* Mutant: every try of a call has a nonce of its own.
Nonce_PerTry(t) == <<t.id, t.sent>>
Nonce(t) == <<t.id, 0>>

CountFailure(t) ==
  LET keys == KeysOf(t.ref)
      counted == {e \in fails : ~(e.key \in keys /\ e.nonce = Nonce(t))}
                   \cup {[key |-> k, nonce |-> Nonce(t), at |-> now] : k \in keys}
      full == {k \in keys : Cardinality(Recent(k, counted)) >= LimitOf(k)} IN
  IF Locked(keys) THEN UNCHANGED <<fails, locks>>
  ELSE /\ fails' = counted
       /\ locks' = {l \in locks : l.key \notin full}
                     \cup {[key |-> k, until |-> now + LockTtl] : k \in full}

----------------------------------------------------------------------------
(* Admission *)

References == [kind : {"secret"}, n : 1..issued.tok] \cup [kind : {"locator"}, n : 1..share.acc]
Finds(ref) == IF ref.kind = "secret" THEN share.tok = ref.n ELSE TRUE

\* matchesPublicReference
Matches(ref) == IF ref.kind = "secret" THEN share.tok = ref.n ELSE share.acc = ref.n

Continue(v, next) == try' = [try EXCEPT ![v] = next]

\* assertUnlocked
Begin(v, ref, pw) ==
  /\ try[v].stage = "idle" /\ tries < MaxTries
  /\ ~Locked(KeysOf(ref))
  /\ tries' = tries + 1
  /\ Continue(v, [NoTry EXCEPT !.stage = "checked", !.id = tries + 1, !.ref = ref, !.pw = pw])
  /\ UNCHANGED <<now, share, issued, families, grants, cookie, fails, locks, context, wrong>>

\* The share is read and the password verified against what was read.
Verify(v) ==
  LET t == try[v]
      ok == Finds(t.ref) /\ share.active /\ share.policy = "P" /\ share.cred = t.pw IN
  /\ t.stage = "checked"
  /\ Continue(v, [t EXCEPT !.stage = IF ok THEN "right" ELSE "wrong",
                           !.seen = [cver |-> share.cver, cred |-> share.cred]])
  /\ wrong' = IF ok THEN wrong ELSE wrong \cup {[id |-> t.id, ref |-> t.ref]}
  /\ UNCHANGED <<now, share, issued, families, grants, cookie, fails, locks, context, tries>>

\* A script's reply is lost: it is called once more, then the admission fails.
AfterLost(v) ==
  IF try[v].sent = 0 THEN Continue(v, [try[v] EXCEPT !.sent = 1]) ELSE Continue(v, NoTry)

CallLost(v) ==
  /\ try[v].stage \in {"wrong", "right"}
  /\ AfterLost(v)
  /\ UNCHANGED <<now, share, issued, families, grants, cookie, fails, locks, context, tries, wrong>>

RecordFailure(v) ==
  /\ try[v].stage = "wrong"
  /\ CountFailure(try[v])
  /\ (Continue(v, NoTry) \/ AfterLost(v))
  /\ UNCHANGED <<now, share, issued, families, grants, cookie, context, tries, wrong>>

ClearLink(v) ==
  LET link == <<"link", try[v].ref>> IN
  /\ try[v].stage = "right"
  /\ fails' = {e \in fails : e.key # link}
  /\ locks' = {l \in locks : l.key # link}
  /\ (Continue(v, [try[v] EXCEPT !.stage = "granting"]) \/ AfterLost(v))
  /\ UNCHANGED <<now, share, issued, families, grants, cookie, context, tries, wrong>>

\* Mutant: the credential is not compared with the one that was verified.
StillVerified_Unchecked(t) == TRUE
StillVerified(t) == t.seen = [cver |-> share.cver, cred |-> share.cred]

Admissible(t) ==
  share.active /\ share.policy = "P" /\ Matches(t.ref) /\ StillVerified(t)

Live(set) == {r \in set : r.exp > now}

GrantExpiry(exp) == IF exp < now + FamilyTtl THEN exp ELSE now + FamilyTtl

Grant(v) ==
  LET t == try[v]
      own == {f \in Live(families) : f.id = cookie[v]}
      family == IF own # {} THEN CHOOSE f \in own : TRUE
                ELSE [id |-> t.id, exp |-> now + FamilyTtl] IN
  /\ t.stage = "granting"
  /\ Continue(v, NoTry)
  /\ IF Admissible(t)
     THEN /\ families' = families \cup {family}
          /\ cookie' = [cookie EXCEPT ![v] = family.id]
          /\ grants' = {g \in grants : g.fam # family.id} \cup
               {[fam |-> family.id, acc |-> share.acc, cver |-> share.cver,
                 exp |-> GrantExpiry(family.exp), ref |-> t.ref, pw |-> t.pw]}
     ELSE UNCHANGED <<families, cookie, grants>>
  /\ UNCHANGED <<now, share, issued, fails, locks, context, tries, wrong>>

\* cleanupExpired, at most a batch at a time.
CleanUp ==
  /\ \E gone \in SUBSET (grants \ Live(grants)) : grants' = grants \ gone
  /\ families' = {f \in families : f.exp > now \/ \E g \in grants' : g.fam = f.id}
  /\ UNCHANGED <<now, share, issued, cookie, fails, locks, context, try, tries, wrong>>

----------------------------------------------------------------------------
(* Reading the board through the link *)

\* resolvePasswordGrant
GrantState(v) ==
  LET own == {g \in grants : g.fam = cookie[v]} IN
  IF ~\E f \in Live(families) : f.id = cookie[v] THEN "invalid-family"
  ELSE IF own = {} THEN "no-grant"
  ELSE IF \E g \in own : g.acc = share.acc /\ g.cver = share.cver /\ g.exp > now
  THEN "current" ELSE "not-found"

LetsIn(v) == share.policy = "P" => GrantState(v) = "current"

\* withInitial, and the context it stores in Redis for less than a tick.
OpenContext(v, ref) ==
  /\ share.active /\ Matches(ref) /\ LetsIn(v)
  /\ context' = [context EXCEPT ![v] =
       [until |-> now + 1, pin |-> share.pin, pub |-> share.pub, acc |-> share.acc,
        tok |-> share.tok, cred |-> share.cred]]
  /\ UNCHANGED <<now, share, issued, families, grants, cookie, fails, locks, try, tries, wrong>>

SameLink(c) == c.pin = share.pin /\ c.pub = share.pub /\ c.acc = share.acc

\* withContext serves what the context names.
Accepts(v) ==
  share.active /\ SameLink(context[v]) /\ now < context[v].until /\ LetsIn(v)

Tick ==
  /\ now < MaxTime
  /\ now' = now + 1
  /\ fails' = {e \in fails : e.at + LockTtl > now + 1}
  /\ locks' = {l \in locks : l.until > now + 1}
  /\ context' = [v \in Viewers |-> IF context[v].until > now + 1 THEN context[v] ELSE NoContext]
  /\ UNCHANGED <<share, issued, families, grants, cookie, try, tries, wrong>>

Next ==
  \/ Owner \/ CleanUp \/ Tick
  \/ \E v \in Viewers :
       \/ \E ref \in References :
            \/ \E pw \in 0..issued.cred : Begin(v, ref, pw)
            \/ OpenContext(v, ref)
       \/ Verify(v) \/ CallLost(v) \/ RecordFailure(v) \/ ClearLink(v) \/ Grant(v)

Spec == Init /\ [][Next]_vars

----------------------------------------------------------------------------
(* Properties *)

TypeOK ==
  /\ now \in 1..MaxTime /\ tries \in 0..MaxTries
  /\ share.policy \in {"L", "P"}
  /\ (share.policy = "P") <=> (share.cred # 0)
  /\ \A v \in Viewers :
       try[v].stage \in {"idle", "checked", "right", "wrong", "granting"}
  /\ \A f, g \in families : f.id = g.id => f = g
  /\ \A g \in grants : \E f \in families : f.id = g.fam
  /\ \A k, l \in locks : k.key = l.key => k = l

\* A grant that is there is current and lasts as long as its family: a viewer
\* who comes back is let in or asked for the password, never told that the link
\* does not exist.
GrantsAreCurrent ==
  \A v \in Viewers : share.active /\ share.policy = "P" => GrantState(v) # "not-found"

\* Whoever holds a grant presented the password and the link of today, however
\* the owner's changes fell between the steps of the admission.
GrantedKnewPassword ==
  \A g \in grants : g.pw = share.cred /\ (g.ref.kind = "secret" => g.ref.n = share.tok)

\* A context is accepted only from viewers who had today's link and password.
ContextKnewLink ==
  \A v \in Viewers : Accepts(v) =>
    context[v].tok = share.tok /\ context[v].cred = share.cred /\ context[v].pin = share.pin

\* Who is inside knew the link and the password of today.
InsideKnewPassword ==
  TypeOK /\ GrantsAreCurrent /\ GrantedKnewPassword /\ ContextKnewLink

\* Nobody is locked out before the limit: a retry of a call whose reply was
\* lost does not count a failure twice.
LocksNeedFailures ==
  \A l \in locks : l.until > now =>
    Cardinality({w \in wrong : l.key \in KeysOf(w.ref)}) >= LimitOf(l.key)

\* A lock is not cut short by the failures or the admissions of another link.
LocksLast ==
  \A l \in locks : l \notin locks' =>
    \/ now' >= l.until
    \/ \E v \in Viewers : try[v].stage = "right" /\ l.key = <<"link", try[v].ref>>

\* A lock-out needs that many failures, lost replies and retries included, and
\* lasts as long as it says.
LocksAreEarned == [](TypeOK /\ LocksNeedFailures) /\ [][LocksLast]_vars
=============================================================================
