----------------------------- MODULE Shares_proofs -----------------------------
(* Published boards, proved: whoever is inside a protected link knew the link  *)
(* and the password of today, locks are earned, the link tells the truth       *)
(* whatever dies between the steps of its transitions, and limits are what     *)
(* they are said to be - for any number of viewers, requests, revisions,       *)
(* changes of the owner and failures.                                          *)
EXTENDS ShareAdmission, SharePublication, RateLimits, SequenceTheorems, FiniteSetTheorems, TLAPS

(***************************************************************************)
(* The inductive invariant                                                 *)
(*                                                                         *)
(* Grants are there only while the link has a password, and name its       *)
(* generation; that they still do after the owner's changes is because     *)
(* every change either drops them or finds none.  A grant lasts as long as *)
(* its family because no family outlasts the lifetime of a new grant.      *)
(* What an admission verified is what its password was compared with.      *)
(***************************************************************************)

RefType == [kind : {"secret", "locator"}, n : Nat]
ShareType == [active : BOOLEAN, policy : {"L", "P"}, tok : Nat, acc : Nat, cver : Nat,
              cred : Nat, pub : Nat, pin : Nat]
TryType == [stage : {"idle", "checked", "right", "wrong", "granting"}, id : Nat, ref : RefType,
            pw : Nat, seen : [cver : Nat, cred : Nat], sent : Nat]
ContextType == [until : Nat, pin : Nat, pub : Nat, acc : Nat, tok : Nat, cred : Nat]
FamilyType == [id : Nat, exp : Nat]
GrantType == [fam : Nat, acc : Nat, cver : Nat, exp : Nat, ref : RefType, pw : Nat]

\* The owner's row: a password while the policy asks for one, and only then.
ShareSound ==
  /\ now \in 1..MaxTime /\ share \in ShareType /\ issued \in [tok : Nat, cred : Nat]
  /\ (share.policy = "P") <=> (share.cred # 0)
  /\ share.policy = "P" => share.active
  /\ share.tok <= issued.tok /\ share.cred <= issued.cred

\* An admission under way has a number of its own, and what it saw is what it verified.
TrySound(v) ==
  /\ try[v] \in TryType
  /\ try[v].stage # "idle" =>
       /\ try[v].id \in 1..tries
       /\ \A f \in families : f.id # try[v].id
       /\ \A u \in Viewers : try[u].stage # "idle" /\ try[u].id = try[v].id => u = v
  /\ try[v].stage \in {"right", "granting"} => try[v].pw = try[v].seen.cred
  /\ try[v].stage = "wrong" => [id |-> try[v].id, ref |-> try[v].ref] \in wrong

TriesSound ==
  /\ tries \in 0..MaxTries /\ try = [v \in Viewers |-> try[v]]
  /\ \A v \in Viewers : TrySound(v)

FamiliesSound ==
  /\ families \subseteq FamilyType
  /\ \A f \in families : f.id \in 1..tries /\ f.exp <= now + FamilyTtl
  /\ \A f, g \in families : f.id = g.id => f = g

GrantsSound ==
  /\ grants \subseteq GrantType
  /\ \A g \in grants : \E f \in families : f.id = g.fam /\ f.exp = g.exp
  /\ \A g \in grants :
       /\ share.policy = "P" /\ g.acc = share.acc /\ g.cver = share.cver /\ g.pw = share.cred
       /\ g.ref.kind = "secret" => g.ref.n = share.tok

ContextsSound ==
  /\ context = [v \in Viewers |-> context[v]]
  /\ \A v \in Viewers :
       /\ context[v] \in ContextType /\ context[v].acc <= share.acc
       /\ context[v].acc = share.acc /\ context[v].until > now =>
            context[v].tok = share.tok /\ context[v].cred = share.cred

\* The counted failures are those of admissions with a wrong password, each once.
FailuresSound ==
  /\ IsFiniteSet(wrong)
  /\ \A e \in fails :
       /\ e.at \in Nat
       /\ \E w \in wrong : e.nonce = <<w.id, 0>> /\ e.key \in KeysOf(w.ref)
       /\ e = [key |-> e.key, nonce |-> e.nonce, at |-> e.at]
  /\ \A d, e \in fails : d.key = e.key /\ d.nonce = e.nonce => d = e

Earned(bucket) == Cardinality({w \in wrong : bucket \in KeysOf(w.ref)}) >= LimitOf(bucket)

LocksSound ==
  /\ \A l \in locks : l.until \in Nat /\ Earned(l.key)
  /\ \A k, l \in locks : k.key = l.key => k = l

AInv ==
  /\ ShareSound /\ TriesSound /\ FamiliesSound /\ GrantsSound /\ ContextsSound
  /\ FailuresSound /\ LocksSound

\* The invariant has what the runs check.
LEMMA AInvPromises == ASSUME AdmissionAssumption PROVE AInv => InsideKnewPassword /\ LocksNeedFailures
  <1> SUFFICES ASSUME AInv PROVE InsideKnewPassword /\ LocksNeedFailures
    OBVIOUS
  <1>1. TypeOK
    <2>1. \A v \in Viewers : try[v].stage \in {"idle", "checked", "right", "wrong", "granting"}
      BY DEF AInv, TriesSound, TrySound, TryType
    <2>2. /\ now \in 1..MaxTime /\ tries \in 0..MaxTries
          /\ share.policy \in {"L", "P"}
          /\ (share.policy = "P") <=> (share.cred # 0)
      BY DEF AInv, ShareSound, TriesSound, ShareType
    <2>3. \A g \in grants : \E f \in families : f.id = g.fam
      BY DEF AInv, GrantsSound
    <2>4. QED
      BY <2>1, <2>2, <2>3 DEF AInv, FamiliesSound, LocksSound, TypeOK
  <1>2. GrantsAreCurrent
    <2>1. ASSUME NEW v \in Viewers, NEW g \in grants, g.fam = cookie[v],
                 NEW f \in families, f.id = cookie[v], f.exp > now
          PROVE  g.acc = share.acc /\ g.cver = share.cver /\ g.exp > now
      BY <2>1 DEF AInv, GrantsSound, FamiliesSound
    <2>2. QED
      BY <2>1 DEF GrantsAreCurrent, GrantState, Live
  <1>3. GrantedKnewPassword /\ ContextKnewLink
    BY DEF AInv, ShareSound, GrantsSound, ContextsSound, GrantedKnewPassword, ContextKnewLink, Accepts,
           SameLink, ContextType
  <1>4. LocksNeedFailures
    BY DEF AInv, LocksSound, Earned, LocksNeedFailures
  <1>5. QED
    BY <1>1, <1>2, <1>3, <1>4 DEF InsideKnewPassword

\* A link without a password, and nobody at it.
LEMMA InitAInv == ASSUME AdmissionAssumption PROVE Init => AInv
  <1> SUFFICES ASSUME Init PROVE AInv
    OBVIOUS
  <1>1. ShareSound
    BY DEF Init, ShareSound, ShareType, AdmissionAssumption
  <1>2. TriesSound
    BY DEF Init, TriesSound, TrySound, TryType, RefType, NoTry, AdmissionAssumption
  <1>3. FamiliesSound /\ GrantsSound
    BY DEF Init, FamiliesSound, GrantsSound
  <1>4. ContextsSound
    BY DEF Init, ContextsSound, ContextType, NoContext
  <1>5. FailuresSound /\ LocksSound
    BY FS_EmptySet DEF Init, FailuresSound, LocksSound
  <1>6. QED
    BY <1>1, <1>2, <1>3, <1>4, <1>5 DEF AInv

(***************************************************************************)
(* The owner                                                               *)
(***************************************************************************)

\* What a change of the owner does to the row: the generation grows with the link and
\* the credential, and grants stay only if neither changes.
LEMMA OwnerMoves ==
  ASSUME AdmissionAssumption, AInv, Owner
  PROVE  \E next \in ShareType :
           /\ OwnerActs(next) /\ next.acc >= share.acc
           /\ (next.policy = "P") <=> (next.cred # 0)
           /\ next.policy = "P" => next.active
           /\ next.acc = share.acc => next.tok = share.tok /\ next.cred = share.cred
           /\ grants' # {} => next = [share EXCEPT !.pub = next.pub, !.pin = next.pin]
  <1> DEFINE Moved(next) ==
           /\ next \in ShareType
           /\ OwnerActs(next) /\ next.acc >= share.acc
           /\ (next.policy = "P") <=> (next.cred # 0)
           /\ next.policy = "P" => next.active
           /\ next.acc = share.acc => next.tok = share.tok /\ next.cred = share.cred
           /\ grants' # {} => next = [share EXCEPT !.pub = next.pub, !.pin = next.pin]
  <1>1. /\ share \in ShareType /\ issued \in [tok : Nat, cred : Nat]
        /\ (share.policy = "P") <=> (share.cred # 0)
        /\ share.policy = "P" => share.active
        /\ share.tok <= issued.tok /\ share.cred <= issued.cred
        /\ share.policy # "P" => grants = {}
    BY DEF AInv, ShareSound, GrantsSound
  <1>2. /\ issued.tok + 1 \in Nat /\ issued.cred + 1 \in Nat \ {0} /\ share.acc + 1 \in Nat
        /\ share.cver + 1 \in Nat /\ share.pub + 1 \in Nat /\ share.acc + 1 > share.acc
        /\ share.tok # issued.tok + 1 /\ share.cred # issued.cred + 1
    BY <1>1 DEF ShareType
  <1>3. ASSUME NEW next \in ShareType, OwnerActs(next), next.acc = share.acc + 1,
               (next.policy = "P") <=> (next.cred # 0), next.policy = "P" => next.active,
               grants # {} => Invalidated(next) = {}
        PROVE  Moved(next)
    BY <1>1, <1>2, <1>3 DEF OwnerActs, Invalidated, ShareType
  <1>4. CASE share.active /\ OwnerActs(Rotate(share))
    <2> DEFINE next == Rotate(share)
    <2>1. /\ next \in ShareType /\ next.acc = share.acc + 1 /\ next.tok = issued.tok + 1
          /\ next.policy = share.policy /\ next.cred = share.cred /\ next.active = share.active
      BY <1>1, <1>2 DEF Rotate, ShareType
    <2>2. Invalidated(next) = {}
      BY <1>2, <1>4, <2>1 DEF Invalidated
    <2>3. Moved(next)
      BY <1>1, <1>3, <1>4, <2>1, <2>2
    <2>4. QED
      BY <2>3
  <1>5. CASE share.active /\ share.policy = "P" /\ OwnerActs(Regenerate(share))
    <2> DEFINE next == Regenerate(share)
    <2>1. /\ next \in ShareType /\ next.acc = share.acc + 1 /\ next.cred = issued.cred + 1
          /\ next.policy = share.policy /\ next.active = share.active
      BY <1>1, <1>2 DEF Regenerate, ShareType
    <2>2. Invalidated(next) = {}
      BY <1>1, <1>2, <1>5, <2>1 DEF Invalidated
    <2>3. Moved(next)
      BY <1>1, <1>2, <1>3, <1>5, <2>1, <2>2
    <2>4. QED
      BY <2>3
  <1>6. CASE share.active /\ share.policy = "L" /\ OwnerActs(Enable(share))
    <2> DEFINE next == Enable(share)
    <2>1. /\ next \in ShareType /\ next.acc = share.acc + 1 /\ next.cred = issued.cred + 1
          /\ next.policy = "P" /\ next.active = share.active
      BY <1>1, <1>2 DEF Enable, ShareType
    <2>2. Moved(next)
      BY <1>1, <1>2, <1>3, <1>6, <2>1
    <2>3. QED
      BY <2>2
  <1>7. CASE share.active /\ share.policy = "P" /\ OwnerActs(Disable(share))
    <2> DEFINE next == Disable(share)
    <2>1. /\ next \in ShareType /\ next.acc = share.acc + 1 /\ next.cred = 0 /\ next.policy = "L"
      BY <1>1, <1>2 DEF Disable, ShareType
    <2>2. Invalidated(next) = {}
      BY <1>1, <1>7, <2>1 DEF Invalidated
    <2>3. Moved(next)
      BY <1>3, <1>7, <2>1, <2>2
    <2>4. QED
      BY <2>3
  <1>8. CASE share.active /\ OwnerActs(Revoke(share))
    <2> DEFINE next == Revoke(share)
    <2>1. /\ next \in ShareType /\ next.acc = share.acc + 1 /\ next.cred = 0 /\ next.policy = "L"
      BY <1>1, <1>2 DEF Revoke, Disable, ShareType
    <2>2. grants # {} => Invalidated(next) = {}
      BY <1>1, <2>1 DEF Invalidated
    <2>3. Moved(next)
      BY <1>3, <1>8, <2>1, <2>2
    <2>4. QED
      BY <2>3
  <1>9. ASSUME NEW pin \in 1..2, ~share.active, OwnerActs(Republish(share, pin))
        PROVE  Moved(Republish(share, pin))
    <2> DEFINE next == Republish(share, pin)
    <2>1. pin \in Nat
      OBVIOUS
    <2>2. /\ next \in ShareType /\ next.acc = share.acc + 1 /\ next.cred = share.cred
          /\ next.policy = share.policy
      BY <1>1, <1>2, <2>1 DEF Republish, ShareType
    <2>3. QED
      BY <1>1, <1>3, <1>9, <2>2
  <1>10. ASSUME NEW pin \in 1..2, share.active, OwnerActs(UpdatePin(share, pin))
         PROVE  Moved(UpdatePin(share, pin))
    <2> DEFINE next == UpdatePin(share, pin)
    <2>1. pin \in Nat
      OBVIOUS
    <2>2. /\ next \in ShareType /\ next.acc = share.acc /\ next.cred = share.cred
          /\ next.tok = share.tok /\ next.policy = share.policy /\ next.active = share.active
          /\ next = [share EXCEPT !.pub = next.pub, !.pin = next.pin]
      BY <1>1, <1>2, <2>1 DEF UpdatePin, ShareType
    <2>3. QED
      BY <1>1, <1>10, <2>2 DEF ShareType
  <1>11. QED
    BY <1>4, <1>5, <1>6, <1>7, <1>8, <1>9, <1>10 DEF Owner

\* A change of the owner.
LEMMA OwnerKeeps ==
  ASSUME AdmissionAssumption, AInv, Owner
  PROVE  AInv'
  <1>1. PICK next \in ShareType :
           /\ OwnerActs(next) /\ next.acc >= share.acc
           /\ (next.policy = "P") <=> (next.cred # 0)
           /\ next.policy = "P" => next.active
           /\ next.acc = share.acc => next.tok = share.tok /\ next.cred = share.cred
           /\ grants' # {} => next = [share EXCEPT !.pub = next.pub, !.pin = next.pin]
    BY OwnerMoves
  <1>2. /\ share' = next /\ grants' \subseteq grants
        /\ issued' = [tok |-> IF next.tok > issued.tok THEN next.tok ELSE issued.tok,
                      cred |-> IF next.cred > issued.cred THEN next.cred ELSE issued.cred]
        /\ UNCHANGED <<now, families, cookie, fails, locks, context, try, tries, wrong>>
    BY <1>1 DEF OwnerActs, Invalidated
  <1>3. ShareSound'
    <2>1. issued' \in [tok : Nat, cred : Nat] /\ next.tok <= issued'.tok /\ next.cred <= issued'.cred
      BY <1>2 DEF AInv, ShareSound, ShareType
    <2>2. QED
      BY <1>1, <1>2, <2>1 DEF AInv, ShareSound
  <1>4. TriesSound' /\ FamiliesSound' /\ FailuresSound' /\ LocksSound'
    BY <1>2 DEF AInv, TriesSound, TrySound, FamiliesSound, FailuresSound, LocksSound, Earned
  <1>5. GrantsSound'
    <2>1. ASSUME NEW g \in grants'
          PROVE  /\ share'.policy = share.policy /\ share'.acc = share.acc /\ share'.cver = share.cver
                 /\ share'.cred = share.cred /\ share'.tok = share.tok /\ g \in grants
      BY <1>1, <1>2, <2>1 DEF AInv, ShareSound, ShareType
    <2>2. QED
      BY <1>2, <2>1 DEF AInv, GrantsSound
  <1>6. ContextsSound'
    <2>1. ASSUME NEW v \in Viewers
          PROVE  /\ context[v].acc <= share'.acc
                 /\ context[v].acc = share'.acc => context[v].acc = share.acc /\ share'.acc = share.acc
      BY <1>1, <1>2 DEF AInv, ContextsSound, ContextType, ShareSound, ShareType
    <2>2. QED
      BY <1>1, <1>2, <2>1 DEF AInv, ContextsSound
  <1>7. QED
    BY <1>3, <1>4, <1>5, <1>6 DEF AInv

(***************************************************************************)
(* The admissions                                                          *)
(***************************************************************************)

\* The admission of v goes on or is over.
GoesOn(v, next) ==
  /\ next \in TryType /\ Continue(v, next)
  /\ next.stage # "idle" =>
       try[v].stage # "idle" /\ next.id = try[v].id /\ next.ref = try[v].ref
  /\ next.stage \in {"right", "granting"} => next.pw = next.seen.cred
  /\ next.stage = "wrong" => [id |-> next.id, ref |-> next.ref] \in wrong'

\* Nobody asks for anything.
LEMMA NoTryTyped == NoTry \in TryType /\ NoTry.stage = "idle"
  BY DEF NoTry, TryType, RefType

\* Whatever becomes of an admission, its number stays its own.
LEMMA GoesOnKeeps ==
  ASSUME AInv, NEW v \in Viewers, NEW next, GoesOn(v, next),
         UNCHANGED <<families, tries>>, wrong \subseteq wrong'
  PROVE  TriesSound'
  <1>1. /\ try' = [u \in Viewers |-> try'[u]] /\ try'[v] = next
        /\ \A u \in Viewers : u # v => try'[u] = try[u]
    BY DEF GoesOn, Continue, AInv, TriesSound
  <1>2. \A u \in Viewers : TrySound(u)
    BY DEF AInv, TriesSound
  <1>3. ASSUME NEW u \in Viewers PROVE TrySound(u)'
    <2>1. \A w \in Viewers :
            try'[w].stage # "idle" => try[w].stage # "idle" /\ try'[w].id = try[w].id
      BY <1>1 DEF GoesOn
    <2>2. ASSUME NEW w \in Viewers, try'[w].stage # "idle", try'[u].stage # "idle",
                 try'[w].id = try'[u].id
          PROVE  w = u
      <3>1. try[w].stage # "idle" /\ try[u].stage # "idle" /\ try[w].id = try[u].id
        BY <2>1, <2>2
      <3>2. QED
        BY <1>2, <3>1 DEF TrySound
    <2>3. QED
      BY <1>1, <1>2, <2>1, <2>2 DEF GoesOn, TrySound
  <1>4. QED
    BY <1>1, <1>3 DEF AInv, TriesSound

\* A call whose reply is lost, and an admission that is over.
LEMMA LostGoesOn ==
  ASSUME AInv, NEW v \in Viewers, AfterLost(v) \/ Continue(v, NoTry), UNCHANGED wrong,
         try[v].stage # "idle"
  PROVE  \E next : GoesOn(v, next)
  <1>1. /\ try[v] \in TryType /\ TrySound(v)
    BY DEF AInv, TriesSound, TrySound
  <1>2. CASE Continue(v, NoTry)
    BY <1>2, NoTryTyped DEF GoesOn
  <1>3. CASE Continue(v, [try[v] EXCEPT !.sent = 1])
    <2> DEFINE next == [try[v] EXCEPT !.sent = 1]
    <2>1. /\ next \in TryType /\ next.stage = try[v].stage /\ next.id = try[v].id
          /\ next.ref = try[v].ref /\ next.pw = try[v].pw /\ next.seen = try[v].seen
      BY <1>1 DEF TryType
    <2>2. GoesOn(v, next)
      BY <1>1, <1>3, <2>1 DEF GoesOn, TrySound
    <2>3. QED
      BY <2>2
  <1>4. QED
    BY <1>2, <1>3 DEF AfterLost

\* What does not concern the links, the families and the contexts.
LEMMA RestStays ==
  ASSUME AInv, UNCHANGED <<now, share, issued, families, grants, context, tries>>
  PROVE  ShareSound' /\ FamiliesSound' /\ GrantsSound' /\ ContextsSound'
  BY DEF AInv, ShareSound, FamiliesSound, GrantsSound, ContextsSound

\* The script's sets and locks are left alone.
LEMMA CountersStay ==
  ASSUME AInv, UNCHANGED <<fails, locks, wrong>>
  PROVE  FailuresSound' /\ LocksSound'
  BY DEF AInv, FailuresSound, LocksSound, Earned

\* An admission begins.
LEMMA BeginKeeps ==
  ASSUME AdmissionAssumption, AInv, NEW v \in Viewers, NEW ref \in References,
         NEW pw \in 0..issued.cred, Begin(v, ref, pw)
  PROVE  AInv'
  <1> DEFINE next == [NoTry EXCEPT !.stage = "checked", !.id = tries + 1, !.ref = ref, !.pw = pw]
  <1>1. tries \in Nat /\ tries < MaxTries /\ MaxTries \in Nat /\ tries' = tries + 1
        /\ issued.cred \in Nat /\ issued.tok \in Nat /\ share.acc \in Nat
    BY DEF Begin, AInv, TriesSound, ShareSound, ShareType, AdmissionAssumption
  <1>2. /\ next \in TryType /\ next.stage = "checked" /\ next.id = tries + 1
    <2>1. ref \in RefType /\ pw \in Nat
      BY <1>1 DEF References, RefType
    <2>2. NoTry \in TryType /\ tries + 1 \in Nat
      BY <1>1, NoTryTyped
    <2>3. QED
      BY <2>1, <2>2 DEF TryType
  <1>3. /\ try' = [u \in Viewers |-> try'[u]] /\ try'[v] = next
        /\ \A u \in Viewers : u # v => try'[u] = try[u]
        /\ UNCHANGED <<now, share, issued, families, grants, cookie, fails, locks, context, wrong>>
    BY DEF Begin, Continue, AInv, TriesSound
  <1> HIDE DEF next
  <1>4. \A u \in Viewers : TrySound(u)
    BY DEF AInv, TriesSound
  <1>5. ASSUME NEW u \in Viewers PROVE TrySound(u)'
    <2>1. CASE u = v
      <3>1. \A f \in families : f.id # tries + 1
        BY <1>1 DEF AInv, FamiliesSound
      <3>2. ASSUME NEW w \in Viewers, w # v, try[w].stage # "idle" PROVE try[w].id # tries + 1
        <4>1. try[w].id \in 1..tries
          BY <1>4, <3>2 DEF TrySound
        <4>2. QED
          BY <1>1, <4>1
      <3>3. QED
        BY <1>1, <1>2, <1>3, <2>1, <3>1, <3>2 DEF TrySound
    <2>2. CASE u # v
      <3>1. /\ TrySound(u) /\ try'[u] = try[u]
            /\ try[u].stage # "idle" => try[u].id \in 1..tries' /\ try[u].id # tries + 1
        BY <1>1, <1>3, <1>4, <2>2 DEF TrySound
      <3>2. QED
        BY <1>1, <1>2, <1>3, <3>1 DEF TrySound
    <2>3. QED
      BY <2>1, <2>2
  <1>6. TriesSound'
    BY <1>1, <1>3, <1>5 DEF TriesSound
  <1>7. FamiliesSound'
    BY <1>1, <1>3 DEF AInv, FamiliesSound
  <1>8. QED
    BY <1>3, <1>6, <1>7, CountersStay DEF AInv, ShareSound, GrantsSound, ContextsSound

\* The share is read and the password verified.
LEMMA VerifyKeeps ==
  ASSUME AdmissionAssumption, AInv, NEW v \in Viewers, Verify(v)
  PROVE  AInv'
  <1> DEFINE t == try[v]
             ok == Finds(t.ref) /\ share.active /\ share.policy = "P" /\ share.cred = t.pw
             next == [t EXCEPT !.stage = IF ok THEN "right" ELSE "wrong",
                               !.seen = [cver |-> share.cver, cred |-> share.cred]]
             w == [id |-> t.id, ref |-> t.ref]
  <1>1. /\ t.stage = "checked" /\ Continue(v, next)
        /\ wrong' = IF ok THEN wrong ELSE wrong \cup {w}
        /\ UNCHANGED <<now, share, issued, families, grants, cookie, fails, locks, context, tries>>
    BY DEF Verify
  <1>2. t \in TryType /\ share \in ShareType
    BY DEF AInv, TriesSound, TrySound, ShareSound
  <1>3. /\ next \in TryType /\ next.id = t.id /\ next.ref = t.ref /\ next.pw = t.pw
        /\ next.seen.cred = share.cred /\ next.stage = IF ok THEN "right" ELSE "wrong"
    BY <1>2 DEF TryType, ShareType
  <1>4. GoesOn(v, next)
    BY <1>1, <1>3 DEF GoesOn
  <1>5. TriesSound'
    BY <1>1, <1>4, GoesOnKeeps
  <1>6. FailuresSound' /\ LocksSound'
    <2>1. IsFiniteSet(wrong') /\ wrong \subseteq wrong'
      BY <1>1, FS_AddElement DEF AInv, FailuresSound
    <2>2. ASSUME NEW bucket, Earned(bucket) PROVE Earned(bucket)'
      <3>1. /\ IsFiniteSet({x \in wrong : bucket \in KeysOf(x.ref)})
            /\ IsFiniteSet({x \in wrong' : bucket \in KeysOf(x.ref)})
        BY <2>1, FS_Subset DEF AInv, FailuresSound
      <3>2. Cardinality({x \in wrong : bucket \in KeysOf(x.ref)})
              <= Cardinality({x \in wrong' : bucket \in KeysOf(x.ref)})
        BY <2>1, <3>1, FS_Subset
      <3>3. /\ Cardinality({x \in wrong : bucket \in KeysOf(x.ref)}) \in Nat
            /\ Cardinality({x \in wrong' : bucket \in KeysOf(x.ref)}) \in Nat
        BY <3>1, FS_CardinalityType
      <3>4. LimitOf(bucket) \in Nat
        BY DEF LimitOf, AdmissionAssumption
      <3>5. QED
        BY <2>2, <3>2, <3>3, <3>4 DEF Earned
    <2>3. QED
      BY <1>1, <2>1, <2>2 DEF AInv, FailuresSound, LocksSound
  <1>7. QED
    BY <1>1, <1>5, <1>6, RestStays DEF AInv

\* A call is lost without effect.
LEMMA CallLostKeeps ==
  ASSUME AInv, NEW v \in Viewers, CallLost(v)
  PROVE  AInv'
  <1>1. \E next : GoesOn(v, next)
    BY LostGoesOn DEF CallLost
  <1>2. TriesSound'
    BY <1>1, GoesOnKeeps DEF CallLost
  <1>3. QED
    BY <1>2, RestStays, CountersStay DEF CallLost, AInv

(***************************************************************************)
(* The counting script                                                     *)
(***************************************************************************)

\* Failures counted for a key are no more than the admissions that failed there: each
\* carries the number of one, and no number is counted twice.
LEMMA CountedAreWrong ==
  ASSUME NEW events, NEW failed, IsFiniteSet(failed), NEW bucket,
         \A e \in events : \E w \in failed : e.nonce = <<w.id, 0>> /\ e.key \in KeysOf(w.ref),
         \A d, e \in events : d.key = e.key /\ d.nonce = e.nonce => d = e
  PROVE  /\ Cardinality(Recent(bucket, events)) \in Nat
         /\ Cardinality({w \in failed : bucket \in KeysOf(w.ref)}) \in Nat
         /\ Cardinality(Recent(bucket, events)) <= Cardinality({w \in failed : bucket \in KeysOf(w.ref)})
  <1> DEFINE W == {w \in failed : bucket \in KeysOf(w.ref)}
             R == Recent(bucket, events)
             f == [e \in R |-> CHOOSE w \in failed : e.nonce = <<w.id, 0>> /\ e.key \in KeysOf(w.ref)]
  <1>1. IsFiniteSet(W)
    BY FS_Subset
  <1>2. ASSUME NEW e \in R
        PROVE  f[e] \in W /\ e.nonce = <<f[e].id, 0>> /\ e \in events /\ e.key = bucket
    <2>1. e \in events /\ e.key = bucket
      BY DEF Recent
    <2>2. \E w \in failed : e.nonce = <<w.id, 0>> /\ e.key \in KeysOf(w.ref)
      BY <2>1
    <2>3. f[e] \in failed /\ e.nonce = <<f[e].id, 0>> /\ e.key \in KeysOf(f[e].ref)
      BY <2>2
    <2>4. QED
      BY <2>1, <2>3
  <1>3. \A d, e \in R : f[d] = f[e] => d = e
    <2> HIDE DEF f, R, W
    <2>1. QED
      BY <1>2
  <1>4. f \in Injection(R, W)
    <2>1. f \in [R -> W]
      BY <1>2
    <2>2. DOMAIN f = R
      OBVIOUS
    <2> HIDE DEF f, R, W
    <2>3. QED
      BY <1>3, <2>1, <2>2 DEF Injection, IsInjective
  <1> HIDE DEF f, R, W
  <1>5. IsFiniteSet(R) /\ Cardinality(R) <= Cardinality(W)
    BY <1>1, <1>4, FS_Injection
  <1>6. QED
    BY <1>1, <1>5, FS_CardinalityType DEF R, W

\* A failure is counted, once per admission, and locks what has reached its limit.
LEMMA CountFailureKeeps ==
  ASSUME AdmissionAssumption, AInv, NEW v \in Viewers, try[v].stage = "wrong",
         CountFailure(try[v]), UNCHANGED <<now, wrong>>
  PROVE  /\ FailuresSound' /\ LocksSound'
         /\ \A l \in locks : l \in locks' \/ now >= l.until
  <1> DEFINE t == try[v]
             keys == KeysOf(t.ref)
             w == [id |-> t.id, ref |-> t.ref]
             old == {e \in fails : ~(e.key \in keys /\ e.nonce = Nonce(t))}
             new == {[key |-> k, nonce |-> Nonce(t), at |-> now] : k \in keys}
             counted == old \cup new
             reached == {k \in keys : Cardinality(Recent(k, counted)) >= LimitOf(k)}
  <1>1. now \in Nat /\ LockTtl \in Nat /\ w \in wrong /\ FailuresSound /\ LocksSound
        /\ \A bucket : LimitOf(bucket) \in Nat
    BY DEF AInv, ShareSound, TriesSound, TrySound, AdmissionAssumption, LimitOf
  <1>2. CASE Locked(keys)
    BY <1>2, CountersStay DEF CountFailure
  <1>3. CASE ~Locked(keys)
    <2>1. /\ fails' = counted
          /\ locks' = {l \in locks : l.key \notin reached}
                        \cup {[key |-> k, until |-> now + LockTtl] : k \in reached}
      BY <1>3 DEF CountFailure
    <2>2. ASSUME NEW e \in counted
          PROVE  /\ e.at \in Nat
                 /\ \E x \in wrong : e.nonce = <<x.id, 0>> /\ e.key \in KeysOf(x.ref)
                 /\ e = [key |-> e.key, nonce |-> e.nonce, at |-> e.at]
      <3>1. CASE e \in fails
        BY <1>1, <3>1 DEF FailuresSound
      <3>2. CASE e \in new
        <4>1. PICK k \in keys : e = [key |-> k, nonce |-> Nonce(t), at |-> now]
          BY <3>2
        <4>2. e.at = now /\ e.nonce = <<w.id, 0>> /\ e.key \in KeysOf(w.ref)
          BY <4>1 DEF Nonce
        <4>3. QED
          BY <1>1, <4>1, <4>2
      <3>3. QED
        BY <3>1, <3>2
    <2>3. ASSUME NEW d \in counted, NEW e \in counted, d.key = e.key, d.nonce = e.nonce
          PROVE  d = e
      <3>1. CASE d \in old /\ e \in old
        BY <1>1, <2>3, <3>1 DEF FailuresSound
      <3>2. ASSUME NEW x \in new PROVE x.key \in keys /\ x.nonce = Nonce(t) /\ x.at = now
        OBVIOUS
      <3>3. CASE d \in new /\ e \in new
        BY <2>2, <2>3, <3>2, <3>3
      <3>4. QED
        BY <2>3, <3>1, <3>2, <3>3
    <2>4. FailuresSound'
      BY <1>1, <2>1, <2>2, <2>3 DEF FailuresSound
    <2>5. ASSUME NEW k \in reached PROVE Earned(k)
      <3>1. Cardinality(Recent(k, counted)) >= LimitOf(k)
        OBVIOUS
      <3> HIDE DEF counted
      <3>2. /\ Cardinality(Recent(k, counted)) \in Nat
            /\ Cardinality({x \in wrong : k \in KeysOf(x.ref)}) \in Nat
            /\ Cardinality(Recent(k, counted)) <= Cardinality({x \in wrong : k \in KeysOf(x.ref)})
        BY <1>1, <2>2, <2>3, CountedAreWrong DEF FailuresSound
      <3>3. QED
        BY <1>1, <3>1, <3>2 DEF Earned
    <2> HIDE DEF reached, counted
    <2>6. \A bucket : Earned(bucket)' <=> Earned(bucket)
      BY DEF Earned
    <2>7. LocksSound'
      BY <1>1, <2>1, <2>5, <2>6 DEF LocksSound
    <2>8. ASSUME NEW l \in locks, l \notin locks' PROVE now >= l.until
      <3>1. l.key \in keys /\ l.until \in Nat
        BY <1>1, <2>1, <2>8 DEF reached, LocksSound
      <3>2. QED
        BY <1>1, <1>3, <3>1 DEF Locked
    <2>9. QED
      BY <2>4, <2>7, <2>8
  <1>4. QED
    BY <1>2, <1>3

\* A wrong password is told to the script.
LEMMA RecordFailureKeeps ==
  ASSUME AdmissionAssumption, AInv, NEW v \in Viewers, RecordFailure(v)
  PROVE  AInv'
  <1>1. \E next : GoesOn(v, next)
    BY LostGoesOn DEF RecordFailure
  <1>2. TriesSound'
    BY <1>1, GoesOnKeeps DEF RecordFailure
  <1>3. FailuresSound' /\ LocksSound'
    BY CountFailureKeeps DEF RecordFailure
  <1>4. QED
    BY <1>2, <1>3, RestStays DEF RecordFailure, AInv

\* A right password clears what was counted for the link.
LEMMA ClearLinkKeeps ==
  ASSUME AInv, NEW v \in Viewers, ClearLink(v)
  PROVE  AInv'
  <1>1. \E next : GoesOn(v, next)
    <2>1. CASE Continue(v, [try[v] EXCEPT !.stage = "granting"])
      <3> DEFINE next == [try[v] EXCEPT !.stage = "granting"]
      <3>1. try[v] \in TryType /\ TrySound(v) /\ try[v].stage = "right"
        BY DEF ClearLink, AInv, TriesSound, TrySound
      <3>2. /\ next \in TryType /\ next.stage = "granting" /\ next.id = try[v].id
            /\ next.ref = try[v].ref /\ next.pw = try[v].pw /\ next.seen = try[v].seen
        BY <3>1 DEF TryType
      <3>3. GoesOn(v, next)
        BY <2>1, <3>1, <3>2 DEF GoesOn, TrySound
      <3>4. QED
        BY <3>3
    <2>2. QED
      BY <2>1, LostGoesOn DEF ClearLink
  <1>2. TriesSound'
    BY <1>1, GoesOnKeeps DEF ClearLink
  <1>3. FailuresSound' /\ LocksSound'
    BY DEF ClearLink, AInv, FailuresSound, LocksSound, Earned
  <1>4. QED
    BY <1>2, <1>3, RestStays DEF ClearLink, AInv

(***************************************************************************)
(* Grants and contexts                                                     *)
(***************************************************************************)

\* The admission ends, with a grant if what it verified is still what the link asks for.
LEMMA GrantKeeps ==
  ASSUME AdmissionAssumption, AInv, NEW v \in Viewers, Grant(v)
  PROVE  AInv'
  <1> DEFINE t == try[v]
             own == {f \in Live(families) : f.id = cookie[v]}
             family == IF own # {} THEN CHOOSE f \in own : TRUE
                       ELSE [id |-> t.id, exp |-> now + FamilyTtl]
             given == [fam |-> family.id, acc |-> share.acc, cver |-> share.cver,
                       exp |-> GrantExpiry(family.exp), ref |-> t.ref, pw |-> t.pw]
  <1>1. /\ t.stage = "granting" /\ Continue(v, NoTry)
        /\ UNCHANGED <<now, share, issued, fails, locks, context, tries, wrong>>
        /\ Admissible(t) =>
             /\ families' = families \cup {family}
             /\ grants' = {g \in grants : g.fam # family.id} \cup {given}
        /\ ~Admissible(t) => UNCHANGED <<families, grants>>
    BY DEF Grant
  <1>2. /\ TrySound(v) /\ t \in TryType /\ t.id \in 1..tries /\ t.id \in Nat /\ t.pw = t.seen.cred
        /\ \A f \in families : f.id # t.id
        /\ \A u \in Viewers : try[u].stage # "idle" /\ try[u].id = t.id => u = v
    BY <1>1 DEF AInv, TriesSound, TrySound, TryType
  <1>3. now \in Nat /\ FamilyTtl \in Nat /\ tries \in Nat /\ share \in ShareType
    BY DEF AInv, ShareSound, TriesSound, AdmissionAssumption
  <1>4. /\ family \in FamilyType /\ family.id \in 1..tries /\ family.exp <= now + FamilyTtl
        /\ family \in families \/ family.id = t.id
    <2>1. CASE own # {}
      <3>1. family \in own
        BY <2>1
      <3>2. QED
        BY <3>1 DEF Live, AInv, FamiliesSound
    <2>2. CASE own = {}
      <3>1. family = [id |-> t.id, exp |-> now + FamilyTtl]
        BY <2>2
      <3>2. QED
        BY <1>2, <1>3, <3>1 DEF FamilyType
    <2>3. QED
      BY <2>1, <2>2
  <1> HIDE DEF family
  <1>5. /\ try' = [u \in Viewers |-> try'[u]] /\ try'[v] = NoTry
        /\ \A u \in Viewers : u # v => try'[u] = try[u]
    BY <1>1 DEF Continue, AInv, TriesSound
  <1>6. TriesSound'
    <2>1. ASSUME NEW u \in Viewers PROVE TrySound(u)'
      <3>1. CASE u = v
        BY <1>5, <3>1, NoTryTyped DEF TrySound
      <3>2. CASE u # v
        <4>1. TrySound(u) /\ try'[u] = try[u]
          BY <1>5, <3>2 DEF AInv, TriesSound
        <4>2. try[u].stage # "idle" => \A f \in families' : f.id # try[u].id
          BY <1>1, <1>2, <1>4, <3>2, <4>1 DEF TrySound
        <4>3. \A x \in Viewers : try'[x].stage # "idle" => try'[x] = try[x]
          BY <1>5, NoTryTyped
        <4>4. QED
          BY <1>1, <4>1, <4>2, <4>3 DEF TrySound
      <3>3. QED
        BY <3>1, <3>2
    <2>2. QED
      BY <1>1, <1>5, <2>1 DEF AInv, TriesSound
  <1>7. FamiliesSound'
    BY <1>1, <1>2, <1>4 DEF AInv, FamiliesSound
  <1>8. GrantsSound'
    <2>1. CASE Admissible(t)
      <3>1. /\ share.policy = "P" /\ t.seen = [cver |-> share.cver, cred |-> share.cred]
            /\ t.ref.kind = "secret" => t.ref.n = share.tok
        BY <2>1 DEF Admissible, StillVerified, Matches
      <3>2. given.exp = family.exp
        BY <1>3, <1>4 DEF GrantExpiry, FamilyType
      <3>3. given \in GrantType
        BY <1>2, <1>3, <1>4, <3>2 DEF GrantType, FamilyType, ShareType, TryType
      <3>4. given.pw = share.cred
        BY <1>2, <3>1
      <3>5. QED
        BY <1>1, <2>1, <3>1, <3>2, <3>3, <3>4 DEF AInv, GrantsSound
    <2>2. CASE ~Admissible(t)
      BY <1>1, <2>2 DEF AInv, GrantsSound
    <2>3. QED
      BY <2>1, <2>2
  <1>9. ShareSound' /\ ContextsSound'
    BY <1>1 DEF AInv, ShareSound, ContextsSound
  <1>10. QED
    BY <1>1, <1>6, <1>7, <1>8, <1>9, CountersStay DEF AInv

\* Expired grants go, and families without a grant.
LEMMA CleanUpKeeps ==
  ASSUME AInv, CleanUp
  PROVE  AInv'
  <1>1. /\ grants' \subseteq grants
        /\ families' = {f \in families : f.exp > now \/ \E g \in grants' : g.fam = f.id}
        /\ UNCHANGED <<now, share, issued, cookie, fails, locks, context, try, tries, wrong>>
    BY DEF CleanUp
  <1>2. TriesSound' /\ FamiliesSound'
    BY <1>1 DEF AInv, TriesSound, TrySound, FamiliesSound
  <1>3. GrantsSound'
    BY <1>1 DEF AInv, GrantsSound
  <1>4. ShareSound' /\ ContextsSound'
    BY <1>1 DEF AInv, ShareSound, ContextsSound
  <1>5. QED
    BY <1>1, <1>2, <1>3, <1>4, CountersStay DEF AInv

\* A context is what the link shows while it is opened.
LEMMA OpenContextKeeps ==
  ASSUME AInv, NEW v \in Viewers, NEW ref \in References, OpenContext(v, ref)
  PROVE  AInv'
  <1> DEFINE opened == [until |-> now + 1, pin |-> share.pin, pub |-> share.pub, acc |-> share.acc,
                        tok |-> share.tok, cred |-> share.cred]
  <1>1. /\ context' = [context EXCEPT ![v] = opened]
        /\ UNCHANGED <<now, share, issued, families, grants, cookie, fails, locks, try, tries, wrong>>
    BY DEF OpenContext
  <1>2. now \in Nat /\ share \in ShareType
    BY DEF AInv, ShareSound
  <1>3. opened \in ContextType /\ opened.acc <= share.acc
    BY <1>2 DEF ContextType, ShareType
  <1>4. ContextsSound'
    <2>1. /\ context' = [u \in Viewers |-> context'[u]] /\ context'[v] = opened
          /\ \A u \in Viewers : u # v => context'[u] = context[u]
      BY <1>1 DEF AInv, ContextsSound
    <2>2. QED
      BY <1>1, <1>3, <2>1 DEF AInv, ContextsSound
  <1>5. TriesSound' /\ ShareSound' /\ FamiliesSound' /\ GrantsSound'
    BY <1>1 DEF AInv, ShareSound, TriesSound, TrySound, FamiliesSound, GrantsSound
  <1>6. QED
    BY <1>1, <1>4, <1>5, CountersStay DEF AInv

\* 15 minutes pass.
LEMMA TickKeeps ==
  ASSUME AdmissionAssumption, AInv, Tick
  PROVE  AInv' /\ \A l \in locks : l \in locks' \/ now' >= l.until
  <1>1. /\ now < MaxTime /\ now' = now + 1
        /\ fails' \subseteq fails /\ locks' = {l \in locks : l.until > now + 1}
        /\ context' = [v \in Viewers |-> IF context[v].until > now + 1 THEN context[v] ELSE NoContext]
        /\ UNCHANGED <<share, issued, families, grants, cookie, try, tries, wrong>>
    BY DEF Tick
  <1>2. now \in Nat /\ MaxTime \in Nat /\ FamilyTtl \in Nat /\ share \in ShareType
    BY DEF AInv, ShareSound, AdmissionAssumption
  <1>3. ShareSound' /\ TriesSound' /\ GrantsSound'
    BY <1>1, <1>2 DEF AInv, ShareSound, TriesSound, TrySound, GrantsSound
  <1>4. FamiliesSound'
    BY <1>1, <1>2 DEF AInv, FamiliesSound, FamilyType
  <1>5. ContextsSound'
    <2>1. ASSUME NEW v \in Viewers
          PROVE  /\ context'[v] \in ContextType /\ context'[v].acc <= share'.acc
                 /\ context'[v].acc = share'.acc /\ context'[v].until > now' =>
                      context'[v].tok = share'.tok /\ context'[v].cred = share'.cred
      <3>1. CASE context[v].until > now + 1
        BY <1>1, <1>2, <3>1 DEF AInv, ContextsSound, ContextType
      <3>2. CASE ~(context[v].until > now + 1)
        <4>1. context'[v] = NoContext
          BY <1>1, <3>2
        <4>2. QED
          BY <1>1, <1>2, <4>1 DEF NoContext, ContextType, ShareType
      <3>3. QED
        BY <3>1, <3>2
    <2>2. QED
      BY <1>1, <2>1 DEF ContextsSound
  <1>6. FailuresSound' /\ LocksSound'
    BY <1>1 DEF AInv, FailuresSound, LocksSound, Earned
  <1>7. \A l \in locks : l \in locks' \/ now' >= l.until
    BY <1>1, <1>2 DEF AInv, LocksSound
  <1>8. QED
    BY <1>3, <1>4, <1>5, <1>6, <1>7 DEF AInv

(***************************************************************************)
(* The theorems                                                            *)
(***************************************************************************)

\* Every step keeps the invariant.
LEMMA NextKeeps == ASSUME AdmissionAssumption PROVE AInv /\ [Next]_vars => AInv'
  <1> SUFFICES ASSUME AInv, [Next]_vars PROVE AInv'
    OBVIOUS
  <1>1. ASSUME NEW v \in Viewers, NEW ref \in References, NEW pw \in 0..issued.cred, Begin(v, ref, pw)
        PROVE  AInv'
    BY <1>1, BeginKeeps
  <1>2. ASSUME NEW v \in Viewers, NEW ref \in References, OpenContext(v, ref) PROVE AInv'
    BY <1>2, OpenContextKeeps
  <1>3. ASSUME NEW v \in Viewers,
               Verify(v) \/ CallLost(v) \/ RecordFailure(v) \/ ClearLink(v) \/ Grant(v)
        PROVE  AInv'
    BY <1>3, VerifyKeeps, CallLostKeeps, RecordFailureKeeps, ClearLinkKeeps, GrantKeeps
  <1>4. CASE UNCHANGED vars
    BY <1>4, RestStays, CountersStay DEF vars, AInv, TriesSound, TrySound
  <1>5. CASE Next
    BY <1>1, <1>2, <1>3, <1>5, OwnerKeeps, CleanUpKeeps, TickKeeps DEF Next
  <1>6. QED
    BY <1>4, <1>5

\* Only time and an admission at the link itself take a lock away.
LEMMA LocksGo == ASSUME AdmissionAssumption PROVE AInv /\ [Next]_vars => [LocksLast]_vars
  <1> SUFFICES ASSUME AInv, Next PROVE LocksLast
    OBVIOUS
  <1>1. CASE Tick
    BY <1>1, TickKeeps DEF LocksLast
  <1>2. ASSUME NEW v \in Viewers, RecordFailure(v) PROVE LocksLast
    BY <1>2, CountFailureKeeps DEF RecordFailure, LocksLast
  <1>3. ASSUME NEW v \in Viewers, ClearLink(v) PROVE LocksLast
    BY <1>3 DEF ClearLink, LocksLast
  <1>4. CASE UNCHANGED locks
    BY <1>4 DEF LocksLast
  <1>5. CASE Owner \/ CleanUp
    BY <1>4, <1>5 DEF Owner, OwnerActs, CleanUp
  <1>6. ASSUME NEW v \in Viewers, Verify(v) \/ CallLost(v) \/ Grant(v) PROVE LocksLast
    BY <1>4, <1>6 DEF Verify, CallLost, Grant
  <1>7. ASSUME NEW v \in Viewers, NEW ref \in References,
               OpenContext(v, ref) \/ \E pw \in 0..issued.cred : Begin(v, ref, pw)
        PROVE  LocksLast
    BY <1>4, <1>7 DEF OpenContext, Begin
  <1>8. QED
    BY <1>1, <1>2, <1>3, <1>5, <1>6, <1>7 DEF Next

\* The invariant holds in every state of every run of the admissions.
LEMMA AlwaysAInv == ASSUME AdmissionAssumption PROVE Spec => []AInv
  <1>1. Init => AInv
    BY InitAInv
  <1>2. AInv /\ [Next]_vars => AInv'
    BY NextKeeps
  <1>3. QED
    BY <1>1, <1>2, PTL DEF Spec

\* Every state of every run has the types of the tables, no grant that is not found by
\* the viewer it was given to, no grant without today's password and link, and accepts no
\* context that was opened through another link or with another password: whoever is
\* inside knew the password, however the owner's changes fall between the steps of any
\* number of admissions, the retries of lost calls and the clean-up.
THEOREM InsideAlwaysKnewPassword == ASSUME AdmissionAssumption PROVE Spec => []InsideKnewPassword
  <1>1. AInv => InsideKnewPassword
    BY AInvPromises
  <1>2. QED
    BY <1>1, AlwaysAInv, PTL

\* No link and no address is locked before its limit of distinct admissions failed there,
\* with every lost reply retried, and a lock ends only when its time is over or an
\* admission with the right password clears its own link.
THEOREM LocksAreAlwaysEarned == ASSUME AdmissionAssumption PROVE Spec => LocksAreEarned
  <1>1. AInv => TypeOK /\ LocksNeedFailures
    BY AInvPromises DEF InsideKnewPassword
  <1>2. AInv /\ [Next]_vars => [LocksLast]_vars
    BY LocksGo
  <1>3. QED
    BY <1>1, <1>2, AlwaysAInv, PTL DEF Spec, LocksAreEarned

(***************************************************************************)
(* The link                                                                *)
(*                                                                         *)
(* One record at most is open, and while it is the link is where that      *)
(* record says: before its transition or after it, as the idempotency row   *)
(* of its request tells.  So what was planned still fits when it is applied. *)
(***************************************************************************)

LinkRow == [status : Statuses, policy : {"L", "P"}, pin : Revisions, pub : Nat, acc : Nat,
            token : Requests \cup {None}, version : Nat, cred : Requests \cup {None}]
RecordRow == [phase : {"none", "planned", "core_applied", "quarantined", "complete"},
              outcome : {None, "committed", "aborted"}, owner : Requests \cup {None, Operator},
              lapsed : BOOLEAN, before : LinkRow, after : LinkRow, revs : SUBSET Revisions,
              attempts : Nat]
Transitions == Publishing \cup Changing
RequestRow == [stage : {"new", "planned", "applied", "done", "dead"},
               op : Transitions \cup {None}, pin : Revisions, key : Keys \cup {None}]

LinkTypes ==
  /\ link \in LinkRow /\ archived \in BOOLEAN
  /\ available \subseteq Revisions /\ HeadRevision \in available
  /\ record \in [Requests -> RecordRow] /\ req \in [Requests -> RequestRow]

\* A row of the share is as the statements of the repository leave it.
RowConsistent(s) ==
  /\ (s.policy = "P") <=> (s.cred # None)
  /\ s.policy = "P" => s.status = "active"

LinkSound ==
  /\ RowConsistent(link)
  /\ link.version <= MaxVersion + 1
  /\ archived => link.status \in {"absent", "archived"}
  /\ ~archived => link.version <= MaxVersion

\* The transaction that applies a transition writes its idempotency row.
Committed(r) == \E e \in idem : e.by = r

RecordSound(r) ==
  /\ req[r].stage = "new" => record[r].phase = "none" /\ ~Committed(r)
  /\ (record[r].phase = "complete") <=> (record[r].outcome # None)
  /\ record[r].phase = "complete" /\ Changes(r) =>
       ((record[r].outcome = "committed") <=> Committed(r))
  /\ record[r].phase = "planned" =>
       /\ ~Committed(r) /\ link = record[r].before /\ link.version < MaxVersion
       /\ req[r].op \in Transitions /\ Fits(req[r].op, req[r].pin)
       /\ record[r].after = Applied(req[r].op, link, req[r].pin, r)
  /\ record[r].phase = "core_applied" => Committed(r) /\ link = record[r].after
  /\ record[r].phase = "quarantined" =>
       link = IF Committed(r) THEN record[r].after ELSE record[r].before

OneOpen == \A q, r \in Requests : Open(q) /\ Open(r) => q = r

\* What is held is what is published and what the open record is about.
PublishedHeld ==
  \A h : (h \in holds /\ h.kind = "published") <=>
         (link.status = "active" /\ h = PublicationHold(link))

RecoveryHeld ==
  /\ \A h \in holds : h.kind = "recovery" => \E q \in Requests : Open(q) /\ h \in RecoveryHolds(q)
  /\ \A q \in Requests : Open(q) => RecoveryHolds(q) \subseteq holds

LInv ==
  /\ LinkTypes /\ LinkSound /\ OneOpen /\ \A r \in Requests : RecordSound(r)
  /\ PublishedHeld /\ RecoveryHeld /\ PinAvailable

LEMMA LInvPromises ==
  ASSUME ShareAssumption, LInv
  PROVE  /\ LinkTypeOK /\ OpenFrozen /\ OneHoldPerPublication /\ HoldsFollowRecords
         /\ PinAvailable /\ OutcomeTruthful /\ Reconcilable
<1>1. LinkTypeOK
  <2>1. link.version \in 0..MaxVersion + 1
    BY DEF LInv, LinkTypes, LinkRow, LinkSound, ShareAssumption
  <2>2. ASSUME NEW r \in Requests
        PROVE  /\ record[r].phase \in {"none", "planned", "core_applied", "quarantined", "complete"}
               /\ (record[r].phase = "complete") <=> (record[r].outcome # None)
               /\ req[r].stage \in {"new", "planned", "applied", "done", "dead"}
    <3>1. record[r] \in RecordRow /\ req[r] \in RequestRow /\ RecordSound(r)
      BY DEF LInv, LinkTypes
    <3> QED BY <3>1 DEF RecordRow, RequestRow, RecordSound
  <2>3. /\ link.status \in Statuses /\ link.policy \in {"L", "P"}
        /\ (link.policy = "P") <=> (link.cred # None)
        /\ link.policy = "P" => link.status = "active"
        /\ available \subseteq Revisions /\ HeadRevision \in available
        /\ archived => link.status \in {"absent", "archived"}
    BY DEF LInv, LinkTypes, LinkRow, LinkSound, RowConsistent
  <2> QED BY <2>1, <2>2, <2>3 DEF LinkTypeOK
<1>2. OpenFrozen
  BY DEF LInv, RecordSound, OpenFrozen
<1>3. OneHoldPerPublication
  <2>1. CASE link.status = "active"
    <3>1. \A h : h \in {g \in holds : g.kind = "published"} <=> h \in {PublicationHold(link)}
      BY <2>1 DEF LInv, PublishedHeld
    <3> QED BY <2>1, <3>1 DEF OneHoldPerPublication
  <2>2. CASE link.status # "active"
    <3>1. \A h : h \notin {g \in holds : g.kind = "published"}
      BY <2>2 DEF LInv, PublishedHeld
    <3> QED BY <2>2, <3>1 DEF OneHoldPerPublication
  <2> QED BY <2>1, <2>2
<1>4. HoldsFollowRecords
  <2> DEFINE held == {h \in holds : h.kind = "recovery"}
             named == UNION {RecoveryHolds(r) : r \in {q \in Requests : Open(q)}}
  <2>1. \A h \in held : h \in named
    BY DEF LInv, RecoveryHeld
  <2>2. ASSUME NEW h \in named  PROVE h \in held
    <3>1. PICK q \in Requests : Open(q) /\ h \in RecoveryHolds(q)
      OBVIOUS
    <3>2. h \in holds
      BY <3>1 DEF LInv, RecoveryHeld
    <3>3. h.kind = "recovery"
      BY <3>1 DEF RecoveryHolds
    <3> QED BY <3>2, <3>3
  <2>3. held = named
    BY <2>1, <2>2
  <2> QED BY <2>3 DEF HoldsFollowRecords
<1>5. OutcomeTruthful
  BY DEF LInv, RecordSound, OutcomeTruthful, Committed
<1>6. Reconcilable
  <2> SUFFICES ASSUME NEW r \in Requests, Open(r), record[r].owner = Operator, Changes(r),
                      record[r].phase = "quarantined" => link = record[r].before
               PROVE  Succeeds(r)
    BY DEF Reconcilable
  <2>1. RecordSound(r) /\ record[r].phase \in {"planned", "core_applied", "quarantined"}
    BY DEF LInv, LinkTypes, RecordRow, Open
  <2>2. CASE record[r].phase = "planned"
    BY <2>1, <2>2 DEF RecordSound, Succeeds, Decision, Observed
  <2>3. CASE record[r].phase = "core_applied"
    <3>1. link = record[r].after /\ link # record[r].before
      BY <2>1, <2>3 DEF RecordSound, Changes
    <3>2. Decision(r) = "cleanup"
      BY <2>3, <3>1 DEF Decision, Observed
    <3> QED BY <2>3, <3>1, <3>2 DEF Succeeds, CanComplete
  <2>4. CASE record[r].phase = "quarantined"
    BY <2>4 DEF Succeeds, Decision, Observed
  <2> QED BY <2>1, <2>2, <2>3, <2>4
<1> QED BY <1>1, <1>2, <1>3, <1>4, <1>5, <1>6 DEF LInv

LEMMA EmptyTyped ==
  ASSUME ShareAssumption
  PROVE  Absent \in LinkRow /\ NoRecord \in RecordRow
<1>1. Absent \in LinkRow
  BY DEF Absent, LinkRow, Statuses, ShareAssumption
<1> QED BY <1>1 DEF NoRecord, RecordRow

LEMMA LInvInit ==
  ASSUME ShareAssumption, LinkInit
  PROVE  LInv
<1>1. Absent \in LinkRow /\ NoRecord \in RecordRow
  BY EmptyTyped
<1>3. LinkTypes
  <2>1. [stage |-> "new", op |-> None, pin |-> HeadRevision, key |-> None] \in RequestRow
    BY DEF RequestRow, ShareAssumption
  <2> QED BY <1>1, <2>1 DEF LinkTypes, LinkInit, ShareAssumption
<1>4. LinkSound
  BY DEF LinkSound, RowConsistent, LinkInit, Absent, ShareAssumption
<1>5. \A r \in Requests : ~Open(r) /\ record[r].phase = "none" /\ record[r].outcome = None
  BY DEF LinkInit, NoRecord, Open
<1>6. \A r \in Requests : RecordSound(r)
  BY <1>5 DEF RecordSound, Committed, LinkInit
<1>7. OneOpen /\ RecoveryHeld
  BY <1>5 DEF OneOpen, RecoveryHeld, LinkInit
<1>8. PublishedHeld /\ PinAvailable
  BY DEF PublishedHeld, PinAvailable, LinkInit, Absent
<1> QED BY <1>3, <1>4, <1>6, <1>7, <1>8 DEF LInv

(***************************************************************************)
(* What becomes of the row                                                 *)
(***************************************************************************)

\* What a change of the row keeps, and the access generation tells.
Follows(s, next) ==
  /\ next \in LinkRow /\ RowConsistent(next)
  /\ next.version <= s.version + 1
  /\ s.token # next.token \/ s.cred # next.cred \/ (s.status = "active" /\ next.status # "active")
       => next.acc > s.acc

LEMMA PlannedTyped ==
  ASSUME ShareAssumption, LinkTypes, NEW r \in Requests, NEW op, NEW pin \in Revisions
  PROVE  Planned(op, link, pin, r) \in LinkRow
<1>1. /\ link.policy \in {"L", "P"} /\ {link.pub, link.acc, link.version} \subseteq Nat
      /\ link.token \in Requests \cup {None} /\ link.cred \in Requests \cup {None}
  BY DEF LinkTypes, LinkRow
<1> QED BY <1>1 DEF Planned, LinkRow, Statuses

\* The statements write what the plan predicted, and what follows is a sound row.
LEMMA AppliedFollows ==
  ASSUME ShareAssumption, LinkTypes, LinkSound, NEW r \in Requests,
         NEW op \in Transitions, NEW pin \in Revisions, Fits(op, pin)
  PROVE  /\ Planned(op, link, pin, r) = Applied(op, link, pin, r)
         /\ Follows(link, Applied(op, link, pin, r))
         /\ Applied(op, link, pin, r).status \in {"active", "revoked"}
         /\ Applied(op, link, pin, r).pin \in {link.pin, pin}
         /\ Applied(op, link, pin, r).pin # pin => link.status = "active"
<1> DEFINE next == Applied(op, link, pin, r)
<1>1. /\ link \in LinkRow /\ RowConsistent(link)
      /\ r \in Requests \cup {None} /\ r # None /\ {link.pub, link.acc, link.version} \subseteq Nat
  BY DEF LinkTypes, LinkRow, LinkSound, ShareAssumption
<1>2. CASE op \in Publishing
  <2>1. link.status # "active" /\ link.policy = "L" /\ link.cred = None
    BY <1>1, <1>2 DEF Fits, Publishing, RowConsistent, LinkRow
  <2>2. next = [link EXCEPT !.status = "active", !.policy = "L", !.pin = pin, !.pub = @ + 1,
                            !.acc = @ + 1, !.token = r, !.version = @ + 1]
    BY <1>2 DEF Applied, Published, Publishing
  <2>3. next = Planned(op, link, pin, r)
    BY <1>1, <1>2, <2>1, <2>2 DEF Planned, Publishing, Changing, LinkRow
  <2>4. next \in LinkRow
    BY <2>3, PlannedTyped
  <2>5. /\ next.status = "active" /\ next.policy = "L" /\ next.cred = None /\ next.pin = pin
        /\ next.acc = link.acc + 1 /\ next.version = link.version + 1
    BY <1>1, <2>1, <2>2 DEF LinkRow
  <2> QED BY <1>1, <2>1, <2>3, <2>4, <2>5 DEF Follows, RowConsistent
<1>3. CASE op = "update" /\ pin = link.pin
  <2>1. next = link /\ link.status = "active"
    BY <1>3 DEF Applied, Fits, Publishing
  <2>2. next = Planned(op, link, pin, r)
    BY <1>1, <1>3, <2>1 DEF Planned, Publishing, Changing, LinkRow
  <2> QED BY <1>1, <1>3, <2>1, <2>2 DEF Follows, LinkRow
<1>4. CASE op = "update" /\ pin # link.pin
  <2>1. next = [link EXCEPT !.pin = pin, !.pub = @ + 1, !.version = @ + 1] /\ link.status = "active"
    BY <1>4 DEF Applied, Fits, Publishing
  <2>2. next = Planned(op, link, pin, r)
    BY <1>1, <1>4, <2>1 DEF Planned, Publishing, Changing, LinkRow
  <2>3. next \in LinkRow
    BY <2>2, PlannedTyped
  <2>4. /\ next.status = "active" /\ next.policy = link.policy /\ next.cred = link.cred
        /\ next.pin = pin /\ next.token = link.token /\ next.version = link.version + 1
    BY <1>1, <2>1 DEF LinkRow
  <2> QED BY <1>1, <2>1, <2>2, <2>3, <2>4 DEF Follows, RowConsistent
<1>5. CASE op = "rotate"
  <2>1. next = [link EXCEPT !.token = r, !.acc = @ + 1, !.version = @ + 1]
        /\ link.status = "active" /\ pin = link.pin
    BY <1>5 DEF Applied, Rotated, Fits, Publishing
  <2>2. next = Planned(op, link, pin, r)
    BY <1>1, <1>5, <2>1 DEF Planned, Publishing, Changing, LinkRow
  <2>3. next \in LinkRow
    BY <2>2, PlannedTyped
  <2>4. /\ next.status = "active" /\ next.policy = link.policy /\ next.cred = link.cred
        /\ next.pin = pin /\ next.acc = link.acc + 1 /\ next.version = link.version + 1
    BY <1>1, <2>1 DEF LinkRow
  <2> QED BY <1>1, <2>1, <2>2, <2>3, <2>4 DEF Follows, RowConsistent
<1>6. CASE op = "revoke"
  <2>1. next = [link EXCEPT !.status = "revoked", !.policy = "L", !.cred = None,
                            !.version = @ + 1, !.acc = @ + 1]
        /\ link.status = "active" /\ pin = link.pin
    BY <1>1, <1>6 DEF Applied, Closed, Fits, Publishing, LinkRow
  <2>2. next = Planned(op, link, pin, r)
    BY <1>1, <1>6, <2>1 DEF Planned, Publishing, Changing, LinkRow
  <2>3. next \in LinkRow
    BY <2>2, PlannedTyped
  <2>4. /\ next.status = "revoked" /\ next.policy = "L" /\ next.cred = None
        /\ next.pin = pin /\ next.acc = link.acc + 1 /\ next.version = link.version + 1
    BY <1>1, <2>1 DEF LinkRow
  <2> QED BY <1>1, <2>1, <2>2, <2>3, <2>4 DEF Follows, RowConsistent
<1> QED BY <1>2, <1>3, <1>4, <1>5, <1>6 DEF Transitions, Publishing, Changing

LEMMA PasswordFollows ==
  ASSUME ShareAssumption, LinkTypes, LinkSound, NEW r \in Requests,
         NEW op \in Password, Fits(op, link.pin)
  PROVE  /\ Follows(link, WithPassword(op, link, r))
         /\ WithPassword(op, link, r).status = link.status
         /\ WithPassword(op, link, r).pin = link.pin /\ WithPassword(op, link, r).pub = link.pub
         /\ link.status = "active"
         /\ WithPassword(op, link, r) = link \/ WithPassword(op, link, r).version = link.version + 1
<1> DEFINE next == WithPassword(op, link, r)
<1>1. /\ link \in LinkRow /\ RowConsistent(link) /\ link.status = "active"
      /\ r \in Requests \cup {None} /\ r # None /\ {link.pub, link.acc, link.version} \subseteq Nat
      /\ link.token \in Requests \cup {None}
  BY DEF LinkTypes, LinkRow, LinkSound, ShareAssumption, Fits, Password
<1>2. CASE op = "disable" /\ link.policy = "L"
  BY <1>1, <1>2 DEF WithPassword, Follows, LinkRow
<1>3. CASE op = "disable" /\ link.policy # "L"
  <2>1. next = [link EXCEPT !.policy = "L", !.cred = None, !.acc = @ + 1, !.version = @ + 1]
    BY <1>3 DEF WithPassword
  <2>2. next = [status |-> link.status, policy |-> "L", pin |-> link.pin, pub |-> link.pub,
                acc |-> link.acc + 1, token |-> link.token, version |-> link.version + 1,
                cred |-> None]
    BY <1>1, <2>1 DEF LinkRow
  <2>3. /\ next.status = link.status /\ next.policy = "L" /\ next.cred = None
        /\ next.pin = link.pin /\ next.pub = link.pub
        /\ next.acc = link.acc + 1 /\ next.version = link.version + 1 /\ next \in LinkRow
    BY <1>1, <2>2 DEF LinkRow
  <2> QED BY <1>1, <2>3 DEF Follows, RowConsistent
<1>4. CASE op # "disable"
  <2>1. next = [link EXCEPT !.policy = "P", !.cred = r, !.acc = @ + 1, !.version = @ + 1]
    BY <1>4 DEF WithPassword
  <2>2. next = [status |-> link.status, policy |-> "P", pin |-> link.pin, pub |-> link.pub,
                acc |-> link.acc + 1, token |-> link.token, version |-> link.version + 1,
                cred |-> r]
    BY <1>1, <2>1 DEF LinkRow
  <2>3. /\ next.status = link.status /\ next.policy = "P" /\ next.cred = r
        /\ next.pin = link.pin /\ next.pub = link.pub
        /\ next.acc = link.acc + 1 /\ next.version = link.version + 1 /\ next \in LinkRow
    BY <1>1, <2>2 DEF LinkRow
  <2> QED BY <1>1, <2>3 DEF Follows, RowConsistent
<1> QED BY <1>2, <1>3, <1>4

LEMMA ClosedFollows ==
  ASSUME ShareAssumption, LinkTypes, LinkSound
  PROVE  /\ Follows(link, Closed(link, "archived"))
         /\ Closed(link, "archived").status = "archived"
<1> DEFINE next == Closed(link, "archived")
<1>1. /\ link \in LinkRow /\ RowConsistent(link) /\ {link.pub, link.acc, link.version} \subseteq Nat
      /\ link.token \in Requests \cup {None}
  BY DEF LinkTypes, LinkRow, LinkSound
<1>2. next = [link EXCEPT !.status = "archived", !.policy = "L", !.cred = None, !.version = @ + 1,
                          !.acc = IF link.status = "active" THEN @ + 1 ELSE @]
  BY <1>1 DEF Closed, LinkRow
<1>3. next = [status |-> "archived", policy |-> "L", pin |-> link.pin, pub |-> link.pub,
              acc |-> IF link.status = "active" THEN link.acc + 1 ELSE link.acc,
              token |-> link.token, version |-> link.version + 1, cred |-> None]
  BY <1>1, <1>2 DEF LinkRow
<1>4. /\ next.status = "archived" /\ next.policy = "L" /\ next.cred = None
      /\ next.acc = (IF link.status = "active" THEN link.acc + 1 ELSE link.acc)
      /\ next.token = link.token /\ next.version = link.version + 1 /\ next \in LinkRow
  BY <1>1, <1>3 DEF LinkRow, Statuses
<1> QED BY <1>1, <1>4 DEF Follows, RowConsistent

(***************************************************************************)
(* One step                                                                *)
(***************************************************************************)

\* A step of one request leaves the others sound: it does not touch their
\* records, and moves the link only while none of them is open.
LEMMA OthersStay ==
  ASSUME LInv, NEW r \in Requests,
         \A q \in Requests \ {r} : /\ record'[q] = record[q] /\ req'[q] = req[q]
                                   /\ Committed(q)' <=> Committed(q),
         link' = link \/ \A q \in Requests \ {r} : ~Open(q)
  PROVE  \A q \in Requests \ {r} :
           RecordSound(q)' /\ (Open(q)' <=> Open(q)) /\ RecoveryHolds(q)' = RecoveryHolds(q)
<1> SUFFICES ASSUME NEW q \in Requests \ {r}
             PROVE  RecordSound(q)' /\ (Open(q)' <=> Open(q)) /\ RecoveryHolds(q)' = RecoveryHolds(q)
  OBVIOUS
<1>1. RecordSound(q) /\ record'[q] = record[q] /\ req'[q] = req[q] /\ (Committed(q)' <=> Committed(q))
  BY DEF LInv
<1>2. (Open(q)' <=> Open(q)) /\ RecoveryHolds(q)' = RecoveryHolds(q)
  BY <1>1 DEF Open, RecoveryHolds
<1>3. ASSUME link' = link  PROVE RecordSound(q)'
  BY <1>1, <1>3 DEF RecordSound, Changes, Fits
<1>4. ASSUME ~Open(q)  PROVE RecordSound(q)'
  BY <1>1, <1>4 DEF RecordSound, Changes, Open
<1> QED BY <1>2, <1>3, <1>4

\* A record that stays open, or closed, while nothing else moves.
LEMMA QuietKeeps ==
  ASSUME LInv, NEW r \in Requests, UNCHANGED <<link, archived, available, holds, idem>>,
         \A q \in Requests \ {r} : record'[q] = record[q] /\ req'[q] = req[q],
         record' \in [Requests -> RecordRow], req' \in [Requests -> RequestRow],
         RecordSound(r)', Open(r)' <=> Open(r), record'[r].revs = record[r].revs
  PROVE  LInv'
<1>1. \A q \in Requests : Committed(q)' <=> Committed(q)
  BY DEF Committed
<1>2. \A q \in Requests \ {r} :
        RecordSound(q)' /\ (Open(q)' <=> Open(q)) /\ RecoveryHolds(q)' = RecoveryHolds(q)
  BY <1>1, OthersStay
<1>3. \A q \in Requests : (Open(q)' <=> Open(q)) /\ RecoveryHolds(q)' = RecoveryHolds(q)
  BY <1>2 DEF RecoveryHolds
<1>4. LinkTypes' /\ LinkSound' /\ PinAvailable' /\ PublishedHeld'
  BY DEF LInv, LinkTypes, LinkSound, PinAvailable, PublishedHeld
<1>5. OneOpen'
  BY <1>3 DEF LInv, OneOpen
<1>6. RecoveryHeld'
  BY <1>3 DEF LInv, RecoveryHeld
<1>7. \A q \in Requests : RecordSound(q)'
  BY <1>2
<1> QED BY <1>4, <1>5, <1>6, <1>7 DEF LInv

LEMMA ReplayKeeps ==
  ASSUME LInv, NEW r \in Requests, Replay(r) \/ GiveUp(r)
  PROVE  LInv'
<1>1. PICK stage \in {"done", "dead"} : req' = [req EXCEPT ![r].stage = stage]
  BY DEF Replay, GiveUp, Stage
<1>2. UNCHANGED <<link, archived, available, holds, record, idem>>
  BY DEF Replay, GiveUp
<1>3. req \in [Requests -> RequestRow] /\ record \in [Requests -> RecordRow] /\ RecordSound(r)
  BY DEF LInv, LinkTypes
<1>4. /\ req' \in [Requests -> RequestRow] /\ \A q \in Requests \ {r} : req'[q] = req[q]
      /\ req'[r].op = req[r].op /\ req'[r].pin = req[r].pin /\ req'[r].stage = stage
  BY <1>1, <1>3 DEF RequestRow
<1>5. RecordSound(r)' /\ (Open(r)' <=> Open(r))
  BY <1>2, <1>3, <1>4 DEF RecordSound, Committed, Changes, Fits, Open
<1> QED BY <1>2, <1>3, <1>4, <1>5, QuietKeeps

LEMMA LeaseKeeps ==
  ASSUME ShareAssumption, LInv, NEW r \in Requests, LeaseLapses(r) \/ Claim(r)
  PROVE  LInv'
<1>1. record \in [Requests -> RecordRow] /\ req \in [Requests -> RequestRow] /\ RecordSound(r)
      /\ record[r].attempts \in Nat
  BY DEF LInv, LinkTypes, RecordRow
<1>2. UNCHANGED <<link, archived, available, holds, idem, req>>
  BY DEF LeaseLapses, Claim
<1>3. PICK k \in RecordRow :
        /\ record' = [record EXCEPT ![r] = k]
        /\ k.phase = record[r].phase /\ k.outcome = record[r].outcome /\ k.before = record[r].before
        /\ k.after = record[r].after /\ k.revs = record[r].revs
  <2>1. CASE LeaseLapses(r)
    <3>1. /\ record' = [record EXCEPT ![r] = [record[r] EXCEPT !.lapsed = TRUE]]
          /\ [record[r] EXCEPT !.lapsed = TRUE] \in RecordRow
      BY <1>1, <2>1 DEF LeaseLapses, RecordRow
    <3> QED BY <1>1, <3>1 DEF RecordRow
  <2>2. CASE Claim(r)
    <3> DEFINE n == IF record[r].attempts < MaxFailures THEN record[r].attempts + 1 ELSE MaxFailures
               k == [record[r] EXCEPT !.owner = Operator, !.lapsed = FALSE, !.attempts = n]
    <3>1. n \in Nat
      BY <1>1 DEF ShareAssumption
    <3>2. record' = [record EXCEPT ![r] = k]
      BY <1>1, <2>2 DEF Claim
    <3>3. k \in RecordRow
      <4> HIDE DEF n
      <4>1. record[r] \in RecordRow
        BY <1>1
      <4> QED BY <3>1, <4>1 DEF RecordRow
    <3> QED BY <1>1, <3>2, <3>3 DEF RecordRow
  <2> QED BY <2>1, <2>2
<1>4. /\ record' \in [Requests -> RecordRow] /\ record'[r] = k
      /\ \A q \in Requests \ {r} : record'[q] = record[q]
  BY <1>1, <1>3
<1>5. RecordSound(r)' /\ (Open(r)' <=> Open(r))
  BY <1>1, <1>2, <1>3, <1>4 DEF RecordSound, Committed, Changes, Fits, Open
<1> QED BY <1>1, <1>2, <1>3, <1>4, <1>5, QuietKeeps

LEMMA FailureKeeps ==
  ASSUME ShareAssumption, LInv, NEW r \in Requests, RecordRecoveryFailure(r)
  PROVE  LInv'
<1>1. record \in [Requests -> RecordRow] /\ req \in [Requests -> RequestRow] /\ RecordSound(r)
      /\ record[r].attempts \in Nat
  BY DEF LInv, LinkTypes, RecordRow
<1>2. UNCHANGED <<link, archived, available, holds, idem, req>>
  BY DEF RecordRecoveryFailure
<1>3. PICK k \in RecordRow :
        /\ record' = [record EXCEPT ![r] = k]
        /\ k.phase \in {record[r].phase, "quarantined"} /\ k.outcome = record[r].outcome
        /\ k.before = record[r].before /\ k.after = record[r].after /\ k.revs = record[r].revs
  <2> DEFINE n == record[r].attempts + 1
             quiet == [record[r] EXCEPT !.attempts = n, !.phase = @, !.owner = @, !.lapsed = @]
             out == [record[r] EXCEPT !.attempts = n, !.phase = "quarantined", !.owner = None,
                                      !.lapsed = FALSE]
  <2>0. n \in Nat /\ record[r] \in RecordRow
    BY <1>1
  <2>1. CASE Quarantines(r)
    <3>1. record' = [record EXCEPT ![r] = out]
      BY <1>1, <2>1 DEF RecordRecoveryFailure, RecordRow
    <3>2. out \in RecordRow
      <4> HIDE DEF n
      <4> QED BY <2>0 DEF RecordRow
    <3> QED BY <1>1, <3>1, <3>2 DEF RecordRow
  <2>2. CASE ~Quarantines(r)
    <3>1. record' = [record EXCEPT ![r] = quiet]
      <4>1. (record[r].lapsed /\ ~Quarantines(r)) = record[r].lapsed
        BY <1>1, <2>2 DEF RecordRow
      <4> QED BY <1>1, <2>2, <4>1 DEF RecordRecoveryFailure
    <3>2. quiet \in RecordRow
      <4> HIDE DEF n
      <4> QED BY <2>0 DEF RecordRow
    <3> QED BY <1>1, <3>1, <3>2 DEF RecordRow
  <2> QED BY <2>1, <2>2
<1>4. /\ record' \in [Requests -> RecordRow] /\ record'[r] = k
      /\ \A q \in Requests \ {r} : record'[q] = record[q]
  BY <1>1, <1>3
<1>5. Open(r) /\ record[r].phase \in {"planned", "core_applied", "quarantined"}
  BY <1>1 DEF RecordRecoveryFailure, Open, RecordRow
<1>6. RecordSound(r)' /\ Open(r)'
  <2>1. CASE k.phase = record[r].phase
    BY <1>1, <1>2, <1>3, <1>4, <1>5, <2>1 DEF RecordSound, Committed, Changes, Fits, Open
  <2>2. CASE k.phase = "quarantined"
    BY <1>1, <1>2, <1>3, <1>4, <1>5, <2>2 DEF RecordSound, Committed, Changes, Open
  <2> QED BY <1>3, <2>1, <2>2
<1> QED BY <1>1, <1>2, <1>3, <1>4, <1>5, <1>6, QuietKeeps

\* A record is completed with the outcome that the idempotency row tells.
LEMMA FinishKeeps ==
  ASSUME ShareAssumption, LInv, NEW r \in Requests, NEW outcome \in {"committed", "aborted"},
         Open(r), Changes(r) => ((outcome = "committed") <=> Committed(r)),
         Finish(r, outcome), UNCHANGED <<link, archived, available, idem>>,
         req' \in [Requests -> RequestRow], req'[r].stage # "new",
         \A q \in Requests \ {r} : req'[q] = req[q]
  PROVE  LInv'
<1>1. record \in [Requests -> RecordRow] /\ RecordSound(r) /\ LinkTypes /\ LinkSound
  BY DEF LInv, LinkTypes
<1>2. PICK k \in RecordRow :
        /\ record' = [record EXCEPT ![r] = k]
        /\ k.phase = "complete" /\ k.outcome = outcome /\ k.before = record[r].before
        /\ k.after = record[r].after
  <2> DEFINE k == [record[r] EXCEPT !.phase = "complete", !.outcome = outcome, !.owner = None,
                                    !.lapsed = FALSE]
  <2>1. record' = [record EXCEPT ![r] = k]
    BY <1>1 DEF Finish
  <2>2. k \in RecordRow
    <3>1. record[r] \in RecordRow /\ outcome \in {None, "committed", "aborted"}
      BY <1>1
    <3> QED BY <3>1 DEF RecordRow
  <2> QED BY <1>1, <2>1, <2>2 DEF RecordRow
<1>3. /\ record' \in [Requests -> RecordRow] /\ record'[r] = k
      /\ \A q \in Requests \ {r} : record'[q] = record[q]
  BY <1>1, <1>2
<1>4. \A q \in Requests : Committed(q)' <=> Committed(q)
  BY DEF Committed
<1>5. \A q \in Requests \ {r} :
        RecordSound(q)' /\ (Open(q)' <=> Open(q)) /\ RecoveryHolds(q)' = RecoveryHolds(q)
  BY <1>3, <1>4, OthersStay
<1>6. ~Open(r)' /\ \A q \in Requests \ {r} : ~Open(q) /\ ~Open(q)'
  BY <1>2, <1>3, <1>5 DEF Open, LInv, OneOpen
<1>7. RecordSound(r)'
  BY <1>2, <1>3, <1>4, ShareAssumption DEF RecordSound, Changes, ShareAssumption
<1>8. LinkTypes' /\ LinkSound' /\ PinAvailable'
  BY <1>1, <1>3 DEF LInv, LinkTypes, LinkSound, PinAvailable
<1>9. PublishedHeld'
  <2>1. \A h : h \in holds' <=> h \in holds /\ h \notin RecoveryHolds(r)
    BY DEF Finish, Without
  <2>2. \A h \in RecoveryHolds(r) : h.kind = "recovery"
    BY DEF RecoveryHolds
  <2> QED BY <2>1, <2>2 DEF LInv, PublishedHeld, PublicationHold
<1>10. RecoveryHeld'
  <2>1. \A h \in holds' : h \in holds /\ h \notin RecoveryHolds(r)
    BY DEF Finish, Without
  <2>2. \A h \in holds' : h.kind # "recovery"
    BY <1>6, <2>1 DEF LInv, RecoveryHeld
  <2> QED BY <1>6, <2>2 DEF RecoveryHeld
<1>11. OneOpen'
  BY <1>6 DEF OneOpen
<1> QED BY <1>5, <1>7, <1>8, <1>9, <1>10, <1>11 DEF LInv

LEMMA CompleteKeeps ==
  ASSUME ShareAssumption, LInv, NEW r \in Requests, CompleteCleanUp(r)
  PROVE  LInv'
<1>1. /\ Finish(r, "committed") /\ CanComplete(r, r) /\ req' = [req EXCEPT ![r].stage = "done"]
      /\ UNCHANGED <<link, archived, available, idem>>
  BY DEF CompleteCleanUp, Stage
<1>2. Open(r) /\ Committed(r)
  BY <1>1 DEF CanComplete, Open, LInv, RecordSound
<1>3. /\ req' \in [Requests -> RequestRow] /\ req'[r].stage # "new"
      /\ \A q \in Requests \ {r} : req'[q] = req[q]
  BY <1>1 DEF LInv, LinkTypes, RequestRow
<1> QED BY <1>1, <1>2, <1>3, FinishKeeps

LEMMA ReconcileKeeps ==
  ASSUME ShareAssumption, LInv, NEW r \in Requests, Reconcile(r)
  PROVE  LInv'
<1>1. /\ Open(r) /\ Succeeds(r) /\ UNCHANGED <<link, archived, available, idem, req>>
      /\ Finish(r, IF Decision(r) = "abort" THEN "aborted" ELSE "committed")
      /\ RecordSound(r) /\ req \in [Requests -> RequestRow]
      /\ record[r].phase \in {"planned", "core_applied", "quarantined"}
  BY DEF Reconcile, LInv, LinkTypes, RecordRow, Open
<1>2. req[r].stage # "new"
  BY <1>1 DEF RecordSound, Open
<1>3. CASE Decision(r) = "abort"
  <2>1. record[r].phase \in {"planned", "quarantined"} /\ link = record[r].before
    BY <1>1, <1>3 DEF Decision, Observed
  <2>2. Changes(r) => ~Committed(r)
    BY <1>1, <2>1 DEF RecordSound, Changes
  <2> QED BY <1>1, <1>2, <1>3, <2>2, FinishKeeps
<1>4. CASE Decision(r) # "abort"
  <2>1. CASE record[r].phase = "planned"
    BY <1>1, <1>4, <2>1 DEF RecordSound, Decision, Observed
  <2>2. CASE record[r].phase # "planned"
    <3>1. record[r].phase = "core_applied"
      BY <1>1, <1>4, <2>2 DEF Succeeds, Decision, CanComplete
    <3>2. Committed(r)
      BY <1>1, <3>1 DEF RecordSound
    <3> QED BY <1>1, <1>2, <1>4, <3>2, FinishKeeps
  <2> QED BY <2>1, <2>2
<1> QED BY <1>3, <1>4

LEMMA ReclaimKeeps ==
  ASSUME ShareAssumption, LInv, NEW v \in Revisions, Reclaim(v)
  PROVE  LInv'
<1>1. /\ UNCHANGED <<link, archived, holds, record, idem, req>>
      /\ available' = available \ {v} /\ v # HeadRevision /\ \A h \in holds : h.rev # v
  BY DEF Reclaim
<1>2. \A q \in Requests : /\ Committed(q)' <=> Committed(q)
                          /\ Open(q)' <=> Open(q)
                          /\ RecoveryHolds(q)' = RecoveryHolds(q)
  BY <1>1 DEF Committed, Open, RecoveryHolds
<1>3. \A q \in Requests : RecordSound(q)'
  <2> TAKE q \in Requests
  <2>1. RecordSound(q) /\ (Committed(q)' <=> Committed(q))
    BY <1>2 DEF LInv
  <2> QED BY <1>1, <2>1 DEF RecordSound, Changes, Fits
<1>4. LinkTypes' /\ LinkSound'
  BY <1>1 DEF LInv, LinkTypes, LinkSound
<1>5. OneOpen' /\ RecoveryHeld' /\ PublishedHeld'
  BY <1>1, <1>2 DEF LInv, OneOpen, RecoveryHeld, PublishedHeld
<1>6. PinAvailable'
  <2>1. link.status = "active" => PublicationHold(link) \in holds
    BY DEF LInv, PublishedHeld, PublicationHold
  <2> QED BY <1>1, <2>1 DEF LInv, PinAvailable, PublicationHold
<1> QED BY <1>3, <1>4, <1>5, <1>6 DEF LInv

LEMMA PlanKeeps ==
  ASSUME ShareAssumption, LInv, NEW r \in Requests, NEW op \in Transitions, NEW pin \in Revisions,
         NEW bucket \in Keys, PlanTransition(r, op, pin, bucket)
  PROVE  LInv'
<1> DEFINE revs == HeldByPlan(op, link, pin)
           k == [NoRecord EXCEPT !.phase = "planned", !.owner = r, !.before = link,
                                 !.after = Planned(op, link, pin, r), !.revs = revs]
           new == {[kind |-> "recovery", holder |-> r, rev |-> v] : v \in revs}
<1>1. /\ LinkTypes /\ LinkSound /\ RecordSound(r) /\ req[r].stage = "new"
      /\ Fits(op, pin) /\ NothingOpen /\ link.version < MaxVersion
      /\ record' = [record EXCEPT ![r] = k] /\ holds' = holds \cup new
      /\ req' = [req EXCEPT ![r] = [stage |-> "planned", op |-> op, pin |-> pin, key |-> bucket]]
      /\ UNCHANGED <<link, archived, available, idem>>
  BY DEF PlanTransition, LInv
<1>2. Planned(op, link, pin, r) = Applied(op, link, pin, r) /\ Planned(op, link, pin, r) \in LinkRow
  BY <1>1, AppliedFollows, PlannedTyped
<1>3. revs \subseteq Revisions
  BY <1>1 DEF HeldByPlan, LinkTypes, LinkRow
<1>4. /\ k \in RecordRow /\ k.phase = "planned" /\ k.outcome = None /\ k.before = link
      /\ k.after = Applied(op, link, pin, r) /\ k.revs = revs
  <2>1. NoRecord \in RecordRow /\ NoRecord.outcome = None
    BY EmptyTyped DEF NoRecord
  <2>2. link \in LinkRow
    BY <1>1 DEF LinkTypes
  <2> HIDE DEF revs
  <2>3. k \in RecordRow
    BY <1>2, <1>3, <2>1, <2>2 DEF RecordRow
  <2> QED BY <1>2, <2>1, <2>3 DEF RecordRow
<1>5. /\ record' \in [Requests -> RecordRow] /\ record'[r] = k
      /\ \A q \in Requests \ {r} : record'[q] = record[q]
  BY <1>1, <1>4 DEF LinkTypes
<1>6. /\ req' \in [Requests -> RequestRow] /\ req'[r].stage = "planned" /\ req'[r].op = op
      /\ req'[r].pin = pin /\ \A q \in Requests \ {r} : req'[q] = req[q]
  <2>1. [stage |-> "planned", op |-> op, pin |-> pin, key |-> bucket] \in RequestRow
    BY DEF RequestRow
  <2> QED BY <1>1, <2>1 DEF LinkTypes
<1>7. \A q \in Requests : Committed(q)' <=> Committed(q)
  BY <1>1 DEF Committed
<1>8. \A q \in Requests \ {r} :
        RecordSound(q)' /\ (Open(q)' <=> Open(q)) /\ RecoveryHolds(q)' = RecoveryHolds(q)
  BY <1>1, <1>5, <1>6, <1>7, OthersStay
<1>9. /\ RecoveryHolds(r)' = new /\ Open(r)'
      /\ \A q \in Requests : ~Open(q)
      /\ \A q \in Requests \ {r} : ~Open(q)'
  BY <1>1, <1>4, <1>5, <1>8 DEF RecoveryHolds, Open, NothingOpen
<1>10. RecordSound(r)'
  <2>1. ~Committed(r)
    BY <1>1 DEF RecordSound
  <2> QED BY <1>1, <1>4, <1>5, <1>6, <1>7, <2>1 DEF RecordSound, Changes, Fits
<1>11. LinkTypes' /\ LinkSound' /\ PinAvailable'
  BY <1>1, <1>5, <1>6 DEF LInv, LinkTypes, LinkSound, PinAvailable
<1>12. PublishedHeld'
  <2>1. \A h \in new : h.kind = "recovery"
    OBVIOUS
  <2> HIDE DEF new
  <2> QED BY <1>1, <2>1 DEF LInv, PublishedHeld, PublicationHold
<1>13. RecoveryHeld'
  <2> HIDE DEF new, k
  <2>1. \A h \in holds : h.kind # "recovery"
    BY <1>9 DEF LInv, RecoveryHeld
  <2>2. \A q \in Requests : Open(q)' => RecoveryHolds(q)' \subseteq holds'
    BY <1>1, <1>9
  <2>3. \A h \in holds' : h.kind = "recovery" => Open(r)' /\ h \in RecoveryHolds(r)'
    BY <1>1, <1>9, <2>1
  <2> QED BY <2>2, <2>3 DEF RecoveryHeld
<1>14. OneOpen'
  BY <1>9 DEF OneOpen
<1> QED BY <1>8, <1>10, <1>11, <1>12, <1>13, <1>14 DEF LInv

\* What the statements do to the holds of publications and of records.
LEMMA HoldsMove ==
  ASSUME NEW s, NEW held
  PROVE  /\ \A h : (h \in HoldsOf(s, held) /\ h.kind = "published") <=>
                   (s.status = "active" /\ h = PublicationHold(s))
         /\ \A h : (h \in HoldsOf(s, held) /\ h.kind = "recovery") <=>
                   (h \in held /\ h.kind = "recovery")
  BY DEF HoldsOf, PublicationHold

LEMMA ApplyKeeps ==
  ASSUME ShareAssumption, LInv, NEW r \in Requests, ApplyTransition(r)
  PROVE  LInv' /\ AccessGenerationMoves
<1> DEFINE op == req[r].op
           pin == req[r].pin
           next == Applied(op, link, pin, r)
<1>1. /\ LinkTypes /\ LinkSound /\ RecordSound(r) /\ record[r].phase = "planned" /\ ~archived
      /\ pin \in available /\ link' = next /\ holds' = HoldsOf(next, holds)
      /\ idem' = idem \cup {[op |-> op, key |-> req[r].key, by |-> r]}
      /\ record' = [record EXCEPT ![r].phase = "core_applied", ![r].owner = r, ![r].lapsed = FALSE]
      /\ req' = [req EXCEPT ![r].stage = "applied"]
      /\ UNCHANGED <<archived, available>>
  BY DEF ApplyTransition, MayApply, Stage, LInv
<1>2. /\ op \in Transitions /\ Fits(op, pin) /\ pin \in Revisions /\ link.version < MaxVersion
      /\ record[r].after = next
  BY <1>1 DEF RecordSound, LinkTypes, RequestRow
<1>3. /\ Follows(link, next) /\ next.status \in {"active", "revoked"}
      /\ next.pin \in {link.pin, pin} /\ (next.pin # pin => link.status = "active")
  BY <1>1, <1>2, AppliedFollows
<1> HIDE DEF next
<1>4. PICK k \in RecordRow :
        /\ record' = [record EXCEPT ![r] = k] /\ k.phase = "core_applied"
        /\ k.outcome = record[r].outcome /\ k.after = record[r].after /\ k.revs = record[r].revs
  <2> DEFINE k == [record[r] EXCEPT !.phase = "core_applied", !.owner = r, !.lapsed = FALSE]
  <2>1. record[r] \in RecordRow
    BY <1>1 DEF LinkTypes
  <2>2. k \in RecordRow
    BY <2>1 DEF RecordRow
  <2>3. record' = [record EXCEPT ![r] = k]
    BY <1>1 DEF LinkTypes
  <2> QED BY <2>1, <2>2, <2>3 DEF RecordRow
<1>5. /\ record' \in [Requests -> RecordRow] /\ record'[r] = k
      /\ \A q \in Requests \ {r} : record'[q] = record[q]
      /\ req' \in [Requests -> RequestRow] /\ req'[r].stage = "applied"
      /\ \A q \in Requests \ {r} : req'[q] = req[q]
  <2>1. record \in [Requests -> RecordRow] /\ req \in [Requests -> RequestRow]
    BY <1>1 DEF LinkTypes
  <2>2. req' \in [Requests -> RequestRow] /\ req'[r].stage = "applied"
    BY <1>1, <2>1 DEF RequestRow
  <2>3. \A q \in Requests \ {r} : req'[q] = req[q]
    BY <1>1, <2>1
  <2>4. /\ record' \in [Requests -> RecordRow] /\ record'[r] = k
        /\ \A q \in Requests \ {r} : record'[q] = record[q]
    BY <1>4, <2>1
  <2> QED BY <2>2, <2>3, <2>4
<1>6. Committed(r)' /\ \A q \in Requests \ {r} : Committed(q)' <=> Committed(q)
  <2> DEFINE row == [op |-> op, key |-> req[r].key, by |-> r]
  <2>1. row.by = r /\ idem' = idem \cup {row}
    BY <1>1
  <2> HIDE DEF row
  <2> QED BY <2>1 DEF Committed
<1>7. Open(r) /\ \A q \in Requests \ {r} : ~Open(q)
  BY <1>1 DEF Open, LInv, OneOpen
<1>8. \A q \in Requests \ {r} :
        RecordSound(q)' /\ (Open(q)' <=> Open(q)) /\ RecoveryHolds(q)' = RecoveryHolds(q)
  BY <1>5, <1>6, <1>7, OthersStay
<1>9. RecordSound(r)' /\ Open(r)' /\ RecoveryHolds(r)' = RecoveryHolds(r)
  <2>1. record[r].outcome = None
    BY <1>1 DEF RecordSound
  <2> QED BY <1>1, <1>2, <1>4, <1>5, <1>6, <2>1 DEF RecordSound, Open, RecoveryHolds
<1>10. LinkTypes' /\ LinkSound'
  BY <1>1, <1>2, <1>3, <1>5, ShareAssumption
     DEF LinkTypes, LinkSound, Follows, LinkRow, ShareAssumption
<1>11. PublishedHeld' /\ RecoveryHeld'
  <2>1. PublishedHeld'
    BY <1>1, HoldsMove DEF PublishedHeld
  <2>2. \A q \in Requests : (Open(q)' <=> Open(q)) /\ RecoveryHolds(q)' = RecoveryHolds(q)
    BY <1>7, <1>8, <1>9
  <2>3. \A q \in Requests : \A h \in RecoveryHolds(q) : h.kind = "recovery"
    BY DEF RecoveryHolds
  <2>4. \A h : (h \in holds' /\ h.kind = "recovery") <=> (h \in holds /\ h.kind = "recovery")
    BY <1>1, HoldsMove
  <2>5. RecoveryHeld'
    BY <2>2, <2>3, <2>4 DEF LInv, RecoveryHeld
  <2> QED BY <2>1, <2>5
<1>12. PinAvailable'
  <2>1. link.status = "active" => link.pin \in available
    BY DEF LInv, PinAvailable
  <2> QED BY <1>1, <1>3, <2>1 DEF PinAvailable
<1>13. OneOpen'
  BY <1>7, <1>8 DEF OneOpen
<1>14. AccessGenerationMoves
  BY <1>1, <1>3 DEF Follows, AccessGenerationMoves
<1> QED BY <1>8, <1>9, <1>10, <1>11, <1>12, <1>13, <1>14 DEF LInv

LEMMA PasswordKeeps ==
  ASSUME ShareAssumption, LInv, NEW r \in Requests, NEW op \in Password, NEW bucket \in Keys,
         ChangePassword(r, op, bucket)
  PROVE  LInv' /\ AccessGenerationMoves
<1> DEFINE next == WithPassword(op, link, r)
           row == [op |-> op, key |-> bucket, by |-> r]
           k == [NoRecord EXCEPT !.phase = "complete", !.outcome = "committed", !.before = link,
                                 !.after = next, !.revs = {link.pin}]
<1>1. /\ LinkTypes /\ LinkSound /\ RecordSound(r) /\ req[r].stage = "new" /\ ~archived
      /\ Fits(op, link.pin) /\ (next # link => NothingOpen) /\ link.version < MaxVersion
      /\ link' = next /\ idem' = idem \cup {row}
      /\ record' = (IF next = link THEN record ELSE [record EXCEPT ![r] = k])
      /\ req' = [req EXCEPT ![r].stage = "done"]
      /\ UNCHANGED <<archived, available, holds>>
  BY DEF ChangePassword, Stage, LInv
<1>2. /\ Follows(link, next) /\ next.status = link.status /\ next.pin = link.pin
      /\ next.pub = link.pub /\ link.status = "active"
  BY <1>1, PasswordFollows
<1> HIDE DEF next
<1>3. /\ k \in RecordRow /\ k.phase = "complete" /\ k.outcome = "committed" /\ k.before = link
      /\ k.after = next
  <2>1. NoRecord \in RecordRow /\ link \in LinkRow /\ next \in LinkRow /\ {link.pin} \subseteq Revisions
    BY <1>1, <1>2, EmptyTyped DEF Follows, LinkTypes, LinkRow
  <2>2. k \in RecordRow
    BY <2>1 DEF RecordRow
  <2> QED BY <2>1, <2>2 DEF RecordRow
<1>4. row.by = r
  OBVIOUS
<1> HIDE DEF k, row
<1>5. PICK f \in RecordRow :
        /\ record' = [record EXCEPT ![r] = f]
        /\ \/ f = record[r] /\ f.phase = "none" /\ f.outcome = None
           \/ f = k /\ NothingOpen
  <2>1. record \in [Requests -> RecordRow] /\ record[r].phase = "none" /\ record[r].outcome = None
    BY <1>1 DEF LinkTypes, RecordSound
  <2>2. CASE next = link
    BY <1>1, <2>1, <2>2
  <2>3. CASE next # link
    BY <1>1, <1>3, <2>3
  <2> QED BY <2>2, <2>3
<1>6. /\ record' \in [Requests -> RecordRow] /\ record'[r] = f
      /\ \A q \in Requests \ {r} : record'[q] = record[q]
      /\ req' \in [Requests -> RequestRow] /\ req'[r].stage = "done"
      /\ \A q \in Requests \ {r} : req'[q] = req[q]
  <2>1. record \in [Requests -> RecordRow] /\ req \in [Requests -> RequestRow]
    BY <1>1 DEF LinkTypes
  <2>2. req' \in [Requests -> RequestRow] /\ req'[r].stage = "done"
    BY <1>1, <2>1 DEF RequestRow
  <2> QED BY <1>1, <1>5, <2>1, <2>2
<1>7. Committed(r)' /\ \A q \in Requests \ {r} : Committed(q)' <=> Committed(q)
  BY <1>1, <1>4 DEF Committed
<1>8. \A q \in Requests \ {r} :
        RecordSound(q)' /\ (Open(q)' <=> Open(q)) /\ RecoveryHolds(q)' = RecoveryHolds(q)
  BY <1>1, <1>6, <1>7, OthersStay DEF NothingOpen
<1>9. ~Open(r) /\ ~Open(r)'
  BY <1>1, <1>3, <1>5, <1>6 DEF Open, RecordSound
<1>10. RecordSound(r)'
  BY <1>3, <1>5, <1>6, <1>7, ShareAssumption DEF RecordSound, ShareAssumption
<1>11. LinkTypes' /\ LinkSound'
  BY <1>1, <1>2, <1>6, ShareAssumption DEF LinkTypes, LinkSound, Follows, LinkRow, ShareAssumption
<1>12. PublishedHeld' /\ PinAvailable'
  <2>1. PublicationHold(link') = PublicationHold(link)
    BY <1>1, <1>2 DEF PublicationHold
  <2>2. PublishedHeld /\ PinAvailable
    BY DEF LInv
  <2> QED BY <1>1, <1>2, <2>1, <2>2 DEF PublishedHeld, PinAvailable
<1>13. RecoveryHeld' /\ OneOpen'
  <2>1. \A q \in Requests : Open(q)' <=> Open(q)
    BY <1>8, <1>9
  <2>2. \A q \in Requests : Open(q) => RecoveryHolds(q)' = RecoveryHolds(q)
    BY <1>8, <1>9
  <2> QED BY <1>1, <2>1, <2>2 DEF LInv, RecoveryHeld, OneOpen
<1>14. AccessGenerationMoves
  BY <1>1, <1>2 DEF Follows, AccessGenerationMoves
<1> QED BY <1>8, <1>10, <1>11, <1>12, <1>13, <1>14 DEF LInv

LEMMA ArchiveKeeps ==
  ASSUME ShareAssumption, LInv, ArchiveBoard
  PROVE  LInv' /\ AccessGenerationMoves
<1>1. /\ LinkTypes /\ LinkSound /\ ~archived /\ archived' = TRUE
      /\ UNCHANGED <<available, record, idem, req>>
  BY DEF ArchiveBoard, LInv
<1>2. \A q \in Requests : /\ Committed(q)' <=> Committed(q)
                          /\ Open(q)' <=> Open(q)
                          /\ RecoveryHolds(q)' = RecoveryHolds(q)
  BY <1>1 DEF Committed, Open, RecoveryHolds
<1>3. OneOpen'
  BY <1>2 DEF LInv, OneOpen
<1>4. CASE link.status = "absent"
  <2>1. link' = link /\ holds' = holds
    BY <1>4 DEF ArchiveBoard
  <2>2. \A q \in Requests : RecordSound(q)'
    <3> TAKE q \in Requests
    <3>1. RecordSound(q) /\ (Committed(q)' <=> Committed(q))
      BY <1>2 DEF LInv
    <3> QED BY <1>1, <2>1, <3>1 DEF RecordSound, Changes, Fits
  <2>3. LinkTypes' /\ LinkSound' /\ PinAvailable' /\ PublishedHeld' /\ RecoveryHeld'
    BY <1>1, <1>2, <1>4, <2>1
       DEF LInv, LinkTypes, LinkSound, PinAvailable, PublishedHeld, RecoveryHeld
  <2> QED BY <1>3, <2>1, <2>2, <2>3, ShareAssumption
         DEF LInv, AccessGenerationMoves, LinkTypes, LinkRow, ShareAssumption
<1>5. CASE link.status # "absent"
  <2> DEFINE next == Closed(link, "archived")
  <2>1. NothingOpen /\ link' = next /\ holds' = HoldsOf(next, holds)
    BY <1>5 DEF ArchiveBoard
  <2>2. Follows(link, next) /\ next.status = "archived"
    BY <1>1, ClosedFollows
  <2> HIDE DEF next
  <2>3. \A q \in Requests : RecordSound(q)'
    <3> TAKE q \in Requests
    <3>1. RecordSound(q) /\ (Committed(q)' <=> Committed(q)) /\ ~Open(q)
      BY <1>2, <2>1 DEF LInv, NothingOpen
    <3> QED BY <1>1, <3>1 DEF RecordSound, Changes, Open
  <2>4. LinkTypes' /\ LinkSound'
    BY <1>1, <2>1, <2>2, ShareAssumption
       DEF LinkTypes, LinkSound, Follows, LinkRow, ShareAssumption
  <2>5. PublishedHeld'
    BY <2>1, HoldsMove DEF PublishedHeld
  <2>6. RecoveryHeld'
    <3>1. \A h : (h \in holds' /\ h.kind = "recovery") <=> (h \in holds /\ h.kind = "recovery")
      BY <2>1, HoldsMove
    <3> QED BY <1>2, <2>1, <3>1 DEF LInv, RecoveryHeld, NothingOpen
  <2>7. PinAvailable' /\ AccessGenerationMoves
    BY <2>1, <2>2 DEF PinAvailable, AccessGenerationMoves, Follows
  <2> QED BY <1>3, <2>3, <2>4, <2>5, <2>6, <2>7 DEF LInv
<1> QED BY <1>4, <1>5

LEMMA UnmovedIsFine ==
  ASSUME ShareAssumption, link' = link, LInv
  PROVE  AccessGenerationMoves
  BY DEF AccessGenerationMoves, LInv, LinkTypes, LinkRow, ShareAssumption

LEMMA LinkNextKeeps ==
  ASSUME ShareAssumption, LInv, [LinkNext]_linkVars
  PROVE  LInv' /\ [AccessGenerationMoves]_linkVars
<1> USE ShareAssumption
<1>1. CASE UNCHANGED linkVars
  <2>1. \A q \in Requests : /\ Committed(q)' <=> Committed(q)
                            /\ Open(q)' <=> Open(q)
                            /\ RecoveryHolds(q)' = RecoveryHolds(q)
    BY <1>1 DEF linkVars, Committed, Open, RecoveryHolds
  <2>2. \A q \in Requests : RecordSound(q)'
    <3> TAKE q \in Requests
    <3>1. RecordSound(q) /\ (Committed(q)' <=> Committed(q))
      BY <2>1 DEF LInv
    <3> QED BY <1>1, <3>1 DEF linkVars, RecordSound, Changes, Fits
  <2>3. /\ LinkTypes' /\ LinkSound' /\ PinAvailable' /\ PublishedHeld' /\ RecoveryHeld' /\ OneOpen'
    BY <1>1, <2>1 DEF LInv, linkVars, LinkTypes, LinkSound, PinAvailable, PublishedHeld,
                      RecoveryHeld, OneOpen
  <2> QED BY <1>1, <2>2, <2>3 DEF LInv
<1>2. ASSUME NEW r \in Requests, NEW bucket \in Keys, NEW op \in Publishing \cup Changing,
             NEW pin \in Revisions, PlanTransition(r, op, pin, bucket)
      PROVE  LInv' /\ AccessGenerationMoves
  BY <1>2, PlanKeeps, UnmovedIsFine DEF Transitions, PlanTransition
<1>3. ASSUME NEW r \in Requests, NEW bucket \in Keys, NEW op \in Password, ChangePassword(r, op, bucket)
      PROVE  LInv' /\ AccessGenerationMoves
  BY <1>3, PasswordKeeps
<1>4. ASSUME NEW r \in Requests, ApplyTransition(r)  PROVE LInv' /\ AccessGenerationMoves
  BY <1>4, ApplyKeeps
<1>5. ASSUME NEW r \in Requests, Replay(r) \/ GiveUp(r)  PROVE LInv' /\ AccessGenerationMoves
  BY <1>5, ReplayKeeps, UnmovedIsFine DEF Replay, GiveUp
<1>6. ASSUME NEW r \in Requests, LeaseLapses(r) \/ Claim(r)  PROVE LInv' /\ AccessGenerationMoves
  BY <1>6, LeaseKeeps, UnmovedIsFine DEF LeaseLapses, Claim
<1>7. ASSUME NEW r \in Requests, RecordRecoveryFailure(r)  PROVE LInv' /\ AccessGenerationMoves
  BY <1>7, FailureKeeps, UnmovedIsFine DEF RecordRecoveryFailure
<1>8. ASSUME NEW r \in Requests, CompleteCleanUp(r)  PROVE LInv' /\ AccessGenerationMoves
  BY <1>8, CompleteKeeps, UnmovedIsFine DEF CompleteCleanUp
<1>9. ASSUME NEW r \in Requests, Reconcile(r)  PROVE LInv' /\ AccessGenerationMoves
  BY <1>9, ReconcileKeeps, UnmovedIsFine DEF Reconcile
<1>10. CASE ArchiveBoard
  BY <1>10, ArchiveKeeps
<1>11. ASSUME NEW v \in Revisions, Reclaim(v)  PROVE LInv' /\ AccessGenerationMoves
  BY <1>11, ReclaimKeeps, UnmovedIsFine DEF Reclaim
<1> QED BY <1>1, <1>2, <1>3, <1>4, <1>5, <1>6, <1>7, <1>8, <1>9, <1>10, <1>11 DEF LinkNext

\* For every number of requests, revisions and failures: the link tells the truth.
THEOREM LinkAlwaysTellsTruth ==
  ASSUME ShareAssumption
  PROVE  LinkSpec => LinkTellsTruth
<1>1. LinkInit => LInv
  BY LInvInit
<1>2. LInv /\ [LinkNext]_linkVars => LInv' /\ [AccessGenerationMoves]_linkVars
  BY LinkNextKeeps
<1>3. LInv => /\ LinkTypeOK /\ OpenFrozen /\ OneHoldPerPublication /\ HoldsFollowRecords
              /\ PinAvailable /\ OutcomeTruthful /\ Reconcilable
  BY LInvPromises
<1> QED BY <1>1, <1>2, <1>3, PTL DEF LinkSpec, LinkTellsTruth

-----------------------------------------------------------------------------
(***************************************************************************)
(* The limits: the inductive invariant                                     *)
(*                                                                         *)
(* Of the passes through the first bucket of a guard, those in the window  *)
(* that is open are the last, and no more than it counted; so a pass and   *)
(* the one that comes a limit later are of different windows.  A server    *)
(* remembers a bucket no longer than the window and a second, and who was  *)
(* refused in a window finds it remembered: each caller counts once more.  *)
(***************************************************************************)

RequestFits(q) ==
  /\ q.asking => q.kind = "wrong" /\ q.stage \in 1..2
  /\ q.kind = "guard" => q.stage \in 1..2
RequestsFit == \A r \in Callers : RequestFits(request[r])

\* The pass was in its window; the next window starts after the end of this one.
PassFits(p) == p.start <= p.at /\ p.at < p.start + Window
InWindow(i) ==
  /\ passes[i].start = key["address"].start
  /\ Len(passes) - i < key["address"].count
PassesFit ==
  /\ \A i \in 1..Len(passes) : PassFits(passes[i])
  /\ \A i, j \in 1..Len(passes) : j = i + Limit => passes[i].start + Window <= passes[j].start
  /\ \A i \in 1..Len(passes) :
       IF key["address"] = Unset THEN passes[i].start + Window < clock
       ELSE InWindow(i) \/ passes[i].start + Window < key["address"].start

RefusalFits(b) ==
  refused[b] # Unset =>
    /\ refused[b].start <= clock /\ refused[b].until >= refused[b].start + Window
    /\ key[b] # Unset => key[b].start >= refused[b].start
RefusalsFit == \A b \in Buckets : RefusalFits(b)

MemoryFits ==
  \A s \in Servers, b \in Buckets :
    full[s][b] >= clock + Second =>
      key[b] # Unset /\ key[b].count > Limit /\ full[s][b] < key[b].expires + Second

\* Callers who will not ask again in this window.
Asks(r, b) == request[r].asking /\ FailureBuckets[request[r].stage] = b
Silent(b) == {r \in Callers : ~Asks(r, b) /\ full[ServerOf[r]][b] >= key[b].expires}
WorkFits ==
  \A b \in {"locator", "ip"} :
    key[b] # Unset /\ clock < key[b].expires => key[b].count <= Limit + Cardinality(Silent(b)) + faults

ToldInv == LimitsTypeOK /\ RequestsFit /\ PassesFit /\ RefusalsFit /\ MemoryFits /\ WorkFits

-----------------------------------------------------------------------------
LEMMA RoundsUp ==
  ASSUME RateLimitsAssumption, NEW t \in Nat
  PROVE  RoundUp(t) \in Nat /\ t <= RoundUp(t) /\ RoundUp(t) < t + Second
  <1>1. Second \in Nat /\ Second > 0
    BY DEF RateLimitsAssumption
  <1>2. PICK x \in Nat : x = t + Second - 1
    BY <1>1
  <1>3. PICK q \in Int : q = x \div Second
    BY <1>1
  <1>4. q * Second <= x /\ x < q * Second + Second /\ q >= 0
    BY <1>1, <1>2, <1>3
  <1>5. q * Second \in Nat
    BY <1>1, <1>4
  <1>6. QED
    BY <1>1, <1>2, <1>3, <1>4, <1>5 DEF RoundUp

LimitsTyped ==
  /\ clock \in Nat /\ clock \in Times /\ started \in 0..MaxRequests /\ faults \in 0..MaxFaults /\ faults \in Nat
  /\ key \in [Buckets -> Counters \cup {Unset}]
  /\ \A b \in Buckets : key[b] # Unset =>
       /\ key[b] \in Counters /\ key[b].count > 0 /\ key[b].start <= clock
       /\ key[b].expires = key[b].start + Window /\ clock <= key[b].expires
  /\ full \in [Servers -> [Buckets -> Nat]]
  /\ request \in [Callers -> [kind : Kinds \cup {Unset}, stage : 0..2, asking : BOOLEAN]]
  /\ passes \in Seq([at : Times, start : Times])
  /\ refused \in [Buckets -> Refusals \cup {Unset}]

LEMMA LimitsParts ==
  ASSUME RateLimitsAssumption
  PROVE  (LimitsTypeOK <=> LimitsTyped) /\ (LimitsTypeOK' <=> LimitsTyped')
  <1>1. MaxTicks \in Nat /\ MaxFaults \in Nat
    BY DEF RateLimitsAssumption
  <1>2. Times \subseteq Nat /\ 0..MaxFaults \subseteq Nat
    BY <1>1 DEF Times
  <1>3. LimitsTypeOK => LimitsTyped
    BY <1>2 DEF LimitsTypeOK, LimitsTyped
  <1>4. LimitsTypeOK' => LimitsTyped'
    BY <1>2 DEF LimitsTypeOK, LimitsTyped
  <1>5. (LimitsTyped => LimitsTypeOK) /\ (LimitsTyped' => LimitsTypeOK')
    BY DEF LimitsTypeOK, LimitsTyped
  <1>6. QED
    BY <1>3, <1>4, <1>5

Numbers == Limit \in Nat /\ Limit > 0 /\ Window \in Nat /\ Window > 0 /\ Second \in Nat /\ Second > 0

LEMMA LimitsNumbers ==
  ASSUME RateLimitsAssumption PROVE Numbers
  BY DEF RateLimitsAssumption, Numbers

LEMMA CountedIs ==
  ASSUME RateLimitsAssumption, LimitsTyped, NEW b \in Buckets
  PROVE  /\ Counted(b) \in Counters /\ Counted(b) # Unset /\ Counted(b).count > 0
         /\ Counted(b).start <= clock /\ Counted(b).expires = Counted(b).start + Window
         /\ clock <= Counted(b).expires
         /\ key[b] = Unset => Counted(b).count = 1 /\ Counted(b).start = clock
         /\ key[b] # Unset => /\ Counted(b).count = key[b].count + 1 /\ Counted(b).start = key[b].start
                              /\ Counted(b).expires = key[b].expires
  <1>1. Numbers
    BY LimitsNumbers
  <1>2. CASE key[b] = Unset
    <2>1. Counted(b) = [count |-> 1, start |-> clock, expires |-> clock + Window]
      BY <1>2 DEF Counted
    <2>2. clock \in Nat
      BY DEF LimitsTyped
    <2>3. Counted(b) \in Counters
      BY <1>1, <2>1, <2>2 DEF Counters, Numbers
    <2>4. QED
      BY <1>1, <1>2, <2>1, <2>2, <2>3 DEF RateLimitsAssumption, Numbers
  <1>3. CASE key[b] # Unset
    <2>1. Counted(b) = [key[b] EXCEPT !.count = key[b].count + 1]
      BY <1>3 DEF Counted
    <2>2. /\ key[b] \in Counters /\ key[b].count > 0 /\ key[b].start <= clock
          /\ key[b].expires = key[b].start + Window /\ clock <= key[b].expires
      BY <1>3 DEF LimitsTyped
    <2>3. Counted(b) \in Counters /\ Counted(b).count = key[b].count + 1 /\ Counted(b).start = key[b].start
          /\ Counted(b).expires = key[b].expires
      BY <2>1, <2>2 DEF Counters
    <2>4. key[b].count \in Nat
      BY <2>2 DEF Counters
    <2>5. QED
      BY <1>3, <2>2, <2>3, <2>4 DEF RateLimitsAssumption
  <1>4. QED
    BY <1>2, <1>3

-----------------------------------------------------------------------------
\* A bucket counts a request, which goes on to q.
Counting(r, b, q) ==
  /\ key' = [key EXCEPT ![b] = Counted(b)]
  /\ request' = [request EXCEPT ![r] = q]
  /\ q \in [kind : Kinds \cup {Unset}, stage : 0..2, asking : BOOLEAN] /\ ~q.asking /\ RequestFits(q)
  /\ UNCHANGED <<clock, started>>

\* What the next bucket, or the answer after the last, leaves of a request.
LEMMA StepsOn ==
  ASSUME RateLimitsAssumption, LimitsTyped, RequestsFit, NEW r \in Callers,
         StepOn(r) \/ Answer(r) \/ (Step(r) /\ request[r].stage # 2)
  PROVE  \E q \in [kind : Kinds \cup {Unset}, stage : 0..2, asking : BOOLEAN] :
           ~q.asking /\ RequestFits(q) /\ request' = [request EXCEPT ![r] = q]
  <1>1. /\ request[r].kind \in Kinds \cup {Unset} /\ request[r].stage \in 0..2
        /\ RequestFits(request[r])
    BY DEF LimitsTyped, RequestsFit
  <1>2. CASE Answer(r)
    <2>1. Idle \in [kind : Kinds \cup {Unset}, stage : 0..2, asking : BOOLEAN] /\ ~Idle.asking /\ RequestFits(Idle)
      BY DEF Idle, RequestFits, RateLimitsAssumption, AllKinds
    <2>2. QED
      BY <1>2, <2>1 DEF Answer
  <1>3. CASE Step(r) /\ request[r].stage # 2
    <2>1. PICK q : q = [kind |-> request[r].kind, stage |-> request[r].stage + 1, asking |-> FALSE]
      OBVIOUS
    <2>2. request[r].stage + 1 \in 1..2 /\ 1..2 \subseteq 0..2
      BY <1>1, <1>3
    <2>3. q \in [kind : Kinds \cup {Unset}, stage : 0..2, asking : BOOLEAN] /\ ~q.asking
      BY <1>1, <2>1, <2>2
    <2>4. RequestFits(q)
      BY <2>1, <2>2 DEF RequestFits
    <2>5. QED
      BY <1>3, <2>1, <2>3, <2>4 DEF Step, Goes
  <1>4. QED
    BY <1>2, <1>3 DEF StepOn

LEMMA CountingTyped ==
  ASSUME RateLimitsAssumption, ToldInv, NEW r \in Callers, NEW b \in Buckets, NEW q, Counting(r, b, q),
         full' \in [Servers -> [Buckets -> Nat]], passes' \in Seq([at : Times, start : Times]),
         refused' \in [Buckets -> Refusals \cup {Unset}], faults' \in 0..MaxFaults
  PROVE  LimitsTyped' /\ RequestsFit'
  <1>1. LimitsTyped /\ RequestsFit
    BY LimitsParts DEF ToldInv
  <1>2. PICK n : n = Counted(b)
    OBVIOUS
  <1>3. n \in Counters /\ n # Unset /\ n.count > 0 /\ n.start <= clock /\ n.expires = n.start + Window /\ clock <= n.expires
    BY <1>1, <1>2, CountedIs
  <1>4. key' = [key EXCEPT ![b] = n] /\ request' = [request EXCEPT ![r] = q] /\ UNCHANGED <<clock, started>>
        /\ q \in [kind : Kinds \cup {Unset}, stage : 0..2, asking : BOOLEAN] /\ RequestFits(q)
    BY <1>2 DEF Counting
  <1>5. key' \in [Buckets -> Counters \cup {Unset}] /\ \A c \in Buckets : key'[c] = IF c = b THEN n ELSE key[c]
    BY <1>1, <1>3, <1>4 DEF LimitsTyped
  <1>6. \A c \in Buckets : key'[c] # Unset =>
          /\ key'[c] \in Counters /\ key'[c].count > 0 /\ key'[c].start <= clock'
          /\ key'[c].expires = key'[c].start + Window /\ clock' <= key'[c].expires
    BY <1>1, <1>3, <1>4, <1>5 DEF LimitsTyped
  <1>7. request' \in [Callers -> [kind : Kinds \cup {Unset}, stage : 0..2, asking : BOOLEAN]]
    BY <1>1, <1>4 DEF LimitsTyped
  <1>8. faults' \in Nat
    BY DEF RateLimitsAssumption
  <1>9. LimitsTyped'
    BY <1>1, <1>4, <1>5, <1>6, <1>7, <1>8 DEF LimitsTyped
  <1>10. RequestsFit'
    BY <1>1, <1>4 DEF RequestsFit, LimitsTyped
  <1>11. QED
    BY <1>9, <1>10

\* Passes, when a bucket counts without letting a request through the first one.
LEMMA CountingPasses ==
  ASSUME RateLimitsAssumption, ToldInv, NEW r \in Callers, NEW b \in Buckets, NEW q, Counting(r, b, q),
         passes' = passes
  PROVE  PassesFit'
  <1>1. LimitsTyped /\ PassesFit /\ Numbers
    BY LimitsParts, LimitsNumbers DEF ToldInv
  <1>2. PICK n : n = Counted(b)
    OBVIOUS
  <1>3. /\ n \in Counters /\ n # Unset /\ n.count \in Nat /\ n.start \in Nat
        /\ key[b] = Unset => n.count = 1 /\ n.start = clock
        /\ key[b] # Unset => key[b].count \in Nat /\ n.count = key[b].count + 1 /\ n.start = key[b].start
    BY <1>1, <1>2, CountedIs DEF Counters, LimitsTyped
  <1>4. clock' = clock /\ \A c \in Buckets : key'[c] = IF c = b THEN n ELSE key[c]
    BY <1>1, <1>2 DEF Counting, LimitsTyped
  <1>5. "address" \in Buckets
    BY DEF Buckets
  <1>6. ASSUME NEW i \in 1..Len(passes)
        PROVE  IF key'["address"] = Unset THEN passes[i].start + Window < clock
               ELSE InWindow(i)' \/ passes[i].start + Window < key'["address"].start
    <2>1. IF key["address"] = Unset THEN passes[i].start + Window < clock
          ELSE InWindow(i) \/ passes[i].start + Window < key["address"].start
      BY <1>1 DEF PassesFit
    <2>2. CASE b # "address"
      BY <1>4, <1>5, <2>1, <2>2 DEF InWindow
    <2>3. CASE b = "address"
      <3>1. key'["address"] = n
        BY <1>4, <1>5, <2>3
      <3>2. CASE key["address"] = Unset
        BY <1>3, <2>1, <2>3, <3>1, <3>2
      <3>3. CASE key["address"] # Unset /\ ~InWindow(i)
        BY <1>3, <2>1, <2>3, <3>1, <3>3
      <3>4. CASE key["address"] # Unset /\ InWindow(i)
        <4>1. Len(passes) \in Nat /\ i \in Nat
          BY <1>1, LenProperties DEF LimitsTyped
        <4>2. Len(passes) - i < n.count
          BY <1>3, <2>3, <3>4, <4>1 DEF InWindow
        <4>3. QED
          BY <1>3, <2>3, <3>1, <3>4, <4>2 DEF InWindow
      <3>5. QED
        BY <3>2, <3>3, <3>4
    <2>4. QED
      BY <2>2, <2>3
  <1>7. QED
    BY <1>1, <1>4, <1>6 DEF PassesFit, PassFits

\* A pass: the one that is a limit before it was in an earlier window.
LEMMA CountingLets ==
  ASSUME RateLimitsAssumption, ToldInv, NEW r \in Callers, NEW q, Counting(r, "address", q), Passes("address"),
         passes' = Append(passes, [at |-> clock, start |-> Counted("address").start])
  PROVE  PassesFit' /\ passes' \in Seq([at : Times, start : Times])
  <1>1. LimitsTyped /\ PassesFit /\ Numbers /\ "address" \in Buckets
    BY LimitsParts, LimitsNumbers DEF ToldInv, Buckets
  <1>2. PICK n : n = Counted("address")
    OBVIOUS
  <1>3. PICK k : k = key["address"]
    OBVIOUS
  <1>4. /\ n \in Counters /\ n # Unset /\ n.count \in Nat /\ n.start \in Nat /\ n.start <= clock
        /\ n.expires = n.start + Window
        /\ k = Unset => n.count = 1 /\ n.start = clock
        /\ k # Unset => k.count \in Nat /\ n.count = k.count + 1 /\ n.start = k.start
    BY <1>1, <1>2, <1>3, CountedIs DEF Counters, LimitsTyped
  <1>5. n.count <= Limit /\ n.expires - clock >= 1
    BY <1>2 DEF Passes, Ttl, WithinLimit
  <1>6. key'["address"] = n /\ clock' = clock
    BY <1>1, <1>2 DEF Counting, LimitsTyped
  <1>7. PICK p \in [at : Times, start : Times] : p = [at |-> clock, start |-> n.start]
    <2>1. clock \in Times /\ n.start \in Times
      BY <1>1, <1>4 DEF LimitsTyped, Times, RateLimitsAssumption
    <2>2. QED
      BY <2>1
  <1>8. p.at = clock /\ p.start = n.start
    BY <1>7
  <1>9. PICK old \in Seq([at : Times, start : Times]) : old = passes
    BY <1>1 DEF LimitsTyped
  <1>10. passes' = Append(old, p)
    BY <1>2, <1>7, <1>9
  <1>11. PICK m \in Nat : m = Len(old)
    BY LenProperties
  <1>12. PICK new \in Seq([at : Times, start : Times]) : new = passes'
    BY <1>10, AppendProperties
  <1>13. Len(new) = m + 1 /\ new[m + 1] = p /\ \A i \in 1..m : new[i] = old[i]
    BY <1>10, <1>11, <1>12, AppendProperties
  <1>14. \A i \in 1..Len(new) : i \in 1..m \/ i = m + 1
    BY <1>13
  <1>15. clock \in Nat /\ \A i \in 1..m : old[i].start \in Nat
    <2>1. \A i \in 1..m : old[i] \in [at : Times, start : Times]
      BY <1>11, ElementOfSeq
    <2>2. Times \subseteq Nat
      BY DEF Times, RateLimitsAssumption
    <2>3. QED
      BY <1>1, <2>1, <2>2 DEF LimitsTyped
  <1>16. /\ \A i \in 1..m : PassFits(old[i])
         /\ \A i, j \in 1..m : j = i + Limit => old[i].start + Window <= old[j].start
         /\ \A i \in 1..m : IF k = Unset THEN old[i].start + Window < clock
                            ELSE (old[i].start = k.start /\ m - i < k.count) \/ old[i].start + Window < k.start
    BY <1>1, <1>3, <1>9, <1>11 DEF PassesFit, InWindow
  <1>17. \A i \in 1..m : (old[i].start = n.start /\ m - i + 1 < n.count) \/ old[i].start + Window < n.start
    <2>1. ASSUME NEW i \in 1..m
          PROVE  (old[i].start = n.start /\ m - i + 1 < n.count) \/ old[i].start + Window < n.start
      <3>1. CASE k = Unset
        BY <1>4, <1>16, <3>1
      <3>2. CASE k # Unset /\ old[i].start + Window < k.start
        BY <1>4, <3>2
      <3>3. CASE k # Unset /\ old[i].start = k.start /\ m - i < k.count
        <4>1. m - i + 1 < k.count + 1
          BY <1>4, <3>3
        <4>2. QED
          BY <1>4, <3>3, <4>1
      <3>4. QED
        BY <1>16, <3>1, <3>2, <3>3
    <2>2. QED
      BY <2>1
  <1>18. \A i \in 1..Len(new) : PassFits(new[i])
    <2>1. PassFits(p)
      BY <1>1, <1>4, <1>5, <1>8, <1>15 DEF PassFits, Numbers
    <2>2. QED
      BY <1>13, <1>14, <1>16, <2>1
  <1>19. \A i, j \in 1..Len(new) : j = i + Limit => new[i].start + Window <= new[j].start
    <2>1. SUFFICES ASSUME NEW i \in 1..Len(new), NEW j \in 1..Len(new), j = i + Limit
                   PROVE  new[i].start + Window <= new[j].start
      OBVIOUS
    <2>2. i \in 1..m
      BY <1>1, <1>13, <2>1 DEF Numbers
    <2>3. CASE j \in 1..m
      BY <1>13, <1>16, <2>1, <2>2, <2>3
    <2>4. CASE j = m + 1
      <3>1. m - i + 1 = Limit
        BY <1>1, <2>1, <2>4 DEF Numbers
      <3>2. ~(m - i + 1 < n.count)
        BY <1>1, <1>4, <1>5, <3>1 DEF Numbers
      <3>3. old[i].start + Window < n.start
        BY <1>17, <2>2, <3>2
      <3>4. old[i].start + Window <= n.start
        BY <1>1, <1>4, <1>15, <2>2, <3>3 DEF Numbers
      <3>5. QED
        BY <1>8, <1>13, <2>2, <2>4, <3>4
    <2>5. QED
      BY <1>14, <2>3, <2>4
  <1>20. ASSUME NEW i \in 1..Len(new)
         PROVE  (new[i].start = n.start /\ Len(new) - i < n.count) \/ new[i].start + Window < n.start
    <2>1. CASE i \in 1..m
      <3>1. m - i + 1 \in Int /\ m - i + 1 = Len(new) - i
        BY <1>11, <1>13, <2>1
      <3>2. PICK x : x = m - i + 1 /\ x = Len(new) - i
        BY <3>1
      <3>3. (old[i].start = n.start /\ x < n.count) \/ old[i].start + Window < n.start
        BY <1>17, <2>1, <3>2
      <3>4. QED
        BY <1>13, <2>1, <3>2, <3>3
    <2>2. CASE i = m + 1
      <3>1. Len(new) - i = 0 /\ n.count > 0
        BY <1>1, <1>2, <1>13, <2>2, CountedIs
      <3>2. QED
        BY <1>8, <1>13, <2>2, <3>1
    <2>3. QED
      BY <1>14, <2>1, <2>2
  <1>21. QED
    BY <1>4, <1>6, <1>12, <1>18, <1>19, <1>20 DEF PassesFit, InWindow

LEMMA CountingRefusals ==
  ASSUME RateLimitsAssumption, ToldInv, NEW r \in Callers, NEW b \in Buckets, NEW q, Counting(r, b, q),
         refused' = refused \/ (Refused(b) /\ Refuses(b))
  PROVE  RefusalsFit' /\ refused' \in [Buckets -> Refusals \cup {Unset}]
  <1>1. LimitsTyped /\ RefusalsFit /\ Numbers
    BY LimitsParts, LimitsNumbers DEF ToldInv
  <1>2. PICK n : n = Counted(b)
    OBVIOUS
  <1>3. /\ n \in Counters /\ n # Unset /\ n.start \in Nat /\ n.start <= clock /\ n.expires = n.start + Window
        /\ clock <= n.expires /\ n.expires \in Nat /\ clock \in Nat
        /\ key[b] = Unset => n.start = clock
        /\ key[b] # Unset => n.start = key[b].start
    BY <1>1, <1>2, CountedIs DEF Counters, LimitsTyped
  <1>4. clock' = clock /\ \A c \in Buckets : key'[c] = IF c = b THEN n ELSE key[c]
    BY <1>1, <1>2 DEF Counting, LimitsTyped
  <1>5. CASE refused' = refused
    <2>1. SUFFICES ASSUME NEW c \in Buckets PROVE RefusalFits(c)'
      BY <1>1, <1>5 DEF RefusalsFit, LimitsTyped
    <2>2. RefusalFits(c)
      BY <1>1 DEF RefusalsFit
    <2>3. CASE c = b /\ key[b] = Unset
      BY <1>3, <1>4, <1>5, <2>2, <2>3 DEF RefusalFits
    <2>4. CASE c = b /\ key[b] # Unset
      BY <1>3, <1>4, <1>5, <2>2, <2>4 DEF RefusalFits
    <2>5. CASE c # b
      BY <1>4, <1>5, <2>2, <2>5 DEF RefusalFits
    <2>6. QED
      BY <2>3, <2>4, <2>5
  <1>6. CASE Refused(b) /\ Refuses(b)
    <2>1. PICK t \in Nat : t = n.expires - clock
      BY <1>3
    <2>2. PICK u \in Nat : u = RoundUp(t) /\ t <= u
      BY RoundsUp
    <2>3. PICK f : f = [start |-> n.start, until |-> clock + u]
      OBVIOUS
    <2>4. refused' = [refused EXCEPT ![b] = f]
      BY <1>2, <1>6, <2>1, <2>2, <2>3 DEF Refused, RetryAfter, Ttl
    <2>5. f \in Refusals /\ f.start = n.start /\ f.until = clock + u
      BY <1>3, <2>2, <2>3 DEF Refusals
    <2>6. f.until >= f.start + Window
      BY <1>3, <2>1, <2>2, <2>5
    <2>7. \A c \in Buckets : refused'[c] = IF c = b THEN f ELSE refused[c]
      BY <1>1, <2>4 DEF LimitsTyped
    <2>8. ASSUME NEW c \in Buckets PROVE RefusalFits(c)'
      <3>1. CASE c = b
        BY <1>3, <1>4, <2>5, <2>6, <2>7, <3>1 DEF RefusalFits
      <3>2. CASE c # b
        BY <1>1, <1>4, <2>7, <3>2 DEF RefusalsFit, RefusalFits
      <3>3. QED
        BY <3>1, <3>2
    <2>9. refused' \in [Buckets -> Refusals \cup {Unset}]
      BY <1>1, <2>4, <2>5 DEF LimitsTyped
    <2>10. QED
      BY <2>8, <2>9 DEF RefusalsFit
  <1>7. QED
    BY <1>5, <1>6

\* What a server remembers: nothing new, or the bucket that has refused.
Remembers(r, b) == Refuses(b) /\ full' = [full EXCEPT ![ServerOf[r]][b] = RememberedUntil(b)]

LEMMA CountingMemory ==
  ASSUME RateLimitsAssumption, ToldInv, NEW r \in Callers, NEW b \in Buckets, NEW q, Counting(r, b, q),
         full' = full \/ Remembers(r, b)
  PROVE  /\ MemoryFits' /\ full' \in [Servers -> [Buckets -> Nat]]
         /\ \A s \in Servers, c \in Buckets : full'[s][c] = full[s][c] \/ full'[s][c] >= key'[c].expires
         /\ \A s \in Servers, c \in Buckets : c # b => full'[s][c] = full[s][c]
         /\ Remembers(r, b) => full'[ServerOf[r]][b] >= key'[b].expires
  <1>1. LimitsTyped /\ MemoryFits /\ Numbers
    BY LimitsParts, LimitsNumbers DEF ToldInv
  <1>2. PICK n : n = Counted(b)
    OBVIOUS
  <1>3. /\ n \in Counters /\ n # Unset /\ n.count \in Nat /\ n.expires = n.start + Window
        /\ clock <= n.expires /\ n.expires \in Nat /\ clock \in Nat
        /\ key[b] # Unset => n.count = key[b].count + 1 /\ n.expires = key[b].expires /\ key[b].count \in Nat
    BY <1>1, <1>2, CountedIs DEF Counters, LimitsTyped
  <1>4. clock' = clock /\ \A c \in Buckets : key'[c] = IF c = b THEN n ELSE key[c]
    BY <1>1, <1>2 DEF Counting, LimitsTyped
  <1>5. ASSUME NEW s \in Servers, NEW c \in Buckets, full[s][c] >= clock + Second
        PROVE  key'[c] # Unset /\ key'[c].count > Limit /\ full[s][c] < key'[c].expires + Second
    <2>1. key[c] # Unset /\ key[c].count > Limit /\ full[s][c] < key[c].expires + Second
      BY <1>1, <1>5 DEF MemoryFits
    <2>2. CASE c = b
      <3>1. n.count > Limit
        BY <1>1, <1>3, <2>1, <2>2 DEF Numbers
      <3>2. QED
        BY <1>3, <1>4, <2>1, <2>2, <3>1
    <2>3. CASE c # b
      BY <1>4, <2>1, <2>3
    <2>4. QED
      BY <2>2, <2>3
  <1>6. CASE full' = full
    <2>1. MemoryFits'
      BY <1>4, <1>5, <1>6 DEF MemoryFits
    <2>2. ~Remembers(r, b) \/ full'[ServerOf[r]][b] >= key'[b].expires
      <3>1. SUFFICES ASSUME Remembers(r, b) PROVE full'[ServerOf[r]][b] >= key'[b].expires
        OBVIOUS
      <3>2. PICK t \in Nat : t = n.expires - clock
        BY <1>3
      <3>3. PICK u \in Nat : u = RoundUp(t) /\ t <= u
        BY RoundsUp
      <3>4. ServerOf[r] \in Servers
        BY DEF RateLimitsAssumption
      <3>5. full'[ServerOf[r]][b] = clock + u
        BY <1>1, <1>2, <3>1, <3>2, <3>3, <3>4 DEF Remembers, RememberedUntil, RetryAfter, Ttl, LimitsTyped
      <3>6. QED
        BY <1>3, <1>4, <3>2, <3>3, <3>5
    <2>3. QED
      BY <1>1, <1>6, <2>1, <2>2 DEF LimitsTyped
  <1>7. CASE Remembers(r, b)
    <2>1. PICK t \in Nat : t = n.expires - clock
      BY <1>3
    <2>2. PICK u \in Nat : u = RoundUp(t) /\ t <= u /\ u < t + Second
      BY RoundsUp
    <2>3. PICK o \in Servers : o = ServerOf[r]
      BY DEF RateLimitsAssumption
    <2>4. n.count > Limit
      BY <1>1, <1>2, <1>3, <1>7 DEF Remembers, Refuses, WithinLimit, Numbers
    <2>5. full' = [full EXCEPT ![o][b] = clock + u]
      BY <1>2, <1>7, <2>1, <2>2, <2>3 DEF Remembers, RememberedUntil, RetryAfter, Ttl
    <2>6. \A s \in Servers, c \in Buckets : full'[s][c] = IF s = o /\ c = b THEN clock + u ELSE full[s][c]
      BY <1>1, <2>5 DEF LimitsTyped
    <2>7. clock + u \in Nat /\ clock + u >= n.expires /\ clock + u < n.expires + Second
      BY <1>1, <1>3, <2>1, <2>2 DEF Numbers
    <2>8. full' \in [Servers -> [Buckets -> Nat]]
      BY <1>1, <2>5, <2>7 DEF LimitsTyped
    <2>9. MemoryFits'
      BY <1>3, <1>4, <1>5, <2>4, <2>6, <2>7 DEF MemoryFits
    <2>10. QED
      BY <1>4, <2>3, <2>6, <2>7, <2>8, <2>9
  <1>8. QED
    BY <1>6, <1>7

LEMMA SilentGrows ==
  ASSUME RateLimitsAssumption, NEW A \in SUBSET Callers, NEW B \in SUBSET Callers, A \subseteq B
  PROVE  /\ Cardinality(A) \in Nat /\ Cardinality(B) \in Nat /\ Cardinality(A) <= Cardinality(B)
         /\ \A r \in B : r \notin A => Cardinality(A) + 1 <= Cardinality(B)
  <1>1. IsFiniteSet(A) /\ IsFiniteSet(B)
    BY FS_Subset DEF RateLimitsAssumption
  <1>2. Cardinality(A) \in Nat /\ Cardinality(B) \in Nat /\ Cardinality(A) <= Cardinality(B)
    BY <1>1, FS_CardinalityType, FS_Subset
  <1>3. ASSUME NEW r \in B, r \notin A PROVE Cardinality(A) + 1 <= Cardinality(B)
    <2>1. Cardinality(A \cup {r}) = Cardinality(A) + 1
      BY <1>1, <1>3, FS_AddElement
    <2>2. Cardinality(A \cup {r}) <= Cardinality(B)
      BY <1>1, FS_Subset
    <2>3. QED
      BY <2>1, <2>2
  <1>4. QED
    BY <1>2, <1>3

LEMMA CountingWork ==
  ASSUME RateLimitsAssumption, ToldInv, NEW r \in Callers, NEW b \in Buckets, NEW q, Counting(r, b, q),
         full' = full \/ Remembers(r, b),
         b \in {"locator", "ip"} => Asks(r, b) /\ (Remembers(r, b) \/ ~Refuses(b) \/ faults' = faults + 1),
         faults' = faults \/ faults' = faults + 1
  PROVE  WorkFits'
  <1>1. LimitsTyped /\ WorkFits /\ Numbers
    BY LimitsParts, LimitsNumbers DEF ToldInv
  <1>2. PICK n : n = Counted(b)
    OBVIOUS
  <1>3. /\ n \in Counters /\ n # Unset /\ n.count \in Nat /\ n.expires \in Nat /\ clock \in Nat
        /\ key[b] = Unset => n.count = 1
        /\ key[b] # Unset => n.count = key[b].count + 1 /\ n.expires = key[b].expires /\ key[b].count \in Nat
    BY <1>1, <1>2, CountedIs DEF Counters, LimitsTyped
  <1>4. clock' = clock /\ \A c \in Buckets : key'[c] = IF c = b THEN n ELSE key[c]
    BY <1>1, <1>2 DEF Counting, LimitsTyped
  <1>5. /\ \A s \in Servers, c \in Buckets : full'[s][c] = full[s][c] \/ full'[s][c] >= key'[c].expires
        /\ \A s \in Servers, c \in Buckets : c # b => full'[s][c] = full[s][c]
        /\ Remembers(r, b) => full'[ServerOf[r]][b] >= key'[b].expires
    BY CountingMemory
  <1>6. \A x \in Callers : request'[x] = IF x = r THEN q ELSE request[x]
    BY <1>1 DEF Counting, LimitsTyped
  <1>7. ~q.asking
    BY DEF Counting
  <1>8. faults \in Nat /\ faults' \in Nat /\ faults' >= faults
    BY <1>1 DEF LimitsTyped
  <1>9. \A x \in Callers : ServerOf[x] \in Servers
    BY DEF RateLimitsAssumption
  <1>10. SUFFICES ASSUME NEW c \in {"locator", "ip"}, key'[c] # Unset, clock < key'[c].expires
                  PROVE  key'[c].count <= Limit + Cardinality(Silent(c)') + faults'
    BY <1>4 DEF WorkFits
  <1>11. c \in Buckets
    BY DEF Buckets
  <1>12. PICK A \in SUBSET Callers : A = Silent(c)
    BY DEF Silent
  <1>13. PICK B \in SUBSET Callers : B = Silent(c)'
    BY DEF Silent
  <1>14. ASSUME key[c] # Unset, key'[c].expires = key[c].expires, NEW x \in A PROVE x \in B
    <2>1. x \in Callers /\ ~Asks(x, c) /\ full[ServerOf[x]][c] >= key[c].expires
      BY <1>12, <1>14 DEF Silent
    <2>2. ~Asks(x, c)'
      BY <1>6, <1>7, <2>1 DEF Asks
    <2>3. full'[ServerOf[x]][c] >= key'[c].expires
      BY <1>5, <1>9, <1>11, <1>14, <2>1
    <2>4. QED
      BY <1>13, <2>1, <2>2, <2>3 DEF Silent
  <1>15. key[c] # Unset /\ clock < key[c].expires => key[c].count <= Limit + Cardinality(A) + faults
    BY <1>1, <1>12 DEF WorkFits
  <1>16. CASE c # b
    <2>1. key'[c] = key[c]
      BY <1>4, <1>11, <1>16
    <2>2. A \subseteq B
      BY <1>10, <1>14, <2>1
    <2>3. Cardinality(A) \in Nat /\ Cardinality(B) \in Nat /\ Cardinality(A) <= Cardinality(B)
      BY <2>2, SilentGrows
    <2>4. key[c].count <= Limit + Cardinality(A) + faults /\ key[c].count \in Nat
      BY <1>1, <1>10, <1>11, <1>15, <2>1 DEF LimitsTyped, Counters
    <2>5. key[c].count <= Limit + Cardinality(B) + faults'
      BY <1>1, <1>8, <2>3, <2>4 DEF Numbers
    <2>6. QED
      BY <1>13, <2>1, <2>5
  <1>17. CASE c = b
    <2>1. key'[c] = n /\ clock < n.expires /\ Asks(r, b)
      BY <1>4, <1>10, <1>11, <1>17
    <2>2. Cardinality(B) \in Nat
      BY SilentGrows
    <2>3. SUFFICES n.count <= Limit + Cardinality(B) + faults'
      BY <1>13, <2>1
    <2>4. CASE n.count <= Limit
      BY <1>1, <1>3, <1>8, <2>2, <2>4 DEF Numbers
    <2>5. CASE n.count > Limit
      <3>1. key[c] # Unset
        BY <1>1, <1>3, <1>17, <2>5 DEF Numbers
      <3>2. n.count = key[c].count + 1 /\ n.expires = key[c].expires /\ key[c].count \in Nat
        BY <1>3, <1>17, <3>1
      <3>3. A \subseteq B
        BY <1>14, <2>1, <3>1, <3>2
      <3>4. /\ Cardinality(A) \in Nat /\ Cardinality(A) <= Cardinality(B)
            /\ \A x \in B : x \notin A => Cardinality(A) + 1 <= Cardinality(B)
        BY <3>3, SilentGrows
      <3>5. key[c].count <= Limit + Cardinality(A) + faults
        BY <1>15, <2>1, <3>1, <3>2
      <3>6. Refuses(b)
        <4>1. n.expires - clock >= 1 /\ ~(n.count <= Limit)
          BY <1>1, <1>3, <2>1, <2>5 DEF Numbers
        <4>2. QED
          BY <1>2, <4>1 DEF Refuses, Ttl, WithinLimit
      <3>7. CASE faults' = faults + 1
        BY <1>1, <1>8, <2>2, <3>2, <3>4, <3>5, <3>7 DEF Numbers
      <3>8. CASE Remembers(r, b)
        <4>1. r \notin A
          BY <1>12, <1>17, <2>1 DEF Silent
        <4>2. ~Asks(r, c)'
          BY <1>6, <1>7 DEF Asks
        <4>3. r \in B
          BY <1>5, <1>13, <1>17, <3>8, <4>2 DEF Silent
        <4>4. Cardinality(A) + 1 <= Cardinality(B)
          BY <3>4, <4>1, <4>3
        <4>5. QED
          BY <1>1, <1>8, <2>2, <3>2, <3>4, <3>5, <4>4 DEF Numbers
      <3>9. QED
        BY <1>17, <3>6, <3>7, <3>8
    <2>6. QED
      BY <1>1, <1>3, <2>4, <2>5 DEF Numbers
  <1>18. QED
    BY <1>16, <1>17

LEMMA CountingKeeps ==
  ASSUME RateLimitsAssumption, ToldInv, NEW r \in Callers, NEW b \in Buckets, NEW q, Counting(r, b, q),
         \/ passes' = passes
         \/ /\ b = "address" /\ Passes(b)
            /\ passes' = Append(passes, [at |-> clock, start |-> Counted(b).start]),
         refused' = refused \/ (Refused(b) /\ Refuses(b)), full' = full \/ Remembers(r, b),
         b \in {"locator", "ip"} => Asks(r, b) /\ (Remembers(r, b) \/ ~Refuses(b) \/ faults' = faults + 1),
         faults' = faults \/ (faults' = faults + 1 /\ faults < MaxFaults)
  PROVE  ToldInv'
  <1>1. LimitsTyped
    BY LimitsParts DEF ToldInv
  <1>2. PassesFit' /\ passes' \in Seq([at : Times, start : Times])
    <2>1. CASE passes' = passes
      BY <1>1, <2>1, CountingPasses DEF LimitsTyped
    <2>2. CASE /\ b = "address" /\ Passes(b)
               /\ passes' = Append(passes, [at |-> clock, start |-> Counted(b).start])
      BY <2>2, CountingLets
    <2>3. QED
      BY <2>1, <2>2
  <1>3. RefusalsFit' /\ refused' \in [Buckets -> Refusals \cup {Unset}]
    BY CountingRefusals
  <1>4. MemoryFits' /\ full' \in [Servers -> [Buckets -> Nat]]
    BY CountingMemory
  <1>5. WorkFits'
    BY CountingWork
  <1>6. faults' \in 0..MaxFaults
    <2>1. faults \in 0..MaxFaults /\ MaxFaults \in Nat
      BY <1>1 DEF LimitsTyped, RateLimitsAssumption
    <2>2. QED
      BY <2>1
  <1>7. LimitsTyped' /\ RequestsFit'
    BY <1>2, <1>3, <1>4, <1>6, CountingTyped
  <1>8. QED
    BY <1>2, <1>3, <1>4, <1>5, <1>7, LimitsParts DEF ToldInv

-----------------------------------------------------------------------------
LEMMA GuardKeeps ==
  ASSUME RateLimitsAssumption, ToldInv, NEW r \in Callers, GuardConsumes(r)
  PROVE  ToldInv'
  <1>1. LimitsTyped /\ RequestsFit
    BY LimitsParts DEF ToldInv
  <1>2. request[r].stage \in 1..2 /\ request[r].kind = "guard"
    BY <1>1 DEF GuardConsumes, RequestsFit, RequestFits
  <1>3. PICK b \in {"address", "account"} : /\ b = GuardBuckets[request[r].stage]
                                            /\ request[r].stage = 1 => b = "address"
    BY <1>2 DEF GuardBuckets
  <1>4. b \in Buckets /\ b \notin {"locator", "ip"}
    BY DEF Buckets
  <1>5. /\ key' = [key EXCEPT ![b] = Counted(b)] /\ UNCHANGED <<clock, full, started, faults>>
        /\ StepOn(r) \/ Answer(r)
        /\ passes' = passes \/ /\ request[r].stage = 1 /\ Passes(b)
                               /\ passes' = Append(passes, [at |-> clock, start |-> Counted(b).start])
        /\ refused' = refused \/ (Refused(b) /\ Refuses(b))
    BY <1>3 DEF GuardConsumes
  <1>6. PICK q \in [kind : Kinds \cup {Unset}, stage : 0..2, asking : BOOLEAN] :
          ~q.asking /\ RequestFits(q) /\ request' = [request EXCEPT ![r] = q]
    BY <1>1, <1>5, StepsOn
  <1>7. Counting(r, b, q)
    BY <1>5, <1>6 DEF Counting
  <1>8. QED
    BY <1>3, <1>4, <1>5, <1>7, CountingKeeps

LEMMA CountsKeep ==
  ASSUME RateLimitsAssumption, ToldInv, NEW r \in Callers, Counts(r)
  PROVE  ToldInv'
  <1>1. LimitsTyped /\ RequestsFit
    BY LimitsParts DEF ToldInv
  <1>2. request[r].asking /\ request[r].stage \in 1..2
    BY <1>1 DEF Counts, RequestsFit, RequestFits
  <1>3. PICK b \in {"locator", "ip"} : b = FailureBuckets[request[r].stage]
    BY <1>2 DEF FailureBuckets
  <1>4. b \in Buckets /\ Asks(r, b) /\ b # "address"
    BY <1>2, <1>3 DEF Buckets, Asks
  <1>5. /\ key' = [key EXCEPT ![b] = Counted(b)] /\ UNCHANGED <<clock, passes, started, faults>>
        /\ StepOn(r)
        /\ Refuses(b) => Refused(b) /\ Remembers(r, b)
        /\ ~Refuses(b) => UNCHANGED <<full, refused>>
    BY <1>3 DEF Counts, Remembers
  <1>6. PICK q \in [kind : Kinds \cup {Unset}, stage : 0..2, asking : BOOLEAN] :
          ~q.asking /\ RequestFits(q) /\ request' = [request EXCEPT ![r] = q]
    BY <1>1, <1>5, StepsOn
  <1>7. Counting(r, b, q)
    BY <1>5, <1>6 DEF Counting
  <1>8. QED
    BY <1>4, <1>5, <1>7, CountingKeeps

LEMMA LostKeeps ==
  ASSUME RateLimitsAssumption, ToldInv, NEW r \in Callers, Lost(r)
  PROVE  ToldInv'
  <1>1. LimitsTyped /\ RequestsFit
    BY LimitsParts DEF ToldInv
  <1>2. faults < MaxFaults /\ faults' = faults + 1 /\ UNCHANGED <<clock, full, passes, refused, started>>
    BY DEF Lost
  <1>3. CASE request[r].kind = "guard" /\ Answer(r)
             /\ key' = [key EXCEPT ![GuardBuckets[request[r].stage]] = Counted(GuardBuckets[request[r].stage])]
    <2>1. request[r].stage \in 1..2
      BY <1>1, <1>3 DEF RequestsFit, RequestFits
    <2>2. PICK b \in {"address", "account"} : b = GuardBuckets[request[r].stage]
      BY <2>1 DEF GuardBuckets
    <2>3. PICK q \in [kind : Kinds \cup {Unset}, stage : 0..2, asking : BOOLEAN] :
            ~q.asking /\ RequestFits(q) /\ request' = [request EXCEPT ![r] = q]
      BY <1>1, <1>3, StepsOn
    <2>4. Counting(r, b, q) /\ b \in Buckets /\ b \notin {"locator", "ip"}
      BY <1>2, <1>3, <2>2, <2>3 DEF Counting, Buckets
    <2>5. QED
      BY <1>2, <2>4, CountingKeeps
  <1>4. CASE request[r].asking /\ StepOn(r)
             /\ key' = [key EXCEPT ![FailureBuckets[request[r].stage]] = Counted(FailureBuckets[request[r].stage])]
    <2>1. request[r].stage \in 1..2
      BY <1>1, <1>4 DEF RequestsFit, RequestFits
    <2>2. PICK b \in {"locator", "ip"} : b = FailureBuckets[request[r].stage]
      BY <2>1 DEF FailureBuckets
    <2>3. PICK q \in [kind : Kinds \cup {Unset}, stage : 0..2, asking : BOOLEAN] :
            ~q.asking /\ RequestFits(q) /\ request' = [request EXCEPT ![r] = q]
      BY <1>1, <1>4, StepsOn
    <2>4. Counting(r, b, q) /\ b \in Buckets /\ Asks(r, b)
      BY <1>2, <1>4, <2>2, <2>3 DEF Counting, Buckets, Asks
    <2>5. QED
      BY <1>2, <2>4, CountingKeeps
  <1>5. QED
    BY <1>3, <1>4 DEF Lost

\* A request goes on without any bucket: who will ask found the bucket not full.
LEMMA RequestKeeps ==
  ASSUME RateLimitsAssumption, ToldInv, NEW r \in Callers,
         NEW q \in [kind : Kinds \cup {Unset}, stage : 0..2, asking : BOOLEAN], RequestFits(q),
         q.asking => ~KnownFull(ServerOf[r], FailureBuckets[q.stage]),
         request' = [request EXCEPT ![r] = q], started' \in 0..MaxRequests,
         UNCHANGED <<clock, key, full, passes, refused, faults>>
  PROVE  ToldInv'
  <1>1. LimitsTyped /\ RequestsFit /\ PassesFit /\ RefusalsFit /\ MemoryFits /\ WorkFits /\ Numbers
    BY LimitsParts, LimitsNumbers DEF ToldInv
  <1>2. \A x \in Callers : request'[x] = IF x = r THEN q ELSE request[x]
    BY <1>1 DEF LimitsTyped
  <1>3. LimitsTyped'
    BY <1>1 DEF LimitsTyped
  <1>4. RequestsFit'
    BY <1>1, <1>2 DEF RequestsFit
  <1>5. PassesFit'
    BY <1>1 DEF PassesFit, PassFits, InWindow
  <1>6. RefusalsFit' /\ MemoryFits'
    BY <1>1 DEF RefusalsFit, RefusalFits, MemoryFits
  <1>7. WorkFits'
    <2>1. SUFFICES ASSUME NEW c \in {"locator", "ip"}, key[c] # Unset, clock < key[c].expires
                   PROVE  key[c].count <= Limit + Cardinality(Silent(c)') + faults
      BY DEF WorkFits
    <2>2. PICK A \in SUBSET Callers : A = Silent(c)
      BY DEF Silent
    <2>3. PICK B \in SUBSET Callers : B = Silent(c)'
      BY DEF Silent
    <2>4. c \in Buckets
      BY DEF Buckets
    <2>5. clock \in Nat /\ key[c].expires \in Nat /\ key[c].count \in Nat /\ faults \in Nat
      BY <1>1, <2>1, <2>4 DEF LimitsTyped, Counters
    <2>6. ASSUME NEW x \in A PROVE x \in B
      <3>1. x \in Callers /\ ~Asks(x, c) /\ full[ServerOf[x]][c] >= key[c].expires
        BY <2>2, <2>6 DEF Silent
      <3>2. full[ServerOf[x]][c] \in Nat
        BY <1>1, <2>4, <3>1 DEF LimitsTyped, RateLimitsAssumption
      <3>3. ~Asks(x, c)'
        <4>1. CASE x # r
          BY <1>2, <3>1, <4>1 DEF Asks
        <4>2. CASE x = r
          <5>1. full[ServerOf[r]][c] > clock
            BY <2>1, <2>5, <3>1, <3>2, <4>2
          <5>2. KnownFull(ServerOf[r], c)
            BY <5>1 DEF KnownFull
          <5>3. QED
            BY <1>2, <4>2, <5>2 DEF Asks
        <4>3. QED
          BY <4>1, <4>2
      <3>4. QED
        BY <2>3, <3>1, <3>3 DEF Silent
    <2>7. A \subseteq B
      BY <2>6
    <2>8. Cardinality(A) \in Nat /\ Cardinality(B) \in Nat /\ Cardinality(A) <= Cardinality(B)
      BY <2>7, SilentGrows
    <2>9. key[c].count <= Limit + Cardinality(A) + faults
      BY <1>1, <2>1, <2>2 DEF WorkFits
    <2>10. key[c].count <= Limit + Cardinality(B) + faults
      BY <1>1, <2>5, <2>8, <2>9 DEF Numbers
    <2>11. QED
      BY <2>3, <2>10
  <1>8. QED
    BY <1>3, <1>4, <1>5, <1>6, <1>7, LimitsParts DEF ToldInv

LEMMA StartKeepsLimits ==
  ASSUME RateLimitsAssumption, ToldInv, NEW r \in Callers, NEW kind \in Kinds, Start(r, kind)
  PROVE  ToldInv'
  <1>1. PICK q : q = [kind |-> kind, stage |-> IF kind = "guard" THEN 1 ELSE 0, asking |-> FALSE]
    OBVIOUS
  <1>2. q \in [kind : Kinds \cup {Unset}, stage : 0..2, asking : BOOLEAN] /\ ~q.asking /\ RequestFits(q)
    BY <1>1 DEF RequestFits
  <1>3. started' \in 0..MaxRequests
    <2>1. started \in 0..MaxRequests /\ MaxRequests \in Nat /\ started < MaxRequests /\ started' = started + 1
      BY LimitsParts DEF ToldInv, LimitsTyped, RateLimitsAssumption, Start
    <2>2. QED
      BY <2>1
  <1>4. request' = [request EXCEPT ![r] = q] /\ UNCHANGED <<clock, key, full, passes, refused, faults>>
    BY <1>1 DEF Start, Goes
  <1>5. QED
    BY <1>2, <1>3, <1>4, RequestKeeps

LEMMA PreflightKeeps ==
  ASSUME RateLimitsAssumption, ToldInv, NEW r \in Callers, Preflight(r)
  PROVE  ToldInv'
  <1>1. LimitsTyped /\ RequestsFit
    BY LimitsParts DEF ToldInv
  <1>2. Answer(r) \/ (Step(r) /\ request[r].stage # 2)
    BY DEF Preflight
  <1>3. PICK q \in [kind : Kinds \cup {Unset}, stage : 0..2, asking : BOOLEAN] :
          ~q.asking /\ RequestFits(q) /\ request' = [request EXCEPT ![r] = q]
    BY <1>1, <1>2, StepsOn
  <1>4. UNCHANGED <<clock, key, full, passes, refused, started, faults>> /\ started \in 0..MaxRequests
    BY <1>1 DEF Preflight, LimitsTyped
  <1>5. QED
    BY <1>3, <1>4, RequestKeeps

LEMMA AskKeeps ==
  ASSUME RateLimitsAssumption, ToldInv, NEW r \in Callers, Ask(r)
  PROVE  ToldInv'
  <1>1. LimitsTyped /\ RequestsFit
    BY LimitsParts DEF ToldInv
  <1>2. UNCHANGED <<clock, key, full, passes, refused, started, faults>> /\ started \in 0..MaxRequests
    BY <1>1 DEF Ask, LimitsTyped
  <1>3. CASE StepOn(r)
    <2>1. PICK q \in [kind : Kinds \cup {Unset}, stage : 0..2, asking : BOOLEAN] :
            ~q.asking /\ RequestFits(q) /\ request' = [request EXCEPT ![r] = q]
      BY <1>1, <1>3, StepsOn
    <2>2. QED
      BY <1>2, <2>1, RequestKeeps
  <1>4. CASE ~KnownFull(ServerOf[r], FailureBuckets[request[r].stage])
    <2>1. request[r].kind = "wrong" /\ request[r].stage \in 1..2
          /\ request[r] \in [kind : Kinds \cup {Unset}, stage : 0..2, asking : BOOLEAN]
      BY <1>1 DEF Ask, LimitsTyped
    <2>2. PICK q : q = [request[r] EXCEPT !.asking = TRUE]
      OBVIOUS
    <2>3. request' = [request EXCEPT ![r] = q]
      BY <1>4, <2>2 DEF Ask
    <2>4. q \in [kind : Kinds \cup {Unset}, stage : 0..2, asking : BOOLEAN] /\ q.stage = request[r].stage /\ q.kind = "wrong"
      BY <2>1, <2>2
    <2>5. RequestFits(q)
      BY <2>1, <2>4 DEF RequestFits
    <2>6. QED
      BY <1>2, <1>4, <2>3, <2>4, <2>5, RequestKeeps
  <1>5. QED
    BY <1>3, <1>4 DEF Ask

LEMMA TicksKeep ==
  ASSUME RateLimitsAssumption, ToldInv, ClockTicks
  PROVE  ToldInv'
  <1>1. LimitsTyped /\ RequestsFit /\ PassesFit /\ RefusalsFit /\ MemoryFits /\ WorkFits /\ Numbers
    BY LimitsParts, LimitsNumbers DEF ToldInv
  <1>2. /\ clock \in Nat /\ clock < MaxTicks /\ clock' = clock + 1 /\ MaxTicks \in Nat
        /\ UNCHANGED <<full, request, passes, refused, started, faults>>
    BY <1>1 DEF ClockTicks, LimitsTyped, RateLimitsAssumption
  <1>3. \A b \in Buckets : key'[b] = IF key[b] # Unset /\ key[b].expires < clock + 1 THEN Unset ELSE key[b]
    BY DEF ClockTicks
  <1>4. \A b \in Buckets : key[b] # Unset =>
          /\ key[b] \in Counters /\ key[b].count \in Nat /\ key[b].count > 0 /\ key[b].start \in Nat
          /\ key[b].expires \in Nat /\ key[b].start <= clock /\ key[b].expires = key[b].start + Window
          /\ clock <= key[b].expires
    BY <1>1 DEF LimitsTyped, Counters
  <1>5. \A b \in Buckets : key'[b] # Unset => key'[b] = key[b] /\ key[b] # Unset /\ clock + 1 <= key[b].expires
    BY <1>2, <1>3, <1>4
  <1>6. LimitsTyped'
    <2>1. key' \in [Buckets -> Counters \cup {Unset}]
      <3>1. key' = [b \in Buckets |-> IF key[b] # Unset /\ key[b].expires < clock + 1 THEN Unset ELSE key[b]]
        BY DEF ClockTicks
      <3>2. \A b \in Buckets : key[b] \in Counters \cup {Unset}
        BY <1>1 DEF LimitsTyped
      <3>3. QED
        BY <3>1, <3>2
    <2>2. clock' \in Times /\ clock' \in Nat
      BY <1>2 DEF Times
    <2>3. \A b \in Buckets : key'[b] # Unset =>
            /\ key'[b] \in Counters /\ key'[b].count > 0 /\ key'[b].start <= clock'
            /\ key'[b].expires = key'[b].start + Window /\ clock' <= key'[b].expires
      BY <1>2, <1>4, <1>5
    <2>4. QED
      BY <1>1, <1>2, <2>1, <2>2, <2>3 DEF LimitsTyped
  <1>7. RequestsFit'
    BY <1>1, <1>2 DEF RequestsFit
  <1>8. PassesFit'
    <2>1. "address" \in Buckets
      BY DEF Buckets
    <2>2. ASSUME NEW i \in 1..Len(passes)
          PROVE  IF key'["address"] = Unset THEN passes[i].start + Window < clock'
                 ELSE InWindow(i)' \/ passes[i].start + Window < key'["address"].start
      <3>1. IF key["address"] = Unset THEN passes[i].start + Window < clock
            ELSE InWindow(i) \/ passes[i].start + Window < key["address"].start
        BY <1>1, <2>2 DEF PassesFit
      <3>2. passes[i].start \in Nat
        <4>1. passes[i] \in [at : Times, start : Times]
          BY <1>1, ElementOfSeq DEF LimitsTyped
        <4>2. QED
          BY <1>2, <4>1 DEF Times
      <3>3. PICK t \in Nat : t = passes[i].start
        BY <3>2
      <3>4. CASE key'["address"] # Unset
        BY <1>2, <1>5, <2>1, <3>1, <3>4 DEF InWindow
      <3>5. CASE key["address"] = Unset
        <4>1. key'["address"] = Unset
          BY <1>3, <2>1, <3>5
        <4>2. t + Window < clock
          BY <3>1, <3>3, <3>5
        <4>3. t + Window < clock'
          BY <1>1, <1>2, <4>2 DEF Numbers
        <4>4. QED
          BY <3>3, <4>1, <4>3
      <3>6. CASE key'["address"] = Unset /\ key["address"] # Unset
        <4>1. PICK k \in Counters : k = key["address"]
          BY <1>4, <2>1, <3>6
        <4>2. k.expires < clock + 1 /\ k.expires = k.start + Window /\ k.start \in Nat /\ k.start <= clock
          BY <1>3, <1>4, <2>1, <3>6, <4>1
        <4>3. t = k.start \/ t + Window < k.start
          BY <3>1, <3>3, <3>6, <4>1 DEF InWindow
        <4>4. t + Window < clock'
          BY <1>1, <1>2, <4>2, <4>3 DEF Numbers
        <4>5. QED
          BY <3>3, <3>6, <4>4
      <3>7. QED
        BY <3>4, <3>5, <3>6
    <2>3. QED
      BY <1>1, <1>2, <2>2 DEF PassesFit, PassFits
  <1>9. RefusalsFit'
    <2>1. SUFFICES ASSUME NEW b \in Buckets, refused[b] # Unset
                   PROVE  /\ refused[b].start <= clock' /\ refused[b].until >= refused[b].start + Window
                          /\ key'[b] # Unset => key'[b].start >= refused[b].start
      BY <1>2 DEF RefusalsFit, RefusalFits
    <2>2. /\ refused[b].start <= clock /\ refused[b].until >= refused[b].start + Window
          /\ key[b] # Unset => key[b].start >= refused[b].start
      BY <1>1, <2>1 DEF RefusalsFit, RefusalFits
    <2>3. refused[b].start \in Nat
      BY <1>1, <2>1 DEF LimitsTyped, Refusals
    <2>4. QED
      BY <1>2, <1>5, <2>2, <2>3
  <1>10. MemoryFits'
    <2>1. SUFFICES ASSUME NEW s \in Servers, NEW b \in Buckets, full[s][b] >= clock' + Second
                   PROVE  key'[b] # Unset /\ key'[b].count > Limit /\ full[s][b] < key'[b].expires + Second
      BY <1>2 DEF MemoryFits
    <2>2. PICK f \in Nat : f = full[s][b]
      BY <1>1 DEF LimitsTyped
    <2>3. f >= clock + Second /\ f >= clock + 1 + Second
      BY <1>1, <1>2, <2>1, <2>2 DEF Numbers
    <2>4. key[b] # Unset /\ key[b].count > Limit /\ f < key[b].expires + Second
      BY <1>1, <2>2, <2>3 DEF MemoryFits
    <2>5. ~(key[b].expires < clock + 1)
      BY <1>1, <1>2, <1>4, <2>3, <2>4 DEF Numbers
    <2>6. key'[b] = key[b]
      BY <1>3, <2>5
    <2>7. QED
      BY <2>2, <2>4, <2>6
  <1>11. WorkFits'
    <2>1. SUFFICES ASSUME NEW c \in {"locator", "ip"}, key'[c] # Unset, clock' < key'[c].expires
                   PROVE  key'[c].count <= Limit + Cardinality(Silent(c)') + faults
      BY <1>2 DEF WorkFits
    <2>2. c \in Buckets
      BY DEF Buckets
    <2>3. key'[c] = key[c] /\ key[c] # Unset /\ clock < key[c].expires
      BY <1>2, <1>4, <1>5, <2>1, <2>2
    <2>4. Silent(c)' = Silent(c)
      BY <1>2, <2>3 DEF Silent, Asks
    <2>5. QED
      BY <1>1, <2>3, <2>4 DEF WorkFits
  <1>12. QED
    BY <1>6, <1>7, <1>8, <1>9, <1>10, <1>11, LimitsParts DEF ToldInv

-----------------------------------------------------------------------------
LEMMA LimitsBegin ==
  ASSUME RateLimitsAssumption, LimitsInit
  PROVE  ToldInv
  <1>1. Len(passes) = 0 /\ passes \in Seq([at : Times, start : Times])
    BY DEF LimitsInit
  <1>2. /\ clock \in Times /\ clock \in Nat /\ started \in 0..MaxRequests /\ faults \in 0..MaxFaults /\ faults \in Nat
    BY DEF LimitsInit, Times, RateLimitsAssumption
  <1>3. Idle \in [kind : Kinds \cup {Unset}, stage : 0..2, asking : BOOLEAN] /\ RequestFits(Idle)
    BY DEF Idle, RequestFits, RateLimitsAssumption, AllKinds
  <1>4. LimitsTyped
    BY <1>1, <1>2, <1>3 DEF LimitsInit, LimitsTyped
  <1>5. RequestsFit
    BY <1>3 DEF LimitsInit, RequestsFit
  <1>6. PassesFit
    BY <1>1 DEF PassesFit
  <1>7. RefusalsFit /\ WorkFits
    BY DEF LimitsInit, RefusalsFit, RefusalFits, WorkFits, Buckets
  <1>8. MemoryFits
    BY LimitsNumbers DEF LimitsInit, MemoryFits, Numbers
  <1>9. QED
    BY <1>4, <1>5, <1>6, <1>7, <1>8, LimitsParts DEF ToldInv

LEMMA LimitsSteps ==
  ASSUME RateLimitsAssumption, ToldInv, [LimitsNext]_limitsVars
  PROVE  ToldInv'
  <1>1. CASE LimitsNext
    BY <1>1, StartKeepsLimits, GuardKeeps, PreflightKeeps, AskKeeps, CountsKeep, LostKeeps, TicksKeep
       DEF LimitsNext
  <1>2. CASE UNCHANGED limitsVars
    <2>1. LimitsTyped /\ RequestsFit /\ PassesFit /\ RefusalsFit /\ MemoryFits /\ WorkFits
      BY LimitsParts DEF ToldInv
    <2>2. UNCHANGED <<clock, key, full, request, passes, refused, started, faults>>
      BY <1>2 DEF limitsVars
    <2>3. LimitsTyped' /\ RequestsFit'
      BY <2>1, <2>2 DEF LimitsTyped, RequestsFit
    <2>4. PassesFit'
      BY <2>1, <2>2 DEF PassesFit, PassFits, InWindow
    <2>5. RefusalsFit' /\ MemoryFits'
      BY <2>1, <2>2 DEF RefusalsFit, RefusalFits, MemoryFits
    <2>6. \A c : Silent(c)' = Silent(c)
      BY <2>2 DEF Silent, Asks
    <2>7. WorkFits'
      BY <2>1, <2>2, <2>6 DEF WorkFits
    <2>8. QED
      BY <2>3, <2>4, <2>5, <2>7, LimitsParts DEF ToldInv
  <1>3. QED
    BY <1>1, <1>2

LEMMA LimitsHold ==
  ASSUME RateLimitsAssumption, ToldInv
  PROVE  LimitsAsTold
  <1>1. LimitsTyped /\ PassesFit /\ RefusalsFit /\ MemoryFits /\ WorkFits /\ Numbers
    BY LimitsParts, LimitsNumbers DEF ToldInv
  <1>2. AtMostTwice
    <2>1. SUFFICES ASSUME NEW i \in 1..Len(passes), NEW j \in 1..Len(passes), j = i + 2 * Limit
                   PROVE  passes[j].at >= passes[i].at + Window
      BY DEF AtMostTwice
    <2>2. Len(passes) \in Nat /\ Times \subseteq Nat
      BY <1>1, LenProperties DEF LimitsTyped, Times, RateLimitsAssumption
    <2>3. PICK h \in 1..Len(passes) : h = i + Limit /\ j = h + Limit
      BY <1>1, <2>1, <2>2 DEF Numbers
    <2>4. \A m \in 1..Len(passes) : passes[m].at \in Nat /\ passes[m].start \in Nat
      <3>1. \A m \in 1..Len(passes) : passes[m] \in [at : Times, start : Times]
        BY <1>1, ElementOfSeq DEF LimitsTyped
      <3>2. QED
        BY <2>2, <3>1
    <2>5. /\ passes[i].start + Window <= passes[h].start /\ passes[h].start + Window <= passes[j].start
          /\ passes[i].at < passes[i].start + Window /\ passes[j].start <= passes[j].at
      BY <1>1, <2>3 DEF PassesFit, PassFits
    <2>6. /\ passes[i].at \in Nat /\ passes[i].start \in Nat /\ passes[h].start \in Nat
          /\ passes[j].start \in Nat /\ passes[j].at \in Nat
      BY <2>3, <2>4
    <2>7. PICK a \in Nat, s \in Nat, t \in Nat, u \in Nat, z \in Nat :
            /\ a = passes[i].at /\ s = passes[i].start /\ t = passes[h].start
            /\ u = passes[j].start /\ z = passes[j].at
      BY <2>6
    <2>8. s + Window <= t /\ t + Window <= u /\ a < s + Window /\ u <= z
      BY <2>5, <2>7
    <2>9. z >= a + Window
      BY <1>1, <2>8 DEF Numbers
    <2>10. QED
      BY <2>7, <2>9
  <1>3. RetryAfterEndsWindow
    <2>1. SUFFICES ASSUME NEW b \in Buckets, refused[b] # Unset, clock >= refused[b].until, key[b] # Unset
                   PROVE  key[b].start > refused[b].start \/ clock = key[b].expires
      BY DEF RetryAfterEndsWindow
    <2>2. refused[b].until >= refused[b].start + Window /\ key[b].start >= refused[b].start
      BY <1>1, <2>1 DEF RefusalsFit, RefusalFits
    <2>3. refused[b].start \in Nat /\ refused[b].until \in Nat
      BY <1>1, <2>1 DEF LimitsTyped, Refusals
    <2>4. /\ key[b].start \in Nat /\ key[b].expires \in Nat /\ key[b].expires = key[b].start + Window
          /\ clock <= key[b].expires /\ clock \in Nat
      BY <1>1, <2>1 DEF LimitsTyped, Counters
    <2>5. QED
      BY <1>1, <2>1, <2>2, <2>3, <2>4 DEF Numbers
  <1>4. MemoryEndsWithWindow
    BY <1>1 DEF MemoryEndsWithWindow, MemoryFits
  <1>5. FailureWorkIsBounded
    <2>1. SUFFICES ASSUME NEW b \in {"locator", "ip"}, key[b] # Unset, clock < key[b].expires
                   PROVE  key[b].count <= Limit + Cardinality(Callers) + faults
      BY DEF FailureWorkIsBounded
    <2>2. PICK A \in SUBSET Callers : A = Silent(b)
      BY DEF Silent
    <2>3. Cardinality(A) \in Nat /\ Cardinality(Callers) \in Nat /\ Cardinality(A) <= Cardinality(Callers)
      BY SilentGrows
    <2>4. key[b].count <= Limit + Cardinality(A) + faults
      BY <1>1, <2>1, <2>2 DEF WorkFits
    <2>5. key[b].count \in Nat /\ faults \in Nat
      BY <1>1, <2>1 DEF LimitsTyped, Counters, Buckets
    <2>6. QED
      BY <1>1, <2>3, <2>4, <2>5 DEF Numbers
  <1>6. QED
    BY <1>1, <1>2, <1>3, <1>4, <1>5, LimitsParts DEF LimitsAsTold

(***************************************************************************)
(* For any number of servers and requests, any limit and window: no stretch *)
(* as long as a window lets more than twice the limit through a guard,     *)
(* Retry-After outlasts the window that refused, servers forget full       *)
(* buckets within a second of its end, and beyond the limit a window       *)
(* counts at most one failure for each request under way or lost.          *)
(***************************************************************************)
THEOREM LimitsAlwaysAsTold ==
  ASSUME RateLimitsAssumption
  PROVE  LimitsSpec => []LimitsAsTold
  <1>1. LimitsInit => ToldInv
    BY LimitsBegin
  <1>2. ToldInv /\ [LimitsNext]_limitsVars => ToldInv'
    BY LimitsSteps
  <1>3. ToldInv => LimitsAsTold
    BY LimitsHold
  <1>4. QED
    BY <1>1, <1>2, <1>3, PTL DEF LimitsSpec

================================================================================
