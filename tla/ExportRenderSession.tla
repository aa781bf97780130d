------------------------- MODULE ExportRenderSession -------------------------
(* The render session of one export: the bundle a process keeps for its       *)
(* browser page, and the session in Redis that says who may read it and how   *)
(* often (export-render-broker.service.ts, export-render-session.repository.ts*)
(* and its script, export-render.controller.ts).  The page asks for the       *)
(* projection and the resources; the renderer disposes of the session at any  *)
(* moment, also while an answer of Redis is on its way.                       *)
EXTENDS Naturals, FiniteSets

CONSTANTS
    Requests,      \* requests of the page
    None,          \* no claim nonce
    KindOf,        \* of every request: "projection" or "resource"
    Good,          \* requests that are in order: token, digest and origin
    MaxResources   \* EXPORT_RESOURCE_MAX_COUNT_V1

RequestsAssumption ==
    /\ KindOf \in [Requests -> {"projection", "resource"}]
    /\ Good \subseteq Requests /\ None \notin Requests
    /\ MaxResources \in Nat

VARIABLES
    bundle,        \* the entry of the map: whether there is one, its claimNonce
    session,       \* the hash in Redis: state, claimNonce and counters
    at,            \* of every request: where it is, and the entry it works with
    over,          \* the renderer has disposed of the session for good
    raced          \* a claim was under way when the entry was deleted

sessionVars == <<bundle, session, at, over, raced>>

NoBundle == [there |-> FALSE, nonce |-> None]
Gone == [state |-> "absent", nonce |-> None, projections |-> 0, resources |-> 0]
Pcs == {"new", "token", "again", "claim", "set", "debit", "serve", "close", "served", "refused"}

SessionTypeOK ==
    /\ bundle \in [there : BOOLEAN, nonce : Requests \cup {None}]
    /\ session \in [state : {"absent", "open", "claimed"}, nonce : Requests \cup {None},
                    projections : 0..1, resources : 0..MaxResources]
    /\ at \in [Requests -> [pc : Pcs, nonce : Requests \cup {None}]]
    /\ over \in BOOLEAN /\ raced \in BOOLEAN
    /\ session.state = "claimed" <=> session.nonce # None

\* open and register have returned.
SessionInit ==
    /\ bundle = [there |-> TRUE, nonce |-> None]
    /\ session = [Gone EXCEPT !.state = "open"]
    /\ at = [q \in Requests |-> [pc |-> "new", nonce |-> None]]
    /\ over = FALSE /\ raced = FALSE

-----------------------------------------------------------------------------
To(q, pc) == at' = [at EXCEPT ![q].pc = pc]

\* A claim is under way between the look at the entry and its new value.
Claiming == \E q \in Requests : at[q].pc \in {"token", "again", "claim", "set"} /\ at[q].nonce = None

\* dispose: the entry is deleted at once; a session that was claimed is closed,
\* which may fail and is not tried again.
Dispose ==
    /\ bundle' = NoBundle
    /\ raced' = (raced \/ Claiming)
    /\ \/ session' = session
       \/ /\ bundle.there /\ bundle.nonce # None
          /\ session' = IF session.nonce = bundle.nonce THEN Gone ELSE session

Refuse(q) == To(q, "refused") /\ UNCHANGED over

\* The entry is read.
Look(q) ==
    /\ at[q].pc = "new"
    /\ at' = [at EXCEPT ![q] = IF bundle.there THEN [pc |-> "token", nonce |-> bundle.nonce]
                               ELSE [@ EXCEPT !.pc = "refused"]]
    /\ UNCHANGED <<bundle, session, over, raced>>

\* authorizeToken: the digest in Redis; without it the entry is deleted.
Token(q) ==
    /\ at[q].pc = "token"
    /\ IF session.state # "absent" /\ q \in Good
       THEN /\ To(q, IF at[q].nonce = None THEN "again" ELSE "debit")
            /\ UNCHANGED <<bundle, session, over, raced>>
       ELSE Dispose /\ Refuse(q)

\* claim reads the digest once more; without it the session is rejected.
Again(q) ==
    /\ at[q].pc = "again"
    /\ IF session.state # "absent"
       THEN To(q, "claim") /\ UNCHANGED <<session, over>>
       ELSE Refuse(q) /\ session' = Gone
    /\ UNCHANGED <<bundle, raced>>

\* Mutant: a session can be claimed again.
MayClaim_Again == session.state # "absent"
MayClaim == session.state = "open"

\* The script claims a session that is open, for one nonce.
Claim(q) ==
    /\ at[q].pc = "claim"
    /\ IF MayClaim
       THEN /\ session' = [session EXCEPT !.state = "claimed", !.nonce = q]
            /\ To(q, "set") /\ UNCHANGED over
       ELSE Refuse(q) /\ UNCHANGED session
    /\ UNCHANGED <<bundle, raced>>

\* The answer arrives: the entry is put back with its nonce, whatever happened
\* to it since it was read.
SetClaimed(q) ==
    /\ at[q].pc = "set"
    /\ bundle' = [there |-> TRUE, nonce |-> q]
    /\ at' = [at EXCEPT ![q] = [pc |-> "debit", nonce |-> q]]
    /\ UNCHANGED <<session, over, raced>>

\* The budget of the script, with this request counted.
Within(q) ==
    IF KindOf[q] = "projection" THEN session.projections + 1 <= 1
    ELSE session.resources + 1 <= MaxResources

Counted(q) ==
    IF KindOf[q] = "projection" THEN [session EXCEPT !.projections = @ + 1]
    ELSE [session EXCEPT !.resources = @ + 1]

\* The script counts the request; one over the budget deletes the session.
Debit(q) ==
    /\ at[q].pc = "debit"
    /\ IF session.state = "claimed" /\ session.nonce = at[q].nonce
       THEN IF Within(q)
            THEN session' = Counted(q) /\ To(q, "serve")
            ELSE session' = Gone /\ To(q, "close")
       ELSE UNCHANGED session /\ To(q, "close")
    /\ UNCHANGED <<bundle, over, raced>>

\* The request was refused by the script, or came from elsewhere.
DisposeAfter(q) ==
    /\ at[q].pc = "close"
    /\ Dispose
    /\ Refuse(q)

Serve(q) ==
    /\ at[q].pc = "serve"
    /\ To(q, "served")
    /\ UNCHANGED <<bundle, session, over, raced>>

\* The render is over, or was aborted.
DisposeForGood ==
    /\ ~over
    /\ over' = TRUE
    /\ Dispose
    /\ UNCHANGED at

\* Redis drops the session 60 s after its last renewal, or at its deadline.
Lapse ==
    /\ session.state # "absent"
    /\ session' = Gone
    /\ UNCHANGED <<bundle, at, over, raced>>

SessionNext ==
    \/ DisposeForGood \/ Lapse
    \/ \E q \in Requests :
         \/ Look(q) \/ Token(q) \/ Again(q) \/ Claim(q) \/ SetClaimed(q)
         \/ Debit(q) \/ DisposeAfter(q) \/ Serve(q)

SessionSpec == SessionInit /\ [][SessionNext]_sessionVars

-----------------------------------------------------------------------------
\* What the page is served stays within the budget, over every claim, lapse and
\* disposal of its session: the projection once, the resources MaxResources
\* times (export-render-session-v1.lua:36).
ServedWithinBudget ==
    /\ Cardinality({q \in Requests : KindOf[q] = "projection" /\ at[q].pc = "served"}) <= 1
    /\ Cardinality({q \in Requests : KindOf[q] = "resource" /\ at[q].pc = "served"}) <= MaxResources

\* One request claims the session: what is served was authorized by that claim,
\* and only requests in order are served.
OneClaimServes ==
    /\ \A p, q \in Requests : at[p].pc = "served" /\ at[q].pc = "served" => at[p].nonce = at[q].nonce
    /\ \A q \in Requests : at[q].pc = "served" => q \in Good /\ at[q].nonce # None

\* The bundle, up to 256 MiB, does not outlive its render, unless a claim was
\* under way at its disposal and put it back (export-render-broker.service.ts:132).
LeftOnlyByClaim ==
    over /\ bundle.there /\ (\A q \in Requests : at[q].pc \in {"new", "served", "refused"}) => raced

\* What a page is served stays within the budget of one claim of its session
\* (the render broker and its script).
OneClaimIsServed == SessionTypeOK /\ ServedWithinBudget /\ OneClaimServes /\ LeftOnlyByClaim
=============================================================================
