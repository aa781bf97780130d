---------------------------- MODULE PairingOwner ----------------------------
(* The agent's side of a pairing: how an MCP server process claims a code,     *)
(* waits for the owner's decision, redeems the credential and stores it        *)
(* (sceneboard-mcp/src/pairing/pairing-session.owner.ts).  Processes of one    *)
(* profile share its lease and its credential store, and the tools of a        *)
(* process may be called while others of its calls are under way.              *)
EXTENDS Naturals, FiniteSets

CONSTANTS
    Processes,
    Calls,         \* tool calls that can be under way at a time
    ProcessOf,     \* the process a call is made to
    Codes,         \* the codes there are: the claim of one makes its pairing
    None,
    MaxUses,       \* bound: requests of a call
    Closers,       \* the processes whose input may end
    MaxExits       \* bound: processes that end

PairingOwnerAssumption ==
    /\ ProcessOf \in [Calls -> Processes]
    /\ None \notin Calls \cup Codes \cup Processes /\ Calls \cap Codes = {}
    /\ Closers \subseteq Processes /\ MaxUses \in Nat /\ MaxExits \in Nat

VARIABLES
    server,        \* the pairing requests of the board server
    session,       \* this.session of each process
    attempts,      \* redeemAttempts of the session of a pairing
    wiped,         \* the proofs that were overwritten
    holder,        \* who has the lease: a request, or the session of a pairing
    store,         \* whose token the credential store holds
    call,          \* where a call is
    told,          \* history: what status answered of a pairing
    madeBy,        \* history: the process that has the session of a pairing
    ended,         \* the processes that closed or died
    astray         \* history: the processes of which two status calls were under
                   \* way at a time, or which closed under one

ownerVars ==
    <<server, session, attempts, wiped, holder, store, call, told, madeBy, ended, astray>>

Resting(uses) == [pc |-> "idle", pairing |-> None, seen |-> "none", again |-> FALSE, uses |-> uses]
Done(c) == [call EXCEPT ![c] = Resting(@.uses)]
At(c, pc) == call[c].pc = pc
Goto(c, pc) == [call EXCEPT ![c].pc = pc]
Asking(c, x) == [call EXCEPT ![c] = [@ EXCEPT !.pc = "ask", !.pairing = x]]

ServerStates == {"free", "pending", "approved", "redeemed", "ended"}

OwnerTypeOK ==
    /\ server \in [Codes -> ServerStates]
    /\ session \in [Processes -> Codes \cup {None}]
    /\ attempts \in [Codes -> 0 .. 2]
    /\ wiped \subseteq Codes
    /\ holder \in Calls \cup Codes \cup {None}
    /\ store \in Codes \cup {None}
    /\ call \in [Calls ->
         [pc : {"idle", "acquire", "claim", "ask", "got", "redeem", "save", "check", "probe"},
          pairing : Codes \cup {None},
          seen : ServerStates \cup {"none", "invalid", "error"},
          again : BOOLEAN, uses : 0 .. MaxUses]]
    /\ told \in [Codes -> SUBSET {"redeemed", "unrecoverable"}]
    /\ madeBy \in [Codes -> Processes \cup {None}]
    /\ ended \subseteq Processes /\ astray \subseteq Processes

OwnerInit ==
    /\ server = [x \in Codes |-> "free"] /\ session = [p \in Processes |-> None]
    /\ attempts = [x \in Codes |-> 0] /\ wiped = {} /\ holder = None /\ store = None
    /\ call = [c \in Calls |-> Resting(0)] /\ told = [x \in Codes |-> {}]
    /\ madeBy = [x \in Codes |-> None] /\ ended = {} /\ astray = {}

\* The processes with a status call under way.
Polling == {ProcessOf[c] : c \in {d \in Calls : call[d].pairing # None}}

CanStart(c) == At(c, "idle") /\ ProcessOf[c] \notin ended

-----------------------------------------------------------------------------
(* request                                                                   *)

\* A process that has a session answers PROFILE_BUSY at once.
RequestStart(c) ==
    /\ CanStart(c) /\ session[ProcessOf[c]] = None /\ call[c].uses < MaxUses
    /\ call' = [call EXCEPT ![c] = [@ EXCEPT !.pc = "acquire", !.uses = call[c].uses + 1]]
    /\ UNCHANGED <<server, session, attempts, wiped, holder, store, told, madeBy, ended, astray>>

RequestAcquire(c) ==
    /\ At(c, "acquire")
    /\ IF holder = None THEN holder' = c /\ call' = Goto(c, "claim")
                        ELSE call' = Done(c) /\ UNCHANGED holder
    /\ UNCHANGED <<server, session, attempts, wiped, store, told, madeBy, ended, astray>>

\* The store cannot be read, there is no installation id, the server refuses.
RequestFails(c) ==
    /\ At(c, "claim") /\ holder' = None /\ call' = Done(c)
    /\ UNCHANGED <<server, session, attempts, wiped, store, told, madeBy, ended, astray>>

Unknown == None

\* The claim is made; its answer arrives, or the outcome stays unknown.
RequestClaim(c) ==
    /\ At(c, "claim") /\ call' = Done(c)
    /\ \E x \in Codes :
         /\ server[x] = "free" /\ server' = [server EXCEPT ![x] = "pending"]
         /\ \/ /\ holder' = x /\ session' = [session EXCEPT ![ProcessOf[c]] = x]
               /\ madeBy' = [madeBy EXCEPT ![x] = ProcessOf[c]]
            \/ holder' = Unknown /\ UNCHANGED <<session, madeBy>>
    /\ UNCHANGED <<attempts, wiped, store, told, ended, astray>>

-----------------------------------------------------------------------------
(* status                                                                    *)

StatusStart(c) ==
    /\ CanStart(c) /\ session[ProcessOf[c]] # None
    /\ call' = Asking(c, session[ProcessOf[c]])
    /\ astray' = astray \cup ({ProcessOf[c]} \cap Polling)
    /\ UNCHANGED <<server, session, attempts, wiped, holder, store, told, madeBy, ended>>

\* The request goes out with the proof as it is then; transport may fail.
Ask(c) ==
    LET x == call[c].pairing IN
    /\ At(c, "ask")
    /\ \E seen \in {IF x \in wiped THEN "invalid" ELSE server[x], "error"} :
         call' = [call EXCEPT ![c] = [@ EXCEPT !.pc = "got", !.seen = seen]]
    /\ UNCHANGED <<server, session, attempts, wiped, holder, store, told, madeBy, ended, astray>>

\* Mutant: the session is forgotten while its lease is kept.
Teardown_Keeping(c) ==
    LET x == call[c].pairing
        p == ProcessOf[c]
    IN
    /\ session' = [session EXCEPT ![p] = IF @ = x THEN None ELSE @]
    /\ wiped' = wiped \cup {x} /\ UNCHANGED holder
\* teardown: the session is forgotten if it is still this one.
Teardown(c) ==
    LET x == call[c].pairing
        p == ProcessOf[c]
    IN
    /\ session' = [session EXCEPT ![p] = IF @ = x THEN None ELSE @]
    /\ wiped' = wiped \cup {x}
    /\ holder' = IF holder = x THEN None ELSE holder

ToldRedeemed(x) == [told EXCEPT ![x] = @ \cup {"unrecoverable"}]

MayRedeem(x) == attempts[x] < 2

\* The call answers and the session stays; a pending pairing is asked again
\* until the time of the call is over.
ResolveError(c) ==
    /\ \/ call[c].seen \in {"error", "pending"} /\ call' = Done(c)
       \/ call[c].seen = "pending" /\ ~call[c].again /\ call' = Goto(c, "ask")
    /\ UNCHANGED <<session, attempts, wiped, holder, told>>

\* A proof that is not accepted ends the session, except after a redemption
\* whose outcome is unknown.
ResolveInvalid(c) ==
    /\ call[c].seen = "invalid" /\ call' = Done(c)
    /\ IF call[c].again THEN UNCHANGED <<session, wiped, holder>> ELSE Teardown(c)
    /\ UNCHANGED <<attempts, told>>

\* Mutant: a pairing that is over keeps its session.
ResolveOver_Stays(c) ==
    /\ call[c].seen = "ended" /\ call' = Done(c)
    /\ UNCHANGED <<session, attempts, wiped, holder, told>>
\* denied, cancelled, expired.
ResolveOver(c) ==
    /\ call[c].seen = "ended" /\ Teardown(c) /\ call' = Done(c) /\ UNCHANGED <<attempts, told>>

ResolveRedeemed(c) ==
    /\ call[c].seen = "redeemed" /\ Teardown(c) /\ call' = Done(c)
    /\ told' = ToldRedeemed(call[c].pairing) /\ UNCHANGED attempts

ResolveApproved(c) ==
    LET x == call[c].pairing IN
    /\ call[c].seen = "approved"
    /\ IF MayRedeem(x)
       THEN attempts' = [attempts EXCEPT ![x] = @ + 1] /\ call' = Goto(c, "redeem")
       ELSE call' = Done(c) /\ UNCHANGED attempts
    /\ UNCHANGED <<session, wiped, holder, told>>

ResolveStatus(c) ==
    /\ At(c, "got")
    /\ \/ ResolveError(c) \/ ResolveInvalid(c) \/ ResolveOver(c) \/ ResolveRedeemed(c)
       \/ ResolveApproved(c)
    /\ UNCHANGED <<server, store, madeBy, ended, astray>>

AskAgain(c) == [call EXCEPT ![c] = [@ EXCEPT !.pc = "ask", !.again = TRUE]]

\* What a call does of an answer to redeem: it saves the token, asks for the
\* status when it cannot know, or answers an error and keeps the session.
RedeemToken(c) ==
    LET x == call[c].pairing IN
    /\ At(c, "redeem")
    /\ \/ /\ server[x] = "approved" /\ x \notin wiped
          /\ server' = [server EXCEPT ![x] = "redeemed"]
          /\ call' \in {Goto(c, "save"), AskAgain(c), Done(c)}
       \/ call' \in {AskAgain(c), Done(c)} /\ UNCHANGED server
    /\ UNCHANGED <<session, attempts, wiped, holder, store, told, madeBy, ended, astray>>

\* The write fails, or it is done.
Save(c) ==
    /\ At(c, "save")
    /\ \/ store' = call[c].pairing /\ call' = Goto(c, "check")
       \/ call' = Done(c) /\ UNCHANGED store
    /\ UNCHANGED <<server, session, attempts, wiped, holder, told, madeBy, ended, astray>>

\* The token is read back before it is used.
Check(c) ==
    /\ At(c, "check")
    /\ IF store = call[c].pairing THEN call' = Goto(c, "probe") /\ UNCHANGED told
       ELSE call' = Done(c) /\ told' = ToldRedeemed(call[c].pairing)
    /\ UNCHANGED <<server, session, attempts, wiped, holder, store, madeBy, ended, astray>>

\* The connection is tried with the token; on failure the session stays.
Probe(c) ==
    LET x == call[c].pairing IN
    /\ At(c, "probe") /\ call' = Done(c)
    /\ \/ Teardown(c) /\ told' = [told EXCEPT ![x] = @ \cup {"redeemed"}]
       \/ UNCHANGED <<session, wiped, holder, told>>
    /\ UNCHANGED <<server, attempts, store, madeBy, ended, astray>>

-----------------------------------------------------------------------------
Approve(x) ==
    /\ server[x] = "pending" /\ server' = [server EXCEPT ![x] = "approved"]
    /\ UNCHANGED <<session, attempts, wiped, holder, store, call, told, madeBy, ended, astray>>

\* The owner denies or cancels it, or a deadline passes.
RunsOut(x) ==
    /\ server[x] \in {"pending", "approved"} /\ server' = [server EXCEPT ![x] = "ended"]
    /\ UNCHANGED <<session, attempts, wiped, holder, store, call, told, madeBy, ended, astray>>

MayEnd(p) == p \notin ended /\ Cardinality(ended) < MaxExits

\* close: no call starts any more, those under way go on.
Close(p) ==
    /\ p \in Closers /\ MayEnd(p) /\ ended' = ended \cup {p}
    /\ session' = [session EXCEPT ![p] = None]
    /\ wiped' = wiped \cup ({session[p]} \ {None})
    /\ holder' = IF holder = session[p] THEN None ELSE holder
    /\ astray' = astray \cup ({p} \cap Polling)
    /\ UNCHANGED <<server, attempts, store, call, told, madeBy>>

\* The process is gone and the kernel gives its lease back.
Exit(p) ==
    LET its == {c \in Calls : ProcessOf[c] = p}
        held == its \cup {x \in Codes : madeBy[x] = p}
    IN
    /\ p \in ended \/ MayEnd(p)
    /\ ended' = ended \cup {p}
    /\ session' = [session EXCEPT ![p] = None]
    /\ holder' = IF holder \in held THEN None ELSE holder
    /\ call' = [c \in Calls |-> IF c \in its THEN Resting(call[c].uses) ELSE call[c]]
    /\ UNCHANGED <<server, attempts, wiped, store, told, madeBy, astray>>

CallStep(c) ==
    \/ RequestStart(c) \/ RequestAcquire(c) \/ RequestFails(c) \/ RequestClaim(c)
    \/ StatusStart(c) \/ Ask(c) \/ ResolveStatus(c) \/ RedeemToken(c) \/ Save(c) \/ Check(c) \/ Probe(c)

OwnerNext ==
    \/ \E c \in Calls : CallStep(c)
    \/ \E x \in Codes : Approve(x) \/ RunsOut(x)
    \/ \E p \in Processes : Close(p) \/ Exit(p)

OwnerSpec == OwnerInit /\ [][OwnerNext]_ownerVars

-----------------------------------------------------------------------------
(* Properties                                                                *)

\* The lease of the profile belongs to the session that is shown to the agent,
\* or to a request that is about to have one; nobody keeps it besides.
LeaseIsAccounted ==
    /\ \A p \in Processes :
         session[p] # None => holder = session[p] /\ session[p] \notin wiped
    /\ holder \in Codes => session[madeBy[holder]] = holder
    /\ holder \in Calls => At(holder, "claim")

\* A credential the server has given out is never lost in silence: when the
\* session of its pairing is gone, a status has told that it was stored or that
\* it cannot be recovered (unless the process was closed).
LossIsTold ==
    \A x \in Codes :
        server[x] = "redeemed" /\ madeBy[x] \notin ended =>
            session[madeBy[x]] = x \/ told[x] # {}

\* The store is written by the process that has the lease, unless its status
\* calls overlap or it closes under one.
SavedUnderLease ==
    \A c \in Calls :
        At(c, "save") => holder = call[c].pairing \/ ProcessOf[c] \in astray

\* A status that answers redeemed has its token in the store as it answers,
\* unless a process may have written it without the lease.
ReportedIsStored ==
    \A x \in Codes : "redeemed" \in told'[x] \ told[x] => store = x \/ astray # {}

\* A profile's lease belongs to the pairing shown to the agent, and a credential
\* the server gave out is stored under it or told to be lost (the MCP server's
\* pairing owner).
LeaseIsOwned ==
    /\ [](OwnerTypeOK /\ LeaseIsAccounted /\ LossIsTold /\ SavedUnderLease)
    /\ [][ReportedIsStored]_ownerVars

\* The lease of every pairing is given back: a profile is not busy for ever, if
\* its process goes on being called or exits (no timer gives the lease back).
LeaseIsFreed == \A x \in Codes : holder = x ~> holder # x
=============================================================================
