------------------------------ MODULE MCLiveness ------------------------------
(***************************************************************************)
(* What must happen in the end, in the components whose fairness the code  *)
(* justifies.  A behaviour runs one of them (`part`), and is fair to the   *)
(* steps its processes, timers and connections take by themselves.  The    *)
(* dispatcher is extended, the others are instances.                       *)
(***************************************************************************)
EXTENDS OutboxDispatcher, Sequences, TLC

CONSTANT None    \* model value

VARIABLES
  part,
  settled, owed, silent, generation, late, captured, place,
  log, access, key, handler, wire, phase, recon, resetUsed, view, refreshed, drops,
  st, left, slotted, package, active, waiters, closed,
  req, slot, durable,
  schema, ledger, lock, at, cuts, foreign,
  server, session, attempts, wiped, holder, store, call, told, madeBy, ended, astray

Wait == INSTANCE HitlWait WITH Readers <- {"w1", "w2"}, MaxGeneration <- 2, reader <- place

Stream == INSTANCE BoardStream
  WITH EventKinds <- {"revision", "state"}, Window <- 3, CursorsExpire <- FALSE,
       MaxLog <- 3, MaxRotations <- 1, MaxCuts <- 1, server <- handler, cuts <- drops

Packages == INSTANCE PublicArtifactSlots WITH Handles <- {"h1", "h2", "h3", "h4"}, MaxActive <- 2

Transactions == INSTANCE OwnedTransactions
  WITH Requests <- {"r1", "r2", "r3"}, Owned <- {"r1", "r2"}, Slots <- {"c1"}, NoSlot <- None, Works <- 2

\* Migrations that may be repeated, and two processes of one build.
Restartable == <<<<"again", "again">>, <<"known">>, <<"again">>>>
Schema == INSTANCE Migrations
  WITH Processes <- {"p1", "p2"}, Steps <- Restartable, Known <- "p1" :> 3 @@ "p2" :> 3, MaxCuts <- 3

\* Two calls to a process, which pairs once.
Owner == INSTANCE PairingOwner
  WITH Processes <- {"p1"}, Calls <- {"a1", "a2"}, ProcessOf <- "a1" :> "p1" @@ "a2" :> "p1",
       Codes <- {"x1"}, MaxUses <- 1, Closers <- {}, MaxExits <- 0

ASSUME LivenessAssumption ==
  /\ Wait!WaitAssumption /\ Stream!StreamAssumption /\ DispatcherAssumption
  /\ Packages!SlotsAssumption /\ Transactions!OwnedAssumption /\ Schema!MigrationsAssumption
  /\ Owner!PairingOwnerAssumption

wait == <<settled, owed, silent, generation, late, captured, place>>
stream == <<log, access, key, handler, wire, phase, recon, resetUsed, view, refreshed, drops>>
packages == <<st, left, slotted, package, active, waiters, closed>>
transactions == <<req, slot, durable>>
migrations == <<schema, ledger, lock, at, cuts, foreign>>
owner == <<server, session, attempts, wiped, holder, store, call, told, madeBy, ended, astray>>
livenessVars == <<part, wait, stream, vars, packages, transactions, migrations, owner>>

LivenessInit ==
  /\ part \in {"wait", "stream", "outbox", "packages", "transactions", "migrations", "owner"}
  /\ Wait!WaitInit /\ Stream!Init /\ Init /\ Packages!SlotsInit /\ Transactions!PoolInit
  /\ Schema!Init /\ Owner!OwnerInit
  /\ part # "migrations" => ~foreign

LivenessNext ==
  \/ /\ part = "wait" /\ Wait!WaitNext
     /\ UNCHANGED <<part, stream, vars, packages, transactions, migrations, owner>>
  \/ /\ part = "stream" /\ Stream!Next
     /\ UNCHANGED <<part, wait, vars, packages, transactions, migrations, owner>>
  \/ /\ part = "outbox" /\ Next
     /\ UNCHANGED <<part, wait, stream, packages, transactions, migrations, owner>>
  \/ /\ part = "packages" /\ Packages!SlotsNext
     /\ UNCHANGED <<part, wait, stream, vars, transactions, migrations, owner>>
  \/ /\ part = "transactions" /\ Transactions!PoolNext
     /\ UNCHANGED <<part, wait, stream, vars, packages, migrations, owner>>
  \/ /\ part = "migrations" /\ Schema!Next
     /\ UNCHANGED <<part, wait, stream, vars, packages, transactions, owner>>
  \/ /\ part = "owner" /\ Owner!OwnerNext
     /\ UNCHANGED <<part, wait, stream, vars, packages, transactions, migrations>>

----------------------------------------------------------------------------
(* Fairness: of the part that runs, and never of a fault or of a user *)

\* A reader goes on by itself and its deadline passes.
WaitFairness ==
  \A r \in {"w1", "w2"} :
    /\ WF_wait(part = "wait" /\ Wait!Advance(r))
    /\ WF_wait(part = "wait" /\ Wait!DeadlinePasses(r))

\* Client and server of a stream run: they connect, serve, receive and refresh.
StreamFairness ==
  /\ WF_stream(part = "stream" /\ Stream!Connect)
  /\ WF_stream(part = "stream" /\ Stream!Serve)
  /\ WF_stream(part = "stream" /\ Stream!Receive)
  /\ WF_stream(part = "stream" /\ Stream!Refresh)

\* Dispatchers poll on an interval, and a lease that nobody renews lapses.
OutboxFairness ==
  /\ \A d \in Dispatchers : WF_vars(part = "outbox" /\ Step(d))
  /\ \A e \in Events : WF_vars(part = "outbox" /\ LeaseLapses(e))

\* A fetch settles, and an artifact's handshake ends (see ArtifactBridge).
PackagesFairness ==
  \A h \in {"h1", "h2", "h3", "h4"} :
    /\ WF_packages(part = "packages" /\ Packages!Continue(h))
    /\ WF_packages(part = "packages" /\ (Packages!Certify(h) \/ Packages!FetchFails(h)))
    /\ WF_packages(part = "packages" /\ st[h] = "certified" /\ Packages!GiveUp(h))

\* The database answers, and the pool serves who asks in turn.
TransactionsFairness ==
  WF_transactions(part = "transactions" /\ (\/ Transactions!Answer("c1")
                                           \/ \E r \in {"r1", "r2", "r3"} : Transactions!Undo(r)))
PoolIsFair ==
  \A r \in {"r1", "r2", "r3"} :
    SF_transactions(part = "transactions" /\ Transactions!Connect(r, "c1"))

\* A run goes on or gives the lock up; the deployment starts up again and again,
\* and it gets the lock when it keeps asking.
MigrationsFairness ==
  \A p \in {"p1", "p2"} :
    WF_migrations(part = "migrations" /\ (Schema!Run(p) \/ Schema!LockTimeout(p)))
DeploymentGoesOn ==
  \A p \in {"p1", "p2"} :
    /\ SF_migrations(part = "migrations" /\ at[p].cmd = "up" /\ Schema!Lock(p))
    /\ SF_migrations(part = "migrations" /\ Schema!Start(p, "up"))

\* A call goes on, and a request is over for the server after its time.
OwnerFairness ==
  /\ \A c \in {"a1", "a2"} :
       /\ WF_owner(part = "owner" /\ (Owner!RequestAcquire(c) \/ Owner!ResolveStatus(c)))
       /\ WF_owner(part = "owner" /\ (Owner!RequestFails(c) \/ Owner!RequestClaim(c)))
       /\ WF_owner(part = "owner" /\ (\/ Owner!RedeemToken(c) \/ Owner!Save(c) \/ Owner!Check(c)
                                      \/ Owner!Probe(c)))
  /\ WF_owner(part = "owner" /\ Owner!RunsOut("x1"))
\* The agent asks for the status while the process has a pairing, and a server
\* that is asked again and again answers in the end.  Neither is the code's to give.
AgentPolls ==
  \A c \in {"a1", "a2"} : WF_owner(part = "owner" /\ Owner!StatusStart(c))
ServerAnswers ==
  \A c \in {"a1", "a2"} :
    SF_owner(part = "owner" /\ Owner!Ask(c) /\ call'[c].seen # "error")

LivenessSpec ==
  /\ LivenessInit /\ [][LivenessNext]_livenessVars
  /\ WaitFairness /\ StreamFairness /\ OutboxFairness /\ PackagesFairness
  /\ TransactionsFairness /\ MigrationsFairness /\ OwnerFairness

----------------------------------------------------------------------------
(* What each component promises; HintsAccountedFor and DeliversAtLeastOnce   *)
(* are the dispatcher's own.                                               *)

\* Every reader of an answer returns from its wait (HitlWaitCoordinator).
ReadersLearn == part = "wait" => Wait!ReadersLearn

\* A connected client's view reaches the end of the board's log (the stream).
CatchesUp == part = "stream" => Stream!CatchesUp

\* Every artifact that waits for a slot is granted one or leaves.
WaitersServed == Packages!WaitersServed

\* Every request for a connection is answered, also behind aborted and late ones.
EveryoneAnswered == PoolIsFair => Transactions!EveryoneAnswered

\* The schema is completed however often its migrations are cut.
Converges == part = "migrations" /\ DeploymentGoesOn => Schema!Converges

\* The lease of a profile comes back while the agent goes on asking for its
\* pairing's status: no timer gives it back to a process that is not called.
LeaseIsFreed == AgentPolls /\ ServerAnswers => Owner!LeaseIsFreed
=============================================================================
