--------------------------- MODULE OutboxDispatcher ---------------------------
(***************************************************************************)
(* The outbox rows of all boards and the dispatcher of every server        *)
(* process (OutboxDispatcherService over BoardEventOutboxRepository).  A    *)
(* dispatcher lists pending rows, takes a lease of ten seconds on a row in  *)
(* Redis, loads the row, publishes a hint and marks the row delivered.      *)
(* Each of these is a step of its own: processes crash and stop between     *)
(* them, commands fail or take effect without an answer, leases lapse.      *)
(***************************************************************************)
EXTENDS Naturals, FiniteSets, FiniteSetsExt

CONSTANTS
  Dispatchers,    \* one per server process
  Events,         \* event_pk, an initial segment of the naturals
  Corrupt,        \* the events whose stored bytes fail their integrity check
  BatchLimit,     \* candidates of one poll (100)
  RetryPolls,     \* polls that fit into the delay of a corrupt row (60 s)
  MaxFaults,      \* bound on crashes, stops and failed commands
  MaxCount        \* the counters below stop here

DispatcherAssumption ==
  /\ Events \subseteq Nat
  /\ IsFiniteSet(Dispatchers)
  /\ Corrupt \subseteq Events
  /\ BatchLimit \in Nat \ {0} /\ RetryPolls \in Nat \ {0}
  /\ MaxFaults \in Nat /\ MaxCount \in Nat \ {0}

VARIABLES
  status,       \* by event: absent, P or D
  leases,       \* the events whose lease key exists in Redis
  pc,           \* by dispatcher: idle, lease, load, publish, mark or down
  stopping,     \* the dispatchers that were told to stop
  queue,        \* by dispatcher: the candidates still to be handled, by their keys
  deferred,     \* by dispatcher and event: polls before it is listed again
  quarantined,  \* the dispatchers that have met a corrupt row
  hints,        \* by event: hints published
  lapses,       \* by event: leases that lapsed
  faults

rows == <<status, leases, hints, lapses>>
processes == <<pc, stopping, queue, deferred, quarantined>>
vars == <<rows, processes, faults>>

Places == {"idle", "lease", "load", "publish", "mark", "down"}

Init ==
  /\ status = [e \in Events |-> "absent"]
  /\ leases = {}
  /\ pc = [d \in Dispatchers |-> "idle"]
  /\ stopping = {}
  /\ queue = [d \in Dispatchers |-> {}]
  /\ deferred = [d \in Dispatchers |-> [e \in Events |-> 0]]
  /\ quarantined = {}
  /\ hints = [e \in Events |-> 0]
  /\ lapses = [e \in Events |-> 0]
  /\ faults = 0

Counted(counter, e) ==
  [counter EXCEPT ![e] = IF @ < MaxCount THEN @ + 1 ELSE @]

----------------------------------------------------------------------------
(* The world: transactions commit, leases lapse, processes die *)

\* Keys are allocated in order, transactions commit in any.
Commit(e) ==
  /\ status[e] = "absent"
  /\ status' = [status EXCEPT ![e] = "P"]
  /\ UNCHANGED <<leases, hints, lapses, processes, faults>>

LeaseLapses(e) ==
  /\ e \in leases
  /\ leases' = leases \ {e}
  /\ lapses' = Counted(lapses, e)
  /\ UNCHANGED <<status, hints, processes, faults>>

Fault == faults < MaxFaults /\ faults' = faults + 1

Forget(d) ==
  /\ queue' = [queue EXCEPT ![d] = {}]
  /\ deferred' = [deferred EXCEPT ![d] = [e \in Events |-> 0]]
  /\ quarantined' = quarantined \ {d}

Crash(d) ==
  /\ pc[d] # "down"
  /\ Fault
  /\ pc' = [pc EXCEPT ![d] = "down"]
  /\ stopping' = stopping \ {d}
  /\ Forget(d)
  /\ UNCHANGED rows

Start(d) ==
  /\ pc[d] = "down"
  /\ pc' = [pc EXCEPT ![d] = "idle"]
  /\ UNCHANGED <<stopping, queue, deferred, quarantined, rows, faults>>

\* onModuleDestroy: the candidate at hand is finished, the others are left.
Stop(d) ==
  /\ pc[d] # "down" /\ d \notin stopping
  /\ Fault
  /\ stopping' = stopping \cup {d}
  /\ UNCHANGED <<pc, queue, deferred, quarantined, rows>>

Stopped(d) ==
  /\ d \in stopping /\ pc[d] \in {"idle", "lease"}
  /\ pc' = [pc EXCEPT ![d] = "down"]
  /\ stopping' = stopping \ {d}
  /\ Forget(d)
  /\ UNCHANGED <<rows, faults>>

----------------------------------------------------------------------------
(* A run of a dispatcher *)

Later(delays) == [e \in Events |-> IF delays[e] = 0 THEN 0 ELSE delays[e] - 1]

\* Mutant: a corrupt row is a candidate again in every poll.
Candidates_All(d) == {e \in Events : status[e] = "P"}
Candidates(d) == {e \in Events : status[e] = "P" /\ Later(deferred[d])[e] = 0}

FirstOf(candidates) ==
  {e \in candidates : Cardinality({f \in candidates : f < e}) < BatchLimit}

Poll(d) ==
  LET batch == FirstOf(Candidates(d)) IN
  /\ pc[d] = "idle" /\ d \notin stopping
  /\ deferred' = [deferred EXCEPT ![d] = Later(@)]
  /\ queue' = [queue EXCEPT ![d] = batch]
  /\ pc' = [pc EXCEPT ![d] = IF batch = {} THEN "idle" ELSE "lease"]
  /\ UNCHANGED <<stopping, quarantined, rows, faults>>

At(d, place) == pc[d] = place /\ queue[d] # {}
Candidate(d) == Min(queue[d])
Go(d, place) == pc' = [pc EXCEPT ![d] = place] /\ UNCHANGED queue

\* The rest of the queue, or the end of the run.
NextCandidate(d) ==
  LET rest == queue[d] \ {Candidate(d)} IN
  /\ queue' = [queue EXCEPT ![d] = rest]
  /\ pc' = [pc EXCEPT ![d] = IF rest = {} THEN "idle" ELSE "lease"]

LeaseFree(e) == e \notin leases

\* SET key NX PX 10000
AcquireLease(d) ==
  LET e == Candidate(d) IN
  /\ At(d, "lease") /\ d \notin stopping
  /\ IF LeaseFree(e) THEN leases' = leases \cup {e} /\ Go(d, "load")
                     ELSE NextCandidate(d) /\ UNCHANGED leases
  /\ UNCHANGED <<stopping, deferred, quarantined, status, hints, lapses, faults>>

\* The command fails, before or after it has taken effect.
AcquireFails(d) ==
  /\ At(d, "lease") /\ d \notin stopping
  /\ Fault
  /\ leases' \in {leases, leases \cup {Candidate(d)}}
  /\ NextCandidate(d)
  /\ UNCHANGED <<stopping, deferred, quarantined, status, hints, lapses>>

StillPending(e) == status[e] = "P"

LoadPendingEvent(d) ==
  LET e == Candidate(d) IN
  /\ At(d, "load")
  /\ \/ /\ ~StillPending(e)
        /\ NextCandidate(d)
        /\ UNCHANGED <<deferred, quarantined>>
     \/ /\ StillPending(e) /\ e \in Corrupt
        /\ deferred' = [deferred EXCEPT ![d][e] = RetryPolls]
        /\ quarantined' = quarantined \cup {d}
        /\ NextCandidate(d)
     \/ /\ StillPending(e) /\ e \notin Corrupt
        /\ Go(d, "publish")
        /\ UNCHANGED <<deferred, quarantined>>
  /\ UNCHANGED <<stopping, rows, faults>>

\* Subscribers are not counted: a hint nobody hears is a hint.
Publish(d) ==
  /\ At(d, "publish")
  /\ hints' = Counted(hints, Candidate(d))
  /\ Go(d, "mark")
  /\ UNCHANGED <<stopping, deferred, quarantined, status, leases, lapses, faults>>

\* Mutant: the row is marked although its hint was not published.
AfterFailedPublish_Mark(d) == Go(d, "mark")
AfterFailedPublish(d) == NextCandidate(d)

PublishFails(d) ==
  /\ At(d, "publish")
  /\ Fault
  /\ hints' \in {hints, Counted(hints, Candidate(d))}
  /\ AfterFailedPublish(d)
  /\ UNCHANGED <<stopping, deferred, quarantined, status, leases, lapses>>

MarkDelivered(d) ==
  LET e == Candidate(d) IN
  /\ At(d, "mark")
  /\ status' = IF status[e] = "P" THEN [status EXCEPT ![e] = "D"] ELSE status
  /\ NextCandidate(d)
  /\ UNCHANGED <<stopping, deferred, quarantined, leases, hints, lapses, faults>>

\* A failed read or update of the row; an update may have taken effect.
QueryFails(d) ==
  LET e == Candidate(d) IN
  /\ At(d, "load") \/ At(d, "mark")
  /\ Fault
  /\ \/ UNCHANGED status
     \/ pc[d] = "mark" /\ status' = [status EXCEPT ![e] = "D"]
  /\ NextCandidate(d)
  /\ UNCHANGED <<stopping, deferred, quarantined, leases, hints, lapses>>

Step(d) ==
  \/ Poll(d) \/ AcquireLease(d) \/ LoadPendingEvent(d) \/ Publish(d)
  \/ MarkDelivered(d) \/ Stopped(d) \/ Start(d)

Next ==
  \/ \E e \in Events : Commit(e) \/ LeaseLapses(e)
  \/ \E d \in Dispatchers :
       \/ Step(d) \/ Crash(d) \/ Stop(d)
       \/ AcquireFails(d) \/ PublishFails(d) \/ QueryFails(d)

Spec == Init /\ [][Next]_vars

----------------------------------------------------------------------------
(* Properties *)

TypeOK ==
  /\ status \in [Events -> {"absent", "P", "D"}]
  /\ leases \subseteq Events
  /\ pc \in [Dispatchers -> Places]
  /\ stopping \subseteq Dispatchers /\ quarantined \subseteq Dispatchers
  /\ \A d \in Dispatchers :
       /\ queue[d] \subseteq Events
       /\ pc[d] \in {"lease", "load", "publish", "mark"} <=> queue[d] # {}
  /\ deferred \in [Dispatchers -> [Events -> 0..RetryPolls]]
  /\ hints \in [Events -> 0..MaxCount] /\ lapses \in [Events -> 0..MaxCount]
  /\ faults \in 0..MaxFaults

\* Two processes publish the same event only if a lease lapsed in between: the
\* hints of an event are at most one more than its lapsed leases.
DuplicatesNeedLapse ==
  \A e \in Events : lapses[e] < MaxCount => hints[e] <= lapses[e] + 1

Delivery == INSTANCE AtLeastOnce WITH
  Sound <- Events \ Corrupt,
  pending <- {e \in Events : status[e] = "P"},
  delivered <- {e \in Events : status[e] = "D"},
  hinted <- {e \in Events : hints[e] > 0}

\* Whatever fails or crashes, no event is marked delivered before a hint of it
\* was published.
HintedBeforeDelivered == Delivery!Spec

\* The hints and the marks of an event tell of each other.
HintsAccountedFor == [](TypeOK /\ DuplicatesNeedLapse) /\ HintedBeforeDelivered

\* And in the end every sound event is: a lease left by a crash lapses, a row
\* that was skipped is listed again, and a corrupt row does not stand in the way.
DeliversAtLeastOnce == Delivery!FairSpec
=============================================================================
