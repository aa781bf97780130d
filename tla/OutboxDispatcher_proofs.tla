------------------------ MODULE OutboxDispatcher_proofs ------------------------
(* The dispatchers of any number of processes hint before they mark, account  *)
(* for every hint beyond the first, and implement what the dispatch promises. *)
EXTENDS OutboxDispatcher, FiniteSetTheorems, WellFoundedInduction, TLAPS

(***************************************************************************)
(* The inductive invariant                                                 *)
(*                                                                         *)
(* A dispatcher may publish an event on the strength of a lease that was   *)
(* given out since the last lapse: what the hints of an event leave over   *)
(* of its lapses, and of the lease that is out now, is enough for every    *)
(* dispatcher that still holds a lease of it.                              *)
(***************************************************************************)

Busy == {"lease", "load", "publish", "mark"}

Types ==
  /\ status \in [Events -> {"absent", "P", "D"}]
  /\ leases \subseteq Events
  /\ pc \in [Dispatchers -> Places]
  /\ stopping \subseteq Dispatchers /\ quarantined \subseteq Dispatchers
  /\ queue \in [Dispatchers -> SUBSET Events]
  /\ \A d \in Dispatchers : pc[d] \in Busy <=> queue[d] # {}
  /\ deferred \in [Dispatchers -> [Events -> 0..RetryPolls]]
  /\ hints \in [Events -> 0..MaxCount] /\ lapses \in [Events -> 0..MaxCount]
  /\ faults \in 0..MaxFaults

\* What is handled was committed, is sound once it was loaded, and hinted before the mark.
Handled ==
  \A d \in Dispatchers :
    /\ \A e \in queue[d] : status[e] # "absent"
    /\ pc[d] \in {"publish", "mark"} => Candidate(d) \notin Corrupt
    /\ pc[d] = "mark" => hints[Candidate(d)] > 0

MarkedWereHinted == \A e \in Events : status[e] = "D" => hints[e] > 0

\* The dispatchers that took a lease of e and have not published yet.
Holders(e) == {d \in Dispatchers : pc[d] \in {"load", "publish"} /\ Candidate(d) = e}
Lease(e) == IF e \in leases THEN 1 ELSE 0

LeasesCover ==
  \A e \in Events : lapses[e] < MaxCount => hints[e] + Cardinality(Holders(e)) <= lapses[e] + Lease(e)

OInv == Types /\ Handled /\ MarkedWereHinted /\ LeasesCover

(***************************************************************************)
(* Lemmas about the operators                                              *)
(***************************************************************************)

\* A set of keys that is not empty has a least one.
LEMMA LeastIsThere ==
  ASSUME NEW S, S \subseteq Nat, S # {}
  PROVE  Min(S) \in S
  <1>1. PICK x \in S : \A y \in S : <<y, x>> \notin OpToRel(<, Nat)
    BY NatLessThanWellFounded, WFMin
  <1>2. ASSUME NEW y \in S PROVE x <= y
    <2>1. x \in Nat /\ y \in Nat
      OBVIOUS
    <2>2. ~(y < x)
      BY <1>1, <2>1, Zenon DEF OpToRel
    <2>3. QED
      BY <2>1, <2>2
  <1>3. QED
    BY <1>2 DEF Min

\* A busy dispatcher has a candidate at hand, an event that was committed.
LEMMA CandidateIsQueued ==
  ASSUME DispatcherAssumption, OInv, NEW d \in Dispatchers, queue[d] # {}
  PROVE  Candidate(d) \in queue[d] /\ Candidate(d) \in Events /\ status[Candidate(d)] # "absent"
  <1>1. queue[d] \subseteq Events /\ queue[d] \subseteq Nat
    BY DEF OInv, Types, DispatcherAssumption
  <1>2. Candidate(d) \in queue[d]
    BY <1>1, LeastIsThere DEF Candidate
  <1>3. QED
    BY <1>1, <1>2 DEF OInv, Handled

\* One more of something that is counted up to the bound.
LEMMA CountedAdds ==
  ASSUME DispatcherAssumption, NEW counter \in [Events -> 0..MaxCount], NEW e \in Events
  PROVE  /\ Counted(counter, e) \in [Events -> 0..MaxCount]
         /\ Counted(counter, e)[e] > 0
         /\ Counted(counter, e)[e] \in {counter[e], counter[e] + 1}
         /\ counter[e] < MaxCount => Counted(counter, e)[e] = counter[e] + 1
         /\ \A f \in Events \ {e} : Counted(counter, e)[f] = counter[f]
  BY DEF Counted, DispatcherAssumption

\* Sets of dispatchers that differ in one.
LEMMA FewerDispatchers ==
  ASSUME DispatcherAssumption, NEW A \in SUBSET Dispatchers, NEW B \in SUBSET Dispatchers
  PROVE  /\ Cardinality(A) \in Nat /\ Cardinality(B) \in Nat
         /\ A \subseteq B => Cardinality(A) <= Cardinality(B)
         /\ \A d : A \subseteq B \cup {d} => Cardinality(A) <= Cardinality(B) + 1
         /\ \A d \in B : A \subseteq B \ {d} => Cardinality(A) + 1 <= Cardinality(B)
  <1>1. IsFiniteSet(A) /\ IsFiniteSet(B)
    BY FS_Subset DEF DispatcherAssumption
  <1>2. Cardinality(A) \in Nat /\ Cardinality(B) \in Nat
    BY <1>1, FS_CardinalityType
  <1>3. A \subseteq B => Cardinality(A) <= Cardinality(B)
    BY <1>1, FS_Subset
  <1>4. ASSUME NEW d, A \subseteq B \cup {d} PROVE Cardinality(A) <= Cardinality(B) + 1
    <2>1. /\ IsFiniteSet(B \cup {d}) /\ Cardinality(B \cup {d}) \in Nat
          /\ Cardinality(B \cup {d}) <= Cardinality(B) + 1
      <3>1. IsFiniteSet(B \cup {d}) /\ Cardinality(B \cup {d}) \in {Cardinality(B), Cardinality(B) + 1}
        BY <1>1, FS_AddElement
      <3>2. QED
        BY <1>2, <3>1
    <2>2. Cardinality(A) <= Cardinality(B \cup {d})
      BY <1>4, <2>1, FS_Subset
    <2>3. QED
      BY <1>2, <2>1, <2>2
  <1>5. ASSUME NEW d \in B, A \subseteq B \ {d} PROVE Cardinality(A) + 1 <= Cardinality(B)
    <2>1. /\ IsFiniteSet(B \ {d}) /\ Cardinality(B \ {d}) \in Nat
          /\ Cardinality(B \ {d}) = Cardinality(B) - 1
      BY <1>1, FS_RemoveElement, FS_CardinalityType
    <2>2. Cardinality(A) <= Cardinality(B \ {d})
      BY <1>5, <2>1, FS_Subset
    <2>3. QED
      BY <1>2, <2>1, <2>2
  <1>6. QED
    BY <1>2, <1>3, <1>4, <1>5

(***************************************************************************)
(* What a step of a dispatcher leaves alone                                *)
(***************************************************************************)

\* A step of d concerns the others only through the rows and the leases.
Moves(d) ==
  /\ pc' \in [Dispatchers -> Places] /\ queue' \in [Dispatchers -> SUBSET Events]
  /\ pc'[d] \in Busy <=> queue'[d] # {}
  /\ \A c \in Dispatchers \ {d} : pc'[c] = pc[c] /\ queue'[c] = queue[c]

\* The bookkeeping of a process has its types after the step.
BooksTyped ==
  /\ stopping' \subseteq Dispatchers /\ quarantined' \subseteq Dispatchers
  /\ deferred' \in [Dispatchers -> [Events -> 0..RetryPolls]]
  /\ faults' \in 0..MaxFaults

\* So have the rows and the counters.
RowsTyped ==
  /\ status' \in [Events -> {"absent", "P", "D"}] /\ leases' \subseteq Events
  /\ hints' \in [Events -> 0..MaxCount] /\ lapses' \in [Events -> 0..MaxCount]

\* What d has at hand after the step.
HandledBy(d) ==
  /\ \A e \in queue'[d] : status'[e] # "absent"
  /\ pc'[d] \in {"publish", "mark"} => Candidate(d)' \notin Corrupt
  /\ pc'[d] = "mark" => hints'[Candidate(d)'] > 0

\* The types and what is handled, after a step of d.
LEMMA MoveKeeps ==
  ASSUME DispatcherAssumption, OInv, NEW d \in Dispatchers, Moves(d), BooksTyped, RowsTyped,
         HandledBy(d),
         \A e \in Events : (status'[e] = "absent" => status[e] = "absent") /\ hints'[e] >= hints[e]
  PROVE  Types' /\ Handled'
  <1>1. Types'
    BY DEF OInv, Types, Moves, BooksTyped, RowsTyped
  <1>2. ASSUME NEW c \in Dispatchers, c # d
        PROVE  /\ \A e \in queue'[c] : status'[e] # "absent"
               /\ pc'[c] \in {"publish", "mark"} => Candidate(c)' \notin Corrupt
               /\ pc'[c] = "mark" => hints'[Candidate(c)'] > 0
    <2>1. pc'[c] = pc[c] /\ queue'[c] = queue[c] /\ Candidate(c)' = Candidate(c)
      BY <1>2 DEF Moves, Candidate
    <2>2. \A e \in queue[c] : e \in Events /\ status[e] # "absent"
      BY DEF OInv, Types, Handled
    <2>3. pc[c] = "mark" => hints[Candidate(c)] > 0 /\ Candidate(c) \in Events
      BY CandidateIsQueued DEF OInv, Types, Handled, Busy
    <2>4. pc'[c] = "mark" => hints'[Candidate(c)] > 0
      BY <2>1, <2>3 DEF OInv, Types, RowsTyped
    <2>5. QED
      BY <2>1, <2>2, <2>4 DEF OInv, Handled
  <1>3. QED
    BY <1>1, <1>2 DEF Handled, HandledBy

\* Nobody takes a lease, and nothing is published or lapses.
LEMMA CoverStays ==
  ASSUME DispatcherAssumption, OInv, NEW d \in Dispatchers, Moves(d),
         UNCHANGED <<hints, lapses>>, leases \subseteq leases',
         \/ pc'[d] \notin {"load", "publish"}
         \/ pc[d] \in {"load", "publish"} /\ queue'[d] = queue[d]
  PROVE  LeasesCover'
  <1>1. ASSUME NEW e \in Events, lapses[e] < MaxCount
        PROVE  hints[e] + Cardinality(Holders(e)') <= lapses[e] + Lease(e)'
    <2>1. Holders(e)' \subseteq Holders(e)
      BY DEF Holders, Moves, Candidate
    <2>2. Holders(e) \in SUBSET Dispatchers
      BY DEF Holders
    <2>3. /\ Cardinality(Holders(e)) \in Nat /\ Cardinality(Holders(e)') \in Nat
          /\ Cardinality(Holders(e)') <= Cardinality(Holders(e))
      BY <2>1, <2>2, FewerDispatchers
    <2>4. hints[e] \in Nat /\ lapses[e] \in Nat /\ Lease(e)' \in Nat /\ Lease(e) <= Lease(e)'
          /\ Lease(e) \in Nat
      BY DEF OInv, Types, Lease, DispatcherAssumption
    <2>5. hints[e] + Cardinality(Holders(e)) <= lapses[e] + Lease(e)
      BY <1>1 DEF OInv, LeasesCover
    <2>6. QED
      BY <2>3, <2>4, <2>5
  <1>2. QED
    BY <1>1 DEF LeasesCover

\* The next candidate is taken up.
LEMMA NextCandidateMoves ==
  ASSUME DispatcherAssumption, OInv, NEW d \in Dispatchers, queue[d] # {}, NextCandidate(d)
  PROVE  /\ Moves(d) /\ pc'[d] \in {"idle", "lease"} /\ queue'[d] \subseteq queue[d]
  <1> DEFINE rest == queue[d] \ {Candidate(d)}
  <1>1. /\ queue' = [queue EXCEPT ![d] = rest]
        /\ pc' = [pc EXCEPT ![d] = IF rest = {} THEN "idle" ELSE "lease"]
    BY DEF NextCandidate
  <1>2. rest \in SUBSET Events
    BY DEF OInv, Types
  <1>3. QED
    BY <1>1, <1>2 DEF OInv, Types, Moves, Busy, Places

\* The candidate at hand is taken further.
LEMMA GoMoves ==
  ASSUME OInv, NEW d \in Dispatchers, queue[d] # {}, NEW place \in Busy, Go(d, place)
  PROVE  Moves(d) /\ pc'[d] = place /\ queue'[d] = queue[d] /\ Candidate(d)' = Candidate(d)
  BY DEF Go, OInv, Types, Moves, Busy, Places, Candidate

(***************************************************************************)
(* The actions.  Each keeps the invariant and is, for what the dispatch    *)
(* promises, a commit, a hint, a delivery or nothing at all.               *)
(***************************************************************************)

Maps == Delivery!Next \/ UNCHANGED Delivery!stages

\* A step that touches neither the rows nor the hints says nothing to the outside.
LEMMA QuietMaps ==
  ASSUME OInv, UNCHANGED <<status, hints>>
  PROVE  Maps /\ MarkedWereHinted'
  BY DEF Maps, Delivery!stages, OInv, MarkedWereHinted

\* A step by which a dispatcher ends its run and forgets.
LEMMA ForgetKeeps ==
  ASSUME DispatcherAssumption, OInv, NEW d \in Dispatchers, Forget(d),
         pc' = [pc EXCEPT ![d] = "down"], stopping' = stopping \ {d}, faults' \in 0..MaxFaults,
         UNCHANGED rows
  PROVE  OInv' /\ Maps
  <1>1. UNCHANGED <<status, leases, hints, lapses>>
    BY DEF rows
  <1>2. Moves(d) /\ pc'[d] = "down" /\ queue'[d] = {}
    BY DEF Forget, OInv, Types, Moves, Busy, Places
  <1>3. BooksTyped
    <2>1. [e \in Events |-> 0] \in [Events -> 0..RetryPolls]
      BY DEF DispatcherAssumption
    <2>2. QED
      BY <2>1 DEF Forget, OInv, Types, BooksTyped
  <1>4. RowsTyped /\ \A e \in Events : (status'[e] = "absent" => status[e] = "absent") /\ hints'[e] >= hints[e]
    BY <1>1 DEF OInv, Types, RowsTyped
  <1>5. HandledBy(d)
    BY <1>2 DEF HandledBy
  <1>6. QED
    BY <1>1, <1>2, <1>3, <1>4, <1>5, MoveKeeps, CoverStays, QuietMaps DEF OInv

\* A crash, and the end of a process that was told to stop.
LEMMA EndKeeps ==
  ASSUME DispatcherAssumption, OInv, NEW d \in Dispatchers, Crash(d) \/ Stopped(d)
  PROVE  OInv' /\ Maps
  <1>1. faults' \in 0..MaxFaults
    BY DEF Crash, Stopped, Fault, OInv, Types, DispatcherAssumption
  <1>2. QED
    BY <1>1, ForgetKeeps DEF Crash, Stopped

\* A transaction that inserted a row of the outbox commits.
LEMMA CommitKeeps ==
  ASSUME DispatcherAssumption, OInv, NEW e \in Events, Commit(e)
  PROVE  OInv' /\ Maps
  <1>1. /\ status[e] = "absent" /\ status' = [status EXCEPT ![e] = "P"]
        /\ UNCHANGED <<leases, hints, lapses, pc, stopping, queue, deferred, quarantined, faults>>
    BY DEF Commit, processes
  <1>2. Types' /\ Handled' /\ MarkedWereHinted' /\ LeasesCover'
    <2>1. \A f \in Events : status'[f] = IF f = e THEN "P" ELSE status[f]
      BY <1>1 DEF OInv, Types
    <2>2. Types' /\ MarkedWereHinted'
      BY <1>1, <2>1 DEF OInv, Types, MarkedWereHinted
    <2>3. \A d \in Dispatchers : Candidate(d)' = Candidate(d)
      BY <1>1 DEF Candidate
    <2>4. Handled'
      BY <1>1, <2>1, <2>3 DEF OInv, Types, Handled
    <2>5. \A f : Holders(f)' = Holders(f) /\ Lease(f)' = Lease(f)
      BY <1>1, <2>3 DEF Holders, Lease
    <2>6. QED
      BY <1>1, <2>2, <2>4, <2>5 DEF OInv, LeasesCover
  <1>3. Delivery!Commit(e)
    <2>1. {f \in Events : status'[f] = "P"} = {f \in Events : status[f] = "P"} \cup {e}
      BY <1>1 DEF OInv, Types
    <2>2. {f \in Events : status'[f] = "D"} = {f \in Events : status[f] = "D"}
      BY <1>1 DEF OInv, Types
    <2>3. QED
      BY <1>1, <2>1, <2>2 DEF Delivery!Commit
  <1>4. QED
    BY <1>2, <1>3 DEF OInv, Maps, Delivery!Next

\* A lease lapses: one more hint may follow.
LEMMA LeaseLapsesKeeps ==
  ASSUME DispatcherAssumption, OInv, NEW e \in Events, LeaseLapses(e)
  PROVE  OInv' /\ Maps
  <1>1. /\ e \in leases /\ leases' = leases \ {e} /\ lapses' = Counted(lapses, e)
        /\ UNCHANGED <<status, hints, pc, stopping, queue, deferred, quarantined, faults>>
    BY DEF LeaseLapses, processes
  <1>2. /\ lapses' \in [Events -> 0..MaxCount]
        /\ lapses[e] < MaxCount => lapses'[e] = lapses[e] + 1
        /\ lapses'[e] \in {lapses[e], lapses[e] + 1}
        /\ \A f \in Events \ {e} : lapses'[f] = lapses[f]
    BY <1>1, CountedAdds DEF OInv, Types
  <1>3. Types' /\ Handled'
    BY <1>1, <1>2 DEF OInv, Types, Handled, Candidate
  <1>4. LeasesCover'
    <2>1. \A f : Holders(f)' = Holders(f)
      BY <1>1 DEF Holders, Candidate
    <2>2. ASSUME NEW f \in Events, lapses'[f] < MaxCount
          PROVE  hints[f] + Cardinality(Holders(f)) <= lapses'[f] + Lease(f)'
      <3>1. /\ lapses[f] \in 0..MaxCount /\ MaxCount \in Nat
        BY DEF OInv, Types, DispatcherAssumption
      <3>2. lapses[f] < MaxCount /\ lapses'[f] + Lease(f)' = lapses[f] + Lease(f)
        BY <1>1, <1>2, <2>2, <3>1 DEF Lease
      <3>3. QED
        BY <3>2 DEF OInv, LeasesCover
    <2>3. QED
      BY <1>1, <2>1, <2>2 DEF LeasesCover
  <1>5. QED
    BY <1>1, <1>3, <1>4, QuietMaps DEF OInv

\* A process starts, or is told to stop.
LEMMA StartStopKeep ==
  ASSUME DispatcherAssumption, OInv, NEW d \in Dispatchers, Start(d) \/ Stop(d)
  PROVE  OInv' /\ Maps
  <1>1. UNCHANGED <<status, leases, hints, lapses, queue, deferred, quarantined>>
    BY DEF Start, Stop, rows
  <1>2. CASE Start(d)
    <2>1. Moves(d) /\ pc'[d] = "idle" /\ queue'[d] = {}
      BY <1>1, <1>2 DEF Start, OInv, Types, Moves, Busy, Places
    <2>2. BooksTyped /\ RowsTyped /\ HandledBy(d)
      BY <1>1, <1>2, <2>1 DEF Start, OInv, Types, BooksTyped, RowsTyped, HandledBy
    <2>3. \A e \in Events : hints'[e] >= hints[e]
      BY <1>1 DEF OInv, Types
    <2>4. QED
      BY <1>1, <2>1, <2>2, <2>3, MoveKeeps, CoverStays, QuietMaps DEF OInv
  <1>3. CASE Stop(d)
    <2>1. UNCHANGED pc /\ stopping' \subseteq Dispatchers /\ faults' \in 0..MaxFaults
      BY <1>3 DEF Stop, Fault, OInv, Types, DispatcherAssumption
    <2>2. QED
      BY <1>1, <2>1, QuietMaps DEF OInv, Types, Handled, LeasesCover, Holders, Lease, Candidate
  <1>4. QED
    BY <1>2, <1>3

\* The pending rows are listed.
LEMMA PollKeeps ==
  ASSUME DispatcherAssumption, OInv, NEW d \in Dispatchers, Poll(d)
  PROVE  OInv' /\ Maps
  <1> DEFINE batch == FirstOf(Candidates(d))
  <1>1. /\ pc[d] = "idle" /\ deferred' = [deferred EXCEPT ![d] = Later(@)]
        /\ queue' = [queue EXCEPT ![d] = batch]
        /\ pc' = [pc EXCEPT ![d] = IF batch = {} THEN "idle" ELSE "lease"]
        /\ UNCHANGED <<stopping, quarantined, status, leases, hints, lapses, faults>>
    BY DEF Poll, rows
  <1>2. batch \subseteq Events /\ \A e \in batch : status[e] = "P"
    BY DEF FirstOf, Candidates
  <1> HIDE DEF batch
  <1>3. Moves(d) /\ pc'[d] \in {"idle", "lease"} /\ queue'[d] = batch
    BY <1>1, <1>2 DEF OInv, Types, Moves, Busy, Places
  <1>4. Later(deferred[d]) \in [Events -> 0..RetryPolls]
    <2>1. RetryPolls \in Nat /\ deferred[d] \in [Events -> 0..RetryPolls]
      BY DEF OInv, Types, DispatcherAssumption
    <2>2. \A e \in Events :
            (IF deferred[d][e] = 0 THEN 0 ELSE deferred[d][e] - 1) \in 0..RetryPolls
      BY <2>1
    <2>3. QED
      BY <2>2 DEF Later
  <1>5. BooksTyped /\ RowsTyped
    BY <1>1, <1>4 DEF OInv, Types, BooksTyped, RowsTyped
  <1>6. HandledBy(d)
    BY <1>1, <1>2, <1>3 DEF HandledBy
  <1>7. \A e \in Events : hints'[e] >= hints[e]
    BY <1>1 DEF OInv, Types
  <1>8. QED
    BY <1>1, <1>3, <1>5, <1>6, <1>7, MoveKeeps, CoverStays, QuietMaps DEF OInv

\* The next candidate is taken up, whatever became of the one at hand.
LEMMA SkipKeeps ==
  ASSUME DispatcherAssumption, OInv, NEW d \in Dispatchers, queue[d] # {}, NextCandidate(d),
         BooksTyped, UNCHANGED <<status, hints, lapses>>,
         leases \subseteq leases', leases' \subseteq Events
  PROVE  OInv' /\ Maps
  <1>1. /\ Moves(d) /\ pc'[d] \in {"idle", "lease"} /\ queue'[d] \subseteq queue[d]
    BY NextCandidateMoves
  <1>2. RowsTyped /\ \A e \in Events : hints'[e] >= hints[e]
    BY DEF OInv, Types, RowsTyped
  <1>3. HandledBy(d)
    BY <1>1 DEF HandledBy, OInv, Handled
  <1>4. QED
    BY <1>1, <1>2, <1>3, MoveKeeps, CoverStays, QuietMaps DEF OInv

\* A lease is asked for: taken, refused, or the command fails with or without effect.
LEMMA AcquireKeeps ==
  ASSUME DispatcherAssumption, OInv, NEW d \in Dispatchers, AcquireLease(d) \/ AcquireFails(d)
  PROVE  OInv' /\ Maps
  <1> DEFINE e == Candidate(d)
  <1>1. queue[d] # {} /\ pc[d] = "lease"
    BY DEF AcquireLease, AcquireFails, At
  <1>2. e \in queue[d] /\ e \in Events /\ status[e] # "absent"
    BY <1>1, CandidateIsQueued
  <1>3. UNCHANGED <<stopping, deferred, quarantined, status, hints, lapses>> /\ faults' \in 0..MaxFaults
    BY DEF AcquireLease, AcquireFails, Fault, OInv, Types, DispatcherAssumption
  <1>4. BooksTyped
    BY <1>3 DEF OInv, Types, BooksTyped
  <1>5. CASE NextCandidate(d) /\ leases' \in {leases, leases \cup {e}}
    <2>1. leases \subseteq leases' /\ leases' \subseteq Events
      BY <1>2, <1>5 DEF OInv, Types
    <2>2. QED
      BY <1>1, <1>3, <1>4, <1>5, <2>1, SkipKeeps
  <1>6. CASE e \notin leases /\ leases' = leases \cup {e} /\ Go(d, "load")
    <2>1. Moves(d) /\ pc'[d] = "load" /\ queue'[d] = queue[d] /\ Candidate(d)' = e
      BY <1>1, <1>6, GoMoves DEF Busy
    <2>2. RowsTyped /\ \A f \in Events : hints'[f] >= hints[f]
      BY <1>2, <1>3, <1>6 DEF OInv, Types, RowsTyped
    <2>3. HandledBy(d)
      BY <1>3, <2>1 DEF HandledBy, OInv, Handled
    <2>4. ASSUME NEW f \in Events, lapses[f] < MaxCount
          PROVE  hints[f] + Cardinality(Holders(f)') <= lapses[f] + Lease(f)'
      <3>1. Holders(f) \in SUBSET Dispatchers /\ Holders(f)' \in SUBSET Dispatchers
        BY DEF Holders
      <3>2. /\ hints[f] \in Nat /\ lapses[f] \in Nat
            /\ hints[f] + Cardinality(Holders(f)) <= lapses[f] + Lease(f)
        BY <2>4 DEF OInv, Types, LeasesCover, DispatcherAssumption
      <3>3. CASE f = e
        <4>1. Holders(f)' \subseteq Holders(f) \cup {d}
          BY <2>1 DEF Holders, Moves, Candidate
        <4>2. /\ Cardinality(Holders(f)) \in Nat /\ Cardinality(Holders(f)') \in Nat
              /\ Cardinality(Holders(f)') <= Cardinality(Holders(f)) + 1
          BY <3>1, <4>1, FewerDispatchers
        <4>3. Lease(f) = 0 /\ Lease(f)' = 1
          BY <1>6, <3>3 DEF Lease
        <4>4. QED
          BY <3>2, <4>2, <4>3
      <3>4. CASE f # e
        <4>1. Holders(f)' \subseteq Holders(f)
          BY <2>1, <3>4 DEF Holders, Moves, Candidate
        <4>2. /\ Cardinality(Holders(f)) \in Nat /\ Cardinality(Holders(f)') \in Nat
              /\ Cardinality(Holders(f)') <= Cardinality(Holders(f))
          BY <3>1, <4>1, FewerDispatchers
        <4>3. Lease(f)' = Lease(f) /\ Lease(f) \in Nat
          BY <1>6, <3>4 DEF Lease
        <4>4. QED
          BY <3>2, <4>2, <4>3
      <3>5. QED
        BY <3>3, <3>4
    <2>5. LeasesCover'
      BY <1>3, <2>4 DEF LeasesCover
    <2>6. QED
      BY <1>3, <1>4, <2>1, <2>2, <2>3, <2>5, MoveKeeps, QuietMaps DEF OInv
  <1>7. QED
    BY <1>5, <1>6 DEF AcquireLease, AcquireFails, LeaseFree

\* The row is loaded: delivered by somebody else, corrupt, or to be published.
LEMMA LoadKeeps ==
  ASSUME DispatcherAssumption, OInv, NEW d \in Dispatchers, LoadPendingEvent(d)
  PROVE  OInv' /\ Maps
  <1> DEFINE e == Candidate(d)
  <1>1. /\ queue[d] # {} /\ pc[d] = "load"
        /\ UNCHANGED <<stopping, status, leases, hints, lapses, faults>>
    BY DEF LoadPendingEvent, At, rows
  <1>2. e \in Events
    BY <1>1, CandidateIsQueued
  <1>3. CASE NextCandidate(d) /\ UNCHANGED <<deferred, quarantined>>
    BY <1>1, <1>3, SkipKeeps DEF OInv, Types, BooksTyped
  <1>4. CASE /\ deferred' = [deferred EXCEPT ![d][e] = RetryPolls]
             /\ quarantined' = quarantined \cup {d} /\ NextCandidate(d)
    <2>1. [deferred[d] EXCEPT ![e] = RetryPolls] \in [Events -> 0..RetryPolls]
      <3>1. deferred[d] \in [Events -> 0..RetryPolls] /\ RetryPolls \in 0..RetryPolls
        BY DEF OInv, Types, DispatcherAssumption
      <3>2. QED
        BY <3>1
    <2>2. BooksTyped
      BY <1>1, <1>4, <2>1 DEF OInv, Types, BooksTyped
    <2>3. QED
      BY <1>1, <1>4, <2>2, SkipKeeps DEF OInv, Types
  <1>5. CASE e \notin Corrupt /\ Go(d, "publish") /\ UNCHANGED <<deferred, quarantined>>
    <2>1. Moves(d) /\ pc'[d] = "publish" /\ queue'[d] = queue[d] /\ Candidate(d)' = e
      BY <1>1, <1>5, GoMoves DEF Busy
    <2>2. BooksTyped /\ RowsTyped /\ \A f \in Events : hints'[f] >= hints[f]
      BY <1>1, <1>5 DEF OInv, Types, BooksTyped, RowsTyped
    <2>3. HandledBy(d)
      BY <1>1, <1>5, <2>1 DEF HandledBy, OInv, Handled
    <2>4. QED
      BY <1>1, <2>1, <2>2, <2>3, MoveKeeps, CoverStays, QuietMaps DEF OInv
  <1>6. QED
    BY <1>3, <1>4, <1>5 DEF LoadPendingEvent

\* A hint is published, or the command fails with or without effect.
LEMMA PublishKeeps ==
  ASSUME DispatcherAssumption, OInv, NEW d \in Dispatchers, Publish(d) \/ PublishFails(d)
  PROVE  OInv' /\ Maps
  <1> DEFINE e == Candidate(d)
  <1>1. /\ queue[d] # {} /\ pc[d] = "publish" /\ faults' \in 0..MaxFaults
        /\ UNCHANGED <<stopping, deferred, quarantined, status, leases, lapses>>
    BY DEF Publish, PublishFails, At, Fault, OInv, Types, DispatcherAssumption
  <1>2. e \in queue[d] /\ e \in Events /\ status[e] # "absent" /\ e \notin Corrupt
    BY <1>1, CandidateIsQueued DEF OInv, Handled
  <1>3. BooksTyped
    BY <1>1 DEF OInv, Types, BooksTyped
  <1>4. CASE UNCHANGED hints /\ NextCandidate(d)
    BY <1>1, <1>3, <1>4, SkipKeeps DEF OInv, Types
  <1>5. CASE hints' = Counted(hints, e) /\ (NextCandidate(d) \/ Go(d, "mark"))
    <2>1. /\ hints' \in [Events -> 0..MaxCount] /\ hints'[e] > 0
          /\ hints'[e] \in {hints[e], hints[e] + 1}
          /\ \A f \in Events \ {e} : hints'[f] = hints[f]
      BY <1>2, <1>5, CountedAdds DEF OInv, Types
    <2>2. /\ Moves(d) /\ pc'[d] \in {"idle", "lease", "mark"} /\ queue'[d] \subseteq queue[d]
          /\ pc'[d] = "mark" => Candidate(d)' = e
      <3>1. CASE NextCandidate(d)
        BY <1>1, <3>1, NextCandidateMoves
      <3>2. CASE Go(d, "mark")
        BY <1>1, <3>2, GoMoves DEF Busy
      <3>3. QED
        BY <1>5, <3>1, <3>2
    <2>3. RowsTyped /\ \A f \in Events : hints'[f] >= hints[f]
      <3>1. RowsTyped
        BY <1>1, <2>1 DEF OInv, Types, RowsTyped
      <3>2. ASSUME NEW f \in Events PROVE hints'[f] >= hints[f]
        <4>1. hints[f] \in Nat
          BY DEF OInv, Types, DispatcherAssumption
        <4>2. QED
          BY <2>1, <4>1
      <3>3. QED
        BY <3>1, <3>2
    <2>4. HandledBy(d)
      BY <1>1, <1>2, <2>1, <2>2 DEF HandledBy, OInv, Handled
    <2>5. ASSUME NEW f \in Events, lapses[f] < MaxCount
          PROVE  hints'[f] + Cardinality(Holders(f)') <= lapses[f] + Lease(f)
      <3>1. Holders(f) \in SUBSET Dispatchers /\ Holders(f)' \in SUBSET Dispatchers
        BY DEF Holders
      <3>2. /\ hints[f] \in Nat /\ hints'[f] \in Nat /\ lapses[f] \in Nat /\ Lease(f) \in Nat
            /\ hints[f] + Cardinality(Holders(f)) <= lapses[f] + Lease(f)
        BY <2>1, <2>5 DEF OInv, Types, LeasesCover, Lease, DispatcherAssumption
      <3>3. Holders(f)' \subseteq Holders(f) \ {d}
        BY <2>2 DEF Holders, Moves, Candidate
      <3>4. CASE f = e
        <4>1. d \in Holders(f)
          BY <1>1, <3>4 DEF Holders
        <4>2. /\ Cardinality(Holders(f)) \in Nat /\ Cardinality(Holders(f)') \in Nat
              /\ Cardinality(Holders(f)') + 1 <= Cardinality(Holders(f))
          BY <3>1, <3>3, <4>1, FewerDispatchers
        <4>3. QED
          BY <2>1, <3>2, <3>4, <4>2
      <3>5. CASE f # e
        <4>1. /\ Cardinality(Holders(f)) \in Nat /\ Cardinality(Holders(f)') \in Nat
              /\ Cardinality(Holders(f)') <= Cardinality(Holders(f))
          BY <3>1, <3>3, FewerDispatchers
        <4>2. QED
          BY <2>1, <3>2, <3>5, <4>1
      <3>6. QED
        BY <3>4, <3>5
    <2>6. LeasesCover'
      BY <1>1, <2>5 DEF LeasesCover, Lease
    <2>7. MarkedWereHinted'
      BY <1>1, <2>1, <2>3 DEF OInv, Types, MarkedWereHinted
    <2>8. PICK hinted \in Events : hinted = e
      BY <1>2
    <2>9. Delivery!Hint(hinted)
      <3>1. {f \in Events : hints'[f] > 0} = {f \in Events : hints[f] > 0} \cup {e}
        BY <1>2, <2>1 DEF OInv, Types
      <3>2. e \in {f \in Events : status[f] = "P"} \cup {f \in Events : status[f] = "D"}
        BY <1>2 DEF OInv, Types
      <3>3. QED
        BY <1>1, <1>2, <2>8, <3>1, <3>2 DEF Delivery!Hint
    <2>10. Types' /\ Handled'
      BY <1>1, <1>3, <2>2, <2>3, <2>4, MoveKeeps
    <2>11. Maps
      BY <2>9 DEF Maps, Delivery!Next
    <2>12. QED
      BY <2>6, <2>7, <2>10, <2>11 DEF OInv
  <1>6. QED
    BY <1>4, <1>5 DEF Publish, PublishFails, AfterFailedPublish

\* The row is marked, or the update fails with or without effect.
LEMMA MarkKeeps ==
  ASSUME DispatcherAssumption, OInv, NEW d \in Dispatchers, MarkDelivered(d) \/ QueryFails(d)
  PROVE  OInv' /\ Maps
  <1> DEFINE e == Candidate(d)
  <1>1. /\ queue[d] # {} /\ NextCandidate(d) /\ faults' \in 0..MaxFaults
        /\ UNCHANGED <<stopping, deferred, quarantined, leases, hints, lapses>>
    BY DEF MarkDelivered, QueryFails, At, Fault, OInv, Types, DispatcherAssumption
  <1>2. e \in queue[d] /\ e \in Events /\ status[e] # "absent"
    BY <1>1, CandidateIsQueued
  <1>3. BooksTyped
    BY <1>1 DEF OInv, Types, BooksTyped
  <1>4. CASE UNCHANGED status
    BY <1>1, <1>3, <1>4, SkipKeeps DEF OInv, Types
  <1>5. CASE pc[d] = "mark" /\ status' = [status EXCEPT ![e] = "D"]
    <2>1. hints[e] > 0
      BY <1>5 DEF OInv, Handled
    <2>2. /\ Moves(d) /\ pc'[d] \in {"idle", "lease"} /\ queue'[d] \subseteq queue[d]
      BY <1>1, NextCandidateMoves
    <2>3. \A f \in Events : status'[f] = IF f = e THEN "D" ELSE status[f]
      BY <1>5 DEF OInv, Types
    <2>4. /\ RowsTyped /\ MarkedWereHinted'
          /\ \A f \in Events : (status'[f] = "absent" => status[f] = "absent") /\ hints'[f] >= hints[f]
      BY <1>1, <1>2, <1>5, <2>1, <2>3 DEF OInv, Types, RowsTyped, MarkedWereHinted
    <2>5. HandledBy(d)
      BY <2>2, <2>3 DEF HandledBy, OInv, Types, Handled
    <2>6. LeasesCover'
      BY <1>1, <2>2, CoverStays
    <2>7. Maps
      <3>1. CASE status[e] = "D"
        <4>1. UNCHANGED status
          BY <1>5, <3>1 DEF OInv, Types
        <4>2. QED
          BY <1>1, <4>1, QuietMaps
      <3>2. CASE status[e] = "P"
        <4>1. /\ {f \in Events : status'[f] = "P"} = {f \in Events : status[f] = "P"} \ {e}
              /\ {f \in Events : status'[f] = "D"} = {f \in Events : status[f] = "D"} \cup {e}
              /\ {f \in Events : hints'[f] > 0} = {f \in Events : hints[f] > 0}
          BY <1>1, <1>2, <2>3
        <4>2. PICK marked \in Events : marked = e
          BY <1>2
        <4>3. Delivery!Deliver(marked)
          BY <1>2, <2>1, <3>2, <4>1, <4>2 DEF Delivery!Deliver
        <4>4. QED
          BY <4>3 DEF Maps, Delivery!Next
      <3>3. QED
        BY <1>2, <3>1, <3>2 DEF OInv, Types
    <2>8. QED
      BY <1>3, <2>2, <2>4, <2>5, <2>6, <2>7, MoveKeeps DEF OInv
  <1>6. QED
    BY <1>4, <1>5 DEF MarkDelivered, QueryFails, At

(***************************************************************************)
(* The theorem                                                             *)
(***************************************************************************)

\* Every step keeps the invariant and is a step of the dispatch that was promised.
LEMMA NextKeeps ==
  ASSUME DispatcherAssumption
  PROVE  OInv /\ [Next]_vars => OInv' /\ [Delivery!Next]_(Delivery!stages)
  <1> SUFFICES ASSUME OInv, [Next]_vars PROVE OInv' /\ Maps
    BY DEF Maps
  <1>1. ASSUME NEW e \in Events, Commit(e) \/ LeaseLapses(e) PROVE OInv' /\ Maps
    BY <1>1, CommitKeeps, LeaseLapsesKeeps
  <1>2. ASSUME NEW d \in Dispatchers, Step(d) PROVE OInv' /\ Maps
    BY <1>2, PollKeeps, AcquireKeeps, LoadKeeps, PublishKeeps, MarkKeeps, EndKeeps, StartStopKeep
       DEF Step
  <1>3. ASSUME NEW d \in Dispatchers,
               Crash(d) \/ Stop(d) \/ AcquireFails(d) \/ PublishFails(d) \/ QueryFails(d)
        PROVE  OInv' /\ Maps
    BY <1>3, EndKeeps, StartStopKeep, AcquireKeeps, PublishKeeps, MarkKeeps
  <1>4. CASE UNCHANGED vars
    BY <1>4, QuietMaps DEF vars, rows, processes, OInv, Types, Handled, LeasesCover, Holders, Lease,
           Candidate
  <1>5. CASE Next
    BY <1>1, <1>2, <1>3, <1>5 DEF Next
  <1>6. QED
    BY <1>4, <1>5

\* An outbox without rows and processes that have just started.
LEMMA InitOInv == ASSUME DispatcherAssumption PROVE Init => OInv /\ Delivery!Init
  <1> SUFFICES ASSUME Init PROVE OInv /\ Delivery!Init
    OBVIOUS
  <1>1. Types
    <2>1. [e \in Events |-> 0] \in [Events -> 0..RetryPolls]
      BY DEF DispatcherAssumption
    <2>2. QED
      BY <2>1 DEF Init, Types, Places, Busy, DispatcherAssumption
  <1>2. Handled /\ MarkedWereHinted
    BY DEF Init, Handled, MarkedWereHinted
  <1>3. LeasesCover
    <2>1. \A e : Holders(e) = {}
      BY DEF Init, Holders
    <2>2. QED
      BY <2>1, FS_EmptySet DEF Init, LeasesCover, Lease, DispatcherAssumption
  <1>4. Delivery!Init
    BY DEF Init, Delivery!Init
  <1>5. QED
    BY <1>1, <1>2, <1>3, <1>4 DEF OInv

\* The invariant has what the runs check.
LEMMA OInvPromises == ASSUME DispatcherAssumption PROVE OInv => TypeOK /\ DuplicatesNeedLapse
  <1> SUFFICES ASSUME OInv PROVE TypeOK /\ DuplicatesNeedLapse
    OBVIOUS
  <1>1. TypeOK
    BY DEF OInv, Types, TypeOK, Busy
  <1>2. ASSUME NEW e \in Events, lapses[e] < MaxCount PROVE hints[e] <= lapses[e] + 1
    <2>1. Holders(e) \in SUBSET Dispatchers
      BY DEF Holders
    <2>2. Cardinality(Holders(e)) \in Nat
      BY <2>1, FewerDispatchers
    <2>3. /\ hints[e] \in Nat /\ lapses[e] \in Nat /\ Lease(e) \in 0..1
          /\ hints[e] + Cardinality(Holders(e)) <= lapses[e] + Lease(e)
      BY <1>2 DEF OInv, Types, LeasesCover, Lease, DispatcherAssumption
    <2>4. QED
      BY <2>2, <2>3
  <1>3. QED
    BY <1>1, <1>2 DEF DuplicatesNeedLapse

\* Any number of dispatchers over any set of events, with crashes, stops, lapsing leases
\* and failed commands, implements the dispatch that marks no event delivered before a
\* hint of it was published, and hints an event more often than its leases lapsed at most
\* once.
THEOREM HintsAreAccountedFor == ASSUME DispatcherAssumption PROVE Spec => HintsAccountedFor
  <1>1. Init => OInv /\ Delivery!Init
    BY InitOInv
  <1>2. OInv /\ [Next]_vars => OInv' /\ [Delivery!Next]_(Delivery!stages)
    BY NextKeeps
  <1>3. OInv => TypeOK /\ DuplicatesNeedLapse
    BY OInvPromises
  <1>4. QED
    BY <1>1, <1>2, <1>3, PTL DEF Spec, HintsAccountedFor, HintedBeforeDelivered, Delivery!Spec
=============================================================================
