------------------------------ MODULE HitlWait ------------------------------
(***************************************************************************)
(* Long-polling readers of one question (InteractionQueryService.read) and *)
(* the in-process HitlWaitCoordinator that wakes them.  Whoever settles    *)
(* the question commits first and notifies afterwards; another server      *)
(* process notifies its own coordinator only, and a commit whose           *)
(* acknowledgement is lost notifies nobody.  A reader captures the         *)
(* generation of its key before it probes the database, and the            *)
(* coordinator refuses to put it to sleep when the generation has moved.   *)
(***************************************************************************)
EXTENDS Naturals

CONSTANTS
  Readers,
  MaxGeneration    \* bound on the notifications of the key

WaitAssumption == MaxGeneration \in Nat

VARIABLES
  settled,      \* stateUpdatedAt in the database has passed the readers' cursor
  owed,         \* a commit of this process whose notification is still to come
  silent,       \* the question was settled without a notification to come
  generation,   \* HitlWaitCoordinator.generations of the key
  late,         \* the readers whose deadline has passed
  captured,     \* by reader: the generation it captured
  reader        \* by reader: where its call is

waitVars == <<settled, owed, silent, generation, late, captured, reader>>

Places == {"first", "loop", "probe", "wait", "asleep", "changed", "unchanged", "aborted"}
Done == {"changed", "unchanged", "aborted"}

WaitInit ==
  /\ settled = FALSE /\ owed = FALSE /\ silent = FALSE
  /\ generation = 0
  /\ late = {}
  /\ captured = [r \in Readers |-> 0]
  /\ reader = [r \in Readers |-> "first"]

----------------------------------------------------------------------------
(* The writers *)

\* An answer, a cancellation or an expiry committed by this process.
SettleHere ==
  /\ ~settled
  /\ settled' = TRUE /\ owed' = TRUE
  /\ UNCHANGED <<silent, generation, late, captured, reader>>

\* Committed by another process, or by this one without learning that it was.
SettleSilently ==
  /\ ~settled
  /\ settled' = TRUE /\ silent' = TRUE
  /\ UNCHANGED <<owed, generation, late, captured, reader>>

Woken == [r \in Readers |-> IF reader[r] = "asleep" THEN "loop" ELSE reader[r]]

\* HitlWaitCoordinator.notify; it is also called when nothing has changed, for
\* a replayed answer or a read that found the question settled.
Notify ==
  /\ owed \/ generation < MaxGeneration
  /\ generation' = generation + 1
  /\ owed' = FALSE
  /\ reader' = Woken
  /\ UNCHANGED <<settled, silent, late, captured>>

----------------------------------------------------------------------------
(* A reader *)

Go(r, place) == reader' = [reader EXCEPT ![r] = place]

\* The first look, before the reader has a deadline.
FirstProbe(r) ==
  /\ reader[r] = "first"
  /\ Go(r, IF settled THEN "changed" ELSE "loop")
  /\ UNCHANGED <<settled, owed, silent, generation, late, captured>>

FinalAnswer == IF settled THEN "changed" ELSE "unchanged"

\* Past the deadline the reader looks once more and answers.
FinalProbe(r) ==
  /\ reader[r] = "loop" /\ r \in late
  /\ Go(r, FinalAnswer)
  /\ UNCHANGED <<settled, owed, silent, generation, late, captured>>

Captured == generation

CaptureGeneration(r) ==
  /\ reader[r] = "loop" /\ r \notin late
  /\ captured' = [captured EXCEPT ![r] = Captured]
  /\ Go(r, "probe")
  /\ UNCHANGED <<settled, owed, silent, generation, late>>

Probe(r) ==
  /\ reader[r] = "probe"
  /\ Go(r, IF settled THEN "changed" ELSE "wait")
  /\ UNCHANGED <<settled, owed, silent, generation, late, captured>>

\* Mutant: the generation is not compared, or captured only now.
MaySleep_Unchecked(r) == r \notin late
MaySleep(r) == captured[r] = generation /\ r \notin late

\* HitlWaitCoordinator.wait
Wait(r) ==
  /\ reader[r] = "wait"
  /\ Go(r, IF MaySleep(r) THEN "asleep" ELSE "loop")
  /\ UNCHANGED <<settled, owed, silent, generation, late, captured>>

\* Mutant: a sleeping reader has no timer of its own.
TimerRuns_Never(r) == FALSE
TimerRuns(r) == reader[r] = "asleep"

\* At most a second, the rest of the deadline, or the question's expiry.
Timeout(r) ==
  /\ TimerRuns(r)
  /\ Go(r, "loop")
  /\ UNCHANGED <<settled, owed, silent, generation, late, captured>>

DeadlinePasses(r) ==
  /\ reader[r] \notin Done \cup {"first"} /\ r \notin late
  /\ late' = late \cup {r}
  /\ UNCHANGED <<settled, owed, silent, generation, captured, reader>>

\* The client hangs up: noticed at the top of the loop and while asleep.
Abort(r) ==
  /\ reader[r] \in {"loop", "wait", "asleep"}
  /\ Go(r, "aborted")
  /\ UNCHANGED <<settled, owed, silent, generation, late, captured>>

Advance(r) ==
  FirstProbe(r) \/ FinalProbe(r) \/ CaptureGeneration(r) \/ Probe(r) \/ Wait(r) \/ Timeout(r)

WaitNext ==
  \/ SettleHere \/ SettleSilently \/ Notify
  \/ \E r \in Readers : Advance(r) \/ DeadlinePasses(r) \/ Abort(r)

WaitSpec == WaitInit /\ [][WaitNext]_waitVars

----------------------------------------------------------------------------
(* Properties *)

\* The coordinator's counter and the readers' captures stay in range, and every
\* reader is at a place of its call.
WaitTypeOK ==
  /\ settled \in BOOLEAN /\ owed \in BOOLEAN /\ silent \in BOOLEAN
  /\ generation \in 0..(MaxGeneration + 1)
  /\ late \subseteq Readers
  /\ captured \in [Readers -> 0..(MaxGeneration + 1)]
  /\ reader \in [Readers -> Places]

\* No lost wake-up: while a reader of a settled question sleeps, the
\* notification that wakes it is still to come, unless there is none and its
\* timer is what it waits for.
NoLostWakeup ==
  \A r \in Readers : reader[r] = "asleep" /\ settled => owed \/ silent

\* A reader that answers "unchanged" does so after its deadline and before the
\* question is settled: a settled question is never reported as pending.
UnchangedIsTrue ==
  \A r \in Readers : reader[r] # "unchanged" /\ reader'[r] = "unchanged" => ~settled /\ r \in late

\* No waiting reader sleeps through the answer to its question or is told that
\* it is open when it is settled (hitl-wait-coordinator.ts).
NoAnswerMissed ==
  /\ [](WaitTypeOK /\ NoLostWakeup)
  /\ [][UnchangedIsTrue]_waitVars

\* Every read ends, and one that is under way when the question is settled
\* reports it, however the notification went.
ReadersLearn ==
  /\ \A r \in Readers : <>(reader[r] \in Done)
  /\ \A r \in Readers : settled /\ reader[r] \notin Done ~> reader[r] \in {"changed", "aborted"}
=============================================================================
