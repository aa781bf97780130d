------------------------------ MODULE StreamHealth ------------------------------
(***************************************************************************)
(* The readiness a process reports for its streams                         *)
(* (BoardStreamHealthService): every five seconds it samples Redis and the *)
(* age of the oldest pending event.  Age alone changes readiness slowly,   *)
(* so that one slow dispatch does not take the process out of service.     *)
(***************************************************************************)
EXTENDS Naturals, Sequences

CONSTANT MaxSamples    \* the counters and the history stop here

\* An age in the middle is over 5 s and under 10 s; a sample fails when one of
\* its three reads throws, and is unhealthy when Redis answers that it is not
\* ready or when the process has met a corrupt event.
Ages == {"young", "middle", "old"}
Samples == Ages \cup {"failed", "unhealthy"}

HealthAssumption == MaxSamples \in Nat /\ MaxSamples >= 3

VARIABLES
  ready, replay,      \* ready and replayAvailable of #health
  degrade, recover,   \* #degradeSamples and #recoverSamples
  quarantined,        \* quarantinedCorruptPending of the outbox repository
  recent              \* the last samples, newest first

healthVars == <<ready, replay, degrade, recover, quarantined, recent>>

HealthInit ==
  /\ ready = FALSE /\ replay = FALSE
  /\ degrade = 0 /\ recover = 0
  /\ quarantined = FALSE
  /\ recent = <<>>

\* The dispatcher of the process meets a corrupt event; nothing resets the flag.
MeetCorrupt ==
  /\ ~quarantined
  /\ quarantined' = TRUE
  /\ UNCHANGED <<ready, replay, degrade, recover, recent>>

Up(n) == IF n < MaxSamples THEN n + 1 ELSE n

Remember(s) ==
  recent' = SubSeq(<<s>> \o recent, 1, IF Len(recent) < MaxSamples THEN Len(recent) + 1
                                       ELSE MaxSamples)

\* Mutant: an age in the middle keeps the counters.
MiddleResets_Keeps == UNCHANGED <<degrade, recover>>
MiddleResets == degrade' = 0 /\ recover' = 0

EndsRecovery == recover' = 0

AgeDecides == ~quarantined

SampleAge(age) ==
  /\ AgeDecides
  /\ CASE age = "old"    -> /\ degrade' = Up(degrade) /\ EndsRecovery
                            /\ ready' = (ready /\ degrade' < 2)
       [] age = "young"  -> /\ recover' = Up(recover) /\ degrade' = 0
                            /\ ready' = (ready \/ recover' >= 3)
       [] age = "middle" -> MiddleResets /\ UNCHANGED ready
  /\ replay' = TRUE
  /\ Remember(age)
  /\ UNCHANGED quarantined

SampleUnhealthy ==
  /\ ready' = FALSE /\ replay' = TRUE
  /\ degrade' = 0 /\ recover' = 0
  /\ Remember("unhealthy")
  /\ UNCHANGED quarantined

SampleFails ==
  /\ ready' = FALSE /\ replay' = FALSE
  /\ degrade' = 0 /\ recover' = 0
  /\ Remember("failed")
  /\ UNCHANGED quarantined

HealthNext == MeetCorrupt \/ SampleUnhealthy \/ SampleFails \/ \E age \in Ages : SampleAge(age)

HealthSpec == HealthInit /\ [][HealthNext]_healthVars

----------------------------------------------------------------------------
(* Properties *)

HealthTypeOK ==
  /\ ready \in BOOLEAN /\ replay \in BOOLEAN /\ quarantined \in BOOLEAN
  /\ degrade \in 0..MaxSamples /\ recover \in 0..MaxSamples
  /\ degrade = 0 \/ recover = 0
  /\ recent \in UNION {[1..n -> Samples] : n \in 0..MaxSamples}

\* What the samples say: the newest one that is neither in the middle, nor a
\* first old one, nor a first or second young one in a row, decides.
Decides(n) ==
  \/ recent[n] \in {"failed", "unhealthy"}
  \/ recent[n] = "old" /\ n < Len(recent) /\ recent[n + 1] = "old"
  \/ recent[n] = "young" /\ n + 2 <= Len(recent)
       /\ recent[n + 1] = "young" /\ recent[n + 2] = "young"

\* Readiness follows the last decisive sample, across any number of samples in
\* the middle band: it neither flaps with one old event nor returns after one
\* young one.  Checked as long as the history holds the decisive sample.
FollowsSamples ==
  \A n \in 1..Len(recent) :
    Decides(n) /\ (\A m \in 1..(n - 1) : ~Decides(m)) => (ready <=> recent[n] = "young")

\* A process that has met a corrupt event is never taken back into service: it
\* leaves it with its next sample and stays out until it is restarted.
QuarantineIsFinal == quarantined /\ ~ready => ~ready'

\* Readiness follows the last decisive sample and a corrupt event is final
\* (board-stream-health.service.ts).
ReadinessFollowsSamples ==
  /\ [](HealthTypeOK /\ FollowsSamples)
  /\ [][QuarantineIsFinal]_healthVars
=============================================================================
