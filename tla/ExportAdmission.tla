--------------------------- MODULE ExportAdmission ---------------------------
(***************************************************************************)
(* One export of a board from its admission to the release of everything   *)
(* it took: the reservation of its process, a lease of the global limit in *)
(* Redis, a hold on the revision, a renderer slot with its browser, and a  *)
(* row that promises a terminal audit event (ExportAdmissionService,       *)
(* ExportRendererService, ExportController, the repositories they use and  *)
(* the recovery of ExportCleanupService).                                  *)
(***************************************************************************)
EXTENDS Naturals, FiniteSets

CONSTANTS
  Jobs, Processes, Boards,
  ProcessOf, BoardOf,   \* of every job
  GlobalLimit,          \* leases in Redis (4)
  RenderSlots,          \* browsers of a process (2)
  MaxRetries,           \* bound: how often a transaction of a job is retried (3)
  MaxCrashes            \* bound: processes that die

AdmissionAssumption ==
  /\ ProcessOf \in [Jobs -> Processes] /\ BoardOf \in [Jobs -> Boards]
  /\ {GlobalLimit, RenderSlots} \subseteq Nat \ {0}
  /\ {MaxRetries, MaxCrashes} \subseteq Nat

VARIABLES
  phase,        \* how far admit and the controller are with the job
  retries,
  cancelled,    \* the signal of the operation is aborted
  detached,     \* the caller was answered while the transaction still runs
  reserved,     \* jobs in the sets of active accounts, boards and credentials
  lease,        \* globalLeaseState
  members,      \* of the sorted set in Redis
  ghosts,       \* members whose acquire or last renewal was never answered
  holds,        \* jobs with an active row of board_revision_holds
  browser,      \* renderer resources: none, open, closed
  slots,        \* jobs counted by activeRenders of their process
  ending,       \* how far the release of the job is
  sent,         \* jobs whose response was sent to the end
  intent,       \* terminal audit the job has decided on
  row,          \* outcome of its row in export_terminal_audit_intents
  audits,       \* terminal audit events written
  crashes

job == <<phase, retries, cancelled, detached>>
global == <<lease, members, ghosts>>
browsing == <<browser, slots>>
audit == <<intent, row, audits>>
admissionVars == <<job, reserved, global, holds, browsing, ending, sent, audit, crashes>>

EachJob(value) == [j \in Jobs |-> value]

AdmissionInit ==
  /\ phase = EachJob("new") /\ retries = EachJob(0)
  /\ cancelled = {} /\ detached = {} /\ reserved = {} /\ sent = {}
  /\ lease = EachJob("released") /\ members = {} /\ ghosts = {}
  /\ holds = {} /\ browser = EachJob("none") /\ slots = {}
  /\ ending = EachJob("no")
  /\ intent = EachJob("none") /\ row = EachJob("none") /\ audits = EachJob(0)
  /\ crashes = 0

Applying == {"new", "reserved", "leased", "projected"}
Live(j) == phase[j] \notin {"ended", "crashed"}
Enter(j, p) == phase' = [phase EXCEPT ![j] = p]

----------------------------------------------------------------------------
(* The transaction of the authorization, and what it takes on the way *)

\* Sets of the process: what the job held from an earlier attempt is let go.
Reserve(j) ==
  /\ phase[j] = "new" /\ j \notin cancelled /\ ending[j] = "no"
  /\ \A k \in reserved \ {j} :
       ProcessOf[k] = ProcessOf[j] => BoardOf[k] # BoardOf[j]
  /\ reserved' = reserved \cup {j}
  /\ Enter(j, "reserved")
  /\ UNCHANGED <<retries, cancelled, detached, global, holds, browsing, ending, sent, audit, crashes>>

\* A retried transaction finds its lease, and goes on only if it still has it.
AcquireGlobal(j) ==
  /\ phase[j] = "reserved"
  /\ \/ lease[j] = "active" /\ UNCHANGED global
     \/ /\ lease[j] = "released" /\ Cardinality(members) < GlobalLimit
        /\ members' = members \cup {j}
        /\ lease' = [lease EXCEPT ![j] = "active"]
        /\ ghosts' = ghosts \ {j}
  /\ Enter(j, "leased")
  /\ UNCHANGED <<retries, cancelled, detached, reserved, holds, browsing, ending, sent, audit, crashes>>

\* The revision stays locked until the transaction ends.
Project(j) ==
  /\ phase[j] = "leased" /\ j \notin cancelled
  /\ \A k \in Jobs \ {j} : BoardOf[k] = BoardOf[j] => phase[k] # "projected" /\ k \notin holds
  /\ Enter(j, "projected")
  /\ UNCHANGED <<retries, cancelled, detached, reserved, global, holds, browsing, ending, sent, audit, crashes>>

Committed(j) ==
  /\ phase[j] = "projected"
  /\ holds' = holds \cup {j}
  /\ row' = [row EXCEPT ![j] = "pending"]

Commit(j) ==
  /\ Committed(j)
  /\ Enter(j, "authorized")
  /\ UNCHANGED <<retries, cancelled, detached, reserved, global, browsing, ending, sent, intent, audits, crashes>>

\* A retryable error: the reservation and the lease stay with the job.
RetryApply(j) ==
  /\ phase[j] \in {"reserved", "leased", "projected"} /\ retries[j] < MaxRetries
  /\ retries' = [retries EXCEPT ![j] = @ + 1]
  /\ Enter(j, "new")
  /\ UNCHANGED <<cancelled, detached, reserved, global, holds, browsing, ending, sent, audit, crashes>>

\* A refusal, an expired deadline or an error ends the attempt.  Nothing is
\* committed, unless only the answer to the commit is lost; a lease whose
\* acquire is not answered is not known to the job.
FailApply(j) ==
  /\ phase[j] \in Applying /\ ending[j] = "no"
  /\ \/ UNCHANGED <<holds, row, members, ghosts>>
     \/ Committed(j) /\ UNCHANGED <<members, ghosts>>
     \/ /\ phase[j] = "reserved" /\ lease[j] = "released"
        /\ Cardinality(members) < GlobalLimit
        /\ members' = members \cup {j} /\ ghosts' = ghosts \cup {j}
        /\ UNCHANGED <<holds, row>>
  /\ Enter(j, "ended")
  /\ ending' = [ending EXCEPT ![j] = "hold"]
  /\ UNCHANGED <<retries, cancelled, detached, reserved, lease, browsing, sent, intent, audits, crashes>>

\* Mutant: the reservation is let go when the caller is answered.
Detach_LetsGo(j) ==
  /\ phase[j] \in Applying /\ j \in cancelled \ detached
  /\ detached' = detached \cup {j}
  /\ reserved' = reserved \ {j}
  /\ UNCHANGED <<phase, retries, cancelled, global, holds, browsing, ending, sent, audit, crashes>>
\* The caller does not wait for a transaction once the signal is aborted.
Detach(j) ==
  /\ phase[j] \in Applying /\ j \in cancelled \ detached
  /\ detached' = detached \cup {j}
  /\ UNCHANGED <<phase, retries, cancelled, reserved, global, holds, browsing, ending, sent, audit, crashes>>

----------------------------------------------------------------------------
(* The signal, the lease in Redis and the time of the database *)

\* An aborted signal also reaches a renderer, which gives up on its own.
AbortJob(j) ==
  /\ cancelled' = cancelled \cup {j}
  /\ ending' = IF browser[j] # "none" /\ ending[j] = "no"
               THEN [ending EXCEPT ![j] = "resources"] ELSE ending

\* The client goes away, time is up, or the hold cannot be renewed.
Cancel(j) ==
  /\ Live(j) /\ phase[j] # "finished" /\ j \notin cancelled
  /\ AbortJob(j)
  /\ UNCHANGED <<phase, retries, detached, reserved, global, holds, browsing, sent, audit, crashes>>

\* Redis extended the member, and the process reckons with its old expiry.
ExtendedUnheard(j) == j \in members /\ ghosts' = ghosts \cup {j}

\* Renewal is rejected, as the member is gone, or not answered: the lease is lost.
LoseLease(j) ==
  /\ lease[j] = "active" /\ phase[j] # "crashed"
  /\ lease' = [lease EXCEPT ![j] = "lost"]
  /\ UNCHANGED ghosts \/ ExtendedUnheard(j)
  /\ AbortJob(j)
  /\ UNCHANGED <<phase, retries, detached, reserved, members, holds, browsing, sent, audit, crashes>>

\* A renewal on its way when the release begins, and not answered either.
OverlappedRenewal(j) ==
  /\ lease[j] = "releasing" /\ j \notin ghosts
  /\ ExtendedUnheard(j)
  /\ UNCHANGED <<job, reserved, lease, members, holds, browsing, ending, sent, audit, crashes>>

MemberLapses(j) ==
  /\ j \in members
  /\ members' = members \ {j} /\ ghosts' = ghosts \ {j}
  /\ UNCHANGED <<job, reserved, lease, holds, browsing, ending, sent, audit, crashes>>

\* A hold is renewed as long as the renderer does not give up.
HoldLapses(j) ==
  /\ j \in holds /\ (ending[j] # "no" \/ phase[j] = "crashed")
  /\ holds' = holds \ {j}
  /\ UNCHANGED <<job, reserved, global, browsing, ending, sent, audit, crashes>>

----------------------------------------------------------------------------
(* Render, encode and deliver *)

StartRender(j) ==
  /\ phase[j] = "authorized" /\ j \notin cancelled \cup detached
  /\ Cardinality({k \in slots : ProcessOf[k] = ProcessOf[j]}) < RenderSlots
  /\ slots' = slots \cup {j}
  /\ browser' = [browser EXCEPT ![j] = "open"]
  /\ Enter(j, "rendering")
  /\ UNCHANGED <<retries, cancelled, detached, reserved, global, holds, ending, sent, audit, crashes>>

\* The pages are taken; the lease is given out once the browser is closed.
PagesTaken(j) ==
  /\ phase[j] = "rendering" /\ ending[j] = "no"
  /\ browser' = [browser EXCEPT ![j] = "closed"]
  /\ Enter(j, "admitted")
  /\ UNCHANGED <<retries, cancelled, detached, reserved, global, holds, slots, ending, sent, audit, crashes>>

Write(j) ==
  /\ phase[j] = "admitted" /\ j \notin cancelled /\ lease[j] = "active"
  /\ Enter(j, "writing")
  /\ UNCHANGED <<retries, cancelled, detached, reserved, global, holds, browsing, ending, sent, audit, crashes>>

\* The response is out before an abort was seen.
Finish(j) ==
  /\ phase[j] = "writing" /\ j \notin cancelled
  /\ sent' = sent \cup {j}
  /\ intent' = [intent EXCEPT ![j] = "completed"]
  /\ ending' = [ending EXCEPT ![j] = "resources"]
  /\ Enter(j, "finished")
  /\ UNCHANGED <<retries, cancelled, detached, reserved, global, holds, browsing, row, audits, crashes>>

\* Any later failure: a refused slot, an expired deadline, a page that does not
\* render, a client that went away; a renderer ends what it has accepted.
FailExport(j) ==
  /\ phase[j] \in {"authorized", "rendering", "admitted", "writing"}
  /\ intent' = [intent EXCEPT ![j] = "failed"]
  /\ ending' = IF ending[j] # "no" THEN ending
               ELSE [ending EXCEPT ![j] = IF browser[j] = "none" THEN "hold" ELSE "resources"]
  /\ Enter(j, "ended")
  /\ UNCHANGED <<retries, cancelled, detached, reserved, global, holds, browsing, sent, row, audits, crashes>>

----------------------------------------------------------------------------
(* Release: each step is retried until it succeeds *)

CloseBrowser(j) ==
  /\ ending[j] = "resources" /\ browser[j] = "open"
  /\ browser' = [browser EXCEPT ![j] = "closed"]
  /\ UNCHANGED <<job, reserved, global, holds, slots, ending, sent, audit, crashes>>

GiveUpHold(j) ==
  /\ ending[j] \in {"hold", "resources"} /\ browser[j] # "open"
  /\ holds' = holds \ {j}
  /\ lease' = [lease EXCEPT ![j] = IF @ = "released" THEN @ ELSE "releasing"]
  /\ ending' = [ending EXCEPT ![j] = "global"]
  /\ UNCHANGED <<job, reserved, members, ghosts, browsing, sent, audit, crashes>>

\* Redis removed the member; or no attempt was answered before the expiry the
\* process reckons with, at which the member has lapsed unless it was extended.
ReleaseGlobal(j) ==
  /\ ending[j] = "global"
  /\ IF lease[j] = "releasing"
     THEN /\ \/ members' = members \ {j} /\ ghosts' = ghosts \ {j}
             \/ j \in ghosts /\ UNCHANGED <<members, ghosts>>
          /\ lease' = [lease EXCEPT ![j] = "released"]
     ELSE UNCHANGED global
  /\ ending' = [ending EXCEPT ![j] = "local"]
  /\ UNCHANGED <<job, reserved, holds, browsing, sent, audit, crashes>>

ReleaseLocal(j) ==
  /\ ending[j] = "local"
  /\ reserved' = reserved \ {j} /\ slots' = slots \ {j}
  /\ ending' = [ending EXCEPT ![j] = "done"]
  /\ UNCHANGED <<job, global, holds, browser, sent, audit, crashes>>

----------------------------------------------------------------------------
(* The terminal audit, also by the recovery of any process *)

Finalize(j) ==
  /\ row[j] = "pending" /\ intent[j] # "none" /\ phase[j] # "crashed"
  /\ row' = [row EXCEPT ![j] = intent[j]]
  /\ UNCHANGED <<job, reserved, global, holds, browsing, ending, sent, intent, audits, crashes>>

Persist(j) ==
  /\ row[j] \in {"completed", "failed"} /\ audits[j] = 0
  /\ audits' = [audits EXCEPT ![j] = @ + 1]
  /\ UNCHANGED <<job, reserved, global, holds, browsing, ending, sent, intent, row, crashes>>

\* What the process kept in memory is gone; rows and members stay.
Crash(p) ==
  LET lost == {j \in Jobs : ProcessOf[j] = p /\ (phase[j] # "new" \/ j \in reserved)} IN
  /\ crashes < MaxCrashes
  /\ crashes' = crashes + 1
  /\ phase' = [j \in Jobs |-> IF j \in lost THEN "crashed" ELSE phase[j]]
  /\ reserved' = reserved \ lost /\ slots' = slots \ lost
  /\ browser' = [j \in Jobs |-> IF j \in lost THEN "none" ELSE browser[j]]
  /\ ending' = [j \in Jobs |-> IF j \in lost THEN "no" ELSE ending[j]]
  /\ lease' = [j \in Jobs |-> IF j \in lost THEN "released" ELSE lease[j]]
  /\ UNCHANGED <<retries, cancelled, detached, members, ghosts, holds, sent, audit>>

----------------------------------------------------------------------------

AdmissionNext ==
  \/ \E j \in Jobs :
       \/ Reserve(j) \/ AcquireGlobal(j) \/ Project(j) \/ Commit(j) \/ RetryApply(j)
       \/ FailApply(j) \/ Detach(j) \/ Cancel(j) \/ LoseLease(j)
       \/ OverlappedRenewal(j) \/ MemberLapses(j) \/ HoldLapses(j)
       \/ StartRender(j) \/ PagesTaken(j) \/ Write(j) \/ Finish(j) \/ FailExport(j)
       \/ CloseBrowser(j) \/ GiveUpHold(j) \/ ReleaseGlobal(j) \/ ReleaseLocal(j)
       \/ Finalize(j) \/ Persist(j)
  \/ \E p \in Processes : Crash(p)

AdmissionSpec == AdmissionInit /\ [][AdmissionNext]_admissionVars

----------------------------------------------------------------------------
(* Properties *)

AdmissionTypeOK ==
  /\ phase \in [Jobs -> Applying \cup {"authorized", "rendering", "admitted", "writing",
                                       "finished", "ended", "crashed"}]
  /\ UNION {cancelled, detached, reserved, members, ghosts, holds, slots, sent} \subseteq Jobs
  /\ lease \in [Jobs -> {"released", "active", "lost", "releasing"}]
  /\ browser \in [Jobs -> {"none", "open", "closed"}]
  /\ ending \in [Jobs -> {"no", "resources", "hold", "global", "local", "done"}]
  /\ row \in [Jobs -> {"none", "pending", "completed", "failed"}]
  /\ Cardinality(members) <= GlobalLimit

\* Two exports of a board never work at once in a process: the second starts
\* after the first gave back everything, also when its caller was answered long
\* before.
Works(j) == lease[j] # "released" \/ browser[j] = "open" \/ phase[j] = "projected" \/ j \in slots
OneAtATime ==
  \A j, k \in Jobs :
    j # k /\ ProcessOf[j] = ProcessOf[k] /\ BoardOf[j] = BoardOf[k] => ~(Works(j) /\ Works(k))

\* The revision stays held by the job that exports it, and by no other, until the
\* job is over.
HeldAlone ==
  \A j \in Jobs : phase[j] \in {"authorized", "rendering", "admitted", "writing"} /\ ending[j] = "no" =>
    {k \in holds : BoardOf[k] = BoardOf[j]} = {j}

\* A browser runs only while its job is counted everywhere.
BrowserIsCounted ==
  \A j \in Jobs : browser[j] = "open" =>
    j \in reserved \cap slots /\ lease[j] \in {"active", "lost"}

\* The audit says completed of exactly the responses that were sent to the end,
\* whoever writes it.
AuditTellsTruth ==
  \A j \in Jobs : /\ row[j] = "completed" => j \in sent
                  /\ row[j] = "failed" => j \notin sent

\* A job that is over has nothing left, except a member that Redis set or extended
\* without an answer: it counts until it lapses.
GivenBack ==
  \A j \in Jobs : ending[j] = "done" =>
    j \notin reserved \cup slots \cup holds \cup (members \ ghosts)

\* Exports of a board work one at a time in a process and hold its revision alone, a
\* browser runs only while it is counted, the audit says completed of what was sent
\* to the end, and what a job took it gives back, but for the lease of an acquire or
\* a renewal that was not answered, over retries, aborts, lapses, lost answers and a
\* crash (ExportAdmissionService).
ExportsAccounted ==
  AdmissionTypeOK /\ OneAtATime /\ HeldAlone /\ BrowserIsCounted /\ AuditTellsTruth /\ GivenBack
=============================================================================
