---------------------------- MODULE Artifacts_proofs ----------------------------
(***************************************************************************)
(* What is proved of the artifacts of a board: of their exports (admission, *)
(* renders and render session), of the packages of a shared board, and of   *)
(* a page's bridge to an artifact, its clipboard and its navigation.        *)
(***************************************************************************)
EXTENDS ExportAdmission, ExportRenderer, ExportRenderSession, PublicArtifactSlots, ArtifactBridge,
        ClipboardCapability, ArtifactNavigation, FiniteSets, SequenceTheorems, FiniteSetTheorems, TLAPS

----------------------------------------------------------------------------
(***************************************************************************)
(* Admission: the inductive invariant                                      *)
(*                                                                         *)
(* What a job has follows from how far it is, and what is left of it from  *)
(* how far its release is.  Whatever lets a job work stands behind its     *)
(* reservation, and reservations of a process are for different boards;    *)
(* the lock of the revision keeps a second hold out.                       *)
(***************************************************************************)

Delivering == {"authorized", "rendering", "admitted", "writing"}

\* What a job has follows from how far it is.
Entered(j) ==
  /\ phase[j] \in Applying => ending[j] = "no" /\ browser[j] = "none" /\ j \notin slots
  /\ phase[j] \in {"reserved", "leased", "projected"} => j \in reserved
  /\ phase[j] \in {"leased", "projected"} => lease[j] \in {"active", "lost"}
  /\ phase[j] \in Delivering /\ ending[j] = "no" =>
       j \in reserved \cap holds /\ lease[j] \in {"active", "lost"}
  /\ phase[j] = "crashed" =>
       ending[j] = "no" /\ lease[j] = "released" /\ browser[j] = "none" /\ j \notin reserved \cup slots
  /\ j \in slots \/ lease[j] # "released" => j \in reserved

\* ... and what it has left from how far its release is.
Left(j) ==
  /\ ending[j] # "no" => j \in cancelled \/ phase[j] \in {"finished", "ended"}
  /\ ending[j] \in {"no", "resources", "hold"} => lease[j] # "releasing"
  /\ ending[j] = "global" => lease[j] \in {"released", "releasing"}
  /\ ending[j] \in {"local", "done"} => lease[j] = "released"
  /\ ending[j] \in {"global", "local", "done"} => j \notin holds
  /\ ending[j] = "done" => j \notin reserved \cup slots
  /\ browser[j] = "open" =>
       j \in reserved \cap slots /\ lease[j] \in {"active", "lost"} /\ ending[j] \in {"no", "resources"}
  /\ lease[j] = "released" /\ phase[j] # "crashed" => j \notin members \ ghosts

Decided(j) ==
  /\ j \in sent <=> intent[j] = "completed"
  /\ intent[j] = "completed" => phase[j] \in {"finished", "crashed"}
  /\ intent[j] = "failed" => phase[j] \in {"ended", "crashed"}
  /\ row[j] \in {"completed", "failed"} => row[j] = intent[j]
JobsSound == \A j \in Jobs : Entered(j) /\ Left(j) /\ Decided(j)
ReservedAlone ==
  \A j, k \in reserved : ProcessOf[j] = ProcessOf[k] /\ BoardOf[j] = BoardOf[k] => j = k
HeldByOne ==
  /\ \A j, k \in holds : BoardOf[j] = BoardOf[k] => j = k
  /\ \A j, k \in Jobs : phase[j] = "projected" /\ j # k /\ BoardOf[j] = BoardOf[k] =>
       phase[k] # "projected" /\ k \notin holds
AdmissionInv ==
  /\ AdmissionTypeOK /\ IsFiniteSet(members) /\ intent \in [Jobs -> {"none", "completed", "failed"}]
  /\ JobsSound /\ ReservedAlone /\ HeldByOne

\* The leases of the global limit stay counted.
LEMMA LeasesCounted ==
  ASSUME AdmissionAssumption, IsFiniteSet(members), Cardinality(members) <= GlobalLimit, NEW j,
         \/ members' = members
         \/ members' = members \ {j}
         \/ members' = members \cup {j} /\ Cardinality(members) < GlobalLimit
  PROVE  IsFiniteSet(members') /\ Cardinality(members') <= GlobalLimit
<1>0. GlobalLimit \in Nat /\ Cardinality(members) \in Nat
  BY FS_CardinalityType DEF AdmissionAssumption
<1>1. CASE members' = members
  BY <1>1
<1>2. CASE members' = members \ {j}
  <2>1. IsFiniteSet(members \ {j})
    BY FS_RemoveElement
  <2>2. Cardinality(members \ {j}) \in {Cardinality(members), Cardinality(members) - 1}
    BY FS_RemoveElement
  <2> QED BY <1>0, <1>2, <2>1, <2>2
<1>3. CASE members' = members \cup {j} /\ Cardinality(members) < GlobalLimit
  <2>1. IsFiniteSet(members \cup {j})
    BY FS_AddElement
  <2>2. Cardinality(members \cup {j}) \in {Cardinality(members), Cardinality(members) + 1}
    BY FS_AddElement
  <2> QED BY <1>0, <1>3, <2>1, <2>2
<1> QED BY <1>1, <1>2, <1>3

\* What a job does on its own; the rest of the invariant is per job, or about pairs.
JobDoes(j) ==
  \/ Reserve(j) \/ AcquireGlobal(j) \/ Project(j) \/ Commit(j) \/ RetryApply(j)
  \/ FailApply(j) \/ Detach(j) \/ Cancel(j) \/ LoseLease(j) \/ OverlappedRenewal(j)
  \/ MemberLapses(j) \/ HoldLapses(j) \/ StartRender(j) \/ PagesTaken(j) \/ Write(j) \/ Finish(j)
  \/ FailExport(j) \/ CloseBrowser(j) \/ GiveUpHold(j) \/ ReleaseGlobal(j) \/ ReleaseLocal(j)
  \/ Finalize(j) \/ Persist(j)

LEMMA JobKeeps ==
  ASSUME AdmissionAssumption, AdmissionInv, NEW j \in Jobs, JobDoes(j)
  PROVE  AdmissionInv'
<1> USE DEF AdmissionInv, AdmissionTypeOK, Enter, Applying, AbortJob, Committed, Live, job, global,
            ExtendedUnheard, browsing, audit, JobsSound, Entered, Left, Decided, Delivering, ReservedAlone,
            HeldByOne
<1>1. CASE Reserve(j)
  <2>1. IsFiniteSet(members') /\ Cardinality(members') <= GlobalLimit
    BY <1>1, LeasesCounted DEF Reserve
  <2> QED BY <1>1, <2>1 DEF Reserve
<1>2. CASE AcquireGlobal(j)
  <2>1. IsFiniteSet(members') /\ Cardinality(members') <= GlobalLimit
    BY <1>2, LeasesCounted DEF AcquireGlobal
  <2> QED BY <1>2, <2>1 DEF AcquireGlobal
<1>3. CASE Project(j)
  <2>1. IsFiniteSet(members') /\ Cardinality(members') <= GlobalLimit
    BY <1>3, LeasesCounted DEF Project
  <2> QED BY <1>3, <2>1 DEF Project
<1>4. CASE Commit(j)
  <2>1. IsFiniteSet(members') /\ Cardinality(members') <= GlobalLimit
    BY <1>4, LeasesCounted DEF Commit
  <2> QED BY <1>4, <2>1 DEF Commit
<1>5. CASE RetryApply(j)
  <2>1. IsFiniteSet(members') /\ Cardinality(members') <= GlobalLimit
    BY <1>5, LeasesCounted DEF RetryApply
  <2> QED BY <1>5, <2>1 DEF RetryApply
<1>6. CASE FailApply(j)
  <2>1. IsFiniteSet(members') /\ Cardinality(members') <= GlobalLimit
    BY <1>6, LeasesCounted DEF FailApply
  <2> QED BY <1>6, <2>1 DEF FailApply
<1>7. CASE Detach(j)
  <2>1. IsFiniteSet(members') /\ Cardinality(members') <= GlobalLimit
    BY <1>7, LeasesCounted DEF Detach
  <2> QED BY <1>7, <2>1 DEF Detach
<1>8. CASE Cancel(j)
  <2>1. IsFiniteSet(members') /\ Cardinality(members') <= GlobalLimit
    BY <1>8, LeasesCounted DEF Cancel
  <2> QED BY <1>8, <2>1 DEF Cancel
<1>9. CASE LoseLease(j)
  <2>1. IsFiniteSet(members') /\ Cardinality(members') <= GlobalLimit
    BY <1>9, LeasesCounted DEF LoseLease
  <2> QED BY <1>9, <2>1 DEF LoseLease
<1>10. CASE MemberLapses(j)
  <2>1. IsFiniteSet(members') /\ Cardinality(members') <= GlobalLimit
    BY <1>10, LeasesCounted DEF MemberLapses
  <2> QED BY <1>10, <2>1 DEF MemberLapses
<1>11. CASE HoldLapses(j)
  <2>1. IsFiniteSet(members') /\ Cardinality(members') <= GlobalLimit
    BY <1>11, LeasesCounted DEF HoldLapses
  <2> QED BY <1>11, <2>1 DEF HoldLapses
<1>12. CASE StartRender(j)
  <2>1. IsFiniteSet(members') /\ Cardinality(members') <= GlobalLimit
    BY <1>12, LeasesCounted DEF StartRender
  <2> QED BY <1>12, <2>1 DEF StartRender
<1>13. CASE PagesTaken(j)
  <2>1. IsFiniteSet(members') /\ Cardinality(members') <= GlobalLimit
    BY <1>13, LeasesCounted DEF PagesTaken
  <2> QED BY <1>13, <2>1 DEF PagesTaken
<1>14. CASE Write(j)
  <2>1. IsFiniteSet(members') /\ Cardinality(members') <= GlobalLimit
    BY <1>14, LeasesCounted DEF Write
  <2> QED BY <1>14, <2>1 DEF Write
<1>15. CASE Finish(j)
  <2>1. IsFiniteSet(members') /\ Cardinality(members') <= GlobalLimit
    BY <1>15, LeasesCounted DEF Finish
  <2> QED BY <1>15, <2>1 DEF Finish
<1>16. CASE FailExport(j)
  <2>1. IsFiniteSet(members') /\ Cardinality(members') <= GlobalLimit
    BY <1>16, LeasesCounted DEF FailExport
  <2> QED BY <1>16, <2>1 DEF FailExport
<1>17. CASE CloseBrowser(j)
  <2>1. IsFiniteSet(members') /\ Cardinality(members') <= GlobalLimit
    BY <1>17, LeasesCounted DEF CloseBrowser
  <2> QED BY <1>17, <2>1 DEF CloseBrowser
<1>18. CASE GiveUpHold(j)
  <2>1. IsFiniteSet(members') /\ Cardinality(members') <= GlobalLimit
    BY <1>18, LeasesCounted DEF GiveUpHold
  <2> QED BY <1>18, <2>1 DEF GiveUpHold
<1>19. CASE ReleaseGlobal(j)
  <2>1. IsFiniteSet(members') /\ Cardinality(members') <= GlobalLimit
    BY <1>19, LeasesCounted DEF ReleaseGlobal
  <2> QED BY <1>19, <2>1 DEF ReleaseGlobal
<1>20. CASE ReleaseLocal(j)
  <2>1. IsFiniteSet(members') /\ Cardinality(members') <= GlobalLimit
    BY <1>20, LeasesCounted DEF ReleaseLocal
  <2> QED BY <1>20, <2>1 DEF ReleaseLocal
<1>21. CASE Finalize(j)
  <2>1. IsFiniteSet(members') /\ Cardinality(members') <= GlobalLimit
    BY <1>21, LeasesCounted DEF Finalize
  <2> QED BY <1>21, <2>1 DEF Finalize
<1>22. CASE Persist(j)
  <2>1. IsFiniteSet(members') /\ Cardinality(members') <= GlobalLimit
    BY <1>22, LeasesCounted DEF Persist
  <2> QED BY <1>22, <2>1 DEF Persist
<1>23. CASE OverlappedRenewal(j)
  BY <1>23 DEF OverlappedRenewal
<1> QED BY <1>1, <1>2, <1>3, <1>4, <1>5, <1>6, <1>7, <1>8, <1>9, <1>10, <1>11, <1>12, <1>13, <1>14, <1>15, <1>16, <1>17, <1>18, <1>19, <1>20, <1>21, <1>22, <1>23 DEF JobDoes

\* A process that dies takes along what it had, and neither rows nor members.
LEMMA CrashKeeps ==
  ASSUME AdmissionAssumption, AdmissionInv, NEW p \in Processes, Crash(p)
  PROVE  AdmissionInv'
<1> DEFINE gone == {j \in Jobs : ProcessOf[j] = p /\ (phase[j] # "new" \/ j \in reserved)}
<1>1. /\ phase' = [j \in Jobs |-> IF j \in gone THEN "crashed" ELSE phase[j]]
      /\ reserved' = reserved \ gone /\ slots' = slots \ gone
      /\ browser' = [j \in Jobs |-> IF j \in gone THEN "none" ELSE browser[j]]
      /\ ending' = [j \in Jobs |-> IF j \in gone THEN "no" ELSE ending[j]]
      /\ lease' = [j \in Jobs |-> IF j \in gone THEN "released" ELSE lease[j]]
      /\ UNCHANGED <<retries, cancelled, detached, members, ghosts, holds, sent, intent, row, audits>>
  BY DEF Crash, audit
<1> HIDE DEF gone
<1>2. AdmissionTypeOK'
  BY <1>1 DEF AdmissionInv, AdmissionTypeOK
<1>3. JobsSound'
  <2> SUFFICES ASSUME NEW j \in Jobs
               PROVE  (Entered(j) /\ Left(j) /\ Decided(j))'
    BY DEF JobsSound
  <2>1. CASE j \in gone
    BY <1>1, <2>1 DEF gone, AdmissionInv, AdmissionTypeOK, JobsSound, Entered, Left, Decided, Delivering, Applying
  <2>2. CASE j \notin gone
    BY <1>1, <2>2 DEF AdmissionInv, AdmissionTypeOK, JobsSound, Entered, Left, Decided, Delivering, Applying
  <2> QED BY <2>1, <2>2
<1>4. ReservedAlone'
  BY <1>1 DEF AdmissionInv, ReservedAlone
<1>5. HeldByOne'
  BY <1>1 DEF AdmissionInv, HeldByOne
<1> QED BY <1>1, <1>2, <1>3, <1>4, <1>5 DEF AdmissionInv

\* The invariant holds at the start, and every step keeps it.
LEMMA AdmissionInvariance ==
  ASSUME AdmissionAssumption
  PROVE  AdmissionSpec => []AdmissionInv
<1>1. AdmissionInit => AdmissionInv
  <2> SUFFICES ASSUME AdmissionInit PROVE AdmissionInv
    OBVIOUS
  <2>1. IsFiniteSet(members) /\ Cardinality(members) <= GlobalLimit
    BY FS_EmptySet DEF AdmissionInit, AdmissionAssumption
  <2> QED BY <2>1 DEF AdmissionInit, EachJob, AdmissionInv, AdmissionTypeOK, JobsSound, Entered, Left,
                      Decided, Delivering, Applying, ReservedAlone, HeldByOne
<1>2. AdmissionInv /\ [AdmissionNext]_admissionVars => AdmissionInv'
  <2> SUFFICES ASSUME AdmissionInv, [AdmissionNext]_admissionVars PROVE AdmissionInv'
    OBVIOUS
  <2>1. ASSUME NEW j \in Jobs, JobDoes(j) PROVE AdmissionInv'
    BY <2>1, JobKeeps
  <2>2. ASSUME NEW p \in Processes, Crash(p) PROVE AdmissionInv'
    BY <2>2, CrashKeeps
  <2>3. CASE UNCHANGED admissionVars
    BY <2>3 DEF admissionVars, job, global, browsing, audit, AdmissionInv, AdmissionTypeOK, JobsSound,
                Entered, Left, Decided, Delivering, Applying, ReservedAlone, HeldByOne
  <2> QED BY <2>1, <2>2, <2>3 DEF AdmissionNext, JobDoes
<1> QED BY <1>1, <1>2, PTL DEF AdmissionSpec

\* For any jobs, processes, boards and limits, whatever is retried, cancelled, lost,
\* not answered or crashes: exports of a board work one at a time in a process and hold
\* its revision alone, a browser is counted as long as it runs, the audit says what was
\* sent, and what is over has given everything back, but for a lease that Redis set or
\* extended without an answer.
THEOREM ExportsAlwaysAccounted ==
  ASSUME AdmissionAssumption
  PROVE  AdmissionSpec => []ExportsAccounted
<1>1. ASSUME AdmissionInv PROVE ExportsAccounted
  <2> USE <1>1 DEF AdmissionInv, AdmissionTypeOK, JobsSound, Entered, Left, Decided
  <2>1. OneAtATime
    BY DEF OneAtATime, Works, ReservedAlone, Applying
  <2>2. HeldAlone
    BY DEF HeldAlone, HeldByOne, Delivering
  <2>3. BrowserIsCounted /\ AuditTellsTruth /\ GivenBack
    BY DEF BrowserIsCounted, AuditTellsTruth, GivenBack
  <2> QED BY <2>1, <2>2, <2>3 DEF ExportsAccounted
<1> QED BY <1>1, AdmissionInvariance, PTL

----------------------------------------------------------------------------
(***************************************************************************)
(* The renders: the inductive invariant                                    *)
(*                                                                         *)
(* What a render may still be doing follows from how far it is: a cleanup  *)
(* leaves nothing open or asked for, what was disposed of or finalized is  *)
(* not renewed again, and who passed the end of the cleanup has nothing    *)
(* left to come.  So the slot and the hold, which are given back after     *)
(* that, outlast everything that they stand for.                           *)
(***************************************************************************)

Fresh(r) ==
  /\ r \notin cleaning \cup renders /\ final[r] = "none"
  /\ res[r] = [k \in Kinds |-> "none"]
  /\ beat[r] = [hold |-> "off", session |-> "off"]

RenderSound(r) ==
  /\ IF stage[r] \in {"new", "refused"} THEN Fresh(r) ELSE final[r] # "done" => r \in renders
  /\ r \in cleaning <=> stage[r] \in {"grace", "failing", "leased", "rejected"}
  /\ r \in cleaning => /\ \A k \in Kinds : res[r][k] \notin {"pending", "open"}
                       /\ beat[r].session \in {"off", "last"}
  /\ r \in ended => r \in cleaning /\ beat[r].session = "off"
  /\ delivery[r] = "active" <=> final[r] = "none"
  /\ final[r] # "none" => r \in cleaning /\ beat[r].hold \in {"off", "last"}
  /\ stage[r] = "leased" \/ final[r] \in {"hold", "done"} => CleanupOver(r)
  /\ hold[r] = "released" => final[r] \in {"hold", "done"} /\ beat[r].hold = "off"
  /\ final[r] = "done" => hold[r] = "released"
  /\ r \in lost => delivery[r] # "active"

RendersSound == \A r \in Renders : RenderSound(r)
RendersCounted == IsFiniteSet(renders) /\ Cardinality(renders) <= Slots

RendererInv == RendererTypeOK /\ RendersSound /\ RendersCounted

\* Nothing of the render changes.
Untouched(s) ==
  /\ stage'[s] = stage[s] /\ res'[s] = res[s] /\ beat'[s] = beat[s]
  /\ delivery'[s] = delivery[s] /\ final'[s] = final[s] /\ hold'[s] = hold[s]
  /\ s \in cleaning' <=> s \in cleaning
  /\ s \in ended' <=> s \in ended
  /\ s \in lost' <=> s \in lost
  /\ s \in renders' <=> s \in renders

LEMMA UntouchedSound ==
  ASSUME NEW s \in Renders, RenderSound(s), Untouched(s)
  PROVE  RenderSound(s)'
  BY DEF RenderSound, Untouched, Fresh, CleanupOver

\* A step of one render: its own types and what is true of it.
BeatType == [hold : {"off", "on", "renewing", "last"}, session : {"off", "on", "renewing", "last"}]

LEMMA Standing ==
  RendererTypeOK <=>
    /\ stage \in [Renders -> Stages] /\ res \in [Renders -> [Kinds -> Resource]]
    /\ cleaning \subseteq Renders /\ ended \subseteq Renders /\ lost \subseteq Renders
    /\ renders \subseteq Renders
    /\ beat \in [Renders -> BeatType]
    /\ delivery \in [Renders -> {"active", "completed", "aborted"}]
    /\ final \in [Renders -> {"none", "waiting", "hold", "done"}]
    /\ hold \in [Renders -> {"held", "released"}]
    /\ \A r \in Renders :
         /\ res[r]["context"] # "none" => res[r]["browser"] \notin {"none", "pending"}
         /\ res[r]["page"] # "none" => res[r]["context"] \notin {"none", "pending"}
  BY DEF RendererTypeOK, BeatType

\* A step of one render keeps the types and the count, leaves the others alone and
\* keeps what is true of that render.
Moved(r) ==
  /\ RendererTypeOK' /\ RendersCounted'
  /\ \A s \in Renders \ {r} : Untouched(s)
  /\ RenderSound(r)'

\* A render is counted when it starts, while there is room, and until its last step.
LEMMA CountKept ==
  ASSUME RendererAssumption, RendererInv, NEW r \in Renders,
         \/ renders' = renders
         \/ renders' = renders \cup {r} /\ Cardinality(renders) < Slots
         \/ renders' = renders \ {r}
  PROVE  RendersCounted'
<1>1. IsFiniteSet(renders) /\ Cardinality(renders) \in Nat /\ Slots \in Nat /\ Cardinality(renders) <= Slots
  BY FS_CardinalityType DEF RendererInv, RendersCounted, RendererAssumption
<1>2. CASE renders' = renders
  BY <1>1, <1>2 DEF RendersCounted
<1>3. CASE renders' = renders \cup {r} /\ Cardinality(renders) < Slots
  <2>1. IsFiniteSet(renders') /\ Cardinality(renders') <= Cardinality(renders) + 1 /\ Cardinality(renders') \in Nat
    <3>1. /\ IsFiniteSet(renders \cup {r})
          /\ Cardinality(renders \cup {r}) = IF r \in renders THEN Cardinality(renders) ELSE Cardinality(renders) + 1
      BY <1>1, FS_AddElement
    <3>2. QED
      BY <1>1, <1>3, <3>1
  <2>2. QED
    BY <1>1, <1>3, <2>1 DEF RendersCounted
<1>4. CASE renders' = renders \ {r}
  <2>1. IsFiniteSet(renders') /\ Cardinality(renders') <= Cardinality(renders) /\ Cardinality(renders') \in Nat
    BY <1>1, <1>4, FS_RemoveElement, FS_CardinalityType
  <2>2. QED
    BY <1>1, <2>1 DEF RendersCounted
<1>5. QED
  BY <1>2, <1>3, <1>4

LEMMA StartMoves ==
  ASSUME RendererAssumption, RendererInv, NEW r \in Renders, Start(r)
  PROVE  Moved(r)
<1>1. RendersCounted'
  <2>1. Cardinality(renders) \in Nat /\ Slots \in Nat
    BY FS_CardinalityType DEF RendererInv, RendersCounted, RendererAssumption
  <2>2. QED
    BY <2>1, CountKept DEF Start
<1>2. CASE Cardinality(renders) >= Slots
  <2>1. /\ stage[r] = "new" /\ stage' = [stage EXCEPT ![r] = "refused"]
        /\ UNCHANGED <<res, beat, renders, cleaning, ended, lost, delivery, final, hold>>
    BY <1>2 DEF Start
  <2>2. \A s \in Renders \ {r} : Untouched(s)
    BY <2>1 DEF Untouched, RendererInv, RendererTypeOK
  <2>3. stage'[r] = "refused" /\ RenderSound(r)
    BY <2>1 DEF RendererInv, RendererTypeOK, RendersSound
  <2>4. RenderSound(r)'
    BY <2>1, <2>3 DEF RenderSound, Fresh, CleanupOver
  <2>5. RendererTypeOK'
    BY <2>1 DEF RendererTypeOK, RendererInv, Stages
  <2>6. QED
    BY <1>1, <2>2, <2>4, <2>5 DEF Moved
<1>3. CASE ~(Cardinality(renders) >= Slots)
  <2>1. stage[r] = "new" /\ RenderSound(r) /\ Fresh(r)
    BY DEF Start, RendererInv, RendersSound, RenderSound
  <2>2. /\ renders' = renders \cup {r} /\ stage' = [stage EXCEPT ![r] = "browser"]
        /\ res' = [res EXCEPT ![r]["browser"] = "pending"] /\ beat' = [beat EXCEPT ![r].hold = "on"]
        /\ UNCHANGED <<cleaning, ended, lost, delivery, final, hold>>
    BY <1>3 DEF Start
  <2>3. /\ res'[r] = [k \in Kinds |-> IF k = "browser" THEN "pending" ELSE "none"]
        /\ beat'[r] = [hold |-> "on", session |-> "off"] /\ stage'[r] = "browser"
    <3>1. res'[r] = [res[r] EXCEPT !["browser"] = "pending"] /\ beat'[r] = [beat[r] EXCEPT !.hold = "on"]
      BY <2>2 DEF RendererInv, RendererTypeOK
    <3>2. res'[r] = [k \in Kinds |-> IF k = "browser" THEN "pending" ELSE "none"]
      BY <2>1, <3>1 DEF Fresh, Kinds
    <3>3. beat'[r] = [hold |-> "on", session |-> "off"]
      BY <2>1, <3>1 DEF Fresh
    <3>4. stage'[r] = "browser"
      BY <2>2 DEF RendererInv, RendererTypeOK
    <3>5. QED
      BY <3>2, <3>3, <3>4
  <2>4. \A s \in Renders \ {r} : Untouched(s)
    BY <2>2 DEF Untouched, RendererInv, RendererTypeOK
  <2>5. RenderSound(r)'
    BY <2>1, <2>2, <2>3 DEF RenderSound, Fresh, CleanupOver, Kinds
  <2>6. RendererTypeOK'
    BY <2>1, <2>2, <2>3 DEF RendererTypeOK, RendererInv, Kinds, Resource, Stages
  <2>7. QED
    BY <1>1, <2>4, <2>5, <2>6 DEF Moved
<1>4. QED
  BY <1>2, <1>3

LEMMA AcquireMoves ==
  ASSUME RendererAssumption, RendererInv, NEW r \in Renders, NEW k \in Kinds, Acquire(r, k)
  PROVE  Moved(r)
<1>1. /\ stage' = [stage EXCEPT ![r] = After(k)] /\ res[r][k] = "pending" /\ stage[r] = k
      /\ res' = [res EXCEPT ![r] = [j \in Kinds |-> CASE j = k -> "open"
                                                      [] j = After(k) -> "pending"
                                                      [] OTHER -> res[r][j]]]
      /\ beat' = IF k = "page" THEN [beat EXCEPT ![r].session = "on"] ELSE beat
      /\ UNCHANGED <<cleaning, ended, lost, delivery, final, hold, renders>>
  BY DEF Acquire
<1>2. After(k) \in {"context", "page", "rendering"} /\ (After(k) = "context" <=> k = "browser") /\ (After(k) = "page" <=> k = "context")
  BY DEF After, Kinds
<1>3. RendersCounted'
  BY <1>1, CountKept
<1>4. \A s \in Renders \ {r} : Untouched(s)
  BY <1>1 DEF Untouched, RendererInv, RendererTypeOK
<1>5. RenderSound(r)'
  BY <1>1, <1>2 DEF RendererInv, RendererTypeOK, RendersSound, RenderSound, Fresh, CleanupOver, Kinds
<1>6. RendererTypeOK'
  <2>1. res'[r] \in [Kinds -> Resource] /\ stage'[r] \in Stages
    BY <1>1, <1>2 DEF RendererInv, RendererTypeOK, Resource, Stages
  <2>2. /\ res'[r]["context"] # "none" => res'[r]["browser"] \notin {"none", "pending"}
        /\ res'[r]["page"] # "none" => res'[r]["context"] \notin {"none", "pending"}
    BY <1>1, <1>2 DEF RendererInv, RendererTypeOK, Kinds
  <2>3. \A s \in Renders \ {r} : res'[s] = res[s]
    BY <1>1 DEF RendererInv, RendererTypeOK
  <2>4. res' \in [Renders -> [Kinds -> Resource]] /\ stage' \in [Renders -> Stages]
    BY <1>1, <2>1 DEF RendererInv, RendererTypeOK
  <2>5. \A s \in Renders :
         /\ res'[s]["context"] # "none" => res'[s]["browser"] \notin {"none", "pending"}
         /\ res'[s]["page"] # "none" => res'[s]["context"] \notin {"none", "pending"}
    BY <2>2, <2>3 DEF RendererInv, RendererTypeOK
  <2>6. beat' \in [Renders -> BeatType]
    BY <1>1, Standing DEF RendererInv, BeatType
  <2>7. QED
    BY <1>1, <2>4, <2>5, <2>6, Standing DEF RendererInv, RendererTypeOK, BeatType
<1>7. QED
  BY <1>3, <1>4, <1>5, <1>6 DEF Moved

LEMMA LeaseMoves ==
  ASSUME RendererAssumption, RendererInv, NEW r \in Renders, Lease(r)
  PROVE  Moved(r)
<1>1. RendersCounted' /\ \A s \in Renders \ {r} : Untouched(s)
  <2>1. renders' = renders
    BY DEF Lease
  <2>2. QED
    BY <2>1, CountKept DEF Lease, Finalized, Untouched, RendererInv, RendererTypeOK
<1>2. RenderSound(r) /\ stage[r] = "grace"
  BY DEF Lease, RendererInv, RendersSound
<1>3. CASE CleanupOver(r)
  <2>1. /\ stage' = [stage EXCEPT ![r] = "leased"]
        /\ UNCHANGED <<res, cleaning, ended, lost, hold, renders, delivery, final, beat>>
    BY <1>3 DEF Lease
  <2>2. stage'[r] = "leased"
    BY <2>1 DEF RendererInv, RendererTypeOK
  <2>3. RenderSound(r)'
    BY <1>2, <1>3, <2>1, <2>2 DEF RenderSound, CleanupOver
  <2>4. RendererTypeOK'
    BY <2>1 DEF RendererInv, RendererTypeOK, Stages
  <2>5. QED
    BY <1>1, <2>3, <2>4 DEF Moved
<1>4. CASE ~CleanupOver(r)
  <2>1. /\ stage' = [stage EXCEPT ![r] = "rejected"] /\ Finalized(r, "aborted")
        /\ UNCHANGED <<res, cleaning, ended, lost, hold, renders>>
    BY <1>4 DEF Lease
  <2>2. RendererTypeOK'
    BY <2>1 DEF Finalized, Stopped, RendererInv, RendererTypeOK, Stages
  <2>3. RenderSound(r)'
    BY <1>2, <2>1 DEF Finalized, Stopped, RenderSound, CleanupOver, RendererInv, RendererTypeOK
  <2>4. QED
    BY <1>1, <2>2, <2>3 DEF Moved
<1>5. QED
  BY <1>3, <1>4

LEMMA RendererSteps ==
  ASSUME RendererAssumption, RendererInv, NEW r \in Renders,
         \/ Start(r) \/ Fail(r) \/ Abort(r) \/ Rendered(r)
         \/ \E k \in Kinds : Acquire(r, k) \/ ArrivesLate(r, k)
         \/ \E kind \in {"completed", "aborted"} : GiveBack(r, kind)
         \/ \E b \in {"hold", "session"} : Beat(r, b) \/ BeatRefused(r, b)
         \/ GoesOn(r)
  PROVE  Moved(r)
<1>1. CASE Start(r)
  BY <1>1, StartMoves
<1>2. ASSUME NEW k \in Kinds, Acquire(r, k) PROVE Moved(r)
  BY <1>2, AcquireMoves
<1> USE DEF RendererInv, RendererTypeOK, RenderSound, RendersSound, RendersCounted, Kinds, Resource, Stages,
            CleanupOver, Fresh, Untouched, Moved
<1>3. CASE Fail(r)
  BY <1>3 DEF Fail, Clean, CleanedRes, SessionStopped, Stopped, Working
<1>4. CASE Abort(r)
  BY <1>4 DEF Abort, Aborted, Clean, CleanedRes, Finalized, Stopped, Working
<1>5. CASE Rendered(r)
  BY <1>5 DEF Rendered, Clean, CleanedRes, SessionStopped, Stopped, Working
<1>6. ASSUME NEW k \in Kinds, ArrivesLate(r, k) PROVE Moved(r)
  BY <1>6 DEF ArrivesLate
<1>7. ASSUME NEW kind \in {"completed", "aborted"}, GiveBack(r, kind) PROVE Moved(r)
  BY <1>7 DEF GiveBack, Finalized, Stopped
<1>8. ASSUME NEW b \in {"hold", "session"}, Beat(r, b) PROVE Moved(r)
  BY <1>8 DEF Beat
<1>9. ASSUME NEW b \in {"hold", "session"}, BeatRefused(r, b) PROVE Moved(r)
  BY <1>9 DEF BeatRefused, Clean, CleanedRes, Stopped, Working
<1>10. ASSUME NEW k \in Kinds, Close(r, k) PROVE Moved(r)
  BY <1>10 DEF Close
<1>11. CASE DisposeSession(r)
  BY <1>11 DEF DisposeSession, SessionQuiet
<1>12. CASE FinalHold(r)
  BY <1>12 DEF FinalHold
<1>13. CASE ReleaseHold(r)
  BY <1>13 DEF ReleaseHold, HoldQuiet
<1>14. CASE ReleaseSlot(r)
  <2>1. RendersCounted'
    BY <1>14, CountKept DEF ReleaseSlot
  <2> HIDE DEF RendersCounted
  <2>2. QED
    BY <1>14, <2>1 DEF ReleaseSlot
<1>15. CASE Lease(r)
  BY <1>15, LeaseMoves
<1>16. CASE Reject(r)
  BY <1>16 DEF Reject, Finalized, Stopped
<1>17. ASSUME NEW b \in {"hold", "session"}, BeatAnswered(r, b) PROVE Moved(r)
  <2>1. RendererTypeOK' /\ RendersCounted'
    BY <1>17 DEF BeatAnswered, Answered
  <2>2. QED
    BY <1>17, <2>1 DEF BeatAnswered, Answered
<1>18. QED
  <2> HIDE DEF RendererInv, RendererTypeOK, RenderSound, RendersSound, RendersCounted, Kinds, Resource, Stages,
               CleanupOver, Fresh, Untouched, Moved
  <2>1. CASE GoesOn(r)
    BY <2>1, <1>10, <1>11, <1>12, <1>13, <1>14, <1>15, <1>16, <1>17 DEF GoesOn
  <2>2. QED
    BY <1>1, <1>2, <1>3, <1>4, <1>5, <1>6, <1>7, <1>8, <1>9, <2>1

LEMMA RendererInvariance == ASSUME RendererAssumption PROVE RendererSpec => []RendererInv
<1>1. ASSUME RendererInit PROVE RendererInv
  BY <1>1, FS_EmptySet DEF RendererInit, RendererInv, RendererTypeOK, RendersSound, RenderSound, RendersCounted, Fresh,
     CleanupOver, Kinds, Resource, Stages, All, RendererAssumption
<1>2. ASSUME RendererInv, [RendererNext]_rendererVars PROVE RendererInv'
  <2>1. ASSUME NEW r \in Renders, Moved(r) PROVE RendererInv'
    <3>1. \A s \in Renders \ {r} : RenderSound(s)'
      BY <1>2, <2>1, UntouchedSound DEF Moved, RendererInv, RendersSound
    <3>2. QED
      BY <2>1, <3>1 DEF Moved, RendererInv, RendersSound
  <2>2. CASE RendererNext
    BY <1>2, <2>1, <2>2, RendererSteps DEF RendererNext
  <2>3. CASE UNCHANGED rendererVars
    BY <1>2, <2>3 DEF rendererVars, RendererInv, RendererTypeOK, RendersSound, RenderSound, RendersCounted, Fresh, CleanupOver
  <2>4. QED
    BY <1>2, <2>2, <2>3
<1>3. QED
  BY <1>1, <1>2, PTL DEF RendererSpec

\* For any number of renders and slots, whatever fails, is aborted or arrives late: a browser that
\* exists or may still come is counted, and nothing is renewed behind its release.
THEOREM RendersAlwaysAccounted == ASSUME RendererAssumption PROVE RendererSpec => []RendersAccounted
<1>1. ASSUME RendererInv PROVE RendersAccounted
  <2>1. BrowsersCounted
    BY <1>1 DEF BrowsersCounted, RendererInv, RendererTypeOK, RendersSound, RenderSound, RendersCounted, Fresh,
       CleanupOver, Kinds, Resource, Stages
  <2>2. HeldWhileRendered /\ NoRenewalAfterDispose /\ LeaseIsClean
    BY <1>1 DEF HeldWhileRendered, NoRenewalAfterDispose, LeaseIsClean, RendererInv, RendererTypeOK, RendersSound,
       RenderSound, CleanupOver, Kinds, Resource, Stages
  <2>3. QED
    BY <1>1, <2>1, <2>2 DEF RendersAccounted, RendererInv
<1>2. QED
  BY <1>1, RendererInvariance, PTL

----------------------------------------------------------------------------
(***************************************************************************)
(* The render session: the inductive invariant                             *)
(*                                                                         *)
(* A session that is gone does not come back.  So whoever was charged was  *)
(* charged to one claim, as often as the session counted while it was      *)
(* there; and a bundle that is there after its render was put back by a    *)
(* claim that looked at it before.                                         *)
(***************************************************************************)

Charged(kind) == {q \in Requests : KindOf[q] = kind /\ at[q].pc \in {"serve", "served"}}
BudgetOf(kind) == IF kind = "projection" THEN 1 ELSE MaxResources
CountOf(kind) == IF kind = "projection" THEN session.projections ELSE session.resources

ChargesCounted ==
  \A kind \in {"projection", "resource"} :
    /\ IsFiniteSet(Charged(kind))
    /\ Cardinality(Charged(kind)) <= IF session.state = "absent" THEN BudgetOf(kind) ELSE CountOf(kind)

\* Where a request is says what it has seen.
RequestSound(q) ==
  /\ at[q].pc \in {"again", "claim", "set"} => at[q].nonce = None
  /\ at[q].pc \in {"debit", "serve", "served"} => at[q].nonce # None
  /\ at[q].pc \in {"again", "claim", "set", "debit", "serve", "served"} => q \in Good
RequestsSound == \A q \in Requests : RequestSound(q)

OneClaim ==
  /\ \A q \in Requests : at[q].pc \in {"serve", "served"} =>
       session.state # "open" /\ (session.state = "claimed" => at[q].nonce = session.nonce)
  /\ \A p, q \in Requests : at[p].pc \in {"serve", "served"} /\ at[q].pc \in {"serve", "served"} =>
       at[p].nonce = at[q].nonce

PutBackByClaim == over /\ ~raced => ~bundle.there /\ ~Claiming

SessionInv == SessionTypeOK /\ ChargesCounted /\ RequestsSound /\ OneClaim /\ PutBackByClaim

\* A step that charges nobody new and leaves the session, or ends it.
LEMMA NothingCharged ==
  ASSUME RequestsAssumption, SessionInv, session' = session \/ session' = Gone,
         \A q \in Requests : at'[q].pc \in {"serve", "served"} <=> at[q].pc \in {"serve", "served"},
         \A q \in Requests : at'[q].pc \in {"serve", "served"} => at'[q].nonce = at[q].nonce
  PROVE  ChargesCounted' /\ OneClaim'
<1>1. \A kind : Charged(kind)' = Charged(kind)
  BY DEF Charged
<1>2. session.projections \in Nat /\ session.resources \in Nat /\ session.projections <= 1
      /\ session.resources <= MaxResources /\ MaxResources \in Nat
  BY DEF SessionInv, SessionTypeOK, RequestsAssumption
<1>3. ChargesCounted'
  <2>1. ASSUME NEW kind \in {"projection", "resource"}
        PROVE  /\ IsFiniteSet(Charged(kind)')
               /\ Cardinality(Charged(kind)') <= IF session'.state = "absent" THEN BudgetOf(kind) ELSE CountOf(kind)'
    <3>1. /\ Cardinality(Charged(kind)) \in Nat /\ CountOf(kind) \in Nat /\ CountOf(kind) <= BudgetOf(kind)
          /\ BudgetOf(kind) \in Nat
      BY <1>2, FS_CardinalityType DEF SessionInv, ChargesCounted, CountOf, BudgetOf
    <3>2. Cardinality(Charged(kind)) <= IF session.state = "absent" THEN BudgetOf(kind) ELSE CountOf(kind)
      BY DEF SessionInv, ChargesCounted
    <3>3. CASE session' = session
      BY <1>1, <3>2, <3>3 DEF CountOf, SessionInv, ChargesCounted
    <3>4. CASE session' = Gone
      BY <1>1, <3>1, <3>2, <3>4 DEF Gone, SessionInv, ChargesCounted
    <3>5. QED
      BY <3>3, <3>4
  <2>2. QED
    BY <2>1 DEF ChargesCounted, BudgetOf
<1>4. OneClaim'
  BY DEF OneClaim, SessionInv, Gone
<1>5. QED
  BY <1>3, <1>4

LEMMA DisposeKeeps ==
  ASSUME RequestsAssumption, SessionInv, Dispose,
         \A q \in Requests : \/ at'[q] = at[q]
                             \/ at'[q].pc = "refused" /\ at[q].pc \notin {"serve", "served"},
         over' \in BOOLEAN, at' \in [Requests -> [pc : Pcs, nonce : Requests \cup {None}]]
  PROVE  SessionInv'
<1>1. session' = session \/ session' = Gone
  BY DEF Dispose
<1>2. ChargesCounted' /\ OneClaim'
  BY <1>1, NothingCharged
<1>3. RequestsSound'
  BY DEF RequestsSound, RequestSound, SessionInv
<1>4. PutBackByClaim'
  <2>1. ASSUME over', ~raced' PROVE ~Claiming'
    BY <2>1 DEF Dispose, Claiming
  <2>2. QED
    BY <2>1 DEF PutBackByClaim, Dispose, NoBundle
<1>5. SessionTypeOK'
  BY <1>1 DEF SessionTypeOK, SessionInv, Dispose, NoBundle, Gone, RequestsAssumption
<1>6. QED
  BY <1>2, <1>3, <1>4, <1>5 DEF SessionInv

\* A request goes on, from a place that is not charged to another.
LEMMA GoingOn ==
  ASSUME RequestsAssumption, SessionInv, NEW q \in Requests,
         UNCHANGED <<bundle, over, raced>>, session' = session \/ session' = Gone,
         NEW pc \in Pcs, at' = [at EXCEPT ![q].pc = pc],
         \/ at[q].pc = "token" /\ pc = "again" /\ at[q].nonce = None /\ q \in Good
         \/ at[q].pc = "token" /\ pc = "debit" /\ at[q].nonce # None /\ q \in Good
         \/ at[q].pc = "again" /\ pc = "claim"
         \/ at[q].pc = "serve" /\ pc = "served"
         \/ at[q].pc \in {"new", "again", "claim"} /\ pc = "refused"
         \/ at[q].pc = "debit" /\ pc = "close"
  PROVE  SessionInv'
<1>1. \A p \in Requests : at'[p] = IF p = q THEN [at[p] EXCEPT !.pc = pc] ELSE at[p]
  BY DEF SessionInv, SessionTypeOK
<1>2. SessionTypeOK'
  BY DEF SessionTypeOK, SessionInv, Gone, RequestsAssumption
<1>3. ChargesCounted' /\ OneClaim'
  <2>1. \A p \in Requests : at'[p].pc \in {"serve", "served"} <=> at[p].pc \in {"serve", "served"}
    BY <1>1 DEF SessionInv, SessionTypeOK
  <2>2. \A p \in Requests : at'[p].nonce = at[p].nonce
    BY <1>1 DEF SessionInv, SessionTypeOK
  <2>3. QED
    BY <2>1, <2>2, NothingCharged
<1>4. RequestsSound'
  <2>1. ASSUME NEW p \in Requests PROVE RequestSound(p)'
    BY <1>1 DEF SessionInv, SessionTypeOK, RequestsSound, RequestSound
  <2>2. QED
    BY <2>1 DEF RequestsSound
<1>5. PutBackByClaim'
  <2>1. Claiming' => Claiming
    BY <1>1 DEF Claiming, SessionInv, SessionTypeOK
  <2>2. QED
    BY <2>1 DEF PutBackByClaim, SessionInv
<1>6. QED
  BY <1>2, <1>3, <1>4, <1>5 DEF SessionInv

LEMMA LookKeeps ==
  ASSUME RequestsAssumption, SessionInv, NEW q \in Requests, Look(q)
  PROVE  SessionInv'
<1>1. CASE ~bundle.there
  <2>1. at' = [at EXCEPT ![q].pc = "refused"] /\ at[q].pc = "new" /\ UNCHANGED <<bundle, session, over, raced>>
    BY <1>1 DEF Look
  <2>2. QED
    BY <2>1, GoingOn DEF Pcs
<1>2. CASE bundle.there
  <2>1. /\ at' = [at EXCEPT ![q] = [pc |-> "token", nonce |-> bundle.nonce]] /\ at[q].pc = "new"
        /\ UNCHANGED <<bundle, session, over, raced>>
    BY <1>2 DEF Look
  <2>2. \A p \in Requests : at'[p] = IF p = q THEN [pc |-> "token", nonce |-> bundle.nonce] ELSE at[p]
    BY <2>1 DEF SessionInv, SessionTypeOK
  <2>3. SessionTypeOK'
    BY <2>1 DEF SessionTypeOK, SessionInv, Pcs
  <2>4. ChargesCounted' /\ OneClaim'
    BY <2>1, <2>2, NothingCharged
  <2>5. RequestsSound'
    BY <2>2 DEF RequestsSound, RequestSound, SessionInv
  <2>6. PutBackByClaim'
    BY <1>2, <2>1 DEF PutBackByClaim, SessionInv
  <2>7. QED
    BY <2>3, <2>4, <2>5, <2>6 DEF SessionInv
<1>3. QED
  BY <1>1, <1>2

LEMMA TokenKeeps ==
  ASSUME RequestsAssumption, SessionInv, NEW q \in Requests, Token(q)
  PROVE  SessionInv'
<1>1. CASE session.state # "absent" /\ q \in Good
  <2>1. PICK pc \in {"again", "debit"} : pc = IF at[q].nonce = None THEN "again" ELSE "debit"
    OBVIOUS
  <2>2. at' = [at EXCEPT ![q].pc = pc] /\ at[q].pc = "token" /\ UNCHANGED <<bundle, session, over, raced>>
    BY <1>1, <2>1 DEF Token, To
  <2>3. QED
    BY <1>1, <2>1, <2>2, GoingOn DEF Pcs
<1>2. CASE ~(session.state # "absent" /\ q \in Good)
  <2>1. Dispose /\ at' = [at EXCEPT ![q].pc = "refused"] /\ at[q].pc = "token" /\ UNCHANGED over
    BY <1>2 DEF Token, Refuse, To
  <2>2. over' \in BOOLEAN /\ at' \in [Requests -> [pc : Pcs, nonce : Requests \cup {None}]]
    BY <2>1 DEF SessionInv, SessionTypeOK, Pcs
  <2>3. \A p \in Requests : \/ at'[p] = at[p]
                            \/ at'[p].pc = "refused" /\ at[p].pc \notin {"serve", "served"}
    BY <2>1 DEF SessionInv, SessionTypeOK
  <2>4. QED
    BY <2>1, <2>2, <2>3, DisposeKeeps
<1>3. QED
  BY <1>1, <1>2

LEMMA AgainKeeps ==
  ASSUME RequestsAssumption, SessionInv, NEW q \in Requests, Again(q)
  PROVE  SessionInv'
<1>1. PICK pc \in {"claim", "refused"} : at' = [at EXCEPT ![q].pc = pc]
  BY DEF Again, To, Refuse
<1>2. at[q].pc = "again" /\ UNCHANGED <<bundle, over, raced>> /\ (session' = session \/ session' = Gone)
  BY DEF Again, Refuse
<1>3. QED
  BY <1>1, <1>2, GoingOn DEF Pcs

LEMMA ClaimKeeps ==
  ASSUME RequestsAssumption, SessionInv, NEW q \in Requests, Claim(q)
  PROVE  SessionInv'
<1>1. CASE ~MayClaim
  <2>1. at' = [at EXCEPT ![q].pc = "refused"] /\ at[q].pc = "claim" /\ UNCHANGED <<bundle, session, over, raced>>
    BY <1>1 DEF Claim, To, Refuse
  <2>2. QED
    BY <2>1, GoingOn DEF Pcs
<1>2. CASE MayClaim
  <2>1. /\ session' = [session EXCEPT !.state = "claimed", !.nonce = q] /\ session.state = "open"
        /\ at' = [at EXCEPT ![q].pc = "set"] /\ at[q].pc = "claim" /\ UNCHANGED <<bundle, over, raced>>
    BY <1>2 DEF Claim, To, MayClaim
  <2>2. \A p \in Requests : at'[p] = IF p = q THEN [at[p] EXCEPT !.pc = "set"] ELSE at[p]
    BY <2>1 DEF SessionInv, SessionTypeOK
  <2>3. /\ session'.state = "claimed" /\ session'.nonce = q
        /\ session'.projections = session.projections /\ session'.resources = session.resources
    BY <2>1 DEF SessionInv, SessionTypeOK
  <2>4. SessionTypeOK'
    <3>1. session' = [state |-> "claimed", nonce |-> q, projections |-> session.projections,
                      resources |-> session.resources]
      BY <2>1 DEF SessionInv, SessionTypeOK
    <3>2. /\ session.projections \in 0..1 /\ session.resources \in 0..MaxResources /\ q # None
          /\ bundle' = bundle /\ over' = over /\ raced' = raced
      BY <2>1 DEF SessionInv, SessionTypeOK, RequestsAssumption
    <3>3. at' \in [Requests -> [pc : Pcs, nonce : Requests \cup {None}]]
      BY <2>1 DEF SessionInv, SessionTypeOK, Pcs
    <3>4. QED
      BY <3>1, <3>2, <3>3 DEF SessionTypeOK, SessionInv
  <2>5. \A p \in Requests : at'[p].pc \in {"serve", "served"} <=> at[p].pc \in {"serve", "served"}
    BY <2>1, <2>2 DEF SessionInv, SessionTypeOK
  <2>6. ChargesCounted'
    <3>1. \A kind : Charged(kind)' = Charged(kind) /\ CountOf(kind)' = CountOf(kind)
      BY <2>3, <2>5 DEF Charged, CountOf
    <3>2. QED
      BY <2>1, <2>3, <3>1 DEF ChargesCounted, SessionInv
  <2>7. OneClaim'
    BY <2>1, <2>2, <2>3, <2>5 DEF OneClaim, SessionInv
  <2>8. RequestsSound'
    BY <2>1, <2>2 DEF RequestsSound, RequestSound, SessionInv, SessionTypeOK
  <2>9. PutBackByClaim'
    <3>1. Claiming' => Claiming
      BY <2>1, <2>2 DEF Claiming, SessionInv, SessionTypeOK
    <3>2. QED
      BY <2>1, <3>1 DEF PutBackByClaim, SessionInv
  <2>10. QED
    BY <2>4, <2>6, <2>7, <2>8, <2>9 DEF SessionInv
<1>3. QED
  BY <1>1, <1>2

LEMMA SetClaimedKeeps ==
  ASSUME RequestsAssumption, SessionInv, NEW q \in Requests, SetClaimed(q)
  PROVE  SessionInv'
<1>1. /\ at[q].pc = "set" /\ bundle' = [there |-> TRUE, nonce |-> q]
      /\ at' = [at EXCEPT ![q] = [pc |-> "debit", nonce |-> q]] /\ UNCHANGED <<session, over, raced>>
  BY DEF SetClaimed
<1>2. \A p \in Requests : at'[p] = IF p = q THEN [pc |-> "debit", nonce |-> q] ELSE at[p]
  BY <1>1 DEF SessionInv, SessionTypeOK
<1>3. at[q].nonce = None /\ q \in Good
  BY <1>1 DEF SessionInv, RequestsSound, RequestSound
<1>4. SessionTypeOK'
  BY <1>1 DEF SessionTypeOK, SessionInv, Pcs
<1>5. ChargesCounted' /\ OneClaim'
  BY <1>1, <1>2, NothingCharged
<1>6. RequestsSound'
  BY <1>2, <1>3 DEF RequestsSound, RequestSound, SessionInv, RequestsAssumption
<1>7. PutBackByClaim'
  BY <1>1, <1>3 DEF PutBackByClaim, Claiming, SessionInv
<1>8. QED
  BY <1>4, <1>5, <1>6, <1>7 DEF SessionInv

\* The one step that charges: to a session that is claimed by the nonce of the request.
LEMMA DebitKeeps ==
  ASSUME RequestsAssumption, SessionInv, NEW q \in Requests, Debit(q)
  PROVE  SessionInv'
<1>1. CASE ~(session.state = "claimed" /\ session.nonce = at[q].nonce) \/ ~Within(q)
  <2>1. /\ at' = [at EXCEPT ![q].pc = "close"] /\ at[q].pc = "debit" /\ UNCHANGED <<bundle, over, raced>>
        /\ session' = session \/ session' = Gone
    BY <1>1 DEF Debit, To
  <2>2. QED
    BY <2>1, GoingOn DEF Pcs
<1>2. CASE session.state = "claimed" /\ session.nonce = at[q].nonce /\ Within(q)
  <2>1. /\ session' = Counted(q) /\ at' = [at EXCEPT ![q].pc = "serve"] /\ at[q].pc = "debit"
        /\ UNCHANGED <<bundle, over, raced>>
    BY <1>2 DEF Debit, To
  <2>2. \A p \in Requests : at'[p] = IF p = q THEN [at[p] EXCEPT !.pc = "serve"] ELSE at[p]
    BY <2>1 DEF SessionInv, SessionTypeOK
  <2>3. KindOf[q] \in {"projection", "resource"}
    BY DEF RequestsAssumption
  <2>4. /\ session.projections \in 0..1 /\ session.resources \in 0..MaxResources /\ MaxResources \in Nat
        /\ session'.state = "claimed" /\ session'.nonce = session.nonce
        /\ session'.projections = IF KindOf[q] = "projection" THEN session.projections + 1 ELSE session.projections
        /\ session'.resources = IF KindOf[q] = "resource" THEN session.resources + 1 ELSE session.resources
    BY <1>2, <2>1, <2>3 DEF Counted, SessionInv, SessionTypeOK, RequestsAssumption
  <2>5. SessionTypeOK'
    <3>1. session'.projections \in 0..1 /\ session'.resources \in 0..MaxResources
      BY <1>2, <2>3, <2>4 DEF Within
    <3>2. session' = [state |-> "claimed", nonce |-> session.nonce, projections |-> session'.projections,
                      resources |-> session'.resources]
      BY <1>2, <2>1, <2>3, <2>4 DEF Counted, SessionInv, SessionTypeOK
    <3>3. session.nonce \in Requests /\ None \notin Requests
      BY <1>2 DEF SessionInv, SessionTypeOK, RequestsAssumption
    <3>4. at' \in [Requests -> [pc : Pcs, nonce : Requests \cup {None}]]
      BY <2>1 DEF SessionInv, SessionTypeOK, Pcs
    <3>5. QED
      BY <2>1, <3>1, <3>2, <3>3, <3>4 DEF SessionTypeOK, SessionInv
  <2>6. ChargesCounted'
    <3>1. ASSUME NEW kind \in {"projection", "resource"}
          PROVE  IsFiniteSet(Charged(kind)') /\ Cardinality(Charged(kind)') <= CountOf(kind)'
      <4>1. IsFiniteSet(Charged(kind)) /\ Cardinality(Charged(kind)) \in Nat
            /\ Cardinality(Charged(kind)) <= CountOf(kind) /\ CountOf(kind) \in Nat
        BY <1>2, <2>4, FS_CardinalityType DEF SessionInv, ChargesCounted, CountOf
      <4>2. CASE KindOf[q] = kind
        <5>1. Charged(kind)' = Charged(kind) \cup {q}
          BY <2>1, <2>2, <4>2 DEF Charged, SessionInv, SessionTypeOK
        <5>2. /\ IsFiniteSet(Charged(kind) \cup {q})
              /\ Cardinality(Charged(kind) \cup {q}) <= Cardinality(Charged(kind)) + 1
              /\ Cardinality(Charged(kind) \cup {q}) \in Nat
          BY <4>1, FS_AddElement, FS_CardinalityType
        <5>3. CountOf(kind)' = CountOf(kind) + 1
          BY <2>3, <2>4, <4>2 DEF CountOf
        <5>4. QED
          BY <4>1, <5>1, <5>2, <5>3
      <4>3. CASE KindOf[q] # kind
        <5>1. Charged(kind)' = Charged(kind)
          BY <2>1, <2>2, <4>3 DEF Charged, SessionInv, SessionTypeOK
        <5>2. CountOf(kind)' = CountOf(kind)
          BY <2>3, <2>4, <4>3 DEF CountOf
        <5>3. QED
          BY <4>1, <5>1, <5>2
      <4>4. QED
        BY <4>2, <4>3
    <3>2. QED
      BY <2>4, <3>1 DEF ChargesCounted
  <2>7. OneClaim'
    <3>1. \A p \in Requests : at'[p].pc \in {"serve", "served"} => at'[p].nonce = session.nonce
      BY <1>2, <2>1, <2>2 DEF OneClaim, SessionInv, SessionTypeOK
    <3>2. QED
      BY <2>4, <3>1 DEF OneClaim
  <2>8. RequestsSound'
    BY <2>1, <2>2 DEF RequestsSound, RequestSound, SessionInv, SessionTypeOK
  <2>9. PutBackByClaim'
    <3>1. Claiming' => Claiming
      BY <2>1, <2>2 DEF Claiming, SessionInv, SessionTypeOK
    <3>2. QED
      BY <2>1, <3>1 DEF PutBackByClaim, SessionInv
  <2>10. QED
    BY <2>5, <2>6, <2>7, <2>8, <2>9 DEF SessionInv
<1>3. QED
  BY <1>1, <1>2

LEMMA SessionInvariance == ASSUME RequestsAssumption PROVE SessionSpec => []SessionInv
<1>1. ASSUME SessionInit PROVE SessionInv
  <2>1. SessionTypeOK
    <3>1. session = [state |-> "open", nonce |-> None, projections |-> 0, resources |-> 0]
      BY <1>1 DEF SessionInit, Gone
    <3>2. 0 \in 0..1 /\ 0 \in 0..MaxResources
      BY DEF RequestsAssumption
    <3>3. /\ bundle \in [there : BOOLEAN, nonce : Requests \cup {None}] /\ over \in BOOLEAN /\ raced \in BOOLEAN
          /\ at \in [Requests -> [pc : Pcs, nonce : Requests \cup {None}]]
      BY <1>1 DEF SessionInit, Pcs
    <3>4. QED
      BY <3>1, <3>2, <3>3 DEF SessionTypeOK
  <2>2. \A kind : Charged(kind) = {}
    BY <1>1 DEF SessionInit, Charged
  <2>3. ChargesCounted
    BY <1>1, <2>2, FS_EmptySet DEF SessionInit, Gone, ChargesCounted, CountOf
  <2>4. RequestsSound /\ OneClaim /\ PutBackByClaim
    BY <1>1 DEF SessionInit, RequestsSound, RequestSound, OneClaim, PutBackByClaim
  <2>5. QED
    BY <2>1, <2>3, <2>4 DEF SessionInv
<1>2. ASSUME SessionInv, [SessionNext]_sessionVars PROVE SessionInv'
  <2>1. CASE DisposeForGood
    <3>1. Dispose /\ over' = TRUE /\ at' = at
      BY <2>1 DEF DisposeForGood
    <3>2. QED
      BY <1>2, <3>1, DisposeKeeps DEF SessionInv, SessionTypeOK
  <2>2. CASE Lapse
    <3>1. session' = Gone /\ UNCHANGED <<bundle, at, over, raced>>
      BY <2>2 DEF Lapse
    <3>2. ChargesCounted' /\ OneClaim'
      BY <1>2, <3>1, NothingCharged
    <3>3. QED
      BY <1>2, <3>1, <3>2 DEF SessionInv, SessionTypeOK, RequestsSound, RequestSound, PutBackByClaim, Claiming, Gone,
         RequestsAssumption
  <2>3. ASSUME NEW q \in Requests, DisposeAfter(q) PROVE SessionInv'
    <3>1. Dispose /\ at' = [at EXCEPT ![q].pc = "refused"] /\ at[q].pc = "close" /\ over' = over
      BY <2>3 DEF DisposeAfter, Refuse, To
    <3>2. over' \in BOOLEAN /\ at' \in [Requests -> [pc : Pcs, nonce : Requests \cup {None}]]
      BY <1>2, <3>1 DEF SessionInv, SessionTypeOK, Pcs
    <3>3. \A p \in Requests : \/ at'[p] = at[p]
                              \/ at'[p].pc = "refused" /\ at[p].pc \notin {"serve", "served"}
      BY <1>2, <3>1 DEF SessionInv, SessionTypeOK
    <3>4. QED
      BY <1>2, <3>1, <3>2, <3>3, DisposeKeeps
  <2>4. ASSUME NEW q \in Requests, Serve(q) PROVE SessionInv'
    <3>1. at' = [at EXCEPT ![q].pc = "served"] /\ at[q].pc = "serve" /\ UNCHANGED <<bundle, session, over, raced>>
      BY <2>4 DEF Serve, To
    <3>2. QED
      BY <1>2, <3>1, GoingOn DEF Pcs
  <2>5. CASE UNCHANGED sessionVars
    <3>1. ChargesCounted' /\ OneClaim'
      BY <1>2, <2>5, NothingCharged DEF sessionVars
    <3>2. QED
      BY <1>2, <2>5, <3>1 DEF sessionVars, SessionInv, SessionTypeOK, RequestsSound, RequestSound, PutBackByClaim, Claiming
  <2>6. QED
    BY <1>2, <2>1, <2>2, <2>3, <2>4, <2>5, LookKeeps, TokenKeeps, AgainKeeps, ClaimKeeps, SetClaimedKeeps, DebitKeeps
       DEF SessionNext
<1>3. QED
  BY <1>1, <1>2, PTL DEF SessionSpec

\* For any requests of the page, budgets, lapses and disposals: what is served stays within the
\* budget of one claim, and a bundle outlives its render only by a claim that was under way.
THEOREM OneClaimIsAlwaysServed == ASSUME RequestsAssumption PROVE SessionSpec => []OneClaimIsServed
<1>1. ASSUME SessionInv PROVE OneClaimIsServed
  <2>1. ASSUME NEW kind \in {"projection", "resource"}
        PROVE  Cardinality({q \in Requests : KindOf[q] = kind /\ at[q].pc = "served"}) <= BudgetOf(kind)
    <3> DEFINE Served == {q \in Requests : KindOf[q] = kind /\ at[q].pc = "served"}
    <3>1. /\ IsFiniteSet(Charged(kind)) /\ Cardinality(Charged(kind)) \in Nat
          /\ Cardinality(Charged(kind)) <= IF session.state = "absent" THEN BudgetOf(kind) ELSE CountOf(kind)
      BY <1>1, FS_CardinalityType DEF SessionInv, ChargesCounted
    <3>2. CountOf(kind) \in Nat /\ BudgetOf(kind) \in Nat /\ CountOf(kind) <= BudgetOf(kind)
      BY <1>1 DEF CountOf, BudgetOf, SessionInv, SessionTypeOK, RequestsAssumption
    <3>3. Served \subseteq Charged(kind)
      BY DEF Charged
    <3>4. Cardinality(Served) <= Cardinality(Charged(kind)) /\ Cardinality(Served) \in Nat
      BY <3>1, <3>3, FS_Subset, FS_CardinalityType
    <3>5. QED
      BY <3>1, <3>2, <3>4
  <2>2. ServedWithinBudget
    <3>1. /\ Cardinality({q \in Requests : KindOf[q] = "projection" /\ at[q].pc = "served"}) <= BudgetOf("projection")
          /\ Cardinality({q \in Requests : KindOf[q] = "resource" /\ at[q].pc = "served"}) <= BudgetOf("resource")
      BY <2>1
    <3>2. QED
      BY <3>1 DEF ServedWithinBudget, BudgetOf
  <2>3. OneClaimServes
    BY <1>1 DEF OneClaimServes, SessionInv, OneClaim, RequestsSound, RequestSound
  <2>4. LeftOnlyByClaim
    BY <1>1 DEF LeftOnlyByClaim, SessionInv, PutBackByClaim
  <2>5. QED
    BY <1>1, <2>2, <2>3, <2>4 DEF OneClaimIsServed, SessionInv
<1>2. QED
  BY <1>1, SessionInvariance, PTL

----------------------------------------------------------------------------
(***************************************************************************)
(* The packages of a shared board: the inductive invariant                 *)
(*                                                                         *)
(* Whoever waits does so once, and only while every slot is taken; so a    *)
(* slot that comes free goes to as many different handles as the count     *)
(* says.                                                                   *)
(***************************************************************************)

Granted == {h \in Handles : st[h] = "granted"}
Distinct(s) == \A i, j \in 1..Len(s) : s[i] = s[j] => i = j

HandlesSound ==
  /\ \A h \in slotted : h \notin left /\ st[h] \in {"fetching", "certified"}
  /\ PackageCleared

Closed == closed => left = Handles /\ waiters = <<>> /\ slotted = {}

SlotsCounted == ~closed => IsFiniteSet(slotted \cup Granted) /\ active = Cardinality(slotted \cup Granted)

Places == {"idle", "waiting", "granted", "fetching", "certified", "over"}

SlotsInv == SlotsTypeOK /\ HandlesSound /\ Closed /\ Distinct(waiters) /\ QueueServed /\ SlotsCounted

\* As many handles are granted a slot as are taken from the queue.
LEMMA GrantsDistinct ==
  ASSUME NEW queue \in Seq(Handles), Distinct(queue), NEW n \in 0..Len(queue)
  PROVE  LET taken == {queue[i] : i \in 1..n} IN IsFiniteSet(taken) /\ Cardinality(taken) = n
<1> DEFINE taken == {queue[i] : i \in 1..n}
           f == [i \in 1..n |-> queue[i]]
<1>1. n \in Nat /\ Len(queue) \in Nat /\ n <= Len(queue) /\ 1..n \subseteq 1..Len(queue)
  OBVIOUS
<1>2. f \in Bijection(1..n, taken)
  <2>1. \A i \in 1..n : queue[i] \in taken
    OBVIOUS
  <2>2. f \in [1..n -> taken]
    BY <2>1
  <2>3. \A a, b \in 1..n : f[a] = f[b] => a = b
    BY <1>1 DEF Distinct
  <2>4. \A y \in taken : \E a \in 1..n : f[a] = y
    OBVIOUS
  <2> HIDE DEF f, taken
  <2>5. f \in Injection(1..n, taken)
    BY <2>2, <2>3 DEF Injection, IsInjective
  <2>6. f \in Surjection(1..n, taken)
    BY <2>2, <2>4 DEF Surjection
  <2>7. QED
    BY <2>5, <2>6 DEF Bijection
<1>3. IsFiniteSet(1..n) /\ Cardinality(1..n) = n
  BY <1>1, FS_Interval
<1>4. QED
  BY <1>2, <1>3, FS_Bijection DEF ExistsBijection

\* The place of a waiter that leaves is closed up.
LEMMA LeavingKeepsQueue ==
  ASSUME waiters \in Seq(Handles), Distinct(waiters), NEW h
  PROVE  /\ Leaves(h) \in Seq(Handles) /\ Distinct(Leaves(h)) /\ Len(Leaves(h)) <= Len(waiters)
         /\ \A i \in 1..Len(Leaves(h)) : Leaves(h)[i] # h /\ \E j \in 1..Len(waiters) : Leaves(h)[i] = waiters[j]
<1>1. CASE ~(\E i \in DOMAIN waiters : waiters[i] = h)
  BY <1>1 DEF Leaves
<1>2. CASE \E i \in DOMAIN waiters : waiters[i] = h
  <2>1. PICK x \in 1..Len(waiters) : x = CHOOSE i \in DOMAIN waiters : waiters[i] = h
    BY <1>2
  <2>2. waiters[x] = h
    BY <1>2, <2>1
  <2> DEFINE before == SubSeq(waiters, 1, x - 1)
             after == SubSeq(waiters, x + 1, Len(waiters))
  <2>3. Leaves(h) = before \o after
    BY <1>2, <2>1 DEF Leaves
  <2>4. Len(waiters) \in Nat /\ x \in Nat /\ 1 <= x /\ x <= Len(waiters)
    BY <2>1
  <2>5. /\ before \in Seq(Handles) /\ Len(before) = x - 1
        /\ \A i \in 1..(x - 1) : before[i] = waiters[i]
    <3>1. \A i \in 1..(x - 1) : waiters[i] \in Handles
      BY <2>4
    <3>2. \A i \in 1..(x - 1) : 1 + i - 1 = i
      BY <2>4
    <3>3. x - 1 - 1 + 1 = x - 1
      BY <2>4
    <3>4. QED
      BY <3>1, <3>2, <3>3, SubSeqProperties
  <2>6. /\ after \in Seq(Handles) /\ Len(after) = Len(waiters) - x
        /\ \A i \in 1..(Len(waiters) - x) : after[i] = waiters[x + i]
    <3>1. PICK m, last : m = x + 1 /\ last = Len(waiters)
      OBVIOUS
    <3>2. m \in Int /\ last \in Int /\ (\A i \in m..last : waiters[i] \in Handles) /\ after = SubSeq(waiters, m, last)
      BY <2>4, <3>1
    <3>3. /\ after \in Seq(Handles) /\ Len(after) = IF m <= last THEN last - m + 1 ELSE 0
          /\ \A i \in 1..(last - m + 1) : after[i] = waiters[m + i - 1]
      <4> HIDE DEF after
      <4>1. QED
        BY <3>2, SubSeqProperties
    <3>4. last - m + 1 = Len(waiters) - x /\ (~(m <= last) => Len(waiters) - x = 0)
      BY <2>4, <3>1
    <3>5. \A i \in 1..(last - m + 1) : m + i - 1 = x + i
      BY <2>4, <3>1
    <3>6. QED
      BY <3>3, <3>4, <3>5
  <2> HIDE DEF before, after
  <2>7. /\ Leaves(h) \in Seq(Handles) /\ Len(Leaves(h)) = Len(waiters) - 1
        /\ \A i \in 1..Len(Leaves(h)) : Leaves(h)[i] = IF i < x THEN waiters[i] ELSE waiters[i + 1]
    <3>1. Leaves(h) \in Seq(Handles) /\ Len(Leaves(h)) = Len(before) + Len(after)
      BY <2>3, <2>5, <2>6, ConcatProperties
    <3>2. Len(Leaves(h)) = Len(waiters) - 1
      BY <2>4, <2>5, <2>6, <3>1
    <3>3. \A i \in 1..(Len(before) + Len(after)) :
            Leaves(h)[i] = IF i <= Len(before) THEN before[i] ELSE after[i - Len(before)]
      BY <2>3, <2>5, <2>6, ConcatProperties
    <3>4. ASSUME NEW i \in 1..Len(Leaves(h)) PROVE Leaves(h)[i] = IF i < x THEN waiters[i] ELSE waiters[i + 1]
      <4>1. CASE i < x
        <5>1. i <= Len(before) /\ i \in 1..(x - 1)
          BY <2>4, <2>5, <3>2, <4>1
        <5>2. QED
          BY <2>5, <3>1, <3>3, <4>1, <5>1
      <4>2. CASE ~(i < x)
        <5>1. ~(i <= Len(before)) /\ i - Len(before) \in 1..(Len(waiters) - x) /\ x + (i - Len(before)) = i + 1
          BY <2>4, <2>5, <3>2, <4>2
        <5>2. QED
          BY <2>6, <3>1, <3>3, <4>2, <5>1
      <4>3. QED
        BY <4>1, <4>2
    <3>5. QED
      BY <3>1, <3>2, <3>4
  <2>8. Len(Leaves(h)) <= Len(waiters)
    BY <2>4, <2>7
  <2>9. \A i \in 1..Len(Leaves(h)) : Leaves(h)[i] # h /\ \E j \in 1..Len(waiters) : Leaves(h)[i] = waiters[j]
    BY <2>2, <2>4, <2>7 DEF Distinct
  <2>10. Distinct(Leaves(h))
    BY <2>4, <2>7 DEF Distinct
  <2>11. QED
    BY <2>7, <2>8, <2>9, <2>10
<1>3. QED
  BY <1>1, <1>2

\* What a slot that comes free finds, and what it leaves.
Taken(holders, states) == holders \cup {h \in Handles : states[h] = "granted"}

ReleaseReady(queue, states, holders) ==
  /\ queue \in Seq(Handles) /\ Distinct(queue) /\ states \in [Handles -> Places]
  /\ ~closed /\ active \in 0..MaxActive
  /\ \A i \in 1..Len(queue) : queue[i] \in Handles /\ states[queue[i]] = "waiting"
  /\ queue # <<>> => active = MaxActive
  /\ \A h \in holders : h \in Handles /\ states[h] # "waiting"
  /\ IsFiniteSet(Taken(holders, states)) /\ active = Cardinality(Taken(holders, states)) + 1

ReleaseDone(queue, states, holders) ==
  /\ st' \in [Handles -> Places] /\ active' \in 0..MaxActive /\ waiters' \in Seq(Handles) /\ Distinct(waiters')
  /\ waiters' # <<>> => active' = MaxActive
  /\ \A i \in 1..Len(waiters') : (\E j \in 1..Len(queue) : waiters'[i] = queue[j]) /\ st'[waiters'[i]] = "waiting"
  /\ \A h \in Handles : states[h] # "waiting" => st'[h] = states[h]
  /\ IsFiniteSet(Taken(holders, st')) /\ active' = Cardinality(Taken(holders, st'))

\* A slot that comes free goes to the first who wait.
LEMMA ReleaseKeeps ==
  ASSUME SlotsAssumption, NEW queue, NEW states, NEW holders,
         ReleaseReady(queue, states, holders), Release(queue, states)
  PROVE  ReleaseDone(queue, states, holders)
<1> USE DEF ReleaseReady
<1> DEFINE n == Grants(queue)
           new == {queue[i] : i \in 1..n}
           old == Taken(holders, states)
<1>1. MaxActive \in Nat /\ MaxActive > 0 /\ active \in Nat /\ active <= MaxActive /\ Len(queue) \in Nat /\ Cardinality(old) \in Nat
  BY FS_CardinalityType DEF SlotsAssumption
<1>2. active > 0 /\ Freed = active - 1 /\ Freed < MaxActive
  BY <1>1 DEF Freed
<1>3. n = IF Len(queue) < MaxActive - Freed THEN Len(queue) ELSE MaxActive - Freed
  BY <1>1, <1>2 DEF Grants
<1>4. n \in 0..Len(queue) /\ Freed + n <= MaxActive /\ (n < Len(queue) => Freed + n = MaxActive)
  <2> HIDE DEF n
  <2>1. PICK free : free = Freed
    OBVIOUS
  <2>2. free \in Nat /\ free < MaxActive
    BY <1>1, <1>2, <2>1
  <2>3. CASE Len(queue) < MaxActive - free
    BY <1>1, <1>3, <2>1, <2>2, <2>3
  <2>4. CASE ~(Len(queue) < MaxActive - free)
    BY <1>1, <1>3, <2>1, <2>2, <2>4
  <2>5. QED
    BY <2>3, <2>4
<1>5. /\ active' = Freed + n /\ waiters' = SubSeq(queue, n + 1, Len(queue))
      /\ st' = [h \in Handles |-> IF h \in new THEN "granted" ELSE states[h]]
  BY DEF Release
<1> HIDE DEF n
<1>6. IsFiniteSet(new) /\ Cardinality(new) = n
  BY <1>4, GrantsDistinct
<1>7. /\ waiters' \in Seq(Handles) /\ Len(waiters') = Len(queue) - n
      /\ \A i \in 1..Len(waiters') : waiters'[i] = queue[n + i]
  BY <1>1, <1>4, <1>5
<1>8. \A i \in 1..Len(waiters') : n + i \in 1..Len(queue) /\ waiters'[i] \notin new
  <2> SUFFICES ASSUME NEW i \in 1..Len(waiters')
               PROVE  n + i \in 1..Len(queue) /\ waiters'[i] \notin new
    OBVIOUS
  <2>1. n \in Nat /\ n <= Len(queue) /\ n + i \in 1..Len(queue)
    BY <1>1, <1>4, <1>7
  <2>2. \A k \in 1..n : k \in 1..Len(queue) /\ k # n + i
    BY <1>1, <2>1
  <2>3. \A k \in 1..n : queue[k] # queue[n + i]
    BY <2>1, <2>2 DEF Distinct
  <2>4. QED
    BY <1>7, <2>1, <2>3
<1>9. active' \in 0..MaxActive /\ (waiters' # <<>> => active' = MaxActive) /\ Distinct(waiters')
  <2>1. active' \in 0..MaxActive
    BY <1>1, <1>2, <1>4, <1>5
  <2>2. ASSUME waiters' # <<>> PROVE active' = MaxActive
    <3>1. Len(waiters') > 0
      BY <1>7, <2>2
    <3>2. QED
      BY <1>1, <1>4, <1>5, <1>7, <3>1
  <2>3. Distinct(waiters')
    BY <1>1, <1>4, <1>7, <1>8 DEF Distinct
  <2>4. QED
    BY <2>1, <2>2, <2>3
<1>10. \A h \in new : h \in Handles /\ states[h] = "waiting"
  BY <1>1, <1>4
<1>11. \A i \in 1..Len(waiters') : (\E j \in 1..Len(queue) : waiters'[i] = queue[j]) /\ st'[waiters'[i]] = "waiting"
  BY <1>5, <1>7, <1>8
<1>12. \A h \in Handles : states[h] # "waiting" => st'[h] = states[h]
  BY <1>5, <1>10
<1>13. Taken(holders, st') = old \cup new
  BY <1>5, <1>10 DEF Taken
<1>14. old \cap new = {}
  BY <1>10 DEF Taken
<1>15. IsFiniteSet(old \cup new) /\ Cardinality(old \cup new) = Cardinality(old) + n
  <2>1. IsFiniteSet(old) /\ active = Cardinality(old) + 1
    OBVIOUS
  <2>2. Cardinality(old \cap new) = 0
    BY <1>14, FS_EmptySet
  <2>3. /\ IsFiniteSet(old \cup new)
        /\ Cardinality(old \cup new) = Cardinality(old) + Cardinality(new) - Cardinality(old \cap new)
    BY <1>6, <2>1, FS_Union
  <2>4. QED
    BY <1>1, <1>4, <1>6, <2>2, <2>3
<1>16. active' = Cardinality(old \cup new)
  BY <1>1, <1>2, <1>4, <1>5, <1>15
<1>17. st' \in [Handles -> Places]
  BY <1>5 DEF Places
<1>18. QED
  BY <1>17, <1>7, <1>9, <1>11, <1>12, <1>13, <1>15, <1>16 DEF ReleaseDone

\* A handle that is disposed leaves the queue or its slot behind.
LEMMA DisposeKeepsSlots ==
  ASSUME SlotsAssumption, SlotsInv, NEW h \in Handles, NEW states \in [Handles -> Places], DisposeTo(h, states),
         \A g \in Handles : g # h => states[g] = st[g],
         states[h] # "waiting", states[h] = "granted" <=> st[h] = "granted"
  PROVE  SlotsInv'
<1> DEFINE queue == Leaves(h)
           taken == slotted \cup Granted
<1> USE DEF SlotsInv, SlotsTypeOK, HandlesSound, Closed, QueueServed, SlotsCounted, PackageCleared, Places
<1>1. /\ h \notin left /\ ~closed /\ left' = left \cup {h} /\ slotted' = slotted \ {h}
      /\ package' = [package EXCEPT ![h] = Cleared(@)] /\ closed' = closed
  BY DEF DisposeTo
<1>2. /\ queue \in Seq(Handles) /\ Distinct(queue) /\ Len(queue) <= Len(waiters)
      /\ \A i \in 1..Len(queue) : queue[i] # h /\ \E j \in 1..Len(waiters) : queue[i] = waiters[j]
  BY LeavingKeepsQueue
<1> HIDE DEF queue
<1>3. queue # <<>> => waiters # <<>>
  BY <1>2
<1>4. \A i \in 1..Len(queue) : queue[i] \in Handles /\ queue[i] \notin left' /\ states[queue[i]] = "waiting"
  BY <1>1, <1>2
<1>5. IsFiniteSet(taken) /\ active = Cardinality(taken)
  BY <1>1
<1>6. /\ package' \in [Handles -> {"none", "held", "cleared"}] /\ left' \subseteq Handles /\ slotted' \subseteq Handles
      /\ \A g \in left' : package'[g] # "held"
  BY <1>1 DEF Cleared
<1>7. CASE GivesBack(h)
  <2>1. h \in slotted /\ st[h] \in {"fetching", "certified"} /\ Release(queue, states)
    BY <1>7 DEF GivesBack, DisposeTo, queue
  <2> DEFINE rest == Taken(slotted', states)
  <2>2. rest = taken \ {h} /\ h \in taken
    BY <1>1, <2>1 DEF Granted, Taken
  <2>3. IsFiniteSet(rest) /\ active = Cardinality(rest) + 1
    <3> HIDE DEF rest, taken
    <3>1. IsFiniteSet(rest) /\ Cardinality(rest) = Cardinality(taken) - 1
      BY <1>5, <2>2, FS_RemoveElement
    <3>2. Cardinality(taken) \in Nat
      BY <1>5, FS_CardinalityType
    <3>3. QED
      BY <1>5, <3>1, <3>2
  <2>4. queue # <<>> => active = MaxActive
    BY <1>3
  <2>5. \A g \in slotted' : g \in Handles /\ states[g] # "waiting"
    BY <1>1
  <2>6. ReleaseReady(queue, states, slotted')
    BY <1>1, <1>2, <1>4, <2>3, <2>4, <2>5 DEF ReleaseReady
  <2>7. ReleaseDone(queue, states, slotted')
    <3>1. PICK q, s, holders : q = queue /\ s = states /\ holders = slotted'
      OBVIOUS
    <3>2. ReleaseDone(q, s, holders)
      <4>1. ReleaseReady(q, s, holders) /\ Release(q, s)
        BY <2>1, <2>6, <3>1
      <4>2. QED
        BY <4>1, ReleaseKeeps
    <3>3. QED
      BY <3>1, <3>2
  <2>8. QueueServed'
    BY <1>4, <2>7 DEF ReleaseDone
  <2>9. HandlesSound'
    BY <1>1, <1>6, <2>7 DEF ReleaseDone
  <2>10. SlotsCounted'
    BY <2>7 DEF Granted, ReleaseDone, Taken
  <2>11. QED
    BY <1>1, <1>6, <2>7, <2>8, <2>9, <2>10 DEF ReleaseDone
<1>8. CASE ~GivesBack(h)
  <2>1. h \notin slotted /\ st' = states /\ waiters' = queue /\ active' = active
    BY <1>8 DEF GivesBack, DisposeTo, queue
  <2>2. slotted' \cup Granted' = taken
    BY <1>1, <2>1 DEF Granted
  <2>3. QueueServed'
    BY <1>3, <1>4, <2>1
  <2>4. HandlesSound'
    BY <1>1, <1>6, <2>1
  <2>5. SlotsCounted'
    BY <1>5, <2>1, <2>2
  <2>6. QED
    BY <1>1, <1>2, <1>6, <2>1, <2>3, <2>4, <2>5 DEF Distinct
<1>9. QED
  BY <1>7, <1>8

\* A handle asks for a slot.
LEMMA AskKeeps ==
  ASSUME SlotsAssumption, SlotsInv, NEW h \in Handles, AskSlot(h)
  PROVE  SlotsInv'
<1> DEFINE taken == slotted \cup Granted
<1> USE DEF SlotsInv, SlotsTypeOK, HandlesSound, Closed, QueueServed, SlotsCounted, PackageCleared
<1>1. /\ h \notin left /\ st[h] = "idle" /\ ~closed
      /\ UNCHANGED <<left, slotted, package, closed>>
  BY DEF AskSlot
<1>2. IsFiniteSet(taken) /\ active = Cardinality(taken) /\ h \notin taken
  BY <1>1 DEF Granted
<1>3. MaxActive \in Nat /\ active \in Nat /\ active <= MaxActive
  BY DEF SlotsAssumption
<1>4. CASE active < MaxActive
  <2>1. active' = active + 1 /\ st' = [st EXCEPT ![h] = "granted"] /\ waiters' = waiters
    BY <1>4 DEF AskSlot
  <2>2. waiters = <<>>
    BY <1>3, <1>4
  <2>3. slotted' \cup Granted' = taken \cup {h}
    BY <1>1, <2>1 DEF Granted
  <2>4. IsFiniteSet(taken \cup {h}) /\ Cardinality(taken \cup {h}) = Cardinality(taken) + 1
    BY <1>2, FS_AddElement
  <2>5. SlotsCounted'
    BY <1>2, <2>1, <2>3, <2>4
  <2>6. active' \in 0..MaxActive
    BY <1>3, <1>4, <2>1
  <2>7. HandlesSound' /\ QueueServed' /\ Distinct(waiters')
    BY <1>1, <2>1, <2>2 DEF Distinct
  <2>8. QED
    BY <1>1, <2>1, <2>5, <2>6, <2>7
<1>5. CASE ~(active < MaxActive)
  <2>1. waiters' = Append(waiters, h) /\ st' = [st EXCEPT ![h] = "waiting"] /\ active' = active
    BY <1>5 DEF AskSlot
  <2>2. active = MaxActive
    BY <1>3, <1>5
  <2>3. /\ waiters' \in Seq(Handles) /\ Len(waiters') = Len(waiters) + 1
        /\ \A i \in 1..Len(waiters) : waiters'[i] = waiters[i] /\ waiters[i] # h
        /\ waiters'[Len(waiters) + 1] = h
    BY <1>1, <2>1
  <2>4. Distinct(waiters')
    BY <2>3 DEF Distinct
  <2>5. \A i \in 1..Len(waiters') : waiters'[i] \notin left' /\ st'[waiters'[i]] = "waiting"
    BY <1>1, <2>1, <2>3
  <2>6. slotted' \cup Granted' = taken
    BY <1>1, <2>1 DEF Granted
  <2>7. SlotsCounted' /\ HandlesSound' /\ QueueServed'
    <3>1. SlotsCounted'
      BY <1>2, <2>1, <2>6
    <3>2. HandlesSound'
      BY <1>1, <2>1
    <3>3. QueueServed'
      BY <2>1, <2>2, <2>3, <2>5
    <3>4. QED
      BY <3>1, <3>2, <3>3
  <2>8. QED
    BY <1>1, <2>1, <2>3, <2>4, <2>7
<1>6. QED
  BY <1>4, <1>5

\* A handle goes on with its slot, or finds that it was disposed.
LEMMA ContinueKeeps ==
  ASSUME SlotsAssumption, SlotsInv, NEW h \in Handles, Continue(h)
  PROVE  SlotsInv'
<1> DEFINE taken == slotted \cup Granted
           states == [st EXCEPT ![h] = "over"]
<1> USE DEF SlotsInv, SlotsTypeOK, HandlesSound, Closed, QueueServed, SlotsCounted, PackageCleared, Places
<1>1. /\ st[h] = "granted" /\ h \notin slotted
      /\ UNCHANGED <<left, package, closed>>
  BY DEF Continue
<1>2. CASE ~Abandoned(h)
  <2>1. h \notin left /\ slotted' = slotted \cup {h} /\ st' = [st EXCEPT ![h] = "fetching"] /\ UNCHANGED <<active, waiters>>
    BY <1>2 DEF Abandoned, Continue
  <2>2. slotted' \cup Granted' = taken
    BY <1>1, <2>1 DEF Granted
  <2>3. SlotsCounted' /\ HandlesSound' /\ QueueServed'
    <3>1. SlotsCounted'
      BY <1>1, <2>1, <2>2
    <3>2. HandlesSound'
      BY <1>1, <2>1
    <3>3. QueueServed'
      BY <1>1, <2>1
    <3>4. QED
      BY <3>1, <3>2, <3>3
  <2>4. QED
    BY <1>1, <2>1, <2>3 DEF Distinct
<1>3. ASSUME Abandoned(h), closed PROVE SlotsInv'
  <2>1. h \in left /\ waiters = <<>> /\ slotted = {} /\ Grants(waiters) = 0 /\ slotted' = slotted
    BY <1>3 DEF Abandoned, Grants, Continue
  <2>2. active' = Freed + 0 /\ waiters' = SubSeq(waiters, 1, 0)
    BY <1>3, <2>1 DEF Continue, Release, Len
  <2>3. waiters' = <<>>
    BY <2>1, <2>2
  <2>4. \A g \in Handles : st'[g] \in Places
    BY <1>3, <2>1 DEF Continue, Release
  <2>5. st' \in [Handles -> Places]
    BY <1>3, <2>1, <2>4 DEF Continue, Release
  <2>6. active' \in 0..MaxActive
    BY <2>2 DEF Freed, SlotsAssumption
  <2>7. Distinct(waiters')
    BY <2>3 DEF Distinct
  <2>8. QED
    BY <1>1, <1>3, <2>1, <2>3, <2>5, <2>6, <2>7
<1>4. ASSUME Abandoned(h), ~closed PROVE SlotsInv'
  <2>1. h \in left /\ slotted' = slotted /\ Release(waiters, states)
    BY <1>4 DEF Abandoned, Continue
  <2>2. IsFiniteSet(taken) /\ active = Cardinality(taken) /\ h \in taken
    BY <1>1, <1>4 DEF Granted
  <2> DEFINE rest == Taken(slotted, states)
  <2>3. rest = taken \ {h}
    BY <1>1 DEF Granted, Taken
  <2>4. IsFiniteSet(rest) /\ active = Cardinality(rest) + 1
    <3> HIDE DEF rest, taken
    <3>1. IsFiniteSet(rest) /\ Cardinality(rest) = Cardinality(taken) - 1
      BY <2>2, <2>3, FS_RemoveElement
    <3>2. Cardinality(taken) \in Nat
      BY <2>2, FS_CardinalityType
    <3>3. QED
      BY <2>2, <3>1, <3>2
  <2>5. states \in [Handles -> Places] /\ \A g \in Handles : g # h => states[g] = st[g]
    OBVIOUS
  <2>6. states[h] = "over"
    OBVIOUS
  <2> HIDE DEF states
  <2>7. \A i \in 1..Len(waiters) : waiters[i] \in Handles /\ states[waiters[i]] = "waiting"
    BY <1>1, <2>5
  <2>8. \A g \in slotted : g \in Handles /\ states[g] # "waiting"
    BY <2>5, <2>6
  <2>9. ReleaseReady(waiters, states, slotted)
    BY <1>4, <2>4, <2>5, <2>7, <2>8 DEF ReleaseReady
  <2>10. ReleaseDone(waiters, states, slotted)
    <3>1. PICK q, s, holders : q = waiters /\ s = states /\ holders = slotted
      OBVIOUS
    <3>2. ReleaseDone(q, s, holders)
      <4>1. ReleaseReady(q, s, holders) /\ Release(q, s)
        BY <2>1, <2>9, <3>1
      <4>2. QED
        BY <4>1, ReleaseKeeps
    <3>3. QED
      BY <3>1, <3>2
  <2>11. QueueServed'
    <3> SUFFICES ASSUME NEW i \in 1..Len(waiters') PROVE waiters'[i] \notin left' /\ st'[waiters'[i]] = "waiting"
      BY <2>10 DEF ReleaseDone
    <3>1. PICK j \in 1..Len(waiters) : waiters'[i] = waiters[j]
      BY <2>10 DEF ReleaseDone
    <3>2. QED
      BY <1>1, <2>10, <3>1 DEF ReleaseDone
  <2>12. HandlesSound'
    BY <1>1, <2>1, <2>5, <2>6, <2>10 DEF ReleaseDone
  <2>13. SlotsCounted'
    BY <2>1, <2>10 DEF Granted, ReleaseDone, Taken
  <2>14. QED
    BY <1>1, <1>4, <2>1, <2>10, <2>11, <2>12, <2>13 DEF ReleaseDone
<1>5. QED
  BY <1>2, <1>3, <1>4

\* The answer of a fetch, and the end of the page.
LEMMA OtherSlotStepsKeep ==
  ASSUME SlotsAssumption, SlotsInv,
         (\E h \in Handles : Certify(h) \/ FetchFails(h) \/ GiveUp(h)) \/ CloseStore
  PROVE  SlotsInv'
<1>1. ASSUME NEW h \in Handles, Certify(h) PROVE SlotsInv'
  <2>1. Granted' = Granted
    BY <1>1 DEF Certify, Superseded, Granted, SlotsInv, SlotsTypeOK
  <2>2. st[h] = "fetching" /\ UNCHANGED <<left, slotted, active, waiters, closed>>
    BY <1>1 DEF Certify
  <2>3. SlotsCounted' /\ Closed' /\ Distinct(waiters')
    BY <2>1, <2>2 DEF SlotsInv, SlotsCounted, Closed, Distinct
  <2>4. SlotsTypeOK' /\ QueueServed' /\ HandlesSound'
    BY <1>1, <2>2 DEF Certify, Superseded, SlotsInv, SlotsTypeOK, QueueServed, HandlesSound, PackageCleared
  <2>5. QED
    BY <2>3, <2>4 DEF SlotsInv
<1>2. ASSUME NEW h \in Handles, FetchFails(h), h \in left PROVE SlotsInv'
  <2>1. /\ st[h] = "fetching" /\ st' = [st EXCEPT ![h] = "over"]
        /\ UNCHANGED <<left, slotted, package, active, waiters, closed>>
    BY <1>2 DEF FetchFails, DisposeTo
  <2>2. Granted' = Granted
    BY <2>1 DEF Granted, SlotsInv, SlotsTypeOK
  <2>3. SlotsCounted' /\ Closed' /\ Distinct(waiters')
    BY <2>1, <2>2 DEF SlotsInv, SlotsCounted, Closed, Distinct
  <2>4. SlotsTypeOK' /\ QueueServed' /\ HandlesSound'
    BY <1>2, <2>1 DEF SlotsInv, SlotsTypeOK, QueueServed, HandlesSound, PackageCleared
  <2>5. QED
    BY <2>3, <2>4 DEF SlotsInv
<1>3. ASSUME NEW h \in Handles, FetchFails(h), h \notin left PROVE SlotsInv'
  <2>1. PICK states : states = [st EXCEPT ![h] = "over"] /\ DisposeTo(h, states) /\ st[h] = "fetching"
    BY <1>3 DEF FetchFails
  <2>2. /\ states \in [Handles -> Places] /\ states[h] = "over"
        /\ \A g \in Handles : g # h => states[g] = st[g]
    BY <2>1 DEF SlotsInv, SlotsTypeOK, Places
  <2>3. QED
    BY <2>1, <2>2, DisposeKeepsSlots
<1>4. ASSUME NEW h \in Handles, GiveUp(h) PROVE SlotsInv'
  <2>1. PICK states : states = States(h) /\ DisposeTo(h, states)
    BY <1>4 DEF GiveUp
  <2>2. /\ states \in [Handles -> Places]
        /\ states[h] # "waiting" /\ (states[h] = "granted" <=> st[h] = "granted")
        /\ \A g \in Handles : g # h => states[g] = st[g]
    BY <2>1 DEF States, SlotsInv, SlotsTypeOK, Places
  <2>3. QED
    BY <2>1, <2>2, DisposeKeepsSlots
<1>5. ASSUME CloseStore PROVE SlotsInv'
  <2>1. /\ closed' = TRUE /\ left' = Handles /\ slotted' = {} /\ active' = 0 /\ waiters' = <<>>
        /\ package' = [h \in Handles |-> Cleared(package[h])]
        /\ st' = [h \in Handles |-> IF st[h] \in {"granted", "fetching"} THEN st[h] ELSE "over"]
    BY <1>5 DEF CloseStore
  <2>2. SlotsTypeOK'
    BY <2>1 DEF SlotsInv, SlotsTypeOK, Cleared, SlotsAssumption
  <2>3. HandlesSound' /\ QueueServed' /\ Closed' /\ SlotsCounted' /\ Distinct(waiters')
    BY <2>1 DEF SlotsInv, SlotsTypeOK, HandlesSound, PackageCleared, QueueServed, Closed, SlotsCounted, Distinct, Cleared
  <2>4. QED
    BY <2>2, <2>3 DEF SlotsInv
<1>6. QED
  BY <1>1, <1>2, <1>3, <1>4, <1>5

\* For any number of handles and slots: the active handshakes are exactly the
\* handles that have a slot or were just granted one, nobody waits beside a free
\* slot, and a handle that is disposed keeps no package.
THEOREM SlotsAreAlwaysExact ==
  ASSUME SlotsAssumption
  PROVE  SlotsSpec => []SlotsAreExact
<1>1. SlotsInit => SlotsInv
  <2> SUFFICES ASSUME SlotsInit PROVE SlotsInv
    OBVIOUS
  <2>1. /\ slotted \cup Granted = {} /\ waiters = <<>> /\ Len(waiters) = 0 /\ active = 0 /\ ~closed
        /\ left = {} /\ slotted = {}
    BY DEF SlotsInit, Granted
  <2>2. IsFiniteSet({}) /\ Cardinality({}) = 0
    BY FS_EmptySet
  <2>3. MaxActive \in Nat /\ <<>> \in Seq(Handles) /\ 0 \in 0..MaxActive
    BY DEF SlotsAssumption
  <2>4. SlotsTypeOK
    BY <2>3 DEF SlotsInit, SlotsTypeOK
  <2>5. HandlesSound /\ Closed
    BY <2>1 DEF HandlesSound, PackageCleared, Closed
  <2>6. Distinct(waiters) /\ QueueServed
    BY <2>1 DEF Distinct, QueueServed
  <2>7. SlotsCounted
    BY <2>1, <2>2 DEF SlotsCounted
  <2>8. QED
    BY <2>4, <2>5, <2>6, <2>7 DEF SlotsInv
<1>2. SlotsInv /\ [SlotsNext]_slotsVars => SlotsInv'
  <2> SUFFICES ASSUME SlotsInv, [SlotsNext]_slotsVars PROVE SlotsInv'
    OBVIOUS
  <2>1. CASE SlotsNext
    BY <2>1, AskKeeps, ContinueKeeps, OtherSlotStepsKeep DEF SlotsNext
  <2>2. CASE UNCHANGED slotsVars
    BY <2>2 DEF slotsVars, SlotsInv, SlotsTypeOK, HandlesSound, PackageCleared, Closed, Distinct, QueueServed,
                SlotsCounted, Granted
  <2>3. QED
    BY <2>1, <2>2
<1>3. SlotsInv => SlotsAreExact
  BY DEF SlotsInv, SlotsAreExact, SlotsExact, SlotsCounted, Granted, HandlesSound
<1>4. QED
  BY <1>1, <1>2, <1>3, PTL DEF SlotsSpec

----------------------------------------------------------------------------
(***************************************************************************)
(* The bridge: the inductive invariant                                     *)
(*                                                                         *)
(* While the package is handed over, at most one question or answer is on  *)
(* its way, and it is known which.  After that the runner is told nothing  *)
(* before it is active; the readiness of the script is announced once and  *)
(* in one place at a time; and whatever the host waits for, or the word    *)
(* that the runner is gone, is on its way.                                 *)
(***************************************************************************)

Carries(s, m) == \E i \in 1..Len(s) : s[i] = m
CarriesOnce(s, m) == \A i, j \in 1..Len(s) : s[i] = m /\ s[j] = m => i = j

Farewells == {Plain("peer.disposed"), Plain("protocol.error")}
LateMessages ==
  {Plain(t) : t \in {"package.ready", "artifact.ready", "pong", "authored", "request", "peer.disposed",
                     "protocol.error"}}
LatePosts == {Plain("ping"), Plain("control"), Plain("result")}
InnerMessages == {"authored", "request", "invalid", "artifact.ready", "peer.disposed"}

\* The runner is in a state, or hangs since; and what is on the way to it and from it.
Meets(state, asked, told) == outer \in {state, "hung"} /\ toOuter = asked /\ toHost = told

HandsOver ==
  /\ document = "none" /\ fromInner = <<>> /\ ~deaf /\ asking = 0 /\ refused # "early"
  /\ \/ /\ step \in {"metadata", "package", "confirm"} /\ chunks = 0 /\ received = 0
        /\ outer = "none" /\ toOuter = <<>> /\ toHost = <<>>
     \/ step = "frame" /\ chunks = 0 /\ received = 0 /\ Meets("bootstrap_wait", <<>>, <<>>)
     \/ /\ step = "runner" /\ chunks = 0 /\ received = 0
        /\ \/ Meets("bootstrap_wait", <<Plain("bootstrap")>>, <<>>)
           \/ Meets("ready", <<>>, <<Plain("runner.ready")>>)
     \/ /\ step = "ack" /\ chunks = 1 /\ received = 0
        /\ Meets("ready", <<Plain("package.start"), Msg("package.chunk", 0)>>, <<>>)
     \/ /\ step = "ack" /\ chunks \in 1..Chunks /\ received = chunks - 1
        /\ Meets("receiving", <<Msg("package.chunk", received)>>, <<>>)
     \/ /\ step = "ack" /\ chunks \in 1..Chunks /\ received = chunks
        /\ Meets("receiving", <<>>, <<Msg("package.ack", received)>>)
     \/ /\ step = "certified" /\ chunks = Chunks /\ received = Chunks
        /\ \/ Meets("receiving", <<Plain("package.end")>>, <<>>)
           \/ Meets("certified", <<>>, <<>>)

\* The script's readiness is announced once, and is somewhere on its way to the host.
ReadyOnce ==
  /\ CarriesOnce(toHost, Plain("artifact.ready")) /\ CarriesOnce(fromInner, "artifact.ready")
  /\ Carries(toHost, Plain("artifact.ready")) =>
       step # "running" /\ outer # "inner_handshake" /\ ~Carries(fromInner, "artifact.ready")
  /\ Carries(fromInner, "artifact.ready") => document = "ready" /\ step # "running"
  /\ document \in {"framed", "running", "disposed"} =>
       /\ ~Carries(toHost, Plain("artifact.ready")) /\ ~Carries(fromInner, "artifact.ready")
       /\ step # "running"

\* Whatever the host waits for comes, or the word that the runner is gone, unless the
\* runner hangs or does not hear its artifact.
SomethingComes ==
  /\ outer = "disposed" => \E m \in Farewells : Carries(toHost, m)
  /\ outer \in {"inner_handshake", "active"} /\ ~deaf /\ step # "running" =>
       \/ document \in {"framed", "running"}
       \/ Carries(toHost, Plain("artifact.ready"))
       \/ \E m \in {"artifact.ready", "peer.disposed"} : Carries(fromInner, m)
  /\ outer = "active" /\ deadline => Carries(toOuter, Plain("ping")) \/ Carries(toHost, Plain("pong"))

Runs ==
  /\ step \in {"certified", "artifact", "running"}
  /\ outer \in {"inner_handshake", "active", "hung", "disposed"}
  /\ chunks = Chunks /\ received = Chunks
  /\ toOuter \in Seq(LatePosts) /\ (step # "running" => toOuter \in Seq({Plain("result")}))
  /\ refused = "early" =>
       outer = "disposed" /\ step # "running" /\ ~Carries(toHost, Plain("artifact.ready"))
  /\ toHost \in Seq(LateMessages)
  /\ IF step = "certified"
     THEN toHost # <<>> /\ Head(toHost) = Plain("package.ready") /\ CarriesOnce(toHost, Plain("package.ready"))
     ELSE ~Carries(toHost, Plain("package.ready"))
  /\ step = "running" => outer # "inner_handshake"
  /\ outer = "disposed" => document = "none" /\ fromInner = <<>>
  /\ ReadyOnce /\ SomethingComes

Ended ==
  /\ step = "over" /\ outer = "none" /\ document = "none" /\ asking = 0
  /\ toOuter = <<>> /\ toHost = <<>> /\ fromInner = <<>>

BridgeInv ==
  /\ BridgeTypeOK
  /\ HandsOver \/ Runs \/ Ended
  /\ (shown = "active") = (step = "running")
  /\ deadline => step = "running"
  /\ ProtocolKept /\ PackageGivenBack

LEMMA MessageFacts ==
  /\ \A t : Plain(t).type = t /\ Plain(t).n = 0
  /\ \A t, u : Plain(t) = Plain(u) <=> t = u
  /\ \A t, k : Msg(t, k).type = t /\ Msg(t, k).n = k
BY DEF Plain, Msg

LEMMA NothingCarried == \A m : ~Carries(<<>>, m) /\ CarriesOnce(<<>>, m)
BY DEF Carries, CarriesOnce

LEMMA CarriesSent ==
  ASSUME NEW S, NEW s \in Seq(S), NEW e \in S
  PROVE  /\ Append(s, e) \in Seq(S) /\ Append(s, e) # <<>> /\ (s # <<>> => Head(Append(s, e)) = Head(s))
         /\ \A m : Carries(Append(s, e), m) <=> Carries(s, m) \/ e = m
         /\ \A m : CarriesOnce(s, m) /\ (e = m => ~Carries(s, m)) => CarriesOnce(Append(s, e), m)
<1>1. /\ Append(s, e) \in Seq(S) /\ Append(s, e) # <<>> /\ Len(Append(s, e)) = Len(s) + 1
      /\ \A i \in 1..Len(s) : Append(s, e)[i] = s[i]
      /\ Append(s, e)[Len(s) + 1] = e /\ Len(s) \in Nat
  BY AppendProperties, LenProperties
<1>2. s # <<>> => Head(Append(s, e)) = Head(s)
  BY <1>1, EmptySeq, LenProperties
<1>3. \A m : Carries(Append(s, e), m) <=> Carries(s, m) \/ e = m
  BY <1>1 DEF Carries
<1>4. \A m : CarriesOnce(s, m) /\ (e = m => ~Carries(s, m)) => CarriesOnce(Append(s, e), m)
  BY <1>1 DEF Carries, CarriesOnce
<1> QED BY <1>1, <1>2, <1>3, <1>4

LEMMA CarriesTaken ==
  ASSUME NEW S, NEW s \in Seq(S), s # <<>>
  PROVE  /\ Head(s) \in S /\ Tail(s) \in Seq(S)
         /\ \A m : Carries(s, m) <=> Head(s) = m \/ Carries(Tail(s), m)
         /\ \A m : CarriesOnce(s, m) =>
              CarriesOnce(Tail(s), m) /\ (Head(s) = m => ~Carries(Tail(s), m))
<1>1. /\ Head(s) \in S /\ Tail(s) \in Seq(S) /\ Len(s) \in Nat /\ Len(s) >= 1
      /\ Len(Tail(s)) = Len(s) - 1 /\ Head(s) = s[1]
      /\ \A i \in 1..Len(Tail(s)) : Tail(s)[i] = s[i + 1]
  BY HeadTailProperties, LenProperties, EmptySeq
<1>2. \A m : Carries(s, m) <=> Head(s) = m \/ Carries(Tail(s), m)
  <2> TAKE m
  <2>1. ASSUME NEW i \in 1..Len(s), s[i] = m PROVE Head(s) = m \/ Carries(Tail(s), m)
    <3>1. CASE i = 1
      BY <1>1, <2>1, <3>1
    <3>2. CASE i # 1
      <4>1. i - 1 \in 1..Len(Tail(s)) /\ Tail(s)[i - 1] = s[(i - 1) + 1] /\ (i - 1) + 1 = i
        BY <1>1, <3>2
      <4> QED BY <2>1, <4>1 DEF Carries
    <3> QED BY <3>1, <3>2
  <2>2. Head(s) = m => Carries(s, m)
    BY <1>1 DEF Carries
  <2>3. Carries(Tail(s), m) => Carries(s, m)
    BY <1>1 DEF Carries
  <2> QED BY <2>1, <2>2, <2>3 DEF Carries
<1>3. \A m : CarriesOnce(s, m) =>
        CarriesOnce(Tail(s), m) /\ (Head(s) = m => ~Carries(Tail(s), m))
  <2> SUFFICES ASSUME NEW m, CarriesOnce(s, m)
               PROVE  CarriesOnce(Tail(s), m) /\ (Head(s) = m => ~Carries(Tail(s), m))
    OBVIOUS
  <2>1. CarriesOnce(Tail(s), m)
    <3> SUFFICES ASSUME NEW i \in 1..Len(Tail(s)), NEW j \in 1..Len(Tail(s)),
                        Tail(s)[i] = m, Tail(s)[j] = m
                 PROVE  i = j
      BY DEF CarriesOnce
    <3>1. i + 1 \in 1..Len(s) /\ j + 1 \in 1..Len(s) /\ s[i + 1] = m /\ s[j + 1] = m
      BY <1>1
    <3>2. i + 1 = j + 1
      BY <3>1 DEF CarriesOnce
    <3> QED BY <3>2
  <2>2. ASSUME Head(s) = m, NEW i \in 1..Len(Tail(s)), Tail(s)[i] = m PROVE FALSE
    <3>1. i + 1 \in 1..Len(s) /\ 1 \in 1..Len(s) /\ s[i + 1] = m /\ s[1] = m
      BY <1>1, <2>2
    <3>2. i + 1 = 1
      BY <3>1 DEF CarriesOnce
    <3> QED BY <3>2
  <2> QED BY <2>1, <2>2 DEF Carries
<1> QED BY <1>1, <1>2, <1>3

\* The messages of the two ports.
LEMMA MessagesTyped ==
  ASSUME BridgeAssumption
  PROVE  /\ \A t \in {"bootstrap", "package.start", "package.end", "ping", "control", "result"} :
              Plain(t) \in HostMessages
         /\ \A k \in 0..(Chunks - 1) : Msg("package.chunk", k) \in HostMessages
         /\ LateMessages \cup {Plain("runner.ready")} \subseteq RunnerMessages
         /\ \A k \in 1..Chunks : Msg("package.ack", k) \in RunnerMessages
BY DEF Plain, Msg, HostMessages, RunnerMessages, LateMessages

LEMMA OneMessageMore ==
  ASSUME NEW S, NEW s \in Seq(S), NEW e \in S
  PROVE  s \o <<e>> = Append(s, e) /\ s \o <<>> = s
BY ConcatEmptySeq, AppendProperties, AppendIsConcat

\* However a run ends, everything of it is gone.
LEMMA CleanupEnds ==
  ASSUME BridgeAssumption, BridgeInv, NEW ends \in {"failed", "stopped"},
         NEW why \in {"stop", "load", "frame", "timeout", "watchdog", "peer.disposed", "protocol.error"},
         Cleanup(ends, why)
  PROVE  BridgeInv'
<1>1. BridgeTypeOK'
  <2>1. /\ <<>> \in Seq(HostMessages) /\ <<>> \in Seq(RunnerMessages)
        /\ <<>> \in Seq(InnerMessages)
    BY EmptySeq
  <2> QED BY <2>1 DEF Cleanup, BridgeInv, BridgeTypeOK, Released, InnerMessages
<1> QED BY <1>1 DEF Cleanup, BridgeInv, BridgeTypeOK, Ended, ProtocolKept, PackageGivenBack, Released

\* The host takes a message of the runner: it is expected.
LEMMA RunningHostTakes ==
  ASSUME BridgeAssumption, BridgeInv, Runs, HostTakes
  PROVE  BridgeInv'
<1> DEFINE m == Head(toHost)
<1>1. toHost # <<>> /\ step \in Waiting \cup {"running"}
  BY DEF HostTakes
<1>2. /\ m \in LateMessages /\ Tail(toHost) \in Seq(LateMessages) /\ Tail(toHost) \in Seq(RunnerMessages)
      /\ \A x : Carries(toHost, x) <=> m = x \/ Carries(Tail(toHost), x)
      /\ \A x : CarriesOnce(toHost, x) =>
           CarriesOnce(Tail(toHost), x) /\ (m = x => ~Carries(Tail(toHost), x))
  <2>1. toHost \in Seq(LateMessages) /\ toHost \in Seq(RunnerMessages)
    BY DEF Runs, BridgeInv, BridgeTypeOK
  <2> QED BY <1>1, <2>1, CarriesTaken
<1>3. PICK t \in {"package.ready", "artifact.ready", "pong", "authored", "request", "peer.disposed",
                 "protocol.error"} : m = Plain(t)
  BY <1>2 DEF LateMessages
<1>4. m.type = t /\ \A u : m = Plain(u) <=> t = u
  BY <1>3, MessageFacts
<1>5. t = "package.ready" <=> step = "certified"
  BY <1>2, <1>4, MessageFacts DEF Runs
<1>6. t = "artifact.ready" => step = "artifact"
  BY <1>2, <1>4, <1>5 DEF Runs, ReadyOnce
<1> HIDE DEF m
<1>7. CASE t \in {"pong", "authored", "request"}
  <2>1. /\ toHost' = Tail(toHost) /\ deadline' = (deadline /\ t # "pong")
        /\ asking' = IF t = "request" THEN asking + 1 ELSE asking
        /\ UNCHANGED <<step, shown, bytes, chunks, controls, cause, outerVars, innerVars, toOuter, fromInner>>
    BY <1>4, <1>5, <1>6, <1>7 DEF HostTakes, Awaited, Waiting, m, Runs, BridgeInv, BridgeTypeOK
  <2>2. BridgeTypeOK'
    BY <1>2, <2>1 DEF BridgeInv, BridgeTypeOK, outerVars, innerVars
  <2>3. Runs'
    <3>1. /\ \A x \in {"package.ready", "artifact.ready", "peer.disposed", "protocol.error"} :
               Carries(toHost, Plain(x)) <=> Carries(toHost', Plain(x))
          /\ CarriesOnce(toHost, Plain("artifact.ready")) => CarriesOnce(toHost', Plain("artifact.ready"))
          /\ t # "pong" => (Carries(toHost, Plain("pong")) <=> Carries(toHost', Plain("pong")))
      BY <1>2, <1>4, <1>7, <2>1
    <3>2. ReadyOnce'
      BY <3>1, <2>1 DEF Runs, ReadyOnce, outerVars, innerVars
    <3>3. SomethingComes'
      BY <1>7, <3>1, <2>1 DEF Runs, SomethingComes, Farewells, outerVars, innerVars
    <3> QED BY <1>2, <1>5, <1>7, <2>1, <3>1, <3>2, <3>3 DEF Runs, outerVars, innerVars
  <2> QED BY <1>5, <1>7, <2>1, <2>2, <2>3 DEF BridgeInv, ProtocolKept, PackageGivenBack, outerVars
<1>8. CASE t = "package.ready" \/ t = "artifact.ready"
  <2>1. Arrived(m) /\ step \in Waiting /\ t = Awaited[step]
    BY <1>4, <1>5, <1>6, <1>8 DEF HostTakes, Awaited, Waiting, m
  <2>2. /\ toHost' = Tail(toHost) /\ toOuter' = toOuter \o <<>>
        /\ step' = IF t = "package.ready" THEN "artifact" ELSE "running"
        /\ shown' = IF t = "package.ready" THEN "handshaking" ELSE "active"
        /\ bytes' = IF t = "package.ready" THEN bytes ELSE Released
        /\ UNCHANGED <<chunks, deadline, controls, asking, cause, outerVars, innerVars, fromInner>>
    BY <1>4, <1>8, <2>1 DEF Arrived, NextStep, Posts
  <2>3. toOuter' = toOuter
    BY <2>2, ConcatEmptySeq DEF Runs
  <2>4. BridgeTypeOK'
    BY <1>2, <2>2, <2>3 DEF BridgeInv, BridgeTypeOK, outerVars, innerVars, Released, Waiting
  <2>5. Runs'
    BY <1>2, <1>4, <1>5, <1>6, <1>8, <2>2, <2>3
       DEF Runs, ReadyOnce, SomethingComes, Farewells, outerVars, innerVars, BridgeInv
  <2>6. t = "artifact.ready" => refused # "early"
    BY <1>2, <1>4 DEF Runs
  <2> QED BY <1>5, <1>6, <1>8, <2>2, <2>4, <2>5, <2>6
          DEF BridgeInv, ProtocolKept, PackageGivenBack, outerVars, Released
<1>9. CASE t \in {"peer.disposed", "protocol.error"}
  <2>1. Cleanup("failed", t)
    BY <1>4, <1>9 DEF HostTakes, Awaited, Waiting, m
  <2> QED BY <1>9, <2>1, CleanupEnds
<1> QED BY <1>7, <1>8, <1>9

\* A message goes to the host behind the others.
ToldLate(t) ==
  /\ toHost' = Append(toHost, Plain(t))
  /\ toHost' # <<>> /\ toHost' \in Seq(LateMessages) /\ toHost' \in Seq(RunnerMessages)
  /\ toHost # <<>> => Head(toHost') = Head(toHost)
  /\ \A x : Carries(toHost', x) <=> Carries(toHost, x) \/ Plain(t) = x
  /\ \A x : CarriesOnce(toHost, x) /\ (Plain(t) = x => ~Carries(toHost, x)) => CarriesOnce(toHost', x)

LEMMA TellingLate ==
  ASSUME BridgeAssumption, BridgeInv, Runs,
         NEW t \in {"artifact.ready", "pong", "authored", "request", "peer.disposed", "protocol.error"},
         toHost' = Append(toHost, Plain(t))
  PROVE  ToldLate(t)
<1>1. Plain(t) \in LateMessages /\ Plain(t) \in RunnerMessages
  BY MessagesTyped DEF LateMessages
<1>2. toHost \in Seq(LateMessages) /\ toHost \in Seq(RunnerMessages)
  BY DEF Runs, BridgeInv, BridgeTypeOK
<1> QED BY <1>1, <1>2, CarriesSent DEF ToldLate

\* A runner that ends tells the host.
LEMMA DisposeKeepsRun ==
  ASSUME BridgeAssumption, BridgeInv, Runs, outer \in {"inner_handshake", "active"},
         NEW why \in {"early", "inner", "rate", "frame"}, why = "early" => outer = "inner_handshake",
         DisposeRunner(why)
  PROVE  BridgeInv'
<1> DEFINE t == IF why = "rate" THEN "protocol.error" ELSE "peer.disposed"
<1>1. /\ ToldLate(t) /\ toHost' = Append(toHost, Plain(t))
      /\ t \in {"peer.disposed", "protocol.error"}
  BY TellingLate DEF DisposeRunner
<1> HIDE DEF t
<1>2. BridgeTypeOK'
  <2>1. <<>> \in Seq(HostMessages) /\ <<>> \in Seq(InnerMessages)
    BY EmptySeq
  <2> QED BY <1>1, <2>1 DEF ToldLate, DisposeRunner, BridgeInv, BridgeTypeOK, hostVars, InnerMessages
<1>3. ReadyOnce'
  BY <1>1, NothingCarried, MessageFacts DEF ToldLate, DisposeRunner, Runs, ReadyOnce, hostVars
<1>4. SomethingComes'
  BY <1>1 DEF ToldLate, DisposeRunner, SomethingComes, Farewells
<1>5. Runs'
  <2>1. <<>> \in Seq(LatePosts) /\ <<>> \in Seq({Plain("result")})
    BY EmptySeq
  <2>2. (refused = "early" => outer = "disposed" /\ step # "running"
                                /\ ~Carries(toHost, Plain("artifact.ready")))'
    BY <1>1, MessageFacts DEF ToldLate, DisposeRunner, Runs, ReadyOnce, hostVars
  <2> QED BY <1>1, <1>3, <1>4, <2>1, <2>2, MessageFacts DEF ToldLate, DisposeRunner, Runs, hostVars
<1> QED BY <1>2, <1>5 DEF DisposeRunner, BridgeInv, Runs, ProtocolKept, PackageGivenBack, hostVars

\* Once the package is certified the runner is sent the results of requests, and pings
\* and controls when it is active.  A result that comes before that disposes it.
LEMMA RunningRunnerTakes ==
  ASSUME BridgeAssumption, BridgeInv, Runs, RunnerTakes
  PROVE  BridgeInv'
<1> DEFINE m == Head(toOuter)
<1>1. /\ toOuter # <<>> /\ outer \in {"inner_handshake", "active"}
      /\ outer = "inner_handshake" => step # "running"
  BY DEF Runs, RunnerTakes
<1>2. /\ m \in LatePosts /\ (step # "running" => m = Plain("result"))
      /\ Tail(toOuter) \in Seq(LatePosts) /\ Tail(toOuter) \in Seq(HostMessages)
      /\ step # "running" => Tail(toOuter) \in Seq({Plain("result")})
      /\ \A x : Carries(toOuter, x) <=> m = x \/ Carries(Tail(toOuter), x)
  <2>1. /\ toOuter \in Seq(LatePosts) /\ toOuter \in Seq(HostMessages)
        /\ step # "running" => toOuter \in Seq({Plain("result")})
    BY DEF Runs, BridgeInv, BridgeTypeOK
  <2>2. step # "running" => m \in {Plain("result")} /\ Tail(toOuter) \in Seq({Plain("result")})
    BY <1>1, <2>1, CarriesTaken
  <2> QED BY <1>1, <2>1, <2>2, CarriesTaken
<1>3. PICK t \in {"ping", "control", "result"} : m = Plain(t) /\ m.type = t
  BY <1>2, MessageFacts DEF LatePosts
<1>4. step # "running" => t = "result"
  BY <1>2, <1>3, MessageFacts
<1> HIDE DEF m
<1>5. CASE outer = "inner_handshake"
  <2>1. t = "result"
    BY <1>1, <1>4, <1>5
  <2>2. DisposeRunner("early")
    BY <1>1, <1>3, <1>5, <2>1 DEF RunnerTakes, m
  <2> QED BY <1>5, <2>2, DisposeKeepsRun
<1>6. CASE outer = "active"
  <2>1. Answer(outer, received, IF t = "ping" THEN <<Plain("pong")>> ELSE <<>>)
    BY <1>3, <1>6 DEF RunnerTakes, m
  <2>2. /\ outer' = outer /\ received' = received /\ toOuter' = Tail(toOuter)
        /\ toHost' = toHost \o (IF t = "ping" THEN <<Plain("pong")>> ELSE <<>>)
        /\ UNCHANGED <<hostVars, tokens, deaf, refused, innerVars, fromInner>>
    BY <2>1 DEF Answer
  <2>3. IF t = "ping" THEN ToldLate("pong") ELSE toHost' = toHost
    <3>1. Plain("pong") \in RunnerMessages /\ toHost \in Seq(RunnerMessages)
      BY MessagesTyped DEF LateMessages, BridgeInv, BridgeTypeOK
    <3>2. toHost' = IF t = "ping" THEN Append(toHost, Plain("pong")) ELSE toHost
      BY <2>2, <3>1, OneMessageMore
    <3> QED BY <3>2, TellingLate
  <2>4. BridgeTypeOK'
    BY <1>2, <2>2, <2>3 DEF ToldLate, BridgeInv, BridgeTypeOK, hostVars, innerVars
  <2>5. ReadyOnce'
    BY <2>2, <2>3, MessageFacts DEF ToldLate, Runs, ReadyOnce, hostVars, innerVars
  <2>6. SomethingComes'
    BY <1>2, <1>3, <1>6, <2>2, <2>3, MessageFacts DEF ToldLate, Runs, SomethingComes, hostVars, innerVars
  <2>7. Runs'
    BY <1>2, <1>6, <2>2, <2>3, <2>5, <2>6, MessageFacts DEF ToldLate, Runs, hostVars, innerVars
  <2> QED BY <2>2, <2>4, <2>7 DEF BridgeInv, ProtocolKept, PackageGivenBack, hostVars
<1> QED BY <1>1, <1>5, <1>6

\* The runner passes on what the artifact sends, or does not hear it.
LEMMA InnerHeard ==
  ASSUME BridgeAssumption, BridgeInv, Runs, RunnerHearsInner
  PROVE  BridgeInv'
<1> DEFINE m == Head(fromInner)
<1>1. fromInner # <<>> /\ outer \in {"inner_handshake", "active"} /\ ~Invalid
  BY DEF RunnerHearsInner
<1>2. CASE m = "peer.disposed" \/ tokens = 0
  <2>1. PICK why \in {"inner", "rate"} : DisposeRunner(why)
    BY <1>2 DEF RunnerHearsInner, Forward
  <2> QED BY <1>1, <2>1, DisposeKeepsRun
<1>3. CASE m # "peer.disposed" /\ tokens # 0
  <2>1. /\ m \in {"authored", "request", "artifact.ready"}
        /\ Tail(fromInner) \in Seq(InnerMessages)
        /\ \A x : Carries(fromInner, x) <=> m = x \/ Carries(Tail(fromInner), x)
        /\ \A x : CarriesOnce(fromInner, x) =>
             CarriesOnce(Tail(fromInner), x) /\ (m = x => ~Carries(Tail(fromInner), x))
    <3>1. fromInner \in Seq(InnerMessages)
      BY DEF BridgeInv, BridgeTypeOK, InnerMessages
    <3>2. m # "invalid"
      BY <1>1 DEF Invalid
    <3>3. m \in InnerMessages
      BY <1>1, <3>1, CarriesTaken
    <3>4. m \in {"authored", "request", "artifact.ready"}
      BY <1>3, <3>2, <3>3 DEF InnerMessages
    <3> QED BY <1>1, <3>1, <3>4, CarriesTaken
  <2>2. /\ toHost' = Append(toHost, Plain(m)) /\ fromInner' = Tail(fromInner)
        /\ outer' = IF m = "artifact.ready" THEN "active" ELSE outer
        /\ tokens' = tokens - 1 /\ tokens > 0
        /\ UNCHANGED <<hostVars, received, deaf, refused, innerVars, toOuter>>
    BY <1>3 DEF RunnerHearsInner, Forward
  <2> HIDE DEF m
  <2>3. ToldLate(m)
    BY <2>1, <2>2, TellingLate
  <2>4. BridgeTypeOK'
    <3>1. tokens' \in 0..Burst
      BY <2>2 DEF BridgeInv, BridgeTypeOK, BridgeAssumption
    <3> QED BY <2>1, <2>2, <2>3, <3>1 DEF ToldLate, BridgeInv, BridgeTypeOK, hostVars, innerVars
  <2>5. ReadyOnce'
    BY <2>1, <2>2, <2>3, MessageFacts DEF ToldLate, Runs, ReadyOnce, hostVars, innerVars
  <2>6. SomethingComes'
    BY <1>1, <2>1, <2>2, <2>3, MessageFacts
       DEF ToldLate, Runs, ReadyOnce, SomethingComes, BridgeInv, hostVars, innerVars
  <2>7. Runs'
    BY <1>1, <2>1, <2>2, <2>3, <2>5, <2>6, MessageFacts
       DEF ToldLate, Runs, ReadyOnce, hostVars, innerVars
  <2> QED BY <2>2, <2>4, <2>7 DEF BridgeInv, ProtocolKept, PackageGivenBack, hostVars
<1> QED BY <1>2, <1>3

LEMMA InnerMissed ==
  ASSUME BridgeAssumption, BridgeInv, Runs, RunnerMissesInner
  PROVE  BridgeInv'
<1>1. /\ Tail(fromInner) \in Seq(InnerMessages)
      /\ \A x : Carries(Tail(fromInner), x) => Carries(fromInner, x)
      /\ \A x : CarriesOnce(fromInner, x) => CarriesOnce(Tail(fromInner), x)
  <2>1. fromInner \in Seq(InnerMessages) /\ fromInner # <<>>
    BY DEF BridgeInv, BridgeTypeOK, InnerMessages, RunnerMissesInner
  <2> QED BY <2>1, CarriesTaken
<1>2. BridgeTypeOK'
  BY <1>1 DEF RunnerMissesInner, BridgeInv, BridgeTypeOK, hostVars, innerVars
<1>3. Runs'
  BY <1>1 DEF RunnerMissesInner, Runs, ReadyOnce, SomethingComes, hostVars, innerVars
<1> QED BY <1>2, <1>3 DEF RunnerMissesInner, BridgeInv, ProtocolKept, PackageGivenBack, hostVars

\* The host posts pings, controls and results; the runner hangs, or its budget is refilled.
LEMMA RunningHostPosts ==
  ASSUME BridgeAssumption, BridgeInv, Runs, Ping \/ Control
  PROVE  BridgeInv'
<1>1. step = "running"
  BY DEF Ping, Control, ControlGuard, BridgeInv
<1>2. PICK t \in {"ping", "control"} :
        /\ toOuter' = Append(toOuter, Plain(t)) /\ (t = "ping" => Ping) /\ (t = "control" => Control)
  BY DEF Ping, Control
<1>3. /\ toOuter' \in Seq(LatePosts) /\ toOuter' \in Seq(HostMessages)
      /\ \A x : Carries(toOuter', x) <=> Carries(toOuter, x) \/ Plain(t) = x
  <2>1. /\ Plain(t) \in LatePosts /\ Plain(t) \in HostMessages
        /\ toOuter \in Seq(LatePosts) /\ toOuter \in Seq(HostMessages)
    BY MessagesTyped DEF Runs, BridgeInv, BridgeTypeOK, LatePosts
  <2> QED BY <1>2, <2>1, CarriesSent
<1>4. /\ deadline' = (deadline \/ t = "ping") /\ controls' = IF t = "control" THEN controls + 1 ELSE controls
      /\ t = "control" => controls < MaxControls
      /\ UNCHANGED <<step, shown, bytes, chunks, asking, cause, outerVars, innerVars, toHost, fromInner>>
  BY <1>2, MessageFacts DEF Ping, Control, BridgeInv, BridgeTypeOK
<1>5. BridgeTypeOK'
  BY <1>3, <1>4 DEF BridgeInv, BridgeTypeOK, BridgeAssumption, outerVars, innerVars
<1>6. Runs'
  BY <1>1, <1>3, <1>4 DEF Runs, ReadyOnce, SomethingComes, outerVars, innerVars
<1> QED BY <1>1, <1>4, <1>5, <1>6 DEF BridgeInv, ProtocolKept, PackageGivenBack, outerVars

LEMMA ResultPosted ==
  ASSUME BridgeAssumption, BridgeInv, Runs, PostsResult
  PROVE  BridgeInv'
<1>1. /\ asking' \in Nat /\ toOuter' = Append(toOuter, Plain("result"))
      /\ UNCHANGED <<step, shown, bytes, chunks, deadline, controls, cause, outerVars, innerVars,
                     toHost, fromInner>>
  BY DEF PostsResult, BridgeInv, BridgeTypeOK
<1>2. /\ toOuter' \in Seq(LatePosts) /\ toOuter' \in Seq(HostMessages)
      /\ step # "running" => toOuter' \in Seq({Plain("result")})
      /\ \A x : Carries(toOuter', x) <=> Carries(toOuter, x) \/ Plain("result") = x
  <2>1. /\ Plain("result") \in LatePosts /\ Plain("result") \in HostMessages
        /\ toOuter \in Seq(LatePosts) /\ toOuter \in Seq(HostMessages)
        /\ step # "running" => toOuter \in Seq({Plain("result")})
    BY MessagesTyped DEF Runs, BridgeInv, BridgeTypeOK, LatePosts
  <2>2. step # "running" => Append(toOuter, Plain("result")) \in Seq({Plain("result")})
    BY <2>1, CarriesSent
  <2> QED BY <1>1, <2>1, <2>2, CarriesSent
<1>3. BridgeTypeOK'
  BY <1>1, <1>2 DEF BridgeInv, BridgeTypeOK, outerVars, innerVars
<1>4. Runs'
  BY <1>1, <1>2 DEF Runs, ReadyOnce, SomethingComes, outerVars, innerVars
<1> QED BY <1>1, <1>3, <1>4 DEF BridgeInv, ProtocolKept, PackageGivenBack, outerVars

LEMMA RunnerAlone ==
  ASSUME BridgeAssumption, BridgeInv, Runs, Hang \/ Refill \/ InnerLoads
  PROVE  BridgeInv'
<1>1. BridgeTypeOK'
  BY DEF Hang, Refill, InnerLoads, BridgeInv, BridgeTypeOK, BridgeAssumption, hostVars, outerVars, innerVars
<1>2. Runs'
  BY DEF Hang, Refill, InnerLoads, Runs, ReadyOnce, SomethingComes, hostVars, outerVars, innerVars
<1> QED BY <1>1, <1>2
        DEF Hang, Refill, InnerLoads, BridgeInv, ProtocolKept, PackageGivenBack, hostVars, outerVars

\* The artifact sends, gets ready or fails.
LEMMA InnerDocumentSends ==
  ASSUME BridgeAssumption, BridgeInv, Runs, Authored \/ ScriptDone \/ ScriptFails
  PROVE  BridgeInv'
<1>1. PICK state, m :
        /\ InnerSends(state, m) /\ authored' \in 0..MaxAuthored
        /\ \/ m \in {"authored", "request", "invalid"} /\ state = document /\ document \in {"running", "ready"}
           \/ m = "artifact.ready" /\ document = "running" /\ state = "ready"
           \/ m = "peer.disposed" /\ document = "running" /\ state = "disposed"
  BY DEF Authored, ScriptDone, ScriptFails, BridgeInv, BridgeTypeOK, BridgeAssumption
<1>2. /\ fromInner' \in Seq(InnerMessages)
      /\ \A x : Carries(fromInner', x) <=> Carries(fromInner, x) \/ m = x
      /\ \A x : CarriesOnce(fromInner, x) /\ (m = x => ~Carries(fromInner, x)) => CarriesOnce(fromInner', x)
  <2>1. /\ m \in InnerMessages
        /\ fromInner \in Seq(InnerMessages)
    BY <1>1 DEF BridgeInv, BridgeTypeOK, InnerMessages
  <2> QED BY <1>1, <2>1, CarriesSent DEF InnerSends
<1>3. BridgeTypeOK'
  BY <1>1, <1>2 DEF InnerSends, BridgeInv, BridgeTypeOK, hostVars, outerVars
<1>4. ReadyOnce'
  BY <1>1, <1>2 DEF InnerSends, Runs, ReadyOnce, hostVars, outerVars
<1>5. SomethingComes'
  BY <1>1, <1>2 DEF InnerSends, Runs, SomethingComes, hostVars, outerVars
<1>6. Runs'
  BY <1>1, <1>2, <1>4, <1>5 DEF InnerSends, Runs, hostVars, outerVars
<1> QED BY <1>1, <1>3, <1>6 DEF InnerSends, BridgeInv, ProtocolKept, PackageGivenBack, hostVars, outerVars

----------------------------------------------------------------------------
(* The package is handed over *)

LEMMA PortsTyped ==
  ASSUME BridgeAssumption
  PROVE  /\ <<>> \in Seq(HostMessages) /\ <<>> \in Seq(RunnerMessages)
         /\ <<Plain("bootstrap")>> \in Seq(HostMessages) /\ <<Plain("package.end")>> \in Seq(HostMessages)
         /\ <<Plain("package.start"), Msg("package.chunk", 0)>> \in Seq(HostMessages)
         /\ \A k \in 0..(Chunks - 1) : <<Msg("package.chunk", k)>> \in Seq(HostMessages)
         /\ <<Plain("runner.ready")>> \in Seq(RunnerMessages)
         /\ <<Plain("package.ready")>> \in Seq(RunnerMessages)
         /\ \A k \in 1..Chunks : <<Msg("package.ack", k)>> \in Seq(RunnerMessages)
<1>1. /\ \A t \in {"bootstrap", "package.start", "package.end"} : Plain(t) \in HostMessages
      /\ \A k \in 0..(Chunks - 1) : Msg("package.chunk", k) \in HostMessages
      /\ Plain("runner.ready") \in RunnerMessages /\ Plain("package.ready") \in RunnerMessages
      /\ \A k \in 1..Chunks : Msg("package.ack", k) \in RunnerMessages
      /\ 0 \in 0..(Chunks - 1)
  BY MessagesTyped DEF LateMessages, BridgeAssumption
<1> HIDE DEF HostMessages, RunnerMessages
<1> QED BY <1>1

LEMMA HandOverLoads ==
  ASSUME BridgeAssumption, BridgeInv, HandsOver, ReadMetadata \/ ReadPackage \/ Confirm \/ FrameLoads
  PROVE  BridgeInv'
<1>1. /\ toOuter = <<>> /\ toHost = <<>>
      /\ toHost' = <<>> /\ toOuter' = IF step = "frame" THEN <<Plain("bootstrap")>> ELSE <<>>
  <2>1. toOuter = <<>> /\ toHost = <<>>
    BY DEF HandsOver, ReadMetadata, ReadPackage, Confirm, FrameLoads, Waiting, Meets
  <2>2. Append(<<>>, Plain("bootstrap")) = <<Plain("bootstrap")>>
    OBVIOUS
  <2> QED BY <2>1, <2>2 DEF ReadMetadata, ReadPackage, Confirm, FrameLoads
<1>2. BridgeTypeOK'
  BY <1>1, PortsTyped DEF ReadMetadata, ReadPackage, Confirm, FrameLoads, BridgeInv, BridgeTypeOK, outerVars,
                          innerVars, Waiting
<1>3. HandsOver'
  BY <1>1 DEF ReadMetadata, ReadPackage, Confirm, FrameLoads, HandsOver, Meets, outerVars, innerVars
<1> QED BY <1>2, <1>3 DEF ReadMetadata, ReadPackage, Confirm, FrameLoads, BridgeInv, ProtocolKept,
                          PackageGivenBack, outerVars

\* The host meets the answer to what it sent.
LEMMA HandOverHostTakes ==
  ASSUME BridgeAssumption, BridgeInv, HandsOver, HostTakes
  PROVE  BridgeInv'
<1>1. toHost # <<>> /\ step \in Waiting \cup {"running"}
  BY DEF HostTakes
<1>2. CASE step = "runner"
  <2>1. /\ toHost = <<Plain("runner.ready")>> /\ toOuter = <<>> /\ outer \in {"ready", "hung"}
        /\ chunks = 0 /\ received = 0
    BY <1>1, <1>2 DEF HandsOver, Meets
  <2>2. Head(toHost) = Plain("runner.ready") /\ Tail(toHost) = <<>>
    BY <2>1
  <2>3. Arrived(Plain("runner.ready"))
    BY <1>2, <2>2, MessageFacts DEF HostTakes, Awaited, Waiting
  <2>4. /\ step' = "ack" /\ chunks' = 1 /\ shown' = shown /\ bytes' = bytes
        /\ toOuter' = <<Plain("package.start"), Msg("package.chunk", 0)>> /\ toHost' = <<>>
        /\ UNCHANGED <<deadline, controls, asking, cause, outerVars, innerVars, fromInner>>
    BY <2>1, <2>2, <2>3, MessageFacts DEF Arrived, NextStep, Posts
  <2>5. BridgeTypeOK'
    BY <2>4, PortsTyped DEF BridgeInv, BridgeTypeOK, BridgeAssumption, Waiting, outerVars, innerVars
  <2>6. HandsOver'
    BY <2>1, <2>4 DEF HandsOver, Meets, outerVars, innerVars
  <2> QED BY <1>2, <2>4, <2>5, <2>6 DEF BridgeInv, ProtocolKept, PackageGivenBack, outerVars
<1>3. CASE step = "ack"
  <2>1. /\ toHost = <<Msg("package.ack", chunks)>> /\ toOuter = <<>> /\ outer \in {"receiving", "hung"}
        /\ chunks \in 1..Chunks /\ received = chunks
    BY <1>1, <1>3 DEF HandsOver, Meets
  <2>2. Head(toHost) = Msg("package.ack", chunks) /\ Tail(toHost) = <<>>
    BY <2>1
  <2>3. Arrived(Msg("package.ack", chunks))
    BY <1>3, <2>2, MessageFacts DEF HostTakes, Awaited, Waiting
  <2>4. /\ step' = IF chunks = Chunks THEN "certified" ELSE "ack"
        /\ chunks' = IF chunks = Chunks THEN chunks ELSE chunks + 1
        /\ toOuter' = IF chunks = Chunks THEN <<Plain("package.end")>> ELSE <<Msg("package.chunk", chunks)>>
        /\ shown' = shown /\ bytes' = bytes /\ toHost' = <<>>
        /\ UNCHANGED <<deadline, controls, asking, cause, outerVars, innerVars, fromInner>>
    BY <2>1, <2>2, <2>3, MessageFacts DEF Arrived, NextStep, Posts, BridgeAssumption
  <2>5. BridgeTypeOK'
    <3>1. chunks' \in 0..Chunks /\ (chunks # Chunks => chunks \in 0..(Chunks - 1))
      BY <2>1, <2>4 DEF BridgeAssumption
    <3> QED BY <2>4, <3>1, PortsTyped DEF BridgeInv, BridgeTypeOK, Waiting, outerVars, innerVars
  <2>6. HandsOver'
    BY <2>1, <2>4 DEF HandsOver, Meets, outerVars, innerVars, BridgeAssumption
  <2> QED BY <1>3, <2>4, <2>5, <2>6 DEF BridgeInv, ProtocolKept, PackageGivenBack, outerVars
<1> QED BY <1>1, <1>2, <1>3 DEF HandsOver, Meets, Waiting

\* The runner meets what it is ready for.
LEMMA HandOverRunnerTakes ==
  ASSUME BridgeAssumption, BridgeInv, HandsOver, RunnerTakes
  PROVE  BridgeInv'
<1>1. toOuter # <<>> /\ outer \notin {"none", "hung", "disposed", "certified"}
  BY DEF RunnerTakes
<1> DEFINE Replied(state, count, asked, told) ==
      /\ outer' = state /\ received' = count /\ toOuter' = asked /\ toHost' = told
      /\ UNCHANGED <<hostVars, tokens, deaf, refused, innerVars, fromInner>>
<1>2. CASE step = "runner"
  <2>1. toOuter = <<Plain("bootstrap")>> /\ toHost = <<>> /\ outer = "bootstrap_wait"
    BY <1>1, <1>2 DEF HandsOver, Meets
  <2>2. Head(toOuter) = Plain("bootstrap") /\ Tail(toOuter) = <<>>
    BY <2>1
  <2>3. Answer("ready", 0, <<Plain("runner.ready")>>)
    BY <2>1, <2>2, MessageFacts DEF RunnerTakes
  <2>4. Replied("ready", 0, <<>>, <<Plain("runner.ready")>>)
    BY <2>1, <2>2, <2>3 DEF Answer
  <2>5. BridgeTypeOK'
    BY <2>4, PortsTyped DEF BridgeInv, BridgeTypeOK, BridgeAssumption, hostVars, innerVars
  <2>6. HandsOver'
    BY <1>2, <2>4 DEF HandsOver, Meets, hostVars, innerVars
  <2> QED BY <2>4, <2>5, <2>6 DEF BridgeInv, ProtocolKept, PackageGivenBack, hostVars
<1>3. CASE step = "ack" /\ outer = "ready"
  <2>1. /\ toOuter = <<Plain("package.start"), Msg("package.chunk", 0)>> /\ toHost = <<>>
        /\ chunks = 1 /\ received = 0
    BY <1>1, <1>3 DEF HandsOver, Meets
  <2>2. Head(toOuter) = Plain("package.start") /\ Tail(toOuter) = <<Msg("package.chunk", 0)>>
    BY <2>1
  <2>3. Answer("receiving", 0, <<>>)
    BY <1>3, <2>2, MessageFacts DEF RunnerTakes
  <2>4. Replied("receiving", 0, <<Msg("package.chunk", 0)>>, <<>>)
    BY <2>1, <2>2, <2>3 DEF Answer
  <2>5. BridgeTypeOK'
    BY <2>4, PortsTyped DEF BridgeInv, BridgeTypeOK, BridgeAssumption, hostVars, innerVars
  <2>6. HandsOver'
    BY <1>3, <2>1, <2>4 DEF HandsOver, Meets, hostVars, innerVars, BridgeAssumption
  <2> QED BY <2>4, <2>5, <2>6 DEF BridgeInv, ProtocolKept, PackageGivenBack, hostVars
<1>4. CASE step = "ack" /\ outer # "ready"
  <2>1. /\ toOuter = <<Msg("package.chunk", received)>> /\ toHost = <<>> /\ outer = "receiving"
        /\ chunks \in 1..Chunks /\ received = chunks - 1
    BY <1>1, <1>4 DEF HandsOver, Meets
  <2>2. Head(toOuter) = Msg("package.chunk", received) /\ Tail(toOuter) = <<>>
    BY <2>1
  <2>3. Answer(outer, received + 1, <<Msg("package.ack", received + 1)>>)
    BY <2>1, <2>2, MessageFacts DEF RunnerTakes
  <2>4. Replied("receiving", chunks, <<>>, <<Msg("package.ack", chunks)>>)
    <3>1. received + 1 = chunks
      BY <2>1
    <3> QED BY <2>1, <2>2, <2>3, <3>1 DEF Answer
  <2>5. BridgeTypeOK'
    BY <2>1, <2>4, PortsTyped DEF BridgeInv, BridgeTypeOK, BridgeAssumption, hostVars, innerVars
  <2>6. HandsOver'
    BY <1>4, <2>1, <2>4 DEF HandsOver, Meets, hostVars, innerVars
  <2> QED BY <2>4, <2>5, <2>6 DEF BridgeInv, ProtocolKept, PackageGivenBack, hostVars
<1>5. CASE step = "certified"
  <2>1. /\ toOuter = <<Plain("package.end")>> /\ toHost = <<>> /\ outer = "receiving"
        /\ chunks = Chunks /\ received = Chunks
    BY <1>1, <1>5 DEF HandsOver, Meets
  <2>2. Head(toOuter) = Plain("package.end") /\ Tail(toOuter) = <<>>
    BY <2>1
  <2>3. Answer("certified", received, <<>>)
    BY <2>1, <2>2, MessageFacts DEF RunnerTakes
  <2>4. Replied("certified", received, <<>>, <<>>)
    BY <2>1, <2>2, <2>3 DEF Answer
  <2>5. BridgeTypeOK'
    BY <2>4, PortsTyped DEF BridgeInv, BridgeTypeOK, hostVars, innerVars
  <2>6. HandsOver'
    BY <1>5, <2>1, <2>4 DEF HandsOver, Meets, hostVars, innerVars
  <2> QED BY <2>4, <2>5, <2>6 DEF BridgeInv, ProtocolKept, PackageGivenBack, hostVars
<1> QED BY <1>1, <1>2, <1>3, <1>4, <1>5 DEF HandsOver, Meets

\* The package is certified and the artifact is framed.
LEMMA FramingStartsRun ==
  ASSUME BridgeAssumption, BridgeInv, HandsOver, FramesInner
  PROVE  BridgeInv'
<1>1. /\ step = "certified" /\ chunks = Chunks /\ received = Chunks
      /\ toOuter = <<>> /\ toHost = <<>> /\ fromInner = <<>> /\ refused # "early"
  BY DEF HandsOver, Meets, FramesInner
<1>2. /\ toHost' = <<Plain("package.ready")>> /\ toHost' = Append(<<>>, Plain("package.ready"))
      /\ outer' = "inner_handshake" /\ document' = "framed"
      /\ UNCHANGED <<hostVars, received, tokens, deaf, refused, authored, toOuter, fromInner>>
  BY <1>1 DEF FramesInner
<1>3. /\ toHost' \in Seq(LateMessages) /\ toHost' # <<>> /\ Head(toHost') = Plain("package.ready")
      /\ \A x : Carries(toHost', x) <=> Plain("package.ready") = x
      /\ \A x : CarriesOnce(toHost', x)
  <2>1. <<>> \in Seq(LateMessages) /\ Plain("package.ready") \in LateMessages
    BY EmptySeq DEF LateMessages
  <2>2. /\ Append(<<>>, Plain("package.ready")) \in Seq(LateMessages)
        /\ Append(<<>>, Plain("package.ready")) # <<>>
        /\ \A x : Carries(Append(<<>>, Plain("package.ready")), x) <=> Plain("package.ready") = x
        /\ \A x : CarriesOnce(Append(<<>>, Plain("package.ready")), x)
    BY <2>1, CarriesSent, NothingCarried
  <2> QED BY <1>2, <2>2
<1>4. BridgeTypeOK'
  BY <1>2, PortsTyped DEF BridgeInv, BridgeTypeOK, hostVars
<1>5. Runs'
  <2>1. <<>> \in Seq(LatePosts) /\ <<>> \in Seq({Plain("result")})
    BY EmptySeq
  <2> QED BY <1>1, <1>2, <1>3, <2>1, NothingCarried, MessageFacts
          DEF Runs, ReadyOnce, SomethingComes, BridgeInv, hostVars
<1> QED BY <1>2, <1>4, <1>5 DEF BridgeInv, ProtocolKept, PackageGivenBack, hostVars

LEMMA HandOverHangs ==
  ASSUME BridgeAssumption, BridgeInv, HandsOver, Hang
  PROVE  BridgeInv'
<1>1. BridgeTypeOK'
  BY DEF Hang, BridgeInv, BridgeTypeOK, hostVars, innerVars
<1>2. HandsOver'
  BY DEF Hang, HandsOver, Meets, hostVars, innerVars
<1> QED BY <1>1, <1>2 DEF Hang, BridgeInv, ProtocolKept, PackageGivenBack, hostVars

\* The invariant holds at the start, and every step keeps it.
LEMMA BridgeStarts ==
  ASSUME BridgeAssumption, BridgeInit
  PROVE  BridgeInv
<1>1. /\ <<>> \in Seq(HostMessages) /\ <<>> \in Seq(RunnerMessages)
      /\ <<>> \in Seq(InnerMessages)
  BY EmptySeq
<1>2. BridgeTypeOK
  <2>1. 0 \in 0..Chunks /\ 0 \in 0..MaxControls /\ 0 \in 0..MaxAuthored /\ Burst \in 0..Burst
    BY DEF BridgeAssumption
  <2> QED BY <1>1, <2>1 DEF BridgeInit, BridgeTypeOK, InnerMessages
<1> QED BY <1>2 DEF BridgeInit, BridgeInv, HandsOver, ProtocolKept, PackageGivenBack

\* The run ends where it is ended: by the page, a failure or a timer.
Breaks ==
  \E ends \in {"failed", "stopped"}, why \in {"stop", "load", "frame", "timeout", "watchdog"} :
    Cleanup(ends, why)

LEMMA BridgeStepKeeps ==
  ASSUME BridgeAssumption, BridgeInv, BridgeNext
  PROVE  BridgeInv'
<1>1. CASE Stop \/ LoadFails \/ FrameFails \/ WaitTimesOut \/ WatchdogExpires
  <2>1. Breaks
    BY <1>1 DEF Stop, LoadFails, FrameFails, WaitTimesOut, WatchdogExpires, Breaks
  <2> QED BY <2>1, CleanupEnds DEF Breaks
<1>2. CASE HandsOver
  <2>1. ~(Ping \/ Control \/ PostsResult)
    BY <1>2 DEF Ping, Control, ControlGuard, PostsResult, BridgeInv, HandsOver
  <2>2. ~(InnerLoads \/ InnerFrameFails \/ RunnerHearsInner \/ RunnerMissesInner \/ Refill)
    BY <1>2 DEF InnerLoads, InnerFrameFails, RunnerHearsInner, RunnerMissesInner, Refill, HandsOver, Meets
  <2>3. ~(Authored \/ ScriptDone \/ ScriptFails)
    BY <1>2 DEF Authored, ScriptDone, ScriptFails, HandsOver
  <2> QED BY <1>1, <1>2, <2>1, <2>2, <2>3, HandOverLoads, HandOverHostTakes, HandOverRunnerTakes,
             FramingStartsRun, HandOverHangs DEF BridgeNext
<1>3. CASE Runs
  <2>1. ~(ReadMetadata \/ ReadPackage \/ Confirm \/ FrameLoads \/ FramesInner)
    BY <1>3 DEF ReadMetadata, ReadPackage, Confirm, FrameLoads, FramesInner, Runs
  <2>2. InnerFrameFails => BridgeInv'
    BY <1>3, DisposeKeepsRun DEF InnerFrameFails
  <2> QED BY <1>1, <1>3, <2>1, <2>2, RunningHostTakes, RunningRunnerTakes, RunningHostPosts, ResultPosted,
             RunnerAlone, InnerHeard, InnerMissed, InnerDocumentSends DEF BridgeNext
<1>4. CASE Ended
  <2>1. ~(ReadMetadata \/ ReadPackage \/ Confirm \/ FrameLoads \/ Ping \/ Control \/ HostTakes
          \/ PostsResult)
    BY <1>4 DEF ReadMetadata, ReadPackage, Confirm, FrameLoads, Ping, Control, ControlGuard, HostTakes,
                PostsResult, Waiting, BridgeInv, Ended
  <2>2. ~(RunnerTakes \/ FramesInner \/ InnerLoads \/ InnerFrameFails \/ RunnerHearsInner)
    BY <1>4 DEF RunnerTakes, FramesInner, InnerLoads, InnerFrameFails, RunnerHearsInner, Ended
  <2>3. ~(RunnerMissesInner \/ Refill \/ Hang \/ Authored \/ ScriptDone \/ ScriptFails)
    BY <1>4 DEF RunnerMissesInner, Refill, Hang, Authored, ScriptDone, ScriptFails, Ended
  <2> QED BY <1>1, <2>1, <2>2, <2>3 DEF BridgeNext
<1> QED BY <1>2, <1>3, <1>4 DEF BridgeInv

\* A timer that fires with nothing on the way: nothing is owed to the host, or the
\* runner hangs or does not hear.
LEMMA NothingOwed ==
  ASSUME BridgeAssumption, BridgeInv, Quiet, step \in Waiting \/ deadline
  PROVE  outer = "hung" \/ deaf
<1>1. ~HandsOver \/ outer = "hung"
  BY DEF HandsOver, Meets, Quiet, BridgeInv, Waiting
<1>2. ~Ended
  BY DEF Ended, BridgeInv, Waiting
<1>3. ASSUME Runs PROVE outer = "hung" \/ deaf
  BY <1>3, NothingCarried DEF Runs, SomethingComes, Quiet, BridgeInv, Farewells, Waiting
<1> QED BY <1>1, <1>2, <1>3 DEF BridgeInv

LEMMA NoVainStep ==
  ASSUME BridgeAssumption, BridgeInv, [BridgeNext]_bridgeVars
  PROVE  NoVainWait
<1> SUFFICES ASSUME Quiet, cause' # cause, cause' \in {"timeout", "watchdog"}
             PROVE  step \in Waiting \/ deadline
  BY NothingOwed DEF NoVainWait
<1>1. CASE BridgeNext
  <2>1. CASE Stop \/ LoadFails \/ FrameFails \/ WaitTimesOut \/ WatchdogExpires
    BY <2>1 DEF Stop, LoadFails, FrameFails, WaitTimesOut, WatchdogExpires, Cleanup
  <2>2. ~(ReadMetadata \/ ReadPackage \/ Confirm \/ FrameLoads \/ Ping \/ Control \/ HostTakes
          \/ PostsResult)
    BY DEF ReadMetadata, ReadPackage, Confirm, FrameLoads, Ping, Control, HostTakes, PostsResult, Quiet
  <2>3. ~(RunnerTakes \/ FramesInner \/ InnerLoads \/ InnerFrameFails \/ RunnerHearsInner)
    BY DEF RunnerTakes, FramesInner, InnerLoads, InnerFrameFails, RunnerHearsInner, Quiet
  <2>4. ~(RunnerMissesInner \/ Refill \/ Hang \/ Authored \/ ScriptDone \/ ScriptFails)
    BY DEF RunnerMissesInner, Refill, Hang, Authored, ScriptDone, ScriptFails, InnerSends, hostVars
  <2> QED BY <1>1, <2>1, <2>2, <2>3, <2>4 DEF BridgeNext
<1>2. CASE UNCHANGED bridgeVars
  BY <1>2 DEF bridgeVars, hostVars
<1> QED BY <1>1, <1>2

\* For a package of any number of chunks, any budget and bounds, whatever fails and in
\* whatever order messages and timers come: a page shows as active only a runner that
\* has the package and is active, no message comes unexpected, the bytes are given
\* back, and no timer waits for a message that nobody is going to send.
THEOREM BridgeAlwaysKeepsProtocol ==
  ASSUME BridgeAssumption
  PROVE  BridgeSpec => BridgeKeepsProtocol
<1>1. BridgeInit => BridgeInv
  BY BridgeStarts
<1>2. BridgeInv /\ [BridgeNext]_bridgeVars => BridgeInv'
  <2> SUFFICES ASSUME BridgeInv, [BridgeNext]_bridgeVars PROVE BridgeInv'
    OBVIOUS
  <2>1. CASE BridgeNext
    BY <2>1, BridgeStepKeeps
  <2>2. CASE UNCHANGED bridgeVars
    BY <2>2 DEF bridgeVars, hostVars, outerVars, innerVars, BridgeInv, BridgeTypeOK, HandsOver, Meets, Runs,
                ReadyOnce, SomethingComes, Ended, ProtocolKept, PackageGivenBack
  <2> QED BY <2>1, <2>2
<1>3. BridgeInv => BridgeTypeOK /\ ActiveIsCertified /\ ProtocolKept /\ PackageGivenBack
  BY DEF BridgeInv, ActiveIsCertified, HandsOver, Runs, Ended
<1>4. BridgeInv /\ [BridgeNext]_bridgeVars => NoVainWait
  BY NoVainStep
<1> QED BY <1>1, <1>2, <1>3, <1>4, PTL DEF BridgeSpec, BridgeKeepsProtocol

----------------------------------------------------------------------------
(***************************************************************************)
(* The clipboard: the inductive invariant                                  *)
(*                                                                         *)
(* A trusted gesture is in one place: a turn of the frame, an announcement *)
(* on its way, the one the dispatcher remembers, or a write.               *)
(***************************************************************************)

Announced(messages) == {i \in 1..Len(messages) : messages[i].type = "action"}
Spent(flag) == IF flag THEN 1 ELSE 0

\* No announcement, turn or write is counted twice, and none comes from nowhere.
GestureSpentOnce ==
  /\ IsFiniteSet(Announced(port))
  /\ Len(writes) + Cardinality(Announced(port)) + Spent(pending.id # NoRequest) + Spent(turn) <= gestures

\* What the dispatcher knows is an access the page had; the page's access changes
\* only with its epoch.
AccessKnown ==
  /\ known.gen <= known.epoch /\ known.epoch <= access.epoch
  /\ known.epoch = access.epoch => known.allowed = access.allowed

ClipboardInv == ClipboardTypeOK /\ GestureSpentOnce /\ AccessKnown

Messages == [type : {"action", "request"}, id : RequestIds]
WriteType == [id : RequestIds, state : {"open", "written", "failed"}, answered : BOOLEAN]

\* A message on its way adds an announcement if it is one.
LEMMA AnnouncementSent ==
  ASSUME NEW messages \in Seq(Messages), NEW m \in Messages, IsFiniteSet(Announced(messages))
  PROVE  /\ IsFiniteSet(Announced(Append(messages, m)))
         /\ Cardinality(Announced(Append(messages, m))) = Cardinality(Announced(messages)) + Spent(m.type = "action")
<1> DEFINE longer == Append(messages, m)
           n == Len(messages) + 1
<1>1. /\ longer \in Seq(Messages) /\ Len(longer) = n /\ longer[n] = m /\ n \in Nat
      /\ \A i \in 1..Len(messages) : longer[i] = messages[i]
  OBVIOUS
<1>2. 1..n = (1..Len(messages)) \cup {n} /\ n \notin 1..Len(messages)
  BY <1>1
<1>3. Announced(longer) = IF m.type = "action" THEN Announced(messages) \cup {n} ELSE Announced(messages)
  <2> HIDE DEF longer, n
  <2>1. \A i : i \in Announced(longer) <=> i \in Announced(messages) \/ (i = n /\ m.type = "action")
    BY <1>1, <1>2 DEF Announced
  <2>2. QED
    BY <2>1
<1>4. n \notin Announced(messages)
  BY <1>2 DEF Announced
<1>5. Cardinality(Announced(messages)) \in Nat
  BY FS_CardinalityType
<1> HIDE DEF longer, n
<1>6. CASE m.type = "action"
  <2>1. Announced(longer) = Announced(messages) \cup {n}
    BY <1>3, <1>6
  <2>2. IsFiniteSet(Announced(longer)) /\ Cardinality(Announced(longer)) = Cardinality(Announced(messages)) + 1
    BY <1>4, <2>1, FS_AddElement
  <2>3. QED
    BY <1>6, <2>2 DEF Spent, longer
<1>7. CASE m.type # "action"
  BY <1>3, <1>5, <1>7 DEF Spent, longer
<1>8. QED
  BY <1>6, <1>7

\* A message that arrives takes its announcement with it.
LEMMA AnnouncementTaken ==
  ASSUME NEW messages \in Seq(Messages), messages # <<>>, IsFiniteSet(Announced(messages))
  PROVE  /\ IsFiniteSet(Announced(Tail(messages)))
         /\ Cardinality(Announced(Tail(messages))) + Spent(Head(messages).type = "action") <= Cardinality(Announced(messages))
<1> DEFINE rest == Announced(Tail(messages))
           before == Announced(messages)
           others == before \ {1}
           shift == [i \in rest |-> i + 1]
<1>1. /\ Len(messages) \in Nat /\ Len(messages) > 0 /\ Head(messages) = messages[1]
      /\ Len(Tail(messages)) = Len(messages) - 1
      /\ \A i \in 1..(Len(messages) - 1) : Tail(messages)[i] = messages[i + 1]
  OBVIOUS
<1>2. \A i \in rest : i \in Nat /\ i > 0 /\ i + 1 \in others
  BY <1>1 DEF Announced
<1>3. IsFiniteSet(others) /\ Cardinality(others) = IF 1 \in before THEN Cardinality(before) - 1 ELSE Cardinality(before)
  <2> HIDE DEF before
  <2>1. IsFiniteSet(before)
    BY DEF before
  <2>2. QED
    BY <2>1, FS_RemoveElement
<1>4. 1 \in before <=> Head(messages).type = "action"
  BY <1>1 DEF Announced
<1>5. shift \in Injection(rest, others)
  <2> HIDE DEF rest, others
  <2>1. shift \in [rest -> others]
    BY <1>2
  <2>2. \A a, b \in rest : shift[a] = shift[b] => a = b
    BY <1>2
  <2>3. QED
    BY <2>1, <2>2 DEF Injection, IsInjective
<1>6. IsFiniteSet(rest) /\ Cardinality(rest) <= Cardinality(others)
  <2> HIDE DEF rest, others, shift
  <2>1. PICK f : f \in Injection(rest, others)
    BY <1>5
  <2>2. QED
    BY <1>3, <2>1, FS_Injection
<1>7. Cardinality(before) \in Nat /\ Cardinality(rest) \in Nat
  BY <1>6, FS_CardinalityType
<1> HIDE DEF others, shift, before, rest
<1>8. Cardinality(rest) + Spent(Head(messages).type = "action") <= Cardinality(before)
  BY <1>3, <1>4, <1>6, <1>7 DEF Spent
<1>9. QED
  BY <1>6, <1>8 DEF rest, before

\* The frame and the page's access.
LEMMA FrameKeepsClipboard ==
  ASSUME ClipboardAssumption, ClipboardInv,
         Gesture \/ TurnEnds \/ AccessChanges \/ PendingAges
  PROVE  ClipboardInv'
<1> USE DEF ClipboardInv, ClipboardTypeOK, GestureSpentOnce, AccessKnown, Access, Spent
<1>1. PICK n : n = Len(writes) + Cardinality(Announced(port))
  OBVIOUS
<1>2. n \in Nat /\ gestures \in Nat
  <2>1. Len(writes) \in Nat /\ Cardinality(Announced(port)) \in Nat
    BY FS_CardinalityType
  <2>2. QED
    BY <1>1, <2>1
<1>3. n + Spent(pending.id # NoRequest) + Spent(turn) <= gestures
  BY <1>1
<1>4. IsFiniteSet(Announced(port)') /\ Len(writes)' + Cardinality(Announced(port)') = n
  BY <1>1 DEF Announced, Gesture, TurnEnds, AccessChanges, PendingAges
<1>5. n + Spent(pending.id # NoRequest)' + Spent(turn)' <= gestures'
  BY <1>2, <1>3 DEF Gesture, TurnEnds, AccessChanges, PendingAges
<1>6. GestureSpentOnce'
  BY <1>4, <1>5
<1>7. CASE Gesture
  BY <1>6, <1>7 DEF Gesture, ClipboardAssumption
<1>8. CASE TurnEnds
  BY <1>6, <1>8 DEF TurnEnds
<1>9. CASE AccessChanges
  <2>1. PICK a \in [allowed : BOOLEAN, epoch : {access.epoch + 1}] : access' = a /\ access.epoch < MaxEpoch
    BY <1>9 DEF AccessChanges
  <2>2. a.epoch = access.epoch + 1 /\ a.allowed \in BOOLEAN /\ a \in Access
    BY <2>1 DEF ClipboardAssumption
  <2>3. AccessKnown'
    BY <1>9, <2>1, <2>2 DEF AccessChanges, ClipboardAssumption
  <2>4. ClipboardTypeOK'
    BY <1>9, <2>1, <2>2 DEF AccessChanges
  <2>5. QED
    BY <1>6, <2>3, <2>4
<1>10. CASE PendingAges
  BY <1>6, <1>10 DEF PendingAges
<1>11. QED
  BY <1>7, <1>8, <1>9, <1>10

\* The frame sends: an announcement spends its turn.
LEMMA SendsKeepClipboard ==
  ASSUME ClipboardAssumption, ClipboardInv, NEW r \in RequestIds, UserAction(r) \/ RequestCapability(r)
  PROVE  ClipboardInv'
<1> USE DEF ClipboardInv, ClipboardTypeOK, GestureSpentOnce, AccessKnown, Messages
<1>1. PICK m \in Messages : port' = Append(port, m) /\ (m.type = "action" => turn /\ ~turn') /\ turn' \in BOOLEAN
                            /\ (m.type # "action" => turn' = turn)
                            /\ UNCHANGED <<gestures, access, known, pending, disposed, writes>>
  <2>1. CASE UserAction(r)
    <3>1. [type |-> "action", id |-> r] \in Messages
      OBVIOUS
    <3>2. QED
      BY <2>1, <3>1 DEF UserAction, TurnAfter
  <2>2. CASE RequestCapability(r)
    <3>1. [type |-> "request", id |-> r] \in Messages
      OBVIOUS
    <3>2. QED
      BY <2>2, <3>1 DEF RequestCapability
  <2>3. QED
    BY <2>1, <2>2
<1>2. /\ IsFiniteSet(Announced(port'))
      /\ Cardinality(Announced(port')) = Cardinality(Announced(port)) + Spent(m.type = "action")
  BY <1>1, AnnouncementSent
<1>3. GestureSpentOnce'
  <2>1. PICK n, c, k : n = Len(writes) /\ c = Cardinality(Announced(port)) /\ k = Spent(pending.id # NoRequest)
    OBVIOUS
  <2>2. n \in Nat /\ c \in Nat /\ k \in Nat /\ gestures \in Nat
    BY <2>1, FS_CardinalityType DEF Spent
  <2>3. n + c + k + Spent(turn) <= gestures
    BY <2>1
  <2>4. n + (c + Spent(m.type = "action")) + k + Spent(turn') <= gestures
    BY <1>1, <2>2, <2>3 DEF Spent
  <2>5. QED
    BY <1>1, <1>2, <2>1, <2>4
<1>4. port' \in Seq([type : {"action", "request"}, id : RequestIds])
  BY <1>1
<1>5. QED
  BY <1>1, <1>3, <1>4

\* What the dispatcher knows after it looked at the page's access.
LEMMA UpdatedIsCurrent ==
  ASSUME ClipboardAssumption, ClipboardInv
  PROVE  /\ Updated \in [allowed : BOOLEAN, epoch : 0 .. MaxEpoch, gen : 0 .. MaxEpoch + 1]
         /\ Updated.epoch = access.epoch /\ Updated.allowed = access.allowed /\ Updated.gen <= Updated.epoch
<1>1. /\ known.allowed \in BOOLEAN /\ known.epoch \in Nat /\ known.gen \in Nat /\ known.gen <= known.epoch
      /\ access.allowed \in BOOLEAN /\ access.epoch \in Nat /\ known.epoch <= access.epoch
      /\ known.epoch = access.epoch => known.allowed = access.allowed
      /\ access.epoch <= MaxEpoch /\ MaxEpoch \in Nat
      /\ known \in [allowed : BOOLEAN, epoch : 0 .. MaxEpoch, gen : 0 .. MaxEpoch + 1]
  BY DEF ClipboardInv, ClipboardTypeOK, AccessKnown, Access, ClipboardAssumption
<1>2. CASE known.allowed = access.allowed /\ known.epoch = access.epoch
  BY <1>1, <1>2 DEF Updated
<1>3. CASE ~(known.allowed = access.allowed /\ known.epoch = access.epoch)
  <2>1. Updated = [allowed |-> access.allowed, epoch |-> access.epoch, gen |-> known.gen + 1]
    BY <1>3 DEF Updated
  <2>2. known.gen + 1 <= access.epoch
    BY <1>1, <1>3
  <2>3. access.epoch \in 0..MaxEpoch /\ known.gen + 1 \in 0..(MaxEpoch + 1)
    BY <1>1, <2>2
  <2>4. QED
    BY <1>1, <2>1, <2>2, <2>3
<1>4. QED
  BY <1>2, <1>3

\* The page takes a message: an announcement replaces the one before, a request
\* uses it up, with a write or without.
LEMMA PageTakesKeeps ==
  ASSUME ClipboardAssumption, ClipboardInv, PageTakes
  PROVE  ClipboardInv' /\ WritesUnderStandingAccess
<1>1. /\ port # <<>> /\ port' = Tail(port) /\ known' = Updated
      /\ UNCHANGED <<turn, gestures, access, disposed>>
      /\ (Head(port).type = "action" /\ AdmitAction(Updated, Head(port).id))
         \/ (Head(port).type = "request" /\ Dispatch(Updated, Head(port).id))
  BY DEF PageTakes
<1>2. /\ port \in Seq(Messages) /\ IsFiniteSet(Announced(port)) /\ writes \in Seq(WriteType)
      /\ turn \in BOOLEAN /\ gestures \in 0..MaxGestures /\ access \in Access /\ disposed \in BOOLEAN
      /\ pending \in [id : RequestIds \cup {NoRequest}, epoch : 0 .. MaxEpoch,
                      gen : 0 .. MaxEpoch + 1, refused : BOOLEAN, late : BOOLEAN]
  BY DEF ClipboardInv, ClipboardTypeOK, GestureSpentOnce, Messages, WriteType
<1>3. Head(port) \in Messages /\ Head(port).id \in RequestIds /\ port' \in Seq(Messages)
  <2>1. Head(port) \in Messages /\ Tail(port) \in Seq(Messages)
    BY <1>1, <1>2
  <2>2. QED
    BY <1>1, <2>1 DEF Messages
<1>4. PICK k : k = Updated
  OBVIOUS
<1>5. /\ k \in [allowed : BOOLEAN, epoch : 0 .. MaxEpoch, gen : 0 .. MaxEpoch + 1]
      /\ k.epoch = access.epoch /\ k.allowed = access.allowed /\ k.gen <= k.epoch
  BY <1>4, UpdatedIsCurrent
<1>6. AccessKnown'
  BY <1>1, <1>2, <1>4, <1>5 DEF AccessKnown, Access
<1>7. /\ IsFiniteSet(Announced(port'))
      /\ Cardinality(Announced(port')) + Spent(Head(port).type = "action") <= Cardinality(Announced(port))
  BY <1>1, <1>2, AnnouncementTaken
<1>8. PICK n, c, d, g : n = Len(writes) /\ c = Cardinality(Announced(port)) /\ d = Cardinality(Announced(port')) /\ g = gestures
  OBVIOUS
<1>9. n \in Nat /\ c \in Nat /\ d \in Nat /\ g \in Nat
  BY <1>2, <1>7, <1>8, FS_CardinalityType
<1>10. n + c + Spent(pending.id # NoRequest) + Spent(turn) <= g /\ d + Spent(Head(port).type = "action") <= c
  BY <1>7, <1>8 DEF ClipboardInv, GestureSpentOnce
<1>11. NoRequest \notin RequestIds /\ 0 \in 0..MaxEpoch /\ 0 \in 0..(MaxEpoch + 1)
  BY DEF ClipboardAssumption
<1>12. CASE Head(port).type = "action" /\ AdmitAction(k, Head(port).id)
  <2>1. /\ pending' = [id |-> Head(port).id, epoch |-> k.epoch, gen |-> k.gen, refused |-> ~k.allowed, late |-> FALSE]
        /\ writes' = writes
    BY <1>12 DEF AdmitAction
  <2>2. /\ pending' \in [id : RequestIds \cup {NoRequest}, epoch : 0 .. MaxEpoch,
                         gen : 0 .. MaxEpoch + 1, refused : BOOLEAN, late : BOOLEAN]
    BY <1>3, <1>5, <2>1
  <2>3. n + d + 1 + Spent(turn) <= g
    BY <1>9, <1>10, <1>12 DEF Spent
  <2>4. Spent(pending'.id # NoRequest) = 1
    BY <1>3, <1>11, <2>1 DEF Spent
  <2>5. GestureSpentOnce'
    BY <1>1, <1>7, <1>8, <2>1, <2>3, <2>4 DEF GestureSpentOnce
  <2>6. ClipboardTypeOK'
    BY <1>1, <1>2, <1>3, <1>4, <1>5, <2>1, <2>2 DEF ClipboardTypeOK, Messages, WriteType
  <2>7. WritesUnderStandingAccess
    BY <1>8, <1>9, <2>1 DEF WritesUnderStandingAccess
  <2>8. QED
    BY <1>6, <2>5, <2>6, <2>7 DEF ClipboardInv
<1>13. CASE Head(port).type = "request" /\ Dispatch(k, Head(port).id)
  <2> DEFINE serves == /\ pending.id = Head(port).id /\ pending.gen = k.gen /\ pending.epoch = k.epoch
                       /\ ~pending.refused /\ ~pending.late /\ k.allowed
             new == [id |-> Head(port).id, state |-> "open", answered |-> FALSE]
  <2>1. /\ pending' = NoPending
        /\ writes' = IF serves THEN Append(writes, new) ELSE writes
    BY <1>13 DEF Dispatch
  <2>2. Spent(pending'.id # NoRequest) = 0
    BY <2>1 DEF NoPending, Spent
  <2>3. /\ pending' \in [id : RequestIds \cup {NoRequest}, epoch : 0 .. MaxEpoch,
                         gen : 0 .. MaxEpoch + 1, refused : BOOLEAN, late : BOOLEAN]
    BY <1>11, <2>1 DEF NoPending
  <2>4. new \in WriteType
    BY <1>3 DEF WriteType
  <2>5. /\ writes' \in Seq(WriteType) /\ Len(writes') = IF serves THEN n + 1 ELSE n
    BY <1>2, <1>8, <2>1, <2>4
  <2>6. serves => Spent(pending.id # NoRequest) = 1
    BY <1>3, <1>11 DEF Spent
  <2>7. serves => access.allowed /\ pending.epoch = access.epoch
    BY <1>5
  <2> HIDE DEF serves, new
  <2>8. Len(writes') + d + 0 + Spent(turn) <= g
    BY <1>9, <1>10, <2>5, <2>6 DEF Spent
  <2>9. GestureSpentOnce'
    BY <1>1, <1>7, <1>8, <2>2, <2>8 DEF GestureSpentOnce
  <2>10. ClipboardTypeOK'
    BY <1>1, <1>2, <1>3, <1>4, <1>5, <2>3, <2>5 DEF ClipboardTypeOK, Messages, WriteType
  <2>11. WritesUnderStandingAccess
    BY <1>8, <1>9, <2>5, <2>7 DEF WritesUnderStandingAccess
  <2>12. QED
    BY <1>6, <2>9, <2>10, <2>11 DEF ClipboardInv
<1>14. QED
  BY <1>1, <1>4, <1>12, <1>13

\* The browser answers, or does not in time.
LEMMA AnswersKeepClipboard ==
  ASSUME ClipboardInv, NEW i \in DOMAIN writes, WriteSettles(i) \/ WriteTimesOut(i)
  PROVE  ClipboardInv' /\ Len(writes') = Len(writes)
<1>1. writes \in Seq(WriteType) /\ i \in 1..Len(writes)
  BY DEF ClipboardInv, ClipboardTypeOK, WriteType
<1>2. PICK w \in WriteType : writes' = [writes EXCEPT ![i] = w]
  <2>1. writes[i] \in WriteType
    BY <1>1
  <2>2. CASE WriteSettles(i)
    <3>1. PICK s \in {"written", "failed"} : writes' = [writes EXCEPT ![i] = [@ EXCEPT !.state = s, !.answered = TRUE]]
      BY <2>2 DEF WriteSettles
    <3>2. [writes[i] EXCEPT !.state = s, !.answered = TRUE] \in WriteType
      BY <2>1 DEF WriteType
    <3>3. QED
      BY <3>1, <3>2
  <2>3. CASE WriteTimesOut(i)
    <3>1. [writes[i] EXCEPT !.answered = TRUE] \in WriteType
      BY <2>1 DEF WriteType
    <3>2. writes' = [writes EXCEPT ![i] = [writes[i] EXCEPT !.answered = TRUE]]
      BY <2>3 DEF WriteTimesOut
    <3>3. QED
      BY <3>1, <3>2
  <2>4. QED
    BY <2>2, <2>3
<1>3. writes' \in Seq(WriteType) /\ Len(writes') = Len(writes)
  BY <1>1, <1>2
<1>4. UNCHANGED <<turn, gestures, port, access, known, pending, disposed>>
  BY DEF WriteSettles, WriteTimesOut
<1>5. QED
  BY <1>3, <1>4 DEF ClipboardInv, ClipboardTypeOK, GestureSpentOnce, AccessKnown, WriteType

LEMMA DisposeKeepsClipboard ==
  ASSUME ClipboardAssumption, ClipboardInv, DisposeDispatcher
  PROVE  ClipboardInv'
<1>1. disposed' = TRUE /\ pending' = NoPending /\ port' = <<>> /\ UNCHANGED <<turn, gestures, access, known, writes>>
  BY DEF DisposeDispatcher
<1>2. Announced(port') = {} /\ IsFiniteSet({}) /\ Cardinality({}) = 0
  BY <1>1, FS_EmptySet DEF Announced
<1>3. PICK n, c : n = Len(writes) /\ c = Cardinality(Announced(port))
  OBVIOUS
<1>4. n \in Nat /\ c \in Nat /\ gestures \in Nat
  BY <1>3, FS_CardinalityType DEF ClipboardInv, ClipboardTypeOK, GestureSpentOnce
<1>5. n + c + Spent(pending.id # NoRequest) + Spent(turn) <= gestures
  BY <1>3 DEF ClipboardInv, GestureSpentOnce
<1>6. Spent(pending'.id # NoRequest) = 0
  BY <1>1 DEF NoPending, Spent
<1>7. n + 0 + 0 + Spent(turn) <= gestures
  BY <1>4, <1>5 DEF Spent
<1>8. GestureSpentOnce'
  BY <1>1, <1>2, <1>3, <1>6, <1>7 DEF GestureSpentOnce
<1>9. 0 \in 0..MaxEpoch /\ 0 \in 0..(MaxEpoch + 1)
  BY DEF ClipboardAssumption
<1>10. QED
  BY <1>1, <1>8, <1>9 DEF ClipboardInv, ClipboardTypeOK, AccessKnown, NoPending

LEMMA ClipboardStarts ==
  ASSUME ClipboardAssumption, ClipboardInit
  PROVE  ClipboardInv
<1>1. /\ turn = FALSE /\ gestures = 0 /\ port = <<>> /\ access \in Access /\ access.epoch = 0
      /\ known = [allowed |-> access.allowed, epoch |-> 0, gen |-> 0]
      /\ pending = NoPending /\ disposed = FALSE /\ writes = <<>>
  BY DEF ClipboardInit
<1>2. Announced(port) = {} /\ IsFiniteSet({}) /\ Cardinality({}) = 0 /\ Len(writes) = 0
  BY <1>1, FS_EmptySet DEF Announced
<1>3. Spent(pending.id # NoRequest) = 0 /\ Spent(turn) = 0
  BY <1>1 DEF NoPending, Spent
<1>4. GestureSpentOnce
  <2>1. IsFiniteSet(Announced(port)) /\ Cardinality(Announced(port)) = 0
    BY <1>2
  <2>2. 0 + 0 + 0 + 0 <= 0
    OBVIOUS
  <2>3. QED
    BY <1>1, <1>2, <1>3, <2>1, <2>2 DEF GestureSpentOnce
<1>5. 0 \in 0..MaxEpoch /\ 0 \in 0..(MaxEpoch + 1) /\ 0 \in 0..MaxGestures
  BY DEF ClipboardAssumption
<1>6. port \in Seq([type : {"action", "request"}, id : RequestIds]) /\ writes \in Seq(WriteType)
  BY <1>1
<1>7. access.allowed \in BOOLEAN
  BY <1>1 DEF Access
<1>8. /\ known \in [allowed : BOOLEAN, epoch : 0 .. MaxEpoch, gen : 0 .. MaxEpoch + 1]
      /\ pending \in [id : RequestIds \cup {NoRequest}, epoch : 0 .. MaxEpoch,
                      gen : 0 .. MaxEpoch + 1, refused : BOOLEAN, late : BOOLEAN]
  BY <1>1, <1>5, <1>7 DEF NoPending
<1>9. AccessKnown
  BY <1>1, <1>7 DEF AccessKnown
<1>10. ClipboardTypeOK
  BY <1>1, <1>5, <1>6, <1>8 DEF ClipboardTypeOK, WriteType
<1>11. QED
  BY <1>4, <1>9, <1>10 DEF ClipboardInv

\* For any number of requests, gestures and messages: the clipboard is written at
\* most once for each trusted gesture, and only under an access that allows it and
\* that its announcement was made under.
THEOREM ClipboardIsAlwaysGuarded ==
  ASSUME ClipboardAssumption
  PROVE  ClipboardSpec => ClipboardIsGuarded
<1>1. ClipboardInit => ClipboardInv
  BY ClipboardStarts
<1>2. ClipboardInv /\ [ClipboardNext]_clipboardVars => ClipboardInv'
  <2> SUFFICES ASSUME ClipboardInv, [ClipboardNext]_clipboardVars PROVE ClipboardInv'
    OBVIOUS
  <2>1. CASE ClipboardNext
    BY <2>1, FrameKeepsClipboard, SendsKeepClipboard, PageTakesKeeps, AnswersKeepClipboard, DisposeKeepsClipboard
    DEF ClipboardNext
  <2>2. CASE UNCHANGED clipboardVars
    BY <2>2 DEF clipboardVars, ClipboardInv, ClipboardTypeOK, GestureSpentOnce, AccessKnown
  <2>3. QED
    BY <2>1, <2>2
<1>3. ClipboardInv => ClipboardTypeOK /\ WritesByGesture
  <2> SUFFICES ASSUME ClipboardInv PROVE WritesByGesture
    BY DEF ClipboardInv
  <2>1. PICK n, c : n = Len(writes) /\ c = Cardinality(Announced(port))
    OBVIOUS
  <2>2. n \in Nat /\ c \in Nat /\ gestures \in Nat
    BY <2>1, FS_CardinalityType DEF ClipboardInv, ClipboardTypeOK, GestureSpentOnce
  <2>3. n + c + Spent(pending.id # NoRequest) + Spent(turn) <= gestures
    BY <2>1 DEF ClipboardInv, GestureSpentOnce
  <2>4. n <= gestures
    BY <2>2, <2>3 DEF Spent
  <2>5. QED
    BY <2>1, <2>4 DEF WritesByGesture
<1>4. ClipboardInv /\ [ClipboardNext]_clipboardVars => [WritesUnderStandingAccess]_clipboardVars
  <2> SUFFICES ASSUME ClipboardInv, ClipboardNext PROVE WritesUnderStandingAccess
    BY DEF clipboardVars
  <2>1. CASE PageTakes
    BY <2>1, PageTakesKeeps
  <2>2. CASE writes' = writes
    <3>1. Len(writes) \in Nat
      BY DEF ClipboardInv, ClipboardTypeOK
    <3>2. QED
      BY <2>2, <3>1 DEF WritesUnderStandingAccess
  <2>3. ASSUME NEW i \in DOMAIN writes, WriteSettles(i) \/ WriteTimesOut(i) PROVE WritesUnderStandingAccess
    <3>1. Len(writes') = Len(writes) /\ Len(writes) \in Nat
      BY <2>3, AnswersKeepClipboard DEF ClipboardInv, ClipboardTypeOK
    <3>2. QED
      BY <3>1 DEF WritesUnderStandingAccess
  <2>4. QED
    BY <2>1, <2>2, <2>3
    DEF ClipboardNext, Gesture, TurnEnds, AccessChanges, PendingAges, DisposeDispatcher, UserAction, RequestCapability
<1>5. QED
  BY <1>1, <1>2, <1>3, <1>4, PTL DEF ClipboardSpec, ClipboardIsGuarded

----------------------------------------------------------------------------
(***************************************************************************)
(* Navigation: the inductive invariant                                     *)
(*                                                                         *)
(* While navigation was never switched off, the intents on their way lead  *)
(* step by step from the pan the admission has open to the pan the         *)
(* scheduler has open.                                                     *)
(***************************************************************************)

\* The pan that is open before an intent, and after it.
PanBefore(m) == IF m.type \in {"start", "wheel"} THEN NoPointer ELSE m.id
PanAfter(m) == IF m.type \in {"start", "move"} THEN m.id ELSE NoPointer

Chained(first, intents, last) ==
  IF intents = <<>> THEN first = last
  ELSE /\ PanBefore(intents[1]) = first /\ PanAfter(intents[Len(intents)]) = last
       /\ \A i \in 1..(Len(intents) - 1) : PanAfter(intents[i]) = PanBefore(intents[i + 1])

Open(p) == IF p.sent THEN p.id ELSE NoPointer

PanSound == (pan.sent => pan.id # NoPointer) /\ (pan.id = NoPointer => pan = NoPan)

DownTyped == down \in [runner : Seq(BOOLEAN), inner : Seq(BOOLEAN)]

\* Whatever reached the frame passed the runner before.
SwitchedOn ==
  /\ \A i \in 1..Len(down.runner) : down.runner[i] = TRUE
  /\ \A i \in 1..Len(down.inner) : down.inner[i] = TRUE
  /\ inner.enabled \/ down.inner # <<>> \/ pan.id # NoPointer \/ wheel > 0 \/ up # <<>> => adm.armed

NeverOff == mode.switches <= 1 => SwitchedOn /\ ~dropped /\ Chained(adm.pointer, up, Open(pan))

NavigationInv ==
  /\ NavigationTypeOK /\ DownTyped /\ PanSound /\ PendingIsArmed /\ OffIsEmpty
  /\ mode.switches = 0 => mode.actual = FALSE
  /\ NeverOff

\* An intent that continues from the scheduler's pan lengthens the chain.
LEMMA ChainSent ==
  ASSUME NEW a, NEW b, NEW s \in Seq(Intents), NEW m \in Intents, Chained(a, s, b), PanBefore(m) = b
  PROVE  Chained(a, Append(s, m), PanAfter(m))
<1> DEFINE longer == Append(s, m)
<1>1. /\ longer \in Seq(Intents) /\ Len(longer) = Len(s) + 1 /\ longer[Len(s) + 1] = m /\ Len(s) \in Nat
      /\ \A i \in 1..Len(s) : longer[i] = s[i]
  OBVIOUS
<1>2. longer # <<>> /\ (s = <<>> <=> Len(s) = 0)
  BY <1>1
<1> HIDE DEF longer
<1>3. CASE s = <<>>
  <2>1. Len(longer) = 1 /\ longer[1] = m
    BY <1>1, <1>2, <1>3
  <2>2. a = b
    BY <1>3 DEF Chained
  <2>3. \A i \in 1..(Len(longer) - 1) : FALSE
    BY <2>1
  <2>4. Chained(a, longer, PanAfter(m))
    BY <1>2, <2>1, <2>2, <2>3 DEF Chained
  <2>5. QED
    BY <2>4 DEF longer
<1>4. CASE s # <<>>
  <2>1. /\ PanBefore(s[1]) = a /\ PanAfter(s[Len(s)]) = b /\ Len(s) > 0
        /\ \A i \in 1..(Len(s) - 1) : PanAfter(s[i]) = PanBefore(s[i + 1])
    BY <1>1, <1>2, <1>4 DEF Chained
  <2>2. longer[1] = s[1] /\ longer[Len(longer)] = m /\ Len(longer) - 1 = Len(s)
    BY <1>1, <2>1
  <2>3. ASSUME NEW i \in 1..Len(s) PROVE PanAfter(longer[i]) = PanBefore(longer[i + 1])
    <3>1. CASE i = Len(s)
      BY <1>1, <2>1, <3>1
    <3>2. CASE i # Len(s)
      <4>1. i \in 1..(Len(s) - 1) /\ i + 1 \in 1..Len(s)
        BY <1>1, <3>2
      <4>2. QED
        BY <1>1, <2>1, <4>1
    <3>3. QED
      BY <3>1, <3>2
  <2>4. Chained(a, longer, PanAfter(m))
    BY <1>2, <2>1, <2>2, <2>3 DEF Chained
  <2>5. QED
    BY <2>4 DEF longer
<1>5. QED
  BY <1>3, <1>4

\* The first intent continues from the admission's pan.
LEMMA ChainTaken ==
  ASSUME NEW a, NEW b, NEW s \in Seq(Intents), s # <<>>, Chained(a, s, b)
  PROVE  PanBefore(Head(s)) = a /\ Chained(PanAfter(Head(s)), Tail(s), b)
<1> DEFINE rest == Tail(s)
<1>1. /\ rest \in Seq(Intents) /\ Len(rest) = Len(s) - 1 /\ Len(s) \in Nat /\ Len(s) > 0 /\ Head(s) = s[1]
      /\ \A i \in 1..Len(rest) : rest[i] = s[i + 1]
  OBVIOUS
<1>2. rest = <<>> <=> Len(rest) = 0
  <2> HIDE DEF rest
  <2>1. QED
    BY <1>1
<1>3. /\ PanBefore(s[1]) = a /\ PanAfter(s[Len(s)]) = b
      /\ \A i \in 1..(Len(s) - 1) : PanAfter(s[i]) = PanBefore(s[i + 1])
  BY DEF Chained
<1> HIDE DEF rest
<1>4. CASE Len(rest) = 0
  BY <1>1, <1>2, <1>3, <1>4 DEF Chained, rest
<1>5. CASE Len(rest) # 0
  <2>1. Len(rest) \in Nat /\ Len(rest) > 0 /\ 1 \in 1..(Len(s) - 1) /\ 1 \in 1..Len(rest) /\ Len(rest) \in 1..Len(rest)
        /\ Len(rest) + 1 = Len(s) /\ 1 + 1 = 2
    BY <1>1, <1>5
  <2>2. PanBefore(rest[1]) = PanAfter(s[1]) /\ PanAfter(rest[Len(rest)]) = b
    BY <1>1, <1>3, <2>1
  <2>3. \A i \in 1..(Len(rest) - 1) : /\ i \in 1..Len(rest) /\ i + 1 \in 1..Len(rest)
                                      /\ i + 1 \in 1..(Len(s) - 1)
    BY <1>1, <2>1
  <2>4. \A i \in 1..(Len(rest) - 1) : PanAfter(rest[i]) = PanBefore(rest[i + 1])
    BY <1>1, <1>3, <2>3
  <2>5. Chained(PanAfter(s[1]), rest, b)
    BY <1>2, <1>5, <2>2, <2>4 DEF Chained
  <2>6. QED
    BY <1>1, <1>3, <2>5 DEF rest
<1>6. QED
  BY <1>4, <1>5

PanType == [id : Ids, sent : BOOLEAN, delta : 0..MaxDelta, terminal : {"none", "end", "cancel"}]

\* What an event of the frame makes of its pan and its wheel.
Continued(p, w) ==
  /\ p \in PanType /\ w \in 0..MaxDelta /\ Arm(p, w)
  /\ inner' \in [enabled : BOOLEAN, active : Ids] /\ inner'.enabled
  /\ inner'.active # NoPointer => p.id = inner'.active /\ p.terminal = "none"
  /\ (p.sent => p.id # NoPointer) /\ (p.id = NoPointer => p = NoPan)
  /\ Open(p) = Open(pan)
  /\ UNCHANGED <<mode, down, up, adm, visible, dropped>>

\* The pointer events and the wheel leave the pan open that was open.
LEMMA EventsContinue ==
  ASSUME NavigationAssumption, NavigationInv,
         (\E id \in Pointers : PointerDown(id)) \/ PointerMove \/ PointerUp \/ PointerLost \/ Wheel
  PROVE  inner.enabled /\ \E p, w : Continued(p, w)
<1>1. /\ pan \in PanType /\ wheel \in 0..MaxDelta /\ inner \in [enabled : BOOLEAN, active : Ids]
      /\ inner.active # NoPointer => pan.id = inner.active /\ pan.terminal = "none" /\ inner.enabled
      /\ (pan.sent => pan.id # NoPointer) /\ (pan.id = NoPointer => pan = NoPan)
  BY DEF NavigationInv, NavigationTypeOK, PanType, PanSound, OffIsEmpty
<1>2. NoPointer \in Ids /\ NoPointer \notin Pointers /\ Pointers \subseteq Ids /\ MaxDelta \in Nat /\ 0 \in 0..MaxDelta
  BY DEF NavigationAssumption, Ids
<1>3. NoPan \in PanType /\ NoPan.id = NoPointer /\ ~NoPan.sent
  BY <1>2 DEF NoPan, PanType
<1>4. ASSUME NEW id \in Pointers, PointerDown(id)
      PROVE  inner.enabled /\ \E p, w : Continued(p, w)
  <2> DEFINE p == [NoPan EXCEPT !.id = id]
  <2>1. /\ inner.enabled /\ inner' = [inner EXCEPT !.active = id] /\ Arm(p, wheel) /\ pan.id = NoPointer
        /\ UNCHANGED <<mode, down, up, adm, visible, dropped>>
    BY <1>4 DEF PointerDown
  <2>2. p \in PanType /\ p.id = id /\ ~p.sent /\ p.terminal = "none" /\ id # NoPointer
    BY <1>2 DEF NoPan, PanType
  <2>3. Open(p) = Open(pan)
    BY <1>1, <2>1, <2>2 DEF Open
  <2>4. Continued(p, wheel)
    BY <1>1, <1>2, <2>1, <2>2, <2>3 DEF Continued
  <2>5. QED
    BY <2>1, <2>4
<1>5. CASE PointerMove
  <2> DEFINE p == [pan EXCEPT !.delta = @ + 1]
  <2>1. /\ inner.enabled /\ inner.active # NoPointer /\ pan.delta < MaxDelta /\ Arm(p, wheel)
        /\ UNCHANGED <<mode, down, up, inner, adm, visible, dropped>>
    BY <1>5 DEF PointerMove
  <2>2. pan.delta \in 0..MaxDelta /\ pan.delta + 1 \in 0..MaxDelta
    BY <1>1, <1>2, <2>1 DEF PanType
  <2>3. p \in PanType /\ p.id = pan.id /\ p.sent = pan.sent /\ p.terminal = pan.terminal
    BY <1>1, <2>2 DEF PanType
  <2>4. Continued(p, wheel)
    BY <1>1, <2>1, <2>3 DEF Continued, Open
  <2>5. QED
    BY <2>1, <2>4
<1>6. CASE PointerUp
  <2> DEFINE p == [pan EXCEPT !.terminal = "end"]
  <2>1. /\ inner.active # NoPointer /\ inner' = [inner EXCEPT !.active = NoPointer] /\ Arm(p, wheel)
        /\ UNCHANGED <<mode, down, up, adm, visible, dropped>>
    BY <1>6 DEF PointerUp
  <2>2. p \in PanType /\ p.id = pan.id /\ p.sent = pan.sent
    BY <1>1 DEF PanType
  <2>3. Continued(p, wheel)
    BY <1>1, <1>2, <2>1, <2>2 DEF Continued, Open
  <2>4. QED
    BY <1>1, <2>1, <2>3
<1>7. CASE PointerLost
  <2> DEFINE p == Cancelled(pan)
  <2>1. /\ inner.active # NoPointer /\ inner' = [inner EXCEPT !.active = NoPointer] /\ Arm(p, wheel)
        /\ UNCHANGED <<mode, down, up, adm, visible, dropped>>
    BY <1>7 DEF PointerLost
  <2>2. p \in PanType /\ (p = NoPan \/ (pan.sent /\ p.id = pan.id)) /\ p.sent = pan.sent
    BY <1>1, <1>2, <1>3 DEF PanType, Cancelled
  <2>3. Continued(p, wheel)
    BY <1>1, <1>2, <1>3, <2>1, <2>2 DEF Continued, Open
  <2>4. QED
    BY <1>1, <2>1, <2>3
<1>8. CASE Wheel
  <2>1. PICK w \in 0..MaxDelta : Arm(pan, w)
    BY <1>8 DEF Wheel
  <2>2. inner.enabled /\ UNCHANGED <<mode, down, up, inner, adm, visible, dropped>>
    BY <1>8 DEF Wheel
  <2>3. Continued(pan, w)
    BY <1>1, <2>1, <2>2 DEF Continued
  <2>4. QED
    BY <2>2, <2>3
<1>9. QED
  BY <1>4, <1>5, <1>6, <1>7, <1>8

LEMMA EventsKeepNavigation ==
  ASSUME NavigationAssumption, NavigationInv,
         (\E id \in Pointers : PointerDown(id)) \/ PointerMove \/ PointerUp \/ PointerLost \/ Wheel
  PROVE  NavigationInv'
<1>1. PICK p, w : Continued(p, w)
  BY EventsContinue
<1>2. inner.enabled
  BY EventsContinue
<1>3. /\ p \in PanType /\ w \in 0..MaxDelta /\ pan' = p /\ wheel' = w /\ timer' = (timer \/ Pending(p, w))
      /\ inner' \in [enabled : BOOLEAN, active : Ids] /\ inner'.enabled
      /\ inner'.active # NoPointer => p.id = inner'.active /\ p.terminal = "none"
      /\ (p.sent => p.id # NoPointer) /\ (p.id = NoPointer => p = NoPan)
      /\ Open(p) = Open(pan)
      /\ UNCHANGED <<mode, down, up, adm, visible, dropped>>
  BY <1>1 DEF Continued, Arm
<1>4. timer' \in BOOLEAN
  BY <1>3
<1>5. NavigationTypeOK'
  BY <1>3, <1>4 DEF NavigationInv, NavigationTypeOK, PanType
<1>6. PendingIsArmed'
  <2>1. Pending(p, w) => timer'
    BY <1>3
  <2>2. QED
    BY <1>3, <2>1 DEF PendingIsArmed, Pending
<1>7. PanSound' /\ OffIsEmpty' /\ DownTyped'
  BY <1>3 DEF NavigationInv, PanSound, OffIsEmpty, DownTyped
<1>8. NeverOff'
  <2>1. ASSUME mode'.switches <= 1 PROVE SwitchedOn' /\ ~dropped' /\ Chained(adm'.pointer, up', Open(pan'))
    <3>1. SwitchedOn /\ ~dropped /\ Chained(adm.pointer, up, Open(pan))
      BY <1>3, <2>1 DEF NavigationInv, NeverOff
    <3>2. SwitchedOn'
      BY <1>2, <1>3, <3>1 DEF SwitchedOn
    <3>3. QED
      BY <1>3, <3>1, <3>2
  <2>2. QED
    BY <2>1 DEF NeverOff
<1>9. QED
  BY <1>3, <1>5, <1>6, <1>7, <1>8 DEF NavigationInv

\* The host switches; the runner and the frame follow.
LEMMA SwitchKeepsNavigation ==
  ASSUME NavigationAssumption, NavigationInv, Switch
  PROVE  NavigationInv'
<1>1. mode.actual \in BOOLEAN /\ mode.switches \in Nat /\ (mode.switches = 0 => mode.actual = FALSE)
  BY DEF NavigationInv, NavigationTypeOK
<1>2. PICK on \in BOOLEAN : on = ~mode.actual /\ (mode.actual = FALSE => on = TRUE)
  <2>1. CASE mode.actual = TRUE
    BY <2>1
  <2>2. CASE mode.actual = FALSE
    BY <2>2
  <2>3. QED
    BY <1>1, <2>1, <2>2
<1>3. PICK r \in Seq(BOOLEAN), i \in Seq(BOOLEAN) : r = down.runner /\ i = down.inner
  BY DEF NavigationInv, DownTyped
<1>4. PICK longer : longer = Append(r, on)
  OBVIOUS
<1>5. /\ mode.switches < MaxSwitches
      /\ mode' = [actual |-> on, switches |-> mode.switches + 1]
      /\ mode'.actual = on
      /\ down' = [down EXCEPT !.runner = Append(@, mode'.actual)]
      /\ UNCHANGED <<up, inner, pan, wheel, timer, adm, visible, dropped>>
  BY <1>2 DEF Switch
<1>6. longer \in Seq(BOOLEAN)
  BY <1>2, <1>4, AppendProperties
<1>7. down' = [runner |-> longer, inner |-> i]
  <2>1. down' = [down EXCEPT !.runner = longer]
    BY <1>3, <1>4, <1>5
  <2>2. QED
    BY <1>3, <2>1 DEF NavigationInv, DownTyped
<1>8. mode.switches + 1 \in 0..MaxSwitches /\ mode.switches + 1 # 0 /\ (mode.switches + 1 <= 1 => mode.switches = 0)
  BY <1>1, <1>5 DEF NavigationAssumption
<1>9. mode' \in [actual : BOOLEAN, switches : 0..MaxSwitches] /\ mode'.switches = mode.switches + 1
  BY <1>2, <1>5, <1>8
<1>10. down'.runner = longer /\ down'.inner = i /\ DownTyped'
  BY <1>3, <1>6, <1>7 DEF DownTyped
<1>11. NavigationTypeOK'
  BY <1>3, <1>5, <1>6, <1>9, <1>10 DEF NavigationInv, NavigationTypeOK
<1>12. PanSound' /\ PendingIsArmed' /\ OffIsEmpty'
  BY <1>5 DEF NavigationInv, PanSound, PendingIsArmed, OffIsEmpty
<1>13. NeverOff'
  <2>1. ASSUME mode'.switches <= 1 PROVE SwitchedOn' /\ ~dropped' /\ Chained(adm'.pointer, up', Open(pan'))
    <3>1. mode.switches = 0
      BY <1>8, <1>9, <2>1
    <3>2. on = TRUE
      BY <1>1, <1>2, <3>1
    <3>3. SwitchedOn /\ ~dropped /\ Chained(adm.pointer, up, Open(pan))
      BY <3>1 DEF NavigationInv, NeverOff
    <3>4. \A k \in 1..Len(longer) : longer[k] = TRUE
      <4>1. \A k \in 1..Len(r) : r[k] = TRUE
        BY <1>3, <3>3 DEF SwitchedOn
      <4>2. Len(longer) = Len(r) + 1 /\ longer[Len(r) + 1] = on /\ \A k \in 1..Len(r) : longer[k] = r[k]
        BY <1>2, <1>4, AppendProperties
      <4>3. Len(r) \in Nat
        BY <1>3
      <4>4. ASSUME NEW k \in 1..Len(longer) PROVE longer[k] = TRUE
        <5>1. k \in 1..Len(r) \/ k = Len(r) + 1
          BY <4>2, <4>3
        <5>2. QED
          BY <3>2, <4>1, <4>2, <5>1
      <4>5. QED
        BY <4>4
    <3>5. SwitchedOn'
      BY <1>3, <1>5, <1>10, <3>3, <3>4 DEF SwitchedOn
    <3>6. QED
      BY <1>5, <3>3, <3>5
  <2>2. QED
    BY <2>1 DEF NeverOff
<1>14. QED
  BY <1>8, <1>9, <1>10, <1>11, <1>12, <1>13 DEF NavigationInv

LEMMA RunnerSetKeepsNavigation ==
  ASSUME NavigationAssumption, NavigationInv, RunnerSet
  PROVE  NavigationInv'
<1>1. PICK r \in Seq(BOOLEAN), i \in Seq(BOOLEAN) : r = down.runner /\ i = down.inner
  BY DEF NavigationInv, DownTyped
<1>2. PICK on : on = Head(r)
  OBVIOUS
<1>3. /\ r # <<>> /\ adm' = [adm EXCEPT !.armed = on]
      /\ down' = [runner |-> Tail(r), inner |-> Append(i, on)]
      /\ UNCHANGED <<mode, up, inner, pan, wheel, timer, visible, dropped>>
  BY <1>1, <1>2 DEF RunnerSet
<1>4. on \in BOOLEAN /\ Tail(r) \in Seq(BOOLEAN) /\ Append(i, on) \in Seq(BOOLEAN)
  BY <1>2, <1>3
<1>5. adm \in [armed : BOOLEAN, pointer : Ids]
  BY DEF NavigationInv, NavigationTypeOK
<1>6. adm' \in [armed : BOOLEAN, pointer : Ids] /\ adm'.pointer = adm.pointer /\ adm'.armed = on
  BY <1>3, <1>4, <1>5
<1>7. NavigationTypeOK' /\ DownTyped' /\ PanSound' /\ PendingIsArmed' /\ OffIsEmpty'
  BY <1>3, <1>4, <1>6 DEF NavigationInv, NavigationTypeOK, DownTyped, PanSound, PendingIsArmed, OffIsEmpty
<1>8. NeverOff'
  <2>1. ASSUME mode'.switches <= 1 PROVE SwitchedOn' /\ ~dropped' /\ Chained(adm'.pointer, up', Open(pan'))
    <3>1. SwitchedOn /\ ~dropped /\ Chained(adm.pointer, up, Open(pan))
      BY <1>3, <2>1 DEF NavigationInv, NeverOff
    <3>2. (\A k \in 1..Len(r) : r[k] = TRUE) /\ (\A k \in 1..Len(i) : i[k] = TRUE)
      BY <1>1, <3>1 DEF SwitchedOn
    <3>3. on = TRUE /\ \A k \in 1..Len(Tail(r)) : Tail(r)[k] = TRUE
      <4>1. Len(r) \in Nat /\ Len(r) > 0 /\ Head(r) = r[1] /\ 1 \in 1..Len(r)
        BY <1>3
      <4>2. Len(Tail(r)) = Len(r) - 1 /\ \A k \in 1..(Len(r) - 1) : Tail(r)[k] = r[k + 1] /\ k + 1 \in 1..Len(r)
        BY <1>3
      <4>3. QED
        BY <1>2, <3>2, <4>1, <4>2
    <3>4. \A k \in 1..Len(Append(i, on)) : Append(i, on)[k] = TRUE
      <4>1. Len(Append(i, on)) = Len(i) + 1 /\ Append(i, on)[Len(i) + 1] = on /\ \A k \in 1..Len(i) : Append(i, on)[k] = i[k]
        BY <1>4, AppendProperties
      <4>2. QED
        BY <3>2, <3>3, <4>1
    <3>5. SwitchedOn'
      BY <1>3, <1>6, <3>3, <3>4 DEF SwitchedOn
    <3>6. QED
      BY <1>3, <1>6, <3>1, <3>5
  <2>2. QED
    BY <2>1 DEF NeverOff
<1>9. QED
  BY <1>3, <1>7, <1>8 DEF NavigationInv

LEMMA InnerSetKeepsNavigation ==
  ASSUME NavigationAssumption, NavigationInv, InnerSet
  PROVE  NavigationInv'
<1>1. PICK r \in Seq(BOOLEAN), i \in Seq(BOOLEAN) : r = down.runner /\ i = down.inner
  BY DEF NavigationInv, DownTyped
<1>2. PICK on : on = Head(i)
  OBVIOUS
<1>3. /\ i # <<>> /\ down' = [runner |-> r, inner |-> Tail(i)]
      /\ UNCHANGED <<mode, up, adm, visible, dropped>>
  BY <1>1 DEF InnerSet, NavigationInv, DownTyped
<1>4. on \in BOOLEAN /\ Tail(i) \in Seq(BOOLEAN)
  BY <1>2, <1>3
<1>5. /\ inner \in [enabled : BOOLEAN, active : Ids] /\ pan \in PanType
      /\ NoPointer \in Ids /\ 0 \in 0..MaxDelta
      /\ (pan.sent => pan.id # NoPointer) /\ (pan.id = NoPointer => pan = NoPan)
  BY DEF NavigationInv, NavigationTypeOK, PanType, PanSound, NavigationAssumption, Ids
<1>6. DownTyped' /\ down'.runner \in Seq(BOOLEAN) /\ down'.inner \in Seq(BOOLEAN)
  BY <1>3, <1>4 DEF DownTyped
<1>7. CASE on
  <2>1. inner' = [inner EXCEPT !.enabled = TRUE] /\ UNCHANGED <<pan, wheel, timer>>
    BY <1>1, <1>2, <1>7 DEF InnerSet
  <2>2. inner' \in [enabled : BOOLEAN, active : Ids] /\ inner'.enabled /\ inner'.active = inner.active
    BY <1>5, <2>1
  <2>3. NavigationTypeOK' /\ PanSound' /\ PendingIsArmed' /\ OffIsEmpty'
    BY <1>3, <1>6, <2>1, <2>2 DEF NavigationInv, NavigationTypeOK, PanSound, PendingIsArmed, OffIsEmpty
  <2>4. NeverOff'
    <3>1. ASSUME mode'.switches <= 1 PROVE SwitchedOn' /\ ~dropped' /\ Chained(adm'.pointer, up', Open(pan'))
      <4>1. SwitchedOn /\ ~dropped /\ Chained(adm.pointer, up, Open(pan))
        BY <1>3, <3>1 DEF NavigationInv, NeverOff
      <4>2. (\A k \in 1..Len(r) : r[k] = TRUE) /\ (\A k \in 1..Len(i) : i[k] = TRUE) /\ adm.armed
        BY <1>1, <1>3, <4>1 DEF SwitchedOn
      <4>3. \A k \in 1..Len(Tail(i)) : Tail(i)[k] = TRUE
        <5>1. Len(Tail(i)) = Len(i) - 1 /\ \A k \in 1..(Len(i) - 1) : Tail(i)[k] = i[k + 1] /\ k + 1 \in 1..Len(i)
          BY <1>3
        <5>2. QED
          BY <4>2, <5>1
      <4>4. SwitchedOn'
        BY <1>3, <4>2, <4>3 DEF SwitchedOn
      <4>5. QED
        BY <1>3, <2>1, <4>1, <4>4
    <3>2. QED
      BY <3>1 DEF NeverOff
  <2>5. QED
    BY <1>3, <1>6, <2>3, <2>4 DEF NavigationInv
<1>8. CASE ~on
  <2>1. /\ inner' = [enabled |-> FALSE, active |-> NoPointer]
        /\ pan' = OffPan /\ wheel' = 0 /\ timer' = (OffPan.id # NoPointer)
    BY <1>1, <1>2, <1>8 DEF InnerSet
  <2>2. /\ OffPan \in PanType /\ (OffPan.id = NoPointer => OffPan = NoPan) /\ (OffPan.sent => OffPan.id # NoPointer)
        /\ OffPan.id # NoPointer => OffPan.terminal = "cancel"
    BY <1>5 DEF OffPan, Cancelled, NoPan, PanType
  <2>3. NavigationTypeOK'
    BY <1>3, <1>5, <1>6, <2>1, <2>2 DEF NavigationInv, NavigationTypeOK, PanType
  <2>4. PanSound' /\ PendingIsArmed' /\ OffIsEmpty'
    <3>1. PICK p : p = OffPan
      OBVIOUS
    <3>2. pan' = p /\ wheel' = 0 /\ (timer' <=> p.id # NoPointer) /\ inner'.enabled = FALSE /\ inner'.active = NoPointer
      BY <2>1, <3>1
    <3>3. /\ (p.id = NoPointer => p = NoPan) /\ (p.sent => p.id # NoPointer)
          /\ (p.id # NoPointer => p.terminal = "cancel")
      BY <2>2, <3>1
    <3>4. PanSound'
      BY <3>2, <3>3 DEF PanSound
    <3>5. ~(0 > 0)
      OBVIOUS
    <3>6. PendingIsArmed'
      BY <3>2, <3>5 DEF PendingIsArmed
    <3>7. OffIsEmpty'
      BY <3>2, <3>3 DEF OffIsEmpty
    <3>8. QED
      BY <3>4, <3>6, <3>7
  <2>5. NeverOff'
    <3>1. ASSUME mode'.switches <= 1 PROVE FALSE
      <4>1. SwitchedOn
        BY <1>3, <3>1 DEF NavigationInv, NeverOff
      <4>2. Head(i) = TRUE
        <5>1. Head(i) = i[1] /\ 1 \in 1..Len(i)
          BY <1>3
        <5>2. QED
          BY <1>1, <4>1, <5>1 DEF SwitchedOn
      <4>3. QED
        BY <1>2, <1>8, <4>2
    <3>2. QED
      BY <3>1 DEF NeverOff
  <2>6. QED
    BY <1>3, <1>6, <2>3, <2>4, <2>5 DEF NavigationInv
<1>9. QED
  BY <1>7, <1>8

\* A message of the scheduler, and the pan and the wheel it leaves.
Sent(m, p, w) ==
  /\ m \in Intents /\ p \in PanType /\ w \in 0..MaxDelta
  /\ up' = Append(up, m) /\ pan' = p /\ wheel' = w
  /\ PanBefore(m) = Open(pan) /\ PanAfter(m) = Open(p)
  /\ (p.sent => p.id # NoPointer) /\ (p.id = NoPointer => p = NoPan)
  /\ (p.id # NoPointer => p.id = pan.id /\ p.terminal = pan.terminal)
  /\ (inner.active # NoPointer => p.id = pan.id)
  /\ (wheel = 0 => w = 0) /\ (pan.id # NoPointer \/ wheel > 0)

LEMMA NextMessageSends ==
  ASSUME NavigationAssumption, NavigationInv, NextMessage
  PROVE  \E m, p, w : Sent(m, p, w)
<1>1. /\ pan \in PanType /\ wheel \in 0..MaxDelta
      /\ inner.active # NoPointer => pan.id = inner.active /\ pan.terminal = "none"
      /\ (pan.sent => pan.id # NoPointer) /\ (pan.id = NoPointer => pan = NoPan)
  BY DEF NavigationInv, NavigationTypeOK, PanSound, PanType
<1>2. NoPointer \notin Pointers /\ MaxDelta \in Nat /\ NoPan \in PanType /\ NoPan.id = NoPointer /\ ~NoPan.sent
  BY DEF NavigationAssumption, Ids, NoPan, PanType
<1>3. ASSUME pan.id # NoPointer, NEW k \in {"start", "move", "end", "cancel"}
      PROVE  [type |-> k, id |-> pan.id] \in Intents
  BY <1>1, <1>3 DEF Intents, PanType, Ids
<1>4. CASE pan.id # NoPointer /\ ~pan.sent /\ Emit("start") /\ pan' = [pan EXCEPT !.sent = TRUE] /\ wheel' = wheel
  <2> DEFINE m == [type |-> "start", id |-> pan.id]
             p == [pan EXCEPT !.sent = TRUE]
  <2>1. m \in Intents /\ up' = Append(up, m) /\ pan' = p /\ wheel' = wheel
    BY <1>3, <1>4 DEF Emit
  <2>2. p \in PanType /\ p.id = pan.id /\ p.terminal = pan.terminal /\ p.sent
    BY <1>1 DEF PanType
  <2>3. PanBefore(m) = Open(pan) /\ PanAfter(m) = Open(p)
    BY <1>4, <2>2 DEF PanBefore, PanAfter, Open
  <2> HIDE DEF m, p
  <2>4. Sent(m, p, wheel)
    BY <1>1, <1>4, <2>1, <2>2, <2>3 DEF Sent
  <2>5. QED
    BY <2>4
<1>5. ASSUME NEW k \in {"end", "cancel"}, pan.sent, pan.terminal = k, Emit(k), pan' = NoPan, wheel' = wheel
      PROVE  \E m, p, w : Sent(m, p, w)
  <2> DEFINE m == [type |-> k, id |-> pan.id]
  <2>1. m \in Intents /\ up' = Append(up, m)
    BY <1>1, <1>3, <1>5 DEF Emit
  <2>2. PanBefore(m) = Open(pan) /\ PanAfter(m) = Open(NoPan)
    BY <1>2, <1>5 DEF PanBefore, PanAfter, Open
  <2>3. inner.active = NoPointer
    BY <1>1, <1>5
  <2> HIDE DEF m
  <2>4. Sent(m, NoPan, wheel)
    BY <1>1, <1>2, <1>5, <2>1, <2>2, <2>3 DEF Sent
  <2>5. QED
    BY <2>4
<1>6. CASE pan.sent /\ pan.delta > 0 /\ Emit("move") /\ pan' = [pan EXCEPT !.delta = @ - 1] /\ wheel' = wheel
  <2> DEFINE m == [type |-> "move", id |-> pan.id]
             p == [pan EXCEPT !.delta = @ - 1]
  <2>1. m \in Intents /\ up' = Append(up, m) /\ pan' = p /\ wheel' = wheel
    BY <1>1, <1>3, <1>6 DEF Emit
  <2>2. pan.delta - 1 \in 0..MaxDelta
    BY <1>1, <1>2, <1>6 DEF PanType
  <2>3. p \in PanType /\ p.id = pan.id /\ p.terminal = pan.terminal /\ p.sent = pan.sent
    BY <1>1, <2>2 DEF PanType
  <2>4. PanBefore(m) = Open(pan) /\ PanAfter(m) = Open(p)
    BY <1>6, <2>3 DEF PanBefore, PanAfter, Open
  <2> HIDE DEF m, p
  <2>5. Sent(m, p, wheel)
    BY <1>1, <1>6, <2>1, <2>3, <2>4 DEF Sent
  <2>6. QED
    BY <2>5
<1>7. CASE pan.id = NoPointer /\ wheel > 0 /\ Emit("wheel") /\ wheel' = wheel - 1 /\ pan' = pan
  <2> DEFINE m == [type |-> "wheel", id |-> NoPointer]
  <2>1. m \in Intents /\ up' = Append(up, m)
    BY <1>7 DEF Emit, Intents
  <2>2. wheel - 1 \in 0..MaxDelta /\ wheel # 0
    BY <1>1, <1>2, <1>7
  <2>3. PanBefore(m) = Open(pan) /\ PanAfter(m) = Open(pan)
    BY <1>1, <1>7 DEF PanBefore, PanAfter, Open
  <2> HIDE DEF m
  <2>4. Sent(m, pan, wheel - 1)
    BY <1>1, <1>7, <2>1, <2>2, <2>3 DEF Sent
  <2>5. QED
    BY <2>4
<1>8. QED
  BY <1>4, <1>5, <1>6, <1>7 DEF NextMessage

\* The scheduler's timer sends what continues from its pan.
LEMMA FlushKeepsNavigation ==
  ASSUME NavigationAssumption, NavigationInv, Flush
  PROVE  NavigationInv'
<1>1. /\ inner \in [enabled : BOOLEAN, active : Ids] /\ pan \in PanType /\ wheel \in 0..MaxDelta
      /\ inner.active # NoPointer => pan.id = inner.active /\ pan.terminal = "none"
      /\ (pan.sent => pan.id # NoPointer) /\ (pan.id = NoPointer => pan = NoPan)
      /\ up \in Seq(Intents) /\ Len(up) <= MaxInFlight
  BY DEF NavigationInv, NavigationTypeOK, PanSound, PanType
<1>2. NoPointer \in Ids /\ NoPointer \notin Pointers /\ MaxDelta \in Nat /\ MaxInFlight \in Nat /\ 0 \in 0..MaxDelta
  BY DEF NavigationAssumption, Ids
<1>3. UNCHANGED <<mode, down, inner, adm, visible, dropped>> /\ Len(up) < MaxInFlight
  BY DEF Flush
<1>4. CASE UNCHANGED <<pan, wheel, up>> /\ ~Pending(pan, wheel) /\ timer' = FALSE
  <2>1. PendingIsArmed'
    BY <1>4 DEF PendingIsArmed, Pending
  <2>2. NeverOff' /\ NavigationTypeOK' /\ DownTyped' /\ PanSound' /\ OffIsEmpty'
    BY <1>3, <1>4 DEF NavigationInv, NeverOff, SwitchedOn, NavigationTypeOK, DownTyped, PanSound, OffIsEmpty
  <2>3. QED
    BY <1>3, <2>1, <2>2 DEF NavigationInv
<1>5. CASE NextMessage /\ timer' = Rearm
  <2>1. PICK m, p, w : Sent(m, p, w)
    BY <1>5, NextMessageSends
  <2>2. /\ m \in Intents /\ p \in PanType /\ w \in 0..MaxDelta
        /\ up' = Append(up, m) /\ pan' = p /\ wheel' = w
        /\ PanBefore(m) = Open(pan) /\ PanAfter(m) = Open(p)
        /\ (p.sent => p.id # NoPointer) /\ (p.id = NoPointer => p = NoPan)
        /\ (p.id # NoPointer => p.id = pan.id /\ p.terminal = pan.terminal)
        /\ (inner.active # NoPointer => p.id = pan.id)
        /\ (wheel = 0 => w = 0) /\ (pan.id # NoPointer \/ wheel > 0)
    BY <2>1 DEF Sent
  <2>3. up' \in Seq(Intents) /\ Len(up') <= MaxInFlight
    BY <1>1, <1>2, <1>3, <2>2
  <2>4. timer' \in BOOLEAN /\ (Pending(p, w) => timer')
    <3>1. timer' = Pending(p, w)
      BY <1>5, <2>2 DEF Rearm
    <3>2. CASE p.id # NoPointer
      <4>1. timer' = (~p.sent \/ p.terminal # "none" \/ p.delta > 0)
        BY <3>1, <3>2 DEF Pending
      <4>2. QED
        BY <3>1, <4>1
    <3>3. CASE p.id = NoPointer
      <4>1. timer' = (w > 0)
        BY <3>1, <3>3 DEF Pending
      <4>2. QED
        BY <2>2, <3>1, <4>1
    <3>4. QED
      BY <3>2, <3>3
  <2>5. NavigationTypeOK'
    BY <1>1, <1>3, <2>2, <2>3, <2>4 DEF NavigationInv, NavigationTypeOK, PanType
  <2>6. PendingIsArmed'
    BY <2>2, <2>4 DEF PendingIsArmed, Pending
  <2>7. PanSound' /\ DownTyped'
    BY <1>3, <2>2 DEF NavigationInv, PanSound, DownTyped
  <2>8. OffIsEmpty'
    BY <1>3, <2>2 DEF NavigationInv, OffIsEmpty
  <2>9. NeverOff'
    <3>1. ASSUME mode'.switches <= 1 PROVE SwitchedOn' /\ ~dropped' /\ Chained(adm'.pointer, up', Open(pan'))
      <4>1. SwitchedOn /\ ~dropped /\ Chained(adm.pointer, up, Open(pan))
        BY <1>3, <3>1 DEF NavigationInv, NeverOff
      <4>2. SwitchedOn'
        BY <1>3, <2>2, <4>1 DEF SwitchedOn
      <4>3. PICK b : b = Open(pan)
        OBVIOUS
      <4>4. PICK a : a = adm.pointer
        OBVIOUS
      <4>5. PICK s : s = up
        OBVIOUS
      <4>6. Chained(a, Append(s, m), PanAfter(m))
        BY <1>1, <2>2, <4>1, <4>3, <4>4, <4>5, ChainSent
      <4>7. QED
        BY <1>3, <2>2, <4>1, <4>2, <4>4, <4>5, <4>6
    <3>2. QED
      BY <3>1 DEF NeverOff
  <2>10. QED
    BY <1>3, <2>5, <2>6, <2>7, <2>8, <2>9 DEF NavigationInv
<1>6. QED
  BY <1>4, <1>5 DEF Flush

\* An intent of a pan or a wheel that was never switched off is admitted.
LEMMA IntentKeepsNavigation ==
  ASSUME NavigationAssumption, NavigationInv, RunnerIntent
  PROVE  NavigationInv'
<1>1. PICK m, s : m = Head(up) /\ s = up
  OBVIOUS
<1>2. /\ s # <<>> /\ s \in Seq(Intents) /\ Len(s) <= MaxInFlight
      /\ adm \in [armed : BOOLEAN, pointer : Ids] /\ visible \in Ids /\ dropped \in BOOLEAN
  BY <1>1 DEF RunnerIntent, NavigationInv, NavigationTypeOK
<1>3. m \in Intents /\ Tail(s) \in Seq(Intents) /\ Len(Tail(s)) <= MaxInFlight
  BY <1>1, <1>2 DEF NavigationAssumption
<1>4. m.id \in Ids /\ NoPointer \in Ids
  BY <1>3 DEF Intents, Ids
<1>5. up' = Tail(s) /\ UNCHANGED <<mode, down, inner, pan, wheel, timer>>
  BY <1>1 DEF RunnerIntent
<1>6. PanSound' /\ PendingIsArmed' /\ OffIsEmpty' /\ DownTyped'
  BY <1>5 DEF NavigationInv, PanSound, PendingIsArmed, OffIsEmpty, DownTyped
<1>7. ASSUME mode.switches <= 1
      PROVE  SwitchedOn /\ ~dropped /\ PanBefore(m) = adm.pointer /\ Chained(PanAfter(m), Tail(s), Open(pan)) /\ adm.armed
  <2>1. SwitchedOn /\ ~dropped /\ Chained(adm.pointer, up, Open(pan))
    BY <1>7 DEF NavigationInv, NeverOff
  <2>2. PICK a, b : a = adm.pointer /\ b = Open(pan)
    OBVIOUS
  <2>3. PanBefore(Head(s)) = a /\ Chained(PanAfter(Head(s)), Tail(s), b)
    BY <1>1, <1>2, <2>1, <2>2, ChainTaken
  <2>4. adm.armed
    BY <1>1, <1>2, <2>1 DEF SwitchedOn
  <2>5. QED
    BY <1>1, <2>1, <2>2, <2>3, <2>4
<1>8. CASE Admits(m)
  <2>1. PICK open : open = CASE m.type = "start" -> m.id
                             [] m.type \in {"end", "cancel"} -> NoPointer
                             [] OTHER -> adm.pointer
    OBVIOUS
  <2>2. adm' = [adm EXCEPT !.pointer = open] /\ visible' = open /\ dropped' = dropped
    BY <1>1, <1>8, <2>1 DEF RunnerIntent
  <2>3. open \in Ids
    BY <1>2, <1>4, <2>1
  <2>4. adm' \in [armed : BOOLEAN, pointer : Ids] /\ adm'.pointer = open /\ adm'.armed = adm.armed
    BY <1>2, <2>2, <2>3
  <2>5. NavigationTypeOK'
    BY <1>2, <1>3, <1>5, <2>2, <2>3, <2>4 DEF NavigationInv, NavigationTypeOK
  <2>6. NeverOff'
    <3>1. ASSUME mode'.switches <= 1 PROVE SwitchedOn' /\ ~dropped' /\ Chained(adm'.pointer, up', Open(pan'))
      <4>1. SwitchedOn /\ ~dropped /\ PanBefore(m) = adm.pointer /\ Chained(PanAfter(m), Tail(s), Open(pan)) /\ adm.armed
        BY <1>5, <1>7, <3>1
      <4>2. PanAfter(m) = open
        <5>1. m.type \in {"start", "move", "end", "cancel", "wheel"}
          BY <1>3 DEF Intents
        <5>2. CASE m.type = "wheel"
          BY <2>1, <4>1, <5>2 DEF PanBefore, PanAfter
        <5>3. CASE m.type = "move"
          BY <2>1, <4>1, <5>3 DEF PanBefore, PanAfter
        <5>4. CASE m.type \in {"start", "end", "cancel"}
          BY <2>1, <5>4 DEF PanAfter
        <5>5. QED
          BY <5>1, <5>2, <5>3, <5>4
      <4>3. SwitchedOn'
        BY <1>5, <2>4, <4>1 DEF SwitchedOn
      <4>4. QED
        BY <1>5, <2>2, <2>4, <4>1, <4>2, <4>3
    <3>2. QED
      BY <3>1 DEF NeverOff
  <2>7. QED
    BY <1>5, <1>6, <2>5, <2>6 DEF NavigationInv
<1>9. CASE ~Admits(m)
  <2>1. dropped' = TRUE /\ UNCHANGED <<adm, visible>>
    BY <1>1, <1>9 DEF RunnerIntent
  <2>2. NavigationTypeOK'
    BY <1>2, <1>3, <1>5, <2>1 DEF NavigationInv, NavigationTypeOK
  <2>3. NeverOff'
    <3>1. ASSUME mode'.switches <= 1 PROVE FALSE
      <4>1. PanBefore(m) = adm.pointer /\ adm.armed
        BY <1>5, <1>7, <3>1
      <4>2. Admits(m)
        BY <4>1 DEF Admits, PanBefore
      <4>3. QED
        BY <1>9, <4>2
    <3>2. QED
      BY <3>1 DEF NeverOff
  <2>4. QED
    BY <1>5, <1>6, <2>2, <2>3 DEF NavigationInv
<1>10. QED
  BY <1>8, <1>9

LEMMA NavigationStarts ==
  ASSUME NavigationAssumption, NavigationInit
  PROVE  NavigationInv
<1>1. /\ mode = [actual |-> FALSE, switches |-> 0]
      /\ down = [runner |-> <<>>, inner |-> <<>>] /\ up = <<>>
      /\ inner = [enabled |-> FALSE, active |-> NoPointer]
      /\ pan = NoPan /\ wheel = 0 /\ timer = FALSE
      /\ adm = [armed |-> FALSE, pointer |-> NoPointer]
      /\ visible = NoPointer /\ dropped = FALSE
  BY DEF NavigationInit
<1>2. 0 \in 0..MaxDelta /\ 0 \in 0..MaxSwitches /\ NoPointer \in Ids /\ 0 <= MaxInFlight
  BY DEF NavigationAssumption, Ids
<1>3. <<>> \in Seq(BOOLEAN) /\ <<>> \in Seq(Intents) /\ Len(<<>>) = 0
  OBVIOUS
<1>4. NavigationTypeOK
  BY <1>1, <1>2, <1>3 DEF NavigationTypeOK, NoPan
<1>5. DownTyped
  BY <1>1, <1>3 DEF DownTyped
<1>6. PanSound /\ OffIsEmpty
  BY <1>1 DEF PanSound, OffIsEmpty, NoPan
<1>7. PendingIsArmed
  BY <1>1 DEF PendingIsArmed, NoPan
<1>8. SwitchedOn
  <2>1. down.runner = <<>> /\ down.inner = <<>> /\ ~inner.enabled /\ pan.id = NoPointer /\ ~(wheel > 0) /\ up = <<>>
    BY <1>1 DEF NoPan
  <2>2. QED
    BY <1>3, <2>1 DEF SwitchedOn
<1>9. Chained(adm.pointer, up, Open(pan))
  BY <1>1 DEF Chained, Open, NoPan
<1>10. mode.actual = FALSE
  BY <1>1
<1>11. QED
  BY <1>1, <1>4, <1>5, <1>6, <1>7, <1>8, <1>9, <1>10 DEF NavigationInv, NeverOff

\* For any pointers, any lengths of the ports and any number of switches: the runner
\* drops nothing before navigation was switched off, what is pending has its timer,
\* and a frame that is off sends only the cancel of its pan.
THEOREM NavigationIsAlwaysOrdered ==
  ASSUME NavigationAssumption
  PROVE  NavigationSpec => []NavigationIsOrdered
<1>1. NavigationInit => NavigationInv
  BY NavigationStarts
<1>2. NavigationInv /\ [NavigationNext]_navigationVars => NavigationInv'
  <2> SUFFICES ASSUME NavigationInv, [NavigationNext]_navigationVars PROVE NavigationInv'
    OBVIOUS
  <2>1. CASE NavigationNext
    BY <2>1, EventsKeepNavigation, SwitchKeepsNavigation, RunnerSetKeepsNavigation, InnerSetKeepsNavigation,
       FlushKeepsNavigation, IntentKeepsNavigation
    DEF NavigationNext
  <2>2. CASE UNCHANGED navigationVars
    BY <2>2 DEF navigationVars, NavigationInv, NavigationTypeOK, DownTyped, PanSound, PendingIsArmed, OffIsEmpty,
                NeverOff, SwitchedOn
  <2>3. QED
    BY <2>1, <2>2
<1>3. NavigationInv => NavigationIsOrdered
  <2> SUFFICES ASSUME NavigationInv PROVE DropsOnlyAfterOff
    BY DEF NavigationInv, NavigationIsOrdered
  <2>1. mode.switches \in Nat
    BY DEF NavigationInv, NavigationTypeOK
  <2>2. QED
    BY <2>1 DEF NavigationInv, NeverOff, DropsOnlyAfterOff
<1>4. QED
  BY <1>1, <1>2, <1>3, PTL DEF NavigationSpec
=============================================================================
