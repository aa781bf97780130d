---------------------------- MODULE ExportRenderer ----------------------------
(* The renders of a process (sceneboard-be/src/exports/                       *)
(* export-renderer.service.ts): each acquires a browser, a context and a page *)
(* one after the other, keeps its hold and its broker session alive by two    *)
(* timers, and gives everything back.  An acquisition whose wait was given up *)
(* still arrives: its resource is closed then, and the slot waits for it.     *)
EXTENDS Naturals, FiniteSets

CONSTANTS
    Renders,     \* calls of render
    Slots        \* how many run at once (2)

RendererAssumption == Slots \in Nat \ {0}

VARIABLES
    stage,       \* of every render: how far its caller's call is
    res,         \* its resources
    cleaning,    \* renders whose cleanup has begun
    ended,       \* renders whose broker session was disposed of
    beat,        \* timers and renewals under way, for the hold and the session
    lost,        \* renders that lost the hold, the session or their signal
    delivery,    \* deliveryState
    final,       \* how far the finalization is
    hold,        \* the hold of the revision
    renders      \* renders counted by activeRenders

rendererVars == <<stage, res, cleaning, ended, beat, lost, delivery, final, hold, renders>>

Kinds == {"browser", "context", "page"}
\* pending: asked for; late: asked for by a wait that was given up.
Resource == {"none", "pending", "late", "open", "closing", "closed"}
Stages == {"new", "browser", "context", "page", "rendering", "grace", "failing",
           "leased", "rejected", "refused"}
All(v) == [r \in Renders |-> v]

RendererInit ==
    /\ stage = All("new")
    /\ res = [r \in Renders |-> [k \in Kinds |-> "none"]]
    /\ cleaning = {} /\ ended = {} /\ lost = {} /\ renders = {}
    /\ beat = [r \in Renders |-> [hold |-> "off", session |-> "off"]]
    /\ delivery = All("active")
    /\ final = All("none")
    /\ hold = All("held")

RendererTypeOK ==
    /\ stage \in [Renders -> Stages]
    /\ res \in [Renders -> [Kinds -> Resource]]
    /\ cleaning \subseteq Renders /\ ended \subseteq Renders /\ lost \subseteq Renders
    /\ renders \subseteq Renders
    /\ beat \in [Renders -> [hold : {"off", "on", "renewing", "last"},
                             session : {"off", "on", "renewing", "last"}]]
    /\ delivery \in [Renders -> {"active", "completed", "aborted"}]
    /\ final \in [Renders -> {"none", "waiting", "hold", "done"}]
    /\ hold \in [Renders -> {"held", "released"}]
    \* a resource stands on the one before it
    /\ \A r \in Renders :
         /\ res[r]["context"] # "none" => res[r]["browser"] \notin {"none", "pending"}
         /\ res[r]["page"] # "none" => res[r]["context"] \notin {"none", "pending"}

-----------------------------------------------------------------------------
\* The timer is stopped; a renewal that is under way goes on.
Stopped(b) == CASE b = "on" -> "off" [] b = "renewing" -> "last" [] OTHER -> b

\* cleanupRender: what is open is being closed, and a wait given up is late.
CleanedRes(r) ==
    [k \in Kinds |-> CASE res[r][k] = "open" -> "closing"
                       [] res[r][k] = "pending" -> "late"
                       [] OTHER -> res[r][k]]
Clean(r) ==
    /\ cleaning' = cleaning \cup {r}
    /\ res' = [res EXCEPT ![r] = CleanedRes(r)]

\* finalizeDelivery, its first turn; a second call changes nothing but the state.
Finalized(r, kind) ==
    /\ delivery' = [delivery EXCEPT ![r] = IF @ = "active" THEN kind ELSE @]
    /\ final' = [final EXCEPT ![r] = IF @ = "none" THEN "waiting" ELSE @]
    /\ beat' = [beat EXCEPT ![r] = [hold |-> Stopped(@.hold), session |-> Stopped(@.session)]]

\* cleanupRender stops the timer of the session.
SessionStopped(r) == beat' = [beat EXCEPT ![r].session = Stopped(@)]

Working(r) == stage[r] \in {"browser", "context", "page", "rendering"}

\* A third render is refused while two are counted.
Start(r) ==
    /\ stage[r] = "new"
    /\ IF Cardinality(renders) >= Slots
       THEN /\ stage' = [stage EXCEPT ![r] = "refused"]
            /\ UNCHANGED <<res, beat, renders>>
       ELSE /\ renders' = renders \cup {r}
            /\ stage' = [stage EXCEPT ![r] = "browser"]
            /\ res' = [res EXCEPT ![r]["browser"] = "pending"]
            /\ beat' = [beat EXCEPT ![r].hold = "on"]
    /\ UNCHANGED <<cleaning, ended, lost, delivery, final, hold>>

\* The next thing to ask for.
After(k) == CASE k = "browser" -> "context" [] k = "context" -> "page" [] OTHER -> "rendering"

Acquire(r, k) ==
    /\ stage[r] = k
    /\ res[r][k] = "pending"
    /\ stage' = [stage EXCEPT ![r] = After(k)]
    /\ res' = [res EXCEPT ![r] = [j \in Kinds |-> CASE j = k -> "open"
                                                    [] j = After(k) -> "pending"
                                                    [] OTHER -> res[r][j]]]
    /\ beat' = IF k = "page" THEN [beat EXCEPT ![r].session = "on"] ELSE beat
    /\ UNCHANGED <<cleaning, ended, lost, delivery, final, hold, renders>>

\* An acquisition that nobody waits for is answered: what it brings is closed.
ArrivesLate(r, k) ==
    /\ res[r][k] = "late"
    /\ \E v \in {"closing", "closed"} : res' = [res EXCEPT ![r][k] = v]
    /\ UNCHANGED <<stage, cleaning, ended, beat, lost, delivery, final, hold, renders>>

\* A step of the render fails, or its deadline passes: what it has is cleaned
\* up, and the call waits a grace before it finalizes.
Fail(r) ==
    /\ Working(r)
    /\ stage' = [stage EXCEPT ![r] = "failing"]
    /\ Clean(r)
    /\ SessionStopped(r)
    /\ UNCHANGED <<ended, lost, delivery, final, hold, renders>>

\* The signal of the request or of the renderer fires: onAbort.
Aborted(r) ==
    /\ stage' = [stage EXCEPT ![r] = IF Working(r) THEN "failing" ELSE @]
    /\ lost' = lost \cup {r}
    /\ Clean(r)
    /\ Finalized(r, "aborted")
    /\ UNCHANGED <<ended, hold, renders>>

Abort(r) ==
    /\ r \in renders /\ r \notin lost
    /\ Aborted(r)

\* Every page is rendered: the browser is not needed any more.
Rendered(r) ==
    /\ stage[r] = "rendering"
    /\ stage' = [stage EXCEPT ![r] = "grace"]
    /\ Clean(r)
    /\ SessionStopped(r)
    /\ UNCHANGED <<ended, lost, delivery, final, hold, renders>>

\* resourceCleanupTerminal: nothing is being closed, renewed or still to come.
CleanupOver(r) ==
    /\ r \in cleaning /\ r \in ended
    /\ \A k \in Kinds : res[r][k] \notin {"closing", "late"}
    /\ beat[r].session \notin {"renewing", "last"}

\* The grace ends: with everything closed the caller gets its lease.
Lease(r) ==
    /\ stage[r] = "grace"
    /\ IF CleanupOver(r)
       THEN stage' = [stage EXCEPT ![r] = "leased"] /\ UNCHANGED <<delivery, final, beat>>
       ELSE stage' = [stage EXCEPT ![r] = "rejected"] /\ Finalized(r, "aborted")
    /\ UNCHANGED <<res, cleaning, ended, lost, hold, renders>>

Reject(r) ==
    /\ stage[r] = "failing"
    /\ stage' = [stage EXCEPT ![r] = "rejected"]
    /\ Finalized(r, "aborted")
    /\ UNCHANGED <<res, cleaning, ended, lost, hold, renders>>

\* The caller gives its lease back, with the response sent or not.
GiveBack(r, kind) ==
    /\ stage[r] = "leased"
    /\ delivery[r] = "active"
    /\ Finalized(r, kind)
    /\ UNCHANGED <<stage, res, cleaning, ended, lost, hold, renders>>

-----------------------------------------------------------------------------
\* Closing is tried until it succeeds.
Close(r, k) ==
    /\ res[r][k] = "closing"
    /\ res' = [res EXCEPT ![r][k] = "closed"]
    /\ UNCHANGED <<stage, cleaning, ended, beat, lost, delivery, final, hold, renders>>

SessionQuiet(r) == beat[r].session \notin {"renewing", "last"}
DisposeSession(r) ==
    /\ r \in cleaning /\ r \notin ended
    /\ SessionQuiet(r)
    /\ ended' = ended \cup {r}
    /\ UNCHANGED <<stage, res, cleaning, beat, lost, delivery, final, hold, renders>>

\* The timers: one renewal at a time.
Beat(r, b) ==
    /\ beat[r][b] = "on"
    /\ b = "hold" => delivery[r] = "active"
    /\ beat' = [beat EXCEPT ![r][b] = "renewing"]
    /\ UNCHANGED <<stage, res, cleaning, ended, lost, delivery, final, hold, renders>>

Answered(b) == IF b = "last" THEN "off" ELSE "on"

BeatAnswered(r, b) ==
    /\ beat[r][b] \in {"renewing", "last"}
    /\ beat' = [beat EXCEPT ![r][b] = Answered(@)]
    /\ UNCHANGED <<stage, res, cleaning, ended, lost, delivery, final, hold, renders>>

\* The renewal of the hold fails, or that of the session throws twice: the
\* render has lost what it renewed, unless it is being given back.  (An answer
\* that the session is gone is taken for a renewal.)
BeatRefused(r, b) ==
    /\ beat[r][b] \in {"renewing", "last"}
    /\ delivery[r] = "active" /\ r \notin lost
    /\ b = "session" => r \notin cleaning
    /\ stage' = [stage EXCEPT ![r] = IF Working(r) THEN "failing" ELSE @]
    /\ lost' = lost \cup {r}
    /\ Clean(r)
    /\ delivery' = [delivery EXCEPT ![r] = "aborted"]
    /\ final' = [final EXCEPT ![r] = IF @ = "none" THEN "waiting" ELSE @]
    /\ beat' = [beat EXCEPT ![r] = [c \in {"hold", "session"} |->
                                      IF c = b THEN "off" ELSE Stopped(@[c])]]
    /\ UNCHANGED <<ended, hold, renders>>

-----------------------------------------------------------------------------
\* Finalization: everything is closed, then the hold is released when no
\* renewal of it is under way, then the slot.
FinalHold(r) ==
    /\ final[r] = "waiting"
    /\ CleanupOver(r)
    /\ final' = [final EXCEPT ![r] = "hold"]
    /\ UNCHANGED <<stage, res, cleaning, ended, beat, lost, delivery, hold, renders>>

\* Mutant: the release does not wait for the renewal.
HoldQuiet_Any(r) == TRUE
HoldQuiet(r) == beat[r].hold \notin {"renewing", "last"}

ReleaseHold(r) ==
    /\ final[r] = "hold"
    /\ hold[r] = "held"
    /\ HoldQuiet(r)
    /\ hold' = [hold EXCEPT ![r] = "released"]
    /\ UNCHANGED <<stage, res, cleaning, ended, beat, lost, delivery, final, renders>>

ReleaseSlot(r) ==
    /\ final[r] = "hold"
    /\ hold[r] = "released"
    /\ final' = [final EXCEPT ![r] = "done"]
    /\ renders' = renders \ {r}
    /\ UNCHANGED <<stage, res, cleaning, ended, beat, lost, delivery, hold>>

\* What goes on by itself.
GoesOn(r) ==
    \/ \E k \in Kinds : Close(r, k)
    \/ DisposeSession(r) \/ FinalHold(r) \/ ReleaseHold(r) \/ ReleaseSlot(r)
    \/ Lease(r) \/ Reject(r)
    \/ \E b \in {"hold", "session"} : BeatAnswered(r, b)

RendererNext ==
    \E r \in Renders :
        \/ Start(r) \/ Fail(r) \/ Abort(r) \/ Rendered(r)
        \/ \E k \in Kinds : Acquire(r, k) \/ ArrivesLate(r, k)
        \/ \E kind \in {"completed", "aborted"} : GiveBack(r, kind)
        \/ \E b \in {"hold", "session"} : Beat(r, b) \/ BeatRefused(r, b)
        \/ GoesOn(r)

RendererSpec == RendererInit /\ [][RendererNext]_rendererVars

-----------------------------------------------------------------------------
\* A browser, context or page that exists or may still arrive belongs to a
\* render that is counted: no more than two renders' browsers ever run
\* (export-renderer.service.ts:236 and the quarantine of :256).
BrowsersCounted ==
    /\ Cardinality(renders) <= Slots
    /\ \A r \in Renders :
         (\E k \in Kinds : res[r][k] \in {"pending", "late", "open", "closing"}) => r \in renders

\* The revision is held as long as anything that shows it runs, and no renewal
\* can land on a hold that was released (:335).
HeldWhileRendered ==
    \A r \in Renders :
        hold[r] = "released" =>
            /\ \A k \in Kinds : res[r][k] \in {"none", "closed"}
            /\ beat[r].hold = "off"
            /\ r \in ended

\* A session is not renewed behind its disposal (:281).
NoRenewalAfterDispose ==
    \A r \in ended : beat[r].session \notin {"renewing", "last"}

\* A lease goes out with every resource closed and its hold held; and once the
\* render lost something its lease is not delivered as complete.
LeaseIsClean ==
    \A r \in Renders : stage[r] = "leased" =>
        /\ \A k \in Kinds : res[r][k] \in {"none", "closed"}
        /\ delivery[r] = "active" => hold[r] = "held" /\ r \notin lost

\* A render is counted as long as its browser exists or may still arrive, and its
\* hold and session are renewed by nobody once they are given back
\* (ExportRendererService).
RendersAccounted ==
    RendererTypeOK /\ BrowsersCounted /\ HeldWhileRendered /\ NoRenewalAfterDispose /\ LeaseIsClean
=============================================================================
