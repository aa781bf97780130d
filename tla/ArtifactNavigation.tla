-------------------------- MODULE ArtifactNavigation --------------------------
(* Wheel and pan of an artifact's content, from the pointer events of the     *)
(* inner frame over its scheduler (artifact-runtime/src/bridge/               *)
(* navigation-scheduler.ts), through the admission of the outer runner        *)
(* (navigation-admission.ts) to the host, which turns navigation on and off.  *)
(* Every hop is a message port: in order, but with any delay, so switching    *)
(* off crosses what is on its way.                                            *)
EXTENDS Naturals, Sequences

CONSTANTS
    Pointers,      \* pointer ids
    NoPointer,     \* null
    MaxDelta,      \* bound: chunks of 16384 (4096) a pan (wheel) has pending
    MaxInFlight,   \* bound: messages of a port
    MaxSwitches    \* bound: changes of the view mode

NavigationAssumption ==
    /\ NoPointer \notin Pointers
    /\ MaxDelta \in Nat \ {0} /\ MaxInFlight \in Nat \ {0} /\ MaxSwitches \in Nat

VARIABLES
    mode,          \* host: viewMode is 'actual', and how often it changed
    down,          \* port host -> runner -> inner: navigation.set, two hops
    up,            \* port inner -> runner: intents
    inner,         \* inner frame: navigationEnabled and activePointer
    pan,           \* scheduler: #pan
    wheel,         \* scheduler: chunks of #wheel
    timer,         \* scheduler: #timer is set
    adm,           \* runner: #armed and #pointerId of the admission
    visible,       \* the pan the runner has shown to the host and not closed
    dropped        \* the runner dropped an intent

navigationVars == <<mode, down, up, inner, pan, wheel, timer, adm, visible, dropped>>

NoPan == [id |-> NoPointer, sent |-> FALSE, delta |-> 0, terminal |-> "none"]
Ids == Pointers \cup {NoPointer}
Intents == [type : {"start", "move", "end", "cancel"}, id : Pointers]
           \cup [type : {"wheel"}, id : {NoPointer}]

NavigationTypeOK ==
    /\ mode \in [actual : BOOLEAN, switches : 0..MaxSwitches]
    /\ down.runner \in Seq(BOOLEAN) /\ down.inner \in Seq(BOOLEAN)
    /\ up \in Seq(Intents) /\ Len(up) <= MaxInFlight
    /\ inner \in [enabled : BOOLEAN, active : Ids]
    /\ pan \in [id : Ids, sent : BOOLEAN, delta : 0..MaxDelta, terminal : {"none", "end", "cancel"}]
    /\ wheel \in 0..MaxDelta /\ timer \in BOOLEAN
    /\ adm \in [armed : BOOLEAN, pointer : Ids]
    /\ visible \in Ids /\ dropped \in BOOLEAN
    \* the frame follows the pan its scheduler has
    /\ inner.active # NoPointer => pan.id = inner.active /\ pan.terminal = "none"

NavigationInit ==
    /\ mode = [actual |-> FALSE, switches |-> 0]
    /\ down = [runner |-> <<>>, inner |-> <<>>] /\ up = <<>>
    /\ inner = [enabled |-> FALSE, active |-> NoPointer]
    /\ pan = NoPan /\ wheel = 0 /\ timer = FALSE
    /\ adm = [armed |-> FALSE, pointer |-> NoPointer]
    /\ visible = NoPointer /\ dropped = FALSE

-----------------------------------------------------------------------------
\* #hasPending
Pending(p, w) ==
    IF p.id # NoPointer THEN ~p.sent \/ p.terminal # "none" \/ p.delta > 0 ELSE w > 0

\* The scheduler has a new pan and wheel, and arms its timer if it must.
Arm(p, w) ==
    /\ pan' = p /\ wheel' = w
    /\ timer' = (timer \/ Pending(p, w))

\* cancelPan of the scheduler: an unopened pan is dropped, an open one closed.
Cancelled(p) == IF ~p.sent THEN NoPan ELSE [p EXCEPT !.delta = 0, !.terminal = "cancel"]

\* The host changes its view mode, and tells.
Switch ==
    /\ mode.switches < MaxSwitches
    /\ mode' = [actual |-> ~mode.actual, switches |-> mode.switches + 1]
    /\ down' = [down EXCEPT !.runner = Append(@, mode'.actual)]
    /\ UNCHANGED <<up, inner, pan, wheel, timer, adm, visible, dropped>>

\* The runner arms or disarms its admission, and passes it on.
RunnerSet ==
    /\ down.runner # <<>>
    /\ adm' = [adm EXCEPT !.armed = Head(down.runner)]
    /\ down' = [runner |-> Tail(down.runner), inner |-> Append(down.inner, Head(down.runner))]
    /\ UNCHANGED <<mode, up, inner, pan, wheel, timer, visible, dropped>>

\* Mutant: the frame switches off without its open pan.
OffPan_Kept == IF pan.sent THEN pan ELSE NoPan
\* setEnabled(false) of the scheduler, with cancelPan of the frame before it.
OffPan == IF pan.id = NoPointer THEN pan ELSE Cancelled(pan)

InnerSet ==
    /\ down.inner # <<>>
    /\ down' = [down EXCEPT !.inner = Tail(@)]
    /\ IF Head(down.inner)
       THEN /\ inner' = [inner EXCEPT !.enabled = TRUE]
            /\ UNCHANGED <<pan, wheel, timer>>
       ELSE /\ inner' = [enabled |-> FALSE, active |-> NoPointer]
            /\ pan' = OffPan /\ wheel' = 0
            /\ timer' = (OffPan.id # NoPointer)
    /\ UNCHANGED <<mode, up, adm, visible, dropped>>

-----------------------------------------------------------------------------
\* Pointer events of the frame; a pan that is being closed blocks a new one.
PointerDown(id) ==
    /\ inner.enabled /\ inner.active = NoPointer /\ pan.id = NoPointer
    /\ inner' = [inner EXCEPT !.active = id]
    /\ Arm([NoPan EXCEPT !.id = id], wheel)
    /\ UNCHANGED <<mode, down, up, adm, visible, dropped>>

PointerMove ==
    /\ inner.enabled /\ inner.active # NoPointer
    /\ pan.delta < MaxDelta
    /\ Arm([pan EXCEPT !.delta = @ + 1], wheel)
    /\ UNCHANGED <<mode, down, up, inner, adm, visible, dropped>>

PointerUp ==
    /\ inner.active # NoPointer
    /\ inner' = [inner EXCEPT !.active = NoPointer]
    /\ Arm([pan EXCEPT !.terminal = "end"], wheel)
    /\ UNCHANGED <<mode, down, up, adm, visible, dropped>>

\* Blur, a hidden page, a lost capture or a released button: cancelPan.
PointerLost ==
    /\ inner.active # NoPointer
    /\ inner' = [inner EXCEPT !.active = NoPointer]
    /\ Arm(Cancelled(pan), wheel)
    /\ UNCHANGED <<mode, down, up, adm, visible, dropped>>

\* A wheel event adds to the sum, or takes it back to nothing.
Wheel ==
    /\ inner.enabled
    /\ \E w \in 0..MaxDelta : w # wheel /\ Arm(pan, w)
    /\ UNCHANGED <<mode, down, up, inner, adm, visible, dropped>>

-----------------------------------------------------------------------------
Emit(type) == up' = Append(up, [type |-> type, id |-> IF type = "wheel" THEN NoPointer ELSE pan.id])


\* The end of a pan carries its last chunk; what is before it goes out as moves.
EndFirst == pan.delta <= 1

\* #nextMessage: start, then moves, then the terminal, then the wheel.
NextMessage ==
    \/ /\ pan.id # NoPointer /\ ~pan.sent
       /\ Emit("start") /\ pan' = [pan EXCEPT !.sent = TRUE] /\ wheel' = wheel
    \/ /\ pan.sent /\ pan.terminal = "cancel"
       /\ Emit("cancel") /\ pan' = NoPan /\ wheel' = wheel
    \/ /\ pan.sent /\ pan.terminal = "end" /\ EndFirst
       /\ Emit("end") /\ pan' = NoPan /\ wheel' = wheel
    \/ /\ pan.sent /\ pan.delta > 0 /\ (pan.terminal = "none" \/ (pan.terminal = "end" /\ ~EndFirst))
       /\ Emit("move") /\ pan' = [pan EXCEPT !.delta = @ - 1] /\ wheel' = wheel
    \/ /\ pan.id = NoPointer /\ wheel > 0
       /\ Emit("wheel") /\ wheel' = wheel - 1 /\ pan' = pan

Rearm == Pending(pan', wheel')

\* The timer fires, 34 ms after the message before: one message goes out.
Flush ==
    /\ timer
    /\ Len(up) < MaxInFlight
    /\ \/ NextMessage /\ timer' = Rearm
       \/ ~Pending(pan, wheel) /\ timer' = FALSE /\ UNCHANGED <<pan, wheel, up>>
    /\ UNCHANGED <<mode, down, inner, adm, visible, dropped>>

-----------------------------------------------------------------------------
\* admit of the runner.
Admits(m) ==
    CASE ~adm.armed -> m.type = "cancel" /\ m.id = adm.pointer
      [] m.type = "wheel" -> adm.pointer = NoPointer
      [] m.type = "start" -> adm.pointer = NoPointer
      [] OTHER -> adm.pointer = m.id

\* An intent arrives at the runner: it is passed on to the host, or dropped.
RunnerIntent ==
    /\ up # <<>>
    /\ LET m == Head(up) IN
         /\ up' = Tail(up)
         /\ IF Admits(m)
            THEN LET open == CASE m.type = "start" -> m.id
                               [] m.type \in {"end", "cancel"} -> NoPointer
                               [] OTHER -> adm.pointer
                 IN  /\ adm' = [adm EXCEPT !.pointer = open]
                     /\ visible' = open
                     /\ UNCHANGED dropped
            ELSE dropped' = TRUE /\ UNCHANGED <<adm, visible>>
    /\ UNCHANGED <<mode, down, inner, pan, wheel, timer>>

NavigationNext ==
    \/ Switch \/ RunnerSet \/ InnerSet
    \/ \E id \in Pointers : PointerDown(id)
    \/ PointerMove \/ PointerUp \/ PointerLost \/ Wheel
    \/ Flush \/ RunnerIntent

NavigationSpec == NavigationInit /\ [][NavigationNext]_navigationVars

-----------------------------------------------------------------------------
\* The runner admits what the frame's scheduler sends, over every mix of pans
\* and wheels: only switching off makes it drop anything (navigation-admission.ts:13).
DropsOnlyAfterOff == dropped => mode.switches > 1

\* What is pending has its timer: nothing waits for an event that may not come
\* (navigation-scheduler.ts:138).
PendingIsArmed ==
    \/ pan.id # NoPointer /\ (~pan.sent \/ pan.terminal # "none" \/ pan.delta > 0)
    \/ pan.id = NoPointer /\ wheel > 0
    => timer

\* A frame that was switched off sends nothing more than the cancel of a pan.
OffIsEmpty ==
    ~inner.enabled => wheel = 0 /\ inner.active = NoPointer /\ (pan.id # NoPointer => pan.terminal = "cancel")

\* Wheel and pan arrive as they were sent, until navigation is switched off (the
\* artifact's scheduler and the runner's admission).
NavigationIsOrdered == NavigationTypeOK /\ DropsOnlyAfterOff /\ PendingIsArmed /\ OffIsEmpty
=============================================================================
