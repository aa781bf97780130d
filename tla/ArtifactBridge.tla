---------------------------- MODULE ArtifactBridge ----------------------------
(* One run of an artifact in a board page (board-ui/src/artifact/             *)
(* use-artifact-bridge.ts): the host loads and certifies the package, frames  *)
(* the outer runner (artifact-runtime/src/runner/outer.ts), hands it the      *)
(* package chunk by chunk, and the runner frames the inner document           *)
(* (inner-bootstrap.ts) that runs the artifact's script.  Host, runner and    *)
(* inner document talk over two message ports: in order, with any delay.      *)
EXTENDS Naturals, Sequences

CONSTANTS
    Chunks,        \* chunks of the package
    Burst,         \* countBurst of the runner's budget for authored messages
    MaxAuthored,   \* bound: messages the artifact's script sends
    MaxControls,   \* bound: changes of view mode or presentation
    Faults         \* what may go wrong:
                   \* a subset of {"load", "frame", "hang", "script", "invalid"}

BridgeAssumption ==
    /\ Chunks \in Nat \ {0} /\ Burst \in Nat \ {0}
    /\ MaxAuthored \in Nat /\ MaxControls \in Nat
    /\ Faults \subseteq {"load", "frame", "hang", "script", "invalid"}

VARIABLES
    step,          \* host: where run() is
    shown,         \* host: what the page shows
    bytes,         \* host: packageBytes
    chunks,        \* host: chunks posted
    deadline,      \* host: watchdogDeadline is armed
    controls,      \* host: controls posted
    asking,        \* host: clipboard requests being dispatched
    cause,         \* why the run ended
    toOuter,       \* port host -> runner
    toHost,        \* port runner -> host
    outer,         \* runner: its lifecycle state
    received,      \* runner: chunks received
    tokens,        \* runner: countTokens of the authored budget
    deaf,          \* runner: a message of the inner document was invalid
    refused,       \* why the runner disposed itself
    document,      \* inner document
    fromInner,     \* port inner -> runner
    authored       \* messages of the script so far

hostVars == <<step, shown, bytes, chunks, deadline, controls, asking, cause>>
outerVars == <<outer, received, tokens, deaf, refused>>
innerVars == <<document, authored>>
bridgeVars == <<hostVars, outerVars, innerVars, toOuter, toHost, fromInner>>

Waiting == {"runner", "ack", "certified", "artifact"}
Awaited == [s \in Waiting |->
              CASE s = "runner"    -> "runner.ready"
                [] s = "ack"       -> "package.ack"
                [] s = "certified" -> "package.ready"
                [] s = "artifact"  -> "artifact.ready"]
Msg(type, n) == [type |-> type, n |-> n]
Plain(type) == Msg(type, 0)

HostMessages ==
    [type : {"bootstrap", "package.start", "package.end", "ping", "control",
             "result"}, n : {0}]
    \cup [type : {"package.chunk"}, n : 0 .. Chunks - 1]
RunnerMessages ==
    [type : {"runner.ready", "package.ready", "pong", "artifact.ready", "authored",
             "request", "peer.disposed", "protocol.error"}, n : {0}]
    \cup [type : {"package.ack"}, n : 1 .. Chunks]

BridgeTypeOK ==
    /\ step \in {"metadata", "package", "confirm", "frame", "running", "over"} \cup Waiting
    /\ shown \in {"loading", "handshaking", "active", "failed", "stopped"}
    /\ bytes \in {"none", "held", "released"}
    /\ chunks \in 0 .. Chunks /\ received \in 0 .. Chunks
    /\ deadline \in BOOLEAN
    /\ controls \in 0 .. MaxControls /\ asking \in Nat /\ authored \in 0 .. MaxAuthored /\ tokens \in 0 .. Burst
    /\ cause \in {"none", "stop", "load", "frame", "timeout", "watchdog", "mismatch",
                  "unexpected", "peer.disposed", "protocol.error"}
    /\ toOuter \in Seq(HostMessages) /\ toHost \in Seq(RunnerMessages)
    /\ outer \in {"none", "bootstrap_wait", "ready", "receiving", "certified",
                  "inner_handshake", "active", "hung", "disposed"}
    /\ refused \in {"none", "protocol", "early", "inner", "rate", "frame"}
    /\ document \in {"none", "framed", "running", "ready", "disposed"}
    /\ fromInner \in Seq({"authored", "request", "invalid", "artifact.ready", "peer.disposed"})
    /\ deaf \in BOOLEAN

BridgeInit ==
    /\ step = "metadata" /\ shown = "loading" /\ bytes = "none" /\ chunks = 0
    /\ deadline = FALSE /\ controls = 0 /\ asking = 0 /\ cause = "none"
    /\ toOuter = <<>> /\ toHost = <<>> /\ fromInner = <<>>
    /\ outer = "none" /\ received = 0 /\ tokens = Burst /\ deaf = FALSE /\ refused = "none"
    /\ document = "none" /\ authored = 0

(* ------------------------------- the host -------------------------------- *)

Released == IF bytes = "held" THEN "released" ELSE bytes

\* Ports are closed and the frame is removed, which ends both documents.
Cleanup(ends, why) ==
    /\ step' = "over" /\ shown' = ends /\ cause' = why
    /\ bytes' = Released /\ deadline' = FALSE /\ asking' = 0
    /\ outer' = "none" /\ document' = "none"
    /\ toOuter' = <<>> /\ toHost' = <<>> /\ fromInner' = <<>>
    /\ UNCHANGED <<chunks, controls, received, tokens, deaf, refused, authored>>

Stop == step # "over" /\ Cleanup("stopped", "stop")

ReadMetadata ==
    /\ step = "metadata" /\ step' = "package"
    /\ UNCHANGED <<shown, bytes, chunks, deadline, controls, asking, cause, outerVars, innerVars,
                   toOuter, toHost, fromInner>>

ReadPackage ==
    /\ step = "package" /\ step' = "confirm" /\ bytes' = "held"
    /\ UNCHANGED <<shown, chunks, deadline, controls, asking, cause, outerVars, innerVars,
                   toOuter, toHost, fromInner>>

\* The package decodes and the metadata read again still describe it.
Confirm ==
    /\ step = "confirm" /\ step' = "frame" /\ outer' = "bootstrap_wait"
    /\ UNCHANGED <<shown, bytes, chunks, deadline, controls, asking, cause, received, tokens, deaf, refused,
                   innerVars, toOuter, toHost, fromInner>>

LoadFails ==
    /\ "load" \in Faults /\ step \in {"metadata", "package", "confirm"}
    /\ Cleanup("failed", "load")

FrameLoads ==
    /\ step = "frame" /\ step' = "runner"
    /\ toOuter' = Append(toOuter, Plain("bootstrap"))
    /\ UNCHANGED <<shown, bytes, chunks, deadline, controls, asking, cause, outerVars, innerVars,
                   toHost, fromInner>>

FrameFails ==
    /\ "frame" \in Faults /\ step = "frame"
    /\ Cleanup("failed", "frame")

\* Nothing is under way between the three of them.
Quiet ==
    /\ toOuter = <<>> /\ toHost = <<>> /\ fromInner = <<>>
    /\ outer # "certified" /\ document \notin {"framed", "running"}

\* A timer may fire while its answer is on the way.
WaitTimesOut == step \in Waiting /\ Cleanup("failed", "timeout")

WatchdogExpires == deadline /\ Cleanup("failed", "watchdog")

Ping ==
    /\ step = "running" /\ ~deadline
    /\ deadline' = TRUE /\ toOuter' = Append(toOuter, Plain("ping"))
    /\ UNCHANGED <<step, shown, bytes, chunks, controls, asking, cause, outerVars, innerVars,
                   toHost, fromInner>>

\* The effects on view mode and presentation: only while the page shows 'active'.
ControlGuard == shown = "active"

Control ==
    /\ ControlGuard /\ controls < MaxControls
    /\ controls' = controls + 1 /\ toOuter' = Append(toOuter, Plain("control"))
    /\ UNCHANGED <<step, shown, bytes, chunks, deadline, asking, cause, outerVars, innerVars,
                   toHost, fromInner>>

\* The messages the host posts when the one it waits for arrives.
Posts(type) ==
    CASE type = "runner.ready"                  -> <<Plain("package.start"), Msg("package.chunk", 0)>>
      [] type = "package.ack" /\ chunks < Chunks  -> <<Msg("package.chunk", chunks)>>
      [] type = "package.ack" /\ chunks = Chunks  -> <<Plain("package.end")>>
      [] OTHER                                  -> <<>>

NextStep(type) ==
    CASE type = "package.ack" -> IF chunks = Chunks THEN "certified" ELSE "ack"
      [] type = "runner.ready" -> "ack"
      [] type = "package.ready" -> "artifact"
      [] type = "artifact.ready" -> "running"

Arrived(m) ==
    /\ step' = NextStep(m.type)
    /\ chunks' = IF NextStep(m.type) = "ack" THEN chunks + 1 ELSE chunks
    /\ shown' = CASE m.type = "package.ready"  -> "handshaking"
                  [] m.type = "artifact.ready" -> "active"
                  [] OTHER                     -> shown
    /\ bytes' = IF m.type = "artifact.ready" THEN Released ELSE bytes
    /\ toOuter' = toOuter \o Posts(m.type)
    /\ toHost' = Tail(toHost)
    /\ UNCHANGED <<deadline, controls, asking, cause, outerVars, innerVars, fromInner>>

\* A pong disarms the watchdog; what the script sends goes to its callback, a
\* request for the clipboard to the dispatcher, whatever step the host is at.
HostTakes ==
    /\ step \in Waiting \cup {"running"} /\ toHost # <<>>
    /\ LET m == Head(toHost) IN
       \/ /\ m.type \in {"pong", "authored"}
          /\ toHost' = Tail(toHost)
          /\ deadline' = (deadline /\ m.type # "pong")
          /\ UNCHANGED <<step, shown, bytes, chunks, controls, asking, cause, outerVars, innerVars,
                         toOuter, fromInner>>
       \/ /\ m.type = "request"
          /\ toHost' = Tail(toHost) /\ asking' = asking + 1
          /\ UNCHANGED <<step, shown, bytes, chunks, deadline, controls, cause, outerVars, innerVars,
                         toOuter, fromInner>>
       \/ /\ step \in Waiting /\ m.type = Awaited[step]
          /\ IF m.type = "package.ack" /\ m.n # chunks
             THEN Cleanup("failed", "mismatch")
             ELSE Arrived(m)
       \/ /\ m.type \notin {"pong", "authored", "request"}
          /\ ~(step \in Waiting /\ m.type = Awaited[step])
          /\ Cleanup("failed", IF m.type \in {"peer.disposed", "protocol.error"}
                               THEN m.type ELSE "unexpected")

\* dispatch() has settled: its result is posted, in any step of a run not over.
PostsResult ==
    /\ asking > 0 /\ asking' = asking - 1
    /\ toOuter' = Append(toOuter, Plain("result"))
    /\ UNCHANGED <<step, shown, bytes, chunks, deadline, controls, cause, outerVars, innerVars,
                   toHost, fromInner>>

(* ------------------------------ the runner ------------------------------- *)

\* terminalDispose: the host is told (of a spent budget by an error), the
\* inner frame is removed.
DisposeRunner(why) ==
    /\ outer' = "disposed" /\ refused' = why
    /\ toHost' = Append(toHost, Plain(IF why = "rate" THEN "protocol.error" ELSE "peer.disposed"))
    /\ toOuter' = <<>> /\ fromInner' = <<>> /\ document' = "none"
    /\ UNCHANGED <<hostVars, received, tokens, deaf, authored>>

Answer(state, count, answers) ==
    /\ outer' = state /\ received' = count
    /\ toHost' = toHost \o answers /\ toOuter' = Tail(toOuter)
    /\ UNCHANGED <<hostVars, tokens, deaf, refused, innerVars, fromInner>>

\* handleParentMessage, one message at a time; while the package is certified
\* ("certified") the next message waits.  What is not legal here disposes.
RunnerTakes ==
    /\ outer \notin {"none", "hung", "disposed", "certified"} /\ toOuter # <<>>
    /\ LET m == Head(toOuter) IN
       \/ /\ m.type = "bootstrap" /\ outer = "bootstrap_wait"
          /\ Answer("ready", 0, <<Plain("runner.ready")>>)
       \/ m.type = "ping" /\ Answer(outer, received, <<Plain("pong")>>)
       \/ m.type \in {"control", "result"} /\ outer = "active" /\ Answer(outer, received, <<>>)
       \/ m.type = "result" /\ outer # "active" /\ DisposeRunner("early")
       \/ m.type = "package.start" /\ outer = "ready" /\ Answer("receiving", 0, <<>>)
       \/ /\ m.type = "package.chunk" /\ outer = "receiving" /\ m.n = received
          /\ Answer(outer, received + 1, <<Msg("package.ack", received + 1)>>)
       \/ /\ m.type = "package.end" /\ outer = "receiving" /\ received = Chunks
          /\ Answer("certified", received, <<>>)
       \/ /\ \/ m.type = "bootstrap" /\ outer # "bootstrap_wait"
             \/ m.type = "control" /\ outer # "active"
             \/ m.type = "package.start" /\ outer # "ready"
             \/ m.type = "package.chunk" /\ (outer # "receiving" \/ m.n # received)
             \/ m.type = "package.end" /\ (outer # "receiving" \/ received # Chunks)
          /\ DisposeRunner("protocol")

\* The rest of the handler of package.end: the package is certified, the host
\* is told and the inner document is framed.
FramesInner ==
    /\ outer = "certified" /\ outer' = "inner_handshake" /\ document' = "framed"
    /\ toHost' = Append(toHost, Plain("package.ready"))
    /\ UNCHANGED <<hostVars, received, tokens, deaf, refused, authored, toOuter, fromInner>>

\* The inner frame has loaded: it is sent its init message and runs the script.
InnerLoads ==
    /\ outer = "inner_handshake" /\ document = "framed" /\ document' = "running"
    /\ UNCHANGED <<hostVars, outerVars, authored, toOuter, toHost, fromInner>>

InnerFrameFails ==
    /\ "frame" \in Faults /\ outer = "inner_handshake" /\ document = "framed"
    /\ DisposeRunner("frame")

\* Mutant: readiness is reported before the runner is active.
Forward_Early(m) ==
    /\ toHost' = Append(toHost, Plain(m)) /\ fromInner' = Tail(fromInner)
    /\ outer' = outer
    /\ tokens' = tokens - 1
    /\ UNCHANGED <<hostVars, received, deaf, refused, innerVars, toOuter>>
Forward(m) ==
    /\ toHost' = Append(toHost, Plain(m)) /\ fromInner' = Tail(fromInner)
    /\ outer' = IF m = "artifact.ready" THEN "active" ELSE outer
    /\ tokens' = tokens - 1
    /\ UNCHANGED <<hostVars, received, deaf, refused, innerVars, toOuter>>

\* The endpoint of the inner port throws on an invalid message and does not
\* count it: every message after it is out of sequence and is lost as well.
Invalid == deaf \/ Head(fromInner) = "invalid"

RunnerMissesInner ==
    /\ outer \in {"inner_handshake", "active"} /\ fromInner # <<>> /\ Invalid
    /\ deaf' = TRUE /\ fromInner' = Tail(fromInner)
    /\ UNCHANGED <<hostVars, outer, received, tokens, refused, innerVars, toOuter, toHost>>

RunnerHearsInner ==
    /\ outer \in {"inner_handshake", "active"} /\ fromInner # <<>> /\ ~Invalid
    /\ LET m == Head(fromInner) IN
       \/ m = "peer.disposed" /\ DisposeRunner("inner")
       \/ m # "peer.disposed" /\ tokens = 0 /\ DisposeRunner("rate")
       \/ m # "peer.disposed" /\ tokens > 0 /\ Forward(m)

Refill ==
    /\ tokens < Burst /\ tokens' = Burst /\ outer \in {"inner_handshake", "active"}
    /\ UNCHANGED <<hostVars, outer, received, deaf, refused, innerVars, toOuter, toHost, fromInner>>

\* The runner's document stops answering.
Hang ==
    /\ "hang" \in Faults /\ outer \notin {"none", "hung", "disposed"} /\ outer' = "hung"
    /\ UNCHANGED <<hostVars, received, tokens, deaf, refused, innerVars, toOuter, toHost, fromInner>>

(* -------------------------- the inner document --------------------------- *)

InnerSends(state, m) ==
    /\ document' = state /\ fromInner' = Append(fromInner, m)
    /\ UNCHANGED <<hostVars, outerVars, toOuter, toHost>>

Authored ==
    /\ document \in {"running", "ready"} /\ authored < MaxAuthored
    /\ authored' = authored + 1
    /\ \E m \in {"authored", "request"} \cup ({"invalid"} \cap Faults) : InnerSends(document, m)

ScriptDone == document = "running" /\ InnerSends("ready", "artifact.ready") /\ UNCHANGED authored

ScriptFails ==
    /\ "script" \in Faults /\ document = "running"
    /\ InnerSends("disposed", "peer.disposed") /\ UNCHANGED authored

BridgeNext ==
    \/ Stop \/ ReadMetadata \/ ReadPackage \/ Confirm \/ LoadFails \/ FrameLoads \/ FrameFails
    \/ WaitTimesOut \/ WatchdogExpires \/ Ping \/ Control \/ HostTakes \/ PostsResult
    \/ RunnerTakes \/ FramesInner \/ InnerLoads \/ InnerFrameFails \/ RunnerHearsInner
    \/ RunnerMissesInner
    \/ Refill \/ Hang
    \/ Authored \/ ScriptDone \/ ScriptFails

BridgeSpec == BridgeInit /\ [][BridgeNext]_bridgeVars

(* ------------------------------ properties ------------------------------- *)

\* A page shows an artifact as active only when the runner has the whole
\* package and has itself become active.
ActiveIsCertified ==
    shown = "active" =>
        /\ received = Chunks /\ chunks = Chunks
        /\ outer \in {"active", "hung", "disposed"}

\* Between a host and a runner that follow the protocol no message comes when
\* it is not expected: no timer, no failure and no order of delivery makes the
\* host meet a message without a waiter or an ACK of another chunk, or the
\* runner a control or a chunk it has to refuse.  One message is refused: the
\* result of a request for the clipboard that the script sent before it was ready.
\* That ends a run which the page has not shown as active, and never one it has.
ProtocolKept ==
    /\ cause \notin {"mismatch", "unexpected"}
    /\ refused # "protocol"
    /\ refused = "early" => shown # "active"

\* The bytes of the package are given back once the artifact runs, and however
\* the run ends.
PackageGivenBack == step \in {"running", "over"} => bytes # "held"

\* A timer that fires with nothing on the way found a runner that stopped answering,
\* or that was sent an invalid message by the script: neither the handshake nor the
\* watchdog waits for a message nobody is going to send.
NoVainWait ==
    Quiet /\ cause' # cause /\ cause' \in {"timeout", "watchdog"} => outer = "hung" \/ deaf

\* The page, the runner and the artifact keep to their protocol whatever fails and in
\* whatever order messages and timers come (useArtifactBridge, the outer runner).
BridgeKeepsProtocol ==
    /\ [](BridgeTypeOK /\ ActiveIsCertified /\ ProtocolKept /\ PackageGivenBack)
    /\ [][NoVainWait]_bridgeVars
=============================================================================
