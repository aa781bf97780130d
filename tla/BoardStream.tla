---------------------------- MODULE BoardStream ----------------------------
(***************************************************************************)
(* The live stream of one board to one browser: the event log of the board *)
(* (BoardLedger's outbox, here the sequence of its event kinds), the SSE   *)
(* handler BoardSseService.stream with the cuts of BoardStreamCutService,  *)
(* the connection, and the client: createBoardStreamClient with its event  *)
(* reconciler and the view the callbacks of useBoardSession maintain.      *)
(*                                                                         *)
(* Redis hints only make the handler look at the head before its one       *)
(* second poll does; the poll is always enabled here, so hints are left    *)
(* out and nothing shown here depends on them.                             *)
(***************************************************************************)
EXTENDS Naturals, Sequences, FiniteSets

CONSTANTS
  EventKinds,      \* kinds of events the board may append
  Window,          \* largest replay, 1_000 events
  CursorsExpire,   \* may a cursor grow older than its 15 minutes?
  None,            \* no cursor
  MaxLog,          \* bound on the length of the log
  MaxRotations,    \* bound on the changes of the cursor key
  MaxCuts          \* bound on the connections lost or recycled

CursorType == [seq : 1..MaxLog, key : 0..MaxRotations, fresh : BOOLEAN]

StreamAssumption ==
  /\ EventKinds \subseteq {"revision", "state", "resync"}
  /\ Window \in Nat \ {0} /\ MaxLog \in Nat \ {0}
  /\ CursorsExpire \in BOOLEAN
  /\ MaxRotations \in Nat /\ MaxCuts \in Nat
  /\ None \notin CursorType \cup 0..MaxRotations

VARIABLES
  log,        \* kinds of the events of the board, by sequence number
  access,     \* may the client read the board (a member, and of a schema it speaks)?
  key,        \* key the server signs cursors with
  server,     \* the handler of the current request
  wire,       \* frames written and not yet read
  phase,      \* of the client's run loop
  recon,      \* state of the reconciler, with the retained cursor
  resetUsed,  \* invalidCursorResetUsed
  view,       \* events the shown board reflects
  refreshed,  \* lastEventSequence of the snapshot getBoard returned, 0 before
  cuts        \* connections lost or recycled so far

serverVars == <<server, wire>>
clientVars == <<phase, recon, resetUsed, view, refreshed>>
vars == <<log, access, key, server, wire, phase, recon, resetUsed, view, refreshed, cuts>>

Head_ == Len(log)

----------------------------------------------------------------------------
(* Frames *)

\* Every outbox event is framed with a cursor, whatever its type.
EventFrame(n) == [kind |-> log[n], seq |-> n, cursor |-> key]
SnapshotFrame(n) == [kind |-> "snapshot", seq |-> n, cursor |-> key]
PresenceFrame(n) == [kind |-> "presence", seq |-> n, cursor |-> None]
FrameType ==
  [kind : {"snapshot", "revision", "state", "resync", "presence"}, seq : 1..MaxLog,
   cursor : 0..MaxRotations \cup {None}]

RangeAfter(s, n) == [i \in 1..(n - s) |-> EventFrame(s + i)]

NoServer == [phase |-> "none", seq |-> 0, out |-> <<>>]

----------------------------------------------------------------------------
(* Initial state: useBoardSession has loaded a snapshot over HTTP. *)

NewReconciler(minimum) ==
  [awaiting |-> TRUE, last |-> minimum, min |-> minimum, cursor |-> None, ledger |-> {}]

Init ==
  /\ log = <<"revision">>
  /\ access = TRUE
  /\ key = 0
  /\ server = NoServer
  /\ wire = <<>>
  /\ phase = "connecting"
  /\ recon = NewReconciler(1)
  /\ resetUsed = FALSE
  /\ view = {1}
  /\ refreshed = 0
  /\ cuts = 0

----------------------------------------------------------------------------
(* The board and its surroundings *)

\* Some transaction of BoardLedger appends its event.
Commit(kind) ==
  /\ Head_ < MaxLog
  /\ log' = Append(log, kind)
  /\ UNCHANGED <<access, key, serverVars, clientVars, cuts>>

\* The member is removed, or the head moves to a schema the client lacks.
Revoke ==
  /\ access
  /\ access' = FALSE
  /\ UNCHANGED <<log, key, serverVars, clientVars, cuts>>

\* A restart of the server with another key; its requests end.
RotateKey ==
  /\ key < MaxRotations
  /\ key' = key + 1
  /\ server' = NoServer
  /\ UNCHANGED <<log, access, wire, clientVars, cuts>>

\* An idle board gives the client no new cursor, the one it holds grows old.
CursorAges ==
  /\ CursorsExpire
  /\ recon.cursor # None /\ recon.cursor.fresh
  /\ recon' = [recon EXCEPT !.cursor.fresh = FALSE]
  /\ UNCHANGED <<log, access, key, serverVars, phase, resetUsed, view, refreshed, cuts>>

----------------------------------------------------------------------------
(* Opening the stream *)

Terminate(reason) ==
  /\ phase' = reason
  /\ server' = NoServer
  /\ wire' = <<>>

Reconnect ==
  /\ phase' = "connecting"
  /\ server' = NoServer
  /\ wire' = <<>>

\* 403, 404 or 409 before the headers.
OpenRefused ==
  /\ phase = "connecting" \/ (phase = "reading" /\ server.phase = "cut")
  /\ ~access
  /\ Terminate("refused")
  /\ UNCHANGED <<log, access, key, recon, resetUsed, view, refreshed, cuts>>

\* Before the headers the request may be answered with an error that the client
\* takes as final: 500 when the handler throws, 503 or 401 (its session has to be
\* reconciled), or an answer outside the protocol.  A request that is lost, or
\* answered 429, is made again.
OpenFails ==
  /\ phase = "connecting" \/ (phase = "reading" /\ server.phase = "cut")
  /\ Terminate("open_failed")
  /\ UNCHANGED <<log, access, key, recon, resetUsed, view, refreshed, cuts>>

CursorDecodes == recon.cursor # None => recon.cursor.key = key

\* 400 for a cursor the codec cannot verify: the client drops it once.
OpenInvalidCursor ==
  /\ phase = "connecting" /\ access /\ ~CursorDecodes
  /\ IF resetUsed
       THEN Terminate("invalid_request") /\ UNCHANGED <<recon, resetUsed>>
       ELSE /\ Reconnect
            /\ resetUsed' = TRUE
            /\ recon' = NewReconciler(recon.last)
  /\ UNCHANGED <<log, access, key, view, refreshed, cuts>>

CursorUsable ==
  recon.cursor # None /\ recon.cursor.fresh /\ Head_ - recon.cursor.seq <= Window

\* BoardStreamCutService.prepare reads the watermark; the range is stable.
Open ==
  /\ phase = "connecting" /\ access /\ CursorDecodes
  /\ phase' = "reading"
  /\ wire' = <<>>
  /\ server' = [phase |-> "cut", seq |-> Head_,
                out |-> IF CursorUsable THEN RangeAfter(recon.cursor.seq, Head_)
                        ELSE <<SnapshotFrame(Head_)>>]
  /\ UNCHANGED <<log, access, key, recon, resetUsed, view, refreshed, cuts>>

CatchUp == RangeAfter(server.seq, Head_)

\* After the subscription the head is read again and the gap is filled.
PostCut ==
  /\ server.phase = "cut" /\ access
  /\ server' = [phase |-> "serving", seq |-> Head_,
                out |-> IF Head_ - server.seq <= Window THEN server.out \o CatchUp
                        ELSE <<SnapshotFrame(Head_)>>]
  /\ UNCHANGED <<log, access, key, wire, clientVars, cuts>>

----------------------------------------------------------------------------
(* Serving *)

Idle == server.phase = "serving" /\ server.out = <<>>

WriteFrame ==
  /\ server.phase = "serving" /\ server.out # <<>>
  /\ wire' = Append(wire, Head(server.out))
  /\ server' = [server EXCEPT !.out = Tail(@), !.seq = Head(server.out).seq]
  /\ UNCHANGED <<log, access, key, clientVars, cuts>>

PresenceSequence == server.seq

\* A presence frame has no cursor; at most one is in flight (a bound).
WritePresence ==
  /\ Idle
  /\ \A i \in DOMAIN wire : wire[i].kind # "presence"
  /\ wire' = Append(wire, PresenceFrame(PresenceSequence))
  /\ UNCHANGED <<log, access, key, server, clientVars, cuts>>

\* Mutant: a single new event is not seen.
Behind_ByTwo == server.seq + 1 < Head_
Behind == server.seq < Head_

Drain ==
  /\ Idle /\ access
  /\ Behind /\ Head_ - server.seq <= Window
  /\ server' = [server EXCEPT !.out = RangeAfter(server.seq, Head_)]
  /\ UNCHANGED <<log, access, key, wire, clientVars, cuts>>

\* The drain throws: the headers are sent, the response just ends.
DrainFails ==
  /\ Idle
  /\ ~access \/ Head_ - server.seq > Window
  /\ server' = NoServer
  /\ UNCHANGED <<log, access, key, wire, clientVars, cuts>>

----------------------------------------------------------------------------
(* The end of a connection *)

\* The 30 seconds of the handler are over, a write or its presence lease fails, or
\* its process dies: the frames written are still read, each of them whole.
Finish ==
  /\ server.phase # "none" /\ cuts < MaxCuts
  /\ server' = NoServer
  /\ cuts' = cuts + 1
  /\ UNCHANGED <<log, access, key, wire, clientVars>>

\* The network fails, the client recycles the connection after 29 seconds or
\* changes its presence state: unread frames are lost, the cursor is kept.
Recycle ==
  /\ phase = "reading" /\ cuts < MaxCuts
  /\ Reconnect
  /\ cuts' = cuts + 1
  /\ UNCHANGED <<log, access, key, recon, resetUsed, view, refreshed>>

EndOfStream ==
  /\ phase = "reading" /\ server.phase = "none" /\ wire = <<>>
  /\ Reconnect
  /\ UNCHANGED <<log, access, key, recon, resetUsed, view, refreshed, cuts>>

----------------------------------------------------------------------------
(* The client: createBoardEventReconciler.evaluate and consumeResponse *)

Durable(f) == f.kind \in {"snapshot", "revision", "state"}

VerdictOnSnapshot(f) ==
  CASE ~recon.awaiting -> "unexpected_snapshot"
    [] recon.awaiting /\ f.seq < recon.min -> "snapshot_below_minimum"
    [] recon.awaiting /\ f.seq >= recon.min -> "snapshot"

VerdictOnEvent(f) ==
  CASE recon.awaiting -> "control_sequence"
    [] ~recon.awaiting /\ f.seq <= recon.last ->
         IF f.seq \in recon.ledger THEN "skip" ELSE "restart"
    [] ~recon.awaiting /\ f.seq = recon.last + 1 -> f.kind
    [] ~recon.awaiting /\ f.seq > recon.last + 1 -> "restart"

VerdictOnControl(f) ==
  CASE f.kind = "presence" ->
         IF recon.awaiting \/ f.seq # recon.last THEN "control_sequence" ELSE "skip"
    [] f.kind = "resync" ->
         IF recon.awaiting \/ f.seq # recon.last + 1 THEN "control_sequence" ELSE "restart"

Verdict(f) ==
  CASE Durable(f) # (f.cursor # None) -> "cursor_cardinality"
    [] Durable(f) = (f.cursor # None) /\ f.kind = "snapshot" -> VerdictOnSnapshot(f)
    [] Durable(f) = (f.cursor # None) /\ f.kind \in {"revision", "state"} -> VerdictOnEvent(f)
    [] Durable(f) = (f.cursor # None) /\ ~Durable(f) -> VerdictOnControl(f)

ProtocolFailures ==
  {"cursor_cardinality", "unexpected_snapshot", "snapshot_below_minimum", "control_sequence"}

\* Mutant: only the first effect after a snapshot moves the cursor.
Committed_OldCursor(f) ==
  [recon EXCEPT !.awaiting = FALSE, !.last = f.seq, !.min = f.seq, !.ledger = @ \cup {f.seq},
                !.cursor = IF @ = None THEN [seq |-> f.seq, key |-> f.cursor, fresh |-> TRUE]
                           ELSE @]
\* The reconciler's commit of a durable effect.
Committed(f) ==
  [recon EXCEPT !.awaiting = FALSE, !.last = f.seq, !.min = f.seq, !.ledger = @ \cup {f.seq},
                !.cursor = [seq |-> f.seq, key |-> f.cursor, fresh |-> TRUE]]

Reading == phase = "reading" /\ wire # <<>>

ApplySnapshot ==
  /\ Reading /\ Verdict(Head(wire)) = "snapshot"
  /\ view' = 1..Head(wire).seq
  /\ recon' = Committed(Head(wire))
  /\ wire' = Tail(wire)
  /\ UNCHANGED <<log, access, key, server, phase, resetUsed, refreshed, cuts>>

ApplyEvent ==
  /\ Reading /\ Verdict(Head(wire)) = "state"
  /\ view' = view \cup {Head(wire).seq}
  /\ recon' = Committed(Head(wire))
  /\ wire' = Tail(wire)
  /\ UNCHANGED <<log, access, key, server, phase, resetUsed, refreshed, cuts>>

SkipFrame ==
  /\ Reading /\ Verdict(Head(wire)) = "skip"
  /\ wire' = Tail(wire)
  /\ UNCHANGED <<log, access, key, server, clientVars, cuts>>

\* Start again from a snapshot after a gap, an unknown duplicate or a resync
\* request; stop on a frame that breaks the protocol.
Abandon ==
  LET verdict == Verdict(Head(wire)) IN
  /\ Reading /\ verdict \in ProtocolFailures \cup {"restart"}
  /\ IF verdict = "restart"
       THEN Reconnect /\ recon' = NewReconciler(recon.last)
       ELSE Terminate(verdict) /\ UNCHANGED recon
  /\ UNCHANGED <<log, access, key, resetUsed, view, refreshed, cuts>>

\* A revision event makes the client fetch the board over HTTP, commit the
\* position of that snapshot, which must not be before the event, and open the
\* stream again without a cursor.
HearRevision ==
  /\ Reading /\ Verdict(Head(wire)) = "revision"
  /\ phase' = "refreshing"
  /\ refreshed' = 0
  /\ UNCHANGED <<log, access, key, server, wire, recon, resetUsed, view, cuts>>

SnapshotRead == Head_

RefreshRead ==
  /\ phase = "refreshing" /\ refreshed = 0 /\ access
  /\ refreshed' = SnapshotRead
  /\ UNCHANGED <<log, access, key, serverVars, phase, recon, resetUsed, view, cuts>>

RefreshApply ==
  /\ phase = "refreshing" /\ refreshed # 0
  /\ view' = 1..refreshed
  /\ IF refreshed >= Head(wire).seq
       THEN Reconnect /\ recon' = NewReconciler(refreshed)
       ELSE Terminate("callback") /\ UNCHANGED recon
  /\ UNCHANGED <<log, access, key, resetUsed, refreshed, cuts>>

\* A failed fetch rejects the callback, which stops the client.
RefreshFails ==
  /\ phase = "refreshing" /\ refreshed = 0
  /\ Terminate("callback")
  /\ UNCHANGED <<log, access, key, recon, resetUsed, view, refreshed, cuts>>

Receive == ApplySnapshot \/ ApplyEvent \/ SkipFrame \/ Abandon
Refresh == HearRevision \/ RefreshRead \/ RefreshApply
Serve == PostCut \/ WriteFrame \/ Drain \/ DrainFails
Connect == OpenRefused \/ OpenInvalidCursor \/ Open \/ EndOfStream

Next ==
  \/ \E kind \in EventKinds : Commit(kind)
  \/ Revoke \/ RotateKey \/ CursorAges
  \/ Connect \/ Serve \/ WritePresence
  \/ Finish \/ Recycle \/ OpenFails
  \/ Receive \/ Refresh \/ RefreshFails

Spec == Init /\ [][Next]_vars

----------------------------------------------------------------------------
(* Properties *)

\* An error that stops the client for good, without a frame out of place.
GivenUpFor == {"refused", "open_failed", "invalid_request", "callback"}
Stopped == ProtocolFailures \cup GivenUpFor

\* The variables have the types the handler and the client give them.
TypeOK ==
  /\ log \in Seq(EventKinds \cup {"revision"}) /\ Len(log) \in 1..MaxLog
  /\ access \in BOOLEAN /\ resetUsed \in BOOLEAN
  /\ key \in 0..MaxRotations /\ cuts \in 0..MaxCuts
  /\ server \in [phase : {"none", "cut", "serving"}, seq : 0..MaxLog, out : Seq(FrameType)]
  /\ wire \in Seq(FrameType)
  /\ phase \in {"connecting", "reading", "refreshing"} \cup Stopped
  /\ recon \in [awaiting : BOOLEAN, last : 1..MaxLog, min : 1..MaxLog,
                cursor : CursorType \cup {None}, ledger : SUBSET (1..MaxLog)]
  /\ view \subseteq 1..MaxLog
  /\ refreshed \in 0..MaxLog

\* What the browser shows is the board after some prefix of its log, and while
\* the stream is live that prefix ends exactly at the position the client would
\* resume from: nothing is skipped over a lost connection, between the cut and
\* the subscription, or between a fetched snapshot and the next stream.
ViewIsPrefix ==
  /\ view = 1..Cardinality(view)
  /\ Cardinality(view) <= Head_
  /\ ~recon.awaiting => /\ view = 1..recon.last
                        /\ recon.cursor # None /\ recon.cursor.seq = recon.last

\* A frame continues the one before it: the next event, or a presence frame that
\* names the event before it.
Follows(f, g) ==
  IF g.kind = "presence" THEN g.seq = f.seq ELSE g.kind # "snapshot" /\ g.seq = f.seq + 1

\* It continues the client: with a snapshot that is not older than its board, or
\* from the position it holds a cursor of.
Continues(f) ==
  IF f.kind = "snapshot" THEN f.seq >= recon.last
  ELSE ~recon.awaiting /\ f.seq = IF f.kind = "presence" THEN recon.last ELSE recon.last + 1

\* The frames still to be read and written continue the client's position
\* without a gap and without a duplicate, so that the reconciler's defences
\* against gaps, duplicates and frames out of place are never needed.
FramesContinue ==
  phase = "reading" =>
    LET frames == wire \o server.out IN
    /\ \A i \in 1..(Len(frames) - 1) : Follows(frames[i], frames[i + 1])
    /\ frames # <<>> => Continues(frames[1])

\* A conforming client meets no frame of a control kind out of sequence and no
\* snapshot older than the board it already shows.
NeverOutOfSequence == phase \notin {"control_sequence", "snapshot_below_minimum"}

\* A shown board never goes back to an earlier state of the log.
ViewNeverRegresses == view \subseteq view'

\* A board shown in a browser is some prefix of its log and never an older one,
\* over cuts, replays, refused cursors and fetched snapshots.
ViewFollowsLog ==
  /\ [](TypeOK /\ ViewIsPrefix /\ FramesContinue /\ NeverOutOfSequence)
  /\ [][ViewNeverRegresses]_vars

\* A client ends up showing the head of the board, without any hint from Redis, over
\* lost connections, recycled ones and changes of the key; or it was stopped, by the
\* end of its access, an error answer to its opening (which no timer tries again), a
\* cursor refused twice or a failed fetch, and shows where it stopped.
CatchesUp == <>[](view = 1..Head_ \/ phase \in GivenUpFor \/ ~access)

\* A board that asks its streams to resynchronise does not stop them.
ResyncKeepsStream == phase # "cursor_cardinality"

\* A cursor the server can no longer serve is answered with a snapshot the
\* stream goes on from.
UnusableCursorKeepsStream == phase # "unexpected_snapshot"
=============================================================================
