-------------------------- MODULE ClipboardCapability --------------------------
(* An artifact's request to write the clipboard: a trusted click in the inner *)
(* frame admits one announcement (artifact-runtime/src/runner/                *)
(* inner-bootstrap.ts), the announcement and the request reach the page in    *)
(* order, and the page writes when its dispatcher agrees (board-ui/src/       *)
(* artifact/artifact-capability-dispatch.ts).  Meanwhile the user's access to *)
(* the board changes and the run of the artifact may be ended.                *)
EXTENDS Naturals, Sequences, FiniteSets

CONSTANTS
    RequestIds,    \* request ids the script uses
    NoRequest,     \* null
    MaxGestures,   \* bound: trusted clicks and key presses
    MaxMessages,   \* bound: messages on their way to the page
    MaxEpoch       \* bound: changes of the access

ClipboardAssumption ==
    /\ NoRequest \notin RequestIds
    /\ MaxGestures \in Nat /\ MaxMessages \in Nat \ {0} /\ MaxEpoch \in Nat

VARIABLES
    turn,          \* inner frame: trustedUserActionTurn is not 0
    gestures,      \* trusted gestures so far
    port,          \* messages on their way to the page, over the runner
    access,        \* page: allowedArtifactRequestCapabilities and the epoch
    known,         \* dispatcher: #allowed, #capabilityEpoch and #generation
    pending,       \* dispatcher: #pending
    disposed,      \* dispatcher: #disposed
    writes         \* clipboard writes begun, and whether the artifact had its answer

clipboardVars == <<turn, gestures, port, access, known, pending, disposed, writes>>

Access == [allowed : BOOLEAN, epoch : 0 .. MaxEpoch]
NoPending == [id |-> NoRequest, epoch |-> 0, gen |-> 0, refused |-> FALSE, late |-> FALSE]

ClipboardTypeOK ==
    /\ turn \in BOOLEAN /\ disposed \in BOOLEAN
    /\ gestures \in 0 .. MaxGestures
    /\ port \in Seq([type : {"action", "request"}, id : RequestIds])
    /\ access \in Access
    /\ known \in [allowed : BOOLEAN, epoch : 0 .. MaxEpoch, gen : 0 .. MaxEpoch + 1]
    /\ pending \in [id : RequestIds \cup {NoRequest}, epoch : 0 .. MaxEpoch,
                    gen : 0 .. MaxEpoch + 1, refused : BOOLEAN, late : BOOLEAN]
    /\ writes \in Seq([id : RequestIds, state : {"open", "written", "failed"}, answered : BOOLEAN])

ClipboardInit ==
    /\ turn = FALSE /\ gestures = 0 /\ port = <<>>
    /\ access \in {a \in Access : a.epoch = 0}
    /\ known = [allowed |-> access.allowed, epoch |-> 0, gen |-> 0]
    /\ pending = NoPending /\ disposed = FALSE /\ writes = <<>>

(* ---------------------------- the inner frame ---------------------------- *)

\* A trusted click or key press; the turn ends with the task.
Gesture ==
    /\ gestures < MaxGestures /\ gestures' = gestures + 1 /\ turn' = TRUE
    /\ UNCHANGED <<port, access, known, pending, disposed, writes>>

TurnEnds ==
    /\ turn /\ turn' = FALSE
    /\ UNCHANGED <<gestures, port, access, known, pending, disposed, writes>>

TurnAfter == FALSE


UserAction(r) ==
    /\ turn /\ Len(port) < MaxMessages
    /\ turn' = TurnAfter
    /\ port' = Append(port, [type |-> "action", id |-> r])
    /\ UNCHANGED <<gestures, access, known, pending, disposed, writes>>

\* The script may request at any time.
RequestCapability(r) ==
    /\ Len(port) < MaxMessages
    /\ port' = Append(port, [type |-> "request", id |-> r])
    /\ UNCHANGED <<turn, gestures, access, known, pending, disposed, writes>>

(* ------------------------------- the page -------------------------------- *)

\* The page renders with another access to the board: its epoch grows.
AccessChanges ==
    /\ access.epoch < MaxEpoch
    /\ access' \in [allowed : BOOLEAN, epoch : {access.epoch + 1}]
    /\ UNCHANGED <<turn, gestures, port, known, pending, disposed, writes>>

\* Mutant: only a change of the allow-list counts.
Updated_ListOnly ==
    IF known.allowed = access.allowed THEN known
    ELSE [allowed |-> access.allowed, epoch |-> access.epoch, gen |-> known.gen + 1]
\* updateAllowedCapabilities, which every message of the artifact calls first.
Updated ==
    IF known.allowed = access.allowed /\ known.epoch = access.epoch THEN known
    ELSE [allowed |-> access.allowed, epoch |-> access.epoch, gen |-> known.gen + 1]


AdmitAction(k, r) ==
    /\ pending' = [id |-> r, epoch |-> k.epoch, gen |-> k.gen, refused |-> ~k.allowed, late |-> FALSE]
    /\ UNCHANGED writes

\* dispatch: writes, or refuses; the announcement is used either way.  A request
\* with a text that cannot be written counts as one with another id.
Dispatch(k, r) ==
    /\ pending' = NoPending
    /\ IF /\ pending.id = r
          /\ pending.gen = k.gen /\ pending.epoch = k.epoch
          /\ ~pending.refused /\ ~pending.late /\ k.allowed
       THEN writes' = Append(writes, [id |-> r, state |-> "open", answered |-> FALSE])
       ELSE UNCHANGED writes

PageTakes ==
    /\ port # <<>> /\ ~disposed
    /\ port' = Tail(port) /\ known' = Updated
    /\ \/ Head(port).type = "action" /\ AdmitAction(Updated, Head(port).id)
       \/ Head(port).type = "request" /\ Dispatch(Updated, Head(port).id)
    /\ UNCHANGED <<turn, gestures, access, disposed>>

\* More than 1.5 s since the announcement.
PendingAges ==
    /\ pending.id # NoRequest /\ ~pending.late
    /\ pending' = [pending EXCEPT !.late = TRUE]
    /\ UNCHANGED <<turn, gestures, port, access, known, disposed, writes>>

\* The browser writes or refuses; its answer may come after the timeout.
WriteSettles(i) ==
    /\ writes[i].state = "open"
    /\ \E s \in {"written", "failed"} :
         writes' = [writes EXCEPT ![i].state = s, ![i].answered = TRUE]
    /\ UNCHANGED <<turn, gestures, port, access, known, pending, disposed>>

\* Five seconds without an answer of the browser: the artifact is told, unless
\* the run has ended, and a late answer of the browser is not.
WriteTimesOut(i) ==
    /\ ~writes[i].answered
    /\ writes' = [writes EXCEPT ![i].answered = TRUE]
    /\ UNCHANGED <<turn, gestures, port, access, known, pending, disposed>>


\* cleanup of the host: the dispatcher is disposed and the port closed.
DisposeDispatcher ==
    /\ ~disposed /\ disposed' = TRUE /\ pending' = NoPending /\ port' = <<>>
    /\ UNCHANGED <<turn, gestures, access, known, writes>>

ClipboardNext ==
    \/ Gesture \/ TurnEnds \/ AccessChanges \/ PageTakes \/ PendingAges \/ DisposeDispatcher
    \/ \E r \in RequestIds : UserAction(r) \/ RequestCapability(r)
    \/ \E i \in DOMAIN writes : WriteSettles(i) \/ WriteTimesOut(i)

ClipboardSpec == ClipboardInit /\ [][ClipboardNext]_clipboardVars

(* ------------------------------ properties ------------------------------- *)

\* However the script orders, repeats and replays its announcements and
\* requests, the clipboard is written at most once for each trusted gesture.
WritesByGesture == Len(writes) <= gestures

\* A write begins only under an access that allows it, and that is still the
\* one the announcement was made under: a revocation that arrives between the
\* announcement and the request, or is taken back again, stops the write.
WritesUnderStandingAccess ==
    Len(writes') > Len(writes) => access.allowed /\ pending.epoch = access.epoch

\* The clipboard is written once for a gesture of the user, under the access the
\* gesture was made under (the capability dispatcher).
ClipboardIsGuarded ==
    [](ClipboardTypeOK /\ WritesByGesture) /\ [][WritesUnderStandingAccess]_clipboardVars
=============================================================================
