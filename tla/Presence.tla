------------------------------- MODULE Presence -------------------------------
(* Who is present on a board: a lease in Redis for each tab with an open      *)
(* stream (sceneboard-be/src/presence/redis-presence.repository.ts), taken,   *)
(* renewed, released and listed by the streams of all servers                 *)
(* (sse/board-sse.service.ts).  Every script is atomic; a stream ends after   *)
(* thirty seconds, fails, or dies with its server.                            *)
EXTENDS Integers, FiniteSets

CONSTANTS
    Streams,       \* stream requests; each gets its own connection id
    NoStream,      \* no lease
    Users,
    TabOf,         \* the tab a stream is for; a tab reconnects with the same id
    UserOf,        \* the user of a tab
    Cap,           \* leases of a user on the board
    MaxLosses      \* bound: how often Redis loses its data

Tabs == DOMAIN UserOf

PresenceAssumption ==
    /\ NoStream \notin Streams /\ IsFiniteSet(Streams)
    /\ TabOf \in [Streams -> Tabs] /\ UserOf \in [Tabs -> Users]
    /\ Cap \in Nat \ {0} /\ MaxLosses \in Nat

VARIABLES
    lease,         \* the connection of a tab's key, until it expires
    index,         \* the board's sorted set; expired members until they are swept
    concurrency,   \* the user's sorted set on the board
    version,       \* the version key
    stream,        \* what became of a stream
    shown,         \* what a stream last wrote: the version and the tabs
    latest,        \* history: the stream that opened last for a tab
    losses

presenceVars == <<lease, index, concurrency, version, stream, shown, latest, losses>>

MaxVersion == 2 * Cardinality(Streams)
Live == {t \in Tabs : lease[t] # NoStream}
TabsOf(u) == {t \in Tabs : UserOf[t] = u}
Nothing == [version |-> -1, tabs |-> {}]

PresenceTypeOK ==
    /\ lease \in [Tabs -> Streams \cup {NoStream}]
    /\ index \subseteq Tabs
    /\ concurrency \in [Users -> SUBSET Tabs]
    /\ version \in 0 .. MaxVersion
    /\ stream \in [Streams -> {"new", "open", "refused", "ended", "crashed"}]
    /\ shown \in [Streams -> [version : -1 .. MaxVersion, tabs : SUBSET Tabs]]
    /\ latest \in [Tabs -> Streams \cup {NoStream}]
    /\ losses \in 0 .. MaxLosses

PresenceInit ==
    /\ lease = [t \in Tabs |-> NoStream] /\ index = {}
    /\ concurrency = [u \in Users |-> {}] /\ version = 0
    /\ stream = [s \in Streams |-> "new"] /\ shown = [s \in Streams |-> Nothing]
    /\ latest = [t \in Tabs |-> NoStream] /\ losses = 0

\* ZREMRANGEBYSCORE: the scores run out with the keys.
Swept(members) == members \cap Live


Full(u) == Cardinality(Swept(concurrency[u])) >= Cap


\* OPEN_SCRIPT.  A key that is still there is replaced: the tab reconnects.
OpenTab(s) ==
    LET t == TabOf[s]
        u == UserOf[t]
    IN
    /\ stream[s] = "new"
    /\ IF lease[t] = NoStream /\ Full(u)
       THEN /\ stream' = [stream EXCEPT ![s] = "refused"]
            /\ index' = Swept(index)
            /\ concurrency' = [concurrency EXCEPT ![u] = Swept(@)]
            /\ UNCHANGED <<lease, version, latest>>
       ELSE /\ stream' = [stream EXCEPT ![s] = "open"]
            /\ lease' = [lease EXCEPT ![t] = s] /\ latest' = [latest EXCEPT ![t] = s]
            /\ index' = Swept(index) \cup {t}
            /\ concurrency' = [concurrency EXCEPT ![u] = Swept(@) \cup {t}]
            /\ version' = version + 1
    /\ UNCHANGED <<shown, losses>>

\* Mutant: any lease of the tab will do.
Holds_Any(s) == lease[TabOf[s]] # NoStream
\* The comparison of the connection id with the lease's.
Holds(s) == lease[TabOf[s]] = s


TouchVersion == version

\* TOUCH_SCRIPT, every ten seconds: a stream that lost its lease fails.
Touch(s) ==
    /\ stream[s] = "open"
    /\ IF Holds(s)
       THEN /\ index' = index \cup {TabOf[s]}
            /\ concurrency' = [concurrency EXCEPT ![UserOf[TabOf[s]]] = @ \cup {TabOf[s]}]
            /\ version' = TouchVersion /\ UNCHANGED stream
       ELSE /\ stream' = [stream EXCEPT ![s] = "ended"]
            /\ UNCHANGED <<index, concurrency, version>>
    /\ UNCHANGED <<lease, shown, latest, losses>>

CloseVersion == version + 1

\* CLOSE_SCRIPT, when a stream is over for whatever reason but a crash.
End(s) ==
    LET t == TabOf[s] IN
    /\ stream[s] = "open" /\ stream' = [stream EXCEPT ![s] = "ended"]
    /\ IF Holds(s)
       THEN /\ lease' = [lease EXCEPT ![t] = NoStream]
            /\ index' = index \ {t}
            /\ concurrency' = [concurrency EXCEPT ![UserOf[t]] = @ \ {t}]
            /\ version' = CloseVersion
       ELSE UNCHANGED <<lease, index, concurrency, version>>
    /\ UNCHANGED <<shown, latest, losses>>


\* writePresence, on a hint or every five seconds: nothing is written while the
\* version is the one written last.
WriteTabs(s) ==
    /\ stream[s] = "open" /\ version # shown[s].version
    /\ shown' = [shown EXCEPT ![s] = [version |-> version, tabs |-> Swept(index)]]
    /\ index' = Swept(index)
    /\ UNCHANGED <<lease, concurrency, version, stream, latest, losses>>

Crash(s) ==
    /\ stream[s] = "open" /\ stream' = [stream EXCEPT ![s] = "crashed"]
    /\ UNCHANGED <<lease, index, concurrency, version, shown, latest, losses>>

\* Thirty-five seconds without a touch.  A stream that is open touches in time.
Expire(t) ==
    /\ lease[t] # NoStream /\ stream[lease[t]] = "crashed"
    /\ lease' = [lease EXCEPT ![t] = NoStream]
    /\ UNCHANGED <<index, concurrency, version, stream, shown, latest, losses>>

\* Redis comes back empty.
LoseRedis ==
    /\ losses < MaxLosses /\ losses' = losses + 1
    /\ lease' = [t \in Tabs |-> NoStream] /\ index' = {}
    /\ concurrency' = [u \in Users |-> {}] /\ version' = 0
    /\ UNCHANGED <<stream, shown, latest>>

PresenceNext ==
    \/ \E s \in Streams : OpenTab(s) \/ Touch(s) \/ End(s) \/ WriteTabs(s) \/ Crash(s)
    \/ \E t \in Tabs : Expire(t)
    \/ LoseRedis

PresenceSpec == PresenceInit /\ [][PresenceNext]_presenceVars

(* ------------------------------ properties ------------------------------- *)

\* The lease of a tab belongs to the stream the tab opened last, as long as
\* that stream is open and Redis kept its data: the end of an earlier stream
\* of the tab, however late it comes, does not take it away.
LatestStreamIsPresent ==
    losses = 0 => \A s \in Streams :
        stream[s] = "open" /\ latest[TabOf[s]] = s => lease[TabOf[s]] = s

\* The two lists, from which presence and the caps are read, miss no lease, and
\* no user has more than the cap.
ListsComplete ==
    /\ Live \subseteq index
    /\ \A u \in Users : /\ Live \cap TabsOf(u) = concurrency[u] \cap Live
                        /\ Cardinality(Live \cap TabsOf(u)) <= Cap

\* A stream that skips a write because the version has not moved shows every
\* tab that is present, and besides only tabs whose lease ran out.
VersionTellsSet ==
    losses = 0 => \A s \in Streams :
        stream[s] = "open" /\ shown[s].version = version =>
            /\ Live \subseteq shown[s].tabs
            /\ \A t \in shown[s].tabs \ Live : stream[latest[t]] = "crashed"

\* A tab without a lease is not refused to its user because of leases that ran
\* out: a refusal means that the cap is used up by tabs that are present.
RefusedOnlyAtCap ==
    \A s \in Streams :
        stream[s] = "new" /\ stream'[s] = "refused" =>
            Cardinality(Live \cap TabsOf(UserOf[TabOf[s]])) = Cap

\* The tabs of a board and the caps on them follow the latest streams, however
\* late earlier ones end (presence.repository.ts).
PresenceIsTold ==
    /\ [](/\ PresenceTypeOK /\ LatestStreamIsPresent
          /\ ListsComplete /\ VersionTellsSet)
    /\ [][RefusedOnlyAtCap]_presenceVars
=============================================================================
