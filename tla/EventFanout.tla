------------------------------ MODULE EventFanout ------------------------------
(***************************************************************************)
(* The hint channel of one board in one server process: stream handlers    *)
(* subscribe with RedisEventFanoutService, which shares one transport      *)
(* subscription (a generation) among them, and RedisService, which keeps   *)
(* the set of transport listeners of the channel and sends SUBSCRIBE for   *)
(* the first and UNSUBSCRIBE after the last.  Everything runs in one event *)
(* loop: a step runs from one await to the next, and what is queued with    *)
(* Promise.resolve().then runs in the order it was queued.                 *)
(*                                                                         *)
(* A generation is named after the listener whose call created it, and a   *)
(* set of transport listeners after the generation that created it.        *)
(***************************************************************************)
EXTENDS Naturals, Sequences

CONSTANTS
  Listeners,    \* calls of subscribeBoard
  Absent,
  MaxFaults     \* failed Redis commands

FanoutAssumption == Absent \notin Listeners /\ MaxFaults \in Nat

VARIABLES
  call,       \* by listener: new, waiting, active, refused, aborted or gone
  joined,     \* by listener: the generation it belongs to
  current,    \* the generation in #subscriptions, or Absent
  setup,      \* by generation: how far its set-up is
  teardown,   \* by generation: none, queued or done
  closed,     \* generations that are closed
  members,    \* by generation: its hint listeners
  channel,    \* the set of transport listeners in RedisService.listeners, or Absent
  transport,  \* by set: the generations registered in it
  kept,       \* by generation: the set its subscribe call holds on to
  listening,  \* the server has the connection subscribed
  micro,      \* the queued microtasks: set-ups and tear-downs of generations
  faults

fanoutVars == <<call, joined, current, setup, teardown, closed, members, channel, transport,
                kept, listening, micro, faults>>
service == <<call, joined, current, teardown, closed, members>>
redis == <<channel, transport, kept, listening>>

SetupStates == {"unused", "queued", "connecting", "sent", "unanswered", "ready", "failed"}

FanoutInit ==
  /\ call = [l \in Listeners |-> "new"]
  /\ joined = [l \in Listeners |-> Absent]
  /\ current = Absent
  /\ setup = [g \in Listeners |-> "unused"]
  /\ teardown = [g \in Listeners |-> "none"]
  /\ closed = {}
  /\ members = [g \in Listeners |-> {}]
  /\ channel = Absent
  /\ transport = [s \in Listeners |-> {}]
  /\ kept = [g \in Listeners |-> Absent]
  /\ listening = FALSE
  /\ micro = <<>>
  /\ faults = 0

Queue(kind, g) == micro' = Append(micro, <<kind, g>>)
Runs(kind, g) == micro # <<>> /\ Head(micro) = <<kind, g>>

\* The tear-down of g is queued behind `rest`, unless it already was.
TearDown(g, rest) ==
  /\ teardown' = [teardown EXCEPT ![g] = "queued"]
  /\ micro' = Append(rest, <<"teardown", g>>)

Fault == faults < MaxFaults /\ faults' = faults + 1

----------------------------------------------------------------------------
(* RedisEventFanoutService *)

\* subscribeBoard up to its first await.
SubscribeBoard(l) ==
  LET g == IF current = Absent THEN l ELSE current IN
  /\ call[l] = "new"
  /\ call' = [call EXCEPT ![l] = "waiting"]
  /\ joined' = [joined EXCEPT ![l] = g]
  /\ members' = [members EXCEPT ![g] = @ \cup {l}]
  /\ current' = g
  /\ IF current = Absent
     THEN setup' = [setup EXCEPT ![g] = "queued"] /\ Queue("setup", g)
     ELSE UNCHANGED <<setup, micro>>
  /\ UNCHANGED <<teardown, closed, redis, faults>>

Unlisted(g) == IF current = g THEN Absent ELSE current

Emptied(g) == [members EXCEPT ![g] = {}]

\* #close: a generation whose set-up is under way is torn down by the set-up.
Close(g) ==
  /\ closed' = closed \cup {g}
  /\ members' = Emptied(g)
  /\ current' = Unlisted(g)
  /\ IF teardown[g] = "none" /\ setup[g] = "ready"
     THEN TearDown(g, micro)
     ELSE UNCHANGED <<teardown, micro>>

\* Mutant: whoever leaves closes the generation for the others.
LastMember_Any(l) == TRUE
LastMember(l) == members[joined[l]] \subseteq {l}

\* The request ends, or is aborted while the set-up is under way.
Remove(l) ==
  /\ call[l] \in {"waiting", "active"}
  /\ call' = [call EXCEPT ![l] = IF @ = "active" THEN "gone" ELSE "aborted"]
  /\ IF LastMember(l)
     THEN Close(joined[l])
     ELSE /\ members' = [members EXCEPT ![joined[l]] = @ \ {l}]
          /\ UNCHANGED <<closed, current, teardown, micro>>
  /\ UNCHANGED <<joined, setup, redis, faults>>

Settled(g) == setup[g] \in {"ready", "failed"}

\* subscribeBoard after the set-up has settled.
Confirm(l) ==
  LET g == joined[l] IN
  /\ call[l] = "waiting"
  /\ Settled(g)
  /\ call' = [call EXCEPT ![l] = IF g \notin closed /\ l \in members[g]
                                 THEN "active" ELSE "refused"]
  /\ members' = IF setup[g] = "failed" THEN [members EXCEPT ![g] = @ \ {l}] ELSE members
  /\ UNCHANGED <<joined, current, setup, teardown, closed, redis, micro, faults>>

----------------------------------------------------------------------------
(* RedisService *)

MustTearDown(g) == g \in closed

\* The generation is set up: its transport listener is registered, and it is
\* torn down at once when it was closed in the meantime.
SetUp(g, s, rest) ==
  /\ transport' = [transport EXCEPT ![s] = @ \cup {g}]
  /\ setup' = [setup EXCEPT ![g] = "ready"]
  /\ IF MustTearDown(g) THEN TearDown(g, rest)
                        ELSE micro' = rest /\ UNCHANGED teardown

\* subscribe: the first caller creates the set and has to send the command;
\* later ones find the set and are done.
StartSetup(g) ==
  /\ Runs("setup", g)
  /\ IF channel = Absent
     THEN /\ channel' = g
          /\ kept' = [kept EXCEPT ![g] = g]
          /\ setup' = [setup EXCEPT ![g] = "connecting"]
          /\ micro' = Tail(micro)
          /\ UNCHANGED <<transport, teardown>>
     ELSE /\ kept' = [kept EXCEPT ![g] = channel]
          /\ SetUp(g, channel, Tail(micro))
          /\ UNCHANGED channel
  /\ UNCHANGED <<call, joined, current, closed, members, listening, faults>>

\* SUBSCRIBE leaves on the connection; commands take effect in this order.
SendSubscribe(g) ==
  /\ setup[g] = "connecting" /\ micro = <<>>
  /\ \/ /\ setup' = [setup EXCEPT ![g] = "sent"]
        /\ listening' = TRUE
        /\ UNCHANGED faults
     \/ /\ Fault                 \* no connection, or no answer in three seconds
        /\ setup' = [setup EXCEPT ![g] = "unanswered"]
        /\ listening' \in {listening, TRUE}
  /\ UNCHANGED <<service, channel, transport, kept, micro>>

Subscribed(g) ==
  /\ setup[g] = "sent"
  /\ SetUp(g, kept[g], micro)
  /\ UNCHANGED <<call, joined, current, closed, members, channel, kept, listening, faults>>

\* The set-up rejects: the generation is closed; the set of the channel stays.
SetupFails(g) ==
  /\ setup[g] = "unanswered"
  /\ setup' = [setup EXCEPT ![g] = "failed"]
  /\ closed' = closed \cup {g}
  /\ members' = Emptied(g)
  /\ current' = Unlisted(g)
  /\ UNCHANGED <<call, joined, teardown, redis, micro, faults>>

StillListening(rest) == listening /\ rest # {}

\* The function subscribe returned: it works on the set the channel has now.
Unsubscribe(g) ==
  LET rest == transport[channel] \ {g} IN
  /\ Runs("teardown", g)
  /\ micro' = Tail(micro)
  /\ teardown' = [teardown EXCEPT ![g] = "done"]
  /\ IF channel = Absent
     THEN UNCHANGED <<channel, transport, listening, faults>>
     ELSE /\ transport' = [transport EXCEPT ![channel] = rest]
          /\ channel' = IF rest = {} THEN Absent ELSE channel
          /\ \/ listening' = StillListening(rest) /\ UNCHANGED faults
             \/ rest = {} /\ Fault /\ listening' \in {listening, FALSE}
  /\ UNCHANGED <<call, joined, current, setup, closed, members, kept>>

Run(g) ==
  StartSetup(g) \/ SendSubscribe(g) \/ Subscribed(g) \/ SetupFails(g) \/ Unsubscribe(g)

FanoutNext ==
  \E l \in Listeners : SubscribeBoard(l) \/ Remove(l) \/ Confirm(l) \/ Run(l)

FanoutSpec == FanoutInit /\ [][FanoutNext]_fanoutVars

----------------------------------------------------------------------------
(* Properties *)

FanoutTypeOK ==
  /\ call \in [Listeners -> {"new", "waiting", "active", "refused", "aborted", "gone"}]
  /\ joined \in [Listeners -> Listeners \cup {Absent}]
  /\ current \in Listeners \cup {Absent} /\ channel \in Listeners \cup {Absent}
  /\ setup \in [Listeners -> SetupStates]
  /\ teardown \in [Listeners -> {"none", "queued", "done"}]
  /\ closed \subseteq Listeners
  /\ members \in [Listeners -> SUBSET Listeners]
  /\ transport \in [Listeners -> SUBSET Listeners]
  /\ kept \in [Listeners -> Listeners \cup {Absent}]
  /\ listening \in BOOLEAN
  /\ micro \in Seq({"setup", "teardown"} \X Listeners)
  /\ faults \in 0..MaxFaults
  /\ \A g \in closed : members[g] = {}

\* The set of the channel is the one the generation of l is registered in, and
\* the server sends the hints, unless SUBSCRIBE for that set was not answered
\* yet or has failed: nothing sends it again for those who find the set.
Reached(l) ==
  LET s == kept[joined[l]] IN
  /\ channel = s /\ joined[l] \in transport[s]
  /\ listening \/ setup[s] \in {"connecting", "unanswered", "failed"}

\* A generation that was aborted during its set-up was registered in one set
\* and torn down on another, and so stayed where it was.
Strayed == \E g \in Listeners : teardown[g] = "done" /\ g \in transport[kept[g]]

\* Nobody who is subscribed is cut off by somebody else who leaves, aborts or
\* fails: its generation is the current one, and the hints reach it.  The code
\* has two exceptions, a SUBSCRIBE that was rejected before (in Reached) and a
\* tear-down that went astray and took the set of the listener's generation away.
NobodyIsCutOff ==
  \A l \in Listeners : call[l] = "active" =>
    /\ l \in members[joined[l]] /\ current = joined[l]
    /\ Reached(l) \/ (Strayed /\ channel # kept[joined[l]])

Quiet ==
  /\ \A l \in Listeners : call[l] \notin {"waiting", "active"}
  /\ \A g \in Listeners : setup[g] \in {"unused", "ready", "failed"} /\ teardown[g] # "queued"

\* When the last listener has left and all calls have returned, no transport
\* listener stays behind, whatever failed or was aborted on the way.
NothingLeaks ==
  Quiet => /\ current = Absent
           /\ channel # Absent => transport[channel] = {}

\* And if no command failed and no tear-down went astray, the server sends no
\* more hints of the board.
ServerForgets ==
  Quiet /\ faults = 0 /\ ~Strayed => channel = Absent /\ ~listening

\* Listeners of a board come, leave, abort and fail without cutting each other
\* off and without leaving anything behind (redis-event-fanout.service.ts).
SetupsKeepApart == FanoutTypeOK /\ NobodyIsCutOff /\ NothingLeaks /\ ServerForgets
=============================================================================
