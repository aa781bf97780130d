----------------------------- MODULE RateLimits -----------------------------
(* Fixed windows in Redis (sceneboard-be/src/rate-limit) and the two ways      *)
(* requests pass through them: a guard that counts every request in one bucket *)
(* after the other, and the buckets of failed API keys, which every server     *)
(* also remembers for itself once they are full                                *)
(* (api-keys/account-api-key.service.ts).  Time is counted in ticks; answers   *)
(* round up to whole seconds.                                                  *)
EXTENDS Integers, Sequences, FiniteSets

CONSTANTS
    Servers,
    Callers,        \* requests under way at a time
    ServerOf,       \* the server a request is made to
    Kinds,          \* the requests of a run, out of AllKinds
    Limit,
    Window,         \* ticks
    Second,         \* ticks of a second
    Unset,
    MaxTicks,        \* bound
    MaxRequests,    \* bound
    MaxFaults       \* bound: answers of Redis that are lost

AllKinds == {"guard", "wrong", "valid"}
GuardBuckets == <<"address", "account">>
FailureBuckets == <<"locator", "ip">>
Buckets == {"address", "account", "locator", "ip"}

Counters == [count : Nat, start : Nat, expires : Nat]
Refusals == [start : Nat, until : Nat]

RateLimitsAssumption ==
    /\ IsFiniteSet(Callers) /\ ServerOf \in [Callers -> Servers] /\ Kinds \subseteq AllKinds
    /\ Unset \notin Counters /\ Unset \notin Refusals /\ Unset \notin AllKinds
    /\ Limit \in Nat \ {0} /\ Window \in Nat \ {0} /\ Second \in Nat \ {0}
    /\ MaxTicks \in Nat /\ MaxRequests \in Nat /\ MaxFaults \in Nat

VARIABLES
    clock,
    key,            \* the counter of a bucket; Unset when it expired
    full,           \* saturatedFailureBuckets: until when a bucket is full
    request,
    passes,         \* history: when the first bucket of the guard let requests pass, and in which window
    refused,        \* history: the last refusal of a bucket, with its Retry-After
    started,
    faults

limitsVars == <<clock, key, full, request, passes, refused, started, faults>>

Times == 0 .. MaxTicks
RoundUp(ticks) == ((ticks + Second - 1) \div Second) * Second
Idle == [kind |-> Unset, stage |-> 0, asking |-> FALSE]

LimitsInit ==
    /\ clock = 0 /\ key = [b \in Buckets |-> Unset]
    /\ full = [s \in Servers |-> [b \in Buckets |-> 0]]
    /\ request = [r \in Callers |-> Idle]
    /\ passes = <<>>
    /\ refused = [b \in Buckets |-> Unset] /\ started = 0 /\ faults = 0

-----------------------------------------------------------------------------
(* RATE_LIMIT_LUA, and what consume makes of its answer                      *)

\* INCR, and PEXPIRE for the first request of a window.
Counted(b) ==
    IF key[b] = Unset THEN [count |-> 1, start |-> clock, expires |-> clock + Window]
                     ELSE [key[b] EXCEPT !.count = @ + 1]

Ttl(b) == Counted(b).expires - clock

WithinLimit(count) == count <= Limit

\* A time to live of zero, in the last instant of a window, is no valid answer:
\* the request is answered SERVICE_UNAVAILABLE.
Passes(b) == Ttl(b) >= 1 /\ WithinLimit(Counted(b).count)
Refuses(b) == Ttl(b) >= 1 /\ ~WithinLimit(Counted(b).count)

\* Mutant: the rest of the window is rounded down.
RetryAfter_Down(ticks) == IF ticks < Second THEN Second ELSE (ticks \div Second) * Second
RetryAfter(ticks) == RoundUp(ticks)

Refused(b) ==
    refused' = [refused EXCEPT ![b] = [start |-> Counted(b).start,
                                       until |-> clock + RetryAfter(Ttl(b))]]
Goes(r, kind, stage) ==
    request' = [request EXCEPT ![r] = [kind |-> kind, stage |-> stage, asking |-> FALSE]]
Step(r) == Goes(r, request[r].kind, request[r].stage + 1)
Answer(r) == request' = [request EXCEPT ![r] = Idle]
\* The next bucket, or the answer after the last one.
StepOn(r) == IF request[r].stage = 2 THEN Answer(r) ELSE Step(r)

-----------------------------------------------------------------------------
Start(r, kind) ==
    /\ request[r].kind = Unset /\ started < MaxRequests /\ started' = started + 1
    /\ Goes(r, kind, IF kind = "guard" THEN 1 ELSE 0)
    /\ UNCHANGED <<clock, key, full, passes, refused, faults>>

\* canActivate of a guard: one bucket after the other; a request that one of
\* them refuses has been counted in those before it.
GuardConsumes(r) ==
    LET b == GuardBuckets[request[r].stage] IN
    /\ request[r].kind = "guard"
    /\ key' = [key EXCEPT ![b] = Counted(b)]
    /\ \/ /\ Passes(b) /\ StepOn(r)
          /\ passes' = IF request[r].stage = 1 THEN Append(passes, [at |-> clock, start |-> Counted(b).start])
                       ELSE passes
          /\ UNCHANGED refused
       \/ Refuses(b) /\ Refused(b) /\ Answer(r) /\ UNCHANGED passes
       \/ Ttl(b) < 1 /\ Answer(r) /\ UNCHANGED <<passes, refused>>
    /\ UNCHANGED <<clock, full, started, faults>>

-----------------------------------------------------------------------------
(* Failed API keys                                                           *)

\* saturatedFailure.
KnownFull(s, b) == full[s][b] > clock

\* preflightWellFormedFailure, before the key is looked up; a key that is valid
\* is not counted.
Preflight(r) ==
    /\ request[r].kind \in {"wrong", "valid"} /\ request[r].stage = 0
    /\ IF request[r].kind = "valid" \/ \E b \in {"locator", "ip"} : KnownFull(ServerOf[r], b)
       THEN Answer(r) ELSE Step(r)
    /\ UNCHANGED <<clock, key, full, passes, refused, started, faults>>

\* consumeFailureBucket up to its call of Redis: what is known to be full is not
\* counted any more.
Ask(r) ==
    /\ request[r].kind = "wrong" /\ request[r].stage \in 1 .. 2 /\ ~request[r].asking
    /\ IF KnownFull(ServerOf[r], FailureBuckets[request[r].stage]) THEN StepOn(r)
       ELSE request' = [request EXCEPT ![r].asking = TRUE]
    /\ UNCHANGED <<clock, key, full, passes, refused, started, faults>>

\* rememberSaturatedFailure: as long as Retry-After says.
RememberedUntil(b) == clock + RetryAfter(Ttl(b))

\* The answer of Redis; the second bucket is counted whatever the first said.
Counts(r) ==
    LET b == FailureBuckets[request[r].stage] IN
    /\ request[r].asking
    /\ key' = [key EXCEPT ![b] = Counted(b)]
    /\ StepOn(r)
    /\ IF Refuses(b)
       THEN Refused(b) /\ full' = [full EXCEPT ![ServerOf[r]][b] = RememberedUntil(b)]
       ELSE UNCHANGED <<full, refused>>
    /\ UNCHANGED <<clock, passes, started, faults>>

-----------------------------------------------------------------------------
\* The script ran and its answer is lost: counted, and SERVICE_UNAVAILABLE.
Lost(r) ==
    /\ faults < MaxFaults /\ faults' = faults + 1
    /\ \/ /\ request[r].kind = "guard" /\ Answer(r)
          /\ LET b == GuardBuckets[request[r].stage] IN key' = [key EXCEPT ![b] = Counted(b)]
       \/ /\ request[r].asking /\ StepOn(r)
          /\ LET b == FailureBuckets[request[r].stage] IN key' = [key EXCEPT ![b] = Counted(b)]
    /\ UNCHANGED <<clock, full, passes, refused, started>>

\* A key outlives its last instant by nothing.
ClockTicks ==
    /\ clock < MaxTicks /\ clock' = clock + 1
    /\ key' = [b \in Buckets |->
                 IF key[b] # Unset /\ key[b].expires < clock + 1 THEN Unset ELSE key[b]]
    /\ UNCHANGED <<full, request, passes, refused, started, faults>>

LimitsNext ==
    \/ \E r \in Callers : \/ \E kind \in Kinds : Start(r, kind)
                           \/ GuardConsumes(r) \/ Preflight(r) \/ Ask(r)
                           \/ Counts(r) \/ Lost(r)
    \/ ClockTicks

LimitsSpec == LimitsInit /\ [][LimitsNext]_limitsVars

-----------------------------------------------------------------------------
(* Properties                                                                *)

\* The state is well formed, and no counter outlives its window.
LimitsTypeOK ==
    /\ clock \in Times /\ started \in 0 .. MaxRequests /\ faults \in 0 .. MaxFaults
    /\ key \in [Buckets -> Counters \cup {Unset}]
    /\ \A b \in Buckets : key[b] # Unset =>
         /\ key[b].count > 0 /\ key[b].start <= clock
         /\ key[b].expires = key[b].start + Window /\ clock <= key[b].expires
    /\ full \in [Servers -> [Buckets -> Nat]]
    /\ request \in [Callers -> [kind : Kinds \cup {Unset}, stage : 0 .. 2, asking : BOOLEAN]]
    /\ passes \in Seq([at : Times, start : Times])
    /\ refused \in [Buckets -> Refusals \cup {Unset}]

\* However the requests fall around the end of a window, no stretch as long as a
\* window lets more than twice the limit pass: of so many, the last comes a
\* window after the first.
AtMostTwice ==
    \A i, j \in 1 .. Len(passes) :
        j = i + 2 * Limit => passes[j].at >= passes[i].at + Window

\* A caller that waits as long as Retry-After says does not meet the window that
\* refused it.
RetryAfterEndsWindow ==
    \A b \in Buckets : (refused[b] # Unset /\ clock >= refused[b].until /\ key[b] # Unset)
                         => \/ key[b].start > refused[b].start
                            \/ clock = key[b].expires

\* A server refuses failed keys without asking Redis only as long as the bucket
\* is really full, up to the rounding to a second.
MemoryEndsWithWindow ==
    \A s \in Servers, b \in Buckets :
        full[s][b] >= clock + Second => key[b] # Unset /\ key[b].count > Limit

\* Failures of a full bucket stop reaching Redis (and the audit): beyond the
\* limit a window counts what was under way, lost, or asked in its last instant.
FailureWorkIsBounded ==
    \A b \in {"locator", "ip"} :
        (key[b] # Unset /\ clock < key[b].expires)
        => key[b].count <= Limit + Cardinality(Callers) + faults

\* Around the end of a window, with requests under way and servers that
\* remember full buckets, the limits neither let more pass nor refuse longer
\* than they say (rate-limit.service.ts, account-api-key.service.ts).
LimitsAsTold ==
    /\ LimitsTypeOK /\ AtMostTwice /\ RetryAfterEndsWindow
    /\ MemoryEndsWithWindow /\ FailureWorkIsBounded
=============================================================================
