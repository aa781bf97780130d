--------------------------- MODULE SessionRenewal ---------------------------
(* The session cookie of one browser: the tabs that use and renew it          *)
(* (sceneboard-fe/lib/auth/renewal-singleflight.ts) and the server that       *)
(* rotates it and takes a rotated credential that comes again for a stolen    *)
(* one (sceneboard-be/src/auth/session.service.ts, sessions.repository.ts).   *)
(*                                                                            *)
(* A session stands for its cookie, for the CSRF token issued with it and for *)
(* the generation the server derives from the two.  Requests that may change  *)
(* the cookies are sent under an exclusive Web Lock and announced in          *)
(* localStorage first; other requests hold the lock shared until their        *)
(* response is read.  A request whose tab went away may still be served.      *)
EXTENDS Integers, FiniteSets, Sequences

CONSTANTS
    Tabs,          \* tabs of one browser
    MaxSessions,   \* bound: sessions the server creates
    NoRequest,     \* nothing on the wire
    Gone           \* sender of a request whose tab gave it up (one is followed)

(* Generations, besides that of a session: no cookie, the anonymous CSRF      *)
(* cookie, a request that may change the cookies is in flight, and none.      *)
Cleared == 0
Anonymous == -1
Unknown == -2
Unset == -3
Committed(g) == g \notin {Unknown, Unset}

VARIABLES
    sessions,  \* the server's auth_sessions: family, status and reason of each
    jar,       \* the cookies of the browser
    store,     \* the generation in localStorage
    observed,  \* of a tab: the generation it knows to be its own
    snapshot,  \* of a tab: the session its page shows, or Cleared
    binding,   \* of a tab: the generation an open dialog or upload is bound to
    call,      \* of a tab: the coordinator's call in progress
    wire,      \* of a tab: its request in flight
    lost       \* history: an answer was lost, a request not served or a page left

vars == <<sessions, jar, store, observed, snapshot, binding, call, wire, lost>>
browser == <<jar, store, observed, snapshot, binding, call>>

Senders == Tabs \cup {Gone}
Known == 1 .. Len(sessions)
ExclusiveCalls == {"reconcile", "login", "renew", "logout"}
SharedCalls == {"shared"}
Call == [kind : ExclusiveCalls \cup SharedCalls \cup {"none"},
         step : {"none", "queued", "session", "csrf", "submit", "rotate", "logout", "shared"},
         captured : 0 .. MaxSessions]
Request == [path : {"session", "csrf", "submit", "rotate", "logout", "shared"},
            cookie : Anonymous .. MaxSessions, header : Anonymous .. MaxSessions,
            bound : 0 .. MaxSessions, stage : {"sent", "resolved", "answered"},
            status : {"none", "ok", "unauthenticated", "refused", "unavailable"},
            generation : Unset .. MaxSessions]
Generations == Unset .. MaxSessions

SessionAssumption ==
    /\ MaxSessions \in Nat \ {0}
    /\ NoRequest \notin Request /\ Gone \notin Tabs

Typed ==
    /\ sessions \in Seq([family : 1 .. MaxSessions, reason : {"none", "logout", "reuse", "expired"},
                         status : {"active", "rotated", "revoked", "expired"}])
    /\ Len(sessions) <= MaxSessions
    /\ jar \in Anonymous .. MaxSessions
    /\ store \in Generations
    /\ observed \in [Tabs -> Generations]
    /\ snapshot \in [Tabs -> 0 .. MaxSessions]
    /\ binding \in [Tabs -> 0 .. MaxSessions]
    /\ call \in [Tabs -> Call]
    /\ wire \in [Senders -> Request \cup {NoRequest}]

TypeOK == Typed /\ lost \in BOOLEAN

NoCall == [kind |-> "none", step |-> "none", captured |-> 0]

Init ==
    /\ sessions = <<>>
    /\ jar = Cleared
    /\ store = Unset
    /\ observed = [t \in Tabs |-> Unset]
    /\ snapshot = [t \in Tabs |-> 0]
    /\ binding = [t \in Tabs |-> 0]
    /\ call = [t \in Tabs |-> NoCall]
    /\ wire = [w \in Senders |-> NoRequest]
    /\ lost = FALSE

-----------------------------------------------------------------------------
(* The server.                                                                *)

Reply(w, status, generation) ==
    wire' = [wire EXCEPT ![w] =
               IF w = Gone THEN NoRequest
               ELSE [@ EXCEPT !.stage = "answered", !.status = status, !.generation = generation]]

\* terminalizeFamily: every active session of the family is ended with it.
Terminalize(s, reason) ==
    sessions' = [x \in Known |->
                   IF sessions[x].family = sessions[s].family /\ sessions[x].status = "active"
                   THEN [sessions[x] EXCEPT !.status = IF reason = "expired" THEN "expired" ELSE "revoked",
                                            !.reason = reason]
                   ELSE sessions[x]]

\* resolve: what the server makes of a session cookie.  The cookies are cleared by
\* the answer to an exclusive request only.
Unauthenticated(w) ==
    Reply(w, "unauthenticated", IF wire[w].path = "shared" THEN Unset ELSE Cleared)

StatusOf(s) == IF s \in Known THEN sessions[s].status ELSE "absent"

Rejects(w) ==
    LET s == wire[w].cookie
    IN  /\ Unauthenticated(w)
        /\ \/ /\ StatusOf(s) \in {"absent", "revoked", "expired"}
              /\ UNCHANGED sessions
           \/ StatusOf(s) = "rotated" /\ Terminalize(s, "reuse")
           \/ StatusOf(s) = "active" /\ Terminalize(s, "expired")

Sent(w, path) == wire[w] # NoRequest /\ wire[w].stage = "sent" /\ wire[w].path = path
Active(w) == StatusOf(wire[w].cookie) = "active"

\* GET /auth/session, and any request of the application.
Resolve(w) ==
    /\ Sent(w, "session") \/ Sent(w, "shared")
    /\ \/ Rejects(w)
       \/ /\ Active(w)
          /\ Reply(w, "ok", IF wire[w].path = "shared" THEN Unset ELSE wire[w].cookie)
          /\ UNCHANGED sessions
    /\ UNCHANGED browser

\* GET /auth/csrf: not with a session cookie.
Csrf(w) ==
    /\ Sent(w, "csrf")
    /\ IF wire[w].cookie > 0 THEN Reply(w, "refused", Unset) ELSE Reply(w, "ok", Anonymous)
    /\ UNCHANGED <<sessions, browser>>

\* POST signup, login or google: a session of a new family, or wrong credentials.
Submit(w) ==
    /\ Sent(w, "submit")
    /\ \/ /\ wire[w].cookie = Anonymous /\ wire[w].header = Anonymous
          /\ Len(sessions) < MaxSessions
          /\ sessions' = Append(sessions, [family |-> Len(sessions) + 1, status |-> "active",
                                           reason |-> "none"])
          /\ Reply(w, "ok", Len(sessions) + 1)
       \/ /\ Reply(w, "refused", Unset)
          /\ UNCHANGED sessions
    /\ UNCHANGED browser

\* renew, up to its resolution of the cookie; the CSRF cookie must be the header's.
ResolveRenew(w) ==
    /\ Sent(w, "rotate")
    /\ \/ /\ wire[w].cookie # wire[w].header
          /\ Reply(w, "refused", Unset)
          /\ UNCHANGED sessions
       \/ /\ wire[w].cookie = wire[w].header
          /\ \/ Rejects(w)
             \/ /\ Active(w)
                /\ wire' = [wire EXCEPT ![w].stage = "resolved"]
                /\ UNCHANGED sessions
    /\ UNCHANGED browser

\* rotate, under the lock of the session's row; whoever finds it rotated already
\* holds a credential that was used, and the family is ended.  With no identifier
\* left (the bound; five collisions in the code) the session stays as it is.
Rotate(w) ==
    LET s == wire[w].cookie
    IN  /\ wire[w] # NoRequest /\ wire[w].stage = "resolved"
        /\ IF sessions[s].status = "active"
           THEN \/ /\ Len(sessions) < MaxSessions
                   /\ sessions' = Append([sessions EXCEPT ![s].status = "rotated"],
                                         [family |-> sessions[s].family, status |-> "active",
                                          reason |-> "none"])
                   /\ Reply(w, "ok", Len(sessions) + 1)
                \/ /\ Len(sessions) = MaxSessions
                   /\ Reply(w, "unavailable", Unset)
                   /\ UNCHANGED sessions
           ELSE /\ Terminalize(s, "reuse")
                /\ Unauthenticated(w)
        /\ UNCHANGED browser

\* logout, with the family the CSRF token belongs to.
Logout(w) ==
    LET s == wire[w].cookie
    IN  /\ Sent(w, "logout")
        /\ \/ /\ s = Cleared /\ wire[w].header = Cleared
              /\ Reply(w, "ok", Cleared)
              /\ UNCHANGED sessions
           \/ /\ s # Cleared \/ wire[w].header # Cleared
              /\ IF wire[w].header # s \/ StatusOf(s) = "expired"
                 THEN Reply(w, "refused", Unset) /\ UNCHANGED sessions
                 ELSE IF StatusOf(s) \in {"absent", "revoked"}
                 THEN Reply(w, "ok", Cleared) /\ UNCHANGED sessions
                 ELSE IF StatusOf(s) = "rotated"
                 THEN Terminalize(s, "reuse") /\ Unauthenticated(w)
                 ELSE Terminalize(s, "logout") /\ Reply(w, "ok", Cleared)
        /\ UNCHANGED browser

\* The transaction fails with its mandatory audit, or the database is away: nothing
\* is changed and the cookies stay.
Unavailable(w) ==
    /\ wire[w] # NoRequest /\ wire[w].stage # "answered"
    /\ Reply(w, "unavailable", Unset)
    /\ UNCHANGED <<sessions, browser>>

Serve(w) ==
    \/ Resolve(w) \/ Csrf(w) \/ Submit(w) \/ ResolveRenew(w) \/ Rotate(w) \/ Logout(w)

-----------------------------------------------------------------------------
(* The tabs.  A call past "queued" holds the lock until its last response.    *)

Holds(t) == call[t].step \notin {"none", "queued"}
CanShare(t) == \A x \in Tabs : Holds(x) => call[x].kind \in SharedCalls
CanLock(t) == \A x \in Tabs : ~Holds(x)
AtRest(t) == call[t] = NoCall
\* withApplicationLease
Admitted(t) == Committed(store) /\ observed[t] = store
\* provesCurrentGeneration
Proves(t, g) == g > 0 /\ observed[t] = g /\ store = g /\ snapshot[t] = g

Send(t, path, cookie, header, bound) ==
    wire' = [wire EXCEPT ![t] =
               [path |-> path, cookie |-> cookie, header |-> header, bound |-> bound,
                stage |-> "sent", status |-> "none", generation |-> Unset]]

\* Mutant: what was committed stays in the store while the request is out.
FetchExclusive_Silent(t, path, cookie, header) ==
    /\ observed' = [observed EXCEPT ![t] = Unset]
    /\ snapshot' = [snapshot EXCEPT ![t] = 0]
    /\ Send(t, path, cookie, header, 0)
    /\ UNCHANGED store

\* fetchExclusive: announce that the cookies may change, forget what was known, send.
FetchExclusive(t, path, cookie, header) ==
    /\ store' = Unknown
    /\ observed' = [observed EXCEPT ![t] = Unset]
    /\ snapshot' = [snapshot EXCEPT ![t] = 0]
    /\ Send(t, path, cookie, header, 0)

Enter(t, kind, step, captured) ==
    call' = [call EXCEPT ![t] = [kind |-> kind, step |-> step, captured |-> captured]]

\* reconcileSessionGeneration
Reconcile(t) ==
    /\ AtRest(t) /\ CanLock(t)
    /\ Enter(t, "reconcile", "session", 0)
    /\ FetchExclusive(t, "session", jar, Cleared)
    /\ UNCHANGED <<sessions, jar, binding>>

\* authenticate
Authenticate(t) ==
    /\ AtRest(t) /\ CanLock(t) /\ Admitted(t)
    /\ Len(sessions) < MaxSessions
    /\ Enter(t, "login", "session", 0)
    /\ FetchExclusive(t, "session", jar, Cleared)
    /\ UNCHANGED <<sessions, jar, binding>>

\* renewSession: the session to renew is the one shown when the renewal is asked for.
AskRenewal(t) ==
    /\ AtRest(t)
    /\ Enter(t, "renew", "queued", snapshot[t])
    /\ UNCHANGED <<sessions, jar, store, observed, snapshot, binding, wire>>

Renew(t) ==
    /\ call[t].step = "queued" /\ CanLock(t)
    /\ \/ /\ Admitted(t)
          /\ call' = [call EXCEPT ![t].step = "session"]
          /\ FetchExclusive(t, "session", jar, Cleared)
       \/ /\ ~Admitted(t)
          /\ call' = [call EXCEPT ![t] = NoCall]
          /\ UNCHANGED <<store, observed, snapshot, wire>>
    /\ UNCHANGED <<sessions, jar, binding>>

LogOut(t) ==
    /\ AtRest(t) /\ CanLock(t) /\ Admitted(t)
    /\ Enter(t, "logout", "logout", 0)
    /\ FetchExclusive(t, "logout", jar, snapshot[t])
    /\ UNCHANGED <<sessions, jar, binding>>

\* bindCurrentGeneration, bindBoardBinaryAttempt
Bind(t) ==
    /\ AtRest(t) /\ CanShare(t) /\ Admitted(t)
    /\ Proves(t, observed[t])
    /\ binding' = [binding EXCEPT ![t] = observed[t]]
    /\ UNCHANGED <<sessions, jar, store, observed, snapshot, call, wire>>

\* dispatchShared and withBoardStream; dispatchSharedForGeneration and
\* dispatchBoardBinary for what was bound.
Dispatch(t) ==
    /\ AtRest(t) /\ CanShare(t) /\ Admitted(t)
    /\ Enter(t, "shared", "shared", 0)
    /\ \/ Send(t, "shared", jar, snapshot[t], 0)
       \/ Proves(t, binding[t]) /\ Send(t, "shared", jar, snapshot[t], binding[t])
    /\ UNCHANGED <<sessions, jar, store, observed, snapshot, binding>>

-----------------------------------------------------------------------------
(* The answers.  The browser stores the cookies of an answer as it comes.     *)

Answer(t) == wire[t]
Answered(t, step) == call[t].step = step /\ Answer(t) # NoRequest /\ Answer(t).stage = "answered"
SetCookies(t) == jar' = IF Answer(t).generation = Unset THEN jar ELSE Answer(t).generation

\* commitGeneration, commitClearedGeneration
Commit(t, g) ==
    /\ store' = g
    /\ observed' = [observed EXCEPT ![t] = g]
    /\ snapshot' = [snapshot EXCEPT ![t] = g]
\* invalidate: the announcement stays.
Invalidate(t) ==
    /\ observed' = [observed EXCEPT ![t] = Unset]
    /\ snapshot' = [snapshot EXCEPT ![t] = 0]
    /\ UNCHANGED store
Finish(t) ==
    /\ call' = [call EXCEPT ![t] = NoCall]
    /\ wire' = [wire EXCEPT ![t] = NoRequest]

StillAsked(t, g) == call[t].kind = "renew" /\ call[t].captured = g

\* The probe every exclusive call but a logout begins with.
Probed(t) ==
    LET g == Answer(t).generation
    IN  /\ Answered(t, "session")
        /\ SetCookies(t)
        /\ \/ /\ Answer(t).status = "ok"
              /\ IF StillAsked(t, g)
                 THEN /\ call' = [call EXCEPT ![t].step = "rotate"]
                      /\ FetchExclusive(t, "rotate", jar', g)
                 ELSE Commit(t, g) /\ Finish(t)
           \/ /\ Answer(t).status = "unauthenticated"
              /\ IF call[t].kind = "login"
                 THEN /\ call' = [call EXCEPT ![t].step = "csrf"]
                      /\ FetchExclusive(t, "csrf", jar', Cleared)
                 ELSE Commit(t, g) /\ Finish(t)
           \/ /\ Answer(t).status = "unavailable"
              /\ Invalidate(t)
              /\ Finish(t)
        /\ UNCHANGED <<sessions, binding>>

CsrfIssued(t) ==
    /\ Answered(t, "csrf")
    /\ SetCookies(t)
    /\ IF Answer(t).status = "ok"
       THEN /\ call' = [call EXCEPT ![t].step = "submit"]
            /\ FetchExclusive(t, "submit", jar', Anonymous)
       ELSE Invalidate(t) /\ Finish(t)
    /\ UNCHANGED <<sessions, binding>>

\* The last answer of a login, a renewal or a logout.
Settled(t) ==
    /\ \E step \in {"submit", "rotate", "logout"} : Answered(t, step)
    /\ SetCookies(t)
    /\ IF Answer(t).status = "ok" THEN Commit(t, Answer(t).generation) ELSE Invalidate(t)
    /\ Finish(t)
    /\ UNCHANGED <<sessions, binding>>

\* A shared request; a 401 asks for a reconciliation, which is a call of its own.
Consumed(t) ==
    /\ Answered(t, "shared")
    /\ Finish(t)
    /\ UNCHANGED <<sessions, jar, store, observed, snapshot, binding>>

Receive(t) == Probed(t) \/ CsrfIssued(t) \/ Settled(t) \/ Consumed(t)

-----------------------------------------------------------------------------
\* What was sent and not answered may reach the server yet; of what was answered the
\* cookies may have been stored.
GiveUp(t) ==
    LET answered == Answer(t) # NoRequest /\ Answer(t).stage = "answered"
    IN  /\ wire[Gone] = NoRequest
        /\ wire' = [wire EXCEPT ![t] = NoRequest,
                                ![Gone] = IF answered THEN NoRequest ELSE Answer(t)]
        /\ UNCHANGED jar \/ (answered /\ SetCookies(t))

\* The fetch rejects: the answer is lost, or a shared request is aborted.
Reject(t) ==
    /\ Answer(t) # NoRequest
    /\ GiveUp(t)
    /\ call' = [call EXCEPT ![t] = NoCall]
    /\ IF call[t].kind = "shared"
       THEN UNCHANGED <<store, observed, snapshot>>
       ELSE Invalidate(t)
    /\ UNCHANGED <<sessions, binding>>

\* ensureSupported takes the stored generation over in the new page.
Reload(t) ==
    /\ GiveUp(t)
    /\ call' = [call EXCEPT ![t] = NoCall]
    /\ observed' = [observed EXCEPT ![t] = IF Committed(store) THEN store ELSE Unset]
    /\ snapshot' = [snapshot EXCEPT ![t] = 0]
    /\ binding' = [binding EXCEPT ![t] = 0]
    /\ UNCHANGED <<sessions, store>>

Work ==
    \/ \E w \in Senders : Serve(w)
    \/ \E t \in Tabs :
         \/ Reconcile(t) \/ Authenticate(t) \/ AskRenewal(t) \/ Renew(t) \/ LogOut(t)
         \/ Bind(t) \/ Dispatch(t) \/ Receive(t)

Trouble ==
    \/ \E w \in Senders : Unavailable(w)
    \/ \E t \in Tabs : Reject(t) \/ Reload(t)

Next ==
    \/ Work /\ UNCHANGED lost
    \/ Trouble /\ lost' = TRUE

Spec == Init /\ [][Next]_vars

-----------------------------------------------------------------------------
(* A family has one credential that works: two renewals never leave two.      *)
OneActive ==
    \A s, x \in Known : s # x /\ sessions[s].family = sessions[x].family
                          => ~(sessions[s].status = "active" /\ sessions[x].status = "active")

(* A generation in localStorage that is not an announcement is that of the    *)
(* cookies, whatever was lost, reloaded or refused before: a tab that knows   *)
(* it knows whose request it is about to send.                                *)
StoreTellsJar == Committed(store) => jar = store

(* A dialog or an upload that was bound to a session is never sent with the   *)
(* cookie of another one.                                                     *)
BoundToItsSession ==
    \A t \in Tabs : Answer(t) # NoRequest /\ Answer(t).bound # 0
                      => Answer(t).cookie = Answer(t).bound

(* A renewal rotates the session it was asked for.  A tab that waited for the *)
(* lock while another tab renewed finds the new session and is content.       *)
RenewsWhatWasAsked ==
    \A t \in Tabs : Answer(t) # NoRequest /\ Answer(t).path = "rotate"
                      => Answer(t).cookie = call[t].captured

(* No tab ever presents a credential the server has rotated, so that renewing *)
(* is never mistaken for theft.                                               *)
NeverTakenForTheft == \A s \in Known : sessions[s].reason # "reuse"

(* The tabs of a browser share one session: they know whose cookies they      *)
(* send, whatever is lost or reloaded, and while nothing is, none of them is  *)
(* taken for a thief.                                                         *)
SessionIsOne ==
    /\ TypeOK /\ OneActive /\ StoreTellsJar /\ BoundToItsSession /\ RenewsWhatWasAsked
    /\ ~lost => NeverTakenForTheft
=============================================================================
